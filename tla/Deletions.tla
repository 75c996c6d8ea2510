------------------------------ MODULE Deletions ------------------------------
(***************************************************************************)
(* What a delete takes with it: the actions of the SchemaKeys, and the     *)
(* triggers that these actions set off - rows that are append-only, system *)
(* roles, revisions of content, and the events for the public read model.  *)
(*                                                                         *)
(* A row is its table and a number; its columns are those that refer to    *)
(* other rows.  The revisions of an item, which Content counts, are one    *)
(* row.  What Postgres does with a key is external: a restricting one      *)
(* refuses the statement, a cascade deletes and "set null" updates the     *)
(* rows that refer to what is deleted, and both fire the triggers of those *)
(* rows.                                                                   *)
(***************************************************************************)
EXTENDS SchemaKeys, Naturals, FiniteSets, TLC

CONSTANTS
  Copies,   \* bound: rows of one table
  MaxRows,  \* bound: rows in all
  Null

ASSUME DeletionsAssumption == Null \notin Tables \X (1..Copies)

VARIABLES
  rows,    \* the rows that are there, with what their columns refer to
  last,    \* how the last statement ended
  announced     \* the rows it wrote events for

deletionVars == <<rows, last, announced>>

------------------------------------------------------------------------------
(* Rows. *)

Row     == Tables \X (1..Copies)
Table(r) == r[1]
Present == DOMAIN rows
Refer(r, k) == rows[r][k.column]

\* What the columns of these keys may refer to: rows of the table they name.
Fillings(keys, orNull) ==
  {f \in [{k.column : k \in keys} -> {q \in Present : \E k \in keys : Table(q) = k.to} \cup orNull] :
     \A k \in keys : f[k.column] \in orNull \/ Table(f[k.column]) = k.to}

\* The columns, or rows, of f with those of g.
Joined(f, g) == [c \in DOMAIN f \cup DOMAIN g |-> IF c \in DOMAIN f THEN f[c] ELSE g[c]]

References(table) ==
  LET must == {k \in KeysOf[table] : k.required}
      may  == KeysOf[table] \ must
  IN  {Joined(f[1], f[2]) : f \in Fillings(must, {}) \X Fillings(may, {Null})}

\* A link names a tool or an offer.
Allowed(table, refs) == table = "affiliate_links" => \E c \in DOMAIN refs : refs[c] # Null

\* The first role is a system role.
SystemRole(r) == r = <<"roles", 1>>

Fresh(r) == r \notin Present /\ \A n \in 1..(r[2] - 1) : <<r[1], n>> \in Present

Room == Cardinality(Present) < MaxRows

\* The rows with these ones more.
Adding(more) == Joined(rows, more)

\* A trigger captures the first revision of an item.
Insert(r, refs) ==
  /\ Table(r) # "content_revisions" /\ Allowed(Table(r), refs)
  /\ \/ /\ Table(r) # "content_items"
        /\ rows' = Adding([q \in {r} |-> refs])
     \/ /\ Table(r) = "content_items"
        /\ rows' = Adding([q \in {r, <<"content_revisions", r[2]>>} |->
                             IF q = r THEN refs ELSE [content_id |-> r, created_by |-> refs["updated_by"]]])
  /\ last' = "inserted" /\ announced' = {r} \cap {q \in Row : Table(q) \in Projected}

------------------------------------------------------------------------------
(* Deletes. *)

\* Rows that refer to one of S by a key of this action.
Referring(S, action) ==
  {q \in Present : \E k \in KeysOf[Table(q)] : k.onDelete = action /\ Refer(q, k) \in S}

\* The cascade: the least set with the row that has what refers to it by a cascading key.
Gone(r) ==
  {q \in Present : \A S \in SUBSET Present : r \in S /\ Referring(S, "cascade") \subseteq S => q \in S}

Changed(gone) == Referring(gone, "set null") \ gone

\* Mutant of Protected: the trigger is there for updates alone.
ProtectedFromUpdates(gone, changed) == \E q \in changed : Table(q) \in AppendOnly

Protected(gone, changed) == \E q \in gone \cup changed : Table(q) \in AppendOnly

IsRefused(gone, changed) ==
  \/ Referring(gone, "restrict") # {}
  \/ Protected(gone, changed)
  \/ \E q \in gone : SystemRole(q)

Cleared(q, gone) ==
  [c \in DOMAIN rows[q] |-> IF rows[q][c] \in gone THEN Null ELSE rows[q][c]]

\* Each trigger of a projected table writes an event, whichever statement set it off.
Told(r, gone, changed) == {q \in gone \cup changed : Table(q) \in Projected}

Delete(r) ==
  LET gone == Gone(r)
      changed == Changed(gone)
  IN  IF IsRefused(gone, changed)
      THEN last' = "refused" /\ announced' = {} /\ UNCHANGED rows
      ELSE /\ rows' = [q \in Present \ gone |-> IF q \in changed THEN Cleared(q, gone) ELSE rows[q]]
           /\ last' = "deleted" /\ announced' = Told(r, gone, changed)

DeletionsInit == rows = [r \in {} |-> Null] /\ last = "none" /\ announced = {}

DeletionsNext ==
  \/ \E r \in Row : Room /\ Fresh(r) /\ \E refs \in References(Table(r)) : Insert(r, refs)
  \/ \E r \in Present : Delete(r)

DeletionsSpec == DeletionsInit /\ [][DeletionsNext]_deletionVars

------------------------------------------------------------------------------

DeletionsTypeOK ==
  /\ Present \subseteq Row /\ announced \subseteq Row
  /\ last \in {"none", "inserted", "deleted", "refused"}
  /\ \A r \in Present : \A k \in KeysOf[Table(r)] : Refer(r, k) \in Row \cup {Null}

\* Whatever a delete takes and clears on its way, every column refers to a row that is
\* there, of the table its key names; none that must refer to one is left empty, and no
\* link is left that names neither a tool nor an offer.
ReferencesHold ==
  \A r \in Present :
    /\ \A k \in KeysOf[Table(r)] :
         IF Refer(r, k) = Null THEN ~k.required
         ELSE Refer(r, k) \in Present /\ Table(Refer(r, k)) = k.to
    /\ Allowed(Table(r), rows[r])

\* What lasts: rows that are append-only, and system roles.
Lasting == {r \in Present : Table(r) \in AppendOnly \/ SystemRole(r)}

\* What the rows of S rest on: what they must refer to, and whatever a row names that
\* is append-only, which cannot let go of it.
RestsOn(S) ==
  {q \in Present : \E r \in S : \E k \in KeysOf[Table(r)] :
     Refer(r, k) = q /\ (k.required \/ Table(r) \in AppendOnly)}

\* All that it rests on, however indirectly: the item of a revision and its authors.
Grounds ==
  {q \in Present : \A S \in SUBSET Present : Lasting \subseteq S /\ RestsOn(S) \subseteq S => q \in S}

\* A step takes nothing that history rests on, and changes no row of history.
StandingKept ==
  /\ Grounds \subseteq Present'
  /\ \A r \in Present : Table(r) \in AppendOnly => rows'[r] = rows[r]

\* As long as there is a row that history does not rest on, there is one of them that
\* may be deleted, so that all of them may be, one after the other.
RestIsErasable ==
  Present # Grounds => \E r \in Present \ Grounds : ~IsRefused(Gone(r), Changed(Gone(r)))

\* No statement, whichever row it names and whatever that cascades to or clears, takes
\* anything that history rests on, or changes a row of history.
HistoryStands == [][StandingKept]_deletionVars

\* What can never be erased is exactly what history and the system roles rest on: the
\* keys of all tables and the triggers of a few agree on it.
HistoryAloneLasts == [][StandingKept /\ RestIsErasable']_deletionVars

\* What the keys say: the delete of a row that may be deleted at all is refused by a
\* restricting key or for a system role; "on delete cascade" and "on delete set null"
\* let it pass.
KeysMeanWhatTheySay ==
  [][\A r \in Present :
       Table(r) \notin AppendOnly /\ Delete(r) /\ last' = "refused" =>
         Referring(Gone(r), "restrict") # {} \/ \E q \in Gone(r) : SystemRole(q)]_deletionVars
==============================================================================
