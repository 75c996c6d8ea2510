------------------------------ MODULE Policies ------------------------------
(* Row-level security of the Data API: who may do what to the rows of the
   canonical tables. A behaviour is about one table, one row of it and one caller,
   whose permissions an administrator may change. *)
EXTENDS PolicyTables

VARIABLES
  table,     \* the table the statements are about
  caller,    \* the database role of the caller: "anon" or "authenticated"
  permitted, \* the permissions app.has_permission finds for the caller
  row        \* "absent", "hidden" or "shown"

policyVars == <<table, caller, permitted, row>>

-----------------------------------------------------------------------------
(* Row-level security as Postgres applies it. *)
Has(permissions) == caller = "authenticated" /\ permitted \cap permissions # {}

Sees(p, r) ==
  \/ p.everyone
  \/ r = "shown" /\ (p.public \/ (caller = "authenticated" /\ "select" \in p.self))
  \/ Has(p.read)

May(p, command, r) ==
  \/ Has(p.write[command])
  \/ r = "shown" /\ caller = "authenticated" /\ command \in p.self
  \/ caller = "anon" /\ command \in p.anon

(* Whether a statement is done to the row as it is, which an insert makes and an
   update turns into `new`. It is refused if the caller's role was never granted the
   command, a row the caller cannot see is not found, and an update may not make a
   row the caller cannot see. *)
Done(p, command, new) ==
  /\ command \in IF caller = "anon" THEN p.anon ELSE p.granted
  /\ command = "insert" => row = "absent" /\ May(p, "insert", new)
  /\ command # "insert" => row # "absent" /\ Sees(p, row)
  /\ command \in {"update", "delete"} => May(p, command, row)
  /\ command = "update" => May(p, "update", new) /\ Sees(p, new)
-----------------------------------------------------------------------------
PoliciesInit ==
  /\ table \in PolicyTable
  /\ caller \in {"anon", "authenticated"}
  /\ \E role \in DOMAIN Seed : permitted = Seed[role] \cap Asked(table)
  /\ row \in {"absent", "hidden", "shown"}

AddRow ==
  /\ \E new \in {"hidden", "shown"} :
       Done(Optimized[table], "insert", new) /\ row' = new
  /\ UNCHANGED <<table, caller, permitted>>

ChangeRow ==
  /\ \E new \in {"hidden", "shown"} :
       Done(Optimized[table], "update", new) /\ row' = new
  /\ UNCHANGED <<table, caller, permitted>>

RemoveRow ==
  /\ Done(Optimized[table], "delete", row)
  /\ row' = "absent"
  /\ UNCHANGED <<table, caller, permitted>>

\* The caller's roles, or what they grant, are changed by someone else.
ChangeGrants ==
  /\ permitted' \in SUBSET Asked(table)
  /\ UNCHANGED <<table, caller, row>>

PoliciesNext == AddRow \/ ChangeRow \/ RemoveRow \/ ChangeGrants

PoliciesSpec == PoliciesInit /\ [][PoliciesNext]_policyVars
-----------------------------------------------------------------------------
PoliciesTypeOK ==
  /\ table \in PolicyTable
  /\ caller \in {"anon", "authenticated"}
  /\ permitted \subseteq AllPermissions \cup UNION {Seed[r] : r \in DOMAIN Seed}
  /\ row \in {"absent", "hidden", "shown"}

(* The cheaper policies opened nothing: whatever statement they let through, for
   any caller, permissions, row and change of a row, the original policies let
   through as well. *)
NothingOpened ==
  \A command \in Commands, new \in {"hidden", "shown"} :
    Done(Optimized[table], command, new) => Done(Original[table], command, new)

(* Who may make a link between an item and a category or a tag may take it back:
   content.write is to "Create and edit content and taxonomy", says the seed. *)
TaxonomyIsEditable ==
  [][AddRow /\ table \in {"content_categories", "content_tags"}
       => Done(Optimized[table], "delete", row)']_policyVars
=============================================================================
