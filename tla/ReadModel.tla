------------------------------ MODULE ReadModel ------------------------------
(***************************************************************************)
(* The public read model in D1 and the writer that applies canonical       *)
(* events to it (D1ProjectionWriter.apply), in any order and any number of *)
(* times.  An event is its sync_version, which one database sequence hands *)
(* out, so the versions of one aggregate are in commit order.  A row is the*)
(* version of the upsert that wrote it, 0 when there is none.              *)
(***************************************************************************)
EXTENDS Naturals

CONSTANTS
  Aggregate,  \* published things: content items, redirects, ...
  Key,        \* key-column values of their D1 table
  KeysOf,     \* the keys an aggregate may have: its own id, or any path
  None,       \* no event, no key
  MaxVersion  \* bound on the events emitted

Version == 1..MaxVersion
Action  == {"upsert", "delete", "unprojectable"}
Event   == [aggregate : Aggregate, action : Action, key : Key]

ASSUME ReadModelAssumption ==
  /\ KeysOf \in [Aggregate -> SUBSET Key]
  /\ None \notin Key /\ None \notin Event
  /\ MaxVersion \in Nat

VARIABLES
  log,        \* the canonical event of each version, None before it is emitted
  published,  \* the key each aggregate is published under, or None
  rows,       \* the D1 table: the version shown under each key
  receipts    \* versions in projection_receipts

vars == <<log, published, rows, receipts>>

Emitted(v)     == log[v] # None
Projectable(v) == Emitted(v) /\ log[v].action # "unprojectable"

Init ==
  /\ log       = [v \in Version |-> None]
  /\ published = [a \in Aggregate |-> None]
  /\ rows      = [k \in Key |-> 0]
  /\ receipts  = {}

\* A canonical change and its event commit together; a key is published by one
\* aggregate at a time.  An event without projector, or without a required
\* public field, is unprojectable.
Emit(v, a, action, k) ==
  /\ k \in KeysOf[a]
  /\ ~Emitted(v) /\ \A w \in Version : w < v => Emitted(w)
  /\ action = "upsert" => \A b \in Aggregate \ {a} : published[b] # k
  /\ action = "delete" => published[a] = k
  /\ log' = [log EXCEPT ![v] = [aggregate |-> a, action |-> action, key |-> k]]
  /\ published' = [published EXCEPT ![a] = CASE action = "upsert" -> k
                                             [] action = "delete" -> None
                                             [] OTHER -> @]
  /\ UNCHANGED <<rows, receipts>>

\* The versions of an aggregate that have a receipt.
Recorded(a) == {w \in receipts : log[w].aggregate = a}

\* Mutants of Fresh: the watermark is dropped, or only looks for the event itself.
FreshAlways(v)  == v \in Version
FreshUnequal(v) == v \notin receipts

\* The watermark: no receipt of the aggregate is as new as the event.
Fresh(v) == \A w \in Recorded(log[v].aggregate) : w < v

\* The guarded mutation.  An upsert also tests the version of the row it meets.
Shown(v) ==
  LET k == log[v].key IN
  IF ~Fresh(v) THEN rows
  ELSE IF log[v].action = "delete" THEN [rows EXCEPT ![k] = 0]
  ELSE IF rows[k] < v THEN [rows EXCEPT ![k] = v]
  ELSE rows

\* The mutation and its receipt are one D1 batch, hence one transaction.
ApplyBatch(v) ==
  /\ Projectable(v)
  /\ rows' = Shown(v)
  /\ receipts' = receipts \cup {v}
  /\ UNCHANGED <<log, published>>

Next ==
  \/ \E v \in Version : ApplyBatch(v)
  \/ \E v \in Version, a \in Aggregate, action \in Action, k \in Key : Emit(v, a, action, k)

Spec == Init /\ [][Next]_vars

-----------------------------------------------------------------------------

\* Every variable has its type.
TypeOK ==
  /\ log       \in [Version -> Event \cup {None}]
  /\ published \in [Aggregate -> Key \cup {None}]
  /\ rows      \in [Key -> 0..MaxVersion]
  /\ receipts  \subseteq {v \in Version : Projectable(v)}

\* Each aggregate has a key of its own, as in the tables keyed by id.
KeyedById ==
  /\ \A a \in Aggregate : \E k \in Key : KeysOf[a] = {k}
  /\ \A a, b \in Aggregate : KeysOf[a] \cap KeysOf[b] # {} => a = b

\* The newest recorded version of a, if it has one, is v.
Newest(a, v) == v \in Recorded(a) /\ \A w \in Recorded(a) : w <= v

\* In a table keyed by id, whatever the order and number of applications, the
\* row of an aggregate is what its newest applied event says: the upsert of that
\* version, or nothing after a delete.
NewestWins ==
  KeyedById =>
    \A a \in Aggregate : \A k \in KeysOf[a] :
      /\ rows[k] # 0 => Newest(a, rows[k])
      /\ \A v \in Version :
           Newest(a, v) => rows[k] = IF log[v].action = "upsert" THEN v ELSE 0

\* What is published is what the newest projectable event of an aggregate says.
NewestEvent(a, v) ==
  /\ Projectable(v) /\ log[v].aggregate = a
  /\ \A w \in Version : Projectable(w) /\ log[w].aggregate = a => w <= v

PublishedIsNewest ==
  \A a \in Aggregate :
    /\ published[a] # None => \E v \in Version : NewestEvent(a, v)
    /\ \A v \in Version :
         NewestEvent(a, v) =>
           published[a] = IF log[v].action = "upsert" THEN log[v].key ELSE None

\* Once every projectable event is applied, in whatever order, the tables keyed
\* by id show exactly what is published.
Converges ==
  KeyedById /\ (\A v \in Version : Projectable(v) => v \in receipts) =>
    \A a \in Aggregate : \A k \in KeysOf[a] : rows[k] # 0 <=> published[a] = k

\* "Receipt watermarks suppress duplicate and stale versions": a row changes
\* only when an event newer than the row is applied for the first time.
StaleSuppressed ==
  [][\A k \in Key : rows'[k] # rows[k] => \E v \in receipts' \ receipts : v > rows[k]]_vars

=============================================================================
