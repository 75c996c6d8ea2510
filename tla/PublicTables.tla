----------------------------- MODULE PublicTables -----------------------------
(***************************************************************************)
(* The tables of the read model that are keyed by id, with the rows in     *)
(* them and the constraints of D1: a slug is unique in its table, an offer *)
(* refers to a tool that is there, a navigation entry to its parent.  An   *)
(* event that a constraint refuses changes nothing, and its message is     *)
(* retried.  The events themselves are those of module ReadModel.          *)
(***************************************************************************)
EXTENDS Naturals, PublicSchema

CONSTANTS
  Entity,      \* what has a row of its own
  TableOf,     \* the table of each entity
  Upserts,     \* what the upserts of an entity may say: slug, ref, and whether
               \* they carry the columns that are not required
  Null,        \* no event, no row, no reference
  MaxEvents    \* bound on the events emitted

Serial      == 1..MaxEvents
SchemaOf(a) == Tables[TableOf[a]]

Change ==
  (UNION {[aggregate : {a}, action : {"upsert"}, says : Upserts[a]] : a \in Entity})
    \cup [aggregate : Entity, action : {"delete"}, says : {Null}]
Slug  == UNION {{says.slug : says \in Upserts[a]} : a \in Entity}
Ref   == Entity \cup {Null}
Entry == [slug : Slug, ref : Ref]
Row   == [version : Serial, slug : Slug, ref : Ref, note : 0..MaxEvents]

\* A reference is to the table the foreign key names.
ASSUME PublicTablesAssumption ==
  /\ TableOf \in [Entity -> DOMAIN Tables]
  /\ DOMAIN Upserts = Entity
  /\ \A a \in Entity : \A says \in Upserts[a] :
       /\ says.note \in BOOLEAN
       /\ says.ref # Null => says.ref \in Entity /\ TableOf[says.ref] = SchemaOf(a).refers
  /\ MaxEvents \in Nat
  /\ Null \notin Entity \cup Change \cup Entry \cup Row

\* Nor is it an event as ReadModel sees it.
ASSUME NullAssumption == Null \notin [aggregate : Entity, action : {"upsert", "delete"}, key : Entity]

VARIABLES
  events,   \* the canonical event of each version, Null before it is emitted
  shown,    \* what is published of each entity, or Null
  tables,   \* the row of each entity, or Null; "note" is the version that wrote
            \* the columns that are not required, 0 for none
  recorded  \* versions in projection_receipts

tablesVars == <<events, shown, tables, recorded>>

TablesInit ==
  /\ events   = [v \in Serial |-> Null]
  /\ shown    = [a \in Entity |-> Null]
  /\ tables   = [a \in Entity |-> Null]
  /\ recorded = {}

HasEvent(v)  == events[v] # Null
Rivals(a)    == {b \in Entity \ {a} : TableOf[b] = TableOf[a]}
Referring(B) == {b \in Entity : tables[b] # Null /\ tables[b].ref \in B}

\* The index of the canonical table is that of D1.
Taken(slug, a, by) == SchemaOf(a).unique /\ \E b \in Rivals(a) : by[b] # Null /\ by[b].slug = slug

Commit(v, e) ==
  /\ ~HasEvent(v) /\ \A w \in Serial : w < v => HasEvent(w)
  /\ events' = [events EXCEPT ![v] = e]

\* published, updated; the event says what the entity refers to, null for nothing
EmitUpsert(v, a, says) ==
  /\ ~Taken(says.slug, a, shown)
  /\ Commit(v, [aggregate |-> a, action |-> "upsert", says |-> says])
  /\ shown' = [shown EXCEPT ![a] = [slug |-> says.slug, ref |-> says.ref]]
  /\ UNCHANGED <<tables, recorded>>

\* unpublished, archived, expired, deleted
EmitDelete(v, a) ==
  /\ shown[a] # Null
  /\ Commit(v, [aggregate |-> a, action |-> "delete", says |-> Null])
  /\ shown' = [shown EXCEPT ![a] = Null]
  /\ UNCHANGED <<tables, recorded>>

\* Mutant of Newer: the watermark only looks for the event itself.
NewerUnequal(v) == v \notin recorded

\* The watermark.
Newer(v) == \A w \in recorded : events[w].aggregate = events[v].aggregate => w < v

\* Mutant of Upserted: an existing row keeps its slug.
UpsertedOnce(v) ==
  LET a == events[v].aggregate  says == events[v].says IN
  [tables EXCEPT ![a] =
     [version |-> v, slug |-> IF @ = Null THEN says.slug ELSE @.slug, ref |-> says.ref,
      note |-> IF says.note THEN v ELSE IF @ = Null THEN 0 ELSE @.note]]

\* Columns an event does not carry keep what is there.
Upserted(v) ==
  LET a == events[v].aggregate  says == events[v].says IN
  [tables EXCEPT ![a] =
     [version |-> v, slug |-> says.slug, ref |-> says.ref,
      note |-> IF says.note THEN v ELSE IF @ = Null THEN 0 ELSE @.note]]

\* The referential actions of one delete: rows of tables that cascade go with the
\* row they refer to, and so on down.
Cascading == {b \in Entity : tables[b] # Null /\ SchemaOf(b).onDelete = "cascade"}

Below(a) ==
  LET taken(S) == {b \in Cascading : tables[b].ref \in S \cup {a}} IN
  {a} \cup {b \in Cascading : \A S \in SUBSET Cascading : taken(S) \subseteq S => b \in S}

Deleted(v) ==
  LET gone == Below(events[v].aggregate) IN
  [b \in Entity |->
     IF b \in gone THEN Null
     ELSE IF b \in Referring(gone) THEN [tables[b] EXCEPT !.ref = Null]
     ELSE tables[b]]

\* The batch fails: another row has the slug, or the row referred to is not there.
Refused(v) ==
  /\ Newer(v) /\ events[v].action = "upsert"
  /\ \/ Taken(events[v].says.slug, events[v].aggregate, tables)
     \/ events[v].says.ref # Null /\ tables[events[v].says.ref] = Null

ApplyEvent(v) ==
  /\ HasEvent(v) /\ ~Refused(v)
  /\ tables' = IF ~Newer(v) THEN tables
               ELSE IF events[v].action = "upsert" THEN Upserted(v) ELSE Deleted(v)
  /\ recorded' = recorded \cup {v}
  /\ UNCHANGED <<events, shown>>

\* Steps of the events of some aggregates.
Steps(A) ==
  \E v \in Serial :
    \/ \E a \in A : (\E says \in Upserts[a] : EmitUpsert(v, a, says)) \/ EmitDelete(v, a)
    \/ ApplyEvent(v)

TablesNext == Steps(Entity)

TablesSpec == TablesInit /\ [][TablesNext]_tablesVars

-----------------------------------------------------------------------------

\* Every variable has its type.
TablesTypeOK ==
  /\ events   \in [Serial -> Change \cup {Null}]
  /\ shown    \in [Entity -> Entry \cup {Null}]
  /\ tables   \in [Entity -> Row \cup {Null}]
  /\ recorded \subseteq {v \in Serial : HasEvent(v)}

\* The newest event of b before v, if it has one, publishes it.
Before(b, v) == {w \in 1..(v - 1) : events[w].aggregate = b}
Known(b, v)  == \E w \in Before(b, v) :
                  events[w].action = "upsert" /\ \A u \in Before(b, v) : u <= w

\* Something of that table was withdrawn before v, and may have taken rows along.
Withdrawn(table, v) ==
  \E w \in 1..(v - 1) : events[w].action = "delete" /\ TableOf[events[w].aggregate] = table

\* An event whose predecessors are all recorded, in whatever order they were, is
\* never refused, unless it refers to what is not published or was taken along
\* when something above it was withdrawn.
OnlyOrderRefuses ==
  \A v \in Serial :
    HasEvent(v) /\ recorded = 1..(v - 1) /\ Refused(v) =>
      LET ref == events[v].says.ref IN
      ref # Null /\ (~Known(ref, v) \/ (SchemaOf(ref).onDelete = "cascade" /\ Withdrawn(TableOf[ref], v)))

\* Once every event is recorded, in whatever order, the tables show what is
\* published under the slug it is published with; only the withdrawal of a row it
\* refers to may have cut the reference, or taken the row along.
ShownAsPublished ==
  (\A v \in Serial : HasEvent(v) => v \in recorded) =>
    \A a \in Entity :
      IF shown[a] = Null THEN tables[a] = Null
      ELSE LET ref == shown[a].ref
               cut == ref # Null /\ Withdrawn(TableOf[ref], MaxEvents + 1)
           IN IF tables[a] = Null THEN cut /\ SchemaOf(a).onDelete = "cascade"
              ELSE /\ tables[a].slug = shown[a].slug
                   /\ tables[a].ref # ref => cut /\ SchemaOf(a).onDelete = "set null" /\ tables[a].ref = Null

\* What an event did not carry was said by an older event of the same aggregate.
NotesAreOwn ==
  \A a \in Entity :
    tables[a] # Null =>
      LET note == tables[a].note IN
      /\ note # 0 => note <= tables[a].version /\ events[note].aggregate = a /\ events[note].says.note
      /\ events[tables[a].version].says.note => note = tables[a].version

\* Constraints of the tables and the order of events do not keep the read model
\* from what is published.
TablesConverge == TablesTypeOK /\ OnlyOrderRefuses /\ ShownAsPublished /\ NotesAreOwn

\* The rows of these tables are those of ReadModel, each under the id of its
\* entity: constraints delay an event, and no more, while no row is there that
\* the withdrawal of another one takes along.
Abstract == INSTANCE ReadModel WITH
  Aggregate  <- Entity,
  Key        <- Entity,
  KeysOf     <- [a \in Entity |-> {a}],
  None       <- Null,
  MaxVersion <- MaxEvents,
  log        <- [v \in Serial |->
                   IF events[v] = Null THEN Null
                   ELSE [aggregate |-> events[v].aggregate, action |-> events[v].action,
                         key |-> events[v].aggregate]],
  published  <- [a \in Entity |-> IF shown[a] = Null THEN Null ELSE a],
  rows       <- [a \in Entity |-> IF tables[a] = Null THEN 0 ELSE tables[a].version],
  receipts   <- recorded

KeepsReadModel ==
  Cascading = {} /\ tablesVars' # tablesVars => [Abstract!Next]_(Abstract!vars)

TablesKeepReadModel == Abstract!Init /\ [][KeepsReadModel]_tablesVars
=============================================================================
