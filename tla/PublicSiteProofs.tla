--------------------------- MODULE PublicSiteProofs ---------------------------
(***************************************************************************)
(* Proofs about the public site: ReadModel and its tables with their       *)
(* constraints (PublicTables), for any number of aggregates, keys and      *)
(* events, applied in any order any number of times; and its pages with    *)
(* their forms (PublicForms), for any number of pages, starts, tokens and  *)
(* requests.                                                               *)
(***************************************************************************)
EXTENDS PublicTables, PublicForms, FiniteSetTheorems, WellFoundedInduction, TLAPS

-----------------------------------------------------------------------------
(* Tables with constraints (PublicTables).  Whatever the order in which    *)
(* events are applied, the row of an entity is what its newest recorded    *)
(* event says, except for what the withdrawal of a row it refers to took.  *)
-----------------------------------------------------------------------------

USE PublicTablesAssumption DEF Serial, HasEvent, SchemaOf

\* Only a menu cascades, and it refers to itself; a table that refers to another
\* one, which is an offer, keeps its rows when those go.
LEMMA SchemaFacts ==
  \A t \in DOMAIN Tables :
    /\ Tables[t].onDelete = "cascade" => t = "public_navigation" /\ Tables[t].refers = "public_navigation"
    /\ Tables[t].refers \in DOMAIN Tables /\ Tables[t].onDelete # "cascade" =>
         Tables[t].onDelete = "set null" /\ Tables[t].refers = "public_tools"
<1> USE DEF Table, Alone
<1>1. DOMAIN Tables = {"public_content", "public_tools", "public_offers", "public_navigation",
                       "public_homepage_sections", "public_sitemap_urls", "public_redirects",
                       "public_seo_metadata"}
  BY DEF Tables
<1>2. /\ Tables["public_navigation"].refers = "public_navigation"
      /\ Tables["public_navigation"].onDelete = "cascade"
      /\ Tables["public_offers"].refers = "public_tools"
      /\ Tables["public_offers"].onDelete = "set null"
  BY DEF Tables, PublicNavigation, PublicOffers
<1>3. \A t \in DOMAIN Tables \ {"public_navigation", "public_offers"} :
        Tables[t].refers = "none" /\ Tables[t].onDelete = "none"
  BY <1>1 DEF Tables, PublicContent, PublicTools, PublicHomepageSections, PublicSitemapUrls,
              PublicRedirects, PublicSeoMetadata
<1>4. QED
  BY <1>1, <1>2, <1>3

\* What an event is made of.
LEMMA ChangeParts ==
  ASSUME NEW e \in Change
  PROVE  /\ e.aggregate \in Entity /\ e.action \in {"upsert", "delete"}
         /\ e.action = "upsert" =>
              /\ e.says \in Upserts[e.aggregate]
              /\ e.says.slug \in Slug /\ e.says.ref \in Ref /\ e.says.note \in BOOLEAN
              /\ e.says.ref # Null =>
                   e.says.ref \in Entity /\ TableOf[e.says.ref] = SchemaOf(e.aggregate).refers
<1>1. CASE e \in UNION {[aggregate : {a}, action : {"upsert"}, says : Upserts[a]] : a \in Entity}
  <2>1. PICK a \in Entity : e \in [aggregate : {a}, action : {"upsert"}, says : Upserts[a]]
    BY <1>1, Zenon
  <2>2. e.aggregate = a /\ e.action = "upsert" /\ e.says \in Upserts[a]
    BY <2>1
  <2>3. e.says.slug \in Slug
    BY <2>2 DEF Slug
  <2>4. e.says.note \in BOOLEAN
    BY <2>2, Zenon
  <2>5. QED
    BY <2>2, <2>3, <2>4 DEF Ref
<1>2. CASE e \in [aggregate : Entity, action : {"delete"}, says : {Null}]
  BY <1>2
<1>3. QED
  BY <1>1, <1>2 DEF Change

\* What a committed event is made of.
LEMMA ChangeType ==
  ASSUME TablesTypeOK, NEW v \in Serial, HasEvent(v)
  PROVE  /\ events[v].aggregate \in Entity /\ events[v].action \in {"upsert", "delete"}
         /\ events[v].action = "upsert" =>
              LET says == events[v].says IN
              /\ says \in Upserts[events[v].aggregate]
              /\ says.slug \in Slug /\ says.ref \in Ref /\ says.note \in BOOLEAN
              /\ says.ref # Null =>
                   says.ref \in Entity /\ TableOf[says.ref] = SchemaOf(events[v].aggregate).refers
<1>1. events[v] \in Change
  BY DEF TablesTypeOK
<1>2. QED
  BY <1>1, ChangeParts

\* v is the newest recorded version of a.
Latest(a, v) ==
  /\ v \in recorded /\ events[v].aggregate = a
  /\ \A w \in recorded : events[w].aggregate = a => w <= v

\* Something was withdrawn from a table, as far as events are recorded.
Gone(table) ==
  \E w \in recorded : events[w].action = "delete" /\ TableOf[events[w].aggregate] = table

\* The row of a is what the upsert v says, or what a withdrawal left of it.
RowSays(a, v) ==
  LET says == events[v].says
      cut  == says.ref # Null /\ Gone(SchemaOf(a).refers)
  IN IF tables[a] = Null THEN cut /\ SchemaOf(a).onDelete = "cascade"
     ELSE /\ tables[a].slug = says.slug
          /\ \/ tables[a].ref = says.ref
             \/ tables[a].ref = Null /\ cut /\ SchemaOf(a).onDelete = "set null"

\* The row of a follows its newest recorded event.
RowFollows(a) ==
  /\ tables[a] # Null => Latest(a, tables[a].version)
  /\ \A v \in Serial :
       Latest(a, v) => IF events[v].action = "upsert" THEN RowSays(a, v) ELSE tables[a] = Null

\* What a row keeps from older events was recorded.
NotesRecorded == \A a \in Entity : tables[a] # Null => tables[a].note \in recorded \cup {0}

\* A row refers to the table its foreign key names.
LEMMA RowRefers ==
  ASSUME TablesTypeOK, NEW a \in Entity, RowFollows(a), tables[a] # Null, tables[a].ref # Null
  PROVE  tables[a].ref \in Entity /\ TableOf[tables[a].ref] = SchemaOf(a).refers
<1> DEFINE v == tables[a].version
<1>1. v \in Serial /\ HasEvent(v) /\ Latest(a, v)
  <2>1. tables[a] \in Row
    BY DEF TablesTypeOK
  <2>2. v \in Serial
    BY <2>1 DEF Row
  <2>3. Latest(a, v)
    BY DEF RowFollows
  <2>4. QED
    BY <2>2, <2>3 DEF TablesTypeOK, Latest
<1>2. events[v].action = "upsert"
  BY <1>1, ChangeType DEF RowFollows
<1>3. tables[a].ref = events[v].says.ref
  BY <1>1, <1>2 DEF RowFollows, RowSays
<1>4. QED
  BY <1>1, <1>2, <1>3, ChangeType DEF Latest

\* Applying an event makes it the newest of its entity, or changes no newest one.
LEMMA ApplyLatest ==
  ASSUME TablesTypeOK, NEW v \in Serial, ApplyEvent(v), NEW b \in Entity
  PROVE  /\ events[v].aggregate = b /\ Newer(v) => \A w \in Serial : Latest(b, w)' <=> w = v
         /\ ~(events[v].aggregate = b /\ Newer(v)) => \A w \in Serial : Latest(b, w)' <=> Latest(b, w)
         /\ \A t : Gone(t) => Gone(t)'
<1>1. events' = events /\ recorded' = recorded \cup {v} /\ recorded \subseteq Serial
  BY DEF ApplyEvent, TablesTypeOK
<1>2. ASSUME events[v].aggregate = b, Newer(v)
      PROVE  \A w \in Serial : Latest(b, w)' <=> w = v
  BY <1>1, <1>2 DEF Newer, Latest
<1>3. ASSUME events[v].aggregate = b, ~Newer(v)
      PROVE  \A w \in Serial : Latest(b, w)' <=> Latest(b, w)
  <2>1. PICK u \in recorded : events[u].aggregate = b /\ ~(u < v)
    BY <1>3 DEF Newer
  <2>2. v <= u
    BY <1>1, <2>1
  <2>3. QED
    BY <1>1, <1>3, <2>1, <2>2 DEF Latest
<1>4. ASSUME events[v].aggregate # b
      PROVE  \A w \in Serial : Latest(b, w)' <=> Latest(b, w)
  BY <1>1, <1>4 DEF Latest
<1>5. \A t : Gone(t) => Gone(t)'
  BY <1>1 DEF Gone
<1>6. QED
  BY <1>2, <1>3, <1>4, <1>5

\* A row that no step touched still follows, if its newest event is the same.
LEMMA RowKept ==
  ASSUME NEW b \in Entity, RowFollows(b), events' = events, tables'[b] = tables[b],
         tables[b] # Null => tables[b].version \in Serial,
         \A w \in Serial : Latest(b, w)' <=> Latest(b, w), \A t : Gone(t) => Gone(t)'
  PROVE  RowFollows(b)'
<1>1. ASSUME NEW w \in Serial, RowSays(b, w)
      PROVE  RowSays(b, w)'
  BY <1>1 DEF RowSays
<1>2. QED
  BY <1>1 DEF RowFollows

\* What a delete takes along cascades, and is in the table of what was deleted.
LEMMA BelowIsMenu ==
  ASSUME TablesTypeOK, \A x \in Entity : RowFollows(x), NEW a \in Entity, NEW b \in Below(a), b # a
  PROVE  /\ b \in Cascading /\ tables[b].ref # Null
         /\ TableOf[a] = "public_navigation" /\ TableOf[b] = "public_navigation"
<1> DEFINE S == {x \in Cascading : TableOf[a] = "public_navigation" /\ tables[x].ref # Null}
<1>1. b \in Cascading /\ \A Q \in SUBSET Cascading :
        {x \in Cascading : tables[x].ref \in Q \cup {a}} \subseteq Q => b \in Q
  BY DEF Below
<1>2. ASSUME NEW x \in Cascading, tables[x].ref \in S \cup {a}
      PROVE  x \in S
  <2>1. x \in Entity /\ tables[x] # Null /\ TableOf[x] = "public_navigation"
        /\ SchemaOf(x).refers = "public_navigation"
    BY SchemaFacts DEF Cascading
  <2>2. tables[x].ref \in Entity
    BY <1>2 DEF Cascading
  <2>3. TableOf[tables[x].ref] = "public_navigation" /\ tables[x].ref # Null
    BY <2>1, <2>2, RowRefers
  <2>4. QED
    BY <1>2, <2>3
<1>3. b \in S
  BY <1>1, <1>2
<1>4. QED
  BY <1>3, SchemaFacts DEF Cascading

\* A row that refers to what goes, but does not go, is of a table that cuts the
\* reference, and it is the deleted row that it refers to.
LEMMA ReferringIsCut ==
  ASSUME TablesTypeOK, \A x \in Entity : RowFollows(x), NEW a \in Entity,
         NEW b \in Referring(Below(a)), b \notin Below(a)
  PROVE  /\ tables[b] # Null /\ tables[b].ref # Null
         /\ SchemaOf(b).onDelete = "set null" /\ SchemaOf(b).refers = TableOf[a]
<1>1. b \in Entity /\ tables[b] # Null /\ tables[b].ref \in Below(a)
  BY DEF Referring
<1>2. Below(a) \subseteq Entity
  BY DEF Below, Cascading
<1>3. tables[b].ref \in Entity /\ TableOf[tables[b].ref] = SchemaOf(b).refers
  BY <1>1, <1>2, RowRefers
<1>4. b \notin Cascading
  BY <1>1 DEF Below
<1>5. SchemaOf(b).onDelete = "set null" /\ SchemaOf(b).refers = "public_tools"
  <2>1. TableOf[b] \in DOMAIN Tables /\ SchemaOf(b).refers \in DOMAIN Tables
    BY <1>1, <1>3
  <2>2. SchemaOf(b).onDelete # "cascade"
    BY <1>1, <1>4 DEF Cascading
  <2>3. QED
    BY <2>1, <2>2, SchemaFacts
<1>6. tables[b].ref = a
  BY <1>1, <1>3, <1>5, BelowIsMenu
<1>7. QED
  BY <1>1, <1>3, <1>5, <1>6

\* What an upsert writes is a row.
LEMMA ApplyRow ==
  ASSUME TablesTypeOK, NEW v \in Serial, HasEvent(v), events[v].action = "upsert", NEW b \in Entity
  PROVE  [version |-> v, slug |-> events[v].says.slug, ref |-> events[v].says.ref,
          note |-> IF events[v].says.note THEN v
                   ELSE IF tables[b] = Null THEN 0 ELSE tables[b].note] \in Row
<1>1. events[v].says.slug \in Slug /\ events[v].says.ref \in Ref
  BY ChangeType
<1>2. tables[b] # Null => tables[b].note \in 0..MaxEvents
  BY DEF TablesTypeOK, Row
<1>3. (IF events[v].says.note THEN v ELSE IF tables[b] = Null THEN 0 ELSE tables[b].note) \in 0..MaxEvents
  BY <1>2
<1>4. QED
  BY <1>1, <1>3 DEF Row

\* Applying an event leaves every row following its newest event.
LEMMA ApplyKeepsFollowing ==
  ASSUME TablesTypeOK, \A x \in Entity : RowFollows(x), NEW v \in Serial, ApplyEvent(v),
         NEW b \in Entity
  PROVE  RowFollows(b)'
<1> DEFINE a == events[v].aggregate
<1>1. /\ a \in Entity /\ events[v].action \in {"upsert", "delete"} /\ HasEvent(v)
      /\ events' = events /\ recorded' = recorded \cup {v}
      /\ tables \in [Entity -> Row \cup {Null}]
  BY ChangeType DEF ApplyEvent, TablesTypeOK
<1>2. tables[b] # Null => tables[b].version \in Serial
  BY <1>1 DEF Row
<1>3. CASE ~Newer(v)
  <2>1. tables' = tables
    BY <1>3 DEF ApplyEvent
  <2>2. QED
    BY <1>1, <1>2, <1>3, <2>1, ApplyLatest, RowKept
<1>4. CASE Newer(v) /\ events[v].action = "upsert"
  <2>1. tables' = Upserted(v)
    BY <1>4 DEF ApplyEvent
  <2>2. CASE b # a
    <3>1. tables'[b] = tables[b]
      BY <1>1, <2>1, <2>2 DEF Upserted
    <3>2. QED
      BY <1>1, <1>2, <2>2, <3>1, ApplyLatest, RowKept
  <2>3. CASE b = a
    <3>1. /\ tables'[b] = [version |-> v, slug |-> events[v].says.slug, ref |-> events[v].says.ref,
                           note |-> IF events[v].says.note THEN v
                                    ELSE IF tables[b] = Null THEN 0 ELSE tables[b].note]
      BY <1>1, <2>1, <2>3 DEF Upserted
    <3>2. \A w \in Serial : Latest(b, w)' <=> w = v
      BY <1>4, <2>3, ApplyLatest
    <3>3. RowSays(b, v)'
      <4>1. tables'[b] # Null
        <5>1. tables'[b] \in Row
          BY <1>1, <1>4, <3>1, ApplyRow
        <5>2. QED
          BY <5>1
      <4>2. QED
        BY <1>1, <3>1, <4>1 DEF RowSays
    <3>4. QED
      BY <1>1, <1>4, <3>1, <3>2, <3>3 DEF RowFollows
  <2>4. QED
    BY <2>2, <2>3
<1>5. CASE Newer(v) /\ events[v].action = "delete"
  <2>1. tables' = Deleted(v)
    BY <1>5 DEF ApplyEvent
  <2>2. Gone(TableOf[a])'
    BY <1>1, <1>5 DEF Gone
  <2>3. a \in Below(a)
    BY DEF Below
  <2>4. CASE b = a
    <3>1. tables'[b] = Null
      BY <2>1, <2>3, <2>4 DEF Deleted
    <3>2. \A w \in Serial : Latest(b, w)' <=> w = v
      BY <1>5, <2>4, ApplyLatest
    <3>3. QED
      BY <1>1, <1>5, <3>1, <3>2 DEF RowFollows
  <2>5. CASE b # a
    <3>1. \A w \in Serial : Latest(b, w)' <=> Latest(b, w)
      BY <2>5, ApplyLatest
    <3>2. ASSUME tables[b] # Null, tables[b].ref # Null, NEW w \in Serial, Latest(b, w)
          PROVE  events[w].action = "upsert" /\ events[w].says.ref # Null /\ RowSays(b, w)
      BY <3>2, RowRefers DEF RowFollows, RowSays
    <3>3. CASE b \in Below(a)
      <4>1. tables'[b] = Null
        BY <2>1, <3>3 DEF Deleted
      <4>2. /\ tables[b] # Null /\ tables[b].ref # Null
            /\ SchemaOf(b).onDelete = "cascade" /\ SchemaOf(b).refers = TableOf[a]
        <5>1. b \in Cascading /\ tables[b].ref # Null /\ TableOf[a] = "public_navigation"
          BY <1>1, <2>5, <3>3, BelowIsMenu
        <5>2. QED
          BY <5>1, SchemaFacts DEF Cascading
      <4>3. ASSUME NEW w \in Serial, Latest(b, w)
            PROVE  events[w].action = "upsert" /\ RowSays(b, w)'
        BY <1>1, <2>2, <3>2, <4>1, <4>2, <4>3 DEF RowSays
      <4>4. QED
        BY <1>1, <3>1, <4>1, <4>3 DEF RowFollows
    <3>4. CASE b \notin Below(a) /\ b \in Referring(Below(a))
      <4>1. tables'[b] = [tables[b] EXCEPT !.ref = Null]
        BY <2>1, <3>4 DEF Deleted
      <4>2. /\ tables[b] # Null /\ tables[b].ref # Null
            /\ SchemaOf(b).onDelete = "set null" /\ SchemaOf(b).refers = TableOf[a]
        BY <1>1, <3>4, ReferringIsCut
      <4>3. /\ tables'[b] \in Row /\ tables'[b].version = tables[b].version
            /\ tables'[b].slug = tables[b].slug /\ tables'[b].ref = Null
        <5>1. tables[b] \in Row
          BY <1>1, <4>2
        <5>2. QED
          BY <4>1, <5>1 DEF Row, Ref
      <4>4. ASSUME NEW w \in Serial, Latest(b, w)
            PROVE  events[w].action = "upsert" /\ RowSays(b, w)'
        BY <1>1, <2>2, <3>2, <4>2, <4>3, <4>4 DEF RowSays
      <4>5. Latest(b, tables[b].version)
        BY <4>2 DEF RowFollows
      <4>6. QED
        BY <1>1, <1>2, <3>1, <4>2, <4>3, <4>4, <4>5 DEF RowFollows
    <3>5. CASE b \notin Below(a) /\ b \notin Referring(Below(a))
      <4>1. tables'[b] = tables[b]
        BY <2>1, <3>5 DEF Deleted
      <4>2. QED
        BY <1>1, <1>2, <3>1, <4>1, ApplyLatest, RowKept
    <3>6. QED
      BY <3>3, <3>4, <3>5
  <2>6. QED
    BY <2>4, <2>5
<1>6. QED
  BY <1>1, <1>3, <1>4, <1>5

\* A new event is written where there was none, and shown as it says.
Emits(v, a, e) ==
  /\ Commit(v, e) /\ e \in Change /\ e.aggregate = a
  /\ e.action = "upsert" => ~Taken(e.says.slug, a, shown)
  /\ e.action = "delete" => shown[a] # Null
  /\ shown' = [shown EXCEPT ![a] = IF e.action = "upsert"
                                   THEN [slug |-> e.says.slug, ref |-> e.says.ref] ELSE Null]
  /\ UNCHANGED <<tables, recorded>>

\* A step emits an event of an entity, or applies one.
LEMMA TablesSteps ==
  ASSUME TablesTypeOK, TablesNext
  PROVE  \E v \in Serial : ApplyEvent(v) \/ \E a \in Entity, e \in Change : Emits(v, a, e)
<1>1. PICK v \in Serial :
        \/ \E a \in Entity : (\E says \in Upserts[a] : EmitUpsert(v, a, says)) \/ EmitDelete(v, a)
        \/ ApplyEvent(v)
  BY DEF TablesNext, Steps
<1>2. ASSUME NEW a \in Entity, NEW says \in Upserts[a], EmitUpsert(v, a, says)
      PROVE  \E e \in Change : Emits(v, a, e)
  <2> DEFINE e == [aggregate |-> a, action |-> "upsert", says |-> says]
  <2>1. e \in [aggregate : {a}, action : {"upsert"}, says : Upserts[a]]
    OBVIOUS
  <2>2. e \in UNION {[aggregate : {b}, action : {"upsert"}, says : Upserts[b]] : b \in Entity}
    BY <2>1, Zenon
  <2>3. e \in Change
    BY <2>2 DEF Change
  <2>4. QED
    BY <1>2, <2>3 DEF Emits, EmitUpsert
<1>3. ASSUME NEW a \in Entity, EmitDelete(v, a)
      PROVE  \E e \in Change : Emits(v, a, e)
  <2> DEFINE e == [aggregate |-> a, action |-> "delete", says |-> Null]
  <2>1. e \in Change
    BY DEF Change
  <2>2. QED
    BY <1>3, <2>1 DEF Emits, EmitDelete
<1>4. QED
  BY <1>1, <1>2, <1>3

\* What a new event leaves alone.
LEMMA EmitFrame ==
  ASSUME TablesTypeOK, NEW v \in Serial, NEW a \in Entity, NEW e \in Change, Emits(v, a, e)
  PROVE  /\ events' \in [Serial -> Change \cup {Null}] /\ events'[v] = e /\ e # Null
         /\ \A w \in Serial \ {v} : events'[w] = events[w]
         /\ v \notin recorded /\ ~HasEvent(v) /\ e.aggregate = a
         /\ tables' = tables /\ recorded' = recorded /\ recorded \subseteq Serial \ {v}
BY DEF Emits, Commit, TablesTypeOK

\* Every event and batch keeps the types.
LEMMA TablesStepType == TablesTypeOK /\ [TablesNext]_tablesVars => TablesTypeOK'
<1> SUFFICES ASSUME TablesTypeOK, [TablesNext]_tablesVars
             PROVE  TablesTypeOK'
  OBVIOUS
<1>1. ASSUME NEW v \in Serial, NEW a \in Entity, NEW e \in Change, Emits(v, a, e)
      PROVE  TablesTypeOK'
  <2>1. e.action = "upsert" => [slug |-> e.says.slug, ref |-> e.says.ref] \in Entry
    <3>1. events' \in [Serial -> Change \cup {Null}] /\ events'[v] = e
      BY <1>1, EmitFrame
    <3>2. e.action = "upsert" => e.says.slug \in Slug /\ e.says.ref \in Ref
      BY ChangeParts
    <3>3. QED
      BY <3>2 DEF Entry
  <2>2. shown' \in [Entity -> Entry \cup {Null}]
    BY <1>1, <2>1 DEF Emits, TablesTypeOK
  <2>3. recorded' = recorded /\ \A w \in recorded : events'[w] = events[w]
    BY <1>1, EmitFrame
  <2>4. recorded' \subseteq {w \in Serial : HasEvent(w)'}
    BY <2>3 DEF TablesTypeOK
  <2>5. QED
    BY <1>1, <2>2, <2>4, EmitFrame DEF Emits, TablesTypeOK
<1>2. ASSUME NEW v \in Serial, ApplyEvent(v)
      PROVE  TablesTypeOK'
  <2>1. HasEvent(v) /\ events' = events /\ shown' = shown /\ recorded' = recorded \cup {v}
    BY <1>2 DEF ApplyEvent
  <2>2. events[v].action = "upsert" => Upserted(v) \in [Entity -> Row \cup {Null}]
    BY <2>1, ApplyRow, ChangeType DEF Upserted, TablesTypeOK
  <2>3. Deleted(v) \in [Entity -> Row \cup {Null}]
    <3>1. ASSUME NEW b \in Entity, b \in Referring(Below(events[v].aggregate))
          PROVE  [tables[b] EXCEPT !.ref = Null] \in Row
      <4>1. tables[b] \in Row
        BY <3>1 DEF Referring, TablesTypeOK
      <4>2. QED
        BY <4>1 DEF Row, Ref
    <3>2. QED
      BY <3>1 DEF Deleted, TablesTypeOK
  <2>4. tables' \in [Entity -> Row \cup {Null}]
    BY <1>2, <2>2, <2>3 DEF ApplyEvent, TablesTypeOK
  <2>5. QED
    BY <2>1, <2>4 DEF TablesTypeOK
<1>3. CASE UNCHANGED tablesVars
  BY <1>3 DEF tablesVars, TablesTypeOK
<1>4. QED
  BY <1>1, <1>2, <1>3, TablesSteps

\* Every step leaves every row following its newest recorded event.
RowsFollow == \A a \in Entity : RowFollows(a)

\* A batch leaves each row as the newest recorded event of it says.
LEMMA TablesStepRows == TablesTypeOK /\ RowsFollow /\ [TablesNext]_tablesVars => RowsFollow'
<1> SUFFICES ASSUME TablesTypeOK, RowsFollow, [TablesNext]_tablesVars, NEW b \in Entity
             PROVE  RowFollows(b)'
  BY DEF RowsFollow
<1>0. tables[b] # Null => tables[b].version \in Serial
  BY DEF TablesTypeOK, Row
<1>1. ASSUME NEW v \in Serial, NEW a \in Entity, NEW e \in Change, Emits(v, a, e)
      PROVE  RowFollows(b)'
  <2>1. /\ recorded' = recorded /\ recorded \subseteq Serial /\ tables' = tables
        /\ \A w \in recorded : events'[w] = events[w]
    BY <1>1, EmitFrame
  <2>2. \A w \in Serial : Latest(b, w)' <=> Latest(b, w)
    BY <2>1 DEF Latest
  <2>3. \A t : Gone(t) => Gone(t)'
    BY <2>1 DEF Gone
  <2>4. \A w \in Serial : Latest(b, w) => events'[w] = events[w]
    BY <2>1 DEF Latest
  <2>5. ASSUME NEW w \in Serial, Latest(b, w), RowSays(b, w)
        PROVE  RowSays(b, w)'
    BY <2>1, <2>3, <2>4, <2>5 DEF RowSays
  <2>6. QED
    BY <1>0, <2>1, <2>2, <2>4, <2>5 DEF RowFollows, RowsFollow
<1>2. ASSUME NEW v \in Serial, ApplyEvent(v)
      PROVE  RowFollows(b)'
  BY <1>2, ApplyKeepsFollowing DEF RowsFollow
<1>3. CASE UNCHANGED tablesVars
  BY <1>0, <1>3, RowKept DEF tablesVars, Latest, Gone, RowsFollow
<1>4. QED
  BY <1>1, <1>2, <1>3, TablesSteps

\* What a row keeps from older events was recorded, and is its own.
LEMMA TablesStepNotes ==
  TablesTypeOK /\ RowsFollow /\ NotesRecorded /\ NotesAreOwn /\ [TablesNext]_tablesVars
    => NotesRecorded' /\ NotesAreOwn'
<1> SUFFICES ASSUME TablesTypeOK, RowsFollow, NotesRecorded, NotesAreOwn, [TablesNext]_tablesVars,
                    NEW b \in Entity, tables'[b] # Null
             PROVE  /\ tables'[b].note \in recorded' \cup {0}
                    /\ tables'[b].note # 0 =>
                         /\ tables'[b].note <= tables'[b].version
                         /\ events'[tables'[b].note].aggregate = b
                         /\ events'[tables'[b].note].says.note
                    /\ events'[tables'[b].version].says.note => tables'[b].note = tables'[b].version
  BY DEF NotesRecorded, NotesAreOwn
<1>1. ASSUME recorded \subseteq recorded', \A w \in recorded : events'[w] = events[w],
             tables[b] # Null, tables'[b].note = tables[b].note, tables'[b].version = tables[b].version
      PROVE  /\ tables'[b].note \in recorded' \cup {0}
             /\ tables'[b].note # 0 =>
                  /\ tables'[b].note <= tables'[b].version
                  /\ events'[tables'[b].note].aggregate = b
                  /\ events'[tables'[b].note].says.note
             /\ events'[tables'[b].version].says.note => tables'[b].note = tables'[b].version
  <2>1. tables[b].version \in recorded
    BY <1>1 DEF RowsFollow, RowFollows, Latest
  <2>2. tables[b].note \in recorded \cup {0}
    BY <1>1 DEF NotesRecorded
  <2>3. QED
    BY <1>1, <2>1, <2>2 DEF NotesAreOwn
<1>2. ASSUME NEW v \in Serial, NEW a \in Entity, NEW e \in Change, Emits(v, a, e)
      PROVE  /\ recorded \subseteq recorded' /\ \A w \in recorded : events'[w] = events[w]
             /\ tables' = tables
  BY <1>2, EmitFrame
<1>3. ASSUME NEW v \in Serial, ApplyEvent(v), tables' # Upserted(v) \/ b # events[v].aggregate
      PROVE  /\ recorded \subseteq recorded' /\ \A w \in recorded : events'[w] = events[w]
             /\ tables[b] # Null /\ tables'[b].note = tables[b].note
             /\ tables'[b].version = tables[b].version
  <2>1. recorded \subseteq recorded' /\ events' = events /\ tables \in [Entity -> Row \cup {Null}]
    BY <1>3 DEF ApplyEvent, TablesTypeOK
  <2>2. CASE tables'[b] = tables[b]
    BY <2>1, <2>2
  <2>3. CASE tables' = Deleted(v)
    <3>1. tables[b] # Null
      BY <2>3 DEF Deleted, Referring
    <3>2. tables[b] \in Row
      BY <2>1, <3>1
    <3>3. tables'[b] = tables[b] \/ tables'[b] = [tables[b] EXCEPT !.ref = Null]
      BY <2>3 DEF Deleted
    <3>4. QED
      BY <2>1, <3>1, <3>2, <3>3 DEF Row
  <2>4. CASE tables' = Upserted(v) /\ b # events[v].aggregate
    BY <2>1, <2>4 DEF Upserted
  <2>5. QED
    BY <1>3, <2>2, <2>3, <2>4 DEF ApplyEvent
<1>4. ASSUME NEW v \in Serial, ApplyEvent(v), tables' = Upserted(v), b = events[v].aggregate, Newer(v)
      PROVE  /\ tables'[b].note \in recorded' \cup {0}
             /\ tables'[b].note # 0 =>
                  /\ tables'[b].note <= tables'[b].version
                  /\ events'[tables'[b].note].aggregate = b
                  /\ events'[tables'[b].note].says.note
             /\ events'[tables'[b].version].says.note => tables'[b].note = tables'[b].version
  <2>1. recorded' = recorded \cup {v} /\ events' = events /\ tables \in [Entity -> Row \cup {Null}]
    BY <1>4 DEF ApplyEvent, TablesTypeOK
  <2>2. /\ tables'[b].version = v
        /\ tables'[b].note = IF events[v].says.note THEN v
                             ELSE IF tables[b] = Null THEN 0 ELSE tables[b].note
    BY <1>4, <2>1 DEF Upserted
  <2>3. CASE events[v].says.note
    BY <1>4, <2>1, <2>2, <2>3
  <2>4. CASE ~events[v].says.note /\ tables[b] = Null
    BY <2>1, <2>2, <2>4
  <2>5. CASE ~events[v].says.note /\ tables[b] # Null
    <3>1. tables[b].version \in recorded /\ events[tables[b].version].aggregate = b
      BY <2>5 DEF RowsFollow, RowFollows, Latest
    <3>2. tables[b].version \in Serial /\ tables[b].version < v
      BY <1>4, <3>1 DEF Newer, TablesTypeOK
    <3>3. tables[b].note \in recorded \cup {0} /\ tables[b].note \in 0..MaxEvents
      BY <2>1, <2>5 DEF NotesRecorded, Row
    <3>4. QED
      BY <2>1, <2>2, <2>5, <3>2, <3>3 DEF NotesAreOwn
  <2>6. QED
    BY <2>3, <2>4, <2>5
<1>5. ASSUME NEW v \in Serial, ApplyEvent(v), tables' = Upserted(v), b = events[v].aggregate, ~Newer(v)
      PROVE  tables' = tables
  BY <1>5 DEF ApplyEvent
<1>6. CASE UNCHANGED tablesVars
  BY <1>1, <1>6 DEF tablesVars
<1>7. ASSUME NEW v \in Serial, ApplyEvent(v)
      PROVE  recorded \subseteq recorded' /\ events' = events
  BY <1>7 DEF ApplyEvent
<1>8. QED
  BY <1>1, <1>2, <1>3, <1>4, <1>5, <1>6, <1>7, TablesSteps

\* Events are numbered without gaps.
EventsInOrder == \A v, w \in Serial : w < v /\ HasEvent(v) => HasEvent(w)

\* v is the newest event of b before n.
NewestBefore(b, v, n) ==
  /\ v < n /\ HasEvent(v) /\ events[v].aggregate = b
  /\ \A u \in Serial : u < n /\ HasEvent(u) /\ events[u].aggregate = b => u <= v

\* What is published of an entity is what its newest event says.
ShownFollows ==
  \A a \in Entity :
    /\ shown[a] # Null => \E v \in Serial : NewestBefore(a, v, MaxEvents + 1)
    /\ \A v \in Serial :
         NewestBefore(a, v, MaxEvents + 1) =>
           shown[a] = IF events[v].action = "upsert"
                      THEN [slug |-> events[v].says.slug, ref |-> events[v].says.ref] ELSE Null

\* An upsert takes a slug that no rival had when it was emitted.
SlugsFree ==
  \A v \in Serial : HasEvent(v) /\ events[v].action = "upsert" /\ SchemaOf(events[v].aggregate).unique =>
    \A b \in Rivals(events[v].aggregate) : \A w \in Serial :
      NewestBefore(b, w, v) /\ events[w].action = "upsert" =>
        events[w].says.slug # events[v].says.slug

\* No step but the emission of an event disturbs the history.
LEMMA HistoryStep ==
  EventsInOrder /\ ShownFollows /\ SlugsFree /\ UNCHANGED <<events, shown>>
    => EventsInOrder' /\ ShownFollows' /\ SlugsFree'
BY DEF EventsInOrder, ShownFollows, SlugsFree, NewestBefore

\* An event that is emitted follows those before it, and takes a slug that is free.
LEMMA TablesStepHistory ==
  TablesTypeOK /\ EventsInOrder /\ ShownFollows /\ SlugsFree /\ [TablesNext]_tablesVars
    => EventsInOrder' /\ ShownFollows' /\ SlugsFree'
<1> SUFFICES ASSUME TablesTypeOK, EventsInOrder, ShownFollows, SlugsFree, [TablesNext]_tablesVars
             PROVE  EventsInOrder' /\ ShownFollows' /\ SlugsFree'
  OBVIOUS
<1>1. ASSUME NEW v \in Serial, NEW a \in Entity, NEW e \in Change, Emits(v, a, e)
      PROVE  EventsInOrder' /\ ShownFollows' /\ SlugsFree'
  <2>1. /\ events'[v] = e /\ e # Null /\ e.aggregate = a /\ ~HasEvent(v)
        /\ \A w \in Serial \ {v} : events'[w] = events[w]
    BY <1>1, EmitFrame
  <2>2. /\ \A w \in Serial : w < v => HasEvent(w)
        /\ \A w \in Serial : HasEvent(w) => w < v
    BY <1>1, <2>1 DEF Emits, Commit, EventsInOrder
  <2>3. EventsInOrder'
    BY <2>1, <2>2 DEF EventsInOrder
  <2>4. \A b \in Entity, w, n \in Serial : n <= v => (NewestBefore(b, w, n)' <=> NewestBefore(b, w, n))
    BY <2>1 DEF NewestBefore
  <2>5. \A w \in Serial : NewestBefore(a, w, MaxEvents + 1)' <=> w = v
    BY <2>1, <2>2 DEF NewestBefore
  <2>6. \A b \in Entity \ {a}, w \in Serial :
          /\ NewestBefore(b, w, MaxEvents + 1)' <=> NewestBefore(b, w, MaxEvents + 1)
          /\ NewestBefore(b, w, MaxEvents + 1) <=> NewestBefore(b, w, v)
    BY <2>1, <2>2 DEF NewestBefore
  <2>7. \A b \in Entity, w, n \in Serial : NewestBefore(b, w, n) => events'[w] = events[w]
    BY <2>1 DEF NewestBefore
  <2>8. ShownFollows'
    <3>1. shown'[a] = IF e.action = "upsert" THEN [slug |-> e.says.slug, ref |-> e.says.ref] ELSE Null
      BY <1>1 DEF Emits, TablesTypeOK
    <3>2. \A b \in Entity \ {a} : shown'[b] = shown[b]
      BY <1>1 DEF Emits, TablesTypeOK
    <3>3. ASSUME NEW b \in Entity \ {a}
          PROVE  /\ shown'[b] # Null => \E w \in Serial : NewestBefore(b, w, MaxEvents + 1)'
                 /\ \A w \in Serial :
                      NewestBefore(b, w, MaxEvents + 1)' =>
                        shown'[b] = IF events'[w].action = "upsert"
                                    THEN [slug |-> events'[w].says.slug, ref |-> events'[w].says.ref]
                                    ELSE Null
      <4>1. b \in Entity /\ shown'[b] = shown[b]
        BY <3>2
      <4>2. \A w \in Serial : NewestBefore(b, w, MaxEvents + 1)' <=> NewestBefore(b, w, MaxEvents + 1)
        BY <2>6
      <4>3. \A w \in Serial : NewestBefore(b, w, MaxEvents + 1) => events'[w] = events[w]
        <5>1. \A w \in Serial : NewestBefore(b, w, MaxEvents + 1) => w \in Serial /\ HasEvent(w)
          BY DEF NewestBefore
        <5> QED
          BY <2>1, <5>1
      <4>4. shown'[b] # Null => \E w \in Serial : NewestBefore(b, w, MaxEvents + 1)'
        BY <4>1, <4>2 DEF ShownFollows
      <4>5. ASSUME NEW w \in Serial, NewestBefore(b, w, MaxEvents + 1)
            PROVE  shown[b] = IF events[w].action = "upsert"
                              THEN [slug |-> events[w].says.slug, ref |-> events[w].says.ref]
                              ELSE Null
        BY <4>1, <4>5 DEF ShownFollows
      <4>6. ASSUME NEW w \in Serial, NewestBefore(b, w, MaxEvents + 1)'
            PROVE  shown'[b] = IF events'[w].action = "upsert"
                               THEN [slug |-> events'[w].says.slug, ref |-> events'[w].says.ref]
                               ELSE Null
        BY <4>1, <4>2, <4>3, <4>5, <4>6
      <4> QED
        BY <4>4, <4>6
    <3>4. QED
      BY <2>1, <2>5, <3>1, <3>3 DEF ShownFollows
  <2>9. SlugsFree'
    <3>1. ASSUME NEW b \in Rivals(a), NEW w \in Serial, NewestBefore(b, w, v),
                 events[w].action = "upsert", e.action = "upsert", SchemaOf(a).unique
          PROVE  events[w].says.slug # e.says.slug
      <4>1. b \in Entity \ {a}
        BY DEF Rivals
      <4>2. shown[b] = [slug |-> events[w].says.slug, ref |-> events[w].says.ref]
        BY <2>6, <3>1, <4>1 DEF ShownFollows
      <4>3. shown[b] # Null
        <5>1. events[w].says.slug \in Slug /\ events[w].says.ref \in Ref
          BY <3>1, ChangeType DEF NewestBefore
        <5>2. shown[b] \in Entry
          BY <4>2, <5>1 DEF Entry
        <5>3. QED
          BY <5>2
      <4>4. ~Taken(e.says.slug, a, shown)
        BY <1>1, <3>1 DEF Emits
      <4>5. shown[b].slug # e.says.slug
        BY <3>1, <4>3, <4>4 DEF Taken
      <4>6. QED
        BY <4>2, <4>5
    <3>2. ASSUME NEW n \in Serial, HasEvent(n)', events'[n].action = "upsert",
                 SchemaOf(events'[n].aggregate).unique, NEW b \in Rivals(events'[n].aggregate),
                 NEW w \in Serial, NewestBefore(b, w, n)', events'[w].action = "upsert"
          PROVE  events'[w].says.slug # events'[n].says.slug
      <4>1. b \in Entity
        BY DEF Rivals
      <4>2. n <= v
        BY <2>1, <2>2, <3>2
      <4>3. NewestBefore(b, w, n) /\ events'[w] = events[w]
        BY <2>4, <2>7, <3>2, <4>1, <4>2
      <4>4. CASE n = v
        BY <2>1, <3>1, <3>2, <4>3, <4>4
      <4>5. CASE n # v
        BY <2>1, <3>2, <4>3, <4>5 DEF SlugsFree
      <4>6. QED
        BY <4>4, <4>5
    <3>3. QED
      BY <3>2 DEF SlugsFree, Rivals
  <2>10. QED
    BY <2>3, <2>8, <2>9
<1>2. ASSUME NEW v \in Serial, ApplyEvent(v)
      PROVE  UNCHANGED <<events, shown>>
  BY <1>2 DEF ApplyEvent
<1>3. CASE UNCHANGED tablesVars
  BY <1>3, HistoryStep DEF tablesVars
<1>4. QED
  BY <1>1, <1>2, <1>3, HistoryStep, TablesSteps

\* An event is refused only for what it refers to.
LEMMA RefusalsExplained ==
  TablesTypeOK /\ RowsFollow /\ EventsInOrder /\ SlugsFree => OnlyOrderRefuses
<1> SUFFICES ASSUME TablesTypeOK, RowsFollow, EventsInOrder, SlugsFree,
                    NEW v \in Serial, HasEvent(v), recorded = 1..(v - 1), Refused(v)
             PROVE  LET ref == events[v].says.ref IN
                    ref # Null /\ (~Known(ref, v)
                                   \/ (SchemaOf(ref).onDelete = "cascade" /\ Withdrawn(TableOf[ref], v)))
  BY DEF OnlyOrderRefuses
<1> DEFINE a   == events[v].aggregate
           ref == events[v].says.ref
<1>1. /\ events[v].action = "upsert" /\ a \in Entity
      /\ ref # Null => ref \in Entity
  BY ChangeType DEF Refused
<1>2. \A w \in 1..(v - 1) : w \in Serial /\ HasEvent(w) /\ w < v
  BY DEF EventsInOrder
<1>3. \A b \in Entity, w \in Serial : Latest(b, w) <=> NewestBefore(b, w, v)
  BY <1>2 DEF Latest, NewestBefore
<1>4. ~Taken(events[v].says.slug, a, tables)
  <2> SUFFICES ASSUME SchemaOf(a).unique, NEW b \in Rivals(a), tables[b] # Null,
                      tables[b].slug = events[v].says.slug
               PROVE  FALSE
    BY DEF Taken
  <2> DEFINE w == tables[b].version
  <2>1. b \in Entity
    BY DEF Rivals
  <2>2. w \in Serial /\ Latest(b, w)
    BY <2>1 DEF RowsFollow, RowFollows, TablesTypeOK, Row
  <2>3. events[w].action = "upsert" /\ events[w].says.slug = events[v].says.slug
    BY <2>1, <2>2 DEF RowsFollow, RowFollows, RowSays
  <2>4. QED
    BY <1>1, <1>3, <2>1, <2>2, <2>3 DEF SlugsFree
<1>5. ref # Null /\ tables[ref] = Null
  BY <1>4 DEF Refused
<1>6. ASSUME Known(ref, v)
      PROVE  SchemaOf(ref).onDelete = "cascade" /\ Withdrawn(TableOf[ref], v)
  <2>1. PICK w \in Before(ref, v) : events[w].action = "upsert" /\ \A u \in Before(ref, v) : u <= w
    BY <1>6 DEF Known
  <2>2. w \in Serial /\ Latest(ref, w)
    BY <1>2, <2>1 DEF Before, Latest
  <2>3. SchemaOf(ref).onDelete = "cascade" /\ Gone(SchemaOf(ref).refers)
    BY <1>1, <1>5, <2>1, <2>2 DEF RowsFollow, RowFollows, RowSays
  <2>4. SchemaOf(ref).refers = TableOf[ref]
    <3>1. TableOf[ref] \in DOMAIN Tables
      BY <1>1, <1>5
    <3>2. QED
      BY <2>3, <3>1, SchemaFacts, Zenon
  <2>5. QED
    BY <2>3, <2>4 DEF Gone, Withdrawn
<1>7. QED
  BY <1>5, <1>6

\* With every event recorded, the tables show what is published.
LEMMA RowsShow == TablesTypeOK /\ RowsFollow /\ ShownFollows => ShownAsPublished
<1> SUFFICES ASSUME TablesTypeOK, RowsFollow, ShownFollows,
                    \A v \in Serial : HasEvent(v) => v \in recorded, NEW a \in Entity
             PROVE  IF shown[a] = Null THEN tables[a] = Null
                    ELSE LET ref == shown[a].ref
                             cut == ref # Null /\ Withdrawn(TableOf[ref], MaxEvents + 1)
                         IN IF tables[a] = Null THEN cut /\ SchemaOf(a).onDelete = "cascade"
                            ELSE /\ tables[a].slug = shown[a].slug
                                 /\ tables[a].ref # ref =>
                                      cut /\ SchemaOf(a).onDelete = "set null" /\ tables[a].ref = Null
  BY DEF ShownAsPublished
<1>1. \A v \in Serial : Latest(a, v) <=> NewestBefore(a, v, MaxEvents + 1)
  BY DEF Latest, NewestBefore, TablesTypeOK
<1>2. \A t : Gone(t) => Withdrawn(t, MaxEvents + 1)
  BY DEF Gone, Withdrawn, TablesTypeOK
<1>3. ASSUME NEW v \in Serial, Latest(a, v), events[v].action = "upsert"
      PROVE  /\ shown[a] # Null /\ shown[a].slug = events[v].says.slug
             /\ shown[a].ref = events[v].says.ref
             /\ shown[a].ref # Null => TableOf[shown[a].ref] = SchemaOf(a).refers
  <2>1. shown[a] = [slug |-> events[v].says.slug, ref |-> events[v].says.ref]
    BY <1>1, <1>3 DEF ShownFollows
  <2>2. /\ HasEvent(v) /\ events[v].aggregate = a
        /\ events[v].says.slug \in Slug /\ events[v].says.ref \in Ref
        /\ events[v].says.ref # Null => TableOf[events[v].says.ref] = SchemaOf(a).refers
    BY <1>3, ChangeType DEF Latest, TablesTypeOK
  <2>3. shown[a] \in Entry
    BY <2>1, <2>2 DEF Entry
  <2>4. QED
    BY <2>1, <2>2, <2>3
<1>4. ASSUME tables[a] # Null
      PROVE  /\ tables[a].version \in Serial /\ Latest(a, tables[a].version)
             /\ events[tables[a].version].action = "upsert"
  BY <1>4 DEF RowsFollow, RowFollows, TablesTypeOK, Row
<1>5. CASE shown[a] = Null
  BY <1>3, <1>4, <1>5
<1>6. CASE shown[a] # Null
  <2>1. PICK v \in Serial : Latest(a, v)
    BY <1>1, <1>6 DEF ShownFollows
  <2>2. events[v].action = "upsert"
    BY <1>1, <1>6, <2>1 DEF ShownFollows
  <2>3. RowSays(a, v)
    BY <2>1, <2>2 DEF RowsFollow, RowFollows
  <2>4. QED
    BY <1>2, <1>3, <1>6, <2>1, <2>2, <2>3 DEF RowSays
<1>7. QED
  BY <1>5, <1>6

\* Constraints of D1 and the order in which events are applied keep no published
\* row from the tables, for any entities, references and events.
THEOREM TablesAlwaysConverge == TablesSpec => []TablesConverge
<1>1. TablesInit => TablesTypeOK
  BY DEF TablesInit, TablesTypeOK
<1>2. TablesInit => RowsFollow /\ NotesRecorded /\ NotesAreOwn
  BY DEF TablesInit, RowsFollow, RowFollows, Latest, NotesRecorded, NotesAreOwn
<1>3. TablesInit => EventsInOrder /\ ShownFollows /\ SlugsFree
  BY DEF TablesInit, EventsInOrder, ShownFollows, NewestBefore, SlugsFree
<1>4. QED
  BY <1>1, <1>2, <1>3, TablesStepType, TablesStepRows, TablesStepNotes, TablesStepHistory,
     RefusalsExplained, RowsShow, PTL DEF TablesSpec, TablesConverge

\* Every step of the tables is one of ReadModel, or changes nothing it can see, as
\* long as no row is there that would be taken along.
LEMMA TablesStepKeeps ==
  ASSUME TablesTypeOK, RowsFollow, EventsInOrder, [TablesNext]_tablesVars
  PROVE  [KeepsReadModel]_tablesVars
<1> SUFFICES ASSUME Cascading = {}, TablesNext
             PROVE  [Abstract!Next]_(Abstract!vars)
  BY DEF KeepsReadModel
<1> USE DEF Abstract!Version, Abstract!Action, Abstract!Emitted
<1> DEFINE L == [v \in Serial |->
                   IF events[v] = Null THEN Null
                   ELSE [aggregate |-> events[v].aggregate, action |-> events[v].action,
                         key |-> events[v].aggregate]]
           P == [a \in Entity |-> IF shown[a] = Null THEN Null ELSE a]
           R == [a \in Entity |-> IF tables[a] = Null THEN 0 ELSE tables[a].version]
<1>1. \A v \in Serial : HasEvent(v) =>
        /\ L[v] # Null /\ L[v].aggregate = events[v].aggregate /\ L[v].action = events[v].action
        /\ L[v].key = events[v].aggregate
  <2> SUFFICES ASSUME NEW v \in Serial, HasEvent(v)
               PROVE  L[v] # Null /\ L[v].aggregate = events[v].aggregate
                      /\ L[v].action = events[v].action /\ L[v].key = events[v].aggregate
    OBVIOUS
  <2>1. L[v] = [aggregate |-> events[v].aggregate, action |-> events[v].action,
                key |-> events[v].aggregate]
    OBVIOUS
  <2>2. L[v] \in [aggregate : Entity, action : {"upsert", "delete"}, key : Entity]
    BY <2>1, ChangeType
  <2>3. QED
    BY <2>1, <2>2, NullAssumption
<1>2. ASSUME NEW v \in Serial, NEW a \in Entity, NEW e \in Change, Emits(v, a, e)
      PROVE  Abstract!Emit(v, a, e.action, a)
  <2>1. /\ events'[v] = e /\ e # Null /\ e.aggregate = a /\ ~HasEvent(v)
        /\ \A w \in Serial \ {v} : events'[w] = events[w]
        /\ e.action \in {"upsert", "delete"}
    <3>1. /\ events'[v] = e /\ e # Null /\ ~HasEvent(v)
          /\ \A w \in Serial \ {v} : events'[w] = events[w]
      BY <1>2, EmitFrame
    <3>2. e.aggregate = a /\ e.action \in {"upsert", "delete"}
      BY <1>2, ChangeParts DEF Emits
    <3>3. QED
      BY <3>1, <3>2
  <2>2. L[v] = Null /\ \A w \in Serial : w < v => L[w] # Null
    BY <1>1, <1>2, <2>1 DEF Emits, Commit
  <2>3. L' = [L EXCEPT ![v] = [aggregate |-> a, action |-> e.action, key |-> a]]
    BY <2>1
  <2>4. e.action = "upsert" => [slug |-> e.says.slug, ref |-> e.says.ref] # Null
    <3>1. e.action = "upsert" => [slug |-> e.says.slug, ref |-> e.says.ref] \in Entry
      BY ChangeParts DEF Entry
    <3>2. QED
      BY <3>1
  <2>5. P' = [P EXCEPT ![a] = IF e.action = "upsert" THEN a ELSE Null]
    BY <1>2, <2>4 DEF Emits, TablesTypeOK
  <2>6. e.action = "delete" => P[a] = a
    BY <1>2 DEF Emits
  <2>7. R' = R /\ recorded' = recorded
    BY <1>2 DEF Emits
  <2>8. a \in [b \in Entity |-> {b}][a] /\ \A b \in Entity \ {a} : P[b] # a
    OBVIOUS
  <2>9. QED
    BY <2>1, <2>2, <2>3, <2>5, <2>6, <2>7, <2>8 DEF Abstract!Emit
<1>3. ASSUME NEW v \in Serial, ApplyEvent(v)
      PROVE  Abstract!ApplyBatch(v)
  <2> DEFINE a == events[v].aggregate
  <2>1. /\ HasEvent(v) /\ a \in Entity /\ events[v].action \in {"upsert", "delete"}
        /\ events' = events /\ shown' = shown /\ recorded' = recorded \cup {v}
        /\ recorded \subseteq Serial /\ \A w \in recorded : HasEvent(w)
        /\ tables \in [Entity -> Row \cup {Null}]
    BY <1>3, ChangeType DEF ApplyEvent, TablesTypeOK
  <2>2. L' = L /\ P' = P
    BY <2>1
  <2>3. Newer(v) <=> \A w \in recorded : L[w].aggregate = L[v].aggregate => w < v
    BY <1>1, <2>1 DEF Newer
  <2>4. \A b \in Entity : tables[b] # Null => tables[b] \in Row /\ R[b] = tables[b].version
    BY <2>1
  <2>5. Newer(v) => R[a] < v
    <3>1. CASE tables[a] = Null
      BY <2>1, <3>1
    <3>2. CASE tables[a] # Null
      BY <2>1, <2>4, <3>2 DEF RowsFollow, RowFollows, Latest, Newer
    <3>3. QED
      BY <3>1, <3>2
  <2>6. CASE ~Newer(v)
    <3>1. R' = R
      BY <1>3, <2>6 DEF ApplyEvent
    <3>2. QED
      BY <1>1, <2>1, <2>2, <2>3, <2>6, <3>1 DEF Abstract!ApplyBatch, Abstract!Projectable, Abstract!Shown,
         Abstract!Fresh, Abstract!Recorded
  <2>7. CASE Newer(v) /\ events[v].action = "upsert"
    <3>1. R' = [R EXCEPT ![a] = v]
      <4>1. tables' = Upserted(v)
        BY <1>3, <2>7 DEF ApplyEvent
      <4>2. tables'[a] \in Row /\ tables'[a].version = v
        BY <2>1, <2>7, <4>1, ApplyRow DEF Upserted
      <4>3. tables'[a] # Null
        BY <4>2
      <4>4. \A b \in Entity \ {a} : tables'[b] = tables[b]
        BY <2>1, <4>1 DEF Upserted
      <4>5. QED
        BY <2>1, <4>2, <4>3, <4>4
    <3>2. QED
      BY <1>1, <2>1, <2>2, <2>3, <2>5, <2>7, <3>1 DEF Abstract!ApplyBatch, Abstract!Projectable,
         Abstract!Shown, Abstract!Fresh, Abstract!Recorded
  <2>8. CASE Newer(v) /\ events[v].action = "delete"
    <3>1. R' = [R EXCEPT ![a] = 0]
      <4>1. tables' = Deleted(v) /\ Below(a) = {a}
        BY <1>3, <2>8 DEF ApplyEvent, Below
      <4>2. tables'[a] = Null
        BY <2>1, <4>1 DEF Deleted
      <4>3. ASSUME NEW b \in Entity \ {a}
            PROVE  R'[b] = R[b]
        <5>1. tables'[b] = tables[b] \/ (b \in Referring({a}) /\ tables'[b] = [tables[b] EXCEPT !.ref = Null])
          BY <4>1 DEF Deleted
        <5>2. CASE tables'[b] = tables[b]
          BY <5>2
        <5>3. CASE b \in Referring({a}) /\ tables'[b] = [tables[b] EXCEPT !.ref = Null]
          <6>1. tables[b] \in Row /\ tables[b] # Null
            BY <2>4, <5>3 DEF Referring
          <6>2. tables'[b] \in Row /\ tables'[b].version = tables[b].version
            BY <5>3, <6>1 DEF Row, Ref
          <6>3. tables'[b] # Null
            BY <6>2
          <6>4. QED
            BY <6>1, <6>2, <6>3
        <5>4. QED
          BY <5>1, <5>2, <5>3
      <4>4. QED
        BY <4>2, <4>3
    <3>2. QED
      BY <1>1, <2>1, <2>2, <2>3, <2>8, <3>1 DEF Abstract!ApplyBatch, Abstract!Projectable, Abstract!Shown,
         Abstract!Fresh, Abstract!Recorded
  <2>9. QED
    BY <2>1, <2>6, <2>7, <2>8
<1>4. QED
  BY <1>2, <1>3, TablesSteps, ChangeParts DEF Abstract!Next

\* The tables are those of ReadModel, one key per entity, as long as no row is
\* there that the withdrawal of another one takes along.
THEOREM TablesRefineReadModel == TablesSpec => TablesKeepReadModel
<1>1. TablesInit => Abstract!Init
  BY DEF TablesInit, Abstract!Init, Abstract!Version
<1>2. TablesInit => TablesTypeOK
  BY DEF TablesInit, TablesTypeOK
<1>3. TablesInit => RowsFollow /\ EventsInOrder
  BY DEF TablesInit, RowsFollow, RowFollows, Latest, EventsInOrder
<1>4. TablesInit => ShownFollows /\ SlugsFree
  BY DEF TablesInit, ShownFollows, NewestBefore, SlugsFree
<1>5. QED
  BY <1>1, <1>2, <1>3, <1>4, TablesStepType, TablesStepRows, TablesStepHistory, TablesStepKeeps, PTL
     DEF TablesSpec, TablesKeepReadModel

-----------------------------------------------------------------------------
(* The forms of the public site (PublicForms).  A start that overlapped    *)
(* with no other one is alone while it is setting up, is bound as long as  *)
(* the lifecycle would clean it up, or in a document that is gone, and     *)
(* waits for the newest request of those that use its form.                *)
-----------------------------------------------------------------------------

HIDE PublicTablesAssumption DEF Serial, HasEvent, SchemaOf
USE PublicFormsAssumption DEF Start, Page, Id

\* A request is not sent, or it is by a start that took hold of a form.
Requests ==
  \A r \in Id : request[r] = Unsent
                \/ (request[r].client # "unsent" /\ request[r].start \in Start
                      /\ form[request[r].start] # 0)

\* Starts begin in order, what the lifecycle would clean up is set up, and a start is
\* bound once it has its form, of the page shown then.
Setups ==
  /\ cleanup # 0 => stage[cleanup] = "done"
  /\ \A s \in Start :
       /\ stage[s] # "unborn" => s <= begun
       /\ stage[s] \in {"unborn", "importing"} => form[s] = 0
       /\ stage[s] \in {"awaiting", "refused"} => form[s] # 0
       /\ bound[s] => form[s] # 0 /\ stage[s] \in {"ending", "done", "lost"}
       /\ form[s] <= page

FormsTypeInv == FormsTypeOK /\ Requests /\ Setups

RequestRecord ==
  [start : 0..MaxStarts, token : 0..MaxTokens,
   client : {"unsent", "waiting", "aborted", "settled"}, server : {"unseen", "accepted", "refused"}]

\* The parts of FormsTypeOK: pages and starts, the script, the switches, the tokens.
StartsType ==
  /\ page \in Page /\ due \in {"install", "load", "none"} /\ begun \in 0..MaxStarts
  /\ stage \in [Start -> {"unborn", "importing", "awaiting", "refused", "ending", "done", "lost"}]
  /\ form \in [Start -> {0} \cup FormPages] /\ shell \in [Start -> {0} \cup Page]
  /\ cleanup \in {0} \cup Start

ScriptType ==
  /\ script \in {"absent", "loading", "failed", "loaded"}
  /\ loader \in {"none", "pending", "loaded", "stuck"} /\ failedOn \subseteq Page
  /\ message \in {"none", "unavailable", "challenge", "sent", "failed"}

SwitchType ==
  /\ bound \in [Start -> BOOLEAN] /\ solving \in [Start -> BOOLEAN]
  /\ submit \in BOOLEAN /\ overlapped \subseteq Start

TokenType ==
  /\ token \in [Start -> 0..MaxTokens] /\ issued \in 0..MaxTokens
  /\ \A s \in Start : solving[s] \/ token[s] # 0 => bound[s]

RequestType == request \in [Id -> RequestRecord]

\* The types of the forms are those of their five parts.
LEMMA FormsTypeParts ==
  FormsTypeOK <=> StartsType /\ ScriptType /\ SwitchType /\ TokenType /\ RequestType
BY Zenon DEF FormsTypeOK, StartsType, ScriptType, SwitchType, TokenType, RequestType, RequestRecord

\* An abort changes the client of requests that are waited for, and nothing else.
LEMMA AbortType ==
  ASSUME FormsTypeInv, NEW S
  PROVE  /\ Abort(S) \in [Id -> RequestRecord]
         /\ \A r \in Id :
              \/ Abort(S)[r] = request[r]
              \/ /\ request[r].client = "waiting" /\ Abort(S)[r].client = "aborted"
                 /\ Abort(S)[r].start = request[r].start /\ Abort(S)[r].token = request[r].token
                 /\ Abort(S)[r].server = request[r].server
<1>1. request \in [Id -> RequestRecord]
  BY DEF FormsTypeInv, FormsTypeOK, RequestRecord
<1>2. ASSUME NEW r \in Id
      PROVE  [request[r] EXCEPT !.client = "aborted"] \in RequestRecord
  BY <1>1 DEF RequestRecord
<1>3. QED
  BY <1>1, <1>2 DEF Abort, RequestRecord

\* Requests are as before, or aborted.
Aborts ==
  /\ request' \in [Id -> RequestRecord]
  /\ \A r \in Id :
       \/ request'[r] = request[r]
       \/ /\ request[r].client = "waiting" /\ request'[r].client = "aborted"
          /\ request'[r].start = request[r].start /\ request'[r].token = request[r].token
          /\ request'[r].server = request[r].server

\* A settled request is the request it was, but for its client.
LEMMA SettleType ==
  ASSUME FormsTypeInv, NEW r \in Id, request[r].client \in {"waiting", "aborted"}, Settle(r)
  PROVE  /\ request[r].start \in Start
         /\ request' \in [Id -> RequestRecord] /\ request'[r].client = "settled"
         /\ request'[r].start = request[r].start /\ request'[r].token = request[r].token
         /\ \A q \in Id \ {r} : request'[q] = request[q]
         /\ token' = [token EXCEPT ![request[r].start] = 0]
         /\ solving' = [solving EXCEPT ![request[r].start] = bound[request[r].start]]
         /\ submit' = (submit /\ form[request[r].start] # page)
<1>1. request \in [Id -> RequestRecord] /\ request[r] # Unsent
  BY DEF FormsTypeInv, FormsTypeOK, RequestRecord, Unsent
<1>2. request[r].start \in Start
  BY <1>1 DEF FormsTypeInv, Requests
<1>3. [request[r] EXCEPT !.client = "settled"] \in RequestRecord
  BY <1>1 DEF RequestRecord
<1>4. QED
  BY <1>1, <1>2, <1>3 DEF Settle, RequestRecord

\* A submission sends requests of starts that hold a token.
LEMMA PressType ==
  ASSUME FormsTypeInv, Press
  PROVE  /\ request' \in [Id -> RequestRecord]
         /\ \A r \in Id : request'[r] = Unsent
                          \/ (request'[r].client # "unsent" /\ request'[r].start \in Start
                                /\ form[request'[r].start] # 0)
         /\ submit' \in BOOLEAN /\ message' \in {"none", "challenge"}
<1> DEFINE ready == {s \in Start : OnPage(s) /\ token[s] # 0}
           all   == {s \in Start : OnPage(s)}
           n(s)  == Last + Cardinality({r \in ready : r <= s})
           sends(s) == [start |-> s, token |-> token[s], client |-> "waiting", server |-> "unseen"]
<1>1. /\ submit' = (submit /\ ready = {})
      /\ message' = IF all \subseteq ready THEN "none" ELSE "challenge"
      /\ request' = [r \in Id |-> IF \E s \in ready : n(s) = r
                                  THEN sends(CHOOSE s \in ready : n(s) = r) ELSE Abort(ready)[r]]
  BY DEF Press
<1>2. \A r \in Id : (\E s \in ready : n(s) = r) => (CHOOSE s \in ready : n(s) = r) \in ready
  OBVIOUS
<1> HIDE DEF n
<1>3. \A s \in ready : sends(s) \in RequestRecord
  <2>1. token \in [Start -> 0..MaxTokens]
    BY DEF FormsTypeInv, FormsTypeOK
  <2>2. QED
    BY <2>1 DEF RequestRecord
<1>4. \A r \in Id : \/ \E s \in ready : request'[r] = sends(s)
                    \/ request'[r] = Abort(ready)[r]
  BY <1>1, <1>2
<1> HIDE DEF ready, sends
<1>5. request' \in [Id -> RequestRecord]
  BY <1>1, <1>3, <1>4, AbortType
<1>6. \A s \in ready : /\ sends(s).client = "waiting" /\ sends(s).start \in Start
                       /\ form[sends(s).start] # 0
  BY DEF ready, sends, OnPage, FormsTypeInv, FormsTypeOK
<1>7. \A r \in Id : request'[r] = Unsent
                    \/ (request'[r].client # "unsent" /\ request'[r].start \in Start
                          /\ form[request'[r].start] # 0)
  <2> SUFFICES ASSUME NEW r \in Id
               PROVE  request'[r] = Unsent
                      \/ (request'[r].client # "unsent" /\ request'[r].start \in Start
                            /\ form[request'[r].start] # 0)
    OBVIOUS
  <2>1. CASE \E s \in ready : request'[r] = sends(s)
    BY <1>6, <2>1
  <2>2. CASE request'[r] = Abort(ready)[r]
    BY <2>2, AbortType DEF FormsTypeInv, Requests, Unsent
  <2>3. QED
    BY <1>4, <2>1, <2>2
<1>8. QED
  BY <1>1, <1>5, <1>7

\* The cleanup of a start.
LEMMA DisposeType ==
  ASSUME FormsTypeInv, NEW s, Dispose(s)
  PROVE  /\ Aborts
         /\ bound' \in [Start -> BOOLEAN] /\ solving' \in [Start -> BOOLEAN]
         /\ token' \in [Start -> 0..MaxTokens]
         /\ \A r \in Start : solving'[r] \/ token'[r] # 0 => bound'[r]
         /\ \A r \in Start \ {s} : bound'[r] = bound[r] /\ token'[r] = token[r]
         /\ s \in Start => ~bound'[s]
<1>1. Aborts
  BY AbortType DEF Dispose, Aborts
<1>2. SwitchType /\ TokenType
  BY FormsTypeParts DEF FormsTypeInv
<1>3. bound' \in [Start -> BOOLEAN] /\ solving' \in [Start -> BOOLEAN]
  BY <1>2 DEF Dispose, SwitchType
<1>4. token' \in [Start -> 0..MaxTokens]
  BY <1>2 DEF Dispose, TokenType
<1>5. ASSUME NEW r \in Start
      PROVE  /\ solving'[r] \/ token'[r] # 0 => bound'[r]
             /\ r # s => bound'[r] = bound[r] /\ token'[r] = token[r]
             /\ r = s => ~bound'[r]
  BY <1>2 DEF Dispose, SwitchType, TokenType
<1>6. QED
  BY <1>1, <1>3, <1>4, <1>5

\* An abort leaves requests as they have to be.
LEMMA AbortsRequests == FormsTypeInv /\ Aborts /\ form' = form => Requests'
BY DEF FormsTypeInv, Requests, Aborts, Unsent

\* A step of one start's setup.
MovesOn(s) ==
  \/ FindForm(s) \/ EndSetup(s) \/ ImportRejected(s) \/ FormUnavailable(s) \/ FormReady(s)

\* A setup takes hold of a form of the page while it imports, is bound when Turnstile
\* is there, and goes on to another import only where the page has no form.
LEMMA SetupStep ==
  ASSUME FormsTypeInv, NEW s \in Start, MovesOn(s)
  PROVE  /\ UNCHANGED <<page, due, begun, shell, overlapped, token, issued, submit, request>>
         /\ SettingUp(s)
         /\ stage' = [stage EXCEPT ![s] = stage'[s]]
         /\ \/ /\ stage'[s] = "done" /\ cleanup' = s
            \/ /\ stage'[s] \in {"awaiting", "ending", "lost"} /\ cleanup' = cleanup
         /\ stage'[s] = "ending" => page \notin FormPages
         /\ stage'[s] = "lost" => stage[s] \in {"importing", "ending"}
         /\ \/ form' = form
            \/ /\ form' = [form EXCEPT ![s] = page] /\ page \in FormPages
               /\ stage[s] = "importing" /\ stage'[s] = "awaiting"
         /\ \/ bound' = bound /\ solving' = solving /\ (stage'[s] = "awaiting" => stage[s] = "importing")
            \/ /\ bound' = [bound EXCEPT ![s] = TRUE] /\ solving' = [solving EXCEPT ![s] = TRUE]
               /\ stage[s] = "awaiting" /\ stage'[s] \in {"ending", "done"} /\ form' = form
<1>0. StartsType
  BY FormsTypeParts DEF FormsTypeInv
<1>1. CASE FindForm(s)
  <2>1. CASE page \in FormPages
    BY <1>0, <1>1, <2>1 DEF FindForm, SettingUp, StartsType, widget
  <2>2. CASE page \notin FormPages
    BY <1>0, <1>1, <2>2 DEF FindForm, Conclude, Finish, SettingUp, StartsType, widget
  <2> QED
    BY <2>1, <2>2
<1>2. CASE EndSetup(s)
  BY <1>0, <1>2 DEF EndSetup, Finish, SettingUp, StartsType, widget
<1>3. CASE ImportRejected(s)
  BY <1>0, <1>3 DEF ImportRejected, SettingUp, StartsType, widget
<1>4. CASE FormUnavailable(s)
  BY <1>0, <1>4 DEF FormUnavailable, Conclude, Finish, SettingUp, StartsType, widget
<1>5. CASE FormReady(s)
  BY <1>0, <1>5 DEF FormReady, Conclude, Finish, SettingUp, StartsType, widget
<1> QED
  BY <1>1, <1>2, <1>3, <1>4, <1>5 DEF MovesOn

\* Every step of pages, widgets and requests keeps the types.
LEMMA FormsStepType == FormsTypeInv /\ [FormsNext]_formVars => FormsTypeInv'
<1> SUFFICES ASSUME FormsTypeInv, [FormsNext]_formVars
             PROVE  FormsTypeInv'
  OBVIOUS
<1> USE DEF FormsTypeInv
<1>0. StartsType /\ ScriptType /\ SwitchType /\ TokenType /\ RequestType
  BY FormsTypeParts
<1>a. StartsType' /\ ScriptType' /\ SwitchType' /\ TokenType' /\ RequestType' => FormsTypeOK'
  BY Zenon DEF FormsTypeOK, StartsType, ScriptType, SwitchType, TokenType, RequestType, RequestRecord
<1>1. CASE Begin
  <2>1. StartsType'
    BY <1>0, <1>1 DEF Begin, StartsType, turnstile, Aborts
  <2>2. ScriptType'
    BY <1>0, <1>1 DEF Begin, ScriptType, turnstile, Aborts
  <2>3. SwitchType'
    BY <1>0, <1>1, DisposeType DEF Begin, SwitchType, turnstile, Aborts
  <2>4. TokenType'
    BY <1>0, <1>1, DisposeType DEF Begin, TokenType, SwitchType, turnstile, Aborts
  <2>5. RequestType'
    BY <1>0, <1>1, DisposeType DEF Begin, RequestType, turnstile, Aborts
  <2>6. Setups'
    <3>1. /\ begun + 1 \in Start /\ begun' = begun + 1 /\ UNCHANGED <<page, form, cleanup>>
          /\ stage' = [stage EXCEPT ![begun + 1] = "importing"]
      BY <1>1 DEF Begin
    <3>2. stage[begun + 1] = "unborn" /\ form[begun + 1] = 0
      BY <1>0, <3>1 DEF Setups, StartsType
    <3>3. cleanup' # 0 => stage'[cleanup'] = "done"
      BY <1>0, <3>1, <3>2 DEF Setups, StartsType
    <3>4. \A x \in Start : bound'[x] => bound[x]
      BY <1>0, <1>1 DEF Begin, Dispose, SwitchType
    <3>5. ASSUME NEW x \in Start
          PROVE  /\ stage'[x] # "unborn" => x <= begun'
                 /\ stage'[x] \in {"unborn", "importing"} => form[x] = 0
                 /\ stage'[x] \in {"awaiting", "refused"} => form[x] # 0
                 /\ bound'[x] => form[x] # 0 /\ stage'[x] \in {"ending", "done", "lost"}
                 /\ form[x] <= page
      BY <1>0, <3>1, <3>2, <3>4 DEF Setups, StartsType
    <3> QED
      BY <3>1, <3>3, <3>5 DEF Setups
  <2>7. Requests'
    BY <1>0, <1>1, DisposeType, AbortsRequests DEF Begin, Requests, Unsent, turnstile, Aborts
  <2>8. QED
    BY <2>1, <2>2, <2>3, <2>4, <2>5, <2>6, <2>7, <1>a
<1>2. ASSUME NEW s \in Start, MovesOn(s)
      PROVE  FormsTypeInv'
  <2>0. /\ UNCHANGED <<page, due, begun, shell, overlapped, token, issued, submit, request>>
        /\ SettingUp(s) /\ stage' = [stage EXCEPT ![s] = stage'[s]]
        /\ stage'[s] \in {"awaiting", "ending", "done", "lost"}
        /\ cleanup' \in {cleanup, s} /\ (cleanup' # cleanup => stage'[s] = "done")
        /\ form' = form \/ (form' = [form EXCEPT ![s] = page] /\ page \in FormPages)
        /\ \/ bound' = bound /\ solving' = solving
           \/ /\ bound' = [bound EXCEPT ![s] = TRUE] /\ solving' = [solving EXCEPT ![s] = TRUE]
    BY <1>2, SetupStep
  <2>1. StartsType'
    BY <1>0, <2>0 DEF StartsType
  <2>2. ScriptType'
    BY <1>0, <1>2 DEF MovesOn, FindForm, EndSetup, ImportRejected, FormUnavailable, FormReady,
       ScriptType, turnstile
  <2>3. SwitchType' /\ TokenType'
    BY <1>0, <2>0 DEF SwitchType, TokenType
  <2>4. RequestType'
    BY <1>0, <2>0 DEF RequestType
  <2>5. Setups'
    <3>1. cleanup' # 0 => stage'[cleanup'] = "done"
      BY <1>0, <2>0 DEF Setups, StartsType, SettingUp
    <3>2. ASSUME NEW x \in Start
          PROVE  /\ stage'[x] # "unborn" => x <= begun
                 /\ stage'[x] \in {"unborn", "importing"} => form'[x] = 0
                 /\ stage'[x] \in {"awaiting", "refused"} => form'[x] # 0
                 /\ bound'[x] => form'[x] # 0 /\ stage'[x] \in {"ending", "done", "lost"}
                 /\ form'[x] <= page
      <4>1. CASE x # s
        BY <1>0, <2>0, <4>1 DEF Setups, StartsType, SwitchType
      <4>2. CASE x = s
        <5>1. /\ s <= begun /\ form[s] <= page /\ page \in Page
              /\ stage[s] \in {"importing", "awaiting", "refused", "ending"}
              /\ bound[s] => form[s] # 0 /\ stage[s] = "ending"
          BY <1>0, <2>0 DEF Setups, StartsType, SettingUp
        <5>2. form'[s] <= page
          BY <1>0, <2>0, <5>1 DEF StartsType
        <5>3. CASE bound' = bound
          <6>1. bound[s] => stage'[s] \in {"ending", "done", "lost"} /\ form' = form
            BY <1>2, <5>1, SetupStep
          <6>2. stage'[s] = "awaiting" => form'[s] # 0
            <7>1. ASSUME stage'[s] = "awaiting"
                  PROVE  form' = [form EXCEPT ![s] = page] \/ form[s] # 0
              <8>1. CASE form' # form
                BY <2>0, <8>1
              <8>2. CASE form' = form
                BY <1>0, <1>2, <7>1, <8>2 DEF StartsType, MovesOn, FindForm, EndSetup, ImportRejected, Setups, Conclude,
                   Finish, FormUnavailable, FormReady
              <8> QED
                BY <8>1, <8>2
            <7> QED
              BY <1>0, <2>0, <5>1, <7>1 DEF StartsType
          <6> QED
            BY <2>0, <4>2, <5>1, <5>2, <5>3, <6>1, <6>2
        <5>4. CASE bound' # bound
          <6>1. /\ stage[s] = "awaiting" /\ stage'[s] \in {"ending", "done"} /\ form' = form
            BY <1>2, <5>4, SetupStep
          <6>2. form[s] # 0
            BY <6>1 DEF Setups
          <6> QED
            BY <2>0, <4>2, <5>1, <5>2, <6>1, <6>2
        <5> QED
          BY <5>3, <5>4
      <4> QED
        BY <4>1, <4>2
    <3> QED
      BY <2>0, <3>1, <3>2 DEF Setups
  <2>6. Requests'
    BY <1>0, <2>0 DEF StartsType, Requests, Unsent
  <2> QED
    BY <2>1, <2>2, <2>3, <2>4, <2>5, <2>6, <1>a
<1>3. CASE ScriptLoads \/ ScriptFails
  <2>1. StartsType'
    BY <1>0, <1>3 DEF ScriptLoads, ScriptFails, StartsType, setup, widget
  <2>2. ScriptType'
    BY <1>0, <1>3 DEF ScriptLoads, ScriptFails, ScriptType, StartsType, setup, widget
  <2>3. SwitchType'
    BY <1>0, <1>3 DEF ScriptLoads, ScriptFails, SwitchType, setup, widget
  <2>4. TokenType'
    BY <1>0, <1>3 DEF ScriptLoads, ScriptFails, TokenType, SwitchType, setup, widget
  <2>5. RequestType'
    BY <1>0, <1>3 DEF ScriptLoads, ScriptFails, RequestType, setup, widget
  <2>6. Setups'
    BY <1>0, <1>3 DEF ScriptLoads, ScriptFails, Setups, StartsType, setup, widget
  <2>7. Requests'
    BY <1>0, <1>3 DEF ScriptLoads, ScriptFails, Requests, Unsent, setup, widget
  <2>8. QED
    BY <2>1, <2>2, <2>3, <2>4, <2>5, <2>6, <2>7, <1>a
<1>5. CASE Swap
  <2>1. StartsType'
    BY <1>0, <1>5 DEF Swap, StartsType, Aborts
  <2>2. ScriptType'
    BY <1>0, <1>5 DEF Swap, ScriptType, Aborts
  <2>3. SwitchType'
    BY <1>0, <1>5, DisposeType DEF Swap, SwitchType, Aborts
  <2>4. TokenType'
    BY <1>0, <1>5, DisposeType DEF Swap, TokenType, SwitchType, Aborts
  <2>5. RequestType'
    BY <1>0, <1>5, DisposeType DEF Swap, RequestType, Aborts
  <2>6. Setups'
    <3>1. /\ page' = page + 1 /\ UNCHANGED <<begun, stage, form, cleanup>>
          /\ \A x \in Start : bound'[x] => bound[x]
      BY <1>0, <1>5 DEF Swap, Dispose, SwitchType
    <3>2. ASSUME NEW x \in Start
          PROVE  form[x] \in Int /\ page \in Int
      <4>1. form[x] \in {0} \cup FormPages /\ page \in 1..MaxPages
        BY <1>0 DEF StartsType
      <4>2. MaxPages \in Nat /\ \A p \in FormPages : p \in 1..MaxPages
        OBVIOUS
      <4> QED
        BY ONLY <4>1, <4>2, SMT
    <3> QED
      BY <3>1, <3>2 DEF Setups
  <2>7. Requests'
    BY <1>0, <1>5, DisposeType, AbortsRequests DEF Swap, Requests, Unsent, Aborts
  <2>8. QED
    BY <2>1, <2>2, <2>3, <2>4, <2>5, <2>6, <2>7, <1>a
<1>6. ASSUME NEW s \in Start, Callback(s) \/ Expire(s) \/ WidgetFails(s)
      PROVE  FormsTypeInv'
  <2>1. StartsType'
    BY <1>0, <1>6 DEF Callback, Expire, WidgetFails, OnPage, StartsType, setup, turnstile
  <2>2. ScriptType'
    BY <1>0, <1>6 DEF Callback, Expire, WidgetFails, OnPage, ScriptType, setup, turnstile
  <2>3. SwitchType'
    BY <1>0, <1>6 DEF Callback, Expire, WidgetFails, OnPage, SwitchType, setup, turnstile
  <2>4. TokenType'
    <3>1. /\ bound' = bound /\ bound[s]
          /\ \/ issued < MaxTokens /\ issued' = issued + 1 /\ token' = [token EXCEPT ![s] = issued + 1]
             \/ issued' = issued /\ token' = [token EXCEPT ![s] = 0]
          /\ \A x \in Start \ {s} : solving'[x] = solving[x]
      BY <1>0, <1>6 DEF Callback, Expire, WidgetFails, OnPage, setup, SwitchType
    <3>2. MaxTokens \in Nat
      OBVIOUS
    <3>3. issued' \in 0..MaxTokens /\ token' \in [Start -> 0..MaxTokens]
      BY <1>0, <3>1, <3>2 DEF TokenType
    <3>4. ASSUME NEW x \in Start, solving'[x] \/ token'[x] # 0
          PROVE  bound'[x]
      BY <1>0, <3>1, <3>4 DEF TokenType, SwitchType
    <3> QED
      BY <3>3, <3>4 DEF TokenType
  <2>5. RequestType'
    BY <1>0, <1>6 DEF Callback, Expire, WidgetFails, OnPage, RequestType, setup, turnstile
  <2>6. Setups'
    BY <1>0, <1>6 DEF Callback, Expire, WidgetFails, OnPage, Setups, StartsType, setup, turnstile
  <2>7. Requests'
    BY <1>0, <1>6 DEF Callback, Expire, WidgetFails, OnPage, Requests, Unsent, setup, turnstile
  <2>8. QED
    BY <2>1, <2>2, <2>3, <2>4, <2>5, <2>6, <2>7, <1>a
<1>7. CASE Press
  <2>1. UNCHANGED <<page, setup, turnstile, widget>>
    BY <1>7 DEF Press
  <2>2. StartsType' /\ TokenType' /\ Setups'
    BY <1>0, <2>1 DEF StartsType, TokenType, Setups, setup, widget
  <2>3. ScriptType' /\ RequestType' /\ Requests'
    BY <1>0, <1>7, <2>1, PressType DEF ScriptType, RequestType, Requests, turnstile, setup
  <2>4. SwitchType'
    BY <1>0, <1>7, <2>1, PressType DEF SwitchType, setup, turnstile, widget
  <2>5. QED
    BY <2>2, <2>3, <2>4, <1>a
<1>8. ASSUME NEW r \in Id, Answer(r) \/ NetworkFails(r) \/ Aborted(r)
      PROVE  FormsTypeInv'
  <2>1. /\ request[r].client \in {"waiting", "aborted"} /\ Settle(r)
        /\ message' \in {message, "sent", "failed"}
        /\ UNCHANGED <<page, setup, turnstile, issued>>
    BY <1>8 DEF Answer, NetworkFails, Aborted, Shows
  <2>2. StartsType' /\ ScriptType' /\ Setups'
    BY <1>0, <2>1 DEF StartsType, ScriptType, Setups, setup, turnstile
  <2>3. RequestType' /\ Requests'
    BY <1>0, <2>1, SettleType DEF RequestType, Requests, setup, Unsent
  <2>4. SwitchType' /\ bound' = bound
    BY <1>0, <2>1, SettleType DEF SwitchType, setup, turnstile
  <2>5. TokenType'
    <3> DEFINE s == request[r].start
    <3>1. s \in Start /\ token' = [token EXCEPT ![s] = 0] /\ solving' = [solving EXCEPT ![s] = bound[s]]
      BY <2>1, SettleType
    <3>2. ASSUME NEW x \in Start, solving'[x] \/ token'[x] # 0
          PROVE  bound'[x]
      BY <1>0, <2>4, <3>1, <3>2 DEF TokenType, SwitchType
    <3>3. QED
      BY <1>0, <2>1, <3>1, <3>2 DEF TokenType
  <2>6. QED
    BY <2>2, <2>3, <2>4, <2>5, <1>a
<1>9. ASSUME NEW r \in Id, NEW accepts \in BOOLEAN, Serve(r, accepts)
      PROVE  FormsTypeInv'
  <2>1. /\ request[r].client # "unsent"
        /\ \E answer \in {"accepted", "refused"} : request' = [request EXCEPT ![r].server = answer]
        /\ UNCHANGED <<page, setup, turnstile, widget, submit, message>>
    BY <1>9 DEF Serve
  <2>2. StartsType' /\ ScriptType' /\ Setups'
    BY <1>0, <2>1 DEF StartsType, ScriptType, Setups, setup, turnstile
  <2>3. SwitchType' /\ TokenType'
    BY <1>0, <2>1 DEF SwitchType, TokenType, setup, turnstile, widget
  <2>4. /\ RequestType'
        /\ \A q \in Id : /\ q # r => request'[q] = request[q]
                        /\ request'[q].client = request[q].client
                        /\ request'[q].start = request[q].start
    BY <1>0, <2>1 DEF RequestType, RequestRecord
  <2>6. ASSUME NEW q \in Id
        PROVE  request'[q] = Unsent
               \/ (request'[q].client # "unsent" /\ request'[q].start \in Start
                     /\ form'[request'[q].start] # 0)
    <3>1. form' = form
      BY <2>1 DEF setup
    <3>2. request[q] = Unsent
          \/ (request[q].client # "unsent" /\ request[q].start \in Start
                /\ form[request[q].start] # 0)
      BY DEF Requests
    <3>3. q = r => request[q] # Unsent
      BY <2>1 DEF Unsent
    <3> QED
      BY <2>4, <3>1, <3>2, <3>3
  <2>5. QED
    BY <2>2, <2>3, <2>4, <2>6, <1>a DEF Requests
<1>10. CASE UNCHANGED formVars
  <2>1. FormsTypeOK'
    BY <1>10 DEF formVars, FormsTypeOK
  <2>2. Setups'
    BY <1>10 DEF formVars, Setups
  <2>3. Requests'
    BY <1>10 DEF formVars, Requests, Unsent
  <2>4. QED
    BY <2>1, <2>2, <2>3
<1>11. QED
  BY <1>1, <1>2, <1>3, <1>5, <1>6, <1>7, <1>8, <1>9, <1>10 DEF FormsNext, MovesOn

\* The start the lifecycle would clean up, while no setup is under way.
Settled(s) == s = cleanup /\ \A x \in Start : ~SettingUp(x)

\* A start that overlapped with no other one is the only one that sets up, and what it
\* bound is bound while it is the one to be cleaned up, or where an import was rejected.
SetupAlone ==
  /\ \A s, x \in Start : SettingUp(s) /\ SettingUp(x) /\ s # x => s \in overlapped
  /\ \A s \in Start \ overlapped :
       /\ bound[s] => Settled(s) \/ (stage[s] \in {"ending", "lost"} /\ form[s] # page)
       /\ shell[s] # 0 => Settled(s) \/ SettingUp(s) \/ stage[s] = "lost"

\* What such a start waits for was sent from the page shown, and is the newest request
\* but for those of starts that overlapped on the same page.
WaitingIsNewest ==
  \A r \in Id : request[r].client = "waiting" /\ request[r].start \notin overlapped =>
    /\ OnPage(request[r].start)
    /\ \A q \in Sent : q <= r \/ (request[q].start \in overlapped /\ form[request[q].start] = page)

\* A token belongs to one start, which sends it once unless it shares the button.
TokensFresh ==
  /\ \A r \in Sent : request[r].token \in 1..issued
  /\ \A s \in Start : token[s] <= issued
  /\ \A s, x \in Start : token[s] # 0 /\ token[x] = token[s] => x = s
  /\ \A r \in Sent, s \in Start : token[s] = request[r].token => request[r].start = s
  /\ \A r, q \in Sent : r # q /\ request[r].token = request[q].token =>
       request[q].start = request[r].start /\ Shared(request[r].start)
  /\ \A s \in Start, r \in Sent : submit /\ OnPage(s) /\ ~Shared(s) => token[s] # request[r].token

InTurn == SetupAlone /\ WaitingIsNewest /\ TokensFresh

\* A set of numbers with an upper bound has a greatest one.
LEMMA BoundedHasGreatest ==
  ASSUME NEW n \in Nat, NEW S \in SUBSET (0..n), S # {}
  PROVE  \E x \in S : \A y \in S : y <= x
<1> DEFINE below(x) == n - x
           T == {below(x) : x \in S}
<1>1. \A x \in S : x \in 0..n /\ below(x) \in Nat
  OBVIOUS
<1>2. T \subseteq Nat /\ T # {}
  BY <1>1
<1>3. \E t \in T : \A u \in T : ~(<<u, t>> \in OpToRel(<, Nat))
  <2>1. IsWellFoundedOn(OpToRel(<, Nat), Nat)
    BY NatLessThanWellFounded
  <2> HIDE DEF T
  <2> QED
    BY <1>2, <2>1, WFMin
<1>4. PICK x \in S : \A y \in S : ~(<<below(y), below(x)>> \in OpToRel(<, Nat))
  BY <1>3
<1>5. ASSUME NEW y \in S
      PROVE  y <= x
  <2>1. ~(n - y < n - x)
    BY <1>1, <1>4 DEF OpToRel
  <2> QED
    BY <1>1, <2>1
<1> QED
  BY <1>5

\* The newest request is sent, or none is.
LEMMA LastIsNewest ==
  /\ Last \in Sent \cup {0} /\ \A r \in Sent : r <= Last
  /\ Last \in Nat /\ Sent \subseteq Id
<1>1. Sent \subseteq Id /\ MaxRequests \in Nat
  BY DEF Sent
<1>2. Sent \cup {0} \in SUBSET (0..MaxRequests)
  BY <1>1
<1>3. \E n \in Sent \cup {0} : \A r \in Sent : r <= n
  <2>1. \E n \in Sent \cup {0} : \A r \in Sent \cup {0} : r <= n
    BY <1>1, <1>2, BoundedHasGreatest
  <2> QED
    BY <2>1
<1>4. Last \in Sent \cup {0} /\ \A r \in Sent : r <= Last
  BY <1>3 DEF Last
<1> QED
  BY <1>1, <1>2, <1>4

\* The starts whose listeners send when the form is submitted, and the request of each.
Ready == {s \in Start : OnPage(s) /\ token[s] # 0}
Number(s) == Last + Cardinality({x \in Ready : x <= s})
Sends(r, s) ==
  /\ s \in Ready /\ r = Number(s)
  /\ request'[r] = [start |-> s, token |-> token[s], client |-> "waiting", server |-> "unseen"]

\* A submission sends requests that are newer than all before, and aborts what those
\* that send wait for.
LEMMA PressSends ==
  ASSUME FormsTypeInv, Press
  PROVE  /\ submit /\ submit' = (Ready = {})
         /\ \A r \in Id : (\E s \in Ready : Sends(r, s)) \/ request'[r] = Abort(Ready)[r]
         /\ \A s \in Ready, r \in Sent : r < Number(s)
<1>1. /\ submit /\ submit' = (submit /\ Ready = {})
      /\ request' = [r \in Id |->
           IF \E s \in Ready : Number(s) = r
           THEN LET s == CHOOSE q \in Ready : Number(q) = r IN
                [start |-> s, token |-> token[s], client |-> "waiting", server |-> "unseen"]
           ELSE Abort(Ready)[r]]
  BY DEF Press, Ready, Number
<1>2. ASSUME NEW r \in Id, \E s \in Ready : Number(s) = r
      PROVE  \E s \in Ready : Sends(r, s)
  <2> DEFINE s == CHOOSE q \in Ready : Number(q) = r
  <2>1. s \in Ready /\ Number(s) = r
    BY <1>2
  <2>2. request'[r] = [start |-> s, token |-> token[s], client |-> "waiting", server |-> "unseen"]
    BY <1>1, <1>2
  <2> HIDE DEF s
  <2> QED
    BY <2>1, <2>2 DEF Sends
<1>3. ASSUME NEW r \in Id, ~\E s \in Ready : Number(s) = r
      PROVE  request'[r] = Abort(Ready)[r]
  BY <1>1, <1>3
<1>4. ASSUME NEW s \in Ready, NEW r \in Sent
      PROVE  r < Number(s)
  <2> DEFINE upTo == {x \in Ready : x <= s}
  <2>1. MaxStarts \in Nat /\ s \in Start
    BY DEF Ready
  <2>2. IsFiniteSet(Start)
    BY <2>1, FS_Interval
  <2>3. upTo \in SUBSET Start /\ s \in upTo
    BY <2>1 DEF Ready
  <2>4. IsFiniteSet(upTo)
    BY <2>2, <2>3, FS_Subset
  <2> HIDE DEF upTo
  <2>5. Cardinality(upTo) \in Nat /\ Cardinality(upTo) # 0
    BY <2>3, <2>4, FS_CardinalityType, FS_EmptySet
  <2>6. Number(s) = Last + Cardinality(upTo)
    BY DEF Number, upTo
  <2>7. r \in Nat /\ Last \in Nat /\ r <= Last
    BY LastIsNewest
  <2> QED
    BY <2>5, <2>6, <2>7
<1> QED
  BY <1>1, <1>2, <1>3, <1>4

\* A request is sent when the client knows it.
LEMMA SentRequests ==
  ASSUME FormsTypeInv
  PROVE  \A r \in Sent : r \in Id /\ request[r].client # "unsent" /\ request[r].start \in Start
                         /\ form[request[r].start] # 0 /\ request[r].start # 0
BY DEF Sent, FormsTypeInv, Requests, Unsent

\* Requests keep what they say and whether they were sent, and none is waited for anew.
RequestsKeep ==
  \A r \in Id :
    /\ r \in Sent' <=> r \in Sent
    /\ request'[r].token = request[r].token /\ request'[r].start = request[r].start
    /\ request'[r].client = "waiting" => request[r].client = "waiting"

\* Requests that are as before, or aborted.
LEMMA AbortsKeep ==
  ASSUME FormsTypeInv, Aborts
  PROVE  RequestsKeep
BY DEF Aborts, RequestsKeep, Sent, Unsent

\* Pages and starts stay, but for those that are told of a script that failed.
SetupStays ==
  /\ UNCHANGED <<page, form, shell, bound, cleanup, overlapped>>
  /\ \A s \in Start : /\ SettingUp(s)' <=> SettingUp(s)
                      /\ stage'[s] \in {"ending", "lost"} => stage'[s] = stage[s]
                      /\ stage[s] \in {"ending", "lost"} => stage'[s] = stage[s]

\* The steps that set nothing up and send nothing.
LEMMA OtherSteps ==
  ASSUME FormsTypeInv, [FormsNext]_formVars,
         ~Begin, ~Swap, ~Press, \A s \in Start : ~MovesOn(s)
  PROVE  /\ SetupStays /\ RequestsKeep
         /\ \/ /\ issued' = issued /\ (submit' => submit)
               /\ \A s \in Start : token'[s] = 0 \/ token'[s] = token[s]
            \/ /\ request' = request
               /\ \E s \in Start : /\ OnPage(s) /\ issued' = issued + 1
                                   /\ token' = [token EXCEPT ![s] = issued + 1]
<1>0. StartsType /\ TokenType /\ RequestType
  BY FormsTypeParts DEF FormsTypeInv
<1>1. CASE ScriptLoads \/ ScriptFails
  <2>1. UNCHANGED <<page, form, shell, bound, cleanup, overlapped, token, issued, submit, request>>
    BY <1>1 DEF ScriptLoads, ScriptFails, setup, widget
  <2>2. ASSUME NEW s \in Start
        PROVE  /\ SettingUp(s)' <=> SettingUp(s)
               /\ stage'[s] \in {"ending", "lost"} => stage'[s] = stage[s]
               /\ stage[s] \in {"ending", "lost"} => stage'[s] = stage[s]
    BY <1>0, <1>1 DEF ScriptLoads, ScriptFails, setup, SettingUp, StartsType
  <2>3. RequestsKeep
    BY <2>1 DEF RequestsKeep, Sent
  <2> QED
    BY <2>1, <2>2, <2>3 DEF SetupStays
<1>2. ASSUME NEW s \in Start, Callback(s)
      PROVE  /\ UNCHANGED <<page, setup, request>> /\ OnPage(s) /\ issued' = issued + 1
             /\ token' = [token EXCEPT ![s] = issued + 1]
  BY <1>2 DEF Callback
<1>3. ASSUME NEW s \in Start, Expire(s) \/ WidgetFails(s)
      PROVE  /\ UNCHANGED <<page, setup, request>> /\ issued' = issued /\ ~submit'
             /\ \A x \in Start : token'[x] = 0 \/ token'[x] = token[x]
  BY <1>0, <1>3 DEF Expire, WidgetFails, TokenType
<1>4. ASSUME NEW r \in Id, Answer(r) \/ NetworkFails(r) \/ Aborted(r)
      PROVE  /\ UNCHANGED <<page, setup>> /\ issued' = issued /\ (submit' => submit)
             /\ \A x \in Start : token'[x] = 0 \/ token'[x] = token[x]
             /\ RequestsKeep
  <2>1. /\ request[r].client \in {"waiting", "aborted"} /\ Settle(r)
        /\ UNCHANGED <<page, setup, issued>>
    BY <1>4 DEF Answer, NetworkFails, Aborted
  <2>2. /\ token' = [token EXCEPT ![request[r].start] = 0] /\ (submit' => submit)
        /\ request'[r].client = "settled" /\ request'[r].token = request[r].token
        /\ request'[r].start = request[r].start
        /\ \A q \in Id \ {r} : request'[q] = request[q]
    BY <2>1, SettleType
  <2>3. RequestsKeep
    BY <2>1, <2>2 DEF RequestsKeep, Sent, Unsent
  <2> QED
    BY <1>0, <2>1, <2>2, <2>3 DEF TokenType
<1>5. ASSUME NEW r \in Id, NEW accepts \in BOOLEAN, Serve(r, accepts)
      PROVE  /\ UNCHANGED <<page, setup>> /\ issued' = issued /\ submit' = submit /\ token' = token
             /\ RequestsKeep
  <2>1. /\ UNCHANGED <<page, setup, widget, submit>> /\ request[r].client # "unsent"
        /\ \E answer \in {"accepted", "refused"} : request' = [request EXCEPT ![r].server = answer]
    BY <1>5 DEF Serve
  <2>2. \A q \in Id : /\ request'[q].client = request[q].client /\ request'[q].token = request[q].token
                      /\ request'[q].start = request[q].start
                      /\ q # r => request'[q] = request[q]
    BY <1>0, <2>1 DEF RequestType, RequestRecord
  <2>3. RequestsKeep
    BY <2>1, <2>2 DEF RequestsKeep, Sent, Unsent
  <2> QED
    BY <2>1, <2>3 DEF widget
<1>6. UNCHANGED <<page, setup>> => SetupStays
  BY DEF setup, SetupStays, SettingUp
<1>7. UNCHANGED request => RequestsKeep
  BY DEF RequestsKeep, Sent
<1>8. CASE UNCHANGED formVars
  BY <1>6, <1>7, <1>8 DEF formVars, setup
<1> QED
  BY <1>1, <1>2, <1>3, <1>4, <1>5, <1>6, <1>7, <1>8 DEF FormsNext, MovesOn

\* Of the starts that overlapped with no other one, only the one to be cleaned up is
\* bound on the page shown.
LEMMA OnlyOneOnPage ==
  ASSUME SetupAlone, NEW s \in Start, s \notin overlapped, OnPage(s)
  PROVE  Settled(s)
BY DEF SetupAlone, OnPage

\* Such a start holds the controller of what it waits for.
LEMMA WaitingIsControlled ==
  ASSUME FormsTypeInv, WaitingIsNewest, NEW r \in Id,
         request[r].client = "waiting", request[r].start \notin overlapped
  PROVE  Controller(request[r].start, r)
<1>1. r \in Sent /\ request[r].start \in Start
  BY DEF FormsTypeInv, Requests, Sent, Unsent
<1>2. ASSUME NEW q \in Id, request[q].start = request[r].start
      PROVE  q <= r
  <2>1. q \in Sent
    BY <1>1, <1>2 DEF Sent, Unsent
  <2> QED
    BY <1>2, <2>1 DEF WaitingIsNewest
<1> QED
  BY <1>2 DEF Controller

\* An abort ends the wait for what a start controls.
LEMMA AbortEndsWait ==
  ASSUME FormsTypeInv, NEW S, NEW r \in Id, Abort(S)[r].client = "waiting"
  PROVE  request[r].client = "waiting" /\ \A s \in S : ~Controller(s, r)
<1>1. request \in [Id -> RequestRecord]
  BY FormsTypeParts DEF FormsTypeInv, RequestType
<1> QED
  BY <1>1 DEF Abort, RequestRecord

\* Once the lifecycle has cleaned up, of the starts that overlapped with no other one
\* none is bound on the page, and none waits for an answer.
LEMMA CleanedUp ==
  ASSUME FormsTypeInv, SetupAlone, WaitingIsNewest, Dispose(cleanup)
  PROVE  /\ \A s \in Start \ overlapped :
              bound'[s] => bound[s] /\ stage[s] \in {"ending", "lost"} /\ form[s] # page
         /\ \A r \in Id : request'[r].client = "waiting" => request[r].start \in overlapped
         /\ RequestsKeep /\ \A s \in Start : token'[s] = 0 \/ token'[s] = token[s]
<1>0. SwitchType /\ TokenType
  BY FormsTypeParts DEF FormsTypeInv
<1>1. ASSUME NEW s \in Start \ overlapped, bound'[s]
      PROVE  bound[s] /\ stage[s] \in {"ending", "lost"} /\ form[s] # page
  <2>1. bound[s] /\ s # cleanup
    BY <1>0, <1>1 DEF Dispose, SwitchType
  <2> QED
    BY <2>1 DEF SetupAlone, Settled
<1>2. ASSUME NEW r \in Id, request'[r].client = "waiting", request[r].start \notin overlapped
      PROVE  FALSE
  <2>1. request' = Abort({cleanup})
    BY DEF Dispose
  <2>2. request[r].client = "waiting" /\ ~Controller(cleanup, r)
    BY <1>2, <2>1, AbortEndsWait
  <2>3. request[r].start \in Start
    BY <2>2 DEF FormsTypeInv, Requests, Unsent
  <2>4. Settled(request[r].start)
    BY <1>2, <2>2, <2>3, OnlyOneOnPage DEF WaitingIsNewest
  <2> QED
    BY <1>2, <2>2, <2>4, WaitingIsControlled DEF Settled
<1>3. RequestsKeep
  BY DisposeType, AbortsKeep
<1>4. \A s \in Start : token'[s] = 0 \/ token'[s] = token[s]
  BY <1>0 DEF Dispose, TokenType
<1> QED
  BY <1>1, <1>2, <1>3, <1>4

\* A start that overlaps with no other one stays the only one that sets up.
LEMMA SetupAloneStep ==
  FormsTypeInv /\ SetupAlone /\ WaitingIsNewest /\ [FormsNext]_formVars => SetupAlone'
<1> SUFFICES ASSUME FormsTypeInv, SetupAlone, WaitingIsNewest, [FormsNext]_formVars
             PROVE  SetupAlone'
  OBVIOUS
<1>0. StartsType /\ SwitchType /\ Setups
  BY FormsTypeParts DEF FormsTypeInv
<1>1. CASE Begin
  <2> DEFINE b == begun + 1
             others == {r \in Start : SettingUp(r)}
  <2>1. /\ b \in Start /\ stage[b] = "unborn" /\ stage' = [stage EXCEPT ![b] = "importing"]
        /\ shell' = [r \in Start |-> CASE r = b -> page [] r = cleanup -> 0 [] OTHER -> shell[r]]
        /\ overlapped' = IF others = {} THEN overlapped ELSE overlapped \cup others \cup {b}
        /\ UNCHANGED <<page, form, cleanup>> /\ Dispose(cleanup)
    BY <1>0, <1>1 DEF Begin, Setups, StartsType
  <2>2. \A r \in Start : SettingUp(r)' <=> r = b \/ SettingUp(r)
    BY <1>0, <2>1 DEF SettingUp, StartsType
  <2>3. \A r \in Start \ {b} : stage'[r] = stage[r]
    BY <1>0, <2>1 DEF StartsType
  <2>4. overlapped \subseteq overlapped' /\ (others # {} => others \cup {b} \subseteq overlapped')
    BY <2>1
  <2>5. ASSUME NEW s \in Start, NEW x \in Start, SettingUp(s)', SettingUp(x)', s # x
        PROVE  s \in overlapped'
    BY <2>2, <2>4, <2>5
  <2>6. ASSUME NEW s \in Start \ overlapped'
        PROVE  /\ bound'[s] => stage'[s] \in {"ending", "lost"} /\ form'[s] # page'
               /\ shell'[s] # 0 => SettingUp(s)' \/ stage'[s] = "lost"
    <3>1. s \in Start \ overlapped
      BY <2>4
    <3>2. bound'[s] => stage[s] \in {"ending", "lost"} /\ form[s] # page
      BY <2>1, <3>1, CleanedUp
    <3>3. CASE s = b
      BY <2>1, <2>2, <3>2, <3>3
    <3>4. CASE s # b
      <4>1. shell'[s] # 0 => shell[s] # 0 /\ s # cleanup
        BY <2>1, <3>4
      <4> QED
        BY <2>1, <2>2, <2>3, <3>1, <3>2, <3>4, <4>1 DEF SetupAlone, Settled
    <3> QED
      BY <3>3, <3>4
  <2> QED
    BY <2>5, <2>6 DEF SetupAlone
<1>2. CASE Swap
  <2>1. /\ UNCHANGED <<stage, form, cleanup, overlapped>> /\ page' = page + 1 /\ Dispose(cleanup)
        /\ shell' = [r \in Start |-> IF r = cleanup THEN 0 ELSE shell[r]]
    BY <1>2 DEF Swap
  <2>2. \A r \in Start : SettingUp(r)' <=> SettingUp(r)
    BY <2>1 DEF SettingUp
  <2>3. ASSUME NEW s \in Start \ overlapped
        PROVE  /\ bound'[s] => stage[s] \in {"ending", "lost"} /\ form[s] # page'
               /\ shell'[s] # 0 => SettingUp(s) \/ stage[s] = "lost"
    <3>1. bound'[s] => stage[s] \in {"ending", "lost"}
      BY <2>1, CleanedUp
    <3>2. form[s] # page'
      <4>1. form[s] <= page /\ page \in 1..MaxPages /\ form[s] \in {0} \cup FormPages
        BY <1>0 DEF Setups, StartsType
      <4>2. MaxPages \in Nat /\ \A p \in FormPages : p \in 1..MaxPages
        OBVIOUS
      <4> QED
        BY ONLY <2>1, <4>1, <4>2, SMT
    <3> QED
      BY <2>1, <3>1, <3>2 DEF SetupAlone, Settled
  <2> QED
    BY <2>1, <2>2, <2>3 DEF SetupAlone
<1>3. ASSUME NEW x \in Start, MovesOn(x)
      PROVE  SetupAlone'
  <2>1. /\ UNCHANGED <<page, shell, overlapped>> /\ SettingUp(x)
        /\ stage' = [stage EXCEPT ![x] = stage'[x]]
        /\ \/ stage'[x] = "done" /\ cleanup' = x
           \/ stage'[x] \in {"awaiting", "ending", "lost"} /\ cleanup' = cleanup
    BY <1>3, SetupStep
  <2>2. \A s \in Start \ {x} : stage'[s] = stage[s] /\ (SettingUp(s)' <=> SettingUp(s))
    BY <1>0, <2>1 DEF StartsType, SettingUp
  <2>3. \A s, y \in Start : SettingUp(s)' /\ SettingUp(y)' /\ s # y => s \in overlapped'
    BY <2>1, <2>2 DEF SetupAlone
  <2>4. ASSUME NEW s \in Start \ overlapped, s # x
        PROVE  /\ bound'[s] => stage'[s] \in {"ending", "lost"} /\ form'[s] # page'
               /\ shell'[s] # 0 => SettingUp(s)' \/ stage'[s] = "lost"
    <3>1. /\ bound[s] => stage[s] \in {"ending", "lost"} /\ form[s] # page
          /\ shell[s] # 0 => SettingUp(s) \/ stage[s] = "lost"
      BY <2>1 DEF SetupAlone, Settled
    <3>2. bound'[s] = bound[s] /\ form'[s] = form[s]
      BY <1>0, <1>3, <2>4, SetupStep DEF SwitchType, StartsType
    <3> QED
      BY <2>1, <2>2, <2>4, <3>1, <3>2
  <2>5. ASSUME x \notin overlapped
        PROVE  /\ bound'[x] => Settled(x)' \/ (stage'[x] \in {"ending", "lost"} /\ form'[x] # page')
               /\ shell'[x] # 0 => Settled(x)' \/ SettingUp(x)' \/ stage'[x] = "lost"
    <3>1. \A y \in Start \ {x} : ~SettingUp(y)
      BY <2>1, <2>5 DEF SetupAlone
    <3>2. CASE stage'[x] = "done"
      <4>1. ~SettingUp(x)'
        BY <3>2 DEF SettingUp
      <4> QED
        BY <2>1, <2>2, <3>1, <3>2, <4>1 DEF Settled
    <3>3. CASE stage'[x] = "awaiting"
      <4>1. ~bound'[x]
        BY <1>3, <3>3, FormsStepType DEF FormsTypeInv, Setups, FormsNext, MovesOn
      <4> QED
        BY <3>3, <4>1 DEF SettingUp
    <3>4. CASE stage'[x] = "ending"
      <4>1. form' = form /\ page \notin FormPages
        BY <1>3, <3>4, SetupStep
      <4>2. form[x] # page
        BY <1>0, <4>1 DEF StartsType
      <4> QED
        BY <2>1, <3>4, <4>1, <4>2 DEF SettingUp
    <3>5. CASE stage'[x] = "lost"
      <4>1. form' = form /\ bound' = bound
        BY <1>3, <3>5, SetupStep
      <4>2. bound[x] => form[x] # page
        BY <2>1, <2>5 DEF SetupAlone, Settled
      <4> QED
        BY <2>1, <3>5, <4>1, <4>2
    <3> QED
      BY <2>1, <3>2, <3>3, <3>4, <3>5
  <2> QED
    BY <2>1, <2>3, <2>4, <2>5 DEF SetupAlone
<1>4. CASE SetupStays
  BY <1>4 DEF SetupStays, SetupAlone, Settled
<1>5. Press => SetupStays
  BY DEF Press, SetupStays, SettingUp, setup
<1> QED
  BY <1>1, <1>2, <1>3, <1>4, <1>5, OtherSteps

\* What a submission adds is by starts that overlapped, or by the one to be cleaned up.
LEMMA WaitingStep ==
  FormsTypeInv /\ SetupAlone /\ WaitingIsNewest /\ [FormsNext]_formVars => WaitingIsNewest'
<1> SUFFICES ASSUME FormsTypeInv, SetupAlone, WaitingIsNewest, [FormsNext]_formVars,
                    NEW r \in Id, request'[r].client = "waiting", request'[r].start \notin overlapped'
             PROVE  /\ bound'[request'[r].start] /\ form'[request'[r].start] = page'
                    /\ \A q \in Sent' : q <= r \/ (/\ request'[q].start \in overlapped'
                                                   /\ form'[request'[q].start] = page')
  BY DEF WaitingIsNewest, OnPage
<1>1. CASE Begin \/ Swap
  <2>1. Dispose(cleanup) /\ overlapped \subseteq overlapped'
    BY <1>1 DEF Begin, Swap
  <2>2. request'[r].start = request[r].start /\ request[r].start \in overlapped
    BY <2>1, CleanedUp DEF RequestsKeep
  <2> QED
    BY <2>1, <2>2
<1>2. ASSUME NEW x \in Start, MovesOn(x)
      PROVE  FALSE
  <2>1. SettingUp(x) /\ request' = request /\ overlapped' = overlapped
    BY <1>2, SetupStep
  <2>2. request[r].start \in Start
    BY <2>1 DEF FormsTypeInv, Requests, Unsent
  <2>3. Settled(request[r].start)
    BY <2>1, <2>2, OnlyOneOnPage DEF WaitingIsNewest
  <2> QED
    BY <2>1, <2>3 DEF Settled
<1>3. CASE SetupStays /\ RequestsKeep
  <2>1. request[r].client = "waiting" /\ request[r].start \notin overlapped
        /\ request'[r].start = request[r].start
    BY <1>3 DEF SetupStays, RequestsKeep
  <2>2. \A q \in Sent' : q \in Sent /\ request'[q].start = request[q].start
    BY <1>3 DEF RequestsKeep, Sent
  <2> QED
    BY <1>3, <2>1, <2>2 DEF SetupStays, WaitingIsNewest, OnPage
<1>4. CASE Press
  <2>1. UNCHANGED <<page, form, bound, overlapped>>
    BY <1>4 DEF Press, setup
  <2>2. /\ \A q \in Id : (\E s \in Ready : Sends(q, s)) \/ request'[q] = Abort(Ready)[q]
        /\ \A s \in Ready, q \in Sent : q < Number(s)
    BY <1>4, PressSends
  <2>3. ASSUME NEW s \in Ready, s \notin overlapped
        PROVE  Settled(s)
    BY <2>3, OnlyOneOnPage DEF Ready
  <2>4. ASSUME NEW q \in Sent'
        PROVE  \/ \E s \in Ready : Sends(q, s)
               \/ q \in Sent /\ request'[q].start = request[q].start
    <3>1. q \in Id
      BY DEF Sent
    <3>2. CASE request'[q] = Abort(Ready)[q]
      BY <3>1, <3>2, AbortType DEF Sent, Unsent
    <3> QED
      BY <2>2, <3>1, <3>2
  <2>5. ASSUME NEW s \in Ready, Sends(r, s)
        PROVE  /\ OnPage(request'[r].start)
               /\ \A q \in Sent' : q <= r \/ (/\ request'[q].start \in overlapped
                                              /\ form[request'[q].start] = page)
    <3>1. request'[r].start = s /\ r = Number(s) /\ s \notin overlapped /\ OnPage(s)
      BY <2>1, <2>5 DEF Sends, Ready
    <3>2. ASSUME NEW q \in Sent', NEW x \in Ready, Sends(q, x)
          PROVE  q <= r \/ (request'[q].start \in overlapped /\ form[request'[q].start] = page)
      <4>1. request'[q].start = x /\ q = Number(x) /\ form[x] = page
        BY <3>2 DEF Sends, Ready, OnPage
      <4>2. x \notin overlapped => x = s
        BY <2>3, <3>1 DEF Settled
      <4>3. r \in Int
        OBVIOUS
      <4> QED
        BY <3>1, <4>1, <4>2, <4>3
    <3>3. ASSUME NEW q \in Sent
          PROVE  q <= r
      <4>1. q < r /\ q \in Int /\ r \in Int
        BY <2>2, <3>1 DEF Sent
      <4> QED
        BY <4>1
    <3> QED
      BY <2>4, <3>1, <3>2, <3>3
  <2>6. ASSUME request'[r] = Abort(Ready)[r]
        PROVE  /\ OnPage(request'[r].start)
               /\ \A q \in Sent' : q <= r \/ (/\ request'[q].start \in overlapped
                                              /\ form[request'[q].start] = page)
    <3> DEFINE s == request[r].start
    <3>1. /\ request[r].client = "waiting" /\ \A x \in Ready : ~Controller(x, r)
          /\ request'[r].start = s
      BY <2>6, AbortEndsWait, AbortType
    <3>2. s \notin overlapped /\ s \in Start
      BY <2>1, <3>1 DEF FormsTypeInv, Requests, Unsent
    <3>3. OnPage(s) /\ s \notin Ready /\ Settled(s)
      BY <3>1, <3>2, WaitingIsControlled, OnlyOneOnPage DEF WaitingIsNewest
    <3>4. ASSUME NEW q \in Sent', NEW x \in Ready, Sends(q, x)
          PROVE  request'[q].start \in overlapped /\ form[request'[q].start] = page
      <4>1. request'[q].start = x /\ form[x] = page
        BY <3>4 DEF Sends, Ready, OnPage
      <4>2. x \in overlapped
        BY <2>3, <3>3 DEF Settled
      <4> QED
        BY <4>1, <4>2
    <3>5. ASSUME NEW q \in Sent, request'[q].start = request[q].start
          PROVE  q <= r \/ (request'[q].start \in overlapped /\ form[request'[q].start] = page)
      BY <3>1, <3>2, <3>5 DEF WaitingIsNewest
    <3> QED
      BY <2>4, <3>1, <3>3, <3>4, <3>5
  <2>7. (\E s \in Ready : Sends(r, s)) \/ request'[r] = Abort(Ready)[r]
    BY <2>2
  <2> QED
    BY <2>1, <2>5, <2>6, <2>7 DEF OnPage
<1> QED
  BY <1>1, <1>2, <1>3, <1>4, OtherSteps

\* Tokens stay fresh while none is sent or issued, and the button is not enabled.
LEMMA SameTokens ==
  ASSUME FormsTypeInv, TokensFresh, RequestsKeep, issued' = issued,
         submit' => submit /\ page' = page,
         overlapped \subseteq overlapped',
         \A s \in Start : form[s] # 0 => form'[s] = form[s],
         \A s \in Start : token'[s] = 0 \/ token'[s] = token[s]
  PROVE  TokensFresh'
<1>1. TokenType /\ SwitchType /\ issued \in Nat
  BY FormsTypeParts DEF FormsTypeInv, TokenType
<1>2. \A r \in Sent' : r \in Sent /\ request'[r].token = request[r].token
                       /\ request'[r].start = request[r].start
  BY DEF RequestsKeep, Sent
<1>3. ASSUME NEW s, s \in Start, form[s] # 0, Shared(s)
      PROVE  Shared(s)'
  <2>1. PICK x \in overlapped : form[x] = form[s]
    BY <1>3 DEF Shared
  <2>2. x \in Start
    BY <1>1 DEF SwitchType
  <2> QED
    BY <1>3, <2>1, <2>2 DEF Shared
<1>4. \A r \in Sent : request[r].start \in Start /\ form[request[r].start] # 0
  BY SentRequests
<1>5. ASSUME NEW s \in Start, NEW r \in Sent', submit', OnPage(s)', ~Shared(s)'
      PROVE  token'[s] # request'[r].token
  <2>1. r \in Sent /\ request'[r].token = request[r].token /\ request[r].token \in 1..issued
    BY <1>2 DEF TokensFresh
  <2>2. CASE token'[s] = 0
    BY <1>1, <2>1, <2>2
  <2>3. CASE token'[s] # 0
    <3>1. token'[s] = token[s] /\ bound[s]
      BY <1>1, <2>3 DEF TokenType
    <3>2. form[s] # 0 /\ form'[s] = form[s]
      BY <3>1 DEF FormsTypeInv, Setups
    <3>3. submit /\ OnPage(s) /\ ~Shared(s)
      BY <1>3, <1>5, <3>1, <3>2 DEF OnPage
    <3> QED
      BY <2>1, <3>1, <3>3 DEF TokensFresh
  <2> QED
    BY <2>2, <2>3
<1>6. \A r \in Sent' : request'[r].token \in 1..issued'
  BY <1>2 DEF TokensFresh
<1>7. \A s \in Start : token'[s] <= issued'
  BY <1>1 DEF TokensFresh
<1>8. \A s, x \in Start : token'[s] # 0 /\ token'[x] = token'[s] => x = s
  BY DEF TokensFresh
<1>9. ASSUME NEW r \in Sent', NEW s \in Start, token'[s] = request'[r].token
      PROVE  request'[r].start = s
  <2>1. token'[s] # 0
    BY <1>1, <1>2, <1>9 DEF TokensFresh
  <2> QED
    BY <1>2, <1>9, <2>1 DEF TokensFresh
<1>10. ASSUME NEW r \in Sent', NEW q \in Sent', r # q, request'[r].token = request'[q].token
       PROVE  /\ request'[q].start = request'[r].start
              /\ \E x \in overlapped' : form'[x] = form'[request'[r].start]
  <2>1. request[q].start = request[r].start /\ Shared(request[r].start)
    BY <1>2, <1>10 DEF TokensFresh
  <2>2. Shared(request[r].start)'
    BY <1>2, <1>3, <1>4, <2>1
  <2> QED
    BY <1>2, <2>1, <2>2 DEF Shared
<1> QED
  BY <1>5, <1>6, <1>7, <1>8, <1>9, <1>10 DEF TokensFresh, Shared

\* A token that is issued is new, and one that is sent was not sent before, unless its
\* start shares the button.
LEMMA TokensStep ==
  FormsTypeInv /\ SetupAlone /\ WaitingIsNewest /\ TokensFresh /\ [FormsNext]_formVars => TokensFresh'
<1> SUFFICES ASSUME FormsTypeInv, SetupAlone, WaitingIsNewest, TokensFresh, [FormsNext]_formVars
             PROVE  TokensFresh'
  OBVIOUS
<1>0. StartsType /\ SwitchType /\ TokenType /\ issued \in Nat
  BY FormsTypeParts DEF FormsTypeInv, TokenType
<1>1. CASE Begin \/ Swap
  <2>1. /\ Dispose(cleanup) /\ overlapped \subseteq overlapped' /\ issued' = issued
        /\ form' = form /\ (submit' => submit /\ page' = page)
    BY <1>1 DEF Begin, Swap
  <2>2. RequestsKeep /\ \A s \in Start : token'[s] = 0 \/ token'[s] = token[s]
    BY <2>1, CleanedUp
  <2> QED
    BY <2>1, <2>2, SameTokens
<1>2. ASSUME NEW x \in Start, MovesOn(x)
      PROVE  TokensFresh'
  <2>1. UNCHANGED <<page, overlapped, token, issued, submit, request>>
    BY <1>2, SetupStep
  <2>2. ASSUME NEW s \in Start, form[s] # 0
        PROVE  form'[s] = form[s]
    <3>1. form' = form \/ (form' = [form EXCEPT ![x] = page] /\ form[x] = 0)
      BY <1>2, SetupStep DEF FormsTypeInv, Setups
    <3> QED
      BY <1>0, <2>2, <3>1 DEF StartsType
  <2>3. RequestsKeep
    BY <2>1 DEF RequestsKeep, Sent
  <2> QED
    BY <2>1, <2>2, <2>3, SameTokens
<1>3. ASSUME SetupStays, RequestsKeep, issued' = issued, submit' => submit,
             \A s \in Start : token'[s] = 0 \/ token'[s] = token[s]
      PROVE  TokensFresh'
  BY <1>3, SameTokens DEF SetupStays
<1>4. ASSUME SetupStays, request' = request, NEW x \in Start, OnPage(x), issued' = issued + 1,
             token' = [token EXCEPT ![x] = issued + 1]
      PROVE  TokensFresh'
  <2>1. Sent' = Sent /\ \A s \in Start : (OnPage(s)' <=> OnPage(s)) /\ (Shared(s)' <=> Shared(s))
    BY <1>4 DEF Sent, SetupStays, OnPage, Shared
  <2>2. /\ token'[x] = issued + 1
        /\ \A s \in Start \ {x} : token'[s] = token[s] /\ token[s] <= issued /\ token[s] \in Nat
    BY <1>0, <1>4 DEF TokenType, TokensFresh
  <2>3. \A r \in Sent : request[r].token \in 1..issued /\ request[r].token # issued + 1
    BY <1>0 DEF TokensFresh
  <2>4. ASSUME NEW s \in Start, NEW r \in Sent, OnPage(s), ~Shared(s)
        PROVE  token'[s] # request[r].token
    <3>1. s \notin overlapped /\ x \notin overlapped
      BY <1>4, <2>4 DEF OnPage, Shared
    <3>2. s = x
      BY <1>4, <2>4, <3>1, OnlyOneOnPage DEF Settled
    <3> QED
      BY <2>2, <2>3, <3>2
  <2>5. \A s, y \in Start : token'[s] # 0 /\ token'[y] = token'[s] => y = s
    BY <1>0, <2>2 DEF TokensFresh
  <2>6. \A r \in Sent, s \in Start : token'[s] = request[r].token => request[r].start = s
    BY <2>2, <2>3 DEF TokensFresh
  <2>7. \A r \in Sent : request[r].token \in 1..issued'
    BY <1>0, <1>4, <2>3
  <2>8. \A s \in Start : token'[s] <= issued'
    BY <1>0, <1>4, <2>2
  <2>9. ASSUME NEW r \in Sent', NEW q \in Sent', r # q, request'[r].token = request'[q].token
        PROVE  /\ request'[q].start = request'[r].start
               /\ \E y \in overlapped' : form'[y] = form'[request'[r].start]
    BY <1>4, <2>1, <2>9 DEF TokensFresh, Shared, SetupStays
  <2> QED
    BY <1>4, <2>1, <2>4, <2>5, <2>6, <2>7, <2>8, <2>9 DEF TokensFresh, Shared
<1>5. CASE Press
  <2>1. UNCHANGED <<page, form, bound, overlapped, token, issued>>
    BY <1>5 DEF Press, setup, widget
  <2>2. /\ submit /\ submit' = (Ready = {})
        /\ \A r \in Id : (\E s \in Ready : Sends(r, s)) \/ request'[r] = Abort(Ready)[r]
    BY <1>5, PressSends
  <2>3. ASSUME NEW r \in Id, request'[r] = Abort(Ready)[r]
        PROVE  /\ request'[r].token = request[r].token /\ request'[r].start = request[r].start
               /\ r \in Sent' <=> r \in Sent
               /\ request'[r].client = "waiting" => request[r].client = "waiting"
    BY <2>3, AbortType DEF Sent, Unsent
  <2>4. CASE Ready = {}
    <3>1. RequestsKeep
      BY <2>2, <2>3, <2>4 DEF RequestsKeep
    <3> QED
      BY <2>1, <2>2, <3>1, SameTokens
  <2>5. CASE Ready # {}
    <3>1. ASSUME NEW r \in Sent'
          PROVE  \/ \E s \in Ready : Sends(r, s)
                 \/ /\ r \in Sent /\ request'[r].token = request[r].token
                    /\ request'[r].start = request[r].start
      <4>1. r \in Id
        BY DEF Sent
      <4> QED
        BY <2>2, <2>3, <4>1
    <3>2. ASSUME NEW r \in Id, NEW s \in Ready, Sends(r, s)
          PROVE  /\ request'[r].token = token[s] /\ request'[r].start = s /\ r = Number(s)
                 /\ s \in Start /\ token[s] \in 1..issued /\ OnPage(s) /\ token[s] # 0
      BY <1>0, <3>2 DEF Sends, Ready, TokenType, TokensFresh
    <3>3. \A r \in Sent' : r \in Id
      BY DEF Sent
    <3>4. \A r \in Sent' : request'[r].token \in 1..issued
      BY <3>1, <3>2, <3>3 DEF TokensFresh
    <3>5. ASSUME NEW r \in Sent', NEW s \in Start, token[s] = request'[r].token
          PROVE  request'[r].start = s
      BY <3>1, <3>2, <3>3, <3>5 DEF TokensFresh
    <3>6. ASSUME NEW r \in Sent', NEW q \in Sent', r # q, request'[r].token = request'[q].token
          PROVE  request'[q].start = request'[r].start /\ Shared(request'[r].start)
      <4>1. ASSUME NEW s \in Ready, Sends(r, s), q \in Sent, request[q].token = request'[q].token,
                   request[q].start = request'[q].start
            PROVE  request'[q].start = request'[r].start /\ Shared(request'[r].start)
        BY <2>2, <3>2, <3>3, <3>6, <4>1 DEF TokensFresh
      <4>2. ASSUME NEW s \in Ready, Sends(q, s), r \in Sent, request[r].token = request'[r].token,
                   request[r].start = request'[r].start
            PROVE  request'[q].start = request'[r].start /\ Shared(request'[r].start)
        BY <2>2, <3>2, <3>3, <3>6, <4>2 DEF TokensFresh
      <4>3. ASSUME NEW s \in Ready, Sends(r, s), NEW x \in Ready, Sends(q, x)
            PROVE  FALSE
        <5>1. token[s] = token[x] /\ token[s] # 0 /\ s \in Start /\ x \in Start
          BY <3>2, <3>3, <3>6, <4>3
        <5>2. s = x
          BY <5>1 DEF TokensFresh
        <5> QED
          BY <3>2, <3>3, <3>6, <4>3, <5>2
      <4>4. ASSUME r \in Sent, request[r].token = request'[r].token, request[r].start = request'[r].start,
                   q \in Sent, request[q].token = request'[q].token, request[q].start = request'[q].start
            PROVE  request'[q].start = request'[r].start /\ Shared(request'[r].start)
        BY <3>6, <4>4 DEF TokensFresh
      <4> QED
        BY <3>1, <4>1, <4>2, <4>3, <4>4
    <3>7. ~submit'
      BY <2>2, <2>5
    <3> HIDE DEF Number
    <3> QED
      BY <2>1, <3>4, <3>5, <3>6, <3>7 DEF TokensFresh, Shared
  <2> QED
    BY <2>4, <2>5
<1> QED
  BY <1>1, <1>2, <1>3, <1>4, <1>5, OtherSteps

\* Whatever the order of setups, navigations and answers, a start that overlapped with
\* no other one owns what it bound and waits for the newest request.
LEMMA InTurnStep == FormsTypeInv /\ InTurn /\ [FormsNext]_formVars => InTurn'
BY SetupAloneStep, WaitingStep, TokensStep DEF InTurn

\* A browser without a page satisfies the invariant.
LEMMA InTurnInit == FormsInit => FormsTypeInv /\ InTurn
<1> SUFFICES ASSUME FormsInit
             PROVE  FormsTypeInv /\ InTurn
  OBVIOUS
<1>1. FormsTypeOK
  <2>1. StartsType /\ ScriptType /\ SwitchType /\ TokenType
    <3>1. StartsType
      BY DEF FormsInit, StartsType
    <3>2. ScriptType
      BY DEF FormsInit, ScriptType
    <3>3. SwitchType
      BY DEF FormsInit, SwitchType
    <3>4. TokenType
      BY DEF FormsInit, TokenType
    <3>5. QED
      BY <3>1, <3>2, <3>3, <3>4
  <2>2. RequestType
    BY DEF FormsInit, RequestType, RequestRecord, Unsent
  <2>3. QED
    BY <2>1, <2>2, FormsTypeParts
<1>2. Requests /\ Setups
  BY <1>1 DEF FormsInit, Requests, Setups, FormsTypeOK
<1>3. SetupAlone
  BY DEF FormsInit, SetupAlone, SettingUp
<1>4. Sent = {} /\ \A r \in Id : request[r].client # "waiting"
  BY DEF FormsInit, Sent, Unsent
<1>5. WaitingIsNewest
  BY <1>4 DEF WaitingIsNewest
<1>6. TokensFresh
  BY <1>4 DEF FormsInit, TokensFresh
<1>7. QED
  BY <1>1, <1>2, <1>3, <1>5, <1>6 DEF FormsTypeInv, InTurn

\* The invariant of the forms holds throughout.
LEMMA FormsInvariant == FormsSpec => [](FormsTypeInv /\ InTurn)
<1>1. FormsTypeInv /\ InTurn /\ [FormsNext]_formVars => (FormsTypeInv /\ InTurn)'
  BY FormsStepType, InTurnStep
<1>2. QED
  BY <1>1, InTurnInit, PTL DEF FormsSpec

\* Whatever happens in a tab, what a start bound is bound by the start the lifecycle
\* cleans up and no request outlives its page, unless the start overlapped with another
\* one or, for its shell controls, lost an import; and a token is sent once unless the
\* form is shared with a start that overlapped.
THEOREM FormsAlwaysOwned == FormsSpec => []FormsOwned
<1>1. FormsTypeInv /\ InTurn => FormsOwned
  <2> SUFFICES ASSUME FormsTypeInv, SetupAlone, WaitingIsNewest, TokensFresh
               PROVE  FormsOwned
    BY DEF InTurn
  <2>1. HandlersAreOwned
    BY DEF HandlersAreOwned, SetupAlone, Settled, WaitingIsNewest, OnPage
  <2>2. TokenSentOnce
    BY DEF TokenSentOnce, TokensFresh
  <2>3. QED
    BY <2>1, <2>2 DEF FormsOwned, FormsTypeInv
<1>2. QED
  BY <1>1, FormsInvariant, PTL

\* A form says that a message was sent only when its newest submission is answered,
\* unless it is shared with a start that overlapped.
THEOREM SuccessIsAlwaysNewest == FormsSpec => SuccessIsNewest
<1>1. ASSUME FormsTypeInv, InTurn, [FormsNext]_formVars
      PROVE  [\A r, q \in Sent :
                /\ message' = "sent" /\ message # "sent" /\ request'[r].client # request[r].client
                /\ ~Shared(request[r].start)
                => q <= r]_formVars
  <2> SUFFICES ASSUME FormsNext, message' = "sent", message # "sent",
                      NEW r \in Sent, NEW q \in Sent,
                      request'[r].client # request[r].client, ~Shared(request[r].start)
               PROVE  q <= r
    BY <1>1
  <2>1. ~Begin /\ ~ScriptLoads /\ ~ScriptFails /\ ~Swap /\ ~Press
    BY <1>1, PressType DEF Begin, ScriptLoads, ScriptFails, Swap
  <2>2. \A s \in Start : /\ ~FindForm(s) /\ ~EndSetup(s) /\ ~ImportRejected(s)
                         /\ ~FormUnavailable(s) /\ ~FormReady(s)
                         /\ ~Callback(s) /\ ~Expire(s) /\ ~WidgetFails(s)
    BY DEF FindForm, EndSetup, ImportRejected, FormUnavailable, FormReady, Callback, Expire,
           WidgetFails
  <2>3. \A x \in Id : /\ ~NetworkFails(x) /\ ~Aborted(x)
                      /\ \A accepts \in BOOLEAN : ~Serve(x, accepts)
    BY DEF NetworkFails, Aborted, Serve, Shows
  <2>4. PICK x \in Id : Answer(x)
    BY <2>1, <2>2, <2>3 DEF FormsNext
  <2>5. request[x].client = "waiting" /\ \A y \in Id \ {x} : request'[y] = request[y]
    BY <1>1, <2>4, SettleType DEF Answer
  <2>6. r = x /\ request[r].start \notin overlapped
    BY <2>5 DEF Sent, Shared
  <2>7. /\ q <= r \/ (request[q].start \in overlapped /\ form[request[q].start] = page)
        /\ form[request[r].start] = page
    BY <1>1, <2>5, <2>6 DEF InTurn, WaitingIsNewest, OnPage
  <2>8. QED
    BY <2>7 DEF Shared
<1>2. QED
  BY <1>1, FormsInvariant, PTL DEF FormsSpec, SuccessIsNewest
=============================================================================
