------------------------------- MODULE Content -------------------------------
(***************************************************************************)
(* Canonical content in Postgres: concurrent statements of admins on       *)
(* content.content_items under READ COMMITTED, the row-level policies that *)
(* admit them, the revision and the projection event that triggers write   *)
(* in the same transaction, and the changes of roles and profiles that     *)
(* decide what a policy sees.                                              *)
(*                                                                         *)
(* A request of the Data API is one statement in one transaction.  It      *)
(* begins with a snapshot, which fixes what has_permission answers, waits  *)
(* for its row and its slug, works on the newest committed row, and is     *)
(* seen when it commits.                                                   *)
(***************************************************************************)
EXTENDS Naturals, FiniteSets

CONSTANTS
  Item, Slug, None,
  User,           \* signed-in users of the Data API
  Role, OwnerRole,    \* roles, and the one that holds every permission
  PermissionsOf,  \* role_permissions: the permissions of each role
  RolesOf,        \* app.user_roles at first
  Statement,      \* the statements users may send
  Regranted,      \* the roles that are assigned and withdrawn meanwhile
  MaxTime,        \* bound on the clock
  MaxVersion      \* bound on sync_version, hence on the writes

Time          == 0..MaxTime
ContentStatus == {"draft", "review", "scheduled", "published", "archived"}
Permission    == {"content.read", "content.write", "content.publish", "content.schedule"}
ContentRow           == [status : ContentStatus, slug : Slug, publishedAt : Time, deleted : BOOLEAN]

\* An insert gives every column, an update leaves out those it keeps.
Change ==
  [kind : {"insert", "update"}, status : ContentStatus \cup {None}, slug : Slug \cup {None},
   publishedAt : Time \cup {None}, deleted : BOOLEAN \cup {None}]

ASSUME ContentAssumption ==
  /\ OwnerRole \in Role
  /\ PermissionsOf \in [Role -> SUBSET Permission]
  /\ RolesOf \in [User -> SUBSET Role]
  /\ Statement \subseteq Change
  /\ \A s \in Statement : s.kind = "insert" => None \notin {s.status, s.slug, s.publishedAt, s.deleted}
  /\ Regranted \subseteq User \X Role
  /\ MaxTime \in Nat /\ MaxVersion \in Nat

VARIABLES
  item,       \* content.content_items as committed, None without a row
  revisions,  \* content.content_revisions: the revision numbers of each item
  snapshot,   \* the snapshot of its last revision
  events,     \* the committed rows of sync.outbox_events
  version,    \* the last sync_version the sequence handed out
  roles,      \* app.user_roles
  active,     \* users whose profile is active
  now,
  tx,         \* the open transaction of each user, or None
  writer,     \* history: what the last writer of the row was permitted
  commits     \* history: the committed writes of each item

tables == <<item, revisions, snapshot, events, writer, commits>>
access == <<roles, active>>
contentVars   == <<item, revisions, snapshot, events, version, roles, active, now, tx, writer, commits>>

ContentInit ==
  /\ item      = [i \in Item |-> None]
  /\ revisions = [i \in Item |-> {}]
  /\ snapshot  = [i \in Item |-> None]
  /\ events    = {}
  /\ version   = 0
  /\ roles     = RolesOf
  /\ active    = User
  /\ now       = 0
  /\ tx        = [u \in User |-> None]
  /\ writer    = [i \in Item |-> {}]
  /\ commits   = [i \in Item |-> 0]

(***************************************************************************)
(* What a statement may do                                                 *)
(***************************************************************************)

\* has_permission of a user, for every permission: none unless the profile is
\* active, all of them for an owner.
Permitted(u) ==
  IF u \notin active THEN {}
  ELSE IF OwnerRole \in roles[u] THEN Permission
  ELSE UNION {PermissionsOf[r] : r \in roles[u]}

Live(r)    == r # None /\ ~r.deleted
Visible(r) == Live(r) /\ r.status = "published" /\ r.publishedAt <= now

\* content_items_authenticated_read, which an update needs for the old row and
\* for the new one.
Readable(r, permitted) == Visible(r) \/ "content.read" \in permitted

\* content_items_create and content_items_update, WITH CHECK.
MayWrite(r, permitted) ==
  /\ "content.write" \in permitted
  /\ r.status = "published" => "content.publish" \in permitted
  /\ r.status = "scheduled" => "content.schedule" \in permitted

After(s, r) ==
  IF s.kind = "insert"
    THEN [c \in {"status", "slug", "publishedAt", "deleted"} |-> s[c]]
    ELSE [c \in DOMAIN r |-> IF s[c] = None THEN r[c] ELSE s[c]]

\* Mutant of Admitted: the check is made for the row the statement saw when it
\* began, as a check in the client or before the wait would be.
AdmittedAsSeen(t, old) ==
  LET new == After(t.statement, t.seen) IN
  /\ MayWrite(new, t.permitted)
  /\ t.statement.kind = "update" => Readable(t.seen, t.permitted) /\ Readable(new, t.permitted)

\* A policy is evaluated for the row the statement works on after its wait,
\* with the permissions its snapshot shows.
Admitted(t, old) ==
  LET new == After(t.statement, old) IN
  /\ MayWrite(new, t.permitted)
  /\ t.statement.kind = "update" => Readable(old, t.permitted) /\ Readable(new, t.permitted)

(***************************************************************************)
(* Locks                                                                   *)
(***************************************************************************)

Written(u) == tx[u] # None /\ tx[u].new # None

\* A row some other transaction has updated and not yet committed.
RowLocked(u, i) == \E w \in User \ {u} : Written(w) /\ tx[w].item = i

\* Mutant of Claims: the slug is looked up among the committed rows, as a check
\* without the unique index would.
ClaimsCommitted(u, i, r) == {j \in Item \ {i} : Live(r) /\ Live(item[j]) /\ item[j].slug = r.slug}

\* The other items with the slug of a live row r in the unique index, committed
\* or not, those included whose transaction is about to release it.
Claims(u, i, r) ==
  {j \in Item \ {i} :
     /\ Live(r)
     /\ \/ Live(item[j]) /\ item[j].slug = r.slug
        \/ \E w \in User \ {u} : Written(w) /\ tx[w].item = j
                                 /\ Live(tx[w].new) /\ tx[w].new.slug = r.slug}

\* coalesce(max(revision_number), 0) + 1, over what is committed.
NextRevision(i) == 1 + CHOOSE n \in {0} \cup revisions[i] : \A m \in revisions[i] : m <= n

(***************************************************************************)
(* Transactions                                                            *)
(***************************************************************************)

\* The statement takes its snapshot.  An insert brings a fresh id, an update
\* finds its row if the policies let it.
Begin(u, i, s) ==
  /\ tx[u] = None
  /\ IF s.kind = "insert"
       THEN item[i] = None /\ \A w \in User : tx[w] # None => tx[w].item # i
       ELSE item[i] # None /\ "content.write" \in Permitted(u) /\ Readable(item[i], Permitted(u))
  /\ tx' = [tx EXCEPT ![u] = [item |-> i, statement |-> s, permitted |-> Permitted(u),
                              seen |-> item[i], new |-> None, revision |-> 0, version |-> 0]]
  /\ UNCHANGED <<tables, access, version, now>>

\* The row is written, and the triggers add its revision and draw the version of
\* its event.
Write(u) ==
  LET t == tx[u]
      r == After(t.statement, item[t.item])
  IN /\ t # None /\ ~Written(u) /\ version < MaxVersion
     /\ ~RowLocked(u, t.item)
     /\ Admitted(t, item[t.item])
     /\ Claims(u, t.item, r) = {}
     /\ version' = version + 1
     /\ tx' = [tx EXCEPT ![u].new = r, ![u].version = version + 1,
                         ![u].revision = NextRevision(t.item)]
     /\ UNCHANGED <<tables, access, now>>

\* Mutant of NewSnapshot: the trigger keeps the old row.
NewSnapshotOld(t) == t.seen

NewSnapshot(t) == t.new

Slugs(r) == IF Live(r) THEN {r.slug} ELSE {}

Commit(u) ==
  LET t == tx[u]
      i == t.item
  IN /\ Written(u)
     /\ item'      = [item EXCEPT ![i] = t.new]
     /\ revisions' = [revisions EXCEPT ![i] = @ \cup {t.revision}]
     /\ snapshot'  = [snapshot EXCEPT ![i] = NewSnapshot(t)]
     /\ events'    = events \cup {[item |-> i, version |-> t.version,
                                   slugs |-> Slugs(item[i]) \cup Slugs(t.new)]}
     /\ writer'    = [writer EXCEPT ![i] = t.permitted]
     /\ commits'   = [commits EXCEPT ![i] = @ + 1]
     /\ tx'        = [tx EXCEPT ![u] = None]
     /\ UNCHANGED <<access, version, now>>

\* The policy or the unique index refuses the statement, or the connection is
\* lost: all is undone but the version that was drawn.
Rollback(u) ==
  /\ tx[u] # None
  /\ tx' = [tx EXCEPT ![u] = None]
  /\ UNCHANGED <<tables, access, version, now>>

(***************************************************************************)
(* The rest of the world                                                   *)
(***************************************************************************)

\* A role is assigned or withdrawn.
ChangeRole(u, r) ==
  /\ <<u, r>> \in Regranted
  /\ roles' = [roles EXCEPT ![u] = IF r \in @ THEN @ \ {r} ELSE @ \cup {r}]
  /\ UNCHANGED <<tables, active, version, now, tx>>

\* A profile is suspended or restored.
ChangeProfile(u) ==
  /\ \E r \in Role : <<u, r>> \in Regranted
  /\ active' = IF u \in active THEN active \ {u} ELSE active \cup {u}
  /\ UNCHANGED <<tables, roles, version, now, tx>>

Tick ==
  /\ now < MaxTime
  /\ now' = now + 1
  /\ UNCHANGED <<tables, access, version, tx>>

ContentNext ==
  \/ \E u \in User, i \in Item, s \in Statement : Begin(u, i, s)
  \/ \E u \in User : Write(u) \/ Commit(u) \/ Rollback(u) \/ ChangeProfile(u)
  \/ \E u \in User, r \in Role : ChangeRole(u, r)
  \/ Tick

ContentSpec == ContentInit /\ [][ContentNext]_contentVars

-----------------------------------------------------------------------------

\* Every variable has its type, and an open transaction knows what it wrote.
ContentTypeOK ==
  /\ item      \in [Item -> ContentRow \cup {None}]
  /\ revisions \in [Item -> SUBSET (1..MaxVersion)]
  /\ snapshot  \in [Item -> ContentRow \cup {None}]
  /\ events    \subseteq [item : Item, version : 1..MaxVersion, slugs : SUBSET Slug]
  /\ version   \in 0..MaxVersion
  /\ roles     \in [User -> SUBSET Role]
  /\ active    \subseteq User
  /\ now       \in Time
  /\ tx \in [User -> [item : Item, statement : Statement, permitted : SUBSET Permission,
                      seen : ContentRow \cup {None}, new : ContentRow \cup {None},
                      revision : 0..MaxVersion, version : 0..MaxVersion] \cup {None}]
  /\ writer    \in [Item -> SUBSET Permission]
  /\ commits   \in [Item -> 0..MaxVersion]

\* What anybody can read was written by someone who held content.publish, though
\* the row, its publication date and the permissions changed after the statement
\* of the writer began, and a later writer sets other columns of it.
VisibleWasPermitted ==
  \A i \in Item : Visible(item[i]) => "content.publish" \in writer[i]

\* History follows the row: its revisions are numbered without a gap, the last
\* one shows the row, and every committed write left one event.
HistoryIsComplete ==
  \A i \in Item :
    /\ revisions[i] = 1..commits[i]
    /\ snapshot[i] = item[i]
    /\ Cardinality({e \in events : e.item = i}) = commits[i]

\* Events become visible in the order of their versions, for one item and for
\* all items that had one slug: what the read model takes for granted, though a
\* version is drawn before the commit and other transactions are open.
EventsInCommitOrder ==
  [][\A e \in events' \ events, f \in events :
       e.item = f.item \/ e.slugs \cap f.slugs # {} => f.version < e.version]_contentVars

\* The history of the canonical tables is complete, and events are in the order of commits.
HistoryInOrder == []HistoryIsComplete /\ EventsInCommitOrder
=============================================================================
