------------------------------- MODULE MCStores -------------------------------
(* Tables of Postgres that share no row a property relates, the objects of R2, and
   the drafts that a browser keeps: a behaviour is of one of the seven.
     Outbox: two overlapping publication passes over three rows, one of them malformed.
     Content: two items and two slugs, an author who is now and then an editor, and
       an owner.
     Requests: a visitor with a token for this form and one for another, a sender of
       leads, and an admin who replies, changes a thread or gives a command.
     Drafts: two tabs and two drafts of one owner.
     Policies: every table and every caller.
     Deletions: any MaxRows rows of the schema.
     Storage: five keys, one that is refused and one outside the listed prefix. *)
EXTENDS EmailOutbox, Requests, Content, Drafts, Deletions, OrmSchema, Policies, ObjectStorage

CONSTANTS m1, m2, m3, p1, p2, c1, c2, s1, s2, u1, u2, owner, editor, author,
  q1, q2, t1, t2, visitor, lead, admin,
  k1, k2, o1, b1, b2

const_Message   == {m1, m2, m3}
const_Malformed == {m3}
const_Publisher == {p1, p2}

const_Item == {c1, c2}
const_Slug == {s1, s2}
const_User == {u1, u2}
const_Role == {owner, editor, author}

const_RolesOf   == u1 :> {author} @@ u2 :> {owner}
const_Regranted == {<<u1, editor>>}

const_PermissionsOf ==
  owner :> {}
  @@ author :> {"content.read", "content.write"}
  @@ editor :> {"content.read", "content.write", "content.publish"}

Creation == [kind |-> "insert", status |-> "draft", slug |-> s1, publishedAt |-> 0, deleted |-> FALSE]
Edit == [kind |-> "update", status |-> None, slug |-> None, publishedAt |-> None, deleted |-> None]

\* A draft, a page that is published for later, a change of text, a publication,
\* a new slug, a soft delete.
const_Statement ==
  {Creation, [Creation EXCEPT !.status = "published", !.publishedAt = 1],
   Edit, [Edit EXCEPT !.status = "published"], [Edit EXCEPT !.slug = s2],
   [Edit EXCEPT !.deleted = TRUE]}

const_Request == {q1, q2}
const_Sender  == {visitor, lead, admin}
const_Token   == {t1, t2}

const_KindsOf     == visitor :> {"form"} @@ lead :> {"lead"} @@ admin :> {"reply", "update", "command"}
const_FormAction  == [s \in const_Sender |-> IF s = visitor THEN "contact" ELSE "none"]
const_TokenAction == t1 :> "contact" @@ t2 :> "project-intake"

const_Key   == {k1, k2}
const_Owner == {o1}
const_Tab   == {b1, b2}

const_ObjectKey == 1..5
const_Refused   == {3}
const_Prefixed  == 1..4

VARIABLE part

stores == <<part, vars, contentVars, requestVars, draftVars, policyVars, deletionVars, storageVars>>

\* A part that is not looked at has one initial state.
StoresInit ==
  /\ part \in {"outbox", "content", "requests", "drafts", "policies", "deletions", "storage"}
  /\ Init /\ RequestsInit /\ ContentInit /\ DraftsInit /\ DeletionsInit
  /\ PoliciesInit /\ StorageInit
  /\ part # "policies" =>
       table = "settings" /\ caller = "anon" /\ permitted = {} /\ row = "absent"
  /\ part # "storage" => Objects = {}

StoresNext ==
  \/ /\ part = "outbox" /\ Next
     /\ UNCHANGED <<part, contentVars, requestVars, draftVars, policyVars, deletionVars, storageVars>>
  \/ /\ part = "content" /\ ContentNext
     /\ UNCHANGED <<part, vars, requestVars, draftVars, policyVars, deletionVars, storageVars>>
  \/ /\ part = "requests" /\ RequestsNext
     /\ UNCHANGED <<part, vars, contentVars, draftVars, policyVars, deletionVars, storageVars>>
  \/ /\ part = "drafts" /\ DraftsNext
     /\ UNCHANGED <<part, vars, contentVars, requestVars, policyVars, deletionVars, storageVars>>
  \/ /\ part = "policies" /\ PoliciesNext
     /\ UNCHANGED <<part, vars, contentVars, requestVars, draftVars, deletionVars, storageVars>>
  \/ /\ part = "deletions" /\ DeletionsNext
     /\ UNCHANGED <<part, vars, contentVars, requestVars, draftVars, policyVars, storageVars>>
  \/ /\ part = "storage" /\ StorageNext
     /\ UNCHANGED <<part, vars, contentVars, requestVars, draftVars, policyVars, deletionVars>>

StoresSpec == StoresInit /\ [][StoresNext]_stores

\* The pairs of four parts are swapped at once, or not: a behaviour has one of them.
Pairs == {const_Publisher, const_Item, const_Request, const_Tab}

StoresSymmetry ==
  {f \in Permutations(UNION Pairs) :
     \E swapped \in BOOLEAN : \A S \in Pairs : \A v \in S : f[v] \in S /\ (swapped <=> f[v] # v)}
=============================================================================
