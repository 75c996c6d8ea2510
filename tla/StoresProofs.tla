----------------------------- MODULE StoresProofs -----------------------------
(***************************************************************************)
(* Proofs about what writes to the stores, for any number of writers:      *)
(*  - the requests of the public site and the administration (Requests):   *)
(*    what is stored is stored for who was entitled to it, and once;       *)
(*  - the content tables (Content): what is visible was permitted, history *)
(*    is complete, and events leave in the order of the commits;           *)
(*  - deletes under the foreign keys (Deletions): history stays with all   *)
(*    that it rests on, and no reference is left dangling;                 *)
(*  - the draft store of the PWA (Drafts): the limit and a logout hold     *)
(*    between the transactions of several tabs;                            *)
(*  - the row policies (Policies): the rewritten ones open nothing;        *)
(*  - the object store (ObjectStorage): ranges, pages and writes are       *)
(*    what the caller was told, for any number of keys.                    *)
(***************************************************************************)
EXTENDS Requests, Content, Drafts, Deletions, Policies, ObjectStorage, FiniteSetTheorems,
  SequenceTheorems, WellFoundedInduction, TLAPS

\* What a sender heard that lets it try again.
MayTryAgain == {"refused", "failed", "lost"}

\* Behind the last check of a handler.
Passed(r) == step[r] \in {"persisting", "publishing", "accepting"} \/ r \in stored

\* Where a request is, what it is, and what its sender was told.
Coherent(r) ==
  /\ request[r] = Nothing <=> step[r] = "unsent"
  /\ step[r] = "unsent" => told[r] = Nothing
  /\ step[r] = "done" => told[r] # Nothing
  /\ step[r] # "done" => told[r] \in {Nothing, "lost"}
  /\ step[r] # "unsent" =>
       /\ Kind(r) \in KindsOf[request[r].sender]
       /\ Kind(r) = "form" <=> request[r].token # Nothing
  /\ step[r] = "admitting" => Kind(r) \notin Guarded
  /\ step[r] = "verifying" => Kind(r) = "form"
  /\ step[r] \in {"authenticating", "authorizing", "finding"} => Kind(r) \in Guarded

\* What is stored, and who knows of it.
Filed(r) ==
  /\ step[r] \in {"publishing", "accepting"} => r \in stored
  /\ r \in stored => step[r] \in {"publishing", "accepting", "done"}
  /\ told[r] = "accepted" => r \in stored
  /\ r \in stored /\ told[r] \in {"refused", "failed"} => r \in unconfirmed

\* What a check has let through: a profile that was active, a role that granted
\* the permission, and a token that is spent.
Entitled(r) ==
  /\ step[r] \in {"authorizing", "finding"} \/ Passed(r) => r \notin inactive
  /\ step[r] = "finding" \/ Passed(r) => r \notin ungranted
  /\ r \in inactive => step[r] # "unsent" /\ request[r].sender \notin activeSenders
  /\ r \in ungranted => step[r] # "unsent" /\ request[r].sender \notin granted
  /\ Passed(r) /\ Kind(r) = "form" =>
       /\ request[r].token \in spent
       /\ TokenAction[request[r].token] = FormAction[request[r].sender]

\* A sender has one request whose end it does not know, and a token clears one.
Apart(q, r) ==
  /\ step[q] # "unsent" /\ step[r] # "unsent" /\ request[q].sender = request[r].sender
       => told[q] \in MayTryAgain \/ told[r] \in MayTryAgain
  /\ Passed(q) /\ Passed(r) /\ Kind(q) = "form" /\ Kind(r) = "form"
       => request[q].token # request[r].token

\* Only admins are suspended, or lose a role.
OnlyAdmins == \A s \in Sender : s \notin activeSenders \cap granted => KindsOf[s] \subseteq Guarded

RequestsInv ==
  /\ RequestsTypeOK
  /\ OnlyAdmins
  /\ \A r \in Request : Coherent(r) /\ Filed(r) /\ Entitled(r)
  /\ \A q, r \in Request : q # r => Apart(q, r)

-----------------------------------------------------------------------------

\* What a submission is made of.
LEMMA SubmissionFields ==
  ASSUME RequestsTypeOK, NEW r \in Request, request[r] # Nothing
  PROVE  /\ request[r].sender \in Sender /\ request[r].token \in Token \cup {Nothing}
         /\ request[r].valid \in BOOLEAN
BY DEF RequestsTypeOK, Submission

\* Before anything is sent, nothing is stored, spent or told.
LEMMA InitRequests == RequestsInit => RequestsInv
BY RequestsAssumption DEF RequestsInit, RequestsInv, RequestsTypeOK, OnlyAdmins, Coherent, Filed,
  Entitled, Apart, Passed, MayTryAgain, Guarded

\* A request that is sent is new, and behind every earlier one of its sender.
LEMMA StepSend ==
  ASSUME RequestsInv,
         NEW s \in Sender, NEW r \in Request, NEW t \in Token \cup {Nothing}, NEW valid \in BOOLEAN,
         NEW kind \in KindsOf[s], Send(s, kind, r, t, valid)
  PROVE  RequestsInv'
<1> DEFINE new == [sender |-> s, kind |-> kind, token |-> t, valid |-> valid]
<1>1. /\ new \in Submission /\ new # Nothing
      /\ new.sender = s /\ new.kind = kind /\ new.token = t
  BY RequestsAssumption DEF Submission
<1>2. /\ request' = [request EXCEPT ![r] = new] /\ request[r] = Nothing /\ step[r] = "unsent"
      /\ \E at \in {"authenticating", "admitting"} : step' = [step EXCEPT ![r] = at]
      /\ step'[r] = (IF kind \in Guarded THEN "authenticating" ELSE "admitting")
      /\ told[r] = Nothing
  BY DEF Send, Advance, RequestsInv, RequestsTypeOK, Coherent
<1> HIDE DEF new
<1>3. RequestsTypeOK'
  BY <1>1, <1>2 DEF Send, Advance, RequestsInv, RequestsTypeOK
<1>4. request'[r] = new /\ \A q \in Request \ {r} : request'[q] = request[q] /\ step'[q] = step[q]
  BY <1>2 DEF RequestsInv, RequestsTypeOK
<1>5. OnlyAdmins'
  BY DEF Send, RequestsInv, OnlyAdmins
<1>6. ASSUME NEW q \in Request PROVE (Coherent(q) /\ Filed(q) /\ Entitled(q))'
  <2>1. Coherent(q) /\ Filed(q) /\ Entitled(q)
    BY DEF RequestsInv
  <2>2. CASE q = r
    BY <1>1, <1>2, <1>4, <2>1, <2>2
      DEF Send, Advance, Coherent, Filed, Entitled, Passed, Kind, Guarded
  <2>3. CASE q # r
    BY <1>4, <2>1, <2>3 DEF Send, Advance, Coherent, Filed, Entitled, Passed, Kind
  <2> QED
    BY <2>2, <2>3
<1>7. ~Passed(r)'
  BY <1>2, <1>3 DEF Send, RequestsInv, RequestsTypeOK, Filed, Passed
<1>8. ASSUME NEW p \in Request, NEW q \in Request, p # q PROVE Apart(p, q)'
  <2>1. Apart(p, q)
    BY <1>8 DEF RequestsInv
  <2>2. ASSUME NEW x \in Request \ {r}, step[x] # "unsent", request[x].sender = s
        PROVE  told'[x] \in MayTryAgain
    <3>1. x \in Of(s)
      BY <2>2 DEF Of, RequestsInv, Coherent
    <3> QED
      BY <3>1 DEF Send, Advance, MayTryAgain
  <2>3. CASE p = r
    BY <1>1, <1>4, <1>7, <1>8, <2>2, <2>3 DEF Apart
  <2>4. CASE q = r
    BY <1>1, <1>4, <1>7, <1>8, <2>2, <2>4 DEF Apart
  <2>5. CASE p # r /\ q # r
    BY <1>4, <2>1, <2>5 DEF Send, Advance, Apart, Passed, Kind
  <2> QED
    BY <2>3, <2>4, <2>5
<1> QED
  BY <1>3, <1>5, <1>6, <1>8 DEF RequestsInv

\* A step of the handler of one request, or of its sender, that leaves the others alone.
Local(r) ==
  /\ UNCHANGED <<request, grants>>
  /\ step[r] # "unsent" /\ step'[r] # "unsent"
  /\ told'[r] = told[r] \/ told[r] = Nothing
  /\ \A q \in Request \ {r} :
       /\ step'[q] = step[q] /\ told'[q] = told[q]
       /\ (q \in stored') <=> (q \in stored)
       /\ (q \in unconfirmed') <=> (q \in unconfirmed)
  /\ spent \subseteq spent'

\* Such a step keeps the invariant when the request itself stays coherent, filed and
\* entitled, and is cleared, when it was not before, by a token that was not spent.
LEMMA StepLocal ==
  ASSUME RequestsInv, NEW r \in Request, Local(r), RequestsTypeOK',
         (Coherent(r) /\ Filed(r) /\ Entitled(r))',
         Kind(r) = "form" /\ Passed(r)' => Passed(r) \/ request[r].token \notin spent
  PROVE  RequestsInv'
<1>1. OnlyAdmins'
  BY DEF RequestsInv, OnlyAdmins, Local, grants
<1>2. ASSUME NEW q \in Request PROVE (Coherent(q) /\ Filed(q) /\ Entitled(q))'
  <2>1. Coherent(q) /\ Filed(q) /\ Entitled(q)
    BY DEF RequestsInv
  <2>2. CASE q # r
    BY <2>1, <2>2 DEF Local, grants, Coherent, Filed, Entitled, Passed, Kind
  <2> QED
    BY <2>2
<1>3. ASSUME NEW q \in Request \ {r}, Passed(q), Kind(q) = "form", Passed(r)', Kind(r) = "form"
      PROVE  request[q].token # request[r].token
  <2>1. CASE Passed(r)
    BY <1>3, <2>1 DEF RequestsInv, Apart
  <2>2. CASE request[r].token \notin spent
    BY <1>3, <2>2 DEF RequestsInv, Entitled
  <2> QED
    BY <1>3, <2>1, <2>2
<1>4. ASSUME NEW p \in Request, NEW q \in Request, p # q PROVE Apart(p, q)'
  <2>1. Apart(p, q)
    BY <1>4 DEF RequestsInv
  <2>2. \A x \in {p, q} : told[x] \in MayTryAgain => told'[x] \in MayTryAgain
    BY RequestsAssumption DEF Local, MayTryAgain
  <2>3. \A x \in Request : step'[x] # "unsent" => step[x] # "unsent"
    BY DEF Local
  <2>4. ASSUME Passed(p)', Passed(q)', Kind(p) = "form", Kind(q) = "form"
        PROVE  request[p].token # request[q].token
    <3>1. \A x \in Request \ {r} : Passed(x)' => Passed(x)
      BY DEF Local, Passed
    <3>2. CASE p = r
      BY <1>3, <1>4, <2>4, <3>1, <3>2
    <3>3. CASE q = r
      BY <1>3, <1>4, <2>4, <3>1, <3>3
    <3>4. CASE p # r /\ q # r
      BY <2>1, <2>4, <3>1, <3>4 DEF Apart
    <3> QED
      BY <3>2, <3>3, <3>4
  <2>5. request' = request
    BY DEF Local
  <2> QED
    BY <2>1, <2>2, <2>3, <2>4, <2>5 DEF Apart, Kind
<1> QED
  BY <1>1, <1>2, <1>4 DEF RequestsInv

\* To answer touches one request, and is what its sender hears if it still waits.
LEMMA Answers ==
  ASSUME RequestsInv, NEW r \in Request, NEW status \in {"accepted", "refused", "failed", "lost"},
         step[r] # "unsent", Respond(r, status)
  PROVE  /\ step' \in [Request -> {"unsent", "admitting", "verifying", "authenticating", "authorizing",
                                   "finding", "persisting", "publishing", "accepting", "done"}]
         /\ told' \in [Request -> {Nothing, "accepted", "refused", "failed", "lost"}]
         /\ step'[r] = "done"
         /\ told'[r] = IF told[r] = Nothing THEN status ELSE told[r]
         /\ told'[r] # Nothing
         /\ \A q \in Request \ {r} : step'[q] = step[q] /\ told'[q] = told[q]
BY RequestsAssumption DEF RequestsInv, RequestsTypeOK, Respond

\* A handler that goes on changes its own step and nothing that was told.
LEMMA Advances ==
  ASSUME RequestsInv, NEW r \in Request,
         NEW at \in {"verifying", "authorizing", "finding", "persisting", "publishing", "accepting"},
         Advance(r, at)
  PROVE  /\ step' \in [Request -> {"unsent", "admitting", "verifying", "authenticating", "authorizing",
                                   "finding", "persisting", "publishing", "accepting", "done"}]
         /\ step'[r] = at /\ told' = told
         /\ \A q \in Request \ {r} : step'[q] = step[q]
BY DEF RequestsInv, RequestsTypeOK, Advance

\* A handler that stores nothing ends, and what it says is not that it was accepted.
LEMMA StepEnd ==
  ASSUME RequestsInv, NEW r \in Request, NEW status \in {"refused", "failed", "lost"},
         step[r] # "unsent", status = "lost" \/ r \notin stored, Respond(r, status),
         UNCHANGED <<request, stored, unconfirmed, grants>>,
         spent \subseteq spent', spent' \subseteq Token
  PROVE  RequestsInv'
<1>1. RequestsTypeOK' /\ Local(r)
  BY Answers DEF Local, RequestsInv, RequestsTypeOK, grants
<1>2. /\ Coherent(r) /\ Filed(r) /\ Entitled(r)
      /\ step'[r] = "done" /\ told'[r] # Nothing
      /\ told'[r] = IF told[r] = Nothing THEN status ELSE told[r]
  BY Answers DEF RequestsInv
<1>3. (Coherent(r) /\ Filed(r) /\ Entitled(r))'
  BY <1>2 DEF Coherent, Filed, Entitled, Passed, Kind, grants
<1>4. Passed(r)' => Passed(r)
  BY <1>2 DEF Passed
<1> QED
  BY <1>1, <1>3, <1>4, StepLocal

\* A handler goes on, past a check that let it through.
LEMMA StepOn ==
  ASSUME RequestsInv, NEW r \in Request, NEW at \in {"verifying", "authorizing", "finding", "persisting"},
         step[r] \in {"admitting", "verifying", "authenticating", "authorizing", "finding"},
         Advance(r, at),
         UNCHANGED <<request, stored, unconfirmed, grants>>,
         spent \subseteq spent', spent' \subseteq Token,
         at = "verifying" => Kind(r) = "form",
         at \in {"authorizing", "finding"} => Kind(r) \in Guarded,
         at \in {"authorizing", "finding", "persisting"} => r \notin inactive,
         at \in {"finding", "persisting"} => r \notin ungranted,
         at = "persisting" /\ Kind(r) = "form" =>
           /\ request[r].token \in spent' \ spent
           /\ TokenAction[request[r].token] = FormAction[request[r].sender]
  PROVE  RequestsInv'
<1>1. RequestsTypeOK' /\ Local(r)
  BY Advances DEF Local, RequestsInv, RequestsTypeOK, grants
<1>2. Coherent(r) /\ Filed(r) /\ Entitled(r) /\ step'[r] = at /\ told' = told
  BY Advances DEF RequestsInv
<1>3. (Coherent(r) /\ Filed(r) /\ Entitled(r))'
  BY <1>2 DEF Coherent, Filed, Entitled, Passed, Kind, grants
<1> QED
  BY <1>1, <1>2, <1>3, StepLocal DEF Passed

\* A request whose sender is no admin is neither suspended nor without its role.
LEMMA Visitors ==
  ASSUME RequestsInv, NEW r \in Request, step[r] # "unsent", Kind(r) \notin Guarded
  PROVE  r \notin inactive \cup ungranted
<1>1. request[r] # Nothing /\ Kind(r) \in KindsOf[request[r].sender]
  BY DEF RequestsInv, Coherent
<1>2. request[r].sender \in activeSenders \cap granted
  BY <1>1, SubmissionFields DEF RequestsInv, OnlyAdmins
<1> QED
  BY <1>2 DEF RequestsInv, Entitled

\* The steps up to the transaction store nothing: each passes one check or ends the
\* handler.
LEMMA StepBefore ==
  ASSUME RequestsInv, NEW r \in Request,
         \/ RateLimited(r) \/ Admit(r) \/ VerifyTurnstile(r) \/ VerifyUnavailable(r)
         \/ Unauthenticated(r) \/ ReadProfile(r) \/ ReadGrants(r) \/ FindThread(r)
  PROVE  RequestsInv'
<1>0. /\ Coherent(r) /\ Filed(r) /\ Entitled(r) /\ RequestsTypeOK /\ spent \subseteq Token
      /\ step[r] # "unsent" => request[r].sender \in Sender /\ request[r].token \in Token \cup {Nothing}
      /\ step[r] # "unsent" /\ Kind(r) \notin Guarded => r \notin inactive \cup ungranted
  BY SubmissionFields, Visitors DEF RequestsInv, RequestsTypeOK, Coherent
<1>1. CASE RateLimited(r)
  BY <1>0, <1>1, StepEnd DEF RateLimited, Filed
<1>2. CASE Admit(r)
  BY <1>0, <1>2, StepEnd, StepOn DEF Admit, Filed, Coherent
<1>3. CASE VerifyTurnstile(r)
  BY <1>0, <1>3, StepEnd, StepOn DEF VerifyTurnstile, Filed, Coherent, Guarded
<1>4. CASE VerifyUnavailable(r)
  BY <1>0, <1>4, StepEnd DEF VerifyUnavailable, Filed, Coherent
<1>5. CASE Unauthenticated(r)
  BY <1>0, <1>5, StepEnd DEF Unauthenticated, Filed
<1>6. CASE ReadProfile(r)
  BY <1>0, <1>6, StepEnd, StepOn DEF ReadProfile, Filed, Coherent, Entitled
<1>7. CASE ReadGrants(r)
  BY <1>0, <1>7, StepEnd, StepOn DEF ReadGrants, Filed, Coherent, Entitled, Guarded
<1>8. CASE FindThread(r)
  BY <1>0, <1>8, StepEnd, StepOn DEF FindThread, Filed, Coherent, Entitled, Guarded
<1> QED
  BY <1>1, <1>2, <1>3, <1>4, <1>5, <1>6, <1>7, <1>8

\* At the transaction and behind it: what commits is stored, whoever hears of it.
LEMMA StepStored ==
  ASSUME RequestsInv, NEW r \in Request,
         \/ Persist(r) \/ UpdateNothing(r) \/ PortUnavailable(r) \/ PersistThrows(r)
         \/ PublishPending(r) \/ Accept(r)
  PROVE  RequestsInv'
<1>0. /\ Coherent(r) /\ Filed(r) /\ Entitled(r) /\ RequestsTypeOK /\ spent \subseteq Token
      /\ stored \subseteq Request /\ unconfirmed \subseteq Request
  BY DEF RequestsInv, RequestsTypeOK
<1>1. CASE UpdateNothing(r)
  BY <1>0, <1>1, StepEnd DEF UpdateNothing, Filed
<1>2. CASE PortUnavailable(r)
  BY <1>0, <1>2, StepEnd DEF PortUnavailable, Filed
<1>3. CASE Persist(r)
  <2>1. PICK at \in {"publishing", "accepting"} : Advance(r, at)
    BY <1>3 DEF Persist
  <2>2. /\ RequestsTypeOK' /\ Local(r)
        /\ step'[r] = at /\ told' = told
    BY <1>0, <1>3, <2>1, Advances DEF Persist, Local, RequestsTypeOK, grants
  <2>3. (Coherent(r) /\ Filed(r) /\ Entitled(r))'
    BY <1>0, <1>3, <2>2, RequestsAssumption
      DEF Persist, Coherent, Filed, Entitled, Passed, Kind, grants
  <2> QED
    BY <1>3, <2>2, <2>3, StepLocal DEF Persist, Passed
<1>4. CASE PersistThrows(r)
  <2>1. CASE UNCHANGED <<stored, unconfirmed>>
    BY <1>0, <1>4, <2>1, StepEnd DEF PersistThrows, Filed
  <2>2. CASE stored' = stored \cup {r} /\ unconfirmed' = unconfirmed \cup {r}
    <3>1. /\ RequestsTypeOK' /\ Local(r)
          /\ step'[r] = "done" /\ told'[r] # Nothing
          /\ told'[r] = IF told[r] = Nothing THEN "failed" ELSE told[r]
      BY <1>0, <1>4, <2>2, Answers DEF PersistThrows, Local, RequestsTypeOK, grants
    <3>2. (Coherent(r) /\ Filed(r) /\ Entitled(r))'
      BY <1>0, <1>4, <2>2, <3>1 DEF PersistThrows, Coherent, Filed, Entitled, Passed, Kind, grants
    <3> QED
      BY <1>4, <3>1, <3>2, StepLocal DEF PersistThrows, Passed
  <2> QED
    BY <1>4, <2>1, <2>2 DEF PersistThrows
<1>5. CASE PublishPending(r)
  <2>1. /\ RequestsTypeOK' /\ Local(r)
        /\ step'[r] = "accepting" /\ told' = told
    BY <1>0, <1>5, Advances DEF PublishPending, Local, RequestsTypeOK, grants
  <2>2. (Coherent(r) /\ Filed(r) /\ Entitled(r))'
    BY <1>0, <1>5, <2>1 DEF PublishPending, Coherent, Filed, Entitled, Passed, Kind, grants
  <2> QED
    BY <1>5, <2>1, <2>2, StepLocal DEF PublishPending, Passed
<1>6. CASE Accept(r)
  <2>1. /\ RequestsTypeOK' /\ Local(r)
        /\ step'[r] = "done" /\ told'[r] # Nothing
        /\ told'[r] = IF told[r] = Nothing THEN "accepted" ELSE told[r]
    BY <1>0, <1>6, Answers DEF Accept, Local, RequestsTypeOK, grants
  <2>2. (Coherent(r) /\ Filed(r) /\ Entitled(r))'
    BY <1>0, <1>6, <2>1 DEF Accept, Coherent, Filed, Entitled, Passed, Kind, grants
  <2> QED
    BY <1>6, <2>1, <2>2, StepLocal DEF Accept, Passed
<1> QED
  BY <1>1, <1>2, <1>3, <1>4, <1>5, <1>6

\* A sender that gives up, or hears nothing of an invocation that died.
LEMMA StepLost ==
  ASSUME RequestsInv, NEW r \in Request, GiveUp(r) \/ Crash(r)
  PROVE  RequestsInv'
<1>0. Coherent(r) /\ Filed(r) /\ Entitled(r) /\ RequestsTypeOK
  BY DEF RequestsInv
<1>1. CASE Crash(r)
  BY <1>0, <1>1, StepEnd DEF Crash, RequestsTypeOK
<1>2. CASE GiveUp(r)
  <2>1. /\ RequestsTypeOK' /\ Local(r) /\ step' = step /\ told'[r] = "lost"
    BY <1>0, <1>2 DEF GiveUp, Local, RequestsTypeOK, grants
  <2>2. (Coherent(r) /\ Filed(r) /\ Entitled(r))'
    BY <1>0, <1>2, <2>1, RequestsAssumption
      DEF GiveUp, Coherent, Filed, Entitled, Passed, Kind, grants
  <2> QED
    BY <1>2, <2>1, <2>2, StepLocal DEF GiveUp, Passed
<1> QED
  BY <1>1, <1>2

\* What admins are allowed changes between any two steps, and tokens expire.
LEMMA StepWorld ==
  ASSUME RequestsInv,
         \/ \E t \in Token : TokenExpires(t)
         \/ \E s \in Sender : Suspend(s) \/ Regrant(s)
  PROVE  RequestsInv'
<1>1. UNCHANGED <<request, step, told, stored, unconfirmed>>
  BY DEF TokenExpires, Suspend, Regrant
<1>2. RequestsTypeOK' /\ spent \subseteq spent'
  BY DEF RequestsInv, RequestsTypeOK, TokenExpires, Suspend, Regrant, grants
<1>3. OnlyAdmins'
  <2>1. CASE \E t \in Token : TokenExpires(t)
    BY <2>1 DEF RequestsInv, OnlyAdmins, TokenExpires, grants
  <2>2. CASE \E s \in Sender : Suspend(s) \/ Regrant(s)
    BY <2>2 DEF RequestsInv, OnlyAdmins, Suspend, Regrant
  <2> QED
    BY <2>1, <2>2
<1>4. ASSUME NEW r \in Request PROVE Entitled(r)'
  <2>1. Entitled(r) /\ Coherent(r)
    BY DEF RequestsInv
  <2>2. CASE \E t \in Token : TokenExpires(t)
    BY <1>1, <1>2, <2>1, <2>2 DEF Entitled, Passed, Kind, TokenExpires, grants
  <2>3. ASSUME NEW s \in Sender, Suspend(s) PROVE Entitled(r)'
    <3>1. s \in activeSenders => activeSenders' = activeSenders \ {s} /\ inactive' = inactive
      BY <2>3 DEF Suspend
    <3>2. s \notin activeSenders =>
            activeSenders' = activeSenders \cup {s} /\ inactive' = inactive \ Of(s)
      BY <2>3 DEF Suspend
    <3>3. r \in Of(s) <=> step[r] # "unsent" /\ request[r].sender = s
      BY <2>1 DEF Of, Coherent
    <3> QED
      BY <1>1, <2>1, <2>3, <3>1, <3>2, <3>3 DEF Suspend, Entitled, Passed, Kind
  <2>4. ASSUME NEW s \in Sender, Regrant(s) PROVE Entitled(r)'
    <3>1. s \in granted => granted' = granted \ {s} /\ ungranted' = ungranted
      BY <2>4 DEF Regrant
    <3>2. s \notin granted => granted' = granted \cup {s} /\ ungranted' = ungranted \ Of(s)
      BY <2>4 DEF Regrant
    <3>3. r \in Of(s) <=> step[r] # "unsent" /\ request[r].sender = s
      BY <2>1 DEF Of, Coherent
    <3> QED
      BY <1>1, <2>1, <2>4, <3>1, <3>2, <3>3 DEF Regrant, Entitled, Passed, Kind
  <2> QED
    BY <2>2, <2>3, <2>4
<1> QED
  BY <1>1, <1>2, <1>3, <1>4 DEF RequestsInv, Coherent, Filed, Apart, Passed, Kind

\* Every step of a sender, a handler or a failing call keeps the invariant.
LEMMA StepRequests == RequestsInv /\ [RequestsNext]_requestVars => RequestsInv'
<1> SUFFICES ASSUME RequestsInv, [RequestsNext]_requestVars PROVE RequestsInv'
  OBVIOUS
<1>1. CASE RequestsNext
  BY <1>1, StepSend, StepBefore, StepStored, StepLost, StepWorld DEF RequestsNext, Handle
<1>2. CASE UNCHANGED requestVars
  BY <1>2 DEF requestVars, RequestsInv, RequestsTypeOK, OnlyAdmins, Coherent, Filed, Entitled, Apart,
    Passed, Kind
<1> QED
  BY <1>1, <1>2

\* The invariant of the requests holds throughout.
LEMMA Requested == RequestsSpec => []RequestsInv
BY InitRequests, StepRequests, PTL DEF RequestsSpec

\* A set of two is the only way to more than one.
LEMMA TwoOfMany ==
  ASSUME NEW S, Cardinality(S) > 1
  PROVE  \E x, y \in S : x # y
<1>1. S # {}
  BY FS_EmptySet
<1>2. PICK x \in S : TRUE
  BY <1>1
<1>3. S # {x}
  BY FS_Singleton
<1> QED
  BY <1>2, <1>3

\* What has passed every check, and is stored at most once a send, is stored as entitled.
LEMMA InvStored == RequestsInv => StoredAsEntitled
<1> SUFFICES ASSUME RequestsInv PROVE StoredAsEntitled
  OBVIOUS
<1>1. FiledOnce
  <2>1. ASSUME NEW s \in Sender, NEW r \in Of(s), told[r] = "accepted" PROVE r \in stored
    BY <2>1 DEF Of, RequestsInv, Filed
  <2>2. ASSUME NEW s \in Sender, Cardinality(Of(s) \cap stored) > 1
        PROVE  \E r \in Of(s) \cap stored : told[r] = "lost" \/ r \in unconfirmed
    <3>1. PICK q \in Of(s) \cap stored, r \in Of(s) \cap stored : q # r
      BY <2>2, TwoOfMany
    <3>2. /\ q \in Request /\ r \in Request
          /\ step[q] # "unsent" /\ step[r] # "unsent" /\ request[q].sender = request[r].sender
      BY <3>1 DEF Of, RequestsInv, Coherent
    <3>3. told[q] \in MayTryAgain \/ told[r] \in MayTryAgain
      BY <3>1, <3>2 DEF RequestsInv, Apart
    <3> QED
      BY <3>1, <3>2, <3>3 DEF RequestsInv, Filed, MayTryAgain
  <2> QED
    BY <2>1, <2>2 DEF FiledOnce
<1>2. OnlyEntitled
  <2>1. ASSUME NEW r \in stored
        PROVE  /\ r \in Request /\ Passed(r) /\ step[r] # "unsent"
               /\ Coherent(r) /\ Filed(r) /\ Entitled(r)
    BY DEF RequestsInv, RequestsTypeOK, Passed, Filed
  <2>2. ASSUME NEW r \in stored, Kind(r) = "form", NEW q \in stored \ {r}
        PROVE  request[q].token # request[r].token
    <3>1. CASE Kind(q) = "form"
      BY <2>1, <2>2, <3>1 DEF RequestsInv, Apart
    <3>2. CASE Kind(q) # "form"
      BY <2>1, <2>2, <3>2 DEF Coherent
    <3> QED
      BY <3>1, <3>2
  <2> QED
    BY <2>1, <2>2 DEF OnlyEntitled, Entitled
<1> QED
  BY <1>1, <1>2 DEF StoredAsEntitled

\* Every variable has its type, for any requests, senders and tokens.
THEOREM RequestsTypeCorrect == RequestsSpec => []RequestsTypeOK
BY Requested, PTL DEF RequestsInv

\* What is accepted is stored, once unless its sender could not know, a token lets one
\* message in, and an admin's request is stored only if it was active and granted
\* the permission while the request was handled.
THEOREM StoredOnlyAsEntitled == RequestsSpec => []StoredAsEntitled
BY Requested, InvStored, PTL

-----------------------------------------------------------------------------
(* Canonical content.                                                      *)
-----------------------------------------------------------------------------

EventsOf(i) == {e \in events : e.item = i}

\* An update has found its row, and a row is not removed.
Found ==
  \A u \in User : tx[u] # None /\ tx[u].statement.kind = "update" => item[tx[u].item] # None

\* Who wrote what is published was permitted to publish.
PublishersPermitted ==
  /\ \A u \in User : Written(u) /\ tx[u].new.status = "published" =>
       "content.publish" \in tx[u].permitted
  /\ \A i \in Item : item[i] # None /\ item[i].status = "published" => "content.publish" \in writer[i]

\* Open transactions have written different rows.
RowsLocked == \A u, w \in User : u # w /\ Written(u) /\ Written(w) => tx[u].item # tx[w].item

\* Live rows, committed or about to be, have different slugs.
SlugsUnique ==
  /\ \A i, j \in Item : i # j /\ Live(item[i]) /\ Live(item[j]) => item[i].slug # item[j].slug
  /\ \A u \in User, j \in Item :
       Written(u) /\ Live(tx[u].new) /\ j # tx[u].item /\ Live(item[j]) =>
         tx[u].new.slug # item[j].slug
  /\ \A u, w \in User :
       u # w /\ Written(u) /\ Written(w) /\ Live(tx[u].new) /\ Live(tx[w].new) =>
         tx[u].new.slug # tx[w].new.slug

\* The history of each item is that of its committed writes, and an open write has
\* the number that follows.
HistoryFollows ==
  /\ \A i \in Item :
       /\ revisions[i] = 1..commits[i] /\ snapshot[i] = item[i]
       /\ IsFiniteSet(EventsOf(i)) /\ Cardinality(EventsOf(i)) = commits[i]
       /\ commits[i] <= version
  /\ \A u \in User : Written(u) =>
       /\ tx[u].revision = commits[tx[u].item] + 1
       /\ commits[tx[u].item] + 1 <= version

\* The version an open write has drawn is later than the events that it will follow.
VersionsOrdered ==
  /\ \A e \in events : e.version <= version
  /\ \A u \in User : Written(u) =>
       /\ tx[u].version \in 1..version
       /\ \A e \in events :
            \/ e.item = tx[u].item
            \/ e.slugs \cap (Slugs(item[tx[u].item]) \cup Slugs(tx[u].new)) # {}
            => e.version < tx[u].version

ContentInv ==
  /\ ContentTypeOK /\ Found /\ PublishersPermitted /\ RowsLocked /\ SlugsUnique
  /\ HistoryFollows /\ VersionsOrdered

-----------------------------------------------------------------------------

\* A statement makes a row of a row, or of nothing when it is an insert.
LEMMA AfterIsRow ==
  ASSUME NEW s \in Statement, NEW r, s.kind = "insert" \/ r \in ContentRow
  PROVE  After(s, r) \in ContentRow
<1>1. s.kind \in {"insert", "update"}
  BY ContentAssumption DEF Change
<1>2. CASE s.kind = "insert"
  BY <1>2, ContentAssumption DEF After, ContentRow, Change, Time
<1>3. CASE s.kind = "update"
  BY <1>3, ContentAssumption DEF After, ContentRow, Change, Time
<1> QED
  BY <1>1, <1>2, <1>3

\* The next number of a history without a gap.
LEMMA NumberFollows ==
  ASSUME NEW i \in Item, NEW n \in Nat, revisions[i] = 1..n
  PROVE  NextRevision(i) = n + 1
<1> DEFINE greatest == CHOOSE k \in {0} \cup revisions[i] : \A m \in revisions[i] : m <= k
<1>1. n \in {0} \cup revisions[i] /\ \A m \in revisions[i] : m <= n
  OBVIOUS
<1>2. greatest \in {0} \cup revisions[i] /\ \A m \in revisions[i] : m <= greatest
  BY <1>1
<1>3. NextRevision(i) = 1 + greatest
  BY Zenon DEF NextRevision
<1> HIDE DEF greatest
<1>4. greatest \in {0} \cup 1..n /\ (n > 0 => n <= greatest)
  <2>1. n > 0 => n \in revisions[i]
    OBVIOUS
  <2> QED
    BY <1>2, <2>1
<1> QED
  BY <1>3, <1>4

\* What a transaction is made of.
LEMMA TransactionFields ==
  ASSUME ContentTypeOK, NEW u \in User, tx[u] # None
  PROVE  /\ tx[u].item \in Item /\ tx[u].statement \in Statement
         /\ tx[u].permitted \in SUBSET Permission
         /\ tx[u].seen \in ContentRow \cup {None} /\ tx[u].new \in ContentRow \cup {None}
         /\ tx[u].revision \in 0..MaxVersion /\ tx[u].version \in 0..MaxVersion
         /\ tx[u] \in [item : Item, statement : Statement, permitted : SUBSET Permission,
                       seen : ContentRow \cup {None}, new : ContentRow \cup {None},
                       revision : 0..MaxVersion, version : 0..MaxVersion]
BY DEF ContentTypeOK

\* Without rows, revisions, events and transactions the invariant holds.
LEMMA InitContent == ContentInit => ContentInv
<1> SUFFICES ASSUME ContentInit PROVE ContentInv
  OBVIOUS
<1>1. ContentTypeOK
  BY ContentAssumption DEF ContentInit, ContentTypeOK, Time
<1>2. HistoryFollows
  <2>1. \A i \in Item : EventsOf(i) = {}
    BY DEF ContentInit, EventsOf
  <2> QED
    BY <2>1, FS_EmptySet DEF ContentInit, HistoryFollows, Written
<1> QED
  BY <1>1, <1>2 DEF ContentInit, ContentInv, Found, PublishersPermitted, RowsLocked, SlugsUnique,
    VersionsOrdered, Written, Live

\* A step that writes nothing: every transaction that has written had done so before.
LEMMA StepQuiet ==
  ASSUME ContentInv, UNCHANGED <<tables, version>>, (ContentTypeOK /\ Found)',
         \A u \in User : Written(u)' => Written(u) /\ tx'[u] = tx[u]
  PROVE  ContentInv'
<1>1. (PublishersPermitted /\ RowsLocked)'
  BY DEF ContentInv, PublishersPermitted, RowsLocked, tables
<1>2. SlugsUnique'
  BY DEF ContentInv, SlugsUnique, Live, tables
<1>3. HistoryFollows'
  BY DEF ContentInv, HistoryFollows, EventsOf, tables
<1>4. VersionsOrdered'
  BY DEF ContentInv, VersionsOrdered, Slugs, Live, tables
<1> QED
  BY <1>1, <1>2, <1>3, <1>4 DEF ContentInv

\* A statement that begins has written nothing yet.
LEMMA StepBegin ==
  ASSUME ContentInv, NEW u \in User, NEW i \in Item, NEW s \in Statement, Begin(u, i, s)
  PROVE  ContentInv'
<1> DEFINE t == [item |-> i, statement |-> s, permitted |-> Permitted(u),
                 seen |-> item[i], new |-> None, revision |-> 0, version |-> 0]
<1>1. /\ tx' = [tx EXCEPT ![u] = t] /\ tx[u] = None
      /\ UNCHANGED <<tables, access, version, now>>
      /\ s.kind = "update" => item[i] # None
      /\ ContentTypeOK
  BY DEF Begin, ContentInv
<1>2. Permitted(u) \in SUBSET Permission
  BY ContentAssumption DEF Permitted, ContentInv, ContentTypeOK
<1>3. t \in [item : Item, statement : Statement, permitted : SUBSET Permission,
             seen : ContentRow \cup {None}, new : ContentRow \cup {None},
             revision : 0..MaxVersion, version : 0..MaxVersion]
  BY <1>1, <1>2, ContentAssumption DEF ContentTypeOK
<1>4. t.item = i /\ t.statement = s /\ t.new = None
  OBVIOUS
<1> HIDE DEF t
<1>5. tx'[u] = t /\ \A w \in User \ {u} : tx'[w] = tx[w]
  BY <1>1 DEF ContentTypeOK
<1>6. ContentTypeOK'
  <2>1. tx' \in [User -> [item : Item, statement : Statement, permitted : SUBSET Permission,
                          seen : ContentRow \cup {None}, new : ContentRow \cup {None},
                          revision : 0..MaxVersion, version : 0..MaxVersion] \cup {None}]
    BY <1>1, <1>3 DEF ContentTypeOK
  <2> QED
    BY <1>1, <2>1 DEF ContentTypeOK, tables, access
<1>7. Found'
  BY <1>1, <1>4, <1>5 DEF ContentInv, Found, tables
<1>8. \A w \in User : Written(w)' => Written(w) /\ tx'[w] = tx[w]
  BY <1>4, <1>5 DEF Written
<1> QED
  BY <1>1, <1>6, <1>7, <1>8, StepQuiet

\* A statement that is undone, or a change of roles, of profiles or of the time.
LEMMA StepAside ==
  ASSUME ContentInv,
         \/ \E u \in User : Rollback(u) \/ ChangeProfile(u)
         \/ \E u \in User, r \in Role : ChangeRole(u, r)
         \/ Tick
  PROVE  ContentInv'
<1>1. ContentTypeOK /\ Found
  BY DEF ContentInv
<1>2. CASE \E u \in User : Rollback(u)
  <2>1. /\ UNCHANGED <<tables, access, version, now>>
        /\ \A w \in User : tx'[w] \in {tx[w], None}
        /\ tx' \in [User -> [item : Item, statement : Statement, permitted : SUBSET Permission,
                             seen : ContentRow \cup {None}, new : ContentRow \cup {None},
                             revision : 0..MaxVersion, version : 0..MaxVersion] \cup {None}]
    BY <1>1, <1>2 DEF Rollback, ContentTypeOK
  <2>2. (ContentTypeOK /\ Found)'
    BY <1>1, <2>1 DEF ContentTypeOK, Found, tables, access
  <2>3. \A w \in User : Written(w)' => Written(w) /\ tx'[w] = tx[w]
    BY <2>1 DEF Written
  <2> QED
    BY <2>1, <2>2, <2>3, StepQuiet
<1>3. CASE \E u \in User : ChangeProfile(u)
  <2>1. UNCHANGED <<tables, roles, version, now, tx>> /\ active' \subseteq User
    BY <1>1, <1>3 DEF ChangeProfile, ContentTypeOK
  <2>2. (ContentTypeOK /\ Found)'
    BY <1>1, <2>1 DEF ContentTypeOK, Found, tables
  <2> QED
    BY <2>1, <2>2, StepQuiet DEF Written
<1>4. CASE \E u \in User, r \in Role : ChangeRole(u, r)
  <2>1. UNCHANGED <<tables, active, version, now, tx>> /\ roles' \in [User -> SUBSET Role]
    BY <1>1, <1>4 DEF ChangeRole, ContentTypeOK
  <2>2. (ContentTypeOK /\ Found)'
    BY <1>1, <2>1 DEF ContentTypeOK, Found, tables
  <2> QED
    BY <2>1, <2>2, StepQuiet DEF Written
<1>5. CASE Tick
  <2>1. UNCHANGED <<tables, access, version, tx>> /\ now' \in Time
    BY <1>1, <1>5, ContentAssumption DEF Tick, ContentTypeOK, Time
  <2>2. (ContentTypeOK /\ Found)'
    BY <1>1, <2>1 DEF ContentTypeOK, Found, tables, access
  <2> QED
    BY <2>1, <2>2, StepQuiet DEF Written
<1> QED
  BY <1>2, <1>3, <1>4, <1>5

\* The row is locked, its slug is free, and its revision and version follow all that
\* is committed.
LEMMA StepWrite ==
  ASSUME ContentInv, NEW u \in User, Write(u)
  PROVE  ContentInv'
<1> DEFINE i == tx[u].item
           r == After(tx[u].statement, item[i])
<1>1. /\ tx[u] # None /\ ~Written(u) /\ version < MaxVersion /\ ~RowLocked(u, i)
      /\ Admitted(tx[u], item[i]) /\ Claims(u, i, r) = {} /\ version' = version + 1
      /\ tx' = [tx EXCEPT ![u].new = r, ![u].version = version + 1, ![u].revision = NextRevision(i)]
      /\ UNCHANGED <<tables, access, now>>
  BY DEF Write
<1>2. /\ ContentTypeOK /\ Found /\ PublishersPermitted /\ RowsLocked /\ SlugsUnique
      /\ HistoryFollows /\ VersionsOrdered
      /\ i \in Item /\ tx[u].statement \in Statement /\ tx[u].permitted \in SUBSET Permission
      /\ MaxVersion \in Nat /\ version \in 0..MaxVersion /\ commits[i] \in 0..MaxVersion
  BY <1>1, TransactionFields, ContentAssumption DEF ContentInv, ContentTypeOK
<1>3. r \in ContentRow
  <2>1. tx[u].statement.kind \in {"insert", "update"}
    BY <1>2, ContentAssumption DEF Change
  <2>2. tx[u].statement.kind = "insert" \/ item[i] \in ContentRow
    BY <1>1, <1>2, <2>1 DEF Found, ContentTypeOK
  <2> QED
    BY <1>2, <2>2, AfterIsRow
<1>4. NextRevision(i) = commits[i] + 1 /\ commits[i] <= version
  BY <1>2, NumberFollows DEF HistoryFollows
<1>5. r.status = "published" => "content.publish" \in tx[u].permitted
  BY <1>1 DEF Admitted, MayWrite
<1>6. /\ tx'[u].new = r /\ tx'[u].version = version + 1 /\ tx'[u].revision = NextRevision(i)
      /\ tx'[u].item = i /\ tx'[u].permitted = tx[u].permitted
      /\ tx'[u].statement = tx[u].statement
      /\ \A w \in User \ {u} : tx'[w] = tx[w] /\ (Written(w)' <=> Written(w))
  BY <1>1, <1>2, TransactionFields DEF Written, ContentTypeOK
<1>7. UNCHANGED <<item, revisions, snapshot, events, writer, commits, roles, active, now>>
  BY <1>1 DEF tables, access
<1>8. /\ \A w \in User \ {u} : Written(w) => tx[w].item # i
      /\ Live(r) => \A j \in Item \ {i} : Live(item[j]) => item[j].slug # r.slug
      /\ Live(r) => \A w \in User \ {u} : Written(w) /\ Live(tx[w].new) => tx[w].new.slug # r.slug
  BY <1>1, <1>2, TransactionFields DEF RowLocked, Claims, Written
<1>9. ContentTypeOK'
  <2> DEFINE t == [tx[u] EXCEPT !.new = r, !.version = version + 1, !.revision = NextRevision(i)]
  <2>1. tx' = [tx EXCEPT ![u] = t]
    BY <1>1
  <2>2. NextRevision(i) \in 0..MaxVersion /\ version + 1 \in 0..MaxVersion
    BY <1>1, <1>2, <1>4
  <2>3. t \in [item : Item, statement : Statement, permitted : SUBSET Permission,
               seen : ContentRow \cup {None}, new : ContentRow \cup {None},
               revision : 0..MaxVersion, version : 0..MaxVersion]
    <3> HIDE DEF i, r
    <3> QED
      BY <1>1, <1>2, <1>3, <2>2, TransactionFields
  <2> HIDE DEF t
  <2>4. tx' \in [User -> [item : Item, statement : Statement, permitted : SUBSET Permission,
                          seen : ContentRow \cup {None}, new : ContentRow \cup {None},
                          revision : 0..MaxVersion, version : 0..MaxVersion] \cup {None}]
    BY <1>2, <2>1, <2>3 DEF ContentTypeOK
  <2> QED
    BY <1>1, <1>2, <1>7, <2>2, <2>4 DEF ContentTypeOK
<1>10. tx[u] # None /\ ~Written(u) /\ version' = version + 1 /\ version \in Nat
  BY <1>1, <1>2
<1> HIDE DEF i, r
<1>11. Found'
  BY <1>6, <1>7, <1>10 DEF ContentInv, Found, i
<1>12. PublishersPermitted' /\ RowsLocked'
  <2>1. PublishersPermitted'
    BY <1>5, <1>6, <1>7 DEF ContentInv, PublishersPermitted
  <2>2. RowsLocked'
    BY <1>6, <1>7, <1>8 DEF ContentInv, RowsLocked
  <2> QED
    BY <2>1, <2>2
<1>13. SlugsUnique'
  BY <1>6, <1>7, <1>8 DEF ContentInv, SlugsUnique, Live
<1>14. HistoryFollows'
  <2>1. \A j \in Item : EventsOf(j)' = EventsOf(j)
    BY <1>7 DEF EventsOf
  <2>2. ASSUME NEW w \in User, Written(w)'
        PROVE  tx'[w].revision = commits[tx'[w].item] + 1 /\ commits[tx'[w].item] + 1 <= version'
    <3>1. CASE w = u
      BY <1>2, <1>4, <1>6, <1>10, <3>1
    <3>2. CASE w # u
      <4>1. /\ tx[w] # None /\ tx'[w] = tx[w]
            /\ tx[w].revision = commits[tx[w].item] + 1 /\ commits[tx[w].item] + 1 <= version
        BY <1>6, <2>2, <3>2 DEF ContentInv, HistoryFollows, Written
      <4>2. commits[tx[w].item] \in Nat
        BY <1>2, <4>1, TransactionFields DEF ContentTypeOK
      <4> QED
        BY <1>10, <4>1, <4>2
    <3> QED
      BY <3>1, <3>2
  <2>3. ASSUME NEW j \in Item
        PROVE  /\ revisions[j] = 1..commits[j] /\ snapshot[j] = item[j]
               /\ IsFiniteSet(EventsOf(j)) /\ Cardinality(EventsOf(j)) = commits[j]
               /\ commits[j] <= version'
    <3>1. commits[j] \in Nat /\ commits[j] <= version
      BY <1>2 DEF HistoryFollows, ContentTypeOK
    <3> QED
      BY <1>2, <1>10, <3>1 DEF HistoryFollows
  <2> QED
    BY <1>7, <2>1, <2>2, <2>3 DEF HistoryFollows
<1>15. VersionsOrdered'
  <2>1. \A e \in events : e.version \in 0..version
    BY <1>2 DEF VersionsOrdered, ContentTypeOK
  <2>2. tx'[u].version \in 1..version' /\ \A e \in events : e.version < tx'[u].version
    BY <1>6, <1>10, <2>1
  <2>3. ASSUME NEW w \in User \ {u}, Written(w)
        PROVE  /\ tx'[w].version \in 1..version'
               /\ \A e \in events :
                    \/ e.item = tx[w].item
                    \/ e.slugs \cap (Slugs(item[tx[w].item]) \cup Slugs(tx[w].new)) # {}
                    => e.version < tx[w].version
    <3>1. tx'[w] = tx[w]
      BY <1>6
    <3> QED
      BY <1>10, <2>3, <3>1 DEF ContentInv, VersionsOrdered
  <2>4. \A entry : Slugs(entry)' = Slugs(entry)
    BY DEF Slugs, Live
  <2>5. \A e \in events : e.version <= version'
    BY <1>10, <2>1
  <2> QED
    BY <1>6, <1>7, <2>2, <2>3, <2>4, <2>5 DEF VersionsOrdered
<1> QED
  BY <1>9, <1>11, <1>12, <1>13, <1>14, <1>15 DEF ContentInv

\* What was written is there, with its revision and its event; the other open writes
\* are of other rows and other slugs.
LEMMA StepCommit ==
  ASSUME ContentInv, NEW u \in User, Commit(u)
  PROVE  ContentInv'
<1> DEFINE t == tx[u]
           i == tx[u].item
           e == [item |-> i, version |-> t.version, slugs |-> Slugs(item[i]) \cup Slugs(t.new)]
<1>1. /\ Written(u) /\ t # None /\ t.new # None
      /\ item'      = [item EXCEPT ![i] = t.new]
      /\ revisions' = [revisions EXCEPT ![i] = @ \cup {t.revision}]
      /\ snapshot'  = [snapshot EXCEPT ![i] = t.new]
      /\ events'    = events \cup {e}
      /\ writer'    = [writer EXCEPT ![i] = t.permitted]
      /\ commits'   = [commits EXCEPT ![i] = @ + 1]
      /\ tx'        = [tx EXCEPT ![u] = None]
      /\ UNCHANGED <<roles, active, version, now>>
  BY DEF Commit, NewSnapshot, Written, access
<1>2. /\ i \in Item /\ t.permitted \in SUBSET Permission /\ t.new \in ContentRow
      /\ t.revision \in 0..MaxVersion /\ t.version \in 0..MaxVersion
      /\ MaxVersion \in Nat /\ version \in 0..MaxVersion /\ commits \in [Item -> 0..MaxVersion]
  BY <1>1, TransactionFields, ContentAssumption DEF ContentInv, ContentTypeOK
<1>3. /\ t.revision = commits[i] + 1 /\ commits[i] + 1 <= version
      /\ t.version \in 1..version
      /\ t.new.status = "published" => "content.publish" \in t.permitted
  BY <1>1 DEF ContentInv, HistoryFollows, VersionsOrdered, PublishersPermitted
<1>4. \A f \in events :
        f.item = i \/ f.slugs \cap (Slugs(item[i]) \cup Slugs(t.new)) # {} => f.version < t.version
  BY <1>1 DEF ContentInv, VersionsOrdered
<1>5. \A w \in User : Written(w)' <=> w # u /\ Written(w)
  BY <1>1 DEF Written, ContentInv, ContentTypeOK
<1>6. \A w \in User \ {u} : tx'[w] = tx[w] /\ (Written(w) => tx[w].item \in Item \ {i})
  <2>1. \A w \in User \ {u} : tx'[w] = tx[w]
    BY <1>1 DEF ContentInv, ContentTypeOK
  <2>2. ASSUME NEW w \in User \ {u}, Written(w) PROVE tx[w].item \in Item \ {i}
    BY <1>1, <2>2, TransactionFields DEF ContentInv, RowsLocked, Written
  <2> QED
    BY <2>1, <2>2
<1>7. /\ item'[i] = t.new /\ snapshot'[i] = t.new /\ revisions'[i] = revisions[i] \cup {t.revision}
      /\ commits'[i] = commits[i] + 1 /\ writer'[i] = t.permitted
      /\ \A j \in Item \ {i} :
           /\ item'[j] = item[j] /\ snapshot'[j] = snapshot[j] /\ revisions'[j] = revisions[j]
           /\ commits'[j] = commits[j] /\ writer'[j] = writer[j]
  BY <1>1, <1>2 DEF ContentInv, ContentTypeOK
<1>8. e.item = i /\ e.version = t.version /\ e.slugs = Slugs(item[i]) \cup Slugs(t.new)
  OBVIOUS
<1>9. ContentTypeOK'
  <2>1. Slugs(item[i]) \subseteq Slug /\ Slugs(t.new) \subseteq Slug
    BY <1>2 DEF Slugs, Live, ContentInv, ContentTypeOK, ContentRow
  <2>2. e \in [item : Item, version : 1..MaxVersion, slugs : SUBSET Slug]
    BY <1>2, <1>3, <2>1
  <2>3. t.revision \in 1..MaxVersion /\ commits[i] + 1 \in 0..MaxVersion
    BY <1>2, <1>3
  <2> HIDE DEF e, t, i
  <2>4. /\ item' \in [Item -> ContentRow \cup {None}] /\ snapshot' \in [Item -> ContentRow \cup {None}]
        /\ revisions' \in [Item -> SUBSET (1..MaxVersion)] /\ writer' \in [Item -> SUBSET Permission]
    BY <1>1, <1>2, <2>3 DEF ContentInv, ContentTypeOK
  <2>5. /\ events' \subseteq [item : Item, version : 1..MaxVersion, slugs : SUBSET Slug]
        /\ commits' \in [Item -> 0..MaxVersion]
    BY <1>1, <1>2, <2>2, <2>3 DEF ContentInv, ContentTypeOK
  <2>6. tx' \in [User -> [item : Item, statement : Statement, permitted : SUBSET Permission,
                          seen : ContentRow \cup {None}, new : ContentRow \cup {None},
                          revision : 0..MaxVersion, version : 0..MaxVersion] \cup {None}]
    BY <1>1 DEF ContentInv, ContentTypeOK
  <2> QED
    BY <1>1, <2>4, <2>5, <2>6 DEF ContentInv, ContentTypeOK
<1> HIDE DEF e, t, i
<1>10. Found'
  <2>1. \A w \in User : tx'[w] # None => w # u /\ tx'[w] = tx[w]
    BY <1>1, <1>6 DEF ContentInv, ContentTypeOK
  <2>2. \A j \in Item : item[j] # None => item'[j] # None
    BY <1>1, <1>7
  <2>3. \A w \in User : tx[w] # None => tx[w].item \in Item
    BY TransactionFields DEF ContentInv
  <2> QED
    BY <2>1, <2>2, <2>3 DEF ContentInv, Found
<1>11. PublishersPermitted'
  BY <1>3, <1>5, <1>6, <1>7 DEF ContentInv, PublishersPermitted
<1>12. RowsLocked'
  BY <1>5, <1>6 DEF ContentInv, RowsLocked
<1>13. SlugsUnique'
  <2>1. /\ \A j, k \in Item : j # k /\ Live(item[j]) /\ Live(item[k]) => item[j].slug # item[k].slug
        /\ Live(t.new) => \A j \in Item \ {i} : Live(item[j]) => t.new.slug # item[j].slug
    BY <1>1 DEF ContentInv, SlugsUnique, t, i
  <2>2. ASSUME NEW j \in Item, NEW k \in Item, j # k, Live(item'[j]), Live(item'[k])
        PROVE  item'[j].slug # item'[k].slug
    BY <1>7, <2>1, <2>2
  <2>3. ASSUME NEW w \in User \ {u}, Written(w), Live(tx[w].new), NEW j \in Item \ {tx[w].item},
               Live(item'[j])
        PROVE  tx[w].new.slug # item'[j].slug
    <3>1. CASE j = i
      BY <1>1, <1>7, <2>3, <3>1 DEF ContentInv, SlugsUnique, t
    <3>2. CASE j # i
      BY <1>7, <2>3, <3>2 DEF ContentInv, SlugsUnique
    <3> QED
      BY <3>1, <3>2
  <2>4. \A w, v \in User :
          w # v /\ Written(w) /\ Written(v) /\ Live(tx[w].new) /\ Live(tx[v].new) =>
            tx[w].new.slug # tx[v].new.slug
    BY DEF ContentInv, SlugsUnique
  <2>5. \A entry : Live(entry)' = Live(entry)
    BY DEF Live
  <2> QED
    BY <1>5, <1>6, <2>2, <2>3, <2>4 DEF SlugsUnique, Live
<1>14. HistoryFollows'
  <2>1. ASSUME NEW w \in User, Written(w)'
        PROVE  tx'[w].revision = commits'[tx'[w].item] + 1 /\ commits'[tx'[w].item] + 1 <= version'
    BY <1>1, <1>5, <1>6, <1>7, <2>1 DEF ContentInv, HistoryFollows
  <2>2. ASSUME NEW j \in Item
        PROVE  /\ revisions'[j] = 1..commits'[j] /\ snapshot'[j] = item'[j]
               /\ IsFiniteSet(EventsOf(j)') /\ Cardinality(EventsOf(j)') = commits'[j]
               /\ commits'[j] <= version'
    <3>0. /\ revisions[j] = 1..commits[j] /\ snapshot[j] = item[j]
          /\ IsFiniteSet(EventsOf(j)) /\ Cardinality(EventsOf(j)) = commits[j]
          /\ commits[j] <= version /\ commits[j] \in Nat
      BY <1>2 DEF ContentInv, HistoryFollows
    <3>1. CASE j = i
      <4>1. EventsOf(j)' = EventsOf(j) \cup {e} /\ e \notin EventsOf(j)
        <5>1. \A f \in events : f.item = i => f.version < t.version
          BY <1>4
        <5>2. t.version \in Nat /\ ~(t.version < t.version)
          BY <1>2
        <5> QED
          BY <1>1, <1>8, <3>1, <5>1, <5>2 DEF EventsOf
      <4>2. IsFiniteSet(EventsOf(j)') /\ Cardinality(EventsOf(j)') = commits[i] + 1
        BY <3>0, <3>1, <4>1, FS_AddElement
      <4>3. (1..commits[i]) \cup {commits[i] + 1} = 1..(commits[i] + 1)
        BY <3>0, <3>1
      <4> QED
        BY <1>1, <1>3, <1>7, <3>0, <3>1, <4>2, <4>3
    <3>2. CASE j # i
      <4>1. EventsOf(j)' = EventsOf(j)
        BY <1>1, <1>8, <3>2 DEF EventsOf
      <4> QED
        BY <1>1, <1>7, <3>0, <3>2, <4>1
    <3> QED
      BY <3>1, <3>2
  <2> QED
    BY <2>1, <2>2 DEF HistoryFollows
<1>15. VersionsOrdered'
  <2>1. \A f \in events' : f.version <= version'
    BY <1>1, <1>2, <1>3, <1>8 DEF ContentInv, VersionsOrdered
  <2>2. ASSUME NEW w \in User \ {u}, Written(w)
        PROVE  /\ tx[w].version \in 1..version /\ item'[tx[w].item] = item[tx[w].item]
               /\ \A f \in events :
                    \/ f.item = tx[w].item
                    \/ f.slugs \cap (Slugs(item[tx[w].item]) \cup Slugs(tx[w].new)) # {}
                    => f.version < tx[w].version
    BY <1>6, <1>7, <2>2 DEF ContentInv, VersionsOrdered
  <2>3. ASSUME NEW w \in User \ {u}, Written(w)
        PROVE  /\ e.item # tx[w].item
               /\ e.slugs \cap (Slugs(item[tx[w].item]) \cup Slugs(tx[w].new)) = {}
    <3>1. e.item # tx[w].item /\ tx[w].item \in Item \ {i}
      BY <1>6, <1>8, <2>3
    <3>2. Slugs(item[i]) \cap Slugs(item[tx[w].item]) = {}
      BY <1>2, <3>1 DEF ContentInv, SlugsUnique, Slugs
    <3>3. Slugs(item[i]) \cap Slugs(tx[w].new) = {}
      BY <1>2, <2>3, <3>1 DEF ContentInv, SlugsUnique, Slugs
    <3>4. Slugs(t.new) \cap Slugs(item[tx[w].item]) = {}
      BY <1>1, <3>1 DEF ContentInv, SlugsUnique, Slugs, t, i
    <3>5. Slugs(t.new) \cap Slugs(tx[w].new) = {}
      BY <1>1, <2>3 DEF ContentInv, SlugsUnique, Slugs, t
    <3> QED
      BY <1>8, <3>1, <3>2, <3>3, <3>4, <3>5
  <2>4. \A entry : Slugs(entry)' = Slugs(entry)
    BY DEF Slugs, Live
  <2>5. \A w \in User : Written(w)' => w \in User \ {u} /\ Written(w) /\ tx'[w] = tx[w]
    BY <1>5, <1>6
  <2>6. \A f \in events' : f \in events \/ f = e
    BY <1>1
  <2>7. version' = version
    BY <1>1
  <2> QED
    BY <2>1, <2>2, <2>3, <2>5, <2>6, <2>7 DEF VersionsOrdered, Slugs, Live
<1> QED
  BY <1>9, <1>10, <1>11, <1>12, <1>13, <1>14, <1>15 DEF ContentInv

\* Every step of a transaction, a clock or an administrator keeps the invariant.
LEMMA StepContent == ContentInv /\ [ContentNext]_contentVars => ContentInv'
<1> SUFFICES ASSUME ContentInv, [ContentNext]_contentVars PROVE ContentInv'
  OBVIOUS
<1>1. CASE ContentNext
  BY <1>1, StepBegin, StepWrite, StepCommit, StepAside DEF ContentNext
<1>2. CASE UNCHANGED contentVars
  <2>1. (ContentTypeOK /\ Found)'
    BY <1>2 DEF contentVars, ContentInv, ContentTypeOK, Found
  <2> QED
    BY <1>2, <2>1, StepQuiet DEF contentVars, tables, Written
<1> QED
  BY <1>1, <1>2

\* The invariant of the content tables holds throughout.
LEMMA Canonical == ContentSpec => []ContentInv
BY InitContent, StepContent, PTL DEF ContentSpec

\* Every variable has its type, for any items, slugs, users, roles and statements.
THEOREM ContentTypeCorrect == ContentSpec => []ContentTypeOK
BY Canonical, PTL DEF ContentInv

\* What anybody can read was written by someone who held content.publish.
THEOREM VisibleOnlyIfPermitted == ContentSpec => []VisibleWasPermitted
<1>1. ContentInv => VisibleWasPermitted
  BY DEF ContentInv, PublishersPermitted, VisibleWasPermitted, Visible, Live
<1> QED
  BY <1>1, Canonical, PTL

\* An event that becomes visible has a later version than those of its item and of
\* its slugs.
LEMMA EventsStep ==
  ContentInv /\ [ContentNext]_contentVars =>
    [\A e \in events' \ events, f \in events :
       e.item = f.item \/ e.slugs \cap f.slugs # {} => f.version < e.version]_contentVars
<1> SUFFICES ASSUME ContentInv, ContentNext, NEW e \in events' \ events, NEW f \in events,
                    e.item = f.item \/ e.slugs \cap f.slugs # {}
             PROVE  f.version < e.version
  OBVIOUS
<1>1. PICK u \in User : Commit(u)
  BY DEF ContentNext, Begin, Write, Rollback, ChangeProfile, ChangeRole, Tick, tables
<1>2. /\ Written(u)
      /\ e = [item |-> tx[u].item, version |-> tx[u].version,
              slugs |-> Slugs(item[tx[u].item]) \cup Slugs(tx[u].new)]
  BY <1>1 DEF Commit
<1>3. f.item = tx[u].item \/ f.slugs \cap (Slugs(item[tx[u].item]) \cup Slugs(tx[u].new)) # {}
  BY <1>2
<1> QED
  BY <1>2, <1>3 DEF ContentInv, VersionsOrdered

\* Revisions have no gap, the last one is the row, each write has one event, and
\* events are visible in the order of their versions.
THEOREM HistoryKept == ContentSpec => HistoryInOrder
<1>1. ContentInv => HistoryIsComplete
  BY DEF ContentInv, HistoryFollows, HistoryIsComplete, EventsOf
<1>2. ContentSpec => EventsInCommitOrder
  BY Canonical, EventsStep, PTL DEF ContentSpec, EventsInCommitOrder
<1> QED
  BY <1>1, <1>2, Canonical, PTL DEF HistoryInOrder

-----------------------------------------------------------------------------
(* Deletes.                                                                *)
-----------------------------------------------------------------------------

\* A row that is there stays as it is when another one is inserted.
LEMMA InsertKeeps ==
  ASSUME NEW r \in Row, NEW refs, Insert(r, refs), NEW q \in Present
  PROVE  q \in Present' /\ rows'[q] = rows[q]
BY DEF Insert, Adding, Joined, Present

\* The columns that may be empty, by their names; some names may only be in these tables.
MayBeEmpty(from, column) ==
  \/ column \in {"avatar_asset_id", "assigned_by", "parent_id", "folder_id", "cover_asset_id",
                 "og_asset_id", "published_by", "assigned_to", "milestone_id", "logo_asset_id",
                 "vendor_id", "offer_id", "lead_id", "actor_id"}
  \/ column = "updated_by" /\ from \in {"settings", "feature_flags"}
  \/ column = "tool_id" /\ from \in {"offers", "affiliate_links"}
  \/ column = "client_id" /\ from = "email_threads"
  \/ column = "created_by" /\ from = "email_messages"

\* What the proofs need to know of a key: a key that clears its column clears one that
\* may be empty, and a link goes with what it names.
SoundKey(k) ==
  /\ k.onDelete \in {"cascade", "set null", "restrict"}
  /\ k.required <=> ~MayBeEmpty(k.from, k.column)
  /\ k.onDelete = "set null" => ~k.required
  /\ k.from = "affiliate_links" => k.onDelete = "cascade"
  /\ k.from = "content_revisions" =>
       \/ k.column = "content_id" /\ k.to = "content_items"
       \/ k.column = "created_by" /\ k.to = "users"

\* A cascading key whose column is required is sound where that column may not be empty.
LEMMA SoundOwned ==
  ASSUME NEW f, NEW c, NEW t, ~MayBeEmpty(f, c),
         f = "content_revisions" => c = "content_id" /\ t = "content_items"
  PROVE  SoundKey(Owned(f, c, t))
<1> DEFINE k == Owned(f, c, t)
<1>1. k = [from |-> f, column |-> c, to |-> t, onDelete |-> "cascade", required |-> TRUE]
  BY DEF Owned, ForeignKey
<1> HIDE DEF k
<1>2. k.from = f /\ k.column = c /\ k.to = t /\ k.onDelete = "cascade"
  BY <1>1
<1>3. k.required <=> TRUE
  BY <1>1
<1>4. SoundKey(k)
  BY <1>2, <1>3 DEF SoundKey
<1> QED
  BY <1>4 DEF k

\* A cascading key whose column may be empty is sound.
LEMMA SoundNested ==
  ASSUME NEW f, NEW c, NEW t, MayBeEmpty(f, c), f # "content_revisions"
  PROVE  SoundKey(Nested(f, c, t))
<1> DEFINE k == Nested(f, c, t)
<1>1. k = [from |-> f, column |-> c, to |-> t, onDelete |-> "cascade", required |-> FALSE]
  BY DEF Nested, ForeignKey
<1> HIDE DEF k
<1>2. k.from = f /\ k.column = c /\ k.to = t /\ k.onDelete = "cascade"
  BY <1>1
<1>3. k.required <=> FALSE
  BY <1>1
<1>4. SoundKey(k)
  BY <1>2, <1>3 DEF SoundKey
<1> QED
  BY <1>4 DEF k

\* A key that clears its column is sound where the column may be empty, but not in a
\* link.
LEMMA SoundOptional ==
  ASSUME NEW f, NEW c, NEW t, MayBeEmpty(f, c), f \notin {"content_revisions", "affiliate_links"}
  PROVE  SoundKey(Optional(f, c, t))
<1> DEFINE k == Optional(f, c, t)
<1>1. k = [from |-> f, column |-> c, to |-> t, onDelete |-> "set null", required |-> FALSE]
  BY DEF Optional, ForeignKey
<1> HIDE DEF k
<1>2. k.from = f /\ k.column = c /\ k.to = t /\ k.onDelete = "set null"
  BY <1>1
<1>3. k.required <=> FALSE
  BY <1>1
<1>4. SoundKey(k)
  BY <1>2, <1>3 DEF SoundKey
<1> QED
  BY <1>4 DEF k

\* A restricting key is sound where its column may not be empty, but not in a link.
LEMMA SoundNeeded ==
  ASSUME NEW f, NEW c, NEW t, ~MayBeEmpty(f, c), f # "affiliate_links",
         f = "content_revisions" => c = "created_by" /\ t = "users"
  PROVE  SoundKey(Needed(f, c, t))
<1> DEFINE k == Needed(f, c, t)
<1>1. k = [from |-> f, column |-> c, to |-> t, onDelete |-> "restrict", required |-> TRUE]
  BY DEF Needed, ForeignKey
<1> HIDE DEF k
<1>2. k.from = f /\ k.column = c /\ k.to = t /\ k.onDelete = "restrict"
  BY <1>1
<1>3. k.required <=> TRUE
  BY <1>1
<1>4. SoundKey(k)
  BY <1>2, <1>3 DEF SoundKey
<1> QED
  BY <1>4 DEF k

\* The keys of app are sound.
LEMMA SoundApp == \A k \in AppKeys : SoundKey(k)
BY SoundOwned, SoundNested, SoundOptional, SoundNeeded DEF AppKeys, MayBeEmpty

\* The keys of media are sound.
LEMMA SoundMedia == \A k \in MediaKeys : SoundKey(k)
BY SoundOwned, SoundNested, SoundOptional, SoundNeeded DEF MediaKeys, MayBeEmpty

\* The keys of content are sound.
LEMMA SoundContent == \A k \in ContentKeys : SoundKey(k)
BY SoundOwned, SoundNested, SoundOptional, SoundNeeded DEF ContentKeys, MayBeEmpty

\* The keys of crm are sound.
LEMMA SoundCrm == \A k \in CrmKeys : SoundKey(k)
BY SoundOwned, SoundNested, SoundOptional, SoundNeeded DEF CrmKeys, MayBeEmpty

\* The keys of commerce are sound.
LEMMA SoundCommerce == \A k \in CommerceKeys : SoundKey(k)
BY SoundOwned, SoundNested, SoundOptional, SoundNeeded DEF CommerceKeys, MayBeEmpty

\* The keys of comms are sound.
LEMMA SoundComms == \A k \in CommsKeys : SoundKey(k)
BY SoundOwned, SoundNested, SoundOptional, SoundNeeded DEF CommsKeys, MayBeEmpty

\* The keys of the unified inbox are sound.
LEMMA SoundInbox == \A k \in InboxKeys : SoundKey(k)
BY SoundOwned, SoundNested, SoundOptional, SoundNeeded DEF InboxKeys, MayBeEmpty

\* The keys of audit and system are sound.
LEMMA SoundOperation == \A k \in OperationKeys : SoundKey(k)
BY SoundOwned, SoundNested, SoundOptional, SoundNeeded DEF OperationKeys, MayBeEmpty

\* Every key of the schema is sound.
LEMMA SoundKeys == \A k \in ForeignKeys : SoundKey(k)
BY SoundApp, SoundMedia, SoundContent, SoundCrm, SoundCommerce, SoundComms, SoundInbox,
  SoundOperation DEF ForeignKeys

\* A column is there for every key of a row's table.
ColumnsThere == \A q \in Present : \A k \in KeysOf[Table(q)] : k.column \in DOMAIN rows[q]

DeletionsInv == DeletionsTypeOK /\ ReferencesHold /\ ColumnsThere

\* A row is of one of the schema's tables.
LEMMA TableOfRow == \A q \in Row : Table(q) \in Tables
BY DEF Row, Table

\* The keys of a table are keys of the schema that start there.
LEMMA KeysOfTable ==
  ASSUME NEW name \in Tables, NEW k \in KeysOf[name]
  PROVE  k \in ForeignKeys /\ k.from = name /\ SoundKey(k)
BY SoundKeys DEF KeysOf

\* Two keys of one column agree on whether it may be empty.
LEMMA ColumnsAgree ==
  ASSUME NEW name \in Tables, NEW k \in KeysOf[name], NEW j \in KeysOf[name],
         k.column = j.column
  PROVE  k.required <=> j.required
<1>1. SoundKey(k) /\ SoundKey(j) /\ k.from = name /\ j.from = name
  BY KeysOfTable
<1>2. (k.required <=> ~MayBeEmpty(name, k.column)) /\ (j.required <=> ~MayBeEmpty(name, j.column))
  BY <1>1 DEF SoundKey
<1> QED
  BY <1>2

\* What refers to the cascade by a cascading key is in it.
LEMMA GoneIsClosed ==
  ASSUME NEW r \in Present
  PROVE  r \in Gone(r) /\ Gone(r) \subseteq Present /\ Referring(Gone(r), "cascade") \subseteq Gone(r)
<1>1. r \in Gone(r) /\ Gone(r) \subseteq Present
  BY DEF Gone
<1>2. ASSUME NEW q \in Referring(Gone(r), "cascade"), NEW S \in SUBSET Present,
             r \in S, Referring(S, "cascade") \subseteq S
      PROVE  q \in S
  <2>1. Gone(r) \subseteq S
    BY <1>2 DEF Gone
  <2>2. q \in Referring(S, "cascade")
    BY <2>1 DEF Referring
  <2> QED
    BY <1>2, <2>2
<1>3. ASSUME NEW q \in Referring(Gone(r), "cascade")  PROVE  q \in Gone(r)
  <2>1. q \in Present
    BY DEF Referring
  <2> QED
    BY <1>2, <2>1 DEF Gone
<1> QED
  BY <1>1, <1>3

\* What is left after a delete refers to what is left, or was cleared.
LEMMA LeftRefers ==
  ASSUME DeletionsInv, NEW r \in Present, ~IsRefused(Gone(r), Changed(Gone(r))),
         NEW q \in Present \ Gone(r), NEW k \in KeysOf[Table(q)]
  PROVE  /\ Refer(q, k) \in Gone(r) => ~k.required /\ q \in Changed(Gone(r))
         /\ Refer(q, k) \notin Gone(r) =>
              IF Refer(q, k) = Null THEN ~k.required
              ELSE Refer(q, k) \in Present \ Gone(r) /\ Table(Refer(q, k)) = k.to
<1> DEFINE gone == Gone(r)
<1>1. Referring(gone, "cascade") \subseteq gone
  BY GoneIsClosed
<1>2. Referring(gone, "restrict") = {}
  BY DEF IsRefused
<1>3. q \in Present /\ q \notin gone /\ q \in Row
  BY DEF DeletionsInv, DeletionsTypeOK
<1>4. SoundKey(k)
  BY <1>3, TableOfRow, KeysOfTable
<1> HIDE DEF gone
<1>5. CASE Refer(q, k) \in gone
  <2>1. q \in Referring(gone, k.onDelete)
    BY <1>3, <1>5 DEF Referring
  <2>2. k.onDelete = "set null"
    BY <1>1, <1>2, <1>3, <1>4, <2>1 DEF SoundKey
  <2>3. ~k.required
    BY <1>4, <2>2 DEF SoundKey
  <2>4. q \in Changed(gone)
    BY <1>3, <2>1, <2>2 DEF Changed
  <2> QED
    BY <1>5, <2>3, <2>4 DEF gone
<1>6. CASE Refer(q, k) \notin gone
  BY <1>3, <1>6 DEF gone, DeletionsInv, ReferencesHold
<1> QED
  BY <1>5, <1>6 DEF gone

\* A link goes with the tool or the offer it names: nothing clears one.
LEMMA LinksUnchanged ==
  ASSUME DeletionsInv, NEW gone, NEW q \in Changed(gone)
  PROVE  Table(q) # "affiliate_links"
<1>1. q \in Present /\ q \in Row
  BY DEF Changed, Referring, DeletionsInv, DeletionsTypeOK
<1>2. PICK k \in KeysOf[Table(q)] : k.onDelete = "set null"
  BY DEF Changed, Referring
<1>3. SoundKey(k) /\ k.from = Table(q)
  BY <1>1, TableOfRow, KeysOfTable
<1> QED
  BY <1>2, <1>3 DEF SoundKey

\* What a delete leaves refers to what it leaves, or to nothing where it may.
LEMMA DeleteKeeps ==
  ASSUME DeletionsInv, NEW r \in Present, Delete(r)
  PROVE  DeletionsInv'
<1> DEFINE gone == Gone(r)
           changed == Changed(gone)
<1>1. CASE IsRefused(gone, changed)
  BY <1>1 DEF Delete, DeletionsInv, DeletionsTypeOK, ReferencesHold, ColumnsThere, Present, Refer
<1>2. CASE ~IsRefused(gone, changed)
  <2>1. /\ rows' = [p \in Present \ gone |-> IF p \in changed THEN Cleared(p, gone) ELSE rows[p]]
        /\ last' = "deleted" /\ announced' = Told(r, gone, changed)
    BY <1>2 DEF Delete
  <2>2. Present' = Present \ gone
    BY <2>1 DEF Present
  <2>3. gone \subseteq Present /\ changed \subseteq Present /\ Present \subseteq Row
    BY GoneIsClosed DEF Changed, Referring, DeletionsInv, DeletionsTypeOK
  <2>4. ASSUME NEW q \in Present', NEW k \in KeysOf[Table(q)]
        PROVE  /\ k.column \in DOMAIN rows'[q]
               /\ IF rows'[q][k.column] = Null THEN ~k.required
                  ELSE /\ rows'[q][k.column] \in Present'
                       /\ Table(rows'[q][k.column]) = k.to
    <3>1. q \in Present \ gone /\ k.column \in DOMAIN rows[q]
      BY <2>2 DEF DeletionsInv, ColumnsThere
    <3>2. /\ Refer(q, k) \in gone => ~k.required /\ q \in changed
          /\ Refer(q, k) \notin gone =>
               IF Refer(q, k) = Null THEN ~k.required
               ELSE Refer(q, k) \in Present \ gone /\ Table(Refer(q, k)) = k.to
      BY <1>2, <3>1, LeftRefers
    <3> HIDE DEF gone, changed
    <3>3. CASE q \in changed
      <4>1. rows'[q] = Cleared(q, gone)
        BY <2>1, <3>1, <3>3
      <4>2. /\ k.column \in DOMAIN rows'[q]
            /\ rows'[q][k.column] = IF Refer(q, k) \in gone THEN Null ELSE Refer(q, k)
        BY <3>1, <4>1 DEF Cleared, Refer
      <4> QED
        BY <2>2, <3>2, <4>2
    <3>4. CASE q \notin changed
      <4>1. rows'[q] = rows[q]
        BY <2>1, <3>1, <3>4
      <4>2. rows'[q][k.column] = Refer(q, k) /\ Refer(q, k) \notin gone
        BY <3>2, <3>4, <4>1 DEF Refer
      <4> QED
        BY <2>2, <3>1, <3>2, <4>1, <4>2
    <3> QED
      BY <3>3, <3>4
  <2>5. ASSUME NEW q \in Present'  PROVE  Allowed(Table(q), rows'[q])
    <3>1. q \in Present \ gone /\ Allowed(Table(q), rows[q])
      BY <2>2 DEF DeletionsInv, ReferencesHold
    <3>2. CASE q \in changed
      BY <3>2, LinksUnchanged DEF Allowed
    <3>3. CASE q \notin changed
      BY <2>1, <3>1, <3>3
    <3> QED
      BY <3>2, <3>3
  <2>6. ColumnsThere' /\ ReferencesHold'
    BY <2>4, <2>5 DEF ColumnsThere, ReferencesHold, Refer
  <2>7. announced' \subseteq Row /\ Present' \subseteq Row
    BY <2>1, <2>2, <2>3 DEF Told
  <2>8. DeletionsTypeOK'
    BY <2>1, <2>4, <2>7 DEF DeletionsTypeOK, Refer
  <2> QED
    BY <2>6, <2>8 DEF DeletionsInv
<1> QED
  BY <1>1, <1>2

\* A row is inserted with a column for every key of its table, empty where it may be.
LEMMA FilledRefers ==
  ASSUME DeletionsInv, NEW name \in Tables, NEW refs \in References(name), NEW key \in KeysOf[name]
  PROVE  /\ key.column \in DOMAIN refs
         /\ IF refs[key.column] = Null THEN ~key.required
            ELSE refs[key.column] \in Present /\ Table(refs[key.column]) = key.to
<1> DEFINE must == {k \in KeysOf[name] : k.required}
           may == KeysOf[name] \ must
           musts == {k.column : k \in must}
           mays == {k.column : k \in may}
<1>1. PICK f \in Fillings(must, {}), g \in Fillings(may, {Null}) : refs = Joined(f, g)
  BY DEF References
<1>2. DOMAIN f = musts /\ DOMAIN g = mays
  BY DEF Fillings
<1>3. /\ \A j \in must : f[j.column] \in Present /\ Table(f[j.column]) = j.to
      /\ \A j \in may : \/ g[j.column] = Null
                        \/ g[j.column] \in Present /\ Table(g[j.column]) = j.to
  BY DEF Fillings
<1>4. /\ DOMAIN refs = musts \cup mays
      /\ \A c \in musts : refs[c] = f[c]
      /\ \A c \in mays \ musts : refs[c] = g[c]
  BY <1>1, <1>2 DEF Joined
<1>5. Null \notin Present
  BY DeletionsAssumption DEF DeletionsInv, DeletionsTypeOK, Row
<1>6. CASE key.required
  <2>1. key \in must /\ key.column \in musts
    BY <1>6
  <2> HIDE DEF must, may, musts, mays
  <2> QED
    BY <2>1, <1>3, <1>4, <1>5
<1>7. CASE ~key.required
  <2>1. key \in may /\ key.column \in mays
    BY <1>7
  <2>2. key.column \notin musts
    BY <1>7, ColumnsAgree
  <2> HIDE DEF must, may, musts, mays
  <2> QED
    BY <1>7, <2>1, <2>2, <1>3, <1>4
<1> QED
  BY <1>6, <1>7

\* Revisions are a table of their own, and an item names the user its revision is by.
LEMMA ItemsAndRevisions ==
  /\ "content_revisions" \in Tables
  /\ \E k \in KeysOf["content_items"] : k.column = "updated_by" /\ k.required /\ k.to = "users"
<1> DEFINE k == Needed("content_items", "updated_by", "users")
           j == Needed("content_revisions", "created_by", "users")
<1>1. k \in ForeignKeys /\ j \in ForeignKeys
  BY DEF ForeignKeys, ContentKeys
<1>2. k = [from |-> "content_items", column |-> "updated_by", to |-> "users",
           onDelete |-> "restrict", required |-> TRUE]
  BY DEF Needed, ForeignKey
<1>3. j.from = "content_revisions"
  BY DEF Needed, ForeignKey
<1> HIDE DEF k, j
<1>4. k.from = "content_items" /\ k.column = "updated_by" /\ k.to = "users"
  BY <1>2
<1>5. k.required
  BY <1>2
<1>6. "content_revisions" \in Tables /\ "content_items" \in Tables
  BY <1>1, <1>3, <1>4 DEF Tables
<1>7. k \in KeysOf["content_items"]
  BY <1>1, <1>4, <1>6 DEF KeysOf
<1> QED
  BY <1>4, <1>5, <1>6, <1>7

\* An insert, with the revision its trigger writes, refers to rows that are there.
LEMMA InsertRefers ==
  ASSUME DeletionsInv, NEW r \in Row, Fresh(r), NEW refs \in References(Table(r)), Insert(r, refs)
  PROVE  DeletionsInv'
<1> DEFINE revision == <<"content_revisions", r[2]>>
           first == [content_id |-> r, created_by |-> refs["updated_by"]]
           isItem == Table(r) = "content_items"
           added == IF isItem THEN {r, revision} ELSE {r}
<1>1. Table(r) \in Tables /\ r \notin Present /\ Present \subseteq Row
  BY TableOfRow DEF Fresh, DeletionsInv, DeletionsTypeOK
<1>2. revision \in Row /\ Table(revision) = "content_revisions"
  BY ItemsAndRevisions DEF Row, Table
<1>3. Table(r) # "content_revisions" /\ Allowed(Table(r), refs)
  BY DEF Insert
<1>4. r # revision
  BY <1>2, <1>3
<1>5. Present' = Present \cup added /\ \A q \in Present : rows'[q] = rows[q]
  BY DEF Insert, Adding, Joined, Present
<1>6. rows'[r] = refs
  <2>1. CASE isItem
    BY <2>1, <1>1 DEF Insert, Adding, Joined, Present
  <2>2. CASE ~isItem
    BY <2>2, <1>1 DEF Insert, Adding, Joined, Present
  <2> QED
    BY <2>1, <2>2
<1>7. isItem /\ revision \notin Present => rows'[revision] = first
  BY <1>1, <1>4 DEF Insert, Adding, Joined, Present
<1>8. announced' \subseteq Row /\ last' = "inserted"
  BY DEF Insert
<1> DEFINE Refers(q) ==
             /\ \A k \in KeysOf[Table(q)] :
                  /\ k.column \in DOMAIN rows'[q]
                  /\ IF rows'[q][k.column] = Null THEN ~k.required
                     ELSE rows'[q][k.column] \in Present' /\ Table(rows'[q][k.column]) = k.to
             /\ Allowed(Table(q), rows'[q])
<1>9. ASSUME NEW q \in Present  PROVE  Refers(q)
  BY <1>5 DEF DeletionsInv, ReferencesHold, ColumnsThere, Refer
<1>10. Refers(r)
  <2>1. \A k \in KeysOf[Table(r)] :
          /\ k.column \in DOMAIN refs
          /\ IF refs[k.column] = Null THEN ~k.required
             ELSE refs[k.column] \in Present /\ Table(refs[k.column]) = k.to
    BY <1>1, FilledRefers
  <2> QED
    BY <1>3, <1>5, <1>6, <2>1
<1>11. ASSUME isItem, revision \notin Present  PROVE  Refers(revision)
  <2>1. rows'[revision] = first
    BY <1>7, <1>11
  <2>2. refs["updated_by"] \in Present /\ Table(refs["updated_by"]) = "users"
    <3>1. PICK k \in KeysOf[Table(r)] : k.column = "updated_by" /\ k.required /\ k.to = "users"
      BY <1>11, ItemsAndRevisions
    <3> QED
      BY <1>1, <3>1, FilledRefers
  <2>3. \A k \in KeysOf[Table(revision)] :
          \/ k.column = "content_id" /\ k.to = "content_items"
          \/ k.column = "created_by" /\ k.to = "users"
    BY <1>2, ItemsAndRevisions, KeysOfTable DEF SoundKey
  <2>4. Null \notin Present'
    BY <1>1, <1>2, <1>5, DeletionsAssumption DEF Row
  <2>5. first["content_id"] = r /\ first["created_by"] = refs["updated_by"]
        /\ DOMAIN first = {"content_id", "created_by"}
    OBVIOUS
  <2>6. r \in Present' /\ refs["updated_by"] \in Present'
    BY <1>5, <2>2
  <2>7. Allowed(Table(revision), rows'[revision])
    BY <1>2 DEF Allowed
  <2> HIDE DEF first, revision
  <2>8. ASSUME NEW k \in KeysOf[Table(revision)]
        PROVE  /\ k.column \in DOMAIN first
               /\ first[k.column] \in Present' /\ Table(first[k.column]) = k.to
    BY <1>11, <2>2, <2>3, <2>5, <2>6
  <2> QED
    BY <2>1, <2>4, <2>7, <2>8
<1>12. ASSUME NEW q \in Present'  PROVE  Refers(q)
  <2> HIDE DEF Refers
  <2> QED
    BY <1>5, <1>9, <1>10, <1>11
<1>13. Present' \subseteq Row
  BY <1>1, <1>2, <1>5
<1>14. ReferencesHold' /\ ColumnsThere'
  BY <1>12 DEF ReferencesHold, ColumnsThere, Refer
<1>15. DeletionsTypeOK'
  BY <1>8, <1>12, <1>13 DEF DeletionsTypeOK, Refer
<1> QED
  BY <1>14, <1>15 DEF DeletionsInv

\* Which step it is, the columns of the rows that are left refer to rows that are left.
LEMMA DeletionsInductive == DeletionsSpec => []DeletionsInv
<1>1. DeletionsInit => DeletionsInv
  BY DEF DeletionsInit, DeletionsInv, DeletionsTypeOK, ReferencesHold, ColumnsThere, Present
<1>2. DeletionsInv /\ [DeletionsNext]_deletionVars => DeletionsInv'
  <2> SUFFICES ASSUME DeletionsInv, [DeletionsNext]_deletionVars  PROVE  DeletionsInv'
    OBVIOUS
  <2>1. ASSUME NEW r \in Row, Fresh(r), NEW refs \in References(Table(r)), Insert(r, refs)
        PROVE  DeletionsInv'
    BY <2>1, InsertRefers
  <2>2. ASSUME NEW r \in Present, Delete(r)  PROVE  DeletionsInv'
    BY <2>2, DeleteKeeps
  <2>3. CASE UNCHANGED deletionVars
    BY <2>3 DEF deletionVars, DeletionsInv, DeletionsTypeOK, ReferencesHold, ColumnsThere,
      Present, Refer
  <2> QED
    BY <2>1, <2>2, <2>3 DEF DeletionsNext
<1> QED
  BY <1>1, <1>2, PTL DEF DeletionsSpec

\* Rows are rows of the schema's tables.
THEOREM DeletionsTypeCorrect == DeletionsSpec => []DeletionsTypeOK
BY DeletionsInductive, PTL DEF DeletionsInv

\* Whatever is inserted and deleted, by whichever keys, no column refers to a row that
\* is gone, none that must refer to one is empty, and every link names what it sells.
THEOREM ReferencesKept == DeletionsSpec => []ReferencesHold
BY DeletionsInductive, PTL DEF DeletionsInv

\* What a delete lets go of holds up no row that it leaves: such a row may be cleared,
\* and neither must refer to what is gone nor is history.
LEMMA LeftStands ==
  ASSUME DeletionsInv, NEW r \in Present, ~IsRefused(Gone(r), Changed(Gone(r)))
  PROVE  RestsOn(Present \ Gone(r)) \subseteq Present \ Gone(r)
<1> SUFFICES ASSUME NEW q \in Present, NEW p \in Present \ Gone(r), NEW k \in KeysOf[Table(p)],
                    Refer(p, k) = q, k.required \/ Table(p) \in AppendOnly, q \in Gone(r)
             PROVE  FALSE
  BY DEF RestsOn
<1>1. ~k.required /\ p \in Changed(Gone(r))
  BY LeftRefers
<1>2. Protected(Gone(r), Changed(Gone(r)))
  BY <1>1 DEF Protected
<1> QED
  BY <1>2 DEF IsRefused

\* A delete that is not refused takes nothing that history rests on, however indirectly:
\* what it leaves is a set that lasts and stands by itself.
LEMMA GroundsLeft ==
  ASSUME DeletionsInv, NEW r \in Present, ~IsRefused(Gone(r), Changed(Gone(r)))
  PROVE  Grounds \subseteq Present \ Gone(r)
<1>1. Lasting \subseteq Present \ Gone(r)
  BY DEF Lasting, IsRefused, Protected
<1>2. RestsOn(Present \ Gone(r)) \subseteq Present \ Gone(r)
  BY LeftStands
<1> DEFINE left == Present \ Gone(r)
<1>3. left \in SUBSET Present /\ Lasting \subseteq left /\ RestsOn(left) \subseteq left
  BY <1>1, <1>2
<1> HIDE DEF left
<1>4. Grounds \subseteq left
  BY <1>3 DEF Grounds
<1> QED
  BY <1>4 DEF left

\* A delete is refused as a whole, or leaves history and what it rests on.
LEMMA DeleteStands ==
  ASSUME DeletionsInv, NEW r \in Present, Delete(r)
  PROVE  /\ Grounds \subseteq Present'
         /\ \A q \in Present : Table(q) \in AppendOnly => rows'[q] = rows[q]
<1> DEFINE gone == Gone(r)
           changed == Changed(gone)
<1>1. CASE IsRefused(gone, changed)
  BY <1>1 DEF Delete, Present, Grounds
<1>2. CASE ~IsRefused(gone, changed)
  <2>1. rows' = [p \in Present \ gone |-> IF p \in changed THEN Cleared(p, gone) ELSE rows[p]]
    BY <1>2 DEF Delete
  <2>2. \A p \in gone \cup changed : Table(p) \notin AppendOnly
    BY <1>2 DEF IsRefused, Protected
  <2>3. Grounds \subseteq Present \ gone
    BY <1>2, GroundsLeft
  <2> HIDE DEF gone, changed
  <2> QED
    BY <2>1, <2>2, <2>3 DEF Present
<1> QED
  BY <1>1, <1>2

\* No statement takes what history rests on, or changes history.
LEMMA DeletionsStand == DeletionsInv /\ [DeletionsNext]_deletionVars => [StandingKept]_deletionVars
<1> SUFFICES ASSUME DeletionsInv, DeletionsNext
             PROVE  StandingKept
  OBVIOUS
<1>1. ASSUME NEW r \in Row, NEW refs, Insert(r, refs)
      PROVE  StandingKept
  BY <1>1, InsertKeeps DEF Grounds, StandingKept
<1>2. ASSUME NEW r \in Present, Delete(r)
      PROVE  StandingKept
  BY <1>2, DeleteStands DEF StandingKept
<1> QED
  BY <1>1, <1>2 DEF DeletionsNext

\* History stays as it was written, with the items, the authors and the actors that it
\* rests on however indirectly, whatever is deleted around them.
THEOREM HistoryIsKept == DeletionsSpec => HistoryStands
BY DeletionsInductive, DeletionsStand, PTL DEF DeletionsSpec, HistoryStands

-----------------------------------------------------------------------------
(* Drafts.                                                                 *)
-----------------------------------------------------------------------------

Writing(t) == stage[t] \in {"reading", "putting"}

Busy(o) ==
  {t \in Tab : /\ stage[t] \in {"reading", "putting", "pruning", "listing", "enforcing"}
               /\ target[t][1] = o}

\* A tab that does something does it to a draft of some owner, and every save that
\* was cut short, or still runs, was begun.
DraftsTyped ==
  /\ DraftsTypeOK
  /\ \A t \in Tab : stage[t] # "idle" => target[t] \in Owner \X Key
  /\ \A o \in Owner : torn[o] + Cardinality(Busy(o)) <= clock

\* No two saves have one time.
TimesDiffer ==
  /\ \A o \in Owner : \A j, k \in Stored(o) :
       j # k => draft[o][j].updatedAt # draft[o][k].updatedAt
  /\ \A t \in Tab : Writing(t) =>
       /\ mine[t].updatedAt # 0 /\ mine[t].createdAt # 0
       /\ \A o \in Owner : \A k \in Stored(o) : mine[t].updatedAt # draft[o][k].updatedAt
       /\ \A u \in Tab \ {t} : Writing(u) => mine[t].updatedAt # mine[u].updatedAt

\* What is stored, or about to be, is later than a logout or was under way then.
Spared(o, n) == n > loggedOut[o] \/ n \in spared[o]

AfterLogout ==
  /\ \A o \in Owner : loggedOut[o] <= clock
  /\ \A o \in Owner : \A k \in Stored(o) : Spared(o, draft[o][k].updatedAt)
  /\ \A t \in Tab, o \in Owner :
       At(t, "reading", o) \/ At(t, "putting", o) => Spared(o, mine[t].updatedAt)

\* The tabs that have found what is over the limit may delete it in any order, and
\* some or all of them: what stays is within the limit but for the others' saves.
Within(A, S, E, d, n) ==
  \A T \in SUBSET E : Cardinality(A \ UNION {d[t] : t \in T}) <= DraftLimit + Cardinality(S \ T) + n

Enforcing(o) == {t \in Tab : At(t, "enforcing", o)}

LimitKept == \A o \in Owner : Within(Active(o), Saving(o), Enforcing(o), drop, torn[o])

\* What a tab that is not overtaken has decided to delete may still be deleted.
Decided(t) ==
  \A o \in Owner :
    /\ At(t, "enforcing", o) =>
         \A k \in drop[t] \cap Stored(o) : Cardinality(Newer(o, k, Stored(o))) >= DraftLimit
    /\ (At(t, "expired", o) \/ At(t, "deleting", o)) /\ ~asked[t] =>
         \A k \in Stored(o) : target[t] = <<o, k>> => IsExpired(o, k)

DecisionsHold == \A t \in Tab \ overtaken : Decided(t)

DraftsInv == DraftsTyped /\ TimesDiffer /\ AfterLogout /\ LimitKept /\ DecisionsHold

-----------------------------------------------------------------------------

\* Sizes of sets of keys and of tabs.
LEMMA KeysAndTabs ==
  /\ \A S \in SUBSET Key : IsFiniteSet(S) /\ Cardinality(S) \in Nat
  /\ \A S \in SUBSET Tab : IsFiniteSet(S) /\ Cardinality(S) \in Nat
  /\ \A S \in SUBSET Key : \A T \in SUBSET S : Cardinality(T) <= Cardinality(S)
  /\ \A S \in SUBSET Tab : \A T \in SUBSET S : Cardinality(T) <= Cardinality(S)
BY DraftsAssumption, FS_Subset, FS_CardinalityType

\* Of numbered keys, those with fewer than the limit above them are not more than the
\* limit: the lowest of them has the others above it.
LEMMA NewestAreFew ==
  ASSUME NEW S \in SUBSET Key, NEW f, \A k \in S : f[k] \in Nat,
         \A j, k \in S : j # k => f[j] # f[k]
  PROVE  Cardinality({k \in S : ~(Cardinality({j \in S : f[j] > f[k]}) >= DraftLimit)}) <= DraftLimit
<1> DEFINE Above(k) == {j \in S : f[j] > f[k]}
           K == {k \in S : ~(Cardinality(Above(k)) >= DraftLimit)}
<1> SUFFICES Cardinality(K) <= DraftLimit
  OBVIOUS
<1>1. CASE K = {}
  <2> HIDE DEF K
  <2> QED
    BY <1>1, DraftsAssumption, FS_EmptySet
<1>2. CASE K # {}
  <2>1. PICK n \in {f[k] : k \in K} : \A m \in {f[k] : k \in K} : ~(<<m, n>> \in OpToRel(<, Nat))
    <3> DEFINE N == {f[k] : k \in K}
    <3>1. N \subseteq Nat /\ N # {}
      BY <1>2
    <3>2. IsWellFoundedOn(OpToRel(<, Nat), Nat)
      BY NatLessThanWellFounded
    <3> HIDE DEF N
    <3>3. \E n \in N : \A m \in N : ~(<<m, n>> \in OpToRel(<, Nat))
      BY <3>1, <3>2, WFMin
    <3> QED
      BY <3>3 DEF N
  <2>2. PICK k \in K : n = f[k]
    BY <2>1
  <2>3. ASSUME NEW j \in K, j # k PROVE f[j] > f[k]
    <3>1. f[j] \in Nat /\ f[k] \in Nat /\ f[j] # f[k]
      BY <2>3
    <3>2. ~(<<f[j], f[k]>> \in OpToRel(<, Nat))
      BY <2>1, <2>2
    <3>3. ~(f[j] < f[k])
      BY <3>1, <3>2 DEF OpToRel
    <3> QED
      BY <3>1, <3>3
  <2>4. K \subseteq Above(k) \cup {k} /\ k \notin Above(k) /\ Above(k) \in SUBSET Key
    BY <2>2, <2>3
  <2>5. Cardinality(Above(k)) < DraftLimit
    BY <2>2, <2>4, KeysAndTabs, DraftsAssumption
  <2>6. Cardinality(Above(k) \cup {k}) = Cardinality(Above(k)) + 1
    BY <2>4, KeysAndTabs, FS_AddElement
  <2>7. Cardinality(K) <= Cardinality(Above(k) \cup {k})
    BY <2>2, <2>4, KeysAndTabs
  <2>8. Cardinality(K) \in Nat /\ Cardinality(Above(k)) \in Nat
    BY <2>4, KeysAndTabs
  <2> QED
    BY <2>5, <2>6, <2>7, <2>8, DraftsAssumption
<1> QED
  BY <1>1, <1>2

\* Fewer drafts, more saves under way, fewer decisions: still within.
LEMMA WithinLess ==
  ASSUME NEW A \in SUBSET Key, NEW S \in SUBSET Tab, NEW E \in SUBSET S, NEW d, NEW n \in Nat,
         Within(A, S, E, d, n),
         NEW B \in SUBSET A, NEW R \in SUBSET Tab, S \subseteq R, NEW F \in SUBSET E, NEW e,
         \A t \in F : e[t] = d[t], NEW m \in Nat, n <= m
  PROVE  Within(B, R, F, e, m)
<1> SUFFICES ASSUME NEW T \in SUBSET F
             PROVE  Cardinality(B \ UNION {e[t] : t \in T}) <= DraftLimit + Cardinality(R \ T) + m
  BY DEF Within
<1> DEFINE X == A \ UNION {d[t] : t \in T}
           Y == B \ UNION {e[t] : t \in T}
<1>1. Cardinality(X) <= DraftLimit + Cardinality(S \ T) + n
  BY DEF Within
<1>2. Y \subseteq X /\ X \in SUBSET Key
  OBVIOUS
<1>3. Cardinality(Y) <= Cardinality(X) /\ Cardinality(X) \in Nat /\ Cardinality(Y) \in Nat
  <2> HIDE DEF X, Y
  <2> QED
    BY <1>2, KeysAndTabs
<1>4. /\ Cardinality(S \ T) <= Cardinality(R \ T)
      /\ Cardinality(S \ T) \in Nat /\ Cardinality(R \ T) \in Nat
  <2>1. S \ T \in SUBSET (R \ T) /\ R \ T \in SUBSET Tab
    OBVIOUS
  <2> QED
    BY <2>1, KeysAndTabs
<1> HIDE DEF X
<1> QED
  BY <1>1, <1>3, <1>4, DraftsAssumption

\* One draft more, and one save under way more.
LEMMA WithinPut ==
  ASSUME NEW A \in SUBSET Key, NEW S \in SUBSET Tab, NEW E \in SUBSET S, NEW d, NEW n \in Nat,
         Within(A, S, E, d, n),
         NEW k \in Key, NEW B \in SUBSET (A \cup {k}), NEW t \in Tab \ S, NEW e,
         \A u \in E : e[u] = d[u]
  PROVE  Within(B, S \cup {t}, E, e, n)
<1> SUFFICES ASSUME NEW T \in SUBSET E
             PROVE  Cardinality(B \ UNION {e[u] : u \in T}) <= DraftLimit + Cardinality((S \cup {t}) \ T) + n
  BY DEF Within
<1> DEFINE X == A \ UNION {d[u] : u \in T}
           Y == B \ UNION {e[u] : u \in T}
<1>1. Cardinality(X) <= DraftLimit + Cardinality(S \ T) + n
  BY DEF Within
<1>2. Y \subseteq X \cup {k} /\ X \in SUBSET Key
  OBVIOUS
<1> HIDE DEF X, Y
<1>3. /\ Cardinality(Y) <= Cardinality(X) + 1
      /\ Cardinality(X) \in Nat /\ Cardinality(Y) \in Nat
  <2>1. X \cup {k} \in SUBSET Key /\ Y \in SUBSET (X \cup {k}) /\ Y \in SUBSET Key
    BY <1>2
  <2>2. Cardinality(Y) <= Cardinality(X \cup {k}) /\ Cardinality(X) \in Nat /\ Cardinality(Y) \in Nat
    BY <1>2, <2>1, KeysAndTabs
  <2>3. Cardinality(X \cup {k}) \in {Cardinality(X), Cardinality(X) + 1}
    BY <1>2, KeysAndTabs, FS_AddElement
  <2> QED
    BY <2>2, <2>3
<1>4. Cardinality((S \cup {t}) \ T) = Cardinality(S \ T) + 1 /\ Cardinality(S \ T) \in Nat
  <2>1. (S \cup {t}) \ T = (S \ T) \cup {t} /\ t \notin S \ T /\ S \ T \in SUBSET Tab
    OBVIOUS
  <2> QED
    BY <2>1, KeysAndTabs, FS_AddElement
<1> QED
  BY <1>1, <1>3, <1>4, DraftsAssumption DEF Y

\* A save that is cut short is counted among the torn ones.
LEMMA WithinTorn ==
  ASSUME NEW A \in SUBSET Key, NEW S \in SUBSET Tab, NEW E \in SUBSET S, NEW d, NEW n \in Nat,
         Within(A, S, E, d, n), NEW t \in S, NEW e, \A u \in E \ {t} : e[u] = d[u]
  PROVE  Within(A, S \ {t}, E \ {t}, e, n + 1)
<1> SUFFICES ASSUME NEW T \in SUBSET (E \ {t})
             PROVE  Cardinality(A \ UNION {e[u] : u \in T})
                      <= DraftLimit + Cardinality((S \ {t}) \ T) + (n + 1)
  BY DEF Within
<1> DEFINE X == A \ UNION {d[u] : u \in T}
           Y == A \ UNION {e[u] : u \in T}
<1>1. Cardinality(X) <= DraftLimit + Cardinality(S \ T) + n
  BY DEF Within
<1>3. X = Y /\ X \in SUBSET Key
  OBVIOUS
<1> HIDE DEF X, Y
<1>4. Cardinality(X) \in Nat
  BY <1>3, KeysAndTabs
<1>2. Cardinality(S \ T) = Cardinality((S \ {t}) \ T) + 1 /\ Cardinality((S \ {t}) \ T) \in Nat
  <2>1. /\ S \ T = ((S \ {t}) \ T) \cup {t} /\ t \notin (S \ {t}) \ T
        /\ (S \ {t}) \ T \in SUBSET Tab
    OBVIOUS
  <2> QED
    BY <2>1, KeysAndTabs, FS_AddElement
<1>5. Cardinality(Y) <= DraftLimit + Cardinality((S \ {t}) \ T) + (n + 1)
  BY <1>1, <1>2, <1>3, <1>4, DraftsAssumption
<1> QED
  BY <1>5 DEF Y

\* A tab that deletes what it has found leaves no more than was counted on.
LEMMA WithinDeleted ==
  ASSUME NEW A \in SUBSET Key, NEW S \in SUBSET Tab, NEW E \in SUBSET S, NEW d, NEW n \in Nat,
         Within(A, S, E, d, n), NEW t \in E, NEW B \in SUBSET (A \ d[t]),
         NEW e, \A u \in E \ {t} : e[u] = d[u]
  PROVE  Within(B, S \ {t}, E \ {t}, e, n)
<1> SUFFICES ASSUME NEW T \in SUBSET (E \ {t})
             PROVE  Cardinality(B \ UNION {e[u] : u \in T})
                      <= DraftLimit + Cardinality((S \ {t}) \ T) + n
  BY DEF Within
<1> DEFINE X == A \ UNION {d[u] : u \in T \cup {t}}
           Y == B \ UNION {e[u] : u \in T}
<1>1. Cardinality(X) <= DraftLimit + Cardinality(S \ (T \cup {t})) + n
  BY DEF Within
<1>2. Y \subseteq X /\ X \in SUBSET Key /\ S \ (T \cup {t}) = (S \ {t}) \ T
  OBVIOUS
<1> HIDE DEF X, Y
<1>3. Cardinality(Y) <= Cardinality(X) /\ Cardinality(X) \in Nat /\ Cardinality(Y) \in Nat
  BY <1>2, KeysAndTabs
<1>4. Cardinality((S \ {t}) \ T) \in Nat
  BY KeysAndTabs
<1>5. Cardinality(Y) <= DraftLimit + Cardinality((S \ {t}) \ T) + n
  BY <1>1, <1>2, <1>3, <1>4, DraftsAssumption
<1> QED
  BY <1>5 DEF Y

\* No more drafts than the limit are within whatever others do.
LEMMA WithinAnyway ==
  ASSUME NEW A \in SUBSET Key, NEW S \in SUBSET Tab, NEW E \in SUBSET Tab, NEW d, NEW n \in Nat,
         Cardinality(A) <= DraftLimit
  PROVE  Within(A, S, E, d, n)
<1> SUFFICES ASSUME NEW T \in SUBSET E
             PROVE  Cardinality(A \ UNION {d[t] : t \in T}) <= DraftLimit + Cardinality(S \ T) + n
  BY DEF Within
<1>1. /\ A \ UNION {d[t] : t \in T} \in SUBSET A /\ A \ UNION {d[t] : t \in T} \in SUBSET Key
      /\ S \ T \in SUBSET Tab
  OBVIOUS
<1> DEFINE X == A \ UNION {d[t] : t \in T}
<1> HIDE DEF X
<1>2. /\ Cardinality(X) <= Cardinality(A) /\ Cardinality(X) \in Nat /\ Cardinality(A) \in Nat
      /\ Cardinality(S \ T) \in Nat
  BY <1>1, KeysAndTabs DEF X
<1> QED
  BY <1>2, DraftsAssumption DEF X

\* A tab that finds what is over the limit decides to leave what is within it.
LEMMA WithinFound ==
  ASSUME NEW A \in SUBSET Key, NEW S \in SUBSET Tab, NEW E \in SUBSET S, NEW d, NEW n \in Nat,
         Within(A, S, E, d, n), NEW t \in Tab, NEW e, \A u \in E \ {t} : e[u] = d[u],
         Cardinality(A \ e[t]) <= DraftLimit, t \notin E
  PROVE  Within(A, S, E \cup {t}, e, n)
<1> SUFFICES ASSUME NEW T \in SUBSET (E \cup {t})
             PROVE  Cardinality(A \ UNION {e[u] : u \in T}) <= DraftLimit + Cardinality(S \ T) + n
  BY DEF Within
<1>1. CASE t \in T
  <2> DEFINE X == A \ UNION {e[u] : u \in T}
  <2>1. X \in SUBSET (A \ e[t]) /\ A \ e[t] \in SUBSET Key /\ X \in SUBSET Key /\ S \ T \in SUBSET Tab
    BY <1>1
  <2> HIDE DEF X
  <2>2. /\ Cardinality(X) <= Cardinality(A \ e[t])
        /\ Cardinality(X) \in Nat /\ Cardinality(A \ e[t]) \in Nat /\ Cardinality(S \ T) \in Nat
    BY <2>1, KeysAndTabs
  <2> QED
    BY <2>2, DraftsAssumption DEF X
<1>2. CASE t \notin T
  <2>1. T \in SUBSET E /\ UNION {e[u] : u \in T} = UNION {d[u] : u \in T}
    BY <1>2
  <2> QED
    BY <2>1 DEF Within
<1> QED
  BY <1>1, <1>2

-----------------------------------------------------------------------------

\* Nothing is put.
Shrinks == \A o \in Owner, k \in Key : draft'[o][k] \in {draft[o][k], Absent}

\* Nobody comes to write, and who writes still has the time of its save.
NoNewWriter ==
  \A t \in Tab : Writing(t)' =>
    /\ Writing(t) /\ target'[t] = target[t]
    /\ mine'[t].updatedAt = mine[t].updatedAt /\ mine'[t].createdAt # 0

\* A tab has decided nothing, or what it had decided before about drafts that are the same.
KeepsDecision(t) ==
  stage'[t] \in {"enforcing", "expired", "deleting"} =>
    /\ t \notin overtaken
    /\ stage'[t] = stage[t] \/ (stage[t] = "expired" /\ stage'[t] = "deleting")
    /\ target'[t] = target[t] /\ drop'[t] = drop[t] /\ asked'[t] = asked[t]
    /\ \A o \in Owner : target[t][1] = o => draft'[o] = draft[o] \/ Stored(o)' = {}

\* The other tabs are where they were.
Others(t) ==
  \A u \in Tab \ {t} :
    /\ stage'[u] = stage[u] /\ target'[u] = target[u] /\ mine'[u] = mine[u]
    /\ drop'[u] = drop[u] /\ asked'[u] = asked[u]

\* A step that only takes drafts away changes none that stays.
LEMMA StoredShrinks ==
  ASSUME Shrinks, NEW o \in Owner
  PROVE  \A k \in Stored(o)' : k \in Stored(o) /\ draft'[o][k] = draft[o][k]
BY DEF Shrinks, Stored

\* Fewer drafts, and no new writer, have different times as before.
LEMMA TimesKept ==
  ASSUME TimesDiffer, Shrinks, NoNewWriter
  PROVE  TimesDiffer'
<1>1. \A o \in Owner : \A k \in Stored(o)' : k \in Stored(o) /\ draft'[o][k] = draft[o][k]
  BY StoredShrinks
<1> QED
  BY <1>1 DEF TimesDiffer, NoNewWriter

\* What is stored or on its way stays after the last logout if drafts only go.
LEMMA LogoutKept ==
  ASSUME DraftsTyped, AfterLogout, Shrinks, NoNewWriter, clock \in Nat, clock' \in Nat, clock <= clock',
         UNCHANGED <<loggedOut, spared>>
  PROVE  AfterLogout'
<1>1. \A o \in Owner : \A k \in Stored(o)' : k \in Stored(o) /\ draft'[o][k] = draft[o][k]
  BY StoredShrinks
<1>2. \A o \in Owner : loggedOut[o] \in Nat
  BY DraftsAssumption DEF DraftsTyped, DraftsTypeOK
<1>3. \A t \in Tab, o \in Owner :
        At(t, "reading", o)' \/ At(t, "putting", o)' =>
          /\ At(t, "reading", o) \/ At(t, "putting", o)
          /\ mine'[t].updatedAt = mine[t].updatedAt
  BY DEF NoNewWriter, At, Writing
<1>4. \A o \in Owner : \A n : Spared(o, n)' <=> Spared(o, n)
  BY DEF Spared
<1>5. \A o \in Owner : loggedOut'[o] <= clock'
  BY <1>2 DEF AfterLogout
<1>6. \A o \in Owner : \A k \in Stored(o)' : Spared(o, draft'[o][k].updatedAt)
  BY <1>1 DEF AfterLogout
<1>7. \A t \in Tab, o \in Owner :
        At(t, "reading", o)' \/ At(t, "putting", o)' => Spared(o, mine'[t].updatedAt)
  BY <1>3 DEF AfterLogout
<1> QED
  BY <1>5, <1>6, <1>7 DEF AfterLogout, Spared

\* What Saving, Enforcing and Active are.
LEMMA Sets ==
  ASSUME DraftsTyped, NEW o \in Owner
  PROVE  /\ Active(o) \in SUBSET Key /\ Saving(o) \in SUBSET Tab /\ Enforcing(o) \in SUBSET Saving(o)
         /\ torn[o] \in Nat
BY DraftsAssumption DEF DraftsTyped, DraftsTypeOK, Active, Stored, Saving, Enforcing

\* The limit is kept by a step that only takes drafts away and adds nobody who deletes.
LEMMA LimitStays ==
  ASSUME DraftsTyped, LimitKept, Shrinks, aged \subseteq aged', UNCHANGED torn,
         \A o \in Owner : Saving(o) \in SUBSET Saving(o)' /\ Saving(o)' \in SUBSET Tab,
         \A o \in Owner : \A t \in Enforcing(o)' : t \in Enforcing(o) /\ drop'[t] = drop[t]
  PROVE  LimitKept'
<1> SUFFICES ASSUME NEW o \in Owner
             PROVE  Within(Active(o)', Saving(o)', Enforcing(o)', drop', torn'[o])
  BY DEF LimitKept, Within
<1>1. Active(o)' \subseteq Active(o)
  BY StoredShrinks DEF Active, IsExpired
<1>2. Within(Active(o), Saving(o), Enforcing(o), drop, torn[o])
  BY DEF LimitKept
<1>3. Enforcing(o)' \in SUBSET Enforcing(o) /\ torn'[o] = torn[o]
  OBVIOUS
<1> QED
  BY <1>1, <1>2, <1>3, Sets, WithinLess

\* What a tab has decided stays right while the drafts it decided on stay.
LEMMA DecisionStays ==
  ASSUME NEW t \in Tab, DecisionsHold, KeepsDecision(t), aged \subseteq aged'
  PROVE  Decided(t)'
<1> SUFFICES ASSUME NEW o \in Owner, stage'[t] \in {"enforcing", "expired", "deleting"},
                    target'[t][1] = o
             PROVE  /\ stage'[t] = "enforcing" =>
                         \A k \in drop'[t] \cap Stored(o)' :
                           Cardinality(Newer(o, k, Stored(o))') >= DraftLimit
                    /\ stage'[t] \in {"expired", "deleting"} /\ ~asked'[t] =>
                         \A k \in Stored(o)' : target'[t] = <<o, k>> => IsExpired(o, k)'
  BY DEF Decided, At
<1>1. /\ Decided(t) /\ target[t][1] = o /\ drop'[t] = drop[t] /\ asked'[t] = asked[t]
      /\ target'[t] = target[t]
      /\ stage'[t] = stage[t] \/ (stage[t] = "expired" /\ stage'[t] = "deleting")
      /\ draft'[o] = draft[o] \/ Stored(o)' = {}
  BY DEF KeepsDecision, DecisionsHold
<1>2. CASE Stored(o)' = {}
  BY <1>2
<1>3. CASE draft'[o] = draft[o]
  <2>1. Stored(o)' = Stored(o) /\ \A k : Newer(o, k, Stored(o))' = Newer(o, k, Stored(o))
    BY <1>3 DEF Stored, Newer
  <2>2. \A k : IsExpired(o, k) => IsExpired(o, k)'
    BY <1>3 DEF IsExpired
  <2> QED
    BY <1>1, <2>1, <2>2 DEF Decided, At
<1> QED
  BY <1>1, <1>2, <1>3

\* The types of drafts and of what tabs hold outlast a step that adds no writer.
LEMMA TypedStays ==
  ASSUME DraftsTyped, DraftsTypeOK', UNCHANGED torn, clock <= clock',
         \A t \in Tab : stage'[t] # "idle" => target'[t] \in Owner \X Key,
         \A o \in Owner : Busy(o)' \in SUBSET Busy(o)
  PROVE  DraftsTyped'
<1> SUFFICES ASSUME NEW o \in Owner PROVE torn'[o] + Cardinality(Busy(o)') <= clock'
  BY DEF DraftsTyped
<1>1. Busy(o) \in SUBSET Tab /\ Busy(o)' \in SUBSET Busy(o) /\ Busy(o)' \in SUBSET Tab
  BY DEF Busy
<1>2. /\ Cardinality(Busy(o)') <= Cardinality(Busy(o))
      /\ Cardinality(Busy(o)) \in Nat /\ Cardinality(Busy(o)') \in Nat
  BY <1>1, KeysAndTabs
<1>3. torn'[o] = torn[o] /\ torn[o] \in Nat /\ clock \in Nat /\ clock' \in Nat
      /\ torn[o] + Cardinality(Busy(o)) <= clock
  BY DraftsAssumption DEF DraftsTyped, DraftsTypeOK
<1> QED
  BY <1>2, <1>3

\* A tab that finishes, or goes on.
LEMMA Finishes ==
  ASSUME DraftsTypeOK, NEW t \in Tab, Finish(t)
  PROVE  /\ Others(t) /\ stage'[t] = "idle" /\ drop'[t] = {} /\ asked'[t] = FALSE
         /\ stage' \in [Tab -> Step]
         /\ target' \in [Tab -> (Owner \X Key) \cup {Nowhere}]
         /\ mine' \in [Tab -> [updatedAt : 0..clock, createdAt : 0..clock]]
         /\ drop' \in [Tab -> SUBSET Key] /\ asked' \in [Tab -> BOOLEAN]
BY DraftsAssumption DEF Finish, Others, DraftsTypeOK, Absent, Step

\* A tab that moves to its next step leaves the others, and its own times, alone.
LEMMA MovesOn ==
  ASSUME DraftsTypeOK, NEW t \in Tab, NEW s \in Step, MoveTo(t, s)
  PROVE  /\ Others(t) /\ stage'[t] = s /\ stage' \in [Tab -> Step]
         /\ UNCHANGED <<target, mine, drop, asked>>
BY DEF MoveTo, Others, DraftsTypeOK

\* The parts of the invariant that speak of tabs, when one tab moves and its decision,
\* if it has one, was made before.
LEMMA OneTab ==
  ASSUME DraftsInv, NEW t \in Tab, Others(t), NEW o \in Owner,
         \A o2 \in Owner \ {o} : draft'[o2] = draft[o2],
         Overtake(t, o) \subseteq overtaken' \/ draft'[o] = draft[o], overtaken \subseteq overtaken' \cup {t}
  PROVE  \A u \in Tab \ ({t} \cup overtaken') : KeepsDecision(u)
<1> SUFFICES ASSUME NEW u \in Tab \ ({t} \cup overtaken'),
                    stage[u] \in {"enforcing", "expired", "deleting"}
             PROVE  \A o2 \in Owner : target[u][1] = o2 => draft'[o2] = draft[o2]
  BY DEF Others, KeepsDecision
<1> QED
  BY DEF Overtake, At

\* A save takes a time that no draft and no other save has.
LEMMA StepSaveBegins ==
  ASSUME DraftsInv, NEW t \in Tab, NEW o \in Owner, NEW k \in Key, SaveBegins(t, o, k)
  PROVE  DraftsInv'
<1>1. /\ DraftsTypeOK /\ clock \in Nat /\ clock' = clock + 1 /\ clock' \in 0..MaxSaves
      /\ UNCHANGED <<draft, aged, drop, asked, overtaken, torn, loggedOut, spared>>
      /\ stage[t] = "idle"
  BY DraftsAssumption DEF SaveBegins, past, DraftsInv, DraftsTyped, DraftsTypeOK
<1>2. /\ Others(t) /\ stage'[t] = "reading" /\ target'[t] = <<o, k>>
      /\ mine'[t].updatedAt = clock + 1 /\ mine'[t].createdAt = clock + 1
      /\ stage' \in [Tab -> Step]
      /\ target' \in [Tab -> (Owner \X Key) \cup {Nowhere}]
  BY <1>1 DEF SaveBegins, Others, DraftsTypeOK, Step
<1>3. DraftsTypeOK'
  <2>1. mine' \in [Tab -> [updatedAt : 0..clock', createdAt : 0..clock']]
    <3>1. mine \in [Tab -> [updatedAt : 0..clock', createdAt : 0..clock']]
      BY <1>1 DEF DraftsTypeOK
    <3>2. [updatedAt |-> clock + 1, createdAt |-> clock + 1] \in [updatedAt : 0..clock', createdAt : 0..clock']
      BY <1>1
    <3> QED
      BY <3>1, <3>2 DEF SaveBegins
  <2>2. draft' \in [Owner -> [Key -> [updatedAt : 0..clock', createdAt : 0..clock']]]
    BY <1>1 DEF DraftsTypeOK
  <2>3. \A o2 \in Owner : \A k2 \in Stored(o2)' :
          draft'[o2][k2].createdAt # 0 /\ draft'[o2][k2].updatedAt # 0
    BY <1>1 DEF DraftsTypeOK, Stored
  <2>4. aged' \subseteq 1..clock'
    BY <1>1 DEF DraftsTypeOK
  <2> QED
    BY <1>1, <1>2, <2>1, <2>2, <2>3, <2>4 DEF DraftsTypeOK
<1>4. DraftsTyped'
  <2>1. ASSUME NEW u \in Tab, stage'[u] # "idle"  PROVE  target'[u] \in Owner \X Key
    <3>1. CASE u = t
      BY <1>2, <3>1
    <3>2. CASE u # t
      <4>1. stage'[u] = stage[u] /\ target'[u] = target[u]
        BY <1>2, <3>2 DEF Others
      <4> QED
        BY <2>1, <4>1 DEF DraftsInv, DraftsTyped
    <3> QED
      BY <3>1, <3>2
  <2>2. ASSUME NEW o2 \in Owner PROVE torn'[o2] + Cardinality(Busy(o2)') <= clock'
    <3>1. Busy(o2)' \in SUBSET (Busy(o2) \cup {t}) /\ Busy(o2) \in SUBSET Tab /\ t \notin Busy(o2)
      BY <1>1, <1>2 DEF Busy, Others
    <3>2. /\ Busy(o2) \cup {t} \in SUBSET Tab /\ Busy(o2)' \in SUBSET Tab
          /\ Cardinality(Busy(o2) \cup {t}) = Cardinality(Busy(o2)) + 1
          /\ Cardinality(Busy(o2)) \in Nat
      BY <3>1, KeysAndTabs, FS_AddElement
    <3>3. /\ Cardinality(Busy(o2)') <= Cardinality(Busy(o2) \cup {t}) /\ Cardinality(Busy(o2)') \in Nat
      BY <3>1, <3>2, KeysAndTabs
    <3>4. torn'[o2] = torn[o2] /\ torn[o2] \in Nat /\ torn[o2] + Cardinality(Busy(o2)) <= clock
      BY <1>1, DraftsAssumption DEF DraftsInv, DraftsTyped, DraftsTypeOK
    <3> QED
      BY <1>1, <3>2, <3>3, <3>4
  <2> QED
    BY <1>3, <2>1, <2>2 DEF DraftsTyped
<1>5. TimesDiffer'
  <2>1. /\ \A o2 \in Owner : \A k2 \in Stored(o2) : draft[o2][k2].updatedAt \in 0..clock
        /\ \A u \in Tab : mine[u].updatedAt \in 0..clock
    BY <1>1 DEF DraftsTypeOK, Stored
  <2>2. \A o2 \in Owner : Stored(o2)' = Stored(o2)
    BY <1>1 DEF Stored
  <2>3. \A u \in Tab \ {t} : Writing(u)' => Writing(u) /\ mine'[u] = mine[u]
    BY <1>2 DEF Others, Writing
  <2>4. \A n \in 0..clock : n # clock + 1
    BY <1>1
  <2> QED
    BY <1>1, <1>2, <2>1, <2>2, <2>3, <2>4 DEF DraftsInv, TimesDiffer
<1>6. AfterLogout'
  <2>1. \A o2 \in Owner : loggedOut[o2] \in Nat /\ loggedOut[o2] <= clock
    BY <1>1, DraftsAssumption DEF DraftsInv, AfterLogout, DraftsTypeOK
  <2>2. \A o2 \in Owner : loggedOut'[o2] <= clock' /\ Spared(o2, clock + 1)
    BY <1>1, <2>1 DEF Spared
  <2>4. ASSUME NEW u \in Tab, NEW o2 \in Owner, At(u, "reading", o2)' \/ At(u, "putting", o2)'
        PROVE  Spared(o2, mine'[u].updatedAt)
    <3>1. CASE u = t
      BY <1>2, <2>2, <3>1
    <3>2. CASE u # t
      BY <1>2, <2>4, <3>2 DEF Others, At, DraftsInv, AfterLogout
    <3> QED
      BY <3>1, <3>2
  <2>5. \A o2 \in Owner : \A k2 \in Stored(o2)' : Spared(o2, draft'[o2][k2].updatedAt)
    BY <1>1 DEF DraftsInv, AfterLogout, Stored
  <2> QED
    BY <1>1, <2>2, <2>4, <2>5 DEF AfterLogout, Spared
<1>7. LimitKept'
  <2>1. \A o2 \in Owner : Saving(o2)' = Saving(o2) /\ Enforcing(o2)' = Enforcing(o2)
    BY <1>1, <1>2 DEF Saving, Enforcing, At, Others
  <2> QED
    BY <1>1, <2>1, LimitStays, Sets DEF DraftsInv, Shrinks
<1>8. DecisionsHold'
  <2>1. KeepsDecision(t)
    BY <1>2 DEF KeepsDecision
  <2>2. \A u \in Tab \ ({t} \cup overtaken') : KeepsDecision(u)
    BY <1>1, <1>2, OneTab
  <2> QED
    BY <1>1, <2>1, <2>2, DecisionStays DEF DraftsInv, DecisionsHold
<1> QED
  BY <1>4, <1>5, <1>6, <1>7, <1>8 DEF DraftsInv

\* A step that puts nothing, of a tab that finishes or goes on.
LEMMA StepMoves ==
  ASSUME DraftsInv, NEW t \in Tab, Others(t), DraftsTypeOK', Shrinks, NoNewWriter,
         UNCHANGED <<clock, loggedOut, spared, torn>>, aged \subseteq aged',
         stage'[t] # "idle" => target'[t] \in Owner \X Key,
         \A o \in Owner : Busy(o)' \in SUBSET Busy(o),
         LimitKept',
         t \in overtaken' \/ Decided(t)',
         \A u \in Tab \ ({t} \cup overtaken') : KeepsDecision(u)
  PROVE  DraftsInv'
<1>1. clock \in Nat /\ clock <= clock' /\ clock' \in Nat
  BY DraftsAssumption DEF DraftsInv, DraftsTyped, DraftsTypeOK
<1>2. \A u \in Tab : stage'[u] # "idle" => target'[u] \in Owner \X Key
  BY DEF Others, DraftsInv, DraftsTyped
<1>3. DraftsTyped'
  BY <1>1, <1>2, TypedStays DEF DraftsInv
<1>4. TimesDiffer' /\ AfterLogout'
  BY <1>1, TimesKept, LogoutKept DEF DraftsInv
<1>5. DecisionsHold'
  BY DecisionStays DEF DraftsInv, DecisionsHold
<1> QED
  BY <1>3, <1>4, <1>5 DEF DraftsInv

\* A save that has read knows whether its draft is new.
LEMMA StepSaveReads ==
  ASSUME DraftsInv, NEW t \in Tab, NEW o \in Owner, NEW k \in Key, SaveReads(t, o, k)
  PROVE  DraftsInv'
<1>1. /\ DraftsTypeOK /\ stage[t] = "reading" /\ target[t] = <<o, k>>
      /\ UNCHANGED <<draft, aged, clock, target, drop, asked, overtaken, torn, loggedOut, spared>>
  BY DEF SaveReads, past, DraftsInv, DraftsTyped
<1>2. /\ Others(t) /\ stage'[t] = "putting" /\ stage' \in [Tab -> Step]
      /\ mine'[t].updatedAt = mine[t].updatedAt
      /\ mine'[t].createdAt \in {mine[t].createdAt, draft[o][k].createdAt}
      /\ k \in Stored(o) \/ mine'[t].createdAt = mine[t].createdAt
  BY <1>1 DEF SaveReads, Others, DraftsTypeOK, Step
<1>3. DraftsTypeOK'
  <2>1. mine' \in [Tab -> [updatedAt : 0..clock, createdAt : 0..clock]]
    BY <1>1 DEF SaveReads, DraftsTypeOK
  <2> QED
    BY <1>1, <1>2, <2>1 DEF DraftsTypeOK, Stored
<1>4. Shrinks /\ NoNewWriter
  <2>1. mine'[t].createdAt # 0
    BY <1>1, <1>2 DEF DraftsTypeOK, DraftsInv, TimesDiffer, Writing
  <2> QED
    BY <1>1, <1>2, <2>1 DEF Shrinks, NoNewWriter, Others, Writing, DraftsInv, TimesDiffer
<1>5. /\ \A o2 \in Owner : Busy(o2)' \in SUBSET Busy(o2)
      /\ \A o2 \in Owner : Saving(o2)' = Saving(o2) /\ Enforcing(o2)' = Enforcing(o2)
  BY <1>1, <1>2 DEF Busy, Saving, Enforcing, At, Others
<1>6. LimitKept'
  BY <1>1, <1>4, <1>5, LimitStays, Sets DEF DraftsInv
<1>7. /\ KeepsDecision(t)
      /\ \A u \in Tab \ ({t} \cup overtaken') : KeepsDecision(u)
  BY <1>1, <1>2, OneTab DEF KeepsDecision
<1>8. t \in overtaken' \/ Decided(t)'
  BY <1>1, <1>7, DecisionStays DEF DraftsInv
<1>9. target'[t] \in Owner \X Key
  BY <1>1
<1> QED
  BY <1>1, <1>2, <1>3, <1>4, <1>5, <1>6, <1>7, <1>8, <1>9, StepMoves

\* A get that finds an expired draft decides to delete it.
LEMMA StepGetReads ==
  ASSUME DraftsInv, NEW t \in Tab, NEW o \in Owner, NEW k \in Key, GetReads(t, o, k)
  PROVE  DraftsInv'
<1>1. /\ DraftsTypeOK /\ stage[t] = "idle" /\ k \in Stored(o) /\ IsExpired(o, k)
      /\ UNCHANGED <<draft, aged, clock, mine, drop, asked, overtaken, torn, loggedOut, spared>>
  BY DEF GetReads, past, DraftsInv, DraftsTyped
<1>2. /\ Others(t) /\ stage'[t] = "expired" /\ target'[t] = <<o, k>>
      /\ stage' \in [Tab -> Step] /\ target' \in [Tab -> (Owner \X Key) \cup {Nowhere}]
  BY <1>1 DEF GetReads, Others, DraftsTypeOK, Step
<1>3. DraftsTypeOK'
  BY <1>1, <1>2 DEF DraftsTypeOK, Stored
<1>4. Shrinks /\ NoNewWriter
  BY <1>1, <1>2 DEF Shrinks, NoNewWriter, Others, Writing, DraftsInv, TimesDiffer
<1>5. /\ \A o2 \in Owner : Busy(o2)' \in SUBSET Busy(o2)
      /\ \A o2 \in Owner : Saving(o2)' = Saving(o2) /\ Enforcing(o2)' = Enforcing(o2)
  BY <1>1, <1>2 DEF Busy, Saving, Enforcing, At, Others
<1>6. LimitKept'
  BY <1>1, <1>4, <1>5, LimitStays, Sets DEF DraftsInv
<1>7. \A u \in Tab \ ({t} \cup overtaken') : KeepsDecision(u)
  BY <1>1, <1>2, OneTab
<1>8. Decided(t)'
  BY <1>1, <1>2 DEF Decided, At, Stored, IsExpired
<1>9. target'[t] \in Owner \X Key
  BY <1>2
<1> QED
  BY <1>1, <1>2, <1>3, <1>4, <1>5, <1>6, <1>7, <1>8, <1>9, StepMoves

\* A delete that has read knows the draft it will take.
LEMMA StepDeleteReads ==
  ASSUME DraftsInv, NEW t \in Tab, NEW o \in Owner, NEW k \in Key, DeleteReads(t, o, k)
  PROVE  DraftsInv'
<1>1. /\ DraftsTypeOK /\ stage[t] \in {"idle", "expired"}
      /\ UNCHANGED <<draft, aged, clock, mine, drop, torn, loggedOut, spared>>
  BY DEF DeleteReads, DraftsInv, DraftsTyped
<1>2. /\ Others(t) /\ stage'[t] \in {"idle", "deleting"}
      /\ asked' \in [Tab -> BOOLEAN] /\ overtaken' \subseteq Tab
      /\ stage' \in [Tab -> Step] /\ target' \in [Tab -> (Owner \X Key) \cup {Nowhere}]
      /\ stage'[t] # "idle" => target'[t] = <<o, k>> /\ overtaken' = overtaken
      /\ stage'[t] # "idle" => asked'[t] \/ (stage[t] = "expired" /\ target'[t] = target[t])
      /\ stage[t] = "expired" => asked'[t] = asked[t]
      /\ overtaken \subseteq overtaken' \cup {t}
  <2>1. PICK s \in {"idle", "deleting"}, g \in (Owner \X Key) \cup {Nowhere} :
          /\ stage' = [stage EXCEPT ![t] = s] /\ target' = [target EXCEPT ![t] = g]
          /\ s # "idle" => g = <<o, k>> /\ overtaken' = overtaken
          /\ overtaken' \subseteq overtaken /\ overtaken \subseteq overtaken' \cup {t}
    BY DEF DeleteReads
  <2>2. PICK a \in BOOLEAN :
          /\ asked' = [asked EXCEPT ![t] = a]
          /\ a \/ (stage[t] = "expired" /\ target[t] = <<o, k>>)
          /\ stage[t] = "expired" => a = asked[t]
    <3>1. CASE stage[t] = "idle" /\ asked' = [asked EXCEPT ![t] = TRUE]
      BY <3>1
    <3>2. CASE stage[t] = "expired" /\ target[t] = <<o, k>> /\ asked' = asked
      BY <1>1, <3>2 DEF DraftsTypeOK
    <3> QED
      BY <3>1, <3>2 DEF DeleteReads
  <2>3. stage \in [Tab -> Step] /\ target \in [Tab -> (Owner \X Key) \cup {Nowhere}]
        /\ asked \in [Tab -> BOOLEAN] /\ overtaken \subseteq Tab
    BY <1>1 DEF DraftsTypeOK
  <2>4. /\ stage'[t] = s /\ target'[t] = g /\ asked'[t] = a
        /\ stage' \in [Tab -> Step] /\ target' \in [Tab -> (Owner \X Key) \cup {Nowhere}]
        /\ asked' \in [Tab -> BOOLEAN] /\ Others(t)
    BY <1>1, <2>1, <2>2, <2>3 DEF Others, Step
  <2> QED
    BY <2>1, <2>2, <2>3, <2>4
<1>3. DraftsTypeOK'
  BY <1>1, <1>2 DEF DraftsTypeOK, Stored
<1>4. Shrinks /\ NoNewWriter
  BY <1>1, <1>2 DEF Shrinks, NoNewWriter, Others, Writing, DraftsInv, TimesDiffer
<1>5. /\ \A o2 \in Owner : Busy(o2)' \in SUBSET Busy(o2)
      /\ \A o2 \in Owner : Saving(o2)' = Saving(o2) /\ Enforcing(o2)' = Enforcing(o2)
  BY <1>1, <1>2 DEF Busy, Saving, Enforcing, At, Others
<1>6. LimitKept'
  BY <1>1, <1>4, <1>5, LimitStays, Sets DEF DraftsInv
<1>7. \A u \in Tab \ ({t} \cup overtaken') : KeepsDecision(u)
  BY <1>1, <1>2, OneTab
<1>8. t \in overtaken' \/ Decided(t)'
  <2>1. CASE stage'[t] = "idle" \/ asked'[t]
    BY <1>2, <2>1 DEF Decided, At
  <2>2. CASE stage'[t] # "idle" /\ ~asked'[t]
    <3>1. t \in overtaken \/ KeepsDecision(t)
      BY <1>1, <1>2, <2>2 DEF KeepsDecision
    <3> QED
      BY <1>1, <1>2, <2>2, <3>1, DecisionStays DEF DraftsInv
  <2> QED
    BY <2>1, <2>2
<1>9. stage'[t] # "idle" => target'[t] \in Owner \X Key
  BY <1>2
<1> QED
  BY <1>1, <1>2, <1>3, <1>4, <1>5, <1>6, <1>7, <1>8, <1>9, StepMoves

\* A delete takes whatever is stored under its key by then.
LEMMA StepDeleteDeletes ==
  ASSUME DraftsInv, NEW t \in Tab, NEW o \in Owner, NEW k \in Key, DeleteDeletes(t, o, k)
  PROVE  DraftsInv'
<1>1. /\ DraftsTypeOK /\ stage[t] = "deleting" /\ draft' = [draft EXCEPT ![o][k] = Absent]
      /\ overtaken' = (overtaken \cup Overtake(t, o)) \ {t} /\ Finish(t)
      /\ UNCHANGED <<aged, clock, torn, loggedOut, spared>>
  BY DEF DeleteDeletes, DraftsInv, DraftsTyped
<1>2. /\ Others(t) /\ stage'[t] = "idle" /\ stage' \in [Tab -> Step]
      /\ target' \in [Tab -> (Owner \X Key) \cup {Nowhere}]
      /\ mine' \in [Tab -> [updatedAt : 0..clock, createdAt : 0..clock]]
      /\ drop' \in [Tab -> SUBSET Key] /\ asked' \in [Tab -> BOOLEAN]
  BY <1>1, Finishes
<1>3. /\ Shrinks /\ \A o2 \in Owner \ {o} : draft'[o2] = draft[o2]
      /\ draft' \in [Owner -> [Key -> [updatedAt : 0..clock, createdAt : 0..clock]]]
  BY <1>1, DraftsAssumption DEF Shrinks, Absent, DraftsTypeOK
<1>4. DraftsTypeOK'
  <2>1. \A o2 \in Owner : \A k2 \in Stored(o2)' :
          draft'[o2][k2].createdAt # 0 /\ draft'[o2][k2].updatedAt # 0
    BY <1>1, <1>3, StoredShrinks DEF DraftsTypeOK
  <2>2. overtaken' \subseteq Tab
    BY <1>1 DEF DraftsTypeOK, Overtake
  <2> QED
    BY <1>1, <1>2, <1>3, <2>1, <2>2 DEF DraftsTypeOK
<1>5. NoNewWriter
  BY <1>1, <1>2 DEF NoNewWriter, Others, Writing, DraftsInv, TimesDiffer
<1>6. /\ \A o2 \in Owner : Busy(o2)' \in SUBSET Busy(o2)
      /\ \A o2 \in Owner : Saving(o2)' = Saving(o2) /\ Enforcing(o2)' = Enforcing(o2)
      /\ \A o2 \in Owner : \A u \in Enforcing(o2) : drop'[u] = drop[u]
  BY <1>1, <1>2 DEF Busy, Saving, Enforcing, At, Others
<1>7. LimitKept'
  BY <1>1, <1>3, <1>6, LimitStays, Sets DEF DraftsInv
<1>8. \A u \in Tab \ ({t} \cup overtaken') : KeepsDecision(u)
  <2>1. Overtake(t, o) \subseteq overtaken' /\ overtaken \subseteq overtaken' \cup {t}
    BY <1>1 DEF Overtake
  <2> QED
    BY <1>2, <1>3, <2>1, OneTab
<1>9. Decided(t)'
  BY <1>2 DEF Decided, At
<1> QED
  BY <1>1, <1>2, <1>3, <1>4, <1>5, <1>6, <1>7, <1>8, <1>9, StepMoves

\* A save stores its draft, which may be one too many until its tab enforces the limit.
LEMMA StepSavePuts ==
  ASSUME DraftsInv, NEW t \in Tab, NEW o \in Owner, NEW k \in Key, SavePuts(t, o, k)
  PROVE  DraftsInv'
<1>1. /\ DraftsTypeOK /\ stage[t] = "putting" /\ target[t] = <<o, k>>
      /\ draft' = [draft EXCEPT ![o][k] = mine[t]]
      /\ overtaken' = overtaken \cup Overtake(t, o) /\ MoveTo(t, "pruning")
      /\ UNCHANGED <<aged, clock, torn, loggedOut, spared>>
  BY DEF SavePuts, DraftsInv, DraftsTyped
<1>2. /\ Others(t) /\ stage'[t] = "pruning" /\ stage' \in [Tab -> Step]
      /\ UNCHANGED <<target, mine, drop, asked>>
  BY <1>1, MovesOn DEF Step
<1>3. /\ draft'[o][k] = mine[t] /\ \A k2 \in Key \ {k} : draft'[o][k2] = draft[o][k2]
      /\ \A o2 \in Owner \ {o} : draft'[o2] = draft[o2]
      /\ mine[t] \in [updatedAt : 0..clock, createdAt : 0..clock]
      /\ mine[t].updatedAt # 0 /\ mine[t].createdAt # 0
  BY <1>1 DEF DraftsTypeOK, DraftsInv, TimesDiffer, Writing
<1>4. \A o2 \in Owner : \A k2 \in Stored(o2)' :
        \/ o2 = o /\ k2 = k
        \/ k2 \in Stored(o2) /\ draft'[o2][k2] = draft[o2][k2]
  BY <1>3 DEF Stored
<1>5. DraftsTypeOK'
  <2>1. draft' \in [Owner -> [Key -> [updatedAt : 0..clock, createdAt : 0..clock]]]
    BY <1>1, <1>3 DEF DraftsTypeOK
  <2>2. \A o2 \in Owner : \A k2 \in Stored(o2)' :
          draft'[o2][k2].createdAt # 0 /\ draft'[o2][k2].updatedAt # 0
    BY <1>1, <1>3, <1>4 DEF DraftsTypeOK
  <2>3. overtaken' \subseteq Tab
    BY <1>1 DEF DraftsTypeOK, Overtake
  <2> QED
    BY <1>1, <1>2, <2>1, <2>2, <2>3 DEF DraftsTypeOK
<1>6. DraftsTyped'
  <2>1. \A o2 \in Owner : Busy(o2)' \in SUBSET Busy(o2)
    BY <1>1, <1>2 DEF Busy, Others
  <2>2. \A u \in Tab : stage'[u] # "idle" => target'[u] \in Owner \X Key
    BY <1>1, <1>2 DEF Others, DraftsInv, DraftsTyped
  <2>3. clock <= clock'
    BY <1>1, DraftsAssumption DEF DraftsTypeOK
  <2> QED
    BY <1>1, <1>5, <2>1, <2>2, <2>3, TypedStays DEF DraftsInv
<1>7. TimesDiffer'
  <2>1. \A u \in Tab : Writing(u)' => u # t /\ Writing(u) /\ mine'[u] = mine[u]
    BY <1>2 DEF Writing, Others
  <2>2. Writing(t)
    BY <1>1 DEF Writing
  <2>3. \A o2 \in Owner : \A j, k2 \in Stored(o2)' :
          j # k2 => draft'[o2][j].updatedAt # draft'[o2][k2].updatedAt
    BY <1>3, <1>4, <2>2 DEF DraftsInv, TimesDiffer
  <2>4. \A u \in Tab : Writing(u)' =>
          \A o2 \in Owner : \A k2 \in Stored(o2)' : mine[u].updatedAt # draft'[o2][k2].updatedAt
    BY <1>3, <1>4, <2>1, <2>2 DEF DraftsInv, TimesDiffer
  <2> QED
    BY <2>1, <2>3, <2>4 DEF DraftsInv, TimesDiffer
<1>8. AfterLogout'
  <2>1. Spared(o, mine[t].updatedAt)
    BY <1>1 DEF DraftsInv, AfterLogout, At
  <2>2. \A o2 \in Owner : \A k2 \in Stored(o2)' : Spared(o2, draft'[o2][k2].updatedAt)
    BY <1>3, <1>4, <2>1 DEF DraftsInv, AfterLogout
  <2>3. \A u \in Tab, o2 \in Owner :
          At(u, "reading", o2)' \/ At(u, "putting", o2)' => Spared(o2, mine'[u].updatedAt)
    BY <1>1, <1>2 DEF DraftsInv, AfterLogout, At, Others
  <2> QED
    BY <1>1, <2>2, <2>3 DEF DraftsInv, AfterLogout, Spared
<1>9. LimitKept'
  <2> SUFFICES ASSUME NEW o2 \in Owner
               PROVE  Within(Active(o2)', Saving(o2)', Enforcing(o2)', drop', torn'[o2])
    BY DEF LimitKept, Within
  <2>0. Within(Active(o2), Saving(o2), Enforcing(o2), drop, torn[o2])
    BY DEF DraftsInv, LimitKept
  <2>1. CASE o2 = o
    <3>1. Active(o2)' \in SUBSET (Active(o2) \cup {k})
      BY <1>1, <1>4 DEF Active, IsExpired
    <3>2. Saving(o2)' = Saving(o2) \cup {t} /\ t \in Tab \ Saving(o2) /\ Enforcing(o2)' = Enforcing(o2)
      BY <1>1, <1>2, <2>1 DEF Saving, Enforcing, At, Others
    <3> QED
      BY <1>1, <1>2, <2>0, <3>1, <3>2, Sets, WithinPut DEF DraftsInv
  <2>2. CASE o2 # o
    <3>1. Active(o2)' \in SUBSET Active(o2)
      BY <1>1, <1>4, <2>2 DEF Active, IsExpired
    <3>2. Saving(o2)' = Saving(o2) /\ Enforcing(o2)' = Enforcing(o2)
      BY <1>1, <1>2, <2>2 DEF Saving, Enforcing, At, Others
    <3> QED
      BY <1>1, <1>2, <2>0, <3>1, <3>2, Sets, WithinLess DEF DraftsInv
  <2> QED
    BY <2>1, <2>2
<1>10. DecisionsHold'
  <2>1. KeepsDecision(t)
    BY <1>2 DEF KeepsDecision
  <2>2. \A u \in Tab \ ({t} \cup overtaken') : KeepsDecision(u)
    BY <1>1, <1>2, <1>3, OneTab
  <2> QED
    BY <1>1, <2>1, <2>2, DecisionStays DEF DraftsInv, DecisionsHold
<1> QED
  BY <1>6, <1>7, <1>8, <1>9, <1>10 DEF DraftsInv

\* Whoever finds expired drafts overtakes every tab that works for their owners.
LEMMA StepPruneExpired ==
  ASSUME DraftsInv, NEW t \in Tab, PruneExpired(t)
  PROVE  DraftsInv'
<1>1. /\ DraftsTypeOK /\ stage[t] = "pruning"
      /\ draft' = [o \in Owner |-> [k \in Key |-> IF IsExpired(o, k) THEN Absent ELSE draft[o][k]]]
      /\ overtaken' = overtaken \cup
           UNION {Overtake(t, o) : o \in {o2 \in Owner : \E k \in Key : IsExpired(o2, k)}}
      /\ MoveTo(t, "listing")
      /\ UNCHANGED <<aged, clock, torn, loggedOut, spared>>
  BY DEF PruneExpired, DraftsInv, DraftsTyped
<1>2. /\ Others(t) /\ stage'[t] = "listing" /\ stage' \in [Tab -> Step]
      /\ UNCHANGED <<target, mine, drop, asked>>
  BY <1>1, MovesOn DEF Step
<1>3. Shrinks /\ draft' \in [Owner -> [Key -> [updatedAt : 0..clock, createdAt : 0..clock]]]
  BY <1>1, DraftsAssumption DEF Shrinks, Absent, DraftsTypeOK
<1>4. DraftsTypeOK'
  <2>1. \A o2 \in Owner : \A k2 \in Stored(o2)' :
          draft'[o2][k2].createdAt # 0 /\ draft'[o2][k2].updatedAt # 0
    <3>1. \A o2 \in Owner : \A k2 \in Stored(o2)' : k2 \in Stored(o2) /\ draft'[o2][k2] = draft[o2][k2]
      BY <1>3, StoredShrinks
    <3> QED
      BY <3>1 DEF DraftsInv, DraftsTyped, DraftsTypeOK
  <2>2. overtaken' \subseteq Tab
    BY <1>1 DEF DraftsTypeOK, Overtake
  <2> QED
    BY <1>1, <1>2, <1>3, <2>1, <2>2 DEF DraftsTypeOK
<1>5. NoNewWriter
  BY <1>1, <1>2 DEF NoNewWriter, Others, Writing, DraftsInv, TimesDiffer
<1>6. /\ \A o2 \in Owner : Busy(o2)' \in SUBSET Busy(o2)
      /\ \A o2 \in Owner : Saving(o2)' = Saving(o2) /\ Enforcing(o2)' = Enforcing(o2)
  BY <1>1, <1>2 DEF Busy, Saving, Enforcing, At, Others
<1>7. LimitKept'
  BY <1>1, <1>2, <1>3, <1>6, LimitStays, Sets DEF DraftsInv
<1>8. ASSUME NEW u \in Tab \ ({t} \cup overtaken') PROVE KeepsDecision(u)
  <2> SUFFICES ASSUME stage[u] \in {"enforcing", "expired", "deleting"}, NEW o \in Owner,
                      target[u][1] = o
               PROVE  draft'[o] = draft[o]
    BY <1>1, <1>2 DEF Others, KeepsDecision
  <2>1. \A k \in Key : ~IsExpired(o, k)
    <3>1. u \notin Overtake(t, o) => FALSE
      BY DEF Overtake, At
    <3> QED
      BY <1>1, <3>1
  <2>2. draft[o] \in [Key -> [updatedAt : 0..clock, createdAt : 0..clock]]
    BY <1>1 DEF DraftsTypeOK
  <2>3. draft'[o] = [k \in Key |-> draft[o][k]]
    BY <1>1, <2>1
  <2> QED
    BY <2>2, <2>3
<1>9. Decided(t)'
  BY <1>2 DEF Decided, At
<1>10. target'[t] \in Owner \X Key
  BY <1>1, <1>2 DEF DraftsInv, DraftsTyped
<1> QED
  BY <1>1, <1>2, <1>3, <1>4, <1>5, <1>6, <1>7, <1>8, <1>9, <1>10, StepMoves

\* A list by which nothing is over the limit, or by which something is.
LEMMA StepEnforceLists ==
  ASSUME DraftsInv, NEW t \in Tab, NEW o \in Owner, EnforceLists(t, o)
  PROVE  DraftsInv'
<1>1. /\ DraftsTypeOK /\ stage[t] = "listing" /\ target[t][1] = o
      /\ UNCHANGED <<draft, aged, clock, overtaken, torn, loggedOut, spared>>
  BY DEF EnforceLists, At, past, DraftsInv, DraftsTyped
<1>2. OverLimit(o) \subseteq Active(o) /\ Active(o) \in SUBSET Key
  BY DEF OverLimit, Active, Stored
<1>3. Cardinality(Active(o) \ OverLimit(o)) <= DraftLimit
  <2> DEFINE f == [k \in Key |-> draft[o][k].updatedAt]
  <2>1. \A k \in Active(o) : f[k] \in Nat /\ f[k] = draft[o][k].updatedAt
    BY <1>1, DraftsAssumption DEF DraftsTypeOK, Active, Stored
  <2>2. \A j, k \in Active(o) : j # k => f[j] # f[k]
    BY <2>1 DEF DraftsInv, TimesDiffer, Active
  <2> DEFINE K == {k \in Active(o) : ~(Cardinality({j \in Active(o) : f[j] > f[k]}) >= DraftLimit)}
  <2>3. Cardinality(K) <= DraftLimit
    <3> HIDE DEF f
    <3> QED
      BY <1>2, <2>1, <2>2, NewestAreFew
  <2>4. \A k \in Active(o) : Newer(o, k, Active(o)) = {j \in Active(o) : f[j] > f[k]}
    BY <2>1 DEF Newer
  <2> HIDE DEF f
  <2>5. Active(o) \ OverLimit(o) = K
    BY <2>4 DEF OverLimit
  <2> QED
    BY <2>3, <2>5
<1>4. CASE OverLimit(o) = {}
  <2>1. Finish(t)
    BY <1>4 DEF EnforceLists
  <2>2. /\ Others(t) /\ stage'[t] = "idle" /\ stage' \in [Tab -> Step]
        /\ target' \in [Tab -> (Owner \X Key) \cup {Nowhere}]
        /\ mine' \in [Tab -> [updatedAt : 0..clock, createdAt : 0..clock]]
        /\ drop' \in [Tab -> SUBSET Key] /\ asked' \in [Tab -> BOOLEAN]
    BY <1>1, <2>1, Finishes
  <2>3. DraftsTypeOK'
    BY <1>1, <2>2 DEF DraftsTypeOK, Stored
  <2>4. Shrinks /\ NoNewWriter
    BY <1>1, <2>2 DEF Shrinks, NoNewWriter, Others, Writing, DraftsInv, TimesDiffer
  <2>5. \A o2 \in Owner : Busy(o2)' \in SUBSET Busy(o2)
    BY <2>2 DEF Busy, Others
  <2>6. LimitKept'
    <3> SUFFICES ASSUME NEW o2 \in Owner
                 PROVE  Within(Active(o2)', Saving(o2)', Enforcing(o2)', drop', torn'[o2])
      BY DEF LimitKept, Within
    <3>1. Active(o2)' = Active(o2) /\ torn'[o2] = torn[o2]
      BY <1>1 DEF Active, Stored, IsExpired
    <3>2. CASE o2 = o
      <4>1. Active(o) \ OverLimit(o) = Active(o)
        BY <1>4
      <4>2. Saving(o2)' \in SUBSET Tab /\ Enforcing(o2)' \in SUBSET Tab
        BY DEF Saving, Enforcing
      <4> QED
        BY <1>3, <3>1, <3>2, <4>1, <4>2, Sets, WithinAnyway DEF DraftsInv
    <3>3. CASE o2 # o
      <4>1. /\ Saving(o2)' = Saving(o2) /\ Enforcing(o2)' = Enforcing(o2)
            /\ \A u \in Enforcing(o2) : drop'[u] = drop[u]
        BY <1>1, <2>2, <3>3 DEF Saving, Enforcing, At, Others
      <4>2. Within(Active(o2), Saving(o2), Enforcing(o2), drop, torn[o2])
        BY DEF DraftsInv, LimitKept
      <4> QED
        BY <3>1, <4>1, <4>2, Sets, WithinLess DEF DraftsInv
    <3> QED
      BY <3>2, <3>3
  <2>7. \A u \in Tab \ ({t} \cup overtaken') : KeepsDecision(u)
    BY <1>1, <2>2, OneTab
  <2>8. Decided(t)'
    BY <2>2 DEF Decided, At
  <2> QED
    BY <1>1, <2>2, <2>3, <2>4, <2>5, <2>6, <2>7, <2>8, StepMoves
<1>5. CASE OverLimit(o) # {}
  <2>1. /\ drop' = [drop EXCEPT ![t] = OverLimit(o)] /\ stage' = [stage EXCEPT ![t] = "enforcing"]
        /\ UNCHANGED <<target, mine, asked>>
    BY <1>5 DEF EnforceLists
  <2>2. /\ Others(t) /\ stage'[t] = "enforcing" /\ stage' \in [Tab -> Step]
        /\ drop'[t] = OverLimit(o) /\ drop' \in [Tab -> SUBSET Key]
        /\ \A u \in Tab \ {t} : drop'[u] = drop[u]
    BY <1>1, <1>2, <2>1 DEF Others, DraftsTypeOK, Step
  <2>3. DraftsTypeOK'
    BY <1>1, <2>1, <2>2 DEF DraftsTypeOK, Stored
  <2>4. Shrinks /\ NoNewWriter
    BY <1>1, <2>1, <2>2 DEF Shrinks, NoNewWriter, Others, Writing, DraftsInv, TimesDiffer
  <2>5. \A o2 \in Owner : Busy(o2)' \in SUBSET Busy(o2)
    BY <1>1, <2>1, <2>2 DEF Busy, Others
  <2>6. LimitKept'
    <3> SUFFICES ASSUME NEW o2 \in Owner
                 PROVE  Within(Active(o2)', Saving(o2)', Enforcing(o2)', drop', torn'[o2])
      BY DEF LimitKept, Within
    <3>1. Active(o2)' = Active(o2) /\ torn'[o2] = torn[o2]
      BY <1>1 DEF Active, Stored, IsExpired
    <3>2. Within(Active(o2), Saving(o2), Enforcing(o2), drop, torn[o2])
      BY DEF DraftsInv, LimitKept
    <3>3. Saving(o2)' = Saving(o2) /\ t \notin Enforcing(o2)
      BY <1>1, <2>1, <2>2 DEF Saving, Enforcing, At, Others
    <3>4. CASE o2 = o
      <4>1. Enforcing(o2)' = Enforcing(o2) \cup {t}
        BY <1>1, <2>1, <2>2, <3>4 DEF Enforcing, At, Others
      <4>2. Cardinality(Active(o2) \ drop'[t]) <= DraftLimit
        BY <1>3, <2>2, <3>4
      <4>3. \A u \in Enforcing(o2) \ {t} : drop'[u] = drop[u]
        BY <2>2 DEF Enforcing
      <4> HIDE DEF Within
      <4> QED
        BY <3>1, <3>2, <3>3, <4>1, <4>2, <4>3, Sets, WithinFound DEF DraftsInv
    <3>5. CASE o2 # o
      <4>1. Enforcing(o2)' = Enforcing(o2) /\ \A u \in Enforcing(o2) : drop'[u] = drop[u]
        BY <1>1, <2>1, <2>2, <3>5 DEF Enforcing, At, Others
      <4> QED
        BY <3>1, <3>2, <3>3, <4>1, Sets, WithinLess DEF DraftsInv
    <3> QED
      BY <3>4, <3>5
  <2>7. \A u \in Tab \ ({t} \cup overtaken') : KeepsDecision(u)
    BY <1>1, <2>2, OneTab
  <2>8. Decided(t)'
    <3>1. \A k \in drop'[t] : Cardinality(Newer(o, k, Stored(o))) >= DraftLimit
      <4> SUFFICES ASSUME NEW k \in OverLimit(o)
                   PROVE  Cardinality(Newer(o, k, Stored(o))) >= DraftLimit
        BY <2>2
      <4>1. Cardinality(Newer(o, k, Active(o))) >= DraftLimit
        BY DEF OverLimit
      <4>2. Newer(o, k, Active(o)) \in SUBSET Newer(o, k, Stored(o)) /\ Newer(o, k, Stored(o)) \in SUBSET Key
        BY DEF Newer, Active, Stored
      <4>3. /\ Cardinality(Newer(o, k, Active(o))) <= Cardinality(Newer(o, k, Stored(o)))
            /\ Cardinality(Newer(o, k, Active(o))) \in Nat /\ Cardinality(Newer(o, k, Stored(o))) \in Nat
        BY <4>2, KeysAndTabs
      <4> QED
        BY <4>1, <4>3, DraftsAssumption
    <3>2. Stored(o)' = Stored(o) /\ \A k : Newer(o, k, Stored(o))' = Newer(o, k, Stored(o))
      BY <1>1 DEF Stored, Newer
    <3>3. stage'[t] = "enforcing" /\ target'[t][1] = o
      BY <1>1, <2>1, <2>2
    <3> QED
      BY <3>1, <3>2, <3>3 DEF Decided, At
  <2>9. target'[t] \in Owner \X Key
    BY <1>1, <2>1 DEF DraftsInv, DraftsTyped
  <2> QED
    BY <1>1, <2>2, <2>3, <2>4, <2>5, <2>6, <2>7, <2>8, <2>9, StepMoves
<1> QED
  BY <1>4, <1>5

\* A tab deletes what it listed as too old, whatever is stored by then.
LEMMA StepEnforceDeletes ==
  ASSUME DraftsInv, NEW t \in Tab, NEW o \in Owner, EnforceDeletes(t, o)
  PROVE  DraftsInv'
<1>1. /\ DraftsTypeOK /\ stage[t] = "enforcing" /\ target[t][1] = o
      /\ draft' = [draft EXCEPT ![o] = [k \in Key |-> IF k \in drop[t] THEN Absent ELSE @[k]]]
      /\ overtaken' = (overtaken \cup Overtake(t, o)) \ {t} /\ Finish(t)
      /\ UNCHANGED <<aged, clock, torn, loggedOut, spared>>
  BY DEF EnforceDeletes, At, DraftsInv, DraftsTyped
<1>2. /\ Others(t) /\ stage'[t] = "idle" /\ stage' \in [Tab -> Step]
      /\ target' \in [Tab -> (Owner \X Key) \cup {Nowhere}]
      /\ mine' \in [Tab -> [updatedAt : 0..clock, createdAt : 0..clock]]
      /\ drop' \in [Tab -> SUBSET Key] /\ asked' \in [Tab -> BOOLEAN]
  BY <1>1, Finishes
<1>3. /\ Shrinks /\ \A o2 \in Owner \ {o} : draft'[o2] = draft[o2]
      /\ \A k \in drop[t] \cap Key : draft'[o][k] = Absent
      /\ draft' \in [Owner -> [Key -> [updatedAt : 0..clock, createdAt : 0..clock]]]
  BY <1>1, DraftsAssumption DEF Shrinks, Absent, DraftsTypeOK
<1>4. DraftsTypeOK'
  <2>0. \A o2 \in Owner : \A k2 \in Stored(o2) :
          draft[o2][k2].createdAt # 0 /\ draft[o2][k2].updatedAt # 0
    BY <1>1 DEF DraftsTypeOK
  <2>1. \A o2 \in Owner : \A k2 \in Stored(o2)' :
          draft'[o2][k2].createdAt # 0 /\ draft'[o2][k2].updatedAt # 0
    <3>1. Shrinks
      BY <1>3
    <3>2. \A o2 \in Owner : \A k2 \in Stored(o2)' : k2 \in Stored(o2) /\ draft'[o2][k2] = draft[o2][k2]
      BY <3>1, StoredShrinks
    <3> QED
      BY <2>0, <3>2
  <2>2. overtaken' \subseteq Tab
    BY <1>1 DEF DraftsTypeOK, Overtake
  <2> QED
    BY <1>1, <1>2, <1>3, <2>1, <2>2 DEF DraftsTypeOK
<1>5. NoNewWriter
  BY <1>2 DEF NoNewWriter, Others, Writing, DraftsInv, TimesDiffer
<1>6. \A o2 \in Owner : Busy(o2)' \in SUBSET Busy(o2)
  BY <1>2 DEF Busy, Others
<1>7. LimitKept'
  <2> SUFFICES ASSUME NEW o2 \in Owner
               PROVE  Within(Active(o2)', Saving(o2)', Enforcing(o2)', drop', torn'[o2])
    BY DEF LimitKept, Within
  <2>0. Within(Active(o2), Saving(o2), Enforcing(o2), drop, torn[o2]) /\ torn'[o2] = torn[o2]
    BY <1>1 DEF DraftsInv, LimitKept
  <2>1. Active(o2)' \in SUBSET Active(o2)
    <3>1. Shrinks /\ aged' = aged
      BY <1>1, <1>3
    <3>2. \A k \in Stored(o2)' : k \in Stored(o2) /\ draft'[o2][k] = draft[o2][k]
      BY <3>1, StoredShrinks
    <3> QED
      BY <3>1, <3>2 DEF Active, IsExpired
  <2>2. CASE o2 = o
    <3>1. Active(o2)' \in SUBSET (Active(o2) \ drop[t])
      <4>1. \A k \in drop[t] \cap Key : k \notin Stored(o2)'
        BY <1>3, <2>2 DEF Stored
      <4> QED
        BY <2>1, <4>1 DEF Active, Stored
    <3>2. /\ Saving(o2)' = Saving(o2) \ {t} /\ Enforcing(o2)' = Enforcing(o2) \ {t}
          /\ t \in Enforcing(o2) /\ \A u \in Enforcing(o2) \ {t} : drop'[u] = drop[u]
      BY <1>1, <1>2, <2>2 DEF Saving, Enforcing, At, Others
    <3> QED
      BY <2>0, <3>1, <3>2, Sets, WithinDeleted DEF DraftsInv
  <2>3. CASE o2 # o
    <3>1. /\ Saving(o2)' = Saving(o2) /\ Enforcing(o2)' = Enforcing(o2)
          /\ \A u \in Enforcing(o2) : drop'[u] = drop[u]
      BY <1>1, <1>2, <2>3 DEF Saving, Enforcing, At, Others
    <3> QED
      BY <2>0, <2>1, <3>1, Sets, WithinLess DEF DraftsInv
  <2> QED
    BY <2>2, <2>3
<1>8. \A u \in Tab \ ({t} \cup overtaken') : KeepsDecision(u)
  <2>1. Overtake(t, o) \subseteq overtaken' /\ overtaken \subseteq overtaken' \cup {t}
    BY <1>1 DEF Overtake
  <2> QED
    BY <1>2, <1>3, <2>1, OneTab
<1>9. Decided(t)'
  BY <1>2 DEF Decided, At
<1> QED
  BY <1>1, <1>2, <1>3, <1>4, <1>5, <1>6, <1>7, <1>8, <1>9, StepMoves

\* A logout spares the saves that are under way.
LEMMA StepClearOwner ==
  ASSUME DraftsInv, NEW o \in Owner, ClearOwner(o)
  PROVE  DraftsInv'
<1>1. /\ DraftsTypeOK
      /\ draft' = [draft EXCEPT ![o] = [k \in Key |-> Absent]]
      /\ loggedOut' = [loggedOut EXCEPT ![o] = clock]
      /\ spared' = [spared EXCEPT ![o] = {mine[t].updatedAt : t \in BeforePut(o)}]
      /\ UNCHANGED <<aged, clock, stage, target, mine, drop, asked, overtaken, torn>>
  BY DEF ClearOwner, tabs, DraftsInv, DraftsTyped
<1>2. /\ Shrinks /\ \A o2 \in Owner \ {o} : draft'[o2] = draft[o2]
      /\ Stored(o)' = {}
      /\ draft' \in [Owner -> [Key -> [updatedAt : 0..clock, createdAt : 0..clock]]]
  BY <1>1, DraftsAssumption DEF Shrinks, Stored, Absent, DraftsTypeOK
<1>3. NoNewWriter
  BY <1>1 DEF NoNewWriter, Writing, DraftsInv, TimesDiffer
<1>4. clock \in 0..MaxSaves /\ MaxSaves \in Nat
  BY <1>1, DraftsAssumption DEF DraftsTypeOK
<1>5. {mine[t].updatedAt : t \in BeforePut(o)} \subseteq 1..MaxSaves
  <2>1. \A t \in BeforePut(o) : t \in Tab /\ Writing(t)
    BY DEF BeforePut, At, Writing
  <2>2. \A t \in BeforePut(o) : mine[t].updatedAt \in 0..clock /\ mine[t].updatedAt # 0
    BY <1>1, <2>1 DEF DraftsTypeOK, DraftsInv, TimesDiffer
  <2> QED
    BY <1>4, <2>2
<1>6. DraftsTypeOK'
  <2>1. \A o2 \in Owner : \A k2 \in Stored(o2)' :
          draft'[o2][k2].createdAt # 0 /\ draft'[o2][k2].updatedAt # 0
    <3>1. \A o2 \in Owner : \A k2 \in Stored(o2)' : k2 \in Stored(o2) /\ draft'[o2][k2] = draft[o2][k2]
      BY <1>2, StoredShrinks
    <3> QED
      BY <3>1 DEF DraftsInv, DraftsTyped, DraftsTypeOK
  <2>2. loggedOut' \in [Owner -> 0..MaxSaves] /\ spared' \in [Owner -> SUBSET (1..MaxSaves)]
    BY <1>1, <1>4, <1>5 DEF DraftsTypeOK
  <2> QED
    BY <1>1, <1>2, <2>1, <2>2 DEF DraftsTypeOK
<1>7. DraftsTyped'
  <2>1. \A o2 \in Owner : Busy(o2)' \in SUBSET Busy(o2)
    BY <1>1 DEF Busy
  <2>2. \A u \in Tab : stage'[u] # "idle" => target'[u] \in Owner \X Key
    BY <1>1 DEF DraftsInv, DraftsTyped
  <2>3. clock <= clock'
    BY <1>1, <1>4
  <2> QED
    BY <1>1, <1>6, <2>1, <2>2, <2>3, TypedStays DEF DraftsInv
<1>8. TimesDiffer'
  BY <1>2, <1>3, TimesKept DEF DraftsInv
<1>9. AfterLogout'
  <2>1. /\ loggedOut'[o] = clock /\ spared'[o] = {mine[t].updatedAt : t \in BeforePut(o)}
        /\ \A o2 \in Owner \ {o} : loggedOut'[o2] = loggedOut[o2] /\ spared'[o2] = spared[o2]
    BY <1>1 DEF DraftsTypeOK
  <2>2. \A o2 \in Owner : loggedOut'[o2] <= clock'
    BY <1>1, <1>4, <2>1 DEF DraftsInv, AfterLogout
  <2>3. ASSUME NEW o2 \in Owner, NEW k2 \in Stored(o2)'
        PROVE  draft'[o2][k2].updatedAt > loggedOut'[o2] \/ draft'[o2][k2].updatedAt \in spared'[o2]
    <3>1. o2 # o /\ k2 \in Stored(o2) /\ draft'[o2][k2] = draft[o2][k2]
      BY <1>2, <2>3, StoredShrinks
    <3> QED
      BY <2>1, <3>1 DEF DraftsInv, AfterLogout, Spared
  <2>4. ASSUME NEW u \in Tab, NEW o2 \in Owner, At(u, "reading", o2) \/ At(u, "putting", o2)
        PROVE  mine[u].updatedAt > loggedOut'[o2] \/ mine[u].updatedAt \in spared'[o2]
    <3>1. CASE o2 = o
      BY <2>1, <2>4, <3>1 DEF BeforePut
    <3>2. CASE o2 # o
      BY <2>1, <2>4, <3>2 DEF DraftsInv, AfterLogout, Spared
    <3> QED
      BY <3>1, <3>2
  <2> QED
    BY <1>1, <2>2, <2>3, <2>4 DEF AfterLogout, Spared, At
<1>10. LimitKept'
  <2>1. \A o2 \in Owner : Saving(o2)' = Saving(o2) /\ Enforcing(o2)' = Enforcing(o2)
    BY <1>1 DEF Saving, Enforcing, At
  <2> QED
    BY <1>1, <1>2, <2>1, LimitStays, Sets DEF DraftsInv
<1>11. DecisionsHold'
  <2>1. \A u \in Tab \ overtaken' : KeepsDecision(u)
    BY <1>1, <1>2 DEF KeepsDecision
  <2> QED
    BY <1>1, <2>1, DecisionStays DEF DraftsInv, DecisionsHold
<1> QED
  BY <1>7, <1>8, <1>9, <1>10, <1>11 DEF DraftsInv

\* A tab that is closed between two transactions of a save.
LEMMA StepCloseTab ==
  ASSUME DraftsInv, NEW t \in Tab, CloseTab(t)
  PROVE  DraftsInv'
<1>1. /\ DraftsTypeOK /\ stage[t] # "idle" /\ target[t] \in Owner \X Key
      /\ torn' = IF stage[t] \in {"pruning", "listing", "enforcing"}
                 THEN [torn EXCEPT ![target[t][1]] = @ + 1] ELSE torn
      /\ overtaken' = overtaken \ {t} /\ Finish(t)
      /\ UNCHANGED <<draft, aged, clock, loggedOut, spared>>
  BY DEF CloseTab, DraftsInv, DraftsTyped
<1>2. /\ Others(t) /\ stage'[t] = "idle" /\ stage' \in [Tab -> Step]
      /\ target' \in [Tab -> (Owner \X Key) \cup {Nowhere}]
      /\ mine' \in [Tab -> [updatedAt : 0..clock, createdAt : 0..clock]]
      /\ drop' \in [Tab -> SUBSET Key] /\ asked' \in [Tab -> BOOLEAN]
  BY <1>1, Finishes
<1>3. Shrinks /\ NoNewWriter
  BY <1>1, <1>2 DEF Shrinks, NoNewWriter, Others, Writing, DraftsInv, TimesDiffer
<1>4. clock \in 0..MaxSaves /\ MaxSaves \in Nat /\ torn \in [Owner -> 0..MaxSaves]
  BY <1>1, DraftsAssumption DEF DraftsTypeOK
<1>5. ASSUME NEW o \in Owner
      PROVE  /\ torn'[o] \in Nat /\ torn'[o] + Cardinality(Busy(o)') <= clock
             /\ Cardinality(Busy(o)') \in Nat
  <2>0. /\ torn[o] \in Nat /\ torn[o] + Cardinality(Busy(o)) <= clock
        /\ Busy(o) \in SUBSET Tab /\ Cardinality(Busy(o)) \in Nat
        /\ Busy(o)' = Busy(o) \ {t} /\ Cardinality(Busy(o)') \in Nat
    <3>1. Busy(o)' = Busy(o) \ {t} /\ Busy(o) \in SUBSET Tab
      BY <1>2 DEF Busy, Others
    <3>2. Busy(o)' \in SUBSET Tab
      BY <3>1
    <3> QED
      BY <1>4, <3>1, <3>2, KeysAndTabs DEF DraftsInv, DraftsTyped
  <2>1. CASE t \in Busy(o)
    <3>1. Cardinality(Busy(o)) = Cardinality(Busy(o)') + 1
      <4>1. Busy(o) = Busy(o)' \cup {t} /\ t \notin Busy(o)' /\ Busy(o)' \in SUBSET Tab
        BY <2>0, <2>1
      <4> QED
        BY <4>1, KeysAndTabs, FS_AddElement
    <3>2. torn'[o] \in {torn[o], torn[o] + 1}
      BY <1>1, <1>4
    <3> QED
      BY <1>4, <2>0, <3>1, <3>2
  <2>2. CASE t \notin Busy(o)
    <3>1. Busy(o)' = Busy(o)
      BY <2>0, <2>2
    <3>2. torn'[o] = torn[o]
      BY <1>1, <1>4, <2>2 DEF Busy
    <3> QED
      BY <2>0, <3>1, <3>2
  <2> QED
    BY <2>1, <2>2
<1>6. torn' \in [Owner -> 0..MaxSaves]
  <2>1. DOMAIN torn' = Owner /\ torn' = [o \in Owner |-> torn'[o]]
    BY <1>1, <1>4
  <2>2. \A o \in Owner : torn'[o] \in 0..MaxSaves
    BY <1>4, <1>5
  <2> QED
    BY <2>1, <2>2
<1>7. DraftsTypeOK'
  <2>1. overtaken' \subseteq Tab
    BY <1>1 DEF DraftsTypeOK
  <2> QED
    BY <1>1, <1>2, <1>6, <2>1 DEF DraftsTypeOK, Stored
<1>8. DraftsTyped'
  BY <1>1, <1>2, <1>5, <1>7 DEF DraftsTyped, Others, DraftsInv
<1>9. TimesDiffer' /\ AfterLogout'
  <2>1. clock \in Nat /\ clock' \in Nat /\ clock <= clock'
    BY <1>1, <1>4
  <2> QED
    BY <1>1, <1>3, <2>1, TimesKept, LogoutKept DEF DraftsInv
<1>10. LimitKept'
  <2> SUFFICES ASSUME NEW o \in Owner
               PROVE  Within(Active(o)', Saving(o)', Enforcing(o)', drop', torn'[o])
    BY DEF LimitKept, Within
  <2>0. Within(Active(o), Saving(o), Enforcing(o), drop, torn[o]) /\ Active(o)' = Active(o)
    BY <1>1 DEF DraftsInv, LimitKept, Active, Stored, IsExpired
  <2>1. /\ Saving(o)' = Saving(o) \ {t} /\ Enforcing(o)' = Enforcing(o) \ {t}
        /\ \A u \in Enforcing(o) \ {t} : drop'[u] = drop[u]
    BY <1>1, <1>2 DEF Saving, Enforcing, At, Others
  <2>2. CASE t \in Saving(o)
    <3>1. torn'[o] = torn[o] + 1
      BY <1>1, <1>4, <2>2 DEF Saving, At
    <3> QED
      BY <2>0, <2>1, <2>2, <3>1, Sets, WithinTorn DEF DraftsInv
  <2>3. CASE t \notin Saving(o)
    <3>1. torn'[o] = torn[o]
      BY <1>1, <1>4, <2>3 DEF Saving, At
    <3>2. Saving(o)' = Saving(o) /\ t \notin Enforcing(o) /\ Enforcing(o)' = Enforcing(o)
      BY <2>1, <2>3, Sets DEF DraftsInv
    <3> QED
      BY <2>0, <2>1, <3>1, <3>2, Sets, WithinLess DEF DraftsInv
  <2> QED
    BY <2>2, <2>3
<1>11. DecisionsHold'
  <2>1. Decided(t)'
    BY <1>2 DEF Decided, At
  <2>2. \A u \in Tab \ ({t} \cup overtaken') : KeepsDecision(u)
    BY <1>1, <1>2 DEF KeepsDecision, Others
  <2> QED
    BY <1>1, <2>1, <2>2, DecisionStays DEF DraftsInv, DecisionsHold
<1> QED
  BY <1>8, <1>9, <1>10, <1>11 DEF DraftsInv

\* Time passes for one draft.
LEMMA StepAges ==
  ASSUME DraftsInv, NEW o \in Owner, NEW k \in Key, Ages(o, k)
  PROVE  DraftsInv'
<1>1. /\ DraftsTypeOK /\ k \in Stored(o) /\ aged' = aged \cup {draft[o][k].updatedAt}
      /\ UNCHANGED <<draft, clock, stage, target, mine, drop, asked, overtaken, torn, loggedOut, spared>>
  BY DEF Ages, Active, tabs, past, DraftsInv, DraftsTyped
<1>2. clock \in 0..MaxSaves /\ MaxSaves \in Nat
  BY <1>1, DraftsAssumption DEF DraftsTypeOK
<1>3. Shrinks /\ NoNewWriter /\ aged \subseteq aged'
  BY <1>1 DEF Shrinks, NoNewWriter, Writing, DraftsInv, TimesDiffer
<1>4. DraftsTypeOK'
  <2>1. draft[o][k].updatedAt \in 1..clock
    BY <1>1, <1>2 DEF DraftsTypeOK
  <2>2. aged' \subseteq 1..clock
    BY <1>1, <2>1 DEF DraftsTypeOK
  <2> QED
    BY <1>1, <2>2 DEF DraftsTypeOK, Stored
<1>5. DraftsTyped'
  BY <1>1, <1>4 DEF DraftsInv, DraftsTyped, Busy
<1>6. TimesDiffer' /\ AfterLogout'
  <2>1. clock \in Nat /\ clock' \in Nat /\ clock <= clock'
    BY <1>1, <1>2
  <2> QED
    BY <1>1, <1>3, <2>1, TimesKept, LogoutKept DEF DraftsInv
<1>7. LimitKept'
  <2>1. \A o2 \in Owner : Saving(o2)' = Saving(o2) /\ Enforcing(o2)' = Enforcing(o2)
    BY <1>1 DEF Saving, Enforcing, At
  <2> QED
    BY <1>1, <1>3, <2>1, LimitStays, Sets DEF DraftsInv
<1>8. DecisionsHold'
  <2>1. \A u \in Tab \ overtaken' : KeepsDecision(u)
    BY <1>1 DEF KeepsDecision
  <2> QED
    BY <1>1, <1>3, <2>1, DecisionStays DEF DraftsInv, DecisionsHold
<1> QED
  BY <1>5, <1>6, <1>7, <1>8 DEF DraftsInv

\* An empty store keeps the invariant.
LEMMA InitDrafts == DraftsInit => DraftsInv
<1> SUFFICES ASSUME DraftsInit PROVE DraftsInv
  OBVIOUS
<1>0. Cardinality({}) = 0
  BY FS_EmptySet
<1>1. /\ \A o \in Owner : Stored(o) = {} /\ Active(o) = {} /\ Saving(o) = {} /\ Busy(o) = {}
      /\ \A t \in Tab : stage[t] = "idle"
  BY DEF DraftsInit, Stored, Active, Saving, Busy, At
<1>2. DraftsTypeOK
  BY <1>1, DraftsAssumption DEF DraftsInit, DraftsTypeOK, Absent, Step
<1>3. DraftsTyped
  BY <1>0, <1>1, <1>2 DEF DraftsInit, DraftsTyped
<1>4. TimesDiffer /\ AfterLogout
  BY <1>1 DEF DraftsInit, TimesDiffer, AfterLogout, Writing, At
<1>5. LimitKept
  <2> SUFFICES ASSUME NEW o \in Owner, NEW T \in SUBSET Enforcing(o)
               PROVE  Cardinality(Active(o) \ UNION {drop[t] : t \in T})
                        <= DraftLimit + Cardinality(Saving(o) \ T) + torn[o]
    BY DEF LimitKept, Within
  <2>1. Active(o) \ UNION {drop[t] : t \in T} = {} /\ Saving(o) \ T = {} /\ torn[o] = 0
    BY <1>1 DEF DraftsInit
  <2> QED
    BY <1>0, <2>1, DraftsAssumption
<1>6. DecisionsHold
  BY <1>1 DEF DecisionsHold, Decided, At
<1> QED
  BY <1>2, <1>3, <1>4, <1>5, <1>6 DEF DraftsInv

\* Every step of every tab keeps the invariant.
LEMMA StepDrafts == DraftsInv /\ [DraftsNext]_draftVars => DraftsInv'
<1> SUFFICES ASSUME DraftsInv, [DraftsNext]_draftVars PROVE DraftsInv'
  OBVIOUS
<1>1. ASSUME NEW t \in Tab, NEW o \in Owner, NEW k \in Key,
             \/ SaveBegins(t, o, k) \/ SaveReads(t, o, k) \/ SavePuts(t, o, k)
             \/ GetReads(t, o, k) \/ DeleteReads(t, o, k) \/ DeleteDeletes(t, o, k)
      PROVE  DraftsInv'
  BY <1>1, StepSaveBegins, StepSaveReads, StepSavePuts, StepGetReads, StepDeleteReads, StepDeleteDeletes
<1>2. ASSUME NEW t \in Tab, NEW o \in Owner, EnforceLists(t, o) \/ EnforceDeletes(t, o)
      PROVE  DraftsInv'
  BY <1>2, StepEnforceLists, StepEnforceDeletes
<1>3. ASSUME NEW t \in Tab, PruneExpired(t) \/ CloseTab(t) PROVE DraftsInv'
  BY <1>3, StepPruneExpired, StepCloseTab
<1>4. ASSUME NEW o \in Owner, ClearOwner(o) PROVE DraftsInv'
  BY <1>4, StepClearOwner
<1>5. ASSUME NEW o \in Owner, NEW k \in Key, Ages(o, k) PROVE DraftsInv'
  BY <1>5, StepAges
<1>6. CASE UNCHANGED draftVars
  <2>1. UNCHANGED <<draft, aged, clock, stage, target, mine, drop, asked, overtaken, torn, loggedOut, spared>>
    BY <1>6 DEF draftVars
  <2>2. /\ \A o : Stored(o)' = Stored(o) /\ Active(o)' = Active(o) /\ Saving(o)' = Saving(o)
        /\ \A o : Busy(o)' = Busy(o) /\ Enforcing(o)' = Enforcing(o)
    BY <2>1 DEF Stored, Active, IsExpired, Saving, Busy, Enforcing, At
  <2>3. DraftsTyped'
    BY <2>1, <2>2 DEF DraftsInv, DraftsTyped, DraftsTypeOK
  <2>4. TimesDiffer' /\ AfterLogout'
    BY <2>1, <2>2 DEF DraftsInv, TimesDiffer, AfterLogout, Writing, Spared, At
  <2>5. LimitKept'
    BY <2>1, <2>2 DEF DraftsInv, LimitKept, Within
  <2>6. DecisionsHold'
    BY <2>1, <2>2 DEF DraftsInv, DecisionsHold, Decided, Newer, IsExpired, At
  <2> QED
    BY <2>3, <2>4, <2>5, <2>6 DEF DraftsInv
<1> QED
  BY <1>1, <1>2, <1>3, <1>4, <1>5, <1>6 DEF DraftsNext

\* The invariant of the draft store holds throughout.
LEMMA DraftsInvariant == DraftsSpec => []DraftsInv
BY InitDrafts, StepDrafts, PTL DEF DraftsSpec

\* Every variable of the draft store keeps its type, and what is stored has both times.
THEOREM DraftsTypeCorrect == DraftsSpec => []DraftsTypeOK
<1>1. DraftsInv => DraftsTypeOK
  BY DEF DraftsInv, DraftsTyped
<1> QED
  BY <1>1, DraftsInvariant, PTL

\* Nobody's save being withdrawn, the limit is what OnlyCurrent says of it.
LEMMA WithinTheLimit == DraftsInv => OnlyCurrent
<1> SUFFICES ASSUME DraftsInv, NEW o \in Owner
             PROVE  /\ Cardinality(Active(o)) <= DraftLimit + Cardinality(Saving(o)) + torn[o]
                    /\ \A k \in Stored(o) :
                         draft[o][k].updatedAt > loggedOut[o] \/ draft[o][k].updatedAt \in spared[o]
  BY DEF OnlyCurrent
<1>1. Within(Active(o), Saving(o), Enforcing(o), drop, torn[o])
  BY DEF DraftsInv, LimitKept
<1>2. Cardinality(Active(o) \ UNION {drop[t] : t \in {}})
        <= DraftLimit + Cardinality(Saving(o) \ {}) + torn[o]
  <2>1. {} \in SUBSET Enforcing(o)
    OBVIOUS
  <2> QED
    BY <1>1, <2>1 DEF Within
<1>3. Active(o) \ UNION {drop[t] : t \in {}} = Active(o) /\ Saving(o) \ {} = Saving(o)
  OBVIOUS
<1> QED
  BY <1>2, <1>3 DEF DraftsInv, AfterLogout, Spared

\* What a step may do to a current draft, from the decision that was taken before.
LEMMA DeletedAsDecided ==
  ASSUME DraftsInv, [DraftsNext]_draftVars, NEW o \in Owner, NEW k \in Active(o)
  PROVE  \/ draft'[o][k] # Absent
         \/ Cardinality(Newer(o, k, Stored(o))) >= DraftLimit
         \/ \E t \in Tab : stage[t] # "idle" /\ stage'[t] = "idle" /\ (t \in overtaken \/ ByUser(t, o, k))
         \/ Stored(o)' = {} /\ UNCHANGED stage
<1> SUFFICES ASSUME draft'[o][k] = Absent
             PROVE  \/ draft'[o][k] # Absent
                    \/ Cardinality(Newer(o, k, Stored(o))) >= DraftLimit
                    \/ \E t \in Tab : stage[t] # "idle" /\ stage'[t] = "idle" /\ (t \in overtaken \/ ByUser(t, o, k))
                    \/ Stored(o)' = {} /\ UNCHANGED stage
  OBVIOUS
<1>0. /\ k \in Key /\ k \in Stored(o) /\ draft[o][k] # Absent /\ ~IsExpired(o, k) /\ DraftsTypeOK
      /\ draft \in [Owner -> [Key -> [updatedAt : 0..clock, createdAt : 0..clock]]]
  BY DEF Active, Stored, DraftsInv, DraftsTyped, DraftsTypeOK
<1>1. ASSUME draft' = draft PROVE FALSE
  BY <1>0, <1>1
<1>2. ASSUME NEW t \in Tab, NEW o2 \in Owner, NEW k2 \in Key, SavePuts(t, o2, k2)
      PROVE  FALSE
  <2>1. mine[t].updatedAt # 0
    BY <1>2 DEF SavePuts, DraftsInv, TimesDiffer, Writing
  <2>2. mine[t] # Absent
    BY <2>1 DEF Absent
  <2> QED
    BY <1>0, <1>2, <2>2 DEF SavePuts
<1>3. ASSUME NEW t \in Tab, NEW o2 \in Owner, NEW k2 \in Key, DeleteDeletes(t, o2, k2)
      PROVE  \E u \in Tab : stage[u] # "idle" /\ stage'[u] = "idle" /\ (u \in overtaken \/ ByUser(u, o, k))
  <2>1. o2 = o /\ k2 = k
    BY <1>0, <1>3 DEF DeleteDeletes
  <2>2. stage[t] = "deleting" /\ target[t] = <<o, k>> /\ target[t][1] = o
    BY <1>3, <2>1 DEF DeleteDeletes
  <2>5. stage'[t] = "idle"
    BY <1>0, <1>3, Finishes DEF DeleteDeletes
  <2>3. CASE t \in overtaken
    BY <2>2, <2>3, <2>5
  <2>4. CASE t \notin overtaken
    <3>1. Decided(t)
      BY <2>4 DEF DraftsInv, DecisionsHold
    <3>2. asked[t]
      BY <1>0, <2>2, <3>1 DEF Decided, At
    <3> QED
      BY <2>2, <2>5, <3>2 DEF ByUser, At
  <2> QED
    BY <2>3, <2>4
<1>4. ASSUME NEW t \in Tab, NEW o2 \in Owner, EnforceDeletes(t, o2)
      PROVE  \/ Cardinality(Newer(o, k, Stored(o))) >= DraftLimit
             \/ \E u \in Tab : stage[u] # "idle" /\ stage'[u] = "idle" /\ (u \in overtaken \/ ByUser(u, o, k))
  <2>1. o2 = o /\ k \in drop[t]
    BY <1>0, <1>4 DEF EnforceDeletes
  <2>2. stage[t] = "enforcing" /\ At(t, "enforcing", o) /\ stage'[t] = "idle"
    BY <1>0, <1>4, <2>1, Finishes DEF EnforceDeletes, At
  <2>3. CASE t \in overtaken
    BY <2>2, <2>3
  <2>4. CASE t \notin overtaken
    <3>1. Decided(t)
      BY <2>4 DEF DraftsInv, DecisionsHold
    <3> QED
      BY <1>0, <2>1, <2>2, <3>1 DEF Decided
  <2> QED
    BY <2>3, <2>4
<1>5. ASSUME NEW t \in Tab, PruneExpired(t) PROVE FALSE
  BY <1>0, <1>5 DEF PruneExpired
<1>6. ASSUME NEW o2 \in Owner, ClearOwner(o2)
      PROVE  Stored(o)' = {} /\ UNCHANGED stage
  <2>1. o2 = o
    BY <1>0, <1>6 DEF ClearOwner
  <2> QED
    BY <1>0, <1>6, <2>1 DEF ClearOwner, Stored, tabs
<1>7. ASSUME NEW t \in Tab, NEW o2 \in Owner, NEW k2 \in Key,
             \/ SaveBegins(t, o2, k2) \/ SaveReads(t, o2, k2) \/ GetReads(t, o2, k2)
             \/ DeleteReads(t, o2, k2)
      PROVE  FALSE
  <2>1. draft' = draft
    BY <1>7 DEF SaveBegins, SaveReads, GetReads, DeleteReads
  <2> QED
    BY <1>1, <2>1
<1>8. CASE \E t \in Tab, o2 \in Owner, k2 \in Key :
             \/ SaveBegins(t, o2, k2) \/ SaveReads(t, o2, k2) \/ SavePuts(t, o2, k2)
             \/ GetReads(t, o2, k2) \/ DeleteReads(t, o2, k2) \/ DeleteDeletes(t, o2, k2)
  <2>1. PICK t \in Tab, o2 \in Owner, k2 \in Key :
               \/ SaveBegins(t, o2, k2) \/ SaveReads(t, o2, k2) \/ SavePuts(t, o2, k2)
               \/ GetReads(t, o2, k2) \/ DeleteReads(t, o2, k2) \/ DeleteDeletes(t, o2, k2)
    BY <1>8
  <2>2. DeleteDeletes(t, o2, k2)
    BY <1>2, <1>7, <2>1
  <2> QED
    BY <1>3, <2>2
<1>9. CASE \E t \in Tab, o2 \in Owner : EnforceLists(t, o2) \/ EnforceDeletes(t, o2)
  <2>1. PICK t \in Tab, o2 \in Owner : EnforceLists(t, o2) \/ EnforceDeletes(t, o2)
    BY <1>9
  <2>2. EnforceDeletes(t, o2)
    BY <1>1, <2>1 DEF EnforceLists
  <2> QED
    BY <1>4, <2>2
<1>10. CASE \E t \in Tab : PruneExpired(t) \/ CloseTab(t)
  <2>1. ASSUME NEW t \in Tab, CloseTab(t) PROVE FALSE
    BY <1>1, <2>1 DEF CloseTab
  <2> QED
    BY <1>5, <1>10, <2>1
<1>11. CASE \E o2 \in Owner : ClearOwner(o2)
  BY <1>6, <1>11
<1>12. CASE \E o2 \in Owner, k2 \in Key : Ages(o2, k2)
  <2>1. draft' = draft
    BY <1>12 DEF Ages
  <2> QED
    BY <1>1, <2>1
<1>13. CASE UNCHANGED draftVars
  <2>1. draft' = draft
    BY <1>13 DEF draftVars
  <2> QED
    BY <1>1, <2>1
<1> QED
  BY <1>8, <1>9, <1>10, <1>11, <1>12, <1>13 DEF DraftsNext

\* What is stored is current and within the limit, but for saves in flight, cut short or
\* under way at a logout, and the limit takes none of the newest drafts: a decision
\* taken from an old list is safe while nobody else has changed the owner's drafts.
THEOREM DraftsAreCurrent == DraftsSpec => DraftsHold
<1>1. DraftsInv /\ [DraftsNext]_draftVars =>
        [\A o \in Owner : \A k \in Active(o) :
           \/ draft'[o][k] # Absent
           \/ Cardinality(Newer(o, k, Stored(o))) >= DraftLimit
           \/ \E t \in Tab : stage[t] # "idle" /\ stage'[t] = "idle" /\ (t \in overtaken \/ ByUser(t, o, k))
           \/ Stored(o)' = {} /\ UNCHANGED stage]_draftVars
  BY DeletedAsDecided
<1> QED
  BY <1>1, WithinTheLimit, DraftsInvariant, PTL DEF DraftsSpec, DraftsHold, NewestKept

-----------------------------------------------------------------------------
(* Policies.                                                               *)
-----------------------------------------------------------------------------

\* The permissions that policies ask for.
Grantable ==
  {"users.read", "users.manage", "system.manage", "content.write", "commerce.read", "commerce.write",
   "crm.read", "crm.write", "email.read", "email.send", "email.manage", "media.read",
   "media.upload", "media.delete", "sync.read", "audit.read", "analytics.read", "analytics.write"}

PolicyType ==
  [public : BOOLEAN, everyone : BOOLEAN, self : SUBSET Commands, read : SUBSET Grantable,
   write : [Writes -> SUBSET Grantable], granted : SUBSET Commands, anon : SUBSET Commands]

\* Whatever p lets through by one of its clauses, q lets through by the same.
NoLooser(p, q) ==
  /\ p.public => q.public
  /\ p.everyone => q.everyone
  /\ p.self \subseteq q.self /\ p.read \subseteq q.read
  /\ \A c \in Writes : p.write[c] \subseteq q.write[c]
  /\ p.granted \subseteq q.granted /\ p.anon \subseteq q.anon

\* Who sees a row under a stricter policy sees it under a looser one.
LEMMA SeesMonotone ==
  ASSUME NEW p \in PolicyType, NEW q \in PolicyType, NoLooser(p, q), NEW r
  PROVE  Sees(p, r) => Sees(q, r)
BY DEF Sees, Has, NoLooser

\* Who may write a row under a stricter policy may write it under a looser one.
LEMMA MayMonotone ==
  ASSUME NEW p \in PolicyType, NEW q \in PolicyType, NoLooser(p, q), NEW r, NEW command \in Writes
  PROVE  May(p, command, r) => May(q, command, r)
BY DEF May, Has, NoLooser

\* A statement that the tighter policy lets through the looser one lets through.
LEMMA DoneMonotone ==
  ASSUME NEW p \in PolicyType, NEW q \in PolicyType, NoLooser(p, q),
         NEW command \in Commands, NEW new, Done(p, command, new)
  PROVE  Done(q, command, new)
<1>1. \A c \in Writes : \A r : May(p, c, r) => May(q, c, r)
  BY MayMonotone
<1>2. \A r : Sees(p, r) => Sees(q, r)
  BY SeesMonotone
<1> QED
  BY <1>1, <1>2 DEF Done, NoLooser, Commands, Writes

-----------------------------------------------------------------------------
(* The tables of both generations.                                         *)
-----------------------------------------------------------------------------

\* Each table's policies are those of its group, and of their type.
LEMMA PairType ==
  ASSUME NEW read \in Grantable, NEW write \in Grantable
  PROVE  /\ Pair(read, write) \in PolicyType /\ Managed(read, write) \in PolicyType
         /\ ReadOnly(read) \in PolicyType
         /\ Managed(read, write).read = {read, write}
BY DEF Pair, Managed, ReadOnly, PolicyType, Commands, Writes

\* The policies of app, and the permission that reads each of its tables.
LEMMA UserTypes ==
  ASSUME NEW t \in DOMAIN UserPolicies
  PROVE  /\ t \in PolicyTable /\ Original[t] = UserPolicies[t] /\ Original[t] \in PolicyType
         /\ t # "settings" => "users.read" \in Original[t].read
         /\ t = "settings" => "system.manage" \in Original[t].read
<1>1. t \in PolicyTable /\ Original[t] = UserPolicies[t]
  BY DEF PolicyTable, Original, Join
<1>2. /\ Managed("users.read", "users.manage") \in PolicyType
      /\ Managed("system.manage", "system.manage") \in PolicyType
      /\ Managed("users.read", "system.manage") \in PolicyType
      /\ Managed("users.read", "users.manage").read = {"users.read", "users.manage"}
      /\ Managed("system.manage", "system.manage").read = {"system.manage", "system.manage"}
      /\ Managed("users.read", "system.manage").read = {"users.read", "system.manage"}
  BY PairType DEF Grantable
<1>3. UserPolicies[t] =
        CASE t = "profiles" ->
            [Managed("users.read", "users.manage")
               EXCEPT !.self = {"select", "update"}, !.granted = {"select", "update"}]
       [] t = "user_roles" ->
            [Managed("users.read", "users.manage") EXCEPT !.self = {"select"}]
       [] t = "settings" -> Managed("system.manage", "system.manage")
       [] OTHER -> Managed("users.read", "system.manage")
  BY DEF UserPolicies
<1>4. UserPolicies[t] \in PolicyType
  <2>1. CASE t = "profiles"
    <3> DEFINE p == Managed("users.read", "users.manage")
    <3>1. UserPolicies[t] = [p EXCEPT !.self = {"select", "update"}, !.granted = {"select", "update"}]
      BY <1>3, <2>1
    <3>2. p \in PolicyType
      BY <1>2
    <3> HIDE DEF p
    <3> QED
      BY <3>1, <3>2 DEF PolicyType, Commands, Writes
  <2>2. CASE t = "user_roles"
    <3> DEFINE p == Managed("users.read", "users.manage")
    <3>1. UserPolicies[t] = [p EXCEPT !.self = {"select"}]
      BY <1>3, <2>2
    <3>2. p \in PolicyType
      BY <1>2
    <3> HIDE DEF p
    <3> QED
      BY <3>1, <3>2 DEF PolicyType, Commands
  <2> QED
    BY <1>2, <1>3, <2>1, <2>2
<1>5. /\ t # "settings" => "users.read" \in UserPolicies[t].read
      /\ t = "settings" => "system.manage" \in UserPolicies[t].read
  BY <1>2, <1>3 DEF PolicyType
<1> QED
  BY <1>1, <1>4, <1>5

\* The policies of content.
LEMMA ContentTypes ==
  ASSUME NEW t \in DOMAIN ContentPolicies
  PROVE  t \in PolicyTable /\ Original[t] = ContentPolicies[t] /\ Original[t] \in PolicyType
<1>1. t \in PolicyTable /\ Original[t] = ContentPolicies[t]
  BY DEF PolicyTable, Original, Join, UserPolicies, ContentPolicies
<1>2. Managed("content.write", "content.write") \in PolicyType
  BY PairType DEF Grantable
<1>3. ContentPolicies[t] \in PolicyType
  <2> DEFINE p == Managed("content.write", "content.write")
             open == t \in {"categories", "tags"}
  <2>1. ContentPolicies[t] = [p EXCEPT !.public = TRUE, !.everyone = open, !.anon = {"select"}]
    BY DEF ContentPolicies
  <2>2. p \in PolicyType /\ open \in BOOLEAN
    BY <1>2
  <2> HIDE DEF p, open
  <2> QED
    BY <2>1, <2>2 DEF PolicyType, Commands
<1> QED
  BY <1>1, <1>3

\* The policies of commerce, which two permissions read.
LEMMA CommerceTypes ==
  ASSUME NEW t \in DOMAIN CommercePolicies
  PROVE  /\ t \in PolicyTable /\ Original[t] = CommercePolicies[t] /\ Original[t] \in PolicyType
         /\ Original[t].read = {"commerce.read", "commerce.write"}
<1>1. t \in PolicyTable /\ Original[t] = CommercePolicies[t]
  BY DEF PolicyTable, Original, Join, UserPolicies, ContentPolicies, CommercePolicies
<1>2. /\ Managed("commerce.read", "commerce.write") \in PolicyType
      /\ Managed("commerce.read", "commerce.write").read = {"commerce.read", "commerce.write"}
  BY PairType DEF Grantable
<1>3. CommercePolicies[t] \in PolicyType /\ CommercePolicies[t].read = {"commerce.read", "commerce.write"}
  BY <1>2 DEF CommercePolicies, PolicyType, Commands, Writes
<1> QED
  BY <1>1, <1>3

\* The policies of crm and email, and the permission that reads each of their tables.
LEMMA DomainTypes ==
  ASSUME NEW t \in DOMAIN DomainPolicies
  PROVE  /\ t \in PolicyTable /\ Original[t] = DomainPolicies[t] /\ Original[t] \in PolicyType
         /\ IF t \in {"email_threads", "email_messages"} THEN "email.read" \in Original[t].read
            ELSE "crm.read" \in Original[t].read
<1>1. t \in PolicyTable /\ Original[t] = DomainPolicies[t]
  BY DEF PolicyTable, Original, Join, UserPolicies, ContentPolicies, CommercePolicies, DomainPolicies
<1>2. /\ Managed("email.read", "email.send") \in PolicyType
      /\ Managed("email.read", "email.send").read = {"email.read", "email.send"}
      /\ Managed("crm.read", "crm.write") \in PolicyType
      /\ Managed("crm.read", "crm.write").read = {"crm.read", "crm.write"}
  BY PairType DEF Grantable
<1>3. CASE t \in {"email_threads", "email_messages"}
  BY <1>1, <1>2, <1>3 DEF DomainPolicies
<1>4. CASE t \notin {"email_threads", "email_messages"}
  <2>1. DomainPolicies[t] = [Managed("crm.read", "crm.write")
                               EXCEPT !.anon = IF t = "leads" THEN {"insert"} ELSE {}]
    BY <1>4 DEF DomainPolicies
  <2>2. DomainPolicies[t] \in PolicyType /\ "crm.read" \in DomainPolicies[t].read
    BY <2>1, <1>2 DEF PolicyType, Commands, Writes
  <2> QED
    BY <1>1, <1>4, <2>2
<1> QED
  BY <1>3, <1>4

\* The policies of media.
LEMMA MediaTypes ==
  ASSUME NEW t \in DOMAIN MediaPolicies
  PROVE  t \in PolicyTable /\ Original[t] = MediaPolicies[t] /\ Original[t] \in PolicyType
<1>1. t \in PolicyTable /\ Original[t] = MediaPolicies[t]
  BY DEF PolicyTable, Original, Join, UserPolicies, ContentPolicies, CommercePolicies, DomainPolicies,
         MediaPolicies
<1>2. Pair("media.read", "media.upload") \in PolicyType
  BY PairType DEF Grantable
<1>3. MediaPolicies[t] \in PolicyType
  <2> DEFINE p == Pair("media.read", "media.upload")
             update == IF t = "asset_usages" THEN {} ELSE {"media.upload"}
  <2>1. MediaPolicies[t] = [p EXCEPT !.write["delete"] = {"media.delete"}, !.write["update"] = update]
    BY DEF MediaPolicies
  <2>2. p \in PolicyType /\ update \in SUBSET Grantable /\ {"media.delete"} \in SUBSET Grantable
    BY <1>2 DEF Grantable
  <2> HIDE DEF p, update
  <2> DEFINE w == [p.write EXCEPT !["delete"] = {"media.delete"}, !["update"] = update]
  <2>3. w \in [Writes -> SUBSET Grantable]
    <3>1. p.write \in [Writes -> SUBSET Grantable]
      BY <2>2 DEF PolicyType
    <3> QED
      BY <2>2, <3>1
  <2>4. MediaPolicies[t] = [p EXCEPT !.write = w]
    BY <2>1, <2>2 DEF PolicyType
  <2> HIDE DEF w
  <2> QED
    BY <2>2, <2>3, <2>4 DEF PolicyType
<1> QED
  BY <1>1, <1>3

\* The policies of the remaining tables, and the permissions their rewrites keep.
LEMMA OperationTypes ==
  ASSUME NEW t \in DOMAIN OperationPolicies
  PROVE  /\ t \in PolicyTable /\ Original[t] = OperationPolicies[t] /\ Original[t] \in PolicyType
         /\ t \in {"feature_flags", "integrations"} => "system.manage" \in Original[t].read
         /\ t = "email_templates" => "email.read" \in Original[t].read
         /\ t = "events_daily" => "analytics.read" \in Original[t].read
<1>1. t \in PolicyTable /\ Original[t] = OperationPolicies[t]
  BY DEF PolicyTable, Original, Join, UserPolicies, ContentPolicies, CommercePolicies, DomainPolicies,
         MediaPolicies, OperationPolicies
<1>2. /\ Managed("email.read", "email.manage") \in PolicyType
      /\ Managed("email.read", "email.manage").read = {"email.read", "email.manage"}
      /\ ReadOnly("sync.read") \in PolicyType /\ ReadOnly("audit.read") \in PolicyType
      /\ Managed("analytics.read", "analytics.write") \in PolicyType
      /\ Managed("analytics.read", "analytics.write").read = {"analytics.read", "analytics.write"}
      /\ Managed("system.manage", "system.manage") \in PolicyType
      /\ Managed("system.manage", "system.manage").read = {"system.manage", "system.manage"}
  BY PairType DEF Grantable
<1>3. OperationPolicies[t] =
        CASE t = "email_templates" -> Managed("email.read", "email.manage")
          [] t \in {"outbox_events", "projection_runs"} -> ReadOnly("sync.read")
          [] t = "audit_logs" -> ReadOnly("audit.read")
          [] t = "events_daily" ->
               [Managed("analytics.read", "analytics.write") EXCEPT !.granted = Commands \ {"delete"}]
          [] OTHER -> Managed("system.manage", "system.manage")
  BY DEF OperationPolicies
<1>4. OperationPolicies[t] \in PolicyType
  BY <1>2, <1>3 DEF PolicyType
<1>5. /\ t \in {"feature_flags", "integrations"} => "system.manage" \in OperationPolicies[t].read
      /\ t = "email_templates" => "email.read" \in OperationPolicies[t].read
      /\ t = "events_daily" => "analytics.read" \in OperationPolicies[t].read
  BY <1>2, <1>3 DEF PolicyType
<1> QED
  BY <1>1, <1>4, <1>5

\* The policies of the unified inbox.
LEMMA InboxTypes ==
  ASSUME NEW t \in DOMAIN InboxPolicies
  PROVE  t \in PolicyTable /\ Original[t] = InboxPolicies[t] /\ Original[t] \in PolicyType
<1>1. t \in PolicyTable /\ Original[t] = InboxPolicies[t]
  BY DEF PolicyTable, Original, Join, UserPolicies, ContentPolicies, CommercePolicies, DomainPolicies,
         MediaPolicies, OperationPolicies, InboxPolicies
<1>2. Pair("email.read", "email.manage") \in PolicyType /\ Pair("email.read", "email.send") \in PolicyType
  BY PairType DEF Grantable
<1>3. InboxPolicies[t] \in PolicyType
  BY <1>2 DEF InboxPolicies, PolicyType, Commands, Writes
<1> QED
  BY <1>1, <1>3

\* Every table has a policy.
LEMMA OriginalTypes ==
  ASSUME NEW t \in PolicyTable
  PROVE  Original[t] \in PolicyType
<1>1. t \in DOMAIN UserPolicies \cup DOMAIN ContentPolicies \cup DOMAIN CommercePolicies
        \cup DOMAIN DomainPolicies \cup DOMAIN MediaPolicies \cup DOMAIN OperationPolicies
        \cup DOMAIN InboxPolicies
  BY DEF PolicyTable, Original, Join
<1> QED
  BY <1>1, UserTypes, ContentTypes, CommerceTypes, DomainTypes, MediaTypes, OperationTypes, InboxTypes

\* A policy with a narrower read clause, and no other change.
LEMMA NarrowerRead ==
  ASSUME NEW q \in PolicyType, NEW read \in SUBSET q.read
  PROVE  [q EXCEPT !.read = read] \in PolicyType /\ NoLooser([q EXCEPT !.read = read], q)
BY DEF PolicyType, NoLooser

\* A table is rewritten in one way.
LEMMA OneWay ==
  ASSUME NEW t
  PROVE  /\ t \in SplitPolicies => /\ t # "profiles" /\ t # "events_daily"
                                 /\ t \notin DOMAIN CommercePolicies /\ t \notin DOMAIN DomainPolicies
         /\ t \in DOMAIN CommercePolicies => /\ t # "profiles" /\ t # "events_daily"
                                           /\ t \notin DOMAIN DomainPolicies
         /\ t \in DOMAIN DomainPolicies => t # "profiles" /\ t # "events_daily"
BY DEF SplitPolicies, UserPolicies, ContentPolicies, CommercePolicies, DomainPolicies

\* Whichever way a table's policies were rewritten, none is looser than it was.
LEMMA OptimizedTighter ==
  ASSUME NEW t \in PolicyTable
  PROVE  Optimized[t] \in PolicyType /\ NoLooser(Optimized[t], Original[t])
<1>1. CASE t \in SplitPolicies
  <2>1. Optimized[t] = [Original[t] EXCEPT !.read = ReadPermission(t)]
    BY <1>1, OneWay DEF Optimized, Split
  <2>2. CASE t \in DOMAIN UserPolicies \ {"profiles"}
    <3>1. ReadPermission(t) = IF t = "settings" THEN {"system.manage"} ELSE {"users.read"}
      BY <2>2 DEF ReadPermission, UserPolicies, ContentPolicies
    <3> QED
      BY <2>1, <2>2, <3>1, UserTypes, NarrowerRead
  <2>3. CASE t \in DOMAIN ContentPolicies
    <3>1. ReadPermission(t) = {}
      BY <2>3 DEF ReadPermission, ContentPolicies
    <3> QED
      BY <2>1, <2>3, <3>1, ContentTypes, NarrowerRead
  <2>4. CASE t \in {"email_templates", "feature_flags", "integrations"}
    <3>1. t \in DOMAIN OperationPolicies
      BY <2>4 DEF OperationPolicies
    <3>2. ReadPermission(t) = IF t = "email_templates" THEN {"email.read"} ELSE {"system.manage"}
      BY <2>4 DEF ReadPermission, ContentPolicies
    <3> QED
      BY <2>1, <2>4, <3>1, <3>2, OperationTypes, NarrowerRead
  <2> QED
    BY <1>1, <2>2, <2>3, <2>4 DEF SplitPolicies
<1>2. CASE t = "profiles"
  <2>1. t \in DOMAIN UserPolicies /\ t \notin SplitPolicies
    BY <1>2 DEF UserPolicies, SplitPolicies, ContentPolicies
  <2>2. Optimized[t] = Profiles
    BY <1>2, OneWay DEF Optimized
  <2>3. Original["profiles"] \in PolicyType /\ "users.read" \in Original["profiles"].read
    BY <1>2, <2>1, UserTypes
  <2>4. Profiles \in PolicyType /\ NoLooser(Profiles, Original["profiles"])
    BY <2>3 DEF Profiles, PolicyType, NoLooser, Writes
  <2> QED
    BY <1>2, <2>2, <2>4
<1>3. CASE t \in DOMAIN CommercePolicies
  <2>1. t \notin SplitPolicies /\ t # "profiles"
    BY <1>3 DEF UserPolicies, SplitPolicies, ContentPolicies, CommercePolicies
  <2>2. Optimized[t] = [Original[t] EXCEPT !.read = {"commerce.read", "commerce.write"}]
    BY <1>3, OneWay DEF Optimized, Combined
  <2> QED
    BY <1>3, <2>2, CommerceTypes, NarrowerRead
<1>4. CASE t \in DOMAIN DomainPolicies
  <2>1. t \notin SplitPolicies /\ t # "profiles" /\ t \notin DOMAIN CommercePolicies
    BY <1>4 DEF UserPolicies, SplitPolicies, ContentPolicies, CommercePolicies, DomainPolicies
  <2>2. Optimized[t] = [Original[t] EXCEPT
           !.read = IF t \in {"email_threads", "email_messages"} THEN {"email.read"} ELSE {"crm.read"}]
    BY <1>4, OneWay DEF Optimized, Independent
  <2> QED
    BY <1>4, <2>2, DomainTypes, NarrowerRead
<1>5. CASE t = "events_daily"
  <2>1. /\ t \in DOMAIN OperationPolicies /\ t \notin SplitPolicies
        /\ t \notin DOMAIN CommercePolicies /\ t \notin DOMAIN DomainPolicies
    BY <1>5 DEF OperationPolicies, UserPolicies, SplitPolicies, ContentPolicies, CommercePolicies,
                DomainPolicies
  <2>2. Optimized[t] = EventsDaily
    BY <1>5, OneWay DEF Optimized
  <2>3. Original["events_daily"] \in PolicyType /\ "analytics.read" \in Original["events_daily"].read
    BY <1>5, <2>1, OperationTypes
  <2>4. EventsDaily \in PolicyType /\ NoLooser(EventsDaily, Original["events_daily"])
    BY <2>3 DEF EventsDaily, PolicyType, NoLooser, Writes
  <2> QED
    BY <1>5, <2>2, <2>4
<1>6. CASE /\ t \notin SplitPolicies /\ t # "profiles" /\ t \notin DOMAIN CommercePolicies
           /\ t \notin DOMAIN DomainPolicies /\ t # "events_daily"
  <2>1. Optimized[t] = Original[t]
    BY <1>6 DEF Optimized
  <2> QED
    BY <2>1, OriginalTypes DEF NoLooser
<1> QED
  BY <1>1, <1>2, <1>3, <1>4, <1>5, <1>6

-----------------------------------------------------------------------------

\* What a table asks for are permissions.
LEMMA AskedAreKnown ==
  ASSUME NEW t \in PolicyTable
  PROVE  Asked(t) \subseteq AllPermissions
BY DEF Asked, AllPermissions

\* A caller holds nothing but permissions, whatever is granted and withdrawn meanwhile.
THEOREM PoliciesTypeCorrect == PoliciesSpec => []PoliciesTypeOK
<1>1. PoliciesInit => PoliciesTypeOK
  BY AskedAreKnown DEF PoliciesInit, PoliciesTypeOK
<1>2. PoliciesTypeOK /\ [PoliciesNext]_policyVars => PoliciesTypeOK'
  BY AskedAreKnown DEF PoliciesTypeOK, PoliciesNext, AddRow, ChangeRow, RemoveRow, ChangeGrants, policyVars
<1> QED
  BY <1>1, <1>2, PTL DEF PoliciesSpec

\* The rewritten policies let no statement through that the original ones did not.
THEOREM NothingIsOpened == PoliciesSpec => []NothingOpened
<1>1. PoliciesTypeOK => NothingOpened
  <2> SUFFICES ASSUME PoliciesTypeOK, NEW command \in Commands, NEW new \in {"hidden", "shown"},
                      Done(Optimized[table], command, new)
               PROVE  Done(Original[table], command, new)
    BY DEF NothingOpened
  <2>1. table \in PolicyTable
    BY DEF PoliciesTypeOK
  <2> QED
    BY <2>1, OriginalTypes, OptimizedTighter, DoneMonotone
<1> QED
  BY <1>1, PoliciesTypeCorrect, PTL

-----------------------------------------------------------------------------
(* Storage.                                                                *)
-----------------------------------------------------------------------------

\* What the listing has given so far: the keys in order, up to its cursor, and of what
\* was there all the time everything behind the cursor.
GivenSoFar ==
  /\ Ascending(yielded)
  /\ cursor # Ended => \A i \in DOMAIN yielded : yielded[i] <= cursor
  /\ \A k \in steady \cap Prefixed : cursor = Ended \/ k <= cursor => k \in ToSet(yielded)
  /\ steady \subseteq Objects

StorageInv == StorageTypeOK /\ GivenSoFar /\ RangesAreTrue

\* The maximum of two integers is the greater one.
LEMMA MaxOfTwo ==
  ASSUME NEW a \in Int, NEW b \in Int
  PROVE  Max({a, b}) = IF a >= b THEN a ELSE b
<1>1. \E x \in {a, b} : \A y \in {a, b} : x >= y
  OBVIOUS
<1> QED
  BY <1>1 DEF Max

\* The headers of every range R2 may serve are those of the bytes it sends.
LEMMA RangeIsTrue ==
  ASSUME NEW size \in Nat, NEW range \in Ranges(size)
  PROVE  LET r    == Response(size, range)
             sent == Body(size, range)[2] - Body(size, range)[1]
         IN  /\ r.length = sent
             /\ r.status = 206 /\ sent > 0 =>
                  r.first = Body(size, range)[1] /\ r.last = Body(size, range)[2] - 1
<1>1. CASE range \in {[kind |-> "suffix", suffix |-> n] : n \in 1..(size + 1)}
  <2>1. PICK n \in 1..(size + 1) : range = [kind |-> "suffix", suffix |-> n]
    BY <1>1
  <2> DEFINE start == Max({0, size - n})
  <2>2. start \in Nat /\ start <= size
    BY MaxOfTwo
  <2>3. Body(size, range) = <<start, size>>
    BY <2>1 DEF Body
  <2>4. Response(size, range) =
          [status |-> 206, length |-> size - start, first |-> start,
           last |-> Max({start, start + (size - start) - 1}), of |-> size]
    BY <2>1 DEF Response, ResponseLength, RangeStart
  <2>5. Max({start, start + (size - start) - 1}) =
          IF size - start > 0 THEN size - 1 ELSE start
    BY <2>2, MaxOfTwo
  <2> HIDE DEF start
  <2> QED
    BY <2>2, <2>3, <2>4, <2>5
<1>2. CASE range \in {[kind |-> "offset", offset |-> o] : o \in 0..(size - 1)}
  <2>1. PICK o \in 0..(size - 1) : range = [kind |-> "offset", offset |-> o]
    BY <1>2
  <2>2. Body(size, range) = <<o, size>>
    BY <2>1 DEF Body
  <2>3. Response(size, range) =
          [status |-> 206, length |-> size - o, first |-> o,
           last |-> Max({o, o + (size - o) - 1}), of |-> size]
    BY <2>1 DEF Response, ResponseLength, RangeStart
  <2>4. Max({o, o + (size - o) - 1}) = size - 1
    BY MaxOfTwo
  <2> QED
    BY <2>2, <2>3, <2>4
<1>3. CASE range \in {[kind |-> "length", offset |-> r[1], length |-> r[2]] :
                        r \in {p \in (0..(size - 1)) \X (1..size) : p[1] + p[2] <= size}}
  <2>1. PICK o \in 0..(size - 1), n \in 1..size :
          range = [kind |-> "length", offset |-> o, length |-> n]
    BY <1>3
  <2>2. Body(size, range) = <<o, o + n>>
    BY <2>1 DEF Body
  <2>3. Response(size, range) =
          [status |-> 206, length |-> n, first |-> o, last |-> Max({o, o + n - 1}), of |-> size]
    BY <2>1 DEF Response, ResponseLength, RangeStart
  <2>4. Max({o, o + n - 1}) = o + n - 1
    BY MaxOfTwo
  <2> QED
    BY <2>2, <2>3, <2>4
<1>4. CASE range \in {[kind |-> "none"]}
  BY <1>4 DEF Response, ResponseLength, Body
<1> QED
  BY <1>1, <1>2, <1>3, <1>4 DEF Ranges

\* A page goes on where the last one ended, and its own last key is its greatest.
LEMMA PageFollows ==
  ASSUME StorageInv, cursor # Ended, NEW page \in Pages
  PROVE  /\ page \in Seq(ObjectKey)
         /\ \A i \in DOMAIN page : page[i] \in Remaining
         /\ Ascending(page)
         /\ page # <<>> => Last(page) \in Remaining /\ \A i \in DOMAIN page : page[i] <= Last(page)
         /\ \A k \in Remaining : k \in ToSet(page) \/ (page # <<>> /\ k > Last(page))
<1> USE StorageAssumption
<1>1. PICK n \in 0..PageLimit : page \in [1..n -> Remaining]
  BY DEF Pages
<1>2. page \in Seq(Remaining) /\ Len(page) = n /\ DOMAIN page = 1..n
  BY <1>1
<1>3. /\ Ascending(page)
      /\ page = <<>> => Remaining = {}
      /\ \A i \in DOMAIN page : {k \in Remaining : k < page[i]} \subseteq ToSet(page)
  BY DEF Pages
<1>4. Remaining \subseteq ObjectKey /\ ObjectKey \subseteq Nat
  BY DEF Remaining, Objects
<1>5. ASSUME page # <<>>
      PROVE  /\ n > 0 /\ Last(page) = page[n] /\ Last(page) \in Remaining
             /\ \A i \in DOMAIN page : page[i] <= Last(page)
  <2>1. n > 0 /\ Last(page) = page[n] /\ Last(page) \in Remaining
    BY <1>1, <1>2, <1>5 DEF Last
  <2>2. ASSUME NEW i \in DOMAIN page
        PROVE  page[i] <= page[n]
    <3>1. page[i] \in Nat /\ page[n] \in Nat
      BY <1>1, <1>2, <1>4, <2>1
    <3>2. CASE i = n
      BY <3>1, <3>2
    <3>3. CASE i < n
      BY <3>1, <3>3, <1>2, <1>3, <2>1 DEF Ascending
    <3> QED
      BY <3>2, <3>3, <1>2
  <2> QED
    BY <2>1, <2>2
<1>6. ASSUME NEW k \in Remaining, k \notin ToSet(page)
      PROVE  page # <<>> /\ k > Last(page)
  <2>1. page # <<>>
    BY <1>3
  <2>2. n > 0 /\ Last(page) = page[n] /\ Last(page) \in Remaining
    BY <2>1, <1>5
  <2>5. n \in DOMAIN page /\ Last(page) \in Nat /\ k \in Nat
    <3>1. n \in DOMAIN page
      BY <2>2, <1>1, <1>2
    <3>2. k \in Nat
      BY <1>4
    <3>3. Last(page) \in Nat
      BY <2>2, <1>4
    <3> QED
      BY <3>1, <3>2, <3>3
  <2>3. k # Last(page)
    BY <2>2, <2>5, <1>6 DEF ToSet
  <2>4. ~(k < Last(page))
    BY <2>2, <2>5, <1>3, <1>6
  <2> QED
    BY <2>1, <2>5, <2>3, <2>4
<1>7. page \in Seq(ObjectKey) /\ \A i \in DOMAIN page : page[i] \in Remaining
  <2>1. page \in [1..n -> ObjectKey]
    BY <1>1, <1>4
  <2>2. page \in Seq(ObjectKey)
    BY <2>1
  <2> QED
    BY <1>1, <2>2
<1> QED
  BY <1>3, <1>5, <1>6, <1>7

\* A page brings the cursor on and leaves nothing behind it.
LEMMA ListPageStep ==
  ASSUME StorageInv, ListPage
  PROVE  StorageInv'
<1> USE StorageAssumption DEF Ended
<1>1. cursor # Ended
  BY DEF ListPage
<1>2. PICK page \in Pages :
        /\ yielded' = yielded \o page
        /\ cursor' = Following(page, ToSet(page) # Remaining)
  BY DEF ListPage
<1>3. /\ page \in Seq(ObjectKey)
      /\ \A i \in DOMAIN page : page[i] \in Remaining
      /\ Ascending(page)
      /\ page # <<>> => Last(page) \in Remaining /\ \A i \in DOMAIN page : page[i] <= Last(page)
      /\ \A k \in Remaining : k \in ToSet(page) \/ (page # <<>> /\ k > Last(page))
  BY <1>1, PageFollows
<1>4. UNCHANGED <<bucket, writes, steady>> /\ call' = NoCall
  BY DEF ListPage
<1>5. yielded \in Seq(ObjectKey) /\ cursor \in {0} \cup ObjectKey
  BY <1>1 DEF StorageInv, StorageTypeOK
<1>6. cursor' = Ended \/ (page # <<>> /\ cursor' = Last(page) /\ cursor' \in ObjectKey)
  <2>1. CASE ToSet(page) = Remaining
    BY <2>1, <1>2 DEF Following
  <2>2. CASE ToSet(page) # Remaining
    <3>1. page # <<>>
      <4>1. ASSUME page = <<>> PROVE FALSE
        BY <4>1, <1>2, <2>2 DEF Pages, ToSet
      <4> QED
        BY <4>1
    <3> QED
      BY <3>1, <2>2, <1>2, <1>3 DEF Following, Remaining, Objects
  <2> QED
    BY <2>1, <2>2
<1>7. StorageTypeOK'
  <2>1. yielded' \in Seq(ObjectKey)
    BY <1>2, <1>3, <1>5
  <2> QED
    BY <2>1, <1>4, <1>6 DEF StorageInv, StorageTypeOK
<1>8. /\ DOMAIN yielded' = 1..(Len(yielded) + Len(page))
      /\ \A i \in 1..Len(yielded) : yielded'[i] = yielded[i]
      /\ \A i \in (Len(yielded) + 1)..(Len(yielded) + Len(page)) :
           yielded'[i] = page[i - Len(yielded)] /\ i - Len(yielded) \in DOMAIN page
  BY <1>2, <1>3, <1>5
<1>9. Len(yielded) \in Nat /\ Len(page) \in Nat /\ DOMAIN yielded = 1..Len(yielded)
      /\ DOMAIN page = 1..Len(page)
  BY <1>3, <1>5
<1>10. ToSet(yielded') = ToSet(yielded) \cup ToSet(page)
  <2>1. ASSUME NEW i \in DOMAIN yielded'
        PROVE  yielded'[i] \in ToSet(yielded) \cup ToSet(page)
    <3>1. CASE i \in 1..Len(yielded)
      BY <3>1, <1>8, <1>9 DEF ToSet
    <3>2. CASE i \in (Len(yielded) + 1)..(Len(yielded) + Len(page))
      BY <3>2, <1>8, <1>9 DEF ToSet
    <3> QED
      BY <3>1, <3>2, <1>8, <1>9
  <2>2. ASSUME NEW i \in DOMAIN yielded
        PROVE  yielded[i] \in ToSet(yielded')
    BY <1>8, <1>9 DEF ToSet
  <2>3. ASSUME NEW i \in DOMAIN page
        PROVE  page[i] \in ToSet(yielded')
    <3>1. i + Len(yielded) \in (Len(yielded) + 1)..(Len(yielded) + Len(page))
      BY <1>9
    <3>2. yielded'[i + Len(yielded)] = page[i]
      BY <3>1, <1>8, <1>9
    <3>3. i + Len(yielded) \in DOMAIN yielded'
      BY <3>1, <1>8, <1>9
    <3> QED
      BY <3>2, <3>3 DEF ToSet
  <2> QED
    BY <2>1, <2>2, <2>3 DEF ToSet
<1>11. /\ \A i \in DOMAIN yielded : yielded[i] \in ObjectKey /\ yielded[i] <= cursor
       /\ \A i \in DOMAIN page : page[i] \in ObjectKey /\ page[i] > cursor
  BY <1>1, <1>3, <1>5 DEF StorageInv, GivenSoFar, Remaining, Objects
<1>12. Ascending(yielded)'
  <2> SUFFICES ASSUME NEW i \in DOMAIN yielded', NEW j \in DOMAIN yielded', i < j
               PROVE  yielded'[i] < yielded'[j]
    BY DEF Ascending
  <2>1. CASE j \in 1..Len(yielded)
    <3>1. i \in 1..Len(yielded)
      BY <2>1, <1>8, <1>9
    <3> QED
      BY <3>1, <2>1, <1>8, <1>9 DEF StorageInv, GivenSoFar, Ascending
  <2>2. CASE i \in 1..Len(yielded) /\ j \notin 1..Len(yielded)
    <3>1. j \in (Len(yielded) + 1)..(Len(yielded) + Len(page))
      BY <2>2, <1>8, <1>9
    <3>2. yielded'[i] <= cursor /\ yielded'[j] > cursor /\ yielded'[i] \in Nat /\ yielded'[j] \in Nat
      BY <3>1, <2>2, <1>8, <1>9, <1>11
    <3> QED
      BY <3>2, <1>5
  <2>3. CASE i \notin 1..Len(yielded) /\ j \notin 1..Len(yielded)
    <3>1. /\ i \in (Len(yielded) + 1)..(Len(yielded) + Len(page))
          /\ j \in (Len(yielded) + 1)..(Len(yielded) + Len(page))
      BY <2>3, <1>8, <1>9
    <3>2. i - Len(yielded) < j - Len(yielded)
      BY <3>1, <1>9
    <3> QED
      BY <3>1, <3>2, <1>3, <1>8 DEF Ascending
  <2> QED
    BY <2>1, <2>2, <2>3
<1>13. ASSUME cursor' # Ended, NEW i \in DOMAIN yielded'
       PROVE  yielded'[i] <= cursor'
  <2>1. page # <<>> /\ cursor' = Last(page) /\ cursor' \in Remaining
    BY <1>3, <1>6, <1>13
  <2>2. cursor' > cursor /\ cursor' \in Nat
    BY <2>1 DEF Remaining, Objects
  <2>3. CASE i \in 1..Len(yielded)
    <3>1. yielded'[i] \in Nat /\ yielded'[i] <= cursor
      BY <2>3, <1>8, <1>9, <1>11
    <3> QED
      BY <3>1, <2>2, <1>5
  <2>4. CASE i \in (Len(yielded) + 1)..(Len(yielded) + Len(page))
    <3>1. yielded'[i] = page[i - Len(yielded)] /\ i - Len(yielded) \in DOMAIN page
      BY <2>4, <1>8
    <3>2. page[i - Len(yielded)] <= Last(page)
      BY <2>1, <3>1, <1>3
    <3> QED
      BY <2>1, <3>1, <3>2
  <2> QED
    BY <2>3, <2>4, <1>8, <1>9
<1>14. ASSUME NEW k \in steady' \cap Prefixed, cursor' = Ended \/ k <= cursor'
       PROVE  k \in ToSet(yielded')
  <2>1. k \in steady /\ k \in Prefixed /\ k \in Objects /\ k \in Nat
    BY <1>4, <1>14 DEF StorageInv, GivenSoFar, Objects
  <2>2. CASE k <= cursor
    BY <2>1, <2>2, <1>10 DEF StorageInv, GivenSoFar
  <2>3. CASE k > cursor
    <3>1. k \in Remaining
      BY <2>1, <2>3 DEF Remaining
    <3>2. CASE cursor' = Ended
      <4>1. ToSet(page) = Remaining
        <5>1. ASSUME ToSet(page) # Remaining PROVE FALSE
          <6>1. page # <<>>
            <7>1. ASSUME page = <<>> PROVE FALSE
              BY <7>1, <5>1, <1>2 DEF Pages, ToSet
            <7> QED
              BY <7>1
          <6>2. cursor' = Last(page) /\ Last(page) \in Nat
            BY <6>1, <5>1, <1>2, <1>3 DEF Following, Remaining, Objects
          <6> QED
            BY <6>2, <3>2
        <5> QED
          BY <5>1
      <4> QED
        BY <3>1, <4>1, <1>10
    <3>3. CASE cursor' # Ended
      <4>1. cursor' = Last(page) /\ k <= Last(page) /\ Last(page) \in Nat
        BY <3>3, <1>3, <1>6, <1>14 DEF Remaining, Objects
      <4>2. k \in ToSet(page)
        BY <3>1, <4>1, <2>1, <1>3
      <4> QED
        BY <4>2, <1>10
    <3> QED
      BY <3>2, <3>3
  <2> QED
    BY <2>1, <2>2, <2>3, <1>5
<1>15. (steady \subseteq Objects)'
  BY <1>4 DEF StorageInv, GivenSoFar, Objects
<1>16. RangesAreTrue'
  BY <1>4 DEF RangesAreTrue, NoCall
<1> QED
  BY <1>7, <1>12, <1>13, <1>14, <1>15, <1>16 DEF StorageInv, GivenSoFar

\* A write leaves the listing alone, and what it takes away is steady no more.
LEMMA WroteKeeps ==
  ASSUME StorageInv, NEW b \in [ObjectKey -> NoObject..MaxSize], Wrote(b)
  PROVE  StorageTypeOK' /\ GivenSoFar'
<1> USE StorageAssumption DEF Ended, NoObject, Listing
<1>1. /\ bucket' = b /\ steady' = {k \in steady : b[k] # NoObject}
      /\ yielded' = yielded /\ cursor' = cursor /\ writes' = writes + 1 /\ writes < MaxWrites
  BY DEF Wrote
<1>2. StorageTypeOK'
  <2>1. writes' \in 0..MaxWrites
    <3>1. writes \in 0..MaxWrites
      BY DEF StorageInv, StorageTypeOK
    <3> QED
      BY <1>1, <3>1
  <2>2. steady' \subseteq ObjectKey
    BY <1>1 DEF StorageInv, StorageTypeOK
  <2> QED
    BY <1>1, <2>1, <2>2 DEF StorageInv, StorageTypeOK
<1>3. (steady \subseteq Objects)'
  BY <1>1 DEF StorageInv, StorageTypeOK, Objects
<1> QED
  BY <1>1, <1>2, <1>3 DEF StorageInv, GivenSoFar, Ascending

\* Every step keeps the invariant.
LEMMA StorageStep == StorageInv /\ [StorageNext]_storageVars => StorageInv'
<1> SUFFICES ASSUME StorageInv, [StorageNext]_storageVars
             PROVE  StorageInv'
  OBVIOUS
<1> USE StorageAssumption
<1>1. ASSUME NEW k \in ObjectKey, NEW size \in 0..MaxSize, NEW ifAbsent \in BOOLEAN,
             PutObject(k, size, ifAbsent)
      PROVE  StorageInv'
  <2> DEFINE b == IF k \in Refused \/ (ifAbsent /\ k \in Objects) THEN bucket
                  ELSE [bucket EXCEPT ![k] = size]
  <2>1. b \in [ObjectKey -> NoObject..MaxSize] /\ Wrote(b) /\ call'.name = "put"
    BY <1>1 DEF PutObject, StorageInv, StorageTypeOK, NoObject
  <2> QED
    BY <2>1, WroteKeeps DEF StorageInv, RangesAreTrue
<1>2. ASSUME NEW keys \in SUBSET ObjectKey, DeleteObjects(keys)
      PROVE  StorageInv'
  <2> DEFINE b == IF Accepted(keys)
                  THEN [k \in ObjectKey |-> IF k \in keys THEN NoObject ELSE bucket[k]]
                  ELSE bucket
  <2>1. b \in [ObjectKey -> NoObject..MaxSize] /\ Wrote(b) /\ call'.name = "delete"
    BY <1>2 DEF DeleteObjects, StorageInv, StorageTypeOK, NoObject
  <2> QED
    BY <2>1, WroteKeeps DEF StorageInv, RangesAreTrue
<1>3. ASSUME NEW k \in ObjectKey, NEW holds \in BOOLEAN, GetObject(k, holds)
      PROVE  StorageInv'
  <2>1. StorageTypeOK' /\ GivenSoFar'
    BY <1>3 DEF GetObject, Listing, StorageInv, StorageTypeOK, GivenSoFar, Objects, Ascending
  <2>2. CASE call' \in {[name |-> "get", kind |-> "refused"], [name |-> "get", kind |-> "not-found"],
                        [name |-> "get", kind |-> "precondition-failed"]}
    BY <2>1, <2>2 DEF StorageInv, RangesAreTrue
  <2>3. CASE k \in Objects /\ \E range \in Ranges(bucket[k]) :
               call' = [name |-> "get", kind |-> "found", body |-> Body(bucket[k], range),
                        response |-> Response(bucket[k], range)]
    <3>1. bucket[k] \in Nat
      BY <2>3 DEF StorageInv, StorageTypeOK, Objects, NoObject
    <3>2. RangesAreTrue'
      BY <2>3, <3>1, RangeIsTrue DEF RangesAreTrue
    <3> QED
      BY <2>1, <3>2 DEF StorageInv
  <2> QED
    BY <1>3, <2>2, <2>3 DEF GetObject
<1>4. CASE ListPage
  BY <1>4, ListPageStep
<1>5. CASE UNCHANGED storageVars
  BY <1>5 DEF storageVars, StorageInv, StorageTypeOK, GivenSoFar, RangesAreTrue, Objects, Ascending
<1> QED
  BY <1>1, <1>2, <1>3, <1>4, <1>5 DEF StorageNext

\* Before the first call nothing was listed, and all that is there is steady.
LEMMA StorageStart == StorageInit => StorageInv
<1> SUFFICES ASSUME StorageInit PROVE StorageInv
  OBVIOUS
<1> USE StorageAssumption DEF StorageInit, NoObject, Ended
<1>1. bucket \in [ObjectKey -> NoObject..MaxSize]
  OBVIOUS
<1>2. yielded = <<>> /\ yielded \in Seq(ObjectKey) /\ DOMAIN yielded = {}
  OBVIOUS
<1> QED
  <2>1. StorageTypeOK
    BY <1>1, <1>2 DEF StorageTypeOK, Objects
  <2>2. ASSUME NEW k \in steady \cap Prefixed, cursor = Ended \/ k <= cursor
        PROVE  FALSE
    <3>1. k \in Nat \ {0} /\ cursor = 0
      BY DEF Objects
    <3> QED
      BY <2>2, <3>1
  <2>3. GivenSoFar
    BY <1>2, <2>2 DEF GivenSoFar, Ascending
  <2>4. RangesAreTrue
    BY DEF RangesAreTrue, NoCall
  <2> QED
    BY <2>1, <2>3, <2>4 DEF StorageInv

\* No key is given twice, and at the end none that stayed is left out.
LEMMA ListedOnceFollows == StorageInv => ListedOnce
<1> SUFFICES ASSUME StorageInv PROVE ListedOnce
  OBVIOUS
<1> USE StorageAssumption
<1>1. ASSUME NEW i \in DOMAIN yielded, NEW j \in DOMAIN yielded, yielded[i] = yielded[j]
      PROVE  i = j
  <2>1. i \in Nat /\ j \in Nat /\ yielded[i] \in Nat
    BY DEF StorageInv, StorageTypeOK
  <2> QED
    BY <1>1, <2>1 DEF StorageInv, GivenSoFar, Ascending
<1> QED
  BY <1>1 DEF ListedOnce, IsInjective, StorageInv, GivenSoFar

\* Objects have a size or are not there, and a listing gives keys.
THEOREM StorageTypeCorrect == StorageSpec => []StorageTypeOK
<1>1. StorageInv => StorageTypeOK
  BY DEF StorageInv
<1> QED
  BY <1>1, StorageStart, StorageStep, PTL DEF StorageSpec

\* A listing gives what stays once, whatever is written between its pages, and the
\* headers of a range are those of its bytes.
THEOREM StorageWordKept == StorageSpec => []StorageKeepsItsWord
<1>1. StorageInv => StorageKeepsItsWord
  BY ListedOnceFollows DEF StorageInv, StorageKeepsItsWord
<1> QED
  BY <1>1, StorageStart, StorageStep, PTL DEF StorageSpec
=============================================================================
