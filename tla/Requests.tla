------------------------------ MODULE Requests ------------------------------
(***************************************************************************)
(* The requests of the HTTP API that write: forms of the public site,      *)
(* leads, and what admins do: replies, changes of a thread, and the        *)
(* commands whose service is not there yet.  A sender has one thing to say *)
(* and sends it again when it was refused, failed, or heard nothing.       *)
(*                                                                         *)
(* Each awaited call of a handler is a step: the rate limiter, Turnstile's *)
(* siteverify, the two reads that resolve an admin's permissions, the      *)
(* thread, the accepting transaction, the publication of its emails.  A    *)
(* call can fail before or after it took effect, the invocation can die,   *)
(* and the sender can give up while the handler goes on.                   *)
(***************************************************************************)
EXTENDS Naturals, FiniteSets

CONSTANTS
  Request, Sender, Token,
  Nothing,      \* what was not sent, or not heard
  KindsOf,      \* what each sender may send: "lead", "form", "reply", "update" or "command"
  FormAction,   \* the Turnstile action its route demands of a form
  TokenAction   \* the action, on this hostname, a token was issued for

\* What a sender may send, with a token of Turnstile or without one.
Submission == [sender : Sender, kind : UNION {KindsOf[s] : s \in Sender},
               token : Token \cup {Nothing}, valid : BOOLEAN]

ASSUME RequestsAssumption ==
  Nothing \notin Submission \cup Token \cup {"accepted", "refused", "failed", "lost"}

VARIABLES
  request,      \* what was sent, Nothing before that
  step,         \* where the handler of each request is
  told,         \* what the sender has heard: "accepted", "refused", "failed" or "lost"
  stored,       \* the requests whose transaction committed
  spent,        \* tokens that siteverify redeemed, or that expired
  activeSenders,  \* senders whose profile is active
  granted,      \* senders with a role that grants the permission of their route
  unconfirmed,  \* history: requests that committed and were not told so by the database
  inactive,     \* history: requests whose sender has not been active since it was sent
  ungranted     \* history: requests whose sender has not been granted since then

grants      == <<activeSenders, granted, inactive, ungranted>>
requestVars == <<request, step, told, stored, spent, activeSenders, granted, unconfirmed, inactive,
                 ungranted>>

RequestsInit ==
  /\ request = [r \in Request |-> Nothing]
  /\ step    = [r \in Request |-> "unsent"]
  /\ told    = [r \in Request |-> Nothing]
  /\ stored = {} /\ spent = {} /\ unconfirmed = {} /\ inactive = {} /\ ungranted = {}
  /\ activeSenders = Sender
  /\ granted = Sender

Of(s)   == {r \in Request : request[r] # Nothing /\ request[r].sender = s}
Kind(r) == request[r].kind

\* Behind the authentication and the permission of every route of /admin.
Guarded == {"reply", "update", "command"}

Advance(r, at) == step' = [step EXCEPT ![r] = at] /\ UNCHANGED told

\* The response of onError or of success, if the sender still waits for it.
Respond(r, status) ==
  /\ step' = [step EXCEPT ![r] = "done"]
  /\ told' = [told EXCEPT ![r] = IF @ = Nothing THEN status ELSE @]

(***************************************************************************)
(* Senders                                                                 *)
(***************************************************************************)

\* A sender sends again with the same input or other, and the same token or other.
Send(s, kind, r, t, valid) ==
  /\ request[r] = Nothing
  /\ \A q \in Of(s) : told[q] \in {"refused", "failed", "lost"} /\ Kind(q) = kind
  /\ (t # Nothing) <=> (kind = "form")
  /\ request' = [request EXCEPT ![r] = [sender |-> s, kind |-> kind, token |-> t, valid |-> valid]]
  /\ Advance(r, IF kind \in Guarded THEN "authenticating" ELSE "admitting")
  /\ inactive' = IF s \in activeSenders THEN inactive ELSE inactive \cup {r}
  /\ ungranted' = IF s \in granted THEN ungranted ELSE ungranted \cup {r}
  /\ UNCHANGED <<stored, spent, activeSenders, granted, unconfirmed>>

GiveUp(r) ==
  /\ step[r] \notin {"unsent", "done"} /\ told[r] = Nothing
  /\ told' = [told EXCEPT ![r] = "lost"]
  /\ UNCHANGED <<request, step, stored, spent, unconfirmed, grants>>

\* The invocation dies, or its response does not arrive.
Crash(r) ==
  /\ step[r] \notin {"unsent", "done"}
  /\ Respond(r, "lost")
  /\ UNCHANGED <<request, stored, spent, unconfirmed, grants>>

(***************************************************************************)
(* Before the transaction                                                  *)
(***************************************************************************)

\* enforceRateLimit: over the limit, or the binding fails.
RateLimited(r) ==
  /\ step[r] = "admitting"
  /\ \E status \in {"refused", "failed"} : Respond(r, status)
  /\ UNCHANGED <<request, stored, spent, unconfirmed, grants>>

\* The limiter lets the request pass, and its body is parsed.
Admit(r) ==
  /\ step[r] = "admitting"
  /\ IF ~request[r].valid THEN Respond(r, "refused")
     ELSE Advance(r, IF Kind(r) = "form" THEN "verifying" ELSE "persisting")
  /\ UNCHANGED <<request, stored, spent, unconfirmed, grants>>

\* siteverify redeems a token once, whoever asks and whatever action is wanted.
VerifyTurnstile(r) ==
  LET t == request[r].token IN
  /\ step[r] = "verifying"
  /\ spent' = spent \cup {t}
  /\ IF t \notin spent /\ TokenAction[t] = FormAction[request[r].sender]
       THEN Advance(r, "persisting")
       ELSE Respond(r, "refused")
  /\ UNCHANGED <<request, stored, unconfirmed, grants>>

\* Mutant of VerifyUnavailable: the verification fails open.
VerifyUnavailableOpen(r) ==
  /\ step[r] = "verifying"
  /\ spent' \in {spent, spent \cup {request[r].token}}
  /\ Advance(r, "persisting")
  /\ UNCHANGED <<request, stored, unconfirmed, grants>>

\* No answer within five seconds, or none that can be read: it may have redeemed.
VerifyUnavailable(r) ==
  /\ step[r] = "verifying"
  /\ spent' \in {spent, spent \cup {request[r].token}}
  /\ Respond(r, "failed")
  /\ UNCHANGED <<request, stored, unconfirmed, grants>>

\* The token of the session is missing or invalid, or its keys or the database
\* cannot be read.
Unauthenticated(r) ==
  /\ step[r] \in {"authenticating", "authorizing"}
  /\ \E status \in {"refused", "failed"} : Respond(r, status)
  /\ UNCHANGED <<request, stored, spent, unconfirmed, grants>>

\* getUserAuthorization, first query.
ReadProfile(r) ==
  /\ step[r] = "authenticating"
  /\ IF request[r].sender \in activeSenders
       THEN Advance(r, "authorizing")
       ELSE Respond(r, "refused")
  /\ UNCHANGED <<request, stored, spent, unconfirmed, grants>>

\* getUserAuthorization, second query, and requireRoutePermission; the body is
\* parsed behind them.
ReadGrants(r) ==
  /\ step[r] = "authorizing"
  /\ IF request[r].sender \in granted /\ request[r].valid
       THEN Advance(r, IF Kind(r) = "reply" THEN "finding" ELSE "persisting")
       ELSE Respond(r, "refused")
  /\ UNCHANGED <<request, stored, spent, unconfirmed, grants>>

\* getThread: found and sendable, or not, or it throws.
FindThread(r) ==
  /\ step[r] = "finding"
  /\ \/ Advance(r, "persisting")
     \/ \E status \in {"refused", "failed"} : Respond(r, status)
  /\ UNCHANGED <<request, stored, spent, unconfirmed, grants>>

(***************************************************************************)
(* The transaction, and behind it                                          *)
(***************************************************************************)

\* Every row has a fresh id: nothing makes two requests of a sender conflict.  A
\* lead and a change of a thread have no email to publish.
Persist(r) ==
  /\ step[r] = "persisting" /\ Kind(r) # "command"
  /\ stored' = stored \cup {r}
  /\ Advance(r, IF Kind(r) \in {"lead", "update"} THEN "accepting" ELSE "publishing")
  /\ UNCHANGED <<request, spent, unconfirmed, grants>>

\* updateEmailThread finds no thread to change, and leaves no audit entry.
UpdateNothing(r) ==
  /\ step[r] = "persisting" /\ Kind(r) = "update"
  /\ Respond(r, "refused")
  /\ UNCHANGED <<request, stored, spent, unconfirmed, grants>>

\* The ports of the admin service throw: they have no adapter.
PortUnavailable(r) ==
  /\ step[r] = "persisting" /\ Kind(r) = "command"
  /\ Respond(r, "failed")
  /\ UNCHANGED <<request, stored, spent, unconfirmed, grants>>

\* The transaction fails, or it commits and withDatabase throws.
PersistThrows(r) ==
  /\ step[r] = "persisting" /\ Kind(r) # "command"
  /\ \/ UNCHANGED <<stored, unconfirmed>>
     \/ stored' = stored \cup {r} /\ unconfirmed' = unconfirmed \cup {r}
  /\ Respond(r, "failed")
  /\ UNCHANGED <<request, spent, grants>>

\* The outbox keeps the emails, whether their publication succeeds or throws.
PublishPending(r) ==
  /\ step[r] = "publishing"
  /\ Advance(r, "accepting")
  /\ UNCHANGED <<request, stored, spent, unconfirmed, grants>>

Accept(r) ==
  /\ step[r] = "accepting"
  /\ Respond(r, "accepted")
  /\ UNCHANGED <<request, stored, spent, unconfirmed, grants>>

(***************************************************************************)
(* The rest of the world                                                   *)
(***************************************************************************)

TokenExpires(t) ==
  /\ spent' = spent \cup {t}
  /\ UNCHANGED <<request, step, told, stored, unconfirmed, grants>>

\* A profile is suspended or restored.
Suspend(s) ==
  /\ KindsOf[s] \subseteq Guarded
  /\ activeSenders' = IF s \in activeSenders THEN activeSenders \ {s}
                      ELSE activeSenders \cup {s}
  /\ inactive' = IF s \in activeSenders THEN inactive ELSE inactive \ Of(s)
  /\ UNCHANGED <<request, step, told, stored, spent, granted, unconfirmed, ungranted>>

\* The role that grants a sender's permission is withdrawn or assigned.
Regrant(s) ==
  /\ KindsOf[s] \subseteq Guarded
  /\ granted' = IF s \in granted THEN granted \ {s} ELSE granted \cup {s}
  /\ ungranted' = IF s \in granted THEN ungranted ELSE ungranted \ Of(s)
  /\ UNCHANGED <<request, step, told, stored, spent, activeSenders, unconfirmed, inactive>>

Handle(r) ==
  \/ RateLimited(r) \/ Admit(r) \/ VerifyTurnstile(r) \/ VerifyUnavailable(r)
  \/ Unauthenticated(r) \/ ReadProfile(r) \/ ReadGrants(r) \/ FindThread(r)
  \/ Persist(r) \/ UpdateNothing(r) \/ PortUnavailable(r) \/ PersistThrows(r)
  \/ PublishPending(r) \/ Accept(r)

RequestsNext ==
  \/ \E s \in Sender, r \in Request, t \in Token \cup {Nothing}, valid \in BOOLEAN :
       \E kind \in KindsOf[s] : Send(s, kind, r, t, valid)
  \/ \E r \in Request : Handle(r) \/ GiveUp(r) \/ Crash(r)
  \/ \E t \in Token : TokenExpires(t)
  \/ \E s \in Sender : Suspend(s) \/ Regrant(s)

RequestsSpec == RequestsInit /\ [][RequestsNext]_requestVars

-----------------------------------------------------------------------------

\* Every variable has its type.
RequestsTypeOK ==
  /\ request \in [Request -> Submission \cup {Nothing}]
  /\ step \in [Request -> {"unsent", "admitting", "verifying", "authenticating", "authorizing",
                           "finding", "persisting", "publishing", "accepting", "done"}]
  /\ told \in [Request -> {Nothing, "accepted", "refused", "failed", "lost"}]
  /\ stored \subseteq Request /\ unconfirmed \subseteq Request
  /\ inactive \subseteq Request /\ ungranted \subseteq Request
  /\ spent \subseteq Token
  /\ activeSenders \subseteq Sender /\ granted \subseteq Sender

\* What was accepted is stored.  It is stored twice only for a sender that could
\* not know: it heard nothing of a request that was stored, or the commit of one
\* was not confirmed.  No other failure behind the commit, such as that of the
\* publication, makes a sender say again what is stored.
FiledOnce ==
  \A s \in Sender :
    /\ \A r \in Of(s) : told[r] = "accepted" => r \in stored
    /\ Cardinality(Of(s) \cap stored) > 1 =>
         \E r \in Of(s) \cap stored : told[r] = "lost" \/ r \in unconfirmed

\* One token lets one message in, on the form it was issued for, however often
\* it is sent, and a reply or a change is stored only for an admin who was active
\* and granted the permission of the route while the request was handled, whatever
\* changed before and since.
OnlyEntitled ==
  \A r \in stored :
    /\ Kind(r) = "form" =>
         /\ request[r].token \in spent
         /\ TokenAction[request[r].token] = FormAction[request[r].sender]
         /\ \A q \in stored \ {r} : request[q].token # request[r].token
    /\ r \notin inactive \cup ungranted

\* What is stored is stored once, and for who was entitled to it.
StoredAsEntitled == FiledOnce /\ OnlyEntitled
=============================================================================
