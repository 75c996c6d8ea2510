------------------------------ MODULE Webhooks ------------------------------
(***************************************************************************)
(* Ingestion of webhooks: a signed event is claimed in the idempotency     *)
(* store, handled, and its claim completed or, if anything throws,         *)
(* released.                                                               *)
(*                                                                         *)
(* A sender repeats an event until a delivery is answered with 2xx, and    *)
(* deliveries of one event may overlap.  Each call of the store and of the *)
(* handler can throw before or after it took effect.  Both are ports: the  *)
(* store keeps one claim per event, which is all processWebhook asks of it.*)
(***************************************************************************)
EXTENDS Naturals

CONSTANTS
  HookDelivery, HookEvent,
  Nothing  \* what a delivery carries that was not sent yet

VARIABLES
  sent,        \* what each delivery carries: its event, and what is wrong with it
  stage,       \* where its request is
  answer,      \* what its sender has heard
  claim,       \* the store: "free", "claimed" or "completed"
  handled,     \* how often the handler took effect
  overlapped,  \* history: deliveries answered "duplicate" while another had the event in hand
  unrecorded,  \* history: events that were handled without a record of it
  abandoned    \* history: events whose claim nobody will complete or release

hookVars == <<sent, stage, answer, claim, handled, overlapped, unrecorded, abandoned>>

Defect == {"none", "signature", "age", "body"}

InHand == {"handling", "completing", "releasing"}

HookInit ==
  /\ sent   = [d \in HookDelivery |-> Nothing]
  /\ stage   = [d \in HookDelivery |-> "unsent"]
  /\ answer = [d \in HookDelivery |-> "none"]
  /\ claim   = [e \in HookEvent |-> "free"]
  /\ handled = [e \in HookEvent |-> 0]
  /\ overlapped = {} /\ unrecorded = {} /\ abandoned = {}

Of(e) == {d \in HookDelivery : stage[d] # "unsent" /\ sent[d].event = e}

Reach(d, at) == stage' = [stage EXCEPT ![d] = at] /\ UNCHANGED answer

Respond(d, status) ==
  /\ stage' = [stage EXCEPT ![d] = "done"]
  /\ answer' = [answer EXCEPT ![d] = IF @ = "none" THEN status ELSE @]

Kept   == <<sent, handled, overlapped, unrecorded>>
Store(d, value) == claim' = [claim EXCEPT ![sent[d].event] = value]

\* The sender repeats what was not answered with 2xx; anyone may send what the
\* signature, its timestamp or the schema rejects.
Send(d, e, defect) ==
  /\ stage[d] = "unsent"
  /\ \A c \in Of(e) : answer[c] \in {"refused", "failed", "lost"}
  /\ sent' = [sent EXCEPT ![d] = [event |-> e, defect |-> defect]]
  /\ Reach(d, "admitting")
  /\ UNCHANGED <<claim, handled, overlapped, unrecorded, abandoned>>

\* The sender stops waiting; the request goes on.
GiveUp(d) ==
  /\ stage[d] \notin {"unsent", "done"} /\ answer[d] = "none"
  /\ answer' = [answer EXCEPT ![d] = "lost"]
  /\ UNCHANGED <<stage, claim, abandoned, Kept>>

\* The invocation ends, or its response does not arrive.
HookCrash(d) ==
  /\ stage[d] \notin {"unsent", "done"}
  /\ Respond(d, "lost")
  /\ abandoned' = IF stage[d] \in InHand THEN abandoned \cup {sent[d].event} ELSE abandoned
  /\ UNCHANGED <<claim, Kept>>

\* The rate limiter refuses or fails, or the body cannot be read.
RateLimited(d) ==
  /\ stage[d] = "admitting"
  /\ \E status \in {"refused", "failed"} : Respond(d, status)
  /\ UNCHANGED <<claim, abandoned, Kept>>

\* Signature, age and body are judged before the store hears of the event.
Verify(d) ==
  /\ stage[d] = "admitting"
  /\ IF sent[d].defect = "none" THEN Reach(d, "claiming") ELSE Respond(d, "refused")
  /\ UNCHANGED <<claim, abandoned, Kept>>

Claim(d) ==
  LET e == sent[d].event IN
  /\ stage[d] = "claiming"
  /\ IF claim[e] = "free"
       THEN Store(d, "claimed") /\ Reach(d, "handling") /\ UNCHANGED overlapped
       ELSE /\ Respond(d, "duplicate")
            /\ overlapped' = IF \E c \in Of(e) : stage[c] \in InHand
                               THEN overlapped \cup {d} ELSE overlapped
            /\ UNCHANGED claim
  /\ UNCHANGED <<sent, handled, unrecorded, abandoned>>

\* The claim is outside the try clause: it stays if the call took effect.
ClaimThrows(d) ==
  LET e == sent[d].event IN
  /\ stage[d] = "claiming"
  /\ \/ UNCHANGED <<claim, abandoned>>
     \/ claim[e] = "free" /\ Store(d, "claimed") /\ abandoned' = abandoned \cup {e}
  /\ Respond(d, "failed")
  /\ UNCHANGED Kept

Handle(d) ==
  /\ stage[d] = "handling"
  /\ handled' = [handled EXCEPT ![sent[d].event] = @ + 1]
  /\ Reach(d, "completing")
  /\ UNCHANGED <<sent, claim, overlapped, unrecorded, abandoned>>

\* Mutant of HandleThrows: the claim is not released.
HandleThrowsKept(d) ==
  /\ stage[d] = "handling"
  /\ Respond(d, "failed")
  /\ UNCHANGED <<claim, abandoned, Kept>>

\* The handler throws, before or after it took effect.
HandleThrows(d) ==
  LET e == sent[d].event IN
  /\ stage[d] = "handling"
  /\ \/ UNCHANGED <<handled, unrecorded>>
     \/ handled' = [handled EXCEPT ![e] = @ + 1] /\ unrecorded' = unrecorded \cup {e}
  /\ Reach(d, "releasing")
  /\ UNCHANGED <<sent, claim, overlapped, abandoned>>

Complete(d) ==
  /\ stage[d] = "completing"
  /\ Store(d, "completed")
  /\ Respond(d, "accepted")
  /\ UNCHANGED <<abandoned, Kept>>

\* The event was handled; the claim is released all the same.
CompleteThrows(d) ==
  /\ stage[d] = "completing"
  /\ UNCHANGED claim \/ Store(d, "completed")
  /\ unrecorded' = unrecorded \cup {sent[d].event}
  /\ Reach(d, "releasing")
  /\ UNCHANGED <<sent, handled, overlapped, abandoned>>

Release(d) ==
  /\ stage[d] = "releasing"
  /\ Store(d, "free")
  /\ Respond(d, "failed")
  /\ UNCHANGED <<abandoned, Kept>>

ReleaseThrows(d) ==
  /\ stage[d] = "releasing"
  /\ \/ Store(d, "free") /\ UNCHANGED abandoned
     \/ UNCHANGED claim /\ abandoned' = abandoned \cup {sent[d].event}
  /\ Respond(d, "failed")
  /\ UNCHANGED Kept

Process(d) ==
  \/ RateLimited(d) \/ Verify(d) \/ Claim(d) \/ ClaimThrows(d)
  \/ Handle(d) \/ HandleThrows(d) \/ Complete(d) \/ CompleteThrows(d)
  \/ Release(d) \/ ReleaseThrows(d)

HookNext ==
  \/ \E d \in HookDelivery, e \in HookEvent, defect \in Defect : Send(d, e, defect)
  \/ \E d \in HookDelivery : Process(d) \/ GiveUp(d) \/ HookCrash(d)

HookSpec == HookInit /\ [][HookNext]_hookVars

-----------------------------------------------------------------------------

\* Every variable has its type.
WebhooksTypeOK ==
  /\ stage   \in [HookDelivery -> {"unsent", "admitting", "claiming", "done"} \cup InHand]
  /\ sent   \in [HookDelivery -> [event : HookEvent, defect : Defect] \cup {Nothing}]
  /\ \A d \in HookDelivery : stage[d] # "unsent" => sent[d] \in [event : HookEvent, defect : Defect]
  /\ answer \in [HookDelivery -> {"none", "accepted", "duplicate", "refused", "failed", "lost"}]
  /\ claim   \in [HookEvent -> {"free", "claimed", "completed"}]
  /\ handled \in [HookEvent -> Nat]
  /\ overlapped \subseteq HookDelivery
  /\ unrecorded \subseteq HookEvent /\ abandoned \subseteq HookEvent

\* 2xx ends the repetitions of an event, so it must have been handled.  Two kinds
\* of "duplicate" are answered too early: while another delivery has the event in
\* hand, whose handler may still throw, and when a claim was left behind by a crash
\* or a failing call.  And an event is handled twice only if its handling could not
\* be recorded, because the handler threw behind its effect or complete threw.
AcknowledgedIsHandled ==
  /\ \A d \in HookDelivery :
       /\ answer[d] = "accepted" => handled[sent[d].event] > 0
       /\ answer[d] = "duplicate" =>
            \/ handled[sent[d].event] > 0
            \/ d \in overlapped
            \/ sent[d].event \in abandoned
  /\ \A e \in HookEvent : handled[e] > 1 => e \in unrecorded
=============================================================================
