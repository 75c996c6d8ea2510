---------------------------- MODULE EmailDelivery ----------------------------
(***************************************************************************)
(* Delivery of queued email: the Cloudflare Queue, the consumers that run  *)
(* consumeEmailBatch, and the durable claim each takes on the message row  *)
(* (claimEmailDelivery, markEmailDeliverySent, markEmailDeliveryFailed).   *)
(*                                                                         *)
(* The queue is at-least-once and unordered: a job may be in it several    *)
(* times, and each copy is handed to a consumer with its delivery number.  *)
(* Every repository call is a step that may throw before or after it took  *)
(* effect, since withDatabase closes its pool after the statement ran.  A  *)
(* consumer works through its batch one message at a time, so the messages *)
(* still waiting in a batch are modelled as still in the queue.            *)
(***************************************************************************)
EXTENDS Naturals

CONSTANTS
  Message,        \* transactional emails, with one row and one job each
  Malformed,      \* those whose job fails the schema check
  Worker,         \* queue consumer invocations
  None,           \* the message of an idle consumer
  MaxDeliveries,  \* deliveries of one copy before the DLQ (8 retries: 9)
  MaxCopies       \* copies counted per message and delivery number

ASSUME DeliveryAssumption ==
  /\ Malformed \subseteq Message
  /\ None \notin Message
  /\ MaxDeliveries \in Nat \ {0}
  /\ MaxCopies \in Nat \ {0}

VARIABLES
  status,     \* comms.email_messages.status
  retryable,  \* comms.email_messages.retryable
  expired,    \* last_attempt_at is more than fifteen minutes old
  ready,      \* copies waiting, by message and number of the next delivery
  parked,     \* a copy of the message is in the dead-letter queue
  step,       \* where each consumer is in consumeEmailBatch
  job,        \* the message it works on
  delivery,   \* message.attempts of the copy it holds
  willRetry,  \* failure.retryable of the error it caught
  enqueued,   \* history: the job was handed to the queue
  sends,      \* history: 0, 1 or more (2) acceptances by the provider
  answers,    \* history: how the calls of the provider's binding ended
  stolen      \* history: a claim took the row from under an expired lease

row   == <<status, retryable, expired>>
queue == <<ready, parked>>
held  == <<step, job, delivery, willRetry>>
past  == <<enqueued, sends, answers, stolen>>
vars  == <<status, retryable, expired, ready, parked, step, job, delivery, willRetry,
           enqueued, sends, answers, stolen>>

MessageStatus == {"absent", "queued", "processing", "provider_accepted", "failed"}
ConsumerStep  == {"idle", "claiming", "reading", "sending", "marking", "failing"}
Deliveries    == 1..MaxDeliveries

Init ==
  /\ status    = [m \in Message |-> "absent"]
  /\ retryable = [m \in Message |-> TRUE]
  /\ expired   = [m \in Message |-> FALSE]
  /\ ready     = [m \in Message |-> [n \in Deliveries |-> 0]]
  /\ parked    = [m \in Message |-> FALSE]
  /\ step      = [w \in Worker |-> "idle"]
  /\ job       = [w \in Worker |-> None]
  /\ delivery  = [w \in Worker |-> 1]
  /\ willRetry = [w \in Worker |-> FALSE]
  /\ enqueued  = [m \in Message |-> FALSE]
  /\ sends     = [m \in Message |-> 0]
  /\ answers   = [m \in Message |-> {}]
  /\ stolen    = [m \in Message |-> FALSE]

\* The claim reports already-processed for these rows.
Terminal(m) ==
  \/ status[m] = "provider_accepted"
  \/ status[m] = "failed" /\ ~retryable[m]

\* nextAttemptAt is the failing consumer's own clock, so it never delays a claim.
Unclaimed(m)   == status[m] = "queued" \/ (status[m] = "failed" /\ retryable[m])
Abandoned(m)   == status[m] = "processing" /\ expired[m]

(***************************************************************************)
(* The queue                                                               *)
(***************************************************************************)

OneMore(k) == IF k < MaxCopies THEN k + 1 ELSE k

\* The message row commits together with the outbox row that will publish it.
InsertMessage(m) ==
  /\ status[m] = "absent"
  /\ status' = [status EXCEPT ![m] = "queued"]
  /\ UNCHANGED <<retryable, expired, queue, held, past>>

\* The outbox publisher's sendBatch stored one more copy of each job of S.
Enqueue(S) ==
  /\ ready'    = [m \in Message |->
                    IF m \in S THEN [ready[m] EXCEPT ![1] = OneMore(@)] ELSE ready[m]]
  /\ enqueued' = [m \in Message |-> enqueued[m] \/ m \in S]
  /\ UNCHANGED <<row, parked, held, sends, answers, stolen>>

TakeCopy(m, n) ==
  /\ ready[m][n] > 0
  /\ ready' = [ready EXCEPT ![m][n] = @ - 1]
  /\ UNCHANGED parked

\* A copy that was not acknowledged is delivered again, or parked for good.
ReturnCopy(w) ==
  LET m == job[w]  n == delivery[w] IN
  IF n < MaxDeliveries
    THEN ready' = [ready EXCEPT ![m][n + 1] = OneMore(@)] /\ UNCHANGED parked
    ELSE parked' = [parked EXCEPT ![m] = TRUE] /\ UNCHANGED ready

(***************************************************************************)
(* The consumer                                                            *)
(***************************************************************************)

GoTo(w, s) == step' = [step EXCEPT ![w] = s] /\ UNCHANGED <<job, delivery, willRetry>>

Catch(w, retry) ==
  /\ step' = [step EXCEPT ![w] = "failing"]
  /\ willRetry' = [willRetry EXCEPT ![w] = retry]
  /\ UNCHANGED <<job, delivery>>

Release(w) ==
  /\ step'      = [step EXCEPT ![w] = "idle"]
  /\ job'       = [job EXCEPT ![w] = None]
  /\ delivery'  = [delivery EXCEPT ![w] = 1]
  /\ willRetry' = [willRetry EXCEPT ![w] = FALSE]

Ack(w)   == Release(w) /\ UNCHANGED queue
Retry(w) == Release(w) /\ ReturnCopy(w)

\* A body that fails the schema check is acknowledged and forgotten.
RejectMalformed(m, n) ==
  /\ m \in Malformed
  /\ TakeCopy(m, n)
  /\ UNCHANGED <<row, held, past>>

Receive(w, m, n) ==
  /\ step[w] = "idle" /\ m \notin Malformed
  /\ TakeCopy(m, n)
  /\ step'     = [step EXCEPT ![w] = "claiming"]
  /\ job'      = [job EXCEPT ![w] = m]
  /\ delivery' = [delivery EXCEPT ![w] = n]
  /\ UNCHANGED <<willRetry, row, past>>

\* Mutant of ClaimRow: the age of a processing row is not tested.
ClaimRowAnyAge(m) ==
  /\ Unclaimed(m) \/ status[m] = "processing"
  /\ status'  = [status EXCEPT ![m] = "processing"]
  /\ expired' = [expired EXCEPT ![m] = FALSE]
  /\ stolen'  = [stolen EXCEPT ![m] = @ \/ Abandoned(m)]
  /\ UNCHANGED <<retryable, enqueued, sends, answers>>

ClaimRow(m) ==
  /\ Unclaimed(m) \/ Abandoned(m)
  /\ status'  = [status EXCEPT ![m] = "processing"]
  /\ expired' = [expired EXCEPT ![m] = FALSE]
  /\ stolen'  = [stolen EXCEPT ![m] = @ \/ Abandoned(m)]
  /\ UNCHANGED <<retryable, enqueued, sends, answers>>

Claim(w) ==
  /\ step[w] = "claiming"
  /\ ClaimRow(job[w])
  /\ GoTo(w, "sending")
  /\ UNCHANGED queue

\* The claiming update matched no row: its status is read by a second query.
ClaimMisses(w) ==
  /\ step[w] = "claiming"
  /\ ~Unclaimed(job[w]) /\ ~Abandoned(job[w])
  /\ GoTo(w, "reading")
  /\ UNCHANGED <<row, queue, past>>

\* A database error carries no provider code and is classified as final; the
\* claim may nevertheless have committed.
ClaimThrows(w) ==
  /\ step[w] = "claiming"
  /\ Catch(w, FALSE)
  /\ ClaimRow(job[w]) \/ UNCHANGED <<row, past>>
  /\ UNCHANGED queue

AlreadyProcessed(w) ==
  /\ step[w] = "reading" /\ Terminal(job[w])
  /\ Ack(w)
  /\ UNCHANGED <<row, past>>

\* Mutant of Busy: a copy whose row another consumer holds is acknowledged.
BusyAck(w) ==
  /\ step[w] = "reading" /\ ~Terminal(job[w])
  /\ Ack(w)
  /\ UNCHANGED <<row, past>>

Busy(w) ==
  /\ step[w] = "reading" /\ ~Terminal(job[w])
  /\ Retry(w)
  /\ UNCHANGED <<row, past>>

\* The second query threw; a missing row throws here too.
ReadThrows(w) ==
  /\ step[w] = "reading"
  /\ Catch(w, FALSE)
  /\ UNCHANGED <<row, queue, past>>

\* One call of the EMAIL binding: whether the provider took the message, and
\* whether the call resolved or threw.
Provider(w, accepts, answer) ==
  /\ sends'   = [sends EXCEPT ![job[w]] = IF accepts /\ @ < 2 THEN @ + 1 ELSE @]
  /\ answers' = [answers EXCEPT ![job[w]] = @ \cup {answer}]
  /\ UNCHANGED <<enqueued, stolen>>

Send(w) ==
  /\ step[w] = "sending"
  /\ Provider(w, TRUE, "resolved")
  /\ GoTo(w, "marking")
  /\ UNCHANGED <<row, queue>>

\* The provider refused with a code: three codes are retryable, others final.
SendRefused(w, retry) ==
  /\ step[w] = "sending"
  /\ Provider(w, FALSE, "threw")
  /\ Catch(w, retry)
  /\ UNCHANGED <<row, queue>>

\* The provider accepted and the binding call failed without a code.
SendUnconfirmed(w) ==
  /\ step[w] = "sending"
  /\ Provider(w, TRUE, "threw")
  /\ Catch(w, FALSE)
  /\ UNCHANGED <<row, queue>>

AcceptRow(m) ==
  /\ status[m] = "processing"
  /\ status'    = [status EXCEPT ![m] = "provider_accepted"]
  /\ retryable' = [retryable EXCEPT ![m] = FALSE]
  /\ UNCHANGED expired

MarkSent(w) ==
  /\ step[w] = "marking"
  /\ AcceptRow(job[w])
  /\ Ack(w)
  /\ UNCHANGED past

\* The row was not processing any more, or the update failed, or its answer did.
MarkSentThrows(w) ==
  /\ step[w] = "marking"
  /\ AcceptRow(job[w]) \/ UNCHANGED row
  /\ Catch(w, FALSE)
  /\ UNCHANGED <<queue, past>>

\* Mutant of FailRow: the update does not test the status it overwrites.
FailRowAnyStatus(m, retry) ==
  /\ status'    = [status EXCEPT ![m] = "failed"]
  /\ retryable' = [retryable EXCEPT ![m] = retry]
  /\ UNCHANGED expired

FailRow(m, retry) ==
  /\ status[m] = "processing"
  /\ status'    = [status EXCEPT ![m] = "failed"]
  /\ retryable' = [retryable EXCEPT ![m] = retry]
  /\ UNCHANGED expired

\* Mutant of MarkFailed: every recorded failure acknowledges the copy.
MarkFailedAck(w) ==
  /\ step[w] = "failing"
  /\ FailRow(job[w], willRetry[w])
  /\ Ack(w)
  /\ UNCHANGED past

MarkFailed(w) ==
  /\ step[w] = "failing"
  /\ FailRow(job[w], willRetry[w])
  /\ IF willRetry[w] THEN Retry(w) ELSE Ack(w)
  /\ UNCHANGED past

\* The failure itself could not be recorded: the copy goes back to the queue.
MarkFailedThrows(w) ==
  /\ step[w] = "failing"
  /\ FailRow(job[w], willRetry[w]) \/ UNCHANGED row
  /\ Retry(w)
  /\ UNCHANGED past

\* The invocation dies; the runtime delivers its message again.
Crash(w) ==
  /\ step[w] # "idle"
  /\ Retry(w)
  /\ UNCHANGED <<row, past>>

LeaseExpires(m) ==
  /\ status[m] = "processing" /\ ~expired[m]
  /\ expired' = [expired EXCEPT ![m] = TRUE]
  /\ UNCHANGED <<status, retryable, queue, held, past>>

\* The steps of consumeEmailBatch once it holds a copy, whatever their outcome.
Proceed(w) ==
  \/ Claim(w) \/ ClaimMisses(w) \/ ClaimThrows(w)
  \/ AlreadyProcessed(w) \/ Busy(w) \/ ReadThrows(w)
  \/ Send(w) \/ SendUnconfirmed(w) \/ \E retry \in BOOLEAN : SendRefused(w, retry)
  \/ MarkSent(w) \/ MarkSentThrows(w)
  \/ MarkFailed(w) \/ MarkFailedThrows(w)

\* What the consumers, the queue and time do by themselves.
Consume ==
  \/ \E m \in Message : LeaseExpires(m)
  \/ \E m \in Message, n \in Deliveries :
       RejectMalformed(m, n) \/ \E w \in Worker : Receive(w, m, n)
  \/ \E w \in Worker : Proceed(w) \/ Crash(w)

Next ==
  \/ \E m \in Message : InsertMessage(m)
  \/ \E S \in SUBSET {m \in Message : status[m] # "absent"} : Enqueue(S)
  \/ Consume

Spec == Init /\ [][Next]_vars

-----------------------------------------------------------------------------

RowTypeOK ==
  /\ status    \in [Message -> MessageStatus]
  /\ retryable \in [Message -> BOOLEAN]
  /\ expired   \in [Message -> BOOLEAN]
  /\ enqueued  \in [Message -> BOOLEAN]
  /\ sends     \in [Message -> 0..2]
  /\ answers   \in [Message -> SUBSET {"resolved", "threw"}]
  /\ stolen    \in [Message -> BOOLEAN]

QueueTypeOK ==
  /\ ready  \in [Message -> [Deliveries -> 0..MaxCopies]]
  /\ parked \in [Message -> BOOLEAN]

HandTypeOK ==
  /\ step      \in [Worker -> ConsumerStep]
  /\ job       \in [Worker -> Message \cup {None}]
  /\ delivery  \in [Worker -> Deliveries]
  /\ willRetry \in [Worker -> BOOLEAN]

\* Every variable has its type.
TypeOK == RowTypeOK /\ QueueTypeOK /\ HandTypeOK

\* An idle consumer holds nothing, and one at work holds a well-formed job.
JobsInHand ==
  \A w \in Worker : /\ step[w] = "idle" <=> job[w] = None
                    /\ job[w] \notin Malformed

\* Consumer w can still make the provider take m, or reopen m's row for a retry.
MaySend(w, m) ==
  job[w] = m /\ (step[w] = "sending" \/ (step[w] = "failing" /\ willRetry[w]))

\* The strengthening behind SentOnceUnlessStolen: while no claim of m was
\* stolen, one consumer at most may still send it, none has yet if one may or
\* the row can be claimed, and the row of a possible sender cannot be claimed.
SingleSenderOf(m) ==
  ~stolen[m] =>
    /\ sends[m] <= 1
    /\ Unclaimed(m) \/ status[m] = "absent" => sends[m] = 0
    /\ \A w \in Worker : MaySend(w, m) =>
         /\ sends[m] = 0
         /\ status[m] = "processing" \/ Terminal(m)
         /\ \A v \in Worker : MaySend(v, m) => v = w

SingleSender == \A m \in Message : SingleSenderOf(m)

\* However many copies the queue delivers and whichever calls fail, the
\* provider accepts a message at most once, unless a claim outlived its lease.
SentOnceUnlessStolen == \A m \in Message : sends[m] > 1 => stolen[m]

\* A copy of m is in the queue, in a consumer's hands or in the dead-letter queue.
InQueue(m)  == \E n \in Deliveries : ready[m][n] > 0
InFlight(m) == \E w \in Worker : job[w] = m
Pursued(m)  == InQueue(m) \/ InFlight(m) \/ parked[m]

\* No acknowledgement loses an email: as long as its row is not final, some
\* copy of its job is still there to be delivered or is parked for an operator.
NeverStranded ==
  \A m \in Message \ Malformed : enqueued[m] => Terminal(m) \/ Pursued(m)

\* A final outcome is final: whatever a late consumer still writes, it does not
\* reopen or overwrite the row another one closed.
TerminalIsFinal ==
  [][\A m \in Message : Terminal(m) => status'[m] = status[m] /\ retryable'[m] = retryable[m]]_vars

\* A row is recorded as accepted only if the provider accepted the message.
AcceptedWasSent == \A m \in Message : status[m] = "provider_accepted" => sends[m] > 0

\* "Binding success updates the row to provider_accepted": a message whose send
\* resolved is not closed as a failure.
BindingSuccessRecorded ==
  \A m \in Message :
    "resolved" \in answers[m] => ~(status[m] = "failed" /\ ~retryable[m])
=============================================================================
