----------------------------- MODULE Projection -----------------------------
(***************************************************************************)
(* Who applies events to the ReadModel, and what becomes of the messages   *)
(* that name them: consumeProjectionBatch takes messages from the content  *)
(* queue, runProjectionWorkflow runs durable workflow steps, and both call *)
(* processOutboxEvent.  The queue is at-least-once and unordered, and every*)
(* call of the event source or of D1 may throw before or after it took     *)
(* effect.  The source is a port: what its calls record is modelled from   *)
(* how the processor and the consumer use it.                              *)
(***************************************************************************)
EXTENDS ReadModel

CONSTANTS
  Early,          \* events a message may name before they are committed
  Runner,         \* queue invocations and workflow instances
  MaxDeliveries,  \* deliveries of one message before the DLQ (8 retries: 9)
  MaxRuns         \* runs of a workflow step (5 retries: 6)

ASSUME ProjectionAssumption ==
  /\ Early \subseteq Version
  /\ MaxDeliveries \in Nat \ {0}
  /\ MaxRuns \in Nat \ {0}

VARIABLES
  queue,      \* messages waiting: an event and the number of the next delivery
  parked,     \* events with a message in the dead-letter queue
  handed,     \* history: events a message was sent for once they existed
  step,       \* where each runner is
  event,      \* the event it works on
  durable,    \* it is a workflow step, not a queue delivery
  attempt,    \* the delivery, or the run of the workflow step
  permanent,  \* the error it caught is a NonRetryableProjectionError
  recorded    \* what the source was told of each event

bus  == <<queue, parked, handed>>
held == <<step, event, durable, attempt, permanent>>
projectionVars == <<vars, bus, held, recorded>>

Deliveries == 1..MaxDeliveries
Runs       == 1..MaxRuns
RunnerStep == {"idle", "loading", "applying", "marking", "failing"}
Outcome    == {"open", "processed", "failed", "dead_lettered"}

ProjectionInit ==
  /\ Init
  /\ queue = {} /\ parked = {} /\ handed = {}
  /\ step      = [r \in Runner |-> "idle"]
  /\ event     = [r \in Runner |-> 0]
  /\ durable   = [r \in Runner |-> FALSE]
  /\ attempt   = [r \in Runner |-> 1]
  /\ permanent = [r \in Runner |-> FALSE]
  /\ recorded  = [v \in Version |-> "open"]

(***************************************************************************)
(* Events, messages and workflow runs arrive                               *)
(***************************************************************************)

EmitEvent ==
  /\ \E v \in Version, a \in Aggregate, action \in Action, k \in Key :
       Emit(v, a, action, k)
  /\ UNCHANGED <<bus, held, recorded>>

\* A message is sent for an event, or for an id the source does not know yet.
Enqueue(v) ==
  /\ Emitted(v) \/ v \in Early
  /\ queue'  = queue \cup {<<v, 1>>}
  /\ handed' = IF Emitted(v) THEN handed \cup {v} ELSE handed
  /\ UNCHANGED <<parked, vars, held, recorded>>

Take(r, v, n, workflow) ==
  /\ step[r] = "idle"
  /\ step'    = [step EXCEPT ![r] = "loading"]
  /\ event'   = [event EXCEPT ![r] = v]
  /\ attempt' = [attempt EXCEPT ![r] = n]
  /\ durable' = [durable EXCEPT ![r] = workflow]
  /\ UNCHANGED permanent

\* The relay alone writes to the queue: a body that does not parse, which is logged and
\* acknowledged, is not among the messages.
Receive(r, v, n) ==
  /\ <<v, n>> \in queue
  /\ queue' = queue \ {<<v, n>>}
  /\ Take(r, v, n, FALSE)
  /\ UNCHANGED <<parked, handed, vars, recorded>>

StartWorkflow(r, v) ==
  /\ Emitted(v)
  /\ Take(r, v, 1, TRUE)
  /\ UNCHANGED <<bus, vars, recorded>>

(***************************************************************************)
(* How one run ends                                                        *)
(***************************************************************************)

GoTo(r, s) == step' = [step EXCEPT ![r] = s] /\ UNCHANGED <<event, durable, attempt, permanent>>

\* The runner is done: the message is acknowledged, or the workflow step ended.
Finish(r) ==
  /\ step'      = [step EXCEPT ![r] = "idle"]
  /\ event'     = [event EXCEPT ![r] = 0]
  /\ durable'   = [durable EXCEPT ![r] = FALSE]
  /\ attempt'   = [attempt EXCEPT ![r] = 1]
  /\ permanent' = [permanent EXCEPT ![r] = FALSE]

\* Mutant of Retry: a copy sent anew, whose deliveries are not counted.
RetryForever(r) ==
  /\ Finish(r)
  /\ queue' = queue \cup {<<event[r], attempt[r]>>}
  /\ UNCHANGED <<parked, handed>>

\* message.retry(): delivered again, or dead-lettered after its last delivery.
Retry(r) ==
  /\ Finish(r)
  /\ IF attempt[r] < MaxDeliveries
       THEN queue' = queue \cup {<<event[r], attempt[r] + 1>>} /\ UNCHANGED parked
       ELSE parked' = parked \cup {event[r]} /\ UNCHANGED queue
  /\ UNCHANGED handed

\* A workflow step is run again until its retries are used up; it has no catch
\* clause, and does not tell a permanent error from a transient one.
Rerun(r) ==
  IF attempt[r] < MaxRuns
    THEN /\ step' = [step EXCEPT ![r] = "loading"]
         /\ attempt' = [attempt EXCEPT ![r] = @ + 1]
         /\ UNCHANGED <<event, durable, permanent>>
    ELSE Finish(r)

\* processOutboxEvent threw.
Throw(r, isPermanent) ==
  IF durable[r] THEN Rerun(r)
  ELSE /\ step'      = [step EXCEPT ![r] = "failing"]
       /\ permanent' = [permanent EXCEPT ![r] = isPermanent]
       /\ UNCHANGED <<event, durable, attempt>>

(***************************************************************************)
(* processOutboxEvent                                                      *)
(***************************************************************************)

\* No such event: the message is acknowledged as missing.
LoadMissing(r) ==
  /\ step[r] = "loading" /\ ~Emitted(event[r])
  /\ Finish(r)
  /\ UNCHANGED <<bus, vars, recorded>>

\* The event is loaded and projected; registry.project may throw for good.
Load(r) ==
  /\ step[r] = "loading" /\ Emitted(event[r])
  /\ IF Projectable(event[r]) THEN GoTo(r, "applying") ELSE Throw(r, TRUE)
  /\ UNCHANGED <<bus, vars, recorded>>

\* Mutant of Apply: D1 is written statement by statement, receipt first.
ApplySplit(r) ==
  /\ step[r] = "applying"
  /\ \/ /\ rows' = Shown(event[r]) /\ receipts' = receipts \cup {event[r]}
        /\ GoTo(r, "marking")
     \/ /\ rows' = rows /\ receipts' = receipts \cup {event[r]}
        /\ Throw(r, FALSE)
  /\ UNCHANGED <<log, published, bus, recorded>>

Apply(r) ==
  /\ step[r] = "applying"
  /\ ApplyBatch(event[r])
  /\ GoTo(r, "marking")
  /\ UNCHANGED <<bus, recorded>>

\* The source records nothing for an id it does not know.
Record(v, what) == recorded' = IF Emitted(v) THEN [recorded EXCEPT ![v] = what] ELSE recorded

MarkProcessed(r) ==
  /\ step[r] = "marking"
  /\ Record(event[r], "processed")
  /\ Finish(r)
  /\ UNCHANGED <<bus, vars>>

\* One of the three calls threw, before or after it took effect.
LoadThrows(r) ==
  /\ step[r] = "loading"
  /\ Throw(r, FALSE)
  /\ UNCHANGED <<bus, vars, recorded>>

\* Mutant of ApplyThrows: the processor goes on after a failed batch.
ApplyThrowsUnnoticed(r) ==
  /\ step[r] = "applying"
  /\ GoTo(r, "marking")
  /\ UNCHANGED <<bus, vars, recorded>>

ApplyThrows(r) ==
  /\ step[r] = "applying"
  /\ ApplyBatch(event[r]) \/ UNCHANGED vars
  /\ Throw(r, FALSE)
  /\ UNCHANGED <<bus, recorded>>

MarkProcessedThrows(r) ==
  /\ step[r] = "marking"
  /\ Record(event[r], "processed") \/ UNCHANGED recorded
  /\ Throw(r, FALSE)
  /\ UNCHANGED <<bus, vars>>

(***************************************************************************)
(* The consumer's catch clause                                             *)
(***************************************************************************)

Verdict(r) == IF permanent[r] THEN "dead_lettered" ELSE "failed"

\* Mutant of MarkFailed: a recorded failure is acknowledged, whatever its kind.
MarkFailedAck(r) ==
  /\ step[r] = "failing"
  /\ Record(event[r], Verdict(r))
  /\ Finish(r)
  /\ UNCHANGED <<bus, vars>>

MarkFailed(r) ==
  /\ step[r] = "failing"
  /\ Record(event[r], Verdict(r))
  /\ IF permanent[r] THEN Finish(r) /\ UNCHANGED bus ELSE Retry(r)
  /\ UNCHANGED vars

MarkFailedThrows(r) ==
  /\ step[r] = "failing"
  /\ Record(event[r], Verdict(r)) \/ UNCHANGED recorded
  /\ Retry(r)
  /\ UNCHANGED vars

\* An invocation dies: its message comes back, or its step is run again.
Crash(r) ==
  /\ step[r] # "idle"
  /\ IF durable[r] THEN Rerun(r) /\ UNCHANGED bus ELSE Retry(r)
  /\ UNCHANGED <<vars, recorded>>

Proceed(r) ==
  \/ LoadMissing(r) \/ Load(r) \/ LoadThrows(r)
  \/ Apply(r) \/ ApplyThrows(r)
  \/ MarkProcessed(r) \/ MarkProcessedThrows(r)
  \/ MarkFailed(r) \/ MarkFailedThrows(r)

ProjectionNext ==
  \/ EmitEvent
  \/ \E v \in Version : Enqueue(v)
  \/ \E r \in Runner, v \in Version, n \in Deliveries : Receive(r, v, n)
  \/ \E r \in Runner, v \in Version : StartWorkflow(r, v)
  \/ \E r \in Runner : Proceed(r) \/ Crash(r)

\* The queue delivers every message, and an invocation runs on.
Fairness ==
  /\ \A r \in Runner : WF_projectionVars(Proceed(r))
  /\ \A v \in Version, n \in Deliveries : SF_projectionVars(\E r \in Runner : Receive(r, v, n))

ProjectionSpec == ProjectionInit /\ [][ProjectionNext]_projectionVars
FairSpec == ProjectionSpec /\ Fairness

-----------------------------------------------------------------------------

\* Every variable of the processing has its type; ReadModel has its own.
ProjectionTypeOK ==
  /\ queue     \subseteq Version \X Deliveries
  /\ parked    \subseteq Version
  /\ handed    \subseteq Version
  /\ step      \in [Runner -> RunnerStep]
  /\ event     \in [Runner -> Version \cup {0}]
  /\ durable   \in [Runner -> BOOLEAN]
  /\ attempt   \in [Runner -> Deliveries \cup Runs]
  /\ permanent \in [Runner -> BOOLEAN]
  /\ recorded  \in [Version -> Outcome]

\* A message of the event waits, or a consumer has one in hand.
UnderWay(v) ==
  \/ \E n \in Deliveries : <<v, n>> \in queue
  \/ \E r \in Runner : event[r] = v /\ ~durable[r]

\* No event is acknowledged away: once a message was sent for it, it is in D1,
\* dead-lettered in the source, or one of its messages is in the queue, in a
\* consumer's hands or in the dead-letter queue.
NothingDropped ==
  \A v \in handed :
    \/ v \in receipts \/ v \in parked
    \/ recorded[v] = "dead_lettered" \/ UnderWay(v)

\* The source hears of success only for what is in D1, and of a permanent
\* failure only for what no retry could project.
RecordsAreTrue ==
  \A v \in Version :
    /\ recorded[v] = "processed" => v \in receipts
    /\ recorded[v] = "dead_lettered" => ~Projectable(v)

\* What readers get in the end: when every event that can be projected was handed to the
\* queue, and no message of one is under way or in the dead-letter queue, the tables keyed
\* by id show what is published, as the newest event of each aggregate has it - whichever
\* deliveries failed, crashed, were repeated or overtook each other.
DrainedIsCurrent ==
  KeyedById /\ (\A v \in Version : Projectable(v) => v \in handed \ parked /\ ~UnderWay(v)) =>
    \A a \in Aggregate : \A k \in KeysOf[a] :
      IF published[a] = k THEN rows[k] # 0 /\ NewestEvent(a, rows[k]) ELSE rows[k] = 0

\* Every event a message was sent for is projected, dead-lettered or parked in
\* the end; a message sent again for a dead-lettered event only reopens it until
\* it was handled once more.
EventuallyHandled ==
  \A v \in Version :
    v \in handed ~> v \in receipts \/ v \in parked \/ recorded[v] = "dead_lettered"
=============================================================================
