----------------------------- MODULE WorkerProofs -----------------------------
(***************************************************************************)
(* Proofs about what workers consume: Projection, for any number of        *)
(* events, messages, queue invocations and workflow instances and any      *)
(* bounds of their retries; Webhooks, for any events and any deliveries of *)
(* them, in whatever order they overlap; and MediaQueue, for any jobs,     *)
(* batches and invocations.                                                *)
(***************************************************************************)
EXTENDS Projection, Webhooks, MediaQueue, FiniteSetTheorems, SequenceTheorems, TLAPS

USE ReadModelAssumption, ProjectionAssumption
    DEF Deliveries, Runs, RunnerStep, Outcome, Version, Action, Emitted, vars, bus, held

-----------------------------------------------------------------------------
(* Where a runner is tells what it found out about its event.              *)
-----------------------------------------------------------------------------

LogType == DOMAIN log = Version

\* A runner at work has an event; a message is counted in deliveries, a workflow
\* step in runs; what a runner found out of its event stays true.
Working ==
  \A r \in Runner :
    /\ step[r] = "idle" <=> event[r] = 0
    /\ attempt[r] \in IF durable[r] THEN Runs ELSE Deliveries
    /\ step[r] = "idle" => ~durable[r]
    /\ step[r] = "failing" => ~durable[r]
    /\ step[r] = "failing" /\ permanent[r] => ~Projectable(event[r]) /\ Emitted(event[r])
    /\ step[r] = "marking" => event[r] \in receipts

\* Messages that count name events that exist; events with a receipt or a record
\* exist.
Known ==
  /\ \A v \in handed : Emitted(v)
  /\ \A v \in Version : recorded[v] # "open" => Emitted(v)
  /\ receipts \subseteq {v \in Version : Emitted(v)}

IInv == ProjectionTypeOK /\ LogType /\ Working /\ Known /\ RecordsAreTrue /\ NothingDropped

-----------------------------------------------------------------------------
(* What D1 and the log do in one step: events are added, never changed, and*)
(* receipts are never taken back.                                          *)
-----------------------------------------------------------------------------

Grows ==
  /\ DOMAIN log' = Version
  /\ \A v \in Version : Emitted(v) => log'[v] = log[v]
  /\ receipts \subseteq receipts'
  /\ receipts' \subseteq {v \in Version : log'[v] # None}

\* An event that is emitted takes nothing from log and receipts.
LEMMA EmitGrows ==
  ASSUME IInv, EmitEvent
  PROVE  Grows
BY DEF IInv, LogType, Known, EmitEvent, Emit, Grows

\* A batch adds one receipt.
LEMMA ApplyGrows ==
  ASSUME IInv, NEW v \in Version, ApplyBatch(v)
  PROVE  Grows /\ receipts' = receipts \cup {v}
BY DEF IInv, LogType, Known, ApplyBatch, Projectable, Grows

\* A step that leaves the model alone takes nothing from it.
LEMMA StillGrows ==
  ASSUME IInv, UNCHANGED vars
  PROVE  Grows
BY DEF IInv, LogType, Known, Grows

\* No step takes anything from log and receipts.
LEMMA LogGrows == IInv /\ [ProjectionNext]_projectionVars => Grows
<1> SUFFICES ASSUME IInv, [ProjectionNext]_projectionVars
             PROVE  Grows
  OBVIOUS
<1>1. ASSUME NEW r \in Runner, Proceed(r) \/ Crash(r)
      PROVE  Grows
  <2>1. CASE Apply(r) \/ ApplyThrows(r)
    <3>1. event[r] \in Version
      BY <2>1 DEF IInv, ProjectionTypeOK, Working, Apply, ApplyThrows
    <3> QED
      BY <2>1, <3>1, ApplyGrows, StillGrows DEF Apply, ApplyThrows
  <2>2. CASE ~(Apply(r) \/ ApplyThrows(r))
    BY <1>1, <2>2, StillGrows DEF Proceed, Crash, LoadMissing, Load, LoadThrows, MarkProcessed,
       MarkProcessedThrows, MarkFailed, MarkFailedThrows
  <2> QED
    BY <2>1, <2>2
<1>2. ASSUME ProjectionNext, ~\E r \in Runner : Proceed(r) \/ Crash(r)
      PROVE  Grows
  BY <1>2, EmitGrows, StillGrows DEF ProjectionNext, Enqueue, StartWorkflow, Receive
<1>3. CASE UNCHANGED projectionVars
  BY <1>3, StillGrows DEF projectionVars
<1> QED
  BY <1>1, <1>2, <1>3

-----------------------------------------------------------------------------
(* What a runner's step may do to the runner, the queue and the records.   *)
-----------------------------------------------------------------------------

\* Runner r is the only one that moves.
Alone(r) ==
  /\ step'      = [step EXCEPT ![r] = step'[r]]
  /\ event'     = [event EXCEPT ![r] = event'[r]]
  /\ durable'   = [durable EXCEPT ![r] = durable'[r]]
  /\ attempt'   = [attempt EXCEPT ![r] = attempt'[r]]
  /\ permanent' = [permanent EXCEPT ![r] = permanent'[r]]

\* The runner goes on with its event.
Stays(r) ==
  /\ Alone(r)
  /\ event'[r] = event[r] /\ durable'[r] = durable[r]
  /\ attempt'[r] \in IF durable[r] THEN Runs ELSE Deliveries
  /\ permanent'[r] \in BOOLEAN
  /\ UNCHANGED bus

\* The runner is done with its event.
Ends(r) ==
  /\ Alone(r)
  /\ step'[r] = "idle" /\ event'[r] = 0 /\ durable'[r] = FALSE /\ attempt'[r] = 1
  /\ permanent'[r] = FALSE

\* The message is still in the queue, or parked.
Returns(r) ==
  /\ Ends(r)
  /\ queue \subseteq queue' /\ parked \subseteq parked' /\ handed' = handed
  /\ queue' \subseteq Version \X Deliveries
  /\ parked' \subseteq Version
  /\ event[r] \in parked' \/ \E n \in Deliveries : <<event[r], n>> \in queue'

\* A runner that finishes has its message no more.
LEMMA FinishEnds ==
  ASSUME ProjectionTypeOK, NEW r \in Runner, Finish(r)
  PROVE  Ends(r)
BY DEF ProjectionTypeOK, Finish, Ends, Alone

\* A runner that retries puts its message back.
LEMMA RetryReturns ==
  ASSUME ProjectionTypeOK, Working, NEW r \in Runner, Retry(r), step[r] # "idle", ~durable[r]
  PROVE  Returns(r)
<1>1. Ends(r)
  BY FinishEnds DEF Retry
<1>2. event[r] \in Version /\ attempt[r] \in Deliveries
  BY DEF ProjectionTypeOK, Working
<1>3. queue \subseteq Version \X Deliveries /\ parked \subseteq Version
  BY DEF ProjectionTypeOK
<1>4. CASE attempt[r] < MaxDeliveries
  <2>1. attempt[r] + 1 \in Deliveries
    BY <1>2, <1>4
  <2>2. queue' = queue \cup {<<event[r], attempt[r] + 1>>} /\ UNCHANGED <<parked, handed>>
    BY <1>4 DEF Retry
  <2>3. queue' \subseteq Version \X Deliveries
    BY <1>2, <1>3, <2>1, <2>2
  <2> QED
    BY <1>1, <1>3, <2>1, <2>2, <2>3 DEF Returns
<1>5. CASE ~(attempt[r] < MaxDeliveries)
  BY <1>1, <1>2, <1>3, <1>5 DEF Retry, Returns
<1> QED
  BY <1>4, <1>5

\* A workflow that is rerun keeps its event, or has run too often and ends.
LEMMA RerunStays ==
  ASSUME ProjectionTypeOK, Working, NEW r \in Runner, Rerun(r), durable[r], UNCHANGED bus
  PROVE  Ends(r) \/ (Stays(r) /\ step'[r] = "loading")
<1>1. CASE attempt[r] < MaxRuns
  <2>1. attempt[r] \in Runs /\ attempt[r] + 1 \in Runs
    BY <1>1 DEF ProjectionTypeOK, Working
  <2>2. step' = [step EXCEPT ![r] = "loading"] /\ attempt' = [attempt EXCEPT ![r] = attempt[r] + 1]
        /\ UNCHANGED <<event, durable, permanent>>
    BY <1>1 DEF Rerun
  <2>3. Alone(r)
    BY <2>2 DEF ProjectionTypeOK, Alone
  <2> QED
    BY <2>1, <2>2, <2>3 DEF ProjectionTypeOK, Stays
<1>2. CASE ~(attempt[r] < MaxRuns)
  BY <1>2, FinishEnds DEF Rerun
<1> QED
  BY <1>1, <1>2

\* A workflow that throws is rerun or ends, a queue delivery goes on to record the
\* failure.
LEMMA ThrowStays ==
  ASSUME ProjectionTypeOK, Working, NEW r \in Runner, NEW isPermanent \in BOOLEAN, Throw(r, isPermanent),
         step[r] # "idle", UNCHANGED bus
  PROVE  \/ Ends(r) /\ durable[r]
         \/ Stays(r) /\ durable[r] /\ step'[r] = "loading"
         \/ Stays(r) /\ ~durable[r] /\ step'[r] = "failing" /\ permanent'[r] = isPermanent
<1>1. CASE durable[r]
  BY <1>1, RerunStays DEF Throw
<1>2. CASE ~durable[r]
  BY <1>2 DEF ProjectionTypeOK, Working, Throw, Stays, Alone
<1> QED
  BY <1>1, <1>2

\* A runner that goes on keeps its message and its event.
LEMMA GoToStays ==
  ASSUME ProjectionTypeOK, Working, NEW r \in Runner, NEW s \in RunnerStep \ {"idle"}, GoTo(r, s), UNCHANGED bus
  PROVE  Stays(r) /\ step'[r] = s
BY DEF ProjectionTypeOK, Working, GoTo, Stays, Alone

\* What a step of a runner may record of its event, and when.
RecordsOf(r) ==
  \/ recorded' = recorded
  \/ /\ Emitted(event[r])
     /\ \/ /\ recorded' = [recorded EXCEPT ![event[r]] = "processed"]
           /\ event[r] \in receipts
        \/ /\ recorded' = [recorded EXCEPT ![event[r]] = "dead_lettered"]
           /\ ~Projectable(event[r])
        \/ /\ recorded' = [recorded EXCEPT ![event[r]] = "failed"]
           /\ Returns(r)

\* How a step of a runner leaves it.
Leaves(r) ==
  \/ /\ Ends(r) /\ UNCHANGED bus
     /\ durable[r] \/ ~Emitted(event[r]) \/ event[r] \in receipts'
        \/ recorded'[event[r]] = "dead_lettered"
  \/ /\ Stays(r)
     /\ step'[r] \in RunnerStep \ {"idle"}
     /\ step'[r] = "failing" =>
          ~durable[r] /\ (permanent'[r] => Emitted(event[r]) /\ ~Projectable(event[r]))
     /\ step'[r] = "marking" => event[r] \in receipts'
  \/ Returns(r)

\* A step of a runner ends it, returns its message or keeps it, and records only what it
\* knows.
LEMMA RunnerStepEffect ==
  ASSUME IInv, NEW r \in Runner, Proceed(r) \/ Crash(r)
  PROVE  step[r] # "idle" /\ RecordsOf(r) /\ Leaves(r)
<1> USE DEF IInv
<1>0. ProjectionTypeOK /\ Working
  OBVIOUS
<1>1. CASE LoadMissing(r)
  <2>1. Ends(r)
    BY <1>0, <1>1, FinishEnds DEF LoadMissing
  <2> QED
    BY <1>1, <2>1 DEF LoadMissing, RecordsOf, Leaves
<1>2. CASE Load(r)
  <2>1. CASE Projectable(event[r])
    <3>1. Stays(r) /\ step'[r] = "applying"
      BY <1>0, <1>2, <2>1, GoToStays DEF Load
    <3> QED
      BY <1>2, <3>1 DEF Load, RecordsOf, Leaves
  <2>2. CASE ~Projectable(event[r])
    <3>1. \/ Ends(r) /\ durable[r]
          \/ Stays(r) /\ durable[r] /\ step'[r] = "loading"
          \/ Stays(r) /\ ~durable[r] /\ step'[r] = "failing" /\ permanent'[r] = TRUE
      BY <1>0, <1>2, <2>2, ThrowStays DEF Load
    <3> QED
      BY <1>2, <2>2, <3>1 DEF Load, RecordsOf, Leaves
  <2> QED
    BY <2>1, <2>2
<1>3. CASE Apply(r)
  <2>1. Stays(r) /\ step'[r] = "marking"
    BY <1>0, <1>3, GoToStays DEF Apply
  <2>2. event[r] \in receipts'
    BY <1>3 DEF Apply, ApplyBatch
  <2> QED
    BY <1>3, <2>1, <2>2 DEF Apply, RecordsOf, Leaves
<1>4. CASE LoadThrows(r) \/ ApplyThrows(r)
  <2>1. \/ Ends(r) /\ durable[r]
        \/ Stays(r) /\ durable[r] /\ step'[r] = "loading"
        \/ Stays(r) /\ ~durable[r] /\ step'[r] = "failing" /\ permanent'[r] = FALSE
    BY <1>0, <1>4, ThrowStays DEF LoadThrows, ApplyThrows
  <2> QED
    BY <1>4, <2>1 DEF LoadThrows, ApplyThrows, RecordsOf, Leaves
<1>5. CASE MarkProcessed(r)
  <2>1. Ends(r) /\ event[r] \in receipts /\ receipts' = receipts
    BY <1>0, <1>5, FinishEnds DEF MarkProcessed, Working
  <2> QED
    BY <1>5, <2>1 DEF MarkProcessed, Record, RecordsOf, Leaves
<1>6. CASE MarkProcessedThrows(r)
  <2>1. \/ Ends(r) /\ durable[r]
        \/ Stays(r) /\ durable[r] /\ step'[r] = "loading"
        \/ Stays(r) /\ ~durable[r] /\ step'[r] = "failing" /\ permanent'[r] = FALSE
    BY <1>0, <1>6, ThrowStays DEF MarkProcessedThrows
  <2>2. event[r] \in receipts
    BY <1>6 DEF MarkProcessedThrows, Working
  <2> QED
    BY <1>6, <2>1, <2>2 DEF MarkProcessedThrows, Record, RecordsOf, Leaves
<1>7. CASE MarkFailed(r)
  <2>1. ~durable[r] /\ (permanent[r] => Emitted(event[r]) /\ ~Projectable(event[r]))
        /\ event[r] \in Version
    BY <1>7 DEF MarkFailed, Working, ProjectionTypeOK
  <2>2. CASE permanent[r]
    <3>1. Ends(r)
      BY <1>0, <1>7, <2>2, FinishEnds DEF MarkFailed
    <3> QED
      BY <1>7, <2>1, <2>2, <3>1 DEF MarkFailed, Record, Verdict, RecordsOf, Leaves, ProjectionTypeOK
  <2>3. CASE ~permanent[r]
    <3>1. Returns(r)
      BY <1>0, <1>7, <2>1, <2>3, RetryReturns DEF MarkFailed
    <3> QED
      BY <1>7, <2>1, <2>3, <3>1 DEF MarkFailed, Record, Verdict, RecordsOf, Leaves
  <2> QED
    BY <2>2, <2>3 DEF ProjectionTypeOK
<1>8. CASE MarkFailedThrows(r)
  <2>1. ~durable[r] /\ (permanent[r] => Emitted(event[r]) /\ ~Projectable(event[r]))
    BY <1>8 DEF MarkFailedThrows, Working
  <2>2. Returns(r)
    BY <1>0, <1>8, <2>1, RetryReturns DEF MarkFailedThrows
  <2> QED
    BY <1>8, <2>1, <2>2 DEF MarkFailedThrows, Record, Verdict, RecordsOf, Leaves
<1>9. CASE Crash(r)
  <2>1. CASE durable[r]
    <3>1. Ends(r) \/ (Stays(r) /\ step'[r] = "loading")
      BY <1>0, <1>9, <2>1, RerunStays DEF Crash
    <3> QED
      BY <1>9, <2>1, <3>1 DEF Crash, RecordsOf, Leaves
  <2>2. CASE ~durable[r]
    <3>1. Returns(r)
      BY <1>0, <1>9, <2>2, RetryReturns DEF Crash
    <3> QED
      BY <1>9, <3>1 DEF Crash, RecordsOf, Leaves
  <2> QED
    BY <2>1, <2>2
<1> QED
  BY <1>1, <1>2, <1>3, <1>4, <1>5, <1>6, <1>7, <1>8, <1>9 DEF Proceed

-----------------------------------------------------------------------------
(* The invariant.                                                          *)
-----------------------------------------------------------------------------

\* What was known of an event stays known.
LEMMA StaysKnown ==
  ASSUME IInv, Grows
  PROVE  /\ LogType' /\ (receipts \subseteq {v \in Version : Emitted(v)})'
         /\ \A v \in Version : Emitted(v) => Emitted(v)' /\ (Projectable(v)' <=> Projectable(v))
BY DEF IInv, LogType, Grows, Projectable

\* A step of a runner keeps the invariant.
LEMMA StepRunner ==
  ASSUME IInv, NEW r \in Runner, Proceed(r) \/ Crash(r)
  PROVE  IInv'
<1>1. step[r] # "idle" /\ RecordsOf(r) /\ Leaves(r)
  BY RunnerStepEffect
<1>2. Grows
  BY LogGrows DEF ProjectionNext
<1>3. /\ LogType' /\ (receipts \subseteq {v \in Version : Emitted(v)})'
      /\ \A v \in Version : Emitted(v) => Emitted(v)' /\ (Projectable(v)' <=> Projectable(v))
  BY <1>2, StaysKnown
<1>4. event[r] \in Version /\ receipts \subseteq receipts'
  BY <1>1, <1>2 DEF IInv, ProjectionTypeOK, Working, Grows
<1>5. Alone(r) /\ handed' = handed /\ parked \subseteq parked' /\ queue \subseteq queue'
  BY <1>1 DEF Leaves, Ends, Stays, Returns
<1>6. /\ queue' \subseteq Version \X Deliveries /\ parked' \subseteq Version
      /\ step'[r] \in RunnerStep /\ event'[r] \in Version \cup {0} /\ durable'[r] \in BOOLEAN
      /\ attempt'[r] \in Deliveries \cup Runs /\ permanent'[r] \in BOOLEAN
  <2>1. /\ event[r] \in Version /\ durable[r] \in BOOLEAN
        /\ queue \subseteq Version \X Deliveries /\ parked \subseteq Version
    BY <1>4 DEF IInv, ProjectionTypeOK
  <2>2. CASE Ends(r)
    <3>1. 1 \in Deliveries
      OBVIOUS
    <3> QED
      BY <1>1, <2>1, <2>2, <3>1 DEF Leaves, Ends, Stays, Returns
  <2>3. CASE ~Ends(r)
    BY <1>1, <2>1, <2>3 DEF Leaves, Stays, Returns
  <2> QED
    BY <2>2, <2>3
<1>7. recorded' \in [Version -> Outcome]
  BY <1>1, <1>4 DEF RecordsOf, IInv, ProjectionTypeOK
<1>8. ProjectionTypeOK'
  BY <1>5, <1>6, <1>7 DEF IInv, ProjectionTypeOK, Alone
<1>9. Working'
  <2> SUFFICES ASSUME NEW q \in Runner
               PROVE  /\ (step[q] = "idle" <=> event[q] = 0)'
                      /\ (attempt[q] \in IF durable[q] THEN Runs ELSE Deliveries)'
                      /\ (step[q] = "idle" => ~durable[q])'
                      /\ (step[q] = "failing" => ~durable[q])'
                      /\ (step[q] = "failing" /\ permanent[q] =>
                            ~Projectable(event[q]) /\ Emitted(event[q]))'
                      /\ (step[q] = "marking" => event[q] \in receipts)'
    BY DEF Working
  <2>1. CASE q = r
    <3>1. CASE Ends(r)
      BY <2>1, <3>1 DEF Ends
    <3>2. CASE ~Ends(r)
      <4>1. /\ Stays(r)
            /\ step'[r] \in RunnerStep \ {"idle"}
            /\ step'[r] = "failing" =>
                 ~durable[r] /\ (permanent'[r] => Emitted(event[r]) /\ ~Projectable(event[r]))
            /\ step'[r] = "marking" => event[r] \in receipts'
        BY <1>1, <3>2 DEF Leaves, Returns
      <4>2. event'[r] = event[r] /\ durable'[r] = durable[r]
            /\ attempt'[r] \in IF durable[r] THEN Runs ELSE Deliveries
        BY <4>1 DEF Stays
      <4> QED
        BY <1>3, <1>4, <2>1, <4>1, <4>2 DEF Projectable
    <3> QED
      BY <3>1, <3>2
  <2>2. CASE q # r
    <3>1. /\ step'[q] = step[q] /\ event'[q] = event[q] /\ durable'[q] = durable[q]
          /\ attempt'[q] = attempt[q] /\ permanent'[q] = permanent[q]
      BY <1>5, <2>2 DEF Alone, IInv, ProjectionTypeOK
    <3>2. event[q] \in Version \cup {0}
      BY DEF IInv, ProjectionTypeOK
    <3> QED
      BY <1>3, <1>4, <3>1, <3>2 DEF IInv, Working, Projectable
  <2> QED
    BY <2>1, <2>2
<1>10. Known'
  <2>1. \A v \in Version : recorded'[v] # "open" => Emitted(v)'
    BY <1>1, <1>3, <1>4 DEF RecordsOf, IInv, Known, ProjectionTypeOK
  <2> QED
    BY <1>3, <1>5, <2>1 DEF IInv, Known, ProjectionTypeOK
<1>11. RecordsAreTrue'
  <2> SUFFICES ASSUME NEW v \in Version
               PROVE  /\ recorded'[v] = "processed" => v \in receipts'
                      /\ recorded'[v] = "dead_lettered" => ~Projectable(v)'
    BY DEF RecordsAreTrue
  <2>1. CASE recorded'[v] = recorded[v]
    <3>1. recorded[v] = "dead_lettered" => Emitted(v)
      BY DEF IInv, Known
    <3> QED
      BY <1>3, <1>4, <2>1, <3>1 DEF IInv, RecordsAreTrue
  <2>2. CASE recorded'[v] # recorded[v]
    <3>1. v = event[r] /\ Emitted(v)
      BY <1>1, <1>4, <2>2 DEF RecordsOf, IInv, ProjectionTypeOK
    <3>2. \/ recorded'[v] = "processed" /\ v \in receipts
          \/ recorded'[v] = "dead_lettered" /\ ~Projectable(v)
          \/ recorded'[v] = "failed"
      BY <1>1, <1>4, <2>2, <3>1 DEF RecordsOf, IInv, ProjectionTypeOK
    <3> QED
      BY <1>3, <1>4, <3>1, <3>2
  <2> QED
    BY <2>1, <2>2
<1>12. NothingDropped'
  <2> SUFFICES ASSUME NEW v \in handed
               PROVE  \/ v \in receipts' \/ v \in parked'
                      \/ recorded'[v] = "dead_lettered"
                      \/ \E n \in Deliveries : <<v, n>> \in queue'
                      \/ \E q \in Runner : event'[q] = v /\ ~durable'[q]
    BY <1>5 DEF NothingDropped, UnderWay
  <2>1. v \in Version /\ Emitted(v)
    BY DEF IInv, Known, ProjectionTypeOK
  <2>2. CASE v \in receipts \/ v \in parked \/ \E n \in Deliveries : <<v, n>> \in queue
    BY <1>4, <1>5, <2>2
  <2>3. ASSUME NEW q \in Runner, q # r, event[q] = v, ~durable[q]
        PROVE  event'[q] = v /\ ~durable'[q]
    BY <1>5, <2>3 DEF Alone, IInv, ProjectionTypeOK
  <2>4. CASE event[r] = v /\ ~durable[r]
    BY <1>1, <2>1, <2>4 DEF Leaves, Stays, Returns
  <2>5. CASE recorded[v] = "dead_lettered"
    <3>1. CASE v # event[r] \/ recorded' = recorded
      BY <1>1, <1>4, <2>5, <3>1 DEF RecordsOf, IInv, ProjectionTypeOK
    <3>2. CASE v = event[r] /\ recorded' # recorded
      <4>1. v \in receipts \/ recorded'[v] = "dead_lettered" \/ Returns(r)
        BY <1>1, <1>4, <3>2 DEF RecordsOf, IInv, ProjectionTypeOK
      <4>2. Returns(r) => v \in parked' \/ \E n \in Deliveries : <<v, n>> \in queue'
        BY <3>2 DEF Returns
      <4> QED
        BY <1>4, <4>1, <4>2
    <3> QED
      BY <3>1, <3>2
  <2> QED
    BY <2>1, <2>2, <2>3, <2>4, <2>5 DEF IInv, NothingDropped, UnderWay
<1> QED
  BY <1>3, <1>8, <1>9, <1>10, <1>11, <1>12 DEF IInv

\* A step of anybody else keeps the invariant.
LEMMA StepArrives ==
  ASSUME IInv, [ProjectionNext]_projectionVars, ~\E r \in Runner : Proceed(r) \/ Crash(r)
  PROVE  IInv'
<1>0. Grows
  BY LogGrows
<1>1. /\ LogType' /\ (receipts \subseteq {v \in Version : Emitted(v)})'
      /\ \A v \in Version : Emitted(v) => Emitted(v)' /\ (Projectable(v)' <=> Projectable(v))
  BY <1>0, StaysKnown
<1>2. CASE EmitEvent
  <2>1. UNCHANGED <<bus, held, recorded, receipts>>
    BY <1>2 DEF EmitEvent, Emit
  <2>2. Working'
    BY <1>1, <2>1 DEF IInv, ProjectionTypeOK, Working
  <2>3. Known' /\ RecordsAreTrue' /\ NothingDropped'
    BY <1>1, <2>1 DEF IInv, ProjectionTypeOK, Known, RecordsAreTrue, NothingDropped, UnderWay
  <2> QED
    BY <1>1, <2>1, <2>2, <2>3 DEF IInv, ProjectionTypeOK
<1>3. ASSUME NEW v \in Version, Enqueue(v)
      PROVE  IInv'
  BY <1>3 DEF Enqueue, IInv, ProjectionTypeOK, LogType, Working, Known, RecordsAreTrue, NothingDropped, UnderWay, Projectable
<1>4. ASSUME NEW r \in Runner, NEW v \in Version, NEW n \in 1..MaxDeliveries \cup 1..MaxRuns,
             NEW workflow \in BOOLEAN, Take(r, v, n, workflow),
             n \in IF workflow THEN Runs ELSE Deliveries,
             UNCHANGED <<parked, handed, vars, recorded>>,
             queue' = IF workflow THEN queue ELSE queue \ {<<v, n>>}
      PROVE  IInv'
  <2>1. /\ Alone(r) /\ step[r] = "idle"
        /\ step'[r] = "loading" /\ event'[r] = v /\ attempt'[r] = n /\ durable'[r] = workflow
        /\ permanent' = permanent
    BY <1>4 DEF Take, Alone, IInv, ProjectionTypeOK
  <2>2. ProjectionTypeOK'
    <3>1. queue' \subseteq queue /\ UNCHANGED <<parked, handed, recorded>>
      BY <1>4
    <3>2. /\ step' = [step EXCEPT ![r] = "loading"] /\ event' = [event EXCEPT ![r] = v]
          /\ attempt' = [attempt EXCEPT ![r] = n] /\ durable' = [durable EXCEPT ![r] = workflow]
      BY <1>4 DEF Take
    <3>3. /\ step' \in [Runner -> RunnerStep] /\ event' \in [Runner -> Version \cup {0}]
          /\ attempt' \in [Runner -> Deliveries \cup Runs]
      BY <3>2 DEF IInv, ProjectionTypeOK
    <3>4. durable' \in [Runner -> BOOLEAN]
      BY <3>2 DEF IInv, ProjectionTypeOK
    <3> QED
      BY <2>1, <3>1, <3>2, <3>3, <3>4 DEF IInv, ProjectionTypeOK
  <2>3. \A q \in Runner \ {r} :
          /\ step'[q] = step[q] /\ event'[q] = event[q] /\ durable'[q] = durable[q]
          /\ attempt'[q] = attempt[q]
    BY <2>1 DEF Alone, IInv, ProjectionTypeOK
  <2>4. event[r] = 0 /\ ~durable[r]
    BY <2>1 DEF IInv, Working
  <2>5. Working'
    <3>1. \A q \in Runner : Projectable(event[q])' <=> Projectable(event'[q])
      BY <1>4 DEF Projectable
    <3>2. UNCHANGED <<log, receipts>> /\ v # 0
      BY <1>4
    <3> SUFFICES ASSUME NEW q \in Runner
                 PROVE  /\ step'[q] = "idle" <=> event'[q] = 0
                        /\ attempt'[q] \in IF durable'[q] THEN Runs ELSE Deliveries
                        /\ step'[q] = "idle" => ~durable'[q]
                        /\ step'[q] = "failing" => ~durable'[q]
                        /\ step'[q] = "failing" /\ permanent'[q] =>
                              ~Projectable(event'[q]) /\ Emitted(event'[q])
                        /\ step'[q] = "marking" => event'[q] \in receipts
      BY <3>1, <3>2 DEF Working
    <3>3. CASE q = r
      BY <1>4, <2>1, <3>2, <3>3
    <3>4. CASE q # r
      BY <2>1, <2>3, <3>4 DEF IInv, Working
    <3> QED
      BY <3>3, <3>4
  <2>6. NothingDropped'
    <3> SUFFICES ASSUME NEW w \in handed
                 PROVE  \/ w \in receipts \/ w \in parked
                        \/ recorded[w] = "dead_lettered"
                        \/ \E k \in Deliveries : <<w, k>> \in queue'
                        \/ \E q \in Runner : event'[q] = w /\ ~durable'[q]
      BY <1>4 DEF NothingDropped, UnderWay
    <3>1. w \in Version
      BY DEF IInv, ProjectionTypeOK
    <3>2. ASSUME NEW q \in Runner, event[q] = w, ~durable[q]
          PROVE  event'[q] = w /\ ~durable'[q]
      BY <2>3, <2>4, <3>1, <3>2
    <3>3. ASSUME NEW k \in Deliveries, <<w, k>> \in queue
          PROVE  <<w, k>> \in queue' \/ (event'[r] = w /\ ~durable'[r])
      BY <1>4, <2>1, <3>3
    <3> QED
      BY <3>2, <3>3 DEF IInv, NothingDropped, UnderWay
  <2>7. Known' /\ RecordsAreTrue' /\ LogType'
    BY <1>4 DEF IInv, Known, RecordsAreTrue, LogType, Projectable
  <2> QED
    BY <2>2, <2>5, <2>6, <2>7 DEF IInv
<1>5. ASSUME NEW r \in Runner, NEW v \in Version, StartWorkflow(r, v)
      PROVE  IInv'
  <2>1. 1 \in Runs
    OBVIOUS
  <2> QED
    BY <1>4, <1>5, <2>1 DEF StartWorkflow
<1>6. ASSUME NEW r \in Runner, NEW v \in Version, NEW n \in Deliveries, Receive(r, v, n)
      PROVE  IInv'
  BY <1>4, <1>6 DEF Receive
<1>7. CASE UNCHANGED projectionVars
  BY <1>7 DEF projectionVars, IInv, ProjectionTypeOK, LogType, Working, Known, RecordsAreTrue, NothingDropped, UnderWay, Projectable
<1> QED
  BY <1>2, <1>3, <1>5, <1>6, <1>7 DEF ProjectionNext

\* Before the first event the invariant holds.
LEMMA Initially == ProjectionInit => IInv
<1> SUFFICES ASSUME ProjectionInit
             PROVE  IInv
  OBVIOUS
<1>1. 1 \in Deliveries
  OBVIOUS
<1>2. ProjectionTypeOK
  BY <1>1 DEF ProjectionInit, ProjectionTypeOK
<1>3. Working
  BY <1>1 DEF ProjectionInit, Working
<1>4. LogType /\ Known /\ RecordsAreTrue /\ NothingDropped
  BY DEF ProjectionInit, Init, LogType, Known, RecordsAreTrue, NothingDropped, UnderWay
<1> QED
  BY <1>2, <1>3, <1>4 DEF IInv

\* The invariant of the consumers holds throughout.
LEMMA Invariance == ProjectionSpec => []IInv
<1>1. IInv /\ [ProjectionNext]_projectionVars => IInv'
  BY StepArrives, StepRunner
<1> QED
  BY <1>1, Initially, PTL DEF ProjectionSpec

\* Every variable of the processing has its type.
THEOREM TypeCorrect == ProjectionSpec => []ProjectionTypeOK
<1>1. IInv => ProjectionTypeOK
  BY DEF IInv
<1> QED
  BY <1>1, Invariance, PTL

\* No event a message was sent for is acknowledged away.
THEOREM NeverDropped == ProjectionSpec => []NothingDropped
<1>1. IInv => NothingDropped
  BY DEF IInv
<1> QED
  BY <1>1, Invariance, PTL

\* The source is told the truth.
THEOREM RecordedTruthfully == ProjectionSpec => []RecordsAreTrue
<1>1. IInv => RecordsAreTrue
  BY DEF IInv
<1> QED
  BY <1>1, Invariance, PTL

-----------------------------------------------------------------------------
(* The read model the runners write, taken by itself.                      *)
-----------------------------------------------------------------------------

USE DEF Event, Projectable
HIDE DEF vars

-----------------------------------------------------------------------------
(* Type correctness.                                                       *)
-----------------------------------------------------------------------------

\* What an event in the log is made of.
LEMMA EventType ==
  ASSUME TypeOK, NEW v \in Version, Projectable(v)
  PROVE  /\ log[v] \in Event /\ log[v].aggregate \in Aggregate /\ log[v].key \in Key
         /\ log[v].action \in {"upsert", "delete"}
BY DEF TypeOK

\* Every step keeps every variable in its type.
LEMMA RowsStepType == TypeOK /\ [Next]_vars => TypeOK'
<1> SUFFICES ASSUME TypeOK, [Next]_vars
             PROVE  TypeOK'
  OBVIOUS
<1>1. ASSUME NEW v \in Version, NEW a \in Aggregate, NEW action \in Action, NEW k \in Key,
             Emit(v, a, action, k)
      PROVE  TypeOK'
  <2>1. log' \in [Version -> Event \cup {None}] /\ published' \in [Aggregate -> Key \cup {None}]
    BY <1>1 DEF Emit, TypeOK
  <2>2. \A w \in receipts : log'[w] = log[w]
    BY <1>1 DEF Emit, TypeOK
  <2>3. QED
    BY <1>1, <2>1, <2>2 DEF Emit, TypeOK
<1>2. ASSUME NEW v \in Version, ApplyBatch(v)
      PROVE  TypeOK'
  <2>1. log[v].key \in Key
    BY <1>2, EventType DEF ApplyBatch
  <2>2. rows' \in [Key -> 0..MaxVersion]
    BY <1>2, <2>1 DEF ApplyBatch, Shown, TypeOK
  <2>3. QED
    BY <1>2, <2>2 DEF ApplyBatch, TypeOK
<1>3. CASE UNCHANGED vars
  BY <1>3 DEF vars, TypeOK
<1>4. QED
  BY <1>1, <1>2, <1>3 DEF Next

\* Log, tables and receipts have their types throughout.
THEOREM RowsTyped == Spec => []TypeOK
<1>1. Init => TypeOK
  BY DEF Init, TypeOK
<1>2. QED
  BY <1>1, RowsStepType, PTL DEF Spec

-----------------------------------------------------------------------------
(* Newest wins.  A batch for one aggregate leaves the rows and receipts of *)
(* the others alone, since no two aggregates share a key.  For its own, it *)
(* changes the row only when its event is newer than every recorded one,   *)
(* and then the event is the newest.                                       *)
-----------------------------------------------------------------------------

\* The key of an event is one its aggregate may have.
KeysAreOwn ==
  \A v \in Version : Emitted(v) => log[v].key \in KeysOf[log[v].aggregate]

\* An event that is emitted has a key its aggregate may have.
LEMMA StepKeys == TypeOK /\ KeysAreOwn /\ [Next]_vars => KeysAreOwn'
<1> SUFFICES ASSUME TypeOK, KeysAreOwn, [Next]_vars
             PROVE  KeysAreOwn'
  OBVIOUS
<1> USE DEF TypeOK, KeysAreOwn
<1>1. ASSUME NEW v \in Version, NEW a \in Aggregate, NEW action \in Action, NEW k \in Key,
             Emit(v, a, action, k)
      PROVE  KeysAreOwn'
  BY <1>1 DEF Emit
<1>2. ASSUME NEW v \in Version, ApplyBatch(v)
      PROVE  KeysAreOwn'
  BY <1>2 DEF ApplyBatch
<1>3. QED
  BY <1>1, <1>2 DEF Next, vars

\* What NewestWins says of one aggregate and its key.
RowIsNewest(a, k) ==
  /\ rows[k] # 0 => Newest(a, rows[k])
  /\ \A v \in Version : Newest(a, v) => rows[k] = IF log[v].action = "upsert" THEN v ELSE 0

\* A new event disturbs no row and no receipt.
LEMMA EmitKeepsRow ==
  ASSUME TypeOK, NEW a \in Aggregate, NEW k \in KeysOf[a], RowIsNewest(a, k),
         NEW v \in Version, NEW b \in Aggregate, NEW action \in Action, NEW j \in Key,
         Emit(v, b, action, j)
  PROVE  RowIsNewest(a, k)'
<1>1. \A w \in receipts : log'[w] = log[w] /\ w \in Version
  BY DEF Emit, TypeOK
<1>2. Recorded(a)' = Recorded(a)
  BY <1>1 DEF Emit, Recorded
<1>3. \A w \in Version : Newest(a, w)' <=> Newest(a, w)
  BY <1>2 DEF Newest
<1>4. rows' = rows /\ k \in Key
  BY DEF Emit
<1>5. rows[k] \in 0..MaxVersion
  BY <1>4 DEF TypeOK
<1>6. \A w \in Version : Newest(a, w) => log'[w] = log[w]
  BY <1>1 DEF Newest, Recorded
<1>7. QED
  BY <1>3, <1>4, <1>5, <1>6 DEF RowIsNewest

\* A batch keeps what is said of every aggregate.
LEMMA ApplyKeepsRow ==
  ASSUME TypeOK, KeysAreOwn, KeyedById, NEW a \in Aggregate, NEW k \in KeysOf[a],
         RowIsNewest(a, k), NEW v \in Version, ApplyBatch(v)
  PROVE  RowIsNewest(a, k)'
<1> DEFINE e == log[v]
<1>1. /\ e.aggregate \in Aggregate /\ e.key \in Key /\ e.action \in {"upsert", "delete"}
      /\ e.key \in KeysOf[e.aggregate] /\ k \in Key
  BY EventType DEF ApplyBatch, KeysAreOwn
<1>2. log' = log /\ receipts' = receipts \cup {v} /\ rows' = Shown(v)
  BY DEF ApplyBatch
<1>3. receipts \subseteq Version /\ rows \in [Key -> 0..MaxVersion]
  BY DEF TypeOK
<1>4. CASE e.aggregate # a
  <2>1. e.key # k
    BY <1>1, <1>4 DEF KeyedById
  <2>2. rows'[k] = rows[k]
    BY <1>1, <1>2, <1>3, <2>1 DEF Shown
  <2>3. Recorded(a)' = Recorded(a)
    BY <1>2, <1>4 DEF Recorded
  <2>4. QED
    BY <1>2, <2>2, <2>3 DEF RowIsNewest, Newest
<1>5. CASE e.aggregate = a /\ ~Fresh(v)
  <2>1. rows' = rows
    BY <1>2, <1>5 DEF Shown
  <2>2. PICK u \in Recorded(a) : u >= v
    BY <1>3, <1>5 DEF Fresh, Recorded
  <2>3. Recorded(a)' = Recorded(a) \cup {v}
    BY <1>2, <1>5 DEF Recorded
  <2>4. \A w \in Version : Newest(a, w)' <=> Newest(a, w)
    BY <1>3, <2>2, <2>3 DEF Newest, Recorded
  <2>5. rows[k] \in 0..MaxVersion
    BY <1>1, <1>3
  <2>6. QED
    BY <1>2, <2>1, <2>4, <2>5 DEF RowIsNewest
<1>6. CASE e.aggregate = a /\ Fresh(v)
  <2>1. e.key = k
    BY <1>1, <1>6 DEF KeyedById
  <2>2. \A w \in Recorded(a) : w < v
    BY <1>6 DEF Fresh
  <2>3. Recorded(a)' = Recorded(a) \cup {v}
    BY <1>2, <1>6 DEF Recorded
  <2>4. \A w \in Version : Newest(a, w)' <=> w = v
    BY <1>3, <2>2, <2>3 DEF Newest, Recorded
  <2>5. rows[k] < v
    BY <1>1, <1>3, <2>2 DEF RowIsNewest, Newest
  <2>6. rows'[k] = IF e.action = "upsert" THEN v ELSE 0
    BY <1>1, <1>2, <1>3, <1>6, <2>1, <2>5 DEF Shown
  <2>7. QED
    BY <1>2, <2>4, <2>6 DEF RowIsNewest
<1>7. QED
  BY <1>4, <1>5, <1>6

\* Every step keeps NewestWins.
LEMMA StepNewest == TypeOK /\ KeysAreOwn /\ NewestWins /\ [Next]_vars => NewestWins'
<1> SUFFICES ASSUME TypeOK, KeysAreOwn, NewestWins, [Next]_vars, KeyedById,
                    NEW a \in Aggregate, NEW k \in KeysOf[a]
             PROVE  RowIsNewest(a, k)'
  BY DEF NewestWins, RowIsNewest, KeyedById
<1>1. RowIsNewest(a, k)
  BY DEF NewestWins, RowIsNewest
<1>2. ASSUME NEW v \in Version, NEW b \in Aggregate, NEW action \in Action, NEW j \in Key,
             Emit(v, b, action, j)
      PROVE  RowIsNewest(a, k)'
  BY <1>1, <1>2, EmitKeepsRow
<1>3. ASSUME NEW v \in Version, ApplyBatch(v)
      PROVE  RowIsNewest(a, k)'
  BY <1>1, <1>3, ApplyKeepsRow
<1>4. CASE UNCHANGED vars
  BY <1>1, <1>4 DEF vars, RowIsNewest, Newest, Recorded
<1>5. QED
  BY <1>2, <1>3, <1>4 DEF Next

\* In a table keyed by id a row always shows the newest applied event.
THEOREM NewestAlwaysWins == Spec => []NewestWins
<1>1. Init => KeysAreOwn /\ NewestWins
  BY DEF Init, KeysAreOwn, NewestWins, Newest, Recorded
<1>2. QED
  BY <1>1, RowsTyped, StepKeys, StepNewest, PTL DEF Spec

\* A row changes only when an event newer than it is applied for the first time.
\* Keys of their own are needed: a delete does not test the version of the row.
THEOREM StaleNeverShows == KeyedById => (Spec => StaleSuppressed)
<1> SUFFICES ASSUME KeyedById
             PROVE  Spec => StaleSuppressed
  OBVIOUS
<1> DEFINE Step == \A k \in Key : rows'[k] # rows[k] => \E v \in receipts' \ receipts : v > rows[k]
<1>1. ASSUME TypeOK, KeysAreOwn, NewestWins, [Next]_vars
      PROVE  [Step]_vars
  <2>1. ASSUME NEW v \in Version, NEW b \in Aggregate, NEW action \in Action, NEW j \in Key,
               Emit(v, b, action, j)
        PROVE  Step
    BY <2>1 DEF Emit
  <2>2. ASSUME NEW v \in Version, ApplyBatch(v), NEW k \in Key, rows'[k] # rows[k]
        PROVE  v \in receipts' \ receipts /\ v > rows[k]
    <3> DEFINE a == log[v].aggregate
    <3>1. /\ a \in Aggregate /\ log[v].key \in KeysOf[a] /\ log[v].key \in Key
          /\ receipts \subseteq Version /\ rows \in [Key -> 0..MaxVersion]
      BY <2>2, <1>1, EventType DEF ApplyBatch, KeysAreOwn, TypeOK
    <3>2. Fresh(v) /\ k = log[v].key
      BY <2>2, <3>1 DEF ApplyBatch, Shown
    <3>3. v \notin receipts
      BY <3>2 DEF Fresh, Recorded
    <3>4. rows[k] # 0 => Newest(a, rows[k])
      BY <1>1, <3>1, <3>2 DEF NewestWins
    <3>5. rows[k] < v
      BY <3>1, <3>2, <3>4 DEF Newest, Fresh
    <3>6. QED
      BY <2>2, <3>1, <3>3, <3>5 DEF ApplyBatch
  <2>3. QED
    BY <1>1, <2>1, <2>2 DEF Next
<1>2. Init => KeysAreOwn /\ NewestWins
  BY DEF Init, KeysAreOwn, NewestWins, Newest, Recorded
<1>3. QED
  BY <1>1, <1>2, RowsTyped, StepKeys, StepNewest, PTL DEF Spec, StaleSuppressed

-----------------------------------------------------------------------------
(* Convergence.  What is published follows the newest event of each        *)
(* aggregate, because events are numbered in the order they happen.        *)
-----------------------------------------------------------------------------

NoGaps == \A v, w \in Version : w < v /\ Emitted(v) => Emitted(w)

\* What PublishedIsNewest says of one aggregate.
PublishedIsNewestOf(a) ==
  /\ published[a] # None => \E v \in Version : NewestEvent(a, v)
  /\ \A v \in Version :
       NewestEvent(a, v) => published[a] = IF log[v].action = "upsert" THEN log[v].key ELSE None

\* Every step keeps the numbering without gaps.
LEMMA StepNoGaps == TypeOK /\ NoGaps /\ [Next]_vars => NoGaps'
<1> SUFFICES ASSUME TypeOK, NoGaps, [Next]_vars
             PROVE  NoGaps'
  OBVIOUS
<1>1. ASSUME NEW v \in Version, NEW a \in Aggregate, NEW action \in Action, NEW k \in Key,
             Emit(v, a, action, k)
      PROVE  NoGaps'
  BY <1>1 DEF Emit, NoGaps, TypeOK
<1>2. ASSUME NEW v \in Version, ApplyBatch(v)
      PROVE  NoGaps'
  BY <1>2 DEF ApplyBatch, NoGaps
<1>3. QED
  BY <1>1, <1>2 DEF Next, vars, NoGaps

\* Every step keeps what is published in line with the newest events.
LEMMA StepPublished ==
  TypeOK /\ NoGaps /\ PublishedIsNewest /\ [Next]_vars => PublishedIsNewest'
<1> SUFFICES ASSUME TypeOK, NoGaps, PublishedIsNewest, [Next]_vars, NEW a \in Aggregate
             PROVE  PublishedIsNewestOf(a)'
  BY DEF PublishedIsNewest, PublishedIsNewestOf
<1>0. PublishedIsNewestOf(a)
  BY DEF PublishedIsNewest, PublishedIsNewestOf
<1>1. ASSUME NEW v \in Version, NEW b \in Aggregate, NEW action \in Action, NEW k \in Key,
             Emit(v, b, action, k)
      PROVE  PublishedIsNewestOf(a)'
  <2>1. \A w \in Version \ {v} : log'[w] = log[w]
    BY <1>1 DEF Emit, TypeOK
  <2>2. /\ log'[v] = [aggregate |-> b, action |-> action, key |-> k]
        /\ log'[v] # None
    BY <1>1 DEF Emit, TypeOK
  <2>3. \A w \in Version : Emitted(w) => w < v
    BY <1>1 DEF Emit, NoGaps
  <2>4. CASE b = a /\ action # "unprojectable"
    <3>1. \A w \in Version : NewestEvent(a, w)' <=> w = v
      BY <2>1, <2>2, <2>3, <2>4 DEF NewestEvent
    <3>2. published'[a] = IF action = "upsert" THEN k ELSE None
      BY <1>1, <2>4 DEF Emit, TypeOK
    <3>3. QED
      BY <2>2, <3>1, <3>2 DEF PublishedIsNewestOf
  <2>5. CASE b # a \/ action = "unprojectable"
    <3>1. \A w \in Version : NewestEvent(a, w)' <=> NewestEvent(a, w)
      BY <1>1, <2>1, <2>2, <2>5 DEF NewestEvent, Emit
    <3>2. published'[a] = published[a]
      BY <1>1, <2>5 DEF Emit, TypeOK
    <3>3. \A w \in Version : NewestEvent(a, w) => log'[w] = log[w]
      BY <1>1, <2>1 DEF NewestEvent, Emit
    <3>4. QED
      BY <1>0, <3>1, <3>2, <3>3 DEF PublishedIsNewestOf
  <2>6. QED
    BY <2>4, <2>5
<1>2. ASSUME NEW v \in Version, ApplyBatch(v)
      PROVE  PublishedIsNewestOf(a)'
  BY <1>0, <1>2 DEF ApplyBatch, PublishedIsNewestOf, NewestEvent
<1>3. CASE UNCHANGED vars
  BY <1>0, <1>3 DEF vars, PublishedIsNewestOf, NewestEvent
<1>4. QED
  BY <1>1, <1>2, <1>3 DEF Next

\* With every projectable event applied, the rows show what is published.
LEMMA NewestConverges ==
  TypeOK /\ KeysAreOwn /\ NewestWins /\ PublishedIsNewest => Converges
<1> SUFFICES ASSUME TypeOK, KeysAreOwn, NewestWins, PublishedIsNewest, KeyedById,
                    \A v \in Version : Projectable(v) => v \in receipts,
                    NEW a \in Aggregate, NEW k \in KeysOf[a]
             PROVE  rows[k] # 0 <=> published[a] = k
  BY DEF Converges
<1>1. \A v \in Version : Newest(a, v) <=> NewestEvent(a, v)
  BY DEF TypeOK, Newest, NewestEvent, Recorded
<1>2. k \in Key /\ KeysOf[a] = {k} /\ rows[k] \in 0..MaxVersion
  BY DEF KeyedById, TypeOK
<1>3. ASSUME rows[k] # 0
      PROVE  published[a] = k
  <2> DEFINE v == rows[k]
  <2>1. v \in Version /\ Newest(a, v)
    BY <1>2, <1>3 DEF NewestWins
  <2>2. log[v].action = "upsert"
    BY <1>3, <2>1 DEF NewestWins
  <2>3. log[v].key = k
    BY <1>1, <1>2, <2>1 DEF NewestEvent, KeysAreOwn
  <2>4. QED
    BY <1>1, <2>1, <2>2, <2>3 DEF PublishedIsNewest
<1>4. ASSUME published[a] = k
      PROVE  rows[k] # 0
  <2>1. PICK v \in Version : NewestEvent(a, v)
    BY <1>2, <1>4 DEF PublishedIsNewest
  <2>2. log[v].action = "upsert"
    BY <1>2, <1>4, <2>1 DEF PublishedIsNewest
  <2>3. QED
    BY <1>1, <2>1, <2>2 DEF NewestWins
<1>5. QED
  BY <1>3, <1>4

\* The read model agrees with what is published once every event is applied, in
\* whatever order that happened.
THEOREM AlwaysConverges == Spec => []Converges
<1>1. Init => KeysAreOwn /\ NewestWins /\ NoGaps /\ PublishedIsNewest
  BY DEF Init, KeysAreOwn, NewestWins, Newest, Recorded, NoGaps, PublishedIsNewest, NewestEvent
<1>2. QED
  BY <1>1, RowsTyped, StepKeys, StepNewest, StepNoGaps, StepPublished, NewestConverges, PTL
     DEF Spec

-----------------------------------------------------------------------------
(* The read model with its runners.                                        *)
-----------------------------------------------------------------------------

\* Whatever runs, repeats and fails, D1 only makes the steps of ReadModel, whose
\* theorems therefore hold of it.
LEMMA Refinement == ProjectionSpec => Spec
<1>1. ProjectionInit => Init
  BY DEF ProjectionInit
<1>2. ASSUME ProjectionTypeOK, Working, [ProjectionNext]_projectionVars
      PROVE  [Next]_vars
  <2>1. CASE EmitEvent
    BY <2>1 DEF EmitEvent, Next
  <2>2. ASSUME NEW r \in Runner, Proceed(r) \/ Crash(r)
        PROVE  [Next]_vars
    <3>1. CASE Apply(r) \/ ApplyThrows(r)
      <4>1. event[r] \in Version
        BY <1>2, <3>1 DEF ProjectionTypeOK, Working, Apply, ApplyThrows
      <4> QED
        BY <3>1, <4>1 DEF Apply, ApplyThrows, Next, vars
    <3>2. CASE ~(Apply(r) \/ ApplyThrows(r))
      BY <2>2, <3>2 DEF Proceed, Crash, LoadMissing, Load, LoadThrows, MarkProcessed,
         MarkProcessedThrows, MarkFailed, MarkFailedThrows, vars
    <3> QED
      BY <3>1, <3>2
  <2>3. CASE UNCHANGED vars
    BY <2>3 DEF vars
  <2> QED
    BY <1>2, <2>1, <2>2, <2>3 DEF ProjectionNext, Enqueue, StartWorkflow, Receive, projectionVars
<1>3. IInv => ProjectionTypeOK /\ Working
  BY DEF IInv
<1> QED
  BY <1>1, <1>2, <1>3, Invariance, PTL DEF ProjectionSpec, Spec

\* What the read model keeps: types, keys, the newest event in every row, and what is
\* published.
Faithful == TypeOK /\ KeysAreOwn /\ NewestWins /\ PublishedIsNewest

\* The read model keeps it with its runners, too.
LEMMA StaysFaithful == ProjectionSpec => []Faithful
<1>1. Init => Faithful /\ NoGaps
  BY DEF Init, Faithful, TypeOK, KeysAreOwn, NewestWins, Newest, Recorded, NoGaps,
         PublishedIsNewest, NewestEvent
<1>2. Faithful /\ NoGaps /\ [Next]_vars => Faithful' /\ NoGaps'
  BY RowsStepType, StepKeys, StepNewest, StepNoGaps, StepPublished DEF Faithful
<1> QED
  BY <1>1, <1>2, Refinement, PTL DEF Spec

\* An event whose messages are all gone is in D1 if it can be projected, so a drained
\* queue leaves every projectable event in D1.
LEMMA DrainedIsRecorded ==
  ASSUME NothingDropped, RecordsAreTrue, NEW v \in Version, Projectable(v),
         v \in handed \ parked, ~UnderWay(v)
  PROVE  v \in receipts
BY DEF NothingDropped, RecordsAreTrue

\* Once every projectable event was handed over and none is under way or parked, each
\* row keyed by id is what the newest event of its aggregate published.
THEOREM DrainedShowsPublished == ProjectionSpec => []DrainedIsCurrent
<1>1. ASSUME IInv, Faithful
      PROVE  DrainedIsCurrent
  <2> SUFFICES ASSUME KeyedById,
                      \A v \in Version : Projectable(v) => v \in handed \ parked /\ ~UnderWay(v),
                      NEW a \in Aggregate, NEW k \in KeysOf[a]
               PROVE  IF published[a] = k THEN rows[k] # 0 /\ NewestEvent(a, rows[k]) ELSE rows[k] = 0
    BY DEF DrainedIsCurrent
  <2>1. \A v \in Version : Projectable(v) => v \in receipts
    BY <1>1, DrainedIsRecorded DEF IInv
  <2>2. rows[k] # 0 <=> published[a] = k
    BY <1>1, <2>1, NewestConverges DEF Faithful, Converges
  <2>3. k \in Key /\ rows[k] \in 0..MaxVersion
    BY <1>1 DEF Faithful, TypeOK, KeyedById
  <2>4. CASE published[a] = k
    <3>1. rows[k] \in Version /\ Newest(a, rows[k])
      BY <1>1, <2>2, <2>3, <2>4 DEF Faithful, NewestWins
    <3> QED
      BY <1>1, <2>1, <2>2, <2>4, <3>1 DEF Faithful, TypeOK, Newest, NewestEvent, Recorded
  <2>5. CASE published[a] # k
    BY <2>2, <2>3, <2>5
  <2> QED
    BY <2>4, <2>5
<1> QED
  BY <1>1, Invariance, StaysFaithful, PTL

HIDE ProjectionAssumption DEF Event, Projectable
USE DEF InHand, Defect, Kept, Reach, Respond, Store

-----------------------------------------------------------------------------
(* Webhooks.                                                               *)
-----------------------------------------------------------------------------

\* What a delivery in progress carries.
LEMMA Carried ==
  ASSUME WebhooksTypeOK, NEW d \in HookDelivery, stage[d] # "unsent"
  PROVE  sent[d].event \in HookEvent
BY DEF WebhooksTypeOK

\* Every step of a delivery keeps the types.
LEMMA HookStepType == WebhooksTypeOK /\ [HookNext]_hookVars => WebhooksTypeOK'
<1> SUFFICES ASSUME WebhooksTypeOK, [HookNext]_hookVars
             PROVE  WebhooksTypeOK'
  OBVIOUS
<1> USE DEF WebhooksTypeOK
<1>1. ASSUME NEW d \in HookDelivery, NEW e \in HookEvent, NEW defect \in Defect, Send(d, e, defect)
      PROVE  WebhooksTypeOK'
  BY <1>1 DEF Send
<1>2. ASSUME NEW d \in HookDelivery, GiveUp(d) \/ HookCrash(d) \/ RateLimited(d) \/ Verify(d)
      PROVE  WebhooksTypeOK'
  BY <1>2, Carried DEF GiveUp, HookCrash, RateLimited, Verify
<1>3. ASSUME NEW d \in HookDelivery, Claim(d) \/ ClaimThrows(d)
      PROVE  WebhooksTypeOK'
  BY <1>3, Carried DEF Claim, ClaimThrows
<1>4. ASSUME NEW d \in HookDelivery, Handle(d) \/ HandleThrows(d)
      PROVE  WebhooksTypeOK'
  BY <1>4, Carried DEF Handle, HandleThrows
<1>5. ASSUME NEW d \in HookDelivery,
             Complete(d) \/ CompleteThrows(d) \/ Release(d) \/ ReleaseThrows(d)
      PROVE  WebhooksTypeOK'
  BY <1>5, Carried DEF Complete, CompleteThrows, Release, ReleaseThrows
<1>6. CASE UNCHANGED hookVars
  BY <1>6 DEF hookVars
<1> QED
  BY <1>1, <1>2, <1>3, <1>4, <1>5, <1>6 DEF HookNext, Process

\* Every reachable state of the ingestion has its type.
THEOREM WebhooksTypeCorrect == HookSpec => []WebhooksTypeOK
<1>1. HookInit => WebhooksTypeOK
  BY DEF HookInit, WebhooksTypeOK
<1> QED
  BY <1>1, HookStepType, PTL DEF HookSpec

-----------------------------------------------------------------------------
(* One delivery at a time has an event in hand, from the claim to the call *)
(* of complete or release that gives it up.                                *)
-----------------------------------------------------------------------------

\* A delivery with the event in hand holds the claim, and alone.
HeldByOne ==
  /\ \A d \in HookDelivery : stage[d] \in InHand => claim[sent[d].event] # "free"
  /\ \A c, d \in HookDelivery :
       stage[c] \in InHand /\ stage[d] \in InHand /\ sent[c].event = sent[d].event => c = d

\* Nobody has heard of an event that was not sent.
Unanswered == \A d \in HookDelivery : stage[d] = "unsent" => answer[d] = "none"

\* A claim that is held by no delivery was abandoned.
ClaimedByOne ==
  \A e \in HookEvent : claim[e] = "claimed" =>
    e \in abandoned \/ \E d \in Of(e) : stage[d] \in InHand

\* What is on record, and what the deliveries at work know, of the handling.
OnRecord ==
  /\ \A e \in HookEvent :
       /\ claim[e] = "completed" => handled[e] > 0
       /\ claim[e] = "free" => handled[e] = 0 \/ e \in unrecorded
       /\ handled[e] > 1 => e \in unrecorded
  /\ \A d \in HookDelivery :
       LET e == sent[d].event IN
       /\ stage[d] = "completing" => handled[e] > 0
       /\ stage[d] \in {"handling", "releasing"} => handled[e] = 0 \/ e \in unrecorded

HookInv == WebhooksTypeOK /\ Unanswered /\ HeldByOne /\ ClaimedByOne /\ OnRecord /\ AcknowledgedIsHandled

\* Every step of a delivery keeps the invariant.
LEMMA HookStepInv == HookInv /\ [HookNext]_hookVars => HookInv'
<1> SUFFICES ASSUME HookInv, [HookNext]_hookVars
             PROVE  HookInv'
  OBVIOUS
<1>0. WebhooksTypeOK'
  BY HookStepType DEF HookInv
<1> USE DEF HookInv, WebhooksTypeOK, Unanswered, HeldByOne, ClaimedByOne, OnRecord, AcknowledgedIsHandled, Of
<1>1. ASSUME NEW d \in HookDelivery, NEW e \in HookEvent, NEW defect \in Defect, Send(d, e, defect)
      PROVE  HookInv'
  BY <1>0, <1>1 DEF Send
<1>2. ASSUME NEW d \in HookDelivery, GiveUp(d) \/ RateLimited(d) \/ Verify(d)
      PROVE  HookInv'
  <2>1. HeldByOne'
    BY <1>2, Carried DEF GiveUp, RateLimited, Verify
  <2>2. ClaimedByOne'
    BY <1>2, Carried DEF GiveUp, RateLimited, Verify
  <2>3. Unanswered' /\ OnRecord'
    BY <1>2, Carried DEF GiveUp, RateLimited, Verify
  <2>4. AcknowledgedIsHandled'
    BY <1>2, Carried DEF GiveUp, RateLimited, Verify
  <2> QED
    BY <1>0, <2>1, <2>2, <2>3, <2>4
<1>3. ASSUME NEW d \in HookDelivery, HookCrash(d)
      PROVE  HookInv'
  <2>1. HeldByOne'
    BY <1>3, Carried DEF HookCrash
  <2>2. ClaimedByOne'
    BY <1>3, Carried DEF HookCrash
  <2>3. Unanswered' /\ OnRecord'
    BY <1>3, Carried DEF HookCrash
  <2>4. AcknowledgedIsHandled'
    BY <1>3, Carried DEF HookCrash
  <2> QED
    BY <1>0, <2>1, <2>2, <2>3, <2>4
<1>4. ASSUME NEW d \in HookDelivery, Claim(d)
      PROVE  HookInv'
  <2>1. HeldByOne'
    BY <1>4, Carried DEF Claim
  <2>2. ClaimedByOne'
    BY <1>4, Carried DEF Claim
  <2>3. Unanswered' /\ OnRecord'
    BY <1>4, Carried DEF Claim
  <2>4. AcknowledgedIsHandled'
    BY <1>4, Carried DEF Claim
  <2> QED
    BY <1>0, <2>1, <2>2, <2>3, <2>4
<1>5. ASSUME NEW d \in HookDelivery, ClaimThrows(d)
      PROVE  HookInv'
  <2>1. HeldByOne'
    BY <1>5, Carried DEF ClaimThrows
  <2>2. ClaimedByOne'
    BY <1>5, Carried DEF ClaimThrows
  <2>3. Unanswered' /\ OnRecord'
    BY <1>5, Carried DEF ClaimThrows
  <2>4. AcknowledgedIsHandled'
    BY <1>5, Carried DEF ClaimThrows
  <2> QED
    BY <1>0, <2>1, <2>2, <2>3, <2>4
<1>6. ASSUME NEW d \in HookDelivery, Handle(d)
      PROVE  HookInv'
  <2>1. HeldByOne'
    BY <1>6, Carried DEF Handle
  <2>2. ClaimedByOne'
    BY <1>6, Carried DEF Handle
  <2>3. Unanswered' /\ OnRecord'
    BY <1>6, Carried DEF Handle
  <2>4. AcknowledgedIsHandled'
    BY <1>6, Carried DEF Handle
  <2> QED
    BY <1>0, <2>1, <2>2, <2>3, <2>4
<1>7. ASSUME NEW d \in HookDelivery, HandleThrows(d)
      PROVE  HookInv'
  <2>1. HeldByOne'
    BY <1>7, Carried DEF HandleThrows
  <2>2. ClaimedByOne'
    BY <1>7, Carried DEF HandleThrows
  <2>3. Unanswered' /\ OnRecord'
    BY <1>7, Carried DEF HandleThrows
  <2>4. AcknowledgedIsHandled'
    BY <1>7, Carried DEF HandleThrows
  <2> QED
    BY <1>0, <2>1, <2>2, <2>3, <2>4
<1>8. ASSUME NEW d \in HookDelivery, Complete(d) \/ CompleteThrows(d)
      PROVE  HookInv'
  <2>1. HeldByOne'
    BY <1>8, Carried DEF Complete, CompleteThrows
  <2>2. ClaimedByOne'
    BY <1>8, Carried DEF Complete, CompleteThrows
  <2>3. Unanswered' /\ OnRecord'
    BY <1>8, Carried DEF Complete, CompleteThrows
  <2>4. AcknowledgedIsHandled'
    BY <1>8, Carried DEF Complete, CompleteThrows
  <2> QED
    BY <1>0, <2>1, <2>2, <2>3, <2>4
<1>9. ASSUME NEW d \in HookDelivery, Release(d) \/ ReleaseThrows(d)
      PROVE  HookInv'
  <2>1. HeldByOne'
    BY <1>9, Carried DEF Release, ReleaseThrows
  <2>2. ClaimedByOne'
    BY <1>9, Carried DEF Release, ReleaseThrows
  <2>3. Unanswered' /\ OnRecord'
    BY <1>9, Carried DEF Release, ReleaseThrows
  <2>4. AcknowledgedIsHandled'
    BY <1>9, Carried DEF Release, ReleaseThrows
  <2> QED
    BY <1>0, <2>1, <2>2, <2>3, <2>4
<1>10. CASE UNCHANGED hookVars
  BY <1>0, <1>10 DEF hookVars
<1> QED
  BY <1>1, <1>2, <1>3, <1>4, <1>5, <1>6, <1>7, <1>8, <1>9, <1>10 DEF HookNext, Process

\* An event that is acknowledged was handled, but for an answer "duplicate" while another
\* delivery had it in hand or to an abandoned claim, and what is handled twice was not
\* recorded.
THEOREM AcknowledgedWasHandled == HookSpec => []AcknowledgedIsHandled
<1>1. HookInit => HookInv
  BY DEF HookInit, HookInv, WebhooksTypeOK, Unanswered, HeldByOne, ClaimedByOne, OnRecord, AcknowledgedIsHandled, Of
<1>2. HookInv => AcknowledgedIsHandled
  BY DEF HookInv
<1> QED
  BY <1>1, <1>2, HookStepInv, PTL DEF HookSpec

-----------------------------------------------------------------------------
(* The consumer of the media queue: its messages are settled one by one.   *)
(* That a verdict is the message's own rests on how batches lie: no two    *)
(* invocations have the same message, none has it twice, and it has given  *)
(* a verdict of exactly those before the one it is at.                     *)
-----------------------------------------------------------------------------

BatchOf(w) ==
  /\ Len(given[w]) <= BatchSize
  /\ next[w] \in 1..(Len(given[w]) + 1)
  /\ \A i, j \in 1..Len(given[w]) : given[w][i] = given[w][j] => i = j
  /\ \A i \in 1..Len(given[w]) : place[given[w][i]] = "held"
  /\ \A i \in 1..Len(given[w]) : verdict[given[w][i]] = "none" <=> i >= next[w]

Apart(v, w) ==
  \A i \in 1..Len(given[v]), j \in 1..Len(given[w]) : given[v][i] = given[w][j] => v = w

BatchesOK ==
  /\ given \in [Invocation -> Seq(Job)] /\ next \in [Invocation -> Nat]
  /\ \A w \in Invocation : BatchOf(w)
  /\ \A v, w \in Invocation : Apart(v, w)

CountsOK ==
  /\ place \in [Job -> {"queued", "held", "gone", "dead"}]
  /\ verdict \in [Job -> {"none", "ack", "retry"}]
  /\ deliveries \in [Job -> 0..(MaxRetries + 1)]
  /\ effects \in [Job -> Nat] /\ troubled \in [Job -> Nat] /\ deaths \in 0..MaxDeaths

\* Every delivery that did not end in an acknowledgement was trouble of the
\* message's own, and carried it out once at most.
TallyOf(m) ==
  /\ deliveries[m] <= MaxRetries + 1
  /\ place[m] # "held" => verdict[m] = "none"
  /\ place[m] = "queued" =>
       deliveries[m] <= MaxRetries /\ troubled[m] = deliveries[m] /\ effects[m] <= troubled[m]
  /\ place[m] = "held" =>
       /\ effects[m] <= deliveries[m]
       /\ troubled[m] + (IF verdict[m] = "retry" THEN 0 ELSE 1) = deliveries[m]
       /\ verdict[m] = "none" => effects[m] <= troubled[m]
       /\ verdict[m] = "ack" /\ m \notin Spoiled => effects[m] > 0
  /\ place[m] = "dead" =>
       /\ deliveries[m] = MaxRetries + 1
       /\ troubled[m] = deliveries[m] /\ effects[m] <= troubled[m]
  /\ place[m] = "gone" => effects[m] <= 1 + troubled[m] /\ (m \notin Spoiled => effects[m] > 0)

Tally == \A m \in Job : TallyOf(m)

MediaInv == CountsOK /\ BatchesOK /\ Tally

\* A batch in some order: a sequence of its messages that has none twice.
LEMMA OrderOfBatch ==
  ASSUME NEW S \in SUBSET Job, IsFiniteSet(S), Cardinality(S) <= BatchSize, NEW s \in SetToSeqs(S)
  PROVE  /\ s \in Seq(Job) /\ Len(s) \in Nat /\ Len(s) <= BatchSize
         /\ \A i \in 1..Len(s) : s[i] \in S
         /\ \A i, j \in 1..Len(s) : s[i] = s[j] => i = j
<1>1. Cardinality(S) \in Nat
  BY FS_CardinalityType
<1>2. s \in [1..Cardinality(S) -> S]
      /\ \A i, j \in 1..Cardinality(S) : i # j => s[i] # s[j]
  BY DEF SetToSeqs
<1>3. s \in [1..Cardinality(S) -> Job]
  BY <1>2
<1>4. s \in Seq(Job)
  BY <1>1, <1>3, SeqDef
<1>5. Len(s) = Cardinality(S)
  BY <1>1, <1>2, <1>4, LenProperties
<1>6. QED
  BY <1>1, <1>2, <1>4, <1>5

\* The messages an invocation was given.
LEMMA InBatch ==
  ASSUME BatchesOK, NEW w \in Invocation
  PROVE  /\ \A m : m \in ToSet(given[w]) <=> \E i \in 1..Len(given[w]) : m = given[w][i]
         /\ \A i \in 1..Len(given[w]) : given[w][i] \in Job
         /\ Len(given[w]) \in Nat
BY DEF BatchesOK, ToSet

\* A batch that a step neither hands out nor speaks of stays as it is.
LEMMA OtherBatch ==
  ASSUME BatchesOK, NEW v \in Invocation, given'[v] = given[v], next'[v] = next[v],
         \A i \in 1..Len(given[v]) : /\ place'[given[v][i]] = place[given[v][i]]
                                     /\ verdict'[given[v][i]] = verdict[given[v][i]]
  PROVE  BatchOf(v)'
<1>1. BatchOf(v)
  BY DEF BatchesOK
<1>2. /\ Len(given[v]) <= BatchSize
      /\ next[v] \in 1..(Len(given[v]) + 1)
      /\ \A i, j \in 1..Len(given[v]) : given[v][i] = given[v][j] => i = j
  BY <1>1 DEF BatchOf
<1>3. /\ \A i \in 1..Len(given[v]) : place'[given[v][i]] = "held"
      /\ \A i \in 1..Len(given[v]) : verdict'[given[v][i]] = "none" <=> i >= next[v]
  BY <1>1 DEF BatchOf
<1> QED
  BY <1>2, <1>3 DEF BatchOf

\* A batch that is handed over is in one invocation.
LEMMA StepHandOver ==
  ASSUME MediaInv, NEW w \in Invocation, NEW S \in SUBSET Job, HandOver(w, S)
  PROVE  MediaInv'
<1> USE MediaAssumption DEF MediaInv
<1>1. PICK s \in SetToSeqs(S) : given' = [given EXCEPT ![w] = s]
  BY DEF HandOver
<1>2. /\ s \in Seq(Job) /\ Len(s) \in Nat /\ Len(s) <= BatchSize
      /\ \A i \in 1..Len(s) : s[i] \in S
      /\ \A i, j \in 1..Len(s) : s[i] = s[j] => i = j
  BY OrderOfBatch DEF HandOver
<1>3. CountsOK'
  <2>1. \A m \in S : deliveries[m] \in 0..MaxRetries
    BY DEF HandOver, Tally, TallyOf, CountsOK
  <2>2. deliveries' \in [Job -> 0..(MaxRetries + 1)]
    BY <2>1 DEF HandOver, CountsOK
  <2> QED
    BY <2>2 DEF HandOver, CountsOK
<1>4. Tally'
  BY DEF HandOver, CountsOK, Tally, TallyOf
<1>5. given'[w] = s /\ \A v \in Invocation \ {w} : given'[v] = given[v] /\ next'[v] = next[v]
  BY <1>1 DEF HandOver, BatchesOK
<1>6. BatchOf(w)'
  <2>1. next'[w] = 1
    BY DEF HandOver, BatchesOK
  <2>2. \A m \in S : place'[m] = "held" /\ verdict'[m] = "none"
    BY DEF HandOver, Tally, TallyOf
  <2>3. QED
    BY <1>2, <1>5, <2>1, <2>2 DEF BatchOf
<1>7. \A v \in Invocation \ {w} : \A i \in 1..Len(given[v]) : given[v][i] \in Job \ S
  BY InBatch DEF HandOver, BatchesOK, BatchOf
<1>8. \A v \in Invocation \ {w} : BatchOf(v)'
  BY <1>5, <1>7, OtherBatch DEF HandOver
<1>9. \A u, v \in Invocation : Apart(u, v)'
  <2> SUFFICES ASSUME NEW u \in Invocation, NEW v \in Invocation, u # v
               PROVE  Apart(u, v)'
    BY DEF Apart
  <2>1. CASE u = w
    BY <1>2, <1>5, <1>7, <2>1 DEF Apart
  <2>2. CASE v = w
    BY <1>2, <1>5, <1>7, <2>2 DEF Apart
  <2>3. CASE u # w /\ v # w
    BY <1>5, <2>3 DEF BatchesOK, Apart
  <2>4. QED
    BY <2>1, <2>2, <2>3
<1>10. QED
  BY <1>1, <1>2, <1>3, <1>4, <1>6, <1>8, <1>9 DEF BatchesOK, HandOver

\* The loop has said something of the message it was at, and of no other.
LEMMA StepSay ==
  ASSUME MediaInv, NEW w \in Invocation, NEW m \in Job, At(w, m),
         NEW what \in {"ack", "retry"}, Say(w, m, what)
  PROVE  BatchesOK'
<1> USE DEF MediaInv
<1>1. /\ next[w] \in 1..Len(given[w]) /\ m = given[w][next[w]]
      /\ given' = given /\ place' = place
  BY InBatch DEF At, Say, BatchesOK, BatchOf
<1>2. /\ next' \in [Invocation -> Nat] /\ next'[w] = next[w] + 1
      /\ \A v \in Invocation \ {w} : next'[v] = next[v]
  BY DEF Say, BatchesOK
<1>3. verdict'[m] = what /\ \A c \in Job \ {m} : verdict'[c] = verdict[c]
  BY DEF Say, CountsOK
<1>4. BatchOf(w)'
  <2>1. \A i \in 1..Len(given[w]) : i # next[w] => given[w][i] \in Job \ {m}
    BY <1>1, InBatch DEF BatchesOK, BatchOf
  <2>2. Len(given[w]) \in Nat /\ BatchOf(w)
    BY InBatch DEF BatchesOK
  <2>3. \A i \in 1..Len(given[w]) : verdict'[given[w][i]] = "none" <=> i >= next'[w]
    <3> SUFFICES ASSUME NEW i \in 1..Len(given[w])
                 PROVE  verdict'[given[w][i]] = "none" <=> i >= next'[w]
      OBVIOUS
    <3>1. CASE i = next[w]
      BY <1>1, <1>2, <1>3, <3>1
    <3>2. CASE i # next[w]
      BY <1>1, <1>2, <1>3, <2>1, <2>2, <3>2 DEF BatchOf
    <3>3. QED
      BY <3>1, <3>2
  <2>4. next'[w] \in 1..(Len(given'[w]) + 1)
    BY <1>1, <1>2, <2>2
  <2>5. QED
    BY <1>1, <2>2, <2>3, <2>4 DEF BatchOf
<1>5. \A v \in Invocation \ {w} : BatchOf(v)'
  <2> SUFFICES ASSUME NEW v \in Invocation \ {w}
               PROVE  BatchOf(v)'
    OBVIOUS
  <2>1. \A i \in 1..Len(given[v]) : given[v][i] \in Job \ {m}
    BY <1>1, InBatch DEF BatchesOK, Apart
  <2>2. QED
    BY <1>1, <1>2, <1>3, <2>1, OtherBatch
<1>6. QED
  BY <1>1, <1>2, <1>4, <1>5 DEF BatchesOK, Apart

\* What an invocation that ended held is with the queue again; no other's is.
LEMMA StepSettle ==
  ASSUME MediaInv, NEW w \in Invocation, NEW heard, Settle(w, heard)
  PROVE  BatchesOK'
<1> USE DEF MediaInv
<1>1. /\ given' \in [Invocation -> Seq(Job)] /\ given'[w] = <<>>
      /\ next' \in [Invocation -> Nat] /\ next'[w] = 1
      /\ \A v \in Invocation \ {w} : given'[v] = given[v] /\ next'[v] = next[v]
  BY DEF Settle, BatchesOK
<1>2. BatchOf(w)'
  BY <1>1, MediaAssumption DEF BatchOf
<1>3. \A v \in Invocation \ {w} : BatchOf(v)'
  <2> SUFFICES ASSUME NEW v \in Invocation \ {w}
               PROVE  BatchOf(v)'
    OBVIOUS
  <2>1. ASSUME NEW i \in 1..Len(given[v])
        PROVE  given[v][i] \in Job \ ToSet(given[w])
    <3>1. Apart(v, w) /\ given[v][i] \in Job
      BY InBatch DEF BatchesOK
    <3>2. QED
      BY <3>1, InBatch DEF Apart
  <2>2. \A i \in 1..Len(given[v]) : /\ place'[given[v][i]] = place[given[v][i]]
                                    /\ verdict'[given[v][i]] = verdict[given[v][i]]
    <3>1. \A m \in Job \ ToSet(given[w]) : place'[m] = place[m] /\ verdict'[m] = verdict[m]
      BY DEF Settle
    <3>2. QED
      BY <2>1, <3>1
  <2>3. QED
    BY <1>1, <2>2, OtherBatch
<1>4. \A u, v \in Invocation : Apart(u, v)'
  <2> SUFFICES ASSUME NEW u \in Invocation, NEW v \in Invocation
               PROVE  Apart(u, v)'
    OBVIOUS
  <2>1. CASE u = w \/ v = w
    BY <1>1, <2>1 DEF Apart
  <2>2. CASE u # w /\ v # w
    BY <1>1, <2>2 DEF BatchesOK, Apart
  <2>3. QED
    BY <2>1, <2>2
<1>5. QED
  BY <1>1, <1>2, <1>3, <1>4 DEF BatchesOK

\* A settled message whose verdict was heard had at most one effect without trouble, and
\* one that was not heard had none.
LEMMA SettleTally ==
  ASSUME MediaInv, NEW w \in Invocation, NEW heard, Settle(w, heard),
         effects' \in [Job -> Nat], troubled' \in [Job -> Nat],
         \A m \in Job \ ToSet(given[w]) : effects'[m] = effects[m] /\ troubled'[m] = troubled[m],
         \A m \in Job : m \in ToSet(given[w]) /\ m \notin heard =>
           troubled'[m] = deliveries[m] /\ effects'[m] <= troubled'[m],
         \A m \in Job : m \in ToSet(given[w]) /\ m \in heard =>
           effects'[m] <= 1 + troubled'[m] /\ (m \notin Spoiled => effects'[m] > 0)
  PROVE  Tally'
<1> SUFFICES ASSUME NEW m \in Job
             PROVE  TallyOf(m)'
  BY DEF Tally
<1> USE MediaAssumption DEF MediaInv, CountsOK
<1>1. TallyOf(m) /\ UNCHANGED deliveries
  BY DEF Tally, Settle
<1>2. CASE m \in ToSet(given[w])
  <2>1. place'[m] = Fate(m, heard) /\ verdict'[m] = "none"
    BY <1>2 DEF Settle
  <2>2. QED
    BY <1>1, <1>2, <2>1 DEF Fate, TallyOf
<1>3. CASE m \notin ToSet(given[w])
  <2>1. place'[m] = place[m] /\ verdict'[m] = verdict[m]
    BY <1>3 DEF Settle
  <2>2. QED
    BY <1>1, <1>3, <2>1 DEF TallyOf
<1>4. QED
  BY <1>2, <1>3

\* The counts of all messages agree after one batch is settled.
LEMMA SettleCounts ==
  ASSUME MediaInv, NEW w \in Invocation, NEW heard, Settle(w, heard),
         effects' \in [Job -> Nat], troubled' \in [Job -> Nat], deaths' \in 0..MaxDeaths
  PROVE  CountsOK'
BY DEF MediaInv, CountsOK, Settle, Fate

\* A message that an invocation holds is held, and its tally says so.
LEMMA HeldTally ==
  ASSUME MediaInv, NEW w \in Invocation, NEW m \in ToSet(given[w])
  PROVE  m \in Job /\ place[m] = "held" /\ TallyOf(m)
<1>1. PICK i \in 1..Len(given[w]) : m = given[w][i]
  BY InBatch DEF MediaInv
<1>2. QED
  BY <1>1, InBatch DEF MediaInv, BatchesOK, BatchOf, Tally

\* One turn of the loop keeps the invariant.
LEMMA StepLoop ==
  ASSUME MediaInv, NEW w \in Invocation, NEW m \in Job, NEW took \in BOOLEAN,
         Reject(w, m) \/ ProcessMedia(w, m) \/ Fail(w, m, took)
  PROVE  MediaInv'
<1> USE DEF MediaInv
<1>1. PICK what \in {"ack", "retry"} : At(w, m) /\ Say(w, m, what)
  BY DEF Reject, ProcessMedia, Fail
<1>2. BatchesOK'
  BY <1>1, StepSay
<1>3. CountsOK'
  BY <1>1 DEF CountsOK, Say, Reject, ProcessMedia, Fail
<1>4. place[m] = "held" /\ verdict[m] = "none" /\ TallyOf(m)
  <2>1. next[w] \in 1..Len(given[w]) /\ m = given[w][next[w]]
    BY <1>1, InBatch DEF At, BatchesOK, BatchOf
  <2>2. QED
    BY <2>1, InBatch DEF BatchesOK, BatchOf, Tally
<1>5. TallyOf(m)'
  BY <1>1, <1>4 DEF TallyOf, CountsOK, Say, Reject, ProcessMedia, Fail
<1>6. ASSUME NEW c \in Job \ {m}
      PROVE  TallyOf(c)'
  BY <1>1 DEF Tally, TallyOf, CountsOK, Say, Reject, ProcessMedia, Fail
<1>7. QED
  BY <1>2, <1>3, <1>5, <1>6 DEF Tally

\* A loop that ends settles what it has.
LEMMA StepReturn ==
  ASSUME MediaInv, NEW w \in Invocation, Return(w)
  PROVE  MediaInv'
<1> USE DEF MediaInv
<1>1. Settle(w, Acknowledged(w)) /\ UNCHANGED <<effects, troubled, deaths>>
  BY DEF Return
<1>2. CountsOK' /\ BatchesOK'
  BY <1>1, StepSettle, SettleCounts DEF CountsOK
<1>3. ASSUME NEW m \in ToSet(given[w])
      PROVE  verdict[m] \in {"ack", "retry"}
  <2>1. PICK i \in 1..Len(given[w]) : m = given[w][i]
    BY InBatch
  <2>2. next[w] > i
    BY InBatch DEF Return, BatchesOK
  <2>3. verdict[m] # "none" /\ m \in Job
    BY <2>1, <2>2, InBatch DEF BatchesOK, BatchOf
  <2>4. QED
    BY <2>3 DEF CountsOK
<1>4. Tally'
  <2>1. ASSUME NEW m \in Job, m \in ToSet(given[w]), m \notin Acknowledged(w)
        PROVE  troubled[m] = deliveries[m] /\ effects[m] <= troubled[m]
    BY <1>3, <2>1, HeldTally DEF Acknowledged, TallyOf, CountsOK
  <2>2. ASSUME NEW m \in Job, m \in Acknowledged(w)
        PROVE  effects[m] <= 1 + troubled[m] /\ (m \notin Spoiled => effects[m] > 0)
    BY <2>2, HeldTally DEF Acknowledged, TallyOf, CountsOK
  <2>3. QED
    BY <1>1, <2>1, <2>2, SettleTally DEF CountsOK
<1>5. QED
  BY <1>2, <1>4

\* An invocation that dies settles nothing, or what it had said.
LEMMA StepDie ==
  ASSUME MediaInv, NEW w \in Invocation, NEW kept \in BOOLEAN, NEW took \in BOOLEAN,
         Die(w, kept, took)
  PROVE  MediaInv'
<1> USE DEF MediaInv
<1> DEFINE heard == IF kept THEN Acknowledged(w) ELSE {}
<1>1. Settle(w, heard) /\ heard \subseteq Acknowledged(w)
  BY DEF Die
<1>2. /\ troubled' \in [Job -> Nat]
      /\ \A m \in Job : troubled'[m] = IF m \in ToSet(given[w]) /\ verdict[m] # "retry"
                                       THEN troubled[m] + 1 ELSE troubled[m]
  BY DEF Die, CountsOK
\* The job that was carried out without a word is one nothing was said of yet.
<1>3. /\ effects' \in [Job -> Nat]
      /\ \A m \in Job : effects'[m] # effects[m] =>
           m \in ToSet(given[w]) /\ verdict[m] = "none" /\ effects'[m] = effects[m] + 1
  <2>1. CASE ~took
    BY <2>1 DEF Die, CountsOK
  <2>2. CASE took
    <3>1. PICK c \in Job : At(w, c) /\ effects' = [effects EXCEPT ![c] = @ + 1]
      BY <2>2 DEF Die
    <3>2. c \in ToSet(given[w]) /\ verdict[c] = "none"
      <4>1. next[w] \in 1..Len(given[w]) /\ c = given[w][next[w]]
        BY <3>1, InBatch DEF At, BatchesOK, BatchOf
      <4>2. c \in ToSet(given[w])
        BY <4>1, InBatch
      <4>3. verdict[c] = "none" <=> next[w] >= next[w]
        BY <4>1 DEF BatchesOK, BatchOf
      <4>4. QED
        BY <4>1, <4>2, <4>3, InBatch
    <3>3. QED
      BY <3>1, <3>2 DEF CountsOK
  <2>3. QED
    BY <2>1, <2>2
<1>4. CountsOK' /\ BatchesOK'
  <2>1. deaths' \in 0..MaxDeaths
    BY MediaAssumption DEF Die, CountsOK
  <2>2. QED
    BY <1>1, <1>2, <1>3, <2>1, StepSettle, SettleCounts
<1>5. Tally'
  <2>1. ASSUME NEW m \in Job, m \in ToSet(given[w])
        PROVE  /\ m \notin heard => troubled'[m] = deliveries[m] /\ effects'[m] <= troubled'[m]
               /\ m \in heard => /\ effects'[m] <= 1 + troubled'[m]
                                 /\ m \notin Spoiled => effects'[m] > 0
    <3>1. place[m] = "held" /\ TallyOf(m)
      BY <2>1, HeldTally
    <3>2. m \in heard => verdict[m] = "ack"
      BY <1>1 DEF Acknowledged
    <3>3. verdict[m] \in {"none", "ack", "retry"} /\ effects[m] \in Nat /\ troubled[m] \in Nat
          /\ deliveries[m] \in Nat
      BY DEF CountsOK
    <3>4. QED
      BY <1>2, <1>3, <2>1, <3>1, <3>2, <3>3 DEF TallyOf
  <2>2. \A m \in Job \ ToSet(given[w]) : effects'[m] = effects[m] /\ troubled'[m] = troubled[m]
    BY <1>2, <1>3
  <2>3. QED
    BY <1>1, <1>2, <1>3, <2>1, <2>2, SettleTally
<1>6. QED
  BY <1>4, <1>5

\* The invariant of the media queue holds throughout.
LEMMA MediaInvariance == MediaSpec => []MediaInv
<1>1. MediaInit => MediaInv
  BY MediaAssumption DEF MediaInit, MediaInv, CountsOK, BatchesOK, BatchOf, Apart, Tally, TallyOf
<1>2. MediaInv /\ [MediaNext]_mediaVars => MediaInv'
  <2> SUFFICES ASSUME MediaInv, [MediaNext]_mediaVars
               PROVE  MediaInv'
    OBVIOUS
  <2>1. CASE MediaNext
    BY <2>1, StepHandOver, StepLoop, StepReturn, StepDie DEF MediaNext
  <2>2. CASE UNCHANGED mediaVars
    BY <2>2 DEF mediaVars, MediaInv, CountsOK, BatchesOK, BatchOf, Apart, Tally, TallyOf
  <2>3. QED
    BY <2>1, <2>2
<1>3. QED
  BY <1>1, <1>2, PTL DEF MediaSpec

\* Messages, batches and verdicts of the media queue have their types throughout.
THEOREM MediaTypeCorrect == MediaSpec => []MediaTypeOK
<1>1. MediaInv => MediaTypeOK
  <2> SUFFICES ASSUME MediaInv
               PROVE  MediaTypeOK
    OBVIOUS
  <2>1. ASSUME NEW w \in Invocation
        PROVE  /\ given[w] \in UNION {[1..n -> Job] : n \in 0..BatchSize}
               /\ next[w] \in 1..(BatchSize + 1)
    <3>1. given[w] \in Seq(Job) /\ Len(given[w]) \in 0..BatchSize
      BY MediaAssumption DEF MediaInv, BatchesOK, BatchOf
    <3>2. given[w] \in [1..Len(given[w]) -> Job]
      BY <3>1
    <3>3. next[w] \in 1..(Len(given[w]) + 1)
      BY DEF MediaInv, BatchesOK, BatchOf
    <3> QED
      BY <3>1, <3>2, <3>3, MediaAssumption
  <2> QED
    BY <2>1 DEF MediaInv, CountsOK, BatchesOK, MediaTypeOK
<1> QED
  BY <1>1, MediaInvariance, PTL

\* A job is dropped only when carried out, given up only when every delivery of it
\* failed, and carried out again only after trouble of its own.
THEOREM SettledApart == MediaSpec => []JobsSettledApart
<1>1. MediaInv => JobsSettledApart
  BY DEF MediaInv, CountsOK, Tally, TallyOf, JobsSettledApart
<1>2. QED
  BY <1>1, MediaInvariance, PTL
=============================================================================
