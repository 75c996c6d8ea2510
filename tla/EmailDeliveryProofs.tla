------------------------- MODULE EmailDeliveryProofs -------------------------
(***************************************************************************)
(* Proofs about EmailDelivery, for any number of messages, consumers,      *)
(* copies and deliveries.                                                  *)
(***************************************************************************)
EXTENDS EmailDelivery, TLAPS

USE DeliveryAssumption DEF MessageStatus, ConsumerStep, Deliveries, row, queue, held, past

-----------------------------------------------------------------------------
(* Type correctness.  The types alone are not inductive: a consumer can    *)
(* return its copy only because it has one, so what it has in hand is part *)
(* of the invariant.                                                       *)
-----------------------------------------------------------------------------

TypeInv == TypeOK /\ JobsInHand

\* A consumer at work holds the copy of a message.
LEMMA InHand ==
  ASSUME TypeInv, NEW w \in Worker, step[w] # "idle"
  PROVE  job[w] \in Message /\ delivery[w] \in Deliveries /\ willRetry[w] \in BOOLEAN
BY DEF TypeInv, TypeOK, HandTypeOK, JobsInHand

\* A counter of copies that is incremented is positive and keeps its bound.
LEMMA OneMoreRange ==
  \A k \in 0..MaxCopies : OneMore(k) \in 0..MaxCopies /\ OneMore(k) > 0
BY DEF OneMore

\* Returning a copy to the queue, or to the dead-letter queue, keeps its type.
LEMMA ReturnType ==
  ASSUME TypeInv, NEW w \in Worker, step[w] # "idle", ReturnCopy(w)
  PROVE  QueueTypeOK'
<1> DEFINE m == job[w]  n == delivery[w]
<1>1. m \in Message /\ n \in Deliveries
  BY InHand
<1>2. QueueTypeOK
  BY DEF TypeInv, TypeOK
<1>3. CASE n < MaxDeliveries
  <2>1. n + 1 \in Deliveries
    BY <1>1, <1>3
  <2>2. ready[m] \in [Deliveries -> 0..MaxCopies]
    BY <1>1, <1>2 DEF QueueTypeOK
  <2>3. OneMore(ready[m][n + 1]) \in 0..MaxCopies /\ OneMore(ready[m][n + 1]) > 0
    BY <2>1, <2>2, OneMoreRange
  <2>4. [ready[m] EXCEPT ![n + 1] = OneMore(ready[m][n + 1])] \in [Deliveries -> 0..MaxCopies]
    BY <2>2, <2>3
  <2>5. /\ ready' = [ready EXCEPT ![m] = [ready[m] EXCEPT ![n + 1] = OneMore(ready[m][n + 1])]]
        /\ UNCHANGED parked
    BY <1>3 DEF ReturnCopy
  <2>6. QED
    BY <1>1, <1>2, <2>4, <2>5 DEF QueueTypeOK
<1>4. CASE ~(n < MaxDeliveries)
  BY <1>1, <1>2, <1>4 DEF QueueTypeOK, ReturnCopy
<1>5. QED
  BY <1>3, <1>4

\* A consumer that lets go of its copy has nothing in hand.
LEMMA ReleaseType ==
  ASSUME TypeInv, NEW w \in Worker, Release(w)
  PROVE  HandTypeOK' /\ JobsInHand'
BY DEF TypeInv, TypeOK, HandTypeOK, JobsInHand, Release

\* A consumer that moves on to another step keeps its copy.
LEMMA GoToType ==
  ASSUME TypeInv, NEW w \in Worker, step[w] # "idle",
         NEW s \in ConsumerStep \ {"idle"}, GoTo(w, s)
  PROVE  HandTypeOK' /\ JobsInHand'
BY DEF TypeInv, TypeOK, HandTypeOK, JobsInHand, GoTo

\* So does one whose call threw.
LEMMA CatchType ==
  ASSUME TypeInv, NEW w \in Worker, step[w] # "idle",
         NEW retry \in BOOLEAN, Catch(w, retry)
  PROVE  HandTypeOK' /\ JobsInHand'
BY DEF TypeInv, TypeOK, HandTypeOK, JobsInHand, Catch

\* The statements that update a message row keep its type.
LEMMA RowType ==
  ASSUME TypeOK, NEW m \in Message, NEW retry \in BOOLEAN,
         \/ ClaimRow(m)
         \/ (AcceptRow(m) \/ FailRow(m, retry)) /\ UNCHANGED past
         \/ UNCHANGED row /\ UNCHANGED past
  PROVE  RowTypeOK'
BY DEF TypeOK, RowTypeOK, ClaimRow, AcceptRow, FailRow, Abandoned

\* So does what a call of the provider records.
LEMMA ProviderType ==
  ASSUME TypeInv, NEW w \in Worker, step[w] # "idle", UNCHANGED row,
         NEW accepts \in BOOLEAN, NEW answer \in {"resolved", "threw"},
         Provider(w, accepts, answer)
  PROVE  RowTypeOK'
<1>1. job[w] \in Message
  BY InHand
<1>2. /\ sends' \in [Message -> 0..2]
      /\ answers' \in [Message -> SUBSET {"resolved", "threw"}]
  BY <1>1 DEF TypeInv, TypeOK, RowTypeOK, Provider
<1>3. QED
  BY <1>2 DEF TypeInv, TypeOK, RowTypeOK, Provider

\* Every step a consumer takes on the copy it holds keeps the types.
LEMMA ProceedType ==
  ASSUME TypeInv, NEW w \in Worker, Proceed(w)
  PROVE  TypeInv'
<1>1. CASE Claim(w) \/ ClaimMisses(w) \/ ClaimThrows(w) \/ ReadThrows(w)
  <2>1. step[w] # "idle" /\ UNCHANGED queue
    BY <1>1 DEF Claim, ClaimMisses, ClaimThrows, ReadThrows
  <2>2. GoTo(w, "sending") \/ GoTo(w, "reading") \/ Catch(w, FALSE)
    BY <1>1 DEF Claim, ClaimMisses, ClaimThrows, ReadThrows
  <2>3. ClaimRow(job[w]) \/ (UNCHANGED row /\ UNCHANGED past)
    BY <1>1 DEF Claim, ClaimMisses, ClaimThrows, ReadThrows
  <2>4. RowTypeOK'
    BY <2>1, <2>3, InHand, RowType DEF TypeInv
  <2>5. HandTypeOK' /\ JobsInHand'
    BY <2>1, <2>2, GoToType, CatchType
  <2>6. QED
    BY <2>1, <2>4, <2>5 DEF TypeInv, TypeOK, QueueTypeOK
<1>2. CASE \/ AlreadyProcessed(w) \/ Busy(w)
           \/ MarkSent(w) \/ MarkFailed(w) \/ MarkFailedThrows(w)
  <2>1. step[w] # "idle" /\ Release(w) /\ (ReturnCopy(w) \/ UNCHANGED queue)
    BY <1>2 DEF AlreadyProcessed, Busy, MarkSent, MarkFailed, MarkFailedThrows, Ack, Retry
  <2>2. /\ UNCHANGED past
        /\ AcceptRow(job[w]) \/ FailRow(job[w], willRetry[w]) \/ UNCHANGED row
    BY <1>2 DEF AlreadyProcessed, Busy, MarkSent, MarkFailed, MarkFailedThrows
  <2>3. RowTypeOK'
    BY <2>1, <2>2, InHand, RowType DEF TypeInv
  <2>4. QueueTypeOK'
    BY <2>1, ReturnType DEF TypeInv, TypeOK, QueueTypeOK
  <2>5. QED
    BY <2>1, <2>3, <2>4, ReleaseType DEF TypeInv, TypeOK
<1>3. CASE Send(w) \/ SendUnconfirmed(w) \/ \E retry \in BOOLEAN : SendRefused(w, retry)
  <2>1. step[w] # "idle" /\ UNCHANGED queue /\ UNCHANGED row
    BY <1>3 DEF Send, SendUnconfirmed, SendRefused
  <2>2. PICK retry \in BOOLEAN : GoTo(w, "marking") \/ Catch(w, retry)
    BY <1>3 DEF Send, SendUnconfirmed, SendRefused
  <2>3. \/ Provider(w, TRUE, "resolved") \/ Provider(w, TRUE, "threw")
        \/ Provider(w, FALSE, "threw")
    BY <1>3 DEF Send, SendUnconfirmed, SendRefused
  <2>4. RowTypeOK'
    BY <2>1, <2>3, ProviderType
  <2>5. HandTypeOK' /\ JobsInHand'
    BY <2>1, <2>2, GoToType, CatchType
  <2>6. QED
    BY <2>1, <2>4, <2>5 DEF TypeInv, TypeOK, QueueTypeOK
<1>4. CASE MarkSentThrows(w)
  <2>1. step[w] # "idle" /\ UNCHANGED queue /\ Catch(w, FALSE)
    BY <1>4 DEF MarkSentThrows
  <2>2. UNCHANGED past /\ (AcceptRow(job[w]) \/ UNCHANGED row)
    BY <1>4 DEF MarkSentThrows
  <2>3. RowTypeOK'
    BY <2>1, <2>2, InHand, RowType DEF TypeInv
  <2>4. QED
    BY <2>1, <2>3, CatchType DEF TypeInv, TypeOK, QueueTypeOK
<1>5. QED
  BY <1>1, <1>2, <1>3, <1>4 DEF Proceed

\* Every step of the system keeps every variable in its type.
LEMMA StepType == TypeInv /\ [Next]_vars => TypeInv'
<1> SUFFICES ASSUME TypeInv, [Next]_vars
             PROVE  TypeInv'
  OBVIOUS
<1> USE DEF TypeInv, TypeOK, RowTypeOK, QueueTypeOK, HandTypeOK, JobsInHand
<1>1. ASSUME NEW m \in Message, InsertMessage(m)
      PROVE  TypeInv'
  BY <1>1 DEF InsertMessage
<1>2. ASSUME NEW S \in SUBSET Message, Enqueue(S)
      PROVE  TypeInv'
  BY <1>2 DEF Enqueue, OneMore
<1>3. ASSUME NEW m \in Message, LeaseExpires(m)
      PROVE  TypeInv'
  BY <1>3 DEF LeaseExpires
<1>4. ASSUME NEW m \in Message, NEW n \in Deliveries, RejectMalformed(m, n)
      PROVE  TypeInv'
  BY <1>4 DEF RejectMalformed, TakeCopy
<1>5. ASSUME NEW w \in Worker, NEW m \in Message, NEW n \in Deliveries, Receive(w, m, n)
      PROVE  TypeInv'
  BY <1>5 DEF Receive, TakeCopy
<1>6. ASSUME NEW w \in Worker, Proceed(w)
      PROVE  TypeInv'
  BY <1>6, ProceedType
<1>7. ASSUME NEW w \in Worker, Crash(w)
      PROVE  TypeInv'
  BY <1>7, ReleaseType, ReturnType DEF Crash, Retry
<1>8. CASE UNCHANGED vars
  BY <1>8 DEF vars
<1>9. QED
  BY <1>1, <1>2, <1>3, <1>4, <1>5, <1>6, <1>7, <1>8 DEF Next, Consume

\* Every variable always has its type, and no consumer acts without a copy.
LEMMA TypeInvariant == Spec => []TypeInv
<1>1. Init => TypeInv
  BY DEF Init, TypeInv, TypeOK, RowTypeOK, QueueTypeOK, HandTypeOK, JobsInHand
<1>2. QED
  BY <1>1, StepType, PTL DEF Spec

\* Rows, queue and consumers have their types throughout.
THEOREM TypeCorrect == Spec => []TypeOK
BY TypeInvariant, PTL DEF TypeInv
-----------------------------------------------------------------------------
(* The provider accepts a message once.  The property is not inductive: it *)
(* says nothing of the consumers that are about to send.  SingleSender     *)
(* counts them: until a claim is stolen there is one at most, it has sent  *)
(* nothing yet, and no other can claim the row.                            *)
-----------------------------------------------------------------------------

\* What SingleSenderOf says of m is read off these four fields.
SameAt(m) ==
  /\ status'[m] = status[m] /\ retryable'[m] = retryable[m]
  /\ sends'[m] = sends[m] /\ stolen'[m] = stolen[m]

\* A step that leaves m alone and makes no consumer a possible sender of m.
LEMMA Undisturbed ==
  ASSUME NEW m \in Message, SingleSenderOf(m), SameAt(m),
         \A v \in Worker : MaySend(v, m)' => MaySend(v, m)
  PROVE  SingleSenderOf(m)'
BY DEF SingleSenderOf, SameAt, Unclaimed, Terminal

\* A step that one consumer takes on its own copy concerns no other message.
LEMMA OtherMessage ==
  ASSUME TypeInv, NEW w \in Worker, Proceed(w), NEW m \in Message, job[w] # m
  PROVE  /\ SameAt(m)
         /\ \A v \in Worker : MaySend(v, m)' => MaySend(v, m)
<1> USE DEF TypeInv, TypeOK, RowTypeOK, HandTypeOK
<1>1. step[w] # "idle" /\ job[w] \in Message
  <2>1. step[w] # "idle"
    BY DEF Proceed, Claim, ClaimMisses, ClaimThrows, AlreadyProcessed, Busy, ReadThrows,
           Send, SendUnconfirmed, SendRefused, MarkSent, MarkSentThrows, MarkFailed,
           MarkFailedThrows
  <2>2. QED
    BY <2>1, InHand
<1>2. SameAt(m)
  BY <1>1 DEF SameAt, Proceed, Claim, ClaimMisses, ClaimThrows, AlreadyProcessed, Busy,
       ReadThrows, Send, SendUnconfirmed, SendRefused, MarkSent, MarkSentThrows, MarkFailed,
       MarkFailedThrows, ClaimRow, AcceptRow, FailRow, Provider, Abandoned
<1>3. /\ job'[w] \in {job[w], None}
      /\ \A v \in Worker \ {w} : /\ job'[v] = job[v] /\ step'[v] = step[v]
                                 /\ willRetry'[v] = willRetry[v]
  BY <1>1 DEF Proceed, Claim, ClaimMisses, ClaimThrows, AlreadyProcessed, Busy, ReadThrows,
       Send, SendUnconfirmed, SendRefused, MarkSent, MarkSentThrows, MarkFailed,
       MarkFailedThrows, GoTo, Catch, Ack, Retry, Release
<1>4. \A v \in Worker : MaySend(v, m)' => MaySend(v, m)
  BY <1>3 DEF MaySend
<1>5. QED
  BY <1>2, <1>4

\* A consumer's own step, on its own message.
LEMMA OwnMessage ==
  ASSUME TypeInv, NEW w \in Worker, Proceed(w), NEW m \in Message, job[w] = m,
         SingleSenderOf(m)
  PROVE  SingleSenderOf(m)'
<1> USE DEF TypeInv, TypeOK, RowTypeOK, HandTypeOK
<1>1. CASE Claim(w) \/ (ClaimThrows(w) /\ ClaimRow(m))
  <2>1. ClaimRow(m) /\ (GoTo(w, "sending") \/ Catch(w, FALSE)) /\ step[w] = "claiming"
    BY <1>1 DEF Claim, ClaimThrows
  <2>2. CASE Abandoned(m)
    BY <2>1, <2>2 DEF ClaimRow, SingleSenderOf
  <2>3. CASE Unclaimed(m) /\ ~Abandoned(m) /\ ~stolen[m]
    <3>1. sends[m] = 0 /\ \A v \in Worker : ~MaySend(v, m)
      BY <2>3 DEF SingleSenderOf, Unclaimed, Terminal
    <3>2. status'[m] = "processing" /\ sends'[m] = 0
      BY <2>1, <3>1 DEF ClaimRow
    <3>3. \A v \in Worker : MaySend(v, m)' => v = w
      BY <2>1, <3>1 DEF MaySend, GoTo, Catch
    <3>4. QED
      BY <3>2, <3>3 DEF SingleSenderOf, Unclaimed
  <2>4. CASE stolen[m]
    BY <2>1, <2>4 DEF ClaimRow, SingleSenderOf
  <2>5. QED
    BY <2>1, <2>2, <2>3, <2>4 DEF ClaimRow
<1>2. CASE \/ ClaimMisses(w) \/ (ClaimThrows(w) /\ UNCHANGED <<row, past>>)
           \/ AlreadyProcessed(w) \/ Busy(w) \/ ReadThrows(w)
  <2>1. SameAt(m)
    BY <1>2 DEF SameAt, ClaimMisses, AlreadyProcessed, Busy, ReadThrows
  <2>2. \A v \in Worker : MaySend(v, m)' => MaySend(v, m)
    BY <1>2 DEF MaySend, ClaimMisses, ClaimThrows, AlreadyProcessed, Busy, ReadThrows,
         GoTo, Catch, Ack, Retry, Release
  <2>3. QED
    BY <2>1, <2>2, Undisturbed
<1>3. CASE Send(w) \/ SendUnconfirmed(w)
  <2>1. step[w] = "sending" /\ (GoTo(w, "marking") \/ Catch(w, FALSE)) /\ UNCHANGED row
    BY <1>3 DEF Send, SendUnconfirmed
  <2>2. MaySend(w, m)
    BY <2>1 DEF MaySend
  <2>3. sends' = [sends EXCEPT ![m] = IF @ < 2 THEN @ + 1 ELSE @] /\ UNCHANGED stolen
    BY <1>3 DEF Send, SendUnconfirmed, Provider
  <2>4. \A v \in Worker : MaySend(v, m)' => v # w /\ MaySend(v, m)
    BY <2>1 DEF MaySend, GoTo, Catch
  <2>5. QED
    BY <2>1, <2>2, <2>3, <2>4 DEF SingleSenderOf, Unclaimed, Terminal
<1>4. CASE \E retry \in BOOLEAN : SendRefused(w, retry)
  <2>1. PICK retry \in BOOLEAN : SendRefused(w, retry)
    BY <1>4
  <2>2. SameAt(m)
    BY <2>1 DEF SameAt, SendRefused, Provider
  <2>3. \A v \in Worker : MaySend(v, m)' => MaySend(v, m)
    BY <2>1 DEF MaySend, SendRefused, Catch
  <2>4. QED
    BY <2>2, <2>3, Undisturbed
<1>5. CASE MarkSent(w) \/ MarkSentThrows(w)
  <2>1. (AcceptRow(m) \/ UNCHANGED row) /\ UNCHANGED past /\ (Release(w) \/ Catch(w, FALSE))
    BY <1>5 DEF MarkSent, MarkSentThrows, Ack
  <2>2. \A v \in Worker : MaySend(v, m)' => MaySend(v, m)
    BY <2>1 DEF MaySend, Release, Catch
  <2>3. QED
    BY <2>1, <2>2 DEF SingleSenderOf, AcceptRow, Unclaimed, Terminal
<1>6. CASE MarkFailed(w) \/ MarkFailedThrows(w)
  <2>1. /\ step[w] = "failing" /\ Release(w) /\ UNCHANGED past
        /\ FailRow(m, willRetry[w]) \/ UNCHANGED row
    BY <1>6 DEF MarkFailed, MarkFailedThrows, Ack, Retry
  <2>2. \A v \in Worker : MaySend(v, m)' => v # w /\ MaySend(v, m)
    BY <2>1 DEF MaySend, Release
  <2>3. CASE UNCHANGED row
    BY <2>1, <2>2, <2>3, Undisturbed DEF SameAt
  <2>4. CASE FailRow(m, willRetry[w]) /\ willRetry[w]
    <3>1. MaySend(w, m)
      BY <2>1, <2>4 DEF MaySend
    <3>2. QED
      BY <2>1, <2>2, <2>4, <3>1 DEF SingleSenderOf, FailRow, Unclaimed, Terminal
  <2>5. CASE FailRow(m, willRetry[w]) /\ ~willRetry[w]
    BY <2>1, <2>2, <2>5 DEF SingleSenderOf, FailRow, Unclaimed, Terminal
  <2>6. QED
    BY <2>1, <2>3, <2>4, <2>5
<1>7. QED
  BY <1>1, <1>2, <1>3, <1>4, <1>5, <1>6 DEF Proceed, ClaimThrows

\* Every step keeps SingleSender.
LEMMA StepSingleSender == TypeInv /\ SingleSender /\ [Next]_vars => SingleSender'
<1> SUFFICES ASSUME TypeInv, SingleSender, [Next]_vars, NEW m \in Message
             PROVE  SingleSenderOf(m)'
  BY DEF SingleSender
<1>0. SingleSenderOf(m)
  BY DEF SingleSender
<1> USE DEF TypeInv, TypeOK, RowTypeOK, HandTypeOK
<1>1. ASSUME NEW a \in Message, InsertMessage(a)
      PROVE  SingleSenderOf(m)'
  BY <1>0, <1>1 DEF InsertMessage, SingleSenderOf, MaySend, Unclaimed, Terminal
<1>2. ASSUME \/ \E S \in SUBSET Message : Enqueue(S)
             \/ \E a \in Message : LeaseExpires(a)
             \/ \E a \in Message, n \in Deliveries : RejectMalformed(a, n)
      PROVE  SingleSenderOf(m)'
  <2>1. SameAt(m) /\ UNCHANGED held
    BY <1>2 DEF SameAt, Enqueue, LeaseExpires, RejectMalformed
  <2>2. QED
    BY <1>0, <2>1, Undisturbed DEF MaySend
<1>3. ASSUME NEW w \in Worker, NEW a \in Message, NEW n \in Deliveries, Receive(w, a, n)
      PROVE  SingleSenderOf(m)'
  <2>1. SameAt(m)
    BY <1>3 DEF SameAt, Receive
  <2>2. \A v \in Worker : MaySend(v, m)' => MaySend(v, m)
    BY <1>3 DEF MaySend, Receive
  <2>3. QED
    BY <1>0, <2>1, <2>2, Undisturbed
<1>4. ASSUME NEW w \in Worker, Proceed(w)
      PROVE  SingleSenderOf(m)'
  <2>1. CASE job[w] = m
    BY <1>0, <1>4, <2>1, OwnMessage
  <2>2. CASE job[w] # m
    BY <1>0, <1>4, <2>2, OtherMessage, Undisturbed
  <2>3. QED
    BY <2>1, <2>2
<1>5. ASSUME NEW w \in Worker, Crash(w)
      PROVE  SingleSenderOf(m)'
  <2>1. SameAt(m)
    BY <1>5 DEF SameAt, Crash
  <2>2. \A v \in Worker : MaySend(v, m)' => MaySend(v, m)
    BY <1>5 DEF MaySend, Crash, Retry, Release
  <2>3. QED
    BY <1>0, <2>1, <2>2, Undisturbed
<1>6. CASE UNCHANGED vars
  BY <1>0, <1>6, Undisturbed DEF vars, SameAt, MaySend
<1>7. QED
  BY <1>1, <1>2, <1>3, <1>4, <1>5, <1>6 DEF Next, Consume

\* Whatever the number of copies, consumers and failing calls, the provider
\* accepts a message at most once unless a claim of its row was stolen.
THEOREM SentOnce == Spec => []SentOnceUnlessStolen
<1>1. Init => SingleSender
  BY DEF Init, SingleSender, SingleSenderOf, MaySend
<1>2. TypeInv /\ SingleSender => SentOnceUnlessStolen
  BY DEF SingleSender, SingleSenderOf, SentOnceUnlessStolen, TypeInv, TypeOK, RowTypeOK
<1>3. QED
  BY <1>1, <1>2, TypeInvariant, StepSingleSender, PTL DEF Spec

-----------------------------------------------------------------------------
(* Final outcomes.  Every update of a message row tests the status it      *)
(* overwrites, so none matches a final row.                                *)
-----------------------------------------------------------------------------

\* No step changes what a final row says.
LEMMA StepTerminal ==
  ASSUME TypeInv, [Next]_vars, NEW m \in Message, Terminal(m)
  PROVE  status'[m] = status[m] /\ retryable'[m] = retryable[m]
<1> USE DEF TypeInv, TypeOK, RowTypeOK, Terminal
<1>1. ASSUME NEW a \in Message, InsertMessage(a) \/ LeaseExpires(a)
      PROVE  status'[m] = status[m] /\ retryable'[m] = retryable[m]
  BY <1>1 DEF InsertMessage, LeaseExpires
<1>2. ASSUME NEW S \in SUBSET Message, Enqueue(S)
      PROVE  UNCHANGED row
  BY <1>2 DEF Enqueue
<1>3. ASSUME NEW a \in Message, NEW n \in Deliveries,
             RejectMalformed(a, n) \/ \E w \in Worker : Receive(w, a, n)
      PROVE  UNCHANGED row
  BY <1>3 DEF RejectMalformed, Receive
<1>4. ASSUME NEW w \in Worker, Proceed(w)
      PROVE  status'[m] = status[m] /\ retryable'[m] = retryable[m]
  <2>1. \/ ClaimRow(job[w]) \/ AcceptRow(job[w]) \/ FailRow(job[w], willRetry[w])
        \/ UNCHANGED row
    BY <1>4 DEF Proceed, Claim, ClaimMisses, ClaimThrows, AlreadyProcessed, Busy, ReadThrows,
         Send, SendUnconfirmed, SendRefused, MarkSent, MarkSentThrows, MarkFailed,
         MarkFailedThrows
  <2>2. QED
    BY <2>1 DEF ClaimRow, AcceptRow, FailRow, Unclaimed, Abandoned
<1>5. ASSUME NEW w \in Worker, Crash(w)
      PROVE  UNCHANGED row
  BY <1>5 DEF Crash
<1>6. CASE UNCHANGED vars
  BY <1>6 DEF vars
<1>7. QED
  BY <1>1, <1>2, <1>3, <1>4, <1>5, <1>6 DEF Next, Consume

\* An accepted or terminally failed row is never reopened or overwritten.
THEOREM FinalOutcomes == Spec => TerminalIsFinal
<1>1. TypeInv /\ [Next]_vars =>
        [\A m \in Message : Terminal(m) => status'[m] = status[m] /\ retryable'[m] = retryable[m]]_vars
  BY StepTerminal
<1>2. QED
  BY <1>1, TypeInvariant, PTL DEF Spec, TerminalIsFinal

-----------------------------------------------------------------------------
(* No acknowledgement loses an email.  A copy that leaves the queue is in  *)
(* a consumer's hands; the consumer returns it, or acknowledges it with    *)
(* the row final, and a final row stays final.                             *)
-----------------------------------------------------------------------------

\* A copy returned to the queue waits there or is parked.
LEMMA ReturnPursues ==
  ASSUME TypeInv, NEW w \in Worker, step[w] # "idle", ReturnCopy(w), NEW a \in Message,
         job[w] = a \/ InQueue(a) \/ parked[a]
  PROVE  InQueue(a)' \/ parked'[a]
<1> DEFINE m == job[w]  n == delivery[w]
<1>1. m \in Message /\ n \in Deliveries
  BY InHand
<1>2. QueueTypeOK
  BY DEF TypeInv, TypeOK
<1>3. CASE n < MaxDeliveries
  <2>1. n + 1 \in Deliveries
    BY <1>1, <1>3
  <2>2. ready[m] \in [Deliveries -> 0..MaxCopies]
    BY <1>1, <1>2 DEF QueueTypeOK
  <2>3. OneMore(ready[m][n + 1]) \in 0..MaxCopies /\ OneMore(ready[m][n + 1]) > 0
    BY <2>1, <2>2, OneMoreRange
  <2>4. /\ ready' = [ready EXCEPT ![m] = [ready[m] EXCEPT ![n + 1] = OneMore(ready[m][n + 1])]]
        /\ UNCHANGED parked
    BY <1>3 DEF ReturnCopy
  <2>5. CASE a = m
    <3>1. ready'[m] = [ready[m] EXCEPT ![n + 1] = OneMore(ready[m][n + 1])]
      BY <1>1, <1>2, <2>4 DEF QueueTypeOK
    <3>2. ready'[a][n + 1] > 0
      BY <2>1, <2>2, <2>3, <2>5, <3>1
    <3>3. QED
      BY <2>1, <3>2 DEF InQueue
  <2>6. CASE a # m
    BY <1>2, <2>4, <2>6 DEF QueueTypeOK, InQueue
  <2>7. QED
    BY <2>5, <2>6
<1>4. CASE ~(n < MaxDeliveries)
  BY <1>1, <1>2, <1>4 DEF QueueTypeOK, ReturnCopy, InQueue
<1>5. QED
  BY <1>3, <1>4

\* A consumer's step keeps every email final or pursued.
LEMMA ProceedPursues ==
  ASSUME TypeInv, [Next]_vars, NEW w \in Worker, Proceed(w), NEW m \in Message,
         Terminal(m) \/ Pursued(m)
  PROVE  Terminal(m)' \/ Pursued(m)'
<1>1. CASE Terminal(m)
  BY <1>1, StepTerminal DEF Terminal
<1>2. CASE InQueue(m) \/ parked[m]
  <2>1. UNCHANGED queue \/ (step[w] # "idle" /\ ReturnCopy(w))
    BY DEF Proceed, Claim, ClaimMisses, ClaimThrows, AlreadyProcessed, Busy, ReadThrows,
         Send, SendUnconfirmed, SendRefused, MarkSent, MarkSentThrows, MarkFailed,
         MarkFailedThrows, Ack, Retry
  <2>2. CASE UNCHANGED queue
    BY <1>2, <2>2 DEF Pursued, InQueue
  <2>3. CASE step[w] # "idle" /\ ReturnCopy(w)
    BY <1>2, <2>3, ReturnPursues DEF Pursued
  <2>4. QED
    BY <2>1, <2>2, <2>3
<1>3. CASE \E v \in Worker : v # w /\ job[v] = m
  <2>1. PICK v \in Worker : v # w /\ job[v] = m
    BY <1>3
  <2>2. job'[v] = m
    BY <2>1 DEF TypeInv, TypeOK, HandTypeOK, Proceed, Claim, ClaimMisses, ClaimThrows,
       AlreadyProcessed, Busy, ReadThrows, Send, SendUnconfirmed, SendRefused, MarkSent,
       MarkSentThrows, MarkFailed, MarkFailedThrows, GoTo, Catch, Ack, Retry, Release
  <2>3. QED
    BY <2>2 DEF Pursued, InFlight
<1>4. CASE job[w] = m /\ ~Terminal(m)
  <2>1. \/ UNCHANGED job
        \/ step[w] # "idle" /\ ReturnCopy(w)
        \/ AcceptRow(m)
        \/ FailRow(m, FALSE)
    BY <1>4 DEF Proceed, Claim, ClaimMisses, ClaimThrows, AlreadyProcessed, Busy, ReadThrows,
       Send, SendUnconfirmed, SendRefused, MarkSent, MarkSentThrows, MarkFailed,
       MarkFailedThrows, GoTo, Catch, Ack, Retry, TypeInv, TypeOK, HandTypeOK
  <2>2. CASE UNCHANGED job
    BY <1>4, <2>2 DEF Pursued, InFlight
  <2>3. CASE step[w] # "idle" /\ ReturnCopy(w)
    BY <1>4, <2>3, ReturnPursues DEF Pursued
  <2>4. CASE AcceptRow(m) \/ FailRow(m, FALSE)
    BY <2>4 DEF AcceptRow, FailRow, Terminal, TypeInv, TypeOK, RowTypeOK
  <2>5. QED
    BY <2>1, <2>2, <2>3, <2>4
<1>5. QED
  BY <1>1, <1>2, <1>3, <1>4 DEF Pursued, InFlight

\* Every step keeps NeverStranded.
LEMMA StepStranded == TypeInv /\ NeverStranded /\ [Next]_vars => NeverStranded'
<1> SUFFICES ASSUME TypeInv, NeverStranded, [Next]_vars,
                    NEW m \in Message \ Malformed, enqueued'[m]
             PROVE  Terminal(m)' \/ Pursued(m)'
  BY DEF NeverStranded
<1>1. CASE Terminal(m)
  BY <1>1, StepTerminal DEF Terminal
<1>2. ASSUME NEW a \in Message, InsertMessage(a) \/ LeaseExpires(a), ~Terminal(m)
      PROVE  Pursued(m)'
  BY <1>2 DEF InsertMessage, LeaseExpires, NeverStranded, Pursued, InQueue, InFlight
<1>3. ASSUME NEW S \in SUBSET Message, Enqueue(S), ~Terminal(m)
      PROVE  Pursued(m)'
  <2>1. CASE m \in S
    <3>1. ready'[m] = [ready[m] EXCEPT ![1] = OneMore(ready[m][1])]
      BY <1>3, <2>1 DEF Enqueue
    <3>2. ready[m] \in [Deliveries -> 0..MaxCopies] /\ 1 \in Deliveries
      BY DEF TypeInv, TypeOK, QueueTypeOK
    <3>3. ready'[m][1] > 0
      BY <3>1, <3>2, OneMoreRange
    <3>4. QED
      BY <3>2, <3>3 DEF Pursued, InQueue
  <2>2. CASE m \notin S
    BY <1>3, <2>2 DEF Enqueue, NeverStranded, Pursued, InQueue, InFlight,
       TypeInv, TypeOK, RowTypeOK
  <2>3. QED
    BY <2>1, <2>2
<1>4. ASSUME NEW a \in Message, NEW n \in Deliveries, RejectMalformed(a, n), ~Terminal(m)
      PROVE  Pursued(m)'
  BY <1>4 DEF RejectMalformed, TakeCopy, NeverStranded, Pursued, InQueue, InFlight,
     TypeInv, TypeOK, QueueTypeOK
<1>5. ASSUME NEW w \in Worker, NEW a \in Message, NEW n \in Deliveries, Receive(w, a, n),
             ~Terminal(m)
      PROVE  Pursued(m)'
  <2>1. Pursued(m)
    BY <1>5 DEF Receive, NeverStranded
  <2>2. CASE a = m
    <3>1. job'[w] = m
      BY <1>5, <2>2 DEF Receive, TypeInv, TypeOK, HandTypeOK
    <3>2. QED
      BY <3>1 DEF Pursued, InFlight
  <2>3. CASE a # m
    <3>1. ready'[m] = ready[m] /\ parked'[m] = parked[m]
      BY <1>5, <2>3 DEF Receive, TakeCopy, TypeInv, TypeOK, QueueTypeOK
    <3>2. \A v \in Worker : job[v] = m => job'[v] = m
      BY <1>5 DEF Receive, TypeInv, TypeOK, HandTypeOK, JobsInHand
    <3>3. QED
      BY <2>1, <3>1, <3>2 DEF Pursued, InQueue, InFlight
  <2>4. QED
    BY <2>2, <2>3
<1>6. ASSUME NEW w \in Worker, Proceed(w)
      PROVE  Terminal(m)' \/ Pursued(m)'
  <2>1. UNCHANGED enqueued
    BY <1>6 DEF Proceed, Claim, ClaimMisses, ClaimThrows, ClaimRow, AlreadyProcessed, Busy,
       ReadThrows, Send, SendUnconfirmed, SendRefused, Provider, MarkSent, MarkSentThrows,
       MarkFailed, MarkFailedThrows
  <2>2. QED
    BY <1>6, <2>1, ProceedPursues DEF NeverStranded
<1>7. ASSUME NEW w \in Worker, Crash(w), ~Terminal(m)
      PROVE  Pursued(m)'
  <2>1. step[w] # "idle" /\ Release(w) /\ ReturnCopy(w) /\ Pursued(m)
    BY <1>7 DEF Crash, Retry, NeverStranded
  <2>2. \A v \in Worker : job[v] = m /\ v # w => job'[v] = m
    BY <2>1 DEF Release, TypeInv, TypeOK, HandTypeOK
  <2>3. QED
    BY <2>1, <2>2, ReturnPursues DEF Pursued, InFlight
<1>8. CASE UNCHANGED vars
  BY <1>8 DEF vars, NeverStranded, Terminal, Pursued, InQueue, InFlight
<1>9. QED
  BY <1>1, <1>2, <1>3, <1>4, <1>5, <1>6, <1>7, <1>8 DEF Next, Consume

\* Until its row is final, some copy of every job handed to the queue is still
\* to be delivered or parked for an operator.
THEOREM NothingStranded == Spec => []NeverStranded
<1>1. Init => NeverStranded
  BY DEF Init, NeverStranded
<1>2. QED
  BY <1>1, TypeInvariant, StepStranded, PTL DEF Spec

-----------------------------------------------------------------------------
(* A row says accepted only when the provider accepted: a consumer reaches *)
(* the update with its send behind it, and sends are never undone.         *)
-----------------------------------------------------------------------------

SentBeforeMarking == \A w \in Worker : step[w] = "marking" => sends[job[w]] > 0

\* Every step keeps both, and the number of sends never falls.
LEMMA StepAccepted ==
  TypeInv /\ AcceptedWasSent /\ SentBeforeMarking /\ [Next]_vars
    => AcceptedWasSent' /\ SentBeforeMarking'
<1> SUFFICES ASSUME TypeInv, AcceptedWasSent, SentBeforeMarking, [Next]_vars
             PROVE  AcceptedWasSent' /\ SentBeforeMarking'
  OBVIOUS
<1> USE DEF TypeInv, TypeOK, RowTypeOK, HandTypeOK, AcceptedWasSent, SentBeforeMarking
<1>1. ASSUME NEW a \in Message, InsertMessage(a) \/ LeaseExpires(a)
      PROVE  AcceptedWasSent' /\ SentBeforeMarking'
  BY <1>1 DEF InsertMessage, LeaseExpires
<1>2. ASSUME NEW S \in SUBSET Message, Enqueue(S)
      PROVE  AcceptedWasSent' /\ SentBeforeMarking'
  BY <1>2 DEF Enqueue
<1>3. ASSUME NEW a \in Message, NEW n \in Deliveries, RejectMalformed(a, n)
      PROVE  AcceptedWasSent' /\ SentBeforeMarking'
  BY <1>3 DEF RejectMalformed
<1>4. ASSUME NEW w \in Worker, NEW a \in Message, NEW n \in Deliveries, Receive(w, a, n)
      PROVE  AcceptedWasSent' /\ SentBeforeMarking'
  BY <1>4 DEF Receive
<1>5. ASSUME NEW w \in Worker, Send(w)
      PROVE  AcceptedWasSent' /\ SentBeforeMarking'
  <2>1. job[w] \in Message
    BY <1>5, InHand DEF Send
  <2>2. sends'[job[w]] > 0 /\ \A m \in Message : sends[m] > 0 => sends'[m] > 0
    BY <1>5, <2>1 DEF Send, Provider
  <2>3. UNCHANGED <<status, job>> /\ \A v \in Worker \ {w} : step'[v] = step[v]
    BY <1>5 DEF Send, GoTo
  <2>4. \A v \in Worker : step[v] # "idle" => job[v] \in Message
    BY InHand
  <2>5. QED
    BY <2>2, <2>3, <2>4
<1>6. ASSUME NEW w \in Worker, Proceed(w), ~Send(w)
      PROVE  AcceptedWasSent' /\ SentBeforeMarking'
  <2>1. step[w] # "idle"
    BY <1>6 DEF Proceed, Claim, ClaimMisses, ClaimThrows, AlreadyProcessed, Busy, ReadThrows,
       SendUnconfirmed, SendRefused, MarkSent, MarkSentThrows, MarkFailed, MarkFailedThrows
  <2>2. job[w] \in Message /\ \A v \in Worker : step[v] # "idle" => job[v] \in Message
    BY <2>1, InHand
  <2>3. \A m \in Message : sends[m] > 0 => sends'[m] > 0
    <3>1. UNCHANGED sends \/ Provider(w, TRUE, "threw") \/ Provider(w, FALSE, "threw")
      BY <1>6 DEF Proceed, Claim, ClaimMisses, ClaimThrows, ClaimRow, AlreadyProcessed,
         Busy, ReadThrows, SendUnconfirmed, SendRefused, MarkSent, MarkSentThrows,
         MarkFailed, MarkFailedThrows
    <3>2. CASE Provider(w, TRUE, "threw")
      BY <2>2, <3>2 DEF Provider
    <3>3. CASE Provider(w, FALSE, "threw")
      BY <2>2, <3>3 DEF Provider
    <3>4. QED
      BY <3>1, <3>2, <3>3
  <2>4. /\ step'[w] # "marking"
        /\ \A v \in Worker \ {w} : step'[v] = step[v] /\ job'[v] = job[v]
    BY <1>6 DEF Proceed, Claim, ClaimMisses, ClaimThrows, AlreadyProcessed, Busy, ReadThrows,
       SendUnconfirmed, SendRefused, MarkSent, MarkSentThrows, MarkFailed, MarkFailedThrows,
       GoTo, Catch, Ack, Retry, Release
  <2>5. SentBeforeMarking'
    BY <2>2, <2>3, <2>4
  <2>6. \/ UNCHANGED status
        \/ ClaimRow(job[w]) \/ FailRow(job[w], willRetry[w])
        \/ AcceptRow(job[w]) /\ step[w] = "marking"
    BY <1>6 DEF Proceed, Claim, ClaimMisses, ClaimThrows, AlreadyProcessed, Busy, ReadThrows,
       SendUnconfirmed, SendRefused, MarkSent, MarkSentThrows, MarkFailed, MarkFailedThrows
  <2>7. \A m \in Message :
          status'[m] = "provider_accepted" => sends[m] > 0
    BY <2>2, <2>6 DEF ClaimRow, FailRow, AcceptRow
  <2>8. QED
    BY <2>3, <2>5, <2>7
<1>7. ASSUME NEW w \in Worker, Crash(w)
      PROVE  AcceptedWasSent' /\ SentBeforeMarking'
  BY <1>7 DEF Crash, Retry, Release
<1>8. CASE UNCHANGED vars
  BY <1>8 DEF vars
<1>9. QED
  BY <1>1, <1>2, <1>3, <1>4, <1>5, <1>6, <1>7, <1>8 DEF Next, Consume

\* The database never reports an acceptance the provider did not give.
THEOREM AcceptedTruthfully == Spec => []AcceptedWasSent
<1>1. Init => AcceptedWasSent /\ SentBeforeMarking
  BY DEF Init, AcceptedWasSent, SentBeforeMarking
<1>2. QED
  BY <1>1, TypeInvariant, StepAccepted, PTL DEF Spec

-----------------------------------------------------------------------------
(* What a step does to the facts of a message that a sender was promised:  *)
(* whether its row is there and final, whether an operator has a copy, how *)
(* often the provider took it and whether a claim was stolen.              *)
-----------------------------------------------------------------------------

\* Copies exist of jobs that were handed to the queue, which the row preceded.
OnlyKnown ==
  \A m \in Message :
    /\ Pursued(m) => enqueued[m]
    /\ enqueued[m] => status[m] # "absent"

\* No step makes up a job.
LEMMA StepKnown == TypeInv /\ OnlyKnown /\ [Next]_vars => OnlyKnown'
<1> SUFFICES ASSUME TypeInv, OnlyKnown, [Next]_vars, NEW m \in Message
             PROVE  /\ Pursued(m)' => enqueued'[m]
                    /\ enqueued'[m] => status'[m] # "absent"
  BY DEF OnlyKnown
<1> DEFINE Fine == /\ Pursued(m)' => enqueued'[m]
                   /\ enqueued'[m] => status'[m] # "absent"
<1> USE DEF TypeInv, TypeOK, RowTypeOK
<1>0. (Pursued(m) => enqueued[m]) /\ (enqueued[m] => status[m] # "absent")
  BY DEF OnlyKnown
<1>1. ASSUME NEW a \in Message, InsertMessage(a) \/ LeaseExpires(a)
      PROVE  Fine
  BY <1>0, <1>1 DEF InsertMessage, LeaseExpires, Pursued, InQueue, InFlight
<1>2. ASSUME NEW S \in SUBSET {a \in Message : status[a] # "absent"}, Enqueue(S)
      PROVE  Fine
  <2>1. m \notin S => ready'[m] = ready[m]
    BY <1>2 DEF Enqueue, QueueTypeOK
  <2>2. QED
    BY <1>0, <1>2, <2>1 DEF Enqueue, Pursued, InQueue, InFlight
<1>3. ASSUME NEW a \in Message, NEW n \in Deliveries, TakeCopy(a, n)
      PROVE  InQueue(m)' => InQueue(m)
  <2>1. \A k \in Deliveries : ready'[m][k] > 0 => ready[m][k] > 0
    BY <1>3 DEF TakeCopy, QueueTypeOK
  <2>2. QED
    BY <2>1 DEF InQueue
<1>4. ASSUME NEW a \in Message, NEW n \in Deliveries, RejectMalformed(a, n)
      PROVE  Fine
  BY <1>0, <1>3, <1>4 DEF RejectMalformed, TakeCopy, Pursued, InFlight
<1>5. ASSUME NEW w \in Worker, NEW a \in Message, NEW n \in Deliveries, Receive(w, a, n)
      PROVE  Fine
  <2>1. InFlight(m)' => InFlight(m) \/ m = a
    BY <1>5 DEF Receive, InFlight, HandTypeOK
  <2>2. InQueue(a)
    BY <1>5 DEF Receive, TakeCopy, InQueue
  <2>3. QED
    BY <1>0, <1>3, <1>5, <2>1, <2>2 DEF Receive, TakeCopy, Pursued
<1>6. ASSUME NEW w \in Worker, step[w] # "idle", ReturnCopy(w)
      PROVE  InQueue(m)' \/ parked'[m] => Pursued(m)
  <2>1. job[w] \in Message /\ delivery[w] \in Deliveries
    BY <1>6, InHand
  <2>2. CASE m = job[w]
    BY <2>2, <1>6 DEF Pursued, InFlight
  <2>3. CASE m # job[w]
    BY <1>6, <2>1, <2>3 DEF ReturnCopy, QueueTypeOK, Pursued, InQueue
  <2>4. QED
    BY <2>2, <2>3
<1>7. ASSUME NEW w \in Worker, Proceed(w) \/ Crash(w)
      PROVE  Fine
  <2>1. UNCHANGED enqueued
    BY <1>7 DEF Proceed, Crash, Claim, ClaimMisses, ClaimThrows, ClaimRow, AlreadyProcessed, Busy,
       ReadThrows, Send, SendUnconfirmed, SendRefused, Provider, MarkSent, MarkSentThrows,
       MarkFailed, MarkFailedThrows
  <2>2. UNCHANGED queue \/ (step[w] # "idle" /\ ReturnCopy(w))
    BY <1>7 DEF Proceed, Crash, Claim, ClaimMisses, ClaimThrows, AlreadyProcessed, Busy, ReadThrows,
       Send, SendUnconfirmed, SendRefused, MarkSent, MarkSentThrows, MarkFailed,
       MarkFailedThrows, Ack, Retry
  <2>3. InFlight(m)' => InFlight(m)
    <3>1. \A v \in Worker : job'[v] \in {job[v], None}
      BY <1>7 DEF HandTypeOK, Proceed, Crash, Claim, ClaimMisses, ClaimThrows,
         AlreadyProcessed, Busy, ReadThrows, Send, SendUnconfirmed, SendRefused, MarkSent,
         MarkSentThrows, MarkFailed, MarkFailedThrows, GoTo, Catch, Ack, Retry, Release
    <3>2. QED
      BY <3>1 DEF InFlight
  <2>4. Pursued(m)' => Pursued(m)
    BY <2>2, <2>3, <1>6 DEF Pursued, InQueue
  <2>5. status[m] # "absent" => status'[m] # "absent"
    <3>1. \/ ClaimRow(job[w]) \/ AcceptRow(job[w]) \/ FailRow(job[w], willRetry[w])
          \/ UNCHANGED row
      BY <1>7 DEF Proceed, Crash, Claim, ClaimMisses, ClaimThrows, AlreadyProcessed, Busy, ReadThrows,
           Send, SendUnconfirmed, SendRefused, MarkSent, MarkSentThrows, MarkFailed,
           MarkFailedThrows
    <3>2. QED
      BY <3>1 DEF ClaimRow, AcceptRow, FailRow
  <2>6. QED
    BY <1>0, <2>1, <2>4, <2>5
<1>8. CASE UNCHANGED vars
  BY <1>0, <1>8 DEF vars, Pursued, InQueue, InFlight
<1>9. QED
  BY <1>1, <1>2, <1>4, <1>5, <1>7, <1>8 DEF Next, Consume

SameRow(m) == /\ status'[m] = "absent" <=> status[m] = "absent"
              /\ Terminal(m)' <=> Terminal(m)
SameRows   == \A m \in Message : SameRow(m)

\* Nothing but the place of copies changes; the provider takes m; the claim of m
\* is stolen; the row of m becomes final.
Quiet == /\ SameRows /\ UNCHANGED <<sends, stolen>>
         /\ \A m \in Message : parked'[m] # parked[m] => status[m] # "absent"

Mailed(m) == /\ SameRows /\ UNCHANGED <<parked, stolen>>
             /\ status[m] # "absent" /\ (sends[m] = 0 \/ stolen[m])
             /\ sends' = [sends EXCEPT ![m] = IF @ < 2 THEN @ + 1 ELSE @]

Exposed(m) == /\ SameRows /\ UNCHANGED <<parked, sends>>
              /\ stolen' = [stolen EXCEPT ![m] = TRUE]

Closed(m) == /\ UNCHANGED <<sends, stolen>>
             /\ status[m] # "absent" /\ ~Terminal(m)
             /\ status'[m] # "absent" /\ Terminal(m)'
             /\ \A a \in Message \ {m} : SameRow(a) /\ parked'[a] = parked[a]

\* What a consumer does with its copy shows at its own message only.
LEMMA OwnCopy ==
  ASSUME TypeInv, OnlyKnown, NEW w \in Worker, Proceed(w) \/ Crash(w)
  PROVE  /\ job[w] \in Message /\ status[job[w]] # "absent"
         /\ parked' \in [Message -> BOOLEAN]
         /\ \A a \in Message \ {job[w]} : parked'[a] = parked[a]
<1>1. /\ step[w] # "idle"
      /\ UNCHANGED queue \/ ReturnCopy(w)
  BY DEF Proceed, Crash, Claim, ClaimMisses, ClaimThrows, AlreadyProcessed, Busy, ReadThrows,
     Send, SendUnconfirmed, SendRefused, MarkSent, MarkSentThrows, MarkFailed,
     MarkFailedThrows, Ack, Retry
<1>2. job[w] \in Message
  BY <1>1, InHand
<1>3. status[job[w]] # "absent"
  BY <1>2 DEF OnlyKnown, Pursued, InFlight
<1>4. QED
  BY <1>1, <1>2, <1>3 DEF ReturnCopy, TypeInv, TypeOK, QueueTypeOK

\* The update that claims a row opens no final one.
LEMMA ClaimOutcome ==
  ASSUME TypeInv, NEW m \in Message, ClaimRow(m), UNCHANGED queue
  PROVE  Quiet \/ Exposed(m)
<1> USE DEF TypeInv, TypeOK, RowTypeOK
<1>1. SameRows
  BY DEF ClaimRow, Unclaimed, Abandoned, SameRows, SameRow, Terminal
<1>2. CASE Abandoned(m)
  BY <1>1, <1>2 DEF ClaimRow, Exposed
<1>3. CASE ~Abandoned(m)
  <2>1. stolen' = stolen
    BY <1>3 DEF ClaimRow
  <2>2. QED
    BY <1>1, <2>1 DEF ClaimRow, Quiet
<1>4. QED
  BY <1>2, <1>3

\* So does no update that closes one.
LEMMA CloseOutcome ==
  ASSUME TypeInv, NEW m \in Message, NEW retry \in BOOLEAN,
         AcceptRow(m) \/ FailRow(m, retry) \/ UNCHANGED row,
         UNCHANGED past, status[m] # "absent",
         \A a \in Message \ {m} : parked'[a] = parked[a]
  PROVE  Quiet \/ Closed(m)
BY DEF TypeInv, TypeOK, RowTypeOK, AcceptRow, FailRow, Quiet, Closed, SameRows, SameRow, Terminal

\* A consumer about to send a message is the first to, unless a claim was stolen.
LEMMA SendOutcome ==
  ASSUME TypeInv, SingleSender, NEW w \in Worker, step[w] = "sending",
         status[job[w]] # "absent", UNCHANGED <<row, queue>>,
         NEW accepts \in BOOLEAN, NEW answer \in {"resolved", "threw"},
         Provider(w, accepts, answer)
  PROVE  Quiet \/ Mailed(job[w])
<1> DEFINE m == job[w]
<1>1. m \in Message
  BY InHand
<1>2. SameRows /\ UNCHANGED <<parked, stolen>>
  BY DEF SameRows, SameRow, Terminal, Provider
<1>3. CASE accepts
  <2>1. MaySend(w, m)
    BY DEF MaySend
  <2>2. sends[m] = 0 \/ stolen[m]
    BY <1>1, <2>1 DEF SingleSender, SingleSenderOf
  <2>3. QED
    BY <1>2, <1>3, <2>2 DEF Mailed, Provider
<1>4. CASE ~accepts
  <2>1. sends' = sends
    BY <1>4 DEF Provider, TypeInv, TypeOK, RowTypeOK
  <2>2. QED
    BY <1>2, <2>1 DEF Quiet
<1>5. QED
  BY <1>3, <1>4

\* Every step of the consumers, the queue and time is one of the four.
LEMMA ConsumeOutcome ==
  ASSUME TypeInv, SingleSender, OnlyKnown, Consume
  PROVE  Quiet \/ \E m \in Message : Mailed(m) \/ Exposed(m) \/ Closed(m)
<1>1. ASSUME NEW a \in Message, LeaseExpires(a)
      PROVE  Quiet
  BY <1>1 DEF LeaseExpires, Quiet, SameRows, SameRow, Terminal
<1>2. ASSUME NEW a \in Message, NEW n \in Deliveries,
             RejectMalformed(a, n) \/ \E w \in Worker : Receive(w, a, n)
      PROVE  Quiet
  BY <1>2 DEF RejectMalformed, Receive, TakeCopy, Quiet, SameRows, SameRow, Terminal
<1>3. ASSUME NEW w \in Worker, Proceed(w)
      PROVE  Quiet \/ \E m \in Message : Mailed(m) \/ Exposed(m) \/ Closed(m)
  <2>0. /\ job[w] \in Message /\ status[job[w]] # "absent"
        /\ \A a \in Message \ {job[w]} : parked'[a] = parked[a]
    BY <1>3, OwnCopy
  <2>1. CASE Claim(w) \/ ClaimThrows(w)
    <3>1. UNCHANGED queue /\ (ClaimRow(job[w]) \/ UNCHANGED <<row, past>>)
      BY <2>1 DEF Claim, ClaimThrows
    <3>2. CASE UNCHANGED <<row, past>>
      BY <3>1, <3>2 DEF Quiet, SameRows, SameRow, Terminal
    <3>3. QED
      BY <2>0, <3>1, <3>2, ClaimOutcome
  <2>2. CASE Send(w) \/ SendUnconfirmed(w) \/ \E retry \in BOOLEAN : SendRefused(w, retry)
    <3>1. /\ step[w] = "sending" /\ UNCHANGED <<row, queue>>
          /\ \/ Provider(w, TRUE, "resolved") \/ Provider(w, TRUE, "threw")
             \/ Provider(w, FALSE, "threw")
      BY <2>2 DEF Send, SendUnconfirmed, SendRefused
    <3>2. QED
      BY <2>0, <3>1, SendOutcome
  <2>3. CASE \/ ClaimMisses(w) \/ AlreadyProcessed(w) \/ Busy(w) \/ ReadThrows(w)
             \/ MarkSent(w) \/ MarkSentThrows(w) \/ MarkFailed(w) \/ MarkFailedThrows(w)
    <3>1. /\ UNCHANGED past
          /\ AcceptRow(job[w]) \/ FailRow(job[w], willRetry[w]) \/ UNCHANGED row
          /\ step[w] # "idle"
      BY <2>3 DEF ClaimMisses, AlreadyProcessed, Busy, ReadThrows, MarkSent, MarkSentThrows,
         MarkFailed, MarkFailedThrows
    <3>2. QED
      BY <2>0, <3>1, InHand, CloseOutcome
  <2>4. QED
    BY <1>3, <2>1, <2>2, <2>3 DEF Proceed
<1>4. ASSUME NEW w \in Worker, Crash(w)
      PROVE  Quiet
  <2>1. UNCHANGED <<row, past>>
    BY <1>4 DEF Crash
  <2>2. QED
    BY <1>4, <2>1, OwnCopy DEF Quiet, SameRows, SameRow, Terminal
<1>5. QED
  BY <1>1, <1>2, <1>3, <1>4 DEF Consume

\* Only the outbox hands out jobs.
LEMMA ConsumeKeepsJobs == Consume => UNCHANGED enqueued
BY DEF Consume, LeaseExpires, RejectMalformed, Receive, Proceed, Crash, Claim, ClaimMisses,
   ClaimThrows, ClaimRow, AlreadyProcessed, Busy, ReadThrows, Send, SendUnconfirmed,
   SendRefused, Provider, MarkSent, MarkSentThrows, MarkFailed, MarkFailedThrows

\* Nothing is there at first, so all that is said of it holds.
LEMMA InitInvariant == Init => TypeInv /\ SingleSender /\ NeverStranded /\ OnlyKnown
BY DEF Init, TypeInv, TypeOK, RowTypeOK, QueueTypeOK, HandTypeOK, JobsInHand, SingleSender,
   SingleSenderOf, MaySend, NeverStranded, OnlyKnown, Pursued, InQueue, InFlight
=============================================================================
