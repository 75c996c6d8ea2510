------------------------- MODULE EmailPipelineProofs -------------------------
(***************************************************************************)
(* Proofs about EmailPipeline, for any number of emails, of overlapping    *)
(* publication passes and of consumers: no accepted email is forgotten     *)
(* between outbox and queue, and both together keep EmailPromise.          *)
(*                                                                         *)
(* A step of the pipeline is a step of each half or leaves it alone, so    *)
(* the invariants of the halves hold of it.  What is proved here is how    *)
(* the halves fit: that they have the same rows and the same jobs.         *)
(***************************************************************************)
EXTENDS EmailPipeline, TLAPS

Passes == INSTANCE EmailOutboxProofs WITH
  Message <- Email, Malformed <- Invalid, published <- persisted, stolen <- rowStolen

Consumers == INSTANCE EmailDeliveryProofs WITH
  Message <- Email, Malformed <- Invalid, Worker <- Sender, None <- Nobody,
  MaxDeliveries <- MaxTries, MaxCopies <- MaxSpares,
  status <- mail, retryable <- mailRetryable, expired <- mailExpired, ready <- mailReady,
  parked <- mailParked, step <- mailStep, job <- mailJob, delivery <- mailDelivery,
  willRetry <- mailRetry, enqueued <- mailEnqueued, sends <- mailSends, answers <- mailAnswers,
  stolen <- mailStolen

-----------------------------------------------------------------------------
(* EmailOutboxProofs and EmailDeliveryProofs are about the modules that    *)
(* EmailPipeline composes.                                                 *)
-----------------------------------------------------------------------------

\* The pipeline's constants satisfy what both halves assume.
LEMMA Assumptions == Passes!OutboxAssumption /\ Consumers!DeliveryAssumption
BY PipelineAssumption DEF Outbox!OutboxAssumption, Delivery!DeliveryAssumption,
   Passes!OutboxAssumption, Consumers!DeliveryAssumption

\* The pipeline begins as both halves do.
LEMMA InitOfHalves == PipelineInit => Passes!Init /\ Consumers!Init
BY DEF PipelineInit, Outbox!Init, Delivery!Init, Passes!Init, Consumers!Init,
   Delivery!Deliveries, Consumers!Deliveries

\* The steps of a row of the outbox.
LEMMA SameOutboxRow ==
  ASSUME NEW m \in Email
  PROVE  /\ Outbox!InsertRow(m) => Passes!InsertRow(m)
         /\ Outbox!BecomesDue(m) => Passes!BecomesDue(m)
         /\ Outbox!LeaseExpires(m) => Passes!LeaseExpires(m)
BY DEF Outbox!InsertRow, Passes!InsertRow, Outbox!BecomesDue, Passes!BecomesDue,
   Outbox!LeaseExpires, Passes!LeaseExpires

\* The steps of a publication pass.
LEMMA SamePass ==
  ASSUME NEW p \in Publisher, NEW S \in SUBSET Email
  PROVE  /\ Outbox!Proceed(p) => Passes!Proceed(p)
         /\ Outbox!Abandon(p) => Passes!Abandon(p)
         /\ Outbox!ClaimOutbox(p, S) => Passes!ClaimOutbox(p, S)
         /\ Outbox!ClaimLost(p, S) => Passes!ClaimLost(p, S)
<1>1. Outbox!DeadLetterOutbox(p) => Passes!DeadLetterOutbox(p)
  BY DEF Outbox!DeadLetterOutbox, Passes!DeadLetterOutbox, Outbox!DeadLetterRows,
     Passes!DeadLetterRows, Outbox!Return, Passes!Return, Outbox!GoTo, Passes!GoTo
<1>2. Outbox!SendBatch(p) => Passes!SendBatch(p)
  BY DEF Outbox!SendBatch, Passes!SendBatch, Outbox!GoTo, Passes!GoTo, Outbox!rowVars,
     Passes!rowVars
<1>3. Outbox!SendBatchUnconfirmed(p) => Passes!SendBatchUnconfirmed(p)
  BY DEF Outbox!SendBatchUnconfirmed, Passes!SendBatchUnconfirmed, Outbox!GoTo, Passes!GoTo,
     Outbox!rowVars, Passes!rowVars
<1>4. Outbox!SendBatchFails(p) => Passes!SendBatchFails(p)
  BY DEF Outbox!SendBatchFails, Passes!SendBatchFails, Outbox!GoTo, Passes!GoTo, Outbox!rowVars,
     Passes!rowVars
<1>5. Outbox!CompleteOutbox(p) => Passes!CompleteOutbox(p)
  BY DEF Outbox!CompleteOutbox, Passes!CompleteOutbox, Outbox!CompleteRows, Passes!CompleteRows,
     Outbox!Return, Passes!Return, Outbox!GoTo, Passes!GoTo
<1>6. Outbox!CompleteFails(p) => Passes!CompleteFails(p)
  BY DEF Outbox!CompleteFails, Passes!CompleteFails, Outbox!CompleteRows, Passes!CompleteRows,
     Outbox!GoTo, Passes!GoTo, Outbox!rowVars, Passes!rowVars
<1>7. Outbox!FailOutbox(p) => Passes!FailOutbox(p)
  BY DEF Outbox!FailOutbox, Passes!FailOutbox, Outbox!FailRows, Passes!FailRows, Outbox!Return,
     Passes!Return, Outbox!GoTo, Passes!GoTo
<1>8. Outbox!Abandon(p) => Passes!Abandon(p)
  BY DEF Outbox!Abandon, Passes!Abandon, Outbox!Return, Passes!Return, Outbox!GoTo, Passes!GoTo,
     Outbox!LoseLease, Passes!LoseLease, Outbox!rowVars, Passes!rowVars
<1>9. Outbox!Cardinality(S) = Passes!Cardinality(S)
  BY DEF Outbox!Cardinality, Passes!Cardinality
<1>10. Outbox!Claimable = Passes!Claimable
  BY DEF Outbox!Claimable, Passes!Claimable
<1>11. Outbox!ClaimRows(S) => Passes!ClaimRows(S)
  BY DEF Outbox!ClaimRows, Passes!ClaimRows, Outbox!OneMoreAttempt, Passes!OneMoreAttempt
<1>12. Outbox!ClaimOutbox(p, S) => Passes!ClaimOutbox(p, S)
  BY <1>9, <1>10, <1>11 DEF Outbox!ClaimOutbox, Passes!ClaimOutbox, Outbox!GoTo, Passes!GoTo
<1>13. Outbox!ClaimLost(p, S) => Passes!ClaimLost(p, S)
  BY <1>9, <1>10, <1>11 DEF Outbox!ClaimLost, Passes!ClaimLost, Outbox!LoseLease,
     Passes!LoseLease
<1> QED
  BY <1>1, <1>2, <1>3, <1>4, <1>5, <1>6, <1>7, <1>8, <1>12, <1>13 DEF
     Outbox!Proceed, Passes!Proceed

\* The steps of a consumer.
LEMMA SameConsumer ==
  ASSUME NEW w \in Sender
  PROVE  /\ Delivery!Proceed(w) => Consumers!Proceed(w)
         /\ Delivery!Crash(w) => Consumers!Crash(w)
<1>1. Delivery!Claim(w) => Consumers!Claim(w)
  BY DEF Delivery!Claim, Consumers!Claim, Delivery!ClaimRow, Consumers!ClaimRow,
     Delivery!Unclaimed, Consumers!Unclaimed, Delivery!Abandoned, Consumers!Abandoned,
     Delivery!GoTo, Consumers!GoTo, Delivery!row, Consumers!row, Delivery!queue,
     Consumers!queue, Delivery!held, Consumers!held, Delivery!past, Consumers!past
<1>2. Delivery!ClaimMisses(w) => Consumers!ClaimMisses(w)
  BY DEF Delivery!ClaimMisses, Consumers!ClaimMisses, Delivery!Unclaimed, Consumers!Unclaimed,
     Delivery!Abandoned, Consumers!Abandoned, Delivery!GoTo, Consumers!GoTo, Delivery!row,
     Consumers!row, Delivery!queue, Consumers!queue, Delivery!held, Consumers!held,
     Delivery!past, Consumers!past
<1>3. Delivery!ClaimThrows(w) => Consumers!ClaimThrows(w)
  BY DEF Delivery!ClaimThrows, Consumers!ClaimThrows, Delivery!ClaimRow, Consumers!ClaimRow,
     Delivery!Unclaimed, Consumers!Unclaimed, Delivery!Abandoned, Consumers!Abandoned,
     Delivery!Catch, Consumers!Catch, Delivery!row, Consumers!row, Delivery!queue,
     Consumers!queue, Delivery!held, Consumers!held, Delivery!past, Consumers!past
<1>4. Delivery!AlreadyProcessed(w) => Consumers!AlreadyProcessed(w)
  BY DEF Delivery!AlreadyProcessed, Consumers!AlreadyProcessed, Delivery!Terminal,
     Consumers!Terminal, Delivery!Ack, Consumers!Ack, Delivery!Release, Consumers!Release,
     Delivery!row, Consumers!row, Delivery!queue, Consumers!queue, Delivery!held,
     Consumers!held, Delivery!past, Consumers!past
<1>5. Delivery!Busy(w) => Consumers!Busy(w)
  BY DEF Delivery!Busy, Consumers!Busy, Delivery!Terminal, Consumers!Terminal, Delivery!Retry,
     Consumers!Retry, Delivery!Release, Consumers!Release, Delivery!ReturnCopy,
     Consumers!ReturnCopy, Delivery!OneMore, Consumers!OneMore, Delivery!row, Consumers!row,
     Delivery!queue, Consumers!queue, Delivery!held, Consumers!held, Delivery!past,
     Consumers!past
<1>6. Delivery!ReadThrows(w) => Consumers!ReadThrows(w)
  BY DEF Delivery!ReadThrows, Consumers!ReadThrows, Delivery!Catch, Consumers!Catch,
     Delivery!row, Consumers!row, Delivery!queue, Consumers!queue, Delivery!held,
     Consumers!held, Delivery!past, Consumers!past
<1>7. Delivery!Send(w) => Consumers!Send(w)
  BY DEF Delivery!Send, Consumers!Send, Delivery!Provider, Consumers!Provider, Delivery!GoTo,
     Consumers!GoTo, Delivery!row, Consumers!row, Delivery!queue, Consumers!queue,
     Delivery!held, Consumers!held, Delivery!past, Consumers!past
<1>8. Delivery!SendUnconfirmed(w) => Consumers!SendUnconfirmed(w)
  BY DEF Delivery!SendUnconfirmed, Consumers!SendUnconfirmed, Delivery!Provider,
     Consumers!Provider, Delivery!Catch, Consumers!Catch, Delivery!row, Consumers!row,
     Delivery!queue, Consumers!queue, Delivery!held, Consumers!held, Delivery!past,
     Consumers!past
<1>9. \A retry \in BOOLEAN :
         Delivery!SendRefused(w, retry) => Consumers!SendRefused(w, retry)
  BY DEF Delivery!SendRefused, Consumers!SendRefused, Delivery!Provider, Consumers!Provider,
     Delivery!Catch, Consumers!Catch, Delivery!row, Consumers!row, Delivery!queue,
     Consumers!queue, Delivery!held, Consumers!held, Delivery!past, Consumers!past
<1>10. Delivery!MarkSent(w) => Consumers!MarkSent(w)
  BY DEF Delivery!MarkSent, Consumers!MarkSent, Delivery!AcceptRow, Consumers!AcceptRow,
     Delivery!Ack, Consumers!Ack, Delivery!Release, Consumers!Release, Delivery!row,
     Consumers!row, Delivery!queue, Consumers!queue, Delivery!held, Consumers!held,
     Delivery!past, Consumers!past
<1>11. Delivery!MarkSentThrows(w) => Consumers!MarkSentThrows(w)
  BY DEF Delivery!MarkSentThrows, Consumers!MarkSentThrows, Delivery!AcceptRow,
     Consumers!AcceptRow, Delivery!Catch, Consumers!Catch, Delivery!row, Consumers!row,
     Delivery!queue, Consumers!queue, Delivery!held, Consumers!held, Delivery!past,
     Consumers!past
<1>12. Delivery!MarkFailed(w) => Consumers!MarkFailed(w)
  BY DEF Delivery!MarkFailed, Consumers!MarkFailed, Delivery!FailRow, Consumers!FailRow,
     Delivery!Ack, Consumers!Ack, Delivery!Retry, Consumers!Retry, Delivery!Release,
     Consumers!Release, Delivery!ReturnCopy, Consumers!ReturnCopy, Delivery!OneMore,
     Consumers!OneMore, Delivery!row, Consumers!row, Delivery!queue, Consumers!queue,
     Delivery!held, Consumers!held, Delivery!past, Consumers!past
<1>13. Delivery!MarkFailedThrows(w) => Consumers!MarkFailedThrows(w)
  BY DEF Delivery!MarkFailedThrows, Consumers!MarkFailedThrows, Delivery!FailRow,
     Consumers!FailRow, Delivery!Retry, Consumers!Retry, Delivery!Release, Consumers!Release,
     Delivery!ReturnCopy, Consumers!ReturnCopy, Delivery!OneMore, Consumers!OneMore,
     Delivery!row, Consumers!row, Delivery!queue, Consumers!queue, Delivery!held,
     Consumers!held, Delivery!past, Consumers!past
<1>14. Delivery!Crash(w) => Consumers!Crash(w)
  BY DEF Delivery!Crash, Consumers!Crash, Delivery!Retry, Consumers!Retry, Delivery!Release,
     Consumers!Release, Delivery!ReturnCopy, Consumers!ReturnCopy, Delivery!OneMore,
     Consumers!OneMore, Delivery!row, Consumers!row, Delivery!queue, Consumers!queue,
     Delivery!held, Consumers!held, Delivery!past, Consumers!past
<1> QED
  BY <1>1, <1>2, <1>3, <1>4, <1>5, <1>6, <1>7, <1>8, <1>9, <1>10, <1>11, <1>12, <1>13, <1>14
     DEF Delivery!Proceed, Consumers!Proceed

\* The steps of the queue and of time.
LEMMA SameDelivery ==
  ASSUME NEW S \in SUBSET Email
  PROVE  /\ \A m \in Email : Delivery!InsertMessage(m) => Consumers!InsertMessage(m)
         /\ Delivery!Enqueue(S) => Consumers!Enqueue(S)
         /\ Delivery!Consume => Consumers!Consume
<1>1. \A m \in Email : Delivery!InsertMessage(m) => Consumers!InsertMessage(m)
  BY DEF Delivery!InsertMessage, Consumers!InsertMessage, Delivery!row, Consumers!row,
     Delivery!queue, Consumers!queue, Delivery!held, Consumers!held, Delivery!past,
     Consumers!past
<1>2. Delivery!Enqueue(S) => Consumers!Enqueue(S)
  BY DEF Delivery!Enqueue, Consumers!Enqueue, Delivery!OneMore, Consumers!OneMore, Delivery!row,
     Consumers!row, Delivery!queue, Consumers!queue, Delivery!held, Consumers!held,
     Delivery!past, Consumers!past
<1>3. \A a \in Email : Delivery!LeaseExpires(a) => Consumers!LeaseExpires(a)
  BY DEF Delivery!LeaseExpires, Consumers!LeaseExpires, Delivery!row, Consumers!row,
     Delivery!queue, Consumers!queue, Delivery!held, Consumers!held, Delivery!past,
     Consumers!past
<1>4. \A a \in Email, n \in 1..MaxTries :
         Delivery!RejectMalformed(a, n) => Consumers!RejectMalformed(a, n)
  BY DEF Delivery!RejectMalformed, Consumers!RejectMalformed, Delivery!TakeCopy,
     Consumers!TakeCopy, Delivery!row, Consumers!row, Delivery!queue, Consumers!queue,
     Delivery!held, Consumers!held, Delivery!past, Consumers!past
<1>5. \A w \in Sender, a \in Email, n \in 1..MaxTries :
         Delivery!Receive(w, a, n) => Consumers!Receive(w, a, n)
  BY DEF Delivery!Receive, Consumers!Receive, Delivery!TakeCopy, Consumers!TakeCopy,
     Delivery!row, Consumers!row, Delivery!queue, Consumers!queue, Delivery!held,
     Consumers!held, Delivery!past, Consumers!past
<1> QED
  BY <1>1, <1>2, <1>3, <1>4, <1>5, SameConsumer
     DEF Delivery!Consume, Consumers!Consume, Delivery!Deliveries, Consumers!Deliveries

\* What the properties read off the rows and the queue.
LEMMA SameFacts ==
  ASSUME NEW m \in Email
  PROVE  /\ Delivery!Terminal(m) <=> Consumers!Terminal(m)
         /\ Delivery!Pursued(m) <=> Consumers!Pursued(m)
BY DEF Delivery!Terminal, Consumers!Terminal, Delivery!Pursued, Consumers!Pursued,
   Delivery!InQueue, Consumers!InQueue, Delivery!InFlight, Consumers!InFlight,
   Delivery!Deliveries, Consumers!Deliveries

-----------------------------------------------------------------------------
(* The halves fit.  That each keeps its own invariant does not say that    *)
(* they agree on which emails there are and which jobs were handed over:   *)
(* the transaction and the stored batch are the steps that keep this.      *)
-----------------------------------------------------------------------------

\* Both halves have the same rows and the same jobs, and passes hold existing rows.
Together ==
  \A m \in Email :
    /\ mail[m] = "absent" <=> outbox[m] = "absent"
    /\ mailEnqueued[m] <=> persisted[m]
    /\ \A p \in Publisher : m \in batch[p] => outbox[m] # "absent"

DeliveryInv == Consumers!TypeInv /\ Consumers!SingleSender /\ Consumers!NeverStranded
                 /\ Consumers!OnlyKnown

PipelineInv == Passes!IInv /\ DeliveryInv /\ Together

\* A step of a pass neither makes rows nor hands over jobs, and claims rows there are.
LEMMA PublishStep ==
  ASSUME Passes!TypeOK, Together, Publish
  PROVE  /\ UNCHANGED persisted
         /\ \A m \in Email : outbox'[m] = "absent" <=> outbox[m] = "absent"
         /\ \A m \in Email, p \in Publisher : m \in batch'[p] => outbox[m] # "absent"
<1> USE DEF Passes!TypeOK, Together
<1>1. ASSUME NEW m \in Email, RowTimer(m)
      PROVE  /\ UNCHANGED <<persisted, batch>>
             /\ \A a \in Email : outbox'[a] = "absent" <=> outbox[a] = "absent"
  BY <1>1 DEF RowTimer, Outbox!BecomesDue, Outbox!LeaseExpires
<1>2. ASSUME NEW p \in Publisher, PassStep(p) \/ Outbox!Abandon(p)
      PROVE  /\ UNCHANGED persisted
             /\ \A m \in Email, q \in Publisher : m \in batch'[q] => m \in batch[q]
  BY <1>2 DEF PassStep, Outbox!Abandon, Outbox!DeadLetterOutbox, Outbox!SendBatchFails,
     Outbox!CompleteOutbox, Outbox!CompleteFails, Outbox!FailOutbox, Outbox!Return, Outbox!GoTo
<1>3. ASSUME NEW p \in Publisher, PassStep(p) \/ Outbox!Abandon(p)
      PROVE  \A a \in Email : outbox'[a] = "absent" <=> outbox[a] = "absent"
  BY <1>3 DEF PassStep, Outbox!Abandon, Outbox!DeadLetterOutbox, Outbox!SendBatchFails,
     Outbox!CompleteOutbox, Outbox!CompleteFails, Outbox!FailOutbox, Outbox!DeadLetterRows,
     Outbox!CompleteRows, Outbox!FailRows, Outbox!rowVars
<1>4. ASSUME NEW p \in Publisher, NEW S \in SUBSET Email,
             Outbox!ClaimOutbox(p, S) \/ Outbox!ClaimLost(p, S)
      PROVE  /\ UNCHANGED persisted
             /\ \A a \in Email : outbox'[a] = "absent" <=> outbox[a] = "absent"
             /\ \A m \in Email, q \in Publisher : m \in batch'[q] => outbox[m] # "absent"
  BY <1>4 DEF Outbox!ClaimOutbox, Outbox!ClaimLost, Outbox!ClaimRows, Outbox!Claimable
<1> QED
  BY <1>1, <1>2, <1>3, <1>4 DEF Publish, ClaimBatch, LosePass

\* A step of the pipeline is a step of each half, or leaves it alone.
LEMMA StepHalves ==
  ASSUME Together, Passes!TypeOK, [PipelineNext]_pipelineVars
  PROVE  [Passes!Next]_(Passes!vars) /\ [Consumers!Next]_(Consumers!vars)
<1> USE DEF Passes!Next, Consumers!Next, Passes!Proceed, Passes!vars, Consumers!vars
<1>1. ASSUME NEW m \in Email, Accept(m)
      PROVE  Passes!Next /\ Consumers!Next
  BY <1>1, SameOutboxRow, SameDelivery DEF Accept
<1>2. ASSUME NEW p \in Publisher, Handoff(p)
      PROVE  Passes!Next /\ Consumers!Next
  <2>1. batch[p] \in SUBSET {m \in Email : mail[m] # "absent"}
    BY DEF Passes!TypeOK, Together
  <2>2. Outbox!Proceed(p) /\ Delivery!Enqueue(batch[p])
    BY <1>2 DEF Handoff, Outbox!Proceed
  <2>3. Passes!Proceed(p) /\ Consumers!Enqueue(batch[p])
    BY <2>1, <2>2, SamePass, SameDelivery
  <2>4. QED
    BY <2>1, <2>3
<1>3. CASE Publish
  <2>1. UNCHANGED Consumers!vars
    BY <1>3 DEF Publish, deliveryVars
  <2>2. ASSUME NEW m \in Email, RowTimer(m)
        PROVE  Passes!Next
    BY <2>2, SameOutboxRow DEF RowTimer
  <2>3. ASSUME NEW p \in Publisher, PassStep(p)
        PROVE  Passes!Next
    BY <2>3, SamePass DEF PassStep, Outbox!Proceed
  <2>4. ASSUME NEW p \in Publisher, NEW S \in SUBSET Email, ClaimBatch(p, S) \/ LosePass(p, S)
        PROVE  Passes!Next
    BY <2>4, SamePass DEF ClaimBatch, LosePass
  <2>5. QED
    BY <1>3, <2>1, <2>2, <2>3, <2>4 DEF Publish
<1>4. CASE Deliver
  BY <1>4, SameDelivery DEF Deliver, outboxVars
<1>5. CASE UNCHANGED pipelineVars
  BY <1>5 DEF pipelineVars, outboxVars, deliveryVars
<1>6. QED
  BY <1>1, <1>2, <1>3, <1>4, <1>5 DEF PipelineNext

\* What a consumer does to its row does not make it come or go.
LEMMA DeliverStep ==
  ASSUME DeliveryInv, Deliver
  PROVE  /\ Consumers!Quiet \/ \E m \in Email :
              Consumers!Mailed(m) \/ Consumers!Exposed(m) \/ Consumers!Closed(m)
         /\ UNCHANGED <<outboxVars, mailEnqueued>>
         /\ \A m \in Email : mail'[m] = "absent" <=> mail[m] = "absent"
<1>1. Consumers!Consume /\ UNCHANGED outboxVars
  BY SameDelivery DEF Deliver
<1>2. Consumers!Quiet \/ \E m \in Email :
        Consumers!Mailed(m) \/ Consumers!Exposed(m) \/ Consumers!Closed(m)
  BY <1>1, Consumers!ConsumeOutcome, Assumptions DEF DeliveryInv
<1>3. UNCHANGED mailEnqueued
  BY <1>1, Consumers!ConsumeKeepsJobs, Assumptions
<1>4. \A m \in Email : mail'[m] = "absent" <=> mail[m] = "absent"
  BY <1>2 DEF Consumers!Quiet, Consumers!Mailed, Consumers!Exposed, Consumers!Closed,
     Consumers!SameRows, Consumers!SameRow
<1>5. QED
  BY <1>1, <1>2, <1>3, <1>4

\* No step of either half makes them disagree.
LEMMA StepTogether == PipelineInv /\ [PipelineNext]_pipelineVars => Together'
<1> SUFFICES ASSUME PipelineInv, [PipelineNext]_pipelineVars
             PROVE  Together'
  OBVIOUS
<1> USE DEF PipelineInv, DeliveryInv, Passes!IInv
<1>1. ASSUME NEW m \in Email, Accept(m)
      PROVE  Together'
  BY <1>1 DEF Accept, Outbox!InsertRow, Delivery!InsertMessage, Delivery!past, Together,
     Passes!TypeOK, Consumers!TypeInv, Consumers!TypeOK, Consumers!RowTypeOK
<1>2. ASSUME NEW p \in Publisher, Handoff(p)
      PROVE  Together'
  BY <1>2 DEF Handoff, Outbox!SendBatch, Outbox!SendBatchUnconfirmed, Outbox!rowVars,
     Delivery!Enqueue, Delivery!row, Together
<1>3. CASE Publish
  BY <1>3, PublishStep DEF Publish, deliveryVars, Together
<1>4. CASE Deliver
  BY <1>4, DeliverStep DEF outboxVars, Together
<1>5. CASE UNCHANGED pipelineVars
  BY <1>5 DEF pipelineVars, outboxVars, deliveryVars, Together
<1>6. QED
  BY <1>1, <1>2, <1>3, <1>4, <1>5 DEF PipelineNext

\* The pipeline keeps the invariants of both halves, and that they agree.
LEMMA StepPipeline == PipelineInv /\ [PipelineNext]_pipelineVars => PipelineInv'
<1> SUFFICES ASSUME PipelineInv, [PipelineNext]_pipelineVars
             PROVE  PipelineInv'
  OBVIOUS
<1>1. [Passes!Next]_(Passes!vars) /\ [Consumers!Next]_(Consumers!vars)
  BY StepHalves DEF PipelineInv, Passes!IInv
<1>2. Passes!IInv'
  BY <1>1, Assumptions, Passes!StepInvariant DEF PipelineInv
<1>3. DeliveryInv'
  BY <1>1, Assumptions, Consumers!StepType, Consumers!StepSingleSender,
     Consumers!StepStranded, Consumers!StepKnown DEF PipelineInv, DeliveryInv
<1>4. QED
  BY <1>2, <1>3, StepTogether DEF PipelineInv

\* The invariant of the pipeline holds throughout.
LEMMA PipelineInvariance == PipelineSpec => []PipelineInv
<1>1. PipelineInit => PipelineInv
  <2>1. PipelineInit => Passes!IInv
    BY InitOfHalves, Assumptions, Passes!InitInvariant
  <2>2. PipelineInit => DeliveryInv
    BY InitOfHalves, Assumptions, Consumers!InitInvariant DEF DeliveryInv
  <2>3. PipelineInit => Together
    BY DEF PipelineInit, Outbox!Init, Delivery!Init, Together
  <2>4. QED
    BY <2>1, <2>2, <2>3 DEF PipelineInv
<1>2. QED
  BY <1>1, StepPipeline, PTL DEF PipelineSpec

\* Seen from either half, the pipeline is that half: the transaction and the stored
\* batch are steps it allows, so what is proved of it alone holds here too.
THEOREM ImplementsHalves == PipelineSpec => Passes!Spec /\ Consumers!Spec
<1>1. PipelineInv /\ [PipelineNext]_pipelineVars
        => [Passes!Next]_(Passes!vars) /\ [Consumers!Next]_(Consumers!vars)
  BY StepHalves DEF PipelineInv, Passes!IInv
<1>2. QED
  BY <1>1, InitOfHalves, PipelineInvariance, PTL DEF PipelineSpec, Passes!Spec, Consumers!Spec

-----------------------------------------------------------------------------
(* No accepted email is forgotten.  A processed outbox row was persisted,  *)
(* a persisted job was handed to the consumers, and they lose none.        *)
-----------------------------------------------------------------------------

\* Until it is final, an email's outbox row is open or with an operator, or a
\* copy of its job is in the queue, with a consumer or in the dead-letter queue.
THEOREM NothingForgotten == PipelineSpec => []NeverForgotten
<1>1. PipelineInv => NeverForgotten
  <2> SUFFICES ASSUME PipelineInv, NEW m \in Email \ Invalid
               PROVE  /\ mail[m] # "absent" =>
                           \/ Delivery!Terminal(m)
                           \/ Delivery!Pursued(m)
                           \/ outbox[m] \in {"pending", "processing", "failed", "dead_lettered"}
                      /\ mailEnqueued[m] => mail[m] # "absent"
    BY DEF NeverForgotten
  <2> USE DEF PipelineInv, DeliveryInv, Passes!IInv
  <2>1. outbox[m] \in {"absent", "pending", "processing", "processed", "failed", "dead_lettered"}
    BY DEF Passes!TypeOK, Passes!RowStatus
  <2>2. mail[m] # "absent" => outbox[m] # "absent"
    BY DEF Together
  <2>3. outbox[m] = "processed" => Consumers!Terminal(m) \/ Consumers!Pursued(m)
    BY DEF Passes!SettledTruthfully, Passes!ProcessedWasPublished, Together,
       Consumers!NeverStranded
  <2>4. mailEnqueued[m] => mail[m] # "absent"
    BY DEF Consumers!OnlyKnown
  <2>5. QED
    BY <2>1, <2>2, <2>3, <2>4, SameFacts
<1>2. QED
  BY <1>1, PipelineInvariance, PTL

-----------------------------------------------------------------------------
(* The pipeline keeps the promise of EmailPromise.                         *)
-----------------------------------------------------------------------------

\* Accepting an email owes it; passes and consumers only move it between owed and
\* parked until it is final, and mail it once unless its claim was stolen.
THEOREM Refinement == PipelineSpec => KeepsPromise
<1>1. PipelineInit => Promise!Init
  BY DEF PipelineInit, Delivery!Init, Promise!Init, promise
<1>2. PipelineInv /\ [PipelineNext]_pipelineVars => [Promise!Next]_(Promise!vars)
  <2> SUFFICES ASSUME PipelineInv, [PipelineNext]_pipelineVars
               PROVE  [Promise!Next]_(Promise!vars)
    OBVIOUS
  <2>1. ASSUME NEW m \in Email, Accept(m)
        PROVE  Promise!Accept(m)
    <3>1. /\ mail[m] = "absent" /\ mail' = [mail EXCEPT ![m] = "queued"]
          /\ outbox' = [outbox EXCEPT ![m] = "pending"]
          /\ UNCHANGED <<mailRetryable, mailParked, mailSends, mailStolen>>
      BY <2>1 DEF Accept, Delivery!InsertMessage, Delivery!queue, Delivery!past, Outbox!InsertRow
    <3>2. ~mailParked[m]
      BY <3>1 DEF PipelineInv, DeliveryInv, Consumers!OnlyKnown, Consumers!Pursued
    <3>3. promise[m] = "none" /\ promise' = [promise EXCEPT ![m] = "owed"]
      BY <3>1, <3>2 DEF promise, Delivery!Terminal, PipelineInv, DeliveryInv, Passes!IInv,
         Passes!TypeOK, Consumers!TypeInv, Consumers!TypeOK, Consumers!RowTypeOK
    <3>4. QED
      BY <3>1, <3>3 DEF Promise!Accept
  <2>2. ASSUME NEW p \in Publisher, Handoff(p)
        PROVE  UNCHANGED Promise!vars
    BY <2>2 DEF Handoff, Outbox!SendBatch, Outbox!SendBatchUnconfirmed, Outbox!rowVars,
       Delivery!Enqueue, Delivery!row, Promise!vars, promise, Delivery!Terminal
  <2>3. CASE Publish
    <3>1. UNCHANGED <<mail, mailRetryable, mailParked, mailSends, mailStolen>>
      BY <2>3 DEF Publish, deliveryVars
    <3>2. QED
      BY <3>1 DEF Promise!Next, Promise!Rearrange, promise, Delivery!Terminal
  <2>4. CASE Deliver
    <3> USE DEF PipelineInv, DeliveryInv
    <3>1. UNCHANGED outbox
      BY <2>4, DeliverStep DEF outboxVars
    <3> DEFINE Facts(m) ==
          /\ mail'[m] = "absent" <=> mail[m] = "absent"
          /\ Delivery!Terminal(m)' <=> Delivery!Terminal(m)
    <3>0. \A m \in Email : Consumers!SameRow(m) => Facts(m)
      BY DEF Consumers!SameRow, Consumers!Terminal, Delivery!Terminal
    <3>2. CASE Consumers!Quiet
      BY <3>0, <3>1, <3>2 DEF Consumers!Quiet, Consumers!SameRows, promise, Promise!Next,
         Promise!Rearrange
    <3>3. ASSUME NEW m \in Email, Consumers!Mailed(m)
          PROVE  Promise!Mail(m)
      BY <3>0, <3>1, <3>3 DEF Consumers!Mailed, Consumers!SameRows, promise, Promise!Mail
    <3>4. ASSUME NEW m \in Email, Consumers!Exposed(m)
          PROVE  Promise!Expose(m)
      BY <3>0, <3>1, <3>4 DEF Consumers!Exposed, Consumers!SameRows, promise, Promise!Expose
    <3>5. ASSUME NEW m \in Email, Consumers!Closed(m)
          PROVE  Promise!Decide(m)
      <4>1. Delivery!Terminal(m)' /\ ~Delivery!Terminal(m)
        BY <3>5 DEF Consumers!Closed, Consumers!Terminal, Delivery!Terminal
      <4>2. QED
        BY <3>0, <3>1, <3>5, <4>1 DEF Consumers!Closed, promise, Promise!Decide
    <3>6. QED
      BY <2>4, <3>2, <3>3, <3>4, <3>5, DeliverStep DEF Promise!Next
  <2>5. CASE UNCHANGED pipelineVars
    BY <2>5 DEF pipelineVars, outboxVars, deliveryVars, Promise!vars, promise, Delivery!Terminal
  <2>6. QED
    BY <2>1, <2>2, <2>3, <2>4, <2>5 DEF PipelineNext, Promise!Next
<1>3. QED
  BY <1>1, <1>2, PipelineInvariance, PTL DEF PipelineSpec, KeepsPromise, Promise!Spec
=============================================================================
