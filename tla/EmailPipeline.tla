---------------------------- MODULE EmailPipeline ----------------------------
(***************************************************************************)
(* Outgoing email end to end: an intake or an admin reply commits a message*)
(* row and its outbox row in one transaction, publication passes hand the  *)
(* job to the queue, and consumers deliver it.  EmailOutbox and            *)
(* EmailDelivery meet in two steps: the transaction writes a row in each,  *)
(* and a stored sendBatch adds a copy of every job of the pass's batch.    *)
(***************************************************************************)
EXTENDS Naturals

CONSTANTS
  Email, Invalid,       \* the messages, and those whose job fails its schema
  Publisher, Limit, DeadLetterAttempts, MaxFaults,
  Sender,               \* consumers
  Nobody,               \* the message of an idle one
  MaxTries, MaxSpares   \* deliveries of one copy, and copies counted

VARIABLES
  \* EmailOutbox
  outbox, attempts, due, stale, pass, batch, persisted, rowStolen, faults,
  \* EmailDelivery
  mail, mailRetryable, mailExpired, mailReady, mailParked, mailStep, mailJob, mailDelivery,
  mailRetry, mailEnqueued, mailSends, mailAnswers, mailStolen

Outbox == INSTANCE EmailOutbox WITH
  Message <- Email, Malformed <- Invalid, published <- persisted, stolen <- rowStolen

Delivery == INSTANCE EmailDelivery WITH
  Message <- Email, Malformed <- Invalid, Worker <- Sender, None <- Nobody,
  MaxDeliveries <- MaxTries, MaxCopies <- MaxSpares,
  status <- mail, retryable <- mailRetryable, expired <- mailExpired, ready <- mailReady,
  parked <- mailParked, step <- mailStep, job <- mailJob, delivery <- mailDelivery,
  willRetry <- mailRetry, enqueued <- mailEnqueued, sends <- mailSends, answers <- mailAnswers,
  stolen <- mailStolen

ASSUME PipelineAssumption == Outbox!OutboxAssumption /\ Delivery!DeliveryAssumption

outboxVars   == <<outbox, attempts, due, stale, pass, batch, persisted, rowStolen, faults>>
deliveryVars == <<mail, mailRetryable, mailExpired, mailReady, mailParked, mailStep, mailJob,
                  mailDelivery, mailRetry, mailEnqueued, mailSends, mailAnswers, mailStolen>>
pipelineVars == <<outboxVars, deliveryVars>>

PipelineInit == Outbox!Init /\ Delivery!Init

\* Mutant of Accept: the outbox row is committed before the message row.
AcceptSeparately(m) ==
  \/ Outbox!InsertRow(m) /\ UNCHANGED deliveryVars
  \/ outbox[m] # "absent" /\ Delivery!InsertMessage(m) /\ UNCHANGED outboxVars

\* persistIntakeTransaction or persistThreadReply: both rows or neither.
Accept(m) == Outbox!InsertRow(m) /\ Delivery!InsertMessage(m)

\* The queue stored the batch of pass p, whether or not p learns of it.
Handoff(p) ==
  /\ Outbox!SendBatch(p) \/ Outbox!SendBatchUnconfirmed(p)
  /\ Delivery!Enqueue(batch[p])

\* The other steps of a pass after its claim.
PassStep(p) ==
  \/ Outbox!DeadLetterOutbox(p)
  \/ Outbox!SendBatchFails(p)
  \/ Outbox!CompleteOutbox(p) \/ Outbox!CompleteFails(p) \/ Outbox!FailOutbox(p)

\* A pass claims rows, is lost, or time passes for a row.
ClaimBatch(p, S) == Outbox!ClaimOutbox(p, S)
LosePass(p, S)   == Outbox!ClaimLost(p, S) \/ Outbox!Abandon(p)
RowTimer(m)      == Outbox!BecomesDue(m) \/ Outbox!LeaseExpires(m)

Publish ==
  /\ \/ \E m \in Email : RowTimer(m)
     \/ \E p \in Publisher : PassStep(p)
     \/ \E p \in Publisher, S \in SUBSET Email : ClaimBatch(p, S) \/ LosePass(p, S)
  /\ UNCHANGED deliveryVars

Deliver == Delivery!Consume /\ UNCHANGED outboxVars

PipelineNext ==
  \/ \E m \in Email : Accept(m)
  \/ \E p \in Publisher : Handoff(p)
  \/ Publish
  \/ Deliver

\* Timers fire, cron keeps claiming, the queue delivers every copy it holds, and
\* a running invocation runs on.
PipelineFairness ==
  /\ \A m \in Email : WF_outboxVars(RowTimer(m))
  /\ \A p \in Publisher : WF_outboxVars(Handoff(p) \/ PassStep(p))
  /\ WF_outboxVars(\E p \in Publisher, S \in SUBSET Email : ClaimBatch(p, S))
  /\ \A w \in Sender : WF_deliveryVars(Delivery!Proceed(w))
  /\ \A m \in Email, n \in 1..MaxTries :
       SF_deliveryVars(\/ Delivery!RejectMalformed(m, n)
                       \/ \E w \in Sender : Delivery!Receive(w, m, n))

PipelineSpec     == PipelineInit /\ [][PipelineNext]_pipelineVars
PipelineFairSpec == PipelineSpec /\ PipelineFairness

-----------------------------------------------------------------------------

\* No accepted email is forgotten between the two halves: until its row is
\* final, its outbox row is open or with an operator, or a copy of its job is
\* in the queue, in a consumer's hands or in the dead-letter queue.  Nor does a
\* consumer find a job before its message row exists.
NeverForgotten ==
  \A m \in Email \ Invalid :
    /\ mail[m] # "absent" =>
         \/ Delivery!Terminal(m)
         \/ Delivery!Pursued(m)
         \/ outbox[m] \in {"pending", "processing", "failed", "dead_lettered"}
    /\ mailEnqueued[m] => mail[m] # "absent"

\* An email is with an operator when it is on either dead-letter list.
promise ==
  [m \in Email |->
     IF mail[m] = "absent" THEN "none"
     ELSE IF Delivery!Terminal(m) THEN "final"
     ELSE IF mailParked[m] \/ outbox[m] = "dead_lettered" THEN "parked" ELSE "owed"]

\* The pipeline keeps the promise of EmailPromise.
Promise     == INSTANCE EmailPromise WITH Message <- Email, mails <- mailSends, exposed <- mailStolen
KeepsPromise == Promise!Spec

\* Every accepted email is decided for good: its row becomes final, or an operator
\* has it, in the queue's dead-letter queue or as a dead-lettered outbox row; and,
\* with finitely many lost leases, its outbox row is settled.
MailSettles ==
  \A m \in Email :
    mail[m] # "absent" ~>
      [](promise[m] \in {"final", "parked"} /\ outbox[m] \in Outbox!Settled)
=============================================================================
