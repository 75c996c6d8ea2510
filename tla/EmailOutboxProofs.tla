--------------------------- MODULE EmailOutboxProofs ---------------------------
(***************************************************************************)
(* Proofs about EmailOutbox, for any number of rows and of overlapping     *)
(* passes, any batch limit and any number of attempts.                     *)
(***************************************************************************)
EXTENDS EmailOutbox, TLAPS

USE OutboxAssumption DEF RowStatus, PassStep, Settled

\* What a pass holds: nothing while it is idle, nothing malformed behind the
\* rejection, and in the queue before it completes.
Held ==
  \A p \in Publisher :
    /\ pass[p] = "idle" => batch[p] = {}
    /\ pass[p] \in {"sending", "completing", "failing"} => batch[p] \cap Malformed = {}
    /\ pass[p] = "completing" => \A m \in batch[p] : published[m]

\* A row some pass holds, and that was not stolen, is one no claim can take: it
\* is leased or, behind a completion that threw, already processed.
HeldIsLeased ==
  \A m \in Message, p \in Publisher :
    m \in batch[p] /\ ~stolen[m] => outbox[m] \in {"processing", "processed"}

IInv == TypeOK /\ Held /\ SettledTruthfully /\ HeldIsLeased /\ OneHolderUnlessStolen

-----------------------------------------------------------------------------
(* Types and what passes hold.                                             *)
-----------------------------------------------------------------------------

\* Attempts are counted up to the limit.
LEMMA OneMoreAttemptType ==
  \A n \in 0..DeadLetterAttempts : OneMoreAttempt(n) \in 0..DeadLetterAttempts
BY DEF OneMoreAttempt

\* A claim, whether or not its answer arrives.
LEMMA ClaimRowsType ==
  ASSUME TypeOK, NEW S \in SUBSET Message, ClaimRows(S)
  PROVE  /\ outbox'   \in [Message -> RowStatus]
         /\ attempts' \in [Message -> 0..DeadLetterAttempts]
         /\ due'      \in [Message -> BOOLEAN]
         /\ stale'    \in [Message -> BOOLEAN]
         /\ stolen'   \in [Message -> BOOLEAN]
BY OneMoreAttemptType DEF TypeOK, ClaimRows

\* Every step keeps every variable in its type.
LEMMA StepType == TypeOK /\ [Next]_vars => TypeOK'
<1> SUFFICES ASSUME TypeOK, [Next]_vars
             PROVE  TypeOK'
  OBVIOUS
<1>1. ASSUME NEW m \in Message, InsertRow(m) \/ BecomesDue(m) \/ LeaseExpires(m)
      PROVE  TypeOK'
  BY <1>1 DEF TypeOK, InsertRow, BecomesDue, LeaseExpires
<1>2. ASSUME NEW p \in Publisher, DeadLetterOutbox(p)
      PROVE  TypeOK'
  BY <1>2 DEF TypeOK, DeadLetterOutbox, DeadLetterRows, Return, GoTo
<1>3. ASSUME NEW p \in Publisher, SendBatch(p) \/ SendBatchUnconfirmed(p) \/ SendBatchFails(p)
      PROVE  TypeOK'
  BY <1>3 DEF TypeOK, SendBatch, SendBatchUnconfirmed, SendBatchFails, GoTo, rowVars
<1>4. ASSUME NEW p \in Publisher, CompleteOutbox(p) \/ CompleteFails(p)
      PROVE  TypeOK'
  BY <1>4 DEF TypeOK, CompleteOutbox, CompleteFails, CompleteRows, Return, GoTo, rowVars
<1>5. ASSUME NEW p \in Publisher, FailOutbox(p)
      PROVE  TypeOK'
  BY <1>5 DEF TypeOK, FailOutbox, FailRows, Return, GoTo
<1>6. ASSUME NEW p \in Publisher, Abandon(p)
      PROVE  TypeOK'
  BY <1>6 DEF TypeOK, Abandon, LoseLease, Return, GoTo, rowVars
<1>7. ASSUME NEW p \in Publisher, NEW S \in SUBSET Message, ClaimOutbox(p, S)
      PROVE  TypeOK'
  BY <1>7, ClaimRowsType DEF TypeOK, ClaimOutbox, GoTo
<1>8. ASSUME NEW p \in Publisher, NEW S \in SUBSET Message, ClaimLost(p, S)
      PROVE  TypeOK'
  BY <1>8, ClaimRowsType DEF TypeOK, ClaimLost, LoseLease
<1>9. CASE UNCHANGED vars
  BY <1>9 DEF TypeOK, vars
<1> QED
  BY <1>1, <1>2, <1>3, <1>4, <1>5, <1>6, <1>7, <1>8, <1>9 DEF Next, Proceed

\* No step takes a job out of the queue, and each pass keeps its own books.
LEMMA StepHeld == TypeOK /\ Held /\ [Next]_vars => Held'
<1> SUFFICES ASSUME TypeOK, Held, [Next]_vars
             PROVE  Held'
  OBVIOUS
<1>1. ASSUME NEW m \in Message, InsertRow(m) \/ BecomesDue(m) \/ LeaseExpires(m)
      PROVE  Held'
  BY <1>1 DEF Held, InsertRow, BecomesDue, LeaseExpires
<1>2. ASSUME NEW p \in Publisher, DeadLetterOutbox(p)
      PROVE  Held'
  BY <1>2 DEF TypeOK, Held, DeadLetterOutbox, Return, GoTo
<1>3. ASSUME NEW p \in Publisher, SendBatch(p) \/ SendBatchUnconfirmed(p) \/ SendBatchFails(p)
      PROVE  Held'
  BY <1>3 DEF TypeOK, Held, SendBatch, SendBatchUnconfirmed, SendBatchFails, GoTo
<1>4. ASSUME NEW p \in Publisher, CompleteOutbox(p) \/ CompleteFails(p) \/ FailOutbox(p) \/ Abandon(p)
      PROVE  Held'
  BY <1>4 DEF TypeOK, Held, CompleteOutbox, CompleteFails, FailOutbox, Abandon, Return, GoTo
<1>5. ASSUME NEW p \in Publisher, NEW S \in SUBSET Message, ClaimOutbox(p, S)
      PROVE  Held'
  BY <1>5 DEF TypeOK, Held, ClaimOutbox, GoTo
<1>6. ASSUME NEW p \in Publisher, NEW S \in SUBSET Message, ClaimLost(p, S)
      PROVE  Held'
  BY <1>6 DEF Held, ClaimLost
<1>7. CASE UNCHANGED vars
  BY <1>7 DEF Held, vars
<1> QED
  BY <1>1, <1>2, <1>3, <1>4, <1>5, <1>6, <1>7 DEF Next, Proceed

-----------------------------------------------------------------------------
(* A settled row says what happened.                                       *)
-----------------------------------------------------------------------------

\* A claim touches no settled row.
LEMMA ClaimKeepsSettled ==
  ASSUME TypeOK, NEW S \in SUBSET Message, S \subseteq Claimable, ClaimRows(S), NEW m \in Message,
         outbox'[m] \in Settled
  PROVE  outbox'[m] = outbox[m] /\ attempts'[m] = attempts[m]
BY DEF TypeOK, ClaimRows, Claimable

\* No step settles a row untruthfully.
LEMMA StepSettled == TypeOK /\ Held /\ SettledTruthfully /\ [Next]_vars => SettledTruthfully'
<1> SUFFICES ASSUME TypeOK, Held, SettledTruthfully, [Next]_vars, NEW m \in Message
             PROVE  /\ outbox'[m] = "processed" => published'[m] /\ m \notin Malformed
                    /\ m \notin Malformed /\ outbox'[m] = "dead_lettered" =>
                         attempts'[m] = DeadLetterAttempts
  BY DEF SettledTruthfully, ProcessedWasPublished, DeadLetteredAfterAllAttempts
<1> DEFINE Fine == /\ outbox'[m] = "processed" => published'[m] /\ m \notin Malformed
                   /\ m \notin Malformed /\ outbox'[m] = "dead_lettered" =>
                        attempts'[m] = DeadLetterAttempts
<1> USE DEF SettledTruthfully, ProcessedWasPublished, DeadLetteredAfterAllAttempts
<1>1. ASSUME NEW a \in Message, InsertRow(a) \/ BecomesDue(a) \/ LeaseExpires(a)
      PROVE  Fine
  BY <1>1 DEF TypeOK, InsertRow, BecomesDue, LeaseExpires
<1>2. ASSUME NEW p \in Publisher, DeadLetterOutbox(p)
      PROVE  Fine
  BY <1>2 DEF TypeOK, DeadLetterOutbox, DeadLetterRows
<1>3. ASSUME NEW p \in Publisher, SendBatch(p) \/ SendBatchUnconfirmed(p) \/ SendBatchFails(p)
      PROVE  Fine
  BY <1>3 DEF TypeOK, SendBatch, SendBatchUnconfirmed, SendBatchFails, rowVars
<1>4. ASSUME NEW p \in Publisher, CompleteOutbox(p) \/ CompleteFails(p)
      PROVE  Fine
  <2>1. \A a \in batch[p] : published[a] /\ a \notin Malformed
    BY <1>4 DEF Held, CompleteOutbox, CompleteFails
  <2>2. CompleteRows(batch[p]) \/ UNCHANGED rowVars
    BY <1>4 DEF CompleteOutbox, CompleteFails
  <2>3. QED
    BY <1>4, <2>1, <2>2 DEF TypeOK, CompleteOutbox, CompleteFails, CompleteRows, rowVars
<1>5. ASSUME NEW p \in Publisher, FailOutbox(p)
      PROVE  Fine
  BY <1>5 DEF TypeOK, FailOutbox, FailRows
<1>6. ASSUME NEW p \in Publisher, Abandon(p)
      PROVE  Fine
  BY <1>6 DEF Abandon, rowVars
<1>7. ASSUME NEW p \in Publisher, NEW S \in SUBSET Message, ClaimOutbox(p, S) \/ ClaimLost(p, S)
      PROVE  Fine
  <2>1. S \subseteq Claimable /\ ClaimRows(S) /\ published' = published
    BY <1>7 DEF ClaimOutbox, ClaimLost
  <2>2. QED
    BY <2>1, ClaimKeepsSettled
<1>8. CASE UNCHANGED vars
  BY <1>8 DEF vars
<1> QED
  BY <1>1, <1>2, <1>3, <1>4, <1>5, <1>6, <1>7, <1>8 DEF Next, Proceed

-----------------------------------------------------------------------------
(* Leases exclude: a claim finds a row that was not stolen in no batch, so *)
(* the pass that claims it is its only holder, and every update of a row   *)
(* that takes it out of its lease is made by that pass.                    *)
-----------------------------------------------------------------------------

\* No step gives a row a second holder unless its lease was stolen.
LEMMA StepHolder ==
  TypeOK /\ HeldIsLeased /\ OneHolderUnlessStolen /\ [Next]_vars
    => HeldIsLeased' /\ OneHolderUnlessStolen'
<1> SUFFICES ASSUME TypeOK, HeldIsLeased, OneHolderUnlessStolen, [Next]_vars
             PROVE  HeldIsLeased' /\ OneHolderUnlessStolen'
  OBVIOUS
<1> USE DEF HeldIsLeased, OneHolderUnlessStolen
<1>1. ASSUME NEW a \in Message, InsertRow(a) \/ BecomesDue(a) \/ LeaseExpires(a)
      PROVE  HeldIsLeased' /\ OneHolderUnlessStolen'
  BY <1>1 DEF TypeOK, InsertRow, BecomesDue, LeaseExpires
<1>2. ASSUME NEW p \in Publisher, DeadLetterOutbox(p)
      PROVE  HeldIsLeased' /\ OneHolderUnlessStolen'
  <2>1. /\ batch' = [batch EXCEPT ![p] = batch[p] \ Malformed]
        /\ \A m \in Message : outbox'[m] = IF m \in batch[p] \cap Malformed THEN "dead_lettered" ELSE outbox[m]
        /\ stolen' = stolen
    BY <1>2 DEF TypeOK, DeadLetterOutbox, DeadLetterRows, Return
  <2>2. QED
    BY <2>1 DEF TypeOK
<1>3. ASSUME NEW p \in Publisher, SendBatch(p) \/ SendBatchUnconfirmed(p) \/ SendBatchFails(p)
      PROVE  HeldIsLeased' /\ OneHolderUnlessStolen'
  BY <1>3 DEF SendBatch, SendBatchUnconfirmed, SendBatchFails, rowVars
<1>4. ASSUME NEW p \in Publisher, CompleteOutbox(p) \/ CompleteFails(p)
      PROVE  HeldIsLeased' /\ OneHolderUnlessStolen'
  <2>1. \A m \in Message : outbox'[m] \in {"processed", outbox[m]}
    BY <1>4 DEF TypeOK, CompleteOutbox, CompleteFails, CompleteRows, rowVars
  <2>2. stolen' = stolen /\ \A q \in Publisher : batch'[q] \subseteq batch[q]
    BY <1>4 DEF TypeOK, CompleteOutbox, CompleteFails, Return
  <2>3. QED
    BY <2>1, <2>2
<1>5. ASSUME NEW p \in Publisher, FailOutbox(p)
      PROVE  HeldIsLeased' /\ OneHolderUnlessStolen'
  <2>1. /\ batch' = [batch EXCEPT ![p] = {}]
        /\ \A m \in Message : m \notin batch[p] => outbox'[m] = outbox[m]
        /\ stolen' = stolen
    BY <1>5 DEF TypeOK, FailOutbox, FailRows, Return
  <2>2. QED
    BY <2>1 DEF TypeOK
<1>6. ASSUME NEW p \in Publisher, Abandon(p)
      PROVE  HeldIsLeased' /\ OneHolderUnlessStolen'
  BY <1>6 DEF TypeOK, Abandon, Return, rowVars
<1>7. ASSUME NEW S \in SUBSET Message, S \subseteq Claimable, ClaimRows(S)
      PROVE  /\ \A m \in Message : stolen[m] => stolen'[m]
             /\ \A m \in S, q \in Publisher : ~stolen'[m] => m \notin batch[q]
             /\ \A m \in S : outbox'[m] = "processing"
             /\ \A m \in Message \ S : outbox'[m] = outbox[m]
  BY <1>7 DEF TypeOK, ClaimRows, Claimable
<1>8. ASSUME NEW p \in Publisher, NEW S \in SUBSET Message, ClaimOutbox(p, S)
      PROVE  HeldIsLeased' /\ OneHolderUnlessStolen'
  <2>1. S \subseteq Claimable /\ ClaimRows(S) /\ batch' = [batch EXCEPT ![p] = S]
    BY <1>8 DEF ClaimOutbox
  <2>2. QED
    BY <2>1, <1>7 DEF TypeOK
<1>9. ASSUME NEW p \in Publisher, NEW S \in SUBSET Message, ClaimLost(p, S)
      PROVE  HeldIsLeased' /\ OneHolderUnlessStolen'
  BY <1>9, <1>7 DEF ClaimLost
<1>10. CASE UNCHANGED vars
  BY <1>10 DEF vars
<1> QED
  BY <1>1, <1>2, <1>3, <1>4, <1>5, <1>6, <1>8, <1>9, <1>10 DEF Next, Proceed

-----------------------------------------------------------------------------
(* The theorems.                                                           *)
-----------------------------------------------------------------------------

\* The empty outbox satisfies the invariant.
LEMMA InitInvariant == Init => IInv
BY DEF Init, IInv, TypeOK, Held, SettledTruthfully, ProcessedWasPublished,
   DeadLetteredAfterAllAttempts, HeldIsLeased, OneHolderUnlessStolen

\* Every step satisfies the invariant again.
LEMMA StepInvariant == IInv /\ [Next]_vars => IInv'
BY StepType, StepHeld, StepSettled, StepHolder DEF IInv

\* The invariant of the outbox holds throughout.
LEMMA Invariance == Spec => []IInv
BY InitInvariant, StepInvariant, PTL DEF Spec

\* Every reachable state has its type.
THEOREM TypeCorrect == Spec => []TypeOK
<1>1. IInv => TypeOK
  BY DEF IInv
<1>2. QED
  BY <1>1, Invariance, PTL

\* A processed row's job is in the queue, and a dead-lettered one had its attempts.
THEOREM SettledIsTrue == Spec => []SettledTruthfully
<1>1. IInv => SettledTruthfully
  BY DEF IInv
<1>2. QED
  BY <1>1, Invariance, PTL

\* No two passes work on one row, unless it was claimed under an expired lease.
THEOREM LeasesExclude == Spec => []OneHolderUnlessStolen
<1>1. IInv => OneHolderUnlessStolen
  BY DEF IInv
<1>2. QED
  BY <1>1, Invariance, PTL

\* A row that is settled and that no pass holds does not change any more.
THEOREM SettledStays == Spec => SettledUnlessStolen
<1>1. TypeOK /\ [Next]_vars =>
        [\A m \in Message :
           /\ outbox[m] \in Settled /\ ~stolen[m]
           /\ \A p \in Publisher : m \notin batch[p]
           => outbox'[m] = outbox[m]]_vars
  <2> SUFFICES ASSUME TypeOK, Next, NEW m \in Message, outbox[m] \in Settled,
                      \A p \in Publisher : m \notin batch[p]
               PROVE  outbox'[m] = outbox[m]
    OBVIOUS
  <2>1. ASSUME NEW a \in Message, InsertRow(a) \/ BecomesDue(a) \/ LeaseExpires(a)
        PROVE  outbox'[m] = outbox[m]
    BY <2>1 DEF TypeOK, InsertRow, BecomesDue, LeaseExpires
  <2>2. ASSUME NEW p \in Publisher, Proceed(p)
        PROVE  outbox'[m] = outbox[m]
    BY <2>2 DEF TypeOK, Proceed, DeadLetterOutbox, SendBatch, SendBatchUnconfirmed, SendBatchFails,
                CompleteOutbox, CompleteFails, FailOutbox, DeadLetterRows, CompleteRows, FailRows, rowVars
  <2>3. ASSUME NEW p \in Publisher, Abandon(p)
        PROVE  outbox'[m] = outbox[m]
    BY <2>3 DEF Abandon, rowVars
  <2>4. ASSUME NEW p \in Publisher, NEW S \in SUBSET Message, ClaimOutbox(p, S) \/ ClaimLost(p, S)
        PROVE  outbox'[m] = outbox[m]
    BY <2>4 DEF TypeOK, ClaimOutbox, ClaimLost, ClaimRows, Claimable
  <2> QED
    BY <2>1, <2>2, <2>3, <2>4 DEF Next
<1>2. QED
  BY <1>1, TypeCorrect, PTL DEF Spec, SettledUnlessStolen
=============================================================================
