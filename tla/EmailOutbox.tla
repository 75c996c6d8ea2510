----------------------------- MODULE EmailOutbox -----------------------------
(***************************************************************************)
(* The transactional outbox of outgoing email and the publishers that hand *)
(* its rows to the Cloudflare Queue: publishPendingEmailOutbox and the four*)
(* row updates it makes.  A publisher is any invocation that runs it: the  *)
(* request that accepted an intake, an admin reply, or the cron pass.      *)
(*                                                                         *)
(* Time is abstracted to two facts per row: its backoff has passed (`due`) *)
(* and its claim is older than fifteen minutes (`stale`).  Every database  *)
(* or queue call is a step of its own and may fail before or after it took *)
(* effect.  `faults` counts the failures that leave a row leased with      *)
(* nobody working on it; MaxFaults bounds them.                            *)
(***************************************************************************)
EXTENDS Naturals, FiniteSets

CONSTANTS
  Message,             \* transactional emails; one outbox row each
  Malformed,           \* those whose payload fails the job schema
  Publisher,           \* concurrent publication passes
  Limit,               \* rows claimed by one pass (10 or 100 in the code)
  DeadLetterAttempts,  \* claims after which a failure is final (10)
  MaxFaults            \* bound on lost leases

ASSUME OutboxAssumption ==
  /\ Malformed \subseteq Message
  /\ Limit \in Nat \ {0}
  /\ DeadLetterAttempts \in Nat \ {0}
  /\ MaxFaults \in Nat

VARIABLES
  outbox,     \* sync.outbox_events.status of each row
  attempts,   \* its attempts, counted up to DeadLetterAttempts
  due,        \* available_at <= now()
  stale,      \* locked_at < now() - 15 minutes
  pass,       \* where each publisher is in publishPendingEmailOutbox
  batch,      \* the rows it still holds
  published,  \* history: the row's job was persisted in the queue
  stolen,     \* history: the row was claimed from under an expired lease
  faults

rowVars == <<outbox, attempts, due, stale>>
vars == <<outbox, attempts, due, stale, pass, batch, published, stolen, faults>>

RowStatus == {"absent", "pending", "processing", "processed", "failed", "dead_lettered"}
PassStep  == {"idle", "rejecting", "sending", "completing", "failing"}
Settled   == {"processed", "dead_lettered"}

Init ==
  /\ outbox    = [m \in Message |-> "absent"]
  /\ attempts  = [m \in Message |-> 0]
  /\ due       = [m \in Message |-> TRUE]
  /\ stale     = [m \in Message |-> FALSE]
  /\ pass      = [p \in Publisher |-> "idle"]
  /\ batch     = [p \in Publisher |-> {}]
  /\ published = [m \in Message |-> FALSE]
  /\ stolen    = [m \in Message |-> FALSE]
  /\ faults    = 0

(***************************************************************************)
(* Row updates                                                             *)
(***************************************************************************)

\* Mutant of Claimable: a lease that is not honoured.
ClaimableLeased == {m \in Message : due[m] /\ outbox[m] \in {"pending", "failed", "processing"}}

Claimable == {m \in Message : /\ due[m]
                              /\ \/ outbox[m] \in {"pending", "failed"}
                                 \/ outbox[m] = "processing" /\ stale[m]}

OneMoreAttempt(n) == IF n < DeadLetterAttempts THEN n + 1 ELSE n

ClaimRows(S) ==
  /\ outbox'   = [m \in Message |-> IF m \in S THEN "processing" ELSE outbox[m]]
  /\ attempts' = [m \in Message |-> IF m \in S THEN OneMoreAttempt(attempts[m]) ELSE attempts[m]]
  /\ stale'    = [m \in Message |-> stale[m] /\ m \notin S]
  /\ stolen'   = [m \in Message |-> stolen[m] \/ (m \in S /\ outbox[m] = "processing" /\ stale[m])]
  /\ UNCHANGED due

CompleteRows(S) ==
  /\ outbox' = [m \in Message |-> IF m \in S THEN "processed" ELSE outbox[m]]
  /\ stale'  = [m \in Message |-> stale[m] /\ m \notin S]
  /\ UNCHANGED <<attempts, due>>

\* Mutant of FailRows: an attempt short.
FailRowsEarly(S) ==
  /\ outbox' = [m \in Message |->
                  IF m \notin S THEN outbox[m]
                  ELSE IF attempts[m] + 1 >= DeadLetterAttempts THEN "dead_lettered" ELSE "failed"]
  /\ due'    = [m \in Message |-> due[m] /\ m \notin S]
  /\ stale'  = [m \in Message |-> stale[m] /\ m \notin S]
  /\ UNCHANGED attempts

FailRows(S) ==
  /\ outbox' = [m \in Message |->
                  IF m \notin S THEN outbox[m]
                  ELSE IF attempts[m] >= DeadLetterAttempts THEN "dead_lettered" ELSE "failed"]
  /\ due'    = [m \in Message |-> due[m] /\ m \notin S]
  /\ stale'  = [m \in Message |-> stale[m] /\ m \notin S]
  /\ UNCHANGED attempts

DeadLetterRows(S) ==
  /\ outbox' = [m \in Message |-> IF m \in S THEN "dead_lettered" ELSE outbox[m]]
  /\ stale'  = [m \in Message |-> stale[m] /\ m \notin S]
  /\ UNCHANGED <<attempts, due>>

(***************************************************************************)
(* The publication pass                                                    *)
(***************************************************************************)

GoTo(p, step) == pass' = [pass EXCEPT ![p] = step]
Return(p)     == GoTo(p, "idle") /\ batch' = [batch EXCEPT ![p] = {}]
LoseLease     == faults < MaxFaults /\ faults' = faults + 1

\* The intake or reply transaction inserted the row.
InsertRow(m) ==
  /\ outbox[m] = "absent"
  /\ outbox' = [outbox EXCEPT ![m] = "pending"]
  /\ UNCHANGED <<attempts, due, stale, pass, batch, published, stolen, faults>>

\* FOR UPDATE SKIP LOCKED may pass over rows another statement has locked, so
\* a claim takes any claimable subset of at most Limit rows.
ClaimOutbox(p, S) ==
  /\ pass[p] = "idle"
  /\ S # {} /\ S \subseteq Claimable /\ Cardinality(S) <= Limit
  /\ ClaimRows(S)
  /\ batch' = [batch EXCEPT ![p] = S]
  /\ GoTo(p, IF S \cap Malformed # {} THEN "rejecting" ELSE "sending")
  /\ UNCHANGED <<published, faults>>

\* The claim committed and its answer never arrived: nobody holds the rows.
ClaimLost(p, S) ==
  /\ pass[p] = "idle"
  /\ S # {} /\ S \subseteq Claimable /\ Cardinality(S) <= Limit
  /\ ClaimRows(S)
  /\ LoseLease
  /\ UNCHANGED <<pass, batch, published>>

\* deadLetterEmailOutboxEvents for the rows that failed validation.
DeadLetterOutbox(p) ==
  /\ pass[p] = "rejecting"
  /\ DeadLetterRows(batch[p] \cap Malformed)
  /\ IF batch[p] \subseteq Malformed
       THEN Return(p)
       ELSE GoTo(p, "sending") /\ batch' = [batch EXCEPT ![p] = @ \ Malformed]
  /\ UNCHANGED <<published, stolen, faults>>

\* queue.sendBatch resolved: every job of the batch is in the queue.
SendBatch(p) ==
  /\ pass[p] = "sending"
  /\ published' = [m \in Message |-> published[m] \/ m \in batch[p]]
  /\ GoTo(p, "completing")
  /\ UNCHANGED <<rowVars, batch, stolen, faults>>

\* sendBatch stored the jobs and the answer was lost, so the pass sees an error.
SendBatchUnconfirmed(p) ==
  /\ pass[p] = "sending"
  /\ published' = [m \in Message |-> published[m] \/ m \in batch[p]]
  /\ GoTo(p, "failing")
  /\ UNCHANGED <<rowVars, batch, stolen, faults>>

SendBatchFails(p) ==
  /\ pass[p] = "sending"
  /\ GoTo(p, "failing")
  /\ UNCHANGED <<rowVars, batch, published, stolen, faults>>

CompleteOutbox(p) ==
  /\ pass[p] = "completing"
  /\ CompleteRows(batch[p])
  /\ Return(p)
  /\ UNCHANGED <<published, stolen, faults>>

\* The completion update threw, with or without having committed.
CompleteFails(p) ==
  /\ pass[p] = "completing"
  /\ CompleteRows(batch[p]) \/ UNCHANGED rowVars
  /\ GoTo(p, "failing")
  /\ UNCHANGED <<batch, published, stolen, faults>>

FailOutbox(p) ==
  /\ pass[p] = "failing"
  /\ FailRows(batch[p])
  /\ Return(p)
  /\ UNCHANGED <<published, stolen, faults>>

\* The invocation dies, or a dead-letter or fail update throws out of the pass.
Abandon(p) ==
  /\ pass[p] # "idle"
  /\ Return(p)
  /\ LoseLease
  /\ UNCHANGED <<rowVars, published, stolen>>

(***************************************************************************)
(* The passage of time                                                     *)
(***************************************************************************)

BecomesDue(m) ==
  /\ outbox[m] = "failed" /\ ~due[m]
  /\ due' = [due EXCEPT ![m] = TRUE]
  /\ UNCHANGED <<outbox, attempts, stale, pass, batch, published, stolen, faults>>

LeaseExpires(m) ==
  /\ outbox[m] = "processing" /\ ~stale[m]
  /\ stale' = [stale EXCEPT ![m] = TRUE]
  /\ UNCHANGED <<outbox, attempts, due, pass, batch, published, stolen, faults>>

\* The steps of a pass after its claim, whatever their outcome.
Proceed(p) ==
  \/ DeadLetterOutbox(p)
  \/ SendBatch(p) \/ SendBatchUnconfirmed(p) \/ SendBatchFails(p)
  \/ CompleteOutbox(p) \/ CompleteFails(p) \/ FailOutbox(p)

Next ==
  \/ \E m \in Message : InsertRow(m) \/ BecomesDue(m) \/ LeaseExpires(m)
  \/ \E p \in Publisher : Proceed(p) \/ Abandon(p)
  \/ \E p \in Publisher, S \in SUBSET Message : ClaimOutbox(p, S) \/ ClaimLost(p, S)

Spec == Init /\ [][Next]_vars

-----------------------------------------------------------------------------

\* Every variable has its type.
TypeOK ==
  /\ outbox    \in [Message -> RowStatus]
  /\ attempts  \in [Message -> 0..DeadLetterAttempts]
  /\ due       \in [Message -> BOOLEAN]
  /\ stale     \in [Message -> BOOLEAN]
  /\ pass      \in [Publisher -> PassStep]
  /\ batch     \in [Publisher -> SUBSET Message]
  /\ published \in [Message -> BOOLEAN]
  /\ stolen    \in [Message -> BOOLEAN]
  /\ faults    \in 0..MaxFaults

\* A settled row says what happened, whichever of several overlapping passes wrote
\* it: processed, a well-formed job is durably in the queue ("only after Cloudflare
\* confirms Queue persistence"); dead-lettered, the job is malformed or was given
\* up after the full number of claims, not one less.
ProcessedWasPublished ==
  \A m \in Message : outbox[m] = "processed" => published[m] /\ m \notin Malformed

DeadLetteredAfterAllAttempts ==
  \A m \in Message \ Malformed :
    outbox[m] = "dead_lettered" => attempts[m] = DeadLetterAttempts

\* How a row was settled says what happened to its job: handed to the queue, or
\* given up only after all its attempts.
SettledTruthfully == ProcessedWasPublished /\ DeadLetteredAfterAllAttempts

\* Two passes work on one row only after the row was taken from under an
\* expired lease: the SKIP LOCKED claim and the status test exclude the rest.
OneHolderUnlessStolen ==
  \A m \in Message, p, q \in Publisher :
    m \in batch[p] \cap batch[q] /\ ~stolen[m] => p = q

\* Once no pass holds a settled row it stays settled, unless it was stolen: the
\* closing updates do not test the status they overwrite, so a pass that lost
\* its lease can still reopen what its successor settled.
SettledUnlessStolen ==
  [][\A m \in Message :
       /\ outbox[m] \in Settled /\ ~stolen[m]
       /\ \A p \in Publisher : m \notin batch[p]
       => outbox'[m] = outbox[m]]_vars
=============================================================================
