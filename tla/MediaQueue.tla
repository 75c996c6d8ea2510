------------------------------ MODULE MediaQueue ------------------------------
(***************************************************************************)
(* The consumer of the media queue: every message of a batch is parsed,    *)
(* processed and settled by itself, in order.                              *)
(*                                                                         *)
(* The queue counts deliveries, applies the verdicts of an invocation when *)
(* it returns, and puts a message that has used up its retries in a        *)
(* dead-letter queue.  An invocation may be ended early, which loses the   *)
(* verdicts it has given, or keeps them.  The processor is a port without  *)
(* an implementation: it may throw, before or after it took effect.        *)
(***************************************************************************)
EXTENDS Integers, Sequences, FiniteSets, SequencesExt

CONSTANTS
  Job,         \* messages of the queue
  Spoiled,     \* those whose body is no media job
  Invocation,  \* invocations of the consumer that may run at once
  BatchSize,   \* max_batch_size
  MaxRetries,  \* max_retries
  MaxDeaths    \* bound: invocations that are ended early

ASSUME MediaAssumption ==
  /\ Spoiled \subseteq Job
  /\ BatchSize \in Nat /\ MaxRetries \in Nat /\ MaxDeaths \in Nat

VARIABLES
  place,       \* where a message is: "queued", "held", "gone" (acknowledged) or "dead"
  deliveries,  \* deliveries of each message
  given,       \* the messages each invocation was given
  next,        \* the index of the one it is at
  verdict,     \* what it has said of them: "none", "ack" or "retry"
  effects,     \* history: how often a job was carried out
  troubled,    \* history: how often a job failed itself, or was held by an invocation that died
  deaths

mediaVars == <<place, deliveries, given, next, verdict, effects, troubled, deaths>>

MediaInit ==
  /\ place      = [m \in Job |-> "queued"]
  /\ deliveries = [m \in Job |-> 0]
  /\ given      = [w \in Invocation |-> <<>>]
  /\ next       = [w \in Invocation |-> 1]
  /\ verdict    = [m \in Job |-> "none"]
  /\ effects    = [m \in Job |-> 0]
  /\ troubled   = [m \in Job |-> 0]
  /\ deaths     = 0

\* The queue hands a batch to an idle consumer.
HandOver(w, messages) ==
  /\ given[w] = <<>>
  /\ messages # {} /\ IsFiniteSet(messages) /\ Cardinality(messages) <= BatchSize
  /\ \A m \in messages : place[m] = "queued"
  /\ \E order \in SetToSeqs(messages) : given' = [given EXCEPT ![w] = order]
  /\ next' = [next EXCEPT ![w] = 1]
  /\ place'    = [m \in Job |-> IF m \in messages THEN "held" ELSE place[m]]
  /\ deliveries' = [m \in Job |-> IF m \in messages THEN deliveries[m] + 1 ELSE deliveries[m]]
  /\ UNCHANGED <<verdict, effects, troubled, deaths>>

At(w, m) == next[w] <= Len(given[w]) /\ m = given[w][next[w]]

\* The loop goes on with the next message of the batch.
Say(w, m, what) ==
  /\ verdict' = [verdict EXCEPT ![m] = what]
  /\ next' = [next EXCEPT ![w] = @ + 1]
  /\ UNCHANGED <<place, deliveries, given, deaths>>

Reject(w, m) ==
  /\ At(w, m) /\ m \in Spoiled
  /\ Say(w, m, "ack")
  /\ UNCHANGED <<effects, troubled>>

ProcessMedia(w, m) ==
  /\ At(w, m) /\ m \notin Spoiled
  /\ effects' = [effects EXCEPT ![m] = @ + 1]
  /\ Say(w, m, "ack")
  /\ UNCHANGED troubled

\* batch.retryAll() in place of message.retry(): what was acknowledged before is retried too.
FailRetriesBatch(w, m, tookEffect) ==
  /\ At(w, m) /\ m \notin Spoiled
  /\ effects'  = [effects EXCEPT ![m] = @ + IF tookEffect THEN 1 ELSE 0]
  /\ troubled' = [troubled EXCEPT ![m] = @ + 1]
  /\ verdict' = [c \in Job |-> IF c \in ToSet(given[w]) THEN "retry" ELSE verdict[c]]
  /\ next' = [next EXCEPT ![w] = @ + 1]
  /\ UNCHANGED <<place, deliveries, given, deaths>>

\* The processor throws: the message, and no other, is retried later.
Fail(w, m, tookEffect) ==
  /\ At(w, m) /\ m \notin Spoiled
  /\ effects'  = [effects EXCEPT ![m] = @ + IF tookEffect THEN 1 ELSE 0]
  /\ troubled' = [troubled EXCEPT ![m] = @ + 1]
  /\ Say(w, m, "retry")

Fate(m, heard) ==
  IF m \in heard THEN "gone" ELSE IF deliveries[m] > MaxRetries THEN "dead" ELSE "queued"

\* What the queue does with the messages of an invocation that has ended.
Settle(w, heard) ==
  /\ place' = [m \in Job |-> IF m \in ToSet(given[w]) THEN Fate(m, heard) ELSE place[m]]
  /\ verdict' = [m \in Job |-> IF m \in ToSet(given[w]) THEN "none" ELSE verdict[m]]
  /\ given' = [given EXCEPT ![w] = <<>>]
  /\ next' = [next EXCEPT ![w] = 1]
  /\ UNCHANGED deliveries

Acknowledged(w) == {m \in ToSet(given[w]) : verdict[m] = "ack"}

Return(w) ==
  /\ given[w] # <<>> /\ next[w] > Len(given[w])
  /\ Settle(w, Acknowledged(w))
  /\ UNCHANGED <<effects, troubled, deaths>>

\* The invocation ends before its time, perhaps with a job carried out and not acknowledged.
Die(w, verdictsKept, tookEffect) ==
  /\ given[w] # <<>> /\ deaths < MaxDeaths
  /\ deaths' = deaths + 1
  /\ Settle(w, IF verdictsKept THEN Acknowledged(w) ELSE {})
  /\ troubled' = [m \in Job |-> IF m \in ToSet(given[w]) /\ verdict[m] # "retry"
                                   THEN troubled[m] + 1 ELSE troubled[m]]
  /\ IF tookEffect
     THEN \E m \in Job \ Spoiled : At(w, m) /\ effects' = [effects EXCEPT ![m] = @ + 1]
     ELSE UNCHANGED effects

MediaNext ==
  \E w \in Invocation :
    \/ \E messages \in SUBSET Job : HandOver(w, messages)
    \/ \E m \in Job : Reject(w, m) \/ ProcessMedia(w, m) \/ \E b \in BOOLEAN : Fail(w, m, b)
    \/ Return(w)
    \/ \E kept, b \in BOOLEAN : Die(w, kept, b)

MediaSpec == MediaInit /\ [][MediaNext]_mediaVars

-----------------------------------------------------------------------------

MediaTypeOK ==
  /\ place \in [Job -> {"queued", "held", "gone", "dead"}]
  /\ deliveries \in [Job -> 0..(MaxRetries + 1)]
  /\ given \in [Invocation -> UNION {[1..n -> Job] : n \in 0..BatchSize}]
  /\ next \in [Invocation -> 1..(BatchSize + 1)]
  /\ verdict \in [Job -> {"none", "ack", "retry"}]
  /\ effects \in [Job -> Nat] /\ troubled \in [Job -> Nat] /\ deaths \in 0..MaxDeaths

\* "Handles media messages independently so one failure does not retry the full
\* batch": a job leaves the queue only when it was carried out or has failed every
\* delivery, and is carried out again only after trouble of its own.
JobsSettledApart ==
  \A m \in Job \ Spoiled :
    /\ place[m] = "gone" => effects[m] > 0
    /\ place[m] = "dead" => deliveries[m] = MaxRetries + 1 /\ troubled[m] = deliveries[m]
    /\ effects[m] <= 1 + troubled[m]
=============================================================================
