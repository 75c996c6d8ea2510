----------------------------- MODULE RetryQueue -----------------------------
(***************************************************************************)
(* The retry queue of the admin PWA: operations kept in IndexedDB, which   *)
(* the tabs of one browser run again.  A claim is one readwrite            *)
(* transaction and gives a lease, but complete and fail read the item in   *)
(* one transaction and write it in another, and nothing looks at the lease *)
(* before an operation runs or is written back.                            *)
(*                                                                         *)
(* Times are reduced to whether they have passed: nextAttemptAt (due),     *)
(* leaseUntil (lapsed) and expiresAt (aged).                               *)
(***************************************************************************)
EXTENDS FiniteSets, Naturals

CONSTANTS
  Item,         \* retry items, by the id enqueue generates
  Automatic,    \* those of mode "automatic"
  Expiring,     \* a bound: the items that may reach their expiresAt
  Owner,
  OwnerOf,      \* ownerId of each item
  Tab,          \* tabs, each running one process() at a time
  None,         \* no item, or no owner
  Limit,        \* items of one claim
  MaxAttempts   \* maxAttempts of each item

ASSUME RetryAssumption ==
  /\ Automatic \subseteq Item /\ Expiring \subseteq Item /\ None \notin Item \cup Owner
  /\ OwnerOf \in [Item -> Owner]
  /\ Limit \in Nat \ {0} /\ MaxAttempts \in [Item -> Nat \ {0}]

VARIABLES
  status,     \* RetryStatus of the stored item, "absent" if it is not stored
  attempts,
  due, lapsed, aged,
  step,       \* where each tab is
  owner,      \* the owner a tab will claim for
  hand,       \* what it claimed and has not run yet
  item,       \* what it runs
  copy,       \* attempts of the item as fail read it
  willRetry,  \* error.retryable
  issued,     \* history: items that were enqueued
  runs,       \* history: executions begun
  successes,  \* history: executions that resolved, 2 for more
  overtaken,  \* history: items whose lease was released while a tab had them
  unrecorded, \* history: items whose success could not be recorded
  cleared     \* history: items clearOwner deleted

store == <<status, attempts, due, lapsed>>
tabs  == <<step, owner, hand, item, copy, willRetry>>
past  == <<issued, runs, successes, overtaken, unrecorded, cleared>>
vars  == <<status, attempts, due, lapsed, aged, step, owner, hand, item, copy, willRetry,
           issued, runs, successes, overtaken, unrecorded, cleared>>

RetryStatus == {"absent", "pending", "processing", "failed", "blocked", "dead"}
TabStep     == {"idle", "pruning", "claiming", "next", "executing", "completing",
                "deleting", "failing", "putting"}

Init ==
  /\ status    = [i \in Item |-> "absent"]
  /\ attempts  = [i \in Item |-> 0]
  /\ due       = [i \in Item |-> FALSE]
  /\ lapsed    = [i \in Item |-> FALSE]
  /\ aged      = {}
  /\ step      = [t \in Tab |-> "idle"]
  /\ owner     = [t \in Tab |-> None]
  /\ hand      = [t \in Tab |-> {}]
  /\ item      = [t \in Tab |-> None]
  /\ copy      = [t \in Tab |-> 0]
  /\ willRetry = [t \in Tab |-> FALSE]
  /\ issued = {} /\ overtaken = {} /\ unrecorded = {} /\ cleared = {}
  /\ runs      = [i \in Item |-> 0]
  /\ successes = [i \in Item |-> 0]

Stored == {i \in Item : status[i] # "absent"}

\* store.put of an item whose lease has ended.
Put(i, newStatus, n, isDue) ==
  /\ status'   = [status EXCEPT ![i] = newStatus]
  /\ attempts' = [attempts EXCEPT ![i] = n]
  /\ due'      = [due EXCEPT ![i] = isDue]
  /\ lapsed'   = [lapsed EXCEPT ![i] = FALSE]

Delete(S) ==
  /\ status'   = [i \in Item |-> IF i \in S THEN "absent" ELSE status[i]]
  /\ attempts' = [i \in Item |-> IF i \in S THEN 0 ELSE attempts[i]]
  /\ due'      = [i \in Item |-> i \notin S /\ due[i]]
  /\ lapsed'   = [i \in Item |-> i \notin S /\ lapsed[i]]

GoTo(t, s) == step' = [step EXCEPT ![t] = s] /\ UNCHANGED <<owner, hand, item, copy, willRetry>>

AfterItem(S) == IF S = {} THEN "idle" ELSE "next"

\* The tab is done with its item, and with the call after its last one.
Proceed(t) ==
  /\ step'      = [step EXCEPT ![t] = AfterItem(hand[t])]
  /\ item'      = [item EXCEPT ![t] = None]
  /\ copy'      = [copy EXCEPT ![t] = 0]
  /\ willRetry' = [willRetry EXCEPT ![t] = FALSE]
  /\ UNCHANGED <<owner, hand>>

(***************************************************************************)
(* Operations of one transaction                                           *)
(***************************************************************************)

Enqueue(i) ==
  /\ i \notin issued
  /\ issued' = issued \cup {i}
  /\ Put(i, "pending", 0, TRUE)
  /\ UNCHANGED <<aged, tabs, runs, successes, overtaken, unrecorded, cleared>>

\* Logout: everything the owner has is deleted.
ClearOwner(o) ==
  LET S == {i \in Stored : OwnerOf[i] = o} IN
  /\ S # {}
  /\ Delete(S)
  /\ cleared' = cleared \cup S
  /\ UNCHANGED <<aged, tabs, issued, runs, successes, overtaken, unrecorded>>

Held(i) == \E t \in Tab : i \in hand[t] \cup {item[t]}

\* process begins: the items of every owner whose lease is over are failed and
\* due at once, whatever their attempts.
ReleaseExpiredLeases(t, o) ==
  LET S == {i \in Item : status[i] = "processing" /\ lapsed[i]} IN
  /\ step[t] = "idle"
  /\ status'    = [i \in Item |-> IF i \in S THEN "failed" ELSE status[i]]
  /\ due'       = [i \in Item |-> i \in S \/ due[i]]
  /\ lapsed'    = [i \in Item |-> i \notin S /\ lapsed[i]]
  /\ overtaken' = overtaken \cup {i \in S : Held(i)}
  /\ step'      = [step EXCEPT ![t] = "pruning"]
  /\ owner'     = [owner EXCEPT ![t] = o]
  /\ UNCHANGED <<attempts, aged, hand, item, copy, willRetry, issued, runs, successes,
                 unrecorded, cleared>>

\* Expired items of every owner are deleted, those being processed included.
PruneExpired(t) ==
  /\ step[t] = "pruning"
  /\ Delete(aged)
  /\ GoTo(t, "claiming")
  /\ UNCHANGED <<aged, past>>

\* Mutant of Claimable: an item another tab is processing is claimed too.
ClaimableProcessing(i) == status[i] \in {"pending", "failed", "processing"}

Claimable(i) == status[i] \in {"pending", "failed"}

Ready(o, includeManual) ==
  {i \in Item \ aged : /\ OwnerOf[i] = o
                       /\ attempts[i] < MaxAttempts[i]
                       /\ includeManual \/ i \in Automatic
                       /\ Claimable(i) /\ due[i]}

Claim(t, S) ==
  /\ status'   = [i \in Item |-> IF i \in S THEN "processing" ELSE status[i]]
  /\ attempts' = [i \in Item |-> IF i \in S THEN attempts[i] + 1 ELSE attempts[i]]
  /\ lapsed'   = [i \in Item |-> i \notin S /\ lapsed[i]]
  /\ hand'     = [hand EXCEPT ![t] = S]
  /\ owner'    = [owner EXCEPT ![t] = None]
  /\ step'     = [step EXCEPT ![t] = AfterItem(S)]
  /\ UNCHANGED <<due, aged, item, copy, willRetry, past>>

\* The first Limit items by nextAttemptAt, whose order is left open.
Batches(o, includeManual) ==
  LET R == Ready(o, includeManual) IN
  {S \in SUBSET R : Cardinality(S) = Limit \/ (S = R /\ Cardinality(S) < Limit)}

\* process claims automatic items; a user may have manual ones claimed.
ClaimReady(t) ==
  \/ /\ step[t] = "claiming"
     /\ \E S \in Batches(owner[t], FALSE) : Claim(t, S)
  \/ /\ step[t] = "idle"
     /\ \E o \in Owner : \E S \in Batches(o, TRUE) \ {{}} : Claim(t, S)

(***************************************************************************)
(* The loop of process over what it claimed                                *)
(***************************************************************************)

Begin(t, i) ==
  /\ step[t] = "next" /\ i \in hand[t]
  /\ step' = [step EXCEPT ![t] = "executing"]
  /\ hand' = [hand EXCEPT ![t] = @ \ {i}]
  /\ item' = [item EXCEPT ![t] = i]
  /\ runs' = [runs EXCEPT ![i] = IF @ > MaxAttempts[i] THEN @ ELSE @ + 1]
  /\ UNCHANGED <<store, aged, owner, copy, willRetry, issued, successes, overtaken,
                 unrecorded, cleared>>

ExecuteResolves(t) ==
  /\ step[t] = "executing"
  /\ successes' = [successes EXCEPT ![item[t]] = IF @ < 2 THEN @ + 1 ELSE @]
  /\ GoTo(t, "completing")
  /\ UNCHANGED <<store, aged, issued, runs, overtaken, unrecorded, cleared>>

\* The catch clause: normalizeError decides whether the error is retryable.
Catch(t, retryable) ==
  /\ step'      = [step EXCEPT ![t] = "failing"]
  /\ willRetry' = [willRetry EXCEPT ![t] = retryable]
  /\ UNCHANGED <<owner, hand, item, copy>>

\* Mutant of ExecuteThrows: the rejection of execute is not awaited.
ExecuteThrowsUnnoticed(t, retryable) ==
  /\ step[t] = "executing"
  /\ GoTo(t, "completing")
  /\ UNCHANGED <<store, aged, past>>

ExecuteThrows(t, retryable) ==
  /\ step[t] = "executing"
  /\ Catch(t, retryable)
  /\ UNCHANGED <<store, aged, past>>

\* complete: read the item, then delete it in a second transaction.
CompleteReads(t) ==
  /\ step[t] = "completing"
  /\ IF status[item[t]] = "absent" THEN Proceed(t) ELSE GoTo(t, "deleting")
  /\ UNCHANGED <<store, aged, past>>

CompleteDeletes(t) ==
  /\ step[t] = "deleting"
  /\ Delete({item[t]})
  /\ Proceed(t)
  /\ UNCHANGED <<aged, past>>

\* Either transaction of complete throws inside the try clause: the operation
\* that succeeded is recorded as failed.
CompleteThrows(t, retryable) ==
  /\ step[t] \in {"completing", "deleting"}
  /\ Catch(t, retryable)
  /\ unrecorded' = unrecorded \cup {item[t]}
  /\ UNCHANGED <<store, aged, issued, runs, successes, overtaken, cleared>>

\* fail: read the item, then put a changed copy of it in a second transaction.
FailReads(t) ==
  /\ step[t] = "failing"
  /\ IF status[item[t]] = "absent"
       THEN Proceed(t)
       ELSE /\ step' = [step EXCEPT ![t] = "putting"]
            /\ copy' = [copy EXCEPT ![t] = attempts[item[t]]]
            /\ UNCHANGED <<owner, hand, item, willRetry>>
  /\ UNCHANGED <<store, aged, past>>

Verdict(t) ==
  IF ~willRetry[t] THEN "blocked" ELSE IF copy[t] >= MaxAttempts[item[t]] THEN "dead" ELSE "failed"

FailPuts(t) ==
  /\ step[t] = "putting"
  /\ Put(item[t], Verdict(t), copy[t], FALSE)
  /\ Proceed(t)
  /\ UNCHANGED <<aged, past>>

\* The tab is closed, or a transaction outside the try clause throws: what it
\* claimed stays processing until the lease is over.
Crash(t) ==
  /\ step[t] # "idle"
  /\ step'      = [step EXCEPT ![t] = "idle"]
  /\ owner'     = [owner EXCEPT ![t] = None]
  /\ hand'      = [hand EXCEPT ![t] = {}]
  /\ item'      = [item EXCEPT ![t] = None]
  /\ copy'      = [copy EXCEPT ![t] = 0]
  /\ willRetry' = [willRetry EXCEPT ![t] = FALSE]
  /\ unrecorded' = IF step[t] \in {"completing", "deleting"} THEN unrecorded \cup {item[t]}
                   ELSE unrecorded
  /\ UNCHANGED <<store, aged, issued, runs, successes, overtaken, cleared>>

(***************************************************************************)
(* Time                                                                    *)
(***************************************************************************)

BecomesDue(i) ==
  /\ i \in Stored /\ ~due[i]
  /\ due' = [due EXCEPT ![i] = TRUE]
  /\ UNCHANGED <<status, attempts, lapsed, aged, tabs, past>>

LeaseLapses(i) ==
  /\ status[i] = "processing" /\ ~lapsed[i]
  /\ lapsed' = [lapsed EXCEPT ![i] = TRUE]
  /\ UNCHANGED <<status, attempts, due, aged, tabs, past>>

Ages(i) ==
  /\ i \in (Stored \cap Expiring) \ aged
  /\ aged' = aged \cup {i}
  /\ UNCHANGED <<store, tabs, past>>

Next ==
  \/ \E i \in Item : Enqueue(i) \/ BecomesDue(i) \/ LeaseLapses(i) \/ Ages(i)
  \/ \E o \in Owner : ClearOwner(o)
  \/ \E t \in Tab, o \in Owner : ReleaseExpiredLeases(t, o)
  \/ \E t \in Tab, i \in Item : Begin(t, i)
  \/ \E t \in Tab :
       \/ PruneExpired(t) \/ ClaimReady(t)
       \/ ExecuteResolves(t) \/ CompleteReads(t) \/ CompleteDeletes(t)
       \/ FailReads(t) \/ FailPuts(t) \/ Crash(t)
  \/ \E t \in Tab, retryable \in BOOLEAN : ExecuteThrows(t, retryable) \/ CompleteThrows(t, retryable)

Spec == Init /\ [][Next]_vars

-----------------------------------------------------------------------------

\* Every variable has its type.
TypeOK ==
  /\ status    \in [Item -> RetryStatus]
  /\ attempts  \in [Item -> Nat] /\ \A i \in Item : attempts[i] <= MaxAttempts[i]
  /\ runs      \in [Item -> Nat] /\ \A i \in Item : runs[i] <= MaxAttempts[i] + 1
  /\ due       \in [Item -> BOOLEAN]
  /\ lapsed    \in [Item -> BOOLEAN]
  /\ step      \in [Tab -> TabStep]
  /\ owner     \in [Tab -> Owner \cup {None}]
  /\ hand      \in [Tab -> SUBSET Item]
  /\ item      \in [Tab -> Item \cup {None}]
  /\ copy      \in [Tab -> Nat]
  /\ willRetry \in [Tab -> BOOLEAN]
  /\ successes \in [Item -> 0..2]
  /\ {aged, issued, overtaken, unrecorded, cleared} \subseteq SUBSET Item

\* The lease is "the minimum duplicate guard": an operation succeeds twice only
\* if its lease ran out in a tab's hands or its first success was not recorded,
\* and it runs more often than its attempts allow, over all tabs and crashes,
\* only if a tab whose lease ran out wrote an older count back.
SucceedsOnce ==
  \A i \in Item :
    /\ successes[i] > 1 => i \in overtaken \cup unrecorded
    /\ runs[i] > MaxAttempts[i] => i \in overtaken

\* A blocked or dead item waits for the user: no tab runs it again or gives it
\* another status, unless a tab whose lease ran out did.
FinishedStays ==
  [][\A i \in Item : status[i] \in {"blocked", "dead"} /\ i \notin overtaken =>
       status'[i] \in {status[i], "absent"}]_vars

\* No operation disappears: an item is stored until it succeeded, expired or was
\* cleared with everything else of its owner.
NothingVanishes ==
  \A i \in issued : status[i] = "absent" => successes[i] > 0 \/ i \in aged \cup cleared

\* Records "should be cleared on logout": what clearOwner deleted stays deleted.
ClearedIsGone == \A i \in cleared : status[i] = "absent"
=============================================================================
