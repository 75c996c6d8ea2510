--------------------------- MODULE BrowserProofs ---------------------------
(***************************************************************************)
(* Proofs about what runs in a browser.  RetryQueue, for any items, owners *)
(* and tabs, in whatever order tabs run, crash and lose their leases;      *)
(* then InstallPrompt, PwaClient, PwaCaching and SiteShell, for any number *)
(* of calls, tabs, builds, cached responses, documents and starts.         *)
(***************************************************************************)
EXTENDS RetryQueue, PwaClient, InstallPrompt, PwaCaching, SiteShell, FiniteSetTheorems, TLAPS

USE RetryAssumption DEF RetryAssumption, RetryStatus, TabStep

-----------------------------------------------------------------------------
(* Type correctness.                                                       *)
-----------------------------------------------------------------------------

AtWork == {"executing", "completing", "deleting", "failing", "putting"}

\* A tab has an item while it works on one, more of its claim only behind the claim,
\* and a copy it may write back.
Tabs ==
  \A t \in Tab :
    /\ step[t] \in AtWork => item[t] \in Item
    /\ step[t] \notin AtWork => item[t] = None
    /\ step[t] \in {"idle", "pruning", "claiming"} => hand[t] = {}
    /\ step[t] = "putting" => copy[t] <= MaxAttempts[item[t]]

TypeInv == TypeOK /\ Tabs

\* What a claim takes.
LEMMA Claimed ==
  ASSUME TypeInv, NEW t \in Tab, ClaimReady(t)
  PROVE  /\ step[t] \in {"idle", "claiming"}
         /\ \E S \in SUBSET Item :
              /\ Claim(t, S)
              /\ \A i \in S : status[i] \in {"pending", "failed"} /\ attempts[i] < MaxAttempts[i]
BY DEF ClaimReady, Batches, Ready, Claimable

TabsType ==
  /\ step      \in [Tab -> TabStep]
  /\ owner     \in [Tab -> Owner \cup {None}]
  /\ hand      \in [Tab -> SUBSET Item]
  /\ item      \in [Tab -> Item \cup {None}]
  /\ copy      \in [Tab -> Nat]
  /\ willRetry \in [Tab -> BOOLEAN]

\* What is left of a tab that is done with an item.
LEMMA Proceeds ==
  ASSUME TabsType, Tabs, NEW t \in Tab, Proceed(t)
  PROVE  TabsType' /\ Tabs'
<1>1. TabsType'
  BY DEF TabsType, Proceed, AfterItem
<1>2. /\ step'[t] \in {"idle", "next"} /\ item'[t] = None /\ hand'[t] = hand[t]
      /\ step'[t] = "idle" => hand[t] = {}
  BY DEF TabsType, Proceed, AfterItem
<1>3. \A u \in Tab \ {t} : /\ step'[u] = step[u] /\ item'[u] = item[u] /\ hand'[u] = hand[u]
                           /\ copy'[u] = copy[u]
  BY DEF TabsType, Proceed
<1> QED
  BY <1>1, <1>2, <1>3 DEF Tabs, AtWork

\* Every step of every tab keeps the types.
LEMMA StepType == TypeInv /\ [Next]_vars => TypeInv'
<1> SUFFICES ASSUME TypeInv, [Next]_vars
             PROVE  TypeInv'
  OBVIOUS
<1> USE DEF TypeInv, TypeOK, Tabs, AtWork, store, tabs, past, Put, Delete, GoTo, AfterItem, Proceed
<1>1. ASSUME NEW i \in Item, Enqueue(i) \/ BecomesDue(i) \/ LeaseLapses(i) \/ Ages(i)
      PROVE  TypeInv'
  <2>1. CASE Enqueue(i)
    BY <2>1 DEF Enqueue
  <2>2. CASE BecomesDue(i)
    BY <2>2 DEF BecomesDue
  <2>3. CASE LeaseLapses(i)
    BY <2>3 DEF LeaseLapses
  <2>4. CASE Ages(i)
    BY <2>4 DEF Ages
  <2> QED
    BY <1>1, <2>1, <2>2, <2>3, <2>4
<1>2. ASSUME NEW o \in Owner, ClearOwner(o)
      PROVE  TypeInv'
  BY <1>2 DEF ClearOwner, Stored
<1>3. ASSUME NEW t \in Tab, NEW o \in Owner, ReleaseExpiredLeases(t, o)
      PROVE  TypeInv'
  BY <1>3 DEF ReleaseExpiredLeases
<1>4. ASSUME NEW t \in Tab, NEW i \in Item, Begin(t, i)
      PROVE  TypeInv'
  BY <1>4 DEF Begin
<1>5. ASSUME NEW t \in Tab, PruneExpired(t)
      PROVE  TypeInv'
  BY <1>5 DEF PruneExpired
<1>6. ASSUME NEW t \in Tab, ClaimReady(t)
      PROVE  TypeInv'
  <2>1. PICK S \in SUBSET Item :
          /\ Claim(t, S)
          /\ \A i \in S : status[i] \in {"pending", "failed"} /\ attempts[i] < MaxAttempts[i]
    BY <1>6, Claimed
  <2>2. step[t] \in {"idle", "claiming"}
    BY <1>6, Claimed
  <2> QED
    BY <2>1, <2>2 DEF Claim
<1>7. ASSUME NEW t \in Tab, ExecuteResolves(t) \/ CompleteReads(t) \/ CompleteDeletes(t)
      PROVE  TypeInv'
  <2>1. CASE ExecuteResolves(t)
    BY <2>1 DEF ExecuteResolves
  <2>2. CASE CompleteReads(t)
    <3>1. CASE status[item[t]] = "absent"
      <4>1. Proceed(t) /\ UNCHANGED <<store, aged, past>>
        BY <2>2, <3>1 DEF CompleteReads
      <4>2. TabsType' /\ Tabs'
        BY <4>1, Proceeds DEF TabsType
      <4> QED
        BY <4>1, <4>2 DEF TabsType
    <3>2. CASE status[item[t]] # "absent"
      BY <2>2, <3>2 DEF CompleteReads
    <3> QED
      BY <3>1, <3>2
  <2>3. CASE CompleteDeletes(t)
    BY <2>3 DEF CompleteDeletes
  <2> QED
    BY <1>7, <2>1, <2>2, <2>3
<1>8. ASSUME NEW t \in Tab, FailReads(t)
      PROVE  TypeInv'
  <2>1. CASE status[item[t]] = "absent"
    <3>1. Proceed(t) /\ UNCHANGED <<store, aged, past>>
      BY <1>8, <2>1 DEF FailReads
    <3>2. TabsType' /\ Tabs'
      BY <3>1, Proceeds DEF TabsType
    <3> QED
      BY <3>1, <3>2 DEF TabsType
  <2>2. CASE status[item[t]] # "absent"
    BY <1>8, <2>2 DEF FailReads
  <2> QED
    BY <2>1, <2>2
<1>9. ASSUME NEW t \in Tab, FailPuts(t)
      PROVE  TypeInv'
  BY <1>9 DEF FailPuts, Verdict
<1>10. ASSUME NEW t \in Tab, Crash(t)
      PROVE  TypeInv'
  BY <1>10 DEF Crash
<1>11. ASSUME NEW t \in Tab, NEW retryable \in BOOLEAN,
              ExecuteThrows(t, retryable) \/ CompleteThrows(t, retryable)
      PROVE  TypeInv'
  BY <1>11 DEF ExecuteThrows, CompleteThrows, Catch
<1>12. CASE UNCHANGED vars
  BY <1>12 DEF vars
<1> QED
  BY <1>1, <1>2, <1>3, <1>4, <1>5, <1>6, <1>7, <1>8, <1>9, <1>10, <1>11, <1>12 DEF Next

\* Every reachable state of the queue has its type.
THEOREM TypeCorrect == Spec => []TypeOK
<1>1. Init => TypeInv
  BY DEF Init, TypeInv, TypeOK, Tabs, AtWork
<1>2. TypeInv => TypeOK
  BY DEF TypeInv
<1> QED
  BY <1>1, <1>2, StepType, PTL DEF Spec

-----------------------------------------------------------------------------
(* What a lease gives, for the items whose lease was never released while  *)
(* a tab had them.                                                         *)
-----------------------------------------------------------------------------

With(t) == hand[t] \cup {item[t]}

\* One tab has the item, once, and meanwhile it is processing or was deleted.
Exclusive ==
  \A i \in Item \ overtaken :
    /\ \A t, u \in Tab : i \in With(t) /\ i \in With(u) => t = u
    /\ \A t \in Tab : i \in With(t) => status[i] \in {"processing", "absent"}
    /\ \A t \in Tab : i \in hand[t] => i # item[t]

\* The stored count includes every run, and the one to come of a claimed item.
Counted ==
  \A i \in Item \ overtaken :
    /\ runs[i] <= MaxAttempts[i]
    /\ status[i] # "absent" => runs[i] <= attempts[i]
    /\ \A t \in Tab :
         /\ i \in hand[t] => /\ runs[i] < MaxAttempts[i]
                             /\ status[i] # "absent" => runs[i] < attempts[i]
         /\ step[t] = "putting" /\ item[t] = i => runs[i] <= copy[t]

\* An item that succeeded is about to be deleted, or is gone for good.
Succeeded ==
  /\ \A i \in Item \ (overtaken \cup unrecorded) :
       /\ successes[i] <= 1
       /\ successes[i] = 1 =>
            \/ \E t \in Tab : item[t] = i /\ step[t] \in {"completing", "deleting"}
            \/ status[i] = "absent" /\ \A t \in Tab : i \notin With(t)
  /\ \A t \in Tab : step[t] \in {"completing", "deleting"} => successes[item[t]] > 0

\* Only what was enqueued is stored or with a tab, and it is stored until it may go.
Accounted ==
  /\ \A i \in Item : status[i] # "absent" => i \in issued
  /\ \A i \in Item \ issued : runs[i] = 0 /\ successes[i] = 0
  /\ \A i \in Item, t \in Tab : i \in With(t) => i \in issued
  /\ NothingVanishes

Inv == TypeInv /\ Exclusive /\ Counted /\ Succeeded /\ Accounted

\* Every step of every tab keeps the invariant.
LEMMA StepInv == Inv /\ [Next]_vars => Inv'
<1> SUFFICES ASSUME Inv, [Next]_vars
             PROVE  Inv'
  OBVIOUS
<1>0. TypeInv'
  BY StepType DEF Inv
<1> USE DEF Inv, TypeInv, TypeOK, Tabs, AtWork, Exclusive, Counted, Succeeded, Accounted, NothingVanishes,
            With, store, tabs, past, Put, Delete, GoTo, AfterItem, Proceed
<1>1. ASSUME NEW i \in Item, Enqueue(i)
      PROVE  Inv'
  <2>1. Exclusive'
    BY <1>1 DEF Enqueue
  <2>2. Counted'
    BY <1>1 DEF Enqueue
  <2>3. Succeeded'
    BY <1>1 DEF Enqueue
  <2>4. Accounted'
    BY <1>1 DEF Enqueue
  <2> QED
    BY <1>0, <2>1, <2>2, <2>3, <2>4 DEF Inv
<1>2. ASSUME NEW i \in Item, BecomesDue(i) \/ LeaseLapses(i) \/ Ages(i)
      PROVE  Inv'
  <2>1. Exclusive'
    BY <1>2 DEF BecomesDue, LeaseLapses, Ages
  <2>2. Counted'
    BY <1>2 DEF BecomesDue, LeaseLapses, Ages
  <2>3. Succeeded'
    BY <1>2 DEF BecomesDue, LeaseLapses, Ages
  <2>4. Accounted'
    BY <1>2 DEF BecomesDue, LeaseLapses, Ages
  <2> QED
    BY <1>0, <2>1, <2>2, <2>3, <2>4 DEF Inv
<1>3. ASSUME NEW o \in Owner, ClearOwner(o)
      PROVE  Inv'
  <2>1. Exclusive'
    BY <1>3 DEF ClearOwner, Stored
  <2>2. Counted'
    BY <1>3 DEF ClearOwner, Stored
  <2>3. Succeeded'
    BY <1>3 DEF ClearOwner, Stored
  <2>4. Accounted'
    BY <1>3 DEF ClearOwner, Stored
  <2> QED
    BY <1>0, <2>1, <2>2, <2>3, <2>4 DEF Inv
<1>4. ASSUME NEW t \in Tab, NEW o \in Owner, ReleaseExpiredLeases(t, o)
      PROVE  Inv'
  <2>1. Exclusive'
    BY <1>4 DEF ReleaseExpiredLeases, Held
  <2>2. Counted'
    BY <1>4 DEF ReleaseExpiredLeases
  <2>3. Succeeded'
    BY <1>4 DEF ReleaseExpiredLeases
  <2>4. Accounted'
    BY <1>4 DEF ReleaseExpiredLeases
  <2> QED
    BY <1>0, <2>1, <2>2, <2>3, <2>4 DEF Inv
<1>5. ASSUME NEW t \in Tab, NEW i \in Item, Begin(t, i)
      PROVE  Inv'
  <2>1. Exclusive'
    BY <1>5 DEF Begin
  <2>2. Counted'
    BY <1>5 DEF Begin
  <2>3. Succeeded'
    BY SMTT(60), <1>5 DEF Begin
  <2>4. Accounted'
    BY <1>5 DEF Begin
  <2> QED
    BY <1>0, <2>1, <2>2, <2>3, <2>4 DEF Inv
<1>6. ASSUME NEW t \in Tab, PruneExpired(t)
      PROVE  Inv'
  <2>1. Exclusive'
    BY <1>6 DEF PruneExpired
  <2>2. Counted'
    BY <1>6 DEF PruneExpired
  <2>3. Succeeded'
    BY <1>6 DEF PruneExpired
  <2>4. Accounted'
    BY <1>6 DEF PruneExpired
  <2> QED
    BY <1>0, <2>1, <2>2, <2>3, <2>4 DEF Inv
<1>7. ASSUME NEW t \in Tab, ExecuteResolves(t)
      PROVE  Inv'
  <2>1. Exclusive'
    BY <1>7 DEF ExecuteResolves
  <2>2. Counted'
    BY <1>7 DEF ExecuteResolves
  <2>3. Succeeded'
    BY <1>7 DEF ExecuteResolves
  <2>4. Accounted'
    <3>1. /\ UNCHANGED <<status, hand, item, issued, runs, aged, cleared>>
          /\ successes' = [successes EXCEPT ![item[t]] = IF @ < 2 THEN @ + 1 ELSE @]
          /\ item[t] \in Item /\ item[t] \in With(t)
      BY <1>7 DEF ExecuteResolves
    <3>2. \A i \in Item : successes[i] > 0 => successes'[i] > 0
      BY <3>1
    <3>3. \A i \in Item \ issued : i # item[t]
      BY <3>1
    <3> QED
      BY <3>1, <3>2, <3>3
  <2> QED
    BY <1>0, <2>1, <2>2, <2>3, <2>4 DEF Inv
<1>8. ASSUME NEW t \in Tab, CompleteReads(t)
      PROVE  Inv'
  <2>1. Exclusive'
    BY <1>8 DEF CompleteReads
  <2>2. Counted'
    BY <1>8 DEF CompleteReads
  <2>3. Succeeded'
    <3>1. CASE status[item[t]] = "absent"
      <4>1. Proceed(t) /\ UNCHANGED <<status, successes, overtaken, unrecorded>>
        BY <1>8, <3>1 DEF CompleteReads
      <4> QED
        BY <1>8, <3>1, <4>1 DEF CompleteReads
    <3>2. CASE status[item[t]] # "absent"
      BY <1>8, <3>2 DEF CompleteReads
    <3> QED
      BY <3>1, <3>2
  <2>4. Accounted'
    BY <1>8 DEF CompleteReads
  <2> QED
    BY <1>0, <2>1, <2>2, <2>3, <2>4 DEF Inv
<1>9. ASSUME NEW t \in Tab, CompleteDeletes(t)
      PROVE  Inv'
  <2>1. Exclusive'
    BY <1>9 DEF CompleteDeletes
  <2>2. Counted'
    BY <1>9 DEF CompleteDeletes
  <2>3. Succeeded'
    BY <1>9 DEF CompleteDeletes
  <2>4. Accounted'
    BY <1>9 DEF CompleteDeletes
  <2> QED
    BY <1>0, <2>1, <2>2, <2>3, <2>4 DEF Inv
<1>10. ASSUME NEW t \in Tab, FailReads(t)
      PROVE  Inv'
  <2>1. Exclusive'
    BY <1>10 DEF FailReads
  <2>2. Counted'
    BY <1>10 DEF FailReads
  <2>3. Succeeded'
    <3>1. CASE status[item[t]] = "absent"
      <4>1. Proceed(t) /\ UNCHANGED <<status, successes, overtaken, unrecorded>>
        BY <1>10, <3>1 DEF FailReads
      <4> QED
        BY <1>10, <3>1, <4>1 DEF FailReads
    <3>2. CASE status[item[t]] # "absent"
      BY <1>10, <3>2 DEF FailReads
    <3> QED
      BY <3>1, <3>2
  <2>4. Accounted'
    BY <1>10 DEF FailReads
  <2> QED
    BY <1>0, <2>1, <2>2, <2>3, <2>4 DEF Inv
<1>11. ASSUME NEW t \in Tab, FailPuts(t)
      PROVE  Inv'
  <2>1. Exclusive'
    BY <1>11 DEF FailPuts, Verdict
  <2>2. Counted'
    BY <1>11 DEF FailPuts, Verdict
  <2>3. Succeeded'
    <3>1. /\ step[t] = "putting" /\ item[t] \in Item /\ Proceed(t)
          /\ \A i \in Item : i # item[t] => status'[i] = status[i]
          /\ UNCHANGED <<successes, overtaken, unrecorded>>
      BY <1>11 DEF FailPuts
    <3>2. item[t] \in overtaken \cup unrecorded \/ successes[item[t]] # 1
      BY <3>1
    <3>3. \A u \in Tab : step'[u] \in {"completing", "deleting"} => step[u] = step'[u] /\ item'[u] = item[u]
      BY <3>1
    <3>4. \A u \in Tab : u # t => step'[u] = step[u] /\ item'[u] = item[u] /\ hand'[u] = hand[u]
      BY <3>1
    <3>5. item'[t] = None /\ hand'[t] = hand[t]
      BY <3>1
    <3>6. ASSUME NEW i \in Item \ (overtaken' \cup unrecorded'), successes'[i] = 1
          PROVE  \/ \E u \in Tab : item'[u] = i /\ step'[u] \in {"completing", "deleting"}
                 \/ status'[i] = "absent" /\ \A u \in Tab : i \notin With(u)'
      <4>1. i # item[t] /\ status'[i] = status[i] /\ i # None
        BY <3>1, <3>2, <3>6
      <4>2. CASE \E u \in Tab : item[u] = i /\ step[u] \in {"completing", "deleting"}
        BY <3>1, <3>4, <4>2
      <4>3. CASE status[i] = "absent" /\ \A u \in Tab : i \notin With(u)
        BY <3>4, <3>5, <4>1, <4>3
      <4> QED
        BY <3>1, <3>6, <4>2, <4>3
    <3>7. \A i \in Item \ (overtaken' \cup unrecorded') : successes'[i] <= 1
      BY <3>1
    <3>8. \A u \in Tab : step'[u] \in {"completing", "deleting"} => successes'[item'[u]] > 0
      BY <3>1, <3>3
    <3> HIDE DEF Proceed, With
    <3> QED
      BY <3>6, <3>7, <3>8
  <2>4. Accounted'
    BY <1>11 DEF FailPuts, Verdict
  <2> QED
    BY <1>0, <2>1, <2>2, <2>3, <2>4 DEF Inv
<1>12. ASSUME NEW t \in Tab, Crash(t)
      PROVE  Inv'
  <2>1. Exclusive'
    BY <1>12 DEF Crash
  <2>2. Counted'
    BY <1>12 DEF Crash
  <2>3. Succeeded'
    BY <1>12 DEF Crash
  <2>4. Accounted'
    BY <1>12 DEF Crash
  <2> QED
    BY <1>0, <2>1, <2>2, <2>3, <2>4 DEF Inv
<1>13. ASSUME NEW t \in Tab, NEW retryable \in BOOLEAN,
              ExecuteThrows(t, retryable) \/ CompleteThrows(t, retryable)
      PROVE  Inv'
  <2>1. Exclusive'
    BY <1>13 DEF ExecuteThrows, CompleteThrows, Catch
  <2>2. Counted'
    BY <1>13 DEF ExecuteThrows, CompleteThrows, Catch
  <2>3. Succeeded'
    BY SMTT(60), <1>13 DEF ExecuteThrows, CompleteThrows, Catch
  <2>4. Accounted'
    BY <1>13 DEF ExecuteThrows, CompleteThrows, Catch
  <2> QED
    BY <1>0, <2>1, <2>2, <2>3, <2>4 DEF Inv
<1>14. ASSUME NEW t \in Tab, ClaimReady(t)
      PROVE  Inv'
  <2>1. PICK S \in SUBSET Item :
          /\ Claim(t, S)
          /\ \A i \in S : status[i] \in {"pending", "failed"} /\ attempts[i] < MaxAttempts[i]
    BY <1>14, Claimed DEF Inv
  <2>2. step[t] \in {"idle", "claiming"} /\ hand[t] = {} /\ item[t] = None
    BY <1>14, Claimed DEF Inv
  <2>3. Exclusive'
    BY <2>1, <2>2 DEF Claim
  <2>4. Counted'
    BY SMTT(60), <2>1, <2>2 DEF Claim
  <2>5. Succeeded'
    BY <2>1, <2>2 DEF Claim
  <2>6. Accounted'
    <3>1. \A i \in Item : status'[i] # "absent" <=> status[i] # "absent"
      BY <2>1 DEF Claim
    <3>2. \A i \in Item, u \in Tab : i \in With(u)' => i \in With(u) \/ i \in S
      BY <2>1 DEF Claim
    <3>3. UNCHANGED <<issued, runs, successes, aged, cleared>>
      BY <2>1 DEF Claim
    <3> QED
      BY <2>1, <3>1, <3>2, <3>3
  <2> QED
    BY <1>0, <2>3, <2>4, <2>5, <2>6 DEF Inv
<1>15. CASE UNCHANGED vars
  BY <1>0, <1>15 DEF Inv, vars
<1> HIDE DEF Inv, TypeInv, TypeOK, Tabs, AtWork, Exclusive, Counted, Succeeded, Accounted
<1> QED
  BY <1>1, <1>2, <1>3, <1>4, <1>5, <1>6, <1>7, <1>8, <1>9, <1>10, <1>11, <1>12, <1>13, <1>14, <1>15 DEF Next

\* The invariant of the retry queue holds throughout.
LEMMA AlwaysInv == Spec => []Inv
<1>1. Init => Inv
  BY DEF Init, Inv, TypeInv, TypeOK, Tabs, AtWork, Exclusive, Counted, Succeeded, Accounted,
         NothingVanishes, With
<1> QED
  BY <1>1, StepInv, PTL DEF Spec

\* An operation succeeds twice, or runs more often than its attempts allow, only if
\* its lease ran out in a tab's hands or a success was not recorded.
THEOREM LeaseGuards == Spec => []SucceedsOnce
<1>1. Inv => SucceedsOnce
  BY DEF Inv, TypeInv, TypeOK, Counted, Succeeded, SucceedsOnce
<1> QED
  BY <1>1, AlwaysInv, PTL

\* No operation disappears before it succeeded, expired or was cleared.
THEOREM NothingIsLost == Spec => []NothingVanishes
<1>1. Inv => NothingVanishes
  BY DEF Inv, Accounted
<1> QED
  BY <1>1, AlwaysInv, PTL

\* A finished item is final while leases are kept: only its deletion changes it.
THEOREM FinishedIsFinal == Spec => FinishedStays
<1> DEFINE Final == \A i \in Item : status[i] \in {"blocked", "dead"} /\ i \notin overtaken =>
                      status'[i] \in {status[i], "absent"}
<1>1. ASSUME Inv, [Next]_vars
      PROVE  Final
  <2> SUFFICES ASSUME NEW i \in Item, status[i] \in {"blocked", "dead"}, i \notin overtaken
               PROVE  status'[i] \in {status[i], "absent"}
    OBVIOUS
  <2> USE <1>1 DEF Inv, TypeInv, TypeOK, Put, Delete, store
  <2>1. i \in issued /\ \A t \in Tab : i \notin With(t)
    BY DEF Exclusive, Accounted
  <2>2. ASSUME NEW j \in Item, Enqueue(j) \/ BecomesDue(j) \/ LeaseLapses(j) \/ Ages(j)
        PROVE  status'[i] = status[i]
    BY <2>1, <2>2 DEF Enqueue, BecomesDue, LeaseLapses, Ages
  <2>3. ASSUME NEW o \in Owner, ClearOwner(o)
        PROVE  status'[i] \in {status[i], "absent"}
    BY <2>3 DEF ClearOwner
  <2>4. ASSUME NEW t \in Tab, NEW o \in Owner, ReleaseExpiredLeases(t, o)
        PROVE  status'[i] = status[i]
    BY <2>4 DEF ReleaseExpiredLeases
  <2>5. ASSUME NEW t \in Tab, NEW j \in Item, Begin(t, j)
        PROVE  status'[i] = status[i]
    BY <2>5 DEF Begin
  <2>6. ASSUME NEW t \in Tab, PruneExpired(t) \/ CompleteDeletes(t)
        PROVE  status'[i] \in {status[i], "absent"}
    BY <2>6 DEF PruneExpired, CompleteDeletes
  <2>7. ASSUME NEW t \in Tab, ClaimReady(t)
        PROVE  status'[i] = status[i]
    BY <2>7, Claimed DEF Claim
  <2>8. ASSUME NEW t \in Tab, ExecuteResolves(t) \/ CompleteReads(t) \/ FailReads(t) \/ Crash(t)
        PROVE  status'[i] = status[i]
    BY <2>8 DEF ExecuteResolves, CompleteReads, FailReads, Crash
  <2>9. ASSUME NEW t \in Tab, FailPuts(t)
        PROVE  status'[i] = status[i]
    BY <2>1, <2>9 DEF FailPuts, With
  <2>10. ASSUME NEW t \in Tab, NEW retryable \in BOOLEAN,
                ExecuteThrows(t, retryable) \/ CompleteThrows(t, retryable)
         PROVE  status'[i] = status[i]
    BY <2>10 DEF ExecuteThrows, CompleteThrows
  <2>11. CASE UNCHANGED vars
    BY <2>11 DEF vars
  <2> QED
    BY <2>2, <2>3, <2>4, <2>5, <2>6, <2>7, <2>8, <2>9, <2>10, <2>11 DEF Next
<1>2. Inv /\ [Next]_vars => [Final]_vars
  BY <1>1
<1> QED
  BY <1>2, AlwaysInv, PTL DEF Spec, FinishedStays

-----------------------------------------------------------------------------
(* The installation prompt (InstallPrompt).                                *)
-----------------------------------------------------------------------------

HIDE RetryAssumption DEF RetryAssumption, RetryStatus, TabStep
USE InstallAssumption

\* An offer is shown by the call that took it from the controller, and no other
\* call has it; what was decided was shown.
OffersTaken ==
  /\ deferred <= offers /\ (deferred # 0 => shown[deferred] = 0)
  /\ \A o \in 1..MaxOffers : shown[o] <= 1 /\ (o > offers => shown[o] = 0)
  /\ \A o \in decided : shown[o] = 1
  /\ \A c \in Call : call[c] # "idle" =>
       held[c] # 0 /\ shown[held[c]] = 1 /\ held[c] \notin decided
  /\ \A c, d \in Call : call[c] # "idle" /\ call[d] # "idle" /\ c # d => held[c] # held[d]

\* The two halves of InstallTypeOK: what is on or off, and what is counted.
SwitchesType ==
  /\ started \in BOOLEAN /\ standalone \in BOOLEAN
  /\ available \in BOOLEAN /\ installed \in BOOLEAN /\ dismissed \in BOOLEAN

OffersType ==
  /\ deferred \in 0..MaxOffers
  /\ call \in [Call -> {"idle", "prompting", "choosing"}]
  /\ held \in [Call -> 0..MaxOffers]
  /\ offers \in 0..MaxOffers /\ shown \in [1..MaxOffers -> Nat] /\ decided \subseteq 1..MaxOffers

\* The types of the controller are those of its switches and of its offers.
LEMMA InstallTypeParts == InstallTypeOK <=> SwitchesType /\ OffersType
BY Zenon DEF InstallTypeOK, SwitchesType, OffersType

\* Every event and call keeps the types of the switches.
LEMMA SwitchesStep == SwitchesType /\ [InstallNext]_installVars => SwitchesType'
<1> USE DEF SwitchesType, controller
<1>1. ASSUME SwitchesType, NEW c \in Call, ChooseOutcome(c)
      PROVE  SwitchesType'
  <2>1. PICK accepted \in BOOLEAN :
          available' = FALSE /\ installed' = (accepted \/ standalone) /\ dismissed' = ~accepted
    BY <1>1, Zenon DEF ChooseOutcome
  <2>2. available' \in BOOLEAN /\ installed' \in BOOLEAN /\ dismissed' \in BOOLEAN
    BY <2>1
  <2>3. started' = started /\ standalone' = standalone
    BY <1>1 DEF ChooseOutcome
  <2>4. QED
    BY <1>1, <2>2, <2>3, Zenon
<1>2. ASSUME SwitchesType, AppInstalled
      PROVE  SwitchesType'
  <2>1. standalone' \in BOOLEAN /\ started' = started
    BY <1>2, Zenon DEF AppInstalled
  <2>2. \/ available' = FALSE /\ installed' = TRUE /\ dismissed' = FALSE
        \/ available' = available /\ installed' = installed /\ dismissed' = dismissed
    BY <1>2, Zenon DEF AppInstalled
  <2>3. QED
    BY <1>2, <2>1, <2>2, Zenon
<1>3. QED
  BY <1>1, <1>2, Zenon DEF InstallNext, StartController, StopController, BeforeInstallPrompt, Prompt,
     PromptShown, PromptThrows, installVars

\* A call takes an offer out before it shows it, so no other call can show it.
LEMMA OffersStep ==
  OffersType /\ OffersTaken /\ [InstallNext]_installVars => OffersType' /\ OffersTaken'
<1> SUFFICES ASSUME OffersType, OffersTaken, [InstallNext]_installVars
             PROVE  OffersType' /\ OffersTaken'
  OBVIOUS
<1> USE DEF OffersType, OffersTaken
<1>1. CASE StartController \/ StopController \/ AppInstalled \/ UNCHANGED installVars
  <2>1. /\ deferred' \in {0, deferred} /\ call' = call /\ held' = held
        /\ offers' = offers /\ shown' = shown /\ decided' = decided
    BY <1>1, Zenon DEF StartController, StopController, AppInstalled, installVars
  <2>2. QED
    BY <2>1
<1>2. CASE BeforeInstallPrompt
  <2>1. /\ offers < MaxOffers /\ offers' = offers + 1 /\ deferred' = offers + 1
        /\ call' = call /\ held' = held /\ shown' = shown /\ decided' = decided
    BY <1>2 DEF BeforeInstallPrompt
  <2>2. QED
    BY <2>1
<1>3. ASSUME NEW c \in Call, Prompt(c)
      PROVE  OffersType' /\ OffersTaken'
  <2>1. /\ deferred \in 1..MaxOffers /\ call[c] = "idle" /\ deferred' = 0
        /\ call' = [call EXCEPT ![c] = "prompting"] /\ held' = [held EXCEPT ![c] = deferred]
        /\ shown' = [shown EXCEPT ![deferred] = @ + 1] /\ offers' = offers /\ decided' = decided
    BY <1>3 DEF Prompt
  <2>2. /\ shown[deferred] = 0 /\ shown'[deferred] = 1
        /\ \A o \in 1..MaxOffers \ {deferred} : shown'[o] = shown[o]
    BY <2>1
  <2>3. OffersType'
    BY <2>1
  <2>4. \A d \in Call : IF d = c THEN held'[d] = deferred
                       ELSE call'[d] = call[d] /\ held'[d] = held[d]
    BY <2>1
  <2>5. \A d \in Call : d # c /\ call[d] # "idle" => held[d] # deferred
    BY <2>2
  <2>6. deferred \notin decided
    BY <2>2
  <2>7. OffersTaken'
    BY <2>1, <2>2, <2>4, <2>5, <2>6
  <2>8. QED
    BY <2>3, <2>7
<1>4. ASSUME NEW c \in Call, PromptShown(c) \/ PromptThrows(c)
      PROVE  OffersType' /\ OffersTaken'
  <2>1. /\ call[c] # "idle" /\ UNCHANGED <<deferred, offers, shown, decided>>
        /\ \/ call' = [call EXCEPT ![c] = "choosing"] /\ held' = held
           \/ call' = [call EXCEPT ![c] = "idle"] /\ held' = [held EXCEPT ![c] = 0]
    BY <1>4 DEF PromptShown, PromptThrows
  <2>2. OffersType'
    <3>1. call' \in [Call -> {"idle", "prompting", "choosing"}]
      BY <2>1
    <3>2. held' \in [Call -> 0..MaxOffers]
      BY <2>1
    <3>3. QED
      BY <2>1, <3>1, <3>2
  <2>3. \A d \in Call : call'[d] # "idle" => call[d] # "idle" /\ held'[d] = held[d]
    BY <2>1
  <2>4. OffersTaken'
    BY <2>1, <2>3
  <2>5. QED
    BY <2>2, <2>4
<1>5. ASSUME NEW c \in Call, ChooseOutcome(c)
      PROVE  OffersType' /\ OffersTaken'
  <2>1. /\ call[c] # "idle" /\ UNCHANGED <<deferred, offers, shown>>
        /\ decided' = decided \cup {held[c]}
        /\ call' = [call EXCEPT ![c] = "idle"] /\ held' = [held EXCEPT ![c] = 0]
    BY <1>5 DEF ChooseOutcome
  <2>2. held[c] \in 1..MaxOffers /\ shown[held[c]] = 1
    BY <2>1
  <2>3. OffersType'
    <3>1. call' \in [Call -> {"idle", "prompting", "choosing"}]
      BY <2>1
    <3>2. held' \in [Call -> 0..MaxOffers]
      BY <2>1
    <3>3. QED
      BY <2>1, <2>2, <3>1, <3>2
  <2>4. \A d \in Call : call'[d] # "idle" => call[d] # "idle" /\ held'[d] = held[d] /\ d # c
    BY <2>1
  <2>5. OffersTaken'
    BY <2>1, <2>2, <2>4
  <2>6. QED
    BY <2>3, <2>5
<1>6. QED
  BY <1>1, <1>2, <1>3, <1>4, <1>5, Zenon DEF InstallNext

\* An offer to install the site is shown once and answered once, for any number of
\* overlapping calls of prompt() and of offers.
THEOREM AlwaysOfferedOnce == InstallSpec => []OfferedOnce
<1>1. InstallInit => OffersType /\ OffersTaken
  BY DEF InstallInit, OffersType, OffersTaken
<1>2. InstallInit => SwitchesType
  BY Zenon DEF InstallInit, SwitchesType
<1>3. SwitchesType /\ OffersType /\ OffersTaken => OfferedOnce
  <2>1. OffersType /\ OffersTaken => deferred \notin decided
    BY DEF OffersType, OffersTaken
  <2>2. QED
    BY <2>1, InstallTypeParts, Zenon DEF OffersTaken, OfferedOnce
<1>4. QED
  BY <1>1, <1>2, <1>3, SwitchesStep, OffersStep, PTL DEF InstallSpec

-----------------------------------------------------------------------------
(* Updates of the public site (PwaClient).                                 *)
-----------------------------------------------------------------------------

HIDE InstallAssumption
USE ClientAssumption DEF Build, Opened

\* Builds are activated in the order they were deployed, none waits before the first
\* is active, and pages were loaded by builds that were active.
BuildsInOrder ==
  /\ active <= deployed /\ waiting <= deployed
  /\ active = 0 => waiting = 0
  /\ \A t \in Window : born[t] <= active

\* Nothing takes a page over but a build that was asked for, and builds stay in order.
LEMMA UpdateStep ==
  UpdatedOnRequest /\ BuildsInOrder /\ [ClientNext]_clientVars => UpdatedOnRequest' /\ BuildsInOrder'
<1> SUFFICES ASSUME UpdatedOnRequest, BuildsInOrder, [ClientNext]_clientVars
             PROVE  UpdatedOnRequest' /\ BuildsInOrder'
  OBVIOUS
<1> USE DEF UpdatedOnRequest, PwaTypeOK, BuildsInOrder
<1>1. CASE Deploy
  BY <1>1 DEF Deploy, windows
<1>2. CASE ConnectivityChanges
  BY <1>2 DEF ConnectivityChanges, Hinted
<1>3. ASSUME NEW t \in Window, OpenTab(t) \/ Reload(t)
      PROVE  UpdatedOnRequest' /\ BuildsInOrder'
  <2>1. Load(t, active) /\ UNCHANGED <<deployed, active, waiting, online, asked>>
    BY <1>3 DEF OpenTab, Reload, worker
  <2>2. PwaTypeOK' /\ BuildsInOrder'
    BY <2>1 DEF Load
  <2>3. ASSUME NEW u \in Window, stage'[u] # "closed"
        PROVE  /\ control'[u] # born'[u] \/ reloading'[u] => control'[u] \in asked'
               /\ control'[u] >= born'[u]
    BY <2>1, <2>3 DEF Load
  <2>4. QED
    BY <2>2, <2>3
<1>4. ASSUME NEW t \in Window, CloseTab(t)
      PROVE  UpdatedOnRequest' /\ BuildsInOrder'
  BY <1>4 DEF CloseTab
<1>5. ASSUME NEW t \in Window, Show(t) \/ Register(t) \/ RegisterFails(t)
      PROVE  UpdatedOnRequest' /\ BuildsInOrder'
  BY <1>5 DEF Show, Register, RegisterFails, Hinted, worker
<1>6. ASSUME NEW t \in Window, Registers(t)
      PROVE  UpdatedOnRequest' /\ BuildsInOrder'
  BY <1>6 DEF Registers, Installed
<1>7. ASSUME NEW t \in Window, Found(t)
      PROVE  UpdatedOnRequest' /\ BuildsInOrder'
  BY <1>7 DEF Found, Installed
<1>8. ASSUME NEW t \in Window, NeedRefresh(t) \/ PressDismiss(t)
      PROVE  UpdatedOnRequest' /\ BuildsInOrder'
  BY <1>8 DEF NeedRefresh, PressDismiss, worker
<1>9. ASSUME NEW t \in Window, PressUpdate(t)
      PROVE  UpdatedOnRequest' /\ BuildsInOrder'
  BY <1>9 DEF PressUpdate
<1>10. CASE UNCHANGED clientVars
  BY <1>10 DEF clientVars, worker, windows
<1>11. QED
  BY <1>1, <1>2, <1>3, <1>4, <1>5, <1>6, <1>7, <1>8, <1>9, <1>10 DEF ClientNext

\* No page is taken over by another build, or reloaded, unless a visitor asked for
\* that build, for any number of tabs and builds.
THEOREM AlwaysUpdatedOnRequest == ClientSpec => []UpdatedOnRequest
<1>1. ClientInit => UpdatedOnRequest /\ BuildsInOrder
  BY DEF ClientInit, UpdatedOnRequest, PwaTypeOK, BuildsInOrder
<1>2. QED
  BY <1>1, UpdateStep, PTL DEF ClientSpec

-----------------------------------------------------------------------------
(* What the service workers keep (PwaCaching).                             *)
-----------------------------------------------------------------------------

HIDE ClientAssumption DEF Build, Opened
USE CachingAssumption

\* What a sequence put together from parts holds.
LEMMA JoinedSix ==
  ASSUME NEW a, NEW b, NEW c, NEW d, NEW e, NEW f, NEW x,
         x = <<a, b>> \o <<c>> \o <<d, e, f>>
  PROVE  /\ DOMAIN x = 1..6
         /\ x[1] = a /\ x[2] = b /\ x[3] = c /\ x[4] = d /\ x[5] = e /\ x[6] = f
<1>1. DOMAIN x = 1..6
  OBVIOUS
<1>2. x[1] = a /\ x[2] = b /\ x[3] = c
  OBVIOUS
<1>3. x[4] = d /\ x[5] = e /\ x[6] = f
  OBVIOUS
<1>4. QED
  BY <1>1, <1>2, <1>3

\* Two pairs joined are four elements.
LEMMA JoinedFour ==
  ASSUME NEW a, NEW b, NEW c, NEW d, NEW x, x = <<a, b>> \o <<c, d>>
  PROVE  DOMAIN x = 1..4 /\ x[1] = a /\ x[2] = b /\ x[3] = c /\ x[4] = d
OBVIOUS

\* The rules of both sites, in their order.
LEMMA PublicRuleList ==
  /\ DOMAIN PublicRules = 1..6
  /\ PublicRules[1] = Rule(OfOrigins({"api"}), "NetworkOnly", "none", FALSE)
  /\ PublicRules[2] = Rule(OfPaths, "NetworkOnly", "none", FALSE)
  /\ PublicRules[3] = Rule(OfUse("navigate"), "NetworkFirst", "pages", TRUE)
  /\ PublicRules[4] = Rule(OfUse("image"), "StaleWhileRevalidate", "media", FALSE)
  /\ PublicRules[5] = Rule(OfOrigins({"media"}), "StaleWhileRevalidate", "media", FALSE)
  /\ PublicRules[6] = Rule(OfUse("font"), "CacheFirst", "fonts", FALSE)
<1> DEFINE r1 == Rule(OfOrigins({"api"}), "NetworkOnly", "none", FALSE)
           r2 == Rule(OfPaths, "NetworkOnly", "none", FALSE)
           r3 == Rule(OfUse("navigate"), "NetworkFirst", "pages", TRUE)
           r4 == Rule(OfUse("image"), "StaleWhileRevalidate", "media", FALSE)
           r5 == Rule(OfOrigins({"media"}), "StaleWhileRevalidate", "media", FALSE)
           r6 == Rule(OfUse("font"), "CacheFirst", "fonts", FALSE)
<1>1. PublicRules = <<r1, r2>> \o <<r3>> \o <<r4, r5, r6>>
  BY Zenon DEF PublicRules, PrivateRules, PageRules, AssetRules
<1> HIDE DEF r1, r2, r3, r4, r5, r6
<1>2. /\ DOMAIN PublicRules = 1..6
      /\ PublicRules[1] = r1 /\ PublicRules[2] = r2 /\ PublicRules[3] = r3
      /\ PublicRules[4] = r4 /\ PublicRules[5] = r5 /\ PublicRules[6] = r6
  BY <1>1, JoinedSix
<1>3. QED
  BY <1>2, Zenon DEF r1, r2, r3, r4, r5, r6

\* The rules of the admin site, in their order.
LEMMA AdminRuleList ==
  /\ DOMAIN AdminRules = 1..4
  /\ AdminRules[1] = Rule(OfOrigins({"api"}), "NetworkOnly", "none", FALSE)
  /\ AdminRules[2] = Rule(OfPaths, "NetworkOnly", "none", FALSE)
  /\ AdminRules[3] = Rule(OfUse("navigate"), "NetworkOnly", "none", TRUE)
  /\ AdminRules[4] = Rule(OfOrigins({"media"}), "StaleWhileRevalidate", "safe-assets", FALSE)
<1> DEFINE r1 == Rule(OfOrigins({"api"}), "NetworkOnly", "none", FALSE)
           r2 == Rule(OfPaths, "NetworkOnly", "none", FALSE)
           r3 == Rule(OfUse("navigate"), "NetworkOnly", "none", TRUE)
           r4 == Rule(OfOrigins({"media"}), "StaleWhileRevalidate", "safe-assets", FALSE)
<1>1. AdminRules = <<r1, r2>> \o <<r3, r4>>
  BY Zenon DEF AdminRules, PrivateRules
<1> HIDE DEF r1, r2, r3, r4
<1>2. /\ DOMAIN AdminRules = 1..4
      /\ AdminRules[1] = r1 /\ AdminRules[2] = r2 /\ AdminRules[3] = r3 /\ AdminRules[4] = r4
  BY <1>1, JoinedFour
<1>3. QED
  BY <1>2, Zenon DEF r1, r2, r3, r4

\* The first rule that matches decides.
LEMMA FirstDecides ==
  ASSUME NEW n \in Nat, DOMAIN Rules = 1..n, NEW r, NEW i \in 1..n, r \in Rules[i].matches,
         \A j \in 1..n : j < i => r \notin Rules[j].matches
  PROVE  Route(r) = Rules[i]
<1> DEFINE matching == {j \in DOMAIN Rules : r \in Rules[j].matches}
<1>1. i \in matching /\ \A j \in matching : i <= j
  OBVIOUS
<1>2. \A k \in matching : (\A j \in matching : k <= j) => k = i
  BY <1>1
<1>3. (CHOOSE k \in matching : \A j \in matching : k <= j) = i
  <2> HIDE DEF matching
  <2>1. QED
    BY <1>1, <1>2
<1>4. QED
  BY <1>1, <1>3 DEF Route

\* What each site's rules do with a request.
LEMMA PublicRoute ==
  ASSUME site = "public", NEW r \in Request
  PROVE  \/ Route(r).handler = "NetworkOnly" /\ ~(Navigation(r) /\ Classify(r) = "safe-get")
         \/ /\ Route(r).cache \in Caches /\ (Navigation(r) => Route(r).fallback)
            /\ Classify(r) = "safe-get" \/ Unseen(r)
<1>1. Rules = PublicRules /\ DOMAIN Rules = 1..6
  BY PublicRuleList DEF Rules
<1>2. /\ r \in Rules[1].matches <=> r.method = "GET" /\ r.origin = "api"
      /\ r \in Rules[2].matches <=> r.method = "GET" /\ r.origin = "own" /\ r.tail \in {"end", "slash", "query"}
      /\ r \in Rules[3].matches <=> r.method = "GET" /\ r.origin = "own" /\ r.use = "navigate"
      /\ r \in Rules[4].matches <=> r.method = "GET" /\ r.origin = "own" /\ r.use = "image"
      /\ r \in Rules[5].matches <=> r.method = "GET" /\ r.origin = "media"
      /\ r \in Rules[6].matches <=> r.method = "GET" /\ r.origin = "own" /\ r.use = "font"
  BY <1>1, PublicRuleList DEF Rule, OfOrigins, OfPaths, OfUse
<1>0. CASE r.method # "GET"
  <2>1. \A i \in DOMAIN Rules : r \notin Rules[i].matches
    BY <1>0, <1>1, <1>2
  <2>2. Route(r) = Unruled
    BY <2>1 DEF Route
  <2>3. Classify(r) = "non-get"
    BY <1>0 DEF Classify
  <2>4. QED
    BY <2>2, <2>3 DEF Unruled, Rule
<1>3. CASE /\ r.method = "GET"
           /\ r.origin = "api" \/ (r.origin = "own" /\ r.tail \in {"end", "slash", "query"})
  <2>1. Route(r) \in {Rules[1], Rules[2]}
    BY <1>1, <1>2, <1>3, FirstDecides
  <2>2. Route(r).handler = "NetworkOnly"
    BY <1>1, <2>1, PublicRuleList DEF Rule
  <2>3. Classify(r) # "safe-get"
    BY <1>3 DEF Classify
  <2>4. QED
    BY <2>2, <2>3
<1>4. CASE r.method = "GET" /\ r.origin # "api" /\ ~(r.origin = "own" /\ r.tail \in {"end", "slash", "query"})
  <2>1. r.use # "fetch" \/ r.origin = "media" => Classify(r) = "safe-get" \/ Unseen(r)
    <3>1. /\ r.tail \in {"end", "slash", "query", "fragment", "letters", "unlisted"}
          /\ r.secret => r.use = "fetch"
      BY DEF Request
    <3> QED
      BY <1>4, <3>1 DEF Classify, Unseen
  <2>2. CASE r.origin = "own" /\ r.use = "navigate"
    <3>1. Route(r) = Rules[3]
      BY <1>1, <1>2, <1>4, <2>2, FirstDecides
    <3>2. Route(r).cache \in Caches /\ Route(r).fallback
      BY <1>1, <3>1, PublicRuleList DEF Rule, Caches
    <3>3. Classify(r) = "safe-get" \/ Unseen(r)
      BY <2>1, <2>2
    <3>4. QED
      BY <3>2, <3>3, Zenon
  <2>3. CASE ~(r.origin = "own" /\ r.use = "navigate") /\ \E i \in 4..6 : r \in Rules[i].matches
    <3>1. Route(r) \in {Rules[4], Rules[5], Rules[6]}
      <4>1. CASE r \in Rules[4].matches
        BY <1>1, <1>2, <1>4, <2>3, <4>1, FirstDecides
      <4>2. CASE r \in Rules[5].matches
        BY <1>1, <1>2, <1>4, <2>3, <4>2, FirstDecides
      <4>3. CASE r \in Rules[6].matches
        BY <1>1, <1>2, <1>4, <2>3, <4>3, FirstDecides
      <4>4. QED
        BY <2>3, <4>1, <4>2, <4>3
    <3>2. Route(r).cache \in Caches
      BY <1>1, <3>1, PublicRuleList DEF Rule, Caches
    <3>3. Classify(r) = "safe-get" \/ Unseen(r)
      BY <1>2, <2>1, <2>3
    <3>4. QED
      BY <2>3, <3>2, <3>3, Zenon DEF Navigation
  <2>4. CASE ~(r.origin = "own" /\ r.use = "navigate") /\ ~\E i \in 4..6 : r \in Rules[i].matches
    <3>1. \A i \in DOMAIN Rules : r \notin Rules[i].matches
      BY <1>1, <1>2, <1>4, <2>4
    <3>2. Route(r) = Unruled
      BY <3>1 DEF Route
    <3>3. QED
      BY <2>4, <3>2 DEF Unruled, Rule, Navigation
  <2>5. QED
    BY <2>2, <2>3, <2>4
<1>5. QED
  BY <1>0, <1>3, <1>4

\* The first rule for an admin request keeps nothing, or a safe asset of another origin.
LEMMA AdminRoute ==
  ASSUME site = "admin", NEW r \in Request
  PROVE  \/ /\ Route(r).handler = "NetworkOnly"
            /\ (Route(r).fallback \/ ~Navigation(r) \/ Classify(r) # "safe-get")
         \/ /\ Route(r).cache \in Caches /\ r.origin # "own"
            /\ Classify(r) = "safe-get" \/ Unseen(r)
<1>1. Rules = AdminRules /\ DOMAIN Rules = 1..4
  BY AdminRuleList DEF Rules
<1>2. /\ r \in Rules[1].matches <=> r.method = "GET" /\ r.origin = "api"
      /\ r \in Rules[2].matches <=> r.method = "GET" /\ r.origin = "own" /\ r.tail \in {"end", "slash", "query"}
      /\ r \in Rules[3].matches <=> r.method = "GET" /\ r.origin = "own" /\ r.use = "navigate"
      /\ r \in Rules[4].matches <=> r.method = "GET" /\ r.origin = "media"
  BY <1>1, AdminRuleList DEF Rule, OfOrigins, OfPaths, OfUse
<1>0. CASE r.method # "GET"
  <2>1. \A i \in DOMAIN Rules : r \notin Rules[i].matches
    BY <1>0, <1>1, <1>2
  <2>2. Route(r) = Unruled
    BY <2>1 DEF Route
  <2>3. Classify(r) = "non-get"
    BY <1>0 DEF Classify
  <2>4. QED
    BY <2>2, <2>3 DEF Unruled, Rule
<1>3. CASE /\ r.method = "GET"
           /\ r.origin = "api" \/ (r.origin = "own" /\ r.tail \in {"end", "slash", "query"})
  <2>1. Route(r) \in {Rules[1], Rules[2]}
    BY <1>1, <1>2, <1>3, FirstDecides
  <2>2. Route(r).handler = "NetworkOnly"
    BY <1>1, <2>1, AdminRuleList DEF Rule
  <2>3. Classify(r) # "safe-get"
    BY <1>3 DEF Classify
  <2>4. QED
    BY <2>2, <2>3
<1>4. CASE r.method = "GET" /\ r.origin = "own" /\ r.tail \notin {"end", "slash", "query"} /\ r.use = "navigate"
  <2>1. Route(r) = Rules[3]
    BY <1>1, <1>2, <1>4, FirstDecides
  <2>2. QED
    BY <1>1, <2>1, AdminRuleList DEF Rule
<1>5. CASE r.method = "GET" /\ r.origin = "media"
  <2>1. Route(r) = Rules[4]
    BY <1>1, <1>2, <1>5, FirstDecides
  <2>2. QED
    BY <1>1, <1>5, <2>1, AdminRuleList DEF Rule, Caches, Classify, Unseen
<1>6. CASE \/ r.origin = "other"
           \/ (r.origin = "own" /\ r.tail \notin {"end", "slash", "query"} /\ r.use # "navigate")
  <2>1. Route(r) = Unruled
    BY <1>1, <1>2, <1>6 DEF Route
  <2>2. QED
    BY <1>6, <2>1 DEF Unruled, Rule, Navigation
<1>7. QED
  BY <1>0, <1>3, <1>4, <1>5, <1>6 DEF Request

\* A rule that keeps an answer keeps none of a request that is refused, but for those it
\* does not see, and no page of the administration; and without a fallback there are only
\* refused pages.
LEMMA RulesArePrivate ==
  ASSUME site \in {"public", "admin"}, NEW r \in Request
  PROVE  /\ Route(r).handler # "NetworkOnly" =>
              /\ Route(r).cache \in Caches
              /\ Classify(r) = "safe-get" \/ Unseen(r)
              /\ site = "admin" => r.use # "navigate" \/ r.origin # "own"
         /\ Navigation(r) /\ ~Route(r).fallback => Classify(r) # "safe-get"
BY PublicRoute, AdminRoute DEF Navigation

\* Adding and removing one.
LEMMA OneMore ==
  ASSUME NEW S, IsFiniteSet(S), NEW x
  PROVE  /\ IsFiniteSet(S \cup {x}) /\ Cardinality(S \cup {x}) \in Nat /\ Cardinality(S) \in Nat
         /\ Cardinality(S \cup {x}) <= Cardinality(S) + 1
         /\ x \in S => Cardinality(S \cup {x}) = Cardinality(S)
<1>1. Cardinality(S) \in Nat /\ IsFiniteSet(S \cup {x})
  BY FS_AddElement, FS_CardinalityType
<1>2. CASE x \in S
  <2>1. S \cup {x} = S
    BY <1>2
  <2>2. QED
    BY <1>1, <2>1
<1>3. CASE x \notin S
  BY <1>1, <1>3, FS_AddElement
<1>4. QED
  BY <1>2, <1>3

\* A finite set without one of its elements has one less.
LEMMA OneLess ==
  ASSUME NEW S, IsFiniteSet(S), NEW x \in S
  PROVE  /\ IsFiniteSet(S \ {x}) /\ Cardinality(S \ {x}) \in Nat /\ Cardinality(S) \in Nat
         /\ Cardinality(S \ {x}) = Cardinality(S) - 1
BY FS_RemoveElement, FS_CardinalityType

\* A cache holds finitely many responses, no more than fit, and none that is private.
Private(r) == (Classify(r) # "safe-get" /\ ~Unseen(r)) \/ (site = "admin" /\ Navigation(r))

Fits(S) ==
  /\ S \subseteq Request /\ IsFiniteSet(S) /\ Cardinality(S) <= MaxEntries
  /\ \A r \in S : ~Private(r)

CachesFit == kept \in [Caches -> SUBSET Request] /\ \A c \in Caches : Fits(kept[c])

AnswersFit ==
  unanswered = {} \/ \E r \in Request : unanswered = {r} /\ (Navigation(r) => Classify(r) # "safe-get")

CachingInv == site \in {"public", "admin"} /\ connected \in BOOLEAN /\ CachesFit /\ AnswersFit

\* What an answer leaves in the caches.
LEMMA StoreFits ==
  ASSUME CachesFit, NEW cache \in Caches, NEW r \in Request, ~Private(r), Store(cache, r), site' = site
  PROVE  CachesFit'
<1> DEFINE new == kept'[cache]
<1>1. CASE r \in kept[cache] \/ Cardinality(kept[cache]) < MaxEntries
  <2>1. kept' = [kept EXCEPT ![cache] = kept[cache] \cup {r}]
    BY <1>1 DEF Store
  <2>2. Fits(kept[cache]) /\ IsFiniteSet(kept[cache])
    BY DEF CachesFit, Fits
  <2>3. Cardinality(kept[cache] \cup {r}) <= MaxEntries /\ IsFiniteSet(kept[cache] \cup {r})
    BY <1>1, <2>2, OneMore DEF Fits
  <2>4. Fits(kept[cache] \cup {r})
    BY <2>2, <2>3 DEF Fits
  <2>5. \A c \in Caches : Fits(kept'[c])
    BY <2>1, <2>4 DEF CachesFit
  <2>6. kept' \in [Caches -> SUBSET Request]
    BY <2>1 DEF CachesFit
  <2>7. QED
    BY <2>5, <2>6 DEF CachesFit, Fits, Private
<1>2. CASE ~(r \in kept[cache] \/ Cardinality(kept[cache]) < MaxEntries)
  <2>1. PICK old \in kept[cache] : kept' = [kept EXCEPT ![cache] = (kept[cache] \ {old}) \cup {r}]
    BY <1>2 DEF Store
  <2>2. Fits(kept[cache]) /\ IsFiniteSet(kept[cache])
    BY DEF CachesFit, Fits
  <2>3. /\ IsFiniteSet(kept[cache] \ {old}) /\ Cardinality(kept[cache] \ {old}) \in Nat
        /\ Cardinality(kept[cache] \ {old}) + 1 <= MaxEntries
    <3> DEFINE S == kept[cache]
    <3>1. IsFiniteSet(S) /\ Cardinality(S) <= MaxEntries
      BY <2>2 DEF Fits
    <3> HIDE DEF S
    <3>2. ASSUME NEW x \in S
          PROVE  /\ IsFiniteSet(S \ {x}) /\ Cardinality(S \ {x}) \in Nat
                 /\ Cardinality(S \ {x}) + 1 <= MaxEntries
      BY <3>1, OneLess
    <3>3. QED
      BY <3>2, Zenon DEF S
  <2>4. /\ IsFiniteSet((kept[cache] \ {old}) \cup {r})
        /\ Cardinality((kept[cache] \ {old}) \cup {r}) <= MaxEntries
    BY <2>3, OneMore
  <2>5. Fits((kept[cache] \ {old}) \cup {r})
    BY <2>2, <2>4 DEF Fits
  <2>6. \A c \in Caches : Fits(kept'[c])
    BY <2>1, <2>5 DEF CachesFit
  <2>7. kept' \in [Caches -> SUBSET Request]
    BY <2>1 DEF CachesFit
  <2>8. QED
    BY <2>6, <2>7 DEF CachesFit, Fits, Private
<1>3. QED
  BY <1>1, <1>2

\* Every request, answer and purge keeps the invariant.
LEMMA CachingStep == CachingInv /\ [CachingNext]_cachingVars => CachingInv'
<1> SUFFICES ASSUME CachingInv, [CachingNext]_cachingVars
             PROVE  CachingInv'
  OBVIOUS
<1>1. CASE ConnectionChanges \/ UNCHANGED cachingVars
  <2>1. site' = site /\ kept' = kept /\ unanswered' = unanswered /\ connected' \in BOOLEAN
    BY <1>1 DEF ConnectionChanges, cachingVars, CachingInv
  <2>2. QED
    BY <2>1 DEF CachingInv, CachesFit, Fits, Private, AnswersFit
<1>2. CASE Purge
  <2>1. PICK c \in Caches : \E r \in kept[c] : kept' = [kept EXCEPT ![c] = kept[c] \ {r}]
    BY <1>2 DEF Purge
  <2>2. PICK r \in kept[c] : kept' = [kept EXCEPT ![c] = kept[c] \ {r}]
    BY <2>1
  <2>3. Fits(kept[c] \ {r})
    <3>1. Fits(kept[c]) /\ IsFiniteSet(kept[c])
      BY DEF CachingInv, CachesFit, Fits
    <3>2. IsFiniteSet(kept[c] \ {r}) /\ Cardinality(kept[c] \ {r}) <= MaxEntries
      BY <3>1, OneLess DEF Fits
    <3>3. QED
      BY <3>1, <3>2 DEF Fits
  <2>4. \A d \in Caches : Fits(kept'[d])
    BY <2>2, <2>3 DEF CachingInv, CachesFit
  <2>5. kept' \in [Caches -> SUBSET Request]
    BY <2>2 DEF CachingInv, CachesFit
  <2>6. QED
    BY <1>2, <2>4, <2>5 DEF Purge, CachingInv, CachesFit, Fits, Private, AnswersFit
<1>3. ASSUME NEW r \in Request, FromNetwork(r)
      PROVE  CachingInv'
  <2>1. /\ site' = site /\ connected' = connected
        /\ unanswered' = {}
        /\ kept' = kept \/ (Route(r).handler # "NetworkOnly" /\ Store(Route(r).cache, r))
    BY <1>3 DEF FromNetwork
  <2>2. AnswersFit'
    BY <2>1 DEF AnswersFit
  <2>3. CASE kept' = kept
    BY <2>1, <2>2, <2>3 DEF CachingInv, CachesFit, Fits, Private
  <2>4. CASE Route(r).handler # "NetworkOnly" /\ Store(Route(r).cache, r)
    <3>1. Route(r).cache \in Caches /\ ~Private(r)
      BY <2>4, RulesArePrivate DEF CachingInv, Private, Navigation
    <3>2. CachesFit'
      BY <2>1, <2>4, <3>1, StoreFits DEF CachingInv
    <3>3. QED
      BY <2>1, <2>2, <3>2 DEF CachingInv
  <2>5. QED
    BY <2>1, <2>3, <2>4
<1>4. ASSUME NEW r \in Request, FromCache(r) \/ FromNothing(r)
      PROVE  CachingInv'
  <2>1. UNCHANGED <<site, connected, kept>>
    BY <1>4 DEF FromCache, FromNothing
  <2>2. AnswersFit'
    <3>1. CASE FromCache(r)
      BY <3>1 DEF FromCache, AnswersFit
    <3>2. CASE FromNothing(r) /\ Route(r).fallback
      BY <3>2 DEF FromNothing, AnswersFit
    <3>3. CASE FromNothing(r) /\ ~Route(r).fallback
      <4>1. unanswered' = {r}
        BY <3>3 DEF FromNothing
      <4>2. Navigation(r) => Classify(r) # "safe-get"
        BY <3>3, RulesArePrivate DEF CachingInv
      <4>3. QED
        BY <4>1, <4>2 DEF AnswersFit
    <3>4. QED
      BY <1>4, <3>1, <3>2, <3>3
  <2>3. QED
    BY <2>1, <2>2 DEF CachingInv, CachesFit, Fits, Private
<1>5. QED
  BY <1>1, <1>2, <1>3, <1>4 DEF CachingNext, Fetch

\* A set of one element has at most one, whatever it is.
LEMMA AtMostOne ==
  ASSUME NEW x
  PROVE  Cardinality({x}) <= 1
<1>1. Cardinality({x}) = 1
  BY FS_Singleton, Zenon
<1>2. QED
  BY <1>1

\* The caches' part of what is to be shown.
LEMMA KeptIsPublic ==
  ASSUME CachingInv
  PROVE  /\ kept \in [Caches -> SUBSET Request]
         /\ \A c \in Caches : Cardinality(kept[c]) <= MaxEntries
         /\ \A c \in Caches : \A r \in kept[c] :
              /\ Classify(r) = "safe-get" \/ Unseen(r)
              /\ site = "admin" => r.use # "navigate" \/ r.origin # "own"
<1>1. kept \in [Caches -> SUBSET Request] /\ \A c \in Caches : Fits(kept[c])
  BY DEF CachingInv, CachesFit
<1>2. \A c \in Caches : Cardinality(kept[c]) <= MaxEntries
  BY <1>1, Zenon DEF Fits
<1>3. ASSUME NEW c \in Caches, NEW r \in kept[c]
      PROVE  /\ Classify(r) = "safe-get" \/ Unseen(r)
             /\ site = "admin" => r.use # "navigate" \/ r.origin # "own"
  <2>1. ~Private(r)
    BY <1>1, <1>3, Zenon DEF Fits
  <2>2. QED
    BY <2>1, Zenon DEF Private, Navigation
<1>4. QED
  BY <1>1, <1>2, <1>3

\* Neither service worker keeps more than fit, or an answer to a request the policy refuses,
\* except a fragment after a listed prefix and a secret header sent to a media origin; and
\* a page that may be kept is always answered. For caches of any size.
THEOREM AlwaysOnlyPublicKept == CachingSpec => []OnlyPublicKept
<1>1. CachingInit => CachingInv
  <2>1. IsFiniteSet({}) /\ Cardinality({}) = 0
    BY FS_EmptySet
  <2>2. Fits({})
    BY <2>1 DEF Fits
  <2>3. QED
    BY <2>2 DEF CachingInit, CachingInv, CachesFit, AnswersFit
<1>2. CachingInv => OnlyPublicKept
  <2> SUFFICES ASSUME CachingInv
               PROVE  OnlyPublicKept
    OBVIOUS
  <2>1. CASE unanswered = {}
    <3>1. Cardinality(unanswered) <= 1
      BY <2>1, FS_EmptySet
    <3>2. QED
      BY <2>1, <3>1, KeptIsPublic DEF CachingInv, CachingTypeOK, OnlyPublicKept
  <2>2. CASE unanswered # {}
    <3>1. PICK r \in Request : unanswered = {r} /\ (Navigation(r) => Classify(r) # "safe-get")
      BY <2>2, Zenon DEF CachingInv, AnswersFit
    <3>2. Cardinality(unanswered) <= 1
      BY <3>1, AtMostOne, Zenon
    <3>3. /\ unanswered \subseteq Request
          /\ \A x \in unanswered : Navigation(x) => Classify(x) # "safe-get"
      BY <3>1, Zenon
    <3>4. QED
      BY <3>2, <3>3, KeptIsPublic, Zenon DEF CachingInv, CachingTypeOK, OnlyPublicKept
  <2>3. QED
    BY <2>1, <2>2
<1>3. QED
  BY <1>1, <1>2, CachingStep, PTL DEF CachingSpec

-----------------------------------------------------------------------------
(* The shell of the public site (SiteShell).                               *)
-----------------------------------------------------------------------------

HIDE CachingAssumption
USE ShellAssumption DEF Start, Effect, Rail, Done, Lost

\* The parts of ShellTypeOK: what the document and the storage hold, how far the
\* starts are, and what runs on the document.
DocumentType ==
  /\ kind \in {"home", "legal"}
  /\ stored \in Theme \cup {"none"} /\ attr \in Theme /\ label \in Theme \cup {"none"}
  /\ dialog \in {"shut", "open", "closing"}

FlagsType ==
  /\ blocked \in BOOLEAN /\ locked \in BOOLEAN /\ pressed \in BOOLEAN
  /\ overlapped \subseteq Start /\ apart \in BOOLEAN

StartsType ==
  /\ page \in 1..MaxPages /\ kind \in {"home", "legal"}
  /\ lifecycle \in [due : {"install", "load", "none"}, begun : 0..MaxStarts, cleanup : 0..MaxStarts]
  /\ at \in [Start -> 0..Lost] /\ root \in [Start -> 0..MaxPages]
  /\ live \in [Start -> [Effect -> 0..MaxPages]]

RailsType ==
  /\ rail \in [Start -> [explicit : BOOLEAN, pointer : BOOLEAN, focus : BOOLEAN, paused : BOOLEAN]]
  /\ visitor \in [over : BOOLEAN, within : BOOLEAN, hidden : BOOLEAN, still : BOOLEAN]

\* The types of the shell are those of its four parts.
LEMMA ShellTypeParts == ShellTypeOK <=> DocumentType /\ FlagsType /\ StartsType /\ RailsType
BY Zenon DEF ShellTypeOK, DocumentType, FlagsType, StartsType, RailsType

\* What is read back from storage is a theme.
LEMMA StoredIsTheme == stored \in Theme \cup {"none"} => StoredTheme \in Theme
BY DEF StoredTheme

\* Every step keeps the types of the document.
LEMMA DocumentStep == DocumentType /\ [ShellNext]_shellVars => DocumentType'
<1> SUFFICES ASSUME DocumentType, [ShellNext]_shellVars
             PROVE  DocumentType'
  OBVIOUS
<1>1. StoredTheme \in Theme
  BY StoredIsTheme DEF DocumentType
<1> USE DEF DocumentType
<1>2. ASSUME NEW theme \in Theme, ChooseTheme(theme) \/ ChooseThemeElsewhere(theme)
      PROVE  DocumentType'
  <2>1. /\ kind' = kind /\ dialog' = dialog
        /\ stored' \in {stored, theme} /\ attr' \in {attr, theme} /\ label' \in {label, theme}
    BY <1>2 DEF ChooseTheme, ChooseThemeElsewhere, menu
  <2>2. QED
    BY <2>1
<1>3. CASE OpenMenu \/ CloseMenu \/ CloseEvent
  BY <1>3 DEF OpenMenu, CloseMenu, CloseEvent, chosen
<1>4. CASE Toggle \/ Point \/ Focus \/ HideOrShow \/ ChangePreference
  BY <1>4, Zenon DEF Toggle, Point, Focus, HideOrShow, ChangePreference, chosen, menu
<1>5. CASE BeginSetup
  <2>1. /\ kind' = kind /\ dialog' = dialog /\ stored' = stored /\ attr' = attr
        /\ label' = StoredTheme
    BY <1>5, Zenon DEF BeginSetup
  <2>2. QED
    BY <1>1, <2>1
<1>6. CASE Swap
  <2>1. /\ kind' \in {"home", "legal"} /\ dialog' = "shut" /\ stored' = stored
        /\ attr' = StoredTheme /\ label' = "none"
    BY <1>6, Zenon DEF Swap
  <2>2. QED
    BY <1>1, <2>1
<1>7. ASSUME NEW s \in Start, Imported(s) \/ ImportRejected(s) \/ SetUp(s)
      PROVE  DocumentType'
  BY <1>7, Zenon DEF Imported, ImportRejected, SetUp, chosen, menu
<1>8. CASE UNCHANGED shellVars
  BY <1>8, Zenon DEF shellVars, chosen, menu
<1>9. QED
  BY <1>2, <1>3, <1>4, <1>5, <1>6, <1>7, <1>8, Zenon DEF ShellNext

\* Every step keeps the types of a visitor's flags.
LEMMA FlagsStep == FlagsType /\ RailsType /\ [ShellNext]_shellVars => FlagsType'
<1> SUFFICES ASSUME FlagsType, RailsType, [ShellNext]_shellVars
             PROVE  FlagsType'
  OBVIOUS
<1> USE DEF FlagsType
<1>1. ASSUME NEW theme \in Theme, ChooseTheme(theme) \/ ChooseThemeElsewhere(theme)
      PROVE  FlagsType'
  <2>1. blocked' = blocked /\ locked' = locked /\ pressed' = pressed /\ overlapped' = overlapped
    BY <1>1, Zenon DEF ChooseTheme, ChooseThemeElsewhere, menu, motion
  <2>2. apart' = (blocked /\ theme # StoredTheme) \/ apart' = (apart \/ theme # attr)
    BY <1>1, Zenon DEF ChooseTheme, ChooseThemeElsewhere
  <2>3. apart' \in BOOLEAN
    BY <2>2, Zenon
  <2>4. QED
    BY <2>1, <2>3, Zenon
<1>2. CASE OpenMenu \/ CloseMenu \/ CloseEvent
  <2>1. blocked' = blocked /\ apart' = apart /\ pressed' = pressed /\ overlapped' = overlapped
    BY <1>2, Zenon DEF OpenMenu, CloseMenu, CloseEvent, chosen, motion
  <2>2. locked' = TRUE \/ locked' = locked \/ locked' = (locked /\ label = "none")
    BY <1>2, Zenon DEF OpenMenu, CloseMenu, CloseEvent
  <2>3. locked' \in BOOLEAN
    BY <2>2, Zenon
  <2>4. QED
    BY <2>1, <2>3, Zenon
<1>3. CASE Toggle
  <2>1. blocked' = blocked /\ locked' = locked /\ overlapped' = overlapped /\ apart' = apart
    BY <1>3, Zenon DEF Toggle, chosen, menu
  <2>2. PICK last \in Start :
          /\ OnPage(last) /\ pressed' = rail'[last].explicit
          /\ rail' = [s \in Start |->
                        IF OnPage(s) THEN Synced([rail[s] EXCEPT !.explicit = ~@], visitor.hidden)
                                     ELSE rail[s]]
    BY <1>3, Zenon DEF Toggle
  <2>3. rail'[last].explicit = ~rail[last].explicit
    BY <2>2 DEF Synced, RailsType
  <2>4. pressed' \in BOOLEAN
    BY <2>2, <2>3, Zenon
  <2>5. QED
    BY <2>1, <2>4, Zenon
<1>4. CASE Point \/ Focus \/ HideOrShow
  BY <1>4, Zenon DEF Point, Focus, HideOrShow, chosen, menu
<1>5. CASE ChangePreference
  <2>1. blocked' = blocked /\ locked' = locked /\ overlapped' = overlapped /\ apart' = apart
    BY <1>5, Zenon DEF ChangePreference, chosen, menu
  <2>2. pressed' = (pressed /\ ~(visitor.still /\ \E s \in Start : OnPage(s)))
    BY <1>5, Zenon DEF ChangePreference
  <2>3. pressed' \in BOOLEAN
    BY <2>2, Zenon
  <2>4. QED
    BY <2>1, <2>3, Zenon
<1>6. CASE BeginSetup
  <2>1. /\ blocked' = blocked /\ apart' = apart /\ pressed' = pressed
        /\ locked' = (locked /\ lifecycle.cleanup = 0)
    BY <1>6, Zenon DEF BeginSetup
  <2>2. locked' \in BOOLEAN /\ overlapped' \subseteq Start
    <3>1. overlapped' \subseteq Start
      BY <1>6 DEF BeginSetup
    <3> QED
      BY <2>1, <3>1, Zenon
  <2>3. QED
    BY <2>1, <2>2, Zenon
<1>7. CASE Swap
  <2>1. /\ blocked' = blocked /\ apart' = FALSE /\ pressed' = FALSE /\ locked' = FALSE
        /\ overlapped' = overlapped \cup {s \in Start : SettingUp(s)}
    BY <1>7, Zenon DEF Swap
  <2>2. overlapped' \subseteq Start
    BY <2>1
  <2>3. QED
    BY <2>1, <2>2, Zenon
<1>8. ASSUME NEW s \in Start, Imported(s) \/ ImportRejected(s)
      PROVE  FlagsType'
  BY <1>8, Zenon DEF Imported, ImportRejected, chosen, menu, motion
<1>9. ASSUME NEW s \in Start, SetUp(s)
      PROVE  FlagsType'
  <2>1. blocked' = blocked /\ locked' = locked /\ overlapped' = overlapped /\ apart' = apart
    BY <1>9, Zenon DEF SetUp, chosen, menu
  <2>2. pressed' = (pressed /\ root[s] # page) \/ pressed' = pressed
    BY <1>9, Zenon DEF SetUp
  <2>3. pressed' \in BOOLEAN
    BY <2>2, Zenon
  <2>4. QED
    BY <2>1, <2>3, Zenon
<1>10. CASE UNCHANGED shellVars
  BY <1>10, Zenon DEF shellVars, chosen, menu, motion
<1>11. QED
  BY <1>1, <1>2, <1>3, <1>4, <1>5, <1>6, <1>7, <1>8, <1>9, <1>10, Zenon DEF ShellNext

\* A start takes one of the enhancements next, or is done.
LEMMA AfterIs ==
  ASSUME kind \in {"home", "legal"}, NEW e \in 0..Done
  PROVE  /\ After(e) \in 1..Done /\ (After(e) # Done => After(e) \in Effect /\ After(e) \in Effects(kind))
         /\ (\E f \in Effects(kind) : f > e) => After(e) \in Effect
         /\ e = Rail /\ e \in Effects(kind) => After(e) = Done
<1> DEFINE later == {f \in Effects(kind) : f > e}
<1>1. later \subseteq 1..3
  BY DEF Effects
<1>2. CASE later = {}
  BY <1>2 DEF After
<1>5. e = Rail /\ e \in Effects(kind) => later = {}
  BY DEF Effects
<1>3. CASE later # {}
  <2>1. \E f \in later : \A g \in later : f <= g
    <3>1. CASE 1 \in later
      BY <1>1, <3>1
    <3>2. CASE 1 \notin later /\ 2 \in later
      BY <1>1, <3>2
    <3>3. CASE 1 \notin later /\ 2 \notin later
      BY <1>1, <1>3, <3>3
    <3>4. QED
      BY <3>1, <3>2, <3>3
  <2>2. (CHOOSE f \in later : \A g \in later : f <= g) \in later
    BY <2>1, Zenon
  <2>3. After(e) \in later
    BY <1>3, <2>2, Zenon DEF After
  <2>4. After(e) \in 1..3 /\ After(e) \in Effects(kind)
    BY <1>1, <2>3, Zenon
  <2> HIDE DEF later
  <2>5. QED
    BY <1>3, <1>5, <2>4
<1>4. QED
  BY <1>2, <1>3

\* What GoOn and Cleaned do to the counts.
LEMMA GoesOn ==
  ASSUME StartsType, NEW s \in Start, SettingUp(s), GoOn(s, at[s])
  PROVE  /\ at' = [at EXCEPT ![s] = After(at[s])] /\ root' = [root EXCEPT ![s] = 0]
         /\ at' \in [Start -> 0..Lost] /\ root' \in [Start -> 0..MaxPages] /\ at'[s] \in 1..Done
         /\ lifecycle' \in [due : {"install", "load", "none"}, begun : 0..MaxStarts, cleanup : 0..MaxStarts]
         /\ lifecycle'.cleanup = IF at'[s] = Done THEN s ELSE lifecycle.cleanup
<1>1. After(at[s]) \in 1..Done
  <2>1. at[s] \in 0..Done /\ kind \in {"home", "legal"}
    BY DEF StartsType, SettingUp
  <2> QED
    BY <2>1, AfterIs, Zenon
<1>2. at' = [at EXCEPT ![s] = After(at[s])] /\ root' = [root EXCEPT ![s] = 0]
  BY DEF GoOn
<1>3. at'[s] = After(at[s])
  BY <1>2 DEF StartsType
<1>4. lifecycle' = IF at'[s] = Done THEN [lifecycle EXCEPT !.cleanup = s] ELSE lifecycle
  BY <1>3, Zenon DEF GoOn
<1>5. lifecycle \in [due : {"install", "load", "none"}, begun : 0..MaxStarts, cleanup : 0..MaxStarts]
  BY DEF StartsType
<1>6. s \in 0..MaxStarts
  OBVIOUS
<1>7. /\ lifecycle' \in [due : {"install", "load", "none"}, begun : 0..MaxStarts, cleanup : 0..MaxStarts]
      /\ lifecycle'.cleanup = IF at'[s] = Done THEN s ELSE lifecycle.cleanup
  <2>1. CASE at'[s] = Done
    BY <1>4, <1>5, <1>6, <2>1
  <2>2. CASE at'[s] # Done
    BY <1>4, <1>5, <2>2
  <2>3. QED
    BY <2>1, <2>2, Zenon
<1>8. at' \in [Start -> 0..Lost]
  <2>1. PICK v \in 1..Done : at' = [at EXCEPT ![s] = v]
    BY <1>1, <1>2, Zenon
  <2>2. QED
    BY <2>1 DEF StartsType
<1>9. root' \in [Start -> 0..MaxPages]
  BY <1>2 DEF StartsType
<1>10. at'[s] \in 1..Done
  BY <1>1, <1>3, Zenon
<1>11. QED
  BY <1>2, <1>7, <1>8, <1>9, <1>10, Zenon

\* A cleanup ends all effects of its start and of no other.
LEMMA CleanedLive ==
  ASSUME StartsType, NEW c, Cleaned(c)
  PROVE  /\ live' \in [Start -> [Effect -> 0..MaxPages]]
         /\ \A s \in Start : \A e \in Effect : live'[s][e] = IF s = c THEN 0 ELSE live[s][e]
<1>1. MaxPages \in Nat
  OBVIOUS
<1>2. live' = [s \in Start |-> IF s = c THEN [e \in Effect |-> 0] ELSE live[s]]
  BY DEF Cleaned
<1>3. QED
  BY <1>1, <1>2 DEF StartsType

\* Every step keeps the types of starts and their effects.
LEMMA StartsStep == StartsType /\ [ShellNext]_shellVars => StartsType'
<1> SUFFICES ASSUME StartsType, [ShellNext]_shellVars
             PROVE  StartsType'
  OBVIOUS
<1>1. ASSUME NEW theme \in Theme, ChooseTheme(theme) \/ ChooseThemeElsewhere(theme)
      PROVE  StartsType'
  BY <1>1, Zenon DEF ChooseTheme, ChooseThemeElsewhere, motion, StartsType
<1>2. CASE OpenMenu \/ CloseMenu \/ CloseEvent
  BY <1>2, Zenon DEF OpenMenu, CloseMenu, CloseEvent, motion, StartsType
<1>3. CASE Toggle \/ Point \/ Focus \/ HideOrShow \/ ChangePreference
  BY <1>3, Zenon DEF Toggle, Point, Focus, HideOrShow, ChangePreference, StartsType
<1>4. CASE BeginSetup
  <2> DEFINE n == lifecycle.begun + 1
  <2>1. /\ n \in Start /\ page' = page /\ kind' = kind /\ root' = root
        /\ lifecycle' = [lifecycle EXCEPT !.due = IF @ = "install" THEN "load" ELSE "none", !.begun = n]
        /\ at' = [at EXCEPT ![n] = After(0)] /\ Cleaned(lifecycle.cleanup)
    BY <1>4, Zenon DEF BeginSetup
  <2>2. After(0) \in 1..Done
    BY AfterIs DEF StartsType
  <2>3. live' \in [Start -> [Effect -> 0..MaxPages]]
    BY <2>1, CleanedLive
  <2> HIDE DEF n
  <2>4. lifecycle' \in [due : {"install", "load", "none"}, begun : 0..MaxStarts, cleanup : 0..MaxStarts]
    <3>1. lifecycle' = [lifecycle EXCEPT !.due = "load", !.begun = n]
          \/ lifecycle' = [lifecycle EXCEPT !.due = "none", !.begun = n]
      BY <2>1, Zenon
    <3>2. lifecycle \in [due : {"install", "load", "none"}, begun : 0..MaxStarts, cleanup : 0..MaxStarts]
      BY DEF StartsType
    <3>3. n \in 0..MaxStarts
      BY <2>1
    <3>4. QED
      BY <3>1, <3>2, <3>3
  <2>5. at' \in [Start -> 0..Lost]
    BY <2>1, <2>2 DEF StartsType
  <2>6. QED
    BY <2>1, <2>3, <2>4, <2>5 DEF StartsType
<1>5. CASE Swap
  <2>1. /\ page < MaxPages /\ page' = page + 1 /\ kind' \in {"home", "legal"}
        /\ at' = at /\ root' = root /\ Cleaned(lifecycle.cleanup)
        /\ lifecycle' = [lifecycle EXCEPT !.due = IF @ = "install" THEN @ ELSE "load"]
    BY <1>5, Zenon DEF Swap
  <2>2. live' \in [Start -> [Effect -> 0..MaxPages]]
    BY <2>1, CleanedLive
  <2>3. lifecycle' \in [due : {"install", "load", "none"}, begun : 0..MaxStarts, cleanup : 0..MaxStarts]
    BY <2>1 DEF StartsType
  <2>4. QED
    BY <2>1, <2>2, <2>3 DEF StartsType
<1>6. ASSUME NEW s \in Start, Imported(s)
      PROVE  StartsType'
  <2>1. page' = page /\ kind' = kind /\ live' = live
    BY <1>6, Zenon DEF Imported, motion
  <2>2. CASE at[s] \in Effects(kind)
    <3>1. root' = [root EXCEPT ![s] = page] /\ at' = at /\ lifecycle' = lifecycle
      BY <1>6, <2>2, Zenon DEF Imported
    <3>2. QED
      BY <2>1, <3>1 DEF StartsType
  <2>3. CASE at[s] \notin Effects(kind)
    <3>1. GoOn(s, at[s]) /\ SettingUp(s)
      BY <1>6, <2>3, Zenon DEF Imported
    <3>2. QED
      BY <2>1, <3>1, GoesOn, Zenon DEF StartsType
  <2>4. QED
    BY <2>2, <2>3
<1>7. ASSUME NEW s \in Start, SetUp(s)
      PROVE  StartsType'
  <2>1. /\ page' = page /\ kind' = kind /\ GoOn(s, at[s]) /\ SettingUp(s) /\ at[s] \in Effect
        /\ live' = [live EXCEPT ![s][at[s]] = root[s]]
    BY <1>7, Zenon DEF SetUp, SettingUp
  <2>2. live' \in [Start -> [Effect -> 0..MaxPages]]
    BY <2>1 DEF StartsType
  <2>3. QED
    BY <2>1, <2>2, GoesOn, Zenon DEF StartsType
<1>8. CASE UNCHANGED shellVars
  BY <1>8, Zenon DEF shellVars, motion, StartsType
<1>9. ASSUME NEW s \in Start, ImportRejected(s)
      PROVE  StartsType'
  <2>1. /\ at' = [at EXCEPT ![s] = Lost] /\ page' = page /\ kind' = kind /\ lifecycle' = lifecycle
        /\ root' = root /\ live' = live
    BY <1>9, Zenon DEF ImportRejected, motion
  <2>2. QED
    BY <2>1 DEF StartsType
<1>10. QED
  BY <1>1, <1>2, <1>3, <1>4, <1>5, <1>6, <1>7, <1>8, <1>9, Zenon DEF ShellNext

\* The flags of a rail, and what syncing them leaves.
RailFlags == [explicit : BOOLEAN, pointer : BOOLEAN, focus : BOOLEAN, paused : BOOLEAN]

\* A rail that is synced is paused for one of its reasons, which stay as they are.
LEMMA SyncedIs ==
  ASSUME NEW r \in RailFlags, NEW h \in BOOLEAN
  PROVE  /\ Synced(r, h) \in RailFlags
         /\ Synced(r, h).explicit = r.explicit /\ Synced(r, h).pointer = r.pointer
         /\ Synced(r, h).focus = r.focus
         /\ Synced(r, h).paused <=> r.explicit \/ r.pointer \/ r.focus \/ h
<1> DEFINE p == r.explicit \/ r.pointer \/ r.focus \/ h
<1>1. p \in BOOLEAN
  OBVIOUS
<1>2. Synced(r, h) = [r EXCEPT !.paused = p]
  BY DEF Synced
<1> HIDE DEF p
<1>3. /\ Synced(r, h) \in RailFlags
      /\ Synced(r, h).explicit = r.explicit /\ Synced(r, h).pointer = r.pointer
      /\ Synced(r, h).focus = r.focus /\ Synced(r, h).paused = p
  BY <1>1, <1>2 DEF RailFlags
<1>4. QED
  BY <1>3 DEF p

\* The toggle sets its own reason to pause.
LEMMA ExplicitSet ==
  ASSUME NEW r \in RailFlags, NEW b \in BOOLEAN, NEW h \in BOOLEAN, NEW x,
         x = Synced([r EXCEPT !.explicit = b], h)
  PROVE  /\ x \in RailFlags
         /\ x.explicit = b /\ x.pointer = r.pointer /\ x.focus = r.focus
         /\ x.paused <=> b \/ r.pointer \/ r.focus \/ h
<1> DEFINE y == [r EXCEPT !.explicit = b]
<1>1. y \in RailFlags /\ y.explicit = b /\ y.pointer = r.pointer /\ y.focus = r.focus
  BY DEF RailFlags
<1> HIDE DEF y
<1>2. x = Synced(y, h)
  BY DEF y
<1>3. /\ x \in RailFlags /\ x.explicit = y.explicit /\ x.pointer = y.pointer /\ x.focus = y.focus
      /\ x.paused <=> y.explicit \/ y.pointer \/ y.focus \/ h
  BY <1>1, <1>2, SyncedIs
<1>4. QED
  BY <1>1, <1>3

\* The pointer sets its own reason to pause.
LEMMA PointerSet ==
  ASSUME NEW r \in RailFlags, NEW b \in BOOLEAN, NEW h \in BOOLEAN, NEW x,
         x = Synced([r EXCEPT !.pointer = b], h)
  PROVE  /\ x \in RailFlags
         /\ x.pointer = b /\ x.explicit = r.explicit /\ x.focus = r.focus
         /\ x.paused <=> r.explicit \/ b \/ r.focus \/ h
<1> DEFINE y == [r EXCEPT !.pointer = b]
<1>1. y \in RailFlags /\ y.pointer = b /\ y.explicit = r.explicit /\ y.focus = r.focus
  BY DEF RailFlags
<1> HIDE DEF y
<1>2. x = Synced(y, h)
  BY DEF y
<1>3. /\ x \in RailFlags /\ x.explicit = y.explicit /\ x.pointer = y.pointer /\ x.focus = y.focus
      /\ x.paused <=> y.explicit \/ y.pointer \/ y.focus \/ h
  BY <1>1, <1>2, SyncedIs
<1>4. QED
  BY <1>1, <1>3

\* The focus sets its own reason to pause.
LEMMA FocusSet ==
  ASSUME NEW r \in RailFlags, NEW b \in BOOLEAN, NEW h \in BOOLEAN, NEW x,
         x = Synced([r EXCEPT !.focus = b], h)
  PROVE  /\ x \in RailFlags
         /\ x.focus = b /\ x.explicit = r.explicit /\ x.pointer = r.pointer
         /\ x.paused <=> r.explicit \/ r.pointer \/ b \/ h
<1> DEFINE y == [r EXCEPT !.focus = b]
<1>1. y \in RailFlags /\ y.focus = b /\ y.explicit = r.explicit /\ y.pointer = r.pointer
  BY DEF RailFlags
<1> HIDE DEF y
<1>2. x = Synced(y, h)
  BY DEF y
<1>3. /\ x \in RailFlags /\ x.explicit = y.explicit /\ x.pointer = y.pointer /\ x.focus = y.focus
      /\ x.paused <=> y.explicit \/ y.pointer \/ y.focus \/ h
  BY <1>1, <1>2, SyncedIs
<1>4. QED
  BY <1>1, <1>3

\* A rail that stands still has no reason of its own to pause.
LEMMA StillFlags ==
  /\ Still \in RailFlags
  /\ ~Still.explicit /\ ~Still.pointer /\ ~Still.focus
BY DEF Still, RailFlags

\* The types of rails and of the visitor, flag by flag.
LEMMA RailTypes ==
  ASSUME RailsType
  PROVE  /\ rail \in [Start -> RailFlags]
         /\ visitor \in [over : BOOLEAN, within : BOOLEAN, hidden : BOOLEAN, still : BOOLEAN]
         /\ visitor.over \in BOOLEAN /\ visitor.within \in BOOLEAN
         /\ visitor.hidden \in BOOLEAN /\ visitor.still \in BOOLEAN
         /\ (~visitor.over) \in BOOLEAN /\ (~visitor.within) \in BOOLEAN
         /\ (~visitor.hidden) \in BOOLEAN /\ (~visitor.still) \in BOOLEAN
<1>1. rail \in [Start -> RailFlags]
  BY Zenon DEF RailsType, RailFlags
<1>2. visitor \in [over : BOOLEAN, within : BOOLEAN, hidden : BOOLEAN, still : BOOLEAN]
  BY Zenon DEF RailsType
<1>3. /\ visitor.over \in BOOLEAN /\ visitor.within \in BOOLEAN
      /\ visitor.hidden \in BOOLEAN /\ visitor.still \in BOOLEAN
  BY <1>2
<1>4. QED
  BY <1>1, <1>2, <1>3, Zenon

\* What each event leaves in the flags of a rail it reaches.
LEMMA Toggled ==
  ASSUME RailsType, Toggle, NEW s \in Start, OnPage(s)
  PROVE  /\ rail'[s] \in RailFlags
         /\ rail'[s].explicit = (~rail[s].explicit)
         /\ rail'[s].pointer = rail[s].pointer /\ rail'[s].focus = rail[s].focus
         /\ rail'[s].paused <=> ~rail[s].explicit \/ rail[s].pointer \/ rail[s].focus \/ visitor.hidden
<1> DEFINE b == ~rail[s].explicit
<1>1. rail'[s] = Synced([rail[s] EXCEPT !.explicit = b], visitor.hidden)
  BY Zenon DEF Toggle
<1>2. rail[s] \in RailFlags /\ visitor.hidden \in BOOLEAN
  BY RailTypes
<1>3. b \in BOOLEAN
  BY Zenon
<1> HIDE DEF b
<1>4. /\ rail'[s] \in RailFlags
      /\ rail'[s].explicit = b
      /\ rail'[s].pointer = rail[s].pointer /\ rail'[s].focus = rail[s].focus
      /\ rail'[s].paused <=> b \/ rail[s].pointer \/ rail[s].focus \/ visitor.hidden
  BY <1>1, <1>2, <1>3, ExplicitSet
<1>5. QED
  BY <1>4, Zenon DEF b

\* What the pointer does to a rail that runs on the page.
LEMMA Pointed ==
  ASSUME RailsType, Point, NEW s \in Start, OnPage(s), ~visitor.still
  PROVE  /\ rail'[s] \in RailFlags
         /\ rail'[s].pointer = (~visitor.over)
         /\ rail'[s].explicit = rail[s].explicit /\ rail'[s].focus = rail[s].focus
         /\ rail'[s].paused <=> rail[s].explicit \/ ~visitor.over \/ rail[s].focus \/ visitor.hidden
<1> DEFINE b == ~visitor.over
<1>1. rail'[s] = Synced([rail[s] EXCEPT !.pointer = b], visitor.hidden)
  BY Zenon DEF Point
<1>2. rail[s] \in RailFlags /\ visitor.hidden \in BOOLEAN
  BY RailTypes
<1>3. b \in BOOLEAN
  BY Zenon, RailTypes
<1> HIDE DEF b
<1>4. /\ rail'[s] \in RailFlags
      /\ rail'[s].pointer = b
      /\ rail'[s].explicit = rail[s].explicit /\ rail'[s].focus = rail[s].focus
      /\ rail'[s].paused <=> rail[s].explicit \/ b \/ rail[s].focus \/ visitor.hidden
  BY <1>1, <1>2, <1>3, PointerSet
<1>5. QED
  BY <1>4, Zenon DEF b

\* What the focus does to a rail that runs on the page.
LEMMA Focused ==
  ASSUME RailsType, Focus, NEW s \in Start, OnPage(s), ~visitor.still
  PROVE  /\ rail'[s] \in RailFlags
         /\ rail'[s].focus = (~visitor.within)
         /\ rail'[s].explicit = rail[s].explicit /\ rail'[s].pointer = rail[s].pointer
         /\ rail'[s].paused <=> rail[s].explicit \/ rail[s].pointer \/ ~visitor.within \/ visitor.hidden
<1> DEFINE b == ~visitor.within
<1>1. rail'[s] = Synced([rail[s] EXCEPT !.focus = b], visitor.hidden)
  BY Zenon DEF Focus
<1>2. rail[s] \in RailFlags /\ visitor.hidden \in BOOLEAN
  BY RailTypes
<1>3. b \in BOOLEAN
  BY Zenon, RailTypes
<1> HIDE DEF b
<1>4. /\ rail'[s] \in RailFlags
      /\ rail'[s].focus = b
      /\ rail'[s].explicit = rail[s].explicit /\ rail'[s].pointer = rail[s].pointer
      /\ rail'[s].paused <=> rail[s].explicit \/ rail[s].pointer \/ b \/ visitor.hidden
  BY <1>1, <1>2, <1>3, FocusSet
<1>5. QED
  BY <1>4, Zenon DEF b

\* What a tab that is hidden or shown does to a rail that runs.
LEMMA Hidden ==
  ASSUME RailsType, HideOrShow, NEW s \in Start, live[s][Rail] # 0, ~visitor.still
  PROVE  /\ rail'[s] \in RailFlags
         /\ rail'[s].explicit = rail[s].explicit /\ rail'[s].pointer = rail[s].pointer
         /\ rail'[s].focus = rail[s].focus
         /\ rail'[s].paused <=> rail[s].explicit \/ rail[s].pointer \/ rail[s].focus \/ ~visitor.hidden
<1>1. rail'[s] = Synced(rail[s], ~visitor.hidden)
  BY Zenon DEF HideOrShow
<1>2. rail[s] \in RailFlags
  BY RailTypes
<1> DEFINE b == ~visitor.hidden
<1>3. b \in BOOLEAN
  BY Zenon
<1>4. rail'[s] = Synced(rail[s], b)
  BY <1>1
<1> HIDE DEF b
<1>5. /\ rail'[s] \in RailFlags
      /\ rail'[s].explicit = rail[s].explicit /\ rail'[s].pointer = rail[s].pointer
      /\ rail'[s].focus = rail[s].focus
      /\ rail'[s].paused <=> rail[s].explicit \/ rail[s].pointer \/ rail[s].focus \/ b
  BY <1>2, <1>3, <1>4, SyncedIs
<1>6. QED
  BY <1>5, Zenon DEF b

\* A rail that is set up, at first or again.
LEMMA Fresh ==
  ASSUME NEW h \in BOOLEAN
  PROVE  /\ Synced(Still, h) \in RailFlags
         /\ ~Synced(Still, h).explicit /\ ~Synced(Still, h).pointer /\ ~Synced(Still, h).focus
         /\ Synced(Still, h).paused <=> h
BY StillFlags, SyncedIs

\* Every step keeps the types of rails.
LEMMA RailsTypeStep == RailsType /\ [ShellNext]_shellVars => RailsType'
<1> SUFFICES ASSUME RailsType, [ShellNext]_shellVars
             PROVE  RailsType'
  OBVIOUS
<1>1. /\ rail' \in [Start -> RailFlags]
      /\ visitor' \in [over : BOOLEAN, within : BOOLEAN, hidden : BOOLEAN, still : BOOLEAN]
      => RailsType'
  BY Zenon DEF RailsType, RailFlags
<1> HIDE DEF Start
<1>2. CASE UNCHANGED <<rail, visitor>>
  BY <1>2, Zenon DEF RailsType
<1>3. CASE Toggle
  <2>1. rail' = [s \in Start |->
                   IF OnPage(s)
                   THEN Synced([rail[s] EXCEPT !.explicit = ~@], visitor.hidden) ELSE rail[s]]
    BY <1>3, Zenon DEF Toggle
  <2>2. \A s \in Start : OnPage(s) => rail'[s] \in RailFlags
    BY <1>3, Toggled
  <2>3. \A s \in Start : rail'[s] \in RailFlags
    BY <2>1, <2>2, RailTypes, Zenon
  <2>4. rail' \in [Start -> RailFlags]
    BY <2>1, <2>3, Zenon
  <2>5. visitor' \in [over : BOOLEAN, within : BOOLEAN, hidden : BOOLEAN, still : BOOLEAN]
    BY <1>3, RailTypes DEF Toggle
  <2>6. QED
    BY <1>1, <2>4, <2>5, Zenon
<1>4. CASE Point
  <2>1. rail' = [s \in Start |->
                   IF OnPage(s) /\ ~visitor.still
                   THEN Synced([rail[s] EXCEPT !.pointer = ~visitor.over], visitor.hidden) ELSE rail[s]]
    BY <1>4, Zenon DEF Point
  <2>2. \A s \in Start : OnPage(s) /\ ~visitor.still => rail'[s] \in RailFlags
    BY <1>4, Pointed
  <2>3. \A s \in Start : rail'[s] \in RailFlags
    BY <2>1, <2>2, RailTypes, Zenon
  <2>4. rail' \in [Start -> RailFlags]
    BY <2>1, <2>3, Zenon
  <2>5. visitor' \in [over : BOOLEAN, within : BOOLEAN, hidden : BOOLEAN, still : BOOLEAN]
    BY <1>4, RailTypes DEF Point
  <2>6. QED
    BY <1>1, <2>4, <2>5, Zenon
<1>5. CASE Focus
  <2>1. rail' = [s \in Start |->
                   IF OnPage(s) /\ ~visitor.still
                   THEN Synced([rail[s] EXCEPT !.focus = ~visitor.within], visitor.hidden) ELSE rail[s]]
    BY <1>5, Zenon DEF Focus
  <2>2. \A s \in Start : OnPage(s) /\ ~visitor.still => rail'[s] \in RailFlags
    BY <1>5, Focused
  <2>3. \A s \in Start : rail'[s] \in RailFlags
    BY <2>1, <2>2, RailTypes, Zenon
  <2>4. rail' \in [Start -> RailFlags]
    BY <2>1, <2>3, Zenon
  <2>5. visitor' \in [over : BOOLEAN, within : BOOLEAN, hidden : BOOLEAN, still : BOOLEAN]
    BY <1>5, RailTypes DEF Focus
  <2>6. QED
    BY <1>1, <2>4, <2>5, Zenon
<1>6. CASE HideOrShow
  <2>1. rail' = [s \in Start |->
                   IF live[s][Rail] # 0 /\ ~visitor.still
                   THEN Synced(rail[s], ~visitor.hidden) ELSE rail[s]]
    BY <1>6, Zenon DEF HideOrShow
  <2>2. \A s \in Start : live[s][Rail] # 0 /\ ~visitor.still => rail'[s] \in RailFlags
    BY <1>6, Hidden
  <2>3. \A s \in Start : rail'[s] \in RailFlags
    BY <2>1, <2>2, RailTypes, Zenon
  <2>4. rail' \in [Start -> RailFlags]
    BY <2>1, <2>3, Zenon
  <2>5. visitor' \in [over : BOOLEAN, within : BOOLEAN, hidden : BOOLEAN, still : BOOLEAN]
    BY <1>6, RailTypes DEF HideOrShow
  <2>6. QED
    BY <1>1, <2>4, <2>5, Zenon
<1>7. CASE ChangePreference
  <2>1. rail' = [s \in Start |-> IF live[s][Rail] # 0 /\ visitor.still
                                 THEN Synced(Still, visitor.hidden) ELSE Still]
    BY <1>7, Zenon DEF ChangePreference
  <2>2. Synced(Still, visitor.hidden) \in RailFlags
    BY RailTypes, Fresh
  <2>3. rail' \in [Start -> RailFlags]
    BY <2>1, <2>2, StillFlags, Zenon
  <2>4. visitor' \in [over : BOOLEAN, within : BOOLEAN, hidden : BOOLEAN, still : BOOLEAN]
    BY <1>7, RailTypes DEF ChangePreference
  <2>5. QED
    BY <1>1, <2>3, <2>4, Zenon
<1>8. ASSUME NEW c, Cleaned(c)
      PROVE  rail' \in [Start -> RailFlags]
  <2>1. rail' = [s \in Start |-> IF s = c THEN Still ELSE rail[s]]
    BY <1>8, Zenon DEF Cleaned
  <2>2. QED
    BY <2>1, RailTypes, StillFlags, Zenon
<1>9. CASE BeginSetup
  <2>1. Cleaned(lifecycle.cleanup) /\ visitor' = visitor
    BY <1>9, Zenon DEF BeginSetup
  <2>2. QED
    BY <1>1, <1>8, <2>1, RailTypes, Zenon
<1>10. CASE Swap
  <2>1. Cleaned(lifecycle.cleanup) /\ visitor' = [visitor EXCEPT !.over = FALSE, !.within = FALSE]
    BY <1>10, Zenon DEF Swap
  <2>2. visitor' \in [over : BOOLEAN, within : BOOLEAN, hidden : BOOLEAN, still : BOOLEAN]
    BY <2>1, RailTypes
  <2>3. QED
    BY <1>1, <1>8, <2>1, <2>2, Zenon
<1>11. ASSUME NEW s \in Start, SetUp(s)
       PROVE  RailsType'
  <2>1. visitor' = visitor /\ (rail' = rail \/ rail' = [rail EXCEPT ![s] = Synced(Still, visitor.hidden)])
    BY <1>11, Zenon DEF SetUp
  <2>2. Synced(Still, visitor.hidden) \in RailFlags
    BY RailTypes, Fresh
  <2>3. rail' \in [Start -> RailFlags]
    BY <2>1, <2>2, RailTypes
  <2>4. QED
    BY <1>1, <2>1, <2>3, RailTypes, Zenon
<1>12. QED
  BY <1>2, <1>3, <1>4, <1>5, <1>6, <1>7, <1>9, <1>10, <1>11, Zenon
     DEF ShellNext, ChooseTheme, ChooseThemeElsewhere, OpenMenu, CloseMenu, CloseEvent, Imported, ImportRejected,
         motion, shellVars

\* The menus name the theme that the document shows and the storage holds, and a body
\* that does not scroll has its menu open, which was set up before.
MenusAgree ==
  /\ ~apart => attr = StoredTheme /\ (label # "none" => label = attr)
  /\ dialog # "shut" => label # "none"
  /\ locked => dialog # "shut"

\* The theme menus agree with the theme after every step.
LEMMA MenusStep == DocumentType /\ MenusAgree /\ [ShellNext]_shellVars => MenusAgree'
<1> SUFFICES ASSUME DocumentType, MenusAgree, [ShellNext]_shellVars
             PROVE  MenusAgree'
  OBVIOUS
<1> USE DEF MenusAgree
<1>1. ASSUME UNCHANGED <<chosen, menu>>
      PROVE  MenusAgree'
  <2>1. /\ stored' = stored /\ attr' = attr /\ label' = label /\ apart' = apart
        /\ dialog' = dialog /\ locked' = locked
    BY <1>1, Zenon DEF chosen, menu
  <2>2. StoredTheme' = StoredTheme
    BY <2>1, Zenon DEF StoredTheme
  <2>3. QED
    BY <2>1, <2>2, Zenon
<1>2. ASSUME NEW theme \in Theme, ChooseTheme(theme)
      PROVE  MenusAgree'
  <2>1. attr' = theme /\ label' = theme /\ dialog' = dialog /\ locked' = locked
    BY <1>2, Zenon DEF ChooseTheme, menu
  <2>2. label # "none" /\ theme # "none"
    BY <1>2 DEF ChooseTheme
  <2>3. ~apart' => StoredTheme' = theme
    <3>1. CASE blocked
      BY <1>2, <3>1, Zenon DEF ChooseTheme, StoredTheme
    <3>2. CASE ~blocked
      BY <1>2, <3>2, Zenon DEF ChooseTheme, StoredTheme
    <3>3. QED
      BY <3>1, <3>2
  <2>4. QED
    BY <2>1, <2>2, <2>3, Zenon
<1>3. ASSUME NEW theme \in Theme, ChooseThemeElsewhere(theme)
      PROVE  MenusAgree'
  <2>1. /\ attr' = attr /\ label' = label /\ dialog' = dialog /\ locked' = locked /\ stored' = theme
        /\ apart' = (apart \/ theme # attr)
    BY <1>3, Zenon DEF ChooseThemeElsewhere, menu
  <2>2. StoredTheme' = theme
    BY <2>1, Zenon DEF StoredTheme
  <2>3. QED
    BY <2>1, <2>2, Zenon
<1>4. CASE OpenMenu \/ CloseMenu \/ CloseEvent
  <2>1. attr' = attr /\ label' = label /\ stored' = stored /\ apart' = apart
    BY <1>4, Zenon DEF OpenMenu, CloseMenu, CloseEvent, chosen
  <2>2. StoredTheme' = StoredTheme
    BY <2>1, Zenon DEF StoredTheme
  <2>3. (dialog' # "shut" => label # "none") /\ (locked' => dialog' # "shut")
    BY <1>4 DEF OpenMenu, CloseMenu, CloseEvent
  <2>4. QED
    BY <2>1, <2>2, <2>3, Zenon
<1>5. CASE BeginSetup
  <2>1. /\ attr' = attr /\ label' = StoredTheme /\ stored' = stored /\ apart' = apart
        /\ dialog' = dialog /\ locked' = (locked /\ lifecycle.cleanup = 0)
    BY <1>5, Zenon DEF BeginSetup
  <2>2. StoredTheme' = StoredTheme
    BY <2>1, Zenon DEF StoredTheme
  <2>3. StoredTheme # "none"
    BY StoredIsTheme DEF DocumentType
  <2>4. QED
    BY <2>1, <2>2, <2>3, Zenon
<1>6. CASE Swap
  <2>1. /\ attr' = StoredTheme /\ label' = "none" /\ stored' = stored /\ apart' = FALSE
        /\ dialog' = "shut" /\ locked' = FALSE
    BY <1>6, Zenon DEF Swap
  <2>2. StoredTheme' = StoredTheme
    BY <2>1, Zenon DEF StoredTheme
  <2>3. QED
    BY <2>1, <2>2, Zenon
<1>7. QED
  BY <1>1, <1>2, <1>3, <1>4, <1>5, <1>6, Zenon
     DEF ShellNext, Toggle, Point, Focus, HideOrShow, ChangePreference, Imported, ImportRejected, SetUp, shellVars

\* What the steps of a start leave in the elements it holds and the animations it runs.
LEMMA StartTypes ==
  ASSUME StartsType
  PROVE  /\ page \in Nat /\ page >= 1
         /\ \A s \in Start : root[s] \in Nat /\ \A e \in Effect : live[s][e] \in Nat
<1>1. MaxPages \in Nat
  OBVIOUS
<1>2. page \in Nat /\ page >= 1
  BY <1>1 DEF StartsType
<1>3. \A s \in Start : root[s] \in 0..MaxPages /\ live[s] \in [Effect -> 0..MaxPages]
  BY Zenon DEF StartsType
<1>4. \A s \in Start : \A e \in Effect : live[s][e] \in 0..MaxPages
  BY <1>3, Zenon
<1> HIDE DEF Start, Effect
<1>5. QED
  BY <1>1, <1>2, <1>3, <1>4

\* A setup adds one effect to the page its start found.
LEMMA SetUpLive ==
  ASSUME StartsType, NEW s \in Start, SetUp(s)
  PROVE  /\ at[s] \in Effect
         /\ \A t \in Start : \A e \in Effect :
              live'[t][e] = IF t = s /\ e = at[s] THEN root[s] ELSE live[t][e]
         /\ \A t \in Start : root'[t] = IF t = s THEN 0 ELSE root[t]
<1>1. /\ at[s] \in Effect /\ root' = [root EXCEPT ![s] = 0]
      /\ live' = [live EXCEPT ![s][at[s]] = root[s]]
  BY Zenon DEF SetUp, GoOn, SettingUp
<1>2. QED
  BY <1>1 DEF StartsType

\* No start holds or runs on a document to come.
PagesBehind ==
  \A s \in Start : root[s] <= page /\ \A e \in Effect : live[s][e] <= page

\* No effect is of a page that is yet to come.
LEMMA PagesStep == StartsType /\ PagesBehind /\ [ShellNext]_shellVars => PagesBehind'
<1> SUFFICES ASSUME StartsType, PagesBehind, [ShellNext]_shellVars
             PROVE  PagesBehind'
  OBVIOUS
<1>1. UNCHANGED <<page, root, live>> => PagesBehind'
  BY Zenon DEF PagesBehind
<1>2. CASE BeginSetup \/ Swap
  <2>1. /\ (page' = page \/ page' = page + 1) /\ root' = root /\ Cleaned(lifecycle.cleanup)
    BY <1>2, Zenon DEF BeginSetup, Swap
  <2>2. page \in Nat /\ page <= page'
    BY <2>1, StartTypes
  <2>3. ASSUME NEW s \in Start
        PROVE  root'[s] <= page'
    BY <2>1, <2>2, StartTypes DEF PagesBehind
  <2>4. ASSUME NEW s \in Start, NEW e \in Effect
        PROVE  live'[s][e] <= page'
    <3>1. live'[s][e] = 0 \/ live'[s][e] = live[s][e]
      BY <2>1, CleanedLive, Zenon
    <3>2. live[s][e] \in Nat /\ live[s][e] <= page /\ page' \in Nat
      BY <2>1, StartTypes DEF PagesBehind
    <3> HIDE DEF Start, Effect
    <3>3. QED
      BY <2>2, <3>1, <3>2
  <2>5. QED
    BY <2>3, <2>4, Zenon DEF PagesBehind
<1>3. ASSUME NEW s \in Start, Imported(s)
      PROVE  PagesBehind'
  <2>1. page' = page /\ live' = live
    BY <1>3, Zenon DEF Imported, motion
  <2>2. root' = [root EXCEPT ![s] = page] \/ root' = [root EXCEPT ![s] = 0]
    BY <1>3, Zenon DEF Imported, GoOn
  <2>3. \A t \in Start : root'[t] \in {0, page, root[t]}
    BY <2>2 DEF StartsType
  <2>4. \A t \in Start : root'[t] <= page
    BY <2>3, StartTypes DEF PagesBehind
  <2>5. QED
    BY <2>1, <2>4, Zenon DEF PagesBehind
<1>4. ASSUME NEW s \in Start, SetUp(s)
      PROVE  PagesBehind'
  <2>1. page' = page
    BY <1>4, Zenon DEF SetUp
  <2>2. ASSUME NEW t \in Start
        PROVE  root'[t] <= page /\ \A e \in Effect : live'[t][e] <= page
    BY <1>4, <2>2, SetUpLive, StartTypes DEF PagesBehind
  <2>3. QED
    BY <2>1, <2>2, Zenon DEF PagesBehind
<1>5. QED
  BY <1>1, <1>2, <1>3, <1>4, Zenon
     DEF ShellNext, ChooseTheme, ChooseThemeElsewhere, OpenMenu, CloseMenu, CloseEvent, Toggle,
         Point, Focus, HideOrShow, ChangePreference, ImportRejected, motion, shellVars

\* A rail that runs is paused exactly when the visitor wants it to be, and one that does
\* not run has no flags; the flags of one on the document shown are the visitor's.
RailsTold ==
  \A s \in Start :
    /\ live[s][Rail] # 0 /\ ~visitor.still =>
         (rail[s].paused <=> rail[s].explicit \/ rail[s].pointer \/ rail[s].focus \/ visitor.hidden)
    /\ live[s][Rail] = 0 \/ visitor.still => rail[s] = Still
    /\ OnPage(s) => (rail[s].pointer => visitor.over) /\ (rail[s].focus => visitor.within)

\* The flags of a rail say why it is paused, after every step.
LEMMA RailsStep ==
  StartsType /\ RailsType /\ PagesBehind /\ RailsTold /\ [ShellNext]_shellVars => RailsTold'
<1> SUFFICES ASSUME StartsType, RailsType, PagesBehind, RailsTold, [ShellNext]_shellVars, NEW s \in Start
             PROVE  (/\ live[s][Rail] # 0 /\ ~visitor.still =>
                          (rail[s].paused <=>
                             rail[s].explicit \/ rail[s].pointer \/ rail[s].focus \/ visitor.hidden)
                     /\ live[s][Rail] = 0 \/ visitor.still => rail[s] = Still
                     /\ OnPage(s) => (rail[s].pointer => visitor.over) /\ (rail[s].focus => visitor.within))'
  BY Zenon DEF RailsTold
<1> DEFINE Told == /\ live[s][Rail] # 0 /\ ~visitor.still =>
                        (rail[s].paused <=>
                           rail[s].explicit \/ rail[s].pointer \/ rail[s].focus \/ visitor.hidden)
                   /\ live[s][Rail] = 0 \/ visitor.still => rail[s] = Still
                   /\ OnPage(s) => (rail[s].pointer => visitor.over) /\ (rail[s].focus => visitor.within)
<1>1. Told
  BY Zenon DEF RailsTold
<1>2. OnPage(s) => live[s][Rail] # 0
  BY DEF OnPage, StartsType
<1> HIDE DEF Start, Rail
<1>3. CASE UNCHANGED <<page, live, rail, visitor>>
  BY <1>1, <1>3, Zenon DEF OnPage
<1>4. CASE Toggle
  <2>1. /\ page' = page /\ live' = live /\ visitor' = visitor /\ ~visitor.still
        /\ ~OnPage(s) => rail'[s] = rail[s]
    BY <1>4, Zenon DEF Toggle
  <2>2. CASE OnPage(s)
    <3>1. /\ rail'[s].explicit = (~rail[s].explicit)
          /\ rail'[s].pointer = rail[s].pointer /\ rail'[s].focus = rail[s].focus
          /\ rail'[s].paused <=> (~rail[s].explicit) \/ rail[s].pointer \/ rail[s].focus \/ visitor.hidden
      BY <1>4, <2>2, Toggled
    <3>2. QED
      BY <1>1, <1>2, <2>1, <2>2, <3>1, Zenon DEF OnPage
  <2>3. CASE ~OnPage(s)
    BY <1>1, <2>1, <2>3, Zenon DEF OnPage
  <2>4. QED
    BY <2>2, <2>3
<1>5. CASE Point
  <2>1. /\ page' = page /\ live' = live /\ visitor' = [visitor EXCEPT !.over = ~@]
        /\ ~(OnPage(s) /\ ~visitor.still) => rail'[s] = rail[s]
    BY <1>5, Zenon DEF Point
  <2>2. /\ visitor'.over = (~visitor.over) /\ visitor'.within = visitor.within
        /\ visitor'.hidden = visitor.hidden /\ visitor'.still = visitor.still
    BY <2>1, RailTypes
  <2>3. CASE OnPage(s) /\ ~visitor.still
    <3>1. /\ rail'[s].pointer = (~visitor.over)
          /\ rail'[s].explicit = rail[s].explicit /\ rail'[s].focus = rail[s].focus
          /\ rail'[s].paused <=> rail[s].explicit \/ (~visitor.over) \/ rail[s].focus \/ visitor.hidden
      BY <1>5, <2>3, Pointed
    <3>2. QED
      BY <1>1, <1>2, <2>1, <2>2, <2>3, <3>1, Zenon DEF OnPage
  <2>4. CASE ~(OnPage(s) /\ ~visitor.still)
    <3>1. rail'[s] = rail[s]
      BY <2>1, <2>4
    <3>2. OnPage(s) => rail[s] = Still
      BY <1>1, <2>4, Zenon
    <3>3. QED
      BY <1>1, <2>1, <2>2, <3>1, <3>2, StillFlags, Zenon DEF OnPage
  <2>5. QED
    BY <2>3, <2>4, Zenon
<1>6. CASE Focus
  <2>1. /\ page' = page /\ live' = live /\ visitor' = [visitor EXCEPT !.within = ~@]
        /\ ~(OnPage(s) /\ ~visitor.still) => rail'[s] = rail[s]
    BY <1>6, Zenon DEF Focus
  <2>2. /\ visitor'.within = (~visitor.within) /\ visitor'.over = visitor.over
        /\ visitor'.hidden = visitor.hidden /\ visitor'.still = visitor.still
    BY <2>1, RailTypes
  <2>3. CASE OnPage(s) /\ ~visitor.still
    <3>1. /\ rail'[s].focus = (~visitor.within)
          /\ rail'[s].explicit = rail[s].explicit /\ rail'[s].pointer = rail[s].pointer
          /\ rail'[s].paused <=> rail[s].explicit \/ rail[s].pointer \/ (~visitor.within) \/ visitor.hidden
      BY <1>6, <2>3, Focused
    <3>2. QED
      BY <1>1, <1>2, <2>1, <2>2, <2>3, <3>1, Zenon DEF OnPage
  <2>4. CASE ~(OnPage(s) /\ ~visitor.still)
    <3>1. rail'[s] = rail[s]
      BY <2>1, <2>4
    <3>2. OnPage(s) => rail[s] = Still
      BY <1>1, <2>4, Zenon
    <3>3. QED
      BY <1>1, <2>1, <2>2, <3>1, <3>2, StillFlags, Zenon DEF OnPage
  <2>5. QED
    BY <2>3, <2>4, Zenon
<1>7. CASE HideOrShow
  <2>1. /\ page' = page /\ live' = live /\ visitor' = [visitor EXCEPT !.hidden = ~@]
        /\ ~(live[s][Rail] # 0 /\ ~visitor.still) => rail'[s] = rail[s]
    BY <1>7, Zenon DEF HideOrShow
  <2>2. /\ visitor'.hidden = (~visitor.hidden) /\ visitor'.still = visitor.still
        /\ visitor'.over = visitor.over /\ visitor'.within = visitor.within
    BY <2>1, RailTypes
  <2>3. CASE live[s][Rail] # 0 /\ ~visitor.still
    <3>1. /\ rail'[s].explicit = rail[s].explicit /\ rail'[s].pointer = rail[s].pointer
          /\ rail'[s].focus = rail[s].focus
          /\ rail'[s].paused <=> rail[s].explicit \/ rail[s].pointer \/ rail[s].focus \/ ~visitor.hidden
      BY <1>7, <2>3, Hidden
    <3>2. QED
      BY <1>1, <2>1, <2>2, <2>3, <3>1, Zenon DEF OnPage
  <2>4. CASE ~(live[s][Rail] # 0 /\ ~visitor.still)
    BY <1>1, <2>1, <2>2, <2>4, Zenon DEF OnPage
  <2>5. QED
    BY <2>3, <2>4, Zenon
<1>8. CASE ChangePreference
  <2>1. /\ page' = page /\ live' = live /\ visitor' = [visitor EXCEPT !.still = ~@]
        /\ rail'[s] = IF live[s][Rail] # 0 /\ visitor.still THEN Synced(Still, visitor.hidden) ELSE Still
    BY <1>8, Zenon DEF ChangePreference
  <2>2. /\ visitor'.still = (~visitor.still) /\ visitor'.hidden = visitor.hidden
        /\ visitor'.over = visitor.over /\ visitor'.within = visitor.within
    BY <2>1, RailTypes
  <2>3. /\ ~Synced(Still, visitor.hidden).explicit /\ ~Synced(Still, visitor.hidden).pointer
        /\ ~Synced(Still, visitor.hidden).focus
        /\ Synced(Still, visitor.hidden).paused <=> visitor.hidden
    BY Fresh, RailTypes, Zenon
  <2>4. CASE live[s][Rail] # 0 /\ visitor.still
    <3>1. rail'[s] = Synced(Still, visitor.hidden)
      BY <2>1, <2>4
    <3>2. QED
      BY <2>1, <2>2, <2>3, <2>4, <3>1, Zenon DEF OnPage
  <2>5. CASE ~(live[s][Rail] # 0 /\ visitor.still)
    <3>1. rail'[s] = Still
      BY <2>1, <2>5
    <3>2. QED
      BY <2>1, <2>2, <2>5, <3>1, StillFlags, Zenon DEF OnPage
  <2>6. QED
    BY <2>4, <2>5, Zenon
<1>9. ASSUME NEW c, Cleaned(c)
      PROVE  /\ s = c => live'[s][Rail] = 0 /\ rail'[s] = Still
             /\ s # c => live'[s][Rail] = live[s][Rail] /\ rail'[s] = rail[s]
  <2>1. rail'[s] = IF s = c THEN Still ELSE rail[s]
    BY <1>9, Zenon DEF Cleaned
  <2>2. live'[s][Rail] = IF s = c THEN 0 ELSE live[s][Rail]
    BY <1>9, CleanedLive DEF Rail
  <2>3. QED
    BY <2>1, <2>2, Zenon
<1>10. CASE BeginSetup
  <2>1. Cleaned(lifecycle.cleanup) /\ page' = page /\ visitor' = visitor
    BY <1>10, Zenon DEF BeginSetup
  <2>2. page # 0
    BY StartTypes
  <2>3. \/ live'[s][Rail] = 0 /\ rail'[s] = Still
        \/ live'[s][Rail] = live[s][Rail] /\ rail'[s] = rail[s]
    BY <1>9, <2>1, Zenon
  <2>4. QED
    BY <1>1, <2>1, <2>2, <2>3, Zenon DEF OnPage
<1>11. CASE Swap
  <2>1. /\ Cleaned(lifecycle.cleanup) /\ page' = page + 1
        /\ visitor' = [visitor EXCEPT !.over = FALSE, !.within = FALSE]
    BY <1>11, Zenon DEF Swap
  <2>2. visitor'.still = visitor.still /\ visitor'.hidden = visitor.hidden
    BY <2>1, RailTypes
  <2>3. \/ live'[s][Rail] = 0 /\ rail'[s] = Still
        \/ live'[s][Rail] = live[s][Rail] /\ rail'[s] = rail[s]
    BY <1>9, <2>1, Zenon
  <2>4. live[s][Rail] \in Nat /\ live[s][Rail] <= page /\ page \in Nat
    BY StartTypes DEF PagesBehind, Rail
  <2>5. ~OnPage(s)'
    BY <2>1, <2>3, <2>4 DEF OnPage
  <2>6. QED
    BY <1>1, <2>2, <2>3, <2>5, Zenon
<1>12. ASSUME NEW t \in Start, SetUp(t)
       PROVE  Told'
  <2>1. /\ page' = page /\ visitor' = visitor
        /\ IF at[t] = Rail /\ ~visitor.still
           THEN rail' = [rail EXCEPT ![t] = Synced(Still, visitor.hidden)] ELSE rail' = rail
    BY <1>12, Zenon DEF SetUp
  <2>2. CASE s = t /\ at[t] = Rail
    <3>1. root[t] # 0 /\ live'[s][Rail] = root[t]
      <4>1. root[t] # 0
        BY <1>12, Zenon DEF SetUp
      <4>2. live'[s][Rail] = root[t]
        BY <1>12, <2>2, SetUpLive DEF Rail
      <4>3. QED
        BY <4>1, <4>2
    <3>2. CASE visitor.still
      BY <1>1, <2>1, <3>1, <3>2, StillFlags, Zenon DEF OnPage
    <3>3. CASE ~visitor.still
      <4>1. rail'[s] = Synced(Still, visitor.hidden)
        BY <2>1, <2>2, <3>3, RailTypes
      <4>2. /\ ~Synced(Still, visitor.hidden).explicit /\ ~Synced(Still, visitor.hidden).pointer
            /\ ~Synced(Still, visitor.hidden).focus
            /\ Synced(Still, visitor.hidden).paused <=> visitor.hidden
        BY Fresh, RailTypes, Zenon
      <4>3. QED
        BY <2>1, <3>1, <3>3, <4>1, <4>2, Zenon
    <3>4. QED
      BY <3>2, <3>3
  <2>3. CASE ~(s = t /\ at[t] = Rail)
    <3>1. live'[s][Rail] = live[s][Rail]
      BY <1>12, <2>3, SetUpLive DEF Rail
    <3>2. rail'[s] = rail[s]
      BY <2>1, <2>3, RailTypes
    <3>3. QED
      BY <1>1, <2>1, <3>1, <3>2, Zenon DEF OnPage
  <2>4. QED
    BY <2>2, <2>3
<1>13. QED
  BY <1>3, <1>4, <1>5, <1>6, <1>7, <1>8, <1>10, <1>11, <1>12, Zenon
     DEF ShellNext, ChooseTheme, ChooseThemeElsewhere, OpenMenu, CloseMenu, CloseEvent, Imported, ImportRejected,
         motion, shellVars

\* Starts begin in order, and only one that began is set up or cleaned up.
Born ==
  /\ lifecycle.cleanup <= lifecycle.begun
  /\ \A s \in Start : at[s] # 0 => s <= lifecycle.begun

\* The start whose cleanup the lifecycle holds, while no setup is under way.
Settled(s) == s = lifecycle.cleanup /\ \A x \in Start : ~SettingUp(x)

\* A start that was not overtaken is set up on the document shown, whose rail it takes
\* last; and what it runs there is its own until its cleanup is handed over or lost.
Alone(s) ==
  /\ root[s] \in {0, page} /\ (at[s] # Lost => \A e \in Effect : live[s][e] \in {0, page})
  /\ \A e \in Effect : live[s][e] # 0 => SettingUp(s) \/ Settled(s) \/ at[s] = Lost
  /\ SettingUp(s) => at[s] \in Effects(kind)
  /\ SettingUp(s) \/ at[s] = Lost => live[s][Rail] = 0

OneSetUp ==
  /\ \A s \in Start : root[s] # 0 => SettingUp(s)
  /\ \A s, t \in Start : SettingUp(s) /\ SettingUp(t) /\ s # t => s \in overlapped
  /\ \A s \in Start \ overlapped : Alone(s)

\* The steps of one start's setup, for that start and the others.
LEMMA StartGoesOn ==
  ASSUME StartsType, NEW s \in Start, Imported(s) \/ ImportRejected(s) \/ SetUp(s)
  PROVE  /\ SettingUp(s) /\ at[s] \in Effect
         /\ page' = page /\ kind' = kind /\ overlapped' = overlapped
         /\ lifecycle'.begun = lifecycle.begun
         /\ \A t \in Start \ {s} : /\ at'[t] = at[t] /\ root'[t] = root[t]
                                   /\ \A e \in Effect : live'[t][e] = live[t][e]
         /\ root'[s] \in {0, page}
         /\ \/ /\ at'[s] = at[s] /\ at[s] \in Effects(kind) /\ lifecycle' = lifecycle
               /\ \A e \in Effect : live'[s][e] = live[s][e]
            \/ /\ at'[s] = Lost /\ lifecycle' = lifecycle /\ root'[s] = root[s] /\ root[s] = 0
               /\ \A e \in Effect : live'[s][e] = live[s][e]
            \/ /\ at'[s] = After(at[s]) /\ root'[s] = 0
               /\ lifecycle'.cleanup = IF at'[s] = Done THEN s ELSE lifecycle.cleanup
               /\ \/ at[s] \notin Effects(kind) /\ \A e \in Effect : live'[s][e] = live[s][e]
                  \/ /\ root[s] # 0
                     /\ \A e \in Effect : live'[s][e] = IF e = at[s] THEN root[s] ELSE live[s][e]
<1>0. SettingUp(s) /\ at[s] \in Effect /\ page' = page /\ kind' = kind /\ overlapped' = overlapped
  BY Zenon DEF Imported, ImportRejected, SetUp, SettingUp
<1>1. CASE ImportRejected(s)
  <2>1. /\ at' = [at EXCEPT ![s] = Lost] /\ lifecycle' = lifecycle /\ root' = root /\ live' = live
        /\ root[s] = 0
    BY <1>1, Zenon DEF ImportRejected, motion
  <2> QED
    BY <1>0, <2>1 DEF StartsType
<1>2. CASE Imported(s)
  <2>1. live' = live
    BY <1>2, Zenon DEF Imported, motion
  <2>2. CASE at[s] \in Effects(kind)
    <3>1. root' = [root EXCEPT ![s] = page] /\ at' = at /\ lifecycle' = lifecycle
      BY <1>2, <2>2, Zenon DEF Imported
    <3> QED
      BY <1>0, <2>1, <2>2, <3>1 DEF StartsType
  <2>3. CASE at[s] \notin Effects(kind)
    <3>1. GoOn(s, at[s])
      BY <1>2, <2>3, Zenon DEF Imported
    <3>2. /\ at' = [at EXCEPT ![s] = After(at[s])] /\ root' = [root EXCEPT ![s] = 0]
          /\ lifecycle'.cleanup = IF at'[s] = Done THEN s ELSE lifecycle.cleanup
      BY <1>0, <3>1, GoesOn
    <3>3. lifecycle'.begun = lifecycle.begun
      BY <3>1 DEF GoOn, StartsType
    <3> QED
      BY <1>0, <2>1, <2>3, <3>2, <3>3 DEF StartsType
  <2> QED
    BY <2>2, <2>3
<1>3. CASE SetUp(s)
  <2>1. GoOn(s, at[s]) /\ root[s] # 0
    BY <1>3, Zenon DEF SetUp
  <2>2. /\ at' = [at EXCEPT ![s] = After(at[s])] /\ root' = [root EXCEPT ![s] = 0]
        /\ lifecycle'.cleanup = IF at'[s] = Done THEN s ELSE lifecycle.cleanup
    BY <1>0, <2>1, GoesOn
  <2>3. lifecycle'.begun = lifecycle.begun
    BY <2>1 DEF GoOn, StartsType
  <2>4. /\ \A e \in Effect : live'[s][e] = IF e = at[s] THEN root[s] ELSE live[s][e]
        /\ \A t \in Start \ {s} : \A e \in Effect : live'[t][e] = live[t][e]
    BY <1>3, SetUpLive
  <2>5. /\ \A t \in Start \ {s} : at'[t] = at[t] /\ root'[t] = root[t]
        /\ at'[s] = After(at[s]) /\ root'[s] = 0
    BY <2>2 DEF StartsType
  <2> QED
    BY <1>0, <2>1, <2>2, <2>3, <2>4, <2>5, Zenon
<1> QED
  BY <1>1, <1>2, <1>3

\* Starts are counted before they are set up.
LEMMA BornStep == StartsType /\ Born /\ [ShellNext]_shellVars => Born'
<1> SUFFICES ASSUME StartsType, Born, [ShellNext]_shellVars
             PROVE  Born'
  OBVIOUS
<1>0. lifecycle.begun \in Nat /\ lifecycle.cleanup \in Nat /\ \A s \in Start : s \in Nat
  BY DEF StartsType
<1>1. CASE UNCHANGED <<at, lifecycle>>
  BY <1>1, Zenon DEF Born
<1>2. CASE BeginSetup
  <2>1. /\ lifecycle' = [lifecycle EXCEPT !.due = IF @ = "install" THEN "load" ELSE "none",
                                          !.begun = lifecycle.begun + 1]
        /\ at' = [at EXCEPT ![lifecycle.begun + 1] = After(0)]
    BY <1>2, Zenon DEF BeginSetup
  <2>2. lifecycle'.begun = lifecycle.begun + 1 /\ lifecycle'.cleanup = lifecycle.cleanup
    BY <2>1 DEF StartsType
  <2>3. \A s \in Start : at'[s] # 0 => at[s] # 0 \/ s = lifecycle.begun + 1
    BY <2>1 DEF StartsType
  <2> QED
    BY <1>0, <2>2, <2>3 DEF Born
<1>3. CASE Swap
  <2>1. at' = at /\ lifecycle' = [lifecycle EXCEPT !.due = IF @ = "install" THEN @ ELSE "load"]
    BY <1>3, Zenon DEF Swap
  <2>2. lifecycle'.begun = lifecycle.begun /\ lifecycle'.cleanup = lifecycle.cleanup
    BY <2>1 DEF StartsType
  <2> QED
    BY <2>1, <2>2, Zenon DEF Born
<1>4. ASSUME NEW s \in Start, Imported(s) \/ ImportRejected(s) \/ SetUp(s)
      PROVE  Born'
  <2>1. /\ lifecycle'.begun = lifecycle.begun /\ at[s] # 0
        /\ lifecycle'.cleanup \in {s, lifecycle.cleanup}
        /\ \A t \in Start \ {s} : at'[t] = at[t]
    BY <1>4, StartGoesOn
  <2> QED
    BY <2>1 DEF Born
<1>5. QED
  BY <1>1, <1>2, <1>3, <1>4, Zenon
     DEF ShellNext, ChooseTheme, ChooseThemeElsewhere, OpenMenu, CloseMenu, CloseEvent, Toggle,
         Point, Focus, HideOrShow, ChangePreference, shellVars

\* Until a start is overtaken it is the only one that is set up.
LEMMA OneSetUpStep == StartsType /\ Born /\ OneSetUp /\ [ShellNext]_shellVars => OneSetUp'
<1> SUFFICES ASSUME StartsType, Born, OneSetUp, [ShellNext]_shellVars
             PROVE  OneSetUp'
  OBVIOUS
<1>0. lifecycle.begun \in Nat /\ lifecycle.cleanup \in Nat /\ Rail \in Effect /\ Lost \notin Effect
  BY DEF StartsType
<1> HIDE DEF Rail, Lost, Effect
<1>1. CASE UNCHANGED <<page, kind, root, at, live, lifecycle, overlapped>>
  BY <1>1, Zenon DEF OneSetUp, Alone, SettingUp, Settled
<1>2. CASE BeginSetup
  <2> DEFINE n == lifecycle.begun + 1
             others == {r \in Start : SettingUp(r)}
  <2>1. /\ n \in Start /\ page' = page /\ kind' = kind /\ root' = root /\ Cleaned(lifecycle.cleanup)
        /\ lifecycle' = [lifecycle EXCEPT !.due = IF @ = "install" THEN "load" ELSE "none", !.begun = n]
        /\ at' = [at EXCEPT ![n] = After(0)]
        /\ overlapped' = IF others = {} THEN overlapped ELSE overlapped \cup others \cup {n}
    BY <1>2, Zenon DEF BeginSetup
  <2>2. at[n] = 0 /\ n # lifecycle.cleanup
    BY <1>0, <2>1 DEF Born
  <2> HIDE DEF n
  <2>3. lifecycle'.cleanup = lifecycle.cleanup
    BY <2>1 DEF StartsType
  <2>4. \A s \in Start : at'[s] = IF s = n THEN After(0) ELSE at[s]
    BY <2>1 DEF StartsType
  <2>5. After(0) \in Effect /\ After(0) \in Effects(kind)
    <3>1. \E f \in Effects(kind) : f > 0
      BY DEF Effects, Rail
    <3>2. kind \in {"home", "legal"} /\ 0 \in 0..Done
      BY DEF StartsType
    <3>3. After(0) \in Effect
      BY <3>1, <3>2, AfterIs
    <3>4. After(0) # Done
      BY <3>3 DEF Effect
    <3>5. QED
      BY <3>2, <3>3, <3>4, AfterIs
  <2>6. \A s \in Start : SettingUp(s)' <=> s = n \/ SettingUp(s)
    BY <2>4, <2>5, Zenon DEF SettingUp
  <2>7. \A s \in Start : root'[s] # 0 => SettingUp(s)'
    BY <2>1, <2>6, Zenon DEF OneSetUp
  <2>8. overlapped \subseteq overlapped' /\ (others # {} => others \cup {n} \subseteq overlapped')
    BY <2>1
  <2>9. ASSUME NEW s \in Start, NEW t \in Start, SettingUp(s)', SettingUp(t)', s # t
        PROVE  s \in overlapped'
    BY <2>6, <2>8, <2>9
  <2>10. \A s \in Start : \A e \in Effect : live'[s][e] = IF s = lifecycle.cleanup THEN 0 ELSE live[s][e]
    BY <2>1, CleanedLive
  <2>11. ASSUME NEW s \in Start \ overlapped'
         PROVE  Alone(s)'
    <3>1. s \in Start \ overlapped /\ Alone(s)
      BY <2>8, Zenon DEF OneSetUp
    <3>2. \A e \in Effect : live'[s][e] # 0 => live[s][e] # 0 /\ s # lifecycle.cleanup
      BY <2>10, Zenon
    <3>3. \A e \in Effect : live'[s][e] # 0 => SettingUp(s) \/ at[s] = Lost
      BY <3>1, <3>2, Zenon DEF Alone, Settled
    <3>4. CASE s = n
      <4>1. ~SettingUp(s) /\ at[s] # Lost
        BY <2>2, <3>4 DEF SettingUp, Effect, Lost
      <4>2. \A e \in Effect : live'[s][e] = 0
        BY <3>3, <4>1, Zenon
      <4>3. at'[s] = After(0) /\ root'[s] = root[s] /\ page' = page /\ kind' = kind
        BY <2>1, <2>4, <3>4
      <4>4. at'[s] \in Effects(kind') /\ SettingUp(s)' /\ root'[s] \in {0, page'}
        BY <2>5, <2>6, <3>1, <3>4, <4>3, Zenon DEF Alone
      <4>5. \A e \in Effect : live'[s][e] \in {0, page'}
        BY <4>2
      <4> QED
        BY <1>0, <4>2, <4>4, <4>5, Zenon DEF Alone, Effects
    <3>5. CASE s # n
      <4>1. at'[s] = at[s] /\ (SettingUp(s)' <=> SettingUp(s)) /\ root'[s] = root[s]
            /\ page' = page /\ kind' = kind
        BY <2>1, <2>4, <2>6, <3>1, <3>5
      <4>2. \A e \in Effect : live'[s][e] \in {0, live[s][e]}
        BY <2>10
      <4>3. \A e \in Effect : live'[s][e] # 0 => SettingUp(s)' \/ at'[s] = Lost
        BY <3>3, <4>1, Zenon
      <4>4. /\ root'[s] \in {0, page'}
            /\ SettingUp(s)' => at'[s] \in Effects(kind)
        BY <3>1, <4>1, Zenon DEF Alone
      <4>5. at'[s] # Lost => \A e \in Effect : live'[s][e] \in {0, page'}
        BY <3>1, <4>1, <4>2 DEF Alone
      <4>6. SettingUp(s)' \/ at'[s] = Lost => live'[s][Rail] = 0
        BY <1>0, <3>1, <4>1, <4>2 DEF Alone
      <4>7. Effects(kind)' = Effects(kind)
        BY <4>1, Zenon DEF Effects
      <4> QED
        BY <4>3, <4>4, <4>5, <4>6, <4>1, Zenon DEF Alone, Effects
    <3> QED
      BY <3>4, <3>5
  <2>12. QED
    BY <2>7, <2>9, <2>11, Zenon DEF OneSetUp
<1>3. CASE Swap
  <2>1. /\ at' = at /\ root' = root /\ Cleaned(lifecycle.cleanup) /\ page' = page + 1
        /\ lifecycle' = [lifecycle EXCEPT !.due = IF @ = "install" THEN @ ELSE "load"]
        /\ overlapped' = overlapped \cup {s \in Start : SettingUp(s)}
    BY <1>3, Zenon DEF Swap
  <2>2. \A s \in Start : SettingUp(s)' <=> SettingUp(s)
    BY <2>1, Zenon DEF SettingUp
  <2>3. ASSUME NEW s \in Start \ overlapped'
        PROVE  Alone(s)'
    <3>1. s \in Start \ overlapped /\ ~SettingUp(s) /\ Alone(s)
      BY <2>1 DEF OneSetUp
    <3>2. root'[s] = 0
      BY <2>1, <3>1, Zenon DEF OneSetUp
    <3>3. \A e \in Effect : live'[s][e] # 0 => live[s][e] # 0 /\ s # lifecycle.cleanup
      BY <2>1, CleanedLive, Zenon
    <3>4. \A e \in Effect : live'[s][e] # 0 => at[s] = Lost
      BY <3>1, <3>3, Zenon DEF Alone, Settled
    <3>5. live'[s][Rail] = 0
      BY <1>0, <3>1, <3>3, <3>4, Zenon DEF Alone
    <3>6. at'[s] # Lost => \A e \in Effect : live'[s][e] \in {0, page'}
      BY <2>1, <3>4
    <3> QED
      BY <2>1, <2>2, <3>1, <3>2, <3>4, <3>5, <3>6, Zenon DEF Alone
  <2>4. \A s \in Start : root'[s] # 0 => SettingUp(s)'
    BY <2>1, <2>2, Zenon DEF OneSetUp
  <2>5. ASSUME NEW s \in Start, NEW t \in Start, SettingUp(s)', SettingUp(t)', s # t
        PROVE  s \in overlapped'
    BY <2>1, <2>2, <2>5 DEF OneSetUp
  <2>6. QED
    BY <2>3, <2>4, <2>5, Zenon DEF OneSetUp
<1>4. ASSUME NEW s \in Start, Imported(s) \/ ImportRejected(s) \/ SetUp(s)
      PROVE  OneSetUp'
  <2>1. /\ SettingUp(s) /\ at[s] \in Effect
        /\ page' = page /\ kind' = kind /\ overlapped' = overlapped
        /\ \A t \in Start \ {s} : /\ at'[t] = at[t] /\ root'[t] = root[t]
                                  /\ \A e \in Effect : live'[t][e] = live[t][e]
        /\ root'[s] \in {0, page}
    BY <1>4, StartGoesOn
  <2>2. \A t \in Start \ {s} : SettingUp(t)' <=> SettingUp(t)
    BY <2>1, Zenon DEF SettingUp
  <2>3. root'[s] # 0 => SettingUp(s)'
    BY <1>4, <2>1, StartGoesOn DEF SettingUp
  <2>4. \A t \in Start : root'[t] # 0 => SettingUp(t)'
    BY <2>1, <2>2, <2>3 DEF OneSetUp
  <2>5. ASSUME NEW t \in Start, NEW x \in Start, SettingUp(t)', SettingUp(x)', t # x
        PROVE  t \in overlapped'
    BY <2>1, <2>2, <2>5 DEF OneSetUp
  <2>6. ASSUME NEW t \in Start \ overlapped, t # s
        PROVE  Alone(t)'
    <3>1. ~SettingUp(t) /\ Alone(t)
      BY <2>1, <2>6 DEF OneSetUp
    <3>2. /\ ~SettingUp(t)' /\ at'[t] = at[t] /\ root'[t] = root[t]
          /\ \A e \in Effect : live'[t][e] = live[t][e]
      BY <2>1, <2>2, <2>6, <3>1
    <3>3. \A e \in Effect : live[t][e] # 0 => at[t] = Lost
      BY <2>1, <3>1, Zenon DEF Alone, Settled
    <3>4. \A e \in Effect : live'[t][e] # 0 => at'[t] = Lost
      BY <3>2, <3>3, Zenon
    <3>5. at'[t] # Lost => \A e \in Effect : live'[t][e] \in {0, page'}
      BY <3>4
    <3>6. root'[t] \in {0, page'} /\ (at'[t] = Lost => live'[t][Rail] = 0)
      BY <1>0, <2>1, <3>1, <3>2, Zenon DEF Alone
    <3> QED
      BY <3>2, <3>4, <3>5, <3>6, Zenon DEF Alone
  <2>7. ASSUME s \notin overlapped
        PROVE  Alone(s)'
    <3>1. /\ Alone(s) /\ live[s][Rail] = 0 /\ at[s] \in Effects(kind) /\ at[s] # Lost
          /\ \A t \in Start \ {s} : ~SettingUp(t)
      BY <1>0, <2>1, <2>7 DEF OneSetUp, Alone
    <3>2. root'[s] \in {0, page'} /\ root[s] \in {0, page} /\ \A e \in Effect : live[s][e] \in {0, page}
      BY <2>1, <3>1, Zenon DEF Alone
    <3>3. CASE at'[s] = at[s]
      <4>1. \A e \in Effect : live'[s][e] = live[s][e]
        <5>1. After(at[s]) # at[s]
          <6>1. at[s] \in 0..Done /\ kind \in {"home", "legal"}
            BY <2>1 DEF Effect, StartsType
          <6>2. After(at[s]) # Done => After(at[s]) \in {f \in Effects(kind) : f > at[s]}
            <7> DEFINE later == {f \in Effects(kind) : f > at[s]}
            <7>1. CASE later = {}
              BY <7>1 DEF After
            <7>2. CASE later # {}
              <8>1. \E f \in later : \A g \in later : f <= g
                <9>1. later \subseteq 1..3
                  BY DEF Effects, Rail
                <9>2. CASE 1 \in later
                  BY <9>1, <9>2
                <9>3. CASE 1 \notin later /\ 2 \in later
                  BY <9>1, <9>3
                <9>4. CASE 1 \notin later /\ 2 \notin later
                  BY <7>2, <9>1, <9>4
                <9> QED
                  BY <9>2, <9>3, <9>4
              <8>2. (CHOOSE f \in later : \A g \in later : f <= g) \in later
                BY <8>1, Zenon
              <8> QED
                BY <7>2, <8>2, Zenon DEF After
            <7> QED
              BY <7>1, <7>2
          <6> QED
            BY <2>1, <6>1, <6>2 DEF Effect
        <5>2. at[s] # Lost
          BY <3>1
        <5> QED
          BY <1>4, <3>3, <5>1, <5>2, StartGoesOn
      <4>2. SettingUp(s)'
        BY <2>1, <3>3 DEF SettingUp
      <4>3. /\ \A e \in Effect : live'[s][e] \in {0, page'}
            /\ at'[s] \in Effects(kind') /\ live'[s][Rail] = 0
        BY <1>0, <2>1, <3>1, <3>2, <3>3, <4>1
      <4> QED
        BY <3>2, <4>2, <4>3, Zenon DEF Alone, Effects
    <3>4. CASE at'[s] = Lost
      <4>1. \A e \in Effect : live'[s][e] = live[s][e]
        <5>1. After(at[s]) # Lost
          <6>1. at[s] \in 0..Done /\ kind \in {"home", "legal"}
            BY <2>1 DEF Effect, StartsType
          <6>2. After(at[s]) \in 1..Done
            BY <6>1, AfterIs
          <6> QED
            BY <6>2 DEF Lost
        <5> QED
          BY <1>4, <3>1, <3>4, <5>1, StartGoesOn
      <4>2. ~SettingUp(s)'
        BY <1>0, <3>4 DEF SettingUp
      <4>3. live'[s][Rail] = 0
        BY <1>0, <3>1, <4>1
      <4> QED
        BY <3>2, <3>4, <4>2, <4>3, Zenon DEF Alone
    <3>5. CASE at'[s] # at[s] /\ at'[s] # Lost
      <4>1. /\ at'[s] = After(at[s])
            /\ lifecycle'.cleanup = IF at'[s] = Done THEN s ELSE lifecycle.cleanup
            /\ \A e \in Effect : live'[s][e] = IF e = at[s] THEN root[s] ELSE live[s][e]
        BY <1>4, <3>1, <3>5, StartGoesOn
      <4>2. \A e \in Effect : live'[s][e] \in {0, page'}
        BY <2>1, <3>2, <4>1
      <4>3. /\ After(at[s]) # Done => After(at[s]) \in Effect /\ After(at[s]) \in Effects(kind)
            /\ at[s] = Rail => After(at[s]) = Done
        <5>1. at[s] \in 0..Done /\ kind \in {"home", "legal"}
          BY <2>1 DEF Effect, StartsType
        <5> QED
          BY <3>1, <5>1, AfterIs
      <4>4. CASE at'[s] = Done
        <5>1. ~SettingUp(s)'
          BY <4>4 DEF SettingUp, Effect
        <5>2. Settled(s)'
          BY <2>2, <3>1, <4>1, <4>4, <5>1 DEF Settled
        <5> QED
          BY <3>2, <3>5, <4>2, <5>1, <5>2, Zenon DEF Alone
      <4>5. CASE at'[s] # Done
        <5>1. SettingUp(s)' /\ at'[s] \in Effects(kind')
          BY <2>1, <4>1, <4>3, <4>5 DEF SettingUp
        <5>2. live'[s][Rail] = 0
          BY <1>0, <3>1, <4>1, <4>3, <4>5
        <5> QED
          BY <3>2, <4>2, <5>1, <5>2, Zenon DEF Alone, Effects
      <4> QED
        BY <4>4, <4>5
    <3> QED
      BY <3>3, <3>4, <3>5
  <2>8. QED
    BY <2>1, <2>4, <2>5, <2>6, <2>7, Zenon DEF OneSetUp
<1>5. QED
  BY <1>1, <1>2, <1>3, <1>4, Zenon
     DEF ShellNext, ChooseTheme, ChooseThemeElsewhere, OpenMenu, CloseMenu, CloseEvent, Toggle,
         Point, Focus, HideOrShow, ChangePreference, motion, shellVars

\* The toggle shows what was chosen for the rail on the document shown, unless a start
\* that was overtaken has a rail there too.
PressedTold ==
  (\A x \in overlapped : ~OnPage(x)) =>
    \A s \in Start : OnPage(s) /\ ~visitor.still => pressed = rail[s].explicit

\* A rail on the document shown, of a start that was not overtaken, is the one to be
\* cleaned up.
LEMMA OneRail ==
  ASSUME StartsType, OneSetUp, NEW s \in Start, s \notin overlapped, OnPage(s)
  PROVE  Settled(s)
<1>1. live[s][Rail] # 0 /\ Rail \in Effect
  BY StartTypes DEF OnPage
<1>2. Alone(s)
  BY Zenon DEF OneSetUp
<1>3. QED
  BY <1>1, <1>2, Zenon DEF Alone

\* The toggle says whether the rail it belongs to is paused by it.
LEMMA PressedStep ==
  /\ FlagsType /\ StartsType /\ RailsType /\ PagesBehind /\ RailsTold /\ OneSetUp /\ PressedTold
  /\ [ShellNext]_shellVars
  => PressedTold'
<1> SUFFICES ASSUME FlagsType, StartsType, RailsType, PagesBehind, RailsTold, OneSetUp, PressedTold,
                    [ShellNext]_shellVars
             PROVE  PressedTold'
  OBVIOUS
<1> HIDE DEF Start, Effect, Rail
<1>1. CASE UNCHANGED <<page, live, rail, pressed, visitor, overlapped>>
  BY <1>1, Zenon DEF PressedTold, OnPage
<1>2. CASE Toggle
  <2>1. PICK last \in Start : OnPage(last) /\ pressed' = rail'[last].explicit
    BY <1>2, Zenon DEF Toggle
  <2>2. page' = page /\ live' = live /\ overlapped' = overlapped
    BY <1>2, Zenon DEF Toggle
  <2>3. ASSUME \A x \in overlapped : ~OnPage(x), NEW s \in Start, OnPage(s)
        PROVE  pressed' = rail'[s].explicit
    <3>1. Settled(s) /\ Settled(last)
      BY <2>1, <2>3, OneRail, Zenon
    <3>2. s = last
      BY <3>1, Zenon DEF Settled
    <3>3. QED
      BY <2>1, <3>2, Zenon
  <2>4. QED
    BY <2>2, <2>3, Zenon DEF PressedTold, OnPage
<1>3. CASE Point \/ Focus \/ HideOrShow
  <2>1. page' = page /\ live' = live /\ overlapped' = overlapped /\ pressed' = pressed
    BY <1>3, Zenon DEF Point, Focus, HideOrShow
  <2>2. visitor'.still = visitor.still
    BY <1>3, RailTypes DEF Point, Focus, HideOrShow
  <2>3. ASSUME \A x \in overlapped : ~OnPage(x), NEW s \in Start, OnPage(s), ~visitor.still
        PROVE  pressed' = rail'[s].explicit
    <3>1. live[s][Rail] # 0
      BY <2>3, StartTypes DEF OnPage
    <3>2. rail'[s].explicit = rail[s].explicit
      BY <1>3, <2>3, <3>1, Pointed, Focused, Hidden
    <3>3. QED
      BY <2>1, <2>3, <3>2, Zenon DEF PressedTold
  <2>4. QED
    BY <2>1, <2>2, <2>3, Zenon DEF PressedTold, OnPage
<1>4. CASE ChangePreference
  <2>1. /\ page' = page /\ live' = live /\ overlapped' = overlapped
        /\ pressed' = (pressed /\ ~(visitor.still /\ \E s \in Start : OnPage(s)))
    BY <1>4, Zenon DEF ChangePreference
  <2>2. visitor'.still = (~visitor.still)
    BY <1>4, RailTypes DEF ChangePreference
  <2>3. ASSUME NEW s \in Start, OnPage(s)', ~visitor'.still
        PROVE  pressed' = rail'[s].explicit
    <3>1. visitor.still /\ OnPage(s)
      BY <2>1, <2>2, <2>3, Zenon DEF OnPage
    <3>2. pressed' = FALSE
      BY <2>1, <3>1, Zenon
    <3>3. live[s][Rail] # 0
      BY <3>1, StartTypes DEF OnPage
    <3>4. rail'[s] = Synced(Still, visitor.hidden)
      BY <1>4, <3>1, <3>3, Zenon DEF ChangePreference
    <3>5. rail'[s].explicit = FALSE
      BY <3>4, RailTypes, Fresh DEF RailFlags
    <3>6. QED
      BY <3>2, <3>5
  <2>4. QED
    BY <2>3, Zenon DEF PressedTold
<1>5. CASE BeginSetup
  <2>1. page' = page /\ overlapped \subseteq overlapped' /\ Cleaned(lifecycle.cleanup)
    BY <1>5 DEF BeginSetup
  <2>2. ASSUME NEW s \in Start, s \notin overlapped', OnPage(s)'
        PROVE  FALSE
    <3>1. page # 0
      BY StartTypes
    <3>2. s # lifecycle.cleanup /\ live'[s][Rail] = live[s][Rail]
      BY <2>1, <2>2, <3>1, CleanedLive DEF OnPage, Rail, Effect
    <3>3. OnPage(s) /\ s \notin overlapped
      BY <2>1, <2>2, <3>2, Zenon DEF OnPage
    <3>4. QED
      BY <3>2, <3>3, OneRail, Zenon DEF Settled
  <2>3. QED
    BY <2>2, Zenon DEF PressedTold
<1>6. CASE Swap
  <2>1. page' = page + 1 /\ Cleaned(lifecycle.cleanup)
    BY <1>6, Zenon DEF Swap
  <2>2. ASSUME NEW s \in Start
        PROVE  ~OnPage(s)'
    <3>1. live[s][Rail] \in Nat /\ live[s][Rail] <= page /\ page \in Nat
      BY StartTypes DEF PagesBehind, Rail, Effect
    <3>2. live'[s][Rail] = 0 \/ live'[s][Rail] = live[s][Rail]
      BY <2>1, CleanedLive DEF Rail, Effect
    <3>3. QED
      BY <2>1, <3>1, <3>2 DEF OnPage
  <2>3. QED
    BY <2>2, Zenon DEF PressedTold
<1>7. ASSUME NEW t \in Start, SetUp(t)
      PROVE  PressedTold'
  <2>1. /\ page' = page /\ overlapped' = overlapped /\ visitor' = visitor
        /\ SettingUp(t) /\ root[t] # 0
    BY <1>7, Zenon DEF SetUp
  <2>2. ASSUME NEW s \in Start, s \notin overlapped, OnPage(s)', ~visitor.still
        PROVE  pressed' = rail'[s].explicit
    <3>1. CASE s # t
      <4>1. live'[s][Rail] = live[s][Rail]
        BY <1>7, <3>1, SetUpLive DEF Rail, Effect
      <4>2. OnPage(s)
        BY <2>1, <2>2, <4>1, Zenon DEF OnPage
      <4>3. QED
        BY <2>1, <2>2, <4>2, OneRail, Zenon DEF Settled
    <3>2. CASE s = t
      <4>1. Alone(t)
        BY <2>2, <3>2, Zenon DEF OneSetUp
      <4>2. root[t] = page /\ live[t][Rail] = 0
        BY <2>1, <4>1, Zenon DEF Alone
      <4>3. at[t] = Rail
        <5>1. at[t] # Rail => live'[t][Rail] = live[t][Rail]
          BY <1>7, SetUpLive DEF Rail, Effect
        <5>2. QED
          BY <2>1, <2>2, <3>2, <4>2, <5>1, StartTypes DEF OnPage
      <4>4. /\ rail' = [rail EXCEPT ![t] = Synced(Still, visitor.hidden)]
            /\ pressed' = (pressed /\ root[t] # page)
        BY <1>7, <2>2, <4>3, Zenon DEF SetUp
      <4>5. pressed' = FALSE
        BY <4>2, <4>4, Zenon
      <4>6. rail'[t] = Synced(Still, visitor.hidden)
        BY <4>4, RailTypes
      <4>7. rail'[t].explicit = FALSE
        BY <4>6, RailTypes, Fresh DEF RailFlags
      <4>8. QED
        BY <3>2, <4>5, <4>7
    <3>3. QED
      BY <3>1, <3>2
  <2>3. QED
    BY <2>1, <2>2, Zenon DEF PressedTold
<1>8. QED
  BY <1>1, <1>2, <1>3, <1>4, <1>5, <1>6, <1>7, Zenon
     DEF ShellNext, ChooseTheme, ChooseThemeElsewhere, OpenMenu, CloseMenu, CloseEvent, Imported,
         ImportRejected, motion, shellVars

\* The inductive invariant of the shell.
ShellInv ==
  /\ DocumentType /\ FlagsType /\ StartsType /\ RailsType
  /\ MenusAgree /\ PagesBehind /\ RailsTold /\ Born /\ OneSetUp /\ PressedTold

\* What the controls of the shell say is so, for any number of documents and of starts
\* of the client lifecycle, except of animations of a start that was overtaken or lost
\* an import.
THEOREM ControlsAlwaysTell == ShellSpec => []ControlsTellTheTruth
<1>1. ShellInit => ShellInv
  <2> SUFFICES ASSUME ShellInit
               PROVE  ShellInv
    OBVIOUS
  <2>1. DocumentType /\ MenusAgree
    BY DEF ShellInit, DocumentType, MenusAgree, StoredTheme
  <2>2. FlagsType
    BY Zenon DEF ShellInit, FlagsType
  <2>3. StartsType
    BY DEF ShellInit, StartsType
  <2>4. RailsType
    <3>1. rail = [s \in Start |-> Still]
      BY Zenon DEF ShellInit
    <3>2. rail \in [Start -> RailFlags]
      BY <3>1, StillFlags, Zenon
    <3>3. visitor \in [over : BOOLEAN, within : BOOLEAN, hidden : BOOLEAN, still : BOOLEAN]
      BY DEF ShellInit
    <3>4. QED
      BY <3>2, <3>3, Zenon DEF RailsType, RailFlags
  <2>5. \A s \in Start : /\ root[s] = 0 /\ at[s] = 0 /\ rail[s] = Still
                         /\ \A e \in Effect : live[s][e] = 0
    BY DEF ShellInit
  <2>6. page = 1
    BY DEF ShellInit
  <2>7. PagesBehind
    BY <2>5, <2>6 DEF PagesBehind
  <2>8. \A s \in Start : live[s][Rail] = 0 /\ ~OnPage(s) /\ ~SettingUp(s)
    BY <2>5, <2>6 DEF OnPage, SettingUp
  <2>9. RailsTold /\ PressedTold
    BY <2>5, <2>8, Zenon DEF RailsTold, PressedTold
  <2>10. Born /\ OneSetUp
    <3>1. lifecycle.cleanup <= lifecycle.begun
      BY DEF ShellInit
    <3>2. \A s \in Start : Alone(s)
      BY <2>5, <2>8 DEF Alone
    <3> QED
      BY <2>5, <2>8, <3>1, <3>2, Zenon DEF Born, OneSetUp
  <2>11. QED
    BY <2>1, <2>2, <2>3, <2>4, <2>7, <2>9, <2>10, Zenon DEF ShellInv
<1>2. ShellInv /\ [ShellNext]_shellVars => ShellInv'
  BY DocumentStep, FlagsStep, StartsStep, RailsTypeStep, MenusStep, PagesStep, RailsStep, BornStep,
     OneSetUpStep, PressedStep, Zenon DEF ShellInv
<1>3. ShellInv => ControlsTellTheTruth
  <2> SUFFICES ASSUME ShellInv
               PROVE  ControlsTellTheTruth
    OBVIOUS
  <2>1. ShellTypeOK
    BY ShellTypeParts, Zenon DEF ShellInv
  <2>2. ASSUME NEW s \in Start, Moves(s)
        PROVE  ~(rail[s].explicit \/ rail[s].pointer \/ visitor.hidden)
    BY <2>2, Zenon DEF Moves, ShellInv, RailsTold
  <2>3. ASSUME NEW s \in Start \ overlapped
        PROVE  /\ at[s] # Lost => \A e \in Effect : live[s][e] \in {0, page}
               /\ OnPage(s) /\ ~visitor.still =>
                    pressed = rail[s].explicit \/ \E x \in overlapped : OnPage(x)
    BY <2>3, Zenon DEF ShellInv, OneSetUp, Alone, PressedTold
  <2>4. QED
    BY <2>1, <2>2, <2>3, Zenon DEF ShellInv, MenusAgree, RailsTold, PressedTold, ControlsTellTheTruth
<1>4. QED
  BY <1>1, <1>2, <1>3, PTL DEF ShellSpec
=============================================================================
