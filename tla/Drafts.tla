-------------------------------- MODULE Drafts --------------------------------
(***************************************************************************)
(* The draft store of the admin PWA: unsent work kept in IndexedDB under   *)
(* [ownerId, key], which the tabs of one browser share.  Every operation   *)
(* but clearOwner is several transactions: save reads, puts, prunes, lists *)
(* and enforces the owner's limit, and a delete reads before it deletes.   *)
(*                                                                         *)
(* updatedAt is the number of the save that wrote the draft.  A draft is   *)
(* expired once that number is in aged.  MaxSaves bounds the saves.        *)
(***************************************************************************)
EXTENDS FiniteSets, Naturals

CONSTANTS
  Owner, Key, Tab,
  Nowhere,         \* no owner and key
  DraftLimit,        \* maxEntriesPerOwner
  MaxSaves

ASSUME DraftsAssumption ==
  IsFiniteSet(Key) /\ IsFiniteSet(Tab) /\ DraftLimit \in Nat /\ MaxSaves \in Nat

VARIABLES
  draft,        \* the stored record of each owner and key
  aged,         \* saves whose expiresAt has passed
  clock,        \* saves begun
  stage, target, \* where each tab is, and the owner and key it works on
  mine,         \* the record its save will put
  drop,         \* the keys its save found to be over the limit
  asked,        \* history: the delete a tab runs was asked for by the user
  overtaken,    \* history: tabs whose decision to delete another tab's write has overtaken
  torn,         \* history: saves of an owner that were cut short after their put
  loggedOut,    \* history: the last save begun when the owner was cleared
  spared        \* history: the saves in flight at that moment

tabs == <<stage, target, mine, drop, asked>>
past == <<overtaken, torn, loggedOut, spared>>
draftVars == <<draft, aged, clock, stage, target, mine, drop, asked, overtaken, torn, loggedOut, spared>>

Absent == [updatedAt |-> 0, createdAt |-> 0]
Step   == {"idle", "reading", "putting", "pruning", "listing", "enforcing", "expired", "deleting"}

DraftsInit ==
  /\ draft     = [o \in Owner |-> [k \in Key |-> Absent]]
  /\ aged      = {}
  /\ clock     = 0
  /\ stage      = [t \in Tab |-> "idle"]
  /\ target    = [t \in Tab |-> Nowhere]
  /\ mine      = [t \in Tab |-> Absent]
  /\ drop      = [t \in Tab |-> {}]
  /\ asked     = [t \in Tab |-> FALSE]
  /\ overtaken = {}
  /\ torn      = [o \in Owner |-> 0]
  /\ loggedOut = [o \in Owner |-> 0]
  /\ spared    = [o \in Owner |-> {}]

Stored(o) == {k \in Key : draft[o][k] # Absent}
IsExpired(o, k) == draft[o][k].updatedAt \in aged

At(t, s, o) == stage[t] = s /\ target[t][1] = o

\* What other tabs have decided about the owner's drafts is no longer so.
Overtake(t, o) ==
  {u \in Tab \ {t} : \E s \in {"enforcing", "expired", "deleting"} : At(u, s, o)}

Finish(t) ==
  /\ stage'   = [stage EXCEPT ![t] = "idle"]
  /\ target' = [target EXCEPT ![t] = Nowhere]
  /\ mine'   = [mine EXCEPT ![t] = Absent]
  /\ drop'   = [drop EXCEPT ![t] = {}]
  /\ asked'  = [asked EXCEPT ![t] = FALSE]

MoveTo(t, s) == stage' = [stage EXCEPT ![t] = s] /\ UNCHANGED <<target, mine, drop, asked>>

(***************************************************************************)
(* save                                                                    *)
(***************************************************************************)

\* The times are taken first; no two saves are of one millisecond.
SaveBegins(t, o, k) ==
  /\ stage[t] = "idle" /\ clock < MaxSaves
  /\ clock'  = clock + 1
  /\ stage'   = [stage EXCEPT ![t] = "reading"]
  /\ target' = [target EXCEPT ![t] = <<o, k>>]
  /\ mine'   = [mine EXCEPT ![t] = [updatedAt |-> clock + 1, createdAt |-> clock + 1]]
  /\ UNCHANGED <<draft, aged, drop, asked, past>>

\* The record takes the createdAt of what is stored, expired or not: that may
\* be later than its own updatedAt, when another tab stored it meanwhile.
SaveReads(t, o, k) ==
  /\ stage[t] = "reading" /\ target[t] = <<o, k>>
  /\ stage' = [stage EXCEPT ![t] = "putting"]
  /\ mine' = [mine EXCEPT ![t].createdAt = IF k \in Stored(o) THEN draft[o][k].createdAt ELSE @]
  /\ UNCHANGED <<draft, aged, clock, target, drop, asked, past>>

SavePuts(t, o, k) ==
  /\ stage[t] = "putting" /\ target[t] = <<o, k>>
  /\ draft'     = [draft EXCEPT ![o][k] = mine[t]]
  /\ overtaken' = overtaken \cup Overtake(t, o)
  /\ MoveTo(t, "pruning")
  /\ UNCHANGED <<aged, clock, torn, loggedOut, spared>>

\* Expired drafts of every owner are deleted.
PruneExpired(t) ==
  /\ stage[t] = "pruning"
  /\ draft' = [o \in Owner |-> [k \in Key |-> IF IsExpired(o, k) THEN Absent ELSE draft[o][k]]]
  /\ overtaken' = overtaken \cup
       UNION {Overtake(t, o) : o \in {o2 \in Owner : \E k \in Key : IsExpired(o2, k)}}
  /\ MoveTo(t, "listing")
  /\ UNCHANGED <<aged, clock, torn, loggedOut, spared>>

Active(o) == {k \in Stored(o) : ~IsExpired(o, k)}

\* list sorts by updatedAt, newest first; slice keeps the first Limit of them.
Newer(o, k, S) == {k2 \in S : draft[o][k2].updatedAt > draft[o][k].updatedAt}

\* Mutant of OverLimit: the list is sorted oldest first.
OverLimitOldestFirst(o) ==
  {k \in Active(o) : Cardinality({k2 \in Active(o) : k \in Newer(o, k2, {k})}) >= DraftLimit}

OverLimit(o) == {k \in Active(o) : Cardinality(Newer(o, k, Active(o))) >= DraftLimit}

EnforceLists(t, o) ==
  /\ At(t, "listing", o)
  /\ IF OverLimit(o) = {}
       THEN Finish(t)
       ELSE /\ drop' = [drop EXCEPT ![t] = OverLimit(o)]
            /\ stage' = [stage EXCEPT ![t] = "enforcing"]
            /\ UNCHANGED <<target, mine, asked>>
  /\ UNCHANGED <<draft, aged, clock, past>>

\* The listed drafts are deleted by key, whatever is stored under it by now.
EnforceDeletes(t, o) ==
  /\ At(t, "enforcing", o)
  /\ draft' = [draft EXCEPT ![o] = [k \in Key |-> IF k \in drop[t] THEN Absent ELSE @[k]]]
  /\ overtaken' = (overtaken \cup Overtake(t, o)) \ {t}
  /\ Finish(t)
  /\ UNCHANGED <<aged, clock, torn, loggedOut, spared>>

(***************************************************************************)
(* get and delete                                                          *)
(***************************************************************************)

\* get of an expired draft goes on to delete it; any other get changes nothing.
GetReads(t, o, k) ==
  /\ stage[t] = "idle" /\ k \in Stored(o) /\ IsExpired(o, k)
  /\ stage'   = [stage EXCEPT ![t] = "expired"]
  /\ target' = [target EXCEPT ![t] = <<o, k>>]
  /\ UNCHANGED <<draft, aged, clock, mine, drop, asked, past>>

\* delete first reads the draft, for the user or for get.
DeleteReads(t, o, k) ==
  /\ \/ stage[t] = "idle" /\ k \in Stored(o) /\ asked' = [asked EXCEPT ![t] = TRUE]
     \/ stage[t] = "expired" /\ target[t] = <<o, k>> /\ UNCHANGED asked
  /\ IF k \in Stored(o)
       THEN /\ stage'   = [stage EXCEPT ![t] = "deleting"]
            /\ target' = [target EXCEPT ![t] = <<o, k>>]
            /\ UNCHANGED overtaken
       ELSE /\ stage'   = [stage EXCEPT ![t] = "idle"]
            /\ target' = [target EXCEPT ![t] = Nowhere]
            /\ overtaken' = overtaken \ {t}
  /\ UNCHANGED <<draft, aged, clock, mine, drop, torn, loggedOut, spared>>

DeleteDeletes(t, o, k) ==
  /\ stage[t] = "deleting" /\ target[t] = <<o, k>>
  /\ draft' = [draft EXCEPT ![o][k] = Absent]
  /\ overtaken' = (overtaken \cup Overtake(t, o)) \ {t}
  /\ Finish(t)
  /\ UNCHANGED <<aged, clock, torn, loggedOut, spared>>

(***************************************************************************)
(* Logout, closed tabs and time                                            *)
(***************************************************************************)

\* Saves that have taken their times and not put their record yet.
BeforePut(o) == {t \in Tab : At(t, "reading", o) \/ At(t, "putting", o)}

\* Mutant of ClearOwner: only what list shows is deleted, not what has expired.
ClearOwnerListed(o) ==
  /\ Stored(o) # {}
  /\ draft'     = [draft EXCEPT ![o] = [k \in Key |-> IF k \in Active(o) THEN Absent ELSE @[k]]]
  /\ loggedOut' = [loggedOut EXCEPT ![o] = clock]
  /\ spared'    = [spared EXCEPT ![o] = {mine[t].updatedAt : t \in BeforePut(o)}]
  /\ UNCHANGED <<aged, clock, tabs, overtaken, torn>>

ClearOwner(o) ==
  /\ Stored(o) # {}
  /\ draft'     = [draft EXCEPT ![o] = [k \in Key |-> Absent]]
  /\ loggedOut' = [loggedOut EXCEPT ![o] = clock]
  /\ spared'    = [spared EXCEPT ![o] = {mine[t].updatedAt : t \in BeforePut(o)}]
  /\ UNCHANGED <<aged, clock, tabs, overtaken, torn>>

\* The tab is closed, or the next transaction of its operation throws.
CloseTab(t) ==
  /\ stage[t] # "idle"
  /\ torn' = IF stage[t] \in {"pruning", "listing", "enforcing"}
             THEN [torn EXCEPT ![target[t][1]] = @ + 1] ELSE torn
  /\ overtaken' = overtaken \ {t}
  /\ Finish(t)
  /\ UNCHANGED <<draft, aged, clock, loggedOut, spared>>

Ages(o, k) ==
  /\ k \in Active(o)
  /\ aged' = aged \cup {draft[o][k].updatedAt}
  /\ UNCHANGED <<draft, clock, tabs, past>>

DraftsNext ==
  \/ \E t \in Tab, o \in Owner, k \in Key :
       \/ SaveBegins(t, o, k) \/ SaveReads(t, o, k) \/ SavePuts(t, o, k)
       \/ GetReads(t, o, k) \/ DeleteReads(t, o, k) \/ DeleteDeletes(t, o, k)
  \/ \E t \in Tab, o \in Owner : EnforceLists(t, o) \/ EnforceDeletes(t, o)
  \/ \E t \in Tab : PruneExpired(t) \/ CloseTab(t)
  \/ \E o \in Owner : ClearOwner(o)
  \/ \E o \in Owner, k \in Key : Ages(o, k)

DraftsSpec == DraftsInit /\ [][DraftsNext]_draftVars

-----------------------------------------------------------------------------

\* Every variable has its type, and a stored draft has both times.
DraftsTypeOK ==
  /\ draft \in [Owner -> [Key -> [updatedAt : 0..clock, createdAt : 0..clock]]]
  /\ \A o \in Owner : \A k \in Stored(o) : draft[o][k].createdAt # 0 /\ draft[o][k].updatedAt # 0
  /\ clock \in 0..MaxSaves
  /\ aged \subseteq 1..clock
  /\ stage \in [Tab -> Step]
  /\ target \in [Tab -> (Owner \X Key) \cup {Nowhere}]
  /\ mine \in [Tab -> [updatedAt : 0..clock, createdAt : 0..clock]]
  /\ drop \in [Tab -> SUBSET Key]
  /\ asked \in [Tab -> BOOLEAN]
  /\ overtaken \subseteq Tab
  /\ torn \in [Owner -> 0..MaxSaves]
  /\ loggedOut \in [Owner -> 0..MaxSaves]
  /\ spared \in [Owner -> SUBSET (1..MaxSaves)]

Saving(o) == {t \in Tab : \E s \in {"pruning", "listing", "enforcing"} : At(t, s, o)}

ByUser(t, o, k) == At(t, "deleting", o) /\ asked[t] /\ target[t] = <<o, k>> /\ stage'[t] = "idle"

\* The store itself, when it prunes, enforces the limit or drops what get found
\* expired, never deletes one of the owner's newest drafts that is not expired,
\* unless another tab changed the drafts after the decision was taken.
NewestKept ==
  [][\A o \in Owner : \A k \in Active(o) :
       \/ draft'[o][k] # Absent
       \/ Cardinality(Newer(o, k, Stored(o))) >= DraftLimit
       \/ \E t \in Tab : stage[t] # "idle" /\ stage'[t] = "idle" /\ (t \in overtaken \/ ByUser(t, o, k))
       \/ Stored(o)' = {} /\ UNCHANGED stage]_draftVars

\* What is stored for an owner is current, though several tabs save, prune and
\* enforce the limit from lists that are out of date: no more drafts than the
\* limit, but for the saves in flight or cut short, and none from before a
\* logout, expired ones included, but by a save under way at that moment.
OnlyCurrent ==
  \A o \in Owner :
    /\ Cardinality(Active(o)) <= DraftLimit + Cardinality(Saving(o)) + torn[o]
    /\ \A k \in Stored(o) :
         draft[o][k].updatedAt > loggedOut[o] \/ draft[o][k].updatedAt \in spared[o]

\* What is stored is current, and the limit costs one of the newest drafts only when
\* another tab changed them between the transactions of a save.
DraftsHold == []OnlyCurrent /\ NewestKept
=============================================================================
