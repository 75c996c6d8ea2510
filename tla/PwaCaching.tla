------------------------------ MODULE PwaCaching ------------------------------
(* What the generated service workers keep of the network: the first of the
   WorkerRules that matches a GET request decides whether its response is stored,
   and what answers without a network. *)
EXTENDS WorkerRules, FiniteSets

CONSTANTS
  MaxEntries      \* maxEntries of every cache

ASSUME CachingAssumption == MaxEntries \in Nat \ {0}

VARIABLES
  site,       \* whose rules: "public" or "admin"
  connected,
  kept,       \* the requests whose response is in a runtime cache, by cache
  unanswered  \* the last request, if neither network, cache nor offline page answered it

cachingVars == <<site, connected, kept, unanswered>>

Rules == IF site = "public" THEN PublicRules ELSE AdminRules

Route(r) ==
  LET matching == {i \in DOMAIN Rules : r \in Rules[i].matches}
  IN  IF matching = {} THEN Unruled
      ELSE Rules[CHOOSE i \in matching : \A j \in matching : i <= j]
-----------------------------------------------------------------------------
CachingInit ==
  /\ site \in {"public", "admin"}
  /\ connected = TRUE
  /\ kept = [c \in Caches |-> {}]
  /\ unanswered = {}

ConnectionChanges == connected' = ~connected /\ UNCHANGED <<site, kept, unanswered>>

\* Mutant of Store: the cache is given no expiration.
StoreUnlimited(cache, r) == kept' = [kept EXCEPT ![cache] = @ \cup {r}]

\* cacheableResponse and expiration: one entry too many drops another one.
Store(cache, r) ==
  IF r \in kept[cache] \/ Cardinality(kept[cache]) < MaxEntries
  THEN kept' = [kept EXCEPT ![cache] = @ \cup {r}]
  ELSE \E old \in kept[cache] : kept' = [kept EXCEPT ![cache] = (@ \ {old}) \cup {r}]

(* The network answered, with a status the cache takes (0 or 200) or another one.
   Nothing else of the response is looked at: one that isResponseSafeToCache
   refuses, since it is opaque or says "private", is kept as well. *)
FromNetwork(r) ==
  /\ connected
  /\ unanswered' = {}
  /\ Route(r).handler \in {"StaleWhileRevalidate", "CacheFirst"} => r \notin kept[Route(r).cache]
  /\ \/ UNCHANGED kept
     \/ Route(r).handler # "NetworkOnly" /\ Store(Route(r).cache, r)
  /\ UNCHANGED <<site, connected>>

(* A kept response answers at once, or after the network failed or took longer
   than networkTimeoutSeconds; the one that comes later is kept in its place. *)
FromCache(r) ==
  /\ Route(r).handler # "NetworkOnly"
  /\ r \in kept[Route(r).cache]
  /\ unanswered' = {}
  /\ UNCHANGED <<site, connected, kept>>

\* No network and nothing kept: the precached offline page, where a rule names it.
FromNothing(r) ==
  /\ Route(r).handler # "NetworkOnly" => r \notin kept[Route(r).cache]
  /\ unanswered' = IF Route(r).fallback THEN {} ELSE {r}
  /\ UNCHANGED <<site, connected, kept>>

\* maxAgeSeconds, purgeOnQuotaError, or the browser evicts.
Purge ==
  /\ \E c \in Caches : \E r \in kept[c] : kept' = [kept EXCEPT ![c] = @ \ {r}]
  /\ UNCHANGED <<site, connected, unanswered>>

Fetch == \E r \in Request : FromNetwork(r) \/ FromCache(r) \/ FromNothing(r)

CachingNext == ConnectionChanges \/ Fetch \/ Purge

CachingSpec == CachingInit /\ [][CachingNext]_cachingVars
-----------------------------------------------------------------------------
CachingTypeOK ==
  /\ site \in {"public", "admin"} /\ connected \in BOOLEAN
  /\ kept \in [Caches -> SUBSET Request]
  /\ \A c \in Caches : Cardinality(kept[c]) <= MaxEntries
  /\ unanswered \subseteq Request /\ Cardinality(unanswered) <= 1

\* What the rules keep although classifyRequest refuses it: a fragment right after a
\* listed prefix ("/preview#top"), which their pattern does not match, and a request
\* for a media origin with a secret header, which they do not look at.
Unseen(r) == (r.origin = "own" /\ r.tail = "fragment") \/ (r.origin = "media" /\ r.secret)

(* No cache holds the response of a request that classifyRequest refuses, but for
   those that are unseen; the administration keeps no page at all; and a page
   of one's own site is always answered, by the offline page if by nothing else,
   unless the policy says that only the network may answer it. *)
OnlyPublicKept ==
  /\ CachingTypeOK
  /\ \A c \in Caches : \A r \in kept[c] :
       /\ Classify(r) = "safe-get" \/ Unseen(r)
       /\ site = "admin" => r.use # "navigate" \/ r.origin # "own"
  /\ \A r \in unanswered : Navigation(r) => Classify(r) # "safe-get"
=============================================================================
