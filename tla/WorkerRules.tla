------------------------------ MODULE WorkerRules ------------------------------
(* The rules that the two applications give Workbox for their service workers, and
   classifyRequest, a second statement of the same policy that the application
   code may ask before it keeps a response itself.

   An address is its origin and, for the site itself, whether its path begins
   with a prefix the policy lists ("/api", "/preview", ...) and what follows
   that prefix.  Only fetch() sends a header of a user's own, secret if it is one
   classifyRequest names (authorization, x-api-key, ...): the cookies a browser
   adds are seen by neither.  The navigation of a form that is posted stands for all
   requests that are not a GET. *)
EXTENDS Naturals, Sequences

Request ==
  {r \in [method : {"GET", "POST"},
          origin : {"own", "api", "media", "other"},
          tail   : {"end", "slash", "query", "fragment", "letters", "unlisted"},
          use    : {"navigate", "image", "font", "fetch"},
          secret : BOOLEAN] :
     /\ r.origin = "own" \/ r.tail = "unlisted"
     /\ r.method = "POST" => r.use = "navigate"
     /\ r.secret => r.use = "fetch"}

Navigation(r) == r.use = "navigate" /\ r.origin = "own"

Caches == {"pages", "media", "fonts", "safe-assets"}

\* createOriginsPattern.
OfOrigins(origins) == {r \in Request : r.origin \in origins}

\* createSameOriginPathsPattern: "/", "?" or the end of the address follows the prefix.
OfPaths == {r \in Request : r.origin = "own" /\ r.tail \in {"end", "slash", "query"}}

\* matchSameOriginNavigation, matchSameOriginImage, matchSameOriginFont.
OfUse(use) == {r \in Request : r.use = use /\ r.origin = "own"}

\* Every rule is of the method GET.
Rule(matches, handler, cache, fallback) ==
  [matches |-> {r \in matches : r.method = "GET"}, handler |-> handler, cache |-> cache, fallback |-> fallback]

PrivateRules ==
  <<Rule(OfOrigins({"api"}), "NetworkOnly", "none", FALSE),
    Rule(OfPaths, "NetworkOnly", "none", FALSE)>>

PageRules == <<Rule(OfUse("navigate"), "NetworkFirst", "pages", TRUE)>>

AssetRules ==
  <<Rule(OfUse("image"), "StaleWhileRevalidate", "media", FALSE),
    Rule(OfOrigins({"media"}), "StaleWhileRevalidate", "media", FALSE),
    Rule(OfUse("font"), "CacheFirst", "fonts", FALSE)>>

\* Mutant of PublicRules: images are matched before the addresses that must not be kept.
PublicRulesAssetsFirst == AssetRules \o PrivateRules \o PageRules

PublicRules == PrivateRules \o PageRules \o AssetRules

AdminRules ==
  PrivateRules \o
  <<Rule(OfUse("navigate"), "NetworkOnly", "none", TRUE),
    Rule(OfOrigins({"media"}), "StaleWhileRevalidate", "safe-assets", FALSE)>>

\* Without a rule the request goes to the network as if there were no worker.
Unruled == Rule(Request, "NetworkOnly", "none", FALSE)

(* classifyRequest, given the same origins and prefixes, in the order of its checks:
   it looks at the path alone, and at headers no rule looks at. *)
Classify(r) ==
  IF r.method # "GET" THEN "non-get"
  ELSE IF r.origin = "api" THEN "sensitive-origin"
  ELSE IF r.origin = "own" /\ r.tail \notin {"letters", "unlisted"} THEN "sensitive-path"
  ELSE IF r.secret THEN "sensitive-header"
  ELSE "safe-get"
=============================================================================
