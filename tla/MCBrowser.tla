------------------------------ MODULE MCBrowser ------------------------------
(* What a browser keeps and runs, in parts that share no state: a behaviour is of
   one of them.  The retry queue: two tabs over an automatic item with two
   attempts and a manual item with a single one, which a claim for the user may take
   together, until more than MaxMishaps leases were overtaken, successes left unrecorded
   or items cleared.  Updates: two tabs and three builds.  Installation: two overlapping calls
   of prompt() and three offers.  Caching: caches of one entry, for both
   applications.  The shell: two documents and three starts, while the theme stays; and two starts
   with themes that are chosen, while the visitor holds still. *)
EXTENDS RetryQueue, PwaClient, InstallPrompt, PwaCaching, SiteShell, TLC

CONSTANTS i1, i2, o1, t1, t2, k1, k2, MaxMishaps

const_Item        == {i1, i2}
const_Automatic   == {i1}
const_Expiring    == {i2}
const_Owner       == {o1}
const_OwnerOf     == (i1 :> o1) @@ (i2 :> o1)
const_Tab         == {t1, t2}
const_MaxAttempts == (i1 :> 2) @@ (i2 :> 1)
const_Call        == {k1, k2}
const_Theme       == {"dark", "system"}

Symmetry == Permutations(const_Tab)

VARIABLE part

browser == <<part, vars, clientVars, installVars, cachingVars, shellVars>>

\* A part that is not looked at has one initial state.
BrowserInit ==
  /\ part \in {"queue", "client", "install", "caching", "shell", "themes"}
  /\ Init /\ ClientInit /\ InstallInit /\ CachingInit /\ ShellInit
  /\ part # "install" => ~standalone
  /\ part # "caching" => site = "public"
  /\ part \notin {"shell", "themes"} => kind = "home"
  /\ part # "themes" => ~blocked /\ stored = "none"

Mishaps == Cardinality(overtaken) + Cardinality(unrecorded) + Cardinality(cleared)

BrowserNext ==
  \/ part = "queue" /\ Mishaps <= MaxMishaps /\ Next
       /\ UNCHANGED <<part, clientVars, installVars, cachingVars, shellVars>>
  \/ part = "client" /\ ClientNext /\ UNCHANGED <<part, vars, installVars, cachingVars, shellVars>>
  \/ part = "install" /\ InstallNext /\ UNCHANGED <<part, vars, clientVars, cachingVars, shellVars>>
  \/ part = "caching" /\ CachingNext /\ UNCHANGED <<part, vars, clientVars, installVars, shellVars>>
  \/ /\ part \in {"shell", "themes"} /\ ShellNext
     /\ IF part = "shell" THEN UNCHANGED stored ELSE UNCHANGED visitor /\ lifecycle'.begun <= 2
     /\ UNCHANGED <<part, vars, clientVars, installVars, cachingVars>>

BrowserSpec == BrowserInit /\ [][BrowserNext]_browser
=============================================================================
