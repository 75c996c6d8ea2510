------------------------------ MODULE PwaClient ------------------------------
(* The public site as an installed application: its tabs register one service
   worker, look for newer builds of it, offer them to the visitor, and show
   whether the network seems to be there.

   A worker that was found waits (registerType "prompt", skipWaiting and
   clientsClaim false) until a visitor presses "Update now" in some tab, or
   until every tab is closed. The browser and the registration module of the
   PWA plugin are external: they are modelled as registerPublicPwa uses them. *)
EXTENDS Naturals

CONSTANTS
  Window,       \* the tabs and windows of one browser
  MaxBuilds     \* a bound: builds that are deployed

ASSUME ClientAssumption == MaxBuilds \in Nat \ {0}

VARIABLES
  deployed,     \* the newest build on the server
  active,       \* the build of the active worker, 0 for none
  waiting,      \* the build of the waiting worker, 0 for none
  online,       \* navigator.onLine
  stage,         \* each tab: "closed", "open", "registering", "registered" or "failed"
  visible,      \* document.visibilityState
  control,      \* the build whose worker controls the tab's page, 0 for none
  heard,        \* the newest waiting build the tab was told of: it reloads when one takes control
  banner,       \* the status surface: "hidden", "update", "ready" or "offline"
  reloading,    \* a page that is about to reload
  born,         \* history: what controlled the page when it was loaded
  asked         \* history: builds a visitor pressed "Update now" for

worker == <<deployed, active, waiting, online>>
windows    == <<stage, visible, control, heard, banner, reloading>>
clientVars    == <<worker, windows, born, asked>>

Opened       == {t \in Window : stage[t] # "closed"}
Registered == {t \in Window : stage[t] = "registered"}

ClientInit ==
  /\ deployed = 1 /\ active = 0 /\ waiting = 0 /\ online = TRUE
  /\ stage = [t \in Window |-> "closed"]
  /\ visible = [t \in Window |-> FALSE]
  /\ control = [t \in Window |-> 0]
  /\ heard = [t \in Window |-> 0]
  /\ banner = [t \in Window |-> "hidden"]
  /\ reloading = [t \in Window |-> FALSE]
  /\ born = [t \in Window |-> 0]
  /\ asked = {}
-----------------------------------------------------------------------------
(* The page and the browser's part. *)

\* A document is loaded, with the status surface of the server's markup.
Load(t, build) ==
  /\ stage' = [stage EXCEPT ![t] = "open"]
  /\ visible' = [visible EXCEPT ![t] = TRUE]
  /\ control' = [control EXCEPT ![t] = build]
  /\ born' = [born EXCEPT ![t] = build]
  /\ heard' = [heard EXCEPT ![t] = 0]
  /\ banner' = [banner EXCEPT ![t] = "hidden"]
  /\ reloading' = [reloading EXCEPT ![t] = FALSE]

\* A page without network comes from a worker, if there is one.
OpenTab(t) ==
  /\ stage[t] = "closed"
  /\ online \/ active # 0
  /\ Load(t, active)
  /\ UNCHANGED <<worker, asked>>

Reload(t) ==
  /\ reloading[t]
  /\ Load(t, active)
  /\ UNCHANGED <<worker, asked>>

\* The last page of the site is closed: a waiting worker need not wait any longer.
CloseTab(t) ==
  /\ stage[t] # "closed"
  /\ stage' = [stage EXCEPT ![t] = "closed"]
  /\ reloading' = [reloading EXCEPT ![t] = FALSE]
  /\ IF Opened = {t} /\ waiting # 0
     THEN active' = waiting /\ waiting' = 0
     ELSE UNCHANGED <<active, waiting>>
  /\ UNCHANGED <<deployed, online, visible, control, heard, banner, born, asked>>

Deploy ==
  /\ deployed < MaxBuilds
  /\ deployed' = deployed + 1
  /\ UNCHANGED <<active, waiting, online, windows, born, asked>>

Show(t) ==
  /\ stage[t] # "closed"
  /\ visible' = [visible EXCEPT ![t] = ~@]
  /\ UNCHANGED <<worker, stage, control, heard, banner, reloading, born, asked>>

\* Mutant of Installed: the worker is generated with skipWaiting.
InstalledSkipsWaiting ==
  /\ active' = deployed
  /\ control' = [t \in Window |-> IF control[t] = 0 THEN 0 ELSE deployed]
  /\ UNCHANGED waiting

(* A newer build was downloaded. The first worker of all activates at once and
   claims no page; a later one waits, in place of one that waited before. *)
Installed ==
  IF active = 0
  THEN active' = deployed /\ UNCHANGED <<waiting, control>>
  ELSE waiting' = deployed /\ UNCHANGED <<active, control>>

-----------------------------------------------------------------------------
(* registerPublicPwa and what it binds. *)

\* observeConnectivity tells its listener at once and at every change: only "offline" is shown.
Hinted(hinted) == [t \in Window |-> IF t \in hinted /\ ~online' THEN "offline" ELSE banner[t]]

\* The guard is set before the import, so an import that fails is not tried again.
Register(t) ==
  /\ stage[t] = "open"
  /\ UNCHANGED <<worker, visible, control, heard, reloading, born, asked>>
  /\ \/ stage' = [stage EXCEPT ![t] = "failed"] /\ UNCHANGED banner
     \/ stage' = [stage EXCEPT ![t] = "registering"] /\ banner' = Hinted({t})

\* The first worker of all installs: onOfflineReady. onRegisteredSW starts the checks.
Registers(t) ==
  /\ stage[t] = "registering"
  /\ active # 0 \/ online
  /\ stage' = [stage EXCEPT ![t] = "registered"]
  /\ IF active = 0
     THEN Installed /\ banner' = [banner EXCEPT ![t] = "ready"]
     ELSE UNCHANGED <<active, waiting, control, banner>>
  /\ UNCHANGED <<deployed, online, visible, heard, reloading, born, asked>>

\* onRegisterError resets the guard, and nothing in this document registers again.
RegisterFails(t) ==
  /\ stage[t] = "registering"
  /\ stage' = [stage EXCEPT ![t] = "failed"]
  /\ UNCHANGED <<worker, visible, control, heard, banner, reloading, born, asked>>

(* The interval, the tab becoming visible and the network coming back each call
   registration.update, unless the tab is hidden or offline. *)
Check(t) == stage[t] = "registered" /\ visible[t] /\ online

\* The browser looks for a newer build itself when a page is loaded.
Found(t) ==
  /\ Check(t) \/ (stage[t] \in {"open", "registering"} /\ online)
  /\ active # 0 /\ deployed > active /\ deployed > waiting
  /\ Installed
  /\ UNCHANGED <<deployed, online, stage, visible, heard, banner, reloading, born, asked>>

\* onNeedRefresh: from here on the page reloads when another worker takes it over.
NeedRefresh(t) ==
  /\ stage[t] = "registered" /\ waiting # 0 /\ heard[t] # waiting
  /\ heard' = [heard EXCEPT ![t] = waiting]
  /\ banner' = [banner EXCEPT ![t] = "update"]
  /\ UNCHANGED <<worker, stage, visible, control, reloading, born, asked>>

\* showStatus without actions: a hint that the network is gone takes the place of an offer.
ConnectivityChanges ==
  /\ online' = ~online
  /\ banner' = Hinted({t \in Window : stage[t] \in {"registering", "registered"}})
  /\ UNCHANGED <<deployed, active, waiting, stage, visible, control, heard, reloading, born, asked>>

(* "Update now": the waiting worker becomes the active one, takes over every page
   that had a worker, and those of them that were told of an update reload. *)
PressUpdate(t) ==
  /\ banner[t] = "update" /\ waiting # 0
  /\ asked' = asked \cup {waiting}
  /\ active' = waiting /\ waiting' = 0
  /\ control' = [u \in Window |-> IF u \in Opened /\ control[u] # 0 THEN waiting ELSE control[u]]
  /\ reloading' =
       [u \in Window |-> reloading[u] \/ (u \in Opened /\ control[u] # 0 /\ heard[u] # 0)]
  /\ UNCHANGED <<deployed, online, stage, visible, heard, banner, born>>

\* "Later".
PressDismiss(t) ==
  /\ banner[t] = "update"
  /\ banner' = [banner EXCEPT ![t] = "hidden"]
  /\ UNCHANGED <<worker, stage, visible, control, heard, reloading, born, asked>>

ClientNext ==
  \/ Deploy \/ ConnectivityChanges
  \/ \E t \in Window :
       \/ OpenTab(t) \/ Reload(t) \/ CloseTab(t) \/ Show(t)
       \/ Register(t) \/ Registers(t) \/ RegisterFails(t)
       \/ Found(t) \/ NeedRefresh(t) \/ PressUpdate(t) \/ PressDismiss(t)

ClientSpec == ClientInit /\ [][ClientNext]_clientVars
-----------------------------------------------------------------------------
Build == 0..MaxBuilds

PwaTypeOK ==
  /\ deployed \in Build \ {0} /\ active \in Build /\ waiting \in Build /\ online \in BOOLEAN
  /\ stage \in [Window -> {"closed", "open", "registering", "registered", "failed"}]
  /\ visible \in [Window -> BOOLEAN] /\ reloading \in [Window -> BOOLEAN]
  /\ control \in [Window -> Build] /\ heard \in [Window -> Build] /\ born \in [Window -> Build]
  /\ banner \in [Window -> {"hidden", "update", "ready", "offline"}]
  /\ asked \subseteq Build
  /\ waiting # 0 => waiting > active

(* A page is taken over by another build, or reloaded, only after a visitor asked
   for that build, in this tab or another one, and pages are never run by a build
   older than the one that loaded them. *)
UpdatedOnRequest ==
  /\ PwaTypeOK
  /\ \A t \in Opened :
       /\ control[t] # born[t] \/ reloading[t] => control[t] \in asked
       /\ control[t] >= born[t]
=============================================================================
