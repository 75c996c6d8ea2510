------------------------------ MODULE SiteShell ------------------------------
(***************************************************************************)
(* The shell of the public website in one browser tab: the theme that the  *)
(* tabs share through localStorage, the mobile menu, and the animations of *)
(* the home page and the legal pages, which a start of the client          *)
(* lifecycle sets up one after the other and hands over to it together.    *)
(*                                                                         *)
(* The enhancements of a page are numbered in the order setupPage takes    *)
(* them: the choreography of the home page, its technology rail, and the   *)
(* map of a legal document.                                                *)
(***************************************************************************)
EXTENDS FiniteSets, Naturals

CONSTANTS
  Theme,                 \* ThemePreference: "system" and "dark", "light" or both
  MaxPages, MaxStarts

ASSUME ShellAssumption ==
  /\ "system" \in Theme /\ Theme \subseteq {"system", "dark", "light"}
  /\ MaxPages \in Nat \ {0} /\ MaxStarts \in Nat

Start  == 1..MaxStarts
Effect == 1..3
Rail   == 2
Done   == 4
Lost   == 5

VARIABLES
  page,      \* the number of the document shown
  kind,      \* "home" or "legal"
  blocked,   \* this browser's localStorage throws
  stored,    \* the theme in localStorage, or "none"
  attr,      \* the theme the document shows
  label,     \* the theme its menus name; "none" before they are set up
  dialog,    \* the mobile menu: "shut", "open", or "closing" until its close event
  locked,    \* the body does not scroll
  lifecycle, \* [due, begun, cleanup]: the event to come, the starts, the one to clean up
  at,        \* the enhancement each start is setting up; 0 before it begins, Lost if its
             \* import was rejected
  root,      \* the document whose element it holds meanwhile; 0 before its import is done
  live,      \* the documents on which each start's enhancements run
  rail,      \* the flags of each start's rail
  pressed,   \* aria-pressed of the rail's toggle
  visitor,   \* [over, within, hidden, still]: pointer and focus, the tab, reduced motion
  overlapped, \* history: starts of which one began, or a swap came, during the setup of one
  apart      \* history: the storage held another theme than this document shows

chosen == <<blocked, stored, attr, label, apart>>
menu   == <<dialog, locked>>
motion == <<live, rail, pressed>>
shellVars   == <<page, kind, chosen, menu, lifecycle, at, root, motion, visitor, overlapped>>

Still == [explicit |-> FALSE, pointer |-> FALSE, focus |-> FALSE, paused |-> TRUE]

ShellInit ==
  /\ page = 1 /\ kind \in {"home", "legal"}
  /\ blocked \in BOOLEAN /\ stored \in Theme \cup {"none"}
  /\ blocked => stored = "none"
  /\ attr = IF stored = "none" THEN "system" ELSE stored
  /\ label = "none" /\ dialog = "shut" /\ locked = FALSE
  /\ lifecycle = [due |-> "install", begun |-> 0, cleanup |-> 0]
  /\ at = [s \in Start |-> 0] /\ root = [s \in Start |-> 0]
  /\ live = [s \in Start |-> [e \in Effect |-> 0]]
  /\ rail = [s \in Start |-> Still] /\ pressed = FALSE
  /\ visitor = [over |-> FALSE, within |-> FALSE, hidden |-> FALSE, still |-> FALSE]
  /\ overlapped = {} /\ apart = FALSE

StoredTheme == IF stored \in Theme THEN stored ELSE "system"
-----------------------------------------------------------------------------
(* Themes *)

\* A click in a theme menu: the document, the storage if it can, the menus.
ChooseTheme(theme) ==
  /\ label # "none"
  /\ attr' = theme /\ label' = theme
  /\ stored' = IF blocked THEN stored ELSE theme
  /\ apart' = (blocked /\ theme # StoredTheme)
  /\ UNCHANGED <<page, kind, blocked, menu, lifecycle, at, root, motion, visitor, overlapped>>

\* Another tab of the site: nothing here listens for it.
ChooseThemeElsewhere(theme) ==
  /\ ~blocked
  /\ stored' = theme
  /\ apart' = (apart \/ theme # attr)
  /\ UNCHANGED <<page, kind, blocked, attr, label, menu, lifecycle, at, root, motion, visitor,
                 overlapped>>

(* The mobile menu *)

OpenMenu ==
  /\ label # "none" /\ dialog = "shut"
  /\ dialog' = "open" /\ locked' = TRUE
  /\ UNCHANGED <<page, kind, chosen, lifecycle, at, root, motion, visitor, overlapped>>

\* A click on the button, a link or the backdrop, or Escape.
CloseMenu ==
  /\ dialog = "open" /\ dialog' = "closing"
  /\ UNCHANGED <<page, kind, chosen, locked, lifecycle, at, root, motion, visitor, overlapped>>

CloseEvent ==
  /\ dialog = "closing" /\ dialog' = "shut"
  /\ locked' = (locked /\ label = "none")
  /\ UNCHANGED <<page, kind, chosen, lifecycle, at, root, motion, visitor, overlapped>>
-----------------------------------------------------------------------------
(* The rail *)

OnPage(s) == live[s][Rail] = page

\* gsap.matchMedia runs an enhancement only while motion is welcome.
Moves(s) == live[s][Rail] # 0 /\ ~visitor.still /\ ~rail[s].paused

Synced(r, hidden) == [r EXCEPT !.paused = r.explicit \/ r.pointer \/ r.focus \/ hidden]

\* Mutant of Toggle: the choice is shown before the timeline is told.
ToggleUnsynced ==
  /\ ~visitor.still
  /\ \E last \in Start :
       /\ OnPage(last)
       /\ rail' = [s \in Start |-> IF OnPage(s) THEN [rail[s] EXCEPT !.explicit = ~@] ELSE rail[s]]
       /\ pressed' = rail'[last].explicit
  /\ UNCHANGED <<page, kind, chosen, menu, lifecycle, at, root, live, visitor, overlapped>>

\* onToggle, of every rail bound to the button; the last listener has the last word.
Toggle ==
  /\ ~visitor.still
  /\ \E last \in Start :
       /\ OnPage(last)
       /\ rail' = [s \in Start |->
                     IF OnPage(s) THEN Synced([rail[s] EXCEPT !.explicit = ~@], visitor.hidden)
                                  ELSE rail[s]]
       /\ pressed' = rail'[last].explicit
  /\ UNCHANGED <<page, kind, chosen, menu, lifecycle, at, root, live, visitor, overlapped>>

\* The pointer enters or leaves the viewport.
Point ==
  /\ kind = "home"
  /\ visitor' = [visitor EXCEPT !.over = ~@]
  /\ rail' = [s \in Start |->
                IF OnPage(s) /\ ~visitor.still
                THEN Synced([rail[s] EXCEPT !.pointer = ~visitor.over], visitor.hidden) ELSE rail[s]]
  /\ UNCHANGED <<page, kind, chosen, menu, lifecycle, at, root, live, pressed, overlapped>>

\* The focus comes into the rail or leaves it, not from one of its elements to another.
Focus ==
  /\ kind = "home"
  /\ visitor' = [visitor EXCEPT !.within = ~@]
  /\ rail' = [s \in Start |->
                IF OnPage(s) /\ ~visitor.still
                THEN Synced([rail[s] EXCEPT !.focus = ~visitor.within], visitor.hidden) ELSE rail[s]]
  /\ UNCHANGED <<page, kind, chosen, menu, lifecycle, at, root, live, pressed, overlapped>>

\* visibilitychange, which reaches the rails of documents that are gone too.
HideOrShow ==
  /\ visitor' = [visitor EXCEPT !.hidden = ~@]
  /\ rail' = [s \in Start |-> IF live[s][Rail] # 0 /\ ~visitor.still
                              THEN Synced(rail[s], ~visitor.hidden) ELSE rail[s]]
  /\ UNCHANGED <<page, kind, chosen, menu, lifecycle, at, root, live, pressed, overlapped>>

\* prefers-reduced-motion changes: a rail is reverted, or set up afresh.
ChangePreference ==
  /\ visitor' = [visitor EXCEPT !.still = ~@]
  /\ rail' = [s \in Start |-> IF live[s][Rail] # 0 /\ visitor.still
                              THEN Synced(Still, visitor.hidden) ELSE Still]
  /\ pressed' = (pressed /\ ~(visitor.still /\ \E s \in Start : OnPage(s)))
  /\ UNCHANGED <<page, kind, chosen, menu, lifecycle, at, root, live, overlapped>>
-----------------------------------------------------------------------------
(* The lifecycle *)

Effects(k) == IF k = "home" THEN {1, Rail} ELSE {3}

\* The next enhancement whose element the document has at that moment.
After(e) ==
  LET later == {f \in Effects(kind) : f > e}
  IN  IF later = {} THEN Done ELSE CHOOSE f \in later : \A g \in later : f <= g

SettingUp(s) == at[s] \in Effect

Cleaned(c) ==
  /\ live' = [s \in Start |-> IF s = c THEN [e \in Effect |-> 0] ELSE live[s]]
  /\ rail' = [s \in Start |-> IF s = c THEN Still ELSE rail[s]]

\* A start goes on to the enhancement after e, or hands its cleanup over.
GoOn(s, e) ==
  /\ at' = [at EXCEPT ![s] = After(e)]
  /\ root' = [root EXCEPT ![s] = 0]
  /\ lifecycle' = IF After(e) = Done THEN [lifecycle EXCEPT !.cleanup = s] ELSE lifecycle

\* start(): the last cleanup, then the shell, which is set up at once.
BeginSetup ==
  LET s      == lifecycle.begun + 1
      others == {r \in Start : SettingUp(r)} IN
  /\ lifecycle.due # "none" /\ s \in Start
  /\ lifecycle' = [lifecycle EXCEPT !.due = IF @ = "install" THEN "load" ELSE "none", !.begun = s]
  /\ Cleaned(lifecycle.cleanup)
  /\ locked' = (locked /\ lifecycle.cleanup = 0)
  /\ label' = StoredTheme
  /\ at' = [at EXCEPT ![s] = After(0)]
  /\ overlapped' = IF others = {} THEN overlapped ELSE overlapped \cup others \cup {s}
  /\ UNCHANGED <<page, kind, blocked, stored, attr, apart, dialog, root, pressed, visitor>>

\* An import is done: the element is looked for again.
Imported(s) ==
  /\ SettingUp(s) /\ root[s] = 0
  /\ IF at[s] \in Effects(kind)
       THEN root' = [root EXCEPT ![s] = page] /\ UNCHANGED <<at, lifecycle>>
       ELSE GoOn(s, at[s])
  /\ UNCHANGED <<page, kind, chosen, menu, motion, visitor, overlapped>>

\* An import is rejected and nobody catches it: the setup ends, and the cleanups of what
\* this start set up so far are lost.
ImportRejected(s) ==
  /\ SettingUp(s) /\ root[s] = 0
  /\ at' = [at EXCEPT ![s] = Lost]
  /\ UNCHANGED <<page, kind, chosen, menu, lifecycle, root, motion, visitor, overlapped>>

\* The fonts are ready: the enhancement runs, on a document that may be gone.
SetUp(s) ==
  /\ SettingUp(s) /\ root[s] # 0
  /\ live' = [live EXCEPT ![s][at[s]] = root[s]]
  /\ IF at[s] = Rail /\ ~visitor.still
       THEN /\ rail' = [rail EXCEPT ![s] = Synced(Still, visitor.hidden)]
            /\ pressed' = (pressed /\ root[s] # page)
       ELSE UNCHANGED <<rail, pressed>>
  /\ GoOn(s, at[s])
  /\ UNCHANGED <<page, kind, chosen, menu, visitor, overlapped>>

\* astro:before-swap and the swap: a new body, and the stored theme on the new document.
Swap ==
  /\ page < MaxPages
  /\ page' = page + 1 /\ kind' \in {"home", "legal"}
  /\ Cleaned(lifecycle.cleanup)
  /\ attr' = StoredTheme /\ label' = "none" /\ apart' = FALSE
  /\ dialog' = "shut" /\ locked' = FALSE /\ pressed' = FALSE
  /\ lifecycle' = [lifecycle EXCEPT !.due = IF @ = "install" THEN @ ELSE "load"]
  /\ visitor' = [visitor EXCEPT !.over = FALSE, !.within = FALSE]
  /\ overlapped' = overlapped \cup {s \in Start : SettingUp(s)}
  /\ UNCHANGED <<blocked, stored, at, root>>

ShellNext ==
  \/ \E theme \in Theme : ChooseTheme(theme) \/ ChooseThemeElsewhere(theme)
  \/ OpenMenu \/ CloseMenu \/ CloseEvent
  \/ Toggle \/ Point \/ Focus \/ HideOrShow \/ ChangePreference
  \/ BeginSetup \/ Swap
  \/ \E s \in Start : Imported(s) \/ ImportRejected(s) \/ SetUp(s)

ShellSpec == ShellInit /\ [][ShellNext]_shellVars
-----------------------------------------------------------------------------
ShellTypeOK ==
  /\ page \in 1..MaxPages /\ kind \in {"home", "legal"} /\ blocked \in BOOLEAN
  /\ stored \in Theme \cup {"none"} /\ attr \in Theme /\ label \in Theme \cup {"none"}
  /\ dialog \in {"shut", "open", "closing"} /\ locked \in BOOLEAN
  /\ lifecycle \in [due : {"install", "load", "none"}, begun : 0..MaxStarts, cleanup : 0..MaxStarts]
  /\ at \in [Start -> 0..Lost] /\ root \in [Start -> 0..MaxPages]
  /\ live \in [Start -> [Effect -> 0..MaxPages]]
  /\ rail \in [Start -> [explicit : BOOLEAN, pointer : BOOLEAN, focus : BOOLEAN, paused : BOOLEAN]]
  /\ pressed \in BOOLEAN
  /\ visitor \in [over : BOOLEAN, within : BOOLEAN, hidden : BOOLEAN, still : BOOLEAN]
  /\ overlapped \subseteq Start /\ apart \in BOOLEAN

(* What the controls of the shell say is so: the menus name the theme the
   document shows, unless the storage held another one meanwhile, because another
   tab chose it or because it cannot be written; a body that does not
   scroll has its menu open; a rail that moves is one the visitor neither paused
   nor points at nor hides, and its toggle shows the choice, unless a start that
   was overtaken has a rail on the same document; and an animation runs on the
   document shown alone, unless its start was overtaken by another one or a swap,
   since the lifecycle keeps one cleanup, or lost an import, when it keeps none. *)
ControlsTellTheTruth ==
  /\ ShellTypeOK
  /\ label # "none" /\ ~apart => label = attr
  /\ locked => dialog # "shut"
  /\ \A s \in Start : Moves(s) => ~(rail[s].explicit \/ rail[s].pointer \/ visitor.hidden)
  /\ \A s \in Start : OnPage(s) => (rail[s].pointer => visitor.over) /\ (rail[s].focus => visitor.within)
  /\ \A s \in Start \ overlapped :
       /\ OnPage(s) /\ ~visitor.still => pressed = rail[s].explicit \/ \E x \in overlapped : OnPage(x)
       /\ at[s] # Lost => \A e \in Effect : live[s][e] \in {0, page}
=============================================================================
