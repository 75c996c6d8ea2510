---------------------------- MODULE InstallPrompt ----------------------------
(* createInstallPromptController: the browser's offer to install the site is
   kept until the visitor asks for it, and shown once. prompt() waits twice, for
   the dialog and for the visitor's choice, while the browser may make a new
   offer, tell that the site was installed, or the page may stop the controller. *)
EXTENDS Naturals

CONSTANTS
  Call,        \* overlapping calls of prompt()
  MaxOffers    \* a bound: beforeinstallprompt events

ASSUME InstallAssumption == MaxOffers \in Nat

VARIABLES
  started,
  deferred,    \* deferredPrompt: the number of an offer, or 0
  available, installed, dismissed,   \* the state of the controller
  standalone,  \* readStandaloneState()
  call,        \* each call: "idle", "prompting" or "choosing"
  held,        \* currentPrompt of each call
  offers,      \* history: offers made so far
  shown,       \* history: how often prompt() was called on each offer
  decided       \* history: offers the visitor answered

controller == <<available, installed, dismissed>>
installVars  == <<started, deferred, available, installed, dismissed, standalone, call, held,
           offers, shown, decided>>

InstallInit ==
  /\ started = FALSE /\ deferred = 0
  /\ standalone \in BOOLEAN
  /\ available = FALSE /\ installed = standalone /\ dismissed = FALSE
  /\ call = [c \in Call |-> "idle"]
  /\ held = [c \in Call |-> 0]
  /\ offers = 0
  /\ shown = [o \in 1..MaxOffers |-> 0]
  /\ decided = {}

StartController ==
  /\ ~started
  /\ started' = TRUE
  /\ installed' = standalone
  /\ UNCHANGED <<deferred, available, dismissed, standalone, call, held, offers, shown, decided>>

\* The offer is forgotten, the state that announced it is not.
StopController ==
  /\ started
  /\ started' = FALSE
  /\ deferred' = 0
  /\ UNCHANGED <<controller, standalone, call, held, offers, shown, decided>>

BeforeInstallPrompt ==
  /\ started /\ offers < MaxOffers
  /\ offers' = offers + 1
  /\ deferred' = offers'
  /\ available' = TRUE /\ installed' = FALSE /\ dismissed' = FALSE
  /\ UNCHANGED <<started, standalone, call, held, shown, decided>>

\* The site is installed, by an accepted offer or by the browser's own menu.
AppInstalled ==
  /\ standalone' \in {standalone, TRUE}
  /\ IF started
     THEN deferred' = 0 /\ available' = FALSE /\ installed' = TRUE /\ dismissed' = FALSE
     ELSE UNCHANGED <<deferred, controller>>
  /\ UNCHANGED <<started, call, held, offers, shown, decided>>

\* Mutant of Prompt: the offer is forgotten once the visitor has chosen.
PromptKeepsOffer(c) ==
  /\ call[c] = "idle" /\ deferred # 0
  /\ call' = [call EXCEPT ![c] = "prompting"]
  /\ held' = [held EXCEPT ![c] = deferred]
  /\ shown' = [shown EXCEPT ![deferred] = @ + 1]
  /\ UNCHANGED <<started, deferred, controller, standalone, offers, decided>>

\* prompt() takes the offer and shows it before anything else can run.
Prompt(c) ==
  /\ call[c] = "idle" /\ deferred # 0
  /\ call' = [call EXCEPT ![c] = "prompting"]
  /\ held' = [held EXCEPT ![c] = deferred]
  /\ shown' = [shown EXCEPT ![deferred] = @ + 1]
  /\ deferred' = 0
  /\ UNCHANGED <<started, controller, standalone, offers, decided>>

PromptShown(c) ==
  /\ call[c] = "prompting"
  /\ call' = [call EXCEPT ![c] = "choosing"]
  /\ UNCHANGED <<started, deferred, controller, standalone, held, offers, shown, decided>>

\* The dialog cannot be shown: prompt() rejects and leaves the state as it is.
PromptThrows(c) ==
  /\ call[c] = "prompting"
  /\ call' = [call EXCEPT ![c] = "idle"]
  /\ held' = [held EXCEPT ![c] = 0]
  /\ UNCHANGED <<started, deferred, controller, standalone, offers, shown, decided>>

ChooseOutcome(c) ==
  /\ call[c] = "choosing"
  /\ \E accepted \in BOOLEAN :
       /\ available' = FALSE
       /\ installed' = (accepted \/ standalone)
       /\ dismissed' = ~accepted
  /\ decided' = decided \cup {held[c]}
  /\ call' = [call EXCEPT ![c] = "idle"]
  /\ held' = [held EXCEPT ![c] = 0]
  /\ UNCHANGED <<started, deferred, standalone, offers, shown>>

InstallNext ==
  \/ StartController \/ StopController \/ BeforeInstallPrompt \/ AppInstalled
  \/ \E c \in Call : Prompt(c) \/ PromptShown(c) \/ PromptThrows(c) \/ ChooseOutcome(c)

InstallSpec == InstallInit /\ [][InstallNext]_installVars
-----------------------------------------------------------------------------
InstallTypeOK ==
  /\ started \in BOOLEAN /\ deferred \in 0..MaxOffers
  /\ available \in BOOLEAN /\ installed \in BOOLEAN /\ dismissed \in BOOLEAN /\ standalone \in BOOLEAN
  /\ call \in [Call -> {"idle", "prompting", "choosing"}]
  /\ held \in [Call -> 0..MaxOffers]
  /\ offers \in 0..MaxOffers /\ shown \in [1..MaxOffers -> Nat] /\ decided \subseteq 1..MaxOffers

(* An offer is shown once, whatever calls overlap (the browser refuses a second
   time), and the visitor's answer is never asked for again: an offer that is
   kept, or shown to the visitor now, was not answered. *)
OfferedOnce ==
  /\ InstallTypeOK
  /\ \A o \in 1..MaxOffers : shown[o] <= 1
  /\ deferred \notin decided
  /\ \A c \in Call : call[c] # "idle" => held[c] \notin decided
=============================================================================
