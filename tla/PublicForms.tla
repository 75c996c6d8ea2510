----------------------------- MODULE PublicForms -----------------------------
(***************************************************************************)
(* The public website in one browser tab: the client lifecycle that sets   *)
(* up each page Astro shows, and the intake form with its Turnstile widget *)
(* and its request to the API.                                             *)
(*                                                                         *)
(* A page is set up by a start, which waits for imports and for the        *)
(* Turnstile script and only then hands its cleanup to the lifecycle.  The *)
(* first document has two starts: the module script's and the first        *)
(* astro:page-load.  Pages, starts, tokens and requests are numbered in    *)
(* the order they come, and their numbers are bounded by the constants.    *)
(***************************************************************************)
EXTENDS FiniteSets, Naturals

CONSTANTS FormPages, MaxPages, MaxStarts, MaxTokens, MaxRequests

ASSUME PublicFormsAssumption ==
  /\ {MaxPages, MaxStarts, MaxTokens, MaxRequests} \subseteq Nat
  /\ MaxPages > 0 /\ FormPages \subseteq 1..MaxPages

VARIABLES
  page,      \* the page shown
  due,       \* the event that will start a setup
  begun,     \* starts so far
  stage,     \* how far each start is
  form,      \* the page whose form it took hold of, 0 for none
  shell,     \* the page whose shell controls it bound, 0 for none
  bound,     \* its submit listener and widget are in place
  cleanup,   \* the start the lifecycle would clean up, 0 for none
  script,    \* the Turnstile script element in the document's head
  loader,    \* turnstileLoader
  solving,   \* the start's widget is working on a challenge
  token,     \* the start's token, 0 for none
  issued,    \* tokens so far
  submit,    \* the submit button is enabled
  message,   \* what the status of the form says
  request,   \* the requests in the order they were sent
  overlapped, \* history: starts of which one began while another was setting up
  failedOn   \* history: pages on which the script failed

Start == 1..MaxStarts
Page  == 1..MaxPages
Id    == 1..MaxRequests

setup == <<due, begun, stage, form, shell, bound, cleanup, overlapped>>
turnstile == <<script, loader, failedOn>>
widget == <<solving, token, issued>>
formVars == <<page, due, begun, stage, form, shell, bound, cleanup, overlapped, script, loader,
          failedOn, solving, token, issued, submit, message, request>>

Unsent == [start |-> 0, token |-> 0, client |-> "unsent", server |-> "unseen"]

FormsInit ==
  /\ page = 1 /\ due = "install" /\ begun = 0 /\ cleanup = 0
  /\ stage   = [s \in Start |-> "unborn"]
  /\ form    = [s \in Start |-> 0]
  /\ shell   = [s \in Start |-> 0]
  /\ bound   = [s \in Start |-> FALSE]
  /\ script = "absent" /\ loader = "none"
  /\ solving = [s \in Start |-> FALSE]
  /\ token   = [s \in Start |-> 0]
  /\ issued = 0 /\ submit = FALSE /\ message = "none"
  /\ request = [r \in Id |-> Unsent]
  /\ overlapped = {} /\ failedOn = {}

Sent == {r \in Id : request[r] # Unsent}

\* The newest request, 0 before the first.
Last == CHOOSE n \in Sent \cup {0} : \A r \in Sent : r <= n

SettingUp(s) == stage[s] \in {"importing", "awaiting", "refused", "ending"}

\* The request whose AbortController the start holds: its newest one.
Controller(s, r) == request[r].start = s /\ \A q \in Id : request[q].start = s => q <= r

Abort(S) == [r \in Id |-> IF request[r].client = "waiting" /\ \E s \in S : Controller(s, r)
                          THEN [request[r] EXCEPT !.client = "aborted"] ELSE request[r]]

(***************************************************************************)
(* The lifecycle                                                           *)
(***************************************************************************)

\* Mutant of Dispose: a token outlives its widget.
DisposeWidget(s) ==
  /\ bound'   = [r \in Start |-> r # s /\ bound[r]]
  /\ solving' = [r \in Start |-> r # s /\ solving[r]]
  /\ request' = Abort({s})
  /\ UNCHANGED token

\* The cleanup of a start: its listeners and its widget are removed and its
\* request is aborted.  A second call finds nothing left to do.
Dispose(s) ==
  /\ bound'   = [r \in Start |-> r # s /\ bound[r]]
  /\ solving' = [r \in Start |-> r # s /\ solving[r]]
  /\ token'   = [r \in Start |-> IF r = s THEN 0 ELSE token[r]]
  /\ request' = Abort({s})

\* start(): clean up, bind the shell controls of the page and go on to its imports.
Begin ==
  LET s      == begun + 1
      others == {r \in Start : SettingUp(r)} IN
  /\ due # "none" /\ s \in Start
  /\ due'   = IF due = "install" THEN "load" ELSE "none"
  /\ begun' = s
  /\ stage' = [stage EXCEPT ![s] = "importing"]
  /\ Dispose(cleanup)
  /\ shell' = [r \in Start |-> CASE r = s -> page [] r = cleanup -> 0 [] OTHER -> shell[r]]
  /\ overlapped' = IF others = {} THEN overlapped ELSE overlapped \cup others \cup {s}
  /\ UNCHANGED <<page, form, cleanup, turnstile, issued, submit, message>>

\* setupPage resolves: the lifecycle keeps this cleanup and forgets the last one.
Finish(s) == stage' = [stage EXCEPT ![s] = "done"] /\ cleanup' = s

\* After the forms a start looks for one more thing to import.  A page with a form
\* has none of them, but the document may be another one by then.
Conclude(s) ==
  \/ Finish(s)
  \/ page \notin FormPages /\ stage' = [stage EXCEPT ![s] = "ending"] /\ UNCHANGED cleanup

EndSetup(s) ==
  /\ stage[s] = "ending"
  /\ Finish(s)
  /\ UNCHANGED <<page, due, begun, form, shell, bound, overlapped, turnstile, widget, submit,
                 message, request>>

\* An import is rejected, before the forms or after them, and nobody catches it: the
\* cleanups of this start are lost, and the lifecycle keeps the one it has.
ImportRejected(s) ==
  /\ stage[s] \in {"importing", "ending"}
  /\ stage' = [stage EXCEPT ![s] = "lost"]
  /\ UNCHANGED <<page, due, begun, form, shell, bound, cleanup, overlapped, turnstile, widget,
                 submit, message, request>>

\* The forms are looked for in the document of that moment, and Turnstile is
\* loaded unless it is there or a load is under way.  A script element that has
\* failed in this document is found again and never settles.
FindForm(s) ==
  /\ stage[s] = "importing"
  /\ IF page \in FormPages
       THEN /\ stage' = [stage EXCEPT ![s] = "awaiting"]
            /\ form'  = [form EXCEPT ![s] = page]
            /\ UNCHANGED cleanup
            /\ IF loader # "none"
                 THEN UNCHANGED turnstile
                 ELSE /\ loader' = IF script = "failed" THEN "stuck" ELSE "pending"
                      /\ script' = IF script = "absent" THEN "loading" ELSE script
                      /\ UNCHANGED failedOn
       ELSE Conclude(s) /\ UNCHANGED <<form, turnstile>>
  /\ UNCHANGED <<page, due, begun, shell, bound, overlapped, widget, submit, message, request>>

ScriptLoads ==
  /\ loader = "pending"
  /\ loader' = "loaded"
  /\ script' = IF script = "loading" THEN "loaded" ELSE script
  /\ UNCHANGED <<page, setup, failedOn, widget, submit, message, request>>

\* Mutant of ScriptFails: nothing listens for the error of the script.
ScriptFailsUnheard ==
  /\ loader = "pending"
  /\ loader' = "none"
  /\ script' = IF script = "loading" THEN "failed" ELSE script
  /\ failedOn' = failedOn \cup {page}
  /\ UNCHANGED <<page, setup, widget, submit, message, request>>

\* All that wait are told, and the loader is cleared for a later page.
ScriptFails ==
  /\ loader = "pending"
  /\ loader' = "none"
  /\ script' = IF script = "loading" THEN "failed" ELSE script
  /\ failedOn' = failedOn \cup {page}
  /\ stage'  = [s \in Start |-> IF stage[s] = "awaiting" THEN "refused" ELSE stage[s]]
  /\ UNCHANGED <<page, due, begun, form, shell, bound, cleanup, overlapped, widget, submit,
                 message, request>>

\* setupForm catches: the form is left without a listener.
FormUnavailable(s) ==
  /\ stage[s] = "refused"
  /\ Conclude(s)
  /\ message' = IF form[s] = page THEN "unavailable" ELSE message
  /\ UNCHANGED <<page, due, begun, form, shell, bound, overlapped, turnstile, widget, submit, request>>

\* The widget is rendered and the listener added, in a document that may be gone.
FormReady(s) ==
  /\ stage[s] = "awaiting" /\ loader = "loaded"
  /\ Conclude(s)
  /\ bound'   = [bound EXCEPT ![s] = TRUE]
  /\ solving' = [solving EXCEPT ![s] = TRUE]
  /\ UNCHANGED <<page, due, begun, form, shell, overlapped, turnstile, token, issued, submit, message,
                 request>>

\* A navigation: before-swap cleans up, then Astro replaces the document, whose
\* head has no script element and whose button is disabled.
Swap ==
  /\ due = "none" /\ page + 1 \in Page
  /\ Dispose(cleanup)
  /\ shell'  = [r \in Start |-> IF r = cleanup THEN 0 ELSE shell[r]]
  /\ page'   = page + 1
  /\ due'    = "load"
  /\ script' = "absent"
  /\ submit' = FALSE /\ message' = "none"
  /\ UNCHANGED <<begun, stage, form, cleanup, overlapped, loader, failedOn, issued>>

(***************************************************************************)
(* The widget                                                              *)
(***************************************************************************)

OnPage(s) == bound[s] /\ form[s] = page

Callback(s) ==
  /\ OnPage(s) /\ solving[s] /\ issued < MaxTokens
  /\ issued'  = issued + 1
  /\ token'   = [token EXCEPT ![s] = issued + 1]
  /\ solving' = [solving EXCEPT ![s] = FALSE]
  /\ submit'  = TRUE
  /\ UNCHANGED <<page, setup, turnstile, message, request>>

\* expired-callback: the widget refreshes by itself, also while a request is out.
Expire(s) ==
  /\ OnPage(s) /\ token[s] # 0
  /\ token'   = [token EXCEPT ![s] = 0]
  /\ solving' = [solving EXCEPT ![s] = TRUE]
  /\ submit'  = FALSE /\ message' = "challenge"
  /\ UNCHANGED <<page, setup, turnstile, issued, request>>

\* error-callback and timeout-callback: the widget tries again by itself.
WidgetFails(s) ==
  /\ OnPage(s) /\ solving[s]
  /\ token'   = [token EXCEPT ![s] = 0]
  /\ submit'  = FALSE /\ message' = "challenge"
  /\ UNCHANGED <<page, setup, turnstile, solving, issued, request>>

(***************************************************************************)
(* A submission                                                            *)
(***************************************************************************)

\* Mutant of Press: the button stays enabled while the message is sent.
PressAgain ==
  LET ready == {s \in Start : OnPage(s) /\ token[s] # 0}
      all   == {s \in Start : OnPage(s)}
      n(s)  == Last + Cardinality({r \in ready : r <= s}) IN
  /\ submit /\ Last + Cardinality(ready) <= MaxRequests
  /\ request' = [r \in Id |->
       IF \E s \in ready : n(s) = r
       THEN LET s == CHOOSE q \in ready : n(q) = r IN
            [start |-> s, token |-> token[s], client |-> "waiting", server |-> "unseen"]
       ELSE Abort(ready)[r]]
  /\ submit'  = (ready # {})
  /\ message' = IF all \subseteq ready THEN "none" ELSE "challenge"
  /\ UNCHANGED <<page, setup, turnstile, widget>>

\* Mutant of Press: a newer submission does not abort the one before.
PressWithoutAbort ==
  LET ready == {s \in Start : OnPage(s) /\ token[s] # 0}
      all   == {s \in Start : OnPage(s)}
      n(s)  == Last + Cardinality({r \in ready : r <= s}) IN
  /\ submit /\ Last + Cardinality(ready) <= MaxRequests
  /\ request' = [r \in Id |->
       IF \E s \in ready : n(s) = r
       THEN LET s == CHOOSE q \in ready : n(q) = r IN
            [start |-> s, token |-> token[s], client |-> "waiting", server |-> "unseen"]
       ELSE request[r]]
  /\ submit'  = (submit /\ ready = {})
  /\ message' = IF all \subseteq ready THEN "none" ELSE "challenge"
  /\ UNCHANGED <<page, setup, turnstile, widget>>

\* The submit event runs the listener of every start bound to the form.  One
\* that holds a token aborts its last request, disables the button and sends.
Press ==
  LET ready == {s \in Start : OnPage(s) /\ token[s] # 0}
      all   == {s \in Start : OnPage(s)}
      n(s)  == Last + Cardinality({r \in ready : r <= s}) IN
  /\ submit /\ Last + Cardinality(ready) <= MaxRequests
  /\ request' = [r \in Id |->
       IF \E s \in ready : n(s) = r
       THEN LET s == CHOOSE q \in ready : n(q) = r IN
            [start |-> s, token |-> token[s], client |-> "waiting", server |-> "unseen"]
       ELSE Abort(ready)[r]]
  /\ submit'  = (submit /\ ready = {})
  /\ message' = IF all \subseteq ready THEN "none" ELSE "challenge"
  /\ UNCHANGED <<page, setup, turnstile, widget>>

\* The API gets the request, aborted or not: it accepts a token that has not
\* been verified before, unless it refuses the request for another reason.
Serve(r, accepts) ==
  /\ request[r].client # "unsent" /\ request[r].server = "unseen"
  /\ accepts => \A q \in Id : request[q].token = request[r].token => request[q].server = "unseen"
  /\ request' = [request EXCEPT ![r].server = IF accepts THEN "accepted" ELSE "refused"]
  /\ UNCHANGED <<page, setup, turnstile, widget, submit, message>>

\* The finally clause: the token is dropped, the widget reset, the button locked.
Settle(r) ==
  LET s == request[r].start IN
  /\ request' = [request EXCEPT ![r].client = "settled"]
  /\ token'   = [token EXCEPT ![s] = 0]
  /\ solving' = [solving EXCEPT ![s] = bound[s]]
  /\ submit'  = (submit /\ form[s] # page)

Shows(r, text) == message' = IF form[request[r].start] = page THEN text ELSE message

Answer(r) ==
  /\ request[r].client = "waiting" /\ request[r].server # "unseen"
  /\ Settle(r)
  /\ Shows(r, IF request[r].server = "accepted" THEN "sent" ELSE "failed")
  /\ UNCHANGED <<page, setup, turnstile, issued>>

\* fetch rejects, whether or not the API has seen the request.
NetworkFails(r) ==
  /\ request[r].client = "waiting"
  /\ Settle(r)
  /\ Shows(r, "failed")
  /\ UNCHANGED <<page, setup, turnstile, issued>>

\* An aborted fetch says nothing; but when the abort comes while the body is
\* read, responseBody swallows it and the answer counts as a failure.
Aborted(r) ==
  /\ request[r].client = "aborted"
  /\ Settle(r)
  /\ \/ UNCHANGED message
     \/ request[r].server # "unseen" /\ Shows(r, "failed")
  /\ UNCHANGED <<page, setup, turnstile, issued>>

FormsNext ==
  \/ Begin \/ ScriptLoads \/ ScriptFails \/ Swap \/ Press
  \/ \E s \in Start : \/ FindForm(s) \/ EndSetup(s) \/ ImportRejected(s)
                      \/ FormUnavailable(s) \/ FormReady(s)
                      \/ Callback(s) \/ Expire(s) \/ WidgetFails(s)
  \/ \E r \in Id : Answer(r) \/ NetworkFails(r) \/ Aborted(r)
  \/ \E r \in Id, accepts \in BOOLEAN : Serve(r, accepts)

\* The browser runs what is due, an import is answered or rejected, a widget solves its
\* challenge in the end and the network answers or fails; visitors, expiries and failures
\* may never come.
FormsFairness ==
  /\ WF_formVars(Begin)
  /\ WF_formVars(ScriptLoads \/ ScriptFails)
  /\ \A s \in Start : /\ WF_formVars(FindForm(s) \/ EndSetup(s) \/ ImportRejected(s))
                       /\ WF_formVars(FormUnavailable(s) \/ FormReady(s))
  /\ \A s \in Start : WF_formVars(Callback(s))
  /\ \A r \in Id : WF_formVars(Answer(r) \/ NetworkFails(r) \/ Aborted(r))

FormsSpec == FormsInit /\ [][FormsNext]_formVars

FormsFairSpec == FormsSpec /\ FormsFairness

-----------------------------------------------------------------------------

\* Every variable has its type, and only a bound start has a widget or a token.
FormsTypeOK ==
  /\ page \in Page /\ due \in {"install", "load", "none"} /\ begun \in 0..MaxStarts
  /\ stage \in [Start -> {"unborn", "importing", "awaiting", "refused", "ending", "done", "lost"}]
  /\ form \in [Start -> {0} \cup FormPages] /\ shell \in [Start -> {0} \cup Page]
  /\ {bound, solving} \subseteq [Start -> BOOLEAN]
  /\ \A s \in Start : solving[s] \/ token[s] # 0 => bound[s]
  /\ cleanup \in {0} \cup Start
  /\ script \in {"absent", "loading", "failed", "loaded"}
  /\ loader \in {"none", "pending", "loaded", "stuck"}
  /\ token \in [Start -> 0..MaxTokens] /\ issued \in 0..MaxTokens
  /\ message \in {"none", "unavailable", "challenge", "sent", "failed"}
  /\ request \in [Id -> [start : 0..MaxStarts, token : 0..MaxTokens,
                         client : {"unsent", "waiting", "aborted", "settled"},
                         server : {"unseen", "accepted", "refused"}]]
  /\ submit \in BOOLEAN /\ overlapped \subseteq Start /\ failedOn \subseteq Page

\* Whatever a start bound is bound by the start the lifecycle will clean up, so no
\* page gets its listeners twice and none outlive it, and no request outlives its
\* page -- unless the start overlapped with another one, when the cleanup of the
\* first to finish is lost, or an import of its own was rejected, when its shell
\* controls have no owner, but never the listener or the widget of a form shown.
HandlersAreOwned ==
  /\ \A s \in Start \ overlapped :
       /\ bound[s] => s = cleanup \/ (stage[s] \in {"ending", "lost"} /\ form[s] # page)
       /\ shell[s] # 0 => s = cleanup \/ SettingUp(s) \/ stage[s] = "lost"
  /\ \A r \in Id : request[r].client = "waiting" /\ request[r].start \notin overlapped =>
                   form[request[r].start] = page

\* A start that overlapped with another one took hold of the same form.
Shared(s) == \E x \in overlapped : form[x] = form[s]

\* A Turnstile token is sent with one request, whatever expires and is refreshed
\* while requests are out, unless its start shares the button.
TokenSentOnce ==
  \A r, q \in Sent : r # q /\ request[r].token = request[q].token => Shared(request[r].start)

\* Only the newest submission may report success, since it aborts the ones before,
\* unless the start of the older one shares its form.
SuccessIsNewest ==
  [][\A r, q \in Sent :
       /\ message' = "sent" /\ message # "sent" /\ request'[r].client # request[r].client
       /\ ~Shared(request[r].start)
       => q <= r]_formVars

FormOf(r) == \E s \in Start : request[r].start = s /\ OnPage(s)

\* A page with a form gets the form's listener, or says that the check is not
\* available if the script failed on this very page, unless the loader waits for
\* a script that failed before, or the page's last start lost an import; and after
\* an attempt the button comes back.
FormSettles ==
  /\ \A p \in FormPages :
       page = p ~> \/ page # p
                   \/ loader = "stuck"
                   \/ due = "none" /\ begun # 0 /\ stage[begun] = "lost"
                   \/ message = "unavailable" /\ p \in failedOn
                   \/ \E s \in Start : OnPage(s)
  /\ \A r \in Id : request[r].client = "settled" /\ FormOf(r) ~>
                      (submit \/ ~FormOf(r) \/ issued = MaxTokens)

\* The forms keep their type, every handler has an owner that removes it, and every
\* token is sent once.
FormsOwned == FormsTypeOK /\ HandlersAreOwned /\ TokenSentOnce
=============================================================================
