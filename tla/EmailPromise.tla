---------------------------- MODULE EmailPromise ----------------------------
(***************************************************************************)
(* What the API promises when it answers "accepted": the email is owed     *)
(* until its outcome is final or an operator has it on a dead-letter list, *)
(* a final outcome is never taken back, and the provider gets the email    *)
(* once, unless a sender went silent for longer than its lease.            *)
(***************************************************************************)
EXTENDS Naturals

CONSTANT Message

VARIABLES
  promise,  \* what is owed for each email
  mails,    \* how often the provider accepted it: 0, 1 or more (2)
  exposed   \* a sender went silent for longer than its lease

vars == <<promise, mails, exposed>>

Init ==
  /\ promise = [m \in Message |-> "none"]
  /\ mails   = [m \in Message |-> 0]
  /\ exposed = [m \in Message |-> FALSE]

Accept(m) ==
  /\ promise[m] = "none"
  /\ promise' = [promise EXCEPT ![m] = "owed"]
  /\ UNCHANGED <<mails, exposed>>

Mail(m) ==
  /\ promise[m] # "none"
  /\ mails[m] = 0 \/ exposed[m]
  /\ mails' = [mails EXCEPT ![m] = IF @ < 2 THEN @ + 1 ELSE @]
  /\ UNCHANGED <<promise, exposed>>

Decide(m) ==
  /\ promise[m] \in {"owed", "parked"}
  /\ promise' = [promise EXCEPT ![m] = "final"]
  /\ UNCHANGED <<mails, exposed>>

Expose(m) ==
  /\ exposed' = [exposed EXCEPT ![m] = TRUE]
  /\ UNCHANGED <<promise, mails>>

\* An operator gets some emails, or work on parked ones resumes: one database
\* statement may move several rows.
Rearrange ==
  /\ promise' \in [Message -> {"none", "owed", "parked", "final"}]
  /\ \A m \in Message : promise'[m] # promise[m] =>
        {promise[m], promise'[m]} = {"owed", "parked"}
  /\ UNCHANGED <<mails, exposed>>

Next ==
  \/ \E m \in Message : Accept(m) \/ Mail(m) \/ Decide(m) \/ Expose(m)
  \/ Rearrange

Spec == Init /\ [][Next]_vars
=============================================================================
