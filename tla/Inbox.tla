-------------------------------- MODULE Inbox --------------------------------
(***************************************************************************)
(* The unified inbox: emails that Email Routing hands to the Worker, the   *)
(* forms of the website, their threads, the attachments in R2, and the     *)
(* admins who read and answer.  Every database or R2 call of one receipt   *)
(* is a step of its own and may throw before or after it took effect; the  *)
(* sending server then tries again, so one mail may have many receipts.    *)
(*                                                                         *)
(* A receipt stands for the identifiers one invocation generates: its      *)
(* message, its attachment objects, and the thread it opens if it finds    *)
(* none.  Mails the envelope checks reject never get that far.             *)
(***************************************************************************)
EXTENDS Naturals

CONSTANTS
  Mail,      \* emails, by content and envelope recipient
  Form,      \* those that are website forms
  Attached,  \* emails with an attachment
  PartyOf,   \* mailbox and participant of a mail
  IdOf,      \* its Message-ID, or the digest of its bytes if it has none
  Follows,   \* the Message-ID it answers, or None
  Receipt,   \* invocations, of which each mail may need several
  None

ASSUME InboxAssumption ==
  /\ Form \subseteq Mail /\ Attached \subseteq Mail \ Form
  /\ None \notin Mail \cup Receipt
  /\ \A m \in Form : \A n \in Mail \ {m} : IdOf[m] # IdOf[n]

VARIABLES
  step,      \* where each receipt is in receive
  mail,      \* the mail it is about
  thread,    \* the thread its message goes to, named by the receipt that opens it
  filed,     \* committed messages
  status,    \* comms.email_threads.status, "none" without a row
  unread,    \* its unread_count
  stored,    \* receipts whose attachment is in R2
  accepted,  \* history: mails whose receipt was confirmed to the sender
  seen,      \* history: messages in a thread when an admin loaded it
  buried,    \* history: messages nobody had loaded when the count was cleared
  unsure,    \* history: receipts whose commit was not confirmed
  leaked     \* history: receipts that could not take back their upload

receipts == <<step, mail, thread>>
tables   == <<filed, status, unread>>
readers  == <<seen, buried>>
vars     == <<step, mail, thread, filed, status, unread, stored, accepted,
              seen, buried, unsure, leaked>>

ReceiptStep  == {"unused", "finding", "uploading", "persisting", "discarding", "cleaning", "done"}
\* "closed" stands for "archived" too: nothing here reads which of them it is.
ThreadStatus == {"none", "open", "waiting", "closed"}

Init ==
  /\ step   = [r \in Receipt |-> "unused"]
  /\ mail   = [r \in Receipt |-> None]
  /\ thread = [r \in Receipt |-> r]
  /\ filed  = {}
  /\ status = [t \in Receipt |-> "none"]
  /\ unread = [t \in Receipt |-> 0]
  /\ stored = {}
  /\ accepted = {} /\ seen = {} /\ buried = {} /\ unsure = {} /\ leaked = {}

GoTo(r, s)      == step' = [step EXCEPT ![r] = s] /\ UNCHANGED <<mail, thread>>
HasAttachment(r) == mail[r] \in Attached

\* Mutant of File: a message that joins a thread does not count as unread.
FileUncounted(r, t) ==
  /\ filed'  = filed \cup {r}
  /\ status' = [status EXCEPT ![t] = "open"]
  /\ unread' = [unread EXCEPT ![t] = IF t = r THEN 1 ELSE @]

\* The message, and its thread if it is new, are inserted, and the thread is
\* open with one more unread message.
File(r, t) ==
  /\ filed'  = filed \cup {r}
  /\ status' = [status EXCEPT ![t] = "open"]
  /\ unread' = [unread EXCEPT ![t] = @ + 1]

\* A website form opens a thread of its own, in one transaction.
SubmitForm(r, m) ==
  /\ m \in Form /\ step[r] = "unused" /\ \A q \in Receipt : mail[q] # m
  /\ step' = [step EXCEPT ![r] = "done"]
  /\ mail' = [mail EXCEPT ![r] = m]
  /\ File(r, r)
  /\ accepted' = accepted \cup {m}
  /\ UNCHANGED <<thread, stored, readers, unsure, leaked>>

(***************************************************************************)
(* receive                                                                 *)
(***************************************************************************)

\* The sending server delivers a mail, for the first time or once more.
Receive(r, m) ==
  /\ m \notin Form /\ step[r] = "unused"
  /\ step' = [step EXCEPT ![r] = "finding"]
  /\ mail' = [mail EXCEPT ![r] = m]
  /\ UNCHANGED <<thread, tables, stored, readers, accepted, unsure, leaked>>

\* Mutant of Known: the sender of the mail is not compared with the participant.
KnownToAnyone(r) == {thread[q] : q \in {p \in filed : IdOf[mail[p]] = Follows[mail[r]]}}

\* The threads the mail may join: it answers a message of theirs, by a signed
\* address or by its headers, at the same mailbox and from their participant.
Known(r) ==
  {thread[q] : q \in {p \in filed : /\ IdOf[mail[p]] = Follows[mail[r]]
                                    /\ PartyOf[mail[p]] = PartyOf[mail[r]]}}

FindThread(r) ==
  /\ step[r] = "finding"
  /\ \E t \in IF Known(r) = {} THEN {r} ELSE Known(r) : thread' = [thread EXCEPT ![r] = t]
  /\ step' = [step EXCEPT ![r] = "uploading"]
  /\ UNCHANGED <<mail, tables, stored, readers, accepted, unsure, leaked>>

FindThreadThrows(r) ==
  /\ step[r] = "finding"
  /\ GoTo(r, "done")
  /\ UNCHANGED <<tables, stored, readers, accepted, unsure, leaked>>

Upload(r) ==
  /\ step[r] = "uploading"
  /\ stored' = IF HasAttachment(r) THEN stored \cup {r} ELSE stored
  /\ GoTo(r, "persisting")
  /\ UNCHANGED <<tables, readers, accepted, unsure, leaked>>

\* A put throws: nothing is in R2, or the attachments before it, which the catch clause
\* takes back, or the object itself, which is not among the uploaded keys.
UploadThrows(r) ==
  /\ step[r] = "uploading" /\ HasAttachment(r)
  /\ \/ GoTo(r, "done") /\ UNCHANGED <<stored, leaked>>
     \/ GoTo(r, "cleaning") /\ stored' = stored \cup {r} /\ UNCHANGED leaked
     \/ GoTo(r, "done") /\ stored' = stored \cup {r} /\ leaked' = leaked \cup {r}
  /\ UNCHANGED <<tables, readers, accepted, unsure>>

\* Another message has the digest or the Message-ID: the unique indexes of the
\* table span all mailboxes.
Duplicate(r) == \E q \in filed : IdOf[mail[q]] = IdOf[mail[r]]

Persist(r) ==
  /\ step[r] = "persisting" /\ ~Duplicate(r)
  /\ File(r, thread[r])
  /\ accepted' = accepted \cup {mail[r]}
  /\ GoTo(r, "done")
  /\ UNCHANGED <<stored, readers, unsure, leaked>>

PersistDuplicate(r) ==
  /\ step[r] = "persisting" /\ Duplicate(r)
  /\ GoTo(r, "discarding")
  /\ UNCHANGED <<tables, stored, readers, accepted, unsure, leaked>>

\* The transaction failed, or it committed and its answer was lost.
PersistThrows(r) ==
  /\ step[r] = "persisting"
  /\ \/ ~Duplicate(r) /\ File(r, thread[r]) /\ unsure' = unsure \cup {r}
     \/ UNCHANGED <<tables, unsure>>
  /\ GoTo(r, "cleaning")
  /\ UNCHANGED <<stored, readers, accepted, leaked>>

\* Mutant of DeleteUpload: nothing is deleted.
KeepUpload(r) == UNCHANGED <<stored, leaked>>

\* Promise.allSettled: the result of the deletion is not looked at.
DeleteUpload(r) ==
  \/ stored' = stored \ {r} /\ UNCHANGED leaked
  \/ r \in stored /\ leaked' = leaked \cup {r} /\ UNCHANGED stored

\* A duplicate is accepted once its upload is taken back.
Discard(r) ==
  /\ step[r] = "discarding"
  /\ DeleteUpload(r)
  /\ accepted' = accepted \cup {mail[r]}
  /\ GoTo(r, "done")
  /\ UNCHANGED <<tables, readers, unsure>>

\* Mutant of CleanUp: the error is not thrown again.
CleanUpAccepts(r) ==
  /\ step[r] = "cleaning"
  /\ DeleteUpload(r)
  /\ accepted' = accepted \cup {mail[r]}
  /\ GoTo(r, "done")
  /\ UNCHANGED <<tables, readers, unsure>>

\* The catch clause takes the upload back and throws the error again.
CleanUp(r) ==
  /\ step[r] = "cleaning"
  /\ DeleteUpload(r)
  /\ GoTo(r, "done")
  /\ UNCHANGED <<tables, readers, accepted, unsure>>

\* The invocation dies where it is.
Crash(r) ==
  /\ step[r] \notin {"unused", "done"}
  /\ leaked' = IF r \in stored THEN leaked \cup {r} ELSE leaked
  /\ GoTo(r, "done")
  /\ UNCHANGED <<tables, stored, readers, accepted, unsure>>

(***************************************************************************)
(* The admins                                                              *)
(***************************************************************************)

MessagesOf(t) == {r \in filed : thread[r] = t}

\* getThread, for the admin or inside replyToThread.
OpenThread(t) ==
  /\ status[t] # "none"
  /\ seen' = seen \cup MessagesOf(t)
  /\ UNCHANGED <<receipts, tables, stored, accepted, buried, unsure, leaked>>

\* The unread count is cleared, whatever arrived since the thread was loaded.
ClearUnread(t) ==
  /\ unread' = [unread EXCEPT ![t] = 0]
  /\ buried' = buried \cup (MessagesOf(t) \ seen)

\* persistThreadReply: the reply and its outbox row are those of EmailPipeline.
Reply(t) ==
  /\ status[t] # "none"
  /\ status' = [status EXCEPT ![t] = "waiting"]
  /\ ClearUnread(t)
  /\ UNCHANGED <<receipts, filed, stored, accepted, seen, unsure, leaked>>

\* updateEmailThread: either field may be left out of the request.
UpdateThread(t, markRead, newStatus) ==
  /\ status[t] # "none"
  /\ IF markRead THEN ClearUnread(t) ELSE UNCHANGED <<unread, buried>>
  /\ status' = [status EXCEPT ![t] = newStatus]
  /\ UNCHANGED <<receipts, filed, stored, accepted, seen, unsure, leaked>>

Next ==
  \/ \E r \in Receipt, m \in Mail : SubmitForm(r, m) \/ Receive(r, m)
  \/ \E r \in Receipt :
       \/ FindThread(r) \/ FindThreadThrows(r)
       \/ Upload(r) \/ UploadThrows(r)
       \/ Persist(r) \/ PersistDuplicate(r) \/ PersistThrows(r)
       \/ Discard(r) \/ CleanUp(r) \/ Crash(r)
  \/ \E t \in Receipt : OpenThread(t) \/ Reply(t)
  \/ \E t \in Receipt, markRead \in BOOLEAN, s \in ThreadStatus \ {"none"} :
       UpdateThread(t, markRead, s)

Spec == Init /\ [][Next]_vars

-----------------------------------------------------------------------------

\* Every variable has its type.
TypeOK ==
  /\ step   \in [Receipt -> ReceiptStep]
  /\ mail   \in [Receipt -> Mail \cup {None}]
  /\ thread \in [Receipt -> Receipt]
  /\ status \in [Receipt -> ThreadStatus]
  /\ unread \in [Receipt -> Nat]
  /\ accepted \subseteq Mail
  /\ {filed, stored, seen, buried, unsure, leaked} \subseteq SUBSET Receipt

\* A mail whose receipt was confirmed is in the inbox, through this receipt or
\* an earlier one, however often it was delivered and whatever failed meanwhile.
AcceptedIsFiled == \A m \in accepted : \E r \in filed : IdOf[mail[r]] = IdOf[m]

\* A message is in an existing thread of its own mailbox and participant, though
\* the thread was chosen in an earlier call: no third party joins a conversation.
RightParty ==
  \A r \in filed :
    /\ status[thread[r]] # "none"
    /\ PartyOf[mail[thread[r]]] = PartyOf[mail[r]]

\* "Unread thread state is the durable alert": a message nobody loaded counts as
\* unread, unless a reply or a mark-read cleared the count after it came in.
UnseenIsUnread == \A r \in filed \ (seen \cup buried) : unread[thread[r]] > 0

\* The attachment of a message is in R2, unless its commit was not confirmed:
\* the catch clause then deletes the objects of a message that is there.  An
\* object no message refers to is being worked on, or was left behind by a call
\* that failed: no path of receive forgets an upload.
AttachmentsKept ==
  /\ \A r \in filed \ unsure : HasAttachment(r) => r \in stored
  /\ \A r \in stored \ filed :
       r \in leaked \/ step[r] \in {"persisting", "discarding", "cleaning"}

\* Inbound mail matches "an existing thread or create a channel-aware new
\* thread": a confirmed mail is in a thread of the mailbox it was sent to.
FiledInItsMailbox ==
  \A m \in accepted :
    \E r \in filed : IdOf[mail[r]] = IdOf[m] /\ PartyOf[mail[r]] = PartyOf[m]
=============================================================================
