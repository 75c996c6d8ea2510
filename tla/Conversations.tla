---------------------------- MODULE Conversations ----------------------------
(***************************************************************************)
(* How the answer to an email finds its conversation.  Every email of a    *)
(* thread carries a Reply-To address signed for it and, as References, the *)
(* Message-IDs its author knew of; the provider makes up its own           *)
(* Message-ID, which the table learns after the send, if ever.  People     *)
(* answer by address, by headers, by both or neither, to one thread with   *)
(* the headers of another, from addresses of their own or of others.       *)
(*                                                                         *)
(* A thread is named by the message that opens it, and a message by its    *)
(* Message-ID, which every email has here: nobody can refer to one without.*)
(* Chains of references stay below the limit of a hundred.                 *)
(* What Inbox models, duplicates and attachments and unread counts, is     *)
(* left out here.                                                          *)
(***************************************************************************)
EXTENDS Naturals, Sequences

CONSTANTS
  MaxMessages,
  Parties,  \* pairs of a mailbox and a participant
  Altered,  \* a reply address that does not verify, as at another mailbox
  Nil       \* no thread, message or draft

Message == 1..MaxMessages

ASSUME ConversationsAssumption ==
  /\ Message \cap {Altered, Nil} = {} /\ Altered # Nil
  /\ Nil \notin [joined : Message, references : SUBSET Message]

VARIABLES
  stage,    \* where each message is
  email,    \* its party, the signed thread, the references, and what it answers
  joined,   \* the thread it is filed in, or will be
  order,    \* filed messages by created_at
  sent,     \* outbound messages a person has received
  known,    \* messages whose Message-ID is in the table
  draft,    \* a reply between getThread and persistReply, or Nil
  timely,   \* history: answers looked up when the table knew what they answer
  late      \* history: emails filed after one that refers to them

talkVars == <<stage, email, joined, order, sent, known, draft, timely, late>>

TalkInit ==
  /\ stage  = [m \in Message |-> "unused"]
  /\ email  = [m \in Message |-> Nil]
  /\ joined = [m \in Message |-> Nil]
  /\ order  = << >>
  /\ sent = {} /\ known = {} /\ timely = {} /\ late = {}
  /\ draft = Nil

\* Ids are random and unique; which one is taken does not matter.
Fresh(m) == stage[m] = "unused" /\ \A q \in Message : q < m => stage[q] # "unused"

Filed    == {order[i] : i \in DOMAIN order}
Party(m) == email[m].party
Position(m) == CHOOSE i \in DOMAIN order : order[i] = m

\* Mutant of Newest: ascending order.
Oldest(S) == CHOOSE m \in S : \A q \in S : Position(m) <= Position(q)

\* The first by created_at, descending.
Newest(S) == CHOOSE m \in S : \A q \in S : Position(q) <= Position(m)

MessagesIn(t) == {m \in Filed : joined[m] = t}

Email(party, signed, references, answers) ==
  [party |-> party, signed |-> signed, references |-> references, answers |-> answers]

(***************************************************************************)
(* Outbound                                                                *)
(***************************************************************************)

\* A form opens a thread.  Its confirmation is created at the same instant, and
\* which of the two is listed first depends on their random ids.
OpenByForm(f, p) ==
  LET c    == f + 1
      mail == Email(p, Nil, {}, Nil)
  IN
  /\ Fresh(f) /\ c \in Message /\ stage[c] = "unused"
  /\ stage'  = [stage EXCEPT ![f] = "form", ![c] = "outbound"]
  /\ email'  = [email EXCEPT ![f] = mail, ![c] = mail]
  /\ joined' = [joined EXCEPT ![f] = f, ![c] = f]
  /\ order' \in {order \o <<f, c>>, order \o <<c, f>>}
  /\ UNCHANGED <<sent, known, draft, timely, late>>

\* replyReferences, of the latest message alone.
ReplyReferences(t) ==
  LET latest == Newest(MessagesIn(t))
  IN  email[latest].references \cup ({latest} \cap known)

LoadThread(t) ==
  /\ draft = Nil /\ MessagesIn(t) # {}
  /\ draft' = [joined |-> t, references |-> ReplyReferences(t)]
  /\ UNCHANGED <<stage, email, joined, order, sent, known, timely, late>>

PersistReply(m) ==
  /\ draft # Nil /\ Fresh(m)
  /\ stage'  = [stage EXCEPT ![m] = "outbound"]
  /\ email'  = [email EXCEPT ![m] = Email(Party(draft.joined), Nil, draft.references, Nil)]
  /\ joined' = [joined EXCEPT ![m] = draft.joined]
  /\ order'  = Append(order, m)
  /\ draft'  = Nil
  /\ UNCHANGED <<sent, known, timely, late>>

ReplyThrows ==
  /\ draft # Nil
  /\ draft' = Nil
  /\ UNCHANGED <<stage, email, joined, order, sent, known, timely, late>>

Send(m) ==
  /\ stage[m] = "outbound"
  /\ sent' = sent \cup {m}
  /\ UNCHANGED <<stage, email, joined, order, known, draft, timely, late>>

\* markEmailDeliverySent: it comes after the send, and may never.
MarkSent(m) ==
  /\ m \in sent
  /\ known' = known \cup {m}
  /\ UNCHANGED <<stage, email, joined, order, sent, draft, timely, late>>

(***************************************************************************)
(* Inbound                                                                 *)
(***************************************************************************)

\* Emails a person can answer: received ones, and emails of people themselves.
Answerable ==
  sent \cup {m \in Message : stage[m] \in {"travelling", "found", "filed"} /\ email[m].signed # Altered}

\* To the plain address of a mailbox or the reply address of x, and with the headers
\* of an answer to y; or to an altered address, behind which no headers are read.
Write(m, p, x, y) ==
  /\ Fresh(m) /\ (x = Altered => y = Nil)
  /\ stage' = [stage EXCEPT ![m] = "travelling"]
  /\ email' = [email EXCEPT ![m] =
       Email(p,
             IF x \in {Nil, Altered} THEN x ELSE joined[x],
             IF y = Nil THEN {} ELSE email[y].references \cup {y},
             y)]
  /\ UNCHANGED <<joined, order, sent, known, draft, timely, late>>

\* signedThreadId: a reserved address that does not verify is rejected for good.
Reject(m) ==
  /\ stage[m] = "travelling"
  /\ email[m].signed = Altered
  /\ stage' = [stage EXCEPT ![m] = "rejected"]
  /\ UNCHANGED <<email, joined, order, sent, known, draft, timely, late>>

\* The signed thread, if it is one of the sender's at this mailbox.
Signed(m) == {t \in Filed : t = email[m].signed /\ Party(t) = Party(m)}

\* Messages the headers refer to, in threads of the sender at this mailbox.
Referenced(m) == {q \in Filed \cap known \cap email[m].references : Party(joined[q]) = Party(m)}

FindConversation(m) ==
  /\ stage[m] = "travelling"
  /\ email[m].signed # Altered
  /\ \E t \in IF Signed(m) # {} THEN Signed(m)
              ELSE IF Referenced(m) # {} THEN {joined[Newest(Referenced(m))]} ELSE {m} :
       joined' = [joined EXCEPT ![m] = t]
  /\ stage' = [stage EXCEPT ![m] = "found"]
  /\ timely' = IF email[m].answers \in known THEN timely \cup {m} ELSE timely
  /\ UNCHANGED <<email, order, sent, known, draft, late>>

\* The message is inserted with its Message-ID.
PersistAnswer(m) ==
  /\ stage[m] = "found"
  /\ stage' = [stage EXCEPT ![m] = "filed"]
  /\ order' = Append(order, m)
  /\ known' = known \cup {m}
  /\ late' = IF \E q \in Filed : m \in email[q].references THEN late \cup {m} ELSE late
  /\ UNCHANGED <<email, joined, sent, draft, timely>>

\* A call throws or the invocation dies, and the email is delivered once more.
Redeliver(m) ==
  /\ stage[m] = "found"
  /\ stage' = [stage EXCEPT ![m] = "travelling"]
  /\ timely' = timely \ {m}
  /\ UNCHANGED <<email, joined, order, sent, known, draft, late>>

TalkNext ==
  \/ \E f \in Message, p \in Parties : OpenByForm(f, p)
  \/ \E t \in Message : LoadThread(t)
  \/ ReplyThrows
  \/ \E m \in Message :
       \/ PersistReply(m) \/ Send(m) \/ MarkSent(m)
       \/ Reject(m) \/ FindConversation(m) \/ PersistAnswer(m) \/ Redeliver(m)
       \/ \E p \in Parties, x \in sent \cup {Altered, Nil}, y \in Answerable \cup {Nil} :
            Write(m, p, x, y)

TalkSpec == TalkInit /\ [][TalkNext]_talkVars

-----------------------------------------------------------------------------

Letter == [party : Parties, signed : Message \cup {Altered, Nil},
           references : SUBSET Message, answers : Message \cup {Nil}]

\* Every variable has its type.
ConversationsTypeOK ==
  /\ stage \in [Message -> {"unused", "form", "outbound", "travelling", "found", "filed", "rejected"}]
  /\ email \in [Message -> Letter \cup {Nil}]
  /\ \A m \in Message : stage[m] # "unused" => email[m] \in Letter
  /\ joined \in [Message -> Message \cup {Nil}]
  /\ order \in Seq(Message)
  /\ sent \subseteq Message /\ known \subseteq Message
  /\ draft \in {Nil} \cup [joined : Message, references : SUBSET Message]
  /\ timely \subseteq Message /\ late \subseteq Message

\* An answer comes back to the conversation it answers.  At the reply address, it
\* does whenever its sender is the participant, whatever its headers say and even
\* if the table never learned the Message-ID.  At the plain address the headers
\* lead to the email they answer, if its Message-ID was known by then, unless an
\* email of the chain was filed after one that refers to it.  And nobody ever joins
\* a conversation of someone else, or at another mailbox.
AnswersReturn ==
  \A m \in Filed : stage[m] = "filed" =>
    LET signed == email[m].signed
        y      == email[m].answers
    IN  /\ joined[m] \in Filed /\ Party(joined[m]) = Party(m)
        /\ signed # Nil /\ Party(signed) = Party(m) => joined[m] = signed
        /\ signed = Nil /\ m \in timely =>
             \/ Party(y) # Party(m)
             \/ email[m].references \cap late # {}
             \/ joined[m] = joined[y]
=============================================================================
