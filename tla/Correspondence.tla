---------------------------- MODULE Correspondence ----------------------------
(***************************************************************************)
(* What an email says and where it comes from: the plans of intake and of  *)
(* replies, the validation that lets an input reach them, the rows they    *)
(* commit, and the consumer that reads the job back and renders it.        *)
(*                                                                         *)
(* The planners write jobs and the consumer's own parser reads them; a job *)
(* it refuses is acknowledged and lost.  Texts are what the limits tell    *)
(* apart: a length, line breaks, a "Re:".  A chain of references is a      *)
(* number of Message-IDs of one length, of the person, and then a number   *)
(* of the provider's.  How threads are found is in Conversations, and what *)
(* may fail around a job in EmailPipeline.                                 *)
(***************************************************************************)
EXTENDS Integers, Sequences, FiniteSetsExt

CONSTANTS
  Sender,
  Subject,     \* subjects people write: records of length, broken (several lines) and re
  BodyLength,  \* lengths of the bodies they write, after trim
  Chain,       \* References of the emails they send
  OwnId,       \* the length of a Message-ID of the provider
  MaxThreads,  \* bound: threads
  MaxReplies,  \* bound: replies of one thread
  Absent

VARIABLES
  threads,   \* email_threads, with what their latest message refers to, and which it is:
             \* Absent for one that came in, or the number of one of the consumer's emails
  leads,     \* crm.leads: the thread of each, or Absent
  rows,      \* outbound email_messages, by job
  queue,     \* jobs that are published
  mailed,    \* emails the provider accepted, by job
  rejected   \* jobs the consumer acknowledged without sending

wordsVars == <<threads, leads, rows, queue, mailed, rejected>>

Channel == {"general", "projects", "support", "privacy"}
Address == Channel \cup {"contact", "no-reply", "another"}

Text == [length : Nat, broken : BOOLEAN, re : BOOLEAN]

\* Message-IDs of one length, which none has without a character.
IdChain == {ids \in [size : Nat, theirs : Nat, ours : Nat] : ids.theirs > 0 => ids.size > 0}

ASSUME CorrespondenceAssumption ==
  /\ Subject \subseteq Text /\ BodyLength \subseteq Nat /\ Chain \subseteq IdChain
  /\ OwnId \in Nat \ {0} /\ MaxReplies \in Nat
  /\ Absent \notin Channel

\* canonicalMailboxForAddress, on the address without its plus tag.
CanonicalMailbox(address) ==
  CASE address \in Channel   -> address
    [] address = "contact"   -> "general"
    [] OTHER                 -> Absent

WordsInit ==
  /\ threads = <<>> /\ leads = <<>>
  /\ rows = {} /\ queue = {} /\ mailed = {} /\ rejected = {}

------------------------------------------------------------------------------
(* Conversions of texts. *)

Cut(text, n)    == [text EXCEPT !.length = Min({@, n})]
OnOneLine(text) == [text EXCEPT !.broken = FALSE]
Answering(text) == IF text.re THEN text ELSE [text EXCEPT !.re = TRUE, !.length = @ + 4]

NoReferences == [size |-> 0, theirs |-> 0, ours |-> 0]
Number(ids)  == ids.theirs + ids.ours

JoinedLength(ids) == ids.theirs * ids.size + ids.ours * OwnId + Max({0, Number(ids) - 1})

\* The newest Message-IDs are the provider's.
NewestIds(ids, n) ==
  [size |-> ids.size, theirs |-> Max({0, n - ids.ours}), ours |-> Min({n, ids.ours})]

\* What is no Message-ID, as one that is too long, is no candidate.
Candidates(ids) ==
  LET named == [ids EXCEPT !.theirs = IF ids.size <= 1000 THEN @ ELSE 0]
  IN  NewestIds(named, Min({100, Number(named)}))

\* Mutant of ReferencesOfReply: only their number is bounded.
ReferencesUnmeasured(ids) == Candidates(ids)

\* The newest ancestors, as many as a header of 8,000 characters holds.
ReferencesOfReply(ids) ==
  LET recent == Candidates(ids)
  IN  NewestIds(recent, Max({n \in 0..Number(recent) : JoinedLength(NewestIds(recent, n)) <= 8000}))

------------------------------------------------------------------------------
(* Jobs and the wording of emails. *)

JobBodyLimit   == 500 * 1000
ReplyBodyLimit == 240 * 1000

NoText == [length |-> 0, broken |-> FALSE, re |-> FALSE]

ConfirmationJob(t, channel, participant) ==
  [id |-> <<t, 0>>, from |-> channel, to |-> participant, replyTo |-> <<channel, t>>,
   template |-> "contact-confirmation", subject |-> NoText, body |-> 0, references |-> NoReferences]

ReplyJob(t, n, thread, body) ==
  [id |-> <<t, n>>, from |-> CanonicalMailbox(thread.mailbox), to |-> thread.participant,
   replyTo |-> <<CanonicalMailbox(thread.mailbox), t>>, template |-> "thread-reply",
   subject |-> Cut(OnOneLine(thread.subject), 300), body |-> body,
   references |-> ReferencesOfReply(thread.references)]

\* The wording of a receipt is that of its channel; the stored row and the email are
\* both rendered from the job.
ReceiptCopy(channel) == IF channel = Absent THEN "general" ELSE channel

RenderEmailJob(job) ==
  [to |-> job.to, from |-> job.from, replyTo |-> job.replyTo, references |-> job.references,
   subject |-> IF job.template = "thread-reply" THEN Answering(job.subject) ELSE NoText,
   wording |-> IF job.template = "thread-reply" THEN "reply"
               ELSE ReceiptCopy(CanonicalMailbox(job.from)),
   body |-> job.body]

\* parseTransactionalEmailJob.
IsThreadingHeaders(ids) ==
  Number(ids) > 0 => 0 < JoinedLength(ids) /\ JoinedLength(ids) <= 8192

IsTemplateRequest(job) ==
  \/ job.template = "contact-confirmation"
  \/ job.template = "thread-reply" /\ job.subject.length \in 1..300 /\ 0 < job.body /\ job.body <= JobBodyLimit

IsEmailJob(job) == IsThreadingHeaders(job.references) /\ IsTemplateRequest(job)

Commit(job) ==
  /\ rows'  = rows \cup {[job |-> job.id, email |-> RenderEmailJob(job)]}
  /\ queue' = queue \cup {job}
  /\ UNCHANGED <<mailed, rejected>>

------------------------------------------------------------------------------
(* Requests and emails that come in. *)

IsMessageInput(subject, body) ==
  subject.length \in 3..200 /\ ~subject.broken /\ 10 <= body /\ body <= 10000

\* The plan of each public form: its mailbox, and whether it is a lead.
Plan ==
  [inquiry |-> [channel |-> "general",  lead |-> FALSE],
   project |-> [channel |-> "projects", lead |-> TRUE],
   support |-> [channel |-> "support",  lead |-> FALSE]]

NewThread == Len(threads) + 1

\* The form and its confirmation are written at one time, so random ids say which of
\* them is the latest message of the thread.
Submit(form, sender, subject, body) ==
  /\ Len(threads) < MaxThreads
  /\ IsMessageInput(subject, body)
  /\ LET plan == Plan[form]
     IN  /\ \E latest \in {0, Absent} :
              threads' = Append(threads,
                [mailbox |-> plan.channel, participant |-> sender, subject |-> subject,
                 references |-> NoReferences, replies |-> 0, latest |-> latest])
         /\ leads' = IF plan.lead THEN Append(leads, NewThread) ELSE leads
         /\ Commit(ConfirmationJob(NewThread, plan.channel, sender))

\* A lead alone opens no thread and sends no email.
SubmitLead ==
  /\ Len(leads) < MaxThreads
  /\ leads' = Append(leads, Absent)
  /\ UNCHANGED <<threads, rows, queue, mailed, rejected>>

\* The Email worker: an answer by the signed address of a thread of its sender, or a
\* new conversation.  What it rejects leaves no trace.
InboundSubject(subject, existing) ==
  Cut(OnOneLine(IF subject.length > 0 THEN subject ELSE existing), 300)

NoSubject == [length |-> 10, broken |-> FALSE, re |-> FALSE]

ReceiveNew(sender, address, subject, chain) ==
  /\ CanonicalMailbox(address) # Absent
  /\ Len(threads) < MaxThreads
  /\ threads' = Append(threads,
       [mailbox |-> CanonicalMailbox(address), participant |-> sender,
        subject |-> InboundSubject(subject, NoSubject), references |-> chain, replies |-> 0,
        latest |-> Absent])
  /\ UNCHANGED <<leads, rows, queue, mailed, rejected>>

ReceiveAnswer(t, chain) ==
  /\ threads[t].references # chain
  /\ threads' = [threads EXCEPT ![t] = [@ EXCEPT !.references = chain, !.latest = Absent]]
  /\ UNCHANGED <<leads, rows, queue, mailed, rejected>>

ReplyInThread(t, body) ==
  /\ threads[t].replies < MaxReplies
  /\ 0 < body /\ body <= ReplyBodyLimit
  /\ CanonicalMailbox(threads[t].mailbox) # Absent
  /\ LET n   == threads[t].replies + 1
         job == ReplyJob(t, n, threads[t], body)
     IN  /\ threads' = [threads EXCEPT ![t] =
                          [@ EXCEPT !.replies = n, !.references = job.references, !.latest = n]]
         /\ Commit(job)
  /\ UNCHANGED leads

------------------------------------------------------------------------------

\* One more identifier, of the provider's.
Named(ids) == [ids EXCEPT !.ours = @ + 1]

\* The consumer: what its parser refuses is acknowledged; the provider names the rest,
\* and a reply to the thread refers to its latest message by that name.
Consume(job) ==
  /\ job \in queue
  /\ queue' = queue \ {job}
  /\ IF IsEmailJob(job)
     THEN /\ mailed' = mailed \cup {[job |-> job.id, email |-> RenderEmailJob(job)]}
          /\ threads' = [threads EXCEPT ![job.id[1]].references =
                           IF threads[job.id[1]].latest = job.id[2]
                           THEN Named(@) ELSE @]
          /\ UNCHANGED rejected
     ELSE rejected' = rejected \cup {job.id} /\ UNCHANGED <<mailed, threads>>
  /\ UNCHANGED <<leads, rows>>

WordsNext ==
  \/ \E form \in DOMAIN Plan, p \in Sender, s \in Subject, b \in BodyLength : Submit(form, p, s, b)
  \/ SubmitLead
  \/ \E p \in Sender, a \in Address, s \in Subject, c \in Chain : ReceiveNew(p, a, s, c)
  \/ \E t \in DOMAIN threads : \/ \E c \in Chain : ReceiveAnswer(t, c)
                               \/ \E b \in BodyLength : ReplyInThread(t, b)
  \/ \E job \in queue : Consume(job)

WordsSpec == WordsInit /\ [][WordsNext]_wordsVars

------------------------------------------------------------------------------

CorrespondenceTypeOK ==
  /\ \A t \in DOMAIN threads :
       /\ threads[t].mailbox \in Channel /\ threads[t].participant \in Sender
       /\ threads[t].subject \in Text /\ threads[t].references \in IdChain
       /\ threads[t].replies \in 0..MaxReplies
       /\ threads[t].latest \in 0..MaxReplies \cup {Absent}
  /\ \A n \in DOMAIN leads : leads[n] \in DOMAIN threads \cup {Absent}
  /\ \A r \in rows \cup mailed : r.email.from \in Channel
  /\ \A job \in queue : job.id[1] \in DOMAIN threads
  /\ rejected \subseteq {r.job : r \in rows}

\* Whatever people write and however long their chains of references grow, no job that
\* a planner commits is one that the consumer's parser refuses and drops.
EveryJobIsReadable == rejected = {}

\* An email says what its row in the inbox says, comes from the mailbox of its thread in
\* that channel's words, goes to the participant, and its answers return to the thread.
SentAsRecorded ==
  \A s \in mailed :
    LET t == s.job[1]
    IN  /\ s \in rows
        /\ s.email.from = threads[t].mailbox /\ s.email.to = threads[t].participant
        /\ s.email.replyTo = <<threads[t].mailbox, t>>
        /\ s.email.wording \in {"reply", threads[t].mailbox}
        /\ s.email.subject.broken = FALSE

CorrespondenceHolds == EveryJobIsReadable /\ SentAsRecorded
==============================================================================
