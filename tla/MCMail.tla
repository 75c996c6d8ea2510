-------------------------------- MODULE MCMail --------------------------------
(* Receipts of emails one by one, the conversations that answers come back to, what
   the jobs of outgoing emails say, and how two events are projected: a behaviour is
   of one of the four.
   Conversations: four messages, of a participant and of someone else.
   Correspondence: the subjects, bodies and chains of References lie on both sides
   of every limit that some step of the way checks.
   Projections: an event that changes or deletes what the other published, handed over
   again and again, by messages and by workflows. *)
EXTENDS MCInbox, Conversations, Correspondence

CONSTANTS p1, p2, x1, a1, k1, c1

const_Parties == {p1, p2}

Written(n, broken, re) == [length |-> n, broken |-> broken, re |-> re]
Ids(size, n)           == [size |-> size, theirs |-> n, ours |-> 0]

const_Sender  == {x1}
const_Subject ==
  {Written(0, FALSE, FALSE), Written(200, FALSE, FALSE), Written(400, TRUE, TRUE),
   Written(400, FALSE, FALSE)}
const_BodyLength == {0, 10, 240000, 250000}
const_Chain      == {Ids(0, 0), Ids(81, 100), Ids(1000, 9), Ids(1200, 2)}

VARIABLES
  part,
  log, published, shown, projected, waiting, parked, handed,
  at, event, durable, attempt, permanent, recorded

P == INSTANCE Projection WITH
       Aggregate <- {a1}, Key <- {k1}, KeysOf <- a1 :> {k1}, MaxVersion <- 2, Early <- {},
       Runner <- {c1}, MaxDeliveries <- 2, MaxRuns <- 1,
       rows <- shown, receipts <- projected, queue <- waiting, step <- at

projectionVars == <<log, published, shown, projected, waiting, parked, handed,
                    at, event, durable, attempt, permanent, recorded>>

DrainedIsCurrent == P!DrainedIsCurrent

post == <<part, vars, talkVars, wordsVars, projectionVars>>

MailInit ==
  /\ part \in {"receipts", "conversations", "correspondence", "projections"}
  /\ Init /\ TalkInit /\ WordsInit /\ P!ProjectionInit

MailNext ==
  \/ part = "receipts" /\ Next /\ UNCHANGED <<part, talkVars, wordsVars, projectionVars>>
  \/ part = "conversations" /\ TalkNext /\ UNCHANGED <<part, vars, wordsVars, projectionVars>>
  \/ part = "correspondence" /\ WordsNext /\ UNCHANGED <<part, vars, talkVars, projectionVars>>
  \/ part = "projections" /\ P!ProjectionNext /\ UNCHANGED <<part, vars, talkVars, wordsVars>>

MailSpec == MailInit /\ [][MailNext]_post

\* A behaviour is of one part, so one group serves both: the parties are swapped
\* with the permutations of the three receipts that fix just one of them.
MailSymmetry ==
  {f \in Permutations(const_Receipt \cup const_Parties) :
     /\ \A S \in {const_Receipt, const_Parties} : \A v \in S : f[v] \in S
     /\ f[p1] = p2 <=> Cardinality({r \in const_Receipt : f[r] = r}) = 1}
=============================================================================
