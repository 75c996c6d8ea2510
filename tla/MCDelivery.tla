------------------------------ MODULE MCDelivery ------------------------------
(* The consumers alone, with two kinds of message and three deliveries of a copy,
   and the whole way of one email, through two overlapping publication passes and
   one consumer or through one pass and two consumers; and the consumers of the
   media queue, with three messages, one of them malformed, in batches of two.  A
   behaviour is of one of the four. *)
EXTENDS MCEmailDelivery, EmailPipeline, MediaQueue

CONSTANTS n1, p1, p2, v1, v2, j1, j2, j3

const_Email     == {n1}
const_Invalid   == {}
const_Publisher == {p1, p2}
const_Sender    == {v1, v2}

const_Job     == {j1, j2, j3}
const_Spoiled == {j3}

VARIABLE part

everything == <<part, vars, pipelineVars, mediaVars>>

DeliveryInit ==
  /\ part \in {"delivery", "passes", "consumers", "media"}
  /\ Init /\ PipelineInit /\ MediaInit

DeliveryNext ==
  \/ part = "delivery" /\ Next /\ UNCHANGED <<part, pipelineVars, mediaVars>>
  \/ /\ part = "passes"
     /\ PipelineNext
     /\ mailStep'[v2] = mailStep[v2]
     /\ UNCHANGED <<part, vars, mediaVars>>
  \/ /\ part = "consumers"
     /\ PipelineNext
     /\ pass'[p2] = pass[p2]
     /\ UNCHANGED <<part, vars, mediaVars>>
  \/ part = "media" /\ MediaNext /\ UNCHANGED <<part, vars, pipelineVars>>

DeliverySpec == DeliveryInit /\ [][DeliveryNext]_everything

\* The consumers of both parts are swapped at once, or not: a behaviour has one of them.
DeliverySymmetry ==
  {f \in Permutations(UNION {const_Publisher, const_Sender, const_Worker}) :
     /\ \A S \in {const_Publisher, const_Sender, const_Worker} : \A v \in S : f[v] \in S
     /\ f[w1] = w1 <=> f[v1] = v1}
=============================================================================
