------------------------------ MODULE MCWorker ------------------------------
(* What workers consume, in three parts that share no state: a behaviour is of one
   of them.  Projections: two runners over one event, which a message may name too
   early; how events of several versions meet in D1 is the business of the read
   model.  Webhooks: three deliveries of one event.  Mail: one email, one publication
   pass and one consumer, which is enough to ask whether the email is decided. *)
EXTENDS Projection, Webhooks, EmailPipeline, TLC

CONSTANTS a1, k1, r1, r2, d1, d2, d3, e1, n1, p1, w1

const_Aggregate == {a1}
const_Key       == {k1}
const_KeysOf    == a1 :> {k1}
const_Runner    == {r1, r2}
const_Early     == {1}

const_Delivery == {d1, d2, d3}
const_HookEvent == {e1}

const_Email     == {n1}
const_Invalid   == {}
const_Publisher == {p1}
const_Sender    == {w1}

VARIABLE part

worker == <<part, projectionVars, hookVars, pipelineVars>>

WorkerInit ==
  /\ ProjectionInit /\ HookInit /\ PipelineInit
  /\ part \in {"projection", "webhooks", "mail"}

WorkerNext ==
  \/ part = "projection" /\ ProjectionNext /\ UNCHANGED <<part, hookVars, pipelineVars>>
  \/ part = "webhooks" /\ HookNext /\ UNCHANGED <<part, projectionVars, pipelineVars>>
  \/ part = "mail" /\ PipelineNext /\ UNCHANGED <<part, projectionVars, hookVars>>

WorkerSpec == WorkerInit /\ [][WorkerNext]_worker /\ Fairness /\ PipelineFairness
=============================================================================
