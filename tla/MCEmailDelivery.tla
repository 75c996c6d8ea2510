-------------------------- MODULE MCEmailDelivery --------------------------
(* Two consumers over one message of each kind; a copy is delivered at most
   three times, and the publisher may hand the same job over again. *)
EXTENDS EmailDelivery, TLC

CONSTANTS m1, m2, w1, w2

const_Message   == {m1, m2}
const_Malformed == {m2}
const_Worker    == {w1, w2}

Symmetry == Permutations(const_Worker)
=============================================================================
