----------------------------- MODULE MCReadModel -----------------------------
(* Two aggregates: tables keyed by id give each its own key, tables keyed by
   path let them share one. *)
EXTENDS ReadModel, TLC

CONSTANTS a1, a2, k1, k2

const_Aggregate == {a1, a2}
const_Key       == {k1, k2}
const_ById      == (a1 :> {k1}) @@ (a2 :> {k2})
const_ByPath    == (a1 :> {k1, k2}) @@ (a2 :> {k1, k2})
=============================================================================
