------------------------------- MODULE MCInbox -------------------------------
(* One email to two mailboxes (m1 and m2 have the same Message-ID), an answer
   to the one in the first mailbox, and a website form. *)
EXTENDS Inbox, TLC

CONSTANTS m1, m2, m3, f1, r1, r2, r3

const_Mail     == {m1, m2, m3, f1}
const_Form     == {f1}
const_Attached == {m1}
const_PartyOf  == (m1 :> 1) @@ (m2 :> 2) @@ (m3 :> 1) @@ (f1 :> 2)
const_IdOf     == (m1 :> 1) @@ (m2 :> 1) @@ (m3 :> 3) @@ (f1 :> 4)
const_Follows  == (m1 :> None) @@ (m2 :> None) @@ (m3 :> 1) @@ (f1 :> None)
const_Receipt  == {r1, r2, r3}

Symmetry == Permutations(const_Receipt)
=============================================================================
