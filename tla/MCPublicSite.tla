----------------------------- MODULE MCPublicSite -----------------------------
(* The D1 tables behind the public site, their constraints, and the forms in its
   pages share no state: a behaviour is of one part.  "rows" is the writer with
   tables of any key, the other tables have their constraints: two pages that
   may take each other's slug, a tool and its offer, a menu of three levels. *)
EXTENDS MCReadModel, PublicTables, PublicForms

CONSTANTS P1, P2, T, O, N1, N2, N3

const_FormPages == {1, 2}

const_Entity == {P1, P2, T, O, N1, N2, N3}

const_TableOf ==
  (P1 :> "public_content") @@ (P2 :> "public_content") @@ (T :> "public_tools") @@
  (O :> "public_offers") @@ [n \in {N1, N2, N3} |-> "public_navigation"]

Says(slugs, refs, notes) == [slug : slugs, ref : refs, note : notes]

const_Upserts ==
  (P1 :> Says({"x", "y"}, {Null}, BOOLEAN)) @@ (P2 :> Says({"x", "y"}, {Null}, {TRUE})) @@
  (T :> Says({"t"}, {Null}, {TRUE})) @@ (O :> Says({"o"}, {T, Null}, BOOLEAN)) @@
  (N1 :> Says({"n"}, {Null}, {TRUE})) @@ (N2 :> Says({"n"}, {N1, Null}, {TRUE})) @@
  (N3 :> Says({"n"}, {N2}, {TRUE}))

Groups == [pages |-> {P1, P2}, offers |-> {T, O}, menu |-> {N1, N2, N3}]

VARIABLE part

site == <<part, vars, tablesVars, formVars>>

SiteInit == Init /\ TablesInit /\ FormsInit /\ part \in {"rows", "forms"} \cup DOMAIN Groups

SiteNext ==
  \/ part = "rows" /\ Next /\ UNCHANGED <<part, tablesVars, formVars>>
  \/ part \in DOMAIN Groups /\ Steps(Groups[part]) /\ UNCHANGED <<part, vars, formVars>>
  \/ part = "forms" /\ FormsNext /\ UNCHANGED <<part, vars, tablesVars>>

SiteSpec == SiteInit /\ [][SiteNext]_site /\ FormsFairness
=============================================================================
