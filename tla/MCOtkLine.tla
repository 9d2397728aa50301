------------------------------ MODULE MCOtkLine ------------------------------
(***************************************************************************)
(* Instances of OtkLine for TLC: one batch, with one unit or with two.     *)
(***************************************************************************)
EXTENDS OtkLine, TLC

CONSTANTS b1, u1, u2, p1, p2

OneUnit  == u1 :> b1
TwoUnits == u1 :> b1 @@ u2 :> b1

(* Units, PAKs and handlers are interchangeable; session ids are ordered and *)
(* are not.                                                                *)
Symmetry ==
    Permutations(Handlers) \cup Permutations(Units) \cup Permutations(Paks)
=============================================================================
