----------------------------- MODULE MCSession -----------------------------
(***************************************************************************)
(* Instances of Session for TLC.                                           *)
(***************************************************************************)
EXTENDS Session, TLC

SessionSymmetry ==
    Permutations(Users) \cup Permutations(Emails)
        \cup Permutations(Earlier) \cup Permutations(Calls \ Earlier)
=============================================================================
