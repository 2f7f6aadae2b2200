---------------------------- MODULE MCCompletion ----------------------------
(***************************************************************************)
(* Model-checking instances of Completion from empty tables. Requests,     *)
(* users and chats are interchangeable in the safety runs; the liveness    *)
(* run uses no symmetry.                                                   *)
(***************************************************************************)
EXTENDS Completion, TLC

FullSymmetry ==
    Permutations(Requests) \cup Permutations(Users) \cup Permutations(Chats)
=============================================================================
