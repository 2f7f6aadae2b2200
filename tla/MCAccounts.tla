----------------------------- MODULE MCAccounts -----------------------------
(***************************************************************************)
(* Instances of Accounts for TLC.                                          *)
(***************************************************************************)
EXTENDS Accounts, TLC

AccountSymmetry ==
    Permutations(Users) \cup Permutations(Emails)
        \cup Permutations(Earlier) \cup Permutations(Calls \ Earlier)
=============================================================================
