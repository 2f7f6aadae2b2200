----------------------------- MODULE MCChatPage -----------------------------
(***************************************************************************)
(* Instances of ChatPage for TLC.                                          *)
(***************************************************************************)
EXTENDS ChatPage, TLC

PageSymmetry ==
    Permutations(Chats \ {FirstChat}) \cup Permutations(Runs \ {Earlier})
=============================================================================
