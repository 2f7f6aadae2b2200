----------------------------- MODULE MCChatLists -----------------------------
(***************************************************************************)
(* The instance of ChatLists for TLC. The chats are ordered, so there is   *)
(* no symmetry among them.                                                 *)
(***************************************************************************)
EXTENDS ChatLists

\* Bound: changes of the chats, by this window and the other; one that a dialog
\* asks about counts.
FewChanges ==
    spent.acts + spent.foreign + (IF side.confirm # 0 THEN 1 ELSE 0) <= 2
=============================================================================
