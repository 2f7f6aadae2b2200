---------------------------- MODULE MCAdminPages ----------------------------
(***************************************************************************)
(* The instance of AdminPages for TLC.                                     *)
(***************************************************************************)
EXTENDS AdminPages

FlagList == <<"AI_TOOLS_ENABLED", "TOOL_CALCULATOR_ENABLED">>

Newest == <<"u3", "u2", "boss">>

\* Half of the users are in the rollout.
Bucket(f, u) == IF u = "u2" THEN 20 ELSE 70

\* A rollout, with a rule for a role before one for a user.
Overrides1 ==
    {[default |-> Bool(TRUE),
      rules |-> <<[if |-> [NoFields EXCEPT !["userRole"] = "admin"],
                   value |-> Bool(FALSE)],
                  [if |-> [NoFields EXCEPT !["userId"] = "u2"],
                   value |-> Bool(TRUE)]>>,
      percentage |-> 50]}

\* Bound: what the administrator and the others do, all together.
FewSteps ==
    spent.clicks + spent.edits + spent.visits + spent.foreign <= 4
=============================================================================
