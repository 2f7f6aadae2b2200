---------------------------- MODULE MCFlagService ----------------------------
(***************************************************************************)
(* The instance of FlagService for TLC: a flag of each type, and           *)
(* definitions with rules, a rollout, values out of bounds, a value that   *)
(* is no integer and entries that are no rules; any flag may be given the  *)
(* definition meant for another one.                                       *)
(***************************************************************************)
EXTENDS FlagService, TLC

CONSTANTS s1, s2, c1, c2, absent, noContext

MCFlagNames ==
    {"AI_TOOLS_ENABLED", "PAGINATION_LIMIT", "RATE_LIMIT_PER_MINUTE"}

MCFieldValues == {"admin", "ann", "bob"}

\* Ann is in every rollout of 50 %, Bob in none.
MCBucketFor(f, u) == IF u = "ann" THEN 7 ELSE 83

If(k, v) == [[q \in ContextKeys |-> absent] EXCEPT ![k] = v]

\* 50.5 %, always off for Ann. Two entries are no rules: a string, and an
\* object whose value is one.
Rollout ==
    [default |-> Bool(TRUE),
     rules |-> <<[object |-> FALSE, if |-> If("plan", absent),
                  value |-> Bool(FALSE)],
                 [object |-> TRUE, if |-> If("userRole", "admin"),
                  value |-> [type |-> "other", n |-> 0]],
                 [object |-> TRUE, if |-> If("userId", "ann"),
                  value |-> Bool(FALSE)]>>,
     percentage |-> 101]

\* Pages of 250, of 15.5 (no integer) or 3 for administrators.
Page ==
    [default |-> Number(500),
     rules |-> <<[object |-> TRUE, if |-> If("userRole", "admin"),
                  value |-> Number(31)],
                 [object |-> TRUE, if |-> If("userRole", "admin"),
                  value |-> Number(6)]>>,
     percentage |-> NoPercentage]

\* A rate of 0.5 per minute, given without rules.
Half == [default |-> Number(1), rules |-> <<>>, percentage |-> NoPercentage]

MCRaws == {Rollout, Page, Half}

MCFileSources == {[f \in {} |-> Page], [f \in MCFlagNames |-> Page],
                  [f \in MCFlagNames |-> Rollout]}

MCContexts ==
    {noContext, If("plan", absent), If("userId", "ann"), If("userId", "bob"),
     [If("userId", "bob") EXCEPT !["userRole"] = "admin"]}

FlagSymmetry == Permutations({s1, s2}) \cup Permutations({c1, c2})
=============================================================================
