------------------------------- MODULE MCGateway -------------------------------
EXTENDS Gateway, TLC

\* In memory the keys of all routes compete for room, and an own route asks for
\* the bucket an admin route asks for; in Redis an own route stands for all.
MCRoutes(x) ==
    IF x = "memory" THEN {"public", "completion", "admin"} ELSE {"own"}

MCSymmetry == Permutations(Reqs)
================================================================================
