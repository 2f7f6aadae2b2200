--------------------------- MODULE FlagInductive ---------------------------
(***************************************************************************)
(* The inductive invariant behind FlagService's properties: what each      *)
(* process remembers of its last reload, and how the reloads of a process  *)
(* are ordered.                                                            *)
(***************************************************************************)
EXTENDS FlagService

Begun(c) == pc[c] # "idle" /\ pc[c] # "failed"

Reloading(c) == InReload(c) \/ pc[c] = "ok"

\* Every row was stored by setOverride, so it parses.
RowsParse ==
    \A j \in 1..Len(tables) : \A f \in DOMAIN tables[j] : Valid(f, tables[j][f])

\* What a process holds is what its last reload read, or what the constructor
\* found in the file; a dead one holds nothing.
Holds(s) ==
    IF up[s] = "down"
    THEN /\ from[s] = None
         /\ flags[s] = FLAG_DEFAULTS
         /\ overridden[s] = {}
    ELSE IF from[s] = None
    THEN /\ overridden[s] = {}
         /\ \E i \in 1..Len(files) : flags[s] = Layered(files[i], Empty)
    ELSE /\ pc[from[s]] = "ok" /\ at[from[s]] = s
         /\ flags[s] = Layered(files[fileAt[from[s]]], Rows(tableAt[from[s]]))
         /\ overridden[s] = DOMAIN Rows(tableAt[from[s]])

\* A call that has begun runs in a process; its reload has read the file, and
\* the table no sooner than it asked.
Placed ==
    \A c \in Calls :
        /\ Begun(c) => at[c] \in Servers
        /\ Reloading(c) => fileAt[c] # 0
        /\ pc[c] \in {"idle", "written", "querying"} => tableAt[c] = 0

\* Once a call has been answered, its process holds the result of a reload.
Served ==
    \A c \in Calls :
        pc[c] = "ok" /\ up[at[c]] = "up" => from[at[c]] # None

\* Reloads under way in one process overlap.
Overlap ==
    \A c, d \in Calls :
        c # d /\ at[c] = at[d] /\ InReload(c) /\ InReload(d) => Rivals(c, d)

\* A reload that overlaps none before it reads the table after they did.
Ordered ==
    \A c, d \in Calls :
        /\ at[c] = at[d]
        /\ pc[c] = "ok"
        /\ pc[d] = "installing" /\ tableAt[d] # 0
        => Rivals(c, d) \/ tableAt[c] <= tableAt[d]

\* A reload under way has read the table after a call of its process wrote it,
\* unless it was under way when the call began its own.
ReadAfter ==
    \A c, d \in Calls :
        /\ at[c] = at[d]
        /\ Reloading(c) /\ wroteAt[c] # 0
        /\ pc[d] = "installing" /\ tableAt[d] # 0
        => d \in rivals[c] \/ wroteAt[c] <= tableAt[d]

\* The same of the reload a process serves.
ServedAfter ==
    \A c \in Calls :
        pc[c] = "ok" /\ wroteAt[c] # 0 /\ up[at[c]] = "up"
        => \/ from[at[c]] \in rivals[c]
           \/ tableAt[from[at[c]]] = 0
           \/ wroteAt[c] <= tableAt[from[at[c]]]

\* The strengthening of FlagService's properties that every step preserves.
FlagInv ==
    /\ TypeOK
    /\ RowsParse
    /\ \A s \in Servers : Holds(s)
    /\ Placed
    /\ Served
    /\ Overlap
    /\ Ordered
    /\ ReadAfter
    /\ ServedAfter
=============================================================================
