----------------------------- MODULE FlagService -----------------------------
(***************************************************************************)
(* FeatureFlagService in several server processes over one table of        *)
(* overrides and one flags file: start-up, the administrators' updates,    *)
(* and reloads by SIGHUP, by the admin endpoints and after every update.   *)
(*                                                                         *)
(* A step is the code from one await to the next. A reload reads the file  *)
(* in the step that asks for the override rows, and installs what it has   *)
(* when the rows arrive: other continuations of the same process run in    *)
(* between.                                                                *)
(***************************************************************************)
EXTENDS FlagDefinition

CONSTANTS
    Servers,    \* Node processes or serverless instances
    Calls,      \* admin requests, signals and start-ups
    None,
    FileSources, \* what an operator may put in the flags file
    Contexts,   \* contexts a flag is evaluated in
    MaxEdits    \* bound on the edits of the flags file

\* A partial map from flag names to JSON, as the table and the file hold it.
Sources == UNION {[D -> Raws] : D \in SUBSET FlagNames}

ASSUME FlagServiceAssumption ==
    /\ None \notin Calls /\ None \notin Servers
    /\ None \notin FlagNames /\ None \notin Raws
    /\ FileSources \subseteq Sources
    /\ Contexts \subseteq Predicate \cup {NoContext}
    /\ MaxEdits \in Nat

VARIABLES
    tables,     \* every state of feature_flag_overrides, the present one last
    files,      \* the same of the flags file
    up,         \* how far each process has started
    flags,      \* this.flags of each process
    overridden, \* this.overriddenNamesSet
    pc,         \* where each call stands
    at,         \* the process that runs it
    fileAt,     \* the state of the file its reload read
    tableAt,    \* the state of the table its reload read, 0 if it could not
    wroteAt,    \* history: the table state its own write made, 0 before it
    rivals,     \* history: reloads under way in its process when its own began
    from        \* history: the call that installed last in each process

serverVars == <<up, flags, overridden, from>>
reloadVars == <<fileAt, tableAt, rivals>>
vars == <<tables, files, serverVars, pc, at, reloadVars, wroteAt>>

Pcs == {"idle", "written", "querying", "installing", "ok", "failed"}

TypeOK ==
    /\ tables \in Seq(Sources) /\ tables # <<>>
    /\ files \in Seq(Sources) /\ files # <<>>
    /\ up \in [Servers -> {"down", "starting", "up"}]
    /\ flags = [s \in Servers |-> [f \in FlagNames |-> flags[s][f]]]
    /\ \A s \in Servers : \A f \in FlagNames : IsDefinition(flags[s][f])
    /\ overridden \in [Servers -> SUBSET FlagNames]
    /\ pc \in [Calls -> Pcs]
    /\ at \in [Calls -> Servers \cup {None}]
    /\ fileAt \in [Calls -> 0..Len(files)]
    /\ tableAt \in [Calls -> 0..Len(tables)]
    /\ wroteAt \in [Calls -> 0..Len(tables)]
    /\ rivals \in [Calls -> SUBSET Calls]
    /\ from \in [Servers -> Calls \cup {None}]

Empty == [f \in {} |-> None]

Table == tables[Len(tables)]

\* The rows of the table's j-th state; none if the query failed.
Rows(j) == IF j = 0 THEN Empty ELSE tables[j]

\* `{ ...this.defaults, ...fromFile, ...fromDb }`
Layered(file, rows) ==
    [f \in FlagNames |->
        IF f \in ParsedNames(rows) THEN parseDefinition(f, rows[f])
        ELSE IF f \in ParsedNames(file) THEN parseDefinition(f, file[f])
        ELSE FLAG_DEFAULTS[f]]

\* Every process has started on the first state of both sources.
Init ==
    /\ tables = <<Empty>>
    /\ \E source \in FileSources : files = <<source>>
    /\ up = [s \in Servers |-> "up"]
    /\ flags = [s \in Servers |-> Layered(files[1], Empty)]
    /\ overridden = [s \in Servers |-> {}]
    /\ pc = [c \in Calls |-> "idle"]
    /\ at = [c \in Calls |-> None]
    /\ fileAt = [c \in Calls |-> 0]
    /\ tableAt = [c \in Calls |-> 0]
    /\ wroteAt = [c \in Calls |-> 0]
    /\ rivals = [c \in Calls |-> {}]
    /\ from = [s \in Servers |-> None]

-----------------------------------------------------------------------------
(* Reloads.                                                                *)

Goto(c, p) == pc' = [pc EXCEPT ![c] = p]

InReload(c) == pc[c] \in {"querying", "installing"}

\* reload() up to its await: the file is read, the rows are asked for.
StartReload(c, s) ==
    /\ Goto(c, "querying")
    /\ fileAt' = [fileAt EXCEPT ![c] = Len(files)]
    /\ rivals' = [rivals EXCEPT ![c] = {d \in Calls : at[d] = s /\ InReload(d)}]
    /\ UNCHANGED tableAt

\* The database answers loadAll.
QueryTable(c) ==
    /\ pc[c] = "querying"
    /\ Goto(c, "installing")
    /\ tableAt' = [tableAt EXCEPT ![c] = Len(tables)]
    /\ UNCHANGED <<tables, files, serverVars, at, fileAt, rivals, wroteAt>>

\* loadAll rejects: logged, and the reload goes on without rows.
QueryFails(c) ==
    /\ pc[c] = "querying"
    /\ Goto(c, "installing")
    /\ UNCHANGED <<tables, files, serverVars, at, reloadVars, wroteAt>>

\* Mutant of Install: the new rows are laid over the old flags.
InstallOverOld(c) ==
    /\ pc[c] = "installing"
    /\ Goto(c, "ok")
    /\ LET s == at[c]
           rows == Rows(tableAt[c])
       IN  /\ flags' = [flags EXCEPT ![s] =
                 [f \in FlagNames |-> IF f \in ParsedNames(rows)
                                      THEN parseDefinition(f, rows[f])
                                      ELSE @[f]]]
           /\ overridden' = [overridden EXCEPT ![s] = DOMAIN rows]
           /\ up' = [up EXCEPT ![s] = "up"]
           /\ from' = [from EXCEPT ![s] = c]
    /\ UNCHANGED <<tables, files, at, reloadVars, wroteAt>>

\* reload() after its await, and the response. After the first one the process
\* listens.
Install(c) ==
    /\ pc[c] = "installing"
    /\ Goto(c, "ok")
    /\ LET s == at[c]
           rows == Rows(tableAt[c])
       IN  /\ flags' = [flags EXCEPT ![s] = Layered(files[fileAt[c]], rows)]
           /\ overridden' = [overridden EXCEPT ![s] = DOMAIN rows]
           /\ up' = [up EXCEPT ![s] = "up"]
           /\ from' = [from EXCEPT ![s] = c]
    /\ UNCHANGED <<tables, files, at, reloadVars, wroteAt>>

-----------------------------------------------------------------------------
(* Start-up, and the calls a running process takes.                        *)

\* The constructor: defaults and file, before the database is connected.
StartProcess(s) ==
    /\ up[s] = "down"
    /\ up' = [up EXCEPT ![s] = "starting"]
    /\ flags' = [flags EXCEPT ![s] = Layered(files[Len(files)], Empty)]
    /\ overridden' = [overridden EXCEPT ![s] = {}]
    /\ UNCHANGED <<tables, files, pc, at, reloadVars, wroteAt, from>>

\* Call c is a reload, in process s.
Begin(c, s) ==
    /\ pc[c] = "idle"
    /\ at' = [at EXCEPT ![c] = s]
    /\ StartReload(c, s)
    /\ UNCHANGED <<tables, files, serverVars, wroteAt>>

\* The reload between the database connection and listen().
BootReload(c, s) ==
    /\ up[s] = "starting"
    /\ \A d \in Calls : at[d] = s => ~InReload(d)
    /\ Begin(c, s)

\* SIGHUP, POST /admin/flags/reload or the administrators' reload button.
Reload(c, s) ==
    /\ up[s] = "up"
    /\ Begin(c, s)

-----------------------------------------------------------------------------
(* Updates. A request up to its write in the database is one step: until   *)
(* then it reads nothing that another call could change.                   *)

\* The database commits call c of process s, whether or not the process hears
\* of it: if not, the call has failed, and no reload follows.
Write(c, s, rows) ==
    /\ up[s] = "up"
    /\ pc[c] = "idle"
    /\ tables' = IF rows = Table THEN tables ELSE Append(tables, rows)
    /\ \/ /\ Goto(c, "written")
          /\ at' = [at EXCEPT ![c] = s]
          /\ wroteAt' = [wroteAt EXCEPT ![c] = Len(tables')]
       \/ /\ Goto(c, "failed")
          /\ UNCHANGED <<at, wroteAt>>
    /\ UNCHANGED <<files, serverVars, reloadVars>>

\* The row is inserted, or its definition replaced.
Upsert(f, d) ==
    [g \in DOMAIN Table \cup {f} |-> IF g = f THEN d ELSE Table[g]]

\* Mutant of SetOverride: the definition is not parsed before it is stored.
SetOverrideUnparsed(c, s, f, d) == Write(c, s, Upsert(f, d))

\* setOverride: what does not parse is not stored.
SetOverride(c, s, f, d) ==
    /\ Valid(f, d)
    /\ Write(c, s, Upsert(f, d))

ClearOverride(c, s, f) ==
    Write(c, s, [g \in DOMAIN Table \ {f} |-> Table[g]])

ClearAllOverrides(c, s) == Write(c, s, Empty)

\* An update that does not parse, or whose write fails: answered as invalid.
UpdateRefused(c, s) ==
    /\ up[s] = "up"
    /\ pc[c] = "idle"
    /\ Goto(c, "failed")
    /\ UNCHANGED <<tables, files, serverVars, at, reloadVars, wroteAt>>

\* Mutant of ReloadAfterWrite: the rows were asked for with the write.
ReloadOfEarlierRows(c) ==
    /\ pc[c] = "written"
    /\ Goto(c, "installing")
    /\ fileAt' = [fileAt EXCEPT ![c] = Len(files)]
    /\ tableAt' = [tableAt EXCEPT ![c] = wroteAt[c] - 1]
    /\ rivals' = [rivals EXCEPT ![c] =
                    {d \in Calls : at[d] = at[c] /\ InReload(d)}]
    /\ UNCHANGED <<tables, files, serverVars, at, wroteAt>>

\* The `await this.reload()` that follows every write.
ReloadAfterWrite(c) ==
    /\ pc[c] = "written"
    /\ StartReload(c, at[c])
    /\ UNCHANGED <<tables, files, serverVars, at, wroteAt>>

-----------------------------------------------------------------------------
(* The environment.                                                        *)

EditFile ==
    /\ Len(files) <= MaxEdits
    /\ \E source \in FileSources : files' = Append(files, source)
    /\ UNCHANGED <<tables, serverVars, pc, at, reloadVars, wroteAt>>

Running(s) == {c \in Calls : at[c] = s /\ pc[c] \notin {"ok", "failed"}}

Reset(v, C, x) == [c \in Calls |-> IF c \in C THEN x ELSE v[c]]

\* A process dies, or cannot connect to its database: its memory is lost, and
\* so are the calls it runs.
Crash(s) ==
    /\ up[s] # "down"
    /\ up' = [up EXCEPT ![s] = "down"]
    /\ flags' = [flags EXCEPT ![s] = FLAG_DEFAULTS]
    /\ overridden' = [overridden EXCEPT ![s] = {}]
    /\ from' = [from EXCEPT ![s] = None]
    /\ pc' = Reset(pc, Running(s), "failed")
    /\ at' = Reset(at, Running(s), None)
    /\ fileAt' = Reset(fileAt, Running(s), 0)
    /\ tableAt' = Reset(tableAt, Running(s), 0)
    /\ wroteAt' = Reset(wroteAt, Running(s), 0)
    /\ rivals' = Reset(rivals, Running(s), {})
    /\ UNCHANGED <<tables, files>>

-----------------------------------------------------------------------------
CallStep(c) ==
    \/ ReloadAfterWrite(c)
    \/ QueryTable(c)
    \/ QueryFails(c)
    \/ Install(c)

CallArrives(c, s) ==
    \/ BootReload(c, s)
    \/ Reload(c, s)
    \/ \E f \in FlagNames, d \in Raws : SetOverride(c, s, f, d)
    \/ \E f \in FlagNames : ClearOverride(c, s, f)
    \/ ClearAllOverrides(c, s)
    \/ UpdateRefused(c, s)

Next ==
    \/ \E c \in Calls : CallStep(c)
    \/ \E c \in Calls, s \in Servers : CallArrives(c, s)
    \/ \E s \in Servers : StartProcess(s) \/ Crash(s)
    \/ EditFile

Spec == Init /\ [][Next]_vars
-----------------------------------------------------------------------------
(* Properties.                                                             *)

\* Process s serves the file and the overrides of one state each, the latter
\* no older than state v of the table, or none when they could not be read.
ServesFrom(s, v) ==
    \E i \in 1..Len(files), j \in {0} \cup v..Len(tables) :
        /\ flags[s] = Layered(files[i], Rows(j))
        /\ overridden[s] = DOMAIN Rows(j)

\* What a process serves is never put together from two states of a source,
\* however its reloads interleave with updates, clears and edits of the file.
ServesASnapshot == \A s \in Servers : up[s] # "down" => ServesFrom(s, 1)

\* Once an update or a clear is answered, its process serves it, or what came
\* later; only a reload that was already under way when the update began its
\* own can put an older state back.
OnlyARivalHidesAWrite ==
    \A c \in Calls :
        pc[c] = "ok" /\ wroteAt[c] # 0 /\ up[at[c]] = "up"
            => \/ ServesFrom(at[c], wroteAt[c])
               \/ from[at[c]] \in rivals[c]

\* The badge of the admin page, "this flag has a DB override row", is never
\* shown on a flag that is served from the file or the code.
BadgeMeansOverride ==
    \A s \in Servers : \A f \in overridden[s] :
        \E j \in 1..Len(tables) :
            /\ f \in DOMAIN tables[j]
            /\ flags[s][f] = parseDefinition(f, tables[j][f])

\* Whatever JSON the file and the overrides hold, and whoever asks, a process
\* serves every flag with a value within the bounds README.md gives it.
ServedValuesAreLegal ==
    \A s \in Servers : \A f \in FlagNames : \A ctx \in Contexts :
        Legal(f, evaluateFlag(f, flags[s][f], ctx))

\* Two reloads overlapped in their process.
Rivals(c, d) == c \in rivals[d] \/ d \in rivals[c]

\* A reload that read the table puts an older state of it in place of a newer
\* one only if the two reloads overlapped: one after the other never goes back.
ReloadsMoveForward ==
    [][\A s \in Servers :
        /\ from'[s] # from[s]
        /\ from[s] # None /\ from'[s] # None
        /\ tableAt[from'[s]] # 0
        => \/ tableAt[from[s]] <= tableAt[from'[s]]
           \/ Rivals(from[s], from'[s])]_vars
=============================================================================
