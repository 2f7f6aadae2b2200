----------------------------- MODULE AdminPages -----------------------------
(***************************************************************************)
(* One administrator's window: the flags page with its editor              *)
(* (useAdminFlags), the users page with its list and the dialog of one     *)
(* user's overrides (useUserOverrides), and the admin API both talk to,    *)
(* which other administrators use as well. The pages are tabs: one is      *)
(* mounted at a time, and a request outlives the page that sent it.        *)
(*                                                                         *)
(* The flags are boolean. A write and the reload it awaits are one step of *)
(* the server (FlagService has the races between them), and the static     *)
(* sources stay as they are. The store of evaluated flags that every       *)
(* action refreshes is Session's.                                          *)
(***************************************************************************)
EXTENDS FlagDefinition, Lists, SequencesExt

CONSTANTS
    FLAG_LIST,      \* the flags, in the order the dialog saves them
    TOOL_FLAGS,     \* the flags of the tools
    AI_TOOLS_MASTER,
    Percentages,    \* rollouts the editor can set
    Roles,          \* roles it can limit a rule to
    Accounts,       \* user ids, newest first
    Stored,         \* definitions other administrators set
    Registered,     \* the users that exist when the window opens
    Self,           \* the administrator
    PAGE_SIZE,
    Nothing,        \* null
    MaxClicks,      \* bound: clicks that send a request
    MaxEdits,       \* bound: changes made in editors and dialogs
    MaxVisits,      \* bound: changes of the tab
    MaxForeign      \* bound: changes by other administrators

Flags == ToSet(FLAG_LIST)

ASSUME AdminPagesAssumption ==
    /\ FLAG_LIST \in Seq(FlagNames)
    /\ Flags = BooleanFlags /\ TOOL_FLAGS \subseteq Flags
    /\ AI_TOOLS_MASTER \in Flags \ TOOL_FLAGS
    /\ Registered \subseteq ToSet(Accounts) /\ Self \in Registered
    /\ Accounts \in Seq(FieldValues \ {Nothing}) /\ IsInjective(Accounts)
    /\ PAGE_SIZE \in Nat \ {0}
    /\ {MaxClicks, MaxEdits, MaxVisits, MaxForeign} \subseteq Nat

Values == {Bool(b) : b \in BOOLEAN}

\* The definitions of a flag: the parser accepts no other for a boolean one.
Definitions ==
    [default : Values,
     rules : Seq([if : Predicate, value : Values]),
     percentage : NoPercentage..100]

Catalogs ==
    [definitions : [Flags -> Definitions], overriddenNames : SUBSET Flags]

ASSUME DefinitionsAssumption ==
    /\ Stored \subseteq Definitions
    /\ Percentages \subseteq 0..100 /\ Roles \subseteq FieldValues
    /\ Nothing \notin Catalogs
    /\ NoContext \notin [ContextKeys -> FieldValues \cup {Absent, "user"}]

VARIABLES
    override,   \* the server: the override of each flag, or Nothing
    users,      \* the server: the accounts
    panel,      \* the flags page, and the editor on it
    page,       \* the users page
    dialog,     \* the dialog of one user's overrides
    calls,      \* requests under way
    lapses,     \* history: what keeps a page from being up to date
    spent       \* what the bounds have used

serverVars == <<override, users>>
vars == <<serverVars, panel, page, dialog, calls, lapses, spent>>

-----------------------------------------------------------------------------
(* The server's answers.                                                   *)

Definition(f) ==
    IF override[f] = Nothing THEN FLAG_DEFAULTS[f] ELSE override[f]

Catalog ==
    [definitions |-> [f \in Flags |-> Definition(f)],
     overriddenNames |-> {f \in Flags : override[f] # Nothing}]

\* findAll and buildPagedResult. A cursor whose row is gone finds nothing.
UsersFrom(cursor) ==
    LET Older(u) == \E i, j \in DOMAIN Accounts :
                        i < j /\ Accounts[i] = cursor /\ Accounts[j] = u
        found == IF cursor = Nothing THEN Filter(Accounts, users)
                 ELSE IF cursor \notin users THEN <<>>
                 ELSE Filter(Accounts, {u \in users : Older(u)})
        more == Len(found) > PAGE_SIZE
        data == IF more THEN SubSeq(found, 1, PAGE_SIZE) ELSE found
    IN  [data |-> data, hasMore |-> more,
         nextCursor |-> IF more THEN data[PAGE_SIZE] ELSE Nothing]

-----------------------------------------------------------------------------
(* Requests.                                                               *)

Call(op) ==
    [op |-> op, id |-> 0, flag |-> Nothing, user |-> Nothing,
     sent |-> Nothing, todo |-> {}, dialog |-> FALSE, mounted |-> TRUE,
     stage |-> "sent", answer |-> Nothing, fresh |-> TRUE]

FlagWrites == {"save", "clear", "clearAll"}

Writes == FlagWrites \cup {"override", "delete"}

PanelCalls == FlagWrites \cup {"list", "reload", "relist"}

Under(op) == {c \in calls : c.op = op}

\* A click: its request is sent, beside those under way.
Send(c) ==
    /\ spent.clicks < MaxClicks
    /\ spent' = [spent EXCEPT !.clicks = @ + 1]
    /\ calls' = calls \cup {[c EXCEPT !.id = spent.clicks + 1]}

\* Nothing covers the page: no editor, no dialog, no confirmation.
Clickable ==
    /\ panel.editing = Nothing /\ dialog.user = Nothing
    /\ \A c \in calls :
           c.op \in {"clear", "clearAll", "delete"} => ~c.dialog

\* What closes with its editor or dialog goes on without it.
Detached(op, set) ==
    {IF c.op = op THEN [c EXCEPT !.dialog = FALSE] ELSE c : c \in set}

\* What a page leaves behind: its writes, which no component waits for.
Orphans ==
    {[c EXCEPT !.dialog = FALSE, !.mounted = FALSE] :
        c \in {d \in calls : d.op \in Writes}}

-----------------------------------------------------------------------------
(* The pages, mounted and not.                                             *)

Panel(open) ==
    [open |-> open, data |-> Nothing, loading |-> open, reloading |-> FALSE,
     error |-> FALSE, editing |-> Nothing, draft |-> Nothing]

Page(open) ==
    [open |-> open, list |-> <<>>, cursor |-> Nothing, hasMore |-> FALSE,
     loading |-> open, error |-> FALSE]

NoDialog == [user |-> Nothing, definitions |-> Nothing, rows |-> Nothing]

\* A tab mounts its page, whose effect asks for what it shows.
Mounted(tab) ==
    /\ panel' = Panel(tab = "flags")
    /\ page' = Page(tab = "users")
    /\ dialog' = NoDialog
    /\ lapses' = {}

FirstRead(tab) == Call(IF tab = "flags" THEN "list" ELSE "users")

Init ==
    /\ override \in [Flags -> Stored \cup {Nothing}]
    /\ users = Registered
    /\ \E tab \in {"flags", "users"} :
          /\ panel = Panel(tab = "flags")
          /\ page = Page(tab = "users")
          /\ calls = {FirstRead(tab)}
    /\ dialog = NoDialog
    /\ lapses = {}
    /\ spent = [clicks |-> 0, edits |-> 0, visits |-> 0, foreign |-> 0]

\* AdminShell: a link, or the browser's back button.
Visit(tab) ==
    /\ tab = "flags" <=> ~panel.open
    /\ spent.visits < MaxVisits
    /\ spent' = [spent EXCEPT !.visits = @ + 1]
    /\ Mounted(tab)
    /\ calls' = Orphans \cup {FirstRead(tab)}
    /\ UNCHANGED serverVars

-----------------------------------------------------------------------------
(* The server serves a request.                                            *)

\* History: an answer computed before a change is no longer up to date.
Aged(set) ==
    {IF c.stage = "done" THEN [c EXCEPT !.fresh = FALSE] ELSE c : c \in set}

Answered(c, set, answer) ==
    calls' = (set \ {c}) \cup
                 {[c EXCEPT !.stage = "done", !.answer = answer]}

\* A read, and the reload endpoint, whose answer the page does not use.
ServeRead(c) ==
    /\ c.stage = "sent"
    /\ \/ /\ c.op \in {"list", "relist", "read", "reload"}
          /\ Answered(c, calls, Catalog)
       \/ /\ c.op \in {"users", "more"}
          /\ Answered(c, calls, UsersFrom(c.user))
    /\ UNCHANGED <<serverVars, panel, page, dialog, lapses, spent>>

\* The rules of the shape the dialog writes; the code takes the first.
findUserRule(d, u) ==
    {i \in DOMAIN d.rules :
        d.rules[i].if = [NoFields EXCEPT !["userId"] = u]}

First(set) == CHOOSE i \in set : \A j \in set : i <= j

\* Mutant of applyOverride: a new rule goes to the end.
AppliedLast(d, u, row) ==
    LET mine == findUserRule(d, u)
        rule == [if |-> [NoFields EXCEPT !["userId"] = u],
                 value |-> row.value]
    IN  [d EXCEPT !.rules =
            IF row.enabled /\ mine # {}
            THEN [@ EXCEPT ![First(mine)] = rule]
            ELSE IF row.enabled THEN Append(@, rule)
            ELSE IF mine # {} THEN RemoveAt(@, First(mine))
            ELSE @]

\* The user's rule is replaced where it is, put first, or taken out.
applyOverride(d, u, row) ==
    LET mine == findUserRule(d, u)
        rule == [if |-> [NoFields EXCEPT !["userId"] = u],
                 value |-> row.value]
    IN  [d EXCEPT !.rules =
            IF row.enabled /\ mine # {}
            THEN [@ EXCEPT ![First(mine)] = rule]
            ELSE IF row.enabled THEN <<rule>> \o @
            ELSE IF mine # {} THEN RemoveAt(@, First(mine))
            ELSE @]

\* The loop of the dialog goes through the flags in their order.
NextFlag(todo) ==
    FLAG_LIST[First({i \in DOMAIN FLAG_LIST : FLAG_LIST[i] \in todo})]

\* What it sends next, from what the dialog has read.
NextOverride(c) ==
    LET f == NextFlag(c.todo)
    IN  applyOverride(c.sent.definitions[f], c.user, c.sent.rows[f])

Overrides(c) ==
    CASE c.op = "save" -> [override EXCEPT ![c.flag] = c.sent]
      [] c.op = "clear" -> [override EXCEPT ![c.flag] = Nothing]
      [] c.op = "clearAll" -> [f \in Flags |-> Nothing]
      [] c.op = "override" ->
             [override EXCEPT ![NextFlag(c.todo)] = NextOverride(c)]

\* A write of flags takes effect, and the answer is read after its reload.
ServeFlagWrite(c) ==
    /\ c.stage = "sent" /\ c.op \in FlagWrites \cup {"override"}
    /\ override' = Overrides(c)
    /\ Answered(c, Aged(calls), Catalog')
    /\ lapses' = IF panel.open /\ ~c.mounted
                 THEN lapses \cup {"flags"} ELSE lapses
    /\ UNCHANGED <<users, panel, page, dialog, spent>>

ServeDelete(c) ==
    /\ c.stage = "sent" /\ c.op = "delete" /\ c.user \in users
    /\ users' = users \ {c.user}
    /\ Answered(c, Aged(calls), Nothing)
    /\ lapses' = IF page.open /\ ~c.mounted
                 THEN lapses \cup {"users"} ELSE lapses
    /\ UNCHANGED <<override, panel, page, dialog, spent>>

-----------------------------------------------------------------------------
(* The flags page.                                                         *)

\* Mutant of applyResponse: the definitions are kept, the badges are new.
BadgesOnly(p, c) ==
    [p EXCEPT !.data =
                 IF @ = Nothing THEN c.answer
                 ELSE [@ EXCEPT !.overriddenNames =
                                   c.answer.overriddenNames],
              !.error = FALSE]

\* The answer that arrives last is what the page shows.
applyResponse(p, c) == [p EXCEPT !.data = c.answer, !.error = FALSE]

\* History: it is up to date exactly if the answer was.
Told(c, what) ==
    lapses' = IF c.fresh THEN lapses \ {what} ELSE lapses \cup {what}

\* refresh, called by the effect and by retry, or after a reload.
Listed(c) ==
    /\ c.op \in {"list", "relist"} /\ c.stage = "done"
    /\ panel' = [applyResponse(panel, c) EXCEPT
                    !.loading = @ /\ c.op # "list",
                    !.reloading = @ /\ c.op # "relist"]
    /\ Told(c, "flags")
    /\ calls' = calls \ {c}
    /\ UNCHANGED <<serverVars, page, dialog, spent>>

ListFails(c) ==
    /\ c.op \in {"list", "relist"}
    /\ panel' = [panel EXCEPT !.error = TRUE,
                              !.loading = @ /\ c.op # "list",
                              !.reloading = @ /\ c.op # "relist"]
    /\ calls' = calls \ {c}
    /\ UNCHANGED <<serverVars, page, dialog, lapses, spent>>

retry ==
    /\ panel.open /\ Clickable
    /\ panel.error /\ ~panel.loading
    /\ panel' = [panel EXCEPT !.loading = TRUE]
    /\ Send(Call("list"))
    /\ UNCHANGED <<serverVars, page, dialog, lapses>>

reload ==
    /\ panel.open /\ Clickable
    /\ ~panel.reloading
    /\ panel' = [panel EXCEPT !.reloading = TRUE]
    /\ Send(Call("reload"))
    /\ UNCHANGED <<serverVars, page, dialog, lapses>>

Reloaded(c) ==
    /\ c.op = "reload" /\ c.stage = "done"
    /\ calls' = (calls \ {c}) \cup {Call("relist")}
    /\ UNCHANGED <<serverVars, panel, page, dialog, lapses, spent>>

ReloadFails(c) ==
    /\ c.op = "reload"
    /\ panel' = [panel EXCEPT !.reloading = FALSE]
    /\ calls' = calls \ {c}
    /\ UNCHANGED <<serverVars, page, dialog, lapses, spent>>

\* The rows are shown, and what their buttons allow.
Shown == panel.open /\ panel.data # Nothing /\ ~panel.loading /\ ~panel.error

MasterOff ==
    panel.data.definitions[AI_TOOLS_MASTER].default = Bool(FALSE)

\* FlagEditor takes the definition as it is when it opens.
Edit(f) ==
    /\ Shown /\ Clickable
    /\ f \in TOOL_FLAGS => ~MasterOff
    /\ panel' = [panel EXCEPT !.editing = f,
                              !.draft = panel.data.definitions[f]]
    /\ UNCHANGED <<serverVars, page, dialog, calls, lapses, spent>>

Not(v) == Bool(v = Bool(FALSE))

\* One change in the editor: the default, the rollout, a rule added, taken
\* out, given the other value or another role.
Changes(d) ==
    {[d EXCEPT !.default = Not(@)]}
    \cup {[d EXCEPT !.percentage = p] : p \in Percentages}
    \cup {[d EXCEPT !.rules =
              Append(@, [if |-> NoFields, value |-> Not(d.default)])]}
    \cup {[d EXCEPT !.rules = RemoveAt(@, i)] : i \in DOMAIN d.rules}
    \cup {[d EXCEPT !.rules[i].value = Not(@)] : i \in DOMAIN d.rules}
    \cup {[d EXCEPT !.rules[i].if["userRole"] = r] :
             i \in DOMAIN d.rules, r \in Roles \cup {Absent}}

Change ==
    /\ panel.editing # Nothing
    /\ spent.edits < MaxEdits
    /\ spent' = [spent EXCEPT !.edits = @ + 1]
    /\ \E d \in Changes(panel.draft) : panel' = [panel EXCEPT !.draft = d]
    /\ UNCHANGED <<serverVars, page, dialog, calls, lapses>>

\* The editor waits for its save, and can be cancelled meanwhile.
submit ==
    /\ panel.editing # Nothing
    /\ ~\E c \in Under("save") : c.dialog
    /\ Send([Call("save") EXCEPT !.flag = panel.editing,
                                 !.sent = panel.draft, !.dialog = TRUE])
    /\ UNCHANGED <<serverVars, panel, page, dialog, lapses>>

Closed(p) == [p EXCEPT !.editing = Nothing, !.draft = Nothing]

CancelEditor ==
    /\ panel.editing # Nothing
    /\ panel' = Closed(panel)
    /\ calls' = Detached("save", calls)
    /\ UNCHANGED <<serverVars, page, dialog, lapses, spent>>

\* Clear is offered for a customised flag that is no tool's.
clear(f) ==
    /\ Shown /\ Clickable
    /\ f \in panel.data.overriddenNames \ TOOL_FLAGS
    /\ Send([Call("clear") EXCEPT !.flag = f, !.dialog = TRUE])
    /\ UNCHANGED <<serverVars, panel, page, dialog, lapses>>

clearAll ==
    /\ panel.open /\ Clickable
    /\ panel.data # Nothing /\ panel.data.overriddenNames # {}
    /\ Send([Call("clearAll") EXCEPT !.dialog = TRUE])
    /\ UNCHANGED <<serverVars, panel, page, dialog, lapses>>

\* What follows the await of save, clear and clearAll. handleSave closes the
\* editor that is open, whether or not it is its own.
AfterWrite(p, c) == IF c.op = "save" THEN Closed(p) ELSE p

Left(c) ==
    IF c.op = "save" /\ c.mounted THEN Detached("save", calls \ {c})
    ELSE calls \ {c}

Written(c) ==
    /\ c.op \in FlagWrites /\ c.stage = "done"
    /\ IF c.mounted
       THEN /\ panel' = AfterWrite(applyResponse(panel, c), c)
            /\ Told(c, "flags")
       ELSE UNCHANGED <<panel, lapses>>
    /\ calls' = Left(c)
    /\ UNCHANGED <<serverVars, page, dialog, spent>>

\* Refused, or the answer was lost.
WriteFails(c) ==
    /\ c.op \in FlagWrites
    /\ panel' = IF c.mounted THEN AfterWrite(panel, c) ELSE panel
    /\ lapses' = IF c.mounted /\ c.stage = "done"
                 THEN lapses \cup {"flags"} ELSE lapses
    /\ calls' = Left(c)
    /\ UNCHANGED <<serverVars, page, dialog, spent>>

-----------------------------------------------------------------------------
(* The users page.                                                         *)

loadFirstPage ==
    /\ page.error /\ ~page.loading
    /\ page' = [page EXCEPT !.loading = TRUE, !.error = FALSE]
    /\ Send(Call("users"))
    /\ UNCHANGED <<serverVars, panel, dialog, lapses>>

FirstUsers(c) ==
    /\ c.op = "users" /\ c.stage = "done"
    /\ page' = [page EXCEPT !.list = c.answer.data, !.loading = FALSE,
                            !.cursor = c.answer.nextCursor,
                            !.hasMore = c.answer.hasMore]
    /\ Told(c, "users")
    /\ calls' = calls \ {c}
    /\ UNCHANGED <<serverVars, panel, dialog, spent>>

FirstUsersFail(c) ==
    /\ c.op = "users"
    /\ page' = [page EXCEPT !.loading = FALSE, !.error = TRUE]
    /\ calls' = calls \ {c}
    /\ UNCHANGED <<serverVars, panel, dialog, lapses, spent>>

PageShown == page.open /\ ~page.loading /\ ~page.error /\ page.list # <<>>

loadMore ==
    /\ PageShown /\ Clickable
    /\ page.hasMore /\ page.cursor # Nothing
    /\ Under("more") = {}
    /\ Send([Call("more") EXCEPT !.user = page.cursor])
    /\ UNCHANGED <<serverVars, panel, page, dialog, lapses>>

\* Mutant of MoreUsers: the page replaces the list.
MoreUsersOnly(c) ==
    /\ c.op = "more" /\ c.stage = "done"
    /\ page' = [page EXCEPT !.list = c.answer.data,
                            !.cursor = c.answer.nextCursor,
                            !.hasMore = c.answer.hasMore]
    /\ lapses' = IF c.fresh /\ c.user \in users
                 THEN lapses ELSE lapses \cup {"users"}
    /\ calls' = calls \ {c}
    /\ UNCHANGED <<serverVars, panel, dialog, spent>>

\* History: a page asked for from a user who is gone is empty, and what
\* comes after it is lost.
MoreUsers(c) ==
    /\ c.op = "more" /\ c.stage = "done"
    /\ page' = [page EXCEPT !.list = @ \o c.answer.data,
                            !.cursor = c.answer.nextCursor,
                            !.hasMore = c.answer.hasMore]
    /\ lapses' = IF c.fresh /\ c.user \in users
                 THEN lapses ELSE lapses \cup {"users"}
    /\ calls' = calls \ {c}
    /\ UNCHANGED <<serverVars, panel, dialog, spent>>

MoreUsersFail(c) ==
    /\ c.op = "more"
    /\ calls' = calls \ {c}
    /\ UNCHANGED <<serverVars, panel, page, dialog, lapses, spent>>

handleDelete(u) ==
    /\ PageShown /\ Clickable
    /\ u \in ToSet(page.list) /\ u # Self
    /\ Send([Call("delete") EXCEPT !.user = u, !.dialog = TRUE])
    /\ UNCHANGED <<serverVars, panel, page, dialog, lapses>>

Deleted(c) ==
    /\ c.op = "delete" /\ c.stage = "done"
    /\ page' = IF c.mounted
               THEN [page EXCEPT !.list = Filter(@, ToSet(@) \ {c.user})]
               ELSE page
    /\ calls' = calls \ {c}
    /\ UNCHANGED <<serverVars, panel, dialog, lapses, spent>>

DeleteFails(c) ==
    /\ c.op = "delete"
    /\ lapses' = IF c.mounted /\ c.stage = "done"
                 THEN lapses \cup {"users"} ELSE lapses
    /\ calls' = calls \ {c}
    /\ UNCHANGED <<serverVars, panel, page, dialog, spent>>

-----------------------------------------------------------------------------
(* The dialog of one user's overrides.                                     *)

OpenOverrides(u) ==
    /\ PageShown /\ Clickable
    /\ u \in ToSet(page.list)
    /\ dialog' = [NoDialog EXCEPT !.user = u]
    /\ Send([Call("read") EXCEPT !.user = u])
    /\ UNCHANGED <<serverVars, panel, page, lapses>>

\* The row of a flag, with the values it starts from.
Row(d, u) ==
    LET mine == findUserRule(d, u)
        value == IF mine = {} THEN d.default ELSE d.rules[First(mine)].value
    IN  [enabled |-> mine # {}, value |-> value,
         initial |-> [enabled |-> mine # {}, value |-> value]]

ReadOverrides(c) ==
    /\ c.op = "read" /\ c.stage = "done"
    /\ dialog' =
          [dialog EXCEPT
              !.definitions = c.answer.definitions,
              !.rows = [f \in Flags |->
                           Row(c.answer.definitions[f], dialog.user)]]
    /\ calls' = calls \ {c}
    /\ UNCHANGED <<serverVars, panel, page, lapses, spent>>

\* A toast; the dialog stays as it is.
ReadFails(c) ==
    /\ c.op = "read"
    /\ calls' = calls \ {c}
    /\ UNCHANGED <<serverVars, panel, page, dialog, lapses, spent>>

masterEffective ==
    LET m == dialog.rows[AI_TOOLS_MASTER]
    IN  Bool(TRUE) = IF m.enabled THEN m.value
                     ELSE dialog.definitions[AI_TOOLS_MASTER].default

\* Inherit keeps the value; on and off set it.
Selected(row) ==
    {[row EXCEPT !.enabled = FALSE]}
    \cup {[row EXCEPT !.enabled = TRUE, !.value = Bool(b)] : b \in BOOLEAN}

setRow(f) ==
    /\ dialog.rows # Nothing
    /\ f \in TOOL_FLAGS => masterEffective
    /\ spent.edits < MaxEdits
    /\ spent' = [spent EXCEPT !.edits = @ + 1]
    /\ \E row \in Selected(dialog.rows[f]) :
          dialog' = [dialog EXCEPT !.rows[f] = row]
    /\ UNCHANGED <<serverVars, panel, page, calls, lapses>>

Dirty(row) ==
    \/ row.enabled # row.initial.enabled
    \/ row.enabled /\ row.value # row.initial.value

dirtyFlags == {f \in Flags : Dirty(dialog.rows[f])}

\* One request per flag, each from the definitions the dialog has read.
saveOverrides ==
    /\ dialog.rows # Nothing /\ dirtyFlags # {}
    /\ ~\E c \in Under("override") : c.dialog
    /\ Send([Call("override") EXCEPT
                !.user = dialog.user, !.todo = dirtyFlags, !.dialog = TRUE,
                !.sent = [definitions |-> dialog.definitions,
                          rows |-> dialog.rows]])
    /\ UNCHANGED <<serverVars, panel, page, dialog, lapses>>

\* The read is cancelled with the dialog; the loop goes on.
CloseOverrides ==
    /\ dialog.user # Nothing
    /\ dialog' = NoDialog
    /\ calls' = Detached("override", calls \ Under("read"))
    /\ UNCHANGED <<serverVars, panel, page, lapses, spent>>

Overridden(c) ==
    /\ c.op = "override" /\ c.stage = "done"
    /\ c.todo # {NextFlag(c.todo)}
    /\ calls' = (calls \ {c}) \cup
                    {[c EXCEPT !.todo = @ \ {NextFlag(@)}, !.stage = "sent",
                               !.answer = Nothing, !.fresh = TRUE]}
    /\ UNCHANGED <<serverVars, panel, page, dialog, lapses, spent>>

\* onSaved closes the dialog that is open, whoever's it is.
OverridesSaved(c) ==
    /\ c.op = "override" /\ c.stage = "done"
    /\ c.todo = {NextFlag(c.todo)}
    /\ IF c.mounted
       THEN /\ dialog' = NoDialog
            /\ calls' = Detached("override", calls \ (Under("read") \cup {c}))
       ELSE calls' = calls \ {c} /\ UNCHANGED dialog
    /\ UNCHANGED <<serverVars, panel, page, lapses, spent>>

\* The loop ends at the first failure; its dialog stays open.
OverrideFails(c) ==
    /\ c.op = "override"
    /\ calls' = calls \ {c}
    /\ UNCHANGED <<serverVars, panel, page, dialog, lapses, spent>>

-----------------------------------------------------------------------------
(* Outside the window: another administrator edits, clears or deletes, and *)
(* people register.                                                        *)

Foreign ==
    /\ spent.foreign < MaxForeign
    /\ spent' = [spent EXCEPT !.foreign = @ + 1]
    /\ \/ /\ \E f \in Flags :
                \E d \in Stored \cup {Nothing} :
                   override' = [override EXCEPT ![f] = d]
          /\ UNCHANGED users
       \/ /\ \/ \E u \in users \ {Self} : users' = users \ {u}
             \/ \E i \in DOMAIN Accounts :
                   /\ \A j \in 1..i : Accounts[j] \notin users
                   /\ users' = users \cup {Accounts[i]}
          /\ UNCHANGED override
    /\ calls' = Aged(calls)
    /\ lapses' = lapses \cup {"flags", "users"}
    /\ UNCHANGED <<panel, page, dialog>>

Next ==
    \/ \E tab \in {"flags", "users"} : Visit(tab)
    \/ retry \/ reload \/ Change \/ submit \/ CancelEditor \/ clearAll
    \/ \E f \in Flags : Edit(f) \/ clear(f) \/ setRow(f)
    \/ loadFirstPage \/ loadMore \/ saveOverrides \/ CloseOverrides
    \/ \E u \in ToSet(Accounts) : handleDelete(u) \/ OpenOverrides(u)
    \/ \E c \in calls :
          \/ ServeRead(c) \/ ServeFlagWrite(c) \/ ServeDelete(c)
          \/ Listed(c) \/ ListFails(c) \/ Reloaded(c) \/ ReloadFails(c)
          \/ Written(c) \/ WriteFails(c)
          \/ FirstUsers(c) \/ FirstUsersFail(c)
          \/ MoreUsers(c) \/ MoreUsersFail(c) \/ Deleted(c) \/ DeleteFails(c)
          \/ ReadOverrides(c) \/ ReadFails(c)
          \/ Overridden(c) \/ OverridesSaved(c) \/ OverrideFails(c)
    \/ Foreign

Spec == Init /\ [][Next]_vars

-----------------------------------------------------------------------------
\* Safety: when the flags page waits for nothing, it shows the server's
\* definitions and badges, or an error card, never an endless skeleton;
\* unless a change was made elsewhere, an answer was lost or an answer was
\* overtaken by a later change, and no up-to-date answer has come since.
PanelIsCurrent ==
    (panel.open /\ \A c \in calls : c.mounted => c.op \notin PanelCalls) =>
        /\ ~panel.loading /\ ~panel.reloading
        /\ panel.error \/ panel.data # Nothing
        /\ (panel.data # Nothing /\ "flags" \notin lapses) =>
               panel.data = Catalog

\* Safety: in the same sense, the users page shows the newest users without
\* a gap, and offers more exactly if there are more.
UsersAreListed ==
    (PageShown /\ Under("more") \cup Under("delete") = {}
     /\ "users" \notin lapses) =>
        LET rows == Filter(Accounts, users)
        IN  /\ IsPrefix(page.list, rows)
            /\ page.hasMore <=> Len(page.list) < Len(rows)

Contexts ==
    [ContextKeys -> {Absent}] \cup
    {[NoFields EXCEPT !["userId"] = u, !["userRole"] = r] :
        u \in ToSet(Accounts), r \in {"user", "admin"}}

\* Safety, of steps: saving one user's override of a flag that nobody has
\* changed since the dialog read it leaves the flag's value as it was for
\* everyone else, in every context, whatever other rules and rollout it has;
\* and a first override decides for the user in every context.
OverridesTouchOneUser ==
    [][\A c \in calls :
          (c.op = "override" /\ ServeFlagWrite(c)) =>
             LET f == NextFlag(c.todo)
                 read == c.sent.definitions[f]
                 row == c.sent.rows[f]
                 mine == findUserRule(read, c.user)
             IN  read = Definition(f) =>
                   \A ctx \in Contexts :
                      LET now == evaluateFlag(f, override'[f], ctx)
                      IN  IF ctx["userId"] # c.user
                          THEN now = evaluateFlag(f, read, ctx)
                          ELSE row.enabled /\ mine = {} => now = row.value
      ]_vars
=============================================================================
