# Verification of fluxchat

fluxchat is a chat backend (Express, Prisma, a set of AI providers behind one
interface, feature flags) with a React client. This directory holds TLA+ models
of its parts, the TLC configurations that check them on small instances, and
TLAPS proofs that carry the main results to every instance. Paths below are
relative to the repository; its application code lives in `src/` (the backend)
and `frontend/src/` (the client). `PROJECT.json` maps every definition to the lines it
models and lists runs, mutants, hazards and theorems. Where the code has a gap at a
hazard's line, the property names it as an exception and the hazard's note says so:
what is shown is that nothing else goes wrong.

## How to read and run it

- A component is one module (`ChatStore`, `Completion`, `FlagService`, ...); a
  module named `MC...` gives its constants values for TLC; a module named
  `...Inductive` or `...Proofs` holds invariants and proofs.
- `tlc -config MCCompletionRaces.cfg MCCompletionRaces` runs one configuration.
- `tlapm CompletionProofs.tla` checks the proofs of one module.
- A definition under the comment "Mutant of ..." is not part of the model. It is
  a plausible bug; a property is listed with the mutant that breaks it.

## The system

### Components, their state and operations

| Component | State | Operations | Status |
|---|---|---|---|
| Chat storage (`modules/chat/adapters/persistence`) | tables `users`, `chats`, `messages` | insert, delete and window query of messages; create, tombstone, ownership query of chats; account cascade; archive and the two list queries | `ChatStore`, `ChatLists` |
| Completion and regenerate (`modules/chat/application`, `chat.controller.ts`) | per request: stage, prompt row, context, streamed text, abort signal, SSE stream and its heartbeat | ensureOwnership, save prompt, read window, drop stale answers, JSON and streaming strategies, SSE pump | `Completion`, `Conversation` |
| AI providers (`infrastructure/ai`) | one generator per request: its turn, text, tool calls | thinking, deltas, tool turns, done, failure; fallback chain | `ProviderChain`, an implementation of `AnswerStream`; as seen by a request, `Completion` |
| AI tools (`infrastructure/ai/tools`) | none | offer the enabled ones, validate and run one call | `ProviderChain` |
| Feature flags (`shared/feature-flags`) | per process: merged definitions and the names overridden; shared: override table, flags file | start-up, get, setOverride, clearOverride(s), reload (SIGHUP, endpoint, after a write) | `FlagDefinition`, `FlagService` |
| Rate limiting (`shared/rate-limit`) | buckets in memory, or counters in Redis | consume, refill, eviction; INCR, PEXPIRE, PTTL | `Gateway` |
| Accounts (`modules/auth`, `modules/user`, `modules/admin`) | `users` rows, signed tokens | register, login, current user, list, delete | `Accounts`; cascade in `ChatStore` |
| Browser client, chat stream (`frontend/src/hooks`) | messages, pending text, the running abort controller | send, regenerate, cancel, apply event, commit | `ChatPage` |
| Browser client, session (`frontend/src/store`, `api/client.ts`, `App.tsx`) | persisted token and user, the guard's `/me`, flags and their refresh in flight | sign in, register, log out, reload, 401 of any request, refresh | `Session` over `Accounts` |
| Browser client, chat lists (`chat-sidebar`, `pages/archived`) | rows, cursor, loads under way, removals to undo | first page, load more, archive, restore, delete | `ChatLists` |
| Browser client, admin pages (`pages/admin`) | the panel's data and editor; users and cursor; one user's overrides and their save loop | list, reload, update, clear, load more, delete, save | `AdminPages`, in part |
| HTTP shell (`app.ts`, `server.ts`, guards) | phase of the process, shutdowns under way | guards, start, shutdown, exit | `Gateway`, in part |
| OpenAPI documents, UI components | none | declarations, rendering | not modelled |

### How they interact

An HTTP request passes authentication, the rate limiter and the flag guards, and
reaches a controller. A completion goes from the controller into a use case,
which asks the chat tables whether the caller owns the chat, writes the prompt,
reads the last messages and hands the provider's generator to a strategy. In
streaming mode the strategy is itself a generator that the controller pumps into
the SSE response; the strategy writes the answer when the provider says `done`,
or in its catch block. The abort signal is set by the socket and looked at by
the provider (before each delta) and by the pump (after each event). Accounts
meet the chats only through the foreign keys. Flags are read synchronously
from the process's memory; every process shares one override table.

### What is hard

- Nothing locks a chat: two completions or regenerates, a deletion of the chat
  and a removal of the account interleave at every await.
- The strategy's write and its catch block's write are two attempts at one row;
  the database may commit and report a failure.
- Abort, provider failure and a tool in flight meet in three places that each
  have their own idea of who cleans up.
- A reload of the flags reads two sources at different moments and installs at
  a third; several reloads overlap in one process, several processes share the
  table, and one may be restarted in between.
- Client code holds state across awaits that another click may have changed:
  a history, a stream, a `/me` or a refresh of flags that is answered after the
  chat or the session it was asked for has been left; a page of a list, a list
  to roll back to, or the definitions a dialog saves, when rows and definitions
  have changed since.
- A provider may fail, and its client leave, between any two events of a stream
  and while its tools run; another provider may take over.
- The Redis limiter is two commands with a process in between that may end, and
  a driver that repeats what it got no answer to.

### What makes each component correct

- Chat storage and completion: rows never cross tenants or survive their chat;
  a refused request writes nothing; what the client was told is complete is
  stored; a request asks once and answers once; its prompt is never deleted by
  somebody else's regenerate; every request ends.
- Feature flags: a process serves one state of each source, within the bounds
  the documentation states; an answered update is served from then on; reloads
  do not go back.
- Rate limiting: a window admits what it may, a refusal is earned, a caller
  that waits as told finds its bucket refilled, counters expire.
- Providers: one of them is heard per answer, `done` tells what was streamed,
  every tool call is answered, nobody is asked for an absent client, calls end.
- Accounts: an administrator is left; an address belongs to one account.
- Lists: the pages on the screen are a prefix of the server's list, each row
  once; what has left a list does not come back.
- Admin pages: a panel shows the state of the last answer; saving one user's
  override changes nobody else's flags.
- Client: what is on the screen belongs to the chat, the run and the session
  that are open; what was left changes nothing of it.

## Modules and the code

### `ChatStore`

The tables. A message row keeps its place in `createdAt` order (`id`), its chat,
its role, the request that wrote it (`by`, for the properties) and the number of
non-blank deltas it holds (`text`). `written` is a history variable: all rows
ever committed. `Owns` is `findByIdForUser`, `LastMessages` is `findLastN`,
`InsertRow`, `DeleteRow`, `CreateChat`, `DeleteChat` and `RemoveUser` are the
repository's writes. A chat tombstoned after the ownership check still takes
messages (its row exists); one whose account is gone does not (foreign key).

### `Completion`

One process per request. `pc` names the await a request stands at:

| pc | code |
|---|---|
| checking | `ensureOwnership` |
| prompting, reading | `run-completion.use-case.ts`: save the user row, `buildModelHistory` |
| scanning, dropping | `regenerate-completion.use-case.ts`: read the window, `dropTrailingAssistantMessages` one row at a time |
| building | choice of the strategy |
| completing, saving | JSON strategy |
| opening, streaming, tool, persisting, salvaging | streaming strategy under the controller's pump |
| ended | the response is over; `outcome` says how |

A step is the code from one await to the next. That is sound because Node runs
one continuation at a time. A delta is a single step for a reason worth knowing:
the provider looks at the signal before it yields, and nothing else can run
until the pump has written the event. A tool call is awaited between those two
points and is two steps; that is the whole of the `abort_gap` finding below.

Every database write has three outcomes: done, failed, and committed but
reported as failed (`...Unacked`, `lost`). `Disconnect` sets the signal at any
time; `Crash` ends a request at any time.

### `Conversation`

The promise to the client, in four stages (new, asked, answered, over):
a request asks at most once, may retract answers newer than its question,
answers its own question in the question's chat, and writes nothing once it is
over. `ImplementsConversation` maps `Completion` onto it with
`stage <- Stage(r)` and `question <- prompt`.

### `FlagDefinition`

The pure part: parser, clamping, code defaults, rules, rollout. JSON numbers
count halves, so that 2.5 and 0.5 exist. The hash of the rollout is a constant
function (`BucketFor`) into 0..99. A list of rules keeps the positions of its
entries; one the parser skips leaves a gap, which a first match cannot see.

### `FlagService`

Calls (updates, clears, reloads) run in processes (`Servers`). `tables` and
`files` are the histories of both sources, so that "which state was read" is an
index. An update from its arrival to the database's commit is one step, because
it reads nothing another call could change; then `ReloadAfterWrite` reads the
file and asks for the rows, `QueryTable` is the database's answer, and `Install`
is the assignment of `this.flags` and the set of overridden names. `Crash` loses
memory and running calls; `StartProcess` is the constructor, `BootReload` the
reload before `listen()`. Initially every process is up and has loaded the first
state of both sources.

### `ChatPage`

One mounted `ChatPage` component against the tables of the server. `route` is
the `:chatId` of the URL, `messages`, `loading`, `error` and the load under way
(`fetch`, `page`) are `useChatHistory`; `pendingOf`, `pendingFrom`, `busy` and
`abortRef` are `useChatStream`. A call of `handleSend` or `handleRegenerate` is a
member of `Runs` and goes through creating (`createChat`), streaming and closing
(after `done`). `Open` is a click on another chat, with the cleanup and the new
effect that React runs; `SkipHistory` is the path of a chat that `handleSend` has
just made. A text is the set of runs whose deltas it holds, which is what the
properties tell apart; answers without a single delta are left out. `got` and
`store` are the server's side in brief: prompt, answer, or failure, with or
without the client listening. `lapses` notes what went wrong since the page was
opened, so that each property can say under which circumstances it holds:
`overlap` (a call made while another waits for its chat), `strayed` (the user
moved on under a running call), `unloaded` and `skeleton` (a send before the
history was there), `broken` (a failure or a stop), `dropped` (a regenerate
that React's deferred updater forgets, or whose dropped answer is not what the
server drops, `DropsTheSame`), `cut` (a history longer than the page).
Other pages, which unmount this one, are left out. An abort rejects the read on
the spot.

### `Accounts`

The table of users (`users`, `email`, `role`), the calls on it and the tokens. A
call's `pc` names the await it stands at: `sent` (its first query), `hashing`
(`bcrypt.hash`, then the insert), `comparing` (`bcrypt.compare`), `counting`
(`countByRole`), `deleting` (`deleteMany`). `read` is the row it has in hand. A
token is named by the call that got it; its claims are what `AuthTokenIssuer`
signed, and `Valid` is the middleware, which never looks at the table.
Registration checks the address, hashes, and inserts under the unique index; a
deletion reads its target, counts administrators, and deletes without a second
look. Ids are uuids and never given twice. Roles change by SQL alone
(`README.md:336-337`): `SetRole` is that operator, who leaves an administrator.

### `Session`

One browser tab over `Accounts`. `session` and `shown` are the token and the user
of `useAuthStore`, which survive a reload; `validating` and `me` are the guard of
the protected pages (`ProtectedRoute`) and the `/me` its effect has not
cancelled; `submitted` are forms under way, calls of `Accounts`; `requests` are
the tab's other requests, each with the token it carries and its answer;
`refreshing` and `flagsOf` are `inflight` and the owner of the snapshot in
`useFlagsStore`. `SessionExpired` is what every 401 to an authenticated request
does: it clears the store and loads `/login`, in one step. A page that has been
served is done with; what lists show is not part of this module.

### `Gateway`

The way of a request to its handler, which is opaque here. `Passes` is the guards
of its class of routes, `BuildKey` and `LimitOf` what `wire-app.ts` gives the
limiter, `req` where each request stands. The memory store has no await and is one
step with the arrival (`ConsumeMemory`: stale buckets go, then the oldest beyond
`MaxBuckets`, then the caller's is found, refilled or made). The Redis store is
`Incr`, then `FirstHit` (PEXPIRE), `LaterHit` or `OverLimit` (PTTL), each the
execution of one command. `Resend` is ioredis repeating INCR; a command may fail
(`RedisFails`), and a process may be told to stop (`Shutdown`, `Release`, `Exit`,
as in `server.ts`, where two signals run two shutdowns side by side) or be
killed. Window edges are multiples of `Window` on one clock.

### `AnswerStream` and `ProviderChain`

`AnswerStream` is the promise of `IAiProvider.stream`: deltas and tool results of
one speaker, then at most one `done`, which tells the text. `ProviderChain` is what
keeps it: `Chain` is the wiring of the container, `Throw` the composite's fallback,
`Turn...` and `FinalMessage` Anthropic's loop in a stream, `Part...` and `Usage` the
AI SDK's, `Mock...` the mock, and `Reply...` the three without a stream. `Settle` is a
tool's answer, an error among them. `Enter`, `Ask` and `Reply` are where a model is
asked. The pump's look at the signal after an event is `Pumped`. Of a text the
number of deltas is kept.

### `Lists`

What `filter` leaves of a list (`Filter`) and a set in the order of a query
(`Descending`), for the two modules below. They say what the library's `SelectSeq`
and sorts say, through the k-th smallest of a set (`Nth`) in place of recursion, so
that proofs can unfold them.

### `ChatLists`

The server's `place` of each chat and its paged lists (`findByUser`, the cursor
with `skip: 1`); `side`, `first` and `more` are `useChatList` and its two loads,
`arch...` the same of `useArchivedChats`, which is unmounted when its page is left;
`acts` are the requests that change a chat, with what their catch blocks put back;
each carries a number, so that two alike are two. Archive and delete of the sidebar
go through its dialog: `AskToRemove` opens it (`confirm`), `KeepIt` or
`RemoveFromSidebar` closes or confirms it, and what arrives in between may take the
row, or the list, off the screen. A dialog is modal and stays until its request is
answered, so the menu that `pendingDelete` disables cannot be reached anyway; nothing
else keeps requests apart. A restore and a create have no dialog, and
`handleSend` sets `busy` only after `createChat` has answered: creates overlap, and a
chat may be archived or deleted here while a request for it is under way.
The first page is asked for again after every change the window makes
(`refreshNonce`), and its effect's cleanup forgets the load before; "Load more"
has no cleanup. `lapses` notes what the window cannot know (another window's change,
a lost answer) or has mixed (a further page that was asked for before a first page
came), and is cleared by a first page that was read after all of it.

### `AdminPages`

One administrator's window over the admin API: the flags page (`panel`, with the
editor on it), the users page (`page`) and the dialog of one user's overrides
(`dialog`), each with the requests it waits for in `calls`. A request outlives the
page that sent it (`mounted`). `Change`, `submit` and `setRow` are the editor's and
the dialog's buttons; `saveOverrides` starts a loop that sends one flag after the
other (`todo` is what is left, `NextFlag` its order), each a whole definition made
by `applyOverride` from the one read when the dialog was opened. `FlagDefinition` gives the definitions their meaning. The flags
are boolean ones. A write and the reload it awaits are one step here; what can
come between them is `FlagService`'s.

## Runs

| Run | Question | Bounds, and why they are enough |
|---|---|---|
| tenants | Do rows cross accounts, survive their chat, or come from a refused request? Is every step one of `Conversation`? | 2 accounts, 2 chats, 2 requests of either kind, from empty tables: a violation needs one foreign account, one foreign chat, one rival. A window of 2 rows, smaller than a conversation, so that prompts fall out of it. No tools: they write nothing. |
| races | What do two requests do to each other and to a finished turn? | Starts after one request has run alone (question and answer stored), then 2 rivals, 2 deltas, 1 tool call, window of 4 rows: a regenerate has something to delete, a rival to delete it first, and a stream can break between two deltas. |
| live | Does every request end? | 1 seeded and 1 live request, 3 deltas, 3 tools; liveness is per request, and a rival can only take rows from it. |
| abort_gap | see findings | 1 chat, 2 requests |
| flags | Is what is served one state of each source, and within bounds? Can an answered update be hidden, or an older table come back? | 2 processes, 2 calls, 1 edit of the file, failures and restarts: two overlapping reloads and the update they hide. One boolean, the page-size and the rate flag; JSON out of bounds, fractional, with unusable rules, and meant for another flag. |
| chat_page | Does the page show the chat that is open, what was sent to it, and in the end what the server has? | 3 chats (one filled before, two to make), 2 calls besides the one before, a page of 4 rows: two calls can overlap, a third chat can be opened under them, and a history outgrows its page. |
| accounts | Do addresses stay unique, tokens true, and an administrator left? | 3 ids, 2 addresses, 2 tokens of before, 2 calls, any role changed by SQL: two registrations of one address, two administrators who delete each other, a token whose account is gone. |
| session | Does a late answer of one session reach the next? | 2 ids, 2 addresses, 1 token of before, 2 forms, 1 page request; no SQL: three sessions one after the other, two of them of one account or of two. |
| gateway | Does a window admit its limit, is a refusal earned, a wait enough, and does a counter expire? | 3 requests of one caller, limits 1 and 2, windows of 2 ticks, 3 ticks, room for 1 bucket, 1 process that is restarted once or sends a command again: a limit can be reached and passed, a bucket be thrown out or outlive its window, an INCR come after its window's end, a process end between two commands. |
| provider_chain | Does every chain of providers keep `AnswerStream`, answer every tool call, stop for an absent client, and end? | 5 deployments, streamed or not, 2 tools and an unheard name, 3 turns of at most 1 delta and 2 calls: the loop's limit is reached, two calls settle out of order, and the primary fails before and after it was heard. |
| chat_lists | Do the sidebar and the archive page end as the server's lists? | 2 chats and two to make, pages of 1 or 2 rows (the limit may change between two pages), 2 changes (one that a dialog asks about counts) of which at most 1 in another window, 2 further pages and 1 visit of the archive: a list can take three pages, a page can be in flight across two changes, two creates can overlap, and a chat that is being restored can be deleted. |
| admin_pages | Does the panel show the last answer, the users page the users, and a save one user's change? | 2 flags, 3 users, pages of 1 user, a stored definition with a role rule, a user rule and a rollout; 4 steps of clicks, edits, changes of tab and other administrators: three requests answered in any order, or an override saved flag by flag while another administrator writes. |

Symmetry is used over users, chats, requests, processes, calls, ids and addresses
where the run checks no liveness and the seed does not name them. The bounds `MaxDeltas`,
`MaxTools` and `MaxEdits` appear in the guards of `Delta`, `AiCompletes`,
`CallTool` and `EditFile` only. Deadlock is not checked: a finite set of requests
or calls is used up, and the system then rightly stops. `PageLimit` is the rows of a
history the server sends, `Regraded` names the rows whose role SQL may change,
`MaxRequests` bounds the page requests under way in a tab. `MaxText` and `MaxUses`
appear in the guards of deltas and tool calls; `MaxTime` in that of
`Tick`, `MaxFaults` (restarts and commands sent again, together) in those of `Listen`
and `Resend`; the bounds on clicks, edits, visits and
other windows' changes in those of the actions they name. `FewChanges` and
`FewSteps` are state constraints on the sum of such bounds, no property is about
liveness under them.

### Fairness

`FairSpec` has weak fairness of `ServerStep(r)` for each request: Node resumes a
continuation whose await has settled, and the driver, the provider's SDK and the
tools settle every call they are given, by a result, an error or a timeout.
Nothing is assumed of the client, of administrators, or of crashes. A model that
called a tool for ever is cut off in the code by `MAX_TOOL_ITERATIONS`, in the
model by `MaxTools`. `ProviderChain` has weak fairness of `Proceed`, every step but
the client's leaving, for the same reason; its limit on turns is the code's.

### Findings

- **abort_gap**: `streaming-completion.strategy.ts:56-60` says text that already
  streamed is saved on a provider error, an abort or a network drop. When the
  client goes away while a tool is awaited, the pump leaves its loop on the
  tool's event; the generator is closed by `return()`, its catch block does not
  run, and the text is lost. `StreamedTextIsKept` states, and the proofs show,
  that this is the only gap.
Other places where a comment or a document promises more than the code gives
have no run of their own; most are the exceptions that a property states.

Completion and accounts:

- `message-persistence.policy.ts:81-84` says the slice drops the user row just
  inserted; it drops the newest row read, which is a rival's if one was written
  in between, and the prompt is then sent to the model twice
  (`ContextPrecedesPrompt`).
- `delete-user-admin.use-case.ts:21-27` says the last administrator cannot be
  deleted; two deletions that both counted before either deleted leave none
  (`LastAdminStays`).

Flags, session and chat page:

- `feature-flag.service.ts:178-179` says every `get()` after an update sees the new
  value. A reload that was already under way may install the older rows
  afterwards; `OnlyARivalHidesAWrite` states that nothing else can.
- `flags-store.ts:53-56` says flags are fetched again whenever the token changes. A
  refresh in flight is joined whatever token it carries; `FlagsAreTheSessions`
  states that only this, and a failed refresh, leave another session's flags.
- `use-chat-history.ts:25-27` says a chat that was just made skips its load so that
  the question survives the change of route. If another chat was left while its
  history was loading, `loadingHistory` stays set, and the new chat is behind
  the skeleton (`QuestionStaysShown` excepts it as "skeleton").

Providers:

- `ai.provider.ts:12-16` says a stream may begin with one `thinking`; after a
  fallback there are two.
- `tools/types.ts:20-30` says a tool's work stops when the client disconnects;
  `search_web` looks at its own timer alone.
- The providers on the AI SDK make a single step, so a turn that calls a tool may
  end with an empty text. The mock ends without `done` when the client leaves
  between its tool and its words.
- `README.md:27,375` gives `buildFastProvider` a use; no use case asks for it.

Rate limits:

- `README.md:204,397`, `rate-limit.ts:42` and `flag-meta.ts:71` say "per-route,
  per-user"; the key names the user, and with it all routes of its class of keys
  share one bucket.
- The comment of `redis.store.ts` says the count is atomic; `CountersExpire` lists
  the ways in which a counter stays without an expiry.
- A rate of 0.5 is legal JSON and is floored to 0.

Lists and admin pages:

- A "Load more" that lands after a refetch leaves a gap or a row twice (lapse
  "mixed"); a removal that fails puts its row at the head, or the list as it was
  at the click; a cursor whose row was archived elsewhere makes the next page
  skip a live row, one whose user was deleted makes it come back empty for good.
- `README.md:316-322` says a user's override goes to the top of the rules, so that
  it beats roles; `applyOverride` replaces a rule the user already has where it
  is, which may be behind a role's. `OverridesTouchOneUser` therefore claims
  precedence only for a first override.
- The editor and the dialog can be closed while they save, and a save that ends
  closes whichever is open then, unsaved changes included. A definition is saved
  as a whole from what was read at opening, and so undoes what another
  administrator, or the loop of a dialog closed before, has written since.

## Proofs

All theorems hold for arbitrary sets of users, chats, requests, processes, calls
and flags and any bounds, under the assumptions the modules name.
`NoneAssumption` says that `None` is not an account or a chat,
`HistoryLimitAssumption` and `BoundsAssumption` that bounds are numbers, and the
ones of `FlagDefinition` and `FlagService` that constants have their types and
that the hash is in 0..99. `ChainAssumption` and `GatewayAssumption` say that limits
and bounds are numbers, that a tool's name is not the unknown one, that requests
are finitely many, and that `None` is none of the values it stands beside (the two
verdicts among them). `DefinitionsAssumption` of `AdminPages` says that what other
administrators store are definitions, that rollouts are at most 100, that the
model values for "nothing" are apart, and that no two accounts have one id
(`schema.prisma`: a primary key); `ChatPageAssumption` that `None` is apart.
`ChatListsAssumption` says that counts and bounds are numbers and that a page
has room for a row.

**Completion.** `CompletionProofs` proves `TypeOK` (with `Addressed`: a
request past "idle" names a chat) and `IndInv`. No property is inductive alone:
"an answer has its prompt" needs that no regenerate may delete a prompt, which
needs that its list holds only answers (`Marked`), that ids identify rows
(`Ledger`), and that a request has one prompt (`Asked`). `Answering` says where
a request can have an answer row at all; `Access` and `Reading` carry ownership
and the context from the check to their use. Ten properties follow from it; two need one more invariant each (`ReplyInv`: how a response
ended against what was written; `ThreadInv`: prompts and answers in the table).
`Implements` shows that the initial states of `Completion` are
initial in `Conversation` and each step is a step or a stutter of it.

**Flags.** `FlagProofs` first shows of `FlagDefinition` that whatever the parser accepts is
legal, that a legal definition evaluates to a legal value in every context
(through the first matching rule, the rollout or the default), and that raising
a percentage takes nobody out of a rollout. Then it proves `FlagInv`:
what a process holds is what its last reload read (`Holds`); two reloads under
way in one process overlap (`Overlap`); one that does not overlap an earlier one
reads the table after it (`Ordered`); one that began after a write reads it
(`ReadAfter`), and so does the one being served (`ServedAfter`). All five
properties of the service follow.

**Accounts and session.** `SessionProofs` proves `AccountsInv`: where a call
stands says what it asks for (`Requested`), tokens are given once (`Granted`),
ids that are held are never given again (`Known`), what is held of a row agrees
with it until SQL says otherwise (`Faithful`), and a deletion that was not
overtaken leaves another administrator (`NotTheLast`, which needs that two were
counted). The three properties of the server follow. Every step of `Session` is
one of `Accounts` or leaves it alone (`SessionIsOfAccounts`), so they hold behind
the tab too. `SessionInv` adds that an answer of `/me` is about the account of
the token it was asked with (`Truthful`, which rests on `Faithful`), that the
guard waits for the open session (`Guarded`), and that one refresh is in flight
(`OneRefresh`). `AccountsAssumption` says the set of ids is finite and `None`
is none of the values it stands beside.

**Providers.** `ProviderChainProofs` proves `ChainInv` for any deployments, tools,
turns and lengths of answers: a JSON request has no signal and no events
(`Modes`), a tool that was called is running or has answered (`Balanced`), what
was heard came from the provider at work and commits the composite to it
(`Heard`), and that provider counts the text that was sent (`Tallied`).
`EveryUseIsAnswered` needs `Balanced`, `NoRequestAfterAbort` needs `Modes`, and
the refinement needs the last two: without `Heard` a second speaker could follow
the first, without `Tallied` `done` could tell less than was said.
`ImplementsAnswerStream` then maps every step to one of `AnswerStream` or a
stutter: the entry of a provider to a stutter or the reader's leaving, a delta to
`Say`, a tool's result to `Show`, the stream's end to `Finish`.

**Gateway.** `GatewayProofs` proves the types of its state and `CountersExpire`
for both stores, any limits and any numbers of requests, processes and callers.
What it adds (`Asking`) is that a request between its Redis commands has no
answer yet and that one which has not arrived has sent nothing, so that who is
to blame for a counter without a time stays so. `RateLimitInv` then carries the
budget, the refusals and `Retry-After`. Of a bucket in memory it says what the
cardinalities of the requests let through say: since it was filled no more than
the limit with what is left in it, no more in the window before (`Filled`), and
none is missing that nobody was given (`Spent`); two such buckets one after the
other make the factor of two (`Spaced`). Of a counter in Redis it says that at
most as many were let through as were counted (`Counts`), that no reply exceeds
the commands executed (`Replies`), and that it expires after its window
(`Expiry`). What a refused caller was told holds as long as its bucket does
(`Promised`). The proof found that `WaitingIsEnough` needs an exception its run
was too small to show: with room for fewer buckets than callers, the bucket of a
refused caller is thrown out, and the new one may be empty again when the time is
over.

**Chat page.** `ChatPageProofs` proves `PageInv` for any number of chats and calls
and any page length. Calls: the stream on the page is the one that `abortRef` can
stop (`Stream`), and without an overlapping call it is alone and owns the pending
text (`OneStream`); every message is of one call (`Unmixed`) that has begun and
has its chat (`Placed`, `Filled`). Places: `Loader` says where a history load can
stand, `AtHome` that nothing on the page is of another chat while nobody has
strayed, `Asked` that a question stays as long as its stream. Agreement: without
lapses the page is the server's chat up to the one call under way, which is
followed through its stages (`Served`, `InStep`, `Follows`). All four properties
follow. The proof found that `PageIsHistory` fails with four calls, more than its
run makes: a question whose call failed without an answer, and a regenerate after
it, which drops the answer of an earlier turn from the page while the server keeps
it. `Regenerate` notes that as `dropped` (`DropsTheSame`).

**Admin pages.** `AdminPagesProofs` has three parts. The first is about
definitions: what `applyOverride` and every change of the editor make of a
definition is one (`AppliedIs`, `ChangesAre`), and an override moves the rules
that match another user's context in order and with their values (`Moved`,
`Elsewhere`), whichever of its three branches ran: replaced in place, put first,
or taken out. Removing a rule shifts the ones behind it, so the argument is a
monotone map from the old positions to the new. The second is `AdminInv`: what a
request carries is well formed (`Carries`), an answer that nothing has overtaken
is what the server would say now (`UpToDate`), a spinner has a request that will
end it (`Waits`), what is read or saved belongs to the page that is open
(`Homes`), and what is shown is the server's state or older than the page's own
write, whose answer is on the way (`Shows`). `PanelIsCurrent` and
`OverridesTouchOneUser` follow, and `DefinitionsStay`: no interleaving of
editors, orphaned saves and other administrators stores or sends anything but a
definition, which is why the model may store what was sent without a parser.

The third is `UsersInv`, about the users page. `PageFits`: one request of each
kind at a time, a further page asked for from where the list ends, a deletion with
its dialog open and its user on the list. `ListsUsers`: a loaded list is the
newest of the server's users *together with those whose deletion was served but
not heard of* (`Deleting`), unless a lapse is noted. That union is what makes it
inductive: a deletion at the server does not change it, hearing of it takes one
element from both (`Dropped`), and a further page is joined to it (`Joined`),
whichever comes first. A place in the list is a count in `Accounts` (`Nth`,
`Upto`), which is how lemmas about a page that begins after a cursor (`AfterIs`,
`NextPageIs`) avoid induction.

**Chat lists.** `ChatListsProofs` proves `ChatListsInv` for any number of chats
and requests, also several at once for one chat and several creates, any page
lengths, and a limit that may change between two pages.
`SidebarIsTheList` and `NoGhosts` are about moments at which little is under way;
the invariant says what holds in between. Of the sidebar: a shown chat that is not
active has a request of this window that took it out and is not answered yet
(`SideShows`), and that request's end loads the list again, or notes a lapse if it
failed; the list is a page of the active chats, newest first and without a gap,
its cursor the last of them if more are left, and a further page that is still
true begins there (`SideIsAPage`). Two such pages make one (`PagesJoin`), and a
page is a prefix of the sorted set (`PagesArePrefixes`). Of the archive: while its
first page is loading no row can have been clicked (`ArchShape`); a list kept to
be put back cannot hold a row that another request handles, since the dialog that
asks is modal (`ArchHolds`); a further page lies below the cursor and so below all
that was shown or taken out before (`ArchAnswered`); with that, what is shown is
archived unless a lapse is noted (`ArchShows`).

**Model-checked only.** `Responds` and `CallsEnd`: liveness under fairness is out of
the prover's reach, and so are `ENABLED` and induction over data; no theorem is about
what a recursive definition computes. Every safety and action property of the passing
runs is proved, and so are the types of `ChatPage` and `ChatLists`, which no run lists.

## Not modelled

- The wording of messages and titles, logging, HTTP formatting, OpenAPI
  documents, React rendering: no property here is about them.
- What a provider says, and what a tool computes.
- Token signatures and password hashes, taken as given.
- The user picker and the "Test as user" panel of the admin pages, which only
  read, and the editor's number fields.
- Pages that unmount the chat page, and two tabs sharing one storage.

## Plan

Every invariant and action property that a passing run checks is proved. What a next
step would add is model: the user picker and the "Test as user" panel, which read
users and flags, and two tabs of one browser that share the stored session.
