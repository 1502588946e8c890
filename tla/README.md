# A verification of the free-claude-code gateway

These TLA+ modules model the stateful part of the gateway in
`src/src/free_claude_code` (below, `S/`): how a request is admitted to a provider,
routed, streamed and ended; how the runtimes of the providers are leased, replaced
and shut down; how messages of chat platforms become turns that are run, stopped and
cleared; how their state reaches the disk; how a code session drives its Codex
process; and how processes share credentials. TLC checks the models on small
instances; TLAPS proves the safety of all of them, and the three refinements, for
instances of any size.

`PROJECT.json` lists the components, the runs, the source lines each definition
models (`map`), a plausible bug for each property that the property detects
(`mutants`), the disagreements between code and documentation that the runs
exhibit (`findings`), and the hazards that the properties are there for.

## 1. The system

The gateway lets coding assistants (Claude Code, Codex) talk to many model
providers through one local HTTP server. It converts protocols, falls back
between free providers, keeps cooldowns and accounts, and optionally serves
Telegram and Discord chats by running the Claude CLI on behalf of their users.
It is one Python process: almost everything runs on one asyncio event loop, with
threads for timers that save files and for blocking file operations.

| component | state it keeps | operations | what is hard |
| --- | --- | --- | --- |
| Provider admission, `S/providers/admission.py`, `S/core/rate_limit.py` | rate window, concurrency semaphore, recovery episode (leader, waiters, probe) | open, accept, correct, fail and close an attempt | permits taken before an await and used after it; cancellation at every await; who wakes whom |
| Conversation trees, `S/messaging/trees/` | trees of messages, their queues, active claims, tasks, an index from messages to trees | admit, run, complete, fail, stop, clear, restore | tasks that outlive the turn they ran; tasks cancelled before they start; clears inside a tree |
| Workflow, turn intake, node runner, `S/messaging/workflow.py`, `turn_intake.py`, `node_runner.py` | `_state_lock`, generations of /stop and /clear | handle_message, stop, clear; the life of a turn | snapshots taken in one place and saved in another; messages that arrive around a /stop |
| Session persistence, `S/messaging/session/` | the conversation, generations of saves, the armed timer, the file | save, clear, flush, load | threads, three locks, superseded timers, failed writes, crashes |
| Message delivery, `S/messaging/limiter.py`, `platforms/` | queue of operations by key, flood pause | enqueue, worker, shutdown | futures of compacted operations; shutdown in a pause |
| Voice notes, `S/messaging/voice.py` | pending claims and their hand-off tasks | reserve, bind, hand off, cancel | a hand-off cancelled by its own callback, by another command or by the task that waits for it |
| Managed CLI sessions, `S/cli/managed/` | pending, registered and closing sessions, processes | get or create, register, remove, stop all | locks held while a process is killed |
| Provider generations, `S/runtime/provider_manager.py` | current and retired generations, leases, discovery tasks | acquire, release, replace, refresh, publish, close | the last lease against retirement; cancellation in the middle of a replacement |
| Process lifecycle, `S/runtime/application.py` | what is started and what is owned, `_config_lock` | start, shut down, apply a configuration | order, and failure half way |
| Code sessions, `S/application/code_sessions/`, `S/runtime/code_sessions_sqlite.py` | sessions, runs, prompts, receipts, the event feed | send, stop, answer, delete | state used after an await; duplicate commands; restarts |
| Free routing, `S/application/execution.py`, `free_pool.py`, `S/api/capacity_recovery.py` | cooldowns, health, budgets, waiting requests | select, execute with fallbacks, wait for capacity | deadlines against late answers |
| HTTP API, `S/api/` | the body and the lease of each response | respond, close | disconnects at every stage |
| Stream conversion, `S/core/anthropic/`, `S/core/openai_responses/` | the block that is open | translate events | a stream that ends or is retried in the middle of a block |
| OAuth managers, `S/providers/openai_codex/auth.py` and two others | tokens, shared through a file | access, refresh, sign in, disconnect | two processes that rotate one token |
| Configuration, tools, front ends | - | - | - |

How they interact. A request acquires a lease on the current provider generation,
is routed to candidates in turn, and each upstream call opens an attempt with
the provider's admission controller, streams through a converter, and is closed
and released by the response. A chat message is recorded, gets a status message
and is admitted into a tree under the workflow's `_state_lock`; the tree claims a
turn and the processor starts its task, which gets a CLI session and feeds the
CLI's events back into the tree; every change yields a snapshot that the store
keeps in memory and a timer writes to the file. The CLI in turn calls the HTTP API.

## 2. The modules

| module | models | composed with |
| --- | --- | --- |
| `RecoveryCircuit` | abstract specification: a circuit breaker with one half-open probe | - |
| `ProviderAdmission` | the controller, its executions and attempts | implements `RecoveryCircuit` (`ImplementsCircuit`) |
| `RateQuota` | abstract specification: a counter of recent acquisitions, the form in which `ProviderAdmission` uses the limiter | - |
| `RateWindow` | `StrictSlidingWindowLimiter` with its clock | implements `RateQuota` (`ImplementsQuota`) |
| `RequestLifetime` | an HTTP request from the acquisition of its lease to the end of its response, the client that leaves, and the loop that waits for capacity | the leases are those of `ProviderGenerations` |
| `FreeRouting` | selection of free models, the walk over them, cooldowns, route budgets | a candidate's attempt is one of `ProviderAdmission`, uncoordinated |
| `ChatStream` | the chat-completions transport: blocks, tool calls, holdback, retries, recovery | - |
| `RuntimeLifetimes` | abstract specification: runtimes that succeed one another and are disposed of when nobody uses them | - |
| `ProviderGenerations` | `ProviderRuntimeManager`, its generations, leases and tasks, and `apply_admin_config` | implements `RuntimeLifetimes` (`ImplementsLifetimes`) |
| `OAuthCredentials` | `OpenAIAuthManager` in several processes, their file and its lock | - |
| `CodeSessions` | a code session, its runs, its Codex processes, shutdown and restart | publishes to `SessionEvents` |
| `SessionEvents` | the bounded feed of session events | - |
| `MessageIntake` | `/stop` and `/clear` against messages and voice notes on their way | its turns are those of `MessageTrees` |
| `MessageTrees` | trees, tasks, the workflow's operations on them, the snapshots in the store | its `stored` is the memory whose way to disk `SessionPersistence` models |
| `SessionPersistence` | `SessionStore` and `DebouncedJsonPersistence`, their threads and locks | takes the store's contents as a version number |
| `ManagedSessions` | the Claude CLI processes behind the turns | its runners are the tasks of `MessageTrees` |
| `MessagingLimiter` | the delivery queue of a platform | - |
| `ProviderAdmissionProofs`, `ProviderGenerationsProofs`, `SessionEventsProofs`, `MessageTreesProofs` | theorems about the module of the same name | |
| `MessagingProofs`, `RequestsProofs`, `RuntimeProofs` | theorems about the components of `MCMessaging`, `MCRequests` and `MCRuntime`, as these compose them | |
| `FoldLemmas` | induction over the natural numbers and over folds, for the two proof modules that need it | |

The `MC` modules are for TLC. `MCMessaging`, `MCRequests` and `MCRuntime` hold one
instance of each of several components. These components share no state: they meet
in a call whose every outcome the caller's model allows. So the variable `part`,
chosen in the initial state, says which of them runs, and a run explores the union
of their state spaces and not the product; the fairness, types and progress of a
part are conditional on its being the one. A property of a component is
checked under its own name, with a state of another part satisfying it idly. Every
action and branch of every part happens in its run.
`MCProviderAdmission` and `MCMessageTrees` add symmetry, `MCCodeSessions` and
`MCOAuthCredentials` the small instances of two findings.

### ProviderAdmission

State. `pc` is where the task of each execution is, `state` and `attempts` are
the fields of `ProviderExecution`, `permit` its `_GatePermit`. `phase`,
`generation`, `leader`, `waiters`, `probing` and `ready` are the fields of
`_RecoveryEpisode`: phase "none" is `_episode is None`, "live" an episode without
`terminal_until`, "cooling" and "expired" one before and after it. `slots` is the
semaphore's value; `abandons` the shielded tasks of `aclose` that have not run.

Actions. A section under `_condition` awaits nothing but `Condition.wait`, so it
is one action: `Gate...` is `_wait_for_gate`, `Limiter...` and `...Slot` the two
waits of `_open_attempt` with their second look at the permit, `Accept`,
`Reject`, `Correct`, `Fail...` and `Exhaust` the outcomes of an attempt,
`Interrupt`, `RunAbandon`, `Release` and `CloseAttempt` the ways out of it. A
`Cancel...` action is a CancelledError at the await of the same name.

`LeaderMayVanish` separates two questions. A leader whose attempt was resolved
with a retry allowed, and whose task is cancelled before it comes back to the
gate, keeps its leadership for ever (a finding, below). With FALSE that one
cancellation is left out, and the liveness of everything else is checked; with
TRUE it is in, and every safety property holds in spite of it.

### RateWindow

`history` is every acquisition ever made, `dropped` how many have left the deque.
The code reads the clock twice in one section, so time may pass between the test
and the append; no other task runs there.

### ProviderGenerations

State. A generation is named by its runtime, and `runtime` says how far the
cleanup of each is. `current`, `retired`, `unpublished`, `closing` and `closed` are
the manager's fields of these names; `lease` stands for the counts of leases;
`work` sums up the catalog tasks and the refresh task of a generation ("cancelled"
when all that are left have been told to stop); `cleanup` is its cleanup task.
`config` is the runtime that the settings in the configuration file ask for.
`apply` is the one update under way, since they hold `_config_lock`, with its
caller's cancellation; `closer` is close(). `connecting` and `refreshing` are the
two other users of `_replace_lock`.

Actions. An update goes `ApplyBegins`, `ReplaceBegins`, the `Retry...` of old
candidates, `Constructs`, `CommitWrites` or `CommitFails`, `ReplacePublishes`,
`ReplaceReturns`, or ends in a `Discard...`. `CallerCancelled` is the call of
cancel() and `CallerHears` the wakeup of `_await_owned_task`, which may come long
after it. A publication is queued, takes the lock (`PublishBegins`), and a worker
thread ends it (`PublishEnds`). A shutdown is `BeginShutdown`, then the waits of
close() in order; it may fail or be cancelled, and is called again.

Abstractions. What the catalog contains, which provider a task is for and whether
a catalog is complete are left out, so any publication may be queued or dropped.
`_replace_lock` is first come, first served, which matters once: a close() that
comes after a refresh that waits gets the lock after it.

### SessionPersistence

`Callers` are threads that call the store; each armed timer is a thread, named by
its generation. The three locks are `store` (SessionStore._lock), `writer`
(_writer_lock), and _timer_lock, whose sections are single actions. A state is
the number of the mutation that made it, so "older" is "smaller". `WriteFails`
and `Crash` are bounded by `MaxFaults`. Two simplifications: the snapshot
callback does not raise, and operations of the message log that change nothing
are left out.

### MessageTrees

A tree is a record with its graph (state, parent reference and status message of
each node), its queue and its active claim, and is named by its root. Each
operation of `MessageTree` is an operator from tree to tree, with the operation's
name; the actions apply it together with what the repository, the processor and
the workflow do in the same step. The manager's and the tree's locks are never
contended, because nothing in them suspends: a section is one step. What does
come between steps:

- a task is created and has not run; if it is cancelled then, it never runs, and
  the recovery task finishes its claim (phase "unentered");
- the runner waits for a CLI session, for an event or for an edit ("starting",
  "running", "reported"), or unwinds after a cancellation ("cancelling",
  "closing");
- an operation of the workflow, in `op`, drains the tasks it cancelled for at most
  five seconds ("drain"), then holds snapshots that it has not saved ("save").

The messages reached from a message by replies (`ReplySubtree`) are defined without
recursion, as what every set that has the message and is closed under replies has.

Abstractions. Claim ids are uuids; here an id that nothing refers to any more is
used again. A tree removed from the repository can only be reached by
`_finish_claim`, which launches nothing for it: it is forgotten and its slot
marked as detached. Ids of CLI sessions, prompts and texts are left out, so
`record_session` is a save. `Restart` starts from what the store held in memory;
what the file may lack of it is `SessionPersistence`'s subject. There is one chat.
`StopAllRaises`, `ClearChatRaises` and `ClearReplyRaises` are the paths on which
`_ui_target` raises.

### RequestLifetime

State. `app` is where the application task of a request is and `try` its attempt
task in the waiting room; `maker` says which of them is inside `create()`, `make` how
far it has come, `fate` what it will end with. `held` and `open` count leases and
provider bodies. `waiting` and `inside` are the waiting room's count and who is
counted, `refresher` the holder of `_refresh_lock`.

Actions follow a request: acquire, handle, read the first chunk, close, offer the
result; a safe rejection before any output enters the waiting room, in which an attempt
task sleeps, refreshes the catalog and creates again, against the deadline, its
answer, and the disconnect (`ClientLeaves`). A cancelled task unwinds through the
cleanups that the code shields, and those may fail.

### FreeRouting

A round is `select`, then candidates in turn: `read` until output or failure,
`flow` after output. `Selection` is the reservation of places for other billing
categories and providers; `PreferNextProvider` is `core/fallback_order.py`, which
moves a model of another provider ahead of the siblings of the one that failed.
`cooldown` counts down by ticks. A quota check may be in flight while requests
fail, and a cooldown is overwritten by the next one of its scope, shorter or not,
as in the code. `Orders` are the results of sorting by health and preference,
which is data. Other requests may fail on the models in `Contended` at any time.

### ChatStream

`out` is the state of an assembler: the content block that is open, the tool calls
with the state of their block and of their arguments, the index of the next
block. `held`, `committed` and `seen` are the holdback, whether it was flushed, and
what the client has. A step feeds one chunk (text, reasoning, a tool call native or
written as text, an end), or fails in one of the ways the transport tells apart;
"recover" is the continuation or repair of a stream that was shown. Both client
protocols, which differ in how a failure after output ends the stream, are initial
states. `StreamIsWhole` excepts a stream that mixes native tool calls with calls
written as text, on which the finding `chat_mixed` is.

### OAuthCredentials

Credentials are numbered as the server issues them; a refresh token is accepted
once. What a process does under its state lock is `op[p]`, its sign-in `login[p]`.
A thread goes on when the task that awaits it is cancelled: `orphans` are writes and
unlinks that have yet to land, after the file lock may have been given back. `damage`
collects what has happened that may legitimately cost the credentials, so that
`CredentialsSurvive` can say that nothing else does.

### CodeSessions

State. `session` and `runs` are rows and memory at once, since memory is changed
after its commit and a failed commit stops the session. `owner` is `_SessionRuntime`.
`calls` are `_send` between its two sections under the owner's lock; `work`,
`fails`, `interrupts`, `deletion`, `halting` the tasks the service starts, each with
the process it closes; `service` the shutdown. `process` says of every Codex
process whether it is alive, silent (its pipe failed) or gone; `turns` what the
native agent made of each input.

Actions are the steps of those tasks, the events of the app server, its failures, a
storage failure, a shutdown, a crash and the recovery that follows it
(`Recovered`). `_work` opens its connection in two steps, what it decides before the
await and what it assigns after it; `owner.overtaken` is history, and says that a
session went on before the task of its last run had begun (section 4). A scenario, drawn from `Scenarios`, is how many messages, stops,
changes of settings, deletions, faults, shutdowns and restarts there may be. A
revision is only ever compared, so `fresh` is the set of calls that hold the
current one.

### SessionEvents

Nothing there awaits, so each method is one action. An observer that is dropped
because its queue is full finds one mark in it, upon which its feed asks the client
to load the session again.

### MessageIntake

State. `stage` is how far the text of a message has come (its token, its status
message, its admission, or the sweep and drain of a command), `note` where
`VoiceNoteFlow.handle` stands ("leaving" once its task was cancelled while it waited
for the hand-off), `pending` the registry, `doomed` the hand-off tasks that were
cancelled, by a command or by that task. `turn` is "alive" once admitted and "gone" when a command
ended it, which is what `MessageTrees` does in detail. `reach` is history: what a
command has to end.

Actions. A command bumps its generation, sweeps the registry, cancels hand-offs,
and drains them unless one is the task that it runs in itself; a message that
comes to its admission with an old token is discarded, with its status message. A
transcription ends or fails at any time. `CallerCancelled` is the second branch of
`handoff`: the platform's task is cancelled, cancels the hand-off, waits for it and
only then gives the claim up, so that a command may still find and sweep the note; nobody
deletes the status message. A text may be "other": `/stats`, or one that looks like a
status message, of which no turn comes.

### ManagedSessions

`manager`, `cli` and `lifecycle` are the holders of the manager's lock and of the two
locks of each session. A runner gets a session, launches a process, reads it,
stops it and removes the session; `stop_all` takes the manager's lock and each
session in turn. A session that could not be stopped stays in `closing`. Pending
keys are named by the runner that made them.

### MessagingLimiter

`queue`, `waiting` and `func` are `_queue_list` and `_queue_map`; `place` says where
the task of each request is. `Requests` are numbered in the order in which they are
made, so that "newer" is "greater". A call may be answered, fail for good, or fail in
a way that `fire_and_forget` retries; the pause after a flood error and the sliding
window are a wait that ends (`Call`).

## 3. The runs

| run | instance | what it shows |
| --- | --- | --- |
| `admission_safety` | 3 executions, 2 attempts each, 2 slots, window of 2, any cancellation | no slot leaks (`SlotsConserved`); an active probe has a task that will settle it (`ProbeHasOwner`); nobody sleeps on an episode that will not wake it (`NoLostWakeup`); in an episode only the leader's probe is in flight, its backoff is not disturbed, and a claim is not refused (`RecoveryIsExclusive`); an execution failed by a shared recovery calls no more (`FailedNeverCallsAgain`); the controller is a circuit breaker (`ImplementsCircuit`) |
| `admission_leader_lost` | 2 executions | refutes `LeaderCanReturn` when the leader may be cancelled between attempts |
| `trees` | 3 messages, 2 trees, 1 claim at a time, deadlock checked | every turn that waits or runs has a task that will release it (`EveryTurnIsOwned`); every message of a conversation is found in its tree, in memory and in what a restart would restore (`ConversationsAreFound`); a cancelled task takes no other turn with it (`OnlyLiveFailuresSpread`) |
| `trees_live` | 2 messages, 2 trees, 2 claims, fairness, deadlock checked | a task that lost its turn can no longer write, also when its message id is back in a new tree (`LostClaimIsCancelled`); what a clear removed stays out of the store (`ClearedStaysCleared`); every turn is settled (`TurnsSettle`) |
| `trees_refuse` | 2 messages, 1 tree | refutes `ActiveCanBeCancelled` |
| `trees_stale` | 2 messages, 1 tree | refutes `StoreIsCurrent` |
| `messaging` | intake: a typed message and two voice notes in two chats, each a prompt, a command or a text without a turn; limiter: 3 requests, 2 keys, 1 retry; sessions: 2 turns, 1 resumed id, 1 stop_all, 1 cancellation each; store: 2 callers, 2 mutations, 1 fault | nothing that was on its way outlives a /stop or /clear, and a note that is over shows "Transcribing" only where its edit failed, its text has no turn, or its platform task was cancelled after the hand-off (`IntakeLeavesNothing`); nobody is told that his text was delivered when an older one was (`AnsweredByNewest`); a process that runs is one the manager will stop (`EveryProcessIsOwned`); no older state replaces a newer one on disk (`FileNeverOlder`); a clear that returns is on disk (`ClearReturnsSaved`); commands, requests, stops and saves end: spoken commands that cancel each other, a CLI task that stops itself and a manager that stops it do not wait for each other (`MessagingSettles`) |
| `requests` | requests: 2 clients, 1 place in the waiting room, 2 rounds; routing: 4 models of 2 providers, 3 candidates; chat: 3 attempts, 1 correction, 3 chunks, 2 tool calls; window: 4 tasks, limit 2, window 2, 5 ticks | a request that is over, however it ended, holds no lease, body, attempt or place (`NothingIsLeaked`); one model answers, none is tried twice in a round, and nothing paid before what is free (`FallbackIsOrderly`); a large catalog does not crowd out a provider or a billing category (`RoomIsReserved`); what the client sees is one well-formed message, however often it was retried, unless the two kinds of tool calls are mixed (`StreamIsWhole`); at most the limit in any half-open window (`StrictWindow`), and the limiter is the counter `ProviderAdmission` uses (`ImplementsQuota`); every request ends (`RequestsSettle`) |
| `chat_mixed` | 3 chunks, 2 tool calls | refutes `StreamContract` |
| `runtime` | generations: 2 runtimes, 2 clients; code: 2 operations, one of them sent twice, 2 processes, eight scenarios; feed: 2 observers, queues of 2, 4 events; credentials: 2 processes, six budgets; admission: 2 executions of 3 attempts with 1 slot, coordinated, and 3 of 1 attempt with 2 slots, uncoordinated | when no update is under way the file and the served configuration agree, and a close that returns has closed every runtime (`ChangesAreWhole`); the catalog file is written for the current generation (`CatalogIsOfCurrent`); no runtime is closed under a lease (`ImplementsLifetimes`); an input leaves once, and no event of another turn completes a run (`RunsAreFaithful`); what a send found before it left the lock still holds when it is admitted, and a saved stop is not followed by the input (`StartsAreWanted`); every process is the connection or being closed, and none survives a shutdown (`NothingIsLeft`); a subscriber misses no event or is told so (`NoEventIsMissed`); concurrent refreshes do not lose the credentials (`CredentialsSurvive`); under automatic routing nobody fails of another's failure (`OwnFailureOnly`); everything that was asked for ends (`RuntimeSettles`) |
| `code_reserved` | 1 message, 1 stop, 2 faults | refutes `SessionIsReserved` |
| `oauth_disconnect` | 1 process, 1 sign-in, 1 disconnect | refutes `DisconnectRemoves` |

Bounds, and why they are enough.

- Admission: the protocol knows three roles at a time, a leader, a waiter and a call
  admitted before the episode; three executions fill them, two attempts let an
  episode be opened, probed and exhausted, and two slots for three executions make
  them wait for one. Three attempts with two executions, in `runtime`, add the second
  probe by the same leader. The proofs cover the rest.
- Window: four tasks make two full windows with a limit of two; time up to five lets
  windows of two overlap at every offset and meets the test at the edge.
- Generations: two runtimes are the current one and its replacement or a discarded
  candidate, two clients lease both or the same one; what a third runtime adds to the
  safety properties is covered by the proofs.
- Persistence: a replaced timer, a clear and a flush need two mutations by two
  callers, each timer being a third thread; a fault may hit any of them.
- Trees: three messages are a root, a reply and a reply to either's prompt or status,
  so queues of two behind an active turn and clears of part of a tree occur; two
  trees are enough to stop one and not the other; two claims, with fewer messages, let
  the task of a cleared tree run beside that of its successor.
- Intake: the first chat has a typed message and a voice note, the second a note, so
  a command may be spoken or typed, reach its own chat or all of them, and be crossed
  by another, or by the cancellation of the task that waits for a hand-off.
- Limiter: a merge needs two requests of a key, and the third is behind it, merged
  while the first is being called, or of the other key.
- Sessions: two turns share a resumed id or have one each; one stop_all and one
  cancellation meet them at every step.
- Requests: two clients want one place, so one is refused; the second round is the one
  after waiting. Routing: the first provider has two models, so that a provider's
  cooldown must reorder, and one candidate less than models makes the reservation
  choose. `FailureLimit` is 2, where the code has 3.
- Chat: three chunks are enough to open text, a first tool call and a second one or
  the end; three attempts let two early retries be followed by a success, or a recovery
  by another.
- Code: the scenarios take together what can disturb each other; a restart with two
  messages, a shutdown with a fault or with a deletion, a deletion with a stop and a
  fault. All at
  once were too many states to be worth their time.
- Feed: a queue of two fills and overflows with four events, at different times for
  the two observers.
- Credentials: two processes and two expiries let one refresh while the other is a
  token behind, and be two behind; the budgets combine a sign-in with a fault, a
  cancellation, a crash or a disconnect.

Deadlock. Executions, requests, streams, commands and sessions end, a budget is
spent, and the models then stop, as the system may; those runs do not check
for deadlock, and the progress properties say that what stopped had finished.
The four tree runs check it.

Fairness is of single steps and justified by the code: the event loop runs every task
that is ready; sleeps and timers end; an upstream call ends by its read timeout or by
the client's disconnect; a timer thread that is armed fires; a drain has a timeout;
the stream of a CLI ends, in `MessageTrees` where turns must settle; a cancelled catalog task ends, a cleanup and a publication
return, and a request gives its lease back; a worker thread's write lands; a
process that was killed is reaped, an rpc is answered unless its pipe fails, and
an event that was received is dispatched. It is strong in two places: a runner
of `ManagedSessions` that waits for a lock gets it, since asyncio locks are first
come, first served, and so does a process that polls the credential file's lock,
which otherwise times out. Discovery that nobody cancels, a CLI turn that nobody
stops (in `ManagedSessions`) and a native Codex turn that nobody interrupts may last
for ever. Nobody has to send a message, to call, to apply a configuration, to shut down, or to cancel
(a platform's task that waits for a hand-off included); routing does not rely on
the clock or on a refresh. Cancellation is fair only where it stands for the
disconnect of a client whose call does not end.

## 4. Findings

Six runs refute what the repository says of itself. The lines are quoted in
`PROJECT.json`.

- `admission_leader_lost`. An attempt resolved with a retry allowed is only
  released by `aclose`. If its task is cancelled while the transport closes the
  response (`S/providers/http.py:91-105`), the episode keeps a leader that is
  gone, and every later caller of that provider waits on the condition for ever.
- `trees_refuse`. /clear in reply to the status message of a running turn leaves
  an active turn without status message for as long as its task lives. If that
  is longer than the drain, the next /stop or /clear raises half way.
- `trees_stale`. A cancellation may save a snapshot that is older than one the
  runner of another turn has saved meanwhile. After a restart the completed turn
  counts as interrupted.
- `chat_mixed`. A tool call that a model writes out as text takes the index that the
  upstream may use for a native call. The arguments of the native call then go to a
  block that is closed.
- `code_reserved`. Of two failures of one Codex process only the first closes the
  connection and waits; the second finds none, finishes the run, and the session takes
  its next message while the old process still works in the same directory.
- `oauth_disconnect`. A disconnect that meets a sign-in whose write is in a worker
  thread removes the file first; the write lands after it.

Seen while modelling, with no line of the repository that a run would refute, or none
that is about it:

- `DebouncedJsonPersistence` decides under `_timer_lock` to clear the dirty flag and
  does so after it, so a newer save may be reported clean. Nothing reads the flag.
- A retry of `fire_and_forget` hands its text in again, and compaction then puts it
  over a newer text of the same key. `AnsweredByNewest` says what remains true.
- A voice note goes on showing "Transcribing" when the platform's task is cancelled
  after the hand-off: `handoff` gives the claim up, `discard` then finds none, and
  `_clear_failed_pending_voice` deletes only what it discarded
  (`S/messaging/platforms/voice_flow.py:341-359`; the test at
  `src/tests/messaging/test_platform_voice_flow.py:615-648` asserts that nothing is
  deleted). So does one whose text is a command, or looks like a status message
  (`S/messaging/turn_intake.py:62-73`). `StatusIsSettled` names these cases
  and holds of all the others.
- A failure overwrites a longer cooldown that the quota check has set
  (`S/application/free_pool.py:1139`).
- A process two lifetimes behind posts a token that the server no longer takes, and
  removes the file that another process has renewed
  (`S/providers/openai_codex/auth.py:446-461`): the token it reloads under the lock is
  about to expire too, so it goes on and sends its own. `CredentialsSurvive` counts this
  as damage ("behind") and does not speak of what follows; what it shows is the rotation
  of a token between processes where that has not happened.
- A cancelled sign-in may leave the file and the memory different.
- A "closed" event that is handled after a run was admitted and before its `_work`
  has looked at the connection ends the run. The session then takes its next message,
  or is deleted, while that `_work` goes on and opens a process: two tasks may be
  inside `open()` at once, the later overwrites `owner.connection`, and the other
  process is nobody's (`S/application/code_sessions/service.py:549-563`, `:832-836`).
  `NothingIsLeft` is stated of the sessions to which this has not happened; without
  that condition it is false.

## 5. The proofs

What is proved holds for any number of executions, attempts, slots, tasks, messages,
trees, claims, runtimes, clients, callers, models, candidates, chunks, tool calls,
processes, mutations, faults, observers and events, from the assumptions the modules
state about their constants and from nothing else: sets of tasks that are counted
are finite, the name for nobody is not a member, bounds are natural numbers, and a
selection has room for the manual choice and a model of each billing category
(`MaxCandidates >= 3`, where `free_pool.py:933` has 12). Every safety property of every passing run is the subject of
a theorem, and so are the three refinements.

The scheme is the same everywhere. The checked invariant is seldom inductive;
the component's module ends with the parts of an `IInv` that is, which TLC checked as an
invariant of a run before it was proved. Each part is shown to be kept by each
action, and the property follows from the whole. Where components are composed
(`MessagingProofs`, `RequestsProofs`, `RuntimeProofs`), a step of another part
leaves a component's variables alone, and the theorems are about the composed
specification, which is the one its run checks.

### Admission, `ProviderAdmissionProofs`

`IInv` adds what the actions rely on: an episode that is not live has no leader,
waiters or probe, and permits never run ahead of generations (`EpisodeInv`); an
admitted permit of the current episode is the leader's active probe (`ProbeInv`), and an
admitted leader holds that permit and does not wait (`LeaderInv`); waiters and
abandon tasks are where they should be (`WaiterInv`, `AbandonInv`); whoever asks
for an attempt has one left (`BudgetInv`); and a shared failure reaches only
executions at the gate or on their way there (`StateInv`). `SlotsConserved` counts a
set, so it is argued apart, for the actions that move a slot; the others are
shown to leave both sides alone. From `IInv` follow the invariants of the run,
`FailedNeverCallsAgain`, `OwnFailureOnly` and the refinement of `RecoveryCircuit`, step
by step.

### A request's path, `RequestsProofs`

The window. `StrictWindow` speaks of the whole history, the code only of the deque. The
invariant ties them: nothing leaves the deque while it is inside the window
(`DroppedAreOld`), at most one task is between the two readings of the clock
(`SectionIsExclusive`), and the room that task found is still there when it
appends (`SectionHasRoom`). The refinement of `RateQuota` then needs that an
acquisition adds one to the number of recent ones and that time only takes from it.

Requests. At most one task is inside `create()` (`OneMaker`), an attempt runs only for
a request in the waiting room (`AttemptsAreInside`), no attempt runs beside a stream
(`StreamsAreAlone`). So a lease is held, and a body open, exactly while somebody owns
it (`OwnedOnce`), and nobody owns anything of a request that is gone.

Routing. A walk is at one of its candidates, whose provider may still fail
(`WalkIsWithin`); with that, `FallbackIsOrderly` is kept by `PreferNextProvider`,
which permutes what is left of the candidates and keeps the free ones in front.
`RoomIsReserved` is about the loop over the sorted models in `Reserved`: what holds
after any number of its steps is shown by induction. The manual choice, which the
user may well have made among the paid models, is left out of what is said of
the free ones, as in the code.

The stream. `ShowsOutput` says what the events that one assembler has made show of its
output: which blocks there are, which of them are open, which belong to tool calls,
and that text and reasoning come one block after another. One lemma per operator of
the output says that it adds events which keep this; the operators that go
through the tool calls (`Released`, `Repaired`, `CloseAll`) keep it by induction over
their steps. One lemma per action then says that nothing is seen of an assembler
that is given up, and that what is seen of the last one ends well-formed. A
stream that mixes native tool calls with calls written as text is exempt until it is
over, and stays so; that it breaks the contract is the finding `chat_mixed`.

### The runtime, `ProviderGenerationsProofs`, `SessionEventsProofs`, `RuntimeProofs`

Generations. The manager is Sealed when a shutdown has begun and no update, refresh
or login is under way that could still start work. Until then the current generation
is open and not retired. Work and leases belong to generations in service
(`ServiceInv`), cleanups to retired ones without leases, and none while work is
left once it has come to closing the runtime (`CleanupInv`); a candidate is open and
newer than everything but what is not built yet (`ApplyInv`, `OrderInv`); every
runtime that is not closed is current, retired, unpublished or the candidate
(`AccountedInv`); and a close() begins sealed, so that its list of generations is
complete (`CloserInv`). `ChangesAreWhole`, `CatalogIsOfCurrent` and the refinement
of `RuntimeLifetimes` follow: every step that closes a runtime is shown to be one
that finds it without a lease.

The feed. `NoEventIsMissed` is inductive together with the types. What an append and a
`Tail` do to a queue that holds exactly the events after the last one seen is shown in
two lemmas; each action is then a case of an observer that is subscribed, is dropped
or was dropped before.

Code sessions. Most of `IInv` is about the distance between what a row says and what
was done: a task that may still ask has not asked (`JobSane`), and of a run that
ended without its turn no event can come through the connection any more
(`HeardSane`), so that no event completes another run. For the processes: one task at
a time opens a connection, and there is none while it does (`OneOpens`); every
process is the connection or in the hands of a task that waits until it is gone
(`AllHeld`); and what a shutdown leaves connected is in use by a task it waits for
(`ShutOK`). `OneOpens` and `AllHeld` need that no session was overtaken (section 4).

Credentials. The lock's holder is the one between `Lock` and `Release` or in the write of
a sign-in (`LockIsOwned`); as long as nothing has happened that may cost the
credentials, nothing is removed, what is posted is what the file holds
(`RefreshIsCurrent`), and credentials granted to a sign-in are nobody else's
(`GrantIsItsOwn`).

### Around the trees, `MessagingProofs`

Persistence. The invariant says what each thread's generation and snapshot are worth:
the file, the generations and the snapshots are never ahead of what has been
scheduled (`ScheduledInv`); a snapshot with the current generation is the scheduled
state, and what is being written is at least as new as the file, since nobody else
writes in between (`CurrentInv`); the generation of a clear stays current until its
write is over (`ClearInv`). `FileNeverOlder` and `ClearReturnsSaved` follow as
action properties.

Sessions of the CLI. A session under its lifecycle lock is being stopped, and a
runner that still has a session which the manager has forgotten cannot launch it
(`StopCloses`, `ForgottenIsClosed`). Delivery: who waits under a key is in a queue or
in the worker's hands, and the function of an entry is the last one's (`LastIsCalled`,
`EntriesAreQueued`); `NoWaiterIsLost`, proved with it, says that no merge, pause,
failure or shutdown loses a future.

Intake. `CommandsBar` follows what a command has to end (`reach`) from the moment the
command was seen: once its commit is over each of these messages is `Barred` from
becoming a turn, by its token, by its place in the registry or because its hand-off was
cancelled, and before that it is among those that the commit will bar (`Held`).
`StatusHasOwner` follows the status message of a note: while it shows "Transcribing"
the note is pending, with its hand-off on its way or being cancelled by its own task,
or a command that has swept it is about to close it. That needs the registry
(`VoicePlaces`): a note that is pending has been swept by nobody, and one that is
pending with its hand-off cancelled is waited for by the task that cancelled it.

### The trees, `MessageTreesProofs`

The proof has three layers. The first is about the graph: what a reply reaches in it,
what becomes of that when a node or a branch is added or removed, and that a graph
which `from_snapshot` accepts stays one. The second is about one tree as a
value: each operation of `MessageTree` keeps the queue equal to the pending turns
(`QueueSane`), the claim that of a turn which is still there unless it was cancelled
(`ClaimSane`), and the graph acceptable (`Sane`). The third has a lemma per action and
relates the tree to the rest: the task of its claim, which is the only task attached
to it (`TasksAreSane`), the index (`IndexMatchesTrees`), the store, which outside an
operation has no message that the trees do not have (`StoreIsSane`), and the operation
under way (`OperationIsSane`). The invariants of the runs follow; `EveryTurnIsOwned`
counts the queue, by the bijection from its places to the pending turns.
`OnlyLiveFailuresSpread` is an action property: of the actions that leave the
operation alone only the end of a live turn is shown to fail a waiting one, and that
one is below it.

### Induction over data

The library's induction theorems take an operator as a parameter, which the
provers cannot instantiate. Where a definition goes step by step over a sequence or a
number, `FoldLemmas` states induction of a set of numbers instead
(`P \subseteq Nat`, `0 \in P`, closed under successor), from the well-foundedness of
`<` on the naturals, and from it that the recursive function behind `FoldLeft` exists
and how it goes through the beginnings of a sequence. The loops of `Reserved` and
`Only`, those over the tool calls, and the filter that takes cancelled turns out of a
queue are reasoned about in this way.

### What is only model-checked

Everything about progress: `MessagingSettles`, `RequestsSettle`, `RuntimeSettles` and
`TurnsSettle` depend on fairness and ENABLED, which are out of the prover's reach. The
refuted properties of section 4 are TLC's alone as well.

## 6. Not modelled, and what would come next

The modules cover the code that keeps state between awaits, threads, processes or
restarts. By lines that is the smaller part of the implementation: most of it converts
protocols, renders, reads settings, talks to platforms or declares provider profiles.
That code holds no state between calls, or none that interleavings can disturb, and is
better tested by examples. In detail:

- Code sessions: prompts and their answers (`service.py:491-514`, `:692-732`), the
  thread that `_close_connection` attaches late (`:957-965`), the items of a
  conversation and their flushing, titles, several sessions in one service, and the
  JSON-RPC protocol of the app server.
- OAuth: the managers of Copilot and Gemini, which are of the same kind, and device
  codes.
- Free routing: discovery and scoring of models, and what is measured and persisted.
- HTTP API: the other handlers, which use the same streams, the admin pages,
  authentication.
- Streams: the conversion of requests, texts and arguments, and the streams of the other
  transports.
- Messaging: what the CLI prints and how it is parsed, rendering, the platform adapters,
  shutdown and restore of the workflow itself, and the scopes of several chats within
  `MessageTrees` (there is one chat there; `MessageIntake` has two).
- Provider generations: updates that need a restart, the completeness of a catalog on
  which its readers wait, and the status shown to the admin page.
- The order in which the process starts and stops its parts
  (`S/runtime/application.py`), configuration, web tools, launchers and installers.

Next would be: prompts in `CodeSessions`; the completeness of catalogs in
`ProviderGenerations`; several chats in `MessageTrees`; and a start and stop order
composed of the parts that are there. The providers, the CLIs, the credential servers and the chat
platforms are not part of this code and appear only as what they may answer.
