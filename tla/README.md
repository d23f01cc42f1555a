# Verification of minicode-agent-runtime

TLA+ modules that model the parts of the runtime where processes, threads, files
and timers meet; TLC configurations that check them on small instances; and
theorems, with proofs that TLAPS checks for every value of the constants, about
the machines among them: all safety properties and type invariants that the runs check,
but for `ReadingsAreFaithful`.
`PROJECT.json` holds the index: components, runs, mutants, the source lines each
definition stands for, findings, hazards and theorems.

To repeat a run: `tlc -workers 2 -config MCFiles.cfg MCFiles`. To repeat a
proof: `tlapm Turn_proofs.tla` (a few seconds to a minute for each proof module;
`Recall_proofs.tla`, `Replies_proofs.tla` and `TextLemmas.tla` take several minutes,
`Safety_proofs.tla`, which puts together the machines of MCSafety, about twenty).

Contents: 1 the system; 2 the modules and their correspondence to the code;
3 the runs; 4 fairness; 5 the proofs; 6 where code and documentation disagree;
7 what is not modelled; 8 the plan.

## 1. The system

One Python process, one asyncio event loop. Long work is either awaited (LLM and
embedding calls, sends) or moved to worker threads (`asyncio.to_thread`, file
operations and SQLite statements). Hence the grain of all models: what the event
loop does between two awaits is one step, what a thread does is cut where
another thread or a process death can be seen in between.

The parts, what they keep, and how they meet:

| part | state | operations | meets |
|---|---|---|---|
| process (`bootstrap/app.py`, `bootstrap/channels.py`) | the parts that are up, the handles it holds | start part after part, wait for the tasks, shut down step by step | starts and ends everything below |
| main loop (`agent/looping/core.py`, `interrupt.py`, `agent/core/agent_core.py`, `runner.py`) | inbound queue, the running turn, interrupt states per chat, busy counters, the registry's tool context | take a message, prepare, reason, commit, reply; /stop; timeout; `process_direct` for scheduled jobs | channels put messages on the bus; commits feed sessions, the post-turn queues and the consolidation trigger |
| reasoner (`agent/core/reasoner.py`, `runtime_support.py`, `agent/tool_hooks/`, `agent/tools/registry.py`, `tool_search.py`, `agent/provider.py`) | a turn's attempt, round, visible tools and repetition count; per chat an LRU of loaded tools; the registry | attempts with shorter prompts, model requests with retries, calls through the hooks, tool_search, the summary at the limit | called by the main loop; /stop and the turn's deadline end it; MCP management changes the registry |
| sessions (`session/`, `agent/tools/message_lookup.py`, `bootstrap/dashboard_api.py`) | rows in `sessions.db`, a cached `Session` with `last_consolidated` | append, save, trim after a retry, reload; history of a request, lookup, search, pages; the dashboard's deletions and edits | turns, consolidation, restarts; the dashboard writes through a connection of its own |
| consolidation (`agent/looping/consolidation.py`, `ports.py`) | the set of consolidating keys, the selected window | select, summarise, append HISTORY.md and PENDING.md, save to the vector store, advance the index; manual triggers wait for the key | appended to by turns while it runs |
| pending facts, MEMORY.md (`agent/memory.py`), memory optimizer (`proactive_v2/memory_optimizer.py`) | PENDING.md, its snapshot, MEMORY.md, `consolidation_writes.db` | append once, snapshot, merge, commit, roll back | an appending thread and the optimizer on the event loop |
| post-turn pipeline (`agent/postturn/`) | two queues and two tasks per session, RECENT_CONTEXT.md | schedule, refresh, ingest | consolidation rewrites the same file |
| scheduler (`agent/scheduler.py`, `agent/tools/schedule.py`) | jobs, in-flight set, `schedules.json` | add, cancel, tick, execute, reschedule, recover | turns' tools cancel while a job executes |
| long-term memory (`memory2/`, `core/memory/`) | `memory_items`, `vec_items`, `consolidation_events` | save with supersede or merge, worker invalidation, forget, dashboard edits, event upsert, reinforcement, startup migration | three writers and a second thread on one SQLite connection |
| memory reads (`core/memory/`, `memory2/`, `agent/retrieval/`, `agent/tools/recall_memory.py`) | none but the reinforcement counts | vector, scan and keyword search, fusion; gate, rewriting, hypothetical query, retry, injection block | a turn's preparation and the recall tool; overlaps the writers |
| shell tool (`agent/tools/shell.py`) | processes, `_BG_REGISTRY`, timers, delayed evictions, log files | run, promote, time out, kill, evict, `task_output`, `task_stop` | turns, timers |
| subagent jobs and the outbound bus (`agent/background/`, `agent/policies/delegation.py`, `bus/queue.py`) | running tasks, both queues | spawn, finish, report through a turn, send with a retry and a notice | main loop, channels |
| subagents (`agent/subagent.py`, `agent/background/runtime.py`) | messages, steps, exit tools still to call | request, call, trim old results, force exit tools, summarise, report | one runs in each job |
| file tools (`agent/tools/filesystem.py`, `checkpoint.py`) | files, checkpoints on disk | read a page, write, edit, restore | turns, subagents; the shell writes the same files |
| MCP (`agent/mcp/`, `proactive_v2/mcp_sources.py`) | clients with their child processes, the registry's file and tools, the pool | connect, call, time out, reconnect, add, remove, end | turns and drift add and remove; ticks and the feed poll call |
| peer agents (`agent/peer_agent/`) | pending tasks, the peer's process | start, submit, poll, tell, end | turns delegate, the bus tells |
| traces (`core/observe/`) | a bounded queue, streams, `observe.db` | emit, write, clean, stream | everything emits, the dashboard listens |
| channels (`infra/channels/`) | windows of message ids, known users, active streams, tasks | receive, deduplicate, publish; split, preview, edit, finalize | the bus in both directions, the Bot API |
| HTTP requests (`core/net/http.py`) | a request's tries and budget | try, pause, give up | embeddings, fetches, peers |
| proactive loop (`proactive_v2/`, `agent/turns/`) | deliveries, daily quota, context-only sends, drift time and records, the tick's context; the event servers' acknowledgements | gates, snapshot, classify, draft, finish, guards, persist, send, mark, acknowledge; drift | sessions, MCP event servers, the push channel |

What is hard in it, part by part (every case with its line is a hazard in
`PROJECT.json`):

- *Main loop.* /stop against the end of a turn; a tool that cancels its own turn;
  a commit that raises half-way; several texts resumed together; for all chats; a process-wide tool context. Correct: each text is committed at
  most once and in order, no message is dropped silently, a chat
  is busy exactly while its turn runs, the inbound queue drains.
- *Reasoner.* A refusal at any round starts the run anew; tools are found, used,
  evicted and unregistered within a turn. Correct: a turn ends, the same calls are
  not made for ever, a chat keeps the tools it used last.
- *Consolidation.* The session grows, or is trimmed, while a window is being
  processed; any of five writes fails; the process dies. Correct: the index
  never passes a message that was not archived, the newest messages stay, the
  key is released, manual triggers return.
- *Files.* A death inside a non-atomic write; an append racing a rename.
  Correct: a fact reported written is in some file until it is merged; no
  scheduled occurrence is lost, repeated without a restart, or waits for ever.
- *Post-turn queues.* A task deregisters itself while an event is queued.
  Correct: served, in order, once, eventually empty.
- *Long-term memory.* Reads before an await used after it; two commits for row
  and vector, the second of which may fail unnoticed; a second thread that commits a foreign transaction. Correct: what
  was reported saved is stored and can be found, a merge drops nothing, a turn's
  own memories survive its worker, no ref without its row.
- *Background work.* Timers, evictions and kills racing the end of a process;
  slots; a report that passes two queues and a turn. Correct: no live process out
  of reach, no task outlives its deadline, every job is told of, in order.
- *Sessions.* Two writers that do not know of each other; inserts that fail one by
  one. Correct: the list and the rows agree but for what the dashboard took, no id
  is used twice but after a deletion; pages and searches miss and repeat nothing.
- *Memory reads.* Overlapping searches of one request, a limit before the filters.
  Correct: what is shown is what is counted, marked and reinforced, within budget.
- *Subagents, drift.* Limits, forced tools, failed requests, two files for one
  result. Correct: requests stay well-formed, reports honest, records agree.
- *File tools.* In-place rewrites; line ends. Correct: each checkpoint restores, an
  edit changes its match only, pages lose no line.
- *MCP, peers.* Late answers, reconnects, ends beside calls in flight. Correct: an
  answer reaches its own caller, tools have live clients, no child is forgotten, a
  delegated task is told of once.
- *Channels.* Calls carried out without an answer, edits of one message by two tasks,
  limits in two units (characters, UTF-16 units), updates that come again. Correct: in once, out whole.
- *Traces, HTTP requests, the process.* Full queues, budgets that end in a pause, steps
  of shutdown that raise. Correct: order kept, time kept, nothing held is left.
- *Proactive ticks.* Sent but not marked, marked but not acknowledged, stored but
  not sent; windows that end in between. Correct: no message and no event twice,
  but for lost marks and acks, and no more than the quota.

The parts that are left out, and why, are in section 7.

## 2. Modules

A `map` entry names the lines of every definition. History variables (marked *h*
below) record what happened for the properties; no step of the code depends on
them (a count bounds the instance, and a window that nothing is in need not end).

**Consolidation** — one session. A message is its row number; the cached list is
the suffix from `base` on, and `lc` counts from its front like
`Session.last_consolidated`. `phase` is the await at which the only run of the
session stands; `Selectable` and `SelectedWindow` are
`_select_consolidation_window`, `Record` an archiving write, `FinishRun` the advance
of the index, `RunFails`/`ReadFails` an exception on the way, `TriggerNow`,
`TriggerWaits`, `WaiterProceeds`, `WaiterTimesOut` the manual trigger with its
polling, `TrimAfterRetry` the trim in the reasoner. Two of the writes
(`WriteVector`, `WriteImplicit`) may fail without the run noticing, as in the
code. `Crash` reloads from the table; `CrashInCommit` dies between the insert and
the update of a turn. `trims` (*h*) counts trims.

**PendingFile** and **FactLedger** — one module for the files of
`agent/memory.py` with both users. A file maps each fact to its number of
copies. The appending thread and the optimizer each have a program counter at
file-operation grain: open, write, index row; rename, read, merge, write,
unlink; and the two halves of a rollback. `PendingDies` may tear the file that
is being written. `risked` (*h*) holds the facts written past the optimizer or
torn: the code takes no lock against that, see finding `pending_isolated`; the
properties say nothing else loses a fact. FactLedger is the abstract promise:
absent, kept, merged, and never un-merged.

**AgentLoop** — the consumer, one turn at a time, /stop beside it, and a
scheduled soft job that runs a turn of its own in parallel. A turn carries the
user texts in its prompt, more than one when it resumes. Steps follow the
awaits of `run`, `process` and `commit`; a turn ends by a reply, an error reply, a
timeout, a cancellation by /stop, or one that escapes a tool of its own
(`ToolCancels`, `core.py:443`). `CommitBreaks` is a commit that raises once the messages
are in the session (`context_store.py:196-210`): the turn counts as failed and keeps
the state it resumed, which may be committed again. `cut` and `broken` (*h*) hold
the texts of such turns.

**ToolLoop** — a chat's turns in the reasoner. `attempt` is the plan of `run_turn`,
`round` the iteration of `run`, `tries` the retry of `_create_with_retry`; a response
is a batch from `Batches`, answered call by call (`CallNotLoaded`, `CallStopped` by a
hook, `CallReturns`). Calls keep their tool and a number for their arguments,
which is all the loop detection compares. `searching` is the configuration switch of
the tool search. `unlocked` is the LRU of `ToolDiscoveryState`; `Manager` stands for
mcp_add and mcp_remove, the calls that change `installed`. `ModelRefuses` (a safety
or length error) repeats the whole run with the next plan. `recency` and
`ranSignatures` are *h*.

**PostTurn** — the two queues of `default_pipeline.py`, their tasks, and
RECENT_CONTEXT.md reduced to the session and newest turn its block shows.

**Scheduler** — time in ticks. `Tick(lead)` starts what is due, soft jobs early by
a latency-dependent lead; `Finish` delivers and reschedules; `Save` is the
in-place rewrite; `Restart` is recovery with its grace period and advance of
overdue jobs; `RestartTorn` finds a torn file. `delivered`, `repeats`, `tried`,
`cancelled`, `expired`, `torn` are *h*.

**MemoryItems** — rows with their vectors, the two callers of
`save_item_with_supersede`, the worker of the last turn, forget_memory and the
dashboard. A summary is the sequence of facts it states, so that merging is
concatenation and equal summaries collide on the content hash. Which rows a
similarity search finds is a choice (`Nearby`: by the index, or by a scan of all rows).
What becomes of a row's index entry is a choice too (`VecInsert`): `_vec_insert` leaves
the old one when the dimension differs and none when it fails after its DELETE, and its
caller reports success either way. A restart's migration indexes the rows that lack an
entry (`Migrate`). `AttemptRefused` begins the turn's tool chain anew: what a refused
attempt saved is in no chain. `own` (*h*) are the rows that the calls of the chain really
wrote, against `pinned`, the ids they reported; `torn` (*h*) are the rows whose entry was
not written with their text, `collided` is *h*.

**MemoryEvents** — one history entry's way into the store, SQL statement by
statement, against `reinforce_items_batch` in another thread of the same
connection: `Visible` is what the connection sees, `saved` what is committed.
`skipped` (*h*): the call gave up.

**ShellTasks** — commands, their pump, deadline, timer, registry entry, delayed
eviction and log file. Durations are not counted: a deadline passes at any later
moment. `broken` (*h*): a blocking `task_output` that ended its turn.

**SpawnJobs** — the slots, a job, its completion on the inbound queue, the turn
that reports it, the outbound queue with retry and notice. The
turn that reports may time out or be cancelled and then tells nothing (`DropTurn`,
`StopTurn`). `lost` are messages whose three attempts failed.

**ProactiveTick** — one target chat. A tick begins with a snapshot of open events;
tool calls change its context; `_run_loop` may ask for completion and for
reflection; then the guards, the session, the send, the marks and the
acknowledgements, each a step at which the process may die, a store may raise,
or a send fail before or after its text arrived. Time passes by `CooldownEnds`,
`DedupeWindowEnds`, `DayEnds`, `ContextDayEnds`, `DriftIntervalEnds`, `AckLapses`
in any order, which is more than the clock does; a window that is read only when a
tick begins ends between ticks. What a message says is what it
cites; a message without evidence has the one text `Musing`. The model that judges
repetitions is external and right about the session's messages. The gates on
probability, presence and interval only say "no" more often, which not
beginning a tick covers. The servers are external: they offer what is not
acknowledged. From `arrived` to `uncounted` the variables are *h*.

**SubAgentLoop** — one subagent's run. A message keeps its role (request for n calls,
result, cleared result, text), a call its tool and arguments; `Trimmed` is the
replacement of old results, `exits` the exit tools still to force, by their places in
`ExitTools`. The picture of a file that was read comes as a user message of its own, between
the results of a batch (`tool_runtime.py:102`). `ran` (*h*) are the calls that really ran,
`forced` (*h*) those of them that ran as forced exits, against `called`, what the report
lists.

**Drift** — the runs that ProactiveTick starts: the tools offered at each step, the
forced end, `finish_drift` with its two files, and what the next prompt reads of them. A tool may
rewrite those files itself (`Rewrites`; `rewritten`, *h*), and a send that raised or said
it failed may have arrived (`unsure`, *h*), which leaves the way open for another.

**FileText** and **FileTools** — paging and editing as functions of a text of a few
characters with both kinds of line ends (the machine asks one question, the
properties compare the answer with a definition by positions; `Matches` and `Replaced`
are `str.count` and `str.replace`, from the left); and the mutating
tools, operation by operation, with checkpoints, failures, deaths and the shell
beside them. `was`, `either` (*h*): what a file held when a call began, and of a torn
file what it is torn between.

**SessionStore** and **SessionViews** — the cached list with its table and the
dashboard, statement by statement, a message being the number of its birth; and the
reading functions as questions: history, lookup, search, pages, deletion by filter,
against reference definitions.

**MemoryQuery** and **MemoryRetrieval** — the first asks one search question of a small
table (nearest vectors against scan, several queries, rank fusion, similar items);
the second is one request with its overlapping calls: gate, rule search, event search
with its hypothetical double, retry, planning under budgets, reinforcement; any call
may fail or time out.

**McpPool** and **McpServers** — the proactive pool: callers, clients, the pipe with
answers that may be late or no JSON, reconnecting, `disconnect_all`, and the sources
that fetch, poll and acknowledge through it; and the registry: additions, removals and
restarts that overlap, with tools, clients and `mcp_servers.json`. The end of a turn
may cut a removal off inside the disconnect, before the save (`RemoveIsCut`, `registry.py:69`;
`unwritten`, *h*).

**PeerTasks** — one peer: tasks from the tool's call to the message that tells of them,
the lock, the health checks, and the peer's process, which may be slow or crash.
A start that waited too long asks the process to end and forgets it (`BootLate`); whether and
when it heeds that is its own affair (`Heeds`; `forgotten`, *h*). `atPeer` is external: what
the peer itself knows.

**Traces** — the writer's queue, the streams with their queues, the cleanup thread.

**TelegramText**, **TelegramReplies**, **Channels** — cutting and layout as questions
about texts, where a character is one or two UTF-16 units. Only the blocks of thinking are
cut by units (`_split_thinking`); texts, previews and streamed replies are cut by `len()`
(`telegram_utils.py:148`, `338`, `358`, `373`), and exceed the limit of `telegram_utils.py:177`
by as many units as they have wide characters. The API refuses such a message, which is
one of the faults of TelegramReplies. That module has one chat's streamed and
plain replies, with the turn and the dispatcher as the two callers of the Bot API
(external), whose calls may fail, be throttled, or be carried out without saying so;
and the way in: Telegram's updates, QQ's events and tasks, deduplication, known users,
downloads and restarts.

**HttpRequests** — one request's tries, pauses and budget, time in seconds of its own.
A try may also raise what is no transport error, which `http.py:77` lets pass at once.

**AppRuntime** — start in `StartOrder`, the running tasks, shutdown in `EndOrder`; each
step may fail or be cut off (`CleanupCut`), tasks may die. A cancellation of the process
reaches the loop inside a turn, which takes it for the turn's and goes on (cause
"swallowed", `core.py:443`): the other tasks end, and shutdown closes what the loop still
uses. "work" is what no step of the shutdown ends: jobs, consolidation, post-turn tasks.
`untidy`, `failures`, `belated` (*h*: a peer that is started after the step that ends
peers) remember what went wrong.

Composition: ToolLoop opens up the stage "reason" of an AgentLoop turn; AgentLoop
commits turns that PostTurn queues and Consolidation appends; SpawnJobs models the
part of the loop a job's report passes through.
These interfaces are one-way and unconditional (a commit always may happen), so
each module takes the others' steps as its inputs rather than as a product of
the state spaces. The MC modules that hold several state machines (MCTurn,
MCFiles, MCBackground, MCSafety, MCMemory) are *sums*: a behaviour moves one
machine while the others stay in their initial states; in MCBackground and MCSafety the
constant variable `system` says which, and a property of MCSafety's joins, under
`When("machine", ...)`, what is asked of each machine while it moves. This says exactly what the
separate checks would, with one set of runs. The fair actions of a machine are
either disabled in its initial state (turns, queues, shell, jobs: nothing to
continue) or restricted to behaviours of that machine (`Writing`, `Scheduling` in
MCFiles), so fairness demands no step the sum forbids.

## 3. Runs

Passing runs (two workers, one to four minutes each). A property that is a conjunction
is listed with its parts, which carry their own comments in the modules.

| run | instance | states | what it shows |
|---|---|---|---|
| `consolidation` | keep 1, minimum 1, 3 messages, 1 waiter, 1 trim | 583,688 | `ArchiveIsWhole` (`MarkedIsArchived`, `StoredMarkIsArchived`): the index, cached or stored, never passes a message missing from a file. `TailIsKept`. `RunsComplete` (`KeyIsReleased`, `WaitersReturn`) |
| `turn` | 2 chats, one of them also a job's; 3 messages, 1 completion; 1 session with 3 turns | 635,903 | `TurnsAreAccounted` (`CommitsInOrder`, `EveryMessageAccounted`, `BusyIsTurn`), `InterruptIsUncommitted`, `IngestedInOrder`, `EverythingDrains` (`InboxDrains`, `QueuesDrain`) |
| `files` | 2 facts, 2 appends, 1 death; a once job and a soft cron job, interval 2, grace 1, leads 0 and 2, 4 ticks, 2 crashes | 104,256 | `NoFactLost`, `ImplementsLedger`, `FactsReachMemory` (`ReachesMemory`, `SnapshotResolved`); `JobsSurviveCrashes` (`NoRefire`, `JobsAreKept`), `OccurrencesPass` |
| `background` | 2 commands; 2 chats, 2 jobs, 1 slot, 2 questions, 3 failed sends; 4 deferred tools, capacity 2, 3 rounds, 2 plans, 1 retry, 2 turns; 2 peer tasks, 3 processes, 1 fault | 347,534 | `LiveIsReachable`, `TimedTaskEnds`; `JobsAreTold` (`EveryJobTold`, `PendingIsTold`), `RepliesInOrder`; `LoadedAreRecent`, `NoThirdRun`, `TurnsEnd`; `PeerTasksAreSound` |
| `safety` | twenty machines, see below | 1,824,467 | `SavedIsFound`, `FactsAreSpared`, `RefMeansRow`; `MessageOnce`, `EventOnce`, `QuotaHolds`; `RunsAreSound` (`RequestsAreSound`, `ReportIsHonest`, `DriftIsRecorded`), `FilesAreSound` (`RestoreBringsBack`, `PageIsHonest`, `EditIsLocal`), `SessionsAreWhole` (`InboundIsSound`, `SessionsAgree`), `RecallIsFaithful` (`RetrievalIsHonest`, `FewSlipBelowMark`), `McpIsSound` (`PoolIsSound`, `ToolsHaveClients`), `TracesStayKept` (`TracesAreKept`), `ChannelsAreFaithful` (`RepliesAreShown`, `LayoutIsFaithful`), `EndsAreOrderly` (`EndIsClean`, `RequestsEndInTime`); `ReadingsAreFaithful` (`ViewsAreWhole`, `SearchIsFaithful`, `SourcesAreServed`) |

One type invariant goes with each run.

Why the bounds are enough for the cases named above:

- Three messages with keep 1 give a window of one or two rows, a turn that appends
  during the run, and a second run. A trim needs no more than a list longer than
  the kept tail. (The two counterexamples need four.)
- Three messages over two chats let two texts be resumed together, while the
  other chat's message waits in the queue, a job's turn runs beside them, and a
  completion stands between two user messages.
- Two appends are one before and one inside an optimizer round; one death is enough
  to leave a snapshot, and recovery may itself race an append.
- With an interval of 2 and leads of 0 and 2 the cron job may start at its time, or so
  early that its next occurrence counted from now would be the same one; 4 ticks
  hold two occurrences; grace 1 makes a start both within and beyond it; 2 crashes
  include one after a recovery. Interval jobs, whose fire time advances from their
  own, are in `MCScheduler_cancel.cfg`.
- Three rows hold a merge target, the row it collides with, and a row the worker
  retires; 3 saves let two overlap while a third has finished. The instance has either a
  row whose index entry was not written with its text, or a call of forget_memory or the
  dashboard (`MaxMishaps`): what these do to a row does not depend on its entry.
- Two ticks are the least that can repeat something; quota 1 makes the second
  one the first too many, until the day ends between or within them. Drifts and ticks
  alternate. One crash may hit any step.
- Three rounds hold the third repetition of a batch, the case the detection cuts;
  three different tools used in a turn overflow capacity 2; the second turn starts
  with what the first one kept.
- Two jobs for one slot; three failures lose one message, or make two messages
  retry.

- `safety`: 2 facts, 3 rows, 3 saves, 1 retirement; one event; an alert and an article
  with 2 ticks; 2 skills, one needing a server, 3 drift runs of 2 steps, so that one
  record leaves the list of recent runs; one subagent with 4 steps and 2 rounds kept in
  full, so that a third is replaced; one file with LF or CRLF content, 3 checkpoints, 2
  breaks; texts of up to 4 characters, in which a match may overlap itself or stand in a
  line end; 3 messages, 3 saves, one failed insert, one dashboard write; tables of 3 rows;
  six memories with more rules than a block takes and an event too long for it; 2 callers,
  2 clients, 3 calls and a late answer left in the pipe; 2 servers, 2 operators (a turn
  and a job), 3 operations, so that two overlap and a third follows; 3 traces for a queue of 1; texts of
  5 characters for limits of 2 and 3; replies of 9 and 14 characters for a limit of 12, 2
  turns, 1 fault of the API; 3 posts, 1 repeat, a window of 1, 1 restart; 3 tries under
  budgets that end at once, in a pause, and in a later try; 2 faults in the life of the
  process.
- 2 peer tasks share a process that ends with the first; 3 processes are the first, one
  started beside it, and one after both.

No symmetry reduction is used: the runs with liveness would not allow it and the
others do not need it.

Every property, and every part of a conjunction, has a mutant: a definition changed as a
plausible bug would change it (a dropped guard, a swapped order of two writes, a missing
reset), next to the original in the module and named after it
(`SelectedWindow_keepIgnored`, `Writes_refFirst`, `ReplyResult_unguarded`, ...), under
which TLC finds the property violated. That is also the evidence that the liveness
properties are not vacuous in the sums.

## 4. Fairness

- Consolidation: the background run proceeds (the event loop schedules ready
  tasks, LLM calls end by answer or timeout) and manual triggers poll. Turns,
  triggers, trims and crashes are never forced. `WaitersReturn` rests on the
  deadline of the poll, as in the code: background runs may keep starting.
- AgentLoop: the loop runs and the turn's timeout fires (`wait_for` in `run`). A
  provider's answer is *not* assumed, which is the point of `InboxDrains`.
- PostTurn: a session's tasks proceed; an ingestion ends, maybe by raising.
- PendingFile: the appending thread is scheduled and the optimizer's hourly
  loop comes round (weak); in addition the merge call, the write of MEMORY.md and
  the commit succeed again and again if tried again and again (strong), needed by
  `ReachesMemory` only: with a provider that never answers, a fact waits in
  PENDING.md.
- Scheduler: the clock ticks, the tick starts what is due, a started job ends.
- ShellTasks: timers and ready callbacks run; a process is *not* assumed to exit, and
  `TimedTaskEnds` holds because of its timer.
- SpawnJobs: a job ends (iteration budget), a turn ends (by its report or its timeout),
  both bus loops run. Sends may fail up to their bound; a message lost after its third
  attempt, and a report whose turn timed out or was stopped, are outcomes of their own in
  `EveryJobTold`.
- ToolLoop: a request ends by its timeout, a tool returns (shell and task_output have
  deadlines), the loop goes on. Nobody is assumed to /stop a turn.
- PeerTasks: a delegating call goes on (each of its requests has a timeout), the poller
  polls and gives a task up after its hour. A peer is not assumed to answer; crashes
  are bounded faults.
- The machines of MCSafety are checked for safety only.

## 5. Proofs

All of them are for arbitrary constants under the named `ASSUME`s of the modules, which
TLC evaluates on each run. These ask no more than the code gives: bounds are natural
numbers; a table has room for a row (`MaxItems`), a window for a message (`SeenMax`), a
chat and a fact exist; alerts and articles differ; the markers for "nobody", "no
session", "the lock is free" are none of the values they are told from; a batch of calls
is not empty; an answer has some text (an empty one is not sent, `_on_response`); a message
of a channel has one of the channel's kinds, and a private chat of QQ has its user's id;
memories are finitely many, and a section takes a rule (`MaxForced`, `MaxNorms`); a limit
for cutting has room for a character of two UTF-16 units (`CutLimits`), a message for a
preview's frame, of at least five characters, and its thinking (`LayoutAssumption`); what files hold and edits name are texts.

The pattern is the same everywhere: a property that the runs check, an inductive
invariant that says why it holds, one lemma per action (or per group of actions that
disturb the same parts), and at the end a temporal theorem about the specification of
the run's machine. Lemmas about sequences (what `Append`, a removal, an enumeration
keep) stand before the machine that needs them. Where a proof seems to need induction
over a number, it takes the least number for which the claim fails (`LeastOf`, from the
well-foundedness of the naturals).

**Files_proofs**, first on Consolidation: `TypeCorrect`, `NothingSkipped`
(`ArchiveIsWhole`, that is `MarkedIsArchived` and `StoredMarkIsArchived`),
`TailStaysUnconsolidated` (`TailIsKept`). `MarkedIsArchived` alone is not inductive: that
the index may move to the end of the window needs to know what the pipeline has written by
then. `IInv` adds: in an untrimmed session the cached list is the whole table and both
copies of the index agree (`CacheIsStore`); a running window lies inside the table and
starts at the index, or belongs to an archive-all run, which resets the index
(`WindowInv`); a phase says which files hold the window's rows (`ProgressInv`); what lies
below the index is archived (`BelowMark`); the tail is kept (`TailKept`). A trim destroys
`CacheIsStore`, and indeed the property (`consolidation_trim`), so the inductive invariant
is `TypeOK /\ (trims > 0 \/ IInv)`. Then the two machines of MCFiles:
- `FactsAreNotLost` (`NoFactLost`) and `BufferImplementsLedger` (`ImplementsLedger`): each
  initial state of PendingFile maps to one of FactLedger, each step to a step of it or
  to a stutter. Both rest on `BufferInv`, which speaks of each fact that is not at risk:
  a fact whose row is indexed is in a file or merged; at the rename there is no
  snapshot in the way; from the reading to the commit the snapshot holds what the
  optimizer has read, and a fact it holds is merged before the commit; a rollback
  writes what both files hold, and unlinks the snapshot when its facts are back.
- `JobsAreSafe` (`JobsSurviveCrashes`), with `SchedulerInv`: no job vanishes, and for each
  job a `JobInv`: what is listed is in the file; a job's fire time is the file's, or
  the one that a restart has moved it to; what executes was tried; nothing is
  delivered that lies beyond the fire time; and repetitions, with the one that an
  unsaved delivery still owes, are at most the deaths.
- `FilesAreSafe`: the type invariant of the sum.

**Turn_proofs**: `MessagesAreAccounted` (`TurnsAreAccounted`, `InterruptIsUncommitted`) from
two invariants that need each other's types only. `OrderInv`: a chat's texts in the log,
the running turn, the interrupt state and the inbox, read in this order, rise,
but for texts whose commit broke (`broken`), which are in the log and may be resumed.
`AccountInv`: each text that arrived is in one of these places, or was answered,
stopped, timed out or cut off by a tool of its turn; and a chat is busy for each turn of its own. `TurnsAreIngested`
(`IngestedInOrder`): what was settled, is being ingested and is queued is, in a row,
what was due. `TurnsAreSafe` says both of the sum, with its type invariant.

**Background_proofs**, on the machines of MCBackground. Of ToolLoop: `RepetitionIsCut`
(`NoThirdRun`), for any tools, batches and bounds. `NoThirdRun` compares a batch with the
last two executed; the code has a counter and one signature. `StreakInv` connects them:
while a run asks or executes, the signature is that of the newest batch, and the counter
is at least 1 if it is not empty and at least 2 if the batch before was the same. A new
attempt resets both sides. `LoadedAreTheRecent` (`LoadedAreRecent`): with the counter's
bound while a run goes on, `RunInv`: the LRU is the end of the order in which the chat's
tools were used or found, and is full unless it has them all. Of the others:
`ProcessesAreReachable` (`LiveIsReachable`; `ShellInv`: a live process is waited for in
the foreground, or has its registry entry, which only a background task has, and no
eviction under way; a pump that is done, too, means an ended process), `DeliveryIsInOrder`
(`RepliesInOrder`; `SpawnInv`: a running job has its chat, and what is being sent is a
message at one of its attempts; the queue is in order, what is in the dispatcher's hand
comes before it, and what was shown before both), `PeersAreSafe` (`PeerTasksAreSound`;
`PeerInv`: whoever checks, starts or kills a peer holds the lock; each process that runs
is held, is being killed, was asked to end and forgotten, or was followed by a later one; and a task leaves the table when
it is told of), `BackgroundIsSafe` (the type invariant of the sum).

**Replies_proofs**: what a chat receives. That what it was answered is there to be read,
for any limits, forms of answers and numbers of failing calls. `RepliesInv` says
- which stream is whose: the running turn's, that of a reply that waits, or the one the
  dispatcher has in hand; and that a stream's message is one it has sent
  (`StreamsFollow`, `MessagesFollow`, `CallsFollow`);
- how far a text is shown (`TurnStreams`, `RepliesReady`, `DeliveryGoesOn`): a stream is `On`
  a text when its buffer, what its message shows, and what it takes for shown are starts
  of it, and what it takes for shown is no longer than what is shown; or it is `Off` it, by
  thinking or by words said before a tool call, and then what it takes for shown is no
  start of the text, so that the last edit is not skipped as one that changes nothing;
- that replies are in a row: what waits is of later turns than what is in hand, and
  has no outcome yet (`RepliesInRow`).

The two callers of a stream, the running turn and the dispatcher, share the lemmas on what
the end of a call does to it: a message that arrived though its call failed belongs to
no stream, an edit that was late stays shown.

And what a chat is sent unasked: `TickTypeCorrect`, `NoMessageTwice`, `NoEventTwice`,
`QuotaIsKept`, for any events, any `Story`, any quotas and bounds. `TickInv` is the
conjunction of the type invariant with three that do not need one another:
- `KeyInv`: a key that arrived has its row, or its arrival left none, or its row is the
  next step's; and a message between guard and send has no row yet (nobody else
  writes rows in between: one tick at a time).
- `AckInv`: what a running tick holds is still open at its server (`Offered`), a drift
  cites nothing, and an event that was told of is no longer open, or its ack is known
  to be lost, or the tick that told of it is on its way to acknowledge it.
- `QuotaInv`: a balance. Ticks that reached the chat today, plus one that is paid for but
  not sent yet, are at most the recorded actions, plus broken-off drifts, plus one
  drift that still owes its record; a round or drift has found room in the quota.

**Recall_proofs**: what is stored and what is remembered of it, without theorems of its
own; Safety_proofs and Texts_proofs put these together.
- SessionStore (`SessionInv`): what a running save has left is the end of the list, what
  comes before it is stored or has failed; the next row number is above all rows; between
  the statements of a save, the rows of the table rise with the list.
- `FewSlipBelowMark` bounds how many messages below the mark of the archive were never
  archived, by `Toll`: the deleted ones, those whose insert failed, and those a trim
  cut off. It is a balance, and not inductive by itself: a reload turns rows into places
  of the list, and a place is not a row. `SlipInv` says it of both sides. Of the list
  (`ListSlips`): the mark, and the messages that are not where the list has them
  (`Astray`: deleted but still listed, failed or stored behind younger ones, stored but
  no longer listed), are paid with archived messages below the mark and `Toll`. Of the
  table (`StoredSlips`): some leading rows, no more than the stored mark, carry it in
  the same way. A reload makes those rows the list's first places; a save of the
  metadata makes the list's balance the table's.
- `FitsInv` bounds the numbers of a session: each row, each number that is given and each
  message that waits for one is paid with a birth.
- MemoryRetrieval (`RetrievalInv`): a block is three sections, each of ids of one kind in
  their order and within the budget but for a lone section of forced rules (`BlockIs`);
  a result marks just what its block tells, has each id once and tells as many of the
  forced rules as a section takes; two results make one payload; and the phase of a
  request says which results are in, what is traced, and that nothing is reinforced
  before the end.
- FileTools (`CheckpointInv`): each checkpoint with a meta file loads, and restores what the
  file held when its call began; the call that is under way has the newest of them, and
  its file is as it was found; a torn file has a checkpoint of what it was.

**TextLemmas**: texts and files of any length, any limits and any edit over the alphabet of
the model. The invariants (`TextInv`,
`LayoutInv`) say no more than that what was asked is answered as the code does; the
work is in what these answers are. They are recursive functions of a position, and
`Recursion` and `Upward` replace the induction: the first number at which a claim fails
has one before it (`LeastOf`).
- A page: its bytes do not depend on the lines after it, so where it ends and what the
  note says can be read off its own lines (`PagesAreHonest`).
- An edit (`EditsAreLocal`): the pieces of the result are put together one after the other
  (`TextPieces`); with one match that is the text before it, the new text and the text
  after it; and a text all of whose line ends are CRLF, but for a last `\r` that the
  next piece completes (`Paired`, `OpenEnd`), stays so.
- Cutting (`CutsAreSoundly`): for each number of characters, or lines, that is behind there
  are places at which the parts end (`CutEnds`), each part fits, and it ends with its
  line unless this line alone is too long (`LineEnds`). The lines of a text end at its
  line ends, and units add up.
- Stripping (`EntitiesDoStay`): the place of a character moves by the stripped line
  ends, so an entity marks the same characters, less those that are gone.
- Previews (`PreviewsDoFit`): the three parts exceed the limit by no more than their wide
  characters, which the code counts as one, and a longer reply never shows less of itself.
- A page of blocks (`PagesAreWhole`): what is laid out and what waits in a fence or quote
  are, in a row, the lines so far that say something; parts are of their lines' kinds; a
  gap stands between two parts that need one (`WellLaid`); a line is in a fence when an
  odd number of fences is up to it.

**Texts_proofs** puts these together for the specification of MCSafety: `FilesStaySound`
(`FilesAreSound`, with `CheckpointInv` and `TextInv`) and `ChannelsStayFaithful`
(`ChannelsAreFaithful`, with `RepliesInv` and `LayoutInv`). As in Safety_proofs, one machine
moves while the others stay where they began (`TextsMove`).

**Safety_proofs**: the machines of MCSafety. `RefHasRow` is about MemoryEvents by itself:
`RefMeansRow` speaks of committed parts, but the second thread commits whatever the
connection has, so the invariant must hold of the visible parts, and in the gap between
the two statements the row must be there (`RowFirst`). The module's `Spec` moves one
machine while the others stay where they began, so each machine's invariant is shown to
hold at first and to be kept by its own next-state relation (`OneMoves` says which that
is), and the theorems put them together.
- `EndsStayOrderly` (`EndsAreOrderly`). HttpRequests (`HttpInv`): the time taken against the
  budget; an error is remembered just when a try has failed, and the response at hand is
  the last one's. AppRuntime (`AppInv`): each step of `start` has brought its part up and
  given its handle; what is up has a handle that is held, or is one of those that have
  none; and what each step of the shutdown that is behind leaves, but for those that
  failed, the loop that swallowed its cancellation, and the work that has no owner.
- `RunsStaySound` (`RunsAreSound`). SubAgentLoop (`SubInv`): the messages are sound and
  every call in them answered, but for the last results that are still to come, with
  pictures between the results of a batch; the reason of the end, the text and the report
  agree; what was called or forced has run; the request that
  leaves is well-formed and keeps the newest rounds in full (`RequestsAreTrimmed`). Drift
  (`DriftInv`): the list of recent runs is in order, and a run that was acknowledged is
  in it or older than all of a full one; a skill's listed runs are at most its count, one
  fewer between the two writes, and none is later than its last, as long as no tool has
  rewritten the files; what the prompt showed is what the list says; and a run's pushes are
  its one sent message and those whose send did not say so.
- `RecallStaysFaithful` (`RecallIsFaithful`), with `RetrievalInv`, `SessionInv` and `SlipInv`.
- `SavedStaysFound` (`SavedIsFound`) and `StoredFactsAreSpared` (`FactsAreSpared`), action
  properties of MemoryItems. `ItemInv`: rows are told apart by their texts, each has the
  vector of its own text but those whose entry was skipped, failed, or was cut off between
  the two statements (`torn`); a caller at its merge holds a text that can be joined; the
  worker's candidates are none of the rows it spares, and what the turn's tool chain wrote
  is pinned and spared, or a collision has hidden it. From it `StoredStep`, `KeptStep` and `SparedStep` hold of every step.
- `SessionsStayWhole` (`SessionsAreWhole`), with `SessionInv`, and for Channels
  `ChannelInv`: the window is the end of the sequence of what was let through; a name in
  memory, on disk or in the index leads to a chat in which its user has written; what is
  queued to start is in order and behind everything on the bus, and what waits is
  Telegram's only message, or has media.
- `McpStaysSound` (`McpIsSound`). McpPool (`PoolInv`): whoever is past the lock holds it, so
  at most one call uses a client; nothing is answered before a call is over; and which
  client the pool may have at each point of a call, so that no child is forgotten.
  McpServers (`ServersInv`): a client's tools are its own, what the tools are bound to is
  listed, no two servers have one client, and the file follows the list unless a write
  has failed or a removal was cut off before its save.
- `TracesAreNeverLost` (`TracesStayKept`). `QueueInv`: rows and queue rise, the rows before the
  queue, and each trace is in exactly one of the queue, the rows, and the ways to be lost
  (a full queue, a failed write, the cleanup). `StreamInv`: what a stream has shown and
  still holds is, in a row, what was due to it, less what it missed.
- `TypesStayCorrect` (`SafetyTypeOK`): every machine stays within its types and bounds.
  What is not in the invariants above is added here: the requests of a client are numbered
  on from 2 (`NumbersInv`); the queues of traces hold what they may (`LimitsInv`); the
  exits of a subagent are those of its own list (`SubTypes`); what is in files and
  checkpoints are texts (`FileTypes`); and `FitsInv` for the numbers of a session.

What the proofs changed. The models of AgentLoop (texts as sequences), Scheduler
(`Advance`), ToolLoop (`Without`), Traces (`Uncleaned`), SessionStore (`InOrder`) and
Channels (`TasksBut`, `Leads`), MemoryRetrieval (`Block`, `Lines`), FileText (`Matches`,
`Replaced`, `Bytes`) and TelegramText (cutting, laying out) lost folds, sorts and
selections that the provers cannot unfold, for equivalent definitions by sets, positions
and recursive functions. Models that were wrong, in ways that no run could show:
MemoryItems let a table be without room for its first row; a save of one chat's metadata
in Channels wrote every chat's, while the users of QQ's private chats were not put into
the index of names; a subagent that ended by an exception kept the exit tools it had still
to force, which belong to a call that is over. And `EditIsLocal` claimed too much: an old
text with a lone `\r` of its own may cut a CRLF in two, so the property now asks that
neither text of the call brings one.

Only model-checked, and why:
- liveness (`RunsComplete`, `FactsReachMemory`, `OccurrencesPass`, `EverythingDrains`,
  `TimedTaskEnds`, `JobsAreTold`, `TurnsEnd`): fairness and ENABLED are beyond the prover;
- `ReadingsAreFaithful`. What a list or a search returns (`ViewsAreWhole`, `SearchIsFaithful`)
  is computed with sorts and selections that take an operator as a parameter, and
  compared with a reference definition; the provers cannot unfold the library's
  definitions of these for an arbitrary length. `SourcesAreServed`
  speaks of lists that are no longer than its bound and feeds with ids of
  their own, which the configuration gives it: the inputs are the question there.

## 6. Where code and documentation disagree

Each of these is a run whose one property states what the code's own comment or
message says; TLC finds the counterexample.

| run | what happens |
|---|---|
| `consolidation_trim` | a retry trims the list while a run holds a window; the index stored at its end counts rows as archived that no run has read |
| `pending_isolated` | an append that opened PENDING.md before the rename lands in the snapshot after it was read, and is unlinked unmerged |
| `loop_chat` | a scheduled soft job overwrites the process-wide tool context in the middle of a user's turn |
| `scheduler_cancel` | a recurring job cancelled while it executes puts itself back |
| `memory_merge` | two saves merge into one procedure; the later write overwrites the earlier addition |
| `background_wait` | a kill ends the turn of a `task_output` call that waits for the task |
| `proactive_silenced` | a message whose send failed is taken for one that was sent; its repetition is suppressed and its alert acknowledged |

Further properties that the code does not have; each is stated in its module, and put
into the configuration named here in place of its properties TLC finds the
counterexample. They are kept out of the list above because the text they contradict
is weaker, or the loss smaller:

| property | configuration | what happens |
|---|---|---|
| `HistoryOnce` | `MCConsolidation_trim.cfg` | a failed run is repeated with a larger window; the source_ref differs and HISTORY.md gets the messages twice (`consolidation.py:1128`) |
| `ResumedIsCommitted` | `MCTurn.cfg` | after /stop a subagent's completion uses up the interrupt state (`core.py:563`) |
| `StopKeepsEarlier` | `MCTurn.cfg` | a second /stop replaces the texts the first one saved |
| `SourceIsOwn` | `MCTurn.cfg` | a completion's turn inherits the source_ref of another chat's message |
| `TimeoutIsReported` | `MCTurn.cfg` | the reply of a turn that timed out is not published |
| `MirrorsWindow` | `MCTurn.cfg` | a consolidation run writes older turns over newer ones in RECENT_CONTEXT.md (`consolidation.py:840`) |
| `OwnTurnIsSpared` | `MCMemory_merge.cfg` | after a collision the reported id is the retired row; the worker retires the other one |
| `EventIsSaved` | `MCMemory_merge.cfg` | the second thread's transaction makes an event's `BEGIN` fail; the event is dropped and the index advances |
| `EventIsFound` | `MCMemory_merge.cfg` | an event's vector is not committed with its row |
| `EndedKeepsItsDelay` | `MCBackground_wait.cfg` | a finished task keeps its timer, which deletes its output early (`shell.py:186`) |

Seen while modelling ToolLoop, without a property of its own: a call of a tool
that was unregistered counts as a success and stays in the LRU; tool_search unlocks
for the later calls of its own batch, while its comment says the next round;
mcp_add announces its tools as usable at once, although they are deferred.

Further observations from the code, outcomes the models have (their properties name
the exceptions) unless marked (r), which were only read:

- *Turns and sessions.* A commit that raises after `add_message` leaves its texts in the
  session and the interrupt state in place, so they are committed once more
  (`context_store.py:196`, `core.py:562`). A cancellation that escapes a tool ends the turn
  without reply or stored text. Deleting the newest rows lets the next message reuse an id
  (`session/manager.py:316`); the dashboard's metadata is overwritten by the next save from
  the cache; a message whose insert failed is stored after younger ones; a trimmed
  session's rows return after a restart with the trimmed mark. A shortened
  history may begin with a tool result whose call was cut off (`reasoner.py:756`). A
  fact that the optimizer has merged and a later window repeats is merged again (r).
- *Files.* When a page's first line fits only without its number, the page has no line and
  says "truncated"; overlapping matches count as one; a multi-line replacement with LF
  brings mixed line ends into a CRLF file, and CRLF in the new text becomes `\r\r\n`; the
  checkpoint of a torn write is never told.
- *Memory writes.* The calls made in a refused attempt are in no tool chain, though they had
  their effects: the worker may retire what they saved. A row whose vector is skipped or
  fails is reported as saved (`memory2/store.py:237`, `245`); its index entry is that of
  its former text, or missing until a restart's migration, so a search by the index misses
  it or takes it for what it was.
- *Subagents.* A picture stands between the results of a batch; forced exit tools are not in
  the report's list. A report whose turn times out or is stopped is never told.
- *Drift.* A send that arrived and then said it failed lets the run push again; tools may
  rewrite the records the next run is chosen by. The prompt shows eight skills by age although a rule asks to compare all;
  finish_drift takes skills whose server is missing; the offered tools only advise,
  any registered one is executed.
- *Memory reads.* An error in the event search drops the rules that were found; with a
  hypothetical query the budgets hold per search; the neighbours are limited before
  the filters; equal ranks after the fusion stand in set order.
- *MCP.* A removal that is cancelled inside the disconnect skips the save: tools and client
  are gone, and the next start brings the server back (`registry.py:69`). A server that fails at start is gone from `mcp_servers.json` with the next save;
  an answer that looks like JSON and is none counts as failed and the call is
  repeated; the client of an overwritten addition keeps its tools; failed handshakes
  leave the child running.
- *Peers.* The end of one task kills the process under the others, which then wait out
  their hour; a peer too busy for a health check is displaced; one that
  ignores SIGTERM when its start took too long runs on without a handle
  (`process_manager.py:119`); a submission that was
  cancelled or repeated leaves work nobody is told of; pending tasks do not
  survive a restart.
- *Traces.* Retention compares `T` with a blank in timestamps, so rows stay up to a day
  longer; a write that meets the cleanup's lock is lost.
- *Channels.* `telegram_utils.py:177` says that the limit is counted in UTF-16 units, but only
  the blocks of thinking are; a text with emoji beyond the limit is refused. Of a streamed reply the text beyond the limit is never sent, though
  `telegram_utils.py:5` speaks of splitting; errors are swallowed where
  `bus/queue.py` expects them, so neither retry nor notice happens; an exception of a
  preview aborts the turn; a late reply finalizes the next turn's stream; a failed
  chunk repeats the whole text; a send that timed out after it arrived is shown twice;
  a photo whose download fails is lost as "seen"; a QQ message with images is overtaken.
  `bootstrap/channels.py:26` leaves the IPC server unstarted, whose `stop` raises at
  every shutdown.
- *Process.* A cancellation during a turn leaves the main loop running while the shutdown
  closes the stores and clients it uses; jobs, consolidation and post-turn tasks are ended
  by nobody. A dashboard or trace task that has raised makes shutdown skip its steps;
  peers' processes survive then; Telegram goes on polling when QQ's start fails; MCP
  servers of the registry are never ended.
- *HTTP.* Redirect and decoding errors are not retried. When the budget ends after a 503 an earlier try's error is raised; timeouts
  are per wait, so a dripping answer outlasts the budget.
- *Scheduler* (r). The cron fallback replaces "7" in the text, so `1-7` and `*/7` change their
  meaning, and counts fields and weekdays otherwise than the library.
- Process groups started by the shell tool outlive a process that is killed (r).

## 7. What is not modelled

`PROJECT.json` lists each component with its status. In short:

- Data: the texts of prompts, parsing of model answers, scores and thresholds, cron and
  time-zone arithmetic, formatting. Where a decision depends on them, the model has
  all its outcomes.
- The scheduler's parsing of times and its cron fallback; the deduplication decider and
  the tagging of memories, which are calls of a model; the decision traces of proactive
  ticks, which nothing emits; the CLI's socket server, which nothing starts; the
  discovery of peers; ModelRouter and the LangGraph wrapper.
- Plain I/O and wiring: the libraries of Telegram, QQ and MCP, the pages of the
  dashboard, configuration, skills, memes, evaluation, containers.

## 8. Plan

Done, in this order: Consolidation (the index is what everything else trusts),
PendingFile with FactLedger, AgentLoop, PostTurn, Scheduler, MemoryItems and
MemoryEvents, ShellTasks and SpawnJobs, ProactiveTick, ToolLoop; then SubAgentLoop,
Drift, FileText and FileTools, SessionStore and SessionViews, MemoryQuery and
MemoryRetrieval, McpPool and McpServers, PeerTasks, Traces, the three modules of the
channels, HttpRequests, AppRuntime.

Abstract specifications worth stating next: an at-most-once mailbox for AgentLoop's
commits and SpawnJobs' reports, a durable job table for the Scheduler.

Theorems next: the two abstract specifications above with their step simulations; for
`ReadingsAreFaithful`, the sorts and selections of SessionViews and MemoryQuery as
recursive functions of a position, with the lemmas of TextLemmas about these.
