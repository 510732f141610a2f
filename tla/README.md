# A verification project for HaloWebUI

HaloWebUI is a chat front end for language models: a Svelte client and a
FastAPI server (`backend/open_webui`).  The server is one asyncio event loop
per worker.  Most of what can go wrong in it, and what its tests hardly reach,
is in the coroutines that outlive a request: the reply that is generated in a
background task, the tools it calls, the child processes of MCP servers, and
the chat document all of them write to; then the gateways to chat platforms,
the pool that workers share over Redis, and the caches in front of the model
providers.  This project models those seven parts in TLA+, checks them with TLC
and proves with TLAPS what was checked of their safety.

Paths below are relative to `src/backend/open_webui/` unless they begin with
`src/`.

Contents: 1 the system, 2 the modules, 3 the runs, 4 fairness, 5 the proofs,
6 disagreements found, 7 what the models leave out, 8 what is left.

To check everything, for each `X.cfg` of section 3 run
`tlc -config X.cfg <module>`, and `tlapm` on the seven modules whose names end
in `Proofs`.

## 1. The system

### 1.1 The parts that are modelled

**Chat response tasks** (`tasks.py`, `utils/middleware.py`, `main.py:1877`).
State: three dictionaries (`tasks`, `chat_tasks`, `task_metadata`), one
coroutine per reply, and for each reply the text in memory, the text in the
chat document and its `done` flag.  Operations: create a task, run it, its done
callback, list the tasks of a chat, stop a task.  The handler saves the reply to
the chat store, emits events to the socket and generates title, tags and
follow-ups before it ends.  Hard: a cancellation is delivered at whatever await
the handler happens to be in, and the handler swallows it in some of them; the
done callback and the stop request both remove the task.  Correct means: the
dictionaries agree; a page that is told that nothing is generating finds the
whole reply; a stop neither loses nor undoes a finished reply; tasks leave the
registry and stop requests get answered.

**Tool rounds** (`utils/middleware.py`, inside the same handler).  State: the
content blocks of the reply, the queue of tool calls, and the *governor*:
counters, a set of call signatures, blocked domains and an adaptive pressure
level.  Operations: a model turn, a round of tool calls (local ones in sequence,
network ones two at a time), the adaptation after a round, the forced final
answer, the fallback to prompt-based calling, the retry after empty output.
Hard: network calls of one round share the counters while each waits for its
tool or for `governor_lock`, and they come back in any order; five different
paths leave the loop.  Correct
means: limits are kept, no call runs twice, every turn sees one result per call
in the order of the calls, nothing runs after a final answer was forced, an
empty reply says why, and the loop ends.

**stdio MCP clients** (`utils/mcp.py`).  State: one registered client per
connection and user; per client the process, three flags, a lifecycle lock and
a request lock; an idle reaper.  Operations: `get_or_start`, `start` with its
handshake, a request with timeout and cancellation, the reaper, `stop_all`.
Hard: three callers of `start` queue on the lifecycle lock while holders of the
request lock restart the process; replies of calls that were given up stay in
the pipe.  Correct means: a reply goes to the call that asked; the reaper
leaves processes in use alone; no call hangs but on a server that does not read;
idle processes are reclaimed and none is forgotten.

**Chat store** (`routers/chats.py` over `models/chats.py`).  State: the chat
rows, each with one JSON document, a share id and a folder; a second row per
shared chat.  Operations: create, import, clone, branch, partial update, save a
message, rename, move, share, unshare, delete (one, all, a folder).  Hard: the
partial update reads the document, awaits, and writes the whole document;
several routes commit more than once and may be cut short between commits.
Correct means: links stay with their chat, deleted chats stay deleted, a
link's copy is the snapshot its owner took.

**HaloClaw gateways** (`haloclaw/lifecycle.py`, `dispatcher.py`, `models.py`,
`router.py`, `adapters/feishu.py`).  State: the gateway's row, the switch
`ENABLE_HALOCLAW`, the dispatcher's reference to the application, the registry of
running adapters, the events an adapter has seen, the senders' rows and the
message log of the gateway.  Operations: create, save, toggle and delete of the
gateway; turning the switch; startup, shutdown and crash of the server; a
webhook call and the task that processes its event.  Hard: starting and stopping an adapter await the
platform, so requests overlap inside them; the tasks of all chats append to one
log; the platform repeats events; gateways are deleted under tasks in flight.
Correct means: a gateway that was toggled on, or enabled at a start-up that is
switched on, runs; a repeated event is heard
once; answers follow questions; the model is asked with the history of one chat;
nothing that was deleted gets new questions.

**Usage pool** (`socket/main.py`, `socket/utils.py`).  State: a Redis hash from
model to the sessions that use it, a lock with a time to live.  Operations:
report, list, sweep; acquire, renew, release.  Hard: workers run the commands of
reports and sweeps interleaved, each writes back what it read before; the
renewal does not look at the owner; a sweeper that meets an error ends for good.
Correct means: one worker sweeps; the sweeper does not end by an error; what is
not used any more goes, what is used gets listed.

**Base-model cache** (`utils/models.py`, `utils/auth.py`, `routers/users.py`).
State: the cached list and its age, the registered refresh task, the cached user
row.  Operations: a request for the models, the refresh and its done callback,
invalidation, saving connections.  Hard: requests share a task that an
invalidation or a stopped request cancels under them; a thread may cache a row
that a save has just replaced.  Correct means: no list from before an
invalidation is served after it; one refresh at a time; saved connections are
used in the end.

### 1.2 How they interact

    browser --POST /api/chat/completions--> process_chat_response
       |                                          | create_task
       | POST /api/tasks/stop                     v
       +------------> stop_task --cancel--> post_response_handler --+
       |                                     | rounds of tool calls |
       | POST /api/v1/chats/{id}             v                      | upsert message
       |                               run_single_tool_call         | set title
       v                                     | stdio tool           v
    update_chat_by_id                   get_or_start / call_tool   chat rows
       |                                     (MCPStdio)            (ChatStore)
       +------------------------------------------------------------^

     platform --webhook--> adapter --> handle_message --> message log (HaloClaw)
     browser  --usage/s--> worker ----> USAGE_POOL in Redis <---- sweeper (UsagePool)
     any request --> get_all_base_models --> cache / shared refresh (ModelCache)

A stop reaches an MCP call as a cancellation of the task that awaits it
(`CancelCall` of MCPStdio); the saves of a reply are `UpsertMessage` and
`SetTitle` of ChatStore; the content of a reply is a number in ChatTasks and a
sequence of blocks in ToolRounds.  A stopped reply that was waiting for the list
of models is the `Stop` of ModelCache.  The three parts added below the diagram
share nothing with each other and only calls with the rest.

### 1.3 The other parts

| Part | Why it is not modelled |
|---|---|
| Tags, archive and pin flags (`models/tags.py`) | one step per route; that a tag in use has its row is broken by the counting in a single line (`routers/chats.py:1005`), which no doc speaks against |
| `chat_message` mirror, analytics | written in the same step as the document, read by statistics only |
| Folders (`models/folders.py`) | routes over single rows; deleting a folder with its chats is in ChatStore |
| Session and user pools (`socket/`) | in one process each handler is a single step; over Redis two workers that connect a user at once lose one of the sessions (`socket/main.py:196`) and nothing repairs it, so no property holds |
| External API gateway (`external_api/`) | requests share only the audit rows the rate limit counts; the rest is forwarding |
| Sign-up and sessions | a lock makes the critical section sequential, the rest is local to a request |
| Access control, groups, users | predicates over rows; deleting a user is a chain of deletions in one request |
| Backup and restore | file I/O around one table of tokens |
| Retrieval, files, knowledge | dominated by vector stores and services |
| Channels and messages | operations on single rows with socket announcements |
| Model providers | conversion of requests and network I/O; environment of ChatTasks and ToolRounds |
| Memories, notes, prompts, skills, tools, functions, workspace models | single-row operations |
| Audio, images, terminal, code interpreter | external processes and services |
| Configuration, migrations, start-up | run once before any request |
| Web frontend | its requests are the environment's actions |

`PROJECT.json` lists under "hazards" what is hard to test in this code, each at
its line, with the property that covers it or the reason why none does.

## 2. The modules

| Module | Models | Extended or instantiated by |
|---|---|---|
| `ChatTasks` | registry, handler, stop endpoint | `MCChatTasks`, `ChatTasksProofs` |
| `ReplyPage` | abstract: what a page that loads a chat may rely on | `ChatTasks`, by INSTANCE with a refinement mapping |
| `ToolRounds` | the tool loop of one reply | `MCToolRounds`, `ToolRoundsProofs` |
| `ToolBudget` | abstract: what a reply promises about its tools | `ToolRounds`, likewise |
| `MCPStdio` | stdio clients of one fingerprint | `MCMCPStdio`, `MCPStdioProofs` |
| `SerialPipe` | abstract: one call at a time speaks to a process | `MCPStdio`, likewise |
| `ChatStore` | one user's chats and share links | `MCChatStore`, `ChatStoreProofs` |
| `SharedLinks` | abstract: what a share link promises | `ChatStore`, likewise |
| `HaloClaw` | one gateway, its adapters and its messages | `MCHaloClaw`, `HaloClawProofs` |
| `Conversation` | abstract: what a gateway promises about its messages | `HaloClaw`, likewise |
| `UsagePool` | the pool of models in use, its sweeper and lock | `MCUsagePool`, `UsagePoolProofs` |
| `ModelCache` | the model lists of one user | `MCModelCache`, `ModelCacheProofs` |

The five abstract modules are specifications of their own, with none of the
program's locks, awaits, retries and failures; that the detailed module
implements one is a property of its run and a theorem.

The `MC...` modules hold the values of constants that a cfg cannot write, and
the symmetry sets of ChatStore and HaloClaw.

One convention holds in most of them: everything runs on one event loop, so a
step is what one coroutine does between two awaits, and a variable (`phase`,
`pc`, `stage`, `request`) records the await it is suspended at.  Two modules are
finer where the code is: in UsagePool several processes run, and a step is one
Redis command; in ModelCache the user row is read and cached in threads, and a
step is one access to shared data there.  An operator
named `X_Defect` is `X` with a plausible defect, tried as a mutant; no
specification uses one.

### 2.1 ChatTasks

| Code | Model |
|---|---|
| `tasks`, `chat_tasks`, `task_metadata` | `tasks`, `chatTasks`, `taskMeta` |
| the await `post_response_handler` is suspended at | `phase[t]` |
| `task.cancel()` not yet delivered | `cancelReq[t]` |
| done callbacks the loop has scheduled | `callbacks` |
| `content_blocks` / message in the document / its `done` | `streamed`, `saved` (lengths), `done` |
| `create_task`, `cleanup_task`, `list_task_ids_by_chat_id` | `CreateTask`, `CleanupTask`, `ListBlocking` |
| `stop_task` before and after `await task` | `StopTaskMissing`, `StopTaskLive`, `StopTaskEnded`; `StopTaskReturns` |
| `except asyncio.CancelledError` (7718) | `CatchCancel` at the awaits in `Guarded`, `DieOfCancel` elsewhere |
| the final save and the flag that ends "generating" | `Finalize` |

The done callback runs before the requests that await the task resume, which is
the order of `add_done_callback` calls in asyncio: `StopTaskReturns` waits for
`t \notin callbacks`.  `RealtimeSave` is `ENABLE_REALTIME_CHAT_SAVE`; the runs
and the theorems about saved text use its default, FALSE, under which the reply
is saved once at its end.

`ReplyPage` is what `GET /api/tasks/chat/{id}` means to a page that loads the
chat: a reply is listed once; while it is, its text grows; it leaves the listing
*settled* (the document holds all of it, marked done) or *dropped* (not marked
done), and then neither text nor document changes.  In the mapping
(`ListingTells`) `begun` is `Known`, the tasks ever created, `generating` what
`ListBlocking` returns, `text` is `streamed` and `doc` is `saved`.  `Finalize` is
`Settle`; a task that leaves the registry while listed is `Drop`; the stages of
the handler after `Finalize`, callbacks and stops are stutters.

### 2.2 ToolRounds

| Code | Model |
|---|---|
| `content_blocks`, `tool_calls`, `tool_call_retries` | `blocks`, `queue`, `rounds` |
| `seen_tool_signatures`, `tool_exec_total`, `per_tool_counts`, `fetch_attempt_count`, `fetch_domain_failures` | `seen`, `total`, `perTool`, `fetches`, `blocked` |
| `adaptive_pressure_level`, `low_gain_rounds`, `consecutive_no_text_rounds`, `force_final_round` | `pressure`, `lowGain`, `noText`, `forceFinal` |
| where each call of the round is: the semaphore, `governor_lock`, its tool, an announcement | `stage[i]` |
| `stream_body_handler` | `TextDelta`, `ReasoningDelta`, `StreamEnds` |
| an answer that is not streamed | `AnswersOnce` |
| a call's result comes back; `executed_by_index`, `executed_calls` | `Returns`, `arrived`; `ExecutedByIndex`, `Executed` |
| `run_single_tool_call` | `StartCall`, `StartRedundant`, `StartUnknown`, `GetLock`, `SkipAnnounced`, `ToolReturns`, `MarkBlocked` |
| `execute_tool_calls_with_governor` | `MayStart`, `EndRound` |
| the end of the handler | `LeaveLoop`, `LeaveRetry`, `Finalize` |

The limits are functions of the pressure level, as in the code (where they are
24/20/14/10 calls, 4/3/2/1 fetches and 8/6/4/3 per tool).  `ran` is a history
variable: what was really executed, from which the budget is counted
independently of the governor's own counters.

`arrived` is the list of results, each with the index of its call, in the order
in which the calls end.  The code runs the local calls one after another, then the
network calls, whose results `asyncio.gather` hands over in the order of its
arguments; the model keeps the order in which the calls really end, and so asks
more of what follows.  The results are put under their index and read back in the
order of the calls
(`utils/middleware.py:6680`), and the block is answered with what is read
(`AnsweredBlock`): that the provider gets one result per call in order
(`EveryCallAnswered`) is a matter of this reassembly and of no call being
missing at the end of the round.

`ToolBudget` is the governor's contract without its counters, signatures, lock
and semaphore: a call is started once, at most two are under way, the limits are
those of the level reached, the level is reviewed only when no call is under
way, and closing is for good.  The mapping (`WithinBudget`) reads `going` off
the calls whose `stage` is "running", `level` off `pressure`, `closed` off
`forceFinal`.  Fetches are `Metered`, with the two attempts more than their limit
that the code allows.  A call under way is its position in the batch with the
call, so two equal calls would count as two.

### 2.3 MCPStdio

| Code | Model |
|---|---|
| `_clients[fingerprint]` | `registered` |
| `process`, `_ready`, `_tainted`, `_last_activity` | `proc`, `ready`, `tainted`, `idle` |
| `_lifecycle_lock`, `_request_lock` | `life[c]`, `req[c]`: the holder, then the waiters in order |
| `_inflight_requests` | `Inflight` |
| `get_or_start` | `GetOrStart`, `StopStale`, `StaleStopped` |
| `start` (three callers per call: `starts`) | `PassStart`, `Restart`, `Spawned`, `Initialized`, `Notified`, `HandshakeFails`, ... |
| `_perform_request`, `call_tool`, `list_tools` | `BeginRequest`, `Reply`, `EndOfFile`, `Timeout`, `TimeoutUnheard`, `ListingTimeout`, `CancelCall` |
| the notification after a timeout, awaited under the request lock | `CancelledNotified`, `Hangs` |
| `_idle_reaper`, `reap_if_idle` | `ReaperWakes`, `ReapDead`, `ReapSpares`, `ReapIdle`, `PopDead` |
| `stop_all` | `StopAll`, `StopLast`, `LastStopped` |

`late[c]` is what the pipe may still yield from requests that were given up;
`cut` are the readers whose process was let go under them.  `Reply` does not
ask for a living process: what it wrote before it ended is still read.  After a
timeout the call tells the server that it gave up (`Timeout`, then
`CancelledNotified`), unless there is no process to tell (`TimeoutUnheard`).  The
write is awaited with no bound, so with a server that does not read its stdin the
call stays there (`Hangs`), with the request lock, until the process ends or is
let go under it.

`SerialPipe` is what the request lock is for.  A call *greets* a process (the
handshake) or *asks* it (its own request); from the asking on, nobody else speaks
until the call is settled, by its own reply or by a failure.  The mapping
(`OneSpeaks`) takes as greeting the holder of the request lock at the
handshake, and as asking the calls whose own request is in the pipe, whether
they hold a lock or not; so that the lock is never let go under a request, in
restarts, timeouts, cancellations and reaping, is part of what is shown.
`WaitsEnd` says that the two locks are waited for without circles.

### 2.4 ChatStore and SharedLinks

| Code | Model |
|---|---|
| rows of table `chat` | `chat[c]`: `NotYet`, a document, or `Gone` |
| rows with `user_id` "shared-..." | `copy[l]`, by share id |
| `update_chat_by_id` suspended in the image normalisation | `request[r]`, with the form and the merged payload |
| `insert_shared_chat_by_chat_id`, `update_shared_chat_by_chat_id`, `delete_shared_chat_by_chat_id` | `ShareFirst`, `ShareAgain`, `Unshare` |
| a crash between two commits | the actions named `...Crashes` |
| `get_chat_by_share_id` | `Opened` |

SharedLinks says what `ShareChatModal.svelte` tells the owner: a link holds the
last snapshot taken, edits do not change it, a revoked link stays revoked.  The
mapping reads `doc[c]` off the chat rows and `link` off the copies; share first
and again are `Take`, unshare and deletions are `Revoke`, everything else is
`Edit` or a stutter.

### 2.5 HaloClaw

| Code | Model |
|---|---|
| table `haloclaw_gateway`, its `enabled` | `row`; "on" (by the toggle or by a start-up) and "stored" (by a form, which starts nothing, or passed over by a start-up that is switched off) are both enabled |
| `ENABLE_HALOCLAW`, which is persistent; `dispatcher._app` | `switch`; `app` |
| `lifecycle._adapters` | `registered` |
| an adapter object: `_running`, its http client, `_seen_events` | `adapter[a].stage`, `.seen` |
| `start_gateway`, `stop_gateway` around their awaits | `BeginStart`, `Started`, `StartedDead`, `StartRaises`; `BeginStop`, `Stopped` |
| `startup_haloclaw`, `shutdown_haloclaw`, the process's end | `StartUp`, `Serve`, `Shutdown`, `Restart` |
| create, update, toggle and delete routes; `update_haloclaw_config` | `Create`, `Save`, `ToggleOn`, `ToggleOff`, `Delete`; `Configure` |
| `feishu_webhook_callback`, `process_incoming` | `Webhook`, `Repeated`, `BeginText`, `BeginImage`, `Fetched`, `FetchFails` |
| `handle_message` up to the model, after it, and the sending | `Hear`, `Ignore`; `Answer`, `NoAnswer`; `Send`, `SendFails` |
| `haloclaw_message_log`, `get_history` | `log` in the order of `created_at`, `History` |

A deleted gateway keeps its adapter, as in the code (the route stops none), so
events still reach `handle_message`, which finds no row.  `context[d]` is a
history variable: what the model was asked with.

The switch is read in one place, `startup_haloclaw`: with it off, `StartUp` starts
no gateway and gives the dispatcher no application, and `handle_message` then
drops everything (`Hear` needs `app`).  `Configure` only writes it.  `ToggledOnRuns`
is therefore about gateways that were toggled on since the server started, or
that a start-up with the switch on found enabled: `StartUp` with the switch off
leaves an enabled gateway "stored".

`Conversation` is the gateway seen from the chats: a message is asked once, with
the newest messages of its chat up to a limit and itself the newest; answered
once; sent only once logged; and nothing is asked, and no sender added, after
the gateway is gone.  The mapping (`KeepsConversation`) reads the stage of a
message off whether it was heard and where its task is, `asked` off `context`,
`gone` off `row`.  `Hear` is `Ask`, `Ignore` may be `Meet`, a failure or a
restart is `GiveUp`, the delete route is `Delete`; adapters, requests, repeats
and everything else about a message are stutters.

### 2.6 UsagePool

| Code | Model |
|---|---|
| `USAGE_POOL`, a hash in Redis | `pool[m]`: the age of each session's entry |
| what a command read and a later one writes back | `copy[w]` |
| `RedisLock` | `lock`: the worker whose id the key has |
| `periodic_usage_pool_cleanup` | `cleaning` (inside its try block), `Renew`, `Read`, `Sweep`, `Leave` |
| `aquire_lock`, `release_lock` | `Start`, `Check`, `Drop` |
| the handler `usage`: HEXISTS, HGET, HSET | `Report`, `Get`, `Set` |
| time to live of the key; death and orderly end of a worker | `Expire`; `Crash`, `Shutdown` |

`job[w]` is the command a worker comes to next: there is no await between the
commands of one handler, so a worker does one job at a time and only other
workers come in between.  A pass takes its time once, before it reads: `Read`
drops from the copy what has expired by then, `Sweep` writes that copy back, and
what expires meanwhile is left to the next pass.  `Age` is the three seconds
after which a report counts as old.  `reported` is a history variable: the age of
each session's last report of a model, whatever became of its entry.

### 2.7 ModelCache

| Code | Model |
|---|---|
| `_base_model_cache[user]` with its time | `cache`, `Age`, `Evict` |
| `_base_model_refresh_tasks[user]`, the tasks | `current`, `task[t]` |
| `_schedule_base_model_refresh`, `_runner`, `_finalize` | `Schedule`, `Fetched` and `Cancelled`, `Finalize` |
| `get_all_base_models` | `CallFresh`, `CallStale`, `CallMiss`; `Stop` when its request is cancelled |
| `invalidate_base_model_cache` | `DropModels`, in `Invalidate` and `Reconfigure` |
| `get_current_user` and `_user_cache` | `Ask`, `ReadUser`, `StoreUser`, `UserExpires`; `userCache` |
| `update_user_settings_by_session_user` | `Save`, then `Invalidate` |

A list of models is the version of the connections it was fetched with and the
*epoch* (the number of invalidations so far) in which its fetch began.  While the
settings route is between its commit and its invalidation (`saving`), the event
loop does nothing else, but threads do.

## 3. The runs

| Run | Module, cfg | Distinct states | Shows |
|---|---|---|---|
| `chat_tasks` | `MCChatTasks`, `ChatTasks.cfg` | 212 357 | registry, saved replies, final stops, refinement of ReplyPage (listing, stable replies), liveness |
| `tool_rounds` | `MCToolRounds`, `ToolRounds.cfg` | 689 828 | empty replies, refinement of ToolBudget through raised pressure and the forced answer, the loop ends |
| `tool_rounds_network` | `MCToolRounds`, `ToolRoundsNetwork.cfg` | 713 948 | results in order, refinement of ToolBudget (budget, duplicates) with calls side by side |
| `tool_rounds_stuck` | `MCToolRounds`, `ToolRoundsStuck.cfg` | violation | a successful retry kills the handler |
| `mcp_stdio` | `MCMCPStdio`, `MCPStdio.cfg` | 262 752 | locks without circles, the reaper spares calls, refinement of SerialPipe (replies are own), calls return unless a server does not read, processes are reclaimed |
| `mcp_stdio_orphan` | `MCMCPStdio`, `MCPStdioOrphan.cfg` | violation | two first calls leave an orphan process |
| `chat_store` | `MCChatStore`, `ChatStore.cfg` | 277 307 | links, deletions, refinement of SharedLinks |
| `chat_store_shared` | `MCChatStore`, `ChatStoreShared.cfg` | violation | a link shows the live chat |
| `chat_store_rename` | `MCChatStore`, `ChatStoreRename.cfg` | violation | a rename overwrites a reply |
| `haloclaw` | `MCHaloClaw`, `HaloClaw.cfg` | 1 690 946 | toggles under the switch, repeated events, refinement of Conversation (message log, histories, deletions) |
| `usage_pool` | `MCUsagePool`, `UsagePool.cfg` | 42 407 | one sweeper that survives, entries no newer than reports, a worker alone loses none, stale usage goes, used models are listed |
| `model_cache` | `MCModelCache`, `ModelCache.cfg` | 301 241 | lists are since asked, one refresh, nobody waits for a forgotten one, settings take effect |

### 3.1 Bounds, and why they are enough

* **chat_tasks**: two chats, two tasks, two stop requests, two pieces of text.
  Tasks share nothing but the dictionaries, so two (in one chat or two) show
  every interference; two stops give the double stop of one task and the stop
  of each.  Two pieces are a reply half saved and one saved whole.
* **tool_rounds**: batches of one call, four rounds, two blocks, total limit 2,
  one unknown tool.  Pressure rises by one per round, so four rounds reach level
  3 and the forced answer; the blocks bound limits what a model streams to one
  block of reasoning in the first turn, and nothing the handler itself appends.
  The count of rounds without text cannot reach 5 here: the other condition
  forces the answer first.  `ReplyEnds` is checked here, with calls one at a time:
  what may block a reply, the announcement of a skip under `governor_lock`, takes
  one call; calls that contend for the lock are in tool_rounds_network.
* **tool_rounds_network**: batches of up to three network calls over one search
  and two fetches of one domain, one round: with a semaphore of two, three calls
  are the fewest of which one waits; limits 2, 2, 1, 1 make the budget bind.
  `Native` is FALSE here and TRUE in the other runs.  Fetches get two attempts
  more than their limit, as in the code.
* **mcp_stdio**: two calls, two client objects (a call creates at most one, so
  these are all that two calls can make), one of the calls `tools/list`, one
  cancellable, reaper and shutdown.  Two calls are the fewest
  that contend for both locks; the finding `mcp_stdio_orphan` needs no more.
  A shutdown may come and need not (`StopAll` is not fair), so `stop_all` does
  not do the reaper's work for it.
* **chat_store**: two chats, three share ids (first, after an unshare, and one
  issued by a share that crashed), one update in flight, two titles, two texts,
  folder limit 1.  The values of titles and texts, the chats and the ids are
  interchangeable: no definition names one of them, and `CHOOSE` is not used, so
  `Symmetry` is sound; the run has no liveness property.
* **haloclaw**: two administrator requests (the fewest that overlap), two
  adapters, one restart of the server, three deliveries: an image event delivered
  twice in one chat and a text of another chat, which is what repetition and
  mixing of chats take.  A history of two entries is shorter than the log of a
  chat.  The switch starts either way and may be turned by a request.  Adapters
  and administrators are interchangeable and no `CHOOSE` is
  used, so the symmetry is sound; the run has no liveness property.
* **usage_pool**: two sessions on two workers and a third worker without any, each
  of which may start at any time: the sweeper, a reporter on another process, and
  a process that starts after a crash.  One model, since models share nothing but
  the pass that goes through them; that a pass over several models is not left
  by an error is covered by the theorem, for any set of models.
* **model_cache**: two requests, made again and again, two task objects (one
  cancelled and still ending, one that replaces it), one save of other
  connections and one invalidation more: the fewest for a list of before a save,
  one of after it and a refresh between the two.

The violation runs use the smallest constants that show the violation.

`CHECK_DEADLOCK FALSE` is set in every cfg because each system may really stop:
tasks, calls, replies, ids, deliveries and workers are finite and used once, and
a state in which all of them are used up has no successor.  What must not stop
is stated by `TasksLeave`, `StopsAnswered`, `ReplyEnds`, `CallsReturn`,
`RegisteredReclaimed`, `StaleUsageGoes`, `ReporterListed` and
`SettingsTakeEffect`.

## 4. Fairness

Only liveness properties need it; every run that has none uses `Spec`.

* **ChatTasks** (`TasksLeave`, `StopsAnswered`): weak fairness of each task's
  `HandlerStep`, of `CleanupTask` and of `StopTaskReturns`.  The event loop runs
  every coroutine whose await is over and every scheduled callback.  The
  handler's awaits end: model streams and the calls that generate titles go
  through HTTP clients with timeouts, a reply has at most `MaxDeltas` pieces,
  emitting an event waits for nobody.  Nothing is assumed of users: creating a
  task and stopping one is not fair.
* **ToolRounds** (`ReplyEnds`): weak fairness of `TurnEnds` (a model turn ends or
  fails), of `RoundStep`, and of the calls of a round together.  No strong
  fairness is needed: no step of a round is disabled for good by another.
* **MCPStdio** (`CallsReturn`, `RegisteredReclaimed`): weak fairness of each
  call's steps except where it `Hangs`, of the reaper, of the shutdown, and of
  `BecomeIdle`.  Waits for a lock end because the lock is handed on in order;
  waits for a process end because of the timeouts of the handshake, of
  `tools/call` and of `tools/list` (5 s of waiting, then a kill, for a process
  that is let go); `BecomeIdle` says that time passes.  One wait has no bound:
  after a timeout `_send_notification` awaits `stdin.drain()`
  (`utils/mcp.py:1250`, `:1344`) with the request lock held, and a server whose
  stdin is full and not read keeps it there.  No fairness is assumed of it, and
  `CallsReturn` says that a call returns unless a call of its client hangs so for
  ever.  Server exits and cancellations are not fair.
* **UsagePool** (`StaleUsageGoes`, `ReporterListed`): weak fairness of the
  commands of a job under way (`Continue`); strong fairness of `Renew` and of
  `Report`.  Both are disabled while the worker does another job, again and
  again; the event loop serves its ready callbacks in order, so a sweeper whose
  sleep is over and a report that has arrived do get their turn, which weak
  fairness does not say.  `Age` is the passing of time.  Starts, ends, crashes
  and the use of models are not fair.
* **ModelCache** (`SettingsTakeEffect`): weak fairness of each request's steps
  (the user goes on asking; threads and the loop go on), of each refresh (each
  source has a timeout), of `Invalidate`, `UserExpires` and `Age`.  Saves,
  other invalidations, stops and evictions are not fair.
* **HaloClaw** has no liveness property: an event may be dropped at every point
  (no adapter, no token, a stop, a crash), and nothing delivers it again but the
  platform.

`CallsReturn` and `ReplyEnds` are where a deadlock would show: the first over
the two locks of a client, the second over `governor_lock`, which is held while
a skipped call is announced and is not reentrant.

## 5. The proofs

TLAPS proves the following for every value of the constants that satisfies the
ASSUMEs of the modules, which say only that bounds are natural numbers, flags
Booleans, the sentinels are no ids, and, where a count is taken, that a set is
finite.  Every invariant and every action property of the passing runs is
proved, and so are the five refinements, of `SharedLinks`, `ReplyPage`,
`ToolBudget`, `SerialPipe` and `Conversation`.  The conditions under which some
of them hold (`~RealtimeSave`, `~Stalls`) are hypotheses of the theorems and
values in the runs.  Nine properties that TLC checks only through a refinement
that implies them are proved on their own, too, in words closer to the code:
`FinalizedReplyStable` (implied by `ListingTells`), `RepliesAreOwn`
(`OneSpeaks`), `BudgetKept`, `OncePerReply`, `PressureRespected` and
`ForcedMeansNoTools` (`WithinBudget`), `AnswersFollowQuestions`,
`HistoryIsOfTheChat` and `DeletedLeavesNoQuestion` (`KeepsConversation`).  A
refinement is proved as usual: the initial states map to an initial state of the
abstract module, and under the invariant every action maps to one of its actions
or to a stutter.

**ChatTasksProofs**: `TypeCorrect`, `RegistryAgrees`, `HiddenRepliesAreSaved`,
`FinalizedRepliesAreStable`, `AnsweredStopIsFinal`, `StoppedRepliesAreKept`,
`ListingIsTruthful`.  The inductive invariant is

    IInv == TypeOK /\ RegistryInv /\ ReplyInv /\ AnswerInv

`RegistryInv` is inductive together with the types: a task is registered from
`CreateTask` to its callback, and the only one who pops it earlier is a stop
that found it cancelled.  `HiddenReplySaved` is not: that a task no longer
listed has its reply saved follows from `ReplyInv`, which ties "background"
metadata to `done`, `done` to the phases after the stream, and `done` to a saved
text as long as the one in memory.  `AnswerInv` (an answered stop names a task
that has ended) gives `NoWriteAfterStop`, because an ended task takes no step.
`StoppedReplyKept` needs `KeptInv` besides: a cancellation that is due, or being
handled, was asked for by a stop request that names the task, and a second one
during its handling by a second request.  With one request the handler comes to
its save, and what it saves is all that was streamed; the set of requests that
name a task only grows (`NamesStay`).  A task that returned saved its text however
often it was stopped, and `StoppedReplyKept` says so.  The refinement of
`ReplyPage` (`ListingIsTruthful`) needs, of what is not yet said, only `ListInv`:
a finalized reply is not listed, and a task that began has a chat to be listed
under.  That a dropped reply does not change any more then follows from the
registry: a task unlisted without being finalized has ended.  The four theorems
about saved text assume `~RealtimeSave`; with it the final save leaves the text
out and they are false.

**ToolRoundsProofs**: `TypeCorrect`, `BudgetIsKept`, `CallsRunOnce`,
`PressureIsRespected`, `ForcedRunsNothing`, `EmptyRepliesExplained`,
`CallsAreAnswered`, `GovernorKeepsTheBudget`.  The types need `RoundReady` (a
round begins with a batch and a round left) and `ArrivedInv` (the calls whose
result has come are those whose stage is "done").  `GovernorInv` has two parts:
`Agreeing`, that the governor's counters are the cardinalities of the history
`ran`, all of whose calls are remembered as seen; and `Limited`, that the
counters are within the limits of level 0.  It is preserved because `Admit`
checks and counts in one step: the lock makes it one.  `CallsRunOnce` and
`PressureIsRespected` are action properties: a call that starts has passed
`Allowed` in the state before, and the counters say what had run.
`ForcedMeansNoTools` needs `NoForcedExecution` (forcing is decided at the end of
a round, so no round is being executed then), `EmptyExplained` needs `ErrorInv`
(an error is set only on the way to the end and only with nothing to see),
`EveryCallAnswered` needs `AnswerInv` (every block of tool calls but the one
under execution is complete), with lemmas on what each operation on blocks
preserves.  That the block of a round is complete when the round ends is
`BlockAnswered`: by `ArrivedInv` the indices that have arrived are then 1 to the
number of calls, in whatever order they came, so the k-th smallest of them is k
(`ExecutedInOrder`, from `UpTo`), and what is read at place k is the result of
call k.  The refinement of `ToolBudget` (`GovernorKeepsTheBudget`) needs
`GoingInv` besides: calls are under way only while a batch is executed, and at
most two of them (a statement about a cardinality that every step of a call
disturbs).

**ChatStoreProofs**: `TypeCorrect`, `DeletedChatsStayDeleted`, `LinksStayOwn`,
`CopiesKeepThePromise`.  `LinksAreOwn` is inductive over the types because a new
share id is drawn among those never used, so no chat carries it yet, and because
no route copies a share id into a new row.  `CopiesKeepThePromise` is the
refinement: initial states map to initial states, and each action maps
to `Take`, `Revoke`, `Edit` or a stutter; `UnshareCrashes` is a `Revoke` although
the chat keeps its share id, `ShareFirstCrashes` is a `Take`.

**MCPStdioProofs**: `TypeCorrect`, `RepliesGoToTheirCalls`, `CallsAreSpared`,
`LocksDoNotDeadlock`, `PipesAreSerial`.
The two locks are queues, and the lemmas about queues come first (who stands in
one after an append, a tail, a removal).  `LifeInv` says of the lifecycle lock
that who stands in its queue is at an await under that lock and the other way
round, that nobody stands in it twice, and that who is past acquiring is its
head; `ReqInv` says the same of the request lock.  `OnInv` ties the client a
call works on to the client it locks.  `SpareInv` is what the reaper relies on: a
call that was handed the request lock and has not run since found the client just
used, so an idle client whose lock is taken has a request in the pipe, and
`_inflight_requests` shows it.  `OwnInv` gives `RepliesAreOwn`.  `QueuedInv` adds
that who waits for a request lock stands in its queue, `OpenInv` that who has not
ended has come to nothing yet.  From the former and `LifeInv`,
`LocksDoNotDeadlock` follows state by state: the head of a request queue waits for
nothing, and the head of a lifecycle queue at most for a request lock.  For the
refinement of `SerialPipe` (`PipesAreSerial`) the steps of a call are sorted by
what they do to the queue of its request lock: those that change neither a queue
nor an outcome (`Quiet`), those that change one queue and no one else's place in
it (`Moves`), and those that end the call.

**HaloClawProofs**: `TypeCorrect`, `AnswersAreToQuestions`, `DeletionIsFinal`,
`HistoriesAreOfTheChat`, `EnabledGatewaysRun`, `EventsAreHeardOnce`,
`GatewayKeepsConversation`.  `RunInv` gives each start and stop under way an
adapter of its own; `OnInv`, that a gateway switched on has a registered adapter
or a start under way, gives `ToggledOnRuns` when no request is under way; a
start-up either begins a start or leaves the gateway not "on", which is where the
switch comes in.
`LogInv` says that a question that awaits its answer is in the log of a gateway
that exists, so that an answer appended to it follows its question; `OnceInv`,
that no entry occurs twice, is what makes the question the last of its history.
`SeenInv` says that an event that was heard or awaits its image is remembered
until its adapter is stopped and that no other delivery of it got as far.  The
refinement of `Conversation` (`GatewayKeepsConversation`) rests on `StageInv` (a
task that asks or sends is of a message that was heard) and on the lemma
`HistoryIsNewest`: the last `n` entries of a chat, which is what `History`
keeps, are the newest `n` places of the log with nothing of the chat left out
between them; its proof goes over the least place kept (`Least`, by well-founded
induction on the naturals, cited for the order and not for an operator) and
equal cardinalities (`SameCardinality`).

**UsagePoolProofs**: `TypeCorrect`, `EntriesAreReported`,
`OneWorkerLosesNothing`, and under `~Stalls` `OneCleanerAtATime` and
`SweeperSurvives`.  `LockInv`: who sweeps is alive and has the lock; without
stalls the lock of a living worker does not expire, so a start finds it taken.
`SweepInv`: what a pass has still to write back is listed, because reports only
add and nobody else sweeps; so no delete raises, and the sweeper stays.  The
other two need no lock and hold with stalls.  `EntriesAreReported`: copies go
stale while other workers write, so `CopiesInv` says of every copy what the
property says of the pool, and both age together.  `OneWorkerLosesNothing` is
false as soon as a second worker has run; `AloneInv` says that as long as none
has, what is about to be written back covers every fresh entry of the pool, and
`NewInv` that who has not started has nothing to write.

**ModelCacheProofs**: `TypeCorrect`, `ListsAreSinceAsked`, `OneRefresh`,
`WaitersAreRemembered`.
`AliveInv`: a refresh that runs and was not cancelled is the registered one and
began in the present epoch; `CacheInv`: what is cached was fetched in the present
epoch; `WaitInv`: a request that waits awaits a task that began no earlier than
it asked, or was cancelled.  The first gives `SingleFlight`, the three together
`ServedSinceAsked`.  `WaitInv` and `AliveInv` give `NobodyIsForgotten`: a waiter's
task is done, told to stop, or the registered one, whose end reaches the waiter.

Only model-checked: the liveness properties (`TasksLeave`, `StopsAnswered`,
`ReplyEnds`, `CallsReturn`, `RegisteredReclaimed`, `StaleUsageGoes`,
`ReporterListed`, `SettingsTakeEffect`), which the prover has no rules for, and of
course the violations.  `LocksDoNotDeadlock` and `WaitersAreRemembered` prove the
part of two of them that is a matter of states: what a waiting call or request
waits for is able to end.

## 6. Disagreements found

Four runs show the code doing other than a doc, a comment or a test says.

1. `tool_rounds_stuck` (`FinishesAfterTools`, `utils/middleware.py:7366`): the
   retry after empty output succeeds, and the next line reads `final_has_text`,
   which only the failing path assigns.  The handler dies and
   reaches neither the final save nor the done event.
2. `mcp_stdio_orphan` (`NoOrphan`, `utils/mcp.py:1608`): while the first call is
   still spawning, a second one takes its client for dead and registers
   another; the first call's process then runs on a client that neither the
   reaper nor `stop_all` knows.  The reaper alone can do the same: it finds the
   registered client's process ended, and its pop (`utils/mcp.py:1669`) comes after
   a call has begun to restart that very client.
3. `chat_store_shared` (`SharedIsSnapshot`, `models/chats.py:745`): a link opens
   the chat that carries the share id, not the copy made when it was shared.
   The copies themselves do keep the promise (`CopiesAreSnapshots`); nobody
   reads them.
4. `chat_store_rename` (`RenameKeepsReply`, `routers/chats.py:832`): a rename
   whose image normalisation is under way when a reply is saved writes the old
   messages over it.

The models also have behaviours that no run states as a property, because no doc
speaks about them; several are in the conditions of properties:

* a stop that succeeds is answered with "Failed to stop task"
  (`tasks.py:108`), because the handler returns from its cancellation;
* a second stop during the emission of `task-cancelled` loses the streamed text
  (`StoppedReplyKept` is, of replies that were cancelled, about those stopped
  once);
* a failed follow-up turn replaces text already shown by its notice
  (`utils/middleware.py:7168`), and the text of a retry after an empty follow-up
  turn is dropped (`:5193`: the last block is one of tool calls, whose content is
  a list);
* after the fallback to the compatible mode, an answer given at once is announced
  and never saved (`utils/middleware.py:6265`);
* two overlapping starts of a gateway leave one of the adapters running and
  unregistered, and it is not stopped at shutdown (`ToggledOnRuns` is about the
  registered one), and an answer may
  be logged for a gateway that was deleted while the model was asked
  (`DeletedLeavesNoQuestion` is about questions);
* `ENABLE_HALOCLAW` is looked at when the server starts and never again.  Turned
  off, it stops no adapter; after a restart with it off, gateways that are enabled
  have none.  The toggle starts an adapter all the same, which takes events, but
  the dispatcher has no application and drops every one of them, also after the
  switch is turned on, until the next start;
* a tool call that timed out may wait without end for a server that does not
  read its stdin, and the calls that queue for the client with it; the reaper
  spares the client meanwhile, because a request is in flight.  It ends when the
  process does, or when a later call over the same connection finds the client
  tainted and replaces it (`CallsReturn` excepts it);
* two workers that report one model at a time may write back over one another,
  so a report may be lost until the next one (`AloneLosesNothing` is about a
  worker alone; `NotNewerThanReported` holds of all);
* no worker takes over the sweeping when the sweeper's process ends, unless one
  starts after the lock expired (`StaleUsageGoes` holds as long as there is a
  sweeper); with a pause longer than the lock's life, two workers may sweep
  (`OneCleaner` is without `Stalls`);
* a thread that read the user's row before a save may cache it after the save has
  dropped it, and the lists fetched meanwhile use the old connections until they
  are refreshed (`SettingsTakeEffect` says "in the end");
* a call that waits for the request lock while another call restarts the process
  writes `tools/call` to the new process before its `initialize`
  (`utils/mcp.py:1317`);
* an invalidation cancels the requests of others that await the refresh.

## 7. What the models leave out

**ChatTasks**.  A reply is the number of its pieces, so two replies of equal
length are the same reply.  The emission of the final event is an await that
may suspend; where the emitter returns without suspending, the model has one
more interleaving than the program.  The branch for webhooks of a user without
an open session changes nothing and is left out.  What the handler executes
between its awaits in the loop is ToolRounds; here it is `AppendBlock` and
`FollowUpAnswer`.

**ToolRounds**.  An image counts as text.  Two waiters of `governor_lock` may be
served in either order (asyncio serves the first): the model has more behaviours
than the code, none of its properties depends on the order.  A successful
fetch takes the lock once more to raise an evidence counter that nothing else
reads; this is part of the tool's return.  Three kinds of empty-reply payloads
that say the same are one, `empty_response`.  Repairs of malformed calls before
the loop's validity check, sources and files of tool results, and the code
interpreter's retries (`utils/middleware.py:7378-7557`) are left out.  A
cancellation of the handler is in ChatTasks.

**MCPStdio**.  One fingerprint; the reaper's work on other fingerprints is the
gap before its `pop` step.  Taking a lock that nobody holds is no step of its
own.  Reading the messages of a failing handshake is merged with the failure.
`stop_by_fingerprint` has no caller, `verify_stdio_server` uses a client it does
not register: both are left out, as are paging and caching of `tools/list`.

**ChatStore**.  One user, who owns every chat.  The history of a chat is one
text.  Tags, archive and pin flags, timestamps and the `chat_message` rows are
left out.  The import of a chat and the creation of one await the image
normalisation before they read anything, so they are modelled at the
insertion; replacing imports one chat.  Sharing a chat again after a crashed
unshare (share id set, copy gone) changes nothing in the code, so it is a
stutter; a share id whose copy was left behind by a crashed share is not reused.
`DeleteFolder` leaves the copies of the deleted chats behind, as the code does.
A folder exists or not by the flag of its chats only.

**HaloClaw**.  One gateway, since gateways share only the registry they are
keys of; webhook delivery only (the polling adapters feed the same dispatcher from
one loop per adapter).  The tool loop inside an answer, model overrides, the
formats of the platforms and the lists of allowed and blocked senders are
left out; a sender that is turned away is `Ignore`.  Events are forgotten after
five minutes, and deliveries of the model are closer together.

**UsagePool**.  The pool and its lock over Redis; with one worker it is the pool
in memory.  Ages are none, fresh and old.  Redis does not fail.

**ModelCache**.  One user; that other users fill the cache is `Evict`.  What the
sources answer, and that one that fails counts as one without models
(`utils/models.py:107`), is data of a list.  The merge with workspace models,
which follows, has no shared state.

No module composes the stopping of a reply with the store it saves to: the save
of a reply is one step of the store (`UpsertMessage`), in no order with the
store's other steps, and the interference there is (`chat_store_rename`) needs
nothing of the reply but that step.

## 8. What is left

The modules were written in the order of how much harm a fault does and how
little a test sees of it: ChatTasks, MCPStdio, ToolRounds, ChatStore with
SharedLinks, HaloClaw, UsagePool, ModelCache.  The hazards of section 1.3 and
`PROJECT.json` that no property covers are facts about single lines, or would need
a property the code does not have.  Worth adding, in this order:

1. an abstract specification of the model lists (ask, invalidate, serve a list
   that is since the asking) that ModelCache implements, and one of the pool and
   its sweeper under crashes;
2. a model of realtime saving in full: what the frontend saves itself, next to
   `RealtimeSave`;
3. tag rows with archiving, searching and deletion, once the counting of
   `routers/chats.py:1005` says what is meant;
4. the polling adapter of HaloClaw, which takes its updates from a library's
   queue.
