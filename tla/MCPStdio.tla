------------------------------ MODULE MCPStdio ------------------------------
(***************************************************************************)
(* The stdio MCP clients of utils/mcp.py: MCPStdioProcessManager, which    *)
(* keeps one client per connection and user, and MCPStdioClient, which     *)
(* owns the server's process, its two locks, and the requests over the     *)
(* process's pipes.  The model follows one fingerprint.                    *)
(*                                                                         *)
(* Calls are requests of execute_mcp_tool and get_mcp_server_data.  With   *)
(* them run the idle reaper and the stop_all of the server's shutdown.     *)
(* All are coroutines of one event loop, so a step is what one of them     *)
(* does between two awaits; taking a free asyncio.Lock is no await, and a  *)
(* lock that is taken is handed over in the order of the requests for it.  *)
(* The manager's lock is never held across an await and needs no state.    *)
(*                                                                         *)
(* An operator X_Defect is X with a plausible defect: a mutant that the    *)
(* properties are tried against, used by no specification.                 *)
(***************************************************************************)
EXTENDS Naturals, FiniteSets, Sequences

CONSTANTS
  Calls,       \* requests to the server, each made at most once
  Listings,    \* those of them that are tools/list: a timeout does not taint
  Clients,     \* MCPStdioClient objects; bounds how many may be created
  Cancellable, \* those whose caller may be cancelled (a stopped chat reply)
  CanShutDown  \* whether the run includes the shutdown of the server

ASSUME MCPStdioAssumption ==
  /\ Listings \subseteq Calls
  /\ Cancellable \subseteq Calls
  /\ CanShutDown \in BOOLEAN

NoClient == "no-client"
Reaper   == "reaper"
Shutdown == "shutdown"
Threads  == Calls \union {Reaper, Shutdown}

(* What a call may come to besides a reply; "none": it has not returned.   *)
Failures == {"none", "error", "timeout", "cancelled"}

ASSUME MCPSentinelAssumption ==
  /\ NoClient \notin Clients
  /\ {Reaper, Shutdown} \intersect Calls = {}
  /\ Failures \intersect Calls = {}
  /\ IsFiniteSet(Clients)

VARIABLES
  registered,  \* _clients[fingerprint]
  created,     \* the clients that exist
  proc,        \* process of a client: "none", "running" or "exited"
  ready,       \* _ready
  tainted,     \* _tainted
  idle,        \* more than the idle timeout has passed since _last_activity
  life,        \* _lifecycle_lock: its holder, then those that wait for it
  req,         \* _request_lock, likewise
  late,        \* calls whose reply may still come out of the process's pipe
  pc,          \* the await a thread is suspended at
  at,          \* the client whose lifecycle lock it holds or waits for
  on,          \* the client get_or_start has chosen for a call
  starts,      \* which of the three start() of a call it is in
  cut,         \* calls whose process was let go while they used its pipes
  outcome      \* what a call returned: a reply (whose), or how it failed

lockVars   == <<life, req>>
clientVars == <<proc, ready, tainted, idle, late>>
callVars   == <<on, starts, cut, outcome>>
vars == <<registered, created, clientVars, lockVars, pc, at, callVars>>

CallPcs == {"new", "stop-stale", "stopping-stale", "start", "stopping-restart",
            "spawning", "initialize", "notify", "stopping-failed", "request",
            "exchange", "notify-cancelled", "finished"}
ReaperPcs == {"absent", "asleep", "reap", "stopping-idle", "pop"}
ShutdownPcs == {"new", "stop", "stopping-last", "finished"}

(* The awaits between sending a request and the end of its "finally".      *)
Exchanging == {"exchange", "notify-cancelled"}

TypeOK ==
  /\ registered \in created \union {NoClient}
  /\ created \subseteq Clients
  /\ proc \in [Clients -> {"none", "running", "exited"}]
  /\ ready \in [Clients -> BOOLEAN]
  /\ tainted \in [Clients -> BOOLEAN]
  /\ idle \in [Clients -> BOOLEAN]
  /\ life \in [Clients -> Seq(Threads)]
  /\ req \in [Clients -> Seq(Calls)]
  /\ late \in [Clients -> SUBSET Calls]
  /\ pc \in [Threads -> CallPcs \union ReaperPcs \union ShutdownPcs]
  /\ \A p \in Calls : pc[p] \in CallPcs
  /\ pc[Reaper] \in ReaperPcs /\ pc[Shutdown] \in ShutdownPcs
  /\ at \in [Threads -> Clients \union {NoClient}]
  /\ on \in [Calls -> Clients \union {NoClient}]
  /\ starts \in [Calls -> 0..3]
  /\ cut \subseteq Calls
  /\ outcome \in [Calls -> Calls \union Failures]

Init ==
  /\ registered = NoClient
  /\ created = {}
  /\ proc = [c \in Clients |-> "none"]
  /\ ready = [c \in Clients |-> FALSE]
  /\ tainted = [c \in Clients |-> FALSE]
  /\ idle = [c \in Clients |-> FALSE]
  /\ life = [c \in Clients |-> <<>>]
  /\ req = [c \in Clients |-> <<>>]
  /\ late = [c \in Clients |-> {}]
  /\ pc = [p \in Threads |-> IF p = Reaper THEN "absent" ELSE "new"]
  /\ at = [p \in Threads |-> NoClient]
  /\ on = [p \in Calls |-> NoClient]
  /\ starts = [p \in Calls |-> 0]
  /\ cut = {}
  /\ outcome = [p \in Calls |-> "none"]

-----------------------------------------------------------------------------
(* Locks and threads *)

(* The queue q without p, who stands in it at most once.                   *)
Without(q, p) ==
  IF \A i \in 1..Len(q) : q[i] # p THEN q
  ELSE LET k == CHOOSE k \in 1..Len(q) : q[k] = p
       IN [i \in 1..(Len(q) - 1) |-> q[IF i < k THEN i ELSE i + 1]]

HoldsLife(p) == at[p] # NoClient /\ life[at[p]] # <<>> /\ Head(life[at[p]]) = p
HoldsReq(p)  == on[p] # NoClient /\ req[on[p]] # <<>> /\ Head(req[on[p]]) = p

GoTo(p, l) == pc' = [pc EXCEPT ![p] = l]

ReleaseLife(p) == life' = [life EXCEPT ![at[p]] = Tail(@)]

Alive(c) == proc[c] = "running"

(* _inflight_requests: the exchanges of calls, and those of start() itself.*)
Inflight(c) ==
  \E p \in Calls : on[p] = c /\ ( \/ pc[p] \in Exchanging
                                  \/ pc[p] \in {"initialize", "notify"} /\ HoldsReq(p))

(* _stop_locked up to its await: the process is forgotten, whoever reads   *)
(* or writes its pipes will meet the end of them.                          *)
LetGo(c) ==
  /\ proc' = [proc EXCEPT ![c] = "none"]
  /\ ready' = [ready EXCEPT ![c] = FALSE]
  /\ tainted' = [tainted EXCEPT ![c] = FALSE]
  /\ late' = [late EXCEPT ![c] = {}]
  /\ cut' = cut \union {p \in Calls : on[p] = c /\ pc[p] \in Exchanging}

(* Call p ends with r, giving back the locks it holds or waits for.  The   *)
(* "finally" of a request refreshes _last_activity.                        *)
Finish(p, r) ==
  /\ GoTo(p, "finished")
  /\ outcome' = [outcome EXCEPT ![p] = r]
  /\ life' = [c \in Clients |-> Without(life[c], p)]
  /\ req' = [c \in Clients |-> Without(req[c], p)]
  /\ at' = [at EXCEPT ![p] = NoClient]
  /\ cut' = cut \ {p}
  /\ idle' = IF HoldsReq(p) THEN [idle EXCEPT ![on[p]] = FALSE] ELSE idle
  /\ UNCHANGED <<registered, created, on, starts>>

-----------------------------------------------------------------------------
(* MCPStdioProcessManager *)

Fresh == CHOOSE c \in Clients : c \notin created

(* get_or_start up to its first await.  A registered client that is        *)
(* tainted or whose process is not running is replaced by a new one, which *)
(* is registered at once; the old one is stopped first.                    *)
GetOrStart(p) ==
  LET stale == registered # NoClient /\ (tainted[registered] \/ ~Alive(registered))
      fresh == stale \/ registered = NoClient
      c == IF fresh THEN Fresh ELSE registered
      first == IF stale THEN registered ELSE c
  IN
  /\ pc[p] = "new"
  /\ fresh => created # Clients
  /\ created' = created \union {c}
  /\ registered' = c
  /\ on' = [on EXCEPT ![p] = c]
  /\ at' = [at EXCEPT ![p] = first]
  /\ life' = [life EXCEPT ![first] = Append(@, p)]
  /\ starts' = [starts EXCEPT ![p] = 1]
  /\ pc' = [pc EXCEPT ![p] = IF stale THEN "stop-stale" ELSE "start",
                      ![Reaper] = IF @ = "absent" THEN "asleep" ELSE @]
  /\ UNCHANGED <<clientVars, req, cut, outcome>>

StopStale(p) ==
  /\ pc[p] = "stop-stale"
  /\ HoldsLife(p)
  /\ LetGo(at[p])
  /\ GoTo(p, "stopping-stale")
  /\ UNCHANGED <<registered, created, idle, lockVars, at, on, starts, outcome>>

StaleStopped(p) ==
  /\ pc[p] = "stopping-stale"
  /\ GoTo(p, "start")
  /\ at' = [at EXCEPT ![p] = on[p]]
  /\ life' = [life EXCEPT ![at[p]] = Tail(@), ![on[p]] = Append(@, p)]
  /\ UNCHANGED <<registered, created, clientVars, req, callVars>>

(* _idle_reaper: it wakes, takes its snapshot, and asks each client in it. *)
ReaperWakes ==
  /\ pc[Reaper] = "asleep"
  /\ registered # NoClient
  /\ GoTo(Reaper, "reap")
  /\ at' = [at EXCEPT ![Reaper] = registered]
  /\ life' = [life EXCEPT ![registered] = Append(@, Reaper)]
  /\ UNCHANGED <<registered, created, clientVars, req, callVars>>

(* reap_if_idle *)
ReapDead ==
  /\ pc[Reaper] = "reap" /\ HoldsLife(Reaper)
  /\ ~Alive(at[Reaper])
  /\ GoTo(Reaper, "pop")
  /\ ReleaseLife(Reaper)
  /\ UNCHANGED <<registered, created, clientVars, req, at, callVars>>

ReapSpares_EndsReaper ==
  /\ pc[Reaper] = "reap" /\ HoldsLife(Reaper)
  /\ Alive(at[Reaper])
  /\ Inflight(at[Reaper]) \/ ~idle[at[Reaper]]
  /\ GoTo(Reaper, "absent")
  /\ ReleaseLife(Reaper)
  /\ at' = [at EXCEPT ![Reaper] = NoClient]
  /\ UNCHANGED <<registered, created, clientVars, req, callVars>>

ReapSpares ==
  /\ pc[Reaper] = "reap" /\ HoldsLife(Reaper)
  /\ Alive(at[Reaper])
  /\ Inflight(at[Reaper]) \/ ~idle[at[Reaper]]
  /\ GoTo(Reaper, "asleep")
  /\ ReleaseLife(Reaper)
  /\ at' = [at EXCEPT ![Reaper] = NoClient]
  /\ UNCHANGED <<registered, created, clientVars, req, callVars>>

ReapIdle_IgnoresInflight ==
  /\ pc[Reaper] = "reap" /\ HoldsLife(Reaper)
  /\ Alive(at[Reaper])
  /\ idle[at[Reaper]]
  /\ LetGo(at[Reaper])
  /\ GoTo(Reaper, "stopping-idle")
  /\ UNCHANGED <<registered, created, idle, lockVars, at, on, starts, outcome>>

ReapIdle ==
  /\ pc[Reaper] = "reap" /\ HoldsLife(Reaper)
  /\ Alive(at[Reaper])
  /\ ~Inflight(at[Reaper])
  /\ idle[at[Reaper]]
  /\ LetGo(at[Reaper])
  /\ GoTo(Reaper, "stopping-idle")
  /\ UNCHANGED <<registered, created, idle, lockVars, at, on, starts, outcome>>

IdleStopped ==
  /\ pc[Reaper] = "stopping-idle"
  /\ GoTo(Reaper, "pop")
  /\ ReleaseLife(Reaper)
  /\ UNCHANGED <<registered, created, clientVars, req, at, callVars>>

(* The reaper has asked every client of its snapshot (the others of it are *)
(* the awaits between the answer and this step) and pops what is           *)
(* registered now, if that is not alive.                                   *)
PopDead ==
  /\ pc[Reaper] = "pop"
  /\ GoTo(Reaper, "asleep")
  /\ at' = [at EXCEPT ![Reaper] = NoClient]
  /\ registered' =
       IF registered # NoClient /\ (~Alive(registered) \/ tainted[registered])
       THEN NoClient ELSE registered
  /\ UNCHANGED <<created, clientVars, lockVars, callVars>>

(* stop_all, called when the server shuts down: the registry is emptied,   *)
(* the reaper is cancelled, then every client that was registered stops.   *)
StopAll ==
  /\ CanShutDown
  /\ pc[Shutdown] = "new"
  /\ registered' = NoClient
  /\ pc' = [pc EXCEPT ![Shutdown] = IF registered = NoClient THEN "finished" ELSE "stop",
                      ![Reaper] = "absent"]
  /\ at' = [at EXCEPT ![Shutdown] = registered, ![Reaper] = NoClient]
  /\ life' = [c \in Clients |->
       IF c = registered THEN Append(Without(life[c], Reaper), Shutdown)
       ELSE Without(life[c], Reaper)]
  /\ UNCHANGED <<created, clientVars, req, callVars>>

StopLast ==
  /\ pc[Shutdown] = "stop" /\ HoldsLife(Shutdown)
  /\ LetGo(at[Shutdown])
  /\ GoTo(Shutdown, "stopping-last")
  /\ UNCHANGED <<registered, created, idle, lockVars, at, on, starts, outcome>>

LastStopped ==
  /\ pc[Shutdown] = "stopping-last"
  /\ GoTo(Shutdown, "finished")
  /\ ReleaseLife(Shutdown)
  /\ at' = [at EXCEPT ![Shutdown] = NoClient]
  /\ UNCHANGED <<registered, created, clientVars, req, callVars>>

-----------------------------------------------------------------------------
(* MCPStdioClient.start: called by get_or_start, by call_tool or           *)
(* list_tools, and by _perform_request.                                    *)

Healthy(c) == Alive(c) /\ ready[c] /\ ~tainted[c]

LeaveStart_NeverLast(p, c, q) ==
  IF Len(life[c]) = 1
  THEN /\ life' = [life EXCEPT ![c] = Tail(@)]
       /\ req' = [req EXCEPT ![c] = Append(q, p)]
       /\ starts' = [starts EXCEPT ![p] = 3]
       /\ at' = [at EXCEPT ![p] = NoClient]
       /\ GoTo(p, IF q = <<>> THEN "exchange" ELSE "request")
  ELSE /\ life' = [life EXCEPT ![c] = Append(Tail(@), p)]
       /\ req' = [req EXCEPT ![c] = q]
       /\ starts' = [starts EXCEPT ![p] = @ + 1]
       /\ GoTo(p, "start")
       /\ UNCHANGED at

LeaveStart_UnderRequestLock(p, c, q) ==
  IF Len(life[c]) = 1 \/ starts[p] = 3
  THEN /\ life' = [life EXCEPT ![c] = Tail(@)]
       /\ req' = [req EXCEPT ![c] = Append(Without(q, p), p)]
       /\ starts' = [starts EXCEPT ![p] = 3]
       /\ at' = [at EXCEPT ![p] = NoClient]
       /\ GoTo(p, IF q = <<>> THEN "exchange" ELSE "request")
  ELSE /\ life' = [life EXCEPT ![c] = Append(Tail(@), p)]
       /\ req' = [req EXCEPT ![c] = Append(Without(q, p), p)]
       /\ starts' = [starts EXCEPT ![p] = @ + 1]
       /\ GoTo(p, "start")
       /\ UNCHANGED at

(* p leaves a start() that found, or made, the client healthy; q is the    *)
(* request lock's queue without p.  Nothing suspends p on the way to its   *)
(* request unless another thread waits for the lifecycle lock: then its    *)
(* next start() queues behind that thread.  A free request lock is taken   *)
(* and the request written in the same step.                               *)
LeaveStart(p, c, q) ==
  IF Len(life[c]) = 1 \/ starts[p] = 3
  THEN /\ life' = [life EXCEPT ![c] = Tail(@)]
       /\ req' = [req EXCEPT ![c] = Append(q, p)]
       /\ starts' = [starts EXCEPT ![p] = 3]
       /\ at' = [at EXCEPT ![p] = NoClient]
       /\ GoTo(p, IF q = <<>> THEN "exchange" ELSE "request")
  ELSE /\ life' = [life EXCEPT ![c] = Append(Tail(@), p)]
       /\ req' = [req EXCEPT ![c] = q]
       /\ starts' = [starts EXCEPT ![p] = @ + 1]
       /\ GoTo(p, "start")
       /\ UNCHANGED at

PassStart(p) ==
  LET c == at[p] IN
  /\ pc[p] = "start" /\ HoldsLife(p)
  /\ Healthy(c)
  /\ LeaveStart(p, c, req[c])
  /\ idle' = [idle EXCEPT ![c] = @ /\ pc'[p] # "exchange"]
  /\ UNCHANGED <<registered, created, proc, ready, tainted, late, on, cut, outcome>>

Restart(p) ==
  /\ pc[p] = "start" /\ HoldsLife(p)
  /\ ~Healthy(at[p])
  /\ IF proc[at[p]] # "none"
     THEN LetGo(at[p]) /\ GoTo(p, "stopping-restart")
     ELSE GoTo(p, "spawning") /\ UNCHANGED <<proc, ready, tainted, late, cut>>
  /\ UNCHANGED <<registered, created, idle, lockVars, at, on, starts, outcome>>

RestartStopped(p) ==
  /\ pc[p] = "stopping-restart"
  /\ GoTo(p, "spawning")
  /\ UNCHANGED <<registered, created, clientVars, lockVars, at, callVars>>

(* The command is refused or cannot be run.                                *)
SpawnFails(p) ==
  /\ pc[p] = "spawning"
  /\ Finish(p, "error")
  /\ UNCHANGED <<proc, ready, tainted, late>>

Spawned(p) ==
  /\ pc[p] = "spawning"
  /\ proc' = [proc EXCEPT ![at[p]] = "running"]
  /\ ready' = [ready EXCEPT ![at[p]] = FALSE]
  /\ tainted' = [tainted EXCEPT ![at[p]] = FALSE]
  /\ idle' = [idle EXCEPT ![at[p]] = FALSE]
  /\ req' = [req EXCEPT ![at[p]] = Append(@, p)]
  /\ GoTo(p, "initialize")
  /\ UNCHANGED <<registered, created, late, life, at, callVars>>

(* The reply to initialize; the notification takes the request lock anew.  *)
Initialized(p) ==
  /\ pc[p] = "initialize" /\ HoldsReq(p)
  /\ Alive(at[p])
  /\ req' = [req EXCEPT ![at[p]] = Append(Tail(@), p)]
  /\ idle' = [idle EXCEPT ![at[p]] = FALSE]
  /\ GoTo(p, "notify")
  /\ UNCHANGED <<registered, created, proc, ready, tainted, late, life, at, callVars>>

(* The notification is written: the client is ready.                       *)
Notified(p) ==
  LET c == at[p] IN
  /\ pc[p] = "notify" /\ HoldsReq(p)
  /\ Alive(c)
  /\ ready' = [ready EXCEPT ![c] = TRUE]
  /\ idle' = [idle EXCEPT ![c] = FALSE]
  /\ LeaveStart(p, c, Tail(req[c]))
  /\ UNCHANGED <<registered, created, proc, tainted, late, on, cut, outcome>>

(* The handshake times out (also while it waits for the request lock), or  *)
(* the process ends before it is over: the process is let go again.        *)
HandshakeFails(p) ==
  /\ pc[p] \in {"initialize", "notify"}
  /\ LetGo(at[p])
  /\ GoTo(p, "stopping-failed")
  /\ req' = [req EXCEPT ![at[p]] = Without(@, p)]
  /\ idle' = [idle EXCEPT ![at[p]] = @ /\ ~HoldsReq(p)]
  /\ UNCHANGED <<registered, created, life, at, on, starts, outcome>>

FailedStopped_KeepsLock(p) ==
  /\ pc[p] = "stopping-failed"
  /\ GoTo(p, "finished")
  /\ outcome' = [outcome EXCEPT ![p] = "error"]
  /\ UNCHANGED <<registered, created, clientVars, lockVars, at, on, starts, cut>>

FailedStopped(p) ==
  /\ pc[p] = "stopping-failed"
  /\ Finish(p, "error")
  /\ UNCHANGED <<proc, ready, tainted, late>>

-----------------------------------------------------------------------------
(* MCPStdioClient._perform_request *)

(* p is handed the request lock and writes to whatever process the client  *)
(* has by now.                                                             *)
BeginRequest(p) ==
  /\ pc[p] = "request" /\ HoldsReq(p)
  /\ proc[on[p]] # "none"
  /\ GoTo(p, "exchange")
  /\ idle' = [idle EXCEPT ![on[p]] = FALSE]
  /\ UNCHANGED <<registered, created, proc, ready, tainted, late, lockVars, at, callVars>>

BeginFails(p) ==
  /\ pc[p] = "request" /\ HoldsReq(p)
  /\ proc[on[p]] = "none"
  /\ Finish(p, "error")
  /\ UNCHANGED <<proc, ready, tainted, late>>

(* The pipe may yield replies to requests that were given up; the reader   *)
(* skips every line whose id is not its own.  A reply may be in the pipe   *)
(* when the process ends or is let go.                                     *)
Accepts_AnyId(p) == {p} \union late[on[p]]
Accepts(p) == {p}

Reply(p) ==
  /\ pc[p] = "exchange"
  /\ \E q \in Accepts(p) : Finish(p, q)
  /\ UNCHANGED <<proc, ready, tainted, late>>

EndOfFile(p) ==
  /\ pc[p] = "exchange"
  /\ p \in cut \/ ~Alive(on[p])
  /\ Finish(p, "error")
  /\ UNCHANGED <<proc, ready, tainted, late>>

(* The process still owes a reply to a call that stopped reading.          *)
OwedReply(p) ==
  late' = IF p \in cut THEN late ELSE [late EXCEPT ![on[p]] = @ \union {p}]

(* A tool call that times out stops reading, taints the client, and writes *)
(* a notification to whatever process the client has by now, still holding *)
(* the request lock.                                                       *)
Timeout(p) ==
  /\ p \notin Listings
  /\ pc[p] = "exchange"
  /\ proc[on[p]] # "none"
  /\ tainted' = [tainted EXCEPT ![on[p]] = TRUE]
  /\ OwedReply(p)
  /\ cut' = cut \ {p}
  /\ GoTo(p, "notify-cancelled")
  /\ UNCHANGED <<registered, created, proc, ready, idle, lockVars, at, on, starts, outcome>>

(* There is no process to write to, which is logged.                       *)
TimeoutUnheard(p) ==
  /\ p \notin Listings
  /\ pc[p] = "exchange"
  /\ proc[on[p]] = "none"
  /\ tainted' = [tainted EXCEPT ![on[p]] = TRUE]
  /\ OwedReply(p)
  /\ Finish(p, "timeout")
  /\ UNCHANGED <<proc, ready>>

(* The notification is written, or fails, since the process has ended or   *)
(* was let go.                                                             *)
CancelledNotified(p) ==
  /\ pc[p] = "notify-cancelled"
  /\ Finish(p, "timeout")
  /\ UNCHANGED <<proc, ready, tainted, late>>

(* Nothing bounds the wait for a process that does not read its stdin.     *)
Hangs(p) == pc[p] = "notify-cancelled" /\ Alive(on[p]) /\ p \notin cut

ListingTimeout(p) ==
  /\ p \in Listings
  /\ pc[p] = "exchange"
  /\ OwedReply(p)
  /\ Finish(p, "timeout")
  /\ UNCHANGED <<proc, ready, tainted>>

(* The task that made the call is cancelled at an await.  Waiting for a    *)
(* lock is one, a lock that is free is none; a process that was being let  *)
(* go is not waited for any more.                                          *)
CancelCall(p) ==
  /\ p \in Cancellable
  /\ pc[p] \notin {"new", "finished"}
  /\ pc[p] \in {"stop-stale", "start"} => ~HoldsLife(p)
  /\ IF pc[p] = "exchange" THEN OwedReply(p) ELSE UNCHANGED late
  /\ Finish(p, "cancelled")
  /\ UNCHANGED <<proc, ready, tainted>>

-----------------------------------------------------------------------------
(* Environment *)

(* A server process ends by itself.                                        *)
Exit(c) ==
  /\ proc[c] = "running"
  /\ proc' = [proc EXCEPT ![c] = "exited"]
  /\ UNCHANGED <<registered, created, ready, tainted, idle, late, lockVars, pc,
                 at, callVars>>

(* The idle timeout passes; the event loop is never held up for so long    *)
(* that a call that was handed the request lock has not run.               *)
BecomeIdle(c) ==
  /\ c \in created /\ ~idle[c]
  /\ ~\E p \in Calls : pc[p] = "request" /\ on[p] = c /\ HoldsReq(p)
  /\ idle' = [idle EXCEPT ![c] = TRUE]
  /\ UNCHANGED <<registered, created, proc, ready, tainted, late, lockVars, pc,
                 at, callVars>>

CallStep(p) ==
  \/ StopStale(p) \/ StaleStopped(p)
  \/ PassStart(p) \/ Restart(p) \/ RestartStopped(p)
  \/ SpawnFails(p) \/ Spawned(p)
  \/ Initialized(p) \/ Notified(p) \/ HandshakeFails(p) \/ FailedStopped(p)
  \/ BeginRequest(p) \/ BeginFails(p)
  \/ Reply(p) \/ EndOfFile(p)
  \/ Timeout(p) \/ TimeoutUnheard(p) \/ CancelledNotified(p) \/ ListingTimeout(p)

ReaperStep == ReapDead \/ ReapSpares \/ ReapIdle \/ IdleStopped \/ PopDead
ShutdownStep == StopLast \/ LastStopped

Next ==
  \/ \E p \in Calls : GetOrStart(p) \/ CallStep(p) \/ CancelCall(p)
  \/ ReaperWakes \/ ReaperStep
  \/ StopAll \/ ShutdownStep
  \/ \E c \in Clients : Exit(c) \/ BecomeIdle(c)

Spec == Init /\ [][Next]_vars

(* The event loop resumes every thread whose await is over; processes that *)
(* are let go are killed after five seconds, handshakes and tool calls     *)
(* have timeouts, the reaper's sleep ends, and time passes.  The timeout   *)
(* of tools/list is AIOHTTP_CLIENT_TIMEOUT_TOOL_SERVER_DATA of env.py.     *)
(* The one await without a bound is the notification after a timeout.      *)
Fairness ==
  /\ \A p \in Calls : WF_vars(CallStep(p) /\ ~Hangs(p))
  /\ WF_vars(ReaperWakes)
  /\ WF_vars(ReaperStep)
  /\ WF_vars(ShutdownStep)
  /\ \A c \in Clients : WF_vars(BecomeIdle(c))

FairSpec == Spec /\ Fairness

-----------------------------------------------------------------------------
(* Properties *)

(* A call that returns a reply returns the reply to its own request, also  *)
(* when the pipe still holds replies to calls that timed out or were       *)
(* cancelled.                                                              *)
RepliesAreOwn == \A p, q \in Calls : outcome[p] = q => q = p

(* Locks are waited for without circles, although start() waits for the    *)
(* request lock with the lifecycle lock held, and calls, reaper, failures  *)
(* and cancellations take both: whoever waits for a lock waits, through at *)
(* most one other thread, for one that waits for no lock and has not ended.*)
WaitsForLife(p) == pc[p] \in {"stop-stale", "start", "reap", "stop"} /\ ~HoldsLife(p)
WaitsForReq(p) ==
  p \in Calls /\ pc[p] \in {"initialize", "notify", "request"} /\ ~HoldsReq(p)
Waits(p) == WaitsForLife(p) \/ WaitsForReq(p)
WaitsFor(p) == IF WaitsForLife(p) THEN Head(life[at[p]]) ELSE Head(req[on[p]])
GoesOn(p) ==
  p \in Threads /\ ~Waits(p) /\ pc[p] \notin {"new", "asleep", "absent", "finished"}
WaitsEnd ==
  \A p \in Threads : Waits(p) =>
    LET q == WaitsFor(p) IN GoesOn(q) \/ (Waits(q) /\ GoesOn(WaitsFor(q)))

(* The pipes of every client keep the promise of SerialPipe, also while    *)
(* their process is let go, restarted or replaced under the calls: at most *)
(* one _inflight_requests, and no reply but to who has asked.              *)
Greeters(c) == {p \in Calls : on[p] = c /\ pc[p] \in {"initialize", "notify"} /\ HoldsReq(p)}
Askers(c)   == {p \in Calls : on[p] = c /\ pc[p] \in Exchanging}
GreetersOf  == [c \in Clients |-> Greeters(c)]
AskersOf    == [c \in Clients |-> Askers(c)]
Pipe == INSTANCE SerialPipe WITH greeting <- GreetersOf, asking <- AskersOf
OneSpeaks == Pipe!Spec

(* The reaper never lets go of a process while a call has its request in   *)
(* the pipe or stands in the queue of the request lock.                    *)
ReaperSparesCalls ==
  [][\A c \in Clients :
       pc[Reaper] = "reap" /\ pc'[Reaper] = "stopping-idle" /\ at[Reaper] = c
         => req[c] = <<>>]_vars

(* A client object nobody can reach any more, neither through the registry *)
(* nor by a thread that works on it, has no running process (README: the   *)
(* processes are reclaimed automatically when idle).                       *)
Reachable(c) ==
  \/ c = registered
  \/ \E p \in Threads : at[p] = c
  \/ \E p \in Calls : on[p] = c /\ pc[p] # "finished"
NoOrphan == \A c \in created : Alive(c) => Reachable(c)

(* Every call returns, with a reply, an error, or a timeout, unless it     *)
(* meets a server that does not read: nothing but a call of the same       *)
(* client that hangs on its notification for ever may hold it up.          *)
HeldUp(p) == \E q \in Calls : Hangs(q) /\ on[q] = on[p]
CallsReturn == \A p \in Calls :
  <>[]HeldUp(p) \/ (pc[p] # "new" ~> pc[p] = "finished")

(* A process of the registered client is stopped, unless calls go on       *)
(* using it: once all calls have returned (one that hangs has not), the    *)
(* reaper gets it.                                                         *)
RegisteredReclaimed ==
  \A c \in Clients :
    []<>(~(registered = c /\ Alive(c)) \/ \E p \in Calls : pc[p] # "finished")
=============================================================================
