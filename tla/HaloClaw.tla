------------------------------- MODULE HaloClaw -------------------------------
(***************************************************************************)
(* One chat-platform gateway of HaloClaw with webhook delivery             *)
(* (backend/open_webui/haloclaw: router, lifecycle, dispatcher, models and *)
(* the Feishu adapter).                                                    *)
(*                                                                         *)
(* A gateway is a database row; lifecycle._adapters holds at most one      *)
(* adapter for it.  Administrators create, save, toggle and delete the row *)
(* in requests that overlap, because starting and stopping an adapter      *)
(* await the platform.  A platform event is delivered to a webhook, which  *)
(* hands it to the registered adapter in a task of its own: deduplication, *)
(* an image fetched from the platform, the question logged, the model      *)
(* asked, the answer logged and sent.  Gateways share nothing but the      *)
(* registry they are keys of, so one of them is modelled.                  *)
(*                                                                         *)
(* A step is what runs between two awaits of one coroutine.  Left out: the *)
(* sweep of events seen more than five minutes ago (the deliveries of the  *)
(* model are closer together), the formats and policies of the platforms.  *)
(***************************************************************************)
EXTENDS Naturals, Sequences, FiniteSets

CONSTANTS
  Adapters,    \* adapter objects; each is started at most once
  Admins,      \* requests of administrators; each is made at most once
  Boot,        \* the lifespan handler of main.py (startup and shutdown)
  Deliveries,  \* webhook calls of the platform
  EventOf,     \* the event a delivery carries: a platform may repeat an event
  ChatOf,      \* the chat it belongs to
  Images,      \* the deliveries whose message is an image
  Limit,       \* HALOCLAW_MAX_HISTORY
  MaxBoots,    \* bound on the number of times the server starts
  None

ASSUME DeliveriesAssumption ==
  /\ None \notin Adapters
  /\ Boot \notin Admins
  /\ Images \subseteq Deliveries
  /\ \A d, e \in Deliveries : EventOf[d] = EventOf[e] /\ d \in Images => e \in Images
  /\ DOMAIN EventOf = Deliveries
  /\ DOMAIN ChatOf = Deliveries
  /\ Limit \in Nat \ {0}
  /\ MaxBoots \in Nat

VARIABLES
  row,         \* the gateway's row: "stored" is enabled by create or save, which
               \* start no adapter, or was passed over by a start-up that is
               \* switched off; "on" is enabled by the toggle or a start-up
  registered,  \* lifecycle._adapters[gateway_id]
  adapter,     \* the adapter objects: where they are in their life, events seen
  req,         \* the coroutines that start or stop an adapter
  task,        \* the webhook calls and the tasks that process them
  users,       \* chats whose sender has a haloclaw_external_user row
  log,         \* haloclaw_message_log, in the order of created_at
  context,     \* the history the model was asked with, per delivery
  sent,        \* deliveries whose answer the platform accepted
  phase,       \* of the server process
  boots,       \* how often it has started
  switch,      \* ENABLE_HALOCLAW, which is kept in the database
  app          \* whether the dispatcher has been given the application

vars == <<row, registered, adapter, req, task, users, log, context, sent, phase, boots,
          switch, app>>

Procs  == Admins \union {Boot}
Events == {EventOf[d] : d \in Deliveries}
Chats  == {ChatOf[d] : d \in Deliveries}
Entry  == [of : Deliveries, dir : {"in", "out"}]

Enabled(r)  == r \in {"on", "stored"}
Exists(r)   == r \in {"off", "on", "stored"}
Live        == phase \in {"boot", "up", "closing"}
Free        == {a \in Adapters : adapter[a].stage = "unused"}
Heard(d)    == DOMAIN context[d] # {}
In(d)       == [of |-> d, dir |-> "in"]
Out(d)      == [of |-> d, dir |-> "out"]

\* The newest messages of the chat, each at its place in the log.
History(l, c) ==
  LET ofChat == {i \in DOMAIN l : ChatOf[l[i].of] = c}
  IN  [i \in {k \in ofChat : Cardinality({m \in ofChat : m > k}) < Limit} |-> l[i]]

TypeOK ==
  /\ row \in {"new", "off", "on", "stored", "gone"}
  /\ registered \in Adapters \union {None}
  /\ adapter \in [Adapters -> [stage : {"unused", "starting", "up", "dead", "failed", "closing",
                                        "stopped"},
                               seen : SUBSET Events]]
  /\ req \in [Procs -> [pc : {"idle", "starting", "stopping", "done"},
                        own : Adapters \union {None}]]
  /\ task \in [Deliveries -> [pc : {"none", "due", "fetch", "ask", "send", "done", "lost"},
                              by : Adapters \union {None}]]
  /\ users \subseteq Chats
  /\ log \in Seq(Entry)
  /\ DOMAIN context = Deliveries
  /\ \A d \in Deliveries : \A i \in DOMAIN context[d] : i \in Nat /\ context[d][i] \in Entry
  /\ sent \subseteq Deliveries
  /\ phase \in {"boot", "up", "closing", "down"}
  /\ boots \in 0 .. MaxBoots
  /\ switch \in BOOLEAN /\ app \in BOOLEAN

Init ==
  /\ row \in {"new", "off", "stored"}
  /\ registered = None
  /\ adapter = [a \in Adapters |-> [stage |-> "unused", seen |-> {}]]
  /\ req = [r \in Procs |-> [pc |-> "idle", own |-> None]]
  /\ task = [d \in Deliveries |-> [pc |-> "none", by |-> None]]
  /\ users = {}
  /\ log = <<>>
  /\ context = [d \in Deliveries |-> <<>>]
  /\ sent = {}
  /\ phase = "boot"
  /\ boots = 0
  /\ switch \in BOOLEAN /\ app = FALSE

-----------------------------------------------------------------------------
(* Starting and stopping an adapter                                        *)

SetReq(r, pc, a) == req' = [req EXCEPT ![r] = [pc |-> pc, own |-> a]]
SetStage(a, s)   == adapter' = [adapter EXCEPT ![a].stage = s]

\* start_gateway: a running adapter is kept; otherwise a new object is made and
\* its start() awaits the platform (token, bot info) before anything is registered.
BeginStart(r) ==
  IF registered # None /\ adapter[registered].stage = "up"
  THEN SetReq(r, "done", None) /\ UNCHANGED adapter
  ELSE \E a \in Free : SetReq(r, "starting", a) /\ SetStage(a, "starting")

Starting(r) == req[r].pc = "starting"

\* start() returned: the registry entry is written without another look at it
\* or at the row.
Started(r) ==
  /\ Starting(r)
  /\ SetStage(req[r].own, "up")
  /\ registered' = req[r].own
  /\ SetReq(r, "done", req[r].own)
  /\ UNCHANGED <<row, task, users, log, context, sent, phase, boots, switch, app>>

\* No token: start() gives up its http client and returns normally, so the
\* adapter is registered although it does not run.
StartedDead(r) ==
  /\ Starting(r)
  /\ SetStage(req[r].own, "dead")
  /\ registered' = req[r].own
  /\ SetReq(r, "done", req[r].own)
  /\ UNCHANGED <<row, task, users, log, context, sent, phase, boots, switch, app>>

\* start() raises (a missing library or credential of the other platforms).
StartRaises(r) ==
  /\ Starting(r)
  /\ SetStage(req[r].own, "failed")
  /\ SetReq(r, "done", req[r].own)
  /\ UNCHANGED <<row, registered, task, users, log, context, sent, phase, boots, switch, app>>

\* stop_gateway: the entry is popped first; stop() of a running adapter awaits
\* its refresh task and its http client, that of a dead one awaits nothing.
BeginStop(r) ==
  /\ registered' = None
  /\ IF registered = None
     THEN SetReq(r, "done", None) /\ UNCHANGED adapter
     ELSE IF adapter[registered].stage = "up"
          THEN SetReq(r, "stopping", registered) /\ SetStage(registered, "closing")
          ELSE /\ SetReq(r, "done", registered)
               /\ adapter' = [adapter EXCEPT ![registered] = [stage |-> "stopped", seen |-> {}]]

\* Mutant: the registry entry is removed once the adapter has stopped.
Stopped_PopsAfterwards(r) ==
  /\ req[r].pc = "stopping"
  /\ adapter' = [adapter EXCEPT ![req[r].own] = [stage |-> "stopped", seen |-> {}]]
  /\ SetReq(r, "done", req[r].own)
  /\ registered' = None
  /\ phase' = IF r = Boot THEN "down" ELSE phase
  /\ app' = (app /\ r # Boot)
  /\ UNCHANGED <<row, task, users, log, context, sent, boots, switch>>

Stopped(r) ==
  /\ req[r].pc = "stopping"
  /\ adapter' = [adapter EXCEPT ![req[r].own] = [stage |-> "stopped", seen |-> {}]]
  /\ SetReq(r, "done", req[r].own)
  /\ phase' = IF r = Boot THEN "down" ELSE phase
  /\ app' = (app /\ r # Boot)
  /\ UNCHANGED <<row, registered, task, users, log, context, sent, boots, switch>>

-----------------------------------------------------------------------------
(* Requests of administrators                                              *)

Asks(r) == phase = "up" /\ r \in Admins /\ req[r].pc = "idle"

\* create_gateway takes the switch of the form and starts nothing.
Create(r) ==
  /\ Asks(r) /\ row = "new"
  /\ row' \in {"off", "stored"}
  /\ SetReq(r, "done", None)
  /\ UNCHANGED <<registered, adapter, task, users, log, context, sent, phase, boots, switch, app>>

\* update_gateway writes the whole form, the switch included, and leaves the
\* adapter alone.
Save(r, on) ==
  /\ Asks(r) /\ Exists(row)
  /\ row' = IF ~on THEN "off" ELSE IF Enabled(row) THEN row ELSE "stored"
  /\ SetReq(r, "done", None)
  /\ UNCHANGED <<registered, adapter, task, users, log, context, sent, phase, boots, switch, app>>

ToggleOn(r) ==
  /\ Asks(r) /\ Exists(row)
  /\ row' = "on"
  /\ BeginStart(r)
  /\ UNCHANGED <<registered, task, users, log, context, sent, phase, boots, switch, app>>

ToggleOff(r) ==
  /\ Asks(r) /\ Exists(row)
  /\ row' = "off"
  /\ BeginStop(r)
  /\ UNCHANGED <<task, users, log, context, sent, phase, boots, switch, app>>

\* delete_gateway: messages, users and row in one commit; the adapter stays.
Delete(r) ==
  /\ Asks(r) /\ Exists(row)
  /\ row' = "gone"
  /\ users' = {}
  /\ log' = <<>>
  /\ SetReq(r, "done", None)
  /\ UNCHANGED <<registered, adapter, task, context, sent, phase, boots, switch, app>>

\* update_haloclaw_config writes the switch and nothing else looks at it before
\* the next start-up: what runs goes on, what does not run is not started.
Configure(r) ==
  /\ Asks(r)
  /\ switch' = ~switch
  /\ SetReq(r, "done", None)
  /\ UNCHANGED <<row, registered, adapter, task, users, log, context, sent, phase, boots, app>>

-----------------------------------------------------------------------------
(* The server process                                                      *)

\* startup_haloclaw: switched off it leaves everything alone, the dispatcher
\* without an application included.
StartUp ==
  /\ phase = "boot" /\ req[Boot].pc = "idle"
  /\ app' = switch
  /\ IF switch /\ Enabled(row)
     THEN BeginStart(Boot) /\ row' = "on"
     ELSE /\ SetReq(Boot, "done", None)
          /\ row' = IF row = "on" THEN "stored" ELSE row
          /\ UNCHANGED adapter
  /\ UNCHANGED <<registered, task, users, log, context, sent, phase, boots, switch>>

Serve ==
  /\ phase = "boot" /\ req[Boot].pc = "done"
  /\ phase' = "up"
  /\ UNCHANGED <<row, registered, adapter, req, task, users, log, context, sent,
                boots, switch, app>>

\* The server ends its open requests before the lifespan handler goes on.  The
\* dispatcher gives up the application once the last adapter has stopped.
Shutdown ==
  /\ phase = "up"
  /\ \A r \in Admins : req[r].pc \in {"idle", "done"}
  /\ BeginStop(Boot)
  /\ phase' = IF registered # None /\ adapter[registered].stage = "up" THEN "closing" ELSE "down"
  /\ app' = (app /\ (registered = None \/ adapter[registered].stage = "up"))
  /\ UNCHANGED <<row, task, users, log, context, sent, boots, switch>>

\* The process ends, after shutdown or in a crash, and is started again:
\* memory is empty, the rows are there.
Restart ==
  /\ boots < MaxBoots
  /\ boots' = boots + 1
  /\ phase' = "boot"
  /\ app' = FALSE
  /\ registered' = None
  /\ adapter' = [a \in Adapters |-> IF adapter[a].stage = "unused" THEN adapter[a]
                                    ELSE [stage |-> "stopped", seen |-> {}]]
  /\ req' = [r \in Procs |-> IF r = Boot THEN [pc |-> "idle", own |-> None]
                             ELSE IF req[r].pc = "idle" THEN req[r]
                             ELSE [req[r] EXCEPT !.pc = "done"]]
  /\ task' = [d \in Deliveries |-> IF task[d].pc \in {"none", "done"} THEN task[d]
                                   ELSE [task[d] EXCEPT !.pc = "lost"]]
  /\ UNCHANGED <<row, users, log, context, sent, switch>>

-----------------------------------------------------------------------------
(* A platform event                                                        *)

At(d, pc)  == Live /\ task[d].pc = pc
Move(d, pc) == task' = [task EXCEPT ![d].pc = pc]

\* The webhook answers the platform at once; without a registered adapter the
\* event is dropped.  A dead adapter is registered and takes events.
Webhook(d) ==
  /\ phase = "up" /\ task[d].pc = "none"
  /\ task' = [task EXCEPT ![d] = IF Exists(row) /\ registered # None
                                 THEN [pc |-> "due", by |-> registered]
                                 ELSE [pc |-> "lost", by |-> None]]
  /\ UNCHANGED <<row, registered, adapter, req, users, log, context, sent,
                phase, boots, switch, app>>

\* handle_message up to its first await: the sender's row, the question's row,
\* and the history the model will be asked with.
Hear(d) ==
  /\ Enabled(row) /\ app
  /\ users' = users \union {ChatOf[d]}
  /\ log' = Append(log, In(d))
  /\ context' = [context EXCEPT ![d] = History(log', ChatOf[d])]
  /\ Move(d, "ask")

\* Not enabled, no application, or a sender that is blocked or not on the list, or no model:
\* nothing is logged, though the sender may have got a row.
Ignore(d) ==
  /\ users' \in {users} \union {IF Enabled(row) /\ app THEN users \union {ChatOf[d]} ELSE users}
  /\ Move(d, "done")
  /\ UNCHANGED <<log, context>>

Seen(d) == EventOf[d] \in adapter[task[d].by].seen
\* Mutant: the delivery is remembered instead of the event.
MarkSeen_Delivery(d) ==
  adapter' = [adapter EXCEPT ![task[d].by].seen = @ \union {d}]

MarkSeen(d) ==
  adapter' = [adapter EXCEPT ![task[d].by].seen = @ \union {EventOf[d]}]

Repeated(d) ==
  /\ At(d, "due") /\ Seen(d)
  /\ Move(d, "done")
  /\ UNCHANGED <<row, registered, adapter, req, users, log, context, sent,
                phase, boots, switch, app>>

BeginText(d) ==
  /\ At(d, "due") /\ ~Seen(d) /\ d \notin Images
  /\ MarkSeen(d)
  /\ Hear(d) \/ Ignore(d)
  /\ UNCHANGED <<row, registered, req, sent, phase, boots, switch, app>>

\* Mutant: an event counts as seen only once its image is there.
BeginImage_MarksLater(d) ==
  /\ At(d, "due") /\ ~Seen(d) /\ d \in Images
  /\ Move(d, "fetch")
  /\ UNCHANGED <<row, registered, adapter, req, users, log, context, sent,
                phase, boots, switch, app>>

\* An image is marked as seen before it is fetched from the platform.
BeginImage(d) ==
  /\ At(d, "due") /\ ~Seen(d) /\ d \in Images
  /\ MarkSeen(d)
  /\ Move(d, "fetch")
  /\ UNCHANGED <<row, registered, req, users, log, context, sent, phase, boots, switch, app>>

\* Mutant: the row is read before the fetch.
Fetched_RowOfBefore(d) ==
  /\ At(d, "fetch") /\ app /\ adapter[task[d].by].stage \in {"up", "closing"}
  /\ users' = users \union {ChatOf[d]}
  /\ log' = Append(log, In(d))
  /\ context' = [context EXCEPT ![d] = History(log', ChatOf[d])]
  /\ Move(d, "ask")
  /\ UNCHANGED <<row, registered, adapter, req, sent, phase, boots, switch, app>>

\* The row is read again after the fetch.
Fetched(d) ==
  /\ At(d, "fetch") /\ adapter[task[d].by].stage \in {"up", "closing"}
  /\ Hear(d) \/ Ignore(d)
  /\ UNCHANGED <<row, registered, adapter, req, sent, phase, boots, switch, app>>

FetchFails(d) ==
  /\ At(d, "fetch")
  /\ Move(d, "done")
  /\ UNCHANGED <<row, registered, adapter, req, users, log, context, sent,
                phase, boots, switch, app>>

\* The model's answer is logged for the gateway read before the question was
\* asked: neither its row nor the sender's is looked at again.
Answer(d) ==
  /\ At(d, "ask")
  /\ log' = Append(log, Out(d))
  /\ Move(d, "send")
  /\ UNCHANGED <<row, registered, adapter, req, users, context, sent, phase, boots, switch, app>>

\* An error or an empty answer: a notice is sent and nothing is logged.
NoAnswer(d) ==
  /\ At(d, "ask")
  /\ Move(d, "done")
  /\ UNCHANGED <<row, registered, adapter, req, users, log, context, sent,
                phase, boots, switch, app>>

\* send_message needs the token and the http client of this adapter.
Send(d) ==
  /\ At(d, "send") /\ adapter[task[d].by].stage \in {"up", "closing"}
  /\ sent' = sent \union {d}
  /\ Move(d, "done")
  /\ UNCHANGED <<row, registered, adapter, req, users, log, context, phase, boots, switch, app>>

SendFails(d) ==
  /\ At(d, "send")
  /\ Move(d, "lost")
  /\ UNCHANGED <<row, registered, adapter, req, users, log, context, sent,
                phase, boots, switch, app>>

-----------------------------------------------------------------------------
Resume(r) == \/ Started(r) \/ StartedDead(r) \/ StartRaises(r) \/ Stopped(r)

Request(r) == \/ Create(r) \/ \E on \in BOOLEAN : Save(r, on)
              \/ ToggleOn(r) \/ ToggleOff(r) \/ Delete(r) \/ Configure(r)

Process(d) == \/ Repeated(d) \/ BeginText(d) \/ BeginImage(d) \/ Fetched(d) \/ FetchFails(d)
              \/ Answer(d) \/ NoAnswer(d) \/ Send(d) \/ SendFails(d)

Next ==
  \/ \E r \in Procs : Resume(r)
  \/ \E r \in Admins : Request(r)
  \/ \E d \in Deliveries : Webhook(d) \/ Process(d)
  \/ StartUp \/ Serve \/ Shutdown \/ Restart

Spec == Init /\ [][Next]_vars

-----------------------------------------------------------------------------
(* Properties                                                              *)

\* While the gateway exists, an answer in its log comes after the question it
\* answers: dispatcher.handle_message logs the two in different steps, with
\* other messages, toggles and restarts between them.
AnswersFollowQuestions ==
  Exists(row) =>
    \A i \in DOMAIN log : log[i].dir = "out" => \E j \in 1 .. (i - 1) : log[j] = In(log[i].of)

\* The model is asked with the question itself last, preceded only by messages
\* of the same chat that were logged and never by the question again: questions
\* and answers of all chats are interleaved in the one log.
HistoryIsOfTheChat ==
  \A d \in Deliveries : Heard(d) =>
    LET h == context[d] IN
    /\ \E i \in DOMAIN h : h[i] = In(d) /\ \A j \in DOMAIN h : j <= i
    /\ \A i \in DOMAIN h : ChatOf[h[i].of] = ChatOf[d]
    /\ \A i, j \in DOMAIN h : h[i] = h[j] => i = j

\* delete_gateway leaves no sender and no question behind, and none comes back
\* by a message that was on its way (only an answer may: Answer).
DeletedLeavesNoQuestion ==
  row = "gone" => users = {} /\ \A i \in DOMAIN log : log[i].dir = "out"

\* When no request is under way, a gateway switched on by the toggle since the
\* server started, or found enabled by a start-up with ENABLE_HALOCLAW on, has a
\* running adapter, unless a start failed: overlapping toggles never leave such a
\* gateway without one.
ToggledOnRuns ==
  /\ phase = "up" /\ row = "on"
  /\ \A r \in Procs : req[r].pc \in {"idle", "done"}
  /\ \A a \in Adapters : adapter[a].stage \notin {"dead", "failed"}
  => registered # None /\ adapter[registered].stage = "up"

\* An event the platform delivers again within five minutes (older events are
\* forgotten) is heard once by an adapter as long as it is not stopped, also
\* while the first delivery still awaits its image.
HeardOnce ==
  [][\A d, e \in Deliveries :
       /\ d # e /\ EventOf[d] = EventOf[e] /\ task[d].by = task[e].by
       /\ Heard(e) /\ ~Heard(d) /\ Heard(d)'
       => adapter[task[d].by].stage = "stopped"]_vars

\* Whatever requests, repeats and restarts are in between, the messages of a
\* gateway keep the promise of Conversation: asked once, with the newest messages
\* of their chat up to HALOCLAW_MAX_HISTORY, answered once, sent once logged.
Stage(d) == CASE ~Heard(d) -> "new"
              [] Heard(d) /\ task[d].pc = "ask"  -> "asked"
              [] Heard(d) /\ task[d].pc = "send" -> "answered"
              [] Heard(d) /\ task[d].pc \notin {"ask", "send"} -> "over"
Talk == INSTANCE Conversation WITH
  Messages <- Deliveries, asked <- context, senders <- users,
  stage <- [d \in Deliveries |-> Stage(d)], gone <- (row = "gone")
KeepsConversation == Talk!Spec
=============================================================================
