----------------------------- MODULE ChatTasks -----------------------------
(***************************************************************************)
(* The registry of chat response tasks (backend/open_webui/tasks.py)       *)
(* together with the coroutine that runs inside every such task, the       *)
(* post_response_handler of utils/middleware.py, and the endpoint that     *)
(* stops a task (main.py).                                                 *)
(*                                                                         *)
(* Everything runs on one asyncio event loop, so a step of the model is    *)
(* what one coroutine does between two awaits.  phase[t] names the await   *)
(* at which the coroutine of task t is suspended.  A cancellation request  *)
(* is delivered at that await, as the next step of the task.  When a task  *)
(* ends, the loop first runs cleanup_task, the done callback registered at *)
(* creation, and only then resumes the requests that wait for the task.    *)
(*                                                                         *)
(* An operator X_Defect is X with a plausible defect: a mutant that the    *)
(* properties are tried against, used by no specification.                 *)
(***************************************************************************)
EXTENDS Naturals, FiniteSets

CONSTANTS
  Chats,        \* chat ids
  TaskIds,      \* the uuids a task may get; each is used at most once
  Stoppers,     \* stop requests; each is made at most once
  MaxDeltas,    \* bound: pieces of text one reply may consist of
  RealtimeSave  \* ENABLE_REALTIME_CHAT_SAVE of env.py

ASSUME ChatTasksAssumption ==
  /\ MaxDeltas \in Nat
  /\ RealtimeSave \in BOOLEAN

NoChat == "no-chat"
NoTask == "no-task"

(* What is counted of them is counted in StoppedReplyKept.                 *)
ASSUME FiniteStoppersAssumption == IsFiniteSet(Stoppers)

ASSUME SentinelAssumption == NoChat \notin Chats /\ NoTask \notin TaskIds

VARIABLES
  tasks,       \* keys of tasks: the ids that can be stopped
  chatTasks,   \* chat_tasks: the ids listed for each chat ({} when absent)
  taskMeta,    \* task_metadata: absent, or the value of blocks_completion
  phase,       \* where the coroutine of the task is suspended
  cancelReq,   \* a CancelledError will be thrown at that await
  callbacks,   \* ended tasks whose done callback has not run yet
  chatOf,      \* the chat the reply belongs to
  streamed,    \* length of the reply in memory (content_blocks)
  saved,       \* length of the reply in the chat document
  done,        \* the "done" flag in the chat document
  stop         \* the stop requests

regVars  == <<tasks, chatTasks, taskMeta, chatOf>>
docVars  == <<saved, done>>
vars == <<tasks, chatTasks, taskMeta, phase, cancelReq, callbacks, chatOf,
          streamed, saved, done, stop>>

Live  == {"created", "streaming", "done-emit", "background", "cancel-emit",
          "response-background"}
Ended == {"returned", "cancelled", "failed"}

(* The awaits inside the handler's try block: a cancellation there is      *)
(* caught by its "except asyncio.CancelledError".  Anywhere else it ends   *)
(* the task.                                                               *)
Guarded_StreamOutsideTry == {"done-emit", "background"}
Guarded == {"streaming", "done-emit", "background"}

Known == {t \in TaskIds : phase[t] # "none"}

TypeOK ==
  /\ tasks \in SUBSET TaskIds
  /\ chatTasks \in [Chats -> SUBSET TaskIds]
  /\ taskMeta \in [TaskIds -> {"absent", "blocking", "background"}]
  /\ phase \in [TaskIds -> {"none"} \union Live \union Ended]
  /\ cancelReq \in [TaskIds -> BOOLEAN]
  /\ callbacks \in SUBSET TaskIds
  /\ chatOf \in [TaskIds -> Chats \union {NoChat}]
  /\ streamed \in [TaskIds -> 0..MaxDeltas]
  /\ saved \in [TaskIds -> 0..MaxDeltas]
  /\ done \in [TaskIds -> BOOLEAN]
  /\ stop \in [Stoppers ->
       [pc : {"idle", "waiting", "answered"},
        task : TaskIds \union {NoTask},
        answer : {"none", "stopped", "failed-to-stop", "not-found", "error"}]]

Init ==
  /\ tasks = {}
  /\ chatTasks = [c \in Chats |-> {}]
  /\ taskMeta = [t \in TaskIds |-> "absent"]
  /\ phase = [t \in TaskIds |-> "none"]
  /\ cancelReq = [t \in TaskIds |-> FALSE]
  /\ callbacks = {}
  /\ chatOf = [t \in TaskIds |-> NoChat]
  /\ streamed = [t \in TaskIds |-> 0]
  /\ saved = [t \in TaskIds |-> 0]
  /\ done = [t \in TaskIds |-> FALSE]
  /\ stop = [s \in Stoppers |->
       [pc |-> "idle", task |-> NoTask, answer |-> "none"]]

-----------------------------------------------------------------------------
(* tasks.py *)

(* process_chat_response hands the handler of a streamed reply to          *)
(* create_task, which registers it under its chat.                         *)
CreateTask(t, c) ==
  /\ phase[t] = "none"
  /\ phase' = [phase EXCEPT ![t] = "created"]
  /\ chatOf' = [chatOf EXCEPT ![t] = c]
  /\ tasks' = tasks \union {t}
  /\ taskMeta' = [taskMeta EXCEPT ![t] = "blocking"]
  /\ chatTasks' = [chatTasks EXCEPT ![c] = @ \union {t}]
  /\ UNCHANGED <<cancelReq, callbacks, streamed, docVars, stop>>

(* The done callback of an ended task.                                     *)
CleanupTask_KeepsChatEntry(t) ==
  /\ t \in callbacks
  /\ callbacks' = callbacks \ {t}
  /\ tasks' = tasks \ {t}
  /\ taskMeta' = [taskMeta EXCEPT ![t] = "absent"]
  /\ UNCHANGED <<chatTasks, phase, cancelReq, chatOf, streamed, docVars, stop>>

CleanupTask(t) ==
  /\ t \in callbacks
  /\ callbacks' = callbacks \ {t}
  /\ tasks' = tasks \ {t}
  /\ taskMeta' = [taskMeta EXCEPT ![t] = "absent"]
  /\ chatTasks' = [chatTasks EXCEPT ![chatOf[t]] = @ \ {t}]
  /\ UNCHANGED <<phase, cancelReq, chatOf, streamed, docVars, stop>>

(* What the blocks_completion_only form of list_task_ids_by_chat_id        *)
(* returns: the replies a page that loads the chat treats as generating.   *)
ListBlocking(c) == {t \in chatTasks[c] : taskMeta[t] # "background"}

(* The answer stop_task gives once the task it awaits has ended.           *)
AnswerFor(t) ==
  CASE phase[t] = "cancelled" -> "stopped"
    [] phase[t] = "returned"  -> "failed-to-stop"
    [] phase[t] = "failed"    -> "error"

(* stop_task up to its await: an unknown id is a 404; awaiting a task that *)
(* has already ended does not suspend.                                     *)
StopTaskMissing(s, t) ==
  /\ stop[s].pc = "idle"
  /\ t \in Known \ tasks
  /\ stop' = [stop EXCEPT ![s] =
       [pc |-> "answered", task |-> t, answer |-> "not-found"]]
  /\ UNCHANGED <<regVars, phase, cancelReq, callbacks, streamed, docVars>>

StopTaskLive_DoesNotAwait(s, t) ==
  /\ stop[s].pc = "idle"
  /\ t \in tasks
  /\ phase[t] \in Live
  /\ cancelReq' = [cancelReq EXCEPT ![t] = TRUE]
  /\ stop' = [stop EXCEPT ![s] =
       [pc |-> "answered", task |-> t, answer |-> "stopped"]]
  /\ UNCHANGED <<regVars, phase, callbacks, streamed, docVars>>

StopTaskLive(s, t) ==
  /\ stop[s].pc = "idle"
  /\ t \in tasks
  /\ phase[t] \in Live
  /\ cancelReq' = [cancelReq EXCEPT ![t] = TRUE]
  /\ stop' = [stop EXCEPT ![s] =
       [pc |-> "waiting", task |-> t, answer |-> "none"]]
  /\ UNCHANGED <<regVars, phase, callbacks, streamed, docVars>>

StopTaskEnded(s, t) ==
  /\ stop[s].pc = "idle"
  /\ t \in tasks
  /\ phase[t] \in Ended
  /\ stop' = [stop EXCEPT ![s] =
       [pc |-> "answered", task |-> t, answer |-> AnswerFor(t)]]
  /\ tasks' = IF phase[t] = "cancelled" THEN tasks \ {t} ELSE tasks
  /\ UNCHANGED <<chatTasks, taskMeta, chatOf, phase, cancelReq, callbacks,
                 streamed, docVars>>

(* stop_task after its await; the loop has run the done callback before.   *)
StopTaskReturns_OnlyIfCancelled(s) ==
  LET t == stop[s].task IN
  /\ stop[s].pc = "waiting"
  /\ phase[t] = "cancelled"
  /\ t \notin callbacks
  /\ stop' = [stop EXCEPT ![s] =
       [pc |-> "answered", task |-> t, answer |-> "stopped"]]
  /\ UNCHANGED <<regVars, phase, cancelReq, callbacks, streamed, docVars>>

StopTaskReturns(s) ==
  LET t == stop[s].task IN
  /\ stop[s].pc = "waiting"
  /\ phase[t] \in Ended
  /\ t \notin callbacks
  /\ stop' = [stop EXCEPT ![s] =
       [pc |-> "answered", task |-> t, answer |-> AnswerFor(t)]]
  /\ tasks' = IF phase[t] = "cancelled" THEN tasks \ {t} ELSE tasks
  /\ UNCHANGED <<chatTasks, taskMeta, chatOf, phase, cancelReq, callbacks,
                 streamed, docVars>>

-----------------------------------------------------------------------------
(* post_response_handler *)

(* The coroutine of t runs on from the await p: no cancellation pending.   *)
RunsFrom(t, p) == phase[t] = p /\ ~cancelReq[t]

GoTo(t, p) == phase' = [phase EXCEPT ![t] = p]

(* The task ends: the loop schedules its done callback.                    *)
EndTask_NoCallback(t, p) == GoTo(t, p) /\ UNCHANGED callbacks
EndTask(t, p) ==
  /\ GoTo(t, p)
  /\ callbacks' = callbacks \union {t}

(* upsert_message_to_chat_by_id_and_message_id with n pieces of text.      *)
SaveText_OffByOne(t, n) == saved' = [saved EXCEPT ![t] = n + 1]
SaveText(t, n) == saved' = [saved EXCEPT ![t] = n]

(* The save at the end of a reply, which realtime saving makes needless    *)
(* (it is left to the save of each delta).                                 *)
SaveReply_Skipped(t) == UNCHANGED saved
SaveReply(t) == IF RealtimeSave THEN UNCHANGED saved ELSE SaveText(t, streamed[t])

StartHandler(t) ==
  /\ RunsFrom(t, "created")
  /\ GoTo(t, "streaming")
  /\ UNCHANGED <<regVars, cancelReq, callbacks, streamed, docVars, stop>>

(* A delta of the model's stream.                                          *)
StreamDelta(t) ==
  /\ RunsFrom(t, "streaming")
  /\ streamed[t] < MaxDeltas
  /\ streamed' = [streamed EXCEPT ![t] = @ + 1]
  /\ IF RealtimeSave THEN SaveText(t, streamed[t] + 1) ELSE UNCHANGED saved
  /\ UNCHANGED <<regVars, phase, cancelReq, callbacks, done, stop>>

(* Text the handler itself appends between two model turns: a block of     *)
(* tool calls with its results, the notice of an unusable tool call, the   *)
(* notice of a failed follow-up turn.  It is emitted, not saved.           *)
AppendBlock(t) ==
  /\ RunsFrom(t, "streaming")
  /\ streamed[t] < MaxDeltas
  /\ streamed' = [streamed EXCEPT ![t] = @ + 1]
  /\ UNCHANGED <<regVars, phase, cancelReq, callbacks, docVars, stop>>

(* A follow-up turn the provider answers without streaming is saved at     *)
(* once ("so refresh doesn't lose the final text").                        *)
FollowUpAnswer(t) ==
  /\ RunsFrom(t, "streaming")
  /\ streamed[t] < MaxDeltas
  /\ streamed' = [streamed EXCEPT ![t] = @ + 1]
  /\ SaveText(t, streamed[t] + 1)
  /\ UNCHANGED <<regVars, phase, cancelReq, callbacks, done, stop>>

(* The model's stream raises: no handler catches it, the task dies.        *)
StreamFails(t) ==
  /\ RunsFrom(t, "streaming")
  /\ EndTask(t, "failed")
  /\ UNCHANGED <<regVars, cancelReq, streamed, docVars, stop>>

(* The stream has ended: the reply is saved as done, the task stops to     *)
(* count as generating, and the handler awaits the emission of the final   *)
(* event.                                                                  *)
Finalize(t) ==
  /\ RunsFrom(t, "streaming")
  /\ SaveReply(t)
  /\ done' = [done EXCEPT ![t] = TRUE]
  /\ taskMeta' = IF t \in tasks THEN [taskMeta EXCEPT ![t] = "background"]
                 ELSE taskMeta
  /\ GoTo(t, "done-emit")
  /\ UNCHANGED <<tasks, chatTasks, chatOf, cancelReq, callbacks, streamed, stop>>

StartBackground(t) ==
  /\ RunsFrom(t, "done-emit")
  /\ GoTo(t, "background")
  /\ UNCHANGED <<regVars, cancelReq, callbacks, streamed, docVars, stop>>

(* Title, tags and follow-ups are generated by awaited model calls.        *)
EndBackground(t) ==
  /\ RunsFrom(t, "background")
  /\ GoTo(t, "response-background")
  /\ UNCHANGED <<regVars, cancelReq, callbacks, streamed, docVars, stop>>

(* generate_title is awaited outside of any try.                           *)
BackgroundFails(t) ==
  /\ RunsFrom(t, "background")
  /\ EndTask(t, "failed")
  /\ UNCHANGED <<regVars, cancelReq, streamed, docVars, stop>>

CatchCancel_HidesAtOnce(t) ==
  /\ cancelReq[t]
  /\ phase[t] \in Guarded
  /\ cancelReq' = [cancelReq EXCEPT ![t] = FALSE]
  /\ taskMeta' = IF t \in tasks THEN [taskMeta EXCEPT ![t] = "background"]
                 ELSE taskMeta
  /\ GoTo(t, "cancel-emit")
  /\ UNCHANGED <<tasks, chatTasks, chatOf, callbacks, streamed, docVars, stop>>

(* A cancellation inside the try: the handler swallows it and awaits the   *)
(* emission of task-cancelled.                                             *)
CatchCancel(t) ==
  /\ cancelReq[t]
  /\ phase[t] \in Guarded
  /\ cancelReq' = [cancelReq EXCEPT ![t] = FALSE]
  /\ GoTo(t, "cancel-emit")
  /\ UNCHANGED <<regVars, callbacks, streamed, docVars, stop>>

(* A cancellation outside of it ends the task.                             *)
DieOfCancel(t) ==
  /\ cancelReq[t]
  /\ phase[t] \in Live \ Guarded
  /\ cancelReq' = [cancelReq EXCEPT ![t] = FALSE]
  /\ EndTask(t, "cancelled")
  /\ UNCHANGED <<regVars, streamed, docVars, stop>>

SaveCancelled(t) ==
  /\ RunsFrom(t, "cancel-emit")
  /\ SaveReply(t)
  /\ GoTo(t, "response-background")
  /\ UNCHANGED <<regVars, cancelReq, callbacks, streamed, done, stop>>

ReturnFromHandler(t) ==
  /\ RunsFrom(t, "response-background")
  /\ EndTask(t, "returned")
  /\ UNCHANGED <<regVars, cancelReq, streamed, docVars, stop>>

-----------------------------------------------------------------------------
HandlerStep(t) ==
  \/ StartHandler(t)
  \/ StreamDelta(t)
  \/ AppendBlock(t)
  \/ FollowUpAnswer(t)
  \/ StreamFails(t)
  \/ Finalize(t)
  \/ StartBackground(t)
  \/ EndBackground(t)
  \/ BackgroundFails(t)
  \/ CatchCancel(t)
  \/ DieOfCancel(t)
  \/ SaveCancelled(t)
  \/ ReturnFromHandler(t)

StopRequest(s, t) ==
  StopTaskMissing(s, t) \/ StopTaskLive(s, t) \/ StopTaskEnded(s, t)

Next ==
  \/ \E t \in TaskIds, c \in Chats : CreateTask(t, c)
  \/ \E t \in TaskIds : HandlerStep(t)
  \/ \E t \in TaskIds : CleanupTask(t)
  \/ \E s \in Stoppers, t \in TaskIds : StopRequest(s, t)
  \/ \E s \in Stoppers : StopTaskReturns(s)

Spec == Init /\ [][Next]_vars

(* The event loop runs every ready coroutine and callback; users and the   *)
(* network owe nothing.  A reply has finitely many deltas and the provider *)
(* connections have timeouts, so a stream ends.                            *)
Fairness ==
  /\ \A t \in TaskIds : WF_vars(HandlerStep(t))
  /\ \A t \in TaskIds : WF_vars(CleanupTask(t))
  /\ \A s \in Stoppers : WF_vars(StopTaskReturns(s))

FairSpec == Spec /\ Fairness

-----------------------------------------------------------------------------
(* Properties *)

(* The three dictionaries agree on which tasks exist: from create_task to  *)
(* its done callback a task is listed under its own chat only and has      *)
(* metadata, and it can be stopped, except in the moment between a stop    *)
(* that popped it and the callback.  Nothing of it is left afterwards.     *)
Registered(t) == phase[t] \in Live \/ t \in callbacks
RegistryInv ==
  /\ \A t \in TaskIds : Registered(t) <=> taskMeta[t] # "absent"
  /\ \A t \in TaskIds, c \in Chats :
       t \in chatTasks[c] <=> Registered(t) /\ chatOf[t] = c
  /\ \A t \in tasks : Registered(t)
  /\ \A t \in TaskIds : Registered(t) /\ t \notin tasks => phase[t] = "cancelled"
  /\ \A t \in callbacks : phase[t] \in Ended

(* A page that loads the chat and is told that no task is generating finds *)
(* the whole reply, marked done, in the chat document: a task that is      *)
(* still registered is hidden from the listing only once its reply is      *)
(* saved (the comment above set_current_task_blocks_completion(False)).    *)
HiddenReplySaved ==
  \A c \in Chats : \A t \in chatTasks[c] \ ListBlocking(c) :
    done[t] /\ saved[t] = streamed[t]

(* Nothing takes a finalized reply back: a stop that arrives while titles  *)
(* and tags are generated rewrites the text with the same text, and the    *)
(* done flag survives.                                                     *)
FinalizedReplyStable ==
  [][\A t \in TaskIds : done[t] => done'[t] /\ saved'[t] = saved[t]]_vars

(* A reply whose task ran to its end, however often it was asked to stop,  *)
(* or was stopped by a single request, keeps in the chat document all the  *)
(* text the user saw.                                                      *)
StopsOf(t) == {s \in Stoppers : stop[s].task = t /\ stop[s].answer # "not-found"}
StoppedReplyKept ==
  \A t \in TaskIds :
    \/ phase[t] = "returned"
    \/ phase[t] = "cancelled" /\ Cardinality(StopsOf(t)) <= 1
    => saved[t] = streamed[t]

(* The listing of generating replies (list_task_ids_by_chat_id) keeps the  *)
(* promise of ReplyPage: it tells a page what the chat document is worth.  *)
Generating == UNION {ListBlocking(c) : c \in Chats}
Page == INSTANCE ReplyPage WITH
  Replies <- TaskIds, begun <- Known, generating <- Generating,
  text <- streamed, doc <- saved
ListingTells == Page!Spec

(* Once a stop request has been answered, the task it named writes nothing *)
(* more: it saves neither text nor completion and it does not go on.       *)
AnsweredStop(t) == \E s \in Stoppers :
  stop[s].task = t /\ stop[s].pc = "answered" /\ stop[s].answer # "not-found"
NoWriteAfterStop ==
  [][\A t \in TaskIds : AnsweredStop(t) =>
       saved'[t] = saved[t] /\ done'[t] = done[t] /\ phase'[t] = phase[t]]_vars

(* Every task eventually leaves the registry.                              *)
TasksLeave == \A t \in TaskIds : (phase[t] # "none") ~> (taskMeta[t] = "absent")

(* Every stop request is answered.                                         *)
StopsAnswered == \A s \in Stoppers :
  (stop[s].pc = "waiting") ~> (stop[s].pc = "answered")
=============================================================================
