------------------------------ MODULE ModelCache ------------------------------
(***************************************************************************)
(* How the models of one user's connections are found and cached           *)
(* (backend/open_webui/utils/models.py, utils/auth.py, routers/users.py).  *)
(*                                                                         *)
(* A request authenticates in a thread of its own, where the user's row is *)
(* read through a cache of five seconds.  On the event loop it then asks   *)
(* for the base models: they are served from a cache, refreshed by one     *)
(* task that all requests share, and awaited only when there are none.     *)
(* Saving other connections invalidates both caches and cancels the        *)
(* refresh.  Users share nothing but the size limit of the cache, so one   *)
(* of them is modelled and the others are Evict.                           *)
(*                                                                         *)
(* A step is what runs between two awaits on the event loop, or between    *)
(* two accesses to shared data in a thread.                                *)
(***************************************************************************)
EXTENDS Naturals, FiniteSets

CONSTANTS
  Requests,   \* requests of the user; each may be made again and again
  Tasks,      \* refresh task objects; reused when nobody refers to them
  MaxSaves,   \* bound on the saves of other connections
  MaxEpochs,  \* bound on all invalidations
  None

ASSUME BoundsAssumption ==
  /\ MaxSaves \in Nat /\ MaxEpochs \in Nat
  /\ None \notin Nat \union Tasks \union Requests

VARIABLES
  settings,  \* version of ui.connections in the user's row
  saving,    \* the settings route has committed and not yet invalidated
  epoch,     \* number of invalidations of the model cache so far
  userCache, \* auth._user_cache: the version of the row it holds, or None
  cache,     \* _base_model_cache[user], or None
  current,   \* _base_model_refresh_tasks[user], or None
  task,      \* the refresh tasks
  req        \* the requests

vars == <<settings, saving, epoch, userCache, cache, current, task, req>>

Version == 0 .. MaxSaves
Epoch   == 0 .. MaxEpochs
Models  == [ver : Version, born : Epoch]  \* by the connections they were fetched
                                          \* with and the epoch the fetch began in
NoModels == [ver |-> 0, born |-> 0]

NoTask == [pc |-> "gone", cancel |-> FALSE, list |-> NoModels]
Idle   == [pc |-> "idle", user |-> 0, asked |-> 0, on |-> None, got |-> NoModels]

Running(t)  == task[t].pc = "run"
Waits(r, t) == req[r].pc = "wait" /\ req[r].on = t

TypeOK ==
  /\ settings \in Version
  /\ saving \in BOOLEAN
  /\ epoch \in Epoch
  /\ userCache \in Version \union {None}
  /\ cache \in [list : Models, age : {"fresh", "stale"}] \union {None}
  /\ current \in Tasks \union {None}
  /\ task \in [Tasks -> [pc : {"run", "done", "gone"}, cancel : BOOLEAN, list : Models]]
  /\ req \in [Requests -> [pc : {"idle", "read", "store", "ready", "wait", "served", "cancelled"},
                           user : Version, asked : Epoch, on : Tasks \union {None}, got : Models]]

Init ==
  /\ settings = 0 /\ saving = FALSE /\ epoch = 0
  /\ userCache = None /\ cache = None /\ current = None
  /\ task = [t \in Tasks |-> NoTask]
  /\ req = [r \in Requests |-> Idle]

-----------------------------------------------------------------------------
(* Authentication, in a thread                                             *)

\* get_current_user: the cached row if there is one.
Ask(r) ==
  /\ req[r].pc \in {"idle", "served", "cancelled"}
  /\ req' = [req EXCEPT ![r] =
       IF userCache = None THEN [Idle EXCEPT !.pc = "read"]
       ELSE [Idle EXCEPT !.pc = "ready", !.user = userCache]]
  /\ UNCHANGED <<settings, saving, epoch, userCache, cache, current, task>>

ReadUser(r) ==
  /\ req[r].pc = "read"
  /\ req' = [req EXCEPT ![r].pc = "store", ![r].user = settings]
  /\ UNCHANGED <<settings, saving, epoch, userCache, cache, current, task>>

\* The row read is cached, whatever was saved and invalidated since.
StoreUser(r) ==
  /\ req[r].pc = "store"
  /\ req' = [req EXCEPT ![r].pc = "ready"]
  /\ userCache' = req[r].user
  /\ UNCHANGED <<settings, saving, epoch, cache, current, task>>

UserExpires ==
  /\ userCache # None
  /\ userCache' = None
  /\ UNCHANGED <<settings, saving, epoch, cache, current, task, req>>

-----------------------------------------------------------------------------
(* Asking for the models, on the event loop                                *)

\* _schedule_base_model_refresh: the registered task unless it is done, or a new one.
Joins(t) == IF current # None /\ Running(current) THEN t = current ELSE task[t] = NoTask

\* Mutant: a refresh under way is left alone and another one is begun.
Schedule_Another(r, t) ==
  /\ task[t] = NoTask
  /\ current' = t
  /\ task' = [task EXCEPT ![t] = [pc |-> "run", cancel |-> FALSE,
                                  list |-> [ver |-> req[r].user, born |-> epoch]]]

Schedule(r, t) ==
  /\ Joins(t)
  /\ current' = t
  /\ task' = IF Running(t) THEN task
             ELSE [task EXCEPT ![t] = [pc |-> "run", cancel |-> FALSE,
                                       list |-> [ver |-> req[r].user, born |-> epoch]]]

Calls(r) == ~saving /\ req[r].pc = "ready"
Served(r, list) ==
  req' = [req EXCEPT ![r] = [Idle EXCEPT !.pc = "served", !.asked = epoch, !.got = list]]

CallFresh(r) ==
  /\ Calls(r) /\ cache # None /\ cache.age = "fresh"
  /\ Served(r, cache.list)
  /\ UNCHANGED <<settings, saving, epoch, userCache, cache, current, task>>

\* Mutant: a stale list is served without a refresh.
CallStale_NoRefresh(r) ==
  /\ Calls(r) /\ cache # None /\ cache.age = "stale"
  /\ Served(r, cache.list)
  /\ UNCHANGED <<settings, saving, epoch, userCache, cache, current, task>>

\* A stale list is served and refreshed in the background.
CallStale(r) ==
  /\ Calls(r) /\ cache # None /\ cache.age = "stale"
  /\ Served(r, cache.list)
  /\ \E t \in Tasks : Schedule(r, t)
  /\ UNCHANGED <<settings, saving, epoch, userCache, cache>>

CallMiss(r) ==
  /\ Calls(r) /\ cache = None
  /\ \E t \in Tasks :
       /\ Schedule(r, t)
       /\ req' = [req EXCEPT ![r] = [Idle EXCEPT !.pc = "wait", !.asked = epoch, !.on = t]]
  /\ UNCHANGED <<settings, saving, epoch, userCache, cache>>

\* The request is cancelled (a stopped chat task): the task it awaits is
\* cancelled with it, and with that task everyone else who awaits it.
Stop(r) ==
  /\ ~saving /\ req[r].pc = "wait"
  /\ IF Running(req[r].on)
     THEN task' = [task EXCEPT ![req[r].on].cancel = TRUE] /\ UNCHANGED req
     ELSE req' = [req EXCEPT ![r] = [Idle EXCEPT !.pc = "cancelled"]] /\ UNCHANGED task
  /\ UNCHANGED <<settings, saving, epoch, userCache, cache, current>>

-----------------------------------------------------------------------------
(* The refresh task                                                        *)

\* All sources have answered, failed or timed out.
Fetched(t) ==
  /\ ~saving /\ Running(t) /\ ~task[t].cancel
  /\ cache' = [list |-> task[t].list, age |-> "fresh"]
  /\ task' = [task EXCEPT ![t].pc = "done"]
  /\ UNCHANGED <<settings, saving, epoch, userCache, current, req>>

\* Mutant: the cancellation is taken for a failure, and no list is cached as the list.
Cancelled_Cached(t) ==
  /\ ~saving /\ Running(t) /\ task[t].cancel
  /\ task' = [task EXCEPT ![t].pc = "done"]
  /\ cache' = [list |-> None, age |-> "fresh"]
  /\ UNCHANGED <<settings, saving, epoch, userCache, current, req>>

\* A cancelled source is not one that failed: nothing is cached.
Cancelled(t) ==
  /\ ~saving /\ Running(t) /\ task[t].cancel
  /\ task' = [task EXCEPT ![t].pc = "done"]
  /\ UNCHANGED <<settings, saving, epoch, userCache, cache, current, req>>

\* What those who await the task get: its list, or its cancellation.
Result(r, t) ==
  IF task[t].cancel THEN [Idle EXCEPT !.pc = "cancelled"]
  ELSE [req[r] EXCEPT !.pc = "served", !.on = None, !.got = task[t].list]

\* Mutant: a task that is not registered any more wakes nobody.
Finalize_OnlyRegistered(t) ==
  /\ ~saving /\ task[t].pc = "done"
  /\ task' = [task EXCEPT ![t] = NoTask]
  /\ current' = IF current = t THEN None ELSE current
  /\ req' = [r \in Requests |-> IF Waits(r, t) /\ current = t THEN Result(r, t) ELSE req[r]]
  /\ UNCHANGED <<settings, saving, epoch, userCache, cache>>

\* The done callback and, queued right behind it, the wakeups.
Finalize(t) ==
  /\ ~saving /\ task[t].pc = "done"
  /\ task' = [task EXCEPT ![t] = NoTask]
  /\ current' = IF current = t THEN None ELSE current
  /\ req' = [r \in Requests |-> IF Waits(r, t) THEN Result(r, t) ELSE req[r]]
  /\ UNCHANGED <<settings, saving, epoch, userCache, cache>>

-----------------------------------------------------------------------------
(* Invalidation                                                            *)

\* Mutant: the list goes and the refresh under way stays.
DropModels_NotTheTask ==
  /\ epoch' = epoch + 1
  /\ cache' = None
  /\ UNCHANGED <<current, task>>

\* invalidate_base_model_cache.
DropModels ==
  /\ epoch' = epoch + 1
  /\ cache' = None
  /\ current' = None
  /\ task' = IF current # None /\ Running(current)
             THEN [task EXCEPT ![current].cancel = TRUE] ELSE task

\* update_user_settings_by_session_user writes other connections, and before
\* its next line threads go on.
Save ==
  /\ ~saving /\ settings < MaxSaves /\ epoch < MaxEpochs
  /\ settings' = settings + 1
  /\ saving' = TRUE
  /\ UNCHANGED <<epoch, userCache, cache, current, task, req>>

Invalidate ==
  /\ saving
  /\ saving' = FALSE
  /\ userCache' = None
  /\ DropModels
  /\ UNCHANGED <<settings, req>>

\* Functions or providers were configured, a backup was restored.
Reconfigure ==
  /\ ~saving /\ epoch < MaxEpochs
  /\ DropModels
  /\ UNCHANGED <<settings, saving, userCache, req>>

\* _BASE_MODEL_CACHE_TTL has passed.
Age ==
  /\ cache # None /\ cache.age = "fresh"
  /\ cache' = [cache EXCEPT !.age = "stale"]
  /\ UNCHANGED <<settings, saving, epoch, userCache, current, task, req>>

\* Twice the time has passed, or other users fill the cache.
Evict ==
  /\ ~saving /\ cache # None
  /\ cache' = None
  /\ UNCHANGED <<settings, saving, epoch, userCache, current, task, req>>

-----------------------------------------------------------------------------
Call(r)    == CallFresh(r) \/ CallStale(r) \/ CallMiss(r)
Proceed(r) == Ask(r) \/ ReadUser(r) \/ StoreUser(r) \/ Call(r)
Refresh(t) == Fetched(t) \/ Cancelled(t) \/ Finalize(t)

Next ==
  \/ \E r \in Requests : Proceed(r) \/ Stop(r)
  \/ \E t \in Tasks : Refresh(t)
  \/ Save \/ Invalidate \/ Reconfigure
  \/ UserExpires \/ Age \/ Evict

Spec == Init /\ [][Next]_vars

\* Threads and the event loop go on, every source has a timeout, time passes,
\* and the user goes on making requests.
FairSpec ==
  /\ Spec
  /\ \A r \in Requests : WF_vars(Proceed(r))
  /\ \A t \in Tasks : WF_vars(Refresh(t))
  /\ WF_vars(Invalidate) /\ WF_vars(UserExpires) /\ WF_vars(Age)

-----------------------------------------------------------------------------
(* Properties                                                              *)

\* The list a request is served was fetched by a refresh that began after every
\* invalidation that came before the request asked: no refresh that was under
\* way at an invalidation gets its list to a later request, by the cache or by
\* being awaited.
ServedSinceAsked ==
  \A r \in Requests : req[r].pc = "served" => req[r].got.born >= req[r].asked

\* At most one refresh runs that has not been told to stop, however requests,
\* invalidations and done callbacks interleave.
SingleFlight ==
  \A t, u \in Tasks :
    Running(t) /\ Running(u) /\ ~task[t].cancel /\ ~task[u].cancel => t = u

\* A request awaits a task that has still to end, and unless that one was told to
\* stop it is the registered one: nobody is left with a task that was dropped by
\* an invalidation or that another one has replaced.
NobodyIsForgotten ==
  \A r \in Requests : req[r].pc = "wait" =>
    \E t \in Tasks :
      /\ req[r].on = t
      /\ task[t].pc = "done" \/ (Running(t) /\ (task[t].cancel \/ current = t))

\* What was saved last takes effect at last: a row cached by a thread that
\* read it before the save, and a list fetched with it after the invalidation,
\* are both outlived.
SettingsTakeEffect ==
  <>[](\A r \in Requests : req[r].pc = "served" => req[r].got.ver = settings)
=============================================================================
