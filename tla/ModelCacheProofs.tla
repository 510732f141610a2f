--------------------------- MODULE ModelCacheProofs ---------------------------
(***************************************************************************)
(* Theorems about ModelCache, for any number of requests, refresh tasks,   *)
(* saves and invalidations.                                                *)
(***************************************************************************)
EXTENDS ModelCache, TLAPS

(* A save leaves room for its invalidation, which follows at once. *)
RoomInv == saving => epoch < MaxEpochs

(* The refresh that may still deliver is the registered one, and it began  *)
(* after the last invalidation.                                            *)
AliveInv == \A t \in Tasks : Running(t) /\ ~task[t].cancel => t = current /\ task[t].list.born = epoch

(* What is cached is not older than the last invalidation. *)
CacheInv == cache # None => cache.list.born = epoch

(* Who awaits a task awaits one that will deliver what was fetched since   *)
(* the request asked, or its own cancellation.                             *)
WaitInv ==
  \A r \in Requests : req[r].pc = "wait" =>
    /\ req[r].on \in Tasks
    /\ task[req[r].on].pc \in {"run", "done"}
    /\ ~task[req[r].on].cancel => task[req[r].on].list.born >= req[r].asked

TypeInv == TypeOK /\ RoomInv
IInv == TypeInv /\ AliveInv /\ CacheInv /\ WaitInv /\ ServedSinceAsked

TaskRec == [pc : {"run", "done", "gone"}, cancel : BOOLEAN, list : Models]
ReqRec  == [pc : {"idle", "read", "store", "ready", "wait", "served", "cancelled"},
            user : Version, asked : Epoch, on : Tasks \union {None}, got : Models]

(* What the requests hold. *)
LEMMA ReqType == TypeInv /\ [Next]_vars => req' \in [Requests -> ReqRec]
<1> SUFFICES ASSUME TypeInv, [Next]_vars PROVE req' \in [Requests -> ReqRec]
  OBVIOUS
<1>0. /\ req \in [Requests -> ReqRec]
      /\ userCache \in Version \union {None} /\ settings \in Version /\ epoch \in Epoch
      /\ cache # None => cache.list \in Models
      /\ \A t \in Tasks : task[t].list \in Models
      /\ Idle \in ReqRec
  BY BoundsAssumption DEF TypeInv, TypeOK, ReqRec, Idle, NoModels, Models, Version, Epoch
<1>a. \A q \in ReqRec : q.user \in Version /\ q.asked \in Epoch /\ q.got \in Models
  BY DEF ReqRec
<1>b. /\ \A p \in {"idle", "read", "store", "ready", "wait", "served", "cancelled"}, q \in ReqRec : [q EXCEPT !.pc = p] \in ReqRec
      /\ \A u \in Version, q \in ReqRec : [q EXCEPT !.user = u] \in ReqRec
      /\ \A e \in Epoch, q \in ReqRec : [q EXCEPT !.asked = e] \in ReqRec
      /\ \A t \in Tasks \union {None}, q \in ReqRec : [q EXCEPT !.on = t] \in ReqRec
      /\ \A l \in Models, q \in ReqRec : [q EXCEPT !.got = l] \in ReqRec
  BY DEF ReqRec
<1> DEFINE Frame == UNCHANGED <<req>>
<1>1. CASE Frame
  BY <1>1, <1>0
<1>2. ASSUME NEW r \in Requests, Ask(r) PROVE req' \in [Requests -> ReqRec]
  <2>1. /\ [Idle EXCEPT !.pc = "read"] \in ReqRec
        /\ userCache # None => [[Idle EXCEPT !.pc = "ready"] EXCEPT !.user = userCache] \in ReqRec
    BY <1>0, <1>b
  <2>2. CASE userCache = None
    BY <1>2, <1>0, <2>1, <2>2 DEF Ask
  <2>3. CASE userCache # None
    BY <1>2, <1>0, <2>1, <2>3 DEF Ask
  <2> QED
    BY <2>2, <2>3
<1>3. ASSUME NEW r \in Requests, ReadUser(r) PROVE req' \in [Requests -> ReqRec]
  <2>1. [[req[r] EXCEPT !.pc = "store"] EXCEPT !.user = settings] \in ReqRec
    BY <1>0, <1>b
  <2> QED
    BY <1>3, <1>0, <2>1 DEF ReadUser
<1>4. ASSUME NEW r \in Requests, StoreUser(r) PROVE req' \in [Requests -> ReqRec]
  BY <1>4, <1>0, <1>b DEF StoreUser
<1>5. ASSUME NEW r \in Requests, CallFresh(r) PROVE req' \in [Requests -> ReqRec]
  <2>1. [[[Idle EXCEPT !.pc = "served"] EXCEPT !.asked = epoch] EXCEPT !.got = cache.list] \in ReqRec
    BY <1>5, <1>0, <1>b DEF CallFresh
  <2>2. req' = [req EXCEPT ![r] = [Idle EXCEPT !.pc = "served", !.asked = epoch, !.got = cache.list]]
    BY <1>5 DEF CallFresh, Served
  <2> QED
    BY <1>0, <2>1, <2>2
<1>6. ASSUME NEW r \in Requests, CallStale(r) PROVE req' \in [Requests -> ReqRec]
  <2>1. [[[Idle EXCEPT !.pc = "served"] EXCEPT !.asked = epoch] EXCEPT !.got = cache.list] \in ReqRec
    BY <1>6, <1>0, <1>b DEF CallStale
  <2>2. req' = [req EXCEPT ![r] = [Idle EXCEPT !.pc = "served", !.asked = epoch, !.got = cache.list]]
    BY <1>6 DEF CallStale, Served
  <2> QED
    BY <1>0, <2>1, <2>2
<1>7. ASSUME NEW r \in Requests, CallMiss(r) PROVE req' \in [Requests -> ReqRec]
  <2>1. PICK t \in Tasks : req' = [req EXCEPT ![r] = [Idle EXCEPT !.pc = "wait", !.asked = epoch, !.on = t]]
    BY <1>7 DEF CallMiss
  <2>2. [[[Idle EXCEPT !.pc = "wait"] EXCEPT !.asked = epoch] EXCEPT !.on = t] \in ReqRec
    BY <1>0, <1>b
  <2> QED
    BY <1>0, <2>1, <2>2
<1>8. ASSUME NEW r \in Requests, Stop(r) PROVE req' \in [Requests -> ReqRec]
  BY <1>8, <1>0, <1>b DEF Stop
<1>9. ASSUME NEW t \in Tasks, Fetched(t) PROVE Frame
  BY <1>9 DEF Fetched
<1>10. ASSUME NEW t \in Tasks, Cancelled(t) PROVE Frame
  BY <1>10 DEF Cancelled
<1>11. ASSUME NEW t \in Tasks, Finalize(t) PROVE req' \in [Requests -> ReqRec]
  <2>1. \A r \in Requests : Result(r, t) \in ReqRec
    <3> SUFFICES ASSUME NEW r \in Requests PROVE Result(r, t) \in ReqRec
      OBVIOUS
    <3>1. [Idle EXCEPT !.pc = "cancelled"] \in ReqRec
      BY <1>0, <1>b
    <3>2. [[[req[r] EXCEPT !.pc = "served"] EXCEPT !.on = None] EXCEPT !.got = task[t].list] \in ReqRec
      BY <1>0, <1>b
    <3> QED
      BY <3>1, <3>2 DEF Result
  <2> QED
    BY <1>11, <1>0, <2>1 DEF Finalize
<1>12. ASSUME Save PROVE Frame
  BY <1>12 DEF Save
<1>13. ASSUME Invalidate PROVE Frame
  BY <1>13 DEF Invalidate, DropModels, Served
<1>14. ASSUME Reconfigure PROVE Frame
  BY <1>14 DEF Reconfigure, DropModels, Served
<1>15. ASSUME UserExpires PROVE Frame
  BY <1>15 DEF UserExpires
<1>16. ASSUME Age PROVE Frame
  BY <1>16 DEF Age
<1>17. ASSUME Evict PROVE Frame
  BY <1>17 DEF Evict
<1>18. CASE UNCHANGED vars
  BY <1>1, <1>18 DEF vars
<1> QED
  BY <1>1, <1>2, <1>3, <1>4, <1>5, <1>6, <1>7, <1>8, <1>9, <1>10, <1>11, <1>12, <1>13, <1>14,
     <1>15, <1>16, <1>17, <1>18 DEF Next, Proceed, Call, Refresh

(* What the tasks hold. *)
LEMMA TaskType == TypeInv /\ [Next]_vars => task' \in [Tasks -> TaskRec]
<1> SUFFICES ASSUME TypeInv, [Next]_vars PROVE task' \in [Tasks -> TaskRec]
  OBVIOUS
<1>0. /\ task \in [Tasks -> TaskRec] /\ NoTask \in TaskRec
      /\ \A r \in Requests : [ver |-> req[r].user, born |-> epoch] \in Models
      /\ current \in Tasks \union {None}
  BY BoundsAssumption DEF TypeInv, TypeOK, TaskRec, NoTask, NoModels, Models, Version, Epoch
<1> USE <1>0
<1> DEFINE Frame == UNCHANGED <<task>>
<1>1. CASE Frame
  BY <1>1, <1>0
<1>2. ASSUME NEW r \in Requests, Ask(r) PROVE Frame
  BY <1>2 DEF Ask
<1>3. ASSUME NEW r \in Requests, ReadUser(r) PROVE Frame
  BY <1>3 DEF ReadUser
<1>4. ASSUME NEW r \in Requests, StoreUser(r) PROVE Frame
  BY <1>4 DEF StoreUser
<1>5. ASSUME NEW r \in Requests, CallFresh(r) PROVE Frame
  BY <1>5 DEF CallFresh, DropModels, Served
<1>6. ASSUME NEW r \in Requests, CallStale(r) PROVE task' \in [Tasks -> TaskRec]
  <2>1. PICK t \in Tasks : Schedule(r, t)
    BY <1>6 DEF CallStale
  <2>2. [pc |-> "run", cancel |-> FALSE, list |-> [ver |-> req[r].user, born |-> epoch]] \in TaskRec
    BY DEF TaskRec
  <2> QED
    BY <2>1, <2>2 DEF Schedule
<1>7. ASSUME NEW r \in Requests, CallMiss(r) PROVE task' \in [Tasks -> TaskRec]
  <2>1. PICK t \in Tasks : Schedule(r, t)
    BY <1>7 DEF CallMiss
  <2>2. [pc |-> "run", cancel |-> FALSE, list |-> [ver |-> req[r].user, born |-> epoch]] \in TaskRec
    BY DEF TaskRec
  <2> QED
    BY <2>1, <2>2 DEF Schedule
<1>8. ASSUME NEW r \in Requests, Stop(r) PROVE task' \in [Tasks -> TaskRec]
  <2>1. \A t \in Tasks : [task[t] EXCEPT !.cancel = TRUE] \in TaskRec
    BY DEF TaskRec
  <2>2. task' = [task EXCEPT ![req[r].on].cancel = TRUE] \/ UNCHANGED task
    BY <1>8 DEF Stop
  <2> QED
    BY <2>1, <2>2
<1>9. ASSUME NEW t \in Tasks, Fetched(t) PROVE task' \in [Tasks -> TaskRec]
  BY <1>9 DEF Fetched, TaskRec
<1>10. ASSUME NEW t \in Tasks, Cancelled(t) PROVE task' \in [Tasks -> TaskRec]
  BY <1>10 DEF Cancelled, TaskRec
<1>11. ASSUME NEW t \in Tasks, Finalize(t) PROVE task' \in [Tasks -> TaskRec]
  BY <1>11 DEF Finalize
<1>12. ASSUME Save PROVE Frame
  BY <1>12 DEF Save
<1>13. ASSUME Invalidate PROVE task' \in [Tasks -> TaskRec]
  BY <1>13 DEF Invalidate, DropModels, TaskRec
<1>14. ASSUME Reconfigure PROVE task' \in [Tasks -> TaskRec]
  BY <1>14 DEF Reconfigure, DropModels, TaskRec
<1>15. ASSUME UserExpires PROVE Frame
  BY <1>15 DEF UserExpires
<1>16. ASSUME Age PROVE Frame
  BY <1>16 DEF Age
<1>17. ASSUME Evict PROVE Frame
  BY <1>17 DEF Evict
<1>18. CASE UNCHANGED vars
  BY <1>1, <1>18 DEF vars
<1> QED
  BY <1>1, <1>2, <1>3, <1>4, <1>5, <1>6, <1>7, <1>8, <1>9, <1>10, <1>11, <1>12, <1>13, <1>14,
     <1>15, <1>16, <1>17, <1>18 DEF Next, Proceed, Call, Refresh

(* The remaining variables, and the room for invalidations. *)
LEMMA RestType ==
  TypeInv /\ [Next]_vars =>
    /\ settings' \in Version /\ saving' \in BOOLEAN /\ epoch' \in Epoch
    /\ userCache' \in Version \union {None}
    /\ cache' \in [list : Models, age : {"fresh", "stale"}] \union {None}
    /\ current' \in Tasks \union {None}
    /\ RoomInv'
<1> DEFINE Rest ==
      /\ settings' \in Version /\ saving' \in BOOLEAN /\ epoch' \in Epoch
      /\ userCache' \in Version \union {None}
      /\ cache' \in [list : Models, age : {"fresh", "stale"}] \union {None}
      /\ current' \in Tasks \union {None}
      /\ RoomInv'
<1> SUFFICES ASSUME TypeInv, [Next]_vars PROVE Rest
  OBVIOUS
<1>0. /\ settings \in Version /\ saving \in BOOLEAN /\ epoch \in Epoch
      /\ userCache \in Version \union {None}
      /\ cache \in [list : Models, age : {"fresh", "stale"}] \union {None}
      /\ current \in Tasks \union {None}
      /\ RoomInv
      /\ \A r \in Requests : req[r].user \in Version
      /\ \A t \in Tasks : task[t].list \in Models
  BY DEF TypeInv, TypeOK
<1> USE <1>0, BoundsAssumption DEF RoomInv, DropModels, Version, Epoch
<1> DEFINE Frame == UNCHANGED <<settings, saving, epoch, userCache, cache, current>>
<1>1. CASE Frame
  BY <1>1, <1>0
<1>2. ASSUME NEW r \in Requests, Ask(r) PROVE Frame
  BY <1>2 DEF Ask
<1>3. ASSUME NEW r \in Requests, ReadUser(r) PROVE Frame
  BY <1>3 DEF ReadUser
<1>4. ASSUME NEW r \in Requests, StoreUser(r) PROVE Rest
  BY <1>4 DEF StoreUser
<1>5. ASSUME NEW r \in Requests, CallFresh(r) PROVE Frame
  BY <1>5 DEF CallFresh, DropModels, Served
<1>6. ASSUME NEW r \in Requests, CallStale(r) PROVE Rest
  BY <1>6 DEF CallStale, Schedule
<1>7. ASSUME NEW r \in Requests, CallMiss(r) PROVE Rest
  BY <1>7 DEF CallMiss, Schedule
<1>8. ASSUME NEW r \in Requests, Stop(r) PROVE Frame
  BY <1>8 DEF Stop
<1>9. ASSUME NEW t \in Tasks, Fetched(t) PROVE Rest
  BY <1>9 DEF Fetched
<1>10. ASSUME NEW t \in Tasks, Cancelled(t) PROVE Frame
  BY <1>10 DEF Cancelled
<1>11. ASSUME NEW t \in Tasks, Finalize(t) PROVE Rest
  BY <1>11 DEF Finalize
<1>12. ASSUME Save PROVE Rest
  BY <1>12 DEF Save
<1>13. ASSUME Invalidate PROVE Rest
  <2>1. saving /\ saving' = FALSE /\ userCache' = None /\ epoch' = epoch + 1 /\ cache' = None /\ current' = None /\ settings' = settings
    BY <1>13 DEF Invalidate
  <2>2. epoch + 1 \in 0 .. MaxEpochs
    BY <2>1
  <2>3. RoomInv'
    BY <2>1
  <2> QED
    BY <2>1, <2>2, <2>3
<1>14. ASSUME Reconfigure PROVE Rest
  BY <1>14 DEF Reconfigure
<1>15. ASSUME UserExpires PROVE Rest
  BY <1>15 DEF UserExpires
<1>16. ASSUME Age PROVE Rest
  BY <1>16 DEF Age
<1>17. ASSUME Evict PROVE Rest
  BY <1>17 DEF Evict
<1>18. CASE UNCHANGED vars
  BY <1>1, <1>18 DEF vars
<1> QED
  BY <1>1, <1>2, <1>3, <1>4, <1>5, <1>6, <1>7, <1>8, <1>9, <1>10, <1>11, <1>12, <1>13, <1>14,
     <1>15, <1>16, <1>17, <1>18 DEF Next, Proceed, Call, Refresh

LEMMA TypeStep == TypeInv /\ [Next]_vars => TypeInv'
  BY ReqType, TaskType, RestType DEF TypeInv, TypeOK, ReqRec, TaskRec

LEMMA AliveStep == IInv /\ [Next]_vars => AliveInv'
<1> USE BoundsAssumption DEF IInv, TypeInv, TypeOK, AliveInv, NoTask, Running, Calls, Served,
    DropModels
<1> SUFFICES ASSUME IInv, [Next]_vars PROVE AliveInv'
  OBVIOUS
<1>1. ASSUME NEW r \in Requests, Ask(r) PROVE AliveInv'
  BY <1>1 DEF Ask
<1>2. ASSUME NEW r \in Requests, ReadUser(r) PROVE AliveInv'
  BY <1>2 DEF ReadUser
<1>3. ASSUME NEW r \in Requests, StoreUser(r) PROVE AliveInv'
  BY <1>3 DEF StoreUser
<1>4. ASSUME NEW r \in Requests, CallFresh(r) PROVE AliveInv'
  BY <1>4 DEF CallFresh
<1>5. ASSUME NEW r \in Requests, CallStale(r) PROVE AliveInv'
  <2>1. PICK t \in Tasks : Schedule(r, t)
    BY <1>5 DEF CallStale
  <2>2. CASE Running(t)
    BY <1>5, <2>1, <2>2 DEF CallStale, Schedule, Joins
  <2>3. CASE ~Running(t)
    <3>1. /\ task[t] = NoTask /\ current' = t
          /\ task' = [task EXCEPT ![t] = [pc |-> "run", cancel |-> FALSE, list |-> [ver |-> req[r].user, born |-> epoch]]]
      BY <2>1, <2>3 DEF Schedule, Joins
    <3>2. UNCHANGED <<epoch, cache>> 
      BY <1>5 DEF CallStale
    <3>3. task'[t] = [pc |-> "run", cancel |-> FALSE, list |-> [ver |-> req[r].user, born |-> epoch]]
      BY <3>1
    <3>0. ~(current # None /\ Running(current))
      BY <2>1, <2>3 DEF Schedule, Joins
    <3>4. \A u \in Tasks : u # t => task'[u] = task[u] /\ (~Running(u) \/ task[u].cancel)
      BY <3>0, <3>1
    <3> QED
      BY <3>1, <3>2, <3>3, <3>4
  <2> QED
    BY <2>2, <2>3
<1>6. ASSUME NEW r \in Requests, CallMiss(r) PROVE AliveInv'
  <2>1. PICK t \in Tasks : Schedule(r, t)
    BY <1>6 DEF CallMiss
  <2>2. CASE Running(t)
    BY <1>6, <2>1, <2>2 DEF CallMiss, Schedule, Joins
  <2>3. CASE ~Running(t)
    <3>1. /\ task[t] = NoTask /\ current' = t
          /\ task' = [task EXCEPT ![t] = [pc |-> "run", cancel |-> FALSE, list |-> [ver |-> req[r].user, born |-> epoch]]]
      BY <2>1, <2>3 DEF Schedule, Joins
    <3>2. UNCHANGED <<epoch, cache>> 
      BY <1>6 DEF CallMiss
    <3>3. task'[t] = [pc |-> "run", cancel |-> FALSE, list |-> [ver |-> req[r].user, born |-> epoch]]
      BY <3>1
    <3>0. ~(current # None /\ Running(current))
      BY <2>1, <2>3 DEF Schedule, Joins
    <3>4. \A u \in Tasks : u # t => task'[u] = task[u] /\ (~Running(u) \/ task[u].cancel)
      BY <3>0, <3>1
    <3> QED
      BY <3>1, <3>2, <3>3, <3>4
  <2> QED
    BY <2>2, <2>3
<1>7. ASSUME NEW r \in Requests, Stop(r) PROVE AliveInv'
  BY <1>7 DEF Stop
<1>8. ASSUME NEW t \in Tasks, Fetched(t) PROVE AliveInv'
  BY <1>8 DEF Fetched
<1>9. ASSUME NEW t \in Tasks, Cancelled(t) PROVE AliveInv'
  BY <1>9 DEF Cancelled
<1>10. ASSUME NEW t \in Tasks, Finalize(t) PROVE AliveInv'
  BY <1>10 DEF Finalize
<1>11. ASSUME Save PROVE AliveInv'
  BY <1>11 DEF Save
<1>12. ASSUME Invalidate PROVE AliveInv'
  <2>1. CASE current # None /\ Running(current)
    BY <1>12, <2>1 DEF Invalidate
  <2>2. CASE ~(current # None /\ Running(current))
    BY <1>12, <2>2 DEF Invalidate
  <2> QED
    BY <2>1, <2>2
<1>13. ASSUME Reconfigure PROVE AliveInv'
  <2>1. CASE current # None /\ Running(current)
    BY <1>13, <2>1 DEF Reconfigure
  <2>2. CASE ~(current # None /\ Running(current))
    BY <1>13, <2>2 DEF Reconfigure
  <2> QED
    BY <2>1, <2>2
<1>14. ASSUME UserExpires PROVE AliveInv'
  BY <1>14 DEF UserExpires
<1>15. ASSUME Age PROVE AliveInv'
  BY <1>15 DEF Age
<1>16. ASSUME Evict PROVE AliveInv'
  BY <1>16 DEF Evict
<1>17. CASE UNCHANGED vars
  BY <1>17 DEF vars
<1> QED
  BY <1>1, <1>2, <1>3, <1>4, <1>5, <1>6, <1>7, <1>8, <1>9, <1>10, <1>11, <1>12, <1>13, <1>14,
     <1>15, <1>16, <1>17 DEF Next, Proceed, Call, Refresh

LEMMA CacheStep == IInv /\ [Next]_vars => CacheInv'
<1> USE BoundsAssumption DEF IInv, TypeInv, TypeOK, AliveInv, CacheInv, Running, Calls,
    Served, DropModels
<1> SUFFICES ASSUME IInv, [Next]_vars PROVE CacheInv'
  OBVIOUS
<1>1. ASSUME NEW r \in Requests, Ask(r) PROVE CacheInv'
  BY <1>1 DEF Ask
<1>2. ASSUME NEW r \in Requests, ReadUser(r) PROVE CacheInv'
  BY <1>2 DEF ReadUser
<1>3. ASSUME NEW r \in Requests, StoreUser(r) PROVE CacheInv'
  BY <1>3 DEF StoreUser
<1>4. ASSUME NEW r \in Requests, CallFresh(r) PROVE CacheInv'
  BY <1>4 DEF CallFresh
<1>5. ASSUME NEW r \in Requests, CallStale(r) PROVE CacheInv'
  BY <1>5 DEF CallStale
<1>6. ASSUME NEW r \in Requests, CallMiss(r) PROVE CacheInv'
  BY <1>6 DEF CallMiss
<1>7. ASSUME NEW r \in Requests, Stop(r) PROVE CacheInv'
  BY <1>7 DEF Stop
<1>8. ASSUME NEW t \in Tasks, Fetched(t) PROVE CacheInv'
  BY <1>8 DEF Fetched
<1>9. ASSUME NEW t \in Tasks, Cancelled(t) PROVE CacheInv'
  BY <1>9 DEF Cancelled
<1>10. ASSUME NEW t \in Tasks, Finalize(t) PROVE CacheInv'
  BY <1>10 DEF Finalize
<1>11. ASSUME Save PROVE CacheInv'
  BY <1>11 DEF Save
<1>12. ASSUME Invalidate PROVE CacheInv'
  BY <1>12 DEF Invalidate
<1>13. ASSUME Reconfigure PROVE CacheInv'
  BY <1>13 DEF Reconfigure
<1>14. ASSUME UserExpires PROVE CacheInv'
  BY <1>14 DEF UserExpires
<1>15. ASSUME Age PROVE CacheInv'
  BY <1>15 DEF Age
<1>16. ASSUME Evict PROVE CacheInv'
  BY <1>16 DEF Evict
<1>17. CASE UNCHANGED vars
  BY <1>17 DEF vars
<1> QED
  BY <1>1, <1>2, <1>3, <1>4, <1>5, <1>6, <1>7, <1>8, <1>9, <1>10, <1>11, <1>12, <1>13, <1>14,
     <1>15, <1>16, <1>17 DEF Next, Proceed, Call, Refresh

LEMMA WaitStep == IInv /\ [Next]_vars => WaitInv'
<1> USE BoundsAssumption DEF IInv, TypeInv, TypeOK, AliveInv, WaitInv, Epoch, NoTask, Idle,
    Running, Waits, Calls, Served, DropModels, Result
<1> SUFFICES ASSUME IInv, [Next]_vars PROVE WaitInv'
  OBVIOUS
<1>1. ASSUME NEW r \in Requests, Ask(r) PROVE WaitInv'
  BY <1>1 DEF Ask
<1>2. ASSUME NEW r \in Requests, ReadUser(r) PROVE WaitInv'
  BY <1>2 DEF ReadUser
<1>3. ASSUME NEW r \in Requests, StoreUser(r) PROVE WaitInv'
  BY <1>3 DEF StoreUser
<1>4. ASSUME NEW r \in Requests, CallFresh(r) PROVE WaitInv'
  BY <1>4 DEF CallFresh
<1>5. ASSUME NEW r \in Requests, CallStale(r) PROVE WaitInv'
  <2>1. PICK t \in Tasks : Schedule(r, t)
    BY <1>5 DEF CallStale
  <2>2. CASE Running(t)
    BY <1>5, <2>1, <2>2 DEF CallStale, Schedule, Joins
  <2>3. CASE ~Running(t)
    <3>1. /\ task[t] = NoTask /\ current' = t
          /\ task' = [task EXCEPT ![t] = [pc |-> "run", cancel |-> FALSE, list |-> [ver |-> req[r].user, born |-> epoch]]]
      BY <2>1, <2>3 DEF Schedule, Joins
    <3>2. UNCHANGED <<epoch, cache>> /\ req' = [req EXCEPT ![r] = [Idle EXCEPT !.pc = "served", !.asked = epoch, !.got = cache.list]]
      BY <1>5 DEF CallStale
    <3>3. task'[t] = [pc |-> "run", cancel |-> FALSE, list |-> [ver |-> req[r].user, born |-> epoch]]
      BY <3>1
    <3>0. ~(current # None /\ Running(current))
      BY <2>1, <2>3 DEF Schedule, Joins
    <3>4. \A u \in Tasks : u # t => task'[u] = task[u] /\ (~Running(u) \/ task[u].cancel)
      BY <3>0, <3>1
    <3> QED
      BY <3>1, <3>2, <3>3, <3>4
  <2> QED
    BY <2>2, <2>3
<1>6. ASSUME NEW r \in Requests, CallMiss(r) PROVE WaitInv'
  <2>1. PICK t \in Tasks : /\ Schedule(r, t)
                          /\ req' = [req EXCEPT ![r] = [Idle EXCEPT !.pc = "wait", !.asked = epoch, !.on = t]]
    BY <1>6 DEF CallMiss
  <2>2. CASE Running(t)
    <3>1. UNCHANGED task /\ t = current
      BY <2>1, <2>2 DEF Schedule, Joins
    <3> QED
      BY <2>1, <2>2, <3>1
  <2>3. CASE ~Running(t)
    <3>1. /\ task[t] = NoTask
          /\ task' = [task EXCEPT ![t] = [pc |-> "run", cancel |-> FALSE, list |-> [ver |-> req[r].user, born |-> epoch]]]
      BY <2>1, <2>3 DEF Schedule, Joins
    <3>2. \A q \in Requests : req[q].pc = "wait" => req[q].on # t
      BY <3>1
    <3>3. task'[t].pc = "run" /\ task'[t].list.born = epoch /\ \A u \in Tasks : u # t => task'[u] = task[u]
      BY <3>1
    <3> QED
      BY <2>1, <3>2, <3>3
  <2> QED
    BY <2>2, <2>3
<1>7. ASSUME NEW r \in Requests, Stop(r) PROVE WaitInv'
  <2>1. CASE Running(req[r].on)
    <3>1. task' = [task EXCEPT ![req[r].on].cancel = TRUE] /\ UNCHANGED req
      BY <1>7, <2>1 DEF Stop
    <3>2. \A t \in Tasks : task'[t].pc = task[t].pc /\ (~task'[t].cancel => task'[t] = task[t])
      BY <3>1
    <3> QED
      BY <3>1, <3>2
  <2>2. CASE ~Running(req[r].on)
    <3>1. req' = [req EXCEPT ![r] = [Idle EXCEPT !.pc = "cancelled"]] /\ UNCHANGED task
      BY <1>7, <2>2 DEF Stop
    <3> QED
      BY <3>1
  <2> QED
    BY <2>1, <2>2
<1>8. ASSUME NEW t \in Tasks, Fetched(t) PROVE WaitInv'
  BY <1>8 DEF Fetched
<1>9. ASSUME NEW t \in Tasks, Cancelled(t) PROVE WaitInv'
  BY <1>9 DEF Cancelled
<1>10. ASSUME NEW t \in Tasks, Finalize(t) PROVE WaitInv'
  <2>1. \A r \in Requests : req'[r] = IF Waits(r, t) THEN Result(r, t) ELSE req[r]
    BY <1>10 DEF Finalize
  <2>2. \A u \in Tasks : u # t => task'[u] = task[u]
    BY <1>10 DEF Finalize
  <2>3. ASSUME NEW r \in Requests, Waits(r, t) PROVE req'[r].pc # "wait"
    BY <2>1, <2>3
  <2>4. ASSUME NEW r \in Requests, ~Waits(r, t) PROVE req'[r] = req[r]
    BY <2>1, <2>4
  <2> QED
    BY <2>2, <2>3, <2>4
<1>11. ASSUME Save PROVE WaitInv'
  BY <1>11 DEF Save
<1>12. ASSUME Invalidate PROVE WaitInv'
  <2>1. CASE current # None /\ Running(current)
    BY <1>12, <2>1 DEF Invalidate
  <2>2. CASE ~(current # None /\ Running(current))
    BY <1>12, <2>2 DEF Invalidate
  <2> QED
    BY <2>1, <2>2
<1>13. ASSUME Reconfigure PROVE WaitInv'
  <2>1. CASE current # None /\ Running(current)
    BY <1>13, <2>1 DEF Reconfigure
  <2>2. CASE ~(current # None /\ Running(current))
    BY <1>13, <2>2 DEF Reconfigure
  <2> QED
    BY <2>1, <2>2
<1>14. ASSUME UserExpires PROVE WaitInv'
  BY <1>14 DEF UserExpires
<1>15. ASSUME Age PROVE WaitInv'
  BY <1>15 DEF Age
<1>16. ASSUME Evict PROVE WaitInv'
  BY <1>16 DEF Evict
<1>17. CASE UNCHANGED vars
  BY <1>17 DEF vars
<1> QED
  BY <1>1, <1>2, <1>3, <1>4, <1>5, <1>6, <1>7, <1>8, <1>9, <1>10, <1>11, <1>12, <1>13, <1>14,
     <1>15, <1>16, <1>17 DEF Next, Proceed, Call, Refresh

LEMMA ServedStep == IInv /\ [Next]_vars => ServedSinceAsked'
<1> USE BoundsAssumption DEF IInv, TypeInv, TypeOK, AliveInv, CacheInv, WaitInv,
    ServedSinceAsked, Epoch, Idle, Running, Waits, Calls, Served, DropModels, Result
<1> SUFFICES ASSUME IInv, [Next]_vars PROVE ServedSinceAsked'
  OBVIOUS
<1>1. ASSUME NEW r \in Requests, Ask(r) PROVE ServedSinceAsked'
  BY <1>1 DEF Ask
<1>2. ASSUME NEW r \in Requests, ReadUser(r) PROVE ServedSinceAsked'
  BY <1>2 DEF ReadUser
<1>3. ASSUME NEW r \in Requests, StoreUser(r) PROVE ServedSinceAsked'
  BY <1>3 DEF StoreUser
<1>4. ASSUME NEW r \in Requests, CallFresh(r) PROVE ServedSinceAsked'
  BY <1>4 DEF CallFresh
<1>5. ASSUME NEW r \in Requests, CallStale(r) PROVE ServedSinceAsked'
  BY <1>5 DEF CallStale
<1>6. ASSUME NEW r \in Requests, CallMiss(r) PROVE ServedSinceAsked'
  BY <1>6 DEF CallMiss
<1>7. ASSUME NEW r \in Requests, Stop(r) PROVE ServedSinceAsked'
  <2>1. \/ UNCHANGED req
        \/ req' = [req EXCEPT ![r] = [Idle EXCEPT !.pc = "cancelled"]]
    BY <1>7 DEF Stop
  <2>2. \A q \in Requests : req'[q] = req[q] \/ req'[q].pc = "cancelled"
    BY <2>1
  <2> QED
    BY <2>2
<1>8. ASSUME NEW t \in Tasks, Fetched(t) PROVE ServedSinceAsked'
  BY <1>8 DEF Fetched
<1>9. ASSUME NEW t \in Tasks, Cancelled(t) PROVE ServedSinceAsked'
  BY <1>9 DEF Cancelled
<1>10. ASSUME NEW t \in Tasks, Finalize(t) PROVE ServedSinceAsked'
  <2>1. \A r \in Requests : req'[r] = IF Waits(r, t) THEN Result(r, t) ELSE req[r]
    BY <1>10 DEF Finalize
  <2>2. ASSUME NEW r \in Requests, Waits(r, t), req'[r].pc = "served"
        PROVE  req'[r].got = task[t].list /\ req'[r].asked = req[r].asked /\ ~task[t].cancel
    <3>1. req'[r] = IF task[t].cancel THEN [Idle EXCEPT !.pc = "cancelled"]
                    ELSE [req[r] EXCEPT !.pc = "served", !.on = None, !.got = task[t].list]
      BY <2>1, <2>2
    <3>2. ~task[t].cancel
      BY <2>2, <3>1
    <3> QED
      BY <3>1, <3>2
  <2>3. ASSUME NEW r \in Requests, Waits(r, t), req'[r].pc = "served"
        PROVE  req'[r].got.born >= req'[r].asked
    BY <2>2, <2>3
  <2>4. ASSUME NEW r \in Requests, ~Waits(r, t) PROVE req'[r] = req[r]
    BY <2>1, <2>4
  <2> QED
    BY <2>3, <2>4
<1>11. ASSUME Save PROVE ServedSinceAsked'
  BY <1>11 DEF Save
<1>12. ASSUME Invalidate PROVE ServedSinceAsked'
  BY <1>12 DEF Invalidate
<1>13. ASSUME Reconfigure PROVE ServedSinceAsked'
  BY <1>13 DEF Reconfigure
<1>14. ASSUME UserExpires PROVE ServedSinceAsked'
  BY <1>14 DEF UserExpires
<1>15. ASSUME Age PROVE ServedSinceAsked'
  BY <1>15 DEF Age
<1>16. ASSUME Evict PROVE ServedSinceAsked'
  BY <1>16 DEF Evict
<1>17. CASE UNCHANGED vars
  BY <1>17 DEF vars
<1> QED
  BY <1>1, <1>2, <1>3, <1>4, <1>5, <1>6, <1>7, <1>8, <1>9, <1>10, <1>11, <1>12, <1>13, <1>14,
     <1>15, <1>16, <1>17 DEF Next, Proceed, Call, Refresh

LEMMA InitInv == Init => IInv
<1> USE BoundsAssumption DEF Init, NoTask, Idle
<1> SUFFICES ASSUME Init PROVE IInv
  OBVIOUS
<1>1. TypeInv
  <2>1. NoModels \in Models /\ 0 \in Version /\ 0 \in Epoch
    BY DEF NoModels, Models, Version, Epoch
  <2>2. req \in [Requests -> ReqRec]
    BY <2>1 DEF ReqRec
  <2>3. task \in [Tasks -> TaskRec]
    BY <2>1 DEF TaskRec
  <2> QED
    BY <2>1, <2>2, <2>3 DEF TypeInv, TypeOK, RoomInv, ReqRec, TaskRec
<1>2. AliveInv /\ CacheInv
  BY DEF AliveInv, CacheInv, Running
<1>3. WaitInv /\ ServedSinceAsked
  BY DEF WaitInv, ServedSinceAsked
<1> QED
  BY <1>1, <1>2, <1>3 DEF IInv

LEMMA Inductive == Spec => []IInv
<1>1. IInv /\ [Next]_vars => IInv'
  BY TypeStep, AliveStep, CacheStep, WaitStep, ServedStep DEF IInv
<1> QED
  BY <1>1, InitInv, PTL DEF Spec

(* Both caches, the tasks and the requests keep their types. *)
THEOREM TypeCorrect == Spec => []TypeOK
<1>1. IInv => TypeOK
  BY DEF IInv, TypeInv
<1> QED
  BY <1>1, Inductive, PTL

(* No refresh that was under way at an invalidation gets its list to a     *)
(* later request (utils/models.py:83-140): it is cancelled with the entry, *)
(* and a cancelled one neither fills the cache nor answers.                *)
THEOREM ListsAreSinceAsked == Spec => []ServedSinceAsked
<1>1. IInv => ServedSinceAsked
  BY DEF IInv
<1> QED
  BY <1>1, Inductive, PTL

(* One refresh at a time (utils/models.py:113-140). *)
THEOREM OneRefresh == Spec => []SingleFlight
<1>1. IInv => SingleFlight
  BY DEF IInv, AliveInv, SingleFlight
<1> QED
  BY <1>1, Inductive, PTL

(* Whoever awaits a refresh awaits one that will end: invalidations, stops *)
(* and newer refreshes leave nobody behind (models.py:110-140, 249).       *)
THEOREM WaitersAreRemembered == Spec => []NobodyIsForgotten
<1>1. IInv => NobodyIsForgotten
  BY DEF IInv, WaitInv, AliveInv, Running, NobodyIsForgotten
<1> QED
  BY <1>1, Inductive, PTL
=============================================================================
