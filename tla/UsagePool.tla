------------------------------ MODULE UsagePool ------------------------------
(***************************************************************************)
(* The pool of models in use with Redis (backend/open_webui/socket: main   *)
(* and utils, WEBSOCKET_MANAGER = "redis").                                *)
(*                                                                         *)
(* Several worker processes share USAGE_POOL, a Redis hash from model to   *)
(* the sessions that use it, and the lock that makes one of them sweep it. *)
(* A session reports its model to its worker once a second; the sweeper    *)
(* drops what was not reported for three seconds.                          *)
(*                                                                         *)
(* A step is one Redis command.  The commands of one handler, or of one    *)
(* pass of the sweeper, have no await between them: a worker does one job  *)
(* at a time, and other workers' commands come in between.  With one       *)
(* worker the module is the pool held in memory.                           *)
(***************************************************************************)
EXTENDS Naturals

CONSTANTS
  Workers,   \* worker processes; each starts once
  Sessions,  \* socket sessions
  Home,      \* the worker a session is connected to
  Models,
  Stalls,    \* may the lock of a living sweeper expire: a pause of more than
             \* WEBSOCKET_REDIS_LOCK_TIMEOUT (60 s) between renewals 3 s apart
  None

ASSUME HomeAssumption ==
  /\ Home \in [Sessions -> Workers]
  /\ None \notin Workers \union Models \union Sessions
  /\ Stalls \in BOOLEAN

VARIABLES
  life,      \* of the worker processes
  using,     \* the model a session reports, or None
  pool,      \* USAGE_POOL: the age of a session's report, per model
  reported,  \* history: the age of its last report, wherever that has gone
  lock,      \* the worker whose lock_id the lock has
  cleaning,  \* workers inside periodic_usage_pool_cleanup's try block
  job,       \* where a worker is in the handler or pass it runs
  client,    \* the session whose report it is
  copy,      \* what it has read of the pool
  todo       \* the models the pass has still to write back

vars == <<life, using, pool, reported, lock, cleaning, job, client, copy, todo>>

Ages    == {"none", "fresh", "old"}
Entries == [Sessions -> Ages]
Empty   == [s \in Sessions |-> "none"]
Nothing == [m \in Models |-> Empty]
Listed(m) == pool[m] # Empty
Up(w)   == life[w] = "up"
Idle(w) == job[w] = "idle"

TypeOK ==
  /\ life \in [Workers -> {"new", "up", "closing", "dead"}]
  /\ using \in [Sessions -> Models \union {None}]
  /\ pool \in [Models -> Entries] /\ reported \in [Models -> Entries]
  /\ lock \in Workers \union {None}
  /\ cleaning \in SUBSET Workers
  /\ job \in [Workers -> {"idle", "get", "set", "read", "sweep", "check", "drop"}]
  /\ client \in [Workers -> Sessions \union {None}]
  /\ copy \in [Workers -> [Models -> Entries]]
  /\ todo \in [Workers -> SUBSET Models]
  /\ \A w \in Workers : job[w] \in {"get", "set"} =>
       client[w] \in Sessions /\ using[client[w]] \in Models

Init ==
  /\ life = [w \in Workers |-> "new"]
  /\ using = [s \in Sessions |-> None]
  /\ pool = Nothing /\ reported = Nothing
  /\ lock = None
  /\ cleaning = {}
  /\ job = [w \in Workers |-> "idle"]
  /\ client = [w \in Workers |-> None]
  /\ copy = [w \in Workers |-> Nothing]
  /\ todo = [w \in Workers |-> {}]

Goto(w, step) == job' = [job EXCEPT ![w] = step]

\* The handler or pass returns or raises, and its variables are gone.
Return(w) ==
  /\ Goto(w, "idle")
  /\ client' = [client EXCEPT ![w] = None]
  /\ copy' = [copy EXCEPT ![w] = Nothing]
  /\ todo' = [todo EXCEPT ![w] = {}]

-----------------------------------------------------------------------------
(* The lock and the life of a worker                                       *)

\* Mutant: the lock is set whether it exists or not.
Start_WithoutNx(w) ==
  /\ life[w] = "new"
  /\ life' = [life EXCEPT ![w] = "up"]
  /\ lock' = w /\ cleaning' = cleaning \union {w}
  /\ UNCHANGED <<using, pool, reported, job, client, copy, todo>>

\* Mutant: the worker that does not get the lock releases it, unchecked.
Start_ReleasesTheLock(w) ==
  /\ life[w] = "new"
  /\ life' = [life EXCEPT ![w] = "up"]
  /\ IF lock = None THEN lock' = w /\ cleaning' = cleaning \union {w}
                    ELSE lock' = None /\ UNCHANGED cleaning
  /\ UNCHANGED <<using, pool, reported, job, client, copy, todo>>

\* aquire_lock: SET NX.  A worker that does not get the lock never asks again.
Start(w) ==
  /\ life[w] = "new"
  /\ life' = [life EXCEPT ![w] = "up"]
  /\ IF lock = None THEN lock' = w /\ cleaning' = cleaning \union {w}
                    ELSE UNCHANGED <<lock, cleaning>>
  /\ UNCHANGED <<using, pool, reported, job, client, copy, todo>>

\* The key has a time to live; its holder sets it anew every three seconds.
Expire ==
  /\ lock # None
  /\ Stalls \/ life[lock] = "dead"
  /\ lock' = None
  /\ UNCHANGED <<life, using, pool, reported, cleaning, job, client, copy, todo>>

\* The process ends in an orderly way: the event loop cancels the sweeper at
\* its sleep, and the finally block releases the lock.
Shutdown(w) ==
  /\ Up(w) /\ Idle(w)
  /\ life' = [life EXCEPT ![w] = IF w \in cleaning THEN "closing" ELSE "dead"]
  /\ job' = [job EXCEPT ![w] = IF w \in cleaning THEN "check" ELSE "idle"]
  /\ using' = [s \in Sessions |-> IF Home[s] = w THEN None ELSE using[s]]
  /\ UNCHANGED <<pool, reported, lock, cleaning, client, copy, todo>>

\* The process dies at any command.
Crash(w) ==
  /\ life[w] \in {"up", "closing"}
  /\ life' = [life EXCEPT ![w] = "dead"]
  /\ Return(w)
  /\ cleaning' = cleaning \ {w}
  /\ using' = [s \in Sessions |-> IF Home[s] = w THEN None ELSE using[s]]
  /\ UNCHANGED <<pool, reported, lock>>

Leave(w) ==
  /\ cleaning' = cleaning \ {w}
  /\ life' = [life EXCEPT ![w] = IF @ = "closing" THEN "dead" ELSE @]

\* release_lock: GET, then DEL if the value read was one's own.
Check(w) ==
  /\ job[w] = "check"
  /\ IF lock = w
     THEN Goto(w, "drop") /\ UNCHANGED <<cleaning, life, client, copy, todo>>
     ELSE Return(w) /\ Leave(w)
  /\ UNCHANGED <<using, pool, reported, lock>>

Drop(w) ==
  /\ job[w] = "drop"
  /\ lock' = None
  /\ Return(w)
  /\ Leave(w)
  /\ UNCHANGED <<using, pool, reported>>

-----------------------------------------------------------------------------
(* Reports                                                                 *)

Use(s, m) ==
  /\ Up(Home[s]) /\ using[s] = None
  /\ using' = [using EXCEPT ![s] = m]
  /\ UNCHANGED <<life, pool, reported, lock, cleaning, job, client, copy, todo>>

\* The session stops to use the model, or disconnects; disconnect leaves the
\* pool alone.  A report on its way is handled first: commands are in order.
StopUsing(s) ==
  /\ using[s] # None
  /\ ~\E w \in Workers : job[w] \in {"get", "set"} /\ client[w] = s
  /\ using' = [using EXCEPT ![s] = None]
  /\ UNCHANGED <<life, pool, reported, lock, cleaning, job, client, copy, todo>>

\* Mutant: only a model that is listed already takes reports.
Report_OnlyListed(s) ==
  LET w == Home[s] IN
  /\ Up(w) /\ Idle(w) /\ using[s] # None
  /\ Listed(using[s])
  /\ client' = [client EXCEPT ![w] = s]
  /\ Goto(w, "get")
  /\ UNCHANGED <<life, using, pool, reported, lock, cleaning, copy, todo>>

\* usage: HEXISTS,
Report(s) ==
  LET w == Home[s] IN
  /\ Up(w) /\ Idle(w) /\ using[s] # None
  /\ client' = [client EXCEPT ![w] = s]
  /\ Goto(w, IF Listed(using[s]) THEN "get" ELSE "set")
  /\ UNCHANGED <<life, using, pool, reported, lock, cleaning, copy, todo>>

\* HGET, which raises KeyError if the sweeper has deleted the model since,
Get(w) ==
  /\ job[w] = "get"
  /\ LET m == using[client[w]] IN
     IF Listed(m)
     THEN copy' = [copy EXCEPT ![w][m] = pool[m]] /\ Goto(w, "set") /\ UNCHANGED <<client, todo>>
     ELSE Return(w)
  /\ UNCHANGED <<life, using, pool, reported, lock, cleaning>>

\* Mutant: the entry is written without a time.
Set_WithoutTime(w) ==
  /\ job[w] = "set"
  /\ LET m == using[client[w]] IN pool' = [pool EXCEPT ![m] = [copy[w][m] EXCEPT ![client[w]] = None]]
  /\ Return(w)
  /\ UNCHANGED <<life, using, reported, lock, cleaning>>

\* Mutant: the new time is written for every session of the model.
Set_RenewsAll(w) ==
  /\ job[w] = "set"
  /\ LET m == using[client[w]] IN
     /\ pool' = [pool EXCEPT ![m] =
          [s \in Sessions |-> IF s = client[w] \/ copy[w][m][s] # "none" THEN "fresh" ELSE "none"]]
     /\ reported' = [reported EXCEPT ![m][client[w]] = "fresh"]
  /\ Return(w)
  /\ UNCHANGED <<life, using, lock, cleaning>>

\* and HSET of what was read with the session's own time: the reports that
\* other workers wrote in between are lost.
Set(w) ==
  /\ job[w] = "set"
  /\ LET m == using[client[w]] IN
     /\ pool' = [pool EXCEPT ![m] = [copy[w][m] EXCEPT ![client[w]] = "fresh"]]
     /\ reported' = [reported EXCEPT ![m][client[w]] = "fresh"]
  /\ Return(w)
  /\ UNCHANGED <<life, using, lock, cleaning>>

Aged(e, s) == [e EXCEPT ![s] = IF @ = "fresh" THEN "old" ELSE @]

\* More than TIMEOUT_DURATION has passed since the last report of the session.
Age(s) ==
  /\ \/ \E m \in Models : pool[m][s] = "fresh"
     \/ \E w \in Workers, m \in Models : copy[w][m][s] = "fresh"
     \/ \E m \in Models : reported[m][s] = "fresh"
  /\ pool' = [m \in Models |-> Aged(pool[m], s)]
  /\ copy' = [w \in Workers |-> [m \in Models |-> Aged(copy[w][m], s)]]
  /\ reported' = [m \in Models |-> Aged(reported[m], s)]
  /\ UNCHANGED <<life, using, lock, cleaning, job, client, todo>>

-----------------------------------------------------------------------------
(* The sweeper                                                             *)

\* renew_lock: SET XX, which does not ask whose lock it is.
Renew(w) ==
  /\ Up(w) /\ Idle(w) /\ w \in cleaning
  /\ IF lock # None THEN lock' = w /\ Goto(w, "read")
                    ELSE Goto(w, "check") /\ UNCHANGED lock
  /\ UNCHANGED <<life, using, pool, reported, cleaning, client, copy, todo>>

\* Mutant: entries are counted, not dropped, until all have expired.
Kept_All(e) == IF \A s \in Sessions : e[s] # "fresh" THEN Empty ELSE e

\* Mutant: the comparison with the time is the wrong way round.
Kept_Expired(e) == [s \in Sessions |-> IF e[s] = "fresh" THEN "none" ELSE e[s]]

Kept(e) == [s \in Sessions |-> IF e[s] = "old" THEN "none" ELSE e[s]]

\* HGETALL.  What has expired by now is dropped from what was read; what expires
\* while the pass writes is left to the next one.
Read(w) ==
  /\ job[w] = "read"
  /\ IF \A m \in Models : ~Listed(m)
     THEN Return(w)
     ELSE /\ copy' = [copy EXCEPT ![w] = [m \in Models |-> Kept(pool[m])]]
          /\ todo' = [todo EXCEPT ![w] = {m \in Models : Listed(m)}]
          /\ Goto(w, "sweep")
          /\ UNCHANGED client
  /\ UNCHANGED <<life, using, pool, reported, lock, cleaning>>

\* One model of the pass: HSET of what is left of what was read, or HDEL,
\* which raises KeyError if the model is not there any more.
Sweep(w, m) ==
  /\ job[w] = "sweep" /\ m \in todo[w]
  /\ IF copy[w][m] = Empty /\ ~Listed(m)
     THEN Goto(w, "check") /\ UNCHANGED <<pool, client, copy, todo>>
     ELSE /\ pool' = [pool EXCEPT ![m] = copy[w][m]]
          /\ IF todo[w] = {m} THEN Return(w)
             ELSE todo' = [todo EXCEPT ![w] = @ \ {m}] /\ UNCHANGED <<job, client, copy>>
  /\ UNCHANGED <<life, using, reported, lock, cleaning>>

-----------------------------------------------------------------------------
Continue(w) == \/ Get(w) \/ Set(w) \/ Read(w) \/ (\E m \in Models : Sweep(w, m))
               \/ Check(w) \/ Drop(w)

Next ==
  \/ \E w \in Workers : Start(w) \/ Shutdown(w) \/ Crash(w) \/ Renew(w) \/ Continue(w)
  \/ \E s \in Sessions : \/ StopUsing(s) \/ Report(s) \/ Age(s)
                         \/ \E m \in Models : Use(s, m)
  \/ Expire

Spec == Init /\ [][Next]_vars

\* A job goes on to its end; the event loop lets the sweeper and the reports in
\* between each other's jobs; a session reports as long as it uses a model, and
\* time passes.
FairSpec ==
  /\ Spec
  /\ \A w \in Workers : WF_vars(Continue(w)) /\ SF_vars(Renew(w))
  /\ \A s \in Sessions : SF_vars(Report(s)) /\ WF_vars(Age(s))

-----------------------------------------------------------------------------
(* Properties                                                              *)

\* Without stalls at most one worker sweeps the pool, across crashes, orderly
\* ends, expiry of the lock and late starts.
OneCleaner == \A v, w \in cleaning : v = w

\* Without stalls the sweeper never leaves its loop but by the end of its
\* process: its renewal finds the lock, and its deletes find the model although
\* reports rewrite it meanwhile.  A sweeper that left would not be replaced.
CleanerSurvives == \A w \in Workers : job[w] \in {"check", "drop"} => life[w] = "closing"

\* No entry is newer than the session's last report, whatever old copies reports
\* and sweeps of several workers write back over one another.
NotNewerThanReported ==
  \A m \in Models, s \in Sessions :
    /\ pool[m][s] = "fresh" => reported[m][s] = "fresh"
    /\ pool[m][s] # "none" => reported[m][s] # "none"

\* With one worker, the default, no report is lost either: sweeps and reports of
\* its sessions only come one after the other.
AloneLosesNothing ==
  \A w \in Workers :
    (\A v \in Workers \ {w} : life[v] = "new") =>
      \A m \in Models, s \in Sessions : reported[m][s] = "fresh" => pool[m][s] = "fresh"

\* What a session no longer reports is swept, although a report of another
\* session may write it back, as long as there is a sweeper.
StaleUsageGoes ==
  \A s \in Sessions, m \in Models :
    (using[s] # m /\ pool[m][s] # "none") ~> (pool[m][s] = "none" \/ using[s] = m \/ cleaning = {})

\* A session that goes on using a model, and in the end is the only one, is
\* listed again and again, although reports fail on deletes and what other
\* sessions left behind is written back and swept.
ReporterListed ==
  \A s \in Sessions, m \in Models :
    <>[](using[s] = m /\ \A t \in Sessions \ {s} : using[t] # m) => []<>(pool[m][s] = "fresh")
=============================================================================
