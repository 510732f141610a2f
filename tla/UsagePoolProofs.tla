--------------------------- MODULE UsagePoolProofs ---------------------------
(***************************************************************************)
(* Theorems about UsagePool, for every set of workers, sessions and        *)
(* models: types and the times of reports in any case, the sweeper's two   *)
(* invariants as long as the lock of a living sweeper does not expire.     *)
(***************************************************************************)
EXTENDS UsagePool, TLAPS

(* A worker only handles reports of its own sessions. *)
ClientInv == \A w \in Workers : job[w] \in {"get", "set"} => Home[client[w]] = w

(* Why one worker sweeps: who sweeps has the lock, and only a worker that  *)
(* is alive sweeps.                                                        *)
LockInv ==
  \A w \in Workers :
    /\ w \in cleaning => lock = w /\ life[w] \in {"up", "closing"}
    /\ job[w] \in {"read", "sweep", "check", "drop"} => w \in cleaning

(* Why its deletes succeed: reports make models listed and only the        *)
(* sweeper removes them.                                                   *)
SweepInv == \A w \in Workers : job[w] = "sweep" => \A m \in todo[w] : Listed(m)

TypeInv == TypeOK /\ ClientInv
IInv == TypeInv /\ LockInv /\ SweepInv /\ CleanerSurvives

(* Types do not depend on the lock. *)
LEMMA TypeStep == TypeInv /\ [Next]_vars => TypeInv'
<1> USE HomeAssumption DEF TypeInv, TypeOK, ClientInv, Ages, Entries, Empty, Nothing, Idle,
    Up, Goto, Return, Leave
<1> SUFFICES ASSUME TypeInv, [Next]_vars PROVE TypeInv'
  OBVIOUS
<1>1. ASSUME NEW w \in Workers, Start(w) PROVE TypeInv'
  BY <1>1 DEF Start
<1>2. ASSUME NEW w \in Workers, Shutdown(w) PROVE TypeInv'
  BY <1>2 DEF Shutdown
<1>3. ASSUME NEW w \in Workers, Crash(w) PROVE TypeInv'
  BY <1>3 DEF Crash
<1>4. ASSUME NEW w \in Workers, Renew(w) PROVE TypeInv'
  <2>1. /\ \/ lock' = w /\ job' = [job EXCEPT ![w] = "read"]
           \/ UNCHANGED lock /\ job' = [job EXCEPT ![w] = "check"]
        /\ UNCHANGED <<life, using, pool, reported, cleaning, client, copy, todo>>
    BY <1>4 DEF Renew
  <2>2. CASE lock' = w /\ job' = [job EXCEPT ![w] = "read"]
    BY <2>1, <2>2
  <2>3. CASE UNCHANGED lock /\ job' = [job EXCEPT ![w] = "check"]
    BY <2>1, <2>3
  <2> QED
    BY <2>1, <2>2, <2>3
<1>5. ASSUME NEW w \in Workers, Get(w) PROVE TypeInv'
  <2>1. CASE Listed(using[client[w]])
    <3>1. /\ copy' = [copy EXCEPT ![w][using[client[w]]] = pool[using[client[w]]]]
          /\ job[w] = "get" /\ job' = [job EXCEPT ![w] = "set"]
          /\ UNCHANGED <<client, todo, life, using, pool, reported, lock, cleaning>>
      BY <1>5, <2>1 DEF Get
    <3> QED
      BY <3>1
  <2>2. CASE ~Listed(using[client[w]])
    <3>1. Return(w) /\ UNCHANGED <<life, using, pool, reported, lock, cleaning>>
      BY <1>5, <2>2 DEF Get
    <3> QED
      BY <3>1
  <2> QED
    BY <2>1, <2>2
<1>6. ASSUME NEW w \in Workers, Set(w) PROVE TypeInv'
  BY <1>6 DEF Set
<1>7. ASSUME NEW w \in Workers, Read(w) PROVE TypeInv'
  <2>1. CASE \A m \in Models : ~Listed(m)
    <3>1. Return(w) /\ UNCHANGED <<life, using, pool, reported, lock, cleaning>>
      BY <1>7, <2>1 DEF Read
    <3> QED
      BY <3>1
  <2>2. CASE \E m \in Models : Listed(m)
    <3>0. [m \in Models |-> Kept(pool[m])] \in [Models -> Entries]
      BY DEF Kept
    <3>1. /\ copy' = [copy EXCEPT ![w] = [m \in Models |-> Kept(pool[m])]]
          /\ todo' = [todo EXCEPT ![w] = {m \in Models : Listed(m)}]
          /\ job' = [job EXCEPT ![w] = "sweep"]
          /\ UNCHANGED <<client, life, using, pool, reported, lock, cleaning>>
      BY <1>7, <2>2 DEF Read
    <3> QED
      BY <3>0, <3>1
  <2> QED
    BY <2>1, <2>2
<1>8. ASSUME NEW w \in Workers, NEW m \in Models, Sweep(w, m) PROVE TypeInv'
  <2> DEFINE Gone == copy[w][m] = Empty /\ ~Listed(m)
  <2>0. copy[w][m] \in Entries
    OBVIOUS
  <2>1. CASE Gone
    <3>1. /\ job' = [job EXCEPT ![w] = "check"]
          /\ UNCHANGED <<pool, client, copy, todo, life, using, reported, lock, cleaning>>
      BY <1>8, <2>1 DEF Sweep
    <3> QED
      BY <2>0, <3>1
  <2>2. CASE ~Gone /\ todo[w] = {m}
    <3>1. /\ pool' = [pool EXCEPT ![m] = copy[w][m]]
          /\ Return(w) /\ UNCHANGED <<life, using, reported, lock, cleaning>>
      BY <1>8, <2>2 DEF Sweep
    <3> QED
      BY <2>0, <3>1
  <2>3. CASE ~Gone /\ todo[w] # {m}
    <3>1. /\ pool' = [pool EXCEPT ![m] = copy[w][m]]
          /\ todo' = [todo EXCEPT ![w] = @ \ {m}]
          /\ UNCHANGED <<job, client, copy, life, using, reported, lock, cleaning>>
      BY <1>8, <2>3 DEF Sweep
    <3> QED
      BY <2>0, <3>1
  <2> QED
    BY <2>1, <2>2, <2>3
<1>9. ASSUME NEW w \in Workers, Check(w) PROVE TypeInv'
  <2>1. CASE lock = w
    <3>1. /\ job' = [job EXCEPT ![w] = "drop"]
          /\ UNCHANGED <<using, pool, reported, lock, cleaning, life, client, copy, todo>>
      BY <1>9, <2>1 DEF Check
    <3> QED
      BY <3>1
  <2>2. CASE lock # w
    <3>1. Return(w) /\ Leave(w) /\ UNCHANGED <<using, pool, reported, lock>>
      BY <1>9, <2>2 DEF Check
    <3> QED
      BY <3>1
  <2> QED
    BY <2>1, <2>2
<1>10. ASSUME NEW w \in Workers, Drop(w) PROVE TypeInv'
  BY <1>10 DEF Drop
<1>11. ASSUME NEW s \in Sessions, StopUsing(s) PROVE TypeInv'
  BY <1>11 DEF StopUsing
<1>12. ASSUME NEW s \in Sessions, Report(s) PROVE TypeInv'
  BY <1>12 DEF Report
<1>13. ASSUME NEW s \in Sessions, Age(s) PROVE TypeInv'
  BY <1>13 DEF Age, Aged
<1>14. ASSUME NEW s \in Sessions, NEW m \in Models, Use(s, m) PROVE TypeInv'
  BY <1>14 DEF Use
<1>15. ASSUME Expire PROVE TypeInv'
  BY <1>15 DEF Expire
<1>16. CASE UNCHANGED vars
  BY <1>16 DEF vars
<1> QED
  BY <1>1, <1>2, <1>3, <1>4, <1>5, <1>6, <1>7, <1>8, <1>9, <1>10, <1>11, <1>12, <1>13, <1>14,
     <1>15, <1>16 DEF Next, Continue

(* Who sweeps keeps the lock. *)
LEMMA LockStep == ~Stalls /\ IInv /\ [Next]_vars => LockInv'
<1> USE HomeAssumption DEF IInv, TypeInv, TypeOK, LockInv, CleanerSurvives, Idle, Up, Goto,
    Return, Leave
<1> SUFFICES ASSUME ~Stalls, IInv, [Next]_vars PROVE LockInv'
  OBVIOUS
<1>1. ASSUME NEW w \in Workers, Start(w) PROVE LockInv'
  BY <1>1 DEF Start
<1>2. ASSUME NEW w \in Workers, Shutdown(w) PROVE LockInv'
  BY <1>2 DEF Shutdown
<1>3. ASSUME NEW w \in Workers, Crash(w) PROVE LockInv'
  BY <1>3 DEF Crash
<1>4. ASSUME NEW w \in Workers, Renew(w) PROVE LockInv'
  BY <1>4 DEF Renew
<1>5. ASSUME NEW w \in Workers, Get(w) PROVE LockInv'
  BY <1>5 DEF Get
<1>6. ASSUME NEW w \in Workers, Set(w) PROVE LockInv'
  BY <1>6 DEF Set
<1>7. ASSUME NEW w \in Workers, Read(w) PROVE LockInv'
  BY <1>7 DEF Read
<1>8. ASSUME NEW w \in Workers, NEW m \in Models, Sweep(w, m) PROVE LockInv'
  BY <1>8 DEF Sweep
<1>9. ASSUME NEW w \in Workers, Check(w) PROVE LockInv'
  BY <1>9 DEF Check
<1>10. ASSUME NEW w \in Workers, Drop(w) PROVE LockInv'
  BY <1>10 DEF Drop
<1>11. ASSUME NEW s \in Sessions, StopUsing(s) PROVE LockInv'
  BY <1>11 DEF StopUsing
<1>12. ASSUME NEW s \in Sessions, Report(s) PROVE LockInv'
  BY <1>12 DEF Report
<1>13. ASSUME NEW s \in Sessions, Age(s) PROVE LockInv'
  BY <1>13 DEF Age
<1>14. ASSUME NEW s \in Sessions, NEW m \in Models, Use(s, m) PROVE LockInv'
  BY <1>14 DEF Use
<1>15. ASSUME Expire PROVE LockInv'
  BY <1>15 DEF Expire
<1>16. CASE UNCHANGED vars
  BY <1>16 DEF vars
<1> QED
  BY <1>1, <1>2, <1>3, <1>4, <1>5, <1>6, <1>7, <1>8, <1>9, <1>10, <1>11, <1>12, <1>13, <1>14,
     <1>15, <1>16 DEF Next, Continue

(* A model that the sweeper has still to write back stays listed. *)
LEMMA SweepStep == IInv /\ [Next]_vars => SweepInv'
<1> USE HomeAssumption DEF IInv, TypeInv, TypeOK, LockInv, SweepInv, Listed, Entries, Ages,
    Empty, Idle, Up, Goto, Return
<1> SUFFICES ASSUME IInv, [Next]_vars PROVE SweepInv'
  OBVIOUS
<1>1. ASSUME NEW w \in Workers, Start(w) PROVE SweepInv'
  BY <1>1 DEF Start
<1>2. ASSUME NEW w \in Workers, Shutdown(w) PROVE SweepInv'
  BY <1>2 DEF Shutdown
<1>3. ASSUME NEW w \in Workers, Crash(w) PROVE SweepInv'
  BY <1>3 DEF Crash
<1>4. ASSUME NEW w \in Workers, Renew(w) PROVE SweepInv'
  <2>1. CASE lock # None
    BY <1>4, <2>1 DEF Renew
  <2>2. CASE lock = None
    BY <1>4, <2>2 DEF Renew
  <2> QED
    BY <2>1, <2>2
<1>5. ASSUME NEW w \in Workers, Get(w) PROVE SweepInv'
  <2>1. pool' = pool /\ job'[w] # "sweep"
    BY <1>5 DEF Get
  <2>2. \A v \in Workers : v # w => job'[v] = job[v] /\ todo'[v] = todo[v]
    BY <1>5 DEF Get
  <2> QED
    BY <2>1, <2>2
<1>6. ASSUME NEW w \in Workers, Set(w) PROVE SweepInv'
  <2>1. client[w] \in Sessions /\ using[client[w]] \in Models
    BY <1>6 DEF Set
  <2>2. pool'[using[client[w]]][client[w]] = "fresh"
    BY <1>6, <2>1 DEF Set
  <2>3. \A m \in Models : pool[m] # Empty => pool'[m] # Empty
    BY <1>6, <2>1, <2>2 DEF Set
  <2> QED
    BY <1>6, <2>3 DEF Set
<1>7. ASSUME NEW w \in Workers, Read(w) PROVE SweepInv'
  <2>1. CASE \A m \in Models : ~Listed(m)
    <3>1. Return(w) /\ UNCHANGED <<life, using, pool, lock, cleaning>>
      BY <1>7, <2>1 DEF Read
    <3> QED
      BY <3>1
  <2>2. CASE \E m \in Models : Listed(m)
    <3>1. /\ copy' = [copy EXCEPT ![w] = [m \in Models |-> Kept(pool[m])]]
          /\ todo' = [todo EXCEPT ![w] = {m \in Models : Listed(m)}]
          /\ job' = [job EXCEPT ![w] = "sweep"]
          /\ UNCHANGED <<client, life, using, pool, lock, cleaning>>
      BY <1>7, <2>2 DEF Read
    <3> QED
      BY <3>1
  <2> QED
    BY <2>1, <2>2
<1>8. ASSUME NEW w \in Workers, NEW m \in Models, Sweep(w, m) PROVE SweepInv'
  <2>1. \A v \in Workers : v # w => job[v] # "sweep"
    BY <1>8 DEF Sweep
  <2>2. \A v \in Workers : v # w => job'[v] # "sweep"
    BY <1>8, <2>1 DEF Sweep
  <2>3. ASSUME job'[w] = "sweep"
        PROVE  todo'[w] = todo[w] \ {m} /\ \A n \in Models : n # m => pool'[n] = pool[n]
    BY <1>8, <2>3 DEF Sweep
  <2>4. ASSUME job'[w] = "sweep", NEW n \in todo'[w] PROVE Listed(n)'
    BY <1>8, <2>3, <2>4 DEF Sweep
  <2> QED
    BY <2>2, <2>4
<1>9. ASSUME NEW w \in Workers, Check(w) PROVE SweepInv'
  <2>1. /\ \A v \in Workers : job'[v] = "sweep" => v # w /\ job[v] = "sweep" /\ todo'[v] = todo[v]
        /\ pool' = pool
    BY <1>9 DEF Check
  <2> QED
    BY <2>1
<1>10. ASSUME NEW w \in Workers, Drop(w) PROVE SweepInv'
  BY <1>10 DEF Drop
<1>11. ASSUME NEW s \in Sessions, StopUsing(s) PROVE SweepInv'
  BY <1>11 DEF StopUsing
<1>12. ASSUME NEW s \in Sessions, Report(s) PROVE SweepInv'
  BY <1>12 DEF Report
<1>13. ASSUME NEW s \in Sessions, Age(s) PROVE SweepInv'
  <2>1. \A m \in Models : pool[m] # Empty => pool'[m] # Empty
    <3> SUFFICES ASSUME NEW m \in Models, pool[m] # Empty PROVE pool'[m] # Empty
      OBVIOUS
    <3>1. PICK t \in Sessions : pool[m][t] # "none"
      OBVIOUS
    <3>2. pool'[m][t] # "none"
      BY <1>13, <3>1 DEF Age, Aged
    <3> QED
      BY <3>2
  <2> QED
    BY <1>13, <2>1 DEF Age
<1>14. ASSUME NEW s \in Sessions, NEW m \in Models, Use(s, m) PROVE SweepInv'
  BY <1>14 DEF Use
<1>15. ASSUME Expire PROVE SweepInv'
  BY <1>15 DEF Expire
<1>16. CASE UNCHANGED vars
  BY <1>16 DEF vars
<1> QED
  BY <1>1, <1>2, <1>3, <1>4, <1>5, <1>6, <1>7, <1>8, <1>9, <1>10, <1>11, <1>12, <1>13, <1>14,
     <1>15, <1>16 DEF Next, Continue

(* The sweeper goes to release the lock only when its process ends. *)
LEMMA SurvivesStep == IInv /\ [Next]_vars => CleanerSurvives'
<1> USE HomeAssumption DEF IInv, TypeInv, TypeOK, LockInv, SweepInv, CleanerSurvives, Idle,
    Up, Goto, Return, Leave
<1> SUFFICES ASSUME IInv, [Next]_vars PROVE CleanerSurvives'
  OBVIOUS
<1>1. ASSUME NEW w \in Workers, Start(w) PROVE CleanerSurvives'
  BY <1>1 DEF Start
<1>2. ASSUME NEW w \in Workers, Shutdown(w) PROVE CleanerSurvives'
  BY <1>2 DEF Shutdown
<1>3. ASSUME NEW w \in Workers, Crash(w) PROVE CleanerSurvives'
  BY <1>3 DEF Crash
<1>4. ASSUME NEW w \in Workers, Renew(w) PROVE CleanerSurvives'
  BY <1>4 DEF Renew
<1>5. ASSUME NEW w \in Workers, Get(w) PROVE CleanerSurvives'
  BY <1>5 DEF Get
<1>6. ASSUME NEW w \in Workers, Set(w) PROVE CleanerSurvives'
  BY <1>6 DEF Set
<1>7. ASSUME NEW w \in Workers, Read(w) PROVE CleanerSurvives'
  BY <1>7 DEF Read
<1>8. ASSUME NEW w \in Workers, NEW m \in Models, Sweep(w, m) PROVE CleanerSurvives'
  BY <1>8 DEF Sweep
<1>9. ASSUME NEW w \in Workers, Check(w) PROVE CleanerSurvives'
  BY <1>9 DEF Check
<1>10. ASSUME NEW w \in Workers, Drop(w) PROVE CleanerSurvives'
  BY <1>10 DEF Drop
<1>11. ASSUME NEW s \in Sessions, StopUsing(s) PROVE CleanerSurvives'
  BY <1>11 DEF StopUsing
<1>12. ASSUME NEW s \in Sessions, Report(s) PROVE CleanerSurvives'
  BY <1>12 DEF Report
<1>13. ASSUME NEW s \in Sessions, Age(s) PROVE CleanerSurvives'
  BY <1>13 DEF Age
<1>14. ASSUME NEW s \in Sessions, NEW m \in Models, Use(s, m) PROVE CleanerSurvives'
  BY <1>14 DEF Use
<1>15. ASSUME Expire PROVE CleanerSurvives'
  BY <1>15 DEF Expire
<1>16. CASE UNCHANGED vars
  BY <1>16 DEF vars
<1> QED
  BY <1>1, <1>2, <1>3, <1>4, <1>5, <1>6, <1>7, <1>8, <1>9, <1>10, <1>11, <1>12, <1>13, <1>14,
     <1>15, <1>16 DEF Next, Continue

LEMMA InitInv == Init => IInv
  BY HomeAssumption DEF Init, IInv, TypeInv, TypeOK, ClientInv, LockInv, SweepInv,
     CleanerSurvives, Entries, Ages, Empty, Nothing

(* The pool's times, the lock, the jobs of the workers and what they have  *)
(* read keep their types; a report is of a model its session uses.         *)
THEOREM TypeCorrect == Spec => []TypeOK
<1>1. Init => TypeInv
  BY InitInv DEF IInv
<1>2. TypeInv => TypeOK
  BY DEF TypeInv
<1> QED
  BY <1>1, <1>2, TypeStep, PTL DEF Spec

LEMMA Inductive == ~Stalls => (Spec => []IInv)
<1> SUFFICES ASSUME ~Stalls PROVE Spec => []IInv
  OBVIOUS
<1>1. IInv /\ [Next]_vars => IInv'
  BY TypeStep, LockStep, SweepStep, SurvivesStep DEF IInv
<1> QED
  BY <1>1, InitInv, PTL DEF Spec

(* At most one worker sweeps the pool (socket/main.py:112-153 and the lock *)
(* of socket/utils.py), through crashes, orderly ends and late starts.     *)
THEOREM OneCleanerAtATime == ~Stalls => (Spec => []OneCleaner)
<1> SUFFICES ASSUME ~Stalls PROVE Spec => []OneCleaner
  OBVIOUS
<1>1. IInv => cleaning \subseteq Workers
  BY DEF IInv, TypeInv, TypeOK
<1>2. IInv => \A w \in Workers : w \in cleaning => lock = w
  BY DEF IInv, LockInv
<1>3. IInv => OneCleaner
  BY <1>1, <1>2 DEF OneCleaner
<1> QED
  BY <1>3, Inductive, PTL

(* The sweeper leaves its loop only with its process: its renewal finds    *)
(* the lock and its deletes find the model (socket/main.py:118-153).       *)
THEOREM SweeperSurvives == ~Stalls => (Spec => []CleanerSurvives)
<1> SUFFICES ASSUME ~Stalls PROVE Spec => []CleanerSurvives
  OBVIOUS
<1>1. IInv => CleanerSurvives
  BY DEF IInv
<1> QED
  BY <1>1, Inductive, PTL

(* What a worker has read is not newer than the last report either. *)
CopiesInv ==
  \A w \in Workers, m \in Models, s \in Sessions :
    /\ copy[w][m][s] = "fresh" => reported[m][s] = "fresh"
    /\ copy[w][m][s] # "none" => reported[m][s] # "none"

TimesInv == CopiesInv /\ NotNewerThanReported

(* Nothing that is written into the pool or a copy is newer than the last  *)
(* report, and they age together.                                          *)
LEMMA TimesStep == TypeInv /\ TimesInv /\ [Next]_vars => TimesInv'
<1> USE HomeAssumption DEF TypeInv, TypeOK, Entries, Ages, TimesInv, CopiesInv,
    NotNewerThanReported
<1> SUFFICES ASSUME TypeInv, TimesInv, [Next]_vars PROVE TimesInv'
  OBVIOUS
<1>e. \A m \in Models, s \in Sessions : Nothing[m][s] = "none"
  BY DEF Nothing, Empty
<1>r. ASSUME NEW w \in Workers, copy' = [copy EXCEPT ![w] = Nothing], UNCHANGED <<pool, reported>>
      PROVE  TimesInv'
  BY <1>e, <1>r
<1>1. ASSUME NEW w \in Workers, Start(w) PROVE TimesInv'
  BY <1>1 DEF Start
<1>2. ASSUME NEW w \in Workers, Shutdown(w) PROVE TimesInv'
  BY <1>2 DEF Shutdown
<1>3. ASSUME NEW w \in Workers, Crash(w) PROVE TimesInv'
  BY <1>r, <1>3 DEF Crash, Return
<1>4. ASSUME NEW w \in Workers, Renew(w) PROVE TimesInv'
  BY <1>4 DEF Renew
<1>5. ASSUME NEW w \in Workers, Get(w) PROVE TimesInv'
  <2>1. CASE Listed(using[client[w]])
    <3>1. /\ copy' = [copy EXCEPT ![w][using[client[w]]] = pool[using[client[w]]]]
          /\ UNCHANGED <<pool, reported>>
      BY <1>5, <2>1 DEF Get
    <3> QED
      BY <3>1
  <2>2. CASE ~Listed(using[client[w]])
    BY <1>r, <1>5, <2>2 DEF Get, Return
  <2> QED
    BY <2>1, <2>2
<1>6. ASSUME NEW w \in Workers, Set(w) PROVE TimesInv'
  <2>1. client[w] \in Sessions /\ using[client[w]] \in Models
    BY <1>6 DEF Set
  <2> DEFINE n == using[client[w]]
             c == client[w]
  <2>2. /\ pool' = [pool EXCEPT ![n] = [copy[w][n] EXCEPT ![c] = "fresh"]]
        /\ reported' = [reported EXCEPT ![n][c] = "fresh"]
        /\ copy' = [copy EXCEPT ![w] = Nothing]
    BY <1>6 DEF Set, Return
  <2> HIDE DEF n, c
  <2>3. n \in Models /\ c \in Sessions
    BY <2>1 DEF n, c
  <2>4. \A m \in Models, s \in Sessions :
          reported'[m][s] = IF m = n /\ s = c THEN "fresh" ELSE reported[m][s]
    BY <2>2, <2>3
  <2>5. \A m \in Models, s \in Sessions :
          pool'[m][s] = IF m # n THEN pool[m][s] ELSE IF s = c THEN "fresh" ELSE copy[w][n][s]
    BY <2>2, <2>3
  <2>6. NotNewerThanReported'
    BY <2>3, <2>4, <2>5
  <2>7. \A v \in Workers, m \in Models, s \in Sessions :
          copy'[v][m][s] = IF v = w THEN "none" ELSE copy[v][m][s]
    BY <1>e, <2>2
  <2>8. CopiesInv'
    BY <2>4, <2>7
  <2> QED
    BY <2>6, <2>8
<1>7. ASSUME NEW w \in Workers, Read(w) PROVE TimesInv'
  <2>1. CASE \A m \in Models : ~Listed(m)
    BY <1>r, <1>7, <2>1 DEF Read, Return
  <2>2. CASE \E m \in Models : Listed(m)
    <3>1. /\ copy' = [copy EXCEPT ![w] = [m \in Models |-> Kept(pool[m])]]
          /\ UNCHANGED <<pool, reported>>
      BY <1>7, <2>2 DEF Read
    <3>2. \A v \in Workers, m \in Models, s \in Sessions :
            copy'[v][m][s] = IF v = w THEN Kept(pool[m])[s] ELSE copy[v][m][s]
      BY <3>1
    <3>3. \A m \in Models, s \in Sessions : Kept(pool[m])[s] \in {"none", pool[m][s]}
      BY DEF Kept
    <3> QED
      BY <3>1, <3>2, <3>3
  <2> QED
    BY <2>1, <2>2
<1>8. ASSUME NEW w \in Workers, NEW m \in Models, Sweep(w, m) PROVE TimesInv'
  <2>1. copy' = copy \/ copy' = [copy EXCEPT ![w] = Nothing]
    BY <1>8 DEF Sweep, Return
  <2>2. pool' = pool \/ pool' = [pool EXCEPT ![m] = copy[w][m]]
    BY <1>8 DEF Sweep
  <2>3. reported' = reported
    BY <1>8 DEF Sweep
  <2>4. \A v \in Workers, n \in Models, s \in Sessions :
          copy'[v][n][s] \in {"none", copy[v][n][s]}
    <3>1. CASE copy' = copy
      BY <3>1
    <3>2. CASE copy' = [copy EXCEPT ![w] = Nothing]
      <4>1. \A v \in Workers : copy'[v] = IF v = w THEN Nothing ELSE copy[v]
        BY <3>2
      <4> SUFFICES ASSUME NEW v \in Workers, NEW n \in Models, NEW s \in Sessions
                   PROVE  copy'[v][n][s] \in {"none", copy[v][n][s]}
        OBVIOUS
      <4>2. CASE v = w
        <5>1. copy'[v] = Nothing
          BY <4>1, <4>2
        <5> QED
          BY <5>1, <1>e
      <4>3. CASE v # w
        BY <4>1, <4>3
      <4> QED
        BY <4>2, <4>3
    <3> QED
      BY <2>1, <3>1, <3>2
  <2>5. \A n \in Models, s \in Sessions : pool'[n][s] \in {pool[n][s], copy[w][n][s]}
    <3>1. CASE pool' = pool
      BY <3>1
    <3>2. CASE pool' = [pool EXCEPT ![m] = copy[w][m]]
      <4>1. \A n \in Models : pool'[n] = IF n = m THEN copy[w][m] ELSE pool[n]
        BY <3>2
      <4> QED
        BY <4>1
    <3> QED
      BY <2>2, <3>1, <3>2
  <2>6. CopiesInv'
    BY <2>3, <2>4
  <2>7. NotNewerThanReported'
    BY <2>3, <2>5
  <2> QED
    BY <2>6, <2>7
<1>9. ASSUME NEW w \in Workers, Check(w) PROVE TimesInv'
  BY <1>r, <1>9 DEF Check, Return
<1>10. ASSUME NEW w \in Workers, Drop(w) PROVE TimesInv'
  BY <1>r, <1>10 DEF Drop, Return
<1>11. ASSUME NEW s \in Sessions, StopUsing(s) PROVE TimesInv'
  BY <1>11 DEF StopUsing
<1>12. ASSUME NEW s \in Sessions, Report(s) PROVE TimesInv'
  BY <1>12 DEF Report
<1>13. ASSUME NEW s \in Sessions, Age(s) PROVE TimesInv'
  <2>1. /\ \A m \in Models, t \in Sessions :
              /\ pool'[m][t] = IF t = s /\ pool[m][t] = "fresh" THEN "old" ELSE pool[m][t]
              /\ reported'[m][t] = IF t = s /\ reported[m][t] = "fresh" THEN "old" ELSE reported[m][t]
        /\ \A w \in Workers, m \in Models, t \in Sessions :
              copy'[w][m][t] = IF t = s /\ copy[w][m][t] = "fresh" THEN "old" ELSE copy[w][m][t]
    BY <1>13 DEF Age, Aged
  <2>2. ASSUME NEW w \in Workers, NEW m \in Models, NEW t \in Sessions
        PROVE  /\ copy'[w][m][t] = "fresh" => reported'[m][t] = "fresh"
               /\ copy'[w][m][t] # "none" => reported'[m][t] # "none"
    <3>1. /\ copy[w][m][t] = "fresh" => reported[m][t] = "fresh"
          /\ copy[w][m][t] # "none" => reported[m][t] # "none"
      OBVIOUS
    <3>2. /\ reported'[m][t] = IF t = s /\ reported[m][t] = "fresh" THEN "old" ELSE reported[m][t]
          /\ copy'[w][m][t] = IF t = s /\ copy[w][m][t] = "fresh" THEN "old" ELSE copy[w][m][t]
      BY <2>1
    <3> QED
      BY <3>1, <3>2
  <2>3. ASSUME NEW m \in Models, NEW t \in Sessions
        PROVE  /\ pool'[m][t] = "fresh" => reported'[m][t] = "fresh"
               /\ pool'[m][t] # "none" => reported'[m][t] # "none"
    <3>1. /\ pool[m][t] = "fresh" => reported[m][t] = "fresh"
          /\ pool[m][t] # "none" => reported[m][t] # "none"
      OBVIOUS
    <3>2. /\ reported'[m][t] = IF t = s /\ reported[m][t] = "fresh" THEN "old" ELSE reported[m][t]
          /\ pool'[m][t] = IF t = s /\ pool[m][t] = "fresh" THEN "old" ELSE pool[m][t]
      BY <2>1
    <3> QED
      BY <3>1, <3>2
  <2> QED
    BY <2>2, <2>3
<1>14. ASSUME NEW s \in Sessions, NEW m \in Models, Use(s, m) PROVE TimesInv'
  BY <1>14 DEF Use
<1>15. ASSUME Expire PROVE TimesInv'
  BY <1>15 DEF Expire
<1>16. CASE UNCHANGED vars
  BY <1>16 DEF vars
<1> QED
  BY <1>1, <1>2, <1>3, <1>4, <1>5, <1>6, <1>7, <1>8, <1>9, <1>10, <1>11, <1>12, <1>13, <1>14,
     <1>15, <1>16 DEF Next, Continue

(* A worker that has not started has no job. *)
NewInv == \A w \in Workers : life[w] = "new" => job[w] = "idle"

LEMMA NewStep == TypeInv /\ NewInv /\ [Next]_vars => NewInv'
<1> USE HomeAssumption DEF TypeInv, TypeOK, NewInv, Goto, Return, Leave, Up
<1> SUFFICES ASSUME TypeInv, NewInv, [Next]_vars PROVE NewInv'
  OBVIOUS
<1>1. ASSUME NEW w \in Workers, Start(w) PROVE NewInv'
  BY <1>1 DEF Start
<1>2. ASSUME NEW w \in Workers, Shutdown(w) PROVE NewInv'
  BY <1>2 DEF Shutdown
<1>3. ASSUME NEW w \in Workers, Crash(w) PROVE NewInv'
  BY <1>3 DEF Crash
<1>4. ASSUME NEW w \in Workers, Renew(w) PROVE NewInv'
  BY <1>4 DEF Renew
<1>5. ASSUME NEW w \in Workers, Get(w) PROVE NewInv'
  BY <1>5 DEF Get
<1>6. ASSUME NEW w \in Workers, Set(w) PROVE NewInv'
  BY <1>6 DEF Set
<1>7. ASSUME NEW w \in Workers, Read(w) PROVE NewInv'
  BY <1>7 DEF Read
<1>8. ASSUME NEW w \in Workers, NEW m \in Models, Sweep(w, m) PROVE NewInv'
  BY <1>8 DEF Sweep
<1>9. ASSUME NEW w \in Workers, Check(w) PROVE NewInv'
  BY <1>9 DEF Check
<1>10. ASSUME NEW w \in Workers, Drop(w) PROVE NewInv'
  BY <1>10 DEF Drop
<1>11. ASSUME NEW s \in Sessions, StopUsing(s) PROVE NewInv'
  BY <1>11 DEF StopUsing
<1>12. ASSUME NEW s \in Sessions, Report(s) PROVE NewInv'
  BY <1>12 DEF Report
<1>13. ASSUME NEW s \in Sessions, Age(s) PROVE NewInv'
  BY <1>13 DEF Age
<1>14. ASSUME NEW s \in Sessions, NEW m \in Models, Use(s, m) PROVE NewInv'
  BY <1>14 DEF Use
<1>15. ASSUME Expire PROVE NewInv'
  BY <1>15 DEF Expire
<1>16. CASE UNCHANGED vars
  BY <1>16 DEF vars
<1> QED
  BY <1>1, <1>2, <1>3, <1>4, <1>5, <1>6, <1>7, <1>8, <1>9, <1>10, <1>11, <1>12, <1>13, <1>14,
     <1>15, <1>16 DEF Next, Continue

(* While a worker is alone, what it is about to write back has every fresh *)
(* entry of the pool.                                                      *)
Alone(w) == \A v \in Workers \ {w} : life[v] = "new"
Covers(w, m) == \A s \in Sessions : pool[m][s] = "fresh" => copy[w][m][s] = "fresh"

AloneInv ==
  \A w \in Workers : Alone(w) =>
    /\ job[w] = "sweep" => \A m \in todo[w] : Covers(w, m)
    /\ job[w] = "set" => Covers(w, using[client[w]])
    /\ \A m \in Models, s \in Sessions : reported[m][s] = "fresh" => pool[m][s] = "fresh"

(* With the other workers not started, every step keeps the fresh entries. *)
LEMMA AloneStep ==
  ASSUME TypeInv, NewInv, AloneInv, [Next]_vars, NEW u \in Workers, Alone(u)'
  PROVE  /\ job'[u] = "sweep" => \A m \in todo'[u] : Covers(u, m)'
         /\ job'[u] = "set" => Covers(u, using[client[u]])'
         /\ \A m \in Models, s \in Sessions : reported'[m][s] = "fresh" => pool'[m][s] = "fresh"
<1> DEFINE Kept3 == \A m \in Models, s \in Sessions :
                      reported'[m][s] = "fresh" => pool'[m][s] = "fresh"
           Goal == /\ job'[u] = "sweep" => \A m \in todo'[u] : Covers(u, m)'
                   /\ job'[u] = "set" => Covers(u, using[client[u]])'
                   /\ Kept3
<1>0. TypeOK /\ ClientInv /\ HomeAssumption
  BY HomeAssumption DEF TypeInv
<1>a. \A v \in Workers : v # u => life[v] = "new" /\ job[v] = "idle"
  <2>1. \A v \in Workers : life'[v] = "new" => life[v] = "new"
    <3> USE <1>0 DEF TypeOK, Return, Leave
    <3> SUFFICES ASSUME NEW v \in Workers, life'[v] = "new" PROVE life[v] = "new"
      OBVIOUS
    <3>1. ASSUME NEW w \in Workers, Start(w) PROVE life[v] = "new"
      BY <3>1 DEF Start
    <3>2. ASSUME NEW w \in Workers, Shutdown(w) PROVE life[v] = "new"
      BY <3>2 DEF Shutdown
    <3>3. ASSUME NEW w \in Workers, Crash(w) PROVE life[v] = "new"
      BY <3>3 DEF Crash
    <3>4. ASSUME NEW w \in Workers, Check(w) PROVE life[v] = "new"
      BY <3>4 DEF Check
    <3>5. ASSUME NEW w \in Workers, Drop(w) PROVE life[v] = "new"
      BY <3>5 DEF Drop
    <3>6. CASE UNCHANGED life
      BY <3>6
    <3>7. CASE UNCHANGED vars
      BY <3>7 DEF vars
    <3> QED
      BY <3>1, <3>2, <3>3, <3>4, <3>5, <3>6, <3>7 DEF Next, Continue, Renew, Get, Set, Read,
         Sweep, StopUsing, Report, Age, Use, Expire
  <2> QED
    BY <2>1 DEF Alone, NewInv
<1>b. /\ job[u] = "sweep" => \A m \in todo[u] : Covers(u, m)
      /\ job[u] = "set" => Covers(u, using[client[u]])
      /\ \A m \in Models, s \in Sessions : reported[m][s] = "fresh" => pool[m][s] = "fresh"
  BY <1>a DEF AloneInv, Alone
<1> USE <1>0 DEF TypeOK, Entries, Ages
<1>1. ASSUME NEW w \in Workers, Start(w) PROVE Goal
  BY <1>b, <1>1 DEF Start, Covers
<1>2. ASSUME NEW w \in Workers, Shutdown(w) PROVE Goal
  BY <1>a, <1>b, <1>2 DEF Shutdown, Up
<1>3. ASSUME NEW w \in Workers, Crash(w) PROVE Goal
  BY <1>a, <1>b, <1>3 DEF Crash, Return, Goto
<1>4. ASSUME NEW w \in Workers, Renew(w) PROVE Goal
  BY <1>a, <1>b, <1>4 DEF Renew, Goto, Up
<1>5. ASSUME NEW w \in Workers, Get(w) PROVE Goal
  <2>1. w = u /\ UNCHANGED <<pool, reported, using>>
    BY <1>a, <1>5 DEF Get
  <2>2. CASE Listed(using[client[u]])
    <3>1. /\ copy' = [copy EXCEPT ![u][using[client[u]]] = pool[using[client[u]]]]
          /\ job'[u] = "set" /\ client' = client
      BY <1>5, <2>1, <2>2 DEF Get, Goto
    <3>2. using[client[u]] \in Models
      BY <1>5, <2>1 DEF Get
    <3>3. copy'[u][using[client[u]]] = pool[using[client[u]]]
      BY <3>1, <3>2
    <3> QED
      BY <1>b, <2>1, <3>1, <3>3 DEF Covers
  <2>3. CASE ~Listed(using[client[u]])
    <3>1. job'[u] = "idle"
      BY <1>5, <2>1, <2>3 DEF Get, Goto, Return
    <3> QED
      BY <1>b, <2>1, <3>1
  <2> QED
    BY <2>2, <2>3
<1>6. ASSUME NEW w \in Workers, Set(w) PROVE Goal
  <2>1. w = u /\ job[u] = "set" /\ job'[u] = "idle"
    BY <1>a, <1>6 DEF Set, Return, Goto
  <2> DEFINE n == using[client[u]]
             c == client[u]
  <2>2. n \in Models /\ c \in Sessions
    BY <2>1
  <2>3. /\ pool' = [pool EXCEPT ![n] = [copy[u][n] EXCEPT ![c] = "fresh"]]
        /\ reported' = [reported EXCEPT ![n][c] = "fresh"]
    BY <1>6, <2>1 DEF Set
  <2>4. Covers(u, n)
    BY <1>b, <2>1
  <2> HIDE DEF n, c
  <2>5. \A m \in Models, s \in Sessions :
          reported'[m][s] = IF m = n /\ s = c THEN "fresh" ELSE reported[m][s]
    BY <2>2, <2>3
  <2>6. \A m \in Models, s \in Sessions :
          pool'[m][s] = IF m # n THEN pool[m][s] ELSE IF s = c THEN "fresh" ELSE copy[u][n][s]
    BY <2>2, <2>3
  <2>7. ASSUME NEW m \in Models, NEW s \in Sessions, reported'[m][s] = "fresh"
        PROVE  pool'[m][s] = "fresh"
    <3>1. CASE m = n /\ s = c
      BY <2>6, <3>1
    <3>2. CASE ~(m = n /\ s = c)
      <4>1. reported[m][s] = "fresh"
        BY <2>5, <2>7, <3>2
      <4>2. pool[m][s] = "fresh"
        BY <1>b, <4>1
      <4>3. m = n => copy[u][n][s] = "fresh"
        BY <2>4, <4>2 DEF Covers
      <4> QED
        BY <2>6, <3>2, <4>2, <4>3
    <3> QED
      BY <3>1, <3>2
  <2> QED
    BY <2>1, <2>7
<1>7. ASSUME NEW w \in Workers, Read(w) PROVE Goal
  <2>1. w = u /\ UNCHANGED <<pool, reported>>
    BY <1>a, <1>7 DEF Read
  <2>2. CASE \A m \in Models : ~Listed(m)
    <3>1. job'[u] = "idle"
      BY <1>7, <2>1, <2>2 DEF Read, Goto, Return
    <3> QED
      BY <1>b, <2>1, <3>1
  <2>3. CASE \E m \in Models : Listed(m)
    <3>1. /\ copy' = [copy EXCEPT ![u] = [m \in Models |-> Kept(pool[m])]]
          /\ job'[u] = "sweep" /\ todo'[u] \subseteq Models
      BY <1>7, <2>1, <2>3 DEF Read, Goto
    <3>2. \A m \in Models, s \in Sessions : copy'[u][m][s] = IF pool[m][s] = "old" THEN "none" ELSE pool[m][s]
      BY <3>1 DEF Kept
    <3>3. \A m \in Models : Covers(u, m)'
      BY <2>1, <3>2 DEF Covers
    <3> QED
      BY <1>b, <2>1, <3>1, <3>3
  <2> QED
    BY <2>2, <2>3
<1>8. ASSUME NEW w \in Workers, NEW m \in Models, Sweep(w, m) PROVE Goal
  <2>1. w = u /\ job[u] = "sweep" /\ m \in todo[u] /\ reported' = reported
    BY <1>a, <1>8 DEF Sweep
  <2>2. pool' = pool \/ pool' = [pool EXCEPT ![m] = copy[u][m]]
    BY <1>8, <2>1 DEF Sweep
  <2>3. Covers(u, m)
    BY <1>b, <2>1
  <2>4. Kept3
    <3> SUFFICES ASSUME NEW n \in Models, NEW s \in Sessions, reported[n][s] = "fresh"
                 PROVE  pool'[n][s] = "fresh"
      BY <2>1
    <3>1. pool[n][s] = "fresh"
      BY <1>b
    <3>2. n = m => copy[u][m][s] = "fresh"
      BY <2>3, <3>1 DEF Covers
    <3> QED
      BY <2>2, <3>1, <3>2
  <2>5. job'[u] # "set"
    BY <1>8, <2>1 DEF Sweep, Goto, Return
  <2>6. ASSUME job'[u] = "sweep" PROVE \A n \in todo'[u] : Covers(u, n)'
    <3>1. copy' = copy /\ todo'[u] = todo[u] \ {m} /\ \A n \in Models : n # m => pool'[n] = pool[n]
      BY <1>8, <2>1, <2>6 DEF Sweep, Goto, Return
    <3>2. todo[u] \subseteq Models
      OBVIOUS
    <3> QED
      BY <1>b, <2>1, <3>1, <3>2 DEF Covers
  <2> QED
    BY <2>4, <2>5, <2>6
<1>9. ASSUME NEW w \in Workers, Check(w) PROVE Goal
  BY <1>a, <1>b, <1>9 DEF Check, Goto, Return
<1>10. ASSUME NEW w \in Workers, Drop(w) PROVE Goal
  BY <1>a, <1>b, <1>10 DEF Drop, Goto, Return
<1>11. ASSUME NEW s \in Sessions, StopUsing(s) PROVE Goal
  <2>1. job[u] = "set" => using'[client[u]] = using[client[u]]
    BY <1>11 DEF StopUsing
  <2> QED
    BY <1>b, <1>11, <2>1 DEF StopUsing, Covers
<1>12. ASSUME NEW s \in Sessions, Report(s) PROVE Goal
  <2>1. Home[s] = u /\ UNCHANGED <<pool, reported, copy, todo, using>> /\ using[s] \in Models
    BY <1>a, <1>12 DEF Report, Up
  <2>2. client'[u] = s /\ job'[u] = IF Listed(using[s]) THEN "get" ELSE "set"
    BY <1>12, <2>1 DEF Report, Goto
  <2>3. ~Listed(using[s]) => \A t \in Sessions : pool[using[s]][t] # "fresh"
    BY DEF Listed, Empty
  <2> QED
    BY <1>b, <2>1, <2>2, <2>3 DEF Covers
<1>13. ASSUME NEW s \in Sessions, Age(s) PROVE Goal
  <2>1. /\ \A m \in Models, t \in Sessions :
              /\ pool'[m][t] = IF t = s /\ pool[m][t] = "fresh" THEN "old" ELSE pool[m][t]
              /\ reported'[m][t] = IF t = s /\ reported[m][t] = "fresh" THEN "old" ELSE reported[m][t]
        /\ \A w \in Workers, m \in Models, t \in Sessions :
              copy'[w][m][t] = IF t = s /\ copy[w][m][t] = "fresh" THEN "old" ELSE copy[w][m][t]
    BY <1>13 DEF Age, Aged
  <2>2. UNCHANGED <<using, job, client, todo>>
    BY <1>13 DEF Age
  <2>3. \A m \in Models, t \in Sessions :
          /\ pool'[m][t] = "fresh" => t # s /\ pool[m][t] = "fresh"
          /\ reported'[m][t] = "fresh" => t # s /\ reported[m][t] = "fresh"
          /\ t # s => copy'[u][m][t] = copy[u][m][t] /\ pool'[m][t] = pool[m][t]
    BY <2>1
  <2>4. \A m \in Models : Covers(u, m) => Covers(u, m)'
    <3> SUFFICES ASSUME NEW m \in Models, Covers(u, m), NEW t \in Sessions, pool'[m][t] = "fresh"
                 PROVE  copy'[u][m][t] = "fresh"
      BY DEF Covers
    <3>1. t # s /\ pool[m][t] = "fresh"
      BY <2>3
    <3>2. copy[u][m][t] = "fresh" /\ copy'[u][m][t] = copy[u][m][t]
      BY <2>3, <3>1 DEF Covers
    <3> QED
      BY <3>2
  <2>5. Kept3
    BY <1>b, <2>3
  <2>6. todo[u] \subseteq Models /\ (job[u] = "set" => using[client[u]] \in Models)
    OBVIOUS
  <2> HIDE DEF Covers, Kept3
  <2> QED
    BY <1>b, <2>2, <2>4, <2>5, <2>6
<1>14. ASSUME NEW s \in Sessions, NEW m \in Models, Use(s, m) PROVE Goal
  <2>1. job[u] = "set" => using'[client[u]] = using[client[u]]
    BY <1>14 DEF Use, HomeAssumption
  <2> QED
    BY <1>b, <1>14, <2>1 DEF Use, Covers
<1>15. ASSUME Expire PROVE Goal
  BY <1>b, <1>15 DEF Expire, Covers
<1>16. ASSUME UNCHANGED vars PROVE Goal
  BY <1>b, <1>16 DEF vars, Covers
<1> HIDE DEF TypeOK, Entries, Ages, Kept3
<1>17. ASSUME NEW w \in Workers,
              Start(w) \/ Shutdown(w) \/ Crash(w) \/ Renew(w) \/ Continue(w)
       PROVE  Goal
  BY <1>1, <1>2, <1>3, <1>4, <1>5, <1>6, <1>7, <1>8, <1>9, <1>10, <1>17 DEF Continue
<1>18. ASSUME NEW s \in Sessions,
              StopUsing(s) \/ Report(s) \/ Age(s) \/ \E m \in Models : Use(s, m)
       PROVE  Goal
  BY <1>11, <1>12, <1>13, <1>14, <1>18
<1>19. ASSUME Next PROVE Goal
  BY <1>15, <1>17, <1>18, <1>19 DEF Next, Covers
<1> QED
  BY <1>16, <1>19 DEF Kept3, Covers

LEMMA TimesInductive == Spec => [](TypeInv /\ TimesInv /\ NewInv /\ AloneInv)
<1>1. Init => TypeInv /\ TimesInv /\ NewInv /\ AloneInv
  <2> SUFFICES ASSUME Init PROVE TypeInv /\ TimesInv /\ NewInv /\ AloneInv
    OBVIOUS
  <2>1. TypeInv
    BY InitInv DEF IInv
  <2>2. \A w \in Workers : job[w] = "idle"
    BY DEF Init
  <2>3. \A m \in Models, s \in Sessions : pool[m][s] = "none" /\ reported[m][s] = "none"
    BY DEF Init, Nothing, Empty
  <2>4. \A w \in Workers, m \in Models, s \in Sessions : copy[w][m][s] = "none"
    BY DEF Init, Nothing, Empty
  <2>5. TimesInv
    BY <2>3, <2>4 DEF TimesInv, CopiesInv, NotNewerThanReported
  <2> QED
    BY <2>1, <2>2, <2>3, <2>5 DEF NewInv, AloneInv
<1>2. TypeInv /\ NewInv /\ AloneInv /\ [Next]_vars => AloneInv'
  BY AloneStep DEF AloneInv
<1> QED
  BY <1>1, <1>2, TypeStep, TimesStep, NewStep, PTL DEF Spec

(* Old copies that reports and sweeps write back over one another never    *)
(* make an entry newer than its session's last report                      *)
(* (socket/main.py:126-151, 175-181), however many workers there are and   *)
(* also when the lock of the sweeper expires.                              *)
THEOREM EntriesAreReported == Spec => []NotNewerThanReported
<1>1. TimesInv => NotNewerThanReported
  BY DEF TimesInv
<1> QED
  BY <1>1, TimesInductive, PTL

(* One worker alone, the default, loses no report: what its sweep and its  *)
(* reports write back has every fresh entry.                               *)
THEOREM OneWorkerLosesNothing == Spec => []AloneLosesNothing
<1>1. AloneInv => AloneLosesNothing
  BY DEF AloneInv, Alone, AloneLosesNothing
<1> QED
  BY <1>1, TimesInductive, PTL
=============================================================================
