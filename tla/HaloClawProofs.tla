---------------------------- MODULE HaloClawProofs ----------------------------
(***************************************************************************)
(* Theorems about HaloClaw, for every number of adapters, requests,        *)
(* deliveries and restarts and every limit of the history.                 *)
(***************************************************************************)
EXTENDS HaloClaw, SequenceTheorems, FiniteSetTheorems, WellFoundedInduction, TLAPS

(* A registered adapter has been started; a start or stop under way has an *)
(* adapter to itself.                                                      *)
RunInv ==
  /\ registered # None => adapter[registered].stage \in {"up", "dead"}
  /\ \A r \in Procs :
       /\ req[r].pc = "starting" => req[r].own \in Adapters /\ adapter[req[r].own].stage = "starting"
       /\ req[r].pc = "stopping" => req[r].own \in Adapters /\ adapter[req[r].own].stage = "closing"
  /\ \A r, q \in Procs :
       /\ req[r].pc \in {"starting", "stopping"}
       /\ req[q].pc = req[r].pc
       /\ req[q].own = req[r].own
       => q = r

(* A gateway switched on has an adapter or is about to get one. *)
OnInv ==
  /\ row = "on"
  /\ phase = "up" \/ (phase = "boot" /\ req[Boot].pc # "idle")
  /\ \A a \in Adapters : adapter[a].stage \notin {"dead", "failed"}
  => registered # None \/ \E r \in Procs : req[r].pc = "starting"

(* A question that awaits its answer is in the log of a gateway that       *)
(* exists; one that was never created has none.                            *)
LogInv ==
  /\ row = "new" => log = <<>> /\ users = {} /\ \A d \in Deliveries : task[d].pc \notin {"ask", "send"}
  /\ Exists(row) => \A d \in Deliveries : task[d].pc = "ask" => \E j \in DOMAIN log : log[j] = In(d)
  /\ AnswersFollowQuestions
  /\ DeletedLeavesNoQuestion

(* Question and answer of a delivery are logged once, each at its time. *)
OnceInv ==
  /\ \A i, j \in DOMAIN log : log[i] = log[j] => i = j
  /\ \A i \in DOMAIN log :
       /\ log[i].dir = "in"  => task[log[i].of].pc \in {"ask", "send", "done", "lost"}
       /\ log[i].dir = "out" => task[log[i].of].pc \in {"send", "done", "lost"}

(* An event that was heard, or awaits its image, is remembered by its      *)
(* adapter until that is stopped, and no other delivery of it got as far.  *)
Claimed(d) == task[d].pc = "fetch" \/ Heard(d)

SeenInv ==
  /\ \A d \in Deliveries :
       /\ task[d].pc = "due" => task[d].by \in Adapters /\ adapter[task[d].by].stage # "unused"
       /\ Heard(d) => task[d].pc \notin {"none", "due", "fetch"}
       /\ Claimed(d) => /\ task[d].by \in Adapters
                        /\ adapter[task[d].by].stage # "unused"
                        /\ EventOf[d] \in adapter[task[d].by].seen \/ adapter[task[d].by].stage = "stopped"
  /\ \A d, e \in Deliveries :
       d # e /\ EventOf[d] = EventOf[e] /\ task[d].by = task[e].by /\ Claimed(d) /\ Claimed(e)
         => adapter[task[d].by].stage = "stopped"

IInv == TypeOK /\ RunInv /\ OnInv /\ LogInv /\ OnceInv /\ HistoryIsOfTheChat /\ SeenInv

(* What the model is asked with comes from the log. *)
LEMMA HistoryType ==
  ASSUME NEW l \in Seq(Entry), NEW c
  PROVE  \A i \in DOMAIN History(l, c) : i \in 1 .. Len(l) /\ History(l, c)[i] = l[i] /\ ChatOf[l[i].of] = c
  BY DEF History

LEMMA HistoryTypeOK ==
  ASSUME NEW l \in Seq(Entry), NEW c
  PROVE  \A i \in DOMAIN History(l, c) : i \in Nat /\ History(l, c)[i] \in Entry
<1>1. \A i \in 1 .. Len(l) : i \in Nat /\ l[i] \in Entry
  BY ElementOfSeq
<1> QED
  BY <1>1, HistoryType

(* The newest message of a chat is part of its history. *)
LEMMA NewestIsHeard ==
  ASSUME NEW l \in Seq(Entry), NEW e \in Entry, DeliveriesAssumption
  PROVE  Len(l) + 1 \in DOMAIN History(Append(l, e), ChatOf[e.of])
<1> DEFINE L == Append(l, e)
           ofChat == {i \in DOMAIN L : ChatOf[L[i].of] = ChatOf[e.of]}
<1>1. DOMAIN L = 1 .. Len(l) + 1 /\ L[Len(l) + 1] = e
  BY AppendProperties
<1>2. Len(l) + 1 \in ofChat
  BY <1>1, LenProperties
<1> DEFINE later == {m \in ofChat : m > Len(l) + 1}
<1>3. later = {}
  BY <1>1, LenProperties
<1>4. Cardinality(later) < Limit
  <2> HIDE DEF later
  <2> QED
    BY <1>3, FS_EmptySet DEF DeliveriesAssumption
<1> HIDE DEF L
<1> QED
  BY <1>2, <1>4 DEF History, L

AdapterRec == [stage : {"unused", "starting", "up", "dead", "failed", "closing", "stopped"}, seen : SUBSET Events]
ReqRec  == [pc : {"idle", "starting", "stopping", "done"}, own : Adapters \union {None}]
TaskRec == [pc : {"none", "due", "fetch", "ask", "send", "done", "lost"}, by : Adapters \union {None}]

(* One type lemma for each of the structured variables. *)
LEMMA AdapterType == TypeOK /\ [Next]_vars => adapter' \in [Adapters -> AdapterRec]
<1> SUFFICES ASSUME TypeOK, [Next]_vars PROVE adapter' \in [Adapters -> AdapterRec]
  OBVIOUS
<1>0. adapter \in [Adapters -> AdapterRec]
  BY DEF TypeOK, AdapterRec
<1>a. \A d \in Deliveries : EventOf[d] \in Events
  BY DEF Events
<1> USE DEF SetStage
<1> DEFINE Frame == UNCHANGED <<adapter>>
<1>1. CASE Frame
  BY <1>1, <1>0
<1>2. ASSUME NEW r \in Procs, Started(r) PROVE adapter' \in [Adapters -> AdapterRec]
  <2>1. adapter' = [adapter EXCEPT ![req[r].own].stage = "up"]
    BY <1>2 DEF Started
  <2> QED
    BY <1>0, <2>1 DEF AdapterRec
<1>3. ASSUME NEW r \in Procs, StartedDead(r) PROVE adapter' \in [Adapters -> AdapterRec]
  <2>1. adapter' = [adapter EXCEPT ![req[r].own].stage = "dead"]
    BY <1>3 DEF StartedDead
  <2> QED
    BY <1>0, <2>1 DEF AdapterRec
<1>4. ASSUME NEW r \in Procs, StartRaises(r) PROVE adapter' \in [Adapters -> AdapterRec]
  <2>1. adapter' = [adapter EXCEPT ![req[r].own].stage = "failed"]
    BY <1>4 DEF StartRaises
  <2> QED
    BY <1>0, <2>1 DEF AdapterRec
<1>5. ASSUME NEW r \in Procs, Stopped(r) PROVE adapter' \in [Adapters -> AdapterRec]
  <2>1. adapter' = [adapter EXCEPT ![req[r].own] = [stage |-> "stopped", seen |-> {}]]
    BY <1>5 DEF Stopped
  <2> QED
    BY <1>0, <2>1 DEF AdapterRec
<1>6. ASSUME NEW r \in Admins, Create(r) PROVE Frame
  BY <1>6 DEF Create
<1>7. ASSUME NEW r \in Admins, ToggleOn(r) PROVE adapter' \in [Adapters -> AdapterRec]
  <2>1. CASE UNCHANGED adapter
    BY <1>0, <2>1
  <2>2. ASSUME NEW a \in Adapters, SetStage(a, "starting") PROVE adapter' \in [Adapters -> AdapterRec]
    BY <1>0, <2>2 DEF AdapterRec
  <2> QED
    BY <1>7, <2>1, <2>2 DEF ToggleOn, BeginStart, Free
<1>8. ASSUME NEW r \in Admins, ToggleOff(r) PROVE adapter' \in [Adapters -> AdapterRec]
  <2>1. CASE UNCHANGED adapter
    BY <1>0, <2>1 DEF AdapterRec
  <2>2. CASE adapter' = [adapter EXCEPT ![registered].stage = "closing"]
    BY <1>0, <2>2 DEF AdapterRec
  <2>3. CASE adapter' = [adapter EXCEPT ![registered] = [stage |-> "stopped", seen |-> {}]]
    BY <1>0, <2>3 DEF AdapterRec
  <2> QED
    BY <1>8, <1>0, <2>1, <2>2, <2>3 DEF ToggleOff, BeginStop
<1>9. ASSUME NEW r \in Admins, Delete(r) PROVE Frame
  BY <1>9 DEF Delete
<1>c. ASSUME NEW r \in Admins, Configure(r) PROVE Frame
  BY <1>c DEF Configure
<1>10. ASSUME NEW r \in Admins, NEW on \in BOOLEAN, Save(r, on) PROVE Frame
  BY <1>10 DEF Save
<1>11. ASSUME StartUp PROVE adapter' \in [Adapters -> AdapterRec]
  <2>1. CASE UNCHANGED adapter
    BY <1>0, <2>1
  <2>2. ASSUME NEW a \in Adapters, SetStage(a, "starting") PROVE adapter' \in [Adapters -> AdapterRec]
    BY <1>0, <2>2 DEF AdapterRec
  <2> QED
    BY <1>11, <2>1, <2>2 DEF StartUp, BeginStart, Free
<1>12. ASSUME Serve PROVE Frame
  BY <1>12 DEF Serve
<1>13. ASSUME Shutdown PROVE adapter' \in [Adapters -> AdapterRec]
  <2>1. CASE UNCHANGED adapter
    BY <1>0, <2>1 DEF AdapterRec
  <2>2. CASE adapter' = [adapter EXCEPT ![registered].stage = "closing"]
    BY <1>0, <2>2 DEF AdapterRec
  <2>3. CASE adapter' = [adapter EXCEPT ![registered] = [stage |-> "stopped", seen |-> {}]]
    BY <1>0, <2>3 DEF AdapterRec
  <2> QED
    BY <1>13, <1>0, <2>1, <2>2, <2>3 DEF Shutdown, BeginStop
<1>14. ASSUME Restart PROVE adapter' \in [Adapters -> AdapterRec]
  BY <1>14, <1>0 DEF Restart, AdapterRec
<1>15. ASSUME NEW d \in Deliveries, Webhook(d) PROVE Frame
  BY <1>15 DEF Webhook
<1>16. ASSUME NEW d \in Deliveries, Repeated(d) PROVE Frame
  BY <1>16 DEF Repeated
<1>17. ASSUME NEW d \in Deliveries, BeginText(d) PROVE adapter' \in [Adapters -> AdapterRec]
  <2>1. adapter' = [adapter EXCEPT ![task[d].by].seen = @ \union {EventOf[d]}]
    BY <1>17 DEF BeginText, MarkSeen
  <2>2. ASSUME NEW b \in Adapters
        PROVE  [adapter[b] EXCEPT !.seen = @ \union {EventOf[d]}] \in AdapterRec
    BY <1>0, <1>a DEF AdapterRec
  <2> QED
    BY <1>0, <2>1, <2>2
<1>18. ASSUME NEW d \in Deliveries, BeginImage(d) PROVE adapter' \in [Adapters -> AdapterRec]
  <2>1. adapter' = [adapter EXCEPT ![task[d].by].seen = @ \union {EventOf[d]}]
    BY <1>18 DEF BeginImage, MarkSeen
  <2>2. ASSUME NEW b \in Adapters
        PROVE  [adapter[b] EXCEPT !.seen = @ \union {EventOf[d]}] \in AdapterRec
    BY <1>0, <1>a DEF AdapterRec
  <2> QED
    BY <1>0, <2>1, <2>2
<1>19. ASSUME NEW d \in Deliveries, Fetched(d) PROVE Frame
  BY <1>19 DEF Fetched
<1>20. ASSUME NEW d \in Deliveries, FetchFails(d) PROVE Frame
  BY <1>20 DEF FetchFails
<1>21. ASSUME NEW d \in Deliveries, Answer(d) PROVE Frame
  BY <1>21 DEF Answer
<1>22. ASSUME NEW d \in Deliveries, NoAnswer(d) PROVE Frame
  BY <1>22 DEF NoAnswer
<1>23. ASSUME NEW d \in Deliveries, Send(d) PROVE Frame
  BY <1>23 DEF Send
<1>24. ASSUME NEW d \in Deliveries, SendFails(d) PROVE Frame
  BY <1>24 DEF SendFails
<1>25. CASE UNCHANGED vars
  BY <1>1, <1>25 DEF vars
<1> QED
  BY <1>1, <1>2, <1>3, <1>4, <1>5, <1>6, <1>7, <1>8, <1>9, <1>c, <1>10, <1>11, <1>12, <1>13, <1>14,
     <1>15, <1>16, <1>17, <1>18, <1>19, <1>20, <1>21, <1>22, <1>23, <1>24, <1>25 DEF Next,
     Resume, Request, Process

LEMMA ReqType == TypeOK /\ [Next]_vars => req' \in [Procs -> ReqRec]
<1> SUFFICES ASSUME TypeOK, [Next]_vars PROVE req' \in [Procs -> ReqRec]
  OBVIOUS
<1>0. req \in [Procs -> ReqRec] /\ registered \in Adapters \union {None} /\ Admins \subseteq Procs /\ Boot \in Procs
  BY DEF TypeOK, ReqRec, Procs
<1> USE <1>0 DEF SetReq, ReqRec
<1> DEFINE Frame == UNCHANGED <<req>>
<1>1. CASE Frame
  BY <1>1, <1>0
<1>2. ASSUME NEW r \in Procs, Started(r) PROVE req' \in [Procs -> ReqRec]
  BY <1>2 DEF Started
<1>3. ASSUME NEW r \in Procs, StartedDead(r) PROVE req' \in [Procs -> ReqRec]
  BY <1>3 DEF StartedDead
<1>4. ASSUME NEW r \in Procs, StartRaises(r) PROVE req' \in [Procs -> ReqRec]
  BY <1>4 DEF StartRaises
<1>5. ASSUME NEW r \in Procs, Stopped(r) PROVE req' \in [Procs -> ReqRec]
  BY <1>5 DEF Stopped
<1>6. ASSUME NEW r \in Admins, Create(r) PROVE req' \in [Procs -> ReqRec]
  BY <1>6 DEF Create
<1>7. ASSUME NEW r \in Admins, ToggleOn(r) PROVE req' \in [Procs -> ReqRec]
  BY <1>7 DEF ToggleOn, BeginStart, Free
<1>8. ASSUME NEW r \in Admins, ToggleOff(r) PROVE req' \in [Procs -> ReqRec]
  BY <1>8 DEF ToggleOff, BeginStop
<1>9. ASSUME NEW r \in Admins, Delete(r) PROVE req' \in [Procs -> ReqRec]
  BY <1>9 DEF Delete
<1>c. ASSUME NEW r \in Admins, Configure(r) PROVE req' \in [Procs -> ReqRec]
  BY <1>c DEF Configure
<1>10. ASSUME NEW r \in Admins, NEW on \in BOOLEAN, Save(r, on) PROVE req' \in [Procs -> ReqRec]
  BY <1>10 DEF Save
<1>11. ASSUME StartUp PROVE req' \in [Procs -> ReqRec]
  BY <1>11 DEF StartUp, BeginStart, Free
<1>12. ASSUME Serve PROVE Frame
  BY <1>12 DEF Serve
<1>13. ASSUME Shutdown PROVE req' \in [Procs -> ReqRec]
  BY <1>13 DEF Shutdown, BeginStop
<1>14. ASSUME Restart PROVE req' \in [Procs -> ReqRec]
  BY <1>14 DEF Restart
<1>15. ASSUME NEW d \in Deliveries, Webhook(d) PROVE Frame
  BY <1>15 DEF Webhook
<1>16. ASSUME NEW d \in Deliveries, Repeated(d) PROVE Frame
  BY <1>16 DEF Repeated
<1>17. ASSUME NEW d \in Deliveries, BeginText(d) PROVE Frame
  BY <1>17 DEF BeginText
<1>18. ASSUME NEW d \in Deliveries, BeginImage(d) PROVE Frame
  BY <1>18 DEF BeginImage
<1>19. ASSUME NEW d \in Deliveries, Fetched(d) PROVE Frame
  BY <1>19 DEF Fetched
<1>20. ASSUME NEW d \in Deliveries, FetchFails(d) PROVE Frame
  BY <1>20 DEF FetchFails
<1>21. ASSUME NEW d \in Deliveries, Answer(d) PROVE Frame
  BY <1>21 DEF Answer
<1>22. ASSUME NEW d \in Deliveries, NoAnswer(d) PROVE Frame
  BY <1>22 DEF NoAnswer
<1>23. ASSUME NEW d \in Deliveries, Send(d) PROVE Frame
  BY <1>23 DEF Send
<1>24. ASSUME NEW d \in Deliveries, SendFails(d) PROVE Frame
  BY <1>24 DEF SendFails
<1>25. CASE UNCHANGED vars
  BY <1>1, <1>25 DEF vars
<1> QED
  BY <1>1, <1>2, <1>3, <1>4, <1>5, <1>6, <1>7, <1>8, <1>9, <1>c, <1>10, <1>11, <1>12, <1>13, <1>14,
     <1>15, <1>16, <1>17, <1>18, <1>19, <1>20, <1>21, <1>22, <1>23, <1>24, <1>25 DEF Next,
     Resume, Request, Process

LEMMA TaskType == TypeOK /\ [Next]_vars => task' \in [Deliveries -> TaskRec]
<1> SUFFICES ASSUME TypeOK, [Next]_vars PROVE task' \in [Deliveries -> TaskRec]
  OBVIOUS
<1>0. task \in [Deliveries -> TaskRec] /\ registered \in Adapters \union {None}
  BY DEF TypeOK, TaskRec
<1> USE <1>0 DEF TaskRec, Move
<1> DEFINE Frame == UNCHANGED <<task>>
<1>1. CASE Frame
  BY <1>1, <1>0
<1>2. ASSUME NEW r \in Procs, Started(r) PROVE Frame
  BY <1>2 DEF Started
<1>3. ASSUME NEW r \in Procs, StartedDead(r) PROVE Frame
  BY <1>3 DEF StartedDead
<1>4. ASSUME NEW r \in Procs, StartRaises(r) PROVE Frame
  BY <1>4 DEF StartRaises
<1>5. ASSUME NEW r \in Procs, Stopped(r) PROVE Frame
  BY <1>5 DEF Stopped
<1>6. ASSUME NEW r \in Admins, Create(r) PROVE Frame
  BY <1>6 DEF Create
<1>7. ASSUME NEW r \in Admins, ToggleOn(r) PROVE Frame
  BY <1>7 DEF ToggleOn
<1>8. ASSUME NEW r \in Admins, ToggleOff(r) PROVE Frame
  BY <1>8 DEF ToggleOff
<1>9. ASSUME NEW r \in Admins, Delete(r) PROVE Frame
  BY <1>9 DEF Delete
<1>c. ASSUME NEW r \in Admins, Configure(r) PROVE Frame
  BY <1>c DEF Configure
<1>10. ASSUME NEW r \in Admins, NEW on \in BOOLEAN, Save(r, on) PROVE Frame
  BY <1>10 DEF Save
<1>11. ASSUME StartUp PROVE Frame
  BY <1>11 DEF StartUp
<1>12. ASSUME Serve PROVE Frame
  BY <1>12 DEF Serve
<1>13. ASSUME Shutdown PROVE Frame
  BY <1>13 DEF Shutdown
<1>14. ASSUME Restart PROVE task' \in [Deliveries -> TaskRec]
  BY <1>14 DEF Restart
<1>15. ASSUME NEW d \in Deliveries, Webhook(d) PROVE task' \in [Deliveries -> TaskRec]
  BY <1>15 DEF Webhook
<1>16. ASSUME NEW d \in Deliveries, Repeated(d) PROVE task' \in [Deliveries -> TaskRec]
  BY <1>16 DEF Repeated
<1>17. ASSUME NEW d \in Deliveries, BeginText(d) PROVE task' \in [Deliveries -> TaskRec]
  BY <1>17 DEF BeginText, Hear, Ignore
<1>18. ASSUME NEW d \in Deliveries, BeginImage(d) PROVE task' \in [Deliveries -> TaskRec]
  BY <1>18 DEF BeginImage
<1>19. ASSUME NEW d \in Deliveries, Fetched(d) PROVE task' \in [Deliveries -> TaskRec]
  BY <1>19 DEF Fetched, Hear, Ignore
<1>20. ASSUME NEW d \in Deliveries, FetchFails(d) PROVE task' \in [Deliveries -> TaskRec]
  BY <1>20 DEF FetchFails
<1>21. ASSUME NEW d \in Deliveries, Answer(d) PROVE task' \in [Deliveries -> TaskRec]
  BY <1>21 DEF Answer
<1>22. ASSUME NEW d \in Deliveries, NoAnswer(d) PROVE task' \in [Deliveries -> TaskRec]
  BY <1>22 DEF NoAnswer
<1>23. ASSUME NEW d \in Deliveries, Send(d) PROVE task' \in [Deliveries -> TaskRec]
  BY <1>23 DEF Send
<1>24. ASSUME NEW d \in Deliveries, SendFails(d) PROVE task' \in [Deliveries -> TaskRec]
  BY <1>24 DEF SendFails
<1>25. CASE UNCHANGED vars
  BY <1>1, <1>25 DEF vars
<1> QED
  BY <1>1, <1>2, <1>3, <1>4, <1>5, <1>6, <1>7, <1>8, <1>9, <1>c, <1>10, <1>11, <1>12, <1>13, <1>14,
     <1>15, <1>16, <1>17, <1>18, <1>19, <1>20, <1>21, <1>22, <1>23, <1>24, <1>25 DEF Next,
     Resume, Request, Process

LEMMA LogType == TypeOK /\ [Next]_vars => log' \in Seq(Entry)
<1> SUFFICES ASSUME TypeOK, [Next]_vars PROVE log' \in Seq(Entry)
  OBVIOUS
<1>0. log \in Seq(Entry) /\ \A d \in Deliveries : In(d) \in Entry /\ Out(d) \in Entry
  BY DEF TypeOK, In, Out, Entry
<1> USE <1>0
<1> DEFINE Frame == UNCHANGED <<log>>
<1>1. CASE Frame
  BY <1>1, <1>0
<1>2. ASSUME NEW r \in Procs, Started(r) PROVE Frame
  BY <1>2 DEF Started
<1>3. ASSUME NEW r \in Procs, StartedDead(r) PROVE Frame
  BY <1>3 DEF StartedDead
<1>4. ASSUME NEW r \in Procs, StartRaises(r) PROVE Frame
  BY <1>4 DEF StartRaises
<1>5. ASSUME NEW r \in Procs, Stopped(r) PROVE Frame
  BY <1>5 DEF Stopped
<1>6. ASSUME NEW r \in Admins, Create(r) PROVE Frame
  BY <1>6 DEF Create
<1>7. ASSUME NEW r \in Admins, ToggleOn(r) PROVE Frame
  BY <1>7 DEF ToggleOn
<1>8. ASSUME NEW r \in Admins, ToggleOff(r) PROVE Frame
  BY <1>8 DEF ToggleOff
<1>9. ASSUME NEW r \in Admins, Delete(r) PROVE log' \in Seq(Entry)
  BY <1>9 DEF Delete
<1>c. ASSUME NEW r \in Admins, Configure(r) PROVE Frame
  BY <1>c DEF Configure
<1>10. ASSUME NEW r \in Admins, NEW on \in BOOLEAN, Save(r, on) PROVE Frame
  BY <1>10 DEF Save
<1>11. ASSUME StartUp PROVE Frame
  BY <1>11 DEF StartUp
<1>12. ASSUME Serve PROVE Frame
  BY <1>12 DEF Serve
<1>13. ASSUME Shutdown PROVE Frame
  BY <1>13 DEF Shutdown
<1>14. ASSUME Restart PROVE Frame
  BY <1>14 DEF Restart
<1>15. ASSUME NEW d \in Deliveries, Webhook(d) PROVE Frame
  BY <1>15 DEF Webhook
<1>16. ASSUME NEW d \in Deliveries, Repeated(d) PROVE Frame
  BY <1>16 DEF Repeated
<1>17. ASSUME NEW d \in Deliveries, BeginText(d) PROVE log' \in Seq(Entry)
  BY <1>17, AppendProperties DEF BeginText, Hear, Ignore
<1>18. ASSUME NEW d \in Deliveries, BeginImage(d) PROVE Frame
  BY <1>18 DEF BeginImage
<1>19. ASSUME NEW d \in Deliveries, Fetched(d) PROVE log' \in Seq(Entry)
  BY <1>19, AppendProperties DEF Fetched, Hear, Ignore
<1>20. ASSUME NEW d \in Deliveries, FetchFails(d) PROVE Frame
  BY <1>20 DEF FetchFails
<1>21. ASSUME NEW d \in Deliveries, Answer(d) PROVE log' \in Seq(Entry)
  BY <1>21, AppendProperties DEF Answer
<1>22. ASSUME NEW d \in Deliveries, NoAnswer(d) PROVE Frame
  BY <1>22 DEF NoAnswer
<1>23. ASSUME NEW d \in Deliveries, Send(d) PROVE Frame
  BY <1>23 DEF Send
<1>24. ASSUME NEW d \in Deliveries, SendFails(d) PROVE Frame
  BY <1>24 DEF SendFails
<1>25. CASE UNCHANGED vars
  BY <1>1, <1>25 DEF vars
<1> QED
  BY <1>1, <1>2, <1>3, <1>4, <1>5, <1>6, <1>7, <1>8, <1>9, <1>c, <1>10, <1>11, <1>12, <1>13, <1>14,
     <1>15, <1>16, <1>17, <1>18, <1>19, <1>20, <1>21, <1>22, <1>23, <1>24, <1>25 DEF Next,
     Resume, Request, Process

HeardFromLog(c) == \A i \in DOMAIN c : i \in Nat /\ c[i] \in Entry

LEMMA ContextType ==
  TypeOK /\ [Next]_vars => DOMAIN context' = Deliveries /\ \A d \in Deliveries : HeardFromLog(context'[d])
<1> DEFINE Goal == DOMAIN context' = Deliveries /\ \A d \in Deliveries : HeardFromLog(context'[d])
<1> SUFFICES ASSUME TypeOK, [Next]_vars PROVE Goal
  OBVIOUS
<1>0. DOMAIN context = Deliveries /\ (\A d \in Deliveries : HeardFromLog(context[d])) /\ log' \in Seq(Entry)
  BY LogType DEF TypeOK, HeardFromLog
<1>a. ASSUME NEW d \in Deliveries, Hear(d) PROVE Goal
  <2>1. HeardFromLog(History(log', ChatOf[d]))
    BY <1>0, HistoryTypeOK DEF HeardFromLog
  <2>2. context' = [context EXCEPT ![d] = History(log', ChatOf[d])]
    BY <1>a DEF Hear
  <2> QED
    BY <1>0, <2>1, <2>2
<1> DEFINE Frame == UNCHANGED <<context>>
<1>1. CASE Frame
  BY <1>1, <1>0
<1>2. ASSUME NEW r \in Procs, Started(r) PROVE Frame
  BY <1>2 DEF Started
<1>3. ASSUME NEW r \in Procs, StartedDead(r) PROVE Frame
  BY <1>3 DEF StartedDead
<1>4. ASSUME NEW r \in Procs, StartRaises(r) PROVE Frame
  BY <1>4 DEF StartRaises
<1>5. ASSUME NEW r \in Procs, Stopped(r) PROVE Frame
  BY <1>5 DEF Stopped
<1>6. ASSUME NEW r \in Admins, Create(r) PROVE Frame
  BY <1>6 DEF Create
<1>7. ASSUME NEW r \in Admins, ToggleOn(r) PROVE Frame
  BY <1>7 DEF ToggleOn
<1>8. ASSUME NEW r \in Admins, ToggleOff(r) PROVE Frame
  BY <1>8 DEF ToggleOff
<1>9. ASSUME NEW r \in Admins, Delete(r) PROVE Frame
  BY <1>9 DEF Delete
<1>c. ASSUME NEW r \in Admins, Configure(r) PROVE Frame
  BY <1>c DEF Configure
<1>10. ASSUME NEW r \in Admins, NEW on \in BOOLEAN, Save(r, on) PROVE Frame
  BY <1>10 DEF Save
<1>11. ASSUME StartUp PROVE Frame
  BY <1>11 DEF StartUp
<1>12. ASSUME Serve PROVE Frame
  BY <1>12 DEF Serve
<1>13. ASSUME Shutdown PROVE Frame
  BY <1>13 DEF Shutdown
<1>14. ASSUME Restart PROVE Frame
  BY <1>14 DEF Restart
<1>15. ASSUME NEW d \in Deliveries, Webhook(d) PROVE Frame
  BY <1>15 DEF Webhook
<1>16. ASSUME NEW d \in Deliveries, Repeated(d) PROVE Frame
  BY <1>16 DEF Repeated
<1>17. ASSUME NEW d \in Deliveries, BeginText(d) PROVE Goal
  <2>1. CASE UNCHANGED context
    BY <1>1, <2>1
  <2> QED
    BY <1>17, <1>a, <2>1 DEF BeginText, Ignore
<1>18. ASSUME NEW d \in Deliveries, BeginImage(d) PROVE Frame
  BY <1>18 DEF BeginImage
<1>19. ASSUME NEW d \in Deliveries, Fetched(d) PROVE Goal
  <2>1. CASE UNCHANGED context
    BY <1>1, <2>1
  <2> QED
    BY <1>19, <1>a, <2>1 DEF Fetched, Ignore
<1>20. ASSUME NEW d \in Deliveries, FetchFails(d) PROVE Frame
  BY <1>20 DEF FetchFails
<1>21. ASSUME NEW d \in Deliveries, Answer(d) PROVE Frame
  BY <1>21 DEF Answer
<1>22. ASSUME NEW d \in Deliveries, NoAnswer(d) PROVE Frame
  BY <1>22 DEF NoAnswer
<1>23. ASSUME NEW d \in Deliveries, Send(d) PROVE Frame
  BY <1>23 DEF Send
<1>24. ASSUME NEW d \in Deliveries, SendFails(d) PROVE Frame
  BY <1>24 DEF SendFails
<1>25. CASE UNCHANGED vars
  BY <1>1, <1>25 DEF vars
<1> QED
  BY <1>1, <1>2, <1>3, <1>4, <1>5, <1>6, <1>7, <1>8, <1>9, <1>c, <1>10, <1>11, <1>12, <1>13, <1>14,
     <1>15, <1>16, <1>17, <1>18, <1>19, <1>20, <1>21, <1>22, <1>23, <1>24, <1>25 DEF Next,
     Resume, Request, Process

(* Rows, registry, adapters, requests, tasks and histories keep types. *)
LEMMA TypeStep == TypeOK /\ [Next]_vars => TypeOK'
<1> SUFFICES ASSUME TypeOK, [Next]_vars PROVE TypeOK'
  OBVIOUS
<1>0. /\ adapter' \in [Adapters -> AdapterRec] /\ req' \in [Procs -> ReqRec] /\ task' \in [Deliveries -> TaskRec]
      /\ log' \in Seq(Entry)
      /\ DOMAIN context' = Deliveries /\ \A d \in Deliveries : HeardFromLog(context'[d])
  BY AdapterType, ReqType, TaskType, LogType, ContextType
<1> DEFINE Rest == /\ row' \in {"new", "off", "on", "stored", "gone"}
                   /\ registered' \in Adapters \union {None}
                   /\ users' \subseteq Chats /\ sent' \subseteq Deliveries
                   /\ phase' \in {"boot", "up", "closing", "down"} /\ boots' \in 0 .. MaxBoots
                   /\ switch' \in BOOLEAN /\ app' \in BOOLEAN
<1> SUFFICES Rest
  BY <1>0 DEF TypeOK, AdapterRec, ReqRec, TaskRec, HeardFromLog
<1>a. /\ row \in {"new", "off", "on", "stored", "gone"}
      /\ registered \in Adapters \union {None}
      /\ users \subseteq Chats /\ sent \subseteq Deliveries
      /\ phase \in {"boot", "up", "closing", "down"} /\ boots \in 0 .. MaxBoots /\ MaxBoots \in Nat
      /\ switch \in BOOLEAN /\ app \in BOOLEAN
      /\ req \in [Procs -> ReqRec]
      /\ \A d \in Deliveries : ChatOf[d] \in Chats
  BY DeliveriesAssumption DEF TypeOK, ReqRec, Chats
<1> USE <1>a DEF BeginStop, Starting, ReqRec, Hear, Ignore
<1> DEFINE Frame == UNCHANGED <<row, registered, users, sent, phase, boots, switch, app>>
<1>1. CASE Frame
  BY <1>1
<1>2. ASSUME NEW r \in Procs, Started(r) PROVE Rest
  BY <1>2 DEF Started
<1>3. ASSUME NEW r \in Procs, StartedDead(r) PROVE Rest
  BY <1>3 DEF StartedDead
<1>4. ASSUME NEW r \in Procs, StartRaises(r) PROVE Frame
  BY <1>4 DEF StartRaises
<1>5. ASSUME NEW r \in Procs, Stopped(r) PROVE Rest
  BY <1>5 DEF Stopped
<1>6. ASSUME NEW r \in Admins, Create(r) PROVE Rest
  BY <1>6 DEF Create
<1>7. ASSUME NEW r \in Admins, ToggleOn(r) PROVE Rest
  BY <1>7 DEF ToggleOn
<1>8. ASSUME NEW r \in Admins, ToggleOff(r) PROVE Rest
  BY <1>8 DEF ToggleOff
<1>9. ASSUME NEW r \in Admins, Delete(r) PROVE Rest
  BY <1>9 DEF Delete
<1>c. ASSUME NEW r \in Admins, Configure(r) PROVE Rest
  BY <1>c DEF Configure
<1>10. ASSUME NEW r \in Admins, NEW on \in BOOLEAN, Save(r, on) PROVE Rest
  BY <1>10 DEF Save
<1>11. ASSUME StartUp PROVE Rest
  BY <1>11 DEF StartUp
<1>12. ASSUME Serve PROVE Rest
  BY <1>12 DEF Serve
<1>13. ASSUME Shutdown PROVE Rest
  BY <1>13 DEF Shutdown
<1>14. ASSUME Restart PROVE Rest
  <2>1. app' = FALSE /\ switch' = switch
    BY <1>14 DEF Restart
  <2>2. app' \in BOOLEAN /\ switch' \in BOOLEAN
    BY <2>1, <1>a, Zenon
  <2>3. /\ phase' = "boot" /\ registered' = None /\ boots' = boots + 1 /\ boots < MaxBoots
        /\ UNCHANGED <<row, users, sent>>
    BY <1>14 DEF Restart
  <2> HIDE DEF BeginStop, Hear, Ignore
  <2> QED
    BY <1>a, <2>2, <2>3
<1>15. ASSUME NEW d \in Deliveries, Webhook(d) PROVE Frame
  BY <1>15 DEF Webhook
<1>16. ASSUME NEW d \in Deliveries, Repeated(d) PROVE Frame
  BY <1>16 DEF Repeated
<1>17. ASSUME NEW d \in Deliveries, BeginText(d) PROVE Rest
  BY <1>17 DEF BeginText
<1>18. ASSUME NEW d \in Deliveries, BeginImage(d) PROVE Frame
  BY <1>18 DEF BeginImage
<1>19. ASSUME NEW d \in Deliveries, Fetched(d) PROVE Rest
  BY <1>19 DEF Fetched
<1>20. ASSUME NEW d \in Deliveries, FetchFails(d) PROVE Frame
  BY <1>20 DEF FetchFails
<1>21. ASSUME NEW d \in Deliveries, Answer(d) PROVE Frame
  BY <1>21 DEF Answer
<1>22. ASSUME NEW d \in Deliveries, NoAnswer(d) PROVE Frame
  BY <1>22 DEF NoAnswer
<1>23. ASSUME NEW d \in Deliveries, Send(d) PROVE Rest
  BY <1>23 DEF Send
<1>24. ASSUME NEW d \in Deliveries, SendFails(d) PROVE Frame
  BY <1>24 DEF SendFails
<1>25. CASE UNCHANGED vars
  BY <1>1, <1>25 DEF vars
<1> QED
  BY <1>1, <1>2, <1>3, <1>4, <1>5, <1>6, <1>7, <1>8, <1>9, <1>c, <1>10, <1>11, <1>12, <1>13, <1>14,
     <1>15, <1>16, <1>17, <1>18, <1>19, <1>20, <1>21, <1>22, <1>23, <1>24, <1>25 DEF Next,
     Resume, Request, Process

(* The registry and the requests that are under way stay in agreement. *)
LEMMA RunStep == IInv /\ [Next]_vars => RunInv'
<1> USE DeliveriesAssumption DEF IInv, TypeOK, RunInv, Procs, SetReq, SetStage, BeginStart,
    BeginStop, Free, Starting, Asks, MarkSeen
<1> SUFFICES ASSUME IInv, [Next]_vars PROVE RunInv'
  OBVIOUS
<1> DEFINE Frame == UNCHANGED <<registered, adapter, req>>
<1>1. CASE Frame
  BY <1>1
<1>2. ASSUME NEW r \in Procs, Started(r) PROVE RunInv'
  BY <1>2 DEF Started
<1>3. ASSUME NEW r \in Procs, StartedDead(r) PROVE RunInv'
  BY <1>3 DEF StartedDead
<1>4. ASSUME NEW r \in Procs, StartRaises(r) PROVE RunInv'
  BY <1>4 DEF StartRaises
<1>5. ASSUME NEW r \in Procs, Stopped(r) PROVE RunInv'
  BY <1>5 DEF Stopped
<1>6. ASSUME NEW r \in Admins, Create(r) PROVE RunInv'
  BY <1>6 DEF Create
<1>7. ASSUME NEW r \in Admins, ToggleOn(r) PROVE RunInv'
  <2>1. CASE registered # None /\ adapter[registered].stage = "up"
    <3>1. UNCHANGED <<registered, adapter>> /\ req' = [req EXCEPT ![r] = [pc |-> "done", own |-> None]]
      BY <1>7, <2>1 DEF ToggleOn
    <3> QED
      BY <3>1
  <2>2. CASE ~(registered # None /\ adapter[registered].stage = "up")
    <3>1. PICK a \in Adapters : /\ adapter[a].stage = "unused"
                               /\ req' = [req EXCEPT ![r] = [pc |-> "starting", own |-> a]]
                               /\ adapter' = [adapter EXCEPT ![a].stage = "starting"]
                               /\ registered' = registered
      BY <1>7, <2>2 DEF ToggleOn
    <3> QED
      BY <3>1
  <2> QED
    BY <2>1, <2>2
<1>8. ASSUME NEW r \in Admins, ToggleOff(r) PROVE RunInv'
  <2>1. CASE registered = None
    <3>1. UNCHANGED <<registered, adapter>> /\ req' = [req EXCEPT ![r] = [pc |-> "done", own |-> None]]
      BY <1>8, <2>1 DEF ToggleOff
    <3> QED
      BY <3>1
  <2>2. CASE registered # None /\ adapter[registered].stage = "up"
    <3>1. /\ req' = [req EXCEPT ![r] = [pc |-> "stopping", own |-> registered]]
          /\ adapter' = [adapter EXCEPT ![registered].stage = "closing"]
          /\ registered' = None
      BY <1>8, <2>2 DEF ToggleOff
    <3> QED
      BY <2>2, <3>1
  <2>3. CASE registered # None /\ adapter[registered].stage # "up"
    <3>1. /\ req' = [req EXCEPT ![r] = [pc |-> "done", own |-> registered]]
          /\ adapter' = [adapter EXCEPT ![registered] = [stage |-> "stopped", seen |-> {}]]
          /\ registered' = None
      BY <1>8, <2>3 DEF ToggleOff
    <3> QED
      BY <2>3, <3>1
  <2> QED
    BY <2>1, <2>2, <2>3
<1>9. ASSUME NEW r \in Admins, Delete(r) PROVE RunInv'
  BY <1>9 DEF Delete
<1>c. ASSUME NEW r \in Admins, Configure(r) PROVE RunInv'
  BY <1>c DEF Configure
<1>10. ASSUME NEW r \in Admins, NEW on \in BOOLEAN, Save(r, on) PROVE RunInv'
  BY <1>10 DEF Save
<1>11. ASSUME StartUp PROVE RunInv'
  BY <1>11 DEF StartUp
<1>12. ASSUME Serve PROVE Frame
  BY <1>12 DEF Serve
<1>13. ASSUME Shutdown PROVE RunInv'
  <2>0. registered' = None
    BY <1>13 DEF Shutdown
  <2>1. CASE registered = None \/ adapter[registered].stage # "up"
    <3>1. /\ req' = [req EXCEPT ![Boot] = [pc |-> "done", own |-> registered]]
          /\ \/ UNCHANGED adapter
             \/ /\ registered # None
                /\ adapter' = [adapter EXCEPT ![registered] = [stage |-> "stopped", seen |-> {}]]
      BY <1>13, <2>1 DEF Shutdown
    <3> QED
      BY <2>0, <2>1, <3>1
  <2>2. CASE registered # None /\ adapter[registered].stage = "up"
    <3>1. /\ req' = [req EXCEPT ![Boot] = [pc |-> "stopping", own |-> registered]]
          /\ adapter' = [adapter EXCEPT ![registered].stage = "closing"]
      BY <1>13, <2>2 DEF Shutdown
    <3> QED
      BY <2>0, <2>2, <3>1
  <2> QED
    BY <2>1, <2>2
<1>14. ASSUME Restart PROVE RunInv'
  <2>1. /\ registered' = None
        /\ req' = [r \in Procs |-> IF r = Boot THEN [pc |-> "idle", own |-> None]
                                   ELSE IF req[r].pc = "idle" THEN req[r]
                                   ELSE [req[r] EXCEPT !.pc = "done"]]
    BY <1>14 DEF Restart
  <2>2. \A r \in Procs : req'[r].pc \in {"idle", "done"}
    BY <2>1
  <2> QED
    BY <2>1, <2>2
<1>15. ASSUME NEW d \in Deliveries, Webhook(d) PROVE Frame
  BY <1>15 DEF Webhook
<1>16. ASSUME NEW d \in Deliveries, Repeated(d) PROVE Frame
  BY <1>16 DEF Repeated
<1>17. ASSUME NEW d \in Deliveries, BeginText(d) PROVE RunInv'
  BY <1>17 DEF BeginText
<1>18. ASSUME NEW d \in Deliveries, BeginImage(d) PROVE RunInv'
  BY <1>18 DEF BeginImage
<1>19. ASSUME NEW d \in Deliveries, Fetched(d) PROVE Frame
  BY <1>19 DEF Fetched
<1>20. ASSUME NEW d \in Deliveries, FetchFails(d) PROVE Frame
  BY <1>20 DEF FetchFails
<1>21. ASSUME NEW d \in Deliveries, Answer(d) PROVE Frame
  BY <1>21 DEF Answer
<1>22. ASSUME NEW d \in Deliveries, NoAnswer(d) PROVE Frame
  BY <1>22 DEF NoAnswer
<1>23. ASSUME NEW d \in Deliveries, Send(d) PROVE Frame
  BY <1>23 DEF Send
<1>24. ASSUME NEW d \in Deliveries, SendFails(d) PROVE Frame
  BY <1>24 DEF SendFails
<1>25. CASE UNCHANGED vars
  BY <1>1, <1>25 DEF vars
<1> HIDE DEF IInv, TypeOK, RunInv, Procs, SetReq, SetStage, BeginStart, BeginStop, Free,
    Starting, Asks, MarkSeen, Frame
<1> QED
  BY <1>1, <1>2, <1>3, <1>4, <1>5, <1>6, <1>7, <1>8, <1>9, <1>c, <1>10, <1>11, <1>12, <1>13, <1>14,
     <1>15, <1>16, <1>17, <1>18, <1>19, <1>20, <1>21, <1>22, <1>23, <1>24, <1>25 DEF Next,
     Resume, Request, Process

(* A gateway switched on keeps its adapter, or a request that brings one. *)
LEMMA OnStep == IInv /\ [Next]_vars => OnInv'
<1> USE DeliveriesAssumption DEF IInv, TypeOK, RunInv, OnInv, Procs, SetReq, SetStage,
    BeginStart, BeginStop, Free, Starting, Asks, MarkSeen, Enabled, Exists
<1> SUFFICES ASSUME IInv, [Next]_vars PROVE OnInv'
  OBVIOUS
<1> DEFINE Frame == UNCHANGED <<row, registered, adapter, req, phase>>
<1>1. CASE Frame
  BY <1>1
<1>2. ASSUME NEW r \in Procs, Started(r) PROVE OnInv'
  BY <1>2 DEF Started
<1>3. ASSUME NEW r \in Procs, StartedDead(r) PROVE OnInv'
  BY <1>3 DEF StartedDead
<1>4. ASSUME NEW r \in Procs, StartRaises(r) PROVE OnInv'
  BY <1>4 DEF StartRaises
<1>5. ASSUME NEW r \in Procs, Stopped(r) PROVE OnInv'
  BY <1>5 DEF Stopped
<1>6. ASSUME NEW r \in Admins, Create(r) PROVE OnInv'
  BY <1>6 DEF Create
<1>7. ASSUME NEW r \in Admins, ToggleOn(r) PROVE OnInv'
  BY <1>7 DEF ToggleOn
<1>8. ASSUME NEW r \in Admins, ToggleOff(r) PROVE OnInv'
  BY <1>8 DEF ToggleOff
<1>9. ASSUME NEW r \in Admins, Delete(r) PROVE OnInv'
  BY <1>9 DEF Delete
<1>c. ASSUME NEW r \in Admins, Configure(r) PROVE OnInv'
  BY <1>c DEF Configure
<1>10. ASSUME NEW r \in Admins, NEW on \in BOOLEAN, Save(r, on) PROVE OnInv'
  BY <1>10 DEF Save
<1>11. ASSUME StartUp PROVE OnInv'
  BY <1>11 DEF StartUp
<1>12. ASSUME Serve PROVE OnInv'
  BY <1>12 DEF Serve
<1>13. ASSUME Shutdown PROVE OnInv'
  BY <1>13 DEF Shutdown
<1>14. ASSUME Restart PROVE OnInv'
  BY <1>14 DEF Restart
<1>15. ASSUME NEW d \in Deliveries, Webhook(d) PROVE Frame
  BY <1>15 DEF Webhook
<1>16. ASSUME NEW d \in Deliveries, Repeated(d) PROVE Frame
  BY <1>16 DEF Repeated
<1>17. ASSUME NEW d \in Deliveries, BeginText(d) PROVE OnInv'
  BY <1>17 DEF BeginText
<1>18. ASSUME NEW d \in Deliveries, BeginImage(d) PROVE OnInv'
  BY <1>18 DEF BeginImage
<1>19. ASSUME NEW d \in Deliveries, Fetched(d) PROVE Frame
  BY <1>19 DEF Fetched
<1>20. ASSUME NEW d \in Deliveries, FetchFails(d) PROVE Frame
  BY <1>20 DEF FetchFails
<1>21. ASSUME NEW d \in Deliveries, Answer(d) PROVE Frame
  BY <1>21 DEF Answer
<1>22. ASSUME NEW d \in Deliveries, NoAnswer(d) PROVE Frame
  BY <1>22 DEF NoAnswer
<1>23. ASSUME NEW d \in Deliveries, Send(d) PROVE Frame
  BY <1>23 DEF Send
<1>24. ASSUME NEW d \in Deliveries, SendFails(d) PROVE Frame
  BY <1>24 DEF SendFails
<1>25. CASE UNCHANGED vars
  BY <1>1, <1>25 DEF vars
<1> QED
  BY <1>1, <1>2, <1>3, <1>4, <1>5, <1>6, <1>7, <1>8, <1>9, <1>c, <1>10, <1>11, <1>12, <1>13, <1>14,
     <1>15, <1>16, <1>17, <1>18, <1>19, <1>20, <1>21, <1>22, <1>23, <1>24, <1>25 DEF Next,
     Resume, Request, Process

(* What appending an entry does to a log. *)
Grows(l, m, e, n) ==
  /\ DOMAIN l = 1 .. n
  /\ DOMAIN m = 1 .. n + 1
  /\ \A i \in 1 .. n : m[i] = l[i]
  /\ m[n + 1] = e

LEMMA Appended ==
  ASSUME NEW l \in Seq(Entry), NEW e \in Entry
  PROVE  \E n \in Nat : n = Len(l) /\ Grows(l, Append(l, e), e, n)
<1>1. Len(l) \in Nat /\ DOMAIN l = 1 .. Len(l)
  BY LenProperties
<1>2. /\ DOMAIN Append(l, e) = 1 .. Len(l) + 1
      /\ \A i \in 1 .. Len(l) : Append(l, e)[i] = l[i]
      /\ Append(l, e)[Len(l) + 1] = e
  BY AppendProperties
<1> QED
  BY <1>1, <1>2 DEF Grows

(* Questions come before their answers, and neither outlives the row. *)
LEMMA LogStep == IInv /\ [Next]_vars => LogInv'
<1> USE DeliveriesAssumption DEF IInv, LogInv, AnswersFollowQuestions,
    DeletedLeavesNoQuestion, Enabled, Exists
<1> SUFFICES ASSUME IInv, [Next]_vars PROVE LogInv'
  OBVIOUS
<1>0. /\ task \in [Deliveries -> TaskRec] /\ log \in Seq(Entry)
      /\ row \in {"new", "off", "on", "stored", "gone"}
  BY DEF TypeOK, TaskRec
<1> USE <1>0
<1> DEFINE Frame == UNCHANGED <<row, log, users, task>>
<1>1. CASE Frame
  BY <1>1
<1>2. ASSUME NEW r \in Procs, Started(r) PROVE Frame
  BY <1>2 DEF Started
<1>3. ASSUME NEW r \in Procs, StartedDead(r) PROVE Frame
  BY <1>3 DEF StartedDead
<1>4. ASSUME NEW r \in Procs, StartRaises(r) PROVE Frame
  BY <1>4 DEF StartRaises
<1>5. ASSUME NEW r \in Procs, Stopped(r) PROVE Frame
  BY <1>5 DEF Stopped
<1>6. ASSUME NEW r \in Admins, Create(r) PROVE LogInv'
  BY <1>6 DEF Create
<1>7. ASSUME NEW r \in Admins, ToggleOn(r) PROVE LogInv'
  BY <1>7 DEF ToggleOn
<1>8. ASSUME NEW r \in Admins, ToggleOff(r) PROVE LogInv'
  BY <1>8 DEF ToggleOff
<1>9. ASSUME NEW r \in Admins, Delete(r) PROVE LogInv'
  BY <1>9 DEF Delete
<1>c. ASSUME NEW r \in Admins, Configure(r) PROVE Frame
  BY <1>c DEF Configure
<1>10. ASSUME NEW r \in Admins, NEW on \in BOOLEAN, Save(r, on) PROVE LogInv'
  BY <1>10 DEF Save
<1>11. ASSUME StartUp PROVE LogInv'
  BY <1>11 DEF StartUp
<1>12. ASSUME Serve PROVE Frame
  BY <1>12 DEF Serve
<1>13. ASSUME Shutdown PROVE Frame
  BY <1>13 DEF Shutdown
<1>14. ASSUME Restart PROVE LogInv'
  BY <1>14 DEF Restart
<1>15. ASSUME NEW d \in Deliveries, Webhook(d) PROVE LogInv'
  BY <1>15 DEF Webhook, Move, At, MarkSeen
<1>16. ASSUME NEW d \in Deliveries, Repeated(d) PROVE LogInv'
  BY <1>16 DEF Repeated, Move, At, MarkSeen
<1>17. ASSUME NEW d \in Deliveries, BeginText(d) PROVE LogInv'
  <2>1. CASE Hear(d)
    <3>1. /\ log' = Append(log, In(d)) /\ UNCHANGED row /\ Enabled(row)
          /\ task' = [task EXCEPT ![d].pc = "ask"] /\ users' = users \union {ChatOf[d]}
      BY <1>17, <2>1 DEF BeginText, Hear, Move
    <3>2. In(d) \in Entry /\ In(d).dir = "in"
      BY DEF In, Entry
    <3>3. PICK n \in Nat : Grows(log, log', In(d), n)
      BY <3>1, <3>2, Appended
    <3> QED
      BY <3>1, <3>2, <3>3 DEF Grows
  <2>2. CASE Ignore(d)
    BY <1>17, <2>2 DEF BeginText, Ignore, Move
  <2> QED
    BY <1>17, <2>1, <2>2 DEF BeginText
<1>18. ASSUME NEW d \in Deliveries, BeginImage(d) PROVE LogInv'
  BY <1>18 DEF BeginImage, Move, At, MarkSeen
<1>19. ASSUME NEW d \in Deliveries, Fetched(d) PROVE LogInv'
  <2>1. CASE Hear(d)
    <3>1. /\ log' = Append(log, In(d)) /\ UNCHANGED row /\ Enabled(row)
          /\ task' = [task EXCEPT ![d].pc = "ask"] /\ users' = users \union {ChatOf[d]}
      BY <1>19, <2>1 DEF Fetched, Hear, Move
    <3>2. In(d) \in Entry /\ In(d).dir = "in"
      BY DEF In, Entry
    <3>3. PICK n \in Nat : Grows(log, log', In(d), n)
      BY <3>1, <3>2, Appended
    <3> QED
      BY <3>1, <3>2, <3>3 DEF Grows
  <2>2. CASE Ignore(d)
    BY <1>19, <2>2 DEF Fetched, Ignore, Move
  <2> QED
    BY <1>19, <2>1, <2>2 DEF Fetched
<1>20. ASSUME NEW d \in Deliveries, FetchFails(d) PROVE LogInv'
  BY <1>20 DEF FetchFails, Move, At, MarkSeen
<1>21. ASSUME NEW d \in Deliveries, Answer(d) PROVE LogInv'
  <2>1. /\ log' = Append(log, Out(d)) /\ UNCHANGED <<row, users>> /\ task[d].pc = "ask"
        /\ task' = [task EXCEPT ![d].pc = "send"]
    BY <1>21 DEF Answer, At, Move
  <2>2. Out(d) \in Entry /\ Out(d).dir = "out" /\ Out(d).of = d
    BY DEF Out, Entry
  <2>3. PICK n \in Nat : Grows(log, log', Out(d), n)
    BY <2>1, <2>2, Appended
  <2>4. AnswersFollowQuestions'
    <3> SUFFICES ASSUME Exists(row), NEW i \in 1 .. n + 1, log'[i].dir = "out"
                 PROVE  \E j \in 1 .. (i - 1) : log'[j] = In(log'[i].of)
      BY <2>1, <2>3 DEF Grows
    <3>1. CASE i \in 1 .. n
      BY <2>3, <3>1 DEF Grows
    <3>2. CASE i = n + 1
      <4>1. PICK j \in 1 .. n : log[j] = In(d)
        BY <2>1, <2>3 DEF Grows
      <4> QED
        BY <2>2, <2>3, <3>2, <4>1 DEF Grows
    <3> QED
      BY <3>1, <3>2
  <2> QED
    BY <2>1, <2>2, <2>3, <2>4 DEF Grows
<1>22. ASSUME NEW d \in Deliveries, NoAnswer(d) PROVE LogInv'
  BY <1>22 DEF NoAnswer, Move, At, MarkSeen
<1>23. ASSUME NEW d \in Deliveries, Send(d) PROVE LogInv'
  BY <1>23 DEF Send, Move, At, MarkSeen
<1>24. ASSUME NEW d \in Deliveries, SendFails(d) PROVE LogInv'
  BY <1>24 DEF SendFails, Move, At, MarkSeen
<1>25. CASE UNCHANGED vars
  BY <1>1, <1>25 DEF vars
<1> QED
  BY <1>1, <1>2, <1>3, <1>4, <1>5, <1>6, <1>7, <1>8, <1>9, <1>c, <1>10, <1>11, <1>12, <1>13, <1>14,
     <1>15, <1>16, <1>17, <1>18, <1>19, <1>20, <1>21, <1>22, <1>23, <1>24, <1>25 DEF Next,
     Resume, Request, Process

(* Nothing is logged twice. *)
LEMMA OnceStep == IInv /\ [Next]_vars => OnceInv'
<1> USE DEF OnceInv
<1> SUFFICES ASSUME IInv, [Next]_vars PROVE OnceInv'
  OBVIOUS
<1>0. /\ task \in [Deliveries -> TaskRec] /\ log \in Seq(Entry) /\ OnceInv
      /\ \A i \in DOMAIN log : log[i] \in Entry /\ log[i].of \in Deliveries
  <2>1. task \in [Deliveries -> TaskRec] /\ log \in Seq(Entry) /\ OnceInv
    BY DEF IInv, TypeOK, TaskRec
  <2>2. \A i \in DOMAIN log : log[i] \in Entry
    BY <2>1, ElementOfSeq, LenProperties
  <2> QED
    BY <2>1, <2>2 DEF Entry
<1> USE <1>0 DEF TaskRec
<1> DEFINE Frame == UNCHANGED <<log, task>>
<1>1. CASE Frame
  BY <1>1
<1>2. ASSUME NEW r \in Procs, Started(r) PROVE Frame
  BY <1>2 DEF Started
<1>3. ASSUME NEW r \in Procs, StartedDead(r) PROVE Frame
  BY <1>3 DEF StartedDead
<1>4. ASSUME NEW r \in Procs, StartRaises(r) PROVE Frame
  BY <1>4 DEF StartRaises
<1>5. ASSUME NEW r \in Procs, Stopped(r) PROVE Frame
  BY <1>5 DEF Stopped
<1>6. ASSUME NEW r \in Admins, Create(r) PROVE Frame
  BY <1>6 DEF Create
<1>7. ASSUME NEW r \in Admins, ToggleOn(r) PROVE Frame
  BY <1>7 DEF ToggleOn
<1>8. ASSUME NEW r \in Admins, ToggleOff(r) PROVE Frame
  BY <1>8 DEF ToggleOff
<1>9. ASSUME NEW r \in Admins, Delete(r) PROVE OnceInv'
  BY <1>9 DEF Delete
<1>c. ASSUME NEW r \in Admins, Configure(r) PROVE Frame
  BY <1>c DEF Configure
<1>10. ASSUME NEW r \in Admins, NEW on \in BOOLEAN, Save(r, on) PROVE Frame
  BY <1>10 DEF Save
<1>11. ASSUME StartUp PROVE Frame
  BY <1>11 DEF StartUp
<1>12. ASSUME Serve PROVE Frame
  BY <1>12 DEF Serve
<1>13. ASSUME Shutdown PROVE Frame
  BY <1>13 DEF Shutdown
<1>14. ASSUME Restart PROVE OnceInv'
  BY <1>14 DEF Restart
<1>15. ASSUME NEW d \in Deliveries, Webhook(d) PROVE OnceInv'
  BY <1>15 DEF Webhook, Move, At, MarkSeen
<1>16. ASSUME NEW d \in Deliveries, Repeated(d) PROVE OnceInv'
  BY <1>16 DEF Repeated, Move, At, MarkSeen
<1>17. ASSUME NEW d \in Deliveries, BeginText(d) PROVE OnceInv'
  <2>1. CASE Hear(d)
    <3>1. log' = Append(log, In(d)) /\ task' = [task EXCEPT ![d].pc = "ask"] /\ task[d].pc \in {"due", "fetch"}
      BY <1>17, <2>1 DEF BeginText, Hear, Move, At
    <3>2. In(d) \in Entry /\ In(d).dir = "in" /\ In(d).of = d
      BY DEF In, Entry
    <3>3. PICK n \in Nat : Grows(log, log', In(d), n)
      BY <3>1, <3>2, Appended
    <3>4. \A i \in 1 .. n : log[i] # In(d)
      BY <3>1, <3>2, <3>3 DEF Grows
    <3> QED
      BY <3>1, <3>2, <3>3, <3>4 DEF Grows
  <2>2. CASE Ignore(d)
    BY <1>17, <2>2 DEF BeginText, Ignore, Move, At
  <2> QED
    BY <1>17, <2>1, <2>2 DEF BeginText
<1>18. ASSUME NEW d \in Deliveries, BeginImage(d) PROVE OnceInv'
  BY <1>18 DEF BeginImage, Move, At, MarkSeen
<1>19. ASSUME NEW d \in Deliveries, Fetched(d) PROVE OnceInv'
  <2>1. CASE Hear(d)
    <3>1. log' = Append(log, In(d)) /\ task' = [task EXCEPT ![d].pc = "ask"] /\ task[d].pc \in {"due", "fetch"}
      BY <1>19, <2>1 DEF Fetched, Hear, Move, At
    <3>2. In(d) \in Entry /\ In(d).dir = "in" /\ In(d).of = d
      BY DEF In, Entry
    <3>3. PICK n \in Nat : Grows(log, log', In(d), n)
      BY <3>1, <3>2, Appended
    <3>4. \A i \in 1 .. n : log[i] # In(d)
      BY <3>1, <3>2, <3>3 DEF Grows
    <3> QED
      BY <3>1, <3>2, <3>3, <3>4 DEF Grows
  <2>2. CASE Ignore(d)
    BY <1>19, <2>2 DEF Fetched, Ignore, Move, At
  <2> QED
    BY <1>19, <2>1, <2>2 DEF Fetched
<1>20. ASSUME NEW d \in Deliveries, FetchFails(d) PROVE OnceInv'
  BY <1>20 DEF FetchFails, Move, At, MarkSeen
<1>21. ASSUME NEW d \in Deliveries, Answer(d) PROVE OnceInv'
  <2>1. log' = Append(log, Out(d)) /\ task' = [task EXCEPT ![d].pc = "send"] /\ task[d].pc = "ask"
    BY <1>21 DEF Answer, At, Move
  <2>2. Out(d) \in Entry /\ Out(d).dir = "out" /\ Out(d).of = d
    BY DEF Out, Entry
  <2>3. PICK n \in Nat : Grows(log, log', Out(d), n)
    BY <2>1, <2>2, Appended
  <2>4. \A i \in 1 .. n : log[i] # Out(d)
    BY <2>1, <2>2, <2>3 DEF Grows
  <2> QED
    BY <2>1, <2>2, <2>3, <2>4 DEF Grows
<1>22. ASSUME NEW d \in Deliveries, NoAnswer(d) PROVE OnceInv'
  BY <1>22 DEF NoAnswer, Move, At, MarkSeen
<1>23. ASSUME NEW d \in Deliveries, Send(d) PROVE OnceInv'
  BY <1>23 DEF Send, Move, At, MarkSeen
<1>24. ASSUME NEW d \in Deliveries, SendFails(d) PROVE OnceInv'
  BY <1>24 DEF SendFails, Move, At, MarkSeen
<1>25. CASE UNCHANGED vars
  BY <1>1, <1>25 DEF vars
<1> QED
  BY <1>1, <1>2, <1>3, <1>4, <1>5, <1>6, <1>7, <1>8, <1>9, <1>c, <1>10, <1>11, <1>12, <1>13, <1>14,
     <1>15, <1>16, <1>17, <1>18, <1>19, <1>20, <1>21, <1>22, <1>23, <1>24, <1>25 DEF Next,
     Resume, Request, Process

OfTheChat(h, d) ==
  /\ \E i \in DOMAIN h : h[i] = In(d) /\ \A j \in DOMAIN h : j <= i
  /\ \A i \in DOMAIN h : ChatOf[h[i].of] = ChatOf[d]
  /\ \A i, j \in DOMAIN h : h[i] = h[j] => i = j

(* The model is asked with messages of the chat, the question last. *)
LEMMA HistoryStep == IInv /\ [Next]_vars => HistoryIsOfTheChat'
<1> DEFINE Goal == \A d \in Deliveries : DOMAIN context'[d] # {} => OfTheChat(context'[d], d)
<1> SUFFICES ASSUME IInv, [Next]_vars PROVE Goal
  BY DEF HistoryIsOfTheChat, OfTheChat, Heard, In
<1>0. \A d \in Deliveries : DOMAIN context[d] # {} => OfTheChat(context[d], d)
  BY DEF IInv, HistoryIsOfTheChat, OfTheChat, Heard
<1>b. DOMAIN context = Deliveries /\ log \in Seq(Entry) /\ OnceInv'
  BY OnceStep DEF IInv, TypeOK
<1>a. ASSUME NEW d \in Deliveries, Hear(d) PROVE Goal
  <2> DEFINE h == History(log', ChatOf[d])
  <2>1. log' = Append(log, In(d)) /\ context' = [context EXCEPT ![d] = h]
    BY <1>a DEF Hear
  <2>2. In(d) \in Entry /\ In(d).of = d
    BY DEF In, Entry
  <2>3. PICK n \in Nat : n = Len(log) /\ Grows(log, log', In(d), n)
    BY <1>b, <2>1, <2>2, Appended
  <2>4. log' \in Seq(Entry) /\ DOMAIN log' = 1 .. Len(log') /\ Len(log') = n + 1
    BY <1>b, <2>1, <2>2, <2>3, AppendProperties DEF Grows
  <2>5. \A i \in DOMAIN h : i \in 1 .. n + 1 /\ h[i] = log'[i] /\ ChatOf[log'[i].of] = ChatOf[d]
    BY <2>4, HistoryType
  <2>6. n + 1 \in DOMAIN h
    BY <1>b, <2>1, <2>2, <2>3, NewestIsHeard, DeliveriesAssumption
  <2>7. \A i, j \in 1 .. n + 1 : log'[i] = log'[j] => i = j
    BY <1>b, <2>4 DEF OnceInv
  <2>8. context'[d] = h /\ \A e \in Deliveries : e # d => context'[e] = context[e]
    BY <1>b, <2>1
  <2> HIDE DEF h
  <2>9. \E i \in DOMAIN h : h[i] = In(d) /\ \A j \in DOMAIN h : j <= i
    BY <2>3, <2>5, <2>6 DEF Grows
  <2>10. \A i \in DOMAIN h : ChatOf[h[i].of] = ChatOf[d]
    BY <2>5
  <2>11. \A i, j \in DOMAIN h : h[i] = h[j] => i = j
    BY <2>5, <2>7
  <2>12. OfTheChat(h, d)
    BY <2>9, <2>10, <2>11 DEF OfTheChat
  <2> QED
    BY <1>0, <2>8, <2>12
<1> DEFINE Frame == UNCHANGED <<context>>
<1>1. CASE Frame
  BY <1>1, <1>0
<1>2. ASSUME NEW r \in Procs, Started(r) PROVE Frame
  BY <1>2 DEF Started
<1>3. ASSUME NEW r \in Procs, StartedDead(r) PROVE Frame
  BY <1>3 DEF StartedDead
<1>4. ASSUME NEW r \in Procs, StartRaises(r) PROVE Frame
  BY <1>4 DEF StartRaises
<1>5. ASSUME NEW r \in Procs, Stopped(r) PROVE Frame
  BY <1>5 DEF Stopped
<1>6. ASSUME NEW r \in Admins, Create(r) PROVE Frame
  BY <1>6 DEF Create
<1>7. ASSUME NEW r \in Admins, ToggleOn(r) PROVE Frame
  BY <1>7 DEF ToggleOn
<1>8. ASSUME NEW r \in Admins, ToggleOff(r) PROVE Frame
  BY <1>8 DEF ToggleOff
<1>9. ASSUME NEW r \in Admins, Delete(r) PROVE Frame
  BY <1>9 DEF Delete
<1>c. ASSUME NEW r \in Admins, Configure(r) PROVE Frame
  BY <1>c DEF Configure
<1>10. ASSUME NEW r \in Admins, NEW on \in BOOLEAN, Save(r, on) PROVE Frame
  BY <1>10 DEF Save
<1>11. ASSUME StartUp PROVE Frame
  BY <1>11 DEF StartUp
<1>12. ASSUME Serve PROVE Frame
  BY <1>12 DEF Serve
<1>13. ASSUME Shutdown PROVE Frame
  BY <1>13 DEF Shutdown
<1>14. ASSUME Restart PROVE Frame
  BY <1>14 DEF Restart
<1>15. ASSUME NEW d \in Deliveries, Webhook(d) PROVE Frame
  BY <1>15 DEF Webhook
<1>16. ASSUME NEW d \in Deliveries, Repeated(d) PROVE Frame
  BY <1>16 DEF Repeated
<1>17. ASSUME NEW d \in Deliveries, BeginText(d) PROVE Goal
  <2>1. CASE Hear(d)
    BY <1>a, <1>17, <2>1 DEF BeginText
  <2>2. CASE Ignore(d)
    BY <1>17, <1>1, <2>2 DEF Ignore
  <2> QED
    BY <1>17, <2>1, <2>2 DEF BeginText
<1>18. ASSUME NEW d \in Deliveries, BeginImage(d) PROVE Frame
  BY <1>18 DEF BeginImage
<1>19. ASSUME NEW d \in Deliveries, Fetched(d) PROVE Goal
  <2>1. CASE Hear(d)
    BY <1>a, <1>19, <2>1 DEF Fetched
  <2>2. CASE Ignore(d)
    BY <1>19, <1>1, <2>2 DEF Ignore
  <2> QED
    BY <1>19, <2>1, <2>2 DEF Fetched
<1>20. ASSUME NEW d \in Deliveries, FetchFails(d) PROVE Frame
  BY <1>20 DEF FetchFails
<1>21. ASSUME NEW d \in Deliveries, Answer(d) PROVE Frame
  BY <1>21 DEF Answer
<1>22. ASSUME NEW d \in Deliveries, NoAnswer(d) PROVE Frame
  BY <1>22 DEF NoAnswer
<1>23. ASSUME NEW d \in Deliveries, Send(d) PROVE Frame
  BY <1>23 DEF Send
<1>24. ASSUME NEW d \in Deliveries, SendFails(d) PROVE Frame
  BY <1>24 DEF SendFails
<1>25. CASE UNCHANGED vars
  BY <1>1, <1>25 DEF vars
<1> QED
  BY <1>1, <1>2, <1>3, <1>4, <1>5, <1>6, <1>7, <1>8, <1>9, <1>c, <1>10, <1>11, <1>12, <1>13, <1>14,
     <1>15, <1>16, <1>17, <1>18, <1>19, <1>20, <1>21, <1>22, <1>23, <1>24, <1>25 DEF Next,
     Resume, Request, Process

(* What a start or stop may do to the adapters. *)
AdaptersGrow ==
  \A a \in Adapters :
    /\ adapter[a].stage # "unused" => adapter'[a].stage # "unused"
    /\ adapter[a].stage = "stopped" => adapter'[a].stage = "stopped"
    /\ adapter[a].seen \subseteq adapter'[a].seen \/ adapter'[a].stage = "stopped"

(* What marking an event as seen does to the adapters. *)
LEMMA Remembered ==
  ASSUME NEW f \in [Adapters -> AdapterRec], NEW a \in Adapters, NEW v
  PROVE  LET g == [f EXCEPT ![a].seen = @ \union {v}]
         IN  /\ \A b \in Adapters : g[b].stage = f[b].stage /\ f[b].seen \subseteq g[b].seen
             /\ v \in g[a].seen
<1> DEFINE g == [f EXCEPT ![a].seen = @ \union {v}]
<1>1. \A b \in Adapters : b # a => g[b] = f[b]
  OBVIOUS
<1>2. g[a] = [f[a] EXCEPT !.seen = @ \union {v}]
  OBVIOUS
<1>3. DOMAIN f[a] = {"stage", "seen"}
  BY DEF AdapterRec
<1>4. g[a].stage = f[a].stage /\ g[a].seen = f[a].seen \union {v}
  BY <1>2, <1>3
<1> QED
  BY <1>1, <1>4

(* An event stays claimed by the one delivery that got its adapter. *)
LEMMA SeenStep == IInv /\ [Next]_vars => SeenInv'
<1> USE DEF SeenInv, Claimed, Heard
<1> SUFFICES ASSUME IInv, [Next]_vars PROVE SeenInv'
  OBVIOUS
<1>0. /\ adapter \in [Adapters -> AdapterRec] /\ req \in [Procs -> ReqRec] /\ task \in [Deliveries -> TaskRec]
      /\ registered \in Adapters \union {None} /\ None \notin Adapters /\ DOMAIN context = Deliveries
      /\ RunInv /\ SeenInv
  BY DeliveriesAssumption DEF IInv, TypeOK, AdapterRec, ReqRec, TaskRec
<1> USE <1>0 DEF AdapterRec, ReqRec, TaskRec
<1> DEFINE Frame == AdaptersGrow /\ UNCHANGED <<task, context>>
<1>1. CASE Frame
  BY <1>1 DEF AdaptersGrow
<1>2. ASSUME NEW r \in Procs, Started(r) PROVE Frame
  BY <1>2 DEF Started, AdaptersGrow, RunInv, Procs, SetReq, SetStage, BeginStart, BeginStop,
     Free, Starting, Asks
<1>3. ASSUME NEW r \in Procs, StartedDead(r) PROVE Frame
  BY <1>3 DEF StartedDead, AdaptersGrow, RunInv, Procs, SetReq, SetStage, BeginStart,
     BeginStop, Free, Starting, Asks
<1>4. ASSUME NEW r \in Procs, StartRaises(r) PROVE Frame
  BY <1>4 DEF StartRaises, AdaptersGrow, RunInv, Procs, SetReq, SetStage, BeginStart,
     BeginStop, Free, Starting, Asks
<1>5. ASSUME NEW r \in Procs, Stopped(r) PROVE Frame
  BY <1>5 DEF Stopped, AdaptersGrow, RunInv, Procs, SetReq, SetStage, BeginStart, BeginStop,
     Free, Starting, Asks
<1>6. ASSUME NEW r \in Admins, Create(r) PROVE Frame
  BY <1>6 DEF Create, AdaptersGrow, RunInv, Procs, SetReq, SetStage, BeginStart, BeginStop,
     Free, Starting, Asks
<1>7. ASSUME NEW r \in Admins, ToggleOn(r) PROVE Frame
  BY <1>7 DEF ToggleOn, AdaptersGrow, RunInv, Procs, SetReq, SetStage, BeginStart, BeginStop,
     Free, Starting, Asks
<1>8. ASSUME NEW r \in Admins, ToggleOff(r) PROVE Frame
  BY <1>8 DEF ToggleOff, AdaptersGrow, RunInv, Procs, SetReq, SetStage, BeginStart, BeginStop,
     Free, Starting, Asks
<1>9. ASSUME NEW r \in Admins, Delete(r) PROVE Frame
  BY <1>9 DEF Delete, AdaptersGrow, RunInv, Procs, SetReq, SetStage, BeginStart, BeginStop,
     Free, Starting, Asks
<1>c. ASSUME NEW r \in Admins, Configure(r) PROVE Frame
  BY <1>c DEF Configure, AdaptersGrow, RunInv, Procs, SetReq, SetStage, BeginStart, BeginStop,
     Free, Starting, Asks
<1>10. ASSUME NEW r \in Admins, NEW on \in BOOLEAN, Save(r, on) PROVE Frame
  BY <1>10 DEF Save, AdaptersGrow, RunInv, Procs, SetReq, SetStage, BeginStart, BeginStop,
     Free, Starting, Asks
<1>11. ASSUME StartUp PROVE Frame
  BY <1>11 DEF StartUp, AdaptersGrow, RunInv, Procs, SetReq, SetStage, BeginStart, BeginStop,
     Free, Starting, Asks
<1>12. ASSUME Serve PROVE Frame
  BY <1>12 DEF Serve, AdaptersGrow, RunInv, Procs, SetReq, SetStage, BeginStart, BeginStop,
     Free, Starting, Asks
<1>13. ASSUME Shutdown PROVE Frame
  BY <1>13 DEF Shutdown, AdaptersGrow, RunInv, Procs, SetReq, SetStage, BeginStart, BeginStop,
     Free, Starting, Asks
<1>14. ASSUME Restart PROVE SeenInv'
  BY <1>14 DEF Restart, Move, At, MarkSeen, Seen
<1>15. ASSUME NEW d \in Deliveries, Webhook(d) PROVE SeenInv'
  BY <1>15 DEF Webhook, RunInv
<1>16. ASSUME NEW d \in Deliveries, Repeated(d) PROVE SeenInv'
  BY <1>16 DEF Repeated, Move, At, MarkSeen, Seen
<1>17. ASSUME NEW d \in Deliveries, BeginText(d) PROVE SeenInv'
  <2>1. /\ task[d].pc = "due" /\ task[d].by \in Adapters /\ EventOf[d] \notin adapter[task[d].by].seen
        /\ adapter[task[d].by].stage # "unused" /\ \A e \in Deliveries : EventOf[e] \in Events
    BY <1>17 DEF BeginText, At, Seen, Events
  <2>2. /\ \A a \in Adapters : adapter'[a].stage = adapter[a].stage /\ adapter[a].seen \subseteq adapter'[a].seen
        /\ EventOf[d] \in adapter'[task[d].by].seen
    <3>1. adapter' = [adapter EXCEPT ![task[d].by].seen = @ \union {EventOf[d]}]
      BY <1>17 DEF BeginText, MarkSeen
    <3> QED
      BY <2>1, <3>1, Remembered
  <2>3. \A e \in Deliveries : /\ task'[e].by = task[e].by
                              /\ e # d => task'[e].pc = task[e].pc /\ context'[e] = context[e]
    BY <1>17 DEF BeginText, Hear, Ignore, Move
  <2>4. task'[d].pc \in {"ask", "done"}
    BY <1>17 DEF BeginText, Hear, Ignore, Move
  <2>5. \A e \in Deliveries : e # d => (Claimed(e)' <=> Claimed(e))
    BY <2>3
  <2> HIDE DEF Claimed
  <2>6. \A e \in Deliveries : e # d /\ EventOf[e] = EventOf[d] /\ task[e].by = task[d].by /\ Claimed(e)
          => adapter[task[d].by].stage = "stopped"
    BY <2>1
  <2>7. \A e \in Deliveries :
          /\ task'[e].pc = "due" => task'[e].by \in Adapters /\ adapter'[task'[e].by].stage # "unused"
          /\ Heard(e)' => task'[e].pc \notin {"none", "due", "fetch"}
    BY <2>1, <2>2, <2>3, <2>4
  <2>8. \A e \in Deliveries : Claimed(e)' =>
          /\ task'[e].by \in Adapters
          /\ adapter'[task'[e].by].stage # "unused"
          /\ EventOf[e] \in adapter'[task'[e].by].seen \/ adapter'[task'[e].by].stage = "stopped"
    <3> SUFFICES ASSUME NEW e \in Deliveries, Claimed(e)'
                 PROVE  /\ task[e].by \in Adapters
                        /\ adapter[task[e].by].stage # "unused"
                        /\ EventOf[e] \in adapter'[task[e].by].seen \/ adapter[task[e].by].stage = "stopped"
      BY <2>2, <2>3
    <3>1. CASE e = d
      BY <2>1, <2>2, <3>1
    <3>2. CASE e # d
      BY <2>2, <2>5, <3>2
    <3> QED
      BY <3>1, <3>2
  <2>9. \A e, f \in Deliveries :
          e # f /\ EventOf[e] = EventOf[f] /\ task'[e].by = task'[f].by /\ Claimed(e)' /\ Claimed(f)'
            => adapter'[task'[e].by].stage = "stopped"
    <3> SUFFICES ASSUME NEW e \in Deliveries, NEW f \in Deliveries, e # f, EventOf[e] = EventOf[f],
                        task[e].by = task[f].by, Claimed(e)', Claimed(f)'
                 PROVE  adapter[task[e].by].stage = "stopped"
      BY <2>2, <2>3, <2>8
    <3>1. CASE e # d /\ f # d
      BY <2>5, <3>1
    <3>2. CASE e = d
      BY <2>5, <2>6, <3>2
    <3>3. CASE f = d
      BY <2>5, <2>6, <3>3
    <3> QED
      BY <3>1, <3>2, <3>3
  <2> QED
    BY <2>7, <2>8, <2>9
<1>18. ASSUME NEW d \in Deliveries, BeginImage(d) PROVE SeenInv'
  <2>1. /\ task[d].pc = "due" /\ task[d].by \in Adapters /\ EventOf[d] \notin adapter[task[d].by].seen
        /\ adapter[task[d].by].stage # "unused" /\ \A e \in Deliveries : EventOf[e] \in Events
    BY <1>18 DEF BeginImage, At, Seen, Events
  <2>2. /\ \A a \in Adapters : adapter'[a].stage = adapter[a].stage /\ adapter[a].seen \subseteq adapter'[a].seen
        /\ EventOf[d] \in adapter'[task[d].by].seen
    <3>1. adapter' = [adapter EXCEPT ![task[d].by].seen = @ \union {EventOf[d]}]
      BY <1>18 DEF BeginImage, MarkSeen
    <3> QED
      BY <2>1, <3>1, Remembered
  <2>3. \A e \in Deliveries : /\ task'[e].by = task[e].by
                              /\ e # d => task'[e].pc = task[e].pc /\ context'[e] = context[e]
    BY <1>18 DEF BeginImage, Move
  <2>4. task'[d].pc \in {"fetch"}
    BY <1>18 DEF BeginImage, Move
  <2>5. \A e \in Deliveries : e # d => (Claimed(e)' <=> Claimed(e))
    BY <2>3
  <2> HIDE DEF Claimed
  <2>6. \A e \in Deliveries : e # d /\ EventOf[e] = EventOf[d] /\ task[e].by = task[d].by /\ Claimed(e)
          => adapter[task[d].by].stage = "stopped"
    BY <2>1
  <2>H. UNCHANGED context
    BY <1>18 DEF BeginImage
  <2>7. \A e \in Deliveries :
          /\ task'[e].pc = "due" => task'[e].by \in Adapters /\ adapter'[task'[e].by].stage # "unused"
          /\ Heard(e)' => task'[e].pc \notin {"none", "due", "fetch"}
    BY <2>1, <2>2, <2>3, <2>4, <2>H
  <2>8. \A e \in Deliveries : Claimed(e)' =>
          /\ task'[e].by \in Adapters
          /\ adapter'[task'[e].by].stage # "unused"
          /\ EventOf[e] \in adapter'[task'[e].by].seen \/ adapter'[task'[e].by].stage = "stopped"
    <3> SUFFICES ASSUME NEW e \in Deliveries, Claimed(e)'
                 PROVE  /\ task[e].by \in Adapters
                        /\ adapter[task[e].by].stage # "unused"
                        /\ EventOf[e] \in adapter'[task[e].by].seen \/ adapter[task[e].by].stage = "stopped"
      BY <2>2, <2>3
    <3>1. CASE e = d
      BY <2>1, <2>2, <3>1
    <3>2. CASE e # d
      BY <2>2, <2>5, <3>2
    <3> QED
      BY <3>1, <3>2
  <2>9. \A e, f \in Deliveries :
          e # f /\ EventOf[e] = EventOf[f] /\ task'[e].by = task'[f].by /\ Claimed(e)' /\ Claimed(f)'
            => adapter'[task'[e].by].stage = "stopped"
    <3> SUFFICES ASSUME NEW e \in Deliveries, NEW f \in Deliveries, e # f, EventOf[e] = EventOf[f],
                        task[e].by = task[f].by, Claimed(e)', Claimed(f)'
                 PROVE  adapter[task[e].by].stage = "stopped"
      BY <2>2, <2>3, <2>8
    <3>1. CASE e # d /\ f # d
      BY <2>5, <3>1
    <3>2. CASE e = d
      BY <2>5, <2>6, <3>2
    <3>3. CASE f = d
      BY <2>5, <2>6, <3>3
    <3> QED
      BY <3>1, <3>2, <3>3
  <2> QED
    BY <2>7, <2>8, <2>9
<1>19. ASSUME NEW d \in Deliveries, Fetched(d) PROVE SeenInv'
  <2>1. task[d].pc = "fetch" /\ UNCHANGED adapter
    BY <1>19 DEF Fetched, At
  <2>2. \A e \in Deliveries : /\ task'[e].by = task[e].by
                              /\ e # d => task'[e].pc = task[e].pc /\ context'[e] = context[e]
    BY <1>19 DEF Fetched, Hear, Ignore, Move
  <2>3. task'[d].pc \in {"ask", "done"}
    BY <1>19 DEF Fetched, Hear, Ignore, Move
  <2> QED
    BY <2>1, <2>2, <2>3
<1>20. ASSUME NEW d \in Deliveries, FetchFails(d) PROVE SeenInv'
  BY <1>20 DEF FetchFails, Move, At, MarkSeen, Seen
<1>21. ASSUME NEW d \in Deliveries, Answer(d) PROVE SeenInv'
  BY <1>21 DEF Answer, Move, At, MarkSeen, Seen
<1>22. ASSUME NEW d \in Deliveries, NoAnswer(d) PROVE SeenInv'
  BY <1>22 DEF NoAnswer, Move, At, MarkSeen, Seen
<1>23. ASSUME NEW d \in Deliveries, Send(d) PROVE SeenInv'
  BY <1>23 DEF Send, Move, At, MarkSeen, Seen
<1>24. ASSUME NEW d \in Deliveries, SendFails(d) PROVE SeenInv'
  BY <1>24 DEF SendFails, Move, At, MarkSeen, Seen
<1>25. CASE UNCHANGED vars
  BY <1>25 DEF vars
<1> HIDE DEF SeenInv, Claimed, Heard, AdapterRec, ReqRec, TaskRec, Frame
<1> QED
  BY <1>1, <1>2, <1>3, <1>4, <1>5, <1>6, <1>7, <1>8, <1>9, <1>c, <1>10, <1>11, <1>12, <1>13, <1>14,
     <1>15, <1>16, <1>17, <1>18, <1>19, <1>20, <1>21, <1>22, <1>23, <1>24, <1>25 DEF Next,
     Resume, Request, Process

LEMMA InitInv == Init => IInv
<1> USE DeliveriesAssumption DEF Init
<1> SUFFICES ASSUME Init PROVE IInv
  OBVIOUS
<1>1. TypeOK
  <2>1. switch \in BOOLEAN /\ app \in BOOLEAN
    <3>1. switch \in BOOLEAN /\ app = FALSE
      OBVIOUS
    <3> QED
      BY <3>1, Zenon
  <2> QED
    BY <2>1, EmptySeq DEF TypeOK, Procs, Chats, Entry
<1>2. RunInv /\ OnInv
  BY DEF RunInv, OnInv, Procs
<1>3. LogInv /\ OnceInv
  BY DEF LogInv, OnceInv, AnswersFollowQuestions, DeletedLeavesNoQuestion, Exists
<1>4. HistoryIsOfTheChat /\ SeenInv
  BY DEF HistoryIsOfTheChat, SeenInv, Claimed, Heard
<1> QED
  BY <1>1, <1>2, <1>3, <1>4 DEF IInv

LEMMA Inductive == Spec => []IInv
<1>1. IInv /\ [Next]_vars => IInv'
  BY TypeStep, RunStep, OnStep, LogStep, OnceStep, HistoryStep, SeenStep DEF IInv
<1> QED
  BY <1>1, InitInv, PTL DEF Spec

(* Every variable keeps its type, through overlapping requests, messages   *)
(* and restarts.                                                           *)
THEOREM TypeCorrect == Spec => []TypeOK
<1>1. IInv => TypeOK
  BY DEF IInv
<1> QED
  BY <1>1, Inductive, PTL

(* dispatcher.handle_message logs an answer only after its question, as    *)
(* long as the gateway exists.                                             *)
THEOREM AnswersAreToQuestions == Spec => []AnswersFollowQuestions
<1>1. IInv => AnswersFollowQuestions
  BY DEF IInv, LogInv
<1> QED
  BY <1>1, Inductive, PTL

(* delete_gateway leaves no sender and no question, and a message on its   *)
(* way brings none back.                                                   *)
THEOREM DeletionIsFinal == Spec => []DeletedLeavesNoQuestion
<1>1. IInv => DeletedLeavesNoQuestion
  BY DEF IInv, LogInv
<1> QED
  BY <1>1, Inductive, PTL

(* The history the dispatcher asks the model with is of the one chat, each *)
(* message once and the question last, for every limit.                    *)
THEOREM HistoriesAreOfTheChat == Spec => []HistoryIsOfTheChat
<1>1. IInv => HistoryIsOfTheChat
  BY DEF IInv
<1> QED
  BY <1>1, Inductive, PTL

(* Overlapping toggles leave no gateway without an adapter that was        *)
(* toggled on since the server started, or found enabled by a start-up     *)
(* with ENABLE_HALOCLAW on, unless a start failed (haloclaw/lifecycle.py). *)
THEOREM EnabledGatewaysRun == Spec => []ToggledOnRuns
<1>1. IInv => ToggledOnRuns
  <2> SUFFICES ASSUME IInv, phase = "up", row = "on",
                      \A r \in Procs : req[r].pc \in {"idle", "done"},
                      \A a \in Adapters : adapter[a].stage \notin {"dead", "failed"}
               PROVE  registered # None /\ adapter[registered].stage = "up"
    BY DEF ToggledOnRuns
  <2>1. registered # None
    BY DEF IInv, OnInv
  <2>2. adapter[registered].stage \in {"up", "dead"} /\ registered \in Adapters
    BY <2>1 DEF IInv, RunInv, TypeOK
  <2> QED
    BY <2>1, <2>2
<1> QED
  BY <1>1, Inductive, PTL

(* An event delivered again is heard once by an adapter that is not        *)
(* stopped, also while the first delivery awaits its image                 *)
(* (feishu.py, process_incoming).                                          *)
THEOREM EventsAreHeardOnce == Spec => HeardOnce
<1> DEFINE Once(d, e) ==
      /\ d # e /\ EventOf[d] = EventOf[e] /\ task[d].by = task[e].by
      /\ Heard(e) /\ ~Heard(d) /\ Heard(d)'
      => adapter[task[d].by].stage = "stopped"
<1>1. IInv /\ [Next]_vars => \A d, e \in Deliveries : Once(d, e)
  <2> SUFFICES ASSUME IInv, [Next]_vars, NEW d \in Deliveries, NEW e \in Deliveries,
                      d # e, EventOf[d] = EventOf[e], task[d].by = task[e].by,
                      Heard(e), ~Heard(d), Heard(d)'
               PROVE  adapter[task[d].by].stage = "stopped"
    OBVIOUS
  <2>1. SeenInv /\ DOMAIN context = Deliveries
    BY DEF IInv, TypeOK
  <2>2. context'[d] # context[d]
    BY DEF Heard
  <2>3. BeginText(d) \/ Fetched(d)
    <3> DEFINE Frame == UNCHANGED context
    <3>1. ASSUME NEW r \in Procs, Started(r) PROVE Frame
      BY <3>1 DEF Started
    <3>2. ASSUME NEW r \in Procs, StartedDead(r) PROVE Frame
      BY <3>2 DEF StartedDead
    <3>3. ASSUME NEW r \in Procs, StartRaises(r) PROVE Frame
      BY <3>3 DEF StartRaises
    <3>4. ASSUME NEW r \in Procs, Stopped(r) PROVE Frame
      BY <3>4 DEF Stopped
    <3>5. ASSUME NEW r \in Admins, Create(r) PROVE Frame
      BY <3>5 DEF Create
    <3>6. ASSUME NEW r \in Admins, ToggleOn(r) PROVE Frame
      BY <3>6 DEF ToggleOn
    <3>7. ASSUME NEW r \in Admins, ToggleOff(r) PROVE Frame
      BY <3>7 DEF ToggleOff
    <3>8. ASSUME NEW r \in Admins, Delete(r) PROVE Frame
      BY <3>8 DEF Delete
    <3>c. ASSUME NEW r \in Admins, Configure(r) PROVE Frame
      BY <3>c DEF Configure
    <3>9. ASSUME NEW r \in Admins, NEW on \in BOOLEAN, Save(r, on) PROVE Frame
      BY <3>9 DEF Save
    <3>10. ASSUME StartUp PROVE Frame
      BY <3>10 DEF StartUp
    <3>11. ASSUME Serve PROVE Frame
      BY <3>11 DEF Serve
    <3>12. ASSUME Shutdown PROVE Frame
      BY <3>12 DEF Shutdown
    <3>13. ASSUME Restart PROVE Frame
      BY <3>13 DEF Restart
    <3>14. ASSUME NEW c \in Deliveries, Webhook(c) PROVE Frame
      BY <3>14 DEF Webhook
    <3>15. ASSUME NEW c \in Deliveries, Repeated(c) PROVE Frame
      BY <3>15 DEF Repeated
    <3>16. ASSUME NEW c \in Deliveries, BeginText(c) PROVE c = d
      BY <2>1, <2>2, <3>16 DEF BeginText, Hear, Ignore
    <3>17. ASSUME NEW c \in Deliveries, BeginImage(c) PROVE Frame
      BY <3>17 DEF BeginImage
    <3>18. ASSUME NEW c \in Deliveries, Fetched(c) PROVE c = d
      BY <2>1, <2>2, <3>18 DEF Fetched, Hear, Ignore
    <3>19. ASSUME NEW c \in Deliveries, FetchFails(c) PROVE Frame
      BY <3>19 DEF FetchFails
    <3>20. ASSUME NEW c \in Deliveries, Answer(c) PROVE Frame
      BY <3>20 DEF Answer
    <3>21. ASSUME NEW c \in Deliveries, NoAnswer(c) PROVE Frame
      BY <3>21 DEF NoAnswer
    <3>22. ASSUME NEW c \in Deliveries, Send(c) PROVE Frame
      BY <3>22 DEF Send
    <3>23. ASSUME NEW c \in Deliveries, SendFails(c) PROVE Frame
      BY <3>23 DEF SendFails
    <3>24. CASE UNCHANGED vars
      BY <2>2, <3>24 DEF vars
    <3> QED
      BY <2>2, <3>1, <3>2, <3>3, <3>4, <3>5, <3>6, <3>7, <3>8, <3>c, <3>9, <3>10, <3>11, <3>12,
         <3>13, <3>14, <3>15, <3>16, <3>17, <3>18, <3>19, <3>20, <3>21, <3>22, <3>23, <3>24
         DEF Next, Resume, Request, Process
  <2>4. CASE BeginText(d)
    BY <2>1, <2>4 DEF BeginText, Seen, SeenInv, Claimed
  <2>5. CASE Fetched(d)
    BY <2>1, <2>5 DEF Fetched, At, SeenInv, Claimed
  <2> QED
    BY <2>3, <2>4, <2>5
<1> QED
  BY <1>1, Inductive, PTL DEF HeardOnce, Spec

(* A nonempty set of natural numbers has a least element.                  *)
LEMMA Least ==
  ASSUME NEW S \in SUBSET Nat, S # {} PROVE \E n \in S : \A m \in S : n <= m
<1> DEFINE Below(n) == {m \in Nat : m < n}
           T == {Below(n) : n \in S}
<1>1. \A n \in Nat : IsFiniteSet(Below(n))
  BY FS_BoundedSetOfNaturals
<1>2. T \subseteq FiniteSubsetsOf(Nat) /\ T # {}
  BY <1>1 DEF FiniteSubsetsOf
<1>3. PICK b \in T : \A c \in T : ~(<<c, b>> \in StrictSubsetOrdering(Nat))
  <2> HIDE DEF T
  <2> QED
    BY <1>2, FS_StrictSubsetOrderingWellFounded, WFMin
<1>4. PICK n \in S : b = Below(n)
  BY <1>3
<1>5. ASSUME NEW m \in S, m < n PROVE FALSE
  <2>1. <<Below(m), Below(n)>> \in StrictSubsetOrdering(Nat)
    <3>1. Below(m) \subseteq Below(n) /\ m \in Below(n) /\ m \notin Below(m)
      BY <1>5
    <3>2. Below(m) # Below(n)
      BY <3>1
    <3>3. Below(m) \in SUBSET Nat /\ Below(n) \in SUBSET Nat
      OBVIOUS
    <3> HIDE DEF Below
    <3> QED
      BY <3>1, <3>2, <3>3 DEF StrictSubsetOrdering
  <2> QED
    BY <1>3, <1>4, <2>1
<1> QED
  BY <1>5

(* A bounded one has a greatest element.                                   *)
LEMMA Greatest ==
  ASSUME NEW S \in SUBSET Nat, S # {}, NEW b \in Nat, \A n \in S : n <= b
  PROVE  \E n \in S : \A m \in S : m <= n
<1> DEFINE Short == {b - n : n \in S}
<1>0. \A n \in S : n \in Nat /\ n <= b
  OBVIOUS
<1>1. Short \in SUBSET Nat /\ Short # {}
  <2>1. \A n \in S : b - n \in Nat
    BY <1>0
  <2> QED
    BY <2>1
<1>2. PICK s \in Short : \A t \in Short : s <= t
  <2> HIDE DEF Short
  <2> QED
    BY <1>1, Least
<1>3. PICK n \in S : s = b - n
  BY <1>2
<1>4. ASSUME NEW m \in S PROVE m <= n
  <2>1. b - m \in Short
    OBVIOUS
  <2>2. b - n <= b - m
    BY <1>2, <1>3, <2>1
  <2> HIDE DEF Short
  <2> QED
    BY <1>0, <2>2
<1> QED
  BY <1>4

(* The instance counts as the module does. *)
LEMMA SameCardinality == \A S : Talk!Cardinality(S) = Cardinality(S)
  BY DEF Talk!Cardinality, Cardinality

(* What MessageLogTable.get_history returns is what Conversation asks for: *)
(* the newest messages of the chat, all of them or as many as allowed.     *)
LEMMA HistoryIsNewest ==
  ASSUME NEW l \in Seq(Entry), NEW c, DeliveriesAssumption
  PROVE  Talk!Newest(DOMAIN History(l, c), l, c)
<1> DEFINE ofChat == {i \in DOMAIN l : ChatOf[l[i].of] = c}
           later(k) == {m \in ofChat : m > k}
           H == {k \in ofChat : Cardinality(later(k)) < Limit}
<1>1. DOMAIN History(l, c) = H
  BY DEF History
<1>2. ofChat \subseteq 1 .. Len(l) /\ Len(l) \in Nat /\ Limit \in Nat \ {0}
  BY LenProperties DEF DeliveriesAssumption
<1>3. ofChat \in SUBSET Nat /\ IsFiniteSet(ofChat)
  <2>1. IsFiniteSet(1 .. Len(l))
    BY <1>2, FS_Interval
  <2> HIDE DEF ofChat
  <2>2. IsFiniteSet(ofChat)
    BY <1>2, <2>1, FS_Subset
  <2>3. 1 .. Len(l) \subseteq Nat
    BY <1>2
  <2> QED
    BY <1>2, <2>2, <2>3
<1>4. \A k : later(k) \in SUBSET ofChat
  OBVIOUS
<1>5. H \in SUBSET ofChat
  OBVIOUS
<1>6. \A S \in SUBSET ofChat : IsFiniteSet(S) /\ Cardinality(S) \in Nat
  <2> HIDE DEF ofChat
  <2> QED
    BY <1>3, FS_Subset, FS_CardinalityType
<1>7. \A i, j \in ofChat : i < j => later(j) \in SUBSET later(i) /\ j \in later(i)
  BY <1>3
<1>8. \A i \in H, j \in ofChat : j > i => j \in H
  <2> SUFFICES ASSUME NEW i \in H, NEW j \in ofChat, j > i PROVE Cardinality(later(j)) < Limit
    OBVIOUS
  <2>1. later(j) \in SUBSET later(i) /\ IsFiniteSet(later(i))
    BY <1>3, <1>4, <1>5, <1>6, <1>7
  <2>2. Cardinality(later(j)) <= Cardinality(later(i))
    <3> HIDE DEF later
    <3> QED
      BY <2>1, FS_Subset
  <2>3. Cardinality(later(i)) < Limit
    OBVIOUS
  <2>4. Cardinality(later(i)) \in Nat /\ Cardinality(later(j)) \in Nat
    BY <1>4, <1>6
  <2> HIDE DEF later
  <2> QED
    BY <1>2, <2>2, <2>3, <2>4
<1>9. Cardinality(H) <= Limit
  <2>1. CASE H = {}
    <3> HIDE DEF H
    <3> QED
      BY <1>2, <2>1, FS_EmptySet
  <2>2. CASE H # {}
    <3>1. PICK i \in H : \A k \in H : i <= k
      <4>1. H \in SUBSET Nat
        BY <1>3, <1>5
      <4> HIDE DEF H
      <4> QED
        BY <2>2, <4>1, Least
    <3>2. H \ {i} \in SUBSET later(i)
      <4>1. \A k \in H \ {i} : k \in ofChat /\ k \in Nat /\ i \in Nat /\ i <= k /\ k # i
        BY <1>3, <1>5, <3>1
      <4>2. \A k \in H \ {i} : k > i
        BY <4>1
      <4> HIDE DEF H, ofChat
      <4> QED
        BY <4>1, <4>2
    <3>3. Cardinality(later(i)) < Limit
      BY <3>1
    <3>4. Cardinality(later(i)) \in Nat /\ IsFiniteSet(later(i)) /\ IsFiniteSet(H) /\ Cardinality(H) \in Nat
      BY <1>4, <1>5, <1>6
    <3> HIDE DEF later, H
    <3>5. Cardinality(H \ {i}) <= Cardinality(later(i))
      BY <3>2, <3>4, FS_Subset
    <3>6. Cardinality(H \ {i}) = Cardinality(H) - 1
      BY <3>1, <3>4, FS_RemoveElement
    <3> QED
      BY <1>2, <3>3, <3>4, <3>5, <3>6
  <2> QED
    BY <2>1, <2>2
<1>10. ASSUME Cardinality(H) < Limit PROVE H = ofChat
  <2> SUFFICES ASSUME ofChat \ H # {} PROVE FALSE
    BY <1>5
  <2>1. PICK g \in ofChat \ H : \A k \in ofChat \ H : k <= g
    <3>1. ofChat \ H \in SUBSET Nat /\ \A n \in ofChat \ H : n <= Len(l)
      BY <1>2, <1>3
    <3> HIDE DEF H, ofChat
    <3> QED
      BY <1>2, <3>1, Greatest
  <2>2. later(g) \in SUBSET H
    <3>1. \A k \in ofChat : k \in Nat
      BY <1>3
    <3>2. \A k \in ofChat : k > g => k \in H
      <4> HIDE DEF H, ofChat
      <4> QED
        BY <2>1, <3>1
    <3> HIDE DEF H, ofChat
    <3> QED
      BY <3>2
  <2>3. ~(Cardinality(later(g)) < Limit)
    BY <2>1
  <2>4. IsFiniteSet(H) /\ Cardinality(H) \in Nat /\ Cardinality(later(g)) \in Nat
    BY <1>4, <1>5, <1>6
  <2> HIDE DEF later, H
  <2>5. Cardinality(later(g)) <= Cardinality(H)
    BY <2>2, <2>4, FS_Subset
  <2> QED
    BY <1>2, <1>10, <2>3, <2>4, <2>5
<1>11. Talk!Newest(H, l, c) <=>
         /\ H \subseteq ofChat
         /\ \A i \in H, j \in ofChat : j > i => j \in H
         /\ Cardinality(H) <= Limit
         /\ Cardinality(H) < Limit => H = ofChat
  <2> HIDE DEF H
  <2> QED
    BY SameCardinality DEF Talk!Newest
<1> HIDE DEF H, ofChat
<1> QED
  BY <1>1, <1>5, <1>8, <1>9, <1>10, <1>11

(* A message whose answer is awaited or due was put to the model.          *)
StageInv == \A d \in Deliveries : task[d].pc \in {"ask", "send"} => Heard(d)

(* What the steps do to what Conversation sees.  Apart from those that     *)
(* begin, end or delete, a step leaves every message where it was.         *)
Still == /\ UNCHANGED <<log, context, sent, users>>
         /\ (row' = "gone") = (row = "gone")
Quiet == /\ Still
         /\ \A d \in Deliveries :
              \/ task'[d].pc = task[d].pc
              \/ ~Heard(d) /\ task'[d].pc \notin {"ask", "send"}
Drops == /\ Still
         /\ \A d \in Deliveries :
              \/ task'[d].pc = task[d].pc
              \/ task'[d].pc \in {"done", "lost"}
Meets(d) == /\ Enabled(row) /\ ~Heard(d)
            /\ UNCHANGED <<row, log, context, sent>>
            /\ users' = users \union {ChatOf[d]}
            /\ Move(d, "done")
Hears(d) == /\ Enabled(row) /\ ~Heard(d)
            /\ UNCHANGED <<row, sent>>
            /\ users' = users \union {ChatOf[d]}
            /\ log' = Append(log, In(d))
            /\ context' = [context EXCEPT ![d] = History(log', ChatOf[d])]
            /\ Move(d, "ask")
Deletes == /\ Exists(row) /\ row' = "gone"
           /\ log' = <<>> /\ users' = {}
           /\ UNCHANGED <<task, context, sent>>

LEMMA IgnoreEffect ==
  ASSUME task \in [Deliveries -> TaskRec], NEW d \in Deliveries, Ignore(d),
         task[d].pc \in {"due", "fetch"}, ~Heard(d), UNCHANGED <<row, sent>>
  PROVE  Drops \/ Meets(d)
<1>1. CASE users' = users
  BY <1>1 DEF Ignore, Move, Drops, Still, TaskRec
<1>2. CASE users' # users
  <2>1. Enabled(row) /\ users' = users \union {ChatOf[d]}
    BY <1>2 DEF Ignore
  <2> QED
    BY <2>1 DEF Ignore, Meets
<1> QED
  BY <1>1, <1>2

LEMMA TalkEffect ==
  ASSUME IInv, [Next]_vars
  PROVE  \/ Quiet \/ Drops \/ Deletes
         \/ \E d \in Deliveries : Meets(d) \/ Hears(d) \/ Answer(d) \/ Send(d)
<1>0. /\ task \in [Deliveries -> TaskRec]
      /\ \A d \in Deliveries : Heard(d) => task[d].pc \notin {"none", "due", "fetch"}
  BY DEF IInv, TypeOK, TaskRec, SeenInv
<1> USE <1>0
<1> DEFINE Goal == \/ Quiet \/ Drops \/ Deletes
                   \/ \E d \in Deliveries : Meets(d) \/ Hears(d) \/ Answer(d) \/ Send(d)
<1>1. ASSUME NEW r \in Procs, Started(r) PROVE Quiet
  BY <1>1 DEF Started, Quiet, Still
<1>2. ASSUME NEW r \in Procs, StartedDead(r) PROVE Quiet
  BY <1>2 DEF StartedDead, Quiet, Still
<1>3. ASSUME NEW r \in Procs, StartRaises(r) PROVE Quiet
  BY <1>3 DEF StartRaises, Quiet, Still
<1>4. ASSUME NEW r \in Procs, Stopped(r) PROVE Quiet
  BY <1>4 DEF Stopped, Quiet, Still
<1>5. ASSUME NEW r \in Admins, Create(r) PROVE Quiet
  BY <1>5 DEF Create, BeginStop, Exists, Quiet, Still
<1>6. ASSUME NEW r \in Admins, ToggleOn(r) PROVE Quiet
  BY <1>6 DEF ToggleOn, BeginStop, Exists, Quiet, Still
<1>7. ASSUME NEW r \in Admins, ToggleOff(r) PROVE Quiet
  BY <1>7 DEF ToggleOff, BeginStop, Exists, Quiet, Still
<1>8. ASSUME NEW r \in Admins, NEW on \in BOOLEAN, Save(r, on) PROVE Quiet
  BY <1>8 DEF Save, Exists, Enabled, Quiet, Still
<1>9. ASSUME NEW r \in Admins, Delete(r) PROVE Deletes
  BY <1>9 DEF Delete, Deletes
<1>c. ASSUME NEW r \in Admins, Configure(r) PROVE Quiet
  BY <1>c DEF Configure, Quiet, Still
<1>10. ASSUME StartUp PROVE Quiet
  BY <1>10 DEF StartUp, Enabled, Quiet, Still
<1>11. ASSUME Serve PROVE Quiet
  BY <1>11 DEF Serve, Quiet, Still
<1>12. ASSUME Shutdown PROVE Quiet
  BY <1>12 DEF Shutdown, BeginStop, Quiet, Still
<1>13. ASSUME Restart PROVE Drops
  BY <1>13 DEF Restart, Drops, Still
<1>14. ASSUME NEW d \in Deliveries, Webhook(d) PROVE Quiet
  BY <1>14 DEF Webhook, Quiet, Still
<1>15. ASSUME NEW d \in Deliveries, Repeated(d) PROVE Quiet
  BY <1>15 DEF Repeated, At, Move, Quiet, Still, TaskRec
<1>16. ASSUME NEW d \in Deliveries, BeginImage(d) PROVE Quiet
  BY <1>16 DEF BeginImage, At, Move, Quiet, Still, TaskRec
<1>17. ASSUME NEW d \in Deliveries, BeginText(d) PROVE Drops \/ Meets(d) \/ Hears(d)
  <2>1. task[d].pc \in {"due", "fetch"} /\ ~Heard(d) /\ UNCHANGED <<row, sent>>
    BY <1>17 DEF BeginText, At
  <2>2. CASE Hear(d)
    BY <2>1, <2>2 DEF Hear, Hears
  <2>3. CASE Ignore(d)
    BY <2>1, <2>3, IgnoreEffect
  <2> QED
    BY <1>17, <2>2, <2>3 DEF BeginText
<1>18. ASSUME NEW d \in Deliveries, Fetched(d) PROVE Drops \/ Meets(d) \/ Hears(d)
  <2>1. task[d].pc \in {"due", "fetch"} /\ ~Heard(d) /\ UNCHANGED <<row, sent>>
    BY <1>18 DEF Fetched, At
  <2>2. CASE Hear(d)
    BY <2>1, <2>2 DEF Hear, Hears
  <2>3. CASE Ignore(d)
    BY <2>1, <2>3, IgnoreEffect
  <2> QED
    BY <1>18, <2>2, <2>3 DEF Fetched
<1>19. ASSUME NEW d \in Deliveries, FetchFails(d) PROVE Drops
  BY <1>19 DEF FetchFails, At, Move, Drops, Still, TaskRec
<1>20. ASSUME NEW d \in Deliveries, NoAnswer(d) PROVE Drops
  BY <1>20 DEF NoAnswer, At, Move, Drops, Still, TaskRec
<1>21. ASSUME NEW d \in Deliveries, SendFails(d) PROVE Drops
  BY <1>21 DEF SendFails, At, Move, Drops, Still, TaskRec
<1>22. CASE UNCHANGED vars
  BY <1>22 DEF vars, Quiet, Still
<1> HIDE DEF Heard, Quiet, Drops, Deletes, Meets, Hears, TaskRec
<1> QED
  BY <1>1, <1>2, <1>3, <1>4, <1>5, <1>6, <1>7, <1>8, <1>9, <1>c, <1>10, <1>11, <1>12,
     <1>13, <1>14, <1>15, <1>16, <1>17, <1>18, <1>19, <1>20, <1>21, <1>22
     DEF Next, Resume, Request, Process

LEMMA StageStep == IInv /\ StageInv /\ [Next]_vars => StageInv'
<1> SUFFICES ASSUME IInv, StageInv, [Next]_vars PROVE StageInv'
  OBVIOUS
<1>0. /\ task \in [Deliveries -> TaskRec] /\ DOMAIN context = Deliveries /\ log \in Seq(Entry)
      /\ DeliveriesAssumption
  BY DeliveriesAssumption DEF IInv, TypeOK, TaskRec
<1>1. CASE Quiet
  BY <1>1 DEF Quiet, Still, StageInv, Heard
<1>2. CASE Drops
  BY <1>2 DEF Drops, Still, StageInv, Heard
<1>3. CASE Deletes
  BY <1>3 DEF Deletes, StageInv, Heard
<1>4. ASSUME NEW d \in Deliveries, Hears(d) PROVE StageInv'
  <2>1. In(d) \in Entry /\ In(d).of = d
    BY DEF In, Entry
  <2>2. Len(log) + 1 \in DOMAIN context'[d]
    BY <1>0, <1>4, <2>1, NewestIsHeard DEF Hears
  <2>3. \A e \in Deliveries : e # d => task'[e] = task[e] /\ context'[e] = context[e]
    BY <1>0, <1>4 DEF Hears, Move
  <2> QED
    BY <2>2, <2>3 DEF StageInv, Heard
<1>5. ASSUME NEW d \in Deliveries, Answer(d) PROVE StageInv'
  BY <1>0, <1>5 DEF Answer, At, Move, StageInv, Heard, TaskRec
<1>6. ASSUME NEW d \in Deliveries, Send(d) PROVE StageInv'
  BY <1>0, <1>6 DEF Send, At, Move, StageInv, Heard, TaskRec
<1>7. ASSUME NEW d \in Deliveries, Meets(d) PROVE StageInv'
  BY <1>0, <1>7 DEF Meets, Move, StageInv, Heard, TaskRec
<1> QED
  BY <1>1, <1>2, <1>3, <1>4, <1>5, <1>6, <1>7, TalkEffect

StageOf == [d \in Deliveries |-> Stage(d)]

(* Where a message is, before and after a step, in terms of its task. *)
LEMMA StageValue ==
  \A d \in Deliveries :
    /\ ~Heard(d) => StageOf[d] = "new"
    /\ Heard(d) /\ task[d].pc = "ask" => StageOf[d] = "asked"
    /\ Heard(d) /\ task[d].pc = "send" => StageOf[d] = "answered"
    /\ Heard(d) /\ task[d].pc \notin {"ask", "send"} => StageOf[d] = "over"
<1> SUFFICES ASSUME NEW d \in Deliveries
             PROVE  /\ ~Heard(d) => Stage(d) = "new"
                    /\ Heard(d) /\ task[d].pc = "ask" => Stage(d) = "asked"
                    /\ Heard(d) /\ task[d].pc = "send" => Stage(d) = "answered"
                    /\ Heard(d) /\ task[d].pc \notin {"ask", "send"} => Stage(d) = "over"
  BY DEF StageOf
<1> QED
  BY DEF Stage

LEMMA StageValueNext ==
  (\A d \in Deliveries :
    /\ ~Heard(d) => StageOf[d] = "new"
    /\ Heard(d) /\ task[d].pc = "ask" => StageOf[d] = "asked"
    /\ Heard(d) /\ task[d].pc = "send" => StageOf[d] = "answered"
    /\ Heard(d) /\ task[d].pc \notin {"ask", "send"} => StageOf[d] = "over")'
  BY StageValue, PTL

(* Every step of the gateway is a step of its conversation or a stutter.   *)
LEMMA TalkStep ==
  ASSUME IInv, StageInv, IInv', [Next]_vars
  PROVE  [Talk!Next]_(Talk!vars)
<1>0. /\ task \in [Deliveries -> TaskRec] /\ DOMAIN context = Deliveries /\ log \in Seq(Entry)
      /\ DeliveriesAssumption
      /\ \A d \in Deliveries : task[d].pc \in {"ask", "send"} => Heard(d)
  BY DeliveriesAssumption DEF IInv, TypeOK, TaskRec, StageInv
<1>v. /\ StageOf = [d \in Deliveries |-> StageOf[d]]
      /\ StageOf' = [d \in Deliveries |-> StageOf'[d]]
  BY DEF StageOf
<1>1. CASE Quiet
  <2>1. \A d \in Deliveries : (Heard(d))' = Heard(d)
    BY <1>1 DEF Quiet, Still, Heard
  <2>2. \A d \in Deliveries : StageOf'[d] = StageOf[d]
    BY <1>0, <1>1, <2>1, StageValue, StageValueNext DEF Quiet
  <2>3. StageOf' = StageOf
    BY <1>v, <2>2
  <2> QED
    BY <1>1, <2>3 DEF Quiet, Still, StageOf, Talk!vars
<1>2. CASE Drops
  <2>1. \A d \in Deliveries : (Heard(d))' = Heard(d)
    BY <1>2 DEF Drops, Still, Heard
  <2>2. \A d \in Deliveries :
          \/ StageOf'[d] = StageOf[d]
          \/ StageOf[d] \in {"asked", "answered"} /\ StageOf'[d] = "over"
    BY <1>0, <1>2, <2>1, StageValue, StageValueNext DEF Drops
  <2> DEFINE M == {d \in Deliveries : StageOf[d] \in {"asked", "answered"} /\ StageOf'[d] = "over"}
  <2>3. StageOf' = [d \in Deliveries |-> IF d \in M THEN "over" ELSE StageOf[d]]
    BY <1>v, <2>2
  <2>4. M \in SUBSET {d \in Deliveries : StageOf[d] \in {"asked", "answered"}}
    OBVIOUS
  <2> HIDE DEF M
  <2>5. Talk!GiveUp
    BY <1>2, <2>3, <2>4 DEF Drops, Still, StageOf, Talk!GiveUp
  <2> QED
    BY <2>5 DEF Talk!Next
<1>3. CASE Deletes
  <2>1. \A d \in Deliveries : (Heard(d))' = Heard(d) /\ task'[d] = task[d]
    BY <1>3 DEF Deletes, Heard
  <2>2. \A d \in Deliveries : StageOf'[d] = StageOf[d]
    BY <2>1, StageValue, StageValueNext
  <2>3. StageOf' = StageOf
    BY <1>v, <2>2
  <2>4. row # "gone"
    BY <1>3 DEF Deletes, Exists
  <2>5. Talk!Delete
    BY <1>3, <2>3, <2>4 DEF Deletes, StageOf, Talk!Delete
  <2> QED
    BY <2>5 DEF Talk!Next
<1>4. ASSUME NEW d \in Deliveries, Hears(d) PROVE Talk!Ask(d)
  <2> DEFINE D == DOMAIN History(log', ChatOf[d])
  <2>1. In(d) \in Entry /\ In(d).of = d /\ log' \in Seq(Entry)
    BY DEF In, Entry, IInv, TypeOK
  <2>2. Talk!Newest(D, log', ChatOf[d])
    BY <1>0, <2>1, HistoryIsNewest
  <2>3. History(log', ChatOf[d]) = [i \in D |-> log'[i]] /\ D \in SUBSET DOMAIN log'
    BY DEF History
  <2>4. context' = [context EXCEPT ![d] = [i \in D |-> log'[i]]]
    BY <1>4, <2>3 DEF Hears
  <2>5. \A e \in Deliveries : e # d => task'[e] = task[e] /\ context'[e] = context[e]
    BY <1>0, <1>4 DEF Hears, Move
  <2>6. task'[d].pc = "ask" /\ (Heard(d))'
    <3>1. Len(log) + 1 \in DOMAIN context'[d]
      BY <1>0, <1>4, <2>1, NewestIsHeard DEF Hears
    <3> QED
      BY <1>0, <1>4, <3>1 DEF Hears, Move, Heard
  <2>7. \A e \in Deliveries : e # d => (Heard(e))' = Heard(e)
    BY <2>5 DEF Heard
  <2>8. /\ StageOf[d] = "new" /\ StageOf'[d] = "asked"
        /\ \A e \in Deliveries : e # d => StageOf'[e] = StageOf[e]
    BY <1>4, <2>5, <2>6, <2>7, StageValue, StageValueNext DEF Hears
  <2>9. StageOf' = [StageOf EXCEPT ![d] = "asked"]
    BY <1>v, <2>8
  <2>10. row # "gone" /\ row' = row /\ sent' = sent /\ users' = users \union {ChatOf[d]} /\ log' = Append(log, [of |-> d, dir |-> "in"])
    BY <1>4 DEF Hears, Enabled, In
  <2> HIDE DEF D
  <2> QED
    BY <2>2, <2>3, <2>4, <2>8, <2>9, <2>10 DEF Talk!Ask, Talk!Met, Talk!Logged, Talk!Becomes, StageOf
<1>5. ASSUME NEW d \in Deliveries, Answer(d) PROVE Talk!Answer(d)
  <2>1. /\ task[d].pc = "ask" /\ task'[d].pc = "send" /\ Heard(d)
        /\ \A e \in Deliveries : e # d => task'[e] = task[e]
        /\ UNCHANGED <<row, context, sent, users>>
        /\ log' = Append(log, [of |-> d, dir |-> "out"])
    BY <1>0, <1>5 DEF Answer, At, Move, TaskRec, Out
  <2>2. \A e \in Deliveries : (Heard(e))' = Heard(e)
    BY <2>1 DEF Heard
  <2>3. /\ StageOf[d] = "asked" /\ StageOf'[d] = "answered"
        /\ \A e \in Deliveries : e # d => StageOf'[e] = StageOf[e]
    BY <2>1, <2>2, StageValue, StageValueNext
  <2>4. StageOf' = [StageOf EXCEPT ![d] = "answered"]
    BY <1>v, <2>3
  <2> QED
    BY <2>1, <2>3, <2>4 DEF Talk!Answer, Talk!Logged, Talk!Becomes, StageOf
<1>6. ASSUME NEW d \in Deliveries, Send(d) PROVE Talk!Send(d)
  <2>1. /\ task[d].pc = "send" /\ task'[d].pc = "done" /\ Heard(d)
        /\ \A e \in Deliveries : e # d => task'[e] = task[e]
        /\ UNCHANGED <<row, context, log, users>>
        /\ sent' = sent \union {d}
    BY <1>0, <1>6 DEF Send, At, Move, TaskRec
  <2>2. \A e \in Deliveries : (Heard(e))' = Heard(e)
    BY <2>1 DEF Heard
  <2>3. /\ StageOf[d] = "answered" /\ StageOf'[d] = "over"
        /\ \A e \in Deliveries : e # d => StageOf'[e] = StageOf[e]
    BY <2>1, <2>2, StageValue, StageValueNext
  <2>4. StageOf' = [StageOf EXCEPT ![d] = "over"]
    BY <1>v, <2>3
  <2> QED
    BY <2>1, <2>3, <2>4 DEF Talk!Send, Talk!Becomes, StageOf
<1>7. ASSUME NEW d \in Deliveries, Meets(d) PROVE Talk!Meet(d)
  <2>1. \A e \in Deliveries : (Heard(e))' = Heard(e) /\ (e # d => task'[e] = task[e])
    BY <1>0, <1>7 DEF Meets, Move, Heard
  <2>2. \A e \in Deliveries : StageOf'[e] = StageOf[e]
    BY <1>7, <2>1, StageValue, StageValueNext DEF Meets
  <2>3. StageOf' = StageOf /\ StageOf[d] = "new"
    BY <1>v, <1>7, <2>2, StageValue DEF Meets
  <2>4. row # "gone"
    BY <1>7 DEF Meets, Enabled
  <2> QED
    BY <1>7, <2>3, <2>4 DEF Meets, StageOf, Talk!Meet, Talk!Met
<1> QED
  BY <1>1, <1>2, <1>3, <1>4, <1>5, <1>6, <1>7, TalkEffect DEF Talk!Next

(* Requests, repeats, failures and restarts in any order leave the         *)
(* messages of a gateway with the promise of Conversation: asked once with *)
(* the newest of their chat (models.py, get_history), answered once, sent  *)
(* once logged (dispatcher.py, handle_message).                            *)
THEOREM GatewayKeepsConversation == Spec => KeepsConversation
<1>1. Init => StageInv /\ Talk!Init
  <2> SUFFICES ASSUME Init PROVE StageInv /\ Talk!Init
    OBVIOUS
  <2>1. \A d \in Deliveries : ~Heard(d) /\ task[d].pc = "none"
    BY DEF Init, Heard
  <2>2. \A d \in Deliveries : StageOf[d] = "new"
    BY <2>1, StageValue
  <2>3. StageOf = [d \in Deliveries |-> "new"]
    BY <2>2 DEF StageOf
  <2>4. (row = "gone") = FALSE
    BY DEF Init
  <2> QED
    BY <2>1, <2>3, <2>4 DEF Init, StageInv, StageOf, Talk!Init
<1>2. IInv /\ StageInv /\ [Next]_vars => StageInv'
  BY StageStep
<1>3. IInv /\ StageInv /\ IInv' /\ [Next]_vars => [Talk!Next]_(Talk!vars)
  BY TalkStep
<1> QED
  BY <1>1, <1>2, <1>3, Inductive, PTL DEF Spec, KeepsConversation, Talk!Spec
=============================================================================
