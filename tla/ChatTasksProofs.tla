-------------------------- MODULE ChatTasksProofs --------------------------
(***************************************************************************)
(* Theorems about ChatTasks, for every set of chats, tasks and stop        *)
(* requests and every length of a reply.                                   *)
(***************************************************************************)
EXTENDS ChatTasks, FiniteSetTheorems, TLAPS

(* What a finalized reply is: its task has left the stream behind, and in  *)
(* the default configuration the document holds the whole text.            *)
ReplyInv ==
  \A t \in TaskIds :
    /\ taskMeta[t] = "background" => done[t]
    /\ done[t] => phase[t] \notin {"none", "created", "streaming"}
    /\ done[t] /\ ~RealtimeSave => saved[t] = streamed[t]

(* An answered stop names a task that has ended.                           *)
AnswerInv ==
  \A s \in Stoppers :
    /\ stop[s].pc # "idle" => stop[s].task \in TaskIds
    /\ stop[s].pc = "answered" /\ stop[s].answer # "not-found"
         => phase[stop[s].task] \in Ended

IInv == TypeOK /\ RegistryInv /\ ReplyInv /\ AnswerInv

LEMMA InitIInv == Init => IInv
<1> USE ChatTasksAssumption, SentinelAssumption
<1> SUFFICES ASSUME Init PROVE IInv
  OBVIOUS
<1>1. TypeOK
  BY DEF Init, TypeOK
<1>2. RegistryInv
  BY DEF Init, RegistryInv, Registered, Live, NoChat
<1>3. ReplyInv
  BY DEF Init, ReplyInv
<1>4. AnswerInv
  BY DEF Init, AnswerInv
<1> QED
  BY <1>1, <1>2, <1>3, <1>4 DEF IInv

(* Every step keeps every variable in its type. *)
LEMMA TypeStep == IInv /\ [Next]_vars => TypeOK'
<1> USE ChatTasksAssumption, SentinelAssumption DEF IInv, TypeOK, RunsFrom, GoTo, EndTask,
    SaveText, SaveReply,
  regVars, docVars, Live, Guarded, Ended, AnswerFor, AnswerInv
<1> SUFFICES ASSUME IInv, [Next]_vars PROVE TypeOK'
  OBVIOUS
<1>1. ASSUME NEW t \in TaskIds, NEW c \in Chats, CreateTask(t, c) PROVE TypeOK'
  BY <1>1 DEF CreateTask
<1>2. ASSUME NEW t \in TaskIds, StartHandler(t) PROVE TypeOK'
  BY <1>2 DEF StartHandler
<1>3. ASSUME NEW t \in TaskIds, StreamDelta(t) PROVE TypeOK'
  BY <1>3 DEF StreamDelta
<1>4. ASSUME NEW t \in TaskIds, AppendBlock(t) PROVE TypeOK'
  BY <1>4 DEF AppendBlock
<1>5. ASSUME NEW t \in TaskIds, FollowUpAnswer(t) PROVE TypeOK'
  BY <1>5 DEF FollowUpAnswer
<1>6. ASSUME NEW t \in TaskIds, StreamFails(t) PROVE TypeOK'
  BY <1>6 DEF StreamFails
<1>7. ASSUME NEW t \in TaskIds, Finalize(t) PROVE TypeOK'
  BY <1>7 DEF Finalize
<1>8. ASSUME NEW t \in TaskIds, StartBackground(t) PROVE TypeOK'
  BY <1>8 DEF StartBackground
<1>9. ASSUME NEW t \in TaskIds, EndBackground(t) PROVE TypeOK'
  BY <1>9 DEF EndBackground
<1>10. ASSUME NEW t \in TaskIds, BackgroundFails(t) PROVE TypeOK'
  BY <1>10 DEF BackgroundFails
<1>11. ASSUME NEW t \in TaskIds, CatchCancel(t) PROVE TypeOK'
  BY <1>11 DEF CatchCancel
<1>12. ASSUME NEW t \in TaskIds, DieOfCancel(t) PROVE TypeOK'
  BY <1>12 DEF DieOfCancel
<1>13. ASSUME NEW t \in TaskIds, SaveCancelled(t) PROVE TypeOK'
  BY <1>13 DEF SaveCancelled
<1>14. ASSUME NEW t \in TaskIds, ReturnFromHandler(t) PROVE TypeOK'
  BY <1>14 DEF ReturnFromHandler
<1>15. ASSUME NEW t \in TaskIds, CleanupTask(t) PROVE TypeOK'
  BY <1>15 DEF CleanupTask
<1>16. ASSUME NEW s \in Stoppers, NEW t \in TaskIds, StopTaskMissing(s, t) PROVE TypeOK'
  BY <1>16 DEF StopTaskMissing
<1>17. ASSUME NEW s \in Stoppers, NEW t \in TaskIds, StopTaskLive(s, t) PROVE TypeOK'
  BY <1>17 DEF StopTaskLive
<1>18. ASSUME NEW s \in Stoppers, NEW t \in TaskIds, StopTaskEnded(s, t) PROVE TypeOK'
  BY <1>18 DEF StopTaskEnded
<1>19. ASSUME NEW s \in Stoppers, StopTaskReturns(s) PROVE TypeOK'
  <2>1. stop[s].task \in TaskIds /\ phase[stop[s].task] \in Ended
    BY <1>19 DEF StopTaskReturns
  <2>2. AnswerFor(stop[s].task) \in {"stopped", "failed-to-stop", "error"}
    BY <2>1
  <2> QED
    BY <1>19, <2>1, <2>2 DEF StopTaskReturns
<1>20. CASE UNCHANGED vars
  BY <1>20 DEF vars
<1> QED
  BY <1>1, <1>2, <1>3, <1>4, <1>5, <1>6, <1>7, <1>8, <1>9, <1>10, <1>11, <1>12, <1>13, <1>14,
     <1>15, <1>16, <1>17, <1>18, <1>19, <1>20
  DEF Next, HandlerStep, StopRequest

(* Every step keeps the three dictionaries in agreement. *)
LEMMA RegistryStep == IInv /\ [Next]_vars => RegistryInv'
<1> USE ChatTasksAssumption, SentinelAssumption DEF IInv, TypeOK, RegistryInv, Registered,
    Known, RunsFrom, GoTo, EndTask, SaveText, SaveReply,
  regVars, docVars, Live, Guarded, Ended, AnswerInv
<1> SUFFICES ASSUME IInv, [Next]_vars PROVE RegistryInv'
  OBVIOUS
<1>1. ASSUME NEW t \in TaskIds, NEW c \in Chats, CreateTask(t, c) PROVE RegistryInv'
  BY <1>1 DEF CreateTask
<1>2. ASSUME NEW t \in TaskIds, StartHandler(t) PROVE RegistryInv'
  BY <1>2 DEF StartHandler
<1>3. ASSUME NEW t \in TaskIds, StreamDelta(t) PROVE RegistryInv'
  BY <1>3 DEF StreamDelta
<1>4. ASSUME NEW t \in TaskIds, AppendBlock(t) PROVE RegistryInv'
  BY <1>4 DEF AppendBlock
<1>5. ASSUME NEW t \in TaskIds, FollowUpAnswer(t) PROVE RegistryInv'
  BY <1>5 DEF FollowUpAnswer
<1>6. ASSUME NEW t \in TaskIds, StreamFails(t) PROVE RegistryInv'
  BY <1>6 DEF StreamFails
<1>7. ASSUME NEW t \in TaskIds, Finalize(t) PROVE RegistryInv'
  BY <1>7 DEF Finalize
<1>8. ASSUME NEW t \in TaskIds, StartBackground(t) PROVE RegistryInv'
  BY <1>8 DEF StartBackground
<1>9. ASSUME NEW t \in TaskIds, EndBackground(t) PROVE RegistryInv'
  BY <1>9 DEF EndBackground
<1>10. ASSUME NEW t \in TaskIds, BackgroundFails(t) PROVE RegistryInv'
  BY <1>10 DEF BackgroundFails
<1>11. ASSUME NEW t \in TaskIds, CatchCancel(t) PROVE RegistryInv'
  BY <1>11 DEF CatchCancel
<1>12. ASSUME NEW t \in TaskIds, DieOfCancel(t) PROVE RegistryInv'
  BY <1>12 DEF DieOfCancel
<1>13. ASSUME NEW t \in TaskIds, SaveCancelled(t) PROVE RegistryInv'
  BY <1>13 DEF SaveCancelled
<1>14. ASSUME NEW t \in TaskIds, ReturnFromHandler(t) PROVE RegistryInv'
  BY <1>14 DEF ReturnFromHandler
<1>15. ASSUME NEW t \in TaskIds, CleanupTask(t) PROVE RegistryInv'
  BY <1>15 DEF CleanupTask
<1>16. ASSUME NEW s \in Stoppers, NEW t \in TaskIds, StopTaskMissing(s, t) PROVE RegistryInv'
  BY <1>16 DEF StopTaskMissing
<1>17. ASSUME NEW s \in Stoppers, NEW t \in TaskIds, StopTaskLive(s, t) PROVE RegistryInv'
  BY <1>17 DEF StopTaskLive
<1>18. ASSUME NEW s \in Stoppers, NEW t \in TaskIds, StopTaskEnded(s, t) PROVE RegistryInv'
  BY <1>18 DEF StopTaskEnded
<1>19. ASSUME NEW s \in Stoppers, StopTaskReturns(s) PROVE RegistryInv'
  BY <1>19 DEF StopTaskReturns
<1>20. CASE UNCHANGED vars
  BY <1>20 DEF vars
<1> QED
  BY <1>1, <1>2, <1>3, <1>4, <1>5, <1>6, <1>7, <1>8, <1>9, <1>10, <1>11, <1>12, <1>13, <1>14,
     <1>15, <1>16, <1>17, <1>18, <1>19, <1>20
  DEF Next, HandlerStep, StopRequest

(* Every step keeps finalized replies whole. *)
LEMMA ReplyStep == IInv /\ [Next]_vars => ReplyInv'
<1> USE ChatTasksAssumption, SentinelAssumption DEF IInv, TypeOK, ReplyInv, RunsFrom, GoTo,
    EndTask, SaveText, SaveReply,
  regVars, docVars, Live, Guarded, Ended
<1> SUFFICES ASSUME IInv, [Next]_vars PROVE ReplyInv'
  OBVIOUS
<1>1. ASSUME NEW t \in TaskIds, NEW c \in Chats, CreateTask(t, c) PROVE ReplyInv'
  BY <1>1 DEF CreateTask
<1>2. ASSUME NEW t \in TaskIds, StartHandler(t) PROVE ReplyInv'
  BY <1>2 DEF StartHandler
<1>3. ASSUME NEW t \in TaskIds, StreamDelta(t) PROVE ReplyInv'
  BY <1>3 DEF StreamDelta
<1>4. ASSUME NEW t \in TaskIds, AppendBlock(t) PROVE ReplyInv'
  BY <1>4 DEF AppendBlock
<1>5. ASSUME NEW t \in TaskIds, FollowUpAnswer(t) PROVE ReplyInv'
  BY <1>5 DEF FollowUpAnswer
<1>6. ASSUME NEW t \in TaskIds, StreamFails(t) PROVE ReplyInv'
  BY <1>6 DEF StreamFails
<1>7. ASSUME NEW t \in TaskIds, Finalize(t) PROVE ReplyInv'
  BY <1>7 DEF Finalize
<1>8. ASSUME NEW t \in TaskIds, StartBackground(t) PROVE ReplyInv'
  BY <1>8 DEF StartBackground
<1>9. ASSUME NEW t \in TaskIds, EndBackground(t) PROVE ReplyInv'
  BY <1>9 DEF EndBackground
<1>10. ASSUME NEW t \in TaskIds, BackgroundFails(t) PROVE ReplyInv'
  BY <1>10 DEF BackgroundFails
<1>11. ASSUME NEW t \in TaskIds, CatchCancel(t) PROVE ReplyInv'
  BY <1>11 DEF CatchCancel
<1>12. ASSUME NEW t \in TaskIds, DieOfCancel(t) PROVE ReplyInv'
  BY <1>12 DEF DieOfCancel
<1>13. ASSUME NEW t \in TaskIds, SaveCancelled(t) PROVE ReplyInv'
  BY <1>13 DEF SaveCancelled
<1>14. ASSUME NEW t \in TaskIds, ReturnFromHandler(t) PROVE ReplyInv'
  BY <1>14 DEF ReturnFromHandler
<1>15. ASSUME NEW t \in TaskIds, CleanupTask(t) PROVE ReplyInv'
  BY <1>15 DEF CleanupTask
<1>16. ASSUME NEW s \in Stoppers, NEW t \in TaskIds, StopTaskMissing(s, t) PROVE ReplyInv'
  BY <1>16 DEF StopTaskMissing
<1>17. ASSUME NEW s \in Stoppers, NEW t \in TaskIds, StopTaskLive(s, t) PROVE ReplyInv'
  BY <1>17 DEF StopTaskLive
<1>18. ASSUME NEW s \in Stoppers, NEW t \in TaskIds, StopTaskEnded(s, t) PROVE ReplyInv'
  BY <1>18 DEF StopTaskEnded
<1>19. ASSUME NEW s \in Stoppers, StopTaskReturns(s) PROVE ReplyInv'
  BY <1>19 DEF StopTaskReturns
<1>20. CASE UNCHANGED vars
  BY <1>20 DEF vars
<1> QED
  BY <1>1, <1>2, <1>3, <1>4, <1>5, <1>6, <1>7, <1>8, <1>9, <1>10, <1>11, <1>12, <1>13, <1>14,
     <1>15, <1>16, <1>17, <1>18, <1>19, <1>20
  DEF Next, HandlerStep, StopRequest

(* No step revives a task whose stop was answered. *)
LEMMA AnswerStep == IInv /\ [Next]_vars => AnswerInv'
<1> USE ChatTasksAssumption, SentinelAssumption DEF IInv, TypeOK, AnswerInv, RunsFrom, GoTo,
    EndTask, SaveText, SaveReply,
  regVars, docVars, Live, Guarded, Ended
<1> SUFFICES ASSUME IInv, [Next]_vars PROVE AnswerInv'
  OBVIOUS
<1>1. ASSUME NEW t \in TaskIds, NEW c \in Chats, CreateTask(t, c) PROVE AnswerInv'
  BY <1>1 DEF CreateTask
<1>2. ASSUME NEW t \in TaskIds, StartHandler(t) PROVE AnswerInv'
  BY <1>2 DEF StartHandler
<1>3. ASSUME NEW t \in TaskIds, StreamDelta(t) PROVE AnswerInv'
  BY <1>3 DEF StreamDelta
<1>4. ASSUME NEW t \in TaskIds, AppendBlock(t) PROVE AnswerInv'
  BY <1>4 DEF AppendBlock
<1>5. ASSUME NEW t \in TaskIds, FollowUpAnswer(t) PROVE AnswerInv'
  BY <1>5 DEF FollowUpAnswer
<1>6. ASSUME NEW t \in TaskIds, StreamFails(t) PROVE AnswerInv'
  BY <1>6 DEF StreamFails
<1>7. ASSUME NEW t \in TaskIds, Finalize(t) PROVE AnswerInv'
  BY <1>7 DEF Finalize
<1>8. ASSUME NEW t \in TaskIds, StartBackground(t) PROVE AnswerInv'
  BY <1>8 DEF StartBackground
<1>9. ASSUME NEW t \in TaskIds, EndBackground(t) PROVE AnswerInv'
  BY <1>9 DEF EndBackground
<1>10. ASSUME NEW t \in TaskIds, BackgroundFails(t) PROVE AnswerInv'
  BY <1>10 DEF BackgroundFails
<1>11. ASSUME NEW t \in TaskIds, CatchCancel(t) PROVE AnswerInv'
  BY <1>11 DEF CatchCancel
<1>12. ASSUME NEW t \in TaskIds, DieOfCancel(t) PROVE AnswerInv'
  BY <1>12 DEF DieOfCancel
<1>13. ASSUME NEW t \in TaskIds, SaveCancelled(t) PROVE AnswerInv'
  BY <1>13 DEF SaveCancelled
<1>14. ASSUME NEW t \in TaskIds, ReturnFromHandler(t) PROVE AnswerInv'
  BY <1>14 DEF ReturnFromHandler
<1>15. ASSUME NEW t \in TaskIds, CleanupTask(t) PROVE AnswerInv'
  BY <1>15 DEF CleanupTask
<1>16. ASSUME NEW s \in Stoppers, NEW t \in TaskIds, StopTaskMissing(s, t) PROVE AnswerInv'
  BY <1>16 DEF StopTaskMissing
<1>17. ASSUME NEW s \in Stoppers, NEW t \in TaskIds, StopTaskLive(s, t) PROVE AnswerInv'
  BY <1>17 DEF StopTaskLive
<1>18. ASSUME NEW s \in Stoppers, NEW t \in TaskIds, StopTaskEnded(s, t) PROVE AnswerInv'
  BY <1>18 DEF StopTaskEnded
<1>19. ASSUME NEW s \in Stoppers, StopTaskReturns(s) PROVE AnswerInv'
  BY <1>19 DEF StopTaskReturns
<1>20. CASE UNCHANGED vars
  BY <1>20 DEF vars
<1> QED
  BY <1>1, <1>2, <1>3, <1>4, <1>5, <1>6, <1>7, <1>8, <1>9, <1>10, <1>11, <1>12, <1>13, <1>14,
     <1>15, <1>16, <1>17, <1>18, <1>19, <1>20
  DEF Next, HandlerStep, StopRequest

(* TypeOK, RegistryInv and the two strengthenings hold in every reachable  *)
(* state.                                                                  *)
LEMMA Inductive == Spec => []IInv
<1>1. IInv /\ [Next]_vars => IInv'
  BY TypeStep, RegistryStep, ReplyStep, AnswerStep DEF IInv
<1> QED
  BY InitIInv, <1>1, PTL DEF Spec

THEOREM TypeCorrect == Spec => []TypeOK
BY Inductive, PTL DEF IInv

(* The dictionaries of tasks.py always agree on which tasks exist.         *)
THEOREM RegistryAgrees == Spec => []RegistryInv
BY Inductive, PTL DEF IInv

(* With the default configuration a registered task is hidden from the     *)
(* listing of generating tasks only once its whole reply is saved.         *)
THEOREM HiddenRepliesAreSaved ==
  ASSUME ~RealtimeSave PROVE Spec => []HiddenReplySaved
<1>1. IInv => HiddenReplySaved
  BY DEF IInv, TypeOK, RegistryInv, Registered, ReplyInv, HiddenReplySaved,
         ListBlocking
<1> QED
  BY <1>1, Inductive, PTL

(* Nothing changes the saved text or the done flag of a finalized reply.   *)
THEOREM FinalizedRepliesAreStable ==
  ASSUME ~RealtimeSave PROVE Spec => FinalizedReplyStable
<1> DEFINE Stable == \A t \in TaskIds : done[t] => done'[t] /\ saved'[t] = saved[t]
<1>1. IInv /\ [Next]_vars => [Stable]_vars
  <2> USE DEF IInv, TypeOK, ReplyInv, RunsFrom, GoTo, EndTask, SaveText, SaveReply,
      regVars, docVars
  <2> SUFFICES ASSUME IInv, [Next]_vars PROVE Stable \/ UNCHANGED vars
    OBVIOUS
  <2>1. ASSUME NEW t \in TaskIds, StreamDelta(t) PROVE Stable
    BY <2>1 DEF StreamDelta
  <2>2. ASSUME NEW t \in TaskIds, FollowUpAnswer(t) PROVE Stable
    BY <2>2 DEF FollowUpAnswer
  <2>3. ASSUME NEW t \in TaskIds, Finalize(t) PROVE Stable
    BY <2>3 DEF Finalize
  <2>4. ASSUME NEW t \in TaskIds, SaveCancelled(t) PROVE Stable
    BY <2>4 DEF SaveCancelled
  <2>5. CASE UNCHANGED docVars
    BY <2>5
  <2>6. [Next]_vars => \/ UNCHANGED vars
                       \/ UNCHANGED docVars
                       \/ \E t \in TaskIds : \/ StreamDelta(t)
                                            \/ FollowUpAnswer(t)
                                            \/ Finalize(t)
                                            \/ SaveCancelled(t)
    BY DEF Next, HandlerStep, StopRequest, CreateTask, StartHandler, AppendBlock,
           StreamFails, StartBackground, EndBackground, BackgroundFails,
           CatchCancel, DieOfCancel, ReturnFromHandler, CleanupTask,
           StopTaskMissing, StopTaskLive, StopTaskEnded, StopTaskReturns
  <2> QED
    BY <2>1, <2>2, <2>3, <2>4, <2>5, <2>6
<1> QED
  BY <1>1, Inductive, PTL DEF Spec, FinalizedReplyStable

(* Once a stop was answered the task it named is over for good.            *)
THEOREM AnsweredStopIsFinal == Spec => NoWriteAfterStop
<1> DEFINE Over == \A t \in TaskIds : AnsweredStop(t) =>
       saved'[t] = saved[t] /\ done'[t] = done[t] /\ phase'[t] = phase[t]
<1>1. IInv /\ [Next]_vars => [Over]_vars
  <2> SUFFICES ASSUME IInv, [Next]_vars, NEW t \in TaskIds, AnsweredStop(t)
               PROVE  saved'[t] = saved[t] /\ done'[t] = done[t] /\ phase'[t] = phase[t]
    OBVIOUS
  <2>1. phase[t] \in Ended
    BY DEF IInv, AnswerInv, AnsweredStop
  <2> QED
    BY <2>1 DEF IInv, TypeOK, Next, HandlerStep, StopRequest, CreateTask,
           StartHandler, StreamDelta, AppendBlock, FollowUpAnswer, StreamFails,
           Finalize, StartBackground, EndBackground, BackgroundFails, CatchCancel,
           DieOfCancel, SaveCancelled, ReturnFromHandler, CleanupTask,
           StopTaskMissing, StopTaskLive, StopTaskEnded, StopTaskReturns, vars,
           regVars, docVars, RunsFrom, GoTo, EndTask, SaveText, SaveReply, Ended, Live, Guarded
<1> QED
  BY <1>1, Inductive, PTL DEF Spec, NoWriteAfterStop

(***************************************************************************)
(* Stopped replies.  Loss needs a second cancellation, delivered while the *)
(* first one is announced; every cancellation comes from a stop request    *)
(* of its own, so the task is then named by two of them.                   *)
(***************************************************************************)
Names(s, t) == stop[s].task = t /\ stop[s].answer # "not-found"
Named(t) == \E s \in Stoppers : Names(s, t)
NamedTwice(t) == \E s, r \in Stoppers : s # r /\ Names(s, t) /\ Names(r, t)

Whole == {"none", "created", "done-emit", "background", "response-background",
          "returned"}

KeptInv ==
  /\ \A s \in Stoppers : stop[s].pc = "idle" => stop[s].task = NoTask
  /\ \A t \in TaskIds :
       /\ phase[t] \in {"none", "created"} => streamed[t] = 0
       /\ phase[t] \in Whole => saved[t] = streamed[t]
       /\ cancelReq[t] \/ phase[t] = "cancel-emit" => Named(t)
       /\ cancelReq[t] /\ phase[t] = "cancel-emit" => NamedTwice(t)
       /\ phase[t] = "cancelled" => saved[t] = streamed[t] \/ NamedTwice(t)

(* A stop request goes on naming its task. *)
LEMMA NamesStay ==
  ASSUME IInv, KeptInv, [Next]_vars, NEW s \in Stoppers, NEW t \in TaskIds,
         Names(s, t)
  PROVE  Names(s, t)'
<1> USE SentinelAssumption DEF IInv, TypeOK, Names, AnswerInv, KeptInv
<1>1. stop[s].pc # "idle"
  OBVIOUS
<1>2. ASSUME NEW r \in Stoppers, StopTaskReturns(r) PROVE Names(s, t)'
  <2>1. AnswerFor(stop[r].task) # "not-found"
    BY <1>2 DEF StopTaskReturns, AnswerFor, Ended
  <2>2. stop' = [stop EXCEPT ![r] = [pc |-> "answered", task |-> stop[r].task,
                                     answer |-> AnswerFor(stop[r].task)]]
    BY <1>2 DEF StopTaskReturns
  <2> QED
    BY <2>1, <2>2
<1>3. ASSUME NEW r \in Stoppers, NEW u \in TaskIds, StopRequest(r, u)
      PROVE  Names(s, t)'
  BY <1>1, <1>3 DEF StopRequest, StopTaskMissing, StopTaskLive, StopTaskEnded
<1>4. CASE UNCHANGED stop
  BY <1>4
<1>5. \/ UNCHANGED stop
      \/ \E r \in Stoppers : StopTaskReturns(r) \/ \E u \in TaskIds : StopRequest(r, u)
  BY DEF Next, HandlerStep, CreateTask, StartHandler, StreamDelta, AppendBlock,
         FollowUpAnswer, StreamFails, Finalize, StartBackground, EndBackground,
         BackgroundFails, CatchCancel, DieOfCancel, SaveCancelled,
         ReturnFromHandler, CleanupTask, vars
<1> QED
  BY <1>2, <1>3, <1>4, <1>5

(* Every step keeps KeptInv, when the reply is saved at its end. *)
LEMMA KeptStep ==
  ASSUME ~RealtimeSave PROVE IInv /\ KeptInv /\ [Next]_vars => KeptInv'
<1> SUFFICES ASSUME IInv, KeptInv, [Next]_vars PROVE KeptInv'
  OBVIOUS
<1>a. \A t \in TaskIds : (Named(t) => Named(t)') /\ (NamedTwice(t) => NamedTwice(t)')
  BY NamesStay DEF Named, NamedTwice
<1> USE ChatTasksAssumption, SentinelAssumption, <1>a
    DEF IInv, TypeOK, KeptInv, Whole, RunsFrom, GoTo, EndTask, SaveText, SaveReply,
        regVars, docVars, Live, Guarded, Ended
<1>1. ASSUME NEW t \in TaskIds, NEW c \in Chats, CreateTask(t, c) PROVE KeptInv'
  BY <1>1 DEF CreateTask
<1>2. ASSUME NEW t \in TaskIds, StartHandler(t) PROVE KeptInv'
  BY <1>2 DEF StartHandler
<1>3. ASSUME NEW t \in TaskIds, StreamDelta(t) PROVE KeptInv'
  BY <1>3 DEF StreamDelta
<1>4. ASSUME NEW t \in TaskIds, AppendBlock(t) PROVE KeptInv'
  BY <1>4 DEF AppendBlock
<1>5. ASSUME NEW t \in TaskIds, FollowUpAnswer(t) PROVE KeptInv'
  BY <1>5 DEF FollowUpAnswer
<1>6. ASSUME NEW t \in TaskIds, StreamFails(t) PROVE KeptInv'
  BY <1>6 DEF StreamFails
<1>7. ASSUME NEW t \in TaskIds, Finalize(t) PROVE KeptInv'
  BY <1>7 DEF Finalize
<1>8. ASSUME NEW t \in TaskIds, StartBackground(t) PROVE KeptInv'
  BY <1>8 DEF StartBackground
<1>9. ASSUME NEW t \in TaskIds, EndBackground(t) PROVE KeptInv'
  BY <1>9 DEF EndBackground
<1>10. ASSUME NEW t \in TaskIds, BackgroundFails(t) PROVE KeptInv'
  BY <1>10 DEF BackgroundFails
<1>11. ASSUME NEW t \in TaskIds, CatchCancel(t) PROVE KeptInv'
  BY <1>11 DEF CatchCancel
<1>12. ASSUME NEW t \in TaskIds, DieOfCancel(t) PROVE KeptInv'
  BY <1>12 DEF DieOfCancel
<1>13. ASSUME NEW t \in TaskIds, SaveCancelled(t) PROVE KeptInv'
  BY <1>13 DEF SaveCancelled
<1>14. ASSUME NEW t \in TaskIds, ReturnFromHandler(t) PROVE KeptInv'
  BY <1>14 DEF ReturnFromHandler
<1>15. ASSUME NEW t \in TaskIds, CleanupTask(t) PROVE KeptInv'
  BY <1>15 DEF CleanupTask
<1>16. ASSUME NEW s \in Stoppers, NEW t \in TaskIds, StopTaskMissing(s, t) PROVE KeptInv'
  BY <1>16 DEF StopTaskMissing
<1>17. ASSUME NEW s \in Stoppers, NEW t \in TaskIds, StopTaskLive(s, t) PROVE KeptInv'
  <2>1. Names(s, t)'
    BY <1>17 DEF StopTaskLive, Names
  <2>2. Named(t)'
    BY <2>1 DEF Named
  <2>3. ASSUME phase[t] = "cancel-emit" PROVE NamedTwice(t)'
    <3>1. PICK r \in Stoppers : Names(r, t)
      BY <2>3 DEF Named
    <3>2. r # s
      BY <1>17, <3>1 DEF StopTaskLive, Names
    <3>3. Names(r, t)'
      BY <3>1, NamesStay
    <3> QED
      BY <2>1, <3>2, <3>3 DEF NamedTwice
  <2> QED
    BY <1>17, <2>2, <2>3 DEF StopTaskLive
<1>18. ASSUME NEW s \in Stoppers, NEW t \in TaskIds, StopTaskEnded(s, t) PROVE KeptInv'
  BY <1>18 DEF StopTaskEnded
<1>19. ASSUME NEW s \in Stoppers, StopTaskReturns(s) PROVE KeptInv'
  BY <1>19 DEF StopTaskReturns
<1>20. CASE UNCHANGED vars
  BY <1>20 DEF vars, Named, NamedTwice, Names
<1> QED
  BY <1>1, <1>2, <1>3, <1>4, <1>5, <1>6, <1>7, <1>8, <1>9, <1>10, <1>11, <1>12, <1>13, <1>14,
     <1>15, <1>16, <1>17, <1>18, <1>19, <1>20
  DEF Next, HandlerStep, StopRequest

(* A reply whose task ran to its end, or that one request stopped, keeps   *)
(* all its text in the chat document.                                      *)
THEOREM StoppedRepliesAreKept ==
  ASSUME ~RealtimeSave PROVE Spec => []StoppedReplyKept
<1>1. Init => KeptInv
  BY DEF Init, KeptInv
<1>2. IInv /\ KeptInv => StoppedReplyKept
  <2> SUFFICES ASSUME IInv, KeptInv, NEW t \in TaskIds, phase[t] = "cancelled",
                      Cardinality(StopsOf(t)) <= 1
               PROVE  saved[t] = streamed[t]
    BY DEF StoppedReplyKept, KeptInv, Whole
  <2>1. ~NamedTwice(t)
    <3> SUFFICES ASSUME NEW s \in Stoppers, NEW r \in Stoppers, s # r,
                        Names(s, t), Names(r, t)
                 PROVE  FALSE
      BY DEF NamedTwice
    <3>1. s \in StopsOf(t) /\ r \in StopsOf(t)
      BY DEF Names, StopsOf
    <3>2. IsFiniteSet(StopsOf(t))
      BY FiniteStoppersAssumption, FS_Subset DEF StopsOf
    <3>3. Cardinality(StopsOf(t)) \in {0, 1}
      BY <3>2, FS_CardinalityType
    <3>4. StopsOf(t) = {} \/ \E x : StopsOf(t) = {x}
      BY <3>2, <3>3, FS_EmptySet, FS_Singleton
    <3> QED
      BY <3>1, <3>4
  <2> QED
    BY <2>1 DEF KeptInv
<1>3. IInv /\ KeptInv /\ [Next]_vars => KeptInv'
  BY KeptStep
<1> QED
  BY <1>1, <1>2, <1>3, Inductive, PTL DEF Spec

(***************************************************************************)
(* The listing of generating replies keeps the promise of ReplyPage.       *)
(***************************************************************************)

(* A finalized reply is not listed, and a task that began has a chat.      *)
ListInv ==
  \A t \in TaskIds :
    /\ done[t] => taskMeta[t] # "blocking"
    /\ phase[t] # "none" => chatOf[t] \in Chats

LEMMA ListStep == IInv /\ ListInv /\ [Next]_vars => ListInv'
<1> SUFFICES ASSUME IInv, ListInv, [Next]_vars PROVE ListInv'
  OBVIOUS
<1> USE DEF IInv, TypeOK, ListInv, RunsFrom, GoTo, EndTask, regVars, docVars
<1>1. ASSUME NEW t \in TaskIds, NEW c \in Chats, CreateTask(t, c) PROVE ListInv'
  BY <1>1 DEF CreateTask, ReplyInv
<1>2. ASSUME NEW t \in TaskIds, Finalize(t) PROVE ListInv'
  BY <1>2 DEF Finalize, RegistryInv, Registered, Live, Ended
<1>3. ASSUME NEW t \in TaskIds, HandlerStep(t), ~Finalize(t) PROVE ListInv'
  <2>1. phase[t] # "none" /\ UNCHANGED <<done, taskMeta, chatOf>>
    BY <1>3 DEF HandlerStep, StartHandler, StreamDelta, AppendBlock, FollowUpAnswer,
           StreamFails, StartBackground, EndBackground, BackgroundFails,
           CatchCancel, DieOfCancel, SaveCancelled, ReturnFromHandler, Guarded, Live
  <2>2. \A u \in TaskIds : u = t \/ phase'[u] = phase[u]
    BY <1>3 DEF HandlerStep, StartHandler, StreamDelta, AppendBlock, FollowUpAnswer,
           StreamFails, StartBackground, EndBackground, BackgroundFails,
           CatchCancel, DieOfCancel, SaveCancelled, ReturnFromHandler
  <2> QED
    BY <2>1, <2>2
<1>4. ASSUME NEW t \in TaskIds, CleanupTask(t) PROVE ListInv'
  BY <1>4 DEF CleanupTask
<1>5. ASSUME NEW s \in Stoppers, NEW t \in TaskIds, StopRequest(s, t) PROVE ListInv'
  BY <1>5 DEF StopRequest, StopTaskMissing, StopTaskLive, StopTaskEnded
<1>6. ASSUME NEW s \in Stoppers, StopTaskReturns(s) PROVE ListInv'
  BY <1>6 DEF StopTaskReturns
<1>7. CASE UNCHANGED vars
  BY <1>7 DEF vars
<1> QED
  BY <1>1, <1>2, <1>3, <1>4, <1>5, <1>6, <1>7 DEF Next

(* What is listed, over all chats: the tasks with blocking metadata. *)
LEMMA ListedAreBlocking ==
  IInv /\ ListInv => Generating = {t \in TaskIds : taskMeta[t] = "blocking"}
<1> SUFFICES ASSUME IInv, ListInv
             PROVE  Generating = {t \in TaskIds : taskMeta[t] = "blocking"}
  OBVIOUS
<1> USE DEF IInv, TypeOK, RegistryInv, ListBlocking
<1>1. ASSUME NEW t \in Generating PROVE t \in TaskIds /\ taskMeta[t] = "blocking"
  <2>1. PICK c \in Chats : t \in ListBlocking(c)
    BY <1>1 DEF Generating
  <2> QED
    BY <2>1
<1>2. ASSUME NEW t \in TaskIds, taskMeta[t] = "blocking" PROVE t \in Generating
  <2>1. Registered(t) /\ phase[t] # "none"
    BY <1>2 DEF Registered, Live, Ended
  <2>2. chatOf[t] \in Chats
    BY <2>1 DEF ListInv
  <2>3. t \in ListBlocking(chatOf[t])
    BY <1>2, <2>1, <2>2
  <2> QED
    BY <2>2, <2>3 DEF Generating
<1> QED
  BY <1>1, <1>2

LEMMA ListedNext ==
  (IInv /\ ListInv => Generating = {t \in TaskIds : taskMeta[t] = "blocking"})'
BY ListedAreBlocking, PTL

(* A step that keeps the metadata, the texts and the documents, and begins *)
(* no reply, is none of the page's.                                        *)
LEMMA PageStutters ==
  ASSUME IInv, ListInv, IInv', ListInv',
         UNCHANGED <<taskMeta, streamed, saved, done>>,
         \A t \in TaskIds : phase'[t] = "none" <=> phase[t] = "none"
  PROVE  UNCHANGED Page!vars
<1>1. Generating' = Generating
  BY ListedAreBlocking, ListedNext
<1>2. Known' = Known
  BY DEF Known
<1> QED
  BY <1>1, <1>2 DEF Page!vars

(* Every step of the program is a step of the page's contract, or none.    *)
LEMMA PageStep ==
  ASSUME ~RealtimeSave, IInv, ListInv, IInv', ListInv', [Next]_vars
  PROVE  [Page!Next]_(Page!vars)
<1> DEFINE Lit == {t \in TaskIds : taskMeta[t] = "blocking"}
<1>a. Generating = Lit /\ Generating' = Lit'
  BY ListedAreBlocking, ListedNext
<1> HIDE DEF Lit
<1> USE DEF IInv, TypeOK, RunsFrom, GoTo, EndTask, SaveReply, SaveText, regVars, docVars
<1>1. ASSUME NEW t \in TaskIds, NEW c \in Chats, CreateTask(t, c) PROVE Page!Begin(t)
  <2>1. t \notin Known /\ Known' = Known \union {t}
    BY <1>1 DEF CreateTask, Known
  <2>2. Lit' = Lit \union {t}
    BY <1>1 DEF CreateTask, Lit
  <2> QED
    BY <1>1, <1>a, <2>1, <2>2 DEF CreateTask, Page!Begin
<1>2. ASSUME NEW t \in TaskIds, StreamDelta(t) \/ AppendBlock(t) \/ FollowUpAnswer(t)
      PROVE  Page!Write(t)
  <2>1. /\ phase[t] = "streaming" /\ UNCHANGED <<phase, taskMeta, done>>
        /\ streamed' = [streamed EXCEPT ![t] = @ + 1]
        /\ saved' \in {saved, [saved EXCEPT ![t] = streamed'[t]]}
    BY <1>2 DEF StreamDelta, AppendBlock, FollowUpAnswer
  <2>2. taskMeta[t] = "blocking"
    BY <2>1 DEF RegistryInv, ReplyInv, Registered, Live
  <2>3. t \in Generating /\ Generating' = Generating /\ Known' = Known
    BY <1>a, <2>1, <2>2 DEF Lit, Known
  <2> QED
    BY <2>1, <2>3 DEF Page!Write
<1>3. ASSUME NEW t \in TaskIds, Finalize(t) PROVE Page!Settle(t)
  <2>1. taskMeta[t] = "blocking" /\ t \in tasks
    BY <1>3 DEF Finalize, RegistryInv, ReplyInv, Registered, Live
  <2>2. Lit' = Lit \ {t} /\ Known' = Known
    BY <1>3, <2>1 DEF Finalize, Lit, Known
  <2>3. t \in Lit
    BY <2>1 DEF Lit
  <2> QED
    BY <1>3, <1>a, <2>2, <2>3 DEF Finalize, Page!Settle
<1>4. ASSUME NEW t \in TaskIds, CleanupTask(t) PROVE [Page!Next]_(Page!vars)
  <2>1. Lit' = Lit \ {t} /\ Known' = Known
    BY <1>4 DEF CleanupTask, Lit, Known
  <2>2. CASE t \in Lit
    <3>1. ~done[t]
      BY <2>2 DEF Lit, ListInv
    <3>2. Page!Drop(t)
      BY <1>4, <1>a, <2>1, <2>2, <3>1 DEF CleanupTask, Page!Drop
    <3> QED
      BY <3>2 DEF Page!Next
  <2>3. CASE t \notin Lit
    <3>1. Lit' = Lit
      BY <2>1, <2>3
    <3> QED
      BY <1>4, <1>a, <2>1, <3>1 DEF CleanupTask, Page!vars
  <2> QED
    BY <2>2, <2>3
<1>5. ASSUME NEW t \in TaskIds, SaveCancelled(t) PROVE [Page!Next]_(Page!vars)
  <2>1. /\ phase[t] = "cancel-emit" /\ UNCHANGED <<taskMeta, streamed, done>>
        /\ saved' = [saved EXCEPT ![t] = streamed[t]]
        /\ Known' = Known
    BY <1>5 DEF SaveCancelled, Known
  <2>2. Generating' = Generating
    BY <1>a, <2>1 DEF Lit
  <2>3. CASE done[t]
    <3>1. saved' = saved
      BY <2>1, <2>3 DEF ReplyInv
    <3> QED
      BY <2>1, <2>2, <3>1 DEF Page!vars
  <2>4. CASE ~done[t]
    <3>1. t \in Lit
      BY <2>1, <2>4 DEF Lit, RegistryInv, ReplyInv, Registered, Live
    <3>2. streamed' = [streamed EXCEPT ![t] = @ + 0]
      BY <2>1
    <3>3. Page!Write(t)
      BY <1>a, <2>1, <2>2, <3>1, <3>2 DEF Page!Write
    <3> QED
      BY <3>3 DEF Page!Next
  <2> QED
    BY <2>3, <2>4
<1>6. ASSUME NEW t \in TaskIds,
             \/ StartHandler(t) \/ StreamFails(t) \/ StartBackground(t)
             \/ EndBackground(t) \/ BackgroundFails(t) \/ CatchCancel(t)
             \/ DieOfCancel(t) \/ ReturnFromHandler(t)
      PROVE  UNCHANGED Page!vars
  <2>1. UNCHANGED <<taskMeta, streamed, saved, done>>
    BY <1>6 DEF StartHandler, StreamFails, StartBackground, EndBackground,
           BackgroundFails, CatchCancel, DieOfCancel, ReturnFromHandler
  <2>2. \A u \in TaskIds : phase'[u] = "none" <=> phase[u] = "none"
    BY <1>6 DEF StartHandler, StreamFails, StartBackground, EndBackground,
           BackgroundFails, CatchCancel, DieOfCancel, ReturnFromHandler, Guarded, Live
  <2> QED
    BY <2>1, <2>2, PageStutters
<1>7. ASSUME \/ \E s \in Stoppers, t \in TaskIds : StopRequest(s, t)
             \/ \E s \in Stoppers : StopTaskReturns(s)
             \/ UNCHANGED vars
      PROVE  UNCHANGED Page!vars
  <2>1. UNCHANGED <<taskMeta, streamed, saved, done, phase>>
    BY <1>7 DEF StopRequest, StopTaskMissing, StopTaskLive, StopTaskEnded,
           StopTaskReturns, vars
  <2> QED
    BY <2>1, PageStutters
<1> QED
  BY <1>1, <1>2, <1>3, <1>4, <1>5, <1>6, <1>7 DEF Next, HandlerStep, Page!Next

(* What the listing of generating replies tells a page about the chat      *)
(* document is true: the program implements ReplyPage.                     *)
THEOREM ListingIsTruthful ==
  ASSUME ~RealtimeSave PROVE Spec => ListingTells
<1>1. Init => ListInv /\ Page!Init
  BY DEF Init, ListInv, Page!Init, Generating, ListBlocking, Known
<1>2. IInv /\ ListInv /\ [Next]_vars => ListInv'
  BY ListStep
<1>3. IInv /\ ListInv /\ IInv' /\ ListInv' /\ [Next]_vars
        => [Page!Next]_(Page!vars)
  BY PageStep
<1> QED
  BY <1>1, <1>2, <1>3, Inductive, PTL DEF Spec, ListingTells, Page!Spec

=============================================================================
