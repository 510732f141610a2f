-------------------------- MODULE ToolRoundsProofs --------------------------
(***************************************************************************)
(* Theorems about ToolRounds, for every set of calls a model may ask for,  *)
(* every limit of the governor, and any number of rounds.                  *)
(***************************************************************************)
EXTENDS ToolRounds, FiniteSetTheorems, SequenceTheorems, TLAPS

(* The head of the loop is reached only with a batch and a round left.     *)
RoundReady == pc = "round" => queue # <<>> /\ rounds < MaxRounds

(* What has come back is what the calls that are done returned.            *)
ArrivedInv == Ended = {i \in DOMAIN batch : stage[i] = "done"}

TypeInv == TypeOK /\ RoundReady /\ ArrivedInv

-----------------------------------------------------------------------------
(* Batches and blocks *)

LEMMA BatchType ==
  ASSUME NEW b \in Batches
  PROVE  /\ b \in Seq(Calls) /\ b # <<>>
         /\ Len(b) \in 0..MaxBatch
         /\ DOMAIN b = 1..Len(b)
         /\ \A i \in DOMAIN b : b[i] \in Calls
<1> USE ToolRoundsAssumption
<1>1. PICK n \in 1..MaxBatch : b \in [1..n -> Calls]
  BY DEF Batches
<1>2. n \in Nat /\ n >= 1
  BY <1>1
<1>3. b \in Seq(Calls) /\ Len(b) = n /\ DOMAIN b = 1..n
  BY <1>1, <1>2
<1> QED
  BY <1>1, <1>2, <1>3

LEMMA TextType == ASSUME NEW s \in SUBSET Pieces PROVE Text(s) \in Block
  BY ToolRoundsAssumption DEF Text, Block

LEMMA ReplaceLastType ==
  ASSUME NEW bs \in Seq(Block), NEW b \in Block
  PROVE  ReplaceLast(bs, b) \in Seq(Block)
<1>1. \A k \in DOMAIN bs : bs[k] \in Block
  OBVIOUS
<1>2. DOMAIN ReplaceLast(bs, b) = 1..Len(bs) /\ Len(bs) \in Nat
  BY DEF ReplaceLast
<1>3. ReplaceLast(bs, b) \in [1..Len(bs) -> Block]
  BY <1>1, <1>2 DEF ReplaceLast
<1> QED
  BY <1>2, <1>3

LEMMA AddTextType ==
  ASSUME NEW bs \in Seq(Block), NEW p \in Pieces
  PROVE  AddText(bs, p) \in Seq(Block)
<1>1. CASE bs # <<>> /\ LastBlock(bs).type = "text"
  <2>1. LastBlock(bs) \in Block
    BY <1>1 DEF LastBlock
  <2>2. LastBlock(bs).pieces \union {p} \in SUBSET Pieces
    BY <2>1 DEF Block
  <2> QED
    BY <1>1, <2>2, TextType, ReplaceLastType DEF AddText
<1>2. CASE ~(bs # <<>> /\ LastBlock(bs).type = "text")
  <2>1. Text({p}) \in Block
    BY TextType
  <2> QED
    BY <1>2, <2>1 DEF AddText
<1> QED
  BY <1>1, <1>2

LEMMA CleanUpType ==
  ASSUME NEW bs \in Seq(Block)
  PROVE  CleanUp(bs) \in Seq(Block)
<1>1. Len(bs) > 1 => Front(bs) \in Seq(Block)
  <2>1. SUFFICES ASSUME Len(bs) > 1 PROVE Front(bs) \in Seq(Block)
    OBVIOUS
  <2>2. Len(bs) \in Nat /\ \A i \in 1..(Len(bs) - 1) : bs[i] \in Block
    OBVIOUS
  <2> QED
    BY <2>2, SubSeqProperties DEF Front
<1> QED
  BY <1>1 DEF CleanUp

-----------------------------------------------------------------------------
(* Type correctness *)

LEMMA InitType == Init => TypeInv
<1> USE ToolRoundsAssumption
<1> SUFFICES ASSUME Init PROVE TypeInv
  OBVIOUS
<1>1. blocks \in Seq(Block)
  <2>1. Text({}) \in Block
    BY TextType
  <2> QED
    BY <2>1 DEF Init
<1>2. stage \in [DOMAIN batch -> Stages]
  BY DEF Init
<1>3. arrived \in Seq(Result) /\ ArrivedInv
  BY DEF Init, ArrivedInv, Ended
<1>4. queue \in Seq(Batches) /\ batch = <<>>
  BY DEF Init
<1>5. perTool \in [Tools -> Nat] /\ pressure \in Pressure
  BY DEF Init, Pressure
<1>6. RoundReady
  BY DEF Init, RoundReady
<1>7. /\ pc = "stream" /\ turn \in Turns /\ rounds \in 0..MaxRounds
      /\ seen \subseteq Calls /\ ran \subseteq Calls
      /\ topics \subseteq {c.group : c \in Calls}
      /\ blocked \subseteq {c.group : c \in Calls}
      /\ total = 0 /\ fetches = 0 /\ lowGain = 0 /\ noText = 0
      /\ forceFinal = FALSE /\ fellBack = FALSE /\ error = "none"
  BY DEF Init, Turns
<1> QED
  BY <1>1, <1>2, <1>3, <1>4, <1>5, <1>6, <1>7 DEF TypeInv, TypeOK

(* Leaving a turn sets the program counter, the turn and the error; the    *)
(* loop goes on only with a batch and a round left.                        *)
TurnLeft ==
  /\ pc' \in {"stream", "round", "finalize", "crashed"}
  /\ turn' \in Turns
  /\ error' \in {"none", "tool_no_output", "empty_response"}
  /\ pc' = "round" => queue' # <<>> /\ rounds < MaxRounds

LEMMA LeavingTurns ==
  ASSUME TypeInv, NEW bs
  PROVE  /\ LeaveLoop(bs) => TurnLeft
         /\ LeaveRetry(bs) => TurnLeft
         /\ LoopHead(bs, queue') => TurnLeft
         /\ AfterTurn(bs, queue') => TurnLeft
<1>1. LeaveLoop(bs) => TurnLeft
  BY DEF LeaveLoop, TurnLeft, TypeInv, TypeOK, Turns
<1>2. LeaveRetry(bs) => TurnLeft
  BY DEF LeaveRetry, TurnLeft, TypeInv, TypeOK, Turns
<1>3. LoopHead(bs, queue') => TurnLeft
  BY <1>1 DEF LoopHead, TurnLeft, TypeInv, TypeOK, Turns
<1>4. AfterTurn(bs, queue') => TurnLeft
  BY <1>1, <1>2, <1>3 DEF AfterTurn, TypeInv, TypeOK, Turns
<1> QED
  BY <1>1, <1>2, <1>3, <1>4

(* A step that ends a model turn. *)
LEMMA TurnStep ==
  ASSUME TypeInv, TurnLeft, blocks' \in Seq(Block), queue' \in Seq(Batches),
         UNCHANGED <<rounds, roundVars, governorVars, adaptiveVars, fellBack>>
  PROVE  TypeInv'
<1>1. RoundReady'
  BY DEF TurnLeft, RoundReady
<1>2. TypeOK'
  BY DEF TypeInv, TypeOK, TurnLeft, roundVars, governorVars, adaptiveVars
<1>3. ArrivedInv'
  BY DEF TypeInv, ArrivedInv, Ended, roundVars
<1> QED
  BY <1>1, <1>2, <1>3 DEF TypeInv

(* A step that only advances the tool call at position i, or ends it. *)
Verdicts == {"ok", "poor", "blocked", "skipped", "not-found"}
GovernorTyped ==
  /\ seen \subseteq Calls /\ ran \subseteq Calls
  /\ topics \subseteq {c.group : c \in Calls}
  /\ blocked \subseteq {c.group : c \in Calls}
  /\ total \in Nat /\ fetches \in Nat
  /\ perTool \in [Tools -> Nat]

LEMMA RoundAdvances ==
  ASSUME TypeInv, pc = "execute", GovernorTyped',
         stage' \in [DOMAIN batch -> Stages], arrived' \in Seq(Result), ArrivedInv',
         UNCHANGED <<pc, turn, rounds, queue, blocks, batch, adaptiveVars, fellBack, error>>
  PROVE  TypeInv'
<1>1. RoundReady'
  BY DEF TypeInv, RoundReady
<1>2. TypeOK'
  BY DEF TypeInv, TypeOK, GovernorTyped, adaptiveVars
<1> QED
  BY <1>1, <1>2 DEF TypeInv

LEMMA CallAdvances ==
  ASSUME TypeInv, pc = "execute", NEW i \in DOMAIN batch, stage[i] # "done",
         NEW s \in Stages \ {"done"}, Becomes(i, s), GovernorTyped',
         UNCHANGED <<pc, turn, rounds, queue, blocks, batch, adaptiveVars, fellBack, error>>
  PROVE  TypeInv'
<1>1. stage' \in [DOMAIN batch -> Stages] /\ arrived' \in Seq(Result)
  BY DEF TypeInv, TypeOK, Becomes
<1>2. ArrivedInv'
  BY DEF TypeInv, TypeOK, ArrivedInv, Ended, Becomes
<1> QED
  BY <1>1, <1>2, RoundAdvances

LEMMA CallReturns ==
  ASSUME TypeInv, pc = "execute", NEW i \in DOMAIN batch,
         NEW v \in Verdicts, Returns(i, v), GovernorTyped',
         UNCHANGED <<pc, turn, rounds, queue, blocks, batch, adaptiveVars, fellBack, error>>
  PROVE  TypeInv'
<1> DEFINE r == [index |-> i, verdict |-> v]
<1>1. stage' \in [DOMAIN batch -> Stages]
  BY DEF TypeInv, TypeOK, Returns, Stages
<1>2. i \in Nat
  <2>1. batch \in Batches
    BY DEF TypeInv, TypeOK
  <2> QED
    BY <2>1, BatchType
<1>3. r \in Result /\ arrived \in Seq(Result) /\ arrived' = Append(arrived, r)
  BY <1>2 DEF Result, Verdicts, Returns, TypeInv, TypeOK
<1>4. arrived' \in Seq(Result)
  BY <1>3
<1>5. Ended' = Ended \union {i}
  <2>1. /\ DOMAIN arrived' = DOMAIN arrived \union {Len(arrived) + 1}
        /\ \A k \in DOMAIN arrived : arrived'[k] = arrived[k]
        /\ arrived'[Len(arrived) + 1] = r
    BY <1>3
  <2>2. r.index = i
    OBVIOUS
  <2> QED
    BY <2>1, <2>2 DEF Ended
<1>6. ArrivedInv'
  BY <1>5 DEF TypeInv, TypeOK, ArrivedInv, Returns
<1> QED
  BY <1>1, <1>4, <1>6, RoundAdvances

LEMMA CallOf ==
  ASSUME TypeInv, NEW i \in DOMAIN batch
  PROVE  batch[i] \in Calls
<1>1. batch \in Batches
  BY DEF TypeInv, TypeOK
<1> QED
  BY <1>1, BatchType

LEMMA PlaceOf ==
  ASSUME TypeInv, NEW i \in DOMAIN batch
  PROVE  i \in 1..MaxBatch
<1>1. batch \in Batches
  BY DEF TypeInv, TypeOK
<1>2. Len(batch) \in 0..MaxBatch /\ i \in 1..Len(batch)
  BY <1>1, BatchType
<1> QED
  BY <1>2, ToolRoundsAssumption

LEMMA AdmitTyped ==
  ASSUME TypeInv, pc = "execute", NEW i \in DOMAIN batch, stage[i] # "done", Admit(i),
         topics' \subseteq {c.group : c \in Calls},
         UNCHANGED <<pc, turn, rounds, queue, blocks, batch, adaptiveVars, fellBack, error>>
  PROVE  TypeInv'
<1>1. batch[i] \in Calls
  BY CallOf
<1>2. batch[i].tool \in Tools
  BY <1>1 DEF Tools
<1>3. GovernorTyped'
  BY <1>1, <1>2 DEF Admit, GovernorTyped, TypeInv, TypeOK
<1>4. CASE Allowed(batch[i])
  <2>1. Becomes(i, "running")
    BY <1>4 DEF Admit
  <2> QED
    BY <2>1, <1>3, CallAdvances DEF Stages
<1>5. CASE ~Allowed(batch[i])
  <2>1. Becomes(i, "skip-locked")
    BY <1>5 DEF Admit
  <2> QED
    BY <2>1, <1>3, CallAdvances DEF Stages
<1> QED
  BY <1>4, <1>5

LEMMA CallStepType ==
  ASSUME TypeInv, NEW i \in DOMAIN batch, CallStep(i)
  PROVE  TypeInv'
<1>1. batch[i] \in Calls
  BY CallOf
<1>2. CASE StartCall(i)
  <2>1. topics' \subseteq {c.group : c \in Calls}
    BY <1>1, <1>2 DEF StartCall, TypeInv, TypeOK
  <2>2. CASE Locked \/ Queued
    <3>1. GovernorTyped'
      BY <1>2, <2>1, <2>2 DEF StartCall, GovernorTyped, TypeInv, TypeOK
    <3>2. Becomes(i, "lock")
      BY <1>2, <2>2 DEF StartCall
    <3> QED
      BY <1>2, <3>1, <3>2, CallAdvances DEF StartCall, MayStart, Stages
  <2>3. CASE ~(Locked \/ Queued)
    BY <1>2, <2>1, <2>3, AdmitTyped DEF StartCall, MayStart
  <2> QED
    BY <2>2, <2>3
<1>3. CASE StartRedundant(i)
  <2>1. GovernorTyped'
    BY <1>3 DEF StartRedundant, GovernorTyped, TypeInv, TypeOK, governorVars
  <2> QED
    BY <1>3, <2>1, CallAdvances DEF StartRedundant, MayStart, Stages
<1>4. CASE StartUnknown(i)
  <2>1. GovernorTyped'
    BY <1>4 DEF StartUnknown, GovernorTyped, TypeInv, TypeOK, governorVars
  <2> QED
    BY <1>4, <2>1, CallReturns DEF StartUnknown, Verdicts
<1>5. CASE GetLock(i)
  <2>1. topics' \subseteq {c.group : c \in Calls}
    BY <1>5 DEF GetLock, TypeInv, TypeOK
  <2> QED
    BY <1>5, <2>1, AdmitTyped DEF GetLock
<1>6. CASE SkipAnnounced(i)
  <2>1. GovernorTyped'
    BY <1>6 DEF SkipAnnounced, GovernorTyped, TypeInv, TypeOK, governorVars
  <2> QED
    BY <1>6, <2>1, CallReturns DEF SkipAnnounced, Verdicts
<1>7. ASSUME NEW v \in {"ok", "poor", "blocked"}, ToolReturns(i, v)
      PROVE  TypeInv'
  <2>1. GovernorTyped'
    BY <1>1, <1>7 DEF ToolReturns, GovernorTyped, TypeInv, TypeOK
  <2>2. CASE v = "blocked" /\ (Locked \/ Queued)
    <3>1. Becomes(i, "marking")
      BY <1>7, <2>2 DEF ToolReturns
    <3> QED
      BY <1>7, <2>1, <3>1, CallAdvances DEF ToolReturns, Stages
  <2>3. CASE ~(v = "blocked" /\ (Locked \/ Queued))
    <3>1. Returns(i, v)
      BY <1>7, <2>3 DEF ToolReturns
    <3> QED
      BY <1>7, <2>1, <3>1, CallReturns DEF ToolReturns, Verdicts
  <2> QED
    BY <2>2, <2>3
<1>8. CASE MarkBlocked(i)
  <2>1. GovernorTyped'
    BY <1>1, <1>8 DEF MarkBlocked, GovernorTyped, TypeInv, TypeOK
  <2> QED
    BY <1>8, <2>1, CallReturns DEF MarkBlocked, Verdicts
<1> QED
  BY <1>2, <1>3, <1>4, <1>5, <1>6, <1>7, <1>8 DEF CallStep

LEMMA AddDeltaType ==
  ASSUME NEW bs \in Seq(Block)
  PROVE  AddDelta(bs) \in Seq(Block)
<1>1. CASE bs # <<>> /\ LastBlock(bs).type = "tool_calls"
  <2>1. LastBlock(bs) \in Block
    BY <1>1 DEF LastBlock
  <2>2. [LastBlock(bs) EXCEPT !.pieces = {"answer"}] \in Block
    BY <2>1 DEF Block, Pieces
  <2> QED
    BY <1>1, <2>2 DEF AddDelta, ReplaceLast
<1>2. CASE ~(bs # <<>> /\ LastBlock(bs).type = "tool_calls")
  BY <1>2, AddTextType DEF AddDelta, Pieces
<1> QED
  BY <1>1, <1>2

(* The steps of model turns. *)
LEMMA StreamStepType ==
  ASSUME TypeInv, TextDelta \/ ReasoningDelta \/ TurnEnds
  PROVE  TypeInv'
<1>1. blocks \in Seq(Block) /\ queue \in Seq(Batches)
  BY DEF TypeInv, TypeOK
<1>2. "answer" \in Pieces /\ Text({"error"}) \in Block /\ Reasoning \in Block
  BY ToolRoundsAssumption, TextType DEF Pieces, Reasoning, Block
<1>3. CASE TextDelta
  <2>1. blocks' \in Seq(Block)
    BY <1>1, <1>2, <1>3, AddDeltaType DEF TextDelta
  <2> QED
    BY <1>3, <2>1 DEF TextDelta, TypeInv, TypeOK, RoundReady, ArrivedInv, Ended, roundVars,
       governorVars, adaptiveVars
<1>4. CASE ReasoningDelta
  <2>1. blocks' \in Seq(Block)
    BY <1>1, <1>2, <1>4 DEF ReasoningDelta
  <2> QED
    BY <1>4, <2>1 DEF ReasoningDelta, TypeInv, TypeOK, RoundReady, ArrivedInv, Ended, roundVars,
     governorVars, adaptiveVars
<1>5. ASSUME NEW b \in Batches \union {<<>>}, StreamEnds(b) PROVE TypeInv'
  <2>1. blocks' \in Seq(Block)
    BY <1>1, <1>5, CleanUpType DEF StreamEnds
  <2>2. queue' \in Seq(Batches)
    BY <1>1, <1>5 DEF StreamEnds
  <2>3. TurnLeft
    BY <1>5, LeavingTurns DEF StreamEnds
  <2> QED
    BY <1>5, <2>1, <2>2, <2>3, TurnStep DEF StreamEnds
<1>6. ASSUME NEW b \in Batches \union {<<>>}, NEW text \in BOOLEAN, AnswersOnce(b, text)
      PROVE  TypeInv'
  <2>1. blocks' \in Seq(Block)
    BY <1>1, <1>2, <1>6, AddTextType DEF AnswersOnce
  <2>2. queue' \in Seq(Batches)
    BY <1>1, <1>6 DEF AnswersOnce
  <2>3. TurnLeft
    BY <1>6, LeavingTurns DEF AnswersOnce
  <2> QED
    BY <1>6, <2>1, <2>2, <2>3, TurnStep DEF AnswersOnce
<1>7. CASE FirstTurnFails
  BY <1>7 DEF FirstTurnFails, TypeInv, TypeOK, RoundReady, ArrivedInv, Ended, roundVars,
     governorVars, adaptiveVars
<1>8. CASE FollowUpFails
  <2>1. blocks' \in Seq(Block)
    BY <1>1, <1>2, <1>8, ReplaceLastType DEF FollowUpFails
  <2>2. TurnLeft
    BY <1>8, LeavingTurns DEF FollowUpFails
  <2> QED
    BY <1>1, <1>8, <2>1, <2>2, TurnStep DEF FollowUpFails
<1>9. CASE GuardedTurnFails
  <2>1. blocks' \in Seq(Block)
    BY <1>1, <1>2, <1>9 DEF GuardedTurnFails
  <2>2. TurnLeft
    BY <1>9, LeavingTurns DEF GuardedTurnFails
  <2> QED
    BY <1>1, <1>9, <2>1, <2>2, TurnStep DEF GuardedTurnFails
<1> QED
  BY <1>3, <1>4, <1>5, <1>6, <1>7, <1>8, <1>9 DEF TurnEnds

(* The steps of rounds. *)
LEMMA ToolBlockType ==
  ASSUME NEW b \in Batches \union {<<>>}
  PROVE  ToolBlock(Len(b), [i \in DOMAIN b |-> i]) \in Block /\ ToolBlock(Len(b), <<>>) \in Block
<1>1. Len(b) \in 0..MaxBatch /\ DOMAIN b = 1..Len(b)
  BY ToolRoundsAssumption, BatchType
<1>2. [i \in DOMAIN b |-> i] \in Seq(Nat)
  BY <1>1
<1> QED
  BY <1>1, <1>2 DEF ToolBlock, Block

LEMMA UpTo == ASSUME NEW n \in Nat PROVE Cardinality(1..n) = n
<1>1. 1 \in Int /\ n \in Int
  OBVIOUS
<1>2. Cardinality(1..n) = IF 1 > n THEN 0 ELSE n - 1 + 1
  BY <1>1, FS_Interval, Zenon
<1> QED
  BY <1>2

(* Once every call is done, the results are read in the order of the       *)
(* calls: the k-th of them is the one of call k.                           *)
LEMMA ExecutedInOrder ==
  ASSUME TypeInv, \A i \in DOMAIN batch : stage[i] = "done"
  PROVE  /\ DOMAIN Executed = 1..Len(batch)
         /\ \A k \in 1..Len(batch) : Executed[k].index = k
<1>1. batch \in Batches \union {<<>>} /\ arrived \in Seq(Result)
  BY DEF TypeInv, TypeOK
<1>2. Len(batch) \in Nat /\ Ended = 1..Len(batch)
  BY <1>1, BatchType DEF TypeInv, ArrivedInv
<1>3. Cardinality(Ended) = Len(batch)
  BY <1>2, UpTo
<1>4. ASSUME NEW k \in Ended PROVE Cardinality({j \in Ended : j <= k}) = k
  <2>1. {j \in Ended : j <= k} = 1..k
    BY <1>2, <1>4
  <2>2. k \in Nat
    BY <1>2, <1>4
  <2> QED
    BY <2>1, <2>2, UpTo
<1>5. ASSUME NEW k \in 1..Len(batch) PROVE Executed[k].index = k
  <2>1. (CHOOSE i \in Ended : Cardinality({j \in Ended : j <= i}) = k) = k
    BY <1>2, <1>4, <1>5
  <2>2. Executed[k] = ExecutedByIndex[k]
    BY <1>3, <1>5, <2>1 DEF Executed
  <2>3. \E r \in {arrived[m] : m \in DOMAIN arrived} : r.index = k
    BY <1>2, <1>5 DEF Ended
  <2>4. ExecutedByIndex[k].index = k
    BY <1>2, <1>5, <2>3 DEF ExecutedByIndex
  <2> QED
    BY <2>2, <2>4
<1>6. DOMAIN Executed = 1..Len(batch)
  BY <1>3 DEF Executed
<1> QED
  BY <1>5, <1>6

LEMMA BlockAnswered ==
  ASSUME TypeInv, \A i \in DOMAIN batch : stage[i] = "done"
  PROVE  AnsweredBlock = ToolBlock(Len(batch), [i \in DOMAIN batch |-> i])
<1>1. batch \in Batches \union {<<>>}
  BY DEF TypeInv, TypeOK
<1>2. DOMAIN batch = 1..Len(batch)
  BY <1>1, BatchType
<1>3. [k \in DOMAIN Executed |-> Executed[k].index] = [i \in DOMAIN batch |-> i]
  BY <1>2, ExecutedInOrder
<1> QED
  BY <1>3 DEF AnsweredBlock

LEMMA RoundStepType ==
  ASSUME TypeInv, RoundStep
  PROVE  TypeInv'
<1>1. /\ blocks \in Seq(Block) /\ queue \in Seq(Batches)
      /\ batch \in Batches \union {<<>>}
  BY DEF TypeInv, TypeOK
<1>2. /\ Text({}) \in Block /\ Text({"error"}) \in Block /\ Text({"warning"}) \in Block
  BY TextType DEF Pieces
<1>3. pc = "round" =>
        /\ Head(queue) \in Batches /\ Tail(queue) \in Seq(Batches)
        /\ rounds + 1 \in 0..MaxRounds
  BY <1>1, HeadTailProperties, ToolRoundsAssumption DEF TypeInv, TypeOK, RoundReady
<1>4. CASE InvalidBatch
  <2>0. blocks' = Append(blocks, Text({"warning"})) \/ blocks' = Append(blocks, Text({"error"}))
    BY <1>4, Zenon DEF InvalidBatch
  <2>1. blocks' \in Seq(Block)
    BY <1>1, <1>2, <2>0
  <2>2. /\ pc' \in {"stream", "finalize"} /\ turn' \in Turns /\ fellBack' \in BOOLEAN
        /\ queue' \in Seq(Batches) /\ rounds' \in 0..MaxRounds
    BY <1>3, <1>4 DEF InvalidBatch, TypeInv, TypeOK, Turns
  <2>3. UNCHANGED <<roundVars, governorVars, adaptiveVars, error>>
    BY <1>4 DEF InvalidBatch
  <2> QED
    BY <2>1, <2>2, <2>3 DEF TypeInv, TypeOK, RoundReady, ArrivedInv, Ended, roundVars,
     governorVars, adaptiveVars
<1>5. CASE ForcedRound
  <2>1. ToolBlock(Len(Head(queue)), [i \in DOMAIN Head(queue) |-> i]) \in Block
    BY <1>3, <1>5, ToolBlockType DEF ForcedRound
  <2>2. blocks' \in Seq(Block)
    BY <1>1, <1>2, <1>5, <2>1 DEF ForcedRound
  <2> QED
    BY <1>3, <1>5, <2>2 DEF ForcedRound, TypeInv, TypeOK, RoundReady, ArrivedInv, Ended, roundVars,
       governorVars, adaptiveVars, Turns
<1>6. CASE BeginRound
  <2>1. ToolBlock(Len(Head(queue)), <<>>) \in Block
    BY <1>3, <1>6, ToolBlockType DEF BeginRound
  <2>2. blocks' \in Seq(Block)
    BY <1>1, <1>6, <2>1 DEF BeginRound
  <2>3. stage' \in [DOMAIN batch' -> Stages] /\ arrived' \in Seq(Result)
    BY <1>6 DEF BeginRound, Stages
  <2>4. ArrivedInv'
    BY <1>6 DEF BeginRound, ArrivedInv, Ended
  <2> QED
    BY <1>3, <1>6, <2>2, <2>3, <2>4 DEF BeginRound, TypeInv, TypeOK, RoundReady, governorVars,
       adaptiveVars
<1>7. CASE EndRound
  <2>1. AnsweredBlock \in Block
    BY <1>1, <1>7, ToolBlockType, BlockAnswered DEF EndRound
  <2>2. blocks' \in Seq(Block)
    <3>1. ReplaceLast(blocks, AnsweredBlock) \in Seq(Block)
      BY <1>1, <2>1, ReplaceLastType
    <3> QED
      BY <1>2, <1>7, <3>1 DEF EndRound
  <2>3. batch' = <<>> /\ stage' \in [DOMAIN batch' -> Stages]
        /\ arrived' \in Seq(Result) /\ ArrivedInv'
    BY <1>7 DEF EndRound, ArrivedInv, Ended
  <2>4. lowGain' \in Nat /\ noText' \in Nat /\ forceFinal' \in BOOLEAN
    BY <1>7 DEF EndRound, AdaptPressure, TypeInv, TypeOK
  <2>5. pressure' \in Pressure
    BY <1>7 DEF EndRound, AdaptPressure, TypeInv, TypeOK, Pressure
  <2> QED
    BY <1>7, <2>2, <2>3, <2>4, <2>5 DEF EndRound, TypeInv, TypeOK, RoundReady, governorVars,
       Turns
<1>8. CASE Finalize
  BY <1>8 DEF Finalize, TypeInv, TypeOK, RoundReady, ArrivedInv, Ended, roundVars,
     governorVars, adaptiveVars
<1> QED
  BY <1>4, <1>5, <1>6, <1>7, <1>8 DEF RoundStep

LEMMA TypeStep == TypeInv /\ [Next]_vars => TypeInv'
<1>1. ASSUME TypeInv, Next PROVE TypeInv'
  BY <1>1, StreamStepType, RoundStepType, CallStepType DEF Next
<1>2. ASSUME TypeInv, UNCHANGED vars PROVE TypeInv'
  BY <1>2 DEF TypeInv, TypeOK, RoundReady, ArrivedInv, Ended, vars, roundVars, governorVars, adaptiveVars
<1> QED
  BY <1>1, <1>2

(* Every variable keeps its type, the loop runs at most MaxRounds rounds,  *)
(* and it is never entered with an empty queue.                            *)
THEOREM TypeCorrect == Spec => []TypeOK
<1>1. TypeInv => TypeOK
  BY DEF TypeInv
<1> QED
  BY <1>1, InitType, TypeStep, PTL DEF Spec

-----------------------------------------------------------------------------
(* The governor *)

(* The counters say what was executed: they agree with the history, every  *)
(* call of which has its signature remembered, and stay within the limits. *)
Agreeing ==
  /\ ran \subseteq seen
  /\ Cardinality(ran) = total
  /\ Cardinality(RanBy(Fetches)) = fetches
  /\ \A t \in Tools : Cardinality(RanBy({t})) = perTool[t]
Limited ==
  /\ total <= TotalLimit[0]
  /\ fetches <= FetchLimit[0] + 2
  /\ \A t \in Tools : perTool[t] <= PerToolLimit[0]
GovernorInv == Agreeing /\ Limited

IInv == TypeInv /\ GovernorInv

LEMMA RanFinite ==
  ASSUME TypeOK
  PROVE  IsFiniteSet(ran) /\ \A S : IsFiniteSet(RanBy(S))
<1>1. IsFiniteSet(ran)
  BY ToolRoundsAssumption, FS_Subset DEF TypeOK
<1>2. ASSUME NEW S PROVE IsFiniteSet(RanBy(S))
  <2>1. RanBy(S) \subseteq ran
    BY DEF RanBy
  <2> QED
    BY <1>1, <2>1, FS_Subset
<1> QED
  BY <1>1, <1>2

LEMMA InitGovernor == Init => GovernorInv
<1> SUFFICES ASSUME Init PROVE GovernorInv
  OBVIOUS
<1>1. ran = {} /\ total = 0 /\ fetches = 0
  BY DEF Init
<1>2. \A S : RanBy(S) = {}
  BY <1>1 DEF RanBy
<1>3. Cardinality({}) = 0
  BY FS_EmptySet
<1>4. Agreeing
  BY <1>1, <1>2, <1>3 DEF Init, Agreeing
<1>5. 0 \in Pressure
  BY DEF Pressure
<1>6. TotalLimit[0] \in Nat /\ FetchLimit[0] \in Nat /\ PerToolLimit[0] \in Nat
  BY <1>5, ToolRoundsAssumption
<1>7. Limited
  BY <1>1, <1>6 DEF Init, Limited
<1> QED
  BY <1>4, <1>7 DEF GovernorInv

(* Executing one more call, which was not executed before. *)
LEMMA OneMore ==
  ASSUME TypeOK, NEW c \in Calls, c \notin ran, ran' = ran \union {c}
  PROVE  /\ Cardinality(ran') = Cardinality(ran) + 1
         /\ \A S : Cardinality(RanBy(S)') =
                    Cardinality(RanBy(S)) + (IF c.tool \in S THEN 1 ELSE 0)
<1>1. Cardinality(ran') = Cardinality(ran) + 1
  BY RanFinite, FS_AddElement
<1>2. ASSUME NEW S
      PROVE  Cardinality(RanBy(S)') = Cardinality(RanBy(S)) + (IF c.tool \in S THEN 1 ELSE 0)
  <2>1. IsFiniteSet(RanBy(S)) /\ c \notin RanBy(S)
    BY RanFinite DEF RanBy
  <2>2. CASE c.tool \in S
    <3>1. RanBy(S)' = RanBy(S) \union {c}
      BY <2>2 DEF RanBy
    <3> QED
      BY <2>1, <2>2, <3>1, FS_AddElement
  <2>3. CASE c.tool \notin S
    <3>1. RanBy(S)' = RanBy(S)
      BY <2>3 DEF RanBy
    <3>2. Cardinality(RanBy(S)) \in Nat
      BY <2>1, FS_CardinalityType
    <3> QED
      BY <2>3, <3>1, <3>2
  <2> QED
    BY <2>2, <2>3
<1> QED
  BY <1>1, <1>2

LEMMA AdmitGovernor ==
  ASSUME IInv, NEW i \in DOMAIN batch, Admit(i)
  PROVE  GovernorInv'
<1> DEFINE c == batch[i]
<1>1. c \in Calls /\ c.tool \in Tools
  BY CallOf DEF IInv, Tools
<1>2. /\ TypeOK /\ Agreeing /\ Limited
      /\ total \in Nat /\ fetches \in Nat /\ perTool \in [Tools -> Nat]
  BY DEF IInv, TypeInv, TypeOK, GovernorInv
<1>3. CASE Allowed(c)
  <2>1. c \notin ran /\ ran' = ran \union {c} /\ seen' = seen \union {c}
    BY <1>2, <1>3 DEF Admit, Allowed, Agreeing
  <2>2. /\ total' = total + 1
        /\ fetches' = fetches + (IF c.tool \in Fetches THEN 1 ELSE 0)
        /\ \A t \in Tools : perTool'[t] = perTool[t] + (IF c.tool \in {t} THEN 1 ELSE 0)
    BY <1>1, <1>2, <1>3 DEF Admit
  <2>3. Agreeing'
    <3>1. ran' \subseteq seen'
      BY <1>2, <2>1 DEF Agreeing
    <3>2. /\ Cardinality(ran') = total'
          /\ Cardinality(RanBy(Fetches)') = fetches'
          /\ \A t \in Tools : Cardinality(RanBy({t})') = perTool'[t]
      <4>1. /\ Cardinality(ran') = Cardinality(ran) + 1
            /\ \A S : Cardinality(RanBy(S)') =
                       Cardinality(RanBy(S)) + (IF c.tool \in S THEN 1 ELSE 0)
        BY <1>1, <1>2, <2>1, OneMore
      <4>2. Cardinality(RanBy(Fetches)') = fetches'
        BY <1>2, <2>2, <4>1 DEF Agreeing
      <4>3. ASSUME NEW t \in Tools PROVE Cardinality(RanBy({t})') = perTool'[t]
        BY <1>2, <2>2, <4>1, <4>3 DEF Agreeing
      <4> QED
        BY <1>2, <2>2, <4>1, <4>2, <4>3 DEF Agreeing
    <3> QED
      BY <3>1, <3>2 DEF Agreeing, RanBy
  <2>4. Limited'
    <3>1. /\ TotalLimit[pressure] \in Nat /\ TotalLimit[0] \in Nat
          /\ FetchLimit[pressure] \in Nat /\ FetchLimit[0] \in Nat
          /\ PerToolLimit[pressure] \in Nat /\ PerToolLimit[0] \in Nat
          /\ TotalLimit[pressure] <= TotalLimit[0]
          /\ FetchLimit[pressure] <= FetchLimit[0]
          /\ PerToolLimit[pressure] <= PerToolLimit[0]
      <4>1. pressure \in Pressure /\ 0 \in Pressure /\ pressure >= 0
        BY <1>2 DEF TypeOK, Pressure
      <4> QED
        BY <4>1, ToolRoundsAssumption
    <3>2. /\ total < TotalLimit[pressure]
          /\ perTool[c.tool] < PerToolLimit[pressure]
          /\ c.tool \in Fetches => fetches < FetchLimit[pressure] + 2
      BY <1>3 DEF Allowed
    <3>3. total' <= TotalLimit[0]
      BY <1>2, <2>2, <3>1, <3>2
    <3>4. fetches' <= FetchLimit[0] + 2
      BY <1>2, <2>2, <3>1, <3>2 DEF Limited
    <3>5. \A t \in Tools : perTool'[t] <= PerToolLimit[0]
      BY <1>1, <1>2, <2>2, <3>1, <3>2 DEF Limited
    <3> QED
      BY <3>3, <3>4, <3>5 DEF Limited
  <2> QED
    BY <2>3, <2>4 DEF GovernorInv
<1>4. CASE ~Allowed(c)
  BY <1>2, <1>4 DEF Admit, GovernorInv, Agreeing, Limited, RanBy
<1> QED
  BY <1>3, <1>4

LEMMA GovernorStep == IInv /\ [Next]_vars => GovernorInv'
<1>1. ASSUME IInv, UNCHANGED <<seen, total, perTool, fetches, ran>> PROVE GovernorInv'
  BY <1>1 DEF IInv, GovernorInv, Agreeing, Limited, RanBy
<1>2. ASSUME IInv, NEW i \in DOMAIN batch, CallStep(i) PROVE GovernorInv'
  <2>1. CASE StartCall(i)
    BY <1>1, <1>2, <2>1, AdmitGovernor DEF StartCall
  <2>2. CASE GetLock(i)
    BY <1>2, <2>2, AdmitGovernor DEF GetLock
  <2>3. CASE ~StartCall(i) /\ ~GetLock(i)
    BY <1>1, <1>2, <2>3 DEF CallStep, StartRedundant, StartUnknown, SkipAnnounced, ToolReturns,
       MarkBlocked, governorVars
  <2> QED
    BY <2>1, <2>2, <2>3
<1>3. ASSUME TextDelta \/ ReasoningDelta \/ TurnEnds \/ RoundStep \/ UNCHANGED vars
      PROVE  UNCHANGED <<seen, total, perTool, fetches, ran>>
  BY <1>3 DEF TextDelta, ReasoningDelta, TurnEnds, StreamEnds, AnswersOnce, FirstTurnFails,
     FollowUpFails, GuardedTurnFails, RoundStep, InvalidBatch, ForcedRound, BeginRound, EndRound,
     Finalize, vars, governorVars
<1> QED
  BY <1>1, <1>2, <1>3 DEF Next

LEMMA InductiveInv == Spec => []IInv
<1>1. Init => IInv
  BY InitType, InitGovernor DEF IInv
<1>2. IInv /\ [Next]_vars => IInv'
  BY TypeStep, GovernorStep DEF IInv
<1> QED
  BY <1>1, <1>2, PTL DEF Spec

(* Whatever the model asks for, what is executed in a reply stays within   *)
(* the limits of the governor: in all, by tool, and of fetches.            *)
THEOREM BudgetIsKept == Spec => []BudgetKept
<1>1. IInv => BudgetKept
  BY DEF IInv, GovernorInv, Agreeing, Limited, BudgetKept
<1> QED
  BY <1>1, InductiveInv, PTL

(* A call that starts executing in a step has passed the governor's checks.*)
LEMMA BecomesOther ==
  ASSUME TypeInv, NEW i \in DOMAIN batch, NEW k \in DOMAIN batch, NEW s,
         stage' = [stage EXCEPT ![k] = s], stage'[i] = "running", stage[i] # "running"
  PROVE  k = i /\ s = "running"
  BY DEF TypeInv, TypeOK

LEMMA AdmitStarts ==
  ASSUME TypeInv, NEW i \in DOMAIN batch, NEW k \in DOMAIN batch, Admit(k),
         stage'[i] = "running", stage[i] # "running"
  PROVE  Allowed(batch[i])
<1>1. SUFFICES ASSUME ~Allowed(batch[k]) PROVE FALSE
  <2>1. CASE Allowed(batch[k])
    <3>1. Becomes(k, "running")
      BY <2>1 DEF Admit
    <3>2. k = i
      BY <3>1, BecomesOther DEF Becomes
    <3> QED
      BY <2>1, <3>2
  <2> QED
    BY <2>1
<1>2. Becomes(k, "skip-locked")
  BY <1>1 DEF Admit
<1> QED
  BY <1>2, BecomesOther DEF Becomes

LEMMA StartsAllowed ==
  ASSUME IInv, [Next]_vars, NEW c \in Calls, Starts(c)
  PROVE  Allowed(c)
<1>1. PICK i \in DOMAIN batch :
        /\ batch[i] = c /\ stage[i] \in {"waiting", "lock"}
        /\ pc = "execute" /\ pc' = "execute" /\ stage'[i] = "running"
  BY DEF Starts
<1>2. TypeInv /\ stage[i] # "running"
  BY <1>1 DEF IInv
<1>3. ASSUME NEW k \in DOMAIN batch, CallStep(k) PROVE Allowed(c)
  <2>1. CASE StartCall(k)
    <3>1. CASE Locked \/ Queued
      BY <1>1, <1>2, <2>1, <3>1, BecomesOther DEF StartCall, Becomes
    <3>2. CASE ~(Locked \/ Queued)
      BY <1>1, <1>2, <2>1, <3>2, AdmitStarts DEF StartCall
    <3> QED
      BY <3>1, <3>2
  <2>2. CASE StartRedundant(k)
    BY <1>1, <1>2, <2>2, BecomesOther DEF StartRedundant, Becomes
  <2>3. CASE StartUnknown(k)
    BY <1>1, <1>2, <2>3, BecomesOther DEF StartUnknown, Returns
  <2>4. CASE GetLock(k)
    BY <1>1, <1>2, <2>4, AdmitStarts DEF GetLock
  <2>5. CASE SkipAnnounced(k)
    BY <1>1, <1>2, <2>5, BecomesOther DEF SkipAnnounced, Returns
  <2>6. ASSUME NEW v, ToolReturns(k, v) PROVE Allowed(c)
    <3>1. Becomes(k, "marking") \/ Returns(k, v)
      BY <2>6, Zenon DEF ToolReturns
    <3> QED
      BY <1>1, <1>2, <3>1, BecomesOther DEF Becomes, Returns
  <2>7. CASE MarkBlocked(k)
    BY <1>1, <1>2, <2>7, BecomesOther DEF MarkBlocked, Returns
  <2> QED
    BY <1>3, <2>1, <2>2, <2>3, <2>4, <2>5, <2>6, <2>7 DEF CallStep
<1>4. ASSUME TextDelta \/ ReasoningDelta \/ TurnEnds \/ RoundStep \/ UNCHANGED vars
      PROVE  FALSE
  BY <1>1, <1>4 DEF TextDelta, ReasoningDelta, TurnEnds, StreamEnds, AnswersOnce,
     FirstTurnFails,
     FollowUpFails, GuardedTurnFails, RoundStep, InvalidBatch, ForcedRound, BeginRound, EndRound,
     Finalize, vars, roundVars
<1> QED
  BY <1>3, <1>4 DEF Next

(* No call is executed twice in a reply, in whatever rounds and beside     *)
(* whatever other calls the model asks for it.                             *)
THEOREM CallsRunOnce == Spec => OncePerReply
<1>1. ASSUME IInv, [Next]_vars, NEW c \in Calls, Starts(c) PROVE c \notin ran
  BY <1>1, StartsAllowed DEF Allowed, IInv, GovernorInv, Agreeing
<1>2. IInv /\ [Next]_vars => [\A c \in Calls : Starts(c) => c \notin ran]_vars
  BY <1>1
<1> QED
  BY <1>2, InductiveInv, PTL DEF Spec, OncePerReply

(* No call starts beyond the limits of the pressure level of its round.    *)
THEOREM PressureIsRespected == Spec => PressureRespected
<1> DEFINE Below(c) == /\ Cardinality(ran) < TotalLimit[pressure]
                       /\ Cardinality(RanBy({c.tool})) < PerToolLimit[pressure]
<1>1. ASSUME IInv, [Next]_vars, NEW c \in Calls, Starts(c) PROVE Below(c)
  <2>1. c.tool \in Tools
    BY DEF Tools
  <2> QED
    BY <1>1, <2>1, StartsAllowed DEF Allowed, IInv, GovernorInv, Agreeing
<1>2. IInv /\ [Next]_vars => [\A c \in Calls : Starts(c) => Below(c)]_vars
  BY <1>1
<1> QED
  BY <1>2, InductiveInv, PTL DEF Spec, PressureRespected

-----------------------------------------------------------------------------
(* The forced final answer *)

NoForcedExecution == forceFinal => pc # "execute"

LEMMA ForcedStep ==
  ASSUME IInv, NoForcedExecution, [Next]_vars
  PROVE  NoForcedExecution' /\ (forceFinal => ran' = ran /\ forceFinal')
<1>1. CASE TextDelta \/ ReasoningDelta \/ TurnEnds
  <2>1. UNCHANGED <<ran, forceFinal>> /\ (pc' = pc \/ pc' # "execute")
    BY <1>1 DEF TextDelta, ReasoningDelta, TurnEnds, StreamEnds, AnswersOnce, FirstTurnFails,
       FollowUpFails, GuardedTurnFails, AfterTurn, LoopHead, LeaveLoop, LeaveRetry,
       governorVars, adaptiveVars, IInv, TypeInv, TypeOK, Turns
  <2> QED
    BY <2>1 DEF NoForcedExecution, IInv, TypeInv, TypeOK
<1>2. CASE RoundStep
  BY <1>2 DEF RoundStep, InvalidBatch, ForcedRound, BeginRound, EndRound, AdaptPressure,
     Finalize,
     governorVars, adaptiveVars, NoForcedExecution, IInv, TypeInv, TypeOK
<1>3. ASSUME NEW i \in DOMAIN batch, CallStep(i) PROVE NoForcedExecution' /\ ~forceFinal
  BY <1>3 DEF CallStep, StartCall, StartRedundant, StartUnknown, GetLock, SkipAnnounced,
     ToolReturns, MarkBlocked, adaptiveVars, NoForcedExecution
<1>4. CASE UNCHANGED vars
  BY <1>4 DEF vars, governorVars, adaptiveVars, NoForcedExecution, IInv, TypeInv, TypeOK
<1> QED
  BY <1>1, <1>2, <1>3, <1>4 DEF Next

(* After the governor has decided to force a final answer no tool runs     *)
(* any more, in whatever way the remaining model turns end.                *)
THEOREM ForcedRunsNothing == Spec => ForcedMeansNoTools
<1>1. Init => NoForcedExecution
  BY DEF Init, NoForcedExecution
<1>2. IInv /\ NoForcedExecution /\ [Next]_vars => NoForcedExecution'
  BY ForcedStep
<1>3. IInv /\ NoForcedExecution /\ [Next]_vars
        => [forceFinal => ran' = ran /\ forceFinal']_vars
  BY ForcedStep
<1> QED
  BY <1>1, <1>2, <1>3, InductiveInv, PTL DEF Spec, ForcedMeansNoTools

-----------------------------------------------------------------------------
(* The error payload *)

ErrorInv ==
  /\ pc \notin {"finalize", "finished"} => error = "none"
  /\ error # "none" => ~Visible(blocks)
  /\ EmptyExplained

LEMMA ErrorStep == ErrorInv /\ TypeInv /\ [Next]_vars => ErrorInv'
<1> SUFFICES ASSUME ErrorInv, TypeInv, [Next]_vars PROVE ErrorInv'
  OBVIOUS
<1>1. ASSUME error = "none", error' = "none", pc' # "finished" PROVE ErrorInv'
  BY <1>1 DEF ErrorInv, EmptyExplained
<1>2. CASE TextDelta \/ ReasoningDelta
  BY <1>1, <1>2 DEF TextDelta, ReasoningDelta, ErrorInv
<1>3. CASE TurnEnds
  <2>1. error = "none"
    BY <1>3 DEF TurnEnds, StreamEnds, AnswersOnce, FirstTurnFails, FollowUpFails,
       GuardedTurnFails, ErrorInv
  <2>2. \/ error' = "none" /\ pc' # "finished"
        \/ error' # "none" /\ ~Visible(blocks') /\ pc' = "finalize"
    BY <1>3, <2>1 DEF TurnEnds, StreamEnds, AnswersOnce, FirstTurnFails, FollowUpFails,
       GuardedTurnFails, AfterTurn, LoopHead, LeaveLoop, LeaveRetry, TypeInv, TypeOK, Turns
  <2>3. Visible(blocks') <=> Visible(blocks)'
    BY DEF Visible
  <2> QED
    BY <1>1, <2>1, <2>2, <2>3 DEF ErrorInv, EmptyExplained
<1>4. CASE InvalidBatch \/ ForcedRound \/ BeginRound \/ EndRound
  BY <1>1, <1>4 DEF InvalidBatch, ForcedRound, BeginRound, EndRound, ErrorInv
<1>5. CASE Finalize
  BY <1>5 DEF Finalize, ErrorInv, EmptyExplained, Visible
<1>6. ASSUME NEW i \in DOMAIN batch, CallStep(i) PROVE ErrorInv'
  BY <1>1, <1>6 DEF CallStep, StartCall, StartRedundant, StartUnknown, GetLock, SkipAnnounced,
     ToolReturns, MarkBlocked, ErrorInv
<1>7. CASE UNCHANGED vars
  BY <1>7 DEF vars, ErrorInv, EmptyExplained, Visible
<1> QED
  BY <1>2, <1>3, <1>4, <1>5, <1>6, <1>7 DEF Next, RoundStep

(* A finished reply shows something or says why it does not, never both.   *)
THEOREM EmptyRepliesExplained == Spec => []EmptyExplained
<1>1. Init => ErrorInv
  BY DEF Init, ErrorInv, EmptyExplained
<1>2. ErrorInv => EmptyExplained
  BY DEF ErrorInv
<1> QED
  BY <1>1, <1>2, ErrorStep, InitType, TypeStep, PTL DEF Spec

-----------------------------------------------------------------------------
(* The results of tool calls *)

Answered(b) == b.type = "tool_calls" => b.results = [i \in 1..b.asked |-> i]
Complete(bs) == \A k \in DOMAIN bs : Answered(bs[k])

(* All calls are answered, those of the round in execution excepted.       *)
AnswerInv ==
  IF pc = "execute"
  THEN \A k \in 1..(Len(blocks) - 1) : Answered(blocks[k])
  ELSE Complete(blocks)

LEMMA CompleteText == \A s : Answered(Text(s))
  BY DEF Answered, Text

LEMMA CompleteAppend ==
  ASSUME NEW bs \in Seq(Block), Complete(bs), NEW b \in Block, Answered(b)
  PROVE  Complete(Append(bs, b))
  BY DEF Complete

LEMMA CompleteReplace ==
  ASSUME NEW bs \in Seq(Block), \A k \in 1..(Len(bs) - 1) : Answered(bs[k]),
         NEW b \in Block, Answered(b)
  PROVE  Complete(ReplaceLast(bs, b))
<1>1. DOMAIN bs = 1..Len(bs) /\ Len(bs) \in Nat
  OBVIOUS
<1>2. ASSUME NEW k \in 1..Len(bs) PROVE Answered(ReplaceLast(bs, b)[k])
  <2>1. CASE k = Len(bs)
    <3>1. ReplaceLast(bs, b)[k] = b
      BY <1>1, <1>2, <2>1 DEF ReplaceLast
    <3> QED
      BY <3>1
  <2>2. CASE k # Len(bs)
    <3>1. ReplaceLast(bs, b)[k] = bs[k]
      BY <1>1, <1>2, <2>2 DEF ReplaceLast
    <3>2. k \in 1..(Len(bs) - 1)
      <4>1. Len(bs) \in Nat
        OBVIOUS
      <4>2. \A n \in Nat : \A i \in 1..n : i # n => i \in 1..(n - 1)
        OBVIOUS
      <4> QED
        BY <4>1, <4>2, <2>2
    <3>3. Answered(bs[k])
      BY <3>2
    <3> QED
      BY <3>1, <3>3
  <2> QED
    BY <2>1, <2>2
<1> QED
  BY <1>1, <1>2 DEF Complete, ReplaceLast

LEMMA CompleteAddText ==
  ASSUME NEW bs \in Seq(Block), Complete(bs), NEW p \in Pieces
  PROVE  Complete(AddText(bs, p))
<1>1. CASE bs # <<>> /\ LastBlock(bs).type = "text"
  <2>1. LastBlock(bs) \in Block
    BY <1>1 DEF LastBlock
  <2>2. Text(LastBlock(bs).pieces \union {p}) \in Block
    BY <2>1, TextType DEF Block
  <2>3. \A k \in 1..(Len(bs) - 1) : Answered(bs[k])
    BY DEF Complete
  <2> QED
    BY <1>1, <2>2, <2>3, CompleteText, CompleteReplace DEF AddText
<1>2. CASE ~(bs # <<>> /\ LastBlock(bs).type = "text")
  <2>1. Text({p}) \in Block
    BY TextType
  <2> QED
    BY <1>2, <2>1, CompleteText, CompleteAppend DEF AddText
<1> QED
  BY <1>1, <1>2

LEMMA CompleteAddDelta ==
  ASSUME NEW bs \in Seq(Block), Complete(bs)
  PROVE  Complete(AddDelta(bs))
<1>1. CASE bs # <<>> /\ LastBlock(bs).type = "tool_calls"
  <2> DEFINE b == [LastBlock(bs) EXCEPT !.pieces = {"answer"}]
  <2>1. LastBlock(bs) \in Block /\ Answered(LastBlock(bs))
    BY <1>1 DEF LastBlock, Complete
  <2>2. b \in Block /\ Answered(b)
    BY <2>1 DEF Block, Pieces, Answered
  <2>3. \A k \in 1..(Len(bs) - 1) : Answered(bs[k])
    BY DEF Complete
  <2> QED
    BY <1>1, <2>2, <2>3, CompleteReplace DEF AddDelta
<1>2. CASE ~(bs # <<>> /\ LastBlock(bs).type = "tool_calls")
  BY <1>2, CompleteAddText DEF AddDelta, Pieces
<1> QED
  BY <1>1, <1>2

LEMMA CompleteCleanUp ==
  ASSUME NEW bs \in Seq(Block), Complete(bs)
  PROVE  Complete(CleanUp(bs))
<1>1. ASSUME Len(bs) > 1 PROVE Complete(Front(bs))
  <2>1. Len(bs) \in Nat /\ \A i \in 1..(Len(bs) - 1) : bs[i] \in Block
    OBVIOUS
  <2>2. /\ Front(bs) \in Seq(Block)
        /\ Len(Front(bs)) = Len(bs) - 1
        /\ \A i \in 1..(Len(bs) - 1) : Front(bs)[i] = bs[i]
    BY <1>1, <2>1, SubSeqProperties DEF Front
  <2> QED
    BY <2>1, <2>2 DEF Complete
<1> QED
  BY <1>1 DEF CleanUp

LEMMA AnswerStep ==
  ASSUME TypeInv, AnswerInv, [Next]_vars
  PROVE  AnswerInv'
<1> DEFINE done == ToolBlock(Len(batch), [i \in DOMAIN batch |-> i])
<1>1. /\ blocks \in Seq(Block) /\ queue \in Seq(Batches)
      /\ batch \in Batches \union {<<>>}
  BY DEF TypeInv, TypeOK
<1>2. Reasoning \in Block /\ Answered(Reasoning) /\ "answer" \in Pieces
  BY ToolRoundsAssumption DEF Reasoning, Block, Answered, Pieces
<1>3. ASSUME NEW s \in SUBSET Pieces PROVE Text(s) \in Block /\ Answered(Text(s))
  BY TextType, CompleteText
<1>4. ASSUME pc # "execute", pc' # "execute", Complete(blocks) => Complete(blocks') PROVE AnswerInv'
  BY <1>4 DEF AnswerInv, Complete
<1>5. \A k \in 1..(Len(blocks) - 1) : Answered(blocks[k])
  BY <1>1 DEF AnswerInv, Complete
<1>6. CASE TextDelta
  BY <1>1, <1>4, <1>6, CompleteAddDelta DEF TextDelta
<1>7. CASE ReasoningDelta
  BY <1>1, <1>2, <1>4, <1>7, CompleteAppend DEF ReasoningDelta
<1>8. CASE TurnEnds
  <2>1. Complete(blocks)
    BY <1>8 DEF TurnEnds, StreamEnds, AnswersOnce, FirstTurnFails, FollowUpFails,
       GuardedTurnFails, AnswerInv
  <2>2. pc = "stream" /\ pc' # "execute"
    BY <1>8 DEF TurnEnds, StreamEnds, AnswersOnce, FirstTurnFails, FollowUpFails,
       GuardedTurnFails, AfterTurn, LoopHead, LeaveLoop, LeaveRetry, TypeInv, TypeOK, Turns
  <2>3. Text({"error"}) \in Block /\ Answered(Text({"error"}))
    BY <1>3 DEF Pieces
  <2>4. Complete(CleanUp(blocks)) /\ Complete(AddText(blocks, "answer"))
    BY <1>1, <1>2, <2>1, CompleteCleanUp, CompleteAddText
  <2>5. Complete(ReplaceLast(blocks, Text({"error"}))) /\ Complete(Append(blocks, Text({"error"})))
    BY <1>1, <1>5, <2>1, <2>3, CompleteReplace, CompleteAppend
  <2>6. blocks' \in {blocks, CleanUp(blocks), AddText(blocks, "answer"),
                     ReplaceLast(blocks, Text({"error"})), Append(blocks, Text({"error"}))}
    BY <1>8, Zenon DEF TurnEnds, StreamEnds, AnswersOnce, FirstTurnFails, FollowUpFails,
       GuardedTurnFails
  <2>7. Complete(blocks')
    BY <2>1, <2>4, <2>5, <2>6
  <2> QED
    BY <1>4, <2>2, <2>7
<1>9. CASE InvalidBatch
  <2>1. blocks' = Append(blocks, Text({"warning"})) \/ blocks' = Append(blocks, Text({"error"}))
    BY <1>9, Zenon DEF InvalidBatch
  <2>2. /\ Text({"error"}) \in Block /\ Answered(Text({"error"}))
        /\ Text({"warning"}) \in Block /\ Answered(Text({"warning"}))
    BY <1>3 DEF Pieces
  <2>3. pc = "round" /\ pc' # "execute"
    BY <1>9 DEF InvalidBatch
  <2> QED
    BY <1>1, <1>4, <2>1, <2>2, <2>3, CompleteAppend
<1>10. CASE ForcedRound
  <2> DEFINE b == Head(queue)
             t == ToolBlock(Len(b), [i \in DOMAIN b |-> i])
  <2>1. b \in Batches
    BY <1>1, <1>10, HeadTailProperties DEF ForcedRound, TypeInv, RoundReady
  <2>2. t \in Block /\ Text({}) \in Block /\ Answered(Text({}))
    BY <1>3, <2>1, ToolBlockType
  <2>3. Answered(t)
    BY <2>1, BatchType DEF ToolBlock, Answered
  <2>4. blocks' = Append(Append(blocks, t), Text({}))
    BY <1>1, <1>10, <2>2 DEF ForcedRound
  <2>5. Append(blocks, t) \in Seq(Block)
    BY <1>1, <2>2
  <2> HIDE DEF t
  <2>6. Complete(blocks) => Complete(blocks')
    BY <1>1, <2>2, <2>3, <2>4, <2>5, CompleteAppend
  <2> QED
    BY <1>4, <1>10, <2>6 DEF ForcedRound
<1>11. CASE BeginRound
  <2> DEFINE t == ToolBlock(Len(Head(queue)), <<>>)
  <2>1. t \in Block
    BY <1>1, <1>11, HeadTailProperties, ToolBlockType DEF BeginRound, TypeInv, RoundReady
  <2>2. blocks' = Append(blocks, t) /\ pc = "round" /\ pc' = "execute"
    BY <1>11 DEF BeginRound
  <2>3. Complete(blocks)
    BY <2>2 DEF AnswerInv
  <2> HIDE DEF t
  <2>4. \A k \in 1..(Len(blocks') - 1) : Answered(blocks'[k])
    BY <1>1, <2>1, <2>2, <2>3 DEF Complete
  <2> QED
    BY <2>2, <2>4 DEF AnswerInv
<1>12. CASE EndRound
  <2>1. done \in Block
    BY <1>1, ToolBlockType
  <2>2. Answered(done)
    BY <1>1, BatchType DEF ToolBlock, Answered
  <2>3. ReplaceLast(blocks, done) \in Seq(Block)
    BY <1>1, <2>1, ReplaceLastType
  <2>4. blocks' = Append(ReplaceLast(blocks, done), Text({})) /\ pc' = "stream"
    BY <1>12, BlockAnswered DEF EndRound
  <2> HIDE DEF done
  <2>5. Complete(blocks')
    BY <1>1, <1>3, <1>5, <2>1, <2>2, <2>3, <2>4, CompleteReplace, CompleteAppend
  <2> QED
    BY <2>4, <2>5 DEF AnswerInv, Complete
<1>13. CASE Finalize
  BY <1>4, <1>13 DEF Finalize
<1>14. ASSUME NEW i \in DOMAIN batch, CallStep(i) PROVE UNCHANGED <<pc, blocks>>
  BY <1>14 DEF CallStep, StartCall, StartRedundant, StartUnknown, GetLock, SkipAnnounced,
     ToolReturns, MarkBlocked
<1>15. ASSUME UNCHANGED <<pc, blocks>> PROVE AnswerInv'
  BY <1>15 DEF AnswerInv, Complete
<1> QED
  BY <1>6, <1>7, <1>8, <1>9, <1>10, <1>11, <1>12, <1>13, <1>14, <1>15 DEF Next, RoundStep, vars

(* The messages of every model turn answer each tool call exactly once and *)
(* in order, whichever calls were skipped, failed, or ended first.         *)
THEOREM CallsAreAnswered == Spec => []EveryCallAnswered
<1>1. Init => AnswerInv
  BY CompleteText DEF Init, AnswerInv, Complete
<1>2. TypeInv /\ AnswerInv /\ [Next]_vars => AnswerInv'
  BY AnswerStep
<1>3. AnswerInv => EveryCallAnswered
  BY DEF AnswerInv, Complete, Answered, EveryCallAnswered
<1> QED
  BY <1>1, <1>2, <1>3, InitType, TypeStep, PTL DEF Spec

-----------------------------------------------------------------------------
(* The contract of ToolBudget *)

Actives == {j \in DOMAIN batch : Active(j)}
Running == {j \in DOMAIN batch : stage[j] = "running"}

(* Calls are under way in a round only, and at most two of them. *)
GoingInv ==
  /\ pc # "execute" => batch = <<>>
  /\ Cardinality(Actives) <= 2

(* What a step of the call at position k does: it starts executing, ends   *)
(* executing, or neither.                                                  *)
CallStarts(k) ==
  /\ stage[k] \in {"waiting", "lock"} /\ Allowed(batch[k])
  /\ ran' = ran \union {batch[k]}
  /\ stage' = [stage EXCEPT ![k] = "running"]
CallEnds(k) ==
  /\ stage[k] = "running" /\ ran' = ran
  /\ \E s \in {"done", "marking"} : stage' = [stage EXCEPT ![k] = s]
CallMoves(k) ==
  /\ stage[k] \notin {"running", "done"} /\ ran' = ran
  /\ \E s \in Stages \ {"running", "waiting"} : stage' = [stage EXCEPT ![k] = s]

LEMMA AdmitEffect ==
  ASSUME NEW k, Admit(k), stage[k] \in {"waiting", "lock"}
  PROVE  CallStarts(k) \/ CallMoves(k)
<1>1. CASE Allowed(batch[k])
  BY <1>1 DEF Admit, Becomes, CallStarts
<1>2. CASE ~Allowed(batch[k])
  <2>1. stage' = [stage EXCEPT ![k] = "skip-locked"] /\ ran' = ran
    BY <1>2 DEF Admit, Becomes
  <2> QED
    BY <2>1 DEF CallMoves, Stages
<1> QED
  BY <1>1, <1>2

LEMMA CallEffect ==
  ASSUME NEW k, CallStep(k)
  PROVE  /\ pc = "execute" /\ UNCHANGED <<pc, batch, pressure, forceFinal>>
         /\ stage[k] = "waiting" => MayStart(k)
         /\ CallStarts(k) \/ CallEnds(k) \/ CallMoves(k)
<1>1. pc = "execute" /\ UNCHANGED <<pc, batch, pressure, forceFinal>>
  BY DEF CallStep, StartCall, StartRedundant, StartUnknown, GetLock, SkipAnnounced,
     ToolReturns, MarkBlocked, adaptiveVars
<1>2. CASE StartCall(k)
  <2>1. MayStart(k) /\ stage[k] = "waiting"
    BY <1>2 DEF StartCall, MayStart
  <2>2. CASE Locked \/ Queued
    <3>1. stage' = [stage EXCEPT ![k] = "lock"] /\ ran' = ran
      BY <1>2, <2>2 DEF StartCall, Becomes
    <3> QED
      BY <1>1, <2>1, <3>1 DEF CallMoves, Stages
  <2>3. CASE ~(Locked \/ Queued)
    BY <1>1, <1>2, <2>1, <2>3, AdmitEffect DEF StartCall
  <2> QED
    BY <2>2, <2>3
<1>3. CASE StartRedundant(k) \/ StartUnknown(k)
  <2>1. MayStart(k) /\ stage[k] = "waiting" /\ ran' = ran
    BY <1>3 DEF StartRedundant, StartUnknown, MayStart, governorVars
  <2>2. \E s \in {"skip", "done"} : stage' = [stage EXCEPT ![k] = s]
    BY <1>3 DEF StartRedundant, StartUnknown, Becomes, Returns
  <2> QED
    BY <1>1, <2>1, <2>2 DEF CallMoves, Stages
<1>4. CASE GetLock(k)
  BY <1>1, <1>4, AdmitEffect DEF GetLock
<1>5. CASE SkipAnnounced(k) \/ MarkBlocked(k)
  <2>1. /\ stage[k] \in {"skip", "skip-locked", "marking"} /\ ran' = ran
        /\ stage' = [stage EXCEPT ![k] = "done"]
    BY <1>5 DEF SkipAnnounced, MarkBlocked, Returns, governorVars
  <2> QED
    BY <1>1, <2>1 DEF CallMoves, Stages
<1>6. ASSUME NEW v, ToolReturns(k, v) PROVE CallEnds(k)
  <2>1. Becomes(k, "marking") \/ Returns(k, v)
    BY <1>6, Zenon DEF ToolReturns
  <2>2. stage[k] = "running" /\ ran' = ran
    BY <1>6 DEF ToolReturns
  <2> QED
    BY <2>1, <2>2 DEF Becomes, Returns, CallEnds
<1>7. CASE \E v \in {"ok", "poor", "blocked"} : ToolReturns(k, v)
  <2>1. stage[k] = "running"
    BY <1>7 DEF ToolReturns
  <2> QED
    BY <1>1, <1>6, <1>7, <2>1
<1> QED
  BY <1>2, <1>3, <1>4, <1>5, <1>7 DEF CallStep

(* Steps of the other kinds. *)
LEMMA OtherEffect ==
  ASSUME TypeInv, TextDelta \/ ReasoningDelta \/ TurnEnds \/ RoundStep \/ UNCHANGED vars
  PROVE  \/ BeginRound \/ EndRound
         \/ /\ UNCHANGED <<ran, batch, stage, pressure, forceFinal>>
            /\ pc = "execute" <=> pc' = "execute"
<1>1. CASE TextDelta \/ ReasoningDelta \/ UNCHANGED vars
  BY <1>1 DEF TextDelta, ReasoningDelta, vars, roundVars, governorVars, adaptiveVars
<1>2. CASE TurnEnds
  <2>1. UNCHANGED <<ran, batch, stage, pressure, forceFinal>> /\ pc = "stream"
    BY <1>2 DEF TurnEnds, StreamEnds, AnswersOnce, FirstTurnFails, FollowUpFails,
       GuardedTurnFails, roundVars, governorVars, adaptiveVars
  <2>2. pc' # "execute"
    BY <1>2, <2>1 DEF TurnEnds, StreamEnds, AnswersOnce, FirstTurnFails, FollowUpFails,
       GuardedTurnFails, AfterTurn, LoopHead, LeaveLoop, LeaveRetry, TypeInv, TypeOK, Turns
  <2> QED
    BY <2>1, <2>2
<1>3. CASE RoundStep
  BY <1>3 DEF RoundStep, InvalidBatch, ForcedRound, Finalize, roundVars, governorVars,
     adaptiveVars
<1> QED
  BY <1>1, <1>2, <1>3

LEMMA ActivesFinite ==
  ASSUME TypeInv PROVE IsFiniteSet(Actives) /\ Cardinality(Actives) \in Nat
<1>1. batch \in Batches \union {<<>>}
  BY DEF TypeInv, TypeOK
<1>2. \E n \in Nat : DOMAIN batch = 1..n
  <2>1. CASE batch = <<>>
    BY <2>1
  <2>2. CASE batch \in Batches
    BY <2>2, BatchType
  <2> QED
    BY <1>1, <2>1, <2>2
<1>3. IsFiniteSet(DOMAIN batch)
  BY <1>2, FS_Interval
<1>4. Actives \subseteq DOMAIN batch
  BY DEF Actives
<1> QED
  BY <1>3, <1>4, FS_Subset, FS_CardinalityType

LEMMA OneBeside ==
  ASSUME NEW S, IsFiniteSet(S), Cardinality(S) <= 2, NEW k \in S
  PROVE  \E x : S \ {k} \subseteq {x}
<1>1. Cardinality(S) \in Nat
  BY FS_CardinalityType
<1>2. IsFiniteSet(S \ {k}) /\ Cardinality(S \ {k}) = Cardinality(S) - 1
  BY FS_RemoveElement
<1>3. Cardinality(S \ {k}) \in Nat
  BY <1>2, FS_CardinalityType
<1>4. Cardinality(S \ {k}) \in {0, 1}
  BY <1>1, <1>2, <1>3
<1>5. CASE Cardinality(S \ {k}) = 0
  BY <1>2, <1>5, FS_EmptySet
<1>6. CASE Cardinality(S \ {k}) = 1
  BY <1>2, <1>6, FS_Singleton
<1> QED
  BY <1>4, <1>5, <1>6

LEMMA AtMostOne ==
  ASSUME NEW S, NEW x, S \subseteq {x}
  PROVE  Cardinality(S) < 2
<1>1. CASE S = {}
  BY <1>1, FS_EmptySet
<1>2. CASE S = {x}
  BY <1>2, FS_Singleton
<1> QED
  BY <1>1, <1>2

(* At most two calls are under way: the semaphore of two, and no network   *)
(* call beside another one.                                                *)
LEMMA TwoAtOnce ==
  ASSUME TypeInv, GoingInv, NEW k \in DOMAIN batch, batch' = batch,
         stage[k] = "waiting" => MayStart(k), stage[k] # "done",
         NEW s, stage' = [stage EXCEPT ![k] = s]
  PROVE  Cardinality(Actives') <= 2
<1>1. Actives' \subseteq Actives \union {k}
  BY DEF TypeInv, TypeOK, Actives, Active
<1>2. IsFiniteSet(Actives \union {k}) /\ Cardinality(Actives \union {k}) \in Nat
  BY ActivesFinite, FS_AddElement, FS_CardinalityType
<1>3. SUFFICES Cardinality(Actives \union {k}) <= 2
  <2>1. IsFiniteSet(Actives') /\ Cardinality(Actives') <= Cardinality(Actives \union {k})
    BY <1>1, <1>2, FS_Subset
  <2>2. Cardinality(Actives') \in Nat
    BY <2>1, FS_CardinalityType
  <2> QED
    BY <1>2, <2>1, <2>2
<1>4. CASE stage[k] # "waiting"
  <2>1. Actives \union {k} = Actives
    BY <1>4 DEF Actives, Active
  <2> QED
    BY <2>1 DEF GoingInv
<1>5. CASE stage[k] = "waiting" /\ ~IsNetwork(k)
  <2>1. Actives = {}
    BY <1>5 DEF MayStart, Actives
  <2>2. Actives \union {k} = {k}
    BY <2>1
  <2> QED
    BY <2>2, FS_Singleton
<1>6. CASE stage[k] = "waiting" /\ IsNetwork(k)
  <2>1. Actives = {j \in DOMAIN batch : IsNetwork(j) /\ Active(j)}
    BY <1>6 DEF MayStart, Actives, Active
  <2>2. Cardinality(Actives) < 2
    BY <1>6, <2>1 DEF MayStart
  <2> QED
    BY <2>2, ActivesFinite, FS_AddElement
<1> QED
  BY <1>4, <1>5, <1>6

LEMMA GoingStep == IInv /\ GoingInv /\ [Next]_vars => GoingInv'
<1> SUFFICES ASSUME IInv, GoingInv, [Next]_vars PROVE GoingInv'
  OBVIOUS
<1>0. TypeInv /\ stage \in [DOMAIN batch -> Stages]
  BY DEF IInv, TypeInv, TypeOK
<1>1. ASSUME NEW k \in DOMAIN batch, CallStep(k) PROVE GoingInv'
  <2>1. /\ pc = "execute" /\ UNCHANGED <<pc, batch>>
        /\ stage[k] = "waiting" => MayStart(k)
        /\ CallStarts(k) \/ CallEnds(k) \/ CallMoves(k)
    BY <1>1, CallEffect
  <2>2. Cardinality(Actives') <= 2
    BY <1>0, <2>1, TwoAtOnce DEF CallStarts, CallEnds, CallMoves
  <2> QED
    BY <2>1, <2>2 DEF GoingInv
<1>2. CASE BeginRound
  <2>1. Actives' = {} /\ pc' = "execute"
    BY <1>2 DEF BeginRound, Actives, Active
  <2> QED
    BY <2>1, FS_EmptySet DEF GoingInv
<1>3. CASE EndRound
  <2>1. Actives' = {} /\ batch' = <<>>
    BY <1>3 DEF EndRound, Actives
  <2> QED
    BY <2>1, FS_EmptySet DEF GoingInv
<1>4. CASE UNCHANGED <<ran, batch, stage>> /\ (pc = "execute" <=> pc' = "execute")
  BY <1>4 DEF GoingInv, Actives, Active
<1> QED
  BY <1>1, <1>2, <1>3, <1>0, <1>4, OtherEffect DEF Next

LEMMA SameCardinality == \A S : Budget!Cardinality(S) = Cardinality(S)
  BY DEF Budget!Cardinality, Cardinality

(* Every step of the rounds is a step of the contract, or none. *)
LEMMA BudgetStep ==
  ASSUME IInv, GoingInv, GoingInv', NoForcedExecution, [Next]_vars
  PROVE  [Budget!Next]_(Budget!vars)
<1>0. TypeInv /\ stage \in [DOMAIN batch -> Stages] /\ pressure \in Pressure
  BY DEF IInv, TypeInv, TypeOK
<1>1. Going = {<<i, batch[i]>> : i \in Running}
  BY DEF Going, Running
<1>2. ASSUME NEW k \in DOMAIN batch, CallStep(k), CallStarts(k)
      PROVE  Budget!Start(batch[k])
  <2>1. pc = "execute" /\ UNCHANGED <<batch, pressure, forceFinal>>
    BY <1>2, CallEffect
  <2>2. Running' = Running \union {k} /\ k \notin Running
    BY <1>0, <1>2, <2>1 DEF CallStarts, Running
  <2>3. \E s \in {s \in 1..MaxBatch : \A g \in Going : g[1] # s} :
          Going' = Going \union {<<s, batch[k]>>}
    <3>1. Going' = Going \union {<<k, batch[k]>>}
      BY <2>1, <2>2 DEF Going, Running
    <3>2. \A g \in Going : g[1] # k
      BY <1>1, <2>2
    <3>3. k \in 1..MaxBatch
      BY <1>0, PlaceOf
    <3> QED
      BY <3>1, <3>2, <3>3
  <2>4. Cardinality(Going) < 2
    <3>1. TypeInv' /\ Cardinality(Actives') <= 2
      BY <1>0, TypeStep DEF GoingInv
    <3>2. IsFiniteSet(Actives') /\ Cardinality(Actives') \in Nat
      <4>1. (TypeInv => IsFiniteSet(Actives) /\ Cardinality(Actives) \in Nat)'
        BY ActivesFinite, PTL
      <4> QED
        BY <3>1, <4>1
    <3>3. k \in Actives'
      BY <1>0, <1>2, <2>1 DEF CallStarts, Actives, Active
    <3>5. \E x : Actives' \ {k} \subseteq {x}
      BY <3>1, <3>2, <3>3, OneBeside
    <3>6. Running \subseteq Actives' \ {k}
      BY <1>0, <1>2, <2>1, <2>2 DEF CallStarts, Actives, Active, Running
    <3>7. PICK x : Running \subseteq {x}
      BY <3>5, <3>6
    <3>8. Going \subseteq {<<x, batch[x]>>}
      BY <1>1, <3>7
    <3> QED
      BY <3>8, AtMostOne
  <2>5. ~forceFinal
    BY <2>1 DEF NoForcedExecution
  <2>6. batch[k] \notin ran /\ Allowed(batch[k]) /\ batch[k].tool \in Tools
    BY <1>0, <1>2, CallOf DEF CallStarts, Allowed, IInv, GovernorInv, Agreeing, Tools
  <2>7. /\ Cardinality(ran) < TotalLimit[pressure]
        /\ Budget!Started({batch[k].tool}) < PerToolLimit[pressure]
        /\ batch[k].tool \in Fetches => Budget!Started(Fetches) < FetchLimit[pressure] + 2
    <3>1. \A S : Budget!Started(S) = Cardinality(RanBy(S))
      BY SameCardinality DEF Budget!Started, RanBy
    <3>2. /\ Cardinality(ran) = total /\ Cardinality(RanBy(Fetches)) = fetches
          /\ Cardinality(RanBy({batch[k].tool})) = perTool[batch[k].tool]
      BY <2>6 DEF IInv, GovernorInv, Agreeing
    <3> QED
      BY <2>6, <3>1, <3>2 DEF Allowed
  <2>8. ran' = ran \union {batch[k]}
    BY <1>2 DEF CallStarts
  <2>9. [p \in Pressure |-> FetchLimit[p] + 2][pressure] = FetchLimit[pressure] + 2
    BY <1>0
  <2> QED
    BY <2>1, <2>3, <2>4, <2>5, <2>6, <2>7, <2>8, <2>9,
       SameCardinality DEF Budget!Start
<1>3. ASSUME NEW k \in DOMAIN batch, CallStep(k), CallEnds(k)
      PROVE  Budget!Return
  <2>1. UNCHANGED <<batch, pressure, forceFinal, ran>>
    BY <1>3, CallEffect DEF CallEnds
  <2>2. Running' = Running \ {k} /\ k \in Running
    BY <1>0, <1>3, <2>1 DEF CallEnds, Running
  <2>3. <<k, batch[k]>> \in Going
    BY <1>1, <2>2
  <2>4. Going' = {<<i, batch[i]>> : i \in Running \ {k}}
    BY <2>1, <2>2 DEF Going, Running
  <2>5. Going' = Going \ {<<k, batch[k]>>}
    BY <1>1, <2>2, <2>4
  <2> QED
    BY <2>1, <2>3, <2>5 DEF Budget!Return
<1>4. ASSUME NEW k \in DOMAIN batch, CallStep(k), CallMoves(k)
      PROVE  UNCHANGED Budget!vars
  <2>1. UNCHANGED <<batch, pressure, forceFinal, ran>>
    BY <1>4, CallEffect DEF CallMoves
  <2>2. Running' = Running
    BY <1>0, <1>4, <2>1 DEF CallMoves, Running
  <2>3. Going' = Going
    BY <2>1, <2>2 DEF Going, Running
  <2> QED
    BY <2>1, <2>3 DEF Budget!vars
<1>5. CASE EndRound
  <2>1. Going = {} /\ Going' = {}
    BY <1>5 DEF EndRound, Going
  <2>2. pressure' \in {pressure, pressure + 1} \intersect Pressure
    <3>1. pressure' = pressure \/ (pressure < 3 /\ pressure' = pressure + 1)
      BY <1>5, Zenon DEF EndRound, AdaptPressure
    <3>2. pressure \in 0..3
      BY <1>0 DEF Pressure
    <3>3. pressure' \in 0..3
      BY <3>1, <3>2
    <3> QED
      BY <3>1, <3>3 DEF Pressure
  <2>3. forceFinal' \in {forceFinal, TRUE} /\ ran' = ran
    <3>1. forceFinal \in BOOLEAN /\ forceFinal' \in BOOLEAN
      BY <1>0, TypeStep DEF TypeInv, TypeOK
    <3>2. forceFinal => forceFinal'
      BY <1>5 DEF EndRound, AdaptPressure
    <3>3. ran' = ran
      BY <1>5 DEF EndRound, governorVars
    <3> QED
      BY <3>1, <3>2, <3>3
  <2>4. Budget!Review
    BY <2>1, <2>2, <2>3 DEF Budget!Review
  <2> QED
    BY <2>4 DEF Budget!Next
<1>6. CASE BeginRound
  <2>1. Going = {} /\ Going' = {}
    BY <1>6 DEF BeginRound, Going, GoingInv
  <2> QED
    BY <1>6, <2>1 DEF BeginRound, governorVars, adaptiveVars, Budget!vars
<1>7. CASE UNCHANGED <<ran, batch, stage, pressure, forceFinal>>
  BY <1>7 DEF Going, Budget!vars
<1>8. ASSUME NEW k \in DOMAIN batch, CallStep(k) PROVE [Budget!Next]_(Budget!vars)
  <2>1. batch[k] \in Calls
    BY <1>0, CallOf
  <2> QED
    BY <1>2, <1>3, <1>4, <1>8, <2>1, CallEffect DEF Budget!Next
<1> QED
  BY <1>5, <1>6, <1>0, <1>7, <1>8, OtherEffect DEF Next

(* The rounds of a reply, with their network calls in any interleaving,    *)
(* the governor's counters and the adaptive pressure, implement ToolBudget.*)
THEOREM GovernorKeepsTheBudget == Spec => WithinBudget
<1>1. Init => GoingInv /\ NoForcedExecution /\ Budget!Init
  <2> SUFFICES ASSUME Init PROVE GoingInv /\ NoForcedExecution /\ Budget!Init
    OBVIOUS
  <2>1. Actives = {} /\ Going = {}
    BY DEF Init, Actives, Going
  <2> QED
    BY <2>1, FS_EmptySet DEF Init, GoingInv, NoForcedExecution, Budget!Init
<1>2. IInv /\ GoingInv /\ [Next]_vars => GoingInv'
  BY GoingStep
<1>3. IInv /\ NoForcedExecution /\ [Next]_vars => NoForcedExecution'
  BY ForcedStep
<1>4. IInv /\ GoingInv /\ GoingInv' /\ NoForcedExecution /\ [Next]_vars
        => [Budget!Next]_(Budget!vars)
  BY BudgetStep
<1> QED
  BY <1>1, <1>2, <1>3, <1>4, InductiveInv, PTL DEF Spec, WithinBudget, Budget!Spec
=============================================================================
