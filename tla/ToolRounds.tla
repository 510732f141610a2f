----------------------------- MODULE ToolRounds -----------------------------
(***************************************************************************)
(* The tool rounds of one reply: the loop of post_response_handler         *)
(* (utils/middleware.py) that executes the tool calls a model turn asks    *)
(* for and hands the results to a follow-up turn, until a turn asks for    *)
(* none, the rounds are used up, or the governor forces a final answer.    *)
(*                                                                         *)
(* The handler is one coroutine; only the network calls of a round run     *)
(* side by side, at most two at a time, sharing the governor's counters    *)
(* under governor_lock.  A step is what a coroutine does between two       *)
(* awaits; awaits of the handler itself that nothing else can use (the     *)
(* status events) are merged with the step before.                         *)
(*                                                                         *)
(* An operator X_Defect is X with a plausible defect: a mutant that the    *)
(* properties are tried against, used by no specification.                 *)
(***************************************************************************)
EXTENDS Naturals, Sequences, FiniteSets

CONSTANTS
  Calls,          \* what a model may ask for: [tool, group, arg] records;
                  \* group is the domain of a fetch or the topic of a search
  KnownTools,     \* the names in metadata["tools"]
  MaxBatch,       \* bound: calls in one turn
  MaxRounds,      \* MAX_TOOL_CALL_ROUNDS of the user's settings
  MaxBlocks,      \* bound: content blocks of the reply
  TotalLimit,     \* MAX_TOTAL_TOOL_CALLS  \
  FetchLimit,     \* MAX_FETCH_CALLS        | at each pressure level
  PerToolLimit,   \* MAX_PER_TOOL_CALLS    /
  Native          \* function_calling is native and there is an event caller

Fetches  == {"fetch_url", "fetch_url_rendered"}
Network  == Fetches \union {"search_web"}
Pressure == 0..3

ASSUME ToolRoundsAssumption ==
  /\ IsFiniteSet(Calls)
  /\ MaxBatch \in Nat /\ MaxRounds \in Nat /\ MaxBlocks \in Nat
  /\ TotalLimit \in [Pressure -> Nat]
  /\ FetchLimit \in [Pressure -> Nat]
  /\ PerToolLimit \in [Pressure -> Nat]
  /\ \A p \in Pressure : /\ TotalLimit[p] <= TotalLimit[0]
                         /\ FetchLimit[p] <= FetchLimit[0]
                         /\ PerToolLimit[p] <= PerToolLimit[0]
  /\ Native \in BOOLEAN

Tools == {c.tool : c \in Calls}
Batches == UNION {[1..n -> Calls] : n \in 1..MaxBatch}

VARIABLES
  pc,          \* "stream", "round", "execute", "finalize", "finished", "crashed"
  turn,        \* which model turn is streaming
  rounds,      \* tool_call_retries
  queue,       \* tool_calls: batches that are still to be executed
  blocks,      \* content_blocks
  batch,       \* the calls of this round
  stage,       \* how far each of them is
  arrived,     \* the results that have come back, in the order they came in
  seen,        \* seen_tool_signatures
  topics,      \* seen_search_query_fingerprints
  total,       \* tool_exec_total
  perTool,     \* per_tool_counts
  fetches,     \* fetch_attempt_count
  blocked,     \* fetch_domain_failures
  pressure,    \* adaptive_pressure_level
  lowGain,     \* low_gain_rounds
  noText,      \* consecutive_no_text_rounds
  forceFinal,  \* force_final_round
  fellBack,    \* native_tool_fallback_used
  error,       \* finalize_error_payload
  ran          \* history: the calls that were really executed

roundVars    == <<batch, stage, arrived>>
governorVars == <<seen, topics, total, perTool, fetches, blocked, ran>>
adaptiveVars == <<pressure, lowGain, noText, forceFinal>>
vars == <<pc, turn, rounds, queue, blocks, roundVars, governorVars,
          adaptiveVars, fellBack, error>>

Turns  == {"first", "follow-up", "forced", "fallback", "retry"}
Stages == {"waiting", "lock", "skip-locked", "skip", "running", "marking", "done"}

(* A text block holds pieces of text; a block of tool calls holds how many *)
(* calls it has and the ids (positions) its results answer.                *)
Text(s)  == [type |-> "text", pieces |-> s, asked |-> 0, results |-> <<>>]
Reasoning == [type |-> "reasoning", pieces |-> {}, asked |-> 0, results |-> <<>>]
ToolBlock(n, r) == [type |-> "tool_calls", pieces |-> {}, asked |-> n, results |-> r]

(* The result of a call: index is its place among the round's calls, which *)
(* stands for its tool_call_id.                                            *)
Result == [index : Nat, verdict : {"ok", "poor", "blocked", "skipped", "not-found"}]

Pieces == {"answer", "warning", "error"}
Block == [type : {"text", "reasoning", "tool_calls"}, pieces : SUBSET Pieces,
          asked : 0..MaxBatch, results : Seq(Nat)]

TypeOK ==
  /\ pc \in {"stream", "round", "execute", "finalize", "finished", "crashed"}
  /\ turn \in Turns
  /\ rounds \in 0..MaxRounds
  /\ queue \in Seq(Batches)
  /\ blocks \in Seq(Block)
  /\ batch \in Batches \union {<<>>}
  /\ stage \in [DOMAIN batch -> Stages]
  /\ arrived \in Seq(Result)
  /\ seen \subseteq Calls
  /\ topics \subseteq {c.group : c \in Calls}
  /\ total \in Nat
  /\ perTool \in [Tools -> Nat]
  /\ fetches \in Nat
  /\ blocked \subseteq {c.group : c \in Calls}
  /\ pressure \in Pressure
  /\ lowGain \in Nat
  /\ noText \in Nat
  /\ forceFinal \in BOOLEAN
  /\ fellBack \in BOOLEAN
  /\ error \in {"none", "tool_no_output", "empty_response"}
  /\ ran \subseteq Calls

Init ==
  /\ pc = "stream"
  /\ turn = "first"
  /\ rounds = 0
  /\ queue = <<>>
  /\ blocks = <<Text({})>>
  /\ batch = <<>> /\ stage = <<>> /\ arrived = <<>>
  /\ seen = {} /\ topics = {} /\ total = 0 /\ fetches = 0
  /\ perTool = [t \in Tools |-> 0]
  /\ blocked = {}
  /\ pressure = 0 /\ lowGain = 0 /\ noText = 0
  /\ forceFinal = FALSE
  /\ fellBack = FALSE
  /\ error = "none"
  /\ ran = {}

-----------------------------------------------------------------------------
(* The content blocks *)

LastBlock(bs) == bs[Len(bs)]
ReplaceLast(bs, b) == [bs EXCEPT ![Len(bs)] = b]
Front(bs) == SubSeq(bs, 1, Len(bs) - 1)

(* _has_visible_assistant_output; an image counts as text.                 *)
Visible(bs) == \E i \in DOMAIN bs : bs[i].type = "text" /\ bs[i].pieces # {}

(* The text block that content is added to, or a new one.                  *)
AddText(bs, piece) ==
  IF bs # <<>> /\ LastBlock(bs).type = "text"
  THEN ReplaceLast(bs, Text(LastBlock(bs).pieces \union {piece}))
  ELSE Append(bs, Text({piece}))

(* Streamed text goes to the last block.  A block of tool calls holds a    *)
(* list: adding a string to it raises, the stream loop logs that and goes  *)
(* on, and the text is lost, which the block's pieces note as history.     *)
AddDelta(bs) ==
  IF bs # <<>> /\ LastBlock(bs).type = "tool_calls"
  THEN ReplaceLast(bs, [LastBlock(bs) EXCEPT !.pieces = {"answer"}])
  ELSE AddText(bs, "answer")

(* The end of stream_body_handler drops an empty last text block, unless   *)
(* it is the only block.                                                   *)
CleanUp(bs) ==
  IF LastBlock(bs).type = "text" /\ LastBlock(bs).pieces = {} /\ Len(bs) > 1
  THEN Front(bs) ELSE bs

-----------------------------------------------------------------------------
(* Model turns *)

TextDelta ==
  /\ pc = "stream"
  /\ Len(blocks) < MaxBlocks \/ LastBlock(blocks).type # "reasoning"
  /\ blocks' = AddDelta(blocks)
  /\ UNCHANGED <<pc, turn, rounds, queue, roundVars, governorVars, adaptiveVars,
                 fellBack, error>>

ReasoningDelta ==
  /\ pc = "stream"
  /\ Len(blocks) < MaxBlocks
  /\ LastBlock(blocks).type # "reasoning"
  /\ blocks' = Append(blocks, Reasoning)
  /\ UNCHANGED <<pc, turn, rounds, queue, roundVars, governorVars, adaptiveVars,
                 fellBack, error>>

(* After the loop: a reply that used tools and shows nothing is asked for  *)
(* once more.                                                              *)
LeaveLoop(bs) ==
  /\ UNCHANGED error
  /\ IF rounds > 0 /\ ~Visible(bs)
     THEN pc' = "stream" /\ turn' = "retry"
     ELSE pc' = "finalize" /\ UNCHANGED turn

(* After that retry: final_has_text is assigned only where the retry       *)
(* showed nothing, but read in any case.                                   *)
LeaveRetry(bs) ==
  /\ UNCHANGED turn
  /\ IF Visible(bs)
     THEN pc' = "crashed" /\ UNCHANGED error
     ELSE pc' = "finalize" /\ error' = "tool_no_output"

(* The head of the loop.                                                   *)
LoopHead(bs, q) ==
  IF q # <<>> /\ rounds < MaxRounds
  THEN pc' = "round" /\ UNCHANGED <<turn, error>>
  ELSE LeaveLoop(bs)

AfterTurn(bs, q) ==
  CASE turn \in {"first", "follow-up"} -> LoopHead(bs, q)
    [] turn \in {"forced", "fallback"} -> LeaveLoop(bs)
    [] turn = "retry" -> LeaveRetry(bs)

(* A streamed turn ends, with or without tool calls.                       *)
StreamEnds(b) ==
  /\ pc = "stream"
  /\ blocks' = CleanUp(blocks)
  /\ queue' = IF b = <<>> THEN queue ELSE Append(queue, b)
  /\ AfterTurn(blocks', queue')
  /\ UNCHANGED <<rounds, roundVars, governorVars, adaptiveVars, fellBack>>

(* The provider ignores "stream" and answers once: nothing was streamed    *)
(* before.  Only the follow-up turn looks for tool calls, and the fallback *)
(* turn does not add the answer to the blocks.                             *)
AnswersOnce(b, text) ==
  /\ pc = "stream" /\ turn # "first"
  /\ b # <<>> => turn = "follow-up"
  /\ queue' = IF b = <<>> THEN queue ELSE Append(queue, b)
  /\ blocks' = IF text /\ turn # "fallback" THEN AddText(blocks, "answer") ELSE blocks
  /\ IF b # <<>> THEN LoopHead(blocks', queue')
     ELSE IF turn = "retry" THEN LeaveRetry(blocks') ELSE LeaveLoop(blocks')
  /\ UNCHANGED <<rounds, roundVars, governorVars, adaptiveVars, fellBack>>

(* The first turn is not guarded: the task dies.                           *)
FirstTurnFails ==
  /\ pc = "stream" /\ turn = "first"
  /\ pc' = "crashed"
  /\ UNCHANGED <<turn, rounds, queue, blocks, roundVars, governorVars,
                 adaptiveVars, fellBack, error>>

(* A failed follow-up turn puts its notice in the place of the last text.  *)
FollowUpFails ==
  /\ pc = "stream" /\ turn = "follow-up"
  /\ blocks' = IF LastBlock(blocks).type = "text"
               THEN ReplaceLast(blocks, Text({"error"})) ELSE blocks
  /\ LeaveLoop(blocks')
  /\ UNCHANGED <<rounds, queue, roundVars, governorVars, adaptiveVars, fellBack>>

(* Other failed turns: the fallback explains itself, the rest is logged.   *)
GuardedTurnFails ==
  /\ pc = "stream" /\ turn \in {"forced", "fallback", "retry"}
  /\ blocks' = IF turn = "fallback" THEN Append(blocks, Text({"error"})) ELSE blocks
  /\ IF turn = "retry" THEN LeaveRetry(blocks') ELSE LeaveLoop(blocks')
  /\ UNCHANGED <<rounds, queue, roundVars, governorVars, adaptiveVars, fellBack>>

-----------------------------------------------------------------------------
(* Rounds *)

(* Invalid calls in the batch: once per request the reply falls back to    *)
(* the compatible mode, if native calling was used; else it says so.       *)
InvalidBatch ==
  /\ pc = "round"
  /\ rounds' = rounds + 1
  /\ queue' = Tail(queue)
  /\ IF Native /\ ~fellBack
     THEN /\ fellBack' = TRUE
          /\ blocks' = Append(blocks, Text({"warning"}))
          /\ pc' = "stream" /\ turn' = "fallback"
     ELSE /\ blocks' = Append(blocks, Text({"error"}))
          /\ pc' = "finalize"
          /\ UNCHANGED <<turn, fellBack>>
  /\ UNCHANGED <<roundVars, governorVars, adaptiveVars, error>>

(* force_final_round: made-up results, and one more turn.                  *)
ForcedRound ==
  /\ pc = "round" /\ forceFinal
  /\ rounds' = rounds + 1
  /\ queue' = <<>>
  /\ blocks' = blocks \o <<ToolBlock(Len(Head(queue)), [i \in DOMAIN Head(queue) |-> i]),
                           Text({})>>
  /\ pc' = "stream" /\ turn' = "forced"
  /\ UNCHANGED <<roundVars, governorVars, adaptiveVars, fellBack, error>>

BeginRound_Unforced ==
  /\ pc = "round"
  /\ rounds' = rounds + 1
  /\ queue' = Tail(queue)
  /\ batch' = Head(queue)
  /\ stage' = [i \in DOMAIN Head(queue) |-> "waiting"]
  /\ arrived' = <<>>
  /\ blocks' = Append(blocks, ToolBlock(Len(Head(queue)), <<>>))
  /\ pc' = "execute"
  /\ UNCHANGED <<turn, governorVars, adaptiveVars, fellBack, error>>

BeginRound ==
  /\ pc = "round" /\ ~forceFinal
  /\ rounds' = rounds + 1
  /\ queue' = Tail(queue)
  /\ batch' = Head(queue)
  /\ stage' = [i \in DOMAIN Head(queue) |-> "waiting"]
  /\ arrived' = <<>>
  /\ blocks' = Append(blocks, ToolBlock(Len(Head(queue)), <<>>))
  /\ pc' = "execute"
  /\ UNCHANGED <<turn, governorVars, adaptiveVars, fellBack, error>>

-----------------------------------------------------------------------------
(* run_single_tool_call, and the order execute_tool_calls_with_governor    *)
(* runs them in: first the others, one after another, then the network     *)
(* calls through a semaphore of two.                                       *)

IsNetwork(i) == batch[i].tool \in Network
Active(i) == stage[i] \notin {"waiting", "done"}
MayStart(i) ==
  /\ stage[i] = "waiting"
  /\ \A j \in 1..(i - 1) : IsNetwork(j) = IsNetwork(i) => stage[j] # "waiting"
  /\ IF IsNetwork(i)
     THEN /\ \A j \in DOMAIN batch : ~IsNetwork(j) => stage[j] = "done"
          /\ Cardinality({j \in DOMAIN batch : IsNetwork(j) /\ Active(j)}) < 2
     ELSE \A j \in DOMAIN batch : ~Active(j)

(* governor_lock is held across an await only while a skip is announced.   *)
Locked == \E j \in DOMAIN batch : stage[j] = "skip-locked"
Queued == \E j \in DOMAIN batch : stage[j] \in {"lock", "marking"}

Becomes(i, s) == stage' = [stage EXCEPT ![i] = s] /\ UNCHANGED arrived

(* run_single_tool_call returns: the result of call i is there.            *)
Returns(i, v) ==
  /\ stage' = [stage EXCEPT ![i] = "done"]
  /\ arrived' = Append(arrived, [index |-> i, verdict |-> v])

(* The checks under the lock.  The signature is remembered before the      *)
(* budgets are asked.                                                      *)
Allowed(c) ==
  /\ c \notin seen
  /\ total < TotalLimit[pressure]
  /\ perTool[c.tool] < PerToolLimit[pressure]
  /\ c.tool \in Fetches => fetches < FetchLimit[pressure] + 2
  /\ c.tool = "fetch_url" => c.group \notin blocked

Admit(i) ==
  LET c == batch[i] IN
  /\ seen' = seen \union {c}
  /\ IF Allowed(c)
     THEN /\ total' = total + 1
          /\ perTool' = [perTool EXCEPT ![c.tool] = @ + 1]
          /\ fetches' = IF c.tool \in Fetches THEN fetches + 1 ELSE fetches
          /\ ran' = ran \union {c}
          /\ Becomes(i, "running")
     ELSE /\ UNCHANGED <<total, perTool, fetches, ran>>
          /\ Becomes(i, "skip-locked")
  /\ UNCHANGED blocked

Redundant(c) == c.tool = "search_web" /\ c.group \in topics

StartCall(i) ==
  /\ pc = "execute" /\ MayStart(i)
  /\ batch[i].tool \in KnownTools
  /\ ~Redundant(batch[i])
  /\ topics' = IF batch[i].tool = "search_web" THEN topics \union {batch[i].group}
               ELSE topics
  /\ IF Locked \/ Queued
     THEN /\ Becomes(i, "lock")
          /\ UNCHANGED <<seen, total, perTool, fetches, blocked, ran>>
     ELSE Admit(i)
  /\ UNCHANGED <<pc, turn, rounds, queue, blocks, batch, adaptiveVars, fellBack, error>>

StartRedundant(i) ==
  /\ pc = "execute" /\ MayStart(i)
  /\ batch[i].tool \in KnownTools
  /\ Redundant(batch[i])
  /\ Becomes(i, "skip")
  /\ UNCHANGED <<pc, turn, rounds, queue, blocks, batch, governorVars, adaptiveVars,
                 fellBack, error>>

StartUnknown(i) ==
  /\ pc = "execute" /\ MayStart(i)
  /\ batch[i].tool \notin KnownTools
  /\ Returns(i, "not-found")
  /\ UNCHANGED <<pc, turn, rounds, queue, blocks, batch, governorVars, adaptiveVars,
                 fellBack, error>>

GetLock(i) ==
  /\ pc = "execute" /\ stage[i] = "lock" /\ ~Locked
  /\ Admit(i)
  /\ UNCHANGED <<pc, turn, rounds, queue, blocks, batch, topics, adaptiveVars,
                 fellBack, error>>

SkipAnnounced_TakesLock(i) ==
  /\ pc = "execute" /\ stage[i] \in {"skip", "skip-locked"} /\ ~Locked
  /\ Returns(i, "skipped")
  /\ UNCHANGED <<pc, turn, rounds, queue, blocks, batch, governorVars, adaptiveVars,
                 fellBack, error>>

SkipAnnounced(i) ==
  /\ pc = "execute" /\ stage[i] \in {"skip", "skip-locked"}
  /\ Returns(i, "skipped")
  /\ UNCHANGED <<pc, turn, rounds, queue, blocks, batch, governorVars, adaptiveVars,
                 fellBack, error>>

(* A tool returns (an exception is a result, too).  A fetch may find its   *)
(* domain blocked, which is noted under the lock.                          *)
ToolReturns(i, v) ==
  /\ pc = "execute" /\ stage[i] = "running"
  /\ v \in {"poor", "blocked"} => batch[i].tool # "search_web"
  /\ v = "blocked" => batch[i].tool \in Fetches
  /\ IF v = "blocked" /\ (Locked \/ Queued)
     THEN Becomes(i, "marking") /\ UNCHANGED blocked
     ELSE /\ Returns(i, v)
          /\ blocked' = IF v = "blocked" THEN blocked \union {batch[i].group} ELSE blocked
  /\ UNCHANGED <<pc, turn, rounds, queue, blocks, batch, seen, topics, total, perTool,
                 fetches, ran, adaptiveVars, fellBack, error>>

MarkBlocked(i) ==
  /\ pc = "execute" /\ stage[i] = "marking" /\ ~Locked
  /\ blocked' = blocked \union {batch[i].group}
  /\ Returns(i, "blocked")
  /\ UNCHANGED <<pc, turn, rounds, queue, blocks, batch, seen, topics, total, perTool,
                 fetches, ran, adaptiveVars, fellBack, error>>

-----------------------------------------------------------------------------
(* The end of a round *)

(* executed_by_index: the results by the place of their call, in whatever  *)
(* order the calls came back.                                              *)
Ended == {arrived[k].index : k \in DOMAIN arrived}
ExecutedByIndex ==
  [i \in Ended |-> CHOOSE r \in {arrived[k] : k \in DOMAIN arrived} : r.index = i]

Executed_AsTheyEnd == arrived

(* The results read from executed_by_index in the order of the calls; a    *)
(* call without one is passed over.                                        *)
Executed ==
  LET nth(k) == CHOOSE i \in Ended : Cardinality({j \in Ended : j <= i}) = k IN
  [k \in 1..Cardinality(Ended) |-> ExecutedByIndex[nth(k)]]

PoorRound == \E k \in DOMAIN Executed :
  Executed[k].verdict \in {"skipped", "poor", "blocked"}

(* The results that the block is given name the calls they answer.         *)
AnsweredBlock == ToolBlock(Len(batch), [k \in DOMAIN Executed |-> Executed[k].index])

AdaptPressure_BelowZero ==
  LET bump == PoorRound \/ lowGain' >= 2 IN
  /\ lowGain' = IF PoorRound THEN lowGain + 1 ELSE lowGain - 1
  /\ pressure' = IF bump /\ pressure < 3 THEN pressure + 1 ELSE pressure
  /\ noText' = IF Visible(blocks) THEN 0 ELSE noText + 1
  /\ forceFinal' = (forceFinal \/ (pressure' >= 3 /\ lowGain' >= 2) \/ noText' >= 5)

(* The adaptive state: how little the rounds have brought.                 *)
AdaptPressure ==
  LET bump == PoorRound \/ lowGain' >= 2 IN
  /\ lowGain' = IF PoorRound THEN lowGain + 1
                ELSE IF lowGain > 0 THEN lowGain - 1 ELSE 0
  /\ pressure' = IF bump /\ pressure < 3 THEN pressure + 1 ELSE pressure
  /\ noText' = IF Visible(blocks) THEN 0 ELSE noText + 1
  /\ forceFinal' = (forceFinal \/ (pressure' >= 3 /\ lowGain' >= 2) \/ noText' >= 5)

EndRound_DoesNotGather ==
  /\ pc = "execute"
  /\ \A i \in DOMAIN batch : stage[i] # "waiting"
  /\ blocks' = Append(ReplaceLast(blocks, AnsweredBlock), Text({}))
  /\ AdaptPressure
  /\ batch' = <<>> /\ stage' = <<>> /\ arrived' = <<>>
  /\ pc' = "stream" /\ turn' = "follow-up"
  /\ UNCHANGED <<rounds, queue, governorVars, fellBack, error>>

EndRound ==
  /\ pc = "execute"
  /\ \A i \in DOMAIN batch : stage[i] = "done"
  /\ blocks' = Append(ReplaceLast(blocks, AnsweredBlock), Text({}))
  /\ AdaptPressure
  /\ batch' = <<>> /\ stage' = <<>> /\ arrived' = <<>>
  /\ pc' = "stream" /\ turn' = "follow-up"
  /\ UNCHANGED <<rounds, queue, governorVars, fellBack, error>>

(* The reply is saved as done, with an error payload if it shows nothing.  *)
Finalize_Unexplained ==
  /\ pc = "finalize"
  /\ pc' = "finished"
  /\ UNCHANGED <<turn, rounds, queue, blocks, roundVars, governorVars, adaptiveVars,
                 fellBack, error>>

Finalize ==
  /\ pc = "finalize"
  /\ pc' = "finished"
  /\ error' = IF error = "none" /\ ~Visible(blocks) THEN "empty_response" ELSE error
  /\ UNCHANGED <<turn, rounds, queue, blocks, roundVars, governorVars, adaptiveVars,
                 fellBack>>

-----------------------------------------------------------------------------
TurnEnds ==
  \/ \E b \in Batches \union {<<>>} : StreamEnds(b)
  \/ \E b \in Batches \union {<<>>}, text \in BOOLEAN : AnswersOnce(b, text)
  \/ FirstTurnFails \/ FollowUpFails \/ GuardedTurnFails

CallStep(i) ==
  \/ StartCall(i) \/ StartRedundant(i) \/ StartUnknown(i)
  \/ GetLock(i) \/ SkipAnnounced(i)
  \/ \E v \in {"ok", "poor", "blocked"} : ToolReturns(i, v)
  \/ MarkBlocked(i)

RoundStep == InvalidBatch \/ ForcedRound \/ BeginRound \/ EndRound \/ Finalize

Next ==
  \/ TextDelta \/ ReasoningDelta
  \/ TurnEnds
  \/ RoundStep
  \/ \E i \in DOMAIN batch : CallStep(i)

Spec == Init /\ [][Next]_vars

(* A model's turn ends (provider connections have timeouts), tools return  *)
(* (they have timeouts of their own), and the event loop runs on.          *)
Fairness ==
  /\ WF_vars(TurnEnds)
  /\ WF_vars(RoundStep)
  /\ WF_vars(\E i \in DOMAIN batch : CallStep(i))

FairSpec == Spec /\ Fairness

-----------------------------------------------------------------------------
(* Properties *)

(* No call is executed twice in a reply, whatever turn asks for it again   *)
(* and whatever runs beside it: a call that starts executing is a new one. *)
Starts(c) == \E i \in DOMAIN batch :
  /\ batch[i] = c /\ stage[i] \in {"waiting", "lock"}
  /\ pc = "execute" /\ pc' = "execute" /\ stage'[i] = "running"
OncePerReply == [][\A c \in Calls : Starts(c) => c \notin ran]_vars

(* What was executed stays within the governor's limits, and no call       *)
(* starts beyond the limits of the pressure level the reply has reached.   *)
RanBy(S) == {c \in ran : c.tool \in S}
BudgetKept ==
  /\ Cardinality(ran) <= TotalLimit[0]
  /\ Cardinality(RanBy(Fetches)) <= FetchLimit[0] + 2
  /\ \A t \in Tools : Cardinality(RanBy({t})) <= PerToolLimit[0]
PressureRespected ==
  [][\A c \in Calls : Starts(c) =>
       /\ Cardinality(ran) < TotalLimit[pressure]
       /\ Cardinality(RanBy({c.tool})) < PerToolLimit[pressure]]_vars

(* All the governor does amounts to the contract of ToolBudget, whose      *)
(* limits it applies with a margin of two for fetches.                     *)
Going == {<<i, batch[i]>> : i \in {j \in DOMAIN batch : stage[j] = "running"}}
Budget == INSTANCE ToolBudget WITH
  Slots <- 1..MaxBatch, Levels <- Pressure, Metered <- Fetches,
  Total <- TotalLimit, PerTool <- PerToolLimit,
  Shared <- [p \in Pressure |-> FetchLimit[p] + 2],
  going <- Going, level <- pressure, closed <- forceFinal
WithinBudget == Budget!Spec

(* The messages of every model turn answer each tool call once, in the     *)
(* order of the calls (convert_content_blocks_to_messages), although       *)
(* network calls come back in any order and some are skipped: whatever     *)
(* way a call ends, its result is there and is put back into its place.    *)
EveryCallAnswered ==
  pc = "stream" => \A k \in DOMAIN blocks :
    blocks[k].type = "tool_calls" => blocks[k].results = [i \in 1..blocks[k].asked |-> i]

(* Once the governor has decided to force a final answer, no tool runs.    *)
ForcedMeansNoTools == [][forceFinal => ran' = ran /\ forceFinal']_vars

(* A reply that is finished shows something or carries an error that says  *)
(* why not, and never an error about output it does have.                  *)
EmptyExplained == pc = "finished" => (Visible(blocks) <=> error = "none")

(* The rounds end.                                                         *)
ReplyEnds == <>(pc \in {"finished", "crashed"})

(* "so the client doesn't look 'stuck' after tools have finished": once    *)
(* tools have run, the handler gets to the point where the reply is done.  *)
FinishesAfterTools == rounds > 0 => pc # "crashed"

=============================================================================
