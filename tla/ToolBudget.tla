----------------------------- MODULE ToolBudget -----------------------------
(***************************************************************************)
(* What a reply promises about the tools it uses.  It starts a call at     *)
(* most once, at most two at a time, never beyond the limits of the level  *)
(* the reply has reached, and none once tools are closed.  The level, and  *)
(* whether tools are closed, are reviewed only between calls, never while  *)
(* one is under way; the level goes up by one at most, and closing is for  *)
(* good.                                                                   *)
(***************************************************************************)
EXTENDS Naturals, FiniteSets

CONSTANTS
  Calls,    \* records with a field tool
  Slots,    \* places a call may run at
  Levels,   \* 0..n
  Metered,  \* tools that share the limit Shared
  Total, PerTool, Shared   \* limits, by level

VARIABLES
  ran,      \* the calls that were started
  going,    \* those under way, each with its place: pairs of a slot and a call
  level,
  closed

vars == <<ran, going, level, closed>>

Init == ran = {} /\ going = {} /\ level = 0 /\ closed = FALSE

Started(S) == Cardinality({c \in ran : c.tool \in S})

Start(c) ==
  /\ ~closed
  /\ c \notin ran
  /\ Cardinality(going) < 2
  /\ Cardinality(ran) < Total[level]
  /\ Started({c.tool}) < PerTool[level]
  /\ c.tool \in Metered => Started(Metered) < Shared[level]
  /\ ran' = ran \union {c}
  /\ \E s \in {s \in Slots : \A g \in going : g[1] # s} :
       going' = going \union {<<s, c>>}
  /\ UNCHANGED <<level, closed>>

Return ==
  /\ \E g \in going : going' = going \ {g}
  /\ UNCHANGED <<ran, level, closed>>

Review ==
  /\ going = {}
  /\ level' \in {level, level + 1} \intersect Levels
  /\ closed' \in {closed, TRUE}
  /\ UNCHANGED <<ran, going>>

Next == Review \/ Return \/ \E c \in Calls : Start(c)

Spec == Init /\ [][Next]_vars
=============================================================================
