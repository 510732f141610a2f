----------------------------- MODULE SerialPipe -----------------------------
(***************************************************************************)
(* What the request lock of a stdio MCP client promises: its process is    *)
(* spoken to by one call at a time, since a stream reader of asyncio       *)
(* refuses a second reader and the lines of two writers would mix.  A call *)
(* greets the process (the handshake of start) or asks it its own request. *)
(* Once a call has asked, nobody else speaks until it is settled, by its   *)
(* own reply or by a failure; only who has asked gets a reply; and what a  *)
(* call has come to never changes.                                         *)
(***************************************************************************)
CONSTANTS Calls, Clients, Failures

VARIABLES
  greeting,  \* the calls that greet the process of a client
  asking,    \* the calls whose own request is in its pipes
  outcome    \* what a call has come to: a reply (whose), a failure, or "none"

vars == <<greeting, asking, outcome>>

Open     == {p \in Calls : outcome[p] = "none"}
Asking   == UNION {asking[c] : c \in Clients}
Greeting == UNION {greeting[c] : c \in Clients}

Init == /\ greeting = [c \in Clients |-> {}]
        /\ asking   = [c \in Clients |-> {}]
        /\ outcome  = [p \in Calls |-> "none"]

\* p does not wait at c any more; if nobody speaks now, the next may greet.
Turn(p, c) ==
  \/ p \notin Greeting /\ UNCHANGED greeting
  \/ /\ greeting[c] \subseteq {p} /\ asking'[c] = {}
     /\ \E next \in {{}} \union {{q} : q \in Open \ {p}} :
          greeting' = [greeting EXCEPT ![c] = next]

Greet(p, c) ==
  /\ p \in Open \ Greeting
  /\ greeting[c] = {} /\ asking[c] = {}
  /\ greeting' = [greeting EXCEPT ![c] = {p}]
  /\ UNCHANGED <<asking, outcome>>

StepBack(p, c) ==
  /\ greeting[c] = {p}
  /\ greeting' = [greeting EXCEPT ![c] = {}]
  /\ UNCHANGED <<asking, outcome>>

Ask(p, c) ==
  /\ p \in Open \ Asking
  /\ asking[c] = {} /\ greeting[c] \subseteq {p}
  /\ asking' = [asking EXCEPT ![c] = {p}]
  /\ greeting' = [greeting EXCEPT ![c] = {}]
  /\ UNCHANGED outcome

Settle(p, c) ==
  /\ asking[c] = {p} /\ p \in Open
  /\ asking' = [asking EXCEPT ![c] = {}]
  /\ \E r \in {p} \union (Failures \ {"none"}) : outcome' = [outcome EXCEPT ![p] = r]
  /\ Turn(p, c)

\* A call that has not asked fails.
Fail(p, c) ==
  /\ p \in Open \ Asking
  /\ \E r \in Failures \ {"none"} : outcome' = [outcome EXCEPT ![p] = r]
  /\ UNCHANGED asking
  /\ Turn(p, c)

Next == \E p \in Calls, c \in Clients :
  Greet(p, c) \/ StepBack(p, c) \/ Ask(p, c) \/ Settle(p, c) \/ Fail(p, c)

Spec == Init /\ [][Next]_vars
=============================================================================
