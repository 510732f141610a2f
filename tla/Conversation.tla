---------------------------- MODULE Conversation ----------------------------
(***************************************************************************)
(* What a chat-platform gateway promises about its conversations.  A       *)
(* message is put to the model once at most, with the newest messages of   *)
(* its chat up to a limit, itself the newest; it is answered once at most  *)
(* and only if it was asked, and an answer is sent only once it is logged. *)
(* The log only grows, until the gateway is deleted with it and with the   *)
(* senders it knows; from then on nothing is asked and nobody becomes a    *)
(* sender any more, though an answer that was due may be logged.           *)
(***************************************************************************)
EXTENDS Naturals, Sequences, FiniteSets

CONSTANTS Messages, ChatOf, Limit

VARIABLES
  stage,   \* "new", "asked", "answered" or "over", of each message
  log,     \* questions and answers of all chats, in order
  asked,   \* what the model was asked with: a part of the log
  sent,    \* messages whose answer the platform accepted
  senders, \* chats whose sender the gateway knows
  gone     \* the gateway was deleted

vars == <<stage, log, asked, sent, senders, gone>>

Init ==
  /\ stage = [m \in Messages |-> "new"]
  /\ log = <<>>
  /\ asked = [m \in Messages |-> <<>>]
  /\ sent = {} /\ senders = {}
  /\ gone = FALSE

Logged(m, dir) == log' = Append(log, [of |-> m, dir |-> dir])
Becomes(m, s) == stage' = [stage EXCEPT ![m] = s]

(* The places D in the log l are the newest of chat c, as many as allowed. *)
Newest(D, l, c) ==
  LET ofChat == {i \in DOMAIN l : ChatOf[l[i].of] = c} IN
  /\ D \subseteq ofChat
  /\ \A i \in D, j \in ofChat : j > i => j \in D
  /\ Cardinality(D) <= Limit
  /\ Cardinality(D) < Limit => D = ofChat

(* A sender is known by a message, also by one that is not asked.          *)
Met(m) == senders' = senders \union {ChatOf[m]}

Meet(m) ==
  /\ ~gone /\ stage[m] = "new"
  /\ Met(m)
  /\ UNCHANGED <<stage, log, asked, sent, gone>>

Ask(m) ==
  /\ ~gone /\ stage[m] = "new"
  /\ Met(m) /\ Logged(m, "in")
  /\ \E D \in SUBSET (DOMAIN log') :
       /\ Newest(D, log', ChatOf[m])
       /\ asked' = [asked EXCEPT ![m] = [i \in D |-> log'[i]]]
  /\ Becomes(m, "asked")
  /\ UNCHANGED <<sent, gone>>

Answer(m) ==
  /\ stage[m] = "asked"
  /\ Logged(m, "out")
  /\ Becomes(m, "answered")
  /\ UNCHANGED <<asked, sent, senders, gone>>

Send(m) ==
  /\ stage[m] = "answered"
  /\ sent' = sent \union {m}
  /\ Becomes(m, "over")
  /\ UNCHANGED <<log, asked, senders, gone>>

(* An error, or a restart that many messages are lost in.                  *)
GiveUp ==
  \E M \in SUBSET {m \in Messages : stage[m] \in {"asked", "answered"}} :
    /\ stage' = [m \in Messages |-> IF m \in M THEN "over" ELSE stage[m]]
    /\ UNCHANGED <<log, asked, sent, senders, gone>>

Delete ==
  /\ ~gone
  /\ gone' = TRUE
  /\ log' = <<>> /\ senders' = {}
  /\ UNCHANGED <<stage, asked, sent>>

Next ==
  \/ \E m \in Messages : Meet(m) \/ Ask(m) \/ Answer(m) \/ Send(m)
  \/ GiveUp \/ Delete

Spec == Init /\ [][Next]_vars
=============================================================================
