----------------------------- MODULE ReplyPage -----------------------------
(***************************************************************************)
(* What a page that loads a chat may rely on: the listing of replies that  *)
(* are being generated tells what the chat document is worth.  A reply is  *)
(* listed once; as long as it is, its text grows and may not be saved.     *)
(* When it leaves the listing it is settled (the document holds all of it, *)
(* marked done) or dropped (it is not marked done), and whatever happens   *)
(* then, neither its text nor the document changes any more.               *)
(***************************************************************************)
EXTENDS Naturals

CONSTANTS Replies

VARIABLES
  begun,       \* the replies that were ever listed
  generating,  \* those that are
  text,        \* length of the reply in memory
  doc,         \* length of the reply in the chat document
  done         \* its "done" flag there

vars == <<begun, generating, text, doc, done>>

Init ==
  /\ begun = {} /\ generating = {}
  /\ text = [r \in Replies |-> 0]
  /\ doc  = [r \in Replies |-> 0]
  /\ done = [r \in Replies |-> FALSE]

Begin(r) ==
  /\ r \notin begun
  /\ begun' = begun \union {r}
  /\ generating' = generating \union {r}
  /\ UNCHANGED <<text, doc, done>>

Write(r) ==
  /\ r \in generating
  /\ \E more \in {0, 1} : text' = [text EXCEPT ![r] = @ + more]
  /\ doc' \in {doc, [doc EXCEPT ![r] = text'[r]]}
  /\ UNCHANGED <<begun, generating, done>>

Settle(r) ==
  /\ r \in generating
  /\ generating' = generating \ {r}
  /\ doc' = [doc EXCEPT ![r] = text[r]]
  /\ done' = [done EXCEPT ![r] = TRUE]
  /\ UNCHANGED <<begun, text>>

Drop(r) ==
  /\ r \in generating /\ ~done[r]
  /\ generating' = generating \ {r}
  /\ UNCHANGED <<begun, text, doc, done>>

Next == \E r \in Replies : Begin(r) \/ Write(r) \/ Settle(r) \/ Drop(r)

Spec == Init /\ [][Next]_vars
=============================================================================
