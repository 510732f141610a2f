------------------------------ MODULE MCHaloClaw ------------------------------
(* Model-checking parameters for HaloClaw: two deliveries of one event in one *)
(* chat and a third message, of another chat.                                 *)
EXTENDS HaloClaw, TLC
CONSTANTS d1, d2, d3, c1, c2
EventsOf == d1 :> "e1" @@ d2 :> "e1" @@ d3 :> "e2"
ChatsOf  == d1 :> c1 @@ d2 :> c1 @@ d3 :> c2
Symmetry == Permutations(Adapters) \union Permutations(Admins)
=============================================================================
