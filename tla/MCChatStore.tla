----------------------------- MODULE MCChatStore ----------------------------
(* Model-checking parameters for ChatStore. *)
EXTENDS ChatStore, TLC

Symmetry == Permutations(Chats) \union Permutations(Links)
            \union Permutations(Titles) \union Permutations(Texts)
=============================================================================
