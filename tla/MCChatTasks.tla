---------------------------- MODULE MCChatTasks ----------------------------
(* Model-checking instances of ChatTasks: all constants are given in the   *)
(* configurations.                                                         *)
EXTENDS ChatTasks
=============================================================================
