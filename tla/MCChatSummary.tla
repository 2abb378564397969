---------------------------- MODULE MCChatSummary ----------------------------
(***************************************************************************)
(* Small instances of ChatSummary.                                         *)
(***************************************************************************)
EXTENDS ChatSummary

CONSTANTS w1, w2

MCWorkers == {w1, w2}
==============================================================================
