---------------------------- MODULE MCChatReplay ----------------------------
(* Instance of ChatReplay for TLC. *)
EXTENDS ChatReplay
=============================================================================
