------------------------------ MODULE MCChatClient ------------------------------
(* ChatClient: see ChatClient.cfg and StopStays.cfg.                       *)
EXTENDS ChatClient, TLC
==================================================================================
