--------------------------- MODULE MCConversationLog ---------------------------
(* TLC instance of ConversationLog: a client process with two threads, and a    *)
(* second process with one.                                                     *)
EXTENDS ConversationLog, TLC

CONSTANTS client, cli, daemon, ask, other

TwoAndOne == (daemon :> client) @@ (ask :> client) @@ (other :> cli)
================================================================================
