--------------------- MODULE MC_RemoteBrokerOffsetStore ---------------------
(* Two consumers of a group; the queue moves between them.                 *)
EXTENDS RemoteBrokerOffsetStore, TLC

CONSTANTS c1, c2

MCClients == {c1, c2}
=============================================================================
