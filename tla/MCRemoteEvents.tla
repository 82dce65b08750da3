---------------------------- MODULE MCRemoteEvents ----------------------------
(* RemoteEvents with a direct link and a relayed one. *)
EXTENDS RemoteEvents, TLC

CONSTANTS lan, relay

MCRank == lan :> 1 @@ relay :> 2
=============================================================================
