----------------------- MODULE MCConversationOwnership -----------------------
(* Values of ConversationOwnership's constants for TLC. *)
EXTENDS ConversationOwnership, TLC

CONSTANTS p1, p2, p3, here, there

\* Two processes of one machine and one of another that shares the directory.
MCHostOf == (p1 :> here) @@ (p2 :> here) @@ (p3 :> there)

\* The first can open a conversation again or have it continued elsewhere.
MCMaxCreates == (p1 :> 2) @@ (p2 :> 1) @@ (p3 :> 1)
=============================================================================
