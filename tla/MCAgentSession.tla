--------------------------- MODULE MCAgentSession ---------------------------
(* Values of AgentSession's constants for TLC. *)
EXTENDS AgentSession

MCKindOf ==
  [e \in Entry |->
     CASE e \in {"m1", "m2", "m3"} -> "message"
       [] e \in {"r1", "r2"} -> "request"
       [] e = "c1" -> "context"
       [] e \in {"op1", "op2"} -> "operation"]

Symmetry == Permutations(Caller) \cup Permutations(Slot)
=============================================================================
