---------------------------- MODULE MCBackendPool -----------------------------
EXTENDS BackendPool, TLC

CONSTANT key

\* Two scopes of one workspace.
MCKeyOf == [c \in Scope |-> key]

Symmetry == Permutations(Session) \cup Permutations(Scope)
=============================================================================
