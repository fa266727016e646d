---------------------------- MODULE MCWorkspaces ----------------------------
EXTENDS Workspaces, TLC

CONSTANTS c1, c2, e1, e2

Symmetric == Permutations(Callers) \cup Permutations(Entities)
=============================================================================
