---------------------------- MODULE MCWorkspaces ----------------------------
\* TLC instances of Workspaces.  Requests are interchangeable, and so are users.
EXTENDS Workspaces, TLC

Symmetry == Permutations(Requests) \cup Permutations(Users)
=============================================================================
