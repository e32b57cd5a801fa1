----------------------------- MODULE MCGitTrees -----------------------------
EXTENDS GitTrees

Two == 1..2
=============================================================================
