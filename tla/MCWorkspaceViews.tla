--------------------------- MODULE MCWorkspaceViews ---------------------------
EXTENDS WorkspaceViews

\* The tasks of a session are alike.
Tasks == Permutations(Caller)
=============================================================================
