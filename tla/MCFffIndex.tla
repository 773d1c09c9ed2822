----------------------------- MODULE MCFffIndex -----------------------------
EXTENDS FffIndex
=============================================================================
