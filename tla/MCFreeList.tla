----------------------------- MODULE MCFreeList -----------------------------
EXTENDS FreeList

=============================================================================
