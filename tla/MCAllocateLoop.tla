--------------------------- MODULE MCAllocateLoop ---------------------------
EXTENDS AllocateLoop
=============================================================================
