--------------------------- MODULE MCDirectDelete ---------------------------
EXTENDS DirectDelete
=============================================================================
