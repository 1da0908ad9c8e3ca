--------------------------- MODULE MCUpdateRemove ---------------------------
EXTENDS UpdateRemove

CONSTANTS t1, t2

MCThreads == {t1, t2}
=============================================================================
