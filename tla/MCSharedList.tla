----------------------------- MODULE MCSharedList -----------------------------
\* Instances of the shared list for TLC: the constants are in the cfg files.
EXTENDS SharedList, TLC
===============================================================================
