-------------------------------- MODULE MCDemo --------------------------------
\* An instance of the demonstration, with what it stages, for TLC: the constants
\* are in the cfg.
EXTENDS Staging, TLC
===============================================================================
