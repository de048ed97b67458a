-------------------------------- MODULE MCTour --------------------------------
\* An instance of the guided tour for TLC: the constants are given in the cfg.
EXTENDS Tour, TLC

\* The tour reads no clock: states that differ by instants alone have the same
\* behaviours.
Timeless ==
    <<[i \in Ids |-> IF demo.interviews[i] = NULL THEN NULL
                     ELSE <<demo.interviews[i].status, demo.interviews[i].external>>],
      demo.sequence, demo.simulated, demo.generation,
      playing, timer, moves, tourVars, reloads>>
===============================================================================
