------------------------------- MODULE MCReview -------------------------------
\* Instances of the review screen for TLC: the constants are in the cfg files.
EXTENDS Review, TLC

\* Interviews, and slots for requests, are interchangeable.
Symmetric == Permutations(Ids) \cup Permutations(Slots)
===============================================================================
