-------------------------------- MODULE Cases ---------------------------------
\* The code has many functions without a state of their own.  Each module of
\* such functions says which calls it is about and what must hold of each; one
\* call at a time is the state here.
EXTENDS Integers, FiniteSets

VARIABLE input   \* the call under consideration, a record with its kind

\* No call yet.
NoCall == [kind |-> "none"]

\* The members of a set of positions, in order.
Ascending(S) == [i \in 1 .. Cardinality(S) |-> CHOOSE k \in S : Cardinality({j \in S : j <= k}) = i]

\* What a filter keeps of a sequence: what is at these positions, in order.
Only(s, at) == LET order == Ascending(at) IN [i \in DOMAIN order |-> s[order[i]]]

\* A stable sort of a sequence by the keys of its members: each comes after those of
\* a smaller key, and after those of its own key that came before it.
Precedes(key, j, i) == key[j] < key[i] \/ (key[j] = key[i] /\ j <= i)
SortedBy(s, key) ==
    LET place(i) == Cardinality({j \in DOMAIN s : Precedes(key, j, i)})
    IN  [n \in DOMAIN s |-> s[CHOOSE i \in DOMAIN s : place(i) = n]]
===============================================================================
