---- MODULE MCTreeOverlay ----
EXTENDS TreeOverlay
CONSTANTS MaxNodes, MaxCommittees
CountTo == 1 .. MaxCommittees
ListsTo == { [i \in 1 .. n |-> i] : n \in 1 .. MaxNodes }

\* A rotation and an exchange generate every order of the list.
Orders(n) ==
  { [i \in 1 .. n |-> (i % n) + 1],
    [i \in 1 .. n |-> IF i <= 2 /\ n > 1 THEN 3 - i ELSE i] }
====
