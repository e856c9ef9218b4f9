-------------------------- MODULE MCBeaconCarnot --------------------------
EXTENDS BeaconCarnot

CONSTANTS n1, n2, n3, n4

NodesDef == {n1, n2, n3, n4}

\* The leaders of the first views are n1, n2, n1 and n3 when nobody skips a vote.
ChoiceDef ==
  [e \in Entropy |->
     IF e = first_entropy THEN n1
     ELSE IF e = beacon(genesis_sk, -1) THEN n2
     ELSE IF e = beacon(n1, 0) THEN n1
     ELSE IF e = beacon(n2, 1) THEN n3 ELSE n4]
==========================================================================
