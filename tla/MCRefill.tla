---- MODULE MCRefill ----
EXTENDS Refill
CONSTANTS NumNodes, NumSubnetworks
Ids == 1 .. NumNodes
Subs == 1 .. NumSubnetworks
====
