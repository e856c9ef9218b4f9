---------------------------- MODULE MCMixnet ----------------------------
EXTENDS Mixnet

CONSTANTS m1, m2, m3

\* A new entropy makes a last node the first one of the next topology.
ShufflesDef == { << m1, m2, m3 >>, << m2, m3, m1 >> }

\* With the flag and two bytes to a payload: one fragment, two, and three, which do not fit.
MessagesDef == { << "x" >>, << "y", "z" >>, << "a", "b", "c", "d" >> }
==========================================================================
