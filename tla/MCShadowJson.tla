---------------------------- MODULE MCShadowJson ----------------------------
EXTENDS ShadowJson

MCFields == {[key |-> 1, value |-> 1], [key |-> 3, value |-> 2], [key |-> 1, value |-> 0]}
MCSizes  == {1, 4, 5} \union 8..44
=============================================================================
