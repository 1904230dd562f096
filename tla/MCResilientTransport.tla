------------------------ MODULE MCResilientTransport ------------------------
(* Model values for ResilientTransport: two sends with one retry each and  *)
(* a budget of three units; answers ask for less than a budget or for ever.*)
EXTENDS ResilientTransport

CONSTANTS s1, s2

MCSends    == {s1, s2}
MCBackoffs == {1}
MCFloors   == {0, 2, Never}
=============================================================================
