---------------------- MODULE MCVpcEndpointAcceptance ----------------------
(* VpcEndpointAcceptance for TLC: two accounts ask for a connection to the *)
(* first of two services.                                                  *)
EXTENDS VpcEndpointAcceptance

CONSTANTS s1, x, y, c1, c2

BothOfS1 == [c \in {c1, c2} |-> s1]
OneEach == [c \in {c1, c2} |-> IF c = c1 THEN x ELSE y]
=============================================================================
