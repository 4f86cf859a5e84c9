----------------------- MODULE MCVpcEndpointTemplate -----------------------
(* VpcEndpointTemplate for TLC; namespaces are interchangeable where only *)
(* safety is checked.                                                     *)
EXTENDS VpcEndpointTemplate, TLC

NamespaceSymmetry == Permutations(Namespaces)
=============================================================================
