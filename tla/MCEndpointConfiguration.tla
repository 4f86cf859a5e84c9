---------------------- MODULE MCEndpointConfiguration ----------------------
(* EndpointConfiguration for TLC: a VPC with two private subnets of the    *)
(* cluster and a public one in the zone of the first, and another VPC.     *)
EXTENDS EndpointConfiguration

CONSTANTS v1, v2, a1, a2, b1, d1, k1, k2, p

Net ==
  [s \in {a1, a2, b1, d1} |->
     CASE s = a1 -> [zone |-> "a", vpc |-> v1, tags |-> {"cluster", "private"}]
       [] s = a2 -> [zone |-> "a", vpc |-> v1, tags |-> {}]
       [] s = b1 -> [zone |-> "b", vpc |-> v1, tags |-> {"cluster", "private"}]
       [] s = d1 -> [zone |-> "a", vpc |-> v2, tags |-> {"private"}]]

VpcCidrs == [v \in {v1, v2} |-> IF v = v1 THEN k1 ELSE k2]

From(cidr) == [port |-> p, cidr |-> cidr]

(* The cluster's subnets, its nodes *)
Auto == [ingress |-> {From(None)}, egress |-> {From(k2)}, useVpcCidr |-> FALSE,
         place |-> "auto", ids |-> {}, subnets |-> {}]
(* Given subnets, one in the zone of another one of the cluster *)
Given == [Auto EXCEPT !.egress = {From(None)}, !.place = "subnets", !.subnets = {a2, b1}]
(* One of two VPCs, and its CIDR block *)
Pool == [Auto EXCEPT !.ingress = {From(None)}, !.useVpcCidr = TRUE, !.place = "ids", !.ids = {v1, v2}]
(* The same by tags; two rules may stand for one permission *)
Tagged == [Pool EXCEPT !.ingress = {From(None), From(k1)}, !.place = "tags", !.ids = {}]
(* Subnets in one zone, and none at all: cannot be met *)
Clash == [Given EXCEPT !.subnets = {a1, a2}]
Lost == [Given EXCEPT !.subnets = {}]

Usual == {Auto, Given, Pool, Tagged, Clash, Lost}
=============================================================================
