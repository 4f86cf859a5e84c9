--------------------------- MODULE MCHostedZones ---------------------------
(* HostedZones for TLC: two resources in two VPCs; both associate a third  *)
(* VPC, and the first one that of the second too.  Their hostnames differ  *)
(* or are the same.                                                        *)
EXTENDS HostedZones

CONSTANTS r1, r2, v1, v2, v3, h1, h2

Homes == [r \in {r1, r2} |-> IF r = r1 THEN v1 ELSE v2]
Associations == [r \in {r1, r2} |-> IF r = r1 THEN {v2, v3} ELSE {v3}]
NoAssociations == [r \in {r1, r2} |-> {}]
NamesApart == [r \in {r1, r2} |-> IF r = r1 THEN h1 ELSE h2]
OneName == [r \in {r1, r2} |-> h1]
ApartOrOne == {NamesApart, OneName}
=============================================================================
