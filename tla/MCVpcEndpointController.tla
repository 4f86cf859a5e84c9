---------------------- MODULE MCVpcEndpointController ----------------------
(* Instances of VpcEndpointController for TLC: each .cfg picks one of the  *)
(* sets of setups below and its bounds.                                    *)
EXTENDS VpcEndpointOwnership, TLC

CONSTANTS z1

(* The common case: the zone is found or created by its domain name *)
DomainSetup ==
  [zoneMode |-> "domainName", specZone |-> z1, foreign |-> {},
   hcpRef |-> FALSE, baseDomain |-> FALSE, credOverride |-> FALSE,
   fixedRegion |-> FALSE, privateDns |-> FALSE, externalName |-> FALSE]

(* A HyperShift resource: domain from the HostedControlPlane, credentials  *)
(* and region of its own, so that it can be cleaned up without the cluster *)
HcpSetup ==
  [DomainSetup EXCEPT !.hcpRef = TRUE, !.credOverride = TRUE, !.fixedRegion = TRUE]

(* The cluster's zone, discovered, with an ExternalName service *)
AutoSetup ==
  [DomainSetup EXCEPT !.zoneMode = "autoDiscover", !.foreign = {z1},
                      !.externalName = TRUE]

(* A zone named by its id, with a region that does not depend on the       *)
(* cluster's Infrastructure object                                         *)
IdSetup ==
  [DomainSetup EXCEPT !.zoneMode = "id", !.foreign = {z1}, !.fixedRegion = TRUE]

BaseSetup == [DomainSetup EXCEPT !.baseDomain = TRUE, !.foreign = {z1}]
NoDnsSetup == [DomainSetup EXCEPT !.zoneMode = "none"]
PrivateSetup == [DomainSetup EXCEPT !.zoneMode = "none", !.privateDns = TRUE]
ForeignSetup == [DomainSetup EXCEPT !.foreign = {z1}]

(* AWS ids are interchangeable, for the runs that check safety only *)
IdSymmetry == Permutations(SgIds) \cup Permutations(VpceIds)

Domain == {DomainSetup}
Most == {DomainSetup, AutoSetup, IdSetup, BaseSetup, NoDnsSetup, PrivateSetup}
Foreign == {ForeignSetup}
Live == {DomainSetup, HcpSetup, AutoSetup}
=============================================================================
