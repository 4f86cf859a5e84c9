------------------------ MODULE VpcEndpointOwnership ------------------------
(* The VpcEndpoint controller implements OwnedResource for the security    *)
(* group, the endpoint and a hosted zone that is looked up by its name.    *)
EXTENDS VpcEndpointController

Owner ==
  CASE ~api.meta.exists -> "gone"
    [] api.meta.exists /\ api.meta.finalizer -> "guarded"
    [] OTHER -> "bare"

(* The zone is the resource's own: nobody had one of that name before *)
ZoneOwned == setup.zoneMode = "domainName" /\ ~setup.baseDomain /\ setup.foreign = {}

OwnZones == IF ZoneOwned THEN ZonePresent ELSE {}

OwnSg == INSTANCE OwnedResource
  WITH Ids <- SgIds, owner <- Owner, present <- SgPresent, alive <- SgPresent,
       noted <- api.status.sg

OwnVpce == INSTANCE OwnedResource
  WITH Ids <- VpceIds, owner <- Owner, present <- VpceVisible, alive <- VpceLive,
       noted <- api.status.vpce

OwnZone == INSTANCE OwnedResource
  WITH Ids <- ZoneIds, owner <- Owner, present <- OwnZones, alive <- OwnZones,
       noted <- IF ZoneOwned THEN api.status.zone ELSE None

(* Whatever fails, conflicts or is lost between the AWS calls and status   *)
(* writes of Reconcile and cleanupAwsResources, each object goes through   *)
(* the life of OwnedResource.                                              *)
ImplementsOwnedResource == OwnSg!Spec /\ OwnVpce!Spec /\ OwnZone!Spec
=============================================================================
