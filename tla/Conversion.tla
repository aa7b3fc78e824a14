------------------------------ MODULE Conversion ------------------------------
(***************************************************************************)
(* The conversion between v1alpha2 and v1alpha3, the version that is       *)
(* stored and reconciled, and the defaulting webhook of src/api.  Whoever  *)
(* reads or writes v1alpha2 sees an object through ConvertFrom and sends   *)
(* it back through ConvertTo.  Metadata is one field, meta; reason and     *)
(* message of a failure, which v1alpha2 calls an error, are one field too. *)
(***************************************************************************)

(* KubernetesCluster.  v1alpha2 lists the endpoint once more, in the       *)
(* status.                                                                 *)
ClusterConvertTo(src) ==
  [meta |-> src.meta,
   type |-> src.type, endpoint |-> src.endpoint,
   failure |-> src.error, phase |-> src.phase, ready |-> src.ready]

ClusterConvertFrom_Listless(src, isZero) ==
  [meta |-> src.meta,
   type |-> src.type, endpoint |-> src.endpoint,
   error |-> src.failure, phase |-> src.phase, ready |-> src.ready,
   apiEndpoints |-> {}]

ClusterConvertFrom(src, isZero) ==
  [meta |-> src.meta,
   type |-> src.type, endpoint |-> src.endpoint,
   error |-> src.failure, phase |-> src.phase, ready |-> src.ready,
   apiEndpoints |-> IF isZero THEN {} ELSE {src.endpoint}]

(* The spec of a KubernetesMachine, which a KubernetesMachineTemplate      *)
(* holds too.                                                              *)
SpecConvertTo_NoClaims(src) == [src EXCEPT !.volumeClaimTemplates = {}]

SpecConvertTo(src) ==
  [providerID |-> src.providerID, allowRecreation |-> src.allowRecreation,
   podSpec |-> src.podSpec, volumeClaimTemplates |-> src.volumeClaimTemplates]

SpecConvertFrom(src) ==
  [providerID |-> src.providerID, allowRecreation |-> src.allowRecreation,
   podSpec |-> src.podSpec, volumeClaimTemplates |-> src.volumeClaimTemplates]

MachineConvertTo_NoFailure(src) ==
  [meta |-> src.meta, spec |-> SpecConvertTo(src.spec),
   version |-> src.version, failure |-> FALSE, phase |-> src.phase, ready |-> src.ready]

MachineConvertTo(src) ==
  [meta |-> src.meta, spec |-> SpecConvertTo(src.spec),
   version |-> src.version, failure |-> src.error, phase |-> src.phase, ready |-> src.ready]

MachineConvertFrom(src) ==
  [meta |-> src.meta, spec |-> SpecConvertFrom(src.spec),
   version |-> src.version, error |-> src.failure, phase |-> src.phase, ready |-> src.ready]

TemplateConvertTo(src) == [meta |-> src.meta, spec |-> SpecConvertTo(src.spec)]
TemplateConvertFrom(src) == [meta |-> src.meta, spec |-> SpecConvertFrom(src.spec)]

(* The webhook of KubernetesMachine, the same in both versions: a list of  *)
(* containers that was left out becomes an empty one.                      *)
Default_Nothing(podSpec) == podSpec

Default(podSpec) == [podSpec EXCEPT !.listed = TRUE]
=============================================================================
