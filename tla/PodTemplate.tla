----------------------------- MODULE PodTemplate -----------------------------
(***************************************************************************)
(* What the controller renders for a service from the spec of its          *)
(* environment: image reference, pull secrets, environment sources, the    *)
(* shared volume and its group, the readiness probe.  Pure functions, as   *)
(* in the code.  Lists whose order nothing depends on are sets; a name in  *)
(* an image reference counts only for what Docker's rule sees in it.       *)
(***************************************************************************)
EXTENDS FiniteSets, Naturals

CONSTANTS
  Services,   \* names of services
  Secrets,    \* names of Secrets
  Values,     \* contents of spec.config, group ids, sizes, ports: told apart, no more
  Unset       \* a field that is not set

ASSUME UnsetAssumption == Unset \notin Values

-----------------------------------------------------------------------------
(* Specs *)

(* What is seen in the first segment of a reference: the word localhost, and   *)
(* which characters occur in it.  An image without a slash is that segment     *)
(* alone, tag included.  A registry, by the pattern of the field, has no       *)
(* uppercase letter; of its path only the first segment counts.                *)
Segments ==
  {segment \in [localhost : BOOLEAN, chars : SUBSET {"dot", "colon", "upper"}] :
     segment.localhost => segment.chars = {}}
Images == [slash : BOOLEAN, first : Segments]
Registries == {segment \in Segments : "upper" \notin segment.chars} \cup {Unset}

ServiceSpecs ==
  [image : Images, registry : Registries, port : Values,
   secretRefs : SUBSET Secrets, imagePullSecrets : SUBSET Secrets,
   mountPath : BOOLEAN, readinessProbe : {Unset, "empty", "explicit"}]

StorageSpecs == [size : Values, fsGroup : Values \cup {Unset}]

(* services[s] is Unset for a service that the spec does not list. *)
EnvSpecs ==
  [registry : Registries, imagePullSecrets : SUBSET Secrets,
   config : Values \cup {Unset}, storage : StorageSpecs \cup {Unset},
   services : [Services -> ServiceSpecs \cup {Unset}]]

Listed(env) == {s \in Services : env.services[s] # Unset}

-----------------------------------------------------------------------------
(* Images *)

(* Mutation: the uppercase clause is forgotten. *)
hasRegistryLowercase(image) ==
  /\ image.slash
  /\ image.first.localhost \/ image.first.chars \cap {"dot", "colon"} # {}

hasRegistry(image) ==
  /\ image.slash
  /\ \/ image.first.localhost
     \/ image.first.chars \cap {"dot", "colon"} # {}
     \/ "upper" \in image.first.chars

registryOf(env, svc) == IF svc.registry # Unset THEN svc.registry ELSE env.registry

imageRef(env, svc) ==
  [registry |-> IF hasRegistry(svc.image) THEN Unset ELSE registryOf(env, svc),
   image |-> svc.image]

-----------------------------------------------------------------------------
(* Secrets *)

pullSecrets(env, svc) ==
  IF svc.imagePullSecrets # {} THEN svc.imagePullSecrets ELSE env.imagePullSecrets

(* Mutation: the lists of services are left out. *)
referencedPullSecretsOfEnv(env) == env.imagePullSecrets
referencedPullSecrets(env) ==
  env.imagePullSecrets \cup UNION {env.services[s].imagePullSecrets : s \in Listed(env)}

referencedSecrets(env) ==
  referencedPullSecrets(env) \cup UNION {env.services[s].secretRefs : s \in Listed(env)}

-----------------------------------------------------------------------------
(* Volume and security context *)

Mounts(env, svc) == svc.mountPath /\ env.storage # Unset

Contexts == [fsGroup : Values \cup {Unset}, other : BOOLEAN]
NoContext == [fsGroup |-> Unset, other |-> FALSE]

(* Mutations: the group stays when there is none to set; the whole structure  *)
(* is replaced.                                                                *)
applyFSGroupSticky(env, svc, context) ==
  IF Mounts(env, svc) /\ env.storage.fsGroup # Unset
  THEN [context EXCEPT !.fsGroup = env.storage.fsGroup] ELSE context
applyFSGroupWholesale(env, svc, context) ==
  [fsGroup |-> IF Mounts(env, svc) THEN env.storage.fsGroup ELSE Unset, other |-> FALSE]

(* Only the group is touched; other stands for whatever else is set on the pod. *)
applyFSGroup(env, svc, context) ==
  [context EXCEPT !.fsGroup = IF Mounts(env, svc) THEN env.storage.fsGroup ELSE Unset]

-----------------------------------------------------------------------------
(* The pod *)

readinessProbe(svc) == IF svc.readinessProbe = "empty" THEN "tcp" ELSE svc.readinessProbe

Templates ==
  [ref : [registry : Registries, image : Images], envFromConfig : BOOLEAN,
   envFromSecrets : SUBSET Secrets, pull : SUBSET Secrets, volume : BOOLEAN,
   port : Values, probe : {Unset, "tcp", "empty", "explicit"}, context : Contexts]

(* The template of a service, given the security context it has now. *)
Template(env, svc, context) ==
  [ref |-> imageRef(env, svc), envFromConfig |-> env.config # Unset,
   envFromSecrets |-> svc.secretRefs, pull |-> pullSecrets(env, svc),
   volume |-> Mounts(env, svc), port |-> svc.port, probe |-> readinessProbe(svc),
   context |-> applyFSGroup(env, svc, context)]

-----------------------------------------------------------------------------
(* What a template needs and says *)

SecretsOf(template) == template.envFromSecrets \cup template.pull

(* Docker's grammar.  A component of a path is lowercase and has no colon; a    *)
(* first segment that could be one is a host all the same when it is dotted or *)
(* localhost.                                                                   *)
PathComponent(segment) == segment.chars \subseteq {"dot"}
DottedOrLocal(segment) == segment.localhost \/ "dot" \in segment.chars
NamesHost(image) == image.slash /\ (DottedOrLocal(image.first) \/ ~PathComponent(image.first))

(* The reference that the documentation promises for a service: one that names *)
(* its host is left alone, any other goes behind the registry in force.        *)
Resolves(env, svc, ref) ==
  /\ ref.image = svc.image
  /\ ref.registry = IF NamesHost(svc.image) THEN Unset ELSE registryOf(env, svc)
===============================================================================
