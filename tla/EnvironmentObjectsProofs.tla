---------------------- MODULE EnvironmentObjectsProofs ----------------------
(***************************************************************************)
(* Theorems about EnvironmentObjects, for every set of services, Secrets,  *)
(* values and specs and every bound.                                       *)
(***************************************************************************)
EXTENDS EnvironmentObjects, TLAPS

-----------------------------------------------------------------------------
(* What is rendered *)

(* A template rendered from a spec of the right type has the type of a         *)
(* template, and may be the start of the next one (reconcileDeployment).       *)
LEMMA TemplateType ==
  ASSUME NEW env \in EnvSpecs, NEW svc \in ServiceSpecs, NEW context \in Contexts
  PROVE  Template(env, svc, context) \in Templates
<1>1. imageRef(env, svc) \in [registry : Registries, image : Images]
  BY DEF imageRef, registryOf, EnvSpecs, ServiceSpecs, Registries
<1>2. pullSecrets(env, svc) \in SUBSET Secrets
  BY DEF pullSecrets, EnvSpecs, ServiceSpecs
<1>3. readinessProbe(svc) \in {Unset, "tcp", "empty", "explicit"}
  BY DEF readinessProbe, ServiceSpecs
<1>4. Mounts(env, svc) \in BOOLEAN
  BY DEF Mounts, ServiceSpecs
<1>5. applyFSGroup(env, svc, context) \in Contexts
  <2>1. ASSUME env.storage # Unset PROVE env.storage.fsGroup \in Values \cup {Unset}
    BY <2>1 DEF EnvSpecs, StorageSpecs
  <2> QED BY <2>1 DEF applyFSGroup, Mounts, Contexts
<1>6. svc.secretRefs \in SUBSET Secrets /\ svc.port \in Values
  BY DEF ServiceSpecs
<1> QED BY <1>1, <1>2, <1>3, <1>4, <1>5, <1>6 DEF Template, Templates

(* The group is all that applyFSGroup changes in a security context.           *)
LEMMA OtherKept ==
  ASSUME NEW env, NEW svc, NEW context \in Contexts
  PROVE  Template(env, svc, context).context.other = context.other
BY DEF Template, applyFSGroup, Contexts

(* The three clauses of hasRegistry, clause by clause, against the grammar of  *)
(* a reference: an uppercase letter or a colon keeps a segment from being a    *)
(* component of a path, a dot or the word localhost makes it a host anyway.    *)
LEMMA HostsRecognised == DockersRule
<1> SUFFICES ASSUME NEW image \in Images PROVE hasRegistry(image) <=> NamesHost(image)
  BY DEF DockersRule
<1>1. image.first.chars \subseteq {"dot", "colon", "upper"}
  BY DEF Images, Segments
<1>2. PathComponent(image.first)
        <=> "colon" \notin image.first.chars /\ "upper" \notin image.first.chars
  BY <1>1 DEF PathComponent
<1>3. image.first.chars \cap {"dot", "colon"} # {}
        <=> "dot" \in image.first.chars \/ "colon" \in image.first.chars
  OBVIOUS
<1> QED BY <1>2, <1>3 DEF hasRegistry, NamesHost, DottedOrLocal

(* So what is rendered for a service is the reference its spec promises.       *)
LEMMA RenderedResolves ==
  ASSUME NEW env, NEW svc, svc.image \in Images, NEW context
  PROVE  Resolves(env, svc, Template(env, svc, context).ref)
<1>1. hasRegistry(svc.image) <=> NamesHost(svc.image)
  BY HostsRecognised DEF DockersRule
<1> QED BY <1>1 DEF Resolves, Template, imageRef

(* Every Secret a template names is one referencedSecrets collects: whichever  *)
(* list pullSecrets takes, and the envFrom of the service.                     *)
LEMMA SecretsCollected ==
  ASSUME NEW env \in EnvSpecs, NEW s \in Listed(env), NEW context
  PROVE  SecretsOf(Template(env, env.services[s], context)) \subseteq referencedSecrets(env)
<1>1. env.services[s].secretRefs \subseteq referencedSecrets(env)
  BY DEF referencedSecrets
<1>2. env.services[s].imagePullSecrets \subseteq referencedSecrets(env)
  BY DEF referencedSecrets, referencedPullSecrets
<1>3. env.imagePullSecrets \subseteq referencedSecrets(env)
  BY DEF referencedSecrets, referencedPullSecrets
<1> QED BY <1>1, <1>2, <1>3 DEF SecretsOf, Template, pullSecrets

-----------------------------------------------------------------------------
(* What a write does *)

(* Objects of "where" are all that changes, to "value", and the cache is       *)
(* behind on what has changed.                                                 *)
Writes(where, value) ==
  /\ objects' = [o \in Objects |-> objects'[o]]
  /\ \A o \in Objects :
        objects'[o] # objects[o] => o \in where /\ o \in behind' /\ objects'[o] = value
  /\ behind \subseteq behind' /\ behind' \subseteq behind \cup where

LEMMA SetOne ==
  ASSUME objects \in [Objects -> ObjectValues], NEW o \in Objects, NEW value,
         Set([x \in {o} |-> value])
  PROVE  Writes({o}, value)
BY DEF Set, Writes

LEMMA SetGone ==
  ASSUME objects \in [Objects -> ObjectValues], NEW gone \in SUBSET Objects,
         Set([o \in gone |-> Unset])
  PROVE  Writes(gone, Unset)
BY DEF Set, Writes

LEMMA NoWrite ==
  ASSUME objects \in [Objects -> ObjectValues], UNCHANGED cluster, NEW where, NEW value
  PROVE  Writes(where, value)
BY DEF Writes, cluster

(* The pass goes on to "after" or is given up; the counters keep their type,   *)
(* and nobody but the operator has acted.                                      *)
Goes(after) ==
  /\ worker' \in {after, Idle}
  /\ queued' \in BOOLEAN
  /\ used' \in [edits : Nat, acts : Nat, faults : Nat, restarts : Nat]
  /\ used'.acts = used.acts

Counters == queued \in BOOLEAN /\ used \in [edits : Nat, acts : Nat, faults : Nat, restarts : Nat]

LEMMA FaultGoes ==
  ASSUME Counters, NEW after, Fault
  PROVE  Goes(after)
BY DEF Counters, Fault, Trouble, Abandon, Goes

LEMMA AnsweredGoes ==
  ASSUME Counters, NEW after, Answered(after)
  PROVE  Goes(after)
<1>1. CASE worker' = after /\ UNCHANGED <<queued, used>>
  BY <1>1 DEF Counters, Goes
<1>2. CASE Fault
  BY <1>2, FaultGoes
<1> QED BY <1>1, <1>2 DEF Answered

LEMMA Creating ==
  ASSUME Counters, objects \in [Objects -> ObjectValues],
         NEW o \in Objects, NEW wanted, NEW after, CreateOrUpdate(o, wanted, after)
  PROVE  /\ Writes({o}, wanted) /\ Goes(after)
         /\ objects'[o] # objects[o] => ~Refused(o)
<1>1. CASE ~Unchanged(o, wanted) /\ ~Refused(o)
           /\ Set([x \in {o} |-> wanted]) /\ Answered(after)
  BY <1>1, SetOne, AnsweredGoes
<1>2. CASE UNCHANGED cluster /\ worker' \in {after, Idle} /\ queued' \in BOOLEAN
           /\ UNCHANGED used
  <2>1. Writes({o}, wanted) BY <1>2, NoWrite
  <2>2. Goes(after) BY <1>2 DEF Goes, Counters
  <2> QED BY <1>2, <2>1, <2>2 DEF cluster
<1> QED BY <1>1, <1>2 DEF CreateOrUpdate, Abandon, Counters

LEMMA Deleting ==
  ASSUME Counters, objects \in [Objects -> ObjectValues],
         NEW gone \in SUBSET Objects, NEW after, Delete(gone, after)
  PROVE  Writes(gone, Unset) /\ Goes(after)
<1>1. CASE Set([o \in gone |-> Unset]) /\ Answered(after)
  BY <1>1, SetGone, AnsweredGoes
<1>2. CASE \E part \in SUBSET gone : Set([o \in part |-> Unset]) /\ Fault
  <2>1. PICK part \in SUBSET gone : Set([o \in part |-> Unset]) /\ Fault BY <1>2
  <2>2. Writes(part, Unset) BY <2>1, SetGone
  <2>3. Writes(gone, Unset) BY <2>2 DEF Writes
  <2> QED BY <2>1, <2>3, FaultGoes
<1> QED BY <1>1, <1>2 DEF Delete

-----------------------------------------------------------------------------
(* Types *)

ObjectsOK ==
  /\ objects \in [Objects -> ObjectValues] /\ seen \in [Objects -> ObjectValues]
  /\ behind \subseteq Objects

TemplatesOK ==
  \A s \in Services :
    /\ IsOwn(objects[Deployment(s)]) => objects[Deployment(s)].body \in Templates
    /\ IsOwn(seen[Deployment(s)]) => seen[Deployment(s)].body \in Templates

PassOK(w) ==
  /\ w \in {Idle} \cup Passes
  /\ w # Idle => w.todo \subseteq Listed(w.env)
  /\ w.pc = "deployment" => w.todo # {}
  /\ w.pc = "service" => w.now \in w.todo

RestOK ==
  /\ spec \in Specs /\ specSeen \in Specs
  /\ sources \subseteq Secrets /\ copies \subseteq Secrets
  /\ Counters

LEMMA TypeParts == TypeOK <=> ObjectsOK /\ TemplatesOK /\ PassOK(worker) /\ RestOK
BY DEF TypeOK, ObjectsOK, TemplatesOK, PassOK, RestOK, Counters

LEMMA TypePartsNext == ObjectsOK' /\ TemplatesOK' /\ PassOK(worker)' /\ RestOK' => TypeOK'
BY DEF TypeOK, ObjectsOK, TemplatesOK, PassOK, RestOK, Counters

(* An object the cache is not behind on is as the cache shows it.              *)
CacheFresh == \A o \in Objects \ behind : seen[o] = objects[o]

LEMMA WritesType ==
  ASSUME ObjectsOK, TemplatesOK, UNCHANGED seen,
         NEW where \in SUBSET Objects, NEW value \in ObjectValues, Writes(where, value),
         \A s \in Services :
            Deployment(s) \in where /\ IsOwn(value) => value.body \in Templates
  PROVE  ObjectsOK' /\ TemplatesOK'
<1>1. \A o \in Objects : objects'[o] \in {objects[o], value}
  BY DEF Writes
<1>2. ObjectsOK'
  BY <1>1 DEF ObjectsOK, Writes
<1>3. ASSUME NEW s \in Services, IsOwn(objects'[Deployment(s)])
      PROVE  objects'[Deployment(s)].body \in Templates
  <2>1. Deployment(s) \in Objects BY DEF Deployment, Objects
  <2>2. CASE objects'[Deployment(s)] = objects[Deployment(s)]
    BY <1>3, <2>2 DEF TemplatesOK
  <2>3. CASE objects'[Deployment(s)] # objects[Deployment(s)]
    BY <1>3, <2>1, <2>3 DEF Writes
  <2> QED BY <2>2, <2>3
<1> QED BY <1>2, <1>3 DEF TemplatesOK

LEMMA WritesFresh ==
  ASSUME CacheFresh, UNCHANGED seen, NEW where, NEW value, Writes(where, value)
  PROVE  CacheFresh'
BY DEF CacheFresh, Writes

LEMMA OwnType == ASSUME NEW body \in Bodies PROVE Own(body) \in ObjectValues
BY DEF Own, ObjectValues

LEMMA UnsetType == Unset \in ObjectValues /\ ~IsOwn(Unset)
BY DEF ObjectValues, IsOwn

LEMMA Working ==
  ASSUME PassOK(worker), worker.pc \in Steps
  PROVE  worker \in Passes /\ worker # Idle
BY DEF PassOK, Idle, Steps

LEMMA GoesOn ==
  ASSUME NEW after, PassOK(after), Goes(after)
  PROVE  PassOK(worker)' /\ Counters'
<1>1. PassOK(Idle) BY DEF PassOK, Idle
<1> QED BY <1>1 DEF Goes, PassOK, Counters

LEMMA AtOK ==
  ASSUME PassOK(worker), worker \in Passes, worker # Idle,
         NEW pc \in {"secrets", "claim", "pruneDeployments", "pruneServices"}
  PROVE  PassOK(At(pc))
<1>1. At(pc) \in Passes /\ At(pc).pc = pc /\ At(pc).env = worker.env
      /\ At(pc).todo = worker.todo
  BY DEF At, Passes, Steps
<1> QED BY <1>1 DEF PassOK, Idle

LEMMA AfterOK ==
  ASSUME PassOK(worker), worker \in Passes, worker # Idle,
         NEW todo \in SUBSET worker.todo
  PROVE  PassOK(AfterServices(todo))
<1> DEFINE w == AfterServices(todo)
<1>1. w \in Passes /\ w.env = worker.env /\ w.todo = todo
      /\ w.pc = IF todo = {} THEN "pruneDeployments" ELSE "deployment"
  BY DEF AfterServices, Passes, Steps
<1> QED BY <1>1 DEF PassOK, Idle

LEMMA InitType == Init => TypeOK
<1> SUFFICES ASSUME Init PROVE TypeOK OBVIOUS
<1>1. ObjectsOK BY DEF Init, ObjectsOK, ObjectValues
<1>2. TemplatesOK
  <2>1. \A s \in Services : Deployment(s) \in Objects BY DEF Deployment, Objects
  <2> QED BY <2>1 DEF Init, TemplatesOK, IsOwn
<1>3. PassOK(worker) BY DEF Init, PassOK, Idle
<1>4. RestOK BY DEF Init, RestOK, Counters
<1> QED BY <1>1, <1>2, <1>3, <1>4, TypeParts

-----------------------------------------------------------------------------
(* The steps of a pass, by what they write and where they lead *)

Operates(where, value, after) ==
  /\ Writes(where, value) /\ Goes(after) /\ PassOK(after)
  /\ where \in SUBSET Objects /\ value \in ObjectValues
  /\ \A s \in Services :
        Deployment(s) \in where /\ IsOwn(value) => value.body \in Templates
  /\ UNCHANGED <<spec, cache, sources>>
  /\ copies \subseteq copies' /\ copies' \subseteq Secrets

(* The service a pass is at is one of its spec, and no Deployment is among the *)
(* objects that the other steps write.                                         *)
LEMMA ServiceListed ==
  ASSUME PassOK(worker), worker \in Passes, worker # Idle, NEW s \in worker.todo
  PROVE  /\ s \in Services /\ s \in Listed(worker.env)
         /\ worker.env \in EnvSpecs
         /\ worker.env.services[s] \in ServiceSpecs
<1>1. worker.env \in EnvSpecs BY SpecsAssumption DEF Passes
<1>2. s \in Listed(worker.env) BY DEF PassOK
<1> QED BY <1>1, <1>2 DEF Listed, EnvSpecs

LEMMA NotDeployment ==
  ASSUME NEW s
  PROVE  /\ Deployment(s) # configMapName /\ Deployment(s) # pvcName
         /\ \A t : Deployment(s) # Service(t) /\ Service(t) # pvcName
BY DEF Deployment, configMapName, pvcName, Service

LEMMA ConfigStep ==
  ASSUME TypeOK, reconcileConfigMap
  PROVE  \E value : Operates({configMapName}, value, At("secrets"))
<1>1. ObjectsOK /\ PassOK(worker) /\ RestOK /\ Counters BY TypeParts DEF RestOK
<1>2. worker \in Passes /\ worker # Idle
  BY <1>1, Working DEF reconcileConfigMap, Steps
<1>3. PassOK(At("secrets")) BY <1>1, <1>2, AtOK
<1>4. configMapName \in Objects BY DEF Objects
<1>5. objects \in [Objects -> ObjectValues] BY <1>1 DEF ObjectsOK
<1>6. UNCHANGED <<spec, cache, sources, copies>> /\ copies \subseteq Secrets
  BY <1>1 DEF reconcileConfigMap, RestOK
<1>7. CASE worker.env.config # Unset
           /\ CreateOrUpdate(configMapName, Own(worker.env.config), At("secrets"))
  <2> DEFINE value == Own(worker.env.config)
  <2>1. worker.env.config \in Values BY <1>2, <1>7, SpecsAssumption DEF Passes, EnvSpecs
  <2>2. value \in ObjectValues BY <2>1, OwnType DEF Bodies
  <2>3. Writes({configMapName}, value) /\ Goes(At("secrets"))
    BY <1>1, <1>4, <1>5, <1>7, Creating
  <2>4. Operates({configMapName}, value, At("secrets"))
    BY <2>2, <2>3, <1>3, <1>4, <1>6, NotDeployment DEF Operates
  <2> QED BY <2>4
<1>8. CASE Delete({configMapName}, At("secrets"))
  <2>1. Writes({configMapName}, Unset) /\ Goes(At("secrets"))
    BY <1>1, <1>4, <1>5, <1>8, Deleting
  <2>2. Operates({configMapName}, Unset, At("secrets"))
    BY <2>1, <1>3, <1>4, <1>6, NotDeployment, UnsetType DEF Operates
  <2> QED BY <2>2
<1> QED BY <1>7, <1>8 DEF reconcileConfigMap

(* A pass leaves this step with all its Secrets copied.                        *)
LEMMA SecretsStep ==
  ASSUME TypeOK, reconcileSecrets
  PROVE  /\ Operates({}, Unset, At("claim"))
         /\ worker' # Idle => referencedSecrets(worker.env) \subseteq copies'
<1>1. ObjectsOK /\ PassOK(worker) /\ RestOK /\ Counters BY TypeParts DEF RestOK
<1>2. worker \in Passes /\ worker # Idle
  BY <1>1, Working DEF reconcileSecrets, Steps
<1>3. PassOK(At("claim")) BY <1>1, <1>2, AtOK
<1>4. sources \subseteq Secrets /\ copies \subseteq Secrets BY <1>1 DEF RestOK
<1>5. UNCHANGED <<spec, cache, cluster, sources>> BY DEF reconcileSecrets
<1>6. Writes({}, Unset) BY <1>1, <1>5, NoWrite DEF ObjectsOK
<1> DEFINE wanted == referencedSecrets(worker.env)
<1>7. CASE wanted \subseteq sources /\ copies' = copies \cup wanted /\ Answered(At("claim"))
  <2>1. Goes(At("claim")) BY <1>1, <1>7, AnsweredGoes
  <2> QED BY <2>1, <1>3, <1>4, <1>5, <1>6, <1>7, UnsetType DEF Operates
<1>8. CASE /\ \E some \in SUBSET (wanted \cap sources) : copies' = copies \cup some
           /\ (Abandon /\ UNCHANGED used) \/ Fault
  <2>1. Goes(At("claim")) /\ worker' = Idle
    <3>1. CASE Abandon /\ UNCHANGED used BY <1>1, <3>1 DEF Abandon, Goes, Counters
    <3>2. CASE Fault BY <1>1, <3>2, FaultGoes DEF Fault, Abandon
    <3> QED BY <1>8, <3>1, <3>2
  <2> QED BY <2>1, <1>3, <1>4, <1>5, <1>6, <1>8, UnsetType DEF Operates
<1> QED BY <1>7, <1>8 DEF reconcileSecrets, Answered

(* A pass leaves this step with the claim there, if one is asked for and what  *)
(* the cache shows of it is not long gone.                                     *)
LEMMA ClaimStep ==
  ASSUME TypeOK, reconcilePVC
  PROVE  \E value :
           /\ Operates({pvcName}, value, AfterServices(worker.todo))
           /\ objects'[pvcName] # objects[pvcName] => objects'[pvcName] # Unset
           /\ worker' # Idle /\ worker.env.storage # Unset =>
                seen[pvcName] # Unset \/ objects'[pvcName] # Unset
           /\ UNCHANGED copies
<1>1. ObjectsOK /\ PassOK(worker) /\ RestOK /\ Counters BY TypeParts DEF RestOK
<1>2. worker \in Passes /\ worker # Idle
  BY <1>1, Working DEF reconcilePVC, Steps
<1> DEFINE after == AfterServices(worker.todo)
           value == Own(worker.env.storage.size)
<1>3. PassOK(after) BY <1>1, <1>2, AfterOK
<1>4. pvcName \in Objects /\ objects \in [Objects -> ObjectValues]
  BY <1>1 DEF Objects, ObjectsOK
<1>5. UNCHANGED <<spec, cache, sources, copies>> /\ copies \subseteq Secrets
  BY <1>1 DEF reconcilePVC, RestOK
<1> HIDE DEF after
<1>6. CASE /\ worker.env.storage = Unset \/ seen[pvcName] # Unset
           /\ worker' = after /\ UNCHANGED <<cluster, queued, used>>
  <2>1. Goes(after) BY <1>1, <1>6 DEF Goes, Counters
  <2>2. Writes({pvcName}, Unset) BY <1>4, <1>6, NoWrite
  <2>3. Operates({pvcName}, Unset, after)
    BY <2>1, <2>2, <1>3, <1>4, <1>5, UnsetType DEF Operates
  <2> QED BY <2>3, <1>5, <1>6 DEF after, cluster
<1>7. CASE /\ worker.env.storage # Unset
           /\ IF objects[pvcName] = Unset
              THEN Set([o \in {pvcName} |-> value]) ELSE UNCHANGED cluster
           /\ Answered(after)
  <2>1. worker.env.storage.size \in Values
    BY <1>2, <1>7, SpecsAssumption DEF Passes, EnvSpecs, StorageSpecs
  <2>2. value \in ObjectValues /\ value # Unset
    <3>1. worker.env.storage.size \in Bodies BY <2>1 DEF Bodies
    <3>2. value \in [ours : BOOLEAN, body : Bodies] BY <3>1 DEF Own
    <3> QED BY <3>1, <3>2, OwnType, UnsetObjectAssumption
  <2> HIDE DEF value
  <2>3. Goes(after) BY <1>1, <1>7, AnsweredGoes
  <2>4. Writes({pvcName}, value) /\ objects'[pvcName] # Unset
    <3>1. CASE objects[pvcName] = Unset
      <4>1. Set([o \in {pvcName} |-> value]) BY <1>7, <3>1
      <4>2. Writes({pvcName}, value) BY <4>1, <1>4, SetOne
      <4>3. objects'[pvcName] = value BY <4>1, <1>4 DEF Set
      <4> QED BY <4>2, <4>3, <2>2
    <3>2. CASE objects[pvcName] # Unset
      BY <3>2, <1>4, <1>7, NoWrite DEF cluster
    <3> QED BY <3>1, <3>2
  <2>5. Operates({pvcName}, value, after)
    BY <2>2, <2>3, <2>4, <1>3, <1>4, <1>5, NotDeployment DEF Operates
  <2> QED BY <2>4, <2>5, <1>5 DEF after
<1> QED BY <1>6, <1>7 DEF reconcilePVC, after, value

AtService(s) == [worker EXCEPT !.pc = "service", !.now = s]

(* The Deployment is written from the spec of the pass and from the security   *)
(* context the cache shows, and only where the cache is not behind.            *)
LEMMA DeploymentStep ==
  ASSUME TypeOK, NEW s \in Services, reconcileDeployment(s)
  PROVE  \E context \in Contexts :
           /\ Operates({Deployment(s)},
                       Own(Template(worker.env, worker.env.services[s], context)), AtService(s))
           /\ AtService(s).env = worker.env
           /\ s \in Listed(worker.env) /\ worker.env \in Specs /\ worker.env \in EnvSpecs
           /\ objects'[Deployment(s)] # objects[Deployment(s)] => ~Refused(Deployment(s))
           /\ IsOwn(seen[Deployment(s)]) => context = seen[Deployment(s)].body.context
           /\ UNCHANGED copies
<1>1. ObjectsOK /\ TemplatesOK /\ PassOK(worker) /\ RestOK /\ Counters
  BY TypeParts DEF RestOK
<1>2. worker \in Passes /\ worker # Idle /\ s \in worker.todo
  BY <1>1, Working DEF reconcileDeployment, Steps
<1> DEFINE o == Deployment(s)
           context == IF IsOwn(seen[o]) THEN seen[o].body.context ELSE NoContext
           body == Template(worker.env, worker.env.services[s], context)
           after == AtService(s)
<1>3. /\ s \in Listed(worker.env) /\ worker.env \in EnvSpecs
      /\ worker.env.services[s] \in ServiceSpecs
  BY <1>1, <1>2, ServiceListed
<1>4. PassOK(after) /\ after.env = worker.env
  <2>1. /\ after \in Passes /\ after.env = worker.env /\ after.todo = worker.todo
        /\ after.pc = "service" /\ after.now = s
    BY <1>2 DEF Passes, Steps, AtService
  <2> HIDE DEF after
  <2> QED BY <2>1, <1>1, <1>2 DEF PassOK, Idle
<1>5. context \in Contexts
  BY <1>1 DEF TemplatesOK, Templates, NoContext, Contexts
<1>6. o \in Objects /\ objects \in [Objects -> ObjectValues]
  BY <1>1 DEF Objects, ObjectsOK, Deployment
<1>7. UNCHANGED <<spec, cache, sources, copies>> /\ copies \subseteq Secrets
  BY <1>1 DEF reconcileDeployment, RestOK
<1>8. CreateOrUpdate(o, Own(body), after) BY DEF reconcileDeployment, AtService
<1>9. IsOwn(seen[o]) => context = seen[o].body.context OBVIOUS
<1> HIDE DEF context, after, o
<1>10. body \in Templates BY <1>3, <1>5, TemplateType
<1>11. Own(body) \in ObjectValues BY <1>10, OwnType DEF Bodies
<1> HIDE DEF body
<1>12. /\ Writes({o}, Own(body)) /\ Goes(after)
       /\ objects'[o] # objects[o] => ~Refused(o)
  BY <1>1, <1>6, <1>8, Creating
<1>13. Operates({o}, Own(body), after)
  BY <1>4, <1>6, <1>7, <1>10, <1>11, <1>12 DEF Operates, Own
<1>14. worker.env \in Specs BY <1>2 DEF Passes
<1> QED BY <1>3, <1>4, <1>5, <1>7, <1>9, <1>12, <1>13, <1>14 DEF o, body, after

LEMMA ServiceStep ==
  ASSUME TypeOK, reconcileService
  PROVE  \E s, value :
           /\ Operates({Service(s)}, value, AfterServices(worker.todo \ {s}))
           /\ UNCHANGED copies
<1>1. ObjectsOK /\ PassOK(worker) /\ RestOK /\ Counters BY TypeParts DEF RestOK
<1>2. worker \in Passes /\ worker # Idle /\ worker.now \in worker.todo
  BY <1>1, Working DEF reconcileService, Steps, PassOK
<1> DEFINE s == worker.now
           value == Own(worker.env.services[s].port)
           after == AfterServices(worker.todo \ {s})
<1>3. s \in Services /\ worker.env.services[s] \in ServiceSpecs
  BY <1>1, <1>2, ServiceListed
<1>4. PassOK(after) BY <1>1, <1>2, AfterOK
<1>5. Service(s) \in Objects /\ objects \in [Objects -> ObjectValues]
  BY <1>1, <1>3 DEF Objects, ObjectsOK, Service
<1>6. UNCHANGED <<spec, cache, sources, copies>> /\ copies \subseteq Secrets
  BY <1>1 DEF reconcileService, RestOK
<1>7. value \in ObjectValues
  BY <1>3, OwnType DEF ServiceSpecs, Bodies
<1>8. CreateOrUpdate(Service(s), value, after) BY DEF reconcileService
<1> HIDE DEF s, value, after
<1>9. Writes({Service(s)}, value) /\ Goes(after)
  BY <1>1, <1>5, <1>8, Creating
<1>10. Operates({Service(s)}, value, after)
  BY <1>4, <1>5, <1>6, <1>7, <1>9, NotDeployment DEF Operates
<1> QED BY <1>6, <1>10 DEF after

LEMMA PruneStep ==
  ASSUME TypeOK, pruneDeployments \/ pruneServices
  PROVE  \E kind \in {"Deployment", "Service"}, after \in {Idle, At("pruneServices")} :
            Operates(Pruned(kind), Unset, after) /\ UNCHANGED copies
<1>1. ObjectsOK /\ PassOK(worker) /\ RestOK /\ Counters BY TypeParts DEF RestOK
<1>2. worker \in Passes /\ worker # Idle
  BY <1>1, Working DEF pruneDeployments, pruneServices, Steps
<1>3. PICK kind \in {"Deployment", "Service"}, after \in {Idle, At("pruneServices")} :
         Delete(Pruned(kind), after)
  BY DEF pruneDeployments, pruneServices
<1>4. PassOK(after)
  BY <1>1, <1>2, AtOK DEF PassOK, Idle
<1>5. Pruned(kind) \in SUBSET Objects
  BY DEF Pruned, Objects
<1>6. UNCHANGED <<spec, cache, sources, copies>> /\ copies \subseteq Secrets
  BY <1>1 DEF pruneDeployments, pruneServices, RestOK
<1>7. Writes(Pruned(kind), Unset) /\ Goes(after)
  BY <1>1, <1>3, <1>5, Deleting DEF ObjectsOK
<1>8. Operates(Pruned(kind), Unset, after)
  BY <1>4, <1>5, <1>6, <1>7, UnsetType DEF Operates
<1> QED BY <1>6, <1>8

LEMMA ErrorStep ==
  ASSUME TypeOK, ApiError
  PROVE  Operates({}, Unset, Idle) /\ UNCHANGED copies
<1>1. ObjectsOK /\ PassOK(worker) /\ RestOK /\ Counters BY TypeParts DEF RestOK
<1>2. UNCHANGED <<spec, cache, cluster, sources, copies>> /\ copies \subseteq Secrets
  BY <1>1 DEF ApiError, RestOK
<1>3. Writes({}, Unset) BY <1>1, <1>2, NoWrite DEF ObjectsOK
<1>4. Goes(Idle) BY <1>1, FaultGoes DEF ApiError
<1>5. PassOK(Idle) BY DEF PassOK, Idle
<1> QED BY <1>2, <1>3, <1>4, <1>5, UnsetType DEF Operates

-----------------------------------------------------------------------------
(* Types, and a cache that is not behind where it does not say so *)

LEMMA OperatesType ==
  ASSUME TypeOK, NEW where, NEW value, NEW after, Operates(where, value, after)
  PROVE  TypeOK' /\ (CacheFresh => CacheFresh')
<1>1. ObjectsOK /\ TemplatesOK /\ PassOK(worker) /\ RestOK BY TypeParts
<1>2. UNCHANGED seen /\ Writes(where, value) BY DEF Operates, cache
<1>3. ObjectsOK' /\ TemplatesOK' BY <1>1, <1>2, WritesType DEF Operates
<1>4. PassOK(worker)' /\ Counters' BY GoesOn DEF Operates
<1>5. RestOK' BY <1>1, <1>4 DEF RestOK, Operates, cache
<1>6. CacheFresh => CacheFresh' BY <1>2, WritesFresh
<1> QED BY <1>3, <1>4, <1>5, <1>6, TypePartsNext

(* People write one object each time, never a Deployment of the operator's but *)
(* for its security context.                                                   *)
Acts(o, value) ==
  /\ Writes({o}, value)
  /\ o \in Objects /\ value \in ObjectValues
  /\ \A s \in Services : o = Deployment(s) /\ IsOwn(value) =>
        IsOwn(objects[o]) /\ \E context \in Contexts :
           value.body = [objects[o].body EXCEPT !.context = context]
  /\ UNCHANGED <<spec, cache, sources, copies, queued, worker>>
  /\ Counters' /\ used'.acts = used.acts + 1

LEMMA TroubleCounts ==
  ASSUME Counters, queued' \in BOOLEAN
  PROVE  /\ Trouble("acts") => Counters' /\ used'.acts = used.acts + 1
         /\ Trouble("restarts") => Counters' /\ used'.acts = used.acts
BY DEF Counters, Trouble

LEMMA ActsType ==
  ASSUME TypeOK, NEW o, NEW value, Acts(o, value)
  PROVE  TypeOK' /\ (CacheFresh => CacheFresh')
<1>1. ObjectsOK /\ TemplatesOK /\ PassOK(worker) /\ RestOK BY TypeParts
<1>2. UNCHANGED seen /\ Writes({o}, value) BY DEF Acts, cache
<1>3. ASSUME NEW s \in Services, Deployment(s) \in {o}, IsOwn(value)
      PROVE  value.body \in Templates
  <2>1. PICK context \in Contexts : value.body = [objects[o].body EXCEPT !.context = context]
    BY <1>3 DEF Acts
  <2>2. objects[o].body \in Templates BY <1>1, <1>3 DEF Acts, TemplatesOK
  <2> QED BY <2>1, <2>2 DEF Templates
<1>4. ObjectsOK' /\ TemplatesOK' BY <1>1, <1>2, <1>3, WritesType DEF Acts
<1>5. RestOK' /\ PassOK(worker)' BY <1>1 DEF RestOK, Acts, cache, PassOK
<1>6. CacheFresh => CacheFresh' BY <1>2, WritesFresh
<1> QED BY <1>4, <1>5, <1>6, TypePartsNext

LEMMA PutActs ==
  ASSUME TypeOK, NEW o \in Objects, Put(o)
  PROVE  Acts(o, Foreign)
<1>1. ObjectsOK /\ Counters BY TypeParts DEF RestOK
<1>2. Writes({o}, Foreign) BY <1>1, SetOne DEF Put, ObjectsOK
<1>3. Foreign \in ObjectValues /\ ~IsOwn(Foreign)
  BY DEF Foreign, ObjectValues, Bodies, IsOwn
<1>4. Counters' /\ used'.acts = used.acts + 1
  BY <1>1, TroubleCounts DEF Put, Counters
<1> QED BY <1>2, <1>3, <1>4 DEF Put, Acts

LEMMA RemoveActs ==
  ASSUME TypeOK, NEW o \in Objects, Remove(o)
  PROVE  Acts(o, Unset)
<1>1. ObjectsOK /\ Counters BY TypeParts DEF RestOK
<1>2. Writes({o}, Unset) BY <1>1, SetOne DEF Remove, ObjectsOK
<1>3. Counters' /\ used'.acts = used.acts + 1
  BY <1>1, TroubleCounts DEF Remove, Counters
<1> QED BY <1>2, <1>3, UnsetType DEF Remove, Acts

LEMMA EditContextActs ==
  ASSUME TypeOK, NEW s \in Services, EditContext(s)
  PROVE  \E value : Acts(Deployment(s), value)
<1>1. ObjectsOK /\ TemplatesOK /\ Counters BY TypeParts DEF RestOK
<1> DEFINE o == Deployment(s)
<1>2. PICK context \in Contexts :
         Set([x \in {o} |-> Own([objects[o].body EXCEPT !.context = context])])
  BY DEF EditContext
<1> DEFINE body == [objects[o].body EXCEPT !.context = context]
<1>3. o \in Objects /\ IsOwn(objects[o]) BY DEF Objects, Deployment, EditContext
<1>4. body \in Bodies
  <2>1. objects[o].body \in Templates BY <1>1, <1>3 DEF TemplatesOK
  <2>2. body \in Templates BY <2>1 DEF Templates
  <2> QED BY <2>2 DEF Bodies
<1>5. Own(body) \in ObjectValues BY <1>4, OwnType
<1>6. Writes({o}, Own(body)) BY <1>1, <1>2, <1>3, SetOne DEF ObjectsOK
<1>7. Counters' /\ used'.acts = used.acts + 1
  BY <1>1, TroubleCounts DEF EditContext, Counters
<1>8. Own(body).body = body BY DEF Own
<1>9. UNCHANGED <<spec, cache, sources, copies, queued, worker>> BY DEF EditContext
<1> HIDE DEF o
<1>10. Acts(o, Own(body)) BY <1>3, <1>5, <1>6, <1>7, <1>8, <1>9 DEF Acts
<1> QED BY <1>10 DEF o

LEMMA DeliverStep ==
  ASSUME TypeOK, NEW o \in Objects, Deliver(o)
  PROVE  TypeOK' /\ (CacheFresh => CacheFresh')
<1>1. ObjectsOK /\ TemplatesOK /\ PassOK(worker) /\ RestOK BY TypeParts
<1>2. /\ behind' = behind \ {o} /\ seen' = [seen EXCEPT ![o] = objects[o]]
      /\ objects' = objects /\ worker' = worker
      /\ UNCHANGED <<spec, specSeen, sources, copies, used>>
  BY DEF Deliver
<1>3. queued' \in BOOLEAN BY <1>1 DEF Deliver, RestOK, Counters, IsOwn, ObjectsOK, ObjectValues
<1>4. ObjectsOK' BY <1>1, <1>2 DEF ObjectsOK
<1>5. \A p \in Objects : seen'[p] \in {seen[p], objects[p]}
  BY <1>1, <1>2 DEF ObjectsOK
<1>6. TemplatesOK'
  <2>1. \A s \in Services : Deployment(s) \in Objects BY DEF Deployment, Objects
  <2> QED BY <1>1, <1>2, <1>5, <2>1 DEF TemplatesOK
<1>7. PassOK(worker)' BY <1>1, <1>2 DEF PassOK
<1>8. RestOK' BY <1>1, <1>2, <1>3 DEF RestOK, Counters
<1>9. CacheFresh => CacheFresh' BY <1>1, <1>2 DEF CacheFresh, ObjectsOK
<1> QED BY <1>4, <1>6, <1>7, <1>8, <1>9, TypePartsNext

LEMMA RestartStep ==
  ASSUME TypeOK, Restart
  PROVE  TypeOK' /\ CacheFresh'
<1>1. ObjectsOK /\ TemplatesOK /\ PassOK(worker) /\ RestOK /\ Counters
  BY TypeParts DEF RestOK
<1>2. /\ specSeen' = spec /\ seen' = objects /\ behind' = {} /\ worker' = Idle
      /\ queued' = TRUE /\ UNCHANGED <<spec, objects, sources, copies>>
  BY DEF Restart, Abandon
<1>3. Counters' BY <1>1, <1>2, TroubleCounts DEF Restart, Counters
<1>4. ObjectsOK' BY <1>1, <1>2 DEF ObjectsOK
<1>5. TemplatesOK' BY <1>1, <1>2 DEF TemplatesOK
<1>6. PassOK(worker)' BY <1>2 DEF PassOK, Idle
<1>7. RestOK' BY <1>1, <1>2, <1>3 DEF RestOK
<1>8. CacheFresh' BY <1>2 DEF CacheFresh
<1> QED BY <1>4, <1>5, <1>6, <1>7, <1>8, TypePartsNext

(* Steps that touch neither the objects nor what the cache shows of them.      *)
LEMMA QuietStep ==
  ASSUME TypeOK, UNCHANGED <<cluster, seen>>, PassOK(worker)',
         spec' \in Specs, specSeen' \in Specs, sources' \subseteq Secrets,
         copies' = copies, Counters'
  PROVE  TypeOK' /\ (CacheFresh => CacheFresh')
<1>1. ObjectsOK /\ TemplatesOK /\ RestOK BY TypeParts
<1>2. ObjectsOK' BY <1>1 DEF ObjectsOK, cluster
<1>3. TemplatesOK' BY <1>1 DEF TemplatesOK, cluster
<1>4. RestOK' BY <1>1 DEF RestOK
<1>5. CacheFresh => CacheFresh' BY DEF CacheFresh, cluster
<1> QED BY <1>2, <1>3, <1>4, <1>5, TypePartsNext

LEMMA ReconcileStep ==
  ASSUME TypeOK, Reconcile
  PROVE  TypeOK' /\ (CacheFresh => CacheFresh')
<1>1. PassOK(worker) /\ RestOK /\ Counters BY TypeParts DEF RestOK
<1>2. PassOK(worker)'
  <2>1. specSeen \in Specs BY <1>1 DEF RestOK
  <2>2. Listed(specSeen) \subseteq Services BY DEF Listed
  <2>3. worker' \in Passes BY <2>1, <2>2 DEF Reconcile, Passes, Steps
  <2> QED BY <2>3 DEF PassOK, Reconcile
<1>3. RestOK' /\ Counters' BY <1>1 DEF Reconcile, RestOK, Counters, cache
<1> QED BY <1>2, <1>3, QuietStep DEF Reconcile, RestOK, cache

LEMMA OutsideStep ==
  ASSUME TypeOK, DeliverSpec \/ Wake \/ Edit \/ \E x \in Secrets : TurnSource(x)
  PROVE  TypeOK' /\ (CacheFresh => CacheFresh')
<1>1. PassOK(worker) /\ RestOK /\ Counters BY TypeParts DEF RestOK
<1>2. UNCHANGED <<cluster, seen, worker, copies>>
  BY DEF DeliverSpec, Wake, Edit, TurnSource, cache
<1>3. spec' \in Specs /\ specSeen' \in Specs
  BY <1>1 DEF DeliverSpec, Wake, Edit, TurnSource, cache, RestOK
<1>4. sources' \subseteq Secrets
  BY <1>1 DEF DeliverSpec, Wake, Edit, TurnSource, RestOK
<1>5. Counters'
  <2>1. CASE Edit BY <1>1, <2>1 DEF Edit, Counters
  <2>2. CASE \E x \in Secrets : TurnSource(x)
    BY <1>1, <2>2, TroubleCounts DEF TurnSource, Counters
  <2>3. CASE DeliverSpec \/ Wake BY <1>1, <2>3 DEF DeliverSpec, Wake, Counters
  <2> QED BY <2>1, <2>2, <2>3
<1>6. PassOK(worker)' BY <1>1, <1>2 DEF PassOK
<1> QED BY <1>2, <1>3, <1>4, <1>5, <1>6, QuietStep

(* Every step is one of the operator, one of people, or one of the cache and   *)
(* the queue.                                                                  *)
OperatorStep == Pass \/ ApiError
PeopleStep ==
  \/ \E o \in Objects : Put(o) \/ Remove(o)
  \/ \E s \in Services : EditContext(s)
CacheStep ==
  \/ DeliverSpec \/ Wake \/ Restart \/ Edit
  \/ \E o \in Objects : Deliver(o)
  \/ \E x \in Secrets : TurnSource(x)

LEMMA NextSteps == Next <=> OperatorStep \/ PeopleStep \/ CacheStep
BY DEF Next, OperatorStep, PeopleStep, CacheStep

LEMMA PeopleActs ==
  ASSUME TypeOK, PeopleStep
  PROVE  \E o, value : Acts(o, value)
BY PutActs, RemoveActs, EditContextActs DEF PeopleStep

LEMMA NextType ==
  ASSUME TypeOK, Next
  PROVE  TypeOK' /\ (CacheFresh => CacheFresh')
<1>1. CASE OperatorStep
  <2>1. CASE Reconcile BY <2>1, ReconcileStep
  <2>2. CASE reconcileConfigMap BY <2>2, ConfigStep, OperatesType
  <2>3. CASE reconcileSecrets BY <2>3, SecretsStep, OperatesType
  <2>4. CASE reconcilePVC BY <2>4, ClaimStep, OperatesType
  <2>5. CASE \E s \in Services : reconcileDeployment(s)
    BY <2>5, DeploymentStep, OperatesType
  <2>6. CASE reconcileService BY <2>6, ServiceStep, OperatesType
  <2>7. CASE pruneDeployments \/ pruneServices BY <2>7, PruneStep, OperatesType
  <2>8. CASE ApiError BY <2>8, ErrorStep, OperatesType
  <2> QED
    BY <1>1, <2>1, <2>2, <2>3, <2>4, <2>5, <2>6, <2>7, <2>8 DEF OperatorStep, Pass
<1>2. CASE PeopleStep BY <1>2, PeopleActs, ActsType
<1>3. CASE CacheStep
  <2>1. CASE \E o \in Objects : Deliver(o) BY <2>1, DeliverStep
  <2>2. CASE Restart BY <2>2, RestartStep
  <2> QED BY <1>3, <2>1, <2>2, OutsideStep DEF CacheStep
<1> QED BY <1>1, <1>2, <1>3, NextSteps

LEMMA StutterType ==
  ASSUME TypeOK, UNCHANGED vars
  PROVE  TypeOK' /\ (CacheFresh => CacheFresh')
<1>1. PassOK(worker) /\ RestOK /\ Counters BY TypeParts DEF RestOK
<1>2. PassOK(worker)' /\ Counters' BY <1>1 DEF vars, PassOK, Counters
<1> QED BY <1>1, <1>2, QuietStep DEF vars, cache, RestOK

(* The variables keep their types, for any services, specs and bounds; what    *)
(* the operator has made of a Deployment is always a template it can start     *)
(* from again (reconcileDeployment), and a pass is never at a service its spec *)
(* does not list (reconcileEnvironment, the loop over spec.services).          *)
THEOREM TypeCorrect == Spec => []TypeOK
<1>1. Init => TypeOK BY InitType
<1>2. TypeOK /\ [Next]_vars => TypeOK' BY NextType, StutterType
<1> QED BY <1>1, <1>2, PTL DEF Spec

(* The cache is behind on whatever it does not show as it is: what lets a      *)
(* write that is not refused start from the object that is there.              *)
LEMMA CacheCorrect == Spec => [](TypeOK /\ CacheFresh)
<1>1. Init => TypeOK /\ CacheFresh BY InitType DEF Init, CacheFresh
<1>2. (TypeOK /\ CacheFresh) /\ [Next]_vars => (TypeOK /\ CacheFresh)'
  BY NextType, StutterType
<1> QED BY <1>1, <1>2, PTL DEF Spec

-----------------------------------------------------------------------------
(* What a pod refers to is there before it is *)

ClaimThere == objects[pvcName] # Unset

(* A pass past the Secrets has them, a pass past the claim has that.           *)
Prepared ==
  /\ worker.pc \in {"claim", "deployment", "service", "pruneDeployments", "pruneServices"} =>
        referencedSecrets(worker.env) \subseteq copies
  /\ worker.pc \in {"deployment", "service", "pruneDeployments", "pruneServices"} =>
        (worker.env.storage # Unset => ClaimThere)

BackedBy(body) == SecretsOf(body) \subseteq copies /\ (body.volume => ClaimThere)

DeploymentsBacked ==
  \A s \in Services :
     IsOwn(objects[Deployment(s)]) => BackedBy(objects[Deployment(s)].body)

(* What TemplatesBacked needs to be inductive: where the pass is, and that     *)
(* nobody has taken away a claim the cache still shows.                        *)
BackedInv ==
  used.acts = 0 => DeploymentsBacked /\ Prepared /\ (seen[pvcName] # Unset => ClaimThere)

LEMMA OperatesBacked ==
  ASSUME TypeOK, BackedInv, NEW where, NEW value, NEW after, Operates(where, value, after),
         objects[pvcName] # Unset => objects'[pvcName] # Unset,
         used.acts = 0 =>
           \A s \in Services : Deployment(s) \in where /\ IsOwn(value) => BackedBy(value.body),
         used.acts = 0 /\ worker' # Idle => Prepared'
  PROVE  BackedInv'
<1> SUFFICES ASSUME used'.acts = 0
             PROVE  DeploymentsBacked' /\ Prepared' /\ (seen'[pvcName] # Unset => ClaimThere')
  BY DEF BackedInv
<1>1. used.acts = 0 /\ seen' = seen /\ copies \subseteq copies' /\ Writes(where, value)
  BY DEF Operates, Goes, cache
<1>2. DeploymentsBacked /\ (seen[pvcName] # Unset => ClaimThere) BY <1>1 DEF BackedInv
<1>3. ClaimThere => ClaimThere' BY DEF ClaimThere
<1>4. ASSUME NEW s \in Services, IsOwn(objects'[Deployment(s)])
      PROVE  /\ SecretsOf(objects'[Deployment(s)].body) \subseteq copies'
             /\ objects'[Deployment(s)].body.volume => ClaimThere'
  <2>1. Deployment(s) \in Objects BY DEF Deployment, Objects
  <2>2. BackedBy(objects'[Deployment(s)].body)
    <3>1. CASE objects'[Deployment(s)] = objects[Deployment(s)]
      BY <1>2, <1>4, <3>1 DEF DeploymentsBacked
    <3>2. CASE objects'[Deployment(s)] # objects[Deployment(s)]
      BY <1>1, <1>4, <2>1, <3>2 DEF Writes
    <3> QED BY <3>1, <3>2
  <2> QED BY <1>1, <1>3, <2>2 DEF BackedBy
<1>5. DeploymentsBacked' BY <1>4 DEF DeploymentsBacked, BackedBy
<1>6. Prepared'
  <2>1. CASE worker' = Idle BY <2>1 DEF Prepared, Idle
  <2> QED BY <1>1, <2>1
<1> QED BY <1>1, <1>2, <1>3, <1>5, <1>6

(* The claim is written by one step only.                                      *)
LEMMA ClaimKept ==
  ASSUME TypeOK, NEW where, NEW value, NEW after, Operates(where, value, after),
         pvcName \notin where
  PROVE  objects'[pvcName] = objects[pvcName]
BY DEF Operates, Writes, Objects

LEMMA StillPrepared ==
  ASSUME BackedInv, used.acts = 0, copies \subseteq copies', ClaimThere => ClaimThere',
         worker.pc \in {"deployment", "service", "pruneDeployments", "pruneServices"},
         worker'.env = worker.env
  PROVE  Prepared'
BY DEF BackedInv, Prepared

LEMMA NextBacked ==
  ASSUME TypeOK, BackedInv, Next
  PROVE  BackedInv'
<1>1. CASE OperatorStep
  <2>1. CASE Reconcile
    BY <2>1 DEF Reconcile, BackedInv, DeploymentsBacked, BackedBy, ClaimThere, Prepared,
                cluster, cache
  <2>2. CASE reconcileConfigMap
    <3>1. PICK value : Operates({configMapName}, value, At("secrets")) BY <2>2, ConfigStep
    <3>2. objects'[pvcName] = objects[pvcName]
      BY <3>1, ClaimKept DEF configMapName, pvcName
    <3>3. worker' # Idle => worker'.pc = "secrets"
      <4>1. At("secrets").pc = "secrets"
        BY <2>2, TypeParts, Working DEF At, Passes, reconcileConfigMap, Steps
      <4> QED BY <3>1, <4>1 DEF Operates, Goes
    <3>4. worker' # Idle => Prepared' BY <3>3 DEF Prepared
    <3> QED BY <3>1, <3>2, <3>4, OperatesBacked, NotDeployment
  <2>3. CASE reconcileSecrets
    <3>1. /\ Operates({}, Unset, At("claim"))
          /\ worker' # Idle => referencedSecrets(worker.env) \subseteq copies'
      BY <2>3, SecretsStep
    <3>2. objects'[pvcName] = objects[pvcName] BY <3>1, ClaimKept
    <3>3. worker' # Idle => worker'.pc = "claim" /\ worker'.env = worker.env
      <4>1. At("claim").pc = "claim" /\ At("claim").env = worker.env
        BY <2>3, TypeParts, Working DEF At, Passes, reconcileSecrets, Steps
      <4> QED BY <3>1, <4>1 DEF Operates, Goes
    <3>4. worker' # Idle => Prepared' BY <3>1, <3>3 DEF Prepared
    <3> QED BY <3>1, <3>2, <3>4, OperatesBacked
  <2>4. CASE reconcilePVC
    <3>1. PICK value :
             /\ Operates({pvcName}, value, AfterServices(worker.todo))
             /\ objects'[pvcName] # objects[pvcName] => objects'[pvcName] # Unset
             /\ worker' # Idle /\ worker.env.storage # Unset =>
                  seen[pvcName] # Unset \/ objects'[pvcName] # Unset
             /\ UNCHANGED copies
      BY <2>4, ClaimStep
    <3>2. worker' # Idle => worker'.env = worker.env
      <4>1. AfterServices(worker.todo).env = worker.env
        BY <2>4, TypeParts, Working DEF AfterServices, Passes, reconcilePVC, Steps
      <4> QED BY <3>1, <4>1 DEF Operates, Goes
    <3>3. used.acts = 0 /\ worker' # Idle => Prepared'
      BY <2>4, <3>1, <3>2 DEF BackedInv, Prepared, ClaimThere, reconcilePVC
    <3> QED BY <3>1, <3>3, OperatesBacked, NotDeployment
  <2>5. CASE \E s \in Services : reconcileDeployment(s)
    <3>1. PICK s \in Services : reconcileDeployment(s) BY <2>5
    <3>2. PICK context \in Contexts :
             /\ Operates({Deployment(s)},
                         Own(Template(worker.env, worker.env.services[s], context)), AtService(s))
             /\ AtService(s).env = worker.env
             /\ s \in Listed(worker.env) /\ worker.env \in EnvSpecs
             /\ UNCHANGED copies
      BY <3>1, DeploymentStep
    <3> DEFINE body == Template(worker.env, worker.env.services[s], context)
    <3>3. objects'[pvcName] = objects[pvcName] BY <3>2, ClaimKept, NotDeployment
    <3>4. used.acts = 0 => BackedBy(body)
      <4>1. SecretsOf(body) \subseteq referencedSecrets(worker.env) BY <3>2, SecretsCollected
      <4>2. body.volume => worker.env.storage # Unset BY DEF Template, Mounts
      <4>3. worker.pc = "deployment" BY <3>1 DEF reconcileDeployment
      <4> QED BY <4>1, <4>2, <4>3 DEF BackedInv, Prepared, BackedBy
    <3>5. used.acts = 0 /\ worker' # Idle => Prepared'
      <4>1. worker' # Idle => worker'.env = worker.env BY <3>2 DEF Operates, Goes
      <4> QED BY <3>1, <3>2, <3>3, <4>1, StillPrepared DEF ClaimThere, reconcileDeployment
    <3>6. Own(body).body = body BY DEF Own
    <3> HIDE DEF body
    <3> QED BY <3>2, <3>3, <3>4, <3>5, <3>6, OperatesBacked DEF body
  <2>6. CASE reconcileService
    <3>1. PICK s, value :
             Operates({Service(s)}, value, AfterServices(worker.todo \ {s})) /\ UNCHANGED copies
      BY <2>6, ServiceStep
    <3>2. objects'[pvcName] = objects[pvcName] BY <3>1, ClaimKept, NotDeployment
    <3>3. worker' # Idle => worker'.env = worker.env
      <4>1. AfterServices(worker.todo \ {s}).env = worker.env
        BY <2>6, TypeParts, Working DEF AfterServices, Passes, reconcileService, Steps
      <4> QED BY <3>1, <4>1 DEF Operates, Goes
    <3>4. used.acts = 0 /\ worker' # Idle => Prepared'
      BY <2>6, <3>1, <3>2, <3>3, StillPrepared DEF ClaimThere, reconcileService
    <3> QED BY <3>1, <3>2, <3>4, OperatesBacked, NotDeployment
  <2>7. CASE pruneDeployments \/ pruneServices
    <3>1. PICK kind \in {"Deployment", "Service"}, after \in {Idle, At("pruneServices")} :
             Operates(Pruned(kind), Unset, after) /\ UNCHANGED copies
      BY <2>7, PruneStep
    <3>2. pvcName \notin Pruned(kind) BY DEF Pruned, pvcName
    <3>3. objects'[pvcName] = objects[pvcName] BY <3>1, <3>2, ClaimKept
    <3>4. worker' # Idle => worker'.env = worker.env
      <4>1. At("pruneServices").env = worker.env
        BY <2>7, TypeParts, Working DEF At, Passes, pruneDeployments, pruneServices, Steps
      <4> QED BY <3>1, <4>1 DEF Operates, Goes
    <3>5. used.acts = 0 /\ worker' # Idle => Prepared'
      BY <2>7, <3>1, <3>3, <3>4, StillPrepared
         DEF ClaimThere, pruneDeployments, pruneServices
    <3> QED BY <3>1, <3>3, <3>5, OperatesBacked, UnsetType
  <2>8. CASE ApiError
    <3>1. Operates({}, Unset, Idle) BY <2>8, ErrorStep
    <3>2. objects'[pvcName] = objects[pvcName] BY <3>1, ClaimKept
    <3>3. worker' = Idle BY <3>1 DEF Operates, Goes
    <3> QED BY <3>1, <3>2, <3>3, OperatesBacked
  <2> QED
    BY <1>1, <2>1, <2>2, <2>3, <2>4, <2>5, <2>6, <2>7, <2>8 DEF OperatorStep, Pass
<1>2. CASE PeopleStep
  <2>1. used'.acts = used.acts + 1 /\ used.acts \in Nat
    BY <1>2, PeopleActs, TypeParts DEF Acts, RestOK, Counters
  <2> QED BY <2>1 DEF BackedInv
<1>3. CASE CacheStep
  <2>1. used'.acts = 0 => used.acts = 0
    <3>1. Counters BY TypeParts DEF RestOK
    <3>2. CASE Edit BY <3>1, <3>2 DEF Edit, Counters
    <3>3. CASE Restart
      <4>1. queued' \in BOOLEAN BY <3>3 DEF Restart, Abandon
      <4> QED BY <3>1, <3>3, <4>1, TroubleCounts DEF Restart
    <3>4. CASE \E x \in Secrets : TurnSource(x)
      BY <3>1, <3>4 DEF TurnSource, Trouble, Counters
    <3>5. CASE DeliverSpec \/ Wake \/ \E o \in Objects : Deliver(o)
      BY <3>5 DEF DeliverSpec, Wake, Deliver
    <3> QED BY <1>3, <3>2, <3>3, <3>4, <3>5 DEF CacheStep
  <2>2. UNCHANGED <<objects, copies>> /\ worker' \in {worker, Idle}
    BY <1>3 DEF CacheStep, DeliverSpec, Wake, Restart, Edit, Deliver, TurnSource,
                cluster, Abandon
  <2>3. seen'[pvcName] \in {seen[pvcName], objects[pvcName]}
    <3>1. pvcName \in Objects /\ seen \in [Objects -> ObjectValues]
      BY TypeParts DEF ObjectsOK, Objects
    <3>2. CASE \E o \in Objects : Deliver(o) BY <3>1, <3>2 DEF Deliver
    <3>3. CASE DeliverSpec \/ Wake \/ Restart \/ Edit \/ \E x \in Secrets : TurnSource(x)
      BY <3>3 DEF DeliverSpec, Wake, Restart, Edit, TurnSource, cache
    <3> QED BY <1>3, <3>2, <3>3 DEF CacheStep
  <2>4. Prepared => Prepared' BY <2>2 DEF Prepared, Idle, ClaimThere
  <2>5. DeploymentsBacked => DeploymentsBacked'
    BY <2>2 DEF DeploymentsBacked, BackedBy, ClaimThere
  <2> QED BY <2>1, <2>2, <2>3, <2>4, <2>5 DEF BackedInv, ClaimThere
<1> QED BY <1>1, <1>2, <1>3, NextSteps

(* Unless people interfere, the Secrets a pod refers to have been copied and   *)
(* its claim exists before the pod is asked for, through failed passes, stale  *)
(* caches and edits that overtake a pass (the order of reconcileEnvironment,   *)
(* and what referencedSecrets collects).                                       *)
THEOREM BackedCorrect == Spec => []TemplatesBacked
<1>1. Init => BackedInv
  <2> SUFFICES ASSUME Init PROVE BackedInv OBVIOUS
  <2>1. \A s \in Services : objects[Deployment(s)] = Unset
    BY DEF Init, Deployment, Objects
  <2>2. seen[pvcName] = Unset BY DEF Init, Objects
  <2>3. DeploymentsBacked BY <2>1 DEF DeploymentsBacked, IsOwn
  <2>4. Prepared BY DEF Init, Idle, Prepared
  <2> QED BY <2>2, <2>3, <2>4 DEF BackedInv
<1>2. TypeOK /\ BackedInv /\ [Next]_vars => BackedInv'
  <2>1. ASSUME BackedInv, UNCHANGED vars PROVE BackedInv'
    BY <2>1 DEF vars, cache, cluster, BackedInv, DeploymentsBacked, BackedBy, Prepared,
                ClaimThere
  <2> QED BY <2>1, NextBacked
<1>3. BackedInv => TemplatesBacked
  BY DEF BackedInv, TemplatesBacked, DeploymentsBacked, BackedBy, ClaimThere
<1> QED BY <1>1, <1>2, <1>3, TypeCorrect, PTL DEF Spec

-----------------------------------------------------------------------------
(* What is in a Deployment *)

(* The steps that leave every Deployment as it was, or take it away.           *)
DeploymentsOnlyGo ==
  \A s \in Services : objects'[Deployment(s)] \in {objects[Deployment(s)], Unset}

LEMMA OperatesElsewhere ==
  ASSUME TypeOK, NEW where, NEW value, NEW after, Operates(where, value, after),
         value = Unset \/ \A s \in Services : Deployment(s) \notin where
  PROVE  DeploymentsOnlyGo
<1>1. \A s \in Services : Deployment(s) \in Objects BY DEF Deployment, Objects
<1> QED BY <1>1 DEF Operates, Writes, DeploymentsOnlyGo

LEMMA OthersOnlyGo ==
  ASSUME TypeOK, OperatorStep \/ CacheStep, ~\E s \in Services : reconcileDeployment(s)
  PROVE  DeploymentsOnlyGo
<1>1. CASE Reconcile
  BY <1>1 DEF Reconcile, cluster, DeploymentsOnlyGo
<1>2. CASE reconcileConfigMap
  BY <1>2, ConfigStep, OperatesElsewhere, NotDeployment
<1>3. CASE reconcileSecrets
  BY <1>3, SecretsStep, OperatesElsewhere
<1>4. CASE reconcilePVC
  BY <1>4, ClaimStep, OperatesElsewhere, NotDeployment
<1>5. CASE reconcileService
  <2>1. PICK s, value : Operates({Service(s)}, value, AfterServices(worker.todo \ {s}))
    BY <1>5, ServiceStep
  <2> QED BY <2>1, OperatesElsewhere, NotDeployment
<1>6. CASE pruneDeployments \/ pruneServices
  BY <1>6, PruneStep, OperatesElsewhere
<1>7. CASE ApiError
  BY <1>7, ErrorStep, OperatesElsewhere
<1>8. CASE CacheStep
  <2>1. objects' = objects
    BY <1>8 DEF CacheStep, DeliverSpec, Wake, Restart, Edit, Deliver, TurnSource, cluster
  <2> QED BY <2>1 DEF DeploymentsOnlyGo
<1> QED
  BY <1>1, <1>2, <1>3, <1>4, <1>5, <1>6, <1>7, <1>8 DEF OperatorStep, Pass

(* The reference of a Deployment of service s is what one of the specs         *)
(* promises for s.                                                             *)
Promised(s, ref) ==
  \E env \in Specs : s \in Listed(env) /\ Resolves(env, env.services[s], ref)

DeploymentsPromised ==
  \A s \in Services : IsOwn(objects[Deployment(s)]) => Promised(s, objects[Deployment(s)].body.ref)

(* Whatever the operator deploys pulls the image of a spec, from the host the  *)
(* image names if Docker sees one in it, else from the registry in force; no   *)
(* registry is ever put in front of a host (imageRef, hasRegistry).            *)
THEOREM ImagesCorrect == Spec => []ImagesResolved
<1>1. Init => DeploymentsPromised
  <2>1. \A s \in Services : Deployment(s) \in Objects BY DEF Deployment, Objects
  <2> QED BY <2>1 DEF Init, DeploymentsPromised, IsOwn
<1>2. ASSUME TypeOK, DeploymentsPromised, Next PROVE DeploymentsPromised'
  <2>1. CASE DeploymentsOnlyGo
    BY <1>2, <2>1 DEF DeploymentsOnlyGo, DeploymentsPromised, IsOwn
  <2>2. CASE \E s \in Services : reconcileDeployment(s)
    <3>1. PICK s \in Services, context \in Contexts :
             /\ Operates({Deployment(s)},
                         Own(Template(worker.env, worker.env.services[s], context)), AtService(s))
             /\ worker.env \in Specs /\ s \in Listed(worker.env)
      BY <1>2, <2>2, DeploymentStep
    <3> DEFINE body == Template(worker.env, worker.env.services[s], context)
    <3>2. Promised(s, body.ref) /\ Own(body).body = body
      <4>1. worker.env.services[s].image \in Images
        BY <3>1, SpecsAssumption DEF EnvSpecs, ServiceSpecs, Listed
      <4> QED BY <3>1, <4>1, RenderedResolves DEF Promised, Own
    <3> HIDE DEF body
    <3>3. \A t \in Services : Deployment(t) \in Objects BY DEF Deployment, Objects
    <3>4. \A t \in Services :
             /\ objects'[Deployment(t)] \in {objects[Deployment(t)], Own(body)}
             /\ t # s => objects'[Deployment(t)] = objects[Deployment(t)]
      BY <3>1, <3>3 DEF Operates, Writes, Deployment, body
    <3> QED BY <1>2, <3>2, <3>4 DEF DeploymentsPromised
  <2>3. CASE PeopleStep
    <3>1. PICK o, value : Acts(o, value) BY <1>2, <2>3, PeopleActs
    <3> SUFFICES ASSUME NEW s \in Services, IsOwn(objects'[Deployment(s)])
                 PROVE  Promised(s, objects'[Deployment(s)].body.ref)
      BY DEF DeploymentsPromised
    <3>2. Deployment(s) \in Objects BY DEF Deployment, Objects
    <3>3. CASE objects'[Deployment(s)] = objects[Deployment(s)]
      BY <1>2, <3>3 DEF DeploymentsPromised
    <3>4. CASE objects'[Deployment(s)] # objects[Deployment(s)]
      <4>1. o = Deployment(s) /\ objects'[o] = value /\ IsOwn(value)
        BY <3>1, <3>2, <3>4 DEF Acts, Writes
      <4>2. PICK context \in Contexts :
              value.body = [objects[o].body EXCEPT !.context = context]
        BY <3>1, <4>1 DEF Acts
      <4>3. IsOwn(objects[o]) /\ objects[o].body \in Templates
        BY <1>2, <3>1, <4>1, TypeParts DEF Acts, TemplatesOK
      <4>4. value.body.ref = objects[o].body.ref BY <4>2, <4>3 DEF Templates
      <4> QED BY <1>2, <4>1, <4>3, <4>4 DEF DeploymentsPromised
    <3> QED BY <3>3, <3>4
  <2> QED BY <1>2, <2>1, <2>2, <2>3, OthersOnlyGo, NextSteps
<1>3. ASSUME DeploymentsPromised, UNCHANGED vars PROVE DeploymentsPromised'
  BY <1>3 DEF vars, cluster, DeploymentsPromised
<1>4. DeploymentsPromised => ImagesResolved
  BY HostsRecognised DEF DeploymentsPromised, Promised, ImagesResolved
<1> QED BY <1>1, <1>2, <1>3, <1>4, TypeCorrect, PTL DEF Spec

(* No step of the operator changes what somebody else has set in the security  *)
(* context of a pod: a write starts from what the cache shows, and one from a  *)
(* cache that is behind on the Deployment is refused (applyFSGroup,            *)
(* CreateOrUpdate).                                                            *)
THEOREM ContextCorrect == Spec => ContextKept
<1> DEFINE Kept == used'.acts = used.acts =>
             \A s \in Services :
               LET o == Deployment(s)
               IN  IsOwn(objects[o]) /\ IsOwn(objects'[o])
                     => objects'[o].body.context.other = objects[o].body.context.other
<1>1. ASSUME TypeOK, CacheFresh, Next PROVE Kept
  <2>1. CASE DeploymentsOnlyGo
    BY <2>1 DEF DeploymentsOnlyGo, IsOwn
  <2>2. CASE \E s \in Services : reconcileDeployment(s)
    <3>1. PICK s \in Services : reconcileDeployment(s) BY <2>2
    <3>2. PICK context \in Contexts :
             /\ Operates({Deployment(s)},
                         Own(Template(worker.env, worker.env.services[s], context)), AtService(s))
             /\ objects'[Deployment(s)] # objects[Deployment(s)] => ~Refused(Deployment(s))
             /\ IsOwn(seen[Deployment(s)]) => context = seen[Deployment(s)].body.context
      BY <1>1, <3>1, DeploymentStep
    <3> DEFINE body == Template(worker.env, worker.env.services[s], context)
    <3>3. body.context.other = context.other /\ Own(body).body = body
      BY <3>2, OtherKept DEF Own
    <3>4. \A t \in Services : Deployment(t) \in Objects BY DEF Deployment, Objects
    <3> SUFFICES ASSUME NEW t \in Services, IsOwn(objects[Deployment(t)]),
                        IsOwn(objects'[Deployment(t)])
                 PROVE  objects'[Deployment(t)].body.context.other
                          = objects[Deployment(t)].body.context.other
      OBVIOUS
    <3>5. CASE objects'[Deployment(t)] # objects[Deployment(t)]
      <4>1. t = s /\ objects'[Deployment(s)] = Own(body)
        BY <3>2, <3>4, <3>5 DEF Operates, Writes, Deployment
      <4>2. ~Refused(Deployment(s)) BY <3>2, <3>5, <4>1
      <4>3. objects[Deployment(s)] # Unset BY <4>1 DEF IsOwn
      <4>4. seen[Deployment(s)] # Unset BY <4>2, <4>3 DEF Refused
      <4>5. Deployment(s) \notin behind BY <4>2, <4>4 DEF Refused
      <4>6. seen[Deployment(s)] = objects[Deployment(s)]
        BY <1>1, <3>4, <4>5 DEF CacheFresh
      <4>7. context = objects[Deployment(s)].body.context BY <3>2, <4>1, <4>6
      <4> QED BY <3>3, <4>1, <4>7
    <3> QED BY <3>5
  <2>3. CASE PeopleStep
    <3>1. used'.acts = used.acts + 1 /\ used.acts \in Nat
      BY <1>1, <2>3, PeopleActs, TypeParts DEF Acts, RestOK, Counters
    <3> QED BY <3>1
  <2> QED BY <1>1, <2>1, <2>2, <2>3, OthersOnlyGo, NextSteps
<1>2. ASSUME UNCHANGED vars PROVE Kept
  BY <1>2 DEF vars, cluster
<1>3. TypeOK /\ CacheFresh /\ [Next]_vars => [Kept]_vars
  BY <1>1, <1>2
<1> QED BY <1>3, CacheCorrect, PTL DEF Spec, ContextKept
=============================================================================
