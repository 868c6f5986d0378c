------------------------- MODULE EnvironmentObjects -------------------------
(***************************************************************************)
(* The objects of one environment inside its namespace: the ConfigMap, the *)
(* claim, and a Deployment and a Service for each service of the spec.     *)
(* The operator works from its cache, which shows each object as it was at *)
(* some earlier moment; people edit the spec and the objects meanwhile.    *)
(*                                                                         *)
(* The namespace is there and is the operator's (NamespaceLifecycle has    *)
(* its life), the status is EnvironmentStatus's, and what is in one Secret *)
(* and its copy, and how a copy is replaced when the source changes type,  *)
(* is SecretCopy's: here a Secret can be copied or not.  A read of the     *)
(* cache and the write made from it are one step: what changes in between  *)
(* is a change the cache has not shown yet.                                *)
(***************************************************************************)
EXTENDS PodTemplate

CONSTANTS
  Specs,       \* the specs people may give the environment
  Env,         \* its name
  MaxEdits,    \* edits of the spec
  MaxTroubles  \* changes people make to objects and source Secrets, calls that
               \* fail or whose answer is lost, restarts: all of them together

ASSUME SpecsAssumption == Specs \subseteq EnvSpecs
ASSUME BoundsAssumption == {MaxEdits, MaxTroubles} \subseteq Nat

VARIABLES
  spec,      \* the spec of the DevEnvironment, on the API server
  specSeen,  \* the same in the cache
  objects,   \* the objects on the API server; Unset where there is none
  seen,      \* the same in the cache
  behind,    \* the objects that changed since the cache last saw them
  sources,   \* the Secrets that can be copied: the cache shows one next to the
             \* DevEnvironment, of a type that fits, and no foreign one in the way
  copies,    \* those copied into the environment's namespace
  queued,    \* the environment is in the work queue
  worker,    \* the pass in progress
  used       \* how much of each bound is used up

cluster == <<objects, behind>>
cache == <<specSeen, seen>>
vars == <<spec, cache, cluster, sources, copies, queued, worker, used>>

-----------------------------------------------------------------------------
(* Objects *)

configMapName == <<"ConfigMap", Env>>
pvcName == <<"Claim", Env>>
Deployment(s) == <<"Deployment", s>>
Service(s) == <<"Service", s>>
Objects == {configMapName, pvcName} \cup {"Deployment", "Service"} \X Services

(* body: the data, the size, the pod template, the port.                       *)
Bodies == Values \cup Templates \cup {Unset}
ObjectValues == {Unset} \cup [ours : BOOLEAN, body : Bodies]

Own(body) == [ours |-> TRUE, body |-> body]
Foreign == [ours |-> FALSE, body |-> Unset]
IsOwn(object) == object # Unset /\ object.ours

ASSUME UnsetObjectAssumption == Unset \notin [ours : BOOLEAN, body : Bodies]

-----------------------------------------------------------------------------
(* The pass *)

Steps == {"config", "secrets", "claim", "deployment", "service",
          "pruneDeployments", "pruneServices"}

(* todo: the services the pass has still to reconcile; now: the one between    *)
(* its Deployment and its Service.                                             *)
Idle == [pc |-> "idle", env |-> Unset, todo |-> {}, now |-> Unset]
Passes == [pc : Steps, env : Specs, todo : SUBSET Services, now : Services \cup {Unset}]

At(pc) == [worker EXCEPT !.pc = pc]

(* Mutation: the loop is left one service late. *)
AfterServicesLate(todo) ==
  [worker EXCEPT !.pc = IF worker.todo = {} THEN "pruneDeployments" ELSE "deployment",
                 !.todo = todo, !.now = Unset]

AfterServices(todo) ==
  [worker EXCEPT !.pc = IF todo = {} THEN "pruneDeployments" ELSE "deployment",
                 !.todo = todo, !.now = Unset]

Init ==
  /\ spec \in Specs /\ specSeen = spec
  /\ objects = [o \in Objects |-> Unset] /\ seen = objects /\ behind = {}
  /\ sources = Secrets
  /\ copies = {}
  /\ queued = TRUE
  /\ worker = Idle
  /\ used = [edits |-> 0, acts |-> 0, faults |-> 0, restarts |-> 0]

Abandon == worker' = Idle /\ queued' = TRUE

Trouble(kind) ==
  /\ used.acts + used.faults + used.restarts < MaxTroubles
  /\ used' = [used EXCEPT ![kind] = @ + 1]

Fault == Trouble("faults") /\ Abandon

(* The calls of a step took effect; the answer of the last may be lost.        *)
Answered(after) ==
  \/ worker' = after /\ UNCHANGED <<queued, used>>
  \/ Fault

Set(written) ==
  /\ objects' = [o \in Objects |-> IF o \in DOMAIN written THEN written[o] ELSE objects[o]]
  /\ behind' = behind \cup {o \in DOMAIN written : written[o] # objects[o]}

(* A Deployment never compares equal to what the cache holds, because the     *)
(* API server fills in defaults of the container: it is sent every time.       *)
Unchanged(o, wanted) == seen[o] = wanted /\ o[1] # "Deployment"

(* AlreadyExists; a conflict or NotFound; a selector that is immutable and     *)
(* does not match the labels of the template.                                  *)
Refused(o) ==
  \/ seen[o] = Unset /\ objects[o] # Unset
  \/ seen[o] # Unset /\ o \in behind
  \/ seen[o] # Unset /\ ~seen[o].ours /\ o[1] = "Deployment"

CreateOrUpdate(o, wanted, after) ==
  \/ /\ Unchanged(o, wanted)
     /\ worker' = after
     /\ UNCHANGED <<cluster, queued, used>>
  \/ /\ ~Unchanged(o, wanted) /\ ~Refused(o)
     /\ Set([x \in {o} |-> wanted])
     /\ Answered(after)
  \/ /\ ~Unchanged(o, wanted) /\ Refused(o)
     /\ Abandon
     /\ UNCHANGED <<cluster, used>>

(* By name, whatever is there; what is gone already is no error.               *)
Delete(gone, after) ==
  \/ Set([o \in gone |-> Unset]) /\ Answered(after)
  \/ \E part \in SUBSET gone : Set([o \in part |-> Unset]) /\ Fault

Reconcile ==
  /\ worker = Idle /\ queued
  /\ queued' = FALSE
  /\ worker' = [pc |-> "config", env |-> specSeen, todo |-> Listed(specSeen), now |-> Unset]
  /\ UNCHANGED <<spec, cache, cluster, sources, copies, used>>

reconcileConfigMap ==
  /\ worker.pc = "config"
  /\ \/ /\ worker.env.config # Unset
        /\ CreateOrUpdate(configMapName, Own(worker.env.config), At("secrets"))
     \/ /\ worker.env.config = Unset
        /\ Delete({configMapName}, At("secrets"))
  /\ UNCHANGED <<spec, cache, sources, copies>>

(* Stops at the first Secret that cannot be copied, or whose copying fails     *)
(* (a conflict, a lost answer), having copied some.                            *)
reconcileSecrets ==
  /\ worker.pc = "secrets"
  /\ LET wanted == referencedSecrets(worker.env)
     IN  \/ /\ wanted \subseteq sources
            /\ copies' = copies \cup wanted
            /\ worker' = At("claim") /\ UNCHANGED <<queued, used>>
         \/ /\ \E some \in SUBSET (wanted \cap sources) : copies' = copies \cup some
            /\ \/ ~(wanted \subseteq sources) /\ Abandon /\ UNCHANGED used
               \/ Fault
  /\ UNCHANGED <<spec, cache, cluster, sources>>

(* A claim that is there already is left alone, whosever it is.                *)
reconcilePVC ==
  /\ worker.pc = "claim"
  /\ LET after == AfterServices(worker.todo)
     IN  \/ /\ worker.env.storage = Unset \/ seen[pvcName] # Unset
            /\ worker' = after
            /\ UNCHANGED <<cluster, queued, used>>
         \/ /\ worker.env.storage # Unset /\ seen[pvcName] = Unset
            /\ IF objects[pvcName] = Unset
               THEN Set([o \in {pvcName} |-> Own(worker.env.storage.size)])
               ELSE UNCHANGED cluster
            /\ Answered(after)
  /\ UNCHANGED <<spec, cache, sources, copies>>

(* The template starts from what the cache holds: the security context stays   *)
(* but for its group.                                                          *)
reconcileDeployment(s) ==
  /\ worker.pc = "deployment" /\ s \in worker.todo
  /\ LET o == Deployment(s)
         context == IF IsOwn(seen[o]) THEN seen[o].body.context ELSE NoContext
     IN  CreateOrUpdate(o, Own(Template(worker.env, worker.env.services[s], context)),
                        [worker EXCEPT !.pc = "service", !.now = s])
  /\ UNCHANGED <<spec, cache, sources, copies>>

reconcileService ==
  /\ worker.pc = "service"
  /\ LET s == worker.now
     IN  CreateOrUpdate(Service(s), Own(worker.env.services[s].port),
                        AfterServices(worker.todo \ {s}))
  /\ UNCHANGED <<spec, cache, sources, copies>>

(* Mutation: the prune takes every service of the environment. *)
PrunedAll(kind) == {o \in {kind} \X Services : IsOwn(seen[o])}
Pruned(kind) == {o \in {kind} \X (Services \ Listed(worker.env)) : IsOwn(seen[o])}

pruneDeployments ==
  /\ worker.pc = "pruneDeployments"
  /\ Delete(Pruned("Deployment"), At("pruneServices"))
  /\ UNCHANGED <<spec, cache, sources, copies>>

pruneServices ==
  /\ worker.pc = "pruneServices"
  /\ Delete(Pruned("Service"), Idle)
  /\ UNCHANGED <<spec, cache, sources, copies>>

(* A call fails without having had an effect.                                  *)
ApiError ==
  /\ worker # Idle
  /\ Fault
  /\ UNCHANGED <<spec, cache, cluster, sources, copies>>

-----------------------------------------------------------------------------
(* The cache, the queue, the manager *)

DeliverSpec ==
  /\ specSeen # spec
  /\ specSeen' = spec
  /\ queued' = TRUE
  /\ UNCHANGED <<spec, seen, cluster, sources, copies, worker, used>>

(* Of these objects only the Deployments are watched, and only those with the  *)
(* labels of the environment lead to it.                                       *)
Deliver(o) ==
  /\ o \in behind
  /\ behind' = behind \ {o}
  /\ seen' = [seen EXCEPT ![o] = objects[o]]
  /\ queued' = (queued \/ (o[1] = "Deployment" /\ (IsOwn(seen[o]) \/ IsOwn(objects[o]))))
  /\ UNCHANGED <<spec, specSeen, objects, sources, copies, worker, used>>

(* The requeue of an environment that is not ready, the resync of one that is. *)
Wake ==
  /\ ~queued
  /\ queued' = TRUE
  /\ UNCHANGED <<spec, cache, cluster, sources, copies, worker, used>>

Restart ==
  /\ Trouble("restarts")
  /\ Abandon
  /\ specSeen' = spec /\ seen' = objects /\ behind' = {}
  /\ UNCHANGED <<spec, objects, sources, copies>>

-----------------------------------------------------------------------------
(* People *)

Edit ==
  /\ used.edits < MaxEdits
  /\ used' = [used EXCEPT !.edits = @ + 1]
  /\ spec' \in Specs \ {spec}
  /\ UNCHANGED <<cache, cluster, sources, copies, queued, worker>>

Put(o) ==
  /\ Trouble("acts")
  /\ objects[o] = Unset
  /\ Set([x \in {o} |-> Foreign])
  /\ UNCHANGED <<spec, cache, sources, copies, queued, worker>>

Remove(o) ==
  /\ Trouble("acts")
  /\ objects[o] # Unset
  /\ Set([x \in {o} |-> Unset])
  /\ UNCHANGED <<spec, cache, sources, copies, queued, worker>>

EditContext(s) ==
  /\ Trouble("acts")
  /\ IsOwn(objects[Deployment(s)])
  /\ \E context \in Contexts :
        Set([x \in {Deployment(s)} |->
               Own([objects[x].body EXCEPT !.context = context])])
  /\ UNCHANGED <<spec, cache, sources, copies, queued, worker>>

(* The cache learns that a source Secret is gone, or back, has a type that does *)
(* not fit its use, or that somebody's own Secret has the name of its copy.    *)
TurnSource(x) ==
  /\ Trouble("acts")
  /\ sources' = IF x \in sources THEN sources \ {x} ELSE sources \cup {x}
  /\ UNCHANGED <<spec, cache, cluster, copies, queued, worker>>

-----------------------------------------------------------------------------
Pass ==
  \/ Reconcile \/ reconcileConfigMap \/ reconcileSecrets \/ reconcilePVC
  \/ \E s \in Services : reconcileDeployment(s)
  \/ reconcileService \/ pruneDeployments \/ pruneServices

Next ==
  \/ Pass \/ ApiError \/ DeliverSpec \/ Wake \/ Restart \/ Edit
  \/ \E o \in Objects : Deliver(o) \/ Put(o) \/ Remove(o)
  \/ \E s \in Services : EditContext(s)
  \/ \E x \in Secrets : TurnSource(x)

(* The manager goes on working, its watches deliver, and the requeue and the   *)
(* resync come round; nobody is obliged to do anything else.                   *)
Fairness ==
  /\ WF_vars(Pass)
  /\ WF_vars(DeliverSpec) /\ \A o \in Objects : WF_vars(Deliver(o))
  /\ WF_vars(Wake)

Spec == Init /\ [][Next]_vars /\ Fairness

-----------------------------------------------------------------------------
(* Properties *)

(* The variables have their types; what the operator has made of a Deployment  *)
(* is a template it can start from again.                                      *)
TypeOK ==
  /\ {spec, specSeen} \subseteq Specs
  /\ objects \in [Objects -> ObjectValues] /\ seen \in [Objects -> ObjectValues]
  /\ \A s \in Services, view \in {objects, seen} :
        IsOwn(view[Deployment(s)]) => view[Deployment(s)].body \in Templates
  /\ behind \subseteq Objects
  /\ sources \subseteq Secrets /\ copies \subseteq Secrets
  /\ queued \in BOOLEAN
  /\ worker \in {Idle} \cup Passes
  /\ worker # Idle => worker.todo \subseteq Listed(worker.env)
  /\ worker.pc = "deployment" => worker.todo # {}
  /\ worker.pc = "service" => worker.now \in worker.todo
  /\ used \in [edits : Nat, acts : Nat, faults : Nat, restarts : Nat]

(* Unless people interfere, whatever a pod of the environment refers to is     *)
(* there before the pod is: its Secrets have been copied and its claim exists  *)
(* (the order of reconcileEnvironment, and what referencedSecrets collects),   *)
(* through failed passes, restarts, stale caches and edits that overtake one.  *)
(* Of the ConfigMap this does not hold: reconcileConfigMap deletes it before    *)
(* the Deployments drop their reference to it.                                 *)
TemplatesBacked ==
  used.acts = 0 =>
    \A s \in Services : IsOwn(objects[Deployment(s)]) =>
      /\ SecretsOf(objects[Deployment(s)].body) \subseteq copies
      /\ objects[Deployment(s)].body.volume => objects[pvcName] # Unset

(* The three clauses of hasRegistry are Docker's rule, for every image; and    *)
(* each Deployment of the operator's pulls what that rule makes of one of the  *)
(* specs: a host in the image stays (a registry in front of it would be "an    *)
(* invalid reference that fails at pull time"), the registry in force goes in  *)
(* front of everything else (imageRef, hasRegistry).                           *)
DockersRule == \A image \in Images : hasRegistry(image) <=> NamesHost(image)
ImagesResolved ==
  /\ DockersRule
  /\ \A s \in Services :
       IsOwn(objects[Deployment(s)]) =>
         \E env \in Specs :
           /\ s \in Listed(env)
           /\ Resolves(env, env.services[s], objects[Deployment(s)].body.ref)

(* A step of the operator never takes away what somebody else has set in the   *)
(* security context of a pod, however stale its cache (applyFSGroup: "edits    *)
(* the one field rather than replacing the whole securityContext").            *)
ContextKept ==
  [][used'.acts = used.acts =>
       \A s \in Services :
         LET o == Deployment(s)
         IN  IsOwn(objects[o]) /\ IsOwn(objects'[o])
               => objects'[o].body.context.other = objects[o].body.context.other]_vars

(* A pass can get to its end: the sources are there, and no Deployment of      *)
(* somebody else has the name of a service.                                    *)
Possible ==
  /\ referencedSecrets(spec) \subseteq sources
  /\ \A s \in Listed(spec) :
        objects[Deployment(s)] # Unset => objects[Deployment(s)].ours

AgreesOn(s) ==
  LET deployment == objects[Deployment(s)]
  IN  IF s \in Listed(spec)
      THEN /\ IsOwn(deployment)
           /\ deployment.body = Template(spec, spec.services[s],
                                  [deployment.body.context EXCEPT !.fsGroup = Unset])
           /\ objects[Service(s)] = Own(spec.services[s].port)
      ELSE ~IsOwn(deployment) /\ ~IsOwn(objects[Service(s)])

(* What is asked for is there, what is no longer asked for is not.             *)
Agrees ==
  /\ objects[configMapName] = IF spec.config = Unset THEN Unset ELSE Own(spec.config)
  /\ referencedSecrets(spec) \subseteq copies
  /\ spec.storage # Unset => objects[pvcName] # Unset
  /\ \A s \in Services : AgreesOn(s)

(* Once people stop editing, the objects come to agree with the last spec and  *)
(* keep to it, whatever was lost, done half, or done from a stale cache.       *)
ObjectsConverge == <>[](Possible => Agrees)

(* The controller does not keep itself busy: the writes of its passes come to  *)
(* an end, although it sends every Deployment every time and its own writes    *)
(* wake it (reconcileService, the watch of SetupWithManager).  That container   *)
(* keeps the variables of a template in one order is not part of this.         *)
WritesSettle == <>[](behind = {})
=============================================================================
