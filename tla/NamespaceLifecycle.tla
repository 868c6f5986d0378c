-------------------------- MODULE NamespaceLifecycle --------------------------
(***************************************************************************)
(* The DevEnvironment controller as the keeper of namespaces: how a record *)
(* gets its finalizer, how the environment's namespace is created, kept    *)
(* labelled, filled, torn down, and when the finalizer is released.        *)
(*                                                                         *)
(* The API server keeps, for every object, the sequence of versions it has *)
(* had; the index of a version plays the resourceVersion.  The manager's   *)
(* cache is a position in that sequence: it may be behind the API server,  *)
(* and it only moves forward.  The controller runs one worker              *)
(* (MaxConcurrentReconciles is left at 1), whose pass is cut into one step *)
(* per call it makes to the API server, so that users, other tooling, the  *)
(* namespace controller and the informers can act between any two calls.   *)
(***************************************************************************)
EXTENDS Naturals, Sequences, FiniteSets

CONSTANTS
  Envs,            \* DevEnvironments, each a (namespace, name) pair
  Namespaces,      \* names of namespaces
  Names,           \* the values users give spec.namespaceName
  Teams,           \* values of spec.owner
  DefaultTarget,   \* the namespace an environment gets without spec.namespaceName
  Nobody,          \* "no DevEnvironment": the labels of a namespace not ours
  Unset,           \* an optional field that is not set
  Retarget,        \* TRUE: users add or remove spec.namespaceName
  Tamper,          \* TRUE: people delete or relabel the operator's namespaces
  MaxVersions,     \* bound: users change a record only below this many versions
  MaxOutside,      \* bound: acts of outsiders on namespaces
  MaxFaults,       \* bound: API calls that fail without a reason of the model
  MaxCrashes       \* bound: restarts of the manager

ASSUME DefaultAssumption == DefaultTarget \in [Envs -> Namespaces]
ASSUME NamesAssumption == Names \subseteq Namespaces
ASSUME NobodyAssumption == Nobody \notin Envs
ASSUME UnsetAssumption == Unset \notin Namespaces \cup Teams \cup Envs
ASSUME ModeAssumption == {Retarget, Tamper} \subseteq BOOLEAN
ASSUME BoundAssumption ==
  /\ MaxVersions \in Nat /\ MaxOutside \in Nat
  /\ MaxFaults \in Nat   /\ MaxCrashes \in Nat

VARIABLES
  envLog,     \* envLog[e]: the versions the record of e has had
  envSeen,    \* envSeen[e]: the version the manager's cache holds
  nsLog,      \* nsLog[n]: the versions namespace n has had
  nsSeen,     \* nsSeen[n]: the version the manager's cache holds
  contents,   \* contents[n]: the environments that have written objects into n
  queue,      \* the work queue: environments waiting for a pass
  events,     \* environments with a Deployment event still to be delivered
  worker,     \* the pass that is running
  used,       \* how much of each bound is spent
  stray       \* auxiliary: namespaces led away from the record that made them

vars == <<envLog, envSeen, nsLog, nsSeen, contents, queue, events, worker, used, stray>>
apiVars == <<envLog, nsLog, contents, stray>>
cacheVars == <<envSeen, nsSeen>>

-----------------------------------------------------------------------------
(* Objects *)

Records == [present : BOOLEAN, finalizer : BOOLEAN, deleting : BOOLEAN,
            namespaceName : Namespaces \cup {Unset}, owner : Teams \cup {Unset}]

NamespaceObjects == [present : BOOLEAN, terminating : BOOLEAN,
                     environment : Envs \cup {Nobody}, owner : Teams \cup {Unset}]

NoRecord == [present |-> FALSE, finalizer |-> FALSE, deleting |-> FALSE,
             namespaceName |-> Unset, owner |-> Unset]

NoNamespace == [present |-> FALSE, terminating |-> FALSE,
                environment |-> Nobody, owner |-> Unset]

Foreign == [NoNamespace EXCEPT !.present = TRUE]

Record(e) == envLog[e][Len(envLog[e])]
CachedRecord(e) == envLog[e][envSeen[e]]
Namespace(n) == nsLog[n][Len(nsLog[n])]

TargetNamespace(e, env) ==
  IF env.namespaceName # Unset THEN env.namespaceName ELSE DefaultTarget[e]

(* The labels managed-by, environment and owner-namespace name together one *)
(* environment, or none.                                                    *)
owns(e, ns) == ns.environment = e

Holds(e, n) == Namespace(n).present /\ owns(e, Namespace(n))

labels(e, env) == [environment |-> e, owner |-> env.owner]

(* Mutation: the managed-by check is dropped. *)
mapEverything(ns) == {ns.environment}
mapToEnvironment(ns) == {ns.environment} \ {Nobody}

(* Mutation: the patch carries every label instead of the changed ones. *)
FullPatch(seen, wanted, live) ==
  [live EXCEPT !.environment = wanted.environment, !.owner = wanted.owner]

(* A merge patch sends what differs between the version read and the version *)
(* wanted; it names no resourceVersion and applies to whatever is there.     *)
MergePatch(seen, wanted, live) ==
  [live EXCEPT
     !.environment = IF wanted.environment # seen.environment
                       THEN wanted.environment ELSE @,
     !.owner = IF wanted.owner \notin {Unset, seen.owner} THEN wanted.owner ELSE @]

WriteRecord(e, env) == envLog' = [envLog EXCEPT ![e] = Append(@, env)]

(* A write that changes nothing makes no new version and no event. *)
WriteNamespace(n, ns) ==
  nsLog' = IF ns = Namespace(n) THEN nsLog ELSE [nsLog EXCEPT ![n] = Append(@, ns)]

-----------------------------------------------------------------------------
(* The worker *)

Steps == {"addFinalizer", "getNamespace", "createNamespace", "patchNamespace",
          "provision", "deleteNamespace", "removeFinalizer"}

Idle == [pc |-> "idle", env |-> Nobody, rv |-> 0, nsrv |-> 0]

Workers == [pc : Steps \cup {"idle"}, env : Envs \cup {Nobody}, rv : Nat, nsrv : Nat]

(* The record the pass works on, and the namespace it works towards. *)
Seen == envLog[worker.env][worker.rv]
Target == TargetNamespace(worker.env, Seen)

At(pc) == worker.pc = pc
Goto(pc) == worker' = [worker EXCEPT !.pc = pc] /\ queue' = queue
Finish == worker' = Idle /\ queue' = queue

(* Mutation: the error is swallowed. *)
GiveUp == worker' = Idle /\ queue' = queue

(* The pass returns an error or asks to be requeued: it runs again later. *)
Retry == worker' = Idle /\ queue' = queue \cup {worker.env}

Spend(bound, max) == used[bound] < max /\ used' = [used EXCEPT ![bound] = @ + 1]

(* The call took effect; either its answer arrives, or it is lost on the way *)
(* and the pass returns the error.                                          *)
Answered(Then) == Then /\ UNCHANGED used
AnswerLost == Retry /\ Spend("faults", MaxFaults)

LogsOK ==
  /\ envLog \in [Envs -> Seq(Records)] /\ \A e \in Envs : Len(envLog[e]) > 0
  /\ nsLog \in [Namespaces -> Seq(NamespaceObjects)] /\ \A n \in Namespaces : Len(nsLog[n]) > 0

CachesOK ==
  /\ envSeen \in [Envs -> Nat] /\ \A e \in Envs : envSeen[e] \in 1 .. Len(envLog[e])
  /\ nsSeen \in [Namespaces -> Nat] /\ \A n \in Namespaces : nsSeen[n] \in 1 .. Len(nsLog[n])

WorkerOK ==
  /\ worker \in Workers
  /\ ~At("idle") => worker.env \in Envs /\ worker.rv \in 1 .. Len(envLog[worker.env])
  /\ At("patchNamespace") => worker.nsrv \in 1 .. Len(nsLog[Target])

(* The variables have their types; a cache and a pass hold versions that exist. *)
TypeOK ==
  /\ LogsOK /\ CachesOK /\ WorkerOK
  /\ contents \in [Namespaces -> SUBSET Envs]
  /\ queue \subseteq Envs /\ events \subseteq Envs /\ stray \subseteq Namespaces
  /\ used \in [{"outside", "faults", "crashes"} -> Nat]

Init ==
  /\ envLog = [e \in Envs |-> <<NoRecord>>]
  /\ envSeen = [e \in Envs |-> 1]
  /\ nsLog \in [Namespaces -> {<<NoNamespace>>, <<Foreign>>}]
  /\ nsSeen = [n \in Namespaces |-> 1]
  /\ contents = [n \in Namespaces |-> {}]
  /\ queue = {}
  /\ events = {}
  /\ worker = Idle
  /\ used = [b \in {"outside", "faults", "crashes"} |-> 0]
  /\ stray = {}

-----------------------------------------------------------------------------
(* The auxiliary variable.  It restricts no step; it remembers the three ways *)
(* in which a namespace an environment holds can lose its record: the record  *)
(* is pointed elsewhere, the namespace is made for a version of the record    *)
(* that pointed elsewhere, or a pass of the deletion reads a cached namespace *)
(* that is not e's although the real one is.                                  *)

PointedAway(e, env) == {n \in Namespaces : Holds(e, n) /\ TargetNamespace(e, env) # n}

MadeForOldTarget(e, n) == IF TargetNamespace(e, Record(e)) # n THEN {n} ELSE {}

Overlooked(e, n, ns) ==
  IF Holds(e, n) /\ ~(ns.present /\ owns(e, ns)) THEN {n} ELSE {}

-----------------------------------------------------------------------------
(* Users *)

UserMayWrite(e) == Len(envLog[e]) < MaxVersions
UserWrites(e, env) ==
  /\ UserMayWrite(e)
  /\ WriteRecord(e, env)
  /\ UNCHANGED <<cacheVars, nsLog, contents, queue, events, worker, used>>

CreateEnv(e) ==
  /\ ~Record(e).present
  /\ \E name \in Names \cup {Unset}, owner \in Teams \cup {Unset} :
       UserWrites(e, [NoRecord EXCEPT !.present = TRUE,
                                      !.namespaceName = name, !.owner = owner])
  /\ stray' = stray

(* The API server removes a record without finalizers at once, and otherwise *)
(* only marks it.                                                            *)
DeleteEnv(e) ==
  /\ Record(e).present /\ ~Record(e).deleting
  /\ UserWrites(e, IF Record(e).finalizer
                     THEN [Record(e) EXCEPT !.deleting = TRUE] ELSE NoRecord)
  /\ stray' = stray

(* The rule "self == oldSelf" on the optional field is checked only when the *)
(* field is set before and after the update.                                 *)
EditNamespaceName(e) ==
  /\ Retarget /\ Record(e).present
  /\ \E name \in Names \cup {Unset} :
       /\ name # Record(e).namespaceName
       /\ Unset \in {name, Record(e).namespaceName}
       /\ UserWrites(e, [Record(e) EXCEPT !.namespaceName = name])
       /\ stray' = stray \cup PointedAway(e, [Record(e) EXCEPT !.namespaceName = name])

EditOwner(e) ==
  /\ Record(e).present
  /\ \E owner \in (Teams \cup {Unset}) \ {Record(e).owner} :
       UserWrites(e, [Record(e) EXCEPT !.owner = owner])
  /\ stray' = stray

-----------------------------------------------------------------------------
(* Other tooling, and the namespace controller *)

Outside(n, ns) ==
  /\ Spend("outside", MaxOutside)
  /\ WriteNamespace(n, ns)
  /\ UNCHANGED <<cacheVars, envLog, contents, queue, events, worker>>

ForeignCreate(n) == ~Namespace(n).present /\ Outside(n, Foreign) /\ stray' = stray

(* Everybody may delete their own namespace; the operator's only by Tamper. *)
ForeignDelete(n) ==
  /\ Namespace(n).present /\ ~Namespace(n).terminating
  /\ Tamper \/ Namespace(n).environment = Nobody
  /\ Outside(n, [Namespace(n) EXCEPT !.terminating = TRUE])
  /\ stray' = stray

StripLabels(n) ==
  /\ Tamper /\ Namespace(n).present /\ Namespace(n).environment # Nobody
  /\ Outside(n, [Namespace(n) EXCEPT !.environment = Nobody, !.owner = Unset])
  /\ stray' = stray \ {n}

(* The namespace controller has emptied a terminating namespace: it is gone, *)
(* and so are the Deployments in it.                                         *)
FinishTermination(n) ==
  /\ Namespace(n).terminating
  /\ WriteNamespace(n, NoNamespace)
  /\ contents' = [contents EXCEPT ![n] = {}]
  /\ events' = events \cup contents[n]
  /\ stray' = stray \ {n}
  /\ UNCHANGED <<cacheVars, envLog, queue, worker, used>>

(* A Deployment of e changes its status. *)
WorkloadChanges(e) ==
  /\ e \notin events
  /\ \E n \in Namespaces : e \in contents[n]
  /\ events' = events \cup {e}
  /\ UNCHANGED <<apiVars, cacheVars, queue, worker, used>>

-----------------------------------------------------------------------------
(* Informers: the watches that SetupWithManager declares *)

DeliverRecord(e) ==
  /\ envSeen[e] < Len(envLog[e])
  /\ envSeen' = [envSeen EXCEPT ![e] = @ + 1]
  /\ queue' = queue \cup {e}
  /\ UNCHANGED <<apiVars, nsSeen, events, worker, used>>

(* Mutations: deletions say nothing; only deletions say something. *)
EnqueuedByNew(old, new) == mapToEnvironment(new)
EnqueuedByDeletion(old, new) == IF new.present THEN {} ELSE mapToEnvironment(old)

(* An event names the environment of the old version and of the new one; the *)
(* event of a deletion carries the last version that was there.              *)
Enqueued(old, new) == mapToEnvironment(old) \cup mapToEnvironment(new)

DeliverNamespace(n) ==
  /\ nsSeen[n] < Len(nsLog[n])
  /\ nsSeen' = [nsSeen EXCEPT ![n] = @ + 1]
  /\ queue' = queue \cup Enqueued(nsLog[n][nsSeen[n]], nsLog[n][nsSeen[n] + 1])
  /\ UNCHANGED <<apiVars, envSeen, events, worker, used>>

DeliverDeployment(e) ==
  /\ e \in events
  /\ events' = events \ {e}
  /\ queue' = queue \cup {e}
  /\ UNCHANGED <<apiVars, cacheVars, worker, used>>

-----------------------------------------------------------------------------
(* A pass of the controller *)

(* Mutation: provisioning starts without waiting for the finalizer. *)
FirstStepUnguarded(env) == IF env.present THEN "getNamespace" ELSE "idle"

FirstStep(env) ==
  CASE ~env.present \/ (env.deleting /\ ~env.finalizer) -> "idle"
    [] env.present /\ ~env.deleting /\ ~env.finalizer -> "addFinalizer"
    [] env.present /\ env.finalizer -> "getNamespace"

Reconcile(e) ==
  /\ At("idle") /\ e \in queue
  /\ queue' = queue \ {e}
  /\ worker' = IF FirstStep(CachedRecord(e)) = "idle" THEN Idle
               ELSE [Idle EXCEPT !.pc = FirstStep(CachedRecord(e)),
                                 !.env = e, !.rv = envSeen[e]]
  /\ UNCHANGED <<apiVars, cacheVars, events, used>>

(* Mutation: the write goes through whatever has happened since the read. *)
NoConflict == FALSE

(* Update is refused when the record has changed since it was read. *)
Conflict == worker.rv # Len(envLog[worker.env])

AddFinalizer ==
  /\ At("addFinalizer")
  /\ \/ /\ Conflict
        /\ Retry /\ UNCHANGED <<envLog, used>>
     \/ /\ ~Conflict
        /\ WriteRecord(worker.env, [Seen EXCEPT !.finalizer = TRUE])
        /\ \/ Answered(/\ worker' = [worker EXCEPT !.pc = "getNamespace", !.rv = @ + 1]
                       /\ queue' = queue)
           \/ AnswerLost
  /\ UNCHANGED <<cacheVars, nsLog, contents, events, stray>>

(* Mutation: the refusal is logged, and the pass goes on. *)
NamespaceStepTrusting(e, ns) ==
  CASE ~ns.present -> "createNamespace"
    [] ns.present /\ owns(e, ns) -> "patchNamespace"
    [] ns.present /\ ~owns(e, ns) -> "provision"

(* What reconcileNamespace does with what Get returned. *)
NamespaceStep(e, ns) ==
  CASE ~ns.present -> "createNamespace"
    [] ns.present /\ owns(e, ns) -> "patchNamespace"
    [] ns.present /\ ~owns(e, ns) -> "error"

(* Mutation: the finalizer is not held while the namespace terminates. *)
TeardownStepEager(e, ns) ==
  IF ns.present /\ owns(e, ns) /\ ~ns.terminating THEN "deleteNamespace" ELSE "removeFinalizer"

(* What reconcileDelete does with it. *)
TeardownStep(e, ns) ==
  CASE ns.present /\ owns(e, ns) /\ ~ns.terminating -> "deleteNamespace"
    [] ns.present /\ owns(e, ns) /\ ns.terminating -> "idle"
    [] ~ns.present \/ ~owns(e, ns) -> "removeFinalizer"

(* Get reads the manager's cache. *)
CachedNamespace(n) == nsLog[n][nsSeen[n]]

GetNamespace ==
  /\ At("getNamespace")
  /\ LET ns == CachedNamespace(Target)
         step == IF Seen.deleting THEN TeardownStep(worker.env, ns)
                 ELSE NamespaceStep(worker.env, ns)
     IN  \/ step = "error" /\ Retry
         \/ step = "idle" /\ Finish
         \/ /\ step \in Steps
            /\ worker' = [worker EXCEPT !.pc = step, !.nsrv = nsSeen[Target]]
            /\ queue' = queue
  /\ stray' = IF Seen.deleting
                THEN stray \cup Overlooked(worker.env, Target, CachedNamespace(Target))
                ELSE stray
  /\ UNCHANGED <<envLog, nsLog, contents, cacheVars, events, used>>

(* AlreadyExists is not an error: whatever holds the name, the pass goes on. *)
CreateNamespace ==
  /\ At("createNamespace")
  /\ WriteNamespace(Target,
       IF Namespace(Target).present THEN Namespace(Target)
       ELSE [present |-> TRUE, terminating |-> FALSE,
             environment |-> labels(worker.env, Seen).environment,
             owner |-> labels(worker.env, Seen).owner])
  /\ Answered(Goto("provision")) \/ AnswerLost
  /\ stray' = IF Namespace(Target).present THEN stray
              ELSE stray \cup MadeForOldTarget(worker.env, Target)
  /\ UNCHANGED <<cacheVars, envLog, contents, events>>

PatchNamespace ==
  /\ At("patchNamespace")
  /\ \/ /\ ~Namespace(Target).present
        /\ Retry /\ UNCHANGED <<nsLog, used>>
     \/ /\ Namespace(Target).present
        /\ WriteNamespace(Target, MergePatch(nsLog[Target][worker.nsrv],
                                             labels(worker.env, Seen), Namespace(Target)))
        /\ Answered(Goto("provision")) \/ AnswerLost
  /\ UNCHANGED <<cacheVars, envLog, contents, events, stray>>

(* Objects go into the target by its name alone.  A terminating namespace *)
(* refuses new objects, an absent one refuses everything.                 *)
AcceptsObjects(ns) == ns.present /\ ~ns.terminating

WriteObjects ==
  /\ At("provision") /\ worker.env \notin contents[Target]
  /\ AcceptsObjects(Namespace(Target))
  /\ contents' = [contents EXCEPT ![Target] = @ \cup {worker.env}]
  /\ Answered(Goto("provision")) \/ AnswerLost
  /\ UNCHANGED <<cacheVars, envLog, nsLog, events, stray>>

RefuseObjects ==
  /\ At("provision") /\ ~AcceptsObjects(Namespace(Target))
  /\ Retry
  /\ UNCHANGED <<apiVars, cacheVars, events, used>>

(* Every object is in place.  While some service is not ready the pass asks *)
(* to be run again.                                                         *)
FinishProvisioning ==
  /\ At("provision") /\ worker.env \in contents[Target]
  /\ Finish \/ Retry
  /\ UNCHANGED <<apiVars, cacheVars, events, used>>

(* Delete names the namespace and nothing else; the pass ends with the *)
(* finalizer in place, to be woken by the namespace watch.             *)
DeleteNamespace ==
  /\ At("deleteNamespace")
  /\ WriteNamespace(Target,
       [Namespace(Target) EXCEPT !.terminating = Namespace(Target).present])
  /\ Answered(Finish) \/ AnswerLost
  /\ UNCHANGED <<cacheVars, envLog, contents, events, stray>>

(* The API server removes a deleted record with its last finalizer. *)
RemoveFinalizer ==
  /\ At("removeFinalizer")
  /\ \/ /\ Conflict
        /\ Retry /\ UNCHANGED <<envLog, used>>
     \/ /\ ~Conflict
        /\ WriteRecord(worker.env, NoRecord)
        /\ Answered(Finish) \/ AnswerLost
  /\ UNCHANGED <<cacheVars, nsLog, contents, events, stray>>

(* A call fails before it has had any effect. *)
ApiError ==
  /\ ~At("idle")
  /\ Spend("faults", MaxFaults)
  /\ Retry
  /\ UNCHANGED <<apiVars, cacheVars, events>>

(* The manager restarts: the pass and the queue are lost, the new caches are *)
(* listed from the API server and every object in them is an event.          *)
Relisted ==
  {e \in Envs : \/ Record(e).present
                \/ \E n \in Namespaces : e \in mapToEnvironment(Namespace(n)) \cup contents[n]}

Restart ==
  /\ Spend("crashes", MaxCrashes)
  /\ worker' = Idle
  /\ envSeen' = [e \in Envs |-> Len(envLog[e])]
  /\ nsSeen' = [n \in Namespaces |-> Len(nsLog[n])]
  /\ queue' = Relisted
  /\ events' = {}
  /\ UNCHANGED apiVars

-----------------------------------------------------------------------------
(* The specification *)

(* Nothing is left for the controller to do or to hear of. *)
AtRest ==
  /\ worker = Idle /\ queue = {} /\ events = {}
  /\ \A e \in Envs : envSeen[e] = Len(envLog[e])
  /\ \A n \in Namespaces : nsSeen[n] = Len(nsLog[n])

Rest == AtRest /\ UNCHANGED vars

UserActs(e) == CreateEnv(e) \/ DeleteEnv(e) \/ EditNamespaceName(e) \/ EditOwner(e)
OutsiderActs(n) == ForeignCreate(n) \/ ForeignDelete(n) \/ StripLabels(n)
Calls ==
  \/ AddFinalizer \/ GetNamespace \/ CreateNamespace \/ PatchNamespace
  \/ WriteObjects \/ RefuseObjects \/ FinishProvisioning
  \/ DeleteNamespace \/ RemoveFinalizer

Next ==
  \/ \E e \in Envs : \/ UserActs(e) \/ WorkloadChanges(e) \/ Reconcile(e)
                     \/ DeliverRecord(e) \/ DeliverDeployment(e)
  \/ \E n \in Namespaces : OutsiderActs(n) \/ FinishTermination(n) \/ DeliverNamespace(n)
  \/ Calls \/ ApiError \/ Restart \/ Rest

Spec == Init /\ [][Next]_vars

(* A pass that is running goes on, events are delivered, the namespace       *)
(* controller finishes what it started, and the work queue, a FIFO, serves   *)
(* each environment in it.  Users, outsiders, faults and restarts owe nothing. *)
Fairness ==
  /\ WF_vars(Calls)
  /\ \A e \in Envs : /\ SF_vars(Reconcile(e))
                     /\ WF_vars(DeliverRecord(e)) /\ WF_vars(DeliverDeployment(e))
  /\ \A n \in Namespaces : WF_vars(DeliverNamespace(n)) /\ WF_vars(FinishTermination(n))

FairSpec == Spec /\ Fairness

-----------------------------------------------------------------------------
(* Properties *)

(* As long as a namespace carries an environment's labels, the record of that *)
(* environment exists, keeps the finalizer, and points at this namespace,     *)
(* unless it was led away in one of the three ways stray names: no crash,     *)
(* lost answer, conflict, stale record or stale namespace loses it otherwise  *)
(* (reconcileDelete: "the record documents what is still being reclaimed").   *)
HeldIsRecorded ==
  \A e \in Envs, n \in Namespaces :
    Holds(e, n) /\ n \notin stray =>
      /\ Record(e).present /\ Record(e).finalizer
      /\ TargetNamespace(e, Record(e)) = n

(* Get and Delete are two calls, the record they act on comes from a cache,   *)
(* and Delete goes by name; still no namespace is ever terminated in the name *)
(* of a record that is bound and not marked for deletion: a record that came  *)
(* back to life cannot get its finalizer before the cache has forgotten the   *)
(* version that was marked (reconcileDelete, Reconcile's AddFinalizer).       *)
DeletesOnlyClosing ==
  [][DeleteNamespace /\ nsLog' # nsLog =>
       Record(worker.env).deleting \/ ~Record(worker.env).finalizer]_vars

(* Whatever the cache showed, no write makes a namespace that is already      *)
(* there an environment's: the label patch only carries what has changed.     *)
NeverAdopts ==
  [][\A n \in Namespaces :
       Namespace(n).present /\ Namespace(n)'.present
         => Namespace(n)'.environment \in {Namespace(n).environment, Nobody}]_vars

(* A namespace is created only under a record that holds the finalizer at     *)
(* that moment, so that a crash cannot strand it with no record pointing at   *)
(* it (Reconcile: "the finalizer has to land before anything is created").    *)
CreatesUnderRecord ==
  [][\A e \in Envs, n \in Namespaces :
       ~Namespace(n).present /\ Holds(e, n)' => Record(e).present /\ Record(e).finalizer]_vars

(* A record that is marked for deletion goes away, as does one re-created     *)
(* and deleted again: the namespace watch wakes the pass that gave up its     *)
(* turn in reconcileDelete with no requeue.                                   *)
DeletionCompletes ==
  \A e \in Envs : Record(e).deleting ~> ~Record(e).present

(* An environment that stays is eventually provisioned, unless its namespace  *)
(* belongs to somebody else.                                                  *)
Provisioned ==
  \A e \in Envs :
    Record(e).present ~>
      \/ ~Record(e).present \/ Record(e).deleting
      \/ LET n == TargetNamespace(e, Record(e))
         IN  e \in contents[n] \/ (Namespace(n).present /\ ~owns(e, Namespace(n)))

(* A cache that lags lets a pass into somebody else's namespace for a while;  *)
(* it does not stay there: when the namespace of that name is for good not    *)
(* the environment's, its passes come to end at reconcileNamespace's refusal. *)
ForeignLeftAlone ==
  \A e \in Envs, n \in Namespaces :
    <>[](Namespace(n).present /\ ~owns(e, Namespace(n)))
      => <>[]~(At("provision") /\ worker.env = e /\ Target = n)

(* At rest an environment's namespace shows the owner its spec names, even    *)
(* when patches were computed from versions that were no longer current.      *)
OwnerShown ==
  AtRest =>
    \A e \in Envs, n \in Namespaces :
      Holds(e, n) /\ Record(e).owner # Unset /\ ~Record(e).deleting
                 /\ n = TargetNamespace(e, Record(e))
        => Namespace(n).owner = Record(e).owner

-----------------------------------------------------------------------------
(* Inductive invariants *)

(* A version on which the controller provisions. *)
Firm(env) == env.present /\ env.finalizer /\ ~env.deleting

(* The record still holds what such a version promised. *)
Backed(e, env) ==
  /\ Record(e).present /\ Record(e).finalizer
  /\ Retarget \/ Record(e).namespaceName = env.namespaceName

WellFormed(env) == /\ env.finalizer => env.present
                   /\ env.deleting => env.finalizer

CacheBacked ==
  \A e \in Envs : \A i \in envSeen[e] .. Len(envLog[e]) :
    Firm(envLog[e][i]) => Backed(e, envLog[e][i])

PassShape ==
  /\ worker.pc = "addFinalizer" => Seen.present /\ ~Seen.finalizer /\ ~Seen.deleting
  /\ worker.pc = "getNamespace" => Seen.finalizer
  /\ worker.pc \in {"createNamespace", "patchNamespace", "provision"} => Firm(Seen)
  /\ worker.pc \in {"deleteNamespace", "removeFinalizer"} => Seen.deleting

PassBacked ==
  ~At("idle") => /\ Firm(Seen) => Backed(worker.env, Seen)
                 /\ Seen.deleting => worker.rv <= envSeen[worker.env]

(* Whatever old version of a record the cache or the pass holds, provisioning *)
(* on it is provisioning under a record that has the finalizer: only a pass   *)
(* that saw the deletion mark removes it, and then the cache has caught up.   *)
RecordInv ==
  /\ \A e \in Envs : \A i \in 1 .. Len(envLog[e]) : WellFormed(envLog[e][i])
  /\ CacheBacked /\ PassShape /\ PassBacked

(* What an environment holds and has not been led away is the target of its  *)
(* record; only a namespace that is there can be stray; and a pass that is    *)
(* about to release the finalizer, and will not be refused, leaves only stray *)
(* namespaces behind.                                                         *)
HeldInv ==
  /\ HeldIsRecorded
  /\ \A n \in stray : Namespace(n).present /\ Namespace(n).environment # Nobody
  /\ At("removeFinalizer") /\ ~Conflict =>
       \A n \in Namespaces : Holds(worker.env, n) => n \in stray

(* A version marked for deletion that the cache or the pass can still act on  *)
(* is not followed by one that is bound and unmarked.                         *)
MarkInv ==
  /\ \A e \in Envs : \A i \in envSeen[e] .. Len(envLog[e]) :
       envLog[e][i].deleting /\ Record(e).finalizer => Record(e).deleting
  /\ ~At("idle") /\ Seen.deleting /\ Record(worker.env).finalizer
       => Record(worker.env).deleting

(* The patch the pass is about to send was computed from a version that *)
(* carried the environment's labels.                                    *)
PatchInv == At("patchNamespace") => owns(worker.env, nsLog[Target][worker.nsrv])

-----------------------------------------------------------------------------
(* What the documentation says of the same code *)

(* The finalizer "is only released once the namespace is gone"               *)
(* (docs/devenvironment.md, Deletion); reconcileDelete asks the cache.        *)
ReleasedOnceGone ==
  [][\A e \in Envs, n \in Namespaces :
       Record(e).finalizer /\ ~Record(e)'.finalizer => ~Holds(e, n)]_vars

(* "A namespace the operator did not create is left untouched"               *)
(* (docs/devenvironment.md, Deletion); Delete goes by name, after a cached    *)
(* Get, to whatever holds the name by then.                                   *)
LeavesForeign ==
  [][DeleteNamespace /\ nsLog' # nsLog => owns(worker.env, Namespace(Target))]_vars

(* reconcileNamespace refuses "to adopt a namespace the operator did not     *)
(* create"; a pass that loses the race of Create goes on into it.             *)
NeverProvisionsForeign ==
  [][\A n \in Namespaces, e \in Envs :
       e \in contents'[n] \ contents[n] => Holds(e, n)]_vars

(* spec.namespaceName is "Immutable - changing it would orphan the           *)
(* environment's data"; its rule does not see the field appear or disappear.  *)
NeverOrphaned ==
  \A e \in Envs, n \in Namespaces :
    Holds(e, n) /\ Record(e).present => TargetNamespace(e, Record(e)) = n

-----------------------------------------------------------------------------
(* The lease view of the controller. *)
recordBar ==
  [e \in Envs |-> CASE ~Record(e).present -> "none"
                    [] Record(e).present /\ ~Record(e).finalizer -> "open"
                    [] Record(e).present /\ Record(e).finalizer /\ ~Record(e).deleting -> "bound"
                    [] Record(e).present /\ Record(e).finalizer /\ Record(e).deleting -> "closing"]
holderBar ==
  [n \in Namespaces |-> CASE ~Namespace(n).present -> Nobody
                          [] Namespace(n).present /\ Namespace(n).environment = Nobody -> Unset
                          [] Namespace(n).present /\ Namespace(n).environment # Nobody
                               -> Namespace(n).environment]
Lease == INSTANCE EnvironmentLease
           WITH record <- recordBar, holder <- holderBar, Outsider <- Unset
LeaseSpec == Lease!Spec
===============================================================================
