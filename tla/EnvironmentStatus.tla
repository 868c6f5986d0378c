--------------------------- MODULE EnvironmentStatus ---------------------------
(***************************************************************************)
(* What the controller reports about one environment: how a pass counts    *)
(* ready services, looks for the reason of those that are not, and writes  *)
(* the status; and what brings the controller back when nothing is watched.*)
(*                                                                         *)
(* The record already has its finalizer and its namespace (see             *)
(* NamespaceLifecycle).  The pass works on the cached record and cached    *)
(* Deployments; pods are not watched and are read from the API server.     *)
(***************************************************************************)
EXTENDS Naturals, FiniteSets

CONSTANTS
  Services,         \* services an environment may ask for
  Replicas,         \* Replicas[s]: spec.replicas of service s
  MaxGeneration,    \* bound: edits of the spec
  MaxChurn,         \* bound: changes of workloads and of the obstacle
  MaxFaults,        \* bound: API calls that fail without a reason of the model
  MaxCrashes        \* bound: restarts of the manager

ASSUME ReplicasAssumption == Replicas \in [Services -> Nat]
ASSUME FiniteAssumption == IsFiniteSet(Services)
ASSUME BoundAssumption ==
  {MaxGeneration, MaxChurn, MaxFaults, MaxCrashes} \subseteq Nat

VARIABLES
  record,     \* the DevEnvironment at the API server
  cached,     \* the spec of the version in the manager's cache
  behind,     \* the cache does not hold the last version
  deploys,    \* deploys[s]: the Deployment of s at the API server
  listed,     \* listed[s]: the Deployment of s in the manager's cache
  unlisted,   \* services whose Deployment has changed since the cache saw it
  failing,    \* services with a pod that podProblem has something to say about
  obstacle,   \* reconcileEnvironment cannot succeed (say, a source secret is missing)
  queued,     \* the environment is in the work queue
  timer,      \* a RequeueAfter is running
  worker,     \* the pass
  used        \* how much of each bound is spent

vars == <<record, cached, behind, deploys, listed, unlisted, failing, obstacle, queued, timer, worker, used>>
world == <<failing, obstacle>>
views == <<listed, unlisted>>

-----------------------------------------------------------------------------
(* Objects *)

Phases == {"", "Provisioning", "Ready", "Failed"}

Statuses == [phase : Phases, ready : Nat, total : Nat, observed : Nat,
             available : BOOLEAN, progressing : BOOLEAN, degraded : BOOLEAN,
             problems : SUBSET Services]

NoStatus == [phase |-> "", ready |-> 0, total |-> 0, observed |-> 0,
             available |-> FALSE, progressing |-> FALSE, degraded |-> FALSE, problems |-> {}]

EnvRecords == [generation : Nat, services : SUBSET Services, status : Statuses]
Specs == [generation : Nat, services : SUBSET Services]
SpecOf(env) == [generation |-> env.generation, services |-> env.services]

Deployments == [present : BOOLEAN, ready : Nat, stalled : BOOLEAN]
NoDeployment == [present |-> FALSE, ready |-> 0, stalled |-> FALSE]

isReady(s, d) == d.present /\ d.ready >= Replicas[s]

-----------------------------------------------------------------------------
(* The statuses a pass writes *)

(* Mutation: an environment that is being provisioned is never degraded. *)
ProvisionedStatusMute(env, ready, problems) ==
  [phase |-> IF ready = Cardinality(env.services) THEN "Ready" ELSE "Provisioning",
   ready |-> ready, total |-> Cardinality(env.services), observed |-> env.generation,
   available |-> ready = Cardinality(env.services),
   progressing |-> ready # Cardinality(env.services),
   degraded |-> FALSE, problems |-> {}]

ProvisionedStatus(env, ready, problems) ==
  LET allReady == ready = Cardinality(env.services)
  IN  [phase |-> IF allReady THEN "Ready" ELSE "Provisioning",
       ready |-> ready, total |-> Cardinality(env.services), observed |-> env.generation,
       available |-> allReady,
       progressing |-> ~allReady /\ problems = {},
       degraded |-> problems # {}, problems |-> problems]

(* Mutations: the generation is not recorded; the total is, the count is not. *)
FailedStatusUndated(env) ==
  [record.status EXCEPT !.phase = "Failed",
     !.available = FALSE, !.progressing = FALSE, !.degraded = TRUE, !.problems = {}]
FailedStatusRecounted(env) ==
  [record.status EXCEPT !.phase = "Failed", !.observed = env.generation,
     !.total = Cardinality(env.services),
     !.available = FALSE, !.progressing = FALSE, !.degraded = TRUE, !.problems = {}]

(* Phase and conditions; the counts stay as they were.  (The write goes through *)
(* only over the version the pass has read: its status is the record's.)       *)
FailedStatus(env) ==
  [record.status EXCEPT !.phase = "Failed", !.observed = env.generation,
     !.available = FALSE, !.progressing = FALSE, !.degraded = TRUE, !.problems = {}]

-----------------------------------------------------------------------------
(* The worker *)

(* overtaken: the record has a newer version than the pass has read. *)
Idle == [pc |-> "idle", env |-> [generation |-> 0, services |-> {}], overtaken |-> FALSE,
         todo |-> {}, ready |-> 0, found |-> {}]

Workers == [pc : {"idle", "prepare", "services", "listPods", "setProvisioned", "setFailed"},
            env : Specs, overtaken : BOOLEAN, todo : SUBSET Services, ready : Nat, found : SUBSET Services]

At(pc) == worker.pc = pc
Goto(pc) == worker' = [worker EXCEPT !.pc = pc]
Finish == worker' = Idle

(* The variables have their types, and what is counted stays within what is *)
(* there to be counted.                                                      *)
TypeOK ==
  /\ record.status.ready <= record.status.total
  /\ worker.todo \subseteq worker.env.services
  /\ worker.ready + Cardinality(worker.todo) <= Cardinality(worker.env.services)
  /\ record \in EnvRecords /\ cached \in Specs /\ behind \in BOOLEAN
  /\ deploys \in [Services -> Deployments] /\ listed \in [Services -> Deployments]
  /\ unlisted \subseteq Services
  /\ failing \subseteq Services /\ {obstacle, queued, timer} \subseteq BOOLEAN
  /\ worker \in Workers
  /\ used \in [{"churn", "faults", "crashes"} -> Nat]

Init ==
  /\ record \in [generation : {1}, services : SUBSET Services, status : {NoStatus}]
  /\ cached = SpecOf(record) /\ behind = FALSE
  /\ deploys = [s \in Services |-> NoDeployment] /\ listed = deploys /\ unlisted = {}
  /\ failing = {} /\ obstacle \in BOOLEAN
  /\ queued = TRUE /\ timer = FALSE
  /\ worker = Idle
  /\ used = [b \in {"churn", "faults", "crashes"} |-> 0]

SetDeployments(new) ==
  /\ deploys' = new
  /\ unlisted' = unlisted \cup {s \in Services : new[s] # deploys[s]}
  /\ UNCHANGED listed

Spend(bound, max) == used[bound] < max /\ used' = [used EXCEPT ![bound] = @ + 1]

-----------------------------------------------------------------------------
(* Users and workloads *)

EditSpec ==
  /\ record.generation < MaxGeneration
  /\ \E services \in SUBSET Services \ {record.services} :
       record' = [record EXCEPT !.services = services, !.generation = @ + 1]
  /\ behind' = TRUE
  /\ worker' = IF At("idle") THEN worker ELSE [worker EXCEPT !.overtaken = TRUE]
  /\ UNCHANGED <<cached, deploys, views, world, queued, timer, used>>

(* What keeps reconcileEnvironment from succeeding comes and goes unwatched. *)
ToggleObstacle ==
  /\ Spend("churn", MaxChurn)
  /\ obstacle' = ~obstacle
  /\ UNCHANGED <<record, cached, behind, deploys, views, failing, queued, timer, worker>>

(* Pods break and recover; while nothing changes in the Deployment's status *)
(* nobody hears of it.                                                      *)
PodChanges(s) ==
  /\ Spend("churn", MaxChurn)
  /\ s \in failing \/ deploys[s].present
  /\ failing' = IF s \in failing THEN failing \ {s} ELSE failing \cup {s}
  /\ UNCHANGED <<record, cached, behind, deploys, views, obstacle, queued, timer, worker>>

(* The Deployment controller counts ready replicas and gives up on a rollout *)
(* that has made no progress.                                                *)
DeploymentChanges(s) ==
  /\ Spend("churn", MaxChurn)
  /\ deploys[s].present
  /\ \E ready \in 0 .. Replicas[s], stalled \in BOOLEAN :
       /\ deploys[s] # [present |-> TRUE, ready |-> ready, stalled |-> stalled]
       /\ SetDeployments([deploys EXCEPT ![s].ready = ready, ![s].stalled = stalled])
  /\ UNCHANGED <<record, cached, behind, world, queued, timer, worker>>

DeploymentDeleted(s) ==
  /\ Spend("churn", MaxChurn)
  /\ deploys[s].present
  /\ SetDeployments([deploys EXCEPT ![s] = NoDeployment])
  /\ failing' = failing \ {s}
  /\ UNCHANGED <<record, cached, behind, obstacle, queued, timer, worker>>

-----------------------------------------------------------------------------
(* What puts the environment into the queue *)

DeliverRecord ==
  /\ behind
  /\ cached' = SpecOf(record) /\ behind' = FALSE
  /\ queued' = TRUE
  /\ UNCHANGED <<record, deploys, views, world, timer, worker, used>>

DeliverDeployment(s) ==
  /\ s \in unlisted
  /\ unlisted' = unlisted \ {s}
  /\ listed' = [listed EXCEPT ![s] = deploys[s]]
  /\ queued' = TRUE
  /\ UNCHANGED <<record, cached, behind, deploys, world, timer, worker, used>>

TimerFires ==
  /\ timer
  /\ timer' = FALSE /\ queued' = TRUE
  /\ UNCHANGED <<record, cached, behind, deploys, views, world, worker, used>>

-----------------------------------------------------------------------------
(* A pass *)

Reconcile ==
  /\ At("idle") /\ queued
  /\ queued' = FALSE
  /\ worker' = [Idle EXCEPT !.pc = "prepare", !.env = cached, !.overtaken = behind, !.todo = cached.services]
  /\ UNCHANGED <<record, cached, behind, deploys, views, world, timer, used>>

(* Namespace, config map, secrets and claim. *)
Prepare ==
  /\ At("prepare")
  /\ IF obstacle THEN Goto("setFailed") ELSE Goto("services")
  /\ UNCHANGED <<record, cached, behind, deploys, views, world, queued, timer, used>>

(* reconcileService reads the Deployment through the cache and sends what it *)
(* has made of it: AlreadyExists, a conflict or NotFound where the cache is   *)
(* not current.  It counts what the answer says is ready.                     *)
ReconcileService(s) ==
  /\ At("services") /\ s \in worker.todo
  /\ \/ /\ s \in unlisted /\ (listed[s].present \/ deploys[s].present)
        /\ Goto("setFailed")
        /\ UNCHANGED <<deploys, views>>
     \/ /\ s \notin unlisted \/ ~(listed[s].present \/ deploys[s].present)
        /\ SetDeployments([deploys EXCEPT ![s].present = TRUE])
        /\ worker' = [worker EXCEPT !.todo = @ \ {s},
                        !.ready = IF isReady(s, deploys'[s]) THEN @ + 1 ELSE @]
  /\ UNCHANGED <<record, cached, behind, world, queued, timer, used>>

(* pruneServices deletes what the cache lists and the spec it read lacks. *)
Stray == {s \in Services \ worker.env.services : listed[s].present}

PruneServices ==
  /\ At("services") /\ worker.todo = {}
  /\ SetDeployments([s \in Services |-> IF s \in Stray THEN NoDeployment ELSE deploys[s]])
  /\ failing' = failing \ Stray
  /\ IF worker.ready = Cardinality(worker.env.services)
       THEN Goto("setProvisioned") ELSE Goto("listPods")
  /\ UNCHANGED <<record, cached, behind, obstacle, queued, timer, used>>

(* workloadProblems: pods come from the API server.  A list that fails costs *)
(* the detail and nothing else.                                              *)
ListPods ==
  /\ At("listPods")
  /\ \/ worker' = [worker EXCEPT !.pc = "setProvisioned", !.found = failing] /\ UNCHANGED used
     \/ Goto("setProvisioned") /\ Spend("faults", MaxFaults)
  /\ UNCHANGED <<record, cached, behind, deploys, views, world, queued, timer>>

workloadProblems ==
  IF worker.ready = Cardinality(worker.env.services) THEN {}
  ELSE worker.env.services \cap
         (worker.found \cup {s \in Services : listed[s].present /\ listed[s].stalled})

(* Mutations: every write makes a version; a write ignores the version read. *)
NewVersionAlways(status) ==
  IF worker.overtaken THEN UNCHANGED <<record, behind>>
  ELSE record' = [record EXCEPT !.status = status] /\ behind' = TRUE
UpdateBlindly(status) ==
  IF status = record.status THEN UNCHANGED <<record, behind>>
  ELSE record' = [record EXCEPT !.status = status] /\ behind' = TRUE

(* Status().Update: a conflict is not an error, the fresher copy will bring  *)
(* the controller back.  A status that says the same makes no new version.   *)
UpdateStatus(status) ==
  IF worker.overtaken \/ status = record.status THEN UNCHANGED <<record, behind>>
  ELSE record' = [record EXCEPT !.status = status] /\ behind' = TRUE

Retry == Finish /\ queued' = TRUE

(* Mutation: nothing brings the controller back to a service that is not ready. *)
NoRequeue == UNCHANGED timer
RequeueUnlessReady ==
  timer' = (timer \/ worker.ready < Cardinality(worker.env.services))

SetProvisioned ==
  /\ At("setProvisioned")
  /\ UpdateStatus(ProvisionedStatus(worker.env, worker.ready, workloadProblems))
  /\ \/ Finish /\ RequeueUnlessReady /\ UNCHANGED <<queued, used>>
     \/ Retry /\ Spend("faults", MaxFaults) /\ UNCHANGED timer
  /\ UNCHANGED <<cached, deploys, views, world>>

SetFailed ==
  /\ At("setFailed")
  /\ UpdateStatus(FailedStatus(worker.env))
  /\ Retry
  /\ UNCHANGED <<cached, deploys, views, world, timer, used>>

(* A call of reconcileEnvironment fails: the pass goes to setFailed.  The   *)
(* status write itself may fail too, before it has any effect.              *)
ApiError ==
  /\ Spend("faults", MaxFaults)
  /\ \/ worker.pc \in {"prepare", "services"} /\ Goto("setFailed") /\ UNCHANGED queued
     \/ worker.pc \in {"setProvisioned", "setFailed"} /\ Retry
  /\ UNCHANGED <<record, cached, behind, deploys, views, world, timer>>

Restart ==
  /\ Spend("crashes", MaxCrashes)
  /\ worker' = Idle
  /\ cached' = SpecOf(record) /\ behind' = FALSE
  /\ listed' = deploys /\ unlisted' = {}
  /\ queued' = TRUE /\ timer' = FALSE
  /\ UNCHANGED <<record, deploys, world>>

-----------------------------------------------------------------------------
(* The specification *)

AtRest ==
  /\ worker = Idle /\ ~queued /\ ~timer
  /\ ~behind /\ unlisted = {}

Rest == AtRest /\ UNCHANGED vars

World == EditSpec \/ ToggleObstacle
         \/ \E s \in Services : PodChanges(s) \/ DeploymentChanges(s) \/ DeploymentDeleted(s)

Calls == \/ Prepare \/ PruneServices \/ ListPods \/ SetProvisioned \/ SetFailed
         \/ \E s \in Services : ReconcileService(s)

Next ==
  \/ World
  \/ DeliverRecord \/ TimerFires \/ \E s \in Services : DeliverDeployment(s)
  \/ Reconcile \/ Calls \/ ApiError \/ Restart \/ Rest

Spec == Init /\ [][Next]_vars

(* The pass goes on, events and timers arrive, the queue is served.  Users,  *)
(* workloads, faults and restarts owe nothing.                               *)
Fairness ==
  /\ WF_vars(Calls) /\ WF_vars(Reconcile)
  /\ WF_vars(DeliverRecord) /\ WF_vars(TimerFires)
  /\ \A s \in Services : WF_vars(DeliverDeployment(s))

FairSpec == Spec /\ Fairness

-----------------------------------------------------------------------------
(* Properties *)

(* Services with as many ready replicas as they ask for. *)
Up == {s \in record.services : deploys[s].present /\ deploys[s].ready >= Replicas[s]}

(* Services that cannot come up, as far as pods and Deployments tell. *)
Ill == IF Up = record.services THEN {}
       ELSE {s \in record.services : s \in failing \/ deploys[s].stalled}

Accurate ==
  /\ record.status.observed = record.generation
  /\ record.status.total = Cardinality(record.services)
  /\ record.status.ready = Cardinality(Up)
  /\ record.status.phase = IF Up = record.services THEN "Ready" ELSE "Provisioning"
  /\ record.status.available <=> Up = record.services
  /\ record.status.degraded <=> Ill # {}
  /\ record.status.progressing <=> Up # record.services /\ Ill = {}
  /\ record.status.problems = Ill

(* Once the world holds still, the status comes to tell the truth about it and *)
(* keeps to it: how many services have all the replicas they ask for           *)
(* (reconcileService and TestReconcileRequiresEveryRequestedReplicaToBeReady:  *)
(* "1 of 3 replicas is not a ready service", while the documentation of        *)
(* readyServices is content with one), and which services cannot start,        *)
(* although no event may have announced it (the requeue in Reconcile).         *)
StatusConverges == <>[](obstacle \/ Accurate)

(* Every edit of the spec gets an answer, if only that it failed (setFailed).  *)
EditObserved == record.status.observed # record.generation ~> record.status.observed = record.generation

(* The controller does not keep itself busy: in a still world its status       *)
(* writes, each of which puts the cache behind and wakes it again, come to an  *)
(* end (patchStatus, the watches of SetupWithManager).  That the message lists *)
(* problems in one order (workloadProblems) is not part of it: they are a set. *)
WritesSettle == <>[]~behind

(* A status never replaces one that was computed from a newer spec, and none   *)
(* is written for a spec that is no longer there (patchStatus: a conflict      *)
(* "just means a fresher copy exists").                                        *)
NewerKept ==
  [][record'.status # record.status => record'.status.observed = record.generation]_vars
===============================================================================
