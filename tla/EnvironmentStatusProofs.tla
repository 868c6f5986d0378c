----------------------- MODULE EnvironmentStatusProofs -----------------------
(***************************************************************************)
(* Theorems about EnvironmentStatus, for any finite set of services, any   *)
(* numbers of replicas and every bound.                                    *)
(***************************************************************************)
EXTENDS EnvironmentStatus, FiniteSetTheorems, TLAPS

(* The parts of the type invariant that a step touches together. *)
RecordOK == record \in EnvRecords /\ record.status.ready <= record.status.total

ViewsOK ==
  /\ deploys \in [Services -> Deployments] /\ listed \in [Services -> Deployments]
  /\ unlisted \subseteq Services

WorkerOK(w) ==
  /\ w \in Workers
  /\ w.todo \subseteq w.env.services
  /\ w.ready + Cardinality(w.todo) <= Cardinality(w.env.services)

RestOK ==
  /\ cached \in Specs /\ behind \in BOOLEAN
  /\ failing \subseteq Services /\ obstacle \in BOOLEAN
  /\ queued \in BOOLEAN /\ timer \in BOOLEAN
  /\ used \in [{"churn", "faults", "crashes"} -> Nat]

LEMMA TypeParts == TypeOK <=> RecordOK /\ ViewsOK /\ WorkerOK(worker) /\ RestOK
BY DEF TypeOK, RecordOK, ViewsOK, WorkerOK, RestOK

LEMMA TypePartsNext == RecordOK' /\ ViewsOK' /\ WorkerOK(worker)' /\ RestOK' => TypeOK'
BY DEF TypeOK, RecordOK, ViewsOK, WorkerOK, RestOK

-----------------------------------------------------------------------------
(* Counting *)

LEMMA CountType ==
  ASSUME NEW S \in SUBSET Services
  PROVE  IsFiniteSet(S) /\ Cardinality(S) \in Nat
BY FiniteAssumption, FS_Subset, FS_CardinalityType

LEMMA CountRemoved ==
  ASSUME NEW S \in SUBSET Services, NEW s \in S
  PROVE  Cardinality(S \ {s}) = Cardinality(S) - 1 /\ Cardinality(S) > 0
<1>1. IsFiniteSet(S) BY CountType
<1>2. Cardinality(S \ {s}) = Cardinality(S) - 1 BY <1>1, FS_RemoveElement
<1>3. Cardinality(S \ {s}) \in Nat /\ Cardinality(S) \in Nat BY CountType
<1> QED BY <1>2, <1>3

LEMMA CountEmpty == Cardinality({}) = 0
BY FS_EmptySet

LEMMA SpecType ==
  ASSUME record \in EnvRecords
  PROVE  SpecOf(record) \in Specs
BY DEF SpecOf, EnvRecords, Specs

LEMMA IdleOK == WorkerOK(Idle)
<1>1. Idle \in Workers BY DEF Idle, Workers, Specs
<1> QED BY <1>1, CountEmpty DEF WorkerOK, Idle

LEMMA GotoOK ==
  ASSUME WorkerOK(worker),
         NEW pc \in {"idle", "prepare", "services", "listPods", "setProvisioned", "setFailed"},
         Goto(pc)
  PROVE  WorkerOK(worker)' /\ worker'.pc = pc /\ worker'.env = worker.env
         /\ worker'.overtaken = worker.overtaken
<1>1. worker \in Workers BY DEF WorkerOK
<1>2. /\ worker' \in Workers /\ worker'.pc = pc /\ worker'.env = worker.env
      /\ worker'.todo = worker.todo /\ worker'.ready = worker.ready
      /\ worker'.overtaken = worker.overtaken
  BY <1>1 DEF Goto, Workers
<1> QED BY <1>2 DEF WorkerOK

LEMMA SpendType ==
  ASSUME used \in [{"churn", "faults", "crashes"} -> Nat],
         NEW bound \in {"churn", "faults", "crashes"}, NEW max, Spend(bound, max)
  PROVE  used' \in [{"churn", "faults", "crashes"} -> Nat]
BY DEF Spend

(* The statuses a pass writes count no more than there is, and carry the       *)
(* generation of the spec it has read.                                         *)
StatusOK(status) ==
  status \in Statuses /\ status.ready <= status.total

LEMMA ProvisionedOK ==
  ASSUME NEW env \in Specs, NEW ready \in Nat, NEW problems \in SUBSET Services,
         ready <= Cardinality(env.services)
  PROVE  /\ StatusOK(ProvisionedStatus(env, ready, problems))
         /\ ProvisionedStatus(env, ready, problems).observed = env.generation
<1>1. Cardinality(env.services) \in Nat /\ env.generation \in Nat
  BY CountType DEF Specs
<1> QED BY <1>1 DEF ProvisionedStatus, StatusOK, Statuses, Phases

LEMMA FailedOK ==
  ASSUME RecordOK, NEW env \in Specs
  PROVE  StatusOK(FailedStatus(env)) /\ FailedStatus(env).observed = env.generation
<1>1. record.status \in Statuses /\ record.status.ready <= record.status.total
  BY DEF RecordOK, EnvRecords
<1>2. env.generation \in Nat BY DEF Specs
<1>3. /\ FailedStatus(env) \in Statuses
      /\ FailedStatus(env).ready = record.status.ready
      /\ FailedStatus(env).total = record.status.total
      /\ FailedStatus(env).observed = env.generation
  BY <1>1, <1>2 DEF FailedStatus, Statuses, Phases
<1> QED BY <1>1, <1>3 DEF StatusOK

LEMMA UpdateOK ==
  ASSUME RecordOK, NEW status, StatusOK(status), behind \in BOOLEAN, UpdateStatus(status)
  PROVE  /\ RecordOK' /\ behind' \in BOOLEAN
         /\ SpecOf(record)' = SpecOf(record) /\ (behind => behind')
         /\ record'.status # record.status => record'.status = status /\ ~worker.overtaken
         /\ record'.generation = record.generation
<1>1. CASE UNCHANGED <<record, behind>> BY <1>1 DEF RecordOK, SpecOf
<1>2. CASE ~worker.overtaken /\ record' = [record EXCEPT !.status = status] /\ behind' = TRUE
  <2>1. /\ record' \in EnvRecords /\ record'.status = status
        /\ record'.generation = record.generation /\ record'.services = record.services
    BY <1>2 DEF RecordOK, EnvRecords, StatusOK
  <2> QED BY <1>2, <2>1 DEF RecordOK, StatusOK, SpecOf
<1> QED BY <1>1, <1>2 DEF UpdateStatus

-----------------------------------------------------------------------------
(* Steps *)

(* The cache that is not behind, and the pass that is not overtaken, hold the  *)
(* spec that is there.                                                         *)
Current ==
  /\ ~behind => cached = SpecOf(record)
  /\ worker.pc # "idle" /\ ~worker.overtaken => worker.env = SpecOf(record)

LEMMA DeploymentsWritten ==
  ASSUME ViewsOK, NEW new \in [Services -> Deployments], SetDeployments(new)
  PROVE  ViewsOK'
BY DEF ViewsOK, SetDeployments

LEMMA DeploymentOK ==
  ASSUME ViewsOK, NEW s \in Services
  PROVE  /\ NoDeployment \in Deployments
         /\ [deploys EXCEPT ![s].present = TRUE] \in [Services -> Deployments]
         /\ \A ready \in Nat, stalled \in BOOLEAN :
               [deploys EXCEPT ![s].ready = ready, ![s].stalled = stalled]
                 \in [Services -> Deployments]
<1>1. deploys \in [Services -> Deployments] BY DEF ViewsOK
<1>2. NoDeployment \in Deployments BY DEF NoDeployment, Deployments
<1>3. [deploys EXCEPT ![s].present = TRUE] \in [Services -> Deployments]
  BY <1>1 DEF Deployments
<1>4. ASSUME NEW ready \in Nat, NEW stalled \in BOOLEAN
      PROVE  [deploys EXCEPT ![s].ready = ready, ![s].stalled = stalled]
                \in [Services -> Deployments]
  BY <1>1, <1>4 DEF Deployments
<1> QED BY <1>2, <1>3, <1>4

LEMMA EditStep ==
  ASSUME TypeOK, EditSpec
  PROVE  TypeOK' /\ (Current => Current')
<1>1. RecordOK /\ ViewsOK /\ WorkerOK(worker) /\ RestOK BY TypeParts
<1>2. RecordOK'
  <2>1. PICK services \in SUBSET Services :
           record' = [record EXCEPT !.services = services, !.generation = @ + 1]
    BY DEF EditSpec
  <2>2. record' = [generation |-> record.generation + 1, services |-> services,
                   status |-> record.status]
    BY <1>1, <2>1 DEF RecordOK, EnvRecords
  <2> QED BY <1>1, <2>2 DEF RecordOK, EnvRecords
<1>3. worker' = worker \/ worker' = [worker EXCEPT !.overtaken = TRUE] BY DEF EditSpec
<1>4. WorkerOK(worker)'
  <2>1. CASE worker' = worker BY <1>1, <2>1 DEF WorkerOK
  <2>2. CASE worker' = [worker EXCEPT !.overtaken = TRUE]
    <3>1. /\ worker' \in Workers /\ worker'.todo = worker.todo
          /\ worker'.env = worker.env /\ worker'.ready = worker.ready
      BY <1>1, <2>2 DEF WorkerOK, Workers
    <3> QED BY <1>1, <3>1 DEF WorkerOK
  <2> QED BY <1>3, <2>1, <2>2
<1>5. ViewsOK' BY <1>1 DEF EditSpec, views, ViewsOK
<1>6. RestOK' BY <1>1 DEF EditSpec, world, RestOK
<1>7. Current'
  <2>1. worker'.pc # "idle" => worker'.overtaken
    BY <1>1 DEF EditSpec, At, WorkerOK, Workers
  <2> QED BY <2>1 DEF EditSpec, Current
<1> QED BY <1>2, <1>4, <1>5, <1>6, <1>7, TypePartsNext

LEMMA WorldStep ==
  ASSUME TypeOK,
         \/ ToggleObstacle
         \/ \E s \in Services : PodChanges(s) \/ DeploymentChanges(s) \/ DeploymentDeleted(s)
  PROVE  TypeOK' /\ (Current => Current')
<1>1. RecordOK /\ ViewsOK /\ WorkerOK(worker) /\ RestOK BY TypeParts
<1>2. UNCHANGED <<record, cached, behind, queued, timer, worker>>
  BY DEF ToggleObstacle, PodChanges, DeploymentChanges, DeploymentDeleted
<1>3. used' \in [{"churn", "faults", "crashes"} -> Nat]
  BY <1>1, SpendType DEF ToggleObstacle, PodChanges, DeploymentChanges, DeploymentDeleted, RestOK
<1>4. failing' \subseteq Services /\ obstacle' \in BOOLEAN
  BY <1>1 DEF ToggleObstacle, PodChanges, DeploymentChanges, DeploymentDeleted, RestOK, world
<1>5. ViewsOK'
  <2>1. CASE ToggleObstacle \/ \E s \in Services : PodChanges(s)
    BY <1>1, <2>1 DEF ToggleObstacle, PodChanges, views, ViewsOK
  <2>2. ASSUME NEW s \in Services, DeploymentChanges(s) PROVE ViewsOK'
    <3>1. PICK ready \in 0 .. Replicas[s], stalled \in BOOLEAN :
             SetDeployments([deploys EXCEPT ![s].ready = ready, ![s].stalled = stalled])
      BY <2>2 DEF DeploymentChanges
    <3>2. ready \in Nat BY ReplicasAssumption
    <3> QED BY <1>1, <3>1, <3>2, DeploymentOK, DeploymentsWritten
  <2>3. ASSUME NEW s \in Services, DeploymentDeleted(s) PROVE ViewsOK'
    <3>1. [deploys EXCEPT ![s] = NoDeployment] \in [Services -> Deployments]
      BY <1>1, DeploymentOK DEF ViewsOK
    <3> QED BY <1>1, <2>3, <3>1, DeploymentsWritten DEF DeploymentDeleted
  <2> QED BY <2>1, <2>2, <2>3
<1>6. RecordOK' /\ WorkerOK(worker)' BY <1>1, <1>2 DEF RecordOK, WorkerOK
<1>7. RestOK' BY <1>1, <1>2, <1>3, <1>4 DEF RestOK
<1>8. Current => Current' BY <1>2 DEF Current, SpecOf
<1> QED BY <1>5, <1>6, <1>7, <1>8, TypePartsNext

LEMMA EventStep ==
  ASSUME TypeOK, DeliverRecord \/ TimerFires \/ \E s \in Services : DeliverDeployment(s)
  PROVE  TypeOK' /\ (Current => Current')
<1>1. RecordOK /\ ViewsOK /\ WorkerOK(worker) /\ RestOK BY TypeParts
<1>2. UNCHANGED <<record, deploys, failing, obstacle, worker, used>> /\ queued' = TRUE
  BY DEF DeliverRecord, TimerFires, DeliverDeployment, world
<1>3. \/ UNCHANGED <<cached, behind>>
      \/ cached' = SpecOf(record) /\ behind' = FALSE
  BY DEF DeliverRecord, TimerFires, DeliverDeployment
<1>4. SpecOf(record) \in Specs BY <1>1, SpecType DEF RecordOK
<1>5. timer' \in BOOLEAN
  BY <1>1 DEF DeliverRecord, TimerFires, DeliverDeployment, RestOK
<1>6. ViewsOK'
  BY <1>1, <1>2 DEF DeliverRecord, TimerFires, DeliverDeployment, ViewsOK, views
<1>7. RecordOK' /\ WorkerOK(worker)' BY <1>1, <1>2 DEF RecordOK, WorkerOK
<1>8. RestOK' BY <1>1, <1>2, <1>3, <1>4, <1>5 DEF RestOK
<1>9. Current => Current' BY <1>2, <1>3 DEF Current, SpecOf
<1> QED BY <1>6, <1>7, <1>8, <1>9, TypePartsNext

(* A step of the pass that does not write the status; it ends, or goes on with *)
(* the spec it has read.                                                       *)
LEMMA QuietStep ==
  ASSUME TypeOK, UNCHANGED <<record, cached, behind>>, WorkerOK(worker)', ViewsOK',
         failing' \subseteq Services, obstacle' \in BOOLEAN, queued' \in BOOLEAN,
         timer' \in BOOLEAN, used' \in [{"churn", "faults", "crashes"} -> Nat],
         \/ worker'.pc = "idle"
         \/ /\ worker.pc # "idle"
            /\ worker'.env = worker.env /\ worker'.overtaken = worker.overtaken
  PROVE  TypeOK' /\ (Current => Current')
<1>1. RecordOK /\ RestOK BY TypeParts
<1>2. RecordOK' /\ RestOK' BY <1>1 DEF RecordOK, RestOK
<1>3. Current => Current' BY DEF Current, SpecOf
<1> QED BY <1>2, <1>3, TypePartsNext

(* What a step may do to the type invariant, to Current and to the status. *)
StatusFresh == record'.status # record.status => record'.status.observed = record.generation

LEMMA ReconcileStep ==
  ASSUME TypeOK, Reconcile
  PROVE  TypeOK' /\ (Current => Current')
<1>1. RecordOK /\ ViewsOK /\ WorkerOK(worker) /\ RestOK BY TypeParts
<1>2. worker' = [pc |-> "prepare", env |-> cached, overtaken |-> behind,
                 todo |-> cached.services, ready |-> 0, found |-> {}]
  BY DEF Reconcile, Idle
<1>3. cached \in Specs /\ behind \in BOOLEAN BY <1>1 DEF RestOK
<1>4. /\ worker' \in Workers /\ worker'.pc = "prepare" /\ worker'.env = cached
      /\ worker'.todo = cached.services /\ worker'.ready = 0
      /\ worker'.overtaken = behind
  BY <1>2, <1>3 DEF Workers, Specs
<1>5. Cardinality(cached.services) \in Nat BY <1>3, CountType DEF Specs
<1>6. WorkerOK(worker)' BY <1>4, <1>5 DEF WorkerOK
<1>7. ViewsOK' BY <1>1 DEF Reconcile, views, ViewsOK
<1>8. RecordOK' /\ RestOK' BY <1>1 DEF Reconcile, world, RecordOK, RestOK
<1>9. Current => Current' BY <1>4 DEF Reconcile, Current, SpecOf
<1> QED BY <1>6, <1>7, <1>8, <1>9, TypePartsNext

LEMMA PrepareStep ==
  ASSUME TypeOK, Prepare
  PROVE  TypeOK' /\ (Current => Current')
<1>1. RecordOK /\ ViewsOK /\ WorkerOK(worker) /\ RestOK BY TypeParts
<1>2. worker.pc # "idle" BY DEF Prepare, At
<1>3. /\ WorkerOK(worker)' /\ worker'.env = worker.env
      /\ worker'.overtaken = worker.overtaken
  BY <1>1, GotoOK DEF Prepare
<1>4. ViewsOK' BY <1>1 DEF Prepare, views, ViewsOK
<1> QED BY <1>1, <1>2, <1>3, <1>4, QuietStep DEF Prepare, world, RestOK

LEMMA ServiceStep ==
  ASSUME TypeOK, NEW s \in Services, ReconcileService(s)
  PROVE  TypeOK' /\ (Current => Current')
<1>1. RecordOK /\ ViewsOK /\ WorkerOK(worker) /\ RestOK BY TypeParts
<1>2. worker.pc # "idle" BY DEF ReconcileService, At
<1>3. CASE Goto("setFailed") /\ UNCHANGED <<deploys, views>>
  <2>1. /\ WorkerOK(worker)' /\ worker'.env = worker.env
        /\ worker'.overtaken = worker.overtaken
    BY <1>1, <1>3, GotoOK
  <2>2. ViewsOK' BY <1>1, <1>3 DEF views, ViewsOK
  <2> QED BY <1>1, <1>2, <2>1, <2>2, QuietStep DEF ReconcileService, world, RestOK
<1>4. CASE /\ SetDeployments([deploys EXCEPT ![s].present = TRUE])
           /\ worker' = [worker EXCEPT !.todo = @ \ {s},
                            !.ready = IF isReady(s, deploys'[s]) THEN @ + 1 ELSE @]
  <2>1. ViewsOK' BY <1>1, <1>4, DeploymentOK, DeploymentsWritten
  <2>2. worker \in Workers /\ s \in worker.todo
    BY <1>1 DEF WorkerOK, ReconcileService
  <2>3. /\ worker' \in Workers /\ worker'.env = worker.env
        /\ worker'.overtaken = worker.overtaken
        /\ worker'.todo = worker.todo \ {s}
        /\ worker'.ready \in {worker.ready, worker.ready + 1}
    <3>1. PICK n \in {worker.ready, worker.ready + 1} :
             worker' = [worker EXCEPT !.todo = @ \ {s}, !.ready = n]
      <4>1. CASE isReady(s, deploys'[s]) BY <1>4, <4>1
      <4>2. CASE ~isReady(s, deploys'[s]) BY <1>4, <4>2
      <4> QED BY <4>1, <4>2
    <3>2. n \in Nat BY <2>2 DEF Workers
    <3> QED BY <2>2, <3>1, <3>2 DEF Workers
  <2>4. worker'.todo \subseteq worker'.env.services BY <1>1, <2>3 DEF WorkerOK
  <2>5. worker'.ready + Cardinality(worker'.todo) <= Cardinality(worker'.env.services)
    <3>1. worker.todo \in SUBSET Services /\ worker.ready \in Nat
          /\ worker.env.services \in SUBSET Services
      BY <2>2 DEF Workers, Specs
    <3>2. Cardinality(worker'.todo) = Cardinality(worker.todo) - 1
      BY <2>2, <2>3, <3>1, CountRemoved
    <3>3. Cardinality(worker.todo) \in Nat /\ Cardinality(worker.env.services) \in Nat
      BY <3>1, CountType
    <3>4. worker.ready + Cardinality(worker.todo) <= Cardinality(worker.env.services)
      BY <1>1 DEF WorkerOK
    <3> QED BY <2>3, <3>1, <3>2, <3>3, <3>4
  <2>6. WorkerOK(worker)' BY <2>3, <2>4, <2>5 DEF WorkerOK
  <2> QED BY <1>1, <1>2, <2>1, <2>3, <2>6, QuietStep DEF ReconcileService, world, RestOK
<1> QED BY <1>3, <1>4 DEF ReconcileService

LEMMA PruneStep ==
  ASSUME TypeOK, PruneServices
  PROVE  TypeOK' /\ (Current => Current')
<1>1. RecordOK /\ ViewsOK /\ WorkerOK(worker) /\ RestOK BY TypeParts
<1>2. worker.pc # "idle" BY DEF PruneServices, At
<1>3. /\ WorkerOK(worker)' /\ worker'.env = worker.env
      /\ worker'.overtaken = worker.overtaken
  BY <1>1, GotoOK DEF PruneServices
<1>4. ViewsOK'
  <2>1. [s \in Services |-> IF s \in Stray THEN NoDeployment ELSE deploys[s]]
          \in [Services -> Deployments]
    BY <1>1 DEF ViewsOK, NoDeployment, Deployments
  <2> QED BY <1>1, <2>1, DeploymentsWritten DEF PruneServices
<1> QED BY <1>1, <1>2, <1>3, <1>4, QuietStep DEF PruneServices, RestOK

LEMMA ListPodsStep ==
  ASSUME TypeOK, ListPods
  PROVE  TypeOK' /\ (Current => Current')
<1>1. RecordOK /\ ViewsOK /\ WorkerOK(worker) /\ RestOK BY TypeParts
<1>2. worker.pc # "idle" BY DEF ListPods, At
<1>3. used' \in [{"churn", "faults", "crashes"} -> Nat]
  BY <1>1, SpendType DEF ListPods, RestOK
<1>4. /\ WorkerOK(worker)' /\ worker'.env = worker.env
      /\ worker'.overtaken = worker.overtaken
  <2>1. CASE Goto("setProvisioned") BY <1>1, <2>1, GotoOK
  <2>2. CASE worker' = [worker EXCEPT !.pc = "setProvisioned", !.found = failing]
    <3>1. /\ worker' \in Workers /\ worker'.env = worker.env
          /\ worker'.todo = worker.todo /\ worker'.ready = worker.ready
          /\ worker'.overtaken = worker.overtaken
      BY <1>1, <2>2 DEF WorkerOK, Workers, RestOK
    <3> QED BY <1>1, <3>1 DEF WorkerOK
  <2> QED BY <2>1, <2>2 DEF ListPods
<1>5. ViewsOK' BY <1>1 DEF ListPods, views, ViewsOK
<1> QED BY <1>1, <1>2, <1>3, <1>4, <1>5, QuietStep DEF ListPods, world, RestOK

(* The two steps that write the status: of the spec the pass has read, which is *)
(* the spec that is there unless the pass is overtaken.                         *)
LEMMA WriteStep ==
  ASSUME TypeOK, worker.pc # "idle", NEW status, StatusOK(status),
         status.observed = worker.env.generation, UpdateStatus(status), worker' = Idle,
         UNCHANGED <<cached, deploys, views, world>>, queued' \in BOOLEAN,
         timer' \in BOOLEAN, used' \in [{"churn", "faults", "crashes"} -> Nat]
  PROVE  TypeOK' /\ (Current => Current' /\ StatusFresh)
<1>1. RecordOK /\ ViewsOK /\ WorkerOK(worker) /\ RestOK BY TypeParts
<1>2. /\ RecordOK' /\ behind' \in BOOLEAN
      /\ SpecOf(record)' = SpecOf(record) /\ (behind => behind')
      /\ record'.status # record.status => record'.status = status /\ ~worker.overtaken
      /\ record'.generation = record.generation
  BY <1>1, UpdateOK DEF RestOK
<1>3. WorkerOK(worker)' BY IdleOK DEF WorkerOK
<1>4. ViewsOK' BY <1>1 DEF views, ViewsOK
<1>5. RestOK' BY <1>1, <1>2 DEF RestOK, world
<1>6. ASSUME Current PROVE Current' /\ StatusFresh
  <2>1. worker'.pc = "idle" BY DEF Idle
  <2>2. behind \in BOOLEAN BY <1>1 DEF RestOK
  <2>3. Current' BY <1>2, <1>6, <2>1, <2>2 DEF Current
  <2>4. ASSUME record'.status # record.status
        PROVE  record'.status.observed = record.generation
    <3>1. worker.env = SpecOf(record) BY <1>2, <1>6, <2>4 DEF Current
    <3>2. worker.env.generation = record.generation BY <3>1 DEF SpecOf
    <3> QED BY <1>2, <2>4, <3>2
  <2> QED BY <2>3, <2>4 DEF StatusFresh
<1> QED BY <1>2, <1>3, <1>4, <1>5, <1>6, TypePartsNext

LEMMA SetProvisionedStep ==
  ASSUME TypeOK, SetProvisioned
  PROVE  TypeOK' /\ (Current => Current' /\ StatusFresh)
<1> DEFINE status == ProvisionedStatus(worker.env, worker.ready, workloadProblems)
<1>1. RecordOK /\ ViewsOK /\ WorkerOK(worker) /\ RestOK BY TypeParts
<1>2. worker.env \in Specs /\ worker.ready \in Nat BY <1>1 DEF WorkerOK, Workers
<1>3. workloadProblems \in SUBSET Services BY <1>2 DEF workloadProblems, Specs
<1>4. worker.ready <= Cardinality(worker.env.services)
  <2>1. /\ worker.todo \in SUBSET Services
        /\ worker.env.services \in SUBSET Services
    BY <1>1 DEF WorkerOK, Workers, Specs
  <2>2. Cardinality(worker.todo) \in Nat /\ Cardinality(worker.env.services) \in Nat
    BY <2>1, CountType
  <2> QED BY <1>1, <1>2, <2>2 DEF WorkerOK
<1>5. StatusOK(status) /\ status.observed = worker.env.generation
  BY <1>2, <1>3, <1>4, ProvisionedOK
<1>6. worker.pc # "idle" /\ worker' = Idle /\ UpdateStatus(status)
  BY DEF SetProvisioned, At, Finish, Retry
<1>7. /\ queued' \in BOOLEAN /\ timer' \in BOOLEAN
      /\ used' \in [{"churn", "faults", "crashes"} -> Nat]
  BY <1>1, SpendType DEF SetProvisioned, Retry, RequeueUnlessReady, RestOK
<1>8. UNCHANGED <<cached, deploys, views, world>> BY DEF SetProvisioned
<1> HIDE DEF status
<1> QED BY <1>5, <1>6, <1>7, <1>8, WriteStep

LEMMA SetFailedStep ==
  ASSUME TypeOK, SetFailed
  PROVE  TypeOK' /\ (Current => Current' /\ StatusFresh)
<1> DEFINE status == FailedStatus(worker.env)
<1>1. RecordOK /\ WorkerOK(worker) /\ RestOK BY TypeParts
<1>2. worker.env \in Specs BY <1>1 DEF WorkerOK, Workers
<1>3. StatusOK(status) /\ status.observed = worker.env.generation BY <1>1, <1>2, FailedOK
<1>4. worker.pc # "idle" /\ worker' = Idle /\ UpdateStatus(status)
  BY DEF SetFailed, At, Finish, Retry
<1>5. /\ queued' \in BOOLEAN /\ timer' \in BOOLEAN
      /\ used' \in [{"churn", "faults", "crashes"} -> Nat]
  BY <1>1 DEF SetFailed, Retry, RestOK
<1>6. UNCHANGED <<cached, deploys, views, world>> BY DEF SetFailed
<1> HIDE DEF status
<1> QED BY <1>3, <1>4, <1>5, <1>6, WriteStep

LEMMA ApiErrorStep ==
  ASSUME TypeOK, ApiError
  PROVE  TypeOK' /\ (Current => Current')
<1>1. RecordOK /\ ViewsOK /\ WorkerOK(worker) /\ RestOK BY TypeParts
<1>2. used' \in [{"churn", "faults", "crashes"} -> Nat]
  BY <1>1, SpendType DEF ApiError, RestOK
<1>3. ViewsOK' BY <1>1 DEF ApiError, views, ViewsOK
<1>4. CASE worker.pc \in {"prepare", "services"} /\ Goto("setFailed") /\ UNCHANGED queued
  <2>1. /\ WorkerOK(worker)' /\ worker'.env = worker.env
        /\ worker'.overtaken = worker.overtaken
    BY <1>1, <1>4, GotoOK
  <2>2. worker.pc # "idle" BY <1>4
  <2> QED BY <1>1, <1>2, <1>3, <1>4, <2>1, <2>2, QuietStep DEF ApiError, world, RestOK
<1>5. CASE Retry
  <2>1. WorkerOK(worker)' BY <1>5, IdleOK DEF Retry, Finish, WorkerOK
  <2>2. worker'.pc = "idle" BY <1>5 DEF Retry, Finish, Idle
  <2> QED BY <1>1, <1>2, <1>3, <1>5, <2>1, <2>2, QuietStep DEF ApiError, Retry, world, RestOK
<1> QED BY <1>4, <1>5 DEF ApiError

LEMMA RestartStep ==
  ASSUME TypeOK, Restart
  PROVE  TypeOK' /\ (Current => Current')
<1>1. RecordOK /\ ViewsOK /\ WorkerOK(worker) /\ RestOK BY TypeParts
<1>2. used' \in [{"churn", "faults", "crashes"} -> Nat]
  BY <1>1, SpendType DEF Restart, RestOK
<1>3. SpecOf(record) \in Specs BY <1>1, SpecType DEF RecordOK
<1>4. WorkerOK(worker)' BY IdleOK DEF Restart, WorkerOK
<1>5. ViewsOK' BY <1>1 DEF Restart, ViewsOK
<1>6. RecordOK' BY <1>1 DEF Restart, RecordOK
<1>7. RestOK' BY <1>1, <1>2, <1>3 DEF Restart, RestOK, world
<1>8. Current' BY DEF Restart, Current, SpecOf, Idle
<1> QED BY <1>4, <1>5, <1>6, <1>7, <1>8, TypePartsNext

-----------------------------------------------------------------------------
(* Theorems *)

LEMMA InitOK == Init => TypeOK /\ Current
<1> SUFFICES ASSUME Init PROVE TypeOK /\ Current OBVIOUS
<1>1. record \in [generation : {1}, services : SUBSET Services, status : {NoStatus}]
  BY DEF Init
<1>2. NoStatus \in Statuses /\ NoStatus.ready <= NoStatus.total
  BY DEF NoStatus, Statuses, Phases
<1>3. RecordOK BY <1>1, <1>2 DEF RecordOK, EnvRecords
<1>4. ViewsOK BY DEF Init, ViewsOK, NoDeployment, Deployments
<1>5. WorkerOK(worker) BY IdleOK DEF Init
<1>6. SpecOf(record) \in Specs BY <1>3, SpecType DEF RecordOK
<1>7. RestOK BY <1>6 DEF Init, RestOK
<1>8. Current BY DEF Init, Current, Idle
<1> QED BY <1>3, <1>4, <1>5, <1>7, <1>8, TypeParts

LEMMA StepOK ==
  ASSUME TypeOK, [Next]_vars
  PROVE  TypeOK' /\ (Current => Current' /\ StatusFresh)
<1>1. CASE UNCHANGED vars
  <2>1. RecordOK /\ ViewsOK /\ WorkerOK(worker) /\ RestOK BY TypeParts
  <2>2. RecordOK' /\ ViewsOK' /\ WorkerOK(worker)' /\ RestOK'
    BY <1>1, <2>1 DEF vars, RecordOK, ViewsOK, WorkerOK, RestOK
  <2>3. Current => Current' BY <1>1 DEF vars, Current, SpecOf
  <2> QED BY <1>1, <2>2, <2>3, TypePartsNext DEF vars, StatusFresh
<1>2. CASE EditSpec
  <2>1. record \in EnvRecords BY TypeParts DEF RecordOK
  <2>2. record'.status = record.status BY <1>2, <2>1 DEF EditSpec, EnvRecords
  <2> QED BY <1>2, <2>2, EditStep DEF StatusFresh
<1>3. CASE \/ ToggleObstacle
           \/ \E s \in Services : PodChanges(s) \/ DeploymentChanges(s) \/ DeploymentDeleted(s)
  <2>1. UNCHANGED record
    BY <1>3 DEF ToggleObstacle, PodChanges, DeploymentChanges, DeploymentDeleted
  <2> QED BY <1>3, <2>1, WorldStep DEF StatusFresh
<1>4. CASE DeliverRecord \/ TimerFires \/ \E s \in Services : DeliverDeployment(s)
  <2>1. UNCHANGED record BY <1>4 DEF DeliverRecord, TimerFires, DeliverDeployment
  <2> QED BY <1>4, <2>1, EventStep DEF StatusFresh
<1>5. CASE Reconcile BY <1>5, ReconcileStep DEF Reconcile, StatusFresh
<1>6. CASE Prepare BY <1>6, PrepareStep DEF Prepare, StatusFresh
<1>7. CASE \E s \in Services : ReconcileService(s)
  BY <1>7, ServiceStep DEF ReconcileService, StatusFresh
<1>8. CASE PruneServices BY <1>8, PruneStep DEF PruneServices, StatusFresh
<1>9. CASE ListPods BY <1>9, ListPodsStep DEF ListPods, StatusFresh
<1>10. CASE SetProvisioned BY <1>10, SetProvisionedStep
<1>11. CASE SetFailed BY <1>11, SetFailedStep
<1>12. CASE ApiError BY <1>12, ApiErrorStep DEF ApiError, StatusFresh
<1>13. CASE Restart BY <1>13, RestartStep DEF Restart, StatusFresh
<1> QED
  BY <1>1, <1>2, <1>3, <1>4, <1>5, <1>6, <1>7, <1>8, <1>9, <1>10, <1>11, <1>12, <1>13
  DEF Next, World, Calls, Rest

(* The variables have their types, and neither a status nor a pass ever counts *)
(* more ready services than it counts services (len(env.Spec.Services)).       *)
THEOREM TypeCorrect == Spec => []TypeOK
<1>1. Init => TypeOK BY InitOK
<1>2. TypeOK /\ [Next]_vars => TypeOK' BY StepOK
<1> QED BY <1>1, <1>2, PTL DEF Spec

(* A status that replaces another is of the spec that is there when it is      *)
(* written (patchStatus drops a write the API server answers with a conflict). *)
THEOREM NewerCorrect == Spec => NewerKept
<1>1. Init => TypeOK /\ Current BY InitOK
<1>2. TypeOK /\ Current /\ [Next]_vars => TypeOK' /\ Current' BY StepOK
<1>3. TypeOK /\ Current /\ [Next]_vars
      => [record'.status # record.status => record'.status.observed = record.generation]_vars
  BY StepOK DEF StatusFresh
<1> QED BY <1>1, <1>2, <1>3, PTL DEF Spec, NewerKept
=============================================================================
