# kado-operator in TLA+

kado-operator watches `DevEnvironment` records and gives each of them a
Kubernetes namespace filled with a ConfigMap, copies of Secrets, a volume claim
and one Deployment and Service per requested service. These modules model its
controller, check it with TLC on small instances and prove part of what was
checked with TLAPS for every size. All paths are relative to the repository
(`src/`); the controller is `internal/controller/devenvironment_controller.go`.

## The system

| Part | State it keeps | Operations | Correct when |
| --- | --- | --- | --- |
| Namespace lifecycle (`Reconcile`, `reconcileNamespace`, `reconcileDelete`, `mapping.go`) | the record's finalizer, the namespace and its labels; the manager's caches; the work queue | add finalizer, get/create/patch/delete namespace, release finalizer; map events to requests | no namespace is relabelled into an environment's, handed on or lost sight of; a deleted record goes away; one that stays is provisioned |
| Environment objects (`reconcileConfigMap`, `reconcilePVC`, `reconcileService`, `pruneServices`) | ConfigMap, claim, Deployments, Services | create or update each, prune what the spec dropped | the namespace converges to the spec and then stays quiet; a pod finds what it refers to; what others own or have set stays |
| Secret copies (`reconcileSecrets`, `replaceOnTypeChange`) | a copy of each referenced Secret | copy, replace on a change of type | the copy agrees with the source; nobody else's Secret is deleted |
| Status (`setProvisioned`, `setFailed`, `patchStatus`, the requeue) | phase, counts, conditions, observed generation | compute and write the status, ask to come back | it comes to tell the truth, never goes back, and the controller falls silent |
| Diagnosis (`workloadProblems`, `podProblem`, `containerProblem`, `progressDeadlineExceeded`) | none: reads pods and Deployments | explain a service that is not ready | a crash loop is seen in every state it passes through; a normal start is not a problem |
| Pod template (`container`, `imageRef`, `pullSecrets`, `applyFSGroup`, ...) | none: pure functions | render the template | references can be pulled; precedence as documented; no churn |
| API types, chart, manifests, `cmd/main.go`, generated code | configuration | wiring | out of scope, see below |
| Version numbering (`hack/next-version.sh`) and workflows (`ci.yml`, `release.yml`, `deploy.yml`) | git tags, images, concurrency groups | next version, tag, publish, release, re-run | versions never move backwards; an image is what its tag says |

The parts meet in three places. A pass of `Reconcile` calls the others in a fixed
order and stops at the first error, which becomes the status. They share the API
server, together with users, other tooling, the namespace controller and the
Deployment controller, none of which takes turns with a pass. And the manager's
caches, fed by watches, decide both what a pass reads and when it runs:
`environmentFromLabels` maps events on namespaces and Deployments back by label,
since there can be no owner reference across namespaces. Pods and Secrets wake
nobody; pods are read from the API server directly.

What is hard here: calls of one pass with other actors between them; decisions on
a cache that lags; calls that take effect and lose their answer; restarts between
two calls; objects the controller writes and does not watch; a pass that returns without a
requeue and counts on a watch; objects whose identity (UID) changes under an unchanged name. `PROJECT.json` lists each place under
"hazards".

## Modules

| Module | Models |
| --- | --- |
| `EnvironmentLease` | the promise about namespaces, without caches, passes or calls; its safety theorem |
| `NamespaceLifecycle` | the core: records, namespaces, caches, queue and the pass, one step per API call |
| `NamespaceLifecycleProofs`, `NamespaceHoldingProofs` | theorems about it |
| `EnvironmentStatus` | what a pass counts and writes, and what brings it back |
| `EnvironmentStatusProofs` | theorems about it |
| `WorkloadDiagnosis` | the diagnosis functions against the states pods and rollouts go through |
| `DiagnosisProofs` | theorems about it |
| `SecretCopy` | one referenced Secret and its copy, one step per API call |
| `SecretCopyProofs` | theorems about it |
| `PodTemplate` | what is rendered from a spec, as operators without state |
| `EnvironmentObjects` | extends it: the objects of one environment, the cache, the pass that writes them, the people who edit |
| `EnvironmentObjectsProofs` | theorems about both |
| `ReleaseVersions` | tags and images, the runs of CI and of the release workflow, and the script that numbers them |
| `ReleaseVersionsProofs` | theorems about it |
| `MC...` | small instances for TLC |

### NamespaceLifecycle

`envLog[e]` and `nsLog[n]` are the sequences of versions the API server has held;
the index of a version is its resourceVersion. `envSeen` and `nsSeen` are the
positions of the manager's cache in them. `worker` is the running pass with the
record version (`rv`) and the namespace version (`nsrv`) it has read, `queue` the
work queue, `events` pending Deployment events. `contents[n]` names the
environments that have written objects into `n`: `WriteObjects` stands for
everything `reconcileEnvironment` does after the namespace.

| Action | Code |
| --- | --- |
| `Reconcile`, `AddFinalizer` | `Reconcile` up to `reconcileEnvironment` |
| `GetNamespace` with `NamespaceStep` | `reconcileNamespace`: `Get`, `owns` |
| `CreateNamespace`, `PatchNamespace` with `MergePatch` | the two writes of `reconcileNamespace` |
| `WriteObjects`, `RefuseObjects`, `FinishProvisioning` | the rest of `reconcileEnvironment`, end of `Reconcile` |
| `GetNamespace` with `TeardownStep`, `DeleteNamespace`, `RemoveFinalizer` | `reconcileDelete` |
| `DeliverRecord`, `DeliverNamespace`, `DeliverDeployment` | the watches of `SetupWithManager`, `mapToEnvironment` |
| `ApiError`, the second disjunct of each write | a call fails before or after its effect |
| `Restart` | the manager restarts with fresh caches and an empty queue |
| `CreateEnv` ... `FinishTermination` | users, other tooling, the namespace controller |

Modelled from how the code relies on them: `Update` is refused when the
resourceVersion is old; a patch carries the difference between two versions and
applies to whatever is there; `Delete` by name marks a namespace and the namespace
controller removes it later; a deleted record disappears with its last finalizer;
a validation rule with `oldSelf` on an optional field is evaluated only when the
field is set before and after. The labels managed-by, environment and
owner-namespace are one field, `environment`: together they name one record.

Records and namespaces are read through the cache (`CachedRecord`,
`CachedNamespace`), as by the manager's client in the code; there is no other mode.
Two constants say how hostile the instance is. `Retarget`: users add or remove
`spec.namespaceName`. `Tamper`: people delete or relabel the operator's namespaces.
The theorems assume nothing of either.

With cached reads an environment can lose sight of a namespace that carries its labels,
and `stray` is an auxiliary variable that remembers how: its record is pointed elsewhere
(`PointedAway`), the namespace is created for an old version of the record that pointed
elsewhere (`MadeForOldTarget`), or a pass of the deletion reads a cached namespace that
is not the environment's although the real one is (`Overlooked`). It guards nothing, and
no action reads it except to update it. The safety properties say that these three are
the only ways, and the runs `released_early` and `orphaned` that they exist.

### EnvironmentLease

A namespace with labels is on lease to an environment. A lease starts under a record that
has the finalizer (`Acquire`), never passes from one environment to another, and ends
with its namespace or its labels (`End`). It may go astray (`GoStray`,
`AcquireForOldTarget`). A record is forgotten only when it is marked for deletion and all
its leases are stray (`Forget`), and no second lease starts while a first is not. The
lease's `record` and `holder` are `recordBar` and `holderBar` of `NamespaceLifecycle`,
and `stray` is the auxiliary variable.

### EnvironmentStatus

The record already has finalizer and namespace. `obstacle` says that
`reconcileEnvironment` cannot get past namespace, ConfigMap, Secrets and claim.
`deploys` and `listed` are the Deployments and the cache of them, `unlisted` the
services whose Deployment has changed since the cache saw it (a Deployment may be
deleted and created again and look as before), `failing` the services with a pod that `podProblem` would report, `timer` a running
`RequeueAfter`. `behind` and `worker.overtaken` say that the cache, or the pass,
does not hold the last version of the record: a status write is then refused and
`patchStatus` says nothing. `Prepare`, `ReconcileService`, `PruneServices`,
`ListPods`, `SetProvisioned` and `SetFailed` are a pass in order. A Deployment's
template is left out: the update of one that exists changes no field the status
depends on. The update is sent all the same (the API server fills in defaults, so
what is read never equals what is wanted), and one made from a cache that is behind
is refused: the pass then ends in `setFailed`. Ready is a service with all the replicas
it asks for, as in `reconcileService` and its test (see below for the documents).

### WorkloadDiagnosis

The functions are translated as operators; the kubelet, the scheduler and the
Deployment controller are external and modelled as far as the functions read
them. Wait reasons stand for classes: one that is a normal start, one that blocks,
and CrashLoopBackOff. `ended[c]` remembers how a container has exited since it was
last ready, and `fresh` that the Deployment was edited and no pod has the new
template: both exist for the properties only.

### SecretCopy

One step per call of `reconcileSecrets` and `replaceOnTypeChange`. The first read
of the copy is current, the read inside `CreateOrUpdate` is cached. An object's
UID is the flag `worker.same`: the Secret that was read is still the one there.
`worker.untouched` says that people have left alone what the pass has found; it is
there for `ForeignUntouched` only, which allows a write over a foreign Secret that
came after the check and nothing else.
Others may delete the copy, put a Secret of their own or an older copy there, or
edit it in place.

### PodTemplate

`imageRef`, `hasRegistry`, `pullSecrets`, `referencedSecrets`, `applyFSGroup`, `Mounts`
(`volumes`, `volumeMounts`) and `readinessProbe` are the functions of the code, on specs
whose names are kept apart only as far as the functions tell them apart: of the first
segment of an image it counts whether it is `localhost` and which of dot, colon and
uppercase letter occur in it. A template is a record of what they return. `hasRegistry`
has the three clauses of the code. `NamesHost` is Docker's grammar, said another way: a
first segment is a host if it cannot be a component of a path, which is lowercase and has
no colon, or if it is dotted or `localhost`. `Resolves` is what a reference has to be: the
image of the spec, behind the registry in force unless the image names its host.

### EnvironmentObjects

`objects` are the objects on the API server and `seen` the same in the cache, each a
body and whether the environment's labels are on it; `behind` names those that have
changed since the cache saw them, which is not the same as those that differ. `spec`
and `specSeen` are the record. `sources` are the Secrets that can be copied as the caches
show them (there, of a type that fits, and no foreign Secret in the way), `copies` those
that have been; a pass may stop after some of them because one cannot be copied or
because a call fails. What is in a Secret is `SecretCopy`'s. `worker`
holds the spec the pass works from, the services it has still to do and the one
between its Deployment and its Service.

| Action | Code |
| --- | --- |
| `Reconcile` | start of a pass from the cached record |
| `reconcileConfigMap`, `reconcileSecrets`, `reconcilePVC` | the functions of these names, in the order of `reconcileEnvironment` |
| `reconcileDeployment(s)`, `reconcileService` | the two writes of `reconcileService`, services in any order |
| `pruneDeployments`, `pruneServices` | the two halves of `pruneServices` |
| `CreateOrUpdate`, `Delete` | the calls: nothing to do, done, done without an answer, refused (`AlreadyExists`, conflict, immutable selector), done in part |
| `ApiError`, `Restart` | a call without effect; a manager with fresh caches |
| `DeliverSpec`, `Deliver(o)` | the watches; only labelled Deployments wake the controller |
| `Wake` | `RequeueAfter` of an environment that is not ready, resync of one that is |
| `Edit`, `Put`, `Remove`, `EditContext`, `TurnSource` | people: the spec, objects, a pod's security context, source Secrets |

The mutation inside `CreateOrUpdate` starts from the cached object, which matters for
one field, the security context: the rest of a template is a function of the spec.
Services are taken in any order, where the code sorts their names.

### ReleaseVersions

A tag is a version, how many places it is written with, whether with leading zeros,
who made it and of which commit. `Latest` and `Next_version` are the script. `runs[r]` is
the CI run of the r-th merge: `waiting` and `Active` for the group of its branch, `pending`
and `holder` for the group `version-assign`; `resume` is the job from which "re-run failed
jobs" goes on. The release workflow belongs to neither group and does its two steps in
the other order, image first and tag last.

## Runs

| Run | Instance | Shows |
| --- | --- | --- |
| `lifecycle_shared` | 2 environments, 2 namespaces, one default for both, retargeting | `TypeOK`, `HeldIsRecorded`, and that the controller implements `EnvironmentLease` (`LeaseSpec`) |
| `lifecycle_lag` | 1 environment, 2 namespaces, 2 owners, retargeting, tampering, 1 outside act, 1 restart | `RecordInv`, `NeverAdopts`, `CreatesUnderRecord`, `OwnerShown` |
| `lifecycle_liveness` | 1 environment through several lives, tampering, 1 outside act, 1 fault, 1 restart | `DeletesOnlyClosing`, `DeletionCompletes`, `Provisioned`, `ForeignLeftAlone` |
| `status` | a service of 2 replicas and one of 0, 2 generations, a change of the world, a fault, a restart | `TypeOK`, `NewerKept`, `StatusConverges`, `EditObserved`, `WritesSettle` |
| `objects` | 2 services, 2 Secrets, 2 specs, an edit, and one act of people, failed call or restart | `TypeOK`, `TemplatesBacked`, `ImagesResolved`, `ContextKept`, `ObjectsConverge`, `WritesSettle` |
| `versions` | 4 histories of tags, 2 merges, a release, a failing step, 2 re-runs | `TypeOK`, `AboveHistory`, `ImagesFaithful`, `VersionsIncrease`, `RunsEnd` |
| `diagnosis` | init and app container, exits 0 and 1, 3 restarts | `CrashLoopSeen`, `NormalStartIgnored`, `FreshNotStalled`, `DenialExplained` |
| `secret_copy` | 3 types of which 2 are accepted, 2 contents, 3 edits, a fault, a restart | `TypeOK`, `CopyConverges`, `DeletesOnlyMismatch`, `ForeignUntouched` |

Bounds. `MaxVersions` limits what users do to a record, not what the controller
does: four allow create, finalizer, delete and release, or two lives of a record
that is deleted before its finalizer; six a full life and a second one. One
outside act is enough for each race (somebody is faster than the pass); two
namespaces for a record that points elsewhere than its earlier life; two
environments for a contest over one name. `lifecycle_shared` has no outside act and no
fault: foreign namespaces are there from the start, outside acts, faults and restarts
are in the other two runs, and the theorems have all of them together. Caches may lag by
any number of versions in every run. Symmetry is used only without liveness properties.
In `EnvironmentStatus` two generations tell an old spec from a new one, and two
services a sum from a count; workloads come up by themselves, so that the one change
of the world is a service that breaks or a Deployment that goes.
In `EnvironmentObjects` one edit moves from either of the two specs to the other while
a pass works from the first. One spec has service `b`, the storage with its group, the
config, a registry and no pull secrets of its own; the other has none of these and a pull
secret; service `a` is in both, with another image, registry, port, Secret and probe. That
it mounts the volume does not change, nor does the size of the claim. `MaxTroubles` bounds acts, failures and restarts together; one of them at any
point of a pass, with a cache that may lag by any number of writes, is every single
hazard of the list, and each of the safety properties is proved for any number of
them. In `ReleaseVersions` two merges are enough for two branches, a cancelled run and
a race; that more of them change nothing for the numbers is proved.
Deadlock is checked, except in `versions`, where the system really stops when nobody
merges; the lifecycle and the status module have an explicit step `Rest` for the state
in which there is nothing left to do.

### Where comments and documents disagree with the code

| Run | The code |
| --- | --- |
| `released_early` | `reconcileDelete` takes a cache that has not heard of the namespace for a namespace that is gone |
| `provisions_foreign` | `AlreadyExists` from `Create` is ignored and the pass fills somebody else's namespace |
| `orphaned` | `namespaceName` can be added and removed, and the first namespace is left behind |
| `terminates_foreign` | between the cached `Get` and the `Delete` by name of `reconcileDelete` somebody else's namespace may have taken the place of the environment's, and is terminated |

Each of these is a counterexample to a property that states the document's claim. Others are
shown by a property that holds, because it states what the code does:

| Run, property | The code |
| --- | --- |
| `objects`, `ObjectsConverge` | with `spec.config` empty the ConfigMap `<environment>-config` is deleted by name, whosever it is; `docs/devenvironment.md:71-74` says the labels decide what may be deleted |
| `status`, `StatusConverges` | a service is ready with all its replicas (`reconcileService`, and the test `TestReconcileRequiresEveryRequestedReplicaToBeReady`); `api/v1alpha1/devenvironment_types.go:322`, `docs/devenvironment.md:130` and the comment of `reconcileEnvironment` are content with one |
| `status`, `StatusConverges` | a service past its progress deadline makes the environment degraded; `docs/devenvironment.md:373-374` says a probe that never passes leaves `Degraded=False` indefinitely |
| `versions`, `VersionsIncrease` | a release that overtakes a merge leaves that merge with a lower version (the exception in the property); `docs/development.md:489-491` lets `latest` follow versions that only ever increase |

Seen while modelling and kept without a run of their own:
the owner label stays when `spec.owner` is removed; `setFailed` moves
`observedGeneration` and keeps the counts of an earlier pass;
the comment of `reconcilePVC` leaves an existing claim alone "apart from its labels"
(lines 403-404), and the labels are left alone too;
a ConfigMap or Service that `CreateOrUpdate` finds unchanged in a cache that lags is put
right only by the next pass, and with everything ready nothing but the resync of
the caches brings that;
a Secret put at the name of a copy between
`replaceOnTypeChange` and `CreateOrUpdate` is overwritten; a container that fails
and exits with 0 in turn is not reported while it runs;
one that failed before it was ready is reported as restarting when it later loses
its probe, which `docs/devenvironment.md:400` calls silent. The ConfigMap goes before the
Deployments drop their reference to it, so a pod that starts in between waits for a
ConfigMap that is gone (`TemplatesBacked` is about Secrets and the claim). In the workflows: `version-assign` is said to
cancel pending runs, and as runs of one branch wait for each other no two are ever
pending there (`ReleaseVersionsProofs!TypeCorrect`); a full re-run is said to abort on
"tag already exists" (`ci.yml:403-404`), and it computes the next version and tags the
same commit again.

## Fairness

* A running pass goes on: one goroutine, and calls to the API server return.
* A watch delivers what it has: informers retry for ever.
* `SF` on `Reconcile(e)` in `NamespaceLifecycle`: one worker serves a FIFO queue,
  so an environment in it has its turn, although another may be taken first again
  and again. With a single environment in `EnvironmentStatus` and `SecretCopy`
  weak fairness says the same.
* The namespace controller finishes a termination it has started.
* A timer fires. In `SecretCopy` and `EnvironmentObjects`, `Wake` stands for the
  requeue of an environment that is not ready and the periodic resync of the caches,
  which is what brings a controller back that watches no Secret, ConfigMap or Service.
* In `EnvironmentObjects` a pass goes on, whichever of its calls is next, and each
  object is delivered by a watch of its kind.
* In `ReleaseVersions` a job that may run gets a runner; merging, dispatching and
  re-running are nobody's duty, and failures are bounded.
* Users, outsiders, faults, workloads and restarts owe nothing.

A failed pass goes back to the queue at once; the back-off of the queue is left
out, since it delays and never drops.

## Proofs

| Theorem | States |
| --- | --- |
| `EnvironmentLease!LeaseSafe` | leases that are not stray are recorded and single, if `Nobody` and `Outsider` are no environments |
| `NamespaceLifecycleProofs!TypeCorrect` | `TypeOK` |
| `NamespaceLifecycleProofs!RecordCorrect` | `RecordInv` |
| `NamespaceHoldingProofs!ObjectsCorrect` | `AbsentOK` and `PatchInv` |
| `NamespaceHoldingProofs!AdoptionNever` | `NeverAdopts` |
| `NamespaceHoldingProofs!CreationRecorded` | `CreatesUnderRecord` |
| `NamespaceHoldingProofs!OwnerCorrect`, `!OwnersShown` | `OwnerInv`, `OwnerShown` |
| `NamespaceHoldingProofs!LifeCorrect`, `!MarkCorrect` | `LifeInv`, `MarkInv` |
| `NamespaceHoldingProofs!DeletionsClosing` | `DeletesOnlyClosing` |
| `NamespaceHoldingProofs!HeldCorrect`, `!HeldRecorded` | `HeldInv`, `HeldIsRecorded` |
| `NamespaceHoldingProofs!LeaseImplemented`, `!LeasesSafe` | `LeaseSpec`, and what it promises |
| `DiagnosisProofs!FreshNeverStalled` | `FreshNotStalled` |
| `DiagnosisProofs!ToldCorrect`, `!CrashLoopsSeen`, `!NormalStartsIgnored` | `ToldInv`, `CrashLoopSeen`, `NormalStartIgnored` |
| `DiagnosisProofs!DenialCorrect` | `DenialExplained` |
| `DiagnosisProofs!TypeCorrect` | `TypeOK` of `WorkloadDiagnosis` |
| `EnvironmentStatusProofs!TypeCorrect`, `!NewerCorrect` | `TypeOK`, `NewerKept` |
| `SecretCopyProofs!TypeCorrect`, `!MismatchCorrect`, `!ForeignCorrect` | `TypeOK`, `DeletesOnlyMismatch`, `ForeignUntouched` |
| `EnvironmentObjectsProofs!TypeCorrect`, `!BackedCorrect`, `!ImagesCorrect` | `TypeOK`, `TemplatesBacked`, `ImagesResolved` |
| `EnvironmentObjectsProofs!ContextCorrect` | `ContextKept` |
| `ReleaseVersionsProofs!TypeCorrect` | `TypeOK`, with the two groups |
| `ReleaseVersionsProofs!HistoryCorrect`, `!IncreaseCorrect` | `AboveHistory`, `VersionsIncrease`, if in each history tags of three places are at the top |
| `ReleaseVersionsProofs!ImagesAsTagged` | `ImagesFaithful` |

Those of `NamespaceLifecycle` hold for every set of environments and namespaces and every
bound, with cached reads and with or without retargeting and tampering, from the
assumptions the module names: default targets and names are namespaces, `Nobody` is no
environment, `Unset` is no value, bounds are natural.

The argument. That a namespace is created only under a record with a finalizer is
not inductive: the pass works on an old version of the record. `RecordInv` adds
what makes it so. `WellFormed`: only a record with the finalizer is marked for
deletion and stays. `CacheBacked`: for every version the cache still has to read,
if the controller would provision on it, the record of now has the finalizer, for
only a pass that has read a deletion mark removes it, and `Conflict` makes that
pass read the last version. `PassBacked`: the same for the version the running
pass holds. Each action of `Next` is a step of the proof; the record logs only grow,
so facts about old versions are carried over by lemmas on `Append`.

A pass may work on a version that belongs to an earlier life of the record. `LifeInv` says
that from the version the cache, or the pass, is at, to the last one, a deletion mark is
not lost within one life; it is inductive because a record appears without a finalizer,
and the pass that adds it must have read the last version. `MarkInv` follows: as long as
a version marked for deletion can still be acted upon, the record has not come back to
life with a finalizer. That is `DeletesOnlyClosing`, whatever the cache of namespaces
shows.

`HeldInv` adds two facts to `HeldIsRecorded`: that only a namespace with labels is stray,
and that a pass about to release the finalizer, if it has read the last version, leaves
only stray namespaces behind. The second is what the cached read of `reconcileDelete` does
or does not establish: if it sees the namespace the pass does not get there, and if it
overlooks it `stray` says so. After that read nothing new can be held: a creation needs a
pass, and there is one worker. A namespace is created under a record with the finalizer
(`CreationRecorded`) and for the version the pass has read; if that is not where the
record points by now, it is stray from the start.

The refinement of `EnvironmentLease` is then a lemma per variable: what a step writes to a
record (`RecordBecomes`, `RecordStep`) and to a namespace (`NamespaceBecomes`,
`NamespaceStepMaps`), and that it writes one of them at most (`OneNamespace`). `LeasesSafe`
draws on `LeaseSafe` of the abstract module.

`OwnerShown` holds at rest; what is inductive is that as long as a namespace does not show
the owner its record names, its environment is queued, the cache is behind on it, or
the pass is about to look or to patch (`OwnerOK`). The delicate step is the merge patch
computed from an old version that already showed the owner: the newer version is then
still on its way to the cache and queues the environment again.

`AdoptionNever` needs that a patch is computed from a version that carried the
environment's labels (`PatchInv`): the difference then never contains them.
`FreshNotStalled` needs `FreshUnobserved`: until the first pod of a template, the
status of the Deployment is either of an older generation or says that the template
has not progressed to a pod. `CrashLoopSeen` and `NormalStartIgnored` rest on `ToldInv`: a container
that has exited since it was ready shows one of these exits, as its last one or
as the present one, and one that is backing off has exited. `DenialExplained` follows from the
types alone. All of it holds for every set of exit codes and every bound on restarts.

In `EnvironmentStatus` the count of ready services stays below the count of services
because a pass takes each of its list once (`CountRemoved`). `NewerKept` follows from
`Current`: a cache that is not behind, and a pass that is not overtaken, hold the spec
that is there, and a write of a pass that is overtaken is refused (`UpdateOK`).

In `SecretCopy` both safety properties follow from `Found`: what the pass holds for its
own, and of the wrong type, it still is unless people have touched it. The create that
follows a delete writes over nothing, and an update over a version the cache has
missed is refused.

In `EnvironmentObjects` every step of a pass is first reduced to what it writes and
where it leads (`Operates`: a set of objects, a value, the next state of the pass), and
every act of people to one object and its value (`Acts`); the invariants are then
proved from these. `BackedInv` is what makes `TemplatesBacked` inductive: a pass past
the Secrets has copied all of its own spec, a pass past the claim has it, and the cache
shows no claim that is not there, which holds while nobody but the operator acts.
`SecretsCollected` is the lemma that `referencedSecrets` leaves out no name a template
may carry. `ContextCorrect` rests on `CacheFresh`: an object the cache is not behind on is
as the cache shows it, so a write that is not refused starts from what is there. The
theorems hold for every set of services, Secrets, values and specs and all bounds,
given that `Unset` is no value and no object. `ImagesCorrect` has two parts. `HostsRecognised`
goes through the clauses of `hasRegistry`: an uppercase letter or a colon keeps a segment
from being a component of a path, a dot or `localhost` makes it a host anyway, and nothing
else does either. And a Deployment holds what was rendered from one spec of `Specs`, the one
the pass that wrote it had read.

In `ReleaseVersions`, `VersionInv` says of a version that a job has computed that it is
above all tags but those of a release made since (`ComputedTop`), and of the release
number of one of them (`ComputedFrom`); and of a release under way that it is above all
of these (`ReleaseTop`). That only one job at a time holds a computed version is part of
the type invariant: `OnePerBranch`, the group of each branch, gives it together with
`holder`. The assumption `HistoriesOrdered` is needed because the script looks at tags
of three places first, whatever their values. `ImagesFaithful` needs no such assumption:
releases end in zeros and merges never do (`Round`), so neither ever pushes over an
image of the other (`ImagesBacked`); git refuses a second tag of one version; and what a
failed release has left is overwritten before its version is tagged (`ReleaseAlone`).

Only model-checked: the liveness properties (`DeletionCompletes`, `Provisioned`, `ForeignLeftAlone`,
`StatusConverges`, `EditObserved`, `ObjectsConverge`, `WritesSettle`, `CopyConverges`,
`RunsEnd`), which are outside the prover's reach and stay so. Every safety property of a
passing run is a theorem.

## Not modelled

* `cmd/main.go`: flags, TLS, health checks. Leader election appears as the
  assumption that one manager runs; `MaxConcurrentReconciles` is left at 1.
* `zz_generated.deepcopy.go`, the chart, the manifests, the Dockerfile, the
  Makefile and CI lint and test jobs: generated code or configuration.
* Plain values copied into the container (name, resources, environment, pull policy).
* In the workflows, what test, packaging and deployment jobs do, `verify-picard`, dry
  runs, and the moving tags `latest` and `develop`. In the script, the guards against a
  shallow clone, which end it before it reads a tag.
* In `EnvironmentObjects`, two environments in one namespace, which happens when an
  `AlreadyExists` is taken for success (`provisions_foreign`): the objects of the other are
  foreign ones there (`Put`) as long as they have other names. The type and the contents
  of a Secret (`SecretCopy` has them).
* The order of the variables of a container (`container` sorts them) and of the problems in
  a message (`workloadProblems` takes them in the order of the spec). An unstable order
  would cause writes without end, and is outside `WritesSettle`.
* Wording of messages and events, log lines, metrics.

## Plan

1. Done: `EnvironmentLease`, `NamespaceLifecycle`, `EnvironmentStatus`,
   `WorkloadDiagnosis`, `SecretCopy`, `PodTemplate`, `EnvironmentObjects`,
   `ReleaseVersions`, and the theorems above.
2. Done: `HeldInv`, `HeldIsRecorded`, `DeletesOnlyClosing`, `OwnerShown` and the refinement of
   `EnvironmentLease`, on cached reads; the other invariants of `WorkloadDiagnosis`;
   `ImagesFaithful`.
3. The loop over several Secrets with their types, as a refinement of the step
   `reconcileSecrets` of `EnvironmentObjects`.
