--------------------------- MODULE WorkloadDiagnosis ---------------------------
(***************************************************************************)
(* How the controller explains a service that is not ready: from the pod,  *)
(* read in whatever state the kubelet has it at that moment, and from the  *)
(* Deployment's rollout when the pod has nothing to say.  The kubelet and  *)
(* the Deployment controller are outside of this repository; they are      *)
(* modelled as far as the diagnosis reads them.                            *)
(***************************************************************************)
EXTENDS Naturals

CONSTANTS
  Exits,         \* exit codes of the service's container
  WithInit,      \* TRUE: the pod has an init container, added by hand
  MaxRestarts    \* bound: restarts of a container

ASSUME ExitsAssumption == Exits \subseteq {0, 1}
ASSUME InitAssumption == WithInit \in BOOLEAN
ASSUME RestartsAssumption == MaxRestarts \in Nat

VARIABLES
  pod,        \* the status of the service's pod
  ended,      \* ended[c]: how container c has exited since it was last ready
  rollout,    \* the status of the service's Deployment
  fresh       \* the Deployment was edited and has no pod of the new template yet

vars == <<pod, ended, rollout, fresh>>

-----------------------------------------------------------------------------
(* What the controller reads *)

Never == 2   \* no termination recorded
Containers == [ready : BOOLEAN, state : {"waiting", "running", "terminated"},
               reason : {"", "ContainerCreating", "ImagePullBackOff", "CrashLoopBackOff"},
               exit : {0, 1, Never}, last : {0, 1, Never}, restarts : 0 .. MaxRestarts]
Starting == [ready |-> FALSE, state |-> "waiting", reason |-> "ContainerCreating",
             exit |-> Never, last |-> Never, restarts |-> 0]

(* What a container without anything to do looks like. *)
Done == [Starting EXCEPT !.ready = TRUE, !.state = "terminated", !.reason = "", !.exit = 0]

Pods == [unschedulable : BOOLEAN, init : Containers, app : Containers]

Rollouts == [observed : BOOLEAN, updated : BOOLEAN, deadline : BOOLEAN, replicaFailure : BOOLEAN]

(* Mutation: a container that is being created counts as blocked. *)
everyWaitReason == {"ContainerCreating", "CrashLoopBackOff", "ImagePullBackOff"}
blockingWaitReasons == {"CrashLoopBackOff", "ImagePullBackOff"}

(* Mutations: only waiting containers are looked at; a finished container is *)
(* judged by its history.                                                    *)
containerProblemWaiting(cs) ==
  IF ~cs.ready /\ cs.state = "waiting" /\ cs.reason \in blockingWaitReasons THEN cs.reason ELSE ""
containerProblemHistory(cs) ==
  CASE cs.ready -> ""
    [] ~cs.ready /\ cs.state = "waiting" /\ cs.reason \in blockingWaitReasons -> cs.reason
    [] ~cs.ready /\ ~(cs.state = "waiting" /\ cs.reason \in blockingWaitReasons) ->
         IF cs.restarts > 0 /\ cs.last \notin {0, Never} THEN "restarting" ELSE ""

containerProblem(cs) ==
  LET blocked == cs.state = "waiting" /\ cs.reason \in blockingWaitReasons
      completed == cs.state = "terminated" /\ cs.exit = 0
      relapsing == cs.restarts > 0 /\ cs.last \notin {0, Never}
  IN  CASE cs.ready -> ""
        [] ~cs.ready /\ blocked -> cs.reason
        [] ~cs.ready /\ ~blocked -> IF ~completed /\ relapsing THEN "restarting" ELSE ""

podProblem(p) ==
  CASE p.unschedulable -> "Unschedulable"
    [] ~p.unschedulable /\ containerProblem(p.init) # "" -> containerProblem(p.init)
    [] ~p.unschedulable /\ containerProblem(p.init) = "" -> containerProblem(p.app)

(* Mutations: whatever the condition says is believed; a rollout without pods *)
(* is never believed.                                                         *)
deadlineBelieved(d) == d.deadline
deadlineNeedsPods(d) == d.observed /\ d.updated /\ d.deadline

progressDeadlineExceeded(d) ==
  d.observed /\ (d.updated \/ d.replicaFailure) /\ d.deadline

stalledDetail(d, podsKnown) ==
  CASE d.replicaFailure -> "cannot create pods"
    [] ~d.replicaFailure /\ ~podsKnown -> "cause unknown"
    [] ~d.replicaFailure /\ podsKnown -> "probe not passing"

(* The problem of the service, given whether its pods could be listed. *)
serviceProblem(p, d, podsKnown) ==
  CASE podsKnown /\ podProblem(p) # "" -> podProblem(p)
    [] (~podsKnown \/ podProblem(p) = "") /\ progressDeadlineExceeded(d) -> stalledDetail(d, podsKnown)
    [] (~podsKnown \/ podProblem(p) = "") /\ ~progressDeadlineExceeded(d) -> ""

-----------------------------------------------------------------------------
(* The scheduler and the kubelet *)

Both == {"init", "app"}

TypeOK ==
  /\ pod \in Pods /\ rollout \in Rollouts
  /\ ended \in [Both -> SUBSET {0, 1}] /\ fresh \in BOOLEAN

Init ==
  /\ pod = [unschedulable |-> FALSE, app |-> Starting,
            init |-> IF WithInit THEN Starting ELSE Done]
  /\ ended = [c \in Both |-> {}]
  /\ rollout = [observed |-> TRUE, updated |-> TRUE, deadline |-> FALSE, replicaFailure |-> FALSE]
  /\ fresh = FALSE

Initialised == pod.init.state = "terminated" /\ pod.init.exit = 0
Active(c) == ~pod.unschedulable /\ (c = "app") = Initialised

Becomes(c, cs) ==
  /\ pod' = [pod EXCEPT ![c] = cs]
  /\ UNCHANGED <<rollout, fresh>>

Unschedule ==
  /\ pod.app = Starting /\ pod.init \in {Starting, Done}
  /\ pod' = [pod EXCEPT !.unschedulable = TRUE]
  /\ UNCHANGED <<ended, rollout, fresh>>

Schedule ==
  /\ pod.unschedulable
  /\ pod' = [pod EXCEPT !.unschedulable = FALSE]
  /\ UNCHANGED <<ended, rollout, fresh>>

BlockImage(c) ==
  /\ Active(c) /\ pod[c].reason = "ContainerCreating"
  /\ Becomes(c, [pod[c] EXCEPT !.reason = "ImagePullBackOff"])
  /\ UNCHANGED ended

Start(c) ==
  /\ Active(c) /\ pod[c].reason \in {"ContainerCreating", "ImagePullBackOff"}
  /\ Becomes(c, [pod[c] EXCEPT !.state = "running", !.reason = ""])
  /\ UNCHANGED ended

PassProbe ==
  /\ pod.app.state = "running" /\ ~pod.app.ready
  /\ Becomes("app", [pod.app EXCEPT !.ready = TRUE])
  /\ ended' = [ended EXCEPT !["app"] = {}]

FailProbe ==
  /\ pod.app.state = "running" /\ pod.app.ready
  /\ Becomes("app", [pod.app EXCEPT !.ready = FALSE])
  /\ UNCHANGED ended

ExitApp(code) ==
  /\ pod.app.state = "running"
  /\ Becomes("app", [pod.app EXCEPT !.state = "terminated", !.ready = FALSE, !.exit = code])
  /\ ended' = [ended EXCEPT !["app"] = @ \cup {code}]

FailInit ==
  /\ pod.init.state = "running"
  /\ Becomes("init", [pod.init EXCEPT !.state = "terminated", !.exit = 1])
  /\ ended' = [ended EXCEPT !["init"] = @ \cup {1}]

(* Whether a finished init container is ready depends on the kubelet. *)
FinishInit ==
  /\ pod.init.state = "running"
  /\ \E ready \in BOOLEAN :
       Becomes("init", [pod.init EXCEPT !.state = "terminated", !.exit = 0, !.ready = ready])
  /\ ended' = [ended EXCEPT !["init"] = {}]

(* The kubelet restarts what has ended, at once or after a while. *)
BackOff(c) ==
  /\ Active(c) /\ pod[c].state = "terminated"
  /\ Becomes(c, [pod[c] EXCEPT !.state = "waiting", !.reason = "CrashLoopBackOff",
                               !.exit = Never, !.last = pod[c].exit])
  /\ UNCHANGED ended

Restart(c) ==
  /\ Active(c) /\ pod[c].restarts < MaxRestarts
  /\ pod[c].state = "terminated" \/ pod[c].reason = "CrashLoopBackOff"
  /\ Becomes(c, [pod[c] EXCEPT !.state = "running", !.reason = "", !.exit = Never,
                               !.restarts = @ + 1,
                               !.last = IF pod[c].state = "terminated" THEN pod[c].exit ELSE @])
  /\ UNCHANGED ended

-----------------------------------------------------------------------------
(* The Deployment controller *)

Rolls(d) == rollout' = d /\ UNCHANGED <<pod, ended>>

EditTemplate == Rolls([rollout EXCEPT !.observed = FALSE]) /\ fresh' = TRUE

(* The failed condition of the previous rollout is carried forward. *)
ObserveTemplate ==
  /\ ~rollout.observed
  /\ Rolls([rollout EXCEPT !.observed = TRUE, !.updated = FALSE, !.replicaFailure = FALSE])
  /\ UNCHANGED fresh

CreatePods ==
  /\ rollout.observed
  /\ Rolls([rollout EXCEPT !.updated = TRUE, !.replicaFailure = FALSE])
  /\ fresh' = FALSE

DenyPods ==
  /\ rollout.observed /\ ~rollout.updated
  /\ Rolls([rollout EXCEPT !.replicaFailure = TRUE])
  /\ UNCHANGED fresh

DeadlinePasses ==
  /\ rollout.observed
  /\ Rolls([rollout EXCEPT !.deadline = TRUE])
  /\ UNCHANGED fresh

RolloutCompletes ==
  /\ rollout.observed /\ rollout.updated
  /\ Rolls([rollout EXCEPT !.deadline = FALSE])
  /\ UNCHANGED fresh

Next ==
  \/ Unschedule \/ Schedule \/ PassProbe \/ FailProbe \/ FailInit \/ FinishInit
  \/ \E code \in Exits : ExitApp(code)
  \/ \E c \in Both : BlockImage(c) \/ Start(c) \/ BackOff(c) \/ Restart(c)
  \/ EditTemplate \/ ObserveTemplate \/ CreatePods \/ DenyPods
  \/ DeadlinePasses \/ RolloutCompletes

Spec == Init /\ [][Next]_vars

-----------------------------------------------------------------------------
(* Properties *)

(* A container that has failed since it was ready and been restarted is        *)
(* reported in every state the poll may find it in, until it is ready again    *)
(* (containerProblem: "Restart history is the stable signal").  One that also  *)
(* exits with 0 now and then is not: only the last exit is looked at.          *)
Relapsed(c) ==
  /\ ended[c] = {1} /\ pod[c].restarts > 0
  /\ pod[c].state = "terminated" => pod[c].last = 1

CrashLoopSeen == \A c \in Both : Relapsed(c) => podProblem(pod) # ""

(* A pod that is starting, or whose init container got there in the end, is no *)
(* problem (podProblem, containerProblem: "done, not broken").                 *)
NormalStartIgnored ==
  /\ ~pod.unschedulable /\ pod.app.restarts = 0
  /\ \A c \in Both : ended[c] = {} /\ pod[c].reason # "ImagePullBackOff"
  => podProblem(pod) = ""

(* A corrected service is not called stalled for what its previous template    *)
(* did, before it has had a pod or has been denied one.                        *)
FreshNotStalled == fresh /\ ~rollout.replicaFailure => ~progressDeadlineExceeded(rollout)

(* A rollout whose pods are refused has no pod to look at, and is reported all *)
(* the same once its deadline has passed; nobody blames a probe for it.        *)
DenialExplained ==
  rollout.observed /\ rollout.replicaFailure /\ rollout.deadline
    => \A podsKnown \in BOOLEAN :
         serviceProblem(pod, rollout, podsKnown) \notin {"", "cause unknown", "probe not passing"}

===============================================================================
