--------------------------- MODULE DiagnosisProofs ---------------------------
(***************************************************************************)
(* Theorems about WorkloadDiagnosis, for every set of exit codes and every *)
(* number of restarts.                                                     *)
(***************************************************************************)
EXTENDS WorkloadDiagnosis, TLAPS

(* A rollout of a template that has no pod yet says so, unless the Deployment *)
(* controller has not even looked at it.                                      *)
FreshUnobserved == fresh => ~rollout.observed \/ ~rollout.updated

RolloutInv == rollout \in Rollouts /\ fresh \in BOOLEAN /\ FreshUnobserved

(* Only the actions of the Deployment controller and of the user who edits the *)
(* template touch what the invariant speaks of.                                *)
LEMMA PodSteps ==
  ASSUME Next
  PROVE  \/ UNCHANGED <<rollout, fresh>>
         \/ EditTemplate \/ ObserveTemplate \/ CreatePods \/ DenyPods
         \/ DeadlinePasses \/ RolloutCompletes
<1>1. CASE Unschedule \/ Schedule
  BY <1>1 DEF Unschedule, Schedule
<1>2. CASE PassProbe \/ FailProbe \/ FailInit \/ FinishInit
  BY <1>2 DEF PassProbe, FailProbe, FailInit, FinishInit, Becomes
<1>3. CASE \E code \in Exits : ExitApp(code)
  BY <1>3 DEF ExitApp, Becomes
<1>4. CASE \E c \in Both : BlockImage(c) \/ Start(c) \/ BackOff(c) \/ Restart(c)
  BY <1>4 DEF BlockImage, Start, BackOff, Restart, Becomes
<1> QED
  BY <1>1, <1>2, <1>3, <1>4 DEF Next

(* A rollout starts observed, with the pods of its template. *)
LEMMA RolloutInit == Init => RolloutInv
<1> SUFFICES ASSUME Init PROVE RolloutInv
  OBVIOUS
<1>1. fresh = FALSE
  BY DEF Init
<1>2. rollout = [observed |-> TRUE, updated |-> TRUE,
                 deadline |-> FALSE, replicaFailure |-> FALSE]
  BY DEF Init
<1>3. rollout \in Rollouts
  BY <1>2 DEF Rollouts
<1> QED
  BY <1>1, <1>3 DEF RolloutInv, FreshUnobserved

(* An edit makes the template unobserved, observing it makes it not updated, and *)
(* a pod of it ends being fresh.                                                *)
LEMMA RolloutNext == RolloutInv /\ [Next]_vars => RolloutInv'
<1> SUFFICES ASSUME RolloutInv, [Next]_vars PROVE RolloutInv'
  OBVIOUS
<1> USE DEF RolloutInv, Rollouts, FreshUnobserved
<1>1. CASE UNCHANGED <<rollout, fresh>>
  BY <1>1
<1>2. CASE EditTemplate
  BY <1>2 DEF EditTemplate, Rolls
<1>3. CASE ObserveTemplate
  BY <1>3 DEF ObserveTemplate, Rolls
<1>4. CASE CreatePods
  BY <1>4 DEF CreatePods, Rolls
<1>5. CASE DenyPods
  BY <1>5 DEF DenyPods, Rolls
<1>6. CASE DeadlinePasses
  BY <1>6 DEF DeadlinePasses, Rolls
<1>7. CASE RolloutCompletes
  BY <1>7 DEF RolloutCompletes, Rolls
<1>8. UNCHANGED vars => UNCHANGED <<rollout, fresh>>
  BY DEF vars
<1> QED
  BY <1>1, <1>2, <1>3, <1>4, <1>5, <1>6, <1>7, <1>8, PodSteps

(* Hence it holds in every state of a rollout. *)
LEMMA RolloutCorrect == Spec => []RolloutInv
  BY RolloutInit, RolloutNext, PTL DEF Spec

(* A corrected service is not called stalled for its previous template, in any *)
(* order in which edits, syncs and deadlines may come (progressDeadlineExceeded). *)
THEOREM FreshNeverStalled == Spec => []FreshNotStalled
<1>1. RolloutInv => FreshNotStalled
  BY DEF RolloutInv, FreshUnobserved, FreshNotStalled, progressDeadlineExceeded, Rollouts
<1> QED
  BY <1>1, RolloutCorrect, PTL

-----------------------------------------------------------------------------
(* A pod has containers where the kubelet reports them. *)
LEMMA PodParts ==
  ASSUME NEW p \in Pods, NEW c \in Both
  PROVE  p[c] \in Containers
  BY DEF Pods, Both

(* Replacing one container of a pod by another leaves a pod. *)
LEMMA PodUpdate ==
  ASSUME NEW p \in Pods, NEW c \in Both, NEW cs \in Containers
  PROVE  [p EXCEPT ![c] = cs] \in Pods
  BY DEF Pods, Both

(* What a container, its history and the rollout may be, whatever happens to *)
(* them: the bound on restarts is the only one that an action has to respect. *)
THEOREM TypeCorrect == Spec => []TypeOK
<1>1. Init => TypeOK
  <2> SUFFICES ASSUME Init PROVE TypeOK
    OBVIOUS
  <2>1. Starting \in Containers /\ Done \in Containers
    <3>1. 0 \in 0 .. MaxRestarts
      BY RestartsAssumption
    <3>2. Starting \in Containers
      BY <3>1 DEF Starting, Containers, Never
    <3> QED
      BY <3>2 DEF Done, Containers
  <2>2. pod \in Pods
    BY <2>1, InitAssumption DEF Init, Pods
  <2>3. ended \in [Both -> SUBSET {0, 1}]
    BY DEF Init
  <2> QED
    BY <2>2, <2>3, RolloutInit DEF TypeOK, RolloutInv
<1>2. TypeOK /\ [Next]_vars => TypeOK'
  <2> SUFFICES ASSUME TypeOK, [Next]_vars PROVE TypeOK'
    OBVIOUS
  <2>1. CASE UNCHANGED vars
    BY <2>1 DEF vars, TypeOK
  <2>2. CASE Unschedule \/ Schedule
    BY <2>2 DEF Unschedule, Schedule, TypeOK, Pods
  <2>3. ASSUME NEW c \in Both, NEW cs \in Containers, Becomes(c, cs),
               ended' \in [Both -> SUBSET {0, 1}]
        PROVE  TypeOK'
    BY <2>3, PodUpdate DEF Becomes, TypeOK
  <2>4. ASSUME NEW c \in Both PROVE pod[c] \in Containers
    BY PodParts DEF TypeOK
  <2>5. pod.app \in Containers /\ pod.init \in Containers
    BY DEF TypeOK, Pods
  <2>6. ASSUME NEW c \in Both, NEW s \in SUBSET {0, 1}
        PROVE  [ended EXCEPT ![c] = s] \in [Both -> SUBSET {0, 1}]
    BY DEF TypeOK
  <2>7. ASSUME NEW c \in Both PROVE ended[c] \in SUBSET {0, 1}
    BY DEF TypeOK
  <2>8. "app" \in Both /\ "init" \in Both /\ ended \in [Both -> SUBSET {0, 1}]
    BY DEF Both, TypeOK
  <2>9. ASSUME NEW c \in Both, BlockImage(c) PROVE TypeOK'
    <3> DEFINE cs == [pod[c] EXCEPT !.reason = "ImagePullBackOff"]
    <3>1. cs \in Containers
      BY <2>4 DEF Containers
    <3> QED
      BY <2>3, <2>8, <2>9, <3>1 DEF BlockImage
  <2>10. ASSUME NEW c \in Both, Start(c) PROVE TypeOK'
    <3> DEFINE cs == [pod[c] EXCEPT !.state = "running", !.reason = ""]
    <3>1. cs \in Containers
      BY <2>4 DEF Containers
    <3> QED
      BY <2>3, <2>8, <2>10, <3>1 DEF Start
  <2>11. ASSUME NEW c \in Both, BackOff(c) PROVE TypeOK'
    <3> DEFINE cs == [pod[c] EXCEPT !.state = "waiting", !.reason = "CrashLoopBackOff",
                                    !.exit = Never, !.last = pod[c].exit]
    <3>1. cs \in Containers
      BY <2>4 DEF Containers, Never
    <3> QED
      BY <2>3, <2>8, <2>11, <3>1 DEF BackOff
  <2>12. ASSUME NEW c \in Both, Restart(c) PROVE TypeOK'
    <3> DEFINE last == IF pod[c].state = "terminated" THEN pod[c].exit ELSE pod[c].last
               cs == [pod[c] EXCEPT !.state = "running", !.reason = "", !.exit = Never,
                                    !.restarts = @ + 1, !.last = last]
    <3>1. last \in {0, 1, Never} /\ pod[c].restarts \in 0 .. MaxRestarts
      BY <2>4 DEF Containers
    <3>2. pod[c].restarts + 1 \in 0 .. MaxRestarts
      BY <2>12, <3>1, RestartsAssumption DEF Restart
    <3>3. cs \in Containers
      BY <2>4, <3>1, <3>2 DEF Containers, Never
    <3>4. Becomes(c, cs)
      BY <2>12 DEF Restart
    <3> HIDE DEF cs
    <3> QED
      BY <2>3, <2>8, <2>12, <3>3, <3>4 DEF Restart
  <2>13. CASE PassProbe \/ FailProbe
    <3>1. \A ready \in BOOLEAN : [pod.app EXCEPT !.ready = ready] \in Containers
      BY <2>5 DEF Containers
    <3>2. {} \in SUBSET {0, 1}
      OBVIOUS
    <3> QED
      BY <2>3, <2>6, <2>8, <2>13, <3>1, <3>2 DEF PassProbe, FailProbe
  <2>14. ASSUME NEW code \in Exits, ExitApp(code) PROVE TypeOK'
    <3> DEFINE cs == [pod.app EXCEPT !.state = "terminated", !.ready = FALSE, !.exit = code]
    <3>1. cs \in Containers
      BY <2>5, ExitsAssumption DEF Containers, Never
    <3>2. ended["app"] \cup {code} \in SUBSET {0, 1}
      BY <2>7, <2>8, ExitsAssumption
    <3> QED
      BY <2>3, <2>6, <2>8, <2>14, <3>1, <3>2 DEF ExitApp
  <2>15. CASE FailInit
    <3> DEFINE cs == [pod.init EXCEPT !.state = "terminated", !.exit = 1]
    <3>1. cs \in Containers
      BY <2>5 DEF Containers
    <3>2. ended["init"] \cup {1} \in SUBSET {0, 1}
      BY <2>7, <2>8
    <3> QED
      BY <2>3, <2>6, <2>8, <2>15, <3>1, <3>2 DEF FailInit
  <2>16. CASE FinishInit
    <3>1. \A ready \in BOOLEAN :
            [pod.init EXCEPT !.state = "terminated", !.exit = 0, !.ready = ready] \in Containers
      BY <2>5 DEF Containers
    <3>2. {} \in SUBSET {0, 1}
      OBVIOUS
    <3> QED
      BY <2>3, <2>6, <2>8, <2>16, <3>1, <3>2 DEF FinishInit
  <2>17. CASE \/ EditTemplate \/ ObserveTemplate \/ CreatePods
              \/ DenyPods \/ DeadlinePasses \/ RolloutCompletes
    <3>1. UNCHANGED <<pod, ended>>
      BY <2>17 DEF EditTemplate, ObserveTemplate, CreatePods, DenyPods,
                   DeadlinePasses, RolloutCompletes, Rolls
    <3>2. rollout' \in Rollouts /\ fresh' \in BOOLEAN
      BY <2>17 DEF EditTemplate, ObserveTemplate, CreatePods, DenyPods,
                   DeadlinePasses, RolloutCompletes, Rolls, TypeOK, Rollouts
    <3> QED
      BY <3>1, <3>2 DEF TypeOK
  <2> QED
    BY <2>1, <2>2, <2>9, <2>10, <2>11, <2>12, <2>13, <2>14, <2>15, <2>16, <2>17 DEF Next
<1> QED
  BY <1>1, <1>2, PTL DEF Spec

(* A Deployment whose pods are refused is reported with the refusal, or with   *)
(* what is wrong with a pod that is there after all (stalledDetail).           *)
THEOREM DenialCorrect == Spec => []DenialExplained
<1>1. TypeOK => DenialExplained
  <2> SUFFICES ASSUME TypeOK, rollout.observed, rollout.replicaFailure, rollout.deadline,
                      NEW podsKnown \in BOOLEAN
               PROVE  serviceProblem(pod, rollout, podsKnown)
                        \notin {"", "cause unknown", "probe not passing"}
    BY DEF DenialExplained
  <2>1. \A cs \in Containers :
          containerProblem(cs) \in {"", "restarting", "CrashLoopBackOff", "ImagePullBackOff"}
    BY DEF containerProblem, blockingWaitReasons, Containers
  <2>2. podProblem(pod) \in {"", "Unschedulable", "restarting",
                             "CrashLoopBackOff", "ImagePullBackOff"}
    <3>1. pod.init \in Containers /\ pod.app \in Containers /\ pod.unschedulable \in BOOLEAN
      BY DEF TypeOK, Pods
    <3> QED
      BY <2>1, <3>1 DEF podProblem
  <2>3. progressDeadlineExceeded(rollout)
    BY DEF progressDeadlineExceeded
  <2>4. stalledDetail(rollout, podsKnown) = "cannot create pods"
    BY DEF stalledDetail
  <2> QED
    BY <2>2, <2>3, <2>4 DEF serviceProblem
<1> QED
  BY <1>1, TypeCorrect, PTL

-----------------------------------------------------------------------------
(* What a container shows agrees with how it has exited since it was last ready: *)
(* a container that waits says why, one that is backing off has exited, the last *)
(* exit it shows is one of these, and one that is ready has none.                *)
Told(cs, exits) ==
  /\ cs.state = "waiting" <=> cs.reason # ""
  /\ cs.reason = "CrashLoopBackOff" => exits # {}
  /\ cs.state # "terminated" /\ exits # {} => cs.last \in exits
  /\ cs.ready => exits = {}

AppTold(cs, exits) ==
  /\ Told(cs, exits)
  /\ cs.state = "terminated" => cs.exit \in exits

(* An init container that has exited with 0 is done, and what went before is    *)
(* forgotten; until then it has been restarted only because it has failed.      *)
InitTold(cs, exits) ==
  /\ Told(cs, exits)
  /\ cs.ready => cs.state = "terminated"
  /\ cs.state = "terminated" /\ cs.exit = 0 => exits = {}
  /\ cs.state = "terminated" /\ cs.exit # 0 => cs.exit \in exits
  /\ cs.restarts > 0 => exits # {} \/ (cs.state = "terminated" /\ cs.exit = 0)

ToldInv == InitTold(pod.init, ended["init"]) /\ AppTold(pod.app, ended["app"])

(* A step that replaces the container c and its history is judged by these alone. *)
LEMMA ToldBecomes ==
  ASSUME TypeOK, ToldInv, NEW c \in Both, NEW cs \in Containers, NEW exits,
         Becomes(c, cs), ended' = [ended EXCEPT ![c] = exits],
         IF c = "init" THEN InitTold(cs, exits) ELSE AppTold(cs, exits)
  PROVE  ToldInv'
<1>1. pod' = [pod EXCEPT ![c] = cs]
  BY DEF Becomes
<1>2. CASE c = "init"
  <2>1. pod'.init = cs /\ pod'.app = pod.app
    BY <1>1, <1>2 DEF TypeOK, Pods
  <2>2. ended'["init"] = exits /\ ended'["app"] = ended["app"]
    BY <1>2 DEF TypeOK, Both
  <2> QED
    BY <1>2, <2>1, <2>2 DEF ToldInv
<1>3. CASE c = "app"
  <2>1. pod'.app = cs /\ pod'.init = pod.init
    BY <1>1, <1>3 DEF TypeOK, Pods
  <2>2. ended'["app"] = exits /\ ended'["init"] = ended["init"]
    BY <1>3 DEF TypeOK, Both
  <2> QED
    BY <1>3, <2>1, <2>2 DEF ToldInv
<1> QED
  BY <1>2, <1>3 DEF Both

(* The kubelet acts on the init container until it is done, on the other after. *)
LEMMA ActiveInit ==
  ASSUME NEW c \in Both, Active(c), c = "init"
  PROVE  ~(pod.init.state = "terminated" /\ pod.init.exit = 0)
  BY DEF Active, Initialised

(* Every step of the kubelet keeps what the containers show in agreement with *)
(* their exits.                                                               *)
LEMMA ToldNext == TypeOK /\ ToldInv /\ [Next]_vars => ToldInv'
<1> SUFFICES ASSUME TypeOK, ToldInv, [Next]_vars PROVE ToldInv'
  OBVIOUS
<1>1. ASSUME UNCHANGED ended, pod'.init = pod.init, pod'.app = pod.app PROVE ToldInv'
  BY <1>1 DEF ToldInv
<1>2. CASE UNCHANGED vars
  BY <1>1, <1>2 DEF vars
<1>3. CASE \/ EditTemplate \/ ObserveTemplate \/ CreatePods
           \/ DenyPods \/ DeadlinePasses \/ RolloutCompletes
  BY <1>1, <1>3 DEF EditTemplate, ObserveTemplate, CreatePods, DenyPods,
                    DeadlinePasses, RolloutCompletes, Rolls
<1>4. CASE Unschedule \/ Schedule
  BY <1>1, <1>4 DEF Unschedule, Schedule, TypeOK, Pods
<1>5. \A c \in Both : pod[c] \in Containers
  BY PodParts DEF TypeOK
<1>6. \A c \in Both : ended = [ended EXCEPT ![c] = ended[c]]
  BY DEF TypeOK
<1>7. \A c \in Both : IF c = "init" THEN InitTold(pod[c], ended[c]) ELSE AppTold(pod[c], ended[c])
  BY DEF ToldInv, Both
<1>8. "init" \in Both /\ "app" \in Both
  BY DEF Both
<1>9. ASSUME NEW c \in Both, BlockImage(c) PROVE ToldInv'
  <2> DEFINE cs == [pod[c] EXCEPT !.reason = "ImagePullBackOff"]
  <2>1. cs \in Containers /\ pod[c].reason = "ContainerCreating"
    BY <1>5, <1>9 DEF Containers, BlockImage
  <2>2. IF c = "init" THEN InitTold(cs, ended[c]) ELSE AppTold(cs, ended[c])
    BY <1>5, <1>7, <2>1 DEF InitTold, AppTold, Told, Containers
  <2>3. Becomes(c, cs) /\ UNCHANGED ended
    BY <1>9 DEF BlockImage
  <2> QED
    BY <1>6, <2>1, <2>2, <2>3, ToldBecomes
<1>10. ASSUME NEW c \in Both, Start(c) PROVE ToldInv'
  <2> DEFINE cs == [pod[c] EXCEPT !.state = "running", !.reason = ""]
  <2>1. cs \in Containers /\ pod[c].reason \in {"ContainerCreating", "ImagePullBackOff"}
    BY <1>5, <1>10 DEF Containers, Start
  <2>2. IF c = "init" THEN InitTold(cs, ended[c]) ELSE AppTold(cs, ended[c])
    BY <1>5, <1>7, <2>1 DEF InitTold, AppTold, Told, Containers
  <2>3. Becomes(c, cs) /\ UNCHANGED ended
    BY <1>10 DEF Start
  <2> QED
    BY <1>6, <2>1, <2>2, <2>3, ToldBecomes
<1>11. ASSUME NEW c \in Both, BackOff(c) PROVE ToldInv'
  <2> DEFINE cs == [pod[c] EXCEPT !.state = "waiting", !.reason = "CrashLoopBackOff",
                                  !.exit = Never, !.last = pod[c].exit]
  <2>1. cs \in Containers /\ pod[c].state = "terminated"
    BY <1>5, <1>11 DEF Containers, Never, BackOff
  <2>2. c = "init" => pod[c].exit # 0
    BY <1>11, <2>1, ActiveInit DEF BackOff
  <2>3. IF c = "init" THEN InitTold(cs, ended[c]) ELSE AppTold(cs, ended[c])
    BY <1>5, <1>7, <2>1, <2>2 DEF InitTold, AppTold, Told, Containers
  <2>4. Becomes(c, cs) /\ UNCHANGED ended
    BY <1>11 DEF BackOff
  <2> QED
    BY <1>6, <2>1, <2>3, <2>4, ToldBecomes
<1>12. ASSUME NEW c \in Both, Restart(c) PROVE ToldInv'
  <2> DEFINE last == IF pod[c].state = "terminated" THEN pod[c].exit ELSE pod[c].last
             cs == [pod[c] EXCEPT !.state = "running", !.reason = "", !.exit = Never,
                                  !.restarts = @ + 1, !.last = last]
  <2>1. last \in {0, 1, Never} /\ pod[c].restarts \in 0 .. MaxRestarts
    BY <1>5 DEF Containers
  <2>2. pod[c].restarts + 1 \in 0 .. MaxRestarts
    BY <1>12, <2>1, RestartsAssumption DEF Restart
  <2>3. cs \in Containers
    BY <1>5, <2>1, <2>2 DEF Containers, Never
  <2>4. pod[c].state = "terminated" \/ pod[c].reason = "CrashLoopBackOff"
    BY <1>12 DEF Restart
  <2>5. c = "init" => ~(pod[c].state = "terminated" /\ pod[c].exit = 0)
    BY <1>12, ActiveInit DEF Restart
  <2>6. last \in ended[c]
    BY <1>7, <2>4, <2>5 DEF InitTold, AppTold, Told
  <2>7. cs.state = "running" /\ cs.reason = "" /\ cs.last = last /\ cs.ready = pod[c].ready
    BY <1>5 DEF Containers
  <2>8. pod[c].ready => ended[c] = {}
    BY <1>7 DEF InitTold, AppTold, Told
  <2> HIDE DEF cs, last
  <2>9. IF c = "init" THEN InitTold(cs, ended[c]) ELSE AppTold(cs, ended[c])
    BY <2>6, <2>7, <2>8 DEF InitTold, AppTold, Told
  <2>10. Becomes(c, cs) /\ UNCHANGED ended
    BY <1>12 DEF Restart, cs, last
  <2> QED
    BY <1>6, <2>3, <2>9, <2>10, ToldBecomes
<1>13. CASE PassProbe
  <2> DEFINE cs == [pod.app EXCEPT !.ready = TRUE]
  <2>1. cs \in Containers /\ pod.app.state = "running"
    BY <1>5, <1>8, <1>13 DEF Containers, PassProbe
  <2>2. AppTold(cs, {})
    BY <1>5, <1>7, <1>8, <2>1 DEF AppTold, Told, Containers
  <2>3. Becomes("app", cs) /\ ended' = [ended EXCEPT !["app"] = {}]
    BY <1>13 DEF PassProbe
  <2> QED
    BY <1>8, <2>1, <2>2, <2>3, ToldBecomes
<1>14. CASE FailProbe
  <2> DEFINE cs == [pod.app EXCEPT !.ready = FALSE]
  <2>1. cs \in Containers
    BY <1>5, <1>8 DEF Containers
  <2>2. AppTold(cs, ended["app"])
    <3>1. /\ cs.state = pod.app.state /\ cs.reason = pod.app.reason /\ cs.last = pod.app.last
          /\ cs.exit = pod.app.exit /\ cs.ready = FALSE
      BY <1>5, <1>8 DEF Containers
    <3> HIDE DEF cs
    <3> QED
      BY <3>1 DEF ToldInv, AppTold, Told
  <2>3. Becomes("app", cs) /\ UNCHANGED ended
    BY <1>14 DEF FailProbe
  <2> QED
    BY <1>6, <1>8, <2>1, <2>2, <2>3, ToldBecomes
<1>15. ASSUME NEW code \in Exits, ExitApp(code) PROVE ToldInv'
  <2> DEFINE cs == [pod.app EXCEPT !.state = "terminated", !.ready = FALSE, !.exit = code]
             exits == ended["app"] \cup {code}
  <2>1. cs \in Containers /\ pod.app.state = "running"
    BY <1>5, <1>8, <1>15, ExitsAssumption DEF Containers, Never, ExitApp
  <2>2. AppTold(cs, exits)
    BY <1>5, <1>7, <1>8, <2>1 DEF AppTold, Told, Containers
  <2>3. Becomes("app", cs) /\ ended' = [ended EXCEPT !["app"] = exits]
    BY <1>15 DEF ExitApp
  <2> QED
    BY <1>8, <2>1, <2>2, <2>3, ToldBecomes
<1>16. CASE FailInit
  <2> DEFINE cs == [pod.init EXCEPT !.state = "terminated", !.exit = 1]
             exits == ended["init"] \cup {1}
  <2>1. cs \in Containers /\ pod.init.state = "running"
    BY <1>5, <1>8, <1>16 DEF Containers, FailInit
  <2>2. InitTold(cs, exits)
    <3>1. pod.init.reason = "" /\ ~pod.init.ready
      BY <2>1 DEF ToldInv, InitTold, Told, Containers
    <3>2. cs.state = "terminated" /\ cs.reason = "" /\ cs.exit = 1 /\ ~cs.ready
      BY <1>5, <1>8, <3>1 DEF Containers
    <3>3. cs.exit \in exits /\ exits # {}
      BY <3>2
    <3> HIDE DEF cs, exits
    <3>4. Told(cs, exits)
      BY <3>2, <3>3 DEF Told
    <3>5. 1 # 0
      OBVIOUS
    <3> QED
      BY <3>2, <3>3, <3>4, <3>5 DEF InitTold
  <2>3. Becomes("init", cs) /\ ended' = [ended EXCEPT !["init"] = exits]
    BY <1>16 DEF FailInit
  <2> QED
    BY <1>8, <2>1, <2>2, <2>3, ToldBecomes
<1>17. CASE FinishInit
  <2>1. PICK ready \in BOOLEAN :
          Becomes("init", [pod.init EXCEPT !.state = "terminated", !.exit = 0, !.ready = ready])
    BY <1>17 DEF FinishInit
  <2> DEFINE cs == [pod.init EXCEPT !.state = "terminated", !.exit = 0, !.ready = ready]
  <2>2. cs \in Containers /\ pod.init.state = "running"
    BY <1>5, <1>8, <1>17 DEF Containers, FinishInit
  <2>3. InitTold(cs, {})
    BY <1>5, <1>7, <1>8, <2>2 DEF InitTold, Told, Containers
  <2>4. ended' = [ended EXCEPT !["init"] = {}]
    BY <1>17 DEF FinishInit
  <2> QED
    BY <1>8, <2>1, <2>2, <2>3, <2>4, ToldBecomes
<1> QED
  BY <1>2, <1>3, <1>4, <1>9, <1>10, <1>11, <1>12, <1>13, <1>14, <1>15, <1>16, <1>17 DEF Next

(* Hence it holds in every state the poll may find the pod in. *)
THEOREM ToldCorrect == Spec => []ToldInv
<1>1. Init => ToldInv
  <2> SUFFICES ASSUME Init PROVE ToldInv
    OBVIOUS
  <2>1. ended["init"] = {} /\ ended["app"] = {}
    BY DEF Init, Both
  <2>2. pod.app = Starting /\ pod.init \in {Starting, Done}
    BY DEF Init
  <2>3. InitTold(Starting, {}) /\ AppTold(Starting, {})
    BY DEF Starting, InitTold, AppTold, Told
  <2>4. InitTold(Done, {})
    BY DEF Done, Starting, InitTold, Told
  <2> QED
    BY <2>1, <2>2, <2>3, <2>4 DEF ToldInv
<1> QED
  BY <1>1, ToldNext, TypeCorrect, PTL DEF Spec

(* A pod has a problem if it cannot be scheduled or one of its containers has. *)
LEMMA PodProblemSeen ==
  ASSUME NEW c \in Both, containerProblem(pod[c]) # ""
  PROVE  podProblem(pod) # ""
  BY DEF podProblem, Both

(* Whatever the kubelet is at, and however often the pod has been restarted, a  *)
(* container that keeps failing is reported until it is ready again             *)
(* (containerProblem: the restart history, which stays while the state changes). *)
THEOREM CrashLoopsSeen == Spec => []CrashLoopSeen
<1>1. TypeOK /\ ToldInv => CrashLoopSeen
  <2> SUFFICES ASSUME TypeOK, ToldInv, NEW c \in Both, Relapsed(c)
               PROVE  podProblem(pod) # ""
    BY DEF CrashLoopSeen
  <2>1. Told(pod[c], ended[c])
    BY DEF ToldInv, InitTold, AppTold, Both
  <2>2. pod[c] \in Containers
    BY PodParts DEF TypeOK
  <2>3. ended[c] = {1} /\ pod[c].restarts > 0 /\ pod[c].last = 1
    BY <2>1 DEF Relapsed, Told
  <2>4. pod[c].state = "terminated" => pod[c].exit = 1
    BY <2>3 DEF ToldInv, InitTold, AppTold, Both
  <2>5. ~pod[c].ready
    BY <2>1, <2>3 DEF Told
  <2>6. containerProblem(pod[c]) # ""
    <3>1. CASE pod[c].state = "waiting" /\ pod[c].reason \in blockingWaitReasons
      BY <2>5, <3>1 DEF containerProblem, blockingWaitReasons
    <3>2. CASE ~(pod[c].state = "waiting" /\ pod[c].reason \in blockingWaitReasons)
      <4>1. ~(pod[c].state = "terminated" /\ pod[c].exit = 0)
        BY <2>4
      <4>2. pod[c].last \notin {0, Never}
        BY <2>3 DEF Never
      <4> QED
        BY <2>3, <2>5, <3>2, <4>1, <4>2 DEF containerProblem
    <3> QED
      BY <3>1, <3>2
  <2> QED
    BY <2>6, PodProblemSeen
<1> QED
  BY <1>1, TypeCorrect, ToldCorrect, PTL

(* A pod that is only starting, or whose init container got there after a few   *)
(* failures, is never reported, whichever the kubelet leaves the finished one    *)
(* as (containerProblem: "done, not broken").                                    *)
THEOREM NormalStartsIgnored == Spec => []NormalStartIgnored
<1>1. TypeOK /\ ToldInv => NormalStartIgnored
  <2> SUFFICES ASSUME TypeOK, ToldInv, ~pod.unschedulable, pod.app.restarts = 0,
                      \A c \in Both : ended[c] = {} /\ pod[c].reason # "ImagePullBackOff"
               PROVE  podProblem(pod) = ""
    BY DEF NormalStartIgnored
  <2>1. pod.init \in Containers /\ pod.app \in Containers
    BY DEF TypeOK, Pods
  <2>2. ended["init"] = {} /\ pod.init.reason # "ImagePullBackOff"
    BY DEF Both
  <2>3. ended["app"] = {} /\ pod.app.reason # "ImagePullBackOff"
    BY DEF Both
  <2>4. containerProblem(pod.app) = ""
    <3>1. pod.app.reason \notin blockingWaitReasons
      BY <2>3 DEF ToldInv, AppTold, Told, blockingWaitReasons
    <3>2. ~(pod.app.restarts > 0)
      OBVIOUS
    <3>3. pod.app.ready \in BOOLEAN
      BY <2>1 DEF Containers
    <3> QED
      BY <3>1, <3>2, <3>3 DEF containerProblem
  <2>5. containerProblem(pod.init) = ""
    <3>1. pod.init.reason \notin blockingWaitReasons
      BY <2>2 DEF ToldInv, InitTold, Told, blockingWaitReasons
    <3>2. pod.init.restarts > 0 => pod.init.state = "terminated" /\ pod.init.exit = 0
      BY <2>2 DEF ToldInv, InitTold
    <3> QED
      BY <2>1, <3>1, <3>2 DEF containerProblem, Containers
  <2> QED
    BY <2>4, <2>5 DEF podProblem
<1> QED
  BY <1>1, TypeCorrect, ToldCorrect, PTL
==============================================================================
