------------------------ MODULE ReleaseVersionsProofs ------------------------
(***************************************************************************)
(* Theorems about ReleaseVersions, for any number of merges, releases,     *)
(* failures and re-runs.                                                   *)
(***************************************************************************)
EXTENDS ReleaseVersions, TLAPS

LEMMA LessOrder ==
  ASSUME NEW u \in Versions, NEW v \in Versions, NEW w \in Versions
  PROVE  /\ ~Less(v, u) /\ Less(v, w) => Less(u, w)
         /\ Less(u, v) => ~Less(v, u)
         /\ ~Less(v, u) => u.rel <= v.rel
         /\ u.rel < v.rel => Less(u, v)
BY DEF Less, Versions

LEMMA FollowingType ==
  ASSUME NEW v \in Versions, NEW kind \in {"minor", "major", "release"}
  PROVE  /\ Following(kind, v) \in Versions /\ Less(v, Following(kind, v))
         /\ kind # "release" => Following(kind, v).rel = v.rel
         /\ kind = "release" => Following(kind, v).rel = v.rel + 1
<1>1. CASE kind = "minor" BY <1>1 DEF Following, Versions, Less
<1>2. CASE kind = "major"
  <2>1. Following(kind, v) = [v EXCEPT !.maj = @ + 1, !.min = 0]
    BY <1>2 DEF Following
  <2>2. Following(kind, v) = [rel |-> v.rel, maj |-> v.maj + 1, min |-> 0]
    BY <2>1 DEF Versions
  <2> QED BY <1>2, <2>2 DEF Versions, Less
<1>3. CASE kind = "release" BY <1>3 DEF Following, Versions, Less
<1> QED BY <1>1, <1>2, <1>3

-----------------------------------------------------------------------------
(* Types and groups *)

RunsOK ==
  /\ runs \in [Merges -> Runs]
  /\ holder \in Merges \cup {0}
  /\ \A r \in Merges : runs[r].pc \in {"assigning", "computed"} <=> holder = r

DataOK ==
  /\ tags \subseteq Tags
  /\ images \subseteq [version : Versions, commit : Nat]

ReleaseOK ==
  release \in [pc : {"idle", "compute", "publish", "tag"}, version : Versions, commit : Nat]

CountersOK ==
  /\ used \in [merges : Nat, releases : Nat, failures : Nat, reruns : Nat]
  /\ \A r \in Merges : r > used.merges => runs[r].pc = "none"

(* At most one run of a branch is under way; with two branches, at most one    *)
(* waits for the version job while another is in it.                           *)
OnePerBranch ==
  \A r, q \in Merges :
     runs[r].pc \in Active /\ runs[q].pc \in Active /\ runs[r].branch = runs[q].branch => r = q

TypeInv == RunsOK /\ DataOK /\ ReleaseOK /\ CountersOK /\ OnePerBranch

LEMMA InvType == TypeInv => TypeOK
<1> SUFFICES ASSUME TypeInv PROVE TypeOK OBVIOUS
<1>1. ASSUME holder # 0, NEW r \in Merges, NEW q \in Merges,
             runs[r].pc = "pending", runs[q].pc = "pending"
      PROVE  r = q
  <2>1. holder \in Merges /\ runs[holder].pc \in {"assigning", "computed"}
    BY <1>1 DEF TypeInv, RunsOK
  <2>2. holder # r /\ holder # q BY <1>1, <2>1
  <2>3. \A p \in {holder, r, q} : runs[p].pc \in Active /\ runs[p].branch \in Branches
    BY <1>1, <2>1 DEF TypeInv, RunsOK, Runs, Active
  <2>4. runs[holder].branch # runs[r].branch /\ runs[holder].branch # runs[q].branch
    BY <1>1, <2>1, <2>2, <2>3 DEF TypeInv, OnePerBranch
  <2>5. runs[r].branch = runs[q].branch BY <2>3, <2>4 DEF Branches
  <2> QED BY <1>1, <2>3, <2>5 DEF TypeInv, OnePerBranch
<1> QED BY <1>1 DEF TypeInv, TypeOK, RunsOK, DataOK, ReleaseOK, CountersOK

(* What a step may do to the run r: the others keep their state, but for those *)
(* that waited and are cancelled.                                              *)
Moves(r, run) ==
  /\ runs' \in [Merges -> Runs] /\ runs'[r] = run
  /\ \A q \in Merges \ {r} :
        \/ runs'[q] = runs[q]
        \/ runs[q].pc = "waiting" /\ runs'[q].pc = "cancelled"

LEMMA GotoMoves ==
  ASSUME RunsOK, NEW r \in Merges,
         NEW pc \in {"waiting"} \cup Active \cup Ended, Goto(r, pc)
  PROVE  Moves(r, [runs[r] EXCEPT !.pc = pc])
BY DEF RunsOK, Runs, Goto, Moves

LEMMA WaitMoves ==
  ASSUME RunsOK, NEW r \in Merges, NEW run \in Runs, Wait(r, run)
  PROVE  Moves(r, run)
<1>1. \A q \in Merges : [runs[q] EXCEPT !.pc = "cancelled"] \in Runs
  BY DEF RunsOK, Runs, Ended
<1>2. \A q \in Merges : [runs[q] EXCEPT !.pc = "cancelled"].pc = "cancelled"
  BY DEF RunsOK, Runs
<1> QED BY <1>1, <1>2 DEF RunsOK, Wait, Moves

(* A step of a run preserves the groups if it enters none that is taken.       *)
LEMMA MovesGroups ==
  ASSUME RunsOK, OnePerBranch, CountersOK, CountersOK', NEW r \in Merges, NEW run \in Runs,
         Moves(r, run),
         run.pc \in Active =>
            run.branch = runs[r].branch /\ (runs[r].pc \in Active \/ BranchFree(run.branch)),
         \/ run.pc \in {"assigning", "computed"} /\ holder' = r /\ holder \in {0, r}
         \/ run.pc \notin {"assigning", "computed"} /\ holder' = IF holder = r THEN 0 ELSE holder
  PROVE  RunsOK' /\ OnePerBranch'
<1>1. 0 \notin Merges BY DEF Merges
<1>2. RunsOK'
  <2>1. runs' \in [Merges -> Runs] /\ holder' \in Merges \cup {0}
    BY DEF Moves, RunsOK
  <2>2. ASSUME NEW q \in Merges
        PROVE  runs'[q].pc \in {"assigning", "computed"} <=> holder' = q
    <3>1. CASE q = r BY <1>1, <3>1 DEF Moves, RunsOK
    <3>2. CASE q # r BY <1>1, <3>2 DEF Moves, RunsOK
    <3> QED BY <3>1, <3>2
  <2> QED BY <2>1, <2>2 DEF RunsOK
<1>3. ASSUME NEW p \in Merges, NEW q \in Merges, runs'[p].pc \in Active,
             runs'[q].pc \in Active, runs'[p].branch = runs'[q].branch, p # q
      PROVE  FALSE
  <2>1. \A t \in Merges \ {r} : runs'[t].pc \in Active => runs'[t] = runs[t]
    BY DEF Moves, Active
  <2>2. CASE p # r /\ q # r BY <1>3, <2>1, <2>2 DEF OnePerBranch
  <2>3. CASE p = r BY <1>3, <2>1, <2>3 DEF OnePerBranch, BranchFree, Moves
  <2>4. CASE q = r BY <1>3, <2>1, <2>4 DEF OnePerBranch, BranchFree, Moves
  <2> QED BY <2>2, <2>3, <2>4
<1> QED BY <1>2, <1>3 DEF OnePerBranch

LEMMA MergesType == Merges \subseteq Nat /\ 0 \notin Merges
BY BoundsAssumption DEF Merges

LEMMA LatestType == ASSUME DataOK PROVE Latest \subseteq Versions
BY DEF DataOK, Latest, Candidates, OfPlaces, Decimal, Tags, Versions

LEMMA NextVersionType ==
  ASSUME DataOK, NEW kind \in {"minor", "major", "release"}
  PROVE  Next_version(kind) \subseteq Versions
BY LatestType, FollowingType DEF Next_version

LEMMA KindType ==
  ASSUME NEW branch
  PROVE  Kind(branch) \in {"minor", "major", "release"} /\ Kind(branch) # "release"
BY DEF Kind

LEMMA PushType ==
  ASSUME DataOK, NEW v \in Versions, NEW c \in Nat, Push(v, c)
  PROVE  images' \subseteq [version : Versions, commit : Nat]
BY DEF DataOK, Push

LEMMA MintedType ==
  ASSUME NEW v \in Versions, NEW by \in {"merge", "release"}, NEW c \in Nat
  PROVE  Minted(v, by, c) \in Tags
BY DEF Minted, Tags

(* The run r, under way or asked for, becomes "run".                           *)
RunMoves(r, run) ==
  /\ Moves(r, run) /\ run \in Runs
  /\ run.pc \in Active =>
       run.branch = runs[r].branch /\ (runs[r].pc \in Active \/ BranchFree(run.branch))
  /\ \/ run.pc \in {"assigning", "computed"} /\ holder' = r /\ holder \in {0, r}
     \/ run.pc \notin {"assigning", "computed"} /\ holder' = IF holder = r THEN 0 ELSE holder

LEMMA RunMovesType ==
  ASSUME TypeInv, NEW r \in Merges, NEW run, RunMoves(r, run), r <= used'.merges,
         used' \in [merges : Nat, releases : Nat, failures : Nat, reruns : Nat],
         used.merges <= used'.merges
  PROVE  RunsOK' /\ OnePerBranch' /\ CountersOK'
<1>1. CountersOK'
  <2> SUFFICES ASSUME NEW q \in Merges, q > used'.merges PROVE runs'[q].pc = "none"
    BY DEF CountersOK
  <2>1. q # r /\ q > used.merges
    BY MergesType DEF TypeInv, CountersOK
  <2>2. runs[q].pc = "none" BY <2>1 DEF TypeInv, CountersOK
  <2> QED BY <2>1, <2>2 DEF RunMoves, Moves
<1>2. RunsOK' /\ OnePerBranch'
  BY <1>1, MovesGroups DEF TypeInv, RunMoves
<1> QED BY <1>1, <1>2

LEMMA NumberOfRun ==
  ASSUME TypeInv, NEW r \in Merges, runs[r].pc # "none"
  PROVE  r <= used.merges
BY MergesType DEF TypeInv, CountersOK

LEMMA StepMoves ==
  ASSUME TypeInv, NEW r \in Merges, Step(r)
  PROVE  \E run : RunMoves(r, run)
<1> USE DEF TypeInv, RunsOK
<1>0. /\ runs[r] \in Runs /\ holder \in Merges \cup {0} /\ 0 \notin Merges
      /\ runs[r].pc \in {"assigning", "computed"} <=> holder = r
  BY MergesType
<1>1. CASE Start(r)
  <2> DEFINE run == [runs[r] EXCEPT !.pc = runs[r].resume]
  <2>1. runs[r].resume \in Jobs BY <1>0 DEF Runs
  <2>2. run \in Runs /\ run.pc = runs[r].resume /\ run.branch = runs[r].branch
    BY <1>0, <2>1 DEF Runs, Jobs, Active
  <2>3. Moves(r, run) BY <1>1, <2>1, GotoMoves DEF Start, Jobs, Active
  <2>4. RunMoves(r, run)
    BY <1>0, <1>1, <2>1, <2>2, <2>3 DEF RunMoves, Start, Jobs
  <2> QED BY <2>4
<1>2. CASE Test(r)
  <2> DEFINE run == [runs[r] EXCEPT !.pc = "pending"]
  <2>1. run \in Runs /\ run.pc = "pending" /\ run.branch = runs[r].branch
    BY <1>0 DEF Runs, Active
  <2>2. Moves(r, run) BY <1>2, GotoMoves DEF Test, Active
  <2>3. RunMoves(r, run) BY <1>0, <1>2, <2>1, <2>2 DEF RunMoves, Test, Active
  <2> QED BY <2>3
<1>3. CASE Assign(r)
  <2> DEFINE run == [runs[r] EXCEPT !.pc = "assigning"]
  <2>1. run \in Runs /\ run.pc = "assigning" /\ run.branch = runs[r].branch
    BY <1>0 DEF Runs, Active
  <2>2. Moves(r, run) BY <1>3, GotoMoves DEF Assign, Active
  <2>3. RunMoves(r, run)
    BY <1>0, <1>3, <2>1, <2>2 DEF RunMoves, Assign, Active, NotHeld
  <2> QED BY <2>3
<1>4. CASE Publish(r)
  <2> DEFINE run == [runs[r] EXCEPT !.pc = "done", !.resume = "testing"]
  <2>1. run \in Runs /\ run.pc = "done"
    BY <1>0 DEF Runs, Ended, Jobs
  <2>2. Moves(r, run) BY <2>1, <1>4 DEF Publish, Moves
  <2>3. RunMoves(r, run) BY <1>0, <1>4, <2>1, <2>2 DEF RunMoves, Publish, Active
  <2> QED BY <2>3
<1>5. ASSUME NEW job \in Jobs, Fail(r, job) PROVE \E run : RunMoves(r, run)
  <2> DEFINE run == [runs[r] EXCEPT !.pc = "failed", !.resume = job]
  <2>1. run \in Runs /\ run.pc = "failed"
    BY <1>0 DEF Runs, Ended
  <2>2. Moves(r, run) BY <2>1, <1>5 DEF Fail, Moves
  <2>3. RunMoves(r, run) BY <1>0, <1>5, <2>1, <2>2 DEF RunMoves, Fail, Active
  <2> QED BY <2>3
<1>6. CASE Compute(r)
  <2>1. CASE Fail(r, "pending") BY <1>5, <2>1 DEF Jobs
  <2>2. CASE \E v \in Next_version(Kind(runs[r].branch)) :
                runs' = [runs EXCEPT ![r].pc = "computed", ![r].version = v]
                /\ UNCHANGED holder
    <3>1. PICK v \in Next_version(Kind(runs[r].branch)) :
                runs' = [runs EXCEPT ![r].pc = "computed", ![r].version = v]
                /\ UNCHANGED holder
      BY <2>2
    <3>2. v \in Versions BY NextVersionType, KindType
    <3> DEFINE run == [runs[r] EXCEPT !.pc = "computed", !.version = v]
    <3>3. run \in Runs /\ run.pc = "computed" /\ run.branch = runs[r].branch
      BY <1>0, <3>2 DEF Runs, Active
    <3>4. Moves(r, run) BY <3>1, <3>3 DEF Moves
    <3>5. RunMoves(r, run) BY <1>0, <1>6, <3>1, <3>3, <3>4 DEF RunMoves, Compute, Active
    <3> QED BY <3>5
  <2> QED BY <1>6, <2>1, <2>2 DEF Compute
<1>7. CASE Tag(r)
  <2>1. CASE Fail(r, "pending") BY <1>5, <2>1 DEF Jobs
  <2>2. CASE Goto(r, "tagged") /\ holder' = 0
    <3> DEFINE run == [runs[r] EXCEPT !.pc = "tagged"]
    <3>1. run \in Runs /\ run.pc = "tagged" /\ run.branch = runs[r].branch
      BY <1>0 DEF Runs, Active
    <3>2. Moves(r, run) BY <2>2, GotoMoves DEF Active
    <3>3. RunMoves(r, run)
      BY <1>0, <1>7, <2>2, <3>1, <3>2 DEF RunMoves, Tag, Active
    <3> QED BY <3>3
  <2> QED BY <1>7, <2>1, <2>2 DEF Tag
<1> QED BY <1>1, <1>2, <1>3, <1>4, <1>6, <1>7 DEF Step

LEMMA SpendType ==
  ASSUME CountersOK, NEW bound \in {"merges", "releases", "failures", "reruns"}, NEW max,
         Spend(bound, max)
  PROVE  /\ used' \in [merges : Nat, releases : Nat, failures : Nat, reruns : Nat]
         /\ used'.merges = IF bound = "merges" THEN used.merges + 1 ELSE used.merges
<1>1. CASE bound = "merges" BY <1>1 DEF CountersOK, Spend
<1>2. CASE bound # "merges" BY <1>2 DEF CountersOK, Spend
<1> QED BY <1>1, <1>2

LEMMA FailureMoves ==
  ASSUME TypeInv, NEW r \in Merges, JobFails(r) \/ Rerun(r)
  PROVE  \E run : RunMoves(r, run)
<1> USE DEF TypeInv, RunsOK
<1>0. /\ runs[r] \in Runs /\ holder \in Merges \cup {0} /\ 0 \notin Merges
      /\ runs[r].pc \in {"assigning", "computed"} <=> holder = r
  BY MergesType
<1>1. CASE JobFails(r)
  <2>1. PICK job \in Jobs : Fail(r, job) BY <1>1 DEF JobFails, Jobs
  <2> DEFINE run == [runs[r] EXCEPT !.pc = "failed", !.resume = job]
  <2>2. run \in Runs /\ run.pc = "failed" BY <1>0 DEF Runs, Ended
  <2>3. Moves(r, run) BY <2>1, <2>2 DEF Fail, Moves
  <2>4. RunMoves(r, run) BY <1>0, <2>1, <2>2, <2>3 DEF RunMoves, Fail, Active
  <2> QED BY <2>4
<1>2. CASE Rerun(r)
  <2>1. PICK resume \in {"testing", runs[r].resume} :
           Wait(r, [runs[r] EXCEPT !.pc = "waiting", !.resume = resume])
    BY <1>2 DEF Rerun
  <2> DEFINE run == [runs[r] EXCEPT !.pc = "waiting", !.resume = resume]
  <2>2. run \in Runs /\ run.pc = "waiting" BY <1>0 DEF Runs, Jobs
  <2>3. Moves(r, run) BY <2>1, <2>2, WaitMoves
  <2>4. RunMoves(r, run)
    BY <1>0, <1>2, <2>2, <2>3 DEF RunMoves, Rerun, Ended, Active
  <2> QED BY <2>4
<1> QED BY <1>1, <1>2

LEMMA MergeMoves ==
  ASSUME TypeInv, NEW branch \in Branches, Merge(branch)
  PROVE  used'.merges \in Merges /\ \E run : RunMoves(used'.merges, run)
<1> USE DEF TypeInv, RunsOK
<1> DEFINE r == used'.merges
           run == [NoRun EXCEPT !.branch = branch, !.pc = "waiting"]
<1>1. r = used.merges + 1 /\ used.merges \in Nat /\ used.merges < MaxMerges
  BY SpendType DEF Merge, Spend, CountersOK
<1>2. r \in Merges BY <1>1, BoundsAssumption DEF Merges
<1>3. runs[r].pc = "none" BY <1>1, <1>2 DEF CountersOK
<1>4. run \in Runs /\ run.pc = "waiting" BY DEF Runs, NoRun, Jobs, NoVersion, Versions
<1>5. Wait(r, run) /\ holder' = holder BY DEF Merge
<1> HIDE DEF r, run
<1>6. Moves(r, run) BY <1>2, <1>4, <1>5, WaitMoves
<1>7. holder # r BY <1>2, <1>3
<1>8. RunMoves(r, run) BY <1>4, <1>5, <1>6, <1>7 DEF RunMoves, Active
<1> QED BY <1>2, <1>8 DEF r

(* What runs, and who holds the version job.                                   *)
LEMMA RunsType ==
  ASSUME TypeInv, Next
  PROVE  RunsOK' /\ OnePerBranch' /\ CountersOK'
<1>1. CASE \E b \in Branches : Merge(b)
  <2>1. PICK b \in Branches : Merge(b) BY <1>1
  <2>2. /\ used' \in [merges : Nat, releases : Nat, failures : Nat, reruns : Nat]
        /\ used'.merges = used.merges + 1
    BY <2>1, SpendType DEF Merge, TypeInv
  <2>3. used.merges \in Nat BY DEF TypeInv, CountersOK
  <2> QED BY <2>1, <2>2, <2>3, MergeMoves, RunMovesType
<1>2. CASE \E r \in Merges : Step(r)
  <2>1. PICK r \in Merges : Step(r) BY <1>2
  <2>2. used' = used BY <2>1 DEF Step, Start, Test, Assign, Compute, Tag, Publish
  <2>3. runs[r].pc # "none"
    BY <2>1 DEF Step, Start, Test, Assign, Compute, Tag, Publish
  <2>4. used.merges \in Nat /\ r <= used.merges
    BY <2>3, NumberOfRun DEF TypeInv, CountersOK
  <2> QED BY <2>1, <2>2, <2>4, StepMoves, RunMovesType DEF TypeInv, CountersOK
<1>3. CASE \E r \in Merges : JobFails(r) \/ Rerun(r)
  <2>1. PICK r \in Merges : JobFails(r) \/ Rerun(r) BY <1>3
  <2>2. /\ used' \in [merges : Nat, releases : Nat, failures : Nat, reruns : Nat]
        /\ used'.merges = used.merges
    BY <2>1, SpendType DEF JobFails, Rerun, TypeInv
  <2>3. runs[r].pc # "none" BY <2>1 DEF JobFails, Rerun, Ended
  <2>4. used.merges \in Nat /\ r <= used.merges
    BY <2>3, NumberOfRun DEF TypeInv, CountersOK
  <2> QED BY <2>1, <2>2, <2>4, FailureMoves, RunMovesType
<1>4. CASE Dispatch \/ ComputeRelease \/ PublishRelease \/ TagRelease \/ ReleaseFails
  <2>1. runs' = runs /\ holder' = holder
    BY <1>4 DEF Dispatch, ComputeRelease, PublishRelease, TagRelease, ReleaseFails
  <2>2. /\ used' \in [merges : Nat, releases : Nat, failures : Nat, reruns : Nat]
        /\ used'.merges = used.merges
    <3>1. CASE Dispatch \/ ReleaseFails
      BY <3>1, SpendType DEF Dispatch, ReleaseFails, TypeInv
    <3>2. CASE ComputeRelease \/ PublishRelease \/ TagRelease
      BY <3>2 DEF ComputeRelease, PublishRelease, TagRelease, TypeInv, CountersOK
    <3> QED BY <1>4, <3>1, <3>2
  <2> QED BY <2>1, <2>2 DEF TypeInv, RunsOK, OnePerBranch, CountersOK
<1> QED BY <1>1, <1>2, <1>3, <1>4 DEF Next

LEMMA TagsType ==
  ASSUME TypeInv, Next
  PROVE  DataOK' /\ ReleaseOK'
<1> USE DEF TypeInv
<1>1. CASE \E r \in Merges : Tag(r) \/ Publish(r)
  <2>1. PICK r \in Merges : Tag(r) \/ Publish(r) BY <1>1
  <2>2. r \in Nat /\ runs[r].version \in Versions BY MergesType DEF RunsOK, Runs
  <2>3. CASE Tag(r)
    BY <2>2, <2>3, MintedType DEF Tag, DataOK, ReleaseOK
  <2>4. CASE Publish(r)
    BY <2>2, <2>4, PushType DEF Publish, DataOK, ReleaseOK
  <2> QED BY <2>1, <2>3, <2>4
<1>2. CASE TagRelease \/ PublishRelease
  <2>1. release.version \in Versions /\ release.commit \in Nat BY DEF ReleaseOK
  <2>2. ReleaseOK'
    BY <1>2, <2>1 DEF ReleaseOK, TagRelease, PublishRelease, AfterRelease, ReleaseOrder,
                      NoRelease, NoVersion, Versions
  <2>3. CASE TagRelease BY <2>1, <2>2, <2>3, MintedType DEF TagRelease, DataOK
  <2>4. CASE PublishRelease BY <2>1, <2>2, <2>4, PushType DEF PublishRelease, DataOK
  <2> QED BY <1>2, <2>3, <2>4
<1>3. CASE Dispatch
  <2>1. PICK c \in {r \in Merges : runs[r].branch = "main" /\ runs[r].pc # "none"} \cup {0} :
           release' = [NoRelease EXCEPT !.pc = "compute", !.commit = c]
    BY <1>3 DEF Dispatch
  <2>2. c \in Nat
    <3>1. c \in Merges \/ c = 0 BY <2>1
    <3> QED BY <3>1, MergesType
  <2>3. ReleaseOK' BY <2>1, <2>2 DEF ReleaseOK, NoRelease, NoVersion, Versions
  <2> QED BY <1>3, <2>3 DEF Dispatch, DataOK
<1>4. CASE ComputeRelease
  <2>1. ASSUME \E v \in Next_version("release") :
                 release' = [release EXCEPT !.pc = ReleaseOrder[1], !.version = v]
        PROVE  ReleaseOK'
    <3>1. PICK v \in Next_version("release") :
                release' = [release EXCEPT !.pc = ReleaseOrder[1], !.version = v]
      BY <2>1
    <3>2. v \in Versions BY NextVersionType
    <3>3. ReleaseOrder[1] = "publish" BY DEF ReleaseOrder
    <3> QED BY <3>1, <3>2, <3>3 DEF ReleaseOK
  <2>2. ASSUME release' = NoRelease PROVE ReleaseOK'
    BY <2>2 DEF ReleaseOK, NoRelease, NoVersion, Versions
  <2>3. ReleaseOK' BY <1>4, <2>1, <2>2 DEF ComputeRelease
  <2> QED BY <1>4, <2>3 DEF ComputeRelease, DataOK
<1>5. CASE ReleaseFails
  BY <1>5 DEF ReleaseFails, DataOK, ReleaseOK, NoRelease, NoVersion, Versions
<1>6. ASSUME NEW r \in Merges,
             Start(r) \/ Test(r) \/ Assign(r) \/ Compute(r) \/ JobFails(r) \/ Rerun(r)
      PROVE  UNCHANGED <<tags, images, release>>
  BY <1>6 DEF Start, Test, Assign, Compute, JobFails, Rerun
<1>7. ASSUME NEW b \in Branches, Merge(b) PROVE UNCHANGED <<tags, images, release>>
  BY <1>7 DEF Merge
<1> QED BY <1>1, <1>2, <1>3, <1>4, <1>5, <1>6, <1>7 DEF Next, Step, DataOK, ReleaseOK

LEMMA InitInv == Init => TypeInv
<1> SUFFICES ASSUME Init PROVE TypeInv OBVIOUS
<1>1. DataOK BY HistoriesAssumption DEF Init, DataOK
<1>2. RunsOK
  BY MergesType DEF Init, RunsOK, Runs, NoRun, Jobs, NoVersion, Versions, Branches
<1>3. ReleaseOK BY DEF Init, ReleaseOK, NoRelease, NoVersion, Versions
<1>4. CountersOK BY DEF Init, CountersOK, NoRun
<1>5. OnePerBranch BY DEF Init, OnePerBranch, NoRun, Active
<1> QED BY <1>1, <1>2, <1>3, <1>4, <1>5 DEF TypeInv

LEMMA InvStutter == TypeInv /\ UNCHANGED vars => TypeInv'
BY DEF TypeInv, vars, RunsOK, DataOK, ReleaseOK, CountersOK, OnePerBranch

LEMMA InvCorrect == Spec => []TypeInv
<1>1. TypeInv /\ [Next]_vars => TypeInv'
  BY RunsType, TagsType, InvStutter DEF TypeInv
<1> QED BY <1>1, InitInv, PTL DEF Spec

(* The variables keep their types, one run at a time is in the version job,    *)
(* and at most one waits for it, so that version-assign never cancels a run,   *)
(* however many merges, failures and re-runs (ci.yml, the two groups).         *)
THEOREM TypeCorrect == Spec => []TypeOK
BY InvCorrect, InvType, PTL

-----------------------------------------------------------------------------
(* Versions *)

(* Tags of three places come first in next-version.sh, whatever their values:  *)
(* that the numbering only goes up needs a history that they are at the top of.*)
HistoriesOrdered ==
  \A history \in Histories : \A t, u \in history :
     t.places = "three" /\ u.places = "two" => ~Less(t.version, u.version)

Named == \A t \in tags : t.by # "history" => t.places = "three"

Ordered ==
  \A t, u \in tags :
     t.places = "three" /\ u.places = "two" => ~Less(t.version, u.version)

(* The version a job has computed is above all tags but those of a release     *)
(* made since, and of the release number of one of them.                       *)
ComputedTop ==
  \A r \in Merges : runs[r].pc = "computed" =>
     \A u \in tags : IsVersion(u) /\ u.by # "release" => Less(u.version, runs[r].version)

ComputedFrom ==
  \A r \in Merges : runs[r].pc = "computed" =>
     \/ runs[r].version.rel = 0
     \/ \E u \in tags : IsVersion(u) /\ u.version.rel = runs[r].version.rel

(* The version of a release under way is above all tags and all versions that  *)
(* are about to become one.                                                    *)
Releasing == release.pc \in {"publish", "tag"}

ReleaseTop ==
  Releasing =>
    /\ release.version.rel > 0
    /\ \A u \in tags : IsVersion(u) => u.version.rel < release.version.rel
    /\ \A r \in Merges : runs[r].pc = "computed" => runs[r].version.rel < release.version.rel

VersionInv == Named /\ Ordered /\ ComputedTop /\ ComputedFrom /\ ReleaseTop /\ AboveHistory

LEMMA TagVersion == ASSUME DataOK, NEW t \in tags PROVE t.version \in Versions
BY DEF DataOK, Tags

LEMMA LatestTop ==
  ASSUME DataOK, Ordered, NEW l \in Latest, NEW u \in tags, IsVersion(u)
  PROVE  ~Less(l, u.version)
<1>1. PICK t \in Candidates : l = t.version /\ \A w \in Candidates : ~Less(t.version, w.version)
  BY DEF Latest, Decimal
<1>2. CASE OfPlaces("three") # {}
  <2>1. t \in tags /\ t.places = "three" BY <1>2 DEF Candidates, OfPlaces
  <2>2. CASE u.places = "three" BY <1>1, <1>2, <2>2 DEF Candidates, OfPlaces
  <2>3. CASE u.places = "two" BY <1>1, <2>1, <2>3 DEF Ordered
  <2> QED BY <2>2, <2>3 DEF IsVersion
<1>3. CASE OfPlaces("three") = {}
  BY <1>1, <1>3 DEF Candidates, OfPlaces, IsVersion
<1> QED BY <1>2, <1>3

LEMMA LatestFrom ==
  ASSUME NEW l \in Latest
  PROVE  l.rel = 0 \/ \E t \in tags : IsVersion(t) /\ t.version = l
BY DEF Latest, Decimal, Candidates, OfPlaces, IsVersion

(* A version computed from the tags is above all of them.                      *)
LEMMA NextTop ==
  ASSUME DataOK, Ordered, NEW kind \in {"minor", "major", "release"},
         NEW v \in Next_version(kind)
  PROVE  /\ \A u \in tags : IsVersion(u) => Less(u.version, v)
         /\ kind # "release" =>
              v.rel = 0 \/ \E u \in tags : IsVersion(u) /\ u.version.rel = v.rel
         /\ kind = "release" =>
              v.rel > 0 /\ \A u \in tags : IsVersion(u) => u.version.rel < v.rel
<1>1. PICK l \in Latest : v = Following(kind, l) BY DEF Next_version
<1>2. l \in Versions /\ v \in Versions BY <1>1, LatestType, FollowingType
<1>3. /\ Less(l, v)
      /\ kind # "release" => v.rel = l.rel
      /\ kind = "release" => v.rel = l.rel + 1
  BY <1>1, <1>2, FollowingType
<1>4. ASSUME NEW u \in tags, IsVersion(u) PROVE Less(u.version, v) /\ u.version.rel <= l.rel
  BY <1>2, <1>3, <1>4, LatestTop, LessOrder, TagVersion
<1>5. l.rel = 0 \/ \E t \in tags : IsVersion(t) /\ t.version = l BY LatestFrom
<1>6. l.rel \in Nat /\ \A u \in tags : u.version.rel \in Nat
  BY <1>2, TagVersion DEF Versions
<1>7. kind = "release" =>
         v.rel > 0 /\ \A u \in tags : IsVersion(u) => u.version.rel < v.rel
  BY <1>3, <1>4, <1>6
<1> QED BY <1>3, <1>4, <1>5, <1>7

(* Steps that make no tag and compute nothing.                                 *)
LEMMA QuietVersions ==
  ASSUME VersionInv, tags' = tags,
         \A r \in Merges : runs'[r].pc = "computed" => runs'[r] = runs[r],
         Releasing' => Releasing /\ release'.version = release.version
  PROVE  VersionInv'
BY DEF VersionInv, Named, Ordered, ComputedTop, ComputedFrom, ReleaseTop, AboveHistory,
       IsVersion

(* A new tag that is above all but the tags of a release, and below a release  *)
(* that is under way.                                                          *)
LEMMA NewTag ==
  ASSUME TypeInv, VersionInv, NEW v \in Versions, NEW by \in {"merge", "release"},
         NEW commit \in Nat, tags' = tags \cup {Minted(v, by, commit)},
         \A u \in tags : IsVersion(u) /\ u.by # "release" => Less(u.version, v)
  PROVE  Named' /\ Ordered' /\ AboveHistory'
<1> DEFINE new == Minted(v, by, commit)
<1>1. new.version = v /\ new.places = "three" /\ new.by = by BY DEF Minted
<1> HIDE DEF new
<1>2. Named' BY <1>1 DEF VersionInv, Named, new
<1>3. \A u \in tags : u.places = "two" => u.by = "history"
  <2>1. \A u \in tags : u.by # "history" => u.places = "three" BY DEF VersionInv, Named
  <2> QED BY <2>1
<1>4. ASSUME NEW t \in tags', NEW u \in tags', t.places = "three", u.places = "two"
      PROVE  ~Less(t.version, u.version)
  <2>1. u \in tags BY <1>1, <1>4 DEF new
  <2>2. CASE t \in tags BY <1>4, <2>1, <2>2 DEF VersionInv, Ordered
  <2>3. CASE t = new
    <3>1. u.version \in Versions BY <2>1, TagVersion DEF TypeInv
    <3>2. Less(u.version, v) BY <1>3, <1>4, <2>1 DEF IsVersion
    <3> QED BY <1>1, <2>3, <3>1, <3>2, LessOrder
  <2> QED BY <1>4, <2>2, <2>3 DEF new
<1>5. ASSUME NEW t \in tags', NEW u \in tags', t.by # "history", u.by = "history", IsVersion(u)
      PROVE  Less(u.version, t.version)
  <2>1. u \in tags BY <1>1, <1>5 DEF new
  <2>2. CASE t \in tags BY <1>5, <2>1, <2>2 DEF VersionInv, AboveHistory
  <2>3. CASE t = new BY <1>1, <1>5, <2>1, <2>3
  <2> QED BY <1>5, <2>2, <2>3 DEF new
<1> QED BY <1>2, <1>4, <1>5 DEF Ordered, AboveHistory

LEMMA TagVersions ==
  ASSUME TypeInv, VersionInv, NEW r \in Merges, Tag(r)
  PROVE  VersionInv'
<1>1. CASE Fail(r, "pending") /\ UNCHANGED tags
  <2>1. \A q \in Merges : runs'[q].pc = "computed" => runs'[q] = runs[q]
    BY <1>1 DEF TypeInv, RunsOK, Runs, Fail
  <2> QED BY <1>1, <2>1, QuietVersions DEF Tag, Releasing
<1>2. CASE /\ tags' = tags \cup {Minted(runs[r].version, "merge", r)}
           /\ Goto(r, "tagged") /\ holder' = 0
  <2>1. runs[r].pc = "computed" /\ holder = r BY DEF Tag, TypeInv, RunsOK
  <2>2. runs[r].version \in Versions /\ r \in Nat
    BY MergesType DEF TypeInv, RunsOK, Runs
  <2>3. \A u \in tags : IsVersion(u) /\ u.by # "release" => Less(u.version, runs[r].version)
    BY <2>1 DEF VersionInv, ComputedTop
  <2>4. Named' /\ Ordered' /\ AboveHistory' BY <1>2, <2>2, <2>3, NewTag
  <2>5. \A q \in Merges : runs'[q].pc # "computed"
    BY <1>2, <2>1 DEF TypeInv, RunsOK, Runs, Goto
  <2>6. ComputedTop' /\ ComputedFrom' BY <2>5 DEF ComputedTop, ComputedFrom
  <2>7. ReleaseTop'
    <3>1. Minted(runs[r].version, "merge", r).version = runs[r].version BY DEF Minted
    <3>2. release' = release BY DEF Tag
    <3>3. \A u \in tags' : u \in tags \/ u.version = runs[r].version BY <1>2, <3>1
    <3> QED BY <2>1, <2>5, <3>2, <3>3 DEF VersionInv, ReleaseTop, Releasing, IsVersion
  <2> QED BY <2>4, <2>6, <2>7 DEF VersionInv
<1> QED BY <1>1, <1>2 DEF Tag

LEMMA TagReleaseVersions ==
  ASSUME TypeInv, VersionInv, TagRelease
  PROVE  VersionInv'
<1>1. release.version \in Versions /\ release.commit \in Nat BY DEF TypeInv, ReleaseOK
<1>2. Releasing BY DEF TagRelease, Releasing
<1>3. \A u \in tags : IsVersion(u) => Less(u.version, release.version)
  BY <1>1, <1>2, LessOrder, TagVersion DEF VersionInv, ReleaseTop, TypeInv
<1>4. tags' = tags \cup {Minted(release.version, "release", release.commit)} /\ runs' = runs
  BY DEF TagRelease
<1>5. Named' /\ Ordered' /\ AboveHistory' BY <1>1, <1>3, <1>4, NewTag
<1>6. Minted(release.version, "release", release.commit).by = "release" BY DEF Minted
<1>7. ComputedTop' BY <1>4, <1>6 DEF VersionInv, ComputedTop, IsVersion
<1>8. ComputedFrom' BY <1>4 DEF VersionInv, ComputedFrom, IsVersion
<1>9. ~Releasing'
  BY DEF TagRelease, AfterRelease, ReleaseOrder, Releasing, NoRelease
<1> QED BY <1>5, <1>7, <1>8, <1>9 DEF VersionInv, ReleaseTop

LEMMA ComputeVersions ==
  ASSUME TypeInv, VersionInv, NEW r \in Merges, Compute(r)
  PROVE  VersionInv'
<1> DEFINE kind == Kind(runs[r].branch)
<1>1. tags' = tags /\ release' = release BY DEF Compute
<1>2. CASE Fail(r, "pending")
  <2>1. \A q \in Merges : runs'[q].pc = "computed" => runs'[q] = runs[q]
    BY <1>2 DEF TypeInv, RunsOK, Runs, Fail
  <2> QED BY <1>1, <2>1, QuietVersions DEF Releasing
<1>3. CASE \E v \in Next_version(kind) :
              runs' = [runs EXCEPT ![r].pc = "computed", ![r].version = v]
  <2>1. PICK v \in Next_version(kind) :
           runs' = [runs EXCEPT ![r].pc = "computed", ![r].version = v]
    BY <1>3
  <2>2. kind \in {"minor", "major", "release"} /\ kind # "release" BY KindType
  <2> HIDE DEF kind
  <2>3. /\ \A u \in tags : IsVersion(u) => Less(u.version, v)
        /\ v.rel = 0 \/ \E u \in tags : IsVersion(u) /\ u.version.rel = v.rel
    BY <2>2, NextTop DEF TypeInv, VersionInv
  <2>4. runs'[r].version = v BY <2>1 DEF TypeInv, RunsOK, Runs
  <2>5. \A q \in Merges \ {r} : runs'[q] = runs[q] BY <2>1 DEF TypeInv, RunsOK
  <2>6. Named' /\ Ordered' /\ AboveHistory'
    BY <1>1 DEF VersionInv, Named, Ordered, AboveHistory, IsVersion
  <2>7. ComputedTop'
    BY <1>1, <2>3, <2>4, <2>5 DEF VersionInv, ComputedTop, IsVersion
  <2>8. ComputedFrom'
    BY <1>1, <2>3, <2>4, <2>5 DEF VersionInv, ComputedFrom, IsVersion
  <2>9. ReleaseTop'
    <3>1. Releasing => v.rel < release.version.rel
      BY <2>3 DEF VersionInv, ReleaseTop
    <3> QED BY <1>1, <2>4, <2>5, <3>1 DEF VersionInv, ReleaseTop, Releasing, IsVersion
  <2> QED BY <2>6, <2>7, <2>8, <2>9 DEF VersionInv
<1> QED BY <1>2, <1>3 DEF Compute

LEMMA ComputeReleaseVersions ==
  ASSUME TypeInv, VersionInv, ComputeRelease
  PROVE  VersionInv'
<1>1. tags' = tags /\ runs' = runs BY DEF ComputeRelease
<1>2. CASE release' = NoRelease
  BY <1>1, <1>2, QuietVersions DEF Releasing, NoRelease
<1>3. CASE \E v \in Next_version("release") :
              release' = [release EXCEPT !.pc = ReleaseOrder[1], !.version = v]
  <2>1. PICK v \in Next_version("release") :
           release' = [release EXCEPT !.pc = ReleaseOrder[1], !.version = v]
    BY <1>3
  <2>2. /\ \A u \in tags : IsVersion(u) => u.version.rel < v.rel
        /\ v.rel > 0
    BY NextTop DEF TypeInv, VersionInv
  <2>3. release'.version = v BY <2>1 DEF TypeInv, ReleaseOK
  <2>4. \A r \in Merges : runs[r].pc = "computed" => runs[r].version.rel < v.rel
    BY <2>2 DEF VersionInv, ComputedFrom
  <2>5. ReleaseTop' BY <1>1, <2>2, <2>3, <2>4 DEF ReleaseTop, IsVersion
  <2> QED
    BY <1>1, <2>5 DEF VersionInv, Named, Ordered, ComputedTop, ComputedFrom, AboveHistory,
                      IsVersion
<1> QED BY <1>2, <1>3 DEF ComputeRelease

LEMMA NextVersions ==
  ASSUME TypeInv, VersionInv, Next
  PROVE  VersionInv'
<1>1. ASSUME NEW r \in Merges,
             Start(r) \/ Test(r) \/ Assign(r) \/ Publish(r) \/ JobFails(r) \/ Rerun(r)
      PROVE  VersionInv'
  <2>1. tags' = tags /\ release' = release
    BY <1>1 DEF Start, Test, Assign, Publish, JobFails, Rerun
  <2>2. \A q \in Merges : runs'[q].pc = "computed" => runs'[q] = runs[q]
    <3>1. runs[r].resume \in Jobs /\ runs \in [Merges -> Runs]
      BY DEF TypeInv, RunsOK, Runs
    <3>2. CASE Start(r) BY <3>1, <3>2 DEF Start, Goto, Jobs, Runs
    <3>3. CASE Test(r) BY <3>1, <3>3 DEF Test, Goto, Runs
    <3>4. CASE Assign(r) BY <3>1, <3>4 DEF Assign, Goto, Runs
    <3>5. CASE Publish(r) BY <3>1, <3>5 DEF Publish, Runs
    <3>6. CASE JobFails(r) BY <3>1, <3>6 DEF JobFails, Fail, Runs
    <3>7. CASE Rerun(r) BY <3>1, <3>7 DEF Rerun, Wait, Runs
    <3> QED BY <1>1, <3>2, <3>3, <3>4, <3>5, <3>6, <3>7
  <2> QED BY <2>1, <2>2, QuietVersions DEF Releasing
<1>2. ASSUME NEW b \in Branches, Merge(b) PROVE VersionInv'
  <2>1. \A q \in Merges : runs'[q].pc = "computed" => runs'[q] = runs[q]
    BY <1>2 DEF Merge, Wait, NoRun, TypeInv, RunsOK, Runs
  <2> QED BY <1>2, <2>1, QuietVersions DEF Merge, Releasing
<1>3. CASE Dispatch \/ PublishRelease \/ ReleaseFails
  <2>1. tags' = tags /\ runs' = runs BY <1>3 DEF Dispatch, PublishRelease, ReleaseFails
  <2>2. Releasing' => Releasing /\ release'.version = release.version
    <3>1. CASE Dispatch BY <3>1 DEF Dispatch, Releasing, NoRelease
    <3>2. CASE PublishRelease
      BY <3>2 DEF PublishRelease, AfterRelease, ReleaseOrder, Releasing, NoRelease,
                  TypeInv, ReleaseOK
    <3>3. CASE ReleaseFails BY <3>3 DEF ReleaseFails, Releasing, NoRelease
    <3> QED BY <1>3, <3>1, <3>2, <3>3
  <2> QED BY <2>1, <2>2, QuietVersions
<1> QED
  BY <1>1, <1>2, <1>3, TagVersions, ComputeVersions, TagReleaseVersions,
     ComputeReleaseVersions DEF Next, Step

LEMMA VersionsInit ==
  ASSUME HistoriesOrdered, Init
  PROVE  VersionInv
<1>1. \A t \in tags : t.by = "history" BY HistoriesAssumption DEF Init
<1>2. Ordered BY DEF HistoriesOrdered, Init, Ordered
<1>3. \A r \in Merges : runs[r].pc = "none" BY DEF Init, NoRun
<1>4. ~Releasing BY DEF Init, NoRelease, Releasing
<1> QED
  BY <1>1, <1>2, <1>3, <1>4 DEF VersionInv, Named, ComputedTop, ComputedFrom, ReleaseTop,
                                AboveHistory

LEMMA VersionsCorrect ==
  ASSUME HistoriesOrdered
  PROVE  Spec => [](TypeInv /\ VersionInv)
<1>1. Init => TypeInv /\ VersionInv BY InitInv, VersionsInit
<1>2. (TypeInv /\ VersionInv) /\ [Next]_vars => (TypeInv /\ VersionInv)'
  <2>1. TypeInv /\ [Next]_vars => TypeInv'
    BY RunsType, TagsType, InvStutter DEF TypeInv
  <2>2. ASSUME VersionInv, UNCHANGED vars PROVE VersionInv'
    BY <2>2, QuietVersions DEF vars, Releasing
  <2> QED BY <2>1, <2>2, NextVersions
<1> QED BY <1>1, <1>2, PTL DEF Spec

(* No version made sorts below what was tagged before these runs, if the tags  *)
(* of three places were at the top of that (next-version.sh).                  *)
THEOREM HistoryCorrect ==
  ASSUME HistoriesOrdered
  PROVE  Spec => []AboveHistory
<1>1. VersionInv => AboveHistory BY DEF VersionInv
<1> QED BY <1>1, VersionsCorrect, PTL

(* Every tag is above all there were when it was made, but for a merge that a  *)
(* release has overtaken, however many runs, failures and re-runs there are    *)
(* (ci.yml, version-assign).                                                   *)
THEOREM IncreaseCorrect ==
  ASSUME HistoriesOrdered
  PROVE  Spec => VersionsIncrease
<1> DEFINE Increase ==
      \A t \in tags' \ tags, u \in tags :
        IsVersion(u) /\ ~(t.by = "merge" /\ u.by = "release") => Less(u.version, t.version)
<1>1. ASSUME TypeInv, VersionInv, Next PROVE Increase
  <2>1. CASE \E r \in Merges : Tag(r)
    <3>1. PICK r \in Merges : Tag(r) BY <2>1
    <3> DEFINE new == Minted(runs[r].version, "merge", r)
    <3>2. tags' \subseteq tags \cup {new} BY <3>1 DEF Tag
    <3>3. runs[r].pc = "computed" BY <3>1 DEF Tag
    <3>4. new.version = runs[r].version /\ new.by = "merge" BY DEF Minted
    <3>5. \A u \in tags : IsVersion(u) /\ u.by # "release" => Less(u.version, runs[r].version)
      BY <1>1, <3>3 DEF VersionInv, ComputedTop
    <3> HIDE DEF new
    <3> QED BY <3>2, <3>4, <3>5
  <2>2. CASE TagRelease
    <3> DEFINE new == Minted(release.version, "release", release.commit)
    <3>1. tags' \subseteq tags \cup {new} BY <2>2 DEF TagRelease
    <3>2. new.version = release.version BY DEF Minted
    <3>3. \A u \in tags : IsVersion(u) => Less(u.version, release.version)
      BY <1>1, <2>2, LessOrder, TagVersion
         DEF VersionInv, ReleaseTop, TypeInv, ReleaseOK, TagRelease, Releasing
    <3> HIDE DEF new
    <3> QED BY <3>1, <3>2, <3>3
  <2>3. CASE tags' = tags BY <2>3
  <2>4. \/ \E r \in Merges : Tag(r)
        \/ TagRelease
        \/ tags' = tags
    BY <1>1 DEF Next, Step, Merge, Start, Test, Assign, Compute, Publish, JobFails, Rerun,
                Dispatch, ComputeRelease, PublishRelease, ReleaseFails
  <2> QED BY <2>1, <2>2, <2>3, <2>4
<1>2. ASSUME UNCHANGED vars PROVE Increase
  BY <1>2 DEF vars
<1>3. TypeInv /\ VersionInv /\ [Next]_vars => [Increase]_vars
  BY <1>1, <1>2
<1> QED BY <1>3, VersionsCorrect, PTL DEF Spec, VersionsIncrease

-----------------------------------------------------------------------------
(* Images *)

(* A release starts at zero, a merge never does: no image of the one is ever    *)
(* taken for an image of the other.                                             *)
Round(v) == v.maj = 0 /\ v.min = 0

TagsTold ==
  /\ \A t \in tags :
       t.by # "history" =>
         t.places = "three" /\ ~t.padded /\ (t.by = "release" <=> Round(t.version))
  /\ \A t, u \in tags :
       t.by = "merge" /\ u.by = "merge" /\ t.version = u.version => t.commit = u.commit

(* A run that has its tag, or is to go on from there, finds the tag of its      *)
(* version.                                                                     *)
Recorded(r, run, all) ==
  /\ run.pc = "computed" => ~Round(run.version)
  /\ run.resume = "tagged" => run.pc \in {"tagged", "waiting", "failed", "cancelled"}
  /\ run.pc = "tagged" \/ run.resume = "tagged" => Minted(run.version, "merge", r) \in all

RunsRecorded == \A r \in Merges : Recorded(r, runs[r], tags)

(* The version of a release under way has no tag, and the image that is there   *)
(* when it gets one is that of the release, whatever a release that failed has  *)
(* left.                                                                        *)
ReleaseAlone ==
  /\ Releasing => Round(release.version) /\ ~Exists(release.version)
  /\ release.pc = "tag" =>
       /\ \E i \in images : i.version = release.version
       /\ \A i \in images : i.version = release.version => i.commit = release.commit

ImagesBacked ==
  /\ \A i \in images :
       ~Round(i.version) =>
         \E t \in tags : t.by = "merge" /\ t.version = i.version /\ t.commit = i.commit
  /\ \A t \in tags :
       t.by = "release" =>
         /\ \E i \in images : i.version = t.version
         /\ \A i \in images : i.version = t.version => i.commit = t.commit

ImageInv == TagsTold /\ RunsRecorded /\ ReleaseAlone /\ ImagesBacked

LEMMA FollowingRound ==
  ASSUME NEW v \in Versions, NEW kind \in {"minor", "major", "release"}
  PROVE  Round(Following(kind, v)) <=> kind = "release"
<1>1. CASE kind = "minor"
  <2>1. Following(kind, v).min = v.min + 1 BY <1>1 DEF Following, Versions
  <2> QED BY <1>1, <2>1 DEF Round, Versions
<1>2. CASE kind = "major"
  <2>1. Following(kind, v) = [v EXCEPT !.maj = @ + 1, !.min = 0] BY <1>2 DEF Following
  <2>2. Following(kind, v).maj = v.maj + 1 BY <2>1 DEF Versions
  <2> QED BY <1>2, <2>2 DEF Round, Versions
<1>3. CASE kind = "release" BY <1>3 DEF Following, Round
<1> QED BY <1>1, <1>2, <1>3

LEMMA NextRound ==
  ASSUME DataOK, NEW kind \in {"minor", "major", "release"}, NEW v \in Next_version(kind)
  PROVE  v \in Versions /\ ~Exists(v) /\ (Round(v) <=> kind = "release")
<1>1. PICK l \in Latest : v = Following(kind, l) BY DEF Next_version
<1>2. l \in Versions BY LatestType
<1> QED BY <1>1, <1>2, FollowingType, FollowingRound DEF Next_version

LEMMA MintedParts ==
  ASSUME NEW v, NEW by, NEW commit
  PROVE  LET t == Minted(v, by, commit)
         IN  /\ t.version = v /\ t.by = by /\ t.commit = commit
             /\ t.places = "three" /\ ~t.padded
  BY DEF Minted

(* A tag that these runs have made is a tag of its version to git.             *)
LEMMA MadeExists ==
  ASSUME TagsTold, NEW t \in tags, t.by # "history"
  PROVE  Exists(t.version)
  BY DEF TagsTold, Exists, OfPlaces

(* What a run has recorded stays so while the tags only grow.                  *)
LEMMA RunsKept ==
  ASSUME TypeInv, RunsRecorded, tags \subseteq tags', NEW r \in Merges,
         Recorded(r, runs'[r], tags'),
         \A q \in Merges \ {r} :
            \/ runs'[q] = runs[q]
            \/ runs'[q] = [runs[q] EXCEPT !.pc = "cancelled"]
  PROVE  RunsRecorded'
<1> SUFFICES ASSUME NEW q \in Merges PROVE Recorded(q, runs'[q], tags')
  BY DEF RunsRecorded
<1>1. Recorded(q, runs[q], tags) /\ runs[q] \in Runs
  BY DEF RunsRecorded, TypeInv, RunsOK
<1>2. CASE q = r BY <1>2
<1>3. CASE q # r /\ runs'[q] = runs[q] BY <1>1, <1>3 DEF Recorded
<1>4. CASE q # r /\ runs'[q] = [runs[q] EXCEPT !.pc = "cancelled"]
  <2>1. /\ runs'[q].pc = "cancelled" /\ runs'[q].resume = runs[q].resume
        /\ runs'[q].version = runs[q].version
    BY <1>1, <1>4 DEF Runs
  <2> QED BY <1>1, <2>1 DEF Recorded
<1> QED BY <1>2, <1>3, <1>4

(* The steps of a run that makes neither a tag nor an image.                   *)
LEMMA WorkRecorded ==
  ASSUME TypeInv, RunsRecorded, tags' = tags, NEW r \in Merges,
         Start(r) \/ Test(r) \/ Assign(r) \/ Compute(r) \/ JobFails(r) \/ Rerun(r)
  PROVE  RunsRecorded'
<1>1. runs \in [Merges -> Runs] /\ runs[r] \in Runs /\ Recorded(r, runs[r], tags)
  BY DEF TypeInv, RunsOK, RunsRecorded
<1>2. ASSUME NEW run, runs' = [runs EXCEPT ![r] = run], Recorded(r, run, tags)
      PROVE  RunsRecorded'
  BY <1>1, <1>2, RunsKept
<1>3. ASSUME NEW job \in Jobs, Fail(r, job),
             job = "tagged" => runs[r].pc = "tagged",
             job # "tagged" => runs[r].pc # "tagged"
      PROVE  RunsRecorded'
  <2> DEFINE run == [runs[r] EXCEPT !.pc = "failed", !.resume = job]
  <2>1. runs' = [runs EXCEPT ![r] = run] BY <1>1, <1>3 DEF Fail
  <2>2. run.pc = "failed" /\ run.resume = job /\ run.version = runs[r].version
    BY <1>1 DEF Runs
  <2> HIDE DEF run
  <2>3. Recorded(r, run, tags) BY <1>1, <1>3, <2>2 DEF Recorded
  <2> QED BY <1>2, <2>1, <2>3
<1>4. ASSUME NEW pc, Goto(r, pc), pc \notin {"computed", "tagged"}, runs[r].resume # "tagged"
      PROVE  RunsRecorded'
  <2> DEFINE run == [runs[r] EXCEPT !.pc = pc]
  <2>1. runs' = [runs EXCEPT ![r] = run] BY <1>1, <1>4 DEF Goto
  <2>2. run.pc = pc /\ run.resume = runs[r].resume BY <1>1 DEF Runs
  <2> HIDE DEF run
  <2>3. Recorded(r, run, tags) BY <1>4, <2>2 DEF Recorded
  <2> QED BY <1>2, <2>1, <2>3
<1>5. CASE Start(r)
  <2>1. Goto(r, runs[r].resume) /\ runs[r].resume \in Jobs BY <1>1, <1>5 DEF Start, Runs
  <2>2. CASE runs[r].resume # "tagged" BY <1>4, <2>1, <2>2 DEF Jobs
  <2>3. CASE runs[r].resume = "tagged"
    <3> DEFINE run == [runs[r] EXCEPT !.pc = "tagged"]
    <3>1. runs' = [runs EXCEPT ![r] = run] BY <1>1, <2>1, <2>3 DEF Goto
    <3>2. run.pc = "tagged" /\ run.resume = "tagged" /\ run.version = runs[r].version
      BY <1>1, <2>3 DEF Runs
    <3> HIDE DEF run
    <3>3. Recorded(r, run, tags) BY <1>1, <2>3, <3>2 DEF Recorded
    <3> QED BY <1>2, <3>1, <3>3
  <2> QED BY <2>2, <2>3
<1>6. CASE Test(r) \/ Assign(r)
  <2>1. runs[r].resume # "tagged" BY <1>1, <1>6 DEF Test, Assign, Recorded
  <2> QED BY <1>4, <1>6, <2>1 DEF Test, Assign
<1>7. CASE Compute(r)
  <2>1. CASE Fail(r, "pending") BY <1>3, <1>7, <2>1 DEF Compute, Jobs
  <2>2. CASE \E v \in Next_version(Kind(runs[r].branch)) :
                runs' = [runs EXCEPT ![r].pc = "computed", ![r].version = v]
    <3>1. PICK v \in Next_version(Kind(runs[r].branch)) :
             runs' = [runs EXCEPT ![r].pc = "computed", ![r].version = v]
      BY <2>2
    <3> DEFINE run == [runs[r] EXCEPT !.pc = "computed", !.version = v]
    <3>2. ~Round(v) BY NextRound, KindType DEF TypeInv
    <3>3. runs[r].resume # "tagged" BY <1>1, <1>7 DEF Compute, Recorded
    <3>4. runs' = [runs EXCEPT ![r] = run] BY <1>1, <3>1
    <3>5. run.pc = "computed" /\ run.version = v /\ run.resume = runs[r].resume
      BY <1>1 DEF Runs
    <3> HIDE DEF run
    <3>6. Recorded(r, run, tags) BY <3>2, <3>3, <3>5 DEF Recorded
    <3> QED BY <1>2, <3>4, <3>6
  <2> QED BY <1>7, <2>1, <2>2 DEF Compute
<1>8. CASE JobFails(r)
  <2>1. CASE runs[r].pc = "tagged" /\ Fail(r, "tagged") BY <1>3, <2>1 DEF Jobs
  <2>2. CASE \E job \in {"testing", "pending"} : runs[r].pc # "tagged" /\ Fail(r, job)
    BY <1>3, <2>2 DEF Jobs
  <2> QED BY <1>8, <2>1, <2>2 DEF JobFails
<1>9. CASE Rerun(r)
  <2>1. PICK resume \in {"testing", runs[r].resume} :
           Wait(r, [runs[r] EXCEPT !.pc = "waiting", !.resume = resume])
    BY <1>9 DEF Rerun
  <2> DEFINE run == [runs[r] EXCEPT !.pc = "waiting", !.resume = resume]
  <2>2. run.pc = "waiting" /\ run.resume = resume /\ run.version = runs[r].version
    BY <1>1 DEF Runs
  <2>3. Wait(r, run) BY <2>1
  <2> HIDE DEF run
  <2>4. Recorded(r, run, tags) BY <1>1, <2>2 DEF Recorded
  <2>5. runs'[r] = run BY <2>3 DEF Wait
  <2>6. \A q \in Merges \ {r} : runs'[q] = runs[q] \/ runs'[q] = [runs[q] EXCEPT !.pc = "cancelled"]
    BY <2>3 DEF Wait
  <2> QED BY <2>4, <2>5, <2>6, RunsKept
<1> QED BY <1>5, <1>6, <1>7, <1>8, <1>9

LEMMA MergeRecorded ==
  ASSUME TypeInv, RunsRecorded, NEW branch \in Branches, Merge(branch)
  PROVE  RunsRecorded'
<1>1. PICK r \in Merges : r = used'.merges BY MergeMoves
<1> DEFINE run == [NoRun EXCEPT !.branch = branch, !.pc = "waiting"]
<1>2. Wait(r, run) /\ tags' = tags BY <1>1 DEF Merge
<1>3. run.pc = "waiting" /\ run.resume = "testing" BY DEF NoRun
<1> HIDE DEF run
<1>4. Recorded(r, run, tags) BY <1>3 DEF Recorded
<1>5. runs'[r] = run BY <1>2 DEF Wait
<1>6. \A q \in Merges \ {r} : runs'[q] = runs[q] \/ runs'[q] = [runs[q] EXCEPT !.pc = "cancelled"]
  BY <1>2 DEF Wait
<1> QED BY <1>2, <1>4, <1>5, <1>6, RunsKept

(* Nothing else is told of the tags and the images while they do not change.   *)
LEMMA QuietImages ==
  ASSUME ImageInv, tags' = tags, images' = images, RunsRecorded',
         \/ release' = release
         \/ release'.pc \notin {"publish", "tag"}
  PROVE  ImageInv'
<1>1. TagsTold' /\ ImagesBacked' BY DEF ImageInv, TagsTold, ImagesBacked
<1>2. CASE release' = release
  <2>1. ReleaseAlone' BY <1>2 DEF ImageInv, ReleaseAlone, Releasing, Exists, OfPlaces
  <2> QED BY <1>1, <2>1 DEF ImageInv
<1>3. CASE release'.pc \notin {"publish", "tag"}
  <2>1. ReleaseAlone' BY <1>3 DEF ReleaseAlone, Releasing
  <2> QED BY <1>1, <2>1 DEF ImageInv
<1> QED BY <1>2, <1>3

(* The tag of a merge is of a version that has no image yet.                   *)
LEMMA TagImages ==
  ASSUME TypeInv, ImageInv, NEW r \in Merges, Tag(r)
  PROVE  ImageInv'
<1>1. runs \in [Merges -> Runs] /\ runs[r] \in Runs /\ Recorded(r, runs[r], tags)
  BY DEF TypeInv, RunsOK, ImageInv, RunsRecorded
<1>2. images' = images /\ release' = release BY DEF Tag
<1>3. CASE Fail(r, "pending") /\ UNCHANGED tags
  <2> DEFINE run == [runs[r] EXCEPT !.pc = "failed", !.resume = "pending"]
  <2>1. runs'[r] = run /\ \A q \in Merges \ {r} : runs'[q] = runs[q]
    BY <1>1, <1>3 DEF Fail
  <2>2. run.pc = "failed" /\ run.resume = "pending" BY <1>1 DEF Runs
  <2> HIDE DEF run
  <2>3. Recorded(r, run, tags) BY <2>2 DEF Recorded
  <2>4. RunsRecorded' BY <1>3, <2>1, <2>3, RunsKept DEF ImageInv
  <2> QED BY <1>2, <1>3, <2>4, QuietImages
<1>4. CASE /\ ~Exists(runs[r].version)
           /\ tags' = tags \cup {Minted(runs[r].version, "merge", r)}
           /\ Goto(r, "tagged")
  <2> DEFINE v == runs[r].version
             new == Minted(v, "merge", r)
  <2>1. /\ new.version = v /\ new.by = "merge" /\ new.commit = r
        /\ new.places = "three" /\ ~new.padded
    BY MintedParts
  <2>2. tags' = tags \cup {new} /\ ~Exists(v) BY <1>4
  <2>3. ~Round(v) BY <1>1 DEF Tag, Recorded
  <2>4. RunsRecorded'
    <3> DEFINE run == [runs[r] EXCEPT !.pc = "tagged"]
    <3>1. runs'[r] = run /\ \A q \in Merges \ {r} : runs'[q] = runs[q]
      BY <1>1, <1>4 DEF Goto
    <3>2. run.pc = "tagged" /\ run.version = v BY <1>1 DEF Runs
    <3>3. new \in tags' BY <2>2
    <3> HIDE DEF run, v
    <3>4. Recorded(r, run, tags') BY <3>2, <3>3 DEF Recorded
    <3> QED BY <2>2, <3>1, <3>4, RunsKept DEF ImageInv
  <2> HIDE DEF v, new
  <2>5. \A t \in tags : t.by # "history" => t.version # v
    BY <2>2, MadeExists DEF ImageInv
  <2>6. TagsTold' BY <2>1, <2>2, <2>3, <2>5 DEF ImageInv, TagsTold
  <2>7. ImagesBacked' BY <1>2, <2>1, <2>2 DEF ImageInv, ImagesBacked
  <2>8. ReleaseAlone'
    <3>1. Releasing => release.version # v BY <2>3 DEF ImageInv, ReleaseAlone
    <3>2. \A w : Exists(w)' => Exists(w) \/ w = v BY <2>1, <2>2 DEF Exists, OfPlaces
    <3>3. Releasing' => Round(release.version) /\ ~Exists(release.version)'
      BY <1>2, <3>1, <3>2 DEF ImageInv, ReleaseAlone, Releasing
    <3> QED BY <1>2, <3>3 DEF ImageInv, ReleaseAlone, Releasing
  <2> QED BY <2>4, <2>6, <2>7, <2>8 DEF ImageInv
<1> QED BY <1>3, <1>4 DEF Tag

(* A run publishes under its tag, and its version is no release's.             *)
LEMMA PublishImages ==
  ASSUME TypeInv, ImageInv, NEW r \in Merges, Publish(r)
  PROVE  ImageInv'
<1>1. runs \in [Merges -> Runs] /\ runs[r] \in Runs /\ Recorded(r, runs[r], tags)
  BY DEF TypeInv, RunsOK, ImageInv, RunsRecorded
<1> DEFINE v == runs[r].version
           t == Minted(v, "merge", r)
           new == [version |-> v, commit |-> r]
           run == [runs[r] EXCEPT !.pc = "done", !.resume = "testing"]
<1>2. tags' = tags /\ release' = release BY DEF Publish
<1>3. t \in tags BY <1>1 DEF Publish, Recorded
<1>4. t.version = v /\ t.by = "merge" /\ t.commit = r BY MintedParts
<1>5. images' = {i \in images : i.version # v} \cup {new} BY DEF Publish, Push
<1>6. new.version = v /\ new.commit = r OBVIOUS
<1>7. RunsRecorded'
  <2>1. runs'[r] = run /\ \A q \in Merges \ {r} : runs'[q] = runs[q] BY <1>1 DEF Publish
  <2>2. run.pc = "done" /\ run.resume = "testing" BY <1>1 DEF Runs
  <2> HIDE DEF run
  <2>3. Recorded(r, run, tags) BY <2>2 DEF Recorded
  <2> QED BY <1>2, <2>1, <2>3, RunsKept DEF ImageInv
<1> HIDE DEF v, t, new, run
<1>8. ~Round(v) BY <1>3, <1>4 DEF ImageInv, TagsTold
<1>9. \A i : i.version # v => (i \in images' <=> i \in images) BY <1>5, <1>6
<1>10. TagsTold' BY <1>2 DEF ImageInv, TagsTold
<1>11. ReleaseAlone'
  <2>1. Releasing => release.version # v BY <1>8 DEF ImageInv, ReleaseAlone
  <2>2. release.pc = "tag" => release.version # v BY <2>1 DEF Releasing
  <2> QED
    BY <1>2, <1>9, <2>2 DEF ImageInv, ReleaseAlone, Releasing, Exists, OfPlaces
<1>12. ImagesBacked'
  <2>1. ASSUME NEW i \in images', ~Round(i.version)
        PROVE  \E u \in tags' : u.by = "merge" /\ u.version = i.version /\ u.commit = i.commit
    <3>1. CASE i = new BY <1>2, <1>3, <1>4, <1>6, <3>1
    <3>2. CASE i \in images BY <1>2, <2>1, <3>2 DEF ImageInv, ImagesBacked
    <3> QED BY <1>5, <3>1, <3>2
  <2>2. ASSUME NEW u \in tags', u.by = "release"
        PROVE  /\ \E i \in images' : i.version = u.version
               /\ \A i \in images' : i.version = u.version => i.commit = u.commit
    <3>1. u \in tags /\ u.version # v
      BY <1>2, <1>8, <2>2 DEF ImageInv, TagsTold
    <3> QED BY <1>9, <2>2, <3>1 DEF ImageInv, ImagesBacked
  <2> QED BY <2>1, <2>2 DEF ImagesBacked
<1> QED BY <1>7, <1>10, <1>11, <1>12 DEF ImageInv

(* A release publishes under a version that has no tag, over what is there.    *)
LEMMA PublishReleaseImages ==
  ASSUME TypeInv, ImageInv, PublishRelease
  PROVE  ImageInv'
<1> DEFINE v == release.version
           new == [version |-> v, commit |-> release.commit]
<1>1. tags' = tags /\ runs' = runs BY DEF PublishRelease
<1>2. images' = {i \in images : i.version # v} \cup {new} BY DEF PublishRelease, Push
<1>3. new.version = v /\ new.commit = release.commit OBVIOUS
<1>4. Releasing BY DEF PublishRelease, Releasing
<1>5. release'.pc = "tag" /\ release'.version = v /\ release'.commit = release.commit
  BY DEF PublishRelease, AfterRelease, ReleaseOrder, TypeInv, ReleaseOK
<1>6. Round(v) /\ ~Exists(v) BY <1>4 DEF ImageInv, ReleaseAlone
<1>7. \A t \in tags : t.by # "history" => t.version # v
  BY <1>6, MadeExists DEF ImageInv
<1> HIDE DEF v, new
<1>8. \A i : i.version # v => (i \in images' <=> i \in images) BY <1>2, <1>3
<1>9. TagsTold' BY <1>1 DEF ImageInv, TagsTold
<1>10. RunsRecorded' BY <1>1 DEF ImageInv, RunsRecorded
<1>11. ReleaseAlone'
  <2>1. \A i \in images' : i.version = v => i = new BY <1>2
  <2>2. new \in images' BY <1>2
  <2>3. ~Exists(release.version)' BY <1>1, <1>5, <1>6 DEF Exists, OfPlaces
  <2> QED BY <1>3, <1>5, <1>6, <2>1, <2>2, <2>3 DEF ReleaseAlone
<1>12. ImagesBacked'
  <2>1. ASSUME NEW i \in images', ~Round(i.version)
        PROVE  \E u \in tags' : u.by = "merge" /\ u.version = i.version /\ u.commit = i.commit
    <3>1. i \in images BY <1>2, <1>3, <1>6, <2>1
    <3> QED BY <1>1, <2>1, <3>1 DEF ImageInv, ImagesBacked
  <2>2. ASSUME NEW u \in tags', u.by = "release"
        PROVE  /\ \E i \in images' : i.version = u.version
               /\ \A i \in images' : i.version = u.version => i.commit = u.commit
    <3>1. u \in tags /\ u.version # v BY <1>1, <1>7, <2>2
    <3> QED BY <1>8, <2>2, <3>1 DEF ImageInv, ImagesBacked
  <2> QED BY <2>1, <2>2 DEF ImagesBacked
<1> QED BY <1>9, <1>10, <1>11, <1>12 DEF ImageInv

(* The tag of a release finds the image it has published.                      *)
LEMMA TagReleaseImages ==
  ASSUME TypeInv, ImageInv, TagRelease
  PROVE  ImageInv'
<1> DEFINE v == release.version
           new == Minted(v, "release", release.commit)
<1>1. images' = images /\ runs' = runs /\ tags' = tags \cup {new} BY DEF TagRelease
<1>2. /\ new.version = v /\ new.by = "release" /\ new.commit = release.commit
      /\ new.places = "three" /\ ~new.padded
  BY MintedParts
<1>3. Round(v) /\ /\ \E i \in images : i.version = v
                  /\ \A i \in images : i.version = v => i.commit = release.commit
  BY DEF TagRelease, ImageInv, ReleaseAlone, Releasing
<1>4. release'.pc = "idle"
  BY DEF TagRelease, AfterRelease, ReleaseOrder, NoRelease
<1> HIDE DEF v, new
<1>5. TagsTold' BY <1>1, <1>2, <1>3 DEF ImageInv, TagsTold
<1>6. RunsRecorded'
  <2> SUFFICES ASSUME NEW r \in Merges PROVE Recorded(r, runs'[r], tags')
    BY DEF RunsRecorded
  <2> QED BY <1>1 DEF ImageInv, RunsRecorded, Recorded
<1>7. ReleaseAlone' BY <1>4 DEF ReleaseAlone, Releasing
<1>8. ImagesBacked' BY <1>1, <1>2, <1>3 DEF ImageInv, ImagesBacked
<1> QED BY <1>5, <1>6, <1>7, <1>8 DEF ImageInv

LEMMA ComputeReleaseImages ==
  ASSUME TypeInv, ImageInv, ComputeRelease
  PROVE  ImageInv'
<1>1. tags' = tags /\ images' = images /\ runs' = runs BY DEF ComputeRelease
<1>2. RunsRecorded' BY <1>1 DEF ImageInv, RunsRecorded
<1>3. CASE release' = NoRelease BY <1>1, <1>2, <1>3, QuietImages DEF NoRelease
<1>4. CASE \E v \in Next_version("release") :
              release' = [release EXCEPT !.pc = ReleaseOrder[1], !.version = v]
  <2>1. PICK v \in Next_version("release") :
           release' = [release EXCEPT !.pc = ReleaseOrder[1], !.version = v]
    BY <1>4
  <2>2. Round(v) /\ ~Exists(v) BY NextRound DEF TypeInv
  <2>3. release'.pc = "publish" /\ release'.version = v
    BY <2>1 DEF ReleaseOrder, TypeInv, ReleaseOK
  <2>4. ~Exists(release.version)' BY <1>1, <2>2, <2>3 DEF Exists, OfPlaces
  <2>5. ReleaseAlone' BY <2>2, <2>3, <2>4 DEF ReleaseAlone
  <2>6. TagsTold' /\ ImagesBacked' BY <1>1 DEF ImageInv, TagsTold, ImagesBacked
  <2> QED BY <1>2, <2>5, <2>6 DEF ImageInv
<1> QED BY <1>3, <1>4 DEF ComputeRelease

LEMMA NextImages ==
  ASSUME TypeInv, ImageInv, Next
  PROVE  ImageInv'
<1>1. ASSUME NEW r \in Merges,
             Start(r) \/ Test(r) \/ Assign(r) \/ Compute(r) \/ JobFails(r) \/ Rerun(r)
      PROVE  ImageInv'
  <2>1. tags' = tags /\ images' = images /\ release' = release
    BY <1>1 DEF Start, Test, Assign, Compute, JobFails, Rerun
  <2>2. RunsRecorded' BY <1>1, <2>1, WorkRecorded DEF ImageInv
  <2> QED BY <2>1, <2>2, QuietImages
<1>2. ASSUME NEW b \in Branches, Merge(b) PROVE ImageInv'
  <2>1. RunsRecorded' BY <1>2, MergeRecorded DEF ImageInv
  <2> QED BY <1>2, <2>1, QuietImages DEF Merge
<1>3. CASE Dispatch \/ ReleaseFails
  <2>1. tags' = tags /\ images' = images /\ runs' = runs BY <1>3 DEF Dispatch, ReleaseFails
  <2>2. release'.pc \notin {"publish", "tag"}
    <3>1. CASE Dispatch BY <3>1 DEF Dispatch, NoRelease
    <3>2. CASE ReleaseFails BY <3>2 DEF ReleaseFails, NoRelease
    <3> QED BY <1>3, <3>1, <3>2
  <2>3. RunsRecorded' BY <2>1 DEF ImageInv, RunsRecorded
  <2> QED BY <2>1, <2>2, <2>3, QuietImages
<1> QED
  BY <1>1, <1>2, <1>3, TagImages, PublishImages, PublishReleaseImages, TagReleaseImages,
     ComputeReleaseImages DEF Next, Step

LEMMA ImagesCorrect == Spec => []ImageInv
<1>1. Init => ImageInv
  <2> SUFFICES ASSUME Init PROVE ImageInv OBVIOUS
  <2>1. \A t \in tags : t.by = "history" BY HistoriesAssumption DEF Init
  <2>2. TagsTold BY <2>1 DEF TagsTold
  <2>3. \A r \in Merges : runs[r].pc = "none" /\ runs[r].resume = "testing"
    BY DEF Init, NoRun
  <2>4. RunsRecorded BY <2>3 DEF RunsRecorded, Recorded
  <2>5. ReleaseAlone BY DEF Init, NoRelease, ReleaseAlone, Releasing
  <2>6. ImagesBacked BY <2>1 DEF Init, ImagesBacked
  <2> QED BY <2>2, <2>4, <2>5, <2>6 DEF ImageInv
<1>2. ASSUME ImageInv, UNCHANGED vars PROVE ImageInv'
  <2>1. RunsRecorded' BY <1>2 DEF vars, ImageInv, RunsRecorded
  <2> QED BY <1>2, <2>1, QuietImages DEF vars
<1>3. TypeInv /\ ImageInv /\ [Next]_vars => ImageInv'
  BY <1>2, NextImages
<1> QED BY <1>1, <1>3, InvCorrect, PTL DEF Spec

(* Whatever the history, and in any order of merges, releases, failures and    *)
(* re-runs: an image is of the commit its tag names, and a release that has a  *)
(* tag has an image (ci.yml, docker-publish; release.yml, the order of its      *)
(* jobs).                                                                      *)
THEOREM ImagesAsTagged == Spec => []ImagesFaithful
<1>1. TypeInv /\ ImageInv => ImagesFaithful
  <2> SUFFICES ASSUME TypeInv, ImageInv, NEW t \in tags
               PROVE  /\ \A i \in images :
                           t.places = "three" /\ t.by # "history" /\ i.version = t.version
                             => i.commit = t.commit
                      /\ t.by = "release" => \E i \in images : i.version = t.version
    BY DEF ImagesFaithful
  <2>1. t.by = "release" => \E i \in images : i.version = t.version
    BY DEF ImageInv, ImagesBacked
  <2>2. ASSUME NEW i \in images, t.by # "history", i.version = t.version
        PROVE  i.commit = t.commit
    <3>1. CASE t.by = "release" BY <2>2, <3>1 DEF ImageInv, ImagesBacked
    <3>2. CASE t.by = "merge"
      <4>1. ~Round(i.version) BY <2>2, <3>2 DEF ImageInv, TagsTold
      <4>2. PICK u \in tags : u.by = "merge" /\ u.version = i.version /\ u.commit = i.commit
        BY <4>1 DEF ImageInv, ImagesBacked
      <4> QED BY <2>2, <3>2, <4>2 DEF ImageInv, TagsTold
    <3>3. t.by \in {"history", "merge", "release"} BY DEF TypeInv, DataOK, Tags
    <3> QED BY <2>2, <3>1, <3>2, <3>3
  <2> QED BY <2>1, <2>2
<1> QED BY <1>1, InvCorrect, ImagesCorrect, PTL
=============================================================================
