--------------------------- MODULE ReleaseVersions ---------------------------
(***************************************************************************)
(* How versions come about.  hack/next-version.sh computes the next one    *)
(* from the tags; each merge into develop or main runs CI, which tags and  *)
(* then publishes an image; a release is dispatched by hand, publishes an  *)
(* image and then tags.  Runs of one workflow wait for one another in      *)
(* concurrency groups; CI and the release do not.                          *)
(***************************************************************************)
EXTENDS Naturals

CONSTANTS
  Histories,   \* the sets of v* tags there may be before the first of these runs
  MaxMerges,   \* bound: merges into develop and main
  MaxReleases, \* bound: dispatches of the release workflow
  MaxFailures, \* bound: steps that fail
  MaxReruns    \* bound: runs that somebody starts again

Branches == {"develop", "main"}
Versions == [rel : Nat, maj : Nat, min : Nat]

(* places: vR.M.m, the earlier vM.m (read as R.M), or something else; padded: *)
(* the numbers are written with a leading zero.                                *)
Tags == [version : Versions, places : {"three", "two", "other"}, padded : BOOLEAN,
         by : {"history", "merge", "release"}, commit : Nat]

ASSUME HistoriesAssumption ==
  \A history \in Histories : history \subseteq {t \in Tags : t.by = "history"}
ASSUME BoundsAssumption == {MaxMerges, MaxReleases, MaxFailures, MaxReruns} \subseteq Nat

VARIABLES
  tags,     \* the v* tags of the repository
  images,   \* the images on Docker Hub that have a version for a tag
  runs,     \* the CI runs; run and commit of a merge have the same number
  holder,   \* the run whose version job is under way, or 0
  release,  \* the release workflow
  used      \* how much of each bound is used up

vars == <<tags, images, runs, holder, release, used>>

Merges == 1 .. MaxMerges

Less(v, w) ==
  \/ v.rel < w.rel
  \/ v.rel = w.rel /\ v.maj < w.maj
  \/ v.rel = w.rel /\ v.maj = w.maj /\ v.min < w.min

-----------------------------------------------------------------------------
(* next-version.sh *)

(* Mutation: a number with a leading zero is octal. *)
Octal(tag) ==
  LET read(n) == IF tag.padded THEN 8 * (n \div 10) + (n % 10) ELSE n
  IN  [rel |-> read(tag.version.rel), maj |-> read(tag.version.maj), min |-> read(tag.version.min)]

Decimal(tag) == tag.version

OfPlaces(places) == {t \in tags : t.places = places}

(* Three places come first, whatever their values. *)
Candidates == IF OfPlaces("three") # {} THEN OfPlaces("three") ELSE OfPlaces("two")

(* Empty when there are tags and none is a version: the script refuses then.  *)
Latest ==
  IF tags = {} THEN {[rel |-> 0, maj |-> 0, min |-> 0]}
  ELSE {Decimal(t) : t \in {t \in Candidates : \A u \in Candidates : ~Less(t.version, u.version)}}

Following(kind, v) ==
  CASE kind = "minor"   -> [v EXCEPT !.min = @ + 1]
    [] kind = "major"   -> [v EXCEPT !.maj = @ + 1, !.min = 0]
    [] kind = "release" -> [rel |-> v.rel + 1, maj |-> 0, min |-> 0]

(* A tag of just this name; one with leading zeros has another. *)
Exists(v) == \E t \in OfPlaces("three") : t.version = v /\ ~t.padded

Next_version(kind) == {v \in {Following(kind, l) : l \in Latest} : ~Exists(v)}

Minted(v, by, commit) ==
  [version |-> v, places |-> "three", padded |-> FALSE, by |-> by, commit |-> commit]

Push(v, commit) == images' = {i \in images : i.version # v} \cup {[version |-> v, commit |-> commit]}

-----------------------------------------------------------------------------
(* Runs of CI *)

NoVersion == [rel |-> 0, maj |-> 0, min |-> 0]

(* waiting: in the group of its branch, to go on at resume; testing: the jobs  *)
(* the version job needs; pending: in the group version-assign.                *)
Active == {"testing", "pending", "assigning", "computed", "tagged"}
Ended == {"done", "failed", "cancelled"}
Jobs == {"testing", "pending", "tagged"}
Runs == [branch : Branches, pc : {"none", "waiting"} \cup Active \cup Ended,
         resume : Jobs, version : Versions]

NoRun == [branch |-> "develop", pc |-> "none", resume |-> "testing", version |-> NoVersion]
NoRelease == [pc |-> "idle", version |-> NoVersion, commit |-> 0]

Init ==
  /\ tags \in Histories /\ images = {}
  /\ runs = [r \in Merges |-> NoRun]
  /\ holder = 0
  /\ release = NoRelease
  /\ used = [merges |-> 0, releases |-> 0, failures |-> 0, reruns |-> 0]

Spend(bound, max) == used[bound] < max /\ used' = [used EXCEPT ![bound] = @ + 1]

(* A group keeps one run waiting: a newer one cancels it. *)
Wait(r, run) ==
  runs' = [q \in Merges |->
             IF q = r THEN run
             ELSE IF runs[q].pc = "waiting" /\ runs[q].branch = run.branch
                  THEN [runs[q] EXCEPT !.pc = "cancelled"] ELSE runs[q]]

Merge(branch) ==
  /\ Spend("merges", MaxMerges)
  /\ Wait(used'.merges, [NoRun EXCEPT !.branch = branch, !.pc = "waiting"])
  /\ UNCHANGED <<tags, images, holder, release>>

(* "Re-run all jobs", or the failed ones and what depends on them. *)
Rerun(r) ==
  /\ Spend("reruns", MaxReruns)
  /\ runs[r].pc \in Ended
  /\ \E resume \in {"testing", runs[r].resume} :
        Wait(r, [runs[r] EXCEPT !.pc = "waiting", !.resume = resume])
  /\ UNCHANGED <<tags, images, holder, release>>

(* Mutations: the branch, the version job, are not serialised. *)
BranchAlwaysFree(branch) == branch \in Branches
NeverHeld == TRUE

BranchFree(branch) ==
  \A q \in Merges : ~(runs[q].branch = branch /\ runs[q].pc \in Active)
NotHeld == holder = 0

Goto(r, pc) == runs' = [runs EXCEPT ![r].pc = pc]

Start(r) ==
  /\ runs[r].pc = "waiting" /\ BranchFree(runs[r].branch)
  /\ Goto(r, runs[r].resume)
  /\ UNCHANGED <<tags, images, holder, release, used>>

Test(r) ==
  /\ runs[r].pc = "testing"
  /\ Goto(r, "pending")
  /\ UNCHANGED <<tags, images, holder, release, used>>

Assign(r) ==
  /\ runs[r].pc = "pending" /\ NotHeld
  /\ holder' = r
  /\ Goto(r, "assigning")
  /\ UNCHANGED <<tags, images, release, used>>

Kind(branch) == IF branch = "develop" THEN "minor" ELSE "major"

(* Mutation: a job that fails goes on holding its group. *)
FailHolding(r, job) ==
  /\ runs' = [runs EXCEPT ![r].pc = "failed", ![r].resume = job]
  /\ UNCHANGED holder
Fail(r, job) ==
  /\ runs' = [runs EXCEPT ![r].pc = "failed", ![r].resume = job]
  /\ holder' = IF holder = r THEN 0 ELSE holder

Compute(r) ==
  /\ runs[r].pc = "assigning"
  /\ LET next == Next_version(Kind(runs[r].branch))
     IN  \/ \E v \in next : runs' = [runs EXCEPT ![r].pc = "computed", ![r].version = v]
                            /\ UNCHANGED holder
         \/ next = {} /\ Fail(r, "pending")
  /\ UNCHANGED <<tags, images, release, used>>

(* git refuses to push a tag that is there. *)
Tag(r) ==
  /\ runs[r].pc = "computed"
  /\ \/ /\ ~Exists(runs[r].version)
        /\ tags' = tags \cup {Minted(runs[r].version, "merge", r)}
        /\ Goto(r, "tagged") /\ holder' = 0
     \/ Exists(runs[r].version) /\ Fail(r, "pending") /\ UNCHANGED tags
  /\ UNCHANGED <<images, release, used>>

Publish(r) ==
  /\ runs[r].pc = "tagged"
  /\ Push(runs[r].version, r)
  /\ runs' = [runs EXCEPT ![r].pc = "done", ![r].resume = "testing"]
  /\ UNCHANGED <<tags, holder, release, used>>

(* A job fails: tests, the version job, or the publication. *)
JobFails(r) ==
  /\ Spend("failures", MaxFailures)
  /\ \/ runs[r].pc = "testing" /\ Fail(r, "testing")
     \/ runs[r].pc \in {"assigning", "computed"} /\ Fail(r, "pending")
     \/ runs[r].pc = "tagged" /\ Fail(r, "tagged")
  /\ UNCHANGED <<tags, images, release>>

-----------------------------------------------------------------------------
(* The release workflow, one run at a time *)

(* From main, at the commit it had when somebody dispatched the run. *)
Dispatch ==
  /\ release.pc = "idle"
  /\ Spend("releases", MaxReleases)
  /\ \E c \in {r \in Merges : runs[r].branch = "main" /\ runs[r].pc # "none"} \cup {0} :
        release' = [NoRelease EXCEPT !.pc = "compute", !.commit = c]
  /\ UNCHANGED <<tags, images, runs, holder>>

(* Mutation: the tag first, the image when it is there. *)
ReleaseOrderTagFirst == <<"tag", "publish">>
ReleaseOrder == <<"publish", "tag">>

ComputeRelease ==
  /\ release.pc = "compute"
  /\ LET next == Next_version("release")
     IN  \/ \E v \in next : release' = [release EXCEPT !.pc = ReleaseOrder[1], !.version = v]
         \/ next = {} /\ release' = NoRelease
  /\ UNCHANGED <<tags, images, runs, holder, used>>

AfterRelease(pc) ==
  IF pc = ReleaseOrder[1] THEN [release EXCEPT !.pc = ReleaseOrder[2]] ELSE NoRelease

PublishRelease ==
  /\ release.pc = "publish"
  /\ Push(release.version, release.commit)
  /\ release' = AfterRelease("publish")
  /\ UNCHANGED <<tags, runs, holder, used>>

TagRelease ==
  /\ release.pc = "tag"
  /\ tags' = tags \cup {Minted(release.version, "release", release.commit)}
  /\ release' = AfterRelease("tag")
  /\ UNCHANGED <<images, runs, holder, used>>

ReleaseFails ==
  /\ release.pc # "idle"
  /\ Spend("failures", MaxFailures)
  /\ release' = NoRelease
  /\ UNCHANGED <<tags, images, runs, holder>>

-----------------------------------------------------------------------------
Step(r) == Start(r) \/ Test(r) \/ Assign(r) \/ Compute(r) \/ Tag(r) \/ Publish(r)

Next ==
  \/ \E b \in Branches : Merge(b)
  \/ \E r \in Merges : Step(r) \/ JobFails(r) \/ Rerun(r)
  \/ Dispatch \/ ComputeRelease \/ PublishRelease \/ TagRelease \/ ReleaseFails

(* Runners take the jobs that may run; nobody is obliged to merge, to release  *)
(* or to start a run again.                                                    *)
Spec == Init /\ [][Next]_vars /\ \A r \in Merges : WF_vars(Step(r))

-----------------------------------------------------------------------------
(* Properties *)

(* The variables have their types, and the groups hold back what they should:  *)
(* one version job at a time, and no two waiting for it, so that version-assign *)
(* never cancels a run (its comment expects that it may).                      *)
TypeOK ==
  /\ tags \subseteq Tags
  /\ images \subseteq [version : Versions, commit : Nat]
  /\ runs \in [Merges -> Runs]
  /\ holder \in Merges \cup {0}
  /\ \A r \in Merges : runs[r].pc \in {"assigning", "computed"} <=> holder = r
  /\ holder # 0 => \A r, q \in Merges : runs[r].pc = "pending" /\ runs[q].pc = "pending" => r = q
  /\ release \in [pc : {"idle", "compute", "publish", "tag"}, version : Versions, commit : Nat]
  /\ used \in [merges : Nat, releases : Nat, failures : Nat, reruns : Nat]

IsVersion(t) == t.places \in {"three", "two"}

(* A tag sorts above everything there was when it is made, except that a merge *)
(* may have been overtaken by a release, which takes no part in version-assign *)
(* (ci.yml: "two runs computing the next version concurrently would race").    *)
VersionsIncrease ==
  [][\A t \in tags' \ tags, u \in tags :
       IsVersion(u) /\ ~(t.by = "merge" /\ u.by = "release") => Less(u.version, t.version)]_vars

(* "No new tag ever sorts below an image already on Docker Hub"                *)
(* (next-version.sh): not below what the earlier scheme left, however it was   *)
(* written.                                                                    *)
AboveHistory ==
  \A t, u \in tags :
    t.by # "history" /\ u.by = "history" /\ IsVersion(u) => Less(u.version, t.version)

(* An image is what its tag says, although CI tags first and a release last;   *)
(* and a release that has a tag has an image (release.yml: the tag must not    *)
(* "stand with nothing behind it").                                            *)
ImagesFaithful ==
  \A t \in tags :
    /\ \A i \in images :
         t.places = "three" /\ t.by # "history" /\ i.version = t.version => i.commit = t.commit
    /\ t.by = "release" => \E i \in images : i.version = t.version

(* A run that waits for its branch comes to an end, one way or another: no     *)
(* group is held for ever, whatever fails.                                     *)
RunsEnd == \A r \in Merges : runs[r].pc = "waiting" ~> runs[r].pc \in Ended
=============================================================================
