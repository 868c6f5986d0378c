----------------------- MODULE NamespaceHoldingProofs -------------------------
(* Which namespaces an environment comes to hold, under what record, and how  *)
(* the controller implements EnvironmentLease.  The theorems build on         *)
(* RecordCorrect and assume nothing about how far the caches lag, what users  *)
(* do to spec.namespaceName or what others do to the namespaces.              *)
EXTENDS NamespaceLifecycleProofs

(* An absent namespace has no labels and no deletion mark. *)
AbsentOK == \A n \in Namespaces : ~Namespace(n).present => Namespace(n) = NoNamespace

(* What a step may do to one namespace. *)
Appears(n) == ~Namespace(n).present /\ Namespace(n)' = Foreign /\ stray' = stray
Ends1(n) == FinishTermination(n) /\ Namespace(n)' = NoNamespace
Doomed(n) ==
  /\ Namespace(n).present /\ (Tamper \/ Namespace(n).environment = Nobody)
  /\ Namespace(n)' = [Namespace(n) EXCEPT !.terminating = TRUE] /\ stray' = stray
Stripped(n) ==
  /\ StripLabels(n) /\ Namespace(n).present
  /\ Namespace(n)' = [Namespace(n) EXCEPT !.environment = Nobody, !.owner = Unset]
Created(n) ==
  /\ CreateNamespace /\ n = Target /\ ~Namespace(n).present
  /\ Namespace(n)' = [present |-> TRUE, terminating |-> FALSE,
                      environment |-> worker.env, owner |-> Seen.owner]
Patched(n) ==
  /\ PatchNamespace /\ n = Target /\ Namespace(n).present
  /\ Namespace(n)' = [Namespace(n) EXCEPT !.owner = Namespace(n)'.owner]
Deleted(n) ==
  /\ DeleteNamespace /\ n = Target /\ Namespace(n).present
  /\ Namespace(n)' = [Namespace(n) EXCEPT !.terminating = TRUE]

Change(n) ==
  \/ Namespace(n)' = Namespace(n)
  \/ Appears(n) \/ Ends1(n) \/ Doomed(n) \/ Stripped(n)
  \/ Created(n) \/ Patched(n) \/ Deleted(n)

LEMMA NamespaceSame ==
  ASSUME UNCHANGED nsLog, NEW n \in Namespaces
  PROVE  Namespace(n)' = Namespace(n)
BY DEF Namespace

LEMMA OthersChange ==
  ASSUME TypeOK, NEW m \in Namespaces, OthersWrite(m), NEW n \in Namespaces
  PROVE  Change(n)
<1>1. LogsOK /\ Namespace(m) \in NamespaceObjects
  BY TypeParts, NamespaceType
<1>2. Foreign \in NamespaceObjects /\ NoNamespace \in NamespaceObjects
  BY DEF Foreign, NoNamespace, NamespaceObjects
<1>3. CASE ForeignCreate(m)
  BY <1>1, <1>2, <1>3, NamespaceWritten DEF ForeignCreate, Outside, Change, Appears
<1>4. CASE ForeignDelete(m)
  <2>1. [Namespace(m) EXCEPT !.terminating = TRUE] \in NamespaceObjects
    BY <1>1 DEF NamespaceObjects
  <2> QED
    BY <1>1, <1>4, <2>1, NamespaceWritten DEF ForeignDelete, Outside, Change, Doomed
<1>5. CASE StripLabels(m)
  <2>1. [Namespace(m) EXCEPT !.environment = Nobody, !.owner = Unset] \in NamespaceObjects
    BY <1>1 DEF NamespaceObjects
  <2> QED
    BY <1>1, <1>5, <2>1, NamespaceWritten DEF StripLabels, Outside, Change, Stripped
<1>6. CASE FinishTermination(m)
  BY <1>1, <1>2, <1>6, NamespaceWritten DEF FinishTermination, Change, Ends1
<1> QED
  BY <1>3, <1>4, <1>5, <1>6 DEF OthersWrite, OutsiderActs

LEMMA TargetChange ==
  ASSUME TypeOK, AbsentOK, PatchInv, WritesTarget, NEW n \in Namespaces
  PROVE  Change(n)
<1>1. /\ LogsOK /\ WorkerOK /\ worker.env \in Envs /\ Seen \in Records /\ Target \in Namespaces
      /\ Namespace(Target) \in NamespaceObjects
  BY TypeParts, TargetType, NamespaceType
     DEF WritesTarget, CreateNamespace, PatchNamespace, DeleteNamespace, At, WorkerOK
<1>2. ASSUME NEW ns \in NamespaceObjects, WriteNamespace(Target, ns)
      PROVE  /\ n # Target => Namespace(n)' = Namespace(n)
             /\ n = Target => Namespace(n)' = ns
  <2>1. PICK t \in Namespaces : t = Target
    BY <1>1
  <2> QED
    BY <1>1, <1>2, <2>1, NamespaceWritten
<1>3. CASE CreateNamespace
  <2> DEFINE new == [present |-> TRUE, terminating |-> FALSE,
                     environment |-> worker.env, owner |-> Seen.owner]
  <2>1. new \in NamespaceObjects
    BY <1>1 DEF NamespaceObjects, Records
  <2>2. WriteNamespace(Target, IF Namespace(Target).present THEN Namespace(Target) ELSE new)
    BY <1>3 DEF CreateNamespace, labels
  <2>3. CASE Namespace(Target).present
    BY <1>1, <1>2, <2>2, <2>3 DEF Change
  <2>4. CASE ~Namespace(Target).present
    BY <1>2, <1>3, <2>1, <2>2, <2>4 DEF Change, Created
  <2> QED
    BY <2>3, <2>4
<1>4. CASE PatchNamespace
  <2> DEFINE seen == nsLog[Target][worker.nsrv]
             patched == MergePatch(seen, labels(worker.env, Seen), Namespace(Target))
  <2>1. seen \in NamespaceObjects /\ seen.environment = worker.env
    BY <1>1, <1>4 DEF PatchNamespace, WorkerOK, LogsOK, PatchInv, owns
  <2>2. patched \in NamespaceObjects
    BY <1>1, <2>1, MergePatchType
  <2>3. patched = [Namespace(Target) EXCEPT !.owner = patched.owner]
    BY <1>1, <2>1 DEF MergePatch, labels, NamespaceObjects
  <2> HIDE DEF patched
  <2>4. \/ UNCHANGED nsLog
        \/ Namespace(Target).present /\ WriteNamespace(Target, patched)
    BY <1>4 DEF PatchNamespace, patched
  <2> QED
    BY <1>2, <1>4, <2>2, <2>3, <2>4, NamespaceSame DEF Change, Patched
<1>5. CASE DeleteNamespace
  <2>1. CASE Namespace(Target).present
    <3>1. [Namespace(Target) EXCEPT !.terminating = Namespace(Target).present] \in NamespaceObjects
      BY <1>1 DEF NamespaceObjects
    <3>2. [Namespace(Target) EXCEPT !.terminating = Namespace(Target).present]
            = [Namespace(Target) EXCEPT !.terminating = TRUE]
      BY <1>1, <2>1 DEF NamespaceObjects
    <3> QED
      BY <1>2, <1>5, <2>1, <3>1, <3>2 DEF DeleteNamespace, Change, Deleted
  <2>2. CASE ~Namespace(Target).present
    <3>1. [Namespace(Target) EXCEPT !.terminating = Namespace(Target).present] = Namespace(Target)
      BY <1>1, <2>2 DEF AbsentOK, NoNamespace, NamespaceObjects
    <3> QED
      BY <1>1, <1>2, <1>5, <3>1 DEF DeleteNamespace, Change
  <2> QED
    BY <2>1, <2>2
<1> QED
  BY <1>3, <1>4, <1>5 DEF WritesTarget

LEMMA NextChange ==
  ASSUME TypeOK, AbsentOK, PatchInv, [Next]_vars, NEW n \in Namespaces
  PROVE  Change(n)
<1>1. CASE UNCHANGED nsLog
  BY <1>1, NamespaceSame DEF Change
<1>2. ASSUME NEW m \in Namespaces, OthersWrite(m) PROVE Change(n)
  BY <1>2, OthersChange
<1>3. CASE WritesTarget
  BY <1>3, TargetChange
<1>4. ASSUME NEW e \in Envs, UserActs(e) PROVE UNCHANGED nsLog
  BY <1>4 DEF UserActs, CreateEnv, DeleteEnv, EditNamespaceName, EditOwner, UserWrites
<1>5. ASSUME NEW e \in Envs, \/ WorkloadChanges(e) \/ Reconcile(e)
                             \/ DeliverRecord(e) \/ DeliverDeployment(e)
      PROVE  UNCHANGED nsLog
  BY <1>5 DEF WorkloadChanges, Reconcile, DeliverRecord, DeliverDeployment, apiVars
<1>6. ASSUME NEW m \in Namespaces, DeliverNamespace(m) PROVE UNCHANGED nsLog
  BY <1>6 DEF DeliverNamespace, apiVars
<1>7. AddFinalizer \/ GetNamespace \/ Moves \/ RemoveFinalizer \/ Restart \/ Rest
        => UNCHANGED nsLog
  BY DEF AddFinalizer, GetNamespace, Moves, WriteObjects, RefuseObjects, FinishProvisioning,
         ApiError, RemoveFinalizer, Restart, Rest, apiVars, vars
<1> QED
  BY <1>1, <1>2, <1>3, <1>4, <1>5, <1>6, <1>7
     DEF Next, Calls, WritesTarget, Moves, OthersWrite, vars

LEMMA NextAbsent ==
  ASSUME TypeOK, AbsentOK, PatchInv, [Next]_vars
  PROVE  AbsentOK'
<1> SUFFICES ASSUME NEW n \in Namespaces, ~Namespace(n)'.present
             PROVE  Namespace(n)' = NoNamespace
  BY DEF AbsentOK
<1>1. Namespace(n) \in NamespaceObjects
  BY TypeParts, NamespaceType
<1>2. Change(n)
  BY NextChange
<1>3. CASE Namespace(n)' = Namespace(n)
  BY <1>3 DEF AbsentOK
<1>4. CASE Appears(n) \/ Created(n)
  BY <1>4 DEF Appears, Created, Foreign, NoNamespace
<1>5. CASE Doomed(n) \/ Stripped(n) \/ Patched(n) \/ Deleted(n)
  <2>1. Namespace(n)'.present = Namespace(n).present /\ Namespace(n).present
    BY <1>1, <1>5 DEF Doomed, Stripped, Patched, Deleted, NamespaceObjects
  <2> QED
    BY <2>1
<1> QED
  BY <1>2, <1>3, <1>4, <1>5 DEF Change, Ends1

(* The version the patch was computed from is one of the log, and stays there. *)
LEMMA NextPatch ==
  ASSUME TypeOK, RecordInv, PatchInv, [Next]_vars
  PROVE  PatchInv'
<1>1. /\ LogsGrow /\ TypeOK' /\ LogsOK /\ WorkerOK
  BY NextType, TypeParts
<1>2. CASE worker' = worker
  <2> SUFFICES ASSUME At("patchNamespace")
               PROVE  owns(worker.env, nsLog[Target][worker.nsrv])'
    BY <1>2 DEF PatchInv, At
  <2>1. Target' = Target /\ Target \in Namespaces
    BY <1>1, <1>2, SeenKept, TargetType DEF At
  <2>2. worker.nsrv \in 1 .. Len(nsLog[Target])
    BY <1>1 DEF WorkerOK
  <2>3. nsLog'[Target][worker.nsrv] = nsLog[Target][worker.nsrv]
    BY <1>1, <2>1, <2>2 DEF LogsGrow, Grown
  <2> QED
    BY <1>2, <2>1, <2>3 DEF PatchInv, owns
<1>3. CASE GetNamespace
  <2>1. /\ worker.env \in Envs /\ Seen \in Records /\ Got \in NamespaceObjects
        /\ UNCHANGED <<envLog, nsLog, contents>> /\ worker \in Workers
        /\ \/ Ends
           \/ worker' = [worker EXCEPT !.pc = NextStep, !.nsrv = nsSeen[Target]]
    BY <1>1, <1>3, GetNamespaceStep DEF WorkerOK
  <2>2. CASE Ends
    BY <1>3, <2>2 DEF Ends, GetNamespace, At, Idle, PatchInv
  <2>3. CASE worker' = [worker EXCEPT !.pc = NextStep, !.nsrv = nsSeen[Target]]
    <3> SUFFICES ASSUME NextStep = "patchNamespace"
                 PROVE  owns(worker.env, nsLog[Target][worker.nsrv])'
      BY <2>1, <2>3 DEF PatchInv, At, Workers
    <3>1. worker'.env = worker.env /\ worker'.rv = worker.rv /\ worker'.nsrv = nsSeen[Target]
      BY <2>1, <2>3 DEF Workers
    <3>2. Target' = Target
      BY <1>1, <1>3, <3>1, SeenKept DEF GetNamespace, At
    <3>3. owns(worker.env, Got)
      BY <2>1, StepsType DEF NextStep, NamespaceStep, TeardownStep
    <3> QED
      BY <2>1, <3>1, <3>2, <3>3 DEF Got, owns
  <2> QED
    BY <2>1, <2>2, <2>3
<1>4. CASE worker'.pc # "patchNamespace"
  BY <1>4 DEF PatchInv, At
<1>5. ASSUME NEW e \in Envs, UserActs(e) PROVE worker' = worker
  BY <1>5 DEF UserActs, CreateEnv, DeleteEnv, EditNamespaceName, EditOwner, UserWrites
<1>6. ASSUME NEW e \in Envs, WorkloadChanges(e) \/ DeliverRecord(e) \/ DeliverDeployment(e)
      PROVE  worker' = worker
  BY <1>6 DEF WorkloadChanges, DeliverRecord, DeliverDeployment
<1>7. ASSUME NEW e \in Envs, Reconcile(e) PROVE worker'.pc # "patchNamespace"
  BY <1>7 DEF Reconcile, FirstStep, Idle
<1>8. ASSUME NEW n \in Namespaces, OthersWrite(n) \/ DeliverNamespace(n)
      PROVE  worker' = worker
  BY <1>8 DEF OthersWrite, OutsiderActs, ForeignCreate, ForeignDelete, StripLabels, Outside,
              FinishTermination, DeliverNamespace
<1>9. ASSUME AddFinalizer \/ WritesTarget \/ Moves \/ RemoveFinalizer \/ Restart
      PROVE  worker'.pc # "patchNamespace"
  <2>1. worker \in Workers
    BY <1>1 DEF WorkerOK
  <2>2. Idle.pc # "patchNamespace"
    BY DEF Idle
  <2>3. CASE AddFinalizer
    <3>1. PICK k : \/ worker' = [worker EXCEPT !.pc = "getNamespace", !.rv = k]
                   \/ worker' = Idle
      BY <2>3 DEF AddFinalizer, Answered, AnswerLost, Retry
    <3> QED
      BY <2>1, <2>2, <3>1 DEF Workers
  <2>4. CASE WritesTarget \/ Moves \/ RemoveFinalizer \/ Restart
    <3>1. worker' = [worker EXCEPT !.pc = "provision"] \/ worker' = Idle
      BY <2>4 DEF WritesTarget, CreateNamespace, PatchNamespace, DeleteNamespace, Moves,
         WriteObjects, RefuseObjects, FinishProvisioning, ApiError, RemoveFinalizer, Restart,
         Answered, AnswerLost, Retry, Finish, Goto
    <3> QED
      BY <2>1, <2>2, <3>1 DEF Workers
  <2> QED
    BY <1>9, <2>3, <2>4
<1> QED
  BY <1>2, <1>3, <1>4, <1>5, <1>6, <1>7, <1>8, <1>9
     DEF Next, Calls, WritesTarget, Moves, OthersWrite, Rest, vars

(* What the theorems about namespaces need besides RecordInv. *)
ObjectsInv == AbsentOK /\ PatchInv

(* A namespace that is not there carries no labels, and a patch is only ever   *)
(* computed from a version that carried the environment's (reconcileNamespace  *)
(* calls owns before it patches).                                              *)
THEOREM ObjectsCorrect == Spec => []ObjectsInv
<1>1. Init => ObjectsInv
  <2> SUFFICES ASSUME Init PROVE ObjectsInv
    OBVIOUS
  <2>1. \A n \in Namespaces : nsLog[n] = <<NoNamespace>> \/ nsLog[n] = <<Foreign>>
    BY DEF Init
  <2>2. \A n \in Namespaces : Namespace(n) = NoNamespace \/ Namespace(n) = Foreign
    BY <2>1 DEF Namespace
  <2>3. Foreign.present
    BY DEF Foreign, NoNamespace
  <2>4. AbsentOK
    BY <2>2, <2>3 DEF AbsentOK
  <2>5. worker.pc = "idle"
    BY DEF Init, Idle
  <2> QED
    BY <2>4, <2>5 DEF ObjectsInv, PatchInv, At
<1>2. TypeOK /\ RecordInv /\ ObjectsInv /\ [Next]_vars => ObjectsInv'
  BY NextAbsent, NextPatch DEF ObjectsInv
<1> QED
  BY <1>1, <1>2, TypeCorrect, RecordCorrect, PTL DEF Spec

(* Whatever the caches show, no write of the controller or of anybody else in  *)
(* the model gives a namespace that is there to an environment (reconcile-     *)
(* Namespace patches only labels that differ from the version it read).        *)
THEOREM AdoptionNever == Spec => NeverAdopts
<1> DEFINE A == \A n \in Namespaces :
                  Namespace(n).present /\ Namespace(n)'.present
                    => Namespace(n)'.environment \in {Namespace(n).environment, Nobody}
<1>1. TypeOK /\ ObjectsInv /\ [Next]_vars => A
  <2> SUFFICES ASSUME TypeOK, ObjectsInv, [Next]_vars, NEW n \in Namespaces,
                      Namespace(n).present, Namespace(n)'.present
               PROVE  Namespace(n)'.environment \in {Namespace(n).environment, Nobody}
    OBVIOUS
  <2>1. Namespace(n) \in NamespaceObjects /\ Change(n)
    BY NextChange, TypeParts, NamespaceType DEF ObjectsInv
  <2>2. ~Appears(n) /\ ~Ends1(n) /\ ~Created(n)
    BY DEF Appears, Ends1, Created, NoNamespace
  <2>3. CASE Namespace(n)' = Namespace(n)
    BY <2>3
  <2>4. CASE Doomed(n) \/ Stripped(n) \/ Patched(n) \/ Deleted(n)
    BY <2>1, <2>4 DEF Doomed, Stripped, Patched, Deleted, NamespaceObjects
  <2> QED
    BY <2>1, <2>2, <2>3, <2>4 DEF Change
<1> QED
  BY <1>1, TypeCorrect, ObjectsCorrect, PTL DEF Spec, NeverAdopts

(* The record holds the finalizer at the moment its namespace is created,      *)
(* however old the version the pass works on (Reconcile adds the finalizer     *)
(* first; reconcileNamespace creates).                                         *)
THEOREM CreationRecorded == Spec => CreatesUnderRecord
<1> DEFINE A == \A e \in Envs, n \in Namespaces :
                  ~Namespace(n).present /\ Holds(e, n)'
                    => Record(e).present /\ Record(e).finalizer
<1>1. TypeOK /\ RecordInv /\ ObjectsInv /\ [Next]_vars => A
  <2> SUFFICES ASSUME TypeOK, RecordInv, ObjectsInv, [Next]_vars,
                      NEW e \in Envs, NEW n \in Namespaces,
                      ~Namespace(n).present, Namespace(n)'.present, Namespace(n)'.environment = e
               PROVE  Record(e).present /\ Record(e).finalizer
    BY DEF Holds, owns
  <2>1. Change(n)
    BY NextChange DEF ObjectsInv
  <2>2. Foreign.environment = Nobody /\ ~NoNamespace.present
    BY DEF Foreign, NoNamespace
  <2>3. Created(n)
    BY <2>1, <2>2, NobodyAssumption
       DEF Change, Appears, Ends1, Doomed, Stripped, Patched, Deleted
  <2>4. /\ worker.pc = "createNamespace"
        /\ Namespace(n)' = [present |-> TRUE, terminating |-> FALSE,
                            environment |-> worker.env, owner |-> Seen.owner]
    BY <2>3 DEF Created, CreateNamespace, At
  <2>5. worker.env = e
    BY <2>4
  <2>6. Firm(Seen) /\ (Firm(Seen) => Backed(worker.env, Seen))
    BY <2>4 DEF RecordInv, PassShape, PassBacked, At
  <2> QED
    BY <2>5, <2>6 DEF Backed
<1> QED
  BY <1>1, TypeCorrect, RecordCorrect, ObjectsCorrect, PTL DEF Spec, CreatesUnderRecord

-----------------------------------------------------------------------------
(* Lives of a record *)

(* Among the versions the cache still has to read, those that hold the        *)
(* finalizer are of one life of the record: once it is marked for deletion it *)
(* stays marked; the running pass works on a version of the same life.        *)
SameLife(old, new) ==
  old.finalizer /\ new.finalizer => (old.deleting => new.deleting)

CacheLife ==
  \A e \in Envs : \A i \in envSeen[e] .. Len(envLog[e]) : \A j \in i .. Len(envLog[e]) :
    SameLife(envLog[e][i], envLog[e][j])

SeenLife ==
  \A j \in envSeen[worker.env] .. Len(envLog[worker.env]) :
    SameLife(Seen, envLog[worker.env][j])

PassLife ==
  ~At("idle") => /\ At("addFinalizer") => worker.rv <= envSeen[worker.env]
                 /\ SeenLife

LifeInv == CacheLife /\ PassLife

LEMMA LifeChain ==
  ASSUME NEW a, NEW b, NEW c, SameLife(a, b), SameLife(b, c), c.finalizer => b.finalizer
  PROVE  SameLife(a, c)
BY DEF SameLife

LEMMA NewVersion ==
  ASSUME LogsOK, NEW e \in Envs, NEW env \in Records, WriteRecord(e, env),
         NEW f \in Envs, NEW i \in 1 .. Len(envLog'[f])
  PROVE  \/ i \in 1 .. Len(envLog[f]) /\ envLog'[f][i] = envLog[f][i]
         \/ f = e /\ i = Len(envLog[e]) + 1 /\ envLog'[f][i] = env
<1>1. /\ envLog' \in [Envs -> Seq(Records)]
      /\ Grown(envLog[f], envLog'[f]) /\ (f # e => envLog'[f] = envLog[f])
      /\ Len(envLog'[e]) = Len(envLog[e]) + 1
      /\ envLog'[e][Len(envLog[e]) + 1] = env
  BY RecordWritten
<1>2. Len(envLog[f]) \in Nat /\ Len(envLog'[f]) \in Nat
  BY <1>1 DEF LogsOK
<1> QED
  BY <1>1, <1>2 DEF Grown

(* A version that goes on with the life that is there, as far as the cache has *)
(* to read.                                                                    *)
Continues(e, env) ==
  \A i \in envSeen[e] .. Len(envLog[e]) : SameLife(envLog[e][i], env)

LEMMA CacheLifeKept ==
  ASSUME LogsOK, CachesOK, CacheLife, NEW e \in Envs, NEW env \in Records,
         WriteRecord(e, env), Continues(e, env), UNCHANGED envSeen
  PROVE  CacheLife'
<1> SUFFICES ASSUME NEW f \in Envs, NEW i \in envSeen[f] .. Len(envLog'[f]),
                    NEW j \in i .. Len(envLog'[f])
             PROVE  SameLife(envLog'[f][i], envLog'[f][j])
  BY DEF CacheLife, SameLife
<1>1. /\ envSeen[f] \in 1 .. Len(envLog[f]) /\ Len(envLog[f]) \in Nat
      /\ Len(envLog'[f]) \in Nat
  BY RecordWritten DEF CachesOK, LogsOK
<1>2. i \in 1 .. Len(envLog'[f]) /\ j \in 1 .. Len(envLog'[f])
  BY <1>1
<1>3. \/ i \in 1 .. Len(envLog[f]) /\ envLog'[f][i] = envLog[f][i]
      \/ f = e /\ i = Len(envLog[e]) + 1 /\ envLog'[f][i] = env
  BY <1>2, NewVersion
<1>4. \/ j \in 1 .. Len(envLog[f]) /\ envLog'[f][j] = envLog[f][j]
      \/ f = e /\ j = Len(envLog[e]) + 1 /\ envLog'[f][j] = env
  BY <1>2, NewVersion
<1>5. CASE j \in 1 .. Len(envLog[f]) /\ envLog'[f][j] = envLog[f][j]
  <2>1. i \in envSeen[f] .. Len(envLog[f]) /\ j \in i .. Len(envLog[f])
    BY <1>1, <1>2, <1>5
  <2>2. envLog'[f][i] = envLog[f][i]
    BY <1>1, <1>3, <2>1
  <2> QED
    BY <1>5, <2>1, <2>2 DEF CacheLife
<1>6. CASE f = e /\ envLog'[f][j] = env
  <2>1. CASE i \in 1 .. Len(envLog[f]) /\ envLog'[f][i] = envLog[f][i]
    <3>1. i \in envSeen[e] .. Len(envLog[e])
      BY <1>1, <1>6, <2>1
    <3> QED
      BY <1>6, <2>1, <3>1 DEF Continues
  <2>2. CASE envLog'[f][i] = env
    BY <1>6, <2>2 DEF SameLife
  <2> QED
    BY <1>3, <2>1, <2>2
<1> QED
  BY <1>4, <1>5, <1>6

LEMMA SeenLifeKept ==
  ASSUME LogsOK, CachesOK, WorkerOK, LogsGrow, ~At("idle"), SeenLife,
         NEW e \in Envs, NEW env \in Records, WriteRecord(e, env),
         worker.env = e => SameLife(Seen, env), UNCHANGED <<envSeen, worker>>
  PROVE  SeenLife'
<1>1. Seen' = Seen /\ worker.env \in Envs
  BY SeenKept DEF WorkerOK
<1> SUFFICES ASSUME NEW j \in envSeen[worker.env] .. Len(envLog'[worker.env])
             PROVE  SameLife(Seen, envLog'[worker.env][j])
  BY <1>1 DEF SeenLife, SameLife
<1>2. /\ envSeen[worker.env] \in 1 .. Len(envLog[worker.env])
      /\ Len(envLog[worker.env]) \in Nat /\ Len(envLog'[worker.env]) \in Nat
  BY <1>1, RecordWritten DEF CachesOK, LogsOK
<1>3. j \in 1 .. Len(envLog'[worker.env])
  BY <1>2
<1>4. \/ j \in 1 .. Len(envLog[worker.env]) /\ envLog'[worker.env][j] = envLog[worker.env][j]
      \/ worker.env = e /\ envLog'[worker.env][j] = env
  BY <1>1, <1>3, NewVersion
<1>5. CASE j \in 1 .. Len(envLog[worker.env]) /\ envLog'[worker.env][j] = envLog[worker.env][j]
  <2>1. j \in envSeen[worker.env] .. Len(envLog[worker.env])
    BY <1>2, <1>5
  <2> QED
    BY <1>5, <2>1 DEF SeenLife
<1> QED
  BY <1>4, <1>5

(* The cache that goes forward leaves less to read. *)
LEMMA CacheLifeMoves ==
  ASSUME LogsOK, CachesOK, CachesOK', CacheLife, UNCHANGED envLog,
         \A e \in Envs : envSeen[e] <= envSeen'[e]
  PROVE  CacheLife'
<1>1. ASSUME NEW e \in Envs, NEW i \in envSeen'[e] .. Len(envLog[e])
      PROVE  i \in envSeen[e] .. Len(envLog[e])
  BY <1>1 DEF CachesOK, LogsOK
<1> QED
  BY <1>1 DEF CacheLife, SameLife

LEMMA SeenLifeMoves ==
  ASSUME LogsOK, CachesOK, WorkerOK, CachesOK', LogsGrow, ~At("idle"), SeenLife,
         UNCHANGED envLog, \A e \in Envs : envSeen[e] <= envSeen'[e],
         worker'.env = worker.env, worker'.rv = worker.rv
  PROVE  SeenLife'
<1>1. Seen' = Seen /\ worker.env \in Envs
  BY SeenKept DEF WorkerOK
<1>2. ASSUME NEW j \in envSeen'[worker.env] .. Len(envLog[worker.env])
      PROVE  j \in envSeen[worker.env] .. Len(envLog[worker.env])
  BY <1>1, <1>2 DEF CachesOK, LogsOK
<1> QED
  BY <1>1, <1>2 DEF SeenLife, SameLife

-----------------------------------------------------------------------------
(* What a step does to the records, and what it does to the pass *)

(* A user's write neither sets nor drops the finalizer; one that points a  *)
(* bound record elsewhere makes what it holds stray, and does nothing else. *)
UserWrote(e, env) ==
  /\ UserWrites(e, env) /\ WellFormed(env) /\ (~env.present => env = NoRecord)
  /\ env.finalizer = Record(e).finalizer /\ SameLife(Record(e), env)
  /\ \/ /\ stray' = stray
        /\ env.finalizer => env.namespaceName = Record(e).namespaceName
     \/ /\ stray' = stray \cup PointedAway(e, env)
        /\ env.present /\ Record(e).present /\ env.deleting = Record(e).deleting

LEMMA UserLife ==
  ASSUME TypeOK, RecordInv, NEW e \in Envs, UserActs(e)
  PROVE  \E env \in Records : UserWrote(e, env)
<1>1. Record(e) \in Records /\ WellFormed(Record(e))
  BY RecordType, TypeParts DEF RecordInv, Record
<1>2. CASE CreateEnv(e)
  <2>1. PICK name \in Names \cup {Unset}, owner \in Teams \cup {Unset} :
          UserWrites(e, [NoRecord EXCEPT !.present = TRUE,
                                         !.namespaceName = name, !.owner = owner])
    BY <1>2 DEF CreateEnv
  <2> DEFINE env == [NoRecord EXCEPT !.present = TRUE, !.namespaceName = name, !.owner = owner]
  <2>2. env \in Records /\ WellFormed(env) /\ env.present /\ env.finalizer = FALSE
    BY NamesAssumption DEF NoRecord, Records, WellFormed
  <2>3. Record(e).finalizer = FALSE
    BY <1>1, <1>2 DEF CreateEnv, WellFormed, Records
  <2> QED
    BY <1>2, <2>1, <2>2, <2>3 DEF UserWrote, SameLife, CreateEnv
<1>3. CASE DeleteEnv(e)
  <2>1. CASE Record(e).finalizer
    <3> DEFINE env == [Record(e) EXCEPT !.deleting = TRUE]
    <3>1. UserWrites(e, env)
      BY <1>3, <2>1 DEF DeleteEnv
    <3>2. /\ env \in Records /\ WellFormed(env) /\ env.finalizer = Record(e).finalizer
          /\ env.namespaceName = Record(e).namespaceName /\ env.deleting /\ env.present
      BY <1>1, <1>3, <2>1 DEF DeleteEnv, Records, WellFormed
    <3> QED
      BY <1>3, <3>1, <3>2 DEF UserWrote, SameLife, DeleteEnv
  <2>2. CASE ~Record(e).finalizer
    <3>1. NoRecord \in Records /\ WellFormed(NoRecord) /\ NoRecord.finalizer = FALSE
      BY DEF NoRecord, Records, WellFormed
    <3>2. Record(e).finalizer = FALSE
      BY <1>1, <2>2 DEF Records
    <3> QED
      BY <1>3, <2>2, <3>1, <3>2 DEF DeleteEnv, UserWrote, SameLife
  <2> QED
    BY <2>1, <2>2
<1>4. CASE EditNamespaceName(e)
  <2>1. PICK name \in Names \cup {Unset} :
          /\ UserWrites(e, [Record(e) EXCEPT !.namespaceName = name])
          /\ stray' = stray \cup PointedAway(e, [Record(e) EXCEPT !.namespaceName = name])
    BY <1>4 DEF EditNamespaceName
  <2> DEFINE env == [Record(e) EXCEPT !.namespaceName = name]
  <2>2. /\ env \in Records /\ WellFormed(env) /\ env.present
        /\ env.finalizer = Record(e).finalizer /\ env.deleting = Record(e).deleting
    BY <1>1, <1>4, NamesAssumption DEF EditNamespaceName, Records, WellFormed
  <2> QED
    BY <1>4, <2>1, <2>2 DEF UserWrote, SameLife, EditNamespaceName
<1>5. CASE EditOwner(e)
  <2>1. PICK owner \in (Teams \cup {Unset}) \ {Record(e).owner} :
          UserWrites(e, [Record(e) EXCEPT !.owner = owner])
    BY <1>5 DEF EditOwner
  <2> DEFINE env == [Record(e) EXCEPT !.owner = owner]
  <2>2. /\ env \in Records /\ WellFormed(env) /\ env.finalizer = Record(e).finalizer
        /\ env.namespaceName = Record(e).namespaceName /\ env.deleting = Record(e).deleting
        /\ env.present
    BY <1>1, <1>5 DEF EditOwner, Records, WellFormed
  <2> QED
    BY <1>5, <2>1, <2>2 DEF UserWrote, SameLife, EditOwner
<1> QED
  BY <1>2, <1>3, <1>4, <1>5 DEF UserActs

Finalized ==
  /\ AddFinalizer /\ ~Conflict
  /\ WriteRecord(worker.env, [Seen EXCEPT !.finalizer = TRUE])
  /\ \/ worker' = Idle
     \/ /\ worker'.pc = "getNamespace"
        /\ worker'.env = worker.env /\ worker'.rv = worker.rv + 1
Released ==
  /\ RemoveFinalizer /\ ~Conflict /\ worker' = Idle
  /\ WriteRecord(worker.env, NoRecord)

LEMMA FinalizerAdded ==
  ASSUME TypeOK, AddFinalizer
  PROVE  (UNCHANGED envLog /\ worker' = Idle) \/ Finalized
<1>1. worker \in Workers
  BY TypeParts DEF WorkerOK
<1>2. \/ UNCHANGED envLog /\ worker' = Idle
      \/ /\ ~Conflict /\ WriteRecord(worker.env, [Seen EXCEPT !.finalizer = TRUE])
         /\ \/ worker' = Idle
            \/ worker' = [worker EXCEPT !.pc = "getNamespace", !.rv = worker.rv + 1]
  BY DEF AddFinalizer, Answered, AnswerLost, Retry
<1>3. ASSUME worker' = [worker EXCEPT !.pc = "getNamespace", !.rv = worker.rv + 1]
      PROVE  /\ worker'.pc = "getNamespace"
             /\ worker'.env = worker.env /\ worker'.rv = worker.rv + 1
  <2>1. PICK k : k = worker.rv + 1
    OBVIOUS
  <2>2. worker' = [worker EXCEPT !.pc = "getNamespace", !.rv = k]
    BY <1>3, <2>1
  <2>3. worker'.pc = "getNamespace" /\ worker'.env = worker.env /\ worker'.rv = k
    BY <1>1, <2>2 DEF Workers
  <2> QED
    BY <2>1, <2>3
<1> QED
  BY <1>2, <1>3 DEF Finalized

LEMMA RecordMoves ==
  ASSUME TypeOK, RecordInv, [Next]_vars
  PROVE  \/ UNCHANGED envLog
         \/ \E e \in Envs, env \in Records : UserWrote(e, env)
         \/ Finalized \/ Released
<1>1. ASSUME NEW e \in Envs, UserActs(e) PROVE \E env \in Records : UserWrote(e, env)
  BY <1>1, UserLife
<1>2. ASSUME NEW e \in Envs, \/ WorkloadChanges(e) \/ Reconcile(e)
                             \/ DeliverRecord(e) \/ DeliverDeployment(e)
      PROVE  UNCHANGED envLog
  BY <1>2 DEF WorkloadChanges, Reconcile, DeliverRecord, DeliverDeployment, apiVars
<1>3. ASSUME NEW n \in Namespaces, OthersWrite(n) \/ DeliverNamespace(n) PROVE UNCHANGED envLog
  BY <1>3 DEF OthersWrite, OutsiderActs, ForeignCreate, ForeignDelete, StripLabels, Outside,
              FinishTermination, DeliverNamespace, apiVars
<1>4. GetNamespace \/ WritesTarget \/ Moves \/ Restart \/ Rest => UNCHANGED envLog
  BY DEF GetNamespace, WritesTarget, CreateNamespace, PatchNamespace, DeleteNamespace, Moves,
         WriteObjects, RefuseObjects, FinishProvisioning, ApiError, Restart, Rest, apiVars, vars
<1>5. AddFinalizer => UNCHANGED envLog \/ Finalized
  BY FinalizerAdded
<1>6. RemoveFinalizer => UNCHANGED envLog \/ Released
  BY DEF RemoveFinalizer, Released, Answered, AnswerLost, Retry, Finish
<1> QED
  BY <1>1, <1>2, <1>3, <1>4, <1>5, <1>6 DEF Next, Calls, WritesTarget, Moves, OthersWrite, vars

(* How a pass starts, and how it goes on. *)
Starts(e) ==
  /\ Reconcile(e) /\ worker'.env = e /\ worker'.rv = envSeen[e]
  /\ worker'.pc = FirstStep(CachedRecord(e)) /\ worker'.pc \in {"addFinalizer", "getNamespace"}
Proceeds(pc) ==
  /\ ~At("idle") /\ worker'.pc = pc
  /\ worker'.env = worker.env /\ worker'.rv = worker.rv
Provisions ==
  /\ WritesTarget \/ Moves
  /\ worker.pc \in {"createNamespace", "patchNamespace", "provision"} /\ Proceeds("provision")

LEMMA WorkerMoves ==
  ASSUME TypeOK, [Next]_vars
  PROVE  \/ worker' \in {worker, Idle}
         \/ \E e \in Envs : Starts(e)
         \/ GetNamespace /\ NextStep \in Steps /\ Proceeds(NextStep)
         \/ Provisions
         \/ Finalized
<1>1. worker \in Workers
  BY TypeParts DEF WorkerOK
<1>2. ASSUME NEW e \in Envs, UserActs(e) \/ WorkloadChanges(e)
                             \/ DeliverRecord(e) \/ DeliverDeployment(e)
      PROVE  worker' = worker
  BY <1>2 DEF UserActs, CreateEnv, DeleteEnv, EditNamespaceName, EditOwner, UserWrites,
              WorkloadChanges, DeliverRecord, DeliverDeployment
<1>3. ASSUME NEW e \in Envs, Reconcile(e) PROVE worker' = Idle \/ Starts(e)
  <2>1. CachedRecord(e) \in Records
    BY TypeParts DEF CachedRecord, LogsOK, CachesOK
  <2>2. CASE FirstStep(CachedRecord(e)) = "idle"
    BY <1>3, <2>2 DEF Reconcile
  <2>3. CASE FirstStep(CachedRecord(e)) # "idle"
    BY <1>3, <2>1, <2>3, FirstStepType DEF Reconcile, Starts, Idle
  <2> QED
    BY <2>2, <2>3
<1>4. ASSUME NEW n \in Namespaces, OthersWrite(n) \/ DeliverNamespace(n) PROVE worker' = worker
  BY <1>4 DEF OthersWrite, OutsiderActs, ForeignCreate, ForeignDelete, StripLabels, Outside,
              FinishTermination, DeliverNamespace
<1>5. CASE GetNamespace
  <2>1. \/ worker' = Idle
        \/ /\ NextStep \in Steps
           /\ worker' = [worker EXCEPT !.pc = NextStep, !.nsrv = nsSeen[Target]]
    BY <1>5, GetNamespaceStep DEF Ends
  <2>2. ~At("idle")
    BY <1>5 DEF GetNamespace, At
  <2>3. ASSUME worker' = [worker EXCEPT !.pc = NextStep, !.nsrv = nsSeen[Target]]
        PROVE  Proceeds(NextStep)
    BY <1>1, <2>2, <2>3 DEF Proceeds, Workers
  <2> QED
    BY <1>5, <2>1, <2>3
<1>6. CASE WritesTarget \/ Moves
  <2>1. \/ worker' = Idle
        \/ /\ worker' = [worker EXCEPT !.pc = "provision"]
           /\ worker.pc \in {"createNamespace", "patchNamespace", "provision"}
    BY <1>6 DEF WritesTarget, CreateNamespace, PatchNamespace, DeleteNamespace,
         Moves, WriteObjects, RefuseObjects, FinishProvisioning, ApiError, At,
         Answered, AnswerLost, Retry, Finish, Goto, apiVars, cacheVars
  <2> QED
    BY <1>1, <1>6, <2>1 DEF Provisions, Proceeds, At, Workers
<1>7. AddFinalizer => worker' = Idle \/ Finalized
  BY FinalizerAdded
<1>8. RemoveFinalizer \/ Restart => worker' = Idle
  BY DEF RemoveFinalizer, Restart, Answered, AnswerLost, Retry, Finish
<1>9. Rest \/ UNCHANGED vars => worker' = worker
  BY DEF Rest, vars
<1> QED
  BY <1>2, <1>3, <1>4, <1>5, <1>6, <1>7, <1>8, <1>9
     DEF Next, Calls, WritesTarget, Moves, OthersWrite

LEMMA NextForward ==
  ASSUME TypeOK, [Next]_vars
  PROVE  \A e \in Envs : envSeen[e] <= envSeen'[e]
<1>1. ASSUME NEW e \in Envs, UserActs(e) \/ WorkloadChanges(e) \/ Reconcile(e) \/ DeliverDeployment(e)
      PROVE  UNCHANGED envSeen
  BY <1>1 DEF UserActs, CreateEnv, DeleteEnv, EditNamespaceName, EditOwner, UserWrites,
              WorkloadChanges, Reconcile, DeliverDeployment, cacheVars
<1>2. ASSUME NEW n \in Namespaces, OthersWrite(n) \/ DeliverNamespace(n) PROVE UNCHANGED envSeen
  BY <1>2 DEF OthersWrite, OutsiderActs, ForeignCreate, ForeignDelete, StripLabels, Outside,
              FinishTermination, DeliverNamespace, cacheVars
<1>3. Calls \/ ApiError \/ Rest \/ UNCHANGED vars => UNCHANGED envSeen
  BY DEF Calls, AddFinalizer, GetNamespace, CreateNamespace, PatchNamespace, DeleteNamespace,
         RemoveFinalizer, WriteObjects, RefuseObjects, FinishProvisioning, ApiError, Rest,
         cacheVars, vars
<1>4. \/ UNCHANGED envSeen
      \/ \E e \in Envs : DeliverRecord(e)
      \/ Restart
  BY <1>1, <1>2, <1>3 DEF Next, OthersWrite
<1> QED
  BY <1>4, SeenForward

LEMMA UserKeepsLife ==
  ASSUME TypeOK, LogsGrow, LifeInv,
         NEW e \in Envs, NEW env \in Records, UserWrote(e, env)
  PROVE  LifeInv'
<1>1. /\ LogsOK /\ CachesOK /\ WorkerOK /\ WriteRecord(e, env) /\ UNCHANGED <<envSeen, worker>>
      /\ SameLife(Record(e), env) /\ (env.finalizer => Record(e).finalizer)
  BY TypeParts DEF UserWrote, UserWrites, cacheVars
<1>2. /\ Len(envLog[e]) \in envSeen[e] .. Len(envLog[e])
      /\ \A i \in envSeen[e] .. Len(envLog[e]) : Len(envLog[e]) \in i .. Len(envLog[e])
  BY <1>1 DEF CachesOK, LogsOK
<1>3. Continues(e, env)
  <2> SUFFICES ASSUME NEW i \in envSeen[e] .. Len(envLog[e]) PROVE SameLife(envLog[e][i], env)
    BY DEF Continues
  <2>1. SameLife(envLog[e][i], Record(e))
    BY <1>2 DEF LifeInv, CacheLife, Record
  <2> QED
    BY <1>1, <2>1, LifeChain
<1>4. CacheLife'
  BY <1>1, <1>3, CacheLifeKept DEF LifeInv
<1>5. PassLife'
  <2> SUFFICES ASSUME ~At("idle") PROVE PassLife'
    BY <1>1 DEF PassLife, At
  <2>1. worker.env = e => SameLife(Seen, env)
    <3> SUFFICES ASSUME worker.env = e PROVE SameLife(Seen, env)
      OBVIOUS
    <3>1. SameLife(Seen, Record(e))
      BY <1>2 DEF LifeInv, PassLife, SeenLife, Record
    <3> QED
      BY <1>1, <3>1, LifeChain
  <2>2. SeenLife'
    BY <1>1, <2>1, SeenLifeKept DEF LifeInv, PassLife
  <2> QED
    BY <1>1, <2>2 DEF LifeInv, PassLife, At
<1> QED
  BY <1>4, <1>5 DEF LifeInv

(* The version that is finalized is the only one the cache has left to read. *)
LEMMA FinalizedKeepsLife ==
  ASSUME TypeOK, RecordInv, LifeInv, Finalized
  PROVE  LifeInv'
<1> DEFINE env == [Seen EXCEPT !.finalizer = TRUE]
<1>1. /\ LogsOK /\ CachesOK /\ WorkerOK /\ ~At("idle") /\ UNCHANGED envSeen
      /\ worker.env \in Envs /\ Seen \in Records
  BY TypeParts, TargetType DEF Finalized, AddFinalizer, At, WorkerOK, cacheVars
<1>2. env \in Records /\ WriteRecord(worker.env, env)
  BY <1>1 DEF Records, Finalized
<1>3. /\ worker.rv = Len(envLog[worker.env]) /\ ~Seen.finalizer
      /\ worker.rv <= envSeen[worker.env]
  BY DEF Finalized, AddFinalizer, Conflict, RecordInv, PassShape, LifeInv, PassLife, At
<1>4. envSeen[worker.env] = worker.rv /\ worker.rv \in Nat
  BY <1>1, <1>3 DEF CachesOK, LogsOK
<1> HIDE DEF env
<1>5. Continues(worker.env, env)
  <2> SUFFICES ASSUME NEW i \in envSeen[worker.env] .. Len(envLog[worker.env])
               PROVE  SameLife(envLog[worker.env][i], env)
    BY DEF Continues
  <2>1. i = worker.rv
    BY <1>3, <1>4
  <2> QED
    BY <1>3, <2>1 DEF Seen, SameLife
<1>6. CacheLife'
  BY <1>1, <1>2, <1>5, CacheLifeKept DEF LifeInv
<1>7. CASE worker' = Idle
  BY <1>6, <1>7 DEF LifeInv, PassLife, At, Idle
<1>8. CASE /\ worker'.pc = "getNamespace"
           /\ worker'.env = worker.env /\ worker'.rv = worker.rv + 1
  <2>1. /\ Len(envLog'[worker.env]) = worker.rv + 1
        /\ envLog'[worker.env][worker.rv + 1] = env
    BY <1>1, <1>2, <1>3, RecordWritten
  <2>2. Seen' = env
    BY <1>8, <2>1 DEF Seen
  <2>3. SeenLife'
    <3> SUFFICES ASSUME NEW j \in envSeen[worker.env] .. Len(envLog'[worker.env])
                 PROVE  SameLife(env, envLog'[worker.env][j])
      BY <1>1, <1>8, <2>2 DEF SeenLife, SameLife
    <3>1. j \in 1 .. Len(envLog'[worker.env]) /\ j \in {worker.rv, worker.rv + 1}
      BY <1>1, <1>4, <2>1 DEF CachesOK
    <3>2. CASE j = worker.rv + 1
      BY <2>1, <3>2 DEF SameLife
    <3>3. CASE j = worker.rv
      <4>1. j \in 1 .. Len(envLog[worker.env])
        BY <1>3, <3>1, <3>3, <1>4
      <4>2. envLog'[worker.env][j] = envLog[worker.env][j]
        BY <1>1, <1>2, <4>1, RecordWritten DEF Grown
      <4>3. envLog'[worker.env][j] = Seen
        BY <3>3, <4>2 DEF Seen
      <4> QED
        BY <1>3, <4>3 DEF SameLife
    <3> QED
      BY <3>1, <3>2, <3>3
  <2> QED
    BY <1>6, <1>8, <2>3 DEF LifeInv, PassLife, At
<1> QED
  BY <1>7, <1>8 DEF Finalized

LEMMA ReleasedKeepsLife ==
  ASSUME TypeOK, LifeInv, Released
  PROVE  LifeInv'
<1>1. /\ LogsOK /\ CachesOK /\ worker.env \in Envs /\ UNCHANGED envSeen
      /\ WriteRecord(worker.env, NoRecord)
  BY TypeParts DEF Released, RemoveFinalizer, At, WorkerOK, cacheVars
<1>2. NoRecord \in Records /\ Continues(worker.env, NoRecord)
  BY DEF NoRecord, Records, Continues, SameLife
<1>3. CacheLife'
  BY <1>1, <1>2, CacheLifeKept DEF LifeInv
<1> QED
  BY <1>3 DEF LifeInv, PassLife, Released, At, Idle

LEMMA QuietLife ==
  ASSUME TypeOK, TypeOK', LogsGrow, LifeInv, UNCHANGED envLog,
         \A e \in Envs : envSeen[e] <= envSeen'[e],
         \/ worker' \in {worker, Idle}
         \/ \E e \in Envs : Starts(e)
         \/ \E pc \in Steps \ {"addFinalizer"} : Proceeds(pc)
  PROVE  LifeInv'
<1>1. LogsOK /\ CachesOK /\ WorkerOK /\ CachesOK'
  BY TypeParts DEF TypeOK
<1>2. CacheLife'
  BY <1>1, CacheLifeMoves DEF LifeInv
<1>3. CASE worker' = Idle
  BY <1>2, <1>3 DEF LifeInv, PassLife, At, Idle
<1>4. ASSUME NEW e \in Envs, Starts(e) PROVE PassLife'
  <2>1. /\ worker'.env = e /\ worker'.rv = envSeen[e] /\ UNCHANGED <<envLog, envSeen>>
        /\ envSeen[e] \in envSeen[e] .. Len(envLog[e]) /\ envSeen[e] <= envSeen[e]
    <3>1. worker'.env = e /\ worker'.rv = envSeen[e] /\ UNCHANGED <<envLog, envSeen>>
      BY <1>4 DEF Starts, Reconcile, cacheVars
    <3>2. envSeen[e] \in 1 .. Len(envLog[e]) /\ Len(envLog[e]) \in Nat
      BY <1>1 DEF CachesOK, LogsOK
    <3> QED
      BY <3>1, <3>2
  <2>2. \A j \in envSeen[e] .. Len(envLog[e]) : SameLife(envLog[e][envSeen[e]], envLog[e][j])
    BY <2>1 DEF LifeInv, CacheLife
  <2>3. SeenLife'
    BY <2>1, <2>2 DEF SeenLife, SameLife, Seen
  <2> QED
    BY <2>1, <2>3 DEF PassLife
<1>5. ASSUME ~At("idle"), worker'.env = worker.env, worker'.rv = worker.rv,
             At("addFinalizer")' => At("addFinalizer")
      PROVE  PassLife'
  <2>1. SeenLife'
    BY <1>1, <1>5, SeenLifeMoves DEF LifeInv, PassLife
  <2>2. worker.env \in Envs /\ worker.rv \in Nat
    BY <1>1, <1>5 DEF WorkerOK, Workers
  <2>3. envSeen[worker.env] \in Nat /\ envSeen'[worker.env] \in Nat
    BY <1>1, <2>2 DEF CachesOK
  <2>4. At("addFinalizer")' => worker.rv <= envSeen'[worker.env]
    BY <1>5, <2>2, <2>3 DEF LifeInv, PassLife
  <2> QED
    BY <1>5, <2>1, <2>4 DEF PassLife
<1>6. CASE worker' = worker
  <2>1. At("idle") => PassLife'
    BY <1>6 DEF PassLife, At
  <2> QED
    BY <1>2, <1>5, <1>6, <2>1 DEF LifeInv, At
<1>7. ASSUME NEW pc \in Steps \ {"addFinalizer"}, Proceeds(pc) PROVE PassLife'
  BY <1>5, <1>7 DEF Proceeds, At
<1> QED
  BY <1>2, <1>3, <1>4, <1>6, <1>7 DEF LifeInv

LEMMA NextLife ==
  ASSUME TypeOK, RecordInv, LifeInv, [Next]_vars
  PROVE  LifeInv'
<1>1. TypeOK' /\ LogsGrow /\ \A e \in Envs : envSeen[e] <= envSeen'[e]
  BY NextType, NextForward
<1>2. ASSUME NEW e \in Envs, NEW env \in Records, UserWrote(e, env) PROVE LifeInv'
  BY <1>1, <1>2, UserKeepsLife
<1>3. CASE Finalized
  BY <1>3, FinalizedKeepsLife
<1>4. CASE Released
  BY <1>4, ReleasedKeepsLife
<1>5. CASE UNCHANGED envLog /\ ~Finalized
  <2>1. NextStep \in Steps /\ GetNamespace => NextStep # "addFinalizer"
    BY GetNamespaceStep, StepsType DEF NextStep
  <2>2. "provision" \in Steps \ {"addFinalizer"}
    BY DEF Steps
  <2>3. \/ worker' \in {worker, Idle}
        \/ \E e \in Envs : Starts(e)
        \/ \E pc \in Steps \ {"addFinalizer"} : Proceeds(pc)
    BY <1>5, <2>1, <2>2, WorkerMoves DEF Provisions
  <2> QED
    BY <1>1, <1>5, <2>3, QuietLife
<1> QED
  BY <1>2, <1>3, <1>4, <1>5, RecordMoves

(* Among the versions the controller can still act on, a deletion mark is not  *)
(* lost within a life of the record (Reconcile's AddFinalizer, reconcileDelete). *)
THEOREM LifeCorrect == Spec => []LifeInv
<1>1. Init => LifeInv
  <2> SUFFICES ASSUME Init PROVE LifeInv
    OBVIOUS
  <2>1. \A e \in Envs : envLog[e] = <<NoRecord>> /\ envSeen[e] = 1
    BY DEF Init
  <2>2. \A i \in 1 .. Len(<<NoRecord>>) : ~<<NoRecord>>[i].finalizer
    BY DEF NoRecord
  <2>3. CacheLife
    BY <2>1, <2>2 DEF CacheLife, SameLife
  <2> QED
    BY <2>3 DEF Init, LifeInv, PassLife, At, Idle
<1>2. TypeOK /\ RecordInv /\ LifeInv /\ [Next]_vars => LifeInv'
  BY NextLife
<1> QED
  BY <1>1, <1>2, TypeCorrect, RecordCorrect, PTL DEF Spec

(* The cache and the pass may hold a version marked for deletion; the record   *)
(* has not come back to life behind it (Reconcile's AddFinalizer is refused    *)
(* on an old version, and reconcileDelete's release comes last).               *)
THEOREM MarkCorrect == Spec => []MarkInv
<1>1. TypeOK /\ RecordInv /\ LifeInv => MarkInv
  <2> SUFFICES ASSUME TypeOK, RecordInv, LifeInv PROVE MarkInv
    OBVIOUS
  <2>1. LogsOK /\ CachesOK /\ WorkerOK
    BY TypeParts
  <2>2. ASSUME NEW e \in Envs, NEW i \in envSeen[e] .. Len(envLog[e]),
               envLog[e][i].deleting, Record(e).finalizer
        PROVE  Record(e).deleting
    <3>1. i \in 1 .. Len(envLog[e]) /\ Len(envLog[e]) \in i .. Len(envLog[e])
      BY <2>1 DEF CachesOK, LogsOK
    <3>2. envLog[e][i].finalizer
      BY <2>2, <3>1 DEF RecordInv, WellFormed
    <3> QED
      BY <2>2, <3>1, <3>2 DEF LifeInv, CacheLife, SameLife, Record
  <2>3. ASSUME ~At("idle"), Seen.deleting, Record(worker.env).finalizer
        PROVE  Record(worker.env).deleting
    <3>1. /\ worker.env \in Envs /\ worker.rv \in 1 .. Len(envLog[worker.env])
          /\ Len(envLog[worker.env]) \in envSeen[worker.env] .. Len(envLog[worker.env])
      BY <2>1, <2>3 DEF WorkerOK, CachesOK, LogsOK
    <3>2. Seen.finalizer
      BY <2>3, <3>1 DEF RecordInv, WellFormed, Seen
    <3> QED
      BY <2>3, <3>1, <3>2 DEF LifeInv, PassLife, SeenLife, SameLife, Record
  <2> QED
    BY <2>2, <2>3 DEF MarkInv
<1> QED
  BY <1>1, TypeCorrect, RecordCorrect, LifeCorrect, PTL

(* Though Get and Delete are two calls and the record comes from a cache, no   *)
(* namespace is terminated in the name of a record that is bound and not       *)
(* marked for deletion (reconcileDelete calls Delete by name).                 *)
THEOREM DeletionsClosing == Spec => DeletesOnlyClosing
<1> DEFINE A == DeleteNamespace /\ nsLog' # nsLog
                  => Record(worker.env).deleting \/ ~Record(worker.env).finalizer
<1>1. RecordInv /\ MarkInv => A
  BY DEF DeleteNamespace, RecordInv, PassShape, MarkInv, At
<1> QED
  BY <1>1, RecordCorrect, MarkCorrect, PTL DEF Spec, DeletesOnlyClosing

-----------------------------------------------------------------------------
(* What an environment holds *)

LEMMA HoldsMoves ==
  ASSUME TypeOK, ObjectsInv, [Next]_vars, NEW e \in Envs, NEW n \in Namespaces, Holds(e, n)'
  PROVE  Holds(e, n) \/ (Created(n) /\ e = worker.env)
<1>1. Namespace(n) \in NamespaceObjects /\ Change(n)
  BY NextChange, TypeParts, NamespaceType DEF ObjectsInv
<1>2. Namespace(n)'.present /\ Namespace(n)'.environment = e
  BY DEF Holds, owns
<1>3. ~Appears(n) /\ ~Ends1(n)
  BY <1>2, NobodyAssumption DEF Appears, Ends1, Foreign, NoNamespace
<1>4. CASE Created(n)
  BY <1>2, <1>4 DEF Created
<1>5. CASE Namespace(n)' = Namespace(n)
  BY <1>2, <1>5 DEF Holds, owns
<1>6. CASE Doomed(n) \/ Stripped(n) \/ Patched(n) \/ Deleted(n)
  BY <1>1, <1>2, <1>6, NobodyAssumption
     DEF Holds, owns, Doomed, Stripped, StripLabels, Patched, Deleted, NamespaceObjects
<1> QED
  BY <1>1, <1>3, <1>4, <1>5, <1>6 DEF Change

(* What a step may do to the stray namespaces. *)
LEMMA StrayMoves ==
  ASSUME TypeOK, RecordInv, ObjectsInv, [Next]_vars
  PROVE  \/ stray' = stray
         \/ \E e \in Envs, env \in Records : UserWrote(e, env)
         \/ GetNamespace
         \/ \E n \in Namespaces : Created(n) \/ Ends1(n) \/ Stripped(n)
<1>1. ASSUME NEW e \in Envs, UserActs(e) PROVE \E env \in Records : UserWrote(e, env)
  BY <1>1, UserLife
<1>2. ASSUME NEW e \in Envs, \/ WorkloadChanges(e) \/ Reconcile(e)
                             \/ DeliverRecord(e) \/ DeliverDeployment(e)
      PROVE  stray' = stray
  BY <1>2 DEF WorkloadChanges, Reconcile, DeliverRecord, DeliverDeployment, apiVars
<1>3. ASSUME NEW n \in Namespaces, OthersWrite(n)
      PROVE  stray' = stray \/ Ends1(n) \/ Stripped(n)
  <2>1. /\ LogsOK /\ Namespace(n) \in NamespaceObjects /\ NoNamespace \in NamespaceObjects
        /\ [Namespace(n) EXCEPT !.environment = Nobody, !.owner = Unset] \in NamespaceObjects
    <3>1. LogsOK /\ Namespace(n) \in NamespaceObjects
      BY TypeParts, NamespaceType
    <3> QED
      BY <3>1 DEF NoNamespace, NamespaceObjects
  <2>2. CASE StripLabels(n)
    BY <2>1, <2>2, NamespaceWritten DEF StripLabels, Outside, Stripped
  <2>3. CASE FinishTermination(n)
    BY <2>1, <2>3, NamespaceWritten DEF FinishTermination, Ends1
  <2>4. CASE ForeignCreate(n) \/ ForeignDelete(n)
    BY <2>4 DEF ForeignCreate, ForeignDelete
  <2> QED
    BY <1>3, <2>2, <2>3, <2>4 DEF OthersWrite, OutsiderActs
<1>4. ASSUME NEW n \in Namespaces, DeliverNamespace(n) PROVE stray' = stray
  BY <1>4 DEF DeliverNamespace, apiVars
<1>5. AddFinalizer \/ PatchNamespace \/ DeleteNamespace \/ Moves \/ RemoveFinalizer
        \/ Restart \/ Rest \/ UNCHANGED vars => stray' = stray
  BY DEF AddFinalizer, PatchNamespace, DeleteNamespace, Moves, WriteObjects, RefuseObjects,
         FinishProvisioning, ApiError, RemoveFinalizer, Restart, Rest, apiVars, vars
<1>6. CASE CreateNamespace
  <2>1. CASE Namespace(Target).present
    BY <1>6, <2>1 DEF CreateNamespace
  <2>2. CASE ~Namespace(Target).present
    <3> DEFINE new == [present |-> TRUE, terminating |-> FALSE,
                       environment |-> worker.env, owner |-> Seen.owner]
    <3>1. /\ LogsOK /\ worker.env \in Envs /\ Seen \in Records
          /\ \E n \in Namespaces : n = Target
      BY <1>6, TypeParts, TargetType DEF CreateNamespace, At, WorkerOK
    <3>2. PICK n \in Namespaces : n = Target
      BY <3>1
    <3>3. new \in NamespaceObjects
      BY <3>1 DEF NamespaceObjects, Records
    <3>4. WriteNamespace(n, new)
      BY <1>6, <2>2, <3>2 DEF CreateNamespace, labels
    <3>5. Namespace(n)' = new
      BY <3>1, <3>3, <3>4, NamespaceWritten
    <3> QED
      BY <1>6, <2>2, <3>2, <3>5 DEF Created
  <2> QED
    BY <2>1, <2>2
<1> QED
  BY <1>1, <1>2, <1>3, <1>4, <1>5, <1>6 DEF Next, Calls, Moves, OthersWrite

(* A namespace stops being stray only when nobody holds it any more. *)
LEMMA StrayLeaves ==
  ASSUME TypeOK, RecordInv, ObjectsInv, [Next]_vars,
         NEW e \in Envs, NEW n \in Namespaces, n \in stray, Holds(e, n)'
  PROVE  n \in stray'
<1>1. ASSUME NEW f \in Envs, NEW env \in Records, UserWrote(f, env) PROVE stray \subseteq stray'
  BY <1>1 DEF UserWrote
<1>2. GetNamespace => stray \subseteq stray'
  BY DEF GetNamespace
<1>3. ASSUME NEW m \in Namespaces, Created(m) PROVE stray \subseteq stray'
  BY <1>3 DEF Created, CreateNamespace
<1>4. ASSUME NEW m \in Namespaces, Ends1(m) \/ Stripped(m)
      PROVE  stray' = stray \ {m} /\ ~Holds(e, m)'
  <2>1. stray' = stray \ {m}
    BY <1>4 DEF Ends1, FinishTermination, Stripped, StripLabels
  <2>2. Namespace(m)'.environment = Nobody
    <3>1. Namespace(m) \in NamespaceObjects
      BY TypeParts, NamespaceType
    <3>2. CASE Ends1(m)
      BY <3>2 DEF Ends1, NoNamespace
    <3>3. CASE Stripped(m)
      BY <3>1, <3>3 DEF Stripped, NamespaceObjects
    <3> QED
      BY <1>4, <3>2, <3>3
  <2> QED
    BY <2>1, <2>2, NobodyAssumption DEF Holds, owns
<1> QED
  BY <1>1, <1>2, <1>3, <1>4, StrayMoves

(* The parts of HeldInv besides HeldIsRecorded. *)
StrayHeld == \A n \in stray : Namespace(n).present /\ Namespace(n).environment # Nobody
ReleasePass ==
  At("removeFinalizer") /\ ~Conflict =>
    \A n \in Namespaces : Holds(worker.env, n) => n \in stray

LEMMA HeldParts == HeldInv <=> HeldIsRecorded /\ StrayHeld /\ ReleasePass
BY DEF HeldInv, StrayHeld, ReleasePass

Accounted(e, n) ==
  Record(e).present /\ Record(e).finalizer /\ TargetNamespace(e, Record(e)) = n

(* A holder that is not stray stays accounted for: the finalizer is released  *)
(* only by a pass that leaves nothing but stray namespaces behind, and an edit *)
(* that points elsewhere makes the namespace stray.                            *)
LEMMA HolderKept ==
  ASSUME TypeOK, RecordInv, HeldInv, [Next]_vars,
         NEW e \in Envs, NEW n \in Namespaces, Holds(e, n), n \notin stray, n \notin stray'
  PROVE  Accounted(e, n)'
<1>1. LogsOK /\ Accounted(e, n)
  BY TypeParts, HeldParts DEF HeldIsRecorded, Accounted
<1>2. CASE Record(e)' = Record(e)
  BY <1>1, <1>2 DEF Accounted, TargetNamespace
<1>3. ASSUME NEW f \in Envs, NEW env \in Records, UserWrote(f, env)
      PROVE  Accounted(e, n)'
  <2>1. WriteRecord(f, env)
    BY <1>3 DEF UserWrote, UserWrites
  <2>2. CASE f # e
    BY <1>1, <1>2, <2>1, <2>2, RecordWritten
  <2>3. CASE f = e
    <3>1. env.finalizer /\ env.present /\ Record(e)' = env
      BY <1>1, <1>3, <2>1, <2>3, RecordWritten DEF Accounted, UserWrote, WellFormed
    <3>2. TargetNamespace(e, env) = n
      <4>1. CASE env.namespaceName = Record(e).namespaceName
        BY <1>1, <4>1 DEF Accounted, TargetNamespace
      <4>2. CASE stray' = stray \cup PointedAway(e, env)
        BY <4>2 DEF PointedAway
      <4> QED
        BY <1>3, <2>3, <3>1, <4>1, <4>2 DEF UserWrote
    <3> QED
      BY <3>1, <3>2 DEF Accounted, TargetNamespace
  <2> QED
    BY <2>2, <2>3
<1>4. CASE Finalized
  <2>1. ~Record(worker.env).finalizer
    BY <1>4 DEF Finalized, AddFinalizer, Conflict, RecordInv, PassShape, At, Seen, Record
  <2>2. worker.env # e /\ worker.env \in Envs
    BY <1>1, <1>4, <2>1, TypeParts DEF Accounted, Finalized, AddFinalizer, At, WorkerOK
  <2>3. [Seen EXCEPT !.finalizer = TRUE] \in Records
    BY <1>1, <1>4, TargetType, TypeParts DEF Finalized, AddFinalizer, At, Records
  <2> QED
    BY <1>1, <1>2, <1>4, <2>2, <2>3, RecordWritten DEF Finalized
<1>5. CASE Released
  <2>1. At("removeFinalizer") /\ ~Conflict /\ worker.env \in Envs
    BY <1>5, TypeParts DEF Released, RemoveFinalizer, At, WorkerOK
  <2>2. worker.env # e
    BY <2>1, HeldParts DEF ReleasePass
  <2>3. NoRecord \in Records
    BY DEF NoRecord, Records
  <2> QED
    BY <1>1, <1>2, <1>5, <2>1, <2>2, <2>3, RecordWritten DEF Released
<1>6. CASE UNCHANGED envLog
  BY <1>2, <1>6 DEF Record
<1> QED
  BY <1>3, <1>4, <1>5, <1>6, RecordMoves

(* A new holder: its record backs the version it was created from. *)
LEMMA CreatedRecorded ==
  ASSUME TypeOK, RecordInv, NEW e \in Envs, NEW n \in Namespaces,
         Created(n), e = worker.env, n \notin stray'
  PROVE  Accounted(e, n)'
<1>1. ~At("idle") /\ At("createNamespace") /\ UNCHANGED envLog /\ n = Target
  BY DEF Created, CreateNamespace, At
<1>2. Firm(Seen) /\ Backed(e, Seen)
  BY <1>1 DEF RecordInv, PassShape, PassBacked, At
<1>3. TargetNamespace(e, Record(e)) = n
  BY <1>1 DEF Created, CreateNamespace, MadeForOldTarget
<1>4. Record(e)' = Record(e)
  BY <1>1 DEF Record
<1> QED
  BY <1>2, <1>3, <1>4 DEF Accounted, Backed, TargetNamespace

LEMMA NextStrayHeld ==
  ASSUME TypeOK, TypeOK', RecordInv, ObjectsInv, StrayHeld, [Next]_vars
  PROVE  StrayHeld'
<1> SUFFICES ASSUME NEW n \in Namespaces, n \in stray'
             PROVE  Namespace(n)'.present /\ Namespace(n)'.environment # Nobody
  BY TypeParts DEF StrayHeld, RestOK, TypeOK
<1>1. Namespace(n) \in NamespaceObjects /\ Change(n)
  BY NextChange, TypeParts, NamespaceType DEF ObjectsInv
<1>2. CASE Created(n)
  BY <1>2, TypeParts, NobodyAssumption DEF Created, CreateNamespace, At, WorkerOK
<1>3. CASE Namespace(n).present /\ Namespace(n).environment # Nobody
  <2>1. ~Ends1(n) /\ ~Stripped(n)
    BY DEF Ends1, FinishTermination, Stripped, StripLabels
  <2> QED
    BY <1>1, <1>2, <1>3, <2>1 DEF Change, Appears, Doomed, Patched, Deleted, NamespaceObjects
<1>4. CASE n \notin stray /\ ~Created(n)
  <2>1. ASSUME NEW e \in Envs, Holds(e, n)
        PROVE  Namespace(n).present /\ Namespace(n).environment # Nobody
    BY <2>1, NobodyAssumption DEF Holds, owns
  <2>2. ASSUME NEW e \in Envs, NEW env \in Records, UserWrote(e, env) PROVE Holds(e, n)
    BY <1>4, <2>2 DEF UserWrote, PointedAway
  <2>3. GetNamespace => Holds(worker.env, n) /\ worker.env \in Envs
    BY <1>4, TypeParts DEF GetNamespace, Overlooked, At, WorkerOK
  <2>4. ASSUME NEW m \in Namespaces, Created(m) PROVE FALSE
    BY <1>4, <2>4 DEF Created, CreateNamespace, MadeForOldTarget
  <2>5. ASSUME NEW m \in Namespaces, Ends1(m) \/ Stripped(m) PROVE FALSE
    BY <1>4, <2>5 DEF Ends1, FinishTermination, Stripped, StripLabels
  <2> QED
    BY <1>3, <1>4, <2>1, <2>2, <2>3, <2>4, <2>5, StrayMoves
<1> QED
  BY <1>2, <1>3, <1>4 DEF StrayHeld

(* The pass that is about to release the finalizer has overlooked nothing but *)
(* what is stray; nothing can be created between its Get and its Update.      *)
LEMMA NextReleasePass ==
  ASSUME TypeOK, RecordInv, ObjectsInv, HeldInv, [Next]_vars
  PROVE  ReleasePass'
<1>1. LogsOK /\ WorkerOK /\ LogsOK' /\ WorkerOK' /\ LogsGrow
  BY TypeParts, NextType DEF TypeOK
<1> SUFFICES ASSUME worker'.pc = "removeFinalizer", ~Conflict',
                    NEW n \in Namespaces, Holds(worker.env, n)'
             PROVE  n \in stray'
  BY DEF ReleasePass, At
<1>2. CASE worker' = worker
  <2>1. PICK e \in Envs : e = worker.env
    BY <1>1, <1>2 DEF WorkerOK, At
  <2>2. At("removeFinalizer") /\ ~At("createNamespace") /\ Holds(e, n)'
    BY <1>2, <2>1 DEF At, Holds, owns
  <2>3. ~Conflict
    <3>1. /\ worker.rv \in 1 .. Len(envLog[e]) /\ worker.rv = Len(envLog'[e])
          /\ Len(envLog[e]) \in Nat /\ Len(envLog[e]) <= Len(envLog'[e])
      BY <1>1, <1>2, <2>1, <2>2 DEF WorkerOK, At, Conflict, LogsGrow, Grown, LogsOK
    <3> QED
      BY <2>1, <3>1 DEF Conflict
  <2>4. Holds(e, n)
    BY <2>2, HoldsMoves DEF Created, CreateNamespace
  <2>5. n \in stray
    BY <2>1, <2>2, <2>3, <2>4, HeldParts DEF ReleasePass
  <2> QED
    BY <2>2, <2>5, StrayLeaves
<1>3. CASE GetNamespace /\ NextStep \in Steps /\ Proceeds(NextStep)
  <2>1. /\ Got \in NamespaceObjects /\ Target \in Namespaces /\ UNCHANGED <<envLog, nsLog>>
        /\ NextStep = "removeFinalizer" /\ worker'.env = worker.env /\ worker'.rv = worker.rv
    BY <1>3, GetNamespaceStep DEF Proceeds
  <2>2. PICK e \in Envs : e = worker.env
    BY <1>3, GetNamespaceStep
  <2>3. Holds(e, n) /\ Seen = Record(e)
    <3>1. Holds(e, n)
      BY <2>1, <2>2 DEF Holds, owns, Namespace
    <3>2. worker.rv = Len(envLog[e])
      BY <2>1, <2>2 DEF Conflict
    <3> QED
      BY <2>2, <3>1, <3>2 DEF Seen, Record
  <2>4. Seen.deleting /\ ~(Got.present /\ owns(e, Got))
    BY <2>1, <2>2, StepsType DEF NextStep
  <2>5. stray' = stray \cup Overlooked(e, Target, Got)
    BY <1>3, <2>2, <2>4 DEF GetNamespace, CachedNamespace, Got
  <2>6. CASE n \in stray
    BY <2>5, <2>6
  <2>7. CASE n \notin stray
    <3>1. n = Target
      BY <2>2, <2>3, <2>7, HeldParts DEF HeldIsRecorded, Target
    <3> QED
      BY <2>3, <2>4, <2>5, <3>1 DEF Overlooked
  <2> QED
    BY <2>6, <2>7
<1>4. CASE Finalized \/ Provisions \/ worker' = Idle \/ \E e \in Envs : Starts(e)
  BY <1>4 DEF Finalized, Provisions, Proceeds, Starts, Idle
<1> QED
  BY <1>2, <1>3, <1>4, WorkerMoves

LEMMA NextHeld ==
  ASSUME TypeOK, RecordInv, ObjectsInv, HeldInv, [Next]_vars
  PROVE  HeldInv'
<1>1. HeldIsRecorded'
  <2> SUFFICES ASSUME NEW e \in Envs, NEW n \in Namespaces, Holds(e, n)', n \notin stray'
               PROVE  Accounted(e, n)'
    BY DEF HeldIsRecorded, Accounted
  <2>1. n \notin stray
    BY StrayLeaves
  <2> QED
    BY <2>1, HoldsMoves, HolderKept, CreatedRecorded
<1>2. StrayHeld'
  BY NextType, NextStrayHeld, HeldParts
<1>3. ReleasePass'
  BY NextReleasePass
<1>4. HeldIsRecorded' /\ StrayHeld' /\ ReleasePass' => HeldInv'
  BY HeldParts, PTL
<1> QED
  BY <1>1, <1>2, <1>3, <1>4

(* What an environment holds without being stray is the target of its record,  *)
(* which keeps the finalizer; and a pass that is about to release it, and will  *)
(* not be refused, leaves only stray namespaces behind (reconcileDelete).       *)
THEOREM HeldCorrect == Spec => []HeldInv
<1>1. Init => HeldInv
  <2> SUFFICES ASSUME Init PROVE HeldInv
    OBVIOUS
  <2>1. \A n \in Namespaces : nsLog[n] = <<NoNamespace>> \/ nsLog[n] = <<Foreign>>
    BY DEF Init
  <2>2. \A n \in Namespaces : Namespace(n) = NoNamespace \/ Namespace(n) = Foreign
    BY <2>1 DEF Namespace
  <2>3. \A e \in Envs, n \in Namespaces : ~Holds(e, n)
    BY <2>2, NobodyAssumption DEF Holds, owns, NoNamespace, Foreign
  <2>4. stray = {} /\ ~At("removeFinalizer")
    BY DEF Init, At, Idle
  <2> QED
    BY <2>3, <2>4 DEF HeldInv, HeldIsRecorded
<1>2. TypeOK /\ RecordInv /\ ObjectsInv /\ HeldInv /\ [Next]_vars => HeldInv'
  BY NextHeld
<1> QED
  BY <1>1, <1>2, TypeCorrect, RecordCorrect, ObjectsCorrect, PTL DEF Spec

(* The record documents what is still being reclaimed: as long as a namespace  *)
(* carries an environment's labels, its record is there, with the finalizer,   *)
(* and points at it, or the namespace was led away from it in one of the three *)
(* ways stray remembers (Reconcile's order of finalizer, creation, teardown).  *)
THEOREM HeldRecorded == Spec => []HeldIsRecorded
<1>1. HeldInv => HeldIsRecorded
  BY DEF HeldInv
<1> QED
  BY <1>1, HeldCorrect, PTL

-----------------------------------------------------------------------------
(* The controller implements the lease *)

(* A step writes one record or one namespace, and leaves the caches behind. *)
LEMMA NamespaceMoves ==
  ASSUME TypeOK, [Next]_vars
  PROVE  \/ UNCHANGED nsLog
         \/ /\ UNCHANGED <<envLog, cacheVars>>
            /\ \E m \in Namespaces : \E ns : WriteNamespace(m, ns)
<1>1. ASSUME NEW m \in Namespaces, OthersWrite(m)
      PROVE  UNCHANGED <<envLog, cacheVars>> /\ \E ns : WriteNamespace(m, ns)
  BY <1>1 DEF OthersWrite, OutsiderActs, ForeignCreate, ForeignDelete, StripLabels, Outside,
              FinishTermination
<1>2. ASSUME WritesTarget
      PROVE  /\ UNCHANGED <<envLog, cacheVars>> /\ Target \in Namespaces
             /\ UNCHANGED nsLog \/ \E ns : WriteNamespace(Target, ns)
  <2>1. Target \in Namespaces
    BY <1>2, TargetType, TypeParts
       DEF WritesTarget, CreateNamespace, PatchNamespace, DeleteNamespace, At
  <2> QED
    BY <1>2, <2>1 DEF WritesTarget, CreateNamespace, PatchNamespace, DeleteNamespace
<1>3. ASSUME NEW e \in Envs, \/ UserActs(e) \/ WorkloadChanges(e) \/ Reconcile(e)
                             \/ DeliverRecord(e) \/ DeliverDeployment(e)
      PROVE  UNCHANGED nsLog
  BY <1>3 DEF UserActs, CreateEnv, DeleteEnv, EditNamespaceName, EditOwner, UserWrites,
              WorkloadChanges, Reconcile, DeliverRecord, DeliverDeployment, apiVars
<1>4. ASSUME NEW m \in Namespaces, DeliverNamespace(m) PROVE UNCHANGED nsLog
  BY <1>4 DEF DeliverNamespace, apiVars
<1>5. AddFinalizer \/ GetNamespace \/ Moves \/ RemoveFinalizer \/ Restart \/ Rest \/ UNCHANGED vars
        => UNCHANGED nsLog
  BY DEF AddFinalizer, GetNamespace, Moves, WriteObjects, RefuseObjects, FinishProvisioning,
         ApiError, RemoveFinalizer, Restart, Rest, apiVars, vars
<1> QED
  BY <1>1, <1>2, <1>3, <1>4, <1>5 DEF Next, Calls, WritesTarget, Moves, OthersWrite

LEMMA OneNamespace ==
  ASSUME TypeOK, [Next]_vars
  PROVE  \/ UNCHANGED nsLog
         \/ /\ UNCHANGED envLog
            /\ \E m \in Namespaces : \A n \in Namespaces : n # m => Namespace(n)' = Namespace(n)
<1>1. ASSUME NEW m \in Namespaces, NEW ns, WriteNamespace(m, ns), NEW n \in Namespaces, n # m
      PROVE  Namespace(n)' = Namespace(n)
  <2>1. nsLog'[n] = nsLog[n]
    BY <1>1, TypeParts DEF WriteNamespace, LogsOK
  <2> QED
    BY <2>1 DEF Namespace
<1> QED
  BY <1>1, NamespaceMoves

(* What the lease sees of a record and of a namespace. *)
StageOf(env) ==
  IF ~env.present THEN "none"
  ELSE IF ~env.finalizer THEN "open"
  ELSE IF env.deleting THEN "closing" ELSE "bound"
HolderOf(ns) ==
  IF ~ns.present THEN Nobody ELSE IF ns.environment = Nobody THEN Unset ELSE ns.environment

LEMMA Bars ==
  ASSUME LogsOK
  PROVE  /\ recordBar = [e \in Envs |-> StageOf(Record(e))]
         /\ holderBar = [n \in Namespaces |-> HolderOf(Namespace(n))]
<1>1. ASSUME NEW e \in Envs
      PROVE  (CASE ~Record(e).present -> "none"
                [] Record(e).present /\ ~Record(e).finalizer -> "open"
                [] Record(e).present /\ Record(e).finalizer /\ ~Record(e).deleting -> "bound"
                [] Record(e).present /\ Record(e).finalizer /\ Record(e).deleting -> "closing")
               = StageOf(Record(e))
  <2>1. /\ Record(e).present \in BOOLEAN /\ Record(e).finalizer \in BOOLEAN
        /\ Record(e).deleting \in BOOLEAN
    BY RecordType DEF Records
  <2> QED
    BY <2>1 DEF StageOf
<1>2. ASSUME NEW n \in Namespaces
      PROVE  (CASE ~Namespace(n).present -> Nobody
                [] Namespace(n).present /\ Namespace(n).environment = Nobody -> Unset
                [] Namespace(n).present /\ Namespace(n).environment # Nobody
                     -> Namespace(n).environment) = HolderOf(Namespace(n))
  <2>1. Namespace(n).present \in BOOLEAN
    BY NamespaceType DEF NamespaceObjects
  <2> QED
    BY <2>1 DEF HolderOf
<1> QED
  BY <1>1, <1>2 DEF recordBar, holderBar

LEMMA HolderIs ==
  ASSUME LogsOK, NEW e \in Envs, NEW n \in Namespaces
  PROVE  holderBar[n] = e <=> Holds(e, n)
BY Bars, NobodyAssumption, UnsetAssumption DEF HolderOf, Holds, owns

LEMMA NextBars ==
  LogsOK' => /\ recordBar' = [e \in Envs |-> StageOf(Record(e)')]
             /\ holderBar' = [n \in Namespaces |-> HolderOf(Namespace(n)')]
<1> DEFINE B == /\ recordBar = [e \in Envs |-> StageOf(Record(e))]
                /\ holderBar = [n \in Namespaces |-> HolderOf(Namespace(n))]
<1>1. LogsOK => B
  BY Bars
<1>2. LogsOK' => B'
  BY <1>1, PTL
<1> QED
  BY <1>2 DEF StageOf, HolderOf

LEMMA SameBars ==
  ASSUME LogsOK, LogsOK'
  PROVE  /\ UNCHANGED envLog => recordBar' = recordBar
         /\ UNCHANGED nsLog => holderBar' = holderBar
<1>1. ASSUME UNCHANGED envLog PROVE recordBar' = recordBar
  <2>1. \A e \in Envs : Record(e)' = Record(e)
    BY <1>1 DEF Record
  <2> QED
    BY <2>1, Bars, NextBars
<1>2. ASSUME UNCHANGED nsLog PROVE holderBar' = holderBar
  <2>1. \A n \in Namespaces : Namespace(n)' = Namespace(n)
    BY <1>2 DEF Namespace
  <2> QED
    BY <2>1, Bars, NextBars
<1> QED
  BY <1>1, <1>2

LEMMA RecordBecomes ==
  ASSUME LogsOK, LogsOK', UNCHANGED nsLog,
         NEW e \in Envs, NEW env \in Records, WriteRecord(e, env)
  PROVE  /\ recordBar[e] = StageOf(Record(e))
         /\ recordBar' = [recordBar EXCEPT ![e] = StageOf(env)] /\ holderBar' = holderBar
<1>1. Record(e)' = env /\ \A f \in Envs : f # e => Record(f)' = Record(f)
  BY RecordWritten
<1> QED
  BY <1>1, Bars, NextBars, SameBars

LEMMA NamespaceBecomes ==
  ASSUME LogsOK, LogsOK', UNCHANGED envLog, NEW m \in Namespaces,
         \A n \in Namespaces : n # m => Namespace(n)' = Namespace(n)
  PROVE  /\ holderBar[m] = HolderOf(Namespace(m))
         /\ holderBar' = [holderBar EXCEPT ![m] = HolderOf(Namespace(m)')] /\ recordBar' = recordBar
BY Bars, NextBars, SameBars

LeaseStep == Lease!Next \/ UNCHANGED <<recordBar, holderBar, stray>>

(* The records move, by one, from one stage to the next. *)
LEMMA StageStep ==
  ASSUME LogsOK, LogsOK', UNCHANGED <<nsLog, stray>>,
         NEW e \in Envs, NEW env \in Records, WriteRecord(e, env),
         \/ StageOf(env) = StageOf(Record(e))
         \/ <<StageOf(Record(e)), StageOf(env)>>
              \in {<<"none", "open">>, <<"open", "none">>, <<"open", "bound">>, <<"bound", "closing">>}
         \/ /\ StageOf(Record(e)) = "closing" /\ StageOf(env) = "none"
            /\ \A n \in Namespaces : Holds(e, n) => n \in stray
  PROVE  LeaseStep
<1>1. /\ recordBar[e] = StageOf(Record(e)) /\ holderBar' = holderBar
      /\ recordBar' = [recordBar EXCEPT ![e] = StageOf(env)]
      /\ recordBar = [recordBar EXCEPT ![e] = recordBar[e]]
  BY RecordBecomes, Bars
<1>2. CASE StageOf(env) = StageOf(Record(e))
  BY <1>1, <1>2 DEF LeaseStep
<1>3. CASE StageOf(env) # StageOf(Record(e))
  <2>1. recordBar'[e] = StageOf(env)
    BY <1>1, Bars
  <2>2. recordBar' # recordBar
    BY <1>1, <1>3, <2>1
  <2>3. \/ Lease!Open(e) \/ Lease!Drop(e) \/ Lease!Bind(e) \/ Lease!Close(e) \/ Lease!Forget(e)
    BY <1>1, <1>3, HolderIs
       DEF Lease!Open, Lease!Drop, Lease!Bind, Lease!Close, Lease!Forget, Lease!OnlyStray, Lease!Become
  <2> QED
    BY <1>1, <2>2, <2>3 DEF LeaseStep, Lease!Next, Lease!RecordMoves
<1> QED
  BY <1>2, <1>3

(* Namespaces that go stray under their holder: at most one that is not yet. *)
LEMMA StrayStep ==
  ASSUME TypeOK, TypeOK', HeldInv, UNCHANGED nsLog, recordBar' = recordBar,
         NEW e \in Envs, NEW S \in SUBSET Namespaces, \A n \in S : Holds(e, n),
         stray' = stray \cup S
  PROVE  LeaseStep
<1>1. LogsOK /\ LogsOK' /\ holderBar' = holderBar
  BY TypeParts, SameBars DEF TypeOK
<1>2. CASE stray' = stray
  BY <1>1, <1>2 DEF LeaseStep
<1>3. CASE stray' # stray
  <2>1. PICK n \in S : n \notin stray
    BY <1>3
  <2>2. /\ Holds(e, n) /\ Record(e).present /\ Record(e).finalizer
        /\ TargetNamespace(e, Record(e)) = n
    BY <2>1, HeldParts DEF HeldIsRecorded
  <2>3. \A m \in S : m = n \/ m \in stray
    BY <2>2, HeldParts DEF HeldIsRecorded
  <2>4. stray' = stray \cup {n}
    BY <2>1, <2>3
  <2>5. recordBar[e] \in {"bound", "closing"} /\ holderBar[n] = e
    BY <1>1, <2>1, <2>2, Bars, HolderIs DEF StageOf
  <2>6. Lease!GoStray(e, n)
    BY <1>1, <2>4, <2>5 DEF Lease!GoStray, Lease!Bound
  <2> QED
    BY <1>3, <2>1, <2>6 DEF LeaseStep, Lease!Next, Lease!LeaseMoves
<1> QED
  BY <1>2, <1>3

LEMMA UserStep ==
  ASSUME TypeOK, TypeOK', RecordInv, HeldInv,
         NEW e \in Envs, NEW env \in Records, UserWrote(e, env)
  PROVE  LeaseStep
<1>1. /\ LogsOK /\ LogsOK' /\ WriteRecord(e, env) /\ UNCHANGED nsLog
      /\ WellFormed(env) /\ WellFormed(Record(e)) /\ Record(e) \in Records
      /\ env.finalizer = Record(e).finalizer /\ SameLife(Record(e), env)
  BY RecordType, TypeParts DEF UserWrote, UserWrites, RecordInv, Record, TypeOK
<1>2. CASE stray' = stray
  <2>1. \/ StageOf(env) = StageOf(Record(e))
        \/ <<StageOf(Record(e)), StageOf(env)>>
             \in {<<"none", "open">>, <<"open", "none">>, <<"open", "bound">>, <<"bound", "closing">>}
    BY <1>1 DEF StageOf, WellFormed, SameLife, Records
  <2> QED
    BY <1>1, <1>2, <2>1, StageStep
<1>3. CASE /\ stray' = stray \cup PointedAway(e, env)
           /\ env.present /\ Record(e).present /\ env.deleting = Record(e).deleting
  <2>1. StageOf(env) = StageOf(Record(e))
    BY <1>1, <1>3 DEF StageOf
  <2>2. recordBar' = recordBar
    BY <1>1, <2>1, RecordBecomes, Bars
  <2>3. PointedAway(e, env) \in SUBSET Namespaces /\ \A n \in PointedAway(e, env) : Holds(e, n)
    BY DEF PointedAway
  <2> QED
    BY <1>1, <1>3, <2>2, <2>3, StrayStep
<1> QED
  BY <1>2, <1>3 DEF UserWrote

LEMMA RecordStep ==
  ASSUME TypeOK, TypeOK', RecordInv, ObjectsInv, HeldInv, [Next]_vars, UNCHANGED nsLog
  PROVE  LeaseStep
<1>1. LogsOK /\ LogsOK' /\ WorkerOK
  BY TypeParts DEF TypeOK
<1>2. ASSUME NEW e \in Envs, NEW env \in Records, UserWrote(e, env) PROVE LeaseStep
  BY <1>2, UserStep
<1>3. CASE Finalized
  <2> DEFINE env == [Seen EXCEPT !.finalizer = TRUE]
  <2>1. /\ worker.env \in Envs /\ Seen \in Records /\ WriteRecord(worker.env, env)
        /\ UNCHANGED <<nsLog, stray>>
    BY <1>1, <1>3, TargetType DEF Finalized, AddFinalizer, At, WorkerOK
  <2>2. /\ Seen = Record(worker.env)
        /\ Seen.present /\ ~Seen.finalizer /\ ~Seen.deleting
    BY <1>3 DEF Finalized, AddFinalizer, Conflict, Seen, Record, RecordInv, PassShape, At
  <2>3. env \in Records /\ env.present /\ env.finalizer /\ ~env.deleting
    BY <2>1, <2>2 DEF Records
  <2> HIDE DEF env
  <2>4. StageOf(Record(worker.env)) = "open" /\ StageOf(env) = "bound"
    BY <2>2, <2>3 DEF StageOf
  <2> QED
    BY <1>1, <2>1, <2>3, <2>4, StageStep
<1>4. CASE Released
  <2>1. /\ worker.env \in Envs /\ At("removeFinalizer") /\ ~Conflict
        /\ WriteRecord(worker.env, NoRecord) /\ UNCHANGED <<nsLog, stray>>
        /\ worker.rv \in 1 .. Len(envLog[worker.env])
    BY <1>1, <1>4 DEF Released, RemoveFinalizer, At, WorkerOK
  <2>2. Seen = Record(worker.env) /\ Seen.deleting /\ Seen.finalizer /\ Seen.present
    BY <2>1 DEF Conflict, Seen, Record, RecordInv, PassShape, WellFormed, At
  <2>3. \A n \in Namespaces : Holds(worker.env, n) => n \in stray
    BY <2>1, HeldParts DEF ReleasePass
  <2>4. NoRecord \in Records /\ StageOf(NoRecord) = "none"
    BY DEF NoRecord, Records, StageOf
  <2>5. StageOf(Record(worker.env)) = "closing"
    BY <2>2 DEF StageOf
  <2> QED
    BY <1>1, <2>1, <2>3, <2>4, <2>5, StageStep
<1>5. CASE UNCHANGED envLog
  <2>1. recordBar' = recordBar /\ holderBar' = holderBar
    BY <1>1, <1>5, SameBars
  <2>2. CASE stray' = stray
    BY <2>1, <2>2 DEF LeaseStep
  <2>3. CASE GetNamespace
    <3>1. worker.env \in Envs /\ Target \in Namespaces
      BY <2>3, GetNamespaceStep
    <3>2. PICK S \in SUBSET Namespaces :
            stray' = stray \cup S /\ \A n \in S : Holds(worker.env, n)
      <4>1. CASE Seen.deleting
        <5> DEFINE S == Overlooked(worker.env, Target, CachedNamespace(Target))
        <5>1. S \in SUBSET Namespaces /\ \A n \in S : Holds(worker.env, n)
          BY <3>1 DEF Overlooked
        <5>2. stray' = stray \cup S
          BY <2>3, <4>1 DEF GetNamespace
        <5> QED
          BY <5>1, <5>2
      <4>2. CASE ~Seen.deleting
        <5>1. {} \in SUBSET Namespaces /\ stray' = stray \cup {}
          BY <2>3, <4>2 DEF GetNamespace
        <5> QED
          BY <5>1
      <4> QED
        BY <4>1, <4>2
    <3> QED
      BY <2>1, <3>1, <3>2, StrayStep
  <2>4. ASSUME NEW n \in Namespaces, Created(n) \/ Ends1(n) \/ Stripped(n) PROVE FALSE
    <3>1. Namespace(n)' = Namespace(n) /\ Namespace(n) \in NamespaceObjects
      BY NamespaceSame, NamespaceType, <1>1
    <3>2. ~Created(n)
      BY <3>1 DEF Created
    <3>3. ~Ends1(n)
      BY <3>1 DEF Ends1, FinishTermination, NoNamespace
    <3>4. ~Stripped(n)
      BY <3>1 DEF Stripped, StripLabels, NamespaceObjects
    <3> QED
      BY <2>4, <3>2, <3>3, <3>4
  <2> QED
    BY <1>2, <2>2, <2>3, <2>4, StrayMoves
<1> QED
  BY <1>2, <1>3, <1>4, <1>5, RecordMoves

LEMMA NamespaceStepMaps ==
  ASSUME TypeOK, TypeOK', RecordInv, ObjectsInv, HeldInv, [Next]_vars,
         UNCHANGED envLog, nsLog' # nsLog, NEW m \in Namespaces,
         \A n \in Namespaces : n # m => Namespace(n)' = Namespace(n)
  PROVE  LeaseStep
<1>1. /\ LogsOK /\ LogsOK' /\ Namespace(m) \in NamespaceObjects /\ Change(m)
      /\ stray \subseteq Namespaces
  BY TypeParts, NamespaceType, NextChange DEF TypeOK, ObjectsInv
<1>2. /\ holderBar[m] = HolderOf(Namespace(m)) /\ recordBar' = recordBar
      /\ holderBar' = [holderBar EXCEPT ![m] = HolderOf(Namespace(m)')]
      /\ holderBar'[m] = HolderOf(Namespace(m)')
  BY <1>1, NamespaceBecomes, Bars
<1>3. CASE stray' = stray /\ HolderOf(Namespace(m)') = HolderOf(Namespace(m))
  <2>1. holderBar = [holderBar EXCEPT ![m] = holderBar[m]]
    BY <1>1, Bars
  <2> QED
    BY <1>2, <1>3, <2>1 DEF LeaseStep
<1>4. ASSUME HolderOf(Namespace(m)') # HolderOf(Namespace(m))
      PROVE  <<holderBar, stray>>' # <<holderBar, stray>>
  <2>1. holderBar'[m] # holderBar[m]
    BY <1>2, <1>4
  <2> QED
    BY <2>1
<1>5. CASE Appears(m)
  <2>1. HolderOf(Namespace(m)) = Nobody /\ HolderOf(Namespace(m)') = Unset
    BY <1>5 DEF Appears, HolderOf, Foreign, NoNamespace
  <2>2. Lease!OutsiderTakes(m)
    BY <1>2, <1>5, <2>1 DEF Lease!OutsiderTakes, Appears
  <2>3. CASE Unset = Nobody
    BY <1>3, <1>5, <2>1, <2>3 DEF Appears
  <2> QED
    BY <1>2, <1>4, <2>1, <2>2, <2>3 DEF LeaseStep, Lease!Next, Lease!LeaseMoves
<1>6. CASE Ends1(m)
  <2>1. /\ Namespace(m).present /\ HolderOf(Namespace(m)') = Nobody
        /\ stray' = stray \ {m}
    BY <1>6 DEF Ends1, FinishTermination, ObjectsInv, AbsentOK, NoNamespace, HolderOf
  <2>2. CASE HolderOf(Namespace(m)) = Nobody
    <3>1. Namespace(m).environment = Nobody
      BY <1>1, <2>1, <2>2 DEF HolderOf, NamespaceObjects
    <3>2. m \notin stray
      BY <3>1, HeldParts DEF StrayHeld
    <3> QED
      BY <1>3, <2>1, <2>2, <3>2
  <2>3. CASE HolderOf(Namespace(m)) # Nobody
    <3>1. Lease!End(m, Nobody)
      BY <1>2, <2>1, <2>3 DEF Lease!End
    <3> QED
      BY <1>2, <1>4, <2>1, <2>3, <3>1 DEF LeaseStep, Lease!Next, Lease!LeaseMoves
  <2> QED
    BY <2>2, <2>3
<1>7. CASE Stripped(m)
  <2>1. /\ HolderOf(Namespace(m)) \in Envs /\ HolderOf(Namespace(m)') = Unset
        /\ stray' = stray \ {m}
    BY <1>1, <1>7 DEF Stripped, StripLabels, HolderOf, NamespaceObjects
  <2>2. Unset \notin Envs /\ Nobody \notin Envs
    BY NobodyAssumption, UnsetAssumption
  <2>3. Lease!End(m, Unset)
    BY <1>2, <2>1, <2>2 DEF Lease!End
  <2> QED
    BY <1>2, <1>4, <2>1, <2>2, <2>3 DEF LeaseStep, Lease!Next, Lease!LeaseMoves
<1>8. CASE Created(m)
  <2>1. PICK e \in Envs : e = worker.env
    BY <1>8, TypeParts DEF Created, CreateNamespace, At, WorkerOK
  <2>2. At("createNamespace") /\ m = Target
    BY <1>8 DEF Created, CreateNamespace
  <2>3. Record(e).present /\ Record(e).finalizer
    BY <2>1, <2>2 DEF RecordInv, PassShape, PassBacked, Backed, At
  <2>4. recordBar[e] \in {"bound", "closing"}
    BY <1>1, <2>3, Bars DEF StageOf
  <2>5. HolderOf(Namespace(m)) = Nobody /\ HolderOf(Namespace(m)') = e
    BY <1>8, <2>1, NobodyAssumption DEF Created, HolderOf
  <2>6. stray' = stray \cup MadeForOldTarget(e, m)
    BY <1>8, <2>1, <2>2 DEF Created, CreateNamespace
  <2>7. CASE TargetNamespace(e, Record(e)) # m
    <3>1. Lease!AcquireForOldTarget(e, m)
      BY <1>2, <2>4, <2>5, <2>6, <2>7
         DEF MadeForOldTarget, Lease!AcquireForOldTarget, Lease!Bound
    <3> QED
      BY <1>2, <1>4, <2>5, <3>1, NobodyAssumption DEF LeaseStep, Lease!Next, Lease!LeaseMoves
  <2>8. CASE TargetNamespace(e, Record(e)) = m
    <3>1. \A n \in Namespaces \ {m} : holderBar[n] = e => n \in stray
      BY <1>1, <2>8, HeldParts, HolderIs DEF HeldIsRecorded
    <3>2. stray' = stray
      BY <2>6, <2>8 DEF MadeForOldTarget
    <3>3. Lease!Acquire(e, m)
      BY <1>2, <2>4, <2>5, <3>1, <3>2 DEF Lease!Acquire, Lease!Bound, Lease!OnlyStray
    <3> QED
      BY <1>2, <1>4, <2>5, <3>3, NobodyAssumption DEF LeaseStep, Lease!Next, Lease!LeaseMoves
  <2> QED
    BY <2>7, <2>8
<1>9. CASE Doomed(m) \/ Patched(m) \/ Deleted(m)
  <2>1. HolderOf(Namespace(m)') = HolderOf(Namespace(m)) /\ stray' = stray
    BY <1>1, <1>9
       DEF Doomed, Patched, Deleted, PatchNamespace, DeleteNamespace, HolderOf, NamespaceObjects
  <2> QED
    BY <1>3, <2>1
<1>10. CASE Namespace(m)' = Namespace(m)
  <2>1. ASSUME NEW n \in Namespaces, Created(n) \/ Ends1(n) \/ Stripped(n) PROVE FALSE
    <3>1. Namespace(n)' = Namespace(n) /\ Namespace(n) \in NamespaceObjects
      BY <1>1, <1>10, NamespaceType
    <3>2. ~Created(n)
      BY <3>1 DEF Created
    <3>3. ~Ends1(n)
      BY <3>1 DEF Ends1, FinishTermination, ObjectsInv, AbsentOK, NoNamespace
    <3>4. ~Stripped(n)
      BY <3>1 DEF Stripped, StripLabels, NamespaceObjects
    <3> QED
      BY <2>1, <3>2, <3>3, <3>4
  <2>2. ~GetNamespace /\ \A e \in Envs, env \in Records : ~UserWrote(e, env)
    BY DEF GetNamespace, UserWrote, UserWrites
  <2>3. stray' = stray
    BY <2>1, <2>2, StrayMoves
  <2> QED
    BY <1>3, <1>10, <2>3
<1> QED
  BY <1>1, <1>5, <1>6, <1>7, <1>8, <1>9, <1>10 DEF Change

(* The controller, its caches, its crashes and its failing calls implement the *)
(* lease: whatever users, outsiders and lagging caches do, every step is a     *)
(* step of EnvironmentLease or none.                                           *)
THEOREM LeaseImplemented == Spec => LeaseSpec
<1>1. Init => Lease!Init
  <2> SUFFICES ASSUME Init PROVE Lease!Init
    OBVIOUS
  <2>1. LogsOK
    BY InitType, TypeParts
  <2>2. \A e \in Envs : envLog[e] = <<NoRecord>>
    BY DEF Init
  <2>3. \A e \in Envs : StageOf(Record(e)) = "none"
    BY <2>2 DEF Record, StageOf, NoRecord
  <2>4. \A n \in Namespaces : nsLog[n] = <<NoNamespace>> \/ nsLog[n] = <<Foreign>>
    BY DEF Init
  <2>5. \A n \in Namespaces : Namespace(n) = NoNamespace \/ Namespace(n) = Foreign
    BY <2>4 DEF Namespace
  <2>6. \A n \in Namespaces : HolderOf(Namespace(n)) \in {Nobody, Unset}
    BY <2>5 DEF HolderOf, Foreign, NoNamespace
  <2>7. stray = {}
    BY DEF Init
  <2> QED
    BY <2>1, <2>3, <2>6, <2>7, Bars DEF Lease!Init
<1>2. TypeOK /\ TypeOK' /\ RecordInv /\ ObjectsInv /\ HeldInv /\ [Next]_vars
        => [Lease!Next]_(Lease!vars)
  <2> SUFFICES ASSUME TypeOK, TypeOK', RecordInv, ObjectsInv, HeldInv, [Next]_vars
               PROVE  LeaseStep
    BY DEF LeaseStep, Lease!vars
  <2> QED
    BY RecordStep, NamespaceStepMaps, OneNamespace
<1> QED
  BY <1>1, <1>2, TypeCorrect, RecordCorrect, ObjectsCorrect, HeldCorrect, PTL
     DEF Spec, LeaseSpec, Lease!Spec

(* So a lease that has not gone astray has a record that the finalizer keeps,  *)
(* and an environment has one such lease at most (TargetNamespace, Reconcile). *)
THEOREM LeasesSafe == Spec => [](Lease!LeaseRecorded /\ Lease!OneLease)
<1>1. Lease!Spec => [](Lease!TypeOK /\ Lease!LeaseRecorded /\ Lease!OneLease)
  BY NobodyAssumption, UnsetAssumption, Lease!LeaseSafe
<1> QED
  BY <1>1, LeaseImplemented, PTL DEF LeaseSpec

-----------------------------------------------------------------------------
(* The owner label *)

Shown(e, n) ==
  /\ Holds(e, n) /\ Record(e).owner # Unset
  /\ ~Record(e).deleting /\ n = TargetNamespace(e, Record(e))
  => Namespace(n).owner = Record(e).owner

(* An event of the record or of the namespace is still to come. *)
Behind(e, n) == envSeen[e] < Len(envLog[e]) \/ nsSeen[n] < Len(nsLog[n])

(* The running pass works on the last version of the record and will look at   *)
(* the namespace, or has read it with another owner and is about to patch it.  *)
Repairs(e, n) ==
  /\ ~At("idle") /\ worker.env = e /\ worker.rv = Len(envLog[e])
  /\ \/ worker.pc \in {"addFinalizer", "getNamespace"}
     \/ At("patchNamespace") /\ nsLog[n][worker.nsrv].owner # Record(e).owner

OwnerOK(e, n) == Shown(e, n) \/ e \in queue \/ Behind(e, n) \/ Repairs(e, n)

(* Wherever a namespace does not show the owner its record names, something is *)
(* still to happen that makes the controller look again: a queued environment, *)
(* an event under way, or the pass itself.                                     *)
OwnerInv ==
  /\ \A e \in Envs : ~Record(e).present => Record(e).owner = Unset
  /\ \A e \in Envs, n \in Namespaces : OwnerOK(e, n)

LEMMA RecordAdvances ==
  ASSUME TypeOK, RecordInv, [Next]_vars, NEW e \in Envs
  PROVE  \/ envLog'[e] = envLog[e]
         \/ Len(envLog'[e]) = Len(envLog[e]) + 1 /\ UNCHANGED envSeen
<1>1. LogsOK /\ WorkerOK
  BY TypeParts
<1>2. ASSUME NEW f \in Envs, NEW env \in Records, WriteRecord(f, env), UNCHANGED envSeen
      PROVE  \/ envLog'[e] = envLog[e]
             \/ Len(envLog'[e]) = Len(envLog[e]) + 1 /\ UNCHANGED envSeen
  BY <1>1, <1>2, RecordWritten
<1>3. ASSUME NEW f \in Envs, NEW env \in Records, UserWrote(f, env)
      PROVE  WriteRecord(f, env) /\ UNCHANGED envSeen
  BY <1>3 DEF UserWrote, UserWrites, cacheVars
<1>4. Finalized => \E f \in Envs, env \in Records : WriteRecord(f, env) /\ UNCHANGED envSeen
  <2> SUFFICES ASSUME Finalized
               PROVE  \E f \in Envs, env \in Records : WriteRecord(f, env) /\ UNCHANGED envSeen
    OBVIOUS
  <2>1. worker.env \in Envs /\ Seen \in Records
    BY <1>1, TargetType DEF Finalized, AddFinalizer, At, WorkerOK
  <2>2. [Seen EXCEPT !.finalizer = TRUE] \in Records
    BY <2>1 DEF Records
  <2> QED
    BY <2>1, <2>2 DEF Finalized, AddFinalizer, cacheVars
<1>5. Released => \E f \in Envs, env \in Records : WriteRecord(f, env) /\ UNCHANGED envSeen
  <2>1. NoRecord \in Records
    BY DEF NoRecord, Records
  <2> QED
    BY <1>1, <2>1 DEF Released, RemoveFinalizer, At, WorkerOK, cacheVars
<1> QED
  BY <1>2, <1>3, <1>4, <1>5, RecordMoves

LEMMA NamespaceAdvances ==
  ASSUME TypeOK, [Next]_vars, NEW n \in Namespaces
  PROVE  \/ nsLog'[n] = nsLog[n]
         \/ Len(nsLog'[n]) = Len(nsLog[n]) + 1 /\ UNCHANGED nsSeen
<1>1. LogsOK
  BY TypeParts
<1>2. ASSUME NEW m \in Namespaces, NEW ns, WriteNamespace(m, ns), UNCHANGED nsSeen
      PROVE  \/ nsLog'[n] = nsLog[n]
             \/ Len(nsLog'[n]) = Len(nsLog[n]) + 1 /\ UNCHANGED nsSeen
  <2>1. CASE nsLog' = nsLog
    BY <2>1
  <2>2. CASE nsLog' = [nsLog EXCEPT ![m] = Append(nsLog[m], ns)]
    <3>1. Len(Append(nsLog[m], ns)) = Len(nsLog[m]) + 1
      BY <1>1 DEF LogsOK
    <3> QED
      BY <1>1, <1>2, <2>2, <3>1 DEF LogsOK
  <2> QED
    BY <1>2, <2>1, <2>2 DEF WriteNamespace
<1> QED
  BY <1>2, NamespaceMoves DEF cacheVars

(* A write leaves the caches behind. *)
LEMMA WriteLeavesBehind ==
  ASSUME TypeOK, RecordInv, [Next]_vars, NEW e \in Envs, NEW n \in Namespaces
  PROVE  (envLog'[e] = envLog[e] /\ nsLog'[n] = nsLog[n]) \/ Behind(e, n)'
<1>1. /\ envSeen[e] \in 1 .. Len(envLog[e]) /\ Len(envLog[e]) \in Nat
      /\ nsSeen[n] \in 1 .. Len(nsLog[n]) /\ Len(nsLog[n]) \in Nat
  BY TypeParts DEF LogsOK, CachesOK
<1>2. CASE Len(envLog'[e]) = Len(envLog[e]) + 1 /\ UNCHANGED envSeen
  BY <1>1, <1>2 DEF Behind
<1>3. CASE Len(nsLog'[n]) = Len(nsLog[n]) + 1 /\ UNCHANGED nsSeen
  BY <1>1, <1>3 DEF Behind
<1> QED
  BY <1>2, <1>3, RecordAdvances, NamespaceAdvances

(* What is true of every step but the six that have lemmas of their own below. *)
LEMMA OwnerKept ==
  ASSUME TypeOK, NEW e \in Envs, NEW n \in Namespaces, OwnerOK(e, n),
         envLog'[e] = envLog[e], nsLog'[n] = nsLog[n],
         envSeen'[e] = envSeen[e], nsSeen'[n] = nsSeen[n],
         e \in queue => e \in queue',
         Repairs(e, n) => worker' = worker \/ e \in queue'
  PROVE  OwnerOK(e, n)'
<1>1. Record(e)' = Record(e) /\ Namespace(n)' = Namespace(n)
  BY DEF Record, Namespace
<1>2. Shown(e, n) => Shown(e, n)'
  BY <1>1 DEF Shown, Holds, owns, TargetNamespace
<1>3. Behind(e, n) => Behind(e, n)'
  BY DEF Behind
<1>4. Repairs(e, n) /\ worker' = worker => Repairs(e, n)'
  BY <1>1 DEF Repairs, At
<1> QED
  BY <1>2, <1>3, <1>4 DEF OwnerOK

(* A namespace that does not show its owner is held, by a record that stays. *)
LEMMA NotShown ==
  ASSUME TypeOK, OwnerInv, NEW e \in Envs, NEW n \in Namespaces, ~Shown(e, n)
  PROVE  /\ Namespace(n).present /\ Namespace(n).environment = e
         /\ Record(e) \in Records /\ Record(e).present /\ ~Record(e).deleting
         /\ Record(e).owner # Unset /\ Namespace(n).owner # Record(e).owner
         /\ n = TargetNamespace(e, Record(e))
BY RecordType, TypeParts DEF Shown, Holds, owns, OwnerInv

LEMMA OwnerReconcile ==
  ASSUME TypeOK, OwnerInv, NEW e \in Envs, NEW n \in Namespaces, NEW f \in Envs, Reconcile(f)
  PROVE  OwnerOK(e, n)'
<1>1. /\ UNCHANGED <<envLog, envSeen, nsLog, nsSeen>> /\ queue' = queue \ {f}
      /\ ~Repairs(e, n) /\ OwnerOK(e, n)
  BY DEF Reconcile, apiVars, cacheVars, Repairs, OwnerInv
<1>2. CASE f # e \/ Shown(e, n) \/ Behind(e, n)
  <2>1. Shown(e, n) => Shown(e, n)'
    BY <1>1 DEF Shown, Holds, owns, TargetNamespace, Record, Namespace
  <2>2. Behind(e, n) => Behind(e, n)'
    BY <1>1 DEF Behind
  <2> QED
    BY <1>1, <1>2, <2>1, <2>2 DEF OwnerOK
<1>3. CASE f = e /\ ~Shown(e, n) /\ ~Behind(e, n)
  <2>1. envSeen[e] = Len(envLog[e])
    BY <1>3, TypeParts DEF Behind, CachesOK, LogsOK
  <2>2. Record(e) \in Records /\ Record(e).present /\ ~Record(e).deleting
    BY <1>3, NotShown
  <2>3. CachedRecord(e) = Record(e)
    BY <2>1 DEF CachedRecord, Record
  <2>4. FirstStep(Record(e)) \in {"addFinalizer", "getNamespace"}
    BY <2>2 DEF FirstStep, Records
  <2>5. worker' = [Idle EXCEPT !.pc = FirstStep(Record(e)), !.env = e, !.rv = Len(envLog[e])]
    BY <1>3, <2>1, <2>3, <2>4 DEF Reconcile
  <2>6. /\ worker'.pc = FirstStep(Record(e))
        /\ worker'.env = e /\ worker'.rv = Len(envLog[e])
    BY <2>5 DEF Idle
  <2>7. Repairs(e, n)'
    BY <1>1, <2>4, <2>6 DEF Repairs, At
  <2> QED
    BY <2>7 DEF OwnerOK
<1> QED
  BY <1>2, <1>3

LEMMA OwnerDelivery ==
  ASSUME TypeOK, OwnerInv, NEW e \in Envs, NEW n \in Namespaces,
         \/ \E f \in Envs : DeliverRecord(f)
         \/ \E m \in Namespaces : DeliverNamespace(m)
  PROVE  OwnerOK(e, n)'
<1>1. OwnerOK(e, n) /\ LogsOK /\ CachesOK
  BY TypeParts DEF OwnerInv
<1>2. ASSUME NEW f \in Envs, DeliverRecord(f) PROVE OwnerOK(e, n)'
  <2>1. /\ UNCHANGED <<envLog, nsLog, nsSeen, worker>> /\ queue' = queue \cup {f}
        /\ f # e => envSeen'[e] = envSeen[e]
    BY <1>1, <1>2 DEF DeliverRecord, apiVars, CachesOK
  <2>2. CASE f = e
    BY <2>1, <2>2 DEF OwnerOK
  <2>3. CASE f # e
    BY <1>1, <2>1, <2>3, OwnerKept
  <2> QED
    BY <2>2, <2>3
<1>3. ASSUME NEW m \in Namespaces, DeliverNamespace(m) PROVE OwnerOK(e, n)'
  <2>1. /\ UNCHANGED <<envLog, nsLog, envSeen, worker>> /\ nsSeen[m] < Len(nsLog[m])
        /\ queue' = queue \cup Enqueued(nsLog[m][nsSeen[m]], nsLog[m][nsSeen[m] + 1])
        /\ nsSeen'[m] = nsSeen[m] + 1 /\ (m # n => nsSeen'[n] = nsSeen[n])
    BY <1>1, <1>3 DEF DeliverNamespace, apiVars, CachesOK
  <2>2. CASE m # n
    BY <1>1, <2>1, <2>2, OwnerKept
  <2>3. CASE m = n /\ nsSeen[n] + 1 < Len(nsLog[n])
    BY <2>1, <2>3 DEF OwnerOK, Behind
  <2>4. CASE m = n /\ ~(nsSeen[n] + 1 < Len(nsLog[n])) /\ ~Shown(e, n)
    <3>1. nsSeen[n] + 1 = Len(nsLog[n])
      BY <1>1, <2>1, <2>4 DEF LogsOK, CachesOK
    <3>2. nsLog[n][nsSeen[n] + 1] = Namespace(n)
      BY <3>1 DEF Namespace
    <3>3. e \in mapToEnvironment(Namespace(n))
      BY <2>4, NotShown, NobodyAssumption DEF mapToEnvironment
    <3> QED
      BY <2>1, <2>4, <3>2, <3>3 DEF Enqueued, OwnerOK
  <2>5. CASE Shown(e, n)
    BY <2>1, <2>5 DEF OwnerOK, Shown, Holds, owns, TargetNamespace, Record, Namespace
  <2> QED
    BY <2>2, <2>3, <2>4, <2>5
<1> QED
  BY <1>2, <1>3

(* A restart lists every namespace that carries the labels. *)
LEMMA OwnerRestart ==
  ASSUME TypeOK, OwnerInv, NEW e \in Envs, NEW n \in Namespaces, Restart
  PROVE  OwnerOK(e, n)'
<1>1. UNCHANGED <<envLog, nsLog>> /\ queue' = Relisted
  BY DEF Restart, apiVars
<1>2. CASE Shown(e, n)
  BY <1>1, <1>2 DEF OwnerOK, Shown, Holds, owns, TargetNamespace, Record, Namespace
<1>3. CASE ~Shown(e, n)
  <2>1. Record(e).present
    BY <1>3, NotShown
  <2> QED
    BY <1>1, <2>1 DEF Relisted, OwnerOK
<1> QED
  BY <1>2, <1>3

(* The pass on the last version of the record: reading the current namespace,  *)
(* it goes on to patch it.                                                     *)
LEMMA OwnerGet ==
  ASSUME TypeOK, OwnerInv, NEW e \in Envs, NEW n \in Namespaces, GetNamespace
  PROVE  OwnerOK(e, n)'
<1>1. /\ OwnerOK(e, n) /\ LogsOK /\ CachesOK /\ worker \in Workers
      /\ UNCHANGED <<envLog, nsLog, envSeen, nsSeen>> /\ queue \subseteq queue'
  <2>1. queue \subseteq queue'
    BY GetNamespaceStep DEF Ends
  <2> QED
    BY <2>1, TypeParts DEF OwnerInv, WorkerOK, GetNamespace, apiVars, cacheVars
<1>2. CASE Shown(e, n) \/ Behind(e, n) \/ ~Repairs(e, n)
  <2>1. Shown(e, n) => Shown(e, n)'
    BY <1>1 DEF Shown, Holds, owns, TargetNamespace, Record, Namespace
  <2>2. Behind(e, n) => Behind(e, n)'
    BY <1>1 DEF Behind
  <2> QED
    BY <1>1, <1>2, <2>1, <2>2 DEF OwnerOK
<1>3. CASE ~Shown(e, n) /\ ~Behind(e, n) /\ Repairs(e, n)
  <2>1. /\ worker.env = e /\ worker.rv = Len(envLog[e]) /\ ~At("idle")
        /\ Seen = Record(e)
    BY <1>3 DEF Repairs, Seen, Record
  <2>2. /\ Namespace(n).present /\ Namespace(n).environment = e
        /\ ~Record(e).deleting /\ Namespace(n).owner # Record(e).owner
        /\ n = TargetNamespace(e, Record(e))
    BY <1>3, NotShown
  <2>3. n = Target
    BY <2>1, <2>2 DEF Target
  <2>4. nsSeen[n] = Len(nsLog[n])
    BY <1>1, <1>3 DEF Behind, CachesOK, LogsOK
  <2>5. Got = Namespace(n)
    BY <2>3, <2>4 DEF Got, Namespace
  <2>6. NamespaceStep(e, Namespace(n)) = "patchNamespace"
    BY <2>2 DEF NamespaceStep, owns
  <2>7. nsLog[Target][nsSeen[Target]] = Namespace(n)
    BY <2>3, <2>5 DEF Got
  <2>8. worker' = [worker EXCEPT !.pc = "patchNamespace", !.nsrv = Len(nsLog[n])]
    BY <2>1, <2>2, <2>3, <2>4, <2>5, <2>6, <2>7 DEF GetNamespace, CachedNamespace
  <2>9. /\ worker'.pc = "patchNamespace" /\ worker'.env = e /\ worker'.rv = Len(envLog[e])
        /\ worker'.nsrv = Len(nsLog[n])
    BY <1>1, <2>1, <2>8 DEF Workers
  <2>10. Repairs(e, n)'
    BY <1>1, <2>2, <2>9 DEF Repairs, At, Record, Namespace
  <2> QED
    BY <2>10 DEF OwnerOK
<1> QED
  BY <1>2, <1>3

(* The patch carries the owner, or what it would change is there already. *)
LEMMA OwnerPatch ==
  ASSUME TypeOK, OwnerInv, NEW e \in Envs, NEW n \in Namespaces, PatchNamespace,
         envLog'[e] = envLog[e], nsLog'[n] = nsLog[n]
  PROVE  OwnerOK(e, n)'
<1>1. /\ OwnerOK(e, n) /\ LogsOK /\ UNCHANGED <<envSeen, nsSeen>> /\ queue \subseteq queue'
  BY TypeParts
     DEF OwnerInv, PatchNamespace, Answered, AnswerLost, Retry, Goto, cacheVars
<1>2. CASE ~Repairs(e, n)
  BY <1>1, <1>2, OwnerKept
<1>3. CASE Shown(e, n)
  BY <1>1, <1>3 DEF OwnerOK, Shown, Holds, owns, TargetNamespace, Record, Namespace
<1>4. CASE Repairs(e, n) /\ ~Shown(e, n)
  <2>1. /\ worker.env = e /\ Seen = Record(e)
        /\ nsLog[n][worker.nsrv].owner # Record(e).owner
    BY <1>4 DEF Repairs, Seen, Record, PatchNamespace, At
  <2>2. /\ Namespace(n).present /\ Namespace(n) \in NamespaceObjects
        /\ Record(e).owner # Unset /\ Namespace(n).owner # Record(e).owner
        /\ n = TargetNamespace(e, Record(e))
    BY <1>1, <1>4, NotShown, NamespaceType
  <2>3. n = Target
    BY <2>1, <2>2 DEF Target
  <2> DEFINE patched == MergePatch(nsLog[n][worker.nsrv], labels(e, Record(e)), Namespace(n))
  <2>4. patched.owner = Record(e).owner
    BY <2>1, <2>2 DEF MergePatch, labels, NamespaceObjects
  <2>5. patched # Namespace(n)
    BY <2>2, <2>4
  <2>6. WriteNamespace(n, patched)
    BY <2>1, <2>2, <2>3 DEF PatchNamespace
  <2> HIDE DEF patched
  <2>7. nsLog' = [nsLog EXCEPT ![n] = Append(nsLog[n], patched)]
    BY <2>5, <2>6 DEF WriteNamespace
  <2>8. nsLog[n] \in Seq(NamespaceObjects) /\ Len(nsLog'[n]) = Len(nsLog[n]) + 1
    BY <1>1, <2>7 DEF LogsOK
  <2> QED
    BY <2>8
<1> QED
  BY <1>2, <1>3, <1>4

LEMMA NextOwnerOK ==
  ASSUME TypeOK, RecordInv, OwnerInv, [Next]_vars, NEW e \in Envs, NEW n \in Namespaces
  PROVE  OwnerOK(e, n)'
<1>1. OwnerOK(e, n) /\ LogsOK /\ WorkerOK
  BY TypeParts DEF OwnerInv
<1>2. CASE Behind(e, n)'
  BY <1>2 DEF OwnerOK
<1>3. CASE envLog'[e] = envLog[e] /\ nsLog'[n] = nsLog[n]
  <2>1. ASSUME UNCHANGED cacheVars, queue \subseteq queue',
               Repairs(e, n) => worker' = worker \/ e \in queue'
        PROVE  OwnerOK(e, n)'
    BY <1>1, <1>3, <2>1, OwnerKept DEF cacheVars
  <2>2. ASSUME NEW f \in Envs, UserActs(f) \/ WorkloadChanges(f) \/ DeliverDeployment(f)
        PROVE  OwnerOK(e, n)'
    BY <2>1, <2>2 DEF UserActs, CreateEnv, DeleteEnv, EditNamespaceName, EditOwner, UserWrites,
                      WorkloadChanges, DeliverDeployment
  <2>3. ASSUME NEW f \in Envs, Reconcile(f) PROVE OwnerOK(e, n)'
    BY <2>3, OwnerReconcile
  <2>4. ASSUME NEW f \in Envs, DeliverRecord(f) PROVE OwnerOK(e, n)'
    BY <2>4, OwnerDelivery
  <2>5. ASSUME NEW m \in Namespaces, DeliverNamespace(m) PROVE OwnerOK(e, n)'
    BY <2>5, OwnerDelivery
  <2>6. ASSUME NEW m \in Namespaces, OthersWrite(m) PROVE OwnerOK(e, n)'
    BY <2>1, <2>6 DEF OthersWrite, OutsiderActs, ForeignCreate, ForeignDelete, StripLabels,
                      Outside, FinishTermination
  <2>7. CASE AddFinalizer
    <3>1. Repairs(e, n) => ~WriteRecord(worker.env, [Seen EXCEPT !.finalizer = TRUE])
      <4> SUFFICES ASSUME Repairs(e, n), WriteRecord(worker.env, [Seen EXCEPT !.finalizer = TRUE])
                   PROVE  FALSE
        OBVIOUS
      <4>1. Seen \in Records /\ worker.env = e
        BY <1>1, <2>7, TargetType DEF AddFinalizer, At, Repairs
      <4>2. [Seen EXCEPT !.finalizer = TRUE] \in Records
        BY <4>1 DEF Records
      <4>3. Len(envLog'[e]) = Len(envLog[e]) + 1 /\ Len(envLog[e]) \in Nat
        BY <1>1, <4>1, <4>2, RecordWritten DEF LogsOK
      <4> QED
        BY <1>3, <4>3
    <3>2. queue \subseteq queue' /\ UNCHANGED cacheVars
      BY <2>7 DEF AddFinalizer, Answered, AnswerLost, Retry
    <3>3. Repairs(e, n) => e \in queue'
      BY <2>7, <3>1 DEF AddFinalizer, Retry, Repairs
    <3> QED
      BY <2>1, <3>2, <3>3
  <2>8. CASE GetNamespace
    BY <2>8, OwnerGet
  <2>9. CASE PatchNamespace
    BY <1>3, <2>9, OwnerPatch
  <2>10. CASE ApiError
    BY <2>1, <2>10 DEF ApiError, Retry, Repairs
  <2>11. CASE \/ CreateNamespace \/ DeleteNamespace \/ RemoveFinalizer
              \/ WriteObjects \/ RefuseObjects \/ FinishProvisioning
    <3>1. /\ worker.pc \in {"createNamespace", "deleteNamespace", "removeFinalizer", "provision"}
          /\ queue \subseteq queue' /\ UNCHANGED cacheVars
      BY <2>11 DEF CreateNamespace, DeleteNamespace, RemoveFinalizer, WriteObjects, RefuseObjects,
           FinishProvisioning, Answered, AnswerLost, Retry, Finish, Goto, At, cacheVars
    <3>2. ~Repairs(e, n)
      BY <3>1 DEF Repairs, At
    <3> QED
      BY <2>1, <3>1, <3>2
  <2>12. CASE Restart
    BY <2>12, OwnerRestart
  <2>13. CASE Rest \/ UNCHANGED vars
    BY <2>1, <2>13 DEF Rest, vars, cacheVars
  <2> QED
    BY <2>2, <2>3, <2>4, <2>5, <2>6, <2>7, <2>8, <2>9, <2>10, <2>11, <2>12, <2>13
       DEF Next, Calls, OthersWrite
<1> QED
  BY <1>2, <1>3, WriteLeavesBehind

LEMMA NextUnowned ==
  ASSUME TypeOK, RecordInv, [Next]_vars, NEW e \in Envs,
         ~Record(e).present => Record(e).owner = Unset, ~Record(e)'.present
  PROVE  Record(e)'.owner = Unset
<1>1. LogsOK /\ WorkerOK /\ NoRecord \in Records /\ NoRecord.owner = Unset
  BY TypeParts DEF NoRecord, Records
<1>2. CASE UNCHANGED envLog
  BY <1>2 DEF Record
<1>3. ASSUME NEW f \in Envs, NEW env \in Records, UserWrote(f, env)
      PROVE  Record(e)'.owner = Unset
  <2>1. Record(f)' = env /\ (f # e => Record(e)' = Record(e)) /\ (~env.present => env = NoRecord)
    BY <1>1, <1>3, RecordWritten DEF UserWrote, UserWrites
  <2> QED
    BY <1>1, <2>1
<1>4. CASE Finalized
  <2>1. worker.env \in Envs /\ Seen \in Records /\ Seen.present
    BY <1>1, <1>4, TargetType DEF Finalized, AddFinalizer, At, WorkerOK, RecordInv, PassShape
  <2>2. /\ [Seen EXCEPT !.finalizer = TRUE] \in Records
        /\ [Seen EXCEPT !.finalizer = TRUE].present
    BY <2>1 DEF Records
  <2>3. PICK f \in Envs : f = worker.env
    BY <2>1
  <2>4. Record(f)' = [Seen EXCEPT !.finalizer = TRUE] /\ (f # e => Record(e)' = Record(e))
    BY <1>1, <1>4, <2>2, <2>3, RecordWritten DEF Finalized
  <2> QED
    BY <2>2, <2>4
<1>5. CASE Released
  <2>1. PICK f \in Envs : f = worker.env
    BY <1>1, <1>5 DEF Released, RemoveFinalizer, At, WorkerOK
  <2>2. Record(f)' = NoRecord /\ (f # e => Record(e)' = Record(e))
    BY <1>1, <1>5, <2>1, RecordWritten DEF Released
  <2> QED
    BY <1>1, <2>2
<1> QED
  BY <1>2, <1>3, <1>4, <1>5, RecordMoves

(* With caches that lag, patches computed from old versions, crashes and calls *)
(* that fail, a namespace whose owner label is not the one its record names is *)
(* one the controller is still to look at.                                     *)
THEOREM OwnerCorrect == Spec => []OwnerInv
<1>1. Init => OwnerInv
  <2> SUFFICES ASSUME Init PROVE OwnerInv
    OBVIOUS
  <2>1. \A e \in Envs : envLog[e] = <<NoRecord>>
    BY DEF Init
  <2>2. \A e \in Envs : Record(e).owner = Unset
    BY <2>1 DEF Record, NoRecord
  <2> QED
    BY <2>2 DEF OwnerInv, OwnerOK, Shown
<1>2. TypeOK /\ RecordInv /\ OwnerInv /\ [Next]_vars => OwnerInv'
  <2> SUFFICES ASSUME TypeOK, RecordInv, OwnerInv, [Next]_vars PROVE OwnerInv'
    OBVIOUS
  <2>1. \A e \in Envs : ~Record(e)'.present => Record(e)'.owner = Unset
    BY NextUnowned DEF OwnerInv
  <2>2. \A e \in Envs, n \in Namespaces : OwnerOK(e, n)'
    BY NextOwnerOK
  <2> QED
    BY <2>1, <2>2 DEF OwnerInv
<1> QED
  BY <1>1, <1>2, TypeCorrect, RecordCorrect, PTL DEF Spec

(* So when the controller has nothing left to do, every environment's          *)
(* namespace shows the owner its spec names (reconcileNamespace's patch and    *)
(* the watches of SetupWithManager).                                           *)
THEOREM OwnersShown == Spec => []OwnerShown
<1>1. TypeOK /\ OwnerInv => OwnerShown
  <2> SUFFICES ASSUME TypeOK, OwnerInv, AtRest, NEW e \in Envs, NEW n \in Namespaces PROVE Shown(e, n)
    BY DEF OwnerShown, Shown
  <2>1. OwnerOK(e, n)
    BY DEF OwnerInv
  <2>2. e \notin queue /\ At("idle")
    BY DEF AtRest, At, Idle
  <2>3. ~Behind(e, n)
    BY TypeParts DEF AtRest, Behind, LogsOK
  <2> QED
    BY <2>1, <2>2, <2>3 DEF OwnerOK, Repairs
<1> QED
  BY <1>1, TypeCorrect, OwnerCorrect, PTL
===============================================================================
