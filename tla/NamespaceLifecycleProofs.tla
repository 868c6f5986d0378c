----------------------- MODULE NamespaceLifecycleProofs -----------------------
(* What holds of NamespaceLifecycle for every set of environments, namespaces *)
(* and teams, every bound, and every number of versions.                      *)
EXTENDS NamespaceLifecycle, TLAPS

(* A log that has grown keeps the versions it had. *)
Grown(s, t) == Len(s) <= Len(t) /\ \A i \in 1 .. Len(s) : t[i] = s[i]

LogsGrow ==
  /\ \A e \in Envs : Grown(envLog[e], envLog'[e])
  /\ \A n \in Namespaces : Grown(nsLog[n], nsLog'[n])

LEMMA AppendGrows ==
  ASSUME NEW S, NEW s \in Seq(S), NEW x \in S
  PROVE  /\ Append(s, x) \in Seq(S) /\ Len(Append(s, x)) = Len(s) + 1
         /\ Append(s, x)[Len(s) + 1] = x /\ Grown(s, Append(s, x))
BY DEF Grown

LEMMA GrownSame == ASSUME NEW S, NEW s \in Seq(S) PROVE Grown(s, s)
BY DEF Grown

(* What writing a version of a record does to the logs. *)
LEMMA RecordWritten ==
  ASSUME LogsOK, NEW e \in Envs, NEW env \in Records, WriteRecord(e, env)
  PROVE  /\ envLog' \in [Envs -> Seq(Records)]
         /\ \A f \in Envs : Grown(envLog[f], envLog'[f]) /\ (f # e => envLog'[f] = envLog[f])
         /\ Len(envLog'[e]) = Len(envLog[e]) + 1
         /\ envLog'[e][Len(envLog[e]) + 1] = env
         /\ Record(e)' = env
         /\ \A f \in Envs : f # e => Record(f)' = Record(f)
<1>1. envLog' = [envLog EXCEPT ![e] = Append(envLog[e], env)]
  BY DEF WriteRecord
<1>2. envLog[e] \in Seq(Records)
  BY DEF LogsOK
<1>3. /\ Append(envLog[e], env) \in Seq(Records)
      /\ Len(Append(envLog[e], env)) = Len(envLog[e]) + 1
      /\ Append(envLog[e], env)[Len(envLog[e]) + 1] = env
      /\ Grown(envLog[e], Append(envLog[e], env))
  BY <1>2, AppendGrows
<1>4. envLog'[e] = Append(envLog[e], env)
  BY <1>1 DEF LogsOK
<1>5. \A f \in Envs : f # e => envLog'[f] = envLog[f]
  BY <1>1 DEF LogsOK
<1>6. \A f \in Envs : Grown(envLog[f], envLog'[f])
  <2>1. \A f \in Envs : Grown(envLog[f], envLog[f])
    BY GrownSame DEF LogsOK
  <2> QED
    BY <2>1, <1>3, <1>4, <1>5
<1>7. envLog' \in [Envs -> Seq(Records)]
  BY <1>1, <1>3 DEF LogsOK
<1> QED
  BY <1>3, <1>4, <1>5, <1>6, <1>7 DEF Record

(* What writing a version of a namespace does to the logs. *)
LEMMA NamespaceWritten ==
  ASSUME LogsOK, NEW n \in Namespaces, NEW ns \in NamespaceObjects, WriteNamespace(n, ns)
  PROVE  /\ nsLog' \in [Namespaces -> Seq(NamespaceObjects)]
         /\ \A m \in Namespaces : Grown(nsLog[m], nsLog'[m]) /\ (m # n => nsLog'[m] = nsLog[m])
         /\ Namespace(n)' = ns
         /\ \A m \in Namespaces : m # n => Namespace(m)' = Namespace(m)
<1>1. CASE ns = Namespace(n)
  <2>1. nsLog' = nsLog
    BY <1>1 DEF WriteNamespace
  <2> QED
    BY <1>1, <2>1 DEF LogsOK, Grown, Namespace
<1>2. CASE ns # Namespace(n)
  <2>1. nsLog' = [nsLog EXCEPT ![n] = Append(nsLog[n], ns)]
    BY <1>2 DEF WriteNamespace
  <2>2. nsLog[n] \in Seq(NamespaceObjects)
    BY DEF LogsOK
  <2>3. /\ Append(nsLog[n], ns) \in Seq(NamespaceObjects)
        /\ Len(Append(nsLog[n], ns)) = Len(nsLog[n]) + 1
        /\ Append(nsLog[n], ns)[Len(nsLog[n]) + 1] = ns
        /\ Grown(nsLog[n], Append(nsLog[n], ns))
    BY <2>2, AppendGrows
  <2>4. nsLog'[n] = Append(nsLog[n], ns)
    BY <2>1 DEF LogsOK
  <2>5. \A m \in Namespaces : m # n => nsLog'[m] = nsLog[m]
    BY <2>1 DEF LogsOK
  <2>6. \A m \in Namespaces : Grown(nsLog[m], nsLog'[m])
    <3>1. \A m \in Namespaces : Grown(nsLog[m], nsLog[m])
      BY GrownSame DEF LogsOK
    <3> QED
      BY <3>1, <2>3, <2>4, <2>5
  <2>7. nsLog' \in [Namespaces -> Seq(NamespaceObjects)]
    BY <2>1, <2>3 DEF LogsOK
  <2> QED
    BY <2>3, <2>4, <2>5, <2>6, <2>7 DEF Namespace
<1> QED
  BY <1>1, <1>2

-----------------------------------------------------------------------------
(* Type correctness *)

LEMMA SameLogs ==
  ASSUME LogsOK, UNCHANGED <<envLog, nsLog>>
  PROVE  LogsOK' /\ LogsGrow
<1>1. \A e \in Envs : Grown(envLog[e], envLog[e])
  BY GrownSame DEF LogsOK
<1>2. \A n \in Namespaces : Grown(nsLog[n], nsLog[n])
  BY GrownSame DEF LogsOK
<1> QED
  BY <1>1, <1>2 DEF LogsOK, LogsGrow

LEMMA RecordLogs ==
  ASSUME LogsOK, NEW e \in Envs, NEW env \in Records, WriteRecord(e, env), UNCHANGED nsLog
  PROVE  LogsOK' /\ LogsGrow
<1>1. \A n \in Namespaces : Grown(nsLog[n], nsLog[n])
  BY GrownSame DEF LogsOK
<1>2. /\ envLog' \in [Envs -> Seq(Records)]
      /\ \A f \in Envs : Grown(envLog[f], envLog'[f])
  BY RecordWritten
<1>3. \A f \in Envs : Len(envLog'[f]) > 0
  BY <1>2 DEF Grown, LogsOK
<1> QED
  BY <1>1, <1>2, <1>3 DEF LogsOK, LogsGrow

LEMMA NamespaceLogs ==
  ASSUME LogsOK, NEW n \in Namespaces, NEW ns \in NamespaceObjects, WriteNamespace(n, ns),
         UNCHANGED envLog
  PROVE  LogsOK' /\ LogsGrow
<1>1. \A e \in Envs : Grown(envLog[e], envLog[e])
  BY GrownSame DEF LogsOK
<1>2. /\ nsLog' \in [Namespaces -> Seq(NamespaceObjects)]
      /\ \A m \in Namespaces : Grown(nsLog[m], nsLog'[m])
  BY NamespaceWritten
<1>3. \A m \in Namespaces : Len(nsLog'[m]) > 0
  BY <1>2 DEF Grown, LogsOK
<1> QED
  BY <1>1, <1>2, <1>3 DEF LogsOK, LogsGrow

(* The cached versions and the pass stay in range while the logs grow. *)
LEMMA CachesKept ==
  ASSUME LogsOK, CachesOK, LogsOK', LogsGrow, UNCHANGED cacheVars
  PROVE  CachesOK'
BY DEF LogsOK, CachesOK, LogsGrow, Grown, cacheVars

LEMMA TargetType ==
  ASSUME LogsOK, WorkerOK, ~At("idle")
  PROVE  Seen \in Records /\ Target \in Namespaces
<1>1. Seen \in Records
  BY DEF LogsOK, WorkerOK, Seen
<1>2. Seen.namespaceName \in Namespaces \cup {Unset}
  BY <1>1 DEF Records
<1> QED
  BY <1>1, <1>2, DefaultAssumption DEF Target, TargetNamespace, WorkerOK

LEMMA SeenKept ==
  ASSUME LogsOK, WorkerOK, LogsGrow, ~At("idle"),
         worker'.env = worker.env, worker'.rv = worker.rv
  PROVE  Seen' = Seen /\ Target' = Target
<1>1. worker.env \in Envs /\ worker.rv \in 1 .. Len(envLog[worker.env])
  BY DEF WorkerOK
<1>2. Seen' = Seen
  BY <1>1 DEF LogsGrow, Grown, Seen
<1> QED
  BY <1>2 DEF Target, TargetNamespace

LEMMA WorkerKept ==
  ASSUME LogsOK, WorkerOK, LogsOK', LogsGrow, UNCHANGED worker
  PROVE  WorkerOK'
<1>1. CASE At("idle")
  BY <1>1 DEF WorkerOK, At
<1>2. CASE ~At("idle")
  <2>1. Seen' = Seen /\ Target' = Target /\ Target \in Namespaces
    BY <1>2, SeenKept, TargetType
  <2> QED
    BY <1>2, <2>1 DEF WorkerOK, At, LogsOK, LogsGrow, Grown
<1> QED
  BY <1>1, <1>2

LEMMA WorkerIdles ==
  ASSUME worker' = Idle
  PROVE  WorkerOK'
BY DEF WorkerOK, Idle, Workers, At, Steps

LEMMA WorkerGoes ==
  ASSUME LogsOK, WorkerOK, LogsOK', LogsGrow, ~At("idle"),
         NEW pc \in Steps \ {"patchNamespace"}, NEW i \in Nat,
         worker' = [worker EXCEPT !.pc = pc, !.nsrv = i]
  PROVE  WorkerOK'
<1>1. worker.env \in Envs /\ worker.rv \in 1 .. Len(envLog[worker.env])
  BY DEF WorkerOK
<1>2. worker' \in Workers /\ worker'.env = worker.env /\ worker'.rv = worker.rv /\ worker'.pc = pc
  BY DEF WorkerOK, Workers
<1>3. Len(envLog[worker.env]) <= Len(envLog'[worker.env])
  BY <1>1 DEF LogsGrow, Grown
<1> QED
  BY <1>1, <1>2, <1>3 DEF WorkerOK, At, LogsOK

RestOK ==
  /\ contents \in [Namespaces -> SUBSET Envs]
  /\ queue \subseteq Envs /\ events \subseteq Envs
  /\ used \in [{"outside", "faults", "crashes"} -> Nat]
  /\ stray \subseteq Namespaces

LEMMA TypeParts == TypeOK <=> LogsOK /\ CachesOK /\ WorkerOK /\ RestOK
BY DEF TypeOK, RestOK

LEMMA SpendType ==
  ASSUME RestOK, NEW b \in {"outside", "faults", "crashes"}, NEW max, Spend(b, max)
  PROVE  used' \in [{"outside", "faults", "crashes"} -> Nat]
BY DEF RestOK, Spend

LEMMA Single == ASSUME NEW S, NEW x \in S PROVE <<x>> \in Seq(S) /\ Len(<<x>>) = 1
OBVIOUS

LEMMA InitType == Init => TypeOK
<1> SUFFICES ASSUME Init PROVE TypeOK
  OBVIOUS
<1>1. NoRecord \in Records
  BY DEF NoRecord, Records
<1>2. NoNamespace \in NamespaceObjects /\ Foreign \in NamespaceObjects
  BY DEF NoNamespace, Foreign, NamespaceObjects
<1>3. <<NoRecord>> \in Seq(Records) /\ Len(<<NoRecord>>) = 1
  BY <1>1, Single
<1>4. /\ <<NoNamespace>> \in Seq(NamespaceObjects) /\ Len(<<NoNamespace>>) = 1
      /\ <<Foreign>> \in Seq(NamespaceObjects) /\ Len(<<Foreign>>) = 1
  BY <1>2, Single
<1>5. LogsOK /\ CachesOK
  <2>1. envLog \in [Envs -> Seq(Records)] /\ \A e \in Envs : Len(envLog[e]) = 1 /\ Len(envLog[e]) > 0
    BY <1>3 DEF Init
  <2>2. nsLog \in [Namespaces -> Seq(NamespaceObjects)]
    BY <1>4 DEF Init
  <2>3. ASSUME NEW n \in Namespaces PROVE Len(nsLog[n]) = 1 /\ Len(nsLog[n]) > 0
    <3>1. nsLog[n] \in {<<NoNamespace>>, <<Foreign>>}
      BY DEF Init
    <3> QED
      BY <3>1, <1>4
  <2>4. /\ envSeen \in [Envs -> Nat] /\ \A e \in Envs : envSeen[e] = 1
        /\ nsSeen \in [Namespaces -> Nat] /\ \A n \in Namespaces : nsSeen[n] = 1
    BY DEF Init
  <2>5. LogsOK
    BY <2>1, <2>2, <2>3 DEF LogsOK
  <2>6. CachesOK
    BY <2>1, <2>3, <2>4 DEF CachesOK
  <2> QED
    BY <2>5, <2>6
<1>6. WorkerOK
  BY DEF Init, WorkerOK, Idle, Workers, At
<1>7. RestOK
  BY DEF Init, RestOK
<1> QED
  BY <1>5, <1>6, <1>7, TypeParts

LEMMA RecordType ==
  ASSUME LogsOK, NEW e \in Envs
  PROVE  Record(e) \in Records /\ Len(envLog[e]) \in Nat \ {0}
BY DEF LogsOK, Record

LEMMA NamespaceType ==
  ASSUME LogsOK, NEW n \in Namespaces
  PROVE  Namespace(n) \in NamespaceObjects
BY DEF LogsOK, Namespace

LEMMA UserActsType ==
  ASSUME TypeOK, NEW e \in Envs, UserActs(e)
  PROVE  TypeOK' /\ LogsGrow
<1>1. LogsOK /\ CachesOK /\ WorkerOK /\ RestOK /\ Record(e) \in Records
  BY TypeParts, RecordType
<1>2. PICK env \in Records : UserWrites(e, env)
  <2>1. CASE CreateEnv(e)
    BY <2>1, <1>1, NamesAssumption DEF CreateEnv, NoRecord, Records
  <2>2. CASE DeleteEnv(e)
    <3>1. [Record(e) EXCEPT !.deleting = TRUE] \in Records /\ NoRecord \in Records
      BY <1>1 DEF Records, NoRecord
    <3> QED
      BY <2>2, <3>1 DEF DeleteEnv
  <2>3. CASE EditNamespaceName(e)
    BY <2>3, <1>1, NamesAssumption DEF EditNamespaceName, Records
  <2>4. CASE EditOwner(e)
    BY <2>4, <1>1 DEF EditOwner, Records
  <2> QED
    BY <2>1, <2>2, <2>3, <2>4 DEF UserActs
<1>3. LogsOK' /\ LogsGrow
  BY <1>1, <1>2, RecordLogs DEF UserWrites
<1>4. CachesOK' /\ WorkerOK'
  BY <1>1, <1>2, <1>3, CachesKept, WorkerKept DEF UserWrites
<1>5. RestOK'
  <2>1. stray' \subseteq Namespaces
    BY <1>1 DEF UserActs, CreateEnv, DeleteEnv, EditNamespaceName, EditOwner, PointedAway, RestOK
  <2> QED
    BY <1>1, <1>2, <2>1 DEF UserWrites, RestOK
<1> QED
  BY <1>3, <1>4, <1>5, TypeParts DEF TypeOK, RestOK

(* What everybody but the worker may do to namespaces. *)
OthersWrite(n) == OutsiderActs(n) \/ FinishTermination(n)

LEMMA OthersWriteType ==
  ASSUME TypeOK, NEW n \in Namespaces, OthersWrite(n)
  PROVE  TypeOK' /\ LogsGrow
<1>1. LogsOK /\ CachesOK /\ WorkerOK /\ RestOK /\ Namespace(n) \in NamespaceObjects
  BY TypeParts, NamespaceType
<1>2. PICK ns \in NamespaceObjects :
        WriteNamespace(n, ns) /\ UNCHANGED <<cacheVars, envLog, queue, worker>>
  <2>1. CASE ForeignCreate(n)
    BY <2>1 DEF ForeignCreate, Outside, Foreign, NoNamespace, NamespaceObjects
  <2>2. CASE ForeignDelete(n)
    BY <2>2, <1>1 DEF ForeignDelete, Outside, NamespaceObjects
  <2>3. CASE StripLabels(n)
    BY <2>3, <1>1 DEF StripLabels, Outside, NamespaceObjects
  <2>4. CASE FinishTermination(n)
    BY <2>4 DEF FinishTermination, NoNamespace, NamespaceObjects
  <2> QED
    BY <2>1, <2>2, <2>3, <2>4 DEF OthersWrite, OutsiderActs
<1>3. LogsOK' /\ LogsGrow
  BY <1>1, <1>2, NamespaceLogs
<1>4. CachesOK' /\ WorkerOK'
  BY <1>1, <1>2, <1>3, CachesKept, WorkerKept
<1>5. RestOK'
  <2>1. CASE OutsiderActs(n)
    BY <2>1, <1>1 DEF OutsiderActs, ForeignCreate, ForeignDelete, StripLabels,
                      Outside, Spend, RestOK
  <2>2. CASE FinishTermination(n)
    BY <2>2, <1>1 DEF FinishTermination, RestOK
  <2> QED
    BY <2>1, <2>2 DEF OthersWrite
<1> QED
  BY <1>3, <1>4, <1>5, TypeParts DEF TypeOK, RestOK

LEMMA DeliveryType ==
  ASSUME TypeOK,
         \/ \E e \in Envs : WorkloadChanges(e) \/ DeliverRecord(e) \/ DeliverDeployment(e)
         \/ \E n \in Namespaces : DeliverNamespace(n)
  PROVE  TypeOK' /\ LogsGrow
<1>1. LogsOK /\ CachesOK /\ WorkerOK /\ RestOK
  BY TypeParts
<1>2. UNCHANGED <<envLog, nsLog, contents, worker, used, stray>>
  BY DEF WorkloadChanges, DeliverRecord, DeliverDeployment, DeliverNamespace, apiVars
<1>3. LogsOK' /\ LogsGrow
  BY <1>1, <1>2, SameLogs
<1>4. WorkerOK'
  BY <1>1, <1>2, <1>3, WorkerKept
<1>5. CachesOK' /\ RestOK'
  <2>1. ASSUME NEW e \in Envs, WorkloadChanges(e) PROVE CachesOK' /\ RestOK'
    BY <1>1, <2>1 DEF WorkloadChanges, CachesOK, RestOK, apiVars, cacheVars
  <2>2. ASSUME NEW e \in Envs, DeliverDeployment(e) PROVE CachesOK' /\ RestOK'
    BY <1>1, <2>2 DEF DeliverDeployment, CachesOK, RestOK, apiVars, cacheVars
  <2>3. ASSUME NEW e \in Envs, DeliverRecord(e) PROVE CachesOK' /\ RestOK'
    <3>1. Len(envLog[e]) \in Nat
      BY <1>1 DEF LogsOK
    <3> QED
      BY <1>1, <2>3, <3>1 DEF DeliverRecord, CachesOK, RestOK, apiVars
  <2>4. ASSUME NEW n \in Namespaces, DeliverNamespace(n) PROVE CachesOK' /\ RestOK'
    <3>1. /\ Len(nsLog[n]) \in Nat /\ nsSeen[n] \in 1 .. Len(nsLog[n])
          /\ nsSeen[n] + 1 \in 1 .. Len(nsLog[n])
      BY <1>1, <2>4 DEF LogsOK, CachesOK, DeliverNamespace
    <3>2. /\ nsLog[n][nsSeen[n]] \in NamespaceObjects
          /\ nsLog[n][nsSeen[n] + 1] \in NamespaceObjects
      BY <1>1, <3>1 DEF LogsOK
    <3>3. Enqueued(nsLog[n][nsSeen[n]], nsLog[n][nsSeen[n] + 1]) \subseteq Envs
      BY <3>2 DEF Enqueued, mapToEnvironment, NamespaceObjects
    <3>4. CachesOK'
      BY <1>1, <2>4, <3>1 DEF DeliverNamespace, CachesOK, apiVars
    <3> QED
      BY <1>1, <2>4, <3>3, <3>4 DEF DeliverNamespace, RestOK, apiVars
  <2> QED
    BY <2>1, <2>2, <2>3, <2>4
<1> QED
  BY <1>3, <1>4, <1>5, TypeParts DEF TypeOK, RestOK

LEMMA FirstStepType ==
  ASSUME NEW env \in Records
  PROVE  /\ FirstStep(env) \in {"idle", "addFinalizer", "getNamespace"}
         /\ FirstStep(env) = "addFinalizer" => env.present /\ ~env.deleting /\ ~env.finalizer
         /\ FirstStep(env) = "getNamespace" => env.present /\ env.finalizer
BY DEF FirstStep, Records

LEMMA ReconcileType ==
  ASSUME TypeOK, NEW e \in Envs, Reconcile(e)
  PROVE  TypeOK' /\ LogsGrow
<1>1. LogsOK /\ CachesOK /\ WorkerOK /\ RestOK
  BY TypeParts
<1>2. CachedRecord(e) \in Records /\ envSeen[e] \in 1 .. Len(envLog[e]) /\ envSeen[e] \in Nat
  BY <1>1 DEF CachedRecord, LogsOK, CachesOK
<1>3. LogsOK' /\ LogsGrow
  BY <1>1, SameLogs DEF Reconcile, apiVars
<1>4. CachesOK'
  BY <1>1, <1>3, CachesKept DEF Reconcile
<1>5. RestOK'
  BY <1>1 DEF Reconcile, RestOK, apiVars
<1>6. WorkerOK'
  <2>1. CASE worker' = Idle
    BY <2>1, WorkerIdles
  <2>2. CASE worker' # Idle
    <3>1. /\ FirstStep(CachedRecord(e)) \in {"addFinalizer", "getNamespace"}
          /\ worker' = [Idle EXCEPT !.pc = FirstStep(CachedRecord(e)),
                                    !.env = e, !.rv = envSeen[e]]
      BY <1>2, <2>2, FirstStepType DEF Reconcile
    <3>2. /\ worker' \in Workers /\ worker'.env = e /\ worker'.rv = envSeen[e]
          /\ worker'.pc # "patchNamespace"
      BY <1>2, <3>1 DEF Idle, Workers, Steps
    <3>3. envLog' = envLog
      BY DEF Reconcile, apiVars
    <3> QED
      BY <1>2, <3>2, <3>3 DEF WorkerOK, At
  <2> QED
    BY <2>1, <2>2
<1> QED
  BY <1>3, <1>4, <1>5, <1>6, TypeParts DEF TypeOK, RestOK

(* The ways in which a call leaves the pass: over, or at another step. *)
Ends == worker' = Idle /\ queue' \in {queue, queue \cup {worker.env}}
Goes == \E pc \in Steps \ {"patchNamespace"} : worker' = [worker EXCEPT !.pc = pc] /\ queue' = queue

LEMMA WorkerEndsOrGoes ==
  ASSUME TypeOK, LogsOK', LogsGrow, ~At("idle"), Ends \/ Goes
  PROVE  WorkerOK' /\ queue' \subseteq Envs
<1>1. LogsOK /\ WorkerOK /\ queue \subseteq Envs /\ worker.env \in Envs
  BY TypeParts DEF RestOK, WorkerOK
<1>2. CASE Ends
  BY <1>1, <1>2, WorkerIdles DEF Ends
<1>3. CASE Goes
  <2>1. PICK pc \in Steps \ {"patchNamespace"} : worker' = [worker EXCEPT !.pc = pc]
    BY <1>3 DEF Goes
  <2>2. worker' = [worker EXCEPT !.pc = pc, !.nsrv = worker.nsrv] /\ worker.nsrv \in Nat
    BY <1>1, <2>1 DEF WorkerOK, Workers
  <2> QED
    BY <1>1, <1>3, <2>2, WorkerGoes DEF Goes
<1> QED
  BY <1>2, <1>3

(* The calls that write, and those that only move the pass. *)
LEMMA AddFinalizerType ==
  ASSUME TypeOK, AddFinalizer
  PROVE  TypeOK' /\ LogsGrow
<1>1. LogsOK /\ CachesOK /\ WorkerOK /\ RestOK
  BY TypeParts
<1>2. ~At("idle") /\ worker.env \in Envs /\ Seen \in Records
  BY <1>1, TargetType DEF AddFinalizer, At, WorkerOK
<1>3. CASE Conflict
  <2>1. Ends /\ UNCHANGED <<apiVars, cacheVars, events, used>>
    BY <1>3 DEF AddFinalizer, Retry, Ends, apiVars
  <2>2. LogsOK' /\ LogsGrow
    BY <1>1, <2>1, SameLogs DEF apiVars
  <2>3. CachesOK' /\ WorkerOK' /\ queue' \subseteq Envs
    BY <1>1, <1>2, <2>1, <2>2, CachesKept, WorkerEndsOrGoes
  <2> QED
    BY <1>1, <2>1, <2>2, <2>3 DEF TypeOK, RestOK, apiVars
<1>4. CASE ~Conflict
  <2>1. /\ WriteRecord(worker.env, [Seen EXCEPT !.finalizer = TRUE])
        /\ UNCHANGED <<cacheVars, nsLog, contents, events, stray>>
        /\ \/ /\ worker' = [worker EXCEPT !.pc = "getNamespace", !.rv = worker.rv + 1]
              /\ queue' = queue /\ UNCHANGED used
           \/ Ends /\ Spend("faults", MaxFaults)
    BY <1>4 DEF AddFinalizer, Answered, AnswerLost, Retry, Ends
  <2>2. [Seen EXCEPT !.finalizer = TRUE] \in Records
    BY <1>2 DEF Records
  <2>3. /\ LogsOK' /\ LogsGrow
        /\ Len(envLog'[worker.env]) = Len(envLog[worker.env]) + 1
    BY <1>1, <1>2, <2>1, <2>2, RecordLogs, RecordWritten
  <2>4. CachesOK'
    BY <1>1, <2>1, <2>3, CachesKept
  <2>5. CASE Ends /\ Spend("faults", MaxFaults)
    <3>1. WorkerOK' /\ queue' \subseteq Envs
      BY <1>1, <1>2, <2>3, <2>5, WorkerEndsOrGoes
    <3>2. used' \in [{"outside", "faults", "crashes"} -> Nat]
      BY <1>1, <2>5, SpendType
    <3> QED
      BY <1>1, <2>1, <2>3, <2>4, <3>1, <3>2 DEF TypeOK, RestOK
  <2>6. CASE /\ worker' = [worker EXCEPT !.pc = "getNamespace", !.rv = worker.rv + 1]
             /\ queue' = queue /\ UNCHANGED used
    <3>a. worker \in Workers /\ worker.rv \in Nat
      BY <1>1 DEF WorkerOK, Workers
    <3>b. worker.rv = Len(envLog[worker.env])
      BY <1>4 DEF Conflict
    <3>c. /\ worker'.rv = worker.rv + 1 /\ worker'.env = worker.env
          /\ worker'.pc = "getNamespace" /\ worker' \in Workers
      <4>1. PICK k \in Nat : k = worker.rv + 1
        BY <3>a
      <4>2. worker' = [worker EXCEPT !.pc = "getNamespace", !.rv = k]
        BY <2>6, <4>1
      <4>3. /\ [worker EXCEPT !.pc = "getNamespace", !.rv = k] \in Workers
            /\ [worker EXCEPT !.pc = "getNamespace", !.rv = k].pc = "getNamespace"
            /\ [worker EXCEPT !.pc = "getNamespace", !.rv = k].env = worker.env
            /\ [worker EXCEPT !.pc = "getNamespace", !.rv = k].rv = k
        BY <3>a DEF Workers, Steps
      <4> QED
        BY <4>1, <4>2, <4>3
    <3>1. /\ worker.rv \in Nat /\ worker.rv = Len(envLog[worker.env])
          /\ worker'.rv = worker.rv + 1 /\ worker'.env = worker.env
          /\ worker'.pc = "getNamespace" /\ worker' \in Workers
      BY <3>a, <3>b, <3>c
    <3>2. WorkerOK'
      BY <1>2, <2>3, <3>1 DEF WorkerOK, At
    <3> QED
      BY <1>1, <2>1, <2>3, <2>4, <2>6, <3>2 DEF TypeOK, RestOK
  <2> QED
    BY <2>1, <2>5, <2>6
<1> QED
  BY <1>3, <1>4

LEMMA RemoveFinalizerType ==
  ASSUME TypeOK, RemoveFinalizer
  PROVE  TypeOK' /\ LogsGrow
<1>1. LogsOK /\ CachesOK /\ WorkerOK /\ RestOK
  BY TypeParts
<1>2. ~At("idle") /\ worker.env \in Envs
  BY <1>1 DEF RemoveFinalizer, At, WorkerOK
<1>3. /\ Ends /\ UNCHANGED <<cacheVars, nsLog, contents, events, stray>>
      /\ UNCHANGED used \/ Spend("faults", MaxFaults)
      /\ UNCHANGED envLog \/ WriteRecord(worker.env, NoRecord)
  BY DEF RemoveFinalizer, Answered, AnswerLost, Retry, Finish, Ends
<1>4. NoRecord \in Records
  BY DEF NoRecord, Records
<1>5. LogsOK' /\ LogsGrow
  BY <1>1, <1>2, <1>3, <1>4, SameLogs, RecordLogs
<1>6. CachesOK' /\ WorkerOK' /\ queue' \subseteq Envs
  BY <1>1, <1>2, <1>3, <1>5, CachesKept, WorkerEndsOrGoes
<1>7. used' \in [{"outside", "faults", "crashes"} -> Nat]
  BY <1>1, <1>3, SpendType DEF RestOK
<1> QED
  BY <1>1, <1>3, <1>5, <1>6, <1>7 DEF TypeOK, RestOK

(* The calls that write a namespace. *)
WritesTarget == CreateNamespace \/ PatchNamespace \/ DeleteNamespace

LEMMA MergePatchType ==
  ASSUME NEW seen \in NamespaceObjects, NEW live \in NamespaceObjects,
         NEW e \in Envs, NEW env \in Records
  PROVE  MergePatch(seen, labels(e, env), live) \in NamespaceObjects
BY DEF MergePatch, labels, NamespaceObjects, Records

LEMMA WritesTargetType ==
  ASSUME TypeOK, WritesTarget
  PROVE  TypeOK' /\ LogsGrow
<1>1. LogsOK /\ CachesOK /\ WorkerOK /\ RestOK
  BY TypeParts
<1>2. /\ ~At("idle") /\ worker.env \in Envs /\ Seen \in Records /\ Target \in Namespaces
      /\ Namespace(Target) \in NamespaceObjects
  BY <1>1, TargetType, NamespaceType
     DEF WritesTarget, CreateNamespace, PatchNamespace, DeleteNamespace, At, WorkerOK
<1>3. /\ Ends \/ Goes
      /\ UNCHANGED used \/ Spend("faults", MaxFaults)
      /\ UNCHANGED <<cacheVars, envLog, contents, events>>
  BY DEF WritesTarget, CreateNamespace, PatchNamespace, DeleteNamespace,
         Answered, AnswerLost, Retry, Finish, Goto, Ends, Goes, Steps
<1>s. stray' \subseteq Namespaces
  BY <1>1, <1>2 DEF WritesTarget, CreateNamespace, PatchNamespace, DeleteNamespace,
                    MadeForOldTarget, RestOK
<1>4. UNCHANGED nsLog \/ \E ns \in NamespaceObjects : WriteNamespace(Target, ns)
  <2>1. CASE CreateNamespace
    <3>1. [present |-> TRUE, terminating |-> FALSE,
           environment |-> labels(worker.env, Seen).environment,
           owner |-> labels(worker.env, Seen).owner] \in NamespaceObjects
      BY <1>2 DEF labels, NamespaceObjects, Records
    <3> QED
      BY <1>2, <2>1, <3>1 DEF CreateNamespace
  <2>2. CASE PatchNamespace
    <3>1. nsLog[Target][worker.nsrv] \in NamespaceObjects
      BY <1>1, <1>2, <2>2 DEF PatchNamespace, WorkerOK, LogsOK
    <3> QED
      BY <1>2, <2>2, <3>1, MergePatchType DEF PatchNamespace
  <2>3. CASE DeleteNamespace
    BY <1>2, <2>3 DEF DeleteNamespace, NamespaceObjects
  <2> QED
    BY <2>1, <2>2, <2>3 DEF WritesTarget
<1>5. LogsOK' /\ LogsGrow
  BY <1>1, <1>2, <1>3, <1>4, SameLogs, NamespaceLogs
<1>6. CachesOK' /\ WorkerOK' /\ queue' \subseteq Envs
  BY <1>1, <1>2, <1>3, <1>5, CachesKept, WorkerEndsOrGoes
<1>7. used' \in [{"outside", "faults", "crashes"} -> Nat]
  BY <1>1, <1>3, SpendType DEF RestOK
<1> QED
  BY <1>1, <1>3, <1>s, <1>5, <1>6, <1>7 DEF TypeOK, RestOK

(* The steps that write no record and no namespace. *)
Moves == WriteObjects \/ RefuseObjects \/ FinishProvisioning \/ ApiError

LEMMA MovesType ==
  ASSUME TypeOK, Moves
  PROVE  TypeOK' /\ LogsGrow
<1>1. LogsOK /\ CachesOK /\ WorkerOK /\ RestOK
  BY TypeParts
<1>2. ~At("idle") /\ worker.env \in Envs /\ Target \in Namespaces
  BY <1>1, TargetType
     DEF Moves, WriteObjects, RefuseObjects, FinishProvisioning, ApiError, At, WorkerOK
<1>3. /\ Ends \/ Goes
      /\ UNCHANGED used \/ Spend("faults", MaxFaults)
      /\ UNCHANGED <<cacheVars, envLog, nsLog, events, stray>>
      /\ UNCHANGED contents \/ contents' = [contents EXCEPT ![Target] = @ \cup {worker.env}]
  BY DEF Moves, WriteObjects, RefuseObjects, FinishProvisioning, ApiError,
         Answered, AnswerLost, Retry, Finish, Goto, Ends, Goes, Steps, apiVars
<1>4. LogsOK' /\ LogsGrow
  BY <1>1, <1>3, SameLogs
<1>5. CachesOK' /\ WorkerOK' /\ queue' \subseteq Envs
  BY <1>1, <1>2, <1>3, <1>4, CachesKept, WorkerEndsOrGoes
<1>6. used' \in [{"outside", "faults", "crashes"} -> Nat]
  BY <1>1, <1>3, SpendType DEF RestOK
<1>7. contents' \in [Namespaces -> SUBSET Envs]
  BY <1>1, <1>2, <1>3 DEF RestOK
<1> QED
  BY <1>1, <1>3, <1>4, <1>5, <1>6, <1>7 DEF TypeOK, RestOK

LEMMA StepsType ==
  ASSUME NEW e \in Envs, NEW ns \in NamespaceObjects
  PROVE  /\ NamespaceStep(e, ns) \in {"createNamespace", "patchNamespace", "error"}
         /\ NamespaceStep(e, ns) = "patchNamespace" => owns(e, ns)
         /\ TeardownStep(e, ns) \in {"deleteNamespace", "idle", "removeFinalizer"}
         /\ TeardownStep(e, ns) = "deleteNamespace" => ns.present /\ owns(e, ns) /\ ~ns.terminating
         /\ TeardownStep(e, ns) = "removeFinalizer" => ~(ns.present /\ owns(e, ns))
BY DEF NamespaceStep, TeardownStep, NamespaceObjects, owns

(* What Get returns, and the step the pass takes on it. *)
Got == nsLog[Target][nsSeen[Target]]
NextStep == IF Seen.deleting THEN TeardownStep(worker.env, Got) ELSE NamespaceStep(worker.env, Got)

LEMMA GetNamespaceStep ==
  ASSUME TypeOK, GetNamespace
  PROVE  /\ worker.env \in Envs /\ Seen \in Records /\ Target \in Namespaces
         /\ nsSeen[Target] \in 1 .. Len(nsLog[Target]) /\ Got \in NamespaceObjects
         /\ UNCHANGED <<envLog, nsLog, contents, cacheVars, events, used>>
         /\ stray' \subseteq stray \cup {Target}
         /\ \/ Ends
            \/ /\ NextStep \in Steps /\ queue' = queue
               /\ worker' = [worker EXCEPT !.pc = NextStep, !.nsrv = nsSeen[Target]]
<1>1. LogsOK /\ CachesOK /\ WorkerOK
  BY TypeParts
<1>2. worker.env \in Envs /\ Seen \in Records /\ Target \in Namespaces
  BY <1>1, TargetType DEF GetNamespace, At, WorkerOK
<1>3. nsSeen[Target] \in 1 .. Len(nsLog[Target])
  BY <1>1, <1>2 DEF LogsOK, CachesOK
<1>4. Got \in NamespaceObjects
  BY <1>1, <1>2, <1>3 DEF Got, LogsOK
<1> QED
  BY <1>2, <1>3, <1>4
     DEF GetNamespace, CachedNamespace, Overlooked, Got, NextStep, Retry, Finish, Ends

LEMMA GetNamespaceType ==
  ASSUME TypeOK, GetNamespace
  PROVE  TypeOK' /\ LogsGrow
<1>1. LogsOK /\ CachesOK /\ WorkerOK /\ RestOK /\ ~At("idle")
  BY TypeParts DEF GetNamespace, At
<1>2. /\ worker.env \in Envs /\ Seen \in Records /\ Target \in Namespaces
      /\ nsSeen[Target] \in 1 .. Len(nsLog[Target])
      /\ UNCHANGED <<envLog, nsLog, contents, cacheVars, events, used>>
      /\ stray' \subseteq stray \cup {Target}
  BY GetNamespaceStep
<1>3. LogsOK' /\ LogsGrow
  BY <1>1, <1>2, SameLogs
<1>4. CachesOK'
  BY <1>1, <1>2, <1>3, CachesKept
<1>5. WorkerOK' /\ queue' \subseteq Envs
  <2>1. CASE Ends
    BY <1>1, <1>3, <2>1, WorkerEndsOrGoes
  <2>2. CASE /\ NextStep \in Steps /\ queue' = queue
             /\ worker' = [worker EXCEPT !.pc = NextStep, !.nsrv = nsSeen[Target]]
    <3>1. queue' \subseteq Envs
      BY <1>1, <2>2 DEF RestOK
    <3>2. nsSeen[Target] \in Nat
      BY <1>2
    <3>3. CASE NextStep # "patchNamespace"
      BY <1>1, <1>3, <2>2, <3>1, <3>2, <3>3, WorkerGoes
    <3>4. CASE NextStep = "patchNamespace"
      <4>1. /\ worker' \in Workers /\ worker'.env = worker.env /\ worker'.rv = worker.rv
            /\ worker'.nsrv = nsSeen[Target]
        BY <1>1, <2>2, <3>2 DEF WorkerOK, Workers
      <4>2. Target' = Target
        BY <1>1, <1>3, <4>1, SeenKept
      <4>3. UNCHANGED <<envLog, nsLog>>
        BY <1>2
      <4> QED
        BY <1>1, <1>2, <3>1, <4>1, <4>2, <4>3 DEF WorkerOK, At
    <3> QED
      BY <3>3, <3>4
  <2> QED
    BY <2>1, <2>2, GetNamespaceStep
<1> QED
  BY <1>1, <1>2, <1>3, <1>4, <1>5 DEF TypeOK, RestOK

LEMMA RestartType ==
  ASSUME TypeOK, Restart
  PROVE  TypeOK' /\ LogsGrow
<1>1. LogsOK /\ CachesOK /\ WorkerOK /\ RestOK
  BY TypeParts
<1>2. LogsOK' /\ LogsGrow
  BY <1>1, SameLogs DEF Restart, apiVars
<1>3. CachesOK'
  BY <1>1 DEF Restart, CachesOK, LogsOK, apiVars
<1>4. WorkerOK'
  BY WorkerIdles DEF Restart
<1>5. queue' \subseteq Envs
  BY DEF Restart, Relisted
<1>6. used' \in [{"outside", "faults", "crashes"} -> Nat]
  BY <1>1, SpendType DEF Restart
<1> QED
  BY <1>1, <1>2, <1>3, <1>4, <1>5, <1>6 DEF Restart, TypeOK, RestOK, apiVars

LEMMA NextType ==
  ASSUME TypeOK, [Next]_vars
  PROVE  TypeOK' /\ LogsGrow
<1>1. CASE UNCHANGED vars
  <2>1. LogsGrow
    BY <1>1, TypeParts, SameLogs DEF vars
  <2> QED
    BY <1>1, <2>1 DEF vars, TypeOK, LogsOK, CachesOK, WorkerOK, At, Target, Seen
<1>2. CASE Next
  <2>1. CASE Rest
    BY <1>1, <2>1 DEF Rest
  <2>2. CASE AddFinalizer
    BY <2>2, AddFinalizerType
  <2>3. CASE GetNamespace
    BY <2>3, GetNamespaceType
  <2>4. CASE WritesTarget
    BY <2>4, WritesTargetType
  <2>5. CASE Moves
    BY <2>5, MovesType
  <2>6. CASE RemoveFinalizer
    BY <2>6, RemoveFinalizerType
  <2>7. CASE Restart
    BY <2>7, RestartType
  <2>8. ASSUME NEW e \in Envs, UserActs(e) PROVE TypeOK' /\ LogsGrow
    BY <2>8, UserActsType
  <2>9. ASSUME NEW n \in Namespaces, OthersWrite(n) PROVE TypeOK' /\ LogsGrow
    BY <2>9, OthersWriteType
  <2>10. ASSUME NEW e \in Envs, Reconcile(e) PROVE TypeOK' /\ LogsGrow
    BY <2>10, ReconcileType
  <2>11. CASE \/ \E e \in Envs : WorkloadChanges(e) \/ DeliverRecord(e) \/ DeliverDeployment(e)
              \/ \E n \in Namespaces : DeliverNamespace(n)
    BY <2>11, DeliveryType
  <2> QED
    BY <1>2, <2>1, <2>2, <2>3, <2>4, <2>5, <2>6, <2>7, <2>8, <2>9, <2>10, <2>11
       DEF Next, Calls, WritesTarget, Moves, OthersWrite
<1> QED
  BY <1>1, <1>2

(* The variables keep their types; the caches and the running pass only ever *)
(* refer to versions that exist.                                             *)
THEOREM TypeCorrect == Spec => []TypeOK
<1>1. Init => TypeOK
  BY InitType
<1>2. TypeOK /\ [Next]_vars => TypeOK'
  BY NextType
<1> QED
  BY <1>1, <1>2, PTL DEF Spec

-----------------------------------------------------------------------------
(* Records *)

AllWellFormed == \A e \in Envs : \A i \in 1 .. Len(envLog[e]) : WellFormed(envLog[e][i])

(* A new version that does not take back what the record promised. *)
Keeps(e, env) ==
  \/ ~Record(e).present
  \/ ~Record(e).finalizer
  \/ /\ env.present /\ env.finalizer
     /\ Retarget \/ env.namespaceName = Record(e).namespaceName

LEMMA UserVersion ==
  ASSUME TypeOK, NEW e \in Envs, UserActs(e)
  PROVE  \E env \in Records :
           /\ UserWrites(e, env)
           /\ WellFormed(Record(e)) => WellFormed(env)
           /\ Keeps(e, env)
<1>1. Record(e) \in Records
  BY RecordType, TypeParts
<1>2. CASE CreateEnv(e)
  <2>1. PICK name \in Names \cup {Unset}, owner \in Teams \cup {Unset} :
          UserWrites(e, [NoRecord EXCEPT !.present = TRUE,
                                         !.namespaceName = name, !.owner = owner])
    BY <1>2 DEF CreateEnv
  <2>2. /\ [NoRecord EXCEPT !.present = TRUE, !.namespaceName = name, !.owner = owner] \in Records
        /\ WellFormed([NoRecord EXCEPT !.present = TRUE, !.namespaceName = name, !.owner = owner])
    BY NamesAssumption DEF NoRecord, Records, WellFormed
  <2>3. ~Record(e).present
    BY <1>2 DEF CreateEnv
  <2> QED
    BY <2>1, <2>2, <2>3 DEF Keeps
<1>3. CASE DeleteEnv(e)
  <2>1. CASE Record(e).finalizer
    <3>1. UserWrites(e, [Record(e) EXCEPT !.deleting = TRUE])
      BY <1>3, <2>1 DEF DeleteEnv
    <3>2. /\ [Record(e) EXCEPT !.deleting = TRUE] \in Records
          /\ WellFormed(Record(e)) => WellFormed([Record(e) EXCEPT !.deleting = TRUE])
          /\ [Record(e) EXCEPT !.deleting = TRUE].present = Record(e).present
          /\ [Record(e) EXCEPT !.deleting = TRUE].finalizer
          /\ [Record(e) EXCEPT !.deleting = TRUE].namespaceName = Record(e).namespaceName
      BY <1>1, <2>1 DEF Records, WellFormed
    <3>3. Record(e).present
      BY <1>3 DEF DeleteEnv
    <3> QED
      BY <3>1, <3>2, <3>3 DEF Keeps
  <2>2. CASE ~Record(e).finalizer
    <3>1. UserWrites(e, NoRecord)
      BY <1>3, <2>2 DEF DeleteEnv
    <3>2. NoRecord \in Records /\ WellFormed(NoRecord)
      BY DEF NoRecord, Records, WellFormed
    <3> QED
      BY <2>2, <3>1, <3>2 DEF Keeps
  <2> QED
    BY <2>1, <2>2
<1>4. CASE EditNamespaceName(e)
  <2>1. PICK name \in Names \cup {Unset} :
          UserWrites(e, [Record(e) EXCEPT !.namespaceName = name])
    BY <1>4 DEF EditNamespaceName
  <2>2. /\ [Record(e) EXCEPT !.namespaceName = name] \in Records
        /\ WellFormed(Record(e)) => WellFormed([Record(e) EXCEPT !.namespaceName = name])
        /\ [Record(e) EXCEPT !.namespaceName = name].present = Record(e).present
        /\ [Record(e) EXCEPT !.namespaceName = name].finalizer = Record(e).finalizer
    BY <1>1, NamesAssumption DEF Records, WellFormed
  <2>3. Retarget
    BY <1>4 DEF EditNamespaceName
  <2> QED
    BY <2>1, <2>2, <2>3 DEF Keeps
<1>5. CASE EditOwner(e)
  <2>1. PICK owner \in (Teams \cup {Unset}) \ {Record(e).owner} :
          UserWrites(e, [Record(e) EXCEPT !.owner = owner])
    BY <1>5 DEF EditOwner
  <2>2. /\ [Record(e) EXCEPT !.owner = owner] \in Records
        /\ WellFormed(Record(e)) => WellFormed([Record(e) EXCEPT !.owner = owner])
        /\ [Record(e) EXCEPT !.owner = owner].present = Record(e).present
        /\ [Record(e) EXCEPT !.owner = owner].finalizer = Record(e).finalizer
        /\ [Record(e) EXCEPT !.owner = owner].namespaceName = Record(e).namespaceName
    BY <1>1 DEF Records, WellFormed
  <2> QED
    BY <2>1, <2>2 DEF Keeps
<1> QED
  BY <1>2, <1>3, <1>4, <1>5 DEF UserActs

LEMMA BackedSame ==
  ASSUME UNCHANGED envLog
  PROVE  \A e \in Envs, env \in Records : Backed(e, env) => Backed(e, env)'
BY DEF Backed, Record

LEMMA BackedKept ==
  ASSUME LogsOK, NEW e \in Envs, NEW env \in Records, WriteRecord(e, env), Keeps(e, env)
  PROVE  \A f \in Envs, v \in Records : Backed(f, v) => Backed(f, v)'
<1> SUFFICES ASSUME NEW f \in Envs, NEW v \in Records, Backed(f, v)
             PROVE  Backed(f, v)'
  OBVIOUS
<1>1. Record(e)' = env /\ (f # e => Record(f)' = Record(f))
  BY RecordWritten
<1>2. Backed(f, v)' <=> /\ Record(f)'.present /\ Record(f)'.finalizer
                        /\ Retarget \/ Record(f)'.namespaceName = v.namespaceName
  BY DEF Backed
<1> QED
  BY <1>1, <1>2 DEF Backed, Keeps

LEMMA CacheKept ==
  ASSUME TypeOK, AllWellFormed, CacheBacked, NEW e \in Envs, NEW env \in Records,
         WriteRecord(e, env), WellFormed(env), Keeps(e, env), UNCHANGED envSeen
  PROVE  AllWellFormed' /\ CacheBacked'
<1>1. LogsOK /\ CachesOK
  BY TypeParts
<1>2. /\ envLog' \in [Envs -> Seq(Records)]
      /\ \A f \in Envs : Grown(envLog[f], envLog'[f]) /\ (f # e => envLog'[f] = envLog[f])
      /\ Len(envLog'[e]) = Len(envLog[e]) + 1
      /\ envLog'[e][Len(envLog[e]) + 1] = env /\ Record(e)' = env
  BY <1>1, RecordWritten
<1>3. \A f \in Envs, v \in Records : Backed(f, v) => Backed(f, v)'
  BY <1>1, BackedKept
<1>4. ASSUME NEW f \in Envs, NEW i \in 1 .. Len(envLog'[f])
      PROVE  \/ i \in 1 .. Len(envLog[f]) /\ envLog'[f][i] = envLog[f][i]
             \/ f = e /\ i = Len(envLog[e]) + 1 /\ envLog'[f][i] = env
  <2>1. Len(envLog[f]) \in Nat /\ Len(envLog'[f]) \in Nat
    BY <1>1, <1>2 DEF LogsOK
  <2> QED
    BY <1>2, <2>1 DEF Grown
<1>5. AllWellFormed'
  BY <1>4 DEF AllWellFormed
<1>6. CacheBacked'
  <2> SUFFICES ASSUME NEW f \in Envs, NEW i \in envSeen[f] .. Len(envLog'[f]),
                      Firm(envLog'[f][i])
               PROVE  /\ Record(f)'.present /\ Record(f)'.finalizer
                      /\ Retarget \/ Record(f)'.namespaceName = envLog'[f][i].namespaceName
    BY DEF CacheBacked, Backed, Firm
  <2>1. i \in 1 .. Len(envLog'[f]) /\ envSeen[f] \in Nat
    BY <1>1, <1>2 DEF CachesOK, LogsOK
  <2>2. CASE i \in 1 .. Len(envLog[f]) /\ envLog'[f][i] = envLog[f][i]
    <3>1. i \in envSeen[f] .. Len(envLog[f]) /\ envLog[f][i] \in Records
      BY <1>1, <2>1, <2>2 DEF LogsOK
    <3>2. Backed(f, envLog[f][i])
      BY <2>2, <3>1 DEF CacheBacked
    <3>3. PICK v \in Records : v = envLog[f][i]
      BY <3>1
    <3>4. Backed(f, v)'
      BY <1>3, <3>2, <3>3
    <3> QED
      BY <2>2, <3>3, <3>4 DEF Backed
  <2>3. CASE f = e /\ envLog'[f][i] = env
    BY <1>2, <2>3 DEF Firm
  <2> QED
    BY <1>4, <2>1, <2>2, <2>3
<1> QED
  BY <1>5, <1>6

LEMMA PassKept ==
  ASSUME TypeOK, PassShape, PassBacked, LogsGrow, UNCHANGED worker,
         \A f \in Envs, v \in Records : Backed(f, v) => Backed(f, v)',
         \A f \in Envs : envSeen[f] <= envSeen'[f],
         envSeen' \in [Envs -> Nat]
  PROVE  PassShape' /\ PassBacked'
<1>1. LogsOK /\ CachesOK /\ WorkerOK
  BY TypeParts
<1>2. CASE At("idle")
  BY <1>2 DEF PassShape, PassBacked, At
<1>3. CASE ~At("idle")
  <2>1. Seen' = Seen /\ Seen \in Records /\ worker.env \in Envs /\ worker.rv \in Nat
    BY <1>1, <1>3, SeenKept, TargetType DEF WorkerOK, Workers
  <2>2. PassShape'
    BY <2>1 DEF PassShape
  <2>3. Firm(Seen)' => Backed(worker.env, Seen)'
    BY <1>3, <2>1 DEF PassBacked, Firm
  <2>4. Seen'.deleting => worker.rv <= envSeen'[worker.env]
    BY <1>1, <1>3, <2>1 DEF PassBacked, CachesOK
  <2> QED
    BY <2>1, <2>2, <2>3, <2>4 DEF PassBacked, Firm, At
<1> QED
  BY <1>2, <1>3

LEMMA RecordParts == RecordInv <=> AllWellFormed /\ CacheBacked /\ PassShape /\ PassBacked
BY DEF RecordInv, AllWellFormed

LEMMA InitRecord == Init => RecordInv
<1> SUFFICES ASSUME Init PROVE RecordInv
  OBVIOUS
<1>1. \A e \in Envs : envLog[e] = <<NoRecord>> /\ envSeen[e] = 1
  BY DEF Init
<1>2. \A i \in 1 .. Len(<<NoRecord>>) :
        ~<<NoRecord>>[i].present /\ ~<<NoRecord>>[i].finalizer /\ ~<<NoRecord>>[i].deleting
  BY DEF NoRecord
<1>3. worker.pc = "idle"
  BY DEF Init, Idle
<1> QED
  BY <1>1, <1>2, <1>3
     DEF RecordInv, WellFormed, CacheBacked, Firm, PassShape, PassBacked, At

(* Steps that leave the records alone and move the cache forward. *)
LEMMA CacheMoves ==
  ASSUME TypeOK, AllWellFormed, CacheBacked, UNCHANGED envLog, CachesOK',
         \A e \in Envs : envSeen[e] <= envSeen'[e]
  PROVE  AllWellFormed' /\ CacheBacked'
<1>1. LogsOK /\ CachesOK
  BY TypeParts
<1>2. ASSUME NEW e \in Envs, NEW i \in envSeen'[e] .. Len(envLog[e])
      PROVE  i \in envSeen[e] .. Len(envLog[e])
  BY <1>1, <1>2 DEF CachesOK, LogsOK
<1> QED
  BY <1>2 DEF AllWellFormed, CacheBacked, Backed, Record

LEMMA PassIdle == ASSUME worker' = Idle PROVE PassShape' /\ PassBacked'
BY DEF PassShape, PassBacked, Idle, At

LEMMA QuietRecord ==
  ASSUME TypeOK, RecordInv, TypeOK', LogsGrow, UNCHANGED envLog,
         worker' \in {worker, Idle}, \A e \in Envs : envSeen[e] <= envSeen'[e]
  PROVE  RecordInv'
<1>1. CachesOK' /\ envSeen' \in [Envs -> Nat]
  BY DEF TypeOK, CachesOK
<1>2. AllWellFormed' /\ CacheBacked'
  BY <1>1, CacheMoves, RecordParts
<1>3. PassShape' /\ PassBacked'
  BY <1>1, PassKept, PassIdle, BackedSame, RecordParts
<1> QED
  BY <1>2, <1>3 DEF RecordInv, AllWellFormed

LEMMA SeenForward ==
  ASSUME TypeOK, \/ UNCHANGED envSeen
                 \/ \E e \in Envs : DeliverRecord(e)
                 \/ Restart
  PROVE  \A e \in Envs : envSeen[e] <= envSeen'[e]
<1>1. \A e \in Envs : envSeen[e] \in Nat /\ envSeen[e] <= Len(envLog[e]) /\ Len(envLog[e]) \in Nat
  BY TypeParts DEF CachesOK, LogsOK
<1>2. envSeen \in [Envs -> Nat]
  BY TypeParts DEF CachesOK
<1>3. ASSUME NEW e \in Envs, DeliverRecord(e) PROVE \A f \in Envs : envSeen[f] <= envSeen'[f]
  BY <1>1, <1>2, <1>3 DEF DeliverRecord
<1>4. CASE Restart
  BY <1>1, <1>4 DEF Restart
<1> QED
  BY <1>1, <1>3, <1>4

LEMMA UserRecord ==
  ASSUME TypeOK, RecordInv, NEW e \in Envs, UserActs(e)
  PROVE  RecordInv'
<1>1. PICK env \in Records : /\ UserWrites(e, env) /\ Keeps(e, env)
                             /\ WellFormed(Record(e)) => WellFormed(env)
  BY UserVersion
<1>2. LogsOK /\ LogsGrow /\ TypeOK' /\ UNCHANGED <<envSeen, worker>> /\ WriteRecord(e, env)
  BY <1>1, UserActsType, TypeParts DEF UserWrites, cacheVars
<1>3. WellFormed(Record(e))
  BY <1>2, RecordType DEF RecordInv, Record
<1>4. AllWellFormed' /\ CacheBacked'
  BY <1>1, <1>2, <1>3, CacheKept, RecordParts
<1>5. \A f \in Envs, v \in Records : Backed(f, v) => Backed(f, v)'
  BY <1>1, <1>2, BackedKept
<1>6. /\ \A f \in Envs : envSeen[f] <= envSeen'[f]
      /\ envSeen' \in [Envs -> Nat]
  BY <1>2 DEF TypeOK, CachesOK
<1>7. PassShape' /\ PassBacked'
  BY <1>2, <1>5, <1>6, PassKept, RecordParts
<1> QED
  BY <1>4, <1>7 DEF RecordInv, AllWellFormed

LEMMA ReconcileRecord ==
  ASSUME TypeOK, RecordInv, NEW e \in Envs, Reconcile(e)
  PROVE  RecordInv'
<1>1. LogsOK /\ CachesOK /\ UNCHANGED <<envLog, envSeen>>
  BY TypeParts DEF Reconcile, apiVars, cacheVars
<1>2. TypeOK' /\ LogsGrow
  BY ReconcileType
<1>3. /\ CachedRecord(e) \in Records /\ envSeen[e] \in envSeen[e] .. Len(envLog[e])
      /\ envSeen[e] \in Nat
  BY <1>1 DEF CachedRecord, LogsOK, CachesOK
<1>4. \A f \in Envs : envSeen[f] <= envSeen'[f]
  BY <1>1 DEF CachesOK
<1>5. CASE worker' = Idle
  BY <1>1, <1>2, <1>4, <1>5, QuietRecord
<1>6. CASE worker' # Idle
  <2>1. /\ FirstStep(CachedRecord(e)) \in {"addFinalizer", "getNamespace"}
        /\ worker' = [Idle EXCEPT !.pc = FirstStep(CachedRecord(e)),
                                  !.env = e, !.rv = envSeen[e]]
    BY <1>3, <1>6, FirstStepType DEF Reconcile
  <2>2. /\ worker'.env = e /\ worker'.rv = envSeen[e]
        /\ worker'.pc = FirstStep(CachedRecord(e)) /\ Seen' = CachedRecord(e)
    BY <1>1, <2>1 DEF Idle, Seen, CachedRecord
  <2>3. PassShape'
    BY <1>3, <2>1, <2>2, FirstStepType DEF PassShape
  <2>4. Firm(CachedRecord(e)) => Backed(e, CachedRecord(e))
    BY <1>3 DEF RecordInv, CacheBacked, CachedRecord
  <2>5. PassBacked'
    BY <1>1, <1>3, <2>2, <2>4 DEF PassBacked, Backed, Record, Firm
  <2>6. AllWellFormed' /\ CacheBacked'
    BY <1>1, <1>2, <1>4, CacheMoves, RecordParts DEF TypeOK
  <2> QED
    BY <2>3, <2>5, <2>6 DEF RecordInv, AllWellFormed
<1> QED
  BY <1>5, <1>6

(* A call that writes no record and goes to step pc. *)
LEMMA GoesRecord ==
  ASSUME TypeOK, RecordInv, TypeOK', LogsGrow, UNCHANGED <<envLog, envSeen>>, ~At("idle"),
         worker'.env = worker.env, worker'.rv = worker.rv,
         worker'.pc # "idle", worker'.pc # "addFinalizer", worker'.pc # "getNamespace",
         worker'.pc \in {"createNamespace", "patchNamespace", "provision"} => Firm(Seen),
         worker'.pc \in {"deleteNamespace", "removeFinalizer"} => Seen.deleting
  PROVE  RecordInv'
<1>1. LogsOK /\ WorkerOK /\ CachesOK' /\ AllWellFormed /\ CacheBacked /\ PassBacked
  BY TypeParts, RecordParts DEF TypeOK
<1>2. Seen' = Seen
  BY <1>1, SeenKept
<1>3. \A e \in Envs : envSeen[e] <= envSeen'[e]
  BY SeenForward
<1>4. AllWellFormed' /\ CacheBacked'
  BY <1>1, <1>3, CacheMoves
<1>5. PassShape'
  BY <1>2 DEF PassShape, Firm
<1>6. PassBacked'
  BY <1>1, <1>2 DEF PassBacked, Firm, Backed, Record
<1> QED
  BY <1>4, <1>5, <1>6 DEF RecordInv, AllWellFormed

LEMMA GetNamespaceRecord ==
  ASSUME TypeOK, RecordInv, GetNamespace
  PROVE  RecordInv'
<1>1. TypeOK' /\ LogsGrow /\ worker \in Workers
  BY GetNamespaceType, TypeParts DEF WorkerOK
<1>2. /\ worker.env \in Envs /\ Seen \in Records /\ Got \in NamespaceObjects
      /\ UNCHANGED <<envLog, envSeen>>
      /\ \/ Ends
         \/ /\ NextStep \in Steps
            /\ worker' = [worker EXCEPT !.pc = NextStep, !.nsrv = nsSeen[Target]]
  BY GetNamespaceStep DEF apiVars, cacheVars
<1>3. \A e \in Envs : envSeen[e] <= envSeen'[e]
  BY <1>2, SeenForward
<1>4. CASE Ends
  BY <1>1, <1>2, <1>3, <1>4, QuietRecord DEF Ends
<1>5. CASE /\ NextStep \in Steps
           /\ worker' = [worker EXCEPT !.pc = NextStep, !.nsrv = nsSeen[Target]]
  <2>1. worker'.env = worker.env /\ worker'.rv = worker.rv /\ worker'.pc = NextStep
    BY <1>1, <1>5 DEF Workers
  <2>2. Seen.finalizer /\ WellFormed(Seen)
    BY TypeParts DEF GetNamespace, At, RecordInv, PassShape, Seen, WorkerOK
  <2>3. CASE Seen.deleting
    <3>1. NextStep \in {"deleteNamespace", "removeFinalizer"}
      BY <1>2, <1>5, <2>3, StepsType DEF NextStep, Steps
    <3> QED
      BY <1>1, <1>2, <2>1, <2>3, <3>1, GoesRecord DEF GetNamespace, At
  <2>4. CASE ~Seen.deleting
    <3>1. NextStep \in {"createNamespace", "patchNamespace"}
      BY <1>2, <1>5, <2>4, StepsType DEF NextStep, Steps
    <3>2. Firm(Seen)
      BY <2>2, <2>4 DEF Firm, WellFormed
    <3> QED
      BY <1>1, <1>2, <2>1, <2>4, <3>1, <3>2, GoesRecord DEF GetNamespace, At
  <2> QED
    BY <2>3, <2>4
<1> QED
  BY <1>2, <1>4, <1>5

LEMMA CallsRecord ==
  ASSUME TypeOK, RecordInv, WritesTarget \/ Moves
  PROVE  RecordInv'
<1>1. TypeOK' /\ LogsGrow /\ worker \in Workers
  BY WritesTargetType, MovesType, TypeParts DEF WorkerOK
<1>2. /\ UNCHANGED <<envLog, envSeen>> /\ ~At("idle")
      /\ \/ worker' = Idle
         \/ /\ worker' = [worker EXCEPT !.pc = "provision"]
            /\ worker.pc \in {"createNamespace", "patchNamespace", "provision"}
  BY DEF WritesTarget, CreateNamespace, PatchNamespace, DeleteNamespace,
         Moves, WriteObjects, RefuseObjects, FinishProvisioning, ApiError, At,
         Answered, AnswerLost, Retry, Finish, Goto, apiVars, cacheVars
<1>3. \A e \in Envs : envSeen[e] <= envSeen'[e]
  BY <1>2, SeenForward
<1>4. CASE worker' = Idle
  BY <1>1, <1>2, <1>3, <1>4, QuietRecord
<1>5. CASE /\ worker' = [worker EXCEPT !.pc = "provision"]
           /\ worker.pc \in {"createNamespace", "patchNamespace", "provision"}
  <2>1. worker'.env = worker.env /\ worker'.rv = worker.rv /\ worker'.pc = "provision"
    BY <1>1, <1>5 DEF Workers
  <2>2. Firm(Seen)
    BY <1>5 DEF RecordInv, PassShape
  <2> QED
    BY <1>1, <1>2, <2>1, <2>2, GoesRecord
<1> QED
  BY <1>2, <1>4, <1>5

LEMMA AddFinalizerRecord ==
  ASSUME TypeOK, RecordInv, AddFinalizer
  PROVE  RecordInv'
<1>1. /\ LogsOK /\ CachesOK /\ WorkerOK /\ ~At("idle") /\ worker \in Workers
      /\ worker.env \in Envs /\ Seen \in Records /\ worker.rv \in 1 .. Len(envLog[worker.env])
  BY TypeParts, TargetType DEF AddFinalizer, At, WorkerOK
<1>2. TypeOK' /\ LogsGrow /\ UNCHANGED envSeen
  BY AddFinalizerType DEF AddFinalizer, cacheVars
<1>3. \A e \in Envs : envSeen[e] <= envSeen'[e]
  BY <1>2, SeenForward
<1>4. Seen.present /\ ~Seen.finalizer /\ ~Seen.deleting
  BY DEF RecordInv, PassShape, AddFinalizer, At
<1>5. CASE Conflict
  BY <1>2, <1>3, <1>5, QuietRecord DEF AddFinalizer, Retry
<1>6. CASE ~Conflict
  <2> DEFINE env == [Seen EXCEPT !.finalizer = TRUE]
  <2>1. /\ WriteRecord(worker.env, env)
        /\ \/ worker' = [worker EXCEPT !.pc = "getNamespace", !.rv = worker.rv + 1]
           \/ worker' = Idle
    BY <1>6 DEF AddFinalizer, Answered, AnswerLost, Retry
  <2>2. env \in Records /\ WellFormed(env) /\ env.present /\ env.finalizer /\ ~env.deleting
    BY <1>1, <1>4 DEF Records, WellFormed
  <2>3. Seen = Record(worker.env)
    BY <1>6 DEF Conflict, Seen, Record
  <2>4. Keeps(worker.env, env)
    BY <1>4, <2>3 DEF Keeps
  <2> HIDE DEF env
  <2>5. AllWellFormed' /\ CacheBacked'
    BY <1>1, <1>2, <2>1, <2>2, <2>4, CacheKept, RecordParts
  <2>6. CASE worker' = Idle
    BY <2>5, <2>6, PassIdle DEF RecordInv, AllWellFormed
  <2>7. CASE worker' = [worker EXCEPT !.pc = "getNamespace", !.rv = worker.rv + 1]
    <3>1. worker.rv \in Nat /\ worker.rv = Len(envLog[worker.env])
      BY <1>1, <1>6 DEF Conflict, Workers
    <3>2. PICK k \in Nat : k = worker.rv + 1
      BY <3>1
    <3>3. worker'.env = worker.env /\ worker'.rv = k /\ worker'.pc = "getNamespace"
      BY <1>1, <2>7, <3>2 DEF Workers
    <3>4. /\ Len(envLog'[worker.env]) = k
          /\ envLog'[worker.env][k] = env
      BY <1>1, <2>1, <2>2, <3>1, <3>2, RecordWritten
    <3>5. Seen' = env
      BY <3>3, <3>4 DEF Seen
    <3>6. PassShape'
      BY <2>2, <3>3, <3>5 DEF PassShape
    <3>7. PassBacked'
      BY <2>2, <3>3, <3>4, <3>5 DEF PassBacked, Backed, Record
    <3> QED
      BY <2>5, <3>6, <3>7 DEF RecordInv, AllWellFormed
  <2> QED
    BY <2>1, <2>6, <2>7
<1> QED
  BY <1>5, <1>6

(* The pass that removes the finalizer saw the last version of the record, and *)
(* so has the cache: no version that provisions is left to be read.            *)
LEMMA RemoveFinalizerRecord ==
  ASSUME TypeOK, RecordInv, RemoveFinalizer
  PROVE  RecordInv'
<1>1. /\ LogsOK /\ CachesOK /\ WorkerOK /\ ~At("idle")
      /\ worker.env \in Envs /\ worker.rv \in 1 .. Len(envLog[worker.env])
  BY TypeParts DEF RemoveFinalizer, At, WorkerOK
<1>2. TypeOK' /\ LogsGrow /\ UNCHANGED envSeen /\ worker' = Idle
  BY RemoveFinalizerType DEF RemoveFinalizer, cacheVars, Answered, AnswerLost, Retry, Finish
<1>3. \A e \in Envs : envSeen[e] <= envSeen'[e]
  BY <1>2, SeenForward
<1>4. CASE UNCHANGED envLog
  BY <1>2, <1>3, <1>4, QuietRecord
<1>5. CASE ~Conflict /\ WriteRecord(worker.env, NoRecord)
  <2>1. NoRecord \in Records /\ WellFormed(NoRecord) /\ ~Firm(NoRecord)
    BY DEF NoRecord, Records, WellFormed, Firm
  <2>2. /\ envLog' \in [Envs -> Seq(Records)]
        /\ \A f \in Envs : Grown(envLog[f], envLog'[f])
                          /\ (f # worker.env => envLog'[f] = envLog[f])
        /\ Len(envLog'[worker.env]) = Len(envLog[worker.env]) + 1
        /\ envLog'[worker.env][Len(envLog[worker.env]) + 1] = NoRecord
    BY <1>1, <1>5, <2>1, RecordWritten
  <2>3. worker.rv = Len(envLog[worker.env]) /\ Seen.deleting
    BY <1>5 DEF Conflict, RecordInv, PassShape, RemoveFinalizer, At
  <2>4. envSeen[worker.env] = Len(envLog[worker.env]) /\ Len(envLog[worker.env]) \in Nat
    BY <1>1, <2>3 DEF RecordInv, PassBacked, CachesOK, LogsOK
  <2>5. ASSUME NEW f \in Envs, NEW i \in 1 .. Len(envLog'[f])
        PROVE  \/ i \in 1 .. Len(envLog[f]) /\ envLog'[f][i] = envLog[f][i]
               \/ f = worker.env /\ envLog'[f][i] = NoRecord
    <3>1. Len(envLog[f]) \in Nat /\ Len(envLog'[f]) \in Nat
      BY <1>1, <2>2 DEF LogsOK
    <3> QED
      BY <2>2, <3>1 DEF Grown
  <2>6. AllWellFormed'
    BY <2>1, <2>5, RecordParts DEF AllWellFormed
  <2>7. CacheBacked'
    <3> SUFFICES ASSUME NEW f \in Envs, NEW i \in envSeen[f] .. Len(envLog'[f]),
                        Firm(envLog'[f][i])
                 PROVE  /\ Record(f)'.present /\ Record(f)'.finalizer
                        /\ Retarget \/ Record(f)'.namespaceName = envLog'[f][i].namespaceName
      BY <1>2 DEF CacheBacked, Backed, Firm
    <3>1. i \in 1 .. Len(envLog'[f]) /\ envSeen[f] \in Nat
      BY <1>1, <2>2 DEF CachesOK, LogsOK
    <3>2. CASE f = worker.env
      <4>1. envLog'[f][i] # NoRecord
        BY <2>1
      <4>2. i \in 1 .. Len(envLog[f]) /\ envLog'[f][i] = envLog[f][i]
        BY <2>5, <3>1, <4>1
      <4>3. i = Len(envLog[f])
        BY <2>4, <3>1, <3>2, <4>2
      <4>4. envLog'[f][i] = Seen
        BY <2>3, <3>2, <4>2, <4>3 DEF Seen
      <4> QED
        BY <2>3, <4>4 DEF Firm
    <3>3. CASE f # worker.env
      <4>1. envLog'[f] = envLog[f]
        BY <2>2, <3>3
      <4>2. Backed(f, envLog[f][i])
        BY <4>1 DEF RecordInv, CacheBacked
      <4> QED
        BY <4>1, <4>2 DEF Backed, Record
    <3> QED
      BY <3>2, <3>3
  <2> QED
    BY <1>2, <2>6, <2>7, PassIdle DEF RecordInv, AllWellFormed
<1> QED
  BY <1>4, <1>5 DEF RemoveFinalizer

LEMMA NextRecord ==
  ASSUME TypeOK, RecordInv, [Next]_vars
  PROVE  RecordInv'
<1>1. TypeOK' /\ LogsGrow
  BY NextType
<1>2. ASSUME UNCHANGED envLog, worker' \in {worker, Idle},
             \/ UNCHANGED envSeen
             \/ \E e \in Envs : DeliverRecord(e)
             \/ Restart
      PROVE  RecordInv'
  BY <1>1, <1>2, SeenForward, QuietRecord
<1>3. CASE UNCHANGED vars \/ Rest
  BY <1>2, <1>3 DEF vars, Rest
<1>4. ASSUME NEW e \in Envs, UserActs(e) PROVE RecordInv'
  BY <1>4, UserRecord
<1>5. ASSUME NEW n \in Namespaces, OthersWrite(n) PROVE RecordInv'
  BY <1>2, <1>5 DEF OthersWrite, OutsiderActs, ForeignCreate, ForeignDelete, StripLabels,
                    Outside, FinishTermination, cacheVars
<1>6. ASSUME NEW e \in Envs, WorkloadChanges(e) \/ DeliverRecord(e) \/ DeliverDeployment(e)
      PROVE  RecordInv'
  BY <1>2, <1>6 DEF WorkloadChanges, DeliverRecord, DeliverDeployment, apiVars, cacheVars
<1>7. ASSUME NEW n \in Namespaces, DeliverNamespace(n) PROVE RecordInv'
  BY <1>2, <1>7 DEF DeliverNamespace, apiVars
<1>8. ASSUME NEW e \in Envs, Reconcile(e) PROVE RecordInv'
  BY <1>8, ReconcileRecord
<1>9. CASE Restart
  BY <1>2, <1>9 DEF Restart, apiVars
<1>10. CASE AddFinalizer
  BY <1>10, AddFinalizerRecord
<1>11. CASE GetNamespace
  BY <1>11, GetNamespaceRecord
<1>12. CASE WritesTarget \/ Moves
  BY <1>12, CallsRecord
<1>13. CASE RemoveFinalizer
  BY <1>13, RemoveFinalizerRecord
<1> QED
  BY <1>3, <1>4, <1>5, <1>6, <1>7, <1>8, <1>9, <1>10, <1>11, <1>12, <1>13
     DEF Next, Calls, WritesTarget, Moves, OthersWrite

(* However far the caches lag and whatever fails, provisioning goes by versions *)
(* of a record that the record still backs (RecordInv says how).                *)
THEOREM RecordCorrect == Spec => []RecordInv
<1>1. Init => RecordInv
  BY InitRecord
<1>2. TypeOK /\ RecordInv /\ [Next]_vars => RecordInv'
  BY NextRecord
<1> QED
  BY <1>1, <1>2, TypeCorrect, PTL DEF Spec
===============================================================================
