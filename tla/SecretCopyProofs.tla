---------------------------- MODULE SecretCopyProofs ----------------------------
(***************************************************************************)
(* Theorems about SecretCopy, for any types and contents of Secrets, for a *)
(* Secret that is pulled with or not, and for every bound.                 *)
(***************************************************************************)
EXTENDS SecretCopy, TLAPS

Bounds == {"edits", "faults", "crashes"}

(* The parts of the type invariant that a step touches together. *)
SourceOK == source \in Sources /\ sourceSeen \in Sources

CopyOK ==
  /\ copy \in Copies /\ copySeen \in Copies /\ behind \in BOOLEAN
  /\ ~behind => copySeen = copy

WorkerOK ==
  /\ worker \in Workers /\ queued \in BOOLEAN
  /\ worker.pc \notin {"idle", "readSource"} => worker.src.present

UsedOK == used \in [Bounds -> Nat]

LEMMA TypeParts == TypeOK <=> SourceOK /\ CopyOK /\ WorkerOK /\ UsedOK
BY DEF TypeOK, SourceOK, CopyOK, WorkerOK, UsedOK, Bounds

LEMMA TypePartsNext == SourceOK' /\ CopyOK' /\ WorkerOK' /\ UsedOK' => TypeOK'
BY DEF TypeOK, SourceOK, CopyOK, WorkerOK, UsedOK, Bounds

(* What a pass is about to delete is not of the type it wants, if it is still *)
(* the object that the pass has read.                                         *)
Mismatch ==
  worker.pc = "delete" /\ worker.same /\ copy.present => copy.type # worker.src.type

(* What people have left alone since the pass has read it is the operator's, or *)
(* nothing is there.                                                            *)
OwnFound ==
  worker.pc \in {"delete", "createOrUpdate"} /\ worker.untouched /\ copy.present => copy.ours

Found == Mismatch /\ OwnFound

-----------------------------------------------------------------------------
(* Types *)

LEMMA PresentSource ==
  ASSUME NEW src \in Sources, src.present
  PROVE  src.type \in Types /\ src.data \in Data
<1>1. CASE src = Absent BY <1>1 DEF Absent
<1>2. CASE src \in [present : {TRUE}, type : Types, data : Data] BY <1>2
<1> QED BY <1>1, <1>2 DEF Sources

LEMMA PresentCopy ==
  ASSUME NEW c \in Copies
  PROVE  c.present \in BOOLEAN
<1>1. CASE c = Absent BY <1>1 DEF Absent
<1>2. CASE c \in [present : {TRUE}, type : Types, data : Data, ours : BOOLEAN] BY <1>2
<1> QED BY <1>1, <1>2 DEF Copies

LEMMA WantedOK ==
  ASSUME NEW src \in Sources, src.present
  PROVE  Wanted(src) \in Copies /\ Wanted(src).present
<1>1. src.type \in Types /\ src.data \in Data BY PresentSource
<1> QED BY <1>1 DEF Wanted, Copies

LEMMA AbsentOK == Absent \in Sources /\ Absent \in Copies /\ ~Absent.present
BY DEF Absent, Sources, Copies

LEMMA IdleOK == Idle \in Workers /\ Idle.pc = "idle"
<1>1. Absent \in Sources BY AbsentOK
<1> QED BY <1>1 DEF Idle, Workers

LEMMA SpendOK ==
  ASSUME UsedOK, NEW bound \in Bounds, NEW max, Spend(bound, max)
  PROVE  UsedOK'
BY DEF UsedOK, Spend

(* A pass that ends is at nothing. *)
LEMMA Ended ==
  ASSUME WorkerOK, Finish \/ Retry
  PROVE  WorkerOK' /\ worker'.pc = "idle"
BY IdleOK DEF WorkerOK, Finish, Retry

LEMMA Gone ==
  ASSUME WorkerOK, worker.src.present,
         NEW pc \in {"delete", "create", "createOrUpdate"}, Goto(pc)
  PROVE  WorkerOK' /\ worker'.pc = pc
BY DEF WorkerOK, Goto, Workers

LEMMA Written ==
  ASSUME CopyOK, NEW c \in Copies, WriteCopy(c), UNCHANGED copySeen
  PROVE  CopyOK'
BY DEF CopyOK, WriteCopy

-----------------------------------------------------------------------------
(* Steps *)

LEMMA PeopleStep ==
  ASSUME TypeOK, Found, EditSource \/ OutsiderWrites
  PROVE  TypeOK' /\ Found'
<1>1. SourceOK /\ CopyOK /\ WorkerOK /\ UsedOK BY TypeParts
<1>2. UsedOK' BY <1>1, SpendOK DEF EditSource, OutsiderWrites, Bounds
<1>3. CASE EditSource
  <2>1. SourceOK' /\ CopyOK' /\ WorkerOK'
    BY <1>1, <1>3 DEF EditSource, SourceOK, CopyOK, WorkerOK
  <2>2. Found' BY <1>3 DEF EditSource, Found, Mismatch, OwnFound
  <2> QED BY <1>2, <2>1, <2>2, TypePartsNext
<1>4. CASE OutsiderWrites
  <2>1. SourceOK' BY <1>1, <1>4 DEF OutsiderWrites, SourceOK
  <2>2. CopyOK' BY <1>1, <1>4 DEF OutsiderWrites, CopyOK
  <2>3. copy.present \in BOOLEAN /\ copy'.present \in BOOLEAN
    BY <1>1, <2>2, PresentCopy DEF CopyOK
  <2>4. /\ worker' \in Workers /\ worker'.pc = worker.pc /\ worker'.src = worker.src
        /\ worker'.same = (worker.same /\ copy.present /\ copy'.present)
        /\ worker'.untouched = FALSE
    <3>1. (worker.same /\ copy.present /\ copy'.present) \in BOOLEAN OBVIOUS
    <3> QED BY <1>1, <1>4, <3>1 DEF OutsiderWrites, WorkerOK, Workers
  <2>5. WorkerOK' BY <1>1, <1>4, <2>4 DEF OutsiderWrites, WorkerOK
  <2>6. Mismatch'
    <3>1. copy.present /\ copy'.present => copy'.type = copy.type
      BY <1>4 DEF OutsiderWrites
    <3> QED BY <2>4, <3>1 DEF Found, Mismatch
  <2>7. OwnFound' BY <2>4 DEF OwnFound
  <2> QED BY <1>2, <2>1, <2>2, <2>5, <2>6, <2>7, TypePartsNext DEF Found
<1> QED BY <1>3, <1>4

LEMMA EventStep ==
  ASSUME TypeOK, Found, DeliverSource \/ DeliverCopy \/ Wake
  PROVE  TypeOK' /\ Found'
<1>1. SourceOK /\ CopyOK /\ WorkerOK /\ UsedOK BY TypeParts
<1>2. UNCHANGED <<source, copy, worker, used>> BY DEF DeliverSource, DeliverCopy, Wake
<1>3. SourceOK' BY <1>1 DEF DeliverSource, DeliverCopy, Wake, SourceOK
<1>4. CopyOK' BY <1>1 DEF DeliverSource, DeliverCopy, Wake, CopyOK
<1>5. WorkerOK' BY <1>1 DEF DeliverSource, DeliverCopy, Wake, WorkerOK
<1>6. UsedOK' BY <1>1, <1>2 DEF UsedOK
<1>7. Found' BY <1>2 DEF Found, Mismatch, OwnFound
<1> QED BY <1>3, <1>4, <1>5, <1>6, <1>7, TypePartsNext

LEMMA ReadingStep ==
  ASSUME TypeOK, Found, Reconcile \/ ReadSource \/ ReadCopy
  PROVE  TypeOK' /\ Found'
<1>1. SourceOK /\ CopyOK /\ WorkerOK /\ UsedOK BY TypeParts
<1>2. UNCHANGED <<source, sourceSeen, copy, copySeen, behind, used>>
  BY DEF Reconcile, ReadSource, ReadCopy
<1>3. SourceOK' /\ CopyOK' /\ UsedOK' BY <1>1, <1>2 DEF SourceOK, CopyOK, UsedOK
<1>4. CASE Reconcile
  <2>1. worker' \in Workers /\ worker'.pc = "readSource"
    BY <1>4, AbsentOK DEF Reconcile, Idle, Workers
  <2>2. WorkerOK' BY <1>4, <2>1 DEF Reconcile, WorkerOK
  <2>3. Found' BY <2>1 DEF Found, Mismatch, OwnFound
  <2> QED BY <1>3, <2>2, <2>3, TypePartsNext
<1>5. CASE ReadSource
  <2>1. CASE Retry
    <3>1. WorkerOK' /\ worker'.pc = "idle" BY <1>1, <2>1, Ended
    <3> QED BY <1>3, <3>1, TypePartsNext DEF Found, Mismatch, OwnFound
  <2>2. CASE /\ Accepted(sourceSeen)
             /\ worker' = [worker EXCEPT !.pc = "readCopy", !.src = sourceSeen]
             /\ queued' = queued
    <3>1. /\ worker' \in Workers /\ worker'.pc = "readCopy" /\ worker'.src = sourceSeen
      BY <1>1, <2>2 DEF WorkerOK, SourceOK, Workers
    <3>2. sourceSeen.present BY <2>2 DEF Accepted
    <3>3. WorkerOK' BY <1>1, <2>2, <3>1, <3>2 DEF WorkerOK
    <3>4. Found' BY <3>1 DEF Found, Mismatch, OwnFound
    <3> QED BY <1>3, <3>3, <3>4, TypePartsNext
  <2> QED BY <1>5, <2>1, <2>2 DEF ReadSource
<1>6. CASE ReadCopy
  <2> DEFINE step == CopyStep(worker.src, copy)
  <2>1. step \in {"createOrUpdate", "error", "delete"}
        /\ (step = "delete" => copy.type # worker.src.type)
        /\ (step # "error" /\ copy.present => copy.ours)
    <3>1. copy.present \in BOOLEAN BY <1>1, PresentCopy DEF CopyOK
    <3> QED BY <3>1 DEF CopyStep, owns
  <2> HIDE DEF step
  <2>2. \/ step = "error" /\ Retry
        \/ /\ step # "error" /\ queued' = queued
           /\ worker' = [worker EXCEPT !.pc = step, !.same = TRUE, !.untouched = TRUE]
    BY <1>6 DEF ReadCopy, step
  <2>3. CASE Retry
    <3>1. WorkerOK' /\ worker'.pc = "idle" BY <1>1, <2>3, Ended
    <3> QED BY <1>3, <3>1, TypePartsNext DEF Found, Mismatch, OwnFound
  <2>4. CASE /\ step # "error" /\ queued' = queued
             /\ worker' = [worker EXCEPT !.pc = step, !.same = TRUE, !.untouched = TRUE]
    <3>1. worker.src.present BY <1>1, <1>6 DEF ReadCopy, At, WorkerOK
    <3>2. worker' \in Workers /\ worker'.pc = step /\ worker'.src = worker.src
      BY <1>1, <2>1, <2>4 DEF WorkerOK, Workers
    <3>3. WorkerOK' BY <1>1, <2>4, <3>1, <3>2 DEF WorkerOK
    <3>4. Found' BY <1>2, <2>1, <3>2 DEF Found, Mismatch, OwnFound
    <3> QED BY <1>3, <3>3, <3>4, TypePartsNext
  <2> QED BY <2>2, <2>3, <2>4
<1> QED BY <1>4, <1>5, <1>6

(* A step of the pass after it has read: it ends, or goes on from a delete to  *)
(* a create; what it writes is the copy it wants, or nothing.                  *)
LEMMA WritingStep ==
  ASSUME TypeOK, Found, DeleteCopy \/ CreateCopy \/ CreateOrUpdateCopy
  PROVE  TypeOK' /\ Found'
<1>1. SourceOK /\ CopyOK /\ WorkerOK /\ UsedOK BY TypeParts
<1>2. worker.src.present /\ worker.src \in Sources
  BY <1>1 DEF DeleteCopy, CreateCopy, CreateOrUpdateCopy, At, WorkerOK, Workers
<1>3. Wanted(worker.src) \in Copies BY <1>2, WantedOK
<1>4. SourceOK' BY <1>1 DEF DeleteCopy, CreateCopy, CreateOrUpdateCopy, SourceOK
<1>5. UNCHANGED copySeen BY DEF DeleteCopy, CreateCopy, CreateOrUpdateCopy
<1>6. \/ UNCHANGED <<copy, behind>>
      \/ WriteCopy(Absent)
      \/ WriteCopy(Wanted(worker.src))
  BY DEF DeleteCopy, CreateCopy, CreateOrUpdateCopy, CreateAnew, UpdateCopy, Updated, Refused
<1>7. CopyOK'
  <2>1. CASE UNCHANGED <<copy, behind>> BY <1>1, <1>5, <2>1 DEF CopyOK
  <2> QED BY <1>1, <1>3, <1>5, <1>6, <2>1, AbsentOK, Written
<1>8. UNCHANGED used \/ Spend("faults", MaxFaults)
  BY DEF DeleteCopy, CreateCopy, CreateOrUpdateCopy, CreateAnew, UpdateCopy, Updated, Refused, AnswerLost
<1>9. UsedOK' BY <1>1, <1>8, SpendOK DEF Bounds, UsedOK
<1>10. Finish \/ Retry \/ Goto("create")
  BY DEF DeleteCopy, CreateCopy, CreateOrUpdateCopy, CreateAnew, UpdateCopy, Updated, Refused, AnswerLost
<1>11. WorkerOK' /\ worker'.pc \in {"idle", "create"} BY <1>1, <1>2, <1>10, Ended, Gone
<1> QED BY <1>4, <1>7, <1>9, <1>11, TypePartsNext DEF Found, Mismatch, OwnFound

LEMMA FailingStep ==
  ASSUME TypeOK, Found, ApiError \/ Restart
  PROVE  TypeOK' /\ Found'
<1>1. SourceOK /\ CopyOK /\ WorkerOK /\ UsedOK BY TypeParts
<1>2. SourceOK' /\ CopyOK' BY <1>1 DEF ApiError, Restart, SourceOK, CopyOK
<1>3. UsedOK' BY <1>1, SpendOK DEF ApiError, Restart, Bounds
<1>4. Retry BY DEF ApiError, Restart, Retry
<1>5. WorkerOK' /\ worker'.pc = "idle" BY <1>1, <1>4, Ended
<1> QED BY <1>2, <1>3, <1>5, TypePartsNext DEF Found, Mismatch, OwnFound

-----------------------------------------------------------------------------
(* Theorems *)

LEMMA InitOK == Init => TypeOK /\ Found
<1> SUFFICES ASSUME Init PROVE TypeOK /\ Found OBVIOUS
<1>1. SourceOK BY DEF Init, SourceOK
<1>2. CopyOK BY AbsentOK DEF Init, CopyOK
<1>3. WorkerOK BY IdleOK DEF Init, WorkerOK
<1>4. UsedOK BY DEF Init, UsedOK, Bounds
<1>5. Found BY IdleOK DEF Init, Found, Mismatch, OwnFound
<1> QED BY <1>1, <1>2, <1>3, <1>4, <1>5, TypeParts

LEMMA StepOK == TypeOK /\ Found /\ [Next]_vars => TypeOK' /\ Found'
<1> SUFFICES ASSUME TypeOK, Found, [Next]_vars PROVE TypeOK' /\ Found' OBVIOUS
<1>1. CASE UNCHANGED vars
  <2>1. SourceOK /\ CopyOK /\ WorkerOK /\ UsedOK BY TypeParts
  <2>2. SourceOK' /\ CopyOK' /\ WorkerOK' /\ UsedOK' /\ Found'
    BY <1>1, <2>1 DEF vars, SourceOK, CopyOK, WorkerOK, UsedOK, Found, Mismatch, OwnFound
  <2> QED BY <2>2, TypePartsNext
<1> QED
  BY <1>1, PeopleStep, EventStep, ReadingStep, WritingStep, FailingStep DEF Next, Calls

(* The variables have their types, and a pass that has read the source knows   *)
(* what it is to write (reconcileSecrets).                                     *)
THEOREM TypeCorrect == Spec => []TypeOK
<1>1. Init => TypeOK /\ Found BY InitOK
<1>2. TypeOK /\ Found /\ [Next]_vars => TypeOK' /\ Found' BY StepOK
<1> QED BY <1>1, <1>2, PTL DEF Spec

(* A Secret is deleted only because its type is not the one wanted, whatever   *)
(* was put there since the pass has read it (replaceOnTypeChange).             *)
THEOREM MismatchCorrect == Spec => DeletesOnlyMismatch
<1>1. Init => TypeOK /\ Found BY InitOK
<1>2. TypeOK /\ Found /\ [Next]_vars => TypeOK' /\ Found' BY StepOK
<1>3. TypeOK /\ Found => (DeleteCopy /\ copy' # copy => copy.type # worker.src.type)
  <2> SUFFICES ASSUME TypeOK, Found, DeleteCopy, copy' # copy
               PROVE  copy.type # worker.src.type
    OBVIOUS
  <2>1. worker.pc = "delete" BY DEF DeleteCopy, At
  <2>2. copy.present /\ worker.same BY DEF DeleteCopy, Refused, Precondition
  <2> QED BY <2>1, <2>2 DEF Found, Mismatch
<1> QED BY <1>1, <1>2, <1>3, PTL DEF Spec, DeletesOnlyMismatch

(* A Secret that is not the operator's and that was there when the pass looked *)
(* is left as it is (replaceOnTypeChange, CreateOrUpdate).                     *)
THEOREM ForeignCorrect == Spec => ForeignUntouched
<1>1. Init => TypeOK /\ Found BY InitOK
<1>2. TypeOK /\ Found /\ [Next]_vars => TypeOK' /\ Found' BY StepOK
<1>3. TypeOK /\ Found =>
        (DeleteCopy \/ CreateCopy \/ CreateOrUpdateCopy =>
           (copy.present /\ ~copy.ours /\ worker.untouched => UNCHANGED copy))
  <2> SUFFICES ASSUME TypeOK, Found, DeleteCopy \/ CreateCopy \/ CreateOrUpdateCopy,
                      copy.present, ~copy.ours, worker.untouched
               PROVE  UNCHANGED copy
    OBVIOUS
  <2>1. CreateCopy BY DEF DeleteCopy, CreateOrUpdateCopy, At, Found, OwnFound
  <2> QED BY <2>1 DEF CreateCopy, CreateAnew, Refused
<1> QED BY <1>1, <1>2, <1>3, PTL DEF Spec, ForeignUntouched
=============================================================================
