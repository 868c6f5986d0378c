------------------------------ MODULE SecretCopy ------------------------------
(***************************************************************************)
(* How the controller keeps the copy of one referenced Secret in the       *)
(* environment's namespace: reconcileSecrets and replaceOnTypeChange, one  *)
(* step per call.  People write the source and may put Secrets of their    *)
(* own, or restore old ones, where the copy lives; nothing of this is      *)
(* watched.  Secret.type cannot be changed by an update.                   *)
(***************************************************************************)
EXTENDS Naturals

CONSTANTS
  Types,         \* types of Secrets
  DockerTypes,   \* the types isDockerAuthSecret accepts
  Data,          \* contents of Secrets
  IsPull,        \* TRUE: the Secret is named in imagePullSecrets
  MaxEdits,      \* bound: acts of people
  MaxFaults,     \* bound: API calls that fail without a reason of the model
  MaxCrashes     \* bound: restarts of the manager

ASSUME TypesAssumption == DockerTypes \subseteq Types /\ IsPull \in BOOLEAN
ASSUME BoundAssumption == {MaxEdits, MaxFaults, MaxCrashes} \subseteq Nat

Absent == [present |-> FALSE]
Sources == [present : {TRUE}, type : Types, data : Data] \cup {Absent}
Copies == [present : {TRUE}, type : Types, data : Data, ours : BOOLEAN] \cup {Absent}

VARIABLES
  source,      \* the Secret in the DevEnvironment's own namespace
  sourceSeen,  \* the manager's cache of it
  copy,        \* the Secret of its name in the environment's namespace
  copySeen,    \* the manager's cache of it
  behind,      \* that cache does not hold the last version of the copy
  queued,      \* the environment is in the work queue
  worker,      \* the pass
  used         \* how much of each bound is spent

vars == <<source, sourceSeen, copy, copySeen, behind, queued, worker, used>>

-----------------------------------------------------------------------------
(* same: the Secret in the environment's namespace is still the object, by  *)
(* UID, that the pass has read.  untouched: people have left alone what the *)
(* pass has found there, or its absence.                                    *)
Idle == [pc |-> "idle", src |-> Absent, same |-> FALSE, untouched |-> FALSE]
Workers == [pc : {"idle", "readSource", "readCopy", "delete", "create", "createOrUpdate"},
            src : Sources, same : BOOLEAN, untouched : BOOLEAN]

At(pc) == worker.pc = pc
Goto(pc) == worker' = [worker EXCEPT !.pc = pc] /\ queued' = queued
Finish == worker' = Idle /\ queued' = queued
Retry == worker' = Idle /\ queued' = TRUE

Spend(bound, max) == used[bound] < max /\ used' = [used EXCEPT ![bound] = @ + 1]
AnswerLost == Retry /\ Spend("faults", MaxFaults)

(* The variables have their types, and a pass that writes knows what. *)
TypeOK ==
  /\ source \in Sources /\ sourceSeen \in Sources
  /\ copy \in Copies /\ copySeen \in Copies
  /\ behind \in BOOLEAN /\ queued \in BOOLEAN /\ worker \in Workers
  /\ worker.pc \notin {"idle", "readSource"} => worker.src.present
  /\ ~behind => copySeen = copy
  /\ used \in [{"edits", "faults", "crashes"} -> Nat]

Init ==
  /\ source \in Sources /\ sourceSeen = source
  /\ copy \in {Absent} \cup {c \in Copies : c.present /\ ~c.ours}
  /\ copySeen = copy /\ behind = FALSE
  /\ queued = TRUE /\ worker = Idle
  /\ used = [b \in {"edits", "faults", "crashes"} |-> 0]

-----------------------------------------------------------------------------
(* People *)

EditSource ==
  /\ Spend("edits", MaxEdits)
  /\ source' \in Sources \ {source}
  /\ UNCHANGED <<sourceSeen, copy, copySeen, behind, queued, worker>>

(* Somebody deletes the Secret next to the services, puts another there, one *)
(* of their own or an old copy with its labels, or edits it in place.         *)
OutsiderWrites ==
  /\ Spend("edits", MaxEdits)
  /\ copy' \in Copies \ {copy}
  /\ behind' = TRUE
  /\ copy.present /\ copy'.present => copy'.type = copy.type
  /\ worker' = [worker EXCEPT !.same = @ /\ copy.present /\ copy'.present,
                               !.untouched = FALSE]
  /\ UNCHANGED <<source, sourceSeen, copySeen, queued>>

-----------------------------------------------------------------------------
(* The manager's caches; Secrets wake nobody *)

DeliverSource ==
  /\ sourceSeen # source
  /\ sourceSeen' = source
  /\ UNCHANGED <<source, copy, copySeen, behind, queued, worker, used>>

DeliverCopy ==
  /\ behind
  /\ copySeen' = copy /\ behind' = FALSE
  /\ UNCHANGED <<source, sourceSeen, copy, queued, worker, used>>

(* An event of the environment, its Deployments or its namespace, or the *)
(* periodic resync of the cache.                                         *)
Wake ==
  /\ ~queued
  /\ queued' = TRUE
  /\ UNCHANGED <<source, sourceSeen, copy, copySeen, behind, worker, used>>

-----------------------------------------------------------------------------
(* A pass *)

(* Labels, type and data of the copy the pass wants. *)
Wanted(src) == [present |-> TRUE, type |-> src.type, data |-> src.data, ours |-> TRUE]

owns(c) == c.present /\ c.ours

(* Mutation: that the source could not be read is overlooked. *)
AcceptedUnread(src) == src.present /\ IsPull => src.type \in DockerTypes
Accepted(src) == src.present /\ (IsPull => src.type \in DockerTypes)

Reconcile ==
  /\ At("idle") /\ queued
  /\ queued' = FALSE
  /\ worker' = [Idle EXCEPT !.pc = "readSource"]
  /\ UNCHANGED <<source, sourceSeen, copy, copySeen, behind, used>>

ReadSource ==
  /\ At("readSource")
  /\ \/ ~Accepted(sourceSeen) /\ Retry
     \/ /\ Accepted(sourceSeen)
        /\ worker' = [worker EXCEPT !.pc = "readCopy", !.src = sourceSeen]
        /\ queued' = queued
  /\ UNCHANGED <<source, sourceSeen, copy, copySeen, behind, used>>

(* Mutations: whose the Secret is matters only when its type is wrong; a copy *)
(* of another type is updated in place.                                       *)
CopyStepByType(src, existing) ==
  IF ~existing.present \/ existing.type = src.type THEN "createOrUpdate"
  ELSE IF owns(existing) THEN "delete" ELSE "error"
CopyStepInPlace(src, existing) ==
  IF existing.present /\ ~owns(existing) THEN "error" ELSE "createOrUpdate"

(* What replaceOnTypeChange makes of the Secret that is there. *)
CopyStep(src, existing) ==
  CASE ~existing.present -> "createOrUpdate"
    [] existing.present /\ ~owns(existing) -> "error"
    [] owns(existing) /\ existing.type = src.type -> "createOrUpdate"
    [] owns(existing) /\ existing.type # src.type -> "delete"

(* Read past the cache, from the API server. *)
ReadCopy ==
  /\ At("readCopy")
  /\ LET step == CopyStep(worker.src, copy)
     IN  \/ step = "error" /\ Retry
         \/ /\ step # "error"
            /\ worker' = [worker EXCEPT !.pc = step, !.same = TRUE, !.untouched = TRUE]
            /\ queued' = queued
  /\ UNCHANGED <<source, sourceSeen, copy, copySeen, behind, used>>

WriteCopy(c) == copy' = c /\ behind' = TRUE
Refused == Retry /\ UNCHANGED <<copy, behind, used>>

(* Mutation: the delete names the Secret and not the object. *)
NoPrecondition == TRUE
Precondition == worker.same

DeleteCopy ==
  /\ At("delete")
  /\ \/ copy.present /\ ~Precondition /\ Refused
     \/ ~copy.present /\ Goto("create") /\ UNCHANGED <<copy, behind, used>>
     \/ /\ copy.present /\ Precondition
        /\ WriteCopy(Absent)
        /\ (Goto("create") /\ UNCHANGED used) \/ AnswerLost
  /\ UNCHANGED <<source, sourceSeen, copySeen>>

CreateAnew ==
  \/ copy.present /\ Refused
  \/ /\ ~copy.present
     /\ WriteCopy(Wanted(worker.src))
     /\ (Finish /\ UNCHANGED used) \/ AnswerLost

CreateCopy ==
  /\ At("create")
  /\ CreateAnew
  /\ UNCHANGED <<source, sourceSeen, copySeen>>

(* Mutation: the data is set only where there was no copy.                   *)
UpdatedOldData(src) == [Wanted(src) EXCEPT !.data = copySeen.data]
Updated(src) == Wanted(src)

(* CreateOrUpdate reads through the cache.  An update is refused when the    *)
(* cache is behind, and when it would change the type.                       *)
UpdateCopy ==
  LET wanted == Updated(worker.src)
      possible == ~behind /\ copySeen.type = wanted.type
  IN  \/ copySeen = wanted /\ Finish /\ UNCHANGED <<copy, behind, used>>
      \/ copySeen # wanted /\ ~possible /\ Refused
      \/ /\ copySeen # wanted /\ possible
         /\ WriteCopy(wanted)
         /\ (Finish /\ UNCHANGED used) \/ AnswerLost

CreateOrUpdateCopy ==
  /\ At("createOrUpdate")
  /\ \/ ~copySeen.present /\ CreateAnew
     \/ copySeen.present /\ UpdateCopy
  /\ UNCHANGED <<source, sourceSeen, copySeen>>

ApiError ==
  /\ ~At("idle")
  /\ Spend("faults", MaxFaults)
  /\ Retry
  /\ UNCHANGED <<source, sourceSeen, copy, copySeen, behind>>

Restart ==
  /\ Spend("crashes", MaxCrashes)
  /\ worker' = Idle /\ queued' = TRUE
  /\ sourceSeen' = source /\ copySeen' = copy /\ behind' = FALSE
  /\ UNCHANGED <<source, copy>>

-----------------------------------------------------------------------------
(* The specification *)

Calls == ReadSource \/ ReadCopy \/ DeleteCopy \/ CreateCopy \/ CreateOrUpdateCopy

Next ==
  \/ EditSource \/ OutsiderWrites
  \/ DeliverSource \/ DeliverCopy \/ Wake
  \/ Reconcile \/ Calls \/ ApiError \/ Restart

Spec == Init /\ [][Next]_vars

(* Caches catch up, a pass goes on, the queue is served, and the periodic *)
(* resync, if nothing else, comes round again.                            *)
Fairness ==
  /\ WF_vars(DeliverSource) /\ WF_vars(DeliverCopy) /\ WF_vars(Wake)
  /\ WF_vars(Reconcile) /\ WF_vars(Calls)

FairSpec == Spec /\ Fairness

-----------------------------------------------------------------------------
(* Properties *)

(* Nothing keeps the copy from being made. *)
Possible ==
  /\ source.present
  /\ IsPull => source.type \in DockerTypes
  /\ copy.present => copy.ours

(* Whatever becomes of the source, its type included, the copy comes to agree *)
(* with it and stays so, unless somebody else's Secret is in the way          *)
(* (reconcileSecrets: without the replacement "the environment stays Failed   *)
(* forever").                                                                 *)
CopyConverges ==
  <>[](Possible => copy = [present |-> TRUE, type |-> source.type,
                           data |-> source.data, ours |-> TRUE])

(* The controller deletes a Secret only because its type is not the one it is  *)
(* about to create, whatever was put there since it looked (the UID            *)
(* precondition of replaceOnTypeChange).                                       *)
DeletesOnlyMismatch ==
  [][DeleteCopy /\ copy' # copy => copy.type # worker.src.type]_vars

(* A pass leaves a Secret that is not the operator's alone, whatever its type  *)
(* and whatever the cache shows, unless people have put it there or taken its  *)
(* labels away since the pass has looked (replaceOnTypeChange: it "has to be   *)
(* ours before we write to it at all").                                        *)
ForeignUntouched ==
  [][DeleteCopy \/ CreateCopy \/ CreateOrUpdateCopy =>
       (copy.present /\ ~copy.ours /\ worker.untouched => UNCHANGED copy)]_vars

===============================================================================
