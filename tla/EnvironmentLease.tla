--------------------------- MODULE EnvironmentLease ---------------------------
(***************************************************************************)
(* What the operator promises about namespaces, without caches, passes or  *)
(* API calls.  A namespace the operator made is on lease to one            *)
(* DevEnvironment: a lease starts on a free name under a record that is    *)
(* bound by the finalizer, it is never handed from one environment to      *)
(* another, and a record is forgotten only when it is marked for deletion  *)
(* and every lease it still has is stray.  A lease goes stray because its  *)
(* record is pointed elsewhere, because it was started for a version of    *)
(* the record that pointed elsewhere, or because the closing record        *)
(* overlooks it in a cache; it stays so until it ends.                     *)
(***************************************************************************)
EXTENDS TLAPS

CONSTANTS Envs, Namespaces, Nobody, Outsider

VARIABLES
  record,   \* record[e]: "none", "open", "bound" (it has the finalizer), or
            \* "closing" (and it is marked for deletion)
  holder,   \* holder[n]: the environment a namespace is on lease to, Outsider
            \* when somebody else has it, Nobody when the name is free
  stray     \* the namespaces on a lease that no record accounts for any more

vars == <<record, holder, stray>>

TypeOK ==
  /\ record \in [Envs -> {"none", "open", "bound", "closing"}]
  /\ holder \in [Namespaces -> Envs \cup {Nobody, Outsider}]
  /\ stray \subseteq {n \in Namespaces : holder[n] \in Envs}

Init ==
  /\ record = [e \in Envs |-> "none"]
  /\ holder \in [Namespaces -> {Nobody, Outsider}]
  /\ stray = {}

Bound(e) == record[e] \in {"bound", "closing"}

(* Every lease of e, but those in Except, is stray. *)
OnlyStray(e, Except) == \A m \in Namespaces \ Except : holder[m] = e => m \in stray

-----------------------------------------------------------------------------
(* Records *)

Become(e, state) == record' = [record EXCEPT ![e] = state]

Open(e) == record[e] = "none" /\ Become(e, "open")
Drop(e) == record[e] = "open" /\ Become(e, "none")
Bind(e) == record[e] = "open" /\ Become(e, "bound")
Close(e) == record[e] = "bound" /\ Become(e, "closing")
Forget(e) == record[e] = "closing" /\ OnlyStray(e, {}) /\ Become(e, "none")

-----------------------------------------------------------------------------
(* Leases *)

(* A pass that began before the record was closed may still take the lease. *)
Acquire(e, n) ==
  /\ Bound(e) /\ holder[n] = Nobody /\ OnlyStray(e, {n})
  /\ holder' = [holder EXCEPT ![n] = e]
  /\ stray' = stray

AcquireForOldTarget(e, n) ==
  /\ Bound(e) /\ holder[n] = Nobody
  /\ holder' = [holder EXCEPT ![n] = e]
  /\ stray' = stray \cup {n}

GoStray(e, n) ==
  /\ Bound(e) /\ holder[n] = e
  /\ stray' = stray \cup {n}
  /\ holder' = holder

(* A lease ends with its namespace, or somebody strips the labels off it. *)
End(n, to) ==
  /\ holder[n] # Nobody /\ to # holder[n]
  /\ holder' = [holder EXCEPT ![n] = to]
  /\ stray' = stray \ {n}

OutsiderTakes(n) ==
  /\ holder[n] = Nobody
  /\ holder' = [holder EXCEPT ![n] = Outsider]
  /\ stray' = stray

RecordMoves ==
  /\ record' # record /\ UNCHANGED <<holder, stray>>
  /\ \E e \in Envs : Open(e) \/ Drop(e) \/ Bind(e) \/ Close(e) \/ Forget(e)

LeaseMoves ==
  /\ record' = record /\ <<holder, stray>>' # <<holder, stray>>
  /\ \/ \E e \in Envs, n \in Namespaces :
          Acquire(e, n) \/ AcquireForOldTarget(e, n) \/ GoStray(e, n)
     \/ \E n \in Namespaces : OutsiderTakes(n) \/ \E to \in {Nobody, Outsider} : End(n, to)

Next == RecordMoves \/ LeaseMoves

Spec == Init /\ [][Next]_vars

(* Every lease that has not gone astray has a record that the finalizer keeps *)
(* (docs/devenvironment.md, Deletion).                                        *)
LeaseRecorded ==
  \A n \in Namespaces : holder[n] \in Envs /\ n \notin stray => Bound(holder[n])

(* Of these an environment has at most one, its target. *)
OneLease ==
  \A m, n \in Namespaces \ stray : holder[m] \in Envs /\ holder[m] = holder[n] => m = n

-----------------------------------------------------------------------------
(* The promise, step by step, is enough: leases are recorded and single. *)
THEOREM LeaseSafe ==
  ASSUME Nobody \notin Envs, Outsider \notin Envs
  PROVE  Spec => [](TypeOK /\ LeaseRecorded /\ OneLease)
<1> DEFINE Inv == TypeOK /\ LeaseRecorded /\ OneLease
<1>1. Init => Inv
  BY DEF Init, TypeOK, LeaseRecorded, OneLease
<1>2. Inv /\ [Next]_vars => Inv'
  <2> SUFFICES ASSUME Inv, [Next]_vars PROVE Inv'
    OBVIOUS
  <2>1. CASE UNCHANGED vars
    BY <2>1 DEF vars, TypeOK, LeaseRecorded, OneLease, Bound
  <2>2. CASE RecordMoves
    <3>1. PICK e \in Envs : Open(e) \/ Drop(e) \/ Bind(e) \/ Close(e) \/ Forget(e)
      BY <2>2 DEF RecordMoves
    <3>2. UNCHANGED <<holder, stray>>
      BY <2>2 DEF RecordMoves
    <3> QED
      BY <3>1, <3>2 DEF Open, Drop, Bind, Close, Forget, Become, OnlyStray, Bound,
                        TypeOK, LeaseRecorded, OneLease
  <2>3. CASE LeaseMoves
    <3>1. record' = record
      BY <2>3 DEF LeaseMoves
    <3>2. ASSUME NEW e \in Envs, NEW n \in Namespaces, Acquire(e, n) PROVE Inv'
      BY <3>1, <3>2 DEF Acquire, OnlyStray, Bound, TypeOK, LeaseRecorded, OneLease
    <3>3. ASSUME NEW e \in Envs, NEW n \in Namespaces, AcquireForOldTarget(e, n) PROVE Inv'
      BY <3>1, <3>3 DEF AcquireForOldTarget, Bound, TypeOK, LeaseRecorded, OneLease
    <3>4. ASSUME NEW e \in Envs, NEW n \in Namespaces, GoStray(e, n) PROVE Inv'
      BY <3>1, <3>4 DEF GoStray, Bound, TypeOK, LeaseRecorded, OneLease
    <3>5. ASSUME NEW n \in Namespaces, NEW to \in {Nobody, Outsider},
                 OutsiderTakes(n) \/ End(n, to)
          PROVE  Inv'
      BY <3>1, <3>5 DEF OutsiderTakes, End, Bound, TypeOK, LeaseRecorded, OneLease
    <3> QED
      BY <2>3, <3>2, <3>3, <3>4, <3>5 DEF LeaseMoves
  <2> QED
    BY <2>1, <2>2, <2>3 DEF Next
<1> QED
  BY <1>1, <1>2, PTL DEF Spec
===============================================================================
