-------------------------- MODULE MCEnvironmentStatus --------------------------
(* Small instances of EnvironmentStatus. *)
EXTENDS EnvironmentStatus, TLC

CONSTANTS s1, s2

BothServices == {s1, s2}
OneService == {s1}
OneReplica == [s \in Services |-> 1]
TwoReplicas == [s \in Services |-> 2]
MixedReplicas == [s \in Services |-> IF s = s1 THEN 2 ELSE 0]
ServiceSymmetry == Permutations(Services)
===============================================================================
