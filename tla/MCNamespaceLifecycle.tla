------------------------- MODULE MCNamespaceLifecycle -------------------------
(* Small instances of NamespaceLifecycle: two environments of one name in two *)
(* namespaces get the same default target.                                    *)
EXTENDS NamespaceLifecycle, TLC

CONSTANTS e1, e2, n1, n2, t1, t2

BothEnvs == {e1, e2}
OneEnv == {e1}
BothNames == {n1, n2}
OneName == {n1}
OtherName == {n2}
NoNames == {}
NoTeams == {}
BothTeams == {t1, t2}
EnvSymmetry == Permutations(Envs)
SameDefault == [e \in Envs |-> n1]
===============================================================================
