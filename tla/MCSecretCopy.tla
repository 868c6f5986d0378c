----------------------------- MODULE MCSecretCopy -----------------------------
(* Small instances of SecretCopy. *)
EXTENDS SecretCopy

CONSTANTS dockerconfigjson, dockercfg, opaque, d1, d2

ThreeTypes == {dockerconfigjson, dockercfg, opaque}
BothAuthTypes == {dockerconfigjson, dockercfg}
BothData == {d1, d2}
===============================================================================
