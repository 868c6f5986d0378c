------------------------ MODULE MCEnvironmentObjects ------------------------
(* Two specs.  From one to the other service b comes or goes, and so do the    *)
(* config, the storage, the pull secrets and the registry of the environment;  *)
(* service a changes its image, registry, port, Secret and probe.  Of the      *)
(* three images only a's first one, with an uppercase segment, names a host.   *)
EXTENDS EnvironmentObjects, TLC

CONSTANTS a, b, x, y, v, w

Segment(chars) == [localhost |-> FALSE, chars |-> chars]

Web == [image |-> [slash |-> TRUE, first |-> Segment({"upper"})], registry |-> Unset,
        port |-> v, secretRefs |-> {x}, imagePullSecrets |-> {},
        mountPath |-> TRUE, readinessProbe |-> "empty"]
Db == [image |-> [slash |-> FALSE, first |-> Segment({"colon"})],
       registry |-> Segment({"dot", "colon"}),
       port |-> v, secretRefs |-> {}, imagePullSecrets |-> {y},
       mountPath |-> FALSE, readinessProbe |-> Unset]

Full == [registry |-> Segment({"dot"}), imagePullSecrets |-> {}, config |-> v,
         storage |-> [size |-> v, fsGroup |-> v], services |-> a :> Web @@ b :> Db]
Half == [registry |-> Unset, imagePullSecrets |-> {x}, config |-> Unset, storage |-> Unset,
         services |-> a :> [Web EXCEPT !.image.first = Segment({}), !.registry = Segment({}),
                                       !.secretRefs = {}, !.port = w,
                                       !.readinessProbe = "explicit"] @@ b :> Unset]

MCSpecs == {Full, Half}
=============================================================================
