------------------------- MODULE MCReleaseVersions -------------------------
(* A new repository, one of the earlier scheme, one with tags that are no     *)
(* versions, and one with a number that is octal to a shell.                  *)
EXTENDS ReleaseVersions

OldTag(rel, maj, min, places, padded) ==
  [version |-> [rel |-> rel, maj |-> maj, min |-> min], places |-> places,
   padded |-> padded, by |-> "history", commit |-> 0]

MCHistories ==
  {{}, {OldTag(0, 2, 0, "two", FALSE), OldTag(0, 10, 0, "two", TRUE)},
   {OldTag(0, 0, 0, "other", FALSE)}, {OldTag(0, 9, 0, "two", FALSE), OldTag(1, 0, 10, "three", TRUE)}}
=============================================================================
