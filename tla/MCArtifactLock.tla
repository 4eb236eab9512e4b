-------------------------- MODULE MCArtifactLock --------------------------
(* Three compilers on one artifact.  A file is created only when the path  *)
(* names none and the creator has none open, so as many files as processes *)
(* are enough.                                                             *)
EXTENDS ArtifactLock
=============================================================================
