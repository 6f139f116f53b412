--------------------------- MODULE MCArtifactStore ---------------------------
(* Instances of ArtifactStore for TLC.                                     *)
EXTENDS ArtifactStore

MCOneFile == {"data"}
MCTwoFiles == {"data", "labels"}
=============================================================================
