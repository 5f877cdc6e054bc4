--------------------------- MODULE MCDataLakeUpload ---------------------------
(* Instances of DataLakeUpload for TLC.                                      *)
EXTENDS DataLakeUpload, TLC

\* The empty path, and one path that begins with another.
MCPaths == {<<>>, <<1>>, <<1, 2>>}

ObjectSymmetry == Permutations(Objects)

=============================================================================
