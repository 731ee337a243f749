------------------------------ MODULE MCArtifacts ------------------------------
(***************************************************************************)
(* Releases for model-checking Artifacts: two trains, the second of which  *)
(* republishes the version of the first with other bytes, and two          *)
(* installers, one of them newer than either train.                        *)
(***************************************************************************)
EXTENDS Artifacts

Release(train, version, sha) == [train |-> train, version |-> version, sha |-> sha]

TwoTrains  == {Release(1, 2, "b"), Release(2, 2, "c")}
TwoSeeds   == {Release(0, 1, "a"), Release(0, 3, "d")}
==============================================================================
