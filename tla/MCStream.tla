-------------------------------- MODULE MCStream --------------------------------
(***************************************************************************)
(* DeploymentStream for TLC: a deployment in two versions and the one that  *)
(* replaces it under the same name.                                        *)
(***************************************************************************)
EXTENDS DeploymentStream

Version(u, r) == [key |-> "name", uid |-> u, rv |-> r]

MCEvents ==
    [type : {"ADDED", "DELETED"}, dep : {Version(1, 1), Version(1, 2), Version(3, 3)}]
=============================================================================
