-------------------------------- MODULE MCStorage --------------------------------
(***************************************************************************)
(* HandlerStorageCheckpoints for TLC: two jobs with three checkpoints      *)
(* between them, and a savepoint.                                          *)
(***************************************************************************)
EXTENDS HandlerStorageCheckpoints

Object(b, j, n, f) == [base |-> b, job |-> j, name |-> n, file |-> f]

\* Job 1 has two checkpoints, one of which may be incomplete, job 2 has one,
\* and there is a savepoint directory.  A request may name either base for
\* either purpose, so that its name is also met among the checkpoints.
MCObjects ==
    {Object("checkpoints", 1, 1, "_metadata"), Object("checkpoints", 1, 2, "_metadata"),
     Object("checkpoints", 1, 2, "data"), Object("checkpoints", 2, 2, "_metadata"),
     Object("savepoints", 1, 3, "data")}

MCDashless == [id \in {"1-"} |-> 1]
=============================================================================
