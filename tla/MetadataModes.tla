------------------------------ MODULE MetadataModes ------------------------------
(***************************************************************************)
(* The two modes of the metadata parser.  ParseSummary passes over data    *)
(* that Parse keeps, with functions of its own; it must pass over exactly  *)
(* what Parse would read, or everything after it is misread.               *)
(***************************************************************************)
EXTENDS MetadataReader, FiniteSets

\* The function that reads what another one skips.
ReadsFor(name) ==
    CASE name = "skipOperatorStateEntry" -> "readOperatorStateEntry"
      [] name = "skipOffsets"            -> "readOffsets"
      [] name = "skipChange"             -> "readChange"
      [] OTHER                           -> name

Unskip(s) == Symbol(s.reads, ReadsFor(s.then), TRUE, s.arg)

Unskipped(symbols) == [i \in DOMAIN symbols |-> Unskip(symbols[i])]

\* What full parsing does with the same file.
Full == INSTANCE MetadataReader WITH ParseFull <- TRUE, todo <- Unskipped(todo)

\* The summary parser reads the fields that the full parser reads, in the same
\* order, and comes to the same operators, subtasks, properties and outcome.
ReadsTheSameFile == Full!Spec

-----------------------------------------------------------------------------
Pending(names) == Cardinality({i \in DOMAIN todo : todo[i].then \in names})

TypeOK ==
    /\ version \in Versions \cup {0}
    /\ index \in Int
    /\ properties \subseteq Tokens
    /\ outcome \in {"reading", "error", "parsed"}
    /\ outcome = "reading" <=> todo # <<>>

\* Every operator and subtask that the file announces is built or still to be
\* read, at every point of the file and through every kind of early return of
\* the functions in between: nothing is read for another one's field.
NothingUncounted ==
    outcome # "error" =>
        /\ built.operators + Pending({"readOperatorState", "appendOperator"})
              = announced.operators
        /\ built.subtasks + Pending({"readSubtaskState", "appendSubtask"})
              = announced.subtasks

\* A subtask has an index that an array can have, also where a finished one is
\* stored as the complement of its index, down to the smallest int32.
IndexIsNatural == index \in 0..IntMax
=============================================================================
