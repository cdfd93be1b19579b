----------------------------- MODULE MetadataReader -----------------------------
(***************************************************************************)
(* The metadata parser, Parse and ParseSummary of                          *)
(* backend/internal/checkpoint/metadata.go, over a file that is unknown:   *)
(* every field it reads may have any value, and the file may end, or the   *)
(* reading fail, at any field.  MetadataFormat says what each function     *)
(* reads; here a stack of symbols takes the place of the call stack.       *)
(***************************************************************************)
EXTENDS MetadataFormat

CONSTANTS
    ParseFull,    \* options.ParseFull
    Versions,     \* the format versions a file may name
    IntMax,       \* the largest int32 (any width will do)
    MaxCount,     \* bound: the items of a list
    MaxNesting    \* bound: changelog handles within changelog handles

ASSUME ModeAssumption     == ParseFull \in BOOLEAN
ASSUME VersionsAssumption == Versions \subseteq Int
ASSUME IntMaxAssumption   == IntMax \in Nat \ {0}
ASSUME CountAssumption    == MaxCount \in Nat /\ MaxNesting \in Nat

VARIABLES
    todo,        \* the symbols that are still to be read
    field,       \* the field that was read last: what it is and its value
    version,
    announced,   \* how many operators, and subtasks of the current one, are to come
    built,       \* how many of them were appended
    index,       \* the index of the subtask that was appended last
    properties,  \* the tokens found in the properties
    outcome      \* "reading", "error" or "parsed"

vars == <<todo, field, version, announced, built, index, properties, outcome>>

NoField == [reads |-> "nothing", value |-> 0]

Tokens == {"CheckpointType", "SharingFilesStrategy", "CheckpointProperties"}

-----------------------------------------------------------------------------
(* The file *)

Unsupported == 99   \* a type that the parser does not know

Counts == -1..MaxCount

\* What a field can say to the function that goes on with it.
Values(s) ==
    CASE s.then \in {"checkMagic", "readMasterState"} -> {0, 1}
      [] s.then = "readVersion"                      -> Versions
      [] s.then = "ReadUTF"                          -> {0, -1}
      [] s.then \in {"ReadBytes", "readPayload"}     -> {-1, 0, 1}
      [] s.then = "readSubtaskCount"                 -> {-2} \cup Counts
      [] s.then = "readSubtaskState"                 -> (-IntMax - 1)..IntMax
      [] s.then = "readOptionalOperatorStateHandle"  -> {0, 1, 2}
      [] s.then = "readOperatorStateHandle"          -> {0, 4, 17, Unsupported}
      [] s.then = "readStreamStateHandle"  -> {0, 1, 2, 6, 15, 16, Unsupported}
      [] s.then = "readChannelStateHandleV2"         -> 1..4 \cup {Unsupported}
      [] s.then = "readKeyedStateHandle" ->
            {0, 3, 5, 7, 9, 10, 11, 12, 13, Unsupported}
                \cup (IF s.arg < MaxNesting THEN {8, 14} ELSE {})
      [] s.then \in {"readMasterStates", "readOperatorStates", "readMapSize",
                     "readOffsets", "skipOffsets", "readHandleAndLocalPathList",
                     "readChangelogKeyedStateHandles", "readChanges",
                     "readStreamOffsets", "readChannelStates"} -> Counts
      [] OTHER                                       -> {0}

-----------------------------------------------------------------------------
(* The parser *)

\* What symbol s leads to, once its value v is read.
Rest(s, v) ==
    CASE s.then = "checkMagic"                 -> IF v = 0 THEN <<>> ELSE Fail
      [] s.then = "ReadBytes"                  -> ReadBytes(v)
      [] s.then = "ReadUTF"                    -> ReadUTF(v)
      [] s.then = "readPayload"                -> readPayload(v)
      [] s.then = "readMasterState"            -> readMasterState(v)
      [] s.then = "readMasterStates"           -> readMasterStates(v)
      [] s.then = "readOperatorStates"         -> readOperatorStates(v, s.full)
      [] s.then = "readOperatorState"          -> readOperatorState(version, s.full)
      [] s.then = "readSubtaskCount"           -> readSubtaskCount(v, s.full)
      [] s.then = "readSubtaskState"   -> readSubtaskState(version, v, s.full, IntMax)
      [] s.then = "readOptionalOperatorStateHandle" ->
            readOptionalOperatorStateHandle(v, s.full)
      [] s.then = "readOperatorStateHandle"    -> readOperatorStateHandle(v, s.full)
      [] s.then = "readMapSize"                -> readMapSize(v, s.full, s.arg)
      [] s.then = "readOperatorStateEntry"     -> readOperatorStateEntry
      [] s.then = "skipOperatorStateEntry"     -> skipOperatorStateEntry
      [] s.then = "readOffsets"                -> readOffsets(v)
      [] s.then = "skipOffsets"                -> skipOffsets(v)
      [] s.then = "readKeyedStateHandle"  -> readKeyedStateHandle(v, s.full, s.arg)
      [] s.then = "readHandleAndLocalPathList" ->
            Times(v, Call("readHandleAndLocalPath", TRUE, 0))
      [] s.then = "readHandleAndLocalPath"     -> readHandleAndLocalPath
      [] s.then = "readChangelogKeyedStateHandles" ->
            readChangelogKeyedStateHandles(v, s.arg)
      [] s.then = "readChanges"                -> readChanges(v, s.full)
      [] s.then = "readChange"                 -> readChange
      [] s.then = "skipChange"                 -> skipChange
      [] s.then = "readStreamOffsets"  -> Times(v, Call("readStreamOffset", TRUE, 0))
      [] s.then = "readStreamOffset"           -> readStreamOffset
      [] s.then = "readChannelStates" ->
            Times(v, Call("readChannelStateHandle", TRUE, 0))
      [] s.then = "readChannelStateHandle"     -> readChannelStateHandle(version)
      [] s.then = "readChannelStateHandleV2"   -> readChannelStateHandleV2(v)
      [] s.then = "readStreamStateHandle"      -> readStreamStateHandle(v)
      [] OTHER                                 -> <<>>

-----------------------------------------------------------------------------
Reading == outcome = "reading"

Top == Head(todo)

Nothing == [operators |-> 0, subtasks |-> 0]

Init ==
    /\ todo = Parse(ParseFull)
    /\ field = NoField
    /\ version = 0
    /\ announced = Nothing
    /\ built = Nothing
    /\ index = 0
    /\ properties = {}
    /\ outcome = "reading"

\* The value v of the field on top is read and the function on top goes on.
Consume(v) ==
    /\ Reading
    /\ Top.reads # "nothing"
    /\ v \in Values(Top)
    /\ field' = [reads |-> Top.reads, value |-> v]
    /\ todo' = Rest(Top, v) \o Tail(todo)
    /\ UNCHANGED <<index, properties, outcome>>

ReadVersion(v) ==
    /\ Top.then = "readVersion"
    /\ Consume(v)
    /\ version' = v
    /\ UNCHANGED <<announced, built>>

\* A negative count announces nothing: it is refused, or marks a finished operator.
Positive(n) == IF n < 0 THEN 0 ELSE n

ReadOperatorCount(n) ==
    /\ Top.then = "readOperatorStates"
    /\ Consume(n)
    /\ announced' = [announced EXCEPT !.operators = Positive(n)]
    /\ UNCHANGED <<version, built>>

ReadSubtaskCount(n) ==
    /\ Top.then = "readSubtaskCount"
    /\ Consume(n)
    /\ announced' = [announced EXCEPT !.subtasks = Positive(n)]
    /\ built' = [built EXCEPT !.subtasks = 0]
    /\ UNCHANGED version

ReadOther(v) ==
    /\ Top.then \notin {"readVersion", "readOperatorStates", "readSubtaskCount"}
    /\ Consume(v)
    /\ UNCHANGED <<version, announced, built>>

Return(result) ==
    /\ outcome' = result
    /\ todo' = <<>>
    /\ UNCHANGED <<field, version, announced, built, index>>

\* The file ends, or the reading fails, at the field on top or at the rest.
ReadFails ==
    /\ Reading
    /\ Top.reads # "nothing" \/ Top.then = "readProperties"
    /\ Return("error")
    /\ UNCHANGED properties

\* A value was refused: every function on the stack returns the error.
Refuse ==
    /\ Reading
    /\ Top.then = "fail"
    /\ Return("error")
    /\ UNCHANGED properties

\* A function without a field of its own is called.
Enter ==
    /\ Reading
    /\ Top.reads = "nothing"
    /\ Top.then \notin {"appendOperator", "appendSubtask", "readProperties", "fail"}
    /\ todo' = Rest(Top, 0) \o Tail(todo)
    /\ UNCHANGED <<field, version, announced, built, index, properties, outcome>>

\* MUTANT: a finished subtask is passed over.
AppendUnfinishedSubtask ==
    /\ Reading
    /\ Top.then = "appendSubtask"
    /\ todo' = Tail(todo)
    /\ index' = Top.arg
    /\ built' = IF field.value < 0 THEN built ELSE [built EXCEPT !.subtasks = @ + 1]
    /\ UNCHANGED <<field, version, announced, properties, outcome>>

AppendSubtask ==
    /\ Reading
    /\ Top.then = "appendSubtask"
    /\ todo' = Tail(todo)
    /\ index' = Top.arg
    /\ built' = [built EXCEPT !.subtasks = @ + 1]
    /\ UNCHANGED <<field, version, announced, properties, outcome>>

AppendOperator ==
    /\ Reading
    /\ Top.then = "appendOperator"
    /\ todo' = Tail(todo)
    /\ built' = [built EXCEPT !.operators = @ + 1]
    /\ UNCHANGED <<field, version, announced, index, properties, outcome>>

\* What is found in the rest of the file, which has the marker of a Java stream
\* or not, and holds a set of tokens.
parseCheckpointProperties(java, tokens) == IF java THEN tokens ELSE {}

ReadProperties(java, tokens) ==
    /\ Reading
    /\ Top.then = "readProperties"
    /\ properties' = IF version >= 4 THEN parseCheckpointProperties(java, tokens) ELSE {}
    /\ Return("parsed")

-----------------------------------------------------------------------------
Step ==
    \/ \E v \in Values(Top) :
        \/ ReadVersion(v)
        \/ ReadOperatorCount(v)
        \/ ReadSubtaskCount(v)
        \/ ReadOther(v)
    \/ ReadFails
    \/ Refuse
    \/ Enter
    \/ AppendSubtask
    \/ AppendOperator
    \/ \E java \in BOOLEAN, tokens \in SUBSET Tokens : ReadProperties(java, tokens)

Next == Reading /\ Step

Spec == Init /\ [][Next]_vars
=============================================================================
