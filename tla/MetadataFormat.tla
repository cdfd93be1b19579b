----------------------------- MODULE MetadataFormat -----------------------------
(***************************************************************************)
(* What the metadata parser of backend/internal/checkpoint reads, in which *)
(* order.  A symbol is something the parser has still to do: a field it    *)
(* reads, with the function that goes on with the value, or a call of a    *)
(* function that reads no field of its own before the next call.  The      *)
(* operator of a function gives the symbols it adds for a value.           *)
(*                                                                         *)
(* A value is a number: a type, marker, count or length; for a string 0,   *)
(* or -1 if it cannot be decoded.  The values of fields that are only      *)
(* stored are left out.                                                    *)
(***************************************************************************)
EXTENDS Integers, Sequences

\* full: the function was called with parseFull; arg: its further argument
Symbol(reads, then, full, arg) ==
    [reads |-> reads, then |-> then, full |-> full, arg |-> arg]

Read(reads, then)     == Symbol(reads, then, TRUE, 0)
Call(then, full, arg) == Symbol("nothing", then, full, arg)

Int32 == Read("int32", "keep")
Int64 == Read("int64", "keep")
Byte  == Read("byte", "keep")
Bool  == Read("byte", "keep")
UTF   == Read("utf", "ReadUTF")
Bytes == Read("int32", "ReadBytes")
Fail  == <<Read("nothing", "fail")>>

StreamStateHandle          == Read("byte", "readStreamStateHandle")
KeyedStateHandle(full, d)  == Symbol("byte", "readKeyedStateHandle", full, d)

\* A loop over a count that was read before.
Times(n, symbol) == IF n < 0 THEN Fail ELSE [i \in 1..n |-> symbol]

Optional(present, symbols) == IF present THEN symbols ELSE <<>>

-----------------------------------------------------------------------------
(* reader.go *)

ReadBytes(n) == IF n < 0 THEN Fail ELSE Optional(n > 0, <<Byte>>)

ReadUTF(s) == IF s < 0 THEN Fail ELSE <<>>

-----------------------------------------------------------------------------
(* stream_handle.go *)

readByteStreamHandle     == <<UTF, Bytes>>
readFileStreamHandle     == <<Int64, UTF>>
readRelativeStreamHandle == <<UTF, Int64>>
readSegmentStreamHandle  == <<Int64, Int64, Int32, UTF, UTF>>

readStreamStateHandle(kind) ==
    CASE kind \in {0, 16} -> <<>>
      [] kind = 1         -> readByteStreamHandle
      [] kind = 2         -> readFileStreamHandle
      [] kind = 6         -> readRelativeStreamHandle
      [] kind = 15        -> readSegmentStreamHandle
      [] OTHER            -> Fail

-----------------------------------------------------------------------------
(* operator_state.go: read by populate... and passed over by skip... *)

readOptionalOperatorStateHandle(marker, full) ==
    CASE marker = 0 -> <<>>
      [] marker = 1 -> <<Symbol("byte", "readOperatorStateHandle", full, 0)>>
      [] OTHER      -> Fail

readOperatorStateHandle(kind, full) ==
    CASE kind = 0        -> <<>>
      [] kind \in {4, 17} -> <<Symbol("int32", "readMapSize", full, kind)>>
      [] OTHER           -> Fail

skipOffsets(n) == Times(n, Int64)
readOffsets(n) == Times(n, Int64)

skipOperatorStateEntry == <<UTF, Byte, Read("int32", "skipOffsets")>>
readOperatorStateEntry == <<UTF, Byte, Read("int32", "readOffsets")>>

\* MUTANT: the flag of a file merging handle is not skipped.
skipFileMergingDataShort == <<UTF, UTF>>

skipFileMergingData == <<UTF, UTF, Bool>>
readFileMergingData == <<UTF, UTF, Bool>>

skipStreamHandle        == <<StreamStateHandle>>
readDelegateStateHandle == <<StreamStateHandle>>

skipOperatorStateHandle(n, kind) ==
    Times(n, Call("skipOperatorStateEntry", TRUE, 0))
        \o Optional(kind = 17, skipFileMergingData)
        \o skipStreamHandle

populateOperatorStateHandle(n, kind) ==
    Times(n, Call("readOperatorStateEntry", TRUE, 0))
        \o Optional(kind = 17, readFileMergingData)
        \o readDelegateStateHandle

readMapSize(n, full, kind) ==
    CASE n < 0            -> Fail
      [] n >= 0 /\ full   -> populateOperatorStateHandle(n, kind)
      [] n >= 0 /\ ~full  -> skipOperatorStateHandle(n, kind)

-----------------------------------------------------------------------------
(* keyed_state.go; d counts the changelog handles around a handle *)

readKeyGroupsHandle(kind) ==
    <<Int32, Read("int32", "readOffsets"), StreamStateHandle>>
        \o Optional(kind = 12, <<UTF>>)

readHandleAndLocalPath == <<UTF, StreamStateHandle>>

readHandleAndLocalPathList == Read("int32", "readHandleAndLocalPathList")

readIncrementalKeyGroupsHandle(kind) ==
    <<Int64, UTF, Int32, Int32>>
        \o Optional(kind = 11, <<Int64>>)
        \o <<StreamStateHandle, readHandleAndLocalPathList, readHandleAndLocalPathList>>
        \o Optional(kind = 11, <<UTF>>)

readChangelogHeader == <<Int32, Int32, Int64>>

readChangelogKeyedStateHandles(n, d) == Times(n, KeyedStateHandle(TRUE, d))

readChangelogStateHandle(kind, d) ==
    readChangelogHeader
        \o <<Symbol("int32", "readChangelogKeyedStateHandles", TRUE, d + 1),
             Symbol("int32", "readChangelogKeyedStateHandles", TRUE, d + 1),
             Int64>>
        \o Optional(kind = 14, <<Int64>>)
        \o <<UTF>>

\* The summary reads the data of a change as well, and drops it.
skipChange == <<Int32, Bytes>>
readChange == <<Int32, Bytes>>

readChanges(n, full) ==
    Times(n, Call(IF full THEN "readChange" ELSE "skipChange", TRUE, 0))

readChangelogByteIncrementHandle(full) ==
    <<Int32, Int32, Int64, Int64, Symbol("int32", "readChanges", full, 0), UTF>>

readStreamOffset == <<Int64, StreamStateHandle>>

readChangelogFileIncrementHandle(kind) ==
    <<Int32, Int32, Read("int32", "readStreamOffsets"), Int64, Int64, UTF>>
        \o Optional(kind = 13, <<UTF>>)

readKeyedStateHandle(kind, full, d) ==
    CASE kind = 0           -> <<>>
      [] kind \in {3, 7, 12} -> readKeyGroupsHandle(kind)
      [] kind \in {5, 11}    -> readIncrementalKeyGroupsHandle(kind)
      [] kind \in {8, 14}    -> readChangelogStateHandle(kind, d)
      [] kind = 9           -> readChangelogByteIncrementHandle(full)
      [] kind \in {10, 13}   -> readChangelogFileIncrementHandle(kind)
      [] OTHER              -> Fail

-----------------------------------------------------------------------------
(* channel_state.go *)

readUnmergedChannelStateHandle ==
    <<Int32, Int32, Int32, Read("int32", "readOffsets"), Int64, StreamStateHandle>>

readMergedChannelStateHandle == <<Int32, Int64, StreamStateHandle, Bytes>>

readChannelStateHandleV1 == readUnmergedChannelStateHandle

readChannelStateHandleV2(kind) ==
    CASE kind \in {1, 2} -> readUnmergedChannelStateHandle
      [] kind \in {3, 4} -> readMergedChannelStateHandle
      [] OTHER           -> Fail

readChannelStateHandle(version) ==
    IF version >= 6 THEN <<Read("byte", "readChannelStateHandleV2")>>
    ELSE readChannelStateHandleV1

readChannelStateHandles(version) ==
    Optional(version >= 3, <<Read("int32", "readChannelStates")>>)

-----------------------------------------------------------------------------
(* metadata.go *)

\* The fields of a payload are read by a reader of their own, which ends with
\* the payload.
readPayload(n) == IF n <= 0 THEN Fail ELSE <<Int32, UTF, Bytes>>

readMasterState(magic) ==
    IF magic = 0 THEN <<Read("int32", "readPayload")>> ELSE Fail

readMasterStates(n) == Times(n, Read("int32", "readMasterState"))

readOperatorStates(n, full) == Times(n, Call("readOperatorState", full, 0))

readOperatorState(version, full) ==
    Optional(version >= 5, <<UTF, UTF>>)
        \o <<Int64, Int64, Int32, Int32>>
        \o Optional(version >= 3, <<StreamStateHandle>>)
        \o <<Symbol("int32", "readSubtaskCount", full, 0),
             Call("appendOperator", TRUE, 0)>>

\* A count of -1 marks a finished operator.
readSubtaskCount(n, full) ==
    IF n = -1 THEN <<>> ELSE Times(n, Symbol("int32", "readSubtaskState", full, 0))

\* int32 arithmetic, for integers between -IntMax - 1 and IntMax
Wrap(i, IntMax) == ((i + IntMax + 1) % (2 * IntMax + 2)) - IntMax - 1

\* MUTANT: the sign is turned and the offset forgotten.
FinishedIndexNegated(index, IntMax) == Wrap(-index, IntMax)

\* The index of a finished subtask, in two steps of int32 arithmetic.
FinishedIndex(index, IntMax) == Wrap(-Wrap(index + 1, IntMax), IntMax)

\* A negative index marks a finished subtask, of which nothing more is stored.
readSubtaskState(version, index, full, IntMax) ==
    IF index < 0 THEN <<Call("appendSubtask", TRUE, FinishedIndex(index, IntMax))>>
    ELSE <<Symbol("int32", "readOptionalOperatorStateHandle", full, 0),
           Symbol("int32", "readOptionalOperatorStateHandle", full, 0),
           KeyedStateHandle(full, 0),
           KeyedStateHandle(full, 0)>>
             \o readChannelStateHandles(version)
             \o readChannelStateHandles(version)
             \o <<Call("appendSubtask", TRUE, index)>>

\* MUTANT: the properties are forgotten.
ParseWithoutProperties(full) ==
    <<Read("int32", "checkMagic"),
      Read("int32", "readVersion"),
      Int64,
      Read("int32", "readMasterStates"),
      Symbol("int32", "readOperatorStates", full, 0)>>

\* The file as a whole.
Parse(full) ==
    <<Read("int32", "checkMagic"),
      Read("int32", "readVersion"),
      Int64,
      Read("int32", "readMasterStates"),
      Symbol("int32", "readOperatorStates", full, 0),
      Call("readProperties", TRUE, 0)>>
=============================================================================
