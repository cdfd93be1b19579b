------------------------- MODULE MetadataModes_proofs -------------------------
(***************************************************************************)
(* The two modes of the metadata parser, for files of any version and any  *)
(* counts.  The argument: what a function adds to the stack when it skips  *)
(* is, symbol by symbol, what it adds when it reads.                       *)
(***************************************************************************)
EXTENDS MetadataModes, SequenceTheorems, FunctionTheorems, FiniteSetTheorems,
        TLAPS

-----------------------------------------------------------------------------
(* The parser of the instance is the same one *)

LEMMA SameSymbols ==
    /\ \A reads, then, full, arg :
        Full!Symbol(reads, then, full, arg) = Symbol(reads, then, full, arg)
    /\ \A reads, then : Full!Read(reads, then) = Read(reads, then)
    /\ \A then, full, arg : Full!Call(then, full, arg) = Call(then, full, arg)
    /\ \A full, d : Full!KeyedStateHandle(full, d) = KeyedStateHandle(full, d)
    /\ \A n, s : Full!Times(n, s) = Times(n, s)
    /\ \A p, q : Full!Optional(p, q) = Optional(p, q)
    /\ Full!Fail = Fail
    /\ \A s : Full!Values(s) = Values(s)
  BY DEF Full!Symbol, Symbol, Full!Read, Read, Full!Call, Call, Full!KeyedStateHandle,
         KeyedStateHandle, Full!Times, Times, Full!Optional, Optional, Full!Fail, Fail,
         Full!Values, Values, Full!Counts, Counts, Full!Unsupported, Unsupported

LEMMA SameRest == ASSUME NEW s, NEW v PROVE Full!Rest(s, v) = Rest(s, v)
  BY DEF Full!Rest, Rest,
    Symbol, Full!Symbol, Read, Full!Read, Call, Full!Call, Int32, Full!Int32, Int64,
    Full!Int64, Byte, Full!Byte, Bool, Full!Bool, UTF, Full!UTF, Bytes, Full!Bytes,
    Fail, Full!Fail, StreamStateHandle, Full!StreamStateHandle, KeyedStateHandle,
    Full!KeyedStateHandle, Times, Full!Times, Optional, Full!Optional, ReadBytes,
    Full!ReadBytes, ReadUTF, Full!ReadUTF, readByteStreamHandle,
    Full!readByteStreamHandle, readFileStreamHandle, Full!readFileStreamHandle,
    readRelativeStreamHandle, Full!readRelativeStreamHandle,
    readSegmentStreamHandle, Full!readSegmentStreamHandle, readStreamStateHandle,
    Full!readStreamStateHandle, readOptionalOperatorStateHandle,
    Full!readOptionalOperatorStateHandle, readOperatorStateHandle,
    Full!readOperatorStateHandle, skipOffsets, Full!skipOffsets, readOffsets,
    Full!readOffsets, skipOperatorStateEntry, Full!skipOperatorStateEntry,
    readOperatorStateEntry, Full!readOperatorStateEntry, skipFileMergingData,
    Full!skipFileMergingData, readFileMergingData, Full!readFileMergingData,
    skipStreamHandle, Full!skipStreamHandle, readDelegateStateHandle,
    Full!readDelegateStateHandle, skipOperatorStateHandle,
    Full!skipOperatorStateHandle, populateOperatorStateHandle,
    Full!populateOperatorStateHandle, readMapSize, Full!readMapSize,
    readKeyGroupsHandle, Full!readKeyGroupsHandle, readHandleAndLocalPath,
    Full!readHandleAndLocalPath, readHandleAndLocalPathList,
    Full!readHandleAndLocalPathList, readIncrementalKeyGroupsHandle,
    Full!readIncrementalKeyGroupsHandle, readChangelogHeader,
    Full!readChangelogHeader, readChangelogKeyedStateHandles,
    Full!readChangelogKeyedStateHandles, readChangelogStateHandle,
    Full!readChangelogStateHandle, skipChange, Full!skipChange, readChange,
    Full!readChange, readChanges, Full!readChanges,
    readChangelogByteIncrementHandle, Full!readChangelogByteIncrementHandle,
    readStreamOffset, Full!readStreamOffset, readChangelogFileIncrementHandle,
    Full!readChangelogFileIncrementHandle, readKeyedStateHandle,
    Full!readKeyedStateHandle, readUnmergedChannelStateHandle,
    Full!readUnmergedChannelStateHandle, readMergedChannelStateHandle,
    Full!readMergedChannelStateHandle, readChannelStateHandleV1,
    Full!readChannelStateHandleV1, readChannelStateHandleV2,
    Full!readChannelStateHandleV2, readChannelStateHandle,
    Full!readChannelStateHandle, readChannelStateHandles,
    Full!readChannelStateHandles, readPayload, Full!readPayload, readMasterState,
    Full!readMasterState, readMasterStates, Full!readMasterStates,
    readOperatorStates, Full!readOperatorStates, readOperatorState,
    Full!readOperatorState, readSubtaskCount, Full!readSubtaskCount, Wrap,
    Full!Wrap, FinishedIndex, Full!FinishedIndex, readSubtaskState,
    Full!readSubtaskState

-----------------------------------------------------------------------------
(* Sequences of symbols *)

Index == 0..IntMax

Fields == {"nothing", "byte", "int32", "int64", "utf"}

Names ==
    {"keep", "fail", "checkMagic", "readVersion", "ReadUTF", "ReadBytes", "readPayload",
     "readMasterState", "readMasterStates", "readOperatorStates", "readOperatorState",
     "readSubtaskCount", "readSubtaskState", "appendSubtask", "appendOperator",
     "readProperties", "readOptionalOperatorStateHandle", "readOperatorStateHandle",
     "readMapSize", "readOperatorStateEntry", "skipOperatorStateEntry", "readOffsets",
     "skipOffsets", "readKeyedStateHandle", "readHandleAndLocalPathList",
     "readHandleAndLocalPath", "readChangelogKeyedStateHandles", "readChanges",
     "readChange", "skipChange", "readStreamOffsets", "readStreamOffset",
     "readChannelStates", "readChannelStateHandle", "readChannelStateHandleV2",
     "readStreamStateHandle"}

Symbols ==
    {s \in [reads : Fields, then : Names, full : BOOLEAN, arg : Int] :
        /\ s.then = "appendSubtask" => s.arg \in Index
        /\ s.then \in {"appendOperator", "appendSubtask"} => s.reads = "nothing"
        /\ s.then \in {"readOperatorStates", "readSubtaskCount"} => s.reads # "nothing"}

\* The symbols a become b where everything is read.
Becomes(a, b) == a \in Seq(Symbols) /\ b \in Seq(Symbols) /\ b = Unskipped(a)

LEMMA UnskipType == ASSUME NEW s \in Symbols PROVE Unskip(s) \in Symbols
<1>1. ReadsFor(s.then) \in {s.then, "readOperatorStateEntry", "readOffsets", "readChange"}
  BY Zenon DEF ReadsFor
<1> QED
  BY <1>1 DEF Symbols, Unskip, Symbol, Names

LEMMA UnskippedProperties ==
    ASSUME NEW a \in Seq(Symbols)
    PROVE  /\ Unskipped(a) \in Seq(Symbols)
           /\ Len(Unskipped(a)) = Len(a)
           /\ \A i \in 1..Len(a) : Unskipped(a)[i] = Unskip(a[i])
  BY UnskipType DEF Unskipped

LEMMA BecomesOne ==
    ASSUME NEW s \in Symbols
    PROVE  Becomes(<<s>>, <<Unskip(s)>>)
  BY UnskipType DEF Becomes, Unskipped

LEMMA BecomesNothing == Becomes(<<>>, <<>>)
  BY DEF Becomes, Unskipped

LEMMA BecomesConcat ==
    ASSUME NEW a, NEW b, NEW c, NEW d, Becomes(a, b), Becomes(c, d)
    PROVE  Becomes(a \o c, b \o d)
<1>1. /\ a \in Seq(Symbols) /\ b \in Seq(Symbols) /\ b = Unskipped(a)
      /\ c \in Seq(Symbols) /\ d \in Seq(Symbols) /\ d = Unskipped(c)
  BY DEF Becomes
<1>2. /\ a \o c \in Seq(Symbols) /\ b \o d \in Seq(Symbols)
      /\ Len(a \o c) = Len(b \o d)
  BY <1>1, UnskippedProperties
<1>3. \A i \in 1..Len(b \o d) : (b \o d)[i] = Unskip((a \o c)[i])
  BY <1>1, <1>2, UnskippedProperties
<1>4. /\ Unskipped(a \o c) \in Seq(Symbols)
      /\ Len(Unskipped(a \o c)) = Len(b \o d)
      /\ \A i \in 1..Len(b \o d) : Unskipped(a \o c)[i] = Unskip((a \o c)[i])
  BY <1>2, UnskippedProperties
<1>5. b \o d = Unskipped(a \o c)
  BY <1>2, <1>3, <1>4, SeqEqual
<1> QED
  BY <1>2, <1>5 DEF Becomes

LEMMA BecomesFail == Becomes(Fail, Fail)
<1> DEFINE f == Read("nothing", "fail")
<1>1. f \in Symbols
  BY DEF Read, Symbol, Symbols, Fields, Names
<1>2. Unskip(f) = f
  BY DEF Unskip, Read, Symbol, ReadsFor
<1> QED
  BY <1>1, <1>2, BecomesOne DEF Fail

LEMMA BecomesTimes ==
    ASSUME NEW n \in Int, NEW s \in Symbols
    PROVE  Becomes(Times(n, s), Times(n, Unskip(s)))
<1>1. CASE n < 0
  BY <1>1, BecomesFail DEF Times
<1>2. CASE n >= 0
  BY <1>2, UnskipType DEF Times, Becomes, Unskipped
<1> QED
  BY <1>1, <1>2

LEMMA BecomesOptional ==
    ASSUME NEW p \in BOOLEAN, NEW a, NEW b, Becomes(a, b)
    PROVE  Becomes(Optional(p, a), Optional(p, b))
  BY BecomesNothing DEF Optional

-----------------------------------------------------------------------------
(* What does not depend on the mode *)

\* The functions that skip.
Skips == {"skipOperatorStateEntry", "skipOffsets", "skipChange"}

\* The functions that announce or append operators and subtasks.
Counted == {"readOperatorStates", "readOperatorState", "appendOperator",
            "readSubtaskCount", "readSubtaskState", "appendSubtask"}

\* The functions that are called from many places.
Plain == Names \ (Skips \cup Counted \cup {"readProperties"})

Fixed == {s \in Symbols : Unskip(s) = s /\ s.then \in Plain}

LEMMA FixedSymbol ==
    ASSUME NEW reads \in Fields, NEW arg \in Int, NEW then \in Plain
    PROVE  Symbol(reads, then, TRUE, arg) \in Fixed
<1>1. ReadsFor(then) = then
  BY Zenon DEF ReadsFor, Plain, Skips
<1>2. /\ then \in Names
      /\ then \notin {"appendOperator", "appendSubtask", "readOperatorStates",
                      "readSubtaskCount"}
  BY DEF Plain, Counted
<1> QED
  BY <1>1, <1>2 DEF Fixed, Symbols, Symbol, Unskip

\* A field, or a call, whose function is the same one in both modes.
LEMMA FixedRead ==
    ASSUME NEW reads \in Fields, NEW then \in Plain
    PROVE  /\ Read(reads, then) \in Fixed
           /\ Call(then, TRUE, 0) \in Fixed
<1>1. "nothing" \in Fields /\ 0 \in Int
  BY DEF Fields
<1>2. /\ Symbol(reads, then, TRUE, 0) \in Fixed
      /\ Symbol("nothing", then, TRUE, 0) \in Fixed
  BY <1>1, FixedSymbol
<1> QED
  BY <1>2 DEF Read, Call

LEMMA FixedFields ==
    /\ Int32 \in Fixed
    /\ Int64 \in Fixed
    /\ Byte \in Fixed
    /\ Bool \in Fixed
    /\ UTF \in Fixed
    /\ Bytes \in Fixed
    /\ StreamStateHandle \in Fixed
    /\ readHandleAndLocalPathList \in Fixed
    /\ Read("nothing", "fail") \in Fixed
    /\ \A d \in Int : KeyedStateHandle(TRUE, d) \in Fixed
<1>1. \A reads \in Fields, then \in Plain : Read(reads, then) \in Fixed
  BY FixedRead
<1>2. /\ {"keep", "fail", "ReadUTF", "ReadBytes", "readStreamStateHandle",
          "readHandleAndLocalPathList", "readKeyedStateHandle"} \subseteq Plain
      /\ Fields = {"nothing", "byte", "int32", "int64", "utf"}
  BY DEF Plain, Names, Fields, Skips, Counted
<1>3. Int32 \in Fixed /\ Int64 \in Fixed /\ Byte \in Fixed /\ Bool \in Fixed
  BY <1>1, <1>2 DEF Int32, Int64, Byte, Bool
<1>4. UTF \in Fixed /\ Bytes \in Fixed /\ Read("nothing", "fail") \in Fixed
  BY <1>1, <1>2 DEF UTF, Bytes
<1>5. StreamStateHandle \in Fixed /\ readHandleAndLocalPathList \in Fixed
  BY <1>1, <1>2 DEF StreamStateHandle, readHandleAndLocalPathList
<1>6. ASSUME NEW d \in Int PROVE KeyedStateHandle(TRUE, d) \in Fixed
  <2>1. "readKeyedStateHandle" \in Plain
    BY DEF Plain, Names, Skips, Counted
  <2> QED
    BY <1>2, <2>1, FixedSymbol DEF KeyedStateHandle
<1> QED
  BY <1>3, <1>4, <1>5, <1>6

LEMMA BecomesFixed == ASSUME NEW a \in Seq(Fixed) PROVE Becomes(a, a)
<1>1. a \in Seq(Symbols)
  BY SeqMonotonic DEF Fixed
<1>2. /\ Unskipped(a) \in Seq(Symbols)
      /\ Len(Unskipped(a)) = Len(a)
      /\ \A i \in 1..Len(a) : Unskipped(a)[i] = a[i]
  BY <1>1, UnskippedProperties DEF Fixed
<1>3. Unskipped(a) = a
  BY <1>1, <1>2, SeqEqual
<1> QED
  BY <1>1, <1>3 DEF Becomes

LEMMA FixedSequences ==
    /\ Fail \in Seq(Fixed)
    /\ \A n \in Int, s \in Fixed : Times(n, s) \in Seq(Fixed)
    /\ \A p \in BOOLEAN, a \in Seq(Fixed) : Optional(p, a) \in Seq(Fixed)
    /\ \A a, b \in Seq(Fixed) : a \o b \in Seq(Fixed)
<1>1. Fail \in Seq(Fixed)
  BY FixedFields DEF Fail
<1>2. ASSUME NEW n \in Int, NEW s \in Fixed
      PROVE  Times(n, s) \in Seq(Fixed)
  BY <1>1, <1>2 DEF Times
<1>3. \A p \in BOOLEAN, a \in Seq(Fixed) : Optional(p, a) \in Seq(Fixed)
  BY DEF Optional
<1>4. \A a, b \in Seq(Fixed) : a \o b \in Seq(Fixed)
  OBVIOUS
<1> QED
  BY <1>1, <1>2, <1>3, <1>4

\* The short sequences that are written out.
LEMMA FixedTuples ==
    \A a, b, c, d, e, f \in Fixed :
        /\ <<a>> \in Seq(Fixed)
        /\ <<a, b>> \in Seq(Fixed)
        /\ <<a, b, c>> \in Seq(Fixed)
        /\ <<a, b, c, d>> \in Seq(Fixed)
        /\ <<a, b, c, d, e>> \in Seq(Fixed)
        /\ <<a, b, c, d, e, f>> \in Seq(Fixed)
        /\ <<>> \in Seq(Fixed)
  OBVIOUS

LEMMA FixedReader ==
    ASSUME NEW n \in Int
    PROVE  /\ ReadBytes(n) \in Seq(Fixed)
           /\ ReadUTF(n) \in Seq(Fixed)
           /\ readPayload(n) \in Seq(Fixed)
           /\ readMasterState(n) \in Seq(Fixed)
           /\ readMasterStates(n) \in Seq(Fixed)
<1>1. /\ Read("int32", "readPayload") \in Fixed
      /\ Read("int32", "readMasterState") \in Fixed
  BY FixedRead DEF Fields, Plain, Names, Skips, Counted
<1>2. ReadBytes(n) \in Seq(Fixed)
  <2>1. <<Byte>> \in Seq(Fixed)
    BY FixedFields, FixedTuples
  <2> QED
    BY <2>1, FixedSequences, FixedTuples, FixedFields DEF ReadBytes, Optional
<1>3. ReadUTF(n) \in Seq(Fixed)
  BY FixedSequences, FixedTuples, FixedFields DEF ReadUTF
<1>4. readPayload(n) \in Seq(Fixed)
  <2>1. <<Int32, UTF, Bytes>> \in Seq(Fixed)
    BY FixedFields, FixedTuples
  <2> QED
    BY <2>1, FixedSequences DEF readPayload
<1>5. readMasterState(n) \in Seq(Fixed)
  BY <1>1, FixedTuples, FixedSequences DEF readMasterState
<1>6. readMasterStates(n) \in Seq(Fixed)
  BY <1>1, FixedSequences DEF readMasterStates
<1> QED
  BY <1>2, <1>3, <1>4, <1>5, <1>6

LEMMA FixedStreamHandle ==
    ASSUME NEW n \in Int
    PROVE  readStreamStateHandle(n) \in Seq(Fixed)
<1>1. readStreamStateHandle(n) \in
        {<<>>, readByteStreamHandle, readFileStreamHandle, readRelativeStreamHandle,
         readSegmentStreamHandle, Fail}
  BY Zenon DEF readStreamStateHandle
<1>2. /\ readByteStreamHandle \in Seq(Fixed)
      /\ readFileStreamHandle \in Seq(Fixed)
      /\ readRelativeStreamHandle \in Seq(Fixed)
  BY FixedFields, FixedTuples
  DEF readByteStreamHandle, readFileStreamHandle, readRelativeStreamHandle
<1>3. readSegmentStreamHandle \in Seq(Fixed)
  BY FixedFields, FixedTuples DEF readSegmentStreamHandle
<1>4. Fail \in Seq(Fixed) /\ <<>> \in Seq(Fixed)
  BY FixedSequences, FixedFields, FixedTuples
<1> QED
  BY <1>1, <1>2, <1>3, <1>4

LEMMA FixedChannelState ==
    ASSUME NEW n \in Int
    PROVE  /\ readChannelStateHandleV2(n) \in Seq(Fixed)
           /\ readChannelStateHandle(n) \in Seq(Fixed)
           /\ readChannelStateHandles(n) \in Seq(Fixed)
<1>1. /\ Read("int32", "readOffsets") \in Fixed
      /\ Read("byte", "readChannelStateHandleV2") \in Fixed
      /\ Read("int32", "readChannelStates") \in Fixed
  BY FixedRead DEF Fields, Plain, Names, Skips, Counted
<1>2. readUnmergedChannelStateHandle \in Seq(Fixed)
  BY <1>1, FixedFields, FixedTuples DEF readUnmergedChannelStateHandle
<1>3. readMergedChannelStateHandle \in Seq(Fixed)
  BY FixedFields, FixedTuples DEF readMergedChannelStateHandle
<1>4. Fail \in Seq(Fixed)
  BY FixedSequences
<1>5. readChannelStateHandleV2(n) \in Seq(Fixed)
  <2>1. readChannelStateHandleV2(n) \in
            {readUnmergedChannelStateHandle, readMergedChannelStateHandle, Fail}
    BY Zenon DEF readChannelStateHandleV2
  <2> QED
    BY <1>2, <1>3, <1>4, <2>1
<1>6. /\ <<Read("byte", "readChannelStateHandleV2")>> \in Seq(Fixed)
      /\ <<Read("int32", "readChannelStates")>> \in Seq(Fixed)
  BY <1>1, FixedTuples
<1>7. readChannelStateHandle(n) \in Seq(Fixed)
  BY <1>2, <1>6 DEF readChannelStateHandle, readChannelStateHandleV1
<1>8. readChannelStateHandles(n) \in Seq(Fixed)
  BY <1>6, FixedTuples, FixedFields DEF readChannelStateHandles, Optional
<1> QED
  BY <1>5, <1>7, <1>8

LEMMA FixedKeyedState ==
    ASSUME NEW n \in Int, NEW d \in Int
    PROVE  /\ \A full : n # 9 => readKeyedStateHandle(n, full, d) \in Seq(Fixed)
           /\ readChangelogKeyedStateHandles(n, d) \in Seq(Fixed)
           /\ readHandleAndLocalPath \in Seq(Fixed)
           /\ readStreamOffset \in Seq(Fixed)
           /\ readChange \in Seq(Fixed)
<1>1. /\ Read("int32", "readOffsets") \in Fixed
      /\ Read("int32", "readStreamOffsets") \in Fixed
  BY FixedRead DEF Fields, Plain, Names, Skips, Counted
<1>2. readKeyGroupsHandle(n) \in Seq(Fixed)
  <2>1. /\ <<Int32, Read("int32", "readOffsets"), StreamStateHandle>> \in Seq(Fixed)
        /\ <<UTF>> \in Seq(Fixed)
        /\ <<>> \in Seq(Fixed)
    BY <1>1, FixedFields, FixedTuples
  <2> QED
    BY <2>1, FixedSequences DEF readKeyGroupsHandle, Optional
<1>3. readIncrementalKeyGroupsHandle(n) \in Seq(Fixed)
  <2>1. /\ <<Int64, UTF, Int32, Int32>> \in Seq(Fixed)
        /\ <<StreamStateHandle, readHandleAndLocalPathList, readHandleAndLocalPathList>>
                \in Seq(Fixed)
    BY FixedFields, FixedTuples
  <2>2. /\ Optional(n = 11, <<Int64>>) \in Seq(Fixed)
        /\ Optional(n = 11, <<UTF>>) \in Seq(Fixed)
    BY FixedFields, FixedTuples DEF Optional
  <2> QED
    BY <2>1, <2>2, FixedSequences DEF readIncrementalKeyGroupsHandle
<1>4. readChangelogStateHandle(n, d) \in Seq(Fixed)
  <2> DEFINE nested == Symbol("int32", "readChangelogKeyedStateHandles", TRUE, d + 1)
  <2>1. nested \in Fixed
    <3>1. /\ "int32" \in Fields
          /\ "readChangelogKeyedStateHandles" \in Plain
          /\ d + 1 \in Int
      BY DEF Fields, Plain, Names, Skips, Counted
    <3> QED
      BY <3>1, FixedSymbol
  <2> HIDE DEF nested
  <2>2. /\ readChangelogHeader \in Seq(Fixed)
        /\ <<nested, nested, Int64>> \in Seq(Fixed)
        /\ Optional(n = 14, <<Int64>>) \in Seq(Fixed)
        /\ <<UTF>> \in Seq(Fixed)
    BY <2>1, FixedFields, FixedTuples DEF Optional, readChangelogHeader
  <2> QED
    BY <2>2, FixedSequences DEF readChangelogStateHandle, nested
<1>5. readChangelogFileIncrementHandle(n) \in Seq(Fixed)
  <2>1. /\ <<Int32, Int32, Read("int32", "readStreamOffsets"), Int64, Int64, UTF>>
                \in Seq(Fixed)
        /\ Optional(n = 13, <<UTF>>) \in Seq(Fixed)
    BY <1>1, FixedFields, FixedTuples DEF Optional
  <2> QED
    BY <2>1, FixedSequences DEF readChangelogFileIncrementHandle
<1>6. ASSUME NEW full, n # 9
      PROVE  readKeyedStateHandle(n, full, d) \in Seq(Fixed)
  <2>1. readKeyedStateHandle(n, full, d) \in
            {<<>>, readKeyGroupsHandle(n), readIncrementalKeyGroupsHandle(n),
             readChangelogStateHandle(n, d), readChangelogFileIncrementHandle(n), Fail}
    BY <1>6, Zenon DEF readKeyedStateHandle
  <2>2. <<>> \in Seq(Fixed) /\ Fail \in Seq(Fixed)
    BY FixedFields, FixedTuples, FixedSequences
  <2> QED
    BY <1>2, <1>3, <1>4, <1>5, <2>1, <2>2
<1>7. readChangelogKeyedStateHandles(n, d) \in Seq(Fixed)
  BY FixedFields, FixedSequences DEF readChangelogKeyedStateHandles
<1>8. readHandleAndLocalPath \in Seq(Fixed) /\ readStreamOffset \in Seq(Fixed)
  BY FixedFields, FixedTuples DEF readHandleAndLocalPath, readStreamOffset
<1>9. readChange \in Seq(Fixed)
  BY FixedFields, FixedTuples DEF readChange
<1> QED
  BY <1>6, <1>7, <1>8, <1>9

-----------------------------------------------------------------------------
(* The index of a finished subtask *)

LEMMA WrapInRange ==
    ASSUME NEW i \in (-IntMax - 1)..IntMax
    PROVE  Wrap(i, IntMax) = i
<1> DEFINE m == 2 * IntMax + 2
           j == i + IntMax + 1
<1>1. m \in Nat \ {0} /\ j \in 0..(m - 1)
  BY IntMaxAssumption
<1>2. \A p \in Nat \ {0} : \A q \in 0..(p - 1) : q % p = q
  OBVIOUS
<1>3. Wrap(i, IntMax) = (j % m) - IntMax - 1
  BY DEF Wrap
<1> HIDE DEF m, j
<1>4. j % m = j
  BY <1>1, <1>2
<1> QED
  BY <1>3, <1>4, IntMaxAssumption DEF j

\* readSubtaskState turns a negative int32 into the index whose complement it
\* is, and never out of the range: not even the smallest int32.
LEMMA FinishedIndexInRange ==
    ASSUME NEW i \in (-IntMax - 1)..(-1)
    PROVE  FinishedIndex(i, IntMax) \in Index
<1>1. i + 1 \in (-IntMax - 1)..IntMax /\ -(i + 1) \in (-IntMax - 1)..IntMax
  BY IntMaxAssumption
<1>2. Wrap(i + 1, IntMax) = i + 1
  BY <1>1, WrapInRange
<1>3. Wrap(-(i + 1), IntMax) = -(i + 1)
  BY <1>1, WrapInRange
<1> QED
  BY <1>2, <1>3, IntMaxAssumption DEF FinishedIndex, Index

-----------------------------------------------------------------------------
(* What depends on the mode: with full as TRUE it is what the rest becomes *)

LEMMA TupleConcat ==
    \A a, b, c, d, e, f :
        /\ <<e, f>> = <<e>> \o <<f>>
        /\ <<a, b, c, d, e, f>> = (<<a, b, c, d>> \o <<e>>) \o <<f>>
<1> TAKE a, b, c, d, e, f
<1>1. <<e, f>> = <<e>> \o <<f>>
  <2>1. <<e>> \in Seq({e, f}) /\ <<f>> \in Seq({e, f}) /\ <<e, f>> \in Seq({e, f})
    OBVIOUS
  <2>2. /\ <<e>> \o <<f>> \in Seq({e, f})
        /\ Len(<<e>> \o <<f>>) = 2
        /\ (<<e>> \o <<f>>)[1] = e
        /\ (<<e>> \o <<f>>)[2] = f
    BY <2>1, ConcatProperties
  <2>3. Len(<<e, f>>) = 2 /\ <<e, f>>[1] = e /\ <<e, f>>[2] = f
    OBVIOUS
  <2> DEFINE s == <<e>> \o <<f>>
             t == <<e, f>>
  <2>4. /\ s \in Seq({e, f}) /\ t \in Seq({e, f})
        /\ Len(s) = 2 /\ Len(t) = 2
        /\ s[1] = t[1] /\ s[2] = t[2]
    BY <2>1, <2>2, <2>3
  <2> HIDE DEF s, t
  <2>5. \A i \in 1..Len(s) : s[i] = t[i]
    BY <2>4
  <2>6. s = t
    BY <2>4, <2>5, SeqEqual
  <2> QED
    BY <2>6 DEF s, t
<1>2. <<a, b, c, d, e>> = <<a, b, c, d>> \o <<e>>
  OBVIOUS
<1>3. <<a, b, c, d, e, f>> = <<a, b, c, d, e>> \o <<f>>
  OBVIOUS
<1> QED
  BY <1>1, <1>2, <1>3

\* The functions that are called with parseFull.
Modal ==
    {"readOperatorState", "readSubtaskCount", "readSubtaskState", "readChanges",
     "readOptionalOperatorStateHandle", "readOperatorStateHandle", "readMapSize",
     "readKeyedStateHandle", "readOperatorStates"}

LEMMA BecomesModal ==
    ASSUME NEW reads \in Fields, NEW then \in Modal, NEW full \in BOOLEAN, NEW arg \in Int,
           then \in {"readOperatorStates", "readSubtaskCount"} => reads # "nothing"
    PROVE  /\ Symbol(reads, then, full, arg) \in Symbols
           /\ Unskip(Symbol(reads, then, full, arg)) = Symbol(reads, then, TRUE, arg)
           /\ Becomes(<<Symbol(reads, then, full, arg)>>, <<Symbol(reads, then, TRUE, arg)>>)
           /\ \A n \in Int : Becomes(Times(n, Symbol(reads, then, full, arg)),
                                     Times(n, Symbol(reads, then, TRUE, arg)))
<1>1. then \in Names \ {"appendOperator", "appendSubtask"}
  BY DEF Names, Modal
<1>2. then \notin {"skipOperatorStateEntry", "skipOffsets", "skipChange"}
  BY DEF Modal
<1>3. ReadsFor(then) = then
  BY <1>2, Zenon DEF ReadsFor
<1>4. Symbol(reads, then, full, arg) \in Symbols
  BY <1>1 DEF Symbol, Symbols
<1>5. Unskip(Symbol(reads, then, full, arg)) = Symbol(reads, then, TRUE, arg)
  BY <1>3 DEF Symbol, Unskip
<1> QED
  BY <1>4, <1>5, BecomesOne, BecomesTimes

LEMMA BecomesFirst ==
    ASSUME NEW full \in BOOLEAN
    PROVE  /\ \A then \in Modal :
                Becomes(<<Symbol("int32", then, full, 0)>>, <<Symbol("int32", then, TRUE, 0)>>)
           /\ Becomes(<<KeyedStateHandle(full, 0)>>, <<KeyedStateHandle(TRUE, 0)>>)
<1>1. /\ "int32" \in Fields /\ "byte" \in Fields /\ 0 \in Int
      /\ "int32" # "nothing" /\ "byte" # "nothing"
  BY DEF Fields
<1>2. "readKeyedStateHandle" \in Modal
  BY DEF Modal
<1> QED
  BY <1>1, <1>2, BecomesModal DEF KeyedStateHandle

LEMMA BecomesCalls ==
    ASSUME NEW full \in BOOLEAN, NEW n \in Int
    PROVE  /\ Becomes(readOperatorStates(n, full), readOperatorStates(n, TRUE))
           /\ Becomes(readSubtaskCount(n, full), readSubtaskCount(n, TRUE))
           /\ Becomes(readChanges(n, full), readChanges(n, TRUE))
           /\ Becomes(readOptionalOperatorStateHandle(n, full),
                      readOptionalOperatorStateHandle(n, TRUE))
           /\ Becomes(readOperatorStateHandle(n, full), readOperatorStateHandle(n, TRUE))
<1>1. /\ {"nothing", "byte", "int32"} \subseteq Fields
      /\ {"readOperatorState", "readSubtaskState", "readOperatorStateHandle",
          "readMapSize"} \subseteq Modal
      /\ 0 \in Int
  BY DEF Fields, Modal
<1>2. Becomes(readOperatorStates(n, full), readOperatorStates(n, TRUE))
  BY <1>1, BecomesModal DEF readOperatorStates, Call
<1>3. Becomes(readSubtaskCount(n, full), readSubtaskCount(n, TRUE))
  BY <1>1, BecomesModal, BecomesNothing DEF readSubtaskCount
<1>4. Becomes(readChanges(n, full), readChanges(n, TRUE))
  <2> DEFINE read == Call("readChange", TRUE, 0)
             skip == Call("skipChange", TRUE, 0)
  <2>1. /\ read \in Symbols /\ Unskip(read) = read
        /\ skip \in Symbols /\ Unskip(skip) = read
    <3>1. ReadsFor("skipChange") = "readChange" /\ ReadsFor("readChange") = "readChange"
      BY Zenon DEF ReadsFor
    <3>2. read \in Symbols /\ skip \in Symbols
      BY DEF Call, Symbol, Symbols, Fields, Names
    <3>3. Unskip(read) = read /\ Unskip(skip) = read
      BY <3>1 DEF Call, Symbol, Unskip
    <3> QED
      BY <3>2, <3>3
  <2>2. readChanges(n, full) \in {Times(n, read), Times(n, skip)}
    BY DEF readChanges
  <2>3. readChanges(n, TRUE) = Times(n, read)
    BY DEF readChanges
  <2> QED
    BY <2>1, <2>2, <2>3, BecomesTimes
<1>5. Becomes(readOptionalOperatorStateHandle(n, full),
              readOptionalOperatorStateHandle(n, TRUE))
  <2> DEFINE one(f) == Symbol("byte", "readOperatorStateHandle", f, 0)
  <2>1. Becomes(<<one(full)>>, <<one(TRUE)>>)
    BY <1>1, BecomesModal
  <2>2. /\ readOptionalOperatorStateHandle(n, full) =
                IF n = 0 THEN <<>> ELSE IF n = 1 THEN <<one(full)>> ELSE Fail
        /\ readOptionalOperatorStateHandle(n, TRUE) =
                IF n = 0 THEN <<>> ELSE IF n = 1 THEN <<one(TRUE)>> ELSE Fail
    BY DEF readOptionalOperatorStateHandle
  <2> HIDE DEF one
  <2> QED
    BY <2>1, <2>2, BecomesNothing, BecomesFail
<1>6. Becomes(readOperatorStateHandle(n, full), readOperatorStateHandle(n, TRUE))
  <2> DEFINE one(f) == Symbol("int32", "readMapSize", f, n)
  <2>1. Becomes(<<one(full)>>, <<one(TRUE)>>)
    BY <1>1, BecomesModal
  <2>2. /\ readOperatorStateHandle(n, full) =
                IF n = 0 THEN <<>> ELSE IF n \in {4, 17} THEN <<one(full)>> ELSE Fail
        /\ readOperatorStateHandle(n, TRUE) =
                IF n = 0 THEN <<>> ELSE IF n \in {4, 17} THEN <<one(TRUE)>> ELSE Fail
    BY DEF readOperatorStateHandle
  <2> HIDE DEF one
  <2> QED
    BY <2>1, <2>2, BecomesNothing, BecomesFail
<1> QED
  BY <1>2, <1>3, <1>4, <1>5, <1>6

LEMMA BecomesEntries ==
    ASSUME NEW n \in Int
    PROVE  /\ readOffsets(n) \in Seq(Fixed)
           /\ Becomes(skipOffsets(n), readOffsets(n))
           /\ readOperatorStateEntry \in Seq(Fixed)
           /\ Becomes(skipOperatorStateEntry, readOperatorStateEntry)
           /\ Becomes(skipChange, readChange)
<1>1. readOffsets(n) \in Seq(Fixed) /\ skipOffsets(n) = readOffsets(n)
  BY FixedFields, FixedSequences DEF readOffsets, skipOffsets
<1>2. readChange \in Seq(Fixed) /\ skipChange = readChange
  BY FixedKeyedState DEF skipChange, readChange
<1>3. Read("int32", "readOffsets") \in Fixed
  BY FixedRead DEF Fields, Plain, Names, Skips, Counted
<1>4. readOperatorStateEntry \in Seq(Fixed)
  BY <1>3, FixedFields, FixedTuples DEF readOperatorStateEntry
<1>5. Becomes(skipOperatorStateEntry, readOperatorStateEntry)
  <2>1. /\ Read("int32", "skipOffsets") \in Symbols
        /\ Unskip(Read("int32", "skipOffsets")) = Read("int32", "readOffsets")
    <3>1. ReadsFor("skipOffsets") = "readOffsets"
      BY Zenon DEF ReadsFor
    <3>2. Read("int32", "skipOffsets") \in Symbols
      BY DEF Read, Symbol, Symbols, Fields, Names
    <3> QED
      BY <3>1, <3>2 DEF Read, Symbol, Unskip
  <2>2. Becomes(<<Read("int32", "skipOffsets")>>, <<Read("int32", "readOffsets")>>)
    BY <2>1, BecomesOne
  <2>3. Becomes(<<UTF, Byte>>, <<UTF, Byte>>)
    <3>1. <<UTF, Byte>> \in Seq(Fixed)
      BY FixedFields, FixedTuples
    <3> QED
      BY <3>1, BecomesFixed
  <2>4. /\ skipOperatorStateEntry = <<UTF, Byte>> \o <<Read("int32", "skipOffsets")>>
        /\ readOperatorStateEntry = <<UTF, Byte>> \o <<Read("int32", "readOffsets")>>
    BY DEF skipOperatorStateEntry, readOperatorStateEntry
  <2> QED
    BY <2>2, <2>3, <2>4, BecomesConcat
<1> QED
  BY <1>1, <1>2, <1>4, <1>5, BecomesFixed

LEMMA BecomesMapSize ==
    ASSUME NEW n \in Int, NEW full \in BOOLEAN, NEW kind \in Int
    PROVE  Becomes(readMapSize(n, full, kind), readMapSize(n, TRUE, kind))
<1> DEFINE entry  == Call("readOperatorStateEntry", TRUE, 0)
           skip   == Call("skipOperatorStateEntry", TRUE, 0)
           merged == Optional(kind = 17, readFileMergingData)
<1>1. /\ entry \in Symbols /\ Unskip(entry) = entry
      /\ skip \in Symbols /\ Unskip(skip) = entry
  <2>1. /\ ReadsFor("skipOperatorStateEntry") = "readOperatorStateEntry"
        /\ ReadsFor("readOperatorStateEntry") = "readOperatorStateEntry"
    BY Zenon DEF ReadsFor
  <2>2. entry \in Symbols /\ skip \in Symbols
    BY DEF Call, Symbol, Symbols, Fields, Names
  <2>3. Unskip(entry) = entry /\ Unskip(skip) = entry
    BY <2>1 DEF Call, Symbol, Unskip
  <2> QED
    BY <2>2, <2>3
<1>2. /\ Becomes(Times(n, entry), Times(n, entry))
      /\ Becomes(Times(n, skip), Times(n, entry))
  BY <1>1, BecomesTimes
<1>3. /\ populateOperatorStateHandle(n, kind) =
            (Times(n, entry) \o merged) \o readDelegateStateHandle
      /\ skipOperatorStateHandle(n, kind) =
            (Times(n, skip) \o merged) \o readDelegateStateHandle
  BY DEF populateOperatorStateHandle, skipOperatorStateHandle, skipFileMergingData,
         readFileMergingData, skipStreamHandle, readDelegateStateHandle
<1>4. /\ Becomes(merged, merged)
      /\ Becomes(readDelegateStateHandle, readDelegateStateHandle)
  <2>1. /\ <<UTF, UTF, Bool>> \in Seq(Fixed)
        /\ <<StreamStateHandle>> \in Seq(Fixed)
        /\ <<>> \in Seq(Fixed)
    BY FixedFields, FixedTuples
  <2> QED
    BY <2>1, BecomesFixed DEF Optional, readFileMergingData, readDelegateStateHandle
<1>5. /\ Becomes(populateOperatorStateHandle(n, kind), populateOperatorStateHandle(n, kind))
      /\ Becomes(skipOperatorStateHandle(n, kind), populateOperatorStateHandle(n, kind))
  <2> HIDE DEF entry, skip, merged
  <2>1. /\ Becomes(Times(n, entry) \o merged, Times(n, entry) \o merged)
        /\ Becomes(Times(n, skip) \o merged, Times(n, entry) \o merged)
    BY <1>2, <1>4, BecomesConcat
  <2> QED
    BY <1>3, <1>4, <2>1, BecomesConcat
<1>6. /\ readMapSize(n, full, kind) =
            IF n < 0 THEN Fail
            ELSE IF full THEN populateOperatorStateHandle(n, kind)
            ELSE skipOperatorStateHandle(n, kind)
      /\ readMapSize(n, TRUE, kind) =
            IF n < 0 THEN Fail ELSE populateOperatorStateHandle(n, kind)
  BY DEF readMapSize
<1> QED
  BY <1>5, <1>6, BecomesFail

LEMMA BecomesKeyedState ==
    ASSUME NEW n \in Int, NEW full \in BOOLEAN, NEW d \in Int
    PROVE  Becomes(readKeyedStateHandle(n, full, d), readKeyedStateHandle(n, TRUE, d))
<1>1. CASE n # 9
  <2>1. readKeyedStateHandle(n, full, d) = readKeyedStateHandle(n, TRUE, d)
    BY <1>1, SMT DEF readKeyedStateHandle
  <2>2. readKeyedStateHandle(n, TRUE, d) \in Seq(Fixed)
    BY <1>1, FixedKeyedState
  <2> QED
    BY <2>1, <2>2, BecomesFixed
<1>2. CASE n = 9
  <2> DEFINE changes(f) == Symbol("int32", "readChanges", f, 0)
             before == <<Int32, Int32, Int64, Int64>>
             after == <<UTF>>
  <2>1. Becomes(<<changes(full)>>, <<changes(TRUE)>>)
    BY BecomesFirst DEF Modal
  <2>2. Becomes(before, before) /\ Becomes(after, after)
    <3>1. before \in Seq(Fixed) /\ after \in Seq(Fixed)
      BY FixedFields, FixedTuples
    <3> QED
      BY <3>1, BecomesFixed
  <2>3. \A f : readChangelogByteIncrementHandle(f) = (before \o <<changes(f)>>) \o after
    BY DEF readChangelogByteIncrementHandle
  <2>4. /\ readKeyedStateHandle(n, full, d) = readChangelogByteIncrementHandle(full)
        /\ readKeyedStateHandle(n, TRUE, d) = readChangelogByteIncrementHandle(TRUE)
    BY <1>2, SMT DEF readKeyedStateHandle
  <2> HIDE DEF changes, before, after
  <2>5. Becomes(before \o <<changes(full)>>, before \o <<changes(TRUE)>>)
    BY <2>1, <2>2, BecomesConcat
  <2>6. Becomes(readChangelogByteIncrementHandle(full), readChangelogByteIncrementHandle(TRUE))
    BY <2>2, <2>3, <2>5, BecomesConcat
  <2> QED
    BY <2>4, <2>6
<1> QED
  BY <1>1, <1>2

\* A call that appends, or ends the file, is the same one in both modes.
LEMMA BecomesAppend ==
    ASSUME NEW then \in {"appendOperator", "appendSubtask", "readProperties"}, NEW n \in Int,
           then = "appendSubtask" => n \in Index
    PROVE  Becomes(<<Call(then, TRUE, n)>>, <<Call(then, TRUE, n)>>)
<1>1. then \in Names /\ "nothing" \in Fields
  BY DEF Names, Fields
<1>2. Call(then, TRUE, n) \in Symbols
  BY <1>1 DEF Call, Symbol, Symbols
<1>3. ReadsFor(then) = then
  BY Zenon DEF ReadsFor
<1>4. Unskip(Call(then, TRUE, n)) = Call(then, TRUE, n)
  BY <1>3 DEF Call, Symbol, Unskip
<1> QED
  BY <1>2, <1>4, BecomesOne

LEMMA BecomesOperator ==
    ASSUME NEW v \in Int, NEW full \in BOOLEAN
    PROVE  Becomes(readOperatorState(v, full), readOperatorState(v, TRUE))
<1> DEFINE names    == Optional(v >= 5, <<UTF, UTF>>)
           sizes    == <<Int64, Int64, Int32, Int32>>
           state    == Optional(v >= 3, <<StreamStateHandle>>)
           count(f) == Symbol("int32", "readSubtaskCount", f, 0)
           last     == Call("appendOperator", TRUE, 0)
<1>1. /\ Becomes(names \o sizes, names \o sizes)
      /\ Becomes(state, state)
      /\ Becomes(<<last>>, <<last>>)
  <2>1. sizes \in Seq(Fixed) /\ names \in Seq(Fixed)
    BY FixedFields, FixedTuples DEF Optional
  <2>2. state \in Seq(Fixed)
    BY FixedFields, FixedTuples DEF Optional
  <2>3. Becomes(<<last>>, <<last>>)
    <3>1. "appendOperator" # "appendSubtask" /\ 0 \in Int
      OBVIOUS
    <3> QED
      BY <3>1, BecomesAppend
  <2> QED
    BY <2>1, <2>2, <2>3, FixedSequences, BecomesFixed
<1>2. Becomes(<<count(full), last>>, <<count(TRUE), last>>)
  <2>1. Becomes(<<count(full)>>, <<count(TRUE)>>)
    BY BecomesFirst DEF Modal
  <2>2. \A f : <<count(f), last>> = <<count(f)>> \o <<last>>
    BY TupleConcat
  <2> HIDE DEF count, last
  <2> QED
    BY <1>1, <2>1, <2>2, BecomesConcat
<1>3. \A f : readOperatorState(v, f) = ((names \o sizes) \o state) \o <<count(f), last>>
  BY DEF readOperatorState
<1> HIDE DEF names, sizes, state, count, last
<1>4. Becomes((names \o sizes) \o state, (names \o sizes) \o state)
  BY <1>1, BecomesConcat
<1> QED
  BY <1>2, <1>3, <1>4, BecomesConcat

LEMMA BecomesSubtask ==
    ASSUME NEW v \in Int, NEW full \in BOOLEAN, NEW i \in (-IntMax - 1)..IntMax
    PROVE  Becomes(readSubtaskState(v, i, full, IntMax), readSubtaskState(v, i, TRUE, IntMax))
<1>1. ASSUME NEW n \in Index
      PROVE  Becomes(<<Call("appendSubtask", TRUE, n)>>, <<Call("appendSubtask", TRUE, n)>>)
  <2>1. n \in Int
    BY IntMaxAssumption DEF Index
  <2> QED
    BY <2>1, BecomesAppend
<1>2. CASE i < 0
  <2>1. FinishedIndex(i, IntMax) \in Index
    BY <1>2, FinishedIndexInRange, IntMaxAssumption
  <2>2. Becomes(<<Call("appendSubtask", TRUE, FinishedIndex(i, IntMax))>>,
                <<Call("appendSubtask", TRUE, FinishedIndex(i, IntMax))>>)
    BY <1>1, <2>1
  <2> QED
    BY <1>2, <2>2 DEF readSubtaskState
<1>3. CASE i >= 0
  <2> DEFINE optional(f) == <<Symbol("int32", "readOptionalOperatorStateHandle", f, 0)>>
             keyed(f)    == <<KeyedStateHandle(f, 0)>>
             channels    == readChannelStateHandles(v)
             last        == <<Call("appendSubtask", TRUE, i)>>
  <2>1. Becomes(optional(full), optional(TRUE)) /\ Becomes(keyed(full), keyed(TRUE))
    BY BecomesFirst DEF Modal
  <2>2. Becomes(channels, channels) /\ Becomes(last, last)
    <3>1. channels \in Seq(Fixed)
      BY FixedChannelState
    <3>2. i \in Index
      BY <1>3, IntMaxAssumption DEF Index
    <3>3. Becomes(last, last)
      BY <1>1, <3>2
    <3> QED
      BY <3>1, <3>3, BecomesFixed
  <2>3. \A f : readSubtaskState(v, i, f, IntMax) =
            (((optional(f) \o optional(f)) \o (keyed(f) \o keyed(f))) \o channels)
                \o channels \o last
    BY <1>3 DEF readSubtaskState
  <2> HIDE DEF optional, keyed, channels, last
  <2>4. /\ Becomes(optional(full) \o optional(full), optional(TRUE) \o optional(TRUE))
        /\ Becomes(keyed(full) \o keyed(full), keyed(TRUE) \o keyed(TRUE))
    BY <2>1, BecomesConcat
  <2>5. Becomes((optional(full) \o optional(full)) \o (keyed(full) \o keyed(full)),
                (optional(TRUE) \o optional(TRUE)) \o (keyed(TRUE) \o keyed(TRUE)))
    BY <2>4, BecomesConcat
  <2>6. Becomes(((optional(full) \o optional(full)) \o (keyed(full) \o keyed(full))) \o channels,
                ((optional(TRUE) \o optional(TRUE)) \o (keyed(TRUE) \o keyed(TRUE))) \o channels)
    BY <2>2, <2>5, BecomesConcat
  <2>7. Becomes((((optional(full) \o optional(full)) \o (keyed(full) \o keyed(full))) \o channels)
                    \o channels,
                (((optional(TRUE) \o optional(TRUE)) \o (keyed(TRUE) \o keyed(TRUE))) \o channels)
                    \o channels)
    BY <2>2, <2>6, BecomesConcat
  <2> QED
    BY <2>2, <2>3, <2>7, BecomesConcat
<1>4. i < 0 \/ i >= 0
  BY IntMaxAssumption
<1> QED
  BY <1>2, <1>3, <1>4

LEMMA BecomesParse ==
    ASSUME NEW full \in BOOLEAN
    PROVE  Becomes(Parse(full), Parse(TRUE))
<1> DEFINE magic    == Read("int32", "checkMagic")
           format   == Read("int32", "readVersion")
           masters  == Read("int32", "readMasterStates")
           count(f) == Symbol("int32", "readOperatorStates", f, 0)
           last     == Call("readProperties", TRUE, 0)
<1>1. magic \in Fixed /\ format \in Fixed /\ masters \in Fixed
  BY FixedRead DEF Fields, Plain, Names, Skips, Counted
<1>2. Becomes(<<count(full)>>, <<count(TRUE)>>)
  BY BecomesFirst DEF Modal
<1>3. \A f : Parse(f) = <<magic, format, Int64, masters, count(f), last>>
  BY DEF Parse
<1> HIDE DEF magic, format, masters, count, last
<1>4. <<magic, format, Int64, masters>> \in Seq(Fixed)
  BY <1>1, FixedFields, FixedTuples
<1>5. /\ Becomes(<<magic, format, Int64, masters>>, <<magic, format, Int64, masters>>)
      /\ Becomes(<<last>>, <<last>>)
  <2>1. "readProperties" # "appendSubtask" /\ 0 \in Int
    OBVIOUS
  <2>2. Becomes(<<last>>, <<last>>)
    BY <2>1, BecomesAppend DEF last
  <2> QED
    BY <1>4, <2>2, BecomesFixed
<1>6. Becomes(<<magic, format, Int64, masters>> \o <<count(full)>>,
              <<magic, format, Int64, masters>> \o <<count(TRUE)>>)
  BY <1>2, <1>5, BecomesConcat
<1>7. \A f : Parse(f) = (<<magic, format, Int64, masters>> \o <<count(f)>>) \o <<last>>
  BY <1>3, TupleConcat
<1> QED
  BY <1>5, <1>6, <1>7, BecomesConcat

-----------------------------------------------------------------------------
(* What any symbol leads to *)

LEMMA UnskipFields ==
    ASSUME NEW s
    PROVE  /\ Unskip(s).reads = s.reads
           /\ Unskip(s).then = ReadsFor(s.then)
           /\ Unskip(s).full = TRUE
           /\ Unskip(s).arg = s.arg
  BY DEF Unskip, Symbol

LEMMA FixedRest ==
    ASSUME NEW s \in Symbols, NEW v \in Int, version \in Int,
           s.then \notin Modal, s.then \notin Skips
    PROVE  Rest(s, v) \in Seq(Fixed)
<1>1. /\ Call("readHandleAndLocalPath", TRUE, 0) \in Fixed
      /\ Call("readStreamOffset", TRUE, 0) \in Fixed
      /\ Call("readChannelStateHandle", TRUE, 0) \in Fixed
  BY FixedRead DEF Fields, Plain, Names, Skips, Counted
<1>2. Rest(s, v) \in
        {<<>>, Fail, ReadBytes(v), ReadUTF(v), readPayload(v), readMasterState(v),
         readMasterStates(v), readOperatorStateEntry, readOffsets(v),
         Times(v, Call("readHandleAndLocalPath", TRUE, 0)), readHandleAndLocalPath,
         readChangelogKeyedStateHandles(v, s.arg), readChange,
         Times(v, Call("readStreamOffset", TRUE, 0)), readStreamOffset,
         Times(v, Call("readChannelStateHandle", TRUE, 0)),
         readChannelStateHandle(version), readChannelStateHandleV2(v),
         readStreamStateHandle(v)}
  BY Zenon DEF Rest, Modal, Skips
<1>3. s.arg \in Int
  BY DEF Symbols
<1>4. /\ <<>> \in Seq(Fixed)
      /\ Fail \in Seq(Fixed)
      /\ Times(v, Call("readHandleAndLocalPath", TRUE, 0)) \in Seq(Fixed)
      /\ Times(v, Call("readStreamOffset", TRUE, 0)) \in Seq(Fixed)
      /\ Times(v, Call("readChannelStateHandle", TRUE, 0)) \in Seq(Fixed)
  BY <1>1, FixedSequences, FixedTuples
<1>5. /\ ReadBytes(v) \in Seq(Fixed)
      /\ ReadUTF(v) \in Seq(Fixed)
      /\ readPayload(v) \in Seq(Fixed)
      /\ readMasterState(v) \in Seq(Fixed)
      /\ readMasterStates(v) \in Seq(Fixed)
  BY FixedReader
<1>6. /\ readOperatorStateEntry \in Seq(Fixed)
      /\ readOffsets(v) \in Seq(Fixed)
  BY BecomesEntries
<1>7. /\ readHandleAndLocalPath \in Seq(Fixed)
      /\ readChangelogKeyedStateHandles(v, s.arg) \in Seq(Fixed)
      /\ readChange \in Seq(Fixed)
      /\ readStreamOffset \in Seq(Fixed)
  BY <1>3, FixedKeyedState
<1>8. /\ readChannelStateHandle(version) \in Seq(Fixed)
      /\ readChannelStateHandleV2(v) \in Seq(Fixed)
      /\ readStreamStateHandle(v) \in Seq(Fixed)
  BY FixedChannelState, FixedStreamHandle
<1> QED
  BY <1>2, <1>4, <1>5, <1>6, <1>7, <1>8, Zenon

LEMMA FixedRestUnskip ==
    ASSUME NEW s, NEW v, s.then \notin Modal, s.then \notin Skips
    PROVE  Rest(Unskip(s), v) = Rest(s, v)
<1>1. Unskip(s).then = s.then /\ Unskip(s).arg = s.arg
  <2>1. ReadsFor(s.then) = s.then
    BY Zenon DEF ReadsFor, Skips
  <2> QED
    BY <2>1, UnskipFields
<1> QED
  BY <1>1, Zenon DEF Rest, Modal

LEMMA RestOfModal ==
    ASSUME NEW s, NEW v
    PROVE  /\ s.then = "readOperatorStates" => Rest(s, v) = readOperatorStates(v, s.full)
           /\ s.then = "readOperatorState" => Rest(s, v) = readOperatorState(version, s.full)
           /\ s.then = "readSubtaskCount" => Rest(s, v) = readSubtaskCount(v, s.full)
           /\ s.then = "readSubtaskState" =>
                Rest(s, v) = readSubtaskState(version, v, s.full, IntMax)
           /\ s.then = "readOptionalOperatorStateHandle" =>
                Rest(s, v) = readOptionalOperatorStateHandle(v, s.full)
           /\ s.then = "readOperatorStateHandle" =>
                Rest(s, v) = readOperatorStateHandle(v, s.full)
           /\ s.then = "readMapSize" => Rest(s, v) = readMapSize(v, s.full, s.arg)
           /\ s.then = "readKeyedStateHandle" =>
                Rest(s, v) = readKeyedStateHandle(v, s.full, s.arg)
           /\ s.then = "readChanges" => Rest(s, v) = readChanges(v, s.full)
  BY Zenon DEF Rest

LEMMA RestOfSkips ==
    ASSUME NEW s, NEW v
    PROVE  /\ s.then = "readOperatorStateEntry" => Rest(s, v) = readOperatorStateEntry
           /\ s.then = "skipOperatorStateEntry" => Rest(s, v) = skipOperatorStateEntry
           /\ s.then = "readOffsets" => Rest(s, v) = readOffsets(v)
           /\ s.then = "skipOffsets" => Rest(s, v) = skipOffsets(v)
           /\ s.then = "readChange" => Rest(s, v) = readChange
           /\ s.then = "skipChange" => Rest(s, v) = skipChange
  BY Zenon DEF Rest

\* Whatever a function adds to the stack in the summary mode, the function that
\* reads in its place adds what this becomes.
LEMMA RestBecomes ==
    ASSUME NEW s \in Symbols, NEW v \in Int, version \in Int,
           s.then = "readSubtaskState" => v \in (-IntMax - 1)..IntMax
    PROVE  Becomes(Rest(s, v), Rest(Unskip(s), v))
<1>1. s.full \in BOOLEAN /\ s.arg \in Int
  BY DEF Symbols
<1>2. CASE s.then \in Modal
  <2>1. /\ Unskip(s).then = s.then
        /\ Unskip(s).full = TRUE
        /\ Unskip(s).arg = s.arg
    <3>1. s.then \notin {"skipOperatorStateEntry", "skipOffsets", "skipChange"}
      BY <1>2 DEF Modal
    <3>2. ReadsFor(s.then) = s.then
      BY <3>1, Zenon DEF ReadsFor
    <3> QED
      BY <3>2, UnskipFields
  <2>2. CASE s.then = "readOperatorStates"
    BY <1>1, <2>1, <2>2, RestOfModal, BecomesCalls
  <2>3. CASE s.then = "readOperatorState"
    BY <1>1, <2>1, <2>3, RestOfModal, BecomesOperator
  <2>4. CASE s.then = "readSubtaskCount"
    BY <1>1, <2>1, <2>4, RestOfModal, BecomesCalls
  <2>5. CASE s.then = "readSubtaskState"
    BY <1>1, <2>1, <2>5, RestOfModal, BecomesSubtask
  <2>6. CASE s.then = "readOptionalOperatorStateHandle"
    BY <1>1, <2>1, <2>6, RestOfModal, BecomesCalls
  <2>7. CASE s.then = "readOperatorStateHandle"
    BY <1>1, <2>1, <2>7, RestOfModal, BecomesCalls
  <2>8. CASE s.then = "readMapSize"
    BY <1>1, <2>1, <2>8, RestOfModal, BecomesMapSize
  <2>9. CASE s.then = "readKeyedStateHandle"
    BY <1>1, <2>1, <2>9, RestOfModal, BecomesKeyedState
  <2>10. CASE s.then = "readChanges"
    BY <1>1, <2>1, <2>10, RestOfModal, BecomesCalls
  <2> QED
    BY <1>2, <2>2, <2>3, <2>4, <2>5, <2>6, <2>7, <2>8, <2>9, <2>10 DEF Modal
<1>3. CASE s.then \in Skips
  <2>1. /\ ReadsFor("skipOperatorStateEntry") = "readOperatorStateEntry"
        /\ ReadsFor("skipOffsets") = "readOffsets"
        /\ ReadsFor("skipChange") = "readChange"
    BY Zenon DEF ReadsFor
  <2>2. Unskip(s).then = ReadsFor(s.then)
    BY UnskipFields
  <2>3. CASE s.then = "skipOperatorStateEntry"
    BY <2>1, <2>2, <2>3, RestOfSkips, BecomesEntries
  <2>4. CASE s.then = "skipOffsets"
    BY <2>1, <2>2, <2>4, RestOfSkips, BecomesEntries
  <2>5. CASE s.then = "skipChange"
    BY <2>1, <2>2, <2>5, RestOfSkips, BecomesEntries
  <2> QED
    BY <1>3, <2>3, <2>4, <2>5 DEF Skips
<1>4. CASE s.then \notin Modal /\ s.then \notin Skips
  BY <1>4, FixedRest, FixedRestUnskip, BecomesFixed
<1> QED
  BY <1>2, <1>3, <1>4

\* A field can say the same things in both modes.
LEMMA SameValues == ASSUME NEW s PROVE Values(Unskip(s)) = Values(s)
<1>1. Unskip(s).then = ReadsFor(s.then) /\ Unskip(s).arg = s.arg
  BY UnskipFields
<1>2. CASE s.then \notin Skips
  <2>1. ReadsFor(s.then) = s.then
    BY <1>2, Zenon DEF ReadsFor, Skips
  <2> QED
    BY <1>1, <2>1, Zenon DEF Values
<1>3. CASE s.then = "skipOffsets"
  <2>1. Unskip(s).then = "readOffsets"
    BY <1>1, <1>3, Zenon DEF ReadsFor
  <2>2. Values(Unskip(s)) = Counts
    BY <2>1, Zenon DEF Values
  <2>3. Values(s) = Counts
    BY <1>3, Zenon DEF Values
  <2> QED
    BY <2>2, <2>3
<1>4. CASE s.then \in {"skipOperatorStateEntry", "skipChange"}
  <2>1. Unskip(s).then \in {"readOperatorStateEntry", "readChange"}
    BY <1>1, <1>4, Zenon DEF ReadsFor
  <2>2. Values(Unskip(s)) = {0}
    BY <2>1, Zenon DEF Values
  <2>3. Values(s) = {0}
    BY <1>4, Zenon DEF Values
  <2> QED
    BY <2>2, <2>3
<1> QED
  BY <1>2, <1>3, <1>4 DEF Skips

LEMMA ValuesType ==
    ASSUME NEW s
    PROVE  /\ Values(s) \subseteq Int
           /\ s.then = "readSubtaskState" => Values(s) \subseteq (-IntMax - 1)..IntMax
<1>1. Values(s) \in
        {{0, 1}, Versions, {0, -1}, {-1, 0, 1}, {-2} \cup Counts,
         (-IntMax - 1)..IntMax, {0, 1, 2}, {0, 4, 17, Unsupported},
         {0, 1, 2, 6, 15, 16, Unsupported}, (1..4) \cup {Unsupported},
         {0, 3, 5, 7, 9, 10, 11, 12, 13, Unsupported}
            \cup (IF s.arg < MaxNesting THEN {8, 14} ELSE {}),
         Counts, {0}}
  BY Zenon DEF Values
<1>2. /\ {0, 1} \subseteq Int
      /\ Versions \subseteq Int
      /\ {0, -1} \subseteq Int
      /\ {-1, 0, 1} \subseteq Int
      /\ {-2} \cup Counts \subseteq Int
      /\ (-IntMax - 1)..IntMax \subseteq Int
      /\ {0, 1, 2} \subseteq Int
      /\ {0, 4, 17, Unsupported} \subseteq Int
      /\ {0, 1, 2, 6, 15, 16, Unsupported} \subseteq Int
      /\ (1..4) \cup {Unsupported} \subseteq Int
      /\ {0, 3, 5, 7, 9, 10, 11, 12, 13, Unsupported}
            \cup (IF s.arg < MaxNesting THEN {8, 14} ELSE {}) \subseteq Int
      /\ Counts \subseteq Int
      /\ {0} \subseteq Int
  BY CountAssumption, VersionsAssumption, IntMaxAssumption DEF Counts, Unsupported
<1>3. Values(s) \subseteq Int
  BY <1>1, <1>2, Zenon
<1>4. s.then = "readSubtaskState" => Values(s) = (-IntMax - 1)..IntMax
  BY Zenon DEF Values
<1> QED
  BY <1>3, <1>4, IntMaxAssumption

-----------------------------------------------------------------------------
(* The stack *)

LastSymbol == Call("readProperties", TRUE, 0)

\* The function that reads the properties stays at the bottom of the stack.
StackInv ==
    /\ todo \in Seq(Symbols)
    /\ version \in Versions \cup {0}
    /\ index \in Index
    /\ properties \subseteq Tokens
    /\ outcome \in {"reading", "error", "parsed"}
    /\ outcome = "reading" => Len(todo) > 0 /\ todo[Len(todo)] = LastSymbol
    /\ outcome # "reading" => todo = <<>>

\* The symbol on top is taken, and others come in its place.
LEMMA Push ==
    ASSUME StackInv, Reading, Top # LastSymbol, NEW rest \in Seq(Symbols)
    PROVE  /\ Top \in Symbols
           /\ Tail(todo) \in Seq(Symbols)
           /\ rest \o Tail(todo) \in Seq(Symbols)
           /\ Len(rest \o Tail(todo)) > 0
           /\ (rest \o Tail(todo))[Len(rest \o Tail(todo))] = LastSymbol
           /\ Len(Tail(todo)) > 0
           /\ Tail(todo)[Len(Tail(todo))] = LastSymbol
<1>1. todo \in Seq(Symbols) /\ Len(todo) > 0 /\ todo[Len(todo)] = LastSymbol
  BY DEF StackInv, Reading
<1>2. todo # <<>> /\ Head(todo) = todo[1]
  BY <1>1
<1>3. Len(todo) > 1
  BY <1>1, <1>2 DEF Top
<1>4. /\ Head(todo) \in Symbols
      /\ Tail(todo) \in Seq(Symbols)
      /\ Len(Tail(todo)) = Len(todo) - 1
      /\ \A i \in 1..Len(Tail(todo)) : Tail(todo)[i] = todo[i + 1]
  BY <1>1, <1>2, HeadTailProperties
<1>5. Len(Tail(todo)) > 0 /\ Tail(todo)[Len(Tail(todo))] = LastSymbol
  BY <1>1, <1>3, <1>4
<1> DEFINE tail == Tail(todo)
<1> HIDE DEF tail
<1>6. tail \in Seq(Symbols) /\ Len(tail) > 0 /\ tail[Len(tail)] = LastSymbol
  BY <1>4, <1>5 DEF tail
<1>7. /\ rest \o tail \in Seq(Symbols)
      /\ Len(rest \o tail) = Len(rest) + Len(tail)
      /\ \A i \in 1..(Len(rest) + Len(tail)) :
            (rest \o tail)[i] = IF i =< Len(rest) THEN rest[i] ELSE tail[i - Len(rest)]
  BY <1>6, ConcatProperties
<1>8. (rest \o tail)[Len(rest \o tail)] = LastSymbol
  BY <1>6, <1>7
<1> QED
  BY <1>4, <1>6, <1>7, <1>8 DEF tail, Top

LEMMA StackInit == Init => StackInv
<1> SUFFICES ASSUME Init PROVE StackInv
  OBVIOUS
<1>1. /\ todo = Parse(ParseFull) /\ version = 0 /\ index = 0 /\ properties = {}
      /\ outcome = "reading"
  BY DEF Init
<1>2. todo \in Seq(Symbols)
  BY <1>1, ModeAssumption, BecomesParse DEF Becomes
<1>3. Len(todo) = 6 /\ todo[6] = LastSymbol
  BY <1>1 DEF Parse, LastSymbol
<1> QED
  BY <1>1, <1>2, <1>3, IntMaxAssumption DEF StackInv, Index

\* A value is read, and what it leads to is put on the stack.
LEMMA ConsumeKeeps ==
    ASSUME StackInv, NEW v, Consume(v), version' \in Versions \cup {0}
    PROVE  /\ StackInv'
           /\ Top # LastSymbol
           /\ Becomes(Rest(Top, v), Rest(Unskip(Top), v))
<1>1. /\ Reading
      /\ Top.reads # "nothing"
      /\ v \in Values(Top)
      /\ todo' = Rest(Top, v) \o Tail(todo)
      /\ UNCHANGED <<index, properties, outcome>>
  BY DEF Consume
<1>2. LastSymbol.reads = "nothing"
  BY DEF LastSymbol, Call, Symbol
<1>3. Top # LastSymbol
  BY <1>1, <1>2
<1>4. Top \in Symbols
  BY <1>1, <1>3, Push, EmptySeq
<1>5. v \in Int /\ (Top.then = "readSubtaskState" => v \in (-IntMax - 1)..IntMax)
  BY <1>1, ValuesType
<1>6. version \in Int
  BY VersionsAssumption DEF StackInv
<1>7. Becomes(Rest(Top, v), Rest(Unskip(Top), v))
  BY <1>4, <1>5, <1>6, RestBecomes
<1>8. Rest(Top, v) \in Seq(Symbols)
  BY <1>7 DEF Becomes
<1>9. /\ todo' \in Seq(Symbols)
      /\ Len(todo') > 0
      /\ todo'[Len(todo')] = LastSymbol
  BY <1>1, <1>3, <1>8, Push
<1>10. LastSymbol' = LastSymbol
  BY DEF LastSymbol, Call, Symbol
<1>11. StackInv'
  BY <1>1, <1>9, <1>10 DEF StackInv, Reading
<1> QED
  BY <1>3, <1>7, <1>11

LEMMA EnterKeeps ==
    ASSUME StackInv, Enter
    PROVE  /\ StackInv'
           /\ Top # LastSymbol
           /\ Becomes(Rest(Top, 0), Rest(Unskip(Top), 0))
<1>1. /\ Reading
      /\ Top.then \notin {"appendOperator", "appendSubtask", "readProperties", "fail"}
      /\ todo' = Rest(Top, 0) \o Tail(todo)
      /\ UNCHANGED <<version, index, properties, outcome>>
  BY DEF Enter
<1>2. Top # LastSymbol
  BY <1>1 DEF LastSymbol, Call, Symbol
<1>3. Top \in Symbols
  BY <1>1, <1>2, Push, EmptySeq
<1>4. version \in Int /\ 0 \in (-IntMax - 1)..IntMax
  BY VersionsAssumption, IntMaxAssumption DEF StackInv
<1>5. Becomes(Rest(Top, 0), Rest(Unskip(Top), 0))
  BY <1>3, <1>4, RestBecomes
<1>6. Rest(Top, 0) \in Seq(Symbols)
  BY <1>5 DEF Becomes
<1>7. /\ todo' \in Seq(Symbols)
      /\ Len(todo') > 0
      /\ todo'[Len(todo')] = LastSymbol
  BY <1>1, <1>2, <1>6, Push
<1>8. LastSymbol' = LastSymbol
  BY DEF LastSymbol, Call, Symbol
<1>9. StackInv'
  BY <1>1, <1>7, <1>8 DEF StackInv, Reading
<1> QED
  BY <1>2, <1>5, <1>9

LEMMA AppendKeeps ==
    ASSUME StackInv, AppendSubtask \/ AppendOperator
    PROVE  StackInv' /\ Top # LastSymbol
<1>1. /\ Reading
      /\ Top.then \in {"appendSubtask", "appendOperator"}
      /\ todo' = Tail(todo)
      /\ index' = index \/ (Top.then = "appendSubtask" /\ index' = Top.arg)
      /\ UNCHANGED <<version, properties, outcome>>
  BY DEF AppendSubtask, AppendOperator
<1>2. Top # LastSymbol
  BY <1>1 DEF LastSymbol, Call, Symbol
<1>3. /\ Top \in Symbols
      /\ Tail(todo) \in Seq(Symbols)
      /\ Len(Tail(todo)) > 0
      /\ Tail(todo)[Len(Tail(todo))] = LastSymbol
  BY <1>1, <1>2, Push, EmptySeq
<1>4. index' \in Index
  BY <1>1, <1>3 DEF Symbols, StackInv
<1>5. LastSymbol' = LastSymbol /\ Index' = Index
  BY DEF LastSymbol, Call, Symbol, Index
<1>6. StackInv'
  BY <1>1, <1>3, <1>4, <1>5 DEF StackInv, Reading
<1> QED
  BY <1>2, <1>6

LEMMA ReturnKeeps ==
    ASSUME StackInv, NEW result \in {"error", "parsed"}, Return(result),
           properties' \subseteq Tokens
    PROVE  StackInv'
<1>1. /\ outcome' = result
      /\ todo' = <<>>
      /\ UNCHANGED <<version, index>>
  BY DEF Return
<1>2. <<>> \in Seq(Symbols)
  BY EmptySeq
<1> QED
  BY <1>1, <1>2 DEF StackInv

LEMMA StackStep == StackInv /\ [Next]_vars => StackInv'
<1> SUFFICES ASSUME StackInv, [Next]_vars PROVE StackInv'
  OBVIOUS
<1>1. ASSUME NEW v \in Values(Top),
             ReadVersion(v) \/ ReadOperatorCount(v) \/ ReadSubtaskCount(v) \/ ReadOther(v)
      PROVE  StackInv'
  <2>1. Consume(v)
    BY <1>1 DEF ReadVersion, ReadOperatorCount, ReadSubtaskCount, ReadOther
  <2>2. CASE ReadVersion(v)
    <3>1. Top.then = "readVersion" /\ version' = v
      BY <2>2 DEF ReadVersion
    <3>2. Values(Top) = Versions
      BY <3>1, Zenon DEF Values
    <3> QED
      BY <1>1, <2>1, <3>1, <3>2, ConsumeKeeps
  <2>3. CASE ReadOperatorCount(v) \/ ReadSubtaskCount(v) \/ ReadOther(v)
    <3>1. version' = version
      BY <2>3 DEF ReadOperatorCount, ReadSubtaskCount, ReadOther
    <3>2. version' \in Versions \cup {0}
      BY <3>1 DEF StackInv
    <3> QED
      BY <2>1, <3>2, ConsumeKeeps
  <2> QED
    BY <1>1, <2>2, <2>3
<1>2. CASE ReadFails \/ Refuse
  <2>1. Return("error") /\ properties' = properties
    BY <1>2 DEF ReadFails, Refuse
  <2>2. properties' \subseteq Tokens
    BY <2>1 DEF StackInv
  <2> QED
    BY <2>1, <2>2, ReturnKeeps
<1>3. CASE Enter
  BY <1>3, EnterKeeps
<1>4. CASE AppendSubtask \/ AppendOperator
  BY <1>4, AppendKeeps
<1>5. ASSUME NEW java \in BOOLEAN, NEW tokens \in SUBSET Tokens, ReadProperties(java, tokens)
      PROVE  StackInv'
  <2>1. Return("parsed") /\ properties' \subseteq Tokens
    BY <1>5 DEF ReadProperties, parseCheckpointProperties
  <2> QED
    BY <2>1, ReturnKeeps
<1>6. CASE UNCHANGED vars
  BY <1>6 DEF vars, StackInv, LastSymbol, Call, Symbol
<1> QED
  BY <1>1, <1>2, <1>3, <1>4, <1>5, <1>6 DEF Next, Step

LEMMA StackInvariant == Spec => []StackInv
<1> QED
  BY StackInit, StackStep, PTL DEF Spec

\* The parser has its type, and no function of the stack is left when it
\* returns nor missing before: Parse and ParseSummary.
THEOREM ParserTypeCorrect == Spec => []TypeOK
<1>1. StackInv => TypeOK
  <2> SUFFICES ASSUME StackInv PROVE TypeOK
    OBVIOUS
  <2>1. index \in Int
    BY IntMaxAssumption DEF StackInv, Index
  <2>2. outcome = "reading" => todo # <<>>
    BY DEF StackInv
  <2> QED
    BY <2>1, <2>2 DEF StackInv, TypeOK
<1> QED
  BY <1>1, StackInvariant, PTL

\* readSubtaskState never gives a subtask an index that is negative or
\* overflows, whatever int32 the file holds.
THEOREM IndexStaysNatural == Spec => []IndexIsNatural
<1>1. StackInv => IndexIsNatural
  BY DEF StackInv, IndexIsNatural, Index
<1> QED
  BY <1>1, StackInvariant, PTL

-----------------------------------------------------------------------------
(* The two modes *)

\* The names that the actions ask for.
Actions == {"readVersion", "readOperatorStates", "readSubtaskCount", "readProperties",
            "fail", "appendOperator", "appendSubtask"}

LEMMA ReadsForSpecial ==
    ASSUME NEW then
    PROVE  \A name \in Actions : ReadsFor(then) = name <=> then = name
  BY Zenon DEF ReadsFor, Actions

\* The symbol on top of the full parser's stack.
LEMMA FullTop ==
    ASSUME StackInv, Reading
    PROVE  /\ Full!Top = Unskip(Top)
           /\ Full!Top.reads = Top.reads
           /\ Full!Top.arg = Top.arg
           /\ Full!Reading
           /\ \A name \in Actions : Full!Top.then = name <=> Top.then = name
           /\ Full!Values(Full!Top) = Values(Top)
           /\ \A v : Full!Rest(Full!Top, v) = Rest(Unskip(Top), v)
<1>1. todo \in Seq(Symbols) /\ Len(todo) > 0
  BY DEF StackInv, Reading
<1>2. /\ Unskipped(todo) \in Seq(Symbols)
      /\ Len(Unskipped(todo)) > 0
      /\ Unskipped(todo)[1] = Unskip(todo[1])
  BY <1>1, UnskippedProperties
<1>3. Head(Unskipped(todo)) = Unskip(Head(todo))
  BY <1>1, <1>2
<1>4. Full!Top = Unskip(Top)
  BY <1>3 DEF Full!Top, Top
<1>5. Full!Values(Full!Top) = Values(Top)
  BY <1>4, SameSymbols, SameValues
<1>6. /\ Full!Top.reads = Top.reads
      /\ Full!Top.arg = Top.arg
      /\ Full!Top.then = ReadsFor(Top.then)
  BY <1>4, UnskipFields
<1>7. \A name \in Actions : Full!Top.then = name <=> Top.then = name
  <2>1. \A name \in Actions : ReadsFor(Top.then) = name <=> Top.then = name
    BY ReadsForSpecial
  <2> QED
    BY <1>6, <2>1
<1>8. \A v : Full!Rest(Full!Top, v) = Rest(Unskip(Top), v)
  BY <1>4, SameRest
<1>9. Full!Reading
  BY DEF Full!Reading, Reading
<1> QED
  BY <1>4, <1>5, <1>6, <1>7, <1>8, <1>9, Zenon

\* Taking the top symbol for what it leads to is the same step for the stack
\* of the full parser.
LEMMA FullPush ==
    ASSUME StackInv, Reading, Top # LastSymbol, NEW a, NEW b, Becomes(a, b),
           todo' = a \o Tail(todo)
    PROVE  Unskipped(todo)' = b \o Tail(Unskipped(todo))
<1>1. /\ todo \in Seq(Symbols) /\ todo # <<>> /\ Len(todo) > 0
      /\ Tail(todo) \in Seq(Symbols)
  BY Push, EmptySeq DEF StackInv, Reading
<1>2. Unskipped(Tail(todo)) = Tail(Unskipped(todo))
  <2> DEFINE x == Unskipped(Tail(todo))
             y == Tail(Unskipped(todo))
  <2>1. /\ Len(Tail(todo)) = Len(todo) - 1
        /\ \A i \in 1..Len(Tail(todo)) : Tail(todo)[i] = todo[i + 1]
    BY <1>1, HeadTailProperties
  <2>2. /\ x \in Seq(Symbols)
        /\ Len(x) = Len(todo) - 1
        /\ \A i \in 1..(Len(todo) - 1) : x[i] = Unskip(todo[i + 1])
    <3>1. /\ x \in Seq(Symbols)
          /\ Len(x) = Len(Tail(todo))
          /\ \A i \in 1..Len(Tail(todo)) : x[i] = Unskip(Tail(todo)[i])
      BY <1>1, UnskippedProperties
    <3> HIDE DEF x
    <3> QED
      BY <2>1, <3>1
  <2>3. /\ Unskipped(todo) \in Seq(Symbols)
        /\ Len(Unskipped(todo)) = Len(todo)
        /\ \A i \in 1..Len(todo) : Unskipped(todo)[i] = Unskip(todo[i])
    BY <1>1, UnskippedProperties
  <2>4. Unskipped(todo) # <<>>
    BY <1>1, <2>3
  <2>5. /\ y \in Seq(Symbols)
        /\ Len(y) = Len(todo) - 1
        /\ \A i \in 1..(Len(todo) - 1) : y[i] = Unskipped(todo)[i + 1]
    BY <2>3, <2>4, HeadTailProperties
  <2>6. \A i \in 1..(Len(todo) - 1) : x[i] = y[i]
    BY <1>1, <2>2, <2>3, <2>5
  <2> HIDE DEF x, y
  <2>7. x = y
    BY <2>2, <2>5, <2>6, SeqEqual
  <2> QED
    BY <2>7 DEF x, y
<1>3. Becomes(Tail(todo), Tail(Unskipped(todo)))
  BY <1>1, <1>2, UnskippedProperties DEF Becomes
<1>4. Becomes(a \o Tail(todo), b \o Tail(Unskipped(todo)))
  BY <1>3, BecomesConcat
<1>5. Unskipped(todo') = b \o Tail(Unskipped(todo))
  BY <1>4 DEF Becomes
<1> QED
  BY <1>5 DEF Unskipped, Unskip, Symbol, ReadsFor

LEMMA FullConsume ==
    ASSUME StackInv, NEW v, Consume(v), version' \in Versions \cup {0}
    PROVE  Full!Consume(v)
<1>1. /\ Reading
      /\ Top.reads # "nothing"
      /\ v \in Values(Top)
      /\ field' = [reads |-> Top.reads, value |-> v]
      /\ todo' = Rest(Top, v) \o Tail(todo)
      /\ UNCHANGED <<index, properties, outcome>>
  BY DEF Consume
<1>2. Top # LastSymbol /\ Becomes(Rest(Top, v), Rest(Unskip(Top), v))
  BY ConsumeKeeps
<1>3. Unskipped(todo)' = Rest(Unskip(Top), v) \o Tail(Unskipped(todo))
  BY <1>1, <1>2, FullPush
<1> QED
  BY <1>1, <1>3, FullTop DEF Full!Consume

LEMMA SamePositive == \A n : Full!Positive(n) = Positive(n)
  BY DEF Full!Positive, Positive

LEMMA FullInit == Init => Full!Init
<1> SUFFICES ASSUME Init PROVE Full!Init
  OBVIOUS
<1>1. Unskipped(Parse(ParseFull)) = Parse(TRUE)
  BY ModeAssumption, BecomesParse DEF Becomes
<1>2. Full!Parse(TRUE) = Parse(TRUE)
  BY SameSymbols DEF Full!Parse, Parse, Full!Int64, Int64
<1> QED
  BY <1>1, <1>2
  DEF Init, Full!Init, Full!NoField, NoField, Full!Nothing, Nothing

LEMMA FullFields ==
    ASSUME StackInv, NEW v \in Values(Top),
           ReadVersion(v) \/ ReadOperatorCount(v) \/ ReadSubtaskCount(v) \/ ReadOther(v)
    PROVE  \/ Full!ReadVersion(v)
           \/ Full!ReadOperatorCount(v)
           \/ Full!ReadSubtaskCount(v)
           \/ Full!ReadOther(v)
<1>1. Consume(v)
  BY DEF ReadVersion, ReadOperatorCount, ReadSubtaskCount, ReadOther
<1>2. version' \in Versions \cup {0}
  BY <1>1, StackStep DEF Next, Step, StackInv, Consume
<1>3. Full!Consume(v)
  BY <1>1, <1>2, FullConsume
<1>4. Reading
  BY <1>1 DEF Consume
<1>5. /\ Full!Top.then = "readVersion" <=> Top.then = "readVersion"
      /\ Full!Top.then = "readOperatorStates" <=> Top.then = "readOperatorStates"
      /\ Full!Top.then = "readSubtaskCount" <=> Top.then = "readSubtaskCount"
  BY <1>4, FullTop DEF Actions
<1>6. CASE ReadVersion(v)
  BY <1>3, <1>5, <1>6 DEF ReadVersion, Full!ReadVersion
<1>7. CASE ReadOperatorCount(v)
  BY <1>3, <1>5, <1>7, SamePositive DEF ReadOperatorCount, Full!ReadOperatorCount
<1>8. CASE ReadSubtaskCount(v)
  BY <1>3, <1>5, <1>8, SamePositive DEF ReadSubtaskCount, Full!ReadSubtaskCount
<1>9. CASE ReadOther(v)
  BY <1>3, <1>5, <1>9 DEF ReadOther, Full!ReadOther
<1> QED
  BY <1>6, <1>7, <1>8, <1>9

LEMMA UnskippedNothing == Unskipped(<<>>) = <<>>
  BY BecomesNothing DEF Becomes

LEMMA FullReturn ==
    ASSUME NEW result, Return(result)
    PROVE  Full!Return(result)
<1>1. Unskipped(todo') = <<>>
  BY UnskippedNothing DEF Return
<1>2. Unskipped(todo)' = <<>>
  BY <1>1 DEF Unskipped, Unskip, Symbol, ReadsFor
<1> QED
  BY <1>2 DEF Return, Full!Return

LEMMA FullStep == StackInv /\ [Next]_vars => [Full!Next]_Full!vars
<1> SUFFICES ASSUME StackInv, [Next]_vars PROVE [Full!Next]_Full!vars
  OBVIOUS
<1>1. CASE UNCHANGED vars
  <2>1. todo' = todo /\ Unskipped(todo') = Unskipped(todo)
    BY <1>1 DEF vars
  <2>2. Unskipped(todo)' = Unskipped(todo)
    BY <2>1 DEF Unskipped, Unskip, Symbol, ReadsFor
  <2> QED
    BY <1>1, <2>2 DEF vars, Full!vars
<1>2. CASE Next
  <2>1. Reading /\ Step
    BY <1>2 DEF Next
  <2>2. Full!Reading /\ Full!Values(Full!Top) = Values(Top) /\ Full!Top.reads = Top.reads
        /\ Full!Top.arg = Top.arg
    BY <2>1, FullTop
  <2>3. \A name \in Actions : Full!Top.then = name <=> Top.then = name
    BY <2>1, FullTop
  <2>4. /\ Full!Top.then = "fail" <=> Top.then = "fail"
        /\ Full!Top.then = "readProperties" <=> Top.then = "readProperties"
        /\ Full!Top.then = "appendSubtask" <=> Top.then = "appendSubtask"
        /\ Full!Top.then = "appendOperator" <=> Top.then = "appendOperator"
    BY <2>3 DEF Actions
  <2>5. ASSUME NEW v \in Values(Top),
               ReadVersion(v) \/ ReadOperatorCount(v) \/ ReadSubtaskCount(v) \/ ReadOther(v)
        PROVE  Full!Step
    BY <2>2, <2>5, FullFields DEF Full!Step
  <2>6. ASSUME ReadFails PROVE Full!Step
    <3>1. Full!Return("error")
      BY <2>6, FullReturn DEF ReadFails
    <3>2. Full!ReadFails
      BY <2>2, <2>4, <2>6, <3>1 DEF ReadFails, Full!ReadFails
    <3> QED
      BY <3>2 DEF Full!Step
  <2>7. ASSUME Refuse PROVE Full!Step
    <3>1. Full!Return("error")
      BY <2>7, FullReturn DEF Refuse
    <3>2. Full!Refuse
      BY <2>2, <2>4, <2>7, <3>1 DEF Refuse, Full!Refuse
    <3> QED
      BY <3>2 DEF Full!Step
  <2>8. ASSUME Enter PROVE Full!Step
    <3>1. Unskipped(todo)' = Rest(Unskip(Top), 0) \o Tail(Unskipped(todo))
      BY <2>1, <2>8, EnterKeeps, FullPush DEF Enter
    <3>2. Full!Rest(Full!Top, 0) = Rest(Unskip(Top), 0)
      BY <2>1, FullTop
    <3>3. Full!Enter
      BY <2>2, <2>4, <2>8, <3>1, <3>2 DEF Enter, Full!Enter
    <3> QED
      BY <3>3 DEF Full!Step
  <2>9. ASSUME AppendSubtask \/ AppendOperator PROVE Full!Step
    <3>1. todo' = Tail(todo) /\ Top # LastSymbol
      BY <2>9, AppendKeeps DEF AppendSubtask, AppendOperator
    <3>2. Tail(todo) \in Seq(Symbols) /\ Unskipped(todo) \in Seq(Symbols)
          /\ Unskipped(todo) # <<>>
      BY <2>1, <3>1, Push, EmptySeq, UnskippedProperties DEF StackInv, Reading
    <3>3. <<>> \o Tail(todo) = Tail(todo)
          /\ <<>> \o Tail(Unskipped(todo)) = Tail(Unskipped(todo))
      BY <3>2, ConcatEmptySeq, HeadTailProperties
    <3>4. Unskipped(todo)' = Tail(Unskipped(todo))
      BY <2>1, <3>1, <3>3, BecomesNothing, FullPush
    <3>5. ASSUME AppendSubtask PROVE Full!AppendSubtask
      BY <2>2, <2>4, <3>4, <3>5 DEF AppendSubtask, Full!AppendSubtask
    <3>6. ASSUME AppendOperator PROVE Full!AppendOperator
      BY <2>2, <2>4, <3>4, <3>6 DEF AppendOperator, Full!AppendOperator
    <3> QED
      BY <2>9, <3>5, <3>6 DEF Full!Step
  <2>10. ASSUME NEW java \in BOOLEAN, NEW tokens \in SUBSET Tokens,
                ReadProperties(java, tokens)
         PROVE  Full!Step
    <3>1. Full!ReadProperties(java, tokens)
      BY <2>2, <2>4, <2>10, FullReturn
      DEF ReadProperties, Full!ReadProperties, parseCheckpointProperties,
          Full!parseCheckpointProperties
    <3>2. Full!Tokens = Tokens
      BY DEF Full!Tokens, Tokens
    <3> QED
      BY <3>1, <3>2 DEF Full!Step
  <2>11. Full!Step
    BY <2>1, <2>5, <2>6, <2>7, <2>8, <2>9, <2>10 DEF Step
  <2> QED
    BY <2>2, <2>11 DEF Full!Next
<1> QED
  BY <1>1, <1>2

\* ParseSummary reads what Parse reads: for files of any format version and
\* any counts and nesting, field by field, with the same result.
THEOREM BothModesReadTheSameFile == Spec => ReadsTheSameFile
<1> QED
  BY FullInit, StackInvariant, FullStep, PTL DEF Spec, ReadsTheSameFile, Full!Spec

-----------------------------------------------------------------------------
(* Counting the symbols of a stack *)

Where(q, names) == {i \in 1..Len(q) : q[i].then \in names}

Number(q, names) == Cardinality(Where(q, names))

LEMMA NumberType ==
    ASSUME NEW q \in Seq(Symbols), NEW names
    PROVE  IsFiniteSet(Where(q, names)) /\ Number(q, names) \in Nat
<1>1. IsFiniteSet(1..Len(q))
  BY FS_Interval
<1>2. IsFiniteSet(Where(q, names))
  BY <1>1, FS_Subset DEF Where
<1> QED
  BY <1>2, FS_CardinalityType DEF Number

LEMMA NumberConcat ==
    ASSUME NEW a \in Seq(Symbols), NEW b \in Seq(Symbols), NEW names
    PROVE  Number(a \o b, names) = Number(a, names) + Number(b, names)
<1> DEFINE moved == {i \in (Len(a) + 1)..(Len(a) + Len(b)) : b[i - Len(a)].then \in names}
           move  == [i \in Where(b, names) |-> i + Len(a)]
<1>1. /\ a \o b \in Seq(Symbols)
      /\ Len(a \o b) = Len(a) + Len(b)
      /\ \A i \in 1..(Len(a) + Len(b)) :
            (a \o b)[i] = IF i =< Len(a) THEN a[i] ELSE b[i - Len(a)]
      /\ Len(a) \in Nat /\ Len(b) \in Nat
  BY ConcatProperties
<1>2. Where(a \o b, names) = Where(a, names) \cup moved
  BY <1>1 DEF Where
<1>3. Where(a, names) \cap moved = {}
  BY <1>1 DEF Where
<1>4. move \in Bijection(Where(b, names), moved)
  <2>1. move \in [Where(b, names) -> moved]
    BY <1>1 DEF Where
  <2>2. \A i, j \in Where(b, names) : move[i] = move[j] => i = j
    BY <1>1 DEF Where
  <2>3. ASSUME NEW k \in moved PROVE \E i \in Where(b, names) : move[i] = k
    <3>1. k - Len(a) \in Where(b, names) /\ move[k - Len(a)] = k
      BY <1>1 DEF Where
    <3> QED
      BY <3>1
  <2> QED
    BY <2>1, <2>2, <2>3, Fun_IsBij
<1>5. ExistsBijection(Where(b, names), moved)
  BY <1>4 DEF ExistsBijection
<1>6. IsFiniteSet(moved) /\ Cardinality(moved) = Number(b, names)
  BY <1>5, NumberType, FS_Bijection DEF Number
<1>7. IsFiniteSet(Where(a, names)) /\ Number(a, names) \in Nat /\ Number(b, names) \in Nat
  BY NumberType
<1> HIDE DEF moved
<1>8. Cardinality(Where(a, names) \cup moved) =
        Cardinality(Where(a, names)) + Cardinality(moved) - Cardinality({})
  BY <1>3, <1>6, <1>7, FS_Union
<1> QED
  BY <1>2, <1>6, <1>7, <1>8, FS_EmptySet DEF Number

LEMMA NumberNone ==
    ASSUME NEW q \in Seq(Symbols), NEW names, \A i \in 1..Len(q) : q[i].then \notin names
    PROVE  Number(q, names) = 0
<1>1. Where(q, names) = {}
  BY DEF Where
<1> QED
  BY <1>1, FS_EmptySet DEF Number

LEMMA NumberAll ==
    ASSUME NEW n \in Nat, NEW s \in Symbols, NEW names, s.then \in names
    PROVE  Number([i \in 1..n |-> s], names) = n
<1>1. Where([i \in 1..n |-> s], names) = 1..n
  BY DEF Where
<1>2. Cardinality(1..n) = IF 1 > n THEN 0 ELSE n - 1 + 1
  BY FS_Interval
<1> QED
  BY <1>1, <1>2 DEF Number

LEMMA NumberOne ==
    ASSUME NEW s \in Symbols, NEW names
    PROVE  Number(<<s>>, names) = IF s.then \in names THEN 1 ELSE 0
<1>1. Where(<<s>>, names) = IF s.then \in names THEN {1} ELSE {}
  BY DEF Where
<1> QED
  BY <1>1, FS_Singleton, FS_EmptySet DEF Number

-----------------------------------------------------------------------------
(* What a symbol adds to the operators and subtasks on the stack *)

OperatorNames == {"readOperatorState", "appendOperator"}

SubtaskNames == {"readSubtaskState", "appendSubtask"}

\* The functions below which no subtask is left to be read.
Outer == {"readOperatorStates", "readOperatorState", "readSubtaskCount", "appendOperator"}

Uncounted == {s \in Symbols : s.then \notin Counted /\ s.then # "readProperties"}

Ordered(q) ==
    \A i, j \in 1..Len(q) :
        i < j /\ q[i].then \in Outer
            => q[j].then \notin SubtaskNames \cup {"readSubtaskCount"}

\* The properties are read last.
LastOnly(q) == \A i \in 1..Len(q) : q[i].then = "readProperties" => i = Len(q)

\* What function s puts on the stack when it goes on with value v.
Adds(s, v, rest) ==
    /\ rest \in Seq(Symbols)
    /\ Ordered(rest)
    /\ \A i \in 1..Len(rest) : rest[i].then # "readProperties"
    /\ \A i \in 1..Len(rest) : rest[i].then \in Outer =>
            /\ rest[i].then # "readOperatorStates"
            /\ s.then \in {"readOperatorStates", "readOperatorState"}
    /\ Number(rest, OperatorNames) =
            IF s.then = "readOperatorStates" THEN Positive(v)
            ELSE IF s.then = "readOperatorState" THEN 1 ELSE 0
    /\ Number(rest, SubtaskNames) =
            IF s.then = "readSubtaskCount" THEN Positive(v)
            ELSE IF s.then = "readSubtaskState" THEN 1 ELSE 0

LEMMA FixedOne ==
    /\ \A a \in Fixed : <<a>> \in Seq(Fixed)
    /\ <<>> \in Seq(Fixed)
    /\ Fail \in Seq(Fixed)
  BY FixedSequences

LEMMA FixedModal ==
    ASSUME NEW n \in Int, NEW kind \in Int
    PROVE  /\ readChanges(n, TRUE) \in Seq(Fixed)
           /\ readOptionalOperatorStateHandle(n, TRUE) \in Seq(Fixed)
           /\ readOperatorStateHandle(n, TRUE) \in Seq(Fixed)
           /\ readMapSize(n, TRUE, kind) \in Seq(Fixed)
           /\ readKeyedStateHandle(n, TRUE, kind) \in Seq(Fixed)
<1>1. /\ Call("readChange", TRUE, 0) \in Fixed
      /\ Call("readOperatorStateEntry", TRUE, 0) \in Fixed
  BY FixedRead DEF Fields, Plain, Names, Skips, Counted
<1>2. /\ Symbol("byte", "readOperatorStateHandle", TRUE, 0) \in Fixed
      /\ Symbol("int32", "readMapSize", TRUE, n) \in Fixed
      /\ Symbol("int32", "readChanges", TRUE, 0) \in Fixed
  <2>1. /\ {"byte", "int32"} \subseteq Fields
        /\ {"readOperatorStateHandle", "readMapSize", "readChanges"}
                \subseteq Plain
        /\ 0 \in Int
    BY DEF Fields, Plain, Names, Skips, Counted
  <2> QED
    BY <2>1, FixedSymbol
<1>3. readChanges(n, TRUE) \in Seq(Fixed)
  BY <1>1, FixedSequences DEF readChanges
<1>4. readOptionalOperatorStateHandle(n, TRUE) \in Seq(Fixed)
  <2>1. <<Symbol("byte", "readOperatorStateHandle", TRUE, 0)>> \in Seq(Fixed)
    BY <1>2, FixedOne
  <2>2. readOptionalOperatorStateHandle(n, TRUE) \in
            {<<>>, <<Symbol("byte", "readOperatorStateHandle", TRUE, 0)>>, Fail}
    BY Zenon DEF readOptionalOperatorStateHandle
  <2> QED
    BY <2>1, <2>2, FixedOne
<1>5. readOperatorStateHandle(n, TRUE) \in Seq(Fixed)
  <2>1. <<Symbol("int32", "readMapSize", TRUE, n)>> \in Seq(Fixed)
    BY <1>2, FixedOne
  <2>2. readOperatorStateHandle(n, TRUE) \in
            {<<>>, <<Symbol("int32", "readMapSize", TRUE, n)>>, Fail}
    BY Zenon DEF readOperatorStateHandle
  <2> QED
    BY <2>1, <2>2, FixedOne
<1>6. readMapSize(n, TRUE, kind) \in Seq(Fixed)
  <2> DEFINE entries == Times(n, Call("readOperatorStateEntry", TRUE, 0))
             merged  == Optional(kind = 17, readFileMergingData)
  <2>1. entries \in Seq(Fixed)
    BY <1>1, FixedSequences
  <2>2. merged \in Seq(Fixed) /\ readDelegateStateHandle \in Seq(Fixed)
    BY FixedFields, FixedTuples DEF Optional, readFileMergingData, readDelegateStateHandle
  <2>3. populateOperatorStateHandle(n, kind) =
            (entries \o merged) \o readDelegateStateHandle
    BY DEF populateOperatorStateHandle
  <2>4. readMapSize(n, TRUE, kind) =
            IF n < 0 THEN Fail ELSE populateOperatorStateHandle(n, kind)
    BY DEF readMapSize
  <2> HIDE DEF entries, merged
  <2>5. populateOperatorStateHandle(n, kind) \in Seq(Fixed)
    BY <2>1, <2>2, <2>3, FixedSequences
  <2> QED
    BY <2>4, <2>5, FixedOne
<1>7. readKeyedStateHandle(n, TRUE, kind) \in Seq(Fixed)
  <2>1. CASE n = 9
    <3>1. readKeyedStateHandle(n, TRUE, kind) = readChangelogByteIncrementHandle(TRUE)
      BY <2>1, SMT DEF readKeyedStateHandle
    <3>2. readChangelogByteIncrementHandle(TRUE) \in Seq(Fixed)
      BY <1>2, FixedFields, FixedTuples DEF readChangelogByteIncrementHandle
    <3> QED
      BY <3>1, <3>2
  <2>2. CASE n # 9
    BY <2>2, FixedKeyedState
  <2> QED
    BY <2>1, <2>2
<1> QED
  BY <1>3, <1>4, <1>5, <1>6, <1>7

\* No function but the counted ones has to do with operators or subtasks.
LEMMA RestUncounted ==
    ASSUME NEW s \in Symbols, NEW v \in Int, version \in Int, s.then \notin Counted
    PROVE  Rest(s, v) \in Seq(Uncounted)
<1> DEFINE rest == Rest(s, v)
           full == Rest(Unskip(s), v)
<1>1. Becomes(rest, full)
  BY RestBecomes DEF Counted
<1>2. full \in Seq(Fixed)
  <2>1. /\ Unskip(s) \in Symbols
        /\ Unskip(s).full = TRUE
        /\ Unskip(s).then = ReadsFor(s.then)
        /\ Unskip(s).arg \in Int
    BY UnskipType, UnskipFields DEF Symbols
  <2>2. Unskip(s).then \notin Skips /\ Unskip(s).then \notin Counted
    BY <2>1, Zenon DEF ReadsFor, Skips, Counted
  <2>3. CASE Unskip(s).then \notin Modal
    BY <2>1, <2>2, <2>3, FixedRest
  <2>4. CASE Unskip(s).then \in Modal
    <3>1. Unskip(s).then \in
            {"readChanges", "readOptionalOperatorStateHandle", "readOperatorStateHandle",
             "readMapSize", "readKeyedStateHandle"}
      BY <2>2, <2>4 DEF Modal, Counted
    <3> QED
      BY <2>1, <3>1, RestOfModal, FixedModal
  <2> QED
    BY <2>3, <2>4
<1> HIDE DEF rest, full
<1>3. /\ rest \in Seq(Symbols)
      /\ Len(full) = Len(rest)
      /\ \A i \in 1..Len(rest) : full[i] = Unskip(rest[i])
  BY <1>1, UnskippedProperties DEF Becomes
<1>4. ASSUME NEW i \in 1..Len(rest)
      PROVE  rest[i] \in Uncounted
  <2>1. full[i] \in Fixed
    BY <1>2, <1>3
  <2>2. ReadsFor(rest[i].then) \notin Counted \cup {"readProperties"}
    BY <1>3, <2>1, UnskipFields DEF Fixed, Plain
  <2>3. rest[i].then \notin Counted /\ rest[i].then # "readProperties"
    BY <2>2, Zenon DEF ReadsFor, Counted
  <2>4. rest[i] \in Symbols
    BY <1>3
  <2> QED
    BY <2>3, <2>4 DEF Uncounted
<1>5. rest \in Seq(Uncounted)
  BY <1>3, <1>4
<1> QED
  BY <1>5 DEF rest

LEMMA FixedUncounted == Seq(Fixed) \subseteq Seq(Uncounted)
<1>1. Fixed \subseteq Uncounted
  BY DEF Fixed, Uncounted, Plain
<1> QED
  BY <1>1, SeqMonotonic

LEMMA UncountedAdds ==
    ASSUME NEW q \in Seq(Uncounted)
    PROVE  /\ q \in Seq(Symbols)
           /\ \A i \in 1..Len(q) : q[i].then \notin Counted /\ q[i].then # "readProperties"
           /\ Number(q, OperatorNames) = 0
           /\ Number(q, SubtaskNames) = 0
<1>1. q \in Seq(Symbols)
  BY SeqMonotonic DEF Uncounted
<1>2. \A i \in 1..Len(q) : q[i].then \notin Counted /\ q[i].then # "readProperties"
  BY DEF Uncounted
<1>3. \A i \in 1..Len(q) : q[i].then \notin OperatorNames /\ q[i].then \notin SubtaskNames
  BY <1>2 DEF Counted, OperatorNames, SubtaskNames
<1> QED
  BY <1>1, <1>2, <1>3, NumberNone

\* A loop over a count.
LEMMA TimesAdds ==
    ASSUME NEW n \in Int, NEW s \in Symbols, NEW names,
           s.then \in names, "fail" \notin names
    PROVE  /\ Times(n, s) \in Seq(Symbols)
           /\ \A i \in 1..Len(Times(n, s)) : Times(n, s)[i].then \in {"fail", s.then}
           /\ Number(Times(n, s), names) = Positive(n)
<1>1. Times(n, s) \in Seq(Symbols)
  BY BecomesTimes DEF Becomes
<1>2. CASE n < 0
  <2>1. Times(n, s) = Fail /\ Positive(n) = 0
    BY <1>2 DEF Times, Positive
  <2>2. \A i \in 1..Len(Fail) : Fail[i].then = "fail"
    BY DEF Fail, Read, Symbol
  <2>3. Number(Fail, names) = 0
    BY <1>1, <2>1, <2>2, NumberNone
  <2> QED
    BY <1>1, <2>1, <2>2, <2>3
<1>3. CASE n >= 0
  <2>1. Times(n, s) = [i \in 1..n |-> s] /\ Positive(n) = n /\ n \in Nat
    BY <1>3 DEF Times, Positive
  <2>2. Number([i \in 1..n |-> s], names) = n
    BY <2>1, NumberAll
  <2>3. \A i \in 1..Len(Times(n, s)) : Times(n, s)[i].then = s.then
    BY <2>1
  <2> QED
    BY <1>1, <2>1, <2>2, <2>3
<1> QED
  BY <1>2, <1>3

LEMMA AddsOperators ==
    ASSUME NEW s \in Symbols, NEW v \in Int, s.then = "readOperatorStates"
    PROVE  Adds(s, v, Rest(s, v))
<1> DEFINE one  == Call("readOperatorState", s.full, 0)
           rest == Times(v, one)
<1>1. one \in Symbols /\ one.then = "readOperatorState"
  BY DEF Call, Symbol, Symbols, Fields, Names
<1>2. Rest(s, v) = rest
  BY RestOfModal DEF readOperatorStates
<1> HIDE DEF one
<1>3. /\ rest \in Seq(Symbols)
      /\ \A i \in 1..Len(rest) : rest[i].then \in {"fail", "readOperatorState"}
      /\ Number(rest, OperatorNames) = Positive(v)
  BY <1>1, TimesAdds DEF OperatorNames
<1> HIDE DEF rest
<1>4. Number(rest, SubtaskNames) = 0
  BY <1>3, NumberNone DEF SubtaskNames
<1>5. Ordered(rest)
  BY <1>3 DEF Ordered, SubtaskNames
<1> QED
  BY <1>2, <1>3, <1>4, <1>5 DEF Adds, Outer

LEMMA AddsSubtasks ==
    ASSUME NEW s \in Symbols, NEW v \in Int, s.then = "readSubtaskCount"
    PROVE  Adds(s, v, Rest(s, v))
<1> DEFINE one  == Symbol("int32", "readSubtaskState", s.full, 0)
           rest == Rest(s, v)
<1>1. one \in Symbols /\ one.then = "readSubtaskState"
  BY DEF Symbol, Symbols, Fields, Names
<1>2. rest = IF v = -1 THEN <<>> ELSE Times(v, one)
  BY RestOfModal DEF readSubtaskCount
<1> HIDE DEF one, rest
<1>3. /\ rest \in Seq(Symbols)
      /\ \A i \in 1..Len(rest) : rest[i].then \in {"fail", "readSubtaskState"}
      /\ Number(rest, SubtaskNames) = Positive(v)
  <2>1. CASE v = -1
    <3>1. rest = <<>> /\ Positive(v) = 0
      BY <1>2, <2>1 DEF Positive
    <3>2. rest \in Seq(Symbols) /\ Len(rest) = 0
      BY <3>1
    <3>3. \A i \in 1..Len(rest) : FALSE
      BY <3>2
    <3>4. Number(rest, SubtaskNames) = 0
      BY <3>2, <3>3, NumberNone
    <3> QED
      BY <3>1, <3>2, <3>3, <3>4
  <2>2. CASE v # -1
    BY <1>1, <1>2, <2>2, TimesAdds DEF SubtaskNames
  <2> QED
    BY <2>1, <2>2
<1>4. Number(rest, OperatorNames) = 0
  BY <1>3, NumberNone DEF OperatorNames
<1>5. Ordered(rest)
  BY <1>3 DEF Ordered, Outer
<1>6. \A i \in 1..Len(rest) : rest[i].then \notin Outer
  BY <1>3 DEF Outer
<1> QED
  BY <1>3, <1>4, <1>5, <1>6 DEF Adds, rest

\* The symbols of one operator: at last its subtasks are counted and it is
\* appended.
LEMMA AddsOperator ==
    ASSUME NEW s \in Symbols, NEW v \in Int, version \in Int,
           s.then = "readOperatorState"
    PROVE  Adds(s, v, Rest(s, v))
<1> DEFINE first == Optional(version >= 5, <<UTF, UTF>>)
                        \o <<Int64, Int64, Int32, Int32>>
                        \o Optional(version >= 3, <<StreamStateHandle>>)
           count == Symbol("int32", "readSubtaskCount", s.full, 0)
           last  == Call("appendOperator", TRUE, 0)
           rest  == Rest(s, v)
<1>1. /\ count \in Symbols /\ count.then = "readSubtaskCount"
      /\ last \in Symbols /\ last.then = "appendOperator"
  BY DEF Call, Symbol, Symbols, Fields, Names
<1>2. rest = first \o <<count, last>>
  BY RestOfModal DEF readOperatorState
<1>3. first \in Seq(Uncounted)
  <2>1. /\ Optional(version >= 5, <<UTF, UTF>>) \in Seq(Fixed)
        /\ <<Int64, Int64, Int32, Int32>> \in Seq(Fixed)
        /\ Optional(version >= 3, <<StreamStateHandle>>) \in Seq(Fixed)
    BY FixedFields, FixedTuples DEF Optional
  <2>2. first \in Seq(Fixed)
    BY <2>1, FixedSequences
  <2> QED
    BY <2>2, FixedUncounted
<1> HIDE DEF first, count, last, rest
<1>4. /\ first \in Seq(Symbols)
      /\ \A i \in 1..Len(first) : first[i].then \notin Counted /\ first[i].then # "readProperties"
      /\ Number(first, OperatorNames) = 0
      /\ Number(first, SubtaskNames) = 0
  BY <1>3, UncountedAdds
<1>5. /\ <<count>> \in Seq(Symbols) /\ <<last>> \in Seq(Symbols)
      /\ <<count, last>> = <<count>> \o <<last>>
  BY <1>1, TupleConcat
<1>6. /\ Number(<<count>>, OperatorNames) = 0 /\ Number(<<last>>, OperatorNames) = 1
      /\ Number(<<count>>, SubtaskNames) = 0 /\ Number(<<last>>, SubtaskNames) = 0
  BY <1>1, NumberOne DEF OperatorNames, SubtaskNames
<1>7. <<count, last>> \in Seq(Symbols)
  BY <1>1
<1>8. /\ Number(rest, OperatorNames) = 1
      /\ Number(rest, SubtaskNames) = 0
  BY <1>2, <1>4, <1>5, <1>6, <1>7, NumberConcat
<1>9. /\ rest \in Seq(Symbols)
      /\ Len(rest) = Len(first) + 2 /\ Len(first) \in Nat
      /\ \A i \in 1..Len(first) : rest[i] = first[i]
      /\ rest[Len(first) + 1] = count
      /\ rest[Len(first) + 2] = last
  BY <1>2, <1>4, <1>7
<1>10. \A i \in 1..Len(rest) :
            /\ rest[i].then \in Outer =>
                    i > Len(first) /\ rest[i].then # "readOperatorStates"
            /\ rest[i].then # "readProperties"
            /\ i > Len(first) + 1 => rest[i].then = "appendOperator"
  BY <1>1, <1>4, <1>9 DEF Outer, Counted
<1>11. Ordered(rest)
  BY <1>9, <1>10 DEF Ordered, SubtaskNames
<1> QED
  BY <1>8, <1>9, <1>10, <1>11 DEF Adds, rest

\* The symbols of one subtask: at last it is appended.
LEMMA AddsSubtask ==
    ASSUME NEW s \in Symbols, NEW v \in (-IntMax - 1)..IntMax, version \in Int,
           s.then = "readSubtaskState"
    PROVE  Adds(s, v, Rest(s, v))
<1> DEFINE optional == Symbol("int32", "readOptionalOperatorStateHandle", s.full, 0)
           keyed    == KeyedStateHandle(s.full, 0)
           channels == readChannelStateHandles(version)
           first    == IF v < 0 THEN <<>>
                       ELSE <<optional, optional, keyed, keyed>> \o channels \o channels
           last     == Call("appendSubtask", TRUE,
                            IF v < 0 THEN FinishedIndex(v, IntMax) ELSE v)
           rest     == Rest(s, v)
<1>1. v \in Int
  BY IntMaxAssumption
<1>2. rest \in Seq(Symbols)
  BY <1>1, RestBecomes DEF Becomes
<1>3. channels \in Seq(Uncounted)
  <2>1. channels \in Seq(Fixed)
    BY FixedChannelState
  <2> QED
    BY <2>1, FixedUncounted
<1>4. optional \in Uncounted /\ keyed \in Uncounted
  BY DEF Symbol, KeyedStateHandle, Uncounted, Symbols, Fields, Names, Counted
<1>5. last.then = "appendSubtask"
  BY DEF Call, Symbol
<1>6. last \in Symbols
  <2>1. (IF v < 0 THEN FinishedIndex(v, IntMax) ELSE v) \in Index
    BY FinishedIndexInRange, IntMaxAssumption DEF Index
  <2> QED
    BY <2>1, IntMaxAssumption DEF Call, Symbol, Symbols, Fields, Names, Index
<1>7. rest = first \o <<last>>
  <2>1. rest = readSubtaskState(version, v, s.full, IntMax)
    BY RestOfModal
  <2>2. CASE v < 0
    <3>1. rest = <<last>>
      BY <2>1, <2>2 DEF readSubtaskState
    <3>2. first = <<>>
      BY <2>2
    <3> HIDE DEF first, last, rest
    <3>3. <<last>> \in Seq({last})
      OBVIOUS
    <3>4. <<>> \o <<last>> = <<last>>
      BY <3>3, ConcatEmptySeq
    <3> QED
      BY <3>1, <3>2, <3>4
  <2>3. CASE v >= 0
    <3>1. readSubtaskState(version, v, s.full, IntMax) =
            <<optional, optional, keyed, keyed>> \o channels \o channels
                \o <<Call("appendSubtask", TRUE, v)>>
      BY <1>1, <2>3 DEF readSubtaskState
    <3>2. ~(v < 0)
      BY <1>1, <2>3
    <3>3. /\ first = <<optional, optional, keyed, keyed>> \o channels \o channels
          /\ last = Call("appendSubtask", TRUE, v)
      BY <3>2, Zenon
    <3> HIDE DEF optional, keyed, channels, first, last, rest
    <3> QED
      BY <2>1, <3>1, <3>3
  <2>4. v < 0 \/ v >= 0
    BY <1>1
  <2> QED
    BY <2>2, <2>3, <2>4, Zenon
<1> HIDE DEF optional, keyed, channels, last, rest
<1>8. first \in Seq(Uncounted)
  <2>1. <<optional, optional, keyed, keyed>> \in Seq(Uncounted)
    BY <1>4
  <2> QED
    BY <1>3, <2>1
<1> HIDE DEF first
<1>9. /\ first \in Seq(Symbols)
      /\ \A i \in 1..Len(first) : first[i].then \notin Counted /\ first[i].then # "readProperties"
      /\ Number(first, OperatorNames) = 0
      /\ Number(first, SubtaskNames) = 0
  BY <1>8, UncountedAdds
<1>10. <<last>> \in Seq(Symbols)
  BY <1>6
<1>11. Number(<<last>>, OperatorNames) = 0 /\ Number(<<last>>, SubtaskNames) = 1
  BY <1>5, <1>6, NumberOne DEF OperatorNames, SubtaskNames
<1>12. Number(rest, OperatorNames) = 0 /\ Number(rest, SubtaskNames) = 1
  <2>1. \A names : Number(first \o <<last>>, names) =
                        Number(first, names) + Number(<<last>>, names)
    BY <1>9, <1>10, NumberConcat
  <2>2. /\ Number(rest, OperatorNames) = 0 + 0
        /\ Number(rest, SubtaskNames) = 0 + 1
    BY <1>7, <1>9, <1>11, <2>1
  <2> QED
    BY <2>2
<1>13. \A i \in 1..Len(rest) : rest[i].then \notin Outer /\ rest[i].then # "readProperties"
  <2>1. /\ Len(rest) = Len(first) + 1 /\ Len(first) \in Nat
        /\ \A i \in 1..Len(first) : rest[i] = first[i]
        /\ rest[Len(first) + 1] = last
    BY <1>7, <1>9, <1>10
  <2> QED
    BY <1>5, <1>9, <2>1 DEF Outer, Counted
<1>14. Ordered(rest)
  BY <1>13 DEF Ordered
<1> QED
  BY <1>2, <1>12, <1>13, <1>14 DEF Adds, rest

LEMMA RestAdds ==
    ASSUME NEW s \in Symbols, NEW v \in Int, version \in Int,
           s.then = "readSubtaskState" => v \in (-IntMax - 1)..IntMax
    PROVE  Adds(s, v, Rest(s, v)) \/ s.then \in {"appendOperator", "appendSubtask"}
<1>1. CASE s.then \notin Counted
  <2> DEFINE rest == Rest(s, v)
  <2>1. rest \in Seq(Uncounted)
    BY <1>1, RestUncounted
  <2> HIDE DEF rest
  <2>2. /\ rest \in Seq(Symbols)
        /\ \A i \in 1..Len(rest) : rest[i].then \notin Counted /\ rest[i].then # "readProperties"
        /\ Number(rest, OperatorNames) = 0
        /\ Number(rest, SubtaskNames) = 0
    BY <2>1, UncountedAdds
  <2>3. \A i \in 1..Len(rest) : rest[i].then \notin Outer
    BY <2>2 DEF Outer, Counted
  <2>4. Ordered(rest)
    BY <2>3 DEF Ordered
  <2> QED
    BY <1>1, <2>2, <2>3, <2>4 DEF Adds, Counted, rest
<1>2. CASE s.then \in Counted
  BY <1>2, AddsOperators, AddsSubtasks, AddsOperator, AddsSubtask DEF Counted
<1> QED
  BY <1>1, <1>2

-----------------------------------------------------------------------------
(* What is announced is built or still on the stack *)

\* The operators are announced once.
Once(q) ==
    \A i, j \in 1..Len(q) :
        i # j /\ q[i].then = "readOperatorStates"
            => q[j].then \notin OperatorNames \cup {"readOperatorStates"}

Announcing(q) == \E i \in 1..Len(q) : q[i].then = "readOperatorStates"

Numbers == [operators : Nat, subtasks : Nat]

CountInv ==
    /\ announced \in Numbers
    /\ built \in Numbers
    /\ outcome # "error" =>
        /\ Ordered(todo)
        /\ Once(todo)
        /\ LastOnly(todo)
        /\ Announcing(todo) => built.operators = 0
        /\ built.operators + Number(todo, OperatorNames) = announced.operators
        /\ built.subtasks + Number(todo, SubtaskNames) = announced.subtasks

\* The symbol on top is taken, and what it adds comes in its place.
LEMMA PushCounts ==
    ASSUME NEW q \in Seq(Symbols), q # <<>>, NEW rest \in Seq(Symbols),
           Ordered(q), Once(q), LastOnly(q), Ordered(rest),
           \A i \in 1..Len(rest) : rest[i].then # "readProperties",
           \A i \in 1..Len(rest) : rest[i].then \in Outer =>
                /\ rest[i].then # "readOperatorStates"
                /\ Head(q).then \in {"readOperatorStates", "readOperatorState"}
    PROVE  LET next == rest \o Tail(q)
           IN  /\ Ordered(next)
               /\ Once(next)
               /\ LastOnly(next)
               /\ Announcing(next) =>
                    Announcing(q) /\ Head(q).then \notin OperatorNames \cup {"readOperatorStates"}
               /\ \A names : Number(next, names) + (IF Head(q).then \in names THEN 1 ELSE 0)
                                = Number(rest, names) + Number(q, names)
               /\ Head(q).then = "readOperatorStates" =>
                    Number(next, OperatorNames) = Number(rest, OperatorNames)
               /\ Head(q).then = "readSubtaskCount" =>
                    Number(next, SubtaskNames) = Number(rest, SubtaskNames)
<1> DEFINE top  == Head(q)
           tail == Tail(q)
           next == rest \o tail
<1>1. /\ top \in Symbols /\ top = q[1]
      /\ tail \in Seq(Symbols)
      /\ Len(q) = Len(tail) + 1
      /\ Len(tail) \in Nat
      /\ \A i \in 1..Len(tail) : tail[i] = q[i + 1]
  BY HeadTailProperties
<1>2. q = <<top>> \o tail
  <2>1. <<top>> \in Seq(Symbols) /\ <<top>> \o tail \in Seq(Symbols)
    BY <1>1
  <2> DEFINE both == <<top>> \o tail
  <2>2. /\ Len(both) = Len(q)
        /\ \A i \in 1..Len(q) : both[i] = q[i]
    BY <1>1, <2>1, ConcatProperties
  <2> HIDE DEF both, top, tail
  <2>3. q = both
    BY <2>1, <2>2, SeqEqual DEF both
  <2> QED
    BY <2>3 DEF both
<1> HIDE DEF top, tail
<1>3. /\ next \in Seq(Symbols)
      /\ Len(next) = Len(rest) + Len(tail)
      /\ Len(rest) \in Nat
      /\ \A i \in 1..Len(rest) : next[i] = rest[i]
      /\ \A i \in (Len(rest) + 1)..Len(next) :
            next[i] = tail[i - Len(rest)] /\ i - Len(rest) \in 1..Len(tail)
  BY <1>1, ConcatProperties
<1> HIDE DEF next
<1>4. \A i \in 1..Len(next) :
        \/ i \in 1..Len(rest) /\ next[i] = rest[i]
        \/ /\ i \in (Len(rest) + 1)..Len(next)
           /\ (i - Len(rest)) + 1 \in 2..Len(q)
           /\ next[i] = q[(i - Len(rest)) + 1]
  <2> TAKE i \in 1..Len(next)
  <2>1. CASE i \in 1..Len(rest)
    BY <1>3, <2>1
  <2>2. CASE i \in (Len(rest) + 1)..Len(next)
    <3>1. next[i] = tail[i - Len(rest)] /\ i - Len(rest) \in 1..Len(tail)
      BY <1>3, <2>2
    <3>2. tail[i - Len(rest)] = q[(i - Len(rest)) + 1]
      BY <1>1, <3>1
    <3>3. (i - Len(rest)) + 1 \in 2..Len(q)
      BY <1>1, <1>3, <3>1
    <3> QED
      BY <2>2, <3>1, <3>2, <3>3
  <2> QED
    BY <1>3, <2>1, <2>2
<1>5. /\ \A i \in 1..Len(rest) : rest[i].then \in Outer => top.then \in Outer
      /\ \A i \in 2..Len(q) :
            top.then \in Outer => q[i].then \notin SubtaskNames \cup {"readSubtaskCount"}
  BY <1>1 DEF Ordered, Outer, top
<1>6. Ordered(next)
  <2> SUFFICES ASSUME NEW i \in 1..Len(next), NEW j \in 1..Len(next), i < j,
                      next[i].then \in Outer
               PROVE  next[j].then \notin SubtaskNames \cup {"readSubtaskCount"}
    BY DEF Ordered
  <2>1. CASE j \in 1..Len(rest)
    BY <1>3, <2>1 DEF Ordered
  <2>2. CASE j \in (Len(rest) + 1)..Len(next) /\ i \in 1..Len(rest)
    <3>1. top.then \in Outer
      BY <1>3, <1>5, <2>2
    <3>2. (j - Len(rest)) + 1 \in 2..Len(q) /\ next[j] = q[(j - Len(rest)) + 1]
      BY <1>3, <1>4, <2>2
    <3> QED
      BY <1>5, <3>1, <3>2
  <2>3. CASE i \in (Len(rest) + 1)..Len(next)
    <3>1. /\ (i - Len(rest)) + 1 \in 2..Len(q) /\ next[i] = q[(i - Len(rest)) + 1]
          /\ (j - Len(rest)) + 1 \in 2..Len(q) /\ next[j] = q[(j - Len(rest)) + 1]
          /\ (i - Len(rest)) + 1 < (j - Len(rest)) + 1
      BY <1>3, <1>4, <2>3
    <3>2. \A k, l \in 2..Len(q) : k < l /\ q[k].then \in Outer
                => q[l].then \notin SubtaskNames \cup {"readSubtaskCount"}
      BY DEF Ordered
    <3> QED
      BY <3>1, <3>2
  <2> QED
    BY <1>3, <2>1, <2>2, <2>3
<1>7. \A i \in 1..Len(next) : next[i].then = "readOperatorStates" =>
            /\ i \in (Len(rest) + 1)..Len(next)
            /\ Announcing(q)
            /\ top.then \notin OperatorNames \cup {"readOperatorStates"}
  <2> SUFFICES ASSUME NEW i \in 1..Len(next), next[i].then = "readOperatorStates"
               PROVE  /\ i \in (Len(rest) + 1)..Len(next)
                      /\ Announcing(q)
                      /\ top.then \notin OperatorNames \cup {"readOperatorStates"}
    OBVIOUS
  <2>1. i \notin 1..Len(rest)
    BY <1>3 DEF Outer
  <2>2. /\ i \in (Len(rest) + 1)..Len(next)
        /\ (i - Len(rest)) + 1 \in 2..Len(q)
        /\ q[(i - Len(rest)) + 1].then = "readOperatorStates"
    BY <1>4, <2>1
  <2>3. PICK k \in 2..Len(q) : q[k].then = "readOperatorStates"
    BY <2>2
  <2>4. Announcing(q)
    BY <2>3 DEF Announcing
  <2>5. top.then \notin OperatorNames \cup {"readOperatorStates"}
    BY <1>1, <2>3 DEF Once
  <2> QED
    BY <2>2, <2>4, <2>5
<1>8. Once(next)
  <2> SUFFICES ASSUME NEW i \in 1..Len(next), NEW j \in 1..Len(next), i # j,
                      next[i].then = "readOperatorStates"
               PROVE  next[j].then \notin OperatorNames \cup {"readOperatorStates"}
    BY DEF Once
  <2>1. /\ i \in (Len(rest) + 1)..Len(next)
        /\ top.then \notin OperatorNames \cup {"readOperatorStates"}
    BY <1>7
  <2>2. CASE j \in 1..Len(rest)
    BY <1>3, <2>1, <2>2 DEF Outer, OperatorNames, top
  <2>3. CASE j \in (Len(rest) + 1)..Len(next)
    <3>1. /\ (i - Len(rest)) + 1 \in 2..Len(q) /\ next[i] = q[(i - Len(rest)) + 1]
          /\ (j - Len(rest)) + 1 \in 2..Len(q) /\ next[j] = q[(j - Len(rest)) + 1]
          /\ (i - Len(rest)) + 1 # (j - Len(rest)) + 1
      BY <1>3, <1>4, <2>1, <2>3
    <3>2. \A k, l \in 2..Len(q) : k # l /\ q[k].then = "readOperatorStates"
                => q[l].then \notin OperatorNames \cup {"readOperatorStates"}
      BY DEF Once
    <3> QED
      BY <3>1, <3>2
  <2> QED
    BY <1>3, <2>2, <2>3
<1>9. ASSUME NEW names
      PROVE  /\ Number(next, names) = Number(rest, names) + Number(tail, names)
             /\ Number(q, names) = (IF top.then \in names THEN 1 ELSE 0) + Number(tail, names)
             /\ Number(rest, names) \in Nat
             /\ Number(tail, names) \in Nat
  <2>1. <<top>> \in Seq(Symbols)
    BY <1>1
  <2>2. Number(<<top>> \o tail, names) = Number(<<top>>, names) + Number(tail, names)
    BY <1>1, <2>1, NumberConcat
  <2>3. Number(next, names) = Number(rest, names) + Number(tail, names)
    BY <1>1, NumberConcat DEF next
  <2> QED
    BY <1>1, <1>2, <2>2, <2>3, NumberOne, NumberType
<1>10. \A i \in 1..Len(tail) : i + 1 \in 2..Len(q) /\ tail[i] = q[i + 1]
  BY <1>1
<1>11. top.then = "readOperatorStates" => Number(tail, OperatorNames) = 0
  <2>1. top.then = "readOperatorStates" =>
            \A i \in 2..Len(q) : q[i].then \notin OperatorNames
    BY <1>1 DEF Once
  <2> QED
    BY <1>1, <1>10, <2>1, NumberNone
<1>12. top.then = "readSubtaskCount" => Number(tail, SubtaskNames) = 0
  <2>1. top.then = "readSubtaskCount" =>
            \A i \in 2..Len(q) : q[i].then \notin SubtaskNames
    BY <1>5 DEF Outer
  <2> QED
    BY <1>1, <1>10, <2>1, NumberNone
<1>13. Announcing(next) =>
            Announcing(q) /\ top.then \notin OperatorNames \cup {"readOperatorStates"}
  BY <1>7 DEF Announcing
<1>14. \A names : Number(next, names) + (IF top.then \in names THEN 1 ELSE 0)
                    = Number(rest, names) + Number(q, names)
  BY <1>9
<1>15. /\ top.then = "readOperatorStates" =>
            Number(next, OperatorNames) = Number(rest, OperatorNames)
       /\ top.then = "readSubtaskCount" =>
            Number(next, SubtaskNames) = Number(rest, SubtaskNames)
  BY <1>9, <1>11, <1>12
<1>16. LastOnly(next)
  <2> SUFFICES ASSUME NEW i \in 1..Len(next), next[i].then = "readProperties"
               PROVE  i = Len(next)
    BY DEF LastOnly
  <2>1. i \notin 1..Len(rest)
    BY <1>3
  <2>2. /\ (i - Len(rest)) + 1 \in 2..Len(q)
        /\ q[(i - Len(rest)) + 1].then = "readProperties"
    BY <1>4, <2>1
  <2>3. \A k \in 2..Len(q) : q[k].then = "readProperties" => k = Len(q)
    BY DEF LastOnly
  <2>4. (i - Len(rest)) + 1 = Len(q)
    BY <2>2, <2>3
  <2> QED
    BY <1>1, <1>3, <2>4
<1> QED
  BY <1>6, <1>8, <1>13, <1>14, <1>15, <1>16 DEF next, top, tail

LEMMA CountInit == Init => CountInv
<1> SUFFICES ASSUME Init PROVE CountInv
  OBVIOUS
<1>1. /\ todo = Parse(ParseFull)
      /\ announced = Nothing /\ built = Nothing /\ outcome = "reading"
  BY DEF Init
<1>2. todo \in Seq(Symbols)
  BY <1>1, StackInit DEF StackInv
<1>3. /\ Len(todo) = 6
      /\ todo[1].then = "checkMagic"
      /\ todo[2].then = "readVersion"
      /\ todo[3].then = "keep"
      /\ todo[4].then = "readMasterStates"
      /\ todo[5].then = "readOperatorStates"
      /\ todo[6].then = "readProperties"
  BY <1>1 DEF Parse, Int64, Read, Call, Symbol
<1>4. \A i \in 1..Len(todo) :
        /\ i # 5 => todo[i].then \in
                {"checkMagic", "readVersion", "keep", "readMasterStates", "readProperties"}
        /\ i = 5 => todo[i].then = "readOperatorStates"
  BY <1>3
<1>5. Ordered(todo) /\ Once(todo)
  BY <1>4 DEF Ordered, Once, Outer, OperatorNames, SubtaskNames
<1>6. LastOnly(todo)
  BY <1>3 DEF LastOnly
<1>7. Number(todo, OperatorNames) = 0 /\ Number(todo, SubtaskNames) = 0
  BY <1>2, <1>4, NumberNone DEF OperatorNames, SubtaskNames
<1>8. /\ announced \in Numbers /\ announced.operators = 0 /\ announced.subtasks = 0
      /\ built \in Numbers /\ built.operators = 0 /\ built.subtasks = 0
  BY <1>1 DEF Nothing, Numbers
<1> QED
  BY <1>5, <1>7, <1>8, <1>6 DEF CountInv

LEMMA Regroup == \A x, y \in Nat : (x + 1) + y = x + (y + 1)
  OBVIOUS

\* A step that takes the symbol on top: what it adds is what the step announces
\* less what the symbol was counted for, or the step builds it.
LEMMA CountPush ==
    ASSUME StackInv, CountInv, Reading, Top # LastSymbol, NEW v, NEW rest,
           Adds(Top, v, rest) \/ Top.then \in {"appendOperator", "appendSubtask"},
           Top.then \in {"appendOperator", "appendSubtask"} => rest = <<>>,
           todo' = rest \o Tail(todo),
           outcome' = outcome,
           announced' = [operators |-> IF Top.then = "readOperatorStates" THEN Positive(v)
                                       ELSE announced.operators,
                         subtasks |-> IF Top.then = "readSubtaskCount" THEN Positive(v)
                                      ELSE announced.subtasks],
           built' = [operators |-> IF Top.then = "appendOperator" THEN built.operators + 1
                                   ELSE built.operators,
                     subtasks |-> IF Top.then = "readSubtaskCount" THEN 0
                                  ELSE IF Top.then = "appendSubtask" THEN built.subtasks + 1
                                  ELSE built.subtasks],
           v \in Int
    PROVE  CountInv'
<1>1. /\ todo \in Seq(Symbols) /\ todo # <<>> /\ Head(todo) = Top
      /\ outcome = "reading"
  BY DEF StackInv, Reading, Top
<1>2. /\ Ordered(todo) /\ Once(todo) /\ LastOnly(todo)
      /\ Announcing(todo) => built.operators = 0
      /\ built.operators + Number(todo, OperatorNames) = announced.operators
      /\ built.subtasks + Number(todo, SubtaskNames) = announced.subtasks
      /\ built.operators \in Nat /\ built.subtasks \in Nat
      /\ announced.operators \in Nat /\ announced.subtasks \in Nat
  BY <1>1 DEF CountInv, Numbers
<1>3. /\ rest \in Seq(Symbols)
      /\ Ordered(rest)
      /\ \A i \in 1..Len(rest) : rest[i].then # "readProperties"
      /\ \A i \in 1..Len(rest) : rest[i].then \in Outer =>
            /\ rest[i].then # "readOperatorStates"
            /\ Top.then \in {"readOperatorStates", "readOperatorState"}
      /\ Number(rest, OperatorNames) =
            IF Top.then = "readOperatorStates" THEN Positive(v)
            ELSE IF Top.then = "readOperatorState" THEN 1 ELSE 0
      /\ Number(rest, SubtaskNames) =
            IF Top.then = "readSubtaskCount" THEN Positive(v)
            ELSE IF Top.then = "readSubtaskState" THEN 1 ELSE 0
  <2>1. CASE Top.then \in {"appendOperator", "appendSubtask"}
    <3>1. rest \in Seq(Symbols) /\ Len(rest) = 0
      BY <2>1, EmptySeq
    <3>2. \A i \in 1..Len(rest) : FALSE
      BY <3>1
    <3>3. \A names : Number(rest, names) = 0
      BY <3>1, <3>2, NumberNone
    <3> QED
      BY <2>1, <3>1, <3>2, <3>3 DEF Ordered
  <2>2. CASE Top.then \notin {"appendOperator", "appendSubtask"}
    BY <2>2 DEF Adds
  <2> QED
    BY <2>1, <2>2
<1> DEFINE next == rest \o Tail(todo)
<1>4. /\ Ordered(next) /\ Once(next) /\ LastOnly(next)
      /\ Announcing(next) =>
            Announcing(todo) /\ Top.then \notin OperatorNames \cup {"readOperatorStates"}
      /\ \A names : Number(next, names) + (IF Top.then \in names THEN 1 ELSE 0)
                        = Number(rest, names) + Number(todo, names)
      /\ Top.then = "readOperatorStates" =>
            Number(next, OperatorNames) = Number(rest, OperatorNames)
      /\ Top.then = "readSubtaskCount" =>
            Number(next, SubtaskNames) = Number(rest, SubtaskNames)
  BY <1>1, <1>2, <1>3, PushCounts
<1>5. next \in Seq(Symbols)
  BY <1>1, <1>3, Push
<1> HIDE DEF next
<1>6. /\ Number(next, OperatorNames) \in Nat /\ Number(next, SubtaskNames) \in Nat
      /\ Number(todo, OperatorNames) \in Nat /\ Number(todo, SubtaskNames) \in Nat
  BY <1>1, <1>5, NumberType
<1>7. Positive(v) \in Nat
  BY DEF Positive
<1>8. announced' \in Numbers /\ built' \in Numbers
  BY <1>2, <1>7 DEF Numbers
<1>9. Announcing(next) => built'.operators = 0
  BY <1>2, <1>4 DEF OperatorNames
<1>10. built.operators \in Nat /\ built.subtasks \in Nat
  BY <1>2
<1>11. Number(next, OperatorNames) \in Nat /\ Number(next, SubtaskNames) \in Nat
  BY <1>6
<1>12. built'.operators + Number(next, OperatorNames) = announced'.operators
  <2>1. CASE Top.then = "readOperatorStates"
    <3>1. Announcing(todo)
      BY <1>1, <2>1 DEF Announcing
    <3> QED
      BY <1>2, <1>3, <1>4, <1>7, <2>1, <3>1
  <2>2. CASE Top.then \in OperatorNames
    <3>1. Number(next, OperatorNames) + 1 = Number(rest, OperatorNames) + Number(todo, OperatorNames)
      BY <1>4, <2>2
    <3>2. announced'.operators = announced.operators
      BY <2>2 DEF OperatorNames
    <3>3. CASE Top.then = "readOperatorState"
      <4>1. Number(rest, OperatorNames) = 1 /\ built'.operators = built.operators
        BY <1>3, <3>3
      <4> QED
        BY <1>2, <1>6, <3>1, <3>2, <4>1
    <3>4. CASE Top.then = "appendOperator"
      <4>1. Number(rest, OperatorNames) = 0 /\ built'.operators = built.operators + 1
        BY <1>3, <3>4
      <4>2. Number(todo, OperatorNames) = Number(next, OperatorNames) + 1
        BY <1>6, <3>1, <4>1
      <4>3. (built.operators + 1) + Number(next, OperatorNames) = built.operators + (Number(next, OperatorNames) + 1)
        BY <1>10, <1>11, Regroup
      <4> QED
        BY <1>2, <3>2, <4>1, <4>2, <4>3
    <3> QED
      BY <2>2, <3>3, <3>4 DEF OperatorNames
  <2>3. CASE Top.then \notin OperatorNames \cup {"readOperatorStates"}
    <3>1. Number(next, OperatorNames) + 0 = Number(rest, OperatorNames) + Number(todo, OperatorNames)
      BY <1>4, <2>3
    <3> QED
      BY <1>2, <1>3, <1>6, <2>3, <3>1 DEF OperatorNames
  <2> QED
    BY <2>1, <2>2, <2>3
<1>13. built'.subtasks + Number(next, SubtaskNames) = announced'.subtasks
  <2>1. CASE Top.then = "readSubtaskCount"
    BY <1>3, <1>4, <1>7, <2>1
  <2>2. CASE Top.then \in SubtaskNames
    <3>1. Number(next, SubtaskNames) + 1 = Number(rest, SubtaskNames) + Number(todo, SubtaskNames)
      BY <1>4, <2>2
    <3>2. announced'.subtasks = announced.subtasks
      BY <2>2 DEF SubtaskNames
    <3>3. CASE Top.then = "readSubtaskState"
      <4>1. Number(rest, SubtaskNames) = 1 /\ built'.subtasks = built.subtasks
        BY <1>3, <3>3
      <4> QED
        BY <1>2, <1>6, <3>1, <3>2, <4>1
    <3>4. CASE Top.then = "appendSubtask"
      <4>1. Number(rest, SubtaskNames) = 0 /\ built'.subtasks = built.subtasks + 1
        BY <1>3, <3>4
      <4>2. Number(todo, SubtaskNames) = Number(next, SubtaskNames) + 1
        BY <1>6, <3>1, <4>1
      <4>3. (built.subtasks + 1) + Number(next, SubtaskNames) = built.subtasks + (Number(next, SubtaskNames) + 1)
        BY <1>10, <1>11, Regroup
      <4> QED
        BY <1>2, <3>2, <4>1, <4>2, <4>3
    <3> QED
      BY <2>2, <3>3, <3>4 DEF SubtaskNames
  <2>3. CASE Top.then \notin SubtaskNames \cup {"readSubtaskCount"}
    <3>1. Number(next, SubtaskNames) + 0 = Number(rest, SubtaskNames) + Number(todo, SubtaskNames)
      BY <1>4, <2>3
    <3> QED
      BY <1>2, <1>3, <1>6, <2>3, <3>1 DEF SubtaskNames
  <2> QED
    BY <2>1, <2>2, <2>3
<1>14. todo' = next
  BY DEF next
<1>15. /\ Ordered(todo') /\ Once(todo') /\ LastOnly(todo')
       /\ Announcing(todo') => built'.operators = 0
       /\ built'.operators + Number(todo', OperatorNames) = announced'.operators
       /\ built'.subtasks + Number(todo', SubtaskNames) = announced'.subtasks
  BY <1>4, <1>9, <1>12, <1>13, <1>14
<1> QED
  BY <1>8, <1>15
  DEF CountInv, Ordered, Once, LastOnly, Announcing, Number, Where, Outer, OperatorNames,
      SubtaskNames, Numbers

LEMMA CountReads ==
    ASSUME StackInv, CountInv, NEW v \in Values(Top),
           ReadVersion(v) \/ ReadOperatorCount(v) \/ ReadSubtaskCount(v) \/ ReadOther(v)
    PROVE  CountInv'
<1>1. Consume(v)
  BY DEF ReadVersion, ReadOperatorCount, ReadSubtaskCount, ReadOther
<1>2. version' \in Versions \cup {0}
  BY <1>1, StackStep DEF Next, Step, StackInv, Consume
<1>3. Top # LastSymbol
  BY <1>1, <1>2, ConsumeKeeps
<1>4. /\ Reading
      /\ Top.reads # "nothing"
      /\ todo' = Rest(Top, v) \o Tail(todo)
      /\ outcome' = outcome
  BY <1>1 DEF Consume
<1>5. Top \in Symbols
  BY <1>3, <1>4, Push, EmptySeq
<1>6. v \in Int /\ (Top.then = "readSubtaskState" => v \in (-IntMax - 1)..IntMax)
  BY ValuesType
<1>7. version \in Int
  BY VersionsAssumption DEF StackInv
<1>8. Top.then \notin {"appendOperator", "appendSubtask"}
  BY <1>4, <1>5 DEF Symbols
<1>9. Adds(Top, v, Rest(Top, v))
  BY <1>5, <1>6, <1>7, <1>8, RestAdds
<1>10. announced \in Numbers /\ built \in Numbers
  BY DEF CountInv
<1>11. announced' = [operators |-> IF Top.then = "readOperatorStates" THEN Positive(v)
                                   ELSE announced.operators,
                     subtasks |-> IF Top.then = "readSubtaskCount" THEN Positive(v)
                                  ELSE announced.subtasks]
  BY <1>10 DEF Numbers, ReadVersion, ReadOperatorCount, ReadSubtaskCount, ReadOther
<1>12. built' = [operators |-> IF Top.then = "appendOperator" THEN built.operators + 1
                               ELSE built.operators,
                 subtasks |-> IF Top.then = "readSubtaskCount" THEN 0
                              ELSE IF Top.then = "appendSubtask" THEN built.subtasks + 1
                              ELSE built.subtasks]
  BY <1>8, <1>10 DEF Numbers, ReadVersion, ReadOperatorCount, ReadSubtaskCount, ReadOther
<1> QED
  BY <1>3, <1>4, <1>6, <1>8, <1>9, <1>11, <1>12, CountPush

LEMMA CountEnter == StackInv /\ CountInv /\ Enter => CountInv'
<1> SUFFICES ASSUME StackInv, CountInv, Enter PROVE CountInv'
  OBVIOUS
<1>0. PICK v \in Int : v = 0
  OBVIOUS
<1>1. /\ Reading
      /\ Top.reads = "nothing"
      /\ Top.then \notin {"appendOperator", "appendSubtask", "readProperties", "fail"}
      /\ todo' = Rest(Top, v) \o Tail(todo)
      /\ UNCHANGED <<announced, built, outcome>>
  BY <1>0 DEF Enter
<1>2. Top # LastSymbol
  BY EnterKeeps
<1>3. Top \in Symbols
  BY <1>1, <1>2, Push, EmptySeq
<1>4. Top.then \notin {"readOperatorStates", "readSubtaskCount"}
  BY <1>1, <1>3 DEF Symbols
<1>5. version \in Int /\ v \in (-IntMax - 1)..IntMax
  BY <1>0, VersionsAssumption, IntMaxAssumption DEF StackInv
<1>6. Adds(Top, v, Rest(Top, v))
  BY <1>1, <1>3, <1>5, RestAdds
<1>7. announced \in Numbers /\ built \in Numbers
  BY DEF CountInv
<1>8. announced' = [operators |-> IF Top.then = "readOperatorStates" THEN Positive(v)
                                  ELSE announced.operators,
                    subtasks |-> IF Top.then = "readSubtaskCount" THEN Positive(v)
                                 ELSE announced.subtasks]
  BY <1>1, <1>4, <1>7 DEF Numbers
<1>9. built' = [operators |-> IF Top.then = "appendOperator" THEN built.operators + 1
                              ELSE built.operators,
                subtasks |-> IF Top.then = "readSubtaskCount" THEN 0
                             ELSE IF Top.then = "appendSubtask" THEN built.subtasks + 1
                             ELSE built.subtasks]
  BY <1>1, <1>4, <1>7 DEF Numbers
<1> QED
  BY <1>0, <1>1, <1>2, <1>6, <1>8, <1>9, CountPush

LEMMA CountAppends == StackInv /\ CountInv /\ (AppendSubtask \/ AppendOperator) => CountInv'
<1> SUFFICES ASSUME StackInv, CountInv, AppendSubtask \/ AppendOperator PROVE CountInv'
  OBVIOUS
<1>0. PICK v \in Int : v = 0
  OBVIOUS
<1>1. /\ Reading
      /\ Top.then \in {"appendOperator", "appendSubtask"}
      /\ todo' = Tail(todo)
      /\ UNCHANGED <<announced, outcome>>
  BY DEF AppendSubtask, AppendOperator
<1>2. Top # LastSymbol
  BY AppendKeeps
<1>3. todo' = <<>> \o Tail(todo)
  BY <1>1, <1>2, Push, EmptySeq, ConcatEmptySeq
<1>4. announced \in Numbers /\ built \in Numbers
  BY DEF CountInv
<1>5. announced' = [operators |-> IF Top.then = "readOperatorStates" THEN Positive(v)
                                  ELSE announced.operators,
                    subtasks |-> IF Top.then = "readSubtaskCount" THEN Positive(v)
                                 ELSE announced.subtasks]
  BY <1>1, <1>4 DEF Numbers
<1>6. built' = [operators |-> IF Top.then = "appendOperator" THEN built.operators + 1
                              ELSE built.operators,
                subtasks |-> IF Top.then = "readSubtaskCount" THEN 0
                             ELSE IF Top.then = "appendSubtask" THEN built.subtasks + 1
                             ELSE built.subtasks]
  BY <1>4 DEF Numbers, AppendSubtask, AppendOperator
<1> QED
  BY <1>0, <1>1, <1>2, <1>3, <1>5, <1>6, CountPush

LEMMA CountReturns ==
    ASSUME StackInv, CountInv, NEW result \in {"error", "parsed"}, Return(result),
           result = "parsed" => Reading /\ Top.then = "readProperties",
           UNCHANGED <<announced, built>>
    PROVE  CountInv'
<1>1. todo' = <<>> /\ outcome' = result
  BY DEF Return
<1>2. announced' \in Numbers /\ built' \in Numbers
  BY DEF CountInv
<1>3. Len(<<>>) = 0 /\ <<>> \in Seq(Symbols)
  BY EmptySeq
<1>4. Ordered(<<>>) /\ Once(<<>>) /\ LastOnly(<<>>) /\ ~Announcing(<<>>)
  BY <1>3 DEF Ordered, Once, LastOnly, Announcing
<1>5. \A names : Number(<<>>, names) = 0
  <2>1. \A i \in 1..Len(<<>>) : FALSE
    BY <1>3
  <2> QED
    BY <1>3, <2>1, NumberNone
<1>6. ASSUME result = "parsed"
      PROVE  /\ built.operators = announced.operators
             /\ built.subtasks = announced.subtasks
  <2>1. /\ todo \in Seq(Symbols) /\ Len(todo) > 0
        /\ todo[1].then = "readProperties"
        /\ outcome = "reading"
    BY <1>6 DEF StackInv, Reading, Top
  <2>2. Len(todo) = 1
    <3>1. LastOnly(todo)
      BY <2>1 DEF CountInv
    <3>2. 1 \in 1..Len(todo)
      BY <2>1
    <3> QED
      BY <2>1, <3>1, <3>2 DEF LastOnly
  <2>3. \A i \in 1..Len(todo) :
            todo[i].then \notin OperatorNames /\ todo[i].then \notin SubtaskNames
    BY <2>1, <2>2 DEF OperatorNames, SubtaskNames
  <2>4. Number(todo, OperatorNames) = 0 /\ Number(todo, SubtaskNames) = 0
    BY <2>1, <2>3, NumberNone
  <2> QED
    BY <2>1, <2>4 DEF CountInv, Numbers
<1>7. result = "parsed" =>
        /\ built.operators + 0 = announced.operators
        /\ built.subtasks + 0 = announced.subtasks
  BY <1>6 DEF CountInv, Numbers
<1>8. outcome' # "error" =>
        /\ Ordered(todo') /\ Once(todo') /\ LastOnly(todo')
        /\ Announcing(todo') => built'.operators = 0
        /\ built'.operators + Number(todo', OperatorNames) = announced'.operators
        /\ built'.subtasks + Number(todo', SubtaskNames) = announced'.subtasks
  BY <1>1, <1>4, <1>5, <1>7
<1> QED
  BY <1>2, <1>8
  DEF CountInv, Ordered, Once, LastOnly, Announcing, Number, Where, Outer, OperatorNames,
      SubtaskNames, Numbers

LEMMA CountStep == StackInv /\ CountInv /\ [Next]_vars => CountInv'
<1> SUFFICES ASSUME StackInv, CountInv, [Next]_vars PROVE CountInv'
  OBVIOUS
<1>1. ASSUME NEW v \in Values(Top),
             ReadVersion(v) \/ ReadOperatorCount(v) \/ ReadSubtaskCount(v) \/ ReadOther(v)
      PROVE  CountInv'
  BY <1>1, CountReads
<1>2. CASE ReadFails \/ Refuse
  <2>1. Return("error") /\ UNCHANGED <<announced, built>>
    BY <1>2 DEF ReadFails, Refuse, Return
  <2> QED
    BY <2>1, CountReturns
<1>3. CASE Enter
  BY <1>3, CountEnter
<1>4. CASE AppendSubtask \/ AppendOperator
  BY <1>4, CountAppends
<1>5. ASSUME NEW java \in BOOLEAN, NEW tokens \in SUBSET Tokens, ReadProperties(java, tokens)
      PROVE  CountInv'
  <2>1. /\ Return("parsed") /\ Reading /\ Top.then = "readProperties"
        /\ UNCHANGED <<announced, built>>
    BY <1>5 DEF ReadProperties, Return
  <2> QED
    BY <2>1, CountReturns
<1>6. CASE UNCHANGED vars
  BY <1>6
  DEF vars, CountInv, Ordered, Once, LastOnly, Announcing, Number, Where, Outer,
      OperatorNames, SubtaskNames, Numbers
<1> QED
  BY <1>1, <1>2, <1>3, <1>4, <1>5, <1>6 DEF Next, Step

\* Every operator and subtask that a file announces is built or still to be
\* read, for files of any version and any counts: readOperatorStates,
\* readOperatorState and readSubtaskState leave none out and add none.
THEOREM NothingStaysUncounted == Spec => []NothingUncounted
<1>1. StackInv /\ CountInv => NothingUncounted
  <2> SUFFICES ASSUME StackInv, CountInv PROVE NothingUncounted
    OBVIOUS
  <2>1. DOMAIN todo = 1..Len(todo)
    BY DEF StackInv
  <2>2. /\ Pending(OperatorNames) = Number(todo, OperatorNames)
        /\ Pending(SubtaskNames) = Number(todo, SubtaskNames)
    BY <2>1 DEF Pending, Number, Where
  <2> QED
    BY <2>2 DEF NothingUncounted, CountInv, OperatorNames, SubtaskNames
<1>2. CountInv /\ StackInv /\ [Next]_vars => CountInv'
  BY CountStep
<1> QED
  BY <1>1, <1>2, CountInit, StackInvariant, PTL DEF Spec
=============================================================================
