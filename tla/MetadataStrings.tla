---------------------------- MODULE MetadataStrings ----------------------------
(***************************************************************************)
(* The strings of a metadata file, byte by byte: what Java's writeUTF      *)
(* stores, what ReadUTF of backend/internal/checkpoint/reader.go makes of  *)
(* it, and what ParseSummary finds when it scans the bytes it has read,    *)
(* backend/internal/checkpoint/summary_scan.go.  The file is a sequence of *)
(* string fields; it may be cut off, and a length in it may be too small.  *)
(*                                                                         *)
(* A byte is a number, a text a sequence of UTF-16 code units, as in Java, *)
(* and a Go string a sequence of code points.                              *)
(***************************************************************************)
EXTENDS Naturals, SequencesExt

CONSTANTS
    Texts,    \* the texts a field can hold
    Fields    \* bound: the fields of the file

Units == 0..65535   \* of UTF-16

ASSUME FieldsAssumption == Fields \in Nat \ {0}

VARIABLES
    texts,    \* what was written
    length,   \* the length in front of the first field: the right one, or a smaller one
    file,     \* the bytes there are
    offset,   \* how many of them were read; ParseSummary keeps them all
    strings,  \* what ReadUTF returned
    outcome,  \* "reading", "ended", "undecodable" or "scanned"
    inline,   \* the summary's InlineStrings
    paths     \* the summary's StateFilePaths

vars == <<texts, length, file, offset, strings, outcome, inline, paths>>

-----------------------------------------------------------------------------
(* The writer: java.io.DataOutputStream.writeUTF *)

EncodeUnit(c) ==
    CASE c \in 1..127                -> <<c>>
      [] c = 0 \/ c \in 128..2047    -> <<192 + (c \div 64), 128 + (c % 64)>>
      [] c \in 2048..65535           -> <<224 + (c \div 4096), 128 + ((c \div 64) % 64), 128 + (c % 64)>>

Encode(text) == FlattenSeq([i \in DOMAIN text |-> EncodeUnit(text[i])])

Uint16(n) == <<n \div 256, n % 256>>

WriteUTF(text) == Uint16(Len(Encode(text))) \o Encode(text)

\* writeUTF throws a UTFDataFormatException for a text of more bytes.
ASSUME TextsAssumption == \A t \in Texts : t \in Seq(Units) /\ Len(Encode(t)) < 65536

-----------------------------------------------------------------------------
(* The reader *)

NoText == <<65536>>   \* no text has such a unit
NoChar == [size |-> 0, rune |-> 0]

Char(size, rune) == [size |-> size, rune |-> rune]

\* MUTANT: a character of three bytes may lack the last one.
CharShort(buf) ==
    LET b == Head(buf) IN
    CASE b \in 0..127                           -> Char(1, b)
      [] b \in 192..223 /\ Len(buf) >= 2        -> Char(2, (b % 32) * 64 + (buf[2] % 64))
      [] b \in 224..239 /\ Len(buf) = 2         -> Char(2, (b % 16) * 4096 + (buf[2] % 64) * 64)
      [] b \in 224..239 /\ Len(buf) >= 3 ->
            Char(3, (b % 16) * 4096 + (buf[2] % 64) * 64 + (buf[3] % 64))
      [] OTHER                                  -> NoChar

\* MUTANT: the lowest bits of the second byte are not masked off.
CharUnmasked(buf) ==
    LET b == Head(buf) IN
    CASE b \in 0..127                           -> Char(1, b)
      [] b \in 192..223 /\ Len(buf) >= 2        -> Char(2, (b % 32) * 64 + buf[2])
      [] b \in 224..239 /\ Len(buf) >= 3 ->
            Char(3, (b % 16) * 4096 + (buf[2] % 64) * 64 + (buf[3] % 64))
      [] OTHER                                  -> NoChar

\* The first character of a buffer: its first byte says how many it has.  The
\* pair 192, 128 stands for 0, as any other pair does for its bits.
FirstChar(buf) ==
    LET b == Head(buf) IN
    CASE b \in 0..127                           -> Char(1, b)
      [] b \in 192..223 /\ Len(buf) >= 2        -> Char(2, (b % 32) * 64 + (buf[2] % 64))
      [] b \in 224..239 /\ Len(buf) >= 3 ->
            Char(3, (b % 16) * 4096 + (buf[2] % 64) * 64 + (buf[3] % 64))
      [] OTHER                                  -> NoChar

\* string(rune): half of a surrogate pair is no code point.
Rune(r) == IF r \in 55296..57343 THEN 65533 ELSE r

decodeModifiedUTF8(buf) ==
    LET from[i \in 1..(Len(buf) + 1)] ==
            LET c    == FirstChar(SubSeq(buf, i, Len(buf)))
                rest == from[i + c.size]
            IN  IF i > Len(buf) THEN <<>>
                ELSE IF c = NoChar \/ rest = NoText THEN NoText
                ELSE <<Rune(c.rune)>> \o rest
    IN  from[1]

-----------------------------------------------------------------------------
(* The scan *)

Printable(b) == b \in 32..126

uniqueStrings(values) ==
    LET unique[n \in 0..Len(values)] ==
            LET seen == unique[n - 1] IN
            IF n = 0 THEN <<>>
            ELSE IF Contains(seen, values[n]) THEN seen ELSE Append(seen, values[n])
    IN  unique[Len(values)]

\* MUTANT: a run of six bytes is too short.
FlushLonger(scan) ==
    [current |-> <<>>,
     strings |-> IF Len(scan.current) > 6 THEN Append(scan.strings, scan.current)
                 ELSE scan.strings]

\* A run of printable bytes ends.
Flush(scan) ==
    [current |-> <<>>,
     strings |-> IF Len(scan.current) >= 6 THEN Append(scan.strings, scan.current)
                 ELSE scan.strings]

\* The loop over the bytes.
Scan(bytes) ==
    LET scan[n \in 0..Len(bytes)] ==
            LET before == scan[n - 1] IN
            IF n = 0 THEN [current |-> <<>>, strings |-> <<>>]
            ELSE IF Printable(bytes[n])
                 THEN [before EXCEPT !.current = Append(@, bytes[n])]
                 ELSE Flush(before)
    IN  scan[Len(bytes)]

\* MUTANT: the run that ends with the bytes is forgotten.
scanInlineStringsUnflushed(bytes) == uniqueStrings(Scan(bytes).strings)

scanInlineStrings(bytes) == uniqueStrings(Flush(Scan(bytes)).strings)

\* s3://, hdfs://, file:/ and gs://
StatePathPrefixes ==
    {<<115, 51, 58, 47, 47>>, <<104, 100, 102, 115, 58, 47, 47>>,
     <<102, 105, 108, 101, 58, 47>>, <<103, 115, 58, 47, 47>>}

hasStatePathPrefix(s) == \E p \in StatePathPrefixes : IsPrefix(p, s)

extractStateFilePaths(bytes) ==
    LET found == scanInlineStrings(bytes)
        kept  == [i \in DOMAIN found |->
                     IF hasStatePathPrefix(found[i]) THEN <<found[i]>> ELSE <<>>]
    IN  uniqueStrings(FlattenSeq(kept))

-----------------------------------------------------------------------------
(* A file of strings is read *)

\* The file as it was written, but for the length in front.
Image(ts, n) ==
    FlattenSeq([i \in DOMAIN ts |->
                    IF i = 1 THEN Uint16(n) \o Encode(ts[i]) ELSE WriteUTF(ts[i])])

Undamaged == length = Len(Encode(texts[1]))

Init ==
    /\ texts \in [1..Fields -> Texts]
    /\ length \in 0..Len(Encode(texts[1]))
    /\ LET image == Image(texts, length) IN
        \E size \in 0..Len(image) :
            /\ file = SubSeq(image, 1, size)
            /\ Undamaged \/ size = Len(image)
    /\ offset = 0
    /\ strings = <<>>
    /\ outcome = "reading"
    /\ inline = <<>>
    /\ paths = <<>>

Remaining == Len(file) - offset

\* The length of the next field, if the file has it.
NextLength == file[offset + 1] * 256 + file[offset + 2]

FieldIsThere == Remaining >= 2 /\ Remaining >= 2 + NextLength

Reading == outcome = "reading" /\ Len(strings) < Fields

\* The file ends in the length or in the bytes of a string.
FileEnds ==
    /\ Reading
    /\ ~FieldIsThere
    /\ outcome' = "ended"
    /\ UNCHANGED <<texts, length, file, offset, strings, inline, paths>>

ReadUTF ==
    /\ Reading
    /\ FieldIsThere
    /\ LET text == decodeModifiedUTF8(SubSeq(file, offset + 3, offset + 2 + NextLength))
       IN  /\ strings' = IF text = NoText THEN strings ELSE Append(strings, text)
           /\ outcome' = IF text = NoText THEN "undecodable" ELSE outcome
    /\ offset' = offset + 2 + NextLength
    /\ UNCHANGED <<texts, length, file, inline, paths>>

\* ParseSummary scans all bytes once the file is parsed.
ParseSummary ==
    /\ outcome = "reading"
    /\ Len(strings) = Fields
    /\ outcome' = "scanned"
    /\ inline' = scanInlineStrings(file)
    /\ paths' = extractStateFilePaths(file)
    /\ UNCHANGED <<texts, length, file, offset, strings>>

Next ==
    \/ FileEnds
    \/ ReadUTF
    \/ ParseSummary

Spec == Init /\ [][Next]_vars

-----------------------------------------------------------------------------
(* Properties *)

\* What Go makes of a text: a character outside the basic plane is stored as
\* two surrogates, and each of them becomes a replacement character.
Returned(text) == [i \in DOMAIN text |-> Rune(text[i])]

\* All characters of a text are in the basic plane: no unit is a surrogate.
Basic(text) == \A i \in DOMAIN text : text[i] \notin 55296..57343

\* A text of the basic plane is read from an undamaged file exactly as it was
\* written, in its place; no field is refused.  What becomes of the other texts
\* is not what was written, although reader.go:87 calls the result a string of
\* writeUTF: see Returned.
StringsAreWritten ==
    Undamaged =>
        /\ \A i \in DOMAIN strings : Basic(texts[i]) => strings[i] = texts[i]
        /\ outcome # "undecodable"
        /\ outcome = "ended" => file # Image(texts, length)

\* A string that is cut by a wrong length is refused or ends with a whole
\* character: no character is made of half of its bytes, and none is read
\* from beyond the string.
CutsAreNoticed ==
    strings # <<>> =>
        /\ IsPrefix(Head(strings), Returned(texts[1]))
        /\ Len(Encode(SubSeq(texts[1], 1, Len(Head(strings))))) = length

\* The maximal runs of printable bytes of a sequence that have at least six.
LongRuns(bytes) ==
    LET starts == {i \in DOMAIN bytes :
                      Printable(bytes[i]) /\ (i = 1 \/ ~Printable(bytes[i - 1]))}
        ends   == {j \in DOMAIN bytes :
                      Printable(bytes[j]) /\ (j = Len(bytes) \/ ~Printable(bytes[j + 1]))}
    IN  {SubSeq(bytes, run[1], run[2]) :
            run \in {r \in starts \X ends :
                        r[2] >= r[1] + 5 /\ \A n \in r[1]..r[2] : Printable(bytes[n])}}

\* The inline strings are the maximal printable runs of at least six bytes,
\* each of them once.
RunsAreListed ==
    outcome = "scanned" => ToSet(inline) = LongRuns(file) /\ IsInjective(inline)

\* A string is not so long that the higher byte of its length is printable.
Short(text) == Len(Encode(text)) < 32 * 256

\* What the scan sees of such a field: the byte in front of a text, the lower one
\* of its length, may be the code of a printable character.
Seen(text) == <<Len(Encode(text)) % 256>> \o text

\* The state paths are the printable runs of single fields that begin like one.
\* No run goes on in the next field, and no character of several bytes adds to
\* one; but a printable length is taken for the first character of its text, and
\* the path behind it is not listed.
PathsAreListed ==
    outcome = "scanned" /\ Undamaged /\ (\A i \in DOMAIN texts : Short(texts[i])) =>
        ToSet(paths) = {run \in UNION {LongRuns(Seen(texts[i])) : i \in DOMAIN texts} :
                           hasStatePathPrefix(run)}
=============================================================================
