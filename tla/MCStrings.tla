------------------------------- MODULE MCStrings -------------------------------
(***************************************************************************)
(* MetadataStrings for TLC.  The units of the short texts lie on both sides *)
(* of every boundary of the encoding; 55296 and 56320 are a pair of         *)
(* surrogates.  The lengths of the paths lie on both sides of 32, the first *)
(* printable character; the first run of Broken ends at a character of two *)
(* bytes.                                                                  *)
(***************************************************************************)
EXTENDS MetadataStrings

Boundaries == {0, 127, 128, 2047, 2048, 55296, 56320, 65535}

ShortTexts == UNION {[1..n -> Boundaries] : n \in 0..2}

Path(n) == <<115, 51, 58, 47, 47>> \o [i \in 1..(n - 5) |-> 97]

Broken == Path(6) \o <<233>> \o Path(7)

MCTexts == ShortTexts \cup {Path(n) : n \in {6, 31, 32, 33}} \cup {Broken}
=============================================================================
