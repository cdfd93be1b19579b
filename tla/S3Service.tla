------------------------------- MODULE S3Service -------------------------------
(***************************************************************************)
(* S3Service (backend/internal/s3_service.go): the loop that lists a        *)
(* "directory" page by page, and the bucket it runs against.               *)
(*                                                                         *)
(* An object's key is <base>/<job>/<name>/<file>; directories exist only   *)
(* as common prefixes of keys.  The base stands for a configured s3:// URI, *)
(* which parseS3URI brings to a form with exactly one slash at its end, so  *)
(* that a path below it is the base followed by its segments.  Segments    *)
(* are numbers in the order in which S3 lists them.                        *)
(*                                                                         *)
(* While a listing runs, Flink creates and deletes objects.  A page is     *)
(* read from the bucket as it is at that moment (S3 is strongly            *)
(* consistent) and goes up to any place; the next one continues there.     *)
(***************************************************************************)
EXTENDS Integers, FiniteSets, SequencesExt

CONSTANTS
    Objects,       \* the objects a bucket may hold
    Bases,         \* the base directories
    Segments,      \* the names of directories, in listing order
    MaxChanges     \* bound: the number of objects written or deleted

Files == {"_metadata", "data"}

ASSUME SegmentsAssumption == Segments \subseteq Nat \ {0} /\ IsFiniteSet(Segments)
ASSUME ObjectsAssumption ==
    Objects \subseteq [base : Bases, job : Segments, name : Segments, file : Files]
ASSUME ChangesAssumption == MaxChanges \in Nat

VARIABLES
    bucket,    \* the objects that exist
    changes,   \* how often the bucket was changed
    token,     \* the continuation token: the segment the last page went up to
    names      \* the directories on the pages read so far

bucketVars  == <<bucket, changes>>
listingVars == <<token, names>>

-----------------------------------------------------------------------------
(* The bucket (external) *)

PutObject(o) ==
    /\ changes < MaxChanges
    /\ o \notin bucket
    /\ bucket' = bucket \cup {o}
    /\ changes' = changes + 1

DeleteObject(o) ==
    /\ changes < MaxChanges
    /\ o \in bucket
    /\ bucket' = bucket \ {o}
    /\ changes' = changes + 1

\* The common prefixes of a base directory and of a job's directory in it.
JobDirectories(b) == {o.job : o \in {p \in bucket : p.base = b}}

EntryDirectories(b, j) == {o.name : o \in {p \in bucket : p.base = b /\ p.job = j}}

\* HeadObject finds the _metadata file of a directory.
MetadataExists(b, j, n) ==
    \E o \in bucket : o.base = b /\ o.job = j /\ o.name = n /\ o.file = "_metadata"

-----------------------------------------------------------------------------
(* listCommonPrefixNames *)

\* The names of a set in listing order, as a sequence.
Increasing(s) == \A i, j \in DOMAIN s : i < j => s[i] < s[j]

InOrder(S) ==
    {s \in [1..Cardinality(S) -> S] : Increasing(s) /\ S = ToSet(s)}

\* Both are local to the loop.
\* MUTANT: the token outlives it.
KeepToken == token' = token /\ names' = <<>>

NoListing == token' = 0 /\ names' = <<>>

\* A page that is truncated.  It goes up to n; that there is no directory on
\* it (S3 counts the objects directly below the prefix as well) is possible.
ReadPage(dirs) ==
    \E n \in Segments :
        /\ token < n
        /\ \E page \in InOrder({d \in dirs : token < d /\ d <= n}) : names' = names \o page
        /\ token' = n

\* What the loop returns after the last page.
\* MUTANT: the request for the last page carries no token.
ListedAgain(dirs) == {names \o page : page \in InOrder(dirs)}

Listed(dirs) == {names \o page : page \in InOrder({d \in dirs : token < d})}
=============================================================================
