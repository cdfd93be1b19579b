-------------------- MODULE HandlerStorageCheckpoints_proofs --------------------
(***************************************************************************)
(* Proofs about HandlerStorageCheckpoints: what the response contains,     *)
(* whatever fails and whatever happens to the bucket meanwhile.            *)
(***************************************************************************)
EXTENDS HandlerStorageCheckpoints, FiniteSetTheorems, TLAPS

-----------------------------------------------------------------------------
(* Sequences of segments *)

LEMMA SegmentsAreNumbers == \A n \in Segments : n \in Nat /\ n > 0
BY SegmentsAssumption

LEMMA OrderedListing ==
    ASSUME NEW S \in SUBSET Segments, NEW s \in InOrder(S)
    PROVE  s \in Seq(Segments) /\ Increasing(s) /\ ToSet(s) = S
<1>1. Cardinality(S) \in Nat
    BY FS_Subset, FS_CardinalityType, SegmentsAssumption
<1> QED BY <1>1 DEF InOrder

\* A page that starts after t continues a listing that ends at t.
LEMMA ContinuedListing ==
    ASSUME NEW a \in Seq(Segments), NEW b \in Seq(Segments), NEW t \in Nat,
           Increasing(a), Increasing(b),
           \A i \in DOMAIN a : a[i] <= t,
           \A i \in DOMAIN b : t < b[i]
    PROVE  /\ a \o b \in Seq(Segments)
           /\ Increasing(a \o b)
           /\ ToSet(a \o b) = ToSet(a) \cup ToSet(b)
<1> DEFINE c == a \o b
<1>1. c \in Seq(Segments) /\ Len(c) = Len(a) + Len(b)
    OBVIOUS
<1>2. \A i \in 1..Len(c) : c[i] = IF i <= Len(a) THEN a[i] ELSE b[i - Len(a)]
    OBVIOUS
<1>3. Increasing(c)
    <2> SUFFICES ASSUME NEW i \in 1..Len(c), NEW j \in 1..Len(c), i < j
                 PROVE  c[i] < c[j]
        BY <1>1 DEF Increasing
    <2>1. CASE j <= Len(a)
        BY <1>2, <2>1 DEF Increasing
    <2>2. CASE Len(a) < i
        <3>1. i - Len(a) \in DOMAIN b /\ j - Len(a) \in DOMAIN b
            BY <1>1, <2>2
        <3> QED BY <1>2, <2>2, <3>1 DEF Increasing
    <2>3. CASE i <= Len(a) /\ Len(a) < j
        <3>1. j - Len(a) \in DOMAIN b /\ i \in DOMAIN a
            BY <1>1, <2>3
        <3>2. a[i] \in Segments /\ b[j - Len(a)] \in Segments
            BY <3>1
        <3>3. a[i] \in Nat /\ b[j - Len(a)] \in Nat
            BY <3>2, SegmentsAssumption
        <3>4. a[i] <= t /\ t < b[j - Len(a)]
            BY <3>1
        <3> QED BY <1>2, <2>3, <3>3, <3>4
    <2> QED BY <1>1, <2>1, <2>2, <2>3
<1>4. ToSet(c) = ToSet(a) \cup ToSet(b)
    <2>1. ASSUME NEW i \in DOMAIN a PROVE a[i] \in ToSet(c)
        <3>1. i \in DOMAIN c /\ c[i] = a[i]
            BY <1>1, <1>2
        <3> QED BY <3>1 DEF ToSet
    <2>2. ASSUME NEW i \in DOMAIN b PROVE b[i] \in ToSet(c)
        <3>1. Len(a) + i \in DOMAIN c /\ c[Len(a) + i] = b[i]
            BY <1>1, <1>2
        <3> QED BY <3>1 DEF ToSet
    <2>3. ASSUME NEW i \in DOMAIN c PROVE c[i] \in ToSet(a) \cup ToSet(b)
        <3>1. CASE i <= Len(a)
            BY <1>1, <1>2, <3>1 DEF ToSet
        <3>2. CASE Len(a) < i
            <4>1. i - Len(a) \in DOMAIN b
                BY <1>1, <3>2
            <4> QED BY <1>1, <1>2, <3>2, <4>1 DEF ToSet
        <3> QED BY <1>1, <3>1, <3>2
    <2>4. ToSet(a) \cup ToSet(b) \subseteq ToSet(c)
        BY <2>1, <2>2 DEF ToSet
    <2>5. ToSet(c) \subseteq ToSet(a) \cup ToSet(b)
        <3> SUFFICES ASSUME NEW x \in ToSet(c) PROVE x \in ToSet(a) \cup ToSet(b)
            OBVIOUS
        <3>1. PICK i \in DOMAIN c : x = c[i]
            BY DEF ToSet
        <3> QED BY <2>3, <3>1
    <2> QED BY <2>4, <2>5
<1> QED BY <1>1, <1>3, <1>4

LEMMA HeadAndTail ==
    ASSUME NEW s \in Seq(Segments), s # <<>>, Increasing(s)
    PROVE  /\ Head(s) \in Segments /\ Tail(s) \in Seq(Segments)
           /\ Increasing(Tail(s))
           /\ \A i \in DOMAIN Tail(s) : Head(s) < Tail(s)[i] /\ Tail(s)[i] \in ToSet(s)
           /\ ToSet(s) = {Head(s)} \cup ToSet(Tail(s))
<1>1. /\ Head(s) \in Segments /\ Tail(s) \in Seq(Segments)
      /\ Head(s) = s[1] /\ Len(s) \in Nat \ {0} /\ Len(Tail(s)) = Len(s) - 1
      /\ \A i \in 1..Len(Tail(s)) : Tail(s)[i] = s[i + 1]
    OBVIOUS
<1>2. Increasing(Tail(s)) /\ \A i \in DOMAIN Tail(s) : Head(s) < Tail(s)[i]
    <2>1. ASSUME NEW i \in 1..Len(Tail(s)) PROVE i + 1 \in DOMAIN s /\ s[1] < s[i + 1]
        BY <1>1 DEF Increasing
    <2> QED BY <1>1, <2>1 DEF Increasing
<1>3. ToSet(s) = {Head(s)} \cup ToSet(Tail(s))
    <2>1. ASSUME NEW i \in DOMAIN s PROVE s[i] = Head(s) \/ s[i] \in ToSet(Tail(s))
        <3>1. CASE i = 1
            BY <1>1, <3>1
        <3>2. CASE i # 1
            <4>1. i - 1 \in DOMAIN Tail(s) /\ Tail(s)[i - 1] = s[i]
                BY <1>1, <3>2
            <4> QED BY <4>1 DEF ToSet
        <3> QED BY <3>1, <3>2
    <2>2. ASSUME NEW i \in DOMAIN Tail(s) PROVE Tail(s)[i] \in ToSet(s)
        BY <1>1 DEF ToSet
    <2>3. Head(s) \in ToSet(s)
        BY <1>1 DEF ToSet
    <2> QED BY <2>1, <2>2, <2>3 DEF ToSet
<1> QED BY <1>1, <1>2, <1>3 DEF ToSet

LEMMA AppendToSet ==
    ASSUME NEW T, NEW s \in Seq(T), NEW x \in T
    PROVE  /\ Append(s, x) \in Seq(T)
           /\ ToSet(Append(s, x)) = ToSet(s) \cup {x}
<1>1. /\ Append(s, x) \in Seq(T) /\ Len(Append(s, x)) = Len(s) + 1
      /\ \A i \in 1..Len(s) : Append(s, x)[i] = s[i]
      /\ Append(s, x)[Len(s) + 1] = x
    OBVIOUS
<1>2. \A i \in DOMAIN Append(s, x) : Append(s, x)[i] \in ToSet(s) \cup {x}
    BY <1>1 DEF ToSet
<1>3. ToSet(s) \cup {x} \subseteq ToSet(Append(s, x))
    BY <1>1 DEF ToSet
<1> QED BY <1>1, <1>2, <1>3 DEF ToSet

-----------------------------------------------------------------------------
(* The inductive invariant *)

ListingPhases == {"jobs", "checkpoints", "savepoints"}

\* What the phases say about the other variables.
Control ==
    /\ phase = "idle" =>
           checkpoints = <<>> /\ savepoints = <<>> /\ lost = {} /\ savepointsLost = FALSE
    /\ phase = "jobs" => checkpoints = <<>>
    /\ phase \in {"checkpoints", "heads"} => job \in Segments
    /\ phase # "respond" => savepoints = <<>>
    /\ phase = "savepoints" => savepointDir # NoBase /\ jobId # NoJob

\* Directories are read, scanned and checked in listing order, so that those
\* of the response come before those that are still to be looked at.
Order ==
    /\ Increasing(names) /\ \A i \in DOMAIN names : names[i] <= token
    /\ Increasing(jobs) /\ Increasing(entries) /\ Increasing(savepoints)
    /\ phase \in {"checkpoints", "heads"} => \A n \in ToSet(jobs) : job < n

EntriesBefore ==
    \A e \in ToSet(checkpoints) :
        /\ phase = "nextJob" => \A n \in ToSet(jobs) : e.jobId < n
        /\ phase = "checkpoints" => e.jobId < job
        /\ phase = "heads" =>
               \/ e.jobId < job
               \/ e.jobId = job /\ \A n \in ToSet(entries) : e.name < n

\* The bucket lies between what was there all the time and what was ever there.
Observed == phase # "idle" => present \subseteq bucket /\ bucket \subseteq seen

\* What was listed of the savepoints so far was there.
SavepointEvidence ==
    phase = "savepoints" =>
        \A n \in ToSet(names) : \E o \in SavepointFiles(seen) : o.name = n

\* A checkpoint that is there all the time is in the response, excused, or
\* still ahead of the scan.
Ahead(e) ==
    \/ e \in ToSet(checkpoints) \/ <<e.jobId, e.name>> \in lost
    \/ phase = "jobs" /\ (e.jobId \in ToSet(names) \/ token < e.jobId)
    \/ phase \in {"nextJob", "checkpoints", "heads"} /\ e.jobId \in ToSet(jobs)
    \/ phase = "checkpoints" /\ e.jobId = job /\ (e.name \in ToSet(names) \/ token < e.name)
    \/ phase = "heads" /\ e.jobId = job /\ e.name \in ToSet(entries)

Coverage == phase # "idle" => \A e \in Entry : Proofs(present, e) # {} => Ahead(e)

SavepointCoverage ==
    /\ phase = "savepoints" =>
           \A o \in SavepointFiles(present) : o.name \in ToSet(names) \/ token < o.name
    /\ phase = "respond" =>
           \A o \in SavepointFiles(present) : o.name \in ToSet(savepoints) \/ savepointsLost

Inv ==
    /\ TypeOK /\ Control /\ Order /\ Observed
    /\ EntriesBefore /\ RowsAreDistinct
    /\ NothingInvented /\ SavepointEvidence
    /\ Coverage /\ SavepointCoverage

-----------------------------------------------------------------------------
(* Listings *)

LEMMA DirectoriesAreSegments ==
    ASSUME TypeOK, phase \in ListingPhases
    PROVE  Directories \in SUBSET Segments
BY ObjectsAssumption
   DEF TypeOK, ListingPhases, Directories, JobDirectories, EntryDirectories

LEMMA PageFacts ==
    ASSUME TypeOK, Order, NextPage
    PROVE  /\ names' \in Seq(Segments) /\ token' \in Nat
           /\ Increasing(names') /\ \A i \in DOMAIN names' : names'[i] <= token'
           /\ ToSet(names) \subseteq ToSet(names')
           /\ ToSet(names') \subseteq ToSet(names) \cup Directories
           /\ \A d \in Directories : token < d => d \in ToSet(names') \/ token' < d
<1> DEFINE Page(n) == {d \in Directories : token < d /\ d <= n}
<1>1. PICK n \in Segments : token < n /\ token' = n
                            /\ \E page \in InOrder(Page(n)) : names' = names \o page
    BY DEF NextPage, ReadPage
<1>2. PICK page \in InOrder(Page(n)) : names' = names \o page
    BY <1>1
<1>3. Directories \in SUBSET Segments
    BY DirectoriesAreSegments DEF NextPage, ListingPhases
<1>4. page \in Seq(Segments) /\ Increasing(page) /\ ToSet(page) = Page(n)
    <2>1. Page(n) \in SUBSET Segments
        BY <1>3
    <2> HIDE DEF Page
    <2> QED BY <1>2, <2>1, OrderedListing
<1>5. \A i \in DOMAIN page : token < page[i] /\ page[i] <= n
    BY <1>4 DEF ToSet
<1>6. /\ names' \in Seq(Segments)
      /\ Increasing(names')
      /\ ToSet(names') = ToSet(names) \cup Page(n)
    <2>1. /\ names \in Seq(Segments) /\ token \in Nat
          /\ Increasing(names) /\ \A i \in DOMAIN names : names[i] <= token
        BY DEF TypeOK, Order
    <2>2. /\ page \in Seq(Segments) /\ Increasing(page)
          /\ \A i \in DOMAIN page : token < page[i]
        BY <1>4, <1>5
    <2> HIDE DEF Page
    <2>3. /\ names \o page \in Seq(Segments) /\ Increasing(names \o page)
          /\ ToSet(names \o page) = ToSet(names) \cup ToSet(page)
        BY <2>1, <2>2, ContinuedListing
    <2> QED BY <1>2, <1>4, <2>3
<1>7. n \in Nat /\ token \in Nat /\ token < n
    BY <1>1, SegmentsAssumption DEF TypeOK
<1>8. \A x \in ToSet(names') : x <= n
    <2>1. \A x \in ToSet(names) : x <= token /\ x \in Segments
        BY DEF Order, TypeOK, ToSet
    <2>2. \A x \in ToSet(names) : x <= n
        <3> SUFFICES ASSUME NEW x \in ToSet(names) PROVE x <= n
            OBVIOUS
        <3>1. x \in Nat /\ x <= token
            BY <2>1, SegmentsAreNumbers
        <3> QED BY <3>1, <1>7
    <2> QED BY <1>6, <2>2
<1>9. \A i \in DOMAIN names' : names'[i] <= n
    BY <1>8 DEF ToSet
<1>10. ASSUME NEW d \in Directories, token < d PROVE d \in ToSet(names') \/ n < d
    BY <1>3, <1>6, <1>7, <1>10, SegmentsAssumption
<1> QED BY <1>1, <1>6, <1>7, <1>9, <1>10

LEMMA ListedFacts ==
    ASSUME TypeOK, Order, phase \in ListingPhases, NEW all \in Listed(Directories)
    PROVE  /\ all \in Seq(Segments) /\ Increasing(all)
           /\ ToSet(names) \subseteq ToSet(all)
           /\ ToSet(all) \subseteq ToSet(names) \cup Directories
           /\ \A d \in Directories : token < d => d \in ToSet(all)
<1> DEFINE Rest == {d \in Directories : token < d}
<1>1. PICK page \in InOrder(Rest) : all = names \o page
    BY DEF Listed
<1>2. Rest \in SUBSET Segments
    BY DirectoriesAreSegments
<1>3. page \in Seq(Segments) /\ Increasing(page) /\ ToSet(page) = Rest
    <2> HIDE DEF Rest
    <2> QED BY <1>1, <1>2, OrderedListing
<1>4. \A i \in DOMAIN page : token < page[i]
    BY <1>3 DEF ToSet
<1>5. /\ names \in Seq(Segments) /\ token \in Nat
      /\ Increasing(names) /\ \A i \in DOMAIN names : names[i] <= token
    BY DEF TypeOK, Order
<1> HIDE DEF Rest
<1>6. /\ names \o page \in Seq(Segments) /\ Increasing(names \o page)
      /\ ToSet(names \o page) = ToSet(names) \cup ToSet(page)
    BY <1>3, <1>4, <1>5, ContinuedListing
<1> USE DEF Rest
<1> QED BY <1>1, <1>3, <1>6

-----------------------------------------------------------------------------
(* Steps *)

\* HandlerStep and Next, action by action.
LEMMA Steps ==
    ASSUME [Next]_vars
    PROVE  \/ \E c, s \in Bases \cup {NoBase}, id \in JobIds \cup {NoJob} :
                  GetStorageCheckpoints(c, s, id)
           \/ Respond \/ NextPage
           \/ JobsListed \/ JobsFail \/ NextJob \/ AllJobsScanned
           \/ CheckpointsListed \/ CheckpointsFail
           \/ SkipOtherDirectory \/ HeadMetadata \/ HeadFails \/ JobScanned
           \/ SavepointsListed \/ SavepointsFail
           \/ BucketChanges
           \/ UNCHANGED vars
BY DEF Next, HandlerStep

LEMMA TypeStep ==
    ASSUME TypeOK, Control, Order, [Next]_vars
    PROVE  TypeOK'
<1> USE DEF TypeOK, Phases, bucketVars, listingVars, request, scan, response,
            observed, failures, AfterCheckpoints, NoListing
<1>1. ASSUME NEW c \in Bases \cup {NoBase}, NEW s \in Bases \cup {NoBase},
             NEW id \in JobIds \cup {NoJob}, GetStorageCheckpoints(c, s, id)
      PROVE  TypeOK'
    <2>1. phase' \in {"jobs", "savepoints", "respond"} /\ token = 0 /\ names = <<>>
        BY <1>1 DEF GetStorageCheckpoints
    <2>2. bucket' \subseteq Objects /\ present' \subseteq Objects /\ seen' \subseteq Objects
        BY <1>1 DEF GetStorageCheckpoints
    <2> QED BY <1>1, <2>1, <2>2 DEF GetStorageCheckpoints
<1>2. CASE Respond
    <2>1. jobs' \in Seq(Segments) /\ entries' \in Seq(Segments) /\ job' \in Segments \cup {0}
        BY <1>2 DEF Respond
    <2>2. checkpoints' \in Seq(Entry) /\ savepoints' \in Seq(Segments)
        BY <1>2 DEF Respond
    <2>3. /\ present' \subseteq Objects /\ seen' \subseteq Objects
          /\ lost' \subseteq Segments \X Segments /\ savepointsLost' \in BOOLEAN
        BY <1>2 DEF Respond
    <2>4. token' = 0 /\ names' = <<>> /\ names' \in Seq(Segments)
        BY <1>2 DEF Respond
    <2> QED BY <1>2, <2>1, <2>2, <2>3, <2>4 DEF Respond
<1>3. CASE NextPage
    <2>1. names' \in Seq(Segments) /\ token' \in Nat
        BY <1>3, PageFacts
    <2> QED BY <1>3, <2>1 DEF NextPage
<1>4. CASE JobsListed
    <2>1. jobs' \in Seq(Segments)
        BY <1>4, ListedFacts DEF JobsListed, ListingPhases
    <2> QED BY <1>4, <2>1 DEF JobsListed
<1>5. CASE JobsFail
    BY <1>5 DEF JobsFail
<1>6. CASE NextJob
    <2>1. Head(jobs) \in Segments /\ Tail(jobs) \in Seq(Segments)
        BY <1>6, HeadAndTail DEF NextJob, Order
    <2> QED BY <1>6, <2>1 DEF NextJob
<1>7. CASE AllJobsScanned
    BY <1>7 DEF AllJobsScanned
<1>8. CASE CheckpointsListed
    <2>1. entries' \in Seq(Segments)
        BY <1>8, ListedFacts DEF CheckpointsListed, ListingPhases
    <2> QED BY <1>8, <2>1 DEF CheckpointsListed
<1>9. CASE CheckpointsFail
    <2>1. job \in Segments
        BY <1>9 DEF CheckpointsFail, Control
    <2> QED BY <1>9, <2>1 DEF CheckpointsFail
<1>10. ASSUME SkipOtherDirectory \/ HeadMetadata \/ HeadFails PROVE TypeOK'
    <2>1. job \in Segments /\ entries # <<>> /\ phase = "heads"
        BY <1>10 DEF SkipOtherDirectory, HeadMetadata, HeadFails, Control
    <2>2. Head(entries) \in Segments /\ Tail(entries) \in Seq(Segments)
        BY <2>1, HeadAndTail DEF Order
    <2>3. CASE SkipOtherDirectory
        BY <2>2, <2>3 DEF SkipOtherDirectory
    <2>4. CASE HeadMetadata
        <3>1. [jobId |-> job, name |-> Head(entries)] \in Entry
            BY <2>1, <2>2 DEF Entry
        <3>2. checkpoints' \in Seq(Entry)
            BY <2>4, <3>1, AppendToSet DEF HeadMetadata
        <3> QED BY <2>2, <2>4, <3>2 DEF HeadMetadata
    <2>5. CASE HeadFails
        BY <2>1, <2>2, <2>5 DEF HeadFails
    <2> QED BY <1>10, <2>3, <2>4, <2>5
<1>11. CASE JobScanned
    BY <1>11 DEF JobScanned
<1>12. CASE SavepointsListed
    <2>1. savepoints' \in Seq(Segments)
        BY <1>12, ListedFacts DEF SavepointsListed, ListingPhases
    <2> QED BY <1>12, <2>1 DEF SavepointsListed
<1>13. CASE SavepointsFail
    BY <1>13 DEF SavepointsFail
<1>14. CASE BucketChanges
    <2>1. bucket' \subseteq Objects /\ changes' \in Nat
        BY <1>14, ChangesAssumption DEF BucketChanges, PutObject, DeleteObject
    <2> QED BY <1>14, <2>1 DEF BucketChanges
<1>15. CASE UNCHANGED vars
    BY <1>15 DEF vars
<1> QED BY <1>1, <1>2, <1>3, <1>4, <1>5, <1>6, <1>7, <1>8, <1>9, <1>10, <1>11,
           <1>12, <1>13, <1>14, <1>15, Steps

LEMMA ControlStep ==
    ASSUME TypeOK, Control, Order, [Next]_vars
    PROVE  Control'
<1>1. jobs # <<>> => Head(jobs) \in Segments
    BY HeadAndTail DEF TypeOK, Order
<1> QED BY <1>1, Steps
    DEF Control, AfterCheckpoints, GetStorageCheckpoints, Respond, NextPage, JobsListed,
        JobsFail, NextJob, AllJobsScanned, CheckpointsListed, CheckpointsFail,
        SkipOtherDirectory, HeadMetadata, HeadFails, JobScanned, SavepointsListed,
        SavepointsFail, BucketChanges, vars, bucketVars, listingVars, request, scan,
        response, observed, failures

LEMMA ObservedStep ==
    ASSUME Observed, [Next]_vars
    PROVE  Observed'
BY Steps
DEF Observed, AfterCheckpoints, GetStorageCheckpoints, Respond, NextPage, JobsListed,
    JobsFail, NextJob, AllJobsScanned, CheckpointsListed, CheckpointsFail,
    SkipOtherDirectory, HeadMetadata, HeadFails, JobScanned, SavepointsListed,
    SavepointsFail, BucketChanges, vars, bucketVars, listingVars, request, scan,
    response, observed, failures

LEMMA OrderStep ==
    ASSUME TypeOK, Control, Order, [Next]_vars
    PROVE  Order'
<1> USE DEF bucketVars, listingVars, request, scan, response, observed, failures
<1>1. CASE NextPage
    <2>1. Increasing(names') /\ \A i \in DOMAIN names' : names'[i] <= token'
        BY <1>1, PageFacts
    <2> QED BY <1>1, <2>1 DEF NextPage, Order
<1>2. CASE JobsListed
    <2>1. Increasing(jobs')
        BY <1>2, ListedFacts DEF JobsListed, ListingPhases
    <2> QED BY <1>2, <2>1 DEF JobsListed, Order, NoListing, Increasing
<1>3. CASE NextJob
    <2>1. Increasing(Tail(jobs)) /\ \A i \in DOMAIN Tail(jobs) : Head(jobs) < Tail(jobs)[i]
        BY <1>3, HeadAndTail DEF NextJob, TypeOK, Order
    <2>2. \A n \in ToSet(Tail(jobs)) : Head(jobs) < n
        BY <2>1 DEF ToSet
    <2> QED BY <1>3, <2>1, <2>2 DEF NextJob, Order
<1>4. CASE CheckpointsListed
    <2>1. Increasing(entries')
        BY <1>4, ListedFacts DEF CheckpointsListed, ListingPhases
    <2> QED BY <1>4, <2>1 DEF CheckpointsListed, Order, NoListing, Increasing
<1>5. CASE SkipOtherDirectory \/ HeadMetadata \/ HeadFails
    <2>1. Increasing(Tail(entries))
        BY <1>5, HeadAndTail DEF SkipOtherDirectory, HeadMetadata, HeadFails, TypeOK, Order
    <2> QED BY <1>5, <2>1 DEF SkipOtherDirectory, HeadMetadata, HeadFails, Order
<1>6. CASE SavepointsListed
    <2>1. Increasing(savepoints')
        BY <1>6, ListedFacts DEF SavepointsListed, ListingPhases
    <2> QED BY <1>6, <2>1 DEF SavepointsListed, Order, NoListing, Increasing
<1>7. CASE Respond
    BY <1>7 DEF Respond, Order, Increasing
<1>8. CASE JobsFail \/ CheckpointsFail \/ SavepointsFail
    BY <1>8 DEF JobsFail, CheckpointsFail, SavepointsFail, Order, NoListing, Increasing,
                AfterCheckpoints
<1>9. ASSUME NEW c \in Bases \cup {NoBase}, NEW s \in Bases \cup {NoBase},
             NEW id \in JobIds \cup {NoJob}, GetStorageCheckpoints(c, s, id)
      PROVE  Order'
    BY <1>9 DEF GetStorageCheckpoints, AfterCheckpoints, Order
<1>10. CASE AllJobsScanned \/ JobScanned \/ BucketChanges \/ UNCHANGED vars
    BY <1>10 DEF AllJobsScanned, JobScanned, BucketChanges, vars, AfterCheckpoints, Order
<1> QED BY <1>1, <1>2, <1>3, <1>4, <1>5, <1>6, <1>7, <1>8, <1>9, <1>10, Steps

LEMMA EntriesStep ==
    ASSUME TypeOK, Control, Order, EntriesBefore, [Next]_vars
    PROVE  EntriesBefore'
<1> USE DEF bucketVars, listingVars, request, scan, response, observed, failures
<1>1. CASE NextPage
    BY <1>1 DEF NextPage, EntriesBefore
<1>2. CASE JobsListed
    BY <1>2 DEF JobsListed, Control, EntriesBefore, ToSet
<1>3. CASE NextJob
    <2>1. Head(jobs) \in ToSet(jobs)
        BY <1>3, HeadAndTail DEF NextJob, TypeOK, Order
    <2> QED BY <1>3, <2>1 DEF NextJob, EntriesBefore
<1>4. CASE CheckpointsListed
    BY <1>4 DEF CheckpointsListed, EntriesBefore
<1>5. CASE CheckpointsFail \/ JobScanned
    <2> SUFFICES ASSUME NEW e \in ToSet(checkpoints), NEW n \in ToSet(jobs)
                 PROVE  e.jobId < n
        BY <1>5 DEF CheckpointsFail, JobScanned, EntriesBefore
    <2>1. e.jobId < job \/ e.jobId = job
        BY <1>5 DEF CheckpointsFail, JobScanned, EntriesBefore
    <2>2. job < n
        BY <1>5 DEF CheckpointsFail, JobScanned, Order
    <2>3. job \in Nat /\ n \in Nat
        BY <1>5, SegmentsAreNumbers DEF CheckpointsFail, JobScanned, Control, TypeOK, ToSet
    <2>4. e.jobId \in Nat
        <3>1. checkpoints \in Seq(Entry)
            BY DEF TypeOK
        <3>2. e \in Entry
            BY <3>1 DEF ToSet
        <3> QED BY <3>2, SegmentsAreNumbers DEF Entry
    <2> QED BY <2>1, <2>2, <2>3, <2>4
<1>6. CASE SkipOtherDirectory \/ HeadMetadata \/ HeadFails
    <2> DEFINE e0 == [jobId |-> job, name |-> Head(entries)]
    <2>1. phase = "heads" /\ phase' = "heads" /\ entries # <<>> /\ entries' = Tail(entries)
          /\ job' = job
        BY <1>6 DEF SkipOtherDirectory, HeadMetadata, HeadFails
    <2>2. /\ ToSet(Tail(entries)) \subseteq ToSet(entries)
          /\ \A n \in ToSet(Tail(entries)) : Head(entries) < n
          /\ Head(entries) \in Segments
        BY <2>1, HeadAndTail DEF TypeOK, Order, ToSet
    <2>3. ToSet(checkpoints') \subseteq ToSet(checkpoints) \cup {e0}
        <3>1. e0 \in Entry
            BY <2>1, <2>2 DEF Control, Entry
        <3>2. ToSet(Append(checkpoints, e0)) = ToSet(checkpoints) \cup {e0}
            BY <3>1, AppendToSet DEF TypeOK
        <3> QED BY <1>6, <3>2 DEF SkipOtherDirectory, HeadMetadata, HeadFails
    <2>4. ASSUME NEW e \in ToSet(checkpoints') PROVE
            e.jobId < job \/ (e.jobId = job /\ \A n \in ToSet(Tail(entries)) : e.name < n)
        <3>1. CASE e \in ToSet(checkpoints)
            BY <2>1, <2>2, <3>1 DEF EntriesBefore
        <3>2. CASE e = e0
            BY <2>2, <3>2
        <3> QED BY <2>3, <3>1, <3>2
    <2> QED BY <2>1, <2>4 DEF EntriesBefore
<1>7. CASE JobsFail \/ AllJobsScanned \/ SavepointsListed \/ SavepointsFail \/ Respond
    BY <1>7 DEF JobsFail, AllJobsScanned, SavepointsListed, SavepointsFail, Respond,
                AfterCheckpoints, EntriesBefore
<1>8. ASSUME NEW c \in Bases \cup {NoBase}, NEW s \in Bases \cup {NoBase},
             NEW id \in JobIds \cup {NoJob}, GetStorageCheckpoints(c, s, id)
      PROVE  EntriesBefore'
    BY <1>8 DEF GetStorageCheckpoints, AfterCheckpoints, EntriesBefore
<1>9. CASE BucketChanges \/ UNCHANGED vars
    BY <1>9 DEF BucketChanges, vars, EntriesBefore
<1> QED BY <1>1, <1>2, <1>3, <1>4, <1>5, <1>6, <1>7, <1>8, <1>9, Steps

LEMMA RowsStep ==
    ASSUME TypeOK, Control, Order, EntriesBefore, RowsAreDistinct, [Next]_vars
    PROVE  RowsAreDistinct'
<1> USE DEF bucketVars, listingVars, request, scan, response, observed, failures
<1>1. \A i, j \in DOMAIN savepoints' : savepoints'[i] = savepoints'[j] => i = j
    <2> SUFFICES ASSUME NEW i \in DOMAIN savepoints', NEW j \in DOMAIN savepoints', i < j
                 PROVE  savepoints'[i] # savepoints'[j]
        <3>1. DOMAIN savepoints' \subseteq Nat
            BY TypeStep DEF TypeOK
        <3> QED BY <3>1
    <2>1. savepoints' \in Seq(Segments) /\ Increasing(savepoints')
        BY TypeStep, OrderStep DEF TypeOK, Order
    <2>2. savepoints'[i] \in Nat /\ savepoints'[j] \in Nat
        BY <2>1, SegmentsAreNumbers
    <2>3. savepoints'[i] < savepoints'[j]
        BY <2>1 DEF Increasing
    <2> QED BY <2>2, <2>3
<1>2. CASE HeadMetadata
    <2> DEFINE e0 == [jobId |-> job, name |-> Head(entries)]
    <2>1. job \in Segments /\ Head(entries) \in Segments /\ Head(entries) \in ToSet(entries)
        BY <1>2, HeadAndTail DEF HeadMetadata, Control, TypeOK, Order
    <2>2. e0 \notin ToSet(checkpoints)
        <3>1. job \in Nat /\ Head(entries) \in Nat
            BY <2>1, SegmentsAreNumbers
        <3> SUFFICES ASSUME e0 \in ToSet(checkpoints) PROVE FALSE
            OBVIOUS
        <3>2. \/ e0.jobId < job
              \/ e0.jobId = job /\ \A n \in ToSet(entries) : e0.name < n
            BY <1>2 DEF HeadMetadata, EntriesBefore
        <3>3. job < job \/ Head(entries) < Head(entries)
            BY <2>1, <3>2
        <3> QED BY <3>1, <3>3
    <2>3. checkpoints \in Seq(Entry) /\ (checkpoints' = checkpoints \/ checkpoints' = Append(checkpoints, e0))
        BY <1>2 DEF HeadMetadata, TypeOK
    <2> HIDE DEF e0
    <2>4. \A i, j \in DOMAIN checkpoints' : checkpoints'[i] = checkpoints'[j] => i = j
        BY <2>2, <2>3 DEF RowsAreDistinct, ToSet
    <2> QED BY <1>1, <2>4 DEF RowsAreDistinct
<1>3. CASE ~HeadMetadata
    <2>1. checkpoints' = checkpoints \/ checkpoints' = <<>>
        BY <1>3, Steps
        DEF GetStorageCheckpoints, Respond, NextPage, JobsListed,
            JobsFail, NextJob, AllJobsScanned, CheckpointsListed, CheckpointsFail,
            SkipOtherDirectory, HeadFails, JobScanned, SavepointsListed,
            SavepointsFail, BucketChanges, vars
    <2> QED BY <1>1, <2>1 DEF RowsAreDistinct
<1> QED BY <1>2, <1>3

\* An entry that was backed by an object stays backed.
LEMMA EvidenceKept ==
    ASSUME request' = request, seen \subseteq seen'
    PROVE  /\ \A e : Proofs(seen, e) # {} => Proofs(seen, e)' # {}
           /\ \A n : (\E o \in SavepointFiles(seen) : o.name = n)
                        => \E o \in SavepointFiles(seen)' : o.name = n
<1> USE DEF request
<1>1. ASSUME NEW e PROVE Proofs(seen, e) \subseteq Proofs(seen, e)'
    BY DEF Proofs
<1>2. SavepointFiles(seen) \subseteq SavepointFiles(seen)'
    BY DEF SavepointFiles
<1> QED BY <1>1, <1>2

LEMMA EvidenceStep ==
    ASSUME TypeOK, Control, Order, Observed, NothingInvented, SavepointEvidence, [Next]_vars
    PROVE  NothingInvented' /\ SavepointEvidence'
<1> USE DEF bucketVars, listingVars, scan, response, observed, failures
<1>1. CASE NextPage
    <2>1. request' = request /\ seen' = seen /\ phase' = phase
          /\ checkpoints' = checkpoints /\ savepoints' = savepoints
        BY <1>1 DEF NextPage
    <2>2. NothingInvented'
        BY <2>1, EvidenceKept DEF NothingInvented
    <2>3. ASSUME phase = "savepoints", NEW n \in ToSet(names')
          PROVE  \E o \in SavepointFiles(seen) : o.name = n
        <3>1. n \in ToSet(names) \/ n \in EntryDirectories(savepointDir, Dashless[jobId])
            BY <1>1, <2>3, PageFacts DEF Directories
        <3>2. CASE n \in ToSet(names)
            BY <2>3, <3>2 DEF SavepointEvidence
        <3>3. CASE n \in EntryDirectories(savepointDir, Dashless[jobId])
            BY <2>3, <3>3 DEF EntryDirectories, SavepointFiles, Control, Observed
        <3> QED BY <3>1, <3>2, <3>3
    <2>4. SavepointEvidence'
        BY <2>1, <2>3, EvidenceKept DEF SavepointEvidence
    <2> QED BY <2>2, <2>4
<1>2. CASE HeadMetadata
    <2> DEFINE e0 == [jobId |-> job, name |-> Head(entries)]
    <2>1. request' = request /\ seen' = seen /\ phase' = phase /\ phase = "heads"
          /\ savepoints' = savepoints
        BY <1>2 DEF HeadMetadata
    <2>2. job \in Segments /\ Head(entries) \in Segments
        BY <1>2, HeadAndTail DEF HeadMetadata, Control, TypeOK, Order
    <2>3. \A e \in ToSet(checkpoints') : e \in ToSet(checkpoints) \/ Proofs(seen, e) # {}
        <3>1. CASE MetadataExists(checkpointDir, job, Head(entries))
            <4>1. PICK o \in bucket : /\ o.base = checkpointDir /\ o.job = job
                                      /\ o.name = Head(entries) /\ o.file = "_metadata"
                BY <3>1 DEF MetadataExists
            <4>2. o \in Proofs(seen, e0)
                BY <4>1, <2>1, <1>2 DEF Proofs, Observed, HeadMetadata
            <4>3. ToSet(checkpoints') = ToSet(checkpoints) \cup {e0}
                <5>1. e0 \in Entry /\ checkpoints \in Seq(Entry)
                    BY <2>2 DEF Entry, TypeOK
                <5>2. checkpoints' = Append(checkpoints, e0)
                    BY <1>2, <3>1 DEF HeadMetadata
                <5> HIDE DEF e0
                <5> QED BY <5>1, <5>2, AppendToSet
            <4> QED BY <4>2, <4>3
        <3>2. CASE ~MetadataExists(checkpointDir, job, Head(entries))
            BY <1>2, <3>2 DEF HeadMetadata
        <3> QED BY <3>1, <3>2
    <2> QED BY <2>1, <2>3, EvidenceKept DEF NothingInvented, SavepointEvidence
<1>3. CASE SavepointsListed
    <2>1. request' = request /\ seen' = seen /\ phase' = "respond" /\ phase = "savepoints"
          /\ checkpoints' = checkpoints
        BY <1>3 DEF SavepointsListed
    <2>2. ASSUME NEW n \in ToSet(savepoints')
          PROVE  \E o \in SavepointFiles(seen) : o.name = n
        <3>1. n \in ToSet(names) \/ n \in EntryDirectories(savepointDir, Dashless[jobId])
            <4>1. savepoints' \in Listed(Directories) /\ phase \in ListingPhases
                BY <1>3 DEF SavepointsListed, ListingPhases
            <4>2. ToSet(savepoints') \subseteq ToSet(names) \cup Directories
                BY <4>1, ListedFacts
            <4> QED BY <2>1, <2>2, <4>2 DEF Directories
        <3>2. CASE n \in ToSet(names)
            BY <2>1, <3>2 DEF SavepointEvidence
        <3>3. CASE n \in EntryDirectories(savepointDir, Dashless[jobId])
            BY <2>1, <3>3 DEF EntryDirectories, SavepointFiles, Control, Observed
        <3> QED BY <3>1, <3>2, <3>3
    <2> QED BY <2>1, <2>2, EvidenceKept DEF NothingInvented, SavepointEvidence
<1>4. ASSUME NEW c \in Bases \cup {NoBase}, NEW s \in Bases \cup {NoBase},
             NEW id \in JobIds \cup {NoJob}, GetStorageCheckpoints(c, s, id)
      PROVE  NothingInvented' /\ SavepointEvidence'
    <2>1. checkpoints' = <<>> /\ savepoints' = <<>>
        BY <1>4 DEF GetStorageCheckpoints, Control
    <2>2. names' = <<>>
        BY <1>4 DEF GetStorageCheckpoints, TypeOK
    <2> QED BY <2>1, <2>2 DEF NothingInvented, SavepointEvidence, ToSet
<1>5. CASE Respond
    BY <1>5 DEF Respond, NothingInvented, SavepointEvidence
<1>6. CASE JobsFail \/ AllJobsScanned
    <2>1. request' = request /\ seen' = seen /\ phase # "idle" /\ names' = <<>>
          /\ checkpoints' = checkpoints /\ savepoints' = savepoints
        BY <1>6 DEF JobsFail, AllJobsScanned, NoListing, TypeOK
    <2>2. NothingInvented'
        BY <2>1, EvidenceKept DEF NothingInvented
    <2>3. ToSet(names') = {}
        BY <2>1 DEF ToSet
    <2> QED BY <2>2, <2>3 DEF SavepointEvidence
<1>7. CASE \/ JobsListed \/ NextJob \/ CheckpointsListed \/ CheckpointsFail
           \/ SkipOtherDirectory \/ HeadFails \/ JobScanned \/ SavepointsFail
    <2>1. request' = request /\ seen' = seen /\ phase # "idle" /\ phase' # "savepoints"
          /\ checkpoints' = checkpoints /\ savepoints' = savepoints
        BY <1>7 DEF JobsListed, NextJob, CheckpointsListed, CheckpointsFail,
                    SkipOtherDirectory, HeadFails, JobScanned, SavepointsFail
    <2> QED BY <2>1, EvidenceKept DEF NothingInvented, SavepointEvidence
<1>8. CASE BucketChanges \/ UNCHANGED vars
    <2>1. request' = request /\ seen \subseteq seen' /\ phase' = phase /\ names' = names
          /\ checkpoints' = checkpoints /\ savepoints' = savepoints
        BY <1>8 DEF BucketChanges, vars, request
    <2> QED BY <2>1, EvidenceKept DEF NothingInvented, SavepointEvidence
<1> QED BY <1>1, <1>2, <1>3, <1>4, <1>5, <1>6, <1>7, <1>8, Steps

\* A checkpoint that is there all the time was there before.
LEMMA PresentBefore ==
    ASSUME TypeOK, request' = request, present' \subseteq present
    PROVE  /\ \A e : Proofs(present, e)' # {} => Proofs(present, e) # {}
           /\ SavepointFiles(present)' \subseteq SavepointFiles(present)
<1> USE DEF request
<1>1. ASSUME NEW e PROVE Proofs(present, e)' \subseteq Proofs(present, e)
    BY DEF Proofs
<1>2. SavepointFiles(present)' \subseteq SavepointFiles(present)
    BY DEF SavepointFiles
<1> QED BY <1>1, <1>2

\* What is there all the time can be listed now.
LEMMA PresentIsListed ==
    ASSUME Observed, phase # "idle"
    PROVE  /\ \A e \in Entry : Proofs(present, e) # {} =>
                  /\ e.jobId \in JobDirectories(checkpointDir)
                  /\ e.name \in EntryDirectories(checkpointDir, e.jobId)
                  /\ e.name \in CheckpointNames
                  /\ MetadataExists(checkpointDir, e.jobId, e.name)
           /\ \A o \in SavepointFiles(present) :
                  o.name \in EntryDirectories(savepointDir, Dashless[jobId])
<1>1. ASSUME NEW e \in Entry, Proofs(present, e) # {}
      PROVE  /\ e.jobId \in JobDirectories(checkpointDir)
             /\ e.name \in EntryDirectories(checkpointDir, e.jobId)
             /\ e.name \in CheckpointNames
             /\ MetadataExists(checkpointDir, e.jobId, e.name)
    <2>1. PICK o \in bucket : /\ o.base = checkpointDir /\ o.job = e.jobId
                              /\ o.name = e.name /\ o.file = "_metadata"
                              /\ e.name \in CheckpointNames
        BY <1>1 DEF Proofs, Observed
    <2> QED BY <2>1 DEF JobDirectories, EntryDirectories, MetadataExists
<1>2. \A o \in SavepointFiles(present) :
          o.name \in EntryDirectories(savepointDir, Dashless[jobId])
    BY DEF SavepointFiles, EntryDirectories, Observed
<1> QED BY <1>1, <1>2

LEMMA CoverageStep ==
    ASSUME TypeOK, Control, Order, Observed, Coverage, [Next]_vars
    PROVE  Coverage'
<1> SUFFICES ASSUME phase' # "idle", NEW e \in Entry, Proofs(present, e)' # {}
             PROVE  Ahead(e)'
    BY DEF Coverage
<1> USE DEF bucketVars, listingVars, scan, response, observed, failures
<1>1. ASSUME NEW c \in Bases \cup {NoBase}, NEW s \in Bases \cup {NoBase},
             NEW id \in JobIds \cup {NoJob}, GetStorageCheckpoints(c, s, id)
      PROVE  Ahead(e)'
    <2>1. c # NoBase
        <3>1. PICK o \in bucket : o.base = c
            BY <1>1 DEF Proofs, GetStorageCheckpoints
        <3> QED BY <3>1, ObjectsAssumption, NoBaseAssumption DEF TypeOK
    <2>2. phase' = "jobs" /\ token' = 0
        BY <1>1, <2>1 DEF GetStorageCheckpoints, TypeOK
    <2>3. e.jobId > 0
        BY SegmentsAreNumbers DEF Entry
    <2> QED BY <2>2, <2>3 DEF Ahead
<1>2. CASE phase # "idle" /\ request' = request /\ present' \subseteq present
    <2>1. Ahead(e) /\ Proofs(present, e) # {}
        BY <1>2, PresentBefore DEF Coverage
    <2>2. /\ e.jobId \in JobDirectories(checkpointDir)
          /\ e.name \in EntryDirectories(checkpointDir, e.jobId)
          /\ e.name \in CheckpointNames
          /\ MetadataExists(checkpointDir, e.jobId, e.name)
        BY <1>2, <2>1, PresentIsListed
    <2>3. /\ e.jobId \in Segments /\ e.name \in Segments
          /\ e.jobId \in Nat /\ e.name \in Nat /\ e = [jobId |-> e.jobId, name |-> e.name]
        BY SegmentsAreNumbers DEF Entry
    <2>4. CASE NextPage
        <3>1. /\ ToSet(names) \subseteq ToSet(names')
              /\ \A d \in Directories : token < d => d \in ToSet(names') \/ token' < d
            BY <2>4, PageFacts
        <3>2. CASE phase = "jobs"
            BY <2>1, <2>2, <2>4, <3>1, <3>2 DEF NextPage, Ahead, Directories
        <3>3. CASE phase = "checkpoints"
            BY <2>1, <2>2, <2>4, <3>1, <3>3 DEF NextPage, Ahead, Directories
        <3>4. CASE phase = "savepoints"
            BY <2>1, <2>4, <3>4 DEF NextPage, Ahead
        <3> QED BY <2>4, <3>2, <3>3, <3>4 DEF NextPage
    <2>5. CASE JobsListed
        <3>1. /\ ToSet(names) \subseteq ToSet(jobs')
              /\ \A d \in Directories : token < d => d \in ToSet(jobs')
            BY <2>5, ListedFacts DEF JobsListed, ListingPhases
        <3> QED BY <2>1, <2>2, <2>5, <3>1 DEF JobsListed, Ahead, Directories
    <2>6. CASE JobsFail
        BY <2>3, <2>6 DEF JobsFail, Ahead
    <2>7. CASE NextJob
        <3>1. ToSet(jobs) = {Head(jobs)} \cup ToSet(Tail(jobs))
            BY <2>7, HeadAndTail DEF NextJob, TypeOK, Order
        <3>2. token = 0
            BY <2>7 DEF NextJob, TypeOK
        <3>3. e.name > 0
            BY <2>3, SegmentsAreNumbers
        <3> QED BY <2>1, <2>7, <3>1, <3>2, <3>3 DEF NextJob, Ahead
    <2>8. CASE AllJobsScanned
        <3>1. ToSet(jobs) = {}
            BY <2>8 DEF AllJobsScanned, ToSet
        <3> QED BY <2>1, <2>8, <3>1 DEF AllJobsScanned, Ahead
    <2>9. CASE CheckpointsListed
        <3>1. /\ ToSet(names) \subseteq ToSet(entries')
              /\ \A d \in Directories : token < d => d \in ToSet(entries')
            BY <2>9, ListedFacts DEF CheckpointsListed, ListingPhases
        <3> QED BY <2>1, <2>2, <2>9, <3>1 DEF CheckpointsListed, Ahead, Directories
    <2>10. CASE CheckpointsFail
        <3>1. e.jobId = job => <<e.jobId, e.name>> \in lost'
            BY <2>3, <2>10 DEF CheckpointsFail
        <3> QED BY <2>1, <2>10, <3>1 DEF CheckpointsFail, Ahead
    <2>11. CASE SkipOtherDirectory \/ HeadMetadata \/ HeadFails
        <3>1. phase = "heads" /\ phase' = "heads" /\ entries # <<>> /\ job' = job /\ jobs' = jobs
              /\ entries' = Tail(entries) /\ lost \subseteq lost'
            BY <2>11 DEF SkipOtherDirectory, HeadMetadata, HeadFails
        <3>2. ToSet(entries) = {Head(entries)} \cup ToSet(Tail(entries)) /\ Head(entries) \in Segments
            BY <3>1, HeadAndTail DEF TypeOK, Order
        <3>3. ToSet(checkpoints) \subseteq ToSet(checkpoints')
            <4> DEFINE e0 == [jobId |-> job, name |-> Head(entries)]
            <4>1. checkpoints' = checkpoints \/ checkpoints' = Append(checkpoints, e0)
                BY <2>11 DEF SkipOtherDirectory, HeadMetadata, HeadFails
            <4>2. e0 \in Entry /\ checkpoints \in Seq(Entry)
                BY <3>1, <3>2 DEF Control, Entry, TypeOK
            <4> HIDE DEF e0
            <4>3. ToSet(Append(checkpoints, e0)) = ToSet(checkpoints) \cup {e0}
                BY <4>2, AppendToSet
            <4> QED BY <4>1, <4>3
        <3>4. CASE e.jobId = job /\ e.name = Head(entries)
            <4>1. CASE HeadMetadata
                <5>1. checkpoints' = Append(checkpoints, e)
                    BY <2>2, <2>3, <3>4, <4>1 DEF HeadMetadata
                <5>2. e \in ToSet(checkpoints')
                    BY <5>1, AppendToSet DEF TypeOK
                <5> QED BY <5>2 DEF Ahead
            <4>2. CASE HeadFails
                BY <3>4, <4>2 DEF HeadFails, Ahead
            <4>3. ~SkipOtherDirectory
                BY <2>2, <3>4 DEF SkipOtherDirectory
            <4> QED BY <2>11, <4>1, <4>2, <4>3
        <3>5. CASE ~(e.jobId = job /\ e.name = Head(entries))
            BY <2>1, <3>1, <3>2, <3>3, <3>5 DEF Ahead
        <3> QED BY <3>4, <3>5
    <2>12. CASE JobScanned
        <3>1. ToSet(entries) = {}
            BY <2>12 DEF JobScanned, ToSet
        <3> QED BY <2>1, <2>12, <3>1 DEF JobScanned, Ahead
    <2>13. CASE SavepointsListed \/ SavepointsFail
        BY <2>1, <2>13 DEF SavepointsListed, SavepointsFail, Ahead
    <2>14. CASE BucketChanges \/ UNCHANGED vars
        BY <2>1, <2>14 DEF BucketChanges, vars, Ahead
    <2>15. ~Respond /\ \A c, s, id : ~GetStorageCheckpoints(c, s, id)
        BY <1>2 DEF Respond, GetStorageCheckpoints
    <2> QED BY <2>4, <2>5, <2>6, <2>7, <2>8, <2>9, <2>10, <2>11, <2>12, <2>13, <2>14, <2>15, Steps
<1>3. \/ \E c, s \in Bases \cup {NoBase}, id \in JobIds \cup {NoJob} :
            GetStorageCheckpoints(c, s, id)
      \/ phase # "idle" /\ request' = request /\ present' \subseteq present
    BY Steps
    DEF Respond, NextPage, JobsListed, JobsFail, NextJob, AllJobsScanned,
        CheckpointsListed, CheckpointsFail, SkipOtherDirectory, HeadMetadata, HeadFails,
        JobScanned, SavepointsListed, SavepointsFail, BucketChanges, vars, request
<1> QED BY <1>1, <1>2, <1>3

LEMMA SavepointCoverageStep ==
    ASSUME TypeOK, Control, Order, Observed, SavepointCoverage, [Next]_vars
    PROVE  SavepointCoverage'
<1> USE DEF bucketVars, listingVars, scan, response, observed, failures
<1>1. CASE NextPage
    <2>1. /\ phase \in ListingPhases /\ phase' = phase /\ request' = request
          /\ present' = present /\ phase # "respond"
        BY <1>1 DEF NextPage, ListingPhases
    <2>2. ASSUME phase = "savepoints", NEW o \in SavepointFiles(present)
          PROVE  o.name \in ToSet(names') \/ token' < o.name
        <3>1. o.name \in Directories
            BY <2>2, PresentIsListed DEF Directories
        <3> QED BY <1>1, <2>2, <3>1, PageFacts DEF SavepointCoverage
    <2> QED BY <2>1, <2>2, PresentBefore DEF SavepointCoverage
<1>2. CASE SavepointsListed
    <2>1. /\ phase = "savepoints" /\ phase' = "respond" /\ request' = request
          /\ present' = present /\ savepoints' \in Listed(Directories)
        BY <1>2 DEF SavepointsListed
    <2>2. ASSUME NEW o \in SavepointFiles(present) PROVE o.name \in ToSet(savepoints')
        <3>1. o.name \in Directories
            BY <2>1, PresentIsListed DEF Directories
        <3>2. /\ ToSet(names) \subseteq ToSet(savepoints')
              /\ \A d \in Directories : token < d => d \in ToSet(savepoints')
            BY <2>1, ListedFacts DEF ListingPhases
        <3> QED BY <2>1, <3>1, <3>2 DEF SavepointCoverage
    <2> QED BY <2>1, <2>2, PresentBefore DEF SavepointCoverage
<1>3. CASE SavepointsFail
    BY <1>3 DEF SavepointsFail, SavepointCoverage
<1>4. CASE BucketChanges \/ UNCHANGED vars
    <2>1. /\ phase' = phase /\ request' = request /\ names' = names /\ token' = token
          /\ savepoints' = savepoints /\ savepointsLost' = savepointsLost
          /\ present' \subseteq present
        BY <1>4 DEF BucketChanges, vars, request
    <2> QED BY <2>1, PresentBefore DEF SavepointCoverage
<1>5. ASSUME token' = 0,
             phase' = AfterCheckpoints(savepointDir', jobId') \/ phase' = "jobs",
             present' \subseteq Objects
      PROVE  SavepointCoverage'
    <2>1. ASSUME NEW o \in SavepointFiles(present)'
          PROVE  o.name > 0 /\ o.base # NoBase /\ jobId' # NoJob /\ o.base = savepointDir'
        <3>1. o \in Objects
            BY <1>5 DEF SavepointFiles
        <3>2. o.base \in Bases /\ o.name \in Segments
            BY <3>1, ObjectsAssumption
        <3> QED BY <3>2, SegmentsAreNumbers, NoBaseAssumption DEF SavepointFiles
    <2>2. phase' = "respond" => SavepointFiles(present)' = {}
        BY <1>5, <2>1 DEF AfterCheckpoints
    <2> QED BY <1>5, <2>1, <2>2 DEF SavepointCoverage, AfterCheckpoints
<1>6. ASSUME NEW c \in Bases \cup {NoBase}, NEW s \in Bases \cup {NoBase},
             NEW id \in JobIds \cup {NoJob}, GetStorageCheckpoints(c, s, id)
      PROVE  SavepointCoverage'
    BY <1>5, <1>6 DEF GetStorageCheckpoints, TypeOK
<1>7. CASE JobsFail \/ AllJobsScanned
    BY <1>5, <1>7 DEF JobsFail, AllJobsScanned, NoListing, request, TypeOK
<1>8. CASE \/ Respond \/ JobsListed \/ NextJob \/ CheckpointsListed \/ CheckpointsFail
           \/ SkipOtherDirectory \/ HeadMetadata \/ HeadFails \/ JobScanned
    BY <1>8 DEF Respond, JobsListed, NextJob, CheckpointsListed, CheckpointsFail,
                SkipOtherDirectory, HeadMetadata, HeadFails, JobScanned, SavepointCoverage
<1> QED BY <1>1, <1>2, <1>3, <1>4, <1>6, <1>7, <1>8, Steps

-----------------------------------------------------------------------------
(* The theorems *)

LEMMA InitInv == Init => Inv
<1> SUFFICES ASSUME Init PROVE Inv
    OBVIOUS
<1>1. TypeOK
    <2>1. /\ bucket \subseteq Objects /\ changes \in Nat /\ token = 0 /\ names = <<>>
          /\ phase \in Phases /\ checkpointDir = NoBase /\ savepointDir = NoBase
          /\ jobId = NoJob /\ job = 0
        BY DEF Init, Phases
    <2>2. /\ names \in Seq(Segments) /\ jobs \in Seq(Segments) /\ entries \in Seq(Segments)
          /\ checkpoints \in Seq(Entry) /\ savepoints \in Seq(Segments)
        BY DEF Init
    <2>3. /\ present \subseteq Objects /\ seen \subseteq Objects
          /\ lost \subseteq Segments \X Segments /\ savepointsLost \in BOOLEAN
        BY DEF Init
    <2> QED BY <2>1, <2>2, <2>3 DEF TypeOK
<1>2. Control /\ Observed /\ SavepointEvidence /\ Coverage /\ SavepointCoverage /\ NothingInvented
    BY DEF Init, Control, Observed, SavepointEvidence, Coverage, SavepointCoverage, NothingInvented
<1>3. Order /\ EntriesBefore /\ RowsAreDistinct
    BY DEF Init, Order, EntriesBefore, RowsAreDistinct, Increasing, ToSet
<1> QED BY <1>1, <1>2, <1>3 DEF Inv

LEMMA NextInv == Inv /\ [Next]_vars => Inv'
BY TypeStep, ControlStep, OrderStep, ObservedStep, EntriesStep, RowsStep, EvidenceStep,
   CoverageStep, SavepointCoverageStep DEF Inv

LEMMA Invariance == Spec => []Inv
BY InitInv, NextInv, PTL DEF Spec

\* The handler's state is typed in every request, for any directories and jobs.
THEOREM TypeCorrect == Spec => []TypeOK
BY Invariance, PTL DEF Inv

\* A response never names a checkpoint or savepoint that was not there at some
\* moment of its request.
THEOREM ResponsesAreBacked == Spec => []NothingInvented
BY Invariance, PTL DEF Inv

\* Whatever fails and whatever changes in between, what was there all the time
\* is in the response, except for what the failed calls were needed for.
THEOREM ResponsesAreComplete == Spec => []FailuresStayLocal
<1>1. Inv => FailuresStayLocal
    BY DEF Inv, Coverage, SavepointCoverage, FailuresStayLocal, Ahead
<1> QED BY <1>1, Invariance, PTL

\* No row of the storage view appears twice.
THEOREM NoRowTwice == Spec => []RowsAreDistinct
BY Invariance, PTL DEF Inv
=============================================================================
