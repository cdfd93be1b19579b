----------------------- MODULE HandlerStorageCheckpoints -----------------------
(***************************************************************************)
(* HandlerStorageCheckpoints (backend/internal/                            *)
(* handler_storage_checkpoints.go): a request for the checkpoints and      *)
(* savepoints of a deployment.  The handler lists the job directories under *)
(* the checkpoint directory, the directories of each job, asks for the     *)
(* _metadata of each chk-* directory, and finally lists the savepoints of  *)
(* the current job.  Each call of S3 is an action of its own, and may fail; *)
(* between two calls Flink changes the bucket.                             *)
(***************************************************************************)
EXTENDS S3Service

CONSTANTS
    CheckpointNames,   \* the segments that start with "chk-"
    NoBase,            \* a directory that is not configured
    JobIds,            \* the job ids a deployment's status may hold
    NoJob,             \* the status holds no job id
    Dashless           \* a job id without its dashes: the segment it names

ASSUME NoBaseAssumption == NoBase \notin Bases
ASSUME JobAssumption    == NoJob \notin JobIds /\ Dashless \in [JobIds -> Segments]

VARIABLES
    phase,           \* what the handler does next
    checkpointDir,   \* execution.checkpointing.dir
    savepointDir,    \* execution.checkpointing.savepoint-dir
    jobId,           \* the job id of the deployment's status
    jobs,            \* the job directories still to scan
    job,             \* the one that is being scanned
    entries,         \* its directories still to check
    checkpoints,     \* the checkpoints of the response
    savepoints,      \* the savepoints of the response
    present,         \* history: the objects that existed all through the request
    seen,            \* history: the objects that existed at some time of it
    lost,            \* history: the directories a failed call was needed for
    savepointsLost   \* history: the listing of the savepoints failed

request     == <<checkpointDir, savepointDir, jobId>>
scan        == <<jobs, job, entries>>
response    == <<checkpoints, savepoints>>
observed    == <<present, seen>>
failures    == <<lost, savepointsLost>>
vars == <<bucketVars, listingVars, phase, request, scan, response, observed, failures>>

Entry == [jobId : Segments, name : Segments]

Init ==
    /\ bucket \in SUBSET Objects
    /\ changes = 0
    /\ token = 0 /\ names = <<>>
    /\ phase = "idle"
    /\ checkpointDir = NoBase /\ savepointDir = NoBase /\ jobId = NoJob
    /\ jobs = <<>> /\ job = 0 /\ entries = <<>>
    /\ checkpoints = <<>> /\ savepoints = <<>>
    /\ present = {} /\ seen = {}
    /\ lost = {} /\ savepointsLost = FALSE

-----------------------------------------------------------------------------
(* GetStorageCheckpoints *)

\* populateSavepoints lists only if there is a directory and a job.
AfterCheckpoints(s, id) == IF s # NoBase /\ id # NoJob THEN "savepoints" ELSE "respond"

\* The deployment is read from the cache once; the request works on that copy.
GetStorageCheckpoints(c, s, id) ==
    /\ phase = "idle"
    /\ phase' = IF c # NoBase THEN "jobs" ELSE AfterCheckpoints(s, id)
    /\ checkpointDir' = c /\ savepointDir' = s /\ jobId' = id
    /\ present' = bucket /\ seen' = bucket
    /\ UNCHANGED <<bucketVars, listingVars, scan, response, failures>>

\* The response is written; what the handler held is gone.
Respond ==
    /\ phase = "respond"
    /\ phase' = "idle"
    /\ checkpointDir' = NoBase /\ savepointDir' = NoBase /\ jobId' = NoJob
    /\ jobs' = <<>> /\ job' = 0 /\ entries' = <<>>
    /\ checkpoints' = <<>> /\ savepoints' = <<>>
    /\ present' = {} /\ seen' = {}
    /\ lost' = {} /\ savepointsLost' = FALSE
    /\ UNCHANGED <<bucketVars, listingVars>>

\* The directory the current listing is about.
Directories ==
    CASE phase = "jobs"        -> JobDirectories(checkpointDir)
      [] phase = "checkpoints" -> EntryDirectories(checkpointDir, job)
      [] phase = "savepoints"  -> EntryDirectories(savepointDir, Dashless[jobId])

NextPage ==
    /\ phase \in {"jobs", "checkpoints", "savepoints"}
    /\ ReadPage(Directories)
    /\ UNCHANGED <<bucketVars, phase, request, scan, response, observed, failures>>

-----------------------------------------------------------------------------
(* populateCheckpoints *)

JobsListed ==
    /\ phase = "jobs"
    /\ jobs' \in Listed(Directories)
    /\ NoListing
    /\ phase' = "nextJob"
    /\ UNCHANGED <<bucketVars, request, job, entries, response, observed, failures>>

\* ListJobDirectories returns an error, after any number of pages; or the
\* configured directory is no s3:// URI.
JobsFail ==
    /\ phase = "jobs"
    /\ NoListing
    /\ phase' = AfterCheckpoints(savepointDir, jobId)
    /\ lost' = Segments \X Segments
    /\ UNCHANGED <<bucketVars, request, scan, response, observed, savepointsLost>>

NextJob ==
    /\ phase = "nextJob"
    /\ jobs # <<>>
    /\ job' = Head(jobs)
    /\ jobs' = Tail(jobs)
    /\ phase' = "checkpoints"
    /\ UNCHANGED <<bucketVars, listingVars, request, entries, response, observed, failures>>

AllJobsScanned ==
    /\ phase = "nextJob"
    /\ jobs = <<>>
    /\ phase' = AfterCheckpoints(savepointDir, jobId)
    /\ UNCHANGED <<bucketVars, listingVars, request, scan, response, observed, failures>>

-----------------------------------------------------------------------------
(* ListValidCheckpoints *)

CheckpointsListed ==
    /\ phase = "checkpoints"
    /\ entries' \in Listed(Directories)
    /\ NoListing
    /\ phase' = "heads"
    /\ UNCHANGED <<bucketVars, request, jobs, job, response, observed, failures>>

\* The job is skipped, the next one is tried.
\* MUTANT: the job is tried again after the others.
CheckpointsRetried ==
    /\ phase = "checkpoints"
    /\ NoListing
    /\ phase' = "nextJob"
    /\ jobs' = Append(jobs, job)
    /\ UNCHANGED <<bucketVars, request, job, entries, response, observed, failures>>

\* MUTANT: the error is returned instead, and the other jobs are given up.
CheckpointsFailForAll ==
    /\ phase = "checkpoints"
    /\ NoListing
    /\ phase' = AfterCheckpoints(savepointDir, jobId)
    /\ lost' = lost \cup ({job} \X Segments)
    /\ UNCHANGED <<bucketVars, request, scan, response, observed, savepointsLost>>

CheckpointsFail ==
    /\ phase = "checkpoints"
    /\ NoListing
    /\ phase' = "nextJob"
    /\ lost' = lost \cup ({job} \X Segments)
    /\ UNCHANGED <<bucketVars, request, scan, response, observed, savepointsLost>>

SkipOtherDirectory ==
    /\ phase = "heads"
    /\ entries # <<>>
    /\ Head(entries) \notin CheckpointNames
    /\ entries' = Tail(entries)
    /\ UNCHANGED <<bucketVars, listingVars, phase, request, jobs, job, response, observed, failures>>

\* HeadObject answers: the directory is a valid checkpoint, or (NotFound) it
\* has no _metadata and is left out.
\* MUTANT: NotFound counts like any other answer.
HeadMetadataAnyAnswer ==
    /\ phase = "heads"
    /\ entries # <<>>
    /\ Head(entries) \in CheckpointNames
    /\ checkpoints' = Append(checkpoints, [jobId |-> job, name |-> Head(entries)])
    /\ entries' = Tail(entries)
    /\ UNCHANGED <<bucketVars, listingVars, phase, request, jobs, job, savepoints, observed, failures>>

HeadMetadata ==
    /\ phase = "heads"
    /\ entries # <<>>
    /\ Head(entries) \in CheckpointNames
    /\ checkpoints' = IF MetadataExists(checkpointDir, job, Head(entries))
                      THEN Append(checkpoints, [jobId |-> job, name |-> Head(entries)])
                      ELSE checkpoints
    /\ entries' = Tail(entries)
    /\ UNCHANGED <<bucketVars, listingVars, phase, request, jobs, job, savepoints, observed, failures>>

\* Any other error: a warning, and on to the next directory.
HeadFails ==
    /\ phase = "heads"
    /\ entries # <<>>
    /\ Head(entries) \in CheckpointNames
    /\ entries' = Tail(entries)
    /\ lost' = lost \cup {<<job, Head(entries)>>}
    /\ UNCHANGED <<bucketVars, listingVars, phase, request, jobs, job, response, observed, savepointsLost>>

JobScanned ==
    /\ phase = "heads"
    /\ entries = <<>>
    /\ phase' = "nextJob"
    /\ UNCHANGED <<bucketVars, listingVars, request, scan, response, observed, failures>>

-----------------------------------------------------------------------------
(* populateSavepoints *)

SavepointsListed ==
    /\ phase = "savepoints"
    /\ savepoints' \in Listed(Directories)
    /\ NoListing
    /\ phase' = "respond"
    /\ UNCHANGED <<bucketVars, request, scan, checkpoints, observed, failures>>

SavepointsFail ==
    /\ phase = "savepoints"
    /\ NoListing
    /\ phase' = "respond"
    /\ savepointsLost' = TRUE
    /\ UNCHANGED <<bucketVars, request, scan, response, observed, lost>>

-----------------------------------------------------------------------------
(* Flink (external): objects come and go while a request runs.             *)

BucketChanges ==
    /\ \E o \in Objects : PutObject(o) \/ DeleteObject(o)
    /\ present' = present \cap bucket'
    /\ seen' = IF phase = "idle" THEN seen ELSE seen \cup bucket'
    /\ UNCHANGED <<listingVars, phase, request, scan, response, failures>>

HandlerStep ==
    \/ NextPage
    \/ JobsListed \/ JobsFail \/ NextJob \/ AllJobsScanned
    \/ CheckpointsListed \/ CheckpointsFail
    \/ SkipOtherDirectory \/ HeadMetadata \/ HeadFails \/ JobScanned
    \/ SavepointsListed \/ SavepointsFail
    \/ Respond

Next ==
    \/ \E c, s \in Bases \cup {NoBase}, id \in JobIds \cup {NoJob} :
           GetStorageCheckpoints(c, s, id)
    \/ HandlerStep
    \/ BucketChanges

Spec == Init /\ [][Next]_vars

\* The Go scheduler runs the handler, and every call of S3 returns.
FairSpec == Spec /\ WF_vars(HandlerStep)

-----------------------------------------------------------------------------
Phases == {"idle", "jobs", "nextJob", "checkpoints", "heads", "savepoints", "respond"}

\* Every variable has its type, and token and names belong to the listing
\* that runs: the next one starts from nothing.
TypeOK ==
    /\ bucket \subseteq Objects /\ changes \in Nat
    /\ token \in Nat /\ names \in Seq(Segments)
    /\ phase \notin {"jobs", "checkpoints", "savepoints"} => token = 0 /\ names = <<>>
    /\ phase \in Phases
    /\ checkpointDir \in Bases \cup {NoBase} /\ savepointDir \in Bases \cup {NoBase}
    /\ jobId \in JobIds \cup {NoJob}
    /\ jobs \in Seq(Segments) /\ job \in Segments \cup {0} /\ entries \in Seq(Segments)
    /\ checkpoints \in Seq(Entry) /\ savepoints \in Seq(Segments)
    /\ present \subseteq Objects /\ seen \subseteq Objects
    /\ lost \subseteq Segments \X Segments /\ savepointsLost \in BOOLEAN

\* The objects of O that make e a valid checkpoint of the request, and those
\* that make n a savepoint directory of its job.
Proofs(O, e) ==
    {o \in O : /\ o.base = checkpointDir /\ o.job = e.jobId /\ o.name = e.name
               /\ o.file = "_metadata" /\ e.name \in CheckpointNames}

SavepointFiles(O) ==
    {o \in O : jobId # NoJob /\ o.base = savepointDir /\ o.job = Dashless[jobId]}

\* Whatever the bucket does meanwhile, an entry of the response was there: a
\* checkpoint was a chk-* directory with a _metadata file at some moment of
\* the request, and a savepoint a directory of the current job
\* (ListValidCheckpoints, populateSavepoints).
NothingInvented ==
    phase # "idle" =>
        /\ \A e \in ToSet(checkpoints) : Proofs(seen, e) # {}
        /\ \A n \in ToSet(savepoints) : \E o \in SavepointFiles(seen) : o.name = n

\* A failed call costs what it was needed for and nothing else: a checkpoint
\* whose _metadata existed from the beginning of the request to its end is in
\* the response, whatever else was created or deleted between two pages,
\* unless the call for it, for its job or for all jobs failed; and so is a
\* savepoint unless their listing failed (populateCheckpoints:128-131,
\* ListValidCheckpoints:256-260, populateSavepoints:148-152).
FailuresStayLocal ==
    phase = "respond" =>
        /\ \A e \in Entry :
               Proofs(present, e) # {} =>
                   e \in ToSet(checkpoints) \/ <<e.jobId, e.name>> \in lost
        /\ \A o \in SavepointFiles(present) : o.name \in ToSet(savepoints) \/ savepointsLost

\* The pages of the storage view identify a row by job and name
\* (routes/deployments.$namespace.$name.storage.tsx:147, 178): no directory is
\* listed twice, although directories come and go between two pages.
RowsAreDistinct ==
    /\ \A i, j \in DOMAIN checkpoints : checkpoints[i] = checkpoints[j] => i = j
    /\ \A i, j \in DOMAIN savepoints : savepoints[i] = savepoints[j] => i = j

\* Every request is answered, whichever calls fail: the loops over pages, jobs
\* and directories end even while directories are added.
RequestIsAnswered == phase # "idle" ~> phase = "idle"

\* README.md:12: the storage browser "Lists checkpoints and savepoints in S3,
\* validates them by checking for `_metadata` files".
SavepointsAreValidated ==
    phase # "idle" =>
        \A n \in ToSet(savepoints) :
            \E o \in SavepointFiles(seen) : o.name = n /\ o.file = "_metadata"

\* routes/deployments.$namespace.$name.storage.tsx:197: "Storage checkpoints
\* are filtered by the current job ID."
FilteredByCurrentJob ==
    \A e \in ToSet(checkpoints) : jobId # NoJob /\ e.jobId = Dashless[jobId]
=============================================================================
