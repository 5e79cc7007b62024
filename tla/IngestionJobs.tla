---------------------------- MODULE IngestionJobs ----------------------------
(***************************************************************************)
(* One document upload: the job record that                                *)
(* api/services/document_ingestion_jobs.py keeps in a JSON file, the       *)
(* worker thread that ingests the files (process_file_paths of             *)
(* src/rag_agent/ingestion.py), the status request that the event loop     *)
(* answers meanwhile, and the page that polls it.                          *)
(*                                                                         *)
(* The worker and the event loop share the record without a lock: each     *)
(* reads it, changes its copy, opens and truncates one temporary file,     *)
(* writes the copy to what it opened and renames the temporary file.  Each *)
(* of these is a step here.  The file system raises only when there is     *)
(* nothing to rename.  Jobs have records of their own, so one is enough.   *)
(***************************************************************************)
EXTENDS Naturals, FiniteSets

CONSTANTS
  Files,       \* how many files the upload has
  NoJob,       \* no record, no temporary file
  Empty,       \* the file is there and was truncated
  Torn,        \* it holds one record and the tail of a longer one
  MaxCrashes   \* bound: how often the backend crashes

VARIABLES
  disk,      \* the job's record
  temp,      \* the temporary file next to it
  uploads,   \* whether the upload directory exists
  stored,    \* the files whose chunks are in the vector store
  worker,    \* the thread that runs the job
  active,    \* whether the job is in _ACTIVE_JOBS
  get,       \* the status request the event loop is answering
  answers,   \* the statuses on their way to the page
  view,      \* the status the page shows
  crashes

vars == <<disk, temp, uploads, stored, worker, active, get, answers, view, crashes>>

File == 1..Files

Terminal    == {"completed", "failed", "interrupted"}
JobStatus   == {"queued", "running"} \cup Terminal
FileStatus  == {"queued", "parsing", "embedding", "indexed", "failed", "interrupted"}

\* old: updated_at is _ORPHANED_JOB_GRACE_SECONDS ago or more.
Job == [status : JobStatus, files : [File -> FileStatus], old : BOOLEAN]

ASSUME JobConstants ==
  /\ Files \in Nat \ {0}
  /\ MaxCrashes \in Nat
  /\ {NoJob, Empty, Torn} \cap Job = {}
  /\ NoJob \notin {Empty, Torn} /\ Empty # Torn

\* _read_job finds no JSON in it and returns None.
Unreadable == {Empty, Torn}

\* Which path an open file has by now: a rename takes it along, and the next one
\* leaves it without a path.
Path == {"none", "temp", "disk", "lost"}
Moved(path) == CASE path = "temp" -> "disk" [] path = "disk" -> "lost" [] OTHER -> path

NewJob == [status |-> "queued", files |-> [f \in File |-> "queued"], old |-> FALSE]

\* What the worker writes next into the record: that it runs, a file's status,
\* a file's failure from inside the exception handler, the outcome, or the
\* outcome once more from inside the exception handler of the job.
Report == {"running", "parsing", "embedding", "indexed", "failed", "rescue", "end", "end_again"}

Worker == [pc : {"none", "scheduled", "read", "open", "write", "rename", "load", "store",
                 "finally", "over", "dead"},
           report : Report, file : File, any : BOOLEAN, ok : BOOLEAN,
           copy : Job \cup {NoJob}, out : Path]

NoWorker == [pc |-> "none", report |-> "running", file |-> 1, any |-> FALSE, ok |-> FALSE,
             copy |-> NoJob, out |-> "none"]

Get == [pc : {"idle", "check", "open", "write", "rename"}, copy : Job \cup {NoJob}, out : Path]

NoGet == [pc |-> "idle", copy |-> NoJob, out |-> "none"]

Init ==
  /\ disk = NoJob /\ temp = NoJob /\ uploads = FALSE /\ stored = {}
  /\ worker = NoWorker /\ active = FALSE
  /\ get = NoGet /\ answers = {} /\ view = "none"
  /\ crashes = 0

-----------------------------------------------------------------------------
(***************************************************************************)
(* The upload route: the files, the record, then the thread and the        *)
(* response from which the page tracks the job.                            *)
(***************************************************************************)
SaveUploads ==
  /\ disk = NoJob /\ ~uploads
  /\ uploads' = TRUE
  /\ UNCHANGED <<disk, temp, stored, worker, active, get, answers, view, crashes>>

SaveJob ==
  /\ disk = NoJob /\ uploads /\ worker.pc = "none"
  /\ disk' = NewJob
  /\ worker' = [NoWorker EXCEPT !.pc = "scheduled"]
  /\ view' = "queued"
  /\ UNCHANGED <<temp, uploads, stored, active, get, answers, crashes>>

\* The grace period of the record passes.  A copy in memory is written long
\* before its own does.
Age ==
  /\ disk \notin {NoJob, Empty, Torn} /\ ~disk.old
  /\ disk' = [disk EXCEPT !.old = TRUE]
  /\ UNCHANGED <<temp, uploads, stored, worker, active, get, answers, view, crashes>>

-----------------------------------------------------------------------------
(***************************************************************************)
(* The worker.                                                             *)
(***************************************************************************)
\* _complete_job: a file nobody reported on fails with the job.
Completed(job) ==
  [status |-> IF worker.ok THEN "completed" ELSE "failed",
   files  |-> [f \in File |-> IF job.files[f] = "queued" THEN "failed" ELSE job.files[f]],
   old    |-> FALSE]

\* _update_file_status.  Files are told apart by their paths.  The first
\* definition is a faulty one that finds the first file under any path.
UpdatedFirst(job, f, status) ==
  [status |-> "running", files |-> [job.files EXCEPT ![1] = status], old |-> FALSE]

Updated(job, f, status) ==
  [status |-> "running", files |-> [job.files EXCEPT ![f] = status], old |-> FALSE]

Reported(job) ==
  CASE worker.report = "running" -> [job EXCEPT !.status = "running", !.old = FALSE]
    [] worker.report \in {"end", "end_again"} -> Completed(job)
    [] worker.report = "rescue" -> Updated(job, worker.file, "failed")
    [] OTHER -> Updated(job, worker.file, worker.report)

\* The report about a file is written: go on with the next one, or with the
\* outcome.
NextFile(w) ==
  IF w.file < Files
  THEN [w EXCEPT !.pc = "read", !.report = "parsing", !.file = @ + 1]
  ELSE [w EXCEPT !.pc = "read", !.report = "end", !.ok = w.any]

Done(w) ==
  CASE w.report = "running"   -> [w EXCEPT !.pc = "read", !.report = "parsing"]
    [] w.report = "parsing"   -> [w EXCEPT !.pc = "load"]
    [] w.report = "embedding" -> [w EXCEPT !.pc = "store"]
    [] w.report \in {"indexed", "failed", "rescue"} -> NextFile(w)
    [] OTHER -> [w EXCEPT !.pc = "finally"]

\* The report raises: process_file_paths reports the file as failed, and when
\* that raises too it gives up; run_ingestion_job_sync reports the failed job,
\* and when that raises too the thread ends.
Raised(w) ==
  CASE w.report = "rescue" -> [w EXCEPT !.pc = "read", !.report = "end", !.ok = FALSE]
    [] w.report \in {"running", "end"} -> [w EXCEPT !.pc = "read", !.report = "end_again", !.ok = FALSE]
    [] w.report = "end_again" -> [w EXCEPT !.pc = "finally"]
    [] OTHER -> [w EXCEPT !.pc = "read", !.report = "rescue"]

Begin ==
  /\ worker.pc = "scheduled"
  /\ active' = TRUE
  /\ worker' = [worker EXCEPT !.pc = "read"]
  /\ UNCHANGED <<disk, temp, uploads, stored, get, answers, view, crashes>>

\* Without a record there is no report, and the worker goes on as after one.
ReadRecord ==
  /\ worker.pc = "read"
  /\ worker' = IF disk \in Unreadable THEN Done(worker)
               ELSE [worker EXCEPT !.pc = "open", !.copy = Reported(disk)]
  /\ UNCHANGED <<disk, temp, uploads, stored, active, get, answers, view, crashes>>

\* write_text, with the record in one write: opening truncates the file, and
\* what is written over a longer record leaves the tail of that.
OpenTemp ==
  /\ worker.pc = "open"
  /\ temp' = Empty
  /\ worker' = [worker EXCEPT !.pc = "write", !.out = "temp"]
  /\ UNCHANGED <<disk, uploads, stored, active, get, answers, view, crashes>>

Written(content, copy) == IF content = Empty THEN {copy} ELSE {copy, Torn}

\* The file that was opened at path gets the copy, wherever it is by now.
Put(path, copy) ==
  /\ IF path = "temp" THEN temp' \in Written(temp, copy) ELSE UNCHANGED temp
  /\ IF path = "disk" THEN disk' \in Written(disk, copy) ELSE UNCHANGED disk

WriteTemp ==
  /\ worker.pc = "write"
  /\ Put(worker.out, worker.copy)
  /\ worker' = [worker EXCEPT !.pc = "rename", !.copy = NoJob, !.out = "none"]
  /\ UNCHANGED <<uploads, stored, active, get, answers, view, crashes>>

\* Whoever renames first takes the temporary file, whosever copy it holds, and
\* the other one's open file with it.
Rename ==
  /\ worker.pc = "rename"
  /\ \/ /\ temp # NoJob /\ disk' = temp /\ temp' = NoJob
        /\ worker' = Done(worker) /\ get' = [get EXCEPT !.out = Moved(@)]
     \/ temp = NoJob /\ worker' = Raised(worker) /\ UNCHANGED <<disk, temp, get>>
  /\ UNCHANGED <<uploads, stored, active, answers, view, crashes>>

\* load_document_with_docling: text, none, or an exception.
LoadFile ==
  /\ worker.pc = "load"
  /\ \E r \in {"embedding", "failed", "rescue"} :
       worker' = [worker EXCEPT !.pc = "read", !.report = r]
  /\ UNCHANGED <<disk, temp, uploads, stored, active, get, answers, view, crashes>>

\* _split_and_store: chunks, none, or an exception, after some were stored or
\* before.
StoreFile ==
  /\ worker.pc = "store"
  /\ \/ /\ worker' = [worker EXCEPT !.pc = "read", !.report = "indexed", !.any = TRUE]
        /\ stored' = stored \cup {worker.file}
     \/ /\ worker' = [worker EXCEPT !.pc = "read", !.report = "failed"]
        /\ UNCHANGED stored
     \/ /\ worker' = [worker EXCEPT !.pc = "read", !.report = "rescue"]
        /\ stored' \in {stored, stored \cup {worker.file}}
  /\ UNCHANGED <<disk, temp, uploads, active, get, answers, view, crashes>>

\* The finally clause of run_ingestion_job_sync.
CleanUp ==
  /\ worker.pc = "finally"
  /\ active' = FALSE /\ uploads' = FALSE
  /\ worker' = [NoWorker EXCEPT !.pc = "over"]
  /\ UNCHANGED <<disk, temp, stored, get, answers, view, crashes>>

-----------------------------------------------------------------------------
(***************************************************************************)
(* get_ingestion_job, on the event loop, for the page that polls while the *)
(* job it shows is not terminal.                                           *)
(***************************************************************************)
\* A status reaches the page unless it stopped waiting for one.
Answer(status) == answers' = IF view \in Terminal THEN answers ELSE answers \cup {status}

Interrupted(job) ==
  [status |-> "interrupted",
   files  |-> [f \in File |-> IF job.files[f] \in {"indexed", "failed"}
                              THEN job.files[f] ELSE "interrupted"],
   old    |-> FALSE]

\* Without a record the answer is 404, which the page ignores: no step.
GetJob ==
  /\ get.pc = "idle" /\ view \in JobStatus \ Terminal /\ disk \notin Unreadable
  /\ get' = [NoGet EXCEPT !.pc = "check", !.copy = disk]
  /\ UNCHANGED <<disk, temp, uploads, stored, worker, active, answers, view, crashes>>

\* Whether a record is an orphan's, after a faulty definition that forgets the
\* jobs that did not start.
OrphanRunning(job) == job.status = "running" /\ ~active /\ job.old

Orphan(job) == job.status \notin Terminal /\ ~active /\ job.old

CheckOrphan ==
  /\ get.pc = "check"
  /\ IF Orphan(get.copy)
     THEN /\ get' = [get EXCEPT !.pc = "open", !.copy = Interrupted(@)]
          /\ UNCHANGED answers
     ELSE get' = NoGet /\ Answer(get.copy.status)
  /\ UNCHANGED <<disk, temp, uploads, stored, worker, active, view, crashes>>

OpenInterrupted ==
  /\ get.pc = "open"
  /\ temp' = Empty
  /\ get' = [get EXCEPT !.pc = "write", !.out = "temp"]
  /\ UNCHANGED <<disk, uploads, stored, worker, active, answers, view, crashes>>

WriteInterrupted ==
  /\ get.pc = "write"
  /\ Put(get.out, get.copy)
  /\ get' = [NoGet EXCEPT !.pc = "rename"]
  /\ UNCHANGED <<uploads, stored, worker, active, answers, view, crashes>>

\* With nothing to rename the request fails and the page polls again.
RenameInterrupted ==
  /\ get.pc = "rename"
  /\ get' = NoGet
  /\ \/ /\ temp # NoJob /\ disk' = temp /\ temp' = NoJob
        /\ worker' = [worker EXCEPT !.out = Moved(@)] /\ Answer("interrupted")
     \/ temp = NoJob /\ UNCHANGED <<disk, temp, worker, answers>>
  /\ UNCHANGED <<uploads, stored, active, view, crashes>>

\* Answers may arrive in any order.  Showing a terminal status ends the effect
\* that polls, which ignores the answers that come after that.
Show ==
  /\ \E s \in answers :
       /\ view' = s
       /\ answers' = IF s \in Terminal THEN {} ELSE answers \ {s}
  /\ UNCHANGED <<disk, temp, uploads, stored, worker, active, get, crashes>>

\* The backend dies and is started again: the files stay, the thread, the set
\* of active jobs and the request do not.
Crash ==
  /\ crashes < MaxCrashes
  /\ crashes' = crashes + 1
  /\ worker' = [NoWorker EXCEPT !.pc = IF uploads \/ disk # NoJob THEN "dead" ELSE "none"]
  /\ active' = FALSE /\ get' = NoGet /\ answers' = {}
  /\ UNCHANGED <<disk, temp, uploads, stored, view>>

WorkerStep ==
  \/ Begin \/ ReadRecord \/ OpenTemp \/ WriteTemp \/ Rename \/ LoadFile \/ StoreFile \/ CleanUp

GetStep ==
  GetJob \/ CheckOrphan \/ OpenInterrupted \/ WriteInterrupted \/ RenameInterrupted

Next == SaveUploads \/ SaveJob \/ Age \/ WorkerStep \/ GetStep \/ Show \/ Crash

Spec == Init /\ [][Next]_vars

(***************************************************************************)
(* The thread pool gets to the job and parsing and embedding end, time     *)
(* passes, and the page stays open and polls a backend that is up.         *)
(***************************************************************************)
FairSpec ==
  Spec /\ WF_vars(WorkerStep) /\ WF_vars(Age) /\ WF_vars(GetStep) /\ WF_vars(Show)

-----------------------------------------------------------------------------
TypeOK ==
  /\ disk \in Job \cup {NoJob, Empty, Torn} /\ temp \in Job \cup {NoJob, Empty, Torn}
  /\ uploads \in BOOLEAN /\ active \in BOOLEAN
  /\ stored \subseteq File
  /\ worker \in Worker /\ get \in Get
  /\ answers \subseteq JobStatus /\ view \in JobStatus \cup {"none"}
  /\ crashes \in 0..MaxCrashes

\* Nobody is told that a file is indexed whose chunks are not in the vector
\* store, although two threads overwrite each other's records and either may
\* rename the other's temporary file.
IndexedIsStored ==
  \A s \in {disk, temp} \ {NoJob, Empty, Torn} : \A f \in File : s.files[f] = "indexed" => f \in stored

\* The page learns how every job it tracks ended, also after crashes and when
\* the record of the outcome could not be written, unless the two writers tore
\* the record for good: then it polls for ever.
PageSeesEnd == view = "queued" ~> (view \in Terminal \/ [](disk \in Unreadable))

\* The worker alone never leaves a record that nobody can read, not even when it
\* dies between two of its steps: only a status request that declares the job
\* interrupted while the worker runs can tear it.
OnlyInterruptionsTear == [](get.pc # "open") => [](disk \notin Unreadable)

\* What the message of an interrupted job says: "Backend restarted before
\* ingestion completed."  So the page shows it only after a restart.
InterruptedMeansRestart == view = "interrupted" => crashes > 0
=============================================================================
