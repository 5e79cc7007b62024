------------------------- MODULE IngestionJobs_proofs -------------------------
(***************************************************************************)
(* Proofs about IngestionJobs: whoever overwrites whose record, no record  *)
(* ever says of a file that it is indexed before its chunks are stored,    *)
(* for every number of files and crashes.                                  *)
(*                                                                         *)
(* The argument: a record is copied from the disk, from memory or from the *)
(* temporary file, and the only step that makes a file "indexed" is the    *)
(* worker's report about the file it has just stored.                      *)
(***************************************************************************)
EXTENDS IngestionJobs, TLAPS

\* What a record says of its files is true.
True(job, s) ==
  job \notin {NoJob, Empty, Torn} => \A f \in File : job.files[f] = "indexed" => f \in s

RecordsTrue ==
  /\ True(disk, stored) /\ True(temp, stored)
  /\ True(worker.copy, stored) /\ True(get.copy, stored)

\* The worker reports a file as indexed when its chunks are stored.
ReportTrue == worker.report = "indexed" => worker.file \in stored

\* A step that uses a record has one.
HaveRecords ==
  /\ worker.pc \notin {"none", "dead"} => disk # NoJob
  /\ worker.pc \in {"open", "write"} => worker.copy # NoJob
  /\ get.pc # "idle" => disk # NoJob
  /\ get.pc \in {"check", "open", "write"} => get.copy # NoJob
  /\ view # "none" \/ answers # {} => disk # NoJob

IInv == TypeOK /\ RecordsTrue /\ ReportTrue /\ HaveRecords

-----------------------------------------------------------------------------
\* What the records are made of.
LEMMA RecordIsFile == ASSUME NEW job \in Job PROVE job \notin {NoJob, Empty, Torn}
BY JobConstants

LEMMA NewJobOK == NewJob \in Job /\ True(NewJob, {}) /\ NewJob # NoJob
<1>1. NewJob \in Job
  BY DEF NewJob, Job, JobStatus, FileStatus
<1>2. True(NewJob, {})
  BY DEF NewJob, True
<1> QED  BY <1>1, <1>2, RecordIsFile

LEMMA AgedOK ==
  ASSUME NEW job \in Job, NEW s, True(job, s)
  PROVE  /\ [job EXCEPT !.old = TRUE] \in Job /\ [job EXCEPT !.old = TRUE] # NoJob
         /\ True([job EXCEPT !.old = TRUE], s)
<1>1. job \notin {NoJob, Empty, Torn}
  BY RecordIsFile
<1>2. [job EXCEPT !.old = TRUE] \in Job
  BY DEF Job
<1>3. True([job EXCEPT !.old = TRUE], s)
  BY <1>1 DEF Job, True
<1> QED  BY <1>2, <1>3, RecordIsFile

LEMMA UpdatedOK ==
  ASSUME NEW job \in Job, NEW s, True(job, s), NEW f \in File, NEW status \in FileStatus,
         status = "indexed" => f \in s
  PROVE  Updated(job, f, status) \in Job /\ True(Updated(job, f, status), s)
<1>1. job \notin {NoJob, Empty, Torn}
  BY RecordIsFile
<1> QED  BY <1>1 DEF Job, JobStatus, Updated, True

LEMMA CompletedOK ==
  ASSUME NEW job \in Job, NEW s, True(job, s)
  PROVE  Completed(job) \in Job /\ True(Completed(job), s)
<1>1. job \in Job /\ job \notin {NoJob, Empty, Torn}
  BY RecordIsFile
<1> QED  BY <1>1 DEF Job, JobStatus, Terminal, FileStatus, Completed, True

LEMMA InterruptedOK ==
  ASSUME NEW job \in Job, NEW s, True(job, s)
  PROVE  Interrupted(job) \in Job /\ True(Interrupted(job), s)
<1>1. job \in Job /\ job \notin {NoJob, Empty, Torn}
  BY RecordIsFile
<1> QED  BY <1>1 DEF Job, JobStatus, Terminal, FileStatus, Interrupted, True

LEMMA ReportedOK ==
  ASSUME NEW job \in Job, NEW s, True(job, s), worker \in Worker,
         worker.report = "indexed" => worker.file \in s
  PROVE  Reported(job) \in Job /\ True(Reported(job), s)
<1>1. job \notin {NoJob, Empty, Torn}
  BY RecordIsFile
<1>2. worker.report \in Report /\ worker.file \in File
  BY DEF Worker
<1>3. CASE worker.report = "running"
  BY <1>1, <1>3 DEF Reported, Job, JobStatus, True
<1>4. CASE worker.report \in {"end", "end_again"}
  BY <1>4, CompletedOK DEF Reported
<1>5. CASE worker.report = "rescue"
  <2>1. "failed" \in FileStatus
    BY DEF FileStatus
  <2>2. Reported(job) = Updated(job, worker.file, "failed")
    BY <1>5 DEF Reported
  <2> QED  BY <1>2, <2>1, <2>2, UpdatedOK
<1>6. CASE worker.report \in {"parsing", "embedding", "indexed", "failed"}
  <2>1. worker.report \in FileStatus
    BY <1>6 DEF FileStatus
  <2>2. Reported(job) = Updated(job, worker.file, worker.report)
    BY <1>6 DEF Reported
  <2> QED  BY <1>2, <2>1, <2>2, UpdatedOK
<1> QED  BY <1>2, <1>3, <1>4, <1>5, <1>6 DEF Report

LEMMA InitOK == Init => IInv
<1> SUFFICES ASSUME Init PROVE IInv
  OBVIOUS
<1>1. 1 \in File
  BY JobConstants DEF File
<1>2. NoWorker \in Worker /\ NoGet \in Get
  BY <1>1 DEF NoWorker, NoGet, Worker, Get, Report, Path
<1>3. 0 \in 0..MaxCrashes
  BY JobConstants
<1>4. TypeOK
  BY <1>2, <1>3 DEF Init, TypeOK
<1>5. RecordsTrue /\ ReportTrue /\ HaveRecords
  BY DEF Init, RecordsTrue, ReportTrue, HaveRecords, True, NoWorker, NoGet
<1> QED  BY <1>4, <1>5 DEF IInv

-----------------------------------------------------------------------------
(***************************************************************************)
(* The upload, and the passing of time.                                    *)
(***************************************************************************)
LEMMA SaveUploadsOK == ASSUME IInv, SaveUploads PROVE IInv'
BY DEF IInv, SaveUploads, TypeOK, RecordsTrue, ReportTrue, HaveRecords

LEMMA SaveJobOK == ASSUME IInv, SaveJob PROVE IInv'
<1>1. NewJob \in Job /\ True(NewJob, stored) /\ NewJob # NoJob
  BY NewJobOK DEF True
<1>2. worker' = [NoWorker EXCEPT !.pc = "scheduled"] /\ 1 \in File
  BY JobConstants DEF SaveJob, File
<1>3. /\ worker' \in Worker /\ worker'.copy = NoJob /\ worker'.pc = "scheduled"
      /\ worker'.report = "running"
  BY <1>2 DEF NoWorker, Worker, Report, Path
<1>4. TypeOK'
  BY <1>1, <1>3 DEF IInv, SaveJob, TypeOK, JobStatus
<1>5. RecordsTrue'
  BY <1>1, <1>3 DEF IInv, SaveJob, RecordsTrue, True
<1>6. ReportTrue' /\ HaveRecords'
  BY <1>1, <1>3 DEF IInv, SaveJob, ReportTrue, HaveRecords
<1> QED  BY <1>4, <1>5, <1>6 DEF IInv

LEMMA AgeOK == ASSUME IInv, Age PROVE IInv'
<1>1. disk \in Job /\ True(disk, stored)
  BY DEF IInv, Age, TypeOK, RecordsTrue
<1>2. disk' \in Job /\ disk' # NoJob /\ True(disk', stored)
  BY <1>1, AgedOK DEF Age
<1>3. TypeOK'
  BY <1>2 DEF IInv, Age, TypeOK
<1>4. RecordsTrue'
  BY <1>2 DEF IInv, Age, RecordsTrue
<1>5. ReportTrue' /\ HaveRecords'
  BY <1>2 DEF IInv, Age, ReportTrue, HaveRecords
<1> QED  BY <1>3, <1>4, <1>5 DEF IInv

-----------------------------------------------------------------------------
(***************************************************************************)
(* The worker.                                                             *)
(***************************************************************************)
\* A step that moves the worker on and changes neither its copy nor a record.
LEMMA MovesOK ==
  ASSUME IInv, worker' \in Worker, worker'.copy = worker.copy, worker.pc \notin {"none", "dead"},
         worker'.pc \notin {"open", "write"},
         UNCHANGED <<disk, temp, uploads, get, answers, view, crashes>>,
         active' \in BOOLEAN, stored' \subseteq File, stored \subseteq stored',
         worker'.report = "indexed" => worker'.file \in stored'
  PROVE  IInv'
<1>1. TypeOK'
  BY DEF IInv, TypeOK
<1>2. RecordsTrue'
  BY DEF IInv, RecordsTrue, True
<1>3. ReportTrue'
  BY DEF ReportTrue
<1>4. HaveRecords'
  BY DEF IInv, HaveRecords
<1> QED  BY <1>1, <1>2, <1>3, <1>4 DEF IInv

LEMMA BeginOK == ASSUME IInv, Begin PROVE IInv'
<1>1. worker \in Worker /\ worker.pc = "scheduled" /\ worker' = [worker EXCEPT !.pc = "read"]
  BY DEF IInv, TypeOK, Begin
<1>2. /\ worker' \in Worker /\ worker'.copy = worker.copy /\ worker'.pc = "read"
      /\ worker'.report = worker.report /\ worker'.file = worker.file
  BY <1>1 DEF Worker
<1> QED  BY <1>1, <1>2, MovesOK DEF IInv, TypeOK, ReportTrue, Begin

\* What the worker does after a report, written or not.
LEMMA NextFileOK ==
  ASSUME NEW w \in Worker
  PROVE  /\ NextFile(w) \in Worker /\ NextFile(w).copy = w.copy /\ NextFile(w).out = w.out
         /\ NextFile(w).pc = "read" /\ NextFile(w).report \in {"parsing", "end"}
<1>1. CASE w.file < Files
  <2>1. w.file + 1 \in File /\ "parsing" \in Report
    BY <1>1, JobConstants DEF Worker, File, Report
  <2>2. NextFile(w) = [w EXCEPT !.pc = "read", !.report = "parsing", !.file = w.file + 1]
    BY <1>1 DEF NextFile, Worker
  <2>3. [w EXCEPT !.pc = "read", !.report = "parsing", !.file = w.file + 1] \in Worker
    BY <2>1 DEF Worker
  <2> QED  BY <2>2, <2>3 DEF Worker
<1>2. CASE ~(w.file < Files)
  <2>1. "end" \in Report
    BY DEF Report
  <2>2. NextFile(w) = [w EXCEPT !.pc = "read", !.report = "end", !.ok = w.any]
    BY <1>2 DEF NextFile
  <2>3. [w EXCEPT !.pc = "read", !.report = "end", !.ok = w.any] \in Worker
    BY <2>1 DEF Worker
  <2> QED  BY <2>2, <2>3 DEF Worker
<1> QED  BY <1>1, <1>2

LEMMA DoneOK ==
  ASSUME NEW w \in Worker
  PROVE  /\ Done(w) \in Worker /\ Done(w).copy = w.copy /\ Done(w).out = w.out
         /\ Done(w).pc \in {"read", "load", "store", "finally"}
         /\ Done(w).report = "indexed" => w.report = "indexed" /\ Done(w).file = w.file
<1>1. w.report \in Report
  BY DEF Worker
<1>2. CASE w.report = "running"
  BY <1>2 DEF Done, Worker, Report
<1>3. CASE w.report = "parsing"
  BY <1>3 DEF Done, Worker, Report
<1>4. CASE w.report = "embedding"
  BY <1>4 DEF Done, Worker, Report
<1>5. CASE w.report \in {"indexed", "failed", "rescue"}
  <2>1. Done(w) = NextFile(w)
    BY <1>5 DEF Done
  <2> QED  BY <2>1, NextFileOK
<1>6. CASE w.report \in {"end", "end_again"}
  BY <1>6 DEF Done, Worker, Report
<1> QED  BY <1>1, <1>2, <1>3, <1>4, <1>5, <1>6 DEF Report

LEMMA RaisedOK ==
  ASSUME NEW w \in Worker
  PROVE  /\ Raised(w) \in Worker /\ Raised(w).copy = w.copy /\ Raised(w).out = w.out
         /\ Raised(w).pc \in {"read", "finally"}
         /\ Raised(w).report # "indexed"
<1>1. w.report \in Report
  BY DEF Worker
<1>2. CASE w.report = "rescue"
  BY <1>2 DEF Raised, Worker, Report
<1>3. CASE w.report \in {"running", "end"}
  <2>1. Raised(w) = [w EXCEPT !.pc = "read", !.report = "end_again", !.ok = FALSE]
    BY <1>3 DEF Raised
  <2>2. [w EXCEPT !.pc = "read", !.report = "end_again", !.ok = FALSE] \in Worker
    BY DEF Worker, Report
  <2> QED  BY <2>1, <2>2 DEF Worker
<1>4. CASE w.report = "end_again"
  BY <1>4 DEF Raised, Worker, Report
<1>5. CASE w.report \in {"parsing", "embedding", "indexed", "failed"}
  BY <1>5 DEF Raised, Worker, Report
<1> QED  BY <1>1, <1>2, <1>3, <1>4, <1>5 DEF Report

LEMMA ReadRecordOK == ASSUME IInv, ReadRecord PROVE IInv'
<1>0. CASE disk \in Unreadable
  <2>1. worker \in Worker /\ worker.pc = "read" /\ worker' = Done(worker)
    BY <1>0 DEF IInv, TypeOK, ReadRecord
  <2>2. /\ worker' \in Worker /\ worker'.copy = worker.copy /\ worker'.pc \notin {"open", "write"}
        /\ worker'.report = "indexed" => worker.report = "indexed" /\ worker'.file = worker.file
    BY <2>1, DoneOK
  <2> QED  BY <2>1, <2>2, MovesOK DEF IInv, TypeOK, ReportTrue, ReadRecord
<1> SUFFICES ASSUME disk \notin Unreadable PROVE IInv'
  BY <1>0
<1>1. /\ worker \in Worker /\ worker.pc = "read"
      /\ worker' = [worker EXCEPT !.pc = "open", !.copy = Reported(disk)]
  BY DEF IInv, TypeOK, ReadRecord
<1>2. disk \in Job /\ True(disk, stored)
  BY <1>1 DEF IInv, TypeOK, HaveRecords, RecordsTrue, Unreadable
<1>3. Reported(disk) \in Job /\ True(Reported(disk), stored)
  BY <1>1, <1>2, ReportedOK DEF IInv, ReportTrue
<1>4. /\ worker' \in Worker /\ worker'.copy = Reported(disk) /\ worker'.pc = "open"
      /\ worker'.report = worker.report /\ worker'.file = worker.file
  <2> DEFINE r == Reported(disk)
  <2>1. r \in Job
    BY <1>3
  <2> HIDE DEF r
  <2>2. [worker EXCEPT !.pc = "open", !.copy = r] \in Worker
    BY <1>1, <2>1 DEF Worker
  <2> QED  BY <1>1, <2>2 DEF Worker, r
<1>5. TypeOK'
  BY <1>4 DEF IInv, TypeOK, ReadRecord
<1>6. RecordsTrue'
  BY <1>3, <1>4 DEF IInv, RecordsTrue, ReadRecord
<1>7. ReportTrue'
  BY <1>4 DEF IInv, ReportTrue, ReadRecord
<1>8. HaveRecords'
  BY <1>1, <1>3, <1>4, JobConstants DEF IInv, HaveRecords, ReadRecord
<1> QED  BY <1>5, <1>6, <1>7, <1>8 DEF IInv

LEMMA OpenTempOK == ASSUME IInv, OpenTemp PROVE IInv'
<1>1. /\ worker \in Worker /\ worker.pc = "open" /\ temp' = Empty
      /\ worker' = [worker EXCEPT !.pc = "write", !.out = "temp"]
      /\ UNCHANGED <<disk, uploads, stored, active, get, answers, view, crashes>>
  BY DEF IInv, TypeOK, OpenTemp
<1>2. /\ worker' \in Worker /\ worker'.copy = worker.copy /\ worker'.pc = "write"
      /\ worker'.report = worker.report /\ worker'.file = worker.file
  BY <1>1 DEF Worker, Path
<1>3. TypeOK'
  BY <1>1, <1>2 DEF IInv, TypeOK
<1>4. RecordsTrue'
  BY <1>1, <1>2 DEF IInv, RecordsTrue, True
<1>5. ReportTrue' /\ HaveRecords'
  BY <1>1, <1>2 DEF IInv, ReportTrue, HaveRecords
<1> QED  BY <1>3, <1>4, <1>5 DEF IInv

\* Whichever file gets the copy holds it then, or nothing that can be read.
LEMMA PutOK ==
  ASSUME TypeOK, RecordsTrue, NEW path, NEW copy \in Job, True(copy, stored), Put(path, copy)
  PROVE  /\ disk' \in Job \cup {NoJob, Empty, Torn} /\ temp' \in Job \cup {NoJob, Empty, Torn}
         /\ True(disk', stored) /\ True(temp', stored)
         /\ disk # NoJob => disk' # NoJob
<1>1. temp' \in {temp, copy, Torn} /\ disk' \in {disk, copy, Torn}
  BY DEF Put, Written
<1>2. copy # NoJob /\ Torn # NoJob
  BY JobConstants
<1>3. True(Torn, stored)
  BY DEF True
<1> QED  BY <1>1, <1>2, <1>3 DEF TypeOK, RecordsTrue

LEMMA WriteTempOK == ASSUME IInv, WriteTemp PROVE IInv'
<1>1. /\ worker \in Worker /\ worker.pc = "write" /\ disk # NoJob
      /\ worker.copy \in Job /\ True(worker.copy, stored)
      /\ worker' = [worker EXCEPT !.pc = "rename", !.copy = NoJob, !.out = "none"]
      /\ UNCHANGED <<uploads, stored, active, get, answers, view, crashes>>
  BY DEF IInv, TypeOK, HaveRecords, RecordsTrue, WriteTemp, Worker
<1>2. /\ worker' \in Worker /\ worker'.copy = NoJob /\ worker'.pc = "rename"
      /\ worker'.report = worker.report /\ worker'.file = worker.file
  BY <1>1 DEF Worker, Path
<1>3. /\ disk' \in Job \cup {NoJob, Empty, Torn} /\ temp' \in Job \cup {NoJob, Empty, Torn}
      /\ True(disk', stored) /\ True(temp', stored) /\ disk' # NoJob
  BY <1>1, PutOK DEF IInv, WriteTemp
<1>4. TypeOK'
  BY <1>1, <1>2, <1>3 DEF IInv, TypeOK
<1>5. RecordsTrue'
  BY <1>1, <1>2, <1>3 DEF IInv, RecordsTrue, True
<1>6. ReportTrue' /\ HaveRecords'
  BY <1>1, <1>2, <1>3 DEF IInv, ReportTrue, HaveRecords
<1> QED  BY <1>4, <1>5, <1>6 DEF IInv

\* A rename changes where the file is that the other one has open.
LEMMA MovedOK == ASSUME NEW path \in Path PROVE Moved(path) \in Path
BY DEF Moved, Path

LEMMA MovedWorkerOK ==
  ASSUME NEW w \in Worker, NEW v, v = [w EXCEPT !.out = Moved(@)]
  PROVE  /\ v \in Worker /\ v.pc = w.pc /\ v.copy = w.copy
         /\ v.report = w.report /\ v.file = w.file /\ v.out = Moved(w.out)
<1> DEFINE m == Moved(w.out)
<1>1. m \in Path
  BY MovedOK DEF Worker
<1>2. v = [w EXCEPT !.out = m]
  OBVIOUS
<1> HIDE DEF m
<1>3. v \in Worker
  BY <1>1, <1>2 DEF Worker
<1>4. v.out = m /\ v.pc = w.pc /\ v.copy = w.copy /\ v.report = w.report /\ v.file = w.file
  BY <1>2 DEF Worker
<1> QED  BY <1>3, <1>4 DEF m

LEMMA MovedGetOK ==
  ASSUME NEW g \in Get, NEW v, v = [g EXCEPT !.out = Moved(@)]
  PROVE  v \in Get /\ v.pc = g.pc /\ v.copy = g.copy /\ v.out = Moved(g.out)
<1> DEFINE m == Moved(g.out)
<1>1. m \in Path
  BY MovedOK DEF Get
<1>2. v = [g EXCEPT !.out = m]
  OBVIOUS
<1> HIDE DEF m
<1>3. v \in Get
  BY <1>1, <1>2 DEF Get
<1>4. v.out = m /\ v.pc = g.pc /\ v.copy = g.copy
  BY <1>2 DEF Get
<1> QED  BY <1>3, <1>4 DEF m

LEMMA RenameOK == ASSUME IInv, Rename PROVE IInv'
<1>1. /\ worker \in Worker /\ get \in Get /\ worker.pc = "rename" /\ disk # NoJob
      /\ UNCHANGED <<uploads, stored, active, answers, view, crashes>>
  BY DEF IInv, TypeOK, HaveRecords, Rename
<1>2. CASE /\ temp # NoJob /\ disk' = temp /\ temp' = NoJob
           /\ worker' = Done(worker) /\ get' = [get EXCEPT !.out = Moved(@)]
  <2>1. /\ worker' \in Worker /\ worker'.copy = worker.copy /\ worker'.pc \notin {"open", "write"}
        /\ worker'.report = "indexed" => worker.report = "indexed" /\ worker'.file = worker.file
    BY <1>1, <1>2, DoneOK
  <2>2. get' \in Get /\ get'.pc = get.pc /\ get'.copy = get.copy
    BY <1>1, <1>2, MovedGetOK
  <2>3. TypeOK'
    BY <1>1, <1>2, <2>1, <2>2 DEF IInv, TypeOK
  <2>4. RecordsTrue'
    BY <1>1, <1>2, <2>1, <2>2 DEF IInv, RecordsTrue, True
  <2>5. ReportTrue' /\ HaveRecords'
    BY <1>1, <1>2, <2>1, <2>2 DEF IInv, ReportTrue, HaveRecords
  <2> QED  BY <2>3, <2>4, <2>5 DEF IInv
<1>3. CASE temp = NoJob /\ worker' = Raised(worker) /\ UNCHANGED <<disk, temp, get>>
  <2>1. /\ worker' \in Worker /\ worker'.copy = worker.copy /\ worker'.pc \notin {"open", "write"}
        /\ worker'.report # "indexed"
    BY <1>1, <1>3, RaisedOK
  <2>2. active' \in BOOLEAN /\ stored' \subseteq File
    BY <1>1 DEF IInv, TypeOK
  <2> QED  BY <1>1, <1>3, <2>1, <2>2, MovesOK
<1> QED  BY <1>2, <1>3 DEF Rename

LEMMA LoadFileOK == ASSUME IInv, LoadFile PROVE IInv'
<1>1. worker \in Worker /\ worker.pc = "load"
  BY DEF IInv, TypeOK, LoadFile
<1>2. PICK r \in {"embedding", "failed", "rescue"} :
        worker' = [worker EXCEPT !.pc = "read", !.report = r]
  BY DEF LoadFile
<1>3. r \in Report
  BY DEF Report
<1>4. /\ worker' \in Worker /\ worker'.copy = worker.copy /\ worker'.pc = "read"
      /\ worker'.report = r
  BY <1>1, <1>2, <1>3 DEF Worker
<1> QED  BY <1>1, <1>4, MovesOK DEF IInv, TypeOK, LoadFile

LEMMA StoreFileOK == ASSUME IInv, StoreFile PROVE IInv'
<1>1. worker \in Worker /\ worker.pc = "store" /\ worker.file \in File
  BY DEF IInv, TypeOK, StoreFile, Worker
<1>2. CASE /\ worker' = [worker EXCEPT !.pc = "read", !.report = "indexed", !.any = TRUE]
           /\ stored' = stored \cup {worker.file}
  <2>1. [worker EXCEPT !.pc = "read", !.report = "indexed", !.any = TRUE] \in Worker
    BY <1>1 DEF Worker, Report
  <2>2. /\ worker' \in Worker /\ worker'.copy = worker.copy /\ worker'.pc = "read"
        /\ worker'.file = worker.file
    BY <1>1, <1>2, <2>1 DEF Worker
  <2> QED  BY <1>1, <1>2, <2>2, MovesOK DEF IInv, TypeOK, StoreFile
<1>3. CASE /\ \E r \in {"failed", "rescue"} :
                worker' = [worker EXCEPT !.pc = "read", !.report = r]
           /\ stored' \in {stored, stored \cup {worker.file}}
  <2>1. PICK r \in {"failed", "rescue"} :
          worker' = [worker EXCEPT !.pc = "read", !.report = r]
    BY <1>3
  <2>2. /\ worker' \in Worker /\ worker'.copy = worker.copy /\ worker'.pc = "read"
        /\ worker'.report = r
    BY <1>1, <2>1 DEF Worker, Report
  <2> QED  BY <1>1, <1>3, <2>2, MovesOK DEF IInv, TypeOK, StoreFile
<1> QED  BY <1>2, <1>3 DEF StoreFile

LEMMA CleanUpOK == ASSUME IInv, CleanUp PROVE IInv'
<1>1. worker' = [NoWorker EXCEPT !.pc = "over"] /\ 1 \in File
  BY JobConstants DEF CleanUp, File
<1>2. /\ worker' \in Worker /\ worker'.copy = NoJob /\ worker'.pc = "over"
      /\ worker'.report = "running"
  BY <1>1 DEF NoWorker, Worker, Report, Path
<1>3. TypeOK'
  BY <1>2 DEF IInv, CleanUp, TypeOK
<1>4. RecordsTrue'
  BY <1>2 DEF IInv, CleanUp, RecordsTrue, True
<1>5. ReportTrue' /\ HaveRecords'
  BY <1>2 DEF IInv, CleanUp, ReportTrue, HaveRecords
<1> QED  BY <1>3, <1>4, <1>5 DEF IInv

-----------------------------------------------------------------------------
(***************************************************************************)
(* The status request, the page, and a restart of the backend.             *)
(***************************************************************************)
LEMMA AnswerOK ==
  ASSUME TypeOK, NEW status \in JobStatus, Answer(status)
  PROVE  answers' \subseteq JobStatus
BY DEF Answer, TypeOK

LEMMA GetJobOK == ASSUME IInv, GetJob PROVE IInv'
<1>1. disk \in Job /\ disk # NoJob /\ True(disk, stored)
  BY DEF IInv, GetJob, TypeOK, HaveRecords, RecordsTrue, JobStatus, Terminal, Unreadable
<1>2. /\ get' \in Get /\ get'.pc = "check" /\ get'.copy = disk
      /\ UNCHANGED <<disk, temp, uploads, stored, worker, active, answers, view, crashes>>
  BY <1>1 DEF GetJob, NoGet, Get, Path
<1>3. TypeOK'
  BY <1>2 DEF IInv, TypeOK
<1>4. RecordsTrue'
  BY <1>1, <1>2 DEF IInv, RecordsTrue
<1>5. ReportTrue' /\ HaveRecords'
  BY <1>1, <1>2 DEF IInv, ReportTrue, HaveRecords
<1> QED  BY <1>3, <1>4, <1>5 DEF IInv

LEMMA CheckOrphanOK == ASSUME IInv, CheckOrphan PROVE IInv'
<1>1. /\ get \in Get /\ get.pc = "check" /\ get.copy # NoJob /\ disk # NoJob
      /\ get.copy \in Job /\ True(get.copy, stored)
  BY DEF IInv, CheckOrphan, TypeOK, HaveRecords, RecordsTrue, Get
<1>2. UNCHANGED <<disk, temp, uploads, stored, worker, active, view, crashes>>
  BY DEF CheckOrphan
<1>3. /\ get' \in Get /\ answers' \subseteq JobStatus /\ True(get'.copy, stored)
      /\ get'.pc \in {"idle", "open"} /\ (get'.pc = "open" => get'.copy # NoJob)
  <2>1. CASE Orphan(get.copy)
    <3>1. Interrupted(get.copy) \in Job /\ True(Interrupted(get.copy), stored)
      BY <1>1, InterruptedOK
    <3>2. /\ get' = [get EXCEPT !.pc = "open", !.copy = Interrupted(get.copy)]
          /\ answers' = answers
      BY <2>1 DEF CheckOrphan
    <3> DEFINE i == Interrupted(get.copy)
    <3>3. i \in Job /\ True(i, stored) /\ i # NoJob
      BY <3>1, RecordIsFile
    <3> HIDE DEF i
    <3>4. [get EXCEPT !.pc = "open", !.copy = i] \in Get
      BY <1>1, <3>3 DEF Get
    <3>5. get' \in Get /\ get'.pc = "open" /\ get'.copy = i
      BY <1>1, <3>2, <3>4 DEF Get, i
    <3> QED  BY <3>2, <3>3, <3>5 DEF IInv, TypeOK
  <2>2. CASE ~Orphan(get.copy)
    <3>1. get' = NoGet /\ Answer(get.copy.status) /\ get.copy.status \in JobStatus
      BY <1>1, <2>2 DEF CheckOrphan, Job
    <3>2. answers' \subseteq JobStatus
      BY <3>1, AnswerOK DEF IInv
    <3> QED  BY <3>1, <3>2 DEF NoGet, Get, Path, True
  <2> QED  BY <2>1, <2>2
<1>4. TypeOK'
  BY <1>2, <1>3 DEF IInv, TypeOK
<1>5. RecordsTrue'
  BY <1>2, <1>3 DEF IInv, RecordsTrue
<1>6. ReportTrue' /\ HaveRecords'
  BY <1>1, <1>2, <1>3 DEF IInv, ReportTrue, HaveRecords
<1> QED  BY <1>4, <1>5, <1>6 DEF IInv

LEMMA OpenInterruptedOK == ASSUME IInv, OpenInterrupted PROVE IInv'
<1>1. /\ get \in Get /\ get.pc = "open" /\ temp' = Empty
      /\ get' = [get EXCEPT !.pc = "write", !.out = "temp"]
      /\ UNCHANGED <<disk, uploads, stored, worker, active, answers, view, crashes>>
  BY DEF IInv, TypeOK, OpenInterrupted
<1>2. get' \in Get /\ get'.pc = "write" /\ get'.copy = get.copy
  BY <1>1 DEF Get, Path
<1>3. TypeOK'
  BY <1>1, <1>2 DEF IInv, TypeOK
<1>4. RecordsTrue'
  BY <1>1, <1>2 DEF IInv, RecordsTrue, True
<1>5. ReportTrue' /\ HaveRecords'
  BY <1>1, <1>2 DEF IInv, ReportTrue, HaveRecords
<1> QED  BY <1>3, <1>4, <1>5 DEF IInv

LEMMA WriteInterruptedOK == ASSUME IInv, WriteInterrupted PROVE IInv'
<1>1. /\ get \in Get /\ get.pc = "write" /\ disk # NoJob
      /\ get.copy \in Job /\ True(get.copy, stored)
      /\ UNCHANGED <<uploads, stored, worker, active, answers, view, crashes>>
  BY DEF IInv, WriteInterrupted, TypeOK, HaveRecords, RecordsTrue, Get
<1>2. get' \in Get /\ get'.pc = "rename" /\ get'.copy = NoJob
  BY DEF WriteInterrupted, NoGet, Get, Path
<1>3. /\ disk' \in Job \cup {NoJob, Empty, Torn} /\ temp' \in Job \cup {NoJob, Empty, Torn}
      /\ True(disk', stored) /\ True(temp', stored) /\ disk' # NoJob
  BY <1>1, PutOK DEF IInv, WriteInterrupted
<1>4. TypeOK'
  BY <1>1, <1>2, <1>3 DEF IInv, TypeOK
<1>5. RecordsTrue'
  BY <1>1, <1>2, <1>3 DEF IInv, RecordsTrue, True
<1>6. ReportTrue' /\ HaveRecords'
  BY <1>1, <1>2, <1>3 DEF IInv, ReportTrue, HaveRecords
<1> QED  BY <1>4, <1>5, <1>6 DEF IInv

LEMMA RenameInterruptedOK == ASSUME IInv, RenameInterrupted PROVE IInv'
<1>1. /\ get' = NoGet /\ disk # NoJob /\ worker \in Worker
      /\ UNCHANGED <<uploads, stored, active, view, crashes>>
      /\ \/ /\ temp # NoJob /\ disk' = temp /\ temp' = NoJob /\ Answer("interrupted")
            /\ worker' = [worker EXCEPT !.out = Moved(@)]
         \/ UNCHANGED <<disk, temp, worker, answers>>
  BY DEF IInv, RenameInterrupted, HaveRecords, TypeOK
<1>2. get' \in Get /\ get'.pc = "idle" /\ get'.copy = NoJob
  BY <1>1 DEF NoGet, Get, Path
<1>3. "interrupted" \in JobStatus
  BY DEF JobStatus, Terminal
<1>4. answers' \subseteq JobStatus
  BY <1>1, <1>3, AnswerOK DEF IInv, TypeOK
<1>5. /\ worker' \in Worker /\ worker'.pc = worker.pc /\ worker'.copy = worker.copy
      /\ worker'.report = worker.report /\ worker'.file = worker.file
  BY <1>1, MovedWorkerOK
<1>6. TypeOK'
  BY <1>1, <1>2, <1>4, <1>5 DEF IInv, TypeOK
<1>7. RecordsTrue'
  BY <1>1, <1>2, <1>5 DEF IInv, RecordsTrue, True
<1>8. ReportTrue' /\ HaveRecords'
  BY <1>1, <1>2, <1>5 DEF IInv, ReportTrue, HaveRecords
<1> QED  BY <1>6, <1>7, <1>8 DEF IInv

LEMMA ShowOK == ASSUME IInv, Show PROVE IInv'
<1>1. PICK s \in answers : /\ view' = s
                           /\ answers' = IF s \in Terminal THEN {} ELSE answers \ {s}
  BY DEF Show
<1>2. UNCHANGED <<disk, temp, uploads, stored, worker, active, get, crashes>>
  BY DEF Show
<1>3. s \in JobStatus /\ answers' \subseteq JobStatus /\ disk # NoJob
  BY <1>1 DEF IInv, TypeOK, HaveRecords
<1>4. TypeOK'
  BY <1>1, <1>2, <1>3 DEF IInv, TypeOK
<1>5. RecordsTrue' /\ ReportTrue' /\ HaveRecords'
  BY <1>2, <1>3 DEF IInv, RecordsTrue, ReportTrue, HaveRecords
<1> QED  BY <1>4, <1>5 DEF IInv

LEMMA CrashOK == ASSUME IInv, Crash PROVE IInv'
<1>1. PICK p \in {"dead", "none"} : worker' = [NoWorker EXCEPT !.pc = p]
  BY DEF Crash
<1>2. /\ get' = NoGet /\ answers' = {} /\ active' = FALSE
      /\ UNCHANGED <<disk, temp, uploads, stored, view>>
  BY DEF Crash
<1>3. 1 \in File
  BY JobConstants DEF File
<1>4. /\ worker' \in Worker /\ worker'.copy = NoJob /\ worker'.pc = p
      /\ worker'.report = "running"
  BY <1>1, <1>3 DEF NoWorker, Worker, Report, Path
<1>5. get' \in Get /\ get'.pc = "idle" /\ get'.copy = NoJob
  BY <1>2 DEF NoGet, Get, Path
<1>6. crashes' \in 0..MaxCrashes
  BY JobConstants DEF IInv, TypeOK, Crash
<1>7. TypeOK'
  BY <1>2, <1>4, <1>5, <1>6 DEF IInv, TypeOK
<1>8. RecordsTrue'
  BY <1>2, <1>4, <1>5 DEF IInv, RecordsTrue, True
<1>9. ReportTrue' /\ HaveRecords'
  BY <1>2, <1>4, <1>5 DEF IInv, ReportTrue, HaveRecords
<1> QED  BY <1>7, <1>8, <1>9 DEF IInv

LEMMA NextOK == IInv /\ [Next]_vars => IInv'
<1> SUFFICES ASSUME IInv, [Next]_vars PROVE IInv'
  OBVIOUS
<1>1. CASE SaveUploads \/ SaveJob \/ Age
  BY <1>1, SaveUploadsOK, SaveJobOK, AgeOK
<1>2. CASE WorkerStep
  BY <1>2, BeginOK, ReadRecordOK, OpenTempOK, WriteTempOK, RenameOK, LoadFileOK, StoreFileOK, CleanUpOK
     DEF WorkerStep
<1>3. CASE GetStep
  BY <1>3, GetJobOK, CheckOrphanOK, OpenInterruptedOK, WriteInterruptedOK, RenameInterruptedOK DEF GetStep
<1>4. CASE Show \/ Crash
  BY <1>4, ShowOK, CrashOK
<1>5. CASE UNCHANGED vars
  BY <1>5 DEF vars, IInv, TypeOK, RecordsTrue, ReportTrue, HaveRecords
<1> QED  BY <1>1, <1>2, <1>3, <1>4, <1>5 DEF Next

LEMMA Inductive == Spec => []IInv
BY InitOK, NextOK, PTL DEF Spec

-----------------------------------------------------------------------------
\* The record, its copies and the temporary file are records of a job wherever
\* the worker, the request and a crash interleave.
THEOREM JobsTypeCorrect == Spec => []TypeOK
<1>1. IInv => TypeOK
  BY DEF IInv
<1> QED  BY Inductive, <1>1, PTL

\* No record says of a file that it is indexed unless its chunks are in the
\* vector store, whichever thread's copy either thread renames.
THEOREM IndexedAlwaysStored == Spec => []IndexedIsStored
<1>1. IInv => IndexedIsStored
  BY DEF IInv, RecordsTrue, True, IndexedIsStored
<1> QED  BY Inductive, <1>1, PTL

-----------------------------------------------------------------------------
(***************************************************************************)
(* Who tears the record.  While no request opens the temporary file, the   *)
(* worker finds it as it left it: truncated until it writes, and a whole   *)
(* record when it renames.                                                 *)
(***************************************************************************)
Alone ==
  /\ get.pc \in {"idle", "check"} /\ get.out = "none"
  /\ disk \notin Unreadable
  /\ worker.pc = "write" => worker.out = "temp" /\ temp = Empty
  /\ worker.pc = "rename" => temp \notin Unreadable

LEMMA InitAlone == Init => Alone
BY JobConstants DEF Init, Alone, NoWorker, NoGet, Unreadable

\* A step that leaves the files as they are and does not come before a write.
LEMMA AloneMoves ==
  ASSUME Alone, worker'.pc \notin {"write", "rename"} \/ UNCHANGED worker,
         get'.pc \in {"idle", "check"}, get'.out = "none", UNCHANGED <<disk, temp>>
  PROVE  Alone'
BY DEF Alone

LEMMA NextAlone ==
  ASSUME TypeOK, HaveRecords, Alone, [Next]_vars, get'.pc # "open"
  PROVE  Alone'
<1> USE DEF Alone
<1>0. worker \in Worker /\ get \in Get /\ temp \in Job \cup {NoJob, Empty, Torn}
  BY DEF TypeOK
<1>1. CASE SaveUploads \/ Show \/ UNCHANGED vars
  BY <1>1 DEF SaveUploads, Show, vars
<1>2. CASE SaveJob
  <2>1. disk' \notin Unreadable
    BY <1>2, NewJobOK, RecordIsFile DEF SaveJob, Unreadable
  <2>2. worker'.pc = "scheduled" /\ UNCHANGED get
    BY <1>2 DEF SaveJob, NoWorker
  <2> QED  BY <2>1, <2>2
<1>3. CASE Age
  <2>1. disk \in Job
    BY <1>3 DEF Age, TypeOK
  <2>2. disk' \in Job
    BY <1>3, <2>1 DEF Age, Job
  <2>3. disk' \notin Unreadable
    BY <2>2, RecordIsFile DEF Unreadable
  <2> QED  BY <1>3, <2>3 DEF Age
<1>4. CASE Begin \/ LoadFile \/ StoreFile \/ CleanUp
  <2>1. worker'.pc \notin {"write", "rename"}
    BY <1>0, <1>4 DEF Begin, LoadFile, StoreFile, CleanUp, Worker, NoWorker
  <2> QED  BY <1>4, <2>1, AloneMoves DEF Begin, LoadFile, StoreFile, CleanUp
<1>5. CASE ReadRecord
  <2>1. worker'.pc = "open" /\ UNCHANGED <<disk, temp, get>>
    BY <1>0, <1>5 DEF ReadRecord, Worker
  <2> QED  BY <2>1, AloneMoves
<1>6. CASE OpenTemp
  <2>1. worker'.pc = "write" /\ worker'.out = "temp" /\ temp' = Empty /\ UNCHANGED <<disk, get>>
    BY <1>0, <1>6 DEF OpenTemp, Worker
  <2> QED  BY <2>1
<1>7. CASE WriteTemp
  <2>1. /\ worker.out = "temp" /\ temp = Empty /\ worker.copy \in Job
        /\ worker'.pc = "rename"
    BY <1>0, <1>7 DEF WriteTemp, HaveRecords, Worker
  <2>2. temp' = worker.copy /\ UNCHANGED <<disk, get>>
    BY <1>7, <2>1 DEF WriteTemp, Put, Written
  <2>3. temp' \notin Unreadable
    BY <2>1, <2>2, RecordIsFile DEF Unreadable
  <2> QED  BY <2>1, <2>2, <2>3
<1>8. CASE Rename
  <2>1. CASE temp # NoJob /\ disk' = temp /\ worker' = Done(worker) /\ get' = [get EXCEPT !.out = Moved(@)]
    <3>1. worker'.pc \notin {"write", "rename"}
      BY <1>0, <2>1, DoneOK
    <3>2. disk' \notin Unreadable
      BY <1>8, <2>1 DEF Rename
    <3>3. get'.pc = get.pc /\ get'.out = "none"
      BY <1>0, <2>1, MovedGetOK DEF Moved
    <3> QED  BY <3>1, <3>2, <3>3
  <2>2. CASE worker' = Raised(worker) /\ UNCHANGED <<disk, temp, get>>
    <3>1. worker'.pc \notin {"write", "rename"}
      BY <1>0, <2>2, RaisedOK
    <3> QED  BY <2>2, <3>1, AloneMoves
  <2> QED  BY <1>8, <2>1, <2>2 DEF Rename
<1>9. CASE GetJob \/ CheckOrphan
  <2>1. CASE GetJob
    BY <2>1 DEF GetJob, NoGet
  <2>2. CASE CheckOrphan
    <3>1. get' = NoGet
      BY <1>0, <2>2 DEF CheckOrphan, Get
    <3> QED  BY <2>2, <3>1, AloneMoves DEF CheckOrphan, NoGet
  <2> QED  BY <1>9, <2>1, <2>2
<1>10. CASE OpenInterrupted \/ WriteInterrupted \/ RenameInterrupted
  BY <1>10 DEF OpenInterrupted, WriteInterrupted, RenameInterrupted
<1>11. CASE Crash
  <2>1. worker'.pc \in {"none", "dead"} /\ get' = NoGet /\ UNCHANGED <<disk, temp>>
    BY <1>11 DEF Crash, NoWorker
  <2> QED  BY <2>1, AloneMoves DEF NoGet
<1> QED
  BY <1>1, <1>2, <1>3, <1>4, <1>5, <1>6, <1>7, <1>8, <1>9, <1>10, <1>11
     DEF Next, WorkerStep, GetStep

\* Only a status request that declares the job interrupted can leave a record
\* that nobody can read: without one, the record is whole at every moment, also
\* when the backend dies between the truncation and the write.
THEOREM WorkerNeverTears == Spec => OnlyInterruptionsTear
<1>1. Init => Alone
  BY InitAlone
<1>2. IInv => TypeOK /\ HaveRecords
  BY DEF IInv
<1>3. IInv /\ Alone /\ [Next]_vars /\ (get.pc # "open")' => Alone'
  BY <1>2, NextAlone
<1>4. Alone => disk \notin Unreadable
  BY DEF Alone
<1> QED  BY <1>1, <1>3, <1>4, Inductive, PTL DEF Spec, OnlyInterruptionsTear
=============================================================================
