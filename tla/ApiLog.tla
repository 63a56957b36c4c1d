------------------------------- MODULE ApiLog -------------------------------
(***************************************************************************)
(* The log files of the server: api_logger.go writes, rotates and removes   *)
(* them, job_logger.go decides which results of background jobs are worth a *)
(* line.  Each of the three logs has a mutex.  A log that was last written  *)
(* on an earlier day is copied to the archive of that day and removed by    *)
(* whoever comes next; archives older than the retention are removed.       *)
(***************************************************************************)
EXTENDS Integers, Sequences

CONSTANTS
    Routine,        \* goroutines of requests, of jobs and of the rotation worker
    Job,            \* background jobs
    Msg,            \* what a job may fail with
    NoOne,
    Retention,      \* days: resolveRetentionDays
    MaxDay, MaxTasks, MaxFaults

File == {"api", "detail", "job"}
Day == 0..MaxDay
Ok == "ok"

VARIABLES
    day,            \* today
    log,            \* per log: its lines, and the day it was last written
    archive,        \* per log and day: lines, lines behind a copy that was cut off, whether there is one
    mu,             \* per log: who holds its mutex
    run,            \* per goroutine: the job it works for, and the steps that are left
    jobStates,      \* per job: Ok, or what it has failed with
    written,        \* history, per log: the lines and the day each was written
    events,         \* history, per job: what was written of it since the server has started
    missed,         \* history: the logs to which a line could not be written
    tasks, faults

vars == <<day, log, archive, mu, run, jobStates, written, events, missed, tasks, faults>>

NoLog == [lines |-> {}, mod |-> 0]
NoArchive == [lines |-> {}, behind |-> {}, torn |-> FALSE]
NoTask == [job |-> NoOne, todo |-> <<>>]

\* The server starts on a new machine, or finds the logs of an earlier time.
OldLine == <<"old", 0>>
Init ==
    /\ day = 0
    /\ \/ log = [f \in File |-> NoLog] /\ written = [f \in File |-> {}]
       \/ /\ log = [f \in File |-> [lines |-> {OldLine}, mod |-> 0]]
          /\ written = [f \in File |-> {<<OldLine, 0>>}]
    /\ archive = [f \in File |-> [d \in Day |-> NoArchive]]
    /\ mu = [f \in File |-> NoOne]
    /\ run = [r \in Routine |-> NoTask]
    /\ jobStates = [j \in Job |-> Ok]
    /\ events = [j \in Job |-> <<>>] /\ missed = {}
    /\ tasks = 0 /\ faults = 0

-----------------------------------------------------------------------------
(* The steps of a goroutine.                                                 *)

\* rotateLogIfNeeded.
Rotation(f) == << <<"archive", f>>, <<"remove", f>> >>
\* Mutant: without the mutex.
RotateUnlocked(f) == Rotation(f)
RotateLogWithLock(f) == << <<"lock", f>> >> \o Rotation(f) \o << <<"unlock", f>> >>
RotateConfiguredLogs ==
    RotateLogWithLock("api") \o RotateLogWithLock("detail") \o RotateLogWithLock("job") \o << <<"cleanup">> >>
\* writeJSONLog.
WriteJSONLog(f, line) == << <<"lock", f>> >> \o Rotation(f) \o << <<"append", f, line>>, <<"unlock", f>> >>

\* GinRequestLogger and AppendActionLog: failures also go to the detail log.
AppendLog(failed, n) ==
    RotateConfiguredLogs \o WriteJSONLog("api", n) \o (IF failed THEN WriteJSONLog("detail", n) ELSE <<>>)
AppendJobLog(event) == RotateConfiguredLogs \o WriteJSONLog("job", event)

-----------------------------------------------------------------------------

Does(r, op) == run[r].todo # <<>> /\ Head(run[r].todo)[1] = op
Now(r) == Head(run[r].todo)
\* r goes on after its next n steps; without a step left it has no job.
SkipSteps(r, n) ==
    LET todo == SubSeq(run[r].todo, n + 1, Len(run[r].todo)) IN
    run' = [run EXCEPT ![r] = IF todo = <<>> THEN NoTask ELSE [@ EXCEPT !.todo = todo]]
Fault == faults < MaxFaults /\ faults' = faults + 1

\* A goroutine begins to work.  The controller runs a job's handler once at a time.
Begin(r, job, todo) ==
    /\ run[r] = NoTask /\ tasks < MaxTasks
    /\ job # NoOne => \A q \in Routine : run[q].job # job
    /\ run' = [run EXCEPT ![r] = [job |-> job, todo |-> todo]]
    /\ tasks' = tasks + 1
    /\ UNCHANGED <<day, log, archive, mu, jobStates, written, events, missed, faults>>
GinRequestLogger(r) == \E failed \in BOOLEAN : Begin(r, NoOne, AppendLog(failed, <<"request", tasks>>))
RotationWorker(r) == Begin(r, NoOne, RotateConfiguredLogs)
JobEnds(r) == \E j \in Job, result \in Msg \cup {Ok} : Begin(r, j, << <<"mark", result>> >>)

\* Mutant: a failure is always worth a line.
MarkEvery(j, result) == result # Ok \/ jobStates[j] # Ok
\* markJobFailureChanged and markJobRecovered.
MarkChanged(j, result) == jobStates[j] # result
RecordJobResult(r) ==
    /\ Does(r, "mark")
    /\ LET j == run[r].job  result == Now(r)[2]  changed == MarkChanged(j, result) IN
       /\ jobStates' = [jobStates EXCEPT ![j] = result]
       /\ run' = [run EXCEPT ![r] = IF changed THEN [@ EXCEPT !.todo = AppendJobLog(<<j, result, tasks>>)] ELSE NoTask]
    /\ UNCHANGED <<day, log, archive, mu, written, events, missed, tasks, faults>>

Lock(r) ==
    /\ Does(r, "lock") /\ mu[Now(r)[2]] = NoOne
    /\ mu' = [mu EXCEPT ![Now(r)[2]] = r]
    /\ SkipSteps(r, 1)
    /\ UNCHANGED <<day, log, archive, jobStates, written, events, missed, tasks, faults>>
Unlock(r) ==
    /\ Does(r, "unlock")
    /\ mu' = [mu EXCEPT ![Now(r)[2]] = NoOne]
    /\ SkipSteps(r, 1)
    /\ UNCHANGED <<day, log, archive, jobStates, written, events, missed, tasks, faults>>

\* Lines that are appended to an archive after a copy that was cut off cannot be read.
Appended(a, lines) ==
    IF a.torn THEN [a EXCEPT !.behind = @ \cup lines] ELSE [a EXCEPT !.lines = @ \cup lines]
NeedsRotation(f) == log[f].lines # {} /\ log[f].mod < day

\* copyLogToArchive appends to the archive of the day the log was last written; when it fails
\* part of the lines is there and the log stays.
ArchiveLog(r) ==
    /\ Does(r, "archive")
    /\ LET f == Now(r)[2]  d == log[f].mod IN
       \/ ~NeedsRotation(f) /\ SkipSteps(r, 2) /\ UNCHANGED <<archive, faults>>
       \/ /\ NeedsRotation(f)
          /\ archive' = [archive EXCEPT ![f][d] = Appended(@, log[f].lines)]
          /\ SkipSteps(r, 1) /\ UNCHANGED faults
       \/ /\ NeedsRotation(f) /\ Fault
          /\ \E part \in SUBSET log[f].lines : archive' = [archive EXCEPT ![f][d] = Appended(@, part)]
          /\ SkipSteps(r, 2)
    /\ UNCHANGED <<day, log, mu, jobStates, written, events, missed, tasks>>
RemoveLog(r) ==
    /\ Does(r, "remove")
    /\ LET f == Now(r)[2] IN
       \/ log' = [log EXCEPT ![f] = NoLog] /\ UNCHANGED faults
       \/ Fault /\ UNCHANGED log
    /\ SkipSteps(r, 1)
    /\ UNCHANGED <<day, archive, mu, jobStates, written, events, missed, tasks>>

AppendLine(r) ==
    /\ Does(r, "append")
    /\ LET f == Now(r)[2]  line == Now(r)[3] IN
       \/ /\ log' = [log EXCEPT ![f] = [lines |-> @.lines \cup {line}, mod |-> day]]
          /\ written' = [written EXCEPT ![f] = @ \cup {<<line, day>>}]
          /\ events' = IF f = "job" THEN [events EXCEPT ![line[1]] = Append(@, line[2])] ELSE events
          /\ UNCHANGED <<missed, faults>>
       \/ Fault /\ missed' = missed \cup {f} /\ UNCHANGED <<log, written, events>>
    /\ SkipSteps(r, 1)
    /\ UNCHANGED <<day, archive, mu, jobStates, tasks>>

\* Mutant: one day less.
ExpiredEarly(d) == d <= day - Retention
Expired(d) == d < day - Retention
\* cleanupArchiveLogs, without a mutex: it reads the names of the archives and removes the old ones.
CleanupArchiveLogs(r) ==
    /\ Does(r, "cleanup")
    /\ archive' = [f \in File |-> [d \in Day |-> IF Expired(d) THEN NoArchive ELSE archive[f][d]]]
    /\ SkipSteps(r, 1)
    /\ UNCHANGED <<day, log, mu, jobStates, written, events, missed, tasks, faults>>

Midnight ==
    /\ day < MaxDay /\ day' = day + 1
    /\ UNCHANGED <<log, archive, mu, run, jobStates, written, events, missed, tasks, faults>>

\* The server is killed and starts again; a copy that was being written is cut off.
Restart ==
    /\ Fault
    /\ \/ UNCHANGED archive
       \/ \E r \in Routine :
             /\ Does(r, "archive") /\ NeedsRotation(Now(r)[2])
             /\ archive' = [archive EXCEPT ![Now(r)[2]][log[Now(r)[2]].mod].torn = TRUE]
    /\ mu' = [f \in File |-> NoOne]
    /\ run' = [r \in Routine |-> NoTask]
    /\ jobStates' = [j \in Job |-> Ok] /\ events' = [j \in Job |-> <<>>]
    /\ UNCHANGED <<day, log, written, missed, tasks>>

Step(r) ==
    \/ GinRequestLogger(r) \/ RotationWorker(r) \/ JobEnds(r)
    \/ RecordJobResult(r) \/ Lock(r) \/ Unlock(r) \/ ArchiveLog(r) \/ RemoveLog(r)
    \/ AppendLine(r) \/ CleanupArchiveLogs(r)
Next == (\E r \in Routine : Step(r)) \/ Midnight \/ Restart
Spec == Init /\ [][Next]_vars

-----------------------------------------------------------------------------

TypeOK ==
    /\ day \in Day /\ faults \in 0..MaxFaults /\ tasks \in 0..MaxTasks
    /\ mu \in [File -> Routine \cup {NoOne}]
    /\ jobStates \in [Job -> Msg \cup {Ok}]
    /\ \A f \in File : log[f].mod \in Day

\* A line that was written is in its log or in an archive for as many days as the retention
\* says, however requests, the worker and midnight interleave, and whichever copy or removal
\* fails.  After a copy was cut off by the end of the server it may be there and unreadable.
KeptForRetention ==
    \A f \in File : \A l \in written[f] :
        l[2] >= day - Retention =>
            \/ l[1] \in log[f].lines
            \/ \E d \in Day : l[1] \in archive[f][d].lines \/ (l[1] \in archive[f][d].behind /\ archive[f][d].torn)

\* The job log has the transitions of each job and no others, in their order: no failure twice in
\* a row, no recovery without a failure before it, and the last line says how the job ended last.
\* A job's state is marked before the line is written, without a lock over both: this holds
\* because no job runs twice at a time.
TransitionsOnly ==
    "job" \notin missed => \A j \in Job :
        /\ \A i \in 1..Len(events[j]) : events[j][i] # (IF i = 1 THEN Ok ELSE events[j][i - 1])
        /\ (\A r \in Routine : run[r].job # j) =>
               jobStates[j] = IF events[j] = <<>> THEN Ok ELSE events[j][Len(events[j])]

\* The logs can be relied on: no line is lost before its time, and the job log tells what happened to the jobs.
LogsAreTrue == KeptForRetention /\ TransitionsOnly

=============================================================================
