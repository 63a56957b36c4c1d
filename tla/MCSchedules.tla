---------------------------- MODULE MCSchedules -----------------------------
(* What the server does by itself: the schedules of file backups and of       *)
(* database dumps, and its log files.  They share no state, so that one run   *)
(* checks all of them: in a behaviour one of them moves.                      *)
EXTENDS CCVMBackup, TLC

CONSTANTS
    DumpClient, Paths,                                          \* DBDump
    Routine, Job, Msg, NoOne, Retention, MaxDay, MaxTasks       \* ApiLog

VARIABLES
    subject,    \* which of them moves
    cron, at, req, legacy, dumpWish, dumpRaced, dumpFaults,
    day, log, archive, mu, run, jobStates, written, events, missed, tasks, logFaults

D == INSTANCE DBDump WITH Client <- DumpClient, wish <- dumpWish, raced <- dumpRaced, faults <- dumpFaults

L == INSTANCE ApiLog WITH faults <- logFaults

dumpVars == <<cron, at, req, legacy, dumpWish, dumpRaced, dumpFaults>>
logVars == <<day, log, archive, mu, run, jobStates, written, events, missed, tasks, logFaults>>

MCInit ==
    /\ Init /\ D!Init /\ L!Init
    /\ subject \in {"backups", "dumps", "logs"}
    /\ subject # "logs" => \A f \in L!File : log[f] = L!NoLog
    /\ dc = CHOOSE h \in Host : TRUE        \* the hosts are interchangeable
    /\ subject # "backups" => standalone

MCNext ==
    /\ UNCHANGED subject
    /\ \/ subject = "backups" /\ Next /\ UNCHANGED <<dumpVars, logVars>>
       \/ subject = "dumps" /\ D!Next /\ UNCHANGED <<vars, logVars>>
       \/ subject = "logs" /\ L!Next /\ UNCHANGED <<vars, dumpVars>>

MCSpec == MCInit /\ [][MCNext]_<<vars, dumpVars, logVars, subject>>

\* Goroutines differ only in their names.
Routines == Permutations(Routine)

-----------------------------------------------------------------------------

\* What runs is what was asked for: the file of backup schedules says what the answered requests
\* have scheduled, as long as no save has overwritten one it had not seen, and cron and at run
\* the dump schedules of the last requests that were answered with success.
SchedulesAsAsked == WishKept /\ D!RunsWhatWasAsked

\* The logs can be relied on: a line stays for the days of retention whatever interleaves with
\* its rotation and fails in it, and the job log has the transitions of each job in their order.
LogsAreTrue == L!LogsAreTrue

=============================================================================
