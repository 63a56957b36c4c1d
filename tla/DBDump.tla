------------------------------- MODULE DBDump -------------------------------
(***************************************************************************)
(* The schedules of database dumps in the CCVM: the requests of            *)
(* internal/handler/cube/db_dump.go, which edit root's crontab and the at  *)
(* spool with shell scripts, and the removal of old Python jobs by         *)
(* legacy_python_cron.go when the server starts.                           *)
(*                                                                         *)
(* A schedule is a comment, which checkBackup reads, and a command, which  *)
(* cron runs; or one at job.  A script lists the crontab, edits the copy   *)
(* and installs it; there is no lock.  What belongs to a schedule is found *)
(* by patterns that also match the directory in the command: a deletion in *)
(* a directory whose name contains "mysqldump" looks like a dump.          *)
(***************************************************************************)
EXTENDS Integers, FiniteSets

CONSTANTS
    Client,     \* requests
    Paths,      \* directories: "plain", or what word their names contain
    MaxFaults   \* scripts that fail

VARIABLES
    cron,       \* root's crontab: a set of lines
    at,         \* /var/spool/at: a set of commands
    req,        \* per request: its handler
    legacy,     \* AutoLegacyPythonCronCleanup
    wish,       \* history: per queue, the command that should be scheduled
    raced,      \* history: a crontab was installed over one that it was not made from,
                \* or two requests for one queue overlapped
    faults

vars == <<cron, at, req, legacy, wish, raced, faults>>

-----------------------------------------------------------------------------

Queue == {"r", "d"}             \* dbDumpBackupQueue, dbDumpDeleteQueue
\* The actions that change a schedule: regularBackup and deleteOldBackup; deactiveBackup.
Action == {"schedule", "clear"}
User == [queue |-> "none", part |-> "user", path |-> "plain", by |-> {}]
Python == [User EXCEPT !.part = "python"]
Nothing == [User EXCEPT !.part = "nothing"]     \* as a wish: no schedule
Unknown == [User EXCEPT !.part = "unknown"]     \* as a wish: a request has failed

Command(q, path, c) == [queue |-> q, part |-> "command", path |-> path, by |-> {c}]

\* The word in a path that makes the command of the other queue match the pattern of q.
Word(q) == IF q = "r" THEN "mysqldump" ELSE "delete"

\* The pattern of cleanupDBDumpSchedule: the commands of q, and every command with
\* ccvm_dump_ whose directory contains the word.
Pattern(q, l) == l.part = "command" /\ (l.queue = q \/ l.path = Word(q))
\* Mutant: the comment is left.
MarkedCommands(q, l) == Pattern(q, l)
\* Together with the marker in the comment.
Marked(q, l) == Pattern(q, l) \/ (l.part = "comment" /\ l.queue = q)

NoReq == [pc |-> "idle", action |-> "none", queue |-> "r", path |-> "plain", once |-> FALSE,
          copy |-> {}, base |-> {}]

Init ==
    /\ cron = {User, Python}
    /\ at = {}
    /\ req = [c \in Client |-> NoReq]
    /\ legacy = [pc |-> "idle", copy |-> {}]
    /\ wish = [q \in Queue |-> Nothing]
    /\ raced = FALSE /\ faults = 0

Fault == faults < MaxFaults /\ faults' = faults + 1
NoFault == UNCHANGED faults

\* crontab -l; when it fails the script goes on with nothing.
Listed(copy) ==
    \/ copy = cron /\ NoFault /\ UNCHANGED raced
    \/ copy = {} /\ Fault /\ raced' = TRUE

-----------------------------------------------------------------------------

Working(q) == \E c \in Client : req[c].pc \notin {"idle", "done"} /\ req[c].queue = q
\* The command that a request schedules.
Own(c) == Command(req[c].queue, req[c].path, c)
Goto(c, pc) == req' = [req EXCEPT ![c].pc = pc]
End(c) == req' = [req EXCEPT ![c] = [NoReq EXCEPT !.pc = "done"]]

\* A request is over: its queue should have the command w.
Decide(q, w) == wish' = [wish EXCEPT ![q] = w]

\* normalizeDBDumpRequest: only a schedule has a directory and a repetition.
Accepted(a, p, once) == a = "clear" => p = "plain" /\ ~once

\* DBDump accepts a request; a host sends it on to the CCVM.
Request(c) ==
    /\ req[c].pc = "idle"
    /\ \E a \in Action, q \in Queue, p \in Paths, once \in BOOLEAN :
          /\ Accepted(a, p, once)
          /\ req' = [req EXCEPT ![c] = [NoReq EXCEPT !.pc = "atrm", !.action = a, !.queue = q,
                                                     !.path = p, !.once = once]]
          /\ raced' = (raced \/ Working(q))
    /\ UNCHANGED <<cron, at, legacy, wish, faults>>

\* checkBackup and instantBackup leave the schedules alone.
Check(c) ==
    /\ req[c].pc = "idle"
    /\ req' = [req EXCEPT ![c].pc = "done"]
    /\ UNCHANGED <<cron, at, legacy, wish, raced, faults>>

\* A script that fails, or is killed when its time is over, leaves a schedule nobody has asked for.
Fails(c) ==
    /\ End(c) /\ Fault
    /\ Decide(req[c].queue, Unknown)

\* crontab -u root <file>.
Install(c) ==
    /\ cron' = req[c].copy
    /\ raced' = (raced \/ cron # req[c].base)

\* cleanupDBDumpSchedule removes the jobs from at's spool.  Its comparison with the
\* letter of the queue compares with an empty awk variable, so the pattern decides.
CleanAt(c) ==
    /\ req[c].pc = "atrm"
    /\ \/ /\ at' = {l \in at : ~Pattern(req[c].queue, l)}
          /\ Goto(c, "list") /\ NoFault /\ UNCHANGED wish
       \/ Fails(c) /\ UNCHANGED at
    /\ UNCHANGED <<cron, legacy, raced>>

\* It lists the crontab without the lines of the queue, ...
CleanList(c) ==
    /\ req[c].pc = "list"
    /\ \E copy \in SUBSET cron :
          /\ Listed(copy)
          /\ req' = [req EXCEPT ![c].pc = "install", ![c].base = cron,
                                ![c].copy = {l \in copy : ~Marked(req[c].queue, l)}]
    /\ UNCHANGED <<cron, at, legacy, wish>>

\* ... and installs it.  With that a deactivation is done.
CleanInstall(c) ==
    LET clear == req[c].action = "clear" IN
    /\ req[c].pc = "install"
    /\ \/ /\ Install(c)
          /\ IF clear THEN End(c) /\ Decide(req[c].queue, Nothing)
             ELSE Goto(c, IF req[c].once THEN "at" ELSE "append") /\ UNCHANGED wish
          /\ NoFault
       \/ Fails(c) /\ (Install(c) \/ UNCHANGED <<cron, raced>>)
    /\ UNCHANGED <<at, legacy>>

\* repeat "no": one at job.
ScheduleAt(c) ==
    /\ req[c].pc = "at"
    /\ \/ /\ at' = at \cup {Own(c)}
          /\ End(c) /\ Decide(req[c].queue, Own(c)) /\ NoFault
       \/ Fails(c) /\ UNCHANGED at
    /\ UNCHANGED <<cron, legacy, raced>>

\* appendDBDumpCrontab lists the crontab, adds comment and command, ...
AppendList(c) ==
    /\ req[c].pc = "append"
    /\ \E copy \in SUBSET cron :
          /\ Listed(copy)
          /\ req' = [req EXCEPT ![c].pc = "appended", ![c].base = cron,
                                ![c].copy = copy \cup {[Own(c) EXCEPT !.part = "comment"], Own(c)}]
    /\ UNCHANGED <<cron, at, legacy, wish>>

\* ... and installs it.
AppendInstall(c) ==
    /\ req[c].pc = "appended"
    /\ \/ /\ Install(c)
          /\ End(c) /\ Decide(req[c].queue, Own(c)) /\ NoFault
       \/ Fails(c) /\ (Install(c) \/ UNCHANGED <<cron, raced>>)
    /\ UNCHANGED <<at, legacy>>

\* An at job runs once.
AtRuns ==
    /\ \E l \in at :
          /\ at' = at \ {l}
          /\ wish' = IF wish[l.queue] = l THEN [wish EXCEPT ![l.queue] = Nothing] ELSE wish
    /\ UNCHANGED <<cron, req, legacy, raced, faults>>

-----------------------------------------------------------------------------
(* cleanupLegacyPythonCrontab, once in the life of the server's process.    *)

\* It reads the file and goes on if there is a Python job in it.
LegacyRead ==
    /\ legacy.pc = "idle"
    /\ legacy' = IF Python \in cron THEN [pc |-> "read", copy |-> cron] ELSE [legacy EXCEPT !.pc = "done"]
    /\ UNCHANGED <<cron, at, req, wish, raced, faults>>

\* It renames the rest into place.
LegacyReplace ==
    /\ legacy.pc = "read"
    /\ \/ /\ cron' = legacy.copy \ {Python}
          /\ raced' = (raced \/ cron # legacy.copy) /\ NoFault
       \/ Fault /\ UNCHANGED <<cron, raced>>
    /\ legacy' = [pc |-> "done", copy |-> {}]
    /\ UNCHANGED <<at, req, wish>>

\* The server in the CCVM starts again; the requests at work there end.
ServerRestarts ==
    /\ legacy.pc = "done" /\ Fault
    /\ legacy' = [pc |-> "idle", copy |-> {}]
    /\ req' = [c \in Client |-> IF req[c].pc = "idle" THEN req[c] ELSE [NoReq EXCEPT !.pc = "done"]]
    /\ wish' = [q \in Queue |-> IF Working(q) THEN Unknown ELSE wish[q]]
    /\ UNCHANGED <<cron, at, raced>>

-----------------------------------------------------------------------------

Next ==
    \/ \E c \in Client : Request(c) \/ Check(c)
    \/ \E c \in Client : CleanAt(c) \/ CleanList(c) \/ CleanInstall(c)
    \/ \E c \in Client : ScheduleAt(c) \/ AppendList(c) \/ AppendInstall(c)
    \/ AtRuns
    \/ LegacyRead \/ LegacyReplace \/ ServerRestarts

Spec == Init /\ [][Next]_vars

-----------------------------------------------------------------------------
(* Properties.                                                              *)

Scheduled(q) == {l \in cron \cup at : l.part = "command" /\ l.queue = q}
Reported(q) == {l \in cron : l.part = "comment" /\ l.queue = q}
\* The other queue's pattern matches this command.
Clash(l) == \E q \in Queue \ {l.queue} : l.path = Word(q)

\* What runs is the schedule of the last request that was answered with success, and nothing
\* else, and checkBackup reads no comment of another: each request clears the queue's cron
\* lines and at jobs before it adds its own.  The lines of others stay.  This needs that no
\* crontab was overwritten and that the directory does not contain the word the other queue's
\* pattern looks for.
RunsWhatWasAsked ==
    ~raced =>
        /\ User \in cron
        /\ \A q \in Queue : ~Working(q) /\ wish[q] # Unknown =>
             /\ Scheduled(q) \subseteq {wish[q]}
             /\ Reported(q) \subseteq {[wish[q] EXCEPT !.part = "comment"]}
             /\ wish[q] # Nothing /\ ~Clash(wish[q]) => wish[q] \in Scheduled(q)

=============================================================================
