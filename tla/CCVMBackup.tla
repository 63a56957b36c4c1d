----------------------------- MODULE CCVMBackup -----------------------------
(***************************************************************************)
(* File backups of the CCVM on VM and standalone clusters, their schedule  *)
(* and the restore: internal/handler/cube/ccvm_backup_restore.go.          *)
(*                                                                         *)
(* virsh backup-begin returns while libvirt is still writing the file.     *)
(* The schedule is a file in the backup directory that all hosts share;    *)
(* requests and the schedulers of the hosts load it, change their copy and *)
(* save it, without a lock, and a scheduler makes its backup in between.   *)
(* A restore disables the CCVM in PCS, waits until it has stopped, copies  *)
(* the backup over its disk and enables it; on a standalone host it does   *)
(* so with virsh.  Nothing keeps two restores from running at once, and    *)
(* the loop over the PCS hosts starts a second one when a call times out.  *)
(***************************************************************************)
EXTENDS Integers, Sequences, SequencesExt

CONSTANTS
    Host,           \* the hosts, each with a scheduler
    Client,         \* requests of clients
    Actions,        \* what they may ask for
    Keep,           \* ccvmBackupMaxFiles
    Period,         \* minutes from one due time to the next
    MaxTime,        \* minutes
    MaxOld,         \* files that grow old enough to expire
    MaxFaults       \* calls and commands that fail, and changes of the DC

ASSUME CCVMBackupAssumption ==
    /\ Actions \subseteq {"backup", "restore", "list", "schedule", "unschedule", "schedule-delete", "unschedule-delete"}
    /\ "scheduler" \notin Client
    /\ Keep \in Nat \ {0} /\ Period \in Nat \ {0}
    /\ MaxTime \in Nat /\ MaxOld \in Nat /\ MaxFaults \in Nat

VARIABLES
    standalone, \* isCCVMBackupStandalone
    clock,      \* the minute
    ticked,     \* per host: the minute its scheduler has last woken up in
    dc,         \* PCS's current DC; the only host of a standalone cluster
    task,       \* the handlers of requests (two if a call is lost) and the schedulers
    config,     \* ccvm-backup-config.json
    files,      \* the backup files, oldest first
    made,       \* the number of backup files so far
    vm,         \* whether the CCVM runs
    wanted,     \* whether PCS (or, standalone, the operator's last virsh command) wants it to
    disk,       \* the CCVM's disk: "sound", "copying" or "torn"
    wish,       \* history: what the requests answered so far have scheduled
    raced,      \* history: a save has overwritten one it had not loaded, or an unreadable file
    faults

vars == <<standalone, clock, ticked, dc, task, config, files, made, vm, wanted, disk, wish, raced, faults>>

-----------------------------------------------------------------------------

Scheduler == {<<"scheduler", h>> : h \in Host}
Handler == Client \X {1, 2}
Task == Scheduler \cup Handler

Off == [active |-> FALSE, last |-> 0]
On == [active |-> TRUE, last |-> 0]
\* loadCCVMBackupConfig of a file that is not there.
NoConfig == [backup |-> Off, delete |-> Off]

NoTask == [pc |-> "idle", action |-> "none", base |-> NoConfig, copy |-> NoConfig, now |-> 0,
           file |-> 0, todo |-> <<>>, err |-> FALSE, good |-> FALSE]

Position(n) == SelectInSeq(files, LAMBDA f : f.n = n)
Writing == \E i \in DOMAIN files : files[i].state = "writing"

Init ==
    /\ standalone \in BOOLEAN
    /\ clock = 0 /\ ticked = [h \in Host |-> 0]
    /\ dc \in Host
    /\ task = [t \in Task |-> NoTask]
    /\ config = [backup |-> On, delete |-> Off]
    /\ files = <<[n |-> 1, state |-> "complete", old |-> FALSE],
                 [n |-> 2, state |-> "complete", old |-> FALSE]>>
    /\ made = 2
    /\ vm = TRUE /\ wanted = TRUE /\ disk = "sound"
    /\ wish = config
    /\ raced = FALSE /\ faults = 0

Fault == faults < MaxFaults /\ faults' = faults + 1
NoFault == UNCHANGED faults

\* The key of the period of a minute.
Key(now) == now \div Period

\* isCCVMBackupScheduleDue.
Due(section, now) ==
    section.active /\ now % Period = 0 /\ section.last # Key(now)

Goto(t, pc) == task' = [task EXCEPT ![t].pc = pc]
End(t, err) == task' = [task EXCEPT ![t] = [NoTask EXCEPT !.pc = IF t \in Scheduler THEN "idle" ELSE "done",
                                                          !.action = task[t].action, !.err = err,
                                                          !.good = task[t].good]]

-----------------------------------------------------------------------------
(* Requests.                                                                *)

FirstStep(action) ==
    CASE action = "backup" -> "begin"
      [] action = "restore" -> "stat"
      [] action = "list" -> "list"
      [] OTHER -> "load"

\* CCVMBackup and CCVMRestore accept a request.  A restore names a file.
Request(c) ==
    /\ \A k \in {1, 2} : task[<<c, k>>].pc = "idle"
    /\ \E a \in Actions, n \in 1..made :
          /\ a # "restore" => n = 1
          /\ task' = [task EXCEPT ![<<c, 1>>] = [NoTask EXCEPT !.pc = FirstStep(a), !.action = a, !.file = n]]
    /\ UNCHANGED <<standalone, clock, ticked, dc, config, files, made, vm, wanted, disk, wish, raced, faults>>

\* The call to the first PCS host is lost: the next one gets the same request.
CallLost(c) ==
    LET t == <<c, 1>> IN
    /\ ~standalone
    /\ task[t].pc # "idle" /\ task[<<c, 2>>].pc = "idle"
    /\ task' = [task EXCEPT ![<<c, 2>>] = [NoTask EXCEPT !.pc = FirstStep(task[t].action),
                                                         !.action = task[t].action, !.file = task[t].file]]
    /\ task[t].pc # "done"
    /\ Fault
    /\ UNCHANGED <<standalone, clock, ticked, dc, config, files, made, vm, wanted, disk, wish, raced>>

\* list, status and overview change nothing.
List(t) ==
    /\ task[t].pc = "list"
    /\ End(t, FALSE)
    /\ UNCHANGED <<standalone, clock, ticked, dc, config, files, made, vm, wanted, disk, wish, raced, faults>>

-----------------------------------------------------------------------------
(* The schedule.                                                            *)

\* What a request makes of its section.
NewSection(action, c) ==
    CASE action = "schedule" -> [c EXCEPT !.backup = On]
      [] action = "unschedule" -> [c EXCEPT !.backup = Off]
      [] action = "schedule-delete" -> [c EXCEPT !.delete = On]
      [] action = "unschedule-delete" -> [c EXCEPT !.delete = Off]

\* Mutant: the section is written to a new file.
LoadSectionNothing(t) ==
    /\ t \in Handler /\ task[t].pc = "load"
    /\ task' = [task EXCEPT ![t] = [@ EXCEPT !.pc = "save", !.base = config,
                                            !.copy = NewSection(task[t].action, NoConfig)]]
    /\ UNCHANGED <<standalone, clock, ticked, dc, config, files, made, vm, wanted, disk, wish, raced, faults>>

\* updateCCVMBackupConfigSection loads the file; one that cannot be read or parsed
\* counts as empty.
LoadSection(t) ==
    /\ t \in Handler /\ task[t].pc = "load"
    /\ \E c \in {config, NoConfig} :
          /\ IF c = config THEN NoFault /\ UNCHANGED raced ELSE Fault /\ raced' = TRUE
          /\ task' = [task EXCEPT ![t] = [@ EXCEPT !.pc = "save", !.base = config,
                                                  !.copy = NewSection(task[t].action, c)]]
    /\ UNCHANGED <<standalone, clock, ticked, dc, config, files, made, vm, wanted, disk, wish>>

\* saveCCVMBackupConfig renames the new file into place.
Save(t) ==
    /\ task[t].pc = "save"
    /\ \/ /\ config' = task[t].copy
          /\ raced' = (raced \/ config # task[t].base)
          /\ wish' = IF t \in Handler THEN NewSection(task[t].action, wish) ELSE wish
          /\ End(t, FALSE) /\ NoFault
       \/ /\ End(t, TRUE) /\ Fault
          /\ UNCHANGED <<config, raced, wish>>
    /\ UNCHANGED <<standalone, clock, ticked, dc, files, made, vm, wanted, disk>>

\* runAutoCCVMBackupScheduler wakes up in a new minute; only the owner goes on.
Tick(t) ==
    LET h == t[2] IN
    /\ t \in Scheduler /\ task[t].pc = "idle" /\ ticked[h] < clock
    /\ ticked' = [ticked EXCEPT ![h] = clock]
    /\ task' = IF dc = h THEN [task EXCEPT ![t] = [NoTask EXCEPT !.pc = "load", !.action = "backup",
                                                                 !.now = clock]]
               ELSE task
    /\ UNCHANGED <<standalone, clock, dc, config, files, made, vm, wanted, disk, wish, raced, faults>>

\* What is left to do after the backup: the expired files, then the save if anything
\* was due.
AfterBackup(t, copy) == IF Due(copy.delete, task[t].now) THEN "expire" ELSE "save"

\* triggerAutoCCVMBackupSchedule loads the file and finds out what is due.
LoadSchedule(t) ==
    LET key == Key(task[t].now)
        due == Due(config.backup, task[t].now) IN
    /\ t \in Scheduler /\ task[t].pc = "load"
    /\ \/ /\ IF due
             THEN task' = [task EXCEPT ![t] = [@ EXCEPT !.pc = "begin", !.base = config,
                                                        !.copy = [config EXCEPT !.backup.last = key]]]
             ELSE IF Due(config.delete, task[t].now)
             THEN task' = [task EXCEPT ![t] = [@ EXCEPT !.pc = "expire", !.base = config, !.copy = config]]
             ELSE End(t, FALSE)
          /\ NoFault
       \/ End(t, TRUE) /\ Fault
    /\ UNCHANGED <<standalone, clock, ticked, dc, config, files, made, vm, wanted, disk, wish, raced>>

\* The backup of task t is over.  A request is answered; a scheduler forgets the key
\* if it failed and goes on.
BackupOver(t, err) ==
    IF t \in Handler THEN End(t, err)
    ELSE LET copy == IF err THEN [task[t].copy EXCEPT !.backup.last = 0] ELSE task[t].copy IN
         task' = [task EXCEPT ![t] = [@ EXCEPT !.copy = copy, !.pc = AfterBackup(t, copy), !.todo = <<>>]]

\* deleteExpiredCCVMBackups, oldest first.  When a removal fails the rest stays.
Expire(t) ==
    LET key == Key(task[t].now) IN
    /\ task[t].pc = "expire"
    /\ \E k \in 0..Len(files) :
          /\ \A i \in 1..k : files[i].old
          /\ files' = SubSeq(files, k + 1, Len(files))
          /\ \/ /\ \A i \in (k + 1)..Len(files) : ~files[i].old
                /\ task' = [task EXCEPT ![t] = [@ EXCEPT !.pc = "save", !.copy.delete.last = key]]
                /\ NoFault
             \/ /\ task' = [task EXCEPT ![t] = [@ EXCEPT !.pc = "save", !.copy.delete.last = 0]]
                /\ Fault
    /\ UNCHANGED <<standalone, clock, ticked, dc, config, made, vm, wanted, disk, wish, raced>>

-----------------------------------------------------------------------------
(* createCCVMFileBackup.                                                    *)

BackupBegins ==
    /\ files' = Append(files, [n |-> made + 1, state |-> "writing", old |-> FALSE])
    /\ made' = made + 1

\* virsh backup-begin; it needs a running CCVM without another job.
Begin(t) ==
    LET can == vm /\ ~Writing IN
    /\ task[t].pc = "begin"
    /\ \/ /\ can /\ BackupBegins
          /\ Goto(t, "prune") /\ NoFault
       \/ /\ ~can
          /\ BackupOver(t, TRUE) /\ NoFault /\ UNCHANGED <<files, made>>
       \/ /\ (can /\ BackupBegins) \/ UNCHANGED <<files, made>>
          /\ BackupOver(t, TRUE) /\ Fault
    /\ UNCHANGED <<standalone, clock, ticked, dc, config, vm, wanted, disk, wish, raced>>

\* Mutant: the one just begun is not counted.
TooManyAndOne == SubSeq(files, 1, Len(files) - Keep + 1)

\* pruneCCVMBackupFiles: the files that are too many, by the time in their names.
TooMany == SubSeq(files, 1, Len(files) - Keep)

ListFiles(t) ==
    /\ task[t].pc = "prune"
    /\ IF TooMany = <<>> THEN BackupOver(t, FALSE)
       ELSE task' = [task EXCEPT ![t].pc = "remove", ![t].todo = TooMany]
    /\ UNCHANGED <<standalone, clock, ticked, dc, config, files, made, vm, wanted, disk, wish, raced, faults>>

RemoveFile(t) ==
    LET n == Head(task[t].todo).n IN
    /\ task[t].pc = "remove"
    /\ \/ /\ \E i \in DOMAIN files : files[i].n = n /\ files' = RemoveAt(files, i)
          /\ IF Len(task[t].todo) = 1 THEN BackupOver(t, FALSE)
             ELSE task' = [task EXCEPT ![t].todo = Tail(@)]
          /\ NoFault
       \/ /\ \A i \in DOMAIN files : files[i].n # n
          /\ BackupOver(t, TRUE) /\ NoFault /\ UNCHANGED files
       \/ BackupOver(t, TRUE) /\ Fault /\ UNCHANGED files
    /\ UNCHANGED <<standalone, clock, ticked, dc, config, made, vm, wanted, disk, wish, raced>>

-----------------------------------------------------------------------------
(* restoreCCVMBackupFile.                                                   *)

\* The file has to be there.  good records, for the properties, that it is complete.
Stat(t) ==
    LET p == Position(task[t].file) IN
    /\ task[t].pc = "stat"
    /\ IF p = 0 THEN End(t, TRUE)
       ELSE task' = [task EXCEPT ![t].pc = "disable", ![t].good = files[p].state = "complete"]
    /\ UNCHANGED <<standalone, clock, ticked, dc, config, files, made, vm, wanted, disk, wish, raced, faults>>

\* pcs resource disable, or virsh shutdown, which may find the CCVM shut off already.
Disable(t) ==
    /\ task[t].pc = "disable"
    /\ \/ wanted' = FALSE /\ Goto(t, "wait") /\ NoFault
       \/ wanted' \in {wanted, FALSE} /\ End(t, TRUE) /\ Fault
    /\ UNCHANGED <<standalone, clock, ticked, dc, config, files, made, vm, disk, wish, raced>>

\* Mutant: the command is taken for its effect.
AwaitNothing(t) ==
    /\ task[t].pc = "wait"
    /\ Goto(t, "copy")
    /\ UNCHANGED <<standalone, clock, ticked, dc, config, files, made, vm, wanted, disk, wish, raced, faults>>

\* waitCCVMPcsRole and waitLocalCCVMState.  At the timeout the CCVM stays disabled.
AwaitStopped(t) ==
    /\ task[t].pc = "wait"
    /\ \/ ~vm /\ Goto(t, "copy") /\ NoFault
       \/ End(t, TRUE) /\ Fault
    /\ UNCHANGED <<standalone, clock, ticked, dc, config, files, made, vm, wanted, disk, wish, raced>>

\* After a failed copy PCS is told to start the CCVM; a standalone one stays off.
CopyFailed(t) == IF standalone THEN End(t, TRUE) ELSE Goto(t, "reenable")

\* copyFile opens the backup and truncates the disk.
OpenFiles(t) ==
    /\ task[t].pc = "copy"
    /\ \/ /\ Position(task[t].file) # 0
          /\ disk' = "copying"
          /\ task' = [task EXCEPT ![t].pc = "copying",
                                  ![t].good = @ /\ files[Position(task[t].file)].state = "complete"]
          /\ NoFault
       \/ Position(task[t].file) = 0 /\ CopyFailed(t) /\ NoFault /\ UNCHANGED disk
       \/ CopyFailed(t) /\ Fault /\ UNCHANGED disk
    /\ UNCHANGED <<standalone, clock, ticked, dc, config, files, made, vm, wanted, wish, raced>>

\* Mutant: the error of the copy is dropped.
CopyUnchecked(t) ==
    /\ task[t].pc = "copying"
    /\ Goto(t, "enable")
    /\ \/ disk' = (IF task[t].good THEN "sound" ELSE "torn") /\ NoFault
       \/ disk' = "torn" /\ Fault
    /\ UNCHANGED <<standalone, clock, ticked, dc, config, files, made, vm, wanted, wish, raced>>

\* It copies and syncs.
Copy(t) ==
    /\ task[t].pc = "copying"
    /\ \/ /\ disk' = IF task[t].good THEN "sound" ELSE "torn"
          /\ Goto(t, "enable") /\ NoFault
       \/ /\ disk' = "torn"
          /\ CopyFailed(t) /\ Fault
    /\ UNCHANGED <<standalone, clock, ticked, dc, config, files, made, vm, wanted, wish, raced>>

\* pcs resource enable after a failed copy; its own error is ignored.
Reenable(t) ==
    /\ task[t].pc = "reenable"
    /\ End(t, TRUE)
    /\ \/ wanted' = TRUE /\ NoFault
       \/ UNCHANGED wanted /\ Fault
    /\ UNCHANGED <<standalone, clock, ticked, dc, config, files, made, vm, disk, wish, raced>>

\* pcs resource enable, or virsh start, which refuses a CCVM that runs.
Enable(t) ==
    /\ task[t].pc = "enable"
    /\ \/ ~(standalone /\ vm) /\ wanted' = TRUE /\ End(t, FALSE) /\ NoFault
       \/ standalone /\ vm /\ UNCHANGED wanted /\ End(t, TRUE) /\ NoFault
       \/ wanted' \in {wanted, TRUE} /\ End(t, TRUE) /\ Fault
    /\ UNCHANGED <<standalone, clock, ticked, dc, config, files, made, vm, disk, wish, raced>>

-----------------------------------------------------------------------------
(* The world: PCS or libvirt starts and stops the CCVM as wanted, libvirt   *)
(* finishes a backup, files grow old, time goes on, the DC moves.           *)

VMFollows ==
    /\ vm # wanted /\ vm' = wanted
    /\ files' = [i \in DOMAIN files |-> IF files[i].state = "writing" /\ ~wanted
                                        THEN [files[i] EXCEPT !.state = "broken"] ELSE files[i]]
    /\ UNCHANGED <<standalone, clock, ticked, dc, task, config, made, wanted, disk, wish, raced, faults>>

BackupCompletes ==
    /\ Writing
    /\ files' = [i \in DOMAIN files |-> IF files[i].state = "writing"
                                        THEN [files[i] EXCEPT !.state = "complete"] ELSE files[i]]
    /\ UNCHANGED <<standalone, clock, ticked, dc, task, config, made, vm, wanted, disk, wish, raced, faults>>

\* The oldest file first.
FileAges ==
    /\ \E i \in DOMAIN files :
          /\ \A j \in 1..(i - 1) : files[j].old
          /\ files[i].n <= MaxOld /\ files[i].state # "writing" /\ ~files[i].old
          /\ files' = [files EXCEPT ![i].old = TRUE]
    /\ UNCHANGED <<standalone, clock, ticked, dc, task, config, made, vm, wanted, disk, wish, raced, faults>>

NextMinute ==
    /\ clock < MaxTime /\ clock' = clock + 1
    /\ UNCHANGED <<standalone, ticked, dc, task, config, files, made, vm, wanted, disk, wish, raced, faults>>

DCMoves ==
    /\ ~standalone
    /\ dc' \in Host \ {dc}
    /\ Fault
    /\ UNCHANGED <<standalone, clock, ticked, task, config, files, made, vm, wanted, disk, wish, raced>>

-----------------------------------------------------------------------------

TaskStep(t) ==
    \/ List(t) \/ LoadSection(t) \/ Save(t) \/ Tick(t) \/ LoadSchedule(t) \/ Expire(t)
    \/ Begin(t) \/ ListFiles(t) \/ RemoveFile(t)
    \/ Stat(t) \/ Disable(t) \/ AwaitStopped(t) \/ OpenFiles(t) \/ Copy(t) \/ Reenable(t) \/ Enable(t)

Next ==
    \/ \E c \in Client : Request(c)
    \/ \E c \in Client : CallLost(c)
    \/ \E t \in Task : TaskStep(t)
    \/ VMFollows
    \/ BackupCompletes
    \/ FileAges
    \/ NextMinute
    \/ DCMoves

Spec == Init /\ [][Next]_vars

-----------------------------------------------------------------------------
(* Properties.                                                              *)

Restores == {t \in Handler : task[t].action = "restore"}

\* As long as no save has overwritten one it had not seen, the file says what the answered
\* requests have scheduled: a scheduler that saves after its backup, and a request for the
\* other section, leave it alone (updateCCVMBackupConfigSection, triggerAutoCCVMBackupSchedule).
WishKept ==
    ~raced => /\ config.backup.active = wish.backup.active
              /\ config.delete.active = wish.delete.active

\* One restore alone never writes to the disk of a CCVM that runs, whatever fails and
\* however long the CCVM takes to stop.
DiskOfStopped ==
    \A t \in Restores : Restores = {t} /\ disk = "copying" => ~vm

\* One restore alone of a complete backup that is answered with success has left a sound disk
\* and a CCVM that is wanted again, although retention may remove the file at any moment.
RestoreIsSound ==
    \A t \in Restores : Restores = {t} /\ task[t].pc = "done" /\ ~task[t].err /\ task[t].good =>
        disk = "sound" /\ wanted

Newest(s) == SubSeq(s, Len(s) - Keep + 1, Len(s))

\* Retention never removes one of the Keep newest files, which the one being written is among.
NewestKept ==
    [][\A t \in Task : task[t].pc = "remove" /\ Len(files') < Len(files) /\ task'[t] # task[t] =>
         Len(files) > Keep /\ Newest(files') = Newest(files)]_vars

=============================================================================
