-------------------------- MODULE SchedulesProofs --------------------------
(***************************************************************************)
(* What the server does by itself, for any number of hosts, clients, runs, *)
(* goroutines, days and failures: file backups and their schedules, the    *)
(* schedules of database dumps, and the logs.  The last section takes them *)
(* together.                                                               *)
(***************************************************************************)
EXTENDS MCSchedules, SequenceTheorems, TLAPS

-----------------------------------------------------------------------------
(* File backups: however backups, schedules, retention and a restore         *)
(* interleave.  The inductive invariant.                                      *)

Section == [active : BOOLEAN, last : Nat]
Config == [backup : Section, delete : Section]

\* Where a task carries a configuration that it will save, and where a restore is.
Saving == {"begin", "prune", "remove", "expire", "save"}
Restoring == {"stat", "disable", "wait", "copy", "copying", "reenable", "enable"}
Schedule == {"schedule", "unschedule", "schedule-delete", "unschedule-delete"}

Fields == {"pc", "action", "base", "copy", "now", "file", "todo", "err", "good"}

\* A record of task, by itself.
Known(r) ==
    /\ DOMAIN r = Fields
    /\ r.pc \in Saving \cup Restoring \cup {"idle", "load", "list", "done"}
    /\ r.base \in Config /\ r.copy \in Config
    /\ r.now \in Nat /\ r.err \in BOOLEAN /\ r.good \in BOOLEAN

\* What a task of its kind does.
Kind(t, r) ==
    /\ t \in Scheduler => r.pc \in Saving \cup {"idle", "load"}
    /\ t \in Handler =>
          /\ r.pc \in {"load", "save"} => r.action \in Schedule
          /\ r.pc \in Restoring => r.action = "restore"
          /\ r.action = "restore" => r.pc \in Restoring \cup {"done"}
          /\ r.pc # "expire"
          /\ r.pc # "idle" => r.action \in Actions

Types ==
    /\ DOMAIN task = Task /\ \A t \in Task : Known(task[t]) /\ Kind(t, task[t])
    /\ config \in Config /\ wish \in Config /\ clock \in Nat
    /\ vm \in BOOLEAN /\ wanted \in BOOLEAN /\ raced \in BOOLEAN
    /\ disk \in {"sound", "copying", "torn"}

\* Two configurations with the same schedules.
Same(c, d) == c.backup.active = d.backup.active /\ c.delete.active = d.delete.active

\* What a task will save differs from what it has loaded by its own request only.
Faithful(t, r) ==
    /\ t \in Handler /\ r.pc = "save" => Same(r.copy, NewSection(r.action, r.base))
    /\ t \in Scheduler /\ r.pc \in Saving => Same(r.copy, r.base)

Wishes == ~raced => Same(config, wish) /\ \A t \in Task : Faithful(t, task[t])

\* A restore without another one: from its wait on PCS does not want the CCVM, from the
\* copy on it is off.
Alone(t) ==
    /\ task[t].pc \in {"wait", "copy", "copying", "reenable", "enable"} => ~wanted
    /\ task[t].pc \in {"copy", "copying", "reenable", "enable"} => ~vm
    /\ task[t].pc = "enable" /\ task[t].good => disk = "sound"
    /\ task[t].pc = "done" /\ ~task[t].err /\ task[t].good => disk = "sound" /\ wanted

Restored ==
    /\ disk = "copying" => \E t \in Handler : task[t].pc = "copying"
    /\ \A t \in Handler : Restores = {t} => Alone(t)

Inv == Types /\ Wishes /\ Restored

-----------------------------------------------------------------------------
(* The records of tasks                                                     *)

LEMMA Apart == Scheduler \cap Handler = {} /\ Task = Scheduler \cup Handler
<1>1. \A t \in Scheduler : t[1] = "scheduler"
  BY DEF Scheduler
<1>2. \A t \in Handler : t[1] \in Client
  BY DEF Handler
<1> QED
  BY <1>1, <1>2, CCVMBackupAssumption DEF Task

LEMMA SectionTypes ==
    /\ On \in Section /\ Off \in Section /\ NoConfig \in Config
    /\ \A c \in Config, a \in Schedule : NewSection(a, c) \in Config
    /\ \A c \in Config, d \in Config, a \in Schedule :
          Same(c, d) => Same(NewSection(a, c), NewSection(a, d))
    /\ \A now \in Nat : Key(now) \in Nat
<1>1. On \in Section /\ Off \in Section /\ NoConfig \in Config
  BY DEF On, Off, NoConfig, Config, Section
<1>2. ASSUME NEW c \in Config
      PROVE  /\ NewSection("schedule", c) = [backup |-> On, delete |-> c.delete]
             /\ NewSection("unschedule", c) = [backup |-> Off, delete |-> c.delete]
             /\ NewSection("schedule-delete", c) = [backup |-> c.backup, delete |-> On]
             /\ NewSection("unschedule-delete", c) = [backup |-> c.backup, delete |-> Off]
  BY DEF NewSection, Config
<1>3. ASSUME NEW c \in Config, NEW a \in Schedule
      PROVE  NewSection(a, c) \in Config
  <2>1. c.backup \in Section /\ c.delete \in Section
    BY DEF Config
  <2> QED
    <3>1. CASE a = "schedule"
      BY <1>1, <1>2, <2>1, <3>1 DEF Config
    <3>2. CASE a = "unschedule"
      BY <1>1, <1>2, <2>1, <3>2 DEF Config
    <3>3. CASE a = "schedule-delete"
      BY <1>1, <1>2, <2>1, <3>3 DEF Config
    <3>4. CASE a = "unschedule-delete"
      BY <1>1, <1>2, <2>1, <3>4 DEF Config
    <3> QED
      BY <3>1, <3>2, <3>3, <3>4 DEF Schedule
<1>4. ASSUME NEW c \in Config, NEW d \in Config, NEW a \in Schedule, Same(c, d)
      PROVE  Same(NewSection(a, c), NewSection(a, d))
  <2>1. CASE a = "schedule"
    BY <1>2, <1>4, <2>1 DEF Same
  <2>2. CASE a = "unschedule"
    BY <1>2, <1>4, <2>2 DEF Same
  <2>3. CASE a = "schedule-delete"
    BY <1>2, <1>4, <2>3 DEF Same
  <2>4. CASE a = "unschedule-delete"
    BY <1>2, <1>4, <2>4 DEF Same
  <2> QED
    BY <2>1, <2>2, <2>3, <2>4 DEF Schedule
<1>5. ASSUME NEW now \in Nat
      PROVE  Key(now) \in Nat
  BY CCVMBackupAssumption DEF Key
<1> QED
  BY <1>1, <1>3, <1>4, <1>5

LEMMA GotoFacts ==
    ASSUME Types, NEW t \in Task, NEW p, Goto(t, p)
    PROVE  /\ DOMAIN task' = Task /\ \A u \in Task \ {t} : task'[u] = task[u]
           /\ DOMAIN task'[t] = Fields /\ task'[t].pc = p
           /\ task'[t].action = task[t].action /\ task'[t].base = task[t].base
           /\ task'[t].copy = task[t].copy /\ task'[t].now = task[t].now
           /\ task'[t].err = task[t].err /\ task'[t].good = task[t].good
  BY DEF Goto, Types, Known, Fields

LEMMA EndFacts ==
    ASSUME Types, NEW t \in Task, NEW e \in BOOLEAN, End(t, e)
    PROVE  /\ DOMAIN task' = Task /\ \A u \in Task \ {t} : task'[u] = task[u]
           /\ task'[t].pc = IF t \in Scheduler THEN "idle" ELSE "done"
           /\ task'[t].action = task[t].action /\ task'[t].err = e
           /\ task'[t].good = task[t].good
           /\ Known(task'[t])
<1>1. PICK r : r = [NoTask EXCEPT !.pc = IF t \in Scheduler THEN "idle" ELSE "done",
                                  !.action = task[t].action, !.err = e, !.good = task[t].good]
  OBVIOUS
<1>2. /\ DOMAIN r = Fields /\ r.pc = IF t \in Scheduler THEN "idle" ELSE "done"
      /\ r.action = task[t].action /\ r.err = e /\ r.good = task[t].good
      /\ r.base = NoConfig /\ r.copy = NoConfig /\ r.now = 0
  BY <1>1 DEF NoTask, Fields
<1>3. Known(r)
  BY <1>2, SectionTypes DEF Known, Types
<1> QED
  BY <1>1, <1>2, <1>3 DEF End, Types

\* BackupOver: a scheduler has changed the key of its copy at most.
LEMMA BackupOverFacts ==
    ASSUME Types, NEW t \in Task, NEW e \in BOOLEAN, BackupOver(t, e)
    PROVE  /\ DOMAIN task' = Task /\ \A u \in Task \ {t} : task'[u] = task[u]
           /\ task'[t].action = task[t].action
           /\ Known(task'[t])
           /\ t \in Handler => task'[t].pc = "done"
           /\ t \in Scheduler => /\ task'[t].pc \in {"expire", "save"}
                                 /\ task'[t].base = task[t].base
                                 /\ Same(task'[t].copy, task[t].copy)
<1>1. CASE t \in Handler
  BY <1>1, EndFacts, Apart DEF BackupOver
<1>2. CASE t \notin Handler
  <2>1. PICK c : c = IF e THEN [task[t].copy EXCEPT !.backup.last = 0] ELSE task[t].copy
    OBVIOUS
  <2>2. c \in Config /\ Same(c, task[t].copy)
    BY <2>1 DEF Types, Known, Config, Section, Same
  <2>3. PICK p : p = AfterBackup(t, c)
    OBVIOUS
  <2>4. task' = [task EXCEPT ![t] = [@ EXCEPT !.copy = c, !.pc = p, !.todo = <<>>]]
    BY <1>2, <2>1, <2>3 DEF BackupOver
  <2>5. p \in {"expire", "save"}
    BY <2>3 DEF AfterBackup
  <2>6. /\ DOMAIN task'[t] = Fields /\ task'[t].pc = p /\ task'[t].copy = c
        /\ task'[t].action = task[t].action /\ task'[t].base = task[t].base
        /\ task'[t].now = task[t].now /\ task'[t].err = task[t].err
        /\ task'[t].good = task[t].good
    BY <2>4 DEF Types, Known, Fields
  <2>7. Known(task'[t])
    BY <2>2, <2>5, <2>6 DEF Types, Known, Saving
  <2> QED
    BY <1>2, <2>2, <2>4, <2>5, <2>6, <2>7, Apart DEF Types
<1> QED
  BY <1>1, <1>2

-----------------------------------------------------------------------------
(* The frame of a step of one task                                          *)

\* A task that is not a restore changes what it carries, the schedules or the files.
LEMMA OtherTaskKeeps ==
    ASSUME Inv, NEW t \in Task, t \notin Restores,
           DOMAIN task' = Task, \A u \in Task \ {t} : task'[u] = task[u],
           Known(task'[t]), Kind(t, task'[t]), t \in Handler => task'[t].action # "restore",
           UNCHANGED <<vm, wanted, disk>>,
           config' \in Config, wish' \in Config, clock' \in Nat, raced' \in BOOLEAN,
           ~raced' => ~raced /\ Same(config', wish') /\ Faithful(t, task'[t])
    PROVE  Inv'
<1>1. Types'
  <2>1. \A u \in Task : Known(task'[u]) /\ Kind(u, task'[u])
    BY DEF Inv, Types
  <2> QED
    BY <2>1 DEF Inv, Types, Known, Kind, Task, Scheduler, Handler
<1>2. Wishes'
  <2>1. ~raced' => \A u \in Task : Faithful(u, task'[u])
    BY DEF Inv, Wishes
  <2> QED
    BY <2>1 DEF Wishes, Faithful, Same
<1>3. Restored'
  <2>1. Restores' = Restores
    BY Apart DEF Restores
  <2>2. ASSUME NEW u \in Handler, Restores = {u}
        PROVE  task'[u] = task[u]
    BY <2>2, Apart
  <2>3. disk' = "copying" => \E u \in Handler : task'[u].pc = "copying"
    <3> SUFFICES ASSUME disk' = "copying"
                 PROVE  \E u \in Handler : task'[u].pc = "copying"
      OBVIOUS
    <3>1. PICK u \in Handler : task[u].pc = "copying"
      BY DEF Inv, Restored
    <3>2. u \in Restores
      BY <3>1, Apart DEF Inv, Types, Kind, Restores, Restoring
    <3> QED
      BY <3>1, <3>2, Apart
  <2>4. ASSUME NEW u \in Handler, Restores' = {u}
        PROVE  Alone(u)'
    BY <2>1, <2>2, <2>4 DEF Inv, Restored, Alone
  <2> QED
    BY <2>3, <2>4 DEF Restored
<1> QED
  BY <1>1, <1>2, <1>3 DEF Inv

\* A restore goes on: it changes the CCVM and its disk, not the schedules.
LEMMA RestoreKeeps ==
    ASSUME Inv, NEW t \in Restores,
           DOMAIN task' = Task, \A u \in Task \ {t} : task'[u] = task[u],
           Known(task'[t]), task'[t].action = "restore",
           task'[t].pc \in Restoring \cup {"done"},
           UNCHANGED <<config, wish, clock, raced>>,
           vm' \in BOOLEAN, wanted' \in BOOLEAN, disk' \in {"sound", "copying", "torn"},
           disk' = "copying" => \/ task'[t].pc = "copying"
                                \/ disk = "copying" /\ task[t].pc # "copying",
           Alone(t) => Alone(t)'
    PROVE  Inv'
<1>1. t \in Handler /\ t \in Task /\ Kind(t, task'[t]) /\ Faithful(t, task'[t])
  <2>1. t \in Handler /\ t \in Task /\ t \notin Scheduler /\ task[t].action = "restore"
    BY Apart DEF Restores
  <2>2. "restore" \in Actions
    BY <2>1 DEF Inv, Types, Kind, Restoring
  <2> QED
    BY <2>1, <2>2 DEF Kind, Faithful, Restoring
<1>2. Types'
  <2>1. \A u \in Task : Known(task'[u]) /\ Kind(u, task'[u])
    BY <1>1 DEF Inv, Types
  <2> QED
    BY <2>1 DEF Inv, Types, Known, Kind, Task, Scheduler, Handler
<1>3. Wishes'
  <2>1. ~raced' => \A u \in Task : Faithful(u, task'[u])
    BY <1>1 DEF Inv, Wishes
  <2> QED
    BY <2>1 DEF Inv, Wishes, Faithful, Same
<1>4. Restored'
  <2>1. Restores' = Restores
    BY <1>1, Apart DEF Restores
  <2>2. disk' = "copying" => \E u \in Handler : task'[u].pc = "copying"
    <3> SUFFICES ASSUME disk = "copying", task[t].pc # "copying"
                 PROVE  \E u \in Handler : task'[u].pc = "copying"
      BY <1>1
    <3>1. PICK u \in Handler : task[u].pc = "copying"
      BY DEF Inv, Restored
    <3> QED
      BY <3>1, Apart
  <2>3. ASSUME NEW u \in Handler, Restores' = {u}
        PROVE  Alone(u)'
    <3>1. u = t
      BY <2>1, <2>3
    <3> QED
      BY <1>1, <2>1, <2>3, <3>1 DEF Inv, Restored
  <2> QED
    BY <2>2, <2>3 DEF Restored
<1> QED
  BY <1>2, <1>3, <1>4 DEF Inv

-----------------------------------------------------------------------------
(* The steps of requests, schedules and backups                             *)

LEMMA FirstSteps ==
    /\ FirstStep("backup") = "begin" /\ FirstStep("restore") = "stat"
    /\ FirstStep("list") = "list" /\ \A a \in Schedule : FirstStep(a) = "load"
<1>1. /\ FirstStep("backup") = "begin" /\ FirstStep("restore") = "stat"
      /\ FirstStep("list") = "list"
  BY DEF FirstStep
<1>2. ASSUME NEW a \in Schedule
      PROVE  FirstStep(a) = "load"
  <2>1. a # "backup" /\ a # "restore" /\ a # "list"
    BY DEF Schedule
  <2> QED
    BY <2>1 DEF FirstStep
<1> QED
  BY <1>1, <1>2

\* A request that is accepted, or sent a second time, begins a handler.
LEMMA HandlerBegins ==
    ASSUME Inv, NEW t \in Handler, NEW a \in Actions, NEW n, task[t].pc = "idle",
           task' = [task EXCEPT ![t] = [NoTask EXCEPT !.pc = FirstStep(a), !.action = a, !.file = n]],
           UNCHANGED <<clock, config, vm, wanted, disk, wish, raced>>
    PROVE  Inv'
<1>1. PICK r : r = [NoTask EXCEPT !.pc = FirstStep(a), !.action = a, !.file = n]
  OBVIOUS
<1>2. /\ DOMAIN r = Fields /\ r.pc = FirstStep(a) /\ r.action = a
      /\ r.base = NoConfig /\ r.copy = NoConfig /\ r.now = 0 /\ {r.err, r.good} \subseteq BOOLEAN
  BY <1>1 DEF NoTask, Fields
<1>3. \/ a \in Schedule /\ r.pc = "load"
      \/ a = "backup" /\ r.pc = "begin"
      \/ a = "restore" /\ r.pc = "stat"
      \/ a = "list" /\ r.pc = "list"
  <2>1. a \in Schedule \cup {"backup", "restore", "list"}
    BY CCVMBackupAssumption DEF Schedule
  <2> QED
    BY <1>2, <2>1, FirstSteps
<1>4. /\ DOMAIN task' = Task /\ \A u \in Task \ {t} : task'[u] = task[u]
      /\ task'[t] = r /\ t \in Task /\ t \notin Scheduler
  BY <1>1, Apart DEF Inv, Types
<1>5. Known(r) /\ Kind(t, r) /\ Faithful(t, r)
  <2>1. Known(r)
    <3>1. r.pc \in {"load", "begin", "stat", "list"}
      BY <1>3
    <3>2. r.err \in BOOLEAN /\ r.good \in BOOLEAN /\ r.now \in Nat
      BY <1>2
    <3> QED
      BY <1>2, <3>1, <3>2, SectionTypes DEF Known, Saving, Restoring
  <2>2. Kind(t, r)
    BY <1>2, <1>3, <1>4 DEF Kind, Saving, Restoring, Schedule
  <2>3. Faithful(t, r)
    BY <1>3, <1>4 DEF Faithful
  <2> QED
    BY <2>1, <2>2, <2>3
<1>6. t \notin Restores
  BY <1>4 DEF Inv, Types, Kind, Restores, Restoring
<1>7. /\ config' \in Config /\ wish' \in Config /\ clock' \in Nat /\ raced' \in BOOLEAN
      /\ ~raced' => ~raced /\ Same(config', wish')
  BY DEF Inv, Types, Wishes
<1>8. CASE a # "restore"
  BY <1>2, <1>4, <1>5, <1>6, <1>7, <1>8, OtherTaskKeeps
<1>9. CASE a = "restore"
  <2>1. Types'
    <3>1. \A u \in Task : Known(task'[u]) /\ Kind(u, task'[u])
      BY <1>4, <1>5 DEF Inv, Types
    <3> QED
      BY <1>4, <3>1 DEF Inv, Types, Known, Kind, Task, Scheduler, Handler
  <2>2. Wishes'
    <3>1. ~raced' => \A u \in Task : Faithful(u, task'[u])
      BY <1>4, <1>5 DEF Inv, Wishes
    <3> QED
      BY <1>7, <3>1 DEF Wishes, Faithful, Same
  <2>3. Restored'
    <3>1. Restores' = Restores \cup {t}
      BY <1>2, <1>4, <1>9, Apart DEF Restores
    <3>2. disk' = "copying" => \E u \in Handler : task'[u].pc = "copying"
      <4> SUFFICES ASSUME disk = "copying"
                   PROVE  \E u \in Handler : task'[u].pc = "copying"
        OBVIOUS
      <4>1. PICK u \in Handler : task[u].pc = "copying"
        BY DEF Inv, Restored
      <4> QED
        BY <1>4, <4>1, Apart
    <3>3. ASSUME NEW u \in Handler, Restores' = {u}
          PROVE  Alone(u)'
      <4>1. u = t /\ task'[t].pc = "stat"
        BY <1>2, <1>3, <1>4, <1>9, <3>1, <3>3 DEF Schedule
      <4> QED
        BY <4>1 DEF Alone
    <3> QED
      BY <3>2, <3>3 DEF Restored
  <2> QED
    BY <2>1, <2>2, <2>3 DEF Inv
<1> QED
  BY <1>8, <1>9

LEMMA RequestKeeps ==
    ASSUME Inv, NEW c \in Client, Request(c) \/ CallLost(c)
    PROVE  Inv'
<1>1. <<c, 1>> \in Handler /\ <<c, 2>> \in Handler /\ <<c, 1>> \in Task
  BY Apart DEF Handler
<1>2. UNCHANGED <<clock, config, vm, wanted, disk, wish, raced>>
  BY DEF Request, CallLost
<1>3. CASE Request(c)
  <2>1. PICK a \in Actions, n \in 1..made :
          task' = [task EXCEPT ![<<c, 1>>] = [NoTask EXCEPT !.pc = FirstStep(a), !.action = a, !.file = n]]
    BY <1>3 DEF Request
  <2>2. task[<<c, 1>>].pc = "idle"
    BY <1>3 DEF Request
  <2> QED
    BY <1>1, <1>2, <2>1, <2>2, HandlerBegins
<1>4. CASE CallLost(c)
  <2>1. PICK a, n : a = task[<<c, 1>>].action /\ n = task[<<c, 1>>].file
    OBVIOUS
  <2>2. /\ task' = [task EXCEPT ![<<c, 2>>] = [NoTask EXCEPT !.pc = FirstStep(a), !.action = a, !.file = n]]
        /\ task[<<c, 2>>].pc = "idle" /\ task[<<c, 1>>].pc # "idle"
    BY <1>4, <2>1 DEF CallLost
  <2>3. a \in Actions
    BY <1>1, <2>1, <2>2 DEF Inv, Types, Kind
  <2> QED
    BY <1>1, <1>2, <2>2, <2>3, HandlerBegins
<1> QED
  BY <1>3, <1>4

\* A task that is neither idle, done nor at a restore's step is not a restore.
LEMMA NoRestore ==
    ASSUME Inv, NEW t \in Task, task[t].pc \notin Restoring \cup {"done"}
    PROVE  /\ t \notin Restores
           /\ t \in Handler => task[t].action # "restore"
           /\ ~(t \in Handler /\ t \in Scheduler) /\ (t \in Handler \/ t \in Scheduler)
           /\ t \in Handler /\ task[t].pc # "idle" => task[t].action \in Actions
           /\ Known(task[t]) /\ Kind(t, task[t])
           /\ config \in Config /\ wish \in Config /\ clock \in Nat /\ raced \in BOOLEAN
           /\ ~raced => Same(config, wish) /\ Faithful(t, task[t])
  BY Apart DEF Inv, Types, Kind, Wishes, Restores

LEMMA EndKeeps ==
    ASSUME Inv, NEW t \in Task, task[t].pc \notin Restoring \cup {"idle", "done"},
           NEW e \in BOOLEAN, End(t, e),
           UNCHANGED <<clock, config, vm, wanted, disk, wish, raced>>
    PROVE  Inv'
<1>1. /\ DOMAIN task' = Task /\ \A u \in Task \ {t} : task'[u] = task[u]
      /\ task'[t].pc = (IF t \in Scheduler THEN "idle" ELSE "done")
      /\ task'[t].action = task[t].action /\ Known(task'[t])
  BY EndFacts DEF Inv
<1>2. Kind(t, task'[t]) /\ Faithful(t, task'[t])
  BY <1>1, NoRestore DEF Kind, Faithful, Restoring, Saving
<1> QED
  BY <1>1, <1>2, NoRestore, OtherTaskKeeps

LEMMA BackupOverKeeps ==
    ASSUME Inv, NEW t \in Task, task[t].pc \in {"begin", "prune", "remove"},
           NEW e \in BOOLEAN, BackupOver(t, e),
           UNCHANGED <<clock, config, vm, wanted, disk, wish, raced>>
    PROVE  Inv'
<1>1. task[t].pc \notin Restoring \cup {"idle", "done"} /\ task[t].pc \in Saving
  BY DEF Restoring, Saving
<1>2. /\ DOMAIN task' = Task /\ \A u \in Task \ {t} : task'[u] = task[u]
      /\ task'[t].action = task[t].action
      /\ Known(task'[t])
      /\ t \in Handler => task'[t].pc = "done"
      /\ t \in Scheduler => /\ task'[t].pc \in {"expire", "save"}
                            /\ task'[t].base = task[t].base
                            /\ Same(task'[t].copy, task[t].copy)
  BY BackupOverFacts DEF Inv
<1>3. Kind(t, task'[t])
  BY <1>1, <1>2, NoRestore DEF Kind, Restoring, Saving
<1>4. ~raced => Faithful(t, task'[t])
  BY <1>1, <1>2, NoRestore DEF Faithful, Same
<1> QED
  BY <1>1, <1>2, <1>3, <1>4, NoRestore, OtherTaskKeeps

\* A backup goes on to its next step, with what it carries.
LEMMA BackupGoesOn ==
    ASSUME Inv, NEW t \in Task, task[t].pc \in {"begin", "prune", "remove"},
           DOMAIN task' = Task, \A u \in Task \ {t} : task'[u] = task[u],
           DOMAIN task'[t] = Fields, task'[t].pc \in {"prune", "remove"},
           task'[t].action = task[t].action, task'[t].base = task[t].base,
           task'[t].copy = task[t].copy, task'[t].now = task[t].now,
           task'[t].err = task[t].err, task'[t].good = task[t].good,
           UNCHANGED <<clock, config, vm, wanted, disk, wish, raced>>
    PROVE  Inv'
<1>1. task[t].pc \notin Restoring \cup {"idle", "done"} /\ task[t].pc \in Saving
  BY DEF Restoring, Saving
<1>2. Known(task'[t])
  BY <1>1, NoRestore DEF Known, Saving
<1>3. Kind(t, task'[t])
  BY <1>1, NoRestore DEF Kind, Restoring, Saving
<1>4. ~raced => Faithful(t, task'[t])
  BY <1>1, NoRestore DEF Faithful
<1> QED
  BY <1>1, <1>2, <1>3, <1>4, NoRestore, OtherTaskKeeps

LEMMA BackupKeeps ==
    ASSUME Inv, NEW t \in Task, Begin(t) \/ ListFiles(t) \/ RemoveFile(t)
    PROVE  Inv'
<1>1. /\ task[t].pc \in {"begin", "prune", "remove"}
      /\ UNCHANGED <<clock, config, vm, wanted, disk, wish, raced>>
  BY DEF Begin, ListFiles, RemoveFile
<1>2. CASE \E e \in BOOLEAN : BackupOver(t, e)
  BY <1>1, <1>2, BackupOverKeeps
<1>3. CASE Goto(t, "prune")
  BY <1>1, <1>3, GotoFacts, BackupGoesOn DEF Inv
<1>4. CASE \E todo : \/ task' = [task EXCEPT ![t].pc = "remove", ![t].todo = todo]
                     \/ task[t].pc = "remove" /\ task' = [task EXCEPT ![t].todo = todo]
  <2>1. /\ DOMAIN task' = Task /\ \A u \in Task \ {t} : task'[u] = task[u]
        /\ DOMAIN task'[t] = Fields /\ task'[t].pc = "remove"
        /\ task'[t].action = task[t].action /\ task'[t].base = task[t].base
        /\ task'[t].copy = task[t].copy /\ task'[t].now = task[t].now
        /\ task'[t].err = task[t].err /\ task'[t].good = task[t].good
    BY <1>4 DEF Inv, Types, Known, Fields
  <2> QED
    BY <1>1, <2>1, BackupGoesOn
<1>5. Begin(t) => Goto(t, "prune") \/ BackupOver(t, TRUE)
  BY DEF Begin
<1>6. ListFiles(t) => \/ BackupOver(t, FALSE)
                     \/ task' = [task EXCEPT ![t].pc = "remove", ![t].todo = TooMany]
  BY DEF ListFiles
<1>7. RemoveFile(t) => \/ BackupOver(t, FALSE) \/ BackupOver(t, TRUE)
                      \/ /\ task[t].pc = "remove"
                         /\ task' = [task EXCEPT ![t].todo = Tail(@)]
  BY DEF RemoveFile
<1> QED
  BY <1>2, <1>3, <1>4, <1>5, <1>6, <1>7

\* A task takes up a configuration, or changes the one it carries.
LEMMA CarriesKeeps ==
    ASSUME Inv, NEW t \in Task, task[t].pc \notin Restoring \cup {"idle", "done"},
           NEW b \in Config, NEW c \in Config, NEW p \in {"begin", "expire", "save"},
           \/ task' = [task EXCEPT ![t] = [@ EXCEPT !.pc = p, !.base = b, !.copy = c]]
           \/ task' = [task EXCEPT ![t] = [@ EXCEPT !.pc = p, !.copy = c]] /\ b = task[t].base,
           t \in Handler => p = "save" /\ task[t].action \in Schedule,
           UNCHANGED <<clock, config, vm, wanted, disk, wish>>, raced' \in BOOLEAN,
           ~raced' => /\ ~raced
                      /\ t \in Handler => Same(c, NewSection(task[t].action, b))
                      /\ t \in Scheduler => Same(c, b)
    PROVE  Inv'
<1>1. /\ DOMAIN task' = Task /\ \A u \in Task \ {t} : task'[u] = task[u]
      /\ DOMAIN task'[t] = Fields /\ task'[t].pc = p
      /\ task'[t].base = b /\ task'[t].copy = c
      /\ task'[t].action = task[t].action /\ task'[t].now = task[t].now
      /\ task'[t].err = task[t].err /\ task'[t].good = task[t].good
  <2>1. DOMAIN task = Task /\ DOMAIN task[t] = Fields
    BY DEF Inv, Types, Known
  <2>2. CASE task' = [task EXCEPT ![t] = [@ EXCEPT !.pc = p, !.base = b, !.copy = c]]
    BY <2>1, <2>2 DEF Fields
  <2>3. CASE task' = [task EXCEPT ![t] = [@ EXCEPT !.pc = p, !.copy = c]] /\ b = task[t].base
    BY <2>1, <2>3 DEF Fields
  <2> QED
    BY <2>2, <2>3
<1>2. Known(task'[t])
  BY <1>1, NoRestore DEF Known, Saving
<1>3. Kind(t, task'[t])
  BY <1>1, NoRestore DEF Kind, Restoring, Saving
<1>4. ~raced' => ~raced /\ Same(config', wish') /\ Faithful(t, task'[t])
  BY <1>1, NoRestore DEF Faithful, Same
<1> QED
  BY <1>1, <1>2, <1>3, <1>4, NoRestore, OtherTaskKeeps

LEMMA LoadSectionKeeps ==
    ASSUME Inv, NEW t \in Task, LoadSection(t)
    PROVE  Inv'
<1>1. /\ t \in Handler /\ task[t].pc = "load" /\ t \notin Scheduler
      /\ UNCHANGED <<clock, config, vm, wanted, disk, wish>>
  BY Apart DEF LoadSection
<1>2. PICK c \in {config, NoConfig} :
        /\ IF c = config THEN NoFault /\ UNCHANGED raced ELSE Fault /\ raced' = TRUE
        /\ task' = [task EXCEPT ![t] = [@ EXCEPT !.pc = "save", !.base = config,
                                                !.copy = NewSection(task[t].action, c)]]
  BY DEF LoadSection
<1>3. c \in Config /\ config \in Config /\ task[t].action \in Schedule /\ raced \in BOOLEAN
  BY <1>1, SectionTypes DEF Inv, Types, Kind
<1>4. PICK d : d = NewSection(task[t].action, c)
  OBVIOUS
<1>5. d \in Config
  BY <1>3, <1>4, SectionTypes
<1>6. task' = [task EXCEPT ![t] = [@ EXCEPT !.pc = "save", !.base = config, !.copy = d]]
  BY <1>2, <1>4
<1>7. raced' \in BOOLEAN /\ (~raced' => ~raced /\ d = NewSection(task[t].action, config))
  BY <1>2, <1>3, <1>4
<1>8. \A e \in Config : Same(e, e)
  BY DEF Same
<1>9. NewSection(task[t].action, config) \in Config
  BY <1>3, SectionTypes
<1>10. PICK b : b = config
  OBVIOUS
<1> QED
  BY <1>1, <1>3, <1>5, <1>6, <1>7, <1>8, <1>9, <1>10, CarriesKeeps DEF Restoring

LEMMA LoadScheduleKeeps ==
    ASSUME Inv, NEW t \in Task, LoadSchedule(t)
    PROVE  Inv'
<1>1. /\ t \in Scheduler /\ task[t].pc = "load" /\ t \notin Handler
      /\ UNCHANGED <<clock, config, vm, wanted, disk, wish, raced>>
  BY Apart DEF LoadSchedule
<1>2. config \in Config /\ Key(task[t].now) \in Nat /\ raced \in BOOLEAN
  BY SectionTypes DEF Inv, Types, Known
<1>3. PICK b, c : b = config /\ c = [config EXCEPT !.backup.last = Key(task[t].now)]
  OBVIOUS
<1>4. b \in Config /\ c \in Config /\ Same(c, b) /\ Same(b, b)
  BY <1>2, <1>3 DEF Config, Section, Same
<1>5. CASE task' = [task EXCEPT ![t] = [@ EXCEPT !.pc = "begin", !.base = b, !.copy = c]]
  BY <1>1, <1>2, <1>4, <1>5, CarriesKeeps DEF Restoring
<1>6. CASE task' = [task EXCEPT ![t] = [@ EXCEPT !.pc = "expire", !.base = b, !.copy = b]]
  BY <1>1, <1>2, <1>4, <1>6, CarriesKeeps DEF Restoring
<1>7. CASE End(t, FALSE) \/ End(t, TRUE)
  BY <1>1, <1>7, EndKeeps DEF Restoring
<1> QED
  BY <1>3, <1>5, <1>6, <1>7 DEF LoadSchedule

LEMMA ExpireKeeps ==
    ASSUME Inv, NEW t \in Task, Expire(t)
    PROVE  Inv'
<1>1. /\ task[t].pc = "expire" /\ UNCHANGED <<clock, config, vm, wanted, disk, wish, raced>>
      /\ \E k \in {Key(task[t].now), 0} :
           task' = [task EXCEPT ![t] = [@ EXCEPT !.pc = "save", !.copy.delete.last = k]]
  BY DEF Expire
<1>2. t \in Scheduler /\ t \notin Handler /\ Known(task[t]) /\ raced \in BOOLEAN
  BY <1>1, Apart DEF Inv, Types, Kind
<1>3. PICK k \in Nat :
        task' = [task EXCEPT ![t] = [@ EXCEPT !.pc = "save", !.copy.delete.last = k]]
  BY <1>1, <1>2, SectionTypes DEF Known
<1>4. PICK b, c : b = task[t].base /\ c = [task[t].copy EXCEPT !.delete.last = k]
  OBVIOUS
<1>5. b \in Config /\ c \in Config /\ Same(c, task[t].copy)
  BY <1>2, <1>3, <1>4 DEF Known, Config, Section, Same
<1>6. task' = [task EXCEPT ![t] = [@ EXCEPT !.pc = "save", !.copy = c]]
  BY <1>2, <1>3, <1>4 DEF Known, Config, Section, Fields
<1>7. ~raced => Same(c, b)
  BY <1>1, <1>2, <1>4, <1>5 DEF Inv, Wishes, Faithful, Saving, Same
<1> QED
  BY <1>1, <1>2, <1>4, <1>5, <1>6, <1>7, CarriesKeeps DEF Restoring

LEMMA SaveKeeps ==
    ASSUME Inv, NEW t \in Task, Save(t)
    PROVE  Inv'
<1>1. task[t].pc = "save" /\ UNCHANGED <<clock, vm, wanted, disk>>
  BY DEF Save
<1>2. CASE End(t, TRUE) /\ UNCHANGED <<config, raced, wish>>
  BY <1>1, <1>2, EndKeeps DEF Restoring
<1>3. CASE /\ config' = task[t].copy
           /\ raced' = (raced \/ config # task[t].base)
           /\ wish' = IF t \in Handler THEN NewSection(task[t].action, wish) ELSE wish
           /\ End(t, FALSE)
  <2>1. /\ DOMAIN task' = Task /\ \A u \in Task \ {t} : task'[u] = task[u]
        /\ task'[t].pc = (IF t \in Scheduler THEN "idle" ELSE "done")
        /\ task'[t].action = task[t].action /\ Known(task'[t])
    BY <1>3, EndFacts DEF Inv
  <2>2. Kind(t, task'[t]) /\ Faithful(t, task'[t])
    BY <1>1, <2>1, NoRestore DEF Kind, Faithful, Restoring, Saving
  <2>3. t \in Handler => task[t].action \in Schedule
    BY <1>1, NoRestore DEF Kind, Restoring
  <2>4. Known(task[t]) /\ raced \in BOOLEAN
    BY DEF Inv, Types
  <2>5. config' \in Config /\ wish' \in Config
    BY <1>3, <2>3, <2>4, SectionTypes DEF Inv, Types, Known
  <2>6. raced' \in BOOLEAN /\ (~raced' => ~raced /\ config = task[t].base)
    BY <1>3, <2>4
  <2>7. ~raced' => Same(config', wish')
    <3> SUFFICES ASSUME ~raced'
                 PROVE  Same(config', wish')
      OBVIOUS
    <3>1. config \in Config /\ wish \in Config /\ Same(config, wish) /\ Faithful(t, task[t])
      BY <2>6 DEF Inv, Types, Wishes
    <3>2. CASE t \in Handler
      <4>1. Same(task[t].copy, NewSection(task[t].action, config))
        BY <1>1, <2>6, <3>1, <3>2 DEF Faithful
      <4>2. Same(NewSection(task[t].action, config), NewSection(task[t].action, wish))
        BY <2>3, <3>1, <3>2, SectionTypes
      <4> QED
        BY <1>3, <3>2, <4>1, <4>2 DEF Same
    <3>3. CASE t \in Scheduler /\ t \notin Handler
      BY <1>1, <1>3, <2>6, <3>1, <3>3 DEF Faithful, Same, Saving
    <3> QED
      BY <3>2, <3>3, Apart
  <2>8. /\ t \notin Restores /\ clock' \in Nat
        /\ t \in Handler => task'[t].action # "restore"
    BY <1>1, <2>1, NoRestore DEF Restoring
  <2> QED
    BY <1>1, <2>1, <2>2, <2>5, <2>6, <2>7, <2>8, OtherTaskKeeps
<1> QED
  BY <1>2, <1>3 DEF Save

LEMMA TickKeeps ==
    ASSUME Inv, NEW t \in Task, Tick(t)
    PROVE  Inv'
<1>1. /\ t \in Scheduler /\ t \notin Handler /\ task[t].pc = "idle"
      /\ UNCHANGED <<clock, config, vm, wanted, disk, wish, raced>>
  BY Apart DEF Tick
<1>2. CASE task' = [task EXCEPT ![t] = [NoTask EXCEPT !.pc = "load", !.action = "backup",
                                                      !.now = clock]]
  <2>1. PICK r : r = [NoTask EXCEPT !.pc = "load", !.action = "backup", !.now = clock]
    OBVIOUS
  <2>2. /\ DOMAIN r = Fields /\ r.pc = "load" /\ r.base = NoConfig /\ r.copy = NoConfig
        /\ r.now = clock /\ {r.err, r.good} \subseteq BOOLEAN
    BY <2>1 DEF NoTask, Fields
  <2>3. /\ DOMAIN task' = Task /\ \A u \in Task \ {t} : task'[u] = task[u]
        /\ task'[t] = r
    BY <1>2, <2>1 DEF Inv, Types
  <2>4. Known(r) /\ Kind(t, r) /\ Faithful(t, r)
    BY <1>1, <2>2, SectionTypes DEF Inv, Types, Known, Kind, Faithful, Saving
  <2> QED
    BY <1>1, <2>3, <2>4, NoRestore, OtherTaskKeeps DEF Restoring
<1>3. CASE task' = task
  BY <1>1, <1>3, NoRestore, OtherTaskKeeps DEF Restoring, Inv, Types
<1> QED
  BY <1>2, <1>3 DEF Tick

-----------------------------------------------------------------------------
(* The steps of a restore                                                   *)

\* Where the goal of a step starts from.
LEMMA AtRestore ==
    ASSUME Inv, NEW t \in Task, task[t].pc \in Restoring
    PROVE  /\ t \in Restores /\ t \in Handler /\ t \notin Scheduler
           /\ task[t].action = "restore"
           /\ Known(task[t])
           /\ vm \in BOOLEAN /\ wanted \in BOOLEAN /\ disk \in {"sound", "copying", "torn"}
  BY Apart DEF Inv, Types, Kind, Restores, Restoring, Saving

LEMMA RestoreStepKeeps ==
    ASSUME Inv, NEW t \in Task,
           \/ Stat(t) \/ Disable(t) \/ AwaitStopped(t) \/ OpenFiles(t) \/ Copy(t)
           \/ Reenable(t) \/ Enable(t)
    PROVE  Inv'
<1>1. /\ task[t].pc \in Restoring
      /\ UNCHANGED <<clock, config, wish, raced>>
  BY DEF Stat, Disable, AwaitStopped, OpenFiles, Copy, Reenable, Enable, Restoring
<1>2. /\ t \in Restores /\ t \in Handler /\ t \notin Scheduler
      /\ task[t].action = "restore" /\ Known(task[t]) /\ Types
      /\ vm \in BOOLEAN /\ wanted \in BOOLEAN /\ disk \in {"sound", "copying", "torn"}
  BY <1>1, AtRestore DEF Inv
\* It goes on at p, or ends.
<1>3. ASSUME NEW p \in Restoring, Goto(t, p)
      PROVE  /\ DOMAIN task' = Task /\ \A u \in Task \ {t} : task'[u] = task[u]
             /\ Known(task'[t]) /\ task'[t].action = "restore" /\ task'[t].pc = p
             /\ task'[t].good = task[t].good
  BY <1>2, <1>3, GotoFacts DEF Known
<1>4. ASSUME NEW e \in BOOLEAN, End(t, e)
      PROVE  /\ DOMAIN task' = Task /\ \A u \in Task \ {t} : task'[u] = task[u]
             /\ Known(task'[t]) /\ task'[t].action = "restore" /\ task'[t].pc = "done"
             /\ task'[t].good = task[t].good /\ task'[t].err = e
  BY <1>2, <1>4, EndFacts
\* A step that fails needs no claim.
<1>5. ASSUME End(t, TRUE), vm' = vm, wanted' \in BOOLEAN, disk' \in {disk, "sound", "torn"},
             task[t].pc # "copying" \/ disk' # "copying"
      PROVE  Inv'
  <2>1. Alone(t)'
    BY <1>4, <1>5 DEF Alone
  <2> QED
    BY <1>1, <1>2, <1>4, <1>5, <2>1, RestoreKeeps
<1>6. ASSUME Goto(t, "reenable"), task[t].pc \in {"copy", "copying"}, vm' = vm, wanted' = wanted,
             disk' \in {disk, "torn"}, task[t].pc # "copying" \/ disk' # "copying"
      PROVE  Inv'
  <2>1. Alone(t) => Alone(t)'
    BY <1>3, <1>6 DEF Alone, Restoring
  <2> QED
    BY <1>1, <1>2, <1>3, <1>6, <2>1, RestoreKeeps DEF Restoring
<1>7. CASE Stat(t)
  <2>1. CASE End(t, TRUE)
    BY <1>2, <1>5, <1>7, <2>1 DEF Stat
  <2>2. CASE \E g \in BOOLEAN : task' = [task EXCEPT ![t].pc = "disable", ![t].good = g]
    <3>1. /\ DOMAIN task' = Task /\ \A u \in Task \ {t} : task'[u] = task[u]
          /\ Known(task'[t]) /\ task'[t].action = "restore" /\ task'[t].pc = "disable"
      BY <1>2, <2>2 DEF Types, Known, Fields, Restoring
    <3>2. Alone(t)'
      BY <3>1 DEF Alone
    <3>3. UNCHANGED <<vm, wanted, disk>> /\ task[t].pc = "stat"
      BY <1>7 DEF Stat
    <3> QED
      BY <1>1, <1>2, <3>1, <3>2, <3>3, RestoreKeeps DEF Restoring
  <2> QED
    BY <1>7, <2>1, <2>2 DEF Stat
<1>8. CASE Disable(t)
  <2>1. CASE Goto(t, "wait") /\ wanted' = FALSE
    <3>1. UNCHANGED <<vm, disk>> /\ task[t].pc = "disable"
      BY <1>8 DEF Disable
    <3>2. Alone(t)'
      BY <1>3, <2>1 DEF Alone, Restoring
    <3> QED
      BY <1>1, <1>2, <1>3, <2>1, <3>1, <3>2, RestoreKeeps DEF Restoring
  <2>2. CASE End(t, TRUE) /\ wanted' \in {wanted, FALSE}
    BY <1>2, <1>5, <1>8, <2>2 DEF Disable
  <2> QED
    BY <1>8, <2>1, <2>2 DEF Disable
<1>9. CASE AwaitStopped(t)
  <2>1. CASE Goto(t, "copy") /\ ~vm
    <3>1. UNCHANGED <<vm, wanted, disk>> /\ task[t].pc = "wait"
      BY <1>9 DEF AwaitStopped
    <3>2. Alone(t) => Alone(t)'
      BY <1>3, <2>1, <3>1 DEF Alone, Restoring
    <3> QED
      BY <1>1, <1>2, <1>3, <2>1, <3>1, <3>2, RestoreKeeps DEF Restoring
  <2>2. CASE End(t, TRUE)
    BY <1>2, <1>5, <1>9, <2>2 DEF AwaitStopped
  <2> QED
    BY <1>9, <2>1, <2>2 DEF AwaitStopped
<1>10. CASE OpenFiles(t)
  <2>1. task[t].pc = "copy" /\ UNCHANGED <<vm, wanted>>
    BY <1>10 DEF OpenFiles
  <2>2. CASE CopyFailed(t) /\ disk' = disk
    BY <1>2, <1>5, <1>6, <2>1, <2>2 DEF CopyFailed
  <2>3. CASE /\ disk' = "copying"
             /\ \E g \in BOOLEAN : task' = [task EXCEPT ![t].pc = "copying", ![t].good = g]
    <3>1. /\ DOMAIN task' = Task /\ \A u \in Task \ {t} : task'[u] = task[u]
          /\ Known(task'[t]) /\ task'[t].action = "restore" /\ task'[t].pc = "copying"
      BY <1>2, <2>3 DEF Types, Known, Fields, Restoring
    <3>2. Alone(t) => Alone(t)'
      BY <2>1, <3>1 DEF Alone
    <3> QED
      BY <1>1, <1>2, <2>1, <2>3, <3>1, <3>2, RestoreKeeps DEF Restoring
  <2>4. PICK g : g = (task[t].good /\ files[Position(task[t].file)].state = "complete")
    OBVIOUS
  <2>5. g \in BOOLEAN
    BY <2>4
  <2>6. \/ CopyFailed(t) /\ disk' = disk
        \/ disk' = "copying" /\ task' = [task EXCEPT ![t].pc = "copying", ![t].good = g]
    BY <1>10, <2>4 DEF OpenFiles
  <2> QED
    BY <2>2, <2>3, <2>5, <2>6
<1>11. CASE Copy(t)
  <2>1. task[t].pc = "copying" /\ UNCHANGED <<vm, wanted>>
    BY <1>11 DEF Copy
  <2>2. CASE Goto(t, "enable") /\ disk' = IF task[t].good THEN "sound" ELSE "torn"
    <3>1. Alone(t) => Alone(t)'
      BY <1>3, <2>1, <2>2 DEF Alone, Restoring
    <3> QED
      BY <1>1, <1>2, <1>3, <2>1, <2>2, <3>1, RestoreKeeps DEF Restoring
  <2>3. CASE CopyFailed(t) /\ disk' = "torn"
    BY <1>2, <1>5, <1>6, <2>1, <2>3 DEF CopyFailed
  <2> QED
    BY <1>11, <2>2, <2>3 DEF Copy
<1>12. CASE Reenable(t)
  <2>1. /\ task[t].pc = "reenable" /\ End(t, TRUE) /\ UNCHANGED <<vm, disk>>
        /\ wanted' = TRUE \/ wanted' = wanted
    BY <1>12 DEF Reenable
  <2> QED
    BY <1>2, <1>5, <2>1
<1>13. CASE Enable(t)
  <2>1. task[t].pc = "enable" /\ UNCHANGED <<vm, disk>>
    BY <1>13 DEF Enable
  <2>2. CASE End(t, TRUE) /\ wanted' \in {wanted, TRUE}
    BY <1>2, <1>5, <2>1, <2>2
  <2>3. CASE End(t, FALSE) /\ wanted' = TRUE
    <3>1. Alone(t) => Alone(t)'
      BY <1>4, <2>1, <2>3 DEF Alone
    <3> QED
      BY <1>1, <1>2, <1>4, <2>1, <2>3, <3>1, RestoreKeeps
  <2> QED
    BY <1>13, <2>2, <2>3 DEF Enable
<1> QED
  BY <1>7, <1>8, <1>9, <1>10, <1>11, <1>12, <1>13

-----------------------------------------------------------------------------
(* The world, and the theorems                                              *)

LEMMA WorldKeeps ==
    ASSUME Inv, VMFollows \/ BackupCompletes \/ FileAges \/ NextMinute \/ DCMoves
    PROVE  Inv'
<1>1. /\ UNCHANGED <<task, config, wanted, disk, wish, raced>>
      /\ vm' = vm \/ vm' = wanted
      /\ clock' = clock \/ clock' = clock + 1
  BY DEF VMFollows, BackupCompletes, FileAges, NextMinute, DCMoves
<1>2. Types'
  BY <1>1 DEF Inv, Types, Known, Kind, Task, Scheduler, Handler
<1>3. Wishes'
  BY <1>1 DEF Inv, Wishes, Faithful, Same
<1>4. Restored'
  <2>1. Restores' = Restores
    BY <1>1 DEF Restores
  <2>2. ASSUME NEW t \in Handler, Alone(t)
        PROVE  Alone(t)'
    BY <1>1, <2>2 DEF Alone
  <2> QED
    BY <1>1, <2>1, <2>2 DEF Inv, Restored
<1> QED
  BY <1>2, <1>3, <1>4 DEF Inv

LEMMA StepKeepsInv ==
    ASSUME Inv, [Next]_vars
    PROVE  Inv'
<1>1. ASSUME NEW t \in Task, TaskStep(t)
      PROVE  Inv'
  <2>1. ASSUME List(t)
        PROVE  Inv'
    BY <2>1, EndKeeps DEF List, Restoring
  <2> QED
    BY <1>1, <2>1, LoadSectionKeeps, SaveKeeps, TickKeeps, LoadScheduleKeeps, ExpireKeeps,
       BackupKeeps, RestoreStepKeeps DEF TaskStep
<1>2. CASE UNCHANGED vars
  <2>1. Types'
    BY <1>2 DEF vars, Inv, Types, Known, Kind, Task, Scheduler, Handler
  <2>2. Wishes' /\ Restored'
    BY <1>2 DEF vars, Inv, Wishes, Faithful, Same, Restored, Restores, Alone
  <2> QED
    BY <2>1, <2>2 DEF Inv
<1> QED
  BY <1>1, <1>2, RequestKeeps, WorldKeeps DEF Next

LEMMA InitInv ==
    ASSUME Init
    PROVE  Inv
<1>1. /\ DOMAIN NoTask = Fields /\ NoTask.pc = "idle" /\ NoTask.action = "none"
      /\ NoTask.base = NoConfig /\ NoTask.copy = NoConfig /\ NoTask.now = 0
      /\ {NoTask.err, NoTask.good} \subseteq BOOLEAN
  BY DEF NoTask, Fields
<1>2. Known(NoTask)
  BY <1>1, SectionTypes DEF Known
<1>3. \A t \in Task : Kind(t, NoTask) /\ Faithful(t, NoTask)
  BY <1>1 DEF Kind, Faithful, Restoring, Saving
<1>4. Types
  <2>1. config \in Config /\ wish \in Config
    BY SectionTypes DEF Init, Config
  <2> QED
    BY <1>2, <1>3, <2>1 DEF Init, Types
<1>5. Wishes
  BY <1>3 DEF Init, Wishes, Same
<1>6. Restored
  <2>1. Restores = {}
    BY <1>1, Apart DEF Init, Restores
  <2> QED
    BY <2>1 DEF Init, Restored
<1> QED
  BY <1>4, <1>5, <1>6 DEF Inv

\* A restore without another one never writes to the disk of a CCVM that runs, for any
\* hosts, requests and failures (waitCCVMPcsRole, waitLocalCCVMState, copyFile).
THEOREM DiskSafe == Spec => []DiskOfStopped
<1>1. Inv => DiskOfStopped
  <2> SUFFICES ASSUME Inv, NEW t \in Restores, Restores = {t}, disk = "copying"
               PROVE  ~vm
    BY DEF DiskOfStopped
  <2>1. PICK u \in Handler : task[u].pc = "copying"
    BY DEF Inv, Restored
  <2>2. u = t
    BY <2>1, Apart DEF Inv, Types, Kind, Restores, Restoring
  <2> QED
    BY <2>1, <2>2 DEF Inv, Restored, Alone
<1>2. Init => Inv
  BY InitInv
<1>3. Inv /\ [Next]_vars => Inv'
  BY StepKeepsInv
<1> QED
  BY <1>1, <1>2, <1>3, PTL DEF Spec

\* A restore without another one that is answered with success leaves a whole disk and a
\* CCVM that PCS wants (restoreCCVMBackupFile).
THEOREM RestoreSafe == Spec => []RestoreIsSound
<1>1. Inv => RestoreIsSound
  BY DEF Inv, Restored, Restores, Alone, RestoreIsSound
<1>2. Init => Inv
  BY InitInv
<1>3. Inv /\ [Next]_vars => Inv'
  BY StepKeepsInv
<1> QED
  BY <1>1, <1>2, <1>3, PTL DEF Spec

\* The file of schedules says what the answered requests have asked for, unless a save
\* has overwritten another one or a file that could not be read
\* (updateCCVMBackupConfigSection, triggerAutoCCVMBackupSchedule).
THEOREM WishSafe == Spec => []WishKept
<1>1. Inv => WishKept
  BY DEF Inv, Wishes, Same, WishKept
<1>2. Init => Inv
  BY InitInv
<1>3. Inv /\ [Next]_vars => Inv'
  BY StepKeepsInv
<1> QED
  BY <1>1, <1>2, <1>3, PTL DEF Spec

-----------------------------------------------------------------------------
(* What retention removes: the files are in the order of their times, and    *)
(* no list, however old, holds one of the newest.                            *)

File == [n : Nat, state : {"writing", "complete", "broken"}, old : BOOLEAN]

InOrder ==
    /\ files \in Seq(File) /\ made \in Nat
    /\ \A i \in DOMAIN files : files[i].n <= made
    /\ \A i, j \in DOMAIN files : i < j => files[i].n < files[j].n

Lists == \A t \in Task : task[t].pc = "remove" =>
    /\ task[t].todo \in Seq(File) /\ task[t].todo # <<>>
    /\ \A k \in DOMAIN task[t].todo : task[t].todo[k].n <= made

OldOnly == \A t \in Task : task[t].pc = "remove" =>
    \A k \in DOMAIN task[t].todo, i \in DOMAIN files :
       files[i].n = task[t].todo[k].n => i + Keep <= Len(files)

Retained == InOrder /\ Lists /\ OldOnly

LEMMA RemoveAtFacts ==
    ASSUME NEW S, NEW s \in Seq(S), NEW i \in DOMAIN s, NEW r, r = RemoveAt(s, i)
    PROVE  /\ r \in Seq(S) /\ Len(r) = Len(s) - 1
           /\ \A j \in DOMAIN r : r[j] = IF j < i THEN s[j] ELSE s[j + 1]
<1>1. Len(s) \in Nat /\ i \in 1..Len(s)
  OBVIOUS
<1>2. PICK p : p = SubSeq(s, 1, i - 1)
  OBVIOUS
<1>3. PICK q : q = SubSeq(s, i + 1, Len(s))
  OBVIOUS
<1>4. p \in Seq(S) /\ Len(p) = i - 1 /\ \A j \in 1..(i - 1) : p[j] = s[j]
  BY <1>1, <1>2
<1>5. /\ q \in Seq(S) /\ Len(q) = Len(s) - i
      /\ \A j \in 1..(Len(s) - i) : q[j] = s[i + j]
  BY <1>1, <1>3
<1>6. r = p \o q
  BY <1>2, <1>3 DEF RemoveAt
<1>7. r \in Seq(S) /\ Len(r) = Len(p) + Len(q)
      /\ \A j \in 1..Len(r) : r[j] = IF j <= Len(p) THEN p[j] ELSE q[j - Len(p)]
  BY ONLY <1>4, <1>5, <1>6, ConcatProperties
<1>8. Len(r) = Len(s) - 1 /\ DOMAIN r = 1..Len(r)
  BY <1>1, <1>4, <1>5, <1>7
<1>9. ASSUME NEW j \in DOMAIN r
      PROVE  r[j] = IF j < i THEN s[j] ELSE s[j + 1]
  <2>1. CASE j < i
    BY <1>1, <1>4, <1>7, <1>8, <1>9, <2>1
  <2>2. CASE ~(j < i)
    <3>1. r[j] = q[j - (i - 1)] /\ j - (i - 1) \in 1..(Len(s) - i)
      BY <1>1, <1>4, <1>7, <1>8, <1>9, <2>2
    <3>2. i + (j - (i - 1)) = j + 1
      BY <1>1, <1>8, <1>9
    <3> QED
      BY <1>5, <2>2, <3>1, <3>2
  <2> QED
    BY <2>1, <2>2
<1> QED
  BY <1>7, <1>8, <1>9

LEMMA NewestStay ==
    ASSUME NEW S, NEW s \in Seq(S), NEW i \in DOMAIN s, NEW r, r = RemoveAt(s, i),
           i + Keep <= Len(s)
    PROVE  Len(s) > Keep /\ Newest(r) = Newest(s)
<1>1. /\ r \in Seq(S) /\ Len(r) = Len(s) - 1
      /\ \A j \in DOMAIN r : r[j] = IF j < i THEN s[j] ELSE s[j + 1]
  BY RemoveAtFacts
<1>2. Len(s) \in Nat /\ i \in 1..Len(s) /\ Keep \in Nat \ {0} /\ Len(s) > Keep
  BY CCVMBackupAssumption
<1>3. /\ Newest(s) \in Seq(S) /\ Len(Newest(s)) = Keep
      /\ \A j \in 1..Keep : Newest(s)[j] = s[Len(s) - Keep + j]
  BY <1>2 DEF Newest
<1>4. /\ Newest(r) \in Seq(S) /\ Len(Newest(r)) = Keep
      /\ \A j \in 1..Keep : Newest(r)[j] = r[Len(s) - 1 - Keep + j]
  BY <1>1, <1>2 DEF Newest
<1>5. ASSUME NEW j \in 1..Keep
      PROVE  Newest(r)[j] = Newest(s)[j]
  <2>1. PICK m : m = Len(s) - 1 - Keep + j
    OBVIOUS
  <2>2. m \in DOMAIN r /\ ~(m < i) /\ m + 1 = Len(s) - Keep + j
    BY <1>1, <1>2, <2>1
  <2>3. r[m] = s[m + 1]
    BY <1>1, <2>2
  <2> QED
    BY <1>3, <1>4, <2>1, <2>2, <2>3
<1> QED
  BY <1>2, <1>3, <1>4, <1>5, SeqEqual

LEMMA TailFacts ==
    ASSUME NEW S, NEW s \in Seq(S), s # <<>>
    PROVE  /\ Tail(s) \in Seq(S) /\ (Len(s) # 1 => Tail(s) # <<>>)
           /\ \A k \in DOMAIN Tail(s) : k + 1 \in DOMAIN s /\ Tail(s)[k] = s[k + 1]
           /\ 1 \in DOMAIN s /\ Head(s) = s[1]
<1>1. PICK rest : rest = Tail(s)
  OBVIOUS
<1>2. /\ rest \in Seq(S) /\ Len(rest) = Len(s) - 1
      /\ \A k \in 1..Len(rest) : rest[k] = s[k + 1]
  BY ONLY <1>1, s \in Seq(S), s # <<>>, HeadTailProperties
<1>3. Len(s) \in Nat \ {0} /\ DOMAIN s = 1..Len(s) /\ Head(s) = s[1]
  OBVIOUS
<1>4. DOMAIN rest = 1..Len(rest) /\ Len(rest) \in Nat /\ (rest = <<>> => Len(rest) = 0)
  BY ONLY <1>2
<1>5. \A k \in DOMAIN rest : k + 1 \in DOMAIN s
  BY <1>2, <1>3, <1>4
<1>6. (Len(s) # 1 => rest # <<>>) /\ 1 \in DOMAIN s
  BY <1>2, <1>3, <1>4
<1> QED
  BY <1>1, <1>2, <1>3, <1>4, <1>5, <1>6, Zenon

\* Who removes had its list before, and whatever file there was is as far from the newest.
LEMMA OthersRetain ==
    ASSUME Retained, InOrder', made <= made',
           \A t \in Task : task'[t].pc = "remove" => task'[t] = task[t],
           \A i \in DOMAIN files' :
              \/ files'[i].n > made
              \/ \E j \in DOMAIN files : files[j].n = files'[i].n /\ Len(files) - j <= Len(files') - i
    PROVE  Retained'
<1>1. files \in Seq(File) /\ Len(files) \in Nat /\ DOMAIN files = 1..Len(files) /\ made \in Nat
  BY DEF Retained, InOrder
<1>2. files' \in Seq(File) /\ Len(files') \in Nat /\ DOMAIN files' = 1..Len(files') /\ made' \in Nat
  BY DEF InOrder
<1>3. Lists'
  <2> SUFFICES ASSUME NEW t \in Task, task'[t].pc = "remove"
               PROVE  /\ task'[t].todo \in Seq(File) /\ task'[t].todo # <<>>
                      /\ \A k \in DOMAIN task'[t].todo : task'[t].todo[k].n <= made'
    BY DEF Lists
  <2>1. /\ task'[t].todo \in Seq(File) /\ task'[t].todo # <<>>
        /\ \A k \in DOMAIN task'[t].todo : task'[t].todo[k].n <= made
    BY DEF Retained, Lists
  <2>2. ASSUME NEW k \in DOMAIN task'[t].todo
        PROVE  task'[t].todo[k].n \in Nat
    <3>1. PICK todo : todo = task'[t].todo
      OBVIOUS
    <3>2. todo[k] \in File
      BY <2>1, <3>1
    <3> QED
      BY <3>1, <3>2 DEF File
  <2> QED
    BY <1>1, <1>2, <2>1, <2>2
<1>4. OldOnly'
  <2> SUFFICES ASSUME NEW t \in Task, task'[t].pc = "remove",
                      NEW k \in DOMAIN task'[t].todo, NEW i \in DOMAIN files',
                      files'[i].n = task'[t].todo[k].n
               PROVE  i + Keep <= Len(files')
    BY DEF OldOnly
  <2>1. task[t] = task'[t] /\ files'[i].n <= made
    BY DEF Retained, Lists
  <2>2. files'[i].n \in Nat
    <3>1. PICK fs : fs = files'
      OBVIOUS
    <3>2. fs[i] \in File
      BY <1>2, <3>1
    <3> QED
      BY <3>1, <3>2 DEF File
  <2>3. PICK j \in DOMAIN files : files[j].n = files'[i].n /\ Len(files) - j <= Len(files') - i
    BY <1>1, <2>1, <2>2
  <2>4. j + Keep <= Len(files)
    BY <2>1, <2>3 DEF Retained, OldOnly
  <2> QED
    BY <1>1, <1>2, <2>3, <2>4, CCVMBackupAssumption
<1> QED
  BY <1>3, <1>4 DEF Retained

\* A step that leaves the files alone.
LEMMA SameFilesRetain ==
    ASSUME Retained, UNCHANGED <<files, made>>,
           \A t \in Task : task'[t].pc = "remove" => task'[t] = task[t]
    PROVE  Retained'
<1>1. InOrder' /\ made <= made'
  BY DEF Retained, InOrder
<1>2. \A i \in DOMAIN files' : Len(files) - i <= Len(files') - i
  BY DEF Retained, InOrder
<1> QED
  BY <1>1, <1>2, OthersRetain

\* How a task's step leaves the removing to others.
LEMMA NoRemover ==
    ASSUME Inv, NEW t \in Task,
           \/ List(t) \/ LoadSection(t) \/ Save(t) \/ Tick(t) \/ LoadSchedule(t) \/ Expire(t)
           \/ Begin(t) \/ Stat(t) \/ Disable(t) \/ AwaitStopped(t) \/ OpenFiles(t) \/ Copy(t)
           \/ Reenable(t) \/ Enable(t)
    PROVE  \A u \in Task : task'[u].pc = "remove" => task'[u] = task[u]
<1>1. DOMAIN task = Task /\ Types /\ DOMAIN task[t] = Fields
  BY DEF Inv, Types, Known
<1> DEFINE Others == \A u \in Task : task'[u].pc = "remove" => task'[u] = task[u]
<1>2. ASSUME NEW r, task' = [task EXCEPT ![t] = r], r.pc # "remove"
      PROVE  Others
  BY <1>1, <1>2
<1>3. ASSUME NEW e \in BOOLEAN, End(t, e) \/ BackupOver(t, e)
      PROVE  Others
  <2>1. /\ \A u \in Task \ {t} : task'[u] = task[u]
        /\ task'[t].pc \in {"idle", "done", "expire", "save"}
    BY <1>1, <1>3, EndFacts, BackupOverFacts, Apart
  <2> QED
    BY <2>1
<1>4. ASSUME NEW p, Goto(t, p), p # "remove"
      PROVE  Others
  BY <1>1, <1>4, GotoFacts
<1>5. ASSUME NEW p, NEW b, NEW c, p # "remove",
             task' = [task EXCEPT ![t] = [@ EXCEPT !.pc = p, !.base = b, !.copy = c]]
      PROVE  Others
  BY <1>1, <1>5 DEF Fields
<1>6. ASSUME NEW p, NEW g, p # "remove", task' = [task EXCEPT ![t].pc = p, ![t].good = g]
      PROVE  Others
  BY <1>1, <1>6 DEF Fields
<1> HIDE DEF Others
<1>7. List(t) \/ Save(t) => Others
  BY <1>3 DEF List, Save
<1>8. LoadSection(t) => Others
  BY <1>5 DEF LoadSection
<1>9. Tick(t) => Others
  <2>1. CASE task' = task
    BY <2>1 DEF Others
  <2>2. CASE task' = [task EXCEPT ![t] = [NoTask EXCEPT !.pc = "load", !.action = "backup", !.now = clock]]
    <3>1. [NoTask EXCEPT !.pc = "load", !.action = "backup", !.now = clock].pc = "load"
      BY DEF NoTask
    <3> QED
      BY <1>2, <2>2, <3>1
  <2> QED
    BY <2>1, <2>2 DEF Tick
<1>10. LoadSchedule(t) => Others
  <2>1. PICK b, c : b = config /\ c = [config EXCEPT !.backup.last = Key(task[t].now)]
    OBVIOUS
  <2>2. LoadSchedule(t) => \/ task' = [task EXCEPT ![t] = [@ EXCEPT !.pc = "begin", !.base = b, !.copy = c]]
                           \/ task' = [task EXCEPT ![t] = [@ EXCEPT !.pc = "expire", !.base = b, !.copy = b]]
                           \/ End(t, FALSE) \/ End(t, TRUE)
    BY <2>1 DEF LoadSchedule
  <2> QED
    BY <1>3, <1>5, <2>2
<1>11. Expire(t) => Others
  <2> SUFFICES ASSUME NEW l, task' = [task EXCEPT ![t] = [@ EXCEPT !.pc = "save", !.copy.delete.last = l]]
               PROVE  Others
    BY DEF Expire
  <2>1. task'[t].pc = "save" /\ \A u \in Task \ {t} : task'[u] = task[u]
    BY <1>1 DEF Fields
  <2> QED
    BY <2>1 DEF Others
<1>12. Begin(t) => Others
  BY <1>3, <1>4 DEF Begin
<1>13. Stat(t) => Others
  BY <1>3, <1>6 DEF Stat
<1>14. Disable(t) \/ AwaitStopped(t) \/ Reenable(t) \/ Enable(t) => Others
  BY <1>3, <1>4 DEF Disable, AwaitStopped, Reenable, Enable
<1>15. CopyFailed(t) => Others
  BY <1>3, <1>4 DEF CopyFailed
<1>16. OpenFiles(t) => Others
  BY <1>6, <1>15 DEF OpenFiles
<1>17. Copy(t) => Others
  BY <1>4, <1>15 DEF Copy
<1> QED
  BY <1>7, <1>8, <1>9, <1>10, <1>11, <1>12, <1>13, <1>14, <1>16, <1>17 DEF Others

\* The steps of requests, schedules and restores.
LEMMA TasksRetain ==
    ASSUME Inv, Retained, NEW t \in Task,
           \/ List(t) \/ LoadSection(t) \/ Save(t) \/ Tick(t) \/ LoadSchedule(t)
           \/ Stat(t) \/ Disable(t) \/ AwaitStopped(t) \/ OpenFiles(t) \/ Copy(t)
           \/ Reenable(t) \/ Enable(t)
    PROVE  Retained'
<1>1. UNCHANGED <<files, made>>
  BY DEF List, LoadSection, Save, Tick, LoadSchedule, Stat, Disable, AwaitStopped, OpenFiles,
         Copy, Reenable, Enable
<1> QED
  BY <1>1, NoRemover, SameFilesRetain

LEMMA RequestsRetain ==
    ASSUME Inv, Retained, NEW c \in Client, Request(c) \/ CallLost(c)
    PROVE  Retained'
<1> DEFINE Others == \A u \in Task : task'[u].pc = "remove" => task'[u] = task[u]
<1>1. ASSUME NEW t \in Task, NEW a, NEW n,
             task' = [task EXCEPT ![t] = [NoTask EXCEPT !.pc = FirstStep(a), !.action = a, !.file = n]]
      PROVE  Others
  <2>1. [NoTask EXCEPT !.pc = FirstStep(a), !.action = a, !.file = n].pc = FirstStep(a)
    BY DEF NoTask
  <2>2. FirstStep(a) # "remove"
    BY DEF FirstStep
  <2> QED
    BY <1>1, <2>1, <2>2 DEF Inv, Types
<1>2. <<c, 1>> \in Task /\ <<c, 2>> \in Task
  BY DEF Task, Handler
<1> HIDE DEF Others
<1>3. Others
  BY <1>1, <1>2 DEF Request, CallLost
<1> QED
  BY <1>3, SameFilesRetain DEF Request, CallLost, Others

\* virsh backup-begin adds the newest file.
LEMMA BeginRetains ==
    ASSUME Inv, Retained, NEW t \in Task, Begin(t)
    PROVE  Retained'
<1>1. \A u \in Task : task'[u].pc = "remove" => task'[u] = task[u]
  BY NoRemover
<1>2. CASE UNCHANGED <<files, made>>
  BY <1>1, <1>2, SameFilesRetain
<1>3. CASE BackupBegins
  <2>1. /\ files \in Seq(File) /\ Len(files) \in Nat /\ DOMAIN files = 1..Len(files)
        /\ made \in Nat
    BY DEF Retained, InOrder
  <2>2. PICK new : new = [n |-> made + 1, state |-> "writing", old |-> FALSE]
    OBVIOUS
  <2>3. new \in File /\ new.n = made + 1
    BY <2>1, <2>2 DEF File
  <2>4. files' = Append(files, new) /\ made' = made + 1
    BY <1>3, <2>2 DEF BackupBegins
  <2>5. /\ files' \in Seq(File) /\ Len(files') = Len(files) + 1
        /\ DOMAIN files' = 1..(Len(files) + 1) /\ files'[Len(files) + 1] = new
        /\ \A i \in 1..Len(files) : files'[i] = files[i]
    BY <2>1, <2>3, <2>4
  <2>6. ASSUME NEW i \in 1..Len(files)
        PROVE  files[i].n \in Nat /\ files[i].n <= made
    <3>1. files[i] \in File
      BY <2>1
    <3> QED
      BY <2>1, <3>1 DEF Retained, InOrder, File
  <2>7. InOrder'
    <3>1. \A i \in DOMAIN files' : files'[i].n <= made'
      BY <2>1, <2>3, <2>4, <2>5, <2>6
    <3>2. \A i, j \in DOMAIN files' : i < j => files'[i].n < files'[j].n
      BY <2>1, <2>3, <2>4, <2>5, <2>6 DEF Retained, InOrder
    <3> QED
      BY <2>1, <2>4, <2>5, <3>1, <3>2 DEF InOrder
  <2>8. ASSUME NEW i \in DOMAIN files'
        PROVE  \/ files'[i].n > made
               \/ \E j \in DOMAIN files : files[j].n = files'[i].n /\ Len(files) - j <= Len(files') - i
    BY <2>1, <2>3, <2>4, <2>5
  <2>9. made <= made'
    BY <2>1, <2>4
  <2> QED
    BY <1>1, <2>7, <2>8, <2>9, OthersRetain
<1> QED
  BY <1>2, <1>3 DEF Begin

\* deleteExpiredCCVMBackups removes the oldest.
LEMMA ExpireRetains ==
    ASSUME Inv, Retained, NEW t \in Task, Expire(t)
    PROVE  Retained'
<1>1. /\ \A u \in Task : task'[u].pc = "remove" => task'[u] = task[u]
      /\ made' = made
  BY NoRemover DEF Expire
<1>2. /\ files \in Seq(File) /\ Len(files) \in Nat /\ DOMAIN files = 1..Len(files)
      /\ made \in Nat
  BY DEF Retained, InOrder
<1>3. PICK k \in 0..Len(files) : files' = SubSeq(files, k + 1, Len(files))
  BY DEF Expire
<1>4. PICK n \in Nat : n = Len(files) - k
  <2>1. Len(files) - k \in Nat
    BY <1>2
  <2> QED
    BY <2>1
<1>5. /\ files' \in Seq(File) /\ Len(files') = n /\ DOMAIN files' = 1..n
      /\ \A i \in 1..n : files'[i] = files[i + k]
  BY <1>2, <1>3, <1>4
<1>6. ASSUME NEW i \in DOMAIN files'
      PROVE  \E j \in DOMAIN files : files[j] = files'[i] /\ j = i + k
  <2>1. i + k \in DOMAIN files
    BY <1>2, <1>4, <1>5
  <2> QED
    BY <1>5, <2>1
<1>7. InOrder'
  <2>1. \A i \in DOMAIN files' : files'[i].n <= made'
    BY <1>1, <1>6 DEF Retained, InOrder
  <2>2. ASSUME NEW i \in DOMAIN files', NEW j \in DOMAIN files', i < j
        PROVE  files'[i].n < files'[j].n
    <3>1. PICK a \in DOMAIN files : files[a] = files'[i] /\ a = i + k
      BY <1>6
    <3>2. PICK b \in DOMAIN files : files[b] = files'[j] /\ b = j + k
      BY <1>6
    <3>3. a < b
      BY <1>2, <1>5, <2>2, <3>1, <3>2
    <3> QED
      BY <3>1, <3>2, <3>3 DEF Retained, InOrder
  <2> QED
    BY <1>1, <1>2, <1>5, <2>1, <2>2 DEF InOrder
<1>8. ASSUME NEW i \in DOMAIN files'
      PROVE  \E j \in DOMAIN files : files[j].n = files'[i].n /\ Len(files) - j <= Len(files') - i
  <2>1. PICK j \in DOMAIN files : files[j] = files'[i] /\ j = i + k
    BY <1>6
  <2>2. Len(files) - j <= Len(files') - i
    BY <1>2, <1>4, <1>5, <2>1
  <2> QED
    BY <2>1, <2>2
<1>9. made <= made'
  BY <1>1, <1>2
<1> QED
  BY <1>1, <1>7, <1>8, <1>9, OthersRetain

\* A backup is complete or broken, a file is old.
LEMMA WorldRetains ==
    ASSUME Retained, VMFollows \/ BackupCompletes \/ FileAges \/ NextMinute \/ DCMoves \/ UNCHANGED vars
    PROVE  Retained'
<1>1. UNCHANGED <<task, made>>
  BY DEF VMFollows, BackupCompletes, FileAges, NextMinute, DCMoves, vars
<1>2. files \in Seq(File) /\ Len(files) \in Nat /\ DOMAIN files = 1..Len(files)
  BY DEF Retained, InOrder
<1>3. CASE UNCHANGED files
  BY <1>1, <1>3, SameFilesRetain
<1>4. ASSUME files' \in Seq(File), DOMAIN files' = DOMAIN files, Len(files') = Len(files),
             \A i \in DOMAIN files : files'[i].n = files[i].n
      PROVE  Retained'
  <2>1. InOrder'
    BY <1>1, <1>4 DEF Retained, InOrder
  <2>2. made <= made'
    BY <1>1 DEF Retained, InOrder
  <2>3. \A i \in DOMAIN files' : i \in DOMAIN files /\ Len(files) - i <= Len(files') - i
    BY <1>2, <1>4
  <2> QED
    BY <1>1, <1>4, <2>1, <2>2, <2>3, OthersRetain
<1>5. ASSUME NEW i \in DOMAIN files, NEW s \in {"broken", "complete"}
      PROVE  /\ [files[i] EXCEPT !.state = s] \in File /\ [files[i] EXCEPT !.state = s].n = files[i].n
             /\ [files[i] EXCEPT !.old = TRUE] \in File /\ [files[i] EXCEPT !.old = TRUE].n = files[i].n
             /\ files[i] \in File
  <2>1. files[i] \in File
    BY <1>2
  <2> QED
    BY <2>1 DEF File
<1>6. CASE VMFollows \/ BackupCompletes
  <2>1. PICK s \in {"broken", "complete"} : \E P \in BOOLEAN :
          files' = [i \in DOMAIN files |-> IF files[i].state = "writing" /\ P
                                           THEN [files[i] EXCEPT !.state = s] ELSE files[i]]
    <3>1. CASE VMFollows
      <4>1. PICK P \in BOOLEAN : P <=> ~wanted
        OBVIOUS
      <4> QED
        BY <3>1, <4>1 DEF VMFollows
    <3>2. CASE BackupCompletes
      BY <3>2 DEF BackupCompletes
    <3> QED
      BY <1>6, <3>1, <3>2
  <2>2. PICK P \in BOOLEAN :
          files' = [i \in 1..Len(files) |-> IF files[i].state = "writing" /\ P
                                           THEN [files[i] EXCEPT !.state = s] ELSE files[i]]
    BY <1>2, <2>1
  <2>3. \A i \in 1..Len(files) : files'[i] \in File /\ files'[i].n = files[i].n
    BY <1>2, <1>5, <2>2
  <2>4. DOMAIN files' = 1..Len(files) /\ Len(files') = Len(files) /\ files' \in Seq(File)
    BY <1>2, <2>2, <2>3
  <2> QED
    BY <1>2, <1>4, <2>3, <2>4
<1>7. CASE FileAges
  <2>1. PICK i \in DOMAIN files : files' = [files EXCEPT ![i].old = TRUE]
    BY <1>7 DEF FileAges
  <2>2. files' = [files EXCEPT ![i] = [files[i] EXCEPT !.old = TRUE]]
    BY <2>1
  <2>3. PICK r \in File : r = [files[i] EXCEPT !.old = TRUE] /\ r.n = files[i].n
    BY <1>5
  <2>4. files' = [files EXCEPT ![i] = r]
    BY <2>2, <2>3
  <2>5. /\ files' \in Seq(File) /\ DOMAIN files' = DOMAIN files /\ Len(files') = Len(files)
        /\ \A j \in DOMAIN files : files'[j].n = files[j].n
    BY <1>2, <2>3, <2>4
  <2> QED
    BY <1>4, <2>5
<1> QED
  BY <1>3, <1>6, <1>7 DEF NextMinute, DCMoves, vars

\* pruneCCVMBackupFiles lists what is too many.
LEMMA ListRetains ==
    ASSUME Inv, Retained, NEW t \in Task, ListFiles(t)
    PROVE  Retained'
<1>1. /\ UNCHANGED <<files, made>> /\ DOMAIN task = Task /\ Types /\ DOMAIN task[t] = Fields
  BY DEF ListFiles, Inv, Types, Known
<1>2. CASE BackupOver(t, FALSE)
  <2>1. /\ \A u \in Task \ {t} : task'[u] = task[u]
        /\ task'[t].pc \in {"done", "expire", "save"}
    BY <1>1, <1>2, BackupOverFacts, Apart
  <2> QED
    BY <1>1, <2>1, SameFilesRetain
<1>3. CASE TooMany # <<>> /\ task' = [task EXCEPT ![t].pc = "remove", ![t].todo = TooMany]
  <2>1. /\ task'[t].pc = "remove" /\ task'[t].todo = TooMany
        /\ \A u \in Task \ {t} : task'[u] = task[u]
    BY <1>1, <1>3 DEF Fields
  <2>2. /\ files \in Seq(File) /\ Len(files) \in Nat /\ DOMAIN files = 1..Len(files)
        /\ Keep \in Nat
    BY CCVMBackupAssumption DEF Retained, InOrder
  <2>3. /\ TooMany \in Seq(File)
        /\ \A k \in DOMAIN TooMany : k \in DOMAIN files /\ k + Keep <= Len(files)
                                     /\ TooMany[k] = files[k]
    BY <2>2 DEF TooMany
  <2>4. InOrder'
    BY <1>1 DEF Retained, InOrder
  <2>5. Lists'
    <3>1. \A k \in DOMAIN TooMany : TooMany[k].n <= made
      BY <2>3 DEF Retained, InOrder
    <3> QED
      BY <1>1, <1>3, <2>1, <2>3, <3>1 DEF Retained, Lists
  <2>6. OldOnly'
    <3>1. ASSUME NEW k \in DOMAIN TooMany, NEW i \in DOMAIN files, files[i].n = TooMany[k].n
          PROVE  i + Keep <= Len(files)
      <4>1. k \in DOMAIN files /\ files[k].n = files[i].n /\ k + Keep <= Len(files)
        BY <2>3, <3>1
      <4>2. files[i].n \in Nat
        <5>1. files[i] \in File
          BY <2>2
        <5> QED
          BY <5>1 DEF File
      <4>3. ~(i < k) /\ ~(k < i)
        BY <4>1, <4>2 DEF Retained, InOrder
      <4> QED
        BY <2>2, <4>1, <4>3
    <3> QED
      BY <1>1, <2>1, <3>1 DEF Retained, OldOnly
  <2> QED
    BY <2>4, <2>5, <2>6 DEF Retained
<1> QED
  BY <1>2, <1>3 DEF ListFiles

\* os.Remove: what follows the file that is gone moves up by one.
LEMMA RemoveRetains ==
    ASSUME Inv, Retained, NEW t \in Task, RemoveFile(t)
    PROVE  Retained'
<1>1. /\ made' = made /\ task[t].pc = "remove" /\ DOMAIN task[t] = Fields
      /\ DOMAIN task = Task /\ Types
      /\ task[t].todo \in Seq(File) /\ task[t].todo # <<>>
  BY DEF RemoveFile, Inv, Types, Known, Retained, Lists
<1>2. /\ \A u \in Task \ {t} : task'[u] = task[u]
      /\ \/ task'[t].pc \in {"done", "expire", "save"}
         \/ task'[t].pc = "remove" /\ task'[t].todo = Tail(task[t].todo) /\ Len(task[t].todo) # 1
  <2>1. CASE \E e \in BOOLEAN : BackupOver(t, e)
    BY <1>1, <2>1, BackupOverFacts, Apart
  <2>2. CASE task' = [task EXCEPT ![t].todo = Tail(@)] /\ Len(task[t].todo) # 1
    BY <1>1, <2>2 DEF Fields
  <2> QED
    BY <2>1, <2>2 DEF RemoveFile
<1>3. PICK todo : todo = task[t].todo
  OBVIOUS
<1>4. /\ todo \in Seq(File) /\ todo # <<>>
      /\ Tail(todo) \in Seq(File) /\ (Len(todo) # 1 => Tail(todo) # <<>>)
      /\ \A k \in DOMAIN Tail(todo) : k + 1 \in DOMAIN todo /\ Tail(todo)[k] = todo[k + 1]
      /\ 1 \in DOMAIN todo /\ Head(todo) = todo[1]
  <2>1. todo \in Seq(File) /\ todo # <<>>
    BY <1>1, <1>3
  <2> QED
    BY <2>1, TailFacts, Zenon
\* What is on a list now was on it before.
<1>5. ASSUME NEW u \in Task, task'[u].pc = "remove", NEW k \in DOMAIN task'[u].todo
      PROVE  task[u].pc = "remove" /\ \E l \in DOMAIN task[u].todo : task[u].todo[l] = task'[u].todo[k]
  <2>1. CASE u # t
    BY <1>2, <1>5, <2>1
  <2>2. CASE u = t
    <3>1. task'[t].todo = Tail(todo)
      BY <1>2, <1>3, <1>5, <2>2
    <3>2. k + 1 \in DOMAIN todo /\ Tail(todo)[k] = todo[k + 1]
      BY <1>4, <1>5, <2>2, <3>1
    <3> QED
      BY <1>1, <1>3, <2>2, <3>1, <3>2
  <2> QED
    BY <2>1, <2>2
<1>6. Lists'
  <2> SUFFICES ASSUME NEW u \in Task, task'[u].pc = "remove"
               PROVE  /\ task'[u].todo \in Seq(File) /\ task'[u].todo # <<>>
                      /\ \A k \in DOMAIN task'[u].todo : task'[u].todo[k].n <= made'
    BY DEF Lists
  <2>1. task'[u].todo \in Seq(File) /\ task'[u].todo # <<>>
    BY <1>2, <1>3, <1>4 DEF Retained, Lists
  <2>2. \A k \in DOMAIN task'[u].todo : task'[u].todo[k].n <= made
    BY <1>5 DEF Retained, Lists
  <2> QED
    BY <1>1, <2>1, <2>2
<1>7. CASE UNCHANGED files
  <2>1. InOrder'
    BY <1>1, <1>7 DEF Retained, InOrder
  <2>2. OldOnly'
    BY <1>5, <1>7 DEF Retained, OldOnly
  <2> QED
    BY <1>6, <2>1, <2>2 DEF Retained
<1>8. CASE \E i \in DOMAIN files : files[i].n = Head(todo).n /\ files' = RemoveAt(files, i)
  <2>1. PICK i \in DOMAIN files : files[i].n = todo[1].n /\ files' = RemoveAt(files, i)
    BY <1>4, <1>8
  <2>2. files \in Seq(File) /\ Len(files) \in Nat /\ DOMAIN files = 1..Len(files) /\ Keep \in Nat
    BY CCVMBackupAssumption DEF Retained, InOrder
  <2>3. /\ files' \in Seq(File) /\ Len(files') = Len(files) - 1
        /\ \A j \in DOMAIN files' : files'[j] = IF j < i THEN files[j] ELSE files[j + 1]
    BY <2>1, <2>2, RemoveAtFacts
  <2>4. \A j \in DOMAIN files' : \E l \in DOMAIN files :
           files[l] = files'[j] /\ l = IF j < i THEN j ELSE j + 1
    BY <2>2, <2>3
  <2>5. InOrder'
    <3>1. \A j \in DOMAIN files' : files'[j].n <= made'
      BY <1>1, <2>4 DEF Retained, InOrder
    <3>2. ASSUME NEW j \in DOMAIN files', NEW l \in DOMAIN files', j < l
          PROVE  files'[j].n < files'[l].n
      <4>1. PICK a \in DOMAIN files : files[a] = files'[j] /\ a = IF j < i THEN j ELSE j + 1
        BY <2>4
      <4>2. PICK b \in DOMAIN files : files[b] = files'[l] /\ b = IF l < i THEN l ELSE l + 1
        BY <2>4
      <4>3. a < b
        BY <2>2, <2>3, <3>2, <4>1, <4>2
      <4> QED
        BY <4>1, <4>2, <4>3 DEF Retained, InOrder
    <3> QED
      BY <1>1, <2>3, <3>1, <3>2 DEF Retained, InOrder
  <2>6. OldOnly'
    <3> SUFFICES ASSUME NEW u \in Task, task'[u].pc = "remove",
                        NEW k \in DOMAIN task'[u].todo, NEW j \in DOMAIN files',
                        files'[j].n = task'[u].todo[k].n
                 PROVE  j + Keep <= Len(files')
      BY DEF OldOnly
    <3>1. PICK l \in DOMAIN files : files[l] = files'[j] /\ l = IF j < i THEN j ELSE j + 1
      BY <2>4
    <3>2. i + Keep <= Len(files)
      BY <1>1, <1>3, <1>4, <2>1 DEF Retained, OldOnly
    <3>3. PICK m \in DOMAIN task[u].todo : task[u].todo[m] = task'[u].todo[k] /\ task[u].pc = "remove"
      BY <1>5
    <3>4. l + Keep <= Len(files)
      BY <3>1, <3>3 DEF Retained, OldOnly
    <3>5. j \in Int /\ i \in Int
      BY <2>2, <2>3
    <3> QED
      BY <2>2, <2>3, <3>1, <3>2, <3>4, <3>5
  <2> QED
    BY <1>6, <2>5, <2>6 DEF Retained
<1> QED
  BY <1>3, <1>7, <1>8 DEF RemoveFile

LEMMA StepRetains ==
    ASSUME Inv, Retained, [Next]_vars
    PROVE  Retained'
<1>1. ASSUME NEW t \in Task, TaskStep(t)
      PROVE  Retained'
  BY <1>1, TasksRetain, BeginRetains, ExpireRetains, ListRetains, RemoveRetains DEF TaskStep
<1> QED
  BY <1>1, RequestsRetain, WorldRetains DEF Next

LEMMA InitRetained ==
    ASSUME Init
    PROVE  Retained
<1>1. \A t \in Task : task[t].pc = "idle"
  BY DEF Init, NoTask
<1>2. PICK f \in File, g \in File : /\ f = [n |-> 1, state |-> "complete", old |-> FALSE]
                                  /\ g = [n |-> 2, state |-> "complete", old |-> FALSE]
  BY DEF File
<1>3. files = <<f, g>> /\ made = 2 /\ f.n = 1 /\ g.n = 2
  BY <1>2 DEF Init
<1>4. /\ files \in Seq(File) /\ DOMAIN files = 1..2 /\ files[1].n = 1 /\ files[2].n = 2
  BY <1>3
<1>5. InOrder
  BY <1>3, <1>4 DEF InOrder
<1>6. Lists /\ OldOnly
  BY <1>1 DEF Lists, OldOnly
<1> QED
  BY <1>5, <1>6 DEF Retained

\* Retention leaves the Keep newest files alone, the one being written among them, however
\* old a task's list of files is, and whatever other tasks have removed and added since
\* (pruneCCVMBackupFiles).
THEOREM RetentionSafe == Spec => NewestKept
<1> DEFINE NewestNow ==
      \A t \in Task : task[t].pc = "remove" /\ Len(files') < Len(files) /\ task'[t] # task[t] =>
         Len(files) > Keep /\ Newest(files') = Newest(files)
<1>1. ASSUME Inv, Retained, Next
      PROVE  NewestNow
  <2> SUFFICES ASSUME NEW t \in Task, task[t].pc = "remove", Len(files') < Len(files),
                      task'[t] # task[t]
               PROVE  Len(files) > Keep /\ Newest(files') = Newest(files)
    OBVIOUS
  <2>1. /\ files \in Seq(File) /\ Len(files) \in Nat /\ DOMAIN files = 1..Len(files)
        /\ DOMAIN task = Task /\ Types
    BY <1>1 DEF Inv, Types, Retained, InOrder
  <2>2. ASSUME NEW u \in Task, \/ List(u) \/ LoadSection(u) \/ Save(u) \/ Tick(u) \/ LoadSchedule(u)
                               \/ ListFiles(u) \/ Stat(u) \/ Disable(u) \/ AwaitStopped(u)
                               \/ OpenFiles(u) \/ Copy(u) \/ Reenable(u) \/ Enable(u)
        PROVE  FALSE
    <3>1. files' = files
      BY <2>2 DEF List, LoadSection, Save, Tick, LoadSchedule, ListFiles, Stat, Disable,
                  AwaitStopped, OpenFiles, Copy, Reenable, Enable
    <3> QED
      BY <2>1, <3>1
  <2>3. ASSUME NEW u \in Task, Begin(u)
        PROVE  FALSE
    <3>1. CASE files' = files
      BY <2>1, <3>1
    <3>2. CASE BackupBegins
      <4>1. Len(files') = Len(files) + 1
        BY <2>1, <3>2 DEF BackupBegins
      <4> QED
        BY <2>1, <4>1
    <3> QED
      BY <2>3, <3>1, <3>2 DEF Begin
  <2>4. ASSUME NEW u \in Task, Expire(u)
        PROVE  FALSE
    <3>1. task[u].pc = "expire"
      BY <2>4 DEF Expire
    <3>2. u # t /\ \A v \in Task \ {u} : task'[v] = task[v]
      BY <2>1, <2>4, <3>1 DEF Expire
    <3> QED
      BY <3>2
  <2>5. ASSUME NEW u \in Task, RemoveFile(u)
        PROVE  Len(files) > Keep /\ Newest(files') = Newest(files)
    <3>1. task[u].pc = "remove" /\ task[u].todo \in Seq(File) /\ task[u].todo # <<>>
      BY <1>1, <2>5 DEF RemoveFile, Retained, Lists
    <3>2. files' # files
      BY <2>1
    <3>3. PICK todo : todo = task[u].todo
      OBVIOUS
    <3>4. 1 \in DOMAIN todo /\ Head(todo) = todo[1]
      BY <3>1, <3>3
    <3>5. PICK i \in DOMAIN files : files[i].n = todo[1].n /\ files' = RemoveAt(files, i)
      <4>1. \E i \in DOMAIN files : files[i].n = Head(task[u].todo).n /\ files' = RemoveAt(files, i)
        BY <2>5, <3>2 DEF RemoveFile
      <4>2. Head(task[u].todo) = todo[1]
        BY <3>3, <3>4
      <4> QED
        BY <4>1, <4>2
    <3>6. i + Keep <= Len(files)
      BY <1>1, <3>1, <3>3, <3>4, <3>5 DEF Retained, OldOnly
    <3> QED
      BY <2>1, <3>5, <3>6, NewestStay
  <2>6. ASSUME NEW u \in Task, TaskStep(u)
        PROVE  Len(files) > Keep /\ Newest(files') = Newest(files)
    BY <2>2, <2>3, <2>4, <2>5, <2>6 DEF TaskStep
  <2>7. ASSUME \/ \E c \in Client : Request(c) \/ CallLost(c)
               \/ VMFollows \/ BackupCompletes \/ FileAges \/ NextMinute \/ DCMoves
        PROVE  FALSE
    <3>1. CASE task' = task
      BY <3>1
    <3>2. CASE files' = files
      BY <2>1, <3>2
    <3> QED
      BY <2>7, <3>1, <3>2 DEF Request, CallLost, VMFollows, BackupCompletes, FileAges, NextMinute, DCMoves
  <2> QED
    BY <1>1, <2>6, <2>7 DEF Next
<1>2. Init => Inv /\ Retained
  BY InitInv, InitRetained
<1>3. Inv /\ Retained /\ [Next]_vars => (Inv /\ Retained)'
  BY StepKeepsInv, StepRetains
<1>4. Inv /\ Retained /\ [Next]_vars => [NewestNow]_vars
  BY <1>1
<1>5. QED
  BY <1>2, <1>3, <1>4, PTL DEF Spec, NewestKept

-----------------------------------------------------------------------------
(* Schedules of database dumps: the inductive invariant                      *)

DumpPath == Paths \cup {"plain"}
DumpLine == [queue : D!Queue \cup {"none"}, path : DumpPath, by : SUBSET DumpClient,
             part : {"user", "python", "nothing", "unknown", "command", "comment"}]
DumpRequest == [pc : {"idle", "done", "atrm", "list", "install", "at", "append", "appended"},
                action : D!Action \cup {"none"}, queue : D!Queue, path : DumpPath, once : BOOLEAN,
                copy : SUBSET DumpLine, base : SUBSET DumpLine]
DumpTypes ==
    /\ cron \in SUBSET DumpLine /\ at \in SUBSET DumpLine
    /\ req \in [DumpClient -> DumpRequest]
    /\ legacy \in [pc : {"idle", "read", "done"}, copy : SUBSET DumpLine]
    /\ dumpWish \in [D!Queue -> DumpLine] /\ dumpRaced \in BOOLEAN

DumpBusy(c) == req[c].pc \notin {"idle", "done"}
Comment(l) == [l EXCEPT !.part = "comment"]
\* No line of the queue is among these.
Without(lines, q) == \A l \in lines : l.queue # q

\* What a request has done so far: the queue's at jobs are removed, then its lines in the crontab;
\* the copy is what the script makes of the crontab it has read.
Prepared(c) ==
    LET r == req[c] IN
    /\ \A b \in DumpClient : DumpBusy(b) /\ DumpBusy(c) /\ req[b].queue = r.queue => b = c
    /\ r.pc \in {"list", "install", "at", "append", "appended"} => Without(at, r.queue)
    /\ r.pc \in {"at", "append", "appended"} => Without(cron, r.queue)
    /\ r.pc = "install" => r.copy = {l \in r.base : ~D!Marked(r.queue, l)}
    /\ r.pc = "appended" => r.copy = r.base \cup {Comment(D!Own(c)), D!Own(c)}

\* A command is of a request that is over, and in one of the two places.
OfDone(l) == \E c \in DumpClient : l.by = {c} /\ req[c].pc = "done"
Lines ==
    /\ D!User \in cron
    /\ \A l \in at : l.part = "command" /\ l.queue \in D!Queue /\ OfDone(l)
    /\ \A l \in cron : l.queue \in D!Queue => l.part \in {"command", "comment"}
    /\ \A l \in cron : l.part = "command" => OfDone(l) /\ l \notin at

\* A comment is left only of a command in the crontab.
Settled(q) ==
    /\ dumpWish[q].queue = q \/ dumpWish[q] \in {D!Nothing, D!Unknown}
    /\ dumpWish[q] \in at => D!Reported(q) = {}
    /\ ~D!Working(q) /\ dumpWish[q] # D!Unknown =>
         /\ D!Scheduled(q) \subseteq {dumpWish[q]}
         /\ D!Reported(q) \subseteq {Comment(dumpWish[q])}
         /\ dumpWish[q] # D!Nothing /\ ~D!Clash(dumpWish[q]) => dumpWish[q] \in D!Scheduled(q)

Scheduling == Lines /\ (\A c \in DumpClient : Prepared(c)) /\ (\A q \in D!Queue : Settled(q))
DumpInv == DumpTypes /\ (~dumpRaced => Scheduling)

-----------------------------------------------------------------------------

LEMMA LineFacts ==
    /\ D!User \in DumpLine /\ D!User.queue = "none" /\ D!User.part = "user"
    /\ D!Python \in DumpLine /\ D!Python.queue = "none" /\ D!Python.part = "python"
    /\ D!Nothing \in DumpLine /\ D!Nothing.queue = "none" /\ D!Nothing.part = "nothing"
    /\ D!Unknown \in DumpLine /\ D!Unknown.queue = "none" /\ D!Unknown.part = "unknown"
    /\ "none" \notin D!Queue
    /\ \A l \in DumpLine : Comment(l) \in DumpLine /\ Comment(l).queue = l.queue /\ Comment(l).part = "comment"
  BY DEF D!User, D!Python, D!Nothing, D!Unknown, DumpLine, DumpPath, Comment, D!Queue

LEMMA OwnFacts ==
    ASSUME DumpTypes, NEW c \in DumpClient
    PROVE  /\ D!Own(c) \in DumpLine /\ D!Own(c).queue = req[c].queue /\ D!Own(c).part = "command"
           /\ D!Own(c).by = {c} /\ req[c].queue \in D!Queue
  BY DEF D!Own, D!Command, DumpTypes, DumpRequest, DumpLine

LEMMA MarkedFacts ==
    ASSUME NEW q \in D!Queue, NEW l
    PROVE  /\ l.queue # q /\ D!Marked(q, l) => D!Clash(l) /\ l.part = "command"
           /\ l.queue # q /\ D!Pattern(q, l) => D!Clash(l) /\ l.part = "command"
           /\ l.queue = q /\ l.part \in {"command", "comment"} => D!Marked(q, l)
           /\ l.queue = q /\ l.part = "command" => D!Pattern(q, l)
           /\ D!Marked(q, l) => l.part \in {"command", "comment"}
  BY DEF D!Marked, D!Pattern, D!Clash

LEMMA DumpGotoFacts ==
    ASSUME DumpTypes, NEW c \in DumpClient, NEW pc \in {"list", "at", "append"}, D!Goto(c, pc)
    PROVE  /\ req' \in [DumpClient -> DumpRequest] /\ req'[c].pc = pc
           /\ req'[c].queue = req[c].queue /\ DumpBusy(c)'
           /\ \A d \in DumpClient \ {c} : req'[d] = req[d]
  BY DEF DumpTypes, D!Goto, DumpRequest, DumpBusy

LEMMA DumpEndFacts ==
    ASSUME DumpTypes, NEW c \in DumpClient, D!End(c)
    PROVE  /\ req' \in [DumpClient -> DumpRequest] /\ req'[c].pc = "done"
           /\ req'[c].queue \in D!Queue /\ ~DumpBusy(c)'
           /\ \A d \in DumpClient \ {c} : req'[d] = req[d]
  BY DEF DumpTypes, D!End, D!NoReq, DumpRequest, DumpBusy, DumpPath, D!Queue

-----------------------------------------------------------------------------
(* What the step of a request leaves alone                                  *)

Touches(c) ==
    /\ DumpBusy(c)
    /\ \A d \in DumpClient \ {c} : req'[d] = req[d]
    /\ DumpBusy(c)' => req'[c].queue = req[c].queue
    /\ \A l \in (cron' \ cron) \cup (at' \ at) : l.queue = req[c].queue
    /\ \A l \in (cron \ cron') \cup (at \ at') : l.queue = req[c].queue \/ D!Clash(l)
    /\ dumpWish' = [dumpWish EXCEPT ![req[c].queue] = @] \/ \E w : D!Decide(req[c].queue, w)

LEMMA OthersPrepared ==
    ASSUME DumpTypes, Scheduling, NEW c \in DumpClient, Touches(c), NEW d \in DumpClient \ {c}
    PROVE  Prepared(d)'
<1>1. req'[d] = req[d] /\ Prepared(d) /\ Prepared(c)
  BY DEF Touches, Scheduling
<1>2. CASE ~DumpBusy(d)
  BY <1>1, <1>2 DEF Prepared, DumpBusy
<1>3. CASE DumpBusy(d)
  <2>1. req[d].queue # req[c].queue
    BY <1>1, <1>3 DEF Prepared, Touches
  <2>2. ASSUME NEW b \in DumpClient, DumpBusy(b)', DumpBusy(d)', req'[b].queue = req'[d].queue
        PROVE  b = d
    BY <1>1, <1>3, <2>1, <2>2 DEF Prepared, DumpBusy, Touches
  <2>3. Without(at, req[d].queue) => Without(at', req[d].queue)
    BY <2>1 DEF Without, Touches
  <2>4. Without(cron, req[d].queue) => Without(cron', req[d].queue)
    BY <2>1 DEF Without, Touches
  <2>5. D!Own(d)' = D!Own(d)
    BY <1>1 DEF D!Own
  <2> QED
    BY <1>1, <2>2, <2>3, <2>4, <2>5 DEF Prepared
<1> QED
  BY <1>2, <1>3

LEMMA OthersSettled ==
    ASSUME DumpTypes, Scheduling, NEW c \in DumpClient, Touches(c), NEW q \in D!Queue, q # req[c].queue
    PROVE  Settled(q)'
<1>1. dumpWish'[q] = dumpWish[q]
  BY DEF Touches, DumpTypes, D!Decide
<1>2. D!Working(q)' <=> D!Working(q)
  <2>1. \A d \in DumpClient \ {c} : req'[d] = req[d]
    BY DEF Touches
  <2>2. ~(DumpBusy(c)' /\ req'[c].queue = q)
    BY DEF Touches
  <2> QED
    BY <2>1, <2>2 DEF D!Working, DumpBusy
<1>3. D!Reported(q)' \subseteq D!Reported(q) /\ D!Scheduled(q)' \subseteq D!Scheduled(q)
  BY DEF Touches, D!Reported, D!Scheduled
<1>4. \A l \in D!Scheduled(q) : ~D!Clash(l) => l \in D!Scheduled(q)'
  BY DEF Touches, D!Scheduled
<1>5. dumpWish'[q] \in at' => dumpWish[q] \in at
  <2>1. CASE dumpWish[q].queue = q
    BY <1>1, <2>1 DEF Touches
  <2>2. CASE dumpWish[q] \in {D!Nothing, D!Unknown}
    BY <1>1, <2>2, LineFacts, OwnFacts DEF Touches
  <2> QED
    BY <2>1, <2>2 DEF Scheduling, Settled
<1> QED
  BY <1>1, <1>2, <1>3, <1>4, <1>5 DEF Scheduling, Settled, D!Clash

LEMMA StillOfDone ==
    ASSUME NEW c \in DumpClient, Touches(c), NEW l, OfDone(l)
    PROVE  OfDone(l)'
  BY DEF OfDone, Touches, DumpBusy

LEMMA FewerLines ==
    ASSUME Lines, at' \subseteq at, cron' \subseteq cron, D!User \in cron',
           \A l : OfDone(l) => OfDone(l)'
    PROVE  Lines'
  BY DEF Lines

LEMMA BusySettled ==
    ASSUME DumpTypes, Scheduling, NEW c \in DumpClient, NEW q, q = req[c].queue,
           DumpBusy(c)', req'[c].queue = q,
           dumpWish' = dumpWish, at' \subseteq at, cron' \subseteq cron
    PROVE  Settled(q)'
<1>1. q \in D!Queue /\ Settled(q)
  BY OwnFacts DEF Scheduling
<1>2. D!Working(q)'
  BY DEF D!Working, DumpBusy
<1>3. D!Reported(q)' \subseteq D!Reported(q)
  BY DEF D!Reported
<1> QED
  BY <1>1, <1>2, <1>3 DEF Settled

\* After a failure nothing is known of the queue.
LEMMA FailsKeeps ==
    ASSUME DumpTypes, NEW c \in DumpClient, NEW q, q = req[c].queue, DumpBusy(c), D!Fails(c)
    PROVE  /\ req' \in [DumpClient -> DumpRequest] /\ dumpWish' \in [D!Queue -> DumpLine]
           /\ Prepared(c)'
           /\ Lines' => Settled(q)'
           /\ \A d \in DumpClient \ {c} : req'[d] = req[d]
           /\ ~DumpBusy(c)' /\ D!Decide(q, D!Unknown)
<1>1. D!End(c) /\ D!Decide(q, D!Unknown) /\ q \in D!Queue
  BY OwnFacts DEF D!Fails
<1>2. dumpWish' = [dumpWish EXCEPT ![q] = D!Unknown]
  BY <1>1 DEF D!Decide
<1>3. dumpWish' \in [D!Queue -> DumpLine] /\ dumpWish'[q] = D!Unknown
  BY <1>1, <1>2, LineFacts DEF DumpTypes
<1>4. ASSUME Lines'
      PROVE  Settled(q)'
  <2>1. D!Unknown \notin at'
    BY <1>4, LineFacts DEF Lines
  <2> QED
    BY <1>3, <2>1 DEF Settled
<1> QED
  BY <1>1, <1>3, <1>4, DumpEndFacts DEF Prepared, DumpBusy

LEMMA RequestStepKeeps ==
    ASSUME DumpTypes, Scheduling, NEW c \in DumpClient, NEW q, q = req[c].queue, Touches(c),
           Lines', Prepared(c)', Settled(q)'
    PROVE  Scheduling'
<1>1. \A d \in DumpClient : Prepared(d)'
  BY OthersPrepared
<1>2. \A p \in D!Queue : Settled(p)'
  BY OthersSettled
<1> QED
  BY <1>1, <1>2 DEF Scheduling

LEMMA CleanAtInv ==
    ASSUME DumpInv, NEW c \in DumpClient, D!CleanAt(c)
    PROVE  DumpInv'
<1>q. PICK q : q = req[c].queue
  OBVIOUS
<1>0. q = req[c].queue /\ DumpTypes /\ q \in D!Queue /\ req[c].pc = "atrm" /\ DumpBusy(c)
  BY <1>q, OwnFacts DEF DumpInv, D!CleanAt, DumpBusy
<1>1. cron' = cron /\ legacy' = legacy /\ dumpRaced' = dumpRaced
  BY DEF D!CleanAt
<1>2. CASE at' = {l \in at : ~D!Pattern(q, l)} /\ D!Goto(c, "list") /\ UNCHANGED dumpWish
  <2>1. DumpTypes'
    BY <1>0, <1>1, <1>2, DumpGotoFacts DEF DumpTypes
  <2>2. ASSUME ~dumpRaced'
        PROVE  Scheduling'
    <3>1. Scheduling
      BY <1>1, <2>2 DEF DumpInv
    <3>2. at' \subseteq at /\ \A l \in at \ at' : l.queue = q \/ D!Clash(l)
      BY <1>0, <1>2, MarkedFacts
    <3>3. Touches(c)
      BY <1>0, <1>1, <1>2, <3>2, DumpGotoFacts DEF Touches, DumpTypes
    <3>4. Lines'
      BY <1>1, <3>1, <3>2, <3>3, StillOfDone, FewerLines DEF Scheduling, Lines
    <3>5. Without(at', q)
      BY <1>0, <1>2, <3>1, MarkedFacts DEF Scheduling, Lines, Without
    <3>6. Prepared(c)'
      <4>1. Prepared(c)
        BY <3>1 DEF Scheduling
      <4>2. req'[c].pc = "list" /\ req'[c].queue = q /\ \A d \in DumpClient \ {c} : req'[d] = req[d]
        BY <1>0, <1>2, DumpGotoFacts
      <4> QED
        BY <1>0, <3>5, <4>1, <4>2 DEF Prepared, DumpBusy
    <3>7. Settled(q)'
      BY <1>0, <1>1, <1>2, <3>1, <3>2, DumpGotoFacts, BusySettled
    <3> QED
      BY <1>0, <3>1, <3>3, <3>4, <3>6, <3>7, RequestStepKeeps
  <2> QED
    BY <2>1, <2>2 DEF DumpInv
<1>3. CASE D!Fails(c) /\ UNCHANGED at
  <2>1. DumpTypes'
    BY <1>0, <1>1, <1>3, FailsKeeps DEF DumpTypes
  <2>2. ASSUME ~dumpRaced'
        PROVE  Scheduling'
    <3>1. Scheduling
      BY <1>1, <2>2 DEF DumpInv
    <3>2. Touches(c)
      BY <1>0, <1>1, <1>3, FailsKeeps DEF Touches
    <3>3. Lines'
      BY <1>1, <1>3, <3>1, <3>2, StillOfDone, FewerLines DEF Scheduling, Lines
    <3> QED
      BY <1>0, <1>3, <3>1, <3>2, <3>3, FailsKeeps, RequestStepKeeps
  <2> QED
    BY <2>1, <2>2 DEF DumpInv
<1> QED
  BY <1>0, <1>2, <1>3 DEF D!CleanAt

LEMMA CopyFacts ==
    ASSUME DumpTypes, NEW c \in DumpClient, NEW pc \in {"install", "appended"}, NEW copy \in SUBSET DumpLine,
           req' = [req EXCEPT ![c].pc = pc, ![c].base = cron, ![c].copy = copy]
    PROVE  /\ req' \in [DumpClient -> DumpRequest]
           /\ req'[c].pc = pc /\ req'[c].base = cron /\ req'[c].copy = copy
           /\ req'[c].queue = req[c].queue /\ req'[c].path = req[c].path
           /\ \A d \in DumpClient \ {c} : req'[d] = req[d]
<1>1. PICK r : r = req[c]
  OBVIOUS
<1>2. r \in DumpRequest /\ req \in [DumpClient -> DumpRequest] /\ cron \in SUBSET DumpLine
  BY <1>1 DEF DumpTypes
<1>3. PICK s : s = [r EXCEPT !.pc = pc, !.base = cron, !.copy = copy]
  OBVIOUS
<1>4. /\ s \in DumpRequest /\ s.pc = pc /\ s.base = cron /\ s.copy = copy
      /\ s.queue = r.queue /\ s.path = r.path
  BY <1>2, <1>3 DEF DumpRequest
<1>5. req'[c] = s
  BY <1>1, <1>2, <1>3 DEF DumpRequest
<1>6. DOMAIN req' = DumpClient /\ \A d \in DumpClient \ {c} : req'[d] = req[d]
  BY <1>2
<1>7. req' = [d \in DumpClient |-> req'[d]]
  BY <1>2
<1> QED
  BY <1>1, <1>2, <1>4, <1>5, <1>6, <1>7

LEMMA ListFacts ==
    ASSUME NEW copy \in SUBSET cron, D!Listed(copy), ~dumpRaced'
    PROVE  copy = cron /\ ~dumpRaced
  BY DEF D!Listed

\* A script has listed the crontab and made its copy.
LEMMA CopiedInv ==
    ASSUME DumpInv, NEW c \in DumpClient, NEW q, q = req[c].queue, DumpBusy(c),
           NEW pc \in {"install", "appended"}, NEW copy \in SUBSET DumpLine,
           req' = [req EXCEPT ![c].pc = pc, ![c].base = cron, ![c].copy = copy],
           UNCHANGED <<cron, at, legacy, dumpWish>>, dumpRaced' \in BOOLEAN,
           ~dumpRaced' => ~dumpRaced,
           ~dumpRaced' => Without(at, q),
           ~dumpRaced' /\ pc = "install" => copy = {l \in cron : ~D!Marked(q, l)},
           ~dumpRaced' /\ pc = "appended" => Without(cron, q) /\ copy = cron \cup {Comment(D!Own(c)), D!Own(c)}
    PROVE  DumpInv'
<1>1. DumpTypes /\ DumpTypes'
  BY CopyFacts DEF DumpInv, DumpTypes
<1>2. ASSUME ~dumpRaced'
      PROVE  Scheduling'
  <2>1. Scheduling
    BY <1>2 DEF DumpInv
  <2>2. Touches(c)
    BY <1>1, CopyFacts DEF Touches, DumpTypes
  <2>3. Lines'
    BY <2>1, <2>2, StillOfDone, FewerLines DEF Scheduling, Lines
  <2>4. Prepared(c)'
    <3>1. Prepared(c)
      BY <2>1 DEF Scheduling
    <3>2. /\ req'[c].pc = pc /\ req'[c].base = cron /\ req'[c].copy = copy
          /\ req'[c].queue = q /\ req'[c].path = req[c].path
          /\ \A d \in DumpClient \ {c} : req'[d] = req[d]
      BY <1>1, CopyFacts
    <3>3. D!Own(c)' = D!Own(c)
      BY <3>2 DEF D!Own
    <3>4. \A b \in DumpClient : DumpBusy(b)' /\ DumpBusy(c)' /\ req'[b].queue = q => b = c
      BY <3>1, <3>2 DEF Prepared, DumpBusy
    <3> QED
      BY <1>2, <3>2, <3>3, <3>4 DEF Prepared
  <2>5. Settled(q)'
    BY <1>1, <2>1, CopyFacts, BusySettled DEF DumpBusy
  <2> QED
    BY <1>1, <2>1, <2>2, <2>3, <2>4, <2>5, RequestStepKeeps
<1> QED
  BY <1>1, <1>2 DEF DumpInv

LEMMA CleanListInv ==
    ASSUME DumpInv, NEW c \in DumpClient, D!CleanList(c)
    PROVE  DumpInv'
<1>1. PICK q : q = req[c].queue
  OBVIOUS
<1>2. DumpTypes /\ req[c].pc = "list" /\ DumpBusy(c) /\ UNCHANGED <<cron, at, legacy, dumpWish>>
  BY DEF DumpInv, D!CleanList, DumpBusy
<1>3. PICK listed \in SUBSET cron :
          /\ D!Listed(listed)
          /\ req' = [req EXCEPT ![c].pc = "install", ![c].base = cron,
                                ![c].copy = {l \in listed : ~D!Marked(q, l)}]
  BY <1>1 DEF D!CleanList
<1>4. PICK copy : copy = {l \in listed : ~D!Marked(q, l)}
  OBVIOUS
<1>5. copy \in SUBSET DumpLine /\ dumpRaced' \in BOOLEAN
  BY <1>2, <1>3, <1>4 DEF DumpTypes, D!Listed
<1>6. ASSUME ~dumpRaced'
      PROVE  ~dumpRaced /\ Without(at, q) /\ copy = {l \in cron : ~D!Marked(q, l)}
  <2>1. ~dumpRaced /\ listed = cron
    BY <1>3, <1>6, ListFacts
  <2>2. Prepared(c)
    BY <2>1 DEF DumpInv, Scheduling
  <2> QED
    BY <1>1, <1>2, <1>4, <2>1, <2>2 DEF Prepared
<1> QED
  BY <1>1, <1>2, <1>3, <1>4, <1>5, <1>6, CopiedInv

LEMMA AppendListInv ==
    ASSUME DumpInv, NEW c \in DumpClient, D!AppendList(c)
    PROVE  DumpInv'
<1>1. PICK q : q = req[c].queue
  OBVIOUS
<1>2. DumpTypes /\ req[c].pc = "append" /\ DumpBusy(c) /\ UNCHANGED <<cron, at, legacy, dumpWish>>
  BY DEF DumpInv, D!AppendList, DumpBusy
<1>3. PICK listed \in SUBSET cron :
          /\ D!Listed(listed)
          /\ req' = [req EXCEPT ![c].pc = "appended", ![c].base = cron,
                                ![c].copy = listed \cup {Comment(D!Own(c)), D!Own(c)}]
  BY <1>1 DEF D!AppendList, Comment
<1>4. PICK copy : copy = listed \cup {Comment(D!Own(c)), D!Own(c)}
  OBVIOUS
<1>5. copy \in SUBSET DumpLine /\ dumpRaced' \in BOOLEAN
  <2>1. {Comment(D!Own(c)), D!Own(c)} \subseteq DumpLine
    BY <1>2, OwnFacts, LineFacts
  <2> QED
    BY <1>2, <1>3, <1>4, <2>1 DEF DumpTypes, D!Listed
<1>6. ASSUME ~dumpRaced'
      PROVE  /\ ~dumpRaced /\ Without(at, q) /\ Without(cron, q)
             /\ copy = cron \cup {Comment(D!Own(c)), D!Own(c)}
  <2>1. ~dumpRaced /\ listed = cron
    BY <1>3, <1>6, ListFacts
  <2>2. Prepared(c)
    BY <2>1 DEF DumpInv, Scheduling
  <2> QED
    BY <1>1, <1>2, <1>4, <2>1, <2>2 DEF Prepared
<1> QED
  BY <1>1, <1>2, <1>3, <1>4, <1>5, <1>6, CopiedInv

\* A request that installs the crontab without the lines of its queue.
LEMMA CleanedFacts ==
    ASSUME DumpTypes, Scheduling, NEW c \in DumpClient, NEW q, q = req[c].queue,
           req[c].pc = "install", cron' = req[c].copy, cron = req[c].base
    PROVE  /\ cron' \subseteq cron /\ D!User \in cron' /\ Without(cron', q)
           /\ \A l \in cron \ cron' : l.queue = q \/ D!Clash(l)
<1>1. cron' = {l \in cron : ~D!Marked(q, l)} /\ q \in D!Queue
  BY OwnFacts DEF Scheduling, Prepared
<1>2. ~D!Marked(q, D!User)
  BY <1>1, LineFacts, MarkedFacts
<1>3. Lines
  BY DEF Scheduling
<1>4. Without(cron', q)
  BY <1>1, <1>3, MarkedFacts DEF Lines, Without
<1> QED
  BY <1>1, <1>2, <1>3, <1>4, MarkedFacts DEF Lines

LEMMA InstallFacts ==
    ASSUME DumpTypes, NEW c \in DumpClient, D!Install(c) \/ UNCHANGED <<cron, dumpRaced>>
    PROVE  /\ cron' \in SUBSET DumpLine /\ dumpRaced' \in BOOLEAN
           /\ ~dumpRaced' => ~dumpRaced /\ (cron' = cron \/ (cron' = req[c].copy /\ cron = req[c].base))
  BY DEF DumpTypes, DumpRequest, D!Install

LEMMA CleanInstallInv ==
    ASSUME DumpInv, NEW c \in DumpClient, D!CleanInstall(c)
    PROVE  DumpInv'
<1>q. PICK q : q = req[c].queue
  OBVIOUS
<1>0. q = req[c].queue /\ DumpTypes /\ q \in D!Queue /\ req[c].pc = "install" /\ DumpBusy(c)
  BY <1>q, OwnFacts DEF DumpInv, D!CleanInstall, DumpBusy
<1>1. at' = at /\ legacy' = legacy
  BY DEF D!CleanInstall
<1>2. ASSUME NEW pc \in {"at", "append"}, D!Install(c), D!Goto(c, pc), UNCHANGED dumpWish
      PROVE  DumpInv'
  <2>1. DumpTypes'
    BY <1>0, <1>1, <1>2, DumpGotoFacts, InstallFacts DEF DumpTypes
  <2>2. ASSUME ~dumpRaced'
        PROVE  Scheduling'
    <3>1. Scheduling /\ cron' = req[c].copy /\ cron = req[c].base
      BY <1>2, <2>2 DEF DumpInv, D!Install
    <3>2. /\ cron' \subseteq cron /\ D!User \in cron' /\ Without(cron', q)
          /\ \A l \in cron \ cron' : l.queue = q \/ D!Clash(l)
      BY <1>0, <3>1, CleanedFacts
    <3>3. Touches(c)
      BY <1>0, <1>1, <1>2, <3>2, DumpGotoFacts DEF Touches, DumpTypes
    <3>4. Lines'
      BY <1>1, <3>1, <3>2, <3>3, StillOfDone, FewerLines DEF Scheduling
    <3>5. Prepared(c)'
      <4>1. Prepared(c)
        BY <3>1 DEF Scheduling
      <4>2. req'[c].pc = pc /\ req'[c].queue = q /\ \A d \in DumpClient \ {c} : req'[d] = req[d]
        BY <1>0, <1>2, DumpGotoFacts
      <4> QED
        BY <1>0, <1>1, <3>2, <4>1, <4>2 DEF Prepared, DumpBusy
    <3>6. Settled(q)'
      BY <1>0, <1>1, <1>2, <3>1, <3>2, DumpGotoFacts, BusySettled
    <3> QED
      BY <1>0, <3>1, <3>3, <3>4, <3>5, <3>6, RequestStepKeeps
  <2> QED
    BY <2>1, <2>2 DEF DumpInv
<1>3. CASE D!Install(c) /\ D!End(c) /\ D!Decide(q, D!Nothing)
  <2>0. dumpWish' \in [D!Queue -> DumpLine] /\ dumpWish'[q] = D!Nothing
    BY <1>0, <1>3, LineFacts DEF DumpTypes, D!Decide
  <2>1. DumpTypes'
    BY <1>0, <1>1, <1>3, <2>0, DumpEndFacts, InstallFacts DEF DumpTypes
  <2>2. ASSUME ~dumpRaced'
        PROVE  Scheduling'
    <3>1. Scheduling /\ cron' = req[c].copy /\ cron = req[c].base
      BY <1>3, <2>2 DEF DumpInv, D!Install
    <3>2. /\ cron' \subseteq cron /\ D!User \in cron' /\ Without(cron', q)
          /\ \A l \in cron \ cron' : l.queue = q \/ D!Clash(l)
      BY <1>0, <3>1, CleanedFacts
    <3>3. Touches(c)
      BY <1>0, <1>1, <1>3, <3>2, DumpEndFacts DEF Touches
    <3>4. Lines'
      BY <1>1, <3>1, <3>2, <3>3, StillOfDone, FewerLines DEF Scheduling
    <3>5. Prepared(c)'
      BY <1>0, <1>3, DumpEndFacts DEF Prepared, DumpBusy
    <3>6. Settled(q)'
      <4>1. Without(at', q)
        BY <1>0, <1>1, <3>1 DEF Scheduling, Prepared
      <4>2. D!Scheduled(q)' = {} /\ D!Reported(q)' = {}
        BY <3>2, <4>1 DEF D!Scheduled, D!Reported, Without
      <4> QED
        BY <2>0, <4>2 DEF Settled
    <3> QED
      BY <1>0, <3>1, <3>3, <3>4, <3>5, <3>6, RequestStepKeeps
  <2> QED
    BY <2>1, <2>2 DEF DumpInv
<1>4. CASE D!Fails(c) /\ (D!Install(c) \/ UNCHANGED <<cron, dumpRaced>>)
  <2>1. DumpTypes'
    BY <1>0, <1>1, <1>4, FailsKeeps, InstallFacts DEF DumpTypes
  <2>2. ASSUME ~dumpRaced'
        PROVE  Scheduling'
    <3>1. Scheduling /\ (cron' = cron \/ (cron' = req[c].copy /\ cron = req[c].base))
      BY <1>0, <1>4, <2>2, InstallFacts DEF DumpInv
    <3>2. /\ cron' \subseteq cron /\ D!User \in cron'
          /\ \A l \in cron \ cron' : l.queue = q \/ D!Clash(l)
      BY <1>0, <3>1, CleanedFacts DEF Scheduling, Lines
    <3>3. Touches(c)
      BY <1>0, <1>1, <1>4, <3>2, FailsKeeps DEF Touches
    <3>4. Lines'
      BY <1>1, <3>1, <3>2, <3>3, StillOfDone, FewerLines DEF Scheduling
    <3> QED
      BY <1>0, <1>4, <3>1, <3>3, <3>4, FailsKeeps, RequestStepKeeps
  <2> QED
    BY <2>1, <2>2 DEF DumpInv
<1> QED
  BY <1>0, <1>2, <1>3, <1>4 DEF D!CleanInstall

\* The request's command is in neither place while the request is at work.
LEMMA OwnIsNew ==
    ASSUME DumpTypes, Scheduling, NEW c \in DumpClient, DumpBusy(c)
    PROVE  D!Own(c) \notin cron /\ D!Own(c) \notin at
  BY OwnFacts DEF Scheduling, Lines, OfDone, DumpBusy

LEMMA DecideOwn ==
    ASSUME DumpTypes, NEW c \in DumpClient, NEW q, q = req[c].queue, NEW w, w = D!Own(c), D!Decide(q, D!Own(c))
    PROVE  dumpWish' \in [D!Queue -> DumpLine] /\ dumpWish'[q] = w
  BY OwnFacts DEF DumpTypes, D!Decide

LEMMA ScheduleAtInv ==
    ASSUME DumpInv, NEW c \in DumpClient, D!ScheduleAt(c)
    PROVE  DumpInv'
<1>q. PICK q, w : q = req[c].queue /\ w = D!Own(c)
  OBVIOUS
<1>0. /\ q = req[c].queue /\ DumpTypes /\ q \in D!Queue /\ req[c].pc = "at" /\ DumpBusy(c)
      /\ w \in DumpLine /\ w.queue = q /\ w.part = "command" /\ w.by = {c} /\ w = D!Own(c)
  BY <1>q, OwnFacts DEF DumpInv, D!ScheduleAt, DumpBusy
<1>1. cron' = cron /\ legacy' = legacy /\ dumpRaced' = dumpRaced
  BY DEF D!ScheduleAt
<1>2. CASE at' = at \cup {w} /\ D!End(c) /\ D!Decide(q, D!Own(c))
  <2>0. dumpWish' \in [D!Queue -> DumpLine] /\ dumpWish'[q] = w
    BY <1>0, <1>2, DecideOwn
  <2>1. DumpTypes'
    BY <1>0, <1>1, <1>2, <2>0, DumpEndFacts DEF DumpTypes
  <2>2. ASSUME ~dumpRaced'
        PROVE  Scheduling'
    <3>1. Scheduling /\ Prepared(c)
      BY <1>1, <2>2 DEF DumpInv, Scheduling
    <3>2. Without(at, q) /\ Without(cron, q) /\ w \notin cron
      BY <1>0, <3>1, OwnIsNew DEF Prepared
    <3>3. Touches(c)
      BY <1>0, <1>1, <1>2, DumpEndFacts DEF Touches
    <3>4. Lines'
      <4>1. OfDone(w)'
        BY <1>0, <1>2, DumpEndFacts DEF OfDone
      <4>2. \A l : OfDone(l) => OfDone(l)'
        BY <3>3, StillOfDone
      <4> QED
        BY <1>0, <1>1, <1>2, <3>1, <3>2, <4>1, <4>2 DEF Scheduling, Lines
    <3>5. Prepared(c)'
      BY <1>0, <1>2, DumpEndFacts DEF Prepared, DumpBusy
    <3>6. Settled(q)'
      <4>1. D!Scheduled(q)' = {w} /\ D!Reported(q)' = {}
        BY <1>0, <1>1, <1>2, <3>2 DEF D!Scheduled, D!Reported, Without
      <4> QED
        BY <1>0, <2>0, <4>1 DEF Settled
    <3> QED
      BY <1>0, <3>1, <3>3, <3>4, <3>5, <3>6, RequestStepKeeps
  <2> QED
    BY <2>1, <2>2 DEF DumpInv
<1>3. CASE D!Fails(c) /\ UNCHANGED at
  <2>1. DumpTypes'
    BY <1>0, <1>1, <1>3, FailsKeeps DEF DumpTypes
  <2>2. ASSUME ~dumpRaced'
        PROVE  Scheduling'
    <3>1. Scheduling
      BY <1>1, <2>2 DEF DumpInv
    <3>2. Touches(c)
      BY <1>0, <1>1, <1>3, FailsKeeps DEF Touches
    <3>3. Lines'
      BY <1>1, <1>3, <3>1, <3>2, StillOfDone, FewerLines DEF Scheduling, Lines
    <3> QED
      BY <1>0, <1>3, <3>1, <3>2, <3>3, FailsKeeps, RequestStepKeeps
  <2> QED
    BY <2>1, <2>2 DEF DumpInv
<1> QED
  BY <1>0, <1>2, <1>3 DEF D!ScheduleAt

\* The lines that appendDBDumpCrontab has added.
LEMMA AddedFacts ==
    ASSUME DumpTypes, Scheduling, NEW c \in DumpClient, DumpBusy(c), req[c].pc = "appended",
           NEW q, q = req[c].queue, NEW w, w = D!Own(c), Touches(c), req'[c].pc = "done",
           at' = at, cron' = req[c].copy, cron = req[c].base
    PROVE  Lines' /\ cron' = cron \cup {Comment(w), w} /\ Without(cron, q) /\ Without(at, q) /\ w \notin at
<1>1. Lines /\ Prepared(c)
  BY DEF Scheduling
<1>2. cron' = cron \cup {Comment(w), w} /\ Without(cron, q) /\ Without(at, q)
  BY <1>1 DEF Prepared
<1>3. /\ w \in DumpLine /\ w.queue = q /\ w.part = "command" /\ w.by = {c} /\ q \in D!Queue
      /\ Comment(w).part = "comment" /\ w \notin at
  BY OwnFacts, LineFacts, OwnIsNew
<1>4. OfDone(w)' /\ \A l : OfDone(l) => OfDone(l)'
  <2>1. OfDone(w)'
    BY <1>3 DEF OfDone
  <2> QED
    BY <2>1, StillOfDone
<1> QED
  BY <1>1, <1>2, <1>3, <1>4 DEF Lines

LEMMA AppendInstallInv ==
    ASSUME DumpInv, NEW c \in DumpClient, D!AppendInstall(c)
    PROVE  DumpInv'
<1>q. PICK q, w : q = req[c].queue /\ w = D!Own(c)
  OBVIOUS
<1>0. /\ q = req[c].queue /\ DumpTypes /\ q \in D!Queue /\ req[c].pc = "appended" /\ DumpBusy(c)
      /\ w \in DumpLine /\ w.queue = q /\ w.part = "command" /\ w = D!Own(c)
      /\ Comment(w).queue = q /\ Comment(w).part = "comment"
  BY <1>q, OwnFacts, LineFacts DEF DumpInv, D!AppendInstall, DumpBusy
<1>1. at' = at /\ legacy' = legacy
  BY DEF D!AppendInstall
<1>2. ASSUME Scheduling, D!End(c), cron' = req[c].copy, cron = req[c].base, NEW v, D!Decide(q, v)
      PROVE  /\ Touches(c) /\ Lines' /\ cron' = cron \cup {Comment(w), w}
             /\ Without(cron, q) /\ Without(at, q) /\ w \notin at
  <2>1. cron' = cron \cup {Comment(w), w}
    BY <1>0, <1>2 DEF Scheduling, Prepared
  <2>2. Touches(c)
    BY <1>0, <1>1, <1>2, <2>1, DumpEndFacts DEF Touches
  <2> QED
    BY <1>0, <1>1, <1>2, <2>2, DumpEndFacts, AddedFacts
<1>3. CASE D!Install(c) /\ D!End(c) /\ D!Decide(q, D!Own(c))
  <2>0. dumpWish' \in [D!Queue -> DumpLine] /\ dumpWish'[q] = w
    BY <1>0, <1>3, DecideOwn
  <2>1. DumpTypes'
    BY <1>0, <1>1, <1>3, <2>0, DumpEndFacts, InstallFacts DEF DumpTypes
  <2>2. ASSUME ~dumpRaced'
        PROVE  Scheduling'
    <3>1. Scheduling /\ cron' = req[c].copy /\ cron = req[c].base
      BY <1>3, <2>2 DEF DumpInv, D!Install
    <3>2. /\ Touches(c) /\ Lines' /\ cron' = cron \cup {Comment(w), w}
          /\ Without(cron, q) /\ Without(at, q) /\ w \notin at
      BY <1>2, <1>3, <3>1
    <3>3. Prepared(c)'
      BY <1>0, <1>3, DumpEndFacts DEF Prepared, DumpBusy
    <3>4. Settled(q)'
      <4>1. D!Scheduled(q)' = {w}
        BY <1>0, <1>1, <3>2 DEF D!Scheduled, Without
      <4>2. D!Reported(q)' = {Comment(w)}
        BY <1>0, <3>2 DEF D!Reported, Without
      <4> QED
        BY <1>0, <1>1, <2>0, <3>2, <4>1, <4>2 DEF Settled
    <3> QED
      BY <1>0, <3>1, <3>2, <3>3, <3>4, RequestStepKeeps
  <2> QED
    BY <2>1, <2>2 DEF DumpInv
<1>4. CASE D!Fails(c) /\ (D!Install(c) \/ UNCHANGED <<cron, dumpRaced>>)
  <2>1. DumpTypes'
    BY <1>0, <1>1, <1>4, FailsKeeps, InstallFacts DEF DumpTypes
  <2>2. ASSUME ~dumpRaced'
        PROVE  Scheduling'
    <3>1. Scheduling /\ (cron' = cron \/ (cron' = req[c].copy /\ cron = req[c].base))
      BY <1>0, <1>4, <2>2, InstallFacts DEF DumpInv
    <3>2. D!End(c) /\ D!Decide(q, D!Unknown)
      BY <1>0, <1>4 DEF D!Fails
    <3>3. Touches(c) /\ Lines'
      <4>1. CASE cron' = cron
        <5>1. Touches(c)
          BY <1>0, <1>1, <3>2, <4>1, DumpEndFacts DEF Touches
        <5> QED
          BY <1>1, <3>1, <4>1, <5>1, StillOfDone, FewerLines DEF Scheduling, Lines
      <4> QED
        BY <1>2, <3>1, <3>2, <4>1
    <3> QED
      BY <1>0, <1>4, <3>1, <3>3, FailsKeeps, RequestStepKeeps
  <2> QED
    BY <2>1, <2>2 DEF DumpInv
<1> QED
  BY <1>0, <1>3, <1>4 DEF D!AppendInstall

LEMMA RequestInv ==
    ASSUME DumpInv, NEW c \in DumpClient, D!Request(c)
    PROVE  DumpInv'
<1>1. PICK a \in D!Action, q \in D!Queue, p \in Paths, once \in BOOLEAN :
          /\ req' = [req EXCEPT ![c] = [D!NoReq EXCEPT !.pc = "atrm", !.action = a, !.queue = q,
                                                       !.path = p, !.once = once]]
          /\ dumpRaced' = (dumpRaced \/ D!Working(q))
  BY DEF D!Request
<1>2. DumpTypes /\ req[c].pc = "idle" /\ UNCHANGED <<cron, at, legacy, dumpWish>>
  BY DEF DumpInv, D!Request
<1>3. PICK r : r = [D!NoReq EXCEPT !.pc = "atrm", !.action = a, !.queue = q, !.path = p, !.once = once]
  OBVIOUS
<1>4. r \in DumpRequest /\ r.pc = "atrm" /\ r.queue = q
  BY <1>3 DEF D!NoReq, DumpRequest, DumpPath
<1>5. req' \in [DumpClient -> DumpRequest] /\ req'[c] = r /\ \A d \in DumpClient \ {c} : req'[d] = req[d]
  BY <1>1, <1>2, <1>3, <1>4 DEF DumpTypes
<1>6. DumpTypes'
  BY <1>1, <1>2, <1>5 DEF DumpTypes
<1>7. ASSUME ~dumpRaced'
      PROVE  Scheduling'
  <2>1. Scheduling /\ ~D!Working(q)
    BY <1>1, <1>7, <1>2 DEF DumpInv, DumpTypes
  <2>2. \A l : OfDone(l) => OfDone(l)'
    BY <1>2, <1>5 DEF OfDone
  <2>3. Lines'
    BY <1>2, <2>1, <2>2, FewerLines DEF Scheduling, Lines
  <2>4. ASSUME NEW d \in DumpClient
        PROVE  Prepared(d)'
    <3>1. ASSUME NEW b \in DumpClient, NEW e \in DumpClient, DumpBusy(b)', DumpBusy(e)', req'[b].queue = req'[e].queue
          PROVE  b = e
      BY <1>4, <1>5, <2>1, <3>1 DEF Scheduling, Prepared, DumpBusy, D!Working
    <3>2. CASE d = c
      BY <1>4, <1>5, <3>1, <3>2 DEF Prepared
    <3>3. CASE d # c
      <4>1. Prepared(d) /\ req'[d] = req[d]
        BY <1>5, <2>1, <3>3 DEF Scheduling
      <4>2. D!Own(d)' = D!Own(d)
        BY <4>1 DEF D!Own
      <4> QED
        BY <1>2, <3>1, <4>1, <4>2 DEF Prepared
    <3> QED
      BY <3>2, <3>3
  <2>5. ASSUME NEW s \in D!Queue
        PROVE  Settled(s)'
    <3>1. ~D!Working(s)' => ~D!Working(s)
      BY <1>2, <1>5 DEF D!Working
    <3>2. D!Reported(s)' = D!Reported(s) /\ D!Scheduled(s)' = D!Scheduled(s)
      BY <1>2 DEF D!Reported, D!Scheduled
    <3> QED
      BY <1>2, <2>1, <3>1, <3>2 DEF Scheduling, Settled
  <2> QED
    BY <2>3, <2>4, <2>5 DEF Scheduling
<1> QED
  BY <1>6, <1>7 DEF DumpInv

\* Requests may end, and commands be removed, where no queue is touched that is settled.
LEMMA EndedInv ==
    ASSUME DumpTypes, Scheduling, DumpTypes',
           \A d \in DumpClient : req'[d] = req[d] \/ (req[d].pc # "done" /\ req'[d].pc = "done"),
           at' \subseteq at, cron' \subseteq cron, D!User \in cron', \A q \in D!Queue : Settled(q)'
    PROVE  Scheduling'
<1>1. \A l : OfDone(l) => OfDone(l)'
  BY DEF OfDone
<1>2. Lines'
  BY <1>1, FewerLines DEF Scheduling
<1>3. ASSUME NEW d \in DumpClient
      PROVE  Prepared(d)'
  <2>1. CASE req'[d].pc = "done"
    BY <2>1 DEF Prepared, DumpBusy
  <2>2. CASE req'[d] = req[d]
    <3>1. Prepared(d)
      BY DEF Scheduling
    <3>2. ASSUME NEW b \in DumpClient, DumpBusy(b)', DumpBusy(d)', req'[b].queue = req'[d].queue
          PROVE  b = d
      BY <2>2, <3>1, <3>2 DEF Prepared, DumpBusy
    <3>3. Without(at, req[d].queue) => Without(at', req[d].queue)
      BY DEF Without
    <3>4. Without(cron, req[d].queue) => Without(cron', req[d].queue)
      BY DEF Without
    <3>5. D!Own(d)' = D!Own(d)
      BY <2>2 DEF D!Own
    <3> QED
      BY <2>2, <3>1, <3>2, <3>3, <3>4, <3>5 DEF Prepared
  <2> QED
    BY <2>1, <2>2
<1> QED
  BY <1>2, <1>3 DEF Scheduling

LEMMA CheckInv ==
    ASSUME DumpInv, NEW c \in DumpClient, D!Check(c)
    PROVE  DumpInv'
<1>1. DumpTypes /\ req[c].pc = "idle" /\ UNCHANGED <<cron, at, legacy, dumpWish, dumpRaced>>
  BY DEF DumpInv, D!Check
<1>2. /\ req' \in [DumpClient -> DumpRequest] /\ req'[c].pc = "done"
      /\ \A d \in DumpClient \ {c} : req'[d] = req[d]
  BY <1>1 DEF D!Check, DumpTypes, DumpRequest
<1>3. DumpTypes'
  BY <1>1, <1>2 DEF DumpTypes
<1>4. ASSUME ~dumpRaced'
      PROVE  Scheduling'
  <2>1. Scheduling
    BY <1>1, <1>4 DEF DumpInv
  <2>2. ASSUME NEW q \in D!Queue
        PROVE  Settled(q)'
    <3>1. D!Working(q)' <=> D!Working(q)
      BY <1>1, <1>2 DEF D!Working
    <3>2. D!Reported(q)' = D!Reported(q) /\ D!Scheduled(q)' = D!Scheduled(q)
      BY <1>1 DEF D!Reported, D!Scheduled
    <3> QED
      BY <1>1, <2>1, <3>1, <3>2 DEF Scheduling, Settled
  <2>3. D!User \in cron' /\ at' \subseteq at /\ cron' \subseteq cron
    BY <1>1, <2>1 DEF Scheduling, Lines
  <2>4. \A d \in DumpClient : req'[d] = req[d] \/ (req[d].pc # "done" /\ req'[d].pc = "done")
    BY <1>1, <1>2
  <2> QED
    BY <1>1, <1>3, <2>1, <2>2, <2>3, <2>4, EndedInv
<1> QED
  BY <1>3, <1>4 DEF DumpInv

LEMMA AtRunsInv ==
    ASSUME DumpInv, D!AtRuns
    PROVE  DumpInv'
<1>1. PICK l \in at :
          /\ at' = at \ {l}
          /\ dumpWish' = IF dumpWish[l.queue] = l THEN [dumpWish EXCEPT ![l.queue] = D!Nothing] ELSE dumpWish
  BY DEF D!AtRuns
<1>2. DumpTypes /\ UNCHANGED <<cron, req, legacy, dumpRaced>>
  BY DEF DumpInv, D!AtRuns
<1>3. /\ dumpWish' \in [D!Queue -> DumpLine]
      /\ \A q \in D!Queue : dumpWish'[q] = dumpWish[q] \/ (q = l.queue /\ dumpWish[q] = l /\ dumpWish'[q] = D!Nothing)
  BY <1>1, <1>2, LineFacts DEF DumpTypes
<1>4. DumpTypes'
  BY <1>1, <1>2, <1>3 DEF DumpTypes
<1>5. ASSUME ~dumpRaced'
      PROVE  Scheduling'
  <2>1. Scheduling /\ l \in DumpLine /\ l.part = "command" /\ l.queue \in D!Queue /\ l \notin cron
    BY <1>1, <1>2, <1>5 DEF DumpInv, Scheduling, Lines, DumpTypes
  <2>2. ASSUME NEW q \in D!Queue
        PROVE  Settled(q)'
    <3>1. D!Working(q)' <=> D!Working(q)
      BY <1>2 DEF D!Working
    <3>2. D!Reported(q)' = D!Reported(q) /\ D!Scheduled(q)' = D!Scheduled(q) \ {l}
      BY <1>1, <1>2, <2>1 DEF D!Reported, D!Scheduled
    <3>3. Settled(q) /\ D!Nothing \notin at /\ D!Nothing # D!Unknown
      BY <2>1, LineFacts DEF Scheduling, Lines
    <3>4. CASE dumpWish'[q] = dumpWish[q] /\ dumpWish[q] # l
      BY <1>1, <3>1, <3>2, <3>3, <3>4 DEF Settled, D!Clash
    <3>5. CASE dumpWish[q] = l /\ dumpWish'[q] = D!Nothing
      <4>1. D!Reported(q)' = {} /\ l # D!Unknown
        BY <1>1, <2>1, <3>2, <3>3, <3>5, LineFacts DEF Settled
      <4> QED
        BY <1>1, <3>1, <3>2, <3>3, <3>5, <4>1 DEF Settled
    <3>6. dumpWish[q] = l => dumpWish'[q] = D!Nothing
      <4>1. dumpWish[q] = l => q = l.queue
        BY <2>1, <3>3, LineFacts DEF Settled
      <4> QED
        BY <1>1, <1>2, <4>1 DEF DumpTypes
    <3> QED
      BY <1>3, <3>4, <3>5, <3>6
  <2>3. D!User \in cron' /\ at' \subseteq at /\ cron' \subseteq cron
    BY <1>1, <1>2, <2>1 DEF Scheduling, Lines
  <2> QED
    BY <1>2, <1>4, <2>1, <2>2, <2>3, EndedInv
<1> QED
  BY <1>4, <1>5 DEF DumpInv

LEMMA LegacyReadInv ==
    ASSUME DumpInv, D!LegacyRead \/ UNCHANGED dumpVars
    PROVE  DumpInv'
<1>1. UNCHANGED <<cron, at, req, dumpWish, dumpRaced>> /\ DumpTypes
  BY DEF D!LegacyRead, dumpVars, DumpInv
<1>2. DumpTypes'
  BY <1>1 DEF DumpTypes, D!LegacyRead, dumpVars
<1>3. ASSUME Scheduling
      PROVE  Scheduling'
  <2>1. \A q \in D!Queue : Settled(q)'
    BY <1>1, <1>3 DEF Scheduling, Settled, D!Working, D!Reported, D!Scheduled, D!Clash
  <2>2. D!User \in cron
    BY <1>3 DEF Scheduling, Lines
  <2> QED
    BY <1>1, <1>2, <1>3, <2>1, <2>2, EndedInv
<1> QED
  BY <1>1, <1>2, <1>3 DEF DumpInv

LEMMA LegacyReplaceInv ==
    ASSUME DumpInv, D!LegacyReplace
    PROVE  DumpInv'
<1>1. UNCHANGED <<at, req, dumpWish>> /\ DumpTypes
  BY DEF D!LegacyReplace, DumpInv
<1>2. /\ dumpRaced' \in BOOLEAN /\ cron' \in SUBSET DumpLine
      /\ ~dumpRaced' => ~dumpRaced /\ cron' \in {cron, cron \ {D!Python}}
  BY <1>1 DEF D!LegacyReplace, DumpTypes
<1>3. DumpTypes'
  BY <1>1, <1>2 DEF DumpTypes, D!LegacyReplace
<1>4. ASSUME ~dumpRaced'
      PROVE  Scheduling'
  <2>1. Scheduling
    BY <1>2, <1>4 DEF DumpInv
  <2>2. ASSUME NEW q \in D!Queue
        PROVE  Settled(q)'
    <3>1. D!Reported(q)' = D!Reported(q) /\ D!Scheduled(q)' = D!Scheduled(q)
      BY <1>1, <1>2, <1>4, LineFacts DEF D!Reported, D!Scheduled
    <3>2. D!Working(q)' <=> D!Working(q)
      BY <1>1 DEF D!Working
    <3> QED
      BY <1>1, <2>1, <3>1, <3>2 DEF Scheduling, Settled
  <2>3. D!User \in cron' /\ at' \subseteq at /\ cron' \subseteq cron
    BY <1>1, <1>2, <1>4, <2>1, LineFacts DEF Scheduling, Lines
  <2> QED
    BY <1>1, <1>3, <2>1, <2>2, <2>3, EndedInv
<1> QED
  BY <1>3, <1>4 DEF DumpInv

LEMMA ServerRestartsInv ==
    ASSUME DumpInv, D!ServerRestarts
    PROVE  DumpInv'
<1>1. UNCHANGED <<cron, at, dumpRaced>> /\ DumpTypes
  BY DEF D!ServerRestarts, DumpInv
<1>2. PICK none : none = [D!NoReq EXCEPT !.pc = "done"]
  OBVIOUS
<1>3. none \in DumpRequest /\ none.pc = "done"
  BY <1>2 DEF D!NoReq, DumpRequest, DumpPath, D!Queue
<1>4. req' = [d \in DumpClient |-> IF req[d].pc = "idle" THEN req[d] ELSE none]
  BY <1>2 DEF D!ServerRestarts
<1>5. req' \in [DumpClient -> DumpRequest] /\ \A d \in DumpClient : ~DumpBusy(d)'
  BY <1>1, <1>3, <1>4 DEF DumpTypes, DumpBusy
<1>6. /\ dumpWish' \in [D!Queue -> DumpLine]
      /\ \A q \in D!Queue : dumpWish'[q] = IF D!Working(q) THEN D!Unknown ELSE dumpWish[q]
  BY <1>1, LineFacts DEF D!ServerRestarts, DumpTypes
<1>7. DumpTypes'
  BY <1>1, <1>5, <1>6 DEF D!ServerRestarts, DumpTypes
<1>8. ASSUME ~dumpRaced'
      PROVE  Scheduling'
  <2>1. Scheduling
    BY <1>1, <1>8 DEF DumpInv
  <2>2. ASSUME NEW q \in D!Queue
        PROVE  Settled(q)'
    <3>1. D!Reported(q)' = D!Reported(q) /\ D!Scheduled(q)' = D!Scheduled(q) /\ D!Unknown \notin at
      BY <1>1, <2>1, LineFacts DEF D!Reported, D!Scheduled, Scheduling, Lines
    <3>2. CASE D!Working(q)
      BY <1>1, <1>6, <3>1, <3>2 DEF Settled
    <3>3. CASE ~D!Working(q)
      BY <1>1, <1>6, <2>1, <3>1, <3>3 DEF Scheduling, Settled, D!Clash
    <3> QED
      BY <3>2, <3>3
  <2>3. \A l : OfDone(l) => OfDone(l)'
    BY <1>3, <1>4 DEF OfDone
  <2>4. Lines'
    BY <1>1, <2>1, <2>3, FewerLines DEF Scheduling, Lines
  <2>5. \A d \in DumpClient : Prepared(d)'
    BY <1>5 DEF Prepared, DumpBusy
  <2> QED
    BY <2>2, <2>4, <2>5 DEF Scheduling
<1> QED
  BY <1>7, <1>8 DEF DumpInv

LEMMA DumpInitInv ==
    ASSUME D!Init
    PROVE  DumpInv
<1>1. D!NoReq \in DumpRequest /\ D!NoReq.pc = "idle"
  BY DEF D!NoReq, DumpRequest, DumpPath, D!Queue
<1>2. DumpTypes
  BY <1>1, LineFacts DEF D!Init, DumpTypes
<1>3. Lines
  BY LineFacts DEF D!Init, Lines
<1>4. \A c \in DumpClient : Prepared(c)
  BY <1>1 DEF D!Init, Prepared, DumpBusy
<1>5. ASSUME NEW q \in D!Queue
      PROVE  Settled(q)
  <2>1. dumpWish[q] = D!Nothing /\ at = {} /\ cron = {D!User, D!Python}
    BY DEF D!Init
  <2>2. D!Scheduled(q) = {} /\ D!Reported(q) = {}
    BY <2>1, LineFacts DEF D!Scheduled, D!Reported
  <2> QED
    BY <2>1, <2>2 DEF Settled
<1> QED
  BY <1>2, <1>3, <1>4, <1>5 DEF DumpInv, Scheduling

LEMMA DumpStepInv ==
    ASSUME DumpInv, D!Next \/ UNCHANGED dumpVars
    PROVE  DumpInv'
  BY RequestInv, CheckInv, CleanAtInv, CleanListInv, CleanInstallInv, ScheduleAtInv, AppendListInv,
     AppendInstallInv, AtRunsInv, LegacyReadInv, LegacyReplaceInv, ServerRestartsInv DEF D!Next

LEMMA DumpsAsAsked == ASSUME DumpInv PROVE D!RunsWhatWasAsked
  BY DEF DumpInv, Scheduling, Lines, Settled, D!RunsWhatWasAsked, Comment

-----------------------------------------------------------------------------
(* The logs                                                                   *)

\* What is assumed of the constants.
LogConstants ==
    /\ NoOne \notin Routine \cup Job
    /\ MaxDay \in Nat /\ Retention \in Nat

-----------------------------------------------------------------------------
(* The steps that a goroutine has before it                                 *)

Guarded(s) == s[1] \in {"archive", "remove", "append", "unlock"}
JobLine(s) == s[1] = "append" /\ s[2] = "job"

\* What is done under the mutex of a log follows the locking of it or another such step on the
\* same log; a copy is followed by the removal; there is at most one line for the job log.
Linked(todo) ==
    /\ \E S : todo \in Seq(S)
    /\ \A p \in 1..Len(todo) :
          /\ Guarded(todo[p]) \/ todo[p][1] = "lock" => todo[p][2] \in L!File
          /\ Guarded(todo[p]) /\ p > 1 => /\ todo[p - 1][2] = todo[p][2]
                                          /\ todo[p - 1][1] \in {"lock", "archive", "remove", "append"}
          /\ todo[p][1] = "archive" => /\ p < Len(todo) /\ todo[p + 1][1] = "remove"
                                       /\ todo[p + 1][2] = todo[p][2]
          /\ todo[p][1] = "remove" /\ p > 1 => todo[p - 1][1] = "archive"
          /\ todo[p][1] = "mark" => Len(todo) = 1 /\ todo[p][2] \in Msg \cup {L!Ok}
          /\ \A q \in 1..Len(todo) : JobLine(todo[p]) /\ JobLine(todo[q]) => p = q
Pending(todo) == \E p \in 1..Len(todo) : JobLine(todo[p])
Closed(todo) == Linked(todo) /\ todo # <<>> /\ ~Guarded(todo[1])
\* The lines that it has for the job log.
Says(todo, j, result) ==
    \A p \in 1..Len(todo) : JobLine(todo[p]) => todo[p][3][1] = j /\ todo[p][3][2] = result

LEMMA Join ==
    ASSUME NEW S, NEW s \in Seq(S), NEW T, NEW t \in Seq(T)
    PROVE  /\ \E U : s \o t \in Seq(U)
           /\ Len(s \o t) = Len(s) + Len(t) /\ Len(s) \in Nat /\ Len(t) \in Nat
           /\ \A i \in 1..Len(s) : (s \o t)[i] = s[i]
           /\ \A i \in 1..Len(t) : (s \o t)[Len(s) + i] = t[i]
<1>1. s \in Seq(S \cup T) /\ t \in Seq(S \cup T)
  OBVIOUS
<1>2. s \o t \in Seq(S \cup T)
  BY <1>1
<1>3. /\ Len(s \o t) = Len(s) + Len(t)
      /\ \A i \in 1..Len(s) : (s \o t)[i] = s[i]
      /\ \A i \in 1..Len(t) : (s \o t)[Len(s) + i] = t[i]
  BY <1>1
<1> QED
  BY <1>2, <1>3

LEMMA JoinClosed ==
    ASSUME NEW s, Closed(s), NEW t, Closed(t), ~(Pending(s) /\ Pending(t)),
           \A p \in 1..Len(s) : s[p][1] # "mark", \A p \in 1..Len(t) : t[p][1] # "mark"
    PROVE  /\ Closed(s \o t) /\ \A p \in 1..Len(s \o t) : (s \o t)[p][1] # "mark"
           /\ Pending(s \o t) <=> Pending(s) \/ Pending(t)
           /\ \A j, result : Says(s, j, result) /\ Says(t, j, result) => Says(s \o t, j, result)
<1>1. PICK S, T : s \in Seq(S) /\ t \in Seq(T)
  BY DEF Closed, Linked
<1>0. PICK u, m, n : u = s \o t /\ m = Len(s) /\ n = Len(t)
  OBVIOUS
<1>2. /\ u = s \o t /\ m = Len(s) /\ n = Len(t)
      /\ \E U : u \in Seq(U)
      /\ Len(u) = m + n /\ m \in Nat \ {0} /\ n \in Nat \ {0}
      /\ \A i \in 1..m : u[i] = s[i]
      /\ \A i \in 1..n : u[m + i] = t[i]
  <2>1. m # 0 /\ n # 0
    BY <1>0, <1>1 DEF Closed
  <2>2. /\ \E U : u \in Seq(U)
        /\ Len(u) = m + n /\ m \in Nat /\ n \in Nat
        /\ \A i \in 1..m : u[i] = s[i]
        /\ \A i \in 1..n : u[m + i] = t[i]
    BY <1>0, <1>1, Join
  <2> QED
    BY <1>0, <2>1, <2>2
<1>3. ASSUME NEW p \in 1..Len(u), p > m
      PROVE  p - m \in 1..n /\ m + (p - m) = p /\ u[p] = t[p - m]
  BY <1>2, <1>3
<1>4. ASSUME NEW p \in 1..Len(u)
      PROVE  /\ Guarded(u[p]) \/ u[p][1] = "lock" => u[p][2] \in L!File
             /\ Guarded(u[p]) /\ p > 1 => /\ u[p - 1][2] = u[p][2]
                                          /\ u[p - 1][1] \in {"lock", "archive", "remove", "append"}
             /\ u[p][1] = "archive" => p < Len(u) /\ u[p + 1][1] = "remove" /\ u[p + 1][2] = u[p][2]
             /\ u[p][1] = "remove" /\ p > 1 => u[p - 1][1] = "archive"
             /\ u[p][1] # "mark"
  <2>1. CASE p \in 1..m
    <3>1. u[p] = s[p] /\ (p > 1 => p - 1 \in 1..m /\ u[p - 1] = s[p - 1])
      BY <1>2, <2>1
    <3>2. u[p][1] = "archive" => p < m /\ p + 1 \in 1..m /\ u[p + 1] = s[p + 1]
      BY <1>2, <2>1, <3>1 DEF Closed, Linked
    <3>3. p < m => p < Len(u)
      BY <1>2, <2>1
    <3> QED
      BY <1>2, <2>1, <3>1, <3>2, <3>3 DEF Closed, Linked
  <2>2. CASE p = m + 1
    <3>1. u[p] = t[1] /\ ~Guarded(u[p]) /\ 1 \in 1..n
      BY <1>2, <1>3, <2>2 DEF Closed
    <3>2. u[p][1] \notin {"archive", "remove", "mark"}
      BY <1>2, <3>1 DEF Guarded
    <3> QED
      BY <1>2, <3>1, <3>2 DEF Closed, Linked
  <2>3. CASE p > m + 1
    <3>1. PICK k : k = p - m /\ k \in 1..n /\ k > 1 /\ u[p] = t[k] /\ k - 1 \in 1..n /\ u[p - 1] = t[k - 1]
      <4>1. p > m /\ p - 1 > m /\ p - 1 \in 1..Len(u) /\ (p - 1) - m = (p - m) - 1
        BY <1>2, <2>3
      <4>2. p - m \in 1..n /\ u[p] = t[p - m] /\ (p - 1) - m \in 1..n /\ u[p - 1] = t[(p - 1) - m]
        BY <1>3, <4>1
      <4>3. p - m > 1
        BY <1>2, <2>3
      <4> QED
        BY <4>1, <4>2, <4>3
    <3>2. u[p][1] = "archive" => k < n /\ p < Len(u) /\ u[p + 1] = t[k + 1]
      <4>1. SUFFICES ASSUME u[p][1] = "archive" PROVE k < n /\ p < Len(u) /\ u[p + 1] = t[k + 1]
        OBVIOUS
      <4>2. k < n
        BY <1>2, <3>1, <4>1 DEF Closed, Linked
      <4>3. p < Len(u) /\ k + 1 \in 1..n /\ m + (k + 1) = p + 1
        <5>1. p = m + k /\ k \in Int /\ m \in Int /\ n \in Int /\ Len(u) = m + n /\ k >= 1
          BY <1>2, <3>1
        <5> QED
          BY <4>2, <5>1
      <4> QED
        BY <1>2, <4>2, <4>3
    <3> QED
      BY <1>2, <3>1, <3>2 DEF Closed, Linked
  <2> QED
    BY <1>2, <2>1, <2>2, <2>3
<1>5. \A p \in 1..Len(u) : \/ p \in 1..m /\ u[p] = s[p]
                           \/ p - m \in 1..n /\ u[p] = t[p - m] /\ m + (p - m) = p
  BY <1>2, <1>3
<1>6. \A p, q \in 1..Len(u) : JobLine(u[p]) /\ JobLine(u[q]) => p = q
  <2> SUFFICES ASSUME NEW p \in 1..Len(u), NEW q \in 1..Len(u), JobLine(u[p]), JobLine(u[q])
               PROVE  p = q
    OBVIOUS
  <2>1. CASE p \in 1..m /\ q \in 1..m
    BY <1>2, <2>1 DEF Closed, Linked
  <2>2. CASE p - m \in 1..n /\ q - m \in 1..n
    <3>1. p - m = q - m
      <4>1. p > m /\ q > m
        BY <1>2, <2>2
      <4>2. JobLine(t[p - m]) /\ JobLine(t[q - m])
        BY <1>3, <4>1
      <4> QED
        BY <1>2, <2>2, <4>2 DEF Closed, Linked
    <3> QED
      BY <1>2, <3>1
  <2>3. ASSUME NEW a \in 1..m, NEW b \in 1..n, JobLine(s[a]), JobLine(t[b]) PROVE FALSE
    BY <1>2, <2>3 DEF Pending
  <2> QED
    BY <1>5, <2>1, <2>2, <2>3
<1>7. Linked(u)
  <2>1. \E U : u \in Seq(U)
    BY <1>2
  <2> QED
    BY ONLY <2>1, <1>4, <1>6 DEF Linked
<1>8. u # <<>> /\ ~Guarded(u[1])
  BY <1>2 DEF Closed
<1>9. Pending(u) <=> Pending(s) \/ Pending(t)
  <2>1. Pending(u) => Pending(s) \/ Pending(t)
    BY <1>2, <1>5 DEF Pending
  <2>2. ASSUME NEW p \in 1..m PROVE p \in 1..Len(u) /\ u[p] = s[p]
    BY <1>2
  <2>3. ASSUME NEW p \in 1..n PROVE m + p \in 1..Len(u) /\ u[m + p] = t[p]
    BY <1>2
  <2> QED
    BY <1>2, <2>1, <2>2, <2>3 DEF Pending
<1>10. \A j, result : Says(s, j, result) /\ Says(t, j, result) => Says(u, j, result)
  BY <1>2, <1>5 DEF Says
<1> QED
  BY <1>2, <1>4, <1>7, <1>8, <1>9, <1>10 DEF Closed

Clean(s) == Closed(s) /\ \A p \in 1..Len(s) : s[p][1] # "mark"

\* A log is locked, rotated, perhaps written to, and unlocked.
LEMMA RotateSteps ==
    ASSUME NEW f \in L!File
    PROVE  Clean(L!RotateLogWithLock(f)) /\ ~Pending(L!RotateLogWithLock(f))
<1>1. PICK a, b, c : a = << <<"lock", f>> >> /\ b = L!Rotation(f) /\ c = << <<"unlock", f>> >>
  OBVIOUS
<1>2. PICK x1, x2, x3, x4 : /\ x1 = <<"lock", f>> /\ x2 = <<"archive", f>> /\ x3 = <<"remove", f>>
                            /\ x4 = <<"unlock", f>>
  OBVIOUS
<1>3. /\ x1[1] = "lock" /\ x2[1] = "archive" /\ x3[1] = "remove" /\ x4[1] = "unlock"
      /\ x1[2] = f /\ x2[2] = f /\ x3[2] = f /\ x4[2] = f
  BY <1>2
<1>4. /\ a \in Seq({x1}) /\ Len(a) = 1 /\ a[1] = x1
      /\ b \in Seq({x2, x3}) /\ Len(b) = 2 /\ b[1] = x2 /\ b[2] = x3
      /\ c \in Seq({x4}) /\ Len(c) = 1 /\ c[1] = x4
  BY <1>1, <1>2 DEF L!Rotation
<1>5. PICK d : d = a \o b
  OBVIOUS
<1>6. /\ \E U : d \in Seq(U)
      /\ Len(d) = 3 /\ d[1] = x1 /\ d[2] = x2 /\ d[3] = x3
  <2>1. PICK S, T : a \in Seq(S) /\ b \in Seq(T)
    BY <1>4
  <2>2. /\ \E U : a \o b \in Seq(U)
        /\ Len(a \o b) = Len(a) + Len(b)
        /\ \A i \in 1..Len(a) : (a \o b)[i] = a[i]
        /\ \A i \in 1..Len(b) : (a \o b)[Len(a) + i] = b[i]
    BY ONLY <2>1, Join
  <2> QED
    BY <1>4, <1>5, <2>2
<1>7. PICK s : s = d \o c /\ s = L!RotateLogWithLock(f)
  BY <1>1, <1>5 DEF L!RotateLogWithLock
<1>8. /\ \E U : s \in Seq(U)
      /\ Len(s) = 4 /\ s[1] = x1 /\ s[2] = x2 /\ s[3] = x3 /\ s[4] = x4
  <2>1. PICK S, T : d \in Seq(S) /\ c \in Seq(T)
    BY <1>4, <1>6
  <2>2. /\ \E U : d \o c \in Seq(U)
        /\ Len(d \o c) = Len(d) + Len(c)
        /\ \A i \in 1..Len(d) : (d \o c)[i] = d[i]
        /\ \A i \in 1..Len(c) : (d \o c)[Len(d) + i] = c[i]
    BY ONLY <2>1, Join
  <2> QED
    BY <1>4, <1>6, <1>7, <2>2
<1>9. \A p \in 1..4 : ~JobLine(s[p]) /\ s[p][1] # "mark"
  BY <1>3, <1>8 DEF JobLine
<1>10. Linked(s)
  BY <1>3, <1>8, <1>9 DEF Linked, Guarded
<1> QED
  BY <1>3, <1>7, <1>8, <1>9, <1>10 DEF Clean, Closed, Guarded, Pending

LEMMA WriteSteps ==
    ASSUME NEW f \in L!File, NEW line
    PROVE  /\ Clean(L!WriteJSONLog(f, line)) /\ (Pending(L!WriteJSONLog(f, line)) <=> f = "job")
           /\ Says(L!WriteJSONLog(f, line), line[1], line[2])
<1>1. PICK a, b, c : /\ a = << <<"lock", f>> >> /\ b = L!Rotation(f)
                     /\ c = << <<"append", f, line>>, <<"unlock", f>> >>
  OBVIOUS
<1>2. PICK x1, x2, x3, x4, x5 : /\ x1 = <<"lock", f>> /\ x2 = <<"archive", f>> /\ x3 = <<"remove", f>>
                                /\ x4 = <<"append", f, line>> /\ x5 = <<"unlock", f>>
  OBVIOUS
<1>3. /\ x1[1] = "lock" /\ x2[1] = "archive" /\ x3[1] = "remove" /\ x4[1] = "append" /\ x5[1] = "unlock"
      /\ x1[2] = f /\ x2[2] = f /\ x3[2] = f /\ x4[2] = f /\ x5[2] = f /\ x4[3] = line
  BY <1>2
<1>4. /\ a \in Seq({x1}) /\ Len(a) = 1 /\ a[1] = x1
      /\ b \in Seq({x2, x3}) /\ Len(b) = 2 /\ b[1] = x2 /\ b[2] = x3
      /\ c \in Seq({x4, x5}) /\ Len(c) = 2 /\ c[1] = x4 /\ c[2] = x5
  BY <1>1, <1>2 DEF L!Rotation
<1>5. PICK d : d = a \o b
  OBVIOUS
<1>6. /\ \E U : d \in Seq(U)
      /\ Len(d) = 3 /\ d[1] = x1 /\ d[2] = x2 /\ d[3] = x3
  <2>1. PICK S, T : a \in Seq(S) /\ b \in Seq(T)
    BY <1>4
  <2>2. /\ \E U : a \o b \in Seq(U)
        /\ Len(a \o b) = Len(a) + Len(b)
        /\ \A i \in 1..Len(a) : (a \o b)[i] = a[i]
        /\ \A i \in 1..Len(b) : (a \o b)[Len(a) + i] = b[i]
    BY ONLY <2>1, Join
  <2> QED
    BY <1>4, <1>5, <2>2
<1>7. PICK s : s = d \o c /\ s = L!WriteJSONLog(f, line)
  BY <1>1, <1>5 DEF L!WriteJSONLog
<1>8. /\ \E U : s \in Seq(U)
      /\ Len(s) = 5 /\ s[1] = x1 /\ s[2] = x2 /\ s[3] = x3 /\ s[4] = x4 /\ s[5] = x5
  <2>1. PICK S, T : d \in Seq(S) /\ c \in Seq(T)
    BY <1>4, <1>6
  <2>2. /\ \E U : d \o c \in Seq(U)
        /\ Len(d \o c) = Len(d) + Len(c)
        /\ \A i \in 1..Len(d) : (d \o c)[i] = d[i]
        /\ \A i \in 1..Len(c) : (d \o c)[Len(d) + i] = c[i]
    BY ONLY <2>1, Join
  <2> QED
    BY <1>4, <1>6, <1>7, <2>2
<1>9. \A p \in 1..5 : (JobLine(s[p]) <=> p = 4 /\ f = "job") /\ s[p][1] # "mark"
  BY <1>3, <1>8 DEF JobLine
<1>10. Linked(s)
  BY <1>3, <1>8, <1>9 DEF Linked, Guarded
<1>11. Says(s, line[1], line[2])
  BY <1>3, <1>8, <1>9 DEF Says
<1>12. Clean(s)
  <2>1. ~Guarded(s[1])
    BY <1>3, <1>8 DEF Guarded
  <2>2. Len(s) # Len(<<>>)
    <3>1. Len(<<>>) = 0
      OBVIOUS
    <3>2. Len(s) = 5
      BY <1>8, Zenon
    <3> QED
      BY ONLY <3>1, <3>2
  <2>3. s # <<>>
    BY <2>2, Zenon
  <2> QED
    BY <1>8, <1>9, <1>10, <2>1, <2>3 DEF Clean, Closed
<1> QED
  BY <1>7, <1>8, <1>9, <1>11, <1>12 DEF Pending

LEMMA JoinClean ==
    ASSUME NEW s, Clean(s), ~Pending(s), NEW t, Clean(t)
    PROVE  /\ Clean(s \o t) /\ (Pending(s \o t) <=> Pending(t))
           /\ \A j, result : Says(t, j, result) => Says(s \o t, j, result)
<1>1. \A j, result : Says(s, j, result)
  BY DEF Says, Pending
<1> QED
  BY <1>1, JoinClosed DEF Clean

\* What the writers and the worker begin with, and the mark of a job.
LEMMA Begins ==
    /\ Clean(L!RotateConfiguredLogs) /\ ~Pending(L!RotateConfiguredLogs)
    /\ \A failed \in BOOLEAN : \A n : Clean(L!AppendLog(failed, n)) /\ ~Pending(L!AppendLog(failed, n))
    /\ \A event : /\ Clean(L!AppendJobLog(event)) /\ Pending(L!AppendJobLog(event))
                  /\ Says(L!AppendJobLog(event), event[1], event[2])
    /\ \A result \in Msg \cup {L!Ok} : /\ Closed(<< <<"mark", result>> >>)
                                       /\ ~Pending(<< <<"mark", result>> >>)
<1>1. PICK a, b, c, d : /\ a = L!RotateLogWithLock("api") /\ b = L!RotateLogWithLock("detail")
                        /\ c = L!RotateLogWithLock("job") /\ d = << <<"cleanup">> >>
  OBVIOUS
<1>2. /\ Clean(a) /\ Clean(b) /\ Clean(c) /\ ~Pending(a) /\ ~Pending(b) /\ ~Pending(c)
  BY <1>1, RotateSteps DEF L!File
<1>3. Clean(d) /\ ~Pending(d)
  <2>1. PICK x : x = <<"cleanup">>
    OBVIOUS
  <2>2. x[1] = "cleanup" /\ d \in Seq({x}) /\ Len(d) = 1 /\ d[1] = x
    BY <1>1, <2>1
  <2>3. ~JobLine(x) /\ ~Guarded(x)
    BY <2>2 DEF JobLine, Guarded
  <2>4. Linked(d)
    <3>1. \A p \in 1..Len(d) : p = 1 /\ d[p] = x
      BY <2>2
    <3>2. \E S : d \in Seq(S)
      BY <2>2
    <3> QED
      BY ONLY <2>2, <2>3, <3>1, <3>2 DEF Linked
  <2>5. d # <<>> /\ ~Guarded(d[1])
    BY <2>2, <2>3
  <2>6. \A p \in 1..Len(d) : ~JobLine(d[p]) /\ d[p][1] # "mark"
    BY <2>2, <2>3
  <2> QED
    BY ONLY <2>4, <2>5, <2>6 DEF Clean, Closed, Pending
<1>4. PICK e : e = ((a \o b) \o c) \o d /\ e = L!RotateConfiguredLogs
  BY <1>1 DEF L!RotateConfiguredLogs
<1>5. Clean(e) /\ ~Pending(e)
  <2>1. Clean(a \o b) /\ ~Pending(a \o b)
    BY <1>2, JoinClean
  <2>2. Clean((a \o b) \o c) /\ ~Pending((a \o b) \o c)
    BY <1>2, <2>1, JoinClean
  <2> QED
    BY <1>3, <1>4, <2>2, JoinClean
<1>6. ASSUME NEW n, NEW failed \in BOOLEAN
      PROVE  Clean(L!AppendLog(failed, n)) /\ ~Pending(L!AppendLog(failed, n))
  <2>1. PICK v, w : v = L!WriteJSONLog("api", n) /\ w = L!WriteJSONLog("detail", n)
    OBVIOUS
  <2>2. Clean(v) /\ ~Pending(v) /\ Clean(w) /\ ~Pending(w)
    BY <2>1, WriteSteps DEF L!File
  <2>3. Clean(e \o v) /\ ~Pending(e \o v)
    BY <1>5, <2>2, JoinClean
  <2>4. Clean((e \o v) \o w) /\ ~Pending((e \o v) \o w)
    BY <2>2, <2>3, JoinClean
  <2>5. (e \o v) \o <<>> = e \o v
    <3>1. PICK S : e \o v \in Seq(S)
      BY <2>3 DEF Clean, Closed, Linked
    <3> QED
      BY <3>1
  <2>6. L!AppendLog(failed, n) = IF failed THEN (e \o v) \o w ELSE (e \o v) \o <<>>
    BY <1>4, <2>1 DEF L!AppendLog
  <2> QED
    BY <2>3, <2>4, <2>5, <2>6
<1>7. ASSUME NEW event
      PROVE  /\ Clean(L!AppendJobLog(event)) /\ Pending(L!AppendJobLog(event))
             /\ Says(L!AppendJobLog(event), event[1], event[2])
  <2>1. PICK v : v = L!WriteJSONLog("job", event)
    OBVIOUS
  <2>2. Clean(v) /\ Pending(v) /\ Says(v, event[1], event[2])
    BY <2>1, WriteSteps DEF L!File
  <2>3. L!AppendJobLog(event) = e \o v
    BY <1>4, <2>1 DEF L!AppendJobLog
  <2> QED
    BY <1>5, <2>2, <2>3, JoinClean
<1>8. ASSUME NEW result \in Msg \cup {L!Ok}
      PROVE  Closed(<< <<"mark", result>> >>) /\ ~Pending(<< <<"mark", result>> >>)
  <2>1. PICK x, s : x = <<"mark", result>> /\ s = <<x>>
    OBVIOUS
  <2>2. x[1] = "mark" /\ x[2] = result /\ s \in Seq({x}) /\ Len(s) = 1 /\ s[1] = x
    BY <2>1
  <2>3. ~JobLine(x) /\ ~Guarded(x)
    BY <2>2 DEF JobLine, Guarded
  <2>4. Linked(s)
    BY <2>2, <2>3 DEF Linked
  <2>6. s # <<>> /\ ~Guarded(s[1]) /\ \A p \in 1..Len(s) : ~JobLine(s[p])
    BY <2>2, <2>3
  <2>5. Closed(s) /\ ~Pending(s)
    BY ONLY <2>4, <2>6 DEF Closed, Pending
  <2> QED
    BY <2>1, <2>5
<1> QED
  BY <1>4, <1>5, <1>6, <1>7, <1>8

\* What is left when the first one or two steps are done.
Rest(todo, n) == SubSeq(todo, n + 1, Len(todo))

LEMMA Skip ==
    ASSUME NEW todo, Linked(todo), NEW n \in 1..2, n <= Len(todo),
           NEW rest, rest = Rest(todo, n)
    PROVE  /\ Linked(rest) /\ Len(rest) = Len(todo) - n
           /\ \A i \in 1..Len(rest) : i + n \in 1..Len(todo) /\ rest[i] = todo[i + n]
           /\ \A p \in 1..Len(rest) : rest[p][1] # "mark"
           /\ \A j, result : Says(todo, j, result) => Says(rest, j, result)
           /\ JobLine(todo[1]) => ~Pending(rest)
           /\ n = 1 /\ ~JobLine(todo[1]) => (Pending(rest) <=> Pending(todo))
           /\ n = 2 /\ todo[1][1] = "archive" =>
                 /\ todo[2][1] = "remove" /\ todo[2][2] = todo[1][2]
                 /\ Pending(rest) <=> Pending(todo)
<1>1. PICK S : todo \in Seq(S)
  BY DEF Linked
<1>2. /\ rest \in Seq(S) /\ Len(rest) = Len(todo) - n /\ Len(todo) \in Nat
      /\ \A i \in 1..Len(rest) : rest[i] = todo[(n + 1) + i - 1]
  BY <1>1 DEF Rest
<1>3. ASSUME NEW i \in 1..Len(rest)
      PROVE  i + n \in 1..Len(todo) /\ rest[i] = todo[i + n] /\ i + n > 1
  <2>1. (n + 1) + i - 1 = i + n /\ i + n \in 1..Len(todo) /\ i + n > 1
    BY <1>2
  <2> QED
    BY <1>2, <2>1
<1>4. ASSUME NEW p \in 1..Len(rest), p > 1
      PROVE  rest[p - 1] = todo[(p + n) - 1] /\ p - 1 \in 1..Len(rest)
  <2>1. p - 1 \in 1..Len(rest) /\ (p - 1) + n = (p + n) - 1
    <3>1. p \in Int /\ n \in Int /\ Len(rest) \in Int /\ p > 1 /\ p <= Len(rest)
      BY <1>2, <1>4
    <3> QED
      BY ONLY <3>1
  <2> QED
    BY <1>3, <2>1
<1>5. ASSUME NEW p \in 1..Len(rest), p + n < Len(todo)
      PROVE  p < Len(rest) /\ rest[p + 1] = todo[(p + n) + 1]
  <2>1. p + 1 \in 1..Len(rest) /\ (p + 1) + n = (p + n) + 1
    BY <1>2, <1>5
  <2> QED
    BY <1>2, <1>3, <1>5, <2>1
<1>6. ASSUME NEW p \in 1..Len(rest), NEW q \in 1..Len(rest), JobLine(rest[p]), JobLine(rest[q])
      PROVE  p = q
  <2>1. p + n = q + n
    BY <1>3, <1>6 DEF Linked
  <2> QED
    BY <1>2, <2>1
<1>7. ASSUME NEW p \in 1..Len(rest) PROVE rest[p][1] # "mark"
  <2>1. rest[p] = todo[p + n] /\ p + n \in 1..Len(todo) /\ Len(todo) # 1
    BY <1>2, <1>3
  <2> QED
    BY <2>1 DEF Linked
<1>8. ASSUME NEW p \in 1..Len(rest)
      PROVE  /\ Guarded(rest[p]) \/ rest[p][1] = "lock" => rest[p][2] \in L!File
             /\ Guarded(rest[p]) /\ p > 1 => /\ rest[p - 1][2] = rest[p][2]
                                             /\ rest[p - 1][1] \in {"lock", "archive", "remove", "append"}
             /\ rest[p][1] = "archive" => /\ p < Len(rest) /\ rest[p + 1][1] = "remove"
                                          /\ rest[p + 1][2] = rest[p][2]
             /\ rest[p][1] = "remove" /\ p > 1 => rest[p - 1][1] = "archive"
  <2>1. PICK q : q = p + n /\ q \in 1..Len(todo) /\ rest[p] = todo[q] /\ q > 1
    BY <1>3
  <2>2. /\ Guarded(todo[q]) \/ todo[q][1] = "lock" => todo[q][2] \in L!File
        /\ Guarded(todo[q]) => /\ todo[q - 1][2] = todo[q][2]
                               /\ todo[q - 1][1] \in {"lock", "archive", "remove", "append"}
        /\ todo[q][1] = "archive" => q < Len(todo) /\ todo[q + 1][1] = "remove" /\ todo[q + 1][2] = todo[q][2]
        /\ todo[q][1] = "remove" => todo[q - 1][1] = "archive"
    BY ONLY Linked(todo), <2>1 DEF Linked
  <2>3. p > 1 => rest[p - 1] = todo[q - 1]
    BY <1>4, <2>1
  <2>4. q < Len(todo) => p < Len(rest) /\ rest[p + 1] = todo[q + 1]
    BY <1>5, <2>1
  <2> QED
    BY ONLY <2>1, <2>2, <2>3, <2>4
<1>9. Linked(rest)
  <2>1. \E T : rest \in Seq(T)
    BY <1>2
  <2>2. \A p \in 1..Len(rest) : rest[p][1] = "mark" => Len(rest) = 1 /\ rest[p][2] \in Msg \cup {L!Ok}
    BY <1>7
  <2> QED
    BY ONLY <2>1, <2>2, <1>6, <1>8 DEF Linked
<1>11. \A j, result : Says(todo, j, result) => Says(rest, j, result)
  BY ONLY <1>3 DEF Says
<1>12. ASSUME NEW p \in 1..Len(todo), JobLine(todo[p]), p > n PROVE Pending(rest)
  <2>1. p - n \in 1..Len(rest) /\ (p - n) + n = p
    BY <1>2, <1>12
  <2> QED
    BY <1>3, <1>12, <2>1 DEF Pending
<1>13. Pending(rest) => Pending(todo)
  BY <1>3 DEF Pending
<1>14. JobLine(todo[1]) => ~Pending(rest)
  <2>1. 1 \in 1..Len(todo)
    BY <1>2
  <2>2. ASSUME JobLine(todo[1]), NEW p \in 1..Len(rest), JobLine(rest[p]) PROVE FALSE
    <3>1. PICK q : q \in 1..Len(todo) /\ JobLine(todo[q]) /\ q > 1
      BY <1>3, <2>2
    <3>2. q = 1
      BY ONLY Linked(todo), <2>1, <2>2, <3>1 DEF Linked
    <3> QED
      BY ONLY <3>1, <3>2
  <2> QED
    BY <2>2 DEF Pending
<1>15. ASSUME n = 1, ~JobLine(todo[1]) PROVE Pending(rest) <=> Pending(todo)
  <2>1. ASSUME NEW p \in 1..Len(todo), JobLine(todo[p]) PROVE p > n
    BY <1>2, <1>15, <2>1
  <2> QED
    BY <1>12, <1>13, <2>1 DEF Pending
<1>16. ASSUME n = 2, todo[1][1] = "archive"
       PROVE  /\ todo[2][1] = "remove" /\ todo[2][2] = todo[1][2]
              /\ Pending(rest) <=> Pending(todo)
  <2>1. 1 \in 1..Len(todo) /\ 1 + 1 = 2
    BY <1>2
  <2>2. todo[2][1] = "remove" /\ todo[2][2] = todo[1][2]
    BY <1>16, <2>1 DEF Linked
  <2>3. ASSUME NEW p \in 1..Len(todo), JobLine(todo[p]) PROVE p > n
    <3>1. todo[p][1] = "append"
      BY <2>3 DEF JobLine
    <3>2. p # 1 /\ p # 2
      BY <1>16, <2>2, <3>1
    <3> QED
      BY <1>2, <1>16, <3>2
  <2> QED
    BY <1>12, <1>13, <2>2, <2>3 DEF Pending
<1> QED
  BY <1>2, <1>3, <1>7, <1>9, <1>11, <1>14, <1>15, <1>16

LEMMA SkipHead ==
    ASSUME NEW todo, Linked(todo), NEW n \in 1..2, n <= Len(todo),
           NEW rest, rest = Rest(todo, n), rest # <<>>
    PROVE  /\ Guarded(rest[1]) => /\ rest[1][2] = todo[n][2]
                                  /\ todo[n][1] \in {"lock", "archive", "remove", "append"}
           /\ rest[1][1] = "remove" => todo[n][1] = "archive"
<1>1. PICK S : todo \in Seq(S)
  BY DEF Linked
<1>2. /\ 1 \in 1..Len(rest) /\ rest[1] = todo[(n + 1) + 1 - 1]
      /\ n + 1 \in 1..Len(todo) /\ n + 1 > 1 /\ (n + 1) + 1 - 1 = n + 1 /\ (n + 1) - 1 = n
  BY <1>1 DEF Rest
<1> QED
  BY <1>2 DEF Linked

-----------------------------------------------------------------------------
(* Goroutines and mutexes                                                   *)

Ran(n) ==
    /\ DOMAIN n = {"job", "todo"} /\ n.job \in Job \cup {NoOne}
    /\ Linked(n.todo) /\ (n.todo = <<>> => n.job = NoOne)

\* A goroutine that is about to do something to a log has its mutex, and no job is worked for by two.
Shape ==
    /\ DOMAIN run = Routine /\ \A r \in Routine : Ran(run[r])
    /\ \A r, q \in Routine : run[r].job \in Job /\ run[q].job = run[r].job => r = q
    /\ DOMAIN mu = L!File
    /\ \A r \in Routine : run[r].todo # <<>> /\ Guarded(run[r].todo[1]) => mu[run[r].todo[1][2]] = r

\* The others go on as they were.
LEMMA OneMoves ==
    ASSUME LogConstants, Shape, NEW r \in Routine, NEW n, run' = [run EXCEPT ![r] = n], Ran(n),
           n.job \in Job => \A q \in Routine \ {r} : run[q].job # n.job,
           DOMAIN mu' = L!File,
           \A f \in L!File : mu'[f] = mu[f] \/ mu[f] \in {r, NoOne},
           n.todo # <<>> /\ Guarded(n.todo[1]) => mu'[n.todo[1][2]] = r
    PROVE  Shape' /\ run'[r] = n /\ \A q \in Routine \ {r} : run'[q] = run[q]
<1>1. DOMAIN run' = Routine /\ run'[r] = n /\ \A q \in Routine \ {r} : run'[q] = run[q]
  BY DEF Shape
<1>2. ASSUME NEW q \in Routine \ {r}, run[q].todo # <<>>, Guarded(run[q].todo[1])
      PROVE  mu'[run[q].todo[1][2]] = q
  <2>1. PICK f : f = run[q].todo[1][2] /\ mu[f] = q
    BY <1>2 DEF Shape
  <2>2. f \in L!File
    <3>1. Linked(run[q].todo)
      BY DEF Shape, Ran
    <3>2. 1 \in 1..Len(run[q].todo)
      <4>1. PICK S : run[q].todo \in Seq(S)
        BY <3>1 DEF Linked
      <4> QED
        BY <1>2, <4>1
    <3> QED
      BY <1>2, <2>1, <3>1, <3>2 DEF Linked
  <2> QED
    BY <2>1, <2>2 DEF LogConstants
<1>3. \A q \in Routine : Ran(run'[q])
  BY <1>1 DEF Shape
<1>4. \A p, q \in Routine : run'[p].job \in Job /\ run'[q].job = run'[p].job => p = q
  BY <1>1 DEF Shape
<1>5. \A q \in Routine : run'[q].todo # <<>> /\ Guarded(run'[q].todo[1]) => mu'[run'[q].todo[1][2]] = q
  BY <1>1, <1>2
<1> QED
  BY <1>1, <1>3, <1>4, <1>5 DEF Shape

LEMMA NoTaskFacts ==
    DOMAIN L!NoTask = {"job", "todo"} /\ L!NoTask.job = NoOne /\ L!NoTask.todo = <<>> /\ Linked(L!NoTask.todo)
<1>1. DOMAIN L!NoTask = {"job", "todo"} /\ L!NoTask.job = NoOne /\ L!NoTask.todo = <<>>
  BY DEF L!NoTask
<1>2. Linked(<<>>)
  <2>1. <<>> \in Seq({}) /\ Len(<<>>) = 0
    OBVIOUS
  <2> QED
    BY <2>1 DEF Linked
<1> QED
  BY <1>1, <1>2

\* A goroutine has done its first step, or the copy and the removal.
LEMMA SkipMoves ==
    ASSUME LogConstants, Shape, NEW r \in Routine, NEW n \in 1..2, L!SkipSteps(r, n),
           run[r].todo # <<>>, n = 2 => run[r].todo[1][1] = "archive",
           DOMAIN mu' = L!File,
           \A f \in L!File : mu'[f] = mu[f] \/ mu[f] \in {r, NoOne},
           n = 1 /\ run[r].todo[1][1] \in {"lock", "archive", "remove", "append"} =>
              mu'[run[r].todo[1][2]] = r,
           n = 2 => mu' = mu,
           NEW rest, rest = Rest(run[r].todo, n)
    PROVE  /\ Shape' /\ run'[r].todo = rest
           /\ run'[r].job = (IF rest = <<>> THEN NoOne ELSE run[r].job)
           /\ \A q \in Routine \ {r} : run'[q] = run[q]
           /\ n <= Len(run[r].todo)
<1>1. PICK todo : todo = run[r].todo
  OBVIOUS
<1>2. Linked(todo) /\ DOMAIN run[r] = {"job", "todo"} /\ run[r].job \in Job \cup {NoOne}
  BY <1>1 DEF Shape, Ran
<1>3. PICK S : todo \in Seq(S)
  BY <1>2 DEF Linked
<1>4. 1 \in 1..Len(todo) /\ n <= Len(todo)
  <2>1. 1 \in 1..Len(todo) /\ Len(todo) \in Nat
    BY <1>1, <1>3
  <2>2. n = 2 => 1 < Len(todo)
    BY <1>1, <1>2, <2>1 DEF Linked
  <2> QED
    BY <2>1, <2>2
<1>5. /\ Linked(rest)
      /\ rest # <<>> /\ Guarded(rest[1]) =>
            rest[1][2] = todo[n][2] /\ todo[n][1] \in {"lock", "archive", "remove", "append"}
      /\ n = 2 /\ todo[1][1] = "archive" => todo[2][1] = "remove" /\ todo[2][2] = todo[1][2]
  <2>1. rest = Rest(todo, n)
    BY <1>1
  <2>2. Linked(todo) /\ n \in 1..2 /\ n <= Len(todo)
    BY <1>2, <1>4
  <2>3. Linked(rest)
    BY ONLY <2>1, <2>2, Skip
  <2>4. ASSUME rest # <<>>, Guarded(rest[1])
        PROVE  rest[1][2] = todo[n][2] /\ todo[n][1] \in {"lock", "archive", "remove", "append"}
    BY ONLY <2>1, <2>2, <2>4, SkipHead
  <2>5. n = 2 /\ todo[1][1] = "archive" => todo[2][1] = "remove" /\ todo[2][2] = todo[1][2]
    BY ONLY <2>1, <2>2, Skip
  <2> QED
    BY <2>3, <2>4, <2>5
<1>6. PICK new : /\ run' = [run EXCEPT ![r] = new]
                 /\ new = IF rest = <<>> THEN L!NoTask ELSE [run[r] EXCEPT !.todo = rest]
  BY <1>1 DEF L!SkipSteps, Rest
<1>7. /\ new.todo = rest /\ new.job = (IF rest = <<>> THEN NoOne ELSE run[r].job)
      /\ DOMAIN new = {"job", "todo"}
  BY <1>2, <1>6, NoTaskFacts
<1>8. Ran(new)
  BY <1>2, <1>5, <1>7 DEF Ran
<1>9. ASSUME rest # <<>>, Guarded(rest[1]) PROVE mu'[rest[1][2]] = r
  <2>1. CASE n = 1
    BY <1>1, <1>5, <1>9, <2>1
  <2>2. CASE n = 2
    <3>1. Guarded(todo[1]) /\ mu' = mu /\ rest[1][2] = todo[1][2]
      BY <1>1, <1>5, <1>9, <2>2 DEF Guarded
    <3> QED
      BY <1>1, <3>1 DEF Shape
  <2>3. n = 1 \/ n = 2
    OBVIOUS
  <2> QED
    BY <2>1, <2>2, <2>3
<1>10. new.job \in Job => \A q \in Routine \ {r} : run[q].job # new.job
  BY <1>7 DEF Shape, LogConstants
<1>11. Shape' /\ run'[r] = new /\ \A q \in Routine \ {r} : run'[q] = run[q]
  <2>1. new.todo # <<>> /\ Guarded(new.todo[1]) => mu'[new.todo[1][2]] = r
    BY <1>7, <1>9
  <2>2. run' = [run EXCEPT ![r] = new]
    BY <1>6
  <2> QED
    BY <1>8, <1>10, <2>1, <2>2, OneMoves
<1> QED
  BY <1>1, <1>4, <1>7, <1>11

-----------------------------------------------------------------------------
(* Lines and archives                                                       *)

\* A line that can be read in an archive, or is behind a copy that was cut off.
In(a, x) == x \in a.lines \/ (x \in a.behind /\ a.torn)

\* A line within the retention is in a log or an archive of its day or a later one; what is
\* about to be removed has been copied.
Kept ==
    /\ day \in L!Day
    /\ DOMAIN log = L!File /\ DOMAIN archive = L!File /\ DOMAIN written = L!File
    /\ \A f \in L!File : /\ DOMAIN log[f] = {"lines", "mod"} /\ log[f].mod \in L!Day /\ log[f].mod <= day
                         /\ DOMAIN archive[f] = L!Day
                         /\ \A d \in L!Day : DOMAIN archive[f][d] = {"lines", "behind", "torn"}
    /\ \A f \in L!File : \A l \in written[f] :
          /\ l[2] \in L!Day
          /\ l[2] >= day - Retention =>
                \/ l[1] \in log[f].lines /\ l[2] <= log[f].mod
                \/ \E d \in L!Day : l[2] <= d /\ In(archive[f][d], l[1])
    /\ \A r \in Routine : run[r].todo # <<>> /\ run[r].todo[1][1] = "remove" =>
          \A x \in log[run[r].todo[1][2]].lines :
             \/ In(archive[run[r].todo[1][2]][log[run[r].todo[1][2]].mod], x)
             \/ log[run[r].todo[1][2]].mod < day - Retention

LEMMA DayInt == ASSUME LogConstants PROVE \A d \in L!Day : d \in Int
  BY DEF LogConstants, L!Day

\* Nothing is written and no log removed; archives lose only what has expired.
LEMMA KeptStays ==
    ASSUME LogConstants, Shape, Kept, Shape', day' \in L!Day, day <= day', log' = log, written' = written,
           DOMAIN archive' = L!File,
           \A f \in L!File : /\ DOMAIN archive'[f] = L!Day
                             /\ \A d \in L!Day : DOMAIN archive'[f][d] = {"lines", "behind", "torn"},
           \A f \in L!File, d \in L!Day : \/ d < day' - Retention
                                          \/ \A x : In(archive[f][d], x) => In(archive'[f][d], x),
           \A r \in Routine : run'[r].todo # <<>> /\ run'[r].todo[1][1] = "remove" =>
              \/ run'[r] = run[r]
              \/ \A x \in log[run'[r].todo[1][2]].lines :
                    In(archive'[run'[r].todo[1][2]][log[run'[r].todo[1][2]].mod], x)
    PROVE  Kept'
<1>1. /\ Retention \in Int /\ day \in Int /\ day' \in Int /\ \A d \in L!Day : d \in Int
  <2>1. \A d \in L!Day : d \in Int
    BY DayInt
  <2>2. day \in L!Day
    BY ONLY Kept DEF Kept
  <2>3. Retention \in Int
    BY ONLY LogConstants DEF LogConstants
  <2> QED
    BY <2>1, <2>2, <2>3
<1>2. ASSUME NEW f \in L!File PROVE log[f].mod \in L!Day /\ log[f].mod <= day'
  <2>1. log[f].mod \in L!Day /\ log[f].mod <= day
    BY ONLY Kept, <1>2 DEF Kept
  <2>2. PICK m, t : m = log[f].mod /\ m \in Int /\ m <= day /\ t = day' /\ t \in Int /\ day <= t
    BY <1>1, <2>1
  <2>3. m <= t
    BY ONLY <1>1, <2>2
  <2> QED
    BY <2>1, <2>2, <2>3
<1>3. ASSUME NEW f \in L!File, NEW l \in written[f], l[2] >= day' - Retention
      PROVE  \/ l[1] \in log[f].lines /\ l[2] <= log[f].mod
             \/ \E d \in L!Day : l[2] <= d /\ In(archive'[f][d], l[1])
  <2>1. l[2] \in Int /\ l[2] >= day - Retention
    <3>1. l[2] \in L!Day
      BY ONLY Kept, <1>3 DEF Kept
    <3>2. PICK k, t : k = l[2] /\ k \in Int /\ t = day' /\ t \in Int /\ k >= t - Retention /\ day <= t
      BY <1>1, <1>3, <3>1
    <3>3. k >= day - Retention
      BY ONLY <1>1, <3>2
    <3> QED
      BY <3>2, <3>3
  <2>2. CASE l[1] \in log[f].lines /\ l[2] <= log[f].mod
    BY <2>2
  <2>3. ASSUME NEW d \in L!Day, l[2] <= d, In(archive[f][d], l[1])
        PROVE  In(archive'[f][d], l[1])
    <3>1. ~(d < day' - Retention)
      <4>1. PICK k, t : k = l[2] /\ t = day'
        OBVIOUS
      <4>2. k \in Int /\ t \in Int /\ d \in Int /\ Retention \in Int /\ k >= t - Retention /\ k <= d
        BY <1>1, <1>3, <2>1, <2>3, <4>1
      <4>3. ~(d < t - Retention)
        BY ONLY <4>2
      <4> QED
        BY <4>1, <4>3
    <3> QED
      BY <2>3, <3>1
  <2> QED
    BY <2>1, <2>2, <2>3 DEF Kept
<1>4. ASSUME NEW r \in Routine, run'[r].todo # <<>>, run'[r].todo[1][1] = "remove",
             NEW f, f = run'[r].todo[1][2], NEW x \in log[f].lines
      PROVE  In(archive'[f][log[f].mod], x) \/ log[f].mod < day' - Retention
  <2>1. CASE run'[r] = run[r]
    <3>1. In(archive[f][log[f].mod], x) \/ log[f].mod < day - Retention
      BY <1>4, <2>1 DEF Kept
    <3>2. f \in L!File
      <4>1. Linked(run'[r].todo)
        BY DEF Shape, Ran
      <4>2. PICK todo : todo = run'[r].todo /\ todo # <<>> /\ Linked(todo) /\ todo[1][1] = "remove" /\ f = todo[1][2]
        BY <1>4, <4>1
      <4>3. PICK S : todo \in Seq(S)
        BY ONLY <4>2 DEF Linked
      <4>4. 1 \in 1..Len(todo)
        BY ONLY <4>2, <4>3
      <4> QED
        BY ONLY <4>2, <4>4 DEF Linked, Guarded
    <3>3. PICK m : m = log[f].mod /\ m \in L!Day /\ m \in Int
      BY <1>1, <1>2, <3>2
    <3>4. m < day - Retention => m < day' - Retention
      <4>1. PICK t : t = day' /\ t \in Int /\ day <= t
        BY <1>1
      <4>2. m < day - Retention => m < t - Retention
        BY ONLY <1>1, <3>3, <4>1
      <4> QED
        BY <4>1, <4>2
    <3> QED
      BY <3>1, <3>2, <3>3, <3>4
  <2> QED
    BY <1>4, <2>1
<1>5. \A f \in L!File : \A l \in written[f] : l[2] \in L!Day
  BY DEF Kept
<1>6. \A f \in L!File : DOMAIN log[f] = {"lines", "mod"}
  BY DEF Kept
<1> QED
  BY <1>2, <1>3, <1>4, <1>5, <1>6 DEF Kept

LEMMA AppendedIn ==
    ASSUME NEW a, DOMAIN a = {"lines", "behind", "torn"}, NEW lines, NEW b, b = L!Appended(a, lines)
    PROVE  /\ DOMAIN b = {"lines", "behind", "torn"}
           /\ \A x : In(a, x) \/ x \in lines => In(b, x)
<1>1. CASE a.torn
  <2>1. b = [a EXCEPT !.behind = a.behind \cup lines]
    BY <1>1 DEF L!Appended
  <2>2. /\ DOMAIN b = {"lines", "behind", "torn"} /\ b.lines = a.lines /\ b.torn = a.torn
        /\ b.behind = a.behind \cup lines
    BY <2>1
  <2> QED
    BY <1>1, <2>2 DEF In
<1>2. CASE ~a.torn
  <2>1. b = [a EXCEPT !.lines = a.lines \cup lines]
    BY <1>2 DEF L!Appended
  <2>2. /\ DOMAIN b = {"lines", "behind", "torn"} /\ b.behind = a.behind /\ b.torn = a.torn
        /\ b.lines = a.lines \cup lines
    BY <2>1
  <2> QED
    BY <1>2, <2>2 DEF In
<1> QED
  BY <1>1, <1>2

-----------------------------------------------------------------------------
(* Transitions                                                              *)

LastOf(e) == IF e = <<>> THEN L!Ok ELSE e[Len(e)]

\* The state of a job differs from its last line exactly while somebody is about to write it.
Told ==
    /\ DOMAIN jobStates = Job /\ \A j \in Job : jobStates[j] \in Msg \cup {L!Ok}
    /\ DOMAIN events = Job /\ \A j \in Job : events[j] \in Seq(Msg \cup {L!Ok})
    /\ \A r \in Routine : run[r].job = NoOne =>
          ~Pending(run[r].todo) /\ \A p \in 1..Len(run[r].todo) : run[r].todo[p][1] # "mark"
    /\ \A r \in Routine : run[r].job \in Job => Says(run[r].todo, run[r].job, jobStates[run[r].job])
    /\ "job" \notin missed => \A j \in Job :
          /\ \A i \in 1..Len(events[j]) : events[j][i] # (IF i = 1 THEN L!Ok ELSE events[j][i - 1])
          /\ jobStates[j] # LastOf(events[j]) <=> \E r \in Routine : run[r].job = j /\ Pending(run[r].todo)

\* Nobody marks a job or writes to the job log.
LEMMA ToldStays ==
    ASSUME Told, NEW r \in Routine, \A q \in Routine \ {r} : run'[q] = run[q],
           jobStates' = jobStates, events' = events, missed \subseteq missed',
           run'[r].job = NoOne =>
              ~Pending(run'[r].todo) /\ \A p \in 1..Len(run'[r].todo) : run'[r].todo[p][1] # "mark",
           run'[r].job \in Job => Says(run'[r].todo, run'[r].job, jobStates[run'[r].job]),
           \/ "job" \in missed'
           \/ \A j \in Job : (run'[r].job = j /\ Pending(run'[r].todo)) <=> (run[r].job = j /\ Pending(run[r].todo))
    PROVE  Told'
<1>1. ASSUME "job" \notin missed', NEW j \in Job
      PROVE  (\E q \in Routine : run'[q].job = j /\ Pending(run'[q].todo)) <=>
             (\E q \in Routine : run[q].job = j /\ Pending(run[q].todo))
  BY <1>1
<1>2. \A q \in Routine : run'[q].job = NoOne =>
         ~Pending(run'[q].todo) /\ \A p \in 1..Len(run'[q].todo) : run'[q].todo[p][1] # "mark"
  BY DEF Told
<1>3. \A q \in Routine : run'[q].job \in Job => Says(run'[q].todo, run'[q].job, jobStates'[run'[q].job])
  BY DEF Told
<1> QED
  BY <1>1, <1>2, <1>3 DEF Told

LEMMA NoPlace == 1..Len(<<>>) = {}
<1>1. Len(<<>>) = 0 /\ 1..0 = {}
  OBVIOUS
<1> QED
  BY <1>1

LEMMA NothingPending == ~Pending(<<>>)
  BY NoPlace DEF Pending

\* Steps that are neither a mark nor a line for the job log, or such a line that is missed.
LEMMA SkipTold ==
    ASSUME LogConstants, Shape, Told, NEW r \in Routine, NEW n \in 1..2,
           run[r].todo # <<>>, n <= Len(run[r].todo), n = 2 => run[r].todo[1][1] = "archive",
           JobLine(run[r].todo[1]) => "job" \in missed',
           NEW rest, rest = Rest(run[r].todo, n),
           run'[r].todo = rest, run'[r].job = (IF rest = <<>> THEN NoOne ELSE run[r].job),
           \A q \in Routine \ {r} : run'[q] = run[q],
           jobStates' = jobStates, events' = events, missed \subseteq missed'
    PROVE  Told'
<1>1. PICK todo : todo = run[r].todo
  OBVIOUS
<1>2. Linked(todo) /\ run[r].job \in Job \cup {NoOne}
  BY <1>1 DEF Shape, Ran
<1>3. rest = Rest(todo, n) /\ n <= Len(todo)
  BY <1>1
<1>4. \A i \in 1..Len(rest) : i + n \in 1..Len(todo) /\ rest[i] = todo[i + n]
  BY ONLY <1>2, <1>3, n \in 1..2, Skip
<1>5. /\ \A j, result : Says(todo, j, result) => Says(rest, j, result)
      /\ Pending(rest) => Pending(todo)
  BY ONLY <1>4 DEF Says, Pending
<1>6. ASSUME NEW p \in 1..Len(rest), \A i \in 1..Len(todo) : todo[i][1] # "mark"
      PROVE  rest[p][1] # "mark"
  BY ONLY <1>4, <1>6
<1>7. ~JobLine(todo[1]) => (Pending(rest) <=> Pending(todo))
  <2>1. CASE n = 1
    <3>1. n = 1 /\ ~JobLine(todo[1]) => (Pending(rest) <=> Pending(todo))
      BY ONLY <1>2, <1>3, n \in 1..2, Skip
    <3> QED
      BY <2>1, <3>1
  <2>2. CASE n = 2
    <3>1. n = 2 /\ todo[1][1] = "archive" => (Pending(rest) <=> Pending(todo))
      BY ONLY <1>2, <1>3, n \in 1..2, Skip
    <3> QED
      BY <1>1, <2>2, <3>1
  <2>3. n = 1 \/ n = 2
    OBVIOUS
  <2> QED
    BY <2>1, <2>2, <2>3
<1>8. rest = <<>> => ~Pending(rest)
  BY NothingPending
<1>9. run'[r].job = NoOne =>
         ~Pending(run'[r].todo) /\ \A p \in 1..Len(run'[r].todo) : run'[r].todo[p][1] # "mark"
  <2>1. CASE rest = <<>>
    <3>1. Len(rest) = 0
      BY ONLY <2>1
    <3> QED
      BY <1>8, <2>1, <3>1
  <2>2. CASE rest # <<>>
    <3>1. run[r].job = NoOne => ~Pending(todo) /\ \A i \in 1..Len(todo) : todo[i][1] # "mark"
      BY <1>1 DEF Told
    <3> QED
      BY <1>5, <1>6, <2>2, <3>1
  <2> QED
    BY <2>1, <2>2
<1>10. run'[r].job \in Job => Says(run'[r].todo, run'[r].job, jobStates[run'[r].job])
  BY <1>1, <1>5 DEF Told, LogConstants
<1>11. \/ "job" \in missed'
       \/ \A j \in Job : (run'[r].job = j /\ Pending(run'[r].todo)) <=> (run[r].job = j /\ Pending(run[r].todo))
  BY <1>1, <1>7, <1>8
<1> QED
  BY <1>9, <1>10, <1>11, ToldStays

-----------------------------------------------------------------------------
(* The steps                                                                *)

LogInv == Shape /\ Kept /\ Told

\* Logs, archives and what was written stay, and so does what a goroutine is about to remove.
LEMMA NothingKept ==
    ASSUME LogConstants, Shape, Kept, Shape', day' = day, log' = log, archive' = archive, written' = written,
           \A q \in Routine : run'[q].todo # <<>> /\ run'[q].todo[1][1] = "remove" => run'[q] = run[q]
    PROVE  Kept'
<1>1. day \in L!Day /\ DOMAIN archive = L!File /\ day <= day
  <2>1. day \in L!Day /\ DOMAIN archive = L!File
    BY ONLY Kept DEF Kept
  <2> QED
    BY ONLY LogConstants, <2>1, DayInt
<1>2. \A f \in L!File : /\ DOMAIN archive[f] = L!Day
                        /\ \A d \in L!Day : DOMAIN archive[f][d] = {"lines", "behind", "torn"}
  BY DEF Kept
<1> QED
  BY <1>1, <1>2, KeptStays

LEMMA BeginInv ==
    ASSUME LogConstants, LogInv, NEW r \in Routine, NEW job \in Job \cup {NoOne}, NEW todo, L!Begin(r, job, todo),
           Closed(todo), ~Pending(todo), job = NoOne => Clean(todo)
    PROVE  LogInv'
<1>1. PICK n : n = [job |-> job, todo |-> todo]
  OBVIOUS
<1>2. DOMAIN n = {"job", "todo"} /\ n.job = job /\ n.todo = todo
  BY <1>1
<1>3. /\ run' = [run EXCEPT ![r] = n] /\ mu' = mu /\ run[r] = L!NoTask
      /\ job # NoOne => \A q \in Routine : run[q].job # job
  BY <1>1 DEF L!Begin
<1>4. Ran(n)
  BY <1>2 DEF Ran, Closed
<1>5. todo # <<>> /\ ~Guarded(todo[1]) /\ todo[1][1] # "remove"
  BY DEF Closed, Guarded
<1>6. Shape' /\ run'[r] = n /\ \A q \in Routine \ {r} : run'[q] = run[q]
  <2>1. n.job \in Job => \A q \in Routine \ {r} : run[q].job # n.job
    BY <1>2, <1>3 DEF LogConstants
  <2>2. DOMAIN mu' = L!File /\ Shape
    BY <1>3 DEF LogInv, Shape
  <2>3. n.todo # <<>> /\ Guarded(n.todo[1]) => mu'[n.todo[1][2]] = r
    BY <1>2, <1>5
  <2>4. \A f \in L!File : mu'[f] = mu[f]
    BY <1>3
  <2> QED
    BY <1>3, <1>4, <2>1, <2>2, <2>3, <2>4, OneMoves
<1>7. Kept'
  <2>1. day' = day /\ log' = log /\ archive' = archive /\ written' = written
    BY DEF L!Begin
  <2> QED
    BY <1>2, <1>5, <1>6, <2>1, NothingKept DEF LogInv
<1>8. Told'
  <2>1. jobStates' = jobStates /\ events' = events /\ missed' = missed
    BY DEF L!Begin
  <2>2. run'[r].job = NoOne =>
           ~Pending(run'[r].todo) /\ \A p \in 1..Len(run'[r].todo) : run'[r].todo[p][1] # "mark"
    BY <1>2, <1>6 DEF Clean
  <2>3. run'[r].job \in Job => Says(run'[r].todo, run'[r].job, jobStates[run'[r].job])
    BY <1>2, <1>6 DEF Says, Pending
  <2>4. ~Pending(run[r].todo) /\ ~Pending(run'[r].todo)
    BY <1>2, <1>3, <1>6, NothingPending, NoTaskFacts
  <2> QED
    BY <1>6, <2>1, <2>2, <2>3, <2>4, ToldStays DEF LogInv
<1> QED
  BY <1>6, <1>7, <1>8 DEF LogInv

LEMMA BeginsInv ==
    ASSUME LogConstants, LogInv, NEW r \in Routine, L!GinRequestLogger(r) \/ L!RotationWorker(r) \/ L!JobEnds(r)
    PROVE  LogInv'
<1>1. CASE L!GinRequestLogger(r)
  <2>1. PICK failed \in BOOLEAN : L!Begin(r, NoOne, L!AppendLog(failed, <<"request", tasks>>))
    BY <1>1 DEF L!GinRequestLogger
  <2>2. PICK todo : todo = L!AppendLog(failed, <<"request", tasks>>)
    OBVIOUS
  <2>3. Clean(todo) /\ ~Pending(todo)
    BY <2>2, Begins
  <2> QED
    BY <2>1, <2>2, <2>3, BeginInv DEF Clean
<1>2. CASE L!RotationWorker(r)
  <2>1. PICK todo : todo = L!RotateConfiguredLogs
    OBVIOUS
  <2>2. Clean(todo) /\ ~Pending(todo)
    BY <2>1, Begins
  <2> QED
    BY <1>2, <2>1, <2>2, BeginInv DEF Clean, L!RotationWorker
<1>3. CASE L!JobEnds(r)
  <2>1. PICK j \in Job, result \in Msg \cup {L!Ok} : L!Begin(r, j, << <<"mark", result>> >>)
    BY <1>3 DEF L!JobEnds
  <2>2. PICK todo : todo = << <<"mark", result>> >>
    OBVIOUS
  <2>3. Closed(todo) /\ ~Pending(todo) /\ j # NoOne
    BY <2>2, Begins DEF LogConstants
  <2> QED
    BY <2>1, <2>2, <2>3, BeginInv
<1> QED
  BY <1>1, <1>2, <1>3

LEMMA RecordInv ==
    ASSUME LogConstants, LogInv, NEW r \in Routine, L!RecordJobResult(r)
    PROVE  LogInv'
<1>1. PICK todo, j, result : todo = run[r].todo /\ j = run[r].job /\ result = todo[1][2]
  OBVIOUS
<1>2. PICK S : todo \in Seq(S)
  BY <1>1 DEF LogInv, Shape, Ran, Linked
<1>3. todo # <<>> /\ todo[1][1] = "mark"
  BY <1>1 DEF L!RecordJobResult, L!Does
<1>4. Linked(todo) /\ DOMAIN run[r] = {"job", "todo"} /\ j \in Job \cup {NoOne} /\ 1 \in 1..Len(todo)
  BY <1>1, <1>2, <1>3 DEF LogInv, Shape, Ran
<1>5. Len(todo) = 1 /\ result \in Msg \cup {L!Ok} /\ ~Pending(todo)
  <2>1. Len(todo) = 1 /\ result \in Msg \cup {L!Ok}
    BY <1>1, <1>3, <1>4 DEF Linked
  <2> QED
    BY <1>3, <2>1 DEF Pending, JobLine
<1>6. j \in Job
  BY <1>1, <1>3, <1>4 DEF LogInv, Told
<1>7. PICK line, new : /\ line = <<j, result, tasks>>
                       /\ new = IF jobStates[j] # result THEN [run[r] EXCEPT !.todo = L!AppendJobLog(line)] ELSE L!NoTask
  OBVIOUS
<1>8. line[1] = j /\ line[2] = result
  BY <1>7
<1>9. /\ jobStates' = [jobStates EXCEPT ![j] = result] /\ run' = [run EXCEPT ![r] = new]
      /\ day' = day /\ log' = log /\ archive' = archive /\ mu' = mu /\ written' = written
      /\ events' = events /\ missed' = missed
  BY <1>1, <1>7 DEF L!RecordJobResult, L!MarkChanged, L!Now
<1>10. PICK lines : lines = L!AppendJobLog(line)
  OBVIOUS
<1>11. Clean(lines) /\ Pending(lines) /\ Says(lines, j, result)
  BY <1>8, <1>10, Begins
<1>12. /\ DOMAIN new = {"job", "todo"}
       /\ IF jobStates[j] # result THEN new.job = j /\ new.todo = lines ELSE new.job = NoOne /\ new.todo = <<>>
  <2>1. CASE jobStates[j] # result
    <3>1. new = [run[r] EXCEPT !.todo = lines]
      BY <1>7, <1>10, <2>1
    <3> QED
      BY <1>1, <1>4, <2>1, <3>1
  <2>2. CASE jobStates[j] = result
    BY <1>7, <2>2, NoTaskFacts
  <2> QED
    BY <2>1, <2>2
<1>13. Ran(new) /\ (new.todo # <<>> => ~Guarded(new.todo[1]) /\ new.todo[1][1] # "remove")
  <2>1. CASE jobStates[j] # result
    BY <1>6, <1>11, <1>12, <2>1 DEF Ran, Clean, Closed, Guarded
  <2>2. CASE jobStates[j] = result
    BY <1>12, <2>2, NoTaskFacts DEF Ran
  <2> QED
    BY <2>1, <2>2
<1>14. \A q \in Routine \ {r} : run[q].job # j
  BY <1>1, <1>6 DEF LogInv, Shape
<1>15. Shape' /\ run'[r] = new /\ \A q \in Routine \ {r} : run'[q] = run[q]
  <2>1. new.job \in Job => \A q \in Routine \ {r} : run[q].job # new.job
    BY <1>12, <1>14 DEF LogConstants
  <2>2. DOMAIN mu' = L!File /\ Shape /\ \A f \in L!File : mu'[f] = mu[f]
    BY <1>9 DEF LogInv, Shape
  <2>3. new.todo # <<>> /\ Guarded(new.todo[1]) => mu'[new.todo[1][2]] = r
    BY <1>13
  <2> QED
    BY <1>9, <1>13, <2>1, <2>2, <2>3, OneMoves
<1>16. Kept'
  BY <1>9, <1>13, <1>15, NothingKept DEF LogInv
<1>17. Told'
  <2>1. /\ DOMAIN jobStates' = Job /\ jobStates'[j] = result /\ \A k \in Job \ {j} : jobStates'[k] = jobStates[k]
        /\ \A k \in Job : jobStates'[k] \in Msg \cup {L!Ok}
    BY <1>5, <1>6, <1>9 DEF LogInv, Told
  <2>2. \A q \in Routine : run'[q].job = NoOne =>
           ~Pending(run'[q].todo) /\ \A p \in 1..Len(run'[q].todo) : run'[q].todo[p][1] # "mark"
    <3>1. run'[r].job = NoOne => run'[r].todo = <<>>
      BY <1>6, <1>12, <1>15 DEF LogConstants
    <3>2. Len(<<>>) = 0 /\ ~Pending(<<>>)
      BY NothingPending
    <3>3. run'[r].job = NoOne =>
             ~Pending(run'[r].todo) /\ \A p \in 1..Len(run'[r].todo) : run'[r].todo[p][1] # "mark"
      BY <3>1, <3>2
    <3> QED
      BY <1>15, <3>3 DEF LogInv, Told
  <2>3. ASSUME NEW q \in Routine, run'[q].job \in Job
        PROVE  Says(run'[q].todo, run'[q].job, jobStates'[run'[q].job])
    <3>1. CASE q = r
      BY <1>11, <1>12, <1>15, <2>1, <2>3, <3>1 DEF LogConstants
    <3>2. CASE q # r
      BY <1>14, <1>15, <2>1, <2>3, <3>2 DEF LogInv, Told
    <3> QED
      BY <3>1, <3>2
  <2>4. ASSUME "job" \notin missed, NEW k \in Job
        PROVE  /\ \A i \in 1..Len(events[k]) : events[k][i] # (IF i = 1 THEN L!Ok ELSE events[k][i - 1])
               /\ jobStates'[k] # LastOf(events[k]) <=> \E q \in Routine : run'[q].job = k /\ Pending(run'[q].todo)
    <3>1. /\ \A i \in 1..Len(events[k]) : events[k][i] # (IF i = 1 THEN L!Ok ELSE events[k][i - 1])
          /\ jobStates[k] # LastOf(events[k]) <=> \E q \in Routine : run[q].job = k /\ Pending(run[q].todo)
      BY <2>4 DEF LogInv, Told
    <3>2. CASE k = j
      <4>1. jobStates[j] = LastOf(events[j])
        BY <1>1, <1>5, <1>14, <3>1, <3>2
      <4>2. (\E q \in Routine : run'[q].job = j /\ Pending(run'[q].todo)) <=> jobStates[j] # result
        <5>1. CASE jobStates[j] # result
          BY <1>11, <1>12, <1>15, <5>1
        <5>2. CASE jobStates[j] = result
          BY <1>6, <1>12, <1>14, <1>15, <5>2 DEF LogConstants
        <5> QED
          BY <5>1, <5>2
      <4> QED
        BY <2>1, <3>1, <3>2, <4>1, <4>2
    <3>3. CASE k # j
      <4>1. (\E q \in Routine : run'[q].job = k /\ Pending(run'[q].todo)) <=>
            (\E q \in Routine : run[q].job = k /\ Pending(run[q].todo))
        <5>1. run[r].job # k /\ run'[r].job # k
          BY <1>1, <1>12, <1>15, <3>3 DEF LogConstants
        <5> QED
          BY <1>15, <5>1
      <4> QED
        BY <2>1, <3>1, <3>3, <4>1
    <3> QED
      BY <3>2, <3>3
  <2> QED
    BY <1>9, <2>1, <2>2, <2>3, <2>4 DEF LogInv, Told
<1> QED
  BY <1>15, <1>16, <1>17 DEF LogInv

LEMMA HeadIs ==
    ASSUME Shape, NEW r \in Routine, run[r].todo # <<>>
    PROVE  /\ L!Now(r) = run[r].todo[1] /\ Linked(run[r].todo) /\ 1 \in 1..Len(run[r].todo)
           /\ Guarded(L!Now(r)) => L!Now(r)[2] \in L!File /\ mu[L!Now(r)[2]] = r
           /\ L!Now(r)[1] = "lock" => L!Now(r)[2] \in L!File
<1>1. PICK todo : todo = run[r].todo
  OBVIOUS
<1>2. Linked(todo)
  BY <1>1 DEF Shape, Ran
<1>3. PICK S : todo \in Seq(S)
  BY <1>2 DEF Linked
<1>4. 1 \in 1..Len(todo) /\ Head(todo) = todo[1]
  BY <1>1, <1>3
<1>5. Guarded(todo[1]) \/ todo[1][1] = "lock" => todo[1][2] \in L!File
  BY <1>2, <1>4 DEF Linked
<1> QED
  BY <1>1, <1>2, <1>4, <1>5 DEF L!Now, Shape

\* A goroutine does its next steps; only a copy is followed by a removal.
LEMMA SkipShape ==
    ASSUME LogConstants, LogInv, NEW r \in Routine, NEW n \in 1..2, L!SkipSteps(r, n),
           run[r].todo # <<>>, n = 2 => L!Now(r)[1] = "archive",
           DOMAIN mu' = L!File,
           \A f \in L!File : mu'[f] = mu[f] \/ mu[f] \in {r, NoOne},
           n = 1 /\ L!Now(r)[1] \in {"lock", "archive", "remove", "append"} => mu'[L!Now(r)[2]] = r,
           n = 2 => mu' = mu
    PROVE  /\ Shape' /\ \A q \in Routine \ {r} : run'[q] = run[q]
           /\ run'[r].todo # <<>> /\ run'[r].todo[1][1] = "remove" =>
                 n = 1 /\ L!Now(r)[1] = "archive" /\ run'[r].todo[1][2] = L!Now(r)[2]
           /\ /\ jobStates' = jobStates /\ events' = events /\ missed \subseteq missed'
              /\ JobLine(L!Now(r)) => "job" \in missed'
              => Told'
<1>1. PICK todo, rest : todo = run[r].todo /\ rest = Rest(todo, n)
  OBVIOUS
<1>2. Linked(todo) /\ L!Now(r) = todo[1] /\ Shape
  BY <1>1, HeadIs DEF LogInv
<1>3. /\ Shape' /\ run'[r].todo = rest /\ run'[r].job = (IF rest = <<>> THEN NoOne ELSE run[r].job)
      /\ \A q \in Routine \ {r} : run'[q] = run[q]
      /\ n <= Len(todo)
  <2>1. /\ n = 2 => run[r].todo[1][1] = "archive"
        /\ n = 1 /\ run[r].todo[1][1] \in {"lock", "archive", "remove", "append"} => mu'[run[r].todo[1][2]] = r
        /\ rest = Rest(run[r].todo, n) /\ n \in 1..2 /\ r \in Routine
    BY <1>1, <1>2
  <2>2. /\ LogConstants /\ Shape /\ L!SkipSteps(r, n) /\ run[r].todo # <<>> /\ DOMAIN mu' = L!File
        /\ \A f \in L!File : mu'[f] = mu[f] \/ mu[f] \in {r, NoOne}
        /\ n = 2 => mu' = mu
    BY <1>2
  <2>3. /\ Shape' /\ run'[r].todo = rest /\ run'[r].job = (IF rest = <<>> THEN NoOne ELSE run[r].job)
        /\ \A q \in Routine \ {r} : run'[q] = run[q]
        /\ n <= Len(run[r].todo)
    BY ONLY <2>1, <2>2, SkipMoves
  <2> QED
    BY <1>1, <2>3
<1>4. ASSUME rest # <<>>, rest[1][1] = "remove"
      PROVE  n = 1 /\ todo[1][1] = "archive" /\ rest[1][2] = todo[1][2]
  <2>1. rest = Rest(todo, n) /\ Linked(todo) /\ n \in 1..2 /\ n <= Len(todo)
    BY <1>1, <1>2, <1>3
  <2>2. todo[n][1] = "archive"
    <3>1. rest # <<>> /\ rest[1][1] = "remove"
      BY <1>4
    <3>2. rest[1][1] = "remove" => todo[n][1] = "archive"
      BY ONLY <2>1, <3>1, SkipHead
    <3> QED
      BY <3>1, <3>2
  <2>3. Guarded(rest[1])
    BY <1>4 DEF Guarded
  <2>4. rest[1][2] = todo[n][2]
    BY ONLY <1>4, <2>1, <2>3, SkipHead
  <2>5. n # 2
    <3>1. SUFFICES ASSUME n = 2 PROVE FALSE
      OBVIOUS
    <3>2. todo[1][1] = "archive"
      BY <1>2, <3>1
    <3>3. n = 2 /\ todo[1][1] = "archive" => todo[2][1] = "remove"
      BY ONLY <2>1, Skip
    <3> QED
      BY <2>2, <3>1, <3>2, <3>3
  <2>6. n = 1
    BY <2>5
  <2> QED
    BY <2>2, <2>4, <2>6
<1>5. ASSUME jobStates' = jobStates, events' = events, missed \subseteq missed', JobLine(L!Now(r)) => "job" \in missed'
      PROVE  Told'
  BY <1>1, <1>2, <1>3, <1>5, SkipTold DEF LogInv
<1> QED
  BY <1>1, <1>2, <1>3, <1>4, <1>5

LEMMA LockInv ==
    ASSUME LogConstants, LogInv, NEW r \in Routine, L!Lock(r)
    PROVE  LogInv'
<1>1. PICK f : f = L!Now(r)[2]
  OBVIOUS
<1>2. /\ run[r].todo # <<>> /\ L!Now(r)[1] = "lock" /\ f \in L!File /\ DOMAIN mu = L!File /\ mu[f] = NoOne
      /\ mu' = [mu EXCEPT ![f] = r] /\ L!SkipSteps(r, 1)
      /\ day' = day /\ log' = log /\ archive' = archive /\ written' = written
      /\ jobStates' = jobStates /\ events' = events /\ missed' = missed
  BY <1>1, HeadIs DEF L!Lock, L!Does, L!Now, LogInv, Shape
<1>3. DOMAIN mu' = L!File /\ mu'[f] = r /\ \A g \in L!File : mu'[g] = mu[g] \/ mu[g] \in {r, NoOne}
  BY <1>2
<1>4. ~JobLine(L!Now(r))
  BY <1>2 DEF JobLine
<1>5. /\ Shape' /\ \A q \in Routine \ {r} : run'[q] = run[q]
      /\ ~(run'[r].todo # <<>> /\ run'[r].todo[1][1] = "remove") /\ Told'
  BY <1>1, <1>2, <1>3, <1>4, SkipShape
<1>6. Kept'
  BY <1>2, <1>5, NothingKept DEF LogInv
<1> QED
  BY <1>5, <1>6 DEF LogInv

LEMMA UnlockInv ==
    ASSUME LogConstants, LogInv, NEW r \in Routine, L!Unlock(r)
    PROVE  LogInv'
<1>1. PICK f : f = L!Now(r)[2]
  OBVIOUS
<1>2. /\ run[r].todo # <<>> /\ L!Now(r)[1] = "unlock"
      /\ mu' = [mu EXCEPT ![f] = NoOne] /\ L!SkipSteps(r, 1)
      /\ day' = day /\ log' = log /\ archive' = archive /\ written' = written
      /\ jobStates' = jobStates /\ events' = events /\ missed' = missed
  BY <1>1 DEF L!Unlock, L!Does, L!Now
<1>3. f \in L!File /\ DOMAIN mu = L!File /\ mu[f] = r
  BY <1>1, <1>2, HeadIs DEF LogInv, Shape, Guarded
<1>4. DOMAIN mu' = L!File /\ \A g \in L!File : mu'[g] = mu[g] \/ mu[g] \in {r, NoOne}
  BY <1>2, <1>3
<1>5. ~JobLine(L!Now(r))
  BY <1>2 DEF JobLine
<1>6. /\ Shape' /\ \A q \in Routine \ {r} : run'[q] = run[q]
      /\ ~(run'[r].todo # <<>> /\ run'[r].todo[1][1] = "remove") /\ Told'
  BY <1>1, <1>2, <1>4, <1>5, SkipShape
<1>7. Kept'
  BY <1>2, <1>6, NothingKept DEF LogInv
<1> QED
  BY <1>6, <1>7 DEF LogInv

LEMMA ArchiveInv ==
    ASSUME LogConstants, LogInv, NEW r \in Routine, L!ArchiveLog(r)
    PROVE  LogInv'
<1>1. PICK f, d : f = L!Now(r)[2] /\ d = log[f].mod
  OBVIOUS
<1>2. /\ run[r].todo # <<>> /\ L!Now(r)[1] = "archive"
      /\ mu' = mu /\ day' = day /\ log' = log /\ written' = written
      /\ jobStates' = jobStates /\ events' = events /\ missed' = missed
  BY DEF L!ArchiveLog, L!Does, L!Now
<1>3. f \in L!File /\ ~JobLine(L!Now(r)) /\ d \in L!Day /\ mu[f] = r /\ DOMAIN mu = L!File
  <2>1. Guarded(L!Now(r)) /\ ~JobLine(L!Now(r))
    BY <1>2 DEF Guarded, JobLine
  <2>2. f \in L!File /\ mu[f] = r
    BY <1>1, <1>2, <2>1, HeadIs DEF LogInv
  <2> QED
    BY <1>1, <2>1, <2>2 DEF LogInv, Kept, Shape
<1>4. CASE L!SkipSteps(r, 2) /\ archive' = archive
  <2>1. /\ Shape' /\ \A q \in Routine \ {r} : run'[q] = run[q]
        /\ ~(run'[r].todo # <<>> /\ run'[r].todo[1][1] = "remove") /\ Told'
    BY <1>1, <1>2, <1>3, <1>4, SkipShape
  <2>2. Kept'
    BY <1>2, <1>4, <2>1, NothingKept DEF LogInv
  <2> QED
    BY <2>1, <2>2 DEF LogInv
<1>5. ASSUME NEW lines, archive' = [archive EXCEPT ![f][d] = L!Appended(@, lines)]
      PROVE  /\ DOMAIN archive' = L!File /\ day \in L!Day /\ day <= day
             /\ \A g \in L!File : /\ DOMAIN archive'[g] = L!Day
                               /\ \A e \in L!Day : DOMAIN archive'[g][e] = {"lines", "behind", "torn"}
             /\ \A g \in L!File, e \in L!Day : \A x : In(archive[g][e], x) => In(archive'[g][e], x)
             /\ \A x \in lines : In(archive'[f][d], x)
  <2>1. /\ DOMAIN archive = L!File /\ day \in L!Day
        /\ \A g \in L!File : /\ DOMAIN archive[g] = L!Day
                          /\ \A e \in L!Day : DOMAIN archive[g][e] = {"lines", "behind", "torn"}
    BY DEF LogInv, Kept
  <2>2. day <= day
    BY <2>1, DayInt
  <2>3. PICK b : b = L!Appended(archive[f][d], lines)
    OBVIOUS
  <2>4. /\ DOMAIN b = {"lines", "behind", "torn"}
        /\ \A x : In(archive[f][d], x) \/ x \in lines => In(b, x)
    <3>1. DOMAIN archive[f][d] = {"lines", "behind", "torn"}
      BY <1>3, <2>1
    <3> QED
      BY <2>3, <3>1, AppendedIn
  <2>5. /\ DOMAIN archive' = L!File
        /\ \A g \in L!File : /\ DOMAIN archive'[g] = L!Day
                          /\ \A e \in L!Day : archive'[g][e] = IF g = f /\ e = d THEN b ELSE archive[g][e]
    BY <1>3, <1>5, <2>1, <2>3
  <2> QED
    BY <1>3, <2>1, <2>2, <2>4, <2>5
<1>6. CASE L!SkipSteps(r, 1) /\ archive' = [archive EXCEPT ![f][d] = L!Appended(@, log[f].lines)]
  <2>1. PICK lines : lines = log[f].lines
    OBVIOUS
  <2>2. /\ DOMAIN archive' = L!File /\ day \in L!Day /\ day <= day
        /\ \A g \in L!File : /\ DOMAIN archive'[g] = L!Day
                          /\ \A e \in L!Day : DOMAIN archive'[g][e] = {"lines", "behind", "torn"}
        /\ \A g \in L!File, e \in L!Day : \A x : In(archive[g][e], x) => In(archive'[g][e], x)
        /\ \A x \in lines : In(archive'[f][d], x)
    BY <1>5, <1>6, <2>1
  <2>3. /\ Shape' /\ \A q \in Routine \ {r} : run'[q] = run[q]
        /\ run'[r].todo # <<>> /\ run'[r].todo[1][1] = "remove" => run'[r].todo[1][2] = f
        /\ Told'
    <3>1. L!Now(r)[1] \in {"lock", "archive", "remove", "append"} => mu'[L!Now(r)[2]] = r
      BY <1>1, <1>2, <1>3
    <3> QED
      BY <1>1, <1>2, <1>3, <1>6, <3>1, SkipShape
  <2>4. Kept'
    <3>1. \A q \in Routine : run'[q].todo # <<>> /\ run'[q].todo[1][1] = "remove" =>
             \/ run'[q] = run[q]
             \/ \A x \in log[run'[q].todo[1][2]].lines :
                   In(archive'[run'[q].todo[1][2]][log[run'[q].todo[1][2]].mod], x)
      BY <1>1, <2>1, <2>2, <2>3
    <3> QED
      BY <1>2, <2>2, <2>3, <3>1, KeptStays DEF LogInv
  <2> QED
    BY <2>3, <2>4 DEF LogInv
<1>7. ASSUME NEW part, L!SkipSteps(r, 2), archive' = [archive EXCEPT ![f][d] = L!Appended(@, part)]
      PROVE  LogInv'
  <2>1. /\ DOMAIN archive' = L!File /\ day \in L!Day /\ day <= day
        /\ \A g \in L!File : /\ DOMAIN archive'[g] = L!Day
                          /\ \A e \in L!Day : DOMAIN archive'[g][e] = {"lines", "behind", "torn"}
        /\ \A g \in L!File, e \in L!Day : \A x : In(archive[g][e], x) => In(archive'[g][e], x)
    BY <1>5, <1>7
  <2>2. /\ Shape' /\ \A q \in Routine \ {r} : run'[q] = run[q]
        /\ ~(run'[r].todo # <<>> /\ run'[r].todo[1][1] = "remove") /\ Told'
    BY <1>1, <1>2, <1>3, <1>7, SkipShape
  <2>3. Kept'
    <3>1. \A q \in Routine : run'[q].todo # <<>> /\ run'[q].todo[1][1] = "remove" => run'[q] = run[q]
      BY <2>2
    <3> QED
      BY <1>2, <2>1, <2>2, <3>1, KeptStays DEF LogInv
  <2> QED
    BY <2>2, <2>3 DEF LogInv
<1> QED
  <2>1. \/ L!SkipSteps(r, 2) /\ archive' = archive
        \/ L!SkipSteps(r, 1) /\ archive' = [archive EXCEPT ![f][d] = L!Appended(@, log[f].lines)]
        \/ \E part : L!SkipSteps(r, 2) /\ archive' = [archive EXCEPT ![f][d] = L!Appended(@, part)]
    BY <1>1 DEF L!ArchiveLog
  <2> QED
    BY <1>4, <1>6, <1>7, <2>1

LEMMA CleanupInv ==
    ASSUME LogConstants, LogInv, NEW r \in Routine, L!CleanupArchiveLogs(r)
    PROVE  LogInv'
<1>1. /\ run[r].todo # <<>> /\ L!Now(r)[1] = "cleanup" /\ L!SkipSteps(r, 1)
      /\ mu' = mu /\ day' = day /\ log' = log /\ written' = written
      /\ jobStates' = jobStates /\ events' = events /\ missed' = missed
      /\ archive' = [f \in L!File |-> [d \in L!Day |-> IF L!Expired(d) THEN L!NoArchive ELSE archive[f][d]]]
  BY DEF L!CleanupArchiveLogs, L!Does, L!Now
<1>2. DOMAIN mu' = L!File /\ ~JobLine(L!Now(r))
  BY <1>1 DEF JobLine, LogInv, Shape
<1>3. /\ Shape' /\ \A q \in Routine \ {r} : run'[q] = run[q]
      /\ ~(run'[r].todo # <<>> /\ run'[r].todo[1][1] = "remove") /\ Told'
  BY <1>1, <1>2, SkipShape
<1>4. Kept'
  <2>1. /\ DOMAIN archive' = L!File /\ day \in L!Day
        /\ \A g \in L!File : /\ DOMAIN archive'[g] = L!Day
                          /\ \A e \in L!Day : DOMAIN archive'[g][e] = {"lines", "behind", "torn"}
    <3>1. DOMAIN L!NoArchive = {"lines", "behind", "torn"}
      BY DEF L!NoArchive
    <3>2. day \in L!Day /\ \A g \in L!File : \A e \in L!Day : DOMAIN archive[g][e] = {"lines", "behind", "torn"}
      BY DEF LogInv, Kept
    <3> QED
      BY <1>1, <3>1, <3>2
  <2>2. day <= day
    BY <2>1, DayInt
  <2>3. ASSUME NEW f \in L!File, NEW d \in L!Day
        PROVE  d < day' - Retention \/ \A x : In(archive[f][d], x) => In(archive'[f][d], x)
    BY <1>1 DEF L!Expired
  <2>4. \A q \in Routine : run'[q].todo # <<>> /\ run'[q].todo[1][1] = "remove" => run'[q] = run[q]
    BY <1>3
  <2> QED
    BY <1>1, <1>3, <2>1, <2>2, <2>3, <2>4, KeptStays DEF LogInv
<1> QED
  BY <1>3, <1>4 DEF LogInv

\* A log is removed, or written to, by the goroutine that has its mutex: no other is about to remove it.
LEMMA OthersRemove ==
    ASSUME LogConstants, LogInv, NEW r \in Routine, run[r].todo # <<>>, Guarded(L!Now(r)),
           NEW q \in Routine \ {r}, run[q].todo # <<>>, run[q].todo[1][1] = "remove"
    PROVE  run[q].todo[1][2] \in L!File /\ run[q].todo[1][2] # L!Now(r)[2]
<1>1. mu[L!Now(r)[2]] = r
  BY HeadIs DEF LogInv
<1>2. L!Now(q) = run[q].todo[1] /\ Guarded(L!Now(q))
  BY HeadIs DEF LogInv, Guarded
<1>3. L!Now(q)[2] \in L!File /\ mu[L!Now(q)[2]] = q
  BY <1>2, HeadIs DEF LogInv
<1> QED
  BY <1>1, <1>2, <1>3

LEMMA RemoveInv ==
    ASSUME LogConstants, LogInv, NEW r \in Routine, L!RemoveLog(r)
    PROVE  LogInv'
<1>1. PICK f : f = L!Now(r)[2]
  OBVIOUS
<1>2. /\ run[r].todo # <<>> /\ L!Now(r)[1] = "remove" /\ L!SkipSteps(r, 1)
      /\ mu' = mu /\ day' = day /\ archive' = archive /\ written' = written
      /\ jobStates' = jobStates /\ events' = events /\ missed' = missed
      /\ log' = log \/ log' = [log EXCEPT ![f] = L!NoLog]
  BY <1>1 DEF L!RemoveLog, L!Does, L!Now
<1>3. /\ f \in L!File /\ ~JobLine(L!Now(r)) /\ Guarded(L!Now(r)) /\ L!Now(r) = run[r].todo[1]
      /\ mu'[f] = r /\ DOMAIN mu' = L!File
  <2>1. Guarded(L!Now(r)) /\ ~JobLine(L!Now(r))
    BY <1>2 DEF Guarded, JobLine
  <2>2. f \in L!File /\ mu[f] = r /\ L!Now(r) = run[r].todo[1]
    BY <1>1, <1>2, <2>1, HeadIs DEF LogInv
  <2> QED
    BY <1>2, <2>1, <2>2 DEF LogInv, Shape
<1>4. /\ Shape' /\ \A q \in Routine \ {r} : run'[q] = run[q]
      /\ ~(run'[r].todo # <<>> /\ run'[r].todo[1][1] = "remove") /\ Told'
  BY <1>1, <1>2, <1>3, SkipShape
<1>5. CASE log' = log
  BY <1>2, <1>4, <1>5, NothingKept DEF LogInv
<1>6. CASE log' = [log EXCEPT ![f] = L!NoLog]
  <2>1. /\ day \in L!Day /\ DOMAIN log = L!File /\ DOMAIN written = L!File
        /\ \A g \in L!File : DOMAIN log[g] = {"lines", "mod"} /\ log[g].mod \in L!Day /\ log[g].mod <= day
    BY DEF LogInv, Kept
  <2>2. /\ DOMAIN log' = L!File /\ log'[f] = L!NoLog /\ \A g \in L!File \ {f} : log'[g] = log[g]
    BY <1>3, <1>6, <2>1
  <2>3. /\ DOMAIN L!NoLog = {"lines", "mod"} /\ L!NoLog.mod = 0 /\ L!NoLog.lines = {} /\ 0 \in L!Day /\ 0 <= day
    BY <2>1 DEF L!NoLog, L!Day, LogConstants
  <2>4. \A g \in L!File : DOMAIN log'[g] = {"lines", "mod"} /\ log'[g].mod \in L!Day /\ log'[g].mod <= day
    BY <2>1, <2>2, <2>3
  <2>5. ASSUME NEW g \in L!File, NEW l \in written[g], l[2] >= day - Retention
        PROVE  \/ l[1] \in log'[g].lines /\ l[2] <= log'[g].mod
               \/ \E d \in L!Day : l[2] <= d /\ In(archive[g][d], l[1])
    <3>1. \/ l[1] \in log[g].lines /\ l[2] <= log[g].mod
          \/ \E d \in L!Day : l[2] <= d /\ In(archive[g][d], l[1])
      BY <2>5 DEF LogInv, Kept
    <3>2. CASE g # f
      BY <2>2, <3>1, <3>2
    <3>3. CASE g = f /\ l[1] \in log[f].lines /\ l[2] <= log[f].mod
      <4>1. In(archive[f][log[f].mod], l[1]) \/ log[f].mod < day - Retention
        BY <1>1, <1>2, <1>3, <3>3 DEF LogInv, Kept
      <4>2. ~(log[f].mod < day - Retention)
        <5>1. PICK k, m : k = l[2] /\ m = log[f].mod
          OBVIOUS
        <5>2. k \in Int /\ m \in Int /\ day \in Int /\ Retention \in Int
          <6>1. l[2] \in L!Day
            BY DEF LogInv, Kept
          <6> QED
            BY <1>3, <2>1, <5>1, <6>1, DayInt DEF LogConstants
        <5>3. k >= day - Retention /\ k <= m
          BY <2>5, <3>3, <5>1
        <5>4. ~(m < day - Retention)
          BY ONLY <5>2, <5>3
        <5> QED
          BY <5>1, <5>4
      <4> QED
        BY <1>3, <2>1, <3>3, <4>1, <4>2
    <3> QED
      BY <3>1, <3>2, <3>3
  <2>6. ASSUME NEW q \in Routine, run'[q].todo # <<>>, run'[q].todo[1][1] = "remove",
               NEW x \in log'[run'[q].todo[1][2]].lines
        PROVE  \/ In(archive[run'[q].todo[1][2]][log'[run'[q].todo[1][2]].mod], x)
               \/ log'[run'[q].todo[1][2]].mod < day - Retention
    <3>1. q # r /\ run'[q] = run[q]
      BY <1>4, <2>6
    <3>2. run[q].todo[1][2] \in L!File /\ run[q].todo[1][2] # f
      BY <1>1, <1>2, <1>3, <2>6, <3>1, OthersRemove
    <3>3. log'[run[q].todo[1][2]] = log[run[q].todo[1][2]]
      BY <2>2, <3>2
    <3> QED
      BY <2>6, <3>1, <3>3 DEF LogInv, Kept
  <2>7. /\ DOMAIN archive = L!File
        /\ \A g \in L!File : /\ DOMAIN archive[g] = L!Day
                          /\ \A d \in L!Day : DOMAIN archive[g][d] = {"lines", "behind", "torn"}
                          /\ \A l \in written[g] : l[2] \in L!Day
    BY DEF LogInv, Kept
  <2>8. Kept'
    BY <1>2, <2>1, <2>2, <2>4, <2>5, <2>6, <2>7 DEF Kept
  <2> QED
    BY <1>4, <2>8 DEF LogInv
<1> QED
  BY <1>2, <1>4, <1>5, <1>6 DEF LogInv

\* The line for the job log is written: the state of the job is the last line again.
LEMMA WroteTold ==
    ASSUME LogConstants, LogInv, NEW r \in Routine, L!SkipSteps(r, 1), run[r].todo # <<>>, JobLine(L!Now(r)),
           mu' = mu, NEW line, line = L!Now(r)[3],
           events' = [events EXCEPT ![line[1]] = Append(@, line[2])],
           jobStates' = jobStates, missed' = missed
    PROVE  Told'
<1>0. PICK n : n = 1
  OBVIOUS
<1>1. PICK todo, rest, j : todo = run[r].todo /\ rest = Rest(todo, n) /\ j = run[r].job
  OBVIOUS
<1>2. /\ Linked(todo) /\ L!Now(r) = todo[1] /\ 1 \in 1..Len(todo) /\ Shape /\ j \in Job \cup {NoOne}
  <2>1. Shape
    BY DEF LogInv
  <2>2. Linked(todo) /\ L!Now(r) = todo[1] /\ 1 \in 1..Len(todo)
    BY <1>1, <2>1, HeadIs
  <2> QED
    BY <1>1, <2>1, <2>2 DEF Shape, Ran
<1>3. Pending(todo) /\ j \in Job
  <2>1. Pending(todo)
    BY <1>2 DEF Pending
  <2>2. j = NoOne => ~Pending(todo)
    BY <1>1 DEF LogInv, Told
  <2> QED
    BY <1>2, <2>1, <2>2
<1>4. Says(todo, j, jobStates[j])
  BY <1>1, <1>3 DEF LogInv, Told
<1>5. line[1] = j /\ line[2] = jobStates[j]
  BY <1>2, <1>4 DEF Says
<1>6. /\ run'[r].todo = rest /\ run'[r].job = (IF rest = <<>> THEN NoOne ELSE j)
      /\ \A q \in Routine \ {r} : run'[q] = run[q]
      /\ n <= Len(todo)
  <2>1. /\ rest = Rest(run[r].todo, n) /\ n \in 1..2 /\ r \in Routine
        /\ n = 2 => run[r].todo[1][1] = "archive" /\ mu' = mu
    BY <1>1, <1>0
  <2>2. /\ LogConstants /\ Shape /\ L!SkipSteps(r, n) /\ run[r].todo # <<>> /\ DOMAIN mu' = L!File
        /\ \A f \in L!File : mu'[f] = mu[f] \/ mu[f] \in {r, NoOne}
    BY <1>2, <1>0 DEF Shape
  <2>3. n = 1 /\ run[r].todo[1][1] \in {"lock", "archive", "remove", "append"} => mu'[run[r].todo[1][2]] = r
    <3>1. Guarded(L!Now(r))
      BY DEF JobLine, Guarded
    <3>2. mu[L!Now(r)[2]] = r
      BY <1>2, <3>1, HeadIs
    <3> QED
      BY <1>1, <1>2, <3>2
  <2>4. /\ run'[r].todo = rest /\ run'[r].job = (IF rest = <<>> THEN NoOne ELSE run[r].job)
        /\ \A q \in Routine \ {r} : run'[q] = run[q]
        /\ n <= Len(run[r].todo)
    BY ONLY <2>1, <2>2, <2>3, SkipMoves
  <2> QED
    BY <1>1, <1>0, <2>4
<1>7. /\ ~Pending(rest) /\ \A p \in 1..Len(rest) : rest[p][1] # "mark"
      /\ Says(rest, j, jobStates[j])
  <2>0. n \in 1..2
    BY ONLY <1>0
  <2>1. rest = Rest(todo, n) /\ Linked(todo) /\ n \in 1..2 /\ n <= Len(todo)
    BY ONLY <1>1, <1>2, <1>6, <2>0
  <2>2. JobLine(todo[1]) => ~Pending(rest)
    BY ONLY <2>1, Skip
  <2>3. \A p \in 1..Len(rest) : rest[p][1] # "mark"
    BY ONLY <2>1, Skip
  <2> QED
    BY <1>2, <2>2, <2>3 DEF Says, Pending
<1>8. /\ DOMAIN events = Job /\ DOMAIN jobStates = Job
      /\ \A k \in Job : events[k] \in Seq(Msg \cup {L!Ok}) /\ jobStates[k] \in Msg \cup {L!Ok}
  BY DEF LogInv, Told
<1>9. PICK e, x, new : e = events[j] /\ x = jobStates[j] /\ new = Append(e, x)
  OBVIOUS
<1>10. /\ e \in Seq(Msg \cup {L!Ok}) /\ new \in Seq(Msg \cup {L!Ok}) /\ Len(new) = Len(e) + 1 /\ new # <<>>
       /\ Len(e) \in Nat /\ new[Len(e) + 1] = x /\ \A i \in 1..Len(e) : new[i] = e[i]
  BY <1>3, <1>8, <1>9
<1>11. /\ DOMAIN events' = Job /\ events'[j] = new /\ \A k \in Job \ {j} : events'[k] = events[k]
  BY <1>3, <1>5, <1>8, <1>9
<1>12. \A q \in Routine \ {r} : run[q].job # j
  BY <1>1, <1>2, <1>3 DEF Shape
<1>13. \A q \in Routine : run'[q].job = NoOne =>
          ~Pending(run'[q].todo) /\ \A p \in 1..Len(run'[q].todo) : run'[q].todo[p][1] # "mark"
  BY <1>6, <1>7 DEF LogInv, Told
<1>14. \A q \in Routine : run'[q].job \in Job => Says(run'[q].todo, run'[q].job, jobStates[run'[q].job])
  BY <1>6, <1>7 DEF LogInv, Told, LogConstants
<1>15. ASSUME "job" \notin missed, NEW k \in Job
       PROVE  /\ \A i \in 1..Len(events'[k]) : events'[k][i] # (IF i = 1 THEN L!Ok ELSE events'[k][i - 1])
              /\ jobStates[k] # LastOf(events'[k]) <=> \E q \in Routine : run'[q].job = k /\ Pending(run'[q].todo)
  <2>1. /\ \A i \in 1..Len(events[k]) : events[k][i] # (IF i = 1 THEN L!Ok ELSE events[k][i - 1])
        /\ jobStates[k] # LastOf(events[k]) <=> \E q \in Routine : run[q].job = k /\ Pending(run[q].todo)
    BY <1>15 DEF LogInv, Told
  <2>2. CASE k = j
    <3>1. x # LastOf(e)
      BY <1>1, <1>3, <1>9, <2>1, <2>2
    <3>2. \A i \in 1..Len(e) : e[i] # (IF i = 1 THEN L!Ok ELSE e[i - 1])
      BY <1>9, <2>1, <2>2
    <3>3. ASSUME NEW i \in 1..Len(new) PROVE new[i] # (IF i = 1 THEN L!Ok ELSE new[i - 1])
      <4>1. CASE i \in 1..Len(e)
        <5>1. new[i] = e[i] /\ (i # 1 => i - 1 \in 1..Len(e) /\ new[i - 1] = e[i - 1])
          BY <1>10, <4>1
        <5> QED
          BY <3>2, <4>1, <5>1
      <4>2. CASE i = Len(e) + 1
        <5>1. CASE e = <<>>
          <6>1. Len(e) = 0
            BY ONLY <5>1
          <6>2. i = 1 /\ new[i] = x /\ LastOf(e) = L!Ok
            BY <1>10, <4>2, <5>1, <6>1 DEF LastOf
          <6> QED
            BY <3>1, <6>2
        <5>2. CASE e # <<>>
          <6>1. Len(e) \in 1..Len(e) /\ i # 1 /\ i - 1 = Len(e) /\ new[i] = x
            BY <1>10, <4>2, <5>2
          <6>2. new[i - 1] = LastOf(e)
            BY <1>10, <5>2, <6>1 DEF LastOf
          <6> QED
            BY <3>1, <6>1, <6>2
        <5> QED
          BY <5>1, <5>2
      <4>3. i \in 1..Len(e) \/ i = Len(e) + 1
        BY <1>10
      <4> QED
        BY <4>1, <4>2, <4>3
    <3>4. x = LastOf(new)
      BY <1>10 DEF LastOf
    <3>5. ~\E q \in Routine : run'[q].job = j /\ Pending(run'[q].todo)
      BY <1>6, <1>7, <1>12
    <3>6. events'[k] = new /\ jobStates[k] = x
      BY <1>9, <1>11, <2>2
    <3>7. \A i \in 1..Len(events'[k]) : events'[k][i] # (IF i = 1 THEN L!Ok ELSE events'[k][i - 1])
      BY ONLY <3>3, <3>6
    <3> QED
      BY <2>2, <3>4, <3>5, <3>6, <3>7
  <2>3. CASE k # j
    <3>1. run[r].job # k /\ run'[r].job # k
      BY <1>1, <1>6, <2>3 DEF LogConstants
    <3>2. (\E q \in Routine : run'[q].job = k /\ Pending(run'[q].todo)) <=>
          (\E q \in Routine : run[q].job = k /\ Pending(run[q].todo))
      BY <1>6, <3>1
    <3> QED
      BY <1>11, <2>1, <2>3, <3>2
  <2> QED
    BY <2>2, <2>3
<1>16. \A k \in Job : events'[k] \in Seq(Msg \cup {L!Ok})
  BY <1>8, <1>10, <1>11
<1> QED
  BY <1>8, <1>11, <1>13, <1>14, <1>15, <1>16 DEF Told

LEMMA AppendInv ==
    ASSUME LogConstants, LogInv, NEW r \in Routine, L!AppendLine(r)
    PROVE  LogInv'
<1>1. PICK f, line : f = L!Now(r)[2] /\ line = L!Now(r)[3]
  OBVIOUS
<1>2. /\ run[r].todo # <<>> /\ L!Now(r)[1] = "append" /\ L!SkipSteps(r, 1)
      /\ mu' = mu /\ day' = day /\ archive' = archive /\ jobStates' = jobStates
  BY DEF L!AppendLine, L!Does, L!Now
<1>3. /\ f \in L!File /\ Guarded(L!Now(r)) /\ L!Now(r) = run[r].todo[1] /\ (JobLine(L!Now(r)) <=> f = "job")
      /\ mu'[f] = r /\ DOMAIN mu' = L!File
  <2>1. Guarded(L!Now(r)) /\ (JobLine(L!Now(r)) <=> f = "job")
    BY <1>1, <1>2 DEF Guarded, JobLine
  <2>2. f \in L!File /\ mu[f] = r /\ L!Now(r) = run[r].todo[1]
    BY <1>1, <1>2, <2>1, HeadIs DEF LogInv
  <2> QED
    BY <1>2, <2>1, <2>2 DEF LogInv, Shape
<1>4. /\ Shape' /\ \A q \in Routine \ {r} : run'[q] = run[q]
      /\ ~(run'[r].todo # <<>> /\ run'[r].todo[1][1] = "remove")
      /\ /\ events' = events /\ missed \subseteq missed'
         /\ JobLine(L!Now(r)) => "job" \in missed'
         => Told'
  BY <1>1, <1>2, <1>3, SkipShape
<1>5. CASE missed' = missed \cup {f} /\ log' = log /\ written' = written /\ events' = events
  <2>1. Told'
    BY <1>3, <1>4, <1>5
  <2>2. Kept'
    BY <1>2, <1>4, <1>5, NothingKept DEF LogInv
  <2> QED
    BY <1>4, <2>1, <2>2 DEF LogInv
<1>6. CASE /\ log' = [log EXCEPT ![f] = [lines |-> @.lines \cup {line}, mod |-> day]]
           /\ written' = [written EXCEPT ![f] = @ \cup {<<line, day>>}]
           /\ events' = IF f = "job" THEN [events EXCEPT ![line[1]] = Append(@, line[2])] ELSE events
           /\ missed' = missed
  <2>1. /\ day \in L!Day /\ DOMAIN log = L!File /\ DOMAIN written = L!File
        /\ \A g \in L!File : DOMAIN log[g] = {"lines", "mod"} /\ log[g].mod \in L!Day /\ log[g].mod <= day
    BY DEF LogInv, Kept
  <2>2. PICK new : new = [lines |-> log[f].lines \cup {line}, mod |-> day]
    OBVIOUS
  <2>3. DOMAIN new = {"lines", "mod"} /\ new.lines = log[f].lines \cup {line} /\ new.mod = day
    BY <2>2
  <2>4. /\ DOMAIN log' = L!File /\ log'[f] = new /\ \A g \in L!File \ {f} : log'[g] = log[g]
        /\ DOMAIN written' = L!File /\ written'[f] = written[f] \cup {<<line, day>>}
        /\ \A g \in L!File \ {f} : written'[g] = written[g]
    BY <1>3, <1>6, <2>1, <2>2
  <2>5. day \in Int /\ day <= day /\ \A d \in L!Day : d \in Int
    BY <2>1, DayInt
  <2>6. \A g \in L!File : DOMAIN log'[g] = {"lines", "mod"} /\ log'[g].mod \in L!Day /\ log'[g].mod <= day
    BY <2>1, <2>3, <2>4, <2>5
  <2>7. ASSUME NEW g \in L!File, NEW l \in written'[g]
        PROVE  /\ l[2] \in L!Day
               /\ l[2] >= day - Retention =>
                     \/ l[1] \in log'[g].lines /\ l[2] <= log'[g].mod
                     \/ \E d \in L!Day : l[2] <= d /\ In(archive[g][d], l[1])
    <3>1. CASE l \in written[g]
      <4>1. /\ l[2] \in L!Day
            /\ l[2] >= day - Retention =>
                  \/ l[1] \in log[g].lines /\ l[2] <= log[g].mod
                  \/ \E d \in L!Day : l[2] <= d /\ In(archive[g][d], l[1])
        BY <3>1 DEF LogInv, Kept
      <4>2. CASE g # f
        BY <2>4, <4>1, <4>2
      <4>3. CASE g = f
        <5>1. l[2] <= log[f].mod => l[2] <= day
          <6>1. PICK k, m : k = l[2] /\ m = log[f].mod
            OBVIOUS
          <6>2. k \in Int /\ m \in Int /\ day \in Int /\ m <= day
            BY <1>3, <2>1, <2>5, <4>1, <6>1
          <6>3. k <= m => k <= day
            BY ONLY <6>2
          <6> QED
            BY <6>1, <6>3
        <5> QED
          BY <2>3, <2>4, <4>1, <4>3, <5>1
      <4> QED
        BY <4>2, <4>3
    <3>2. CASE g = f /\ l = <<line, day>>
      <4>1. l[1] = line /\ l[2] = day
        BY <3>2
      <4>2. l[1] \in log'[g].lines /\ l[2] <= log'[g].mod
        BY <2>3, <2>4, <2>5, <3>2, <4>1
      <4> QED
        BY <2>1, <4>1, <4>2
    <3> QED
      BY <2>4, <3>1, <3>2
  <2>8. ASSUME NEW q \in Routine, run'[q].todo # <<>>, run'[q].todo[1][1] = "remove",
               NEW x \in log'[run'[q].todo[1][2]].lines
        PROVE  \/ In(archive[run'[q].todo[1][2]][log'[run'[q].todo[1][2]].mod], x)
               \/ log'[run'[q].todo[1][2]].mod < day - Retention
    <3>1. q # r /\ run'[q] = run[q]
      BY <1>4, <2>8
    <3>2. run[q].todo[1][2] \in L!File /\ run[q].todo[1][2] # f
      BY <1>1, <1>2, <1>3, <2>8, <3>1, OthersRemove
    <3>3. log'[run[q].todo[1][2]] = log[run[q].todo[1][2]]
      BY <2>4, <3>2
    <3> QED
      BY <2>8, <3>1, <3>3 DEF LogInv, Kept
  <2>9. /\ DOMAIN archive = L!File
        /\ \A g \in L!File : /\ DOMAIN archive[g] = L!Day
                          /\ \A d \in L!Day : DOMAIN archive[g][d] = {"lines", "behind", "torn"}
    BY DEF LogInv, Kept
  <2>10. Kept'
    BY <1>2, <2>1, <2>4, <2>6, <2>7, <2>8, <2>9 DEF Kept
  <2>11. Told'
    <3>1. CASE f = "job"
      BY <1>1, <1>2, <1>3, <1>6, <3>1, WroteTold
    <3>2. CASE f # "job"
      BY <1>3, <1>4, <1>6, <3>2
    <3> QED
      BY <3>1, <3>2
  <2> QED
    BY <1>4, <2>10, <2>11 DEF LogInv
<1> QED
  <2>1. \/ missed' = missed \cup {f} /\ log' = log /\ written' = written /\ events' = events
        \/ /\ log' = [log EXCEPT ![f] = [lines |-> @.lines \cup {line}, mod |-> day]]
           /\ written' = [written EXCEPT ![f] = @ \cup {<<line, day>>}]
           /\ events' = IF f = "job" THEN [events EXCEPT ![line[1]] = Append(@, line[2])] ELSE events
           /\ missed' = missed
    BY <1>1 DEF L!AppendLine
  <2> QED
    BY <1>5, <1>6, <2>1

LEMMA MidnightInv ==
    ASSUME LogConstants, LogInv, L!Midnight
    PROVE  LogInv'
<1>1. /\ day < MaxDay /\ day' = day + 1 /\ log' = log /\ archive' = archive /\ mu' = mu /\ run' = run
      /\ jobStates' = jobStates /\ written' = written /\ events' = events /\ missed' = missed
  BY DEF L!Midnight
<1>2. Shape' /\ Told'
  BY <1>1 DEF LogInv, Shape, Told
<1>3. /\ DOMAIN archive' = L!File
      /\ \A g \in L!File : /\ DOMAIN archive'[g] = L!Day
                        /\ \A e \in L!Day : DOMAIN archive'[g][e] = {"lines", "behind", "torn"}
  BY <1>1 DEF LogInv, Kept
<1>4. day' \in L!Day /\ day <= day'
  <2>1. day \in L!Day
    BY DEF LogInv, Kept
  <2> QED
    BY <1>1, <2>1 DEF L!Day, LogConstants
<1>5. Kept'
  BY <1>1, <1>2, <1>3, <1>4, KeptStays DEF LogInv
<1> QED
  BY <1>2, <1>5 DEF LogInv

LEMMA RestartInv ==
    ASSUME LogConstants, LogInv, L!Restart
    PROVE  LogInv'
<1>1. /\ mu' = [f \in L!File |-> NoOne] /\ run' = [r \in Routine |-> L!NoTask]
      /\ jobStates' = [j \in Job |-> L!Ok] /\ events' = [j \in Job |-> <<>>]
      /\ day' = day /\ log' = log /\ written' = written /\ missed' = missed
      /\ archive' = archive \/ \E f, d : archive' = [archive EXCEPT ![f][d].torn = TRUE]
  BY DEF L!Restart
<1>2. /\ DOMAIN run' = Routine /\ \A r \in Routine : run'[r] = L!NoTask
      /\ DOMAIN mu' = L!File
  BY <1>1
<1>3. Shape'
  BY <1>2, NoTaskFacts DEF Shape, Ran, LogConstants
<1>4. /\ DOMAIN archive = L!File /\ day \in L!Day /\ day <= day
      /\ \A g \in L!File : /\ DOMAIN archive[g] = L!Day
                        /\ \A e \in L!Day : DOMAIN archive[g][e] = {"lines", "behind", "torn"}
  <2>1. /\ DOMAIN archive = L!File /\ day \in L!Day
        /\ \A g \in L!File : /\ DOMAIN archive[g] = L!Day
                          /\ \A e \in L!Day : DOMAIN archive[g][e] = {"lines", "behind", "torn"}
    BY ONLY LogInv DEF LogInv, Kept
  <2>2. day <= day
    BY ONLY LogConstants, <2>1, DayInt
  <2> QED
    BY <2>1, <2>2
<1>5. /\ DOMAIN archive' = L!File
      /\ \A g \in L!File : /\ DOMAIN archive'[g] = L!Day
                        /\ \A e \in L!Day : /\ DOMAIN archive'[g][e] = {"lines", "behind", "torn"}
                                         /\ \A x : In(archive[g][e], x) => In(archive'[g][e], x)
  <2>1. CASE archive' = archive
    BY <1>4, <2>1
  <2>2. ASSUME NEW f, NEW d, archive' = [archive EXCEPT ![f][d].torn = TRUE]
        PROVE  /\ DOMAIN archive' = L!File
               /\ \A g \in L!File : /\ DOMAIN archive'[g] = L!Day
                                 /\ \A e \in L!Day : /\ DOMAIN archive'[g][e] = {"lines", "behind", "torn"}
                                                  /\ \A x : In(archive[g][e], x) => In(archive'[g][e], x)
    <3>1. PICK b : b = [archive[f][d] EXCEPT !.torn = TRUE]
      OBVIOUS
    <3>2. /\ DOMAIN archive' = L!File
          /\ \A g \in L!File : /\ DOMAIN archive'[g] = L!Day
                            /\ \A e \in L!Day : archive'[g][e] = IF g = f /\ e = d THEN b ELSE archive[g][e]
      BY <1>4, <2>2, <3>1
    <3>3. ASSUME f \in L!File, d \in L!Day
          PROVE  DOMAIN b = {"lines", "behind", "torn"} /\ \A x : In(archive[f][d], x) => In(b, x)
      <4>1. PICK a : a = archive[f][d] /\ DOMAIN a = {"lines", "behind", "torn"}
        BY <1>4, <3>3
      <4>2. DOMAIN b = {"lines", "behind", "torn"} /\ b.torn = TRUE /\ b.lines = a.lines /\ b.behind = a.behind
        BY <3>1, <4>1
      <4> QED
        BY <4>1, <4>2 DEF In
    <3> QED
      BY <1>4, <3>2, <3>3
  <2> QED
    BY <1>1, <2>1, <2>2
<1>6. Kept'
  <2>1. \A r \in Routine : run'[r].todo = <<>>
    BY <1>2, NoTaskFacts
  <2> QED
    BY <1>1, <1>3, <1>4, <1>5, <2>1, KeptStays DEF LogInv
<1>7. Told'
  <2>1. /\ DOMAIN jobStates' = Job /\ DOMAIN events' = Job
        /\ \A j \in Job : jobStates'[j] = L!Ok /\ events'[j] = <<>>
    BY <1>1
  <2>2. \A r \in Routine : run'[r].job = NoOne /\ run'[r].todo = <<>>
    BY <1>2, NoTaskFacts
  <2>3. <<>> \in Seq(Msg \cup {L!Ok}) /\ 1..Len(<<>>) = {} /\ ~Pending(<<>>) /\ LastOf(<<>>) = L!Ok
    BY NothingPending, NoPlace DEF LastOf
  <2>4. \A r \in Routine : /\ ~Pending(run'[r].todo) /\ 1..Len(run'[r].todo) = {}
                           /\ run'[r].job \notin Job
    BY <2>2, <2>3 DEF LogConstants
  <2>5. \A j \in Job : /\ events'[j] \in Seq(Msg \cup {L!Ok}) /\ 1..Len(events'[j]) = {}
                       /\ jobStates'[j] \in Msg \cup {L!Ok} /\ jobStates'[j] = LastOf(events'[j])
    BY <2>1, <2>3
  <2> QED
    BY <2>1, <2>4, <2>5 DEF Told
<1> QED
  BY <1>3, <1>6, <1>7 DEF LogInv

LEMMA LogInitInv == ASSUME LogConstants, L!Init PROVE LogInv
<1>1. /\ day = 0 /\ archive = [f \in L!File |-> [d \in L!Day |-> L!NoArchive]]
      /\ mu = [f \in L!File |-> NoOne] /\ run = [r \in Routine |-> L!NoTask]
      /\ jobStates = [j \in Job |-> L!Ok] /\ events = [j \in Job |-> <<>>]
  BY DEF L!Init
<1>2. Shape
  BY <1>1, NoTaskFacts DEF Shape, Ran, LogConstants
<1>3. 0 \in L!Day /\ 0 <= 0
  BY DEF L!Day, LogConstants
<1>4. /\ DOMAIN log = L!File /\ DOMAIN written = L!File
      /\ \A f \in L!File : DOMAIN log[f] = {"lines", "mod"} /\ log[f].mod = 0
      /\ \A f \in L!File : \A l \in written[f] : l[1] \in log[f].lines /\ l[2] = 0
  <2>1. CASE log = [f \in L!File |-> L!NoLog] /\ written = [f \in L!File |-> {}]
    BY <2>1 DEF L!NoLog
  <2>2. CASE /\ log = [f \in L!File |-> [lines |-> {L!OldLine}, mod |-> 0]]
             /\ written = [f \in L!File |-> {<<L!OldLine, 0>>}]
    BY <2>2
  <2> QED
    BY <2>1, <2>2 DEF L!Init
<1>5. /\ DOMAIN archive = L!File
      /\ \A f \in L!File : DOMAIN archive[f] = L!Day /\ \A d \in L!Day : DOMAIN archive[f][d] = {"lines", "behind", "torn"}
  BY <1>1 DEF L!NoArchive
<1>6. \A r \in Routine : run[r].job = NoOne /\ run[r].todo = <<>>
  BY <1>1, NoTaskFacts
<1>7. Kept
  BY <1>1, <1>3, <1>4, <1>5, <1>6 DEF Kept
<1>8. Told
  <2>1. /\ DOMAIN jobStates = Job /\ DOMAIN events = Job
        /\ \A j \in Job : jobStates[j] = L!Ok /\ events[j] = <<>>
    BY <1>1
  <2>2. <<>> \in Seq(Msg \cup {L!Ok}) /\ 1..Len(<<>>) = {} /\ ~Pending(<<>>) /\ LastOf(<<>>) = L!Ok
    BY NothingPending, NoPlace DEF LastOf
  <2>3. \A r \in Routine : /\ ~Pending(run[r].todo) /\ 1..Len(run[r].todo) = {}
                           /\ run[r].job \notin Job
    BY <1>6, <2>2 DEF LogConstants
  <2>4. \A j \in Job : /\ events[j] \in Seq(Msg \cup {L!Ok}) /\ 1..Len(events[j]) = {}
                       /\ jobStates[j] \in Msg \cup {L!Ok} /\ jobStates[j] = LastOf(events[j])
    BY <2>1, <2>2
  <2> QED
    BY <2>1, <2>3, <2>4 DEF Told
<1> QED
  BY <1>2, <1>7, <1>8 DEF LogInv

LEMMA LogStepInv == ASSUME LogConstants, LogInv, [L!Next]_L!vars PROVE LogInv'
<1>1. ASSUME NEW r \in Routine, L!Step(r) PROVE LogInv'
  <2>1. CASE L!GinRequestLogger(r) \/ L!RotationWorker(r) \/ L!JobEnds(r)
    BY <2>1, BeginsInv
  <2>2. CASE L!RecordJobResult(r)
    BY <2>2, RecordInv
  <2>3. CASE L!Lock(r)
    BY <2>3, LockInv
  <2>4. CASE L!Unlock(r)
    BY <2>4, UnlockInv
  <2>5. CASE L!ArchiveLog(r)
    BY <2>5, ArchiveInv
  <2>6. CASE L!RemoveLog(r)
    BY <2>6, RemoveInv
  <2>7. CASE L!AppendLine(r)
    BY <2>7, AppendInv
  <2>8. CASE L!CleanupArchiveLogs(r)
    BY <2>8, CleanupInv
  <2> QED
    BY <1>1, <2>1, <2>2, <2>3, <2>4, <2>5, <2>6, <2>7, <2>8 DEF L!Step
<1>2. CASE UNCHANGED L!vars
  <2> USE <1>2 DEF L!vars
  <2>1. Shape'
    BY DEF LogInv, Shape
  <2>2. Kept'
    BY DEF LogInv, Kept
  <2>3. Told'
    BY DEF LogInv, Told
  <2> QED
    BY <2>1, <2>2, <2>3 DEF LogInv
<1>3. CASE L!Midnight
  BY <1>3, MidnightInv
<1>4. CASE L!Restart
  BY <1>4, RestartInv
<1> QED
  BY <1>1, <1>2, <1>3, <1>4 DEF L!Next

LEMMA LinesAreKept == ASSUME LogInv PROVE L!KeptForRetention
<1> SUFFICES ASSUME NEW f \in L!File, NEW l \in written[f], l[2] >= day - Retention
             PROVE  \/ l[1] \in log[f].lines
                    \/ \E d \in L!Day : \/ l[1] \in archive[f][d].lines
                                     \/ (l[1] \in archive[f][d].behind /\ archive[f][d].torn)
  BY DEF L!KeptForRetention
<1>1. CASE l[1] \in log[f].lines
  BY <1>1
<1>2. ASSUME NEW d \in L!Day, In(archive[f][d], l[1])
      PROVE  l[1] \in archive[f][d].lines \/ (l[1] \in archive[f][d].behind /\ archive[f][d].torn)
  BY <1>2 DEF In
<1>3. l[1] \in log[f].lines \/ \E d \in L!Day : In(archive[f][d], l[1])
  BY DEF LogInv, Kept
<1> QED
  BY <1>1, <1>2, <1>3

LEMMA JobLogIsTrue == ASSUME LogInv PROVE L!TransitionsOnly
  BY DEF LogInv, Told, L!TransitionsOnly, LastOf

\* A line that was written can be found for as many days as the retention says, and the job log
\* has the transitions of each job and no others, its last line saying how the job ended last:
\* however writers, jobs, the rotation worker, midnight and restarts interleave and whichever
\* copy or removal fails (rotateLogIfNeeded, cleanupArchiveLogs, markJobFailureChanged).
THEOREM LogsSafe == ASSUME LogConstants PROVE L!Spec => []L!LogsAreTrue
<1>1. L!Init => LogInv
  BY LogInitInv
<1>2. LogInv /\ [L!Next]_L!vars => LogInv'
  BY LogStepInv
<1>3. LogInv => L!LogsAreTrue
  BY LinesAreKept, JobLogIsTrue DEF L!LogsAreTrue
<1> QED
  BY <1>1, <1>2, <1>3, PTL DEF L!Spec

-----------------------------------------------------------------------------
(* The three together                                                         *)

\* A behaviour of the three is one of each: they share no state, and a step of one leaves the
\* others alone (main starts the schedulers, the legacy clean-up and the log worker as
\* goroutines of their own).
THEOREM BehavesAsEach == MCSpec => Spec /\ D!Spec /\ L!Spec
<1>1. MCInit => Init /\ D!Init /\ L!Init
  BY DEF MCInit
<1>2. [MCNext]_<<vars, dumpVars, logVars, subject>> => [Next]_vars
  BY DEF MCNext
<1>3. [MCNext]_<<vars, dumpVars, logVars, subject>> => [D!Next]_D!vars
  BY DEF MCNext, D!vars, dumpVars
<1>4. [MCNext]_<<vars, dumpVars, logVars, subject>> => [L!Next]_L!vars
  BY DEF MCNext, L!vars, logVars
<1> QED
  BY <1>1, <1>2, <1>3, <1>4, PTL DEF MCSpec, Spec, D!Spec, L!Spec

\* The schedules are those of the answered requests, of file backups and of database dumps,
\* whatever interleaves and fails, unless a file was overwritten unseen (ccvm_backup.go,
\* db_dump.go, legacy_python_cron.go).
THEOREM SchedulesSafe == MCSpec => []SchedulesAsAsked
<1>1. D!Init => DumpInv
  BY DumpInitInv
<1>2. DumpInv /\ [D!Next]_D!vars => DumpInv'
  BY DumpStepInv DEF D!vars, dumpVars
<1>3. DumpInv => D!RunsWhatWasAsked
  BY DumpsAsAsked
<1>4. D!Spec => []D!RunsWhatWasAsked
  BY <1>1, <1>2, <1>3, PTL DEF D!Spec
<1>5. WishKept /\ D!RunsWhatWasAsked => SchedulesAsAsked
  BY DEF SchedulesAsAsked
<1> QED
  BY <1>4, <1>5, WishSafe, BehavesAsEach, PTL

\* The logs can be relied on, also beside the backups and the dumps: lines stay for the days of
\* retention, and the job log has the transitions of each job (api_logger.go, job_logger.go).
THEOREM LogsStayTrue == ASSUME LogConstants PROVE MCSpec => []LogsAreTrue
<1>1. L!Spec => []L!LogsAreTrue
  BY LogsSafe
<1>2. L!LogsAreTrue => LogsAreTrue
  BY DEF LogsAreTrue
<1> QED
  BY <1>1, <1>2, BehavesAsEach, PTL

=============================================================================
