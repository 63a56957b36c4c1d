---------------------------- MODULE CCVMSnapProofs ----------------------------
(***************************************************************************)
(* While requests of clients and schedulers meet on any number of hosts,   *)
(* calls are lost, servers restart and PCS moves the CCVM, a paused CCVM   *)
(* has a handler that resumes it, a backup that succeeds was taken of a    *)
(* CCVM that did not run, and retention leaves the newest snapshots alone. *)
(***************************************************************************)
EXTENDS CCVMSnap, SequenceTheorems, TLAPS

-----------------------------------------------------------------------------
(* The inductive invariant                                                  *)

Fields == {"pc", "host", "started", "remote", "suspended", "err", "todo", "res"}
\* Where a handler is in the mutex of its host, and where it is at work at all.
Inside == {"list", "rollback", "exists", "state", "suspend", "create", "resume",
           "clean", "remove"}
AtWork == Inside \cup {"resolve", "lock"}
Pc == AtWork \cup {"idle", "done"}

Ops == [pc : {"none", "via", "wait", "done"}, kind : {"none", "list", "backup", "rollback"},
        name : {<<>>, Named, AutoName, <<"s1">>}, entry : Host \cup {NoHost},
        next : 1..(Len(Targets) + 1), ans : {"none", "ok", "error"}]

\* A record of exec, by itself.
Record(r) ==
    /\ DOMAIN r = Fields
    /\ r.pc \in Pc /\ r.host \in Host \cup {NoHost} /\ r.res \in {"none", "ok", "error"}
    /\ r.started \in BOOLEAN /\ r.remote \in BOOLEAN
    /\ r.suspended \in BOOLEAN /\ r.err \in BOOLEAN
    /\ r.pc \in AtWork => r.host \in Host /\ r.res # "ok"
    /\ r.pc \in {"create", "resume", "clean", "remove"} /\ r.started => r.suspended

Types ==
    /\ op \in [Op -> Ops]
    /\ \A o \in Op : /\ op[o].pc = "wait" => op[o].next <= Len(Targets)
                     /\ op[o].pc \in {"via", "wait"} => op[o].kind # "none"
    /\ DOMAIN exec = Exec /\ \A x \in Exec : Record(exec[x])
    /\ lock \in [Host -> Exec \cup {<<>>}]

\* The CCVM, PCS and the bounds.
Around ==
    /\ vm \in [host : Host \cup {NoHost}, state : {"running", "paused", "off"}]
    /\ vm.host = NoHost <=> vm.state = "off"
    /\ dc \in Host /\ stranded \in BOOLEAN
    /\ faults \in 0..MaxFaults /\ moves \in 0..MaxMoves

\* The mutex of a host has the handler that is inside, and nobody else is.
Locks ==
    /\ \A x \in Exec : exec[x].pc \in Inside => lock[exec[x].host] = x
    /\ \A h \in Host : lock[h] # <<>> =>
          exec[lock[h]].host = h /\ exec[lock[h]].pc \in Inside

Kinds == \A x \in Exec :
    /\ exec[x].pc \in {"list", "rollback"} => op[x[1]].kind = exec[x].pc
    /\ exec[x].pc \in AtWork => op[x[1]].kind # "none"

\* A target is asked once: its handler has not begun before.
Fresh == \A o \in Op, n \in 1..Len(Targets) :
    \/ op[o].pc = "none"
    \/ op[o].pc = "via" /\ n >= op[o].next
    \/ op[o].pc = "wait" /\ n > op[o].next
    => exec[<<o, n>>].pc = "idle"

\* The snapshot of x was taken of a CCVM that did not run.
Quiet(x) == \E t \in taken : t.by = x /\ ~t.live

\* A handler that finds the CCVM paused after the snapshot has kept it so, and one that
\* was told where the CCVM runs goes on only if it has.
Stilled == \A x \in Exec :
    \/ exec[x].pc = "resume" /\ ~exec[x].err /\ vm.host = exec[x].host /\ vm.state = "paused"
    \/ exec[x].pc \in {"clean", "remove"} /\ exec[x].started
    => Quiet(x)

Control == Types /\ Around /\ Locks /\ Kinds /\ Fresh
Inv == Control /\ Stilled /\ PausedIsHeld

-----------------------------------------------------------------------------
(* What the steps of a handler do to its record                             *)

LEMMA ExecFacts ==
    /\ \A o \in Op, n \in 1..Len(Targets) : <<o, n>> \in Exec
    /\ \A x \in Exec : x[1] \in Op /\ x[2] \in 1..Len(Targets) /\ x = <<x[1], x[2]>>
    /\ <<>> \notin Exec
    /\ Len(Targets) \in Nat \ {0} /\ \A n \in 1..Len(Targets) : Targets[n] \in Host
  BY CCVMSnapAssumption DEF Exec

LEMMA GotoFacts ==
    ASSUME Control, NEW x \in Exec, NEW p, Goto(x, p)
    PROVE  /\ DOMAIN exec' = Exec /\ \A y \in Exec \ {x} : exec'[y] = exec[y]
           /\ DOMAIN exec'[x] = Fields /\ exec'[x].pc = p
           /\ exec'[x].host = exec[x].host /\ exec'[x].res = exec[x].res
           /\ exec'[x].started = exec[x].started /\ exec'[x].remote = exec[x].remote
           /\ exec'[x].suspended = exec[x].suspended /\ exec'[x].err = exec[x].err
  BY DEF Goto, Control, Types, Record, Fields

\* Ended, the record of a handler that is done.
LEMMA EndedFacts ==
    ASSUME Control, NEW x \in Exec, NEW r \in {"ok", "error"},
           exec' = [exec EXCEPT ![x] = Ended(x, r)]
    PROVE  /\ DOMAIN exec' = Exec /\ \A y \in Exec \ {x} : exec'[y] = exec[y]
           /\ exec'[x].pc = "done" /\ exec'[x].host = NoHost
           /\ Record(exec'[x])
           /\ exec'[x].res = IF exec[x].res = "none" THEN r ELSE exec[x].res
<1>1. exec'[x] = Ended(x, r) /\ exec[x].res \in {"none", "ok", "error"}
  BY DEF Control, Types, Record
<1>2. /\ DOMAIN Ended(x, r) = Fields /\ Ended(x, r).pc = "done" /\ Ended(x, r).host = NoHost
      /\ Ended(x, r).res = IF exec[x].res = "none" THEN r ELSE exec[x].res
      /\ ~Ended(x, r).started /\ ~Ended(x, r).remote /\ ~Ended(x, r).suspended
      /\ ~Ended(x, r).err
      /\ {Ended(x, r).started, Ended(x, r).remote, Ended(x, r).suspended,
          Ended(x, r).err} \subseteq BOOLEAN
  BY DEF Ended, Idle, Fields
<1> QED
  BY <1>1, <1>2 DEF Control, Types, Record, AtWork, Inside, Pc

-----------------------------------------------------------------------------
(* The frame of a step of one handler                                       *)

\* The handler x has moved on, and stays inside or outside.
LEMMA MovesOn ==
    ASSUME Control, NEW x \in Exec, Around', op' = op, lock' = lock,
           DOMAIN exec' = Exec, \A y \in Exec \ {x} : exec'[y] = exec[y],
           Record(exec'[x]), exec[x].pc \in AtWork,
           exec'[x].pc \in Inside <=> exec[x].pc \in Inside,
           exec'[x].pc \in Inside => exec'[x].host = exec[x].host,
           exec'[x].pc \in {"list", "rollback"} => op[x[1]].kind = exec'[x].pc
    PROVE  Control'
<1>1. Types'
  <2>1. \A y \in Exec : Record(exec'[y])
    BY DEF Control, Types
  <2> QED
    BY <2>1 DEF Control, Types, Ops, Record, Exec, Op, Scheduler
<1>2. Locks'
  <2>1. ASSUME NEW y \in Exec, exec'[y].pc \in Inside
        PROVE  lock'[exec'[y].host] = y
    BY <2>1 DEF Control, Locks
  <2>2. ASSUME NEW h \in Host, lock'[h] # <<>>
        PROVE  exec'[lock'[h]].host = h /\ exec'[lock'[h]].pc \in Inside
    <3>1. lock[h] \in Exec /\ exec[lock[h]].host = h /\ exec[lock[h]].pc \in Inside
      BY <2>2 DEF Control, Types, Locks
    <3> QED
      BY <3>1
  <2> QED
    BY <2>1, <2>2 DEF Locks
<1>3. Kinds'
  BY DEF Control, Kinds
<1>4. Fresh'
  BY ExecFacts DEF Control, Fresh, AtWork, Inside
<1> QED
  BY <1>1, <1>2, <1>3, <1>4 DEF Control

\* The handler x has left the mutex, and is done.
LEMMA Leaves ==
    ASSUME Control, NEW x \in Exec, NEW r \in {"ok", "error"}, Around', op' = op,
           exec[x].pc \in Inside, Finish(x, r)
    PROVE  /\ Control'
           /\ \A y \in Exec \ {x} : exec'[y] = exec[y]
           /\ exec'[x].pc = "done"
           /\ exec'[x].res = IF exec[x].res = "none" THEN r ELSE exec[x].res
           /\ \A h \in Host : h # exec[x].host => lock'[h] = lock[h]
<1>1. /\ DOMAIN exec' = Exec /\ \A y \in Exec \ {x} : exec'[y] = exec[y]
      /\ exec'[x].pc = "done" /\ Record(exec'[x])
      /\ exec'[x].res = IF exec[x].res = "none" THEN r ELSE exec[x].res
  BY EndedFacts DEF Finish
<1>2. exec[x].host \in Host /\ lock[exec[x].host] = x
  BY DEF Control, Types, Record, Locks, AtWork
<1>3. /\ lock' \in [Host -> Exec \cup {<<>>}] /\ lock'[exec[x].host] = <<>>
      /\ \A h \in Host : h # exec[x].host => lock'[h] = lock[h]
  BY <1>2 DEF Finish, Control, Types
<1>4. Types'
  <2>1. \A y \in Exec : Record(exec'[y])
    BY <1>1 DEF Control, Types
  <2> QED
    BY <1>1, <1>3, <2>1 DEF Control, Types, Ops, Record, Exec, Op, Scheduler
<1>5. Locks'
  <2>1. ASSUME NEW y \in Exec, exec'[y].pc \in Inside
        PROVE  lock'[exec'[y].host] = y
    <3>1. y # x /\ exec'[y] = exec[y]
      BY <1>1, <2>1 DEF Inside
    <3>2. lock[exec[y].host] = y /\ exec[y].host \in Host
      BY <2>1, <3>1 DEF Control, Types, Record, Locks, AtWork
    <3> QED
      BY <1>2, <1>3, <3>1, <3>2
  <2>2. ASSUME NEW h \in Host, lock'[h] # <<>>
        PROVE  exec'[lock'[h]].host = h /\ exec'[lock'[h]].pc \in Inside
    <3>1. h # exec[x].host /\ lock'[h] = lock[h] /\ lock[h] \in Exec
      BY <1>3, <2>2 DEF Control, Types
    <3>2. exec[lock[h]].host = h /\ exec[lock[h]].pc \in Inside
      BY <2>2, <3>1 DEF Control, Locks
    <3> QED
      BY <1>1, <3>1, <3>2
  <2> QED
    BY <2>1, <2>2 DEF Locks
<1>6. Kinds'
  BY <1>1 DEF Control, Kinds, AtWork, Inside
<1>7. Fresh'
  BY <1>1, ExecFacts DEF Control, Fresh, Inside
<1> QED
  BY <1>1, <1>3, <1>4, <1>5, <1>6, <1>7 DEF Control

\* Such a step, when it leaves the CCVM alone.
LEMMA MovesOnKeeps ==
    ASSUME Inv, Control', NEW x \in Exec, lock' = lock, vm' = vm, stranded' = stranded,
           taken \subseteq taken',
           \A y \in Exec \ {x} : exec'[y] = exec[y],
           exec'[x].pc \in {"clean", "remove"} /\ exec'[x].started => Quiet(x)',
           exec'[x].pc = "resume" /\ ~exec'[x].err /\ vm.host = exec'[x].host
              /\ vm.state = "paused" => Quiet(x)',
           exec[x].pc \in {"create", "resume"} /\ exec[x].suspended =>
              exec'[x].pc \in {"create", "resume"} /\ exec'[x].suspended
    PROVE  Inv'
<1>1. Stilled'
  BY DEF Inv, Stilled, Quiet
<1>2. PausedIsHeld'
  BY DEF Inv, Control, Around, Types, PausedIsHeld
<1> QED
  BY <1>1, <1>2 DEF Inv

LEMMA LeavesKeeps ==
    ASSUME Inv, NEW x \in Exec, NEW r \in {"ok", "error"}, Around', op' = op,
           exec[x].pc \in Inside, Finish(x, r), vm' = vm, stranded' = stranded,
           taken \subseteq taken',
           exec[x].pc \in {"create", "resume"} /\ exec[x].suspended =>
              ~(vm.host = exec[x].host /\ vm.state = "paused")
    PROVE  Inv'
<1>1. /\ Control' /\ \A y \in Exec \ {x} : exec'[y] = exec[y]
      /\ exec'[x].pc = "done"
      /\ \A h \in Host : h # exec[x].host => lock'[h] = lock[h]
  BY Leaves DEF Inv
<1>2. Stilled'
  BY <1>1 DEF Inv, Stilled, Quiet
<1>3. PausedIsHeld'
  <2> SUFFICES ASSUME vm.state = "paused", ~stranded
               PROVE  LET y == lock'[vm.host] IN
                      /\ y # <<>>
                      /\ exec'[y].pc \in {"create", "resume"} /\ exec'[y].suspended
    BY DEF PausedIsHeld
  <2>1. PICK y : y = lock[vm.host]
    OBVIOUS
  <2>2. y # <<>> /\ exec[y].pc \in {"create", "resume"} /\ exec[y].suspended
    BY <2>1 DEF Inv, PausedIsHeld
  <2>3. vm.host \in Host /\ y \in Exec /\ exec[y].host = vm.host
    BY <2>1, <2>2 DEF Inv, Control, Types, Around, Locks
  <2>4. y # x
    BY <2>2, <2>3
  <2>5. exec[x].host # vm.host
    BY <2>1, <2>4 DEF Inv, Control, Locks
  <2> QED
    BY <1>1, <2>1, <2>2, <2>3, <2>4, <2>5
<1> QED
  BY <1>1, <1>2, <1>3 DEF Inv

-----------------------------------------------------------------------------
(* The steps of a handler                                                   *)

\* Every step but those of Suspend and Resume leaves the CCVM and PCS alone.
LEMMA AroundKept ==
    ASSUME Around, vm' = vm, dc' = dc, stranded' = stranded,
           Fault \/ NoFault, moves' = moves
    PROVE  Around'
  BY CCVMSnapAssumption DEF Around, Fault, NoFault

LEMMA ResolveKeeps ==
    ASSUME Inv, NEW x \in Exec, Resolve(x)
    PROVE  Inv'
<1>1. /\ op' = op /\ lock' = lock /\ vm' = vm /\ stranded' = stranded /\ taken' = taken
      /\ Around' /\ exec[x].pc = "resolve"
  BY AroundKept DEF Resolve, Refuse, Inv, Control
<1>2. Record(exec[x]) /\ exec[x].host \in Host /\ DOMAIN exec = Exec
  BY <1>1 DEF Inv, Control, Types, Record, AtWork
<1>3. CASE Goto(x, "lock")
  <2>1. /\ DOMAIN exec' = Exec /\ \A y \in Exec \ {x} : exec'[y] = exec[y]
        /\ exec'[x].pc = "lock" /\ Record(exec'[x])
    BY <1>1, <1>2, <1>3, GotoFacts DEF Inv, Record, AtWork, Pc
  <2>2. Control'
    BY <1>1, <2>1, MovesOn DEF Inv, Inside, AtWork
  <2> QED
    BY <1>1, <2>1, <2>2, MovesOnKeeps
<1>4. CASE Refuse(x)
  <2>1. /\ DOMAIN exec' = Exec /\ \A y \in Exec \ {x} : exec'[y] = exec[y]
        /\ exec'[x].pc = "done" /\ Record(exec'[x])
    BY <1>4, EndedFacts DEF Inv, Refuse
  <2>2. Control'
    BY <1>1, <2>1, MovesOn DEF Inv, Inside, AtWork
  <2> QED
    BY <1>1, <2>1, <2>2, MovesOnKeeps
<1>5. CASE /\ Started
           /\ exec' = [exec EXCEPT ![x] = [@ EXCEPT !.pc = "lock", !.started = TRUE,
                                       !.host = vm.host, !.remote = vm.host # exec[x].host]]
  <2>1. vm.host \in Host
    BY <1>5 DEF Inv, Control, Around, Started
  <2>2. /\ DOMAIN exec' = Exec /\ \A y \in Exec \ {x} : exec'[y] = exec[y]
        /\ DOMAIN exec'[x] = Fields /\ exec'[x].pc = "lock" /\ exec'[x].started = TRUE
        /\ exec'[x].host = vm.host /\ exec'[x].remote = (vm.host # exec[x].host)
        /\ exec'[x].res = exec[x].res /\ exec'[x].suspended = exec[x].suspended
        /\ exec'[x].err = exec[x].err
    BY <1>2, <1>5 DEF Record, Fields
  <2>3. Record(exec'[x])
    BY <1>1, <1>2, <2>1, <2>2 DEF Record, AtWork, Pc
  <2>4. Control'
    BY <1>1, <2>2, <2>3, MovesOn DEF Inv, Inside, AtWork
  <2> QED
    BY <1>1, <2>2, <2>4, MovesOnKeeps
<1> QED
  BY <1>3, <1>4, <1>5 DEF Resolve

\* ccvmSnapMu.Lock: the handler is inside.
LEMMA LockKeeps ==
    ASSUME Inv, NEW x \in Exec, Lock(x)
    PROVE  Inv'
<1> DEFINE p == CASE op[x[1]].kind # "backup" -> op[x[1]].kind
                  [] op[x[1]].kind = "backup" /\ op[x[1]].name = AutoName -> "exists"
                  [] OTHER -> "state"
<1>1. /\ op' = op /\ vm' = vm /\ dc' = dc /\ stranded' = stranded /\ taken' = taken
      /\ faults' = faults /\ moves' = moves
      /\ exec[x].pc = "lock" /\ lock[exec[x].host] = <<>>
      /\ lock' = [lock EXCEPT ![exec[x].host] = x] /\ Goto(x, p)
  BY DEF Lock
<1>2. Record(exec[x]) /\ exec[x].host \in Host /\ DOMAIN exec = Exec
  BY <1>1 DEF Inv, Control, Types, Record, AtWork
<1>3. p \in {"list", "rollback", "exists", "state"} /\ (p \in {"list", "rollback"} => p = op[x[1]].kind)
  <2>1. x[1] \in Op /\ op[x[1]].kind # "none"
    BY <1>1, ExecFacts DEF Inv, Control, Kinds, AtWork
  <2>2. op[x[1]].kind \in {"none", "list", "backup", "rollback"}
    BY <2>1 DEF Inv, Control, Types, Ops
  <2> QED
    BY <2>1, <2>2
<1> HIDE DEF p
<1>4. /\ DOMAIN exec' = Exec /\ \A y \in Exec \ {x} : exec'[y] = exec[y]
      /\ exec'[x].pc = p /\ exec'[x].host = exec[x].host
      /\ Record(exec'[x])
  BY <1>1, <1>2, <1>3, GotoFacts DEF Inv, Record, AtWork, Inside, Pc
<1>5. /\ lock' \in [Host -> Exec \cup {<<>>}] /\ lock'[exec[x].host] = x
      /\ \A h \in Host : h # exec[x].host => lock'[h] = lock[h]
  BY <1>1, <1>2 DEF Inv, Control, Types
<1>6. Around'
  BY <1>1 DEF Inv, Control, Around
<1>7. Types'
  <2>1. \A y \in Exec : Record(exec'[y])
    BY <1>4 DEF Inv, Control, Types
  <2> QED
    BY <1>1, <1>4, <1>5, <2>1 DEF Inv, Control, Types, Ops, Record, Exec, Op, Scheduler
<1>8. Locks'
  <2>1. ASSUME NEW y \in Exec, exec'[y].pc \in Inside
        PROVE  lock'[exec'[y].host] = y
    <3>1. CASE y = x
      BY <1>4, <1>5, <3>1
    <3>2. CASE y # x
      <4>1. exec[y].host \in Host /\ lock[exec[y].host] = y /\ exec'[y] = exec[y]
        BY <1>4, <2>1, <3>2 DEF Inv, Control, Types, Record, Locks, AtWork
      <4>2. exec[y].host # exec[x].host
        BY <1>1, <4>1, ExecFacts
      <4> QED
        BY <1>5, <4>1, <4>2
    <3> QED
      BY <3>1, <3>2
  <2>2. ASSUME NEW h \in Host, lock'[h] # <<>>
        PROVE  exec'[lock'[h]].host = h /\ exec'[lock'[h]].pc \in Inside
    <3>1. CASE h = exec[x].host
      BY <1>3, <1>4, <1>5, <3>1 DEF Inside
    <3>2. CASE h # exec[x].host
      <4>1. lock'[h] = lock[h] /\ lock[h] \in Exec
        BY <1>5, <2>2, <3>2 DEF Inv, Control, Types
      <4>2. exec[lock[h]].host = h /\ exec[lock[h]].pc \in Inside
        BY <2>2, <4>1 DEF Inv, Control, Locks
      <4>3. lock[h] # x
        BY <1>1, <4>2 DEF Inside
      <4> QED
        BY <1>4, <4>1, <4>2, <4>3
    <3> QED
      BY <3>1, <3>2
  <2> QED
    BY <2>1, <2>2 DEF Locks
<1>9. Kinds'
  BY <1>1, <1>3, <1>4 DEF Inv, Control, Kinds, AtWork
<1>10. Fresh'
  BY <1>1, <1>3, <1>4, ExecFacts DEF Inv, Control, Fresh
<1>11. Stilled'
  BY <1>1, <1>3, <1>4 DEF Inv, Stilled, Quiet
<1>12. PausedIsHeld'
  <2> SUFFICES ASSUME vm.state = "paused", ~stranded
               PROVE  LET y == lock'[vm.host] IN
                      /\ y # <<>>
                      /\ exec'[y].pc \in {"create", "resume"} /\ exec'[y].suspended
    BY <1>1 DEF PausedIsHeld
  <2>1. PICK y : y = lock[vm.host]
    OBVIOUS
  <2>2. y # <<>> /\ exec[y].pc \in {"create", "resume"} /\ exec[y].suspended
    BY <2>1 DEF Inv, PausedIsHeld
  <2>3. vm.host \in Host /\ y \in Exec
    BY <2>1, <2>2 DEF Inv, Control, Types, Around
  <2>4. y # x /\ vm.host # exec[x].host
    BY <1>1, <2>1, <2>2
  <2> QED
    BY <1>4, <1>5, <2>1, <2>2, <2>3, <2>4
<1> QED
  BY <1>6, <1>7, <1>8, <1>9, <1>10, <1>11, <1>12 DEF Inv, Control

LEMMA ListKeeps ==
    ASSUME Inv, NEW x \in Exec, ListSnapshots(x) \/ Rollback(x)
    PROVE  Inv'
<1>1. /\ op' = op /\ vm' = vm /\ stranded' = stranded /\ taken' = taken /\ Around'
      /\ exec[x].pc \in {"list", "rollback"}
      /\ \E r \in {"ok", "error"} : Finish(x, r)
  BY AroundKept DEF ListSnapshots, Rollback, Inv, Control
<1> QED
  BY <1>1, LeavesKeeps DEF Inside

LEMMA CheckExistsKeeps ==
    ASSUME Inv, NEW x \in Exec, CheckExists(x)
    PROVE  Inv'
<1>1. /\ op' = op /\ vm' = vm /\ stranded' = stranded /\ taken' = taken /\ Around'
      /\ exec[x].pc = "exists"
  BY AroundKept DEF CheckExists, Inv, Control
<1>2. CASE \E r \in {"ok", "error"} : Finish(x, r)
  BY <1>1, <1>2, LeavesKeeps DEF Inside
<1>3. CASE Goto(x, "state") /\ lock' = lock
  <2>1. Record(exec[x])
    BY DEF Inv, Control, Types
  <2>2. /\ DOMAIN exec' = Exec /\ \A y \in Exec \ {x} : exec'[y] = exec[y]
        /\ exec'[x].pc = "state" /\ exec'[x].host = exec[x].host /\ Record(exec'[x])
    BY <1>1, <1>3, <2>1, GotoFacts DEF Inv, Record, AtWork, Inside, Pc
  <2>3. Control'
    BY <1>1, <1>3, <2>2, MovesOn DEF Inv, Inside, AtWork
  <2> QED
    BY <1>1, <1>3, <2>2, <2>3, MovesOnKeeps
<1> QED
  BY <1>2, <1>3 DEF CheckExists

LEMMA ReadStateKeeps ==
    ASSUME Inv, NEW x \in Exec, ReadState(x)
    PROVE  Inv'
<1>1. /\ op' = op /\ vm' = vm /\ stranded' = stranded /\ taken' = taken /\ Around'
      /\ exec[x].pc = "state"
  BY AroundKept DEF ReadState, Inv, Control
<1>2. CASE Finish(x, "error")
  BY <1>1, <1>2, LeavesKeeps DEF Inside
<1>3. CASE \/ Goto(x, "suspend") /\ lock' = lock
           \/ ~exec[x].started /\ Goto(x, "create") /\ lock' = lock
  <2>1. Record(exec[x])
    BY DEF Inv, Control, Types
  <2>2. /\ DOMAIN exec' = Exec /\ \A y \in Exec \ {x} : exec'[y] = exec[y]
        /\ exec'[x].pc \in {"suspend", "create"} /\ exec'[x].host = exec[x].host
        /\ Record(exec'[x])
    BY <1>1, <1>3, <2>1, GotoFacts DEF Inv, Record, AtWork, Inside, Pc
  <2>3. Control'
    BY <1>1, <1>3, <2>2, MovesOn DEF Inv, Inside, AtWork
  <2> QED
    BY <1>1, <1>3, <2>2, <2>3, MovesOnKeeps
<1> QED
  BY <1>2, <1>3 DEF ReadState

\* suspendLocalCCVM: the handler that pauses the CCVM is the one in the mutex of its host.
LEMMA SuspendKeeps ==
    ASSUME Inv, NEW x \in Exec, Suspend(x)
    PROVE  Inv'
<1>1. /\ op' = op /\ dc' = dc /\ taken' = taken /\ exec[x].pc = "suspend"
      /\ moves' = moves /\ (Fault \/ NoFault)
  BY DEF Suspend
<1>2. Record(exec[x]) /\ exec[x].host \in Host /\ lock[exec[x].host] = x
  BY <1>1 DEF Inv, Control, Types, Locks, Record, AtWork, Inside
<1>3. Pause => vm'.host = vm.host /\ vm'.state = "paused"
                 /\ vm' \in [host : Host \cup {NoHost}, state : {"running", "paused", "off"}]
  BY DEF Pause, Inv, Control, Around
<1>4. ASSUME vm' = vm \/ (Pause /\ vm.host = exec[x].host), stranded' = stranded \/ stranded' = TRUE
      PROVE  Around'
  <2>1. /\ vm' \in [host : Host \cup {NoHost}, state : {"running", "paused", "off"}]
        /\ vm'.host = NoHost <=> vm'.state = "off"
    <3>1. CASE vm' = vm
      BY <3>1 DEF Inv, Control, Around
    <3>2. CASE Pause /\ vm.host = exec[x].host
      BY <1>2, <1>3, <3>2, CCVMSnapAssumption
    <3> QED
      BY <1>4, <3>1, <3>2
  <2>2. dc' \in Host /\ stranded' \in BOOLEAN
    BY <1>1, <1>4 DEF Inv, Control, Around
  <2>3. faults' \in 0..MaxFaults /\ moves' \in 0..MaxMoves
    BY <1>1, CCVMSnapAssumption DEF Inv, Control, Around, Fault, NoFault
  <2> QED
    BY <2>1, <2>2, <2>3 DEF Around
<1>5. CASE /\ vm.host = exec[x].host /\ Pause
           /\ exec' = [exec EXCEPT ![x].pc = "create", ![x].suspended = TRUE]
           /\ lock' = lock /\ stranded' = stranded
  <2>1. /\ DOMAIN exec' = Exec /\ \A y \in Exec \ {x} : exec'[y] = exec[y]
        /\ DOMAIN exec'[x] = Fields /\ exec'[x].pc = "create"
        /\ exec'[x].host = exec[x].host /\ exec'[x].res = exec[x].res
        /\ exec'[x].started = exec[x].started /\ exec'[x].remote = exec[x].remote
        /\ exec'[x].suspended = TRUE /\ exec'[x].err = exec[x].err
    BY <1>5 DEF Inv, Control, Types, Record, Fields
  <2>2. Record(exec'[x])
    BY <1>1, <1>2, <2>1 DEF Record, AtWork, Inside, Pc
  <2>3. Control'
    BY <1>1, <1>4, <1>5, <2>1, <2>2, MovesOn DEF Inv, Inside, AtWork
  <2>4. Stilled'
    <3> SUFFICES ASSUME NEW y \in Exec,
                        \/ exec'[y].pc = "resume" /\ ~exec'[y].err /\ vm'.host = exec'[y].host
                        \/ exec'[y].pc \in {"clean", "remove"} /\ exec'[y].started
                 PROVE  Quiet(y)'
      BY DEF Stilled
    <3>1. y # x /\ exec'[y] = exec[y]
      BY <2>1
    <3>2. exec[y].pc \in Inside /\ lock[exec[y].host] = y
      BY <3>1 DEF Inv, Control, Locks, Inside
    <3>3. exec[y].host # vm'.host
      BY <1>2, <1>3, <1>5, <3>1, <3>2
    <3> QED
      BY <1>1, <3>1, <3>3 DEF Inv, Stilled, Quiet
  <2>5. PausedIsHeld'
    BY <1>2, <1>3, <1>5, <2>1, ExecFacts DEF PausedIsHeld
  <2> QED
    BY <2>3, <2>4, <2>5 DEF Inv
<1>6. CASE Finish(x, "error") /\ vm' = vm /\ stranded' = stranded
  <2>1. Around'
    BY <1>4, <1>6
  <2> QED
    BY <1>1, <1>6, <2>1, LeavesKeeps DEF Inside
<1>7. CASE Finish(x, "error") /\ vm.host = exec[x].host /\ Pause /\ stranded' = TRUE
  <2>1. Control' /\ exec'[x].pc = "done" /\ \A y \in Exec \ {x} : exec'[y] = exec[y]
    BY <1>1, <1>4, <1>7, Leaves DEF Inv, Inside
  <2>2. Stilled'
    <3> SUFFICES ASSUME NEW y \in Exec,
                        \/ exec'[y].pc = "resume" /\ ~exec'[y].err /\ vm'.host = exec'[y].host
                        \/ exec'[y].pc \in {"clean", "remove"} /\ exec'[y].started
                 PROVE  Quiet(y)'
      BY DEF Stilled
    <3>1. y # x /\ exec'[y] = exec[y]
      BY <2>1
    <3>2. exec[y].pc \in Inside /\ lock[exec[y].host] = y
      BY <3>1 DEF Inv, Control, Locks, Inside
    <3>3. exec[y].host # vm'.host
      BY <1>2, <1>3, <1>7, <3>1, <3>2
    <3> QED
      BY <1>1, <3>1, <3>3 DEF Inv, Stilled, Quiet
  <2> QED
    BY <1>7, <2>1, <2>2 DEF Inv, PausedIsHeld
<1> QED
  BY <1>5, <1>6, <1>7 DEF Suspend

\* rbd snap create: what it has taken of a paused CCVM is quiet.
LEMMA CreateKeeps ==
    ASSUME Inv, NEW x \in Exec, Create(x)
    PROVE  Inv'
<1>1. /\ op' = op /\ vm' = vm /\ stranded' = stranded /\ Around'
      /\ exec[x].pc = "create"
  BY AroundKept DEF Create, Inv, Control
<1>2. Record(exec[x])
  BY DEF Inv, Control, Types
<1>3. PICK failed \in BOOLEAN : /\ AfterCreate(x, failed)
                                /\ taken' = taken \/ Created(x)
                                /\ ~failed => Created(x)
  BY DEF Create
<1>4. taken \subseteq taken'
  BY <1>3 DEF Created
<1>5. ASSUME vm.state = "paused", ~failed
      PROVE  Quiet(x)'
  <2>1. [by |-> x, live |-> vm.state = "running"] \in taken'
    BY <1>3, <1>5 DEF Created
  <2>2. PICK t \in taken' : t = [by |-> x, live |-> vm.state = "running"]
    BY <2>1
  <2>3. t.by = x /\ ~t.live
    BY <1>5, <2>2
  <2> QED
    BY <2>3 DEF Quiet
<1>6. CASE exec[x].suspended
  <2>1. /\ exec' = [exec EXCEPT ![x].pc = "resume", ![x].err = failed] /\ lock' = lock
    BY <1>3, <1>6 DEF AfterCreate
  <2>2. /\ DOMAIN exec' = Exec /\ \A y \in Exec \ {x} : exec'[y] = exec[y]
        /\ DOMAIN exec'[x] = Fields /\ exec'[x].pc = "resume" /\ exec'[x].err = failed
        /\ exec'[x].host = exec[x].host /\ exec'[x].res = exec[x].res
        /\ exec'[x].started = exec[x].started /\ exec'[x].remote = exec[x].remote
        /\ exec'[x].suspended = exec[x].suspended
    BY <1>2, <2>1 DEF Inv, Control, Types, Record, Fields
  <2>3. Record(exec'[x])
    BY <1>1, <1>2, <1>3, <1>6, <2>2 DEF Record, AtWork, Inside, Pc
  <2>4. Control'
    BY <1>1, <2>1, <2>2, <2>3, MovesOn DEF Inv, Inside, AtWork
  <2> QED
    BY <1>1, <1>4, <1>5, <1>6, <2>1, <2>2, <2>4, MovesOnKeeps
<1>7. CASE ~exec[x].suspended /\ failed
  <2>1. Finish(x, "error")
    BY <1>3, <1>7 DEF AfterCreate
  <2> QED
    BY <1>1, <1>4, <1>7, <2>1, LeavesKeeps DEF Inside
<1>8. CASE ~exec[x].suspended /\ ~failed
  <2>1. Goto(x, "clean") /\ lock' = lock
    BY <1>3, <1>8 DEF AfterCreate
  <2>2. /\ DOMAIN exec' = Exec /\ \A y \in Exec \ {x} : exec'[y] = exec[y]
        /\ exec'[x].pc = "clean" /\ exec'[x].host = exec[x].host
        /\ exec'[x].started = exec[x].started
        /\ Record(exec'[x])
    BY <1>1, <1>2, <2>1, GotoFacts DEF Inv, Record, AtWork, Inside, Pc
  <2>3. ~exec[x].started
    BY <1>1, <1>2, <1>8 DEF Record
  <2>4. Control'
    BY <1>1, <2>1, <2>2, MovesOn DEF Inv, Inside, AtWork
  <2> QED
    BY <1>1, <1>4, <1>8, <2>1, <2>2, <2>3, <2>4, MovesOnKeeps
<1> QED
  BY <1>2, <1>6, <1>7, <1>8 DEF Record

LEMMA ResumeKeeps ==
    ASSUME Inv, NEW x \in Exec, Resume(x)
    PROVE  Inv'
<1> DEFINE paused == DomState(exec[x].host) = "paused"
           Wake == vm' = [vm EXCEPT !.state = "running"]
<1>1. /\ op' = op /\ dc' = dc /\ taken' = taken /\ exec[x].pc = "resume"
      /\ moves' = moves /\ (Fault \/ NoFault)
  BY DEF Resume
<1>2. Record(exec[x]) /\ exec[x].host \in Host /\ lock[exec[x].host] = x
  BY <1>1 DEF Inv, Control, Types, Locks, Record, AtWork, Inside
<1>3. paused => vm.host = exec[x].host /\ vm.state = "paused"
  BY DEF DomState
<1>4. ~paused => ~(vm.host = exec[x].host /\ vm.state = "paused")
  BY DEF DomState
<1> HIDE DEF paused
<1>5. ASSUME vm' = vm \/ (paused /\ Wake), stranded' \in BOOLEAN
      PROVE  Around'
  <2>1. /\ vm' \in [host : Host \cup {NoHost}, state : {"running", "paused", "off"}]
        /\ vm'.host = NoHost <=> vm'.state = "off"
    <3>1. CASE vm' = vm
      BY <3>1 DEF Inv, Control, Around
    <3>2. CASE paused /\ Wake
      BY <1>2, <1>3, <3>2, CCVMSnapAssumption DEF Inv, Control, Around
    <3> QED
      BY <1>5, <3>1, <3>2
  <2>2. dc' \in Host
    BY <1>1 DEF Inv, Control, Around
  <2>3. faults' \in 0..MaxFaults /\ moves' \in 0..MaxMoves
    BY <1>1, CCVMSnapAssumption DEF Inv, Control, Around, Fault, NoFault
  <2> QED
    BY <1>5, <2>1, <2>2, <2>3 DEF Around
<1>6. CASE ~paused /\ Finish(x, "error") /\ vm' = vm /\ stranded' = stranded
  <2>1. Around'
    BY <1>5, <1>6 DEF Inv, Control, Around
  <2> QED
    BY <1>1, <1>4, <1>6, <2>1, LeavesKeeps DEF Inside
<1>7. CASE paused /\ Wake /\ stranded' = FALSE /\ \E r \in {"ok", "error"} : Finish(x, r)
  <2>1. Around'
    BY <1>5, <1>7
  <2>2. Control' /\ exec'[x].pc = "done" /\ \A y \in Exec \ {x} : exec'[y] = exec[y]
    BY <1>1, <1>7, <2>1, Leaves DEF Inv, Inside
  <2>3. vm'.state = "running"
    BY <1>7 DEF Inv, Control, Around
  <2> QED
    BY <1>1, <2>2, <2>3 DEF Inv, Stilled, Quiet, PausedIsHeld
<1>8. CASE /\ paused /\ Wake /\ stranded' = FALSE
           /\ ~exec[x].err /\ Goto(x, "clean") /\ lock' = lock
  <2>1. Around'
    BY <1>5, <1>8
  <2>2. /\ DOMAIN exec' = Exec /\ \A y \in Exec \ {x} : exec'[y] = exec[y]
        /\ exec'[x].pc = "clean" /\ exec'[x].host = exec[x].host
        /\ Record(exec'[x])
    BY <1>1, <1>2, <1>8, GotoFacts DEF Inv, Record, AtWork, Inside, Pc
  <2>3. Control'
    BY <1>1, <1>8, <2>1, <2>2, MovesOn DEF Inv, Inside, AtWork
  <2>4. vm'.state = "running"
    BY <1>8 DEF Inv, Control, Around
  <2>5. Quiet(x)
    BY <1>1, <1>3, <1>8 DEF Inv, Stilled
  <2>6. Stilled'
    BY <1>1, <2>2, <2>4, <2>5 DEF Inv, Stilled, Quiet
  <2> QED
    BY <2>3, <2>4, <2>6 DEF Inv, PausedIsHeld
<1>9. CASE Finish(x, "error") /\ vm' = vm /\ stranded' = (stranded \/ paused)
  <2>1. paused \in BOOLEAN
    BY DEF paused
  <2>2. Around'
    BY <1>5, <1>9, <2>1 DEF Inv, Control, Around
  <2>3. CASE paused
    <3>1. Control' /\ exec'[x].pc = "done" /\ \A y \in Exec \ {x} : exec'[y] = exec[y]
      BY <1>1, <1>9, <2>2, Leaves DEF Inv, Inside
    <3>2. stranded'
      BY <1>9, <2>3
    <3> QED
      BY <1>1, <1>9, <3>1, <3>2 DEF Inv, Stilled, Quiet, PausedIsHeld
  <2>4. CASE ~paused
    <3>1. stranded' = stranded
      BY <1>9, <2>4 DEF Inv, Control, Around
    <3> QED
      BY <1>1, <1>4, <1>9, <2>2, <2>4, <3>1, LeavesKeeps DEF Inside
  <2> QED
    BY <2>3, <2>4
<1> QED
  <2>1. exec[x].err \in BOOLEAN
    BY <1>2 DEF Record
  <2> QED
    BY <1>6, <1>7, <1>8, <1>9, <2>1, Zenon DEF Resume, paused

LEMMA CleanKeeps ==
    ASSUME Inv, NEW x \in Exec, ListExcess(x) \/ RemoveOld(x)
    PROVE  Inv'
<1>1. /\ op' = op /\ vm' = vm /\ stranded' = stranded /\ taken' = taken /\ Around'
      /\ exec[x].pc \in {"clean", "remove"}
  BY AroundKept DEF ListExcess, RemoveOld, Inv, Control
<1>2. Record(exec[x])
  BY DEF Inv, Control, Types
<1>3. CASE \E r \in {"ok", "error"} : Finish(x, r)
  BY <1>1, <1>3, LeavesKeeps DEF Inside
<1>4. CASE \E todo : /\ \/ exec' = [exec EXCEPT ![x].pc = "remove", ![x].todo = todo]
                        \/ exec' = [exec EXCEPT ![x].todo = todo]
                     /\ lock' = lock
  <2>1. /\ DOMAIN exec' = Exec /\ \A y \in Exec \ {x} : exec'[y] = exec[y]
        /\ DOMAIN exec'[x] = Fields /\ exec'[x].pc \in {"clean", "remove"}
        /\ exec'[x].host = exec[x].host /\ exec'[x].res = exec[x].res
        /\ exec'[x].started = exec[x].started /\ exec'[x].remote = exec[x].remote
        /\ exec'[x].suspended = exec[x].suspended /\ exec'[x].err = exec[x].err
    BY <1>1, <1>2, <1>4 DEF Inv, Control, Types, Record, Fields
  <2>2. Record(exec'[x])
    BY <1>1, <1>2, <2>1 DEF Record, AtWork, Inside, Pc
  <2>3. Control'
    BY <1>1, <1>4, <2>1, <2>2, MovesOn DEF Inv, Inside, AtWork
  <2>4. exec'[x].started => Quiet(x)'
    BY <1>1, <2>1 DEF Inv, Stilled, Quiet
  <2> QED
    BY <1>1, <1>4, <2>1, <2>3, <2>4, MovesOnKeeps
<1> QED
  BY <1>3, <1>4, Zenon DEF ListExcess, RemoveOld

LEMMA ForwardLostKeeps ==
    ASSUME Inv, NEW x \in Exec, ForwardLost(x)
    PROVE  Inv'
<1>1. /\ op' = op /\ lock' = lock /\ vm' = vm /\ stranded' = stranded /\ taken' = taken
      /\ Around' /\ exec[x].pc \notin {"idle", "resolve", "done"}
      /\ exec' = [exec EXCEPT ![x].res = "error"]
  BY AroundKept DEF ForwardLost, Inv, Control
<1>2. Record(exec[x])
  BY DEF Inv, Control, Types
<1>3. /\ DOMAIN exec' = Exec /\ \A y \in Exec \ {x} : exec'[y] = exec[y]
      /\ DOMAIN exec'[x] = Fields /\ exec'[x].pc = exec[x].pc
      /\ exec'[x].host = exec[x].host /\ exec'[x].res = "error"
      /\ exec'[x].started = exec[x].started /\ exec'[x].remote = exec[x].remote
      /\ exec'[x].suspended = exec[x].suspended /\ exec'[x].err = exec[x].err
  BY <1>1, <1>2 DEF Inv, Control, Types, Record, Fields
<1>4. Record(exec'[x]) /\ exec[x].pc \in AtWork
  BY <1>1, <1>2, <1>3 DEF Record, Pc
<1>5. exec[x].pc \in {"list", "rollback"} => op[x[1]].kind = exec[x].pc
  BY DEF Inv, Control, Kinds
<1>6. Control'
  BY <1>1, <1>3, <1>4, <1>5, MovesOn DEF Inv
<1>7. /\ exec'[x].pc \in {"clean", "remove"} /\ exec'[x].started => Quiet(x)'
      /\ exec'[x].pc = "resume" /\ ~exec'[x].err /\ vm.host = exec'[x].host
              /\ vm.state = "paused" => Quiet(x)'
  BY <1>1, <1>3 DEF Inv, Stilled, Quiet
<1> QED
  BY <1>1, <1>3, <1>6, <1>7, MovesOnKeeps

\* The API server of a host restarts: nobody is left in its mutex.
LEMMA ServerRestartsKeeps ==
    ASSUME Inv, NEW h \in Host, ServerRestarts(h)
    PROVE  Inv'
<1> DEFINE lost == {x \in Exec : exec[x].host = h /\ exec[x].pc \notin {"idle", "done"}}
           asked == {o \in Client : op[o].pc = "wait" /\ Targets[op[o].next] = h /\ op[o].entry # h}
           own == {o \in Op : op[o].pc \in {"via", "wait"} /\ op[o].entry = h}
<1>1. /\ vm' = vm /\ dc' = dc /\ taken' = taken /\ moves' = moves /\ Fault
      /\ stranded' = (stranded \/ (vm.host = h /\ vm.state = "paused"))
      /\ lock' = [lock EXCEPT ![h] = <<>>]
  BY DEF ServerRestarts
<1>2. /\ DOMAIN exec' = Exec
      /\ \A x \in lost : exec'[x] = Ended(x, "error")
      /\ \A x \in Exec \ lost : exec'[x] = exec[x]
  BY DEF ServerRestarts
<1>3. \A x \in Exec : Record(exec[x])
  BY DEF Inv, Control, Types
<1>4. ASSUME NEW x \in lost
      PROVE  exec'[x].pc = "done" /\ Record(exec'[x])
  <2>1. DOMAIN [exec EXCEPT ![x] = Ended(x, "error")] = Exec
    BY DEF Inv, Control, Types
  <2>2. /\ DOMAIN Ended(x, "error") = Fields /\ Ended(x, "error").pc = "done"
        /\ Ended(x, "error").host = NoHost
        /\ Ended(x, "error").res = IF exec[x].res = "none" THEN "error" ELSE exec[x].res
        /\ {Ended(x, "error").started, Ended(x, "error").remote,
            Ended(x, "error").suspended, Ended(x, "error").err} \subseteq BOOLEAN
    BY DEF Ended, Idle, Fields
  <2>3. exec[x].res \in {"none", "ok", "error"} /\ exec'[x] = Ended(x, "error")
    BY <1>2, <1>3 DEF Record
  <2> QED
    BY <2>2, <2>3 DEF Record, AtWork, Inside, Pc
<1>5. op' = [o \in Op |-> IF o \in own THEN [op[o] EXCEPT !.pc = "done", !.ans = "error"]
                          ELSE IF o \in asked THEN [op[o] EXCEPT !.pc = "via", !.next = @ + 1]
                          ELSE op[o]]
  BY DEF ServerRestarts
<1>6. op \in [Op -> Ops] /\ \A o \in asked : o \in Op /\ op[o].pc = "wait" /\ op[o].next <= Len(Targets)
  BY DEF Inv, Control, Types, Op
<1>7. ASSUME NEW o \in Op
      PROVE  /\ op'[o] \in Ops /\ op'[o].kind = op[o].kind
             /\ \/ op'[o].pc = "done"
                \/ op[o].pc = "wait" /\ op'[o].pc = "via" /\ op'[o].next = op[o].next + 1
                \/ op'[o] = op[o]
  <2>1. op[o] \in Ops
    BY <1>6
  <2>2. CASE o \in own
    <3>1. op'[o] = [op[o] EXCEPT !.pc = "done", !.ans = "error"]
      BY <1>5, <2>2
    <3> QED
      BY <2>1, <3>1 DEF Ops
  <2>3. CASE o \notin own /\ o \in asked
    <3>1. op'[o] = [op[o] EXCEPT !.pc = "via", !.next = @ + 1]
      BY <1>5, <2>3
    <3>2. op[o].next + 1 \in 1..(Len(Targets) + 1)
      BY <1>6, <2>1, <2>3, ExecFacts DEF Ops
    <3> QED
      BY <1>6, <2>1, <2>3, <3>1, <3>2 DEF Ops
  <2>4. CASE o \notin own /\ o \notin asked
    BY <1>5, <2>1, <2>4
  <2> QED
    BY <2>2, <2>3, <2>4
<1>8. op' \in [Op -> Ops]
  BY <1>5, <1>7
<1> HIDE DEF asked, own
<1>9. Around'
  BY <1>1, CCVMSnapAssumption DEF Inv, Control, Around, Fault
<1>10. Types'
  <2>1. \A x \in Exec : Record(exec'[x])
    BY <1>2, <1>3, <1>4
  <2>2. \A o \in Op : op'[o].pc \in {"via", "wait"} => op'[o].kind # "none"
    BY <1>7 DEF Inv, Control, Types
  <2>3. \A o \in Op : op'[o].pc = "wait" => op'[o].next <= Len(Targets)
    BY <1>7 DEF Inv, Control, Types, Op
  <2>4. lock' \in [Host -> Exec \cup {<<>>}]
    BY <1>1 DEF Inv, Control, Types
  <2> QED
    BY <1>2, <1>8, <2>1, <2>2, <2>3, <2>4 DEF Types, Ops, Record, Exec, Op, Scheduler
<1>11. /\ lock'[h] = <<>> /\ \A k \in Host : k # h => lock'[k] = lock[k]
       /\ \A x \in Exec : exec[x].pc \in AtWork /\ exec[x].host # h => exec'[x] = exec[x]
       /\ \A x \in Exec : exec'[x].pc \in AtWork => exec'[x] = exec[x] /\ exec[x].host # h
  BY <1>1, <1>2, <1>4 DEF Inv, Control, Types, AtWork, Inside
<1> HIDE DEF lost
<1>12. Locks'
  <2>1. ASSUME NEW x \in Exec, exec'[x].pc \in Inside
        PROVE  lock'[exec'[x].host] = x
    BY <1>3, <1>11, <2>1 DEF Inv, Control, Locks, Record, AtWork
  <2>2. ASSUME NEW k \in Host, lock'[k] # <<>>
        PROVE  exec'[lock'[k]].host = k /\ exec'[lock'[k]].pc \in Inside
    <3>1. k # h /\ lock'[k] = lock[k] /\ lock[k] \in Exec
      BY <1>11, <2>2 DEF Inv, Control, Types
    <3>2. exec[lock[k]].host = k /\ exec[lock[k]].pc \in Inside
      BY <2>2, <3>1 DEF Inv, Control, Locks
    <3> QED
      BY <1>11, <3>1, <3>2 DEF AtWork
  <2> QED
    BY <2>1, <2>2 DEF Locks
<1>13. Kinds'
  BY <1>7, <1>11, ExecFacts DEF Inv, Control, Kinds, AtWork, Inside
<1>14. Fresh'
  <2> SUFFICES ASSUME NEW o \in Op, NEW n \in 1..Len(Targets),
                      \/ op'[o].pc = "none"
                      \/ op'[o].pc = "via" /\ n >= op'[o].next
                      \/ op'[o].pc = "wait" /\ n > op'[o].next
               PROVE  exec'[<<o, n>>].pc = "idle"
    BY DEF Fresh
  <2>1. \/ op[o].pc = "none"
        \/ op[o].pc = "via" /\ n >= op[o].next
        \/ op[o].pc = "wait" /\ n > op[o].next
    BY <1>6, <1>7, ExecFacts DEF Ops
  <2>2. exec[<<o, n>>].pc = "idle" /\ <<o, n>> \in Exec
    BY <2>1, ExecFacts DEF Inv, Control, Fresh
  <2> QED
    BY <1>2, <2>2 DEF lost
<1>15. Stilled'
  BY <1>1, <1>11 DEF Inv, Stilled, Quiet, AtWork, Inside
<1>16. PausedIsHeld'
  <2> SUFFICES ASSUME vm.state = "paused", ~stranded'
               PROVE  LET y == lock'[vm.host] IN
                      /\ y # <<>>
                      /\ exec'[y].pc \in {"create", "resume"} /\ exec'[y].suspended
    BY <1>1 DEF PausedIsHeld
  <2>1. PICK y : y = lock[vm.host]
    OBVIOUS
  <2>2. y # <<>> /\ exec[y].pc \in {"create", "resume"} /\ exec[y].suspended
    BY <1>1, <2>1 DEF Inv, PausedIsHeld
  <2>3. vm.host \in Host
    BY DEF Inv, Control, Around
  <2>4. y \in Exec /\ exec[y].host = vm.host
    BY <2>1, <2>2, <2>3 DEF Inv, Control, Types, Locks
  <2>5. vm.host # h
    BY <1>1
  <2> QED
    BY <1>11, <2>1, <2>2, <2>3, <2>4, <2>5 DEF AtWork, Inside
<1> QED
  BY <1>9, <1>10, <1>12, <1>13, <1>14, <1>15, <1>16 DEF Inv, Control

-----------------------------------------------------------------------------
(* The steps of a request, and of PCS                                       *)

\* A request goes on, and no handler begins.
LEMMA RequestMoves ==
    ASSUME Inv, NEW o \in Op, NEW s \in Ops, op' = [op EXCEPT ![o] = s],
           UNCHANGED <<exec, lock, vm, dc, taken, stranded, moves>>, Fault \/ NoFault,
           s.kind = op[o].kind \/ op[o].pc = "none",
           s.pc \in {"via", "wait"} => s.kind # "none",
           s.pc \in {"via", "done"},
           \A n \in 1..Len(Targets) : s.pc = "via" /\ n >= s.next => exec[<<o, n>>].pc = "idle"
    PROVE  Inv'
<1>1. op' \in [Op -> Ops] /\ op'[o] = s /\ \A p \in Op \ {o} : op'[p] = op[p]
  BY DEF Inv, Control, Types
<1>2. Around'
  BY AroundKept DEF Inv, Control
<1>3. Types'
  <2>1. \A x \in Exec : Record(exec'[x])
    BY DEF Inv, Control, Types
  <2>2. /\ \A p \in Op : op'[p].pc = "wait" => op'[p].next <= Len(Targets)
        /\ \A p \in Op : op'[p].pc \in {"via", "wait"} => op'[p].kind # "none"
    BY <1>1 DEF Inv, Control, Types, Op
  <2> QED
    BY <1>1, <2>1, <2>2 DEF Inv, Control, Types, Ops, Record, Exec, Op, Scheduler
<1>4. Locks'
  BY DEF Inv, Control, Locks
<1>5. Kinds'
  <2> SUFFICES ASSUME NEW x \in Exec
               PROVE  /\ exec[x].pc \in {"list", "rollback"} => op'[x[1]].kind = exec[x].pc
                      /\ exec[x].pc \in AtWork => op'[x[1]].kind # "none"
    BY DEF Kinds
  <2>1. CASE x[1] = o /\ op[o].pc = "none"
    BY <2>1, ExecFacts DEF Inv, Control, Fresh, AtWork, Inside
  <2>2. CASE ~(x[1] = o /\ op[o].pc = "none")
    <3>1. op'[x[1]].kind = op[x[1]].kind
      BY <1>1, <2>2, ExecFacts
    <3> QED
      BY <3>1 DEF Inv, Control, Kinds
  <2> QED
    BY <2>1, <2>2
<1>6. Fresh'
  <2> SUFFICES ASSUME NEW p \in Op, NEW m \in 1..Len(Targets),
                      \/ op'[p].pc = "none"
                      \/ op'[p].pc = "via" /\ m >= op'[p].next
                      \/ op'[p].pc = "wait" /\ m > op'[p].next
               PROVE  exec'[<<p, m>>].pc = "idle"
    BY DEF Fresh
  <2>1. CASE p = o
    BY <1>1, <2>1
  <2>2. CASE p # o
    BY <1>1, <2>2 DEF Inv, Control, Fresh
  <2> QED
    BY <2>1, <2>2
<1> QED
  BY <1>2, <1>3, <1>4, <1>5, <1>6 DEF Inv, Control, Stilled, Quiet, PausedIsHeld

\* A target is called: its handler begins.
LEMMA HandlerBegins ==
    ASSUME Inv, NEW o \in Op, NEW s \in Ops, op' = [op EXCEPT ![o] = s],
           UNCHANGED <<lock, vm, dc, taken, stranded, moves>>, Fault \/ NoFault,
           NEW n \in 1..Len(Targets), NEW h \in Host,
           exec' = [exec EXCEPT ![<<o, n>>] = [Idle EXCEPT !.pc = "resolve", !.host = h]],
           \/ op[o].pc = "none"
           \/ op[o].pc = "via" /\ n = op[o].next /\ s.kind = op[o].kind,
           s.kind # "none", s.pc = "wait", s.next = n
    PROVE  Inv'
<1>1. op' \in [Op -> Ops] /\ op'[o] = s /\ \A p \in Op \ {o} : op'[p] = op[p]
  BY DEF Inv, Control, Types
<1>2. <<o, n>> \in Exec /\ exec[<<o, n>>].pc = "idle"
      /\ \A m \in 1..Len(Targets) : m >= n => exec[<<o, m>>].pc = "idle"
  BY ExecFacts DEF Inv, Control, Fresh
<1>3. PICK x : x = <<o, n>>
  OBVIOUS
<1>4. /\ DOMAIN exec' = Exec /\ \A y \in Exec \ {x} : exec'[y] = exec[y]
      /\ exec'[x].pc = "resolve" /\ exec'[x].host = h /\ Record(exec'[x])
  <2>1. PICK r : r = [Idle EXCEPT !.pc = "resolve", !.host = h]
    OBVIOUS
  <2>2. /\ DOMAIN r = Fields /\ r.pc = "resolve" /\ r.host = h /\ r.res = "none"
        /\ ~r.started /\ ~r.remote /\ ~r.suspended /\ ~r.err
        /\ {r.started, r.remote, r.suspended, r.err} \subseteq BOOLEAN
    BY <2>1 DEF Idle, Fields
  <2>3. Record(r)
    BY <2>2 DEF Record, AtWork, Inside, Pc
  <2> QED
    BY <1>2, <1>3, <2>1, <2>2, <2>3 DEF Inv, Control, Types
<1>5. Around'
  BY AroundKept DEF Inv, Control
<1>6. Types'
  <2>1. \A y \in Exec : Record(exec'[y])
    BY <1>4 DEF Inv, Control, Types
  <2>2. /\ \A p \in Op : op'[p].pc = "wait" => op'[p].next <= Len(Targets)
        /\ \A p \in Op : op'[p].pc \in {"via", "wait"} => op'[p].kind # "none"
    BY <1>1, ExecFacts DEF Inv, Control, Types, Op
  <2> QED
    BY <1>1, <1>4, <2>1, <2>2 DEF Inv, Control, Types, Ops, Record, Exec, Op, Scheduler
<1>7. Locks'
  <2>1. ASSUME NEW y \in Exec, exec'[y].pc \in Inside
        PROVE  lock'[exec'[y].host] = y
    BY <1>4, <2>1 DEF Inv, Control, Locks, Inside
  <2>2. ASSUME NEW k \in Host, lock'[k] # <<>>
        PROVE  exec'[lock'[k]].host = k /\ exec'[lock'[k]].pc \in Inside
    <3>1. lock[k] \in Exec /\ exec[lock[k]].host = k /\ exec[lock[k]].pc \in Inside
      BY <2>2 DEF Inv, Control, Types, Locks
    <3> QED
      BY <1>2, <1>3, <1>4, <3>1 DEF Inside
  <2> QED
    BY <2>1, <2>2 DEF Locks
<1>8. Kinds'
  <2> SUFFICES ASSUME NEW y \in Exec
               PROVE  /\ exec'[y].pc \in {"list", "rollback"} => op'[y[1]].kind = exec'[y].pc
                      /\ exec'[y].pc \in AtWork => op'[y[1]].kind # "none"
    BY DEF Kinds
  <2>1. CASE y = x
    BY <1>1, <1>3, <1>4, <2>1
  <2>2. CASE y # x /\ y[1] = o /\ op[o].pc = "none"
    <3>1. y = <<o, y[2]>> /\ y[2] \in 1..Len(Targets)
      BY <2>2, ExecFacts
    <3>2. exec[<<o, y[2]>>].pc = "idle"
      BY <2>2, <3>1 DEF Inv, Control, Fresh
    <3> QED
      BY <1>4, <2>2, <3>1, <3>2 DEF AtWork, Inside
  <2>3. CASE y # x /\ ~(y[1] = o /\ op[o].pc = "none")
    <3>1. op'[y[1]].kind = op[y[1]].kind /\ exec'[y] = exec[y]
      BY <1>1, <1>4, <2>3, ExecFacts
    <3> QED
      BY <3>1 DEF Inv, Control, Kinds
  <2> QED
    BY <2>1, <2>2, <2>3
<1>9. Fresh'
  <2> SUFFICES ASSUME NEW p \in Op, NEW m \in 1..Len(Targets),
                      \/ op'[p].pc = "none"
                      \/ op'[p].pc = "via" /\ m >= op'[p].next
                      \/ op'[p].pc = "wait" /\ m > op'[p].next
               PROVE  exec'[<<p, m>>].pc = "idle"
    BY DEF Fresh
  <2>1. CASE p = o
    <3>1. m > n
      BY <1>1, <2>1
    <3>2. <<p, m>> # x /\ <<p, m>> \in Exec
      BY <1>3, <3>1, ExecFacts
    <3> QED
      BY <1>2, <1>4, <2>1, <3>1, <3>2
  <2>2. CASE p # o
    <3>1. <<p, m>> # x /\ <<p, m>> \in Exec
      BY <1>3, <2>2, ExecFacts
    <3> QED
      BY <1>1, <1>4, <2>2, <3>1 DEF Inv, Control, Fresh
  <2> QED
    BY <2>1, <2>2
<1>10. Stilled'
  BY <1>4 DEF Inv, Stilled, Quiet
<1>11. PausedIsHeld'
  BY <1>2, <1>3, <1>4 DEF Inv, Control, Types, Around, PausedIsHeld
<1> QED
  BY <1>5, <1>6, <1>7, <1>8, <1>9, <1>10, <1>11 DEF Inv, Control

LEMMA CCVMSnapKeeps ==
    ASSUME Inv, NEW o \in Client, CCVMSnap(o)
    PROVE  Inv'
<1>1. PICK e \in Entry, r \in Requests :
         op' = [op EXCEPT ![o] = [NoOp EXCEPT !.pc = "via", !.kind = r[1], !.name = r[2],
                                              !.entry = e]]
  BY DEF CCVMSnap
<1>2. PICK s : s = [NoOp EXCEPT !.pc = "via", !.kind = r[1], !.name = r[2], !.entry = e]
  OBVIOUS
<1>3. /\ r[1] \in {"list", "backup", "rollback"}
      /\ r[2] \in {<<>>, Named, AutoName, <<"s1">>} /\ e \in Host
  BY CCVMSnapAssumption DEF Requests
<1>4. s \in Ops /\ s.pc = "via" /\ s.kind # "none"
  <2>1. s = [pc |-> "via", kind |-> r[1], name |-> r[2], entry |-> e, next |-> 1,
             ans |-> "none"]
    BY <1>2 DEF NoOp
  <2>2. 1 \in 1..(Len(Targets) + 1)
    BY ExecFacts
  <2> QED
    BY <1>3, <2>1, <2>2 DEF Ops
<1>5. /\ UNCHANGED <<exec, lock, vm, dc, taken, stranded, moves>> /\ NoFault
      /\ op[o].pc = "none" /\ o \in Op
  BY DEF CCVMSnap, NoFault, Op
<1>6. \A n \in 1..Len(Targets) : exec[<<o, n>>].pc = "idle"
  BY <1>5 DEF Inv, Control, Fresh
<1> QED
  BY <1>1, <1>2, <1>4, <1>5, <1>6, RequestMoves

\* A request that asks the next target, or is answered.
LEMMA AskOrAnswerKeeps ==
    ASSUME Inv, NEW o \in Op,
           \/ /\ \E a \in {"ok", "error"} : Answer(o, a)
              /\ op[o].pc # "none"
           \/ /\ AskNext(o) /\ op[o].pc \in {"via", "wait"}
              /\ op[o].next <= Len(Targets),
           UNCHANGED <<exec, lock, vm, dc, taken, stranded, moves>>, Fault \/ NoFault
    PROVE  Inv'
<1>1. op[o] \in Ops /\ op \in [Op -> Ops]
  BY DEF Inv, Control, Types
<1>2. CASE (\E a \in {"ok", "error"} : Answer(o, a)) /\ op[o].pc # "none"
  <2>1. PICK a \in {"ok", "error"} : op' = [op EXCEPT ![o].pc = "done", ![o].ans = a]
    BY <1>2 DEF Answer
  <2>2. PICK s : s = [op[o] EXCEPT !.pc = "done", !.ans = a]
    OBVIOUS
  <2>3. s \in Ops /\ s.pc = "done" /\ s.kind = op[o].kind
    BY <1>1, <2>2 DEF Ops
  <2>4. op' = [op EXCEPT ![o] = s]
    BY <1>1, <2>1, <2>2
  <2> QED
    BY <2>3, <2>4, RequestMoves
<1>3. CASE AskNext(o) /\ op[o].pc \in {"via", "wait"} /\ op[o].next <= Len(Targets)
  <2>1. op' = [op EXCEPT ![o].pc = "via", ![o].next = @ + 1]
    BY <1>3 DEF AskNext
  <2>2. PICK s : s = [op[o] EXCEPT !.pc = "via", !.next = @ + 1]
    OBVIOUS
  <2>3. /\ s \in Ops /\ s.pc = "via" /\ s.kind = op[o].kind
        /\ s.next = op[o].next + 1
    <3>1. op[o].next + 1 \in 1..(Len(Targets) + 1)
      BY <1>1, <1>3, ExecFacts DEF Ops
    <3> QED
      BY <1>1, <2>2, <3>1 DEF Ops
  <2>4. op' = [op EXCEPT ![o] = s]
    BY <1>1, <2>1, <2>2
  <2>5. ASSUME NEW n \in 1..Len(Targets), n >= s.next
        PROVE  exec[<<o, n>>].pc = "idle"
    BY <1>1, <1>3, <2>3, <2>5, ExecFacts DEF Inv, Control, Fresh, Ops
  <2>6. s.kind # "none"
    BY <1>3, <2>3 DEF Inv, Control, Types
  <2> QED
    BY <2>3, <2>4, <2>5, <2>6, RequestMoves
<1> QED
  BY <1>2, <1>3

LEMMA ViaPCSKeeps ==
    ASSUME Inv, NEW o \in Client, ViaPCS(o) \/ CallLost(o)
    PROVE  Inv'
<1>1. o \in Op /\ op[o] \in Ops /\ op \in [Op -> Ops]
  BY DEF Inv, Control, Types, Op
<1>2. UNCHANGED <<lock, vm, dc, taken, stranded, moves>>
  BY DEF ViaPCS, CallLost
<1>3. CASE Answer(o, "error") /\ op[o].pc = "via" /\ NoFault /\ UNCHANGED exec
  BY <1>1, <1>2, <1>3, AskOrAnswerKeeps
<1>4. CASE /\ AskNext(o) /\ op[o].pc \in {"via", "wait"} /\ op[o].next <= Len(Targets)
           /\ Fault /\ UNCHANGED exec
  BY <1>1, <1>2, <1>4, AskOrAnswerKeeps
<1>5. CASE /\ op[o].pc = "via" /\ op[o].next <= Len(Targets)
           /\ op' = [op EXCEPT ![o].pc = "wait"]
           /\ exec' = [exec EXCEPT ![<<o, op[o].next>>] =
                         [Idle EXCEPT !.pc = "resolve", !.host = Targets[op[o].next]]]
           /\ NoFault
  <2>1. op[o].next \in 1..Len(Targets) /\ Targets[op[o].next] \in Host
    BY <1>1, <1>5, ExecFacts DEF Ops
  <2>2. PICK s : s = [op[o] EXCEPT !.pc = "wait"]
    OBVIOUS
  <2>3. s \in Ops /\ s.pc = "wait" /\ s.kind = op[o].kind /\ s.next = op[o].next
    BY <1>1, <2>2 DEF Ops
  <2>4. op' = [op EXCEPT ![o] = s]
    BY <1>1, <1>5, <2>2
  <2>5. s.kind # "none"
    BY <1>1, <1>5, <2>3 DEF Inv, Control, Types
  <2> QED
    BY <1>1, <1>2, <1>5, <2>1, <2>3, <2>4, <2>5, HandlerBegins
<1>6. op[o].pc = "wait" => op[o].next <= Len(Targets)
  BY <1>1 DEF Inv, Control, Types
<1> QED
  BY <1>3, <1>4, <1>5, <1>6 DEF ViaPCS, CallLost

LEMMA ReturnKeeps ==
    ASSUME Inv, NEW o \in Op, Return(o)
    PROVE  Inv'
<1>1. /\ op[o].pc = "wait" /\ exec[<<o, op[o].next>>].res # "none"
      /\ Answer(o, exec[<<o, op[o].next>>].res)
      /\ UNCHANGED <<exec, lock, vm, dc, taken, stranded, moves>> /\ NoFault
  BY DEF Return, NoFault
<1>2. op[o].next \in 1..Len(Targets)
  BY <1>1, ExecFacts DEF Inv, Control, Types, Ops
<1>3. exec[<<o, op[o].next>>].res \in {"ok", "error"}
  BY <1>1, <1>2, ExecFacts DEF Inv, Control, Types, Record
<1> QED
  BY <1>1, <1>3, AskOrAnswerKeeps

\* The timer of a host: only the DC begins a handler.
LEMMA TriggerAutoKeeps ==
    ASSUME Inv, NEW h \in Host, TriggerAuto(h)
    PROVE  Inv'
<1>1. PICK o : o = <<"auto", h>>
  OBVIOUS
<1>2. o \in Op /\ op[o].pc = "none" /\ op[o] \in Ops /\ op \in [Op -> Ops]
  BY <1>1 DEF TriggerAuto, Inv, Control, Types, Op, Scheduler
<1>3. UNCHANGED <<lock, vm, dc, taken, stranded, moves>> /\ (Fault \/ NoFault)
  BY DEF TriggerAuto
<1>4. CASE /\ op' = [op EXCEPT ![o] = [NoOp EXCEPT !.pc = "wait", !.kind = "backup",
                                                  !.name = AutoName, !.entry = h]]
           /\ exec' = [exec EXCEPT ![<<o, 1>>] = [Idle EXCEPT !.pc = "resolve", !.host = h]]
  <2>1. PICK s : s = [NoOp EXCEPT !.pc = "wait", !.kind = "backup", !.name = AutoName,
                                  !.entry = h]
    OBVIOUS
  <2>2. s = [pc |-> "wait", kind |-> "backup", name |-> AutoName, entry |-> h, next |-> 1,
             ans |-> "none"]
    BY <2>1 DEF NoOp
  <2>3. s \in Ops /\ s.pc = "wait" /\ s.kind = "backup" /\ s.next = 1 /\ 1 \in 1..Len(Targets)
    BY <2>2, ExecFacts DEF Ops
  <2>4. op' = [op EXCEPT ![o] = s]
    BY <1>4, <2>1
  <2>5. exec' = [exec EXCEPT ![<<o, 1>>] = [Idle EXCEPT !.pc = "resolve", !.host = h]]
    BY <1>4
  <2> QED
    BY <1>2, <1>3, <2>3, <2>4, <2>5, HandlerBegins
<1>5. CASE op' = [op EXCEPT ![o].pc = "done"] /\ UNCHANGED exec
  <2>1. PICK s : s = [op[o] EXCEPT !.pc = "done"]
    OBVIOUS
  <2>2. s \in Ops /\ s.pc = "done" /\ op' = [op EXCEPT ![o] = s]
    BY <1>2, <1>5, <2>1 DEF Ops
  <2> QED
    BY <1>2, <1>3, <1>5, <2>2, RequestMoves
<1> QED
  BY <1>1, <1>4, <1>5 DEF TriggerAuto

\* PCS stops the CCVM, starts it, elects another DC.
LEMMA PCSKeeps ==
    ASSUME Inv, PCSStops \/ \E h \in Host : PCSStarts(h) \/ PCSElects(h)
    PROVE  Inv'
<1>1. /\ UNCHANGED <<op, exec, lock, taken, faults>>
      /\ stranded' = stranded \/ stranded' = FALSE
      /\ dc' = dc \/ dc' \in Host
      /\ Move
      /\ \/ vm' = vm /\ stranded' = stranded
         \/ vm' = [host |-> NoHost, state |-> "off"]
         \/ \E h \in Host : vm' = [host |-> h, state |-> "running"]
  BY DEF PCSStops, PCSStarts, PCSElects
<1>2. Around'
  <2>1. /\ vm' \in [host : Host \cup {NoHost}, state : {"running", "paused", "off"}]
        /\ (vm.host = NoHost <=> vm.state = "off")'
    <3>1. CASE vm' = vm
      BY <3>1 DEF Inv, Control, Around
    <3>2. CASE vm' = [host |-> NoHost, state |-> "off"]
      BY <3>2
    <3>3. CASE \E h \in Host : vm' = [host |-> h, state |-> "running"]
      BY <3>3, CCVMSnapAssumption
    <3> QED
      BY <1>1, <3>1, <3>2, <3>3
  <2>2. dc' \in Host /\ stranded' \in BOOLEAN
    BY <1>1 DEF Inv, Control, Around
  <2>3. faults' \in 0..MaxFaults /\ moves' \in 0..MaxMoves
    BY <1>1, CCVMSnapAssumption DEF Inv, Control, Around, Move
  <2> QED
    BY <2>1, <2>2, <2>3 DEF Around
<1>3. Types' /\ Locks' /\ Kinds' /\ Fresh'
  BY <1>1 DEF Inv, Control, Types, Record, Locks, Kinds, Fresh
<1>4. Stilled' /\ PausedIsHeld'
  BY <1>1 DEF Inv, Stilled, Quiet, PausedIsHeld
<1> QED
  BY <1>2, <1>3, <1>4 DEF Inv, Control

LEMMA StepKeepsInv ==
    ASSUME Inv, [Next]_vars
    PROVE  Inv'
<1>1. ASSUME NEW x \in Exec, ExecStep(x)
      PROVE  Inv'
  BY <1>1, ResolveKeeps, LockKeeps, ListKeeps, CheckExistsKeeps, ReadStateKeeps, SuspendKeeps,
     CreateKeeps, ResumeKeeps, CleanKeeps DEF ExecStep
<1>2. CASE UNCHANGED vars
  BY <1>2 DEF vars, Inv, Control, Types, Record, Around, Locks, Kinds, Fresh, Stilled, Quiet,
              PausedIsHeld
<1>3. CASE Next
  BY <1>1, <1>3, CCVMSnapKeeps, ViaPCSKeeps, ReturnKeeps, TriggerAutoKeeps, ForwardLostKeeps,
     ServerRestartsKeeps, PCSKeeps DEF Next
<1> QED
  BY <1>2, <1>3

LEMMA InitInv ==
    ASSUME Init
    PROVE  Inv
<1>1. Record(Idle) /\ Idle.pc = "idle"
  <2>1. /\ DOMAIN Idle = Fields /\ Idle.pc = "idle" /\ Idle.host = NoHost /\ Idle.res = "none"
        /\ {Idle.started, Idle.remote, Idle.suspended, Idle.err} \subseteq BOOLEAN
    BY DEF Idle, Fields
  <2> QED
    BY <2>1 DEF Record, AtWork, Inside, Pc
<1>2. NoOp \in Ops /\ NoOp.pc = "none"
  <2>1. 1 \in 1..(Len(Targets) + 1)
    BY ExecFacts
  <2> QED
    BY <2>1 DEF NoOp, Ops
<1>3. Types
  BY <1>1, <1>2 DEF Init, Types
<1>4. Around
  <2>1. PICK h \in Host : vm = [host |-> h, state |-> "running"] /\ dc = h
    BY DEF Init
  <2>2. /\ vm \in [host : Host \cup {NoHost}, state : {"running", "paused", "off"}]
        /\ vm.host # NoHost /\ vm.state # "off" /\ dc \in Host
    BY <2>1, CCVMSnapAssumption
  <2>3. stranded \in BOOLEAN
    BY DEF Init
  <2>4. faults \in 0..MaxFaults /\ moves \in 0..MaxMoves
    BY CCVMSnapAssumption DEF Init
  <2> QED
    BY <2>2, <2>3, <2>4 DEF Around
<1>5. Locks /\ Kinds /\ Fresh /\ Stilled
  BY <1>1, ExecFacts DEF Init, Locks, Kinds, Fresh, Stilled, AtWork, Inside
<1>6. PausedIsHeld
  BY DEF Init, PausedIsHeld
<1> QED
  BY <1>3, <1>4, <1>5, <1>6 DEF Inv, Control

\* A paused CCVM has a handler that resumes it, for any hosts, targets, requests,
\* failures and moves of PCS (createCCVMSnapshot, suspendLocalCCVM, resumeLocalCCVM).
THEOREM PausedSafe == Spec => []PausedIsHeld
<1>1. Init => Inv
  BY InitInv
<1>2. Inv /\ [Next]_vars => Inv'
  BY StepKeepsInv
<1>3. Inv => PausedIsHeld
  BY DEF Inv
<1> QED
  BY <1>1, <1>2, <1>3, PTL DEF Spec

-----------------------------------------------------------------------------
(* How a handler ends                                                       *)

\* The handler that ends is the one that steps.
LEMMA EndsItself ==
    ASSUME Inv, NEW x \in Exec, NEW y \in Exec, ExecStep(x),
           exec[y].pc # "done", exec'[y].pc = "done"
    PROVE  x = y
<1> SUFFICES ASSUME x # y
             PROVE  exec'[y] = exec[y]
  OBVIOUS
<1>1. DOMAIN exec = Exec
  BY DEF Inv, Control, Types
<1>2. ASSUME NEW r, exec' = [exec EXCEPT ![x] = r]
      PROVE  exec'[y] = exec[y]
  BY <1>1, <1>2
<1>3. ASSUME NEW p, Goto(x, p)
      PROVE  exec'[y] = exec[y]
  BY <1>1, <1>3 DEF Goto
<1>4. ASSUME NEW r, Finish(x, r)
      PROVE  exec'[y] = exec[y]
  BY <1>2, <1>4 DEF Finish
<1>5. Refuse(x) => exec'[y] = exec[y]
  BY <1>2 DEF Refuse
<1>6. Resolve(x) \/ Lock(x) => exec'[y] = exec[y]
  BY <1>2, <1>3, <1>5 DEF Resolve, Lock
<1>7. ListSnapshots(x) \/ Rollback(x) \/ CheckExists(x) \/ ReadState(x) => exec'[y] = exec[y]
  BY <1>3, <1>4 DEF ListSnapshots, Rollback, CheckExists, ReadState
<1>8. Suspend(x) \/ Create(x) \/ Resume(x) => exec'[y] = exec[y]
  BY <1>1, <1>3, <1>4 DEF Suspend, Create, AfterCreate, Resume
<1>9. ListExcess(x) \/ RemoveOld(x) => exec'[y] = exec[y]
  BY <1>1, <1>4 DEF ListExcess, RemoveOld
<1> QED
  BY <1>6, <1>7, <1>8, <1>9 DEF ExecStep

\* A step before the snapshot, or one that pauses, creates or resumes, never ends well.
LEMMA EndsBadly ==
    ASSUME Inv, NEW x \in Exec,
           Resolve(x) \/ Lock(x) \/ ReadState(x) \/ Suspend(x) \/ Create(x) \/ Resume(x),
           exec'[x].pc = "done"
    PROVE  exec'[x].res # "ok"
<1>1. Control /\ Record(exec[x])
  BY DEF Inv, Control, Types
<1>2. exec[x].pc \in AtWork
  BY DEF Resolve, Lock, ReadState, Suspend, Create, Resume, AtWork, Inside
<1>3. exec[x].res # "ok"
  BY <1>1, <1>2 DEF Record
<1>4. Finish(x, "error") \/ Refuse(x) => exec'[x].res # "ok"
  BY <1>1, <1>3, EndedFacts DEF Finish, Refuse
<1>5. ASSUME NEW p, Goto(x, p)
      PROVE  p = "done"
  BY <1>1, <1>5, GotoFacts
<1>6. Resolve(x) => exec'[x].res # "ok"
  <2>1. CASE Refuse(x) \/ Goto(x, "lock")
    BY <1>4, <1>5, <2>1
  <2>2. CASE exec' = [exec EXCEPT ![x] = [@ EXCEPT !.pc = "lock", !.started = TRUE,
                                              !.host = vm.host, !.remote = vm.host # exec[x].host]]
    BY <1>1, <2>2 DEF Control, Types, Record, Fields
  <2> QED
    BY <2>1, <2>2 DEF Resolve
<1>7. ~Lock(x)
  <2> SUFFICES ASSUME Lock(x)
               PROVE  FALSE
    OBVIOUS
  <2>1. op[x[1]].kind \in {"none", "list", "backup", "rollback"}
    BY <1>1, ExecFacts DEF Control, Types, Ops
  <2>2. PICK p : /\ p = CASE op[x[1]].kind # "backup" -> op[x[1]].kind
                           [] op[x[1]].kind = "backup" /\ op[x[1]].name = AutoName -> "exists"
                           [] OTHER -> "state"
    OBVIOUS
  <2>3. Goto(x, p)
    BY <2>2 DEF Lock
  <2> QED
    BY <1>5, <2>1, <2>2, <2>3
<1>8. ReadState(x) => exec'[x].res # "ok"
  BY <1>4, <1>5 DEF ReadState
<1>9. Suspend(x) => exec'[x].res # "ok"
  <2>1. exec' # [exec EXCEPT ![x].pc = "create", ![x].suspended = TRUE]
    BY <1>1 DEF Control, Types, Record, Fields
  <2> QED
    BY <1>4, <2>1 DEF Suspend
<1>10. Create(x) => exec'[x].res # "ok"
  <2>1. \A f \in BOOLEAN : exec' # [exec EXCEPT ![x].pc = "resume", ![x].err = f]
    BY <1>1 DEF Control, Types, Record, Fields
  <2> QED
    BY <1>4, <1>5, <2>1 DEF Create, AfterCreate
<1>11. Resume(x) => exec'[x].res # "ok"
  BY <1>4, <1>5 DEF Resume
<1> QED
  BY <1>6, <1>7, <1>8, <1>9, <1>10, <1>11

LEMMA EndsWell ==
    ASSUME Inv, NEW y \in Exec, [Next]_vars, op[y[1]].kind = "backup", exec[y].started,
           exec[y].pc # "done", exec'[y].pc = "done", exec'[y].res = "ok"
    PROVE  exec[y].pc = "exists" \/ (Quiet(y) /\ taken' = taken)
<1>1. DOMAIN exec = Exec /\ Control /\ exec' # exec
  BY DEF Inv, Control, Types
<1>2. PICK x \in Exec : ExecStep(x) \/ ForwardLost(x)
  <2>1. ASSUME NEW o \in Client, CCVMSnap(o)
        PROVE  FALSE
    BY <1>1, <2>1 DEF CCVMSnap
  <2>2. ASSUME NEW o \in Client, ViaPCS(o) \/ CallLost(o)
        PROVE  FALSE
    BY <1>1, <2>2 DEF ViaPCS, CallLost, Idle
  <2>3. ASSUME NEW o \in Op, Return(o)
        PROVE  FALSE
    BY <1>1, <2>3 DEF Return
  <2>4. ASSUME NEW h \in Host, TriggerAuto(h)
        PROVE  FALSE
    BY <1>1, <2>4 DEF TriggerAuto, Idle
  <2>5. ASSUME NEW h \in Host, ServerRestarts(h)
        PROVE  FALSE
    <3>1. exec'[y] = Ended(y, "error") /\ exec[y].pc \notin {"idle", "done"}
      BY <1>1, <2>5 DEF ServerRestarts
    <3>2. exec[y].res # "ok"
      BY <3>1 DEF Inv, Control, Types, Record, Pc
    <3> QED
      BY <3>1, <3>2 DEF Ended, Idle
  <2>6. ~PCSStops /\ \A h \in Host : ~PCSStarts(h) /\ ~PCSElects(h)
    BY <1>1 DEF PCSStops, PCSStarts, PCSElects
  <2> QED
    BY <1>1, <2>1, <2>2, <2>3, <2>4, <2>5, <2>6 DEF Next, vars
<1>3. ~ForwardLost(x)
  <2> SUFFICES ASSUME ForwardLost(x)
               PROVE  FALSE
    OBVIOUS
  <2>1. exec' = [exec EXCEPT ![x].res = "error"] /\ DOMAIN exec[x] = Fields
    BY <1>1 DEF ForwardLost, Control, Types, Record
  <2> QED
    BY <1>1, <2>1 DEF Fields
<1>4. x = y /\ ExecStep(y)
  BY <1>2, <1>3, EndsItself
<1>5. ~Resolve(y) /\ ~Lock(y) /\ ~ReadState(y) /\ ~Suspend(y) /\ ~Create(y) /\ ~Resume(y)
  BY EndsBadly
<1>6. ~ListSnapshots(y) /\ ~Rollback(y)
  BY DEF ListSnapshots, Rollback, Inv, Control, Kinds
<1>7. CheckExists(y) => exec[y].pc = "exists"
  BY DEF CheckExists
<1>8. ListExcess(y) \/ RemoveOld(y) => Quiet(y) /\ taken' = taken
  BY DEF ListExcess, RemoveOld, Inv, Stilled
<1> QED
  BY <1>4, <1>5, <1>6, <1>7, <1>8 DEF ExecStep

\* A backup that PCS sent to the CCVM's host and that ends well has the snapshot of a
\* CCVM that did not run, or found the automatic one of the day (runCCVMSnapLocal with
\* expectStarted, createCCVMSnapshot).
THEOREM QuiescedSafe == Spec => SuccessIsQuiesced
<1> DEFINE Calm ==
      \A x \in Exec :
         /\ op[x[1]].kind = "backup" /\ exec[x].started
         /\ exec[x].pc # "done" /\ exec'[x].pc = "done" /\ exec'[x].res = "ok"
         => \/ \E t \in taken' : t.by = x /\ ~t.live
            \/ exec[x].pc = "exists"
<1>1. Init => Inv
  BY InitInv
<1>2. Inv /\ [Next]_vars => Inv'
  BY StepKeepsInv
<1>3. Inv /\ [Next]_vars => Calm
  BY EndsWell DEF Quiet
<1>4. [][Calm]_vars => SuccessIsQuiesced
  BY DEF SuccessIsQuiesced
<1> HIDE DEF Calm
<1> QED
  BY <1>1, <1>2, <1>3, <1>4, PTL DEF Spec

-----------------------------------------------------------------------------
(* What retention removes                                                   *)

Backing == {"exists", "state", "suspend", "create"}
\* A handler that has made its snapshot, if it makes one.
Late == {"resume", "clean", "remove", "done"}

Names == ToSet(OldSnaps) \cup {Named, AutoName} \cup {TimeName(x) : x \in Exec}
\* There has been a snapshot of this name.
Given(n) == n \in ToSet(OldSnaps) \/ \E t \in taken : SnapName(t.by) = n

Backups ==
    /\ \A o \in Op : op[o].kind = "backup" => op[o].name \in {<<>>, Named, AutoName}
    /\ \A x \in Exec : exec[x].pc \in Backing => op[x[1]].kind = "backup"

\* A handler makes one snapshot at most.
Makers == \A t \in taken : t.by \in Exec /\ op[t.by[1]].pc # "none" /\ exec[t.by].pc \in Late

Snapshots ==
    /\ snaps \in Seq(Names)
    /\ \A i, j \in DOMAIN snaps : snaps[i] = snaps[j] => i = j
    /\ \A i \in DOMAIN snaps : Given(snaps[i])

Lists == \A x \in Exec : exec[x].pc = "remove" =>
    /\ exec[x].todo \in Seq(Names) /\ exec[x].todo # <<>>
    /\ \A k \in DOMAIN exec[x].todo : Given(exec[x].todo[k])

\* No list, however old, holds one of the newest snapshots.
OldOnly == \A x \in Exec : exec[x].pc = "remove" =>
    \A k \in DOMAIN exec[x].todo, i \in DOMAIN snaps :
       exec[x].todo[k] = snaps[i] => i + Limit <= Len(snaps)

Retained == Backups /\ Makers /\ Snapshots /\ Lists /\ (Reused \/ OldOnly)

LEMMA RemoveAtFacts ==
    ASSUME NEW S, NEW s \in Seq(S), NEW i \in DOMAIN s, NEW r, r = RemoveAt(s, i)
    PROVE  /\ r \in Seq(S) /\ Len(r) = Len(s) - 1
           /\ \A j \in DOMAIN r : r[j] = IF j < i THEN s[j] ELSE s[j + 1]
<1>1. Len(s) \in Nat /\ i \in 1..Len(s)
  OBVIOUS
<1>2. PICK p : p = SubSeq(s, 1, i - 1)
  OBVIOUS
<1>3. PICK q : q = SubSeq(s, i + 1, Len(s))
  OBVIOUS
<1>4. p \in Seq(S) /\ Len(p) = i - 1 /\ \A j \in 1..(i - 1) : p[j] = s[j]
  BY <1>1, <1>2
<1>5. /\ q \in Seq(S) /\ Len(q) = Len(s) - i
      /\ \A j \in 1..(Len(s) - i) : q[j] = s[i + j]
  BY <1>1, <1>3
<1>6. r = p \o q
  BY <1>2, <1>3 DEF RemoveAt
<1>7. r \in Seq(S) /\ Len(r) = Len(p) + Len(q)
      /\ \A j \in 1..Len(r) : r[j] = IF j <= Len(p) THEN p[j] ELSE q[j - Len(p)]
  BY ONLY <1>4, <1>5, <1>6, ConcatProperties
<1>8. Len(r) = Len(s) - 1 /\ DOMAIN r = 1..Len(r)
  BY <1>1, <1>4, <1>5, <1>7
<1>9. ASSUME NEW j \in DOMAIN r
      PROVE  r[j] = IF j < i THEN s[j] ELSE s[j + 1]
  <2>1. CASE j < i
    BY <1>1, <1>4, <1>7, <1>8, <1>9, <2>1
  <2>2. CASE ~(j < i)
    <3>1. r[j] = q[j - (i - 1)] /\ j - (i - 1) \in 1..(Len(s) - i)
      BY <1>1, <1>4, <1>7, <1>8, <1>9, <2>2
    <3>2. i + (j - (i - 1)) = j + 1
      BY <1>1, <1>8, <1>9
    <3> QED
      BY <1>5, <2>2, <3>1, <3>2
  <2> QED
    BY <2>1, <2>2
<1> QED
  BY <1>7, <1>8, <1>9

LEMMA NewestStay ==
    ASSUME NEW S, NEW s \in Seq(S), NEW i \in DOMAIN s, NEW r, r = RemoveAt(s, i),
           i + Limit <= Len(s)
    PROVE  Len(s) > Limit /\ Newest(r) = Newest(s)
<1>1. /\ r \in Seq(S) /\ Len(r) = Len(s) - 1
      /\ \A j \in DOMAIN r : r[j] = IF j < i THEN s[j] ELSE s[j + 1]
  BY RemoveAtFacts
<1>2. Len(s) \in Nat /\ i \in 1..Len(s) /\ Limit \in Nat \ {0} /\ Len(s) > Limit
  BY CCVMSnapAssumption
<1>3. /\ Newest(s) \in Seq(S) /\ Len(Newest(s)) = Limit
      /\ \A j \in 1..Limit : Newest(s)[j] = s[Len(s) - Limit + j]
  BY <1>2 DEF Newest
<1>4. /\ Newest(r) \in Seq(S) /\ Len(Newest(r)) = Limit
      /\ \A j \in 1..Limit : Newest(r)[j] = r[Len(s) - 1 - Limit + j]
  BY <1>1, <1>2 DEF Newest
<1>5. ASSUME NEW j \in 1..Limit
      PROVE  Newest(r)[j] = Newest(s)[j]
  <2>1. PICK m : m = Len(s) - 1 - Limit + j
    OBVIOUS
  <2>2. m \in DOMAIN r /\ ~(m < i) /\ m + 1 = Len(s) - Limit + j
    BY <1>1, <1>2, <2>1
  <2>3. r[m] = s[m + 1]
    BY <1>1, <2>2
  <2> QED
    BY <1>3, <1>4, <2>1, <2>2, <2>3
<1> QED
  BY <1>2, <1>3, <1>4, <1>5, SeqEqual

\* A step that makes and removes no snapshot, and gives nobody a list.
LEMMA OthersRetain ==
    ASSUME Retained, snaps' = snaps, taken' = taken,
           \A o \in Op : op[o].pc # "none" => op'[o].pc # "none" /\ op'[o].name = op[o].name,
           \A o \in Op : op'[o].kind = "backup" => op'[o].name \in {<<>>, Named, AutoName},
           \A x \in Exec : exec'[x].pc \in Backing => op'[x[1]].kind = "backup",
           \A x \in Exec : exec[x].pc \in Late => exec'[x].pc \in Late,
           \A x \in Exec : exec'[x].pc = "remove" =>
              exec[x].pc = "remove" /\ exec'[x].todo = exec[x].todo
    PROVE  Retained'
<1>1. ASSUME NEW t \in taken
      PROVE  SnapName(t.by)' = SnapName(t.by)
  BY ExecFacts DEF Retained, Makers, SnapName
<1>2. ASSUME NEW n
      PROVE  Given(n) => Given(n)'
  BY <1>1 DEF Given
<1>3. Reused => Reused'
  BY <1>1 DEF Reused
<1>4. Backups' /\ Makers'
  BY ExecFacts DEF Retained, Backups, Makers
<1>5. Snapshots'
  BY <1>2 DEF Retained, Snapshots
<1>6. Lists'
  BY <1>2 DEF Retained, Lists
<1>7. OldOnly => OldOnly'
  BY DEF OldOnly
<1> QED
  BY <1>3, <1>4, <1>5, <1>6, <1>7 DEF Retained

\* Such a step of one handler.
LEMMA HandlerRetains ==
    ASSUME Retained, NEW x \in Exec, op' = op, snaps' = snaps, taken' = taken,
           \A y \in Exec \ {x} : exec'[y] = exec[y],
           exec'[x].pc \in Backing => op[x[1]].kind = "backup",
           exec[x].pc \in Late => exec'[x].pc \in Late,
           exec'[x].pc = "remove" => exec[x].pc = "remove" /\ exec'[x].todo = exec[x].todo
    PROVE  Retained'
  BY OthersRetain DEF Retained, Backups

\* Every step of a handler but the last two, and the creation of a snapshot.
LEMMA StepsRetain ==
    ASSUME Control, Retained, NEW x \in Exec,
           \/ Resolve(x) \/ Lock(x) \/ ListSnapshots(x) \/ Rollback(x) \/ CheckExists(x)
           \/ ReadState(x) \/ Suspend(x) \/ Resume(x) \/ ForwardLost(x)
    PROVE  Retained'
<1>1. UNCHANGED <<op, snaps, taken>> /\ Record(exec[x]) /\ DOMAIN exec = Exec
  BY DEF Resolve, Lock, ListSnapshots, Rollback, CheckExists, ReadState, Suspend, Resume,
         ForwardLost, Control, Types
<1>2. ASSUME \E r \in {"ok", "error"} : Finish(x, r)
      PROVE  Retained'
  BY <1>1, <1>2, EndedFacts, HandlerRetains DEF Finish, Backing, Late
<1>3. ASSUME NEW p, Goto(x, p), exec[x].pc \in Late => p \in Late, p # "remove",
             p \in Backing => op[x[1]].kind = "backup"
      PROVE  Retained'
  BY <1>1, <1>3, GotoFacts, HandlerRetains
<1>4. exec[x].pc \in Backing => op[x[1]].kind = "backup"
  BY DEF Retained, Backups
<1>5. CASE Resolve(x)
  <2>1. CASE Refuse(x)
    BY <1>1, <2>1, EndedFacts, HandlerRetains DEF Refuse, Backing, Late
  <2>2. CASE Goto(x, "lock")
    BY <1>3, <1>5, <2>2 DEF Resolve, Backing, Late
  <2>3. CASE exec' = [exec EXCEPT ![x] = [@ EXCEPT !.pc = "lock", !.started = TRUE,
                                              !.host = vm.host, !.remote = vm.host # exec[x].host]]
    <3>1. exec'[x].pc = "lock" /\ \A y \in Exec \ {x} : exec'[y] = exec[y]
      BY <1>1, <2>3 DEF Record, Fields
    <3> QED
      BY <1>1, <1>5, <3>1, HandlerRetains DEF Resolve, Backing, Late
  <2> QED
    BY <1>5, <2>1, <2>2, <2>3 DEF Resolve
<1>6. CASE Lock(x)
  <2>1. PICK p : /\ p = CASE op[x[1]].kind # "backup" -> op[x[1]].kind
                           [] op[x[1]].kind = "backup" /\ op[x[1]].name = AutoName -> "exists"
                           [] OTHER -> "state"
    OBVIOUS
  <2>2. Goto(x, p) /\ exec[x].pc = "lock"
    BY <1>6, <2>1 DEF Lock
  <2>3. op[x[1]].kind \in {"none", "list", "backup", "rollback"}
    BY ExecFacts DEF Control, Types, Ops
  <2>4. p # "remove" /\ (p \in Backing => op[x[1]].kind = "backup")
    BY <2>1, <2>3 DEF Backing
  <2> QED
    BY <1>3, <2>2, <2>4 DEF Late
<1>7. CASE ListSnapshots(x) \/ Rollback(x)
  BY <1>2, <1>7 DEF ListSnapshots, Rollback
<1>8. CASE CheckExists(x) \/ ReadState(x)
  BY <1>2, <1>3, <1>4, <1>8 DEF CheckExists, ReadState, Backing, Late
<1>9. CASE Suspend(x)
  <2>1. CASE exec' = [exec EXCEPT ![x].pc = "create", ![x].suspended = TRUE]
    <3>1. exec'[x].pc = "create" /\ \A y \in Exec \ {x} : exec'[y] = exec[y]
      BY <1>1, <2>1 DEF Record, Fields
    <3> QED
      BY <1>1, <1>4, <1>9, <3>1, HandlerRetains DEF Suspend, Backing, Late
  <2> QED
    BY <1>2, <1>9, <2>1 DEF Suspend
<1>10. CASE Resume(x)
  BY <1>2, <1>3, <1>10 DEF Resume, Backing, Late
<1>11. CASE ForwardLost(x)
  <2>1. exec' = [exec EXCEPT ![x].res = "error"]
    BY <1>11 DEF ForwardLost
  <2>2. /\ exec'[x].pc = exec[x].pc /\ exec'[x].todo = exec[x].todo
        /\ \A y \in Exec \ {x} : exec'[y] = exec[y]
    BY <1>1, <2>1 DEF Record, Fields
  <2> QED
    BY <1>1, <1>4, <2>2, HandlerRetains
<1> QED
  BY <1>5, <1>6, <1>7, <1>8, <1>9, <1>10, <1>11

\* rbd snap create: a name that a list holds is used again.
LEMMA CreateRetains ==
    ASSUME Control, Retained, NEW x \in Exec, Create(x)
    PROVE  Retained'
<1>0. PICK n : n = SnapName(x)
  OBVIOUS
<1>1. /\ op' = op /\ exec[x].pc = "create" /\ Record(exec[x]) /\ DOMAIN exec = Exec
      /\ x[1] \in Op
  BY ExecFacts DEF Create, Control, Types
<1>2. PICK failed \in BOOLEAN : AfterCreate(x, failed)
  BY DEF Create
<1>3. exec'[x].pc \in {"resume", "clean", "done"} /\ \A y \in Exec \ {x} : exec'[y] = exec[y]
  <2>1. CASE exec' = [exec EXCEPT ![x].pc = "resume", ![x].err = failed]
    BY <1>1, <2>1 DEF Record, Fields
  <2>2. CASE Finish(x, "error")
    BY <2>2, EndedFacts DEF Finish
  <2>3. CASE Goto(x, "clean")
    BY <2>3, GotoFacts
  <2> QED
    BY <1>2, <2>1, <2>2, <2>3 DEF AfterCreate
<1>4. CASE UNCHANGED <<snaps, taken>>
  BY <1>1, <1>3, <1>4, HandlerRetains DEF Backing, Late
<1>5. CASE Created(x) /\ n \notin ToSet(snaps)
  <2>1. snaps' = Append(snaps, n) /\ snaps \in Seq(Names)
    BY <1>0, <1>5 DEF Created, Retained, Snapshots
  <2>2. PICK new : new = [by |-> x, live |-> vm.state = "running"]
    OBVIOUS
  <2>3. taken' = taken \cup {new} /\ new.by = x
    BY <1>5, <2>2 DEF Created
  <2>4. op[x[1]].kind = "backup" /\ op[x[1]].pc # "none"
    BY <1>1, ExecFacts DEF Retained, Backups, Backing, Control, Fresh
  <2>5. n \in Names /\ n \notin ToSet(OldSnaps)
    <3>1. n = TimeName(x) \/ n \in {Named, AutoName}
      BY <1>0, <1>1, <2>4 DEF Retained, Backups, SnapName
    <3>2. ToSet(OldSnaps) \subseteq {<<"s1">>, <<"s2">>, <<"s3">>}
      BY CCVMSnapAssumption DEF ToSet
    <3> QED
      BY <3>1, <3>2 DEF Names, Named, AutoName, TimeName
  <2>6. ASSUME NEW y
        PROVE  SnapName(y)' = SnapName(y)
    BY <1>1 DEF SnapName
  <2>7. (\A m : Given(m) => Given(m)') /\ Given(n)' /\ (Reused => Reused')
    BY <1>0, <2>3, <2>6 DEF Given, Reused
  <2>8. \A t \in taken : t.by # x
    BY <1>1 DEF Retained, Makers, Late
  <2>9. Backups' /\ Makers'
    BY <1>1, <1>3, <2>3, <2>4 DEF Retained, Backups, Makers, Backing, Late
  <2>10. /\ Len(snaps) \in Nat /\ DOMAIN snaps = 1..Len(snaps)
         /\ DOMAIN snaps' = 1..(Len(snaps) + 1) /\ Len(snaps') = Len(snaps) + 1
         /\ snaps'[Len(snaps) + 1] = n
         /\ \A i \in 1..Len(snaps) : snaps'[i] = snaps[i] /\ snaps[i] # n
         /\ snaps' \in Seq(Names)
    BY <1>0, <1>5, <2>1, <2>5 DEF ToSet
  <2>11. Snapshots'
    <3>1. \A i, j \in DOMAIN snaps' : snaps'[i] = snaps'[j] => i = j
      BY <2>10 DEF Retained, Snapshots
    <3>2. \A i \in DOMAIN snaps' : Given(snaps[i])'
      <4> SUFFICES ASSUME NEW i \in DOMAIN snaps', NEW m, m = snaps'[i]
                   PROVE  Given(m)'
        BY Zenon
      <4>1. CASE i \in DOMAIN snaps
        BY <2>7, <2>10, <4>1 DEF Retained, Snapshots
      <4>2. CASE i \notin DOMAIN snaps
        BY <2>7, <2>10, <4>2
      <4> QED
        BY <4>1, <4>2
    <3> QED
      BY <2>10, <3>1, <3>2 DEF Snapshots
  <2>12. Lists'
    BY <1>3, <2>7 DEF Retained, Lists
  <2>13. ASSUME ~Reused'
         PROVE  OldOnly'
    <3> SUFFICES ASSUME NEW y \in Exec, exec'[y].pc = "remove",
                        NEW k \in DOMAIN exec'[y].todo, NEW i \in DOMAIN snaps',
                        exec'[y].todo[k] = snaps'[i]
                 PROVE  i + Limit <= Len(snaps')
      BY DEF OldOnly
    <3>1. y # x /\ exec'[y] = exec[y]
      BY <1>3
    <3>2. Given(exec[y].todo[k])
      BY <3>1 DEF Retained, Lists
    <3>3. i # Len(snaps) + 1
      <4> SUFFICES ASSUME exec[y].todo[k] = n
                   PROVE  FALSE
        BY <2>10, <3>1
      <4>1. PICK t \in taken : SnapName(t.by) = n
        BY <2>5, <3>2 DEF Given
      <4> QED
        BY <2>3, <2>6, <2>8, <1>0, <2>13, <4>1 DEF Reused
    <3>4. i \in DOMAIN snaps /\ snaps[i] = exec[y].todo[k]
      BY <2>10, <3>1, <3>3
    <3>5. i + Limit <= Len(snaps)
      BY <2>7, <2>13, <3>1, <3>4 DEF Retained, OldOnly
    <3> QED
      BY <2>10, <3>4, <3>5, CCVMSnapAssumption
  <2> QED
    BY <2>9, <2>11, <2>12, <2>13 DEF Retained
<1> QED
  BY <1>0, <1>4, <1>5 DEF Create

\* cleanupOldCCVMSnapshots lists what is too many.
LEMMA ListRetains ==
    ASSUME Control, Retained, NEW x \in Exec, ListExcess(x)
    PROVE  Retained'
<1>1. UNCHANGED <<op, snaps, taken>> /\ exec[x].pc = "clean" /\ Record(exec[x]) /\ DOMAIN exec = Exec
  BY DEF ListExcess, Control, Types
<1>2. CASE \E r \in {"ok", "error"} : Finish(x, r)
  BY <1>1, <1>2, EndedFacts, HandlerRetains DEF Finish, Backing, Late
<1>3. CASE Excess # <<>> /\ exec' = [exec EXCEPT ![x].pc = "remove", ![x].todo = Excess]
  <2>1. /\ exec'[x].pc = "remove" /\ exec'[x].todo = Excess
        /\ \A y \in Exec \ {x} : exec'[y] = exec[y]
    BY <1>1, <1>3 DEF Record, Fields
  <2>2. /\ snaps \in Seq(Names) /\ Len(snaps) \in Nat /\ DOMAIN snaps = 1..Len(snaps)
        /\ Limit \in Nat
    BY CCVMSnapAssumption DEF Retained, Snapshots
  <2>3. /\ Excess \in Seq(Names)
        /\ \A k \in DOMAIN Excess : k \in DOMAIN snaps /\ k + Limit <= Len(snaps)
                                    /\ Excess[k] = snaps[k]
    BY <2>2 DEF Excess
  <2>4. ASSUME NEW m
        PROVE  Given(m)' <=> Given(m)
    BY <1>1 DEF Given, SnapName
  <2>5. Reused' <=> Reused
    BY <1>1 DEF Reused, SnapName
  <2>6. Backups' /\ Makers'
    BY <1>1, <2>1 DEF Retained, Backups, Makers, Backing, Late
  <2>7. Snapshots'
    BY <1>1, <2>4 DEF Retained, Snapshots
  <2>8. Lists'
    <3>1. \A k \in DOMAIN Excess : Given(Excess[k])
      BY <2>3 DEF Retained, Snapshots
    <3> QED
      BY <1>3, <2>1, <2>3, <2>4, <3>1 DEF Retained, Lists
  <2>9. OldOnly => OldOnly'
    BY <1>1, <2>1, <2>3 DEF Retained, Snapshots, OldOnly
  <2> QED
    BY <2>5, <2>6, <2>7, <2>8, <2>9 DEF Retained
<1> QED
  BY <1>2, <1>3 DEF ListExcess

\* rbd snap rm: what follows the snapshot that is gone moves up by one.
LEMMA RemoveRetains ==
    ASSUME Control, Retained, NEW x \in Exec, RemoveOld(x)
    PROVE  Retained'
<1>1. /\ UNCHANGED <<op, taken>> /\ exec[x].pc = "remove" /\ Record(exec[x])
      /\ DOMAIN exec = Exec
      /\ exec[x].todo \in Seq(Names) /\ exec[x].todo # <<>>
  BY DEF RemoveOld, Control, Types, Retained, Lists
<1>2. /\ \A y \in Exec \ {x} : exec'[y] = exec[y]
      /\ \/ exec'[x].pc = "done"
         \/ exec'[x].pc = "remove" /\ exec'[x].todo = Tail(exec[x].todo) /\ Len(exec[x].todo) # 1
  <2>1. CASE \E r \in {"ok", "error"} : Finish(x, r)
    BY <2>1, EndedFacts DEF Finish
  <2>2. CASE exec' = [exec EXCEPT ![x].todo = Tail(@)] /\ Len(exec[x].todo) # 1
    BY <1>1, <2>2 DEF Record, Fields
  <2> QED
    BY <2>1, <2>2 DEF RemoveOld
<1>3. PICK todo : todo = exec[x].todo
  OBVIOUS
<1>4. /\ todo \in Seq(Names) /\ todo # <<>> /\ Len(todo) \in Nat \ {0}
      /\ Tail(todo) \in Seq(Names) /\ (Len(todo) # 1 => Tail(todo) # <<>>)
      /\ \A k \in DOMAIN Tail(todo) : k + 1 \in DOMAIN todo /\ Tail(todo)[k] = todo[k + 1]
      /\ 1 \in DOMAIN todo /\ Head(todo) = todo[1]
  <2>1. todo \in Seq(Names) /\ todo # <<>>
    BY <1>1, <1>3
  <2>2. /\ Tail(todo) \in Seq(Names) /\ Len(Tail(todo)) = Len(todo) - 1
        /\ \A k \in 1..Len(Tail(todo)) : Tail(todo)[k] = todo[k + 1]
    BY ONLY <2>1, HeadTailProperties
  <2>3. Len(todo) \in Nat \ {0} /\ DOMAIN todo = 1..Len(todo) /\ Head(todo) = todo[1]
    BY <2>1
  <2>4. DOMAIN Tail(todo) = 1..Len(Tail(todo)) /\ (Tail(todo) = <<>> => Len(Tail(todo)) = 0)
    <3>1. PICK rest : rest = Tail(todo)
      OBVIOUS
    <3>2. DOMAIN rest = 1..Len(rest) /\ (rest = <<>> => Len(rest) = 0)
      BY <2>2, <3>1
    <3> QED
      BY <3>1, <3>2
  <2>5. \A k \in DOMAIN Tail(todo) : k + 1 \in DOMAIN todo
    BY <2>2, <2>3, <2>4
  <2> QED
    BY <2>1, <2>2, <2>3, <2>4, <2>5
<1>5. ASSUME NEW m
      PROVE  Given(m)' <=> Given(m)
  BY <1>1 DEF Given, SnapName
<1>6. Reused' <=> Reused
  BY <1>1 DEF Reused, SnapName
<1>7. Backups' /\ Makers'
  BY <1>1, <1>2 DEF Retained, Backups, Makers, Backing, Late
<1>8. Lists'
  <2>1. \A k \in DOMAIN Tail(todo) : Given(Tail(todo)[k])
    BY <1>1, <1>3, <1>4 DEF Retained, Lists
  <2> QED
    BY <1>2, <1>3, <1>4, <1>5, <2>1 DEF Retained, Lists
\* What is on a list now was on it before.
<1>9. ASSUME NEW y \in Exec, exec'[y].pc = "remove", NEW k \in DOMAIN exec'[y].todo
      PROVE  exec[y].pc = "remove" /\ \E l \in DOMAIN exec[y].todo : exec[y].todo[l] = exec'[y].todo[k]
  <2>1. CASE y # x
    BY <1>2, <1>9, <2>1
  <2>2. CASE y = x
    <3>1. exec'[x].todo = Tail(todo)
      BY <1>2, <1>3, <1>9, <2>2
    <3>2. k + 1 \in DOMAIN todo /\ Tail(todo)[k] = todo[k + 1]
      BY <1>4, <1>9, <2>2, <3>1
    <3> QED
      BY <1>1, <1>3, <2>2, <3>1, <3>2
  <2> QED
    BY <2>1, <2>2
<1>10. CASE UNCHANGED snaps
  <2>1. Snapshots'
    BY <1>5, <1>10 DEF Retained, Snapshots
  <2>2. OldOnly => OldOnly'
    BY <1>9, <1>10 DEF OldOnly
  <2> QED
    BY <1>6, <1>7, <1>8, <2>1, <2>2 DEF Retained
<1>11. CASE \E i \in DOMAIN snaps : snaps[i] = Head(todo) /\ snaps' = RemoveAt(snaps, i)
  <2>1. PICK i \in DOMAIN snaps : snaps[i] = todo[1] /\ snaps' = RemoveAt(snaps, i)
    BY <1>4, <1>11
  <2>2. snaps \in Seq(Names) /\ Len(snaps) \in Nat /\ DOMAIN snaps = 1..Len(snaps) /\ Limit \in Nat
    BY CCVMSnapAssumption DEF Retained, Snapshots
  <2>3. /\ snaps' \in Seq(Names) /\ Len(snaps') = Len(snaps) - 1
        /\ \A j \in DOMAIN snaps' : snaps'[j] = IF j < i THEN snaps[j] ELSE snaps[j + 1]
    BY <2>1, <2>2, RemoveAtFacts
  <2>4. \A j \in DOMAIN snaps' : \E l \in DOMAIN snaps :
           snaps[l] = snaps'[j] /\ l = IF j < i THEN j ELSE j + 1
    BY <2>2, <2>3
  <2>5. Snapshots'
    <3>1. \A j, l \in DOMAIN snaps' : snaps'[j] = snaps'[l] => j = l
      BY <2>2, <2>3, <2>4 DEF Retained, Snapshots
    <3>2. \A j \in DOMAIN snaps' : Given(snaps[j])'
      <4> SUFFICES ASSUME NEW j \in DOMAIN snaps', NEW m, m = snaps'[j]
                   PROVE  Given(m)'
        BY Zenon
      <4> QED
        BY <1>5, <2>4 DEF Retained, Snapshots
    <3> QED
      BY <2>3, <3>1, <3>2 DEF Snapshots
  <2>6. ASSUME OldOnly
        PROVE  OldOnly'
    <3> SUFFICES ASSUME NEW y \in Exec, exec'[y].pc = "remove",
                        NEW k \in DOMAIN exec'[y].todo, NEW j \in DOMAIN snaps',
                        exec'[y].todo[k] = snaps'[j]
                 PROVE  j + Limit <= Len(snaps')
      BY DEF OldOnly
    <3>1. PICK l \in DOMAIN snaps : snaps[l] = snaps'[j] /\ l = IF j < i THEN j ELSE j + 1
      BY <2>4
    <3>2. i + Limit <= Len(snaps) /\ l + Limit <= Len(snaps)
      BY <1>1, <1>3, <1>4, <1>9, <2>1, <2>6, <3>1 DEF OldOnly
    <3>3. j \in Int /\ i \in Int
      BY <2>2, <2>3
    <3> QED
      BY <2>2, <2>3, <3>1, <3>2, <3>3
  <2> QED
    BY <1>6, <1>7, <1>8, <2>5, <2>6 DEF Retained
<1> QED
  BY <1>3, <1>10, <1>11 DEF RemoveOld

\* A request goes on, with or without a handler that begins.
LEMMA RequestRetains ==
    ASSUME Control, Retained, NEW o \in Op, UNCHANGED <<snaps, taken>>,
           \A p \in Op \ {o} : op'[p] = op[p],
           \/ op[o].pc = "none" /\ (op'[o].kind = "backup" => op'[o].name \in {<<>>, Named, AutoName})
           \/ op'[o].pc # "none" /\ op'[o].kind = op[o].kind /\ op'[o].name = op[o].name,
           \/ exec' = exec
           \/ \E x \in Exec : /\ exec[x].pc = "idle" /\ exec'[x].pc = "resolve"
                              /\ \A y \in Exec \ {x} : exec'[y] = exec[y]
    PROVE  Retained'
<1>1. \A x \in Exec : \/ exec'[x] = exec[x]
                      \/ exec[x].pc = "idle" /\ exec'[x].pc = "resolve"
  OBVIOUS
<1>2. ASSUME NEW x \in Exec, exec'[x].pc \in Backing
      PROVE  op'[x[1]].kind = "backup"
  <2>1. exec[x].pc \in Backing /\ op[x[1]].kind = "backup" /\ x[1] \in Op
    BY <1>1, <1>2, ExecFacts DEF Retained, Backups, Backing
  <2>2. x[1] = o => op[o].pc # "none"
    BY <2>1, ExecFacts DEF Control, Fresh, Backing
  <2> QED
    BY <2>1, <2>2
<1> QED
  BY <1>1, <1>2, OthersRetain DEF Retained, Backups, Late

LEMMA RequestsRetain ==
    ASSUME Control, Retained,
           \/ \E o \in Client : CCVMSnap(o) \/ ViaPCS(o) \/ CallLost(o)
           \/ \E o \in Op : Return(o)
           \/ \E h \in Host : TriggerAuto(h)
    PROVE  Retained'
<1>1. op \in [Op -> Ops] /\ DOMAIN exec = Exec /\ Client \subseteq Op
  BY DEF Control, Types, Op
\* What a handler begins with.
<1>2. ASSUME NEW x \in Exec, NEW h, exec[x].pc = "idle",
             exec' = [exec EXCEPT ![x] = [Idle EXCEPT !.pc = "resolve", !.host = h]]
      PROVE  exec'[x].pc = "resolve" /\ \A y \in Exec \ {x} : exec'[y] = exec[y]
  BY <1>1, <1>2 DEF Idle
<1>3. ASSUME NEW o \in Client, CCVMSnap(o)
      PROVE  Retained'
  <2>1. PICK e \in Entry, r \in Requests :
           op' = [op EXCEPT ![o] = [NoOp EXCEPT !.pc = "via", !.kind = r[1], !.name = r[2], !.entry = e]]
    BY <1>3 DEF CCVMSnap
  <2>2. /\ op'[o].kind = r[1] /\ op'[o].name = r[2] /\ \A p \in Op \ {o} : op'[p] = op[p]
    BY <1>1, <2>1 DEF NoOp
  <2>3. r[1] = "backup" => r[2] \in {<<>>, Named}
    BY DEF Requests
  <2> QED
    BY <1>1, <1>3, <2>2, <2>3, RequestRetains DEF CCVMSnap
<1>4. ASSUME NEW o \in Op, \/ \E a : Answer(o, a)
                           \/ AskNext(o)
                           \/ op' = [op EXCEPT ![o].pc = "wait"]
                           \/ op' = [op EXCEPT ![o].pc = "done"]
      PROVE  /\ \A p \in Op \ {o} : op'[p] = op[p]
             /\ op'[o].pc # "none" /\ op'[o].kind = op[o].kind /\ op'[o].name = op[o].name
  BY <1>1, <1>4 DEF Answer, AskNext, Ops
<1>5. ASSUME NEW o \in Client, ViaPCS(o) \/ CallLost(o)
      PROVE  Retained'
  <2>1. /\ \A p \in Op \ {o} : op'[p] = op[p]
        /\ op'[o].pc # "none" /\ op'[o].kind = op[o].kind /\ op'[o].name = op[o].name
    BY <1>1, <1>4, <1>5 DEF ViaPCS, CallLost
  <2>2. CASE UNCHANGED exec
    BY <1>1, <1>5, <2>1, <2>2, RequestRetains DEF ViaPCS, CallLost
  <2>3. CASE /\ op[o].pc = "via" /\ op[o].next <= Len(Targets)
             /\ exec' = [exec EXCEPT ![<<o, op[o].next>>] =
                           [Idle EXCEPT !.pc = "resolve", !.host = Targets[op[o].next]]]
    <3>1. op[o].next \in 1..Len(Targets)
      BY <1>1, <2>3, ExecFacts DEF Ops
    <3>2. <<o, op[o].next>> \in Exec /\ exec[<<o, op[o].next>>].pc = "idle"
      BY <1>1, <2>3, <3>1, ExecFacts DEF Control, Fresh
    <3>3. PICK x \in Exec : x = <<o, op[o].next>>
      BY <3>2
    <3>4. exec[x].pc = "idle" /\ exec'[x].pc = "resolve" /\ \A y \in Exec \ {x} : exec'[y] = exec[y]
      BY <1>2, <2>3, <3>2, <3>3
    <3> QED
      BY <1>1, <1>5, <2>1, <3>4, RequestRetains DEF ViaPCS, CallLost
  <2> QED
    BY <1>5, <2>2, <2>3 DEF ViaPCS, CallLost
<1>6. ASSUME NEW o \in Op, Return(o)
      PROVE  Retained'
  BY <1>4, <1>6, RequestRetains DEF Return
<1>7. ASSUME NEW h \in Host, TriggerAuto(h)
      PROVE  Retained'
  <2>1. PICK o : o = <<"auto", h>>
    OBVIOUS
  <2>2. o \in Op /\ op[o].pc = "none" /\ UNCHANGED <<snaps, taken>>
    BY <1>7, <2>1 DEF TriggerAuto, Op, Scheduler
  <2>3. CASE /\ op' = [op EXCEPT ![o] = [NoOp EXCEPT !.pc = "wait", !.kind = "backup",
                                                     !.name = AutoName, !.entry = h]]
             /\ exec' = [exec EXCEPT ![<<o, 1>>] = [Idle EXCEPT !.pc = "resolve", !.host = h]]
    <3>1. op'[o].name = AutoName /\ \A p \in Op \ {o} : op'[p] = op[p]
      BY <1>1, <2>2, <2>3 DEF NoOp
    <3>2. <<o, 1>> \in Exec /\ exec[<<o, 1>>].pc = "idle"
      BY <2>2, ExecFacts DEF Control, Fresh
    <3>3. PICK x \in Exec : x = <<o, 1>>
      BY <3>2
    <3>4. exec[x].pc = "idle" /\ exec'[x].pc = "resolve" /\ \A y \in Exec \ {x} : exec'[y] = exec[y]
      BY <1>2, <2>3, <3>2, <3>3
    <3> QED
      BY <2>2, <3>1, <3>4, RequestRetains
  <2>4. CASE op' = [op EXCEPT ![o].pc = "done"] /\ UNCHANGED exec
    BY <1>4, <2>2, <2>4, RequestRetains
  <2> QED
    BY <1>7, <2>1, <2>3, <2>4 DEF TriggerAuto
<1> QED
  BY <1>3, <1>5, <1>6, <1>7

\* The server restarts, and PCS.
LEMMA WorldRetains ==
    ASSUME Control, Retained,
           \/ \E h \in Host : ServerRestarts(h) \/ PCSStarts(h) \/ PCSElects(h)
           \/ PCSStops
           \/ UNCHANGED vars
    PROVE  Retained'
<1>1. UNCHANGED <<snaps, taken>>
  BY DEF ServerRestarts, PCSStarts, PCSElects, PCSStops, vars
<1>2. ASSUME NEW h \in Host, ServerRestarts(h)
      PROVE  Retained'
  <2>1. op \in [Op -> Ops]
    BY DEF Control, Types
  <2>2. ASSUME NEW o \in Op
        PROVE  /\ op'[o].kind = op[o].kind /\ op'[o].name = op[o].name
               /\ op[o].pc # "none" => op'[o].pc # "none"
    <3>1. \/ op'[o] = [op[o] EXCEPT !.pc = "done", !.ans = "error"]
          \/ op'[o] = [op[o] EXCEPT !.pc = "via", !.next = @ + 1]
          \/ op'[o] = op[o]
      BY <1>2 DEF ServerRestarts
    <3> QED
      BY <2>1, <3>1 DEF Ops
  <2>3. ASSUME NEW x \in Exec
        PROVE  exec'[x] = exec[x] \/ exec'[x].pc = "done"
    <3>1. exec'[x] = exec[x] \/ exec'[x] = Ended(x, "error")
      BY <1>2 DEF ServerRestarts
    <3> QED
      BY <3>1 DEF Ended, Idle
  <2> QED
    BY <1>1, <2>2, <2>3, ExecFacts, OthersRetain DEF Retained, Backups, Late, Backing
<1>3. CASE UNCHANGED <<op, exec>>
  BY <1>1, <1>3, OthersRetain DEF Retained, Backups
<1> QED
  BY <1>2, <1>3 DEF PCSStarts, PCSElects, PCSStops, vars

LEMMA StepRetains ==
    ASSUME Control, Retained, [Next]_vars
    PROVE  Retained'
  BY StepsRetain, CreateRetains, ListRetains, RemoveRetains, RequestsRetain, WorldRetains
  DEF Next, ExecStep

LEMMA InitRetained ==
    ASSUME Init
    PROVE  Retained
<1>1. /\ \A x \in Exec : exec[x].pc = "idle"
      /\ \A o \in Op : op[o].kind = "none"
      /\ taken = {} /\ snaps = OldSnaps
  BY DEF Init, Idle, NoOp
<1>2. Snapshots
  <2>1. OldSnaps \in Seq(Names)
    <3>1. OldSnaps \in Seq({<<"s1">>, <<"s2">>, <<"s3">>})
      BY CCVMSnapAssumption
    <3>2. \A i \in 1..Len(OldSnaps) : OldSnaps[i] \in Names
      BY <3>1 DEF Names, ToSet
    <3> QED
      BY <3>1, <3>2
  <2>2. \A i \in DOMAIN OldSnaps : OldSnaps[i] \in ToSet(OldSnaps)
    BY DEF ToSet
  <2> QED
    BY <1>1, <2>1, <2>2, CCVMSnapAssumption DEF Snapshots, Given
<1> QED
  BY <1>1, <1>2 DEF Retained, Backups, Backing, Makers, Lists, OldOnly

\* A snapshot that is removed is not one of the Limit newest, from whatever lists the
\* handlers of all hosts remove, as long as no name is used again
\* (cleanupOldCCVMSnapshots).
THEOREM NewestSafe == Spec => NewestKept
<1> DEFINE Kept == Len(snaps') < Len(snaps) /\ ~Reused =>
                     Len(snaps) > Limit /\ Newest(snaps') = Newest(snaps)
<1>1. Init => Inv /\ Retained
  BY InitInv, InitRetained
<1>2. Inv /\ Retained /\ [Next]_vars => (Inv /\ Retained)'
  BY StepKeepsInv, StepRetains DEF Inv
<1>3. ASSUME Inv, Retained, [Next]_vars
      PROVE  Kept
  <2> SUFFICES ASSUME Len(snaps') < Len(snaps), ~Reused
               PROVE  Len(snaps) > Limit /\ Newest(snaps') = Newest(snaps)
    OBVIOUS
  <2>1. snaps \in Seq(Names) /\ OldOnly
    BY <1>3 DEF Retained, Snapshots
  <2>2. PICK x \in Exec : RemoveOld(x)
    <3>1. snaps' # snaps
      BY <2>1
    <3>2. ASSUME NEW x \in Exec, Created(x)
          PROVE  FALSE
      <4>1. PICK n : n = SnapName(x)
        OBVIOUS
      <4>2. snaps' = Append(snaps, n)
        BY <3>2, <4>1 DEF Created
      <4>3. Len(snaps') = Len(snaps) + 1 /\ Len(snaps) \in Nat
        BY <2>1, <4>2
      <4> QED
        BY <4>3
    <3> QED
      BY <1>3, <3>1, <3>2 DEF Next, ExecStep, vars, CCVMSnap, ViaPCS, CallLost, Return, TriggerAuto,
         Resolve, Lock, ListSnapshots, Rollback, CheckExists, ReadState, Suspend, Create, Resume,
         ListExcess, ForwardLost, ServerRestarts, PCSStops, PCSStarts, PCSElects
  <2>3. PICK i \in DOMAIN snaps : snaps[i] = Head(exec[x].todo) /\ snaps' = RemoveAt(snaps, i)
    BY <2>2 DEF RemoveOld
  <2>4. exec[x].pc = "remove" /\ exec[x].todo \in Seq(Names) /\ exec[x].todo # <<>>
    BY <1>3, <2>2 DEF RemoveOld, Retained, Lists
  <2>5. 1 \in DOMAIN exec[x].todo /\ exec[x].todo[1] = snaps[i]
    BY <2>3, <2>4
  <2>6. i + Limit <= Len(snaps)
    BY <2>1, <2>4, <2>5 DEF OldOnly
  <2> QED
    BY <2>1, <2>3, <2>6, NewestStay
<1>4. [][Kept]_vars => NewestKept
  BY DEF NewestKept
<1> HIDE DEF Kept
<1> QED
  BY <1>1, <1>2, <1>3, <1>4, PTL DEF Spec

=============================================================================
