------------------------------ MODULE CCVMSnap ------------------------------
(***************************************************************************)
(* Snapshots of the CCVM's RBD image on HCI clusters: the handler CCVMSnap *)
(* of internal/handler/cube/ccvm_snap.go and the daily scheduler of        *)
(* ccvm_snap_scheduler.go, which runs on every host.                       *)
(*                                                                         *)
(* A request enters at a host, is passed to a PCS host that asks PCS where *)
(* the CCVM runs ("resolve"), and a backup is passed on to that host       *)
(* ("local").  Each hop is an HTTP call with a timeout: the caller may     *)
(* give up while the callee goes on.  ccvmSnapMu excludes the handlers of  *)
(* one host from each other, not those of two hosts.  PCS may start, stop  *)
(* and move the CCVM between any two steps.                                *)
(***************************************************************************)
EXTENDS Integers, Sequences, SequencesExt

CONSTANTS
    Host,           \* the hosts; all of them are in the PCS cluster
    Targets,        \* buildCCVMSnapPCSTargets: the order in which they are asked
    Client,         \* requests of clients
    Entry,          \* the hosts they are sent to
    NoHost,
    Limit,          \* ccvmSnapLimit
    OldSnaps,       \* the snapshots at the start, oldest first
    MaxFaults,      \* calls, commands and servers that fail
    MaxMoves        \* what PCS does

ASSUME CCVMSnapAssumption ==
    /\ Targets \in Seq(Host) /\ Targets # <<>>
    /\ Entry \subseteq Host /\ NoHost \notin Host
    /\ Limit \in Nat \ {0}
    /\ OldSnaps \in Seq({<<"s1">>, <<"s2">>, <<"s3">>})
    /\ \A i, j \in DOMAIN OldSnaps : OldSnaps[i] = OldSnaps[j] => i = j
    /\ MaxFaults \in Nat /\ MaxMoves \in Nat

VARIABLES
    op,         \* per request: what was asked and how far runCCVMSnapViaPCS is
    exec,       \* per request and PCS target asked: the handler behind the call
    lock,       \* ccvmSnapMu of each host
    vm,         \* the domain ccvm: where it is and its state
    dc,         \* PCS's current DC
    snaps,      \* the snapshots of rbd/ccvm, oldest first
    taken,      \* history: snapshots created so far, with whether the CCVM ran
    stranded,   \* history: the CCVM is paused and nobody will resume it
    faults, moves

vars == <<op, exec, lock, vm, dc, snaps, taken, stranded, faults, moves>>

-----------------------------------------------------------------------------
(* Requests and handlers.                                                   *)

\* The scheduler of each host sends one request, for the day the model is about.
Scheduler == {<<"auto", h>> : h \in Host}
Op == Client \cup Scheduler
Exec == Op \X (1..Len(Targets))
AutoName == <<"auto-day">>

\* A request that names its snapshot.
Named == <<"named">>
\* The name time.Now gives to the snapshot of a handler.
TimeName(x) == <<"time", x[1], x[2]>>

\* What a client may ask for: action and name.
Requests == {<<"list", <<>>>>, <<"backup", <<>>>>, <<"backup", Named>>, <<"rollback", <<"s1">>>>}

NoOp == [pc |-> "none", kind |-> "none", name |-> <<>>, entry |-> NoHost, next |-> 1, ans |-> "none"]
Idle == [pc |-> "idle", host |-> NoHost, started |-> FALSE, remote |-> FALSE, suspended |-> FALSE,
         err |-> FALSE, todo |-> <<>>, res |-> "none"]

\* What runCCVMSnapLocal calls the snapshot.
SnapName(x) == IF op[x[1]].name = <<>> THEN TimeName(x) ELSE op[x[1]].name

Init ==
    /\ op = [o \in Op |-> NoOp]
    /\ exec = [x \in Exec |-> Idle]
    /\ lock = [h \in Host |-> <<>>]
    /\ \E h \in Host : vm = [host |-> h, state |-> "running"] /\ dc = h
    /\ snaps = OldSnaps
    /\ taken = {}
    /\ stranded = FALSE
    /\ faults = 0 /\ moves = 0

\* A call or a command fails.
Fault == faults < MaxFaults /\ faults' = faults + 1
NoFault == UNCHANGED faults

\* The state virsh domstate prints on host h.
DomState(h) == IF vm.host = h THEN vm.state ELSE "absent"
\* loadCCVMPcsResourceStatus: where cloudcenter_res is started, if it is.  A
\* paused domain counts as started.
Started == vm.host # NoHost

-----------------------------------------------------------------------------
(* runCCVMSnapViaPCS.                                                       *)

\* CCVMSnap accepts a request of a client.
CCVMSnap(o) ==
    /\ op[o].pc = "none"
    /\ \E e \in Entry, r \in Requests :
          op' = [op EXCEPT ![o] = [NoOp EXCEPT !.pc = "via", !.kind = r[1], !.name = r[2], !.entry = e]]
    /\ UNCHANGED <<exec, lock, vm, dc, snaps, taken, stranded, faults, moves>>

\* Mutant: a response without a code is taken as it is.
AnswerUncoded(o, a) == op' = [op EXCEPT ![o].pc = "done", ![o].ans = "0"]

Answer(o, a) == op' = [op EXCEPT ![o].pc = "done", ![o].ans = a]
AskNext(o) == op' = [op EXCEPT ![o].pc = "via", ![o].next = @ + 1]

\* The loop over the targets: no target is left; the health check of the next one
\* fails; or it is called.
ViaPCS(o) ==
    /\ op[o].pc = "via"
    /\ \/ /\ op[o].next > Len(Targets)
          /\ Answer(o, "error")
          /\ NoFault /\ UNCHANGED exec
       \/ /\ op[o].next <= Len(Targets)
          /\ Targets[op[o].next] # op[o].entry
          /\ AskNext(o)
          /\ Fault /\ UNCHANGED exec
       \/ /\ op[o].next <= Len(Targets)
          /\ op' = [op EXCEPT ![o].pc = "wait"]
          /\ exec' = [exec EXCEPT ![<<o, op[o].next>>] =
                         [Idle EXCEPT !.pc = "resolve", !.host = Targets[op[o].next]]]
          /\ NoFault
    /\ UNCHANGED <<lock, vm, dc, snaps, taken, stranded, moves>>

\* callCCVMSnapRemote fails or times out: the next target is asked, the handler that
\* was called goes on.
CallLost(o) ==
    /\ op[o].pc = "wait" /\ o \in Client
    /\ Targets[op[o].next] # op[o].entry
    /\ AskNext(o)
    /\ Fault
    /\ UNCHANGED <<exec, lock, vm, dc, snaps, taken, stranded, moves>>

\* The response arrives.
Return(o) ==
    /\ op[o].pc = "wait"
    /\ exec[<<o, op[o].next>>].res # "none"
    /\ Answer(o, exec[<<o, op[o].next>>].res)
    /\ UNCHANGED <<exec, lock, vm, dc, snaps, taken, stranded, faults, moves>>

\* triggerAutoCCVMSnapshotBackup: the timer of host h has fired.  The current DC
\* resolves the backup itself, the other hosts do nothing, and
\* neither does one that cannot read cluster.json or ask PCS.
TriggerAuto(h) ==
    LET o == <<"auto", h>> IN
    /\ op[o].pc = "none"
    /\ \/ /\ dc = h /\ NoFault
          /\ op' = [op EXCEPT ![o] = [NoOp EXCEPT !.pc = "wait", !.kind = "backup",
                                                  !.name = AutoName, !.entry = h]]
          /\ exec' = [exec EXCEPT ![<<o, 1>>] = [Idle EXCEPT !.pc = "resolve", !.host = h]]
       \/ /\ (dc # h /\ NoFault) \/ Fault
          /\ op' = [op EXCEPT ![o].pc = "done"] /\ UNCHANGED exec
    /\ UNCHANGED <<lock, vm, dc, snaps, taken, stranded, moves>>

-----------------------------------------------------------------------------
(* The handler behind a call.                                               *)

\* A step of the handler x: it goes on at p.
Goto(x, p) == exec' = [exec EXCEPT ![x].pc = p]
\* It ends with result r, which nobody may be waiting for any more.
Ended(x, r) == [Idle EXCEPT !.pc = "done", !.res = IF exec[x].res = "none" THEN r ELSE exec[x].res]
\* It ends without having entered the mutex, or leaves it.
Refuse(x) == exec' = [exec EXCEPT ![x] = Ended(x, "error")] /\ UNCHANGED lock
Finish(x, r) ==
    /\ exec' = [exec EXCEPT ![x] = Ended(x, r)]
    /\ lock' = [lock EXCEPT ![exec[x].host] = <<>>]

\* runCCVMSnapResolvedFromPCS: where the request is carried out.
Resolve(x) ==
    LET kind == op[x[1]].kind
        here == exec[x].host IN
    /\ exec[x].pc = "resolve"
    /\ \/ /\ kind = "list"
          /\ Goto(x, "lock") /\ NoFault
       \/ kind # "list" /\ Fault /\ Refuse(x)
       \/ /\ kind = "rollback"
          /\ IF Started THEN Refuse(x) ELSE Goto(x, "lock")
          /\ NoFault
       \/ /\ kind = "backup" /\ ~Started
          /\ Goto(x, "lock") /\ NoFault
       \/ /\ kind = "backup" /\ Started
          /\ exec' = [exec EXCEPT ![x] = [@ EXCEPT !.pc = "lock", !.started = TRUE,
                                                  !.host = vm.host, !.remote = vm.host # here]]
          /\ NoFault
    /\ UNCHANGED <<op, lock, vm, dc, snaps, taken, stranded, moves>>

\* The call to the host of the CCVM fails or times out: the caller answers with an
\* error, the handler goes on.
ForwardLost(x) ==
    /\ exec[x].remote /\ exec[x].pc \notin {"idle", "resolve", "done"}
    /\ exec[x].res = "none"
    /\ exec' = [exec EXCEPT ![x].res = "error"]
    /\ Fault
    /\ UNCHANGED <<op, lock, vm, dc, snaps, taken, stranded, moves>>

\* ccvmSnapMu.Lock, and the branch on the action.
Lock(x) ==
    LET h == exec[x].host
        o == op[x[1]] IN
    /\ exec[x].pc = "lock" /\ lock[h] = <<>>
    /\ lock' = [lock EXCEPT ![h] = x]
    /\ Goto(x, CASE o.kind # "backup" -> o.kind
                 [] o.kind = "backup" /\ o.name = AutoName -> "exists"
                 [] OTHER -> "state")
    /\ UNCHANGED <<op, vm, dc, snaps, taken, stranded, faults, moves>>

ListSnapshots(x) ==
    /\ exec[x].pc = "list"
    /\ \/ Finish(x, "ok") /\ NoFault
       \/ Finish(x, "error") /\ Fault
    /\ UNCHANGED <<op, vm, dc, snaps, taken, stranded, moves>>

\* rollbackCCVMSnapshot.  Whether rbd refuses to roll back an image in use is not
\* assumed.
Rollback(x) ==
    /\ exec[x].pc = "rollback"
    /\ \/ SnapName(x) \in ToSet(snaps) /\ Finish(x, "ok") /\ NoFault
       \/ (SnapName(x) \notin ToSet(snaps) \/ Started) /\ Finish(x, "error") /\ NoFault
       \/ Finish(x, "error") /\ Fault
    /\ UNCHANGED <<op, vm, dc, snaps, taken, stranded, moves>>

\* ccvmSnapshotExists for an automatic snapshot.
CheckExists(x) ==
    /\ exec[x].pc = "exists"
    /\ \/ SnapName(x) \in ToSet(snaps) /\ Finish(x, "ok") /\ NoFault
       \/ SnapName(x) \notin ToSet(snaps) /\ Goto(x, "state") /\ NoFault /\ UNCHANGED lock
       \/ Finish(x, "error") /\ Fault
    /\ UNCHANGED <<op, vm, dc, snaps, taken, stranded, moves>>

\* Mutant: the answer of PCS is not confirmed.
ReadStateTrusting(x) ==
    /\ exec[x].pc = "state"
    /\ Goto(x, IF DomState(exec[x].host) = "running" THEN "suspend" ELSE "create")
    /\ UNCHANGED <<op, lock, vm, dc, snaps, taken, stranded, faults, moves>>

\* readLocalCCVMState.  A caller that was told the CCVM runs here insists on it; any
\* other goes on without pausing whatever is not running.
ReadState(x) ==
    LET state == DomState(exec[x].host) IN
    /\ exec[x].pc = "state"
    /\ \/ /\ state = "running"
          /\ Goto(x, "suspend") /\ NoFault /\ UNCHANGED lock
       \/ /\ state # "running"
          /\ IF exec[x].started THEN Finish(x, "error") ELSE Goto(x, "create") /\ UNCHANGED lock
          /\ NoFault
       \/ /\ IF exec[x].started THEN Finish(x, "error") ELSE Goto(x, "create") /\ UNCHANGED lock
          /\ Fault
    /\ UNCHANGED <<op, vm, dc, snaps, taken, stranded, moves>>

Pause == vm' = [vm EXCEPT !.state = "paused"]

\* suspendLocalCCVM.  A command that failed may have had its effect.
Suspend(x) ==
    LET here == vm.host = exec[x].host IN
    /\ exec[x].pc = "suspend"
    /\ \/ /\ here /\ Pause
          /\ exec' = [exec EXCEPT ![x].pc = "create", ![x].suspended = TRUE]
          /\ NoFault /\ UNCHANGED <<lock, stranded>>
       \/ /\ ~here
          /\ Finish(x, "error")
          /\ NoFault /\ UNCHANGED <<vm, stranded>>
       \/ /\ Finish(x, "error") /\ Fault
          /\ \/ here /\ Pause /\ stranded' = TRUE
             \/ UNCHANGED <<vm, stranded>>
    /\ UNCHANGED <<op, dc, snaps, taken, moves>>

Created(x) ==
    /\ snaps' = Append(snaps, SnapName(x))
    /\ taken' = taken \cup {[by |-> x, live |-> vm.state = "running"]}

\* Mutant: the error of create is returned at once.
AfterCreateEarly(x, failed) ==
    IF failed THEN Finish(x, "error")
    ELSE Goto(x, IF exec[x].suspended THEN "resume" ELSE "clean") /\ UNCHANGED lock

\* After rbd snap create: the CCVM is resumed whatever came of it.
AfterCreate(x, failed) ==
    IF exec[x].suspended
    THEN exec' = [exec EXCEPT ![x].pc = "resume", ![x].err = failed] /\ UNCHANGED lock
    ELSE IF failed THEN Finish(x, "error") ELSE Goto(x, "clean") /\ UNCHANGED lock

\* rbd snap create.
Create(x) ==
    LET new == SnapName(x) \notin ToSet(snaps) IN
    /\ exec[x].pc = "create"
    /\ \/ new /\ Created(x) /\ AfterCreate(x, FALSE) /\ NoFault
       \/ ~new /\ AfterCreate(x, TRUE) /\ NoFault /\ UNCHANGED <<snaps, taken>>
       \/ /\ AfterCreate(x, TRUE) /\ Fault
          /\ \/ new /\ Created(x)
             \/ UNCHANGED <<snaps, taken>>
    /\ UNCHANGED <<op, vm, dc, stranded, moves>>

\* resumeLocalCCVM.  virsh refuses to resume a domain that is not paused.
Resume(x) ==
    LET paused == DomState(exec[x].host) = "paused"
        Wake == vm' = [vm EXCEPT !.state = "running"] IN
    /\ exec[x].pc = "resume"
    /\ \/ /\ paused /\ Wake /\ stranded' = FALSE
          /\ IF exec[x].err THEN Finish(x, "error") ELSE Goto(x, "clean") /\ UNCHANGED lock
          /\ NoFault
       \/ /\ ~paused
          /\ Finish(x, "error")
          /\ NoFault /\ UNCHANGED <<vm, stranded>>
       \/ /\ Finish(x, "error") /\ Fault
          /\ \/ paused /\ Wake /\ stranded' = FALSE
             \/ UNCHANGED vm /\ stranded' = (stranded \/ paused)
    /\ UNCHANGED <<op, dc, snaps, taken, moves>>

\* Mutants: one too many is removed, one too few.
ExcessMore == SubSeq(snaps, 1, Len(snaps) - Limit + 1)
ExcessFewer == SubSeq(snaps, 1, Len(snaps) - Limit - 1)

\* The snapshots that are too many.
Excess == SubSeq(snaps, 1, Len(snaps) - Limit)

\* cleanupOldCCVMSnapshots lists the snapshots.
ListExcess(x) ==
    /\ exec[x].pc = "clean"
    /\ \/ /\ Excess = <<>>
          /\ Finish(x, "ok") /\ NoFault
       \/ /\ Excess # <<>>
          /\ exec' = [exec EXCEPT ![x].pc = "remove", ![x].todo = Excess]
          /\ NoFault /\ UNCHANGED lock
       \/ Finish(x, "error") /\ Fault
    /\ UNCHANGED <<op, vm, dc, snaps, taken, stranded, moves>>

\* rbd snap rm, one after the other.
RemoveOld(x) ==
    LET todo == exec[x].todo
        there == Head(todo) \in ToSet(snaps)
        Gone == \E i \in DOMAIN snaps : snaps[i] = Head(todo) /\ snaps' = RemoveAt(snaps, i) IN
    /\ exec[x].pc = "remove"
    /\ \/ /\ there /\ Gone
          /\ IF Len(todo) = 1 THEN Finish(x, "ok")
             ELSE exec' = [exec EXCEPT ![x].todo = Tail(@)] /\ UNCHANGED lock
          /\ NoFault
       \/ /\ ~there
          /\ Finish(x, "error")
          /\ NoFault /\ UNCHANGED snaps
       \/ /\ Finish(x, "error") /\ Fault
          /\ (there /\ Gone) \/ UNCHANGED snaps
    /\ UNCHANGED <<op, vm, dc, taken, stranded, moves>>

-----------------------------------------------------------------------------
(* The API server of a host restarts: its handlers and the calls it waits   *)
(* for are gone.                                                            *)

ServerRestarts(h) ==
    LET lost == {x \in Exec : exec[x].host = h /\ exec[x].pc \notin {"idle", "done"}}
        asked == {o \in Client : op[o].pc = "wait" /\ Targets[op[o].next] = h /\ op[o].entry # h}
        own == {o \in Op : op[o].pc \in {"via", "wait"} /\ op[o].entry = h} IN
    /\ Fault
    /\ exec' = [x \in Exec |-> IF x \in lost THEN Ended(x, "error") ELSE exec[x]]
    /\ lock' = [lock EXCEPT ![h] = <<>>]
    /\ op' = [o \in Op |-> IF o \in own THEN [op[o] EXCEPT !.pc = "done", !.ans = "error"]
                           ELSE IF o \in asked THEN [op[o] EXCEPT !.pc = "via", !.next = @ + 1]
                           ELSE op[o]]
    /\ stranded' = (stranded \/ (vm.host = h /\ vm.state = "paused"))
    /\ UNCHANGED <<vm, dc, snaps, taken, moves>>

-----------------------------------------------------------------------------
(* PCS.                                                                     *)

Move == moves < MaxMoves /\ moves' = moves + 1

\* PCS stops the CCVM, or starts it on a host, and elects another DC.
PCSStops ==
    /\ Started /\ Move
    /\ vm' = [host |-> NoHost, state |-> "off"] /\ stranded' = FALSE
    /\ UNCHANGED <<op, exec, lock, dc, snaps, taken, faults>>

PCSStarts(h) ==
    /\ ~Started /\ Move
    /\ vm' = [host |-> h, state |-> "running"]
    /\ UNCHANGED <<op, exec, lock, dc, snaps, taken, stranded, faults>>

PCSElects(h) ==
    /\ dc # h /\ Move
    /\ dc' = h
    /\ UNCHANGED <<op, exec, lock, vm, snaps, taken, stranded, faults>>

-----------------------------------------------------------------------------

ExecStep(x) ==
    \/ Resolve(x) \/ Lock(x) \/ ListSnapshots(x) \/ Rollback(x) \/ CheckExists(x) \/ ReadState(x)
    \/ Suspend(x) \/ Create(x) \/ Resume(x) \/ ListExcess(x) \/ RemoveOld(x)

Next ==
    \/ \E o \in Client : CCVMSnap(o)
    \/ \E o \in Client : ViaPCS(o) \/ CallLost(o)
    \/ \E o \in Op : Return(o)
    \/ \E h \in Host : TriggerAuto(h)
    \/ \E x \in Exec : ExecStep(x)
    \/ \E x \in Exec : ForwardLost(x)
    \/ \E h \in Host : ServerRestarts(h)
    \/ PCSStops
    \/ \E h \in Host : PCSStarts(h)
    \/ \E h \in Host : PCSElects(h)

Spec == Init /\ [][Next]_vars

-----------------------------------------------------------------------------
(* Properties.                                                              *)

Busy == {x \in Exec : exec[x].pc \notin {"idle", "done"}}

TypeOK ==
    /\ op \in [Op -> [pc : {"none", "via", "wait", "done"}, kind : {"none", "list", "backup", "rollback"},
                       name : {<<>>, Named, AutoName, <<"s1">>}, entry : Host \cup {NoHost},
                       next : 1..(Len(Targets) + 1), ans : {"none", "ok", "error"}]]
    /\ DOMAIN exec = Exec
    /\ \A x \in Exec :
         /\ exec[x].pc \in {"idle", "resolve", "lock", "list", "rollback", "exists", "state", "suspend",
                           "create", "resume", "clean", "remove", "done"}
         /\ exec[x].host \in Host \cup {NoHost}
         /\ exec[x].res \in {"none", "ok", "error"}
         /\ {exec[x].started, exec[x].remote, exec[x].suspended, exec[x].err} \subseteq BOOLEAN
    /\ lock \in [Host -> Exec \cup {<<>>}]
    /\ vm.host \in Host \cup {NoHost} /\ vm.state \in {"running", "paused", "off"}
    /\ (vm.host = NoHost) = (vm.state = "off")
    /\ dc \in Host
    /\ stranded \in BOOLEAN
    /\ faults \in 0..MaxFaults /\ moves \in 0..MaxMoves

\* A paused CCVM is being backed up by the handler that holds the mutex of its host and
\* that will resume it (createCCVMSnapshot resumes whatever rbd answers), unless virsh or
\* the server failed in between.
PausedIsHeld ==
    vm.state = "paused" /\ ~stranded =>
        LET x == lock[vm.host] IN
        /\ x # <<>>
        /\ exec[x].pc \in {"create", "resume"} /\ exec[x].suspended

\* A backup that PCS sent to the CCVM's host and that ends well created its snapshot
\* while the CCVM was not running, although PCS may have moved the CCVM at any moment
\* (expectStarted, and resume failing on a domain that is not paused).
SuccessIsQuiesced ==
    [][\A x \in Exec :
         /\ op[x[1]].kind = "backup" /\ exec[x].started
         /\ exec[x].pc # "done" /\ exec'[x].pc = "done" /\ exec'[x].res = "ok"
         => \/ \E t \in taken' : t.by = x /\ ~t.live
            \/ exec[x].pc = "exists"]_vars

\* Two snapshots were given the same name, the first of them gone when the second was made.
Reused == \E s, t \in taken : s.by # t.by /\ SnapName(s.by) = SnapName(t.by)
Newest(s) == SubSeq(s, Len(s) - Limit + 1, Len(s))

\* Retention never removes one of the Limit newest snapshots, also when the handlers of two
\* hosts clean up from lists that are out of date (cleanupOldCCVMSnapshots).  It removes by
\* name: a list from before a name was used again may hold the new snapshot.
NewestKept ==
    [][Len(snaps') < Len(snaps) /\ ~Reused =>
          Len(snaps) > Limit /\ Newest(snaps') = Newest(snaps)]_vars

\* When no handler is at work, more than Limit snapshots are left only if one of them has
\* reported an error.
LimitOrError ==
    Busy = {} /\ Len(snaps) > Limit => \E x \in Exec : exec[x].res = "error"

=============================================================================
