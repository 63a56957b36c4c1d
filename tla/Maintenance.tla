---------------------------- MODULE Maintenance ----------------------------
(***************************************************************************)
(* What is done to all hosts of a cluster at once: auto_shutdown.go unmounts *)
(* volumes, stops the storage VMs and powers the hosts off,                  *)
(* security_patch.go runs the patch script on hosts and VMs,                 *)
(* update_glue_config.go gives them the configuration of Ceph, and           *)
(* version_update.go copies an ISO and runs its update script on this host.  *)
(***************************************************************************)
EXTENDS Script, FiniteSets

CONSTANTS
    Host, Here,     \* hosts, and the one that answers
    VM, OwnSCVM,    \* SCVMs and the CCVM, and the SCVM of this host
    MaxRetries,     \* securityPatchMaxRetries
    Client, MaxFaults

VARIABLES w, req, overlap, last, lost, faults

-----------------------------------------------------------------------------

AllNodes == Host \cup VM

\* on: hosts with power; mounted: hosts with volumes of fstab mounted; scvm: hosts whose SCVM
\* runs; patched, status: nodes that are patched, hosts whose profile says so; conf: /etc/ceph
\* of each node; work: the copy of the ISO; ready: the deployment is complete.
World(ready, mons) ==
    [on |-> Host, mounted |-> Host, scvm |-> Host, patched |-> {}, status |-> {},
     conf |-> [n \in AllNodes |-> "old"], mons |-> mons, work |-> "none", updated |-> FALSE,
     ready |-> ready, halfRun |-> FALSE]

Only(b, x) == IF b THEN {x} ELSE {}
\* Nothing runs on a host without power, and nothing from here without this one.
Reaches(n, x) == Here \in x.on /\ (n \in Host => n \in x.on)
Shutdown(op, h, x) ==
    CASE op = "umount" -> {[x EXCEPT !.mounted = @ \ {h}]}
      [] op = "stop scvm" -> {[x EXCEPT !.scvm = @ \ {h}]}
      [] op = "power off" -> {[x EXCEPT !.on = @ \ {h}, !.scvm = @ \ {h}]}
Glue(op, n, x) ==
    CASE op = "generate" -> Only(x.mons, [x EXCEPT !.conf[Here] = "new"])
      [] op = "fetch" -> {[x EXCEPT !.conf[Here] = x.conf[n]]}
      [] op = "health" -> {x}
      [] op = "copy" -> {[x EXCEPT !.conf[n] = x.conf[Here]]}
Update(op, x) ==
    CASE op = "stage" -> Only(x.ready, x)
      [] op = "iso" -> {x}
      [] op = "remove" -> {[x EXCEPT !.work = "none"]}
      [] op = "cp" -> {[x EXCEPT !.work = "part"]}
      [] op = "cp rest" -> Only(x.work # "none", [x EXCEPT !.work = "whole"])
      [] op = "script" -> Only(x.work # "none", [x EXCEPT !.updated = TRUE, !.halfRun = @ \/ x.work = "part"])
Effect(cmd, x) ==
    IF cmd[1] = "update" THEN IF Reaches(Here, x) THEN Update(cmd[2], x) ELSE {}
    ELSE IF ~Reaches(cmd[3], x) THEN {}
    ELSE
    CASE cmd[1] = "shutdown" -> Shutdown(cmd[2], cmd[3], x)
      [] cmd[1] = "patch" -> {[x EXCEPT !.patched = @ \cup {cmd[3]}]}
      [] cmd[1] = "status" -> {[x EXCEPT !.status = @ \cup {cmd[3]}]}
      [] cmd[1] = "glue" -> Glue(cmd[2], cmd[3], x)
      [] OTHER -> {}

-----------------------------------------------------------------------------
(* Shutdown: the other hosts first, this one last.                           *)

\* Mutant: this one first.
HereFirst == <<Here>> \o SetToSeq(Host \ {Here})
OrderTargets == SetToSeq(Host \ {Here}) \o <<Here>>
CheckMounts(h) == Note(<<"shutdown", "umount", h>>)
ShutdownHost(h) == Note(<<"shutdown", "power off", h>>)
AutoShutdownLocal(act, h) == IF act = "check mount" THEN CheckMounts(h) ELSE ShutdownHost(h)
ShutdownFanout(act) ==
    FlattenSeq([i \in 1..Len(OrderTargets) |-> AutoShutdownLocal(act, OrderTargets[i])]) \o Verdict
StopSCVMs ==
    FlattenSeq([i \in 1..Len(OrderTargets) |-> Note(<<"shutdown", "stop scvm", OrderTargets[i]>>)]) \o Verdict
RunAutoShutdown(a) == IF a.act = "stop scvms" THEN StopSCVMs ELSE ShutdownFanout(a.act)
ShutdownAsks == [act : {"check mount", "stop scvms", "shutdown hosts"}]

-----------------------------------------------------------------------------
(* The security patch: every target is tried.                                *)

\* runSecurityPatchLocal on the target: the script is run again when it fails.
PatchOn(n) == Retry(<<"patch", "script", n>>, MaxRetries, "keep")
\* runSecurityPatchStatusUpdateLocal and ...API: the first host that fails is the last.
StatusOn(h) == Must(<<"status", "set", h>>)
UpdateStatus(local) == IF local THEN StatusOn(Here) ELSE Each(Host, StatusOn)
\* gatherSecurityPatchTargets.
PatchTargets(kinds) == UNION {IF k = "ablecube" THEN Host ELSE VM : k \in kinds}
RunSecurityPatch(a) ==
    CASE a.act = "patch status" -> UpdateStatus(a.local)
      [] a.act = "patch ceph ssh" -> PatchOn(Here) \o Verdict
      [] a.act = "patch local" -> PatchOn(Here) \o Verdict
      [] a.act = "patch add host" -> PatchOn(Here) \o If(a.hci, PatchOn(OwnSCVM)) \o Verdict
      [] OTHER -> If(~a.dry, Each(PatchTargets(a.kinds), PatchOn)) \o Verdict
PatchAsks ==
    [act : {"patch"}, kinds : SUBSET {"ablecube", "vm"} \ {{}}, dry : BOOLEAN]
    \cup [act : {"patch local", "patch ceph ssh"}] \cup [act : {"patch add host"}, hci : BOOLEAN]
    \cup [act : {"patch status"}, local : BOOLEAN]

-----------------------------------------------------------------------------
(* The configuration of Ceph.                                                *)

Generate(n) == First(<<"glue", "generate", Here>>, n)
\* copyGlueConfigFromPCSClusterHost: the first of the other hosts that answers.
FetchFrom == LET s == SetToSeq(Host \ {Here}) IN
    FlattenSeq([i \in 1..Len(s) |-> First(<<"glue", "fetch", s[i]>>, Len(s) - i + 1)]) \o Must(<<"refuse", "no source", Here>>)
PrepareSource == Generate(Len(FetchFrom)) \o FetchFrom
CheckHealth == Each(AllNodes \ {Here}, LAMBDA n : Note(<<"glue", "health", n>>)) \o Verdict
CopyToTargets == Each(AllNodes \ {Here}, LAMBDA n : Note(<<"glue", "copy", n>>)) \o Verdict
RunGlueConfigUpdate == PrepareSource \o CheckHealth \o CopyToTargets

-----------------------------------------------------------------------------
(* The version update.                                                       *)

U(op) == <<"update", op>>
\* Mutant: the error of cp is not looked at.
CopyUnchecked == TryOr(U("cp"), 1) \o Try(U("cp rest"))
\* copyVersionUpdateFiles; what a cp that fails has copied is removed.
CopyFiles == NoteOr(U("cp"), 1) \o Note(U("cp rest")) \o IfBad(Try(U("remove"))) \o Verdict
PrepareWorkDir == Must(U("remove")) \o CopyFiles
ReadInfo == Must(U("iso"))
\* ensureVersionUpdateReady.
EnsureReady == Must(U("stage"))
RunVersionUpdate == EnsureReady \o ReadInfo \o PrepareWorkDir \o Must(U("script"))
UpdateAsks == [act : {"update info", "update run"}]

-----------------------------------------------------------------------------

Asks(x) ==
    IF Here \notin x.on THEN {} ELSE ShutdownAsks \cup PatchAsks \cup [act : {"glue config"}] \cup UpdateAsks
Start(a, x) ==
    CASE a \in ShutdownAsks -> RunAutoShutdown(a)
      [] a \in PatchAsks -> RunSecurityPatch(a)
      [] a.act = "glue config" -> RunGlueConfigUpdate
      [] a.act = "update info" -> ReadInfo
      [] a.act = "update run" -> RunVersionUpdate
Body(cmd, x) == <<>>

Begins == {World(ready, mons) : ready \in BOOLEAN, mons \in BOOLEAN}
Drifts(x) == {x}
Matters(cmd) == cmd[1] = "shutdown"

INSTANCE Runner

-----------------------------------------------------------------------------

TypeOK == w.on \cup w.mounted \cup w.scvm \cup w.status \subseteq Host /\ w.patched \subseteq AllNodes

\* This host goes off last: when it has, every other host is off, unless a call to one of
\* them has failed.  Otherwise nobody is left to tell the others.
HereGoesLast == Here \notin w.on => w.on = {} \/ lost # {}

\* The update script runs from a copy that is complete, whatever interrupts the copying; two
\* updates at the same time are the exception, they share the directory.
UpdateFromWhole == w.halfRun => overlap

\* A request that succeeds has done it everywhere: all volumes unmounted, all storage VMs
\* stopped, all hosts off; all targets patched; the same configuration on every node.
SuccessIsWhole ==
    CASE last.act = "check mount" -> w.mounted = {}
      [] last.act = "stop scvms" -> w.scvm = {}
      [] last.act = "shutdown hosts" -> w.on = {}
      [] last.act = "patch add host" -> Here \in w.patched /\ (last.hci => OwnSCVM \in w.patched)
      [] last.act = "patch" /\ ~last.dry -> PatchTargets(last.kinds) \subseteq w.patched
      [] last.act = "patch status" /\ ~last.local -> w.status = Host
      [] last.act = "glue config" -> \A n \in AllNodes : w.conf[n] = w.conf[Here]
      [] last.act = "update run" -> w.updated
      [] OTHER -> TRUE

=============================================================================
