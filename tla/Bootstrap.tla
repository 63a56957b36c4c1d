----------------------------- MODULE Bootstrap -----------------------------
(***************************************************************************)
(* The bootstrap of the storage VMs and of the CloudCenter VM: bootstrap.go  *)
(* runs the bootstrap script of a VM through the guest agent of its host or  *)
(* on the VM itself, waits until the API of each target answers, registers   *)
(* the license there and asks for it.  What the script does with each of its *)
(* arguments is external.  License has the steps of a registration.          *)
(***************************************************************************)
EXTENDS Script, FiniteSets, FiniteSetsExt

CONSTANTS
    Host,           \* hosts with their SCVM: their index in cluster.json
    CCVM,
    Client, MaxFaults

VARIABLES w, req, overlap, last, lost, faults

-----------------------------------------------------------------------------

\* ready, key, member: SCVMs that are prepared, have the key of cephadm, are in the Ceph
\* cluster; tpm, services: hosts; flag: hosts whose ablestack.json says that the CCVM is
\* bootstrapped; early: history, a script has run before what it needs.
Fresh(t) ==
    [type |-> t, ready |-> {}, ceph |-> FALSE, key |-> {}, member |-> {}, licensed |-> {},
     crush |-> FALSE, tpm |-> {}, services |-> {}, ccvm |-> FALSE, flag |-> {}, early |-> FALSE]
\* An HCI cluster that a new host is to join.
Grown == LET old == Host \ {Max(Host)} IN
    [Fresh("hci") EXCEPT !.ready = old, !.ceph = TRUE, !.key = old, !.member = old, !.licensed = old]

Only(b, x) == IF b THEN {x} ELSE {}
Master == Min(Host)

\* The bootstrap script on the SCVM of a host.
SCVMScript(op, h, x) ==
    CASE op = "prepare" -> {[x EXCEPT !.ready = @ \cup {h}]}
      [] op = "bootstrap" -> Only(h \in x.ready, [x EXCEPT !.ceph = TRUE, !.key = @ \cup {h}, !.member = @ \cup {h}])
      [] op = "export key" -> Only(x.ceph /\ h \in x.member, x)
      [] op = "install key" -> Only(h \in x.ready, [x EXCEPT !.key = @ \cup {h}])
\* What the hosts need before the script of the CCVM runs.
NodesReady(x) == x.tpm = Host /\ (x.type # "standalone" => x.services = Host) /\ (x.type = "hci" => x.crush)
Effect(cmd, x) ==
    CASE cmd[1] = "scvm" -> SCVMScript(cmd[2], cmd[3], x)
      [] cmd[1] = "finalize" -> Only(x.ceph /\ cmd[2] \in x.member,
                                     [x EXCEPT !.member = @ \cup x.key, !.early = @ \/ ~(cmd[3] \subseteq x.key)])
      [] cmd[1] = "ping" -> {x}
      [] cmd[1] = "crushmap" -> Only(x.ceph, [x EXCEPT !.crush = TRUE])
      [] cmd[1] = "tpm" -> {[x EXCEPT !.tpm = @ \cup {cmd[2]}]}
      [] cmd[1] = "services" -> {[x EXCEPT !.services = @ \cup {cmd[2]}]}
      [] cmd[1] = "ccvm" -> {[x EXCEPT !.ccvm = TRUE, !.early = @ \/ ~NodesReady(x)]}
      [] cmd[1] = "health" -> {x}
      [] cmd[1] = "license" -> {[x EXCEPT !.licensed = @ \cup {cmd[2]}]}
      [] cmd[1] = "licensed" -> Only(cmd[2] \in x.licensed, x)
      [] cmd[1] = "flag" -> {[x EXCEPT !.flag = @ \cup {cmd[2]}]}
      [] OTHER -> {}

-----------------------------------------------------------------------------

Refuse == Must(<<"refuse">>)
\* runBootstrapScriptLocal: the guest agent has to answer before the script is started.  A script
\* whose status cannot be read any more goes on in the guest: a command that fails may have done its work.
WaitGuestAgent == Must(<<"ping">>)
GuestScript(cmd) == Must(cmd)
ScriptLocal(op, h) == WaitGuestAgent \o GuestScript(<<"scvm", op, h>>)
Finalize(h, S) == WaitGuestAgent \o GuestScript(<<"finalize", h, S>>)
\* buildSCVMBootstrapScriptTargets: by their indexes.
ScriptTargets(S) == SetToSortSeq(S, <)
OnEach(S, op) == FlattenSeq([i \in 1..Cardinality(S) |-> ScriptLocal(op, ScriptTargets(S)[i])])

\* runSCVMClusterBootstrap: the master is the first of the targets.
ClusterBootstrap(S) ==
    LET master == Min(S) IN
    OnEach(S, "prepare") \o ScriptLocal("bootstrap", master) \o ScriptLocal("export key", master)
    \o OnEach(S, "install key") \o Finalize(master, S)
\* Mutant: the cluster is extended before the new SCVMs have its key.
JoinThenKey(S) ==
    IF Cardinality(Host) < 2 \/ Master \in S THEN Refuse
    ELSE OnEach(S, "prepare") \o ScriptLocal("export key", Master) \o Finalize(Master, S) \o OnEach(S, "install key")
\* runSCVMClusterJoin never bootstraps: the first SCVM of the cluster takes in the new ones.
ClusterJoin(S) ==
    IF Cardinality(Host) < 2 \/ Master \in S THEN Refuse
    ELSE OnEach(S, "prepare") \o ScriptLocal("export key", Master) \o OnEach(S, "install key") \o Finalize(Master, S)

WriteTPMProperties(h) == Must(<<"tpm", h>>)
\* buildCCVMBootstrapNodePrepareTargets and runCCVMBootstrapNodePrepareLocal.
PrepareHost(h, x) == WriteTPMProperties(h) \o If(x.type # "standalone", Must(<<"services", h>>))
NodePrepare(x) ==
    If(x.type = "hci", Must(<<"crushmap">>))
    \o FlattenSeq([i \in 1..Cardinality(Host) |-> PrepareHost(ScriptTargets(Host)[i], x)])
ScriptDirect == Must(<<"ccvm">>)
CCVMClusterBootstrap(x) == NodePrepare(x) \o ScriptDirect

Scripts(a, x) ==
    IF ~a.script THEN <<>>
    ELSE IF a.act = "ccvm" THEN CCVMClusterBootstrap(x)
    ELSE IF a.join THEN ClusterJoin(a.to)
    ELSE ClusterBootstrap(a.to)

\* waitBootstrapTargetsReady: all are waited for before the first failure is looked for.
WaitTargetsReady(T) == Each(T, LAMBDA t : Note(<<"health", t>>)) \o Verdict
\* runBootstrapLicenseApply and the status after it.
LicenseApply(T) == Each(T, LAMBDA t : Note(<<"license", t>>)) \o Verdict
LicenseStatus(T) == Each(T, LAMBDA t : Note(<<"licensed", t>>)) \o Verdict

Targets(a) == IF a.act = "ccvm" THEN {CCVM} ELSE a.to
RunBootstrapRole(a, x) ==
    Scripts(a, x) \o WaitTargetsReady(Targets(a)) \o If(a.act = "scvm", LicenseApply(Targets(a))) \o LicenseStatus(Targets(a))
\* The flags come after everything else has succeeded.
BootstrapFlag == Each(Host, LAMBDA h : Note(<<"flag", h>>)) \o Verdict
\* Mutant: the flags are set on the way.
FlagAtOnce(a, x) == If(a.act = "ccvm", BootstrapFlag) \o RunBootstrapRole(a, x)
RunBootstrapHandler(a, x) ==
    IF a.act = "scvm" /\ x.type # "hci" THEN Must(<<"ping">>)
    ELSE RunBootstrapRole(a, x) \o If(a.act = "ccvm", BootstrapFlag)

Asks(x) ==
    [act : {"ccvm"}, script : BOOLEAN]
    \cup [act : {"scvm"}, script : BOOLEAN, join : {FALSE}, to : {Host}]
    \cup [act : {"scvm"}, script : {TRUE}, join : {TRUE}, to : {{Max(Host)}, Host}]
    \cup [act : {"license ccvm"}]
Start(a, x) == IF a.act = "license ccvm" THEN Must(<<"license", CCVM>>) ELSE RunBootstrapHandler(a, x)
Body(cmd, x) == <<>>

Begins == {Fresh(t) : t \in {"hci", "vm", "standalone"}} \cup {Grown}
Drifts(x) == {x}
Matters(cmd) == FALSE

INSTANCE Runner

-----------------------------------------------------------------------------

TypeOK == w.ready \cup w.tpm \cup w.services \cup w.flag \cup w.key \cup w.member \subseteq Host

\* No script runs before what it needs is there: the cluster is finalised when each SCVM that
\* is to be taken in has its key, and the script of the CCVM runs when every host has its TPM
\* properties and its cluster services and the CRUSH map is configured.
ScriptsInOrder == w.early => overlap

\* The flag that the CCVM is bootstrapped is set on no host before the CCVM has answered that
\* it has its license, however the requests interleave.
FlagIsTrue == w.flag # {} => CCVM \in w.licensed

\* A bootstrap that succeeds has done all of it: every target has its license, every SCVM is
\* in the Ceph cluster, every host is prepared for the CCVM and has the flag.
SuccessIsWhole ==
    CASE last.act = "scvm" /\ w.type = "hci" ->
             last.to \subseteq w.licensed /\ (last.script => last.to \subseteq w.member)
      [] last.act = "ccvm" -> CCVM \in w.licensed /\ w.flag = Host /\ (last.script => w.ccvm /\ NodesReady(w))
      [] OTHER -> TRUE

=============================================================================
