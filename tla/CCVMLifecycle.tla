--------------------------- MODULE CCVMLifecycle ---------------------------
(***************************************************************************)
(* The CloudCenter VM: ccvm_lifecycle.go makes, starts, stops and removes   *)
(* it for each type of cluster, pcs.go keeps its resource cloudcenter_res   *)
(* in the PCS cluster, ccvm_service_control.go its services.                *)
(* The steps of a call that goes to the host which runs pcs are those of    *)
(* runCCVMPCSLocal there.  The removal of the GFS cluster and of the local  *)
(* volume are one command here: GFSManage and DiskManage have their steps.  *)
(***************************************************************************)
EXTENDS Script, FiniteSets

CONSTANTS
    Host, Here,     \* hosts, and the one that answers
    NoHost,
    Client, MaxFaults

VARIABLES w, req, overlap, last, lost, faults

-----------------------------------------------------------------------------

Type == {"hci", "vm", "standalone", "filesystem"}
\* Flags of bootstrap in cluster.json.
Flag == {"ccvm", "wall", "gfs"}
\* resetCloudCenterGFSSystemFlags: the wall of the section monitoring, which every save drops
\* when the section bootstrap has one, so that bootstrap.wall outlives a reset.
GFSSystemFlags == {"ccvm", "monitoring.wall", "gfs"}

\* No CCVM yet.  A GFS cluster has been configured before its CCVM.
Prepared(t) ==
    [type |-> t, gfs |-> t \in {"vm", "filesystem"}, pcs |-> t \in {"vm", "filesystem"},
     res |-> "none", image |-> "none", xml |-> TRUE, defined |-> FALSE, at |-> NoHost, order |-> FALSE,
     cron |-> Host, flags |-> [h \in Host |-> {}], ripped |-> FALSE, scan |-> FALSE, service |-> FALSE]
Deployed(t) ==
    [Prepared(t) EXCEPT !.pcs = t # "standalone", !.res = IF t = "standalone" THEN "none" ELSE "enabled",
                        !.image = "sized", !.defined = t = "standalone", !.at = Here,
                        !.order = t \in {"vm", "filesystem"},
                        !.cron = {}, !.flags = [h \in Host |-> Flag], !.service = TRUE]

Only(b, x) == IF b THEN {x} ELSE {}
Up(x) == x.at # NoHost
Off(x) == [x EXCEPT !.at = NoHost]
\* What a VM needs to start.
Startable(x) == x.image # "none" /\ x.xml
WithoutImage(x) == [x EXCEPT !.image = "none", !.ripped = @ \/ Up(x)]

\* pcs: a resource that is enabled is started by the cluster sooner or later.
Pcs(op, x) ==
    CASE op = "auth" -> {x}
      [] op = "cluster setup" -> Only(~x.pcs, [x EXCEPT !.pcs = TRUE])
      [] op = "properties" -> Only(x.pcs, x)
      [] op = "status" -> Only(x.pcs /\ x.res # "none", x)
      [] op = "create" -> Only(x.pcs /\ x.res = "none", [x EXCEPT !.res = "enabled"])
      [] op = "create disabled" -> Only(x.pcs /\ x.res = "none", [x EXCEPT !.res = "disabled"])
      [] op = "order" -> Only(x.res # "none", [x EXCEPT !.order = TRUE])
      [] op = "cleanup" -> Only(x.res # "none", x)
      [] op = "enable" -> Only(x.res # "none", [x EXCEPT !.res = "enabled"])
      [] op = "disable" -> Only(x.res # "none", Off([x EXCEPT !.res = "disabled"]))
      [] op = "remove" -> Only(x.res # "none", Off([x EXCEPT !.res = "none", !.order = FALSE]))
      [] op = "refresh" -> Only(x.pcs, x)
      [] op = "started" -> IF x.res = "enabled" /\ Startable(x) THEN {[x EXCEPT !.at = IF Up(x) THEN @ ELSE h] : h \in Host} ELSE {}
      [] op = "cluster stop" -> Only(x.pcs, Off(x))
      [] op = "destroy" -> Only(x.pcs, Off([x EXCEPT !.pcs = FALSE, !.res = "none", !.order = FALSE]))
      [] op = "token" -> Only(x.pcs, x)
\* rbd, qemu-img and the files of the image; an RBD image in use cannot be removed.
Image(op, x) ==
    CASE op = "rbd rm" -> Only(x.image # "none" /\ ~Up(x), WithoutImage(x))
      [] op = "convert" -> Only(x.image = "none", [x EXCEPT !.image = "copied"])
      [] op = "copy" -> {[x EXCEPT !.image = "copied", !.ripped = @ \/ Up(x)]}
      [] op = "resize" -> Only(x.image # "none", [x EXCEPT !.image = "sized"])
      [] op = "remove files" -> {IF x.type = "vm" THEN WithoutImage(x) ELSE x}
      [] op = "purge" -> {WithoutImage(x)}
\* libvirt on this host.
Virsh(op, x) ==
    CASE op = "define" -> Only(x.xml, [x EXCEPT !.defined = TRUE])
      [] op = "autostart" -> Only(x.defined, x)
      [] op = "start" -> Only(x.defined /\ ~Up(x) /\ Startable(x), [x EXCEPT !.at = Here])
      [] op = "running" -> Only(x.at = Here, x)
      [] op = "shutdown" -> IF x.at = Here THEN {x, Off(x)} ELSE {}
      [] op = "destroy" -> Only(x.at = Here, Off(x))
      [] op = "shut off" -> Only(x.defined /\ ~Up(x), x)
      [] op = "undefine" -> Only(x.defined, [x EXCEPT !.defined = FALSE])
      [] op = "gone" -> Only(~x.defined /\ x.at # Here, x)
Other(op, x) ==
    CASE op \in {"reach", "copy keys"} -> {x}
      [] op = "mounted" -> Only(x.gfs, x)
      [] op = "xml" -> Only(x.xml, x)
      [] op = "iso" -> {x}
      [] op = "clear workspace" -> {[x EXCEPT !.xml = FALSE]}
      [] op = "gfs init" -> {Off([x EXCEPT !.gfs = FALSE, !.pcs = FALSE, !.res = "none", !.order = FALSE,
                                           !.image = IF x.type = "vm" THEN "none" ELSE @])}
      [] op = "local reset" -> {[x EXCEPT !.image = IF Up(x) THEN @ ELSE "none"]}
      [] op = "scan" -> {[x EXCEPT !.scan = TRUE]}
      [] op = "systemctl start" -> Only(Up(x), [x EXCEPT !.service = TRUE])
      [] op = "systemctl stop" -> Only(Up(x), [x EXCEPT !.service = FALSE])
Effect(cmd, x) ==
    CASE cmd[1] = "pcs" -> Pcs(cmd[2], x)
      [] cmd[1] = "image" -> Image(cmd[2], x)
      [] cmd[1] = "virsh" -> Virsh(cmd[2], x)
      [] cmd[1] = "other" -> Other(cmd[2], x)
      [] cmd[1] = "cron" -> {[x EXCEPT !.cron = @ \ {cmd[2]}]}
      [] cmd[1] = "flag" -> {[x EXCEPT !.flags[cmd[2]] = @ \ cmd[3]]}
      [] cmd[1] = "move" -> {[x EXCEPT !.at = cmd[2]]}
      [] OTHER -> {}

-----------------------------------------------------------------------------
(* The PCS resource.                                                         *)

P(op) == <<"pcs", op>>
I(op) == <<"image", op>>
V(op) == <<"virsh", op>>
O(op) == <<"other", op>>
Refuse == Must(<<"refuse">>)

\* selectPCSExecutionTarget: this host when it is in the cluster, or the first that answers.
Reach == Must(O("reach"))
WaitStarted == Must(P("started"))
ConfigCluster == Must(P("auth")) \o Must(P("cluster setup")) \o Must(P("properties"))
CreateResource(start) == Must(P(IF start THEN "create" ELSE "create disabled"))
CleanupResource == Must(P("cleanup"))
EnableResource == CleanupResource \o Must(P("enable")) \o WaitStarted
DisableResource == Must(P("disable"))
\* removeCCVMPCSResource answers 400 for an error in any of its commands: where the resource has to go, ...
RemoveResource == CleanupResource \o DisableResource \o Must(P("remove")) \o Must(P("refresh"))
\* ... and where 400 is taken for a resource that is not there.
RemoveResourceIfAny == TryOr(P("cleanup"), 3) \o TryOr(P("disable"), 2) \o TryOr(P("remove"), 1) \o Try(P("refresh"))
DestroyCluster == Must(P("destroy"))
StopCluster == Must(P("cluster stop"))
SyncCluster == Must(P("token"))
MoveResource(h, x) ==
    IF x.res = "none" \/ x.at = h \/ ~Up(x) THEN Refuse ELSE Must(<<"move", h>>)

\* resetCloudCenterRemoveRBDCCVM.
RemoveRBD == Call(<<"rbd info", "remove">>)

\* prepareCCVMPCSVMSetup: an image that is there is taken as it is.
PrepareVM == Must(O("mounted")) \o Must(O("xml")) \o Call(<<"stat image">>)
\* prepareCCVMPCSFilesystemSetup.
PrepareFilesystem == Call(<<"rbd info", "prepare">>)
ConvertImage == Must(I("convert")) \o Must(I("resize"))

\* setupCCVMPCSLocalSteps.
SetupLocalSteps(start, x) ==
    If(x.type = "vm", PrepareVM) \o If(x.type = "filesystem", PrepareFilesystem)
    \o If(x.type \in {"hci", "filesystem"}, ConvertImage) \o If(x.type = "hci", ConfigCluster)
    \o CreateResource(start) \o If(x.type \in {"vm", "filesystem"}, Must(P("order"))) \o If(start, WaitStarted)

CronOnTarget(h) == Must(<<"cron", h>>)
\* Mutant: the hosts are not asked.
SetupHereOnly(start, x) == CronOnTarget(Here) \o Reach \o SetupLocalSteps(start, x)
\* setupCCVMPCS: every host gives up its old cron entry, then one host does the rest.
Setup(start, x) == Each(Host, CronOnTarget) \o Reach \o SetupLocalSteps(start, x)

-----------------------------------------------------------------------------
(* The life of the VM.                                                       *)

CopyLocalFiles == Must(O("copy keys"))
CreateLocal == Call(<<"create local">>)
StartLocal == Call(<<"start local">>)
StopLocal(destroy) == Call(<<"stop local", destroy>>)
CreateLocalSteps(x) ==
    IF x.defined \/ x.at = Here THEN Refuse
    ELSE Must(O("xml")) \o Must(I("copy")) \o Must(I("resize")) \o Must(V("define"))
         \o Must(V("autostart")) \o Must(V("start")) \o Must(V("running"))
StartLocalSteps(x) == If(x.at # Here, Must(V("start")) \o Must(V("running")))
StopLocalSteps(destroy, x) ==
    IF ~x.defined /\ ~Up(x) THEN Refuse
    ELSE If(Up(x), Must(V(IF destroy THEN "destroy" ELSE "shutdown")) \o Must(V("shut off")))

\* What is done after a look at the state.
Body(cmd, x) ==
    CASE cmd[1] = "stat image" -> If(x.image = "none", Must(I("copy")) \o Must(I("resize")))
      [] cmd = <<"rbd info", "remove">> -> If(x.image # "none", Must(I("rbd rm")))
      [] cmd = <<"rbd info", "prepare">> -> If(x.image # "none", Must(I("rbd rm")) \o RemoveResourceIfAny)
      [] cmd[1] = "create local" -> CreateLocalSteps(x)
      [] cmd[1] = "start local" -> StartLocalSteps(x)
      [] cmd[1] = "stop local" -> StopLocalSteps(cmd[2], x)
      [] cmd[1] = "undefine" -> If(x.defined, Must(V("undefine")))

\* deleteCCVMLocal: the image goes after the domain is gone.
DeleteLocal(purge) ==
    Try(V("destroy")) \o Call(<<"undefine">>) \o Must(V("gone")) \o If(purge, Must(I("purge")))
ResetVirshDomain == Try(V("destroy")) \o Try(V("undefine"))
PrepareWorkspace(clear) == Must(O("iso")) \o If(clear, Must(O("clear workspace")))

\* resetCloudCenterApplySystemFlagsOnHosts: at once on this host, one by one on the others.
LocalSystemFlags == Note(<<"flag", Here, GFSSystemFlags>>)
RemoteSystemFlags(h) == Target(<< <<"flag", h, {"ccvm"}>>, <<"flag", h, {"monitoring.wall"}>>, <<"flag", h, {"gfs"}>> >>)
ApplySystemFlags == Each(Host, LAMBDA h : IF h = Here THEN LocalSystemFlags ELSE RemoteSystemFlags(h)) \o Verdict

InitGFSCluster == Must(O("gfs init"))

ResetHCI == RemoveResourceIfAny \o Try(P("destroy")) \o RemoveRBD \o ResetVirshDomain \o PrepareWorkspace(TRUE)
ResetVM == InitGFSCluster \o ResetVirshDomain \o PrepareWorkspace(TRUE)
ResetStandalone == ResetVirshDomain \o PrepareWorkspace(TRUE) \o Must(O("local reset"))
ResetFilesystem == InitGFSCluster \o RemoveRBD \o PrepareWorkspace(FALSE)
Reset(x) ==
    CASE x.type = "hci" -> ResetHCI
      [] x.type = "vm" -> ResetVM \o ApplySystemFlags
      [] x.type = "filesystem" -> ResetFilesystem \o ApplySystemFlags
      [] x.type = "standalone" -> ResetStandalone \o Must(<<"flag", Here, {"ccvm"}>>)

\* Mutant: an error of the removal is ignored.
InitializeAnyway == Reach \o TryOr(P("status"), 4) \o RemoveResourceIfAny \o Must(I("remove files"))
\* runCCVMInitializeLifecycle: whatever keeps pcs from showing the resource counts as its absence.
Initialize == Reach \o TryOr(P("status"), 4) \o RemoveResource \o Must(I("remove files"))

SetupLifecycle(x) == IF x.type = "standalone" THEN CopyLocalFiles \o CreateLocal ELSE Setup(TRUE, x)
Begin(x) == IF x.type = "standalone" THEN StartLocal ELSE Reach \o EnableResource
Stop(destroy, x) == IF x.type = "standalone" THEN StopLocal(destroy) ELSE Reach \o DisableResource
Restart(destroy, x) == Stop(destroy, x) \o Begin(x)
Delete(purge, x) ==
    IF x.type = "standalone" THEN DeleteLocal(purge) \o PrepareWorkspace(TRUE)
    ELSE Reach \o RemoveResourceIfAny \o RemoveRBD \o ResetVirshDomain \o PrepareWorkspace(TRUE)

\* scheduleSSHKnownHostsScanForHosts after success.
ThenScan(steps) == steps \o Try(O("scan"))

LifecycleAsks ==
    [act : {"initialize", "setup", "reset", "copy", "start"}]
    \cup [act : {"stop", "restart"}, destroy : BOOLEAN] \cup [act : {"delete"}, purge : BOOLEAN]
PCSAsks ==
    [act : {"pcs setup", "pcs config", "pcs create", "pcs remove", "pcs destroy", "pcs stop", "pcs cleanup", "pcs sync"}]
    \cup [act : {"pcs move"}, to : Host]
ServiceAsks == [act : {"service start", "service stop"}]
Asks(x) == LifecycleAsks \cup (IF x.type = "standalone" THEN {} ELSE PCSAsks) \cup ServiceAsks

RunCCVMLifecycle(a, x) ==
    CASE a.act = "initialize" -> Initialize
      [] a.act = "setup" -> ThenScan(SetupLifecycle(x))
      [] a.act = "reset" -> ThenScan(Reset(x))
      [] a.act = "copy" -> IF x.type = "standalone" THEN CopyLocalFiles ELSE Refuse
      [] a.act = "start" -> ThenScan(Begin(x))
      [] a.act = "stop" -> Stop(a.destroy, x)
      [] a.act = "restart" -> ThenScan(Restart(a.destroy, x))
      [] a.act = "delete" -> Delete(a.purge, x)

RunCCVMPCSLocal(a, x) ==
    CASE a.act = "pcs setup" -> Setup(FALSE, x)
      [] a.act = "pcs config" -> ConfigCluster
      [] a.act = "pcs create" -> CreateResource(TRUE)
      [] a.act = "pcs remove" -> RemoveResource
      [] a.act = "pcs destroy" -> DestroyCluster
      [] a.act = "pcs stop" -> StopCluster
      [] a.act = "pcs cleanup" -> CleanupResource
      [] a.act = "pcs sync" -> SyncCluster
      [] a.act = "pcs move" -> MoveResource(a.to, x)

RunServiceAction(act) == Must(O(IF act = "service start" THEN "systemctl start" ELSE "systemctl stop"))

Start(a, x) ==
    IF a \in LifecycleAsks THEN RunCCVMLifecycle(a, x)
    ELSE IF a \in PCSAsks THEN Reach \o RunCCVMPCSLocal(a, x)
    ELSE RunServiceAction(a.act)

Begins == {Prepared(t) : t \in Type} \cup {Deployed(t) : t \in Type}
\* The cluster starts what is enabled.
Drifts(x) == Pcs("started", x)
Matters(cmd) == TRUE

INSTANCE Runner

-----------------------------------------------------------------------------

TypeOK ==
    /\ w.type \in Type /\ w.res \in {"none", "disabled", "enabled"} /\ w.image \in {"none", "copied", "sized"}
    /\ w.at \in Host \cup {NoHost} /\ w.res # "none" => w.pcs

\* The disk of a VM that runs is never taken from it, whichever command of one request fails:
\* every way to remove the image makes sure of the stop first.  There is one exception, a
\* failure of pcs status in initialize, which the code takes for a missing resource.
DiskIsHeld == w.ripped => overlap \/ P("status") \in lost

\* A request that succeeds has done all of it.  After setup the VM runs on a disk of the full
\* size and no host has the old cron entry; an image that an earlier setup has copied and not
\* resized is the exception.  After start and restart it runs; after delete and reset it does
\* not and its image is gone, unless the stop of the domain has failed, and all hosts have
\* lost their flags but that of monitoring.
SuccessIsWhole ==
    CASE last.act = "setup" ->
             /\ Up(w) /\ (w.type # "standalone" => w.cron = {})
             /\ w.image = "sized" \/ {I("copy"), I("resize"), <<"stop">>} \cap lost # {}
      [] last.act \in {"start", "restart"} -> Up(w)
      [] last.act = "delete" ->
             IF w.type = "standalone" THEN ~Up(w) /\ (last.purge => w.image = "none") ELSE lost = {} => ~Up(w) /\ w.res = "none"
      [] last.act = "reset" ->
             /\ lost = {} => ~Up(w) /\ w.image = "none" /\ w.res = "none"
             /\ w.type \in {"vm", "filesystem"} => \A h \in Host : w.flags[h] \subseteq {"wall"}
      [] OTHER -> TRUE

=============================================================================
