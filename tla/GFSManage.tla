------------------------------ MODULE GFSManage ------------------------------
(***************************************************************************)
(* GFS volumes: the requests of internal/handler/cube/gfs_manage.go.  Each  *)
(* runs commands of LVM, parted and PCS on one host and fans some of them   *)
(* out to all hosts; nothing is undone when one fails, and no lock keeps    *)
(* two requests apart.                                                      *)
(*                                                                          *)
(* One volume group with one volume and one file system on shared disks is  *)
(* modelled.  Sizes are counted in units of a new disk.                     *)
(***************************************************************************)
EXTENDS Script, FiniteSets, FiniteSetsExt

CONSTANTS Host, Disk, Client, Actions, MaxFaults

VARIABLES w, req, overlap, last, lost, faults

-----------------------------------------------------------------------------

Resource == {"locking", "lvm", "fs"}
NoDisk == [d \in Disk |-> 0]
Total(size, S) == MapThenSumSet(LAMBDA d : size[d], S)

Blank == [lun |-> [d \in Disk |-> 1], part |-> NoDisk, pv |-> NoDisk, vg |-> {}, lv |-> 0, fs |-> 0,
          fresh |-> Host \X Disk, devices |-> {}, dirs |-> {},
          lockd |-> {}, password |-> {}, cluster |-> FALSE, fences |-> {}, res |-> {}, on |-> {}, active |-> FALSE,
          maintenance |-> FALSE, meant |-> FALSE, alertFiles |-> {}, alert |-> FALSE]

\* After init-pcs-cluster and configure-stonith; and after create-gfs on a disk.
Clustered == [Blank EXCEPT !.lockd = Host, !.password = Host, !.cluster = TRUE, !.fences = Host,
                           !.res = {"locking"}, !.on = {"locking"}]
Made(d) == [Clustered EXCEPT !.part[d] = 1, !.pv[d] = 1, !.vg = {d}, !.lv = 1, !.fs = 1, !.res = Resource,
                             !.on = Resource, !.active = TRUE, !.devices = Host \X {d}, !.dirs = Host]

\* An active volume holds its partitions.
InUse(d, x) == d \in x.vg /\ x.lv > 0 /\ x.active
\* Without one of its disks a volume is lost.
Without(x, d) == IF d \in x.vg THEN [x EXCEPT !.vg = @ \ {d}, !.lv = 0, !.fs = 0] ELSE x
Free(x) == Total(x.pv, x.vg) - x.lv

\* What lvm, parted, gfs2 and pcs do: the world after a command, {} when it cannot succeed.
Only(b, x) == IF b THEN {x} ELSE {}
Storage(op, d, x) ==
    CASE op = "parted mkpart" -> Only(~InUse(d, x), [x EXCEPT !.part[d] = x.lun[d]])
      [] op = "parted rm" -> Only(x.part[d] > 0 /\ ~InUse(d, x), [x EXCEPT !.part[d] = 0])
      [] op = "parted resizepart" -> Only(x.part[d] > 0, [x EXCEPT !.part[d] = x.lun[d]])
      [] op = "stat partition" -> Only(x.part[d] > 0, x)
      [] op = "pvcreate" -> Only(x.part[d] > 0 /\ d \notin x.vg, [x EXCEPT !.pv[d] = x.part[d]])
      [] op = "pvcreate -ff" -> Only(x.part[d] > 0 /\ ~InUse(d, x),
                                    [Without(x, d) EXCEPT !.pv[d] = x.part[d]])
      [] op = "pvremove -ff" -> Only(x.pv[d] > 0 /\ ~InUse(d, x), [Without(x, d) EXCEPT !.pv[d] = 0])
      [] op = "pvresize" -> Only(x.pv[d] > 0, [x EXCEPT !.pv[d] = x.part[d]])
Volume(op, D, x) ==
    CASE op = "vgcreate" -> Only(x.vg = {} /\ \A d \in D : x.pv[d] > 0, [x EXCEPT !.vg = D])
      [] op = "vgextend" -> Only(x.vg # {} /\ \A d \in D : x.pv[d] > 0 /\ d \notin x.vg, [x EXCEPT !.vg = @ \cup D])
      [] op = "vgremove" -> Only(x.vg # {} /\ "fs" \notin x.on, [x EXCEPT !.vg = {}, !.lv = 0, !.fs = 0])
      [] op = "lvcreate" -> Only(x.vg # {} /\ x.lv = 0, [x EXCEPT !.lv = Free(x), !.active = TRUE])
      [] op = "lvextend" -> Only(x.lv > 0 /\ Free(x) > 0, [x EXCEPT !.lv = @ + Free(x)])
      [] op = "lvremove" -> Only(x.lv > 0 /\ "fs" \notin x.on, [x EXCEPT !.lv = 0, !.fs = 0])
      [] op = "mkfs.gfs2" -> Only(x.lv > 0, [x EXCEPT !.fs = x.lv])
      [] op = "gfs2_grow" -> Only("fs" \in x.on, [x EXCEPT !.fs = x.lv])
OnHost(op, h, D, x) ==
    CASE op = "prepare" -> Only(\A d \in D : x.part[d] > 0,
                               [x EXCEPT !.devices = @ \cup ({h} \X D), !.dirs = @ \cup {h}])
      [] op = "lvmdevices" -> {[x EXCEPT !.devices = @ \cup ({h} \X D)]}
      [] op = "partprobe" -> {x}
      [] op = "rescan" -> Only(x.lv > 0, [x EXCEPT !.fresh = @ \cup ({h} \X Disk)])
      [] op = "lockd on" -> {[x EXCEPT !.lockd = @ \cup {h}]}
      [] op = "lockd off" -> {[x EXCEPT !.lockd = @ \ {h}]}
      [] op = "password" -> {[x EXCEPT !.password = @ \cup {h}]}
      [] op = "alert file" -> {[x EXCEPT !.alertFiles = @ \cup {h}]}
      [] op = "auth" -> Only(h \in x.password, x)
      [] op = "fence" -> Only(x.cluster, [x EXCEPT !.fences = @ \cup {h}])
\* The file system stops with the volume below it.
Stopped(r, x) == [x EXCEPT !.on = @ \ (IF r = "lvm" THEN {"lvm", "fs"} ELSE {r}), !.active = @ /\ r # "lvm"]
Pcs(op, r, x) ==
    CASE op = "destroy" -> {[x EXCEPT !.cluster = FALSE, !.fences = {}, !.res = {}, !.on = {}, !.active = FALSE,
                                      !.maintenance = FALSE, !.alert = FALSE]}
      [] op = "setup" -> Only(~x.cluster, [x EXCEPT !.cluster = TRUE])
      [] op = "status" -> Only(x.cluster, x)
      [] op = "locking ready" -> Only("locking" \in x.on, x)
      [] op = "create" -> Only(x.cluster /\ r \notin x.res,
                              [x EXCEPT !.res = @ \cup {r}, !.on = @ \cup {r}, !.active = @ \/ r = "lvm"])
      [] op = "disable" -> Only(r \in x.on, Stopped(r, x))
      [] op = "delete" -> Only(r \in x.res, [Stopped(r, x) EXCEPT !.res = @ \ {r}])
      [] op = "maintenance" -> Only(x.cluster, [x EXCEPT !.maintenance = r, !.meant = FALSE])
      [] op = "secure" -> Only(x.cluster, [x EXCEPT !.maintenance = r, !.meant = r])
      [] op = "alert" -> Only(x.cluster, [x EXCEPT !.alert = TRUE])

Effect(cmd, x) ==
    CASE cmd[1] = "refuse" -> {}
      [] cmd[1] = "disk" -> Storage(cmd[2], cmd[3], x)
      [] cmd[1] = "volume" -> Volume(cmd[2], cmd[3], x)
      [] cmd[1] = "host" -> OnHost(cmd[2], cmd[3], cmd[4], x)
      [] cmd[1] = "pcs" -> Pcs(cmd[2], cmd[3], x)

-----------------------------------------------------------------------------
(* The handlers.                                                             *)

\* Mutant: the results are not looked at.
FanoutUnchecked(op, D) == Each(Host, LAMBDA h : Try(<<"host", op, h, D>>))
\* runGFSManageFanout: all hosts are tried, and the first error is returned.
Fanout(op, D) == Each(Host, LAMBDA h : Note(<<"host", op, h, D>>)) \o Verdict

Partprobe(D) == Fanout("partprobe", D)
PrepareNodes(D) == Fanout("prepare", D)
LVMDevicesAdd(D) == Fanout("lvmdevices", D)
Rescan == Fanout("rescan", {})
EachDisk(D, op) == Each(D, LAMBDA d : Must(<<"disk", op, d>>))
\* parted, and waitForGFSManagePartition.
Partition(d) == Must(<<"disk", "parted mkpart", d>>) \o Must(<<"disk", "stat partition", d>>)

\* modifyGFSManageLVMConf with use_lvmlockd, on every host.
ModifyLVMConf(on) == Fanout(IF on THEN "lockd on" ELSE "lockd off", {})
SetClusterPassword == Fanout("password", {})
AuthHosts == Each(Host, LAMBDA h : Must(<<"host", "auth", h, {}>>))
SetupCluster == Must(<<"pcs", "setup", "">>) \o Must(<<"pcs", "status", "">>)

\* cleanupGFSManageVolumeGroup: when there is no volume, the group stays as it is.
CleanupVolumeGroup(x) ==
    If(x.lv > 0, Try(<<"volume", "lvremove", {}>>) \o Must(<<"volume", "vgremove", {}>>))
\* cleanupGFSManageDisk.
CleanupDisk(d) == Try(<<"disk", "pvremove -ff", d>>) \o Try(<<"disk", "parted rm", d>>)

\* runGFSManageInitPCSCluster; with disks and volume groups it first removes them.
InitPCSCluster(D) ==
    Try(<<"pcs", "destroy", "">>)
    \o If(D # {}, ModifyLVMConf(FALSE) \o Call(<<"cleanup">>) \o Each(D, CleanupDisk) \o Partprobe(D))
    \o ModifyLVMConf(TRUE) \o SetClusterPassword \o AuthHosts \o SetupCluster

\* resolveGFSManageFormatSettings refuses sizes that are no powers of two; it is asked
\* when the volume is already there.
BuildMkfsArgs(valid) == If(~valid, Must(<<"refuse">>))

\* The commands of buildGFSManageResourceCommands.
ResourceCommands == Must(<<"pcs", "create", "lvm">>) \o Must(<<"pcs", "create", "fs">>)

\* waitForGFSManageLockingReady gives up after its time.
LockingReady == Must(<<"pcs", "locking ready", "">>)

\* createGFSManageDisk.
CreateGFS(D, valid) ==
    LockingReady
    \o Each(D, Partition) \o PrepareNodes(D)
    \o EachDisk(D, "pvcreate -ff") \o Must(<<"volume", "vgcreate", D>>) \o Must(<<"volume", "lvcreate", {}>>)
    \o BuildMkfsArgs(valid) \o Must(<<"volume", "mkfs.gfs2", {}>>)
    \o ResourceCommands

\* collectGFSManageDevicePaths walks from the volume to its partitions and disks.
DevicePaths(x) == IF x.lv > 0 THEN x.vg ELSE {}

\* removeGFSManagePVsAndPartitions.
RemovePVsAndPartitions(D) == EachDisk(D, "pvremove -ff") \o EachDisk(D, "parted rm")
\* deleteGFSManageDisk: the paths come from the volume, so that there must be one.
DeleteGFS(D) ==
    IF D = {} THEN Must(<<"refuse">>)
    ELSE Try(<<"pcs", "disable", "fs">>) \o Try(<<"pcs", "disable", "lvm">>)
         \o Try(<<"pcs", "delete", "fs">>) \o Try(<<"pcs", "delete", "lvm">>)
         \o Call(<<"cleanup">>) \o RemovePVsAndPartitions(D) \o Partprobe(D)

\* Mutant: its end is forgotten.
MaintenanceStays ==
    Must(<<"pcs", "maintenance", TRUE>>)
\* NonStopCheck: maintenance mode first, and its end deferred.
Maintenance ==
    Must(<<"pcs", "maintenance", TRUE>>) \o Defer(<<"pcs", "maintenance", FALSE>>)

\* extendGFSManageDisk: the LUNs have grown.
Extend(nonStop) == If(nonStop, Maintenance) \o Rescan \o Call(<<"grow">>)
\* With the paths found after the rescan:
Grow(D) ==
    IF D = {} THEN Must(<<"refuse">>)
    ELSE EachDisk(D, "parted resizepart") \o Partprobe(D)
         \o EachDisk(D, "pvresize") \o Must(<<"volume", "lvextend", {}>>)
         \o Must(<<"volume", "gfs2_grow", {}>>) \o Partprobe(D)

\* addExtendGFSManageDisk: more disks.
AddExtend(D, nonStop) ==
    If(nonStop, Maintenance)
    \o Each(D, LAMBDA d : Partition(d) \o Must(<<"disk", "pvcreate", d>>))
    \o LVMDevicesAdd(D) \o Must(<<"volume", "vgextend", D>>) \o Must(<<"volume", "lvextend", {}>>)
    \o Must(<<"volume", "gfs2_grow", {}>>)

\* runGFSManageConfigureStonith: fence devices are created or updated, the locking
\* resources are only created.
ConfigureStonith ==
    Must(<<"pcs", "status", "">>) \o Each(Host, LAMBDA h : Must(<<"host", "fence", h, {}>>))
    \o Must(<<"pcs", "create", "locking">>)
\* runGFSManageStonithControl with security-disable and security-enable.
StonithControl(secure) == Must(<<"pcs", "secure", ~secure>>)
\* runGFSManageSetAlert, with prepareGFSManageAlertFile.
AlertFiles == Fanout("alert file", {})
SetAlert == AlertFiles \o Must(<<"pcs", "alert", "">>)

Body(cmd, x) == IF cmd[1] = "cleanup" THEN CleanupVolumeGroup(x) ELSE Grow(DevicePaths(x))

\* normalizeGFSManageRequest: which requests come with disks.  check-host, list-gfs,
\* check-ipmi and scan change nothing and are left out.
Asks(x) ==
    {a \in [act : Actions, disks : SUBSET Disk, flag : BOOLEAN] :
        CASE a.act = "init" -> a.disks \in {{}, Disk} /\ a.flag
          [] a.act \in {"create", "add"} -> a.disks # {}
          [] a.act = "delete" -> a.disks = DevicePaths(x) /\ a.flag
          [] a.act \in {"extend", "control"} -> a.disks = {}
          [] OTHER -> a.disks = {} /\ a.flag}

\* runGFSManageLocal dispatches on the action.
Start(a, x) ==
    CASE a.act = "init" -> InitPCSCluster(a.disks)
      [] a.act = "stonith" -> ConfigureStonith
      [] a.act = "control" -> StonithControl(a.flag)
      [] a.act = "alert" -> SetAlert
      [] a.act = "create" -> CreateGFS(a.disks, a.flag)
      [] a.act = "delete" -> DeleteGFS(a.disks)
      [] a.act = "extend" -> Extend(a.flag)
      [] a.act = "add" -> AddExtend(a.disks, a.flag)

\* The administrator enlarges a LUN; the hosts learn of it when they rescan.
LunGrows(x) == {[x EXCEPT !.lun[d] = 2, !.fresh = @ \ (Host \X {d})] : d \in Disk}

Begins == {Blank, Clustered, Made(CHOOSE d \in Disk : TRUE)}
Drifts(x) == LunGrows(x)
Matters(cmd) == cmd[1] = "pcs" /\ cmd[2] = "maintenance"

INSTANCE Runner

-----------------------------------------------------------------------------
(* Properties.                                                               *)

\* A request that succeeds and had the cluster for itself has done all of it, on every host.
SuccessIsWhole ==
    LET D == last.disks IN
    CASE last.act = "create" ->
             /\ w.vg = D /\ w.fs = w.lv /\ w.lv = Total(w.pv, D)
             /\ Host \X D \subseteq w.devices /\ w.dirs = Host /\ w.res = Resource
      [] last.act = "delete" -> w.vg = {} /\ \A d \in D : w.pv[d] = 0 /\ w.part[d] = 0
      [] last.act = "extend" -> w.fs = Total(w.lun, w.vg) /\ \A h \in Host, d \in w.vg : <<h, d>> \in w.fresh
      [] last.act = "add" -> D \subseteq w.vg /\ w.fs = Total(w.pv, w.vg)
      [] last.act = "init" -> w.cluster /\ w.lockd = Host /\ w.password = Host
      [] last.act = "alert" -> w.alert /\ w.alertFiles = Host
      [] OTHER -> TRUE

\* Maintenance mode is on during an extension that asked for it, whatever step of it fails,
\* and ends with it: only an overlapping request can end it early, and only security-disable,
\* a failed pcs command or a server that stops can leave it on.
MaintenanceIsHeld ==
    /\ \A c \in Running : req[c].run.defer # <<>> /\ ~overlap => w.maintenance
    /\ w.maintenance /\ Running = {} => w.meant \/ lost # {}

=============================================================================
