----------------------------- MODULE DiskManage -----------------------------
(***************************************************************************)
(* Disks of hosts without Ceph or GFS: CLVM groups (clvm_manage.go), the    *)
(* local volume of a standalone host (local_manage.go), and the copies of   *)
(* one host's multipath files on the others (multipath_sync.go).            *)
(***************************************************************************)
EXTENDS Script, Integers, FiniteSets, FiniteSetsExt

CONSTANTS Host, Disk, Client, MaxFaults

VARIABLES w, req, overlap, last, lost, faults

-----------------------------------------------------------------------------

NoGroup == -1
Local == 0          \* vg_glue; n > 0 is the CLVM group with number n

Fresh == [part |-> {}, pv |-> {}, group |-> [d \in Disk |-> NoGroup], devices |-> {},
          lv |-> FALSE, xfs |-> FALSE, fstab |-> FALSE, mounted |-> FALSE, flag |-> FALSE,
          bindings |-> [h \in Host |-> h], wwids |-> [h \in Host |-> h], loaded |-> [h \in Host |-> <<h, h>>]]

Only(b, x) == IF b THEN {x} ELSE {}
Groups(x) == {x.group[d] : d \in Disk} \ {NoGroup}
\* A volume that is active holds the disks below it.
InUse(d, x) == x.lv /\ x.group[d] = Local
Removed(g, x) == [x EXCEPT !.group = [d \in Disk |-> IF @[d] = g THEN NoGroup ELSE @[d]]]
NoVolume(x) == [x EXCEPT !.lv = FALSE, !.xfs = FALSE]

\* parted and LVM on one host.
LVM(op, d, g, x) ==
    CASE op = "parted mkpart" -> Only(~InUse(d, x), [x EXCEPT !.part = @ \cup {d}])
      [] op = "parted rm" -> Only(d \in x.part /\ ~InUse(d, x), [x EXCEPT !.part = @ \ {d}])
      [] op = "stat partition" -> Only(d \in x.part, x)
      [] op = "pvcreate" -> Only(d \in x.part /\ x.group[d] = NoGroup, [x EXCEPT !.pv = @ \cup {d}])
      [] op = "pvcreate -ff" -> Only(d \in x.part /\ ~InUse(d, x), [x EXCEPT !.pv = @ \cup {d}, !.group[d] = NoGroup])
      [] op = "pvremove -ff" -> Only(d \in x.pv /\ ~InUse(d, x), [x EXCEPT !.pv = @ \ {d}, !.group[d] = NoGroup])
      [] op = "vgcreate" -> Only(d \in x.pv /\ g \notin Groups(x), [x EXCEPT !.group[d] = g])
      [] op = "vgremove" -> Only(g \in Groups(x) /\ ~x.mounted, IF g = Local THEN NoVolume(Removed(g, x)) ELSE Removed(g, x))
\* The local volume.
Volume(op, D, x) ==
    CASE op = "vgcreate" -> Only(Local \notin Groups(x) /\ D \subseteq x.pv,
                                 [x EXCEPT !.group = [d \in Disk |-> IF d \in D THEN Local ELSE @[d]]])
      [] op = "lvcreate" -> Only(Local \in Groups(x) /\ ~x.lv, [x EXCEPT !.lv = TRUE])
      [] op = "mkfs.xfs" -> Only(x.lv /\ ~x.mounted, [x EXCEPT !.xfs = TRUE])
      [] op = "fstab add" -> {[x EXCEPT !.fstab = TRUE]}
      [] op = "fstab remove" -> {[x EXCEPT !.fstab = FALSE]}
      [] op = "mount" -> Only(x.fstab /\ x.xfs, [x EXCEPT !.mounted = TRUE])
      [] op = "umount" -> Only(x.mounted, [x EXCEPT !.mounted = FALSE])
      [] op = "lvremove" -> Only(x.lv /\ ~x.mounted, NoVolume(x))
      [] op = "flag" -> {[x EXCEPT !.flag = D # {}]}
\* One step on one host; f is what is written to a multipath file.
OnHost(op, h, d, f, x) ==
    CASE op = "partprobe" -> {x}
      [] op = "lvmdevices" -> {[x EXCEPT !.devices = @ \cup {<<h, d>>}]}
      [] op \in {"rescan", "enable"} -> {x}
      [] op = "flush" -> {x}
      [] op = "bindings" -> {[x EXCEPT !.bindings[h] = f]}
      [] op = "wwids" -> {[x EXCEPT !.wwids[h] = f]}
      [] op = "restart" -> {[x EXCEPT !.loaded[h] = <<x.bindings[h], x.wwids[h]>>]}

Effect(cmd, x) ==
    CASE cmd[1] = "lvm" -> LVM(cmd[2], cmd[3], cmd[4], x)
      [] cmd[1] = "volume" -> Volume(cmd[2], cmd[3], x)
      [] cmd[1] = "host" -> OnHost(cmd[2], cmd[3], cmd[4], cmd[5], x)
      [] OTHER -> {}

-----------------------------------------------------------------------------
(* CLVM.                                                                     *)

\* runGFSManageFanout with partprobe or lvmdevices-add.
Fanout(op, d) == Each(Host, LAMBDA h : Note(<<"host", op, h, d, h>>)) \o Verdict
\* refreshCLVMManageDevicesOnHosts.
RefreshDevices(d) == Fanout("partprobe", d) \o Fanout("lvmdevices", d)

\* nextCLVMManageNumber; when vgs fails, 1.
NextNumber(blind, x) == IF blind THEN 1 ELSE Max(Groups(x) \cup {0}) + 1

\* waitForCLVMManagePartition.
CLVMPartition(d) == Must(<<"lvm", "parted mkpart", d, 0>>) \o Must(<<"lvm", "stat partition", d, 0>>)

\* createCLVMManageDisks: one group on each disk, with consecutive numbers.
CreateCLVM(D, first) ==
    LET s == SetToSeq(D) IN
    FlattenSeq([i \in 1..Len(s) |->
        CLVMPartition(s[i]) \o Must(<<"lvm", "pvcreate", s[i], 0>>) \o Must(<<"lvm", "vgcreate", s[i], first + i - 1>>)
        \o RefreshDevices(s[i])])

\* deleteCLVMManageDisks: the group and the physical volume of each disk, then the partitions.
DeleteCLVM(D, x) ==
    Each(D, LAMBDA d : Must(<<"lvm", "vgremove", d, x.group[d]>>) \o Must(<<"lvm", "pvremove -ff", d, 0>>))
    \o Each(D, LAMBDA d : Try(<<"lvm", "parted rm", d, 0>>))
    \o Each(D, LAMBDA d : Fanout("partprobe", d))

-----------------------------------------------------------------------------
(* The local volume.                                                         *)

\* Whichever name the partition gets.
WaitPartition(d) == Must(<<"lvm", "stat partition", d, 0>>)
LocalPartition(d) ==
    Must(<<"lvm", "parted mkpart", d, 0>>) \o WaitPartition(d) \o Must(<<"lvm", "pvcreate -ff", d, 0>>)

\* The line of /etc/fstab, and the flag in ablestack.json.
FSTab(add) == Must(<<"volume", IF add THEN "fstab add" ELSE "fstab remove", {}>>)
ConfigureFlag(D) == Must(<<"volume", "flag", D>>)

\* Mutant: fstab before the file system.
FSTabFirst(D, x) ==
    IF Local \in Groups(x) THEN Must(<<"refuse">>)
    ELSE Each(D, LocalPartition) \o Must(<<"volume", "vgcreate", D>>) \o FSTab(TRUE)
         \o Must(<<"volume", "lvcreate", D>>) \o Must(<<"volume", "mkfs.xfs", D>>)
         \o Must(<<"volume", "mount", D>>) \o ConfigureFlag(D)
\* createLocalManageDisk: refused while the group is there.
CreateLocal(D, x) ==
    IF Local \in Groups(x) THEN Must(<<"refuse">>)
    ELSE Each(D, LocalPartition) \o Must(<<"volume", "vgcreate", D>>) \o Must(<<"volume", "lvcreate", D>>)
         \o Must(<<"volume", "mkfs.xfs", D>>) \o FSTab(TRUE)
         \o Must(<<"volume", "mount", D>>) \o ConfigureFlag(D)

\* localManagePVs.
LocalPVs(x) == {d \in Disk : x.group[d] = Local}
\* resetLocalManageDisk: only the fstab and the flag must succeed.
ResetLocal(D) ==
    Try(<<"volume", "umount", D>>) \o Try(<<"volume", "lvremove", D>>)
    \o Try(<<"lvm", "vgremove", CHOOSE d \in Disk : TRUE, Local>>)
    \o Each(D, LAMBDA d : Try(<<"lvm", "pvremove -ff", d, 0>>)) \o Each(D, LAMBDA d : Try(<<"lvm", "parted rm", d, 0>>))
    \o FSTab(FALSE) \o ConfigureFlag({})

-----------------------------------------------------------------------------
(* Multipath.                                                                *)

\* The bindings and the wwids.
SourceFiles(h, x) == <<x.bindings[h], x.wwids[h]>>
\* Mutant: a file that could not be written is ignored.
SyncHostAnyway(files, h) ==
    LET on(op, f) == <<"host", op, h, 0, f>>  b == files[1]  g == files[2] IN
    NoteOr(on("rescan", b), 5) \o NoteOr(on("enable", b), 4) \o Try(on("flush", b))
    \o NoteOr(on("bindings", b), 2) \o Try(on("wwids", g)) \o Note(on("restart", b))
\* runMultipathSyncLocal on one host.
SyncHost(files, h) ==
    LET on(op, f) == <<"host", op, h, 0, f>>  b == files[1]  g == files[2] IN
    NoteOr(on("rescan", b), 5) \o NoteOr(on("enable", b), 4) \o Try(on("flush", b))
    \o NoteOr(on("bindings", b), 2) \o NoteOr(on("wwids", g), 1) \o Note(on("restart", b))
\* runMultipathSync: the files of the host that is asked, to all targets.
SyncMultipath(files, targets) == Each(targets, LAMBDA h : SyncHost(files, h)) \o Verdict

-----------------------------------------------------------------------------

\* The normalize functions: what is required.
CLVMAsks(x) ==
    [act : {"clvm create"}, disks : (SUBSET Disk) \ {{}}, blind : BOOLEAN]
    \cup [act : {"clvm delete"}, disks : (SUBSET {d \in Disk : x.group[d] > 0}) \ {{}}]
LocalAsks(x) == [act : {"local create"}, disks : (SUBSET Disk) \ {{}}] \cup [act : {"local reset"}, disks : {LocalPVs(x)}]
SyncAsks == [act : {"sync"}, source : Host, targets : (SUBSET Host) \ {{}}]
Asks(x) == CLVMAsks(x) \cup LocalAsks(x) \cup SyncAsks

RunCLVM(a, x) == IF a.act = "clvm create" THEN CreateCLVM(a.disks, NextNumber(a.blind, x)) ELSE DeleteCLVM(a.disks, x)
RunLocal(a, x) == IF a.act = "local create" THEN CreateLocal(a.disks, x) ELSE ResetLocal(a.disks)
Start(a, x) ==
    CASE a \in CLVMAsks(x) -> RunCLVM(a, x)
      [] a \in LocalAsks(x) -> RunLocal(a, x)
      [] a \in SyncAsks -> SyncMultipath(SourceFiles(a.source, x), a.targets)

Body(cmd, x) == <<>>
Ready(d) == [Fresh EXCEPT !.part = {d}, !.pv = {d}, !.group[d] = Local, !.lv = TRUE, !.xfs = TRUE,
                          !.fstab = TRUE, !.mounted = TRUE, !.flag = TRUE]
Grouped(d) == [Fresh EXCEPT !.part = {d}, !.pv = {d}, !.group[d] = 1, !.devices = Host \X {d}]
Begins == {Fresh} \cup {Ready(d) : d \in Disk} \cup {Grouped(d) : d \in Disk}
Drifts(x) == {}
Matters(cmd) == cmd[1] \in {"lvm", "volume"}

INSTANCE Runner

-----------------------------------------------------------------------------

\* fstab names the local volume only when it has a file system, so that the host boots: this
\* is the order of creation and of removal, also when a step of them fails.  A request that is
\* cut off in the middle of the removal, or overlaps, can break it.
FSTabNamesVolume ==
    w.fstab /\ ~overlap /\ lost = {} /\ (\A c \in Running : req[c].ask.act # "local reset") => w.xfs

\* A request that succeeds has done all of it: every disk has a CLVM group of its own that all
\* hosts know, a local volume is mounted and will be after a boot, the multipath daemons of all
\* targets run with the same files.
SuccessIsWhole ==
    CASE last.act = "clvm create" ->
             /\ \A d \in last.disks : w.group[d] > 0 /\ Host \X {d} \subseteq w.devices
             /\ \A d, e \in last.disks : d # e => w.group[d] # w.group[e]
      [] last.act = "clvm delete" -> \A d \in last.disks : w.group[d] = NoGroup /\ d \notin w.pv
      [] last.act = "local create" -> w.mounted /\ w.fstab /\ w.flag /\ \A d \in last.disks : w.group[d] = Local
      [] last.act = "local reset" -> ~w.fstab /\ ~w.flag /\ (lost = {} => ~w.lv /\ Local \notin Groups(w))
      [] last.act = "sync" -> \A h \in last.targets : w.loaded[h] = <<w.bindings[last.source], w.wwids[last.source]>>
      [] OTHER -> TRUE

=============================================================================
