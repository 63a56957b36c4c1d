----------------------------- MODULE HostRemove -----------------------------
(***************************************************************************)
(* Removal of a host from the cluster (internal/handler/cube/              *)
(* host_remove.go, internal/service/moldservice/host_remove.go): each      *)
(* request validates against the cluster.json it reads, starts a job of    *)
(* its own, and the job works with that copy until it ends.  Jobs are not  *)
(* excluded from running at the same time.                                 *)
(*                                                                         *)
(* The world is what a removal dismantles: Mold (CloudStack), the PCS      *)
(* cluster and its fence devices, Ceph, the storage VMs, and the host list *)
(* and PCS list of the controller's cluster.json.  Every step may fail     *)
(* before any of its effects; a reply lost after the effect is a failure   *)
(* at the start of the next one.                                           *)
(***************************************************************************)
EXTENDS Integers, Sequences, SequencesExt, FiniteSets

CONSTANTS
    Job,        \* job ids
    JobLimit,   \* hostRemoveJobLimit
    Type,       \* the cluster type
    Hosts,      \* clusterConfig.hosts at the beginning, in order
    PCSList,    \* clusterConfig.pcsCluster at the beginning, in order: the
                \* hosts whose addresses it lists
    Local       \* the host that runs this API server

HCI == {"ablestack-hci", "ablestack-hci-filesystem"}
Host == ToSet(Hosts)

ASSUME HostRemoveAssumption ==
    /\ JobLimit \in Nat \ {0}
    /\ Type \in HCI \cup {"ablestack-vm"}
    /\ Local \in Host
    /\ Hosts \in Seq(Host) /\ IsInjective(Hosts)
    /\ PCSList \in Seq(Host) /\ IsInjective(PCSList)

VARIABLES
    entry,      \* hostRemoveJobStore.jobs: the status of each entry
    order,      \* hostRemoveJobStore.order
    job,        \* per job: the goroutine runHostRemoveJob
    file,       \* cluster.json: [hosts, pcs]
    mold,       \* resource state of each host in Mold
    pcs,        \* hosts that are nodes of the PCS cluster
    fence,      \* hosts that have a fence device
    ceph,       \* hosts that are in the Ceph orchestration
    scvm        \* hosts whose storage VM exists

world == <<file, mold, pcs, fence, ceph, scvm>>
vars == <<entry, order, job, world>>

NoEntry == [status |-> "none"]
NoJob == [pc |-> "none", host |-> Local, cfg |-> [hosts |-> <<>>, pcs |-> <<>>],
          loaded |-> [hosts |-> <<>>, pcs |-> <<>>], todo |-> <<>>]

Init ==
    /\ entry = [j \in Job |-> NoEntry]
    /\ order = <<>>
    /\ job = [j \in Job |-> NoJob]
    /\ file = [hosts |-> Hosts, pcs |-> PCSList]
    /\ mold = [h \in Host |-> "Enabled"]
    /\ pcs = ToSet(PCSList)
    /\ fence = ToSet(PCSList)
    /\ ceph = IF Type \in HCI THEN Host ELSE {}
    /\ scvm = IF Type \in HCI THEN Host ELSE {}

-----------------------------------------------------------------------------
Minimum == IF Type \in HCI THEN 3 ELSE 1

\* validateHostRemoval, on the copy of cluster.json the request has read.
ValidateHostRemoval(cfg, h) ==
    /\ Len(cfg.hosts) > Minimum
    /\ h # Local

\* Mutant: Mold is told last.
StepNamesMoldLast(type) ==
    <<"precheck">>
    \o (IF type \in {"ablestack-vm", "ablestack-hci-filesystem"}
        THEN <<"remove_pcs_node">> ELSE <<>>)
    \o (IF type \in HCI THEN <<"remove_ceph_host", "delete_scvm">> ELSE <<>>)
    \o <<"remove_mold_host", "update_cluster_files", "update_monitoring", "final_verify">>

\* hostRemoveStepNames
StepNames(type) ==
    <<"precheck", "remove_mold_host">>
    \o (IF type \in {"ablestack-vm", "ablestack-hci-filesystem"}
        THEN <<"remove_pcs_node">> ELSE <<>>)
    \o (IF type \in HCI THEN <<"remove_ceph_host", "delete_scvm">> ELSE <<>>)
    \o <<"update_cluster_files", "update_monitoring", "final_verify">>

\* Mutant: the host's number, which starts at 1, as an offset, which starts at 0.
PCSNodeForNext(cfg, h) ==
    LET i == 1 + SelectInSeq(cfg.hosts, LAMBDA x : x = h)
    IN  IF i \in DOMAIN cfg.pcs THEN cfg.pcs[i] ELSE h

\* removeHostPCSNode: the entry of the PCS list at the host's position in the
\* host list, or the host's own address when the list is shorter.
PCSNodeFor(cfg, h) ==
    LET i == SelectInSeq(cfg.hosts, LAMBDA x : x = h)
    IN  IF i \in DOMAIN cfg.pcs THEN cfg.pcs[i] ELSE h

\* licenseApplySCVMHostname: "scvm" and the host's index, which is its position
\* in the list (renumberHostIndexes gives new ones after every removal).
SCVMNumber(cfg, h) == SelectInSeq(cfg.hosts, LAMBDA x : x = h)

\* The host whose storage VM has that hostname, which it keeps from its
\* creation, as Ceph does.
SCVMNamed(n) == IF n \in DOMAIN Hosts THEN Hosts[n] ELSE Local

\* firstRemainingClusterHost
FirstRemaining(hosts, h) == Head(SelectSeq(hosts, LAMBDA x : x # h))

\* removeHost of the cluster configuration: a host that is found leaves both
\* lists, which have nobody twice.
WithoutHost(cfg, h) ==
    IF Contains(cfg.hosts, h)
    THEN [hosts |-> RemoveFirst(cfg.hosts, h), pcs |-> RemoveFirst(cfg.pcs, h)]
    ELSE cfg

-----------------------------------------------------------------------------
\* The end of hostRemoveJobStore.create.
Prune(longer) == IF Len(longer) > JobLimit THEN Tail(longer) ELSE longer

\* StartHostRemove: read cluster.json, find the host, validate, create the job
\* (dropping the oldest entry over the limit, whatever its status) and start
\* its goroutine.
StartHostRemove(j, h) ==
    LET longer == Append(order, j)
        kept == ToSet(Prune(longer)) IN
    /\ entry[j].status = "none"
    /\ Contains(file.hosts, h)
    /\ ValidateHostRemoval(file, h)
    /\ order' = Prune(longer)
    /\ entry' = [i \in Job |->
                   CASE i = j -> [status |-> "queued"]
                     [] i \in ToSet(order) \ kept -> [status |-> "gone"]
                     [] OTHER -> entry[i]]
    /\ job' = [job EXCEPT ![j] = [NoJob EXCEPT !.pc = "begin", !.host = h, !.cfg = file,
                                               !.todo = StepNames(Type)]]
    /\ UNCHANGED world

\* hostRemoveJobStore.update with a new status: an id that is no longer in the
\* map gets a new, otherwise empty entry.
Update(j, status) == entry' = [entry EXCEPT ![j].status = status]

\* The same from stepRunning and stepFinished, which set no status: the new
\* entry has an empty one.
Touch(j) == entry' = [entry EXCEPT ![j].status = IF @ = "gone" THEN "" ELSE @]

\* runHostRemoveJob: start.
Begin(j) ==
    /\ job[j].pc = "begin"
    /\ Update(j, "running")
    /\ job' = [job EXCEPT ![j].pc = "step"]
    /\ UNCHANGED <<order, world>>

AtStep(j, step) == job[j].pc = "step" /\ job[j].todo # <<>> /\ Head(job[j].todo) = step
\* The step is done: stepFinished, and stepRunning of the next one.
NextStep(j) ==
    /\ Touch(j)
    /\ job' = [job EXCEPT ![j] = [job[j] EXCEPT !.pc = "step", !.todo = Tail(job[j].todo)]]
GoTo(j, pc) == job' = [job EXCEPT ![j].pc = pc] /\ UNCHANGED entry

\* precheck and update_monitoring have no effect on this state.
PassiveStep(j) ==
    /\ AtStep(j, "precheck") \/ AtStep(j, "update_monitoring")
    /\ NextStep(j)
    /\ UNCHANGED <<order, world>>

\* RemoveHost: listHosts.  A host that Mold does not know is already removed.
MoldList(j) ==
    /\ AtStep(j, "remove_mold_host")
    /\ CASE mold[job[j].host] = "Removed" -> NextStep(j)
         [] mold[job[j].host] = "Maintenance" -> GoTo(j, "verify")
         [] OTHER -> GoTo(j, "prepare")
    /\ UNCHANGED <<order, world>>

\* RemoveHost: prepareHostForMaintenance, until its asynchronous job has ended.
MoldPrepare(j) ==
    /\ job[j].pc = "prepare"
    /\ mold[job[j].host] # "Removed"
    /\ mold' = [mold EXCEPT ![job[j].host] = "Maintenance"]
    /\ GoTo(j, "verify")
    /\ UNCHANGED <<order, file, pcs, fence, ceph, scvm>>

\* RemoveHost: the resource state must be Maintenance before deleteHost.
MoldVerify(j) ==
    /\ job[j].pc = "verify"
    /\ mold[job[j].host] = "Maintenance"
    /\ GoTo(j, "delete")
    /\ UNCHANGED <<order, world>>

\* RemoveHost: deleteHost, then listHosts no longer has the host.
MoldDelete(j) ==
    /\ job[j].pc = "delete"
    /\ mold[job[j].host] = "Maintenance"
    /\ mold' = [mold EXCEPT ![job[j].host] = "Removed"]
    /\ NextStep(j)
    /\ UNCHANGED <<order, file, pcs, fence, ceph, scvm>>

\* removeHostPCSNode: delete the fence device (absent is fine) ...
DeleteFence(j) ==
    /\ AtStep(j, "remove_pcs_node")
    /\ fence' = fence \ {job[j].host}
    /\ GoTo(j, "node")
    /\ UNCHANGED <<order, file, mold, pcs, ceph, scvm>>

\* ... and remove the node (absent is fine).
RemovePCSNode(j) ==
    /\ job[j].pc = "node"
    /\ pcs' = pcs \ {PCSNodeFor(job[j].cfg, job[j].host)}
    /\ NextStep(j)
    /\ UNCHANGED <<order, file, mold, fence, ceph, scvm>>

\* remove_ceph_host runs in the storage VM of the first other host of the copy
\* (a name that Ceph does not know is fine).
RemoveCephHost(j) ==
    /\ AtStep(j, "remove_ceph_host")
    /\ FirstRemaining(job[j].cfg.hosts, job[j].host) \in scvm
    /\ ceph' = ceph \ {SCVMNamed(SCVMNumber(job[j].cfg, job[j].host))}
    /\ NextStep(j)
    /\ UNCHANGED <<order, file, mold, pcs, fence, scvm>>

DeleteSCVM(j) ==
    /\ AtStep(j, "delete_scvm")
    /\ scvm' = scvm \ {job[j].host}
    /\ NextStep(j)
    /\ UNCHANGED <<order, file, mold, pcs, fence, ceph>>

\* update_cluster_files, in the request handler of the controller: cluster.json
\* is loaded ...
LoadFile(j) ==
    /\ AtStep(j, "update_cluster_files")
    /\ job' = [job EXCEPT ![j].pc = "save", ![j].loaded = file]
    /\ UNCHANGED <<entry, order, world>>

\* ... and saved without the host.  There is no lock between the two.
SaveFile(j) ==
    /\ job[j].pc = "save"
    /\ file' = WithoutHost(job[j].loaded, job[j].host)
    /\ NextStep(j)
    /\ UNCHANGED <<order, mold, pcs, fence, ceph, scvm>>

\* final_verify: the host must be gone from cluster.json.
FinalVerify(j) ==
    /\ AtStep(j, "final_verify")
    /\ ~Contains(file.hosts, job[j].host)
    /\ NextStep(j)
    /\ UNCHANGED <<order, world>>

\* finish, after the last step.
Finish(j) ==
    /\ job[j].pc = "step"
    /\ job[j].todo = <<>>
    /\ Update(j, "succeeded")
    /\ job' = [job EXCEPT ![j] = NoJob]
    /\ UNCHANGED <<order, world>>

\* Mutant: a failed step leaves the job running.
FailForgotten(j) ==
    /\ job[j].pc \in {"step", "prepare", "verify", "delete", "node", "save"}
    /\ job[j].todo # <<>>
    /\ Touch(j)
    /\ job' = [job EXCEPT ![j] = NoJob]
    /\ UNCHANGED <<order, world>>

\* Mutant: the job goes on with the next step.
FailContinues(j) ==
    /\ job[j].pc \in {"step", "prepare", "verify", "delete", "node", "save"}
    /\ job[j].todo # <<>>
    /\ NextStep(j)
    /\ UNCHANGED <<order, world>>

\* A step fails: a call is refused or times out, Mold shows another state, the
\* verification finds the host.  The job ends; nothing is undone.
Fail(j) ==
    /\ job[j].pc \in {"step", "prepare", "verify", "delete", "node", "save"}
    /\ job[j].todo # <<>>
    /\ Update(j, "failed")
    /\ job' = [job EXCEPT ![j] = NoJob]
    /\ UNCHANGED <<order, world>>

JobStep(j) ==
    \/ Begin(j) \/ PassiveStep(j)
    \/ MoldList(j) \/ MoldPrepare(j) \/ MoldVerify(j) \/ MoldDelete(j)
    \/ DeleteFence(j) \/ RemovePCSNode(j) \/ RemoveCephHost(j) \/ DeleteSCVM(j)
    \/ LoadFile(j) \/ SaveFile(j) \/ FinalVerify(j) \/ Finish(j) \/ Fail(j)

Next == \E j \in Job : (\E h \in Host : StartHostRemove(j, h)) \/ JobStep(j)

Spec == Init /\ [][Next]_vars
\* Every step has a timeout, so the goroutine of a job goes on.
FairSpec == Spec /\ \A j \in Job : WF_vars(JobStep(j))

-----------------------------------------------------------------------------
\* Whatever fails, is retried or runs at the same time, a host is taken apart
\* from the top: its storage VM goes only after Mold has removed the host, and
\* cluster.json forgets the host only after both.  A host leaves the PCS cluster,
\* and loses its fence device, only after Mold has removed it: removing one
\* host takes no other host out of the cluster.
DismantledInOrder ==
    \A h \in Host :
        /\ Type \in HCI /\ h \notin scvm => mold[h] = "Removed"
        /\ h \in ToSet(PCSList) /\ h \notin pcs \cap fence => mold[h] = "Removed"
        /\ ~Contains(file.hosts, h) => mold[h] = "Removed" /\ h \notin scvm

\* CHANGELOG: on HCI a removal drains Ceph and its OSDs, then deletes the SCVM.
\* A storage VM (with the disks in it) goes only after Ceph has released it,
\* and Ceph releases only hosts that Mold has removed.
CephDrainedFirst ==
    Type \in HCI => \A h \in Host :
        /\ h \notin scvm => h \notin ceph
        /\ h \notin ceph => mold[h] = "Removed"

\* A job reports success only when its host is really gone: from Mold, from
\* Ceph, and with its storage VM and its fence device, although every step may
\* have been done by an earlier job that failed later, or be done at the same
\* time by another one.
SuccessMeansRemoved ==
    [][\A j \in Job :
          entry[j].status # "succeeded" /\ entry'[j].status = "succeeded" =>
             LET h == job[j].host IN
             /\ mold[h] = "Removed"
             /\ h \notin ceph \cup scvm
             /\ Type # "ablestack-hci" => h \notin fence]_vars

\* Every job ends.
JobEnds == \A j \in Job :
    entry[j].status \in {"queued", "running"} ~> entry[j].status \notin {"queued", "running"}

\* A successful removal (final_verify: "removed host still exists in
\* cluster.json" is an error) stays removed.
SuccessIsLasting ==
    [][\A h \in Host : ~Contains(file.hosts, h) => ~Contains(file'.hosts, h)]_vars
=============================================================================
