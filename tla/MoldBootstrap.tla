---------------------------- MODULE MoldBootstrap ----------------------------
(***************************************************************************)
(* The job that builds the cloud in Mold (CloudStack): the store of jobs   *)
(* of internal/handler/mold/bootstrap_job.go and the steps of              *)
(* internal/service/moldservice/bootstrap_execute.go.  Every step ensures  *)
(* things: list, create what is missing, list again.  Nothing keeps two    *)
(* jobs from running at the same time.                                     *)
(*                                                                         *)
(* A command is sent to Mold and carried out by it at some time; the job   *)
(* polls for its result and may give up before, in which case Mold goes on *)
(* with the command.  A synchronous command is one that is carried out     *)
(* before the next step.  Mold may refuse a command; it is not assumed     *)
(* that it refuses to create a thing twice.                                *)
(***************************************************************************)
EXTENDS Integers, Sequences, SequencesExt

CONSTANTS
    Job,            \* job ids
    JobLimit,       \* bootstrapJobLimit
    HostLists,      \* the host lists cluster.json may have
    Staging,        \* whether a request may ask for a staging store
    MaxChange       \* how often cluster.json changes

ASSUME MoldBootstrapAssumption ==
    /\ JobLimit \in Nat \ {0}
    /\ <<>> \notin HostLists /\ HostLists # {}
    /\ \A l \in HostLists : l \in Seq(ToSet(l))
    /\ MaxChange \in 0..1 /\ Staging \subseteq BOOLEAN

VARIABLES
    status,     \* bootstrapJobStore.jobs: the status of each job, "gone" if dropped
    order,      \* bootstrapJobStore.order
    run,        \* per job: the goroutine runBootstrapJob with its BootstrapRuntime
    cmd,        \* per job: the command that Mold is at work on, or whose result
                \* the job has not seen yet
    mold,       \* the things that are in Mold
    twice,      \* whether Mold has created one of them a second time
    systemVMs,  \* whether the system VMs run
    hosts,      \* clusterConfig.hosts of cluster.json
    keys,       \* hosts on which cloud@ccvm's key is authorized
    changes,    \* changes of cluster.json so far
    raced       \* history: two jobs were alive at the same time, or a job ended
                \* while Mold was still at work for it

vars == <<status, order, run, cmd, mold, twice, systemVMs, hosts, keys, changes, raced>>

-----------------------------------------------------------------------------
(* What each step ensures: a sequence of items, each a sequence of things   *)
(* that are listed together.                                                *)

Host == UNION {ToSet(l) : l \in HostLists}

EnsureZone == << <<<<"zone">>>> >>
EnsurePhysicalNetwork == << <<<<"physical_network">>>> >>
EnsureTrafficTypes == << <<<<"Management">>>>, <<<<"Guest">>>>, <<<<"Public">>>> >>
EnablePhysicalNetwork == << <<<<"network_enabled">>>> >>
\* For each provider its element first, both verified at the end.
EnableNetworkProviders == << <<<<"element", "VirtualRouter">>, <<"provider", "VirtualRouter">>>>,
                             <<<<"element", "VpcVirtualRouter">>, <<"provider", "VpcVirtualRouter">>>> >>
EnsurePod == << <<<<"pod">>>> >>
EnsurePublicIPRange == << <<<<"public_ip_range">>>> >>
EnsureCluster == << <<<<"cluster">>>> >>
\* The hosts of the request, which come from the cluster.json of its time.
EnsureHosts(req) == [i \in DOMAIN req.hosts |-> <<<<"host", req.hosts[i]>>>>]
EnsurePrimaryStorage == << <<<<"primary_storage">>>> >>
EnsureSecondaryStorage == << <<<<"secondary_storage">>>> >>
EnsureSecondaryStagingStore(req) == IF req.staging THEN << <<<<"staging_store">>>> >> ELSE <<>>
EnableZone == << <<<<"zone_enabled">>>> >>

\* RunStep: the things that the step ensures.
Items(step, req) ==
    CASE step = "create_zone" -> EnsureZone
      [] step = "create_physical_network" -> EnsurePhysicalNetwork
      [] step = "add_traffic_types" -> EnsureTrafficTypes
      [] step = "enable_physical_network" -> EnablePhysicalNetwork
      [] step = "enable_network_providers" -> EnableNetworkProviders
      [] step = "create_pod" -> EnsurePod
      [] step = "create_public_ip_range" -> EnsurePublicIPRange
      [] step = "create_cluster" -> EnsureCluster
      [] step = "add_host" -> EnsureHosts(req)
      [] step = "add_primary_storage" -> EnsurePrimaryStorage
      [] step = "add_secondary_storage" -> EnsureSecondaryStorage
      [] step = "add_secondary_staging_store" -> EnsureSecondaryStagingStore(req)
      [] step = "enable_zone" -> EnableZone
      [] OTHER -> <<>>

\* requireZoneID and the others: ids that earlier steps must have left in the
\* runtime.
Requires(step) ==
    CASE step \in {"create_physical_network", "create_pod", "add_secondary_storage",
                   "add_secondary_staging_store", "enable_zone", "wait_system_vm_running"} -> {"zone"}
      [] step \in {"add_traffic_types", "enable_physical_network",
                   "enable_network_providers"} -> {"zone", "physical_network"}
      [] step = "create_public_ip_range" -> {"zone", "pod", "physical_network"}
      [] step = "create_cluster" -> {"zone", "pod"}
      [] step \in {"add_host", "add_primary_storage", "final_health_check"} -> {"zone", "pod", "cluster"}
      [] OTHER -> {}

\* Mutant: the public range, which needs the pod's id, before the pod.
PlanRangeFirst(req) ==
    <<"wait_mold_api_ready", "login_admin", "create_zone", "create_physical_network",
      "add_traffic_types", "enable_physical_network", "enable_network_providers",
      "create_public_ip_range", "create_pod", "create_cluster", "sync_host_ssh_trust", "add_host",
      "add_primary_storage", "add_secondary_storage", "enable_zone",
      "wait_system_vm_running", "final_health_check">>

\* Mutant: hosts are added before their keys.
PlanHostFirst(req) ==
    <<"wait_mold_api_ready", "login_admin", "create_zone", "create_physical_network",
      "add_traffic_types", "enable_physical_network", "enable_network_providers", "create_pod",
      "create_public_ip_range", "create_cluster", "add_host", "sync_host_ssh_trust",
      "add_primary_storage", "add_secondary_storage", "enable_zone",
      "wait_system_vm_running", "final_health_check">>

\* BuildBootstrapPlan: the staging store only on request, before enable_zone.
Plan(req) ==
    <<"wait_mold_api_ready", "login_admin", "create_zone", "create_physical_network",
      "add_traffic_types", "enable_physical_network", "enable_network_providers", "create_pod",
      "create_public_ip_range", "create_cluster", "sync_host_ssh_trust", "add_host",
      "add_primary_storage", "add_secondary_storage">>
    \o (IF req.staging THEN <<"add_secondary_staging_store">> ELSE <<>>)
    \o <<"enable_zone", "wait_system_vm_running", "final_health_check">>

\* Everything a successful job has to leave behind.
Things(items) == UNION {ToSet(items[i]) : i \in DOMAIN items}
Expected(req) == UNION {Things(Items(step, req)) : step \in ToSet(Plan(req))}
Thing == UNION {Expected([hosts |-> l, staging |-> TRUE]) : l \in HostLists}
\* Created by a command that does not know whether there is one already.
Creatable == {t \in Thing : t[1] \notin {"network_enabled", "element", "provider", "zone_enabled"}}
There(t) == t \in mold

-----------------------------------------------------------------------------
NoRun == [pc |-> "none", req |-> [hosts |-> <<>>, staging |-> FALSE], todo |-> <<>>, items |-> <<>>,
          missing |-> {}, targets |-> <<>>, ids |-> {}]
NoCmd == [thing |-> <<>>, state |-> "none"]
Alive == {j \in Job : run[j].pc # "none"}

Init ==
    /\ status = [j \in Job |-> "none"]
    /\ order = <<>>
    /\ run = [j \in Job |-> NoRun]
    /\ cmd = [j \in Job |-> NoCmd]
    /\ mold = {}
    /\ twice = FALSE
    /\ systemVMs = FALSE
    /\ hosts \in HostLists
    /\ keys = {}
    /\ changes = 0
    /\ raced = FALSE

external == <<mold, twice, systemVMs, hosts, keys, changes>>

\* Mutant: one entry too many stays.
PruneLate(longer) == IF Len(longer) > JobLimit + 1 THEN Tail(longer) ELSE longer

\* pruneLocked: the oldest entries go, whatever their status.
Prune(longer) == IF Len(longer) > JobLimit THEN Tail(longer) ELSE longer

\* PrepareBootstrapRequest: the hosts come from cluster.json (a request is
\* refused when it has none).
Prepared(staging) == [hosts |-> hosts, staging |-> staging]

\* StartBootstrap: the request is completed from cluster.json, the plan made,
\* the job created and its goroutine started.
StartBootstrap(j, staging) ==
    LET longer == Append(order, j)
        req == Prepared(staging) IN
    /\ status[j] = "none"
    /\ order' = Prune(longer)
    /\ status' = [i \in Job |-> IF i = j THEN "queued"
                                ELSE IF i \in ToSet(order) \ ToSet(Prune(longer)) THEN "gone"
                                ELSE status[i]]
    /\ run' = [run EXCEPT ![j] = [NoRun EXCEPT !.pc = "begin", !.req = req, !.todo = Plan(req)]]
    /\ raced' = (raced \/ Alive # {})
    /\ UNCHANGED <<cmd, external>>

\* update: nothing when the entry has been dropped.
Update(j, new) == status' = [status EXCEPT ![j] = IF @ = "gone" THEN @ ELSE new]

\* The beginning of runBootstrapJob; it returns when the entry has been dropped.
Begin(j) ==
    /\ run[j].pc = "begin"
    /\ Update(j, "running")
    /\ run' = [run EXCEPT ![j] = IF status[j] = "gone" THEN NoRun ELSE [run[j] EXCEPT !.pc = "step"]]
    /\ UNCHANGED <<order, cmd, raced, external>>

\* The goroutine is at this kind of step and has the ids it requires.
At(j, pc) ==
    /\ run[j].pc = pc
    /\ run[j].todo # <<>>
    /\ Requires(Head(run[j].todo)) \subseteq run[j].ids

\* The end of a step and the beginning of the next.
NextStep(r) ==
    [r EXCEPT !.pc = "step", !.todo = Tail(r.todo),
              !.items = IF Len(r.todo) > 1 THEN Items(r.todo[2], r.req) ELSE <<>>]

\* An item is there: the id of a thing that was found goes into the runtime.
NextItem(r) ==
    LET found == [r EXCEPT !.pc = "step", !.items = Tail(r.items),
                           !.ids = @ \cup {t[1] : t \in {u \in ToSet(Head(r.items)) :
                                       u[1] \in {"zone", "physical_network", "pod", "cluster"}}}]
    IN  IF Len(r.items) > 1 THEN found ELSE NextStep(found)

\* What is not in the list.
Absent(item) == {t \in ToSet(item) : ~There(t)}

\* waitMoldAPIReady and loginAdmin: a client and a session, which the later
\* steps would make themselves.
Connect(j) ==
    /\ At(j, "step")
    /\ Head(run[j].todo) \in {"wait_mold_api_ready", "login_admin"}
    /\ run' = [run EXCEPT ![j] = NextStep(@)]
    /\ UNCHANGED <<status, order, cmd, raced, external>>

\* Mutant: everything is taken to be missing.
FindNothing(j) ==
    /\ At(j, "step")
    /\ run[j].items # <<>>
    /\ run' = [run EXCEPT ![j].pc = "apply", ![j].missing = ToSet(Head(run[j].items))]
    /\ UNCHANGED <<status, order, cmd, raced, external>>

\* findZone and the others: list; what is there is taken as it is.
Find(j) ==
    LET item == Head(run[j].items) IN
    /\ At(j, "step")
    /\ run[j].items # <<>>
    /\ run' = [run EXCEPT ![j] = IF Absent(item) = {} THEN NextItem(@)
                                 ELSE [@ EXCEPT !.pc = "apply", !.missing = Absent(item)]]
    /\ UNCHANGED <<status, order, cmd, raced, external>>

\* The job has seen the result of its command, or will not see it any more.
Forget(j) == cmd' = [cmd EXCEPT ![j] = IF @.state = "sent" THEN @ ELSE NoCmd]

\* applyCommand: the command for the first thing of the item that is missing is
\* posted; pollAsyncJob follows.
Apply(j) ==
    LET item == Head(run[j].items)
        missing == run[j].missing IN
    /\ run[j].pc = "apply"
    /\ \E i \in DOMAIN item :
          /\ item[i] \in missing /\ \A k \in 1..(i - 1) : item[k] \notin missing
          /\ cmd' = [cmd EXCEPT ![j] = [thing |-> item[i], state |-> "sent"]]
          /\ run' = [run EXCEPT ![j].missing = missing \ {item[i]},
                                ![j].pc = IF missing = {item[i]} THEN "verify" ELSE "poll"]
    /\ UNCHANGED <<status, order, raced, external>>

\* pollAsyncJob: jobstatus 1, and there is another command for the item.
Poll(j) ==
    /\ run[j].pc = "poll"
    /\ cmd[j].state = "done"
    /\ run' = [run EXCEPT ![j].pc = "apply"]
    /\ Forget(j)
    /\ UNCHANGED <<status, order, raced, external>>

\* pollAsyncJob: jobstatus 1 after the last command, and the second list has
\* everything that was asked for.
Verify(j) ==
    /\ run[j].pc = "verify"
    /\ cmd[j].state = "done"
    /\ Absent(Head(run[j].items)) = {}
    /\ run' = [run EXCEPT ![j] = NextItem(@)]
    /\ Forget(j)
    /\ UNCHANGED <<status, order, raced, external>>

\* reconcileHostSSHTrust: the targets are read from the cluster.json of now ...
LoadTargets(j) ==
    /\ At(j, "step")
    /\ Head(run[j].todo) = "sync_host_ssh_trust"
    /\ run' = [run EXCEPT ![j].pc = "keys", ![j].targets = hosts]
    /\ UNCHANGED <<status, order, cmd, raced, external>>

\* ... and the key registered on one after the other, then tried on all of them.
RegisterKey(j) ==
    /\ run[j].pc = "keys"
    /\ IF run[j].targets = <<>>
       THEN run' = [run EXCEPT ![j] = NextStep(@)] /\ UNCHANGED keys
       ELSE /\ keys' = keys \cup {Head(run[j].targets)}
            /\ run' = [run EXCEPT ![j].targets = Tail(@)]
    /\ UNCHANGED <<status, order, cmd, raced, mold, twice, systemVMs, hosts, changes>>

\* Mutant: the step does not mind the time limit.
WaitSystemVMNot(j) ==
    /\ At(j, "step")
    /\ Head(run[j].todo) = "wait_system_vm_running"
    /\ run' = [run EXCEPT ![j] = NextStep(@)]
    /\ UNCHANGED <<status, order, cmd, raced, external>>

\* waitSystemVMRunning: polls until all of them run.
WaitSystemVMRunning(j) ==
    /\ At(j, "step")
    /\ Head(run[j].todo) = "wait_system_vm_running"
    /\ systemVMs
    /\ run' = [run EXCEPT ![j] = NextStep(@)]
    /\ UNCHANGED <<status, order, cmd, raced, external>>

\* Every thing of the request is listed again; whether the zone is enabled is
\* not looked at.
FinalHealthCheck(j) ==
    /\ At(j, "step")
    /\ Head(run[j].todo) = "final_health_check"
    /\ \A t \in Expected(run[j].req) \ {<<"zone_enabled">>} : There(t)
    /\ run' = [run EXCEPT ![j] = NextStep(@)]
    /\ UNCHANGED <<status, order, cmd, raced, external>>

Finish(j) ==
    /\ run[j].pc = "step"
    /\ run[j].todo = <<>>
    /\ Update(j, "succeeded")
    /\ run' = [run EXCEPT ![j] = NoRun]
    /\ UNCHANGED <<order, cmd, raced, external>>

\* A step fails: an id is missing, Mold cannot be reached, refuses or takes too
\* long, a thing is not in the list, a host cannot be reached.  The job ends.
Fail(j) ==
    /\ run[j].pc \notin {"none", "begin"}
    /\ run[j].todo # <<>>
    /\ Update(j, "failed")
    /\ run' = [run EXCEPT ![j] = NoRun]
    /\ raced' = (raced \/ cmd[j].state = "sent")
    /\ Forget(j)
    /\ UNCHANGED <<order, external>>

JobStep(j) ==
    \/ Begin(j) \/ Connect(j) \/ Find(j) \/ Apply(j) \/ Poll(j) \/ Verify(j)
    \/ LoadTargets(j) \/ RegisterKey(j) \/ WaitSystemVMRunning(j) \/ FinalHealthCheck(j)
    \/ Finish(j) \/ Fail(j)

\* A command has ended; its job learns of it if it still waits.
Answer(j, result) == cmd' = [cmd EXCEPT ![j] = IF run[j].pc \in {"poll", "verify"}
                                               THEN [@ EXCEPT !.state = result] ELSE NoCmd]

\* Mold carries out a command, whether or not somebody waits for it.
MoldDoes(j) ==
    LET t == cmd[j].thing IN
    /\ cmd[j].state = "sent"
    /\ mold' = mold \cup {t}
    /\ twice' = (twice \/ t \in Creatable \cap mold)
    /\ Answer(j, "done")
    /\ UNCHANGED <<status, order, run, systemVMs, hosts, keys, changes, raced>>

\* Mold refuses a command.
MoldRefuses(j) ==
    /\ cmd[j].state = "sent"
    /\ Answer(j, "refused")
    /\ UNCHANGED <<status, order, run, external, raced>>

\* Mold starts the system VMs of an enabled zone.
SystemVMsStart ==
    /\ There(<<"zone_enabled">>)
    /\ ~systemVMs
    /\ systemVMs' = TRUE
    /\ UNCHANGED <<status, order, run, cmd, mold, twice, hosts, keys, changes, raced>>

\* Another request changes the host list of cluster.json.
ClusterChanged ==
    /\ changes < MaxChange
    /\ hosts' \in HostLists \ {hosts}
    /\ changes' = changes + 1
    /\ UNCHANGED <<status, order, run, cmd, mold, twice, systemVMs, keys, raced>>

Next ==
    \/ \E j \in Job : \/ \E staging \in Staging : StartBootstrap(j, staging)
                      \/ JobStep(j) \/ MoldDoes(j) \/ MoldRefuses(j)
    \/ SystemVMsStart \/ ClusterChanged

Spec == Init /\ [][Next]_vars

-----------------------------------------------------------------------------
\* Shape of the state.
TypeOK ==
    /\ status \in [Job -> {"none", "queued", "running", "succeeded", "failed", "gone"}]
    /\ Len(order) <= JobLimit
    /\ \A j \in Job : run[j].pc \in {"none", "begin", "step", "apply", "poll", "verify", "keys"}
    /\ mold \subseteq Thing
    /\ keys \subseteq Host

\* docs/mold-cloudstack-automation-plan.md: running the bootstrap several times
\* creates nothing twice.  It holds as long as jobs do not overlap and none
\* ends while Mold still works for it: then a retry, after a failure at any
\* point, finds what was created.
NothingTwice == twice => raced

\* A step never lacks the id of an earlier one (requireZoneID and the others),
\* also when everything was found and nothing created.
PlanOrderSuffices == \A j \in Job : run[j].pc # "none" /\ run[j].todo # <<>> =>
    run[j].pc = "begin" \/ Requires(Head(run[j].todo)) \subseteq run[j].ids

\* CHANGELOG: the key of the CCVM is registered on every host of cluster.json
\* before add_host.  The step reads cluster.json again, so a host that has left
\* the list since the request is the exception (the list changes at most once).
KeyBeforeHost == \A h \in Host : There(<<"host", h>>) => h \in keys \/ h \notin ToSet(hosts)

\* A job reports success only when everything it was asked for is there, and
\* the system VMs run.
SuccessIsComplete ==
    [][\A j \in Job : status[j] # "succeeded" /\ status'[j] = "succeeded" =>
          systemVMs /\ \A t \in Expected(run[j].req) : There(t)]_vars

=============================================================================
