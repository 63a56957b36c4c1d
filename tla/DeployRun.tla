----------------------------- MODULE DeployRun -----------------------------
(***************************************************************************)
(* The all-in-one deployment job (internal/handler/cube/deploy_run.go):    *)
(* the in-memory job store with its lock, the request handler that creates *)
(* a job if none is busy, and the goroutine that runs the job's steps.     *)
(*                                                                         *)
(* Around it: cluster.json may be rewritten by other requests between two  *)
(* steps (each step reads the cluster type again), every call of a step    *)
(* may fail with or without having had its effect, and the server may be   *)
(* restarted, which loses jobs and goroutines but not their effects.       *)
(***************************************************************************)
EXTENDS DeploySteps, FiniteSets

CONSTANTS
    Job,            \* job ids (uuids, never reused)
    JobLimit,       \* deployRunJobLimit: jobs the store keeps
    Request,        \* the requests clients send
    MaxRewrite,     \* bound: changes of the cluster type by other requests
    MaxRestart      \* bound: restarts of the server

ASSUME DeployRunAssumption ==
    /\ JobLimit \in Nat \ {0}
    /\ MaxRewrite \in Nat
    /\ MaxRestart \in Nat
    /\ \A r \in Request :
          /\ r.only \in Seq(Step)
          /\ r.skip \subseteq Step
          /\ r.given \subseteq Payload
          /\ r.type \in OSType
          /\ r.profile \in BOOLEAN
          /\ r.script \in BOOLEAN

VARIABLES
    jobs,       \* deployRunJobStore.jobs: status and step results of each job
    order,      \* deployRunJobStore.order
    run,        \* per job: the goroutine runDeployRunJob
    os,         \* the cluster type in cluster.json, NoConfig when unreadable
    flags,      \* systemProfile flags that are "true" on the hosts
    achieved,   \* history: steps that succeeded in some job
    rewrites,   \* changes of the cluster type so far
    restarts    \* restarts so far

vars == <<jobs, order, run, os, flags, achieved, rewrites, restarts>>

NoJob == [status |-> "none", steps |-> <<>>, result |-> <<>>]
GoneJob == [status |-> "gone", steps |-> <<>>, result |-> <<>>]
\* at is the index of the step, os the cluster type the step has read, images
\* whether rbd_prepare left mapped images; made is history: the calls of this
\* job that succeeded.
NoRun == [pc |-> "none", req |-> <<>>, at |-> 0, calls |-> <<>>, os |-> NoConfig,
          executed |-> {}, images |-> FALSE, made |-> {}]

Busy == {j \in Job : jobs[j].status \in {"queued", "running"}}
Running == {j \in Job : run[j].pc # "none"}

Init ==
    /\ jobs = [j \in Job |-> NoJob]
    /\ order = <<>>
    /\ run = [j \in Job |-> NoRun]
    /\ os \in OSType \cup {NoConfig}
    /\ flags = {}
    /\ achieved = {}
    /\ rewrites = 0
    /\ restarts = 0

-----------------------------------------------------------------------------
\* Mutant: the newest jobs are pruned.
PruneNewest(seq) == <<SubSeq(seq, 1, JobLimit), ToSet(SubSeq(seq, JobLimit + 1, Len(seq)))>>

\* pruneLocked: what is left of order, and the jobs deleted.
Prune(seq) ==
    LET cut == IF Len(seq) > JobLimit THEN Len(seq) - JobLimit ELSE 0
    IN  <<SubSeq(seq, cut + 1, Len(seq)), ToSet(SubSeq(seq, 1, cut))>>

\* Mutant: a job that is still queued does not count.
CreateIfIdleQueuedFree(j, req, steps) ==
    LET pruned == Prune(Append(order, j)) IN
    /\ \A i \in Job : jobs[i].status # "running"
    /\ order' = pruned[1]
    /\ jobs' = [i \in Job |->
                  IF i \in pruned[2] THEN GoneJob
                  ELSE IF i = j THEN [status |-> "queued", steps |-> steps,
                                      result |-> [k \in DOMAIN steps |-> "pending"]]
                  ELSE jobs[i]]

\* createIfIdle under the store's lock.
CreateIfIdle(j, req, steps) ==
    LET pruned == Prune(Append(order, j)) IN
    /\ Busy = {}
    /\ order' = pruned[1]
    /\ jobs' = [i \in Job |->
                  IF i \in pruned[2] THEN GoneJob
                  ELSE IF i = j THEN [status |-> "queued", steps |-> steps,
                                      result |-> [k \in DOMAIN steps |-> "pending"]]
                  ELSE jobs[i]]

\* StartDeployRun: an empty selection is refused (400), a busy store too (409);
\* otherwise the goroutine is started.
StartDeployRun(j, req) ==
    LET steps == SelectedSteps(req) IN
    /\ jobs[j].status = "none"
    /\ steps # <<>>
    /\ CreateIfIdle(j, req, steps)
    /\ run' = [run EXCEPT ![j] = [NoRun EXCEPT !.pc = "begin", !.req = req]]
    /\ UNCHANGED <<os, flags, achieved, rewrites, restarts>>

\* deployRunJobStore.update: does nothing when the job is not in the store.
Update(j, status, result) ==
    jobs' = IF jobs[j].status \in {"none", "gone"} THEN jobs
            ELSE [jobs EXCEPT ![j] = [status |-> status, steps |-> jobs[j].steps,
                                      result |-> result]]

\* runDeployRunJob: the job is running.
BeginJob(j) ==
    /\ run[j].pc = "begin"
    /\ Update(j, "running", jobs[j].result)
    /\ run' = [run EXCEPT ![j].pc = "mark", ![j].at = 1]
    /\ UNCHANGED <<order, os, flags, achieved, rewrites, restarts>>

\* runDeployRunJob: markDeployRunStepRunning of the next step.
MarkStepRunning(j) ==
    /\ run[j].pc = "mark"
    /\ run[j].at <= Len(jobs[j].steps)
    /\ Update(j, jobs[j].status, [jobs[j].result EXCEPT ![run[j].at] = "running"])
    /\ run' = [run EXCEPT ![j].pc = "decide"]
    /\ UNCHANGED <<order, os, flags, achieved, rewrites, restarts>>

\* runDeployRunStep reads cluster.json and decides.
DecideStep(j) ==
    LET r == run[j]
        step == jobs[j].steps[r.at]
        d == Decide(r.req, step, os, r.executed, r.images)
    IN
    /\ r.pc = "decide"
    /\ run' = [run EXCEPT ![j] =
                 [r EXCEPT !.pc = CASE d = "run" -> "call" [] d = "skip" -> "skipped"
                                    [] OTHER -> "error",
                           !.os = os,
                           !.calls = IF d = "run" THEN Calls(r.req, step) ELSE <<>>]]
    /\ UNCHANGED <<jobs, order, os, flags, achieved, rewrites, restarts>>

\* What a call changes outside the job: cluster_apply writes cluster.json,
\* system_profile the flags of the type its step has read.
Effect(j, call) ==
    /\ os' = IF call = "cluster" THEN run[j].req.type ELSE os
    /\ flags' = IF call = "flags"
                THEN flags \cup SystemFlags(run[j].executed, run[j].os) ELSE flags

\* A call of the step succeeds.
CallSucceeds(j) ==
    LET r == run[j]  call == Head(r.calls) IN
    /\ r.pc = "call"
    /\ r.calls # <<>>
    /\ Effect(j, call)
    /\ run' = [run EXCEPT ![j] = [r EXCEPT !.calls = Tail(r.calls),
                                           !.made = r.made \cup {call},
                                           !.images = r.images \/ call = "rbd_map"]]
    /\ UNCHANGED <<jobs, order, achieved, rewrites, restarts>>

\* A call fails or times out, perhaps after it had its effect.
CallFails(j, applied) ==
    /\ run[j].pc = "call"
    /\ run[j].calls # <<>>
    /\ IF applied THEN Effect(j, Head(run[j].calls)) ELSE UNCHANGED <<os, flags>>
    /\ run' = [run EXCEPT ![j].pc = "error"]
    /\ UNCHANGED <<jobs, order, achieved, rewrites, restarts>>

\* Mutant: a skipped step counts as executed.
FinishStepAnyway(j) ==
    LET r == run[j]
        step == jobs[j].steps[r.at]
        ok == r.pc = "call" /\ r.calls = <<>>
    IN
    /\ ok \/ r.pc = "skipped"
    /\ Update(j, jobs[j].status,
              [jobs[j].result EXCEPT ![r.at] = IF ok THEN "succeeded" ELSE "skipped"])
    /\ run' = [run EXCEPT ![j] =
                 [r EXCEPT !.pc = "mark", !.at = r.at + 1, !.os = NoConfig,
                           !.executed = r.executed \cup {step}]]
    /\ achieved' = IF ok THEN achieved \cup {step} ELSE achieved
    /\ UNCHANGED <<order, os, flags, rewrites, restarts>>

\* runDeployRunJob: markDeployRunStepFinished; only a step that succeeded is
\* remembered as executed.
FinishStep(j) ==
    LET r == run[j]
        step == jobs[j].steps[r.at]
        ok == r.pc = "call" /\ r.calls = <<>>
    IN
    /\ ok \/ r.pc = "skipped"
    /\ Update(j, jobs[j].status,
              [jobs[j].result EXCEPT ![r.at] = IF ok THEN "succeeded" ELSE "skipped"])
    /\ run' = [run EXCEPT ![j] =
                 [r EXCEPT !.pc = "mark", !.at = r.at + 1, !.os = NoConfig,
                           !.executed = IF ok THEN r.executed \cup {step} ELSE r.executed]]
    /\ achieved' = IF ok THEN achieved \cup {step} ELSE achieved
    /\ UNCHANGED <<order, os, flags, rewrites, restarts>>

\* Mutant: only the step is marked as failed, the job stays running.
FailStepStepOnly(j) ==
    /\ run[j].pc = "error"
    /\ Update(j, jobs[j].status, [jobs[j].result EXCEPT ![run[j].at] = "failed"])
    /\ run' = [run EXCEPT ![j] = NoRun]
    /\ UNCHANGED <<order, os, flags, achieved, rewrites, restarts>>

\* runDeployRunJob: a step failed, the job ends.
FailStep(j) ==
    /\ run[j].pc = "error"
    /\ Update(j, "failed", [jobs[j].result EXCEPT ![run[j].at] = "failed"])
    /\ run' = [run EXCEPT ![j] = NoRun]
    /\ UNCHANGED <<order, os, flags, achieved, rewrites, restarts>>

\* runDeployRunJob: after the last step.
FinishJob(j) ==
    /\ run[j].pc = "mark"
    /\ run[j].at > Len(jobs[j].steps)
    /\ Update(j, "succeeded", jobs[j].result)
    /\ run' = [run EXCEPT ![j] = NoRun]
    /\ UNCHANGED <<order, os, flags, achieved, rewrites, restarts>>

RunnerStep(j) ==
    \/ BeginJob(j) \/ MarkStepRunning(j) \/ DecideStep(j)
    \/ CallSucceeds(j) \/ \E applied \in BOOLEAN : CallFails(j, applied)
    \/ FinishStep(j) \/ FailStep(j) \/ FinishJob(j)

\* Another request (cluster apply, an operator) rewrites cluster.json.
ClusterRewritten(t) ==
    /\ rewrites < MaxRewrite
    /\ rewrites' = rewrites + 1
    /\ os' = t
    /\ UNCHANGED <<jobs, order, run, flags, achieved, restarts>>

\* The server process restarts (an unrecovered panic of the goroutine too).
Restart ==
    /\ restarts < MaxRestart
    /\ restarts' = restarts + 1
    /\ jobs' = [j \in Job |-> IF jobs[j].status = "none" THEN NoJob ELSE GoneJob]
    /\ order' = <<>>
    /\ run' = [j \in Job |-> NoRun]
    /\ UNCHANGED <<os, flags, achieved, rewrites>>

Next ==
    \/ \E j \in Job : (\E req \in Request : StartDeployRun(j, req)) \/ RunnerStep(j)
    \/ \E t \in OSType : ClusterRewritten(t)
    \/ Restart

\* The goroutine runs on: all its calls have timeouts.
Fairness == \A j \in Job : WF_vars(RunnerStep(j))

Spec == Init /\ [][Next]_vars
FairSpec == Spec /\ Fairness

-----------------------------------------------------------------------------
\* "Only one queued/running job at a time" (the API description of
\* /cube/deploy/run): there is never a second goroutine working on the
\* cluster, and the store never loses the job of the one there is.
OneDeployment ==
    /\ \A i, j \in Running : i = j
    /\ Running = Busy

\* GFS is created on HCI-filesystem only from the RBD images this very job has
\* created and mapped, however "only", "skip" and other requests interleave.
GFSOnMappedImages ==
    \A j \in Running :
        "create-gfs" \in run[j].made /\ run[j].pc = "call"
        /\ jobs[j].steps[run[j].at] = "storage_prepare"
        /\ run[j].os = "ablestack-hci-filesystem"
            => "rbd_map" \in run[j].made

\* A VM is bootstrapped only after its preparation in the same job ended with
\* a healthy VM, unless the request named the bootstrap step; the CCVM script
\* runs only after its license was registered.
BootstrapAfterPrepare ==
    \A j \in Running :
        /\ "scvm_ready" \in run[j].made =>
              "scvm_health" \in run[j].made \/ Explicit(run[j].req, "scvm_bootstrap")
        /\ "ccvm_ready" \in run[j].made =>
              /\ "ccvm_health" \in run[j].made \/ Explicit(run[j].req, "ccvm_bootstrap")
              /\ "ccvm_license" \in run[j].made

\* The step whose success a flag of the system profile stands for.
StepOf == [f \in {"license.status", "bootstrap.scvm", "bootstrap.gfs_configure",
                  "bootstrap.local_configure", "bootstrap.ccvm", "bootstrap.wall"} |->
    CASE f = "license.status" -> "license_apply"
      [] f = "bootstrap.scvm" -> "scvm_bootstrap"
      [] f = "bootstrap.gfs_configure" -> "storage_prepare"
      [] f = "bootstrap.local_configure" -> "local_prepare"
      [] f = "bootstrap.ccvm" -> "ccvm_bootstrap"
      [] f = "bootstrap.wall" -> "monitoring_prepare"]

\* A flag is true only if its step has succeeded, across failures, late
\* effects of timed-out calls, restarts and retries.
FlagsTruthful == \A f \in flags : StepOf[f] \in achieved

\* A job that ended never changes any more, and leaves the store for good.
EndedIsFinal ==
    [][\A j \in Job :
          /\ jobs[j].status \in {"succeeded", "failed"} =>
                jobs'[j] = jobs[j] \/ jobs'[j].status = "gone"
          /\ jobs[j].status = "gone" => jobs'[j].status = "gone"]_vars

\* Every accepted job ends (or is forgotten in a restart): a failed job does
\* not block later deployments.
JobEnds == \A j \in Job : j \in Busy ~> j \notin Busy

\* The job store implements the lifecycle promised to clients.
Lifecycle == INSTANCE JobLifecycle WITH status <- [j \in Job |-> jobs[j].status]
ImplementsLifecycle == Lifecycle!Spec
=============================================================================
