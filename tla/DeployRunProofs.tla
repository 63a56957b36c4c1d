-------------------------- MODULE DeployRunProofs --------------------------
(***************************************************************************)
(* Proofs about DeployRun, for any number of jobs, any requests and any    *)
(* limit of the job store: one deployment at a time, truthful flags, GFS   *)
(* only on the images of the same job, no VM bootstrapped before its       *)
(* preparation was seen healthy, and the refinement of JobLifecycle.       *)
(***************************************************************************)
EXTENDS DeployRun, TLAPS

\* The records of the store and of the goroutines.
Shape ==
    /\ jobs = [j \in Job |-> [status |-> jobs[j].status, steps |-> jobs[j].steps,
                              result |-> jobs[j].result]]
    /\ run = [j \in Job |-> run[j]]
    /\ \A j \in Job : DOMAIN run[j] = DOMAIN NoRun
    /\ \A j \in Job : jobs[j].status \in {"none", "queued", "running", "succeeded",
                                          "failed", "gone"}

\* order holds only ids that were given out.
OrderKnown == order \in Seq(Job) /\ \A k \in 1..Len(order) : jobs[order[k]].status # "none"

\* A goroutine is where the status of its job says.
StatusOfRun ==
    \A j \in Job :
        /\ jobs[j].status = "queued" <=> run[j].pc = "begin"
        /\ jobs[j].status = "running" <=> run[j].pc \notin {"none", "begin"}

\* There is one.
OneBusy == \A i, j \in Job : run[i].pc # "none" /\ run[j].pc # "none" => i = j

Inv == Shape /\ OrderKnown /\ StatusOfRun /\ OneBusy

\* Update changes one entry when the job is busy.
LEMMA UpdateBusy ==
    ASSUME Shape, NEW j \in Job, NEW st, NEW res,
           jobs[j].status \in {"queued", "running"}, Update(j, st, res)
    PROVE  jobs' = [jobs EXCEPT ![j] = [status |-> st, steps |-> jobs[j].steps,
                                        result |-> res]]
  BY DEF Update

\* Prune keeps the newest id, and what it deletes was in the list.
LEMMA PruneFacts ==
    ASSUME NEW s \in Seq(Job), NEW j \in Job
    PROVE  LET p == Prune(Append(s, j)) IN
           /\ p[1] \in Seq(Job)
           /\ \A k \in 1..Len(p[1]) : p[1][k] = j \/ \E i \in 1..Len(s) : p[1][k] = s[i]
           /\ \A d \in p[2] : \E i \in 1..Len(s) : d = s[i]
<1> DEFINE a == Append(s, j)
           cut == IF Len(a) > JobLimit THEN Len(a) - JobLimit ELSE 0
           kept == SubSeq(a, cut + 1, Len(a))
           del == SubSeq(a, 1, cut)
<1>1. /\ a \in Seq(Job) /\ Len(a) = Len(s) + 1 /\ Len(s) \in Nat
      /\ \A i \in 1..Len(s) : a[i] = s[i]
      /\ a[Len(s) + 1] = j
  OBVIOUS
<1>2. JobLimit \in Nat \ {0}
  BY DeployRunAssumption
<1>3. cut \in 0..Len(s)
  BY <1>1, <1>2
<1> HIDE DEF a, cut
<1>4. /\ kept \in Seq(Job) /\ Len(kept) = Len(a) - cut
      /\ \A k \in 1..Len(kept) : kept[k] = a[cut + k]
  BY <1>1, <1>3
<1>5. /\ del \in Seq(Job) /\ Len(del) = cut
      /\ \A k \in 1..cut : del[k] = a[k]
  BY <1>1, <1>3
<1>6. \A k \in 1..Len(kept) : cut + k \in 1..Len(s) \/ cut + k = Len(s) + 1
  BY <1>1, <1>3, <1>4
<1>7. \A d \in ToSet(del) : \E i \in 1..Len(s) : d = s[i]
  BY <1>1, <1>3, <1>5 DEF ToSet
<1>8. Prune(Append(s, j)) = <<kept, ToSet(del)>>
  BY DEF Prune, a, cut
<1>9. ASSUME NEW k \in 1..Len(kept)
      PROVE  kept[k] = j \/ \E i \in 1..Len(s) : kept[k] = s[i]
  <2>1. kept[k] = a[cut + k]
    BY <1>4
  <2>2. CASE cut + k \in 1..Len(s)
    BY <1>1, <2>1, <2>2
  <2>3. CASE cut + k = Len(s) + 1
    BY <1>1, <2>1, <2>3
  <2> QED
    BY <1>6, <2>2, <2>3
<1> HIDE DEF kept, del
<1> QED
  BY <1>4, <1>7, <1>8, <1>9

-----------------------------------------------------------------------------
LEMMA InitInv == Init => Inv
  BY DEF Init, Inv, Shape, OrderKnown, StatusOfRun, OneBusy, NoJob, NoRun

\* A step of the goroutine of j that updates the store: its job goes on, or
\* ends together with the goroutine.
RunnerUpdate(j, st, res, r) ==
    /\ jobs[j].status \in {"queued", "running"}
    /\ Update(j, st, res)
    /\ run' = [run EXCEPT ![j] = r]
    /\ DOMAIN r = DOMAIN NoRun
    /\ \/ st = "running" /\ r.pc \notin {"none", "begin"}
       \/ st \in {"succeeded", "failed"} /\ r.pc = "none" /\ jobs[j].status = "running"
    /\ order' = order

\* A step of the goroutine of j between two updates of the store.
RunnerMove(j, r) ==
    /\ run[j].pc \notin {"none", "begin"}
    /\ run' = [run EXCEPT ![j] = r]
    /\ DOMAIN r = DOMAIN NoRun
    /\ r.pc \notin {"none", "begin"}
    /\ UNCHANGED <<jobs, order>>

LEMMA UpdateKeeps ==
    ASSUME Inv, NEW j \in Job, NEW st, NEW res, NEW r, RunnerUpdate(j, st, res, r)
    PROVE  Inv'
<1> USE DEF RunnerUpdate
<1> USE DEF Inv
<1>1. jobs' = [jobs EXCEPT ![j] = [status |-> st, steps |-> jobs[j].steps, result |-> res]]
  BY UpdateBusy
<1>2. \A i \in Job : jobs'[i].status = IF i = j THEN st ELSE jobs[i].status
  BY <1>1 DEF Shape
<1>3. Shape'
  BY <1>1, <1>2 DEF Shape
<1>4. \A i \in Job : run'[i] = IF i = j THEN r ELSE run[i]
  BY DEF Shape
<1>5. run[j].pc # "none"
  BY DEF StatusOfRun
<1>6. OrderKnown'
  BY <1>2 DEF OrderKnown
<1>7. StatusOfRun'
  BY <1>2, <1>4 DEF StatusOfRun
<1>8. OneBusy'
  BY <1>4, <1>5 DEF OneBusy
<1> QED
  BY <1>3, <1>6, <1>7, <1>8

LEMMA MoveKeeps ==
    ASSUME Inv, NEW j \in Job, NEW r, RunnerMove(j, r)
    PROVE  Inv'
  BY DEF RunnerMove, Inv, Shape, OrderKnown, StatusOfRun, OneBusy

\* A new job is created only when no goroutine is left.
LEMMA StartKeeps ==
    ASSUME Inv, NEW j \in Job, NEW req \in Request, StartDeployRun(j, req)
    PROVE  Inv'
<1> USE DEF Inv
<1> DEFINE steps == SelectedSteps(req)
           p == Prune(Append(order, j))
           new == [status |-> "queued", steps |-> steps,
                   result |-> [k \in DOMAIN steps |-> "pending"]]
           begin == [NoRun EXCEPT !.pc = "begin", !.req = req]
<1>1. /\ jobs[j].status = "none" /\ Busy = {} /\ order' = p[1]
      /\ jobs' = [i \in Job |-> IF i \in p[2] THEN GoneJob
                                ELSE IF i = j THEN new ELSE jobs[i]]
      /\ run' = [run EXCEPT ![j] = begin]
  BY DEF StartDeployRun, CreateIfIdle
<1>2. /\ p[1] \in Seq(Job)
      /\ \A k \in 1..Len(p[1]) : p[1][k] = j \/ \E i \in 1..Len(order) : p[1][k] = order[i]
      /\ \A d \in p[2] : \E i \in 1..Len(order) : d = order[i]
  BY PruneFacts DEF OrderKnown
<1>3. j \notin p[2]
  BY <1>1, <1>2 DEF OrderKnown
<1>4. DOMAIN begin = DOMAIN NoRun /\ begin.pc = "begin"
  BY DEF NoRun
<1> HIDE DEF p, steps, begin
<1>5. \A i \in Job : jobs'[i].status = IF i \in p[2] THEN "gone"
                                       ELSE IF i = j THEN "queued" ELSE jobs[i].status
  BY <1>1 DEF GoneJob
<1>6. \A i \in Job : run'[i] = IF i = j THEN begin ELSE run[i]
  BY <1>1 DEF Shape
<1>7. \A i \in Job : run[i].pc = "none"
  BY <1>1 DEF Busy, StatusOfRun
<1>8. Shape'
  BY <1>1, <1>4, <1>5, <1>6 DEF Shape, GoneJob
<1>9. OrderKnown'
  BY <1>1, <1>2, <1>5 DEF OrderKnown
<1>10. StatusOfRun'
  BY <1>1, <1>3, <1>4, <1>5, <1>6, <1>7 DEF StatusOfRun, Busy
<1>11. OneBusy'
  BY <1>6, <1>7 DEF OneBusy
<1> QED
  BY <1>8, <1>9, <1>10, <1>11

LEMMA RestartKeeps == ASSUME Inv, Restart PROVE Inv'
  BY DEF Inv, Restart, Shape, OrderKnown, StatusOfRun, OneBusy, NoJob, GoneJob, NoRun

\* What a step does to the store and the goroutines.
StepKind ==
    \/ \E j \in Job : \E req \in Request : StartDeployRun(j, req)
    \/ \E j \in Job : \E st, res, r : RunnerUpdate(j, st, res, r)
    \/ \E j \in Job : \E r : RunnerMove(j, r)
    \/ Restart
    \/ UNCHANGED <<jobs, order, run>>

LEMMA Kinds == ASSUME Inv, [Next]_vars PROVE StepKind
<1> USE DEF StepKind
<1>0. ASSUME NEW j \in Job PROVE
        /\ DOMAIN run[j] = DOMAIN NoRun
        /\ {"pc", "at", "os", "calls", "executed", "images", "made"} \subseteq DOMAIN run[j]
        /\ run[j].pc = "begin" => jobs[j].status = "queued"
        /\ run[j].pc \notin {"none", "begin"} => jobs[j].status = "running"
        /\ DOMAIN NoRun = DOMAIN NoRun /\ NoRun.pc = "none"
  BY DEF Inv, Shape, StatusOfRun, NoRun
<1>1. ASSUME NEW j \in Job, NEW req \in Request, StartDeployRun(j, req) PROVE StepKind
  BY <1>1
<1>2. ASSUME NEW j \in Job, BeginJob(j) PROVE StepKind
  <2> DEFINE r == [run[j] EXCEPT !.pc = "mark", !.at = 1]
  <2>1. run' = [run EXCEPT ![j] = r]
    BY <1>2 DEF BeginJob
  <2>2. DOMAIN r = DOMAIN NoRun /\ r.pc = "mark"
    BY <1>0, Zenon
  <2>3. run[j].pc = "begin" /\ Update(j, "running", jobs[j].result) /\ order' = order
    BY <1>2 DEF BeginJob
  <2> HIDE DEF r
  <2>4. RunnerUpdate(j, "running", jobs[j].result, r)
    BY <1>0, <2>1, <2>2, <2>3 DEF RunnerUpdate
  <2> QED
    BY <2>4
<1>3. ASSUME NEW j \in Job, MarkStepRunning(j) PROVE StepKind
  <2> DEFINE r == [run[j] EXCEPT !.pc = "decide"]
             res == [jobs[j].result EXCEPT ![run[j].at] = "running"]
  <2>1. run' = [run EXCEPT ![j] = r]
    BY <1>3 DEF MarkStepRunning
  <2>2. DOMAIN r = DOMAIN NoRun /\ r.pc = "decide"
    BY <1>0, Zenon
  <2>3. run[j].pc = "mark" /\ Update(j, "running", res) /\ order' = order
    BY <1>0, <1>3 DEF MarkStepRunning
  <2> HIDE DEF r, res
  <2>4. RunnerUpdate(j, "running", res, r)
    BY <1>0, <2>1, <2>2, <2>3 DEF RunnerUpdate
  <2> QED
    BY <2>4
<1>4. ASSUME NEW j \in Job, DecideStep(j) PROVE StepKind
  <2> DEFINE step == jobs[j].steps[run[j].at]
             d == Decide(run[j].req, step, os, run[j].executed, run[j].images)
             pc == CASE d = "run" -> "call" [] d = "skip" -> "skipped" [] OTHER -> "error"
             calls == IF d = "run" THEN Calls(run[j].req, step) ELSE <<>>
             r == [run[j] EXCEPT !.pc = pc, !.os = os, !.calls = calls]
  <2>1. run' = [run EXCEPT ![j] = r] /\ run[j].pc = "decide" /\ UNCHANGED <<jobs, order>>
    BY <1>4 DEF DecideStep
  <2>2. pc \in {"call", "skipped", "error"}
    OBVIOUS
  <2> HIDE DEF pc, calls
  <2>3. DOMAIN r = DOMAIN NoRun /\ r.pc = pc
    BY <1>0, Zenon
  <2> HIDE DEF r
  <2>4. RunnerMove(j, r)
    BY <2>1, <2>2, <2>3 DEF RunnerMove
  <2> QED
    BY <2>4
<1>5. ASSUME NEW j \in Job, CallSucceeds(j) PROVE StepKind
  <2> DEFINE call == Head(run[j].calls)
             r == [run[j] EXCEPT !.calls = Tail(run[j].calls),
                                 !.made = run[j].made \cup {call},
                                 !.images = run[j].images \/ call = "rbd_map"]
  <2>1. run' = [run EXCEPT ![j] = r] /\ run[j].pc = "call" /\ UNCHANGED <<jobs, order>>
    BY <1>5 DEF CallSucceeds
  <2>2. DOMAIN r = DOMAIN NoRun /\ r.pc = "call"
    BY <1>0, <2>1, Zenon
  <2> HIDE DEF r
  <2>3. RunnerMove(j, r)
    BY <2>1, <2>2 DEF RunnerMove
  <2> QED
    BY <2>3
<1>6. ASSUME NEW j \in Job, NEW applied \in BOOLEAN, CallFails(j, applied) PROVE StepKind
  <2> DEFINE r == [run[j] EXCEPT !.pc = "error"]
  <2>1. run' = [run EXCEPT ![j] = r] /\ run[j].pc = "call" /\ UNCHANGED <<jobs, order>>
    BY <1>6 DEF CallFails
  <2>2. DOMAIN r = DOMAIN NoRun /\ r.pc = "error"
    BY <1>0, Zenon
  <2> HIDE DEF r
  <2>3. RunnerMove(j, r)
    BY <2>1, <2>2 DEF RunnerMove
  <2> QED
    BY <2>3
<1>7. ASSUME NEW j \in Job, FinishStep(j) PROVE StepKind
  <2> DEFINE ok == run[j].pc = "call" /\ run[j].calls = <<>>
             ex == IF ok THEN run[j].executed \cup {jobs[j].steps[run[j].at]}
                   ELSE run[j].executed
             r == [run[j] EXCEPT !.pc = "mark", !.at = run[j].at + 1, !.os = NoConfig,
                                 !.executed = ex]
             res == [jobs[j].result EXCEPT ![run[j].at] = IF ok THEN "succeeded" ELSE "skipped"]
  <2>1. run' = [run EXCEPT ![j] = r] /\ order' = order
    BY <1>7 DEF FinishStep
  <2>2. run[j].pc \in {"call", "skipped"} /\ Update(j, "running", res)
    BY <1>0, <1>7 DEF FinishStep
  <2> HIDE DEF ok, ex, res
  <2>3. DOMAIN r = DOMAIN NoRun /\ r.pc = "mark"
    BY <1>0, Zenon
  <2> HIDE DEF r
  <2>4. RunnerUpdate(j, "running", res, r)
    BY <1>0, <2>1, <2>2, <2>3 DEF RunnerUpdate
  <2> QED
    BY <2>4
<1>8. ASSUME NEW j \in Job, FailStep(j) PROVE StepKind
  <2> DEFINE res == [jobs[j].result EXCEPT ![run[j].at] = "failed"]
  <2>1. /\ run' = [run EXCEPT ![j] = NoRun] /\ order' = order
        /\ run[j].pc = "error" /\ Update(j, "failed", res)
    BY <1>8 DEF FailStep
  <2> HIDE DEF res
  <2>2. RunnerUpdate(j, "failed", res, NoRun)
    BY <1>0, <2>1 DEF RunnerUpdate
  <2> QED
    BY <2>2
<1>9. ASSUME NEW j \in Job, FinishJob(j) PROVE StepKind
  <2>1. /\ run' = [run EXCEPT ![j] = NoRun] /\ order' = order
        /\ run[j].pc = "mark" /\ Update(j, "succeeded", jobs[j].result)
    BY <1>9 DEF FinishJob
  <2>2. RunnerUpdate(j, "succeeded", jobs[j].result, NoRun)
    BY <1>0, <2>1 DEF RunnerUpdate
  <2> QED
    BY <2>2
<1>10. ASSUME NEW t \in OSType, ClusterRewritten(t) PROVE StepKind
  BY <1>10 DEF ClusterRewritten
<1>11. CASE Restart
  BY <1>11
<1>12. CASE UNCHANGED vars
  BY <1>12 DEF vars
<1> QED
  BY <1>1, <1>2, <1>3, <1>4, <1>5, <1>6, <1>7, <1>8, <1>9, <1>10, <1>11, <1>12
  DEF Next, RunnerStep

\* Every step keeps the invariant.
LEMMA StepInv == Inv /\ [Next]_vars => Inv'
<1> SUFFICES ASSUME Inv, [Next]_vars PROVE Inv'
  OBVIOUS
<1>1. CASE UNCHANGED <<jobs, order, run>>
  BY <1>1 DEF Inv, Shape, OrderKnown, StatusOfRun, OneBusy
<1> QED
  BY <1>1, Kinds, StartKeeps, UpdateKeeps, MoveKeeps, RestartKeeps DEF StepKind

THEOREM Invariance == Spec => []Inv
  BY InitInv, StepInv, PTL DEF Spec

\* At any time at most one goroutine works on the cluster, and it is the one
\* of the job that the store shows as queued or running: createIfIdle decides
\* under the lock, and pruneLocked never drops a busy job.
THEOREM OneDeploymentAtATime == Spec => []OneDeployment
<1>1. Inv => OneDeployment
  BY DEF Inv, Shape, StatusOfRun, OneBusy, OneDeployment, Running, Busy
<1> QED
  BY <1>1, Invariance, PTL

-----------------------------------------------------------------------------
Bar == [j \in Job |-> jobs[j].status]

LEMMA UpdateStatus ==
    ASSUME Inv, NEW j \in Job, NEW st, NEW res, NEW r, RunnerUpdate(j, st, res, r)
    PROVE  Bar' = [Bar EXCEPT ![j] = st]
<1>1. jobs' = [jobs EXCEPT ![j] = [status |-> st, steps |-> jobs[j].steps, result |-> res]]
  BY UpdateBusy DEF Inv, RunnerUpdate
<1> QED
  BY <1>1 DEF Bar, Inv, Shape

\* A step of the store is a step of the lifecycle, or none.
LEMMA StepRefines == Inv /\ [Next]_vars => [Lifecycle!Next]_Bar
<1> SUFFICES ASSUME Inv, [Next]_vars PROVE [Lifecycle!Next]_Bar
  OBVIOUS
<1>1. ASSUME NEW j \in Job, NEW req \in Request, StartDeployRun(j, req)
      PROVE  Lifecycle!Submit(j)
  <2> DEFINE p == Prune(Append(order, j))
             dropped == {i \in p[2] : jobs[i].status \in {"succeeded", "failed"}}
  <2>1. /\ jobs[j].status = "none" /\ Busy = {}
        /\ jobs' = [i \in Job |->
                      IF i \in p[2] THEN GoneJob
                      ELSE IF i = j
                      THEN [status |-> "queued", steps |-> SelectedSteps(req),
                            result |-> [k \in DOMAIN SelectedSteps(req) |-> "pending"]]
                      ELSE jobs[i]]
    BY <1>1 DEF StartDeployRun, CreateIfIdle
  <2>2. \A d \in p[2] : d \in Job /\ jobs[d].status # "none"
    BY PruneFacts DEF Inv, OrderKnown
  <2> HIDE DEF p
  <2>3. \A i \in Job : Bar'[i] = IF i = j THEN "queued"
                                 ELSE IF i \in dropped THEN "gone" ELSE Bar[i]
    BY <2>1, <2>2 DEF Bar, GoneJob, Busy, Inv, Shape
  <2>4. Bar' = [i \in Job |-> IF i = j THEN "queued"
                              ELSE IF i \in dropped THEN "gone" ELSE Bar[i]]
    BY <2>3 DEF Bar
  <2>5. dropped \in SUBSET Lifecycle!Ended
    BY <2>2 DEF Lifecycle!Ended
  <2>6. Bar[j] = "none" /\ Lifecycle!Busy = {}
    BY <2>1 DEF Bar, Busy, Lifecycle!Busy
  <2> HIDE DEF dropped
  <2> QED
    BY <2>4, <2>5, <2>6 DEF Lifecycle!Submit, Bar
<1>2. ASSUME NEW j \in Job, NEW st, NEW res, NEW r, RunnerUpdate(j, st, res, r)
      PROVE  [Lifecycle!Next]_Bar
  <2>1. Bar' = [Bar EXCEPT ![j] = st]
    BY <1>2, UpdateStatus
  <2>2. \/ Bar[j] \in {"queued", "running"} /\ st = "running"
        \/ Bar[j] = "running" /\ st \in {"succeeded", "failed"}
    BY <1>2 DEF RunnerUpdate, Bar
  <2>3. CASE Bar[j] = "queued" /\ st = "running"
    BY <2>1, <2>3 DEF Lifecycle!Next, Lifecycle!Begin, Bar
  <2>4. CASE Bar[j] = "running" /\ st = "running"
    <3>1. Bar' = Bar
      BY <2>1, <2>4 DEF Bar
    <3> QED
      BY <3>1
  <2>5. CASE Bar[j] = "running" /\ st \in {"succeeded", "failed"}
    BY <2>1, <2>5 DEF Lifecycle!Next, Lifecycle!End, Bar
  <2> QED
    BY <2>2, <2>3, <2>4, <2>5
<1>3. ASSUME UNCHANGED jobs PROVE Bar' = Bar
  BY <1>3 DEF Bar
<1>4. ASSUME Restart PROVE Lifecycle!Restart
  BY <1>4 DEF Restart, Lifecycle!Restart, Bar, NoJob, GoneJob
<1>5. CASE \E j \in Job : \E r : RunnerMove(j, r)
  BY <1>3, <1>5 DEF RunnerMove
<1>6. CASE Restart
  BY <1>4, <1>6 DEF Lifecycle!Next
<1>7. CASE \E j \in Job : \E req \in Request : StartDeployRun(j, req)
  BY <1>1, <1>7 DEF Lifecycle!Next
<1>8. CASE UNCHANGED <<jobs, order, run>>
  BY <1>3, <1>8
<1> QED
  BY <1>2, <1>5, <1>6, <1>7, <1>8, Kinds DEF StepKind

\* The job store implements the lifecycle promised to clients: one job at a
\* time, queued, running, one final result, dropped only when ended.
THEOREM Refinement == Spec => ImplementsLifecycle
<1>1. Init => Lifecycle!Init
  BY DEF Init, Lifecycle!Init, NoJob
<1>2. Inv /\ [Next]_vars => [Lifecycle!Next]_[j \in Job |-> jobs[j].status]
  BY StepRefines DEF Bar
<1> QED
  BY <1>1, <1>2, Invariance, PTL DEF Spec, ImplementsLifecycle, Lifecycle!Spec

\* An ended job never changes any more, and a job that left the store does not
\* come back.
THEOREM EndedJobsAreFinal == Spec => EndedIsFinal
<1> DEFINE Final(j) ==
             /\ jobs[j].status \in {"succeeded", "failed"} =>
                   jobs'[j] = jobs[j] \/ jobs'[j].status = "gone"
             /\ jobs[j].status = "gone" => jobs'[j].status = "gone"
<1>1. ASSUME Inv, [Next]_vars, NEW j \in Job PROVE Final(j)
  <2>1. ASSUME NEW i \in Job, NEW req \in Request, StartDeployRun(i, req) PROVE Final(j)
    BY <2>1 DEF StartDeployRun, CreateIfIdle, GoneJob
  <2>2. ASSUME NEW i \in Job, NEW st, NEW res, NEW r, RunnerUpdate(i, st, res, r) PROVE Final(j)
    <3>1. /\ jobs' = [jobs EXCEPT ![i] = [status |-> st, steps |-> jobs[i].steps,
                                          result |-> res]]
          /\ jobs[i].status \in {"queued", "running"}
      BY <1>1, <2>2, UpdateBusy DEF Inv, RunnerUpdate
    <3>2. jobs'[j] = jobs[j] \/ i = j
      BY <1>1, <3>1 DEF Inv, Shape
    <3> QED
      BY <3>1, <3>2
  <2>3. ASSUME UNCHANGED jobs PROVE Final(j)
    BY <2>3
  <2>4. CASE Restart
    BY <2>4 DEF Restart, GoneJob
  <2>5. CASE \E i \in Job : \E r : RunnerMove(i, r)
    BY <2>3, <2>5 DEF RunnerMove
  <2> HIDE DEF Final
  <2> QED
    BY <1>1, <2>1, <2>2, <2>3, <2>4, <2>5, Kinds DEF StepKind
<1>2. Inv /\ [Next]_vars =>
        [\A j \in Job :
          /\ jobs[j].status \in {"succeeded", "failed"} =>
                jobs'[j] = jobs[j] \/ jobs'[j].status = "gone"
          /\ jobs[j].status = "gone" => jobs'[j].status = "gone"]_vars
  BY <1>1
<1> QED
  BY <1>2, Invariance, PTL DEF Spec, EndedIsFinal

-----------------------------------------------------------------------------
(* Flags and images *)

\* What a job counts as executed has succeeded, and images come from rbd_map.
Executed == \A j \in Job : run[j].executed \subseteq achieved
Images == \A j \in Job : run[j].images => "rbd_map" \in run[j].made
\* A storage_prepare that makes calls on HCI-filesystem was decided with images.
Storage ==
    \A j \in Job :
        run[j].pc = "call" /\ jobs[j].steps[run[j].at] = "storage_prepare"
        /\ run[j].os = "ablestack-hci-filesystem" => "rbd_map" \in run[j].made

Facts == Executed /\ Images /\ Storage /\ FlagsTruthful

LEMMA FlagsOfExecuted ==
    ASSUME NEW executed, NEW type
    PROVE  \A f \in SystemFlags(executed, type) : StepOf[f] \in executed
  BY DEF SystemFlags, StepOf

\* Only the goroutine of j has changed, to one for which the facts hold.
OnlyRun(j, r) ==
    /\ run' = [run EXCEPT ![j] = r]
    /\ \A i \in Job : jobs'[i].steps = jobs[i].steps \/ run'[i].pc # "call"
    /\ achieved \subseteq achieved'
    /\ r.executed \subseteq achieved'
    /\ r.images => "rbd_map" \in r.made
    /\ r.pc = "call" /\ jobs[j].steps[r.at] = "storage_prepare"
          /\ r.os = "ablestack-hci-filesystem" => "rbd_map" \in r.made
    /\ \A f \in flags' : StepOf[f] \in achieved'

LEMMA FactsOfRun ==
    ASSUME Inv, Facts, NEW j \in Job, NEW r, OnlyRun(j, r)
    PROVE  Facts'
<1>1. \A i \in Job : run'[i] = IF i = j THEN r ELSE run[i]
  BY DEF Inv, Shape, OnlyRun
<1>2. Executed'
  BY <1>1 DEF Facts, Executed, OnlyRun
<1>3. Images'
  BY <1>1 DEF Facts, Images, OnlyRun
<1>4. Storage'
  BY <1>1 DEF Facts, Storage, OnlyRun
<1>5. FlagsTruthful'
  BY DEF FlagsTruthful, OnlyRun
<1> QED
  BY <1>2, <1>3, <1>4, <1>5 DEF Facts

\* Update leaves the steps of every job alone.
LEMMA UpdateSteps ==
    ASSUME Inv, NEW j \in Job, NEW st, NEW res, Update(j, st, res)
    PROVE  \A i \in Job : jobs'[i].steps = jobs[i].steps
  BY DEF Update, Inv, Shape

LEMMA StepFacts == Inv /\ Facts /\ [Next]_vars => Facts'
<1> SUFFICES ASSUME Inv, Facts, [Next]_vars PROVE Facts'
  OBVIOUS
<1>0. ASSUME NEW j \in Job PROVE
        /\ {"pc", "at", "os", "calls", "executed", "images", "made", "req"} \subseteq DOMAIN run[j]
        /\ run[j].executed \subseteq achieved
        /\ run[j].images => "rbd_map" \in run[j].made
        /\ run[j].pc = "call" /\ jobs[j].steps[run[j].at] = "storage_prepare"
             /\ run[j].os = "ablestack-hci-filesystem" => "rbd_map" \in run[j].made
        /\ \A f \in flags : StepOf[f] \in achieved
  BY DEF Inv, Shape, NoRun, Facts, Executed, Images, Storage, FlagsTruthful
<1>r. NoRun.pc = "none" /\ NoRun.executed = {} /\ NoRun.images = FALSE
  BY DEF NoRun
<1>1. ASSUME NEW j \in Job, NEW req \in Request, StartDeployRun(j, req) PROVE Facts'
  <2> DEFINE r == [NoRun EXCEPT !.pc = "begin", !.req = req]
  <2>1. run' = [run EXCEPT ![j] = r] /\ UNCHANGED <<flags, achieved>> /\ Busy = {}
    BY <1>1 DEF StartDeployRun, CreateIfIdle
  <2>2. r.pc = "begin" /\ r.executed = {} /\ r.images = FALSE
    BY DEF NoRun
  <2> HIDE DEF r
  <2>3. \A i \in Job : run'[i].pc # "call"
    BY <2>1, <2>2 DEF Inv, Shape, StatusOfRun, Busy
  <2>4. OnlyRun(j, r)
    BY <1>0, <2>1, <2>2, <2>3 DEF OnlyRun
  <2> QED
    BY <2>4, FactsOfRun
<1>2. ASSUME NEW j \in Job, BeginJob(j) PROVE Facts'
  <2> DEFINE r == [run[j] EXCEPT !.pc = "mark", !.at = 1]
  <2>1. run' = [run EXCEPT ![j] = r] /\ UNCHANGED <<flags, achieved>>
    BY <1>2 DEF BeginJob
  <2>2. /\ r.pc = "mark" /\ r.executed = run[j].executed /\ r.images = run[j].images
        /\ r.made = run[j].made
    BY <1>0, Zenon
  <2> HIDE DEF r
  <2>3. \A i \in Job : jobs'[i].steps = jobs[i].steps
    BY <1>2, UpdateSteps DEF BeginJob
  <2>4. OnlyRun(j, r)
    BY <1>0, <2>1, <2>2, <2>3 DEF OnlyRun
  <2> QED
    BY <2>4, FactsOfRun
<1>3. ASSUME NEW j \in Job, MarkStepRunning(j) PROVE Facts'
  <2> DEFINE r == [run[j] EXCEPT !.pc = "decide"]
  <2>1. run' = [run EXCEPT ![j] = r] /\ UNCHANGED <<flags, achieved>>
    BY <1>3 DEF MarkStepRunning
  <2>2. /\ r.pc = "decide" /\ r.executed = run[j].executed /\ r.images = run[j].images
        /\ r.made = run[j].made
    BY <1>0, Zenon
  <2> HIDE DEF r
  <2>3. \A i \in Job : jobs'[i].steps = jobs[i].steps
    BY <1>3, UpdateSteps DEF MarkStepRunning
  <2>4. OnlyRun(j, r)
    BY <1>0, <2>1, <2>2, <2>3 DEF OnlyRun
  <2> QED
    BY <2>4, FactsOfRun
<1>4. ASSUME NEW j \in Job, DecideStep(j) PROVE Facts'
  <2> DEFINE step == jobs[j].steps[run[j].at]
             d == Decide(run[j].req, step, os, run[j].executed, run[j].images)
             pc == CASE d = "run" -> "call" [] d = "skip" -> "skipped" [] OTHER -> "error"
             calls == IF d = "run" THEN Calls(run[j].req, step) ELSE <<>>
             r == [run[j] EXCEPT !.pc = pc, !.os = os, !.calls = calls]
  <2>1. run' = [run EXCEPT ![j] = r] /\ UNCHANGED <<jobs, flags, achieved>>
    BY <1>4 DEF DecideStep
  <2>2. pc = "call" => d = "run"
    OBVIOUS
  <2>3. ASSUME d = "run", step = "storage_prepare", os = "ablestack-hci-filesystem"
        PROVE  run[j].images
    <3>1. DecideStorage(run[j].req, os, run[j].images) = "run"
      BY <2>3 DEF Decide
    <3> QED
      BY <2>3, <3>1 DEF DecideStorage, NoConfig, MissingInput
  <2> HIDE DEF d, pc, calls
  <2>4. /\ r.pc = pc /\ r.os = os /\ r.at = run[j].at /\ r.executed = run[j].executed
        /\ r.images = run[j].images /\ r.made = run[j].made
    BY <1>0, Zenon
  <2> HIDE DEF r
  <2>5. OnlyRun(j, r)
    BY <1>0, <2>1, <2>2, <2>3, <2>4 DEF OnlyRun
  <2> QED
    BY <2>5, FactsOfRun
<1>5. ASSUME NEW j \in Job, CallSucceeds(j) PROVE Facts'
  <2> DEFINE call == Head(run[j].calls)
             tail == Tail(run[j].calls)
             made == run[j].made \cup {call}
             images == run[j].images \/ call = "rbd_map"
             r == [run[j] EXCEPT !.calls = tail, !.made = made, !.images = images]
  <2>1. /\ run' = [run EXCEPT ![j] = r] /\ UNCHANGED <<jobs, achieved>>
        /\ run[j].pc = "call" /\ Effect(j, call)
    BY <1>5 DEF CallSucceeds
  <2>2. run[j].made \subseteq made /\ (images => "rbd_map" \in made)
    BY <1>0
  <2> HIDE DEF tail, made, images
  <2>3. /\ r.pc = run[j].pc /\ r.os = run[j].os /\ r.at = run[j].at
        /\ r.executed = run[j].executed /\ r.images = images /\ r.made = made
    BY <1>0, Zenon
  <2> HIDE DEF r, call
  <2>4. \A f \in flags' : StepOf[f] \in achieved
    BY <1>0, <2>1, FlagsOfExecuted DEF Effect
  <2>5. OnlyRun(j, r)
    BY <1>0, <2>1, <2>2, <2>3, <2>4 DEF OnlyRun
  <2> QED
    BY <2>5, FactsOfRun
<1>6. ASSUME NEW j \in Job, NEW applied \in BOOLEAN, CallFails(j, applied) PROVE Facts'
  <2> DEFINE r == [run[j] EXCEPT !.pc = "error"]
             call == Head(run[j].calls)
  <2>1. /\ run' = [run EXCEPT ![j] = r] /\ UNCHANGED <<jobs, achieved>>
        /\ Effect(j, call) \/ UNCHANGED flags
    BY <1>6 DEF CallFails
  <2>2. /\ r.pc = "error" /\ r.executed = run[j].executed /\ r.images = run[j].images
        /\ r.made = run[j].made
    BY <1>0, Zenon
  <2> HIDE DEF r, call
  <2>3. \A f \in flags' : StepOf[f] \in achieved
    BY <1>0, <2>1, FlagsOfExecuted DEF Effect
  <2>4. OnlyRun(j, r)
    BY <1>0, <2>1, <2>2, <2>3 DEF OnlyRun
  <2> QED
    BY <2>4, FactsOfRun
<1>7. ASSUME NEW j \in Job, FinishStep(j) PROVE Facts'
  <2> DEFINE ok == run[j].pc = "call" /\ run[j].calls = <<>>
             step == jobs[j].steps[run[j].at]
             ex == IF ok THEN run[j].executed \cup {step} ELSE run[j].executed
             r == [run[j] EXCEPT !.pc = "mark", !.at = run[j].at + 1, !.os = NoConfig,
                                 !.executed = ex]
             res == [jobs[j].result EXCEPT ![run[j].at] = IF ok THEN "succeeded" ELSE "skipped"]
  <2>1. /\ run' = [run EXCEPT ![j] = r] /\ UNCHANGED flags
        /\ achieved' = (IF ok THEN achieved \cup {step} ELSE achieved)
        /\ Update(j, jobs[j].status, res)
    BY <1>7 DEF FinishStep
  <2>2. ex \subseteq achieved' /\ achieved \subseteq achieved'
    BY <1>0, <2>1
  <2> HIDE DEF ok, ex, res
  <2>3. \A i \in Job : jobs'[i].steps = jobs[i].steps
    BY <2>1, UpdateSteps
  <2>4. /\ r.pc = "mark" /\ r.executed = ex /\ r.images = run[j].images
        /\ r.made = run[j].made
    BY <1>0, Zenon
  <2> HIDE DEF r
  <2>5. OnlyRun(j, r)
    BY <1>0, <2>1, <2>2, <2>3, <2>4 DEF OnlyRun
  <2> QED
    BY <2>5, FactsOfRun
<1>8. ASSUME NEW j \in Job, FailStep(j) \/ FinishJob(j) PROVE Facts'
  <2>1. run' = [run EXCEPT ![j] = NoRun] /\ UNCHANGED <<flags, achieved>>
    BY <1>8 DEF FailStep, FinishJob
  <2>2. \A i \in Job : jobs'[i].steps = jobs[i].steps
    BY <1>8, UpdateSteps DEF FailStep, FinishJob
  <2>3. OnlyRun(j, NoRun)
    BY <1>0, <1>r, <2>1, <2>2 DEF OnlyRun
  <2> QED
    BY <2>3, FactsOfRun
<1>9. ASSUME NEW t \in OSType, ClusterRewritten(t) PROVE Facts'
  BY <1>9 DEF ClusterRewritten, Facts, Executed, Images, Storage, FlagsTruthful
<1>10. CASE Restart
  BY <1>10, <1>r DEF Restart, Facts, Executed, Images, Storage, FlagsTruthful
<1>11. CASE UNCHANGED vars
  BY <1>11 DEF vars, Facts, Executed, Images, Storage, FlagsTruthful
<1> QED
  BY <1>1, <1>2, <1>3, <1>4, <1>5, <1>6, <1>7, <1>8, <1>9, <1>10, <1>11
  DEF Next, RunnerStep

LEMMA FactsHold == Spec => []Facts
<1>1. Init => Facts
  BY DEF Init, NoRun, Facts, Executed, Images, Storage, FlagsTruthful
<1> QED
  BY <1>1, StepFacts, Invariance, PTL DEF Spec

\* A systemProfile flag is "true" only if the step it stands for has succeeded
\* in some job, whatever fails, is retried or restarted.
THEOREM FlagsAreTruthful == Spec => []FlagsTruthful
<1>1. Facts => FlagsTruthful
  BY DEF Facts
<1> QED
  BY <1>1, FactsHold, PTL

\* On HCI-filesystem GFS is created only from images that this job's
\* rbd_prepare has mapped.
THEOREM GFSNeedsImages == Spec => []GFSOnMappedImages
<1>1. Facts => GFSOnMappedImages
  BY DEF Facts, Storage, GFSOnMappedImages, Running
<1> QED
  BY <1>1, FactsHold, PTL
-----------------------------------------------------------------------------
(* Preparation and bootstrap *)

CallName == {"license", "cluster", "scvm_cloudinit", "scvm_xml", "scvm_setup", "scvm_health",
             "scvm_script", "scvm_ready", "scvm_license", "scvm_license_status", "rbd_create",
             "rbd_map", "init-pcs-cluster", "configure-stonith", "create-gfs", "set-alert", "local",
             "ccvm_cloudinit", "ccvm_xml", "ccvm_setup", "ccvm_health", "ccvm_license",
             "ccvm_script", "ccvm_ready", "ccvm_license_status", "monitoring", "flags"}

Among(call, calls) == \E i \in 1..Len(calls) : calls[i] = call
LicenseFirst(calls) ==
    \A i \in 1..Len(calls) : calls[i] = "ccvm_ready" =>
        \E k \in 1..(i - 1) : calls[k] = "ccvm_license"

\* What one list of calls after another holds.
LEMMA AmongBoth ==
    ASSUME NEW s \in Seq(CallName), NEW t \in Seq(CallName)
    PROVE  /\ s \o t \in Seq(CallName)
           /\ \A x : Among(x, s \o t) <=> Among(x, s) \/ Among(x, t)
<1>1. /\ s \o t \in Seq(CallName) /\ Len(s) \in Nat /\ Len(t) \in Nat
      /\ Len(s \o t) = Len(s) + Len(t)
      /\ \A i \in 1..Len(s) : (s \o t)[i] = s[i]
      /\ \A i \in 1..Len(t) : (s \o t)[Len(s) + i] = t[i]
  OBVIOUS
<1>2. \A i \in 1..Len(s \o t) : i \in 1..Len(s) \/ i - Len(s) \in 1..Len(t)
  BY <1>1
<1>3. ASSUME NEW x, Among(x, s \o t) PROVE Among(x, s) \/ Among(x, t)
  <2>1. PICK i \in 1..Len(s \o t) : (s \o t)[i] = x
    BY <1>3 DEF Among
  <2>2. CASE i \in 1..Len(s)
    BY <1>1, <2>1, <2>2 DEF Among
  <2>3. CASE i - Len(s) \in 1..Len(t)
    <3>1. (s \o t)[Len(s) + (i - Len(s))] = t[i - Len(s)] /\ Len(s) + (i - Len(s)) = i
      BY <1>1, <2>3
    <3> QED
      BY <2>1, <2>3, <3>1 DEF Among
  <2> QED
    BY <1>2, <2>2, <2>3
<1>4. ASSUME NEW x, Among(x, s) PROVE Among(x, s \o t)
  <2>1. PICK i \in 1..Len(s) : s[i] = x
    BY <1>4 DEF Among
  <2>2. i \in 1..Len(s \o t) /\ (s \o t)[i] = x
    BY <1>1, <2>1
  <2> QED
    BY <2>2 DEF Among
<1>5. ASSUME NEW x, Among(x, t) PROVE Among(x, s \o t)
  <2>1. PICK i \in 1..Len(t) : t[i] = x
    BY <1>5 DEF Among
  <2>2. Len(s) + i \in 1..Len(s \o t) /\ (s \o t)[Len(s) + i] = x
    BY <1>1, <2>1
  <2> QED
    BY <2>2 DEF Among
<1> QED
  BY <1>1, <1>3, <1>4, <1>5

\* The calls of a preparation end with the health of the VM.
LEMMA PrepareCalls ==
    ASSUME NEW req, NEW c, c = CCVMPrepareCalls(req)
    PROVE  /\ c \in Seq(CallName) /\ Among("ccvm_health", c)
           /\ ~ Among("scvm_ready", c) /\ ~ Among("ccvm_ready", c)
<1>1. PICK a \in {<<"ccvm_xml">>, <<>>}, b \in {<<"ccvm_setup">>, <<>>} :
        c = <<"ccvm_cloudinit">> \o (a \o (b \o <<"ccvm_health">>))
  BY DEF CCVMPrepareCalls
<1>s. /\ <<>> \in Seq(CallName)
      /\ <<"ccvm_xml">> \in Seq(CallName)
      /\ <<"ccvm_setup">> \in Seq(CallName)
      /\ <<"ccvm_cloudinit">> \in Seq(CallName)
      /\ <<"ccvm_health">> \in Seq(CallName)
  BY DEF CallName
<1>2. a \in Seq(CallName) /\ b \in Seq(CallName)
  BY <1>s, Zenon
<1>3. ASSUME NEW x PROVE
        /\ Among(x, a) => x = "ccvm_xml"
        /\ Among(x, b) => x = "ccvm_setup"
        /\ Among(x, <<"ccvm_cloudinit">>) => x = "ccvm_cloudinit"
        /\ Among(x, <<"ccvm_health">>) <=> x = "ccvm_health"
  BY DEF Among
<1>4. /\ b \o <<"ccvm_health">> \in Seq(CallName)
      /\ \A x : Among(x, b \o <<"ccvm_health">>) <=> Among(x, b) \/ Among(x, <<"ccvm_health">>)
  BY <1>s, <1>2, AmongBoth
<1> DEFINE t == b \o <<"ccvm_health">>
<1> HIDE DEF t
<1>5. /\ a \o t \in Seq(CallName)
      /\ \A x : Among(x, a \o t) <=> Among(x, a) \/ Among(x, t)
  BY <1>s, <1>2, <1>4, AmongBoth DEF t
<1> DEFINE u == a \o t
<1> HIDE DEF u
<1>6. c = <<"ccvm_cloudinit">> \o u
  BY <1>1 DEF t, u
<1>7. /\ c \in Seq(CallName)
      /\ \A x : Among(x, c) <=> Among(x, <<"ccvm_cloudinit">>) \/ Among(x, u)
  <2> DEFINE k == <<"ccvm_cloudinit">>
  <2>1. u \in Seq(CallName) /\ k \in Seq(CallName) /\ c = k \o u
    BY <1>s, <1>5, <1>6 DEF u
  <2> HIDE DEF k
  <2>2. c \in Seq(CallName) /\ \A x : Among(x, c) <=> Among(x, k) \/ Among(x, u)
    BY <2>1, AmongBoth
  <2> QED
    BY <2>2 DEF k
<1> QED
  BY <1>3, <1>4, <1>5, <1>7 DEF t, u

\* The bootstrap of the CCVM registers its license before it waits for it.
LEMMA CCVMReadyCalls ==
    ASSUME NEW req, NEW c, c = <<"ccvm_license">> \o CCVMBootstrapCalls(req)
    PROVE  c \in Seq(CallName) /\ LicenseFirst(c) /\ ~ Among("scvm_ready", c)
<1>1. PICK a \in {<<"ccvm_script">>, <<>>} :
        CCVMBootstrapCalls(req) = a \o <<"ccvm_ready", "ccvm_license_status">>
  BY DEF CCVMBootstrapCalls
<1> DEFINE l == <<"ccvm_license">>
           t == <<"ccvm_ready", "ccvm_license_status">>
<1>s. /\ <<>> \in Seq(CallName)
      /\ <<"ccvm_script">> \in Seq(CallName)
      /\ t \in Seq(CallName)
      /\ l \in Seq(CallName)
  BY DEF CallName
<1>2. /\ a \in Seq(CallName) /\ t \in Seq(CallName) /\ l \in Seq(CallName)
  BY <1>s
<1>3. /\ ~ Among("scvm_ready", a) /\ ~ Among("scvm_ready", t) /\ ~ Among("scvm_ready", l)
      /\ Len(l) = 1 /\ l[1] = "ccvm_license"
  BY DEF Among
<1> HIDE DEF l, t
<1>4. a \o t \in Seq(CallName) /\ ~ Among("scvm_ready", a \o t)
  BY <1>2, <1>3, AmongBoth
<1>5. c = l \o (a \o t)
  <2>1. CCVMBootstrapCalls(req) = a \o t
    BY <1>1, Zenon DEF t
  <2>2. c = l \o CCVMBootstrapCalls(req)
    BY Zenon DEF l
  <2> QED
    BY <2>1, <2>2, Zenon
<1>6. c \in Seq(CallName) /\ ~ Among("scvm_ready", c)
  <2> DEFINE u == a \o t
  <2>1. u \in Seq(CallName) /\ ~ Among("scvm_ready", u) /\ c = l \o u
    BY <1>4, <1>5
  <2> HIDE DEF u
  <2>2. l \o u \in Seq(CallName) /\ (Among("scvm_ready", l \o u) => Among("scvm_ready", l))
    BY <1>2, <2>1, AmongBoth
  <2> QED
    BY <1>3, <2>1, <2>2
<1>7. c[1] = "ccvm_license"
  BY <1>2, <1>3, <1>4, <1>5
<1>8. LicenseFirst(c)
  BY <1>6, <1>7 DEF LicenseFirst
<1> QED
  BY <1>6, <1>8

\* The bootstrap of the SCVMs waits for no CCVM.
LEMMA SCVMReadyCalls ==
    ASSUME NEW req, NEW c, c = SCVMBootstrapCalls(req)
    PROVE  c \in Seq(CallName) /\ ~ Among("ccvm_ready", c)
<1>1. PICK a \in {<<"scvm_script">>, <<>>} :
        c = a \o <<"scvm_ready", "scvm_license", "scvm_license_status">>
  BY DEF SCVMBootstrapCalls
<1> DEFINE t == <<"scvm_ready", "scvm_license", "scvm_license_status">>
<1>s. /\ <<>> \in Seq(CallName)
      /\ <<"scvm_script">> \in Seq(CallName)
      /\ t \in Seq(CallName)
  BY DEF CallName
<1>2. a \in Seq(CallName) /\ t \in Seq(CallName)
  BY <1>s
<1>3. ~ Among("ccvm_ready", a) /\ ~ Among("ccvm_ready", t)
  BY DEF Among
<1>4. c = a \o t
  BY <1>1 DEF t
<1> HIDE DEF t
<1> QED
  BY <1>2, <1>3, <1>4, AmongBoth

\* The other steps wait for no VM.
LEMMA OtherCalls ==
    ASSUME NEW req, NEW step, NEW c, c = Calls(req, step),
           step \notin {"ccvm_prepare", "scvm_bootstrap", "ccvm_bootstrap"}
    PROVE  /\ c \in Seq(CallName) /\ \A i \in 1..Len(c) : c[i] \notin {"scvm_ready", "ccvm_ready"}
           /\ step = "scvm_prepare" => Among("scvm_health", c)
<1>1. CASE step = "license_apply"
  BY <1>1 DEF Calls, CallName
<1>2. CASE step = "cluster_apply"
  BY <1>2 DEF Calls, CallName
<1>3. CASE step = "scvm_prepare"
  <2>1. c = <<"scvm_cloudinit", "scvm_xml", "scvm_setup", "scvm_health">>
    BY <1>3 DEF Calls
  <2>2. Len(c) = 4 /\ c[4] = "scvm_health" /\ \A i \in 1..4 : c[i] \notin {"scvm_ready", "ccvm_ready"}
    BY <2>1
  <2>3. c \in Seq(CallName)
    BY <2>1 DEF CallName
  <2> QED
    BY <2>2, <2>3 DEF Among
<1>4. CASE step = "rbd_prepare"
  BY <1>4 DEF Calls, CallName
<1>5. CASE step = "storage_prepare"
  <2>1. c = <<"init-pcs-cluster", "configure-stonith", "create-gfs", "set-alert">>
    BY <1>5 DEF Calls
  <2>2. Len(c) = 4 /\ \A i \in 1..4 : c[i] \notin {"scvm_ready", "ccvm_ready"}
    BY <2>1
  <2>3. c \in Seq(CallName)
    BY <2>1 DEF CallName
  <2> QED
    BY <1>5, <2>2, <2>3
<1>6. CASE step = "local_prepare"
  BY <1>6 DEF Calls, CallName
<1>7. CASE step = "monitoring_prepare"
  BY <1>7 DEF Calls, CallName
<1>8. CASE step = "system_profile"
  BY <1>8 DEF Calls, CallName
<1>9. CASE step \notin {"license_apply", "cluster_apply", "scvm_prepare", "scvm_bootstrap",
                        "rbd_prepare", "storage_prepare", "local_prepare", "ccvm_prepare",
                        "ccvm_bootstrap", "monitoring_prepare", "system_profile"}
  <2>1. c = <<>>
    BY <1>9 DEF Calls
  <2> QED
    BY <1>9, <2>1
<1> QED
  BY <1>1, <1>2, <1>3, <1>4, <1>5, <1>6, <1>7, <1>8, <1>9

\* The calls of a preparation end with the health of the VM, only a bootstrap waits for it to be
\* ready, and that of the CCVM registers the license before.
LEMMA CallsFacts ==
    ASSUME NEW req, NEW step
    PROVE  /\ Calls(req, step) \in Seq(CallName)
           /\ step = "scvm_prepare" => Among("scvm_health", Calls(req, step))
           /\ step = "ccvm_prepare" => Among("ccvm_health", Calls(req, step))
           /\ Among("scvm_ready", Calls(req, step)) => step = "scvm_bootstrap"
           /\ Among("ccvm_ready", Calls(req, step)) => step = "ccvm_bootstrap"
           /\ LicenseFirst(Calls(req, step))
<1>1. CASE step = "ccvm_prepare"
  <2>1. Calls(req, step) = CCVMPrepareCalls(req)
    BY <1>1 DEF Calls
  <2> QED
    BY <1>1, <2>1, PrepareCalls DEF LicenseFirst, Among
<1>2. CASE step = "scvm_bootstrap"
  <2>1. Calls(req, step) = SCVMBootstrapCalls(req)
    BY <1>2 DEF Calls
  <2> QED
    BY <1>2, <2>1, SCVMReadyCalls DEF LicenseFirst, Among
<1>3. CASE step = "ccvm_bootstrap"
  <2>1. Calls(req, step) = <<"ccvm_license">> \o CCVMBootstrapCalls(req)
    BY <1>3 DEF Calls
  <2> QED
    BY <1>3, <2>1, CCVMReadyCalls
<1>4. CASE step \notin {"ccvm_prepare", "scvm_bootstrap", "ccvm_bootstrap"}
  BY <1>4, OtherCalls DEF Among, LicenseFirst
<1> QED
  BY <1>1, <1>2, <1>3, <1>4

\* What the calls made so far have shown: a preparation that counts as executed ended with a
\* healthy VM.
Behind(r) ==
    /\ "scvm_prepare" \in r.executed => "scvm_health" \in r.made
    /\ "ccvm_prepare" \in r.executed => "ccvm_health" \in r.made
    /\ "scvm_ready" \in r.made => "scvm_health" \in r.made \/ Explicit(r.req, "scvm_bootstrap")
    /\ "ccvm_ready" \in r.made => /\ "ccvm_health" \in r.made \/ Explicit(r.req, "ccvm_bootstrap")
                                  /\ "ccvm_license" \in r.made

\* What the calls that the step has still to make rest on.
Ahead(r, step) ==
    /\ r.calls \in Seq(CallName)
    /\ step = "scvm_prepare" => "scvm_health" \in r.made \/ Among("scvm_health", r.calls)
    /\ step = "ccvm_prepare" => "ccvm_health" \in r.made \/ Among("ccvm_health", r.calls)
    /\ Among("scvm_ready", r.calls) =>
          "scvm_health" \in r.made \/ Explicit(r.req, "scvm_bootstrap")
    /\ Among("ccvm_ready", r.calls) =>
          "ccvm_health" \in r.made \/ Explicit(r.req, "ccvm_bootstrap")
    /\ "ccvm_license" \in r.made \/ LicenseFirst(r.calls)

StepNow(j) == jobs[j].steps[run[j].at]
Ordered == \A j \in Job : Behind(run[j]) /\ (run[j].pc = "call" => Ahead(run[j], StepNow(j)))

\* Only the goroutine of j has changed, to one that is in order.
InOrder(j, r) ==
    /\ run' = [run EXCEPT ![j] = r]
    /\ \A i \in Job : jobs'[i].steps = jobs[i].steps \/ run'[i].pc # "call"
    /\ Behind(r)
    /\ r.pc = "call" => Ahead(r, jobs[j].steps[r.at])

LEMMA OrderOfRun ==
    ASSUME Inv, Ordered, NEW j \in Job, NEW r, InOrder(j, r)
    PROVE  Ordered'
<1>1. \A i \in Job : run'[i] = IF i = j THEN r ELSE run[i]
  BY DEF Inv, Shape, InOrder
<1> SUFFICES ASSUME NEW i \in Job
             PROVE  Behind(run'[i]) /\ (run'[i].pc = "call" => Ahead(run'[i], jobs'[i].steps[run'[i].at]))
  BY DEF Ordered, StepNow, Behind, Ahead
<1>2. CASE i = j
  BY <1>1, <1>2 DEF InOrder
<1>3. CASE i # j
  BY <1>1, <1>3 DEF InOrder, Ordered, StepNow
<1> QED
  BY <1>2, <1>3

\* A call that succeeds was the first that was left.
LEMMA CallMade ==
    ASSUME NEW r, NEW new, NEW step, Behind(r), Ahead(r, step), r.calls # <<>>,
           new.calls = Tail(r.calls), new.made = r.made \cup {Head(r.calls)},
           new.executed = r.executed, new.req = r.req
    PROVE  Behind(new) /\ Ahead(new, step)
<1> DEFINE call == Head(r.calls)
<1>1. /\ r.calls \in Seq(CallName) /\ Len(r.calls) \in Nat /\ Len(r.calls) > 0
      /\ call = r.calls[1] /\ new.calls \in Seq(CallName) /\ Len(new.calls) = Len(r.calls) - 1
      /\ \A i \in 1..Len(new.calls) : new.calls[i] = r.calls[i + 1]
  BY DEF Ahead
<1>2. \A x : Among(x, r.calls) => x = call \/ Among(x, new.calls)
  <2> SUFFICES ASSUME NEW x, NEW i \in 1..Len(r.calls), r.calls[i] = x, i # 1
               PROVE  Among(x, new.calls)
    BY <1>1 DEF Among
  <2>1. i - 1 \in 1..Len(new.calls) /\ new.calls[i - 1] = x
    BY <1>1
  <2> QED
    BY <2>1 DEF Among
<1>3. \A x : Among(x, new.calls) => Among(x, r.calls)
  BY <1>1 DEF Among
<1>4. Among(call, r.calls)
  BY <1>1 DEF Among
<1>5. "ccvm_license" \in new.made \/ LicenseFirst(new.calls)
  <2> SUFFICES ASSUME call # "ccvm_license", LicenseFirst(r.calls),
                      NEW i \in 1..Len(new.calls), new.calls[i] = "ccvm_ready"
               PROVE  \E k \in 1..(i - 1) : new.calls[k] = "ccvm_license"
    BY DEF Ahead, LicenseFirst
  <2>1. i + 1 \in 1..Len(r.calls) /\ r.calls[i + 1] = "ccvm_ready"
    BY <1>1
  <2>2. PICK k \in 1..i : r.calls[k] = "ccvm_license"
    BY <2>1 DEF LicenseFirst
  <2>3. k # 1 /\ k - 1 \in 1..(i - 1) /\ new.calls[k - 1] = "ccvm_license"
    BY <1>1, <2>2
  <2> QED
    BY <2>3
<1>6. call = "ccvm_ready" => "ccvm_license" \in r.made
  BY <1>1 DEF Ahead, LicenseFirst
<1> HIDE DEF call
<1>7. new.made = r.made \cup {call}
  BY DEF call
<1> QED
  BY <1>1, <1>2, <1>3, <1>4, <1>5, <1>6, <1>7 DEF Behind, Ahead

LEMMA StepOrdered == Inv /\ Ordered /\ [Next]_vars => Ordered'
<1> SUFFICES ASSUME Inv, Ordered, [Next]_vars PROVE Ordered'
  OBVIOUS
<1>0. ASSUME NEW j \in Job PROVE
        /\ {"pc", "at", "os", "calls", "executed", "images", "made", "req"} \subseteq DOMAIN run[j]
        /\ Behind(run[j]) /\ (run[j].pc = "call" => Ahead(run[j], jobs[j].steps[run[j].at]))
  BY DEF Inv, Shape, NoRun, Ordered, StepNow
<1>r. NoRun.pc = "none" /\ Behind(NoRun)
  BY DEF NoRun, Behind
<1>1. ASSUME NEW j \in Job, NEW req \in Request, StartDeployRun(j, req) PROVE Ordered'
  <2> DEFINE r == [NoRun EXCEPT !.pc = "begin", !.req = req]
  <2>1. run' = [run EXCEPT ![j] = r] /\ Busy = {}
    BY <1>1 DEF StartDeployRun, CreateIfIdle
  <2>2. r.pc = "begin" /\ Behind(r)
    BY DEF NoRun, Behind
  <2> HIDE DEF r
  <2>3. \A i \in Job : run'[i].pc # "call"
    BY <2>1, <2>2 DEF Inv, Shape, StatusOfRun, Busy
  <2> QED
    BY <2>1, <2>2, <2>3, OrderOfRun DEF InOrder
<1>2. ASSUME NEW j \in Job, BeginJob(j) PROVE Ordered'
  <2> DEFINE r == [run[j] EXCEPT !.pc = "mark", !.at = 1]
  <2>1. run' = [run EXCEPT ![j] = r]
    BY <1>2 DEF BeginJob
  <2>2. /\ r.pc # "call" /\ r.executed = run[j].executed /\ r.made = run[j].made
        /\ r.req = run[j].req
    BY <1>0, Zenon
  <2> HIDE DEF r
  <2>3. \A i \in Job : jobs'[i].steps = jobs[i].steps
    BY <1>2, UpdateSteps DEF BeginJob
  <2>4. Behind(r)
    BY <1>0, <2>2 DEF Behind
  <2> QED
    BY <2>1, <2>2, <2>3, <2>4, OrderOfRun DEF InOrder
<1>2m. ASSUME NEW j \in Job, MarkStepRunning(j) PROVE Ordered'
  <2> DEFINE r == [run[j] EXCEPT !.pc = "decide"]
  <2>1. run' = [run EXCEPT ![j] = r]
    BY <1>2m DEF MarkStepRunning
  <2>2. /\ r.pc # "call" /\ r.executed = run[j].executed /\ r.made = run[j].made
        /\ r.req = run[j].req
    BY <1>0, Zenon
  <2> HIDE DEF r
  <2>3. \A i \in Job : jobs'[i].steps = jobs[i].steps
    BY <1>2m, UpdateSteps DEF MarkStepRunning
  <2>4. Behind(r)
    BY <1>0, <2>2 DEF Behind
  <2> QED
    BY <2>1, <2>2, <2>3, <2>4, OrderOfRun DEF InOrder
<1>3. ASSUME NEW j \in Job, DecideStep(j) PROVE Ordered'
  <2> DEFINE step == jobs[j].steps[run[j].at]
             d == Decide(run[j].req, step, os, run[j].executed, run[j].images)
             pc == CASE d = "run" -> "call" [] d = "skip" -> "skipped" [] OTHER -> "error"
             calls == IF d = "run" THEN Calls(run[j].req, step) ELSE <<>>
             r == [run[j] EXCEPT !.pc = pc, !.os = os, !.calls = calls]
  <2>1. run' = [run EXCEPT ![j] = r] /\ jobs' = jobs
    BY <1>3 DEF DecideStep
  <2>2. pc = "call" => d = "run" /\ calls = Calls(run[j].req, step)
    OBVIOUS
  <2>3. d = "run" =>
          /\ step = "scvm_bootstrap" =>
               "scvm_prepare" \in run[j].executed \/ Explicit(run[j].req, "scvm_bootstrap")
          /\ step = "ccvm_bootstrap" =>
               "ccvm_prepare" \in run[j].executed \/ Explicit(run[j].req, "ccvm_bootstrap")
    <3>1. CASE step = "scvm_bootstrap"
      BY <3>1 DEF Decide, DecideSCVMBootstrap
    <3>2. CASE step = "ccvm_bootstrap"
      BY <3>2 DEF Decide, DecideCCVMBootstrap
    <3> QED
      BY <3>1, <3>2
  <2> HIDE DEF d, pc, calls
  <2>4. /\ r.pc = pc /\ r.at = run[j].at /\ r.calls = calls /\ r.executed = run[j].executed
        /\ r.made = run[j].made /\ r.req = run[j].req
    BY <1>0, Zenon
  <2> HIDE DEF r
  <2>5. Behind(r)
    BY <1>0, <2>4 DEF Behind
  <2>6. ASSUME pc = "call"
        PROVE  Ahead(r, jobs[j].steps[r.at])
    <3>1. /\ calls \in Seq(CallName)
          /\ step = "scvm_prepare" => Among("scvm_health", calls)
          /\ step = "ccvm_prepare" => Among("ccvm_health", calls)
          /\ Among("scvm_ready", calls) => step = "scvm_bootstrap"
          /\ Among("ccvm_ready", calls) => step = "ccvm_bootstrap"
          /\ LicenseFirst(calls)
      BY <2>2, <2>6, CallsFacts
    <3> QED
      BY <1>0, <2>2, <2>3, <2>4, <2>6, <3>1 DEF Ahead, Behind
  <2> QED
    BY <2>1, <2>4, <2>5, <2>6, OrderOfRun DEF InOrder
<1>4. ASSUME NEW j \in Job, CallSucceeds(j) PROVE Ordered'
  <2> DEFINE call == Head(run[j].calls)
             tail == Tail(run[j].calls)
             made == run[j].made \cup {call}
             images == run[j].images \/ call = "rbd_map"
             r == [run[j] EXCEPT !.calls = tail, !.made = made, !.images = images]
  <2>1. /\ run' = [run EXCEPT ![j] = r] /\ jobs' = jobs
        /\ run[j].pc = "call" /\ run[j].calls # <<>>
    BY <1>4 DEF CallSucceeds
  <2>2. tail = Tail(run[j].calls) /\ made = run[j].made \cup {Head(run[j].calls)}
    OBVIOUS
  <2> HIDE DEF tail, made, images
  <2>3. /\ r.at = run[j].at /\ r.calls = tail /\ r.made = made
        /\ r.executed = run[j].executed /\ r.req = run[j].req
    BY <1>0, Zenon
  <2> HIDE DEF r, call
  <2>4. Behind(r) /\ Ahead(r, jobs[j].steps[r.at])
    BY <1>0, <2>1, <2>2, <2>3, CallMade
  <2> QED
    BY <2>1, <2>4, OrderOfRun DEF InOrder
<1>5. ASSUME NEW j \in Job, NEW applied \in BOOLEAN, CallFails(j, applied) PROVE Ordered'
  <2> DEFINE r == [run[j] EXCEPT !.pc = "error"]
  <2>1. run' = [run EXCEPT ![j] = r] /\ jobs' = jobs
    BY <1>5 DEF CallFails
  <2>2. /\ r.pc = "error" /\ r.executed = run[j].executed /\ r.made = run[j].made
        /\ r.req = run[j].req
    BY <1>0, Zenon
  <2> HIDE DEF r
  <2>3. Behind(r)
    BY <1>0, <2>2 DEF Behind
  <2> QED
    BY <2>1, <2>2, <2>3, OrderOfRun DEF InOrder
<1>6. ASSUME NEW j \in Job, FinishStep(j) PROVE Ordered'
  <2> DEFINE ok == run[j].pc = "call" /\ run[j].calls = <<>>
             step == jobs[j].steps[run[j].at]
             ex == IF ok THEN run[j].executed \cup {step} ELSE run[j].executed
             r == [run[j] EXCEPT !.pc = "mark", !.at = run[j].at + 1, !.os = NoConfig,
                                 !.executed = ex]
             res == [jobs[j].result EXCEPT ![run[j].at] = IF ok THEN "succeeded" ELSE "skipped"]
  <2>1. run' = [run EXCEPT ![j] = r] /\ Update(j, jobs[j].status, res)
    BY <1>6 DEF FinishStep
  <2>2. /\ "scvm_prepare" \in ex => "scvm_health" \in run[j].made
        /\ "ccvm_prepare" \in ex => "ccvm_health" \in run[j].made
    <3>1. CASE ok
      <4>1. \A x : ~Among(x, run[j].calls)
        BY <3>1 DEF Among
      <4> QED
        BY <1>0, <3>1, <4>1 DEF Behind, Ahead
    <3>2. CASE ~ok
      BY <1>0, <3>2 DEF Behind
    <3> QED
      BY <3>1, <3>2
  <2> HIDE DEF ok, ex, res
  <2>3. \A i \in Job : jobs'[i].steps = jobs[i].steps
    BY <2>1, UpdateSteps
  <2>4. /\ r.pc = "mark" /\ r.executed = ex /\ r.made = run[j].made /\ r.req = run[j].req
    BY <1>0, Zenon
  <2> HIDE DEF r
  <2>5. Behind(r)
    BY <1>0, <2>2, <2>4 DEF Behind
  <2> QED
    BY <2>1, <2>3, <2>4, <2>5, OrderOfRun DEF InOrder
<1>7. ASSUME NEW j \in Job, FailStep(j) \/ FinishJob(j) PROVE Ordered'
  <2>1. run' = [run EXCEPT ![j] = NoRun]
    BY <1>7 DEF FailStep, FinishJob
  <2>2. \A i \in Job : jobs'[i].steps = jobs[i].steps
    BY <1>7, UpdateSteps DEF FailStep, FinishJob
  <2> QED
    BY <1>r, <2>1, <2>2, OrderOfRun DEF InOrder
<1>8. CASE UNCHANGED <<jobs, run>>
  BY <1>8 DEF Ordered, StepNow
<1>9. CASE Restart
  BY <1>9, <1>r DEF Restart, Ordered
<1> QED
  BY <1>1, <1>2, <1>2m, <1>3, <1>4, <1>5, <1>6, <1>7, <1>8, <1>9
  DEF Next, RunnerStep, ClusterRewritten, vars

\* A VM is bootstrapped in a job only after it was found healthy at the end of its preparation
\* there, unless the request named the bootstrap, and the script of the CCVM runs only with its
\* license: the steps a job has executed are remembered only when their last call has succeeded.
THEOREM BootstrapSafe == Spec => []BootstrapAfterPrepare
<1>1. Init => Ordered
  BY DEF Init, NoRun, Ordered, Behind
<1>2. Ordered => BootstrapAfterPrepare
  BY DEF Ordered, Behind, BootstrapAfterPrepare, Running
<1>3. Spec => []Ordered
  BY <1>1, StepOrdered, Invariance, PTL DEF Spec
<1> QED
  BY <1>2, <1>3, PTL
=============================================================================
