------------------------- MODULE MoldBootstrapProofs -------------------------
(***************************************************************************)
(* The bootstrap of Mold, for any number of jobs and any host lists: a job *)
(* that is alone, and that none left a command of, creates nothing twice;  *)
(* and whatever jobs overlap, none lacks an id, a host that is added has   *)
(* its key, and a job that succeeds has left all it was asked for.         *)
(***************************************************************************)
EXTENDS MoldBootstrap, TLAPS

Fields == {"pc", "req", "todo", "items", "missing", "targets", "ids"}

Shape ==
    /\ DOMAIN run = Job /\ \A j \in Job : DOMAIN run[j] = Fields
    /\ DOMAIN cmd = Job /\ \A j \in Job : DOMAIN cmd[j] = {"thing", "state"}
    /\ DOMAIN status = Job

\* What a job without another one knows: what it misses is not in Mold, and neither is what
\* Mold is at work on, which is no other thing that the job still misses.
Misses(r, c, there) ==
    /\ r.pc \in {"apply", "poll", "verify"} => r.missing \cap there = {}
    /\ c.state = "sent" => /\ r.pc \in {"poll", "verify"}
                           /\ c.thing \notin there \cup r.missing

Alone ==
    ~raced => /\ ~twice
              /\ \A i, j \in Job : run[i].pc # "none" /\ run[j].pc # "none" => i = j
              /\ \A j \in Job : Misses(run[j], cmd[j], mold)

LEMMA NoRunShape == /\ DOMAIN NoRun = Fields /\ NoRun.pc = "none"
                    /\ DOMAIN NoCmd = {"thing", "state"} /\ NoCmd.state = "none"
  BY DEF NoRun, NoCmd, Fields

\* A goroutine moves on, or forgets its command.
LEMMA JobMoves ==
    ASSUME Shape, Alone, NEW j \in Job,
           \/ run[j].pc # "none" \/ raced'
           \/ \A i \in Job : run[i].pc = "none",
           NEW r, DOMAIN r = Fields, run' = [run EXCEPT ![j] = r],
           NEW c, DOMAIN c = {"thing", "state"}, cmd'[j] = c,
           DOMAIN cmd' = Job, \A i \in Job \ {j} : cmd'[i] = cmd[i],
           DOMAIN status' = Job, mold' = mold, twice' = twice, raced => raced',
           ~raced /\ ~raced' => Misses(r, c, mold)
    PROVE  Shape' /\ Alone'
<1>1. /\ run'[j] = r /\ cmd'[j] = c
      /\ \A i \in Job \ {j} : run'[i] = run[i] /\ cmd'[i] = cmd[i]
  BY DEF Shape
<1>2. Shape'
  BY <1>1 DEF Shape
<1>3. ASSUME ~raced'
      PROVE  /\ \A i, k \in Job : run'[i].pc # "none" /\ run'[k].pc # "none" => i = k
             /\ \A i \in Job : Misses(run'[i], cmd'[i], mold')
  <2>1. \A i \in Job \ {j} : run[i].pc = "none"
    BY <1>3 DEF Alone
  <2>2. ASSUME NEW i \in Job PROVE Misses(run'[i], cmd'[i], mold')
    BY <1>1, <1>3 DEF Alone
  <2> QED
    BY <1>1, <2>1, <2>2
<1> QED
  BY <1>2, <1>3 DEF Alone

\* NextStep and NextItem change the record of the job only.
LEMMA NextStepShape ==
    ASSUME NEW r, DOMAIN r = Fields, NEW n, n = NextStep(r)
    PROVE  /\ DOMAIN n = Fields /\ n.pc = "step" /\ n.todo = Tail(r.todo)
           /\ n.items = (IF Len(r.todo) > 1 THEN Items(r.todo[2], r.req) ELSE <<>>)
           /\ n.req = r.req /\ n.ids = r.ids
  BY DEF NextStep, Fields

\* The ids that an item leaves in the runtime.
Ids(item) == {t[1] : t \in {u \in ToSet(item) :
                              u[1] \in {"zone", "physical_network", "pod", "cluster"}}}

LEMMA NextItemShape ==
    ASSUME NEW r, DOMAIN r = Fields, NEW n, n = NextItem(r)
    PROVE  /\ DOMAIN n = Fields /\ n.pc = "step" /\ n.req = r.req
           /\ n.ids = r.ids \cup Ids(Head(r.items))
           /\ IF Len(r.items) > 1
              THEN n.todo = r.todo /\ n.items = Tail(r.items)
              ELSE /\ n.todo = Tail(r.todo)
                   /\ n.items = (IF Len(r.todo) > 1 THEN Items(r.todo[2], r.req) ELSE <<>>)
<1>1. PICK ids : ids = r.ids \cup Ids(Head(r.items))
  OBVIOUS
<1>2. PICK f : f = [r EXCEPT !.pc = "step", !.items = Tail(r.items), !.ids = ids]
  OBVIOUS
<1>3. /\ DOMAIN f = Fields /\ f.pc = "step" /\ f.req = r.req /\ f.ids = ids
      /\ f.todo = r.todo /\ f.items = Tail(r.items)
  BY <1>2 DEF Fields
<1>4. n = IF Len(r.items) > 1 THEN f ELSE NextStep(f)
  BY <1>1, <1>2 DEF NextItem, Ids
<1>5. CASE Len(r.items) > 1
  BY <1>1, <1>3, <1>4, <1>5
<1>6. CASE ~(Len(r.items) > 1)
  <2>1. n = NextStep(f)
    BY <1>4, <1>6
  <2> QED
    BY <1>1, <1>3, <1>6, <2>1, NextStepShape
<1> QED
  BY <1>5, <1>6

LEMMA StepAlone == Shape /\ Alone /\ [Next]_vars => Shape' /\ Alone'
<1> SUFFICES ASSUME Shape, Alone, [Next]_vars PROVE Shape' /\ Alone'
  OBVIOUS
<1>0. ASSUME NEW j \in Job, run[j].pc \notin {"poll", "verify"}, ~raced
      PROVE  cmd[j].state # "sent"
  BY <1>0 DEF Alone, Misses
<1>1. ASSUME NEW j \in Job, NEW staging \in Staging, StartBootstrap(j, staging)
      PROVE  Shape' /\ Alone'
  <2>1. PICK r : /\ run' = [run EXCEPT ![j] = r]
                 /\ r = [NoRun EXCEPT !.pc = "begin", !.req = Prepared(staging),
                                      !.todo = Plan(Prepared(staging))]
    BY <1>1 DEF StartBootstrap
  <2>2. DOMAIN r = Fields /\ r.pc = "begin"
    BY <2>1 DEF NoRun, Fields
  <2>3. /\ cmd' = cmd /\ UNCHANGED <<mold, twice>> /\ (raced => raced')
        /\ raced' \/ \A i \in Job : run[i].pc = "none"
        /\ DOMAIN status' = Job
    BY <1>1 DEF StartBootstrap, external, Alive
  <2>4. DOMAIN cmd' = Job /\ DOMAIN cmd[j] = {"thing", "state"}
    BY <2>3 DEF Shape
  <2>5. ~raced /\ ~raced' => Misses(r, cmd[j], mold)
    BY <1>0, <2>2, <2>3 DEF Misses
  <2> QED
    BY <2>1, <2>2, <2>3, <2>4, <2>5, JobMoves
\* Steps that leave the command of the job alone.
<1>2. ASSUME NEW j \in Job, NEW r, DOMAIN r = Fields, run' = [run EXCEPT ![j] = r],
             run[j].pc \notin {"none", "poll", "verify"}, DOMAIN status' = DOMAIN status,
             UNCHANGED <<cmd, mold, twice, raced>>,
             r.pc \in {"none", "begin", "step", "keys"} \/ (r.pc = "apply" /\ r.missing \cap mold = {})
      PROVE  Shape' /\ Alone'
  <2>1. /\ DOMAIN cmd' = Job /\ DOMAIN cmd[j] = {"thing", "state"}
        /\ DOMAIN status' = Job
    BY <1>2 DEF Shape
  <2>2. ~raced => Misses(r, cmd[j], mold)
    BY <1>0, <1>2 DEF Misses
  <2> QED
    BY <1>2, <2>1, <2>2, JobMoves
<1>3. ASSUME NEW j \in Job, Begin(j) \/ Finish(j) PROVE Shape' /\ Alone'
  <2>1. PICK r : /\ run' = [run EXCEPT ![j] = r]
                 /\ r = NoRun \/ r = [run[j] EXCEPT !.pc = "step"]
    BY <1>3 DEF Begin, Finish
  <2>2. DOMAIN r = Fields /\ r.pc \in {"none", "step"}
    <3>1. CASE r = NoRun
      BY <3>1, NoRunShape
    <3>2. CASE r = [run[j] EXCEPT !.pc = "step"]
      BY <3>2 DEF Shape, Fields
    <3> QED
      BY <2>1, <3>1, <3>2
  <2>3. /\ UNCHANGED <<cmd, mold, twice, raced>> /\ run[j].pc \notin {"none", "poll", "verify"}
        /\ DOMAIN status' = DOMAIN status
    BY <1>3 DEF Begin, Finish, Update, external
  <2> QED
    BY <1>2, <2>1, <2>2, <2>3
<1>4. ASSUME NEW j \in Job, Connect(j) \/ WaitSystemVMRunning(j) \/ FinalHealthCheck(j)
      PROVE  Shape' /\ Alone'
  <2>1. /\ run' = [run EXCEPT ![j] = NextStep(run[j])] /\ run[j].pc = "step"
        /\ UNCHANGED <<cmd, mold, twice, raced>> /\ UNCHANGED status
    BY <1>4 DEF Connect, WaitSystemVMRunning, FinalHealthCheck, At, external
  <2>2. PICK r : r = NextStep(run[j])
    OBVIOUS
  <2>3. DOMAIN r = Fields /\ r.pc = "step"
    BY <2>2, NextStepShape DEF Shape
  <2> QED
    BY <1>2, <2>1, <2>2, <2>3
<1>5. ASSUME NEW j \in Job, Find(j) PROVE Shape' /\ Alone'
  <2>1. /\ run[j].pc = "step" /\ UNCHANGED <<cmd, mold, twice, raced>> /\ UNCHANGED status
    BY <1>5 DEF Find, At, external
  <2>2. PICK absent : absent = Absent(Head(run[j].items))
    OBVIOUS
  <2>3. PICK r : /\ run' = [run EXCEPT ![j] = r]
                 /\ r = IF absent = {} THEN NextItem(run[j])
                        ELSE [run[j] EXCEPT !.pc = "apply", !.missing = absent]
    BY <1>5, <2>2 DEF Find
  <2>4. absent \cap mold = {}
    BY <2>2 DEF Absent, There
  <2>5. CASE absent = {}
    <3>1. r = NextItem(run[j])
      BY <2>3, <2>5
    <3>2. DOMAIN r = Fields /\ r.pc = "step"
      BY <3>1, NextItemShape DEF Shape
    <3> QED
      BY <1>2, <2>1, <2>3, <3>2
  <2>6. CASE absent # {}
    <3>1. r = [run[j] EXCEPT !.pc = "apply", !.missing = absent]
      BY <2>3, <2>6
    <3>2. DOMAIN r = Fields /\ r.pc = "apply" /\ r.missing = absent
      BY <3>1 DEF Shape, Fields
    <3> QED
      BY <1>2, <2>1, <2>3, <2>4, <3>2
  <2> QED
    BY <2>5, <2>6
<1>6. ASSUME NEW j \in Job, Apply(j) PROVE Shape' /\ Alone'
  <2>1. PICK t : /\ t \in run[j].missing
                 /\ cmd' = [cmd EXCEPT ![j] = [thing |-> t, state |-> "sent"]]
                 /\ run' = [run EXCEPT ![j].missing = run[j].missing \ {t},
                                       ![j].pc = IF run[j].missing = {t} THEN "verify" ELSE "poll"]
    BY <1>6 DEF Apply
  <2>2. PICK pc, missing : /\ pc = (IF run[j].missing = {t} THEN "verify" ELSE "poll")
                           /\ missing = run[j].missing \ {t}
    OBVIOUS
  <2>3. PICK r : r = [run[j] EXCEPT !.missing = missing, !.pc = pc]
    OBVIOUS
  <2>4. DOMAIN r = Fields /\ r.pc \in {"verify", "poll"} /\ r.missing = missing
    BY <2>2, <2>3 DEF Shape, Fields
  <2>5. run' = [run EXCEPT ![j] = r]
    BY <2>1, <2>2, <2>3 DEF Shape, Fields
  <2>6. PICK c : c = [thing |-> t, state |-> "sent"]
    OBVIOUS
  <2>7. DOMAIN c = {"thing", "state"} /\ c.thing = t /\ c.state = "sent"
    BY <2>6
  <2>8. /\ run[j].pc = "apply" /\ UNCHANGED <<mold, twice, raced>> /\ DOMAIN status' = Job
        /\ DOMAIN cmd' = Job /\ cmd'[j] = c /\ \A i \in Job \ {j} : cmd'[i] = cmd[i]
    BY <1>6, <2>1, <2>6 DEF Apply, external, Shape
  <2>9. ~raced => Misses(r, c, mold)
    <3>1. ~raced => run[j].missing \cap mold = {}
      BY <2>8 DEF Alone, Misses
    <3> QED
      BY <2>1, <2>2, <2>4, <2>7, <3>1 DEF Misses
  <2> QED
    BY <2>4, <2>5, <2>7, <2>8, <2>9, JobMoves
<1>7. ASSUME NEW j \in Job, LoadTargets(j) \/ RegisterKey(j) PROVE Shape' /\ Alone'
  <2>1. /\ run[j].pc \in {"step", "keys"} /\ UNCHANGED <<cmd, mold, twice, raced>> /\ UNCHANGED status
    BY <1>7 DEF LoadTargets, RegisterKey, At, external
  <2>2. PICK r : /\ run' = [run EXCEPT ![j] = r]
                 /\ \/ r = NextStep(run[j])
                    \/ r = [run[j] EXCEPT !.pc = "keys", !.targets = hosts]
                    \/ r = [run[j] EXCEPT !.targets = Tail(run[j].targets)]
    <3>1. CASE LoadTargets(j)
      BY <3>1 DEF LoadTargets, Shape, Fields
    <3>2. CASE RegisterKey(j)
      BY <3>2 DEF RegisterKey, Shape, Fields
    <3> QED
      BY <1>7, <3>1, <3>2
  <2>3. DOMAIN r = Fields /\ r.pc \in {"step", "keys"}
    <3>1. CASE r = NextStep(run[j])
      BY <3>1, NextStepShape DEF Shape
    <3>2. CASE r # NextStep(run[j])
      BY <2>1, <2>2, <3>2 DEF Shape, Fields
    <3> QED
      BY <3>1, <3>2
  <2> QED
    BY <1>2, <2>1, <2>2, <2>3
<1>8. ASSUME NEW j \in Job, Poll(j) \/ Verify(j) \/ Fail(j) PROVE Shape' /\ Alone'
  <2>1. PICK r : /\ run' = [run EXCEPT ![j] = r]
                 /\ \/ Poll(j) /\ r = [run[j] EXCEPT !.pc = "apply"]
                    \/ Verify(j) /\ r = NextItem(run[j])
                    \/ Fail(j) /\ r = NoRun
    <3>1. CASE Poll(j)
      BY <3>1 DEF Poll
    <3>2. CASE Verify(j)
      BY <3>2 DEF Verify
    <3>3. CASE Fail(j)
      BY <3>3 DEF Fail
    <3> QED
      BY <1>8, <3>1, <3>2, <3>3
  <2>2. /\ DOMAIN r = Fields
        /\ \/ r.pc = "apply" /\ r.missing = run[j].missing /\ run[j].pc = "poll"
           \/ r.pc \in {"step", "none"}
    <3>1. CASE Poll(j) /\ r = [run[j] EXCEPT !.pc = "apply"]
      BY <3>1 DEF Poll, Shape, Fields
    <3>2. CASE r = NextItem(run[j])
      BY <3>2, NextItemShape DEF Shape
    <3>3. CASE r = NoRun
      BY <3>3, NoRunShape
    <3> QED
      BY <2>1, <3>1, <3>2, <3>3
  <2>3. /\ run[j].pc # "none" /\ UNCHANGED <<mold, twice>> /\ (raced => raced')
        /\ DOMAIN status' = Job /\ Forget(j)
        /\ ~raced' => cmd[j].state # "sent"
    <3>1. CASE Poll(j) \/ Verify(j)
      BY <3>1 DEF Poll, Verify, external, Shape
    <3>2. CASE Fail(j)
      BY <3>2 DEF Fail, Update, external, Shape
    <3> QED
      BY <1>8, <3>1, <3>2
  <2>4. PICK c : /\ cmd' = [cmd EXCEPT ![j] = c]
                 /\ c = NoCmd \/ (c = cmd[j] /\ c.state = "sent")
    BY <2>3 DEF Forget, Shape
  <2>5. /\ DOMAIN c = {"thing", "state"} /\ (~raced' => c.state # "sent")
        /\ DOMAIN cmd' = Job /\ cmd'[j] = c /\ \A i \in Job \ {j} : cmd'[i] = cmd[i]
    BY <2>3, <2>4, NoRunShape DEF Shape
  <2>6. ~raced /\ ~raced' => Misses(r, c, mold)
    BY <2>2, <2>5 DEF Misses, Alone
  <2> QED
    BY <2>1, <2>2, <2>3, <2>4, <2>5, <2>6, JobMoves
<1>9. ASSUME NEW j \in Job, MoldDoes(j) \/ MoldRefuses(j) PROVE Shape' /\ Alone'
  <2>1. PICK c : /\ cmd' = [cmd EXCEPT ![j] = c]
                 /\ c = NoCmd \/ \E result \in {"done", "refused"} : c = [cmd[j] EXCEPT !.state = result]
    BY <1>9 DEF MoldDoes, MoldRefuses, Answer, Shape
  <2>2. DOMAIN c = {"thing", "state"} /\ c.state # "sent"
    <3>1. CASE c = NoCmd
      BY <3>1, NoRunShape
    <3>2. ASSUME NEW result \in {"done", "refused"}, c = [cmd[j] EXCEPT !.state = result]
          PROVE  DOMAIN c = {"thing", "state"} /\ c.state # "sent"
      BY <3>2 DEF Shape
    <3> QED
      BY <2>1, <3>1, <3>2
  <2>3. /\ cmd'[j] = c /\ \A i \in Job \ {j} : cmd'[i] = cmd[i]
        /\ DOMAIN cmd' = Job
    BY <2>1 DEF Shape
  <2>4. /\ cmd[j].state = "sent" /\ UNCHANGED <<status, run, raced>>
        /\ \/ mold' = mold \cup {cmd[j].thing}
              /\ twice' = (twice \/ cmd[j].thing \in Creatable \cap mold)
           \/ UNCHANGED <<mold, twice>>
    BY <1>9 DEF MoldDoes, MoldRefuses, external
  <2>5. Shape'
    BY <2>2, <2>3, <2>4 DEF Shape
  <2>6. ASSUME ~raced PROVE ~twice' /\ \A i \in Job : Misses(run[i], cmd'[i], mold')
    <3>1. /\ cmd[j].thing \notin mold \cup run[j].missing /\ run[j].pc # "none" /\ ~twice
          /\ \A i \in Job \ {j} : run[i].pc = "none" /\ cmd[i].state # "sent"
      BY <2>4, <2>6 DEF Alone, Misses
    <3>2. ~twice'
      BY <2>4, <3>1
    <3>3. Misses(run[j], cmd'[j], mold')
      BY <2>2, <2>3, <2>4, <2>6, <3>1 DEF Alone, Misses
    <3>4. \A i \in Job \ {j} : Misses(run[i], cmd'[i], mold')
      BY <2>3, <3>1 DEF Misses
    <3> QED
      BY <3>2, <3>3, <3>4
  <2> QED
    BY <2>4, <2>5, <2>6 DEF Alone
<1>10. CASE UNCHANGED <<status, run, cmd, mold, twice, raced>>
  BY <1>10 DEF Shape, Alone
<1> QED
  BY <1>1, <1>3, <1>4, <1>5, <1>6, <1>7, <1>8, <1>9, <1>10
  DEF Next, JobStep, SystemVMsStart, ClusterChanged, vars

LEMMA InitAlone == Init => Shape /\ Alone
  BY NoRunShape DEF Init, Shape, Alone, Misses

\* Mold creates nothing a second time, however often a bootstrap is repeated after failures at
\* any point, unless two jobs were alive at once or one ended while Mold worked for it
\* (the find, applyCommand and pollAsyncJob of each ensure function).
THEOREM CreatesOnce == Spec => []NothingTwice
<1>1. Shape /\ Alone => NothingTwice
  BY DEF Alone, NothingTwice
<1> QED
  BY <1>1, InitAlone, StepAlone, PTL DEF Spec
-----------------------------------------------------------------------------
(* The way through the plan                                                 *)

StepName == {"wait_mold_api_ready", "login_admin", "create_zone", "create_physical_network",
             "add_traffic_types", "enable_physical_network", "enable_network_providers",
             "create_pod", "create_public_ip_range", "create_cluster", "sync_host_ssh_trust",
             "add_host", "add_primary_storage", "add_secondary_storage",
             "add_secondary_staging_store", "enable_zone", "wait_system_vm_running",
             "final_health_check"}
\* Steps that ensure nothing in Mold.
Plain == {"wait_mold_api_ready", "login_admin", "sync_host_ssh_trust", "wait_system_vm_running",
          "final_health_check"}

\* The steps that leave an id, and the ids.
Id == {"zone", "physical_network", "pod", "cluster"}
Creator == [zone |-> "create_zone", physical_network |-> "create_physical_network",
            pod |-> "create_pod", cluster |-> "create_cluster"]

\* What has to come before a step.
Needs(step) ==
    {Creator[y] : y \in Requires(step) \cap Id}
    \cup IF step = "add_host" THEN {"sync_host_ssh_trust"} ELSE {}

Left(step, todo) == \E i \in 1..Len(todo) : todo[i] = step
InOrder(todo) == \A p, q \in 1..Len(todo) : p <= q => todo[q] \notin Needs(todo[p])

Rank(step) ==
    CASE step = "wait_mold_api_ready" -> 1 [] step = "login_admin" -> 2
      [] step = "create_zone" -> 3 [] step = "create_physical_network" -> 4
      [] step = "add_traffic_types" -> 5 [] step = "enable_physical_network" -> 6
      [] step = "enable_network_providers" -> 7 [] step = "create_pod" -> 8
      [] step = "create_public_ip_range" -> 9 [] step = "create_cluster" -> 10
      [] step = "sync_host_ssh_trust" -> 11 [] step = "add_host" -> 12
      [] step = "add_primary_storage" -> 13 [] step = "add_secondary_storage" -> 14
      [] step = "add_secondary_staging_store" -> 15 [] step = "enable_zone" -> 16
      [] step = "wait_system_vm_running" -> 17 [] step = "final_health_check" -> 18

LEMMA NeedsRank == \A step \in StepName : \A n \in Needs(step) : Rank(n) < Rank(step)
<1> SUFFICES ASSUME NEW step \in StepName, NEW n \in Needs(step)
             PROVE  Rank(n) < Rank(step)
  OBVIOUS
<1>1. CASE step = "add_host" /\ n = "sync_host_ssh_trust"
  BY <1>1 DEF Rank
<1>2. ASSUME NEW y \in Requires(step) \cap Id, n = Creator[y]
      PROVE  Rank(n) < Rank(step)
  <2>1. n = (CASE y = "zone" -> "create_zone" [] y = "physical_network" -> "create_physical_network"
               [] y = "pod" -> "create_pod" [] y = "cluster" -> "create_cluster")
    BY <1>2 DEF Creator, Id
  <2>2. CASE y = "zone"
    BY <1>2, <2>1, <2>2 DEF Requires, StepName, Rank
  <2>3. CASE y = "physical_network"
    BY <1>2, <2>1, <2>3 DEF Requires, StepName, Rank
  <2>4. CASE y = "pod"
    BY <1>2, <2>1, <2>4 DEF Requires, StepName, Rank
  <2>5. CASE y = "cluster"
    BY <1>2, <2>1, <2>5 DEF Requires, StepName, Rank
  <2> QED
    BY <2>2, <2>3, <2>4, <2>5 DEF Id
<1> QED
  BY <1>1, <1>2 DEF Needs

First == <<"wait_mold_api_ready", "login_admin", "create_zone", "create_physical_network",
           "add_traffic_types", "enable_physical_network", "enable_network_providers", "create_pod",
           "create_public_ip_range", "create_cluster", "sync_host_ssh_trust", "add_host",
           "add_primary_storage", "add_secondary_storage">>
Last3 == <<"enable_zone", "wait_system_vm_running", "final_health_check">>

LEMMA FirstFacts ==
    /\ First \in Seq(StepName) /\ Len(First) = 14 /\ First[1] = "wait_mold_api_ready"
    /\ \A i \in 1..14 : Rank(First[i]) = i
<1>1. First \in Seq(StepName)
  BY DEF First, StepName
<1>2. Len(First) = 14 /\ First[1] = "wait_mold_api_ready"
  BY DEF First
<1>3. \A i \in 1..7 : Rank(First[i]) = i
  BY DEF First, Rank
<1>4. \A i \in 8..14 : Rank(First[i]) = i
  BY DEF First, Rank
<1> QED
  BY <1>1, <1>2, <1>3, <1>4

LEMMA Last3Facts ==
    /\ Last3 \in Seq(StepName) /\ Len(Last3) = 3
    /\ \A i \in 1..3 : Rank(Last3[i]) = 15 + i
    /\ Last3[1] = "enable_zone" /\ Last3[2] = "wait_system_vm_running"
    /\ Last3[3] = "final_health_check"
  BY DEF Last3, StepName, Rank

LEMMA Concat ==
    ASSUME NEW s \in Seq(StepName), NEW t \in Seq(StepName)
    PROVE  /\ s \o t \in Seq(StepName) /\ Len(s \o t) = Len(s) + Len(t)
           /\ \A i \in 1..Len(s) : (s \o t)[i] = s[i]
           /\ \A i \in 1..Len(t) : (s \o t)[Len(s) + i] = t[i]
  OBVIOUS

\* The plan puts every step after those it needs and ends with the checks.
LEMMA PlanFacts ==
    ASSUME NEW req, NEW plan, plan = Plan(req)
    PROVE  /\ plan \in Seq(StepName) /\ InOrder(plan) /\ Left("enable_zone", plan)
           /\ Left("wait_system_vm_running", plan) /\ Left("final_health_check", plan)
           /\ Left("sync_host_ssh_trust", plan) /\ \A y \in Id : Left(Creator[y], plan)
           /\ plan # <<>> /\ plan[1] = "wait_mold_api_ready"
<1>1. PICK m : /\ m = IF req.staging THEN <<"add_secondary_staging_store">> ELSE <<>>
               /\ plan = (First \o m) \o Last3
  BY DEF Plan, First, Last3
<1>2. /\ m \in Seq(StepName)
      /\ Len(m) = 0 \/ (Len(m) = 1 /\ m[1] = "add_secondary_staging_store")
  <2>1. CASE m = <<>>
    BY <2>1
  <2>2. CASE m = <<"add_secondary_staging_store">>
    BY <2>2 DEF StepName
  <2> QED
    BY <1>1, <2>1, <2>2
<1> DEFINE f == First \o m
<1>3. /\ f \in Seq(StepName) /\ Len(f) = 14 + Len(m)
      /\ \A i \in 1..14 : f[i] = First[i]
      /\ \A i \in 1..Len(m) : f[14 + i] = m[i]
  <2>1. /\ f \in Seq(StepName) /\ Len(f) = Len(First) + Len(m)
        /\ \A i \in 1..Len(First) : f[i] = First[i]
        /\ \A i \in 1..Len(m) : f[Len(First) + i] = m[i]
    BY <1>2, FirstFacts, Concat
  <2> QED
    BY <2>1, FirstFacts
<1>4. /\ plan \in Seq(StepName) /\ Len(plan) = 17 + Len(m)
      /\ \A i \in 1..(14 + Len(m)) : plan[i] = f[i]
      /\ \A i \in 1..3 : plan[14 + Len(m) + i] = Last3[i]
  <2> HIDE DEF f
  <2>1. plan = f \o Last3
    BY <1>1 DEF f
  <2>2. /\ f \o Last3 \in Seq(StepName) /\ Len(f \o Last3) = Len(f) + Len(Last3)
        /\ \A i \in 1..Len(f) : (f \o Last3)[i] = f[i]
        /\ \A i \in 1..Len(Last3) : (f \o Last3)[Len(f) + i] = Last3[i]
    <3>1. f \in Seq(StepName) /\ Last3 \in Seq(StepName)
      BY <1>3, Last3Facts
    <3> QED
      BY ONLY <3>1, Concat
  <2>3. Len(plan) = 17 + Len(m)
    BY <1>2, <1>3, <2>1, <2>2, Last3Facts
  <2> QED
    BY <1>3, <2>1, <2>2, <2>3, Last3Facts
<1> HIDE DEF f
<1>5. ASSUME NEW i \in 1..14
      PROVE  i \in 1..Len(plan) /\ plan[i] = First[i] /\ Rank(plan[i]) = i
  <2>1. i \in 1..Len(plan) /\ i \in 1..(14 + Len(m))
    BY <1>2, <1>4
  <2>2. plan[i] = First[i]
    BY <1>3, <1>4, <2>1
  <2> QED
    BY <2>1, <2>2, FirstFacts
<1>6. ASSUME NEW i \in 1..3
      PROVE  /\ 14 + Len(m) + i \in 1..Len(plan) /\ plan[14 + Len(m) + i] = Last3[i]
             /\ Rank(plan[14 + Len(m) + i]) = 15 + i
  BY <1>2, <1>4, Last3Facts
<1>7. ASSUME NEW i \in 15..Len(plan)
      PROVE  Rank(plan[i]) = i + 1 - Len(m)
  <2>1. CASE i = 15 /\ Len(m) = 1
    <3>1. plan[15] = "add_secondary_staging_store"
      <4>1. 15 \in 1..(14 + Len(m)) /\ 1 \in 1..Len(m)
        BY <2>1
      <4> QED
        BY <1>2, <1>3, <1>4, <2>1, <4>1
    <3> QED
      BY <2>1, <3>1 DEF Rank
  <2>2. CASE i - 14 - Len(m) \in 1..3
    <3>1. 14 + Len(m) + (i - 14 - Len(m)) = i
      BY <1>2
    <3>2. Rank(plan[14 + Len(m) + (i - 14 - Len(m))]) = 15 + (i - 14 - Len(m))
      BY <1>6, <2>2
    <3> QED
      BY <1>2, <3>1, <3>2
  <2>3. i - 14 - Len(m) \in 1..3 \/ (i = 15 /\ Len(m) = 1)
    <3>1. CASE Len(m) = 0
      BY <1>4, <3>1
    <3>2. CASE Len(m) = 1
      BY <1>4, <3>2
    <3> QED
      BY <1>2, <3>1, <3>2
  <2> QED
    BY <2>1, <2>2, <2>3
<1>8. InOrder(plan)
  <2> SUFFICES ASSUME NEW p \in 1..Len(plan), NEW q \in 1..Len(plan), p <= q,
                      plan[q] \in Needs(plan[p])
               PROVE  FALSE
    BY DEF InOrder
  <2>1. Rank(plan[q]) < Rank(plan[p])
    BY <1>4, NeedsRank
  <2>2. CASE q \in 1..14
    <3>1. p \in 1..14
      BY <2>2
    <3>2. Rank(plan[p]) = p /\ Rank(plan[q]) = q
      BY <1>5, <2>2, <3>1
    <3> QED
      BY <2>1, <3>2
  <2>3. CASE p \in 1..14 /\ q \in 15..Len(plan)
    <3>1. Rank(plan[p]) = p /\ Rank(plan[q]) = q + 1 - Len(m)
      BY <1>5, <1>7, <2>3
    <3>2. q + 1 - Len(m) < p
      BY <2>1, <3>1
    <3>3. CASE Len(m) = 0
      BY <1>4, <2>3, <3>2, <3>3
    <3>4. CASE Len(m) = 1
      BY <1>4, <2>3, <3>2, <3>4
    <3> QED
      BY <1>2, <3>3, <3>4
  <2>4. CASE p \in 15..Len(plan) /\ q \in 15..Len(plan)
    BY <1>2, <1>7, <2>1, <2>4
  <2> QED
    BY <1>2, <1>4, <2>2, <2>3, <2>4
<1>9. /\ Left("enable_zone", plan) /\ Left("wait_system_vm_running", plan)
      /\ Left("final_health_check", plan)
  BY <1>6, Last3Facts DEF Left
<1>10. /\ Left("sync_host_ssh_trust", plan) /\ Left("create_zone", plan)
       /\ Left("create_physical_network", plan) /\ Left("create_pod", plan)
       /\ Left("create_cluster", plan)
  <2>1. /\ First[11] = "sync_host_ssh_trust" /\ First[3] = "create_zone"
        /\ First[4] = "create_physical_network" /\ First[8] = "create_pod"
        /\ First[10] = "create_cluster"
    BY DEF First
  <2> QED
    BY <1>5, <2>1 DEF Left
<1>11. \A y \in Id : Left(Creator[y], plan)
  BY <1>10 DEF Id, Creator
<1>12. plan # <<>> /\ plan[1] = "wait_mold_api_ready"
  BY <1>2, <1>4, <1>5, FirstFacts
<1> QED
  BY <1>4, <1>8, <1>9, <1>10, <1>11, <1>12

\* The items of a step, as far as the properties tell them apart: an id comes from the step that
\* creates its thing, the enabled zone from enable_zone, hosts of the request from add_host.
Belongs(item, step, hs) ==
    /\ \A y \in Id : step = Creator[y] => item = <<<<y>>>>
    /\ step = "enable_zone" => item = <<<<"zone_enabled">>>>
    /\ step \notin Plain
    /\ \A i \in DOMAIN item, h \in Host :
          item[i] = <<"host", h>> => step = "add_host" /\ h \in ToSet(hs)
Belong(items, step, hs) ==
    /\ \E S : items \in Seq(S)
    /\ \A i \in 1..Len(items) : Belongs(items[i], step, hs)

LEMMA CreatorFacts ==
    /\ Creator["zone"] = "create_zone" /\ Creator["physical_network"] = "create_physical_network"
    /\ Creator["pod"] = "create_pod" /\ Creator["cluster"] = "create_cluster"
  BY DEF Creator

LEMMA OneItem ==
    ASSUME NEW x, x # "host", NEW items, items = << <<<<x>>>> >>, NEW step, NEW hs,
           step \notin Plain, \A y \in Id : step = Creator[y] => x = y,
           step = "enable_zone" => x = "zone_enabled"
    PROVE  Belong(items, step, hs)
<1>1. items \in Seq({<<<<x>>>>}) /\ Len(items) = 1 /\ items[1] = <<<<x>>>>
  OBVIOUS
<1>2. PICK item : item = <<<<x>>>>
  OBVIOUS
<1>3. DOMAIN item = {1} /\ item[1] = <<x>>
  BY <1>2
<1>4. \A h : <<x>> # <<"host", h>>
  OBVIOUS
<1>5. \A i \in DOMAIN item, h \in Host : item[i] # <<"host", h>>
  BY <1>3, <1>4
<1>6. Belongs(item, step, hs)
  BY <1>2, <1>5 DEF Belongs
<1>7. \E S : items \in Seq(S)
  BY <1>1
<1>8. \A i \in 1..Len(items) : items[i] = item
  BY <1>1, <1>2
<1> QED
  BY <1>6, <1>7, <1>8 DEF Belong

LEMMA NoItem == \A step, hs : Belong(<<>>, step, hs)
  BY DEF Belong

LEMMA ItemsBelong ==
    ASSUME NEW step \in StepName, NEW req, req.hosts \in HostLists
    PROVE  Belong(Items(step, req), step, req.hosts)
<1> DEFINE items == Items(step, req)
<1>1. CASE step = "create_zone"
  <2>1. items = << <<<<"zone">>>> >>
    BY <1>1 DEF Items, EnsureZone
  <2> HIDE DEF items
  <2> QED
    BY <1>1, <2>1, OneItem, CreatorFacts DEF Id, Plain, items
<1>2. CASE step = "create_physical_network"
  <2>1. items = << <<<<"physical_network">>>> >>
    BY <1>2 DEF Items, EnsurePhysicalNetwork
  <2> HIDE DEF items
  <2> QED
    BY <1>2, <2>1, OneItem, CreatorFacts DEF Id, Plain, items
<1>3. CASE step = "create_pod"
  <2>1. items = << <<<<"pod">>>> >>
    BY <1>3 DEF Items, EnsurePod
  <2> HIDE DEF items
  <2> QED
    BY <1>3, <2>1, OneItem, CreatorFacts DEF Id, Plain, items
<1>4. CASE step = "create_cluster"
  <2>1. items = << <<<<"cluster">>>> >>
    BY <1>4 DEF Items, EnsureCluster
  <2> HIDE DEF items
  <2> QED
    BY <1>4, <2>1, OneItem, CreatorFacts DEF Id, Plain, items
<1>5. CASE step \in {"enable_physical_network", "create_public_ip_range", "add_primary_storage",
                     "add_secondary_storage", "enable_zone"}
  <2>1. PICK x \in {"network_enabled", "public_ip_range", "primary_storage", "secondary_storage",
                    "zone_enabled"} :
           items = << <<<<x>>>> >> /\ (step = "enable_zone" => x = "zone_enabled")
    BY <1>5 DEF Items, EnablePhysicalNetwork, EnsurePublicIPRange, EnsurePrimaryStorage,
                EnsureSecondaryStorage, EnableZone
  <2> HIDE DEF items
  <2>2. step \notin Plain /\ \A y \in Id : step # Creator[y]
    BY <1>5, CreatorFacts DEF Id, Plain
  <2> QED
    BY <2>1, <2>2, OneItem DEF items
<1>6. CASE step \in Plain
  <2>1. items = <<>>
    BY <1>6 DEF Items, Plain
  <2> QED
    BY <2>1, NoItem
<1>7. ASSUME step \in {"add_traffic_types", "enable_network_providers",
                       "add_secondary_staging_store"}
      PROVE  step \notin Plain \cup {"enable_zone"} /\ \A y \in Id : step # Creator[y]
  BY <1>7, CreatorFacts DEF Id, Plain
<1>8. CASE step = "add_traffic_types"
  <2>1. items = << <<<<"Management">>>>, <<<<"Guest">>>>, <<<<"Public">>>> >>
    BY <1>8 DEF Items, EnsureTrafficTypes
  <2> HIDE DEF items
  <2>2. /\ items \in Seq({<<<<"Management">>>>, <<<<"Guest">>>>, <<<<"Public">>>>})
        /\ Len(items) = 3
    BY <2>1
  <2>3. \A i \in 1..3 : \E x \in {"Management", "Guest", "Public"} : items[i] = <<<<x>>>>
    BY <2>1
  <2>4. ASSUME NEW i \in 1..3, NEW k \in DOMAIN items[i], NEW h PROVE items[i][k] # <<"host", h>>
    <3>1. PICK x \in {"Management", "Guest", "Public"} : items[i] = <<<<x>>>>
      BY <2>3
    <3>2. k = 1 /\ items[i][1] = <<x>> /\ <<x>>[1] # "host"
      BY <3>1
    <3> QED
      BY <3>2
  <2>5. \E S : items \in Seq(S)
    BY <2>2
  <2> QED
    BY <1>7, <1>8, <2>2, <2>4, <2>5 DEF Belong, Belongs, items
<1>9. CASE step = "enable_network_providers"
  <2>1. items = << <<<<"element", "VirtualRouter">>, <<"provider", "VirtualRouter">>>>,
                   <<<<"element", "VpcVirtualRouter">>, <<"provider", "VpcVirtualRouter">>>> >>
    BY <1>9 DEF Items, EnableNetworkProviders
  <2> HIDE DEF items
  <2>2. /\ items \in Seq({<<<<"element", "VirtualRouter">>, <<"provider", "VirtualRouter">>>>,
                          <<<<"element", "VpcVirtualRouter">>, <<"provider", "VpcVirtualRouter">>>>})
        /\ Len(items) = 2
    BY <2>1
  <2>3. \A i \in 1..2 : \E x \in {"VirtualRouter", "VpcVirtualRouter"} :
                           items[i] = <<<<"element", x>>, <<"provider", x>>>>
    BY <2>1
  <2>4. ASSUME NEW i \in 1..2, NEW k \in DOMAIN items[i], NEW h PROVE items[i][k] # <<"host", h>>
    <3>1. PICK x : items[i] = <<<<"element", x>>, <<"provider", x>>>>
      BY <2>3
    <3>2. k \in 1..2 /\ items[i][1] = <<"element", x>> /\ items[i][2] = <<"provider", x>>
      BY <3>1
    <3>3. items[i][k][1] # "host"
      BY <3>2
    <3> QED
      BY <3>3
  <2>5. \E S : items \in Seq(S)
    BY <2>2
  <2> QED
    BY <1>7, <1>9, <2>2, <2>4, <2>5 DEF Belong, Belongs, items
<1>10. CASE step = "add_secondary_staging_store"
  <2>1. items = << <<<<"staging_store">>>> >> \/ items = <<>>
    BY <1>10 DEF Items, EnsureSecondaryStagingStore
  <2> HIDE DEF items
  <2>2. CASE items = <<>>
    BY <2>2, NoItem DEF items
  <2>3. CASE items = << <<<<"staging_store">>>> >>
    BY <1>7, <1>10, <2>3, OneItem DEF items
  <2> QED
    BY <2>1, <2>2, <2>3
<1>11. CASE step = "add_host"
  <2>1. PICK hs : hs = req.hosts /\ hs \in HostLists
    OBVIOUS
  <2>2. hs \in Seq(ToSet(hs))
    BY <2>1, MoldBootstrapAssumption
  <2>3. items = [i \in 1..Len(hs) |-> <<<<"host", hs[i]>>>>]
    BY <1>11, <2>1, <2>2 DEF Items, EnsureHosts
  <2> HIDE DEF items
  <2>4. /\ items \in Seq({items[i] : i \in 1..Len(hs)}) /\ Len(items) = Len(hs)
        /\ \A i \in 1..Len(items) : items[i] = <<<<"host", hs[i]>>>>
    BY <2>2, <2>3
  <2>5. ASSUME NEW i \in 1..Len(items), NEW k \in DOMAIN items[i], NEW h, items[i][k] = <<"host", h>>
        PROVE  h \in ToSet(hs)
    <3>1. k = 1 /\ items[i][1] = <<"host", hs[i]>>
      BY <2>4
    <3>2. h = hs[i]
      BY <2>5, <3>1
    <3> QED
      BY <2>2, <2>4, <3>2 DEF ToSet
  <2>6. step \notin Plain \cup {"enable_zone"} /\ \A y \in Id : step # Creator[y]
    BY <1>11, CreatorFacts DEF Id, Plain
  <2>7. \E S : items \in Seq(S)
    BY <2>4
  <2> QED
    BY <1>11, <2>1, <2>4, <2>5, <2>6, <2>7 DEF Belong, Belongs, items
<1> QED
  BY <1>1, <1>2, <1>3, <1>4, <1>5, <1>6, <1>8, <1>9, <1>10, <1>11 DEF StepName, Plain

\* Where a goroutine is: what is left of its plan is in order, and its items are those of its step.
Where(r) ==
    /\ r.pc \in {"begin", "step", "apply", "poll", "verify", "keys"}
    /\ r.req.hosts \in HostLists
    /\ r.todo \in Seq(StepName) /\ InOrder(r.todo)
    /\ r.pc \notin {"begin", "step"} => r.todo # <<>>
    /\ r.pc \in {"apply", "poll", "verify"} => r.items # <<>>
    /\ r.pc = "keys" => r.todo[1] = "sync_host_ssh_trust"
    /\ r.todo # <<>> => Belong(r.items, r.todo[1], r.req.hosts)

\* What its steps have left behind: in Mold, in the runtime, on the hosts.  There is a set of
\* hosts that are settled: their key is registered, or they have left cluster.json for good.
Done(r, there, vms) ==
    /\ Left("enable_zone", r.todo) \/ <<"zone_enabled">> \in there
    /\ Left("wait_system_vm_running", r.todo) \/ vms
    /\ Left("final_health_check", r.todo) \/ Expected(r.req) \ {<<"zone_enabled">>} \subseteq there
    /\ \A y \in Id : Left(Creator[y], r.todo) \/ y \in r.ids
Keyed(r, settled, hs, n) ==
    /\ n = 0 => r.req.hosts = hs
    /\ Left("sync_host_ssh_trust", r.todo) \/ ToSet(r.req.hosts) \subseteq settled
    /\ r.pc = "keys" => /\ r.targets \in Seq(ToSet(r.targets))
                        /\ ToSet(r.req.hosts) \subseteq settled \cup ToSet(r.targets)
Path(r, there, vms, settled, hs, n) == Where(r) /\ Done(r, there, vms) /\ Keyed(r, settled, hs, n)

LEMMA AtItem ==
    ASSUME NEW r, Where(r), r.pc \in {"apply", "poll", "verify"}
    PROVE  /\ r.todo # <<>> /\ r.items # <<>>
           /\ \E S : r.items \in Seq(S)
           /\ Belongs(Head(r.items), r.todo[1], r.req.hosts)
<1>1. r.todo # <<>> /\ r.items # <<>>
  BY DEF Where
<1>2. PICK S : r.items \in Seq(S)
  BY <1>1 DEF Where, Belong
<1>3. 1 \in 1..Len(r.items) /\ Head(r.items) = r.items[1]
  BY <1>1, <1>2
<1>4. Belongs(r.items[1], r.todo[1], r.req.hosts)
  BY <1>1, <1>3 DEF Where, Belong
<1> QED
  BY <1>1, <1>2, <1>3, <1>4

LEMMA PathGrows ==
    ASSUME NEW r, NEW there, NEW there2, there \subseteq there2,
           NEW vms, NEW vms2, vms => vms2, NEW settled, NEW settled2, settled \subseteq settled2,
           NEW hs, NEW hs2, NEW n, NEW n2, n2 = 0 => n = 0 /\ hs2 = hs,
           Path(r, there, vms, settled, hs, n)
    PROVE  Path(r, there2, vms2, settled2, hs2, n2)
  BY DEF Path, Done, Keyed

\* The rest of a plan is in order, and has all its steps but the first.
LEMMA Rest ==
    ASSUME NEW todo \in Seq(StepName), todo # <<>>, InOrder(todo)
    PROVE  /\ Tail(todo) \in Seq(StepName) /\ InOrder(Tail(todo))
           /\ \A step : Left(step, todo) => step = todo[1] \/ Left(step, Tail(todo))
           /\ Len(todo) > 1 => Tail(todo) # <<>> /\ Tail(todo)[1] = todo[2] /\ todo[2] \in StepName
           /\ ~(Len(todo) > 1) => Tail(todo) = <<>>
           /\ todo[1] = Head(todo) /\ todo[1] \in StepName
           /\ \A step \in Needs(todo[1]) : ~Left(step, todo)
<1>1. /\ Tail(todo) \in Seq(StepName) /\ Len(Tail(todo)) = Len(todo) - 1
      /\ \A i \in 1..Len(Tail(todo)) : Tail(todo)[i] = todo[i + 1]
      /\ Len(todo) \in Nat \ {0}
  OBVIOUS
<1>2. InOrder(Tail(todo))
  <2> SUFFICES ASSUME NEW p \in 1..Len(Tail(todo)), NEW q \in 1..Len(Tail(todo)), p <= q
               PROVE  Tail(todo)[q] \notin Needs(Tail(todo)[p])
    BY DEF InOrder
  <2>1. p + 1 \in 1..Len(todo) /\ q + 1 \in 1..Len(todo) /\ p + 1 <= q + 1
    BY <1>1
  <2> QED
    BY <1>1, <2>1 DEF InOrder
<1>3. ASSUME NEW step, Left(step, todo) PROVE step = todo[1] \/ Left(step, Tail(todo))
  <2>1. PICK i \in 1..Len(todo) : todo[i] = step
    BY <1>3 DEF Left
  <2>2. CASE i # 1
    <3>1. i - 1 \in 1..Len(Tail(todo)) /\ (i - 1) + 1 = i
      BY <1>1, <2>2
    <3> QED
      BY <1>1, <2>1, <3>1 DEF Left
  <2> QED
    BY <2>1, <2>2
<1>4. Len(todo) > 1 => Tail(todo) # <<>> /\ Tail(todo)[1] = todo[2] /\ todo[2] \in StepName
  <2> SUFFICES ASSUME Len(todo) > 1
               PROVE  Tail(todo) # <<>> /\ Tail(todo)[1] = todo[2] /\ todo[2] \in StepName
    OBVIOUS
  <2>1. 1 \in 1..Len(Tail(todo)) /\ 1 + 1 = 2 /\ 2 \in 1..Len(todo)
    BY <1>1
  <2>2. Tail(todo)[1] = todo[1 + 1]
    BY ONLY <1>1, <2>1
  <2>4. Tail(todo) # <<>>
    <3>1. PICK n : n = Len(Tail(todo)) /\ n # 0
      BY <2>1
    <3>2. Tail(todo) = <<>> => n = Len(<<>>)
      BY <3>1
    <3>3. Len(<<>>) = 0
      OBVIOUS
    <3> QED
      BY ONLY <3>1, <3>2, <3>3
  <2>3. todo[2] \in StepName
    BY <2>1
  <2> QED
    BY <2>1, <2>2, <2>3, <2>4
<1>5. ~(Len(todo) > 1) => Tail(todo) = <<>>
  BY <1>1
<1>6. todo[1] = Head(todo) /\ todo[1] \in StepName /\ 1 \in 1..Len(todo)
  BY <1>1
<1>7. \A step \in Needs(todo[1]) : ~Left(step, todo)
  BY <1>1, <1>6 DEF InOrder, Left
<1> QED
  BY <1>1, <1>2, <1>3, <1>4, <1>5, <1>6, <1>7

LEMMA TailRange ==
    ASSUME NEW s, s \in Seq(ToSet(s)), s # <<>>
    PROVE  /\ Tail(s) \in Seq(ToSet(Tail(s)))
           /\ ToSet(s) \subseteq {Head(s)} \cup ToSet(Tail(s))
<1>1. PICK S, rest : S = ToSet(s) /\ rest = Tail(s)
  OBVIOUS
<1>2. /\ s \in Seq(S) /\ rest \in Seq(S) /\ Len(rest) = Len(s) - 1 /\ Len(s) \in Nat \ {0}
      /\ \A i \in 1..Len(rest) : rest[i] = s[i + 1]
  BY <1>1
<1>3. rest \in Seq(ToSet(rest))
  BY <1>2 DEF ToSet
<1>4. ASSUME NEW x \in ToSet(s), x # Head(s) PROVE x \in ToSet(rest)
  <2>1. PICK i \in 1..Len(s) : x = s[i]
    BY <1>2 DEF ToSet
  <2>2. i # 1
    BY <1>2, <1>4, <2>1
  <2>3. i - 1 \in 1..Len(rest) /\ rest[i - 1] = s[(i - 1) + 1] /\ (i - 1) + 1 = i
    BY <1>2, <2>1, <2>2
  <2> QED
    BY <1>2, <2>1, <2>3 DEF ToSet
<1> QED
  BY <1>1, <1>3, <1>4

\* The goroutine goes on to the next step, having done what the step is for.
LEMMA Onward ==
    ASSUME NEW r, DOMAIN r = Fields, NEW q, q.pc = "step", q.todo = Tail(r.todo), q.req = r.req,
           q.items = IF Len(r.todo) > 1 THEN Items(r.todo[2], r.req) ELSE <<>>, r.ids \subseteq q.ids,
           NEW there, NEW vms, NEW settled, NEW hs, NEW n,
           Path(r, there, vms, settled, hs, n), r.todo # <<>>,
           r.todo[1] = "enable_zone" => <<"zone_enabled">> \in there,
           r.todo[1] = "wait_system_vm_running" => vms,
           r.todo[1] = "final_health_check" => Expected(r.req) \ {<<"zone_enabled">>} \subseteq there,
           r.todo[1] = "sync_host_ssh_trust" => ToSet(r.req.hosts) \subseteq settled,
           \A y \in Id : r.todo[1] = Creator[y] => y \in q.ids
    PROVE  Path(q, there, vms, settled, hs, n)
<1>1. r.todo \in Seq(StepName) /\ InOrder(r.todo) /\ r.req.hosts \in HostLists
  BY DEF Path, Where
<1>2. PICK rest : rest = Tail(r.todo)
  OBVIOUS
<1>3. /\ rest \in Seq(StepName) /\ InOrder(rest)
      /\ \A step : Left(step, r.todo) => step = r.todo[1] \/ Left(step, rest)
      /\ Len(r.todo) > 1 => rest # <<>> /\ rest[1] = r.todo[2] /\ r.todo[2] \in StepName
      /\ ~(Len(r.todo) > 1) => rest = <<>>
  BY <1>1, <1>2, Rest
<1>4. rest # <<>> => Belong(q.items, rest[1], q.req.hosts)
  BY <1>1, <1>3, ItemsBelong
<1>5. Where(q)
  BY <1>1, <1>2, <1>3, <1>4 DEF Where
<1>6. Done(q, there, vms)
  <2>1. Done(r, there, vms)
    BY DEF Path
  <2>2. q.todo = rest
    BY <1>2
  <2> QED
    BY <1>3, <2>1, <2>2 DEF Done
<1>7. Keyed(q, settled, hs, n)
  BY <1>2, <1>3 DEF Path, Keyed
<1> QED
  BY <1>5, <1>6, <1>7 DEF Path

\* An item that is in Mold.
LEMMA OnwardItem ==
    ASSUME NEW r, DOMAIN r = Fields, NEW q, q = NextItem(r),
           NEW there, NEW vms, NEW settled, NEW hs, NEW n,
           Path(r, there, vms, settled, hs, n), r.todo # <<>>, r.items # <<>>,
           ToSet(Head(r.items)) \subseteq there
    PROVE  Path(q, there, vms, settled, hs, n)
<1>1. PICK item : item = Head(r.items)
  OBVIOUS
<1>2. PICK S : r.items \in Seq(S)
  BY DEF Path, Where, Belong
<1>3. /\ 1 \in 1..Len(r.items) /\ item = r.items[1]
      /\ Tail(r.items) \in Seq(S) /\ Len(Tail(r.items)) = Len(r.items) - 1
      /\ \A i \in 1..Len(Tail(r.items)) : Tail(r.items)[i] = r.items[i + 1] /\ i + 1 \in 1..Len(r.items)
  BY <1>1, <1>2
<1>4. Belongs(item, r.todo[1], r.req.hosts)
  BY <1>3 DEF Path, Where, Belong
<1>5. /\ q.pc = "step" /\ q.req = r.req /\ q.ids = r.ids \cup Ids(item)
      /\ IF Len(r.items) > 1
         THEN q.todo = r.todo /\ q.items = Tail(r.items)
         ELSE /\ q.todo = Tail(r.todo)
              /\ q.items = (IF Len(r.todo) > 1 THEN Items(r.todo[2], r.req) ELSE <<>>)
  BY <1>1, NextItemShape
<1>6. CASE Len(r.items) > 1
  <2>1. Belong(q.items, r.todo[1], r.req.hosts)
    <3>1. \E T : q.items \in Seq(T)
      BY <1>3, <1>5, <1>6
    <3> QED
      BY <1>3, <1>5, <1>6, <3>1 DEF Path, Where, Belong
  <2>2. Where(q)
    BY <1>5, <1>6, <2>1 DEF Path, Where
  <2>3. Done(q, there, vms) /\ Keyed(q, settled, hs, n)
    BY <1>5, <1>6 DEF Path, Done, Keyed
  <2> QED
    BY <2>2, <2>3 DEF Path
<1>7. CASE ~(Len(r.items) > 1)
  <2>1. ASSUME r.todo[1] = "enable_zone" PROVE <<"zone_enabled">> \in there
    <3>1. item = <<<<"zone_enabled">>>>
      BY <1>4, <2>1 DEF Belongs
    <3>2. <<"zone_enabled">> \in ToSet(item)
      BY <3>1 DEF ToSet
    <3> QED
      BY <1>1, <3>2
  <2>2. r.todo[1] \notin {"wait_system_vm_running", "final_health_check", "sync_host_ssh_trust"}
    BY <1>4 DEF Belongs, Plain
  <2>3. ASSUME NEW y \in Id, r.todo[1] = Creator[y] PROVE y \in q.ids
    <3>1. item = <<<<y>>>>
      BY <1>4, <2>3 DEF Belongs
    <3>2. <<y>> \in ToSet(item) /\ <<y>>[1] = y
      BY <3>1 DEF ToSet
    <3>3. y \in Ids(item)
      BY <3>2 DEF Ids, Id
    <3> QED
      BY <1>5, <3>3
  <2> QED
    BY <1>5, <1>7, <2>1, <2>2, <2>3, Onward
<1> QED
  BY <1>6, <1>7

-----------------------------------------------------------------------------
(* The steps of the job                                                     *)

\* Hosts with the key, and hosts that have left cluster.json, which changes no more.
Settled == keys \cup {h \in Host : changes = 1 /\ h \notin ToSet(hosts)}

OnWay ==
    /\ changes \in 0..1 /\ hosts \in HostLists
    /\ \A j \in Job : run[j].pc # "none" =>
          Path(run[j], mold, systemVMs, Settled, hosts, changes)
    /\ \A h \in Host : <<"host", h>> \in mold => h \in Settled
    /\ \A j \in Job, h \in Host :
          cmd[j].state = "sent" /\ cmd[j].thing = <<"host", h>> => h \in Settled

LEMMA WayKept ==
    ASSUME OnWay, mold \subseteq mold', systemVMs => systemVMs', changes' \in 0..1,
           hosts' \in HostLists, changes' = 0 => changes = 0 /\ hosts' = hosts,
           Settled \subseteq Settled',
           \A i \in Job : \/ run'[i] = run[i] \/ run'[i].pc = "none"
                          \/ Path(run'[i], mold', systemVMs', Settled', hosts', changes'),
           \A h \in Host : <<"host", h>> \in mold' => h \in Settled',
           \A i \in Job : \/ cmd'[i] = cmd[i] \/ cmd'[i].state # "sent"
                          \/ \A h \in Host : cmd'[i].thing = <<"host", h>> => h \in Settled
    PROVE  OnWay'
<1>1. ASSUME NEW i \in Job, run'[i].pc # "none"
      PROVE  Path(run'[i], mold', systemVMs', Settled', hosts', changes')
  <2>1. CASE run'[i] = run[i]
    <3>1. PICK r : r = run[i] /\ r = run'[i]
      BY <2>1
    <3>2. Path(r, mold, systemVMs, Settled, hosts, changes)
      BY <1>1, <3>1 DEF OnWay
    <3>3. Path(r, mold', systemVMs', Settled', hosts', changes')
      BY <3>2, PathGrows
    <3> QED
      BY <3>1, <3>3
  <2> QED
    BY <1>1, <2>1
<1>2. ASSUME NEW i \in Job, NEW h \in Host, cmd'[i].state = "sent", cmd'[i].thing = <<"host", h>>
      PROVE  h \in Settled'
  BY <1>2 DEF OnWay
<1> QED
  BY <1>1, <1>2 DEF OnWay

\* A goroutine moves on.
LEMMA JobWay ==
    ASSUME Shape, OnWay, NEW j \in Job, NEW r, run' = [run EXCEPT ![j] = r],
           UNCHANGED <<mold, systemVMs, hosts, changes>>, keys \subseteq keys',
           r.pc = "none" \/ Path(r, mold, systemVMs, Settled', hosts, changes),
           \A i \in Job : \/ cmd'[i] = cmd[i] \/ cmd'[i].state # "sent"
                          \/ \A h \in Host : cmd'[i].thing = <<"host", h>> => h \in Settled
    PROVE  OnWay'
<1>1. \A i \in Job : run'[i] = IF i = j THEN r ELSE run[i]
  BY DEF Shape
<1>2. Settled \subseteq Settled'
  BY DEF Settled
<1>3. Path(r, mold, systemVMs, Settled', hosts, changes) =>
          Path(r, mold', systemVMs', Settled', hosts', changes')
  OBVIOUS
<1>4. /\ changes' \in 0..1 /\ hosts' \in HostLists
      /\ \A h \in Host : <<"host", h>> \in mold' => h \in Settled'
  BY <1>2 DEF OnWay
<1> QED
  BY <1>1, <1>2, <1>3, <1>4, WayKept

LEMMA NeedsCreators ==
    \A step, y : y \in Requires(step) => y \in Id /\ Creator[y] \in Needs(step)
<1>1. \A step : Requires(step) \subseteq Id
  BY DEF Requires, Id
<1> QED
  BY <1>1 DEF Needs

LEMMA StepOnWay == Shape /\ OnWay /\ [Next]_vars => OnWay'
<1> SUFFICES ASSUME Shape, OnWay, [Next]_vars PROVE OnWay'
  OBVIOUS
<1>1. ASSUME NEW j \in Job, NEW staging \in Staging, StartBootstrap(j, staging) PROVE OnWay'
  <2>1. PICK req : req = Prepared(staging)
    OBVIOUS
  <2>2. PICK plan : plan = Plan(req)
    OBVIOUS
  <2>3. PICK r : /\ run' = [run EXCEPT ![j] = r]
                 /\ r = [NoRun EXCEPT !.pc = "begin", !.req = req, !.todo = plan]
    BY <1>1, <2>1, <2>2 DEF StartBootstrap
  <2>4. r.pc = "begin" /\ r.req = req /\ r.todo = plan /\ r.items = <<>>
    BY <2>3 DEF NoRun
  <2>5. req.hosts = hosts /\ hosts \in HostLists
    BY <2>1 DEF Prepared, OnWay
  <2>6. /\ UNCHANGED <<mold, systemVMs, hosts, changes>> /\ keys' = keys /\ cmd' = cmd
    BY <1>1 DEF StartBootstrap, external
  <2>7. /\ plan \in Seq(StepName) /\ InOrder(plan) /\ Left("enable_zone", plan)
        /\ Left("wait_system_vm_running", plan) /\ Left("final_health_check", plan)
        /\ Left("sync_host_ssh_trust", plan) /\ \A y \in Id : Left(Creator[y], plan)
        /\ plan # <<>> /\ plan[1] = "wait_mold_api_ready"
    BY <2>2, PlanFacts
  <2>8. Path(r, mold, systemVMs, Settled', hosts, changes)
    <3>1. Where(r)
      BY <2>4, <2>5, <2>7, NoItem DEF Where
    <3>2. Done(r, mold, systemVMs)
      BY <2>4, <2>7 DEF Done
    <3>3. Keyed(r, Settled', hosts, changes)
      BY <2>4, <2>5, <2>7 DEF Keyed
    <3> QED
      BY <3>1, <3>2, <3>3 DEF Path
  <2> QED
    BY <2>3, <2>6, <2>8, JobWay
<1>2. ASSUME NEW j \in Job, run[j].pc # "none"
      PROVE  /\ Path(run[j], mold, systemVMs, Settled, hosts, changes) /\ DOMAIN run[j] = Fields
             /\ Where(run[j]) /\ (Head(run[j].todo) = run[j].todo[1] \/ run[j].todo = <<>>)
  BY <1>2 DEF OnWay, Shape, Path, Where
\* Steps that leave Mold and the hosts as they are.
<1>3. ASSUME NEW j \in Job, NEW r, run' = [run EXCEPT ![j] = r],
             UNCHANGED <<mold, systemVMs, hosts, keys, changes>>,
             r.pc = "none" \/ Path(r, mold, systemVMs, Settled, hosts, changes),
             \A i \in Job : \/ cmd'[i] = cmd[i] \/ cmd'[i].state # "sent"
                            \/ \A h \in Host : cmd'[i].thing = <<"host", h>> => h \in Settled
      PROVE  OnWay'
  <2>1. Settled' = Settled
    BY <1>3 DEF Settled
  <2> QED
    BY <1>3, <2>1, JobWay
<1>4. ASSUME NEW j \in Job, Forget(j)
      PROVE  \A i \in Job : cmd'[i] = cmd[i] \/ cmd'[i].state # "sent"
  BY <1>4, NoRunShape DEF Forget, Shape
<1>5. ASSUME NEW j \in Job, Begin(j) PROVE OnWay'
  <2>1. PICK r : /\ run' = [run EXCEPT ![j] = r]
                 /\ r = NoRun \/ r = [run[j] EXCEPT !.pc = "step"]
    BY <1>5 DEF Begin
  <2>2. UNCHANGED <<mold, systemVMs, hosts, keys, changes>> /\ cmd' = cmd /\ run[j].pc = "begin"
    BY <1>5 DEF Begin, external
  <2>3. CASE r = [run[j] EXCEPT !.pc = "step"]
    <3>1. /\ r.pc = "step" /\ r.todo = run[j].todo /\ r.items = run[j].items
          /\ r.req = run[j].req /\ r.ids = run[j].ids
      BY <1>2, <2>2, <2>3 DEF Fields
    <3>2. Path(r, mold, systemVMs, Settled, hosts, changes)
      BY <1>2, <2>2, <3>1 DEF Path, Where, Done, Keyed
    <3> QED
      BY <1>3, <2>1, <2>2, <3>2
  <2>4. CASE r = NoRun
    BY <1>3, <2>1, <2>2, <2>4, NoRunShape
  <2> QED
    BY <2>1, <2>3, <2>4
<1>6. ASSUME NEW j \in Job, Connect(j) \/ WaitSystemVMRunning(j) \/ FinalHealthCheck(j)
      PROVE  OnWay'
  <2>1. /\ run' = [run EXCEPT ![j] = NextStep(run[j])] /\ run[j].pc = "step" /\ run[j].todo # <<>>
        /\ UNCHANGED <<mold, systemVMs, hosts, keys, changes>> /\ cmd' = cmd
    BY <1>6 DEF Connect, WaitSystemVMRunning, FinalHealthCheck, At, external
  <2>2. /\ Path(run[j], mold, systemVMs, Settled, hosts, changes) /\ DOMAIN run[j] = Fields
        /\ Head(run[j].todo) = run[j].todo[1]
    BY <1>2, <2>1
  <2>3. PICK step : step = run[j].todo[1]
    OBVIOUS
  <2>4. \/ step \in {"wait_mold_api_ready", "login_admin"}
        \/ step = "wait_system_vm_running" /\ systemVMs
        \/ step = "final_health_check" /\ Expected(run[j].req) \ {<<"zone_enabled">>} \subseteq mold
    BY <1>6, <2>2, <2>3 DEF Connect, WaitSystemVMRunning, FinalHealthCheck, There
  <2>5. step # "enable_zone" /\ step # "sync_host_ssh_trust" /\ \A y \in Id : step # Creator[y]
    BY <2>4, CreatorFacts DEF Id
  <2>6. PICK r : r = NextStep(run[j])
    OBVIOUS
  <2>7. /\ r.pc = "step" /\ r.todo = Tail(run[j].todo) /\ r.req = run[j].req
        /\ r.items = (IF Len(run[j].todo) > 1 THEN Items(run[j].todo[2], run[j].req) ELSE <<>>)
        /\ r.ids = run[j].ids
    BY <2>2, <2>6, NextStepShape
  <2>8. Path(r, mold, systemVMs, Settled, hosts, changes)
    BY <2>1, <2>2, <2>3, <2>4, <2>5, <2>7, Onward
  <2> QED
    BY <1>3, <2>1, <2>6, <2>8
<1>7. ASSUME NEW j \in Job, NEW r, r = NextItem(run[j]), run' = [run EXCEPT ![j] = r],
             run[j].pc # "none", run[j].todo # <<>>, run[j].items # <<>>,
             Absent(Head(run[j].items)) = {},
             UNCHANGED <<mold, systemVMs, hosts, keys, changes>>,
             \A i \in Job : cmd'[i] = cmd[i] \/ cmd'[i].state # "sent"
      PROVE  OnWay'
  <2>1. ToSet(Head(run[j].items)) \subseteq mold
    BY <1>7 DEF Absent, There
  <2>2. Path(r, mold, systemVMs, Settled, hosts, changes)
    BY <1>2, <1>7, <2>1, OnwardItem
  <2> QED
    BY <1>3, <1>7, <2>2
<1>8. ASSUME NEW j \in Job, Find(j) PROVE OnWay'
  <2>1. /\ run[j].pc = "step" /\ run[j].todo # <<>> /\ run[j].items # <<>>
        /\ UNCHANGED <<mold, systemVMs, hosts, keys, changes>> /\ cmd' = cmd
    BY <1>8 DEF Find, At, external
  <2>2. PICK absent : absent = Absent(Head(run[j].items))
    OBVIOUS
  <2>3. PICK r : /\ run' = [run EXCEPT ![j] = r]
                 /\ r = IF absent = {} THEN NextItem(run[j])
                        ELSE [run[j] EXCEPT !.pc = "apply", !.missing = absent]
    BY <1>8, <2>2 DEF Find
  <2>4. CASE absent = {}
    BY <1>7, <2>1, <2>2, <2>3, <2>4
  <2>5. CASE absent # {}
    <3>1. /\ r.pc = "apply" /\ r.todo = run[j].todo /\ r.items = run[j].items
          /\ r.req = run[j].req /\ r.ids = run[j].ids
      BY <1>2, <2>1, <2>3, <2>5 DEF Fields
    <3>2. Path(r, mold, systemVMs, Settled, hosts, changes)
      BY <1>2, <2>1, <3>1 DEF Path, Where, Done, Keyed
    <3> QED
      BY <1>3, <2>1, <2>3, <3>2
  <2> QED
    BY <2>4, <2>5
<1>9. ASSUME NEW j \in Job, Apply(j) PROVE OnWay'
  <2>1. PICK item : item = Head(run[j].items)
    OBVIOUS
  <2>2. PICK t, pc, missing :
           /\ \E i \in DOMAIN item : item[i] = t
           /\ pc = IF run[j].missing = {t} THEN "verify" ELSE "poll"
           /\ cmd' = [cmd EXCEPT ![j] = [thing |-> t, state |-> "sent"]]
           /\ run' = [run EXCEPT ![j].missing = missing, ![j].pc = pc]
    <3>1. PICK i \in DOMAIN item :
             /\ cmd' = [cmd EXCEPT ![j] = [thing |-> item[i], state |-> "sent"]]
             /\ run' = [run EXCEPT ![j].missing = run[j].missing \ {item[i]},
                                   ![j].pc = IF run[j].missing = {item[i]} THEN "verify" ELSE "poll"]
      BY <1>9, <2>1 DEF Apply
    <3>2. PICK t, pc, missing :
             /\ t = item[i] /\ pc = (IF run[j].missing = {t} THEN "verify" ELSE "poll")
             /\ missing = run[j].missing \ {t}
      OBVIOUS
    <3> QED
      BY <3>1, <3>2
  <2>3. PICK r : r = [run[j] EXCEPT !.missing = missing, !.pc = pc]
    OBVIOUS
  <2>4. run' = [run EXCEPT ![j] = r]
    BY <2>2, <2>3 DEF Shape, Fields
  <2>5. run[j].pc = "apply" /\ UNCHANGED <<mold, systemVMs, hosts, keys, changes>>
    BY <1>9 DEF Apply, external
  <2>6. /\ r.pc \in {"verify", "poll"} /\ r.todo = run[j].todo /\ r.items = run[j].items
        /\ r.req = run[j].req /\ r.ids = run[j].ids
    <3>1. pc \in {"verify", "poll"}
      BY <2>2
    <3> QED
      BY <1>2, <2>3, <2>5, <3>1 DEF Fields
  <2>7. Path(r, mold, systemVMs, Settled, hosts, changes)
    BY <1>2, <2>5, <2>6 DEF Path, Where, Done, Keyed
  <2>8. ASSUME NEW h \in Host, t = <<"host", h>> PROVE h \in Settled
    <3>1. Where(run[j]) /\ run[j].pc # "none"
      BY <1>2, <2>5
    <3>2. run[j].todo # <<>> /\ Belongs(item, run[j].todo[1], run[j].req.hosts)
      BY <2>1, <2>5, <3>1, AtItem
    <3>3. run[j].todo \in Seq(StepName) /\ InOrder(run[j].todo)
      BY <3>1 DEF Where
    <3>4. run[j].todo[1] = "add_host" /\ h \in ToSet(run[j].req.hosts)
      BY <2>2, <2>8, <3>2 DEF Belongs
    <3>5. "sync_host_ssh_trust" \in Needs(run[j].todo[1])
      BY <3>4 DEF Needs
    <3>6. ~Left("sync_host_ssh_trust", run[j].todo)
      BY <3>2, <3>3, <3>5, Rest
    <3> QED
      BY <1>2, <2>5, <3>4, <3>6 DEF Path, Keyed
  <2>9. \A i \in Job : \/ cmd'[i] = cmd[i]
                       \/ \A h \in Host : cmd'[i].thing = <<"host", h>> => h \in Settled
    <3>1. PICK c : c = [thing |-> t, state |-> "sent"]
      OBVIOUS
    <3>2. \A i \in Job : cmd'[i] = IF i = j THEN c ELSE cmd[i]
      BY <2>2, <3>1 DEF Shape
    <3>3. c.thing = t
      BY <3>1
    <3> QED
      BY <2>8, <3>2, <3>3
  <2> QED
    BY <1>3, <2>4, <2>5, <2>7, <2>9
<1>10. ASSUME NEW j \in Job, Poll(j) PROVE OnWay'
  <2>1. PICK r : run' = [run EXCEPT ![j] = r] /\ r = [run[j] EXCEPT !.pc = "apply"]
    BY <1>10 DEF Poll
  <2>2. /\ run[j].pc = "poll" /\ UNCHANGED <<mold, systemVMs, hosts, keys, changes>> /\ Forget(j)
    BY <1>10 DEF Poll, external
  <2>3. /\ r.pc = "apply" /\ r.todo = run[j].todo /\ r.items = run[j].items
        /\ r.req = run[j].req /\ r.ids = run[j].ids
    BY <1>2, <2>1, <2>2 DEF Fields
  <2>4. Path(r, mold, systemVMs, Settled, hosts, changes)
    BY <1>2, <2>2, <2>3 DEF Path, Where, Done, Keyed
  <2> QED
    BY <1>3, <1>4, <2>1, <2>2, <2>4
<1>11. ASSUME NEW j \in Job, Verify(j) PROVE OnWay'
  <2>1. /\ run[j].pc = "verify" /\ UNCHANGED <<mold, systemVMs, hosts, keys, changes>> /\ Forget(j)
        /\ Absent(Head(run[j].items)) = {} /\ run' = [run EXCEPT ![j] = NextItem(run[j])]
    BY <1>11 DEF Verify, external
  <2>2. run[j].todo # <<>> /\ run[j].items # <<>>
    BY <1>2, <2>1, AtItem
  <2> QED
    BY <1>4, <1>7, <2>1, <2>2
<1>12. ASSUME NEW j \in Job, LoadTargets(j) PROVE OnWay'
  <2>1. PICK r : /\ run' = [run EXCEPT ![j] = r]
                 /\ r = [run[j] EXCEPT !.pc = "keys", !.targets = hosts]
    BY <1>12 DEF LoadTargets, Shape, Fields
  <2>2. /\ run[j].pc = "step" /\ UNCHANGED <<mold, systemVMs, hosts, keys, changes>> /\ cmd' = cmd
        /\ run[j].todo # <<>> /\ Head(run[j].todo) = "sync_host_ssh_trust"
    BY <1>12 DEF LoadTargets, At, external
  <2>3. /\ r.pc = "keys" /\ r.todo = run[j].todo /\ r.items = run[j].items
        /\ r.req = run[j].req /\ r.ids = run[j].ids /\ r.targets = hosts
    BY <1>2, <2>1, <2>2 DEF Fields
  <2>4. Where(r) /\ Done(r, mold, systemVMs)
    BY <1>2, <2>2, <2>3 DEF Path, Where, Done
  <2>5. hosts \in Seq(ToSet(hosts))
    BY MoldBootstrapAssumption DEF OnWay
  <2>6. ASSUME NEW h \in ToSet(run[j].req.hosts) PROVE h \in Settled \cup ToSet(hosts)
    <3>1. h \in Host
      BY <1>2, <2>2 DEF Where, Host
    <3>2. changes = 0 => run[j].req.hosts = hosts
      BY <1>2, <2>2 DEF Path, Keyed
    <3>3. changes = 0 \/ changes = 1
      BY DEF OnWay
    <3> QED
      BY <3>1, <3>2, <3>3 DEF Settled
  <2>7. Keyed(r, Settled, hosts, changes)
    BY <1>2, <2>2, <2>3, <2>5, <2>6 DEF Path, Keyed
  <2> QED
    BY <1>3, <2>1, <2>2, <2>4, <2>7 DEF Path
<1>13. ASSUME NEW j \in Job, RegisterKey(j) PROVE OnWay'
  <2>1. run[j].pc = "keys" /\ UNCHANGED <<mold, systemVMs, hosts, changes>> /\ cmd' = cmd
    BY <1>13 DEF RegisterKey
  <2>2. PICK targets : targets = run[j].targets
    OBVIOUS
  <2>3. /\ targets \in Seq(ToSet(targets)) /\ run[j].todo # <<>>
        /\ ToSet(run[j].req.hosts) \subseteq Settled \cup ToSet(targets)
        /\ run[j].todo[1] = "sync_host_ssh_trust"
    BY <1>2, <2>1, <2>2 DEF Path, Keyed, Where
  <2>4. CASE targets = <<>>
    <3>1. PICK r : run' = [run EXCEPT ![j] = r] /\ r = NextStep(run[j])
      BY <1>13, <2>2, <2>4 DEF RegisterKey
    <3>2. keys' = keys
      BY <1>13, <2>2, <2>4 DEF RegisterKey
    <3>3. ToSet(targets) = {}
      BY <2>4 DEF ToSet
    <3>4. /\ r.pc = "step" /\ r.todo = Tail(run[j].todo) /\ r.req = run[j].req
          /\ r.items = (IF Len(run[j].todo) > 1 THEN Items(run[j].todo[2], run[j].req) ELSE <<>>)
          /\ r.ids = run[j].ids
      BY <1>2, <2>1, <3>1, NextStepShape
    <3>5. \A y \in Id : run[j].todo[1] # Creator[y]
      BY <2>3, CreatorFacts DEF Id
    <3>6. Path(r, mold, systemVMs, Settled, hosts, changes)
      BY <1>2, <2>1, <2>3, <3>3, <3>4, <3>5, Onward
    <3> QED
      BY <1>3, <2>1, <3>1, <3>2, <3>6
  <2>5. CASE targets # <<>>
    <3>1. PICK h, rest : h = Head(targets) /\ rest = Tail(targets)
      OBVIOUS
    <3>2. PICK r : /\ run' = [run EXCEPT ![j] = r] /\ r = [run[j] EXCEPT !.targets = rest]
                   /\ keys' = keys \cup {h}
      BY <1>13, <2>2, <2>5, <3>1 DEF RegisterKey, Shape, Fields
    <3>3. /\ r.pc = "keys" /\ r.todo = run[j].todo /\ r.items = run[j].items
          /\ r.req = run[j].req /\ r.ids = run[j].ids /\ r.targets = rest
      BY <1>2, <2>1, <3>2 DEF Fields
    <3>4. rest \in Seq(ToSet(rest)) /\ ToSet(targets) \subseteq {h} \cup ToSet(rest)
      BY <2>3, <2>5, <3>1, TailRange
    <3>5. Settled \cup {h} \subseteq Settled'
      BY <2>1, <3>2 DEF Settled
    <3>6. Path(r, mold, systemVMs, Settled', hosts, changes)
      <4>1. Where(r) /\ Done(r, mold, systemVMs)
        BY <1>2, <2>1, <3>3 DEF Path, Where, Done
      <4>2. Keyed(r, Settled', hosts, changes)
        BY <1>2, <2>1, <2>3, <3>3, <3>4, <3>5 DEF Path, Keyed
      <4> QED
        BY <4>1, <4>2 DEF Path
    <3> QED
      BY <2>1, <3>2, <3>6, JobWay
  <2> QED
    BY <2>4, <2>5
<1>14. ASSUME NEW j \in Job, Finish(j) \/ Fail(j) PROVE OnWay'
  <2>1. /\ run' = [run EXCEPT ![j] = NoRun] /\ UNCHANGED <<mold, systemVMs, hosts, keys, changes>>
        /\ cmd' = cmd \/ Forget(j)
    BY <1>14 DEF Finish, Fail, external
  <2>2. \A i \in Job : cmd'[i] = cmd[i] \/ cmd'[i].state # "sent"
    BY <1>4, <2>1
  <2> QED
    BY <1>3, <2>1, <2>2, NoRunShape
<1>15. ASSUME NEW j \in Job, MoldDoes(j) \/ MoldRefuses(j) PROVE OnWay'
  <2>1. cmd[j].state = "sent" /\ UNCHANGED <<run, systemVMs, hosts, keys, changes>>
    BY <1>15 DEF MoldDoes, MoldRefuses, external
  <2>2. mold' = mold \cup {cmd[j].thing} \/ mold' = mold
    BY <1>15 DEF MoldDoes, MoldRefuses, external
  <2>3. \A i \in Job : cmd'[i] = cmd[i] \/ cmd'[i].state # "sent"
    <3>1. PICK result \in {"done", "refused"} : Answer(j, result)
      BY <1>15 DEF MoldDoes, MoldRefuses
    <3> QED
      BY <3>1, NoRunShape DEF Answer, Shape
  <2>4. Settled' = Settled
    BY <2>1 DEF Settled
  <2>5. ASSUME NEW h \in Host, <<"host", h>> \in mold' PROVE h \in Settled
    BY <2>1, <2>2, <2>5 DEF OnWay
  <2>6. hosts' \in HostLists /\ changes' \in 0..1
    BY <2>1 DEF OnWay
  <2> QED
    BY <2>1, <2>2, <2>3, <2>4, <2>5, <2>6, WayKept
<1>16. CASE SystemVMsStart \/ ClusterChanged
  <2>1. UNCHANGED <<run, cmd, mold, keys>> /\ (systemVMs => systemVMs')
    BY <1>16 DEF SystemVMsStart, ClusterChanged
  <2>2. /\ changes' \in 0..1 /\ hosts' \in HostLists
        /\ (changes' = changes /\ hosts' = hosts) \/ (changes = 0 /\ changes' = 1)
    BY <1>16, MoldBootstrapAssumption DEF SystemVMsStart, ClusterChanged, OnWay
  <2>3. Settled \subseteq Settled'
    BY <2>1, <2>2 DEF Settled
  <2>4. \A h \in Host : <<"host", h>> \in mold' => h \in Settled'
    BY <2>1, <2>3 DEF OnWay
  <2> QED
    BY <2>1, <2>2, <2>3, <2>4, WayKept
<1>17. CASE UNCHANGED vars
  <2>1. UNCHANGED <<run, cmd, mold, keys, systemVMs, hosts, changes>>
    BY <1>17 DEF vars
  <2>2. Settled' = Settled
    BY <2>1 DEF Settled
  <2> QED
    BY <2>1, <2>2, WayKept DEF OnWay
<1> QED
  BY <1>1, <1>5, <1>6, <1>8, <1>9, <1>10, <1>11, <1>12, <1>13, <1>14, <1>15, <1>16, <1>17
  DEF Next, JobStep

LEMMA InitOnWay == Init => OnWay
<1> SUFFICES ASSUME Init PROVE OnWay
  OBVIOUS
<1>1. /\ \A j \in Job : run[j].pc = "none" /\ cmd[j].state = "none"
      /\ mold = {} /\ changes = 0 /\ hosts \in HostLists
  BY NoRunShape DEF Init
<1> QED
  BY <1>1 DEF OnWay

LEMMA AlwaysOnWay == Spec => [](Shape /\ OnWay)
<1>1. Init => Shape /\ OnWay
  BY InitAlone, InitOnWay
<1>2. (Shape /\ Alone) /\ OnWay /\ [Next]_vars => OnWay'
  BY StepOnWay
<1> QED
  BY <1>1, <1>2, InitAlone, StepAlone, PTL DEF Spec

\* No step lacks an id that an earlier one had to leave, also when everything was found and
\* nothing created (requireZoneID and the others in bootstrap_execute.go).
THEOREM StepsHaveIds == Spec => []PlanOrderSuffices
<1>1. Shape /\ OnWay => PlanOrderSuffices
  <2> SUFFICES ASSUME OnWay, NEW j \in Job, run[j].pc # "none", run[j].todo # <<>>,
                      NEW y \in Requires(Head(run[j].todo))
               PROVE  y \in run[j].ids
    BY DEF PlanOrderSuffices
  <2>1. Where(run[j]) /\ Done(run[j], mold, systemVMs)
    BY DEF OnWay, Path
  <2>2. run[j].todo \in Seq(StepName) /\ InOrder(run[j].todo)
    BY <2>1 DEF Where
  <2>3. /\ run[j].todo[1] = Head(run[j].todo)
        /\ \A step \in Needs(run[j].todo[1]) : ~Left(step, run[j].todo)
    BY <2>2, Rest
  <2>4. y \in Id /\ ~Left(Creator[y], run[j].todo)
    BY <2>3, NeedsCreators
  <2> QED
    BY <2>1, <2>4 DEF Done
<1> QED
  BY <1>1, AlwaysOnWay, PTL

\* A host that is in Mold has the key of the CCVM, unless it has left cluster.json since the
\* request (reconcileHostSSHTrust reads it again, add_host does not).
THEOREM KeyIsThere == Spec => []KeyBeforeHost
<1>1. Shape /\ OnWay => KeyBeforeHost
  BY DEF OnWay, KeyBeforeHost, Settled, There
<1> QED
  BY <1>1, AlwaysOnWay, PTL

\* A job that reports success has left everything it was asked for in Mold, and the system VMs
\* run, whatever other jobs did (runBootstrapJob, finalHealthCheck).
THEOREM CompleteAtSuccess == Spec => SuccessIsComplete
<1>1. Shape /\ OnWay /\ [Next]_vars =>
        [\A j \in Job : status[j] # "succeeded" /\ status'[j] = "succeeded" =>
            systemVMs /\ \A t \in Expected(run[j].req) : There(t)]_vars
  <2> SUFFICES ASSUME Shape, OnWay, Next, NEW j \in Job, status[j] # "succeeded",
                      status'[j] = "succeeded"
               PROVE  systemVMs /\ \A t \in Expected(run[j].req) : There(t)
    OBVIOUS
  <2>1. Finish(j)
    <3>1. ASSUME NEW k \in Job, NEW staging \in Staging, StartBootstrap(k, staging) PROVE FALSE
      BY <3>1 DEF StartBootstrap
    <3>2. ASSUME NEW k \in Job, NEW new, Update(k, new)
          PROVE  k = j /\ new = "succeeded"
      BY <3>2 DEF Update, Shape
    <3>3. ASSUME NEW k \in Job, Begin(k) \/ Fail(k) PROVE FALSE
      BY <3>2, <3>3 DEF Begin, Fail
    <3>4. ASSUME NEW k \in Job, Finish(k) PROVE k = j
      BY <3>2, <3>4 DEF Finish
    <3>5. ASSUME NEW k \in Job, Connect(k) \/ Find(k) \/ Apply(k) \/ Poll(k) \/ Verify(k)
                                \/ LoadTargets(k) \/ RegisterKey(k) \/ WaitSystemVMRunning(k)
                                \/ FinalHealthCheck(k) \/ MoldDoes(k) \/ MoldRefuses(k)
          PROVE  FALSE
      BY <3>5 DEF Connect, Find, Apply, Poll, Verify, LoadTargets, RegisterKey,
                  WaitSystemVMRunning, FinalHealthCheck, MoldDoes, MoldRefuses
    <3>6. CASE SystemVMsStart \/ ClusterChanged
      BY <3>6 DEF SystemVMsStart, ClusterChanged
    <3> QED
      BY <3>1, <3>3, <3>4, <3>5, <3>6 DEF Next, JobStep
  <2>2. run[j].pc = "step" /\ run[j].todo = <<>>
    BY <2>1 DEF Finish
  <2>3. Done(run[j], mold, systemVMs)
    BY <2>2 DEF OnWay, Path
  <2>4. \A step : ~Left(step, run[j].todo)
    BY <2>2 DEF Left
  <2> QED
    BY <2>3, <2>4 DEF Done, There
<1> QED
  BY <1>1, AlwaysOnWay, PTL DEF Spec, SuccessIsComplete
=============================================================================
