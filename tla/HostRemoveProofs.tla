--------------------------- MODULE HostRemoveProofs ---------------------------
(***************************************************************************)
(* Removals of hosts, however many run at the same time and wherever they  *)
(* fail, take a host apart in the order of their steps, and report success *)
(* only for a host that is gone.                                           *)
(***************************************************************************)
EXTENDS HostRemove, SequenceTheorems, TLAPS

Steps == StepNames(Type)
\* What is left to do after the first k steps.
Rest(k) == SubSeq(Steps, k + 1, Len(Steps))

-----------------------------------------------------------------------------
(* The inductive invariant                                                  *)

\* A list of hosts with nobody twice, and the PCS list begins like it.
Lists(c) ==
    /\ c.hosts \in Seq(Host) /\ IsInjective(c.hosts)
    /\ c.pcs \in Seq(Host)
    /\ Len(c.pcs) <= Len(c.hosts)
    /\ \A i \in 1..Len(c.pcs) : c.pcs[i] = c.hosts[i]

\* Only hosts that have been taken apart are missing.
Forgets(c) ==
    \A h \in Host : ~Contains(c.hosts, h) => mold[h] = "Removed" /\ h \notin scvm

\* The host that Ceph takes for the job's.
CephNameOf(r) == SCVMNamed(SCVMNumber(r.cfg, r.host))

\* How far a job is when it has done k steps, and what they have achieved.
Progress(r, k) ==
    /\ k \in 0..Len(Steps) /\ r.todo = Rest(k)
    /\ r.host \in Host
    /\ r.pc \in {"begin", "step", "prepare", "verify", "delete", "node", "save"}
    /\ r.pc = "begin" => k = 0
    /\ r.pc \in {"prepare", "verify", "delete"} => k = 1
    /\ r.pc = "node" => /\ k < Len(Steps) /\ Steps[k + 1] = "remove_pcs_node"
                        /\ r.host \notin fence
    /\ r.pc = "save" => k < Len(Steps) /\ Steps[k + 1] = "update_cluster_files"
    /\ \A i \in 1..k :
          /\ Steps[i] = "remove_mold_host" => mold[r.host] = "Removed"
          /\ Steps[i] = "remove_pcs_node" => r.host \notin fence
          /\ Steps[i] = "remove_ceph_host" => CephNameOf(r) \notin ceph
          /\ Steps[i] = "delete_scvm" => r.host \notin scvm

Working(r) ==
    /\ \E k \in 0..Len(Steps) : Progress(r, k)
    /\ Lists(r.cfg)
    /\ r.pc = "save" => Lists(r.loaded) /\ Forgets(r.loaded)

JobFields == {"pc", "host", "cfg", "loaded", "todo"}

Jobs ==
    /\ DOMAIN job = Job /\ DOMAIN mold = Host
    /\ \A j \in Job : /\ DOMAIN job[j] = JobFields
                      /\ job[j].pc # "none" => Working(job[j])

World ==
    /\ Lists(file) /\ Forgets(file)
    /\ Type \notin HCI => scvm = {} /\ ceph = {}

Inv == Jobs /\ World /\ DismantledInOrder

-----------------------------------------------------------------------------
(* The steps and the lists                                                  *)

StepName == {"precheck", "remove_mold_host", "remove_pcs_node", "remove_ceph_host",
             "delete_scvm", "update_cluster_files", "update_monitoring", "final_verify"}

\* Mold comes second, before everything that takes the host apart, and the file
\* after the storage VM.
LEMMA StepOrder ==
    /\ Steps \in Seq(StepName) /\ Len(Steps) \in 6..8
    /\ Steps[2] = "remove_mold_host"
    /\ \A i \in 1..Len(Steps) :
         /\ Steps[i] = "remove_mold_host" => i = 2
         /\ Steps[i] \in {"remove_pcs_node", "remove_ceph_host", "delete_scvm",
                          "update_cluster_files"} => i > 2
         /\ Steps[i] = "update_cluster_files" /\ Type \in HCI =>
              i > 3 /\ Steps[i - 1] = "delete_scvm"
<1>1. CASE Type = "ablestack-vm"
  <2>1. /\ Len(Steps) = 6
        /\ Steps[1] = "precheck" /\ Steps[2] = "remove_mold_host"
        /\ Steps[3] = "remove_pcs_node" /\ Steps[4] = "update_cluster_files"
        /\ Steps[5] = "update_monitoring" /\ Steps[6] = "final_verify"
    BY <1>1 DEF Steps, StepNames, HCI
  <2>2. Steps \in Seq(StepName)
    BY <1>1 DEF Steps, StepNames, HCI, StepName
  <2> QED
    BY <1>1, <2>1, <2>2 DEF HCI
<1>2. CASE Type = "ablestack-hci"
  <2>1. /\ Len(Steps) = 7
        /\ Steps[1] = "precheck" /\ Steps[2] = "remove_mold_host"
        /\ Steps[3] = "remove_ceph_host" /\ Steps[4] = "delete_scvm"
        /\ Steps[5] = "update_cluster_files"
        /\ Steps[6] = "update_monitoring" /\ Steps[7] = "final_verify"
    BY <1>2 DEF Steps, StepNames, HCI
  <2>2. Steps \in Seq(StepName)
    BY <1>2 DEF Steps, StepNames, HCI, StepName
  <2> QED
    BY <1>2, <2>1, <2>2 DEF HCI
<1>3. CASE Type = "ablestack-hci-filesystem"
  <2>1. /\ Len(Steps) = 8
        /\ Steps[1] = "precheck" /\ Steps[2] = "remove_mold_host"
        /\ Steps[3] = "remove_pcs_node" /\ Steps[4] = "remove_ceph_host"
        /\ Steps[5] = "delete_scvm" /\ Steps[6] = "update_cluster_files"
        /\ Steps[7] = "update_monitoring" /\ Steps[8] = "final_verify"
    BY <1>3 DEF Steps, StepNames, HCI
  <2>2. Steps \in Seq(StepName)
    BY <1>3 DEF Steps, StepNames, HCI, StepName
  <2> QED
    BY <1>3, <2>1, <2>2 DEF HCI
<1> QED
  BY <1>1, <1>2, <1>3, HostRemoveAssumption DEF HCI

\* Which steps there are for a cluster type.
LEMMA StepsDone ==
    /\ \E i \in 1..Len(Steps) : Steps[i] = "remove_mold_host"
    /\ Type # "ablestack-hci" => \E i \in 1..Len(Steps) : Steps[i] = "remove_pcs_node"
    /\ Type \in HCI => /\ \E i \in 1..Len(Steps) : Steps[i] = "remove_ceph_host"
                       /\ \E i \in 1..Len(Steps) : Steps[i] = "delete_scvm"
<1>1. CASE Type = "ablestack-vm"
  <2>1. Len(Steps) = 6 /\ Steps[2] = "remove_mold_host" /\ Steps[3] = "remove_pcs_node"
    BY <1>1 DEF Steps, StepNames, HCI
  <2> QED
    BY <1>1, <2>1 DEF HCI
<1>2. CASE Type = "ablestack-hci"
  <2>1. /\ Len(Steps) = 7 /\ Steps[2] = "remove_mold_host"
        /\ Steps[3] = "remove_ceph_host" /\ Steps[4] = "delete_scvm"
    BY <1>2 DEF Steps, StepNames, HCI
  <2> QED
    BY <1>2, <2>1 DEF HCI
<1>3. CASE Type = "ablestack-hci-filesystem"
  <2>1. /\ Len(Steps) = 8 /\ Steps[2] = "remove_mold_host"
        /\ Steps[3] = "remove_pcs_node"
        /\ Steps[4] = "remove_ceph_host" /\ Steps[5] = "delete_scvm"
    BY <1>3 DEF Steps, StepNames, HCI
  <2> QED
    BY <1>3, <2>1 DEF HCI
<1> QED
  BY <1>1, <1>2, <1>3, HostRemoveAssumption DEF HCI

\* Doing one more step takes the first of what is left.
LEMMA RestFacts ==
    ASSUME NEW k \in 0..Len(Steps)
    PROVE  /\ k < Len(Steps) => /\ Rest(k) # <<>>
                                /\ Head(Rest(k)) = Steps[k + 1]
                                /\ Tail(Rest(k)) = Rest(k + 1)
           /\ k = Len(Steps) => Rest(k) = <<>>
<1>1. CASE k < Len(Steps)
  <2>1. k + 1 \in 1..Len(Steps) /\ Len(Steps) \in (k + 1)..Len(Steps)
    BY <1>1, StepOrder
  <2>2. Len(Rest(k)) = Len(Steps) - k
    BY <1>1, StepOrder, SubSeqProperties DEF Rest
  <2>3. /\ Head(Rest(k)) = Steps[k + 1]
        /\ Tail(Rest(k)) = SubSeq(Steps, k + 1 + 1, Len(Steps))
    BY <2>1, StepOrder, HeadTailOfSubSeq DEF Rest
  <2>4. Rest(k) # <<>>
    BY <1>1, <2>2, StepOrder
  <2> QED
    BY <1>1, <2>3, <2>4 DEF Rest
<1>2. CASE k = Len(Steps)
  BY <1>2, StepOrder, SubSeqEmpty DEF Rest
<1> QED
  BY <1>1, <1>2, StepOrder

\* RemoveFirst takes out one position and moves those behind it up.
LEMMA WithoutOne ==
    ASSUME NEW s \in Seq(Host), IsInjective(s), NEW i \in 1..Len(s)
    PROVE  LET t == RemoveFirst(s, s[i]) IN
           /\ t \in Seq(Host) /\ Len(t) = Len(s) - 1
           /\ \A k \in 1..Len(t) : /\ k < i => t[k] = s[k]
                                   /\ k >= i => t[k] = s[k + 1]
<1> DEFINE a == SubSeq(s, 1, i - 1)
           b == SubSeq(s, i + 1, Len(s))
<1>1. RemoveFirst(s, s[i]) = a \o b
  <2>1. {k \in 1..Len(s) : s[k] = s[i]} = {i} /\ \E k \in 1..Len(s) : s[k] = s[i]
    BY DEF IsInjective
  <2>2. Min({i}) = i
    BY DEF Min
  <2> QED
    BY <2>1, <2>2, Zenon DEF RemoveFirst, RemoveAt, SelectInSeq
<1>2. a \in Seq(Host) /\ Len(a) = i - 1 /\ \A k \in 1..(i - 1) : a[k] = s[k]
  BY SubSeqProperties
<1>3. b \in Seq(Host) /\ Len(b) = Len(s) - i /\ \A k \in 1..(Len(s) - i) : b[k] = s[k + i]
  BY SubSeqProperties
<1> HIDE DEF a, b
<1>4. /\ a \o b \in Seq(Host) /\ Len(a \o b) = Len(a) + Len(b)
      /\ \A k \in 1..(Len(a) + Len(b)) :
            (a \o b)[k] = IF k <= Len(a) THEN a[k] ELSE b[k - Len(a)]
  BY <1>2, <1>3, ConcatProperties
<1>5. Len(s) \in Nat
  BY LenProperties
<1>6. Len(a \o b) = Len(s) - 1
  BY <1>2, <1>3, <1>4, <1>5
<1>7. ASSUME NEW k \in 1..Len(a \o b)
      PROVE  /\ k < i => (a \o b)[k] = s[k]
             /\ k >= i => (a \o b)[k] = s[k + 1]
  <2>1. /\ i \in Nat /\ k \in Nat /\ k \in 1..(Len(a) + Len(b))
        /\ (a \o b)[k] = IF k <= Len(a) THEN a[k] ELSE b[k - Len(a)]
    BY <1>2, <1>3, <1>4, <1>5
  <2>2. CASE k < i
    <3>1. k \in 1..(i - 1) /\ k <= Len(a)
      BY <1>2, <2>1, <2>2
    <3> QED
      BY <1>2, <2>1, <2>2, <3>1
  <2>3. CASE k >= i
    <3>1. k - Len(a) = k + 1 - i /\ ~(k <= Len(a)) /\ k + 1 - i \in 1..(Len(s) - i)
      BY <1>2, <1>3, <1>5, <2>1, <2>3
    <3>2. b[k + 1 - i] = s[k + 1 - i + i] /\ k + 1 - i + i = k + 1
      BY <1>3, <2>1, <3>1
    <3> QED
      BY <2>1, <2>3, <3>1, <3>2
  <2> QED
    BY <2>1, <2>2, <2>3
<1> QED
  BY <1>1, <1>4, <1>6, <1>7, Zenon

\* Taken out of two lists of which one begins the other.
LEMMA WithoutBoth ==
    ASSUME NEW s \in Seq(Host), IsInjective(s),
           NEW p \in Seq(Host), Len(p) <= Len(s), \A k \in 1..Len(p) : p[k] = s[k],
           NEW i \in 1..Len(s),
           NEW t, t = RemoveFirst(s, s[i]), NEW q, q = RemoveFirst(p, s[i])
    PROVE  /\ t \in Seq(Host) /\ IsInjective(t)
           /\ \A x \in Host : Contains(t, x) <=> Contains(s, x) /\ x # s[i]
           /\ q \in Seq(Host) /\ Len(q) <= Len(t)
           /\ \A k \in 1..Len(q) : q[k] = t[k]
<1> DEFINE h == s[i]
<1>1. Len(s) \in Nat /\ Len(p) \in Nat /\ i \in Nat /\ h \in Host
  BY LenProperties
<1>2. \A k, l \in 1..Len(s) : s[k] = s[l] => k = l
  BY DEF IsInjective
<1>3. /\ t \in Seq(Host) /\ Len(t) = Len(s) - 1
      /\ \A k \in 1..Len(t) : /\ k < i => t[k] = s[k]
                              /\ k >= i => t[k] = s[k + 1]
  BY WithoutOne
<1>4. \/ /\ i <= Len(p)
         /\ q \in Seq(Host) /\ Len(q) = Len(p) - 1
         /\ \A k \in 1..Len(q) : /\ k < i => q[k] = p[k]
                                 /\ k >= i => q[k] = p[k + 1]
      \/ i > Len(p) /\ q = p
  <2>1. CASE i <= Len(p)
    <3>1. i \in 1..Len(p) /\ p[i] = h /\ IsInjective(p)
      BY <1>1, <1>2, <2>1 DEF IsInjective
    <3> QED
      BY <2>1, <3>1, WithoutOne
  <2>2. CASE i > Len(p)
    <3>1. ~\E k \in 1..Len(p) : p[k] = h
      BY <1>1, <1>2, <2>2
    <3>2. q = p
      BY <3>1, Zenon DEF RemoveFirst, RemoveAt, SelectInSeq
    <3> QED
      BY <2>2, <3>2
  <2> QED
    BY <1>1, <2>1, <2>2
<1>5. \A k, l \in 1..Len(t) : t[k] = t[l] => k = l
  <2> SUFFICES ASSUME NEW k \in 1..Len(t), NEW l \in 1..Len(t), t[k] = t[l]
               PROVE  k = l
    OBVIOUS
  <2>1. k \in 1..Len(s) /\ l \in 1..Len(s) /\ k + 1 \in 1..Len(s) /\ l + 1 \in 1..Len(s)
    BY <1>1, <1>3
  <2> QED
    BY <1>1, <1>2, <1>3, <2>1
<1>6. ASSUME NEW x \in Host, NEW k \in 1..Len(t), t[k] = x
      PROVE  x # h /\ \E l \in 1..Len(s) : s[l] = x
  <2>1. k \in 1..Len(s) /\ k + 1 \in 1..Len(s) /\ k \in Nat
    BY <1>1, <1>3
  <2> QED
    BY <1>1, <1>2, <1>3, <1>6, <2>1
<1>7. ASSUME NEW x \in Host, NEW k \in 1..Len(s), s[k] = x, x # h
      PROVE  \E l \in 1..Len(t) : t[l] = x
  <2>1. CASE k < i
    <3>1. k \in 1..Len(t)
      BY <1>1, <1>3, <2>1
    <3> QED
      BY <1>3, <1>7, <2>1, <3>1
  <2>2. CASE k > i
    <3>1. k - 1 \in 1..Len(t) /\ k - 1 >= i /\ (k - 1) + 1 = k
      BY <1>1, <1>3, <2>2
    <3>2. t[k - 1] = s[(k - 1) + 1]
      BY <1>3, <3>1
    <3> QED
      BY <1>7, <3>1, <3>2
  <2> QED
    BY <1>1, <1>7, <2>1, <2>2
<1>8. Len(q) <= Len(t)
  BY <1>1, <1>3, <1>4
<1>9. ASSUME NEW k \in 1..Len(q)
      PROVE  q[k] = t[k]
  <2>1. k \in 1..Len(t) /\ k \in Nat
    BY <1>1, <1>3, <1>4
  <2>2. CASE i <= Len(p)
    <3>1. /\ k < i => q[k] = p[k]
          /\ k >= i => q[k] = p[k + 1]
          /\ k \in 1..Len(p) /\ k + 1 \in 1..Len(p)
      BY <1>1, <1>4, <2>1, <2>2
    <3> QED
      BY <1>1, <1>3, <2>1, <3>1
  <2>3. CASE i > Len(p)
    BY <1>1, <1>3, <1>4, <2>1, <2>3
  <2> QED
    BY <1>1, <2>2, <2>3
<1>10. IsInjective(t)
  BY <1>3, <1>5 DEF IsInjective
<1>11. \A x \in Host : Contains(t, x) <=> Contains(s, x) /\ x # h
  BY <1>6, <1>7 DEF Contains
<1> QED
  BY <1>3, <1>4, <1>8, <1>9, <1>10, <1>11

\* removeHost keeps the two lists in step, and takes nobody else out.
LEMMA WithoutHostFacts ==
    ASSUME NEW c, Lists(c), NEW h \in Host
    PROVE  /\ Lists(WithoutHost(c, h))
           /\ \A x \in Host : Contains(WithoutHost(c, h).hosts, x)
                                <=> Contains(c.hosts, x) /\ x # h
<1>1. CASE ~Contains(c.hosts, h)
  <2>1. WithoutHost(c, h) = c
    BY <1>1 DEF WithoutHost
  <2> QED
    BY <1>1, <2>1
<1>2. CASE Contains(c.hosts, h)
  <2> DEFINE t == RemoveFirst(c.hosts, h)
             p == RemoveFirst(c.pcs, h)
  <2>1. PICK i \in 1..Len(c.hosts) : c.hosts[i] = h
    BY <1>2 DEF Contains
  <2>2. /\ t \in Seq(Host) /\ IsInjective(t)
        /\ \A x \in Host : Contains(t, x) <=> Contains(c.hosts, x) /\ x # h
        /\ p \in Seq(Host) /\ Len(p) <= Len(t)
        /\ \A k \in 1..Len(p) : p[k] = t[k]
    <3> DEFINE s == c.hosts
               u == c.pcs
    <3>1. /\ s \in Seq(Host) /\ IsInjective(s) /\ i \in 1..Len(s) /\ s[i] = h
          /\ u \in Seq(Host) /\ Len(u) <= Len(s)
          /\ \A k \in 1..Len(u) : u[k] = s[k]
      BY <2>1 DEF Lists
    <3>2. t = RemoveFirst(s, s[i]) /\ p = RemoveFirst(u, s[i])
      BY <2>1, Zenon
    <3> HIDE DEF t, p, s, u
    <3>3. /\ t \in Seq(Host) /\ IsInjective(t)
          /\ \A x \in Host : Contains(t, x) <=> Contains(s, x) /\ x # s[i]
          /\ p \in Seq(Host) /\ Len(p) <= Len(t)
          /\ \A k \in 1..Len(p) : p[k] = t[k]
      BY <3>1, <3>2, WithoutBoth
    <3> QED
      BY <3>1, <3>3 DEF s
  <2>3. WithoutHost(c, h) = [hosts |-> t, pcs |-> p]
    BY <1>2, Zenon DEF WithoutHost
  <2> HIDE DEF t, p
  <2> QED
    BY <2>2, <2>3 DEF Lists
<1> QED
  BY <1>1, <1>2

\* The PCS node a removal names is the host's own.
LEMMA PCSNodeIsHost ==
    ASSUME NEW c, Lists(c), NEW h \in Host
    PROVE  PCSNodeFor(c, h) = h
<1> DEFINE At == {k \in 1..Len(c.hosts) : c.hosts[k] = h}
<1>1. CASE Contains(c.hosts, h)
  <2>1. PICK i \in 1..Len(c.hosts) : c.hosts[i] = h
    BY <1>1 DEF Contains
  <2>2. At = {i}
    BY <2>1 DEF Lists, IsInjective
  <2>3. i = Min({i})
    BY DEF Min
  <2>4. PCSNodeFor(c, h) = IF i \in DOMAIN c.pcs THEN c.pcs[i] ELSE h
    BY <2>2, <2>3, Zenon DEF PCSNodeFor, SelectInSeq
  <2> QED
    BY <2>1, <2>4 DEF Lists
<1>2. CASE ~Contains(c.hosts, h)
  <2>1. At = {}
    BY <1>2 DEF Contains
  <2>2. PCSNodeFor(c, h) = IF 0 \in DOMAIN c.pcs THEN c.pcs[0] ELSE h
    BY <2>1, Zenon DEF PCSNodeFor, SelectInSeq
  <2> QED
    BY <2>2 DEF Lists
<1> QED
  BY <1>1, <1>2

-----------------------------------------------------------------------------
(* The frame of a step                                                      *)

\* Nothing that a removal has taken apart comes back.
Onward ==
    /\ \A h \in Host : mold[h] = "Removed" => mold'[h] = "Removed"
    /\ pcs' \subseteq pcs /\ fence' \subseteq fence
    /\ ceph' \subseteq ceph /\ scvm' \subseteq scvm

LEMMA WorkingKept ==
    ASSUME NEW r, Working(r), Onward
    PROVE  Working(r)'
<1>1. ASSUME NEW k \in 0..Len(Steps), Progress(r, k)
      PROVE  Progress(r, k)'
  BY <1>1 DEF Progress, Onward
<1>2. r.pc = "save" /\ Forgets(r.loaded) => Forgets(r.loaded)'
  BY DEF Forgets, Onward
<1>3. Lists(r.cfg)' = Lists(r.cfg) /\ Lists(r.loaded)' = Lists(r.loaded)
  BY DEF Lists
<1> QED
  BY <1>1, <1>2, <1>3 DEF Working

\* A step of one job that keeps that job well-formed keeps them all so.
LEMMA OneJob ==
    ASSUME Jobs, Onward, NEW j \in Job,
           DOMAIN job' = Job, DOMAIN mold' = Host,
           \A i \in Job \ {j} : job'[i] = job[i],
           DOMAIN job'[j] = JobFields, job'[j].pc # "none" => Working(job[j])'
    PROVE  Jobs'
<1>1. ASSUME NEW i \in Job \ {j}, job[i].pc # "none"
      PROVE  Working(job[i])'
  <2>1. PICK r : r = job[i]
    OBVIOUS
  <2>2. job'[i] = r
    BY <2>1
  <2>3. Working(r)
    BY <1>1, <2>1 DEF Jobs
  <2>4. Working(r)'
    BY <2>3, WorkingKept
  <2> QED
    BY <2>2, <2>4 DEF Working, Progress, CephNameOf, Forgets, Lists
<1> QED
  BY <1>1 DEF Jobs

\* A job goes to another point of the step it is in.
LEMMA GoToKeepsJobs ==
    ASSUME Jobs, Onward, DOMAIN mold' = Host, NEW j \in Job, job[j].pc # "none",
           NEW p \in {"step", "prepare", "verify", "delete", "node", "save"},
           GoTo(j, p),
           \A k \in 0..Len(Steps) : Progress(job[j], k) =>
              /\ p \in {"prepare", "verify", "delete"} => k = 1
              /\ p = "node" => /\ k < Len(Steps) /\ Steps[k + 1] = "remove_pcs_node"
                               /\ job[j].host \notin fence',
           p # "save"
    PROVE  Jobs'
<1>1. PICK r : r = job[j]
  OBVIOUS
<1>2. DOMAIN job = Job /\ DOMAIN r = JobFields /\ r.pc # "none" /\ Working(r)
  BY <1>1 DEF Jobs
<1>3. PICK s : s = [r EXCEPT !.pc = p]
  OBVIOUS
<1>4. /\ DOMAIN s = JobFields /\ s.pc = p
      /\ s.host = r.host /\ s.cfg = r.cfg /\ s.loaded = r.loaded /\ s.todo = r.todo
  BY <1>2, <1>3 DEF JobFields
<1>5. /\ DOMAIN job' = Job /\ job'[j] = s
      /\ \A i \in Job \ {j} : job'[i] = job[i]
  BY <1>1, <1>2, <1>3 DEF GoTo
<1>6. PICK k \in 0..Len(Steps) : Progress(r, k)
  BY <1>2 DEF Working
<1>7. Progress(s, k)'
  BY <1>1, <1>4, <1>6 DEF Progress, CephNameOf, Onward
<1>8. Working(s)'
  BY <1>2, <1>4, <1>7 DEF Working, Lists
<1>9. Working(job[j])'
  BY <1>5, <1>8 DEF Working, Progress, CephNameOf, Forgets, Lists
<1> QED
  BY <1>4, <1>5, <1>9, OneJob

\* A job has done a step.
LEMMA NextStepKeepsJobs ==
    ASSUME Jobs, Onward, DOMAIN mold' = Host, NEW j \in Job,
           job[j].pc \notin {"none", "begin"}, NextStep(j),
           NEW k \in 0..Len(Steps), k < Len(Steps), Progress(job[j], k),
           Steps[k + 1] = "remove_mold_host" => mold'[job[j].host] = "Removed",
           Steps[k + 1] = "remove_pcs_node" => job[j].host \notin fence',
           Steps[k + 1] = "remove_ceph_host" => CephNameOf(job[j]) \notin ceph',
           Steps[k + 1] = "delete_scvm" => job[j].host \notin scvm'
    PROVE  Jobs'
<1>1. PICK r : r = job[j]
  OBVIOUS
<1>2. /\ DOMAIN job = Job /\ DOMAIN r = JobFields /\ Working(r)
      /\ Progress(r, k)
  BY <1>1 DEF Jobs, Progress
<1>3. PICK s : s = [r EXCEPT !.pc = "step", !.todo = Tail(r.todo)]
  OBVIOUS
<1>4. /\ DOMAIN s = JobFields /\ s.pc = "step"
      /\ s.host = r.host /\ s.cfg = r.cfg /\ s.loaded = r.loaded
      /\ s.todo = Tail(r.todo)
  BY <1>2, <1>3 DEF JobFields
<1>5. /\ DOMAIN job' = Job /\ job'[j] = s
      /\ \A i \in Job \ {j} : job'[i] = job[i]
  BY <1>1, <1>2, <1>3 DEF NextStep
<1>6. k + 1 \in 0..Len(Steps) /\ Tail(r.todo) = Rest(k + 1)
  BY <1>2, RestFacts, StepOrder DEF Progress
<1>7. Progress(s, k + 1)'
  <2>1. ASSUME NEW i \in 1..(k + 1)
        PROVE  /\ Steps[i] = "remove_mold_host" => mold'[s.host] = "Removed"
               /\ Steps[i] = "remove_pcs_node" => s.host \notin fence'
               /\ Steps[i] = "remove_ceph_host" => CephNameOf(s) \notin ceph'
               /\ Steps[i] = "delete_scvm" => s.host \notin scvm'
    <3>1. CASE i = k + 1
      BY <1>1, <1>4, <3>1 DEF CephNameOf
    <3>2. CASE i # k + 1
      <4>1. i \in 1..k /\ r.host \in Host
        BY <1>2, <3>2, StepOrder DEF Progress
      <4> QED
        BY <1>2, <1>4, <4>1 DEF Progress, CephNameOf, Onward
    <3> QED
      BY <3>1, <3>2
  <2>2. s.host \in Host /\ s.todo = Rest(k + 1)
    BY <1>2, <1>4, <1>6 DEF Progress
  <2> QED
    BY <1>4, <1>6, <2>1, <2>2 DEF Progress, CephNameOf, Rest, Steps
<1>8. Working(s)'
  BY <1>2, <1>4, <1>6, <1>7 DEF Working, Lists
<1>9. Working(job[j])'
  <2>1. job'[j] = s
    BY <1>5
  <2>2. PICK n : n \in 0..Len(Steps) /\ Progress(s, n)'
    BY <1>8 DEF Working
  <2>3. Progress(job[j], n)'
    BY <2>1, <2>2 DEF Progress, CephNameOf
  <2>4. Lists(job'[j].cfg) /\ job'[j].pc # "save"
    BY <1>4, <1>8, <2>1 DEF Working, Lists
  <2> QED
    BY <2>2, <2>3, <2>4 DEF Working, Lists
<1> QED
  BY <1>4, <1>5, <1>9, OneJob

\* A job that has ended is forgotten.
LEMMA EndKeepsJobs ==
    ASSUME Jobs, Onward, DOMAIN mold' = Host, NEW j \in Job,
           job' = [job EXCEPT ![j] = NoJob]
    PROVE  Jobs'
<1>1. /\ DOMAIN job' = Job /\ DOMAIN job'[j] = JobFields /\ job'[j].pc = "none"
      /\ \A i \in Job \ {j} : job'[i] = job[i]
  BY DEF Jobs, NoJob, JobFields
<1> QED
  BY <1>1, OneJob

\* A step that takes nothing apart, and nothing out of the file.
LEMMA NothingLost ==
    ASSUME World, DismantledInOrder, Onward,
           UNCHANGED <<file, pcs, fence, scvm>>
    PROVE  World' /\ DismantledInOrder'
  BY DEF World, DismantledInOrder, Onward, Lists, Forgets

-----------------------------------------------------------------------------
(* The steps                                                                *)

\* Where a job is when it does a given step.
LEMMA StandsAt ==
    ASSUME Jobs, NEW j \in Job, NEW step, AtStep(j, step)
    PROVE  /\ job[j].pc = "step" /\ job[j].host \in Host
           /\ Lists(job[j].cfg)
           /\ \A k \in 0..Len(Steps) :
                 Progress(job[j], k) => k < Len(Steps) /\ Steps[k + 1] = step
           /\ \E k \in 0..Len(Steps) : Progress(job[j], k)
<1>1. Working(job[j]) /\ job[j].pc = "step"
  BY DEF Jobs, AtStep
<1>2. ASSUME NEW k \in 0..Len(Steps), Progress(job[j], k)
      PROVE  k < Len(Steps) /\ Steps[k + 1] = step
  <2>1. Rest(k) # <<>> /\ Head(Rest(k)) = step
    BY <1>2 DEF AtStep, Progress
  <2>2. k < Len(Steps)
    BY <2>1, RestFacts, StepOrder
  <2> QED
    BY <2>1, <2>2, RestFacts
<1>3. job[j].host \in Host
  BY <1>1 DEF Working, Progress
<1> QED
  BY <1>1, <1>2, <1>3 DEF Working

LEMMA PassiveStepKeeps ==
    ASSUME Inv, NEW j \in Job, PassiveStep(j)
    PROVE  Inv'
<1>1. Onward /\ DOMAIN mold' = Host /\ UNCHANGED <<file, pcs, fence, scvm, mold>>
  BY DEF PassiveStep, Inv, Jobs, Onward, world
<1>2. PICK step \in {"precheck", "update_monitoring"} : AtStep(j, step)
  BY DEF PassiveStep
<1>3. PICK k \in 0..Len(Steps) : Progress(job[j], k)
  BY <1>2, StandsAt DEF Inv
<1>4. k < Len(Steps) /\ Steps[k + 1] = step /\ job[j].pc = "step"
  BY <1>2, <1>3, StandsAt DEF Inv
<1>5. Jobs'
  BY <1>1, <1>2, <1>3, <1>4, NextStepKeepsJobs DEF Inv, PassiveStep
<1> QED
  BY <1>1, <1>5, NothingLost DEF Inv

LEMMA MoldListKeeps ==
    ASSUME Inv, NEW j \in Job, MoldList(j)
    PROVE  Inv'
<1>1. Onward /\ DOMAIN mold' = Host /\ UNCHANGED <<file, pcs, fence, scvm, mold>>
  BY DEF MoldList, Inv, Jobs, Onward, world
<1>2. AtStep(j, "remove_mold_host")
  BY DEF MoldList
<1>3. PICK k \in 0..Len(Steps) : Progress(job[j], k)
  BY <1>2, StandsAt DEF Inv
<1>4. \A l \in 0..Len(Steps) : Progress(job[j], l) =>
         l = 1 /\ l < Len(Steps) /\ Steps[l + 1] = "remove_mold_host"
  <2> SUFFICES ASSUME NEW l \in 0..Len(Steps), Progress(job[j], l)
               PROVE  l = 1 /\ l < Len(Steps) /\ Steps[l + 1] = "remove_mold_host"
    OBVIOUS
  <2>1. l < Len(Steps) /\ Steps[l + 1] = "remove_mold_host"
    BY <1>2, StandsAt DEF Inv
  <2>2. l + 1 \in 1..Len(Steps)
    BY <2>1, StepOrder
  <2> QED
    BY <2>1, <2>2, StepOrder
<1>5. CASE mold[job[j].host] = "Removed"
  <2>1. NextStep(j) /\ job[j].pc = "step"
    BY <1>2, <1>5 DEF MoldList, AtStep
  <2>2. Jobs'
    BY <1>1, <1>3, <1>4, <1>5, <2>1, NextStepKeepsJobs DEF Inv
  <2> QED
    BY <1>1, <2>2, NothingLost DEF Inv
<1>6. CASE mold[job[j].host] # "Removed"
  <2>1. PICK p \in {"prepare", "verify"} : GoTo(j, p)
    BY <1>6 DEF MoldList
  <2>2. Jobs'
    BY <1>1, <1>2, <1>4, <2>1, GoToKeepsJobs DEF Inv, AtStep
  <2> QED
    BY <1>1, <2>2, NothingLost DEF Inv
<1> QED
  BY <1>5, <1>6

LEMMA MoldPrepareKeeps ==
    ASSUME Inv, NEW j \in Job, MoldPrepare(j)
    PROVE  Inv'
<1>1. Onward /\ DOMAIN mold' = Host /\ UNCHANGED <<file, pcs, fence, scvm>>
  BY DEF MoldPrepare, Inv, Jobs, Onward
<1>2. \A k \in 0..Len(Steps) : Progress(job[j], k) => k = 1
  BY DEF MoldPrepare, Progress
<1>3. Jobs'
  BY <1>1, <1>2, GoToKeepsJobs DEF Inv, MoldPrepare
<1> QED
  BY <1>1, <1>3, NothingLost DEF Inv

LEMMA MoldVerifyKeeps ==
    ASSUME Inv, NEW j \in Job, MoldVerify(j)
    PROVE  Inv'
<1>1. Onward /\ DOMAIN mold' = Host /\ UNCHANGED <<file, pcs, fence, scvm>>
  BY DEF MoldVerify, Inv, Jobs, Onward, world
<1>2. \A k \in 0..Len(Steps) : Progress(job[j], k) => k = 1
  BY DEF MoldVerify, Progress
<1>3. Jobs'
  BY <1>1, <1>2, GoToKeepsJobs DEF Inv, MoldVerify
<1> QED
  BY <1>1, <1>3, NothingLost DEF Inv

LEMMA MoldDeleteKeeps ==
    ASSUME Inv, NEW j \in Job, MoldDelete(j)
    PROVE  Inv'
<1>1. /\ Onward /\ DOMAIN mold' = Host /\ UNCHANGED <<file, pcs, fence, scvm>>
      /\ job[j].pc = "delete" /\ NextStep(j)
  BY DEF MoldDelete, Inv, Jobs, Onward, World
<1>2. Working(job[j])
  BY <1>1 DEF Inv, Jobs
<1>3. job[j].host \in Host /\ Progress(job[j], 1)
  BY <1>1, <1>2 DEF Working, Progress
<1>4. mold'[job[j].host] = "Removed"
  BY <1>3 DEF MoldDelete, Inv, Jobs
<1>5. 1 \in 0..Len(Steps) /\ 1 < Len(Steps) /\ Steps[1 + 1] = "remove_mold_host"
  BY StepOrder
<1>6. Jobs'
  BY <1>1, <1>3, <1>4, <1>5, NextStepKeepsJobs DEF Inv
<1> QED
  BY <1>1, <1>6, NothingLost DEF Inv

\* Before anything else is done to a host, Mold has removed it.
LEMMA MoldCameFirst ==
    ASSUME NEW r, NEW k \in 0..Len(Steps), Progress(r, k), k < Len(Steps),
           Steps[k + 1] \in {"remove_pcs_node", "remove_ceph_host", "delete_scvm",
                             "update_cluster_files"}
    PROVE  mold[r.host] = "Removed"
<1>1. k + 1 \in 1..Len(Steps) /\ k \in Nat
  BY StepOrder
<1>2. k + 1 > 2
  BY <1>1, StepOrder
<1>3. 2 \in 1..k
  BY <1>1, <1>2
<1> QED
  BY <1>3, StepOrder DEF Progress

LEMMA DeleteFenceKeeps ==
    ASSUME Inv, NEW j \in Job, DeleteFence(j)
    PROVE  Inv'
<1>1. AtStep(j, "remove_pcs_node") /\ GoTo(j, "node") /\ job[j].pc = "step"
  BY DEF DeleteFence, AtStep
<1>2. Onward /\ DOMAIN mold' = Host /\ fence' = fence \ {job[j].host}
      /\ UNCHANGED <<file, mold, pcs, scvm>>
  BY DEF DeleteFence, Inv, Jobs, Onward
<1>3. PICK k \in 0..Len(Steps) : Progress(job[j], k)
  BY <1>1, StandsAt DEF Inv
<1>4. k < Len(Steps) /\ Steps[k + 1] = "remove_pcs_node"
  BY <1>1, <1>3, StandsAt DEF Inv
<1>5. mold[job[j].host] = "Removed"
  BY <1>3, <1>4, MoldCameFirst
<1>6. Jobs'
  BY <1>1, <1>2, StandsAt, GoToKeepsJobs DEF Inv
<1>7. World'
  BY <1>2 DEF Inv, World, Lists, Forgets, Onward
<1>8. DismantledInOrder'
  BY <1>2, <1>5 DEF Inv, DismantledInOrder
<1> QED
  BY <1>6, <1>7, <1>8 DEF Inv

LEMMA RemovePCSNodeKeeps ==
    ASSUME Inv, NEW j \in Job, RemovePCSNode(j)
    PROVE  Inv'
<1>1. job[j].pc = "node" /\ NextStep(j) /\ Working(job[j])
  BY DEF RemovePCSNode, Inv, Jobs
<1>2. PICK k \in 0..Len(Steps) : Progress(job[j], k)
  BY <1>1 DEF Working
<1>3. /\ k < Len(Steps) /\ Steps[k + 1] = "remove_pcs_node"
      /\ job[j].host \notin fence /\ job[j].host \in Host
  BY <1>1, <1>2 DEF Progress
<1>4. mold[job[j].host] = "Removed"
  BY <1>2, <1>3, MoldCameFirst
<1>5. PCSNodeFor(job[j].cfg, job[j].host) = job[j].host
  BY <1>1, <1>3, PCSNodeIsHost DEF Working
<1>6. Onward /\ DOMAIN mold' = Host /\ pcs' = pcs \ {job[j].host}
      /\ UNCHANGED <<file, mold, fence, scvm>>
  BY <1>5 DEF RemovePCSNode, Inv, Jobs, Onward
<1>7. Jobs'
  BY <1>1, <1>2, <1>3, <1>6, NextStepKeepsJobs DEF Inv
<1>8. World'
  BY <1>6 DEF Inv, World, Lists, Forgets, Onward
<1>9. DismantledInOrder'
  BY <1>4, <1>6 DEF Inv, DismantledInOrder
<1> QED
  BY <1>7, <1>8, <1>9 DEF Inv

LEMMA RemoveCephHostKeeps ==
    ASSUME Inv, NEW j \in Job, RemoveCephHost(j)
    PROVE  Inv'
<1>1. AtStep(j, "remove_ceph_host") /\ NextStep(j) /\ job[j].pc = "step"
  BY DEF RemoveCephHost, AtStep
<1>2. /\ Onward /\ DOMAIN mold' = Host /\ UNCHANGED <<file, mold, pcs, fence, scvm>>
      /\ CephNameOf(job[j]) \notin ceph'
  BY DEF RemoveCephHost, CephNameOf, Inv, Jobs, Onward
<1>3. PICK k \in 0..Len(Steps) : Progress(job[j], k)
  BY <1>1, StandsAt DEF Inv
<1>4. k < Len(Steps) /\ Steps[k + 1] = "remove_ceph_host"
  BY <1>1, <1>3, StandsAt DEF Inv
<1>5. Jobs'
  BY <1>1, <1>2, <1>3, <1>4, NextStepKeepsJobs DEF Inv
<1> QED
  BY <1>2, <1>5, NothingLost DEF Inv

LEMMA DeleteSCVMKeeps ==
    ASSUME Inv, NEW j \in Job, DeleteSCVM(j)
    PROVE  Inv'
<1>1. AtStep(j, "delete_scvm") /\ NextStep(j) /\ job[j].pc = "step"
  BY DEF DeleteSCVM, AtStep
<1>2. Onward /\ DOMAIN mold' = Host /\ scvm' = scvm \ {job[j].host}
      /\ UNCHANGED <<file, mold, pcs, fence>>
  BY DEF DeleteSCVM, Inv, Jobs, Onward
<1>3. PICK k \in 0..Len(Steps) : Progress(job[j], k)
  BY <1>1, StandsAt DEF Inv
<1>4. k < Len(Steps) /\ Steps[k + 1] = "delete_scvm"
  BY <1>1, <1>3, StandsAt DEF Inv
<1>5. mold[job[j].host] = "Removed"
  BY <1>3, <1>4, MoldCameFirst
<1>6. Jobs'
  BY <1>1, <1>2, <1>3, <1>4, NextStepKeepsJobs DEF Inv
<1>7. World'
  BY <1>2 DEF Inv, World, Lists, Forgets, Onward
<1>8. DismantledInOrder'
  BY <1>2, <1>5 DEF Inv, DismantledInOrder
<1> QED
  BY <1>6, <1>7, <1>8 DEF Inv

LEMMA LoadFileKeeps ==
    ASSUME Inv, NEW j \in Job, LoadFile(j)
    PROVE  Inv'
<1>1. AtStep(j, "update_cluster_files") /\ job[j].pc = "step"
  BY DEF LoadFile, AtStep
<1>2. Onward /\ DOMAIN mold' = Host /\ UNCHANGED <<file, mold, pcs, fence, ceph, scvm>>
  BY DEF LoadFile, Inv, Jobs, Onward, world
<1>3. PICK r : r = job[j]
  OBVIOUS
<1>4. DOMAIN job = Job /\ DOMAIN r = JobFields /\ r.pc = "step" /\ Working(r)
  BY <1>1, <1>3 DEF Inv, Jobs
<1>5. PICK s : s = [r EXCEPT !.pc = "save", !.loaded = file]
  OBVIOUS
<1>6. /\ DOMAIN s = JobFields /\ s.pc = "save" /\ s.loaded = file
      /\ s.host = r.host /\ s.cfg = r.cfg /\ s.todo = r.todo
  BY <1>4, <1>5 DEF JobFields
<1>7. /\ DOMAIN job' = Job /\ job'[j] = s
      /\ \A i \in Job \ {j} : job'[i] = job[i]
  BY <1>3, <1>4, <1>5 DEF LoadFile
<1>8. PICK k \in 0..Len(Steps) : Progress(r, k)
  BY <1>4 DEF Working
<1>9. k < Len(Steps) /\ Steps[k + 1] = "update_cluster_files"
  BY <1>1, <1>3, <1>8, StandsAt DEF Inv
<1>10. Progress(s, k)'
  BY <1>2, <1>6, <1>8, <1>9 DEF Progress, CephNameOf, Rest, Steps
<1>11. Lists(s.cfg) /\ Lists(s.loaded) /\ Forgets(s.loaded)'
  BY <1>2, <1>4, <1>6 DEF Inv, World, Working, Forgets
<1>12. Working(job[j])'
  <2>1. (\E l \in 0..Len(Steps) : Progress(job[j], l))'
    BY <1>7, <1>10 DEF Progress, CephNameOf, Rest, Steps
  <2>2. Lists(job[j].cfg)' /\ Lists(job[j].loaded)'
    BY <1>7, <1>11 DEF Lists
  <2>3. Forgets(job[j].loaded)'
    BY <1>7, <1>11 DEF Forgets
  <2> QED
    BY <2>1, <2>2, <2>3, Zenon DEF Working
<1>13. Jobs'
  BY <1>2, <1>6, <1>7, <1>12, OneJob DEF Inv
<1> QED
  BY <1>2, <1>13, NothingLost DEF Inv

LEMMA SaveFileKeeps ==
    ASSUME Inv, NEW j \in Job, SaveFile(j)
    PROVE  Inv'
<1>1. PICK r : r = job[j]
  OBVIOUS
<1>2. r.pc = "save" /\ job[j].pc = "save" /\ NextStep(j) /\ Working(r)
  BY <1>1 DEF SaveFile, Inv, Jobs
<1>3. PICK k \in 0..Len(Steps) : Progress(r, k)
  BY <1>2 DEF Working
<1>4. k < Len(Steps) /\ Steps[k + 1] = "update_cluster_files" /\ r.host \in Host
  BY <1>2, <1>3 DEF Progress
<1>5. mold[r.host] = "Removed"
  BY <1>3, <1>4, MoldCameFirst
<1>6. r.host \notin scvm
  <2>1. CASE Type \in HCI
    <3>1. k + 1 \in 1..Len(Steps) /\ k \in Nat
      BY <1>4, StepOrder
    <3>2. k + 1 > 3 /\ Steps[(k + 1) - 1] = "delete_scvm"
      BY <1>4, <2>1, <3>1, StepOrder
    <3>3. k \in 1..k /\ Steps[k] = "delete_scvm"
      BY <3>1, <3>2
    <3> QED
      BY <1>3, <3>3 DEF Progress
  <2>2. CASE Type \notin HCI
    BY <2>2 DEF Inv, World
  <2> QED
    BY <2>1, <2>2
<1>7. /\ Onward /\ DOMAIN mold' = Host /\ file' = WithoutHost(r.loaded, r.host)
      /\ UNCHANGED <<mold, pcs, fence, scvm>>
  BY <1>1 DEF SaveFile, Inv, Jobs, Onward
<1>8. Jobs'
  BY <1>1, <1>2, <1>3, <1>4, <1>7, NextStepKeepsJobs DEF Inv
<1>9. /\ Lists(file')
      /\ \A x \in Host : Contains(file'.hosts, x)
                           <=> Contains(r.loaded.hosts, x) /\ x # r.host
  BY <1>2, <1>4, <1>7, WithoutHostFacts DEF Working
<1>10. \A x \in Host : ~Contains(file'.hosts, x) => mold[x] = "Removed" /\ x \notin scvm
  BY <1>2, <1>5, <1>6, <1>9 DEF Working, Forgets
<1>11. World'
  BY <1>7, <1>9, <1>10 DEF Inv, World, Lists, Forgets, Onward
<1>12. DismantledInOrder'
  BY <1>7, <1>10 DEF Inv, DismantledInOrder
<1> QED
  BY <1>8, <1>11, <1>12 DEF Inv

LEMMA FinalVerifyKeeps ==
    ASSUME Inv, NEW j \in Job, FinalVerify(j)
    PROVE  Inv'
<1>1. AtStep(j, "final_verify") /\ NextStep(j) /\ job[j].pc = "step"
  BY DEF FinalVerify, AtStep
<1>2. Onward /\ DOMAIN mold' = Host /\ UNCHANGED <<file, mold, pcs, fence, scvm>>
  BY DEF FinalVerify, Inv, Jobs, Onward, world
<1>3. PICK k \in 0..Len(Steps) : Progress(job[j], k)
  BY <1>1, StandsAt DEF Inv
<1>4. k < Len(Steps) /\ Steps[k + 1] = "final_verify"
  BY <1>1, <1>3, StandsAt DEF Inv
<1>5. Jobs'
  BY <1>1, <1>2, <1>3, <1>4, NextStepKeepsJobs DEF Inv
<1> QED
  BY <1>2, <1>5, NothingLost DEF Inv

\* The job ends, after its last step or where it failed.
LEMMA EndKeeps ==
    ASSUME Inv, NEW j \in Job, Finish(j) \/ Fail(j)
    PROVE  Inv'
<1>1. /\ Onward /\ DOMAIN mold' = Host /\ UNCHANGED <<file, mold, pcs, fence, scvm>>
      /\ job' = [job EXCEPT ![j] = NoJob]
  BY DEF Finish, Fail, Inv, Jobs, Onward, world
<1>2. Jobs'
  BY <1>1, EndKeepsJobs DEF Inv
<1> QED
  BY <1>1, <1>2, NothingLost DEF Inv

LEMMA BeginKeeps ==
    ASSUME Inv, NEW j \in Job, Begin(j)
    PROVE  Inv'
<1>1. /\ Onward /\ DOMAIN mold' = Host /\ UNCHANGED <<file, mold, pcs, fence, ceph, scvm>>
      /\ job[j].pc # "none" /\ job' = [job EXCEPT ![j].pc = "step"]
  BY DEF Begin, Inv, Jobs, Onward, world
<1>2. PICK r : r = job[j]
  OBVIOUS
<1>3. DOMAIN job = Job /\ DOMAIN r = JobFields /\ Working(r)
  BY <1>1, <1>2 DEF Inv, Jobs
<1>4. PICK s : s = [r EXCEPT !.pc = "step"]
  OBVIOUS
<1>5. /\ DOMAIN s = JobFields /\ s.pc = "step"
      /\ s.host = r.host /\ s.cfg = r.cfg /\ s.todo = r.todo
  BY <1>3, <1>4 DEF JobFields
<1>6. /\ DOMAIN job' = Job /\ job'[j] = s
      /\ \A i \in Job \ {j} : job'[i] = job[i]
  BY <1>1, <1>2, <1>3, <1>4
<1>7. PICK k \in 0..Len(Steps) : Progress(r, k)
  BY <1>3 DEF Working
<1>8. Working(job[j])'
  <2>1. Progress(s, k)'
    BY <1>1, <1>5, <1>7 DEF Progress, CephNameOf, Rest, Steps
  <2>2. (\E l \in 0..Len(Steps) : Progress(job[j], l))'
    BY <1>6, <2>1 DEF Progress, CephNameOf, Rest, Steps
  <2>3. Lists(job[j].cfg)'
    BY <1>3, <1>5, <1>6 DEF Working, Lists
  <2>4. job'[j].pc # "save"
    BY <1>5, <1>6
  <2> QED
    BY <2>2, <2>3, <2>4, Zenon DEF Working
<1>9. Jobs'
  BY <1>1, <1>5, <1>6, <1>8, OneJob DEF Inv
<1> QED
  BY <1>1, <1>9, NothingLost DEF Inv

\* A new job has done nothing, and works with the file as it is.
LEMMA StartKeeps ==
    ASSUME Inv, NEW j \in Job, NEW h \in Host, StartHostRemove(j, h)
    PROVE  Inv'
<1>1. /\ Onward /\ DOMAIN mold' = Host /\ UNCHANGED <<file, mold, pcs, fence, scvm>>
  BY DEF StartHostRemove, Inv, Jobs, Onward, world
<1>2. PICK s : s = [NoJob EXCEPT !.pc = "begin", !.host = h, !.cfg = file,
                                 !.todo = StepNames(Type)]
  OBVIOUS
<1>3. /\ DOMAIN s = JobFields /\ s.pc = "begin" /\ s.host = h /\ s.cfg = file
      /\ s.todo = Steps
  BY <1>2 DEF NoJob, JobFields, Steps
<1>4. /\ DOMAIN job' = Job /\ job'[j] = s
      /\ \A i \in Job \ {j} : job'[i] = job[i]
  BY <1>2 DEF StartHostRemove, Inv, Jobs
<1>5. Rest(0) = Steps /\ 0 \in 0..Len(Steps)
  <2>1. Steps \in Seq(StepName) /\ Len(Steps) \in Nat
    BY StepOrder
  <2>2. SubSeq(Steps, 1, Len(Steps)) = Steps
    BY <2>1, SubSeqFull
  <2> QED
    BY <2>1, <2>2 DEF Rest
<1>6. Working(job[j])'
  <2>1. Progress(s, 0)'
    BY <1>3, <1>5 DEF Progress, CephNameOf, Rest, Steps
  <2>2. (\E l \in 0..Len(Steps) : Progress(job[j], l))'
    BY <1>4, <1>5, <2>1 DEF Progress, CephNameOf, Rest, Steps
  <2>3. Lists(job[j].cfg)'
    BY <1>3, <1>4 DEF Inv, World, Lists
  <2>4. job'[j].pc # "save"
    BY <1>3, <1>4
  <2> QED
    BY <2>2, <2>3, <2>4, Zenon DEF Working
<1>7. Jobs'
  BY <1>1, <1>3, <1>4, <1>6, OneJob DEF Inv
<1> QED
  BY <1>1, <1>7, NothingLost DEF Inv

-----------------------------------------------------------------------------
(* The theorems                                                             *)

LEMMA StepKeepsInv ==
    ASSUME Inv, [Next]_vars
    PROVE  Inv'
<1>1. ASSUME NEW j \in Job, JobStep(j)
      PROVE  Inv'
  BY <1>1, BeginKeeps, PassiveStepKeeps, MoldListKeeps, MoldPrepareKeeps, MoldVerifyKeeps,
     MoldDeleteKeeps, DeleteFenceKeeps, RemovePCSNodeKeeps, RemoveCephHostKeeps,
     DeleteSCVMKeeps, LoadFileKeeps, SaveFileKeeps, FinalVerifyKeeps, EndKeeps DEF JobStep
<1>2. CASE UNCHANGED vars
  BY <1>2 DEF Inv, Jobs, World, DismantledInOrder, Working, Progress, CephNameOf, Lists, Forgets,
              Rest, Steps, vars, world
<1> QED
  BY <1>1, <1>2, StartKeeps DEF Next

\* The PCS list has the first of the hosts, in their order: the code finds a
\* host's PCS address at the host's position.
PCSFirst ==
    /\ Len(PCSList) <= Len(Hosts)
    /\ \A i \in 1..Len(PCSList) : PCSList[i] = Hosts[i]

LEMMA InitInv ==
    ASSUME PCSFirst, Init
    PROVE  Inv
<1>1. \A h \in Host : Contains(Hosts, h)
  BY HostRemoveAssumption DEF Host, ToSet, Contains
<1>2. Lists(file) /\ Forgets(file)
  BY <1>1, HostRemoveAssumption DEF Init, PCSFirst, Lists, Forgets
<1>3. Jobs /\ World
  BY <1>2 DEF Init, Jobs, World, NoJob, JobFields
<1>4. DismantledInOrder
  BY <1>1 DEF Init, DismantledInOrder
<1> QED
  BY <1>3, <1>4 DEF Inv

\* Whatever fails, is retried or runs at the same time, a removal takes its own
\* host apart and no other, from the top: Mold, then the PCS cluster and the
\* storage VM, and cluster.json last (runHostRemoveJob, removeHostPCSNode,
\* removeHost).
THEOREM DismantledSafe ==
    ASSUME PCSFirst
    PROVE  Spec => []DismantledInOrder
<1>1. Init => Inv
  BY InitInv
<1>2. Inv /\ [Next]_vars => Inv'
  BY StepKeepsInv
<1>3. Inv => DismantledInOrder
  BY DEF Inv
<1> QED
  BY <1>1, <1>2, <1>3, PTL DEF Spec

-----------------------------------------------------------------------------
(* What a success means                                                     *)

\* With one host more than the minimum, only one removal ever starts from the
\* whole list: the next sees a list that is too short.
FewHosts == Type \in HCI => Len(Hosts) <= Minimum + 1

Status == {"none", "queued", "running", "succeeded", "failed", "gone", ""}

Known(hosts) == hosts = Hosts \/ Len(hosts) <= Minimum

\* Hosts have not been renumbered for any job that runs.
Numbered ==
    Type \in HCI =>
       /\ Known(file.hosts)
       /\ \A j \in Job : job[j].pc # "none" =>
             /\ job[j].cfg.hosts = Hosts
             /\ job[j].pc = "save" => Known(job[j].loaded.hosts)

Entries == entry \in [Job -> [status : Status]]

LEMMA EntriesKept ==
    ASSUME Entries, [Next]_vars
    PROVE  Entries'
<1>1. ASSUME NEW j \in Job, NEW h \in Host, StartHostRemove(j, h)
      PROVE  Entries'
  BY <1>1, Zenon DEF StartHostRemove, Entries, Status
<1>2. ASSUME NEW j \in Job, JobStep(j)
      PROVE  Entries'
  BY <1>2 DEF JobStep, Begin, PassiveStep, MoldList, MoldPrepare, MoldVerify, MoldDelete,
              DeleteFence, RemovePCSNode, RemoveCephHost, DeleteSCVM, LoadFile, SaveFile,
              FinalVerify, Finish, Fail, Update, Touch, NextStep, GoTo, Entries, Status
<1>3. CASE UNCHANGED vars
  BY <1>3 DEF vars, Entries
<1> QED
  BY <1>1, <1>2, <1>3 DEF Next

\* removeHost leaves a list that allows no other removal.
LEMMA KnownWithout ==
    ASSUME FewHosts, Type \in HCI, NEW c, Lists(c), Known(c.hosts), NEW h
    PROVE  Known(WithoutHost(c, h).hosts)
<1>1. CASE ~Contains(c.hosts, h)
  BY <1>1 DEF WithoutHost
<1>2. CASE Contains(c.hosts, h)
  <2>1. PICK s : s = c.hosts
    OBVIOUS
  <2>2. PICK i \in 1..Len(s) : s[i] = h
    BY <1>2, <2>1 DEF Contains
  <2>3. s \in Seq(Host) /\ IsInjective(s) /\ Len(s) \in Nat
    BY <2>1, LenProperties DEF Lists
  <2>4. Len(RemoveFirst(s, s[i])) = Len(s) - 1
    BY <2>3, WithoutOne
  <2>5. WithoutHost(c, h).hosts = RemoveFirst(s, s[i])
    BY <1>2, <2>1, <2>2, Zenon DEF WithoutHost
  <2>6. Len(s) - 1 <= Minimum
    BY <2>1, <2>3 DEF Known, FewHosts, Minimum
  <2> QED
    BY <2>4, <2>5, <2>6 DEF Known
<1> QED
  BY <1>1, <1>2

LEMMA NumberedKept ==
    ASSUME FewHosts, Inv, Numbered, [Next]_vars
    PROVE  Numbered'
<1> SUFFICES ASSUME Type \in HCI
             PROVE  Numbered'
  BY DEF Numbered
<1>1. ASSUME NEW j \in Job, NEW h \in Host, StartHostRemove(j, h)
      PROVE  Numbered'
  <2>1. file.hosts = Hosts
    <3>1. Len(file.hosts) > Minimum /\ Len(file.hosts) \in Nat
      BY <1>1, LenProperties DEF StartHostRemove, ValidateHostRemoval, Inv, World, Lists
    <3> QED
      BY <3>1 DEF Numbered, Known, Minimum
  <2>2. PICK s : s = [NoJob EXCEPT !.pc = "begin", !.host = h, !.cfg = file,
                                   !.todo = StepNames(Type)]
    OBVIOUS
  <2>3. s.pc = "begin" /\ s.cfg = file
    BY <2>2 DEF NoJob
  <2>4. /\ job'[j] = s /\ file' = file
        /\ \A i \in Job \ {j} : job'[i] = job[i]
    BY <1>1, <2>2 DEF StartHostRemove, Inv, Jobs, world
  <2> QED
    BY <2>1, <2>3, <2>4 DEF Numbered, Known
<1>2. ASSUME NEW j \in Job, JobStep(j)
      PROVE  Numbered'
  <2>1. /\ DOMAIN job' = Job
        /\ \A i \in Job \ {j} : job'[i] = job[i]
        /\ job'[j].pc # "none" => job[j].pc # "none" /\ job'[j].cfg = job[j].cfg
        /\ job'[j].pc = "save" =>
              job'[j].loaded = file \/ (job[j].pc = "save" /\ job'[j].loaded = job[j].loaded)
        /\ file' = file \/ SaveFile(j)
    <3>1. file' = file \/ SaveFile(j)
      BY <1>2 DEF JobStep, Begin, PassiveStep, MoldList, MoldPrepare, MoldVerify,
                  MoldDelete, DeleteFence, RemovePCSNode, RemoveCephHost, DeleteSCVM,
                  LoadFile, FinalVerify, Finish, Fail, world
    <3>2. \/ /\ job[j].pc # "none"
             /\ \/ \E p \in {"step", "prepare", "verify", "delete", "node"} :
                      job' = [job EXCEPT ![j].pc = p]
                \/ NextStep(j)
                \/ job' = [job EXCEPT ![j].pc = "save", ![j].loaded = file]
          \/ job' = [job EXCEPT ![j] = NoJob]
      BY <1>2, Zenon DEF JobStep, Begin, PassiveStep, AtStep, MoldList, MoldPrepare,
                  MoldVerify, MoldDelete, DeleteFence, RemovePCSNode, RemoveCephHost,
                  DeleteSCVM, LoadFile, SaveFile, FinalVerify, Finish, Fail, GoTo
    <3>3. DOMAIN job = Job /\ DOMAIN job[j] = JobFields
      BY DEF Inv, Jobs
    <3>5. CASE job[j].pc # "none" /\ \E p \in {"step", "prepare", "verify", "delete", "node"} :
                  job' = [job EXCEPT ![j].pc = p]
      BY <3>1, <3>3, <3>5 DEF JobFields
    <3>6. CASE job[j].pc # "none" /\ NextStep(j)
      BY <3>1, <3>3, <3>6 DEF NextStep, JobFields
    <3>7. CASE job[j].pc # "none" /\ job' = [job EXCEPT ![j].pc = "save", ![j].loaded = file]
      BY <3>1, <3>3, <3>7 DEF JobFields
    <3>8. CASE job' = [job EXCEPT ![j] = NoJob]
      BY <3>1, <3>3, <3>8 DEF NoJob
    <3> QED
      BY <3>2, <3>5, <3>6, <3>7, <3>8
  <2>2. CASE file' = file
    BY <2>1, <2>2 DEF Numbered
  <2>3. CASE SaveFile(j)
    <3>1. PICK r : r = job[j]
      OBVIOUS
    <3>2. r.pc = "save" /\ file' = WithoutHost(r.loaded, r.host)
      BY <2>3, <3>1 DEF SaveFile
    <3>3. Lists(r.loaded) /\ Known(r.loaded.hosts)
      BY <3>1, <3>2 DEF Inv, Jobs, Working, Numbered
    <3>4. Known(file'.hosts)
      BY <3>2, <3>3, KnownWithout
    <3>5. job'[j].pc # "save"
      BY <2>3 DEF SaveFile, NextStep, Inv, Jobs, JobFields
    <3> QED
      BY <2>1, <3>4, <3>5 DEF Numbered
  <2> QED
    BY <2>1, <2>2, <2>3
<1>3. CASE UNCHANGED vars
  BY <1>3 DEF vars, world, Numbered, Known
<1> QED
  BY <1>1, <1>2, <1>3 DEF Next

\* At the end of a job all its steps have been done.
LEMMA FinishedAll ==
    ASSUME Inv, NEW j \in Job, Finish(j)
    PROVE  /\ job[j].host \in Host /\ mold[job[j].host] = "Removed"
           /\ job[j].host \notin scvm
           /\ Type # "ablestack-hci" => job[j].host \notin fence
           /\ Type \in HCI => CephNameOf(job[j]) \notin ceph
           /\ Type \notin HCI => ceph = {}
<1>1. PICK r : r = job[j]
  OBVIOUS
<1>2. r.pc = "step" /\ r.todo = <<>> /\ Working(r)
  BY <1>1 DEF Finish, Inv, Jobs
<1>3. PICK k \in 0..Len(Steps) : Progress(r, k)
  BY <1>2 DEF Working
<1>4. k = Len(Steps)
  BY <1>2, <1>3, RestFacts, StepOrder DEF Progress
<1>5. \A i \in 1..Len(Steps) :
         /\ Steps[i] = "remove_mold_host" => mold[r.host] = "Removed"
         /\ Steps[i] = "remove_pcs_node" => r.host \notin fence
         /\ Steps[i] = "remove_ceph_host" => CephNameOf(r) \notin ceph
         /\ Steps[i] = "delete_scvm" => r.host \notin scvm
  BY <1>3, <1>4 DEF Progress
<1>6. /\ \E i \in 1..Len(Steps) : Steps[i] = "remove_mold_host"
      /\ Type # "ablestack-hci" => \E i \in 1..Len(Steps) : Steps[i] = "remove_pcs_node"
      /\ Type \in HCI => /\ \E i \in 1..Len(Steps) : Steps[i] = "remove_ceph_host"
                         /\ \E i \in 1..Len(Steps) : Steps[i] = "delete_scvm"
  BY StepsDone
<1>7. r.host \in Host
  BY <1>3 DEF Progress
<1>8. Type \notin HCI => scvm = {} /\ ceph = {}
  BY DEF Inv, World
<1> QED
  BY <1>1, <1>5, <1>6, <1>7, <1>8

LEMMA SucceedsAtTheEnd ==
    ASSUME Entries, [Next]_vars, NEW j \in Job,
           entry[j].status # "succeeded", entry'[j].status = "succeeded"
    PROVE  Finish(j)
<1>1. ASSUME NEW i \in Job, NEW h \in Host, StartHostRemove(i, h)
      PROVE  FALSE
  BY <1>1 DEF StartHostRemove, Entries, Status
<1>2. ASSUME NEW i \in Job, JobStep(i)
      PROVE  Finish(j)
  <2>1. Finish(i) \/ Update(i, "running") \/ Update(i, "failed") \/ Touch(i) \/ entry' = entry
    BY <1>2, Zenon DEF JobStep, Begin, PassiveStep, MoldList, MoldPrepare, MoldVerify,
                MoldDelete, DeleteFence, RemovePCSNode, RemoveCephHost, DeleteSCVM,
                LoadFile, SaveFile, FinalVerify, Fail, NextStep, GoTo
  <2>2. entry \in [Job -> [status : Status]]
    BY DEF Entries
  <2>3. ~Update(i, "running") /\ ~Update(i, "failed")
    BY <2>2 DEF Update
  <2>4. ~Touch(i)
    BY <2>2 DEF Touch
  <2>5. Finish(i)
    BY <2>1, <2>3, <2>4
  <2>6. i = j
    BY <2>2, <2>5 DEF Finish, Update
  <2> QED
    BY <2>5, <2>6
<1>3. CASE UNCHANGED vars
  BY <1>3 DEF vars
<1> QED
  BY <1>1, <1>2, <1>3 DEF Next

\* As long as nobody has been renumbered, Ceph knows the host by that name.
LEMMA OwnCephName ==
    ASSUME Inv, Numbered, Type \in HCI, NEW j \in Job, job[j].pc # "none"
    PROVE  CephNameOf(job[j]) = job[j].host
<1>1. PICK r : r = job[j]
  OBVIOUS
<1>2. r.cfg.hosts = Hosts /\ r.host \in Host
  BY <1>1 DEF Inv, Jobs, Working, Progress, Numbered
<1>3. PICK i \in 1..Len(Hosts) : Hosts[i] = r.host
  BY <1>2, HostRemoveAssumption DEF Host, ToSet
<1>4. {k \in 1..Len(Hosts) : Hosts[k] = r.host} = {i} /\ i \in DOMAIN Hosts
  BY <1>3, HostRemoveAssumption DEF IsInjective
<1>5. Min({i}) = i
  BY DEF Min
<1>6. SCVMNumber(r.cfg, r.host) = i
  BY <1>2, <1>4, <1>5, Zenon DEF SCVMNumber, SelectInSeq
<1> QED
  BY <1>1, <1>3, <1>4, <1>6 DEF CephNameOf, SCVMNamed

\* However large the cluster is, a job that reports success has removed its host
\* from Mold, with its storage VM and its fence device (runHostRemoveJob).
SuccessMeansDismantled ==
    [][\A j \in Job :
          entry[j].status # "succeeded" /\ entry'[j].status = "succeeded" =>
             LET h == job[j].host IN
             /\ mold[h] = "Removed" /\ h \notin scvm
             /\ Type # "ablestack-hci" => h \notin fence]_vars

LEMMA InitEntries == Init => Entries
  BY DEF Init, Entries, NoEntry, Status

\* In a cluster of any size, whatever other jobs have done or left undone,
\* success means that the host is gone from Mold and PCS, with its storage VM.
THEOREM SuccessIsDismantled ==
    ASSUME PCSFirst
    PROVE  Spec => SuccessMeansDismantled
<1> DEFINE Gone ==
      \A j \in Job :
         entry[j].status # "succeeded" /\ entry'[j].status = "succeeded" =>
            LET h == job[j].host IN
            /\ mold[h] = "Removed" /\ h \notin scvm
            /\ Type # "ablestack-hci" => h \notin fence
<1>1. Init => Inv /\ Entries
  BY InitInv, InitEntries
<1>2. Inv /\ Entries /\ [Next]_vars => Inv' /\ Entries'
  BY StepKeepsInv, EntriesKept
<1>3. Inv /\ Entries /\ [Next]_vars => Gone
  BY SucceedsAtTheEnd, FinishedAll
<1>4. [][Gone]_vars => SuccessMeansDismantled
  BY DEF SuccessMeansDismantled
<1> HIDE DEF Gone
<1> QED
  BY <1>1, <1>2, <1>3, <1>4, PTL DEF Spec

\* When the list is one host above the minimum, success also means that Ceph has
\* released that very host (licenseApplySCVMHostname, renumberHostIndexes).
THEOREM SuccessIsRemoved ==
    ASSUME PCSFirst, FewHosts
    PROVE  Spec => SuccessMeansRemoved
<1> DEFINE Gone ==
      \A j \in Job :
         entry[j].status # "succeeded" /\ entry'[j].status = "succeeded" =>
            LET h == job[j].host IN
            /\ mold[h] = "Removed"
            /\ h \notin ceph \cup scvm
            /\ Type # "ablestack-hci" => h \notin fence
<1>1. Init => Inv /\ Entries /\ Numbered
  <2>1. Init => Numbered
    BY DEF Init, Numbered, Known, NoJob
  <2> QED
    BY <2>1, InitInv, InitEntries
<1>2. Inv /\ Entries /\ Numbered /\ [Next]_vars => Inv' /\ Entries' /\ Numbered'
  BY StepKeepsInv, EntriesKept, NumberedKept
<1>3. Inv /\ Entries /\ Numbered /\ [Next]_vars => Gone
  <2> SUFFICES ASSUME Inv, Entries, Numbered, [Next]_vars, NEW j \in Job,
                      entry[j].status # "succeeded", entry'[j].status = "succeeded"
               PROVE  LET h == job[j].host IN
                      /\ mold[h] = "Removed"
                      /\ h \notin ceph \cup scvm
                      /\ Type # "ablestack-hci" => h \notin fence
    OBVIOUS
  <2>1. Finish(j)
    BY SucceedsAtTheEnd
  <2>2. job[j].pc # "none"
    BY <2>1 DEF Finish
  <2> QED
    BY <2>1, <2>2, FinishedAll, OwnCephName
<1>4. [][Gone]_vars => SuccessMeansRemoved
  BY DEF SuccessMeansRemoved
<1> HIDE DEF Gone
<1> QED
  BY <1>1, <1>2, <1>3, <1>4, PTL DEF Spec

=============================================================================
