--------------------------- MODULE SCVMLifecycle ---------------------------
(***************************************************************************)
(* The storage VM of a host: scvm_lifecycle.go makes, starts, stops and      *)
(* removes its libvirt domain, its disk image and the Ceph configuration of  *)
(* the host.  A request for another host is passed on to that host and runs  *)
(* the same steps there, so there is one host here.                          *)
(***************************************************************************)
EXTENDS Script, FiniteSets

CONSTANTS Client, MaxFaults

VARIABLES w, req, overlap, last, lost, faults

-----------------------------------------------------------------------------

\* A transient domain runs and is not defined any more.  A disk that a domain has run on is used.
NoSCVM ==
    [dom |-> "none", image |-> "none", auto |-> FALSE, xml |-> TRUE, ceph |-> TRUE,
     cpu |-> FALSE, memory |-> FALSE, ripped |-> FALSE]
Deployed == [NoSCVM EXCEPT !.dom = "running", !.image = "used", !.auto = TRUE]

Only(b, x) == IF b THEN {x} ELSE {}
Up(x) == x.dom \in {"running", "transient"}
Overwritten(x) == x.ripped \/ Up(x)

\* libvirt on the host.
Virsh(op, x) ==
    CASE op = "start" -> Only(x.dom = "off" /\ x.image # "none", [x EXCEPT !.dom = "running", !.image = "used"])
      [] op = "running" -> Only(Up(x), x)
      [] op = "shutdown" -> IF Up(x) THEN {x, [x EXCEPT !.dom = IF @ = "running" THEN "off" ELSE "none"]} ELSE {}
      [] op = "shut off" -> Only(x.dom = "off", x)
      [] op = "destroy" -> Only(Up(x), [x EXCEPT !.dom = IF @ = "running" THEN "off" ELSE "none"])
      [] op = "undefine" -> Only(x.dom \in {"off", "running"},
                                 [x EXCEPT !.dom = IF @ = "off" THEN "none" ELSE "transient", !.auto = FALSE])
      [] op = "define" -> Only(x.xml, [x EXCEPT !.dom = CASE @ = "none" -> "off" [] @ = "transient" -> "running" [] OTHER -> @])
      [] op = "autostart" -> Only(x.dom \in {"off", "running"}, [x EXCEPT !.auto = TRUE])
      [] op = "domstate" -> {x}
Effect(cmd, x) ==
    CASE cmd[1] = "virsh" -> Virsh(cmd[2], x)
      [] cmd[1] = "copy template" -> {[x EXCEPT !.image = "fresh", !.ripped = Overwritten(x)]}
      [] cmd[1] = "remove image" -> {[x EXCEPT !.image = "none", !.ripped = Overwritten(x)]}
      [] cmd[1] = "xml" -> Only(x.xml, x)
      [] cmd[1] = "ceph" -> {[x EXCEPT !.ceph = FALSE]}
      [] cmd[1] = "mkdir" -> {x}
      [] cmd[1] = "config" -> {[x EXCEPT !.xml = FALSE]}
      [] cmd[1] = "virt-xml" -> Only(x.dom # "none", IF cmd[2] = "vcpus" THEN [x EXCEPT !.cpu = TRUE] ELSE [x EXCEPT !.memory = TRUE])
      [] OTHER -> {}

-----------------------------------------------------------------------------

V(op) == <<"virsh", op>>
Refuse == Must(<<"refuse">>)
RemoveCephConfigContents == Must(<<"ceph">>)
RemoveDirContents == Must(<<"config">>)
CopySCVMFile == Must(<<"copy template">>)
WaitForState(s) == Must(V(s))
\* A state that cannot be read counts as a domain that is gone.
WaitForDomainGone == TryOr(V("domstate"), 1) \o Call(<<"gone">>)
Undefine == Call(<<"undefine">>)

\* A state that cannot be read is not "running": virsh start answers for it.
StartSCVM(x) == If(~Up(x), Must(V("start")) \o WaitForState("running"))
StopSCVM(x) ==
    CASE x.dom = "off" -> <<>>
      [] x.dom = "none" -> Refuse
      [] OTHER -> Must(V("shutdown")) \o WaitForState("shut off")
DeleteSCVM == Try(V("destroy")) \o Undefine \o WaitForDomainGone \o RemoveCephConfigContents
UpdateResource(a) == If(a.cpu, Must(<<"virt-xml", "vcpus">>)) \o If(a.memory, Must(<<"virt-xml", "memory">>))
\* Mutant: whatever the domain does.
SetupAnyway(x) ==
    CopySCVMFile \o Must(<<"xml">>) \o Must(V("define")) \o Call(<<"start">>) \o Must(V("autostart"))
\* setupSCVMLocal: a domain that runs is kept, the disk of one that does not is made anew.
SetupSCVM(x) ==
    IF Up(x) THEN Must(V("autostart"))
    ELSE CopySCVMFile \o Must(<<"xml">>) \o Must(V("define")) \o Call(<<"start">>) \o Must(V("autostart"))
\* resetSCVMLocal does not wait for the end of the domain.
ResetSCVM ==
    Must(<<"mkdir">>) \o Try(V("destroy")) \o Undefine \o Must(<<"remove image">>)
    \o RemoveCephConfigContents \o RemoveDirContents

Body(cmd, x) ==
    CASE cmd[1] = "start" -> StartSCVM(x)
      [] cmd[1] = "stop" -> StopSCVM(x)
      [] cmd[1] = "setup" -> SetupSCVM(x)
      [] cmd[1] = "undefine" -> If(x.dom \in {"off", "running"}, Must(V("undefine")))
      [] cmd[1] = "gone" -> If(x.dom # "none", Refuse)

\* normalizeSCVMUpdateRequest.
Asks(x) ==
    [act : {"start", "stop", "delete", "setup", "reset"}]
    \cup {a \in [act : {"resource"}, cpu : BOOLEAN, memory : BOOLEAN] : a.cpu \/ a.memory}
RunSCVMUpdateLocal(a) ==
    CASE a.act = "delete" -> DeleteSCVM
      [] a.act = "resource" -> UpdateResource(a)
      [] a.act = "reset" -> ResetSCVM
      [] OTHER -> Call(<<a.act>>)
Start(a, x) == RunSCVMUpdateLocal(a)

Begins == {NoSCVM, Deployed}
Drifts(x) == {x}
Matters(cmd) == TRUE

INSTANCE Runner

-----------------------------------------------------------------------------

TypeOK ==
    /\ w.dom \in {"none", "off", "running", "transient"} /\ w.image \in {"none", "fresh", "used"}
    /\ w.auto => w.dom \in {"off", "running"}

\* The disk of a storage VM that runs is neither overwritten by setup nor removed by reset,
\* whichever command of one request fails.  The exception is a virsh destroy that fails:
\* resetSCVMLocal ignores that, and a domain that runs on is only undefined.
SCVMDiskIsHeld == w.ripped => overlap \/ V("destroy") \in lost

\* A request that succeeds has done all of it.  After setup and start the VM runs (after setup
\* also at the next boot), after stop it does not, after delete the domain is gone, unless
\* its state could not be read, and after reset its disk and its configuration too.
SuccessIsWhole ==
    CASE last.act = "setup" -> w.dom = "running" /\ w.auto /\ w.image = "used"
      [] last.act = "start" -> Up(w)
      [] last.act = "stop" -> w.dom = "off"
      [] last.act = "delete" -> ~w.ceph /\ (w.dom = "none" \/ V("domstate") \in lost)
      [] last.act = "reset" -> w.image = "none" /\ ~w.xml /\ ~w.ceph /\ (w.dom = "none" \/ V("destroy") \in lost)
      [] last.act = "resource" -> (last.cpu => w.cpu) /\ (last.memory => w.memory)
      [] OTHER -> TRUE

=============================================================================
