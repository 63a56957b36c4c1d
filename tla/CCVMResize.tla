----------------------------- MODULE CCVMResize -----------------------------
(***************************************************************************)
(* More disk, CPU and memory for the cloud centre VM (CCVM).                *)
(* ccvm_secondary_resize.go stops the CCVM, makes its disk larger, starts    *)
(* it and has the guest grow its file system into the new space: by rbd in   *)
(* an HCI cluster, by qemu-img in the others, where the VM is a PCS resource *)
(* or, standalone, a domain of this host.  ccvm_edit.go writes the CPU and   *)
(* memory of the next start into the XML of the CCVM, in an HCI cluster on   *)
(* every host.                                                               *)
(***************************************************************************)
EXTENDS Script, FiniteSets

CONSTANTS
    Client, MaxFaults,
    Host, Here,     \* the hosts; the one the requests arrive at
    Limit,          \* ccvmSecondaryResizeLimitGiB
    Added,          \* sizes to add
    Value           \* CPU and memory values of an edit

VARIABLES w, req, overlap, last, lost, faults

-----------------------------------------------------------------------------

\* size: of the disk; fs: of the guest's file system; on: PCS shall run the CCVM;
\* harmed: the disk was changed under a running guest.
Deployed(type) ==
    [type |-> type, up |-> TRUE, on |-> TRUE, size |-> 1, fs |-> 1, snaps |-> TRUE,
     xml |-> [h \in Host |-> "made"], harmed |-> FALSE]

Only(b, x) == IF b THEN {x} ELSE {}

\* PCS starts and stops the CCVM some time after it is told to; who waits sees it happen.
PCS(op, x) ==
    CASE op = "disable" -> {[x EXCEPT !.on = FALSE, !.up = b] : b \in {x.up, FALSE}}
      [] op = "enable" -> {[x EXCEPT !.on = TRUE, !.up = b] : b \in {x.up, TRUE}}
      [] op = "wait Stopped" -> Only(~x.on \/ ~x.up, [x EXCEPT !.up = FALSE])
      [] op = "wait agent" -> Only(x.on \/ x.up, [x EXCEPT !.up = TRUE])
Virsh(op, x) ==
    CASE op = "shutdown" -> IF x.up THEN {x, [x EXCEPT !.up = FALSE]} ELSE {}
      [] op = "wait shut off" -> Only(~x.up, x)
      [] op = "start" -> Only(~x.up, [x EXCEPT !.up = TRUE])
      [] op \in {"wait running", "wait agent"} -> Only(x.up, x)
\* rbd does not shrink an image unless it is told to; qemu-img does not touch one in use.
Effect(cmd, x) ==
    CASE cmd[1] = "pcs" -> PCS(cmd[2], x)
      [] cmd[1] = "virsh" -> Virsh(cmd[2], x)
      [] cmd[1] = "rbd info" -> {x}
      [] cmd[1] = "rbd snap purge" -> {[x EXCEPT !.snaps = FALSE]}
      [] cmd[1] = "rbd resize" -> Only(cmd[2] >= x.size, [x EXCEPT !.size = cmd[2], !.harmed = @ \/ x.up])
      [] cmd[1] = "qemu-img resize" -> Only(~x.up, [x EXCEPT !.size = @ + cmd[2]])
      [] cmd[1] = "grow" -> Only(x.up, [x EXCEPT !.fs = x.size])
      [] cmd[1] = "write xml" -> {[x EXCEPT !.xml[cmd[2]] = cmd[3]]}
      [] OTHER -> {}

-----------------------------------------------------------------------------

Refuse == Must(<<"refuse">>)
DisablePCS == Must(<<"pcs", "disable">>)
EnablePCS == Must(<<"pcs", "enable">>)
WaitPCSRole == Must(<<"pcs", "wait Stopped">>)
WaitGuestAgentOnStartedTarget == Must(<<"pcs", "wait agent">>)
WaitCCVMAPIOnStartedResource == Must(<<"pcs", "wait agent">>)
WaitGuestAgentLocal == Must(<<"virsh", "wait agent">>)
GrowGuestFilesystem == Must(<<"grow">>)
GrowOnTarget == GrowGuestFilesystem
GrowOnCCVM == GrowGuestFilesystem

NewRBDSize(add) == Must(<<"rbd info">>) \o Call(<<"rbd", add>>)
\* Mutant: the image is made larger by what was missing, whatever its size is by then.
ResizeRBDBy(new) ==
    If(new > Limit, Refuse)
    \o WaitGuestAgentOnStartedTarget \o DisablePCS \o WaitPCSRole
    \o Must(<<"rbd snap purge">>) \o Must(<<"qemu-img resize", new - 1>>)
    \o EnablePCS \o WaitGuestAgentOnStartedTarget \o GrowOnTarget
\* Mutant: the CCVM is not waited for.
ResizeRBDAtOnce(new) ==
    If(new > Limit, Refuse)
    \o WaitGuestAgentOnStartedTarget \o DisablePCS
    \o Must(<<"rbd snap purge">>) \o Must(<<"rbd resize", new>>)
    \o EnablePCS \o WaitGuestAgentOnStartedTarget \o GrowOnTarget
\* The size is read before the CCVM is stopped, and is what rbd resize gets.
ResizeRBD(new) ==
    If(new > Limit, Refuse)
    \o WaitGuestAgentOnStartedTarget \o DisablePCS \o WaitPCSRole
    \o Must(<<"rbd snap purge">>) \o Must(<<"rbd resize", new>>)
    \o EnablePCS \o WaitGuestAgentOnStartedTarget \o GrowOnTarget
ResizeVM(add) ==
    WaitCCVMAPIOnStartedResource \o DisablePCS \o WaitPCSRole
    \o Must(<<"qemu-img resize", add>>)
    \o EnablePCS \o WaitCCVMAPIOnStartedResource \o GrowOnCCVM
ResizeStandalone(add) ==
    Try(<<"virsh", "shutdown">>) \o Must(<<"virsh", "wait shut off">>)
    \o Must(<<"qemu-img resize", add>>)
    \o Must(<<"virsh", "start">>) \o Must(<<"virsh", "wait running">>)
    \o WaitGuestAgentLocal \o GrowGuestFilesystem

\* normalizeCCVMSecondaryResizeRequest.
ResizeAsks == [act : {"resize"}, add : Added]
RunCCVMSecondaryResize(a, x) ==
    CASE x.type = "hci" -> NewRBDSize(a.add)
      [] x.type = "vm" -> ResizeVM(a.add)
      [] x.type = "standalone" -> ResizeStandalone(a.add)

-----------------------------------------------------------------------------
(* The XML of the CCVM.                                                     *)

IsFanoutType(x) == x.type = "hci"
EditTargets == Host
\* This host if it is one of the cluster's.
SingleEditTarget == IF Here \in Host THEN Here ELSE CHOOSE h \in Host : TRUE
\* applyCCVMEditLocal: the file is read, its three values replaced, and it is written.
ApplyEdit(h, v) == Note(<<"write xml", h, v>>)
Fanout(v) == Each(EditTargets, LAMBDA h : ApplyEdit(h, v))
EditAsks == [act : {"edit"}, value : Value]
EditCCVM(a, x) ==
    (IF IsFanoutType(x) THEN Fanout(a.value) ELSE ApplyEdit(SingleEditTarget, a.value))
    \o Verdict

-----------------------------------------------------------------------------

Body(cmd, x) == ResizeRBD(x.size + cmd[2])

Asks(x) == ResizeAsks \cup EditAsks
Start(a, x) == IF a.act = "edit" THEN EditCCVM(a, x) ELSE RunCCVMSecondaryResize(a, x)
Begins == {Deployed(type) : type \in {"hci", "vm", "standalone"}}
Drifts(x) == {x}
Matters(cmd) == TRUE

INSTANCE Runner

-----------------------------------------------------------------------------

TypeOK == w.fs \in Nat /\ w.size \in Nat /\ w.fs <= w.size

\* The disk of a CCVM on RBD never grows past the limit, also when two requests read its size
\* before either has changed it: rbd resize gets the size that was compared with the limit.
SizeBounded == w.type = "hci" => w.size <= Limit

\* One request changes the disk only when the CCVM has stopped, and does not leave it stopped
\* unless a step of it has failed: no step that fails starts it again.
StoppedForResize ==
    ~overlap => /\ ~w.harmed
                /\ Running = {} /\ lost = {} => w.up

\* A resize that succeeds leaves the CCVM running on a file system that fills its disk; an
\* edit that succeeds has reached the XML of every host that may start the CCVM.
SuccessIsWhole ==
    CASE last.act = "resize" -> w.up /\ w.fs = w.size
      [] last.act = "edit" -> \A h \in Host : w.type = "hci" \/ h = SingleEditTarget => w.xml[h] = last.value
      [] OTHER -> TRUE

=============================================================================
