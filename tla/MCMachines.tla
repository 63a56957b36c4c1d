----------------------------- MODULE MCMachines -----------------------------
(* The machines of a cluster: snapshots of the CCVM, the lifecycle of CCVM    *)
(* and SCVM, and the disk and the size of the CCVM.  They share no state      *)
(* here, so that one run checks all of them: in a behaviour the requests are  *)
(* for one of them.                                                           *)
EXTENDS CCVMSnap, TLC

CONSTANTS
    Requester,              \* requests, other than for snapshots
    Here,
    SizeLimit, Added, Value \* CCVMResize

\* The limit leaves room for the disk of a CCVM that has just been made.
ASSUME MachinesAssumption ==
    /\ IsFiniteSet(Host) /\ Here \in Host
    /\ SizeLimit \in Nat \ {0} /\ Added \subseteq Nat

VARIABLES
    subject,    \* what the requests are for
    w, req, overlap, last, lost, troubles

running == <<w, req, overlap, last, lost, troubles>>

C == INSTANCE CCVMLifecycle WITH Client <- Requester, faults <- troubles
V == INSTANCE SCVMLifecycle WITH Client <- Requester, faults <- troubles
Z == INSTANCE CCVMResize WITH Client <- Requester, faults <- troubles, Limit <- SizeLimit

MCInit ==
    /\ subject \in {"snapshots", "ccvm", "scvm", "resize"}
    /\ Init /\ dc # Here       \* the CCVM is not on the host that is asked first
    /\ \/ subject = "snapshots" /\ V!Init /\ w = V!NoSCVM
       \/ subject = "ccvm" /\ C!Init
       \/ subject = "scvm" /\ V!Init
       \/ subject = "resize" /\ Z!Init

MCNext ==
    /\ UNCHANGED subject
    /\ \/ subject = "snapshots" /\ Next /\ UNCHANGED running
       \/ /\ UNCHANGED vars
          /\ \/ subject = "ccvm" /\ C!Next
             \/ subject = "scvm" /\ V!Next
             \/ subject = "resize" /\ Z!Next

MCSpec == MCInit /\ [][MCNext]_<<subject, vars, running>>

TwoTargets == <<"h1", "h2">>
Three == <<<<"s1">>, <<"s2">>, <<"s3">>>>

\* The requests are interchangeable.
Requesters == Permutations(Requester)

-----------------------------------------------------------------------------

\* The type invariants of all of them.
TypesOK ==
    CASE subject = "snapshots" -> TypeOK
      [] subject = "ccvm" -> C!TypeOK
      [] subject = "scvm" -> V!TypeOK
      [] subject = "resize" -> Z!TypeOK

\* A request that is answered with success and met no other has done all of it, on every
\* host it is for, although steps whose failure the handlers ignore may have failed on the
\* way (the SuccessIsWhole of each module says what all of it is).
RequestsAreWhole ==
    /\ subject = "snapshots" => LimitOrError
    /\ subject = "ccvm" => C!SuccessIsWhole
    /\ subject = "scvm" => V!SuccessIsWhole
    /\ subject = "resize" => Z!SuccessIsWhole

\* The disk of a VM that runs is its own: neither setup, delete nor reset of one request takes
\* it away or overwrites it, and it is resized only while the VM is stopped, never past the
\* limit (the parts name the failures that the code takes for something else).
DisksAreHeld ==
    /\ subject = "ccvm" => C!DiskIsHeld
    /\ subject = "scvm" => V!SCVMDiskIsHeld
    /\ subject = "resize" => Z!StoppedForResize /\ Z!SizeBounded

=============================================================================
