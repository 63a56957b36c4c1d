------------------------------- MODULE MCSetup -------------------------------
(* Setting up a cloud: the bootstrap job of Mold, the bootstrap of SCVMs and   *)
(* of the CCVM, licenses, SSH keys, the system profile with monitoring, and    *)
(* the maintenance of hosts.  They share no state here, so that one run checks *)
(* all of them: in a behaviour one of them moves.                              *)
EXTENDS MoldBootstrap, TLC

CONSTANTS
    Client, MaxFaults,      \* requests, other than bootstrap jobs of Mold
    Here,
    Index, CCVM,                                    \* Bootstrap
    Node, Name, Default, Key, NoKey,                \* License
    Machine, VM, OwnSCVM, MaxRetries, MaxTrouble,   \* Maintenance
    Peer, NewKey, TrustKey, MaxAttempts             \* SSHKeys, and Peer of SystemProfile

VARIABLES
    subject,    \* what moves
    w, req, overlap, last, lost, faults

running == <<w, req, overlap, last, lost, faults>>

B == INSTANCE Bootstrap WITH Host <- Index
L == INSTANCE License
M == INSTANCE Maintenance WITH Host <- Machine, MaxFaults <- MaxTrouble
K == INSTANCE SSHKeys WITH Host <- Peer
P == INSTANCE SystemProfile WITH Host <- Peer

MCInit ==
    /\ subject \in {"mold", "bootstrap", "license", "maintenance", "ssh", "profile"}
    /\ Init /\ (subject # "mold" => hosts = <<1>>)
    /\ \/ subject = "mold" /\ B!Init /\ w = CHOOSE x \in B!Begins : TRUE
       \/ subject = "bootstrap" /\ B!Init
       \/ subject = "license" /\ L!Init
       \/ subject = "maintenance" /\ M!Init
       \/ subject = "ssh" /\ K!Init
       \/ subject = "profile" /\ P!Init

MCNext ==
    /\ UNCHANGED subject
    /\ \/ subject = "mold" /\ Next /\ UNCHANGED running
       \/ /\ UNCHANGED vars
          /\ \/ subject = "bootstrap" /\ B!Next
             \/ subject = "license" /\ L!Next
             \/ subject = "maintenance" /\ M!Next
             \/ subject = "ssh" /\ K!Next
             \/ subject = "profile" /\ P!Next

MCSpec == MCInit /\ [][MCNext]_<<subject, vars, running>>

\* A cluster that gains or loses its second host.
OneOrTwo == {<<1>>, <<1, 2>>}

\* Jobs differ only in their ids, and so do requests, which have the same ids here.
Alike == Permutations(Job \cup Client)

-----------------------------------------------------------------------------

\* The type invariants of all of them.
TypesOK ==
    CASE subject = "mold" -> TypeOK
      [] subject = "bootstrap" -> B!TypeOK
      [] subject = "license" -> L!TypeOK
      [] subject = "maintenance" -> M!TypeOK
      [] subject = "ssh" -> K!TypeOK
      [] subject = "profile" -> P!TypeOK

\* A request that is answered with success and met no other has done all of it, on every
\* machine it is for, although steps whose failure the handlers ignore may have failed on the
\* way (the SuccessIsWhole of each module says what all of it is).  A configuration of
\* monitoring that fails leaves the services running that it has stopped.
RequestsAreWhole ==
    /\ subject = "bootstrap" => B!SuccessIsWhole
    /\ subject = "license" => L!SuccessIsWhole
    /\ subject = "maintenance" => M!SuccessIsWhole
    /\ subject = "ssh" => K!SuccessIsWhole
    /\ subject = "profile" => P!SuccessIsWhole /\ P!ServicesComeBack

\* Nothing runs before what it needs: in Mold no step without the ids it uses, and no host is
\* added before the key; no bootstrap script before keys, TPM properties and services, no flag
\* of the CCVM before its license, no flag of monitoring before its services; this host is not
\* shut down before the others, and no update starts from a copy that is not complete.
StepsInOrder ==
    /\ subject = "mold" => KeyBeforeHost /\ PlanOrderSuffices
    /\ subject = "bootstrap" => B!ScriptsInOrder /\ B!FlagIsTrue
    /\ subject = "profile" => P!WallFlagIsTrue
    /\ subject = "maintenance" => M!HereGoesLast /\ M!UpdateFromWhole

\* Nobody is locked out by a replacement: a node that had a license has one, the key pair of a
\* host is one that may log in, and known_hosts has no second line of a host to contradict the
\* first, however scans overlap and whatever fails in them.
AccessIsKept ==
    /\ subject = "license" => L!LicenseIsKept
    /\ subject = "ssh" => K!KeyFilesAgree /\ K!OneKeyPerHost

=============================================================================
