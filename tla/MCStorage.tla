----------------------------- MODULE MCStorage ------------------------------
(* The storage of a cluster: GFS, RBD images, disks and multipath, and the    *)
(* block and file services of Glue.  They share no state here, so that one    *)
(* run checks all of them: in a behaviour the requests are for one of them.   *)
EXTENDS TLC

CONSTANTS
    Client, MaxFaults,
    Host, Disk,
    Actions,                            \* GFSManage
    MaxPieces, MaxImage,                \* RBDManage
    Image, Iqn, Malformed,              \* GlueBlock
    Vol, Group, Pseudo, None            \* GlueFiles

VARIABLES
    subject,    \* what the requests are for
    w, req, overlap, last, lost, faults

G == INSTANCE GFSManage
R == INSTANCE RBDManage
D == INSTANCE DiskManage
B == INSTANCE GlueBlock
F == INSTANCE GlueFiles

MCInit ==
    \/ subject = "gfs" /\ G!Init
    \/ subject = "rbd" /\ R!Init
    \/ subject = "disks" /\ D!Init
    \/ subject = "block" /\ B!Init
    \/ subject = "files" /\ F!Init

MCNext ==
    /\ UNCHANGED subject
    /\ \/ subject = "gfs" /\ G!Next
       \/ subject = "rbd" /\ R!Next
       \/ subject = "disks" /\ D!Next
       \/ subject = "block" /\ B!Next
       \/ subject = "files" /\ F!Next

MCSpec == MCInit /\ [][MCNext]_<<subject, w, req, overlap, last, lost, faults>>

\* The requests are interchangeable; hosts and disks are not, as handlers visit them in order.
Requests == Permutations(Client)

-----------------------------------------------------------------------------

\* A request that is answered with success and had the storage for itself has done all of it,
\* on every host, although commands whose failure the handlers ignore may have failed on the
\* way (the SuccessIsWhole of each module says what all of it is).
RequestsAreWhole ==
    CASE subject = "gfs" -> G!SuccessIsWhole
      [] subject = "rbd" -> R!MappedEverywhere
      [] subject = "disks" -> D!SuccessIsWhole
      [] subject = "block" -> B!SuccessIsWhole /\ B!TokenWorks
      [] subject = "files" -> F!SuccessIsWhole

\* The files that a host reads when it boots, rbdmap and fstab, name only images and volumes
\* that are there, whichever step of one request fails.
BootFilesNameStorage ==
    /\ subject = "rbd" => R!LinesNameImages
    /\ subject = "disks" => D!FSTabNamesVolume

\* A request leaves nothing half done when one of its steps fails: maintenance mode, which an
\* extension of GFS switches on, ends with it, and a share whose script fails is cleared away.
EndsWhatItBegan ==
    /\ subject = "gfs" => G!MaintenanceIsHeld
    /\ subject = "files" => F!SMBNeverHalf

\* One request alone loses nothing that others rely on: the peer of a mirrored pool stays
\* registered, and no subvolume group goes with the removal of its volume.
KeepsWhatOthersUse ==
    /\ subject = "block" => B!PeerKept
    /\ subject = "files" => F!GroupsKept

=============================================================================
