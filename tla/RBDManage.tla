------------------------------ MODULE RBDManage ------------------------------
(***************************************************************************)
(* RBD images for GFS: internal/handler/cube/rbd_manage.go creates images   *)
(* with the next free numbers and enters them in /etc/ceph/rbdmap of every  *)
(* host, or takes them out of the files and removes them.                   *)
(***************************************************************************)
EXTENDS Script, FiniteSets, FiniteSetsExt

CONSTANTS Host, Client, MaxFaults,
    MaxPieces,  \* images of one request: its size in chunks of rbdManageChunkGiB
    MaxImage    \* the largest number; bounds the requests

VARIABLES w, req, overlap, last, lost, faults

-----------------------------------------------------------------------------

\* After a request for n images.
Holding(n) == [pool |-> 1..n, map |-> [h \in Host |-> 1..n], dev |-> [h \in Host |-> 1..n]]

Only(b, x) == IF b THEN {x} ELSE {}
\* rbd and the rbdmap service: an image that a host has mapped cannot be removed.
Effect(cmd, x) ==
    CASE cmd[1] = "rbd create" -> Only(cmd[2] \notin x.pool, [x EXCEPT !.pool = @ \cup {cmd[2]}])
      [] cmd[1] = "rbd rm" -> Only(cmd[2] \in x.pool /\ \A h \in Host : cmd[2] \notin x.dev[h],
                                   [x EXCEPT !.pool = @ \ {cmd[2]}])
      [] cmd[1] = "write" -> {[x EXCEPT !.map[cmd[2]] = cmd[3]]}
      [] cmd[1] = "restart" -> {[x EXCEPT !.dev[cmd[2]] = x.map[cmd[2]] \cap x.pool]}

\* nextRBDManageImageIndex.
NextImageIndex(x) == Max(x.pool \cup {0}) + 1

\* addRBDManageMapEntries and removeRBDManageMapEntries read the file, ...
MapEntries(act, images, lines) == IF act = "create" THEN lines \cup images ELSE lines \ images
\* ... write it, and the service is restarted: runRBDManageLocal on one host.
OnHost(act, images, h) ==
    Call(<<"read", act, h, images>>) \o NoteOr(<<"restart", h>>, 0)
\* applyRBDManageRBDMap: all hosts, and firstRBDManageResultError.
ApplyRBDMap(act, images) == Each(Host, LAMBDA h : OnHost(act, images, h)) \o Verdict

\* Mutant: the files first.
CreateImagesLast(first, n) ==
    ApplyRBDMap("create", first..first + n - 1) \o Each(first..first + n - 1, LAMBDA i : Must(<<"rbd create", i>>))
\* createRBDManageImages and then the files.
CreateImages(first, n) ==
    Each(first..first + n - 1, LAMBDA i : Must(<<"rbd create", i>>)) \o ApplyRBDMap("create", first..first + n - 1)

RemoveImages(images) == Each(images, LAMBDA i : Must(<<"rbd rm", i>>))
\* deleteRBDManageImages after the files.
DeleteImages(images) == ApplyRBDMap("delete", images) \o RemoveImages(images)

Body(cmd, x) ==
    IF cmd[1] = "list" THEN CreateImages(NextImageIndex(x), cmd[2])
    ELSE NoteOr(<<"write", cmd[3], MapEntries(cmd[2], cmd[4], x.map[cmd[3]])>>, 1)

\* rbdManageRequestFullNames: a request names images in a list and in a field, each taken once.
RequestFullNames(a) == a.images \cup a.image_name

\* normalizeRBDManageRequest.
Asks(x) ==
    [act : {"create"}, n : {n \in 1..MaxPieces : NextImageIndex(x) + n - 1 <= MaxImage}]
    \cup {a \in [act : {"delete"}, images : SUBSET x.pool, image_name : {{}} \cup {{i} : i \in x.pool}] :
             RequestFullNames(a) # {}}

\* runRBDManage.
Start(a, x) == IF a.act = "create" THEN Call(<<"list", a.n>>) ELSE DeleteImages(RequestFullNames(a))

Begins == {Holding(n) : n \in 0..MaxPieces}
Drifts(x) == {}
Matters(cmd) == FALSE

INSTANCE Runner

-----------------------------------------------------------------------------

\* No host's rbdmap names an image that is not there, whichever step of a request fails: an
\* image is entered after it was created and removed after every host has given it up.  Two
\* requests at the same time can break this, as each writes the file it has read before.
LinesNameImages == ~overlap => \A h \in Host : w.map[h] \subseteq w.pool

\* The images of a request that succeeds are on every host, and those it removes on none.
MappedEverywhere ==
    CASE last.act = "create" -> \A h \in Host : Cardinality(w.dev[h]) >= last.n /\ w.dev[h] = w.map[h]
      [] last.act = "delete" -> \A h \in Host : RequestFullNames(last) \cap (w.map[h] \cup w.dev[h] \cup w.pool) = {}
      [] OTHER -> TRUE

=============================================================================
