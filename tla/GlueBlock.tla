----------------------------- MODULE GlueBlock -----------------------------
(***************************************************************************)
(* The block services of Glue, on a storage VM: RBD images and pools,       *)
(* NVMe-oF subsystems, iSCSI targets and RBD mirroring.  Each operation of  *)
(* glueservice runs its commands one after the other and returns the first  *)
(* error; nothing is undone.  There is one pool, one NVMe-oF subsystem, and *)
(* the mirror's metadata image MOLD-DR.  Listings change nothing and are    *)
(* left out.                                                                *)
(***************************************************************************)
EXTENDS Script, FiniteSets

CONSTANTS
    Image, Iqn,         \* names of RBD images and of iSCSI targets
    Malformed,          \* a name that no rule of validation.go lets pass
    Client, MaxFaults

VARIABLES w, req, overlap, last, lost, faults

-----------------------------------------------------------------------------

Part == {"subsystem", "listener", "host"}

\* A cluster with its pool, and nothing in it.
Empty ==
    [pool |-> TRUE, allow |-> FALSE, images |-> {}, gateway |-> "none", parts |-> {}, ns |-> {},
     iscsi |-> "none", password |-> TRUE, discovery |-> FALSE, targets |-> {},
     on |-> FALSE, daemon |-> FALSE, key |-> FALSE, token |-> "none", peer |-> FALSE, mirrored |-> {},
     meta |-> "none", hadpeer |-> FALSE, replaced |-> FALSE]
Serving == [Empty EXCEPT !.images = Image, !.gateway = "runs", !.iscsi = "runs"]
\* A peer whose client on this side has the name that the other side uses too, client.rbd-mirror-peer.
Mirroring ==
    [Serving EXCEPT !.on = TRUE, !.daemon = TRUE, !.key = TRUE, !.token = "good", !.peer = TRUE,
                    !.mirrored = Image, !.meta = "set", !.hadpeer = TRUE]
NoPassword == [Serving EXCEPT !.password = FALSE]

Only(b, x) == IF b THEN {x} ELSE {}
\* Images that a gateway holds open: rbd rm refuses them.
InUse(x) == x.ns \cup UNION {t[2] : t \in x.targets}
Targets(x) == {t[1] : t \in x.targets}

Ceph(op, x) ==
    CASE op = "pool create" -> {[x EXCEPT !.pool = TRUE]}
      [] op \in {"pool init", "pool size"} -> Only(x.pool, x)
      [] op = "allow delete" -> {[x EXCEPT !.allow = TRUE]}
      [] op = "pool rm" ->
             Only(x.pool /\ x.allow, [x EXCEPT !.pool = FALSE, !.images = {}, !.on = FALSE, !.peer = FALSE, !.hadpeer = FALSE, !.mirrored = {}])
      [] op = "apply nvmeof" -> Only(x.pool, [x EXCEPT !.gateway = IF @ = "runs" THEN @ ELSE "applied"])
      [] op = "ps nvmeof" -> Only(x.gateway = "runs", x)
      [] op = "apply iscsi" -> {[x EXCEPT !.iscsi = IF @ = "runs" THEN @ ELSE "applied"]}
      [] op = "hosts file" -> {x}
      [] op = "redeploy iscsi" -> Only(x.iscsi # "none", x)
      [] op = "apply rbd-mirror" -> {[x EXCEPT !.daemon = TRUE]}
      [] op = "rm rbd-mirror" -> {[x EXCEPT !.daemon = FALSE]}
      [] op = "auth caps" -> Only(x.key, x)
      [] op = "auth get-key" -> Only(x.key, [x EXCEPT !.token = "good"])
      [] op = "auth del" -> {[x EXCEPT !.key = FALSE, !.token = IF @ = "good" THEN "dead" ELSE @]}
Rbd(op, i, x) ==
    CASE op = "create" -> Only(x.pool /\ i \notin x.images, [x EXCEPT !.images = @ \cup {i}])
      [] op = "rm" -> Only(i \in x.images \ InUse(x), [x EXCEPT !.images = @ \ {i}, !.mirrored = @ \ {i}])
      [] op = "create meta" -> Only(x.meta = "none", [x EXCEPT !.meta = "made"])
      [] op = "set interval" -> Only(x.meta # "none", [x EXCEPT !.meta = "set"])
      [] op = "rm meta" -> {[x EXCEPT !.meta = "none"]}
\* rbd mirror; a pool cannot be disabled while one of its images is mirrored.
Mirror(op, i, x) ==
    CASE op = "pool enable" -> Only(x.pool, [x EXCEPT !.on = TRUE])
      [] op = "bootstrap create" -> Only(x.on, [x EXCEPT !.key = TRUE])
      [] op = "bootstrap import" -> Only(x.pool /\ ~x.peer, [x EXCEPT !.on = TRUE, !.peer = TRUE, !.hadpeer = TRUE])
      [] op = "pool info" -> Only(x.on, x)
      [] op = "pool status" -> Only(x.on, x)
      [] op = "peer remove" -> Only(x.peer, [x EXCEPT !.peer = FALSE, !.replaced = TRUE])
      [] op = "image disable" -> Only(i \in x.mirrored, [x EXCEPT !.mirrored = @ \ {i}])
      [] op = "pool disable" -> Only(x.mirrored = {} /\ ~x.peer, [x EXCEPT !.on = FALSE, !.hadpeer = FALSE])
\* The NVMe-oF gateway's own client.
Gateway(op, i, x) ==
    CASE op = "subsystem add" -> Only("subsystem" \notin x.parts, [x EXCEPT !.parts = {"subsystem"}])
      [] op = "listener add" -> Only("subsystem" \in x.parts /\ "listener" \notin x.parts, [x EXCEPT !.parts = @ \cup {"listener"}])
      [] op = "host add" -> Only("subsystem" \in x.parts, [x EXCEPT !.parts = @ \cup {"host"}])
      [] op = "namespace add" -> Only("subsystem" \in x.parts /\ i \in x.images \ x.ns, [x EXCEPT !.ns = @ \cup {i}])
      [] op = "namespace del" -> Only(i \in x.ns, [x EXCEPT !.ns = @ \ {i}])
      [] op = "subsystem del" -> Only(x.parts # {} /\ x.ns = {}, [x EXCEPT !.parts = {}])
\* The Ceph dashboard, and gwcli in the gateway's container.
Dashboard(op, a, x) ==
    CASE op = "url" -> {x}
      [] op = "auth" -> Only(x.password, x)
      [] op = "discovery" -> Only(x.iscsi = "runs", [x EXCEPT !.discovery = TRUE])
      [] op = "post" -> Only(x.iscsi = "runs" /\ a.name \notin Targets(x) /\ a.disks \subseteq x.images,
                             [x EXCEPT !.targets = @ \cup {<<a.name, a.disks>>}])
      [] op = "put" -> Only(a.name \in Targets(x) /\ a.to \notin Targets(x) \ {a.name} /\ a.disks \subseteq x.images,
                            [x EXCEPT !.targets = {t \in @ : t[1] # a.name} \cup {<<a.to, a.disks>>}])
      [] op = "delete" -> Only(a.name \in Targets(x), [x EXCEPT !.targets = {t \in @ : t[1] # a.name}])
      [] op = "gwcli delete" -> Only(x.iscsi = "runs" /\ a.name \in Targets(x), [x EXCEPT !.targets = {t \in @ : t[1] # a.name}])
Effect(cmd, x) ==
    CASE cmd[1] = "ceph" -> Ceph(cmd[2], x)
      [] cmd[1] = "rbd" -> Rbd(cmd[2], cmd[3], x)
      [] cmd[1] = "mirror" -> Mirror(cmd[2], cmd[3], x)
      [] cmd[1] = "gateway" -> Gateway(cmd[2], cmd[3], x)
      [] cmd[1] = "dashboard" -> Dashboard(cmd[2], cmd[3], x)
      [] cmd[1] = "podman pull" -> {x}
      [] OTHER -> {}

-----------------------------------------------------------------------------

C(op) == <<"ceph", op>>
R(op, i) == <<"rbd", op, i>>
M(op) == <<"mirror", op, "none">>
G(op, i) == <<"gateway", op, i>>
Refuse == Must(<<"refuse">>)
\* ValidatePoolName, ValidateImageName, ValidateCephName, ...
ValidName(n) == n # Malformed

(* Images and pools.                                                         *)

CreateImage(i) == Must(R("create", i))
DeleteImage(i) == Must(R("rm", i))
\* DeletePool: the permission to delete pools is given and stays.
DeletePool == Call(<<"config get">>) \o Must(C("pool rm"))
AllowPoolDelete(x) == If(~x.allow, Must(C("allow delete")))

(* NVMe-oF.                                                                  *)

RequireServer == Must(C("ps nvmeof"))
\* The specification is in a file of its own until the handler ends.
NVMeOfServiceCreate == Must(C("pool create")) \o Must(C("pool init")) \o Must(C("pool size")) \o Must(C("apply nvmeof"))
NVMeOfImageDownload == Must(<<"podman pull">>)
SubsystemCreateWithServer ==
    Must(G("subsystem add", "none")) \o Must(G("listener add", "none")) \o Must(G("host add", "none"))
NamespaceCreateWithServer(i) == Must(G("namespace add", i))
\* parseOptionalSizeGiB: no size is 0, and a size of 0 an error.
ParseOptionalSizeGiB(size) == IF size = "1" THEN 1 ELSE 0
NVMeOfTargetCreate(i, size) ==
    RequireServer \o SubsystemCreateWithServer \o If(size > 0, CreateImage(i)) \o NamespaceCreateWithServer(i)
NVMeOfSubsystemCreate == RequireServer \o SubsystemCreateWithServer
NVMeOfSubsystemDelete == RequireServer \o Must(G("subsystem del", "none"))
NVMeOfNamespaceCreate(i, size) == RequireServer \o If(size > 0, CreateImage(i)) \o NamespaceCreateWithServer(i)
\* Mutant: an error of the image's removal is not returned.
NamespaceDeleteAnyway(i, image) == RequireServer \o Must(G("namespace del", i)) \o If(image # "none", Try(R("rm", image)))
\* The namespace is named by its UUID, the image by its own name: nothing ties the two.
NVMeOfNamespaceDelete(i, image) == RequireServer \o Must(G("namespace del", i)) \o If(image # "none", DeleteImage(image))

(* iSCSI.                                                                    *)

\* normalizeISCSIServiceConfig: without trusted addresses, those of the hosts are looked up.
ISCSIServiceConfig(a) == If(~a.trusted, Must(C("hosts file")))
ISCSIServiceCreate(a) == ISCSIServiceConfig(a) \o Must(C("apply iscsi"))
ISCSIServiceUpdate(a) == ISCSIServiceCreate(a) \o Must(C("redeploy iscsi"))
DashboardBaseURL == Must(<<"dashboard", "url", "none">>)
DashboardAuthToken == Must(<<"dashboard", "auth", "none">>)
DashboardRequest(method, a) == DashboardBaseURL \o DashboardAuthToken \o Must(<<"dashboard", method, a>>)
ISCSIDiscoveryAuthUpdate(a) == DashboardRequest("discovery", a)
\* normalizeISCSIAuthPayload: with access control there must be a user.
ISCSIAuthPayload(a) == a.acl => a.user
\* normalizeISCSITargetPayload: a rename carries only the new name.
ISCSITargetPayload(a) == ISCSIAuthPayload(a) /\ ValidName(a.to)
ISCSITargetCreate(a) == IF ISCSITargetPayload(a) THEN DashboardRequest("post", a) ELSE Refuse
ISCSITargetUpdate(a) == IF ISCSITargetPayload(a) THEN DashboardRequest("put", a) ELSE Refuse
ISCSITargetDelete(a) == DashboardRequest("delete", a)
ISCSITargetPurge(a) == Must(<<"dashboard", "gwcli delete", a>>)

(* Mirroring.                                                                *)

CreateMirrorBootstrapToken == Must(M("bootstrap create")) \o Must(C("auth caps")) \o Must(C("auth get-key"))
EnableMirrorPool == Must(M("pool enable")) \o Must(C("apply rbd-mirror")) \o CreateMirrorBootstrapToken
RemoveCephAuth == Try(C("auth del"))
\* removeMirrorPeers: each peer with the key of its client name.
RemoveMirrorPeers == Must(M("pool info")) \o Call(<<"peers">>)
MirrorPeers(x) == If(x.peer, Must(M("peer remove")) \o RemoveCephAuth)
\* Mutant: the old peer is removed last.
ImportMirrorPeerFirst == Must(M("bootstrap import")) \o RemoveMirrorPeers
ImportMirrorPeer == RemoveMirrorPeers \o Must(M("bootstrap import"))
EnsureMirrorMetadataImage == Call(<<"rbd info meta">>) \o Must(R("set interval", "none"))
RemoveMirrorMetadataImage == Must(R("rm meta", "none"))
RemoveRBDMirrorService == Must(C("rm rbd-mirror"))
MirrorImageNames(x) == x.mirrored
\* disableMirrorPool: a listing that fails counts as a pool without mirrored images.
DisableMirrorPool ==
    TryOr(M("pool status"), 1) \o Call(<<"mirrored">>) \o RemoveMirrorPeers \o Must(M("pool disable")) \o RemoveCephAuth
\* buildMirrorConfig: without a name for this cluster, the token of the other one is only imported.
ImportOnly(a) == ~a.named /\ a.remote # "none"
DecodeMirrorToken(t) == t # "garbled"
ValidateMirrorInterval(n) == n >= 1
MirrorConfig(a) ==
    /\ a.named \/ ImportOnly(a)
    /\ a.remote # "none" => DecodeMirrorToken(a.remote)
    /\ ValidateMirrorInterval(a.interval)
\* Mutant: the token is made after the key has been cleared away.
MirrorSetupClears(a) ==
    IF ~MirrorConfig(a) THEN Refuse
    ELSE If(~ImportOnly(a), EnableMirrorPool \o RemoveCephAuth) \o If(a.remote # "none", ImportMirrorPeer) \o EnsureMirrorMetadataImage
MirrorSetup(a) ==
    IF ~MirrorConfig(a) THEN Refuse
    ELSE If(~ImportOnly(a), EnableMirrorPool) \o If(a.remote # "none", ImportMirrorPeer) \o EnsureMirrorMetadataImage
MirrorUpdate(a) == IF ~ValidateMirrorInterval(a.interval) THEN Refuse ELSE Must(R("set interval", "none"))
MirrorPoolDisable == DisableMirrorPool
MirrorDelete == DisableMirrorPool \o RemoveRBDMirrorService \o RemoveMirrorMetadataImage

Body(cmd, x) ==
    CASE cmd[1] = "config get" -> AllowPoolDelete(x)
      [] cmd[1] = "peers" -> MirrorPeers(x)
      [] cmd[1] = "rbd info meta" -> If(x.meta = "none", Must(R("create meta", "none")))
      [] cmd[1] = "mirrored" -> Each(MirrorImageNames(x), LAMBDA i : Must(<<"mirror", "image disable", i>>))

-----------------------------------------------------------------------------
(* What can be asked for; every request has a name that has to be valid.     *)

ImageAsks == [act : {"image create", "image delete"}, name : Image \cup {Malformed}]
PoolAsks == [act : {"pool delete"}, name : {"pool"}]
NVMeOfAsks ==
    [act : {"nvmeof create", "download", "subsystem create", "subsystem delete"}, name : {"nqn"}]
    \cup [act : {"target create", "namespace create"}, name : Image, size : {"", "0", "1"}]
    \cup [act : {"namespace delete"}, name : Image, image : Image \cup {"none"}]
ISCSIAsks ==
    [act : {"iscsi create", "iscsi update"}, name : {"iscsi"}, trusted : BOOLEAN] \cup [act : {"discovery"}, name : {"iscsi"}]
    \cup [act : {"iscsi target create"}, name : Iqn, to : Iqn, disks : SUBSET Image, acl : {TRUE}, user : BOOLEAN]
    \cup [act : {"iscsi target update"}, name : Iqn, to : Iqn \cup {Malformed}, disks : {Image}, acl : {FALSE}, user : {FALSE}]
    \cup [act : {"iscsi target delete", "iscsi target purge"}, name : Iqn]
MirrorAsks ==
    [act : {"mirror setup"}, name : {"rbd"}, named : BOOLEAN, remote : {"none", "token", "garbled"}, interval : {1}]
    \cup [act : {"mirror update"}, name : {"rbd"}, interval : 0..1]
    \cup [act : {"mirror delete", "mirror disable"}, name : {"rbd"}]
Asks(x) == ImageAsks \cup PoolAsks \cup NVMeOfAsks \cup ISCSIAsks \cup MirrorAsks

Start(a, x) ==
    IF \/ ~ValidName(a.name)
       \/ a.act \in {"target create", "namespace create"} /\ a.size = "0"
    THEN Refuse
    ELSE
    CASE a.act = "image create" -> CreateImage(a.name)
      [] a.act = "image delete" -> DeleteImage(a.name)
      [] a.act = "pool delete" -> DeletePool
      [] a.act = "nvmeof create" -> NVMeOfServiceCreate
      [] a.act = "download" -> NVMeOfImageDownload
      [] a.act = "target create" -> NVMeOfTargetCreate(a.name, ParseOptionalSizeGiB(a.size))
      [] a.act = "subsystem create" -> NVMeOfSubsystemCreate
      [] a.act = "subsystem delete" -> NVMeOfSubsystemDelete
      [] a.act = "namespace create" -> NVMeOfNamespaceCreate(a.name, ParseOptionalSizeGiB(a.size))
      [] a.act = "namespace delete" -> NVMeOfNamespaceDelete(a.name, a.image)
      [] a.act = "iscsi create" -> ISCSIServiceCreate(a)
      [] a.act = "iscsi update" -> ISCSIServiceUpdate(a)
      [] a.act = "discovery" -> ISCSIDiscoveryAuthUpdate(a)
      [] a.act = "iscsi target create" -> ISCSITargetCreate(a)
      [] a.act = "iscsi target update" -> ISCSITargetUpdate(a)
      [] a.act = "iscsi target delete" -> ISCSITargetDelete(a)
      [] a.act = "iscsi target purge" -> ISCSITargetPurge(a)
      [] a.act = "mirror setup" -> MirrorSetup(a)
      [] a.act = "mirror update" -> MirrorUpdate(a)
      [] a.act = "mirror delete" -> MirrorDelete
      [] a.act = "mirror disable" -> MirrorPoolDisable

Begins == {Empty, Serving, Mirroring, NoPassword}
\* The orchestrator starts what has been applied.
Drifts(x) ==
    {[x EXCEPT !.gateway = IF @ = "applied" THEN "runs" ELSE @, !.iscsi = IF @ = "applied" THEN "runs" ELSE @]}
Matters(cmd) == cmd[1] = "mirror"

INSTANCE Runner

-----------------------------------------------------------------------------

\* A request that succeeds has done all of it.  An NVMe-oF target that is answered for serves
\* its image behind a listener, a namespace that is deleted with its image leaves none, a
\* mirror that is set up has its peer, daemon and interval, one that is deleted leaves neither
\* image nor peer nor daemon.
SuccessIsWhole ==
    CASE last.act \in {"target create", "subsystem create"} ->
             w.parts = Part /\ (last.act = "target create" => last.name \in w.ns \cap w.images)
      [] last.act = "namespace delete" -> last.name \notin w.ns /\ last.image \notin w.images
      [] last.act = "iscsi target update" -> <<last.to, last.disks>> \in w.targets
      [] last.act = "mirror setup" ->
             w.meta = "set" /\ (last.named => w.on /\ w.daemon) /\ (last.remote # "none" => w.peer)
      [] last.act = "mirror delete" -> ~w.on /\ ~w.peer /\ ~w.daemon /\ w.mirrored = {} /\ w.meta = "none"
      [] last.act = "pool delete" -> ~w.pool /\ w.images = {}
      [] OTHER -> TRUE

\* The token that a setup answers with is good for the other cluster: the key in it is the
\* key that the cluster has.  A setup that takes a peer's place is the exception, because the
\* old peer's client has the same name and its key is deleted after the token was made.
TokenWorks == last.act = "mirror setup" /\ last.named /\ ~w.replaced => w.token = "good"

\* A pool that has had a peer has one until it is disabled, except while a setup or a delete
\* is at work and after one of its commands has failed or the server has stopped.
PeerKept == w.hadpeer /\ w.pool => w.peer \/ Running # {} \/ lost # {} \/ overlap

=============================================================================
