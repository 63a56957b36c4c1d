----------------------------- MODULE GlueFiles -----------------------------
(***************************************************************************)
(* The file and object services of Glue, on a storage VM: the GlueFS        *)
(* volume and its subvolume groups, NFS, RGW and SMB, and the services of   *)
(* the orchestrator.  scvm_guard.go lets requests in only on a storage VM.  *)
(* There is one volume at a time, with one of the names Vol.                *)
(***************************************************************************)
EXTENDS Script, FiniteSets

CONSTANTS
    Vol, Group, Pseudo,     \* names of volumes, of their groups, and paths of exports
    None, Malformed,
    Client, MaxFaults

VARIABLES w, req, overlap, last, lost, faults

-----------------------------------------------------------------------------

Service == {"nfs", "ingress", "rgw"}
Plain(n) == <<"plain", n>>          \* the pool n.data or n.meta
Default(n) == <<"cephfs", n>>       \* the pool cephfs.n.data or cephfs.n.meta
NoPools == [data |-> <<>>, meta |-> <<>>]

\* A storage VM whose addresses are in cluster.json, and one whose environment says what it is.
Storage == [env |-> "none", file |-> "none", addresses |-> {"scvm"}]
Labelled == [env |-> "storage-vm", file |-> "none", addresses |-> {"scvm", "host"}]
Empty ==
    [node |-> Storage, fs |-> None, pools |-> NoPools, sized |-> {}, mds |-> None, groups |-> [g \in Group |-> 0],
     allow |-> FALSE, dropped |-> FALSE, services |-> {}, exports |-> {},
     realm |-> {}, user |-> FALSE, quota |-> "none", bucket |-> FALSE,
     smb |-> "none", folder |-> "none", smbuser |-> FALSE]
Full ==
    [Empty EXCEPT !.fs = CHOOSE n \in Vol : TRUE, !.mds = CHOOSE n \in Vol : TRUE,
                  !.pools = [data |-> Plain(CHOOSE n \in Vol : TRUE), meta |-> Plain(CHOOSE n \in Vol : TRUE)],
                  !.sized = {"data", "meta"}, !.groups = [g \in Group |-> 1], !.services = Service,
                  !.exports = {<<1, CHOOSE p \in Pseudo : TRUE>>},
                  !.realm = {"realm", "zonegroup", "zone"}, !.user = TRUE, !.smb = "up"]
NoGroups == [Full EXCEPT !.groups = [g \in Group |-> 0]]

Only(b, x) == IF b THEN {x} ELSE {}
Ids(x) == {e[1] : e \in x.exports}

\* ceph fs and ceph osd pool.
CephFS(cmd, x) ==
    CASE cmd[2] = "create" -> Only(x.fs = None,
             [x EXCEPT !.fs = cmd[3], !.mds = cmd[3], !.pools = [data |-> Default(cmd[3]), meta |-> Default(cmd[3])], !.sized = {}])
      [] cmd[2] = "pool rename" -> Only(x.pools[cmd[3]] = cmd[4], [x EXCEPT !.pools[cmd[3]] = cmd[5]])
      [] cmd[2] = "pool size" -> Only(x.pools[cmd[3]] = cmd[4], [x EXCEPT !.sized = @ \cup {cmd[3]}])
      [] cmd[2] = "rename" -> Only(x.fs = cmd[3], [x EXCEPT !.fs = cmd[4]])
      [] cmd[2] = "apply mds" -> {[x EXCEPT !.mds = cmd[3]]}
      [] cmd[2] = "allow delete" -> {[x EXCEPT !.allow = TRUE]}
      [] cmd[2] = "rm" -> Only(x.fs = cmd[3] /\ x.allow,
             [x EXCEPT !.fs = None, !.mds = None, !.pools = NoPools, !.sized = {}, !.groups = [g \in Group |-> 0],
                       !.dropped = @ \/ \E g \in Group : x.groups[g] > 0])
      [] cmd[2] = "group ls" -> Only(x.fs = cmd[3], x)
      [] cmd[2] = "group create" -> Only(x.fs = cmd[3], [x EXCEPT !.groups[cmd[4]] = IF @ = 0 THEN 1 ELSE @])
      [] cmd[2] = "group rm" -> Only(x.fs = cmd[3] /\ x.groups[cmd[4]] > 0, [x EXCEPT !.groups[cmd[4]] = 0])
      [] cmd[2] = "group resize" ->
             Only(x.fs = cmd[3] /\ x.groups[cmd[4]] > 0 /\ cmd[5] >= x.groups[cmd[4]], [x EXCEPT !.groups[cmd[4]] = cmd[5]])
\* ceph orch and ceph nfs.
Orch(cmd, x) ==
    CASE cmd[2] = "apply" -> {[x EXCEPT !.services = @ \cup {cmd[3]}]}
      [] cmd[2] \in {"start", "stop", "restart", "redeploy"} -> Only(cmd[3] \in x.services, x)
      [] cmd[2] = "rm" -> Only(cmd[3] \in x.services, [x EXCEPT !.services = @ \ {cmd[3]}])
      [] cmd[2] = "nfs rm" -> Only("nfs" \in x.services, [x EXCEPT !.services = @ \ {"nfs"}, !.exports = {}])
      [] cmd[2] = "export apply" ->
             IF "nfs" \notin x.services THEN {}
             ELSE LET others == {e \in x.exports : e[1] # cmd[3] /\ e[2] # cmd[4]}
                      ids == IF cmd[3] \in Ids(x) THEN {cmd[3]}
                             ELSE IF \E e \in x.exports : e[2] = cmd[4] THEN {e[1] : e \in {e \in x.exports : e[2] = cmd[4]}}
                             ELSE (1..2) \ Ids(x)
                  IN {[x EXCEPT !.exports = others \cup {<<id, cmd[4]>>}] : id \in ids}
      [] cmd[2] = "export ls" -> Only("nfs" \in x.services, x)
      [] cmd[2] = "export rm" -> Only(\E e \in x.exports : e[2] = cmd[3], [x EXCEPT !.exports = {e \in @ : e[2] # cmd[3]}])
\* radosgw-admin; realm, zonegroup and zone cannot be created twice.
Rados(cmd, x) ==
    CASE cmd[2] = "create" -> Only(cmd[3] \notin x.realm, [x EXCEPT !.realm = @ \cup {cmd[3]}])
      [] cmd[2] = "user create" -> Only(~x.user, [x EXCEPT !.user = TRUE])
      [] cmd[2] = "user modify" -> Only(x.user, x)
      [] cmd[2] = "user rm" -> Only(x.user /\ ~x.bucket, [x EXCEPT !.user = FALSE, !.quota = "none"])
      [] cmd[2] = "quota set" -> Only(x.user, [x EXCEPT !.quota = IF @ = "none" THEN "disable" ELSE @])
      [] cmd[2] = "quota" -> Only(x.user, [x EXCEPT !.quota = cmd[3]])
      [] cmd[2] = "bucket create" -> Only(x.user /\ ~x.bucket, [x EXCEPT !.bucket = TRUE])
      [] cmd[2] = "bucket put" -> Only(x.bucket, x)
      [] cmd[2] = "bucket rm" -> Only(x.bucket, [x EXCEPT !.bucket = FALSE])
\* The script that manages Samba on the node: creating a share takes it several steps.
Smb(cmd, x) ==
    CASE cmd[2] = "delete" -> {[x EXCEPT !.smb = "none", !.folder = "none", !.smbuser = FALSE]}
      [] cmd[2] = "begin" -> {[x EXCEPT !.smb = "half"]}
      [] cmd[2] = "finish" -> Only(x.smb # "none", [x EXCEPT !.smb = "up"])
      [] cmd[2] = "folder begin" -> Only(x.smb = "up", [x EXCEPT !.folder = "half"])
      [] cmd[2] = "folder finish" -> Only(x.folder # "none", [x EXCEPT !.folder = "up"])
      [] cmd[2] = "folder delete" -> {[x EXCEPT !.folder = "none"]}
      [] cmd[2] = "user create" -> Only(x.smb = "up", [x EXCEPT !.smbuser = TRUE])
      [] cmd[2] = "user update" -> Only(x.smbuser, x)
      [] cmd[2] = "user delete" -> Only(x.smbuser, [x EXCEPT !.smbuser = FALSE])
Effect(cmd, x) ==
    CASE cmd[1] = "fs" -> CephFS(cmd, x)
      [] cmd[1] = "orch" -> Orch(cmd, x)
      [] cmd[1] = "rgw" -> Rados(cmd, x)
      [] cmd[1] = "smb" -> Smb(cmd, x)
      [] cmd[1] = "dashboard" -> {x}
      [] OTHER -> {}

-----------------------------------------------------------------------------
(* Which node this is: by its environment, else its role file, else the      *)
(* addresses of cluster.json.                                                *)

NormalizeNodeRole(r) == IF r \in {"scvm", "storage-vm"} THEN "scvm" ELSE r
RoleFromEnv(n) == n.env
RoleFromFile(n) == n.file
RoleFromClusterJSON(n) ==
    CASE "scvm" \in n.addresses -> "scvm"
      [] "scvm" \notin n.addresses /\ "host" \in n.addresses -> "host"
      [] OTHER -> "unknown"
DetectNodeRole(n) ==
    CASE RoleFromEnv(n) # "none" -> NormalizeNodeRole(RoleFromEnv(n))
      [] RoleFromEnv(n) = "none" /\ RoleFromFile(n) # "none" -> NormalizeNodeRole(RoleFromFile(n))
      [] OTHER -> RoleFromClusterJSON(n)
RequireSCVM(x) == DetectNodeRole(x.node) = "scvm"

Refuse == Must(<<"refuse">>)
\* ValidateCephName, ValidateServiceName, ValidateRGWName, ...
ValidName(n) == n # Malformed

(* GlueFS.                                                                   *)

F(op, n) == <<"fs", op, n>>
RenamePool(part, from, to) == Must(<<"fs", "pool rename", part, from, to>>)
SizePool(part, n) == Must(<<"fs", "pool size", part, Plain(n)>>)
GlueFSCreate(n) ==
    Must(F("create", n)) \o RenamePool("data", Default(n), Plain(n)) \o RenamePool("meta", Default(n), Plain(n))
    \o SizePool("data", n) \o SizePool("meta", n)
\* Mutant: the metadata pool keeps its name.
GlueFSUpdateHalf(n, to, host) ==
    IF ~ValidName(to) THEN Refuse
    ELSE Must(<<"fs", "rename", n, to>>) \o RenamePool("data", Plain(n), Plain(to))
         \o CASE host = "none" -> <<>>
              [] host = "host" -> Must(F("apply mds", to))
              [] host = Malformed -> Refuse
\* GlueFSUpdate: the hosts are looked at when the names have changed.
GlueFSUpdate(n, to, host) ==
    IF ~ValidName(to) THEN Refuse
    ELSE Must(<<"fs", "rename", n, to>>) \o RenamePool("data", Plain(n), Plain(to)) \o RenamePool("meta", Plain(n), Plain(to))
         \o CASE host = "none" -> <<>>
              [] host = "host" -> Must(F("apply mds", to))
              [] host = Malformed -> Refuse
NoGroup == Call(<<"no group">>)
\* Mutant: it does not look for groups.
GlueFSDeleteAll(n) == Must(F("group ls", n)) \o Call(<<"config get">>) \o Must(F("rm", n))
GlueFSDelete(n) == Must(F("group ls", n)) \o NoGroup \o Call(<<"config get">>) \o Must(F("rm", n))
SubvolumeGroupCreate(n, g) == Must(<<"fs", "group create", n, g>>)
SubvolumeGroupDelete(n, g) == Must(<<"fs", "group rm", n, g>>)
SubvolumeGroupResize(n, g, size) == IF size = 0 THEN Refuse ELSE Must(<<"fs", "group resize", n, g, size>>)

(* NFS and the orchestrator.                                                 *)

\* buildNFSServiceSpec and buildNFSIngressSpec: there must be hosts.
NFSServiceSpec(a) == a.hosts
NFSIngressSpec(a) == a.hosts
ApplySpec(service) == Must(<<"orch", "apply", service>>)
NFSClusterCreate(a) == IF NFSServiceSpec(a) THEN ApplySpec("nfs") ELSE Refuse
NFSClusterUpdate(a) == NFSClusterCreate(a) \o Must(<<"orch", "redeploy", "nfs">>)
NFSClusterDelete == Must(<<"orch", "nfs rm">>)
NFSIngressCreate(a) == IF NFSIngressSpec(a) THEN ApplySpec("ingress") ELSE Refuse
NFSIngressUpdate(a) == NFSIngressCreate(a) \o Must(<<"orch", "redeploy", "ingress">>)
\* buildNFSExportPayload: an export of a volume names the volume.
NFSExportPayload(a) == a.storage = "CEPH" => a.fs # "none"
NFSExportApply(id, a) == Must(<<"orch", "export apply", id, a.pseudo>>)
NFSExportCreate(a) == IF NFSExportPayload(a) THEN NFSExportApply(0, a) ELSE Refuse
NFSExportUpdate(a) == IF a.id > 0 /\ NFSExportPayload(a) THEN NFSExportApply(a.id, a) ELSE Refuse
NFSPseudoByExportID(id, x) == {e[2] : e \in {e \in x.exports : e[1] = id}}
\* NFSExportDelete: the path is looked up by the number, and the export removed by the path.
NFSExportDelete(id) == Must(<<"orch", "export ls">>) \o Call(<<"export", id>>)
RemovePseudo(id, x) ==
    IF NFSPseudoByExportID(id, x) = {} THEN Refuse ELSE Each(NFSPseudoByExportID(id, x), LAMBDA p : Must(<<"orch", "export rm", p>>))
ControlService(control, service) == Must(<<"orch", control, service>>)
DeleteService(service) == Must(<<"orch", "rm", service>>)

(* RGW.                                                                      *)

\* RGWServiceCreateOrUpdate: with a realm it can succeed once.
RGWServiceCreateOrUpdate(realm) ==
    If(realm, Must(<<"rgw", "create", "realm">>) \o Must(<<"rgw", "create", "zonegroup">>) \o Must(<<"rgw", "create", "zone">>))
    \o Must(<<"orch", "apply", "rgw">>)
RGWUserCreate == Must(<<"rgw", "user create">>)
RGWUserUpdate(a) == IF a.key => a.secret THEN Must(<<"rgw", "user modify">>) ELSE Refuse
RGWUserDelete == Must(<<"rgw", "user rm">>)
RGWQuotaSet(state) == Must(<<"rgw", "quota set">>) \o Must(<<"rgw", "quota", state>>)
DashboardRequest(cmd) == Must(<<"dashboard", "url">>) \o Must(<<"dashboard", "auth">>) \o Must(cmd)
RGWBucketCreate == DashboardRequest(<<"rgw", "bucket create">>)
RGWBucketUpdate == DashboardRequest(<<"rgw", "bucket put">>)
RGWBucketDelete == Must(<<"rgw", "bucket rm">>)

(* SMB.                                                                      *)

RunSMBScript(first, rest) == NoteOr(<<"smb", first>>, 1) \o Note(<<"smb", rest>>)
\* Mutant: a failed attempt is left as it is.
SMBCreateOnce == Must(<<"smb", "delete">>) \o RunSMBScript("begin", "finish") \o Verdict
\* SMBCreate: what was there goes first, and what a failed attempt has left goes last.
SMBCreate == Must(<<"smb", "delete">>) \o RunSMBScript("begin", "finish") \o IfBad(Try(<<"smb", "delete">>)) \o Verdict
SMBDelete == Must(<<"smb", "delete">>)
SMBShareFolderAdd == RunSMBScript("folder begin", "folder finish") \o IfBad(Try(<<"smb", "folder delete">>)) \o Verdict
SMBShareFolderDelete == Must(<<"smb", "folder delete">>)
SMBUserCreate == Must(<<"smb", "user create">>)
SMBUserUpdate == Must(<<"smb", "user update">>)
SMBUserDelete == Must(<<"smb", "user delete">>)
\* normalizeSMBShareConfig: a domain needs its realm and its name server.
SMBShareConfig(a) == a.type = "ads" => a.realm

Body(cmd, x) ==
    CASE cmd[1] = "no group" -> If(\E g \in Group : x.groups[g] > 0, Refuse)
      [] cmd[1] = "config get" -> If(~x.allow, Must(<<"fs", "allow delete">>))
      [] cmd[1] = "export" -> RemovePseudo(cmd[2], x)

-----------------------------------------------------------------------------
(* What can be asked for.                                                    *)

GlueFSAsks ==
    [act : {"fs create"}, name : Vol \cup {Malformed}] \cup [act : {"fs delete"}, name : Vol]
    \cup [act : {"fs update"}, name : Vol, to : Vol \cup {Malformed}, host : {"none", "host", Malformed}]
    \cup [act : {"group create", "group delete"}, name : Vol, group : Group]
    \cup [act : {"group resize"}, name : Vol, group : Group, size : 0..2]
NFSAsks ==
    [act : {"nfs create", "nfs update", "ingress create", "ingress update"}, name : {"nfs"}, hosts : BOOLEAN]
    \cup [act : {"nfs delete"}, name : {"nfs"}]
    \cup [act : {"export create", "export update"}, name : {"nfs"}, id : 0..1, pseudo : Pseudo, storage : {"CEPH", "RGW"}, fs : {"none", "fs"}]
    \cup [act : {"export delete"}, name : {"nfs"}, id : 1..2]
ServiceAsks ==
    [act : {"control"}, name : Service, control : {"start", "stop", "restart", "redeploy"}] \cup [act : {"service delete"}, name : Service]
RGWAsks ==
    [act : {"rgw service"}, name : {"rgw"}, realm : BOOLEAN]
    \cup [act : {"user create", "user delete", "bucket create", "bucket update", "bucket delete"}, name : {"user"}]
    \cup [act : {"user update"}, name : {"user"}, key : BOOLEAN, secret : BOOLEAN]
    \cup [act : {"quota"}, name : {"user"}, state : {"enable", "disable"}]
SMBAsks ==
    [act : {"smb create"}, name : {"share"}, type : {"normal", "ads"}, realm : BOOLEAN]
    \cup [act : {"smb delete", "folder add", "folder delete", "smb user create", "smb user update", "smb user delete"}, name : {"share"}]
Asks(x) == GlueFSAsks \cup NFSAsks \cup ServiceAsks \cup RGWAsks \cup SMBAsks

StartGlueFS(a) ==
    CASE a.act = "fs create" -> GlueFSCreate(a.name)
      [] a.act = "fs update" -> GlueFSUpdate(a.name, a.to, a.host)
      [] a.act = "fs delete" -> GlueFSDelete(a.name)
      [] a.act = "group create" -> SubvolumeGroupCreate(a.name, a.group)
      [] a.act = "group delete" -> SubvolumeGroupDelete(a.name, a.group)
      [] a.act = "group resize" -> SubvolumeGroupResize(a.name, a.group, a.size)
StartNFS(a) ==
    CASE a.act = "nfs create" -> NFSClusterCreate(a)
      [] a.act = "nfs update" -> NFSClusterUpdate(a)
      [] a.act = "nfs delete" -> NFSClusterDelete
      [] a.act = "ingress create" -> NFSIngressCreate(a)
      [] a.act = "ingress update" -> NFSIngressUpdate(a)
      [] a.act = "export create" -> NFSExportCreate(a)
      [] a.act = "export update" -> NFSExportUpdate(a)
      [] a.act = "export delete" -> NFSExportDelete(a.id)
StartRGW(a) ==
    CASE a.act = "rgw service" -> RGWServiceCreateOrUpdate(a.realm)
      [] a.act = "user create" -> RGWUserCreate
      [] a.act = "user update" -> RGWUserUpdate(a)
      [] a.act = "user delete" -> RGWUserDelete
      [] a.act = "quota" -> RGWQuotaSet(a.state)
      [] a.act = "bucket create" -> RGWBucketCreate
      [] a.act = "bucket update" -> RGWBucketUpdate
      [] a.act = "bucket delete" -> RGWBucketDelete
StartSMB(a) ==
    CASE a.act = "smb create" -> IF SMBShareConfig(a) THEN SMBCreate ELSE Refuse
      [] a.act = "smb delete" -> SMBDelete
      [] a.act = "folder add" -> SMBShareFolderAdd
      [] a.act = "folder delete" -> SMBShareFolderDelete
      [] a.act = "smb user create" -> SMBUserCreate
      [] a.act = "smb user update" -> SMBUserUpdate
      [] a.act = "smb user delete" -> SMBUserDelete
\* registerImplementedRoutes, behind the guard of RegisterRoutes.
Start(a, x) ==
    CASE ~RequireSCVM(x) \/ ~ValidName(a.name) -> Refuse
      [] OTHER ->
         CASE a \in GlueFSAsks -> StartGlueFS(a)
           [] a \in NFSAsks -> StartNFS(a)
           [] a \in RGWAsks -> StartRGW(a)
           [] a \in SMBAsks -> StartSMB(a)
           [] a.act = "control" -> ControlService(a.control, a.name)
           [] a.act = "service delete" -> DeleteService(a.name)

Begins == {Empty, Full, NoGroups, [Empty EXCEPT !.node = Labelled]}
\* A role file can be written while the server runs.
Drifts(x) == {[x EXCEPT !.node.file = "host"]}
Matters(cmd) == cmd[1] = "smb" /\ cmd[2] \in {"delete", "folder delete"}

INSTANCE Runner

-----------------------------------------------------------------------------

\* A request that succeeds has done all of it.  A volume that is created or renamed has both
\* pools under its own name, and its MDS when hosts were given; an export that is deleted by
\* its number is gone; a quota is in the state that was asked for; a share is up.
SuccessIsWhole ==
    CASE last.act = "fs create" ->
             w.fs = last.name /\ w.pools = [data |-> Plain(w.fs), meta |-> Plain(w.fs)] /\ w.sized = {"data", "meta"}
      [] last.act = "fs update" ->
             /\ w.fs = last.to /\ w.pools = [data |-> Plain(w.fs), meta |-> Plain(w.fs)]
             /\ last.host = "host" => w.mds = w.fs
      [] last.act = "fs delete" -> w.fs = None
      [] last.act = "export delete" -> last.id \notin Ids(w)
      [] last.act = "rgw service" -> "rgw" \in w.services /\ (last.realm => w.realm = {"realm", "zonegroup", "zone"})
      [] last.act = "quota" -> w.quota = last.state
      [] last.act = "smb create" -> w.smb = "up"
      [] last.act = "folder add" -> w.folder = "up"
      [] OTHER -> TRUE

\* The removal of a volume takes no subvolume group with it: it looks for groups before, and
\* only a group that another request makes between the look and the removal is lost.
GroupsKept == w.dropped => overlap

\* A share or a folder is not left half made: when the script fails, a second call of it clears
\* away what the first has left.  Only a failure of that call too, or a stop of the server,
\* leaves the half.
SMBNeverHalf == "half" \in {w.smb, w.folder} => Running # {} \/ lost # {} \/ overlap

=============================================================================
