---------------------------- MODULE ClusterApply ----------------------------
(***************************************************************************)
(* The requests that write cluster.json on many machines: cluster apply    *)
(* (internal/handler/cube/cluster_config.go) and rotation of the internal  *)
(* token (internal/handler/auth/auth.go), with the middleware that lets    *)
(* their calls in and the local handlers that load and save the file       *)
(* (internal/service/clusterconfig, internal/service/security).  No lock   *)
(* protects the file.  A call may be lost, and may be given up by its      *)
(* caller while its handler still runs.                                    *)
(***************************************************************************)
EXTENDS ClusterFile

CONSTANTS
    NoToken,    \* the empty security.internal_token
    Op,         \* requests of clients
    Host,       \* names of Cube hosts; the storage VM that runs on h is named "scvm" + h
    Request,    \* bodies of requests of clients
    Entry,      \* the Cube hosts that clients send them to
    StartFile,  \* cluster.json of each machine at the beginning
    MaxFaults   \* bound on the calls and local steps that fail

\* GenerateToken, by the request o for EnsureInternalToken or for a rotation.
NewToken(o, use) == <<o, use>>

ASSUME TokenAssumption ==
    \A o \in Op, use \in {"ensured", "rotated"} : NewToken(o, use) # NoToken

Cube == {<<"cube", h>> : h \in Host}
SCVM == {<<"scvm", h>> : h \in Host}
CCVM == {<<"ccvm", 0>>}
Node == Cube \cup SCVM \cup CCVM
NoNode == <<"none", 0>>

ASSUME StartAssumption == DOMAIN StartFile = Node /\ Entry \subseteq Cube

VARIABLES
    file,       \* cluster.json of each machine: the sections cfg and token
    etc,        \* /etc/hosts of each machine
    timed,      \* per machine, the inserts that have configured its time server
    op,         \* per request, its handler on the machine that received it
    srv,        \* per request and machine, the handler of the call to it
    faults      \* number of failures so far

vars == <<file, etc, timed, op, srv, faults>>

NoFile == [cfg |-> NoConfig, token |-> NoToken]
NoRequest == [action |-> "none", option |-> "", type |-> "", hosts |-> <<>>, pcs |-> <<>>,
              storage |-> FALSE, name |-> 0, token |-> NoToken]

\* A new token is random: nobody has it before.
ASSUME FreshAssumption ==
    \A o \in Op, use \in {"ensured", "rotated"} :
        /\ \A n \in Node : StartFile[n].token # NewToken(o, use)
        /\ \A r \in Request : r.token # NewToken(o, use)

ASSUME RequestAssumption == \A r \in Request : DOMAIN r = DOMAIN NoRequest

\* silent: a call was answered 200 with code 500 in its body.  alone: no other
\* request has been at work since this one began.
IdleOp == [pc |-> "none", at |-> NoNode, req |-> NoRequest, loaded |-> NoFile, old |-> NoToken,
           todo |-> {}, targets |-> {}, cur |-> NoNode, failed |-> FALSE, silent |-> FALSE,
           alone |-> FALSE]
IdleSrv == [pc |-> "idle", header |-> NoToken, loaded |-> NoFile, code |-> "none"]

Init ==
    /\ file = StartFile
    /\ etc = [n \in Node |-> LET f == StartFile[n].cfg IN
                             ChangeHosts({}, f.type, f.storage, f, n)]
    /\ timed = [n \in Node |-> {}]
    /\ op = [o \in Op |-> IdleOp]
    /\ srv = [o \in Op |-> [n \in Node |-> IdleSrv]]
    /\ faults = 0

-----------------------------------------------------------------------------
\* The request, or a handler of one of its calls, is at work.
Active(o) ==
    \/ op[o].pc \notin {"none", "ok", "failed"}
    \/ \E n \in Node : srv[o][n].pc \notin {"idle", "reply"}

\* A request begins.
Enter(o, new) ==
    op' = [p \in Op |->
             IF p = o THEN [new EXCEPT !.alone = \A q \in Op \ {o} : ~Active(q)]
             ELSE [op[p] EXCEPT !.alone = FALSE]]

Fault == faults < MaxFaults /\ faults' = faults + 1

\* ensureInsertAddContext and ensureInsertAllHosts, on the file of the machine
\* that received the request.
SentHosts(f, r) ==
    CASE r.option = "add" /\ f.hosts # <<>> -> Upsert(f.hosts, r.hosts)
      [] r.option = "all" /\ r.hosts = <<>> -> f.hosts
      [] OTHER -> r.hosts

\* ensureTypeFromClusterConfig
RequestType(f, r) == IF r.action = "remove" /\ r.type = "" THEN f.type ELSE r.type

\* buildClusterTargets, with shouldIncludeScvm and shouldIncludeCcvm; a removal
\* or a reset names no hosts and takes them from the file, r has the hosts to
\* send.  A new host has no storage VM yet.
ClusterTargets(f, r, me) ==
    LET hosts == IF r.action = "insert" THEN ToSet(r.hosts) ELSE ToSet(f.hosts)
        type == IF r.action = "insert" THEN r.type ELSE f.type
        old(h) == f.hosts = <<>> \/ Position(f.hosts, h.name) # 0
        wide == r.action = "remove" \/ r.option = "add"
        scvm == {h \in hosts : wide /\ type \in HCI /\ h.scvm /\ (r.option = "add" => old(h))}
        ccvm == IF wide /\ (r.action = "insert" \/ f.ccvm) THEN CCVM ELSE {}
    IN  IF r.option = "local" THEN {me}
        ELSE {<<"cube", h.name>> : h \in hosts} \cup {<<"scvm", h.name>> : h \in scvm} \cup ccvm

\* ensureClusterInternalToken: the token of the request, else the one of the
\* file, else a new one.
InsertToken(o, f, r) ==
    IF r.action # "insert" THEN NoToken
    ELSE IF r.token # NoToken THEN r.token
    ELSE IF f.token # NoToken THEN f.token
    ELSE NewToken(o, "ensured")

\* ApplyClusterConfig up to ensureClusterInternalToken, which saves the token
\* unless the file had it.  An insert names a CCVM and a type.
ApplyClusterConfig(o, n, r) ==
    LET f == file[n]
        token == InsertToken(o, f, r)
        body == [r EXCEPT !.hosts = SentHosts(f.cfg, r), !.token = token,
                          !.type = RequestType(f.cfg, r)]
        targets == ClusterTargets(f.cfg, body, n)
        save == r.action = "insert" /\ (r.token # NoToken \/ f.token = NoToken) IN
    /\ op[o].pc = "none"
    /\ r.action \in {"insert", "remove", "reset"}
    /\ r.action = "insert" => r.type # "" /\ ValidatePCSClusterList(r.type, r.pcs)
    /\ targets # {} \/ save
    /\ Enter(o, [IdleOp EXCEPT !.pc = IF save THEN "token" ELSE "send", !.at = n, !.req = body,
                               !.loaded = IF save THEN f ELSE NoFile, !.old = token,
                               !.todo = targets, !.targets = targets])
    /\ UNCHANGED <<file, etc, timed, srv, faults>>

\* saveInternalToken of the file that was loaded.  Only then is a request
\* without targets refused.
SaveEnsuredToken(o) ==
    /\ op[o].pc = "token"
    /\ file' = [file EXCEPT ![op[o].at] = [cfg |-> op[o].loaded.cfg, token |-> op[o].old]]
    /\ op' = [op EXCEPT ![o].pc = IF op[o].req.action = "insert" /\ op[o].targets = {}
                                  THEN "failed" ELSE "send",
                        ![o].loaded = NoFile]
    /\ UNCHANGED <<etc, timed, srv, faults>>

\* RotateInternalToken: the Cube hosts of the file, except this one, in order.
\* EnsureInternalToken gives a machine without a token its first one.
RotateInternalToken(o, n, r) ==
    LET f == file[n]
        targets == {<<"cube", h.name>> : h \in ToSet(f.cfg.hosts)} \ {n} IN
    /\ op[o].pc = "none"
    /\ r.action = "rotate"
    /\ Enter(o, [IdleOp EXCEPT !.pc = IF f.token = NoToken THEN "token" ELSE "send",
                               !.at = n, !.loaded = IF f.token = NoToken THEN f ELSE NoFile,
                               !.old = IF f.token = NoToken THEN NewToken(o, "ensured")
                                       ELSE f.token,
                               !.req = [r EXCEPT !.hosts = f.cfg.hosts,
                                                 !.token = NewToken(o, "rotated")],
                               !.todo = targets, !.targets = targets])
    /\ UNCHANGED <<file, etc, timed, srv, faults>>

\* The order of the calls: that of the list for a rotation, any for an apply
\* (the targets are the keys of a Go map).
MayCall(o, t) ==
    /\ op[o].pc = "send"
    /\ t \in op[o].todo
    /\ op[o].req.action = "rotate" =>
         LET hosts == op[o].req.hosts IN
         \A u \in op[o].todo : Position(hosts, t[2]) <= Position(hosts, u[2])

\* callApplyLocal and applyInternalTokenToTarget: the header has the token of
\* the caller's file at this moment, or the one the rotation began with.
Call(o, t) ==
    /\ MayCall(o, t)
    /\ srv' = [srv EXCEPT ![o][t] =
                 [IdleSrv EXCEPT !.pc = "middleware",
                                 !.header = IF op[o].req.action = "rotate" THEN op[o].old
                                            ELSE file[op[o].at].token]]
    /\ op' = [op EXCEPT ![o].pc = "wait", ![o].cur = t, ![o].todo = @ \ {t}]
    /\ UNCHANGED <<file, etc, timed, faults>>

\* The machine does not answer, or has no active license.
CallLost(o, t) ==
    /\ MayCall(o, t)
    /\ Fault
    /\ op' = [op EXCEPT ![o].failed = TRUE, ![o].todo = @ \ {t}]
    /\ UNCHANGED <<file, etc, timed, srv>>

\* The client of the call gives up; its handler goes on.
CallTimeout(o) ==
    /\ op[o].pc = "wait"
    /\ Fault
    /\ op' = [op EXCEPT ![o].pc = "send", ![o].cur = NoNode, ![o].failed = TRUE]
    /\ UNCHANGED <<file, etc, timed, srv>>

\* Mutant: only the last call counts.
CallReturnsLast(o) ==
    LET reply == srv[o][op[o].cur] IN
    /\ op[o].pc = "wait"
    /\ reply.pc = "reply"
    /\ op' = [op EXCEPT ![o].pc = "send", ![o].cur = NoNode,
                        ![o].failed = reply.code = "err",
                        ![o].silent = @ \/ reply.code = "bad"]
    /\ srv' = [srv EXCEPT ![o][op[o].cur] = IdleSrv]
    /\ UNCHANGED <<file, etc, timed, faults>>

\* A status below 300 is success; the code in the body is not looked at.
CallReturns(o) ==
    LET reply == srv[o][op[o].cur] IN
    /\ op[o].pc = "wait"
    /\ reply.pc = "reply"
    /\ op' = [op EXCEPT ![o].pc = "send", ![o].cur = NoNode,
                        ![o].failed = @ \/ reply.code = "err",
                        ![o].silent = @ \/ reply.code = "bad"]
    /\ srv' = [srv EXCEPT ![o][op[o].cur] = IdleSrv]
    /\ UNCHANGED <<file, etc, timed, faults>>

\* Mutant: a rotation saves its own token whatever the calls returned.
AllCalledAnyway(o) ==
    /\ op[o].pc = "send"
    /\ op[o].todo = {}
    /\ op' = [op EXCEPT ![o].pc = IF op[o].req.action = "rotate" THEN "setload"
                                  ELSE IF op[o].failed THEN "failed" ELSE "ok"]
    /\ UNCHANGED <<file, etc, timed, srv, faults>>

\* All targets were called: the response of cluster apply, or the refusal or the
\* local part of a rotation.
AllCalled(o) ==
    /\ op[o].pc = "send"
    /\ op[o].todo = {}
    /\ op' = [op EXCEPT ![o].pc = IF op[o].failed THEN "failed"
                                  ELSE IF op[o].req.action = "rotate" THEN "setload" ELSE "ok"]
    /\ UNCHANGED <<file, etc, timed, srv, faults>>

\* SetInternalToken of a rotation, on its own machine.
SetOwnLoad(o) ==
    /\ op[o].pc = "setload"
    /\ op' = [op EXCEPT ![o].pc = "setsave", ![o].loaded = file[op[o].at]]
    /\ UNCHANGED <<file, etc, timed, srv, faults>>

SetOwnSave(o) ==
    /\ op[o].pc = "setsave"
    /\ file' = [file EXCEPT ![op[o].at] = [cfg |-> op[o].loaded.cfg, token |-> op[o].req.token]]
    /\ op' = [op EXCEPT ![o].pc = "ok", ![o].loaded = NoFile]
    /\ UNCHANGED <<etc, timed, srv, faults>>

-----------------------------------------------------------------------------
\* The handler of a call of request o on machine t.
At(o, t, pc) == srv[o][t].pc = pc
GoTo(o, t, pc) == srv' = [srv EXCEPT ![o][t].pc = pc]
Load(o, t, pc) == srv' = [srv EXCEPT ![o][t].pc = pc, ![o][t].loaded = file[t]]
Reply(o, t, code) == srv' = [srv EXCEPT ![o][t] = [IdleSrv EXCEPT !.pc = "reply", !.code = code]]
Save(t, cfg, token) == file' = [file EXCEPT ![t] = [cfg |-> cfg, token |-> token]]

\* Middleware: ValidateInternalToken, or allowClusterApplyLocalBootstrap on a
\* machine that has no token yet.  A caller without a token sends no header, and
\* is not signed in.
LetIn(o, t) ==
    LET header == srv[o][t].header  r == op[o].req IN
    /\ header # NoToken
    /\ \/ header = file[t].token
       \/ file[t].token = NoToken /\ r.action = "insert" /\ header = r.token

\* Middleware, and for a rotation ValidateInternalToken in ApplyInternalToken.
Middleware(o, t) ==
    /\ At(o, t, "middleware")
    /\ IF LetIn(o, t)
       THEN GoTo(o, t, CASE op[o].req.action \in {"insert", "rotate"} -> "tokenload"
                         [] op[o].req.action = "reset" -> "resetload"
                         [] OTHER -> "removeload")
       ELSE Reply(o, t, "err")
    /\ UNCHANGED <<file, etc, timed, op, faults>>

\* SetInternalToken, called by ApplyInternalToken and, with the token of the
\* body, by ensureClusterInternalToken in ApplyClusterConfigLocal.
SetInternalTokenLoad(o, t) ==
    /\ At(o, t, "tokenload")
    /\ Load(o, t, "tokensave")
    /\ UNCHANGED <<file, etc, timed, op, faults>>

SetInternalTokenSave(o, t) ==
    /\ At(o, t, "tokensave")
    /\ Save(t, srv[o][t].loaded.cfg, op[o].req.token)
    /\ IF op[o].req.action = "rotate" THEN Reply(o, t, "ok") ELSE GoTo(o, t, "resetload")
    /\ UNCHANGED <<etc, timed, op, faults>>

\* applyArgs: an insert is a reset and then an insert, each with a load and a
\* save of its own.
ResetLoad(o, t) ==
    /\ At(o, t, "resetload")
    /\ Load(o, t, "resetsave")
    /\ UNCHANGED <<file, etc, timed, op, faults>>

\* Mutant: the security section goes as well.
ResetSaveAll(o, t) ==
    /\ At(o, t, "resetsave")
    /\ Save(t, NoConfig, NoToken)
    /\ IF op[o].req.action = "reset" THEN Reply(o, t, "ok") ELSE GoTo(o, t, "insertload")
    /\ UNCHANGED <<etc, timed, op, faults>>

\* resetClusterConfig
ResetSave(o, t) ==
    /\ At(o, t, "resetsave")
    /\ Save(t, NoConfig, srv[o][t].loaded.token)
    /\ IF op[o].req.action = "reset" THEN Reply(o, t, "ok") ELSE GoTo(o, t, "insertload")
    /\ UNCHANGED <<etc, timed, op, faults>>

InsertLoad(o, t) ==
    /\ At(o, t, "insertload")
    /\ Load(o, t, "insertsave")
    /\ UNCHANGED <<file, etc, timed, op, faults>>

\* insert, with the list and the token of the body.
InsertSave(o, t) ==
    /\ At(o, t, "insertsave")
    /\ Save(t, InsertInto(srv[o][t].loaded.cfg, op[o].req), op[o].req.token)
    /\ GoTo(o, t, "hosts")
    /\ UNCHANGED <<etc, timed, op, faults>>

\* retryHostsApply: changeHosts with the file as it is now.
HostsApply(o, t) ==
    LET r == op[o].req IN
    /\ At(o, t, "hosts")
    /\ etc' = [etc EXCEPT ![t] = ChangeHosts(@, r.type, r.storage, file[t].cfg, t)]
    /\ IF r.action = "insert" THEN GoTo(o, t, "time") ELSE Reply(o, t, "ok")
    /\ UNCHANGED <<file, timed, op, faults>>

\* applyTimeServerConfig, after a local insert with code 200.
TimeServer(o, t) ==
    /\ At(o, t, "time")
    /\ timed' = [timed EXCEPT ![t] = @ \cup {o}]
    /\ Reply(o, t, "ok")
    /\ UNCHANGED <<file, etc, op, faults>>

\* removeHost: load, take the lines out of /etc/hosts (on HCI now, otherwise at
\* the end), save, and on HCI write /etc/hosts again.
RemoveLoad(o, t) ==
    /\ At(o, t, "removeload")
    /\ Load(o, t, IF op[o].req.type \in HCI THEN "removelines" ELSE "removesave")
    /\ UNCHANGED <<file, etc, timed, op, faults>>

\* Mutant: the lines of the removed host stay.
RemoveLinesNone(o, t) ==
    /\ At(o, t, "removelines")
    /\ IF op[o].req.type \in HCI THEN GoTo(o, t, "removesave") ELSE Reply(o, t, "ok")
    /\ UNCHANGED <<file, etc, timed, op, faults>>

RemoveLines(o, t) ==
    LET hosts == srv[o][t].loaded.cfg.hosts
        k == Position(hosts, op[o].req.name) IN
    /\ At(o, t, "removelines")
    /\ etc' = [etc EXCEPT ![t] = IF k = 0 THEN @
                                 ELSE WithoutLines(@, op[o].req.type, hosts[k])]
    /\ IF op[o].req.type \in HCI THEN GoTo(o, t, "removesave") ELSE Reply(o, t, "ok")
    /\ UNCHANGED <<file, timed, op, faults>>

RemoveSave(o, t) ==
    /\ At(o, t, "removesave")
    /\ Save(t, RemoveFrom(srv[o][t].loaded.cfg, op[o].req.name), srv[o][t].loaded.token)
    /\ GoTo(o, t, IF op[o].req.type \in HCI THEN "hosts" ELSE "removelines")
    /\ UNCHANGED <<etc, timed, op, faults>>

\* A local step fails: before ApplyLocal and in the time server with an HTTP
\* error, in between with code 500 in the body of a response 200.
LocalFailure(o, t) ==
    /\ srv[o][t].pc \notin {"idle", "middleware", "reply"}
    /\ Fault
    /\ Reply(o, t, IF srv[o][t].pc \in {"tokenload", "tokensave", "time"} THEN "err"
                   ELSE "bad")
    /\ UNCHANGED <<file, etc, timed, op>>

-----------------------------------------------------------------------------
Coordinate(o) ==
    \/ SaveEnsuredToken(o) \/ CallTimeout(o) \/ CallReturns(o) \/ AllCalled(o)
    \/ SetOwnLoad(o) \/ SetOwnSave(o)
    \/ \E t \in Node : Call(o, t) \/ CallLost(o, t)

Serve(o, t) ==
    \/ Middleware(o, t) \/ SetInternalTokenLoad(o, t) \/ SetInternalTokenSave(o, t)
    \/ ResetLoad(o, t) \/ ResetSave(o, t) \/ InsertLoad(o, t) \/ InsertSave(o, t)
    \/ HostsApply(o, t) \/ TimeServer(o, t)
    \/ RemoveLoad(o, t) \/ RemoveLines(o, t) \/ RemoveSave(o, t) \/ LocalFailure(o, t)

Next == \E o \in Op :
    \/ \E n \in Entry, r \in Request : ApplyClusterConfig(o, n, r) \/ RotateInternalToken(o, n, r)
    \/ Coordinate(o)
    \/ \E t \in Node : Serve(o, t)

Spec == Init /\ [][Next]_vars

-----------------------------------------------------------------------------
\* The request was answered with success, every local step of it too, and
\* nothing else has touched the cluster since it began.
DoneAlone(o) == op[o].pc = "ok" /\ op[o].alone /\ ~op[o].silent

\* A machine that has an internal token never loses it: resetClusterConfig
\* leaves the security section alone, and no save of a file loaded earlier can
\* bring back one without a token.
TokenNeverCleared ==
    [][\A n \in Node : file[n].token # NoToken => file'[n].token # NoToken]_file

\* After cluster apply insert, with nothing else going on, all machines it was
\* sent to have the same cluster.json, the token included, whatever each of
\* them had before.
InsertUnifies ==
    \A o \in Op : DoneAlone(o) /\ op[o].req.action = "insert" =>
        \A s, t \in op[o].targets : file[s] = file[t] /\ file[s].token = op[o].req.token

\* After an insert or, on HCI, a removal (which renumbers the hosts that stay)
\* /etc/hosts of every machine it was sent to leads to each host and each
\* storage VM of its cluster.json, under the present numbers only, and after a
\* removal no machine lists the host or has a line for it.
NamesResolve ==
    \A o \in Op : DoneAlone(o) =>
        \A t \in op[o].targets :
            /\ \/ op[o].req.action = "insert"
               \/ op[o].req.action = "remove" /\ op[o].req.type \in HCI
               => Resolves(etc[t], op[o].req.type, file[t].cfg.hosts)
            /\ op[o].req.action = "remove" =>
                  /\ Position(file[t].cfg.hosts, op[o].req.name) = 0
                  /\ Forgotten(etc[t], op[o].req.name)

\* However inserts, removals and resets meet on a machine, its cluster.json lists no host
\* twice: what an insert finds there is merged by name, also when it is the list of another
\* insert that came between its own reset and its load.
NoHostTwice ==
    \A n \in Node : \A i, j \in DOMAIN file[n].cfg.hosts :
        file[n].cfg.hosts[i].name = file[n].cfg.hosts[j].name => i = j

\* A rotation, with nothing else going on, changes the token of the machine that
\* runs it only when every other Cube host of its list has the new one: until
\* then its own calls are still accepted by all hosts the rotation has not
\* reached.
OwnTokenLast ==
    \A o \in Op : op[o].alone /\ op[o].req.action = "rotate"
                  /\ file[op[o].at].token = op[o].req.token =>
        \A t \in op[o].targets : file[t].token = op[o].req.token

\* "insert 적용이 성공하면 각 노드에서 /etc/chrony.conf 생성과 chronyd 재시작까지
\* 자동으로 함께 처리한다" (docs/api-execution-and-description.md:836): when cluster
\* apply answers 200 to an insert, every machine it was sent to has configured its
\* time server.
SuccessConfiguresTime ==
    \A o \in Op : op[o].pc = "ok" /\ op[o].req.action = "insert" =>
        \A t \in op[o].targets : o \in timed[t]
=============================================================================
