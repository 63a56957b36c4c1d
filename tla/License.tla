------------------------------ MODULE License ------------------------------
(***************************************************************************)
(* The license of each node and what hangs on it.  A license is a file in a  *)
(* directory of the node; the last name in order counts.  The key in it      *)
(* signs the access tokens of the node (licenseservice, authservice).        *)
(* license.go registers a license on one node, license_apply.go on many.     *)
(* A new file is written beside the others and renamed; that is one command. *)
(***************************************************************************)
EXTENDS Script, FiniteSets, FiniteSetsExt

CONSTANTS
    Node, Here,     \* nodes, and the one that answers
    Name, Default,  \* file names, as numbers in their order, and defaultLicenseFilename
    Key, NoKey,     \* license contents
    Client, MaxFaults

VARIABLES w, req, overlap, last, lost, faults

-----------------------------------------------------------------------------

\* dir: per node the files; old: keys whose time is over; session: the key that has signed
\* the caller's access token; shared: the nodes whose internal token is the same as here;
\* profile: systemProfile.license of the node; had: history, the nodes that were given a license.
World(dir, k, shared) ==
    [dir |-> dir, old |-> {}, session |-> k, shared |-> shared, token |-> {},
     profile |-> [n \in Node |-> NoKey], had |-> {n \in Node : \E f \in Name : dir[n][f] # NoKey}]

Files(n, x) == {f \in Name : x.dir[n][f] # NoKey}
\* CurrentLicenseFile and CurrentInfo.
CurrentInfo(n, x) == IF Files(n, x) = {} THEN NoKey ELSE x.dir[n][Max(Files(n, x))]
ValidateActive(k, x) == k # NoKey /\ k \notin x.old
\* CurrentAuthSecret: the key that signs on this node, if any.
ExistingSigningSecret(n, x) == IF ValidateActive(CurrentInfo(n, x), x) THEN CurrentInfo(n, x) ELSE NoKey
HasActiveLicense(n, x) == ExistingSigningSecret(n, x) # NoKey
VerifyToken(s, n, x) == s # NoKey /\ s = ExistingSigningSecret(n, x)
\* An active license is replaced with an access token of that node or with the internal token.
MayReplace(s, n, x) == HasActiveLicense(n, x) => VerifyToken(s, n, x) \/ n \in x.shared

Only(b, x) == IF b THEN {x} ELSE {}
\* The rename in Register, after DecodeContent, DecryptInfo and ValidateActive.
Store(n, f, k, x) ==
    Only(ValidateActive(k, x), [x EXCEPT !.dir[n][f] = k, !.had = @ \cup {n}])
RemoveOthers(n, f, x) == {[x EXCEPT !.dir[n] = [g \in Name |-> IF g = f THEN @[g] ELSE NoKey]]}
Effect(cmd, x) ==
    CASE cmd[1] = "authorize" -> Only(MayReplace(cmd[2], cmd[3], x), x)
      [] cmd[1] = "store" -> Store(cmd[2], cmd[3], cmd[4], x)
      [] cmd[1] = "remove others" -> RemoveOthers(cmd[2], cmd[3], x)
      [] cmd[1] = "token" -> {[x EXCEPT !.token = @ \cup {cmd[2]}]}
      [] cmd[1] = "profile" -> {[x EXCEPT !.profile[cmd[2]] = cmd[3]]}
      [] cmd[1] = "read" -> Only(CurrentInfo(cmd[2], x) # NoKey, x)
      [] cmd[1] = "issue" -> Only(HasActiveLicense(Here, x), [x EXCEPT !.session = ExistingSigningSecret(Here, x)])
      [] cmd[1] = "pass" -> Only(VerifyToken(cmd[2], Here, x), x)
      [] cmd[1] = "ready" -> {x}
      [] OTHER -> {}

-----------------------------------------------------------------------------

Refuse == Must(<<"refuse">>)

\* EnsureInternalToken and syncLicenseSystemProfile follow: each of them may fail with the license in force.
SyncProfile(n, k) == Note(<<"profile", n, k>>)
\* Mutant: the other files go first.
RegisterAfterRemoval(n, f, k) ==
    Try(<<"remove others", n, f>>) \o NoteOr(<<"store", n, f, k>>, 2)
    \o NoteOr(<<"token", n>>, 1) \o SyncProfile(n, k)
\* Register: the other files go after the new one is there; an error of that is ignored.
Register(n, f, k) ==
    NoteOr(<<"store", n, f, k>>, 3) \o Try(<<"remove others", n, f>>)
    \o NoteOr(<<"token", n>>, 1) \o SyncProfile(n, k)
\* LicenseControl on the node.
RegisterOn(s, n, f, k) == NoteOr(<<"authorize", s, n>>, 4) \o Register(n, f, k)
GetLicenseStatus(n) == Note(<<"read", n>>)

\* licenseContentForTarget: the target's own entry before the one for all.
ContentForTarget(a, n) == IF a.own[n] # NoKey THEN a.own[n] ELSE a.key
\* applyLicenseOnTarget: here with the name that was asked for, elsewhere with the default one.
ApplyOnTarget(a, n, x) ==
    LET k == ContentForTarget(a, n) IN
    IF a.act = "status" THEN GetLicenseStatus(n)
    ELSE IF a.act = "apply" /\ k = NoKey THEN Note(<<"refuse">>)
    ELSE IF a.act = "apply" /\ n = Here THEN Register(n, a.name, k)
    ELSE RegisterOn(x.session, n, Default, k)
\* waitCCVMLicenseTargetReady: a target that does not become ready is an error there.
ReadyThen(b, steps) == If(b, NoteOr(<<"ready">>, Len(steps))) \o steps
\* Without a license in the request the one of this node is meant.
DefaultContent(a, x) ==
    IF a.key = NoKey /\ \A n \in Node : a.own[n] = NoKey THEN [a EXCEPT !.key = CurrentInfo(Here, x)] ELSE a
RunLicenseApply(a, x) ==
    LET b == IF a.act = "apply" THEN DefaultContent(a, x) ELSE a IN
    IF a.act = "apply" /\ b.key = NoKey /\ \A n \in Node : b.own[n] = NoKey THEN Refuse
    ELSE Each(a.to, LAMBDA n : ReadyThen(a.act = "apply" /\ n # Here, ApplyOnTarget(b, n, x))) \o Verdict
\* Middleware: every other path needs an access token of this node.
Middleware(x, steps) == Must(<<"pass", x.session>>) \o steps
\* Login: VerifyLinuxCredentials, then IssueAccessToken.
Login(a) == IF a.credentials THEN Must(<<"issue">>) ELSE Refuse

NobodysOwn == [n \in Node |-> NoKey]
LoginAsks == [act : {"login"}, credentials : BOOLEAN]
\* bindLicenseRequest: JSON has the default name, an upload brings its own.
LicenseAsks == [act : {"register"}, at : Node, name : Name, key : Key \cup {NoKey}] \cup [act : {"read"}, at : Node]
\* buildLicenseApplyTargets.
ApplyAsks ==
    [act : {"apply"}, to : {Node, Node \ {Here}}, name : {Default}, key : Key \cup {NoKey}, own : {NobodysOwn}]
    \cup [act : {"apply"}, to : {Node, Node \ {Here}}, name : {Default}, key : {NoKey},
          own : {[NobodysOwn EXCEPT ![n] = k] : n \in Node \ {Here}, k \in Key}]
    \cup [act : {"status"}, to : {Node}]
Asks(x) == LoginAsks \cup LicenseAsks \cup ApplyAsks

\* LicenseControl: its path is open; registerLicense refuses an empty content.
LicenseControl(a, x) ==
    CASE a.act = "read" -> GetLicenseStatus(a.at)
      [] a.act = "register" /\ a.key = NoKey -> Refuse
      [] OTHER -> RegisterOn(x.session, a.at, a.name, a.key)
Start(a, x) ==
    CASE a.act = "login" -> Login(a)
      [] a.act \in {"register", "read"} -> LicenseControl(a, x)
      [] OTHER -> Middleware(x, RunLicenseApply(a, x))
Body(cmd, x) == <<>>

NoFile == [f \in Name |-> NoKey]
\* A license here, and the operator is logged in.
OldKey == CHOOSE k \in Key : TRUE
Begins ==
    {World([n \in Node |-> IF n = Here \/ ~fresh THEN [NoFile EXCEPT ![f] = OldKey] ELSE NoFile], OldKey, IF fresh THEN {Here} ELSE Node) :
        f \in Name, fresh \in BOOLEAN}
\* Time goes on: a license and a session end.
Drifts(x) == {[x EXCEPT !.old = {OldKey}]} \cup {[x EXCEPT !.session = NoKey]}
Matters(cmd) == TRUE

INSTANCE Runner

-----------------------------------------------------------------------------

TypeOK ==
    /\ \A n \in Node, f \in Name : w.dir[n][f] \in Key \cup {NoKey}
    /\ w.session \in Key \cup {NoKey} /\ w.old \subseteq Key

\* A node that was given a license keeps one, whatever fails while it is replaced: the old
\* file goes only when the new one is there.  Two registrations under different names at the
\* same time are the exception: each removes the other's file.
LicenseIsKept == \A n \in w.had : Files(n, w) # {} \/ overlap

\* When applying a license succeeds, every target has it in force and in its profile, and
\* when registering succeeds that node has; a file that could not be removed and comes later
\* in the order of names is the exception.
InForce(n, k) == CurrentInfo(n, w) = k \/ \E c \in lost : c[1] \in {"remove others", "stop"}
SuccessIsWhole ==
    CASE last.act = "apply" -> \A n \in last.to :
             LET k == ContentForTarget(last, n) IN
             /\ k # NoKey => InForce(n, k) /\ w.profile[n] = k
             /\ k = NoKey => w.profile[n] # NoKey
      [] last.act = "register" -> InForce(last.at, last.key) /\ w.profile[last.at] = last.key
      [] OTHER -> TRUE

=============================================================================
