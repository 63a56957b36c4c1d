------------------------------ MODULE SSHKeys ------------------------------
(***************************************************************************)
(* The files of /root/.ssh on a host, and who writes them:                   *)
(*   ssh_key.go    generates a key pair, or takes one from an uploaded       *)
(*                 bundle, and authorizes it; a download makes a bundle;     *)
(*   ssh_trust.go  registers the key of the Mold management server in        *)
(*                 authorized_keys (sshtrust.go, under a mutex), or removes  *)
(*                 it;                                                       *)
(*   ssh_scan.go   scans the hosts of the cluster for their host keys and    *)
(*                 puts them into known_hosts (under another mutex), after a *)
(*                 cluster configuration is inserted and once a day.         *)
(***************************************************************************)
EXTENDS Script, FiniteSets

CONSTANTS
    Client, MaxFaults,
    Host,           \* what is scanned
    NewKey,         \* key pairs that may be generated
    TrustKey,       \* keys of the management server
    MaxAttempts     \* sshScanMaxAttempts

VARIABLES w, req, overlap, last, lost, faults

-----------------------------------------------------------------------------

\* A key stands for a pair: private and public name the key they belong to.  The lines of
\* authorized_keys are public keys.  known: how many lines a host has in known_hosts.
Configured ==
    [private |-> "first", public |-> "first", authorized |-> {"first", "admin"},
     bundle |-> <<>>, known |-> [h \in Host |-> 1], junk |-> TRUE,
     ready |-> TRUE, due |-> TRUE, held |-> {}]
NoKeys == [Configured EXCEPT !.ready = FALSE, !.private = "none", !.public = "none", !.authorized = {}]

Only(b, x) == IF b THEN {x} ELSE {}
KeyFilesExist(x) == x.private # "none" \/ x.public # "none" \/ x.authorized # {}
Effect(cmd, x) ==
    CASE cmd[1] = "lock" -> Only(cmd[2] \notin x.held, [x EXCEPT !.held = @ \cup {cmd[2]}])
      [] cmd[1] = "unlock" -> {[x EXCEPT !.held = @ \ {cmd[2]}]}
      [] cmd[1] = "mkdir" -> {x}
      [] cmd[1] = "none exist" -> Only(~KeyFilesExist(x), x)
      [] cmd[1] = "write" -> {[x EXCEPT ![cmd[2]] = cmd[3]]}
      [] cmd[1] = "bundle" -> Only(x.public # "none", [x EXCEPT !.bundle = <<cmd[2], x.public>>])
      [] cmd[1] = "mark" -> Only(x.due, [x EXCEPT !.due = FALSE])
      [] cmd[1] = "keyscan" -> {x}
      [] cmd[1] = "repair" -> {[x EXCEPT !.junk = FALSE]}
      [] cmd[1] = "forget" -> {[x EXCEPT !.known[cmd[2]] = 0]}
      [] cmd[1] = "append" -> {[x EXCEPT !.known = [h \in Host |-> IF h \in cmd[2] THEN @[h] + 1 ELSE @[h]]]}
      [] OTHER -> {}

-----------------------------------------------------------------------------
(* The key pair of the host.                                                *)

Refuse == Must(<<"refuse">>)
EnsureDirectory == Must(<<"mkdir">>)
\* Mutant: the old key stays the one that may log in.
WritePairOnly(private, public) ==
    Must(<<"write", "private", private>>) \o Must(<<"write", "public", public>>)
\* One file after the other, each overwritten in place.
WriteSSHKeyFiles(private, public) ==
    Must(<<"write", "private", private>>) \o Must(<<"write", "public", public>>)
    \o Must(<<"write", "authorized", {public}>>)
\* sshKeyShouldOverwrite, existingSSHKeyFiles: asked for before the files are written.
UnlessExisting(overwrite) == If(~overwrite, Must(<<"none exist">>))
GenerateSSHKeyFiles(a) == EnsureDirectory \o UnlessExisting(a.overwrite) \o WriteSSHKeyFiles(a.key, a.key)
\* The private key is read, then the public one; what is in the bundle is not compared.
BuildBundle == Call(<<"bundle">>)
ReadForBundle(x) == IF x.private = "none" THEN Refuse ELSE Must(<<"bundle", x.private>>)
UploadSSHKeyBundle(a) ==
    EnsureDirectory \o UnlessExisting(a.overwrite) \o WriteSSHKeyFiles(a.pair[1], a.pair[2])

\* A bundle that is uploaded was downloaded before.
KeyAsks(x) ==
    [act : {"generate"}, overwrite : BOOLEAN, key : NewKey]
    \cup [act : {"download"}]
    \cup (IF x.bundle = <<>> THEN {} ELSE [act : {"upload"}, overwrite : BOOLEAN, pair : {x.bundle}])
SSHKey(a) ==
    CASE a.act = "generate" -> GenerateSSHKeyFiles(a)
      [] a.act = "download" -> BuildBundle
      [] a.act = "upload" -> UploadSSHKeyBundle(a)

-----------------------------------------------------------------------------
(* The key of the management server, the one line with its identifier.      *)

EnsureAuthorizedKey(x, key) == (x.authorized \ TrustKey) \cup {key}
RemoveAuthorizedKey(x) == x.authorized \ TrustKey
\* updateAuthorizedKeys: the lines are read, and a file with the new ones renamed to theirs.
WriteAuthorizedKeys(x, lines) == If(lines # x.authorized, Must(<<"write", "authorized", lines>>))
UpdateAuthorizedKeys(cmd) == Must(<<"lock", "authorized_keys">>) \o Defer(<<"unlock", "authorized_keys">>) \o Call(cmd)
TrustAsks == [act : {"ensure"}, key : TrustKey] \cup [act : {"remove"}]
SSHTrust(a) == UpdateAuthorizedKeys(IF a.act = "ensure" THEN <<"ensure", a.key>> ELSE <<"remove">>)

-----------------------------------------------------------------------------
(* known_hosts.  at[h] is the attempt at which the SSH port of h is open (0  *)
(* for never); a mute host has an open port and sends no key, one at most.  *)
(* In the daily scan a port is open at once or not at all.                  *)

ScanAsks ==
    {a \in [act : {"insert", "daily"}, at : [Host -> 0..MaxAttempts], mute : SUBSET Host] :
        /\ Cardinality(a.mute) <= 1 /\ \A h \in a.mute : a.at[h] > 0
        /\ a.act = "daily" => a.mute = {} /\ \A h \in Host : a.at[h] <= 1}

UnderKnownHostsMu(steps) == Must(<<"lock", "known_hosts">>) \o steps \o Must(<<"unlock", "known_hosts">>)
RepairDefault == UnderKnownHostsMu(Try(<<"repair">>))
Forget(hosts) == LET s == SetToSeq(hosts) IN [i \in 1..Len(s) |-> <<"forget", s[i]>>]
NewLines(hosts) == IF hosts = {} THEN <<>> ELSE <<<<"append", hosts>>>>
\* Mutant: without the mutex.
UpdateUnlocked(open, mute) == Target(<<<<"repair">>>> \o Forget(open) \o NewLines(open \ mute))
\* The lines of every host that was scanned are removed, those that came back appended.
UpdateKnownHosts(open, mute) ==
    UnderKnownHostsMu(Target(<<<<"repair">>>> \o Forget(open) \o NewLines(open \ mute)))
IsPortOpen(a, n) == {h \in Host : a.at[h] = n}
ScanAttempt(a, n) ==
    LET open == IsPortOpen(a, n)  update == UpdateKnownHosts(open, a.mute)
    IN  If(open # {}, NoteOr(<<"keyscan">>, Len(update)) \o update)
\* The next attempt is for the hosts whose port was closed, never for one that failed.
ScheduleScan(a) == RepairDefault \o FlattenSeq([n \in 1..MaxAttempts |-> ScanAttempt(a, n)])
IsDue(x) == x.due
MarkIfDue == Must(<<"mark">>)
\* Whether the bootstrap of the cluster's VMs and of its monitoring has been recorded.
ResolveAutoScanTargets(x) == x.ready
AutoSSHKnownHostsScan(a, x) ==
    IF IsDue(x) /\ ResolveAutoScanTargets(x) THEN MarkIfDue \o ScheduleScan(a) ELSE Verdict
Scan(a, x) == IF a.act = "daily" THEN AutoSSHKnownHostsScan(a, x) ELSE ScheduleScan(a)

-----------------------------------------------------------------------------

Body(cmd, x) ==
    CASE cmd[1] = "bundle" -> ReadForBundle(x)
      [] cmd[1] = "ensure" -> WriteAuthorizedKeys(x, EnsureAuthorizedKey(x, cmd[2]))
      [] cmd[1] = "remove" -> WriteAuthorizedKeys(x, RemoveAuthorizedKey(x))

Asks(x) == KeyAsks(x) \cup TrustAsks \cup ScanAsks
Start(a, x) ==
    CASE a \in ScanAsks -> Scan(a, x)
      [] a \in TrustAsks -> SSHTrust(a)
      [] OTHER -> SSHKey(a)
Begins == {Configured, NoKeys}
\* A day goes by, and the bootstrap ends.  A server that has stopped holds no mutex when it starts again.
Drifts(x) == {x, [x EXCEPT !.ready = TRUE, !.due = TRUE, !.held = {}]}
Matters(cmd) == TRUE

INSTANCE Runner

-----------------------------------------------------------------------------

TypeOK ==
    /\ {w.private, w.public} \subseteq NewKey \cup {"first", "none"}
    /\ w.authorized \subseteq NewKey \cup TrustKey \cup {"first", "admin", "none"}

\* With no request at work, the host has both halves of one key pair, and that key may log
\* in: key requests, registrations and removals of the management key, and bundles that go
\* out and come back keep it so, as long as none of them overlaps another and none fails.
KeyFilesAgree ==
    Running = {} /\ ~overlap /\ lost = {} =>
        /\ w.private = w.public
        /\ w.public # "none" => w.public \in w.authorized

\* However the scans of an insert and of the day overlap, and whatever fails in them, a host
\* has one line in known_hosts or none: nobody finds two keys for it.
OneKeyPerHost == \A h \in Host : w.known[h] <= 1

\* A request that succeeds has done all of it: the key is in its three files, the management
\* key is or is not among the authorized ones, and the scan after an insert knows every host
\* that answered, at whichever attempt.
SuccessIsWhole ==
    CASE last.act = "generate" -> w.private = last.key /\ w.public = last.key /\ w.authorized = {last.key}
      [] last.act = "upload" -> <<w.private, w.public>> = last.pair /\ last.pair[2] \in w.authorized
      [] last.act = "ensure" -> w.authorized \cap TrustKey = {last.key}
      [] last.act = "remove" -> w.authorized \cap TrustKey = {}
      [] last.act = "insert" -> \A h \in Host : last.at[h] > 0 /\ h \notin last.mute => w.known[h] = 1
      [] OTHER -> TRUE

=============================================================================
