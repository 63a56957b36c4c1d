--------------------------- MODULE SystemProfile ---------------------------
(***************************************************************************)
(* The flags in systemProfile of each host's cluster.json: system_config.go  *)
(* changes them on one host or on all, and ccvm_monitoring_config.go has the *)
(* CCVM configure its monitoring services and then sets bootstrap.wall.      *)
(* Every change reads the file, changes the profile and writes the file;     *)
(* no lock is held in between.  The Python tools of the CCVM are external.   *)
(***************************************************************************)
EXTENDS Script, FiniteSets

CONSTANTS
    Host, Here,     \* hosts of cluster.json, and the one that answers
    Client, MaxFaults

VARIABLES w, req, overlap, last, lost, faults

-----------------------------------------------------------------------------

\* The section bootstrap; of the other sections, monitoring stands for all that are not kept.
Flag == {"scvm", "ccvm", "wall", "gfs_configure", "local_configure"}
Value == {"true", "false"}
NoFlag == [f \in Flag |-> "false"]

\* profile: of each host; netdive, wall, smtp: what the CCVM has configured; up: its services
\* are active and enabled; verified: history, they were once verified after a configuration;
\* byHand: history, a request has set bootstrap.wall itself.
World(t, up) ==
    [type |-> t, profile |-> [h \in Host |-> NoFlag], netdive |-> FALSE, wall |-> FALSE, smtp |-> FALSE,
     up |-> up, verified |-> FALSE, byHand |-> FALSE]

Only(b, x) == IF b THEN {x} ELSE {}
\* The tools of the CCVM; the services start when they were once installed with the image.
Python(op, x) ==
    CASE op = "check targets" -> {x}
      [] op = "netdive" -> {[x EXCEPT !.netdive = TRUE]}
      [] op = "wall" -> {[x EXCEPT !.wall = TRUE]}
      [] op = "smtp" -> {[x EXCEPT !.smtp = TRUE]}
      [] op = "stop" -> {[x EXCEPT !.up = FALSE]}
      [] op = "start" -> {[x EXCEPT !.up = TRUE]}
Effect(cmd, x) ==
    CASE cmd[1] = "save" -> {[x EXCEPT !.profile[cmd[2]] = cmd[3], !.byHand = @ \/ cmd[4]]}
      [] cmd[1] = "status" -> {x}
      [] cmd[1] = "health" -> {x}
      [] cmd[1] = "python" -> Python(cmd[2], x)
      [] cmd[1] = "verify" -> Only(x.up, [x EXCEPT !.verified = @ \/ x.wall])
      [] OTHER -> {}

-----------------------------------------------------------------------------
(* The profile.                                                              *)

\* normalizeSystemProfile: a section that the profile does not have is dropped when the file is
\* read again.  It may give bootstrap.wall its value only where that is empty, which it never is.
Normalize(p, section, key, value) == IF section = "bootstrap" THEN [p EXCEPT ![key] = value] ELSE p
UpdateProfileValue(p, a) == Normalize(p, a.section, a.key, a.value)

\* applySystemAllUpdate.
AllUpdated(t) == {"ccvm", "wall"} \cup CASE t = "hci" -> {"scvm"} [] t = "vm" -> {"gfs_configure"} [] OTHER -> {}
AllUpdate(p, t) == [f \in Flag |-> IF f \in AllUpdated(t) THEN "true" ELSE p[f]]
ResetProfile == NoFlag

Changed(p, a, t) ==
    CASE a.act = "update" -> UpdateProfileValue(p, a)
      [] a.act = "allupdate" -> AllUpdate(p, t)
      [] a.act = "reset" -> ResetProfile

\* The same handler on this host and, called by it, on the others.
SaveProfile(h, p, on) == Step(<<"save", h, p, on[2]>>, on[1])
ChangeOn(h, a, on, byHand) == Call(<<"load", h, a, <<on, byHand>>>>)
Body(cmd, x) == SaveProfile(cmd[2], Changed(x.profile[cmd[2]], cmd[3], x.type), cmd[4])

\* normalizeSystemConfigConvenienceRequest.
Convenience(a) ==
    IF a.act # "gfs-configure" THEN a
    ELSE [act |-> "update", all |-> TRUE, section |-> "bootstrap", key |-> "gfs_configure", value |-> "true"]

SetsWall(a) == a.act = "allupdate" \/ (a.act = "update" /\ a.key = "wall")
\* The targets are all hosts of the list, this one too; every one is called before a failure is
\* looked for.
ConfigToTargets(a) == Each(Host, LAMBDA h : ChangeOn(h, a, "keep", SetsWall(a))) \o Verdict
StatusToTargets == Each(Host, LAMBDA h : Note(<<"status", h>>)) \o Verdict
UpdateSystemConfig(a) == ChangeOn(Here, a, "return", SetsWall(a)) \o If(a.all, ConfigToTargets(a))

-----------------------------------------------------------------------------
(* Monitoring.                                                               *)

PythonStep(op) == <<"python", op>>
\* recoverCCVMMonitoringPythonServices.
Recover == IfBad(Try(PythonStep("start"))) \o Verdict
StopServices == Note(PythonStep("stop")) \o Recover
\* verifyCCVMMonitoringServices: until the services are there, or its time is over.
Verify == Must(<<"verify">>)

\* Mutant: services that were stopped stay so when config_wall.py fails.
ConfigureWallOnly(a) == Must(PythonStep("wall"))
ConfigureWall(a) == Note(PythonStep("wall")) \o If(a.configure, Recover) \o Verdict

\* runCCVMMonitoringConfigLocal, on the CCVM.
MonitoringLocal(a) ==
    If(a.configure, Must(PythonStep("check targets")) \o Must(PythonStep("netdive")) \o StopServices)
    \o ConfigureWall(a)
    \o If(a.configure, Must(PythonStep("start")) \o If(a.smtp, Must(PythonStep("smtp"))))
    \o Verify

CheckHealth == Must(<<"health">>)
WallFlag == [act |-> "update", all |-> FALSE, section |-> "bootstrap", key |-> "wall", value |-> "true"]
\* resetCloudCenterApplySystemFlagsOnHosts.
FlagOnHosts == Each(Host, LAMBDA h : ChangeOn(h, WallFlag, "keep", FALSE)) \o Verdict
\* Mutant: the flag is set when the tools have run, before the services are verified.
FlagThenMonitoring(a) == CheckHealth \o If(a.configure, FlagOnHosts) \o MonitoringLocal(a)
MonitoringConfig(a) == CheckHealth \o MonitoringLocal(a) \o If(a.configure, FlagOnHosts)
\* callCCVMMonitoringConfigRemote has given up: the handler on the CCVM goes on to its end, and
\* the request is answered with an error.
GivenUp(a) == CheckHealth \o MonitoringLocal(a) \o Must(<<"answer">>)

-----------------------------------------------------------------------------

SystemAsks ==
    [act : {"update"}, all : BOOLEAN, section : {"bootstrap"}, key : {"ccvm", "wall"}, value : Value]
    \cup [act : {"update"}, all : {TRUE}, section : {"monitoring"}, key : {"wall"}, value : Value]
    \cup [act : {"allupdate", "reset"}, all : BOOLEAN]
    \cup [act : {"gfs-configure", "status"}]
MonitoringAsks ==
    [act : {"monitoring", "given up"}, configure : {TRUE}, smtp : BOOLEAN] \cup [act : {"monitoring"}, configure : {FALSE}]
Asks(x) == SystemAsks \cup MonitoringAsks

Start(a, x) ==
    CASE a.act = "monitoring" -> MonitoringConfig(a)
      [] a.act = "given up" -> GivenUp(a)
      [] a.act = "status" -> StatusToTargets
      [] OTHER -> UpdateSystemConfig(Convenience(a))

Begins == {World("hci", TRUE), World("vm", FALSE)}
Drifts(x) == {x}
Matters(cmd) == cmd = PythonStep("start")

INSTANCE Runner

-----------------------------------------------------------------------------

TypeOK == w.profile \in [Host -> [Flag -> Value]] /\ w.up \in BOOLEAN

\* bootstrap.wall is true on a host only after the services were verified, unless a request has
\* set the flag itself: in no order of steps does the profile announce what is not there.
WallFlagIsTrue == (\E h \in Host : w.profile[h]["wall"] = "true") => w.verified \/ w.byHand

\* A configuration that fails in between leaves the monitoring services running: when no request
\* is at work they are stopped only where they were before, or the start itself has failed or
\* the server has stopped.
ServicesComeBack ==
    Running = {} /\ ~overlap /\ w.type = "hci" /\ ~w.up => lost # {}

\* A request that succeeds has changed all hosts, the way the type of the cluster asks for, and
\* a configuration has its services running with everything that was asked for.
SuccessIsWhole ==
    LET done == Convenience(last)  on == IF last.act = "gfs-configure" \/ done.all THEN Host ELSE {Here} IN
    CASE last.act \in {"none", "status"} -> TRUE
      [] last.act = "monitoring" ->
             /\ w.up /\ w.wall
             /\ last.configure => /\ w.netdive /\ (last.smtp => w.smtp)
                                  /\ \A h \in Host : w.profile[h]["wall"] = "true"
      [] last.act = "reset" -> \A h \in on : w.profile[h] = NoFlag
      [] last.act = "allupdate" -> \A h \in on, f \in AllUpdated(w.type) : w.profile[h][f] = "true"
      [] done.section = "bootstrap" -> \A h \in on : w.profile[h][done.key] = done.value
      [] OTHER -> TRUE

=============================================================================
