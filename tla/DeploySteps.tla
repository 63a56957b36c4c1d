---------------------------- MODULE DeploySteps ----------------------------
(***************************************************************************)
(* The steps of the all-in-one deployment (internal/handler/cube/          *)
(* deploy_run.go) as operators without state: which steps a request        *)
(* selects, whether a selected step runs, is skipped or fails at once,     *)
(* which calls a running step makes and in which order, and which          *)
(* systemProfile flags the last step writes.                               *)
(*                                                                         *)
(* A request is abstracted to                                              *)
(*   only    the steps of "only", in order (names are already normalised:  *)
(*           validateDeployRunSelection refuses any other)                 *)
(*   skip    the steps of "skip"                                           *)
(*   given   which optional payloads it carries                            *)
(*   profile FALSE iff update_system_profile is false                      *)
(*   script  FALSE iff run_bootstrap_script is false                       *)
(*   type    the type in its cluster payload                               *)
(***************************************************************************)
EXTENDS Integers, Sequences, SequencesExt

NoConfig == "none"      \* cluster.json cannot be read
HCI == {"ablestack-hci", "ablestack-hci-filesystem"}
OSType == HCI \cup {"ablestack-vm", "ablestack-standalone"}

AllSteps ==
    <<"license_apply", "cluster_apply", "scvm_prepare", "scvm_bootstrap",
      "rbd_prepare", "storage_prepare", "local_prepare", "ccvm_prepare",
      "ccvm_bootstrap", "monitoring_prepare", "system_profile">>
Step == ToSet(AllSteps)

Payload == {"license", "cluster", "scvm", "rbd", "gfs", "local",
            "ccvm_cloudinit", "ccvm_xml", "ccvm_lifecycle"}

-----------------------------------------------------------------------------
\* insertDeployRunRBDPrepare: rbd_prepare goes right before the first
\* storage_prepare of "only" when the request has an rbd payload.
InsertRBDPrepare(steps, req) ==
    LET at == SelectInSeq(steps, LAMBDA s : s = "storage_prepare") IN
    IF "rbd" \notin req.given \/ Contains(steps, "rbd_prepare") \/ at = 0
    THEN steps
    ELSE InsertAt(steps, at, "rbd_prepare")

\* selectedDeployRunSteps: "only" in its own order or all steps, without
\* "skip" and without repetitions.
SelectedSteps(req) ==
    LET chosen == IF req.only # <<>> THEN InsertRBDPrepare(req.only, req) ELSE AllSteps
        Keep(out, s) == IF s \in req.skip \/ Contains(out, s) THEN out ELSE Append(out, s)
    IN  FoldLeft(Keep, <<>>, chosen)

\* deployRunStepExplicit
Explicit(req, step) == Contains(req.only, step)

\* deployRunMissingInput
MissingInput(req, step) == IF Explicit(req, step) THEN "fail" ELSE "skip"

\* resetCloudCenterSystemFlag list built by runDeployRunSystemProfile from the
\* steps this job executed and the cluster type read now.
SystemFlags(executed, os) ==
    (IF "license_apply" \in executed THEN {"license.status"} ELSE {}) \cup
    (IF "scvm_bootstrap" \in executed /\ os \in HCI THEN {"bootstrap.scvm"} ELSE {}) \cup
    (IF "storage_prepare" \in executed /\ os \in {"ablestack-vm", "ablestack-hci-filesystem"}
     THEN {"bootstrap.gfs_configure"} ELSE {}) \cup
    (IF "local_prepare" \in executed /\ os = "ablestack-standalone"
     THEN {"bootstrap.local_configure"} ELSE {}) \cup
    (IF "ccvm_bootstrap" \in executed THEN {"bootstrap.ccvm"} ELSE {}) \cup
    (IF "monitoring_prepare" \in executed THEN {"bootstrap.wall"} ELSE {})

\* Mutant: storage_prepare does not ask whether rbd_prepare left images.
DecideStorageUnchecked(req, os, images) ==
    IF os = NoConfig THEN "fail"
    ELSE IF os \notin {"ablestack-vm", "ablestack-hci-filesystem"} THEN "skip"
    ELSE IF "gfs" \notin req.given THEN MissingInput(req, "storage_prepare")
    ELSE "run"

\* runDeployRunStoragePrepare and buildDeployRunGFSRequests
DecideStorage(req, os, images) ==
    IF os = NoConfig THEN "fail"
    ELSE IF os \notin {"ablestack-vm", "ablestack-hci-filesystem"} THEN "skip"
    ELSE IF "gfs" \notin req.given THEN MissingInput(req, "storage_prepare")
    ELSE IF os = "ablestack-hci-filesystem" /\ ~images THEN "fail"
    ELSE "run"

\* runDeployRunSCVMPrepare, up to its first remote call
DecideSCVMPrepare(req, os) ==
    IF os = NoConfig THEN "fail"
    ELSE IF os \notin HCI THEN "skip"
    ELSE IF "scvm" \notin req.given THEN MissingInput(req, "scvm_prepare")
    ELSE "run"

\* runDeployRunSCVMBootstrap, up to runBootstrapRole
DecideSCVMBootstrap(req, os, executed) ==
    IF os = NoConfig THEN "fail"
    ELSE IF os \notin HCI THEN "skip"
    ELSE IF "scvm_prepare" \notin executed /\ ~Explicit(req, "scvm_bootstrap") THEN "skip"
    ELSE "run"

\* runDeployRunRBDPrepare
DecideRBD(req, os) ==
    IF os = NoConfig THEN "fail"
    ELSE IF os # "ablestack-hci-filesystem" THEN "skip"
    ELSE IF "rbd" \notin req.given THEN MissingInput(req, "rbd_prepare")
    ELSE "run"

\* runDeployRunLocalPrepare
DecideLocal(req, os) ==
    IF os = NoConfig THEN "fail"
    ELSE IF os # "ablestack-standalone" THEN "skip"
    ELSE IF "local" \notin req.given THEN MissingInput(req, "local_prepare")
    ELSE "run"

\* runDeployRunCCVMPrepare
DecideCCVMPrepare(req, os) ==
    IF os = NoConfig THEN "fail"
    ELSE IF req.given \cap {"ccvm_cloudinit", "ccvm_xml", "ccvm_lifecycle"} = {}
         THEN MissingInput(req, "ccvm_prepare")
    ELSE "run"

\* runDeployRunCCVMBootstrap
DecideCCVMBootstrap(req, os, executed) ==
    IF os = NoConfig THEN "fail"
    ELSE IF "ccvm_prepare" \notin executed /\ ~Explicit(req, "ccvm_bootstrap") THEN "skip"
    ELSE "run"

\* runDeployRunMonitoringPrepare: the prerequisite is looked at before the file.
DecideMonitoring(req, os, executed) ==
    IF "ccvm_bootstrap" \notin executed /\ ~Explicit(req, "monitoring_prepare") THEN "skip"
    ELSE IF os = NoConfig THEN "fail"
    ELSE "run"

\* runDeployRunSystemProfile
DecideSystemProfile(req, os, executed) ==
    IF ~req.profile THEN "skip"
    ELSE IF os = NoConfig THEN "fail"
    ELSE IF SystemFlags(executed, os) = {} THEN "skip"
    ELSE "run"

\* runDeployRunStep: what a step does with the cluster type it reads from
\* cluster.json, the steps executed before it and the images of rbd_prepare.
Decide(req, step, os, executed, images) ==
    CASE step = "license_apply" ->
            IF os = NoConfig /\ "license" \notin req.given THEN "fail" ELSE "run"
      [] step = "cluster_apply" ->
            IF "cluster" \in req.given THEN "run" ELSE MissingInput(req, "cluster_apply")
      [] step = "scvm_prepare" -> DecideSCVMPrepare(req, os)
      [] step = "scvm_bootstrap" -> DecideSCVMBootstrap(req, os, executed)
      [] step = "rbd_prepare" -> DecideRBD(req, os)
      [] step = "storage_prepare" -> DecideStorage(req, os, images)
      [] step = "local_prepare" -> DecideLocal(req, os)
      [] step = "ccvm_prepare" -> DecideCCVMPrepare(req, os)
      [] step = "ccvm_bootstrap" -> DecideCCVMBootstrap(req, os, executed)
      [] step = "monitoring_prepare" -> DecideMonitoring(req, os, executed)
      [] step = "system_profile" -> DecideSystemProfile(req, os, executed)
      [] OTHER -> "fail"

-----------------------------------------------------------------------------
\* The calls with an effect that a running step makes, in order; the step
\* fails at the first one that fails.

\* runBootstrapRole for the SCVMs: the cluster scripts, the health of the
\* targets, the registration of the license and its status.
SCVMBootstrapCalls(req) ==
    (IF req.script THEN <<"scvm_script">> ELSE <<>>)
    \o <<"scvm_ready", "scvm_license", "scvm_license_status">>

\* runBootstrapRole for the CCVM: node preparation and script, health, and
\* the status of the license, which was registered before.
CCVMBootstrapCalls(req) ==
    (IF req.script THEN <<"ccvm_script">> ELSE <<>>)
    \o <<"ccvm_ready", "ccvm_license_status">>

\* runDeployRunCCVMPrepare: cloud-init always, XML when given, lifecycle when
\* XML or lifecycle is given, then the health of the CCVM.
CCVMPrepareCalls(req) ==
    <<"ccvm_cloudinit">>
    \o (IF "ccvm_xml" \in req.given THEN <<"ccvm_xml">> ELSE <<>>)
    \o (IF req.given \cap {"ccvm_xml", "ccvm_lifecycle"} # {} THEN <<"ccvm_setup">> ELSE <<>>)
    \o <<"ccvm_health">>

\* Mutant: the CCVM license is registered after the bootstrap script.
CallsLicenseLast(req, step) ==
    CASE step = "license_apply" -> <<"license">>
      [] step = "cluster_apply" -> <<"cluster">>
      [] step = "scvm_prepare" -> <<"scvm_cloudinit", "scvm_xml", "scvm_setup", "scvm_health">>
      [] step = "scvm_bootstrap" -> SCVMBootstrapCalls(req)
      [] step = "rbd_prepare" -> <<"rbd_create", "rbd_map">>
      [] step = "storage_prepare" ->
            <<"init-pcs-cluster", "configure-stonith", "create-gfs", "set-alert">>
      [] step = "local_prepare" -> <<"local">>
      [] step = "ccvm_prepare" -> CCVMPrepareCalls(req)
      [] step = "ccvm_bootstrap" -> CCVMBootstrapCalls(req) \o <<"ccvm_license">>
      [] step = "monitoring_prepare" -> <<"monitoring">>
      [] step = "system_profile" -> <<"flags">>
      [] OTHER -> <<>>

Calls(req, step) ==
    CASE step = "license_apply" -> <<"license">>
      [] step = "cluster_apply" -> <<"cluster">>
      [] step = "scvm_prepare" -> <<"scvm_cloudinit", "scvm_xml", "scvm_setup", "scvm_health">>
      [] step = "scvm_bootstrap" -> SCVMBootstrapCalls(req)
      [] step = "rbd_prepare" -> <<"rbd_create", "rbd_map">>
      [] step = "storage_prepare" ->
            <<"init-pcs-cluster", "configure-stonith", "create-gfs", "set-alert">>
      [] step = "local_prepare" -> <<"local">>
      [] step = "ccvm_prepare" -> CCVMPrepareCalls(req)
      [] step = "ccvm_bootstrap" -> <<"ccvm_license">> \o CCVMBootstrapCalls(req)
      [] step = "monitoring_prepare" -> <<"monitoring">>
      [] step = "system_profile" -> <<"flags">>
      [] OTHER -> <<>>
=============================================================================
