---------------------------- MODULE MCDeployRun ----------------------------
(* Requests of an instance of DeployRun for TLC. *)
EXTENDS DeployRun

Base == [only |-> <<>>, skip |-> {}, given |-> {}, profile |-> TRUE, script |-> TRUE,
         type |-> "ablestack-hci-filesystem"]

\* Everything, for HCI-filesystem.
FullRequest == [Base EXCEPT !.given = Payload]
\* Storage only: rbd_prepare is inserted.
StorageRequest == [Base EXCEPT !.only = <<"storage_prepare", "system_profile">>,
                               !.given = {"rbd", "gfs"}]
\* The retry the guide recommends after a failed bootstrap.
RetryRequest == [Base EXCEPT !.only = <<"ccvm_bootstrap", "monitoring_prepare", "system_profile">>,
                             !.script = FALSE]
\* Two steps in an unhelpful order, with a repetition.
ReversedRequest == [Base EXCEPT !.only = <<"storage_prepare", "rbd_prepare", "storage_prepare">>,
                                !.given = {"gfs"}]
\* A VM cluster without license and profile steps.
VMRequest == [Base EXCEPT !.skip = {"license_apply"}, !.given = {"cluster", "gfs", "ccvm_lifecycle"},
                          !.type = "ablestack-vm"]
\* A standalone host.
LocalRequest == [Base EXCEPT !.given = {"license", "cluster", "local"}, !.profile = FALSE,
                             !.type = "ablestack-standalone"]
\* Nothing is left: refused.
EmptyRequest == [Base EXCEPT !.only = <<"rbd_prepare">>, !.skip = {"rbd_prepare"}]

Requests == {FullRequest, StorageRequest, RetryRequest, ReversedRequest, VMRequest,
             LocalRequest, EmptyRequest}
=============================================================================
