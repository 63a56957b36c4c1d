---------------------------- MODULE JobLifecycle ----------------------------
(***************************************************************************)
(* What the API promises a client that submits an all-in-one deployment:   *)
(* the job is queued, then running, then has one final result; at most one *)
(* job is queued or running at a time; a job leaves the list only after it *)
(* has ended (the list keeps the latest ones) or when the server restarts, *)
(* and it never comes back.  DeployRun implements this specification.      *)
(***************************************************************************)
CONSTANT Job

VARIABLE status     \* what GET /cube/deploy/jobs/{job_id} answers for each job

Ended == {j \in Job : status[j] \in {"succeeded", "failed"}}
Busy == {j \in Job : status[j] \in {"queued", "running"}}

Init == status = [j \in Job |-> "none"]

\* A new job is accepted when no job is busy; old ended jobs may drop out.
Submit(j) ==
    /\ status[j] = "none"
    /\ Busy = {}
    /\ \E dropped \in SUBSET Ended :
          status' = [i \in Job |-> IF i = j THEN "queued"
                                   ELSE IF i \in dropped THEN "gone" ELSE status[i]]

Begin(j) ==
    /\ status[j] = "queued"
    /\ status' = [status EXCEPT ![j] = "running"]

End(j, result) ==
    /\ status[j] = "running"
    /\ status' = [status EXCEPT ![j] = result]

\* The history is in memory only.
Restart ==
    status' = [j \in Job |-> IF status[j] = "none" THEN "none" ELSE "gone"]

Next ==
    \/ \E j \in Job : Submit(j) \/ Begin(j) \/ End(j, "succeeded") \/ End(j, "failed")
    \/ Restart

Spec == Init /\ [][Next]_status
=============================================================================
