----------------------------- MODULE TaskStatus -----------------------------
(***************************************************************************)
(* What the task record promises a client of docker_manage_server: the     *)
(* statuses a task goes through, whatever threads, retries and failures    *)
(* stand behind them.  The statuses are those of models.py, with "failed"  *)
(* split by failure_phase (a failed upload is final, a failed deployment   *)
(* may be edited or retried); "none" and "removed" are a task before its   *)
(* upload and after its removal.  "discarded" is a task that a client gave *)
(* up while it was "uploaded": the one status that a task may come back    *)
(* from, when its upload was still at work.                                *)
(***************************************************************************)
CONSTANTS
  Tasks,
  Discarding   \* whether clients give uploads up

VARIABLE status

States == {"none", "uploaded", "extracting", "pending_review", "deploying",
           "deployed", "upload_failed", "deploy_failed", "removed", "discarded"}

Move(t, from, to) ==
  /\ status[t] \in from
  /\ status' = [status EXCEPT ![t] = to]

Deployable == {"pending_review", "deploy_failed"}
Settled    == Deployable \cup {"upload_failed", "deployed"}
\* Where an upload is, or has got to before the discard of it returns.
Uploads    == {"uploaded", "extracting", "pending_review", "upload_failed"}

Upload(t)      == Move(t, {"none"}, "uploaded")
Extract(t)     == Move(t, {"uploaded"}, "extracting")
Accept(t)      == Move(t, {"extracting"}, "pending_review")
Reject(t)      == Move(t, {"uploaded", "extracting"}, "upload_failed")
BeginDeploy(t) == Move(t, Deployable, "deploying")
Deployed(t)    == Move(t, {"deploying"}, "deployed")
DeployFails(t) == Move(t, {"deploying"}, "deploy_failed")
Edit(t)        == Move(t, Deployable, "pending_review")
Remove(t)      == Move(t, Settled, "removed")
Discard(t)     == Discarding /\ Move(t, Uploads, "discarded")
Return(t)      == Discarding /\ \E s \in Uploads \ {"uploaded"} : Move(t, {"discarded"}, s)

Init == status = [t \in Tasks |-> "none"]

Next ==
  \E t \in Tasks :
    \/ Upload(t) \/ Extract(t) \/ Accept(t) \/ Reject(t)
    \/ BeginDeploy(t) \/ Deployed(t) \/ DeployFails(t) \/ Edit(t) \/ Remove(t)
    \/ Discard(t) \/ Return(t)

Spec == Init /\ [][Next]_status
=============================================================================
