--------------------------- MODULE SendLifecycle ---------------------------
(***************************************************************************)
(* What PLAN.md says of a scheduled send ("Scheduling a send"): pending,   *)
(* then sending, then sent, failed or cancelled; a failed row is retried   *)
(* up to the configured number of attempts and then stays failed; sent and *)
(* cancelled are final.                                                    *)
(***************************************************************************)
EXTENDS Naturals
CONSTANTS Schedules, MaxAttempts
VARIABLES status, attempts

rowVars == <<status, attempts>>

Init ==
  /\ status = [s \in Schedules |-> "none"]
  /\ attempts = [s \in Schedules |-> 0]

Become(s, from, to) ==
  /\ status[s] \in from
  /\ status' = [status EXCEPT ![s] = to]
  /\ UNCHANGED attempts

Create(s) == Become(s, {"none"}, "pending")

Start(s) ==
  /\ status[s] \in {"pending", "failed"}
  /\ attempts[s] < MaxAttempts
  /\ status' = [status EXCEPT ![s] = "sending"]
  /\ attempts' = [attempts EXCEPT ![s] = @ + 1]

Finish(s) == Become(s, {"sending"}, "sent") \/ Become(s, {"sending"}, "failed")

Cancel(s) == Become(s, {"pending", "sending", "failed"}, "cancelled")

Next == \E s \in Schedules : Create(s) \/ Start(s) \/ Finish(s) \/ Cancel(s)

Spec == Init /\ [][Next]_rowVars
=============================================================================
