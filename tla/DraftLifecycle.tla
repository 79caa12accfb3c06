--------------------------- MODULE DraftLifecycle ---------------------------
(***************************************************************************)
(* What a person who reviews a draft is promised (PLAN.md, "Reviewing and  *)
(* approving a draft"): the text can be edited while it is proposed;       *)
(* approving queues exactly that text, once; a rejected draft is never     *)
(* sent; a do_not_reply draft needs the override.                          *)
(***************************************************************************)
CONSTANT Texts
VARIABLES
  stage,     \* where the message is
  text,      \* what it says
  noReply,   \* its context says do_not_reply
  override   \* the approver said to send it all the same

lifecycleVars == <<stage, text, noReply, override>>

Init ==
  /\ stage = "proposed"
  /\ text \in Texts
  /\ noReply \in BOOLEAN
  /\ override = FALSE

Edit ==
  /\ stage = "proposed"
  /\ text' \in Texts
  /\ UNCHANGED <<stage, noReply, override>>

Approve ==
  /\ stage = "proposed"
  /\ stage' = "queued"
  /\ override' \in BOOLEAN
  /\ noReply => override'
  /\ UNCHANGED <<text, noReply>>

Reject ==
  /\ stage = "proposed"
  /\ stage' = "rejected"
  /\ UNCHANGED <<text, noReply, override>>

Send ==
  /\ stage = "queued"
  /\ stage' = "sent"
  /\ UNCHANGED <<text, noReply, override>>

Next == Edit \/ Approve \/ Reject \/ Send

Spec == Init /\ [][Next]_lifecycleVars
=============================================================================
