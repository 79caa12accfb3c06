-------------------------- MODULE ApprovalsActions --------------------------
(***************************************************************************)
(* What a reviewer does in the approvals view (Approvals in AppShell.tsx)  *)
(* and what the server makes of it: hold to approve or to reject, edit and *)
(* save, schedule, reschedule and cancel.                                  *)
(*                                                                         *)
(* The view has one busy draft, one editor, one reject note and one draft  *)
(* being scheduled, whatever number of drafts it shows.  A request is on   *)
(* its way, is executed, and is answered; after twelve seconds the browser *)
(* gives up, and the server may execute it all the same.  A call that went *)
(* well reloads the lists, which hides them meanwhile; so do the buttons   *)
(* that reload, and the event stream (ApprovalsFeed) does it quietly.      *)
(* Whoever goes to another view and comes back finds the lists as they     *)
(* were and nothing marked, whatever calls are still under way.            *)
(*                                                                         *)
(* What the calls do to the files and rows is told in DraftFiles and       *)
(* ScheduledSends; here it is cut down to the stage and the text of a      *)
(* draft and the rows that are active.                                     *)
(***************************************************************************)
EXTENDS Naturals, FiniteSets

CONSTANTS
  Drafts,     \* drafts by uuid
  NoDraft,    \* no draft
  Rows,       \* ids of scheduled_sends rows; as many as there are bound the creates
  NoRow,      \* no row
  Calls,      \* calls that may be under way together
  MaxEvents   \* bound: calls, changes by others, other reloads and departures together

ASSUME ActionsAssumption ==
  /\ NoDraft \notin Drafts /\ NoRow \notin Rows
  /\ MaxEvents \in Nat

VARIABLES
  stage,    \* draft -> "proposed", "queued" or "rejected"
  text,     \* draft -> which text its file has
  queued,   \* draft -> [text, saw]: the text approved, the one the reviewer saw
  rows,     \* draft -> its active rows
  view,     \* the lists the view has: [text, here, rows]
  busy, editing, rejecting, scheduling,  \* busyUuid and its like
  hidden,   \* draftsLoading
  hold,     \* the button held down: [kind, draft, saw]
  calls,    \* call -> [step, net, kind, draft, row, saw]
  got,      \* call or other reload -> the lists on their way
  reloading,\* reloads under way that no call waits for
  orphans,  \* requests the browser has given up
  left,     \* calls under way whose view was left, and can no longer be told
  doubted,  \* drafts that may be otherwise than the view shows or waits for
  unmarked, \* drafts that one call freed while another on them was under way
  used      \* calls, changes by others, other reloads and departures so far

server == <<stage, text, queued, rows>>
marks == <<busy, editing, rejecting, scheduling>>
fetches == <<got, reloading>>
lost == <<orphans, left>>
doubts == <<doubted, unmarked>>
actionsVars == <<server, view, marks, hidden, hold, calls, fetches, lost, doubts, used>>

Reloaders == {"quiet", "button"}
Some == Drafts \cup {NoDraft}
Lists == [text : [Drafts -> Nat], here : SUBSET Drafts, rows : [Drafts -> SUBSET Rows]]
NoLists == [text |-> [d \in Drafts |-> 0], here |-> {}, rows |-> [d \in Drafts |-> {}]]
Requests == [kind : {"approve", "save", "reject", "schedule", "cancel"}, draft : Some,
             row : Rows \cup {NoRow}, saw : Nat]
NoCall == [step |-> "idle", net |-> "sent",
           ask |-> [kind |-> "save", draft |-> NoDraft, row |-> NoRow, saw |-> 0]]
NoHold == [kind |-> "save", draft |-> NoDraft, saw |-> 0]

ActionsTypeOK ==
  /\ stage \in [Drafts -> {"proposed", "queued", "rejected"}]
  /\ text \in [Drafts -> Nat]
  /\ queued \in [Drafts -> [text : Nat, saw : Nat]]
  /\ rows \in [Drafts -> SUBSET Rows]
  /\ view \in Lists
  /\ busy \in Some /\ editing \in Some /\ rejecting \in Some /\ scheduling \in Some
  /\ hidden \in BOOLEAN
  /\ hold \in [kind : {"approve", "reject", "save"}, draft : Some, saw : Nat]
  /\ calls \in [Calls -> [step : {"idle", "replace", "main", "reload", "land"},
                          net : {"sent", "ok", "refused"}, ask : Requests]]
  /\ got \in [Calls \cup Reloaders -> Lists] /\ reloading \subseteq Reloaders
  /\ orphans \subseteq Requests /\ left \subseteq Calls
  /\ doubted \subseteq Drafts /\ unmarked \subseteq Drafts
  /\ used \in Nat

ActionsInit ==
  \* some have been reviewed, and some scheduled before
  /\ stage \in [Drafts -> {"proposed", "rejected"}]
  /\ text = [d \in Drafts |-> 0]
  /\ queued = [d \in Drafts |-> [text |-> 0, saw |-> 0]]
  /\ rows \in [Drafts -> SUBSET Rows]
  /\ \A d \in Drafts : \A v, w \in rows[d] : v = w
  /\ \A d, f \in Drafts : d # f => rows[d] \cap rows[f] = {}
  /\ view = [text |-> text, here |-> {d \in Drafts : stage[d] = "proposed"},
             rows |-> rows]
  /\ busy = NoDraft /\ editing = NoDraft /\ rejecting = NoDraft /\ scheduling = NoDraft
  /\ hidden = FALSE
  /\ hold = NoHold
  /\ calls = [c \in Calls |-> NoCall]
  /\ got = [c \in Calls \cup Reloaders |-> NoLists] /\ reloading = {}
  /\ orphans = {} /\ left = {} /\ doubted = {} /\ unmarked = {}
  /\ used \in 0..MaxEvents  \* fewer events are a bound as well

-----------------------------------------------------------------------------
(* What the server makes of a request: the lists its routes would answer,  *)
(* and the state after it.  An approve or a reject of what is queued or    *)
(* rejected already is answered as done (DraftFiles); a row is cancelled   *)
(* whatever its status, and created with no look at others.                *)
ListsNow == [text |-> text, here |-> {d \in Drafts : stage[d] = "proposed"}, rows |-> rows]

Accepts(a) ==
  CASE a.kind = "approve" -> stage[a.draft] # "rejected"
    [] a.kind = "reject" -> stage[a.draft] # "queued"
    [] a.kind = "save" -> stage[a.draft] = "proposed"
    [] OTHER -> TRUE

(* A new id is one that nobody holds, and it does not matter which.        *)
FreshRows ==
  {w \in Rows :
     /\ \A d \in Drafts : w \notin rows[d] \cup view.rows[d]
     /\ \A d \in Drafts, g \in Calls \cup Reloaders : w \notin got[g].rows[d]
     /\ \A a \in orphans \cup {calls[c].ask : c \in Calls} : a.row # w}
Create(d) ==
  /\ FreshRows # {}
  /\ rows' = [rows EXCEPT ![d] = @ \cup {CHOOSE w \in FreshRows : TRUE}]

Execute(a) ==
  LET d == a.draft IN
  /\ Accepts(a)
  /\ stage' = [stage EXCEPT ![d] =
       IF a.kind = "approve" THEN "queued" ELSE IF a.kind = "reject" THEN "rejected" ELSE @]
  /\ text' = IF a.kind = "save" THEN [text EXCEPT ![d] = @ + 1] ELSE text
  /\ queued' = IF a.kind = "approve" /\ stage[d] = "proposed"
                 THEN [queued EXCEPT ![d] = [text |-> text[d], saw |-> a.saw]] ELSE queued
  /\ \/ a.kind = "schedule" /\ Create(d)
     \/ a.kind = "cancel" /\ rows' = [rows EXCEPT ![d] = @ \ {a.row}]
     \/ a.kind \notin {"schedule", "cancel"} /\ UNCHANGED rows

-----------------------------------------------------------------------------
(* The view.                                                               *)

(* The button that is held is on the screen: the drafts are not hidden,    *)
(* the draft is listed, and the card is in the state that has the button.  *)
Mounted(h, load, lists, edit, reject) ==
  /\ ~load /\ h.draft \in lists.here
  /\ IF h.kind = "reject" THEN reject = h.draft ELSE edit # h.draft /\ reject # h.draft

(* HoldConfirmButton: its timer ends when it leaves the screen, and only   *)
(* then; that it has become disabled does not stop it.                     *)
KeepHold ==
  hold' = IF hold = NoHold \/ Mounted(hold, hidden', view', editing', rejecting')
            THEN hold ELSE NoHold

(* The reviewer sees d, and its card is not disabled.                      *)
AtHand(d) == hold = NoHold /\ ~hidden /\ d \in view.here /\ busy # d

Event == used < MaxEvents /\ used' = used + 1

(* A call that starts while one on another draft is under way takes the    *)
(* busy mark from that draft: both are in doubt.  Calls whose view was     *)
(* left have no mark to take.                                              *)
Send(c, step, k, d, w, n) ==
  /\ calls[c] = NoCall /\ c = CHOOSE x \in Calls : calls[x] = NoCall
  /\ Event
  /\ calls' = [calls EXCEPT ![c] =
       [step |-> step, net |-> "sent", ask |-> [kind |-> k, draft |-> d, row |-> w, saw |-> n]]]
  /\ doubted' = doubted \cup
       (LET crossed == {calls[x].ask.draft : x \in Calls \ left} \ {NoDraft, d}
        IN IF crossed = {} THEN {} ELSE crossed \cup {d})

BeginHold(d) ==
  /\ AtHand(d)
  /\ rejecting = d \/ editing # d
  /\ hold' = [kind |-> IF rejecting = d THEN "reject" ELSE "approve", draft |-> d, saw |-> view.text[d]]
  /\ UNCHANGED <<server, view, marks, hidden, calls, fetches, lost, doubts, used>>

ReleaseHold ==
  /\ hold # NoHold
  /\ hold' = NoHold
  /\ UNCHANGED <<server, view, marks, hidden, calls, fetches, lost, doubts, used>>

(* The timer of the hold: approveDraft or rejectDraft.                     *)
FireHold(c) ==
  /\ hold # NoHold
  /\ Send(c, "main", hold.kind, hold.draft, NoRow, hold.saw)
  /\ busy' = hold.draft
  /\ hold' = NoHold
  /\ UNCHANGED <<server, view, editing, rejecting, scheduling, hidden, fetches, lost, unmarked>>

BeginEdit(d) ==
  /\ AtHand(d) /\ editing # d /\ rejecting # d
  /\ editing' = d
  /\ UNCHANGED <<server, view, busy, rejecting, scheduling, hidden, hold, calls, fetches, lost,
                 doubts, used>>

CancelEdit ==
  /\ editing # NoDraft /\ rejecting # editing /\ AtHand(editing)
  /\ editing' = NoDraft
  /\ UNCHANGED <<server, view, busy, rejecting, scheduling, hidden, hold, calls, fetches, lost,
                 doubts, used>>

SaveDraft(c) ==
  /\ editing # NoDraft /\ rejecting # editing /\ AtHand(editing)
  /\ Send(c, "main", "save", editing, NoRow, 0)
  /\ busy' = editing
  /\ UNCHANGED <<server, view, editing, rejecting, scheduling, hidden, hold, fetches, lost, unmarked>>

(* Reject opens the note, Cancel reject closes it.                         *)
ToggleReject(d) ==
  /\ AtHand(d) /\ (rejecting = d \/ editing # d)
  /\ rejecting' = IF rejecting = d THEN NoDraft ELSE d
  /\ UNCHANGED <<server, view, busy, editing, scheduling, hidden, hold, calls, fetches,
                 lost, doubts, used>>

(* scheduleDraft: the row shown is cancelled first, outside runDraftAction.*)
ScheduleDraftKeepingTheOld(c, d) ==
  /\ AtHand(d) /\ scheduling # d
  /\ scheduling' = d /\ busy' = d
  /\ Send(c, "main", "schedule", d, NoRow, 0)
  /\ UNCHANGED <<server, view, editing, rejecting, hidden, hold, fetches, lost, unmarked>>
ScheduleDraft(c, d) ==
  /\ AtHand(d) /\ scheduling # d
  /\ scheduling' = d
  /\ \/ /\ view.rows[d] = {}
        /\ Send(c, "main", "schedule", d, NoRow, 0)
        /\ busy' = d
     \/ \E w \in view.rows[d] : Send(c, "replace", "cancel", d, w, 0) /\ UNCHANGED busy
  /\ UNCHANGED <<server, view, editing, rejecting, hidden, hold, fetches, lost, unmarked>>

CancelSchedule(c, d) ==
  /\ AtHand(d) /\ scheduling # d
  /\ \E w \in view.rows[d] : Send(c, "main", "cancel", d, w, 0)
  /\ busy' = d
  /\ UNCHANGED <<server, view, editing, rejecting, scheduling, hidden, hold, fetches, lost, unmarked>>

-----------------------------------------------------------------------------
(* The requests.                                                           *)

Asked(c) == calls[c].step \in {"replace", "main"} /\ calls[c].net = "sent"

Executed(c) ==
  /\ Asked(c)
  /\ Execute(calls[c].ask)
  /\ calls' = [calls EXCEPT ![c].net = "ok"]
  /\ UNCHANGED <<view, marks, hidden, hold, fetches, lost, doubts, used>>

(* The server says no and has done nothing: there is nothing to do it on,  *)
(* or something failed before.                                             *)
Refused(c) ==
  /\ Asked(c)
  /\ calls' = [calls EXCEPT ![c].net = "refused"]
  /\ UNCHANGED <<server, view, marks, hidden, hold, fetches, lost, doubts, used>>

(* fetchWithTimeout gives up, before or after the server has done it.      *)
TimeOut(c) ==
  /\ calls[c].step \in {"replace", "main"} /\ calls[c].net # "refused"
  /\ orphans' = IF Asked(c) THEN orphans \cup {calls[c].ask} ELSE orphans
  /\ doubted' = doubted \cup {calls[c].ask.draft}
  /\ calls' = [calls EXCEPT ![c].net = "refused"]
  /\ UNCHANGED <<server, view, marks, hidden, hold, fetches, left, unmarked, used>>

(* The server has done it and says no all the same: what follows has       *)
(* failed, reading the row back (create, cancel) or the audit of the route.*)
RefusedAfterwards(c) ==
  /\ calls[c].step \in {"replace", "main"} /\ calls[c].net = "ok"
  /\ doubted' = doubted \cup {calls[c].ask.draft}
  /\ calls' = [calls EXCEPT ![c].net = "refused"]
  /\ UNCHANGED <<server, view, marks, hidden, hold, fetches, lost, unmarked, used>>

(* The server executes what nobody waits for any more.                     *)
ExecutedLate ==
  \E a \in orphans :
    /\ Execute(a)
    /\ orphans' = orphans \ {a}
    /\ UNCHANGED <<view, marks, hidden, hold, calls, fetches, left, doubts, used>>

(* What a call leaves when it ends: runDraftAction frees whatever is busy, *)
(* its own draft or one that another call is still on; rejectDraft forgets *)
(* the note, scheduleDraft what was scheduled.  A view that was left is    *)
(* gone, and so is all that the call would have done to it.                *)
End(c) ==
  /\ calls' = [calls EXCEPT ![c] = NoCall]
  /\ left' = left \ {c}
  /\ IF c \in left THEN UNCHANGED <<busy, rejecting, scheduling, unmarked>> ELSE
       /\ busy' = NoDraft
       /\ unmarked' = unmarked \cup ({calls[x].ask.draft : x \in Calls \ (left \cup {c})} \ {NoDraft})
       /\ rejecting' = IF calls[c].ask.kind = "reject" THEN NoDraft ELSE rejecting
       /\ scheduling' = IF calls[c].ask.kind = "schedule" THEN NoDraft ELSE scheduling

(* The old row is cancelled: runDraftAction creates the new one.           *)
Replaced(c) ==
  /\ calls[c].step = "replace" /\ calls[c].net = "ok"
  /\ calls' = [calls EXCEPT ![c].step = "main", ![c].net = "sent", ![c].ask.kind = "schedule"]
  /\ busy' = IF c \in left THEN busy ELSE calls[c].ask.draft
  /\ UNCHANGED <<server, view, editing, rejecting, scheduling, hidden, hold, fetches, lost,
                 doubts, used>>

NotReplaced(c) ==
  /\ calls[c].step = "replace" /\ calls[c].net = "refused"
  /\ calls' = [calls EXCEPT ![c] = NoCall]
  /\ left' = left \ {c}
  /\ scheduling' = IF c \in left THEN scheduling ELSE NoDraft
  /\ UNCHANGED <<server, view, busy, editing, rejecting, hidden, hold, fetches, orphans,
                 doubts, used>>

(* It went well: the editor is closed, whichever draft it is on, and the   *)
(* lists are reloaded before the draft is free again.                      *)
AnsweredBusyNoMore(c) ==
  /\ calls[c].step = "main" /\ calls[c].net = "ok"
  /\ calls' = [calls EXCEPT ![c].step = "reload"]
  /\ editing' = (IF c \in left THEN editing ELSE NoDraft)
  /\ busy' = (IF c \in left THEN busy ELSE NoDraft)
  /\ UNCHANGED <<server, view, rejecting, scheduling, hidden, hold, fetches, lost, doubts, used>>
Answered(c) ==
  /\ calls[c].step = "main" /\ calls[c].net = "ok"
  /\ calls' = [calls EXCEPT ![c].step = "reload"]
  /\ editing' = IF c \in left THEN editing ELSE NoDraft
  /\ hidden' = TRUE
  /\ UNCHANGED <<server, view, busy, rejecting, scheduling, fetches, lost, doubts, used>>
  /\ KeepHold

(* It did not: actionError, and the editor stays.                          *)
FailedClearingEditor(c) ==
  /\ calls[c].step = "main" /\ calls[c].net = "refused" /\ End(c)
  /\ editing' = NoDraft
  /\ UNCHANGED <<server, view, hidden, fetches, orphans, doubted, used>>
  /\ KeepHold
Failed(c) ==
  /\ calls[c].step = "main" /\ calls[c].net = "refused"
  /\ End(c)
  /\ UNCHANGED <<server, view, editing, hidden, fetches, orphans, doubted, used>>
  /\ KeepHold

-----------------------------------------------------------------------------
(* Reloads.  The drafts and the schedules are two requests (Promise.all).  *)

ReadLists(c) ==
  /\ calls[c].step = "reload"
  /\ calls' = [calls EXCEPT ![c].step = "land"]
  /\ got' = [got EXCEPT ![c] = ListsNow]
  /\ UNCHANGED <<server, view, marks, hidden, hold, reloading, lost, doubts, used>>

(* The event stream reloads quietly, the buttons hide the lists meanwhile: *)
(* Refresh, which is disabled while they load, and Retry, which is not.    *)
ReadOwn(g) ==
  /\ g \notin reloading /\ Event
  /\ reloading' = reloading \cup {g}
  /\ got' = [got EXCEPT ![g] = ListsNow]
  /\ hidden' = (hidden \/ g = "button")
  /\ UNCHANGED <<server, view, marks, calls, lost, doubts>>
  /\ KeepHold

(* One of the two requests is read later than the other.                   *)
ReadLater(g) ==
  /\ g \in reloading \cup {c \in Calls : calls[c].step = "land"}
  /\ \E l \in {[got[g] EXCEPT !.rows = rows], [ListsNow EXCEPT !.rows = got[g].rows]} :
       got' = [got EXCEPT ![g] = l]
  /\ UNCHANGED <<server, view, marks, hidden, hold, calls, reloading, lost, doubts, used>>

(* Drafts shown with a text or rows that are not those there are: older    *)
(* lists have come last, or somebody was quicker.                          *)
Stale(lists) == {d \in lists.here : lists.text[d] # text[d] \/ lists.rows[d] # rows[d]}

(* The lists land; when either request fails there are none.  An error     *)
(* that another reload left hides lists that land (ApprovalsFeed), which   *)
(* only takes from what the reviewer can do, and is left out.              *)
Showing(g) ==
  /\ view' \in {got[g], NoLists}
  /\ got' = [got EXCEPT ![g] = NoLists]
  /\ doubted' = doubted \cup Stale(view')

LandLists(c) ==
  /\ calls[c].step = "land"
  /\ Showing(c)
  /\ hidden' = FALSE
  /\ End(c)
  /\ UNCHANGED <<server, editing, reloading, orphans, used>>
  /\ KeepHold

LandOwn(g) ==
  /\ g \in reloading
  /\ Showing(g)
  /\ reloading' = reloading \ {g}
  /\ hidden' = (hidden /\ g # "button")
  /\ UNCHANGED <<server, marks, calls, lost, unmarked, used>>
  /\ KeepHold

-----------------------------------------------------------------------------
(* The reviewer goes to another view and comes back: AppShell keeps the    *)
(* lists and the calls go on, but Approvals is mounted anew.  Drafts with  *)
(* a call under way can be acted on as if there were none: in doubt.       *)
LeaveApprovals ==
  /\ Event
  /\ busy' = NoDraft /\ editing' = NoDraft /\ rejecting' = NoDraft /\ scheduling' = NoDraft
  /\ hold' = NoHold
  /\ left' = {c \in Calls : calls[c] # NoCall}
  /\ doubted' = doubted \cup ({calls[c].ask.draft : c \in Calls} \ {NoDraft})
  /\ UNCHANGED <<server, view, hidden, calls, fetches, orphans, unmarked>>

(* The agent, the CLI or another reviewer changes a text or schedules.     *)
Other(d) ==
  /\ stage[d] = "proposed" /\ Event
  /\ \/ text' = [text EXCEPT ![d] = @ + 1] /\ UNCHANGED rows
     \/ Create(d) /\ UNCHANGED text
  /\ doubted' = doubted \cup {d}
  /\ UNCHANGED <<stage, queued, view, marks, hidden, hold, calls, fetches, lost, unmarked>>

ActionsNext ==
  \/ \E d \in Drafts : BeginHold(d) \/ BeginEdit(d) \/ ToggleReject(d) \/ Other(d)
  \/ ReleaseHold \/ CancelEdit
  \/ \E c \in Calls :
       \/ FireHold(c) \/ SaveDraft(c)
       \/ \E d \in Drafts : ScheduleDraft(c, d) \/ CancelSchedule(c, d)
       \/ Executed(c) \/ Refused(c) \/ RefusedAfterwards(c) \/ TimeOut(c)
       \/ Replaced(c) \/ NotReplaced(c) \/ Answered(c) \/ Failed(c)
       \/ ReadLists(c) \/ LandLists(c)
  \/ \E g \in Reloaders : ReadOwn(g) \/ LandOwn(g)
  \/ \E g \in Calls \cup Reloaders : ReadLater(g)
  \/ ExecutedLate \/ LeaveApprovals

ActionsSpec == ActionsInit /\ [][ActionsNext]_actionsVars

-----------------------------------------------------------------------------
(* "AI proposes, human approves": the text that is queued is the one the   *)
(* reviewer had on the screen when the hold began, although approveDraft   *)
(* sends the uuid only and the server queues what the file says by then.   *)
(* In doubt are drafts that others change, whose last request timed out or *)
(* was answered with an error after it was done, that older lists have     *)
(* replaced on the screen, from which a call on another draft took the one *)
(* busy mark, or that had a call under way when the view was left.  Exempt *)
(* are also drafts that one of two calls freed: while scheduleDraft        *)
(* cancels the old row nothing is busy, an approval can begin beside it,   *)
(* and when the new row is refused the draft may be edited and saved       *)
(* before the approval is executed.                                        *)
ApprovedAsShown ==
  \A d \in Drafts :
    stage[d] = "queued" /\ d \notin doubted \cup unmarked => queued[d].text = queued[d].saw

(* The view gives a draft one scheduled send, although the server creates  *)
(* as many as it is asked for: scheduleDraft cancels the row shown before  *)
(* it creates another, and neither starts twice (busyUuid and              *)
(* schedulingUuid), with the same drafts in doubt.                         *)
OneSchedulePerDraft == \A d \in Drafts : d \notin doubted => Cardinality(rows[d]) <= 1

(* What is in the editor survives every request that is refused or times   *)
(* out (catch of runDraftAction), and whatever a call does whose view was  *)
(* left: it goes when the reviewer closes it or leaves the view, or when a *)
(* call of this view has gone well, be it one on another draft.            *)
EditSurvivesFailure ==
  [][editing # NoDraft /\ editing' = NoDraft =>
       \/ CancelEdit \/ LeaveApprovals
       \/ \E c \in Calls \ left : calls[c].step = "main" /\ calls[c].net = "ok"]_actionsVars
=============================================================================
