--------------------------- MODULE ApprovalsFeed ---------------------------
(***************************************************************************)
(* How the approvals view comes to show the drafts there are: the events   *)
(* route, which polls a signature of the folders and streams a message     *)
(* when it has changed, refreshApprovals and the first load of AppShell,   *)
(* and listImessageDrafts behind them.                                     *)
(*                                                                         *)
(* One draft stands for the folders.  Its file is edited, moved out of     *)
(* drafts/ or put back by the agent, the CLI and other reviewers.  Several *)
(* refreshes may be under way; their answers arrive in any order.          *)
(***************************************************************************)
EXTENDS Naturals, FiniteSets

CONSTANTS
  Refreshes,   \* refreshes that may be under way together
  MaxChanges,  \* bound: changes of the file
  MaxVisits,   \* bound: visits to the view, and streams that break
  MaxReloads,  \* bound: refreshes by hand or after an action
  MaxFaults    \* bound: requests lost to the network or to a server error

ASSUME FeedAssumption ==
  /\ IsFiniteSet(Refreshes) /\ Refreshes # {}
  /\ MaxChanges \in Nat /\ MaxVisits \in Nat /\ MaxReloads \in Nat /\ MaxFaults \in Nat

VARIABLES
  file,       \* the draft's file: [n, there]; n counts its changes
  visible,    \* activeView is "approvals"
  stream,     \* the event stream: "closed", "open" or "lost"
  signature,  \* lastSignature of the stream's interval
  events,     \* messages on their way to the browser
  refresh,    \* refresh -> [step, quiet, names, got]
  shown,      \* the list kept: [n, there], n of the file when it was read
  failed,     \* draftError is set, which hides the list
  loading,    \* draftsLoading, which hides it too
  excuses,    \* why shown may stay old: a subset of Excuses
  visits, reloads, faults \* visits, reloads and faults so far

feedVars == <<file, visible, stream, signature, events, refresh, shown, failed, loading,
              excuses, visits, reloads, faults>>
connection == <<visible, stream, signature, events>>
screen == <<shown, failed, loading>>
spent == <<visits, reloads, faults>>

(* The change was older than the stream's first signature; an answer older *)
(* than the one shown has replaced it; a request was lost; a list landed   *)
(* behind the error of a refresh that overlapped with its own.             *)
Excuses == {"missed", "overtaken", "lost", "hidden"}
States == [n : Nat, there : BOOLEAN]
NotStarted == [step |-> "idle", quiet |-> TRUE, names |-> FALSE, got |-> [n |-> 0, there |-> FALSE]]
First == CHOOSE r \in Refreshes : TRUE
FeedSteps == {"idle", "names", "files", "answered", "refused", "lost"}

FeedTypeOK ==
  /\ file \in States
  /\ visible \in BOOLEAN
  /\ stream \in {"closed", "open", "lost"}
  /\ signature \in States
  /\ events \in Nat
  /\ refresh \in [Refreshes -> [step : FeedSteps, quiet : BOOLEAN, names : BOOLEAN, got : States]]
  /\ shown \in States
  /\ failed \in BOOLEAN /\ loading \in BOOLEAN
  /\ excuses \subseteq Excuses
  /\ visits \in Nat /\ reloads \in Nat /\ faults \in Nat

(* The page has been opened on another view, its first load is under way.  *)
FeedInit ==
  /\ file = [n |-> 0, there |-> TRUE]
  /\ visible = FALSE /\ stream = "closed"
  /\ signature = [n |-> 0, there |-> TRUE]
  /\ events = 0
  /\ refresh = [r \in Refreshes |->
       IF r = First THEN [NotStarted EXCEPT !.step = "names", !.quiet = FALSE] ELSE NotStarted]
  /\ shown = [n |-> 0, there |-> FALSE]
  /\ failed = FALSE /\ loading = TRUE /\ excuses = {}
  /\ visits = 0 /\ reloads = 0 /\ faults = 0

-----------------------------------------------------------------------------
(* Agent, CLI, other reviewers: an edit, a move out of drafts/ or a return.*)
Change ==
  /\ file.n < MaxChanges
  /\ \E there \in BOOLEAN :
       (file.there \/ there) /\ file' = [n |-> file.n + 1, there |-> there]
  /\ UNCHANGED <<connection, refresh, screen, excuses, spent>>

(* approvalStateSignature: path, mtime and size of every file, so that an  *)
(* edit shows as well as a move.                                           *)
SignatureOfNames == [n |-> 0, there |-> file.there]
Signature == file

-----------------------------------------------------------------------------
(* The effect of AppShell that opens the stream, and the stream.           *)

(* GET takes the first signature; nothing is loaded on the way in.         *)
Connect ==
  /\ visible /\ stream \in {"closed", "lost"}
  /\ stream' = "open"
  /\ signature' = Signature
  /\ excuses' = excuses \cup (IF shown.n # file.n THEN {"missed"} ELSE {})
  /\ UNCHANGED <<file, visible, events, refresh, screen, spent>>

Enter ==
  /\ ~visible
  /\ visits < MaxVisits
  /\ visits' = visits + 1
  /\ visible' = TRUE
  /\ UNCHANGED <<file, stream, signature, events, refresh, screen, excuses, reloads, faults>>

(* events.close() on leaving.                                              *)
Leave ==
  /\ visible
  /\ visible' = FALSE
  /\ stream' = "closed"
  /\ events' = 0
  /\ UNCHANGED <<file, signature, refresh, screen, excuses, spent>>

(* The connection breaks; the browser opens it again (Connect).            *)
Lose ==
  /\ stream = "open"
  /\ visits < MaxVisits
  /\ visits' = visits + 1
  /\ stream' = "lost"
  /\ events' = 0
  /\ UNCHANGED <<file, visible, signature, refresh, screen, excuses, reloads, faults>>

(* The interval of the events route.                                       *)
Poll ==
  /\ stream = "open"
  /\ Signature # signature
  /\ signature' = Signature
  /\ events' = events + 1
  /\ UNCHANGED <<file, visible, stream, refresh, screen, excuses, spent>>

-----------------------------------------------------------------------------
(* refreshApprovals.                                                       *)

Begin(r, quiet) ==
  /\ refresh[r].step = "idle"
  /\ refresh' = [refresh EXCEPT ![r] = [NotStarted EXCEPT !.step = "names", !.quiet = quiet]]
  /\ loading' = (loading \/ ~quiet)
  /\ failed' = FALSE
  /\ UNCHANGED shown

OnEvent(r) ==
  /\ events > 0
  /\ events' = events - 1
  /\ Begin(r, TRUE)
  /\ UNCHANGED <<file, visible, stream, signature, excuses, spent>>

(* The refresh button; Retry, which is not disabled while a refresh is     *)
(* under way; and onRefresh of runDraftAction, at any time, also when the  *)
(* view has been left.                                                     *)
Reload(r) ==
  /\ reloads < MaxReloads
  /\ reloads' = reloads + 1
  /\ Begin(r, FALSE)
  /\ UNCHANGED <<file, connection, excuses, visits, faults>>

(* collectDraftFiles: the names.                                           *)
ReadNames(r) ==
  /\ refresh[r].step = "names"
  /\ refresh' = [refresh EXCEPT ![r].step = "files", ![r].names = file.there, ![r].got.n = file.n]
  /\ UNCHANGED <<file, connection, screen, excuses, spent>>

(* readFile of each name: one that is gone fails the whole listing.  The   *)
(* age of an answer is that of the names when there was nothing to read.   *)
ReadFiles(r) ==
  /\ refresh[r].step = "files"
  /\ \/ /\ ~refresh[r].names
        /\ refresh' = [refresh EXCEPT ![r].step = "answered", ![r].got.there = FALSE]
     \/ /\ refresh[r].names /\ file.there
        /\ refresh' = [refresh EXCEPT ![r].step = "answered", ![r].got = file]
     \/ /\ refresh[r].names /\ ~file.there
        /\ refresh' = [refresh EXCEPT ![r].step = "refused"]
  /\ UNCHANGED <<file, connection, screen, excuses, spent>>

Settle(r) ==
  /\ refresh' = [refresh EXCEPT ![r] = NotStarted]
  /\ loading' = (loading /\ refresh[r].quiet)

(* setDrafts, whatever else has landed meanwhile: an error that is up      *)
(* stays up, only the start of a refresh takes it down.                    *)
Land(r) ==
  /\ refresh[r].step = "answered"
  /\ shown' = refresh[r].got
  /\ excuses' =
       CASE refresh[r].got.n = file.n -> IF failed THEN {"hidden"} ELSE {}
         [] refresh[r].got.n # file.n /\ refresh[r].got.n < shown.n -> excuses \cup {"overtaken"}
         [] OTHER -> excuses
  /\ Settle(r)
  /\ UNCHANGED <<file, connection, failed, spent>>

(* The request does not get through, or the server fails; the first load   *)
(* also fails so when one of the other lists it waits for does.            *)
Fault(r) ==
  /\ refresh[r].step \in {"names", "files"}
  /\ faults < MaxFaults
  /\ faults' = faults + 1
  /\ refresh' = [refresh EXCEPT ![r].step = "lost"]
  /\ UNCHANGED <<file, connection, screen, excuses, visits, reloads>>

(* draftError, and both lists are emptied.                                 *)
LandErrorStillLoading(r) ==
  /\ refresh[r].step \in {"refused", "lost"}
  /\ failed' = TRUE /\ refresh' = [refresh EXCEPT ![r] = NotStarted]
  /\ shown' = [shown EXCEPT !.there = FALSE]
  /\ UNCHANGED <<file, connection, loading, excuses, spent>>
LandError(r) ==
  /\ refresh[r].step \in {"refused", "lost"}
  /\ failed' = TRUE
  /\ excuses' = excuses \cup
       (IF refresh[r].step = "lost" THEN {"lost"}
        ELSE IF refresh[r].got.n < shown.n THEN {"overtaken"} ELSE {})
  /\ shown' = [shown EXCEPT !.there = FALSE]
  /\ Settle(r)
  /\ UNCHANGED <<file, connection, spent>>

FeedNext ==
  \/ Change
  \/ Connect \/ Enter \/ Leave \/ Lose \/ Poll
  \/ \E r \in Refreshes :
       OnEvent(r) \/ Reload(r) \/ ReadNames(r) \/ ReadFiles(r) \/ Land(r) \/ LandError(r) \/ Fault(r)

FeedSpec == FeedInit /\ [][FeedNext]_feedVars

-----------------------------------------------------------------------------
(* The drafts are on the screen only with no error and no spinner: then    *)
(* the list is what the folder has.                                        *)
Current ==
  /\ ~failed /\ ~loading
  /\ shown.there = file.there
  /\ file.there => shown.n = file.n

(* Nothing is under way that would still change what is shown.             *)
Quiescent ==
  /\ visible /\ stream = "open"
  /\ signature = Signature /\ events = 0
  /\ \A r \in Refreshes : refresh[r].step = "idle"

(* With the view open and everything done that a change of the folders has *)
(* set off, the view shows what is there, without a press of the refresh   *)
(* button ("queue updates without manual refresh", TODO.md), also after a  *)
(* listing that failed because a file left drafts/ while it was read.      *)
(* Four things keep it from that: a change from before the stream's first  *)
(* signature, an older answer that lands last, a request that is lost, and *)
(* an error that a list landed behind.                                     *)
ShownWhenQuiescent == Quiescent => Current \/ excuses # {}

(* The drafts are hidden only while a refresh that hides them is under way *)
(* (setDraftsLoading in refreshApprovals and loadLocalData), whatever      *)
(* overlaps and fails: the view does not stay on its spinner.              *)
SpinnerEnds == loading => \E r \in Refreshes : refresh[r].step # "idle" /\ ~refresh[r].quiet
=============================================================================
