--------------------------- MODULE ScheduledSends ---------------------------
(***************************************************************************)
(* Scheduled sends: the scheduled_sends rows, ScheduleService              *)
(* (packages/core/src/services/schedule.ts) and the worker                 *)
(* runDueScheduledSends (packages/core/src/workers/schedule.ts).           *)
(*                                                                         *)
(* Each ScheduleService method opens the database, runs one statement that *)
(* matters and closes it: one step each.  Workers, cancellations from the  *)
(* web and the CLI, and people who approve or reject the same draft run    *)
(* between any two of them.  A worker holds the snapshot listDue returned  *)
(* while it goes through it.  The drafts themselves are seen at the stage  *)
(* DraftLifecycle gives them.                                              *)
(***************************************************************************)
EXTENDS Naturals, FiniteSets

CONSTANTS
  Schedules,    \* ids of scheduled_sends rows
  Drafts,       \* drafts they are for; a draft may have several rows
  Workers,      \* runs of runDueScheduledSends that may overlap
  MaxAttempts,  \* maxAttempts (3 by default)
  NoSchedule,   \* no row in hand
  Horizon,      \* bound: the clock stops here
  MaxCancels,   \* bound: cancellations
  MaxFaults     \* bound: crashes and database errors

ASSUME ConstantsAssumption ==
  /\ MaxAttempts \in Nat \ {0}
  /\ Horizon \in Nat
  /\ MaxCancels \in Nat
  /\ MaxFaults \in Nat
  /\ IsFiniteSet(Workers)
  /\ NoSchedule \notin Schedules

Statuses == {"none", "pending", "sending", "sent", "cancelled", "failed"}
Stages == {"proposed", "queued", "sent", "rejected"}
Times == 0..Horizon

VARIABLES
  status,    \* row -> its status, "none" before create
  attempts,  \* row -> attempts
  sendAt,    \* row -> when it is due
  created,   \* row -> createdAt, the second sort key
  draft,     \* row -> the draft it sends
  stage,     \* draft -> where its file is
  now,       \* the clock
  pc,        \* worker -> what it does next
  todo,      \* worker -> the due rows it has not reached
  cur,       \* worker -> the row in hand
  cancels,   \* cancellations so far
  faults     \* faults so far

vars == <<status, attempts, sendAt, created, draft, stage, now, pc, todo, cur, cancels, faults>>
rows == <<status, attempts, sendAt, created, draft>>
workers == <<pc, todo, cur>>

TypeOK ==
  /\ status \in [Schedules -> Statuses]
  /\ attempts \in [Schedules -> Nat]
  /\ sendAt \in [Schedules -> Times]
  /\ created \in [Schedules -> Times]
  /\ draft \in [Schedules -> Drafts]
  /\ stage \in [Drafts -> Stages]
  /\ now \in Times
  /\ pc \in [Workers -> {"idle", "mark", "approve", "sent", "marked", "failed"}]
  /\ todo \in [Workers -> SUBSET Schedules]
  /\ cur \in [Workers -> Schedules \cup {NoSchedule}]
  /\ cancels \in 0..MaxCancels
  /\ faults \in 0..MaxFaults

Init ==
  /\ status = [s \in Schedules |-> "none"]
  /\ attempts = [s \in Schedules |-> 0]
  /\ sendAt = [s \in Schedules |-> 0]
  /\ created = [s \in Schedules |-> 0]
  /\ draft \in [Schedules -> Drafts]
  /\ stage = [d \in Drafts |-> "proposed"]
  /\ now = 0
  /\ pc = [w \in Workers |-> "idle"]
  /\ todo = [w \in Workers |-> {}]
  /\ cur = [w \in Workers |-> NoSchedule]
  /\ cancels = 0
  /\ faults = 0

-----------------------------------------------------------------------------
(* ScheduleService.                                                        *)

(* create: an INSERT with no check of the draft or of other rows for it.   *)
(* The web asks for a future time, the CLI does not.                       *)
Create(s) ==
  /\ status[s] = "none"
  /\ status' = [status EXCEPT ![s] = "pending"]
  /\ \E t \in Times : sendAt' = [sendAt EXCEPT ![s] = t]
  /\ created' = [created EXCEPT ![s] = now]
  /\ UNCHANGED <<attempts, draft, stage, now, workers, cancels, faults>>

(* updateStatus: unconditional.                                            *)
UpdateStatusSwapped(s, new) == status' = [status EXCEPT ![s] = s]
UpdateStatus(s, new) == status' = [status EXCEPT ![s] = new]

(* cancel: whatever the status is.                                         *)
Cancel(s) ==
  /\ status[s] # "none"
  /\ cancels < MaxCancels
  /\ UpdateStatus(s, "cancelled")
  /\ cancels' = cancels + 1
  /\ UNCHANGED <<attempts, sendAt, created, draft, stage, now, workers, faults>>

Retryable == {"pending", "failed"}

(* The WHERE and the ORDER BY of listDue; SQLite breaks ties as it likes.  *)
(* The variants before Due, here and elsewhere, are what the mutants use.  *)
DueIgnoringAttempts(s) == status[s] \in Retryable /\ sendAt[s] <= now
DueIgnoringTime(s) == status[s] \in Retryable /\ attempts[s] < MaxAttempts
DueOnlyPending(s) == status[s] = "pending" /\ sendAt[s] <= now /\ attempts[s] < MaxAttempts
DueAnyStatus(s) == status[s] # "none" /\ sendAt[s] <= now /\ attempts[s] < MaxAttempts
Due(s) ==
  /\ status[s] \in Retryable
  /\ sendAt[s] <= now
  /\ attempts[s] < MaxAttempts

NotAfter(s, t) == sendAt[s] < sendAt[t] \/ (sendAt[s] = sendAt[t] /\ created[s] <= created[t])

-----------------------------------------------------------------------------
(* runDueScheduledSends.                                                   *)

ListDue(w) ==
  /\ pc[w] = "idle"
  /\ \E s \in Schedules : Due(s)
  /\ todo' = [todo EXCEPT ![w] = {s \in Schedules : Due(s)}]
  /\ pc' = [pc EXCEPT ![w] = "mark"]
  /\ UNCHANGED <<rows, stage, now, cur, cancels, faults>>

(* markSending of the next row of the snapshot.  The update is guarded by  *)
(* the status it finds now; the worker goes on whatever it did.            *)
MarkSending(w) ==
  /\ pc[w] = "mark"
  /\ \E s \in todo[w] :
       /\ \A t \in todo[w] : NotAfter(s, t)
       /\ cur' = [cur EXCEPT ![w] = s]
       /\ todo' = [todo EXCEPT ![w] = @ \ {s}]
       /\ \/ /\ status[s] \in Retryable
             /\ UpdateStatus(s, "sending")
             /\ attempts' = [attempts EXCEPT ![s] = @ + 1]
          \/ status[s] \notin Retryable /\ UNCHANGED <<status, attempts>>
  /\ pc' = [pc EXCEPT ![w] = "approve"]
  /\ UNCHANGED <<sendAt, created, draft, stage, now, cancels, faults>>

(* draftService.approve: it queues a proposed draft, takes a queued one as *)
(* done and throws for one that is sent or rejected; it may also throw for *)
(* reasons of its own (no adapter, safeguard, I/O), the last of which may  *)
(* come after the rename that queued the draft.                            *)
ApproveSucceeds(w) ==
  /\ pc[w] = "approve"
  /\ stage[draft[cur[w]]] \in {"proposed", "queued"}
  /\ stage' = [stage EXCEPT ![draft[cur[w]]] = "queued"]
  /\ pc' = [pc EXCEPT ![w] = "sent"]
  /\ UNCHANGED <<rows, now, todo, cur, cancels, faults>>

ApproveThrowsAsSent(w) ==
  /\ pc[w] = "approve"
  /\ pc' = [pc EXCEPT ![w] = "sent"]
  /\ UNCHANGED <<rows, stage, now, todo, cur, cancels, faults>>
ApproveThrows(w) ==
  /\ pc[w] = "approve"
  /\ pc' = [pc EXCEPT ![w] = "failed"]
  /\ \/ UNCHANGED stage
     \/ /\ stage[draft[cur[w]]] = "proposed"
        /\ stage' = [stage EXCEPT ![draft[cur[w]]] = "queued"]
  /\ UNCHANGED <<rows, now, todo, cur, cancels, faults>>

NextRow(w) ==
  /\ pc' = [pc EXCEPT ![w] = IF todo[w] = {} THEN "idle" ELSE "mark"]
  /\ cur' = [cur EXCEPT ![w] = NoSchedule]
  /\ UNCHANGED todo

(* markSent is two statements, and another process may run between them:   *)
(* the UPDATE, and the read of the row that follows it.                    *)
MarkSent(w) ==
  /\ pc[w] = "sent"
  /\ UpdateStatus(cur[w], "sent")
  /\ pc' = [pc EXCEPT ![w] = "marked"]
  /\ UNCHANGED <<attempts, sendAt, created, draft, stage, now, todo, cur, cancels, faults>>

MarkSentReturns(w) ==
  /\ pc[w] = "marked"
  /\ NextRow(w)
  /\ UNCHANGED <<rows, stage, now, cancels, faults>>

(* Both are inside the try: when the database refuses either, the row is   *)
(* marked failed although the message is queued and, after the UPDATE,     *)
(* although the row says sent.                                             *)
MarkSentThrows(w) ==
  /\ pc[w] \in {"sent", "marked"}
  /\ faults < MaxFaults
  /\ faults' = faults + 1
  /\ pc' = [pc EXCEPT ![w] = "failed"]
  /\ UNCHANGED <<rows, stage, now, todo, cur, cancels>>

MarkPendingAgain(w) ==
  /\ pc[w] = "failed"
  /\ status' = [status EXCEPT ![cur[w]] = "pending"]
  /\ attempts' = [attempts EXCEPT ![cur[w]] = 0]
  /\ NextRow(w)
  /\ UNCHANGED <<sendAt, created, draft, stage, now, cancels, faults>>
MarkFailed(w) ==
  /\ pc[w] = "failed"
  /\ UpdateStatus(cur[w], "failed")
  /\ NextRow(w)
  /\ UNCHANGED <<attempts, sendAt, created, draft, stage, now, cancels, faults>>

(* The process dies, or markSending or markFailed throws out of the loop.  *)
Crash(w) ==
  /\ pc[w] # "idle"
  /\ faults < MaxFaults
  /\ faults' = faults + 1
  /\ pc' = [pc EXCEPT ![w] = "idle"]
  /\ todo' = [todo EXCEPT ![w] = {}]
  /\ cur' = [cur EXCEPT ![w] = NoSchedule]
  /\ UNCHANGED <<rows, stage, now, cancels>>

-----------------------------------------------------------------------------
(* Everything else: the clock, people in the approvals view, the agent.    *)

Tick ==
  /\ now < Horizon
  /\ now' = now + 1
  /\ UNCHANGED <<rows, stage, workers, cancels, faults>>

Review(d) ==
  /\ stage[d] = "proposed"
  /\ \E new \in {"queued", "rejected"} : stage' = [stage EXCEPT ![d] = new]
  /\ UNCHANGED <<rows, now, workers, cancels, faults>>

Drain(d) ==
  /\ stage[d] = "queued"
  /\ stage' = [stage EXCEPT ![d] = "sent"]
  /\ UNCHANGED <<rows, now, workers, cancels, faults>>

WorkerStep(w) ==
  \/ ListDue(w)
  \/ MarkSending(w)
  \/ ApproveSucceeds(w)
  \/ ApproveThrows(w)
  \/ MarkSent(w)
  \/ MarkSentReturns(w)
  \/ MarkFailed(w)

Next ==
  \/ \E s \in Schedules : Create(s) \/ Cancel(s)
  \/ \E w \in Workers : WorkerStep(w) \/ MarkSentThrows(w) \/ Crash(w)
  \/ \E d \in Drafts : Review(d) \/ Drain(d)
  \/ Tick

Spec == Init /\ [][Next]_vars

(* The poller runs again and again and time passes; nobody has to create,  *)
(* cancel or review anything, and the agent may stop.                      *)
FairSpec ==
  /\ Spec
  /\ WF_vars(Tick)
  /\ \A w \in Workers : WF_vars(WorkerStep(w))

-----------------------------------------------------------------------------
(* What holds with several workers, cancellations and faults.              *)

Held(s, w) == s \in todo[w] \/ cur[w] = s

(* "Failures retry up to the configured max attempts": a row is attempted  *)
(* at most MaxAttempts times, plus once for every other worker that may    *)
(* have it in an old snapshot, because markSending checks the status and   *)
(* not the attempts.                                                       *)
AttemptsWithinBound ==
  \A s \in Schedules : attempts[s] <= MaxAttempts + Cardinality(Workers) - 1

(* A row a worker has in hand is due: no send before its time.             *)
NeverEarly == \A w \in Workers : cur[w] # NoSchedule => sendAt[cur[w]] <= now

(* A row that says sent is for a draft that went to the outbox, whoever    *)
(* else worked on the row or the draft.                                    *)
SentMeansQueued ==
  \A s \in Schedules : status[s] = "sent" => stage[draft[s]] \in {"queued", "sent"}

(* What cancel does promise: a cancelled row that no worker has in its     *)
(* snapshot stays cancelled and no worker picks it up.                     *)
CancelHolds ==
  [][\A s \in Schedules :
       status[s] = "cancelled" /\ (\A w \in Workers : ~Held(s, w))
         => status'[s] = "cancelled" /\ (\A w \in Workers : ~Held(s, w)')]_vars

(* "Failures retry up to the configured max attempts, then remain failed"  *)
(* (PLAN.md): a row that has used up its attempts, that is sent, or that a *)
(* dead worker left sending, is picked up by no worker unless one has it   *)
(* in its snapshot already; only a cancellation changes it.                *)
AtRest(s) ==
  \/ status[s] \in {"sending", "sent"}
  \/ status[s] = "failed" /\ attempts[s] >= MaxAttempts
RetriesEnd ==
  [][\A s \in Schedules :
       AtRest(s) /\ (\A w \in Workers : ~Held(s, w))
         => /\ status'[s] \in {status[s], "cancelled"} /\ attempts'[s] = attempts[s]
            /\ \A w \in Workers : ~Held(s, w)']_vars

InHand(s) == \E w \in Workers : cur[w] = s

(* The row transitions of PLAN.md, for one worker and no cancellation: see *)
(* SendLifecycle.  What a row says is final only when the worker has let   *)
(* go of it: a row whose UPDATE to sent is committed still becomes failed  *)
(* when the read after it throws, so a sent row counts as sending for as   *)
(* long as a worker has it in hand.                                        *)
SettledStatus ==
  [s \in Schedules |-> IF status[s] = "sent" /\ InHand(s) THEN "sending" ELSE status[s]]
Rows == INSTANCE SendLifecycle WITH status <- SettledStatus
ImplementsSendLifecycle == Rows!Spec

(* Every row that is pending ends sent, cancelled or out of attempts, and  *)
(* out of every worker's hands, when workers keep running, unless a worker *)
(* dies with the row in hand.                                              *)
Settled(s) ==
  /\ ~InHand(s)
  /\ \/ status[s] \in {"sent", "cancelled"}
     \/ status[s] = "failed" /\ attempts[s] >= MaxAttempts
Orphaned(s) == status[s] = "sending" /\ ~InHand(s)
SettledOrOrphaned == \A s \in Schedules : status[s] = "pending" ~> Settled(s) \/ Orphaned(s)

-----------------------------------------------------------------------------
(* What the code does not keep (runs that expect a violation).             *)

(* "Failures retry up to the configured max attempts, then remain failed"  *)
(* (PLAN.md): every pending row is settled in the end.                     *)
EventuallySettled == \A s \in Schedules : status[s] = "pending" ~> Settled(s)

(* pending -> sending -> sent | failed | cancelled (PLAN.md): cancelled is *)
(* a final status.                                                         *)
CancelledIsFinal ==
  [][\A s \in Schedules : status[s] = "cancelled" => status'[s] = "cancelled"]_vars
=============================================================================
