----------------------- MODULE ScheduledSends_proofs -----------------------
(***************************************************************************)
(* Proofs about ScheduledSends for any rows, drafts, workers and bounds:   *)
(* types, the bound on attempts, that nothing is sent early, that a sent   *)
(* row is for a queued draft, and what a cancellation promises; and, when  *)
(* worker runs do not overlap and cancellations come in time, that         *)
(* ScheduledSends implements SendLifecycle.                                *)
(***************************************************************************)
EXTENDS ScheduledSends, FiniteSetTheorems, TLAPS

TInv ==
  /\ TypeOK
  /\ \A w \in Workers :
       IF pc[w] \in {"idle", "mark"} THEN cur[w] = NoSchedule ELSE cur[w] \in Schedules

LEMMA TypeInit == Init => TInv
  BY ConstantsAssumption DEF Init, TInv, TypeOK, Statuses, Stages, Times

LEMMA TypeStep == TInv /\ [Next]_vars => TInv'
<1> SUFFICES ASSUME TInv, [Next]_vars PROVE TInv'
  OBVIOUS
<1> USE ConstantsAssumption DEF TInv, TypeOK, Statuses, Stages, Times, rows, workers
<1>1. ASSUME NEW s \in Schedules, Create(s) PROVE TInv'
  BY <1>1 DEF Create
<1>2. ASSUME NEW s \in Schedules, Cancel(s) PROVE TInv'
  BY <1>2 DEF Cancel, UpdateStatus
<1>3. ASSUME NEW w \in Workers, ListDue(w) PROVE TInv'
  BY <1>3 DEF ListDue
<1>4. ASSUME NEW w \in Workers, MarkSending(w) PROVE TInv'
  BY <1>4 DEF MarkSending, UpdateStatus
<1>5. ASSUME NEW w \in Workers, ApproveSucceeds(w) PROVE TInv'
  BY <1>5 DEF ApproveSucceeds
<1>6. ASSUME NEW w \in Workers, ApproveThrows(w) PROVE TInv'
  BY <1>6 DEF ApproveThrows
<1>7. ASSUME NEW w \in Workers, MarkSent(w) PROVE TInv'
  BY <1>7 DEF MarkSent, UpdateStatus
<1>15. ASSUME NEW w \in Workers, MarkSentReturns(w) PROVE TInv'
  BY <1>15 DEF MarkSentReturns, NextRow
<1>8. ASSUME NEW w \in Workers, MarkFailed(w) PROVE TInv'
  BY <1>8 DEF MarkFailed, UpdateStatus, NextRow
<1>9. ASSUME NEW w \in Workers, MarkSentThrows(w) PROVE TInv'
  BY <1>9 DEF MarkSentThrows
<1>10. ASSUME NEW w \in Workers, Crash(w) PROVE TInv'
  BY <1>10 DEF Crash
<1>11. ASSUME NEW d \in Drafts, Review(d) PROVE TInv'
  BY <1>11 DEF Review
<1>12. ASSUME NEW d \in Drafts, Drain(d) PROVE TInv'
  BY <1>12 DEF Drain
<1>13. ASSUME Tick PROVE TInv'
  BY <1>13 DEF Tick
<1>14. CASE UNCHANGED vars
  BY <1>14 DEF vars
<1>16. QED
  BY <1>1, <1>2, <1>3, <1>4, <1>5, <1>6, <1>7, <1>8, <1>9, <1>10, <1>11, <1>12, <1>13, <1>14,
     <1>15
     DEF Next, WorkerStep

(* Every variable keeps its type.                                          *)
THEOREM TypeCorrect == Spec => []TypeOK
<1>1. TInv => TypeOK
  BY DEF TInv
<1>2. QED
  BY TypeInit, TypeStep, <1>1, PTL DEF Spec

LEMMA TypesHold == Spec => []TInv
  BY TypeInit, TypeStep, PTL DEF Spec

-----------------------------------------------------------------------------
(* The bound on attempts.  A worker that still has the row in its snapshot *)
(* may add one attempt without looking at attempts again, so the holders   *)
(* count as attempts to come.                                              *)

Holders(s) == {w \in Workers : s \in todo[w]}

HInv ==
  \A s \in Schedules :
    attempts[s] + Cardinality(Holders(s)) <= MaxAttempts + Cardinality(Workers) - 1

LEMMA HoldersFinite ==
  ASSUME NEW s
  PROVE  /\ IsFiniteSet(Holders(s))
         /\ Cardinality(Holders(s)) \in Nat
         /\ Cardinality(Workers) \in Nat
         /\ Cardinality(Holders(s)) <= Cardinality(Workers)
<1>1. IsFiniteSet(Workers) /\ Holders(s) \subseteq Workers
  BY ConstantsAssumption DEF Holders
<1>2. QED
  BY <1>1, FS_Subset, FS_CardinalityType

LEMMA HoldersFiniteNext ==
  ASSUME NEW s
  PROVE  /\ IsFiniteSet(Holders(s)')
         /\ Cardinality(Holders(s)') \in Nat
         /\ Cardinality(Holders(s)') <= Cardinality(Workers)
<1>1. IsFiniteSet(Workers) /\ Holders(s)' \subseteq Workers
  BY ConstantsAssumption DEF Holders
<1>2. QED
  BY <1>1, FS_Subset, FS_CardinalityType

LEMMA FewerHolders ==
  ASSUME TInv, HInv, NEW s \in Schedules, Holders(s)' \subseteq Holders(s),
         attempts'[s] = attempts[s]
  PROVE  attempts'[s] + Cardinality(Holders(s)') <= MaxAttempts + Cardinality(Workers) - 1
<1>1. Cardinality(Holders(s)') <= Cardinality(Holders(s)) /\ Cardinality(Holders(s)') \in Nat
  BY HoldersFinite, HoldersFiniteNext, FS_Subset
<1>2. attempts[s] + Cardinality(Holders(s)) <= MaxAttempts + Cardinality(Workers) - 1
  BY DEF HInv
<1>3. attempts[s] \in Nat /\ MaxAttempts \in Nat
  BY ConstantsAssumption DEF TInv, TypeOK
<1>4. QED
  BY <1>1, <1>2, <1>3, HoldersFinite

LEMMA AttemptsStep == TInv /\ HInv /\ [Next]_vars => HInv'
<1> SUFFICES ASSUME TInv, HInv, [Next]_vars, NEW s \in Schedules
             PROVE  attempts'[s] + Cardinality(Holders(s)')
                      <= MaxAttempts + Cardinality(Workers) - 1
  BY DEF HInv
<1> DEFINE Goal == attempts'[s] + Cardinality(Holders(s)')
                     <= MaxAttempts + Cardinality(Workers) - 1
<1>1. CASE Holders(s)' \subseteq Holders(s) /\ attempts'[s] = attempts[s]
  BY <1>1, FewerHolders
<1>2. ASSUME NEW w \in Workers, ListDue(w) PROVE Goal
  <2>1. CASE Due(s)
    <3>1. attempts'[s] = attempts[s] /\ attempts[s] < MaxAttempts
      BY <1>2, <2>1 DEF ListDue, Due, rows
    <3>2. attempts[s] \in Nat /\ MaxAttempts \in Nat
      BY ConstantsAssumption DEF TInv, TypeOK
    <3>3. /\ Cardinality(Holders(s)') \in Nat
          /\ Cardinality(Workers) \in Nat
          /\ Cardinality(Holders(s)') <= Cardinality(Workers)
      BY HoldersFinite, HoldersFiniteNext
    <3>4. attempts[s] + Cardinality(Holders(s)') <= MaxAttempts + Cardinality(Workers) - 1
      BY ONLY <3>1, <3>2, <3>3
    <3>5. QED
      BY <3>1, <3>4
  <2>2. CASE ~Due(s)
    <3>1. Holders(s)' \subseteq Holders(s) /\ attempts'[s] = attempts[s]
      BY <1>2, <2>2 DEF ListDue, Holders, rows, TInv, TypeOK
    <3>2. QED
      BY <3>1, <1>1
  <2>3. QED
    BY <2>1, <2>2
<1>3. ASSUME NEW w \in Workers, MarkSending(w) PROVE Goal
  <2>1. CASE attempts'[s] = attempts[s]
    <3>1. Holders(s)' \subseteq Holders(s)
      BY <1>3 DEF MarkSending, Holders, TInv, TypeOK
    <3>2. QED
      BY <2>1, <3>1, <1>1
  <2>2. CASE attempts'[s] # attempts[s]
    <3>1. /\ s \in todo[w]
          /\ todo' = [todo EXCEPT ![w] = @ \ {s}]
          /\ attempts'[s] = attempts[s] + 1
      BY <1>3, <2>2 DEF MarkSending, TInv, TypeOK
    <3>2. w \in Holders(s) /\ Holders(s)' = Holders(s) \ {w}
      BY <3>1 DEF Holders, TInv, TypeOK
    <3>3. Cardinality(Holders(s)') = Cardinality(Holders(s)) - 1
      BY <3>2, HoldersFinite, FS_RemoveElement
    <3>4. attempts[s] \in Nat /\ MaxAttempts \in Nat
      BY ConstantsAssumption DEF TInv, TypeOK
    <3>5. attempts[s] + Cardinality(Holders(s)) <= MaxAttempts + Cardinality(Workers) - 1
      BY DEF HInv
    <3>6. QED
      BY <3>1, <3>3, <3>4, <3>5, HoldersFinite
  <2>3. QED
    BY <2>1, <2>2
<1>4. ASSUME NEW w \in Workers,
             ApproveSucceeds(w) \/ ApproveThrows(w) \/ MarkSent(w) \/ MarkSentReturns(w)
               \/ MarkFailed(w) \/ MarkSentThrows(w) \/ Crash(w)
      PROVE  Goal
  <2>1. Holders(s)' \subseteq Holders(s) /\ attempts'[s] = attempts[s]
    BY <1>4 DEF ApproveSucceeds, ApproveThrows, MarkSent, MarkSentReturns, MarkFailed, MarkSentThrows,
                Crash, NextRow, rows, Holders, TInv, TypeOK
  <2>2. QED
    BY <2>1, <1>1
<1>5. ASSUME \/ \E r \in Schedules : Create(r) \/ Cancel(r)
             \/ \E d \in Drafts : Review(d) \/ Drain(d)
             \/ Tick
             \/ UNCHANGED vars
      PROVE  Goal
  <2>1. Holders(s)' \subseteq Holders(s) /\ attempts'[s] = attempts[s]
    BY <1>5 DEF Create, Cancel, Review, Drain, Tick, vars, rows, workers, Holders
  <2>2. QED
    BY <2>1, <1>1
<1>6. QED
  BY <1>2, <1>3, <1>4, <1>5 DEF Next, WorkerStep

(* A row is attempted at most MaxAttempts times, plus once for every other *)
(* worker that may hold it in an old snapshot.                             *)
THEOREM AttemptsBounded == Spec => []AttemptsWithinBound
<1>1. Init => HInv
  <2> SUFFICES ASSUME Init, NEW s \in Schedules
               PROVE  attempts[s] + Cardinality(Holders(s))
                        <= MaxAttempts + Cardinality(Workers) - 1
    BY DEF HInv
  <2>1. Holders(s) = {} /\ attempts[s] = 0
    BY DEF Init, Holders
  <2>2. QED
    BY <2>1, FS_EmptySet, HoldersFinite, ConstantsAssumption
<1>2. TInv /\ HInv => AttemptsWithinBound
  <2> SUFFICES ASSUME TInv, HInv, NEW s \in Schedules
               PROVE  attempts[s] <= MaxAttempts + Cardinality(Workers) - 1
    BY DEF AttemptsWithinBound
  <2>1. attempts[s] \in Nat /\ MaxAttempts \in Nat
    BY ConstantsAssumption DEF TInv, TypeOK
  <2>2. QED
    BY <2>1, HoldersFinite DEF HInv
<1>3. QED
  BY <1>1, <1>2, AttemptsStep, TypesHold, PTL DEF Spec

-----------------------------------------------------------------------------
(* Nothing is sent early: what a worker holds was due when it was listed,  *)
(* and the clock does not go back.                                         *)

DInv ==
  \A w \in Workers, s \in Schedules : Held(s, w) => status[s] # "none" /\ sendAt[s] <= now

LEMMA DueStep == TInv /\ DInv /\ [Next]_vars => DInv'
<1> SUFFICES ASSUME TInv, DInv, [Next]_vars PROVE DInv'
  OBVIOUS
<1> USE ConstantsAssumption DEF TInv, TypeOK, DInv, Held, Times
<1>1. ASSUME NEW s \in Schedules, Create(s) \/ Cancel(s) PROVE DInv'
  BY <1>1 DEF Create, Cancel, UpdateStatus, workers
<1>2. ASSUME NEW w \in Workers, ListDue(w) PROVE DInv'
  BY <1>2 DEF ListDue, Due, Retryable, rows
<1>3. ASSUME NEW w \in Workers, MarkSending(w) PROVE DInv'
  BY <1>3 DEF MarkSending, UpdateStatus
<1>4. ASSUME NEW w \in Workers,
             ApproveSucceeds(w) \/ ApproveThrows(w) \/ MarkSentThrows(w) \/ Crash(w)
      PROVE  DInv'
  BY <1>4 DEF ApproveSucceeds, ApproveThrows, MarkSentThrows, Crash, rows
<1>5. ASSUME NEW w \in Workers, MarkSent(w) \/ MarkSentReturns(w) \/ MarkFailed(w) PROVE DInv'
  BY <1>5 DEF MarkSent, MarkSentReturns, MarkFailed, UpdateStatus, NextRow, rows
<1>6. ASSUME NEW d \in Drafts, Review(d) \/ Drain(d) PROVE DInv'
  BY <1>6 DEF Review, Drain, rows, workers
<1>7. ASSUME Tick PROVE DInv'
  BY <1>7 DEF Tick, rows, workers
<1>8. CASE UNCHANGED vars
  BY <1>8 DEF vars
<1>9. QED
  BY <1>1, <1>2, <1>3, <1>4, <1>5, <1>6, <1>7, <1>8 DEF Next, WorkerStep

(* No worker has a row in hand before its time.                            *)
THEOREM NeverSentEarly == Spec => []NeverEarly
<1>1. Init => DInv
  BY ConstantsAssumption DEF Init, DInv, Held
<1>2. TInv /\ DInv => NeverEarly
  BY DEF TInv, TypeOK, DInv, Held, NeverEarly
<1>3. QED
  BY <1>1, <1>2, DueStep, TypesHold, PTL DEF Spec

-----------------------------------------------------------------------------
(* A sent row is for a draft that went to the outbox.                      *)

Out == {"queued", "sent"}

QInv ==
  /\ \A s \in Schedules : status[s] = "sent" => stage[draft[s]] \in Out
  /\ \A w \in Workers : pc[w] = "sent" => stage[draft[cur[w]]] \in Out

LEMMA QueuedStep == TInv /\ QInv /\ [Next]_vars => QInv'
<1> SUFFICES ASSUME TInv, QInv, [Next]_vars PROVE QInv'
  OBVIOUS
<1> USE ConstantsAssumption DEF TInv, TypeOK, QInv, Out
<1>1. ASSUME NEW s \in Schedules, Create(s) \/ Cancel(s) PROVE QInv'
  BY <1>1 DEF Create, Cancel, UpdateStatus, workers
<1>2. ASSUME NEW w \in Workers, ListDue(w) \/ MarkSentThrows(w) \/ Crash(w) PROVE QInv'
  BY <1>2 DEF ListDue, MarkSentThrows, Crash, rows
<1>3. ASSUME NEW w \in Workers, MarkSending(w) PROVE QInv'
  BY <1>3 DEF MarkSending, UpdateStatus
<1>4. ASSUME NEW w \in Workers, ApproveSucceeds(w) PROVE QInv'
  BY <1>4 DEF ApproveSucceeds, rows
<1>5. ASSUME NEW w \in Workers, ApproveThrows(w) PROVE QInv'
  BY <1>5 DEF ApproveThrows, rows
<1>6. ASSUME NEW w \in Workers, MarkSent(w) PROVE QInv'
  BY <1>6 DEF MarkSent, UpdateStatus
<1>11. ASSUME NEW w \in Workers, MarkSentReturns(w) PROVE QInv'
  BY <1>11 DEF MarkSentReturns, NextRow, rows
<1>7. ASSUME NEW w \in Workers, MarkFailed(w) PROVE QInv'
  BY <1>7 DEF MarkFailed, UpdateStatus, NextRow
<1>8. ASSUME NEW d \in Drafts, Review(d) \/ Drain(d) PROVE QInv'
  BY <1>8 DEF Review, Drain, rows, workers
<1>9. ASSUME Tick PROVE QInv'
  BY <1>9 DEF Tick, rows, workers
<1>10. CASE UNCHANGED vars
  BY <1>10 DEF vars
<1>12. QED
  BY <1>1, <1>2, <1>3, <1>4, <1>5, <1>6, <1>7, <1>8, <1>9, <1>10, <1>11
     DEF Next, WorkerStep

(* markSent is reached only after approve returned, and no one takes a     *)
(* queued draft back.                                                      *)
THEOREM SentIsQueued == Spec => []SentMeansQueued
<1>1. Init => QInv
  BY DEF Init, QInv
<1>2. QInv => SentMeansQueued
  BY DEF QInv, Out, SentMeansQueued
<1>3. QED
  BY <1>1, <1>2, QueuedStep, TypesHold, PTL DEF Spec

-----------------------------------------------------------------------------
(* A cancelled row that no worker holds stays out of the workers' hands:   *)
(* listDue leaves it out and only a worker that holds it could change it.  *)

LEMMA CancelStep ==
  ASSUME TInv, [Next]_vars, NEW s \in Schedules, status[s] = "cancelled",
         \A w \in Workers : ~Held(s, w)
  PROVE  status'[s] = "cancelled" /\ (\A w \in Workers : ~Held(s, w)')
<1> DEFINE Goal == status'[s] = "cancelled" /\ (\A w \in Workers : ~Held(s, w)')
<1> USE ConstantsAssumption DEF TInv, TypeOK, Held
<1>1. ASSUME NEW r \in Schedules, Create(r) \/ Cancel(r) PROVE Goal
  BY <1>1 DEF Create, Cancel, UpdateStatus, workers
<1>2. ASSUME NEW w \in Workers, ListDue(w) PROVE Goal
  BY <1>2 DEF ListDue, Due, Retryable, rows
<1>3. ASSUME NEW w \in Workers, MarkSending(w) PROVE Goal
  BY <1>3 DEF MarkSending, UpdateStatus
<1>4. ASSUME NEW w \in Workers,
             ApproveSucceeds(w) \/ ApproveThrows(w) \/ MarkSentThrows(w) \/ Crash(w)
      PROVE  Goal
  BY <1>4 DEF ApproveSucceeds, ApproveThrows, MarkSentThrows, Crash, rows
<1>5. ASSUME NEW w \in Workers, MarkSent(w) \/ MarkSentReturns(w) \/ MarkFailed(w) PROVE Goal
  BY <1>5 DEF MarkSent, MarkSentReturns, MarkFailed, UpdateStatus, NextRow, rows
<1>6. ASSUME NEW d \in Drafts, Review(d) \/ Drain(d) PROVE Goal
  BY <1>6 DEF Review, Drain, rows, workers
<1>7. ASSUME Tick PROVE Goal
  BY <1>7 DEF Tick, rows, workers
<1>8. CASE UNCHANGED vars
  BY <1>8 DEF vars
<1>9. QED
  BY <1>1, <1>2, <1>3, <1>4, <1>5, <1>6, <1>7, <1>8 DEF Next, WorkerStep

(* Cancelling is final once no worker holds the row.                       *)
THEOREM CancelAlwaysHolds == Spec => CancelHolds
<1>1. TInv /\ [Next]_vars =>
        [\A s \in Schedules :
           status[s] = "cancelled" /\ (\A w \in Workers : ~Held(s, w))
             => status'[s] = "cancelled" /\ (\A w \in Workers : ~Held(s, w)')]_vars
  BY CancelStep
<1>2. QED
  BY <1>1, TypesHold, PTL DEF Spec, CancelHolds

-----------------------------------------------------------------------------
(* So does a row whose attempts are used up, one that is sent and one that *)
(* was left sending: listDue looks at the status and the attempts.         *)

LEMMA RestStep ==
  ASSUME TInv, [Next]_vars, NEW s \in Schedules, AtRest(s), \A w \in Workers : ~Held(s, w)
  PROVE  /\ status'[s] \in {status[s], "cancelled"} /\ attempts'[s] = attempts[s]
         /\ \A w \in Workers : ~Held(s, w)'
<1> DEFINE Goal == /\ status'[s] \in {status[s], "cancelled"} /\ attempts'[s] = attempts[s]
                   /\ \A w \in Workers : ~Held(s, w)'
<1> USE ConstantsAssumption DEF TInv, TypeOK, Held
<1>1. ASSUME NEW r \in Schedules, Create(r) \/ Cancel(r) PROVE Goal
  BY <1>1 DEF Create, Cancel, UpdateStatus, AtRest, workers
<1>2. ASSUME NEW w \in Workers, ListDue(w) PROVE Goal
  <2>1. ~Due(s)
    BY DEF Due, Retryable, AtRest
  <2> QED BY <1>2, <2>1 DEF ListDue, rows
<1>3. ASSUME NEW w \in Workers, MarkSending(w) PROVE Goal
  BY <1>3 DEF MarkSending, UpdateStatus
<1>4. ASSUME NEW w \in Workers,
             ApproveSucceeds(w) \/ ApproveThrows(w) \/ MarkSentThrows(w) \/ Crash(w)
      PROVE  Goal
  BY <1>4 DEF ApproveSucceeds, ApproveThrows, MarkSentThrows, Crash, rows
<1>5. ASSUME NEW w \in Workers, MarkSent(w) \/ MarkSentReturns(w) \/ MarkFailed(w) PROVE Goal
  BY <1>5 DEF MarkSent, MarkSentReturns, MarkFailed, UpdateStatus, NextRow, rows
<1>6. ASSUME NEW d \in Drafts, Review(d) \/ Drain(d) PROVE Goal
  BY <1>6 DEF Review, Drain, rows, workers
<1>7. ASSUME Tick PROVE Goal
  BY <1>7 DEF Tick, rows, workers
<1>8. CASE UNCHANGED vars
  BY <1>8 DEF vars, rows, workers
<1>9. QED
  BY <1>1, <1>2, <1>3, <1>4, <1>5, <1>6, <1>7, <1>8 DEF Next, WorkerStep

(* "... then remain failed": no worker picks up a row that is at rest,     *)
(* however many of them overlap.                                           *)
THEOREM RetriesAlwaysEnd == Spec => RetriesEnd
<1>1. TInv /\ [Next]_vars =>
        [\A s \in Schedules :
           AtRest(s) /\ (\A w \in Workers : ~Held(s, w))
             => /\ status'[s] \in {status[s], "cancelled"} /\ attempts'[s] = attempts[s]
                /\ \A w \in Workers : ~Held(s, w)']_vars
  BY RestStep
<1>2. QED
  BY <1>1, TypesHold, PTL DEF Spec, RetriesEnd

-----------------------------------------------------------------------------
(* Worker runs that do not overlap, one after another, each of which may   *)
(* die anywhere; and cancellations that come in time, of rows that are not *)
(* sent and that no run has in its snapshot.                               *)

Alone == \A v, w \in Workers : pc[v] # "idle" /\ pc[w] # "idle" => v = w

CancelInTime ==
  cancels' # cancels =>
    \A s \in Schedules :
      status'[s] # status[s] => status[s] # "sent" /\ \A w \in Workers : ~Held(s, w)

(* What a run alone knows of its rows: those it has not reached are as     *)
(* listDue saw them, and the one in hand is the one it marked.             *)
RunOK(w) ==
  /\ pc[w] = "idle" => todo[w] = {}
  /\ \A s \in todo[w] : status[s] \in Retryable /\ attempts[s] < MaxAttempts
  /\ pc[w] \in {"approve", "sent"} => status[cur[w]] = "sending"
  /\ pc[w] = "marked" => status[cur[w]] = "sent"
  /\ pc[w] = "failed" => status[cur[w]] \in {"sending", "sent"}

RInv == \A w \in Workers : RunOK(w)

(* The runs that are not under way hold nothing.                           *)
LEMMA OthersIdle ==
  ASSUME TInv, RInv, Alone, NEW w \in Workers, pc[w] # "idle", NEW v \in Workers, v # w
  PROVE  pc[v] = "idle" /\ todo[v] = {} /\ cur[v] = NoSchedule
  BY DEF Alone, RInv, RunOK, TInv

LEMMA OnlyRunSteps ==
  ASSUME TInv, RInv, Alone, NEW w \in Workers, pc[w] # "idle",
         \A v \in Workers : v # w => pc'[v] = pc[v] /\ todo'[v] = todo[v],
         RunOK(w)'
  PROVE  RInv'
<1> SUFFICES ASSUME NEW v \in Workers, v # w PROVE RunOK(v)'
  BY DEF RInv
<1>1. pc'[v] = "idle" /\ todo'[v] = {}
  BY OthersIdle
<1>2. QED
  BY <1>1 DEF RunOK

(* A worker that lets go of its row has marked it, and the row is in no    *)
(* snapshot.                                                               *)
LEMMA FinishRow ==
  ASSUME TInv, RInv, NEW w \in Workers, pc[w] \in {"marked", "failed"}, NextRow(w),
         UNCHANGED attempts,
         \A s \in Schedules : s # cur[w] => status'[s] = status[s]
  PROVE  RunOK(w)'
<1>1. status[cur[w]] \in {"sending", "sent"} /\ cur[w] \in Schedules
  BY DEF TInv, RInv, RunOK
<1>2. todo'[w] = todo[w] /\ cur[w] \notin todo[w]
  BY <1>1 DEF NextRow, RInv, RunOK, Retryable
<1>3. \A s \in todo[w] : status'[s] = status[s]
  BY <1>2 DEF TInv, TypeOK
<1>4. pc'[w] = IF todo[w] = {} THEN "idle" ELSE "mark"
  BY DEF NextRow, TInv, TypeOK
<1>5. QED
  BY <1>2, <1>3, <1>4 DEF RInv, RunOK

(* A cancellation in time takes no row away from a run.                    *)
LEMMA CancelChanges ==
  ASSUME TInv, [CancelInTime]_vars, NEW s \in Schedules, Cancel(s)
  PROVE  \/ status[s] = "cancelled"
         \/ status[s] \notin {"none", "sent"} /\ \A w \in Workers : ~Held(s, w)
<1>1. cancels' # cancels
  BY DEF Cancel, TInv, TypeOK
<1>2. CancelInTime
  BY <1>1 DEF vars
<1>3. status[s] # "none" /\ status'[s] = "cancelled"
  BY DEF Cancel, UpdateStatus, TInv, TypeOK
<1>4. QED
  BY <1>1, <1>2, <1>3 DEF CancelInTime

LEMMA RunStep == TInv /\ RInv /\ Alone /\ [CancelInTime]_vars /\ [Next]_vars => RInv'
<1> SUFFICES ASSUME TInv, RInv, Alone, [CancelInTime]_vars, [Next]_vars PROVE RInv'
  OBVIOUS
<1>1. ASSUME NEW s \in Schedules, Create(s) PROVE RInv'
  BY <1>1 DEF Create, TInv, TypeOK, RInv, RunOK, Retryable, workers
<1>2. ASSUME NEW s \in Schedules, Cancel(s) PROVE RInv'
  <2>1. /\ status' = [status EXCEPT ![s] = "cancelled"]
        /\ UNCHANGED <<attempts, workers>>
    BY <1>2 DEF Cancel, UpdateStatus
  <2>2. status[s] = "cancelled" \/ \A w \in Workers : ~Held(s, w)
    BY <1>2, CancelChanges
  <2>3. ASSUME NEW w \in Workers PROVE RunOK(w)'
    BY <2>1, <2>2 DEF workers, Held, RInv, RunOK, Retryable, TInv, TypeOK
  <2>4. QED
    BY <2>3 DEF RInv
<1>3. ASSUME NEW w \in Workers, ListDue(w) PROVE RInv'
  BY <1>3 DEF ListDue, Due, rows, TInv, TypeOK, RInv, RunOK
<1>4. ASSUME NEW w \in Workers, MarkSending(w) PROVE RInv'
  <2>1. PICK s \in todo[w] :
          /\ cur' = [cur EXCEPT ![w] = s]
          /\ todo' = [todo EXCEPT ![w] = @ \ {s}]
          /\ \/ /\ status[s] \in Retryable
                /\ UpdateStatus(s, "sending")
                /\ attempts' = [attempts EXCEPT ![s] = @ + 1]
             \/ status[s] \notin Retryable /\ UNCHANGED <<status, attempts>>
    BY <1>4 DEF MarkSending
  <2>2. /\ status' = [status EXCEPT ![s] = "sending"]
        /\ attempts' = [attempts EXCEPT ![s] = @ + 1]
        /\ pc[w] = "mark" /\ pc' = [pc EXCEPT ![w] = "approve"]
    BY <1>4, <2>1 DEF MarkSending, UpdateStatus, RInv, RunOK
  <2>3. RunOK(w)'
    BY <2>1, <2>2 DEF TInv, TypeOK, RInv, RunOK
  <2>4. QED
    BY <2>1, <2>2, <2>3, OnlyRunSteps DEF TInv, TypeOK
<1>5. ASSUME NEW w \in Workers, ApproveSucceeds(w) \/ ApproveThrows(w) \/ MarkSentThrows(w)
      PROVE  RInv'
  <2>1. /\ \/ pc[w] = "approve" /\ pc'[w] = "sent"
           \/ pc[w] \in {"approve", "sent", "marked"} /\ pc'[w] = "failed"
        /\ \A v \in Workers : v # w => pc'[v] = pc[v]
        /\ UNCHANGED <<rows, todo, cur>>
    BY <1>5 DEF ApproveSucceeds, ApproveThrows, MarkSentThrows, TInv, TypeOK
  <2>2. RunOK(w)'
    BY <2>1 DEF rows, RInv, RunOK
  <2>3. QED
    BY <2>1, <2>2, OnlyRunSteps
<1>6. ASSUME NEW w \in Workers, MarkSentReturns(w) \/ MarkFailed(w) PROVE RInv'
  <2>1. /\ pc[w] \in {"marked", "failed"}
        /\ NextRow(w) /\ UNCHANGED attempts
        /\ \A s \in Schedules : s # cur[w] => status'[s] = status[s]
    BY <1>6 DEF MarkSentReturns, MarkFailed, UpdateStatus, rows, TInv, TypeOK
  <2>2. RunOK(w)'
    BY <2>1, FinishRow
  <2>3. QED
    BY <2>1, <2>2, OnlyRunSteps DEF NextRow, TInv, TypeOK
<1>9. ASSUME NEW w \in Workers, MarkSent(w) PROVE RInv'
  <2>1. /\ pc[w] = "sent" /\ pc' = [pc EXCEPT ![w] = "marked"]
        /\ cur[w] \in Schedules /\ status[cur[w]] = "sending"
        /\ status' = [status EXCEPT ![cur[w]] = "sent"]
        /\ UNCHANGED <<attempts, todo, cur>>
    BY <1>9 DEF MarkSent, UpdateStatus, TInv, RInv, RunOK
  <2>2. cur[w] \notin todo[w]
    BY <2>1 DEF RInv, RunOK, Retryable
  <2>3. RunOK(w)'
    BY <2>1, <2>2 DEF TInv, TypeOK, RInv, RunOK
  <2>4. QED
    BY <2>1, <2>3, OnlyRunSteps DEF TInv, TypeOK
<1>7. ASSUME NEW w \in Workers, Crash(w) PROVE RInv'
  <2>1. RunOK(w)' /\ pc[w] # "idle"
    BY <1>7 DEF Crash, rows, TInv, TypeOK, RunOK
  <2>2. QED
    BY <1>7, <2>1, OnlyRunSteps DEF Crash, TInv, TypeOK
<1>8. ASSUME (\E d \in Drafts : Review(d) \/ Drain(d)) \/ Tick \/ UNCHANGED vars PROVE RInv'
  BY <1>8 DEF Review, Drain, Tick, rows, workers, vars, RInv, RunOK
<1>10. QED
  BY <1>1, <1>2, <1>3, <1>4, <1>5, <1>6, <1>7, <1>8, <1>9 DEF Next, WorkerStep

(* What SendLifecycle sees of a row depends on its status and on whether a *)
(* worker has it in hand.                                                  *)
LEMMA SameStatus ==
  ASSUME NEW s \in Schedules, status'[s] = status[s], InHand(s)' <=> InHand(s)
  PROVE  SettledStatus'[s] = SettledStatus[s]
  BY DEF SettledStatus

LEMMA SettledBecomes ==
  ASSUME TInv, TInv', NEW s \in Schedules, NEW new \in Statuses,
         SettledStatus'[s] = new,
         \A r \in Schedules : r # s => SettledStatus'[r] = SettledStatus[r]
  PROVE  SettledStatus' = [SettledStatus EXCEPT ![s] = new]
  BY DEF SettledStatus

(* Each statement of the service is a transition of PLAN.md's life cycle   *)
(* of a row, or leaves the row alone.                                      *)
LEMMA RowsStep ==
  ASSUME TInv, TInv', RInv, Alone, [CancelInTime]_vars, [Next]_vars
  PROVE  [Rows!Next]_(Rows!rowVars)
<1> DEFINE Goal == [Rows!Next]_(Rows!rowVars)
<1>0. ASSUME UNCHANGED <<status, attempts, cur>> PROVE Goal
  BY <1>0 DEF SettledStatus, InHand, Rows!rowVars
<1>1. ASSUME NEW s \in Schedules, Create(s) PROVE Goal
  <2>1. /\ status[s] = "none" /\ status' = [status EXCEPT ![s] = "pending"]
        /\ UNCHANGED <<attempts, cur>>
    BY <1>1 DEF Create, workers
  <2>2. /\ SettledStatus[s] = "none" /\ SettledStatus'[s] = "pending"
        /\ \A r \in Schedules : r # s => SettledStatus'[r] = SettledStatus[r]
    BY <2>1 DEF SettledStatus, InHand, TInv, TypeOK
  <2>3. Rows!Create(s)
    BY <2>1, <2>2, SettledBecomes DEF Rows!Create, Rows!Become, Statuses
  <2>4. QED
    BY <2>3 DEF Rows!Next
<1>2. ASSUME NEW s \in Schedules, Cancel(s) PROVE Goal
  <2>1. status' = [status EXCEPT ![s] = "cancelled"] /\ UNCHANGED <<attempts, cur>>
    BY <1>2 DEF Cancel, UpdateStatus, workers
  <2>2. CASE status[s] = "cancelled"
    BY <1>0, <2>1, <2>2 DEF TInv, TypeOK
  <2>3. CASE status[s] # "cancelled"
    <3>1. status[s] \in {"pending", "sending", "failed"}
      BY <1>2, <2>3, CancelChanges DEF TInv, TypeOK, Statuses
    <3>2. /\ SettledStatus[s] = status[s] /\ SettledStatus'[s] = "cancelled"
          /\ \A r \in Schedules : r # s => SettledStatus'[r] = SettledStatus[r]
      BY <2>1, <3>1 DEF SettledStatus, InHand, TInv, TypeOK
    <3>3. Rows!Cancel(s)
      BY <2>1, <3>1, <3>2, SettledBecomes DEF Rows!Cancel, Rows!Become, Statuses
    <3>4. QED
      BY <3>3 DEF Rows!Next
  <2>4. QED
    BY <2>2, <2>3
<1>3. ASSUME NEW w \in Workers, MarkSending(w) PROVE Goal
  <2>1. PICK s \in todo[w] :
          /\ cur' = [cur EXCEPT ![w] = s]
          /\ \/ /\ status[s] \in Retryable
                /\ UpdateStatus(s, "sending")
                /\ attempts' = [attempts EXCEPT ![s] = @ + 1]
             \/ status[s] \notin Retryable /\ UNCHANGED <<status, attempts>>
    BY <1>3 DEF MarkSending
  <2>2. /\ s \in Schedules
        /\ status[s] \in {"pending", "failed"} /\ attempts[s] < MaxAttempts
    BY DEF TInv, TypeOK, RInv, RunOK, Retryable
  <2>3. /\ status' = [status EXCEPT ![s] = "sending"]
        /\ attempts' = [attempts EXCEPT ![s] = @ + 1]
        /\ cur[w] = NoSchedule /\ cur \in [Workers -> Schedules \cup {NoSchedule}]
    BY <1>3, <2>1, <2>2 DEF MarkSending, UpdateStatus, Retryable, TInv, TypeOK
  <2>4. \A r \in Schedules : r # s => (InHand(r)' <=> InHand(r))
    BY <2>1, <2>3, ConstantsAssumption DEF InHand
  <2>5. \A r \in Schedules : r # s => SettledStatus'[r] = SettledStatus[r]
    BY <2>3, <2>4, SameStatus DEF TInv, TypeOK
  <2>6. SettledStatus[s] = status[s] /\ SettledStatus'[s] = "sending"
    BY <2>2, <2>3 DEF SettledStatus, TInv, TypeOK
  <2>7. Rows!Start(s)
    BY <2>2, <2>3, <2>5, <2>6, SettledBecomes DEF Rows!Start, Statuses
  <2>8. QED
    BY <2>2, <2>7 DEF Rows!Next
<1>4. ASSUME NEW w \in Workers, MarkSent(w) PROVE Goal
  <2>1. /\ cur[w] \in Schedules /\ status[cur[w]] = "sending"
        /\ status' = [status EXCEPT ![cur[w]] = "sent"]
        /\ UNCHANGED <<attempts, cur>>
    BY <1>4 DEF MarkSent, UpdateStatus, TInv, RInv, RunOK
  <2>2. SettledStatus' = SettledStatus
    BY <2>1 DEF SettledStatus, InHand, TInv, TypeOK
  <2>3. QED
    BY <2>1, <2>2 DEF Rows!rowVars
<1>5. ASSUME NEW w \in Workers, pc[w] \in {"approve", "sent", "marked", "failed"},
             cur' = [cur EXCEPT ![w] = NoSchedule], UNCHANGED attempts,
             NEW new \in {"sending", "sent", "failed"},
             status' = [status EXCEPT ![cur[w]] = new]
      PROVE  Goal
  <2>0. PICK s \in Schedules : s = cur[w]
    BY <1>5 DEF TInv
  <2>1. status[s] \in {"sending", "sent"}
    BY <1>5, <2>0 DEF TInv, RInv, RunOK
  <2>2. \A v \in Workers : v # w => cur[v] = NoSchedule
    BY <1>5, OthersIdle
  <2>3. ~InHand(s)' /\ InHand(s)
    BY <1>5, <2>0, <2>1, <2>2, ConstantsAssumption DEF InHand, TInv, TypeOK
  <2>4. \A r \in Schedules : r # s => (InHand(r)' <=> InHand(r))
    BY <1>5, <2>0, <2>1, <2>2, ConstantsAssumption DEF InHand, TInv, TypeOK
  <2>5. \A r \in Schedules : r # s => SettledStatus'[r] = SettledStatus[r]
    BY <1>5, <2>0, <2>4, SameStatus DEF TInv, TypeOK
  <2>6. SettledStatus[s] = "sending" /\ SettledStatus'[s] = new
    BY <1>5, <2>0, <2>1, <2>3 DEF SettledStatus, TInv, TypeOK
  <2>7. SettledStatus' = [SettledStatus EXCEPT ![s] = new]
    BY <2>5, <2>6, SettledBecomes DEF Statuses
  <2>8. CASE new = "sending"
    BY <1>5, <2>5, <2>6, <2>8 DEF Rows!rowVars, SettledStatus
  <2>9. CASE new # "sending"
    BY <1>5, <2>0, <2>1, <2>6, <2>7, <2>9 DEF Rows!Next, Rows!Finish, Rows!Become
  <2>10. QED
    BY <2>8, <2>9
<1>6. ASSUME NEW w \in Workers, MarkSentReturns(w) PROVE Goal
  <2>1. status[cur[w]] = "sent" /\ cur[w] \in Schedules /\ pc[w] = "marked"
    BY <1>6 DEF MarkSentReturns, TInv, RInv, RunOK
  <2>2. status' = [status EXCEPT ![cur[w]] = "sent"]
    BY <1>6, <2>1 DEF MarkSentReturns, rows, TInv, TypeOK
  <2>3. QED
    BY <1>5, <1>6, <2>1, <2>2 DEF MarkSentReturns, NextRow, rows
<1>7. ASSUME NEW w \in Workers, MarkFailed(w) PROVE Goal
  BY <1>5, <1>7 DEF MarkFailed, UpdateStatus, NextRow
<1>8. ASSUME NEW w \in Workers, Crash(w) PROVE Goal
  <2>1. pc[w] # "idle" /\ cur' = [cur EXCEPT ![w] = NoSchedule] /\ UNCHANGED <<status, attempts>>
    BY <1>8 DEF Crash, rows
  <2>2. CASE pc[w] = "mark"
    <3>1. cur' = cur
      BY <2>1, <2>2 DEF TInv, TypeOK
    <3>2. QED
      BY <1>0, <2>1, <3>1
  <2>3. CASE pc[w] # "mark"
    <3>1. pc[w] \in {"approve", "sent", "marked", "failed"}
      BY <2>1, <2>3 DEF TInv, TypeOK
    <3>2. /\ status[cur[w]] \in {"sending", "sent", "failed"}
          /\ status' = [status EXCEPT ![cur[w]] = status[cur[w]]]
      BY <2>1, <3>1 DEF TInv, TypeOK, RInv, RunOK
    <3>3. QED
      BY <1>5, <2>1, <3>1, <3>2
  <2>4. QED
    BY <2>2, <2>3
<1>9. ASSUME NEW w \in Workers,
             ListDue(w) \/ ApproveSucceeds(w) \/ ApproveThrows(w) \/ MarkSentThrows(w)
      PROVE  Goal
  BY <1>0, <1>9 DEF ListDue, ApproveSucceeds, ApproveThrows, MarkSentThrows, rows
<1>10. ASSUME (\E d \in Drafts : Review(d) \/ Drain(d)) \/ Tick \/ UNCHANGED vars PROVE Goal
  BY <1>0, <1>10 DEF Review, Drain, Tick, rows, workers, vars
<1>11. QED
  BY <1>1, <1>2, <1>3, <1>4, <1>6, <1>7, <1>8, <1>9, <1>10 DEF Next, WorkerStep

(* When worker runs do not overlap and cancellations come in time, every   *)
(* row goes pending, sending, sent, failed or cancelled, is started at     *)
(* most MaxAttempts times and, once its worker has let go of it, stays     *)
(* sent or cancelled, as PLAN.md says, whatever dies, whichever statement  *)
(* throws and whoever reviews the drafts.                                  *)
THEOREM SendLifecycleImplemented ==
  Spec /\ []Alone /\ [][CancelInTime]_vars => ImplementsSendLifecycle
<1>1. Init => RInv
  BY DEF Init, RInv, RunOK
<1>2. Init => Rows!Init
  BY DEF Init, Rows!Init, SettledStatus
<1>3. TInv /\ TInv' /\ RInv /\ Alone /\ [CancelInTime]_vars /\ [Next]_vars => [Rows!Next]_(Rows!rowVars)
  BY RowsStep
<1>4. QED
  BY <1>1, <1>2, <1>3, RunStep, TypesHold, PTL DEF Spec, ImplementsSendLifecycle, Rows!Spec

(* One worker and no cancellation at all, the instance that is checked.    *)
THEOREM OneWorkerImplements ==
  ASSUME \A v, w \in Workers : v = w, MaxCancels = 0
  PROVE  Spec => ImplementsSendLifecycle
<1>1. TInv => Alone
  BY DEF Alone
<1>2. TInv /\ TInv' => [CancelInTime]_vars
  BY DEF TInv, TypeOK, CancelInTime
<1>3. QED
  BY <1>1, <1>2, TypesHold, SendLifecycleImplemented, PTL
=============================================================================
