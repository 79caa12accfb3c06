--------------------------- MODULE Approvals_proofs ---------------------------
(***************************************************************************)
(* Proofs about the approvals view of AppShell, for any number of drafts,  *)
(* calls and refreshes and any bounds.  Its lists (ApprovalsFeed): the     *)
(* view does not stay on its spinner, and with everything done that a      *)
(* change has set off it shows what is there or has one of the excuses.    *)
(* Its buttons (ApprovalsActions): a draft gets one scheduled send, what   *)
(* is approved is what was shown, and an edit survives a call that fails.  *)
(***************************************************************************)
EXTENDS ApprovalsFeed, ApprovalsActions, FiniteSetTheorems, TLAPS

(* The refresh of the page load is one of the refreshes.                   *)
LEMMA FirstRefresh == First \in Refreshes
BY FeedAssumption DEF First

(* What a refresh can be.                                                  *)
RefreshRecords == [step : FeedSteps, quiet : BOOLEAN, names : BOOLEAN, got : States]

(* FeedTypeOK without the refreshes.                                       *)
RestTyped ==
  /\ file \in States /\ visible \in BOOLEAN /\ stream \in {"closed", "open", "lost"}
  /\ signature \in States /\ events \in Nat /\ shown \in States
  /\ failed \in BOOLEAN /\ loading \in BOOLEAN /\ excuses \subseteq Excuses
  /\ visits \in Nat /\ reloads \in Nat /\ faults \in Nat
RefreshesTyped == refresh \in [Refreshes -> RefreshRecords]

(* The two parts are the whole.                                            *)
LEMMA FeedParts == FeedTypeOK <=> RestTyped /\ RefreshesTyped
BY DEF FeedTypeOK, RestTyped, RefreshesTyped, RefreshRecords

(* States of the file and what is made of them.                            *)
LEMMA StateParts ==
  /\ \A s \in States : s.n \in Nat /\ s.there \in BOOLEAN
  /\ \A s \in States : [s EXCEPT !.there = FALSE] \in States
  /\ \A s \in States, n \in Nat : [s EXCEPT !.n = n] \in States
BY DEF States

(* A refresh that is not started, begins or goes on is a refresh.          *)
LEMMA RecordParts ==
  /\ NotStarted \in RefreshRecords
  /\ \A q \in BOOLEAN : [NotStarted EXCEPT !.step = "names", !.quiet = q] \in RefreshRecords
  /\ \A x \in RefreshRecords :
       /\ x.quiet \in BOOLEAN /\ x.got \in States /\ x.names \in BOOLEAN
       /\ \A s \in FeedSteps : [x EXCEPT !.step = s] \in RefreshRecords
       /\ \A s \in FeedSteps, g \in States : [x EXCEPT !.step = s, !.got = g] \in RefreshRecords
       /\ \A b \in BOOLEAN, g \in States :
            [x EXCEPT !.step = "files", !.names = b, !.got = g] \in RefreshRecords
<1>1. NotStarted \in RefreshRecords
  BY DEF NotStarted, RefreshRecords, FeedSteps, States
<1> QED
  BY <1>1 DEF RefreshRecords, FeedSteps

(* The page as it is opened is typed.                                      *)
LEMMA FeedTypeInit == FeedInit => FeedTypeOK
<1> SUFFICES ASSUME FeedInit PROVE RestTyped /\ RefreshesTyped
  BY FeedParts
<1>1. RefreshesTyped
  BY FirstRefresh, RecordParts DEF FeedInit, RefreshesTyped
<1> QED
  BY <1>1 DEF FeedInit, RestTyped, States, Excuses

-----------------------------------------------------------------------------
(* What an action does to the refreshes, element by element.               *)

Idle(r) == refresh'[r].step = "idle" /\ \A q \in Refreshes : q # r => refresh'[q] = refresh[q]
Keeps(r) ==
  /\ refresh'[r].quiet = refresh[r].quiet
  /\ \A q \in Refreshes : q # r => refresh'[q] = refresh[q]

(* refreshApprovals begins.                                                *)
LEMMA BeginEffect ==
  ASSUME FeedTypeOK, NEW r \in Refreshes, NEW quiet \in BOOLEAN, Begin(r, quiet)
  PROVE  /\ refresh[r].step = "idle" /\ refresh'[r].step = "names"
         /\ refresh'[r].quiet = quiet
         /\ \A q \in Refreshes : q # r => refresh'[q] = refresh[q]
         /\ RefreshesTyped' /\ failed' \in BOOLEAN /\ UNCHANGED shown
<1>1. refresh' = [refresh EXCEPT ![r] = [NotStarted EXCEPT !.step = "names", !.quiet = quiet]]
  BY DEF Begin
<1>2. [NotStarted EXCEPT !.step = "names", !.quiet = quiet] \in RefreshRecords
  BY RecordParts
<1>3. RefreshesTyped'
  BY <1>1, <1>2, FeedParts DEF RefreshesTyped
<1>4. /\ refresh'[r] = [NotStarted EXCEPT !.step = "names", !.quiet = quiet]
      /\ \A q \in Refreshes : q # r => refresh'[q] = refresh[q]
  BY <1>1 DEF FeedTypeOK
<1>5. refresh'[r].step = "names" /\ refresh'[r].quiet = quiet
  BY <1>4 DEF NotStarted
<1> QED
  BY <1>3, <1>4, <1>5 DEF Begin

(* It ends.                                                                *)
LEMMA SettleEffect ==
  ASSUME FeedTypeOK, NEW r \in Refreshes, Settle(r)
  PROVE  Idle(r) /\ RefreshesTyped'
<1>1. refresh' = [refresh EXCEPT ![r] = NotStarted] /\ NotStarted \in RefreshRecords
  BY RecordParts DEF Settle
<1>2. RefreshesTyped'
  BY <1>1, FeedParts DEF RefreshesTyped
<1> QED
  BY <1>1, <1>2 DEF FeedTypeOK, Idle, NotStarted

(* The listing has the names.                                              *)
LEMMA ReadNamesEffect ==
  ASSUME FeedTypeOK, NEW r \in Refreshes, ReadNames(r)
  PROVE  /\ refresh[r].step = "names" /\ refresh'[r].step = "files"
         /\ refresh'[r].names = file.there /\ refresh'[r].got.n = file.n
         /\ Keeps(r) /\ RefreshesTyped'
<1> DEFINE x == [refresh[r] EXCEPT !.step = "files", !.names = file.there,
                                   !.got = [refresh[r].got EXCEPT !.n = file.n]]
<1>1. refresh[r] \in RefreshRecords /\ refresh[r].got \in States /\ file \in States
  BY FeedParts, RecordParts DEF RefreshesTyped, RestTyped
<1>2. refresh' = [q \in Refreshes |-> IF q = r THEN x ELSE refresh[q]]
  BY <1>1 DEF ReadNames, FeedTypeOK, States
<1>3. x \in RefreshRecords
  BY <1>1, StateParts, RecordParts
<1>4. x.step = "files" /\ x.names = file.there /\ x.got.n = file.n /\ x.quiet = refresh[r].quiet
  BY <1>1 DEF RefreshRecords, States
<1> HIDE DEF x
<1>5. RefreshesTyped'
  BY <1>2, <1>3, FeedParts DEF RefreshesTyped
<1> QED
  BY <1>2, <1>4, <1>5 DEF ReadNames, Keeps

(* Only the step changes.                                                  *)
LEMMA StepEffect ==
  ASSUME FeedTypeOK, NEW r \in Refreshes, NEW s \in FeedSteps,
         refresh' = [refresh EXCEPT ![r].step = s]
  PROVE  Keeps(r) /\ RefreshesTyped' /\ refresh'[r].step = s /\ refresh'[r].got = refresh[r].got
<1> DEFINE x == [refresh[r] EXCEPT !.step = s]
<1>1. refresh[r] \in RefreshRecords
  BY FeedParts DEF RefreshesTyped
<1>2. refresh' = [q \in Refreshes |-> IF q = r THEN x ELSE refresh[q]]
  BY DEF FeedTypeOK
<1>3. x \in RefreshRecords
  BY <1>1, RecordParts
<1>4. x.step = s /\ x.got = refresh[r].got /\ x.quiet = refresh[r].quiet
  BY <1>1 DEF RefreshRecords
<1> HIDE DEF x
<1>5. RefreshesTyped'
  BY <1>2, <1>3, FeedParts DEF RefreshesTyped
<1> QED
  BY <1>2, <1>4, <1>5 DEF Keeps

(* It has the files, or one of them was gone.                              *)
LEMMA FilesEffect ==
  ASSUME FeedTypeOK, NEW r \in Refreshes, ReadFiles(r)
  PROVE  /\ refresh[r].step = "files" /\ Keeps(r) /\ RefreshesTyped'
         /\ \/ /\ ~refresh[r].names /\ refresh'[r].step = "answered"
               /\ refresh'[r].got.n = refresh[r].got.n /\ ~refresh'[r].got.there
            \/ /\ refresh[r].names /\ file.there /\ refresh'[r].step = "answered"
               /\ refresh'[r].got = file
            \/ /\ refresh[r].names /\ ~file.there /\ refresh'[r].step = "refused"
               /\ refresh'[r].got = refresh[r].got
<1>1. refresh[r] \in RefreshRecords /\ refresh[r].got \in States /\ file \in States
  BY FeedParts, RecordParts DEF RefreshesTyped, RestTyped
<1>2. ASSUME ~refresh[r].names,
             refresh' = [refresh EXCEPT ![r].step = "answered", ![r].got.there = FALSE]
      PROVE  /\ Keeps(r) /\ RefreshesTyped' /\ refresh'[r].step = "answered"
             /\ refresh'[r].got.n = refresh[r].got.n /\ ~refresh'[r].got.there
  <2> DEFINE x == [refresh[r] EXCEPT !.step = "answered", !.got = [refresh[r].got EXCEPT !.there = FALSE]]
  <2>1. refresh' = [q \in Refreshes |-> IF q = r THEN x ELSE refresh[q]]
    BY <1>1, <1>2 DEF FeedTypeOK, States
  <2>2. x \in RefreshRecords
    BY <1>1, StateParts, RecordParts DEF FeedSteps
  <2>3. x.step = "answered" /\ x.got.n = refresh[r].got.n /\ ~x.got.there /\ x.quiet = refresh[r].quiet
    BY <1>1 DEF RefreshRecords, States
  <2> HIDE DEF x
  <2>4. RefreshesTyped'
    BY <2>1, <2>2, FeedParts DEF RefreshesTyped
  <2> QED
    BY <2>1, <2>3, <2>4 DEF Keeps
<1>3. ASSUME refresh' = [refresh EXCEPT ![r].step = "answered", ![r].got = file]
      PROVE  Keeps(r) /\ RefreshesTyped' /\ refresh'[r].step = "answered" /\ refresh'[r].got = file
  <2> DEFINE x == [refresh[r] EXCEPT !.step = "answered", !.got = file]
  <2>1. refresh' = [q \in Refreshes |-> IF q = r THEN x ELSE refresh[q]]
    BY <1>3 DEF FeedTypeOK
  <2>2. x \in RefreshRecords
    BY <1>1, RecordParts DEF FeedSteps
  <2>3. x.step = "answered" /\ x.got = file /\ x.quiet = refresh[r].quiet
    BY <1>1 DEF RefreshRecords
  <2> HIDE DEF x
  <2>4. RefreshesTyped'
    BY <2>1, <2>2, FeedParts DEF RefreshesTyped
  <2> QED
    BY <2>1, <2>3, <2>4 DEF Keeps
<1>4. ASSUME refresh' = [refresh EXCEPT ![r].step = "refused"]
      PROVE  Keeps(r) /\ RefreshesTyped' /\ refresh'[r].step = "refused" /\ refresh'[r].got = refresh[r].got
  BY <1>4, StepEffect DEF FeedSteps
<1> QED
  BY <1>2, <1>3, <1>4 DEF ReadFiles

(* What it has read is typed.                                              *)
LEMMA FilesTyped ==
  ASSUME FeedTypeOK, NEW r \in Refreshes, ReadFiles(r)
  PROVE  refresh'[r].got.there \in BOOLEAN
<1>1. refresh'[r] \in RefreshRecords
  BY FilesEffect DEF RefreshesTyped
<1> QED
  BY <1>1 DEF RefreshRecords, States

(* It is lost.                                                             *)
LEMMA FaultEffect ==
  ASSUME FeedTypeOK, NEW r \in Refreshes, Fault(r)
  PROVE  /\ refresh[r].step \in {"names", "files"} /\ refresh'[r].step = "lost"
         /\ Keeps(r) /\ RefreshesTyped'
BY StepEffect DEF Fault, FeedSteps
-----------------------------------------------------------------------------
(* Every action keeps the types.                                           *)
LEMMA FeedTypeStep == FeedTypeOK /\ [FeedNext]_feedVars => FeedTypeOK'
<1> SUFFICES ASSUME FeedTypeOK, [FeedNext]_feedVars PROVE RestTyped' /\ RefreshesTyped'
  BY DEF FeedTypeOK, RestTyped, RefreshesTyped, RefreshRecords
<1> USE FeedParts, StateParts, FeedAssumption DEF RestTyped, connection, screen, spent
<1>1. CASE Change
  <2>1. file' \in States
    BY <1>1 DEF Change, States
  <2> QED
    BY <1>1, <2>1 DEF Change, RefreshesTyped
<1>2. CASE Connect
  BY <1>2 DEF Connect, Signature, RefreshesTyped, Excuses
<1>3. CASE Enter
  BY <1>3 DEF Enter, RefreshesTyped
<1>4. CASE Leave
  BY <1>4 DEF Leave, RefreshesTyped
<1>5. CASE Lose
  BY <1>5 DEF Lose, RefreshesTyped
<1>6. CASE Poll
  BY <1>6 DEF Poll, Signature, RefreshesTyped
<1>7. ASSUME NEW r \in Refreshes, OnEvent(r) PROVE RestTyped' /\ RefreshesTyped'
  <2>1. RefreshesTyped' /\ failed' \in BOOLEAN /\ UNCHANGED shown
    BY <1>7, BeginEffect DEF OnEvent
  <2>2. loading' \in BOOLEAN
    BY <1>7, Zenon DEF OnEvent, Begin
  <2> QED
    BY <1>7, <2>1, <2>2 DEF OnEvent
<1>8. ASSUME NEW r \in Refreshes, Reload(r) PROVE RestTyped' /\ RefreshesTyped'
  <2>1. RefreshesTyped' /\ failed' \in BOOLEAN /\ UNCHANGED shown
    BY <1>8, BeginEffect DEF Reload
  <2>2. loading' \in BOOLEAN
    BY <1>8, Zenon DEF Reload, Begin
  <2> QED
    BY <1>8, <2>1, <2>2 DEF Reload
<1>9. ASSUME NEW r \in Refreshes, ReadNames(r) PROVE RestTyped' /\ RefreshesTyped'
  BY <1>9, ReadNamesEffect DEF ReadNames
<1>10. ASSUME NEW r \in Refreshes, ReadFiles(r) PROVE RestTyped' /\ RefreshesTyped'
  BY <1>10, FilesEffect DEF ReadFiles
<1>11. ASSUME NEW r \in Refreshes, Land(r) PROVE RestTyped' /\ RefreshesTyped'
  <2>1. RefreshesTyped'
    BY <1>11, SettleEffect DEF Land
  <2>2. loading' \in BOOLEAN
    BY <1>11, Zenon DEF Land, Settle
  <2>3. shown' \in States
    BY <1>11, RecordParts DEF Land, RefreshesTyped
  <2>4. excuses' \subseteq Excuses
    BY <1>11 DEF Land, Excuses
  <2> QED
    BY <1>11, <2>1, <2>2, <2>3, <2>4 DEF Land
<1>12. ASSUME NEW r \in Refreshes, LandError(r) PROVE RestTyped' /\ RefreshesTyped'
  <2>1. RefreshesTyped'
    BY <1>12, SettleEffect DEF LandError
  <2>2. loading' \in BOOLEAN
    BY <1>12, Zenon DEF LandError, Settle
  <2>3. excuses' \subseteq Excuses
    BY <1>12 DEF LandError, Excuses
  <2> QED
    BY <1>12, <2>1, <2>2, <2>3 DEF LandError
<1>13. ASSUME NEW r \in Refreshes, Fault(r) PROVE RestTyped' /\ RefreshesTyped'
  <2>1. RefreshesTyped'
    BY <1>13, FaultEffect
  <2> QED
    BY <1>13, <2>1 DEF Fault
<1>14. CASE UNCHANGED feedVars
  BY <1>14 DEF feedVars, RefreshesTyped
<1> QED
  BY <1>1, <1>2, <1>3, <1>4, <1>5, <1>6, <1>7, <1>8, <1>9, <1>10, <1>11, <1>12, <1>13, <1>14
     DEF FeedNext

(* Folders, stream, refreshes and view keep their types.                   *)
THEOREM FeedTyped == FeedSpec => []FeedTypeOK
BY FeedTypeInit, FeedTypeStep, PTL DEF FeedSpec

-----------------------------------------------------------------------------
(* SpinnerEnds is inductive: who ends a refresh that hides the drafts      *)
(* shows them, and who ends a quiet one leaves the other to do so.         *)
LEMMA SpinnerStep == FeedTypeOK /\ SpinnerEnds /\ [FeedNext]_feedVars => SpinnerEnds'
<1> SUFFICES ASSUME FeedTypeOK, SpinnerEnds, [FeedNext]_feedVars, loading'
             PROVE  \E r \in Refreshes : refresh'[r].step # "idle" /\ ~refresh'[r].quiet
  BY DEF SpinnerEnds
<1> USE DEF SpinnerEnds, connection, screen, spent
<1>1. CASE UNCHANGED <<refresh, screen>>
  BY <1>1
<1>2. ASSUME NEW r \in Refreshes, OnEvent(r)
      PROVE  \E q \in Refreshes : refresh'[q].step # "idle" /\ ~refresh'[q].quiet
  <2>1. loading
    BY <1>2, Zenon DEF OnEvent, Begin
  <2> QED
    BY <1>2, <2>1, BeginEffect DEF OnEvent
<1>3. ASSUME NEW r \in Refreshes, Reload(r)
      PROVE  \E q \in Refreshes : refresh'[q].step # "idle" /\ ~refresh'[q].quiet
  <2>1. refresh'[r].step = "names" /\ refresh'[r].quiet = FALSE
    BY <1>3, BeginEffect DEF Reload
  <2> QED
    BY <2>1
<1>4. ASSUME NEW r \in Refreshes, ReadNames(r)
      PROVE  \E q \in Refreshes : refresh'[q].step # "idle" /\ ~refresh'[q].quiet
  BY <1>4, ReadNamesEffect DEF ReadNames, Keeps
<1>5. ASSUME NEW r \in Refreshes, ReadFiles(r)
      PROVE  \E q \in Refreshes : refresh'[q].step # "idle" /\ ~refresh'[q].quiet
  BY <1>5, FilesEffect DEF ReadFiles, Keeps
<1>6. ASSUME NEW r \in Refreshes, Settle(r)
      PROVE  \E q \in Refreshes : refresh'[q].step # "idle" /\ ~refresh'[q].quiet
  <2>1. loading /\ refresh[r].quiet
    BY <1>6, Zenon DEF Settle
  <2> QED
    BY <1>6, <2>1, SettleEffect DEF Idle
<1>7. ASSUME NEW r \in Refreshes, Fault(r)
      PROVE  \E q \in Refreshes : refresh'[q].step # "idle" /\ ~refresh'[q].quiet
  BY <1>7, FaultEffect DEF Fault, Keeps
<1> QED
  BY <1>1, <1>2, <1>3, <1>4, <1>5, <1>6, <1>7
     DEF FeedNext, feedVars, Change, Connect, Enter, Leave, Lose, Poll, Land, LandError

(* The drafts are hidden only while a refresh that hides them is under     *)
(* way, whatever overlaps and fails.                                       *)
THEOREM SpinnerAlwaysEnds == FeedSpec => []SpinnerEnds
<1>1. FeedInit => SpinnerEnds
  BY FirstRefresh DEF FeedInit, SpinnerEnds, NotStarted
<1> QED
  BY <1>1, FeedTypeInit, FeedTypeStep, SpinnerStep, PTL DEF FeedSpec

-----------------------------------------------------------------------------
(* What a refresh has read belongs to the state of the file it says.       *)
ReadsAreOfTheirAge ==
  /\ signature.n <= file.n
  /\ shown.n <= file.n
  /\ \A r \in Refreshes :
       /\ refresh[r].step \in {"files", "answered"} => refresh[r].got.n <= file.n
       /\ refresh[r].step = "files" /\ refresh[r].got.n = file.n => refresh[r].names = file.there
       /\ refresh[r].step = "answered" /\ refresh[r].got.n = file.n =>
            refresh[r].got.there = file.there
       /\ refresh[r].step = "refused" => refresh[r].got.n < file.n

(* A refresh under way will show the file as it is, or own up to its loss. *)
Pending(r) ==
  \/ refresh[r].step \in {"names", "lost"}
  \/ refresh[r].step \in {"files", "answered"} /\ refresh[r].got.n = file.n

(* Without an excuse a view that is not current has something coming: a    *)
(* change its stream has not told yet, an event, or a refresh; and an      *)
(* error is up only over a list that is older than the file.               *)
SomethingComes ==
  excuses = {} =>
    /\ shown.n = file.n => shown.there = file.there \/ \E r \in Refreshes : Pending(r)
    /\ stream = "open" =>
         \/ signature.n # file.n \/ events > 0
         \/ shown.n = file.n /\ shown.there = file.there
         \/ \E r \in Refreshes : Pending(r)
    /\ failed => shown.n # file.n

FeedInv == FeedTypeOK /\ ReadsAreOfTheirAge /\ SomethingComes

(* Every action keeps to the age of what it reads.                         *)
LEMMA AgeStep == FeedTypeOK /\ ReadsAreOfTheirAge /\ [FeedNext]_feedVars => ReadsAreOfTheirAge'
<1> SUFFICES ASSUME FeedTypeOK, ReadsAreOfTheirAge, [FeedNext]_feedVars PROVE ReadsAreOfTheirAge'
  OBVIOUS
<1>a. /\ file.n \in Nat /\ signature.n \in Nat /\ shown.n \in Nat
      /\ \A r \in Refreshes : refresh[r].got.n \in Nat
  BY FeedParts, StateParts, RecordParts DEF RestTyped, RefreshesTyped
<1> USE <1>a DEF ReadsAreOfTheirAge, connection, screen, spent
<1>1. CASE Change
  BY <1>1 DEF Change
<1>2. CASE Connect
  BY <1>2 DEF Connect, Signature
<1>3. CASE Poll
  BY <1>3 DEF Poll, Signature
<1>4. CASE UNCHANGED <<file, signature, refresh, shown>>
  BY <1>4
<1>5. ASSUME NEW r \in Refreshes, OnEvent(r) PROVE ReadsAreOfTheirAge'
  BY <1>5, BeginEffect DEF OnEvent
<1>6. ASSUME NEW r \in Refreshes, Reload(r) PROVE ReadsAreOfTheirAge'
  BY <1>6, BeginEffect DEF Reload
<1>7. ASSUME NEW r \in Refreshes, ReadNames(r) PROVE ReadsAreOfTheirAge'
  <2>1. UNCHANGED <<file, signature, shown>>
    BY <1>7 DEF ReadNames
  <2>2. refresh'[r].step = "files" /\ refresh'[r].names = file.there /\ refresh'[r].got.n = file.n
    BY <1>7, ReadNamesEffect
  <2>3. \A q \in Refreshes : q # r => refresh'[q] = refresh[q]
    BY <1>7, ReadNamesEffect DEF Keeps
  <2> QED
    BY <2>1, <2>2, <2>3
<1>8. ASSUME NEW r \in Refreshes, ReadFiles(r) PROVE ReadsAreOfTheirAge'
  <2>1. UNCHANGED <<file, signature, shown>>
    BY <1>8 DEF ReadFiles
  <2>2. /\ refresh'[r].step \in {"answered", "refused"}
        /\ refresh'[r].got.n <= file.n
        /\ refresh'[r].step = "answered" /\ refresh'[r].got.n = file.n =>
             refresh'[r].got.there = file.there
        /\ refresh'[r].step = "refused" => refresh'[r].got.n < file.n
    <3>1. refresh[r].step = "files" /\ file.there \in BOOLEAN
      BY <1>8, FilesEffect, FeedParts, StateParts DEF RestTyped
    <3>2. CASE /\ ~refresh[r].names /\ refresh'[r].step = "answered"
               /\ refresh'[r].got.n = refresh[r].got.n /\ ~refresh'[r].got.there
      <4>1. refresh'[r].got.there = FALSE
        BY <1>8, <3>2, FilesTyped
      <4>2. refresh[r].got.n = file.n => file.there = FALSE
        BY <3>1, <3>2
      <4> QED
        BY <3>1, <3>2, <4>1, <4>2
    <3>3. CASE refresh'[r].step = "answered" /\ refresh'[r].got = file
      BY <3>3
    <3>4. CASE /\ refresh[r].names /\ ~file.there
               /\ refresh'[r].step = "refused" /\ refresh'[r].got = refresh[r].got
      BY <3>1, <3>4
    <3> QED
      BY <1>8, <3>2, <3>3, <3>4, FilesEffect
  <2> QED
    BY <1>8, <2>1, <2>2, FilesEffect DEF Keeps
<1>9. ASSUME NEW r \in Refreshes, Land(r) PROVE ReadsAreOfTheirAge'
  BY <1>9, SettleEffect DEF Land, Idle
<1>10. ASSUME NEW r \in Refreshes, LandError(r) PROVE ReadsAreOfTheirAge'
  <2>1. shown'.n = shown.n
    BY <1>10, FeedParts DEF LandError, RestTyped, States
  <2> QED
    BY <1>10, <2>1, SettleEffect DEF LandError, Idle
<1>11. ASSUME NEW r \in Refreshes, Fault(r) PROVE ReadsAreOfTheirAge'
  BY <1>11, FaultEffect DEF Fault, Keeps
<1> QED
  BY <1>1, <1>2, <1>3, <1>4, <1>5, <1>6, <1>7, <1>8, <1>9, <1>10, <1>11
     DEF FeedNext, feedVars, Enter, Leave, Lose

(* What comes is consumed only by what shows it, or leaves an excuse.      *)
LEMMA ComesStep == FeedInv /\ [FeedNext]_feedVars => SomethingComes'
<1> SUFFICES ASSUME FeedInv, [FeedNext]_feedVars, excuses' = {}
             PROVE  /\ shown'.n = file'.n => shown'.there = file'.there \/ \E r \in Refreshes : Pending(r)'
                    /\ stream' = "open" =>
                         \/ signature'.n # file'.n \/ events' > 0
                         \/ shown'.n = file'.n /\ shown'.there = file'.there
                         \/ \E r \in Refreshes : Pending(r)'
                    /\ failed' => shown'.n # file'.n
  BY DEF SomethingComes
<1>a. /\ file.n \in Nat /\ signature.n \in Nat /\ shown.n \in Nat /\ events \in Nat
      /\ \A r \in Refreshes : refresh[r].got.n \in Nat
  BY FeedParts, StateParts, RecordParts DEF FeedInv, RestTyped, RefreshesTyped
<1>b. FeedTypeOK
  BY DEF FeedInv
<1> USE <1>a, <1>b DEF FeedInv, ReadsAreOfTheirAge, SomethingComes, connection, screen,
   spent, Pending
<1>1. CASE Change
  BY <1>1 DEF Change
<1>2. CASE Connect
  BY <1>2 DEF Connect, Signature
<1>3. CASE Poll
  BY <1>3 DEF Poll, Signature
<1>4. CASE Enter
  BY <1>4 DEF Enter
<1>5. CASE Leave \/ Lose
  BY <1>5 DEF Leave, Lose
<1>6. ASSUME NEW r \in Refreshes, OnEvent(r) PROVE Pending(r)' /\ ~failed'
  BY <1>6, BeginEffect DEF OnEvent, Begin
<1>7. ASSUME NEW r \in Refreshes, Reload(r) PROVE Pending(r)' /\ ~failed'
  BY <1>7, BeginEffect DEF Reload, Begin
<1>8. ASSUME NEW r \in Refreshes, ReadNames(r)
      PROVE  Pending(r)' /\ UNCHANGED <<failed, shown, file, excuses>>
  BY <1>8, ReadNamesEffect DEF ReadNames
<1>9. ASSUME NEW r \in Refreshes, Fault(r)
      PROVE  Pending(r)' /\ UNCHANGED <<failed, shown, file, excuses>>
  BY <1>9, FaultEffect DEF Fault
<1>10. ASSUME NEW r \in Refreshes, ReadFiles(r), NEW q \in Refreshes, Pending(q) PROVE Pending(q)'
  BY <1>10, FilesEffect DEF ReadFiles, Keeps
<1>11. ASSUME NEW r \in Refreshes, Land(r)
       PROVE  \/ shown'.n = file'.n /\ shown'.there = file'.there /\ ~failed'
              \/ /\ shown'.n # file'.n /\ ~(shown.n = file.n)
                 /\ \A q \in Refreshes : Pending(q) => Pending(q)'
                 /\ excuses = {} /\ UNCHANGED connection
  BY <1>11, SettleEffect DEF Land, Idle
<1>12. ASSUME NEW r \in Refreshes, LandError(r)
       PROVE  /\ shown.n # file.n /\ shown'.n = shown.n /\ UNCHANGED file
              /\ \A q \in Refreshes : Pending(q) => Pending(q)'
              /\ excuses = {} /\ UNCHANGED connection
  <2>1. shown'.n = shown.n
    BY <1>12, FeedParts DEF LandError, RestTyped, States
  <2>2. refresh[r].step = "refused" /\ refresh[r].got.n >= shown.n /\ excuses = {}
    BY <1>12 DEF LandError
  <2> QED
    BY <1>12, <2>1, <2>2, SettleEffect DEF LandError, Idle
<1>13. CASE UNCHANGED feedVars
  BY <1>13 DEF feedVars
<1>14. CASE \E r \in Refreshes : ReadFiles(r)
  BY <1>14, <1>10 DEF ReadFiles
<1>15. CASE \E r \in Refreshes : Land(r)
  BY <1>15, <1>11 DEF Land
<1>16. CASE \E r \in Refreshes : LandError(r)
  BY <1>16, <1>12 DEF LandError
<1> QED
  BY <1>1, <1>2, <1>3, <1>4, <1>5, <1>6, <1>7, <1>8, <1>9, <1>13, <1>14, <1>15, <1>16 DEF FeedNext

(* On a page just opened the first load is to come.                        *)
LEMMA FeedInvInit == FeedInit => FeedInv
<1> SUFFICES ASSUME FeedInit PROVE FeedInv
  OBVIOUS
<1>1. refresh[First].step = "names"
  BY FirstRefresh DEF FeedInit, NotStarted
<1>2. \A r \in Refreshes : refresh[r].step \in {"idle", "names"}
  BY DEF FeedInit, NotStarted
<1>3. signature.n = 0 /\ shown.n = 0 /\ file.n = 0 /\ ~failed
  BY DEF FeedInit
<1> QED
  BY <1>1, <1>2, <1>3, FirstRefresh, FeedTypeInit
     DEF FeedInv, ReadsAreOfTheirAge, SomethingComes, Pending

(* With the view open and everything done that a change has set off, the   *)
(* view shows what is there, and no error or spinner over it, or the       *)
(* change was missed by the stream, was overtaken by an older answer, a    *)
(* request was lost, or the list landed behind an error.                   *)
THEOREM ShownOrExcused == FeedSpec => []ShownWhenQuiescent
<1>1. FeedInv /\ SpinnerEnds => ShownWhenQuiescent
  BY DEF FeedInv, SomethingComes, Pending, ShownWhenQuiescent, Quiescent, Current, Signature,
         SpinnerEnds
<1>2. FeedInv /\ [FeedNext]_feedVars => FeedInv'
  BY FeedTypeStep, AgeStep, ComesStep DEF FeedInv
<1> QED
  BY <1>1, <1>2, FeedInvInit, SpinnerAlwaysEnds, PTL DEF FeedSpec


-----------------------------------------------------------------------------
(* What a reviewer does (ApprovalsActions).  The argument is about drafts  *)
(* that are not in doubt.                                                  *)
Free == Drafts \ doubted
Marked == Free \ unmarked

On(c) == calls[c].ask.draft
Kind(c) == calls[c].ask.kind
Under(c) == calls[c].step \in {"main", "reload", "land"}
Did(c) == (calls[c].step = "main" /\ calls[c].net = "ok") \/ calls[c].step \in {"reload", "land"}
Waits(c) == calls[c].step = "main" /\ calls[c].net = "sent"
Schedules(c) == calls[c].step = "replace" \/ Kind(c) = "schedule"

CallRecord ==
  [step : {"idle", "replace", "main", "reload", "land"}, net : {"sent", "ok", "refused"}, ask : Requests]
HoldRecord == [kind : {"approve", "reject", "save"}, draft : Some, saw : Nat]

CallsWhole ==
  \A c \in Calls :
    \/ calls[c] = NoCall
    \/ /\ calls[c].step # "idle" /\ On(c) \in Drafts
       /\ calls[c].step = "replace" => Kind(c) = "cancel"
OrphansDoubted == \A a \in orphans : a.draft \in doubted
HoldWhole == hold = NoHold \/ (hold.draft \in Drafts /\ hold.kind \in {"approve", "reject"})

(* A call whose view was left is on a draft in doubt; the other calls      *)
(* under way beside one on a draft are on the same draft.                  *)
LeftDoubted == \A c \in left : On(c) \in doubted
OnOne == \A c, e \in Calls : On(c) \in Free /\ e \notin left => On(e) \in {On(c), NoDraft}

(* One call at a time schedules a draft, and has it for its own.           *)
OneScheduler ==
  \A c \in Calls : On(c) \in Free /\ Schedules(c) =>
    scheduling = On(c) /\ \A e \in Calls : On(e) = On(c) /\ Schedules(e) => e = c

(* Rows that the view does not show of a draft it shows are those of a     *)
(* call that has not reloaded the lists yet; there is one row at most, and *)
(* none when another is created.                                           *)
RowsShown ==
  \A d \in Free :
    d \in view.here =>
      rows[d] \subseteq view.rows[d] \/ \E c \in Calls : On(c) = d /\ Kind(c) = "schedule" /\ Did(c)
FewRows ==
  \A d \in Free :
    (\A v, w \in rows[d] : v = w) /\ (d \in view.here => \A v, w \in view.rows[d] : v = w)
Room(c) ==
  /\ Kind(c) = "schedule" /\ Waits(c) => rows[On(c)] = {}
  /\ calls[c].step = "replace" => rows[On(c)] \subseteq {calls[c].ask.row}
  /\ calls[c].step = "replace" /\ calls[c].net = "ok" => rows[On(c)] = {}
RoomForRow == \A c \in Calls : On(c) \in Free => Room(c)

(* The draft of a call is busy once the old row is out of the way.         *)
BusyMarked == \A c \in Calls : On(c) \in Marked /\ Under(c) => busy = On(c)

(* A text that the view does not show is that of a save that has not       *)
(* reloaded the lists yet; no save is under way while an approval is held  *)
(* or sent, which therefore are about the text there is.                   *)
TextShown ==
  \A d \in Free :
    d \in view.here => view.text[d] = text[d] \/ \E c \in Calls : On(c) = d /\ Kind(c) = "save" /\ Did(c)
NotSaved(d) == \A c \in Calls : On(c) = d => Kind(c) # "save"
HoldShows ==
  \A d \in Marked :
    hold.draft = d /\ hold.kind = "approve" => hold.saw = text[d] /\ NotSaved(d)
ApproveShows ==
  \A d \in Marked, c \in Calls :
    On(c) = d /\ Kind(c) = "approve" => (Waits(c) => calls[c].ask.saw = text[d]) /\ NotSaved(d)

ActionsInv ==
  /\ ActionsTypeOK
  /\ CallsWhole /\ OrphansDoubted /\ LeftDoubted /\ HoldWhole
  /\ OnOne /\ OneScheduler /\ RowsShown /\ FewRows /\ RoomForRow
  /\ BusyMarked /\ TextShown /\ HoldShows /\ ApproveShows
  /\ ApprovedAsShown

LEMMA PlainRecords ==
  /\ NoCall \in CallRecord /\ NoCall.step = "idle" /\ NoCall.ask.draft = NoDraft /\ NoCall.ask.kind = "save"
  /\ NoHold \in HoldRecord /\ NoHold.draft = NoDraft
  /\ NoLists \in Lists /\ NoDraft \notin Drafts /\ NoRow \notin Rows
<1>1. NoCall \in CallRecord /\ NoCall.step = "idle"
  BY SMT DEF NoCall, CallRecord, Requests, Some
<1>2. NoCall.ask.draft = NoDraft /\ NoCall.ask.kind = "save"
  BY DEF NoCall
<1>3. NoHold \in HoldRecord /\ NoHold.draft = NoDraft
  BY SMT DEF NoHold, HoldRecord, Some
<1>4. NoLists \in Lists
  BY SMT DEF NoLists, Lists
<1> QED BY <1>1, <1>2, <1>3, <1>4, ActionsAssumption

LEMMA ActionsParts ==
  ASSUME ActionsInv
  PROVE  /\ stage \in [Drafts -> {"proposed", "queued", "rejected"}] /\ text \in [Drafts -> Nat]
         /\ queued \in [Drafts -> [text : Nat, saw : Nat]] /\ rows \in [Drafts -> SUBSET Rows]
         /\ view \in Lists /\ busy \in Some /\ editing \in Some /\ rejecting \in Some /\ scheduling \in Some
         /\ hidden \in BOOLEAN /\ hold \in HoldRecord /\ calls \in [Calls -> CallRecord]
         /\ got \in [Calls \cup Reloaders -> Lists] /\ reloading \subseteq Reloaders
         /\ orphans \subseteq Requests /\ left \subseteq Calls
         /\ doubted \subseteq Drafts /\ unmarked \subseteq Drafts /\ used \in Nat
BY DEF ActionsInv, ActionsTypeOK, HoldRecord, CallRecord

LEMMA CallsTyped ==
  ASSUME ActionsInv, NEW c \in Calls
  PROVE  /\ calls[c] \in CallRecord /\ calls[c].ask \in Requests /\ On(c) \in Some
         /\ calls[c].step # "idle" => On(c) \in Drafts
         /\ On(c) \in Drafts => calls[c].step # "idle"
<1>1. calls[c] \in CallRecord
  BY ActionsParts
<1>2. calls[c].ask \in Requests
  BY <1>1, SMT DEF CallRecord
<1>3. On(c) \in Some
  BY <1>2, SMT DEF On, Requests
<1> QED BY <1>1, <1>2, <1>3, PlainRecords DEF ActionsInv, CallsWhole, On

LEMMA InitEstablishesActions == ActionsInit => ActionsInv
<1> SUFFICES ASSUME ActionsInit PROVE ActionsInv
  OBVIOUS
<1>1. /\ stage \in [Drafts -> {"proposed", "rejected"}] /\ text \in [Drafts -> Nat]
      /\ rows \in [Drafts -> SUBSET Rows] /\ \A d \in Drafts : \A v, w \in rows[d] : v = w
      /\ queued \in [Drafts -> [text : Nat, saw : Nat]]
  BY SMT DEF ActionsInit
<1>2. calls \in [Calls -> CallRecord] /\ \A c \in Calls : calls[c] = NoCall
  BY PlainRecords DEF ActionsInit
<1>3. view \in Lists /\ view.text = text /\ view.rows = rows
  BY <1>1, SMT DEF ActionsInit, Lists
<1>4. ActionsTypeOK
  <2>1. /\ busy \in Some /\ editing \in Some /\ rejecting \in Some /\ scheduling \in Some
        /\ hidden \in BOOLEAN /\ hold \in HoldRecord
    BY PlainRecords DEF ActionsInit, Some
  <2>2. got \in [Calls \cup Reloaders -> Lists] /\ reloading \subseteq Reloaders
        /\ orphans \subseteq Requests /\ left \subseteq Calls
        /\ doubted \subseteq Drafts /\ unmarked \subseteq Drafts
    BY PlainRecords DEF ActionsInit
  <2>3. stage \in [Drafts -> {"proposed", "queued", "rejected"}] /\ used \in Nat
    BY <1>1, ActionsAssumption DEF ActionsInit
  <2> QED BY <1>1, <1>2, <1>3, <2>1, <2>2, <2>3 DEF ActionsTypeOK, HoldRecord, CallRecord
<1>5. CallsWhole /\ OrphansDoubted /\ LeftDoubted /\ HoldWhole
  BY <1>2 DEF ActionsInit, CallsWhole, OrphansDoubted, LeftDoubted, HoldWhole
<1>6. ASSUME NEW c \in Calls PROVE On(c) = NoDraft /\ On(c) \notin Drafts
  BY <1>2, PlainRecords DEF On
<1>7. OnOne /\ OneScheduler /\ RoomForRow /\ BusyMarked /\ ApproveShows
  BY <1>6 DEF OnOne, OneScheduler, RoomForRow, BusyMarked, ApproveShows, Free, Marked
<1>8. RowsShown /\ FewRows /\ TextShown
  BY <1>1, <1>3 DEF RowsShown, FewRows, TextShown, Free
<1>9. HoldShows
  BY PlainRecords DEF ActionsInit, HoldShows, Marked, Free
<1>10. ApprovedAsShown
  BY <1>1 DEF ApprovedAsShown
<1> QED BY <1>4, <1>5, <1>7, <1>8, <1>9, <1>10 DEF ActionsInv

(* Steps that leave the calls and the marks, and the server's drafts that  *)
(* are not in doubt: those of the view alone, of others, of requests given *)
(* up, and lists that land quietly.                                        *)
LEMMA ElsewhereKeeps ==
  ASSUME ActionsInv, ActionsTypeOK', UNCHANGED <<calls, left, busy, scheduling, unmarked>>,
         doubted \subseteq doubted',
         \A a \in orphans' : a \in orphans,
         \A d \in Free' : /\ stage'[d] = stage[d] /\ text'[d] = text[d]
                          /\ queued'[d] = queued[d] /\ rows'[d] = rows[d],
         \/ view' = view
         \/ \A d \in Free' : d \in view'.here => view'.text[d] = text[d] /\ view'.rows[d] = rows[d],
         HoldWhole', HoldShows'
  PROVE  ActionsInv'
<1> USE ActionsParts DEF ActionsInv
<1>1. Free' \subseteq Free /\ Marked' \subseteq Marked /\ Marked' \subseteq Free'
  BY DEF Free, Marked
<1>2. CallsWhole' /\ OrphansDoubted' /\ LeftDoubted'
  BY DEF CallsWhole, OrphansDoubted, LeftDoubted, On, Kind
<1>3. OnOne' /\ OneScheduler'
  BY <1>1 DEF OnOne, OneScheduler, On, Kind, Schedules
<1>4. RowsShown' /\ FewRows'
  BY <1>1 DEF RowsShown, FewRows, On, Kind, Did
<1>5. RoomForRow'
  BY <1>1 DEF RoomForRow, Room, On, Kind, Waits
<1>6. BusyMarked'
  BY <1>1 DEF BusyMarked, On, Under
<1>7. TextShown'
  BY <1>1 DEF TextShown, On, Kind, Did
<1>8. ApproveShows'
  BY <1>1 DEF ApproveShows, On, Kind, Waits, NotSaved
<1>9. ApprovedAsShown'
  BY <1>1 DEF ApprovedAsShown, Free
<1> QED BY <1>2, <1>3, <1>4, <1>5, <1>6, <1>7, <1>8, <1>9

LEMMA CallsChanged ==
  ASSUME ActionsInv, NEW c \in Calls, NEW x \in CallRecord, calls' = [calls EXCEPT ![c] = x]
  PROVE  /\ calls' \in [Calls -> CallRecord] /\ calls'[c] = x
         /\ \A e \in Calls : e # c => calls'[e] = calls[e]
BY ActionsParts

(* A call begins.                                                          *)
LEMMA BeginningKeeps ==
  ASSUME ActionsInv, ActionsTypeOK', NEW c \in Calls, NEW x \in CallRecord, NEW d \in Drafts,
         calls[c] = NoCall, calls' = [calls EXCEPT ![c] = x],
         x.ask.draft = d, x.net = "sent",
         \/ x.step = "main"
         \/ x.step = "replace" /\ x.ask.kind = "cancel" /\ x.ask.row \in view.rows[d],
         doubted \subseteq doubted',
         \A e \in Calls \ left : On(e) \notin {d, NoDraft} => d \in doubted' /\ On(e) \in doubted',
         UNCHANGED <<stage, text, queued, rows, view, orphans, left, unmarked>>,
         x.step = "main" => busy' = d,
         x.step = "replace" => busy' = busy,
         x.step = "replace" \/ x.ask.kind = "schedule" =>
           scheduling # d /\ scheduling' = d /\ d \in view.here,
         x.step # "replace" /\ x.ask.kind # "schedule" => scheduling' = scheduling,
         x.step = "main" /\ x.ask.kind = "schedule" => view.rows[d] = {},
         x.ask.kind = "approve" => hold.kind = "approve" /\ hold.draft = d /\ x.ask.saw = hold.saw,
         x.ask.kind = "save" => busy # d /\ hold = NoHold,
         hold' = hold \/ hold' = NoHold
  PROVE  ActionsInv'
<1> USE ActionsParts DEF ActionsInv
<1>1. /\ calls' \in [Calls -> CallRecord] /\ calls'[c] = x
      /\ \A e \in Calls : e # c => calls'[e] = calls[e]
  BY CallsChanged
<1>2. Free' \subseteq Free /\ Marked' \subseteq Marked /\ Marked' \subseteq Free' /\ Free' \subseteq Drafts
  BY DEF Free, Marked
<1>3. ASSUME NEW e \in Calls, e # c
      PROVE  /\ On(e)' = On(e) /\ Kind(e)' = Kind(e) /\ (Under(e)' <=> Under(e)) /\ (Did(e)' <=> Did(e))
             /\ (Waits(e)' <=> Waits(e)) /\ (Schedules(e)' <=> Schedules(e)) /\ calls'[e] = calls[e]
  BY <1>1, <1>3 DEF On, Kind, Under, Did, Waits, Schedules
<1>4. /\ On(c)' = d /\ Kind(c)' = x.ask.kind /\ (Under(c)' <=> x.step = "main") /\ ~Did(c)'
      /\ (Waits(c)' <=> x.step = "main") /\ (Schedules(c)' <=> x.step = "replace" \/ x.ask.kind = "schedule")
      /\ x.step # "idle"
  BY <1>1 DEF On, Kind, Under, Did, Waits, Schedules
<1>5. On(c) = NoDraft /\ On(c) \notin Drafts
  BY PlainRecords DEF On
<1>6. ASSUME NEW f \in Free', NEW e \in Calls, e # c, On(e) = f PROVE f = d
  BY <1>2, <1>6, PlainRecords DEF Free, LeftDoubted
<1>7. ASSUME d \in Free', NEW e \in Calls, e \notin left PROVE On(e)' \in {d, NoDraft}
  <2>1. On(e) \in {d, NoDraft}
    BY <1>7 DEF Free
  <2> QED BY <2>1, <1>3, <1>4
<1>8. CallsWhole' /\ OrphansDoubted' /\ LeftDoubted' /\ HoldWhole'
  <2>1. CallsWhole'
    <3> SUFFICES ASSUME NEW e \in Calls
                 PROVE  \/ calls'[e] = NoCall
                        \/ /\ calls'[e].step # "idle" /\ On(e)' \in Drafts
                           /\ calls'[e].step = "replace" => Kind(e)' = "cancel"
      BY DEF CallsWhole
    <3>1. CASE e = c
      BY <3>1, <1>1, <1>4
    <3>2. CASE e # c
      BY <3>2, <1>3 DEF CallsWhole
    <3> QED BY <3>1, <3>2
  <2>2. LeftDoubted'
    BY <1>3, <1>5 DEF LeftDoubted
  <2> QED BY <2>1, <2>2 DEF OrphansDoubted, HoldWhole
<1>9. OnOne'
  <2> SUFFICES ASSUME NEW a \in Calls, NEW e \in Calls, On(a)' \in Free', e \notin left
               PROVE  On(e)' \in {On(a)', NoDraft}
    BY DEF OnOne
  <2>1. On(a)' = d
    BY <1>3, <1>4, <1>6
  <2> QED BY <2>1, <1>7
<1>10. OneScheduler'
  <2> SUFFICES ASSUME NEW a \in Calls, On(a)' \in Free', Schedules(a)'
               PROVE  /\ scheduling' = On(a)'
                      /\ \A e \in Calls : On(e)' = On(a)' /\ Schedules(e)' => e = a
    BY DEF OneScheduler
  <2>1. On(a)' = d
    BY <1>3, <1>4, <1>6
  <2>2. ASSUME NEW e \in Calls, e # c, On(e) = d, Schedules(e)
        PROVE  scheduling = d /\ \A b \in Calls : On(b) = d /\ Schedules(b) => b = e
    BY <2>1, <2>2, <1>2 DEF OneScheduler
  <2>3. CASE a = c
    <3>1. scheduling # d /\ scheduling' = d
      BY <2>3, <1>4
    <3>2. \A e \in Calls : On(e)' = d /\ Schedules(e)' => e = c
      BY <2>2, <3>1, <1>3
    <3> QED BY <2>1, <2>3, <3>1, <3>2
  <2>4. CASE a # c
    <3>1. On(a) = d /\ Schedules(a)
      BY <2>1, <2>4, <1>3
    <3>2. scheduling = d /\ \A b \in Calls : On(b) = d /\ Schedules(b) => b = a
      BY <3>1, <2>2, <2>4
    <3>3. ~Schedules(c)'
      BY <3>2, <1>4
    <3>4. scheduling' = d
      BY <3>2, <3>3, <1>4
    <3> QED BY <2>1, <3>2, <3>3, <3>4, <1>3
  <2> QED BY <2>3, <2>4
<1>11. RowsShown'
  <2> SUFFICES ASSUME NEW f \in Free', f \in view.here
               PROVE  \/ rows[f] \subseteq view.rows[f]
                      \/ \E e \in Calls : On(e)' = f /\ Kind(e)' = "schedule" /\ Did(e)'
    BY DEF RowsShown
  <2>1. \/ rows[f] \subseteq view.rows[f]
        \/ \E e \in Calls : On(e) = f /\ Kind(e) = "schedule" /\ Did(e)
    BY <1>2 DEF RowsShown
  <2> QED BY <2>1, <1>2, <1>3, <1>5
<1>12. FewRows'
  BY <1>2 DEF FewRows
<1>13. RoomForRow'
  <2> SUFFICES ASSUME NEW a \in Calls, On(a)' \in Free' PROVE Room(a)'
    BY DEF RoomForRow
  <2>1. CASE a = c
    <3>1. d \in Free
      BY <2>1, <1>2, <1>4
    <3>2. ASSUME Schedules(c)' PROVE rows[d] \subseteq view.rows[d]
      <4>1. scheduling # d /\ d \in view.here
        BY <3>2, <1>4
      <4>2. \A e \in Calls : ~(On(e) = d /\ Schedules(e))
        BY <3>1, <4>1 DEF OneScheduler
      <4> QED BY <3>1, <4>1, <4>2 DEF RowsShown, Schedules
    <3>3. x.step = "main" /\ x.ask.kind = "schedule" => rows[d] = {}
      BY <3>2, <1>4
    <3>4. ASSUME x.step = "replace" PROVE rows[d] \subseteq {x.ask.row}
      BY <3>1, <3>2, <3>4, <1>4 DEF FewRows
    <3> QED BY <2>1, <3>3, <3>4, <1>1, <1>4 DEF Room
  <2>2. CASE a # c
    <3>1. Room(a)
      BY <2>2, <1>2, <1>3 DEF RoomForRow
    <3> QED BY <2>2, <3>1, <1>1 DEF Room, Kind, On, Waits
  <2> QED BY <2>1, <2>2
<1>14. BusyMarked'
  <2> SUFFICES ASSUME NEW a \in Calls, On(a)' \in Marked', Under(a)' PROVE busy' = On(a)'
    BY DEF BusyMarked
  <2>1. On(a)' = d
    BY <1>2, <1>3, <1>4, <1>6
  <2>2. CASE a = c
    BY <2>1, <2>2, <1>4
  <2>3. CASE a # c
    <3>1. busy = d
      BY <2>1, <2>3, <1>2, <1>3 DEF BusyMarked
    <3> QED BY <2>1, <3>1
  <2> QED BY <2>2, <2>3
<1>15. TextShown'
  <2> SUFFICES ASSUME NEW f \in Free', f \in view.here
               PROVE  \/ view.text[f] = text[f]
                      \/ \E e \in Calls : On(e)' = f /\ Kind(e)' = "save" /\ Did(e)'
    BY DEF TextShown
  <2>1. \/ view.text[f] = text[f]
        \/ \E e \in Calls : On(e) = f /\ Kind(e) = "save" /\ Did(e)
    BY <1>2 DEF TextShown
  <2> QED BY <2>1, <1>2, <1>3, <1>5
<1>16. ASSUME NEW f \in Marked', NotSaved(f), f = d => x.ask.kind # "save" PROVE NotSaved(f)'
  BY <1>3, <1>4, <1>16 DEF NotSaved
<1>17. HoldShows'
  <2> SUFFICES ASSUME NEW f \in Marked', hold'.draft = f, hold'.kind = "approve"
               PROVE  hold'.saw = text[f] /\ NotSaved(f)'
    BY DEF HoldShows
  <2>1. hold' = hold /\ hold # NoHold
    BY <1>2, PlainRecords
  <2>2. hold.saw = text[f] /\ NotSaved(f)
    BY <2>1, <1>2 DEF HoldShows
  <2>3. NotSaved(f)'
    BY <2>1, <2>2, <1>16
  <2> QED BY <2>1, <2>2, <2>3
<1>18. ApproveShows'
  <2> SUFFICES ASSUME NEW f \in Marked', NEW a \in Calls, On(a)' = f, Kind(a)' = "approve"
               PROVE  (Waits(a)' => calls'[a].ask.saw = text[f]) /\ NotSaved(f)'
    BY DEF ApproveShows
  <2>1. f = d
    BY <1>2, <1>3, <1>4, <1>6
  <2>2. CASE a = c
    <3>1. hold.kind = "approve" /\ hold.draft = d /\ x.ask.saw = hold.saw /\ x.ask.kind = "approve"
      BY <2>2, <1>4
    <3>2. hold.saw = text[d] /\ NotSaved(d)
      BY <2>1, <3>1, <1>2 DEF HoldShows
    <3>3. NotSaved(f)'
      BY <2>1, <3>1, <3>2, <1>16
    <3> QED BY <2>1, <2>2, <3>1, <3>2, <3>3, <1>1
  <2>3. CASE a # c
    <3>1. On(a) = d /\ Kind(a) = "approve" /\ d \in Marked
      BY <2>1, <2>3, <1>2, <1>3
    <3>2. (Waits(a) => calls[a].ask.saw = text[d]) /\ NotSaved(d)
      BY <3>1 DEF ApproveShows
    <3>3. x.ask.kind # "save"
      <4>1. calls[a].step # "idle" /\ calls[a].step # "replace"
        BY <3>1, PlainRecords DEF CallsWhole, On, Kind
      <4>2. calls[a].step \in {"idle", "replace", "main", "reload", "land"}
        BY CallsTyped, SMT DEF CallRecord
      <4>3. Under(a)
        BY <4>1, <4>2 DEF Under
      <4>4. busy = d
        BY <3>1, <4>3 DEF BusyMarked
      <4> QED BY <4>4
    <3>4. NotSaved(f)'
      BY <2>1, <3>2, <3>3, <1>16
    <3> QED BY <2>1, <2>3, <3>2, <3>4, <1>3
  <2> QED BY <2>2, <2>3
<1>19. ApprovedAsShown'
  BY DEF ApprovedAsShown
<1> QED BY <1>8, <1>9, <1>10, <1>11, <1>12, <1>13, <1>14, <1>15, <1>17, <1>18, <1>19

LEMMA CallKept ==
  ASSUME NEW e \in Calls, calls'[e] = calls[e]
  PROVE  /\ On(e)' = On(e) /\ Kind(e)' = Kind(e) /\ (Under(e)' <=> Under(e)) /\ (Did(e)' <=> Did(e))
         /\ (Waits(e)' <=> Waits(e)) /\ (Schedules(e)' <=> Schedules(e))
BY DEF On, Kind, Under, Did, Waits, Schedules

LEMMA FewerFree ==
  ASSUME doubted \subseteq doubted', unmarked \subseteq unmarked'
  PROVE  /\ Free' \subseteq Free /\ Marked' \subseteq Marked
         /\ Marked' \subseteq Free' /\ Free' \subseteq Drafts
BY DEF Free, Marked

CallRowsDone(c, d) ==
  \/ Kind(c) = "schedule" /\ \E w \in Rows : rows'[d] = rows[d] \cup {w}
  \/ Kind(c) = "cancel" /\ rows'[d] = rows[d] \ {calls[c].ask.row}
  \/ Kind(c) \notin {"schedule", "cancel"} /\ rows'[d] = rows[d]

(* A request is executed while its call waits.                             *)
LEMMA ExecutedKeeps ==
  ASSUME ActionsInv, ActionsTypeOK', NEW c \in Calls, NEW d \in Drafts, On(c) = d,
         calls[c].step \in {"replace", "main"}, calls[c].net = "sent",
         calls'[c].step = calls[c].step, calls'[c].ask = calls[c].ask, calls'[c].net = "ok",
         \A e \in Calls : e # c => calls'[e] = calls[e],
         UNCHANGED <<view, busy, scheduling, hold, orphans, left, doubted, unmarked>>,
         \A f \in Drafts : f # d => /\ stage'[f] = stage[f] /\ text'[f] = text[f]
                                    /\ queued'[f] = queued[f] /\ rows'[f] = rows[f],
         Kind(c) # "save" => text'[d] = text[d],
         stage'[d] = "queued" =>
           \/ stage[d] = "queued" /\ queued'[d] = queued[d]
           \/ Kind(c) = "approve" /\ queued'[d].text = text[d] /\ queued'[d].saw = calls[c].ask.saw,
         CallRowsDone(c, d)
  PROVE  ActionsInv'
<1> USE ActionsParts DEF ActionsInv, CallRowsDone
<1>1. Free' = Free /\ Marked' = Marked /\ Marked \subseteq Free /\ Free \subseteq Drafts
  BY DEF Free, Marked
<1>2. ASSUME NEW e \in Calls, e # c
      PROVE  /\ On(e)' = On(e) /\ Kind(e)' = Kind(e) /\ (Under(e)' <=> Under(e)) /\ (Did(e)' <=> Did(e))
             /\ (Waits(e)' <=> Waits(e)) /\ (Schedules(e)' <=> Schedules(e)) /\ calls'[e] = calls[e]
  BY <1>2, CallKept
<1>3. /\ On(c)' = d /\ Kind(c)' = Kind(c) /\ (Under(c)' <=> Under(c)) /\ ~Did(c) /\ ~Waits(c)'
      /\ (calls[c].step = "main" => Did(c)') /\ (Schedules(c)' <=> Schedules(c))
  BY DEF On, Kind, Under, Did, Waits, Schedules
<1>4. calls[c].step = "replace" => Kind(c) = "cancel"
  BY PlainRecords DEF CallsWhole
<1>5. Kind(c) \in {"schedule", "save"} => calls[c].step = "main" /\ Did(c)'
  BY <1>3, <1>4
<1>6. ASSUME NEW e \in Calls PROVE Did(e) => Did(e)'
  BY <1>2, <1>3
<1>7. ASSUME NEW e \in Calls PROVE On(e)' = On(e) /\ Kind(e)' = Kind(e) /\ (Schedules(e)' <=> Schedules(e))
  BY <1>2, <1>3
<1>8. CallsWhole' /\ OrphansDoubted' /\ LeftDoubted' /\ HoldWhole'
  <2>1. CallsWhole'
    <3> SUFFICES ASSUME NEW e \in Calls
                 PROVE  \/ calls'[e] = NoCall
                        \/ /\ calls'[e].step # "idle" /\ On(e)' \in Drafts
                           /\ calls'[e].step = "replace" => Kind(e)' = "cancel"
      BY DEF CallsWhole
    <3>1. CASE e = c
      BY <3>1, <1>3, <1>4
    <3>2. CASE e # c
      BY <3>2, <1>2 DEF CallsWhole
    <3> QED BY <3>1, <3>2
  <2> QED BY <2>1, <1>7 DEF OrphansDoubted, LeftDoubted, HoldWhole
<1>9. OnOne' /\ OneScheduler'
  BY <1>1, <1>7 DEF OnOne, OneScheduler
<1>10. RowsShown'
  <2> SUFFICES ASSUME NEW f \in Free, f \in view.here
               PROVE  \/ rows'[f] \subseteq view.rows[f]
                      \/ \E e \in Calls : On(e)' = f /\ Kind(e)' = "schedule" /\ Did(e)'
    BY <1>1 DEF RowsShown
  <2>1. \/ rows[f] \subseteq view.rows[f]
        \/ \E e \in Calls : On(e) = f /\ Kind(e) = "schedule" /\ Did(e)
    BY DEF RowsShown
  <2>2. CASE f # d \/ Kind(c) # "schedule"
    <3>1. rows'[f] \subseteq rows[f]
      BY <2>2, <1>1
    <3> QED BY <3>1, <2>1, <1>6, <1>7
  <2>3. CASE f = d /\ Kind(c) = "schedule"
    BY <2>3, <1>3, <1>5
  <2> QED BY <2>2, <2>3
<1>11. ASSUME d \in Free, Kind(c) = "schedule" PROVE rows[d] = {}
  BY <1>11, <1>5 DEF RoomForRow, Room, Waits
<1>12. FewRows'
  <2> SUFFICES ASSUME NEW f \in Free PROVE \A v, w \in rows'[f] : v = w
    BY <1>1 DEF FewRows
  <2>1. CASE f # d \/ Kind(c) # "schedule"
    <3>1. rows'[f] \subseteq rows[f]
      BY <2>1, <1>1
    <3> QED BY <3>1 DEF FewRows
  <2>2. CASE f = d /\ Kind(c) = "schedule"
    BY <2>2, <1>11
  <2> QED BY <2>1, <2>2
<1>13. RoomForRow'
  <2> SUFFICES ASSUME NEW a \in Calls, On(a) \in Free PROVE Room(a)'
    BY <1>1, <1>7 DEF RoomForRow
  <2>1. Room(a)
    BY DEF RoomForRow
  <2> PICK f \in Free : f = On(a)
    OBVIOUS
  <2>2. CASE a = c
    <3>1. ~Waits(a)'
      BY <2>2, <1>3
    <3>2. calls[c].step = "replace" => rows'[d] = {}
      BY <2>1, <2>2, <1>4 DEF Room
    <3> QED BY <2>2, <3>1, <3>2, <1>3 DEF Room
  <2>3. CASE a # c /\ (f # d \/ Kind(c) # "schedule")
    <3>1. rows'[f] \subseteq rows[f]
      BY <2>3, <1>1
    <3> QED BY <2>1, <2>3, <3>1, <1>2 DEF Room
  <2>4. CASE a # c /\ f = d /\ Kind(c) = "schedule"
    <3>1. ~Schedules(a)
      BY <2>4 DEF OneScheduler, Schedules
    <3> QED BY <2>4, <3>1, <1>2 DEF Room, Schedules
  <2> QED BY <2>2, <2>3, <2>4
<1>14. BusyMarked'
  BY <1>1, <1>2, <1>3 DEF BusyMarked
<1>15. TextShown'
  <2> SUFFICES ASSUME NEW f \in Free, f \in view.here
               PROVE  \/ view.text[f] = text'[f]
                      \/ \E e \in Calls : On(e)' = f /\ Kind(e)' = "save" /\ Did(e)'
    BY <1>1 DEF TextShown
  <2>1. \/ view.text[f] = text[f]
        \/ \E e \in Calls : On(e) = f /\ Kind(e) = "save" /\ Did(e)
    BY DEF TextShown
  <2>2. CASE f # d \/ Kind(c) # "save"
    <3>1. text'[f] = text[f]
      BY <2>2, <1>1
    <3> QED BY <3>1, <2>1, <1>6, <1>7
  <2>3. CASE f = d /\ Kind(c) = "save"
    BY <2>3, <1>3, <1>5
  <2> QED BY <2>2, <2>3
<1>16. ASSUME NEW f \in Marked, NotSaved(f) PROVE NotSaved(f)' /\ text'[f] = text[f]
  <2>1. f = d => Kind(c) # "save"
    BY <1>16 DEF NotSaved
  <2> QED BY <2>1, <1>1, <1>7, <1>16 DEF NotSaved
<1>17. HoldShows'
  <2> SUFFICES ASSUME NEW f \in Marked, hold.draft = f, hold.kind = "approve"
               PROVE  hold.saw = text'[f] /\ NotSaved(f)'
    BY <1>1 DEF HoldShows
  <2>1. hold.saw = text[f] /\ NotSaved(f)
    BY DEF HoldShows
  <2> QED BY <2>1, <1>16
<1>18. ApproveShows'
  <2> SUFFICES ASSUME NEW f \in Marked, NEW a \in Calls, On(a) = f, Kind(a) = "approve"
               PROVE  (Waits(a)' => calls'[a].ask.saw = text'[f]) /\ NotSaved(f)'
    BY <1>1, <1>7 DEF ApproveShows
  <2>1. (Waits(a) => calls[a].ask.saw = text[f]) /\ NotSaved(f)
    BY DEF ApproveShows
  <2>2. NotSaved(f)' /\ text'[f] = text[f]
    BY <2>1, <1>16
  <2> QED BY <2>1, <2>2, <1>2, <1>3
<1>19. ApprovedAsShown'
  <2> SUFFICES ASSUME NEW f \in Marked, stage'[f] = "queued" PROVE queued'[f].text = queued'[f].saw
    BY <1>1 DEF ApprovedAsShown, Marked, Free
  <2>1. stage[f] = "queued" => queued[f].text = queued[f].saw
    BY DEF ApprovedAsShown, Marked, Free
  <2>2. Kind(c) = "approve" /\ f = d => calls[c].ask.saw = text[d]
    BY <1>4 DEF ApproveShows, Waits
  <2>3. CASE f # d
    BY <2>1, <2>3, <1>1
  <2>4. CASE f = d
    BY <2>1, <2>2, <2>4
  <2> QED BY <2>3, <2>4
<1> QED BY <1>8, <1>9, <1>10, <1>12, <1>13, <1>14, <1>15, <1>17, <1>18, <1>19

(* A request is refused or given up.                                       *)
LEMMA GivenUpKeeps ==
  ASSUME ActionsInv, ActionsTypeOK', NEW c \in Calls, NEW d \in Drafts, On(c) = d,
         calls[c].step \in {"replace", "main"},
         calls'[c].step = calls[c].step, calls'[c].ask = calls[c].ask, calls'[c].net = "refused",
         \A e \in Calls : e # c => calls'[e] = calls[e],
         doubted \subseteq doubted', calls[c].net # "sent" => d \in doubted',
         \A a \in orphans' : a \in orphans \/ a.draft \in doubted',
         UNCHANGED <<stage, text, queued, rows, view, left, busy, scheduling, hold, unmarked>>
  PROVE  ActionsInv'
<1> USE ActionsParts DEF ActionsInv
<1>1. /\ Free' \subseteq Free /\ Marked' \subseteq Marked
      /\ Marked' \subseteq Free' /\ Free' \subseteq Drafts
  BY FewerFree
<1>2. ASSUME NEW e \in Calls, e # c
      PROVE  /\ On(e)' = On(e) /\ Kind(e)' = Kind(e) /\ (Under(e)' <=> Under(e)) /\ (Did(e)' <=> Did(e))
             /\ (Waits(e)' <=> Waits(e)) /\ (Schedules(e)' <=> Schedules(e)) /\ calls'[e] = calls[e]
  BY <1>2, CallKept
<1>3. /\ On(c)' = d /\ Kind(c)' = Kind(c) /\ (Under(c)' <=> Under(c)) /\ ~Waits(c)'
      /\ (Did(c) => calls[c].net = "ok") /\ (Schedules(c)' <=> Schedules(c))
  BY DEF On, Kind, Under, Did, Waits, Schedules
<1>4. calls[c].step = "replace" => Kind(c) = "cancel"
  BY PlainRecords DEF CallsWhole
<1>5. ASSUME NEW f \in Free', NEW e \in Calls, On(e) = f PROVE Did(e) => Did(e)'
  BY <1>2, <1>3, <1>5 DEF Free
<1>6. ASSUME NEW e \in Calls
      PROVE  /\ On(e)' = On(e) /\ Kind(e)' = Kind(e) /\ (Schedules(e)' <=> Schedules(e))
             /\ (Under(e)' <=> Under(e)) /\ (Waits(e)' => Waits(e)) /\ calls'[e].ask = calls[e].ask
  BY <1>2, <1>3
<1>7. CallsWhole' /\ OrphansDoubted' /\ LeftDoubted' /\ HoldWhole'
  <2>1. CallsWhole'
    <3> SUFFICES ASSUME NEW e \in Calls
                 PROVE  \/ calls'[e] = NoCall
                        \/ /\ calls'[e].step # "idle" /\ On(e)' \in Drafts
                           /\ calls'[e].step = "replace" => Kind(e)' = "cancel"
      BY DEF CallsWhole
    <3>1. CASE e = c
      BY <3>1, <1>3, <1>4
    <3>2. CASE e # c
      BY <3>2, <1>2 DEF CallsWhole
    <3> QED BY <3>1, <3>2
  <2> QED BY <2>1, <1>6 DEF OrphansDoubted, LeftDoubted, HoldWhole
<1>8. OnOne' /\ OneScheduler'
  BY <1>1, <1>6 DEF OnOne, OneScheduler
<1>9. RowsShown' /\ TextShown'
  BY <1>1, <1>5, <1>6 DEF RowsShown, TextShown
<1>10. FewRows'
  BY <1>1 DEF FewRows
<1>11. RoomForRow'
  <2> SUFFICES ASSUME NEW a \in Calls, On(a) \in Free' PROVE Room(a)'
    BY <1>6 DEF RoomForRow
  <2>1. Room(a)
    BY <1>1 DEF RoomForRow
  <2>2. CASE a = c
    BY <2>1, <2>2, <1>3 DEF Room
  <2>3. CASE a # c
    BY <2>1, <2>3, <1>2 DEF Room
  <2> QED BY <2>2, <2>3
<1>12. BusyMarked'
  BY <1>1, <1>6 DEF BusyMarked
<1>13. HoldShows' /\ ApproveShows'
  BY <1>1, <1>6 DEF HoldShows, ApproveShows, NotSaved
<1>14. ApprovedAsShown'
  BY <1>1 DEF ApprovedAsShown, Marked, Free
<1> QED BY <1>7, <1>8, <1>9, <1>10, <1>11, <1>12, <1>13, <1>14

(* The old row is out of the way, and the new one is asked for.            *)
LEMMA ReplacedKeeps ==
  ASSUME ActionsInv, ActionsTypeOK', NEW c \in Calls, NEW d \in Drafts, On(c) = d,
         calls[c].step = "replace", calls[c].net = "ok",
         calls'[c].step = "main", calls'[c].net = "sent", On(c)' = d, Kind(c)' = "schedule",
         \A e \in Calls : e # c => calls'[e] = calls[e],
         busy' = IF c \in left THEN busy ELSE d,
         UNCHANGED <<stage, text, queued, rows, view, scheduling, hold, orphans, left, doubted, unmarked>>
  PROVE  ActionsInv'
<1> USE ActionsParts DEF ActionsInv
<1>1. Free' = Free /\ Marked' = Marked /\ Marked \subseteq Free /\ Free \subseteq Drafts
  BY DEF Free, Marked
<1>2. ASSUME NEW e \in Calls, e # c
      PROVE  /\ On(e)' = On(e) /\ Kind(e)' = Kind(e) /\ (Under(e)' <=> Under(e)) /\ (Did(e)' <=> Did(e))
             /\ (Waits(e)' <=> Waits(e)) /\ (Schedules(e)' <=> Schedules(e)) /\ calls'[e] = calls[e]
  BY <1>2, CallKept
<1>3. Kind(c) = "cancel" /\ Schedules(c) /\ Schedules(c)' /\ ~Did(c)
  BY PlainRecords DEF CallsWhole, Schedules, Did
<1>4. ASSUME NEW e \in Calls
      PROVE  On(e)' = On(e) /\ (Schedules(e)' <=> Schedules(e)) /\ (Did(e) => Did(e)' /\ Kind(e)' = Kind(e))
  BY <1>2, <1>3
<1>5. CallsWhole' /\ OrphansDoubted' /\ LeftDoubted' /\ HoldWhole'
  <2>1. CallsWhole'
    <3> SUFFICES ASSUME NEW e \in Calls
                 PROVE  \/ calls'[e] = NoCall
                        \/ /\ calls'[e].step # "idle" /\ On(e)' \in Drafts
                           /\ calls'[e].step = "replace" => Kind(e)' = "cancel"
      BY DEF CallsWhole
    <3>1. CASE e = c
      BY <3>1
    <3>2. CASE e # c
      BY <3>2, <1>2 DEF CallsWhole
    <3> QED BY <3>1, <3>2
  <2> QED BY <2>1, <1>4 DEF OrphansDoubted, LeftDoubted, HoldWhole
<1>6. OnOne' /\ OneScheduler'
  BY <1>1, <1>4 DEF OnOne, OneScheduler
<1>7. RowsShown' /\ TextShown'
  BY <1>1, <1>4 DEF RowsShown, TextShown
<1>8. FewRows'
  BY <1>1 DEF FewRows
<1>9. RoomForRow'
  <2> SUFFICES ASSUME NEW a \in Calls, On(a) \in Free PROVE Room(a)'
    BY <1>1, <1>4 DEF RoomForRow
  <2>1. Room(a)
    BY DEF RoomForRow
  <2>2. CASE a = c
    BY <2>1, <2>2 DEF Room
  <2>3. CASE a # c
    BY <2>1, <2>3, <1>2 DEF Room
  <2> QED BY <2>2, <2>3
<1>10. BusyMarked'
  <2> SUFFICES ASSUME NEW a \in Calls, On(a) \in Marked, Under(a)' PROVE busy' = On(a)
    BY <1>1, <1>4 DEF BusyMarked
  <2>1. CASE c \notin left
    <3>1. d \in {On(a), NoDraft}
      BY <2>1, <1>1 DEF OnOne
    <3> QED BY <2>1, <3>1, PlainRecords
  <2>2. CASE c \in left
    <3>1. a # c
      BY <2>2, <1>1 DEF LeftDoubted, Free
    <3> QED BY <2>2, <3>1, <1>1, <1>2 DEF BusyMarked
  <2> QED BY <2>1, <2>2
<1>11. ASSUME NEW f \in Marked, NotSaved(f) PROVE NotSaved(f)'
  BY <1>2, <1>11 DEF NotSaved
<1>12. HoldShows'
  BY <1>1, <1>11 DEF HoldShows
<1>13. ApproveShows'
  BY <1>1, <1>2, <1>11 DEF ApproveShows
<1>14. ApprovedAsShown'
  BY DEF ApprovedAsShown
<1> QED BY <1>5, <1>6, <1>7, <1>8, <1>9, <1>10, <1>12, <1>13, <1>14

(* A call that went well goes on to reload the lists.                      *)
LEMMA OnwardKeeps ==
  ASSUME ActionsInv, ActionsTypeOK', NEW c \in Calls, Did(c),
         calls'[c].step \in {"reload", "land"}, calls'[c].ask = calls[c].ask,
         \A e \in Calls : e # c => calls'[e] = calls[e],
         hold' = hold \/ hold' = NoHold,
         UNCHANGED <<stage, text, queued, rows, view, busy, scheduling, orphans, left, doubted, unmarked>>
  PROVE  ActionsInv'
<1> USE ActionsParts DEF ActionsInv
<1>1. Free' = Free /\ Marked' = Marked /\ Marked \subseteq Free /\ Free \subseteq Drafts
  BY DEF Free, Marked
<1>2. ASSUME NEW e \in Calls, e # c
      PROVE  /\ On(e)' = On(e) /\ Kind(e)' = Kind(e) /\ (Under(e)' <=> Under(e)) /\ (Did(e)' <=> Did(e))
             /\ (Waits(e)' <=> Waits(e)) /\ (Schedules(e)' <=> Schedules(e)) /\ calls'[e] = calls[e]
  BY <1>2, CallKept
<1>3. /\ On(c)' = On(c) /\ Kind(c)' = Kind(c) /\ Under(c) /\ Did(c)' /\ ~Waits(c)'
      /\ (Schedules(c)' <=> Schedules(c)) /\ On(c) \in Drafts /\ calls'[c].step \notin {"idle", "replace"}
  <2>1. calls[c].step \in {"main", "reload", "land"}
    BY DEF Did
  <2>2. On(c) \in Drafts
    BY <2>1, CallsTyped
  <2> QED BY <2>1, <2>2 DEF On, Kind, Under, Did, Waits, Schedules
<1>4. ASSUME NEW e \in Calls
      PROVE  /\ On(e)' = On(e) /\ Kind(e)' = Kind(e) /\ (Schedules(e)' <=> Schedules(e))
             /\ (Under(e)' => Under(e)) /\ (Did(e) => Did(e)') /\ (Waits(e)' => Waits(e))
             /\ calls'[e].ask = calls[e].ask
  BY <1>2, <1>3
<1>5. CallsWhole' /\ OrphansDoubted' /\ LeftDoubted' /\ HoldWhole'
  <2>1. CallsWhole'
    <3> SUFFICES ASSUME NEW e \in Calls
                 PROVE  \/ calls'[e] = NoCall
                        \/ /\ calls'[e].step # "idle" /\ On(e)' \in Drafts
                           /\ calls'[e].step = "replace" => Kind(e)' = "cancel"
      BY DEF CallsWhole
    <3>1. CASE e = c
      BY <3>1, <1>3
    <3>2. CASE e # c
      BY <3>2, <1>2 DEF CallsWhole
    <3> QED BY <3>1, <3>2
  <2> QED BY <2>1, <1>4 DEF OrphansDoubted, LeftDoubted, HoldWhole
<1>6. OnOne' /\ OneScheduler'
  BY <1>1, <1>4 DEF OnOne, OneScheduler
<1>7. RowsShown' /\ TextShown'
  BY <1>1, <1>4 DEF RowsShown, TextShown
<1>8. FewRows'
  BY <1>1 DEF FewRows
<1>9. RoomForRow'
  <2> SUFFICES ASSUME NEW a \in Calls, On(a) \in Free PROVE Room(a)'
    BY <1>1, <1>4 DEF RoomForRow
  <2>1. Room(a)
    BY DEF RoomForRow
  <2>2. CASE a = c
    BY <2>2, <1>3 DEF Room
  <2>3. CASE a # c
    BY <2>1, <2>3, <1>2 DEF Room
  <2> QED BY <2>2, <2>3
<1>10. BusyMarked'
  BY <1>1, <1>4 DEF BusyMarked
<1>11. HoldShows'
  <2> SUFFICES ASSUME NEW f \in Marked, hold'.draft = f, hold'.kind = "approve"
               PROVE  hold'.saw = text[f] /\ NotSaved(f)'
    BY <1>1 DEF HoldShows
  <2>1. hold' = hold
    BY <1>1, PlainRecords
  <2> QED BY <2>1, <1>4 DEF HoldShows, NotSaved
<1>12. ApproveShows'
  BY <1>1, <1>4 DEF ApproveShows, NotSaved
<1>13. ApprovedAsShown'
  BY DEF ApprovedAsShown
<1> QED BY <1>5, <1>6, <1>7, <1>8, <1>9, <1>10, <1>11, <1>12, <1>13

(* A call ends: it failed, or its lists land, which are those the server   *)
(* has where no draft is in doubt.                                         *)
LEMMA EndedKeeps ==
  ASSUME ActionsInv, ActionsTypeOK', NEW c \in Calls, On(c) \in Drafts, calls'[c] = NoCall,
         \A e \in Calls : e # c => calls'[e] = calls[e],
         doubted \subseteq doubted', unmarked \subseteq unmarked',
         left' = left \ {c},
         \/ busy' = busy
         \/ \A e \in Calls \ left : e # c => On(e) \in unmarked' \cup {NoDraft},
         scheduling' = IF Schedules(c) /\ c \notin left THEN NoDraft ELSE scheduling,
         \/ view' = view /\ ~Did(c)
         \/ \A d \in Free' : d \in view'.here => view'.text[d] = text[d] /\ view'.rows[d] = rows[d],
         hold' = hold \/ hold' = NoHold,
         UNCHANGED <<stage, text, queued, rows, orphans>>
  PROVE  ActionsInv'
<1> USE ActionsParts DEF ActionsInv
<1>1. /\ Free' \subseteq Free /\ Marked' \subseteq Marked
      /\ Marked' \subseteq Free' /\ Free' \subseteq Drafts
  BY FewerFree
<1>2. ASSUME NEW e \in Calls, e # c
      PROVE  /\ On(e)' = On(e) /\ Kind(e)' = Kind(e) /\ (Under(e)' <=> Under(e)) /\ (Did(e)' <=> Did(e))
             /\ (Waits(e)' <=> Waits(e)) /\ (Schedules(e)' <=> Schedules(e)) /\ calls'[e] = calls[e]
  BY <1>2, CallKept
<1>3. On(c)' = NoDraft /\ On(c)' \notin Drafts
  BY PlainRecords DEF On
<1>4. ASSUME NEW e \in Calls, On(e)' \in Drafts PROVE e # c
  BY <1>3, <1>4
<1>5. CallsWhole' /\ OrphansDoubted' /\ LeftDoubted' /\ HoldWhole'
  <2>1. CallsWhole'
    <3> SUFFICES ASSUME NEW e \in Calls
                 PROVE  \/ calls'[e] = NoCall
                        \/ /\ calls'[e].step # "idle" /\ On(e)' \in Drafts
                           /\ calls'[e].step = "replace" => Kind(e)' = "cancel"
      BY DEF CallsWhole
    <3>1. CASE e = c
      BY <3>1
    <3>2. CASE e # c
      BY <3>2, <1>2 DEF CallsWhole
    <3> QED BY <3>1, <3>2
  <2>2. LeftDoubted'
    BY <1>2 DEF LeftDoubted
  <2> QED BY <2>1, <2>2 DEF OrphansDoubted, HoldWhole
<1>6. OnOne'
  <2> SUFFICES ASSUME NEW f \in Free', NEW a \in Calls, NEW e \in Calls, On(a)' = f, e \notin left'
               PROVE  On(e)' \in {f, NoDraft}
    BY DEF OnOne
  <2>1. e # c => On(e) \in {f, NoDraft}
    BY <1>1, <1>2, <1>4 DEF OnOne
  <2> QED BY <2>1, <1>2, <1>3
<1>7. OneScheduler'
  <2> SUFFICES ASSUME NEW f \in Free', NEW a \in Calls, On(a)' = f, Schedules(a)'
               PROVE  scheduling' = f /\ \A e \in Calls : On(e)' = f /\ Schedules(e)' => e = a
    BY DEF OneScheduler
  <2>1. a # c /\ On(a) = f /\ Schedules(a)
    BY <1>1, <1>2, <1>4
  <2>2. scheduling = f /\ \A e \in Calls : On(e) = f /\ Schedules(e) => e = a
    BY <2>1, <1>1 DEF OneScheduler
  <2>3. c \notin left => On(c) = f
    BY <2>1, <1>1, PlainRecords DEF OnOne
  <2>4. c \in left \/ ~Schedules(c)
    BY <2>1, <2>2, <2>3
  <2> QED BY <2>2, <2>4, <1>1, <1>2, <1>4
<1>8. RowsShown'
  <2> SUFFICES ASSUME NEW f \in Free', f \in view'.here
               PROVE  \/ rows[f] \subseteq view'.rows[f]
                      \/ \E e \in Calls : On(e)' = f /\ Kind(e)' = "schedule" /\ Did(e)'
    BY DEF RowsShown
  <2>1. CASE view' = view /\ ~Did(c)
    <3>1. \/ rows[f] \subseteq view.rows[f]
          \/ \E e \in Calls : On(e) = f /\ Kind(e) = "schedule" /\ Did(e)
      BY <2>1, <1>1 DEF RowsShown
    <3> QED BY <2>1, <3>1, <1>2
  <2>2. CASE view'.rows[f] = rows[f]
    BY <2>2
  <2> QED BY <2>1, <2>2
<1>9. FewRows'
  BY <1>1 DEF FewRows
<1>10. RoomForRow'
  <2> SUFFICES ASSUME NEW f \in Free', NEW a \in Calls, On(a)' = f PROVE Room(a)'
    BY DEF RoomForRow
  <2>1. a # c /\ On(a) = f
    BY <1>1, <1>2, <1>4
  <2>2. Room(a)
    BY <2>1, <1>1 DEF RoomForRow
  <2> QED BY <2>1, <2>2, <1>2 DEF Room
<1>11. BusyMarked'
  <2> SUFFICES ASSUME NEW f \in Marked', NEW a \in Calls, On(a)' = f, Under(a)' PROVE busy' = f
    BY DEF BusyMarked
  <2>1. a # c /\ On(a) = f /\ Under(a)
    BY <1>1, <1>2, <1>4
  <2>2. f \notin unmarked' \cup {NoDraft} /\ a \notin left
    BY <2>1, <1>1, PlainRecords DEF Marked, Free, LeftDoubted
  <2>3. busy' = busy
    BY <2>1, <2>2
  <2> QED BY <2>1, <2>3, <1>1 DEF BusyMarked
<1>12. TextShown'
  <2> SUFFICES ASSUME NEW f \in Free', f \in view'.here
               PROVE  \/ view'.text[f] = text[f]
                      \/ \E e \in Calls : On(e)' = f /\ Kind(e)' = "save" /\ Did(e)'
    BY DEF TextShown
  <2>1. CASE view' = view /\ ~Did(c)
    <3>1. \/ view.text[f] = text[f]
          \/ \E e \in Calls : On(e) = f /\ Kind(e) = "save" /\ Did(e)
      BY <2>1, <1>1 DEF TextShown
    <3> QED BY <2>1, <3>1, <1>2
  <2>2. CASE view'.text[f] = text[f]
    BY <2>2
  <2> QED BY <2>1, <2>2
<1>13. ASSUME NEW f \in Marked', NotSaved(f) PROVE NotSaved(f)'
  BY <1>1, <1>2, <1>4, <1>13 DEF NotSaved
<1>14. HoldShows'
  <2> SUFFICES ASSUME NEW f \in Marked', hold'.draft = f, hold'.kind = "approve"
               PROVE  hold'.saw = text[f] /\ NotSaved(f)'
    BY DEF HoldShows
  <2>1. hold' = hold
    BY <1>1, PlainRecords
  <2>2. hold.saw = text[f] /\ NotSaved(f)
    BY <2>1, <1>1 DEF HoldShows
  <2> QED BY <2>1, <2>2, <1>13
<1>15. ApproveShows'
  <2> SUFFICES ASSUME NEW f \in Marked', NEW a \in Calls, On(a)' = f, Kind(a)' = "approve"
               PROVE  (Waits(a)' => calls'[a].ask.saw = text[f]) /\ NotSaved(f)'
    BY DEF ApproveShows
  <2>1. a # c /\ On(a) = f /\ Kind(a) = "approve"
    BY <1>1, <1>2, <1>4
  <2>2. (Waits(a) => calls[a].ask.saw = text[f]) /\ NotSaved(f)
    BY <2>1, <1>1 DEF ApproveShows
  <2> QED BY <2>1, <2>2, <1>2, <1>13
<1>16. ApprovedAsShown'
  BY <1>1 DEF ApprovedAsShown, Marked, Free
<1> QED BY <1>5, <1>6, <1>7, <1>8, <1>9, <1>10, <1>11, <1>12, <1>14, <1>15, <1>16

(* The view is left, and with it every mark.                               *)
LEMMA DepartureKeeps ==
  ASSUME ActionsInv, ActionsTypeOK', UNCHANGED <<stage, text, queued, rows, view, calls, orphans, unmarked>>,
         hold' = NoHold, doubted \subseteq doubted',
         \A c \in Calls : On(c) \in doubted' \cup {NoDraft},
         \A c \in left' : On(c) \in doubted'
  PROVE  ActionsInv'
<1> USE ActionsParts DEF ActionsInv
<1>1. Free' \subseteq Free /\ Marked' \subseteq Free' /\ Free' \subseteq Drafts
  BY DEF Free, Marked
<1>2. ASSUME NEW c \in Calls PROVE On(c)' = On(c) /\ On(c)' \notin Free'
  BY PlainRecords DEF On, Free
<1>3. CallsWhole' /\ OrphansDoubted' /\ LeftDoubted' /\ HoldWhole'
  BY DEF CallsWhole, OrphansDoubted, LeftDoubted, HoldWhole, On, Kind
<1>4. OnOne' /\ OneScheduler' /\ RoomForRow' /\ BusyMarked' /\ ApproveShows'
  BY <1>1, <1>2 DEF OnOne, OneScheduler, RoomForRow, BusyMarked, ApproveShows
<1>5. RowsShown' /\ FewRows' /\ TextShown'
  BY <1>1, <1>2 DEF RowsShown, FewRows, TextShown
<1>6. HoldShows'
  BY <1>1, PlainRecords DEF HoldShows
<1>7. ApprovedAsShown'
  BY DEF ApprovedAsShown
<1> QED BY <1>3, <1>4, <1>5, <1>6, <1>7

LEMMA HoldStays ==
  ASSUME ActionsInv, hold' = hold \/ hold' = NoHold, calls' = calls, Marked' \subseteq Marked,
         \A f \in Marked' : text'[f] = text[f]
  PROVE  hold' \in HoldRecord /\ HoldWhole' /\ HoldShows'
<1> USE ActionsParts DEF ActionsInv
<1>1. hold' \in HoldRecord /\ HoldWhole'
  BY PlainRecords DEF HoldWhole
<1>2. HoldShows'
  <2> SUFFICES ASSUME NEW f \in Marked', hold'.draft = f, hold'.kind = "approve"
               PROVE  hold'.saw = text'[f] /\ NotSaved(f)'
    BY DEF HoldShows
  <2>1. hold' = hold
    BY PlainRecords DEF Marked, Free
  <2> QED BY <2>1 DEF HoldShows, NotSaved, On, Kind
<1> QED BY <1>1, <1>2

LEMMA ListsNowTyped == ActionsInv => ListsNow \in Lists
BY ActionsParts, SMT DEF ListsNow, Lists

(* What a record of a call is after one field or another is set.           *)
LEMMA NetSet ==
  ASSUME ActionsInv, NEW c \in Calls, NEW n \in {"sent", "ok", "refused"},
         calls' = [calls EXCEPT ![c].net = n]
  PROVE  /\ calls' \in [Calls -> CallRecord] /\ calls'[c].step = calls[c].step
         /\ calls'[c].ask = calls[c].ask /\ calls'[c].net = n
         /\ \A e \in Calls : e # c => calls'[e] = calls[e]
<1> DEFINE y == [calls[c] EXCEPT !.net = n]
<1>1. calls[c] \in CallRecord
  BY ActionsParts
<1>2. y \in CallRecord /\ y.step = calls[c].step /\ y.ask = calls[c].ask /\ y.net = n
  BY <1>1, SMT DEF CallRecord
<1>3. calls' = [calls EXCEPT ![c] = y]
  OBVIOUS
<1> HIDE DEF y
<1>4. PICK x \in CallRecord : x = y
  BY <1>2
<1> QED BY <1>2, <1>3, <1>4, CallsChanged

LEMMA StepSet ==
  ASSUME ActionsInv, NEW c \in Calls, NEW s \in {"idle", "replace", "main", "reload", "land"},
         calls' = [calls EXCEPT ![c].step = s]
  PROVE  /\ calls' \in [Calls -> CallRecord] /\ calls'[c].step = s
         /\ calls'[c].ask = calls[c].ask /\ calls'[c].net = calls[c].net
         /\ \A e \in Calls : e # c => calls'[e] = calls[e]
<1> DEFINE y == [calls[c] EXCEPT !.step = s]
<1>1. calls[c] \in CallRecord
  BY ActionsParts
<1>2. y \in CallRecord /\ y.net = calls[c].net /\ y.ask = calls[c].ask /\ y.step = s
  BY <1>1, SMT DEF CallRecord
<1>3. calls' = [calls EXCEPT ![c] = y]
  OBVIOUS
<1> HIDE DEF y
<1>4. PICK x \in CallRecord : x = y
  BY <1>2
<1> QED BY <1>2, <1>3, <1>4, CallsChanged

LEMMA AskSet ==
  ASSUME ActionsInv, NEW c \in Calls,
         calls' = [calls EXCEPT ![c].step = "main", ![c].net = "sent", ![c].ask.kind = "schedule"]
  PROVE  /\ calls' \in [Calls -> CallRecord] /\ calls'[c].step = "main" /\ calls'[c].net = "sent"
         /\ On(c)' = On(c) /\ Kind(c)' = "schedule"
         /\ \A e \in Calls : e # c => calls'[e] = calls[e]
<1> DEFINE z == [calls[c].ask EXCEPT !.kind = "schedule"]
           u == [calls[c] EXCEPT !.step = "main"]
           v == [u EXCEPT !.net = "sent"]
           y == [v EXCEPT !.ask = z]
<1>1. calls[c] \in CallRecord /\ calls[c].ask \in Requests
  BY CallsTyped
<1>2. z \in Requests /\ z.kind = "schedule" /\ z.draft = calls[c].ask.draft
  BY <1>1, SMT DEF Requests
<1>3. calls' = [calls EXCEPT ![c] = y]
  BY ActionsParts
<1> HIDE DEF z
<1>4. u \in CallRecord /\ u.step = "main"
  BY <1>1, SMT DEF CallRecord
<1> HIDE DEF u
<1>5. v \in CallRecord /\ v.step = "main" /\ v.net = "sent"
  BY <1>4, SMT DEF CallRecord
<1> HIDE DEF v
<1>6. y \in CallRecord /\ y.step = "main" /\ y.net = "sent" /\ y.ask = z
  BY <1>2, <1>5, SMT DEF CallRecord
<1> HIDE DEF y
<1>7. PICK x \in CallRecord : x = y
  BY <1>6
<1>8. /\ calls' \in [Calls -> CallRecord] /\ calls'[c] = y
      /\ \A e \in Calls : e # c => calls'[e] = calls[e]
  BY <1>3, <1>7, CallsChanged
<1> QED BY <1>2, <1>6, <1>8 DEF On, Kind

Begun(c, s, k, d, w, n) ==
  /\ calls[c] = NoCall /\ calls' \in [Calls -> CallRecord]
  /\ \E x \in CallRecord :
       /\ calls' = [calls EXCEPT ![c] = x] /\ x.step = s /\ x.net = "sent"
       /\ x.ask.kind = k /\ x.ask.draft = d /\ x.ask.row = w /\ x.ask.saw = n
  /\ doubted \subseteq doubted' /\ doubted' \subseteq Drafts /\ used' \in Nat
  /\ \A e \in Calls \ left : On(e) \notin {d, NoDraft} => d \in doubted' /\ On(e) \in doubted'

LEMMA SendDone ==
  ASSUME ActionsInv, NEW c \in Calls, NEW s \in {"replace", "main"},
         NEW k \in {"approve", "save", "reject", "schedule", "cancel"}, NEW d \in Drafts,
         NEW w \in Rows \cup {NoRow}, NEW n, n \in Nat, Send(c, s, k, d, w, n)
  PROVE  Begun(c, s, k, d, w, n)
<1> DEFINE z == [kind |-> k, draft |-> d, row |-> w, saw |-> n]
           y == [step |-> s, net |-> "sent", ask |-> z]
<1>1. z \in Requests /\ z.kind = k /\ z.draft = d /\ z.row = w /\ z.saw = n
  BY SMT DEF Requests, Some
<1>2. calls[c] = NoCall /\ calls' = [calls EXCEPT ![c] = y]
  BY DEF Send
<1> HIDE DEF z
<1>3. y \in CallRecord /\ y.step = s /\ y.net = "sent" /\ y.ask = z
  BY <1>1, SMT DEF CallRecord
<1> HIDE DEF y
<1>4. calls' \in [Calls -> CallRecord]
  BY <1>2, <1>3, ActionsParts
<1>5. used' \in Nat
  BY ActionsParts DEF Send, Event
<1> DEFINE crossed == {calls[x].ask.draft : x \in Calls \ left} \ {NoDraft, d}
<1>6. doubted' = doubted \cup (IF crossed = {} THEN {} ELSE crossed \cup {d})
  BY DEF Send
<1>7. \A e \in Calls \ left : On(e) \notin {d, NoDraft} => On(e) \in crossed
  BY DEF On
<1>8. crossed \subseteq Drafts
  <2> SUFFICES ASSUME NEW e \in Calls, On(e) # NoDraft PROVE On(e) \in Drafts
    BY DEF On
  <2> QED BY CallsTyped DEF Some
<1> HIDE DEF crossed
<1>9. /\ doubted \subseteq doubted' /\ doubted' \subseteq Drafts
      /\ \A e \in Calls \ left : On(e) \notin {d, NoDraft} => d \in doubted' /\ On(e) \in doubted'
  BY <1>6, <1>7, <1>8, ActionsParts
<1> QED BY <1>1, <1>2, <1>3, <1>4, <1>5, <1>9 DEF Begun

LEMMA FireSends ==
  ASSUME ActionsInv, NEW c \in Calls, NEW k, k = "approve" \/ k = "reject", NEW d \in Drafts,
         NEW n, n \in Nat, Send(c, "main", k, d, NoRow, n)
  PROVE  Begun(c, "main", k, d, NoRow, n)
<1>1. CASE k = "approve"
  BY <1>1, SendDone
<1>2. CASE k = "reject"
  BY <1>2, SendDone
<1> QED BY <1>1, <1>2

LEMMA CreateDone ==
  ASSUME ActionsInv, NEW d \in Drafts, Create(d)
  PROVE  /\ rows' \in [Drafts -> SUBSET Rows]
         /\ \E w \in Rows : rows'[d] = rows[d] \cup {w}
         /\ \A f \in Drafts : f # d => rows'[f] = rows[f]
<1> DEFINE w == CHOOSE v \in FreshRows : TRUE
<1>1. FreshRows \subseteq Rows
  BY DEF FreshRows
<1>2. w \in Rows
  BY <1>1 DEF Create
<1>3. rows' = [rows EXCEPT ![d] = @ \cup {w}]
  BY DEF Create
<1> HIDE DEF w
<1> QED BY <1>2, <1>3, ActionsParts

RowsDone(a) ==
  \/ a.kind = "schedule" /\ \E w \in Rows : rows'[a.draft] = rows[a.draft] \cup {w}
  \/ a.kind = "cancel" /\ rows'[a.draft] = rows[a.draft] \ {a.row}
  \/ a.kind \notin {"schedule", "cancel"} /\ rows'[a.draft] = rows[a.draft]

LEMMA ExecuteDone ==
  ASSUME ActionsInv, NEW a \in Requests, NEW d \in Drafts, a.draft = d, Execute(a)
  PROVE  /\ stage' \in [Drafts -> {"proposed", "queued", "rejected"}] /\ text' \in [Drafts -> Nat]
         /\ queued' \in [Drafts -> [text : Nat, saw : Nat]] /\ rows' \in [Drafts -> SUBSET Rows]
         /\ \A f \in Drafts : f # d => /\ stage'[f] = stage[f] /\ text'[f] = text[f]
                                       /\ queued'[f] = queued[f] /\ rows'[f] = rows[f]
         /\ a.kind # "save" => text'[d] = text[d]
         /\ stage'[d] = "queued" =>
              \/ stage[d] = "queued" /\ queued'[d] = queued[d]
              \/ a.kind = "approve" /\ queued'[d].text = text[d] /\ queued'[d].saw = a.saw
         /\ RowsDone(a)
<1> USE ActionsParts
<1>1. a.kind = "approve" => stage[d] # "rejected"
  BY DEF Execute, Accepts
<1>2. /\ stage' \in [Drafts -> {"proposed", "queued", "rejected"}]
      /\ stage'[d] = IF a.kind = "approve" THEN "queued"
                     ELSE IF a.kind = "reject" THEN "rejected" ELSE stage[d]
      /\ \A f \in Drafts : f # d => stage'[f] = stage[f]
  BY DEF Execute
<1>3. /\ text' \in [Drafts -> Nat]
      /\ a.kind # "save" => text'[d] = text[d]
      /\ \A f \in Drafts : f # d => text'[f] = text[f]
  <2>1. text' = IF a.kind = "save" THEN [text EXCEPT ![d] = text[d] + 1] ELSE text
    BY DEF Execute
  <2>2. text[d] + 1 \in Nat
    OBVIOUS
  <2> QED BY <2>1, <2>2
<1>4. /\ queued' \in [Drafts -> [text : Nat, saw : Nat]]
      /\ \A f \in Drafts : f # d => queued'[f] = queued[f]
      /\ \/ queued'[d] = queued[d] /\ (a.kind # "approve" \/ stage[d] # "proposed")
         \/ a.kind = "approve" /\ queued'[d].text = text[d] /\ queued'[d].saw = a.saw
  <2> DEFINE q == [text |-> text[d], saw |-> a.saw]
  <2>1. q \in [text : Nat, saw : Nat] /\ q.text = text[d] /\ q.saw = a.saw
    BY SMT DEF Requests
  <2>2. queued' = IF a.kind = "approve" /\ stage[d] = "proposed" THEN [queued EXCEPT ![d] = q] ELSE queued
    BY DEF Execute
  <2> HIDE DEF q
  <2> DEFINE Q == [text : Nat, saw : Nat]
  <2>3. q \in Q /\ queued \in [Drafts -> Q]
    BY <2>1
  <2> HIDE DEF Q
  <2>4. queued' \in [Drafts -> Q] /\ \A f \in Drafts : f # d => queued'[f] = queued[f]
    BY <2>2, <2>3
  <2>5. \/ queued'[d] = queued[d] /\ (a.kind # "approve" \/ stage[d] # "proposed")
        \/ a.kind = "approve" /\ queued'[d] = q
    BY <2>2, <2>3
  <2> QED BY <2>1, <2>4, <2>5 DEF Q
<1>5. /\ rows' \in [Drafts -> SUBSET Rows]
      /\ \A f \in Drafts : f # d => rows'[f] = rows[f]
      /\ \/ a.kind = "schedule" /\ \E w \in Rows : rows'[d] = rows[d] \cup {w}
         \/ a.kind = "cancel" /\ rows'[d] = rows[d] \ {a.row}
         \/ a.kind \notin {"schedule", "cancel"} /\ rows'[d] = rows[d]
  <2>1. \/ a.kind = "schedule" /\ Create(d)
        \/ a.kind = "cancel" /\ rows' = [rows EXCEPT ![d] = @ \ {a.row}]
        \/ a.kind \notin {"schedule", "cancel"} /\ UNCHANGED rows
    BY DEF Execute
  <2>2. CASE a.kind = "schedule" /\ Create(d)
    BY <2>2, CreateDone
  <2>3. CASE a.kind = "cancel" /\ rows' = [rows EXCEPT ![d] = @ \ {a.row}]
    BY <2>3
  <2>4. CASE a.kind \notin {"schedule", "cancel"} /\ UNCHANGED rows
    BY <2>4
  <2> QED BY <2>1, <2>2, <2>3, <2>4
<1>6. stage'[d] = "queued" =>
        \/ stage[d] = "queued" /\ queued'[d] = queued[d]
        \/ a.kind = "approve" /\ queued'[d].text = text[d] /\ queued'[d].saw = a.saw
  BY <1>1, <1>2, <1>4
<1>7. RowsDone(a)
  BY <1>5 DEF RowsDone
<1> QED BY <1>2, <1>3, <1>4, <1>5, <1>6, <1>7

LEMMA AtHandSays ==
  ASSUME ActionsInv, NEW d \in Drafts, AtHand(d)
  PROVE  hold = NoHold /\ busy # d /\ d \in view.here
BY DEF AtHand

(* What the reviewer does without a call.                                  *)
LEMMA BeginHoldKeeps == ASSUME ActionsInv, NEW d \in Drafts, BeginHold(d) PROVE ActionsInv'
<1> USE ActionsParts DEF ActionsInv
<1>1. UNCHANGED <<server, view, marks, hidden, calls, fetches, lost, doubts, used>>
  BY DEF BeginHold
<1>2. /\ UNCHANGED <<stage, text, queued, rows, view, busy, editing, rejecting, scheduling, hidden>>
      /\ UNCHANGED <<calls, got, reloading, orphans, left, doubted, unmarked, used>>
  BY <1>1 DEF server, marks, fetches, lost, doubts
<1>3. Free' = Free /\ Marked' = Marked /\ Marked \subseteq Free /\ Free \subseteq Drafts
  BY <1>2 DEF Free, Marked
<1> DEFINE h == [kind |-> IF rejecting = d THEN "reject" ELSE "approve", draft |-> d,
                 saw |-> view.text[d]]
<1>4. view.text[d] \in Nat
  BY SMT DEF Lists
<1>5. h \in HoldRecord /\ h.kind \in {"approve", "reject"} /\ h.draft = d /\ h.saw = view.text[d]
  BY <1>4, SMT DEF HoldRecord, Some
<1>6. hold' = h
  BY DEF BeginHold
<1> HIDE DEF h
<1>7. ActionsTypeOK'
  BY <1>2, <1>5, <1>6 DEF ActionsTypeOK, HoldRecord, CallRecord
<1>8. HoldWhole'
  BY <1>5, <1>6 DEF HoldWhole
<1>9. HoldShows'
  <2> SUFFICES ASSUME d \in Marked PROVE view.text[d] = text[d] /\ NotSaved(d)
    BY <1>2, <1>3, <1>5, <1>6 DEF HoldShows, NotSaved, On, Kind
  <2>1. busy # d /\ d \in view.here
    BY AtHandSays DEF BeginHold
  <2>2. ASSUME NEW e \in Calls, On(e) = d PROVE Kind(e) = "cancel" /\ ~Did(e)
    <3>1. ~Under(e)
      BY <2>1, <2>2 DEF BusyMarked
    <3>2. calls[e].step \in {"idle", "replace", "main", "reload", "land"}
      BY CallsTyped, SMT DEF CallRecord
    <3>3. calls[e].step = "replace"
      BY <2>2, <3>1, <3>2, CallsTyped DEF Under
    <3> QED BY <3>3, PlainRecords DEF CallsWhole, Did
  <2> QED BY <2>1, <2>2, <1>3 DEF TextShown, NotSaved
<1> QED BY <1>2, <1>3, <1>7, <1>8, <1>9, ElsewhereKeeps

LEMMA QuietDeedsKeep ==
  ASSUME ActionsInv, ReleaseHold \/ (\E d \in Drafts : BeginEdit(d) \/ ToggleReject(d)) \/ CancelEdit
  PROVE  ActionsInv'
<1> USE ActionsParts DEF ActionsInv
<1>1. /\ UNCHANGED <<server, view, calls, fetches, lost, doubts, used>>
      /\ busy' = busy /\ scheduling' = scheduling /\ hidden' = hidden
  BY DEF ReleaseHold, BeginEdit, ToggleReject, CancelEdit, marks
<1>2. UNCHANGED <<stage, text, queued, rows, view, calls, got, reloading, orphans, left, doubted, unmarked, used>>
  BY <1>1 DEF server, fetches, lost, doubts
<1>3. hold' = hold \/ hold' = NoHold
  BY DEF ReleaseHold, BeginEdit, ToggleReject, CancelEdit
<1>4. editing' \in Some /\ rejecting' \in Some
  BY DEF ReleaseHold, BeginEdit, ToggleReject, CancelEdit, Some, marks
<1>5. Free' = Free /\ Marked' = Marked
  BY <1>2 DEF Free, Marked
<1>6. hold' \in HoldRecord /\ HoldWhole' /\ HoldShows'
  BY <1>2, <1>3, <1>5, HoldStays
<1>7. ActionsTypeOK'
  BY <1>1, <1>2, <1>4, <1>6 DEF ActionsTypeOK, HoldRecord, CallRecord
<1> QED BY <1>1, <1>2, <1>6, <1>7, ElsewhereKeeps DEF Free

(* Those with a call.                                                      *)
LEMMA FireHoldKeeps == ASSUME ActionsInv, NEW c \in Calls, FireHold(c) PROVE ActionsInv'
<1> USE ActionsParts DEF ActionsInv
<1>1. /\ UNCHANGED <<server, view, editing, rejecting, scheduling, hidden, fetches, lost, unmarked>>
      /\ hold # NoHold /\ hold' = NoHold
  BY DEF FireHold
<1>2. UNCHANGED <<stage, text, queued, rows, got, reloading, orphans, left>>
  BY <1>1 DEF server, fetches, lost
<1>3. hold.draft \in Drafts /\ hold.kind \in {"approve", "reject"}
  BY <1>1 DEF HoldWhole
<1>4. hold.saw \in Nat
  BY SMT DEF HoldRecord
<1> PICK d \in Drafts : d = hold.draft
  BY <1>3 DEF Begun
<1> PICK k \in {"approve", "reject"} : k = hold.kind
  BY <1>3 DEF Begun
<1> PICK n : n = hold.saw /\ n \in Nat
  BY <1>4 DEF Begun
<1>5. Send(c, "main", k, d, NoRow, n)
  BY DEF FireHold, Send
<1>6. busy' = d
  BY DEF FireHold
<1>7. Begun(c, "main", k, d, NoRow, n)
  BY <1>5, FireSends
<1>8. ActionsTypeOK'
  BY <1>1, <1>2, <1>6, <1>7, PlainRecords DEF Begun, ActionsTypeOK, HoldRecord, CallRecord, Some
<1>9. PICK x \in CallRecord :
           /\ calls' = [calls EXCEPT ![c] = x] /\ x.step = "main" /\ x.net = "sent"
           /\ x.ask.kind = k /\ x.ask.draft = d /\ x.ask.row = NoRow /\ x.ask.saw = n
  BY <1>7 DEF Begun
<1> QED BY <1>1, <1>2, <1>6, <1>7, <1>8, <1>9, BeginningKeeps DEF Begun

LEMMA SaveDraftKeeps == ASSUME ActionsInv, NEW c \in Calls, SaveDraft(c) PROVE ActionsInv'
<1> USE ActionsParts DEF ActionsInv
<1>1. UNCHANGED <<server, view, editing, rejecting, scheduling, hidden, hold, fetches, lost, unmarked>>
  BY DEF SaveDraft
<1>2. UNCHANGED <<stage, text, queued, rows, got, reloading, orphans, left>>
  BY <1>1 DEF server, fetches, lost
<1>3. editing \in Drafts
  BY DEF SaveDraft, Some
<1> PICK d \in Drafts : d = editing
  BY <1>3 DEF Begun
<1>4. hold = NoHold /\ busy # d
  BY DEF SaveDraft, AtHand
<1>5. Send(c, "main", "save", d, NoRow, 0)
  BY DEF SaveDraft, Send
<1>6. busy' = d
  BY DEF SaveDraft
<1>7. Begun(c, "main", "save", d, NoRow, 0)
  BY <1>5, SendDone
<1>8. ActionsTypeOK'
  BY <1>1, <1>2, <1>6, <1>7 DEF Begun, ActionsTypeOK, HoldRecord, CallRecord, Some
<1>9. PICK x \in CallRecord :
           /\ calls' = [calls EXCEPT ![c] = x] /\ x.step = "main" /\ x.net = "sent"
           /\ x.ask.kind = "save" /\ x.ask.draft = d /\ x.ask.row = NoRow /\ x.ask.saw = 0
  BY <1>7 DEF Begun
<1> QED BY <1>1, <1>2, <1>4, <1>6, <1>7, <1>8, <1>9, BeginningKeeps DEF Begun

LEMMA ScheduleDraftKeeps ==
  ASSUME ActionsInv, NEW c \in Calls, NEW d \in Drafts, ScheduleDraft(c, d)
  PROVE  ActionsInv'
<1> USE ActionsParts DEF ActionsInv
<1>1. /\ UNCHANGED <<server, view, editing, rejecting, hidden, hold, fetches, lost, unmarked>>
      /\ scheduling # d /\ scheduling' = d /\ d \in view.here
  BY AtHandSays DEF ScheduleDraft
<1>2. UNCHANGED <<stage, text, queued, rows, got, reloading, orphans, left>>
  BY <1>1 DEF server, fetches, lost
<1>3. CASE view.rows[d] = {} /\ Send(c, "main", "schedule", d, NoRow, 0) /\ busy' = d
  <2>1. Begun(c, "main", "schedule", d, NoRow, 0)
    BY <1>3, SendDone
  <2>2. ActionsTypeOK'
    BY <1>1, <1>2, <1>3, <2>1 DEF Begun, ActionsTypeOK, HoldRecord, CallRecord, Some
  <2>3. PICK x \in CallRecord :
             /\ calls' = [calls EXCEPT ![c] = x] /\ x.step = "main" /\ x.net = "sent"
             /\ x.ask.kind = "schedule" /\ x.ask.draft = d /\ x.ask.row = NoRow /\ x.ask.saw = 0
    BY <2>1 DEF Begun
  <2> QED BY <1>1, <1>2, <1>3, <2>1, <2>2, <2>3, BeginningKeeps DEF Begun
<1>4. ASSUME NEW w \in view.rows[d], Send(c, "replace", "cancel", d, w, 0), busy' = busy
      PROVE  ActionsInv'
  <2>1. w \in Rows
    BY SMT DEF Lists
  <2>2. Begun(c, "replace", "cancel", d, w, 0)
    BY <2>1, <1>4, SendDone
  <2>3. ActionsTypeOK'
    BY <1>1, <1>2, <1>4, <2>2 DEF Begun, ActionsTypeOK, HoldRecord, CallRecord, Some
  <2>4. PICK x \in CallRecord :
             /\ calls' = [calls EXCEPT ![c] = x] /\ x.step = "replace" /\ x.net = "sent"
             /\ x.ask.kind = "cancel" /\ x.ask.draft = d /\ x.ask.row = w /\ x.ask.saw = 0
    BY <2>2 DEF Begun
  <2> QED BY <1>1, <1>2, <1>4, <2>2, <2>3, <2>4, BeginningKeeps DEF Begun
<1> QED BY <1>3, <1>4 DEF ScheduleDraft

LEMMA CancelScheduleKeeps ==
  ASSUME ActionsInv, NEW c \in Calls, NEW d \in Drafts, CancelSchedule(c, d)
  PROVE  ActionsInv'
<1> USE ActionsParts DEF ActionsInv
<1>1. /\ UNCHANGED <<server, view, editing, rejecting, scheduling, hidden, hold, fetches, lost, unmarked>>
      /\ busy' = d
  BY DEF CancelSchedule
<1>2. UNCHANGED <<stage, text, queued, rows, got, reloading, orphans, left>>
  BY <1>1 DEF server, fetches, lost
<1>3. PICK w \in view.rows[d] : Send(c, "main", "cancel", d, w, 0)
  BY DEF CancelSchedule
<1>4. w \in Rows
  BY SMT DEF Lists
<1>5. Begun(c, "main", "cancel", d, w, 0)
  BY <1>3, <1>4, SendDone
<1>6. ActionsTypeOK'
  BY <1>1, <1>2, <1>5 DEF Begun, ActionsTypeOK, HoldRecord, CallRecord, Some
<1>7. PICK x \in CallRecord :
           /\ calls' = [calls EXCEPT ![c] = x] /\ x.step = "main" /\ x.net = "sent"
           /\ x.ask.kind = "cancel" /\ x.ask.draft = d /\ x.ask.row = w /\ x.ask.saw = 0
  BY <1>5 DEF Begun
<1> QED BY <1>1, <1>2, <1>5, <1>6, <1>7, BeginningKeeps DEF Begun

(* The requests.                                                           *)
LEMMA AskingIsOnDraft ==
  ASSUME ActionsInv, NEW c \in Calls, calls[c].step # "idle"
  PROVE  On(c) \in Drafts /\ calls[c].ask \in Requests
BY CallsTyped

LEMMA ExecutedActionKeeps == ASSUME ActionsInv, NEW c \in Calls, Executed(c) PROVE ActionsInv'
<1> USE ActionsParts DEF ActionsInv
<1>1. /\ UNCHANGED <<view, marks, hidden, hold, fetches, lost, doubts, used>>
      /\ calls[c].step \in {"replace", "main"} /\ calls[c].net = "sent"
  BY DEF Executed, Asked
<1>2. UNCHANGED <<view, busy, editing, rejecting, scheduling, hidden, hold, got, reloading,
                  orphans, left, doubted, unmarked, used>>
  BY <1>1 DEF marks, fetches, lost, doubts
<1>3. /\ calls' \in [Calls -> CallRecord] /\ calls'[c].step = calls[c].step
      /\ calls'[c].ask = calls[c].ask /\ calls'[c].net = "ok"
      /\ \A e \in Calls : e # c => calls'[e] = calls[e]
  BY NetSet DEF Executed
<1>4. On(c) \in Drafts /\ calls[c].ask \in Requests
  BY <1>1, AskingIsOnDraft
<1> PICK a \in Requests : a = calls[c].ask
  BY <1>4
<1> PICK d \in Drafts : d = On(c)
  BY <1>4
<1>5. Execute(a) /\ a.draft = d
  BY DEF Executed, Execute, Accepts, Create, On
<1>6. /\ stage' \in [Drafts -> {"proposed", "queued", "rejected"}] /\ text' \in [Drafts -> Nat]
      /\ queued' \in [Drafts -> [text : Nat, saw : Nat]] /\ rows' \in [Drafts -> SUBSET Rows]
  BY <1>5, ExecuteDone
<1>7. \A f \in Drafts : f # d => /\ stage'[f] = stage[f] /\ text'[f] = text[f]
                                 /\ queued'[f] = queued[f] /\ rows'[f] = rows[f]
  BY <1>5, ExecuteDone
<1>8. a.kind # "save" => text'[d] = text[d]
  BY <1>5, ExecuteDone
<1>9. ActionsTypeOK'
  BY <1>2, <1>3, <1>6 DEF ActionsTypeOK, HoldRecord, CallRecord
<1>10. Kind(c) = a.kind /\ calls[c].ask.row = a.row /\ calls[c].ask.saw = a.saw
  BY DEF Kind
<1>11. stage'[d] = "queued" =>
         \/ stage[d] = "queued" /\ queued'[d] = queued[d]
         \/ Kind(c) = "approve" /\ queued'[d].text = text[d] /\ queued'[d].saw = calls[c].ask.saw
  <2>1. stage'[d] = "queued" =>
          \/ stage[d] = "queued" /\ queued'[d] = queued[d]
          \/ a.kind = "approve" /\ queued'[d].text = text[d] /\ queued'[d].saw = a.saw
    BY <1>5, ExecuteDone
  <2> QED BY <2>1, <1>10
<1>12. CallRowsDone(c, d)
  <2>1. RowsDone(a)
    BY <1>5, ExecuteDone
  <2> QED BY <2>1, <1>5, <1>10 DEF RowsDone, CallRowsDone
<1> QED BY <1>1, <1>2, <1>3, <1>7, <1>8, <1>9, <1>10, <1>11, <1>12, ExecutedKeeps

LEMMA RefusedKeeps ==
  ASSUME ActionsInv, NEW c \in Calls, Refused(c) \/ RefusedAfterwards(c) \/ TimeOut(c)
  PROVE  ActionsInv'
<1> USE ActionsParts DEF ActionsInv
<1>1. /\ UNCHANGED <<server, view, marks, hidden, hold, fetches, left, unmarked, used>>
      /\ calls[c].step \in {"replace", "main"}
  BY DEF Refused, RefusedAfterwards, TimeOut, Asked, lost, doubts
<1>2. UNCHANGED <<stage, text, queued, rows, busy, editing, rejecting, scheduling, got, reloading>>
  BY <1>1 DEF server, marks, fetches
<1>3. /\ calls' \in [Calls -> CallRecord] /\ calls'[c].step = calls[c].step
      /\ calls'[c].ask = calls[c].ask /\ calls'[c].net = "refused"
      /\ \A e \in Calls : e # c => calls'[e] = calls[e]
  BY NetSet DEF Refused, RefusedAfterwards, TimeOut
<1>4. On(c) \in Drafts /\ calls[c].ask \in Requests
  BY <1>1, AskingIsOnDraft
<1> PICK d \in Drafts : d = On(c)
  BY <1>4
<1>5. /\ doubted \subseteq doubted' /\ doubted' \subseteq Drafts /\ orphans' \subseteq Requests
      /\ calls[c].net # "sent" => d \in doubted'
      /\ \A a \in orphans' : a \in orphans \/ a.draft \in doubted'
  <2>1. CASE Refused(c)
    BY <2>1 DEF Refused, Asked, lost, doubts
  <2>2. CASE RefusedAfterwards(c)
    BY <2>2, <1>4 DEF RefusedAfterwards, On, lost
  <2>3. CASE TimeOut(c)
    BY <2>3, <1>4 DEF TimeOut, On
  <2> QED BY <2>1, <2>2, <2>3
<1>6. ActionsTypeOK'
  BY <1>1, <1>2, <1>3, <1>5 DEF ActionsTypeOK, HoldRecord, CallRecord
<1> QED BY <1>1, <1>2, <1>3, <1>5, <1>6, GivenUpKeeps

LEMMA ReplacedActionKeeps == ASSUME ActionsInv, NEW c \in Calls, Replaced(c) PROVE ActionsInv'
<1> USE ActionsParts DEF ActionsInv
<1>1. /\ UNCHANGED <<server, view, editing, rejecting, scheduling, hidden, hold, fetches, lost, doubts, used>>
      /\ calls[c].step = "replace" /\ calls[c].net = "ok"
  BY DEF Replaced
<1>2. UNCHANGED <<stage, text, queued, rows, got, reloading, orphans, left, doubted, unmarked>>
  BY <1>1 DEF server, fetches, lost, doubts
<1>3. /\ calls' \in [Calls -> CallRecord] /\ calls'[c].step = "main" /\ calls'[c].net = "sent"
      /\ On(c)' = On(c) /\ Kind(c)' = "schedule"
      /\ \A e \in Calls : e # c => calls'[e] = calls[e]
  BY AskSet DEF Replaced
<1>4. On(c) \in Drafts
  BY <1>1, AskingIsOnDraft
<1> PICK d \in Drafts : d = On(c)
  BY <1>4
<1>5. busy' = IF c \in left THEN busy ELSE d
  BY DEF Replaced, On
<1>6. ActionsTypeOK'
  BY <1>1, <1>2, <1>3, <1>5 DEF ActionsTypeOK, HoldRecord, CallRecord, Some
<1> QED BY <1>1, <1>2, <1>3, <1>5, <1>6, ReplacedKeeps

LEMMA HoldKept == ASSUME KeepHold PROVE hold' = hold \/ hold' = NoHold
BY DEF KeepHold

LEMMA AnsweredKeeps == ASSUME ActionsInv, NEW c \in Calls, Answered(c) PROVE ActionsInv'
<1> USE ActionsParts DEF ActionsInv
<1>1. /\ UNCHANGED <<server, view, busy, rejecting, scheduling, fetches, lost, doubts, used>>
      /\ calls[c].step = "main" /\ calls[c].net = "ok" /\ editing' \in {editing, NoDraft} /\ hidden' = TRUE
  BY DEF Answered
<1>2. UNCHANGED <<stage, text, queued, rows, got, reloading, orphans, left, doubted, unmarked>>
  BY <1>1 DEF server, fetches, lost, doubts
<1>3. /\ calls' \in [Calls -> CallRecord] /\ calls'[c].step = "reload" /\ calls'[c].ask = calls[c].ask
      /\ \A e \in Calls : e # c => calls'[e] = calls[e]
  BY StepSet DEF Answered
<1>4. hold' = hold \/ hold' = NoHold
  BY HoldKept DEF Answered
<1>5. hold' \in HoldRecord /\ editing' \in Some
  BY <1>1, <1>4, PlainRecords DEF Some
<1>6. ActionsTypeOK'
  BY <1>1, <1>2, <1>3, <1>5 DEF ActionsTypeOK, HoldRecord, CallRecord
<1>7. Did(c)
  BY <1>1 DEF Did
<1> QED BY <1>1, <1>2, <1>3, <1>4, <1>6, <1>7, OnwardKeeps

LEMMA ReadListsKeeps == ASSUME ActionsInv, NEW c \in Calls, ReadLists(c) PROVE ActionsInv'
<1> USE ActionsParts DEF ActionsInv
<1>1. /\ UNCHANGED <<server, view, marks, hidden, hold, reloading, lost, doubts, used>>
      /\ calls[c].step = "reload"
  BY DEF ReadLists
<1>2. UNCHANGED <<stage, text, queued, rows, busy, editing, rejecting, scheduling, orphans, left,
                  doubted, unmarked>>
  BY <1>1 DEF server, marks, lost, doubts
<1>3. /\ calls' \in [Calls -> CallRecord] /\ calls'[c].step = "land" /\ calls'[c].ask = calls[c].ask
      /\ \A e \in Calls : e # c => calls'[e] = calls[e]
  BY StepSet DEF ReadLists
<1>4. got' \in [Calls \cup Reloaders -> Lists]
  BY ListsNowTyped DEF ReadLists
<1>5. ActionsTypeOK'
  BY <1>1, <1>2, <1>3, <1>4 DEF ActionsTypeOK, HoldRecord, CallRecord
<1>6. Did(c)
  BY <1>1 DEF Did
<1> QED BY <1>1, <1>2, <1>3, <1>5, <1>6, OnwardKeeps

(* What a call leaves when it ends.                                        *)
LEMMA EndDone ==
  ASSUME ActionsInv, NEW c \in Calls, calls[c].step \in {"main", "reload", "land"}, End(c)
  PROVE  /\ calls' \in [Calls -> CallRecord] /\ calls'[c] = NoCall
         /\ \A e \in Calls : e # c => calls'[e] = calls[e]
         /\ left' = left \ {c} /\ left' \subseteq Calls
         /\ busy' \in Some /\ rejecting' \in Some /\ scheduling' \in Some
         /\ unmarked \subseteq unmarked' /\ unmarked' \subseteq Drafts
         /\ \/ busy' = busy
            \/ \A e \in Calls \ left : e # c => On(e) \in unmarked' \cup {NoDraft}
         /\ scheduling' = IF Schedules(c) /\ c \notin left THEN NoDraft ELSE scheduling
<1> USE ActionsParts
<1>1. /\ calls' \in [Calls -> CallRecord] /\ calls'[c] = NoCall
      /\ \A e \in Calls : e # c => calls'[e] = calls[e]
  BY CallsChanged, PlainRecords DEF End
<1>2. left' = left \ {c} /\ left' \subseteq Calls
  BY DEF End
<1>3. CASE c \in left
  BY <1>1, <1>2, <1>3 DEF End
<1>4. CASE c \notin left
  <2>1. /\ busy' \in Some /\ rejecting' \in Some /\ scheduling' \in Some
        /\ scheduling' = IF Schedules(c) THEN NoDraft ELSE scheduling
    BY <1>4 DEF End, Some, Schedules, Kind
  <2> DEFINE freed == {calls[x].ask.draft : x \in Calls \ (left \cup {c})} \ {NoDraft}
  <2>2. unmarked' = unmarked \cup freed
    BY <1>4 DEF End
  <2>3. \A e \in Calls \ left : e # c => On(e) \in freed \cup {NoDraft}
    BY DEF On
  <2>4. freed \subseteq Drafts
    <3> SUFFICES ASSUME NEW e \in Calls, On(e) # NoDraft PROVE On(e) \in Drafts
      BY DEF On
    <3> QED BY CallsTyped DEF Some
  <2> HIDE DEF freed
  <2>5. /\ unmarked \subseteq unmarked' /\ unmarked' \subseteq Drafts
        /\ \A e \in Calls \ left : e # c => On(e) \in unmarked' \cup {NoDraft}
    BY <2>2, <2>3, <2>4
  <2> QED BY <1>1, <1>2, <1>4, <2>1, <2>5
<1> QED BY <1>3, <1>4

LEMMA NotReplacedKeeps == ASSUME ActionsInv, NEW c \in Calls, NotReplaced(c) PROVE ActionsInv'
<1> USE ActionsParts DEF ActionsInv
<1>1. /\ UNCHANGED <<server, view, busy, editing, rejecting, hidden, hold, fetches, orphans, doubts, used>>
      /\ calls[c].step = "replace" /\ left' = left \ {c}
      /\ scheduling' = IF c \in left THEN scheduling ELSE NoDraft
  BY DEF NotReplaced
<1>2. UNCHANGED <<stage, text, queued, rows, got, reloading, doubted, unmarked>>
  BY <1>1 DEF server, fetches, doubts
<1>3. /\ calls' \in [Calls -> CallRecord] /\ calls'[c] = NoCall
      /\ \A e \in Calls : e # c => calls'[e] = calls[e]
  BY CallsChanged, PlainRecords DEF NotReplaced
<1>4. On(c) \in Drafts
  BY <1>1, AskingIsOnDraft
<1>5. Schedules(c) /\ ~Did(c)
  BY <1>1 DEF Schedules, Did
<1>6. ActionsTypeOK'
  BY <1>1, <1>2, <1>3 DEF ActionsTypeOK, HoldRecord, CallRecord, Some
<1> QED BY <1>1, <1>2, <1>3, <1>4, <1>5, <1>6, EndedKeeps

LEMMA FailedKeeps == ASSUME ActionsInv, NEW c \in Calls, Failed(c) PROVE ActionsInv'
<1> USE ActionsParts DEF ActionsInv
<1>1. /\ UNCHANGED <<server, view, editing, hidden, fetches, orphans, doubted, used>>
      /\ calls[c].step = "main" /\ calls[c].net = "refused" /\ End(c)
  BY DEF Failed
<1>2. UNCHANGED <<stage, text, queued, rows, got, reloading>>
  BY <1>1 DEF server, fetches
<1>3. /\ calls' \in [Calls -> CallRecord] /\ calls'[c] = NoCall
      /\ \A e \in Calls : e # c => calls'[e] = calls[e]
      /\ left' = left \ {c} /\ left' \subseteq Calls
      /\ busy' \in Some /\ rejecting' \in Some /\ scheduling' \in Some
      /\ unmarked \subseteq unmarked' /\ unmarked' \subseteq Drafts
      /\ \/ busy' = busy
         \/ \A e \in Calls \ left : e # c => On(e) \in unmarked' \cup {NoDraft}
      /\ scheduling' = IF Schedules(c) /\ c \notin left THEN NoDraft ELSE scheduling
  BY <1>1, EndDone
<1>4. On(c) \in Drafts
  BY <1>1, AskingIsOnDraft
<1>5. hold' = hold \/ hold' = NoHold
  BY HoldKept DEF Failed
<1>6. hold' \in HoldRecord
  BY <1>5, PlainRecords
<1>7. ActionsTypeOK'
  BY <1>1, <1>2, <1>3, <1>6 DEF ActionsTypeOK, HoldRecord, CallRecord
<1>8. ~Did(c)
  BY <1>1 DEF Did
<1> QED BY <1>1, <1>2, <1>3, <1>4, <1>5, <1>7, <1>8, EndedKeeps

(* Lists that land, or none: what is shown and not in doubt is as it is.   *)
LEMMA ShowingDone ==
  ASSUME ActionsInv, NEW g \in Calls \cup Reloaders, Showing(g), UNCHANGED <<text, rows>>
  PROVE  /\ view' \in Lists /\ got' \in [Calls \cup Reloaders -> Lists]
         /\ doubted \subseteq doubted' /\ doubted' \subseteq Drafts
         /\ \A d \in Free' : d \in view'.here => view'.text[d] = text[d] /\ view'.rows[d] = rows[d]
<1> USE ActionsParts
<1>1. view' \in Lists /\ got' \in [Calls \cup Reloaders -> Lists]
  BY PlainRecords DEF Showing
<1> PICK l \in Lists : l = view'
  BY <1>1
<1>2. doubted' = doubted \cup Stale(l)
  BY DEF Showing, Stale
<1>3. l.here \subseteq Drafts
  BY SMT DEF Lists
<1>4. Stale(l) \subseteq Drafts
  BY <1>3 DEF Stale
<1>5. \A d \in Free' : d \in l.here => l.text[d] = text[d] /\ l.rows[d] = rows[d]
  BY <1>2 DEF Stale, Free
<1> QED BY <1>1, <1>2, <1>4, <1>5

LEMMA LandListsKeeps == ASSUME ActionsInv, NEW c \in Calls, LandLists(c) PROVE ActionsInv'
<1> USE ActionsParts DEF ActionsInv
<1>1. /\ UNCHANGED <<server, editing, reloading, orphans, used>>
      /\ calls[c].step = "land" /\ End(c) /\ Showing(c) /\ hidden' = FALSE
  BY DEF LandLists
<1>2. UNCHANGED <<stage, text, queued, rows>>
  BY <1>1 DEF server
<1>3. /\ calls' \in [Calls -> CallRecord] /\ calls'[c] = NoCall
      /\ \A e \in Calls : e # c => calls'[e] = calls[e]
      /\ left' = left \ {c} /\ left' \subseteq Calls
      /\ busy' \in Some /\ rejecting' \in Some /\ scheduling' \in Some
      /\ unmarked \subseteq unmarked' /\ unmarked' \subseteq Drafts
      /\ \/ busy' = busy
         \/ \A e \in Calls \ left : e # c => On(e) \in unmarked' \cup {NoDraft}
      /\ scheduling' = IF Schedules(c) /\ c \notin left THEN NoDraft ELSE scheduling
  BY <1>1, EndDone
<1>4. On(c) \in Drafts
  BY <1>1, AskingIsOnDraft
<1>5. hold' = hold \/ hold' = NoHold
  BY HoldKept DEF LandLists
<1>6. hold' \in HoldRecord
  BY <1>5, PlainRecords
<1>7. /\ view' \in Lists /\ got' \in [Calls \cup Reloaders -> Lists]
      /\ doubted \subseteq doubted' /\ doubted' \subseteq Drafts
      /\ \A d \in Free' : d \in view'.here => view'.text[d] = text[d] /\ view'.rows[d] = rows[d]
  BY <1>1, <1>2, ShowingDone
<1>8. ActionsTypeOK'
  BY <1>1, <1>2, <1>3, <1>6, <1>7 DEF ActionsTypeOK, HoldRecord, CallRecord
<1> QED BY <1>1, <1>2, <1>3, <1>4, <1>5, <1>7, <1>8, EndedKeeps

(* What nobody in the view waits for.                                      *)
LEMMA ReadOwnKeeps == ASSUME ActionsInv, NEW g \in Reloaders, ReadOwn(g) PROVE ActionsInv'
<1> USE ActionsParts DEF ActionsInv
<1>1. UNCHANGED <<server, view, marks, calls, lost, doubts>>
  BY DEF ReadOwn
<1>2. UNCHANGED <<stage, text, queued, rows, busy, editing, rejecting, scheduling, orphans, left,
                  doubted, unmarked>>
  BY <1>1 DEF server, marks, lost, doubts
<1>3. /\ got' \in [Calls \cup Reloaders -> Lists] /\ reloading' \subseteq Reloaders
      /\ used' \in Nat /\ hidden' \in BOOLEAN
  BY ListsNowTyped DEF ReadOwn, Event
<1>4. Free' = Free /\ Marked' = Marked
  BY <1>2 DEF Free, Marked
<1>5. hold' = hold \/ hold' = NoHold
  BY HoldKept DEF ReadOwn
<1>6. hold' \in HoldRecord /\ HoldWhole' /\ HoldShows'
  BY <1>1, <1>2, <1>4, <1>5, HoldStays
<1>7. ActionsTypeOK'
  BY <1>1, <1>2, <1>3, <1>6 DEF ActionsTypeOK, HoldRecord, CallRecord
<1> QED BY <1>1, <1>2, <1>6, <1>7, ElsewhereKeeps

LEMMA ReadLaterKeeps ==
  ASSUME ActionsInv, NEW g \in Calls \cup Reloaders, ReadLater(g) PROVE ActionsInv'
<1> USE ActionsParts DEF ActionsInv
<1>1. UNCHANGED <<server, view, marks, hidden, hold, calls, reloading, lost, doubts, used>>
  BY DEF ReadLater
<1>2. UNCHANGED <<stage, text, queued, rows, busy, editing, rejecting, scheduling, orphans, left,
                  doubted, unmarked>>
  BY <1>1 DEF server, marks, lost, doubts
<1> PICK a \in Lists : a = got[g]
  OBVIOUS
<1> PICK b \in Lists : b = ListsNow
  BY ListsNowTyped
<1>3. [a EXCEPT !.rows = rows] \in Lists /\ [b EXCEPT !.rows = a.rows] \in Lists
  <2> DEFINE R == [Drafts -> SUBSET Rows]
             L == [text : [Drafts -> Nat], here : SUBSET Drafts, rows : R]
  <2>1. rows \in R /\ Lists = L
    BY DEF Lists
  <2> HIDE DEF R
  <2>2. \A x \in L : x.rows \in R
    BY SMT
  <2>3. \A x \in L, q \in R : [x EXCEPT !.rows = q] \in L
    BY SMT
  <2> QED BY <2>1, <2>2, <2>3
<1>4. PICK l \in {[a EXCEPT !.rows = rows], [b EXCEPT !.rows = a.rows]} : got' = [got EXCEPT ![g] = l]
  BY DEF ReadLater
<1>5. got' \in [Calls \cup Reloaders -> Lists]
  BY <1>3, <1>4
<1>6. ActionsTypeOK'
  BY <1>1, <1>2, <1>5 DEF ActionsTypeOK, HoldRecord, CallRecord
<1>7. Free' = Free /\ Marked' = Marked
  BY <1>2 DEF Free, Marked
<1>8. HoldWhole' /\ HoldShows'
  BY <1>1, <1>2, <1>7, HoldStays
<1> QED BY <1>1, <1>2, <1>6, <1>8, ElsewhereKeeps

LEMMA LandOwnKeeps == ASSUME ActionsInv, NEW g \in Reloaders, LandOwn(g) PROVE ActionsInv'
<1> USE ActionsParts DEF ActionsInv
<1>1. /\ UNCHANGED <<server, marks, calls, lost, unmarked, used>>
      /\ Showing(g) /\ reloading' \subseteq Reloaders /\ hidden' \in BOOLEAN
  BY DEF LandOwn
<1>2. UNCHANGED <<stage, text, queued, rows, busy, editing, rejecting, scheduling, orphans, left>>
  BY <1>1 DEF server, marks, lost
<1>3. /\ view' \in Lists /\ got' \in [Calls \cup Reloaders -> Lists]
      /\ doubted \subseteq doubted' /\ doubted' \subseteq Drafts
      /\ \A d \in Free' : d \in view'.here => view'.text[d] = text[d] /\ view'.rows[d] = rows[d]
  BY <1>1, <1>2, ShowingDone
<1>4. Marked' \subseteq Marked
  BY <1>1, <1>3, FewerFree
<1>5. hold' = hold \/ hold' = NoHold
  BY HoldKept DEF LandOwn
<1>6. hold' \in HoldRecord /\ HoldWhole' /\ HoldShows'
  BY <1>1, <1>2, <1>4, <1>5, HoldStays
<1>7. ActionsTypeOK'
  BY <1>1, <1>2, <1>3, <1>6 DEF ActionsTypeOK, HoldRecord, CallRecord
<1> QED BY <1>1, <1>2, <1>3, <1>6, <1>7, ElsewhereKeeps

(* The view is left, with a call under way or without.                     *)
LEMMA LeaveApprovalsKeeps == ASSUME ActionsInv, LeaveApprovals PROVE ActionsInv'
<1> USE ActionsParts DEF ActionsInv
<1>1. /\ UNCHANGED <<server, view, hidden, calls, fetches, orphans, unmarked>>
      /\ busy' = NoDraft /\ editing' = NoDraft /\ rejecting' = NoDraft /\ scheduling' = NoDraft
      /\ hold' = NoHold /\ left' = {c \in Calls : calls[c] # NoCall} /\ used' \in Nat
  BY DEF LeaveApprovals, Event
<1>2. UNCHANGED <<stage, text, queued, rows, got, reloading>>
  BY <1>1 DEF server, fetches
<1> DEFINE held == {calls[c].ask.draft : c \in Calls} \ {NoDraft}
<1>3. doubted' = doubted \cup held
  BY DEF LeaveApprovals
<1>4. held \subseteq Drafts
  <2> SUFFICES ASSUME NEW c \in Calls, On(c) # NoDraft PROVE On(c) \in Drafts
    BY DEF On
  <2> QED BY CallsTyped DEF Some
<1>5. ASSUME NEW c \in Calls PROVE On(c) \in held \cup {NoDraft}
  BY DEF On
<1> HIDE DEF held
<1>6. /\ doubted \subseteq doubted' /\ doubted' \subseteq Drafts
      /\ \A c \in Calls : On(c) \in doubted' \cup {NoDraft}
  BY <1>3, <1>4, <1>5
<1>7. ASSUME NEW c \in left' PROVE On(c) \in doubted'
  <2>1. On(c) \in Drafts
    BY <1>1, <1>7 DEF CallsWhole
  <2> QED BY <2>1, <1>1, <1>6, <1>7, PlainRecords
<1>8. ActionsTypeOK'
  BY <1>1, <1>2, <1>6, PlainRecords DEF ActionsTypeOK, HoldRecord, CallRecord, Some
<1> QED BY <1>1, <1>2, <1>6, <1>7, <1>8, DepartureKeeps

LEMMA OtherKeeps == ASSUME ActionsInv, NEW d \in Drafts, Other(d) PROVE ActionsInv'
<1> USE ActionsParts DEF ActionsInv
<1>1. /\ UNCHANGED <<stage, queued, view, marks, hidden, hold, calls, fetches, lost, unmarked>>
      /\ doubted' = doubted \cup {d}
  BY DEF Other
<1>2. UNCHANGED <<busy, editing, rejecting, scheduling, got, reloading, orphans, left>>
  BY <1>1 DEF marks, fetches, lost
<1>3. /\ text' \in [Drafts -> Nat] /\ rows' \in [Drafts -> SUBSET Rows]
      /\ \A f \in Drafts : f # d => text'[f] = text[f] /\ rows'[f] = rows[f]
  <2>1. CASE text' = [text EXCEPT ![d] = @ + 1] /\ UNCHANGED rows
    <3>1. text[d] + 1 \in Nat
      OBVIOUS
    <3> QED BY <2>1, <3>1
  <2>2. CASE Create(d) /\ UNCHANGED text
    BY <2>2, CreateDone
  <2> QED BY <2>1, <2>2 DEF Other
<1>4. used' \in Nat
  BY DEF Other, Event
<1>5. ActionsTypeOK'
  BY <1>1, <1>2, <1>3, <1>4 DEF ActionsTypeOK, HoldRecord, CallRecord
<1>6. Free' \subseteq Drafts \ {d} /\ Marked' \subseteq Marked /\ Marked' \subseteq Free'
  BY <1>1 DEF Free, Marked
<1>7. HoldWhole' /\ HoldShows'
  BY <1>1, <1>3, <1>6, HoldStays
<1> QED BY <1>1, <1>2, <1>3, <1>5, <1>6, <1>7, ElsewhereKeeps

LEMMA ExecutedLateKeeps == ASSUME ActionsInv, ExecutedLate PROVE ActionsInv'
<1> USE ActionsParts DEF ActionsInv
<1> PICK a \in orphans : Execute(a) /\ orphans' = orphans \ {a}
                         /\ UNCHANGED <<view, marks, hidden, hold, calls, fetches, left, doubts, used>>
  BY DEF ExecutedLate
<1>1. UNCHANGED <<busy, editing, rejecting, scheduling, got, reloading, doubted, unmarked>>
  BY DEF marks, fetches, doubts
<1>2. a \in Requests /\ a.draft \in doubted
  BY DEF OrphansDoubted
<1> PICK d \in Drafts : d = a.draft
  BY <1>2
<1>3. /\ stage' \in [Drafts -> {"proposed", "queued", "rejected"}] /\ text' \in [Drafts -> Nat]
      /\ queued' \in [Drafts -> [text : Nat, saw : Nat]] /\ rows' \in [Drafts -> SUBSET Rows]
      /\ \A f \in Drafts : f # d => /\ stage'[f] = stage[f] /\ text'[f] = text[f]
                                    /\ queued'[f] = queued[f] /\ rows'[f] = rows[f]
  BY <1>2, ExecuteDone
<1>4. ActionsTypeOK'
  BY <1>1, <1>3 DEF ActionsTypeOK, HoldRecord, CallRecord
<1>5. Free' = Free /\ Marked' = Marked /\ Marked \subseteq Free /\ Free \subseteq Drafts \ {d}
  BY <1>1, <1>2 DEF Free, Marked
<1>6. HoldWhole' /\ HoldShows'
  BY <1>3, <1>5, HoldStays
<1> QED BY <1>1, <1>3, <1>4, <1>5, <1>6, ElsewhereKeeps

LEMMA StepKeepsActions == ActionsInv /\ [ActionsNext]_actionsVars => ActionsInv'
<1> SUFFICES ASSUME ActionsInv, [ActionsNext]_actionsVars PROVE ActionsInv'
  OBVIOUS
<1>1. ASSUME NEW d \in Drafts, BeginHold(d) PROVE ActionsInv'
  BY <1>1, BeginHoldKeeps
<1>2. ASSUME ReleaseHold \/ (\E d \in Drafts : BeginEdit(d) \/ ToggleReject(d)) \/ CancelEdit
      PROVE  ActionsInv'
  BY <1>2, QuietDeedsKeep
<1>3. ASSUME NEW d \in Drafts, Other(d) PROVE ActionsInv'
  BY <1>3, OtherKeeps
<1>4. ASSUME NEW c \in Calls, FireHold(c) PROVE ActionsInv'
  BY <1>4, FireHoldKeeps
<1>5. ASSUME NEW c \in Calls, SaveDraft(c) PROVE ActionsInv'
  BY <1>5, SaveDraftKeeps
<1>6. ASSUME NEW c \in Calls, NEW d \in Drafts, ScheduleDraft(c, d) PROVE ActionsInv'
  BY <1>6, ScheduleDraftKeeps
<1>7. ASSUME NEW c \in Calls, NEW d \in Drafts, CancelSchedule(c, d) PROVE ActionsInv'
  BY <1>7, CancelScheduleKeeps
<1>8. ASSUME NEW c \in Calls, Executed(c) PROVE ActionsInv'
  BY <1>8, ExecutedActionKeeps
<1>9. ASSUME NEW c \in Calls, Refused(c) \/ RefusedAfterwards(c) \/ TimeOut(c) PROVE ActionsInv'
  BY <1>9, RefusedKeeps
<1>10. ASSUME NEW c \in Calls, Replaced(c) PROVE ActionsInv'
  BY <1>10, ReplacedActionKeeps
<1>11. ASSUME NEW c \in Calls, NotReplaced(c) PROVE ActionsInv'
  BY <1>11, NotReplacedKeeps
<1>12. ASSUME NEW c \in Calls, Answered(c) PROVE ActionsInv'
  BY <1>12, AnsweredKeeps
<1>13. ASSUME NEW c \in Calls, Failed(c) PROVE ActionsInv'
  BY <1>13, FailedKeeps
<1>14. ASSUME NEW c \in Calls, ReadLists(c) PROVE ActionsInv'
  BY <1>14, ReadListsKeeps
<1>15. ASSUME NEW c \in Calls, LandLists(c) PROVE ActionsInv'
  BY <1>15, LandListsKeeps
<1>16. CASE ExecutedLate
  BY <1>16, ExecutedLateKeeps
<1>17. ASSUME NEW g \in Reloaders, ReadOwn(g) \/ LandOwn(g) PROVE ActionsInv'
  BY <1>17, ReadOwnKeeps, LandOwnKeeps
<1>18. ASSUME NEW g \in Calls \cup Reloaders, ReadLater(g) PROVE ActionsInv'
  BY <1>18, ReadLaterKeeps
<1>19. CASE LeaveApprovals
  BY <1>19, LeaveApprovalsKeeps
<1>20. CASE UNCHANGED actionsVars
  <2>1. UNCHANGED <<server, view, marks, hidden, hold, calls, fetches, lost, doubts, used>>
    BY <1>20 DEF actionsVars
  <2>2. UNCHANGED <<stage, text, queued, rows, busy, editing, rejecting, scheduling, got, reloading,
                    orphans, left, doubted, unmarked>>
    BY <2>1 DEF server, marks, fetches, lost, doubts
  <2>3. ActionsTypeOK'
    BY <2>1, <2>2 DEF ActionsInv, ActionsTypeOK
  <2>4. Marked' = Marked
    BY <2>2 DEF Free, Marked
  <2>5. HoldWhole' /\ HoldShows'
    BY <2>1, <2>2, <2>4, HoldStays
  <2> QED BY <2>1, <2>2, <2>3, <2>5, ElsewhereKeeps
<1> QED BY <1>1, <1>2, <1>3, <1>4, <1>5, <1>6, <1>7, <1>8, <1>9, <1>10, <1>11, <1>12, <1>13,
           <1>14, <1>15, <1>16, <1>17, <1>18, <1>19, <1>20 DEF ActionsNext

LEMMA ActionsInvHolds == ActionsSpec => []ActionsInv
BY InitEstablishesActions, StepKeepsActions, PTL DEF ActionsSpec

(* ActionsTypeOK holds for any number of drafts, rows, calls and events.   *)
THEOREM ActionsTyped == ActionsSpec => []ActionsTypeOK
<1>1. ActionsInv => ActionsTypeOK
  BY DEF ActionsInv
<1> QED BY <1>1, ActionsInvHolds, PTL

(* A draft that is not in doubt has one scheduled send at most, however    *)
(* many calls are under way: the one call that has it for its own cancels  *)
(* the row it was shown before it asks for another (scheduleDraft in       *)
(* AppShell.tsx), and any other row is one the view has not shown yet.     *)
THEOREM AlwaysOneSchedule == ActionsSpec => []OneSchedulePerDraft
<1>1. ActionsInv => OneSchedulePerDraft
  <2> SUFFICES ASSUME ActionsInv, NEW d \in Drafts, d \notin doubted PROVE Cardinality(rows[d]) <= 1
    BY DEF OneSchedulePerDraft
  <2>1. \A v, w \in rows[d] : v = w
    BY DEF ActionsInv, FewRows, Free
  <2>2. CASE rows[d] = {}
    BY <2>2, FS_EmptySet
  <2>3. CASE rows[d] # {}
    <3>1. PICK w : w \in rows[d]
      BY <2>3
    <3>2. rows[d] = {w}
      BY <2>1, <3>1
    <3>3. Cardinality({w}) = 1
      BY FS_Singleton
    <3> QED BY <3>2, <3>3
  <2> QED BY <2>2, <2>3
<1> QED BY <1>1, ActionsInvHolds, PTL

(* What is queued is what the reviewer saw when the hold began, for every  *)
(* draft that is neither in doubt nor was freed under a call: no save is   *)
(* under way on it while an approval is held or sent (HoldConfirmButton    *)
(* and busyUuid in AppShell.tsx), however many calls there are.            *)
THEOREM AlwaysApprovedAsShown == ActionsSpec => []ApprovedAsShown
<1>1. ActionsInv => ApprovedAsShown
  BY DEF ActionsInv
<1> QED BY <1>1, ActionsInvHolds, PTL

(* The editor of Approvals is closed by the reviewer, who may also leave   *)
(* the view, or by a call of this view that has gone well, never by one    *)
(* that fails or was left, whatever is under way beside it.                *)
THEOREM EditAlwaysSurvivesFailure == ActionsSpec => EditSurvivesFailure
<1> DEFINE Closes == \/ CancelEdit \/ LeaveApprovals
                     \/ \E c \in Calls \ left : calls[c].step = "main" /\ calls[c].net = "ok"
<1>1. ASSUME ActionsNext, editing # NoDraft, editing' = NoDraft PROVE Closes
  <2>1. ASSUME NEW d \in Drafts, BeginHold(d) \/ BeginEdit(d) \/ ToggleReject(d) \/ Other(d)
        PROVE  FALSE
    BY <1>1, <2>1, ActionsAssumption DEF BeginHold, BeginEdit, ToggleReject, Other, marks
  <2>2. ASSUME \/ ReleaseHold \/ ExecutedLate
               \/ \E g \in Reloaders : ReadOwn(g) \/ LandOwn(g)
               \/ \E g \in Calls \cup Reloaders : ReadLater(g)
        PROVE  FALSE
    BY <1>1, <2>2 DEF ReleaseHold, ExecutedLate, ReadOwn, LandOwn, ReadLater, marks
  <2>3. ASSUME NEW c \in Calls, FireHold(c) \/ SaveDraft(c) PROVE FALSE
    BY <1>1, <2>3 DEF FireHold, SaveDraft
  <2>4. ASSUME NEW c \in Calls, NEW d \in Drafts, ScheduleDraft(c, d) \/ CancelSchedule(c, d)
        PROVE  FALSE
    BY <1>1, <2>4 DEF ScheduleDraft, CancelSchedule
  <2>5. ASSUME NEW c \in Calls, Executed(c) \/ Refused(c) \/ RefusedAfterwards(c) \/ TimeOut(c)
        PROVE  FALSE
    BY <1>1, <2>5 DEF Executed, Refused, RefusedAfterwards, TimeOut, marks
  <2>6. ASSUME NEW c \in Calls,
               Replaced(c) \/ NotReplaced(c) \/ Failed(c) \/ ReadLists(c) \/ LandLists(c)
        PROVE  FALSE
    BY <1>1, <2>6 DEF Replaced, NotReplaced, Failed, ReadLists, LandLists, marks
  <2>7. ASSUME NEW c \in Calls, Answered(c)
        PROVE  c \notin left /\ calls[c].step = "main" /\ calls[c].net = "ok"
    BY <1>1, <2>7 DEF Answered
  <2> QED BY <1>1, <2>1, <2>2, <2>3, <2>4, <2>5, <2>6, <2>7 DEF ActionsNext
<1>2. [ActionsNext]_actionsVars =>
        [editing # NoDraft /\ editing' = NoDraft => Closes]_actionsVars
  BY <1>1
<1> QED BY <1>2, PTL DEF ActionsSpec, EditSurvivesFailure
=============================================================================
