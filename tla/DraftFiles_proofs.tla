------------------------- MODULE DraftFiles_proofs -------------------------
(***************************************************************************)
(* Proofs about DraftFiles for any clients, texts and bounds.  However     *)
(* calls overlap: the types, that a draft is always accounted for, that    *)
(* the do_not_reply safeguard is respected and that every send is backed   *)
(* by an approve call.  For calls that do not overlap, and may die and be  *)
(* retried anywhere: that nothing is lost, that outbox/ and rejected/ hold *)
(* whole messages, and that DraftFiles implements DraftLifecycle.          *)
(***************************************************************************)
EXTENDS DraftFiles, FiniteSetTheorems, TLAPS

(* A call under way is one of Calls, and a write has content to write.     *)
CallOK(c) ==
  /\ pc[c] # "idle" => call[c] \in Calls
  /\ pc[c] \in {"exists", "discard", "move"} => call[c].op # "edit"
  /\ pc[c] \in {"open", "write"} => buf[c] \in Contents
  /\ fd[c] # Nowhere => pc[c] = "write"

TInv == TypeOK /\ \A c \in Clients : CallOK(c)

LEMMA CallFields ==
  ASSUME NEW k \in Calls
  PROVE  /\ k = [op |-> k.op, override |-> k.override, text |-> k.text]
         /\ k.op \in Ops
         /\ k.override \in BOOLEAN
         /\ k.op = "edit" => k.text \in Texts
  BY DEF Calls, Ops

LEMMA NewContentType ==
  ASSUME NEW content \in Contents, NEW k \in Calls
  PROVE  NewContent(content, k) \in Contents
  BY CallFields
     DEF NewContent, ReplaceDraftBody, AddRejectMetadata, WriteOutboxContent, Contents, Ops

LEMMA OverwriteType ==
  ASSUME NEW old, NEW new \in Contents, NEW r \in Overwrite(old, new)
  PROVE  /\ r \in Contents
         /\ r.noReply = new.noReply
         /\ r.override = new.override
  BY DEF Overwrite, Contents

LEMMA RenameType ==
  ASSUME TInv, NEW from \in Names, NEW to \in Names, Rename(from, to)
  PROVE  /\ file' \in [Names -> Contents \cup {Empty, Absent}]
         /\ fd' \in [Clients -> Names \cup {Nowhere}]
         /\ \A c \in Clients : fd'[c] # Nowhere => fd[c] # Nowhere
  BY DEF Rename, TInv, TypeOK, Names, Nowhere

LEMMA TmpTargetNames == \A op : Tmp(op) \in Names /\ Target(op) \in Names
  BY DEF Tmp, Target, Names

LEMMA TypeInit == Init => TInv
  BY ConstantsAssumption DEF Init, TInv, TypeOK, CallOK, Names, PCs, Contents

LEMMA TypeStep == TInv /\ [Next]_vars => TInv'
<1> SUFFICES ASSUME TInv, [Next]_vars PROVE TInv'
  OBVIOUS
<1> USE ConstantsAssumption DEF TInv, TypeOK, CallOK
<1>1. ASSUME NEW c \in Clients, Begin(c) PROVE TInv'
  <2>1. PICK k \in Calls :
          /\ call' = [call EXCEPT ![c] = k]
          /\ approvals' = IF k.op = "approve" THEN approvals + 1 ELSE approvals
    BY <1>1 DEF Begin
  <2>2. TypeOK'
    BY <1>1, <2>1 DEF Begin, Goto, files, PCs
  <2>3. ASSUME NEW d \in Clients PROVE CallOK(d)'
    BY <1>1, <2>1 DEF Begin, Goto, files, PCs
  <2>4. QED
    BY <2>2, <2>3
<1>2. ASSUME NEW c \in Clients, FindDraftPath(c) PROVE TInv'
  BY <1>2 DEF FindDraftPath, Goto, Leave, files, counters, PCs, Present
<1>3. ASSUME NEW c \in Clients, CheckDestination(c) PROVE TInv'
  BY <1>3 DEF CheckDestination, Goto, Leave, files, counters, PCs
<1>4. ASSUME NEW c \in Clients, DiscardDraft(c) PROVE TInv'
  BY <1>4 DEF DiscardDraft, Unlink, Leave, counters, PCs, Names
<1>5. ASSUME NEW c \in Clients, ReadDraft(c) PROVE TInv'
  <2>1. CASE pc'[c] = "idle"
    BY <1>5, <2>1 DEF ReadDraft, Goto, Leave, files, counters, PCs
  <2>2. CASE pc'[c] # "idle"
    <3>1. /\ file["draft"] \in Contents
          /\ call[c] \in Calls
          /\ buf' = [buf EXCEPT ![c] = NewContent(file["draft"], call[c])]
          /\ pc' = [pc EXCEPT ![c] = "open"]
          /\ UNCHANGED <<files, fd, counters, call, found>>
      BY <1>5, <2>2 DEF ReadDraft, Goto, Leave
    <3>2. NewContent(file["draft"], call[c]) \in Contents
      BY <3>1, NewContentType
    <3>3. TypeOK'
      BY <3>1, <3>2 DEF files, counters, PCs
    <3>4. ASSUME NEW d \in Clients PROVE CallOK(d)'
      <4>1. CASE d = c
        BY <3>1, <3>2, <1>5, <4>1 DEF files, counters, ReadDraft
      <4>2. CASE d # c
        BY <3>1, <4>2 DEF files, counters
      <4>3. QED
        BY <4>1, <4>2
    <3>5. QED
      BY <3>3, <3>4
  <2>3. QED
    BY <2>1, <2>2
<1>6. ASSUME NEW c \in Clients, OpenTmp(c) PROVE TInv'
  BY <1>6 DEF OpenTmp, Goto, Tmp, counters, PCs, Names
<1>7. ASSUME NEW c \in Clients, WriteTmp(c) PROVE TInv'
  BY <1>7, OverwriteType DEF WriteTmp, Goto, counters, PCs, Names
<1>8. ASSUME NEW c \in Clients, CommitTmp(c) PROVE TInv'
  <2>1. CASE Present(Tmp(call[c].op))
    <3>1. Rename(Tmp(call[c].op), Target(call[c].op))
      BY <1>8, <2>1 DEF CommitTmp
    <3>2. /\ file' \in [Names -> Contents \cup {Empty, Absent}]
          /\ fd' \in [Clients -> Names \cup {Nowhere}]
          /\ \A d \in Clients : fd'[d] # Nowhere => fd[d] # Nowhere
      BY <3>1, RenameType, TmpTargetNames
    <3>3. QED
      BY <1>8, <2>1, <3>2 DEF CommitTmp, Goto, Leave, counters, PCs
  <2>2. CASE ~Present(Tmp(call[c].op))
    BY <1>8, <2>2 DEF CommitTmp, Leave, counters, PCs
  <2>3. QED
    BY <2>1, <2>2
<1>9. ASSUME NEW c \in Clients, MoveDraft(c) PROVE TInv'
  <2>1. CASE Rename("draft", "rejected")
    <3>1. /\ file' \in [Names -> Contents \cup {Empty, Absent}]
          /\ fd' \in [Clients -> Names \cup {Nowhere}]
          /\ \A d \in Clients : fd'[d] # Nowhere => fd[d] # Nowhere
      BY <2>1, RenameType DEF Names
    <3>2. QED
      BY <1>9, <3>1 DEF MoveDraft, Leave, counters, PCs
  <2>2. CASE ~Rename("draft", "rejected")
    BY <1>9, <2>2 DEF MoveDraft, Unlink, Leave, counters, PCs, Names
  <2>3. QED
    BY <2>1, <2>2
<1>10. ASSUME NEW c \in Clients, Abort(c) PROVE TInv'
  BY <1>10 DEF Abort, Leave, files, PCs
<1>11. ASSUME Drain PROVE TInv'
  <2>1. /\ file' \in [Names -> Contents \cup {Empty, Absent}]
        /\ fd' \in [Clients -> Names \cup {Nowhere}]
        /\ \A d \in Clients : fd'[d] # Nowhere => fd[d] # Nowhere
    BY <1>11, RenameType DEF Drain, Names
  <2>2. QED
    BY <1>11, <2>1 DEF Drain, counters
<1>12. CASE UNCHANGED vars
  BY <1>12 DEF vars
<1>13. QED
  BY <1>1, <1>2, <1>3, <1>4, <1>5, <1>6, <1>7, <1>8, <1>9, <1>10, <1>11, <1>12
     DEF Next, Step

(* Every variable keeps its type, whatever calls overlap and abort.        *)
THEOREM TypeCorrect == Spec => []TypeOK
<1>1. Spec => []TInv
  BY TypeInit, TypeStep, PTL DEF Spec
<1>2. TInv => TypeOK
  BY DEF TInv
<1>3. QED
  BY <1>1, <1>2, PTL

-----------------------------------------------------------------------------
(* A draft is accounted for.  A client about to unlink the draft has seen  *)
(* or created its destination, and the agent only moves that file on.      *)

Delivered == \E n \in {"outbox", "rejected", "sent", "errors"} : Present(n)

Unlinking(c) == pc[c] = "discard" \/ (pc[c] = "move" /\ call[c].op = "approve")

AInv == DraftAccountedFor /\ \A c \in Clients : Unlinking(c) => Delivered

(* writeFile removes no file.                                              *)
LEMMA WriteKeepsFiles ==
  ASSUME TInv, NEW c \in Clients, WriteTmp(c), NEW n \in Names, Present(n)
  PROVE  Present(n)'
<1> USE DEF TInv, TypeOK, Present
<1>1. CASE fd[c] = Nowhere
  BY <1>1 DEF WriteTmp
<1>2. CASE fd[c] # Nowhere
  <2>1. PICK content \in Overwrite(file[fd[c]], buf[c]) :
          file' = [file EXCEPT ![fd[c]] = content]
    BY <1>2 DEF WriteTmp
  <2>2. buf[c] \in Contents
    BY DEF WriteTmp, CallOK
  <2>3. content # Absent
    BY <2>1, <2>2, OverwriteType, SentinelAssumption
  <2>4. QED
    BY <2>1, <2>3
<1>3. QED
  BY <1>1, <1>2

(* Once a destination file exists, one always does.                        *)
LEMMA DeliveredStays == TInv /\ [Next]_vars /\ Delivered => Delivered'
<1> SUFFICES ASSUME TInv, [Next]_vars, Delivered PROVE Delivered'
  OBVIOUS
<1> USE ConstantsAssumption DEF TInv, TypeOK, Delivered, Present, Names
<1>1. ASSUME NEW c \in Clients, Begin(c) \/ FindDraftPath(c) \/ CheckDestination(c)
                                \/ ReadDraft(c) \/ Abort(c)
      PROVE  Delivered'
  BY <1>1 DEF Begin, FindDraftPath, CheckDestination, ReadDraft, Abort, files
<1>2. ASSUME NEW c \in Clients, DiscardDraft(c) PROVE Delivered'
  BY <1>2 DEF DiscardDraft, Unlink
<1>3. ASSUME NEW c \in Clients, OpenTmp(c) PROVE Delivered'
  BY <1>3 DEF OpenTmp, Tmp
<1>4. ASSUME NEW c \in Clients, WriteTmp(c) PROVE Delivered'
  BY <1>4, WriteKeepsFiles
<1>5. ASSUME NEW c \in Clients, CommitTmp(c) PROVE Delivered'
  BY <1>5 DEF CommitTmp, Rename, Tmp, Target
<1>6. ASSUME NEW c \in Clients, MoveDraft(c) PROVE Delivered'
  BY <1>6 DEF MoveDraft, Rename, Unlink
<1>7. ASSUME Drain PROVE Delivered'
  BY <1>7 DEF Drain, Rename
<1>8. CASE UNCHANGED vars
  BY <1>8 DEF vars
<1>9. QED
  BY <1>1, <1>2, <1>3, <1>4, <1>5, <1>6, <1>7, <1>8 DEF Next, Step

(* While nothing is delivered nobody is about to unlink the draft, so no   *)
(* step can take it away without delivering it.                            *)
LEMMA UndeliveredStep ==
  ASSUME TInv, AInv, [Next]_vars, ~Delivered
  PROVE  AInv'
<1> USE ConstantsAssumption DEF TInv, TypeOK, AInv, DraftAccountedFor, Delivered, Unlinking,
        Present, Names
<1>1. Present("draft")
  OBVIOUS
<1>2. ASSUME NEW c \in Clients, Begin(c) PROVE AInv'
  BY <1>1, <1>2 DEF Begin, Goto, files
<1>3. ASSUME NEW c \in Clients, FindDraftPath(c) PROVE AInv'
  BY <1>1, <1>3 DEF FindDraftPath, Goto, Leave, files
<1>4. ASSUME NEW c \in Clients, CheckDestination(c) PROVE AInv'
  BY <1>1, <1>4 DEF CheckDestination, Destination, Goto, Leave, files
<1>5. ASSUME NEW c \in Clients, DiscardDraft(c) PROVE AInv'
  BY <1>5 DEF DiscardDraft
<1>6. ASSUME NEW c \in Clients, ReadDraft(c) PROVE AInv'
  BY <1>1, <1>6 DEF ReadDraft, Goto, Leave, files
<1>7. ASSUME NEW c \in Clients, OpenTmp(c) PROVE AInv'
  BY <1>1, <1>7 DEF OpenTmp, Tmp, Goto
<1>8. ASSUME NEW c \in Clients, WriteTmp(c) PROVE AInv'
  <2>1. Present("draft")'
    BY <1>1, <1>8, WriteKeepsFiles
  <2>2. \A d \in Clients : ~Unlinking(d)'
    BY <1>8 DEF WriteTmp, Goto
  <2>3. QED
    BY <2>1, <2>2
<1>9. ASSUME NEW c \in Clients, CommitTmp(c) PROVE AInv'
  BY <1>1, <1>9 DEF CommitTmp, Rename, Tmp, Target, Goto, Leave
<1>10. ASSUME NEW c \in Clients, MoveDraft(c) PROVE AInv'
  BY <1>1, <1>10 DEF MoveDraft, Rename, Leave
<1>11. ASSUME NEW c \in Clients, Abort(c) PROVE AInv'
  BY <1>1, <1>11 DEF Abort, Leave, files
<1>12. ASSUME Drain PROVE AInv'
  BY <1>12 DEF Drain
<1>13. CASE UNCHANGED vars
  BY <1>1, <1>13 DEF vars
<1>14. QED
  BY <1>2, <1>3, <1>4, <1>5, <1>6, <1>7, <1>8, <1>9, <1>10, <1>11, <1>12, <1>13 DEF Next, Step

LEMMA AccountedInit == Init => AInv
<1> SUFFICES ASSUME Init PROVE AInv
  OBVIOUS
<1>1. file["draft"] \in Contents
  BY DEF Init, Names, Contents
<1>2. Present("draft")
  BY <1>1, SentinelAssumption DEF Present
<1>3. \A c \in Clients : ~Unlinking(c)
  BY DEF Init, Unlinking
<1>4. QED
  BY <1>2, <1>3 DEF AInv, DraftAccountedFor

LEMMA AccountedStep == TInv /\ AInv /\ [Next]_vars => AInv'
<1> SUFFICES ASSUME TInv, AInv, [Next]_vars PROVE AInv'
  OBVIOUS
<1>1. CASE Delivered
  BY <1>1, DeliveredStays DEF AInv, Delivered, DraftAccountedFor
<1>2. CASE ~Delivered
  BY <1>2, UndeliveredStep
<1>3. QED
  BY <1>1, <1>2

(* However calls overlap and wherever they are cut short, the message is   *)
(* in some folder: approve and reject never unlink the last trace of it.   *)
THEOREM AlwaysAccountedFor == Spec => []DraftAccountedFor
<1>1. AInv => DraftAccountedFor
  BY DEF AInv
<1>2. QED
  BY AccountedInit, AccountedStep, <1>1, TypeInit, TypeStep, PTL DEF Spec

-----------------------------------------------------------------------------
(* The do_not_reply safeguard.  The files the agent may come to read hold  *)
(* only cleared content, and only approve calls have one of them open.     *)

QueueNames == {"outbox", "outboxTmp", "sent", "errors"}

Cleared(content) == content \in Contents /\ content.noReply => content.override

SInv ==
  /\ \A n \in QueueNames : Cleared(file[n])
  /\ \A c \in Clients :
       /\ pc[c] \in {"open", "write"} /\ call[c].op = "approve" => Cleared(buf[c])
       /\ fd[c] \in QueueNames => call[c].op = "approve"

LEMMA ApprovedContentCleared ==
  ASSUME NEW content \in Contents, NEW k \in Calls, k.op = "approve",
         ~SafeguardViolation(content, k)
  PROVE  Cleared(NewContent(content, k))
  BY CallFields DEF SafeguardViolation, Cleared, NewContent, WriteOutboxContent, Contents, Ops

LEMMA SafeguardStep == TInv /\ SInv /\ [Next]_vars => SInv'
<1> SUFFICES ASSUME TInv, SInv, [Next]_vars PROVE SInv'
  OBVIOUS
<1> USE DEF TInv, TypeOK, SInv, QueueNames
<1>1. ASSUME NEW c \in Clients, Begin(c) PROVE SInv'
  BY <1>1 DEF Begin, Goto, files, CallOK, Nowhere
<1>2. ASSUME NEW c \in Clients, FindDraftPath(c) \/ CheckDestination(c) \/ Abort(c) PROVE SInv'
  BY <1>2 DEF FindDraftPath, CheckDestination, Abort, Goto, Leave, files, CallOK, Nowhere
<1>3. ASSUME NEW c \in Clients, DiscardDraft(c) PROVE SInv'
  BY <1>3 DEF DiscardDraft, Unlink, Leave, CallOK, Nowhere, Names
<1>4. ASSUME NEW c \in Clients, ReadDraft(c) PROVE SInv'
  <2>1. CASE pc'[c] = "idle"
    BY <1>4, <2>1 DEF ReadDraft, Goto, Leave, files, CallOK, Nowhere
  <2>2. CASE pc'[c] # "idle"
    <3>1. /\ file["draft"] \in Contents
          /\ call[c] \in Calls
          /\ ~SafeguardViolation(file["draft"], call[c])
          /\ buf' = [buf EXCEPT ![c] = NewContent(file["draft"], call[c])]
          /\ pc' = [pc EXCEPT ![c] = "open"]
          /\ UNCHANGED <<files, fd, counters, call, found>>
      BY <1>4, <2>2 DEF ReadDraft, Goto, Leave, CallOK
    <3>2. call[c].op = "approve" => Cleared(NewContent(file["draft"], call[c]))
      BY <3>1, ApprovedContentCleared
    <3>3. QED
      BY <3>1, <3>2 DEF files
  <2>3. QED
    BY <2>1, <2>2
<1>5. ASSUME NEW c \in Clients, OpenTmp(c) PROVE SInv'
  BY <1>5, SentinelAssumption DEF OpenTmp, Goto, Tmp, Cleared, CallOK, Names
<1>6. ASSUME NEW c \in Clients, WriteTmp(c) PROVE SInv'
  <2>1. \A n \in QueueNames : Cleared(file'[n])
    <3>1. CASE fd[c] = Nowhere
      BY <1>6, <3>1 DEF WriteTmp
    <3>2. CASE fd[c] # Nowhere
      <4>1. PICK content \in Overwrite(file[fd[c]], buf[c]) :
              file' = [file EXCEPT ![fd[c]] = content]
        BY <1>6, <3>2 DEF WriteTmp
      <4>2. buf[c] \in Contents
        BY <1>6 DEF WriteTmp, CallOK
      <4>3. content.noReply = buf[c].noReply /\ content.override = buf[c].override
        BY <4>1, <4>2, OverwriteType
      <4>4. fd[c] \in QueueNames => Cleared(content)
        BY <1>6, <4>2, <4>3 DEF WriteTmp, Cleared
      <4>5. QED
        BY <4>1, <4>4, <3>2
    <3>3. QED
      BY <3>1, <3>2
  <2>2. QED
    BY <1>6, <2>1 DEF WriteTmp, Goto, Nowhere
<1>7. ASSUME NEW c \in Clients, CommitTmp(c) PROVE SInv'
  <2>1. CASE Present(Tmp(call[c].op))
    <3>1. Rename(Tmp(call[c].op), Target(call[c].op))
      BY <1>7, <2>1 DEF CommitTmp
    <3>2. /\ \A n \in QueueNames : Cleared(file'[n])
          /\ \A d \in Clients : fd'[d] \in QueueNames => fd[d] \in QueueNames
      BY <3>1, SentinelAssumption DEF Rename, Tmp, Target, Names, Cleared, Nowhere
    <3>3. QED
      BY <1>7, <2>1, <3>2 DEF CommitTmp, Goto, Leave, CallOK, Nowhere
  <2>2. CASE ~Present(Tmp(call[c].op))
    BY <1>7, <2>2 DEF CommitTmp, Leave, CallOK, Nowhere
  <2>3. QED
    BY <2>1, <2>2
<1>8. ASSUME NEW c \in Clients, MoveDraft(c) PROVE SInv'
  BY <1>8 DEF MoveDraft, Rename, Unlink, Leave, CallOK, Nowhere, Names
<1>9. ASSUME Drain PROVE SInv'
  BY <1>9, SentinelAssumption DEF Drain, Rename, Cleared, Nowhere, Names
<1>10. CASE UNCHANGED vars
  BY <1>10 DEF vars
<1>11. QED
  BY <1>1, <1>2, <1>3, <1>4, <1>5, <1>6, <1>7, <1>8, <1>9, <1>10 DEF Next, Step

(* No do_not_reply draft reaches the outbox or the agent without an        *)
(* override, however many approve calls share the temporary file.          *)
THEOREM SafeguardAlwaysRespected == Spec => []SafeguardRespected
<1>1. Init => SInv
  BY SentinelAssumption DEF Init, SInv, QueueNames, Cleared, Names, Nowhere
<1>2. Spec => []TInv
  BY TypeInit, TypeStep, PTL DEF Spec
<1>3. SInv => SafeguardRespected
  BY DEF SInv, QueueNames, Cleared, SafeguardRespected
<1>4. QED
  BY <1>1, SafeguardStep, <1>2, <1>3, PTL DEF Spec

-----------------------------------------------------------------------------
(* Sends are backed by approvals.  An approve call that has not renamed    *)
(* its temporary file yet is worth one message; so is a file in outbox/.   *)

Pending ==
  {c \in Clients : /\ call[c].op = "approve"
                   /\ pc[c] \in {"find", "exists", "read", "open", "write", "commit"}}

Queued == IF Present("outbox") THEN 1 ELSE 0

OpenFilesExist == \A c \in Clients : fd[c] \in Names => Present(fd[c])

BInv ==
  /\ OpenFilesExist
  /\ sends + Queued + Cardinality(Pending) <= approvals

LEMMA OpenFilesStep == TInv /\ OpenFilesExist /\ [Next]_vars => OpenFilesExist'
<1> SUFFICES ASSUME TInv, OpenFilesExist, [Next]_vars PROVE OpenFilesExist'
  OBVIOUS
<1> USE DEF TInv, TypeOK, OpenFilesExist, Present, Names, Nowhere
<1>1. ASSUME NEW c \in Clients, Begin(c) \/ FindDraftPath(c) \/ CheckDestination(c)
                                \/ ReadDraft(c) \/ Abort(c)
      PROVE  OpenFilesExist'
  BY <1>1 DEF Begin, FindDraftPath, CheckDestination, ReadDraft, Abort, files
<1>2. ASSUME NEW c \in Clients, DiscardDraft(c) PROVE OpenFilesExist'
  BY <1>2 DEF DiscardDraft, Unlink
<1>3. ASSUME NEW c \in Clients, OpenTmp(c) PROVE OpenFilesExist'
  BY <1>3, ConstantsAssumption DEF OpenTmp, Tmp
<1>4. ASSUME NEW c \in Clients, WriteTmp(c) PROVE OpenFilesExist'
  <2>1. \A n \in Names : Present(n) => Present(n)'
    BY <1>4, WriteKeepsFiles
  <2>2. fd' = [fd EXCEPT ![c] = Nowhere]
    BY <1>4 DEF WriteTmp
  <2>3. QED
    BY <2>1, <2>2
<1>5. ASSUME NEW c \in Clients, CommitTmp(c) PROVE OpenFilesExist'
  BY <1>5 DEF CommitTmp, Rename, Tmp, Target
<1>6. ASSUME NEW c \in Clients, MoveDraft(c) PROVE OpenFilesExist'
  BY <1>6 DEF MoveDraft, Rename, Unlink
<1>7. ASSUME Drain PROVE OpenFilesExist'
  BY <1>7 DEF Drain, Rename
<1>8. CASE UNCHANGED vars
  BY <1>8 DEF vars
<1>9. QED
  BY <1>1, <1>2, <1>3, <1>4, <1>5, <1>6, <1>7, <1>8 DEF Next, Step

LEMMA PendingFinite == TInv => IsFiniteSet(Pending) /\ Cardinality(Pending) \in Nat
<1>1. IsFiniteSet(Clients) /\ Pending \subseteq Clients
  BY ConstantsAssumption DEF Pending
<1>2. IsFiniteSet(Pending)
  BY <1>1, FS_Subset
<1>3. QED
  BY <1>2, FS_CardinalityType

LEMMA SumStaysBelow ==
  ASSUME NEW s \in Nat, NEW q \in Nat, NEW p \in Nat, NEW a \in Nat,
         NEW s1 \in Nat, NEW q1 \in Nat, NEW p1 \in Nat,
         s + q + p <= a, s1 + q1 <= s + q, p1 <= p
  PROVE  s1 + q1 + p1 <= a
  OBVIOUS

(* A step that lets no client start an approve call and queues nothing.    *)
LEMMA PendingShrinks ==
  ASSUME TInv, BInv, Pending' \subseteq Pending,
         sends' + Queued' <= sends + Queued, approvals' = approvals, TInv'
  PROVE  sends' + Queued' + Cardinality(Pending') <= approvals'
<1>1. Cardinality(Pending') <= Cardinality(Pending) /\ Cardinality(Pending') \in Nat
  BY PendingFinite, FS_Subset, FS_CardinalityType
<1>2. /\ sends \in Nat /\ sends' \in Nat /\ approvals \in Nat
      /\ Queued \in 0..1 /\ Queued' \in 0..1
  BY DEF TInv, TypeOK, Queued
<1>3. Cardinality(Pending) \in Nat
  BY PendingFinite
<1>4. sends + Queued + Cardinality(Pending) <= approvals
  BY DEF BInv
<1>5. /\ sends' \in Nat /\ Queued' \in Nat /\ sends \in Nat /\ Queued \in Nat
      /\ approvals \in Nat
  BY <1>2
<1>6. sends' + Queued' + Cardinality(Pending') <= approvals
  BY ONLY <1>1, <1>3, <1>4, <1>5, SumStaysBelow, sends' + Queued' <= sends + Queued
<1>7. QED
  BY <1>6

LEMMA BackedStep == TInv /\ BInv /\ [Next]_vars => BInv'
<1> SUFFICES ASSUME TInv, BInv, [Next]_vars
             PROVE  sends' + Queued' + Cardinality(Pending') <= approvals'
  BY OpenFilesStep DEF BInv
<1>0. TInv'
  BY TypeStep
<1> USE DEF TInv, TypeOK
<1>1. ASSUME NEW c \in Clients, Begin(c)
      PROVE  sends' + Queued' + Cardinality(Pending') <= approvals'
  <2>1. UNCHANGED <<sends, Queued>>
    BY <1>1 DEF Begin, files, Queued, Present
  <2>2. CASE call'[c].op = "approve"
    <3>1. Pending' = Pending \cup {c} /\ c \notin Pending
      BY <1>1, <2>2 DEF Begin, Pending, Goto
    <3>2. Cardinality(Pending') = Cardinality(Pending) + 1
      BY <3>1, PendingFinite, FS_AddElement
    <3>3. approvals' = approvals + 1
      BY <1>1, <2>2 DEF Begin
    <3>4. QED
      BY <2>1, <3>2, <3>3, PendingFinite DEF BInv, Queued
  <2>3. CASE call'[c].op # "approve"
    <3>1. Pending' \subseteq Pending
      BY <1>1, <2>3 DEF Begin, Pending, Goto
    <3>2. approvals' = approvals
      BY <1>1, <2>3 DEF Begin
    <3>3. QED
      BY <1>0, <2>1, <3>1, <3>2, PendingShrinks DEF Queued
  <2>4. QED
    BY <2>2, <2>3
<1>2. ASSUME NEW c \in Clients,
             FindDraftPath(c) \/ CheckDestination(c) \/ ReadDraft(c) \/ Abort(c)
      PROVE  sends' + Queued' + Cardinality(Pending') <= approvals'
  <2>1. UNCHANGED <<sends, Queued, approvals>>
    BY <1>2 DEF FindDraftPath, CheckDestination, ReadDraft, Abort, files, counters, Queued, Present
  <2>2. Pending' \subseteq Pending
    BY <1>2 DEF FindDraftPath, CheckDestination, ReadDraft, Abort, Goto, Leave, Pending, NoCall
  <2>3. QED
    BY <1>0, <2>1, <2>2, PendingShrinks DEF Queued
<1>3. ASSUME NEW c \in Clients, DiscardDraft(c) \/ MoveDraft(c)
      PROVE  sends' + Queued' + Cardinality(Pending') <= approvals'
  <2>1. UNCHANGED <<sends, Queued, approvals>>
    BY <1>3 DEF DiscardDraft, MoveDraft, Unlink, Rename, counters, Queued, Present, Names
  <2>2. Pending' \subseteq Pending
    BY <1>3 DEF DiscardDraft, MoveDraft, Leave, Pending, NoCall
  <2>3. QED
    BY <1>0, <2>1, <2>2, PendingShrinks DEF Queued
<1>4. ASSUME NEW c \in Clients, OpenTmp(c)
      PROVE  sends' + Queued' + Cardinality(Pending') <= approvals'
  <2>1. UNCHANGED <<sends, Queued, approvals>>
    BY <1>4 DEF OpenTmp, Tmp, counters, Queued, Present, Names
  <2>2. Pending' \subseteq Pending
    BY <1>4 DEF OpenTmp, Goto, Pending
  <2>3. QED
    BY <1>0, <2>1, <2>2, PendingShrinks DEF Queued
<1>5. ASSUME NEW c \in Clients, WriteTmp(c)
      PROVE  sends' + Queued' + Cardinality(Pending') <= approvals'
  <2>1. Queued' = Queued
    <3>1. CASE fd[c] = "outbox"
      <4>1. "outbox" \in Names /\ Present("outbox")
        BY <3>1 DEF BInv, OpenFilesExist, Names
      <4>2. Present("outbox")'
        BY <1>5, <4>1, WriteKeepsFiles
      <4>3. QED
        BY <4>1, <4>2 DEF Queued
    <3>2. CASE fd[c] # "outbox"
      BY <1>5, <3>2 DEF WriteTmp, Present, Names, Queued
    <3>3. QED
      BY <3>1, <3>2
  <2>2. UNCHANGED <<sends, Queued, approvals>>
    BY <1>5, <2>1 DEF WriteTmp, counters
  <2>3. Pending' \subseteq Pending
    BY <1>5 DEF WriteTmp, Goto, Pending
  <2>4. QED
    BY <1>0, <2>2, <2>3, PendingShrinks DEF Queued
<1>6. ASSUME NEW c \in Clients, CommitTmp(c)
      PROVE  sends' + Queued' + Cardinality(Pending') <= approvals'
  <2>1. CASE call[c].op = "approve"
    <3>1. c \in Pending /\ Pending' = Pending \ {c}
      BY <1>6, <2>1 DEF CommitTmp, Goto, Leave, Pending, NoCall
    <3>2. Cardinality(Pending') = Cardinality(Pending) - 1
      BY <3>1, PendingFinite, FS_RemoveElement
    <3>3. Queued' \in 0..1 /\ Queued \in 0..1 /\ UNCHANGED <<sends, approvals>>
      BY <1>6 DEF CommitTmp, counters, Queued
    <3>4. QED
      BY <3>2, <3>3, PendingFinite DEF BInv
  <2>2. CASE call[c].op # "approve"
    <3>1. UNCHANGED <<sends, Queued, approvals>>
      BY <1>6, <2>2 DEF CommitTmp, Rename, Tmp, Target, counters, Queued, Present, Names
    <3>2. Pending' \subseteq Pending
      BY <1>6, <2>2 DEF CommitTmp, Goto, Leave, Pending, NoCall
    <3>3. QED
      BY <1>0, <3>1, <3>2, PendingShrinks DEF Queued
  <2>3. QED
    BY <2>1, <2>2
<1>7. ASSUME Drain
      PROVE  sends' + Queued' + Cardinality(Pending') <= approvals'
  <2>1. sends' + Queued' <= sends + Queued
    BY <1>7 DEF Drain, Rename, Queued, Present, Names
  <2>2. Pending' \subseteq Pending /\ approvals' = approvals
    BY <1>7 DEF Drain, Pending, counters
  <2>3. QED
    BY <1>0, <2>1, <2>2, PendingShrinks
<1>8. CASE UNCHANGED vars
  BY <1>8, <1>0, PendingShrinks DEF vars, Pending, Queued, Present
<1>9. QED
  BY <1>1, <1>2, <1>3, <1>4, <1>5, <1>6, <1>7, <1>8 DEF Next, Step

(* However calls overlap, retry and abort, the agent never sends more      *)
(* messages than people made approve calls.                                *)
THEOREM SendsAlwaysBacked == Spec => []SendsBackedByApprovals
<1>1. Init => BInv
  <2> SUFFICES ASSUME Init PROVE BInv
    OBVIOUS
  <2>1. Pending = {} /\ Queued = 0 /\ OpenFilesExist
    BY DEF Init, Pending, Queued, Present, OpenFilesExist, Names, Nowhere
  <2>2. QED
    BY <2>1, FS_EmptySet DEF Init, BInv
<1>2. Spec => []TInv
  BY TypeInit, TypeStep, PTL DEF Spec
<1>3. TInv /\ BInv => SendsBackedByApprovals
  BY PendingFinite DEF BInv, Queued, SendsBackedByApprovals, TInv, TypeOK
<1>4. QED
  BY <1>1, BackedStep, <1>2, <1>3, PTL DEF Spec
-----------------------------------------------------------------------------
(* Calls that do not overlap.  Any number of clients may call, crash and   *)
(* retry, and the agent runs all the while, but a call begins only when no *)
(* other is under way: the behaviours in which Alone always holds.         *)

Alone == \A c, d \in Clients : pc[c] # "idle" /\ pc[d] # "idle" => c = d

(* The folders a person or the agent looks at hold whole messages; a draft *)
(* leaves drafts/ for good when it is rejected.                            *)
WholeNames == {"draft", "outbox", "rejected", "sent"}

FilesWhole ==
  /\ \A n \in WholeNames : file[n] # Empty
  /\ file["errors"] = Absent
  /\ Present("rejected") => ~Present("draft") /\ file["rejected"].marked
  /\ Present("sent") => sends >= 1

(* What the one call under way has established at each of its steps.       *)
CallWhole(c) ==
  /\ pc[c] \in {"discard", "read", "open", "write", "commit", "move"} => Present("draft")
  /\ pc[c] = "exists" /\ found[c] => Present("draft")
  /\ pc[c] \in {"read", "open", "write", "commit"} /\ call[c].op = "approve"
       => ~Present("outbox")
  /\ pc[c] \in {"open", "write", "commit"} =>
       /\ buf[c] = NewContent(file["draft"], call[c])
       /\ ~SafeguardViolation(file["draft"], call[c])
  /\ pc[c] = "write" => fd[c] = Tmp(call[c].op) /\ file[Tmp(call[c].op)] = Empty
  /\ pc[c] = "commit" => file[Tmp(call[c].op)] = buf[c]
  /\ pc[c] = "move" /\ call[c].op = "reject" => file["draft"].marked

WInv == FilesWhole /\ \A c \in Clients : CallWhole(c)

LEMMA WholeInit == Init => WInv
<1> SUFFICES ASSUME Init PROVE WInv
  OBVIOUS
<1>1. file["draft"] \in Contents /\ \A n \in Names \ {"draft"} : file[n] = Absent
  BY DEF Init, Names, Contents
<1>2. FilesWhole
  BY <1>1, SentinelAssumption, ConstantsAssumption DEF FilesWhole, WholeNames, Names, Present
<1>3. QED
  BY <1>2 DEF Init, WInv, CallWhole

(* A step of the one call under way leaves the idle clients idle.          *)
LEMMA OnlyCallSteps ==
  ASSUME TInv, Alone, NEW c \in Clients, pc[c] # "idle", NEW l, Goto(c, l),
         FilesWhole', CallWhole(c)'
  PROVE  WInv'
<1> SUFFICES ASSUME NEW d \in Clients, d # c PROVE CallWhole(d)'
  BY DEF WInv
<1>1. pc'[d] = "idle"
  BY DEF Alone, Goto, TInv, TypeOK
<1>2. QED
  BY <1>1 DEF CallWhole

(* A call that has returned has nothing left to keep.                      *)
LEMMA OnlyCallLeaves ==
  ASSUME TInv, Alone, NEW c \in Clients, pc[c] # "idle", Leave(c), FilesWhole'
  PROVE  WInv'
<1>1. Goto(c, "idle") /\ pc'[c] = "idle"
  BY DEF Leave, Goto, TInv, TypeOK
<1>2. CallWhole(c)'
  BY <1>1 DEF CallWhole
<1>3. QED
  BY <1>1, <1>2, OnlyCallSteps

LEMMA DraftHeld ==
  ASSUME TInv, WInv, NEW c \in Clients,
         pc[c] \in {"discard", "read", "open", "write", "commit", "move"}
  PROVE  file["draft"] \in Contents /\ call[c] \in Calls
<1>1. file["draft"] # Empty /\ file["draft"] # Absent
  BY DEF WInv, FilesWhole, WholeNames, CallWhole, Present
<1>2. QED
  BY <1>1 DEF TInv, TypeOK, CallOK, Names

(* What an edit, a reject and an approve call write.                       *)
LEMMA NewContentIs ==
  ASSUME NEW content \in Contents, NEW k \in Calls
  PROVE  /\ NewContent(content, k).noReply = content.noReply
         /\ k.op = "edit" => /\ NewContent(content, k).text \in Texts
                             /\ NewContent(content, k).override = content.override
         /\ k.op = "reject" => /\ NewContent(content, k).marked
                               /\ NewContent(content, k).text = content.text
                               /\ NewContent(content, k).override = content.override
         /\ k.op = "approve" => /\ NewContent(content, k).text = content.text
                                /\ NewContent(content, k).override = k.override
  BY CallFields
     DEF NewContent, ReplaceDraftBody, AddRejectMetadata, WriteOutboxContent, Contents, Ops

(* The rename of atomicWrite in a call that is alone: the temporary file   *)
(* holds what the call wrote.                                              *)
LEMMA CommitIs ==
  ASSUME TInv, WInv, NEW c \in Clients, CommitTmp(c)
  PROVE  /\ file["draft"] \in Contents /\ call[c] \in Calls
         /\ NewContent(file["draft"], call[c]) \in Contents
         /\ ~SafeguardViolation(file["draft"], call[c])
         /\ Rename(Tmp(call[c].op), Target(call[c].op))
         /\ file[Tmp(call[c].op)] = NewContent(file["draft"], call[c])
<1>1. pc[c] = "commit"
  BY DEF CommitTmp
<1>2. file["draft"] \in Contents /\ call[c] \in Calls
  BY <1>1, DraftHeld
<1>3. NewContent(file["draft"], call[c]) \in Contents
  BY <1>2, NewContentType
<1>4. /\ file[Tmp(call[c].op)] = NewContent(file["draft"], call[c])
      /\ ~SafeguardViolation(file["draft"], call[c])
  BY <1>1 DEF WInv, CallWhole
<1>5. Present(Tmp(call[c].op))
  BY <1>3, <1>4, SentinelAssumption DEF Present
<1>6. QED
  BY <1>2, <1>3, <1>4, <1>5 DEF CommitTmp

LEMMA WholeStep == TInv /\ WInv /\ Alone /\ [Next]_vars => WInv'
<1> SUFFICES ASSUME TInv, WInv, Alone, [Next]_vars PROVE WInv'
  OBVIOUS
<1> USE DEF WInv
<1>1. ASSUME NEW c \in Clients, Begin(c) PROVE WInv'
  <2>1. UNCHANGED files
    BY <1>1 DEF Begin
  <2>2. FilesWhole'
    BY <2>1 DEF files, FilesWhole, Present
  <2>3. ASSUME NEW d \in Clients PROVE CallWhole(d)'
    BY <1>1, <2>1 DEF Begin, Goto, files, TInv, TypeOK, CallWhole, Present
  <2>4. QED
    BY <2>2, <2>3
<1>2. ASSUME NEW c \in Clients, FindDraftPath(c) PROVE WInv'
  <2>1. FilesWhole' /\ pc[c] # "idle"
    BY <1>2 DEF FindDraftPath, files, FilesWhole, Present
  <2>2. CASE Leave(c)
    BY <2>1, <2>2, OnlyCallLeaves
  <2>3. CASE Goto(c, "read") /\ call[c].op = "edit"
    <3>1. CallWhole(c)'
      BY <1>2, <2>3 DEF FindDraftPath, Goto, Leave, CallWhole, files, TInv, TypeOK, Present
    <3>2. QED
      BY <2>1, <2>3, <3>1, OnlyCallSteps
  <2>4. CASE Goto(c, "exists")
    <3>1. CallWhole(c)'
      BY <1>2, <2>4 DEF FindDraftPath, Goto, Leave, CallWhole, files, TInv, TypeOK, Present
    <3>2. QED
      BY <2>1, <2>4, <3>1, OnlyCallSteps
  <2>5. QED
    BY <1>2, <2>2, <2>3, <2>4 DEF FindDraftPath
<1>3. ASSUME NEW c \in Clients, CheckDestination(c) PROVE WInv'
  <2>1. FilesWhole' /\ pc[c] # "idle"
    BY <1>3 DEF CheckDestination, files, FilesWhole, Present
  <2>2. CASE Leave(c)
    BY <2>1, <2>2, OnlyCallLeaves
  <2>3. CASE ~Leave(c)
    <3> DEFINE l == IF Present(Destination(call[c].op)) THEN "discard" ELSE "read"
    <3>1. Goto(c, l) /\ found[c] /\ UNCHANGED <<call, found, buf, files>>
      BY <1>3, <2>3 DEF CheckDestination
    <3>2. Present("draft")'
      BY <1>3, <3>1 DEF CheckDestination, CallWhole, files, Present
    <3>3. CallWhole(c)'
      BY <3>1, <3>2 DEF Goto, CallWhole, files, TInv, TypeOK, Present, Destination
    <3>4. QED
      BY <2>1, <3>1, <3>3, OnlyCallSteps
  <2>4. QED
    BY <2>2, <2>3
<1>4. ASSUME NEW c \in Clients, DiscardDraft(c) PROVE WInv'
  <2>1. FilesWhole'
    BY <1>4, ConstantsAssumption
       DEF DiscardDraft, Unlink, FilesWhole, WholeNames, Names, Present, TInv, TypeOK
  <2>2. QED
    BY <1>4, <2>1, OnlyCallLeaves DEF DiscardDraft
<1>5. ASSUME NEW c \in Clients, ReadDraft(c) PROVE WInv'
  <2>1. FilesWhole' /\ pc[c] # "idle"
    BY <1>5 DEF ReadDraft, files, FilesWhole, Present
  <2>2. CASE Leave(c)
    BY <2>1, <2>2, OnlyCallLeaves
  <2>3. CASE ~Leave(c)
    <3>1. /\ Goto(c, "open")
          /\ pc[c] = "read"
          /\ ~SafeguardViolation(file["draft"], call[c])
          /\ buf' = [buf EXCEPT ![c] = NewContent(file["draft"], call[c])]
          /\ UNCHANGED <<call, found, file>>
      BY <1>5, <2>3 DEF ReadDraft, files
    <3>2. buf'[c] = NewContent(file["draft"], call[c]) /\ pc'[c] = "open"
      BY <3>1 DEF TInv, TypeOK, Goto
    <3>3. CallWhole(c)'
      BY <3>1, <3>2 DEF CallWhole, Present
    <3>4. QED
      BY <2>1, <3>1, <3>3, OnlyCallSteps
  <2>4. QED
    BY <2>2, <2>3
<1>6. ASSUME NEW c \in Clients, OpenTmp(c) PROVE WInv'
  <2>1. /\ pc[c] = "open" /\ pc'[c] = "write"
        /\ UNCHANGED <<call, found, buf, sends>>
        /\ \A n \in Names : n # Tmp(call[c].op) => file'[n] = file[n]
        /\ file'[Tmp(call[c].op)] = Empty
        /\ fd'[c] = Tmp(call[c].op)
    BY <1>6 DEF OpenTmp, Goto, TInv, TypeOK, Tmp, Names
  <2>2. \A n \in WholeNames \cup {"errors"} : file'[n] = file[n]
    BY <2>1 DEF Tmp, WholeNames, Names
  <2>3. FilesWhole'
    BY <2>1, <2>2 DEF FilesWhole, WholeNames, Present
  <2>4. CallWhole(c)'
    BY <2>1, <2>2 DEF CallWhole, WholeNames, Present
  <2>5. QED
    BY <1>6, <2>1, <2>3, <2>4, OnlyCallSteps DEF OpenTmp
<1>7. ASSUME NEW c \in Clients, WriteTmp(c) PROVE WInv'
  <2>1. /\ pc[c] = "write" /\ pc'[c] = "commit"
        /\ UNCHANGED <<call, found, buf, sends>>
        /\ fd[c] = Tmp(call[c].op) /\ file[Tmp(call[c].op)] = Empty
        /\ fd[c] # Nowhere
    BY <1>7 DEF WriteTmp, Goto, TInv, TypeOK, CallWhole, Tmp, Nowhere
  <2>2. file' = [file EXCEPT ![Tmp(call[c].op)] = buf[c]]
    BY <1>7, <2>1 DEF WriteTmp, Overwrite
  <2>3. /\ \A n \in WholeNames \cup {"errors"} : file'[n] = file[n]
        /\ file'[Tmp(call[c].op)] = buf[c]
    BY <2>2 DEF Tmp, WholeNames, TInv, TypeOK, Names
  <2>4. FilesWhole'
    BY <2>1, <2>3 DEF FilesWhole, WholeNames, Present
  <2>5. CallWhole(c)'
    BY <2>1, <2>3 DEF CallWhole, WholeNames, Present
  <2>6. QED
    BY <1>7, <2>1, <2>4, <2>5, OnlyCallSteps DEF WriteTmp
<1>8. ASSUME NEW c \in Clients, CommitTmp(c) PROVE WInv'
  <2> DEFINE new == NewContent(file["draft"], call[c])
  <2>1. /\ file["draft"] \in Contents /\ call[c] \in Calls
        /\ new \in Contents
        /\ Rename(Tmp(call[c].op), Target(call[c].op))
        /\ file[Tmp(call[c].op)] = new
    BY <1>8, CommitIs
  <2>2. /\ file'[Target(call[c].op)] = new
        /\ \A n \in WholeNames \cup {"errors"} : n # Target(call[c].op) => file'[n] = file[n]
    BY <2>1 DEF Rename, Tmp, Target, WholeNames, TInv, TypeOK, Names
  <2>3. /\ pc[c] = "commit"
        /\ UNCHANGED sends
        /\ Present("draft") /\ Present("draft")'
    BY <1>8, <2>1, <2>2, SentinelAssumption
       DEF CommitTmp, Present, Target, WholeNames
  <2>4. FilesWhole'
    BY <2>1, <2>2, <2>3, SentinelAssumption DEF FilesWhole, WholeNames, Present, Target
  <2>5. CASE Leave(c)
    BY <2>3, <2>4, <2>5, OnlyCallLeaves
  <2>6. CASE ~Leave(c)
    <3>1. Goto(c, "move") /\ call[c].op # "edit" /\ UNCHANGED call
      BY <1>8, <2>1, <2>3, <2>6, CommitIs, SentinelAssumption DEF CommitTmp, Present
    <3>2. call[c].op = "reject" => file'["draft"].marked
      BY <2>1, <2>2, NewContentIs DEF Target
    <3>3. CallWhole(c)'
      BY <2>3, <3>1, <3>2 DEF CallWhole, Goto, TInv, TypeOK
    <3>4. QED
      BY <2>3, <2>4, <3>1, <3>3, OnlyCallSteps
  <2>7. QED
    BY <2>5, <2>6
<1>9. ASSUME NEW c \in Clients, MoveDraft(c) PROVE WInv'
  <2>1. pc[c] = "move" /\ Leave(c) /\ UNCHANGED sends
    BY <1>9 DEF MoveDraft
  <2>2. file["draft"] \in Contents
    BY <2>1, DraftHeld
  <2>3. call[c].op = "reject" => file["draft"].marked
    BY <2>1 DEF CallWhole
  <2>4. FilesWhole'
    BY <1>9, <2>1, <2>2, <2>3, SentinelAssumption, ConstantsAssumption
       DEF MoveDraft, Unlink, Rename, FilesWhole, WholeNames, Names, Present, TInv, TypeOK
  <2>5. QED
    BY <2>1, <2>4, OnlyCallLeaves
<1>10. ASSUME NEW c \in Clients, Abort(c) PROVE WInv'
  <2>1. FilesWhole'
    BY <1>10 DEF Abort, files, FilesWhole, Present
  <2>2. QED
    BY <1>10, <2>1, OnlyCallLeaves DEF Abort
<1>11. ASSUME Drain PROVE WInv'
  <2>1. file["outbox"] # Empty /\ Rename("outbox", "sent") /\ sends' = sends + 1
    BY <1>11 DEF Drain, FilesWhole, WholeNames
  <2>2. /\ file'["sent"] = file["outbox"] /\ file'["outbox"] = Absent
        /\ \A n \in Names \ {"outbox", "sent"} : file'[n] = file[n]
        /\ \A d \in Clients, n \in {"draftTmp", "outboxTmp"} : fd[d] = n => fd'[d] = n
    BY <2>1 DEF Rename, TInv, TypeOK, Names
  <2>3. sends \in Nat
    BY DEF TInv, TypeOK
  <2>4. FilesWhole'
    BY <2>1, <2>2, <2>3, ConstantsAssumption DEF FilesWhole, WholeNames, Names, Present
  <2>5. ASSUME NEW d \in Clients PROVE CallWhole(d)'
    <3>1. UNCHANGED <<pc, call, found, buf>> /\ CallWhole(d)
      BY <1>11 DEF Drain
    <3>2. /\ file'["draft"] = file["draft"]
          /\ file'[Tmp(call[d].op)] = file[Tmp(call[d].op)]
          /\ fd[d] = Tmp(call[d].op) => fd'[d] = Tmp(call[d].op)
          /\ ~Present("outbox")'
      BY <2>2 DEF Names, Tmp, Present
    <3>3. QED
      BY <3>1, <3>2 DEF CallWhole, Present
  <2>6. QED
    BY <2>4, <2>5
<1>12. CASE UNCHANGED vars
  <2>1. FilesWhole'
    BY <1>12 DEF vars, FilesWhole, Present
  <2>2. ASSUME NEW d \in Clients PROVE CallWhole(d)'
    BY <1>12 DEF vars, CallWhole, Present
  <2>3. QED
    BY <2>1, <2>2
<1>13. QED
  BY <1>1, <1>2, <1>3, <1>4, <1>5, <1>6, <1>7, <1>8, <1>9, <1>10, <1>11, <1>12
     DEF Next, Step

LEMMA WholeHolds == Spec /\ []Alone => [](TInv /\ AInv /\ WInv)
  BY TypeInit, TypeStep, AccountedInit, AccountedStep, WholeInit, WholeStep, PTL DEF Spec

(* A call that dies anywhere, and any retry of it, leaves the whole text   *)
(* in some folder: nothing is lost when calls do not overlap.              *)
THEOREM NothingLostAlone == Spec /\ []Alone => []NothingLost
<1>1. TInv /\ AInv /\ WInv => NothingLost
  <2> SUFFICES ASSUME TInv, AInv, WInv PROVE NothingLost
    OBVIOUS
  <2>1. PICK n \in {"draft", "outbox", "rejected", "sent", "errors"} : Present(n)
    BY DEF AInv, DraftAccountedFor
  <2>2. n \in WholeNames /\ file[n] # Empty /\ file[n] # Absent
    BY <2>1 DEF WInv, FilesWhole, WholeNames, Present
  <2>3. file[n] \in Contents
    BY <2>2 DEF TInv, TypeOK, Names, WholeNames
  <2>4. QED
    BY <2>2, <2>3 DEF NothingLost, WholeNames
<1>2. QED
  BY <1>1, WholeHolds, PTL

(* "A crash mid-write must never leave a half-formed file in outbox/": the *)
(* rename of atomicWrite puts only whole files there.                      *)
THEOREM OutboxWellFormedAlone == Spec /\ []Alone => []OutboxWellFormed
<1>1. WInv => OutboxWellFormed
  BY DEF WInv, FilesWhole, WholeNames, OutboxWellFormed
<1>2. QED
  BY <1>1, WholeHolds, PTL

(* Whatever reached rejected/ carries the reject metadata: the rewrite of  *)
(* the draft is committed before the draft is moved.                       *)
THEOREM RejectedIsMarkedAlone == Spec /\ []Alone => []RejectedIsMarked
<1>1. TInv /\ WInv => RejectedIsMarked
  BY DEF TInv, TypeOK, Names, WInv, FilesWhole, WholeNames, RejectedIsMarked, Present
<1>2. QED
  BY <1>1, WholeHolds, PTL

-----------------------------------------------------------------------------
(* The refinement.  The life cycle sees the carrier of the message: sent/, *)
(* outbox/, rejected/ or drafts/, in this order.                           *)

Fields(content) == <<content.text, content.noReply, content.override>>

(* A step that leaves the files beyond drafts/ alone, and the draft as far *)
(* as it is the carrier, is a stutter of the life cycle.                   *)
LEMMA StutterView ==
  ASSUME file'["sent"] = file["sent"], file'["outbox"] = file["outbox"],
         file'["rejected"] = file["rejected"],
         Stage = "proposed" => Fields(file["draft"])' = Fields(file["draft"])
  PROVE  UNCHANGED Lifecycle!lifecycleVars
<1>1. Stage' = Stage
  BY DEF Stage, Present
<1>2. Carrier' = Carrier
  BY <1>1 DEF Carrier
<1>3. Carrier = "draft" => Stage = "proposed"
  BY DEF Carrier, Stage
<1>4. Fields(file[Carrier])' = Fields(file[Carrier])
  BY <1>2, <1>3 DEF Carrier, Stage
<1>5. QED
  BY <1>1, <1>4 DEF Lifecycle!lifecycleVars, Fields

(* Once the draft is queued or sent, what happens in drafts/ and rejected/ *)
(* is a stutter.                                                           *)
LEMMA StutterBehind ==
  ASSUME file'["sent"] = file["sent"], file'["outbox"] = file["outbox"],
         Present("sent") \/ Present("outbox")
  PROVE  UNCHANGED Lifecycle!lifecycleVars
  BY DEF Stage, Carrier, Present, Lifecycle!lifecycleVars

LEMMA ProposedView ==
  ASSUME ~Present("sent"), ~Present("outbox"), ~Present("rejected")
  PROVE  Stage = "proposed" /\ Carrier = "draft"
  BY DEF Stage, Carrier

(* About to unlink the draft, the call knows its message is on its way.    *)
LEMMA UnlinkingIsOut ==
  ASSUME TInv, AInv, WInv, NEW c \in Clients, Unlinking(c)
  PROVE  Present("sent") \/ Present("outbox")
<1>1. Present("draft")
  BY DEF WInv, CallWhole, Unlinking
<1>2. ~Present("rejected") /\ ~Present("errors")
  BY <1>1 DEF WInv, FilesWhole, Present
<1>3. QED
  BY <1>2 DEF AInv, Delivered

LEMMA LifecycleStep ==
  ASSUME TInv, AInv, WInv, [Next]_vars, sends' <= 1
  PROVE  [Lifecycle!Next]_(Lifecycle!lifecycleVars)
<1> DEFINE Goal == [Lifecycle!Next]_(Lifecycle!lifecycleVars)
<1>1. ASSUME NEW c \in Clients, Begin(c) \/ FindDraftPath(c) \/ CheckDestination(c)
                                \/ ReadDraft(c) \/ Abort(c)
      PROVE  Goal
  <2>1. UNCHANGED file
    BY <1>1 DEF Begin, FindDraftPath, CheckDestination, ReadDraft, Abort, files
  <2>2. QED
    BY <2>1, StutterView DEF Fields
<1>2. ASSUME NEW c \in Clients, DiscardDraft(c) PROVE Goal
  <2>1. Present("sent") \/ Present("outbox")
    BY <1>2, UnlinkingIsOut DEF DiscardDraft, Unlinking
  <2>2. file'["sent"] = file["sent"] /\ file'["outbox"] = file["outbox"]
    BY <1>2 DEF DiscardDraft, Unlink, TInv, TypeOK, Names
  <2>3. QED
    BY <2>1, <2>2, StutterBehind
<1>3. ASSUME NEW c \in Clients, OpenTmp(c) PROVE Goal
  <2>1. \A n \in WholeNames : file'[n] = file[n]
    BY <1>3 DEF OpenTmp, Tmp, WholeNames, TInv, TypeOK, Names
  <2>2. QED
    BY <2>1, StutterView DEF WholeNames, Fields
<1>4. ASSUME NEW c \in Clients, WriteTmp(c) PROVE Goal
  <2>1. fd[c] = Tmp(call[c].op)
    BY <1>4 DEF WriteTmp, WInv, CallWhole
  <2>2. \A n \in WholeNames : file'[n] = file[n]
    BY <1>4, <2>1 DEF WriteTmp, Tmp, WholeNames, TInv, TypeOK, Names
  <2>3. QED
    BY <2>2, StutterView DEF WholeNames, Fields
<1>5. ASSUME NEW c \in Clients, CommitTmp(c) PROVE Goal
  <2> DEFINE k == call[c]
             old == file["draft"]
             new == NewContent(old, k)
  <2>1. /\ old \in Contents /\ k \in Calls
        /\ new \in Contents
        /\ ~SafeguardViolation(old, k)
        /\ Rename(Tmp(k.op), Target(k.op))
        /\ file[Tmp(k.op)] = new
    BY <1>5, CommitIs
  <2>2. /\ file'[Target(k.op)] = new
        /\ \A n \in WholeNames : n # Target(k.op) => file'[n] = file[n]
    BY <2>1 DEF Rename, Tmp, Target, WholeNames, TInv, TypeOK, Names
  <2>3. pc[c] = "commit" /\ Present("draft") /\ ~Present("rejected")
    BY <1>5, <2>1, SentinelAssumption DEF CommitTmp, Present, WInv, FilesWhole
  <2>4. CASE k.op = "approve"
    <3>1. ~Present("outbox")
      BY <2>3, <2>4 DEF WInv, CallWhole
    <3>2. /\ file'["outbox"] = new
          /\ file'["sent"] = file["sent"] /\ file'["rejected"] = file["rejected"]
      BY <2>2, <2>4 DEF Target, WholeNames
    <3>3. CASE Present("sent")
      BY <3>2, <3>3 DEF Stage, Carrier, Present, Lifecycle!lifecycleVars
    <3>4. CASE ~Present("sent")
      <4>1. Stage = "proposed" /\ Carrier = "draft"
        BY <3>1, <3>4, <2>3, ProposedView
      <4>2. Stage' = "queued" /\ Carrier' = "outbox"
        BY <2>1, <3>2, <3>4, SentinelAssumption DEF Stage, Carrier, Present
      <4>3. /\ new.text = old.text /\ new.noReply = old.noReply
            /\ new.override = k.override /\ k.override \in BOOLEAN
        BY <2>1, <2>4, NewContentIs, CallFields
      <4>4. old.noReply => k.override
        BY <2>1, <2>4 DEF SafeguardViolation
      <4>5. Lifecycle!Approve
        BY <4>1, <4>2, <4>3, <4>4, <3>2 DEF Lifecycle!Approve
      <4>6. QED
        BY <4>5 DEF Lifecycle!Next
    <3>5. QED
      BY <3>3, <3>4
  <2>5. CASE k.op # "approve"
    <3>1. /\ file'["draft"] = new
          /\ file'["sent"] = file["sent"] /\ file'["outbox"] = file["outbox"]
          /\ file'["rejected"] = file["rejected"]
      BY <2>2, <2>5 DEF Target, WholeNames
    <3>2. CASE Present("sent") \/ Present("outbox")
      BY <3>1, <3>2, StutterBehind
    <3>3. CASE ~Present("sent") /\ ~Present("outbox") /\ k.op = "reject"
      <4>1. Fields(new) = Fields(old)
        BY <2>1, <3>3, NewContentIs DEF Fields
      <4>2. QED
        BY <3>1, <4>1, StutterView DEF Fields
    <3>4. CASE ~Present("sent") /\ ~Present("outbox") /\ k.op = "edit"
      <4>1. Stage = "proposed" /\ Carrier = "draft"
        BY <3>4, <2>3, ProposedView
      <4>2. Stage' = "proposed" /\ Carrier' = "draft"
        BY <3>1, <3>4, <2>3 DEF Stage, Carrier, Present
      <4>3. new.text \in Texts /\ new.noReply = old.noReply /\ new.override = old.override
        BY <2>1, <3>4, NewContentIs
      <4>4. Lifecycle!Edit
        BY <4>1, <4>2, <4>3, <3>1 DEF Lifecycle!Edit
      <4>5. QED
        BY <4>4 DEF Lifecycle!Next
    <3>5. k.op \in Ops
      BY <2>1, CallFields
    <3>6. QED
      BY <3>2, <3>3, <3>4, <3>5, <2>5 DEF Ops
  <2>6. QED
    BY <2>4, <2>5
<1>6. ASSUME NEW c \in Clients, MoveDraft(c) PROVE Goal
  <2>1. /\ pc[c] = "move" /\ Present("draft") /\ ~Present("rejected")
        /\ call[c].op \in {"approve", "reject"}
    BY <1>6 DEF MoveDraft, WInv, FilesWhole, CallWhole
  <2>2. file'["sent"] = file["sent"] /\ file'["outbox"] = file["outbox"]
    BY <1>6 DEF MoveDraft, Unlink, Rename, TInv, TypeOK, Names
  <2>3. CASE Present("sent") \/ Present("outbox")
    BY <2>2, <2>3, StutterBehind
  <2>4. CASE ~Present("sent") /\ ~Present("outbox")
    <3>1. call[c].op = "reject"
      BY <2>1, <2>4, UnlinkingIsOut DEF Unlinking
    <3>2. file'["rejected"] = file["draft"]
      BY <1>6, <2>1, <3>1 DEF MoveDraft, Rename, TInv, TypeOK, Names
    <3>3. Stage = "proposed" /\ Carrier = "draft"
      BY <2>1, <2>4, ProposedView
    <3>4. Stage' = "rejected" /\ Carrier' = "rejected"
      BY <2>1, <2>2, <2>4, <3>2 DEF Stage, Carrier, Present
    <3>5. Lifecycle!Reject
      BY <3>2, <3>3, <3>4 DEF Lifecycle!Reject
    <3>6. QED
      BY <3>5 DEF Lifecycle!Next
  <2>5. QED
    BY <2>3, <2>4
<1>7. ASSUME Drain PROVE Goal
  <2>1. /\ Present("outbox") /\ file["outbox"] # Empty
        /\ Rename("outbox", "sent") /\ sends' = sends + 1
    BY <1>7 DEF Drain, WInv, FilesWhole, WholeNames
  <2>2. ~Present("sent")
    BY <2>1, sends' <= 1 DEF WInv, FilesWhole, TInv, TypeOK
  <2>3. file'["sent"] = file["outbox"]
    BY <2>1 DEF Rename, TInv, TypeOK, Names
  <2>4. Stage = "queued" /\ Carrier = "outbox"
    BY <2>1, <2>2 DEF Stage, Carrier
  <2>5. Stage' = "sent" /\ Carrier' = "sent"
    BY <2>1, <2>3 DEF Stage, Carrier, Present
  <2>6. Lifecycle!Send
    BY <2>3, <2>4, <2>5 DEF Lifecycle!Send
  <2>7. QED
    BY <2>6 DEF Lifecycle!Next
<1>8. CASE UNCHANGED vars
  BY <1>8, StutterView DEF vars, Fields
<1>9. QED
  BY <1>1, <1>2, <1>3, <1>4, <1>5, <1>6, <1>7, <1>8 DEF Next, Step

LEMMA LifecycleInit == Init => Lifecycle!Init
<1> SUFFICES ASSUME Init PROVE Lifecycle!Init
  OBVIOUS
<1>1. /\ file["sent"] = Absent /\ file["outbox"] = Absent /\ file["rejected"] = Absent
      /\ file["draft"].text \in Texts /\ file["draft"].noReply \in BOOLEAN
      /\ file["draft"].override = FALSE
  BY DEF Init, Names
<1>2. Stage = "proposed" /\ Carrier = "draft"
  BY <1>1, ProposedView DEF Present
<1>3. QED
  BY <1>1, <1>2 DEF Lifecycle!Init

(* Calls that do not overlap implement the life cycle a reviewer is        *)
(* promised, up to the second send of one message: every file operation,   *)
(* crash and retry is an edit, an approve, a reject or a send of it, or    *)
(* changes nothing the life cycle sees.                                    *)
THEOREM LifecycleImplemented == Spec /\ []Alone => ImplementsLifecycle
<1>1. TInv /\ AInv /\ WInv /\ [Next]_vars =>
        [sends' <= 1 => [Lifecycle!Next]_(Lifecycle!lifecycleVars)]_vars
  BY LifecycleStep
<1>2. QED
  BY <1>1, LifecycleInit, WholeHolds, PTL DEF Spec, ImplementsLifecycle

(* One client never overlaps with itself: the instance that is checked.    *)
THEOREM OneClientImplements ==
  ASSUME \A c, d \in Clients : c = d
  PROVE  Spec => ImplementsLifecycle /\ []NothingLost
<1>1. TInv => Alone
  BY DEF Alone
<1>2. Spec => []TInv
  BY TypeInit, TypeStep, PTL DEF Spec
<1>3. QED
  BY <1>1, <1>2, LifecycleImplemented, NothingLostAlone, PTL
=============================================================================
