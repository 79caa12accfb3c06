----------------------------- MODULE DraftFiles -----------------------------
(***************************************************************************)
(* The files of one iMessage draft and the calls that move them:           *)
(* approveImessageDraft, rejectImessageDraft and updateImessageDraft of    *)
(* packages/adapters/imessage/src/draft-actions.ts.  A call is a sequence  *)
(* of file system calls with an await between them, and the web server and *)
(* every CLI command run such calls at the same time over the same         *)
(* folders, with no lock.  One step here is one file system call and the   *)
(* synchronous code up to the next one.                                    *)
(*                                                                         *)
(* Paths are per uuid, so calls for different drafts never touch the same  *)
(* file: one draft is modelled.  No file has two hard links, so an open    *)
(* file is identified by the name its inode has now: rename and unlink     *)
(* move the open descriptors along (Rename, Unlink).  A file is written by *)
(* one open that truncates and one write, and that is when an empty or a   *)
(* mixed file can be seen.                                                 *)
(***************************************************************************)
EXTENDS Naturals, FiniteSets

CONSTANTS
  Clients,    \* web requests and CLI commands that may be under way
  Texts,      \* message bodies people and the agent write
  NoText,     \* the text argument of a call that has none
  Spliced,    \* the body left when a short write lands on a longer file
  Empty,      \* the content of a file that was just truncated
  Absent,     \* no such file
  MaxCalls,   \* bound: calls begun in a behaviour
  MaxAborts   \* bound: calls cut short by a crash or an I/O error

ASSUME ConstantsAssumption ==
  /\ MaxCalls \in Nat
  /\ MaxAborts \in Nat
  /\ Absent # Empty
  /\ NoText \notin Texts
  /\ Spliced \notin Texts
  /\ IsFiniteSet(Clients)

(* What the properties tell apart in a draft or outbox file: its body, the *)
(* context_reply_posture snapshot, whether reject metadata was added, and  *)
(* (provenance, in outbox files) whether the approver gave the override.   *)
Contents ==
  [text: Texts \cup {Spliced}, noReply: BOOLEAN, marked: BOOLEAN, override: BOOLEAN]

ASSUME SentinelAssumption == Empty \notin Contents /\ Absent \notin Contents

Names == {"draft", "draftTmp", "outbox", "outboxTmp", "rejected", "sent", "errors"}
Nowhere == "nowhere"  \* an open file whose last name is gone

Ops == {"approve", "reject", "edit"}

Calls ==
  [op: {"approve"}, override: BOOLEAN, text: {NoText}]
    \cup [op: {"reject"}, override: {FALSE}, text: {NoText}]
    \cup [op: {"edit"}, override: {FALSE}, text: Texts]

NoCall == [op |-> "none", override |-> FALSE, text |-> NoText]

VARIABLES
  file,       \* name -> content, Empty or Absent
  pc,         \* client -> the file system call it makes next
  call,       \* client -> the call it is executing
  found,      \* client -> whether findDraftPath saw the draft
  buf,        \* client -> the content it is about to write
  fd,         \* client -> the name of its open file, or Nowhere
  calls,      \* calls begun so far
  approvals,  \* how many of them are approve calls
  aborts,     \* calls cut short so far
  sends       \* messages the agent has sent

vars == <<file, pc, call, found, buf, fd, calls, approvals, aborts, sends>>
files == <<file, sends>>
counters == <<calls, approvals, aborts>>

PCs == {"idle", "find", "exists", "discard", "read", "open", "write", "commit", "move"}

TypeOK ==
  /\ file \in [Names -> Contents \cup {Empty, Absent}]
  /\ pc \in [Clients -> PCs]
  /\ call \in [Clients -> Calls \cup {NoCall}]
  /\ found \in [Clients -> BOOLEAN]
  /\ buf \in [Clients -> Contents \cup {Empty}]
  /\ fd \in [Clients -> Names \cup {Nowhere}]
  /\ calls \in 0..MaxCalls
  /\ approvals \in Nat
  /\ aborts \in 0..MaxAborts
  /\ sends \in Nat

Present(n) == file[n] # Absent

(* The agent has proposed the draft, with or without the do_not_reply      *)
(* posture in its context snapshot; nobody has touched it yet.             *)
Init ==
  /\ \E t \in Texts, b \in BOOLEAN :
       file = [n \in Names |->
                 IF n = "draft"
                 THEN [text |-> t, noReply |-> b, marked |-> FALSE, override |-> FALSE]
                 ELSE Absent]
  /\ pc = [c \in Clients |-> "idle"]
  /\ call = [c \in Clients |-> NoCall]
  /\ found = [c \in Clients |-> FALSE]
  /\ buf = [c \in Clients |-> Empty]
  /\ fd = [c \in Clients |-> Nowhere]
  /\ calls = 0
  /\ approvals = 0
  /\ aborts = 0
  /\ sends = 0

-----------------------------------------------------------------------------
(* The file system.                                                        *)

Rename(from, to) ==
  /\ file' = [file EXCEPT ![to] = file[from], ![from] = Absent]
  /\ fd' = [c \in Clients |->
              IF fd[c] = from THEN to ELSE IF fd[c] = to THEN Nowhere ELSE fd[c]]

Unlink(n) ==
  /\ file' = [file EXCEPT ![n] = Absent]
  /\ fd' = [c \in Clients |-> IF fd[c] = n THEN Nowhere ELSE fd[c]]

(* What a write of new at offset 0 leaves in a file that holds old.  old   *)
(* is Empty unless another client wrote after this one truncated; then a   *)
(* shorter text keeps the other's tail.                                    *)
Overwrite(old, new) ==
  IF old \in {Empty, new} THEN {new} ELSE {new, [new EXCEPT !.text = Spliced]}

(* outboxPathFor / rejectedPathFor: the file whose presence means that an  *)
(* earlier call already did the work.  DestinationAtTmp, and the other     *)
(* definitions a mutant uses, are what a slip in the code would make of    *)
(* the definition below it.                                                *)
DestinationAtTmp(op) == IF op = "approve" THEN "outboxTmp" ELSE "rejected"
Destination(op) == IF op = "approve" THEN "outbox" ELSE "rejected"

(* The path atomicWrite is given, and its fixed temporary name.            *)
Target(op) == IF op = "approve" THEN "outbox" ELSE "draft"
TmpInPlace(op) == Target(op)
Tmp(op) == IF op = "approve" THEN "outboxTmp" ELSE "draftTmp"

-----------------------------------------------------------------------------
(* The calls.                                                              *)

Goto(c, label) == pc' = [pc EXCEPT ![c] = label]

(* The call returns or throws: its locals and its descriptor are gone.     *)
Leave(c) ==
  /\ pc' = [pc EXCEPT ![c] = "idle"]
  /\ call' = [call EXCEPT ![c] = NoCall]
  /\ found' = [found EXCEPT ![c] = FALSE]
  /\ buf' = [buf EXCEPT ![c] = Empty]

Begin(c) ==
  /\ pc[c] = "idle"
  /\ calls < MaxCalls
  /\ \E k \in Calls :
       /\ call' = [call EXCEPT ![c] = k]
       /\ approvals' = IF k.op = "approve" THEN approvals + 1 ELSE approvals
  /\ Goto(c, "find")
  /\ calls' = calls + 1
  /\ UNCHANGED <<files, found, buf, fd, aborts>>

(* findDraftPath.  An edit needs the draft here; approve and reject first  *)
(* look at their destination.                                              *)
FindDraftPath(c) ==
  /\ pc[c] = "find"
  /\ \/ /\ call[c].op = "edit"
        /\ Present("draft")
        /\ Goto(c, "read")
        /\ UNCHANGED <<call, found, buf>>
     \/ /\ call[c].op = "edit"
        /\ ~Present("draft")
        /\ Leave(c)
     \/ /\ call[c].op # "edit"
        /\ found' = [found EXCEPT ![c] = Present("draft")]
        /\ Goto(c, "exists")
        /\ UNCHANGED <<call, buf>>
  /\ UNCHANGED <<files, fd, counters>>

(* existsSync(outboxPath) / existsSync(rejectedPath).                      *)
CheckDestination(c) ==
  /\ pc[c] = "exists"
  /\ LET done == Present(Destination(call[c].op)) IN
       \/ /\ found[c]
          /\ Goto(c, IF done THEN "discard" ELSE "read")
          /\ UNCHANGED <<call, found, buf>>
       \/ ~found[c] /\ Leave(c)  \* alreadyCompleted, or "not found or has already moved"
  /\ UNCHANGED <<files, fd, counters>>

(* The unlink of the alreadyCompleted branch; ENOENT if another was first. *)
DiscardDraft(c) ==
  /\ pc[c] = "discard"
  /\ Unlink("draft")
  /\ Leave(c)
  /\ UNCHANGED <<sends, counters>>

(* contextSafeguardViolation: the snapshot in the draft's metadata blocks  *)
(* an approve without the override.                                        *)
SafeguardViolationNever(content, k) == FALSE
SafeguardViolation(content, k) == k.op = "approve" /\ content.noReply /\ ~k.override

(* What the call will write: the edited body, the draft with the reject    *)
(* metadata, or the outbox item, which keeps the posture snapshot.         *)
ReplaceDraftBody(content, text) == [content EXCEPT !.text = text]
RejectWithoutMetadata(content) == content
AddRejectMetadata(content) == [content EXCEPT !.marked = TRUE]
WriteOutboxContent(content, override) == [content EXCEPT !.override = override]

BodyOnly(content, k) == k.text
NewContent(content, k) ==
  CASE k.op = "edit" -> ReplaceDraftBody(content, k.text)
    [] k.op = "reject" -> AddRejectMetadata(content)
    [] k.op = "approve" -> WriteOutboxContent(content, k.override)

(* readFile and the synchronous work on what it returned.  It throws when  *)
(* the draft is gone, when it is empty (no frontmatter, no send fields)    *)
(* and on a safeguard violation.                                           *)
ReadDraft(c) ==
  /\ pc[c] = "read"
  /\ \/ /\ file["draft"] \in Contents
        /\ ~SafeguardViolation(file["draft"], call[c])
        /\ buf' = [buf EXCEPT ![c] = NewContent(file["draft"], call[c])]
        /\ Goto(c, "open")
        /\ UNCHANGED <<call, found>>
     \/ /\ \/ file["draft"] \in {Absent, Empty}
           \/ file["draft"] \in Contents /\ SafeguardViolation(file["draft"], call[c])
        /\ Leave(c)
  /\ UNCHANGED <<files, fd, counters>>

(* atomicWrite, first half of writeFile: open with O_CREAT and O_TRUNC.    *)
OpenTmp(c) ==
  /\ pc[c] = "open"
  /\ file' = [file EXCEPT ![Tmp(call[c].op)] = Empty]
  /\ fd' = [fd EXCEPT ![c] = Tmp(call[c].op)]
  /\ Goto(c, "write")
  /\ UNCHANGED <<call, found, buf, sends, counters>>

(* atomicWrite, second half: the bytes go to the inode that was opened,    *)
(* wherever another client has moved it since; then it is closed.          *)
WriteTmp(c) ==
  /\ pc[c] = "write"
  /\ \/ /\ fd[c] # Nowhere
        /\ \E content \in Overwrite(file[fd[c]], buf[c]) :
             file' = [file EXCEPT ![fd[c]] = content]
     \/ fd[c] = Nowhere /\ UNCHANGED file
  /\ fd' = [fd EXCEPT ![c] = Nowhere]
  /\ Goto(c, "commit")
  /\ UNCHANGED <<call, found, buf, sends, counters>>

(* atomicWrite's rename; ENOENT when another client renamed the shared     *)
(* temporary file first.  An edit is done after it.                        *)
CommitTmp(c) ==
  /\ pc[c] = "commit"
  /\ \/ /\ Present(Tmp(call[c].op))
        /\ Rename(Tmp(call[c].op), Target(call[c].op))
        /\ \/ call[c].op = "edit" /\ Leave(c)
           \/ /\ call[c].op # "edit"
              /\ Goto(c, "move")
              /\ UNCHANGED <<call, found, buf>>
     \/ /\ ~Present(Tmp(call[c].op))
        /\ Leave(c)
        /\ UNCHANGED <<file, fd>>
  /\ UNCHANGED <<sends, counters>>

(* The last call of approve (unlink) and of reject (rename); ENOENT when   *)
(* the draft was taken away in the meantime.                               *)
MoveDraftToOutbox(c) ==
  /\ pc[c] = "move"
  /\ IF Present("draft") THEN Rename("draft", "outbox") ELSE UNCHANGED <<file, fd>>
  /\ Leave(c)
  /\ UNCHANGED <<sends, counters>>
MoveDraft(c) ==
  /\ pc[c] = "move"
  /\ \/ call[c].op = "approve" /\ Unlink("draft")
     \/ call[c].op = "reject" /\ Present("draft") /\ Rename("draft", "rejected")
     \/ call[c].op = "reject" /\ ~Present("draft") /\ UNCHANGED <<file, fd>>
  /\ Leave(c)
  /\ UNCHANGED <<sends, counters>>

(* The process dies, or a file system call fails with EIO, ENOSPC, ...:    *)
(* what is on disk stays as it is.                                         *)
Abort(c) ==
  /\ pc[c] # "idle"
  /\ aborts < MaxAborts
  /\ Leave(c)
  /\ fd' = [fd EXCEPT ![c] = Nowhere]
  /\ aborts' = aborts + 1
  /\ UNCHANGED <<files, calls, approvals>>

(* imsg-agent's send loop takes what is in outbox/: a well-formed file is  *)
(* sent and moved to sent/, an empty one goes to errors/.                  *)
Drain ==
  /\ Present("outbox")
  /\ \/ /\ file["outbox"] # Empty
        /\ Rename("outbox", "sent")
        /\ sends' = sends + 1
     \/ /\ file["outbox"] = Empty
        /\ Rename("outbox", "errors")
        /\ UNCHANGED sends
  /\ UNCHANGED <<pc, call, found, buf, counters>>

Step(c) ==
  \/ FindDraftPath(c)
  \/ CheckDestination(c)
  \/ DiscardDraft(c)
  \/ ReadDraft(c)
  \/ OpenTmp(c)
  \/ WriteTmp(c)
  \/ CommitTmp(c)
  \/ MoveDraft(c)

Next ==
  \/ \E c \in Clients : Begin(c) \/ Step(c) \/ Abort(c)
  \/ Drain

Spec == Init /\ [][Next]_vars

-----------------------------------------------------------------------------
(* What holds however many calls overlap and wherever they are cut short.  *)

(* A proposed message never disappears from every folder: when the draft   *)
(* is gone there is an outbox, rejected, sent or errors file for it.       *)
(* approve and the alreadyCompleted branches unlink the draft only after   *)
(* its destination was created or seen.                                    *)
DraftAccountedFor ==
  \E n \in {"draft", "outbox", "rejected", "sent", "errors"} : Present(n)

(* No do_not_reply draft gets to the outbox, and so to the agent, without  *)
(* an approve call that carried the override, even when approve calls      *)
(* share a temporary file and one of them writes into a file the other has *)
(* already moved.                                                          *)
SafeguardRespected ==
  \A n \in {"outbox", "outboxTmp", "sent"} :
    file[n] \in Contents /\ file[n].noReply => file[n].override

(* "The hub never sends without explicit approval": the messages sent and  *)
(* the one waiting in the outbox never outnumber the approve calls made.   *)
SendsBackedByApprovals ==
  sends + (IF Present("outbox") THEN 1 ELSE 0) <= approvals

(* What holds when calls do not overlap, crashes included.                 *)

(* The text is never lost: some file still holds a complete message.       *)
NothingLost ==
  \E n \in {"draft", "outbox", "rejected", "sent"} : file[n] \in Contents

(* "A crash mid-write must never leave a half-formed file in outbox/"      *)
(* (docs/channel-adapters.md).                                             *)
OutboxWellFormed == file["outbox"] # Empty

(* A file in rejected/ carries the reject metadata the rules review looks  *)
(* for: reject rewrites the draft before it moves it.                      *)
RejectedIsMarked == Present("rejected") => file["rejected"] \in Contents /\ file["rejected"].marked

(* What the code does not keep (runs that expect a violation).             *)

(* "If an approve crashes mid-flight, retrying must be safe": one draft is *)
(* sent at most once (docs/channel-adapters.md).                           *)
SentAtMostOnce == sends <= 1

(* "Draft was not found or has already moved": a draft that has left       *)
(* drafts/ is not modified or brought back by a late call.                 *)
MovedStaysMoved == [][~Present("draft") => ~Present("draft")']_vars

-----------------------------------------------------------------------------
(* Calls that do not overlap implement the life cycle PLAN.md describes,   *)
(* crashes and retries included, up to the second send of one message.     *)

Stage ==
  CASE Present("sent") -> "sent"
    [] Present("outbox") /\ ~Present("sent") -> "queued"
    [] Present("rejected") /\ ~Present("outbox") /\ ~Present("sent") -> "rejected"
    [] OTHER -> "proposed"

(* The one file that carries the message at each stage.                    *)
Carrier ==
  CASE Stage = "sent" -> "sent"
    [] Stage = "queued" -> "outbox"
    [] Stage = "rejected" -> "rejected"
    [] Stage = "proposed" -> "draft"

Lifecycle == INSTANCE DraftLifecycle WITH
  stage <- Stage,
  text <- file[Carrier].text,
  noReply <- file[Carrier].noReply,
  override <- file[Carrier].override

(* Calls that do not overlap edit, queue, reject and send the message only *)
(* as the life cycle allows, wherever they are cut short: the text sent is *)
(* the one last saved, nothing rejected is sent, an override is asked for. *)
(* What the code does not prevent, SentAtMostOnce, is set aside here.      *)
ImplementsLifecycle ==
  /\ Lifecycle!Init
  /\ [][sends' <= 1 => [Lifecycle!Next]_(Lifecycle!lifecycleVars)]_vars
=============================================================================
