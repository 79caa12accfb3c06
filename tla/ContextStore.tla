---------------------------- MODULE ContextStore ----------------------------
(***************************************************************************)
(* Contact and conversation contexts, their version history, and the use a *)
(* draft makes of them.                                                    *)
(*                                                                         *)
(* A save of the context route (apps/web/src/app/api/context/route.ts)     *)
(* and a rollback of ContextHistoryService                                 *)
(* (packages/core/src/services/context-history.ts) are several statements, *)
(* each on a connection of its own and none in a transaction: one step     *)
(* each.  The agent's resolve (admin context:resolve of the CLI) reads     *)
(* from another process between any two of them, and so does an approve.   *)
(*                                                                         *)
(* A contact row is identified by (tenant, contact_key), a room row by     *)
(* (tenant, channel, room_key); here both are a target, contacts in the    *)
(* order of their keys and the room last.  One tenant and one conversation *)
(* are modelled.                                                           *)
(***************************************************************************)
EXTENDS ContextResolve

CONSTANTS
  NumContacts,  \* contacts of the conversation
  Profiles,     \* the structured fields a row may have
  Signatures,   \* signatures the settings may be given
  Writers,      \* web requests and rollbacks that may overlap
  NoRow,        \* no such row, null in a version
  NoStamp,      \* a draft without context metadata; nothing queued
  MaxChanges,   \* bound: saves and rollbacks begun
  MaxFaults     \* bound: crashes and database errors

ASSUME ConstantsAssumption ==
  /\ NumContacts \in Nat
  /\ MaxChanges \in Nat
  /\ MaxFaults \in Nat

Targets == 1..(NumContacts + 1)
Room == NumContacts + 1

(* Row ids: the rows there are at the start have their target's number,    *)
(* every change may draw one more, FirstRoomId is that of a row long gone. *)
Ids == 1..(NumContacts + 2 + MaxChanges)
FirstRoomId == NumContacts + 2
Row == [id: Ids, target: Targets, profile: Profiles]

ASSUME SentinelAssumption == NoRow \notin Row

VARIABLES
  rows,      \* target -> its row, or NoRow
  signature, \* the signature of tenant_settings
  versions,  \* context_versions in the order of insertion
  now,       \* the millisecond of the latest version
  pc,        \* writer -> the statement it executes next
  job,       \* writer -> the locals of its save or rollback
  resolver,  \* the locals of the agent's resolve
  draft,     \* the draft's stage and the context snapshot in its metadata
  queued,    \* what approve put in the outbox file
  changes,   \* saves and rollbacks begun
  cut        \* for the properties: the jobs that were cut short

vars == <<rows, signature, versions, now, pc, job, resolver, draft, queued, changes, cut>>
store == <<rows, signature, versions, now>>
writers == <<pc, job, changes, cut>>
drafts == <<resolver, draft, queued>>

NoJob == [op |-> "none", id |-> 0, target |-> 0, profile |-> NoRow, version |-> 0,
          before |-> NoRow, after |-> NoRow]
Unresolved == [pc |-> "idle", contexts |-> <<>>, signature |-> <<>>, since |-> 0]

Present(t) == rows[t] # NoRow
RowById(id) ==
  IF \E t \in Targets : Present(t) /\ rows[t].id = id
  THEN rows[CHOOSE t \in Targets : Present(t) /\ rows[t].id = id] ELSE NoRow
FreshId == FirstRoomId + changes + 1

(* The contexts of the conversation in the order resolve merges them.      *)
Nth(S, i) == CHOOSE t \in S : Cardinality({u \in S : u < t}) = i - 1
Contexts(from, to) ==
  LET present == {t \in from..to : Present(t)} IN
    [i \in 1..Cardinality(present) |-> rows[Nth(present, i)]]
ProfilesOf(found) == [i \in DOMAIN found |-> found[i].profile]
Bundle == Effective(signature, ProfilesOf(Contexts(1, Room)))

(* The contexts saved so far, each with the version its first save made;   *)
(* the room may have been saved, rolled back and saved again since.  No    *)
(* settings yet.                                                           *)
Version(op, ctx, before, after, status) ==
  [op |-> op, ctx |-> ctx, before |-> before, after |-> after, status |-> status, at |-> 0]
RoomHistory(row) ==
  <<Version("create", FirstRoomId, NoRow, row, "superseded"),
    Version("rollback", FirstRoomId, row, NoRow, "approved")>>
Init ==
  /\ \E present \in SUBSET Targets, profile \in [Targets -> Profiles], resaved \in BOOLEAN :
       /\ resaved => Room \in present
       /\ rows = [t \in Targets |->
                    IF t \in present THEN [id |-> t, target |-> t, profile |-> profile[t]] ELSE NoRow]
       /\ versions = (IF resaved THEN RoomHistory([rows[Room] EXCEPT !.id = FirstRoomId]) ELSE <<>>) \o
                     [i \in 1..Cardinality(present) |->
                        LET t == Nth(present, i) IN Version("create", t, NoRow, rows[t], "approved")]
  /\ signature = <<>>
  /\ now = 0
  /\ pc = [w \in Writers |-> "idle"]
  /\ job = [w \in Writers |-> NoJob]
  /\ resolver = Unresolved
  /\ draft = [stage |-> "none", stamp |-> NoStamp]
  /\ queued = NoStamp
  /\ changes = 0
  /\ cut = {}

-----------------------------------------------------------------------------
(* ContextHistoryService.record: an INSERT stamped with the millisecond.   *)
RecordVersion(op, ctx, before, after) ==
  /\ now' \in {now, now + 1}
  /\ versions' = Append(versions, [Version(op, ctx, before, after, "approved") EXCEPT !.at = now'])

Goto(w, label) == pc' = [pc EXCEPT ![w] = label]
Idle == \A w \in Writers : pc[w] = "idle"
FinishKeepingLocals(w) == Goto(w, "idle") /\ UNCHANGED job
Finish(w) == Goto(w, "idle") /\ job' = [job EXCEPT ![w] = NoJob]

(* Ids the client may send for a target: none, the row's, or one it loaded *)
(* before the row was rolled back.                                         *)
KnownIds(t) ==
  {versions[v].ctx : v \in {u \in DOMAIN versions :
     \E row \in {versions[u].before, versions[u].after} \ {NoRow} : row.target = t}}

(* saveContactContext / saveConversationContext: rowById(id) ?? contactRow. *)
BeginSave(w) ==
  /\ pc[w] = "idle"
  /\ changes < MaxChanges
  /\ \E t \in Targets, p \in Profiles : \E id \in KnownIds(t) \cup {FreshId} :
       job' = [job EXCEPT ![w] =
                 [NoJob EXCEPT !.op = "save", !.id = id, !.target = t, !.profile = p,
                    !.before = IF RowById(id) # NoRow THEN RowById(id) ELSE rows[t]]]
  /\ changes' = changes + 1
  /\ Goto(w, "upsert")
  /\ UNCHANGED <<store, drafts, cut>>

(* INSERT ... ON CONFLICT(tenant_id, contact_key) DO UPDATE: a row that is *)
(* there keeps its id.                                                     *)
UpsertNewId(t, id, profile) == [id |-> id, target |-> t, profile |-> profile]
Upserted(t, id, profile) ==
  IF Present(t) THEN [rows[t] EXCEPT !.profile = profile]
  ELSE [id |-> id, target |-> t, profile |-> profile]
Upsert(w) ==
  /\ pc[w] = "upsert"
  /\ rows' = [rows EXCEPT ![job[w].target] = Upserted(job[w].target, job[w].id, job[w].profile)]
  /\ Goto(w, "after")
  /\ UNCHANGED <<signature, versions, now, job, changes, cut, drafts>>

(* contactRow again: what the version will say.                            *)
ReadAfterFromPayload(w) ==
  /\ pc[w] = "after"
  /\ job' = [job EXCEPT ![w].after = UpsertNewId(job[w].target, job[w].id, job[w].profile)]
  /\ Goto(w, "record")
  /\ UNCHANGED <<store, drafts, changes, cut>>
ReadAfter(w) ==
  /\ pc[w] = "after"
  /\ LET row == rows[job[w].target] IN
       job' = [job EXCEPT ![w].after = row, ![w].id = IF row = NoRow THEN @ ELSE row.id]
  /\ Goto(w, "record")
  /\ UNCHANGED <<store, drafts, changes, cut>>

RecordSave(w) ==
  /\ pc[w] = "record"
  /\ job[w].op = "save"
  /\ RecordVersion(IF job[w].before = NoRow THEN "create" ELSE "update",
                   job[w].id, job[w].before, job[w].after)
  /\ Finish(w)
  /\ UNCHANGED <<rows, signature, drafts, changes, cut>>

(* saveSettings: one upsert, no history.                                   *)
SaveSettings ==
  /\ changes < MaxChanges
  /\ changes' = changes + 1
  /\ signature' \in Signatures
  /\ UNCHANGED <<rows, versions, now, pc, job, cut, drafts>>

-----------------------------------------------------------------------------
(* ContextHistoryService.rollback.                                         *)

BeginRollback(w) ==
  /\ pc[w] = "idle"
  /\ changes < MaxChanges
  /\ \E v \in DOMAIN versions :
       job' = [job EXCEPT ![w] = [NoJob EXCEPT !.op = "rollback", !.version = v,
                                    !.id = versions[v].ctx, !.after = versions[v].before]]
  /\ changes' = changes + 1
  /\ Goto(w, "current")
  /\ UNCHANGED <<store, drafts, cut>>

(* currentContextPayload.                                                  *)
ReadCurrent(w) ==
  /\ pc[w] = "current"
  /\ job' = [job EXCEPT ![w].before = RowById(job[w].id)]
  /\ Goto(w, "restore")
  /\ UNCHANGED <<store, drafts, changes, cut>>

(* restoreContext is an upsert by id: it throws when another row has taken *)
(* the target.  deleteContext when the version created the context.        *)
Restore(w) ==
  /\ pc[w] = "restore"
  /\ \/ /\ job[w].after # NoRow
        /\ LET t == job[w].after.target IN
             /\ Present(t) => rows[t].id = job[w].after.id
             /\ rows' = [rows EXCEPT ![t] = job[w].after]
        /\ Goto(w, "supersede")
        /\ UNCHANGED job
     \/ /\ job[w].after # NoRow
        /\ Present(job[w].after.target)
        /\ rows[job[w].after.target].id # job[w].after.id
        /\ Finish(w)
        /\ UNCHANGED rows
     \/ /\ job[w].after = NoRow
        /\ rows' = [t \in Targets |->
                      IF Present(t) /\ rows[t].id = job[w].id THEN NoRow ELSE rows[t]]
        /\ Goto(w, "supersede")
        /\ UNCHANGED job
  /\ UNCHANGED <<signature, versions, now, changes, cut, drafts>>

(* setReviewStatus(id, "superseded").                                      *)
Supersede(w) ==
  /\ pc[w] = "supersede"
  /\ versions' = [versions EXCEPT ![job[w].version].status = "superseded"]
  /\ Goto(w, "record")
  /\ UNCHANGED <<rows, signature, now, job, changes, cut, drafts>>

RecordRollbackOfCurrent(w) ==
  /\ pc[w] = "record"
  /\ job[w].op = "rollback"
  /\ RecordVersion("rollback", job[w].id, job[w].after, job[w].before)
  /\ Finish(w)
  /\ UNCHANGED <<rows, signature, drafts, changes, cut>>
RecordRollback(w) ==
  /\ pc[w] = "record"
  /\ job[w].op = "rollback"
  /\ RecordVersion("rollback", job[w].id, job[w].before, job[w].after)
  /\ Finish(w)
  /\ UNCHANGED <<rows, signature, drafts, changes, cut>>

Touched(j) == IF j.op = "save" /\ Present(j.target) THEN rows[j.target].id ELSE j.id
(* The process dies or a statement fails: the statements done stay done.   *)
Fault(w) ==
  /\ pc[w] # "idle"
  /\ Cardinality(cut) < MaxFaults
  /\ cut' = cut \cup {[ctx |-> Touched(job[w]), version |-> job[w].version, recorded |-> Len(versions)]}
  /\ Finish(w)
  /\ UNCHANGED <<store, drafts, changes>>

-----------------------------------------------------------------------------
(* ContextService.resolve in the agent's process, statement by statement.  *)
(* since is for the properties alone: the changes begun before the resolve *)
(* when all of them were through, and no number of changes otherwise.      *)

ResolveContacts ==
  /\ draft.stage = "none"
  /\ resolver.pc = "idle"
  /\ resolver' = [pc |-> "room", contexts |-> Contexts(1, NumContacts), signature |-> <<>>,
                  since |-> IF Idle THEN changes ELSE MaxChanges + 1]
  /\ UNCHANGED <<store, writers, draft, queued>>

ResolveRoom ==
  /\ resolver.pc = "room"
  /\ resolver' = [resolver EXCEPT !.pc = "signature", !.contexts = @ \o Contexts(Room, Room)]
  /\ UNCHANGED <<store, writers, draft, queued>>

ResolveSignature ==
  /\ resolver.pc = "signature"
  /\ resolver' = [resolver EXCEPT !.pc = "versions", !.signature = signature]
  /\ UNCHANGED <<store, writers, draft, queued>>

(* latestVersionIds: ORDER BY created_at DESC LIMIT 1, any one of a tie.   *)
OldestApproved(ctx) ==
  {v \in DOMAIN versions :
     /\ versions[v].ctx = ctx /\ versions[v].status = "approved"
     /\ \A u \in DOMAIN versions :
          versions[u].ctx = ctx /\ versions[u].status = "approved" => versions[u].at >= versions[v].at}
LatestApproved(ctx) ==
  {v \in DOMAIN versions :
     /\ versions[v].ctx = ctx /\ versions[v].status = "approved"
     /\ \A u \in DOMAIN versions :
          versions[u].ctx = ctx /\ versions[u].status = "approved" => versions[u].at <= versions[v].at}

(* contextBundleToDraftSnapshot, stamped into the draft the agent writes.  *)
StampDraft ==
  /\ resolver.pc = "versions"
  /\ \E pick \in [DOMAIN resolver.contexts -> 0..Len(versions)] :
       /\ \A i \in DOMAIN pick :
            LET latest == LatestApproved(resolver.contexts[i].id) IN
              IF latest = {} THEN pick[i] = 0 ELSE pick[i] \in latest
       /\ draft' = [stage |-> "proposed",
                    stamp |-> [bundle |-> Effective(resolver.signature, ProfilesOf(resolver.contexts)),
                               versions |-> {pick[i] : i \in DOMAIN pick} \ {0}]]
  /\ resolver' = Unresolved
  /\ UNCHANGED <<store, writers, queued>>

(* The agent writes the draft without context metadata.                    *)
WriteBareDraft ==
  /\ draft.stage = "none"
  /\ resolver.pc = "idle"
  /\ draft' = [draft EXCEPT !.stage = "proposed"]
  /\ UNCHANGED <<store, writers, resolver, queued>>

(* approveImessageDraft, the part that depends on context (the files are   *)
(* in DraftFiles): the safeguard looks at the metadata, signature and      *)
(* delivery service come from the context as it is now when the tenant is  *)
(* known, from the web session or the metadata.  "auto" also stands for    *)
(* the service of the chat.                                                *)
Blocked(stamp, override) == stamp # NoStamp /\ stamp.bundle.posture = DoNotReply /\ ~override
OutboxSignature(stamp, tenant) ==
  IF tenant /\ Bundle.signature # <<>> THEN Bundle.signature
  ELSE IF stamp # NoStamp THEN stamp.bundle.signature ELSE <<>>
OutboxDelivery(stamp, tenant) ==
  IF tenant /\ Contexts(1, Room) # <<>> THEN Bundle.delivery
  ELSE IF stamp # NoStamp THEN stamp.bundle.delivery ELSE "auto"
Approve ==
  /\ draft.stage = "proposed"
  /\ \E override, session \in BOOLEAN :
       LET tenant == session \/ draft.stamp # NoStamp IN
       /\ ~Blocked(draft.stamp, override)
       /\ queued' = [signature |-> OutboxSignature(draft.stamp, tenant),
                     delivery |-> OutboxDelivery(draft.stamp, tenant),
                     override |-> override]
  /\ draft' = [stage |-> "queued", stamp |-> NoStamp]
  /\ UNCHANGED <<store, writers, resolver>>

Next ==
  \/ \E w \in Writers :
       \/ BeginSave(w) \/ Upsert(w) \/ ReadAfter(w) \/ RecordSave(w)
       \/ BeginRollback(w) \/ ReadCurrent(w) \/ Restore(w) \/ Supersede(w) \/ RecordRollback(w)
       \/ Fault(w)
  \/ SaveSettings
  \/ ResolveContacts \/ ResolveRoom \/ ResolveSignature \/ StampDraft
  \/ WriteBareDraft
  \/ Approve

Spec == Init /\ [][Next]_vars

-----------------------------------------------------------------------------
VersionType ==
  [op: {"create", "update", "rollback"}, ctx: Ids, before: Row \cup {NoRow},
   after: Row \cup {NoRow}, status: {"approved", "superseded"}, at: Nat]

TypeOK ==
  /\ rows \in [Targets -> Row \cup {NoRow}]
  /\ \A v \in DOMAIN versions : versions[v] \in VersionType
  /\ pc \in [Writers -> {"idle", "upsert", "after", "current", "restore", "supersede", "record"}]
  /\ \A w \in Writers : pc[w] = "idle" <=> job[w] = NoJob
  /\ resolver.pc \in {"idle", "room", "signature", "versions"}
  /\ draft.stage \in {"none", "proposed", "queued"}
  /\ IF draft.stage = "queued" THEN queued.override \in BOOLEAN ELSE queued = NoStamp
  /\ changes \in 0..MaxChanges
  /\ \A c \in cut : c.ctx \in Ids /\ {c.version, c.recorded} \subseteq 0..Len(versions)

(* "Every context mutation is recorded in context_versions": whenever no   *)
(* save or rollback is under way, a latest approved version of every       *)
(* context says what its row says, or that it is gone; a save or rollback  *)
(* that was cut short is made good by the next one of that context.  For   *)
(* writers that take turns, as the requests of one web server do.          *)
MadeGood(c) == \E v \in DOMAIN versions : v > c.recorded /\ versions[v].ctx = c.ctx
HistoryDescribesRows ==
  Idle =>
    \A ctx \in {versions[v].ctx : v \in DOMAIN versions} :
      (\A c \in cut : c.ctx = ctx => MadeGood(c)) /\ LatestApproved(ctx) # {} =>
        \E v \in LatestApproved(ctx) : versions[v].after = RowById(ctx)

(* A version is superseded only when it was undone: the history goes on    *)
(* with a rollback to what was there before it, is about to, or the        *)
(* rollback was cut short.                                                 *)
SupersededWasUndone ==
  \A v \in DOMAIN versions : versions[v].status = "superseded" =>
    \/ \E u \in DOMAIN versions :
         /\ versions[u].op = "rollback" /\ versions[u].ctx = versions[v].ctx
         /\ versions[u].after = versions[v].before
    \/ \E w \in Writers : pc[w] = "record" /\ job[w].version = v
    \/ \E c \in cut : c.version = v

(* The version ids in a draft's metadata are those of the context it was   *)
(* written with, when nothing was saved or rolled back meanwhile and no    *)
(* two versions of one context share a millisecond.                        *)
DistinctTimes ==
  \A u, v \in DOMAIN versions :
    u # v /\ versions[u].ctx = versions[v].ctx => versions[u].at # versions[v].at
StampQuotesItsContext ==
  [][StampDraft /\ Idle /\ resolver.since = changes /\ cut = {} /\ DistinctTimes =>
       \A i \in DOMAIN resolver.contexts :
         \E v \in draft'.stamp.versions : versions[v].after = resolver.contexts[i]]_vars

(* What the code does not keep (a run that expects a violation).           *)

(* "A draft for a do_not_reply contact cannot be approved without an       *)
(* explicit admin override" (TODO.md): when the contexts of the            *)
(* conversation say do_not_reply, queueing takes the override.             *)
DoNotReplyNeedsOverride ==
  [][draft.stage = "proposed" /\ draft'.stage = "queued" /\ Bundle.posture = DoNotReply
       => queued'.override]_vars
=============================================================================
