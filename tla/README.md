# commshub99: specification, model checking, proofs

commshub99 is a hub in which people review, edit, approve, reject and schedule
messages that an AI agent (imsg-agent) has drafted. Its promise is "AI
proposes, human approves, system sends". This directory holds TLA+ modules for
the parts of the code that keep this promise and for the hub around them
(accounts, schema, contacts, the web client), the TLC configurations that check
them on small instances, and TLAPS proofs of what holds for every value of the
constants. Paths below are relative to the repository; `PROJECT.json` maps each
definition to its source lines.

- [1. The system](#1-the-system)
- [2. The modules](#2-the-modules)
- [3. The runs](#3-the-runs)
- [4. The proofs](#4-the-proofs)
- [5. What is only model-checked, what is not modelled](#5-limits)
- [6. What could come next](#6-what-could-come-next)

## 1. The system

One Next.js server (`apps/web`), CLI commands (`apps/cli`) that are processes
of their own, and the external agent work over the same SQLite database and
the same folders of Markdown files. Nothing takes a lock across processes and
no statement is in a transaction with another one.

| Component | State | Operations | What makes it correct |
|---|---|---|---|
| Draft actions (`packages/adapters/imessage/src/draft-actions.ts`) | files in `chats/.../drafts`, `outbox`, `rejected`, temporary files | approve, reject, edit | no message is lost, none is queued without an approve, the do_not_reply safeguard holds, one send per draft, retry after a crash is safe |
| imsg-agent (external) | `outbox`, `sent`, `errors` | proposes drafts, drains the outbox | none: it is the environment |
| ScheduleService and worker (`packages/core/src/services/schedule.ts`, `workers/schedule.ts`) | rows of `scheduled_sends`; the worker's snapshot | create, cancel, listDue, markSending, markSent, markFailed; runDueScheduledSends | only the transitions of PLAN.md, bounded attempts, never early, sent means queued, cancel is final |
| ContextService (`services/context.ts`) | none; reads `contact_contexts`, `conversation_contexts`, `tenant_settings`, `context_versions` | resolve, snapshot for a draft | conservative merge of restrictions, layered signature, consistent snapshot |
| ContextHistoryService, context route (`services/context-history.ts`, `app/api/context`) | the tables above | save, record, supersede, rollback | the history describes the rows |
| Auth (`packages/auth`, `app/api/auth`, `_auth.ts`) | users, tenants, tenant_users, sessions; a cookie | bootstrap, sign in, session lookup, sign out, the CLI's admin commands, the seed script | no session outlives a disable or a reset, roles agree in both tables, one tenant |
| Audit (`services/audit.ts`, `_audit.ts`) | `audit_log` | write, list | every mutation leaves an entry, in a tenant of the one who made it |
| Draft, schedule and listing routes (`app/api/imessage`) | none | authenticate, call, audit, answer | the right permission per call |
| Web client, Approvals (`components/AppShell.tsx`) | drafts, editor, note, busy and scheduling marks, event stream | load, refresh, edit, approve, reject, schedule | shows the newest answer; approves what was shown; one schedule per draft; keeps what is typed |
| Web client, Contacts, Context, Conversations (`AppShell.tsx`) | lists, editors, selection, address | load, save, select, follow a link | the view tells what the server has; a new contact is created once; what is typed and what is selected stay |
| Change notifications (`app/api/events`) | signature of the folders, polled | stream | a change is noticed in the end |
| Contacts client (`packages/mcp-client`, `app/api/contacts`) | child process, pending requests, ten minute cache | list, get, update | an answer is never older than the cache and one export |
| Migrations (`packages/db`) | journal, tables | migrate, adopt an older database | the journal does not lie; an upgrade can be repeated, also when cut short |
| Adapter registry, read services, conversations, perspective, harvest | none | read-only queries | - |

**How they interact.** A route or a CLI command calls `DraftService`, which
calls the adapter's draft actions. The schedule worker calls the same
`approve`. `approve` reads the context tables while it builds the outbox file.
The agent resolves the context from its own process (`admin context:resolve`),
writes the draft with a snapshot of it, and later takes the outbox file away.
The web client learns of all this by a stream of change messages and by
reloading; while a request of its own is slow or given up, the server may have
done it, and older lists may land after newer ones.

**What is hard.** Every draft action awaits between file system calls, so two
requests, or a request and a CLI command, interleave freely; a crash leaves
files between two states; the agent drains the outbox at any moment; the worker
works through an old snapshot; saves, versions and rollbacks are separate
statements another process reads between. Sign-ins, account commands and
upgrades are rows of statements in several processes that may be killed between
any two. The web client has one editor, one busy mark and one selection for
everything it shows. `PROJECT.json` lists these hazards at
the lines where they bite, with the properties that cover them.

## 2. The modules

**`DraftLifecycle`**: the abstract specification of one draft as PLAN.md
describes it: a text that can be edited while proposed, then queued (with the
override if it says do_not_reply) and sent, or rejected.

**`DraftFiles`**: the files of one draft and any number of clients that run
`approveImessageDraft`, `rejectImessageDraft` and `updateImessageDraft`. One
action is one file system call with the synchronous code up to the next
`await`: `FindDraftPath`, `CheckDestination` (`existsSync`), `ReadDraft`
(`readFile` and the safeguard), `OpenTmp`/`WriteTmp`/`CommitTmp` (the three
effects of `atomicWrite`), `MoveDraft`, `DiscardDraft`. `Abort` ends a call
anywhere, `Drain` is the agent. `file` maps the names that can exist to their
content (a body, the do_not_reply flag, the reject mark, the override), `fd`
keeps a writer attached to the file it opened when another client renames it,
which is what makes the shared temporary name interesting. Paths carry the
draft's uuid, so one draft is the general case.

**`SendLifecycle`**: the transitions PLAN.md gives a scheduled send.

**`ScheduledSends`**: the rows, the clock, and workers that list what is due
and go through their snapshot: one action per statement of `ScheduleService`
(`Create`, `Cancel`, `ListDue`, `MarkSending`, `MarkSent`, `MarkFailed`) and
per outcome of `draftService.approve`. `markSent` is two statements, its UPDATE
(`MarkSent`) and the read after it (`MarkSentReturns`); `MarkSentThrows` is the
failure of either inside the `try`, so that a row which says sent becomes failed.
`Crash` is everything that ends a run. The draft a row is for is seen at
the stage `DraftLifecycle` gives it; `Review` and `Drain` are the people and the
agent that move it.

**`ContextResolve`**: the merge of contexts as operators, and beside them what
`docs/data-model.md` asks for, written without the loops (`Conservative`,
`Layered`).

**`ContextStore`** (over `ContextResolve`): the context rows, the tenant
signature, the version history, a save or rollback statement by statement, the
agent's `resolve` statement by statement, and the draft that is stamped with its
result and approved later. `rows` identifies a row by its target (a contact, or
the room) and keeps its id, because a save keeps the id and a rollback restores
by id; `versions` is `context_versions` in insertion order, with the
millisecond, which is what `latestVersionIds` sorts by. `cut` and
`resolver.since` record for the properties what was interrupted and what
overlapped.

**`Accounts`**: users, tenants, memberships, sessions and the audit entry that
is due. Web servers bootstrap and sign people in, shells run the CLI's account
commands and the seed script; `call[p]` is the statement process `p` comes to
next, `Kill(p)` ends it there, and `request` is the one request for a draft that
awaits the file system between its admission (`Admit`), its effect (`Act`) and
its audit entry (`WriteAudit`). Passwords are counted, so that a session can be
told to be older than a reset. `mixed` and `crowded` record for the properties on
which accounts a command was cut or met another one, and whether two commands
that make accounts met.

**`Migrations`**: the schema as a set of pieces, the journal, and `runMigrations`
statement by statement over an empty database, over what any older release left,
with or without context tables, and over its own remains after a kill. `legacy`
is what the older release left, and `cut` says that the seeding of the journal was
interrupted.

**`ApprovalsFeed`**: how Approvals comes to show the drafts there are. The file
of one draft stands for the folders; the events route polls their signature; the
refreshes list names, then read files, overlap, and land in any order. Drafts are
on the screen only with neither a spinner nor an error (`Current`). `excuses` names
the four ways in which the code may leave something else there: a change from before
the stream's first signature (`missed`), an older answer that lands last
(`overtaken`), a lost request (`lost`), and a list that lands behind the error of
another refresh, which no success takes down (`hidden`).

**`ApprovalsActions`**: hold to confirm, edit, reject, schedule, reschedule and
cancel in Approvals, with the one busy mark, the one editor and the one
scheduling mark the view has; calls that are executed, refused, done and answered
with an error (`RefusedAfterwards`), given up after twelve seconds (and executed all
the same); and reloads, of the calls that went well, by button and by the event
stream, whose two requests may be read at different times (`ReadLater`) and leave
no lists when they fail (`Showing`). `LeaveApprovals` is to go to another view and
come back: the marks are gone, the lists stay and the calls go on (`left`). The
server is cut down to the stage and text of a draft and its active rows. `doubted`
are the drafts others changed, whose request timed out or was answered with an
error after it was done, that an older list replaced on the screen, from which
another call took the busy mark, or that had a call under way when the view was
left; `unmarked` those that one call freed (the `finally` of `runDraftAction`) while
another on them was under way.

**`ContactsCache`**: exports of the address book side by side, the list that is
kept for ten minutes, and the answer a failed export falls back on.

**`ContactsView`**: the view's copy of the list, its editor, saves that overlap,
fail or leave their outcome open, the local id of a contact that is not saved
yet, and lists kept by the server that come back older than the view. `ContactArgs`
is what the route makes of a contact: labels that are no type become `other`, a
missing name is filled in, empty fields are left out. `unsure` are the contacts
about which one of the cases above makes the view err.

**`ContextEditing`**: one of the two editors of the Context view, what is in
focus, and the saves and reloads that overwrite it.

**`Navigation`**: how an address or a click leads to a conversation or a
contact: the resolve functions, and the two effects that both set the selection,
in the order React runs them. An entry answers to several keys, as it does in
`routeKeyMatches`.

**`Hub`** puts these eight side by side. They share no variable (what they take
from each other, such as the kept list in `ContactsView`, is modelled in the one
that uses it), so a behaviour moves in one of them, `area`, and what holds of
each alone holds of all.

Each `...MC` module gives the instance for TLC, each `..._proofs` module holds
theorems. In all modules a definition that stands directly before another one
and is named after a slip (`DestinationAtTmp`, `DueIgnoringTime`, ...) is not
part of the specification: it is the form a mutant puts in its place to show
that a property notices.

## 3. The runs

| Run | Instance | Shows |
|---|---|---|
| `drafts_restart` | 1 client, 2 texts, 4 calls, 3 of them cut short | Calls that do not overlap implement `DraftLifecycle` up to a second send; nothing is lost; nothing half-formed is in `outbox`; rejected files carry their metadata |
| `drafts_overlap` | 2 clients, 2 texts, 4 calls, 2 cut short | With overlap too, the draft is accounted for, the safeguard holds and messages never outnumber approve calls |
| `drafts_retry_sends_twice` | 1 client, 2 calls, 1 cut short | Violation of `SentAtMostOnce` |
| `drafts_brought_back` | 2 clients, 2 calls | Violation of `MovedStaysMoved` |
| `sends_workers` | 2 rows, 1 draft, 2 workers, 2 attempts, 1 cancel, 1 fault | Attempts stay within their bound, nothing is early, sent means queued; outside snapshots a cancel holds and a row whose attempts are used up stays failed |
| `sends_one_worker` | 2 rows, 1 worker, 2 faults, fairness | The rows make the transitions of `SendLifecycle`; each pending row is settled unless a crash orphans it |
| `sends_cancel_ignored` | 1 row, 1 worker, 1 cancel | Violation of `CancelledIsFinal` |
| `sends_stuck_sending` | 1 row, 1 worker, 1 crash, fairness | Violation of `EventuallySettled` |
| `context_history` | 1 contact and the room, 2 profiles, 2 saves or rollbacks, 1 cut short | The merge meets its definition; the history describes the rows; a superseded version was undone; a draft quotes the versions of its context |
| `context_do_not_reply` | the same, 1 save | Violation of `DoNotReplyNeedsOverride` |
| `hub_areas` | one area per behaviour: 2 accounts, 1 server and 1 shell, 2 tenants, 3 commands, 1 kill; every upgrade of `Migrations`; 2 exports; 2 refreshes, 2 changes, 2 visits, 1 fault; 1 draft with 3 events or 2 with 2, 2 calls, 1 row to begin with; 1 contact and 1 new one, 2 saves; 2 records, 2 requests; 2 entries | See the table below |
| `conversations_stale_url` | 2 entries | Violation of `StaleUrlNotFound` |

What `hub_areas` checks, beside the types of every area:

| Property | Says | Excused |
|---|---|---|
| `JournalIsTrue` | what the journal names is in the database | nothing |
| `UpgradeGetsThrough` | drizzle never meets a due migration whose tables exist | a kill between the inserts of `seedMigrationJournal`; a database without journal that has the context tables |
| `RevokedSessionsGone` | no session outlives a disable or a reset that is done | a sign-in that had read the user before; accounts in `mixed` |
| `RolesAgree` | `users.role` and `tenant_users.role` agree | accounts in `mixed` |
| `OneTenant` | there is one tenant | the seed script; two commands that make accounts at once |
| `AuditInOwnTenant`, `ActionsLeaveTrace` | the entry for a change has a tenant, one of the user's | an account that was not made to the end |
| `ServedRecently` | no list of contacts is older than ten minutes and one export | nothing |
| `ShownWhenQuiescent` | with nothing under way, Approvals shows what is there | `excuses` |
| `SpinnerEnds` | drafts are hidden only while a refresh that hides them is under way | nothing |
| `ApprovedAsShown` | the text that is queued is the one that was on the screen | `doubted`, `unmarked` |
| `OneSchedulePerDraft` | a draft has one active row at most | `doubted` |
| `EditSurvivesFailure` | no failed call closes the editor, nor any call of a view that was left | the reviewer closes it or leaves the view; a call of this view that went well, also on another draft |
| `ViewTellsBook` | Contacts shows what the address book has, but for labels and names the route has replaced | `unsure` |
| `CreatedOnce` | a new contact becomes one contact of the address book | `unsure` |
| `EditSurvivesRefresh` | what is typed in Context survives reloads and failed saves | a record in focus, the answer to an earlier save |
| `NamedIsShown` | what was clicked or followed is what is shown | an entry further up that answers to the same address |

**What the violations say.**

1. *A retried approve can send twice.* The only trace of an earlier approve is
   the file in `outbox`. An approve that stops after its rename and before the
   unlink, followed by a drain, leaves a draft that can be approved again
   (`docs/channel-adapters.md`: "retrying must be safe").
2. *A late edit brings a draft back.* The edit checks that the draft is there
   and renames its temporary file onto the path after several awaits; an
   approve or reject in between is undone.
3. *A cancel during a run is ignored.* The worker does not look at what
   `markSending` returned.
4. *A row can stay `sending` for ever.* No query lists it again after a crash.
5. *do_not_reply is decided by the draft's metadata.* Without that metadata, or
   with metadata older than the save that set the posture, approve asks for no
   override, although the same call reads the context in force for the signature
   (`TODO.md`: cannot be approved "without an explicit admin override").

6. *A stale conversation address shows the first conversation.* When the list
   comes, the effect that follows the address selects `missing:...`, and the one
   that selects something, which still sees that nothing is selected, selects the
   first entry (`docs/conversation-architecture.md`: "a not-found state instead of
   falling back to the latest conversation").

**Bounds.** Each is a constant that ends in the guards (`MaxCalls`, `MaxAborts`,
`Horizon`, `MaxCancels`, `MaxFaults`, `MaxChanges`).

- Drafts: a race needs two clients, and the longest story worth telling is a
  call cut short, its retry, and one call of each other kind: four calls. Two
  texts tell an edited message from the original.
- Sends: two workers make every snapshot race there is between a pair; two
  attempts exceed one by the smallest margin; a horizon of 1 separates due
  from not due; two rows of one draft meet each other.
- Contexts: a contact and the room are enough for the order of the merge in the
  tables (the pure merge is checked over every sequence of up to three contexts
  of all values that restrict, and of all that layer); two profiles tell old
  from new. Two changes suffice for a rollback after a save, and
  the initial states include a room that was saved, rolled back and saved again,
  from which a single rollback meets the row that took its key. One writer at a
  time is what the code has: the handlers of the one web server do not await
  between their statements, and nothing calls `rollback` yet.

- Hub: a race of account commands takes a server and a shell, and three commands
  are a creation, a change and what crosses it; one kill cuts one of them. Two
  refreshes, calls, saves, requests or exports overlap in every order. Two drafts
  are what one busy mark is shared by; two entries are what one address may lead
  to. A time to live of two steps and an export of one keep old, kept and fresh
  apart. Three events are a call, what crosses it and a call after it: a departure
between two, for instance. Two drafts get two, which is one call that takes the busy
mark from another; longer stories of two drafts are left to the theorems. Contacts
begin with labels that are types (`HubInit`); labels that are none come from the
view, which gives them to every new point. The mutants of `PROJECT.json` show that
the properties notice a slip within these bounds.

`CHECK_DEADLOCK FALSE` everywhere: clients, people and the clock may all stop,
and the bounds end each behaviour.

**Fairness** is used in the two runs of `FairSpec`: the clock goes on, and a worker
that has something to do goes on, as a poller that calls `runDueScheduledSends`
periodically makes it (PLAN.md; the repository has the worker and not yet the
process that calls it). Nobody has to review, cancel or create, the agent may
stop, and faults are never forced.

## 4. The proofs

All theorems are for arbitrary sets of clients, texts, rows, drafts, workers,
processes, accounts, requests and list lengths and arbitrary bounds, from the
assumptions named in the modules: counters are natural numbers, `Clients`,
`Workers` and `Refreshes` are finite, and the special values (`Absent`, `Empty`,
`NoText`, `NoSchedule`, `Nobody`, ...) differ from ordinary ones.

| Theorem | Says | Inductive invariant and why |
|---|---|---|
| `DraftFiles_proofs!TypeCorrect` | `[]TypeOK` | `TInv`: `TypeOK` and what each program counter says of the call in hand; without it a rename could move what a call of another kind wrote |
| `AlwaysAccountedFor` | `[]DraftAccountedFor` | `AInv`: a client about to unlink the draft has seen or made a destination. What is delivered stays delivered (`DeliveredStays`); until it is, nobody may unlink (`UndeliveredStep`) |
| `SafeguardAlwaysRespected` | `[]SafeguardRespected` | `SInv`: every queue file holds cleared content, and only approve calls have one open, so the write of one call into the file another renamed is harmless |
| `SendsAlwaysBacked` | `[]SendsBackedByApprovals` | `BInv`: messages sent, the one queued and the approve calls that have not yet renamed add up to at most the approve calls begun; open files exist, so a late write makes no new file |
| `NothingLostAlone`, `OutboxWellFormedAlone`, `RejectedIsMarkedAlone` | `Spec /\ []Alone => []NothingLost` and so on | `WInv`, see below |
| `LifecycleImplemented`, `OneClientImplements` | `Spec /\ []Alone => ImplementsLifecycle`; for one client with no other hypothesis | `WInv`, and that `DraftAccountedFor` holds |
| `ScheduledSends_proofs!TypeCorrect` | `[]TypeOK` | `TInv`: with what each program counter says of the row in hand |
| `AttemptsBounded` | `[]AttemptsWithinBound` | `HInv`: a worker with the row in its snapshot counts as an attempt to come; `Due` is what bounds a new snapshot |
| `NeverSentEarly` | `[]NeverEarly` | `DInv`: what is held exists and was due; the clock does not go back |
| `SentIsQueued` | `[]SentMeansQueued` | `QInv`: also of the worker about to mark the row |
| `CancelAlwaysHolds`, `RetriesAlwaysEnd` | `CancelHolds`, `RetriesEnd` | action properties: one case per action, from `TInv` |
| `SendLifecycleImplemented`, `OneWorkerImplements` | `Spec /\ []Alone /\ [][CancelInTime]_vars => ImplementsSendLifecycle`; for one worker and no cancellation with no other hypothesis | `RInv`, see below |
| `Accounts_proofs!AccountsTyped` | `[]AccountsTypeOK` | `AccountsInv`, the one invariant of `Accounts`; first each action's effect is stated row by row (the `...Effect` lemmas) |
| `RolesAlwaysAgree` | `[]RolesAgree` | `RolesInStep`: also between the two statements of a change, for the process that is to make the second one; `OneAtWork`: an account that is not `mixed` has one command on it |
| `SessionsAreRevoked` | `[]RevokedSessionsGone` | `Revoked`: also of a sign-in that has read the user and not yet written its session |
| `TenantIsOne` | `[]OneTenant` | `AloneAtFirst`: while not `crowded`, one process makes accounts, and what it is about to insert is the first tenant |
| `AuditIsInOwnTenant`, `ActionsAlwaysLeaveTrace` | `[]AuditInOwnTenant`, `[]ActionsLeaveTrace` | `MadeToTheEnd`: an account whose command was not cut has its membership; `RefersToRows`: what calls and sessions name exists |
| `UpgradeTyped`, `JournalNeverLies`, `UpgradeNeverClashes` | `[]MigrationsTypeOK`, `[]JournalIsTrue`, `[]UpgradeGetsThrough` | what the step of the upgrade says of the pieces made so far, and that the journal is empty, the baseline or whole unless seeding was cut; past the baseline, a database without context tables in `legacy` has none of the later pieces until drizzle makes them |
| `Approvals_proofs!FeedTyped`, `SpinnerAlwaysEnds` | `[]FeedTypeOK`, `[]SpinnerEnds` | `SpinnerEnds` is inductive with the types |
| `ShownOrExcused` | `[]ShownWhenQuiescent` | `FeedInv`: what is read is of the time it was read (`ReadsAreOfTheirAge`), and while the view is old, hidden by an error or by a spinner, something that will change it is pending or an excuse is on record (`SomethingComes`) |
| `ActionsTyped`, `AlwaysOneSchedule`, `AlwaysApprovedAsShown` | `[]ActionsTypeOK`, `[]OneSchedulePerDraft`, `[]ApprovedAsShown` | `ActionsInv`, see below |
| `EditAlwaysSurvivesFailure` | `EditSurvivesFailure` | one case per action, from the types |
| `Views_proofs!CacheTyped`, `AlwaysServedRecently` | `[]CacheTypeOK`, `[]ServedRecently` | what is kept while an export is under way was kept after it began (`ExportsAreBrief`), so the fallback is two exports old at most; this is where `Wait <= Ttl` is needed |
| `ContactsTyped`, `AlwaysCreatedOnce`, `ViewAlwaysTellsBook` | `[]ContactsTypeOK`, `[]CreatedOnce`, `[]ViewTellsBook` | `ContactsInv`: a save under way of a contact that is not `unsure` is the only one on it and has put in the book what its answer will put in the list (`SavesSettle`); a contact added here became one in the book at most, and its local id is gone from the list then or goes with the answer under way (`LocalsOnce`); every entry is the book's, but for what `ContactArgs` replaces, or an answer under way will make it so (`EntriesMatch`) |
| `NavigationTyped`, `NamedAlwaysShown` | `[]NavigationTypeOK`, `[]NamedIsShown` | inductive with the types; the lemma `ResolveFinds` (the first entry that answers exists) rests on the order of the natural numbers being well-founded |
| `EditingTyped`, `EditAlwaysSurvivesRefresh` | `[]EditingTypeOK`, `EditSurvivesRefresh` | one case per action, from the types |
| `Hub_proofs!HubTyped` | `[]TypeOK` of `Hub` | the types of the areas |
| `HubKeepsAccounts`, `HubKeepsViews` | `HubSpec =>` every property of `hub_areas` beside the types | each from the theorem about its area, since a step of `Hub` is a step of one area and leaves the others alone |
| `ContextResolve_proofs!MergeIsConservative` | `Conservative(Effective(start, contexts), contexts)` for any number of contexts | induction on the turns of each loop, see below |
| `MergeIsLayered` | `Layered(Effective(start, contexts), start, contexts)`, the same | `LayeredUpTo`: after `k` turns the signature is what `Layered` asks for of the first `k` contexts |
| `ContextStore_proofs!TypeCorrect`, `SupersededAlwaysUndone` | `[]TypeOK`, `[]SupersededWasUndone` | `TInv`, with the job each program counter has; `HistoryInv`: a rollback carries the id and the earlier payload of the version it undoes, and versions only change their status. For any number of overlapping writers, where the run has writers that take turns |
| `HistoryDescribesRowsAlone`, `StampQuotesItsContextAlone` | `Spec /\ []Alone => []HistoryDescribesRows`, `... => StampQuotesItsContext` | `KInv`: who owns an id (`Ownership`), that the history is ordered by time (`InOrder`), and that the latest versions of each context tell its row, unless a cut keeps them from it or the writer at work is about to record one (`Telling`, `Covered`) |
| `OneWriterTells` | both for one writer, with no other hypothesis | `TInv => Alone` |
| `MergeConservativeHolds`, `MergeLayeredHolds` | `[]MergeConservative`, `[]MergeLayered` | what the run looks at are contexts of the two theorems |
| `BundleMergedAsPromised` | the bundle in force is conservative and layered over the rows there are, a draft's over those its resolve read | `TInv`: rows and resolved contexts are rows, in sequence, whatever overlaps and is cut short |

**Hypotheses beside the specification.** `Alone` says that no two clients
(`DraftFiles`), workers (`ScheduledSends`) or writers (`ContextStore`) are at work
at once. Any number may exist, one after the other, and each may die anywhere;
with overlap the code promises less, as section 5 says. `Alone` follows from the
types when there is one client, worker or writer, which is what
`OneClientImplements`, `OneWorkerImplements` and `OneWriterTells` state without
it, and what the runs check. `CancelInTime` leaves out the cancellation of a row
that is sent or in a worker's snapshot: that one is the violation
`sends_cancel_ignored`. `MaxCancels = 0` makes it hold.

**The refinements.** `LifecycleImplemented` rests on `WInv`: the names that are
looked at (draft, outbox, rejected, sent) hold whole messages, and each program
counter says which file the call has written and which ones cannot be there.
Then every file operation is mapped to a step of `DraftLifecycle` or to a stutter,
one lemma per operation. `SendLifecycleImplemented` rests on `RInv`: the rows a
run has not reached are as its snapshot has them, and the one in hand is the one
it marked. The refinement maps a row that says sent to sending while a worker has it
in hand (`SettledStatus`), because the read that follows the UPDATE may still make
it failed; it counts as sent when the worker lets go of it, also by dying. Both state the safety half of the abstract specification, which has no
other.

**`ActionsInv`** is about drafts that are not in doubt, on which no call of a view
that was left is under way. All calls that are under
way beside one on such a draft are on the same draft (`OnOne`); one of them at
most schedules it, and owns the scheduling mark (`OneScheduler`); a row the view
does not show is of a call that has not reloaded yet (`RowsShown`), so the
scheduler finds the row it must cancel, and there is room for the new one
(`RoomForRow`). A call past its `replace` has the draft busy (`BusyMarked`, where
the draft is not `unmarked`), so no edit can begin beside an approval; the text on
the screen is the server's, or a save is about to reload it (`TextShown`), so the
text a hold or an approval saw is the one there is (`HoldShows`, `ApproveShows`).

**The merge** is a row of loops over the contexts, modelled by folds. The
prover cannot unfold a fold by itself, nor use the library's induction, so both are
built from what it can do. `FoldExists` shows that the choice inside the fold's
definition is met: there is a function that computes the fold on every interval
of places. `FoldRuns` turns it into a run: a function from the number of turns to
the value after them, which begins at the start value, makes one turn at a time
and ends at the fold. `PosturesRun`, `MarksRun` and `ServicesRun` state the
three loops in this form. Induction (`Numbers`, `InTurns`) is about a set, that of
the turns after which the claim holds: one left out would have a first one, as
the order of the natural numbers is well-founded.

**What the attempts to prove found.**

- `ApprovedAsShown` was stated with `doubted` alone, which holds in `hub_areas`
  and is false for five events or more: while `scheduleDraft` waits for the old row to be
  cancelled, nothing is busy, and an approval can be begun beside it; when the new
  row is then refused, the `finally` of `runDraftAction` frees the draft although the
  approval is still under way; the draft is edited, saved, and only then approved,
  with a text the reviewer did not see when the hold began. TLC confirms it
  on one draft, two calls and five events. The property names the case
  (`unmarked`).
- The other cases of `doubted` came the same way, each from a step the proof could
  not close. Leaving the view forgets what is busy, being edited and being
  scheduled while the calls go on: an approval under way can be followed by an edit
  that is saved first, and a second schedule by a second row. `create` inserts its
  row before it reads it back, so an error answer may leave a row, and the next
  schedule makes two. Given all of them the theorems hold.
- An error of one refresh stays on the screen over the drafts another one has
  loaded since: only the start of a refresh clears it. `ShownWhenQuiescent` names
  that case (`hidden`).
- A row the worker has marked sent can become failed and be attempted again: the
  read at the end of `markSent` is inside the same `try`. The second attempt finds
  the draft queued and approves it as done, unless it has been drained, when
  `approve` fails until the attempts are used up, for a message that was sent.
- A database without journal that has the context tables cannot be upgraded, with
  no kill at all: `runMigrations` completes their columns, seeds the journal with a
  baseline that ends before the migration that creates them, and each later start
  fails there. `UpgradeGetsThrough` names it, and the kill while seeding, which
  leaves the same trace.
- Contacts keeps the labels it sent, where the route has put `other` into the
  address book (`main`, which every new point gets, among them).
  `ViewTellsBook` says so.
- `Layered` and the intersection of the lists were written with filtered
  sequences, which the provers cannot open. They now say the same with sets and
  counts.
- The alternatives of `Stage` (`DraftFiles`) overlapped; a CASE of TLA+ may then
  choose any of them. They are disjoint now.
- `SendLifecycle` is implemented only if cancellations come in time, and
  `HistoryDescribesRows` only if writers take turns: neither is visible in a run
  that has no cancellation, or one writer.

## 5. Limits

**Only model-checked**: the liveness property `SettledOrOrphaned` (liveness is out
of the prover's reach). Every other property of a passing run is a theorem, with
the hypotheses section 4 names.

**Weaker than one might wish, because the code is.**

- With two clients and a crash, a half-formed file can reach `outbox`: one call
  truncates the temporary file, the other renames it, the first dies.
  `OutboxWellFormed` is therefore a property of `drafts_restart` only.
- With several workers a row may be attempted more often than `maxAttempts`, by
  one for each further worker: `markSending` checks the status alone.
- `StampQuotesItsContext` is for a resolve during which nothing changed and for
  versions with distinct milliseconds. Otherwise a draft may quote a version
  that does not say what it was written with.
- The excuses of the properties of `hub_areas` are each a way the code does leave
  the two sides apart, reached in the run: an account command that is killed or
  crossed, a first tenant made twice, a change before the first signature of the
  stream, a slower answer that replaces a newer one, an error that stays over it, a
  request given up by the browser and executed by the server or answered with an
  error after it was done, a view left with calls under way, saves of one contact
  that overlap. That they cover every case the models have is what the theorems
  show.
- A disabled user's session is honoured until it is deleted: `Admit` looks at the
  role alone, as `_auth.ts` does. The commands delete it in their last statement.
- `approve` signs with the signature in force, while `docs/data-model.md` says
  approvals preserve "the exact context marker used for that draft"; the marker
  is kept as metadata only.

**Abstractions.** Message bodies are model values; of the metadata only what a
property tells apart is kept. A write is one step after an open that truncates.
Row ids are drawn in order. Tables are read by one statement at a time, without
a transaction, as the code does.

**Not modelled**: `PROJECT.json` lists each part with its reason.

- In part: a reload of the page with Approvals open, which is a departure
  (`LeaveApprovals`), the end of every call with its outcome open (`TimeOut`) and a
  reload of the lists, all of them modelled, at once; the error that stays over
  later lists, which `ApprovalsFeed` has, is left out of `ApprovalsActions`, where
  it only takes buttons away; import, export and tracking of contacts; filters, search and the
  conversation a contact is opened in; dismissed suggestions and the field for the
  global signature in Context; the listing and the review status of versions;
  hashing, the cookie and the age of sessions; the columns of tables no property
  tells apart.
- Not at all: the sign-in screen (one form), the adapter registry and the read
  services, the queries over imsg-agent's database (conversations, contacts,
  perspective), context harvest (a read-only heuristic), formatting, argument
  parsing, rendering, stubs and scripts. They keep no state of their own.

## 6. What could come next

1. `ScheduledSends` with workers that overlap: which transitions of
   `SendLifecycle` are left, beside what `AttemptsWithinBound`, `CancelHolds` and
   `RetriesEnd` say.
2. The other half of the Contacts view (import, tracking) and of the Context view,
   if they come to save by themselves.
