-------------------------- MODULE Views_proofs -------------------------
(***************************************************************************)
(* Proofs about the views beside Approvals and what they are served from.  *)
(* ContactsCache: what listContactsFromContactsMcp answers is never older  *)
(* than the ten minutes and one export, whatever overlaps. ContactsView:   *)
(* the view shows what the address book has, and a new contact becomes     *)
(* one, for any number of contacts and requests. Navigation: what          *)
(* Conversations and Contacts show. ContextEditing: the editors of         *)
(* Context.                                                                *)
(***************************************************************************)
EXTENDS ContactsCache, ContactsView, Navigation, ContextEditing, FiniteSetTheorems,
        WellFoundedInduction, TLAPS

Fresh(list, since) == list # 0 => replaced[list] >= since

(* No stamp is of the future.                                              *)
StampsArePast ==
  /\ kept.at \in 0..clock /\ served.at \in 0..clock
  /\ \A x \in Exports : export[x].start \in 0..clock

(* No export outlasts its waits, what one has in its file is as new as     *)
(* itself, and what is kept meanwhile was kept after it began.             *)
IsBrief(x) ==
  export[x] # NoExport =>
    /\ clock - export[x].start <= Wait
    /\ kept.list # 0 => kept.at >= export[x].start
    /\ export[x].step = "written" =>
         export[x].list # 0 /\ Fresh(export[x].list, export[x].start)
ExportsAreBrief == \A x \in Exports : IsBrief(x)

(* What the address book holds, or will hold, nothing has replaced.        *)
InForce == \A b \in BookLists : b >= addresses => replaced[b] = MaxClock + 1

KeptIsFresh == Fresh(kept.list, kept.at - Wait)

CacheInv ==
  CacheTypeOK /\ StampsArePast /\ InForce /\ ExportsAreBrief /\ KeptIsFresh /\ ServedRecently

LEMMA InitEstablishesCache == CacheInit => CacheInv
BY CacheAssumption, SMT
   DEF CacheInit, CacheInv, CacheTypeOK, StampsArePast, InForce, ExportsAreBrief, IsBrief,
      KeptIsFresh,
       ServedRecently, Fresh, NoExport, Nothing, Stamped, BookLists

(* What is replaced now was in force until now, and every stamp is past.   *)
LEMMA ChangeKeepsFresh ==
  ASSUME CacheTypeOK, BookChanges,
         NEW list \in 0..MaxBook + 1, NEW since \in Int, since <= clock,
         Fresh(list, since)
  PROVE  Fresh(list, since)'
BY CacheAssumption, SMT DEF CacheTypeOK, BookChanges, Fresh, BookLists

LEMMA TickKeepsCache == ASSUME CacheInv, Tick PROVE CacheInv'
BY CacheAssumption, SMT
   DEF Tick, CacheInv, CacheTypeOK, StampsArePast, InForce, ExportsAreBrief, IsBrief,
      KeptIsFresh, ServedRecently, Fresh, NoExport

LEMMA ChangeKeepsCache == ASSUME CacheInv, BookChanges PROVE CacheInv'
<1> USE CacheAssumption
<1>1. CacheTypeOK' /\ StampsArePast' /\ InForce'
  BY SMT DEF BookChanges, CacheInv, CacheTypeOK, StampsArePast, InForce, BookLists
<1>2. KeptIsFresh'
  BY ChangeKeepsFresh, SMT DEF BookChanges, CacheInv, CacheTypeOK, StampsArePast, InForce,
     KeptIsFresh, Stamped, Fresh, BookLists
<1>3. ServedRecently'
  BY ChangeKeepsFresh, SMT DEF BookChanges, CacheInv, CacheTypeOK, StampsArePast, InForce,
     ServedRecently, Stamped, Fresh, BookLists
<1>4. ExportsAreBrief'
  <2> SUFFICES ASSUME NEW x \in Exports PROVE IsBrief(x)'
    BY DEF ExportsAreBrief, BookChanges
  <2> QED
    BY SMT DEF BookChanges, CacheInv, CacheTypeOK, StampsArePast, InForce,
       ExportsAreBrief, IsBrief, Fresh, BookLists, NoExport
<1> QED BY <1>1, <1>2, <1>3, <1>4 DEF CacheInv

LEMMA ListKeepsCache == ASSUME CacheInv, NEW x \in Exports, ListContacts(x) PROVE CacheInv'
<1> USE CacheAssumption DEF CacheInv
<1>1. CASE /\ kept.list # 0 /\ ~Expired
           /\ served' = [list |-> kept.list, at |-> clock]
           /\ UNCHANGED <<kept, export>>
  <2>1. CacheTypeOK' /\ StampsArePast' /\ InForce' /\ KeptIsFresh'
    BY <1>1, SMT DEF ListContacts, CacheTypeOK, StampsArePast, InForce, KeptIsFresh, Fresh, Stamped
  <2>2. ExportsAreBrief'
    BY <1>1, SMT DEF ListContacts, ExportsAreBrief, IsBrief, Fresh
  <2>3. /\ kept.list \in BookLists /\ kept.at \in Nat /\ clock \in Nat
        /\ replaced[kept.list] \in Int
    BY <1>1, SMT DEF CacheTypeOK, Stamped, BookLists
  <2>4. replaced[kept.list] >= clock - (Ttl + Wait)
    BY <1>1, <2>3, SMT DEF Expired, KeptIsFresh, Fresh
  <2>5. ServedRecently'
    BY <1>1, <2>4, SMT DEF ListContacts, ServedRecently
  <2> QED BY <2>1, <2>2, <2>5
<1>2. CASE /\ kept' = Nothing /\ UNCHANGED served
           /\ export' = [export EXCEPT ![x] = [step |-> "asked", start |-> clock, list |-> 0]]
  <2>1. CacheTypeOK' /\ StampsArePast' /\ InForce' /\ KeptIsFresh' /\ ServedRecently'
    BY <1>2, SMT DEF ListContacts, CacheTypeOK, StampsArePast, InForce, KeptIsFresh,
       ServedRecently, Fresh, Stamped, Nothing
  <2>2. ASSUME NEW y \in Exports PROVE IsBrief(y)'
    BY <1>2, <2>2, SMT DEF ListContacts, CacheTypeOK, StampsArePast, InForce,
       ExportsAreBrief, IsBrief, Fresh, Nothing, NoExport
  <2> QED BY <2>1, <2>2, <1>2 DEF ExportsAreBrief
<1> QED BY <1>1, <1>2 DEF ListContacts

LEMMA WrittenKeepsCache == ASSUME CacheInv, NEW x \in Exports, Written(x) PROVE CacheInv'
<1> USE CacheAssumption DEF CacheInv
<1>1. export' = [export EXCEPT ![x] = [step |-> "written", start |-> export[x].start, list |-> addresses]]
  BY SMT DEF Written, CacheTypeOK
<1>2. CacheTypeOK' /\ StampsArePast' /\ InForce' /\ KeptIsFresh' /\ ServedRecently'
  BY <1>1, SMT DEF Written, CacheTypeOK, StampsArePast, InForce, KeptIsFresh,
     ServedRecently, Fresh, BookLists
<1>3. ASSUME NEW y \in Exports PROVE IsBrief(y)'
  <2>1. CASE y = x
    <3>1. addresses # 0 /\ Fresh(addresses, export[x].start)
      BY SMT DEF CacheTypeOK, StampsArePast, InForce, Fresh, BookLists
    <3>2. clock - export[x].start <= Wait /\ (kept.list # 0 => kept.at >= export[x].start)
      BY SMT DEF Written, ExportsAreBrief, IsBrief, NoExport
    <3> QED BY <1>1, <2>1, <3>1, <3>2, SMT DEF Written, CacheTypeOK, IsBrief, Fresh
  <2>2. CASE y # x
    BY <1>1, <2>2, SMT DEF Written, CacheTypeOK, ExportsAreBrief, IsBrief, Fresh
  <2> QED BY <2>1, <2>2
<1> QED BY <1>2, <1>3 DEF ExportsAreBrief, Written

(* What is kept now is at least as new as the export that brought it, which*)
(* is as old as its waits at most.                                         *)
LEMMA ExportedKeepsCache == ASSUME CacheInv, NEW x \in Exports, Exported(x) PROVE CacheInv'
<1> USE CacheAssumption DEF CacheInv
<1>1. IsBrief(x) /\ export[x] # NoExport
  BY SMT DEF Exported, ExportsAreBrief, NoExport
<1>2. CacheTypeOK' /\ StampsArePast' /\ InForce'
  BY <1>1, SMT DEF Exported, CacheTypeOK, StampsArePast, InForce, Stamped, NoExport
<1>3. KeptIsFresh' /\ ServedRecently'
  <2>1. /\ export[x].list \in BookLists /\ export[x].start \in Nat /\ clock \in Nat
        /\ replaced[export[x].list] \in Int
    BY <1>1, SMT DEF Exported, CacheTypeOK, IsBrief, BookLists
  <2>2. replaced[export[x].list] >= clock - Wait
    BY <1>1, <2>1, SMT DEF Exported, IsBrief, Fresh
  <2>3. kept'.list = export[x].list /\ kept'.at = clock /\ served' = kept' /\ replaced' = replaced
    BY DEF Exported
  <2> QED BY <2>1, <2>2, <2>3, SMT DEF KeptIsFresh, ServedRecently, Fresh
<1>4. ASSUME NEW y \in Exports PROVE IsBrief(y)'
  BY <1>4, SMT DEF Exported, CacheTypeOK, StampsArePast, InForce, ExportsAreBrief,
     IsBrief, Fresh, NoExport
<1> QED BY <1>2, <1>3, <1>4 DEF ExportsAreBrief, Exported

(* The fallback was kept after the export that failed had begun.           *)
LEMMA FailsKeepsCache == ASSUME CacheInv, NEW x \in Exports, ExportFails(x) PROVE CacheInv'
<1> USE CacheAssumption DEF CacheInv
<1>1. IsBrief(x) /\ export[x] # NoExport
  BY DEF ExportFails, ExportsAreBrief
<1>2. CacheTypeOK' /\ StampsArePast' /\ InForce'
  BY SMT DEF ExportFails, CacheTypeOK, StampsArePast, InForce, Stamped, NoExport
<1>3. KeptIsFresh'
  BY DEF ExportFails, KeptIsFresh, Fresh
<1>4. ServedRecently'
  <2>1. served'.list = kept.list /\ served'.at = clock /\ replaced' = replaced
    BY DEF ExportFails
  <2>2. CASE kept.list # 0
    <3>1. /\ kept.list \in BookLists /\ kept.at \in Nat /\ export[x].start \in Nat /\ clock \in Nat
          /\ replaced[kept.list] \in Int
      BY <2>2, SMT DEF CacheTypeOK, Stamped, BookLists
    <3>2. replaced[kept.list] >= clock - (Ttl + Wait)
      BY <1>1, <2>2, <3>1, SMT DEF IsBrief, KeptIsFresh, Fresh
    <3> QED BY <2>1, <3>2, SMT DEF ServedRecently
  <2>3. CASE kept.list = 0
    BY <2>1, <2>3 DEF ServedRecently
  <2> QED BY <2>2, <2>3
<1>5. ASSUME NEW y \in Exports PROVE IsBrief(y)'
  BY <1>5, SMT DEF ExportFails, CacheTypeOK, ExportsAreBrief, IsBrief, Fresh, NoExport
<1> QED BY <1>2, <1>3, <1>4, <1>5 DEF ExportsAreBrief, ExportFails

LEMMA StutterKeepsCache == ASSUME CacheInv, UNCHANGED cacheVars PROVE CacheInv'
BY SMT DEF cacheVars, CacheInv, CacheTypeOK, StampsArePast, InForce, ExportsAreBrief,
   IsBrief, KeptIsFresh, ServedRecently, Fresh

LEMMA StepKeepsCache == CacheInv /\ [CacheNext]_cacheVars => CacheInv'
BY TickKeepsCache, ChangeKeepsCache, ListKeepsCache, WrittenKeepsCache, ExportedKeepsCache,
   FailsKeepsCache, StutterKeepsCache DEF CacheNext

LEMMA CacheHolds == CacheSpec => []CacheInv
<1>1. CacheInv /\ [][CacheNext]_cacheVars => []CacheInv
  BY StepKeepsCache, PTL
<1> QED BY <1>1, InitEstablishesCache, PTL DEF CacheSpec

(* The clock, the list kept and every export stay in their types           *)
(* (packages/mcp-client/src/index.ts).                                     *)
THEOREM CacheTyped == CacheSpec => []CacheTypeOK
<1>1. CacheInv => CacheTypeOK
  BY DEF CacheInv
<1> QED BY <1>1, CacheHolds, PTL

(* No answer of listContactsFromContactsMcp shows an address book older    *)
(* than the time to live and one export, for any number of exports side by *)
(* side; the argument needs that an export's waits are not longer than the *)
(* time to live.                                                           *)
THEOREM AlwaysServedRecently == CacheSpec => []ServedRecently
<1>1. CacheInv => ServedRecently
  BY DEF CacheInv
<1> QED BY <1>1, CacheHolds, PTL

-----------------------------------------------------------------------------
(* The view (ContactsView).  Where an id began is read off the origins, so *)
(* that it can be told of those before a step and those after it.          *)
RootIn(o, i) == IF i \in Made /\ o[i] # NoContact THEN o[i] ELSE i
Origins == [Made -> Local \cup {NoContact}]

LEMMA RootIsRootIn == \A i : Root(i) = RootIn(origin, i) /\ Root(i)' = RootIn(origin', i)
BY DEF Root, RootIn

LEMMA IdsApart ==
  /\ \A l \in Local : l \notin Real /\ l \notin Made /\ l # NoContact
  /\ \A i \in Ids : i # NoContact
  /\ \A i : i \in Ids <=> i \in Real \/ i \in Local
  /\ \A f \in Made : f \in Real
BY ContactsAssumption DEF Real, Ids

LEMMA RootInTyped ==
  ASSUME NEW o \in Origins
  PROVE  /\ \A i \in Ids : RootIn(o, i) \in Ids
         /\ \A l \in Local : RootIn(o, l) = l
         /\ \A i \in Real : RootIn(o, i) \in Real => RootIn(o, i) = i
         /\ \A i \in Real : RootIn(o, i) \in Local => i \in Made /\ o[i] = RootIn(o, i)
         /\ \A f \in Made : o[f] # NoContact => RootIn(o, f) = o[f]
BY IdsApart, SMT DEF RootIn, Origins

SaveRecord ==
  [step : {"idle", "sent", "done", "failed"}, photo : BOOLEAN, id : Ids \cup {NoContact},
   value : Values, gets : Ids \cup {NoContact}, mounted : BOOLEAN]

SavePending(s) == saves[s] # NoSave
Sure(i) == RootIn(origin, i) \notin unsure
HasOrigin(i) == i \in Made => origin[i] # NoContact

(* No list has a contact the address book does not have.                   *)
EntriesAreKnown ==
  /\ \A i \in Real : managed[i] # Gone \/ contacts[i] # Gone \/ answer[i] # Gone => book[i] # Gone
  /\ \A l \in Local : contacts[l] = Gone
  /\ \A f \in Made : book[f] # Gone <=> origin[f] # NoContact

EditorKnown == editor # NoEditor => editor.id \in Ids /\ editor.value # Gone /\ HasOrigin(editor.id)

(* A request is about a contact there is, and is given the id that became  *)
(* of it.                                                                  *)
Placed(s) ==
  /\ saves[s].step # "idle"
  /\ saves[s].id \in Ids /\ saves[s].value # Gone /\ HasOrigin(saves[s].id)
  /\ saves[s].step = "done" =>
       /\ saves[s].gets \in Real /\ book[saves[s].gets] # Gone
       /\ RootIn(origin, saves[s].gets) = RootIn(origin, saves[s].id)

(* A request on a contact the view does not err about is the only one on   *)
(* it, has its view, and has put into the book what it says.               *)
AloneOnIt(s) == \A t \in Saves : SavePending(t) /\ RootIn(origin, saves[t].id) = RootIn(origin, saves[s].id) => t = s
Kept(s) ==
  IF saves[s].id \in Real THEN saves[s].gets = saves[s].id
  ELSE saves[s].gets \in Made /\ managed[saves[s].gets] = Gone
Effective(s) ==
  /\ saves[s].mounted
  /\ saves[s].photo => saves[s].id \in Real
  /\ saves[s].step = "done" => book[saves[s].gets] = ContactArgs(saves[s].value) /\ Kept(s)
  /\ saves[s].step = "failed" => ~saves[s].photo
  /\ saves[s].id \in Local /\ saves[s].step # "done" => \A f \in Made : origin[f] # saves[s].id
Settles(s) == AloneOnIt(s) /\ Effective(s)

(* A contact that was added here has become one in the book, and then the  *)
(* local id is gone or goes with the answer.                               *)
Once(l) ==
  /\ \A f, g \in Made : origin[f] = l /\ origin[g] = l => f = g
  /\ (\E f \in Made : origin[f] = l) =>
       \/ \E s \in Saves : SavePending(s) /\ saves[s].id = l
       \/ managed[l] = Gone /\ editor.id # l

(* An entry is what the book has, but for what the route made of it, or an *)
(* answer will make it so.                                                 *)
Told(v, b) == b = v \/ b = ContactArgs(v)
Carried(i) ==
  \E s \in Saves :
    /\ SavePending(s) /\ RootIn(origin, saves[s].id) = RootIn(origin, i)
    /\ saves[s].photo \/ saves[s].step = "done"
Matched(i) == Told(managed[i], book[i]) \/ Carried(i)

SavesPlaced == \A s \in Saves : SavePending(s) => Placed(s)
SavesSettle == \A s \in Saves : SavePending(s) /\ Sure(saves[s].id) => Settles(s)
LocalsOnce == \A l \in Local : l \notin unsure => Once(l)
EntriesMatch == \A i \in Real : managed[i] # Gone /\ Sure(i) => Matched(i)

ContactsInv ==
  /\ ContactsTypeOK
  /\ EntriesAreKnown /\ EditorKnown /\ SavesPlaced /\ SavesSettle /\ LocalsOnce /\ EntriesMatch

-----------------------------------------------------------------------------
(* An entry that has some of its marks changed is an entry.                *)
LEMMA MarksChange ==
  ASSUME NEW N, NEW B, NEW E, E = [n : N, org : B, types : B, named : B],
         NEW v \in E, NEW b \in B, NEW c \in B, NEW k \in N
  PROVE  /\ v.org \in B
         /\ [v EXCEPT !.n = k] \in E
         /\ [v EXCEPT !.named = b] \in E
         /\ [v EXCEPT !.org = b] \in E
         /\ [v EXCEPT !.types = c, !.named = b] \in E
         /\ [v EXCEPT !.org = b, !.types = c] \in E
OBVIOUS

LEMMA EntriesApart ==
  /\ Gone \in Values /\ Gone \notin Entry
  /\ Blank \in Entry
  /\ \A v : v \in Entry <=> v \in Values /\ v # Gone
<1>1. Gone.n = 0
  BY DEF Gone
<1>2. \A v \in Entry : v.n # 0
  BY DEF Entry
<1>3. Blank \in Entry
  <2>1. 1 \in Nat \ {0}
    BY SMT
  <2> QED BY <2>1, Zenon DEF Blank, Entry
<1> QED BY <1>1, <1>2, <1>3 DEF Values

LEMMA EntryMarked ==
  ASSUME NEW v \in Entry, NEW b \in BOOLEAN, NEW c \in BOOLEAN
  PROVE  /\ v.org \in BOOLEAN
         /\ [v EXCEPT !.named = b] \in Entry
         /\ [v EXCEPT !.org = b] \in Entry
         /\ [v EXCEPT !.types = c, !.named = b] \in Entry
         /\ [v EXCEPT !.org = b, !.types = c] \in Entry
<1> DEFINE B == BOOLEAN
           N == Nat \ {0}
<1>1. /\ Entry = [n : N, org : B, types : B, named : B]
      /\ b \in B /\ c \in B /\ 1 \in N
  BY SMT DEF Entry
<1>2. BOOLEAN = B
  OBVIOUS
<1> HIDE DEF B, N
<1> QED BY <1>1, <1>2, MarksChange

LEMMA EntryWritten ==
  ASSUME NEW v \in Entry, NEW k \in Nat \ {0} PROVE [v EXCEPT !.n = k] \in Entry
<1> DEFINE B == BOOLEAN
           N == Nat \ {0}
<1>1. /\ Entry = [n : N, org : B, types : B, named : B]
      /\ TRUE \in B /\ k \in N
  BY DEF Entry
<1> HIDE DEF B, N
<1> QED BY <1>1, MarksChange

LEMMA PlainValues ==
  /\ Gone \in Values /\ Blank \in Values /\ Blank # Gone
  /\ NoSave \in SaveRecord /\ NoSave.step = "idle"
  /\ NoEditor \in [id : Ids \cup {NoContact}, value : Values] /\ NoEditor.id = NoContact
  /\ NoEditor.value = Gone
<1>1. Gone \in Values /\ Blank \in Values /\ Blank # Gone
  BY EntriesApart
<1>2. NoSave \in SaveRecord /\ NoSave.step = "idle"
  BY <1>1, SMT DEF NoSave, SaveRecord
<1>3. NoEditor \in [id : Ids \cup {NoContact}, value : Values] /\ NoEditor.id = NoContact
      /\ NoEditor.value = Gone
  BY <1>1, SMT DEF NoEditor
<1> QED BY <1>1, <1>2, <1>3

LEMMA InitEstablishesContacts == ContactsInit => ContactsInv
<1> SUFFICES ASSUME ContactsInit PROVE ContactsInv
  OBVIOUS
<1>0. PICK types \in BOOLEAN :
        book = [i \in Real |-> IF i \in Known THEN [Blank EXCEPT !.org = TRUE, !.types = types]
                                              ELSE Gone]
  BY DEF ContactsInit
<1> DEFINE first == [Blank EXCEPT !.org = TRUE, !.types = types]
<1>0a. first \in Values /\ first # Gone
  <2> DEFINE org == TRUE
  <2>1. first = [Blank EXCEPT !.org = org, !.types = types] /\ org \in BOOLEAN
    OBVIOUS
  <2> HIDE DEF first, org
  <2>2. first \in Entry
    BY <2>1, EntryMarked, EntriesApart
  <2> QED BY <2>2, EntriesApart
<1>0b. book = [i \in Real |-> IF i \in Known THEN first ELSE Gone]
  BY <1>0
<1> HIDE DEF first
<1>1. /\ book \in [Real -> Values]
      /\ \A f \in Made : book[f] = Gone
  BY <1>0a, <1>0b, PlainValues, ContactsAssumption, IdsApart
<1>2. /\ AllOf(book) \in [Ids -> Values]
      /\ \A i \in Real : AllOf(book)[i] = book[i]
      /\ \A l \in Local : AllOf(book)[l] = Gone
  BY <1>1, PlainValues, IdsApart DEF AllOf
<1>3. ContactsTypeOK
  BY <1>1, <1>2, PlainValues, SMT DEF ContactsInit, ContactsTypeOK, SaveRecord
<1>4. EntriesAreKnown
  <2>1. \A i \in Real : managed[i] = book[i] /\ contacts[i] = book[i] /\ answer[i] = book[i]
    BY <1>2 DEF ContactsInit
  <2>2. \A l \in Local : contacts[l] = Gone
    <3>1. contacts = AllOf(book)
      BY DEF ContactsInit
    <3> QED BY <1>2, <3>1
  <2>3. \A f \in Made : book[f] = Gone /\ origin[f] = NoContact
    BY <1>1 DEF ContactsInit
  <2> QED BY <2>1, <2>2, <2>3 DEF EntriesAreKnown
<1>5. EditorKnown /\ SavesPlaced /\ SavesSettle
  BY DEF ContactsInit, EditorKnown, SavesPlaced, SavesSettle, SavePending
<1>6. LocalsOnce
  BY IdsApart DEF ContactsInit, LocalsOnce, Once
<1>7. EntriesMatch
  BY <1>2 DEF ContactsInit, EntriesMatch, Matched, Told
<1> QED BY <1>3, <1>4, <1>5, <1>6, <1>7 DEF ContactsInv

(* Steps of the view alone: nothing is sent and nothing answered, an entry *)
(* may go, and a local id comes into use only before it is one in the book.*)
LEMMA ViewStep ==
  ASSUME ContactsInv, UNCHANGED <<book, origin, lists, saves, unsure>>,
         texts' \in Nat, deeds' \in Nat,
         managed' \in [Ids -> Values], editor' \in [id : Ids \cup {NoContact}, value : Values],
         EditorKnown',
         \A i \in Real : managed'[i] # Gone => managed'[i] = managed[i],
         \A l \in Local, f \in Made :
           origin[f] = l /\ managed[l] = Gone /\ editor.id # l => managed'[l] = Gone /\ editor'.id # l
  PROVE  ContactsInv'
<1> USE DEF ContactsInv, lists
<1>1. ContactsTypeOK'
  BY DEF ContactsTypeOK
<1>2. EntriesAreKnown'
  BY DEF EntriesAreKnown
<1>3. SavesPlaced'
  BY DEF SavesPlaced, SavePending, Placed, HasOrigin
<1>4. SavesSettle'
  <2> SUFFICES ASSUME NEW s \in Saves, SavePending(s)', Sure(saves[s].id)' PROVE Settles(s)'
    BY DEF SavesSettle
  <2>1. SavePending(s) /\ Sure(saves[s].id)
    BY DEF SavePending, Sure
  <2>2. AloneOnIt(s) /\ Effective(s)
    BY <2>1 DEF SavesSettle, Settles
  <2>3. AloneOnIt(s)'
    BY <2>2 DEF AloneOnIt, SavePending
  <2>4. Effective(s)'
    BY <2>2, IdsApart DEF Effective, Kept
  <2> QED BY <2>3, <2>4 DEF Settles
<1>5. LocalsOnce'
  BY DEF LocalsOnce, Once, SavePending
<1>6. EntriesMatch'
  BY DEF EntriesMatch, Matched, Carried, Sure, SavePending
<1> QED BY <1>1, <1>2, <1>3, <1>4, <1>5, <1>6

LEMMA ContactsParts ==
  ASSUME ContactsInv
  PROVE  /\ ContactsTypeOK /\ origin \in Origins /\ saves \in [Saves -> SaveRecord]
         /\ book \in [Real -> Values] /\ managed \in [Ids -> Values]
         /\ editor \in [id : Ids \cup {NoContact}, value : Values]
         /\ unsure \subseteq Ids /\ texts \in Nat /\ deeds \in Nat
BY DEF ContactsInv, ContactsTypeOK, Origins, SaveRecord

LEMMA PendingPlaced ==
  ASSUME ContactsInv, NEW s \in Saves, saves[s].step # "idle" PROVE SavePending(s) /\ Placed(s)
<1>1. saves[s] # NoSave
  BY PlainValues
<1> QED BY <1>1 DEF SavePending, ContactsInv, SavesPlaced

LEMMA BeginAddKeepsContacts == ASSUME ContactsInv, BeginAddContact PROVE ContactsInv'
<1> USE ContactsParts
<1> PICK l \in Local :
      /\ managed[l] = Gone /\ editor.id # l
      /\ \A i \in Made : origin[i] # l
      /\ managed' = [managed EXCEPT ![l] = Blank]
      /\ editor' = [id |-> l, value |-> Blank]
      /\ UNCHANGED <<book, origin, lists, saves, unsure, texts, deeds>>
  BY DEF BeginAddContact
<1>1. managed' \in [Ids -> Values] /\ editor' \in [id : Ids \cup {NoContact}, value : Values]
  BY PlainValues, IdsApart
<1>2. EditorKnown'
  BY PlainValues, IdsApart DEF EditorKnown, HasOrigin
<1>3. \A i \in Ids : i # l => managed'[i] = managed[i]
  OBVIOUS
<1>4. \A i \in Real : managed'[i] = managed[i]
  BY <1>3, IdsApart
<1>5. \A k \in Local, f \in Made :
        origin[f] = k /\ managed[k] = Gone /\ editor.id # k => managed'[k] = Gone /\ editor'.id # k
  BY <1>3, IdsApart
<1> QED BY <1>1, <1>2, <1>4, <1>5, ViewStep

LEMMA BeginEditKeepsContacts ==
  ASSUME ContactsInv, NEW i \in Ids, BeginContactEdit(i) PROVE ContactsInv'
<1> USE ContactsParts DEF BeginContactEdit
<1>1. editor' \in [id : Ids \cup {NoContact}, value : Values]
  OBVIOUS
<1>2. EditorKnown'
  <2>1. ASSUME i \in Made PROVE origin[i] # NoContact
    BY <2>1, IdsApart DEF ContactsInv, EntriesAreKnown
  <2> QED BY <2>1 DEF EditorKnown, HasOrigin
<1> QED BY <1>1, <1>2, ViewStep

LEMMA UpdateKeepsContacts == ASSUME ContactsInv, UpdateDraft PROVE ContactsInv'
<1> USE ContactsParts
<1>1. texts' \in Nat /\ texts' # 0
  BY SMT DEF UpdateDraft, NewText
<1> PICK v \in [n : {texts'}, org : BOOLEAN, types : BOOLEAN, named : BOOLEAN] :
       editor' = [editor EXCEPT !.value = v]
  BY DEF UpdateDraft
<1>2. v \in Values /\ v # Gone
  <2>1. v \in Entry
    BY <1>1, SMT DEF Entry
  <2> QED BY <2>1, EntriesApart
<1>3. editor' = [editor EXCEPT !.value = v]
  OBVIOUS
<1>4. editor' \in [id : Ids \cup {NoContact}, value : Values] /\ editor'.id = editor.id /\ editor'.value = v
  BY <1>2, <1>3
<1>5. EditorKnown'
  BY <1>2, <1>4 DEF EditorKnown, HasOrigin, UpdateDraft, ContactsInv
<1> QED BY <1>1, <1>4, <1>5, ViewStep DEF UpdateDraft

LEMMA CancelKeepsContacts == ASSUME ContactsInv, CancelContactEdit PROVE ContactsInv'
<1> USE ContactsParts DEF CancelContactEdit
<1>1. EditorKnown'
  BY DEF EditorKnown
<1>2. \A l \in Local : editor'.id # l
  BY PlainValues, IdsApart
<1> QED BY <1>1, <1>2, PlainValues, ViewStep

LEMMA RemoveKeepsContacts ==
  ASSUME ContactsInv, NEW i \in Ids, RemoveSelectedContact(i) PROVE ContactsInv'
<1> USE ContactsParts DEF RemoveSelectedContact
<1>1. managed' \in [Ids -> Values] /\ deeds' \in Nat
  BY PlainValues, SMT DEF Deed
<1>2. EditorKnown'
  BY DEF EditorKnown
<1>3. \A j \in Ids : managed'[j] = Gone \/ managed'[j] = managed[j]
  OBVIOUS
<1> QED BY <1>1, <1>2, <1>3, IdsApart, ViewStep

-----------------------------------------------------------------------------
LEMMA SavesChanged ==
  ASSUME ContactsInv, NEW s \in Saves, NEW x \in SaveRecord, saves' = [saves EXCEPT ![s] = x]
  PROVE  /\ saves' \in [Saves -> SaveRecord] /\ saves'[s] = x
         /\ \A t \in Saves : t # s => saves'[t] = saves[t]
BY ContactsParts

LEMMA SaveUnderWay ==
  ASSUME ContactsInv, NEW i \in Ids, NEW t \in Saves, SavePending(t),
         RootIn(origin, saves[t].id) = RootIn(origin, i)
  PROVE  UnderWayOn(i)
BY RootIsRootIn DEF UnderWayOn, SavePending

LEMMA ContactSent ==
  ASSUME ContactsInv, NEW s \in Saves, NEW i \in Ids, NEW v \in Values, NEW p \in BOOLEAN,
         SaveContact(s, i, v, p)
  PROVE  /\ saves[s] = NoSave /\ deeds' \in Nat
         /\ unsure' \subseteq Ids /\ unsure \subseteq unsure'
         /\ UnderWayOn(i) \/ (p /\ i \in Local) => RootIn(origin, i) \in unsure'
         /\ \E x \in SaveRecord :
              /\ x.step = "sent" /\ (x.photo <=> p) /\ x.id = i /\ x.value = v /\ x.mounted
              /\ saves' = [saves EXCEPT ![s] = x]
<1>1. deeds' \in Nat
  BY ContactsParts, SMT DEF SaveContact, Deed
<1>2. /\ unsure' \subseteq Ids /\ unsure \subseteq unsure'
      /\ UnderWayOn(i) \/ (p /\ i \in Local) => RootIn(origin, i) \in unsure'
  BY ContactsParts, RootIsRootIn, RootInTyped DEF SaveContact
<1>3. \E x \in SaveRecord :
        /\ x.step = "sent" /\ (x.photo <=> p) /\ x.id = i /\ x.value = v /\ x.mounted
        /\ saves' = [saves EXCEPT ![s] = x]
  <2> DEFINE x == [NoSave EXCEPT !.step = "sent", !.photo = p, !.id = i, !.value = v]
  <2>1. saves' = [saves EXCEPT ![s] = x]
    BY DEF SaveContact
  <2> DEFINE S == {"idle", "sent", "done", "failed"}
             K == Ids \cup {NoContact}
  <2>2. "sent" \in S /\ i \in K
    OBVIOUS
  <2>3. SaveRecord = [step : S, photo : BOOLEAN, id : K, value : Values, gets : K, mounted : BOOLEAN]
    BY DEF SaveRecord
  <2>4. NoSave.mounted
    BY DEF NoSave
  <2> HIDE DEF S, K
  <2>5. x \in SaveRecord /\ x.step = "sent" /\ x.id = i /\ x.value = v
    BY <2>2, <2>3, PlainValues
  <2>6. x.mounted /\ (x.photo <=> p)
    BY <2>3, <2>4, PlainValues
  <2> HIDE DEF x
  <2> QED BY <2>1, <2>5, <2>6
<1> QED BY <1>1, <1>2, <1>3 DEF SaveContact

(* A request is sent about what the editor has, or with a photo.           *)
LEMMA NewSave ==
  ASSUME ContactsInv, NEW s \in Saves, NEW i \in Ids, NEW x \in SaveRecord,
         x.step = "sent", x.id = i, x.value # Gone, x.mounted, HasOrigin(i),
         saves[s] = NoSave, saves' = [saves EXCEPT ![s] = x],
         unsure' \subseteq Ids, unsure \subseteq unsure',
         UnderWayOn(i) \/ (x.photo /\ i \in Local) => RootIn(origin, i) \in unsure',
         UNCHANGED <<book, origin, lists>>, texts' \in Nat, deeds' \in Nat,
         x.photo \/ editor.id = i,
         managed' \in [Ids -> Values],
         \A j \in Ids : managed'[j] = managed[j] \/ (x.photo /\ j = i /\ managed[j] # Gone),
         editor' \in [id : Ids \cup {NoContact}, value : Values],
         editor' = editor \/ (editor'.id = i /\ editor'.value # Gone)
  PROVE  ContactsInv'
<1> USE ContactsParts, RootInTyped DEF lists
<1>1a. x # NoSave
  BY PlainValues
<1>3. /\ saves' \in [Saves -> SaveRecord] /\ saves'[s] = x
      /\ \A t \in Saves : t # s => saves'[t] = saves[t]
  BY SavesChanged
<1>5. ~SavePending(s)
  BY DEF SavePending
<1>6. ContactsTypeOK'
  BY <1>3 DEF ContactsTypeOK, Origins, SaveRecord
<1>7. EntriesAreKnown'
  BY IdsApart DEF ContactsInv, EntriesAreKnown
<1>8. EditorKnown'
  BY DEF ContactsInv, EditorKnown, HasOrigin
<1>9. SavesPlaced'
  <2> SUFFICES ASSUME NEW t \in Saves, SavePending(t)' PROVE Placed(t)'
    BY DEF SavesPlaced
  <2>1. CASE t = s
    BY <2>1, <1>3 DEF Placed, HasOrigin
  <2>2. CASE t # s
    BY <2>2, <1>3 DEF Placed, HasOrigin, SavePending, ContactsInv, SavesPlaced
  <2> QED BY <2>1, <2>2
<1>10. ASSUME NEW t \in Saves, SavePending(t), RootIn(origin, saves[t].id) = RootIn(origin, i)
       PROVE  RootIn(origin, i) \in unsure'
  BY <1>10, SaveUnderWay
<1>11. SavesSettle'
  <2> SUFFICES ASSUME NEW t \in Saves, SavePending(t)', Sure(saves[t].id)' PROVE Settles(t)'
    BY DEF SavesSettle
  <2>1. CASE t = s
    <3>1. RootIn(origin, i) \notin unsure'
      BY <2>1, <1>3 DEF Sure
    <3>2. ~(x.photo /\ i \in Local)
      BY <3>1
    <3>3. AloneOnIt(t)'
      BY <2>1, <3>1, <1>3, <1>10 DEF AloneOnIt, SavePending
    <3>4. ASSUME i \in Local, NEW f \in Made, origin[f] = i PROVE FALSE
      <4>1. RootIn(origin, i) = i /\ i \notin unsure
        BY <3>1, <3>4
      <4>2. Once(i)
        BY <4>1, <3>4 DEF ContactsInv, LocalsOnce
      <4>3. editor.id = i
        BY <3>2, <3>4
      <4>4. PICK u \in Saves : SavePending(u) /\ saves[u].id = i
        BY <4>2, <4>3, <3>4 DEF Once
      <4> QED BY <4>4, <3>1, <1>10
    <3>5. Effective(t)'
      BY <2>1, <3>2, <3>4, <1>3, IdsApart DEF Effective
    <3> QED BY <3>3, <3>5 DEF Settles
  <2>2. CASE t # s
    <3>1. SavePending(t) /\ Sure(saves[t].id) /\ saves'[t] = saves[t]
      BY <2>2, <1>3 DEF SavePending, Sure
    <3>2. AloneOnIt(t) /\ Effective(t)
      BY <3>1 DEF ContactsInv, SavesSettle, Settles
    <3>3. RootIn(origin, saves[t].id) # RootIn(origin, i)
      BY <3>1, <1>10 DEF Sure
    <3>4. AloneOnIt(t)'
      BY <3>1, <3>2, <3>3, <1>3 DEF AloneOnIt, SavePending
    <3>5. Effective(t)'
      <4>1. Kept(t) => Kept(t)'
        BY <3>1, IdsApart DEF Kept
      <4> QED BY <4>1, <3>1, <3>2 DEF Effective
    <3> QED BY <3>4, <3>5 DEF Settles
  <2> QED BY <2>1, <2>2
<1>12. LocalsOnce'
  <2> SUFFICES ASSUME NEW l \in Local, l \notin unsure' PROVE Once(l)'
    BY DEF LocalsOnce
  <2>1. Once(l)
    BY DEF ContactsInv, LocalsOnce
  <2>2. CASE l = i
    BY <2>1, <2>2, <1>1a, <1>3 DEF Once, SavePending
  <2>3. CASE l # i
    <3>1. managed'[l] = managed[l] /\ (editor.id # l => editor'.id # l)
      BY <2>3, IdsApart
    <3>2. ASSUME NEW u \in Saves, SavePending(u), saves[u].id = l PROVE SavePending(u)' /\ saves'[u].id = l
      BY <3>2, <1>3, <1>5 DEF SavePending
    <3> QED BY <2>1, <3>1, <3>2 DEF Once
  <2> QED BY <2>2, <2>3
<1>13. EntriesMatch'
  <2> SUFFICES ASSUME NEW j \in Real, managed'[j] # Gone, Sure(j)' PROVE Matched(j)'
    BY DEF EntriesMatch
  <2>0. Sure(j) /\ managed[j] # Gone
    BY IdsApart DEF Sure
  <2>1. Matched(j)
    BY <2>0 DEF ContactsInv, EntriesMatch
  <2>2. CASE x.photo /\ j = i
    BY <2>2, <1>1a, <1>3 DEF Matched, Carried, SavePending
  <2>3. CASE ~(x.photo /\ j = i)
    <3>1. managed'[j] = managed[j]
      BY <2>3, IdsApart
    <3>2. Carried(j) => Carried(j)'
      BY <1>3, <1>5 DEF Carried, SavePending
    <3> QED BY <2>1, <3>1, <3>2 DEF Matched
  <2> QED BY <2>2, <2>3
<1> QED BY <1>6, <1>7, <1>8, <1>9, <1>11, <1>12, <1>13 DEF ContactsInv

LEMMA SaveEditKeepsContacts ==
  ASSUME ContactsInv, NEW s \in Saves, SaveEdit(s) PROVE ContactsInv'
<1> USE ContactsParts
<1> PICK i \in Ids, w \in Values : editor.id = i /\ editor.value = w /\ w # Gone /\ HasOrigin(i)
  BY DEF SaveEdit, ContactsInv, EditorKnown
<1> DEFINE named == [w EXCEPT !.named = TRUE]
<1>0. named \in Values /\ named # Gone
  <2> DEFINE b == TRUE
  <2>1. named = [w EXCEPT !.named = b] /\ b \in BOOLEAN
    OBVIOUS
  <2> HIDE DEF named, b
  <2>2. named \in Entry
    BY <2>1, EntryMarked, EntriesApart
  <2> QED BY <2>2, EntriesApart
<1> DEFINE p == FALSE
<1>1. p \in BOOLEAN /\ ~p /\ SaveContact(s, i, named, p)
  BY DEF SaveEdit
<1> HIDE DEF p, named
<1> PICK v \in Values : v = named
  BY <1>0
<1>1a. SaveContact(s, i, v, p) /\ v # Gone
  BY <1>0, <1>1
<1>2. /\ saves[s] = NoSave /\ deeds' \in Nat
      /\ unsure' \subseteq Ids /\ unsure \subseteq unsure'
      /\ UnderWayOn(i) \/ (p /\ i \in Local) => RootIn(origin, i) \in unsure'
  BY <1>1, <1>1a, ContactSent
<1>3. PICK x \in SaveRecord :
        /\ x.step = "sent" /\ (x.photo <=> p) /\ x.id = i /\ x.value = v /\ x.mounted
        /\ saves' = [saves EXCEPT ![s] = x]
  BY <1>1, <1>1a, ContactSent
<1>4. /\ UNCHANGED <<book, origin, lists>>
      /\ managed' = managed /\ editor' = editor /\ texts' = texts
  BY DEF SaveEdit
<1> QED BY <1>1, <1>1a, <1>2, <1>3, <1>4, NewSave

LEMMA ImportPhotoKeepsContacts ==
  ASSUME ContactsInv, NEW s \in Saves, ImportPhoto(s) PROVE ContactsInv'
<1> USE ContactsParts
<1>0. texts' \in Nat /\ texts' # 0
  BY SMT DEF ImportPhoto, NewText
<1>1. PICK i \in Ids :
       /\ IF editor # NoEditor THEN editor.id = i ELSE managed[i] # Gone
       /\ LET old == IF editor # NoEditor THEN editor.value ELSE managed[i]
              new == [old EXCEPT !.n = texts']
          IN /\ managed' = IF managed[i] = Gone THEN managed ELSE [managed EXCEPT ![i] = new]
             /\ editor' = [id |-> i, value |-> new]
             /\ SaveContact(s, i, new, TRUE)
  BY DEF ImportPhoto
<1> DEFINE old == IF editor # NoEditor THEN editor.value ELSE managed[i]
           new == [old EXCEPT !.n = texts']
<1>2. new \in Values /\ new # Gone
  <2>1. old \in Entry
    BY <1>1, EntriesApart DEF ContactsInv, EditorKnown
  <2> HIDE DEF old
  <2>2. texts' \in Nat \ {0}
    BY <1>0
  <2>3. new \in Entry
    BY <2>1, <2>2, EntryWritten
  <2> HIDE DEF new
  <2> QED BY <2>3, EntriesApart
<1>3. /\ managed' = IF managed[i] = Gone THEN managed ELSE [managed EXCEPT ![i] = new]
      /\ editor' = [id |-> i, value |-> new]
      /\ SaveContact(s, i, new, TRUE)
  BY <1>1
<1>4. HasOrigin(i)
  <2>1. CASE editor # NoEditor
    BY <1>1, <2>1 DEF ContactsInv, EditorKnown
  <2>2. CASE editor = NoEditor
    BY <1>1, <2>2, IdsApart DEF ContactsInv, EntriesAreKnown, HasOrigin
  <2> QED BY <2>1, <2>2
<1> HIDE DEF new
<1> PICK v \in Values : v = new
  BY <1>2
<1>5. managed' \in [Ids -> Values]
      /\ \A j \in Ids : managed'[j] = managed[j] \/ (j = i /\ managed[j] # Gone)
  <2>1. CASE managed[i] = Gone
    <3>1. managed' = managed
      BY <2>1, <1>3
    <3> QED BY <3>1
  <2>2. CASE managed[i] # Gone
    <3>1. managed' = [managed EXCEPT ![i] = new]
      BY <2>2, <1>3
    <3> QED BY <3>1, <2>2, <1>2
  <2> QED BY <2>1, <2>2
<1>6. editor' \in [id : Ids \cup {NoContact}, value : Values] /\ editor'.id = i /\ editor'.value # Gone
  BY <1>2, <1>3
<1>7. UNCHANGED <<book, origin, lists>>
  BY DEF ImportPhoto
<1> DEFINE p == TRUE
<1>8. p \in BOOLEAN /\ SaveContact(s, i, v, p)
  BY <1>3
<1>8a. p
  OBVIOUS
<1> HIDE DEF p
<1>9. PICK x \in SaveRecord :
        /\ x.step = "sent" /\ (x.photo <=> p) /\ x.id = i /\ x.value = v /\ x.mounted
        /\ saves' = [saves EXCEPT ![s] = x]
  BY <1>8, ContactSent
<1>10. /\ saves[s] = NoSave /\ deeds' \in Nat
       /\ unsure' \subseteq Ids /\ unsure \subseteq unsure'
       /\ UnderWayOn(i) \/ (p /\ i \in Local) => RootIn(origin, i) \in unsure'
  BY <1>8, ContactSent
<1>11. x.photo
  BY <1>8a, <1>9
<1> QED BY <1>0, <1>2, <1>4, <1>5, <1>6, <1>7, <1>8, <1>9, <1>10, <1>11, NewSave

-----------------------------------------------------------------------------
LEMMA SaveDone ==
  ASSUME ContactsInv, NEW s \in Saves, NEW g \in Ids,
         saves' = [saves EXCEPT ![s].step = "done", ![s].gets = g]
  PROVE  /\ saves' \in [Saves -> SaveRecord]
         /\ \A t \in Saves : t # s => saves'[t] = saves[t]
         /\ saves'[s].id = saves[s].id /\ saves'[s].value = saves[s].value
         /\ saves'[s].step = "done" /\ saves'[s].gets = g
         /\ (saves'[s].photo <=> saves[s].photo) /\ (saves'[s].mounted <=> saves[s].mounted)
<1> DEFINE S == {"idle", "sent", "done", "failed"}
           K == Ids \cup {NoContact}
           y == [saves[s] EXCEPT !.step = "done", !.gets = g]
<1>1. "done" \in S /\ "failed" \in S /\ \A i \in Ids : i \in K
  OBVIOUS
<1>2. SaveRecord = [step : S, photo : BOOLEAN, id : K, value : Values, gets : K, mounted : BOOLEAN]
  BY DEF SaveRecord
<1>3. saves[s] \in SaveRecord
  BY ContactsParts
<1> HIDE DEF S, K
<1>4. /\ y \in SaveRecord /\ y.id = saves[s].id /\ y.value = saves[s].value
      /\ y.step = "done" /\ y.gets = g
         /\ (y.photo <=> saves[s].photo) /\ (y.mounted <=> saves[s].mounted)
  BY <1>1, <1>2, <1>3
<1>5. saves' = [saves EXCEPT ![s] = y]
  OBVIOUS
<1> HIDE DEF y
<1> QED BY <1>4, <1>5, SavesChanged

LEMMA SaveFailed ==
  ASSUME ContactsInv, NEW s \in Saves, saves' = [saves EXCEPT ![s].step = "failed"]
  PROVE  /\ saves' \in [Saves -> SaveRecord]
         /\ \A t \in Saves : t # s => saves'[t] = saves[t]
         /\ saves'[s].id = saves[s].id /\ saves'[s].value = saves[s].value
         /\ saves'[s].step = "failed" /\ saves'[s].gets = saves[s].gets
         /\ (saves'[s].photo <=> saves[s].photo) /\ (saves'[s].mounted <=> saves[s].mounted)
<1> DEFINE S == {"idle", "sent", "done", "failed"}
           K == Ids \cup {NoContact}
           y == [saves[s] EXCEPT !.step = "failed"]
<1>1. "done" \in S /\ "failed" \in S /\ \A i \in Ids : i \in K
  OBVIOUS
<1>2. SaveRecord = [step : S, photo : BOOLEAN, id : K, value : Values, gets : K, mounted : BOOLEAN]
  BY DEF SaveRecord
<1>3. saves[s] \in SaveRecord
  BY ContactsParts
<1> HIDE DEF S, K
<1>4. /\ y \in SaveRecord /\ y.id = saves[s].id /\ y.value = saves[s].value
      /\ y.step = "failed" /\ y.gets = saves[s].gets
         /\ (y.photo <=> saves[s].photo) /\ (y.mounted <=> saves[s].mounted)
  BY <1>1, <1>2, <1>3
<1>5. saves' = [saves EXCEPT ![s] = y]
  OBVIOUS
<1> HIDE DEF y
<1> QED BY <1>4, <1>5, SavesChanged

(* What the route makes of an entry, and what is left out of a request,    *)
(* keep it an entry.                                                       *)
LEMMA ArgsTyped == ASSUME NEW v \in Entry PROVE ContactArgs(v) \in Entry
<1> DEFINE b == TRUE
<1>1. ContactArgs(v) = [v EXCEPT !.types = b, !.named = b] /\ b \in BOOLEAN
  BY DEF ContactArgs
<1> HIDE DEF b
<1> QED BY <1>1, EntryMarked

LEMMA UpdatedTyped ==
  ASSUME NEW old \in Values, NEW v \in Entry PROVE Updated(old, v) \in Entry
<1> DEFINE args == ContactArgs(v)
           org == v.org \/ old.org
<1>1. Updated(old, v) = [args EXCEPT !.org = org] /\ org \in BOOLEAN
  BY DEF Updated
<1>2. args \in Entry
  BY ArgsTyped
<1> HIDE DEF args, org
<1> QED BY <1>1, <1>2, EntryMarked

(* create_contact: a local contact becomes one in the book.                *)
LEMMA CreateKeepsContacts ==
  ASSUME ContactsInv, NEW s \in Saves, saves[s].step = "sent", saves[s].id \in Local,
         NEW f \in NewIds,
         book' = [book EXCEPT ![f] = ContactArgs(saves[s].value)],
         origin' = [origin EXCEPT ![f] = saves[s].id],
         saves' = [saves EXCEPT ![s].step = "done", ![s].gets = f],
         UNCHANGED <<lists, managed, editor, unsure, texts, deeds>>
  PROVE  ContactsInv'
<1> USE ContactsParts DEF lists
<1> DEFINE l0 == saves[s].id
<1>0. f \in Made /\ f \in Real /\ f \in Ids /\ book[f] = Gone /\ origin[f] = NoContact
  BY IdsApart DEF NewIds, ContactsInv, EntriesAreKnown
<1>1. /\ saves'[s].step = "done" /\ saves'[s].gets = f /\ (saves'[s].photo <=> saves[s].photo)
      /\ saves'[s].id = l0 /\ saves'[s].value = saves[s].value
      /\ (saves'[s].mounted <=> saves[s].mounted)
  BY <1>0, SaveDone
<1>1a. saves'[s] # NoSave
  BY <1>1, PlainValues
<1>3. /\ saves' \in [Saves -> SaveRecord]
      /\ \A t \in Saves : t # s => saves'[t] = saves[t]
  BY <1>0, SaveDone
<1>4. SavePending(s) /\ Placed(s)
  BY PendingPlaced
<1>5. saves[s].value \in Values /\ saves[s].value # Gone
  BY <1>4 DEF Placed, SaveRecord
<1>6. /\ book' \in [Real -> Values]
      /\ book'[f] = ContactArgs(saves[s].value) /\ book'[f] # Gone
      /\ \A i \in Real : i # f => book'[i] = book[i]
  <2>1. ContactArgs(saves[s].value) \in Values /\ ContactArgs(saves[s].value) # Gone
    BY <1>5, ArgsTyped, EntriesApart
  <2> QED BY <2>1, <1>0
<1>7. /\ origin' \in Origins /\ origin'[f] = l0
      /\ \A i \in Made : i # f => origin'[i] = origin[i]
  BY <1>0 DEF Origins
<1>8. /\ RootIn(origin', f) = l0 /\ l0 # NoContact
      /\ \A i \in Ids : i # f => RootIn(origin', i) = RootIn(origin, i)
      /\ RootIn(origin', l0) = l0
  BY <1>0, <1>7, IdsApart DEF RootIn
<1>9. /\ \A t \in Saves : SavePending(t) => saves[t].id # f /\ saves[t].id \in Ids
      /\ \A i \in Real : managed[i] # Gone => i # f
      /\ managed[f] = Gone
  BY <1>0 DEF ContactsInv, SavesPlaced, Placed, HasOrigin, EntriesAreKnown
<1>10. \A t \in Saves : SavePending(t) /\ saves[t].step = "done" => saves[t].gets # f /\ saves[t].gets \in Real
  BY <1>0 DEF ContactsInv, SavesPlaced, Placed
<1> HIDE DEF l0
<1>11. ContactsTypeOK'
  BY <1>3, <1>6, <1>7 DEF ContactsTypeOK, Origins, SaveRecord
<1>12. EntriesAreKnown'
  <2>1. \A i \in Real : book[i] # Gone => book'[i] # Gone
    BY <1>0, <1>6
  <2>2. \A g \in Made : book'[g] # Gone <=> origin'[g] # NoContact
    BY <1>5, <1>6, <1>7, <1>8, IdsApart DEF ContactsInv, EntriesAreKnown
  <2> QED BY <2>1, <2>2 DEF ContactsInv, EntriesAreKnown
<1>13. EditorKnown'
  BY <1>7, <1>8 DEF ContactsInv, EditorKnown, HasOrigin
<1>14. ASSUME NEW t \in Saves PROVE saves'[t].id = saves[t].id /\ (SavePending(t)' <=> SavePending(t))
  BY <1>1, <1>1a, <1>3, <1>4 DEF SavePending, l0
<1>15. SavesPlaced'
  <2> SUFFICES ASSUME NEW t \in Saves, SavePending(t)' PROVE Placed(t)'
    BY DEF SavesPlaced
  <2>1. CASE t = s
    <3>1. l0 \notin Made
      BY IdsApart DEF l0
    <3> QED BY <2>1, <3>1, <1>0, <1>1, <1>3, <1>4, <1>5, <1>6, <1>8 DEF Placed, HasOrigin, l0
  <2>2. CASE t # s
    <3>1. Placed(t) /\ saves'[t] = saves[t] /\ saves[t].id # f
      BY <2>2, <1>3, <1>9, <1>14 DEF ContactsInv, SavesPlaced
    <3>2. saves[t].step = "done" => saves[t].gets # f
      BY <2>2, <1>10, <1>14
    <3> QED BY <3>1, <3>2, <1>6, <1>7, <1>8, IdsApart DEF Placed, HasOrigin
  <2> QED BY <2>1, <2>2
<1>16. ASSUME NEW t \in Saves, SavePending(t), Sure(saves[t].id)' PROVE Settles(t) /\ AloneOnIt(t)'
  <2>1. Sure(saves[t].id)
    <3>1. saves'[t].id = saves[t].id /\ saves[t].id \in Ids /\ saves[t].id # f
      BY <1>16, <1>9, <1>14
    <3>2. RootIn(origin', saves[t].id) = RootIn(origin, saves[t].id)
      BY <3>1, <1>8
    <3>3. RootIn(origin', saves'[t].id) \notin unsure'
      BY <1>16 DEF Sure
    <3> QED BY <3>1, <3>2, <3>3 DEF Sure
  <2>2. Settles(t)
    BY <1>16, <2>1 DEF ContactsInv, SavesSettle
  <2>3. \A u \in Saves : SavePending(u) => RootIn(origin', saves'[u].id) = RootIn(origin, saves[u].id)
    BY <1>8, <1>9, <1>14
  <2>4. AloneOnIt(t)'
    BY <1>16, <2>2, <2>3, <1>14 DEF Settles, AloneOnIt
  <2> QED BY <2>2, <2>4
<1>17. SavesSettle'
  <2> SUFFICES ASSUME NEW t \in Saves, SavePending(t)', Sure(saves[t].id)' PROVE Settles(t)'
    BY DEF SavesSettle
  <2>1. Settles(t) /\ AloneOnIt(t)' /\ SavePending(t)
    BY <1>14, <1>16
  <2>2. CASE t = s
    <3>1. Kept(t)'
      BY <2>2, <1>0, <1>1, <1>3, <1>9, IdsApart DEF Kept
    <3>2. Effective(t)'
      BY <2>1, <2>2, <3>1, <1>1, <1>3, <1>6 DEF Effective, Settles
    <3> QED BY <2>1, <3>2 DEF Settles
  <2>3. CASE t # s
    <3>1. saves'[t] = saves[t]
      BY <2>3, <1>3
    <3>2. Kept(t)' <=> Kept(t)
      BY <3>1 DEF Kept
    <3>3. saves[t].step = "done" => book'[saves[t].gets] = book[saves[t].gets]
      BY <2>1, <1>6, <1>10
    <3>4. saves[t].id # l0
      BY <2>1, <2>3, <1>4, <1>8 DEF Settles, AloneOnIt, l0
    <3>5. \A g \in Made : origin[g] # saves[t].id => origin'[g] # saves[t].id
      BY <3>4, <1>7
    <3>6. Effective(t)'
      BY <2>1, <3>1, <3>2, <3>3, <3>5 DEF Effective, Settles
    <3> QED BY <2>1, <3>6 DEF Settles
  <2> QED BY <2>2, <2>3
<1>18. LocalsOnce'
  <2> SUFFICES ASSUME NEW l \in Local, l \notin unsure PROVE Once(l)'
    BY DEF LocalsOnce
  <2>1. Once(l)
    BY DEF ContactsInv, LocalsOnce
  <2>2. CASE l = l0
    <3>1. Settles(s)
      BY <2>2, <1>4, RootInTyped DEF Sure, l0, ContactsInv, SavesSettle
    <3>2. \A g \in Made : origin[g] # l
      BY <2>2, <3>1 DEF Settles, Effective, l0
    <3>3. \A g \in Made : origin'[g] = l => g = f
      BY <3>2, <1>7
    <3> QED BY <2>2, <3>3, <1>4, <1>14 DEF Once, l0
  <2>3. CASE l # l0
    <3>1. \A g \in Made : origin'[g] = l <=> origin[g] = l
      BY <2>3, <1>0, <1>7, IdsApart
    <3> QED BY <2>1, <3>1, <1>14 DEF Once
  <2> QED BY <2>2, <2>3
<1>19. EntriesMatch'
  <2> SUFFICES ASSUME NEW j \in Real, managed[j] # Gone, Sure(j)' PROVE Matched(j)'
    BY DEF EntriesMatch
  <2>1. j # f /\ Sure(j) /\ book'[j] = book[j] /\ RootIn(origin', j) = RootIn(origin, j)
    BY <1>6, <1>8, <1>9, IdsApart DEF Sure
  <2>2. Matched(j)
    BY <2>1 DEF ContactsInv, EntriesMatch
  <2>3. Carried(j) => Carried(j)'
    <3> SUFFICES ASSUME Carried(j) PROVE Carried(j)'
      OBVIOUS
    <3>1. PICK u \in Saves :
             /\ SavePending(u) /\ RootIn(origin, saves[u].id) = RootIn(origin, j)
             /\ saves[u].photo \/ saves[u].step = "done"
      BY DEF Carried
    <3>2. saves'[u].photo \/ saves'[u].step = "done"
      BY <3>1, <1>1, <1>3
    <3>3. RootIn(origin', saves'[u].id) = RootIn(origin', j)
      BY <3>1, <2>1, <1>8, <1>9, <1>14
    <3> QED BY <3>1, <3>2, <3>3, <1>14 DEF Carried
  <2> QED BY <2>1, <2>2, <2>3 DEF Matched
<1> QED BY <1>11, <1>12, <1>13, <1>15, <1>17, <1>18, <1>19 DEF ContactsInv

(* update_contact: what the book has of a contact changes.                 *)
LEMMA UpdateBookKeepsContacts ==
  ASSUME ContactsInv, NEW s \in Saves, NEW i \in Real, saves[s].step = "sent", saves[s].id = i,
         book' = [book EXCEPT ![i] = Updated(@, saves[s].value)],
         saves' = [saves EXCEPT ![s].step = "done", ![s].gets = i],
         unsure' = unsure \cup
                     (IF book'[i] # ContactArgs(saves[s].value) THEN {Root(i)} ELSE {}),
         UNCHANGED <<origin, lists, managed, editor, texts, deeds>>
  PROVE  ContactsInv'
<1> USE ContactsParts DEF lists
<1>0. i \in Ids
  BY IdsApart
<1>1. /\ saves'[s].step = "done" /\ saves'[s].gets = i /\ (saves'[s].photo <=> saves[s].photo)
      /\ saves'[s].id = i /\ saves'[s].value = saves[s].value
      /\ (saves'[s].mounted <=> saves[s].mounted)
  BY <1>0, SaveDone
<1>2. saves'[s] # NoSave
  BY <1>1, PlainValues
<1>3. /\ saves' \in [Saves -> SaveRecord]
      /\ \A t \in Saves : t # s => saves'[t] = saves[t]
  BY <1>0, SaveDone
<1>4. SavePending(s) /\ Placed(s)
  BY PendingPlaced
<1>5. saves[s].value \in Values /\ saves[s].value # Gone /\ HasOrigin(i)
  BY <1>4 DEF Placed, SaveRecord
<1>6. /\ book' \in [Real -> Values] /\ book'[i] # Gone
      /\ \A j \in Real : j # i => book'[j] = book[j]
  <2>1. Updated(book[i], saves[s].value) \in Values /\ Updated(book[i], saves[s].value) # Gone
    BY <1>5, UpdatedTyped, EntriesApart
  <2>2. book' = [book EXCEPT ![i] = Updated(book[i], saves[s].value)]
    OBVIOUS
  <2> QED BY <2>1, <2>2
<1>7. /\ unsure' \subseteq Ids /\ unsure \subseteq unsure'
      /\ RootIn(origin, i) \notin unsure' => book'[i] = ContactArgs(saves[s].value)
  BY <1>0, RootInTyped, RootIsRootIn
<1>8. ASSUME NEW t \in Saves PROVE saves'[t].id = saves[t].id /\ (SavePending(t)' <=> SavePending(t))
  BY <1>1, <1>2, <1>3, <1>4 DEF SavePending
<1>9. ContactsTypeOK'
  BY <1>3, <1>6, <1>7 DEF ContactsTypeOK, Origins, SaveRecord
<1>10. EntriesAreKnown'
  BY <1>5, <1>6, IdsApart DEF ContactsInv, EntriesAreKnown, HasOrigin
<1>11. EditorKnown'
  BY DEF ContactsInv, EditorKnown, HasOrigin
<1>12. SavesPlaced'
  <2> SUFFICES ASSUME NEW t \in Saves, SavePending(t)' PROVE Placed(t)'
    BY DEF SavesPlaced
  <2>1. CASE t = s
    BY <2>1, <1>0, <1>1, <1>3, <1>5, <1>6 DEF Placed, HasOrigin
  <2>2. CASE t # s
    <3>1. Placed(t) /\ saves'[t] = saves[t]
      BY <2>2, <1>3, <1>8 DEF ContactsInv, SavesPlaced
    <3> QED BY <3>1, <1>6 DEF Placed, HasOrigin
  <2> QED BY <2>1, <2>2
<1>13. SavesSettle'
  <2> SUFFICES ASSUME NEW t \in Saves, SavePending(t)', Sure(saves[t].id)' PROVE Settles(t)'
    BY DEF SavesSettle
  <2>1. SavePending(t) /\ Sure(saves[t].id)
    BY <1>7, <1>8 DEF Sure
  <2>2. AloneOnIt(t) /\ Effective(t)
    BY <2>1 DEF ContactsInv, SavesSettle, Settles
  <2>3. AloneOnIt(t)'
    BY <2>2, <1>8 DEF AloneOnIt
  <2>4. CASE t = s
    <3>1. RootIn(origin, i) \notin unsure'
      BY <2>4, <1>1 DEF Sure
    <3>2. Kept(t)'
      BY <2>4, <1>1 DEF Kept
    <3>3. i \notin Local
      BY IdsApart
    <3>4. Effective(t)'
      BY <2>2, <2>4, <3>1, <3>2, <3>3, <1>1, <1>7 DEF Effective
    <3> QED BY <2>3, <3>4 DEF Settles
  <2>5. CASE t # s
    <3>1. saves'[t] = saves[t]
      BY <2>5, <1>3
    <3>2. Kept(t)' <=> Kept(t)
      BY <3>1 DEF Kept
    <3>3. ASSUME saves[t].step = "done" PROVE book'[saves[t].gets] = book[saves[t].gets]
      <4>1. saves[t].gets \in Real /\ RootIn(origin, saves[t].gets) = RootIn(origin, saves[t].id)
        BY <3>3, PendingPlaced DEF Placed
      <4>2. saves[t].gets # i
        BY <4>1, <2>2, <2>5, <1>4 DEF AloneOnIt
      <4> QED BY <4>1, <4>2, <1>6
    <3>4. Effective(t)'
      BY <2>2, <3>1, <3>2, <3>3 DEF Effective
    <3> QED BY <2>3, <3>4 DEF Settles
  <2> QED BY <2>4, <2>5
<1>14. LocalsOnce'
  BY <1>7, <1>8 DEF ContactsInv, LocalsOnce, Once
<1>15. EntriesMatch'
  <2> SUFFICES ASSUME NEW j \in Real, managed[j] # Gone, Sure(j)' PROVE Matched(j)'
    BY DEF EntriesMatch
  <2>1. Sure(j) /\ Matched(j)
    BY <1>7 DEF Sure, ContactsInv, EntriesMatch
  <2>2. CASE j = i
    BY <2>2, <1>1, <1>4, <1>8 DEF Matched, Carried
  <2>3. CASE j # i
    <3>1. Carried(j) => Carried(j)'
      <4> SUFFICES ASSUME Carried(j) PROVE Carried(j)'
        OBVIOUS
      <4>1. PICK u \in Saves :
               /\ SavePending(u) /\ RootIn(origin, saves[u].id) = RootIn(origin, j)
               /\ saves[u].photo \/ saves[u].step = "done"
        BY DEF Carried
      <4>2. saves'[u].photo \/ saves'[u].step = "done"
        BY <4>1, <1>1, <1>3
      <4> QED BY <4>1, <4>2, <1>8 DEF Carried
    <3> QED BY <2>1, <2>3, <3>1, <1>6 DEF Matched
  <2> QED BY <2>2, <2>3
<1> QED BY <1>9, <1>10, <1>11, <1>12, <1>13, <1>14, <1>15 DEF ContactsInv

LEMMA PatchedKeepsContacts == ASSUME ContactsInv, NEW s \in Saves, Patched(s) PROVE ContactsInv'
<1> DEFINE f == CHOOSE g \in NewIds : TRUE
<1>1. CASE /\ saves[s].id \in Local /\ NewIds # {}
           /\ book' = [book EXCEPT ![f] = ContactArgs(saves[s].value)]
           /\ origin' = [origin EXCEPT ![f] = saves[s].id]
           /\ saves' = [saves EXCEPT ![s].step = "done", ![s].gets = f]
           /\ UNCHANGED unsure
  <2>1. f \in NewIds
    BY <1>1
  <2> HIDE DEF f
  <2> PICK g \in NewIds : g = f
    BY <2>1
  <2> QED BY <1>1, CreateKeepsContacts DEF Patched
<1>2. CASE /\ saves[s].id \in Real
           /\ book' = [book EXCEPT ![saves[s].id] = Updated(@, saves[s].value)]
           /\ saves' = [saves EXCEPT ![s].step = "done", ![s].gets = saves[s].id]
           /\ unsure' = unsure \cup
                (IF book'[saves[s].id] # ContactArgs(saves[s].value) THEN {Root(saves[s].id)} ELSE {})
           /\ UNCHANGED origin
  <2> PICK i \in Real : i = saves[s].id
    BY <1>2
  <2>1. /\ book' = [book EXCEPT ![i] = Updated(@, saves[s].value)]
        /\ saves' = [saves EXCEPT ![s].step = "done", ![s].gets = i]
        /\ unsure' = unsure \cup
             (IF book'[i] # ContactArgs(saves[s].value) THEN {Root(i)} ELSE {})
    BY <1>2
  <2> QED BY <1>2, <2>1, UpdateBookKeepsContacts DEF Patched
<1> QED BY <1>1, <1>2 DEF Patched

-----------------------------------------------------------------------------
LEMMA NotPatchedKeepsContacts ==
  ASSUME ContactsInv, NEW s \in Saves, NotPatched(s) PROVE ContactsInv'
<1> USE ContactsParts DEF lists
<1>0. saves' = [saves EXCEPT ![s].step = "failed"]
  BY DEF NotPatched
<1>1. /\ saves'[s].step = "failed" /\ saves'[s].gets = saves[s].gets
      /\ (saves'[s].photo <=> saves[s].photo)
      /\ saves'[s].id = saves[s].id /\ saves'[s].value = saves[s].value
      /\ (saves'[s].mounted <=> saves[s].mounted)
  BY <1>0, SaveFailed
<1>2. saves'[s] # NoSave
  BY <1>1, PlainValues
<1>3. /\ saves' \in [Saves -> SaveRecord]
      /\ \A t \in Saves : t # s => saves'[t] = saves[t]
  BY <1>0, SaveFailed
<1>4. SavePending(s) /\ Placed(s)
  BY PendingPlaced DEF NotPatched
<1>5. /\ saves[s].step \in {"sent", "done"} /\ deeds' \in Nat
      /\ UNCHANGED <<book, origin, answer, contacts, managed, editor, texts>>
  BY SMT DEF NotPatched, Deed
<1>6. /\ unsure' \subseteq Ids /\ unsure \subseteq unsure'
      /\ RootIn(origin, saves[s].id) \notin unsure' => saves[s].step = "sent" /\ ~saves[s].photo
  <2>1. saves[s].id \in Ids
    BY <1>4 DEF Placed
  <2> QED BY <2>1, <1>5, RootInTyped, RootIsRootIn DEF NotPatched
<1>7. ASSUME NEW t \in Saves PROVE saves'[t].id = saves[t].id /\ (SavePending(t)' <=> SavePending(t))
  BY <1>1, <1>2, <1>3, <1>4 DEF SavePending
<1>8. ContactsTypeOK'
  BY <1>3, <1>5, <1>6 DEF ContactsTypeOK, Origins, SaveRecord
<1>9. EntriesAreKnown' /\ EditorKnown'
  BY <1>5 DEF ContactsInv, EntriesAreKnown, EditorKnown, HasOrigin
<1>10. SavesPlaced'
  <2> SUFFICES ASSUME NEW t \in Saves, SavePending(t)' PROVE Placed(t)'
    BY DEF SavesPlaced
  <2>1. CASE t = s
    BY <2>1, <1>1, <1>4, <1>5 DEF Placed, HasOrigin
  <2>2. CASE t # s
    BY <2>2, <1>3, <1>5, <1>7 DEF ContactsInv, SavesPlaced, Placed, HasOrigin
  <2> QED BY <2>1, <2>2
<1>11. SavesSettle'
  <2> SUFFICES ASSUME NEW t \in Saves, SavePending(t)', Sure(saves[t].id)' PROVE Settles(t)'
    BY DEF SavesSettle
  <2>1. SavePending(t) /\ Sure(saves[t].id) /\ RootIn(origin, saves[t].id) \notin unsure'
    BY <1>5, <1>6, <1>7 DEF Sure
  <2>2. AloneOnIt(t) /\ Effective(t)
    BY <2>1 DEF ContactsInv, SavesSettle, Settles
  <2>3. AloneOnIt(t)'
    BY <2>2, <1>5, <1>7 DEF AloneOnIt
  <2>4. Effective(t)'
    <3>1. CASE t = s
      BY <2>1, <2>2, <3>1, <1>1, <1>5, <1>6 DEF Effective
    <3>2. CASE t # s
      BY <2>2, <3>2, <1>3, <1>5 DEF Effective, Kept
    <3> QED BY <3>1, <3>2
  <2> QED BY <2>3, <2>4 DEF Settles
<1>12. LocalsOnce'
  BY <1>5, <1>6, <1>7 DEF ContactsInv, LocalsOnce, Once
<1>13. EntriesMatch'
  <2> SUFFICES ASSUME NEW j \in Real, managed[j] # Gone, Sure(j)' PROVE Matched(j)'
    BY <1>5 DEF EntriesMatch
  <2>1. Sure(j) /\ Matched(j) /\ RootIn(origin, j) \notin unsure'
    BY <1>5, <1>6 DEF Sure, ContactsInv, EntriesMatch
  <2>2. ASSUME Carried(j) PROVE Carried(j)'
    <3>1. PICK u \in Saves :
             /\ SavePending(u) /\ RootIn(origin, saves[u].id) = RootIn(origin, j)
             /\ saves[u].photo \/ saves[u].step = "done"
      BY <2>2 DEF Carried
    <3>2. u # s
      BY <3>1, <2>1, <1>5, <1>6
    <3> QED BY <3>1, <3>2, <1>3, <1>5, <1>7 DEF Carried
  <2> QED BY <2>1, <2>2, <1>5 DEF Matched
<1> QED BY <1>8, <1>9, <1>10, <1>11, <1>12, <1>13 DEF ContactsInv

-----------------------------------------------------------------------------
(* An entry and the id a new contact was given lead back to one contact.   *)
LEMMA OneEntry ==
  ASSUME ContactsInv, NEW i \in Real, NEW j \in Real, Sure(i), RootIn(origin, i) = RootIn(origin, j)
  PROVE  i = j
<1> USE ContactsParts
<1>1. RootIn(origin, i) \in Real \/ RootIn(origin, i) \in Local
  BY RootInTyped, IdsApart
<1>2. CASE RootIn(origin, i) \in Real
  BY <1>2, RootInTyped
<1>3. CASE RootIn(origin, i) \in Local
  <2>1. /\ i \in Made /\ origin[i] = RootIn(origin, i)
        /\ j \in Made /\ origin[j] = RootIn(origin, i)
    BY <1>3, RootInTyped
  <2>2. Once(RootIn(origin, i))
    BY <1>3 DEF Sure, ContactsInv, LocalsOnce
  <2> QED BY <2>1, <2>2 DEF Once
<1> QED BY <1>1, <1>2, <1>3

LEMMA LandSaveKeepsContacts == ASSUME ContactsInv, NEW s \in Saves, LandSave(s) PROVE ContactsInv'
<1> USE ContactsParts DEF lists
<1>0. /\ saves[s].step = "done" /\ saves' = [saves EXCEPT ![s] = NoSave]
      /\ UNCHANGED <<book, origin, answer, contacts, unsure, texts, deeds>>
      /\ editor' = IF saves[s].mounted /\ ~saves[s].photo THEN NoEditor ELSE editor
  BY DEF LandSave
<1>1. SavePending(s) /\ Placed(s)
  BY <1>0, PendingPlaced
<1> PICK i \in Ids, g \in Real, v \in Values :
      /\ saves[s].id = i /\ saves[s].gets = g /\ saves[s].value = v
      /\ v # Gone /\ book[g] # Gone /\ RootIn(origin, g) = RootIn(origin, i) /\ HasOrigin(i)
  BY <1>0, <1>1 DEF Placed, SaveRecord
<1> DEFINE lands == saves[s].mounted /\ managed[i] # Gone
<1>2. ASSUME lands
      PROVE  /\ managed' \in [Ids -> Values] /\ managed'[g] = v
             /\ i # g => managed'[i] = Gone
             /\ \A j \in Ids : j # i /\ j # g => managed'[j] = managed[j]
  <2>1. managed' = [j \in Ids |-> IF j = g THEN v ELSE IF j = i THEN Gone ELSE managed[j]]
    BY <1>2 DEF LandSave
  <2>2. g \in Ids
    BY IdsApart
  <2> QED BY <2>1, <2>2, PlainValues
<1>3. ASSUME ~lands PROVE managed' = managed
  BY <1>3 DEF LandSave
<1>4. /\ saves' \in [Saves -> SaveRecord] /\ saves'[s] = NoSave
      /\ \A t \in Saves : t # s => saves'[t] = saves[t]
  BY <1>0, PlainValues, SavesChanged
<1>5. ASSUME NEW t \in Saves PROVE SavePending(t)' <=> t # s /\ SavePending(t)
  BY <1>4 DEF SavePending
<1>6. editor' = NoEditor \/ editor' = editor
  BY <1>0
<1>7. Sure(i) => Settles(s)
  BY <1>1 DEF ContactsInv, SavesSettle
<1> HIDE DEF lands
<1>8. ContactsTypeOK'
  <2>1. managed' \in [Ids -> Values]
    BY <1>2, <1>3
  <2> QED BY <2>1, <1>0, <1>4, <1>6, PlainValues DEF ContactsTypeOK, Origins, SaveRecord
<1>9. EntriesAreKnown'
  <2>1. ASSUME NEW j \in Real, managed'[j] # Gone PROVE book[j] # Gone
    BY <2>1, <1>2, <1>3, IdsApart DEF ContactsInv, EntriesAreKnown
  <2> QED BY <2>1, <1>0 DEF ContactsInv, EntriesAreKnown
<1>10. EditorKnown'
  BY <1>0, <1>6 DEF ContactsInv, EditorKnown, HasOrigin
<1>11. SavesPlaced'
  BY <1>0, <1>4, <1>5 DEF ContactsInv, SavesPlaced, Placed, HasOrigin
<1>12. SavesSettle'
  <2> SUFFICES ASSUME NEW t \in Saves, SavePending(t)', Sure(saves[t].id)' PROVE Settles(t)'
    BY DEF SavesSettle
  <2>1. SavePending(t) /\ t # s /\ saves'[t] = saves[t]
    BY <1>4, <1>5
  <2>2. Sure(saves[t].id)
    BY <2>1, <1>0 DEF Sure
  <2>3. AloneOnIt(t) /\ Effective(t)
    BY <2>1, <2>2 DEF ContactsInv, SavesSettle, Settles
  <2>4. AloneOnIt(t)'
    BY <2>1, <2>3, <1>0, <1>4, <1>5 DEF AloneOnIt
  <2>5. ASSUME saves[t].step = "done", Kept(t) PROVE Kept(t)'
    <3>1. saves[t].gets \in Real /\ RootIn(origin, saves[t].gets) = RootIn(origin, saves[t].id)
      BY <2>5, PendingPlaced DEF Placed
    <3>2. saves[t].gets # g
      BY <3>1, <2>1, <2>3, <1>1 DEF AloneOnIt
    <3>3. saves[t].gets # i => managed'[saves[t].gets] = managed[saves[t].gets]
      BY <3>1, <3>2, <1>2, <1>3, IdsApart
    <3>4. saves[t].gets = i => managed'[saves[t].gets] = managed[saves[t].gets] \/ managed'[i] = Gone
      BY <3>2, <1>2, <1>3
    <3> QED BY <2>1, <2>5, <3>3, <3>4 DEF Kept
  <2>6. Effective(t)'
    BY <2>1, <2>3, <2>5, <1>0 DEF Effective
  <2> QED BY <2>4, <2>6 DEF Settles
<1>13. LocalsOnce'
  <2> SUFFICES ASSUME NEW l \in Local, l \notin unsure, NEW f \in Made, origin[f] = l
               PROVE  \/ \E t \in Saves : SavePending(t)' /\ saves'[t].id = l
                      \/ managed'[l] = Gone /\ editor'.id # l
    BY <1>0 DEF LocalsOnce, Once, ContactsInv
  <2>1. \/ \E t \in Saves : SavePending(t) /\ saves[t].id = l
        \/ managed[l] = Gone /\ editor.id # l
    BY DEF LocalsOnce, Once, ContactsInv
  <2>2. l # g /\ l \in Ids /\ NoEditor.id # l
    BY IdsApart, PlainValues
  <2>3. CASE managed[l] = Gone /\ editor.id # l
    <3>1. managed'[l] = Gone
      BY <2>2, <2>3, <1>2, <1>3
    <3> QED BY <2>2, <2>3, <3>1, <1>6
  <2>4. CASE \E t \in Saves : t # s /\ SavePending(t) /\ saves[t].id = l
    BY <2>4, <1>4, <1>5
  <2>5. CASE i = l
    <3>1. Effective(s)
      BY <2>5, <1>7, RootInTyped DEF Sure, Settles
    <3>2. saves[s].mounted /\ ~saves[s].photo
      BY <2>5, <3>1, IdsApart DEF Effective
    <3>3. managed'[l] = Gone
      BY <2>2, <2>5, <3>2, <1>2, <1>3 DEF lands
    <3> QED BY <2>2, <3>2, <3>3, <1>0
  <2> QED BY <2>1, <2>3, <2>4, <2>5
<1>14. EntriesMatch'
  <2> SUFFICES ASSUME NEW j \in Real, managed'[j] # Gone, Sure(j)' PROVE Matched(j)'
    BY DEF EntriesMatch
  <2>0. Sure(j) /\ j \in Ids
    BY <1>0, IdsApart DEF Sure
  <2>1. CASE lands /\ j = g
    <3>1. Sure(i)
      BY <2>0, <2>1 DEF Sure
    <3>2. book[g] = ContactArgs(v)
      BY <3>1, <1>0, <1>7 DEF Settles, Effective
    <3> QED BY <2>1, <3>2, <1>0, <1>2 DEF Matched, Told
  <2>2. CASE ~(lands /\ j = g)
    <3>1. managed'[j] = managed[j]
      BY <2>0, <2>2, <1>2, <1>3
    <3>2. Matched(j)
      BY <2>0, <3>1 DEF ContactsInv, EntriesMatch
    <3>3. CASE RootIn(origin, j) # RootIn(origin, i)
      BY <3>1, <3>2, <3>3, <1>0, <1>4, <1>5 DEF Matched, Carried
    <3>4. CASE RootIn(origin, j) = RootIn(origin, i)
      <4>1. j = g /\ ~lands
        BY <2>0, <2>2, <3>4, OneEntry
      <4>2. Sure(i)
        BY <2>0, <3>4 DEF Sure
      <4>3. managed[i] = Gone /\ Kept(s)
        BY <4>1, <4>2, <1>0, <1>7 DEF Settles, Effective, lands
      <4> QED BY <4>1, <4>3, <3>1 DEF Kept
    <3> QED BY <3>3, <3>4
  <2> QED BY <2>1, <2>2
<1> QED BY <1>8, <1>9, <1>10, <1>11, <1>12, <1>13, <1>14 DEF ContactsInv

LEMMA LandFailureKeepsContacts ==
  ASSUME ContactsInv, NEW s \in Saves, LandFailure(s) PROVE ContactsInv'
<1> USE ContactsParts DEF lists
<1>0. /\ saves[s].step = "failed" /\ saves' = [saves EXCEPT ![s] = NoSave]
      /\ UNCHANGED <<book, origin, answer, contacts, managed, editor, unsure, texts, deeds>>
  BY DEF LandFailure
<1>1. SavePending(s) /\ Placed(s)
  BY <1>0, PendingPlaced
<1>2. /\ saves' \in [Saves -> SaveRecord] /\ saves'[s] = NoSave
      /\ \A t \in Saves : t # s => saves'[t] = saves[t]
  BY <1>0, PlainValues, SavesChanged
<1>3. ASSUME NEW t \in Saves PROVE SavePending(t)' <=> t # s /\ SavePending(t)
  BY <1>2 DEF SavePending
<1>4. Sure(saves[s].id) =>
        /\ ~saves[s].photo
        /\ saves[s].id \in Local => \A f \in Made : origin[f] # saves[s].id
  BY <1>0, <1>1 DEF ContactsInv, SavesSettle, Settles, Effective
<1>5. ContactsTypeOK'
  BY <1>0, <1>2 DEF ContactsTypeOK, Origins, SaveRecord
<1>6. EntriesAreKnown' /\ EditorKnown'
  BY <1>0 DEF ContactsInv, EntriesAreKnown, EditorKnown, HasOrigin
<1>7. SavesPlaced'
  BY <1>0, <1>2, <1>3 DEF ContactsInv, SavesPlaced, Placed, HasOrigin
<1>8. SavesSettle'
  <2> SUFFICES ASSUME NEW t \in Saves, SavePending(t)', Sure(saves[t].id)' PROVE Settles(t)'
    BY DEF SavesSettle
  <2>1. SavePending(t) /\ saves'[t] = saves[t]
    BY <1>2, <1>3
  <2>2. AloneOnIt(t) /\ Effective(t)
    BY <2>1, <1>0 DEF Sure, ContactsInv, SavesSettle, Settles
  <2>3. AloneOnIt(t)'
    BY <2>1, <2>2, <1>0, <1>2, <1>3 DEF AloneOnIt
  <2>4. Effective(t)'
    BY <2>1, <2>2, <1>0 DEF Effective, Kept
  <2> QED BY <2>3, <2>4 DEF Settles
<1>9. LocalsOnce'
  <2> SUFFICES ASSUME NEW l \in Local, l \notin unsure PROVE Once(l)'
    BY <1>0 DEF LocalsOnce
  <2>1. Once(l)
    BY DEF ContactsInv, LocalsOnce
  <2>2. ASSUME NEW t \in Saves, SavePending(t), saves[t].id = l, NEW f \in Made, origin[f] = l
        PROVE  SavePending(t)' /\ saves'[t].id = l
    <3>1. t # s
      BY <2>2, <1>4, RootInTyped DEF Sure
    <3> QED BY <2>2, <3>1, <1>2, <1>3
  <2> QED BY <2>1, <2>2, <1>0 DEF Once
<1>10. EntriesMatch'
  <2> SUFFICES ASSUME NEW j \in Real, managed[j] # Gone, Sure(j)' PROVE Matched(j)'
    BY <1>0 DEF EntriesMatch
  <2>1. Sure(j) /\ Matched(j)
    BY <1>0 DEF Sure, ContactsInv, EntriesMatch
  <2>2. ASSUME Carried(j) PROVE Carried(j)'
    <3>1. PICK u \in Saves :
             /\ SavePending(u) /\ RootIn(origin, saves[u].id) = RootIn(origin, j)
             /\ saves[u].photo \/ saves[u].step = "done"
      BY <2>2 DEF Carried
    <3>2. u # s
      BY <3>1, <2>1, <1>0, <1>4 DEF Sure
    <3> QED BY <3>1, <3>2, <1>0, <1>2, <1>3 DEF Carried
  <2> QED BY <2>1, <2>2, <1>0 DEF Matched
<1> QED BY <1>5, <1>6, <1>7, <1>8, <1>9, <1>10 DEF ContactsInv

(* A list that is copied afresh: what it has of a contact is what the book *)
(* has, or the view may err about it.                                      *)
LEMMA MountKeepsContacts ==
  ASSUME ContactsInv, NEW list \in [Ids -> Values], Mount(list),
         \A i \in Real : list[i] # Gone => book[i] # Gone,
         \A l \in Local : list[l] = Gone,
         UNCHANGED <<book, origin, texts>>, deeds' \in Nat,
         answer' \in [Real -> Values], contacts' \in [Ids -> Values],
         \A i \in Real : contacts'[i] # Gone \/ answer'[i] # Gone => book[i] # Gone,
         \A l \in Local : contacts'[l] = Gone
  PROVE  ContactsInv'
<1> USE ContactsParts
<1>1. managed' = list /\ editor' = NoEditor
  BY DEF Mount
<1>2. ASSUME NEW s \in Saves
      PROVE  /\ saves'[s] \in SaveRecord /\ (SavePending(s)' <=> SavePending(s))
             /\ saves'[s].id = saves[s].id /\ saves'[s].step = saves[s].step
             /\ saves'[s].gets = saves[s].gets /\ saves'[s].value = saves[s].value
  <2> DEFINE b == saves[s] = NoSave
             y == [saves[s] EXCEPT !.mounted = b]
             S == {"idle", "sent", "done", "failed"}
             K == Ids \cup {NoContact}
  <2>1. SaveRecord = [step : S, photo : BOOLEAN, id : K, value : Values, gets : K, mounted : BOOLEAN]
    BY DEF SaveRecord
  <2>2. saves'[s] = y
    BY DEF Mount
  <2>3. b \in BOOLEAN /\ (b <=> ~SavePending(s))
    BY DEF SavePending
  <2>4. b => saves[s] = NoSave /\ NoSave.mounted
    BY DEF NoSave
  <2> HIDE DEF b, S, K
  <2>5. /\ y \in SaveRecord /\ y.step = saves[s].step /\ y.id = saves[s].id
        /\ y.value = saves[s].value /\ y.gets = saves[s].gets
    BY <2>1, <2>3
  <2>6. SavePending(s) => y # NoSave
    <3>1. SavePending(s) => saves[s].step # "idle"
      BY DEF ContactsInv, SavesPlaced, Placed
    <3> HIDE DEF y
    <3> QED BY <3>1, <2>5, PlainValues
  <2>7. ~SavePending(s) => y = NoSave
    BY <2>1, <2>3, <2>4, PlainValues
  <2> HIDE DEF y
  <2> QED BY <2>2, <2>5, <2>6, <2>7 DEF SavePending
<1>3. saves' \in [Saves -> SaveRecord]
  <2>1. saves' = [s \in Saves |-> saves'[s]]
    BY DEF Mount
  <2> QED BY <2>1, <1>2
<1>4. /\ unsure' \subseteq Ids /\ unsure \subseteq unsure'
      /\ \A j \in Real : list[j] # book[j] => RootIn(origin, j) \in unsure'
      /\ \A s \in Saves : SavePending(s) => RootIn(origin, saves[s].id) \in unsure'
  <2>1. \A s \in Saves : SavePending(s) => saves[s].id \in Ids
    BY DEF ContactsInv, SavesPlaced, Placed
  <2>2. unsure' = unsure \cup {Root(i) : i \in {j \in Real : list[j] # book[j]}}
                         \cup {Root(saves[s].id) : s \in {t \in Saves : SavePending(t)}}
    BY DEF Mount, SavePending
  <2>3. \A i \in Ids : Root(i) = RootIn(origin, i) /\ Root(i) \in Ids
    BY RootInTyped, RootIsRootIn
  <2> QED BY <2>1, <2>2, <2>3, IdsApart
<1>5. ContactsTypeOK'
  BY <1>1, <1>3, <1>4, PlainValues DEF ContactsTypeOK, Origins, SaveRecord
<1>6. EntriesAreKnown' /\ EditorKnown'
  BY <1>1 DEF ContactsInv, EntriesAreKnown, EditorKnown
<1>7. SavesPlaced'
  BY <1>2 DEF ContactsInv, SavesPlaced, Placed, HasOrigin
<1>8. SavesSettle'
  BY <1>2, <1>4 DEF SavesSettle, Sure
<1>9. LocalsOnce'
  BY <1>1, <1>4, PlainValues, IdsApart DEF ContactsInv, LocalsOnce, Once
<1>10. EntriesMatch'
  BY <1>1, <1>4 DEF EntriesMatch, Matched, Told, Sure
<1> QED BY <1>5, <1>6, <1>7, <1>8, <1>9, <1>10 DEF ContactsInv

LEMMA ReturnKeepsContacts == ASSUME ContactsInv, LeaveAndReturn PROVE ContactsInv'
<1>1. PICK list \in [Ids -> Values] : list = contacts
  BY DEF ContactsInv, ContactsTypeOK
<1>2. deeds' \in Nat
  BY ContactsParts, SMT DEF LeaveAndReturn, Deed
<1>3. answer \in [Real -> Values] /\ contacts \in [Ids -> Values]
  BY DEF ContactsInv, ContactsTypeOK
<1>4. answer' = answer /\ contacts' = contacts /\ UNCHANGED <<book, origin, texts>> /\ Mount(list)
  BY <1>1 DEF LeaveAndReturn, lists
<1> QED BY <1>1, <1>2, <1>3, <1>4, MountKeepsContacts DEF ContactsInv, EntriesAreKnown

LEMMA ReloadKeepsContacts == ASSUME ContactsInv, ReloadPage PROVE ContactsInv'
<1>1. deeds' \in Nat
  BY ContactsParts, SMT DEF ReloadPage, Deed
<1>2. answer' \in [Real -> Values] /\ \A i \in Real : answer'[i] # Gone => book[i] # Gone
  BY DEF ReloadPage, ContactsInv, ContactsTypeOK, EntriesAreKnown
<1>3. contacts' = [i \in Ids |-> IF i \in Real THEN answer'[i] ELSE Gone]
  BY DEF ReloadPage, AllOf
<1>4. PICK list : list = contacts'
  OBVIOUS
<1>5. /\ list \in [Ids -> Values]
      /\ \A i \in Real : list[i] = answer'[i]
      /\ \A l \in Local : list[l] = Gone
  BY <1>2, <1>3, <1>4, PlainValues, IdsApart
<1>6. Mount(list) /\ UNCHANGED <<book, origin, texts>>
  BY <1>4 DEF ReloadPage
<1> QED BY <1>1, <1>2, <1>4, <1>5, <1>6, MountKeepsContacts

LEMMA StepKeepsContacts == ContactsInv /\ [ContactsNext]_contactsVars => ContactsInv'
<1> SUFFICES ASSUME ContactsInv, [ContactsNext]_contactsVars PROVE ContactsInv'
  OBVIOUS
<1>1. CASE UNCHANGED contactsVars
  <2>1. EditorKnown'
    BY <1>1 DEF contactsVars, ContactsInv, EditorKnown, HasOrigin
  <2> QED BY <1>1, <2>1, ContactsParts, ViewStep DEF contactsVars, lists
<1> QED
  BY <1>1, BeginAddKeepsContacts, UpdateKeepsContacts, CancelKeepsContacts, BeginEditKeepsContacts,
     RemoveKeepsContacts, SaveEditKeepsContacts, ImportPhotoKeepsContacts, PatchedKeepsContacts,
     NotPatchedKeepsContacts, LandSaveKeepsContacts, LandFailureKeepsContacts, ReturnKeepsContacts,
     ReloadKeepsContacts DEF ContactsNext

LEMMA ContactsHolds == ContactsSpec => []ContactsInv
<1>1. ContactsInv /\ [][ContactsNext]_contactsVars => []ContactsInv
  BY StepKeepsContacts, PTL
<1> QED BY <1>1, InitEstablishesContacts, PTL DEF ContactsSpec

(* The lists, the editor and the requests under way keep to their types    *)
(* (Contacts, AppShell.tsx).                                               *)
THEOREM ContactsTyped == ContactsSpec => []ContactsTypeOK
<1>1. ContactsInv => ContactsTypeOK
  BY DEF ContactsInv
<1> QED BY <1>1, ContactsHolds, PTL

(* A contact added in the view becomes one contact in the address book,    *)
(* however often it is changed and saved: a second create_contact needs a  *)
(* save of the local id after the first has been answered, and the answer  *)
(* takes the local id away (saveEdit).                                     *)
THEOREM AlwaysCreatedOnce == ContactsSpec => []CreatedOnce
<1>1. ASSUME ContactsInv PROVE CreatedOnce
  <2> SUFFICES ASSUME NEW l \in Local, l \notin unsure
               PROVE  Cardinality({f \in Made : origin[f] = l}) <= 1
    BY DEF CreatedOnce
  <2> DEFINE F == {f \in Made : origin[f] = l}
  <2>1. \A f, g \in F : f = g
    BY <1>1 DEF ContactsInv, LocalsOnce, Once
  <2>2. CASE F = {}
    BY <2>2, FS_EmptySet
  <2>3. CASE F # {}
    <3>1. PICK f \in F : TRUE
      BY <2>3
    <3>2. F = {f}
      BY <2>1, <3>1
    <3>3. Cardinality({f}) = 1
      BY FS_Singleton
    <3> HIDE DEF F
    <3>4. Cardinality(F) <= 1
      BY <3>2, <3>3
    <3> QED BY <3>4 DEF F
  <2> QED BY <2>2, <2>3
<1> QED BY <1>1, ContactsHolds, PTL

(* The view shows of a contact that is not being saved what the address    *)
(* book has, but for labels and names that contactArgs replaced, for any   *)
(* number of contacts and requests: what the answer of saveEdit and        *)
(* importPhoto puts into the list is what the route was sent.              *)
THEOREM ViewAlwaysTellsBook == ContactsSpec => []ViewTellsBook
<1>1. ASSUME ContactsInv PROVE ViewTellsBook
  <2> SUFFICES ASSUME NEW i \in Real, managed[i] # Gone, Root(i) \notin unsure, ~UnderWayOn(i)
               PROVE  book[i] \in {managed[i], ContactArgs(managed[i])}
    BY DEF ViewTellsBook
  <2>1. Matched(i)
    BY <1>1, RootIsRootIn DEF Sure, ContactsInv, EntriesMatch
  <2>2. ~Carried(i)
    BY <1>1, SaveUnderWay, IdsApart DEF Carried
  <2> QED BY <2>1, <2>2 DEF Matched, Told
<1> QED BY <1>1, ContactsHolds, PTL

-----------------------------------------------------------------------------
(* Navigation and ContextEditing.                                          *)

LEMMA FirstOfSome ==
  ASSUME NEW T \in SUBSET Nat, T # {}
  PROVE  \E i \in T : \A j \in T : ~(j < i)
<1> DEFINE R == OpToRel(<, Nat)
<1>1. IsWellFoundedOn(R, Nat)
  BY NatLessThanWellFounded
<1>2. PICK i \in T : \A j \in T : ~(<<j, i>> \in R)
  <2> HIDE DEF R
  <2> QED BY <1>1, WFMin
<1>3. \A j \in T : j < i => <<j, i>> \in R
  BY SMT DEF OpToRel
<1> QED BY <1>2, <1>3

(* An address leads to the first entry that answers, or to none.           *)
LEMMA ResolveFinds ==
  ASSUME NavigationTypeOK, NEW k \in Keys
  PROVE  Resolve(k) \in 0..LastEntry
<1> DEFINE T == {i \in Entries : k \in answers[i]}
<1>1. CASE T = {}
  BY <1>1, NavigationAssumption, SMT DEF Resolve, Entries
<1>2. CASE T # {}
  <2>1. PICK i \in T : \A j \in T : ~(j < i)
    <3>1. T \in SUBSET Nat
      BY NavigationAssumption, SMT DEF Entries
    <3> HIDE DEF T
    <3> QED BY <1>2, <3>1, FirstOfSome
  <2>2. \E x \in Entries : k \in answers[x] /\ \A j \in 1..x - 1 : k \notin answers[j]
    BY <2>1, NavigationAssumption, SMT DEF Entries
  <2>3. Resolve(k) \in Entries
    BY <2>2 DEF Resolve
  <2> QED BY <2>3, NavigationAssumption, SMT DEF Entries
<1> QED BY <1>1, <1>2

LEMMA RequestedIsSelectable ==
  ASSUME NavigationTypeOK, NEW k \in Keys \cup {NoKey}, NEW ready \in BOOLEAN
  PROVE  /\ Requested(k, ready) \in Selections
         /\ Requested(k, ready) = 0 \/ Requested(k, ready) \in Entries \/ IsMissing(Requested(k, ready))
BY ResolveFinds, NavigationAssumption, SMT
   DEF Requested, Selections, Missing, IsMissing, Entries, Keys, NoKey

Selectable(s) == s \in Selections /\ (s = 0 \/ s \in Entries \/ IsMissing(s))

LEMMA EverySelectionIs == ASSUME NEW s \in Selections PROVE Selectable(s)
BY NavigationAssumption, SMT DEF Selectable, Selections, Entries, IsMissing, Missing

(* Once the lists are there, what the effect that follows the address asks *)
(* for stays: the other one keeps an entry of the list, and a missing one. *)
LEMMA KeepsWhatIs ==
  ASSUME NEW s \in Selections, s # 0
  PROVE  SelectSomething(TRUE, s) = s
BY EverySelectionIs DEF SelectSomething, Selectable

LEMMA SelectSomethingTyped ==
  ASSUME NEW s \in Selections, NEW ready \in BOOLEAN
  PROVE  SelectSomething(ready, s) \in Selections
BY NavigationAssumption, SMT DEF SelectSomething, Selections, Missing

NavigationInv == NavigationTypeOK /\ NamedIsShown

LEMMA NothingIsASelection == 0 \in Selections
BY NavigationAssumption, SMT DEF Selections, Missing

LEMMA InitEstablishesNavigation == NavigationInit => NavigationInv
BY NothingIsASelection DEF NavigationInit, NavigationInv, NavigationTypeOK, NamedIsShown

LEMMA ShowKeepsNavigation ==
  ASSUME NavigationInv, NEW k \in Keys \cup {NoKey}, Show(k) PROVE NavigationInv'
<1>1. loaded \in BOOLEAN
  BY DEF NavigationInv, NavigationTypeOK
<1>2. selected' \in Selections
  BY <1>1, NothingIsASelection, SelectSomethingTyped DEF Show
<1> QED BY <1>2, NothingIsASelection, SMT DEF NavigationInv, NavigationTypeOK,
   NamedIsShown, Show, directory

LEMMA LeaveKeepsNavigation == ASSUME NavigationInv, LeaveTab PROVE NavigationInv'
BY NothingIsASelection DEF LeaveTab, NavigationInv, NavigationTypeOK, NamedIsShown, directory

LEMMA FollowRequestTyped ==
  ASSUME NEW old, NEW new \in Selections, NEW s \in Selections
  PROVE  FollowRequest(old, new, s) \in Selections
BY DEF FollowRequest

LEMMA LoadKeepsNavigation == ASSUME NavigationInv, Load PROVE NavigationInv'
<1> USE DEF NavigationInv
<1>1. /\ 0 \in Selections /\ selected \in Selections
      /\ address \in Keys \cup {NoKey}
  BY NavigationAssumption, SMT DEF Selections, Missing, NavigationTypeOK
<1>2. Requested(address, TRUE) \in Selections
  BY <1>1, RequestedIsSelectable
<1> DEFINE s == FollowRequest(Requested(address, FALSE), Requested(address, TRUE), selected)
<1>3. s \in Selections
  BY <1>1, <1>2, FollowRequestTyped
<1>4. SelectSomething(TRUE, selected) \in Selections /\ SelectSomething(TRUE, s) \in Selections
  <2> HIDE DEF s
  <2> QED BY <1>1, <1>3, SelectSomethingTyped
<1>5. selected' \in Selections
  BY <1>1, <1>4 DEF Load
<1> QED BY <1>1, <1>5 DEF NavigationTypeOK, NamedIsShown, Load, directory

(* What is followed is shown if it changes what is asked for; if not, both *)
(* what was named and what is shown stay.                                  *)
LEMMA FollowKeepsNavigation ==
  ASSUME NavigationInv, NEW k \in Keys \cup {NoKey}, Follow(k) PROVE NavigationInv'
<1> USE DEF NavigationInv
<1> DEFINE old == Requested(address, loaded)
           new == Requested(k, loaded)
           s == FollowRequest(old, new, selected)
<1>1. /\ 0 \in Selections /\ selected \in Selections /\ told \in Selections
      /\ loaded \in BOOLEAN
  BY NavigationAssumption, SMT DEF Selections, Missing, NavigationTypeOK
<1>2. new \in Selections
  BY <1>1, RequestedIsSelectable
<1> HIDE DEF old, new
<1>3. s \in Selections
  BY <1>1, <1>2, FollowRequestTyped
<1>4. selected' = SelectSomething(loaded, s)
  BY DEF Follow, old, new
<1>5. told' = IF loaded THEN FollowRequest(old, new, told) ELSE 0
  <2>1. CASE loaded = TRUE
    BY <2>1 DEF Follow, old, new
  <2>2. CASE loaded = FALSE
    BY <2>2 DEF Follow
  <2> QED BY <1>1, <2>1, <2>2
<1>6. NavigationTypeOK'
  <2>1. selected' \in Selections
    BY <1>1, <1>3, <1>4, SelectSomethingTyped
  <2>2. told' \in Selections
    BY <1>1, <1>2, <1>5, FollowRequestTyped
  <2> QED BY <2>1, <2>2 DEF NavigationTypeOK, Follow, directory
<1>7. ASSUME told' # 0, Unambiguous(told') PROVE selected' = told'
  <2>1. loaded = TRUE
    BY <1>1, <1>5, <1>7
  <2>2. CASE new # old /\ new # 0
    <3>1. s = new /\ told' = new
      BY <1>5, <2>1, <2>2 DEF FollowRequest
    <3> QED BY <3>1, <1>2, <1>4, <2>1, <2>2, KeepsWhatIs
  <2>3. CASE ~(new # old /\ new # 0)
    <3>1. s = selected /\ told' = told
      BY <1>5, <2>1, <2>3 DEF FollowRequest
    <3>2. selected = told
      BY <3>1, <1>7 DEF NamedIsShown
    <3> QED BY <3>1, <3>2, <1>1, <1>4, <1>7, <2>1, KeepsWhatIs
  <2> QED BY <2>2, <2>3
<1>8. NamedIsShown'
  BY <1>7 DEF NamedIsShown, Unambiguous, Resolve, Follow, directory
<1> QED BY <1>6, <1>8

(* The address of a row leads back to it unless an entry further up        *)
(* answers to it.                                                          *)
LEMMA ClickKeepsNavigation == ASSUME NavigationInv, NEW i \in Entries, Click(i) PROVE NavigationInv'
<1> USE DEF NavigationInv
<1> DEFINE old == Requested(address, TRUE)
           new == Requested(own[i], TRUE)
           s == FollowRequest(old, new, i)
<1>1. i \in Selections /\ i # 0 /\ own[i] \in Keys /\ own[i] # NoKey
  BY NavigationAssumption, SMT DEF Selections, Missing, NavigationTypeOK, Entries, Keys, NoKey
<1>2. new \in Selections
  BY <1>1, RequestedIsSelectable
<1>3. s \in Selections
  BY <1>1, <1>2, FollowRequestTyped
<1>4. selected' = SelectSomething(TRUE, s)
  BY DEF Click
<1>5. NavigationTypeOK'
  <2>1. SelectSomething(TRUE, s) \in Selections
    <3> HIDE DEF s
    <3> QED BY <1>3, SelectSomethingTyped
  <2> QED BY <1>1, <1>4, <2>1 DEF NavigationTypeOK, Click, directory
<1>6. ASSUME Unambiguous(i) PROVE selected' = i
  <2>1. new = i
    BY <1>1, <1>6 DEF Unambiguous, Requested
  <2>2. s = i
    BY <2>1 DEF FollowRequest
  <2> QED BY <2>2, <1>1, <1>4, KeepsWhatIs
<1>7. NamedIsShown'
  BY <1>6 DEF NamedIsShown, Unambiguous, Resolve, Click, directory
<1> QED BY <1>5, <1>7

LEMMA StepKeepsNavigation == NavigationInv /\ [NavigationNext]_navigationVars => NavigationInv'
<1> SUFFICES ASSUME NavigationInv, [NavigationNext]_navigationVars PROVE NavigationInv'
  OBVIOUS
<1>1. CASE UNCHANGED navigationVars
  BY <1>1 DEF navigationVars, NavigationInv, NavigationTypeOK, NamedIsShown, Unambiguous, Resolve
<1> QED
  BY <1>1, ShowKeepsNavigation, LeaveKeepsNavigation, LoadKeepsNavigation, FollowKeepsNavigation,
     ClickKeepsNavigation DEF NavigationNext

LEMMA NavigationHolds == NavigationSpec => []NavigationInv
<1>1. NavigationInv /\ [][NavigationNext]_navigationVars => []NavigationInv
  BY StepKeepsNavigation, PTL
<1> QED BY <1>1, InitEstablishesNavigation, PTL DEF NavigationSpec

(* Selection and address stay among the entries and the missing ones, for  *)
(* lists of any length.                                                    *)
THEOREM NavigationTyped == NavigationSpec => []NavigationTypeOK
<1>1. NavigationInv => NavigationTypeOK
  BY DEF NavigationInv
<1> QED BY <1>1, NavigationHolds, PTL

(* What was clicked or followed last is what is shown, unless an entry     *)
(* further up answers to the same address: two effects set the entry       *)
(* selected and neither undoes the other (Conversations, Contacts).        *)
THEOREM NamedAlwaysShown == NavigationSpec => []NamedIsShown
<1>1. NavigationInv => NamedIsShown
  BY DEF NavigationInv
<1> QED BY <1>1, NavigationHolds, PTL

-----------------------------------------------------------------------------
PostRecord ==
  [step : {"idle", "sent", "stored", "refused", "reading", "landing"},
   key : Records \cup {NoRecord}, text : Nat, got : Texts]
PostsTyped == posts \in [Posts -> PostRecord]
PageTyped ==
  /\ stored \in Texts
  /\ known \in [there : BOOLEAN, texts : Texts]
  /\ waiting \in BOOLEAN /\ trouble \in BOOLEAN
  /\ focus \in Records \cup {NoRecord}
  /\ typed \in Nat /\ trips \in Nat
EditorTyped ==
  /\ draft \in [key : Records \cup {NoRecord}, text : Nat]
  /\ unsaved \in BOOLEAN

LEMMA EditingTypeParts ==
  /\ EditingTypeOK <=> PostsTyped /\ PageTyped /\ EditorTyped
  /\ EditingTypeOK' <=> PostsTyped' /\ PageTyped' /\ EditorTyped'
BY DEF EditingTypeOK, PostsTyped, PostRecord, PageTyped, EditorTyped

LEMMA NoPostTyped == NoPost \in PostRecord
BY SMT DEF NoPost, PostRecord, Texts

LEMMA PostChanged ==
  ASSUME NEW q \in PostRecord
  PROVE  /\ \A k \in Records \cup {NoRecord}, t \in Nat :
              [q EXCEPT !.step = "sent", !.key = k, !.text = t] \in PostRecord
         /\ \A g \in Texts : [q EXCEPT !.step = "landing", !.got = g] \in PostRecord
<1> DEFINE S == {"idle", "sent", "stored", "refused", "reading", "landing"}
           K == Records \cup {NoRecord}
<1>1. "sent" \in S /\ "landing" \in S
  OBVIOUS
<1>2. PostRecord = [step : S, key : K, text : Nat, got : Texts]
  BY DEF PostRecord
<1> HIDE DEF S, K
<1>3. ASSUME NEW k \in K, NEW t \in Nat
      PROVE  [q EXCEPT !.step = "sent", !.key = k, !.text = t] \in PostRecord
  BY <1>1, <1>2
<1>4. ASSUME NEW g \in Texts PROVE [q EXCEPT !.step = "landing", !.got = g] \in PostRecord
  BY <1>1, <1>2
<1> QED BY <1>3, <1>4 DEF K

LEMMA PostTyped ==
  ASSUME PostsTyped, NEW p \in Posts, NEW x \in PostRecord, posts' = [posts EXCEPT ![p] = x]
  PROVE  PostsTyped'
BY DEF PostsTyped

LEMMA InitEstablishesEditing == EditingInit => EditingTypeOK
<1> SUFFICES ASSUME EditingInit PROVE EditingTypeOK
  OBVIOUS
<1>1. PostsTyped
  BY NoPostTyped DEF EditingInit, PostsTyped
<1>2. stored \in Texts
  BY SMT DEF EditingInit, Texts
<1>3. known \in [there : BOOLEAN, texts : Texts]
  BY <1>2 DEF EditingInit
<1>4. draft \in [key : Records \cup {NoRecord}, text : Nat]
  BY SMT DEF EditingInit
<1>5. PageTyped /\ EditorTyped
  BY <1>2, <1>3, <1>4 DEF EditingInit, PageTyped, EditorTyped
<1> QED BY <1>1, <1>5, EditingTypeParts

LEMMA PutTyped ==
  ASSUME NEW r \in Records \cup {NoRecord}, NEW t \in Nat, Put(r, t) PROVE EditorTyped'
BY DEF Put, EditorTyped

LEMMA FollowFocusTyped ==
  ASSUME EditorTyped, NEW f \in Records \cup {NoRecord},
         NEW data \in [there : BOOLEAN, texts : Texts], FollowFocus(f, data)
  PROVE  EditorTyped'
<1>1. CASE f # NoRecord /\ data.there
  <2>1. data.texts[f] \in Nat
    BY <1>1, SMT DEF Texts
  <2> QED BY <1>1, <2>1, PutTyped DEF FollowFocus
<1>2. CASE ~(f # NoRecord /\ data.there)
  BY <1>2 DEF FollowFocus, EditorTyped
<1> QED BY <1>1, <1>2

LEMMA EditingStepTyped == ASSUME EditingTypeOK, EditingNext PROVE EditingTypeOK'
<1> USE EditingTypeParts
<1>1. ASSUME NEW r \in Records, Focus(r) PROVE EditingTypeOK'
  <2>1. EditorTyped'
    BY <1>1, FollowFocusTyped DEF Focus, PageTyped
  <2> QED BY <1>1, <2>1 DEF Focus, curtain, PostsTyped, PageTyped
<1>2. ASSUME NEW r \in Records, EditContext(r) PROVE EditingTypeOK'
  <2>1. known.texts[r] \in Nat
    BY SMT DEF PageTyped, Texts
  <2>2. EditorTyped'
    BY <1>2, <2>1, PutTyped DEF EditContext
  <2> QED BY <1>2, <2>2 DEF EditContext, curtain, PostsTyped, PageTyped
<1>3. ASSUME NEW r \in Records, ApplySuggestion(r) PROVE EditingTypeOK'
  <2>1. typed' \in Nat
    BY <1>3, SMT DEF ApplySuggestion, PageTyped
  <2>2. EditorTyped'
    BY <1>3, <2>1, PutTyped DEF ApplySuggestion
  <2> QED BY <1>3, <2>1, <2>2 DEF ApplySuggestion, curtain, PostsTyped, PageTyped
<1>4. ASSUME TypeText PROVE EditingTypeOK'
  <2>1. typed' \in Nat
    BY <1>4, SMT DEF TypeText, PageTyped
  <2>2. EditorTyped'
    BY <1>4, <2>1, SMT DEF TypeText, EditorTyped
  <2> QED BY <1>4, <2>1, <2>2 DEF TypeText, curtain, PostsTyped, PageTyped
<1>5. ASSUME NEW p \in Posts, SaveContext(p) PROVE EditingTypeOK'
  <2>1. draft.key \in Records \cup {NoRecord} /\ draft.text \in Nat /\ trips' \in Nat
    BY <1>5, SMT DEF SaveContext, EditorTyped, PageTyped, Trip
  <2>2. PostsTyped'
    <3> DEFINE x == [NoPost EXCEPT !.step = "sent", !.key = draft.key, !.text = draft.text]
    <3>1. x \in PostRecord
      BY <2>1, NoPostTyped, PostChanged
    <3>2. posts' = [posts EXCEPT ![p] = x]
      BY <1>5 DEF SaveContext
    <3> HIDE DEF x
    <3> QED BY <3>1, <3>2, PostTyped
  <2> QED BY <1>5, <2>1, <2>2 DEF SaveContext, curtain, EditorTyped, PageTyped
<1>6. ASSUME NEW p \in Posts, Stored(p) PROVE EditingTypeOK'
  <2>1. PostsTyped'
    BY <1>6, SMT DEF Stored, PostsTyped, PostRecord
  <2>2. stored' \in Texts
    <3>1. posts[p].text \in Nat
      BY SMT DEF PostsTyped, PostRecord
    <3>2. CASE posts[p].key \in Records
      BY <1>6, <3>1, <3>2 DEF Stored, PageTyped, Texts
    <3>3. CASE posts[p].key \notin Records
      BY <1>6, <3>3 DEF Stored, PageTyped, Texts
    <3> QED BY <3>2, <3>3
  <2> QED BY <1>6, <2>1, <2>2 DEF Stored, curtain, EditorTyped, PageTyped
<1>7. ASSUME NEW p \in Posts, NotStored(p) PROVE EditingTypeOK'
  <2>1. PostsTyped'
    BY <1>7, NoPostTyped, SMT DEF NotStored, PostsTyped
  <2> QED BY <1>7, <2>1 DEF NotStored, curtain, EditorTyped, PageTyped
<1>8. ASSUME NEW p \in Posts, Saved(p) PROVE EditingTypeOK'
  <2>1. PostsTyped' /\ posts[p].key \in Records \cup {NoRecord} /\ posts[p].text \in Nat
    BY <1>8, SMT DEF Saved, PostsTyped, PostRecord
  <2>2. EditorTyped'
    BY <1>8, <2>1, PutTyped DEF Saved
  <2> QED BY <1>8, <2>1, <2>2 DEF Saved, BeginWaiting, PageTyped
<1>9. ASSUME NEW p \in Posts, RefreshContext(p) PROVE EditingTypeOK'
  <2>1. PostsTyped' /\ trips' \in Nat
    BY <1>9, SMT DEF RefreshContext, PostsTyped, PostRecord, PageTyped, Trip
  <2> QED BY <1>9, <2>1 DEF RefreshContext, BeginWaiting, EditorTyped, PageTyped
<1>10. ASSUME NEW p \in Posts, ReadContext(p) PROVE EditingTypeOK'
  <2>1. PostsTyped'
    <3>1. [posts[p] EXCEPT !.step = "landing", !.got = stored] \in PostRecord
      BY PostChanged DEF PostsTyped, PageTyped
    <3>2. posts' = [posts EXCEPT ![p] = [posts[p] EXCEPT !.step = "landing", !.got = stored]]
      BY <1>10 DEF ReadContext
    <3> QED BY <3>1, <3>2, PostTyped
  <2> QED BY <1>10, <2>1 DEF ReadContext, curtain, EditorTyped, PageTyped
<1>11. ASSUME NEW p \in Posts, LandContext(p) PROVE EditingTypeOK'
  <2>1. PostsTyped'
    BY <1>11, NoPostTyped, SMT DEF LandContext, PostsTyped
  <2>2. known' \in [there : BOOLEAN, texts : Texts]
    BY <1>11, SMT DEF LandContext, PostsTyped, PostRecord
  <2>3. EditorTyped'
    BY <1>11, <2>2, FollowFocusTyped DEF LandContext, PageTyped
  <2> QED BY <1>11, <2>1, <2>2, <2>3 DEF LandContext, EndWaiting, PageTyped
<1>12. ASSUME NEW p \in Posts, LandNoContext(p) PROVE EditingTypeOK'
  <2>1. PostsTyped'
    BY <1>12, NoPostTyped, SMT DEF LandNoContext, PostsTyped
  <2>2. known' \in [there : BOOLEAN, texts : Texts]
    <3>1. [known EXCEPT !.there = FALSE] \in [there : BOOLEAN, texts : Texts]
      BY DEF PageTyped
    <3> QED BY <1>12, <3>1 DEF LandNoContext
  <2> QED BY <1>12, <2>1, <2>2 DEF LandNoContext, EndWaiting, EditorTyped, PageTyped
<1> QED
  BY <1>1, <1>2, <1>3, <1>4, <1>5, <1>6, <1>7, <1>8, <1>9, <1>10, <1>11, <1>12 DEF EditingNext

(* The records of the page and the server, the editor and the requests     *)
(* under way keep to their types (Context, AppShell.tsx).                  *)
THEOREM EditingTyped == EditingSpec => []EditingTypeOK
<1>1. EditingTypeOK /\ UNCHANGED editingVars => EditingTypeOK'
  BY DEF editingVars, EditingTypeOK
<1>2. EditingTypeOK /\ [EditingNext]_editingVars => EditingTypeOK'
  BY <1>1, EditingStepTyped
<1> QED BY <1>2, InitEstablishesEditing, PTL DEF EditingSpec

LEMMA WhatEndsAnEdit ==
  ASSUME EditingTypeOK, EditingNext, unsaved, ~unsaved'
  PROVE  \/ \E r \in Records : Focus(r) \/ EditContext(r) \/ ApplySuggestion(r)
         \/ \E p \in Posts : posts[p].step = "stored" /\ posts'[p].step = "reading"
         \/ focus # NoRecord /\ \E p \in Posts : posts[p].step = "landing"
<1>1. ASSUME TypeText PROVE FALSE
  BY <1>1 DEF TypeText
<1>2. ASSUME NEW p \in Posts, Saved(p)
      PROVE  posts[p].step = "stored" /\ posts'[p].step = "reading"
  BY <1>2, SMT DEF Saved, EditingTypeOK
<1>3. ASSUME NEW p \in Posts, LandContext(p)
      PROVE  focus # NoRecord /\ posts[p].step = "landing"
  BY <1>3 DEF LandContext, FollowFocus
<1>4. ASSUME NEW p \in Posts,
             \/ SaveContext(p) \/ Stored(p) \/ NotStored(p)
             \/ RefreshContext(p) \/ ReadContext(p) \/ LandNoContext(p)
      PROVE  FALSE
  BY <1>4 DEF SaveContext, Stored, NotStored, RefreshContext, ReadContext, LandNoContext
<1> QED BY <1>1, <1>2, <1>3, <1>4 DEF EditingNext

(* Refreshing lists and failing saves leave what is typed where it is: it  *)
(* goes with a choice of the one who types, the answer to an earlier save, *)
(* or data that arrive while a record is in focus.                         *)
THEOREM EditAlwaysSurvivesRefresh == EditingSpec => EditSurvivesRefresh
<1>1. EditingTypeOK /\ [EditingNext]_editingVars =>
        [unsaved /\ ~unsaved' =>
           \/ \E r \in Records : Focus(r) \/ EditContext(r) \/ ApplySuggestion(r)
           \/ \E p \in Posts : posts[p].step = "stored" /\ posts'[p].step = "reading"
           \/ focus # NoRecord /\ \E p \in Posts : posts[p].step = "landing"]_editingVars
  BY WhatEndsAnEdit
<1> QED BY <1>1, EditingTyped, PTL DEF EditingSpec, EditSurvivesRefresh
=============================================================================
