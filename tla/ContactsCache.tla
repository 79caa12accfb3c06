---------------------------- MODULE ContactsCache ----------------------------
(***************************************************************************)
(* How the web server comes by the list of contacts                        *)
(* (listContactsFromContactsMcp, packages/mcp-client/src/index.ts).        *)
(*                                                                         *)
(* contacts-mcp is started for every export, writes the list to a file and *)
(* is killed.  The list is kept for ten minutes.  Requests that find       *)
(* nothing kept export on their own, side by side, each for as long as its *)
(* two waits last; one that fails answers with what another has kept       *)
(* meanwhile.  Time is counted in steps; the address book is the number of *)
(* changes made to it.                                                     *)
(***************************************************************************)
EXTENDS Integers

CONSTANTS
  Exports,   \* requests for the list that may be under way together
  Ttl,       \* contactsCacheTtlMs
  Wait,      \* the longest an export takes: twice contactsMcpTimeoutMs
  MaxClock,  \* bound: time
  MaxBook    \* bound: changes of the address book

ASSUME CacheAssumption ==
  /\ Ttl \in Nat /\ Wait \in 1..Ttl
  /\ MaxClock \in Nat /\ MaxBook \in Nat

VARIABLES
  clock,     \* the time
  addresses, \* which list the address book holds
  replaced,  \* list -> when the address book ceased to hold it, MaxClock + 1 for not yet
  kept,      \* contactsCache: [list, at], list = 0 for nothing
  export,    \* request -> [step, start, list]
  served     \* the latest answer: [list, at], list = 0 for none or an error

cacheVars == <<clock, addresses, replaced, kept, export, served>>

BookLists == 1..MaxBook + 1
Stamped == [list : 0..MaxBook + 1, at : Nat]
NoExport == [step |-> "idle", start |-> 0, list |-> 0]
Nothing == [list |-> 0, at |-> 0]

CacheTypeOK ==
  /\ clock \in 0..MaxClock
  /\ addresses \in BookLists
  /\ replaced \in [BookLists -> 0..MaxClock + 1]
  /\ kept \in Stamped /\ served \in Stamped
  /\ export \in [Exports -> [step : {"idle", "asked", "written"}, start : Nat, list : 0..MaxBook + 1]]

CacheInit ==
  /\ clock = 0 /\ addresses = 1
  /\ replaced = [b \in BookLists |-> MaxClock + 1]
  /\ kept = Nothing /\ served = Nothing
  /\ export = [x \in Exports |-> NoExport]

(* No wait outlasts its time; contacts-mcp is given up then.               *)
Tick ==
  /\ clock < MaxClock
  /\ \A x \in Exports : export[x] # NoExport => clock - export[x].start < Wait
  /\ clock' = clock + 1
  /\ UNCHANGED <<addresses, replaced, kept, export, served>>

BookChanges ==
  /\ addresses + 1 \in BookLists
  /\ addresses' = addresses + 1
  /\ replaced' = [replaced EXCEPT ![addresses] = clock]
  /\ UNCHANGED <<clock, kept, export, served>>

(* cachedContacts drops what is too old before anything is exported.       *)
Expired == clock - kept.at > Ttl

ListContactsKeepingOld(x) ==
  /\ export[x] = NoExport
  /\ IF kept.list # 0 /\ ~Expired
       THEN served' = [list |-> kept.list, at |-> clock] /\ UNCHANGED export
       ELSE export' = [export EXCEPT ![x] = [step |-> "asked", start |-> clock, list |-> 0]] /\ UNCHANGED served
  /\ UNCHANGED <<clock, addresses, replaced, kept>>
ListContacts(x) ==
  /\ export[x] = NoExport
  /\ \/ /\ kept.list # 0 /\ ~Expired
        /\ served' = [list |-> kept.list, at |-> clock]
        /\ UNCHANGED <<kept, export>>
     \/ /\ kept.list = 0 \/ Expired
        /\ kept' = Nothing
        /\ export' = [export EXCEPT ![x] = [step |-> "asked", start |-> clock, list |-> 0]]
        /\ UNCHANGED served
  /\ UNCHANGED <<clock, addresses, replaced>>

(* contacts-mcp writes the file.                                           *)
Written(x) ==
  /\ export[x].step = "asked"
  /\ export' = [export EXCEPT ![x] = [step |-> "written", start |-> @.start, list |-> addresses]]
  /\ UNCHANGED <<clock, addresses, replaced, kept, served>>

Exported(x) ==
  /\ export[x].step = "written"
  /\ kept' = [list |-> export[x].list, at |-> clock]
  /\ served' = [list |-> export[x].list, at |-> clock]
  /\ export' = [export EXCEPT ![x] = NoExport]
  /\ UNCHANGED <<clock, addresses, replaced>>

(* No contacts-mcp, an error, no answer in time, or no file: staleContacts *)
(* is whatever is kept by then.                                            *)
ExportFails(x) ==
  /\ export[x] # NoExport
  /\ served' = [list |-> kept.list, at |-> clock]
  /\ export' = [export EXCEPT ![x] = NoExport]
  /\ UNCHANGED <<clock, addresses, replaced, kept>>

CacheNext ==
  \/ Tick \/ BookChanges
  \/ \E x \in Exports : ListContacts(x) \/ Written(x) \/ Exported(x) \/ ExportFails(x)

CacheSpec == CacheInit /\ [][CacheNext]_cacheVars

-----------------------------------------------------------------------------
(* No answer is older than the ten minutes plus one export: also not one   *)
(* that falls back on what is kept because its own export failed, and not  *)
(* one that an export which began earlier has overtaken                    *)
(* (listContactsFromContactsMcp).                                          *)
ServedRecently ==
  served.list # 0 => replaced[served.list] >= served.at - (Ttl + Wait)
=============================================================================
