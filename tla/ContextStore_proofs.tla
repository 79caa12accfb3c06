--------------------------- MODULE ContextStore_proofs ---------------------------
(***************************************************************************)
(* Proofs about ContextStore: the types; what the history's "superseded"   *)
(* says, with saves and rollbacks side by side and cut short anywhere; and *)
(* that the history describes the rows, and a draft quotes it right, when  *)
(* saves and rollbacks take turns.                                         *)
(***************************************************************************)
EXTENDS ContextStoreMC, ContextResolve_proofs, FiniteSetTheorems, TLAPS

(* Nth counts the members of a finite set of numbers upwards: the number   *)
(* of smaller members orders them as the numbers themselves do.            *)
LEMMA RankOrders ==
  ASSUME NEW S \in SUBSET Nat, IsFiniteSet(S), NEW t \in S
  PROVE  /\ Cardinality({u \in S : u < t}) \in 0..Cardinality(S) - 1
         /\ \A s \in S : t < s => Cardinality({u \in S : u < t}) < Cardinality({u \in S : u < s})
<1> DEFINE Below(r) == {u \in S : u < r}
           n == Cardinality(S)
<1>1. n \in Nat
  BY FS_CardinalityType
<1>2. IsFiniteSet(Below(t)) /\ t \notin Below(t) /\ Below(t) \cup {t} \subseteq S
  BY FS_Subset
<1>3. ASSUME NEW s \in S, t < s PROVE Below(t) \cup {t} \subseteq Below(s) /\ IsFiniteSet(Below(s))
  <2>1. ASSUME NEW u \in S, u < t PROVE u < s
    <3>1. u \in Nat /\ t \in Nat /\ s \in Nat
      OBVIOUS
    <3> QED BY <1>3, <2>1, <3>1
  <2>2. IsFiniteSet(Below(s))
    BY FS_Subset
  <2> QED BY <1>3, <2>1, <2>2
<1> HIDE DEF Below, n
<1>4. Cardinality(Below(t)) \in Nat /\ Cardinality(Below(t) \cup {t}) = Cardinality(Below(t)) + 1
  BY <1>2, FS_AddElement, FS_CardinalityType
<1>5. Cardinality(Below(t)) \in 0..n - 1
  <2>1. Cardinality(Below(t) \cup {t}) <= n
    BY <1>2, FS_Subset DEF n
  <2> QED BY <1>1, <1>4, <2>1
<1>6. ASSUME NEW s \in S, t < s PROVE Cardinality(Below(t)) < Cardinality(Below(s))
  <2>1. Cardinality(Below(t) \cup {t}) <= Cardinality(Below(s)) /\ Cardinality(Below(s)) \in Nat
    BY <1>3, <1>6, FS_Subset, FS_CardinalityType
  <2> QED BY <1>4, <2>1
<1> QED BY <1>5, <1>6 DEF Below, n

LEMMA RankIsInjective ==
  ASSUME NEW S \in SUBSET Nat, IsFiniteSet(S), NEW t \in S, NEW s \in S,
         Cardinality({u \in S : u < t}) = Cardinality({u \in S : u < s})
  PROVE  t = s
<1> DEFINE rank(r) == Cardinality({u \in S : u < r})
<1>1. \A r \in S : rank(r) \in Nat
  <2>1. Cardinality(S) \in Nat
    BY FS_CardinalityType
  <2> QED BY <2>1, RankOrders
<1>2. \A q, r \in S : q < r => rank(q) < rank(r)
  BY RankOrders
<1>3. rank(t) = rank(s)
  OBVIOUS
<1> HIDE DEF rank
<1>4. t \in Nat /\ s \in Nat
  OBVIOUS
<1> QED BY <1>1, <1>2, <1>3, <1>4

(* So it is a bijection between the members and as many numbers.           *)
LEMMA NthIs ==
  ASSUME NEW S \in SUBSET Nat, IsFiniteSet(S), NEW i \in 1..Cardinality(S)
  PROVE  Nth(S, i) \in S /\ Cardinality({u \in S : u < Nth(S, i)}) = i - 1
<1> DEFINE n == Cardinality(S)
           rank == [t \in S |-> Cardinality({u \in S : u < t})]
<1>1. n \in Nat
  BY FS_CardinalityType
<1>2. rank \in [S -> 0..n - 1]
  BY RankOrders
<1>3. rank \in Injection(S, 0..n - 1)
  <2>1. ASSUME NEW t \in S, NEW s \in S, rank[t] = rank[s] PROVE t = s
    BY <2>1, RankIsInjective
  <2> HIDE DEF rank
  <2> QED BY <1>2, <2>1 DEF Injection, IsInjective
<1>4. IsFiniteSet(0..n - 1) /\ Cardinality(0..n - 1) = n
  <2>1. 0 \in Int /\ n - 1 \in Int
    BY <1>1
  <2>2. IsFiniteSet(0..n - 1) /\ Cardinality(0..n - 1) = IF 0 > n - 1 THEN 0 ELSE n - 1 - 0 + 1
    BY <2>1, FS_Interval
  <2> QED BY <1>1, <2>2
<1>5. rank \in Surjection(S, 0..n - 1)
  <2> HIDE DEF rank
  <2> QED BY <1>3, <1>4, FS_Injection DEF n
<1>6. PICK t \in S : rank[t] = i - 1
  <2>1. i - 1 \in 0..n - 1
    BY <1>1
  <2> HIDE DEF rank
  <2> QED BY <1>5, <2>1 DEF Surjection
<1> QED BY <1>6 DEF Nth

LEMMA NthReaches ==
  ASSUME NEW S \in SUBSET Nat, IsFiniteSet(S), NEW t \in S
  PROVE  \E i \in 1..Cardinality(S) : Nth(S, i) = t
<1> DEFINE rank == Cardinality({u \in S : u < t})
           i == rank + 1
<1>1. rank \in 0..Cardinality(S) - 1 /\ Cardinality(S) \in Nat
  BY RankOrders, FS_CardinalityType
<1> HIDE DEF rank
<1>2. i \in 1..Cardinality(S) /\ i - 1 = rank
  BY <1>1
<1> HIDE DEF i
<1>3. Nth(S, i) \in S /\ Cardinality({u \in S : u < Nth(S, i)}) = rank
  BY <1>2, NthIs
<1>4. PICK s \in S : s = Nth(S, i) /\ Cardinality({u \in S : u < s}) = rank
  BY <1>3
<1>5. s = t
  BY <1>4, RankIsInjective DEF rank
<1> QED BY <1>2, <1>4, <1>5

(* The last of them is the greatest.                                       *)
LEMMA GreatestIs ==
  ASSUME NEW S \in SUBSET Nat, IsFiniteSet(S), S # {}
  PROVE  \E m \in S : \A u \in S : u <= m
<1> DEFINE n == Cardinality(S)
           m == Nth(S, n)
           Upto == {u \in S : u < m} \cup {m}
<1>1. n \in Nat /\ n # 0
  BY FS_CardinalityType, FS_EmptySet
<1>2. m \in S /\ Cardinality({u \in S : u < m}) = n - 1
  BY <1>1, NthIs
<1> HIDE DEF m, n
<1>3. IsFiniteSet({u \in S : u < m}) /\ m \notin {u \in S : u < m}
  BY <1>2, FS_Subset
<1>4. Cardinality(Upto) = n - 1 + 1
  BY <1>2, <1>3, FS_AddElement
<1>5. Upto \subseteq S /\ Cardinality(Upto) = n
  BY <1>1, <1>2, <1>4
<1>6. Upto = S
  <2> HIDE DEF Upto
  <2> QED BY <1>5, FS_Subset DEF n
<1>7. ASSUME NEW u \in S PROVE u <= m
  <2>1. u < m \/ u = m
    BY <1>6
  <2> QED BY <1>2, <2>1
<1> QED BY <1>2, <1>7

JobShape(j) ==
  j = [op |-> j.op, id |-> j.id, target |-> j.target, profile |-> j.profile, version |-> j.version,
       before |-> j.before, after |-> j.after]
VersionShape(v) ==
  v = [op |-> v.op, ctx |-> v.ctx, before |-> v.before, after |-> v.after, status |-> v.status,
       at |-> v.at]

(* The history is a sequence of versions, each writer has one job.         *)
Shapes ==
  /\ \E S : versions \in Seq(S)
  /\ \A v \in DOMAIN versions : VersionShape(versions[v])
  /\ pc = [w \in Writers |-> pc[w]] /\ job = [w \in Writers |-> job[w]]
  /\ \A w \in Writers : JobShape(job[w])

(* A save supersedes nothing, and a rollback goes back to what was there   *)
(* before the version it undoes.                                           *)
KnowsItsVersion(w) ==
  /\ pc[w] \in {"upsert", "after"} => job[w].op = "save"
  /\ pc[w] \in {"current", "restore", "supersede"} => job[w].op = "rollback"
  /\ job[w].op = "save" => job[w].version = 0
  /\ job[w].op = "rollback" =>
       /\ job[w].version \in DOMAIN versions
       /\ job[w].id = versions[job[w].version].ctx
       /\ job[w].after = versions[job[w].version].before
JobsKnowTheirVersions == \A w \in Writers : KnowsItsVersion(w)

HistoryInv == Shapes /\ JobsKnowTheirVersions /\ SupersededWasUndone

-----------------------------------------------------------------------------
(* The history at the start.                                               *)
LEMMA FirstVersions ==
  ASSUME NEW n \in Nat, NEW e, NEW S, e \in [1..n -> S] PROVE e \in Seq(S) /\ DOMAIN e = 1..n
BY SMT

LEMMA PresentIsFinite ==
  ASSUME NEW present \in SUBSET Targets PROVE Cardinality(present) \in Nat
<1>1. IsFiniteSet(Targets)
  BY ConstantsAssumption, FS_Interval, SMT DEF Targets
<1> QED BY <1>1, FS_Subset, FS_CardinalityType

LEMMA Concatenated ==
  ASSUME NEW S, NEW a \in Seq(S), NEW b \in Seq(S)
  PROVE  /\ a \o b \in Seq(S)
         /\ \A v \in DOMAIN a : v \in DOMAIN (a \o b) /\ (a \o b)[v] = a[v]
         /\ \A v \in DOMAIN (a \o b) : v \in DOMAIN a \/ (a \o b)[v] \in {b[i] : i \in DOMAIN b}
         /\ \A i \in DOMAIN b : \E v \in DOMAIN (a \o b) : (a \o b)[v] = b[i]
<1>1. /\ a \o b \in Seq(S) /\ DOMAIN a = 1..Len(a) /\ DOMAIN b = 1..Len(b)
      /\ DOMAIN (a \o b) = 1..Len(a) + Len(b) /\ Len(a) \in Nat /\ Len(b) \in Nat
      /\ \A i \in 1..Len(a) + Len(b) : (a \o b)[i] = IF i <= Len(a) THEN a[i] ELSE b[i - Len(a)]
  BY SMT
<1>2. \A v \in DOMAIN (a \o b) : v \notin DOMAIN a => v - Len(a) \in DOMAIN b /\ (a \o b)[v] = b[v - Len(a)]
  BY <1>1, SMT
<1>3. \A v \in DOMAIN a : v \in DOMAIN (a \o b) /\ (a \o b)[v] = a[v]
  BY <1>1, SMT
<1>4. ASSUME NEW i \in DOMAIN b
      PROVE  Len(a) + i \in DOMAIN (a \o b) /\ (a \o b)[Len(a) + i] = b[i]
  BY <1>1, SMT
<1> QED BY <1>1, <1>2, <1>3, <1>4

LEMMA VersionIsShaped ==
  ASSUME NEW op, NEW ctx, NEW before, NEW after, NEW status
  PROVE  /\ VersionShape(Version(op, ctx, before, after, status))
         /\ Version(op, ctx, before, after, status).status = status
         /\ Version(op, ctx, before, after, status).op = op
         /\ Version(op, ctx, before, after, status).ctx = ctx
         /\ Version(op, ctx, before, after, status).before = before
         /\ Version(op, ctx, before, after, status).after = after
BY DEF VersionShape, Version

LEMMA InitEstablishesHistory == Init => HistoryInv
<1> SUFFICES ASSUME Init PROVE HistoryInv
  OBVIOUS
<1>1. PICK present \in SUBSET Targets, resaved \in BOOLEAN :
        versions = (IF resaved THEN RoomHistory([rows[Room] EXCEPT !.id = FirstRoomId]) ELSE <<>>) \o
                   [i \in 1..Cardinality(present) |->
                      LET t == Nth(present, i) IN Version("create", t, NoRow, rows[t], "approved")]
  BY DEF Init
<1> DEFINE past == IF resaved THEN RoomHistory([rows[Room] EXCEPT !.id = FirstRoomId]) ELSE <<>>
           saved(i) == Version("create", Nth(present, i), NoRow, rows[Nth(present, i)], "approved")
           first == [i \in 1..Cardinality(present) |-> saved(i)]
           S == {saved(i) : i \in 1..Cardinality(present)} \cup {past[1], past[2]}
<1>2. versions = past \o first
  BY <1>1
<1>3. past \in Seq(S)
  <2>1. CASE resaved
    <3>1. PICK a, b : past = <<a, b>>
      BY <2>1 DEF RoomHistory
    <3>2. a \in S /\ b \in S
      BY <3>1
    <3> HIDE DEF past, S
    <3> QED BY <3>1, <3>2
  <2>2. CASE ~resaved
    <3>1. past = <<>>
      BY <2>2
    <3> HIDE DEF past, S
    <3> QED BY <3>1
  <2> QED BY <2>1, <2>2
<1>4. first \in Seq(S) /\ DOMAIN first = 1..Cardinality(present)
  <2>1. first \in [1..Cardinality(present) -> S]
    <3> HIDE DEF saved
    <3> QED OBVIOUS
  <2> HIDE DEF first, S
  <2> QED BY <2>1, PresentIsFinite, FirstVersions
<1>5. \A i \in DOMAIN first : VersionShape(first[i]) /\ first[i].status = "approved"
  BY <1>4, VersionIsShaped
<1>6. /\ \A v \in DOMAIN past : VersionShape(past[v])
      /\ \A v \in DOMAIN past : past[v].status = "superseded" =>
           \E u \in DOMAIN past :
             past[u].op = "rollback" /\ past[u].ctx = past[v].ctx /\ past[u].after = past[v].before
  <2>1. CASE resaved
    <3> DEFINE row == [rows[Room] EXCEPT !.id = FirstRoomId]
    <3>1. /\ DOMAIN past = {1, 2}
          /\ past[1] = Version("create", FirstRoomId, NoRow, row, "superseded")
          /\ past[2] = Version("rollback", FirstRoomId, row, NoRow, "approved")
      BY <2>1, SMT DEF RoomHistory
    <3> QED BY <3>1, VersionIsShaped
  <2>2. CASE ~resaved
    BY <2>2
  <2> QED BY <2>1, <2>2
<1>7. SupersededWasUndone /\ \A v \in DOMAIN versions : VersionShape(versions[v])
  <2> HIDE DEF past, first, S
  <2>1. \A v \in DOMAIN versions :
          (v \in DOMAIN past /\ versions[v] = past[v]) \/ \E i \in DOMAIN first : versions[v] = first[i]
    <3>1. \A v \in DOMAIN versions : v \in DOMAIN past \/ versions[v] \in {first[i] : i \in DOMAIN first}
      BY <1>2, <1>3, <1>4, Concatenated
    <3>2. \A v \in DOMAIN past : versions[v] = past[v]
      BY <1>2, <1>3, <1>4, Concatenated
    <3> QED BY <3>1, <3>2
  <2>2. \A v \in DOMAIN past : v \in DOMAIN versions /\ versions[v] = past[v]
    BY <1>2, <1>3, <1>4, Concatenated
  <2>3. \A v \in DOMAIN versions : VersionShape(versions[v])
    BY <1>5, <1>6, <2>1
  <2>4. ASSUME NEW v \in DOMAIN versions, versions[v].status = "superseded"
        PROVE  \E u \in DOMAIN versions :
                 /\ versions[u].op = "rollback" /\ versions[u].ctx = versions[v].ctx
                 /\ versions[u].after = versions[v].before
    <3>1. v \in DOMAIN past /\ versions[v] = past[v]
      BY <1>5, <2>1, <2>4
    <3>2. PICK u \in DOMAIN past :
            past[u].op = "rollback" /\ past[u].ctx = past[v].ctx /\ past[u].after = past[v].before
      BY <1>6, <2>4, <3>1
    <3> QED BY <2>2, <3>1, <3>2
  <2> QED BY <2>3, <2>4 DEF SupersededWasUndone
<1>8. Shapes
  <2>1. \E T : versions \in Seq(T)
    <3> HIDE DEF past, first, S
    <3> QED BY <1>2, <1>3, <1>4, Concatenated
  <2>2. JobShape(NoJob)
    BY DEF JobShape, NoJob
  <2> QED BY <1>7, <2>1, <2>2 DEF Init, Shapes
<1>9. JobsKnowTheirVersions
  BY DEF Init, JobsKnowTheirVersions, KnowsItsVersion, NoJob
<1> QED BY <1>7, <1>8, <1>9 DEF HistoryInv

-----------------------------------------------------------------------------
(* What a step may do to the history, for the writer w that makes it.      *)

(* A new version comes at the end.                                         *)
GrowsBy(u, op, ctx, after) ==
  /\ DOMAIN versions' = DOMAIN versions \cup {u} /\ VersionShape(versions'[u])
  /\ versions'[u].op = op /\ versions'[u].ctx = ctx /\ versions'[u].after = after
  /\ versions'[u].status = "approved"

LEMMA Appended ==
  ASSUME Shapes, NEW op, NEW ctx, NEW before, NEW after, RecordVersion(op, ctx, before, after)
  PROVE  /\ \E S : versions' \in Seq(S)
         /\ \A v \in DOMAIN versions : v \in DOMAIN versions' /\ versions'[v] = versions[v]
         /\ \E u \in DOMAIN versions' : GrowsBy(u, op, ctx, after)
<1> DEFINE e == [Version(op, ctx, before, after, "approved") EXCEPT !.at = now']
<1>1. /\ VersionShape(e) /\ e.op = op /\ e.ctx = ctx /\ e.after = after /\ e.status = "approved"
  BY DEF VersionShape, Version
<1>2. PICK S : versions \in Seq(S)
  BY DEF Shapes
<1>3. versions' = Append(versions, e)
  BY DEF RecordVersion
<1> HIDE DEF e
<1>4. versions \in Seq(S \cup {e}) /\ e \in S \cup {e}
  BY <1>2, SMT
<1>5. /\ versions' \in Seq(S \cup {e}) /\ DOMAIN versions' = DOMAIN versions \cup {Len(versions) + 1}
      /\ versions'[Len(versions) + 1] = e
      /\ \A v \in DOMAIN versions : v \in DOMAIN versions' /\ versions'[v] = versions[v]
  BY <1>3, <1>4, SMT
<1>6. Len(versions) + 1 \in DOMAIN versions'
  BY <1>5
<1>7. GrowsBy(Len(versions) + 1, op, ctx, after)
  BY <1>1, <1>5 DEF GrowsBy
<1> QED BY <1>5, <1>6, <1>7

(* What was known of the versions there were stays, and so does what undid *)
(* them.                                                                   *)
Extends ==
  /\ \A v \in DOMAIN versions : v \in DOMAIN versions' /\ VersionShape(versions'[v])
  /\ \A v \in DOMAIN versions :
       /\ versions'[v].op = versions[v].op /\ versions'[v].ctx = versions[v].ctx
       /\ versions'[v].before = versions[v].before /\ versions'[v].after = versions[v].after

LEMMA OthersKnowTheirs ==
  ASSUME NEW x, KnowsItsVersion(x), Extends, pc'[x] = pc[x], job'[x] = job[x]
  PROVE  KnowsItsVersion(x)'
BY DEF KnowsItsVersion, Extends

(* A step of writer w, with what it leaves in the history.                 *)
Moves(w) ==
  /\ pc' = [pc EXCEPT ![w] = pc'[w]] /\ job' = [job EXCEPT ![w] = job'[w]]
  /\ JobShape(job'[w])

LEMMA OthersStay ==
  ASSUME Shapes, NEW w \in Writers, Moves(w)
  PROVE  /\ pc' = [x \in Writers |-> pc'[x]] /\ job' = [x \in Writers |-> job'[x]]
         /\ \A x \in Writers : JobShape(job'[x])
         /\ \A x \in Writers \ {w} : pc'[x] = pc[x] /\ job'[x] = job[x]
<1> DEFINE a == pc'[w]
           b == job'[w]
<1>1. pc' = [pc EXCEPT ![w] = a] /\ job' = [job EXCEPT ![w] = b] /\ JobShape(b)
  BY DEF Moves
<1> HIDE DEF a, b
<1>2. DOMAIN pc = Writers /\ DOMAIN job = Writers
  BY DEF Shapes
<1>3. pc' = [x \in Writers |-> IF x = w THEN a ELSE pc[x]]
  BY <1>1, <1>2
<1>4. job' = [x \in Writers |-> IF x = w THEN b ELSE job[x]]
  BY <1>1, <1>2
<1> QED BY <1>1, <1>3, <1>4 DEF Shapes

(* One that neither writes the history nor was about to.                   *)
LEMMA QuietStep ==
  ASSUME HistoryInv, NEW w \in Writers, Moves(w), pc[w] # "record",
         versions' = versions, cut' = cut, KnowsItsVersion(w)'
  PROVE  HistoryInv'
<1> USE DEF HistoryInv
<1>1. Shapes'
  BY OthersStay DEF Shapes
<1>2. Extends
  BY DEF Extends, Shapes
<1>3. JobsKnowTheirVersions'
  BY <1>2, OthersStay, OthersKnowTheirs DEF JobsKnowTheirVersions
<1>4. SupersededWasUndone'
  BY OthersStay DEF SupersededWasUndone
<1> QED BY <1>1, <1>3, <1>4

LEMMA SaveBegins == ASSUME HistoryInv, NEW w \in Writers, BeginSave(w) PROVE HistoryInv'
<1>1. PICK t \in Targets, profile \in Profiles : \E id \in KnownIds(t) \cup {FreshId} :
        job' = [job EXCEPT ![w] =
                  [NoJob EXCEPT !.op = "save", !.id = id, !.target = t, !.profile = profile,
                     !.before = IF RowById(id) # NoRow THEN RowById(id) ELSE rows[t]]]
  BY DEF BeginSave
<1>2. PICK id, before :
        job' = [job EXCEPT ![w] = [NoJob EXCEPT !.op = "save", !.id = id, !.target = t,
                                     !.profile = profile, !.before = before]]
  BY <1>1
<1>3. Moves(w) /\ pc'[w] = "upsert" /\ job'[w].op = "save" /\ job'[w].version = 0
  BY <1>2 DEF BeginSave, Goto, Moves, HistoryInv, Shapes, JobShape, NoJob
<1> QED BY <1>3, QuietStep DEF BeginSave, KnowsItsVersion, store

LEMMA SaveUpserts == ASSUME HistoryInv, NEW w \in Writers, Upsert(w) PROVE HistoryInv'
<1>1. Moves(w) /\ pc'[w] = "after" /\ job'[w] = job[w]
  BY DEF Upsert, Goto, Moves, HistoryInv, Shapes
<1>2. KnowsItsVersion(w)'
  BY <1>1 DEF Upsert, HistoryInv, JobsKnowTheirVersions, KnowsItsVersion
<1> QED BY <1>1, <1>2, QuietStep DEF Upsert

LEMMA JobChanged ==
  ASSUME NEW j, JobShape(j), NEW x
  PROVE  /\ JobShape([j EXCEPT !.after = x]) /\ JobShape([j EXCEPT !.id = x])
         /\ [j EXCEPT !.after = x].op = j.op /\ [j EXCEPT !.after = x].version = j.version
         /\ [j EXCEPT !.id = x].op = j.op /\ [j EXCEPT !.id = x].version = j.version
BY DEF JobShape

LEMMA SaveReadsAfter == ASSUME HistoryInv, NEW w \in Writers, ReadAfter(w) PROVE HistoryInv'
<1>1. PICK row, id : job' = [job EXCEPT ![w] = [job[w] EXCEPT !.after = row, !.id = id]]
  BY DEF ReadAfter, HistoryInv, Shapes
<1>2. /\ Moves(w) /\ pc'[w] = "record"
      /\ job'[w].op = job[w].op /\ job'[w].version = job[w].version
  <2> DEFINE j == [job[w] EXCEPT !.after = row, !.id = id]
  <2>1. JobShape(j) /\ j.op = job[w].op /\ j.version = job[w].version
    <3> DEFINE k == [job[w] EXCEPT !.after = row]
    <3>1. JobShape(k) /\ k.op = job[w].op /\ k.version = job[w].version
      BY JobChanged DEF HistoryInv, Shapes
    <3>2. j = [k EXCEPT !.id = id]
      OBVIOUS
    <3> HIDE DEF j, k
    <3> QED BY <3>1, <3>2, JobChanged
  <2> HIDE DEF j
  <2>2. job' = [job EXCEPT ![w] = j]
    BY <1>1 DEF j
  <2> QED BY <2>1, <2>2 DEF ReadAfter, Goto, Moves, HistoryInv, Shapes
<1>3. KnowsItsVersion(w)'
  BY <1>2 DEF ReadAfter, HistoryInv, JobsKnowTheirVersions, KnowsItsVersion
<1> QED BY <1>2, <1>3, QuietStep DEF ReadAfter, store

LEMMA RollbackBegins == ASSUME HistoryInv, NEW w \in Writers, BeginRollback(w) PROVE HistoryInv'
<1>1. PICK v \in DOMAIN versions :
        job' = [job EXCEPT ![w] = [NoJob EXCEPT !.op = "rollback", !.version = v,
                                     !.id = versions[v].ctx, !.after = versions[v].before]]
  BY DEF BeginRollback
<1>2. /\ Moves(w) /\ pc'[w] = "current" /\ job'[w].op = "rollback" /\ job'[w].version = v
      /\ job'[w].id = versions[v].ctx /\ job'[w].after = versions[v].before
  BY <1>1 DEF BeginRollback, Goto, Moves, HistoryInv, Shapes, JobShape, NoJob
<1>3. KnowsItsVersion(w)'
  BY <1>2 DEF BeginRollback, store, KnowsItsVersion
<1> QED BY <1>2, <1>3, QuietStep DEF BeginRollback, store

LEMMA RollbackReads == ASSUME HistoryInv, NEW w \in Writers, ReadCurrent(w) PROVE HistoryInv'
<1>1. PICK row : job' = [job EXCEPT ![w] = [job[w] EXCEPT !.before = row]]
  BY DEF ReadCurrent, HistoryInv, Shapes
<1>2. /\ Moves(w) /\ pc'[w] = "restore" /\ job'[w].op = job[w].op
      /\ job'[w].version = job[w].version /\ job'[w].id = job[w].id /\ job'[w].after = job[w].after
  BY <1>1 DEF ReadCurrent, Goto, Moves, HistoryInv, Shapes, JobShape
<1>3. KnowsItsVersion(w)'
  BY <1>2 DEF ReadCurrent, store, HistoryInv, JobsKnowTheirVersions, KnowsItsVersion
<1> QED BY <1>2, <1>3, QuietStep DEF ReadCurrent, store

LEMMA RollbackRestores == ASSUME HistoryInv, NEW w \in Writers, Restore(w) PROVE HistoryInv'
<1>1. CASE Goto(w, "supersede") /\ UNCHANGED job
  <2>1. Moves(w) /\ pc'[w] = "supersede" /\ job'[w] = job[w]
    BY <1>1 DEF Goto, Moves, HistoryInv, Shapes
  <2>2. KnowsItsVersion(w)'
    BY <2>1 DEF Restore, HistoryInv, JobsKnowTheirVersions, KnowsItsVersion
  <2> QED BY <2>1, <2>2, QuietStep DEF Restore
<1>2. CASE Finish(w)
  <2>1. Moves(w) /\ pc'[w] = "idle" /\ job'[w] = NoJob
    BY <1>2 DEF Finish, Goto, Moves, HistoryInv, Shapes, JobShape, NoJob
  <2> QED BY <2>1, QuietStep DEF Restore, KnowsItsVersion, NoJob
<1> QED BY <1>1, <1>2 DEF Restore

-----------------------------------------------------------------------------
(* The steps that write the history, and the end of a job cut short.       *)

LEMMA VersionIsRecorded ==
  ASSUME HistoryInv, NEW w \in Writers, NEW op, NEW ctx, NEW before, NEW after,
         RecordVersion(op, ctx, before, after), Finish(w), cut' = cut,
         \/ job[w].op = "save"
         \/ job[w].op = "rollback" /\ op = "rollback" /\ ctx = job[w].id /\ after = job[w].after
  PROVE  HistoryInv'
<1> USE DEF HistoryInv
<1>1. Moves(w) /\ pc'[w] = "idle" /\ job'[w] = NoJob
  BY DEF Finish, Goto, Moves, Shapes, JobShape, NoJob
<1>2a. \E u \in DOMAIN versions' : GrowsBy(u, op, ctx, after)
  BY Appended
<1>2. PICK u \in DOMAIN versions' :
        /\ DOMAIN versions' = DOMAIN versions \cup {u} /\ VersionShape(versions'[u])
        /\ versions'[u].op = op /\ versions'[u].ctx = ctx /\ versions'[u].after = after
        /\ versions'[u].status = "approved"
  BY <1>2a DEF GrowsBy
<1>3. /\ \E S : versions' \in Seq(S)
      /\ \A v \in DOMAIN versions : v \in DOMAIN versions' /\ versions'[v] = versions[v]
  BY Appended
<1>4. Shapes'
  BY <1>1, <1>2, <1>3, OthersStay DEF Shapes
<1>5. Extends
  BY <1>3 DEF Extends, Shapes
<1>6. JobsKnowTheirVersions'
  <2>1. KnowsItsVersion(w)'
    BY <1>1 DEF KnowsItsVersion, NoJob
  <2> QED BY <1>1, <1>5, <2>1, OthersStay, OthersKnowTheirs DEF JobsKnowTheirVersions
<1>7. SupersededWasUndone'
  <2> SUFFICES ASSUME NEW v \in DOMAIN versions', versions'[v].status = "superseded"
               PROVE  \/ \E x \in DOMAIN versions' :
                           /\ versions'[x].op = "rollback" /\ versions'[x].ctx = versions'[v].ctx
                           /\ versions'[x].after = versions'[v].before
                      \/ \E x \in Writers : pc'[x] = "record" /\ job'[x].version = v
                      \/ \E c \in cut' : c.version = v
    BY DEF SupersededWasUndone
  <2>1. v \in DOMAIN versions /\ versions'[v] = versions[v] /\ versions[v].status = "superseded"
    BY <1>2, <1>3
  <2>2. CASE \E x \in DOMAIN versions :
               /\ versions[x].op = "rollback" /\ versions[x].ctx = versions[v].ctx
               /\ versions[x].after = versions[v].before
    BY <1>3, <2>1, <2>2
  <2>3. CASE pc[w] = "record" /\ job[w].version = v
    <3>1. 0 \notin DOMAIN versions
      <4>1. PICK S : versions \in Seq(S)
        BY DEF Shapes
      <4> QED BY <4>1, SMT
    <3>2. job[w].op = "rollback" /\ job[w].id = versions[v].ctx /\ job[w].after = versions[v].before
      BY <2>1, <2>3, <3>1 DEF JobsKnowTheirVersions, KnowsItsVersion
    <3> QED BY <1>2, <2>1, <3>2
  <2>4. CASE \E x \in Writers \ {w} : pc[x] = "record" /\ job[x].version = v
    BY <1>1, <2>4, OthersStay
  <2>5. CASE \E c \in cut : c.version = v
    BY <2>5
  <2> QED BY <2>1, <2>2, <2>3, <2>4, <2>5 DEF SupersededWasUndone
<1> QED BY <1>4, <1>6, <1>7

LEMMA SaveRecords == ASSUME HistoryInv, NEW w \in Writers, RecordSave(w) PROVE HistoryInv'
BY VersionIsRecorded DEF RecordSave

LEMMA RollbackRecords == ASSUME HistoryInv, NEW w \in Writers, RecordRollback(w) PROVE HistoryInv'
BY VersionIsRecorded DEF RecordRollback

LEMMA RollbackSupersedes == ASSUME HistoryInv, NEW w \in Writers, Supersede(w) PROVE HistoryInv'
<1> USE DEF HistoryInv
<1> DEFINE target == job[w].version
<1>1. Moves(w) /\ pc'[w] = "record" /\ job' = job /\ cut' = cut
  BY DEF Supersede, Goto, Moves, Shapes
<1>2. target \in DOMAIN versions
  BY DEF Supersede, JobsKnowTheirVersions, KnowsItsVersion
<1>3. versions' = [versions EXCEPT ![target].status = "superseded"]
  BY DEF Supersede
<1> HIDE DEF target
<1>4. /\ DOMAIN versions' = DOMAIN versions
      /\ \A v \in DOMAIN versions \ {target} : versions'[v] = versions[v]
      /\ versions'[target] = [versions[target] EXCEPT !.status = "superseded"]
  BY <1>2, <1>3
<1>5. Extends
  BY <1>4 DEF Extends, Shapes, VersionShape
<1>6. \E S : versions' \in Seq(S)
  <2>1. PICK S : versions \in Seq(S)
    BY DEF Shapes
  <2> DEFINE e == [versions[target] EXCEPT !.status = "superseded"]
  <2>2. versions' = [versions EXCEPT ![target] = e]
    BY <1>3
  <2> HIDE DEF e
  <2>3. versions' \in Seq(S \cup {e})
    BY <1>2, <2>1, <2>2, SMT
  <2> QED BY <2>3
<1>7. Shapes'
  BY <1>1, <1>4, <1>5, <1>6, OthersStay DEF Shapes, Extends
<1>8. JobsKnowTheirVersions'
  <2>1. KnowsItsVersion(w)'
    BY <1>1, <1>5 DEF Supersede, JobsKnowTheirVersions, KnowsItsVersion, Extends
  <2> QED BY <1>1, <1>5, <2>1, OthersStay, OthersKnowTheirs DEF JobsKnowTheirVersions
<1>9. SupersededWasUndone'
  <2> SUFFICES ASSUME NEW v \in DOMAIN versions', versions'[v].status = "superseded"
               PROVE  \/ \E x \in DOMAIN versions' :
                           /\ versions'[x].op = "rollback" /\ versions'[x].ctx = versions'[v].ctx
                           /\ versions'[x].after = versions'[v].before
                      \/ \E x \in Writers : pc'[x] = "record" /\ job'[x].version = v
                      \/ \E c \in cut' : c.version = v
    BY DEF SupersededWasUndone
  <2>1. CASE v = target
    BY <1>1, <2>1 DEF target
  <2>2. CASE v # target
    <3>1. v \in DOMAIN versions /\ versions[v].status = "superseded"
      BY <1>4, <2>2
    <3>2. CASE \E x \in DOMAIN versions :
                 /\ versions[x].op = "rollback" /\ versions[x].ctx = versions[v].ctx
                 /\ versions[x].after = versions[v].before
      BY <1>4, <1>5, <3>1, <3>2 DEF Extends
    <3>3. CASE \E x \in Writers : pc[x] = "record" /\ job[x].version = v
      <4>1. pc[w] # "record"
        BY DEF Supersede
      <4> QED BY <1>1, <3>3, <4>1, OthersStay
    <3>4. CASE \E c \in cut : c.version = v
      BY <1>1, <3>4
    <3> QED BY <3>1, <3>2, <3>3, <3>4 DEF SupersededWasUndone
  <2> QED BY <2>1, <2>2
<1> QED BY <1>7, <1>8, <1>9

LEMMA FaultLeavesHistory == ASSUME HistoryInv, NEW w \in Writers, Fault(w) PROVE HistoryInv'
<1> USE DEF HistoryInv
<1>1. Moves(w) /\ pc'[w] = "idle" /\ job'[w] = NoJob
  BY DEF Fault, Finish, Goto, Moves, Shapes, JobShape, NoJob
<1>2. versions' = versions /\ cut \subseteq cut' /\ \E c \in cut' : c.version = job[w].version
  <2>1. versions' = versions
    BY DEF Fault, store
  <2> DEFINE c == [ctx |-> Touched(job[w]), version |-> job[w].version, recorded |-> Len(versions)]
  <2>2. cut' = cut \cup {c}
    BY DEF Fault
  <2>3. c.version = job[w].version
    OBVIOUS
  <2> HIDE DEF c
  <2> QED BY <2>1, <2>2, <2>3
<1>3. Shapes'
  BY <1>1, <1>2, OthersStay DEF Shapes
<1>4. Extends
  BY <1>2 DEF Extends, Shapes
<1>5. JobsKnowTheirVersions'
  <2>1. KnowsItsVersion(w)'
    BY <1>1 DEF KnowsItsVersion, NoJob
  <2> QED BY <1>1, <1>4, <2>1, OthersStay, OthersKnowTheirs DEF JobsKnowTheirVersions
<1>6. SupersededWasUndone'
  BY <1>1, <1>2, OthersStay DEF SupersededWasUndone
<1> QED BY <1>3, <1>5, <1>6

LEMMA HistoryUntouched ==
  ASSUME HistoryInv, UNCHANGED <<versions, pc, job, cut>> PROVE HistoryInv'
BY DEF HistoryInv, Shapes, JobsKnowTheirVersions, KnowsItsVersion, SupersededWasUndone

LEMMA StepKeepsHistory == HistoryInv /\ [Next]_vars => HistoryInv'
<1> SUFFICES ASSUME HistoryInv, [Next]_vars PROVE HistoryInv'
  OBVIOUS
<1>1. CASE SaveSettings \/ ResolveContacts \/ ResolveRoom \/ ResolveSignature \/ StampDraft
           \/ WriteBareDraft \/ Approve \/ UNCHANGED vars
  <2>1. UNCHANGED <<versions, pc, job, cut>>
    BY <1>1 DEF SaveSettings, ResolveContacts, ResolveRoom, ResolveSignature, StampDraft,
      WriteBareDraft, Approve, vars, store, writers
  <2> QED BY <2>1, HistoryUntouched
<1> QED
  BY <1>1, SaveBegins, SaveUpserts, SaveReadsAfter, SaveRecords, RollbackBegins, RollbackReads,
     RollbackRestores, RollbackSupersedes, RollbackRecords, FaultLeavesHistory DEF Next

(* A version that says superseded was undone, or is about to be, or its    *)
(* rollback was cut short: with any number of writers whose statements     *)
(* interleave and stop anywhere (ContextHistoryService.rollback).          *)
THEOREM SupersededAlwaysUndone == Spec => []SupersededWasUndone
<1>1. HistoryInv /\ [][Next]_vars => []HistoryInv
  BY StepKeepsHistory, PTL
<1>2. HistoryInv => SupersededWasUndone
  BY DEF HistoryInv
<1> QED BY <1>1, <1>2, InitEstablishesHistory, PTL DEF Spec

-----------------------------------------------------------------------------
(* Types.  What a job holds depends on the statement its writer is at.     *)

MaybeRow == Row \cup {NoRow}
PCs == {"idle", "upsert", "after", "current", "restore", "supersede", "record"}
JobType ==
  [op: {"none", "save", "rollback"}, id: Ids \cup {0}, target: Targets \cup {0},
   profile: Profiles \cup {NoRow}, version: Nat, before: MaybeRow, after: MaybeRow]

StoreTypes ==
  /\ rows \in [Targets -> MaybeRow]
  /\ versions \in Seq(VersionType)
  /\ now \in Nat
  /\ signature \in Signatures \cup {<<>>}

(* What the writer at l has in its job j.                                  *)
Fits(l, j) ==
  /\ l \in PCs /\ j \in JobType
  /\ l = "idle" <=> j = NoJob
  /\ l # "idle" => j.id \in Ids /\ j.op \in {"save", "rollback"}
  /\ j.op = "save" => j.target \in Targets /\ j.profile \in Profiles
JobTypes ==
  /\ pc \in [Writers -> PCs] /\ job \in [Writers -> JobType]
  /\ \A w \in Writers : Fits(pc[w], job[w])

AgentTypes ==
  /\ resolver \in [pc: {"idle", "room", "signature", "versions"}, contexts: Seq(Row),
                   signature: Signatures \cup {<<>>}, since: Nat]
  /\ draft = [stage |-> draft.stage, stamp |-> draft.stamp]
  /\ draft.stage \in {"none", "proposed", "queued"}
  /\ resolver.pc # "idle" => draft.stage = "none"
  /\ IF draft.stage = "queued" THEN queued.override \in BOOLEAN ELSE queued = NoStamp

CutTypes ==
  /\ changes \in 0..MaxChanges
  /\ \A c \in cut : c.ctx \in Ids /\ c.version \in 0..Len(versions) /\ c.recorded \in 0..Len(versions)

TInv == StoreTypes /\ JobTypes /\ AgentTypes /\ CutTypes

LEMMA IdsAre ==
  /\ Targets \subseteq Ids /\ FirstRoomId \in Ids /\ Room \in Targets
  /\ Ids \subseteq Nat /\ Targets \subseteq Nat /\ 0 \notin Ids /\ 0 \notin Targets
  /\ \A n \in Nat : n < MaxChanges => FirstRoomId + n + 1 \in Ids
BY ConstantsAssumption, SMT DEF Targets, Ids, FirstRoomId, Room

LEMMA RowFields ==
  ASSUME NEW row \in Row
  PROVE  /\ row.id \in Ids /\ row.target \in Targets /\ row.profile \in Profiles
         /\ row = [id |-> row.id, target |-> row.target, profile |-> row.profile]
BY DEF Row

LEMMA RowByIdIs ==
  ASSUME StoreTypes, NEW id
  PROVE  /\ RowById(id) \in MaybeRow
         /\ \/ RowById(id) = NoRow /\ \A t \in Targets : Present(t) => rows[t].id # id
            \/ \E t \in Targets : Present(t) /\ RowById(id) = rows[t] /\ rows[t].id = id
BY DEF StoreTypes, RowById, MaybeRow, Present

LEMMA JobWith ==
  ASSUME NEW j \in JobType, NEW row \in MaybeRow, NEW id \in Ids
  PROVE  /\ [j EXCEPT !.after = row] \in JobType /\ [j EXCEPT !.id = id] \in JobType
         /\ [j EXCEPT !.before = row] \in JobType
         /\ [j EXCEPT !.after = row].id = j.id /\ [j EXCEPT !.before = row].id = j.id
         /\ [j EXCEPT !.id = id].id = id /\ [j EXCEPT !.id = id].op = j.op
         /\ [j EXCEPT !.after = row].op = j.op /\ [j EXCEPT !.before = row].op = j.op
         /\ [j EXCEPT !.after = row].target = j.target /\ [j EXCEPT !.before = row].target = j.target
         /\ [j EXCEPT !.id = id].target = j.target
         /\ [j EXCEPT !.after = row].profile = j.profile /\ [j EXCEPT !.before = row].profile = j.profile
         /\ [j EXCEPT !.id = id].profile = j.profile
BY DEF JobType

LEMMA NoJobFits == Fits("idle", NoJob)
BY DEF Fits, PCs, JobType, NoJob, MaybeRow

(* A step of one writer, by what it leaves in the store and in its job.    *)
LEMMA WriterSteps ==
  ASSUME TInv, NEW w \in Writers, NEW l, NEW j, Fits(l, j),
         pc' = [pc EXCEPT ![w] = l], job' = [job EXCEPT ![w] = j],
         StoreTypes', CutTypes', UNCHANGED drafts
  PROVE  TInv'
<1>1. pc' \in [Writers -> PCs] /\ job' \in [Writers -> JobType]
  BY DEF TInv, JobTypes, Fits
<1>2. ASSUME NEW x \in Writers PROVE Fits(pc'[x], job'[x])
  BY DEF TInv, JobTypes
<1>3. AgentTypes'
  BY DEF TInv, AgentTypes, drafts
<1> QED BY <1>1, <1>2, <1>3 DEF TInv, JobTypes

LEMMA Unwritten ==
  ASSUME TInv, UNCHANGED store
  PROVE  StoreTypes' /\ Len(versions') = Len(versions)
BY DEF TInv, StoreTypes, store

LEMMA SaveBeginsTyped == ASSUME TInv, NEW w \in Writers, BeginSave(w) PROVE TInv'
<1>1. PICK t \in Targets, p \in Profiles : \E id \in KnownIds(t) \cup {FreshId} :
        job' = [job EXCEPT ![w] =
                  [NoJob EXCEPT !.op = "save", !.id = id, !.target = t, !.profile = p,
                     !.before = IF RowById(id) # NoRow THEN RowById(id) ELSE rows[t]]]
  BY DEF BeginSave
<1>2. PICK id \in KnownIds(t) \cup {FreshId} :
        job' = [job EXCEPT ![w] =
                  [NoJob EXCEPT !.op = "save", !.id = id, !.target = t, !.profile = p,
                     !.before = IF RowById(id) # NoRow THEN RowById(id) ELSE rows[t]]]
  BY <1>1
<1> DEFINE before == IF RowById(id) # NoRow THEN RowById(id) ELSE rows[t]
           j == [NoJob EXCEPT !.op = "save", !.id = id, !.target = t, !.profile = p, !.before = before]
<1>3. id \in Ids
  <2>1. FreshId \in Ids
    BY IdsAre DEF BeginSave, FreshId, TInv, CutTypes
  <2>2. \A v \in DOMAIN versions : versions[v].ctx \in Ids
    <3>1. \A v \in DOMAIN versions : versions[v] \in VersionType
      BY DEF TInv, StoreTypes
    <3> QED BY <3>1 DEF VersionType
  <2> QED BY <2>1, <2>2 DEF KnownIds
<1>4. before \in MaybeRow
  BY RowByIdIs DEF TInv, StoreTypes
<1> HIDE DEF before
<1>5. Fits("upsert", j)
  BY <1>3, <1>4, IdsAre DEF Fits, PCs, JobType, NoJob, MaybeRow
<1>6. job' = [job EXCEPT ![w] = j]
  BY <1>2 DEF before
<1> HIDE DEF j
<1>7. CutTypes'
  BY Unwritten, ConstantsAssumption DEF BeginSave, TInv, CutTypes
<1> QED BY <1>5, <1>6, <1>7, Unwritten, WriterSteps DEF BeginSave, Goto

LEMMA SaveUpsertsTyped == ASSUME TInv, HistoryInv, NEW w \in Writers, Upsert(w) PROVE TInv'
<1> DEFINE j == job[w]
           row == Upserted(j.target, j.id, j.profile)
<1>1. Fits("upsert", j) /\ j.op = "save"
  BY DEF Upsert, TInv, JobTypes, HistoryInv, JobsKnowTheirVersions, KnowsItsVersion
<1>2. j.id \in Ids /\ j.target \in Targets /\ j.profile \in Profiles
  BY <1>1 DEF Fits
<1>3. row \in Row
  BY <1>2 DEF Upserted, TInv, StoreTypes, MaybeRow, Row, Present
<1>4. rows' \in [Targets -> MaybeRow]
  <2> HIDE DEF row
  <2>1. rows' = [rows EXCEPT ![j.target] = row]
    BY DEF Upsert, row
  <2> QED BY <1>3, <2>1 DEF TInv, StoreTypes, MaybeRow
<1>5. StoreTypes' /\ CutTypes'
  BY <1>4 DEF Upsert, TInv, StoreTypes, CutTypes
<1>6. Fits("after", j)
  BY <1>1 DEF Fits, PCs
<1>7. job' = [job EXCEPT ![w] = j]
  BY DEF Upsert, TInv, JobTypes
<1> QED BY <1>5, <1>6, <1>7, WriterSteps DEF Upsert, Goto

LEMMA SaveReadsAfterTyped == ASSUME TInv, HistoryInv, NEW w \in Writers, ReadAfter(w) PROVE TInv'
<1> DEFINE row == rows[job[w].target]
           id == IF row = NoRow THEN job[w].id ELSE row.id
           k == [job[w] EXCEPT !.after = row]
           j == [k EXCEPT !.id = id]
<1>1. Fits("after", job[w]) /\ job[w].op = "save"
  BY DEF ReadAfter, TInv, JobTypes, HistoryInv, JobsKnowTheirVersions, KnowsItsVersion
<1>2. row \in MaybeRow /\ id \in Ids
  BY <1>1, RowFields DEF Fits, TInv, StoreTypes, MaybeRow
<1>3. job' = [job EXCEPT ![w] = j]
  BY DEF ReadAfter, TInv, JobTypes
<1>4. Fits("record", j)
  <2> HIDE DEF row, id
  <2>1. /\ k \in JobType /\ k.op = "save" /\ k.target = job[w].target /\ k.profile = job[w].profile
    BY <1>1, <1>2, JobWith DEF Fits
  <2> HIDE DEF k
  <2>2. /\ j \in JobType /\ j.op = "save" /\ j.id = id /\ j.target = job[w].target
        /\ j.profile = job[w].profile
    BY <1>2, <2>1, JobWith
  <2> HIDE DEF j
  <2> QED BY <1>1, <1>2, <2>2 DEF Fits, PCs, NoJob
<1> HIDE DEF j
<1>5. CutTypes'
  BY Unwritten DEF ReadAfter, TInv, CutTypes
<1> QED BY <1>3, <1>4, <1>5, Unwritten, WriterSteps DEF ReadAfter, Goto

LEMMA VersionTyped ==
  ASSUME NEW op \in {"create", "update", "rollback"}, NEW ctx \in Ids, NEW before \in MaybeRow,
         NEW after \in MaybeRow, NEW n \in Nat
  PROVE  [Version(op, ctx, before, after, "approved") EXCEPT !.at = n] \in VersionType
BY DEF Version, VersionType, MaybeRow

LEMMA RecordTyped ==
  ASSUME TInv, NEW w \in Writers, NEW op \in {"create", "update", "rollback"},
         NEW ctx \in Ids, NEW before \in MaybeRow, NEW after \in MaybeRow,
         RecordVersion(op, ctx, before, after), Finish(w), UNCHANGED <<rows, signature, drafts, changes, cut>>
  PROVE  TInv'
<1> DEFINE e == [Version(op, ctx, before, after, "approved") EXCEPT !.at = now']
<1>1. now' \in Nat
  BY DEF RecordVersion, TInv, StoreTypes
<1>2. e \in VersionType /\ versions' = Append(versions, e)
  BY <1>1, VersionTyped DEF RecordVersion
<1> HIDE DEF e
<1>3. versions' \in Seq(VersionType) /\ Len(versions') = Len(versions) + 1 /\ Len(versions) \in Nat
  BY <1>2 DEF TInv, StoreTypes
<1>4. StoreTypes'
  BY <1>1, <1>3 DEF TInv, StoreTypes
<1>5. CutTypes'
  BY <1>3 DEF TInv, CutTypes
<1> QED BY <1>4, <1>5, NoJobFits, WriterSteps DEF Finish, Goto

LEMMA SaveRecordsTyped == ASSUME TInv, NEW w \in Writers, RecordSave(w) PROVE TInv'
<1>1. job[w] \in JobType /\ job[w].id \in Ids
  BY DEF RecordSave, TInv, JobTypes, Fits
<1>2. job[w].before \in MaybeRow /\ job[w].after \in MaybeRow
  BY <1>1 DEF JobType
<1> DEFINE op == IF job[w].before = NoRow THEN "create" ELSE "update"
<1>3. op \in {"create", "update", "rollback"}
  OBVIOUS
<1>4. RecordVersion(op, job[w].id, job[w].before, job[w].after)
  BY DEF RecordSave
<1> HIDE DEF op
<1> QED BY <1>1, <1>2, <1>3, <1>4, RecordTyped DEF RecordSave

LEMMA RollbackRecordsTyped == ASSUME TInv, NEW w \in Writers, RecordRollback(w) PROVE TInv'
<1>1. job[w] \in JobType /\ job[w].id \in Ids
  BY DEF RecordRollback, TInv, JobTypes, Fits
<1>2. job[w].before \in MaybeRow /\ job[w].after \in MaybeRow
  BY <1>1 DEF JobType
<1> QED BY <1>1, <1>2, RecordTyped DEF RecordRollback

LEMMA RollbackBeginsTyped == ASSUME TInv, NEW w \in Writers, BeginRollback(w) PROVE TInv'
<1>1. PICK v \in DOMAIN versions :
        job' = [job EXCEPT ![w] = [NoJob EXCEPT !.op = "rollback", !.version = v,
                                     !.id = versions[v].ctx, !.after = versions[v].before]]
  BY DEF BeginRollback
<1>2. v \in Nat /\ versions[v].ctx \in Ids /\ versions[v].before \in MaybeRow
  <2>1. versions[v] \in VersionType /\ v \in Nat
    BY DEF TInv, StoreTypes
  <2> QED BY <2>1 DEF VersionType, MaybeRow
<1> DEFINE ctx == versions[v].ctx
           row == versions[v].before
           j == [NoJob EXCEPT !.op = "rollback", !.version = v, !.id = ctx, !.after = row]
<1>3. Fits("current", j)
  <2> HIDE DEF ctx, row
  <2> QED BY <1>2, IdsAre DEF ctx, row, Fits, PCs, JobType, NoJob, MaybeRow
<1>4. job' = [job EXCEPT ![w] = j]
  BY <1>1
<1> HIDE DEF j
<1>5. CutTypes'
  BY Unwritten, ConstantsAssumption DEF BeginRollback, TInv, CutTypes
<1> QED BY <1>3, <1>4, <1>5, Unwritten, WriterSteps DEF BeginRollback, Goto

LEMMA RollbackReadsTyped == ASSUME TInv, NEW w \in Writers, ReadCurrent(w) PROVE TInv'
<1> DEFINE row == RowById(job[w].id)
           j == [job[w] EXCEPT !.before = row]
<1>1. Fits("current", job[w])
  BY DEF ReadCurrent, TInv, JobTypes
<1>2. row \in MaybeRow
  BY RowByIdIs DEF TInv
<1>3. job' = [job EXCEPT ![w] = j]
  BY DEF ReadCurrent, TInv, JobTypes
<1>4. Fits("restore", j)
  <2> HIDE DEF row
  <2>1. job[w] \in JobType
    BY <1>1 DEF Fits
  <2>2. /\ j \in JobType /\ j.op = job[w].op /\ j.id = job[w].id /\ j.target = job[w].target
        /\ j.profile = job[w].profile
    BY <1>2, <2>1, JobWith, IdsAre
  <2> HIDE DEF j
  <2> QED BY <1>1, <2>2 DEF Fits, PCs, NoJob
<1> HIDE DEF j
<1>5. CutTypes'
  BY Unwritten DEF ReadCurrent, TInv, CutTypes
<1> QED BY <1>3, <1>4, <1>5, Unwritten, WriterSteps DEF ReadCurrent, Goto

LEMMA RollbackRestoresTyped == ASSUME TInv, NEW w \in Writers, Restore(w) PROVE TInv'
<1>1. Fits("restore", job[w])
  BY DEF Restore, TInv, JobTypes
<1>2. job[w].after \in MaybeRow
  BY <1>1 DEF Fits, JobType
<1>3. rows' \in [Targets -> MaybeRow]
  <2>1. CASE job[w].after = NoRow
    BY <2>1 DEF Restore, TInv, StoreTypes, MaybeRow
  <2>2. CASE job[w].after # NoRow
    BY <1>2, <2>2, RowFields DEF Restore, TInv, StoreTypes, MaybeRow
  <2> QED BY <2>1, <2>2
<1>4. StoreTypes' /\ CutTypes'
  BY <1>3 DEF Restore, TInv, StoreTypes, CutTypes
<1>5. CASE Goto(w, "supersede") /\ UNCHANGED job
  <2>1. Fits("supersede", job[w]) /\ job' = [job EXCEPT ![w] = job[w]]
    BY <1>1, <1>5 DEF Fits, PCs, TInv, JobTypes
  <2> QED BY <1>4, <1>5, <2>1, WriterSteps DEF Restore, Goto
<1>6. CASE Finish(w)
  BY <1>4, <1>6, NoJobFits, WriterSteps DEF Restore, Finish, Goto
<1> QED BY <1>5, <1>6 DEF Restore

LEMMA RollbackSupersedesTyped ==
  ASSUME TInv, HistoryInv, NEW w \in Writers, Supersede(w) PROVE TInv'
<1> DEFINE v == job[w].version
           e == [versions[v] EXCEPT !.status = "superseded"]
<1>1. Fits("supersede", job[w])
  BY DEF Supersede, TInv, JobTypes
<1>2. v \in DOMAIN versions
  BY DEF Supersede, HistoryInv, JobsKnowTheirVersions, KnowsItsVersion
<1>3. e \in VersionType
  <2>1. versions[v] \in VersionType
    BY <1>2 DEF TInv, StoreTypes
  <2> QED BY <2>1 DEF VersionType
<1>4. versions' = [versions EXCEPT ![v] = e]
  BY DEF Supersede
<1> HIDE DEF e, v
<1>5. versions' \in Seq(VersionType) /\ Len(versions') = Len(versions)
  BY <1>2, <1>3, <1>4 DEF TInv, StoreTypes
<1>6. StoreTypes' /\ CutTypes'
  BY <1>5 DEF Supersede, TInv, StoreTypes, CutTypes
<1>7. Fits("record", job[w]) /\ job' = [job EXCEPT ![w] = job[w]]
  BY <1>1 DEF Supersede, Fits, PCs, TInv, JobTypes
<1> QED BY <1>6, <1>7, WriterSteps DEF Supersede, Goto

LEMMA FaultTyped == ASSUME TInv, HistoryInv, NEW w \in Writers, Fault(w) PROVE TInv'
<1>1. Touched(job[w]) \in Ids
  <2>1. job[w].id \in Ids /\ (job[w].op = "save" => job[w].target \in Targets)
    BY DEF Fault, TInv, JobTypes, Fits
  <2> QED BY <2>1, RowFields DEF Touched, TInv, StoreTypes, MaybeRow, Present
<1>2. job[w].version \in 0..Len(versions) /\ Len(versions) \in Nat
  <2>1. pc[w] # "idle" => job[w].op \in {"save", "rollback"}
    BY DEF TInv, JobTypes, Fits
  <2>2. job[w].version = 0 \/ job[w].version \in DOMAIN versions
    BY <2>1 DEF Fault, HistoryInv, JobsKnowTheirVersions, KnowsItsVersion
  <2> QED BY <2>2 DEF TInv, StoreTypes
<1>3. CutTypes'
  <2> DEFINE c == [ctx |-> Touched(job[w]), version |-> job[w].version, recorded |-> Len(versions)]
  <2>1. c.ctx \in Ids /\ c.version \in 0..Len(versions) /\ c.recorded \in 0..Len(versions)
    BY <1>1, <1>2
  <2>2. cut' = cut \cup {c}
    BY DEF Fault
  <2> HIDE DEF c
  <2> QED BY <2>1, <2>2, Unwritten DEF Fault, TInv, CutTypes
<1> QED BY <1>3, NoJobFits, Unwritten, WriterSteps DEF Fault, Finish, Goto

-----------------------------------------------------------------------------
(* The agent's steps, and the rest of the type invariant.                  *)

LEMMA ContextsTyped ==
  ASSUME StoreTypes, NEW from \in Nat, NEW to \in Nat, from >= 1, to <= Room
  PROVE  /\ Contexts(from, to) \in Seq(Row)
         /\ \A i \in DOMAIN Contexts(from, to) :
              \E t \in from..to : Present(t) /\ Contexts(from, to)[i] = rows[t]
<1> DEFINE S == {t \in from..to : Present(t)}
           c == [i \in 1..Cardinality(S) |-> rows[Nth(S, i)]]
<1>1. S \in SUBSET Targets /\ S \in SUBSET Nat
  BY ConstantsAssumption, SMT DEF Targets, Room
<1>2. Contexts(from, to) = c
  BY DEF Contexts
<1>3. IsFiniteSet(S)
  <2>1. IsFiniteSet(from..to)
    BY FS_Interval
  <2> QED BY <2>1, FS_Subset
<1>4. Cardinality(S) \in Nat
  BY <1>3, FS_CardinalityType
<1>5. ASSUME NEW i \in 1..Cardinality(S)
      PROVE  Nth(S, i) \in from..to /\ Present(Nth(S, i)) /\ rows[Nth(S, i)] \in Row
  <2>1. Nth(S, i) \in S
    <3> HIDE DEF S
    <3> QED BY <1>1, <1>3, NthIs
  <2> DEFINE n == Nth(S, i)
  <2>2. n \in Targets /\ n \in from..to /\ Present(n)
    BY <1>1, <2>1
  <2> HIDE DEF n
  <2> QED BY <2>2 DEF Present, StoreTypes, MaybeRow, n
<1> HIDE DEF S
<1>6. c \in [1..Cardinality(S) -> Row]
  BY <1>5
<1>7. \A i \in DOMAIN c : \E t \in from..to : Present(t) /\ c[i] = rows[t]
  BY <1>5
<1> HIDE DEF c
<1>8. c \in Seq(Row)
  BY <1>4, <1>6, FirstVersions
<1> QED BY <1>2, <1>7, <1>8

LEMMA AgentStepsTyped ==
  ASSUME TInv, UNCHANGED <<store, writers>>, AgentTypes'
  PROVE  TInv'
BY DEF TInv, StoreTypes, JobTypes, CutTypes, store, writers

LEMMA ResolveContactsTyped == ASSUME TInv, ResolveContacts PROVE TInv'
<1>1. Contexts(1, NumContacts) \in Seq(Row)
  BY ContextsTyped, ConstantsAssumption DEF TInv, Room
<1>2. changes \in Nat /\ MaxChanges + 1 \in Nat
  BY ConstantsAssumption DEF TInv, CutTypes
<1> DEFINE since == IF Idle THEN changes ELSE MaxChanges + 1
           contexts == Contexts(1, NumContacts)
<1>3. resolver' = [pc |-> "room", contexts |-> contexts, signature |-> <<>>, since |-> since]
  BY DEF ResolveContacts
<1>4. since \in Nat
  BY <1>2
<1> HIDE DEF since, contexts
<1>5. AgentTypes'
  BY <1>1, <1>3, <1>4 DEF ResolveContacts, TInv, AgentTypes, contexts
<1> QED BY <1>5, AgentStepsTyped DEF ResolveContacts

LEMMA ResolveRoomTyped == ASSUME TInv, ResolveRoom PROVE TInv'
<1> DEFINE contexts == resolver.contexts \o Contexts(Room, Room)
<1>1. contexts \in Seq(Row)
  <2>1. Contexts(Room, Room) \in Seq(Row)
    BY ContextsTyped, ConstantsAssumption DEF TInv, Room
  <2>2. resolver.contexts \in Seq(Row)
    BY DEF TInv, AgentTypes
  <2> QED BY <2>1, <2>2, Concatenated
<1> HIDE DEF contexts
<1>2. resolver' = [resolver EXCEPT !.pc = "signature", !.contexts = contexts]
  BY DEF ResolveRoom, contexts, TInv, AgentTypes
<1>3. AgentTypes'
  BY <1>1, <1>2 DEF ResolveRoom, TInv, AgentTypes
<1> QED BY <1>3, AgentStepsTyped DEF ResolveRoom

LEMMA ResolveSignatureTyped == ASSUME TInv, ResolveSignature PROVE TInv'
<1>1. AgentTypes'
  BY DEF ResolveSignature, TInv, AgentTypes, StoreTypes
<1> QED BY <1>1, AgentStepsTyped DEF ResolveSignature

LEMMA UnresolvedTyped ==
  Unresolved \in [pc: {"idle", "room", "signature", "versions"}, contexts: Seq(Row),
                  signature: Signatures \cup {<<>>}, since: Nat]
<1>1. <<>> \in Seq(Row)
  OBVIOUS
<1> QED BY <1>1 DEF Unresolved

LEMMA StampDraftTyped == ASSUME TInv, StampDraft PROVE TInv'
<1>1. PICK stamp : draft' = [stage |-> "proposed", stamp |-> stamp]
  BY DEF StampDraft
<1>2. resolver' = Unresolved /\ queued' = queued /\ UNCHANGED <<store, writers>>
  BY DEF StampDraft
<1>3. queued = NoStamp
  BY DEF StampDraft, TInv, AgentTypes
<1>4. Unresolved.pc = "idle"
  BY DEF Unresolved
<1>5. AgentTypes'
  BY <1>1, <1>2, <1>3, <1>4, UnresolvedTyped DEF AgentTypes
<1> QED BY <1>2, <1>5, AgentStepsTyped

LEMMA WriteBareDraftTyped == ASSUME TInv, WriteBareDraft PROVE TInv'
<1>1. AgentTypes'
  BY DEF WriteBareDraft, TInv, AgentTypes
<1> QED BY <1>1, AgentStepsTyped DEF WriteBareDraft

LEMMA ApproveTyped == ASSUME TInv, Approve PROVE TInv'
<1>1. PICK override \in BOOLEAN, session \in BOOLEAN :
        LET tenant == session \/ draft.stamp # NoStamp IN
          queued' = [signature |-> OutboxSignature(draft.stamp, tenant),
                     delivery |-> OutboxDelivery(draft.stamp, tenant),
                     override |-> override]
  BY DEF Approve
<1>2. queued'.override \in BOOLEAN
  BY <1>1
<1>3. resolver.pc = "idle"
  BY DEF Approve, TInv, AgentTypes
<1>4. AgentTypes'
  BY <1>2, <1>3 DEF Approve, TInv, AgentTypes
<1> QED BY <1>4, AgentStepsTyped DEF Approve

LEMMA SaveSettingsTyped == ASSUME TInv, SaveSettings PROVE TInv'
<1>1. StoreTypes'
  BY DEF SaveSettings, TInv, StoreTypes
<1>2. CutTypes'
  BY ConstantsAssumption DEF SaveSettings, TInv, CutTypes
<1>3. JobTypes' /\ AgentTypes'
  BY DEF SaveSettings, TInv, JobTypes, AgentTypes, drafts
<1> QED BY <1>1, <1>2, <1>3 DEF TInv

LEMMA NothingTyped == ASSUME TInv, UNCHANGED vars PROVE TInv'
BY DEF TInv, StoreTypes, JobTypes, AgentTypes, CutTypes, vars

LEMMA InitTyped == Init => TInv
<1> SUFFICES ASSUME Init PROVE TInv
  OBVIOUS
<1>1. PICK present \in SUBSET Targets, profile \in [Targets -> Profiles], resaved \in BOOLEAN :
        /\ resaved => Room \in present
        /\ rows = [t \in Targets |->
                     IF t \in present THEN [id |-> t, target |-> t, profile |-> profile[t]] ELSE NoRow]
        /\ versions = (IF resaved THEN RoomHistory([rows[Room] EXCEPT !.id = FirstRoomId]) ELSE <<>>) \o
                      [i \in 1..Cardinality(present) |->
                         LET t == Nth(present, i) IN Version("create", t, NoRow, rows[t], "approved")]
  BY DEF Init
<1>2. ASSUME NEW t \in present PROVE t \in Ids /\ t \in Targets /\ rows[t] \in Row /\ rows[t] # NoRow
  <2>1. rows[t] = [id |-> t, target |-> t, profile |-> profile[t]]
    BY <1>1
  <2> QED BY <2>1, IdsAre, SentinelAssumption DEF Row
<1>3. rows \in [Targets -> MaybeRow]
  BY <1>1, <1>2 DEF MaybeRow
<1> DEFINE old == [rows[Room] EXCEPT !.id = FirstRoomId]
           past == IF resaved THEN RoomHistory(old) ELSE <<>>
           first == [i \in 1..Cardinality(present) |->
                       Version("create", Nth(present, i), NoRow, rows[Nth(present, i)], "approved")]
<1>4. past \in Seq(VersionType)
  <2>1. CASE resaved
    <3>1. old \in Row
      BY <1>1, <1>2, <2>1, IdsAre DEF Row
    <3> DEFINE a == Version("create", FirstRoomId, NoRow, old, "superseded")
               b == Version("rollback", FirstRoomId, old, NoRow, "approved")
    <3> HIDE DEF old
    <3>2. a \in VersionType /\ b \in VersionType
      BY <3>1, IdsAre DEF Version, VersionType
    <3>3. past = <<a, b>>
      BY <2>1 DEF RoomHistory
    <3> HIDE DEF a, b, past
    <3> QED BY <3>2, <3>3
  <2>2. CASE ~resaved
    <3>1. past = <<>>
      BY <2>2
    <3> HIDE DEF past
    <3> QED BY <3>1
  <2> QED BY <2>1, <2>2
<1>5. first \in Seq(VersionType)
  <2>1. IsFiniteSet(present)
    <3>1. IsFiniteSet(Targets)
      BY ConstantsAssumption, FS_Interval DEF Targets
    <3> QED BY <3>1, FS_Subset
  <2>2. present \in SUBSET Nat
    BY IdsAre
  <2>3. ASSUME NEW i \in 1..Cardinality(present)
        PROVE  Version("create", Nth(present, i), NoRow, rows[Nth(present, i)], "approved") \in VersionType
    <3> DEFINE n == Nth(present, i)
    <3>1. n \in Ids /\ rows[n] \in Row
      BY <1>2, <2>1, <2>2, NthIs
    <3> HIDE DEF n
    <3>2. Version("create", n, NoRow, rows[n], "approved") \in VersionType
      BY <3>1 DEF Version, VersionType
    <3> QED BY <3>2 DEF n
  <2>4. first \in [1..Cardinality(present) -> VersionType]
    BY <2>3
  <2> HIDE DEF first
  <2> QED BY <2>4, PresentIsFinite, FirstVersions
<1>6. versions = past \o first
  BY <1>1
<1>7. versions \in Seq(VersionType)
  <2> HIDE DEF past, first
  <2> QED BY <1>4, <1>5, <1>6, Concatenated
<1>8. StoreTypes
  BY <1>3, <1>7 DEF Init, StoreTypes
<1>9. JobTypes
  <2>1. \A w \in Writers : Fits(pc[w], job[w])
    BY NoJobFits DEF Init
  <2>2. pc \in [Writers -> PCs] /\ job \in [Writers -> JobType]
    BY NoJobFits DEF Init, Fits
  <2> QED BY <2>1, <2>2 DEF JobTypes
<1>10. AgentTypes
  <2>1. Unresolved.pc = "idle"
    BY DEF Unresolved
  <2> QED BY <2>1, UnresolvedTyped DEF Init, AgentTypes
<1>11. CutTypes
  BY ConstantsAssumption DEF Init, CutTypes
<1> QED BY <1>8, <1>9, <1>10, <1>11 DEF TInv

LEMMA StepKeepsTypes == TInv /\ HistoryInv /\ [Next]_vars => TInv'
BY SaveBeginsTyped, SaveUpsertsTyped, SaveReadsAfterTyped, SaveRecordsTyped, RollbackBeginsTyped,
   RollbackReadsTyped, RollbackRestoresTyped, RollbackSupersedesTyped, RollbackRecordsTyped, FaultTyped,
   SaveSettingsTyped, ResolveContactsTyped, ResolveRoomTyped, ResolveSignatureTyped, StampDraftTyped,
   WriteBareDraftTyped, ApproveTyped, NothingTyped DEF Next

LEMMA TypesImplyTypeOK == TInv => TypeOK
<1> SUFFICES ASSUME TInv PROVE TypeOK
  OBVIOUS
<1>1. rows \in [Targets -> Row \cup {NoRow}] /\ \A v \in DOMAIN versions : versions[v] \in VersionType
  BY DEF TInv, StoreTypes, MaybeRow
<1>2. \A w \in Writers : pc[w] = "idle" <=> job[w] = NoJob
  BY DEF TInv, JobTypes, Fits
<1>3. pc \in [Writers -> {"idle", "upsert", "after", "current", "restore", "supersede", "record"}]
  BY DEF TInv, JobTypes, PCs
<1>4. /\ resolver.pc \in {"idle", "room", "signature", "versions"}
      /\ draft.stage \in {"none", "proposed", "queued"}
      /\ IF draft.stage = "queued" THEN queued.override \in BOOLEAN ELSE queued = NoStamp
  BY DEF TInv, AgentTypes
<1>5. changes \in 0..MaxChanges /\ \A c \in cut : c.ctx \in Ids /\ {c.version, c.recorded} \subseteq 0..Len(versions)
  BY DEF TInv, CutTypes
<1> QED BY <1>1, <1>2, <1>3, <1>4, <1>5 DEF TypeOK

LEMMA AlwaysTyped == Spec => []TInv /\ []HistoryInv
<1>1. HistoryInv /\ [][Next]_vars => []HistoryInv
  BY StepKeepsHistory, PTL
<1>2. TInv /\ []HistoryInv /\ [][Next]_vars => []TInv
  BY StepKeepsTypes, PTL
<1> QED BY <1>1, <1>2, InitTyped, InitEstablishesHistory, PTL DEF Spec

(* The rows, the history and every writer's locals keep their types, a     *)
(* writer has a job exactly while it is at a statement of it, and a draft  *)
(* in the outbox file was approved by a call that said whether it          *)
(* overrides the safeguard.                                                *)
THEOREM TypeCorrect == Spec => []TypeOK
BY AlwaysTyped, TypesImplyTypeOK, PTL

-----------------------------------------------------------------------------
(* The history describes the rows.  When two writers are under way at once *)
(* it need not: the rows are read and the versions recorded by separate    *)
(* statements.  What follows is for writers that take turns.               *)
Alone == \A v, w \in Writers : pc[v] # "idle" /\ pc[w] # "idle" => v = w

(* An id is that of one target for good: own says of which.                *)
OwnedRows(own, r) == \A t \in Targets : r[t] # NoRow => r[t].target = t /\ own[r[t].id] = t
OwnRow(own, id, row) == row # NoRow => row.id = id /\ row.target = own[id]
Owned(own) ==
  /\ own \in [Ids -> Targets]
  /\ OwnedRows(own, rows)
  /\ \A v \in DOMAIN versions :
       /\ OwnRow(own, versions[v].ctx, versions[v].before)
       /\ OwnRow(own, versions[v].ctx, versions[v].after)

(* What the writer at l knows of the rows: its reads are still true.       *)
Turn(own, l, j) ==
  /\ j.op = "save" => own[j.id] = j.target
  /\ l = "upsert" => j.before = rows[j.target]
  /\ l \in {"after", "record"} /\ j.op = "save" =>
       Present(j.target) /\ OwnRow(own, rows[j.target].id, j.before)
  /\ l = "record" /\ j.op = "save" => j.after = rows[j.target] /\ j.id = rows[j.target].id
  /\ l \in {"restore", "supersede", "record"} /\ j.op = "rollback" => OwnRow(own, j.id, j.before)
  /\ l \in {"supersede", "record"} /\ j.op = "rollback" => RowById(j.id) = j.after
Ownership == \E own : Owned(own) /\ \A w \in Writers : Turn(own, pc[w], job[w])

(* No id is drawn before its change.                                       *)
Drawn ==
  /\ \A t \in Targets : Present(t) => rows[t].id <= FirstRoomId + changes
  /\ \A v \in DOMAIN versions : versions[v].ctx <= FirstRoomId + changes
  /\ \A w \in Writers : job[w].id <= FirstRoomId + changes

(* RowById as a function of the rows, to speak of it before and after a    *)
(* step.                                                                   *)
ById(r, id) ==
  IF \E t \in Targets : r[t] # NoRow /\ r[t].id = id
  THEN r[CHOOSE t \in Targets : r[t] # NoRow /\ r[t].id = id] ELSE NoRow

LEMMA RowByIdIsById ==
  ASSUME NEW id
  PROVE  RowById(id) = ById(rows, id) /\ RowById(id)' = ById(rows', id)
BY DEF RowById, ById, Present

LEMMA ByIdCases ==
  ASSUME NEW r, NEW id
  PROVE  \/ ById(r, id) = NoRow /\ \A t \in Targets : r[t] # NoRow => r[t].id # id
         \/ \E t \in Targets : r[t] # NoRow /\ r[t].id = id /\ ById(r, id) = r[t]
BY DEF ById

LEMMA ByIdFinds ==
  ASSUME NEW r, NEW own, OwnedRows(own, r), NEW t \in Targets, r[t] # NoRow
  PROVE  ById(r, r[t].id) = r[t]
BY ByIdCases DEF OwnedRows

LEMMA ByIdSame ==
  ASSUME NEW r, NEW s, NEW p, NEW q, OwnedRows(p, r), OwnedRows(q, s), NEW id,
         \A t \in Targets : r[t] # s[t] =>
           (r[t] # NoRow => r[t].id # id) /\ (s[t] # NoRow => s[t].id # id)
  PROVE  ById(s, id) = ById(r, id)
<1>1. CASE \E t \in Targets : r[t] # NoRow /\ r[t].id = id
  <2>1. PICK t \in Targets : r[t] # NoRow /\ r[t].id = id
    BY <1>1
  <2>2. s[t] = r[t]
    BY <2>1
  <2>3. ById(r, id) = r[t] /\ ById(s, id) = s[t]
    BY <2>1, <2>2, ByIdFinds
  <2> QED BY <2>2, <2>3
<1>2. CASE \A t \in Targets : r[t] # NoRow => r[t].id # id
  <2>1. \A t \in Targets : s[t] # NoRow => s[t].id # id
    BY <1>2
  <2> QED BY <1>2, <2>1, ByIdCases
<1> QED BY <1>1, <1>2

-----------------------------------------------------------------------------
(* One writer's step while the others are idle.                            *)
Works(w) ==
  \/ BeginSave(w) \/ Upsert(w) \/ ReadAfter(w) \/ RecordSave(w)
  \/ BeginRollback(w) \/ ReadCurrent(w) \/ Restore(w) \/ Supersede(w) \/ RecordRollback(w)
  \/ Fault(w)

LEMMA WorksOnItsOwn ==
  ASSUME TInv, NEW w \in Writers, Works(w)
  PROVE  /\ \E l, j : pc' = [pc EXCEPT ![w] = l] /\ job' = [job EXCEPT ![w] = j]
         /\ pc[w] # "idle" \/ pc'[w] # "idle"
<1> USE DEF Goto, Finish
<1>1. CASE BeginSave(w) \/ BeginRollback(w)
  BY <1>1 DEF BeginSave, BeginRollback, TInv, JobTypes
<1>2. CASE Upsert(w) \/ Supersede(w) \/ Restore(w)
  <2>1. job = [job EXCEPT ![w] = job[w]]
    BY DEF TInv, JobTypes
  <2> QED BY <1>2, <2>1 DEF Upsert, Supersede, Restore
<1>3. CASE ReadAfter(w)
  <2>1. PICK row, id : job' = [job EXCEPT ![w] = [job[w] EXCEPT !.after = row, !.id = id]]
    BY <1>3 DEF ReadAfter, TInv, JobTypes
  <2> QED BY <1>3, <2>1 DEF ReadAfter
<1>4. CASE ReadCurrent(w)
  <2>1. PICK row : job' = [job EXCEPT ![w] = [job[w] EXCEPT !.before = row]]
    BY <1>4 DEF ReadCurrent, TInv, JobTypes
  <2> QED BY <1>4, <2>1 DEF ReadCurrent
<1>5. CASE RecordSave(w) \/ RecordRollback(w) \/ Fault(w)
  BY <1>5 DEF RecordSave, RecordRollback, Fault
<1> QED BY <1>1, <1>2, <1>3, <1>4, <1>5 DEF Works

LEMMA OthersIdle ==
  ASSUME TInv, Alone, Alone', NEW w \in Writers, Works(w)
  PROVE  \A x \in Writers \ {w} : pc[x] = "idle" /\ pc'[x] = "idle" /\ job[x] = NoJob /\ job'[x] = NoJob
<1>1. PICK l, j : pc' = [pc EXCEPT ![w] = l] /\ job' = [job EXCEPT ![w] = j]
  BY WorksOnItsOwn
<1>2. pc[w] # "idle" \/ pc'[w] # "idle"
  BY WorksOnItsOwn
<1>3. \A x \in Writers \ {w} : pc'[x] = pc[x] /\ job'[x] = job[x]
  BY <1>1 DEF TInv, JobTypes
<1> QED BY <1>2, <1>3 DEF Alone, TInv, JobTypes, Fits

-----------------------------------------------------------------------------
(* Ownership, step by step.                                                *)

Rest(w) == \A x \in Writers \ {w} : pc'[x] = "idle" /\ job'[x] = NoJob
Turns(own) == \A w \in Writers : Turn(own, pc[w], job[w])

LEMMA IdleTurn ==
  ASSUME NEW own, NEW w \in Writers, Rest(w), Turn(own, pc[w], job[w])'
  PROVE  Turns(own)'
<1>1. Turn(own, "idle", NoJob)'
  BY DEF Turn, NoJob
<1>2. ASSUME NEW x \in Writers PROVE Turn(own, pc[x], job[x])'
  <2>1. CASE x = w
    BY <2>1
  <2>2. CASE x # w
    <3>1. pc'[x] = "idle" /\ job'[x] = NoJob
      BY <2>2 DEF Rest
    <3> QED BY <1>1, <3>1
  <2> QED BY <2>1, <2>2
<1> QED BY <1>2 DEF Turns

(* What holds whenever one writer makes a step on its own.                 *)
Before(own, w) ==
  /\ TInv /\ HistoryInv /\ Drawn /\ Owned(own) /\ Turns(own)
  /\ Rest(w)

LEMMA Unowned ==
  ASSUME NEW own, Owned(own), rows' = rows, versions' = versions
  PROVE  Owned(own)'
BY DEF Owned, OwnRow

LEMMA JobOf ==
  ASSUME TInv, NEW w \in Writers
  PROVE  /\ job[w] \in JobType /\ DOMAIN job = Writers /\ DOMAIN pc = Writers
         /\ pc[w] # "idle" => job[w].id \in Ids
         /\ job[w].op = "save" => job[w].target \in Targets /\ job[w].profile \in Profiles
         /\ job[w].before \in MaybeRow /\ job[w].after \in MaybeRow
BY DEF TInv, JobTypes, Fits, JobType

LEMMA SaveBeginsOwned ==
  ASSUME NEW own, NEW w \in Writers, Before(own, w), BeginSave(w)
  PROVE  \E o : Owned(o)' /\ Turns(o)'
<1> USE DEF Before
<1>1. PICK t \in Targets, p \in Profiles : \E id \in KnownIds(t) \cup {FreshId} :
        job' = [job EXCEPT ![w] =
                  [NoJob EXCEPT !.op = "save", !.id = id, !.target = t, !.profile = p,
                     !.before = IF RowById(id) # NoRow THEN RowById(id) ELSE rows[t]]]
  BY DEF BeginSave
<1>2. PICK id \in KnownIds(t) \cup {FreshId} :
        job' = [job EXCEPT ![w] =
                  [NoJob EXCEPT !.op = "save", !.id = id, !.target = t, !.profile = p,
                     !.before = IF RowById(id) # NoRow THEN RowById(id) ELSE rows[t]]]
  BY <1>1
<1> DEFINE before == IF RowById(id) # NoRow THEN RowById(id) ELSE rows[t]
           j == [NoJob EXCEPT !.op = "save", !.id = id, !.target = t, !.profile = p, !.before = before]
<1>3. job'[w] = j /\ pc'[w] = "upsert" /\ rows' = rows /\ versions' = versions
  BY <1>2, JobOf DEF BeginSave, Goto, store
<1>4. j.op = "save" /\ j.id = id /\ j.target = t /\ j.before = before
  BY DEF NoJob
<1>5. ASSUME NEW o, Owned(o), o[id] = t PROVE Owned(o)' /\ Turns(o)'
  <2>1. before = rows[t]
    <3>1. CASE RowById(id) # NoRow
      <4>1. PICK u \in Targets : Present(u) /\ RowById(id) = rows[u] /\ rows[u].id = id
        BY <3>1, RowByIdIs DEF TInv
      <4>2. u = t
        BY <1>5, <4>1 DEF Owned, OwnedRows, Present
      <4> QED BY <4>1, <4>2
    <3>2. CASE RowById(id) = NoRow
      BY <3>2
    <3> QED BY <3>1, <3>2
  <2> HIDE DEF j, before
  <2>2. Turn(o, pc[w], job[w])'
    BY <1>3, <1>4, <1>5, <2>1 DEF Turn
  <2> QED BY <1>3, <1>5, <2>2, Unowned, IdleTurn
<1>6. CASE id \in KnownIds(t)
  <2>1. PICK v \in DOMAIN versions :
          /\ id = versions[v].ctx
          /\ \E row \in {versions[v].before, versions[v].after} \ {NoRow} : row.target = t
    BY <1>6 DEF KnownIds
  <2>2. own[id] = t
    BY <2>1 DEF Owned, OwnRow
  <2> QED BY <1>5, <2>2
<1>7. CASE id = FreshId
  <2> DEFINE o == [own EXCEPT ![id] = t]
  <2>1. id \in Ids /\ id \in Nat /\ FirstRoomId + changes < id /\ changes \in Nat /\ FirstRoomId \in Nat
    <3>1. changes \in Nat /\ changes < MaxChanges /\ FirstRoomId \in Nat
      BY ConstantsAssumption DEF BeginSave, TInv, CutTypes, FirstRoomId
    <3> QED BY <1>7, <3>1, IdsAre DEF FreshId
  <2>2. own \in [Ids -> Targets]
    BY DEF Owned
  <2>3. o \in [Ids -> Targets] /\ o[id] = t /\ \A i \in Ids \ {id} : o[i] = own[i]
    BY <2>1, <2>2
  <2> HIDE DEF o
  <2>4. OwnedRows(o, rows)
    <3> SUFFICES ASSUME NEW u \in Targets, Present(u)
                 PROVE  rows[u].target = u /\ o[rows[u].id] = u
      BY DEF OwnedRows, Present
    <3>1. rows[u].target = u /\ own[rows[u].id] = u /\ rows[u].id \in Ids
      BY RowFields DEF Owned, OwnedRows, Present, TInv, StoreTypes, MaybeRow
    <3>2. rows[u].id # id
      <4>1. rows[u].id <= FirstRoomId + changes
        BY DEF Drawn
      <4>2. rows[u].id \in Nat
        BY <3>1, IdsAre
      <4> QED BY <2>1, <4>1, <4>2
    <3> QED BY <2>3, <3>1, <3>2
  <2>5. ASSUME NEW v \in DOMAIN versions
        PROVE  /\ OwnRow(o, versions[v].ctx, versions[v].before)
               /\ OwnRow(o, versions[v].ctx, versions[v].after)
    <3>1. versions[v] \in VersionType
      BY DEF TInv, StoreTypes
    <3>2. versions[v].ctx \in Ids
      BY <3>1 DEF VersionType
    <3>3. versions[v].ctx # id
      BY <2>1, <3>2, IdsAre DEF Drawn
    <3> QED BY <2>3, <3>2, <3>3 DEF Owned, OwnRow
  <2>6. Owned(o)
    BY <2>3, <2>4, <2>5 DEF Owned
  <2> QED BY <1>5, <2>3, <2>6
<1> QED BY <1>6, <1>7

LEMMA SaveUpsertsOwned ==
  ASSUME NEW own, NEW w \in Writers, Before(own, w), Upsert(w)
  PROVE  Owned(own)' /\ Turns(own)'
<1> USE DEF Before
<1> DEFINE j == job[w]
           t == j.target
           row == Upserted(t, j.id, j.profile)
<1>1. j.op = "save" /\ t \in Targets /\ j.id \in Ids /\ j.profile \in Profiles
  BY JobOf DEF Upsert, HistoryInv, JobsKnowTheirVersions, KnowsItsVersion
<1>2. Turn(own, "upsert", j)
  BY DEF Upsert, Turns
<1>3. row \in Row /\ row.target = t /\ own[row.id] = t /\ (Present(t) => row.id = rows[t].id)
  <2>1. CASE Present(t)
    <3>1. rows[t] \in Row /\ rows[t].target = t /\ own[rows[t].id] = t
      BY <1>1, <2>1 DEF Owned, OwnedRows, Present, TInv, StoreTypes, MaybeRow
    <3> HIDE DEF t, j
    <3> QED BY <1>1, <2>1, <3>1 DEF Upserted, Row
  <2>2. CASE ~Present(t)
    BY <1>1, <1>2, <2>2 DEF Upserted, Row, Turn
  <2> QED BY <2>1, <2>2
<1> HIDE DEF row
<1>4. rows' = [rows EXCEPT ![t] = row] /\ versions' = versions /\ job' = job /\ pc'[w] = "after"
  BY JobOf DEF Upsert, Goto, row
<1>5. rows'[t] = row /\ \A u \in Targets \ {t} : rows'[u] = rows[u]
  BY <1>1, <1>4 DEF TInv, StoreTypes
<1>6. row # NoRow
  BY <1>3, SentinelAssumption
<1>7. OwnedRows(own, rows')
  BY <1>3, <1>5 DEF Owned, OwnedRows
<1>8. Owned(own)'
  BY <1>4, <1>7 DEF Owned, OwnRow
<1>9. OwnRow(own, row.id, j.before)
  BY <1>1, <1>2, <1>3 DEF Turn, Owned, OwnedRows, OwnRow, Present
<1>10. Turn(own, pc[w], job[w])'
  BY <1>1, <1>2, <1>4, <1>5, <1>6, <1>9 DEF Turn, Present
<1> QED BY <1>8, <1>10, IdleTurn

LEMMA SaveReadsAfterOwned ==
  ASSUME NEW own, NEW w \in Writers, Before(own, w), ReadAfter(w)
  PROVE  Owned(own)' /\ Turns(own)'
<1> USE DEF Before
<1> DEFINE row == rows[job[w].target]
           k == [job[w] EXCEPT !.after = row]
           j == [k EXCEPT !.id = row.id]
<1>1. job[w].op = "save" /\ job[w].target \in Targets
  BY JobOf DEF ReadAfter, HistoryInv, JobsKnowTheirVersions, KnowsItsVersion
<1>2. Turn(own, "after", job[w])
  BY DEF ReadAfter, Turns
<1>3. row # NoRow
  BY <1>1, <1>2 DEF Turn, Present
<1>4. job'[w] = j /\ pc'[w] = "record" /\ rows' = rows /\ versions' = versions
  BY <1>3, JobOf DEF ReadAfter, Goto, store
<1>5. row.id \in Ids /\ row \in MaybeRow /\ own[row.id] = job[w].target
  BY <1>1, <1>3, RowFields DEF Owned, OwnedRows, TInv, StoreTypes, MaybeRow
<1> HIDE DEF row
<1>6. /\ k \in JobType /\ k.op = "save" /\ k.target = job[w].target
      /\ k.before = job[w].before /\ k.after = row
  BY <1>1, <1>5, JobOf, JobWith DEF JobType
<1> HIDE DEF k
<1>7. /\ j.op = "save" /\ j.target = job[w].target /\ j.id = row.id
      /\ j.before = job[w].before /\ j.after = row
  BY <1>6 DEF JobType
<1> HIDE DEF j
<1>8. Turn(own, pc[w], job[w])'
  BY <1>1, <1>2, <1>4, <1>5, <1>7 DEF Turn, Present, row
<1> QED BY <1>4, <1>8, Unowned, IdleTurn

LEMMA Recorded ==
  ASSUME TInv, NEW op, NEW ctx, NEW before, NEW after, RecordVersion(op, ctx, before, after)
  PROVE  /\ Len(versions) \in Nat /\ DOMAIN versions = 1..Len(versions)
         /\ DOMAIN versions' = 1..Len(versions) + 1
         /\ \A v \in DOMAIN versions : v \in DOMAIN versions' /\ versions'[v] = versions[v]
         /\ versions'[Len(versions) + 1].ctx = ctx
         /\ versions'[Len(versions) + 1].before = before
         /\ versions'[Len(versions) + 1].after = after
         /\ versions'[Len(versions) + 1].status = "approved"
         /\ versions'[Len(versions) + 1].at = now'
         /\ now' \in Nat /\ now <= now'
<1> DEFINE e == [Version(op, ctx, before, after, "approved") EXCEPT !.at = now']
<1>1. /\ e.ctx = ctx /\ e.before = before /\ e.after = after /\ e.status = "approved" /\ e.at = now'
  BY DEF Version
<1>2. versions \in Seq(VersionType) /\ versions' = Append(versions, e)
  BY DEF RecordVersion, TInv, StoreTypes
<1> HIDE DEF e
<1>3. /\ Len(versions) \in Nat /\ DOMAIN versions = 1..Len(versions)
      /\ DOMAIN versions' = 1..Len(versions) + 1
      /\ \A v \in 1..Len(versions) : versions'[v] = versions[v]
      /\ versions'[Len(versions) + 1] = e
  BY <1>2, SMT
<1>4. now' \in Nat /\ now <= now'
  BY DEF RecordVersion, TInv, StoreTypes
<1> QED BY <1>1, <1>3, <1>4

(* Recording a version of the context the rows show.                       *)
LEMMA RecordsOwned ==
  ASSUME NEW own, NEW w \in Writers, Before(own, w), NEW op, NEW ctx, NEW before, NEW after,
         RecordVersion(op, ctx, before, after), Finish(w), rows' = rows,
         OwnRow(own, ctx, before), OwnRow(own, ctx, after)
  PROVE  Owned(own)' /\ Turns(own)'
<1> USE DEF Before
<1>1. ASSUME NEW v \in DOMAIN versions'
      PROVE  /\ OwnRow(own, versions'[v].ctx, versions'[v].before)
             /\ OwnRow(own, versions'[v].ctx, versions'[v].after)
  <2>1. CASE v \in DOMAIN versions
    BY <2>1, Recorded DEF Owned
  <2>2. CASE v = Len(versions) + 1
    BY <2>2, Recorded
  <2> QED BY <2>1, <2>2, Recorded
<1>2. Owned(own)'
  BY <1>1 DEF Owned, OwnRow
<1>3. pc'[w] = "idle" /\ job'[w] = NoJob
  BY JobOf DEF Finish, Goto
<1>4. Turn(own, pc[w], job[w])'
  BY <1>3 DEF Turn, NoJob
<1> QED BY <1>2, <1>4, IdleTurn

LEMMA SaveRecordsOwned ==
  ASSUME NEW own, NEW w \in Writers, Before(own, w), RecordSave(w)
  PROVE  Owned(own)' /\ Turns(own)'
<1> USE DEF Before
<1>1. job[w].op = "save" /\ job[w].target \in Targets
  BY JobOf DEF RecordSave
<1>2. Turn(own, "record", job[w])
  BY DEF RecordSave, Turns
<1>3. OwnRow(own, job[w].id, job[w].before) /\ OwnRow(own, job[w].id, job[w].after)
  BY <1>1, <1>2 DEF Turn, OwnRow, Owned, OwnedRows, Present
<1> QED BY <1>3, RecordsOwned DEF RecordSave

LEMMA RollbackRecordsOwned ==
  ASSUME NEW own, NEW w \in Writers, Before(own, w), RecordRollback(w)
  PROVE  Owned(own)' /\ Turns(own)'
<1> USE DEF Before
<1>1. Turn(own, "record", job[w]) /\ job[w].op = "rollback"
  BY DEF RecordRollback, Turns
<1>2. OwnRow(own, job[w].id, job[w].before)
  BY <1>1 DEF Turn
<1>3. OwnRow(own, job[w].id, job[w].after)
  BY <1>1 DEF Owned, HistoryInv, JobsKnowTheirVersions, KnowsItsVersion
<1> QED BY <1>2, <1>3, RecordsOwned DEF RecordRollback

LEMMA RollbackBeginsOwned ==
  ASSUME NEW own, NEW w \in Writers, Before(own, w), BeginRollback(w)
  PROVE  Owned(own)' /\ Turns(own)'
<1> USE DEF Before
<1>1. PICK v \in DOMAIN versions :
        job' = [job EXCEPT ![w] = [NoJob EXCEPT !.op = "rollback", !.version = v,
                                     !.id = versions[v].ctx, !.after = versions[v].before]]
  BY DEF BeginRollback
<1>2. pc'[w] = "current" /\ job'[w].op = "rollback" /\ rows' = rows /\ versions' = versions
  BY <1>1, JobOf DEF BeginRollback, Goto, store, NoJob
<1>3. Turn(own, pc[w], job[w])'
  BY <1>2 DEF Turn
<1> QED BY <1>2, <1>3, Unowned, IdleTurn

LEMMA RollbackReadsOwned ==
  ASSUME NEW own, NEW w \in Writers, Before(own, w), ReadCurrent(w)
  PROVE  Owned(own)' /\ Turns(own)'
<1> USE DEF Before
<1> DEFINE row == RowById(job[w].id)
           j == [job[w] EXCEPT !.before = row]
<1>1. row \in MaybeRow /\ job[w].op = "rollback" /\ job[w] \in JobType
  BY RowByIdIs, JobOf DEF TInv, ReadCurrent, HistoryInv, JobsKnowTheirVersions, KnowsItsVersion
<1>2. OwnRow(own, job[w].id, row)
  BY RowByIdIs DEF OwnRow, Owned, OwnedRows, Present, TInv
<1>3. job'[w] = j /\ pc'[w] = "restore" /\ rows' = rows /\ versions' = versions
  BY JobOf DEF ReadCurrent, Goto, store
<1> HIDE DEF row
<1>4. j.op = job[w].op /\ j.id = job[w].id /\ j.before = row
  BY <1>1 DEF JobType
<1> HIDE DEF j
<1>5. Turn(own, pc[w], job[w])'
  BY <1>1, <1>2, <1>3, <1>4 DEF Turn
<1> QED BY <1>3, <1>5, Unowned, IdleTurn

LEMMA RollbackRestoresOwned ==
  ASSUME NEW own, NEW w \in Writers, Before(own, w), Restore(w)
  PROVE  Owned(own)' /\ Turns(own)'
<1> USE DEF Before
<1> DEFINE j == job[w]
<1>1. j.op = "rollback" /\ versions' = versions /\ Turn(own, "restore", j)
  BY DEF Restore, Turns, HistoryInv, JobsKnowTheirVersions, KnowsItsVersion
<1>2. OwnRow(own, j.id, j.after)
  BY <1>1 DEF Owned, HistoryInv, JobsKnowTheirVersions, KnowsItsVersion
<1>3. CASE Finish(w) /\ UNCHANGED rows
  <2>1. pc'[w] = "idle" /\ job'[w] = NoJob
    BY <1>3, JobOf DEF Finish, Goto
  <2>2. Turn(own, pc[w], job[w])'
    BY <2>1 DEF Turn, NoJob
  <2> QED BY <1>1, <1>3, <2>2, Unowned, IdleTurn
<1>4. ASSUME Goto(w, "supersede"), UNCHANGED job, OwnedRows(own, rows'), ById(rows', j.id) = j.after
      PROVE  Owned(own)' /\ Turns(own)'
  <2>1. pc'[w] = "supersede" /\ job'[w] = j
    BY <1>4, JobOf DEF Goto
  <2>2. RowById(j.id)' = j.after
    <3>1. \A id : RowById(id)' = ById(rows', id)
      BY RowByIdIsById
    <3> QED BY <1>4, <3>1
  <2>3. OwnRow(own, j.id, j.before)
    BY <1>1 DEF Turn
  <2>4. Turn(own, pc[w], job[w])'
    BY <1>1, <1>4, <2>1, <2>2, <2>3 DEF Turn
  <2>5. Owned(own)'
    BY <1>1, <1>4 DEF Owned, OwnRow
  <2> QED BY <2>4, <2>5, IdleTurn
<1>5. CASE j.after # NoRow /\ Goto(w, "supersede") /\ UNCHANGED job
  <2> DEFINE t == j.after.target
             row == j.after
  <2>1. row \in Row /\ t \in Targets /\ own[row.id] = t /\ row.id = j.id
    BY <1>2, <1>5, JobOf, RowFields DEF OwnRow, MaybeRow
  <2>2. rows' = [rows EXCEPT ![t] = row]
    <3>1. ~Finish(w)
      BY <1>5, JobOf DEF Finish, Goto
    <3> QED BY <1>5, <3>1 DEF Restore
  <2>3. rows'[t] = row /\ \A u \in Targets \ {t} : rows'[u] = rows[u]
    BY <2>1, <2>2 DEF TInv, StoreTypes
  <2>4. OwnedRows(own, rows')
    BY <2>1, <2>3 DEF Owned, OwnedRows
  <2>5. ById(rows', row.id) = row
    BY <1>5, <2>1, <2>3, <2>4, ByIdFinds
  <2> QED BY <1>4, <1>5, <2>1, <2>4, <2>5
<1>6. CASE j.after = NoRow
  <2>1. Goto(w, "supersede") /\ UNCHANGED job
    BY <1>6 DEF Restore
  <2>2. rows' = [t \in Targets |-> IF Present(t) /\ rows[t].id = j.id THEN NoRow ELSE rows[t]]
    BY <1>6 DEF Restore
  <2> HIDE DEF j
  <2>3. \A t \in Targets : rows'[t] # NoRow => rows'[t] = rows[t] /\ rows[t].id # j.id
    BY <2>2 DEF Present
  <2>4. OwnedRows(own, rows')
    BY <2>3 DEF Owned, OwnedRows
  <2>5. ById(rows', j.id) = NoRow
    BY <2>3, ByIdCases
  <2> QED BY <1>4, <1>6, <2>1, <2>4, <2>5
<1> QED BY <1>3, <1>5, <1>6 DEF Restore

LEMMA Superseded ==
  ASSUME TInv, HistoryInv, NEW w \in Writers, Supersede(w)
  PROVE  /\ job[w].op = "rollback" /\ job[w].version \in DOMAIN versions
         /\ versions[job[w].version].ctx = job[w].id
         /\ DOMAIN versions' = DOMAIN versions
         /\ \A v \in DOMAIN versions :
              /\ versions'[v].ctx = versions[v].ctx /\ versions'[v].before = versions[v].before
              /\ versions'[v].after = versions[v].after /\ versions'[v].at = versions[v].at
              /\ v # job[w].version => versions'[v] = versions[v]
<1> DEFINE u == job[w].version
           e == [versions[u] EXCEPT !.status = "superseded"]
<1>1. job[w].op = "rollback" /\ u \in DOMAIN versions /\ versions[u].ctx = job[w].id
  BY DEF Supersede, HistoryInv, JobsKnowTheirVersions, KnowsItsVersion
<1>2. versions[u] \in VersionType
  BY <1>1 DEF TInv, StoreTypes
<1>3. /\ e.ctx = versions[u].ctx /\ e.before = versions[u].before /\ e.after = versions[u].after
      /\ e.at = versions[u].at
  BY <1>2 DEF VersionType
<1>4. versions' = [versions EXCEPT ![u] = e]
  BY DEF Supersede
<1> HIDE DEF u, e
<1>5. DOMAIN versions' = DOMAIN versions /\ versions'[u] = e /\ \A v \in DOMAIN versions \ {u} : versions'[v] = versions[v]
  BY <1>1, <1>4
<1>6. ASSUME NEW v \in DOMAIN versions
      PROVE  /\ versions'[v].ctx = versions[v].ctx /\ versions'[v].before = versions[v].before
             /\ versions'[v].after = versions[v].after /\ versions'[v].at = versions[v].at
             /\ v # u => versions'[v] = versions[v]
  <2>1. CASE v = u
    BY <1>3, <1>5, <2>1
  <2>2. CASE v # u
    BY <1>5, <2>2
  <2> QED BY <2>1, <2>2
<1> QED BY <1>1, <1>5, <1>6 DEF u

LEMMA RollbackSupersedesOwned ==
  ASSUME NEW own, NEW w \in Writers, Before(own, w), Supersede(w)
  PROVE  Owned(own)' /\ Turns(own)'
<1> USE DEF Before
<1>1. Owned(own)'
  <2>1. rows' = rows
    BY DEF Supersede
  <2> QED BY <2>1, Superseded DEF Owned, OwnRow
<1>2. Turn(own, "supersede", job[w]) /\ pc'[w] = "record" /\ job' = job /\ rows' = rows
  BY JobOf DEF Supersede, Turns, Goto
<1>3. \A id : RowById(id)' = RowById(id)
  BY <1>2 DEF RowById, Present
<1>4. Turn(own, pc[w], job[w])'
  BY <1>2, <1>3, Superseded DEF Turn
<1> QED BY <1>1, <1>4, IdleTurn

LEMMA FaultOwned ==
  ASSUME NEW own, NEW w \in Writers, Before(own, w), Fault(w)
  PROVE  Owned(own)' /\ Turns(own)'
<1> USE DEF Before
<1>1. pc'[w] = "idle" /\ job'[w] = NoJob /\ rows' = rows /\ versions' = versions
  BY JobOf DEF Fault, Finish, Goto, store
<1>2. Turn(own, pc[w], job[w])'
  BY <1>1 DEF Turn, NoJob
<1> QED BY <1>1, <1>2, Unowned, IdleTurn

LEMMA WorksOwned ==
  ASSUME TInv, HistoryInv, Drawn, Alone, Alone', Ownership, NEW w \in Writers, Works(w)
  PROVE  Ownership'
<1>1. PICK own : Owned(own) /\ Turns(own)
  BY DEF Ownership, Turns
<1>2. Before(own, w)
  BY <1>1, OthersIdle DEF Before, Rest
<1>3. \E o : Owned(o)' /\ Turns(o)'
  BY <1>2, SaveBeginsOwned, SaveUpsertsOwned, SaveReadsAfterOwned, SaveRecordsOwned, RollbackBeginsOwned,
     RollbackReadsOwned, RollbackRestoresOwned, RollbackSupersedesOwned, RollbackRecordsOwned, FaultOwned
     DEF Works
<1> QED BY <1>3 DEF Ownership, Turns

-----------------------------------------------------------------------------
(* Ids and times are drawn upwards.                                        *)

LEMMA StillBelow ==
  ASSUME NEW i \in Nat, NEW first \in Nat, NEW m \in Nat, NEW n \in Nat, m <= n, i <= first + m
  PROVE  i <= first + n
OBVIOUS

LEMMA StaysDrawn ==
  ASSUME NEW own, NEW w \in Writers, Before(own, w),
         changes' \in {changes, changes + 1}, job'[w].id <= FirstRoomId + changes',
         \A t \in Targets : rows'[t] # NoRow =>
           (rows[t] # NoRow /\ rows'[t].id = rows[t].id) \/ rows'[t].id <= FirstRoomId + changes',
         \A v \in DOMAIN versions' :
           (v \in DOMAIN versions /\ versions'[v].ctx = versions[v].ctx) \/
             versions'[v].ctx <= FirstRoomId + changes'
  PROVE  Drawn'
<1> USE DEF Before
<1>1. changes \in Nat /\ changes' \in Nat /\ changes <= changes' /\ FirstRoomId \in Nat
  BY ConstantsAssumption DEF TInv, CutTypes, FirstRoomId
<1>2. ASSUME NEW i \in Nat, i <= FirstRoomId + changes PROVE i <= FirstRoomId + changes'
  BY <1>1, <1>2, StillBelow
<1>3. ASSUME NEW t \in Targets, rows'[t] # NoRow PROVE rows'[t].id <= FirstRoomId + changes'
  <2>1. CASE rows[t] # NoRow /\ rows'[t].id = rows[t].id
    <3>1. rows[t].id \in Nat
      BY <2>1, RowFields, IdsAre DEF TInv, StoreTypes, MaybeRow
    <3>2. rows[t].id <= FirstRoomId + changes
      BY <2>1 DEF Drawn, Present
    <3> QED BY <1>2, <2>1, <3>1, <3>2
  <2> QED BY <1>3, <2>1
<1>4. ASSUME NEW v \in DOMAIN versions' PROVE versions'[v].ctx <= FirstRoomId + changes'
  <2>1. CASE v \in DOMAIN versions /\ versions'[v].ctx = versions[v].ctx
    <3>1. versions[v] \in VersionType
      BY <2>1 DEF TInv, StoreTypes
    <3>2. versions[v].ctx \in Nat
      BY <3>1, IdsAre DEF VersionType
    <3>3. versions[v].ctx <= FirstRoomId + changes
      BY <2>1 DEF Drawn
    <3> QED BY <1>2, <2>1, <3>2, <3>3
  <2> QED BY <2>1
<1>5. ASSUME NEW x \in Writers PROVE job'[x].id <= FirstRoomId + changes'
  <2>1. CASE x # w
    <3>1. job'[x].id = 0
      BY <2>1 DEF Rest, NoJob
    <3> QED BY <1>1, <3>1
  <2> QED BY <2>1
<1> QED BY <1>3, <1>4, <1>5 DEF Drawn, Present

LEMMA WorksDrawn ==
  ASSUME NEW own, NEW w \in Writers, Before(own, w), Works(w)
  PROVE  Drawn'
<1> USE DEF Before
<1>1. /\ changes \in Nat /\ FirstRoomId \in Nat /\ NoJob.id = 0
      /\ job[w] \in JobType /\ DOMAIN job = Writers /\ DOMAIN rows = Targets
      /\ job[w].id <= FirstRoomId + changes
  BY ConstantsAssumption, JobOf DEF TInv, CutTypes, StoreTypes, FirstRoomId, Drawn, NoJob
<1>2. ASSUME NEW v \in DOMAIN versions
      PROVE  versions[v].ctx <= FirstRoomId + changes /\ versions[v].ctx \in Nat
  <2>1. versions[v] \in VersionType
    BY DEF TInv, StoreTypes
  <2> QED BY <2>1, IdsAre DEF VersionType, Drawn
<1>3. CASE BeginSave(w)
  <2>1. PICK t \in Targets, p \in Profiles : \E id \in KnownIds(t) \cup {FreshId} :
          job' = [job EXCEPT ![w] =
                    [NoJob EXCEPT !.op = "save", !.id = id, !.target = t, !.profile = p,
                       !.before = IF RowById(id) # NoRow THEN RowById(id) ELSE rows[t]]]
    BY <1>3 DEF BeginSave
  <2>2. PICK id \in KnownIds(t) \cup {FreshId} :
          job' = [job EXCEPT ![w] =
                    [NoJob EXCEPT !.op = "save", !.id = id, !.target = t, !.profile = p,
                       !.before = IF RowById(id) # NoRow THEN RowById(id) ELSE rows[t]]]
    BY <2>1
  <2>3. job'[w].id = id /\ changes' = changes + 1 /\ rows' = rows /\ versions' = versions
    BY <1>1, <1>3, <2>2 DEF BeginSave, store, NoJob
  <2>4. id <= FirstRoomId + changes'
    <3>1. CASE id = FreshId
      BY <1>1, <2>3, <3>1 DEF FreshId
    <3>2. CASE id \in KnownIds(t)
      <4>1. PICK v \in DOMAIN versions : id = versions[v].ctx
        BY <3>2 DEF KnownIds
      <4> QED BY <1>1, <1>2, <2>3, <4>1
    <3> QED BY <3>1, <3>2
  <2> QED BY <2>3, <2>4, StaysDrawn
<1>4. CASE BeginRollback(w)
  <2>1. PICK v \in DOMAIN versions :
          job' = [job EXCEPT ![w] = [NoJob EXCEPT !.op = "rollback", !.version = v,
                                       !.id = versions[v].ctx, !.after = versions[v].before]]
    BY <1>4 DEF BeginRollback
  <2>2. job'[w].id = versions[v].ctx /\ changes' = changes + 1 /\ rows' = rows /\ versions' = versions
    BY <1>1, <1>4, <2>1 DEF BeginRollback, store, NoJob
  <2>3. job'[w].id <= FirstRoomId + changes'
    BY <1>1, <1>2, <2>2
  <2> QED BY <2>2, <2>3, StaysDrawn
<1>5. CASE Upsert(w)
  <2> DEFINE t == job[w].target
             row == Upserted(t, job[w].id, job[w].profile)
  <2>1. (Present(t) /\ row.id = rows[t].id) \/ row.id <= FirstRoomId + changes
    <3>1. CASE Present(t)
      <4>1. rows[t] \in Row
        BY <1>5, <3>1, JobOf DEF Upsert, HistoryInv, JobsKnowTheirVersions, KnowsItsVersion, Present,
          TInv, StoreTypes, MaybeRow
      <4> HIDE DEF t
      <4> QED BY <3>1, <4>1 DEF Upserted, Row
    <3>2. CASE ~Present(t)
      BY <1>1, <3>2 DEF Upserted
    <3> QED BY <3>1, <3>2
  <2> HIDE DEF row
  <2>2. rows' = [rows EXCEPT ![t] = row] /\ versions' = versions /\ job' = job /\ changes' = changes
    BY <1>5 DEF Upsert, row
  <2>3. \A u \in Targets : rows'[u] # NoRow =>
          (rows[u] # NoRow /\ rows'[u].id = rows[u].id) \/ rows'[u].id <= FirstRoomId + changes'
    BY <1>1, <2>1, <2>2 DEF Present
  <2>4. job'[w].id <= FirstRoomId + changes' /\ changes' \in {changes, changes + 1}
    BY <1>1, <2>2
  <2>5. \A v \in DOMAIN versions' : v \in DOMAIN versions /\ versions'[v].ctx = versions[v].ctx
    BY <2>2
  <2> QED BY <2>3, <2>4, <2>5, StaysDrawn
<1>6. CASE ReadAfter(w)
  <2> DEFINE row == rows[job[w].target]
             id == IF row = NoRow THEN job[w].id ELSE row.id
             k == [job[w] EXCEPT !.after = row]
  <2>1. job' = [job EXCEPT ![w] = [k EXCEPT !.id = id]] /\ rows' = rows /\ versions' = versions
        /\ changes' = changes
    BY <1>1, <1>6 DEF ReadAfter, store
  <2>2. job[w].target \in Targets
    BY <1>6, JobOf DEF ReadAfter, HistoryInv, JobsKnowTheirVersions, KnowsItsVersion
  <2>3. id <= FirstRoomId + changes
    BY <1>1, <2>2 DEF Drawn, Present
  <2> HIDE DEF id
  <2>4. [k EXCEPT !.id = id].id = id
    BY <1>1 DEF JobType
  <2>5. job'[w].id = id
    BY <1>1, <2>1, <2>4
  <2> QED BY <2>1, <2>3, <2>5, StaysDrawn
<1>7. CASE ReadCurrent(w)
  <2> DEFINE row == RowById(job[w].id)
  <2>1. job' = [job EXCEPT ![w] = [job[w] EXCEPT !.before = row]] /\ rows' = rows /\ versions' = versions
        /\ changes' = changes
    BY <1>1, <1>7 DEF ReadCurrent, store
  <2> HIDE DEF row
  <2>2. [job[w] EXCEPT !.before = row].id = job[w].id
    BY <1>1 DEF JobType
  <2>3. job'[w].id = job[w].id
    BY <1>1, <2>1, <2>2
  <2> QED BY <1>1, <2>1, <2>3, StaysDrawn
<1>8. CASE Restore(w)
  <2>1. versions' = versions /\ changes' = changes /\ (job' = job \/ job' = [job EXCEPT ![w] = NoJob])
    BY <1>8 DEF Restore, Finish
  <2>2. job'[w].id <= FirstRoomId + changes'
    BY <1>1, <2>1
  <2>3. ASSUME NEW t \in Targets, rows'[t] # NoRow
        PROVE  (rows[t] # NoRow /\ rows'[t].id = rows[t].id) \/ rows'[t].id <= FirstRoomId + changes'
    <3>1. CASE rows'[t] = rows[t]
      BY <2>3, <3>1
    <3>2. CASE rows'[t] # rows[t]
      <4>1. job[w].after # NoRow /\ rows' = [rows EXCEPT ![job[w].after.target] = job[w].after]
        BY <1>8, <2>3, <3>2 DEF Restore
      <4>2. rows'[t] = job[w].after
        BY <1>1, <3>2, <4>1
      <4>3. job[w].after.id = job[w].id
        BY <1>8, <4>1 DEF Restore, HistoryInv, JobsKnowTheirVersions, KnowsItsVersion, Owned, OwnRow
      <4> QED BY <1>1, <2>1, <4>2, <4>3
    <3> QED BY <3>1, <3>2
  <2> QED BY <2>1, <2>2, <2>3, StaysDrawn
<1>9. CASE Supersede(w)
  <2>1. rows' = rows /\ job' = job /\ changes' = changes
    BY <1>9 DEF Supersede
  <2> QED BY <1>1, <1>9, <2>1, Superseded, StaysDrawn
<1>10. CASE Fault(w)
  <2>1. rows' = rows /\ versions' = versions /\ job'[w].id = 0 /\ changes' = changes
    BY <1>1, <1>10 DEF Fault, Finish, store
  <2>2. job'[w].id <= FirstRoomId + changes'
    BY <1>1, <2>1
  <2> QED BY <2>1, <2>2, StaysDrawn
<1>11. CASE RecordSave(w) \/ RecordRollback(w)
  <2>1. rows' = rows /\ job'[w].id = 0 /\ changes' = changes
    BY <1>1, <1>11 DEF RecordSave, RecordRollback, Finish
  <2>2. job'[w].id <= FirstRoomId + changes'
    BY <1>1, <2>1
  <2>3. PICK op, before, after : RecordVersion(op, job[w].id, before, after)
    BY <1>11 DEF RecordSave, RecordRollback
  <2>4. /\ \A v \in DOMAIN versions : versions'[v] = versions[v]
        /\ versions'[Len(versions) + 1].ctx = job[w].id
        /\ DOMAIN versions' = DOMAIN versions \cup {Len(versions) + 1}
    <3>1. Len(versions) \in Nat
      BY <2>3, Recorded
    <3>2. 1..Len(versions) + 1 = 1..Len(versions) \cup {Len(versions) + 1}
      BY <3>1
    <3> QED BY <2>3, <3>2, Recorded
  <2>5. \A v \in DOMAIN versions' :
          (v \in DOMAIN versions /\ versions'[v].ctx = versions[v].ctx) \/
            versions'[v].ctx <= FirstRoomId + changes'
    BY <1>1, <2>1, <2>4
  <2> QED BY <2>1, <2>2, <2>5, StaysDrawn
<1> QED BY <1>3, <1>4, <1>5, <1>6, <1>7, <1>8, <1>9, <1>10, <1>11 DEF Works

(* The versions are in the order of their times.                           *)
InOrder ==
  \A u, v \in DOMAIN versions :
    versions[u].at <= now /\ (u <= v => versions[u].at <= versions[v].at)

LEMMA RecordedInOrder ==
  ASSUME TInv, InOrder, NEW op, NEW ctx, NEW before, NEW after, RecordVersion(op, ctx, before, after)
  PROVE  InOrder'
<1> DEFINE at(v) == versions'[v].at
           last == Len(versions) + 1
<1>1. /\ now \in Nat /\ now' \in Nat /\ now <= now' /\ at(last) = now'
      /\ last \in Nat /\ DOMAIN versions = 1..last - 1 /\ DOMAIN versions' = 1..last
  BY Recorded DEF TInv, StoreTypes
<1>2. ASSUME NEW v \in DOMAIN versions PROVE at(v) \in Nat /\ at(v) = versions[v].at
  <2>1. versions[v] \in VersionType
    BY DEF TInv, StoreTypes
  <2> QED BY <2>1, Recorded DEF VersionType
<1>3. ASSUME NEW v \in 1..last - 1 PROVE at(v) \in Nat /\ at(v) <= now'
  <2>1. at(v) <= now
    BY <1>1, <1>2 DEF InOrder
  <2> HIDE DEF at, last
  <2> QED BY <1>1, <1>2, <2>1
<1>4. \A u, v \in 1..last - 1 : u <= v => at(u) <= at(v)
  BY <1>1, <1>2 DEF InOrder
<1> HIDE DEF at, last
<1>5. \A v \in 1..last : at(v) \in Nat /\ at(v) <= now'
  BY <1>1, <1>3
<1>6. \A u, v \in 1..last : u <= v => at(u) <= at(v)
  <2> SUFFICES ASSUME NEW u \in 1..last, NEW v \in 1..last, u <= v PROVE at(u) <= at(v)
    OBVIOUS
  <2>1. CASE v = last
    BY <1>1, <1>5, <2>1
  <2>2. CASE v # last
    BY <1>1, <1>4, <2>2
  <2> QED BY <2>1, <2>2
<1> QED BY <1>1, <1>5, <1>6 DEF InOrder, at

LEMMA WorksInOrder ==
  ASSUME TInv, HistoryInv, InOrder, NEW w \in Writers, Works(w)
  PROVE  InOrder'
<1>1. CASE RecordSave(w) \/ RecordRollback(w)
  BY <1>1, RecordedInOrder DEF RecordSave, RecordRollback
<1>2. CASE Supersede(w)
  <2>1. now' = now
    BY <1>2 DEF Supersede
  <2> QED BY <1>2, <2>1, Superseded DEF InOrder
<1>3. CASE ~RecordSave(w) /\ ~RecordRollback(w) /\ ~Supersede(w)
  <2>1. versions' = versions /\ now' = now
    BY <1>3 DEF Works, BeginSave, Upsert, ReadAfter, BeginRollback, ReadCurrent, Restore, Fault, store
  <2> QED BY <2>1 DEF InOrder
<1> QED BY <1>1, <1>2, <1>3

-----------------------------------------------------------------------------
(* The newest version of a context tells what its row says, unless a       *)
(* writer has changed the row and not recorded it yet.                     *)

Newest(m, ctx) ==
  /\ m \in DOMAIN versions /\ versions[m].ctx = ctx
  /\ \A v \in DOMAIN versions : versions[v].ctx = ctx => v <= m
Told(ctx) ==
  \A m \in DOMAIN versions :
    Newest(m, ctx) => versions[m].status = "approved" /\ versions[m].after = RowById(ctx)
CutsMadeGood(ctx) == \A c \in cut : c.ctx = ctx => MadeGood(c)
Described(ctx) == CutsMadeGood(ctx) => Told(ctx)
Busy(ctx) == \E w \in Writers : pc[w] \in {"after", "supersede", "record"} /\ Touched(job[w]) = ctx
Telling == \A ctx \in Ids : Described(ctx) \/ Busy(ctx)

LEMMA StaysDescribed ==
  ASSUME NEW ctx, Described(ctx), versions' = versions, cut \subseteq cut', RowById(ctx)' = RowById(ctx)
  PROVE  Described(ctx)'
<1>1. CutsMadeGood(ctx)' => CutsMadeGood(ctx)
  BY DEF CutsMadeGood, MadeGood
<1>2. Told(ctx) => Told(ctx)'
  BY DEF Told, Newest
<1> QED BY <1>1, <1>2 DEF Described

LEMMA OtherRecorded ==
  ASSUME TInv, NEW op, NEW ctx, NEW before, NEW after, RecordVersion(op, ctx, before, after),
         NEW x, x # ctx, Described(x), rows' = rows, cut' = cut
  PROVE  Described(x)'
<1>1. /\ DOMAIN versions' = DOMAIN versions \cup {Len(versions) + 1}
      /\ \A v \in DOMAIN versions : versions'[v] = versions[v]
      /\ versions'[Len(versions) + 1].ctx = ctx
  <2>1. Len(versions) \in Nat
    BY Recorded
  <2>2. 1..Len(versions) + 1 = 1..Len(versions) \cup {Len(versions) + 1}
    BY <2>1
  <2> QED BY <2>2, Recorded
<1>2. RowById(x)' = RowById(x)
  BY DEF RowById, Present
<1>3. \A v \in DOMAIN versions' : versions'[v].ctx = x => v \in DOMAIN versions
  BY <1>1
<1>4. CutsMadeGood(x)' => CutsMadeGood(x)
  <2> SUFFICES ASSUME CutsMadeGood(x)', NEW c \in cut, c.ctx = x PROVE MadeGood(c)
    BY DEF CutsMadeGood
  <2>1. PICK v \in DOMAIN versions' : v > c.recorded /\ versions'[v].ctx = x
    BY DEF CutsMadeGood, MadeGood
  <2> QED BY <1>1, <1>3, <2>1 DEF MadeGood
<1>5. Told(x) => Told(x)'
  <2> SUFFICES ASSUME Told(x), NEW m \in DOMAIN versions', Newest(m, x)'
               PROVE  versions'[m].status = "approved" /\ versions'[m].after = RowById(x)'
    BY DEF Told
  <2>1. m \in DOMAIN versions
    BY <1>3 DEF Newest
  <2>2. Newest(m, x)
    BY <1>1, <2>1 DEF Newest
  <2> QED BY <1>1, <1>2, <2>1, <2>2 DEF Told
<1> QED BY <1>4, <1>5 DEF Described

LEMMA RecordedTells ==
  ASSUME TInv, NEW op, NEW ctx, NEW before, RecordVersion(op, ctx, before, RowById(ctx)), rows' = rows
  PROVE  Told(ctx)'
<1> DEFINE row == RowById(ctx)
           last == Len(versions) + 1
<1>1. RowById(ctx)' = row
  BY DEF RowById, Present
<1>2. RecordVersion(op, ctx, before, row)
  OBVIOUS
<1> HIDE DEF row
<1>3. /\ last \in Nat /\ DOMAIN versions' = 1..last
      /\ versions'[last].ctx = ctx /\ versions'[last].status = "approved"
      /\ versions'[last].after = row
  BY <1>2, Recorded
<1>4. last \in DOMAIN versions'
  BY <1>3
<1> HIDE DEF last
<1>5. ASSUME NEW m \in DOMAIN versions', Newest(m, ctx)' PROVE m = last
  <2>1. last <= m
    BY <1>3, <1>4, <1>5 DEF Newest
  <2> QED BY <1>3, <2>1
<1> QED BY <1>1, <1>3, <1>5 DEF Told

LEMMA OthersSuperseded ==
  ASSUME TInv, HistoryInv, NEW w \in Writers, Supersede(w), NEW x, x # job[w].id, Described(x)
  PROVE  Described(x)'
<1>1. cut' = cut /\ rows' = rows
  BY DEF Supersede
<1>2. RowById(x)' = RowById(x)
  BY <1>1 DEF RowById, Present
<1>3. \A v \in DOMAIN versions : versions[v].ctx = x => versions'[v] = versions[v]
  BY Superseded
<1>4. DOMAIN versions' = DOMAIN versions /\ \A v \in DOMAIN versions : versions'[v].ctx = versions[v].ctx
  BY Superseded
<1>5. CutsMadeGood(x)' => CutsMadeGood(x)
  BY <1>1, <1>4 DEF CutsMadeGood, MadeGood
<1>6. Told(x) => Told(x)'
  <2> SUFFICES ASSUME Told(x), NEW m \in DOMAIN versions', Newest(m, x)'
               PROVE  versions'[m].status = "approved" /\ versions'[m].after = RowById(x)'
    BY DEF Told
  <2>1. m \in DOMAIN versions /\ Newest(m, x) /\ versions'[m] = versions[m]
    BY <1>3, <1>4 DEF Newest
  <2> QED BY <1>2, <2>1 DEF Told
<1> QED BY <1>5, <1>6 DEF Described

LEMMA CutIsOpen ==
  ASSUME TInv, NEW w \in Writers, Fault(w), NEW ctx, ctx = Touched(job[w])
  PROVE  Described(ctx)'
<1>1. PICK c \in cut' : c.ctx = ctx /\ c.recorded = Len(versions)
  <2> DEFINE d == [ctx |-> Touched(job[w]), version |-> job[w].version, recorded |-> Len(versions)]
  <2>1. d.ctx = ctx /\ d.recorded = Len(versions)
    OBVIOUS
  <2>2. d \in cut'
    BY DEF Fault
  <2> HIDE DEF d
  <2> QED BY <2>1, <2>2
<1>2. Len(versions) \in Nat /\ DOMAIN versions = 1..Len(versions) /\ versions' = versions
  BY DEF TInv, StoreTypes, Fault, store
<1>3. ~MadeGood(c)'
  BY <1>1, <1>2 DEF MadeGood
<1>4. ~CutsMadeGood(ctx)'
  BY <1>1, <1>3 DEF CutsMadeGood
<1> QED BY <1>4 DEF Described

(* The writer at work, with the others idle before and after its step.     *)
OnItsOwn(own, w) ==
  /\ Before(own, w)
  /\ \A x \in Writers \ {w} : pc[x] = "idle"

LEMMA BusyIs ==
  ASSUME NEW own, NEW w \in Writers, OnItsOwn(own, w), NEW ctx
  PROVE  /\ Busy(ctx) <=> pc[w] \in {"after", "supersede", "record"} /\ Touched(job[w]) = ctx
         /\ Busy(ctx)' <=> pc'[w] \in {"after", "supersede", "record"} /\ Touched(job[w])' = ctx
<1>1. \A x \in Writers : x # w => pc[x] = "idle" /\ pc'[x] = "idle"
  BY DEF OnItsOwn, Before, Rest
<1>2. Busy(ctx) <=> pc[w] \in {"after", "supersede", "record"} /\ Touched(job[w]) = ctx
  BY <1>1 DEF Busy
<1>3. Busy(ctx)' <=> pc'[w] \in {"after", "supersede", "record"} /\ Touched(job[w])' = ctx
  BY <1>1 DEF Busy
<1> QED BY <1>2, <1>3

(* A step that leaves what the history is about alone, by a writer that    *)
(* has not changed it.                                                     *)
LEMMA QuietlyTelling ==
  ASSUME NEW own, NEW w \in Writers, OnItsOwn(own, w), Telling,
         pc[w] \notin {"after", "supersede", "record"},
         rows' = rows, versions' = versions, cut' = cut
  PROVE  Telling'
<1> SUFFICES ASSUME NEW ctx \in Ids PROVE Described(ctx)'
  BY DEF Telling
<1>1. Described(ctx)
  BY BusyIs DEF Telling
<1>2. RowById(ctx)' = RowById(ctx)
  BY DEF RowById, Present
<1> QED BY <1>1, <1>2, StaysDescribed

(* A step that changes the row of one context and leaves the writer at it. *)
LEMMA BusilyTelling ==
  ASSUME NEW own, NEW w \in Writers, OnItsOwn(own, w), Telling,
         NEW o, OwnedRows(o, rows'), NEW busy, Touched(job[w])' = busy,
         pc'[w] \in {"after", "supersede", "record"},
         pc[w] \in {"after", "supersede", "record"} => Touched(job[w]) = busy,
         \A t \in Targets : rows'[t] # rows[t] =>
           (Present(t) => rows[t].id = busy) /\ (rows'[t] # NoRow => rows'[t].id = busy),
         \A x \in Ids : x # busy => (RowById(x)' = RowById(x) => (Described(x) => Described(x)'))
  PROVE  Telling'
<1> SUFFICES ASSUME NEW ctx \in Ids, ctx # busy PROVE Described(ctx)'
  BY BusyIs DEF Telling
<1>1. Described(ctx)
  BY BusyIs DEF Telling
<1>2. ById(rows', ctx) = ById(rows, ctx)
  BY ByIdSame DEF OnItsOwn, Before, Owned, Present
<1>3. RowById(ctx)' = RowById(ctx)
  BY <1>2, RowByIdIsById
<1> QED BY <1>1, <1>3

LEMMA SaveUpsertsTelling ==
  ASSUME NEW own, NEW w \in Writers, OnItsOwn(own, w), Telling, NEW o, Owned(o)', Turns(o)', Upsert(w)
  PROVE  Telling'
<1> USE DEF OnItsOwn, Before
<1> DEFINE t == job[w].target
           row == Upserted(t, job[w].id, job[w].profile)
<1>1. /\ job[w].op = "save" /\ t \in Targets /\ pc'[w] = "after" /\ pc[w] = "upsert" /\ job' = job
      /\ versions' = versions /\ cut' = cut /\ rows' = [rows EXCEPT ![t] = row]
  BY JobOf DEF Upsert, Goto, HistoryInv, JobsKnowTheirVersions, KnowsItsVersion
<1>2. rows'[t] # NoRow
  BY <1>1 DEF Turns, Turn, Present
<1>3. Present(t) => row.id = rows[t].id
  <2>1. CASE Present(t)
    <3>1. rows[t] \in Row
      BY <1>1, <2>1 DEF TInv, StoreTypes, MaybeRow, Present
    <3> HIDE DEF t
    <3> QED BY <2>1, <3>1 DEF Upserted, Row
  <2> QED BY <2>1
<1> HIDE DEF row
<1>4. rows'[t] = row /\ \A u \in Targets \ {t} : rows'[u] = rows[u]
  BY <1>1 DEF TInv, StoreTypes
<1>5. PICK busy : busy = row.id
  OBVIOUS
<1>6. Touched(job[w])' = busy
  BY <1>1, <1>2, <1>4, <1>5 DEF Touched, Present
<1>7. \A u \in Targets : rows'[u] # rows[u] =>
        (Present(u) => rows[u].id = busy) /\ (rows'[u] # NoRow => rows'[u].id = busy)
  BY <1>3, <1>4, <1>5
<1>8. OwnedRows(o, rows')
  BY DEF Owned
<1>9. \A x \in Ids : RowById(x)' = RowById(x) => (Described(x) => Described(x)')
  BY <1>1, StaysDescribed
<1> QED BY <1>1, <1>6, <1>7, <1>8, <1>9, BusilyTelling

LEMMA SaveReadsAfterTelling ==
  ASSUME NEW own, NEW w \in Writers, OnItsOwn(own, w), Telling, NEW o, Owned(o)', Turns(o)', ReadAfter(w)
  PROVE  Telling'
<1> USE DEF OnItsOwn, Before
<1> DEFINE t == job[w].target
           id == IF rows[t] = NoRow THEN job[w].id ELSE rows[t].id
           k == [job[w] EXCEPT !.after = rows[t]]
           j == [k EXCEPT !.id = id]
<1>1. /\ job[w].op = "save" /\ pc'[w] = "record" /\ pc[w] = "after" /\ job'[w] = j
      /\ versions' = versions /\ cut' = cut /\ rows' = rows
  BY JobOf DEF ReadAfter, Goto, store, HistoryInv, JobsKnowTheirVersions, KnowsItsVersion
<1>2. Present(t)
  BY <1>1 DEF Turns, Turn
<1>3. j.op = "save" /\ j.target = t
  <2>1. k.op = "save" /\ k.target = t
    BY <1>1, JobOf DEF JobType
  <2>2. DOMAIN k = {"op", "id", "target", "profile", "version", "before", "after"}
    BY JobOf DEF JobType
  <2> HIDE DEF k, id, t
  <2> QED BY <2>1, <2>2
<1>4. PICK busy : busy = rows[t].id
  OBVIOUS
<1> HIDE DEF j, t
<1>5. Touched(job[w])' = busy /\ Touched(job[w]) = busy
  BY <1>1, <1>2, <1>3, <1>4 DEF Touched, Present, t
<1>6. OwnedRows(o, rows')
  BY DEF Owned
<1>7. \A x \in Ids : RowById(x)' = RowById(x) => (Described(x) => Described(x)')
  BY <1>1, StaysDescribed
<1> QED BY <1>1, <1>5, <1>6, <1>7, BusilyTelling

LEMMA RollbackRestoresTelling ==
  ASSUME NEW own, NEW w \in Writers, OnItsOwn(own, w), Telling, NEW o, Owned(o)', Turns(o)', Restore(w)
  PROVE  Telling'
<1> USE DEF OnItsOwn, Before
<1>1. pc[w] = "restore" /\ versions' = versions /\ cut' = cut /\ job[w].op = "rollback"
  BY DEF Restore, HistoryInv, JobsKnowTheirVersions, KnowsItsVersion
<1>2. CASE UNCHANGED rows
  <2>1. pc[w] \notin {"after", "supersede", "record"}
    BY <1>1
  <2> QED BY <1>1, <1>2, <2>1, QuietlyTelling
<1>3. CASE rows' # rows
  <2>1. Goto(w, "supersede") /\ UNCHANGED job
    BY <1>3 DEF Restore
  <2>2. pc'[w] = "supersede" /\ job' = job
    BY <2>1, JobOf DEF Goto
  <2>3. PICK busy : busy = job[w].id
    OBVIOUS
  <2>4. Touched(job[w])' = busy
    BY <1>1, <2>2, <2>3 DEF Touched
  <2>5. OwnRow(own, job[w].id, job[w].after)
    BY <1>1 DEF Owned, HistoryInv, JobsKnowTheirVersions, KnowsItsVersion
  <2>6. \A t \in Targets : rows'[t] # rows[t] =>
          (Present(t) => rows[t].id = busy) /\ (rows'[t] # NoRow => rows'[t].id = busy)
    <3>1. CASE job[w].after # NoRow
      <4> DEFINE u == job[w].after.target
                 row == job[w].after
      <4>1. (Present(u) => rows[u].id = row.id) /\ rows' = [rows EXCEPT ![u] = row]
        BY <1>3, <3>1 DEF Restore
      <4>2. row.id = busy
        BY <2>3, <2>5, <3>1 DEF OwnRow
      <4> HIDE DEF u, row
      <4> QED BY <4>1, <4>2 DEF TInv, StoreTypes
    <3>2. CASE job[w].after = NoRow
      BY <2>3, <3>2 DEF Restore
    <3> QED BY <3>1, <3>2
  <2>7. OwnedRows(o, rows')
    BY DEF Owned
  <2>8. \A x \in Ids : RowById(x)' = RowById(x) => (Described(x) => Described(x)')
    BY <1>1, StaysDescribed
  <2>9. pc'[w] \in {"after", "supersede", "record"} /\ pc[w] \notin {"after", "supersede", "record"}
    BY <1>1, <2>2
  <2> QED BY <2>4, <2>6, <2>7, <2>8, <2>9, BusilyTelling
<1> QED BY <1>2, <1>3

LEMMA RollbackSupersedesTelling ==
  ASSUME NEW own, NEW w \in Writers, OnItsOwn(own, w), Telling, NEW o, Owned(o)', Turns(o)', Supersede(w)
  PROVE  Telling'
<1> USE DEF OnItsOwn, Before
<1>1. pc'[w] = "record" /\ pc[w] = "supersede" /\ rows' = rows /\ job' = job /\ job[w].op = "rollback"
  BY JobOf, Superseded DEF Supersede, Goto
<1>2. PICK busy : busy = job[w].id
  OBVIOUS
<1>3. Touched(job[w])' = busy /\ Touched(job[w]) = busy
  BY <1>1, <1>2 DEF Touched
<1>4. OwnedRows(o, rows')
  BY DEF Owned
<1>5. \A x \in Ids : x # busy => (RowById(x)' = RowById(x) => (Described(x) => Described(x)'))
  BY <1>2, OthersSuperseded
<1> QED BY <1>1, <1>3, <1>4, <1>5, BusilyTelling

LEMMA RecordsTelling ==
  ASSUME NEW own, NEW w \in Writers, OnItsOwn(own, w), Telling, RecordSave(w) \/ RecordRollback(w)
  PROVE  Telling'
<1> USE DEF OnItsOwn, Before
<1>1. pc[w] = "record" /\ pc'[w] = "idle" /\ rows' = rows /\ cut' = cut
  BY JobOf DEF RecordSave, RecordRollback, Finish, Goto
<1>2. PICK ctx, op, before :
        ctx = Touched(job[w]) /\ RecordVersion(op, ctx, before, RowById(ctx))
  <2>1. CASE RecordSave(w)
    <3>1. job[w].op = "save" /\ job[w].target \in Targets /\ Turn(own, "record", job[w])
      BY <2>1, JobOf DEF RecordSave, Turns
    <3>2. /\ Present(job[w].target) /\ job[w].id = rows[job[w].target].id
          /\ job[w].after = rows[job[w].target]
      BY <3>1 DEF Turn
    <3>3. ById(rows, job[w].id) = job[w].after
      BY <3>1, <3>2, ByIdFinds DEF Owned, Present
    <3>4. job[w].after = RowById(job[w].id) /\ Touched(job[w]) = job[w].id
      BY <3>1, <3>2, <3>3, RowByIdIsById DEF Touched
    <3>5. PICK op : RecordVersion(op, job[w].id, job[w].before, job[w].after)
      BY <2>1 DEF RecordSave
    <3> QED BY <3>4, <3>5
  <2>2. CASE RecordRollback(w)
    <3>1. job[w].op = "rollback" /\ Turn(own, "record", job[w])
      BY <2>2 DEF RecordRollback, Turns
    <3>2. RowById(job[w].id) = job[w].after /\ Touched(job[w]) = job[w].id
      BY <3>1 DEF Turn, Touched
    <3>3. RecordVersion("rollback", job[w].id, job[w].before, job[w].after)
      BY <2>2 DEF RecordRollback
    <3> QED BY <3>2, <3>3
  <2> QED BY <2>1, <2>2
<1> SUFFICES ASSUME NEW x \in Ids PROVE Described(x)'
  BY DEF Telling
<1>3. CASE x = ctx
  BY <1>1, <1>2, <1>3, RecordedTells DEF Described
<1>4. CASE x # ctx
  <2>1. Described(x)
    BY <1>2, <1>4, BusyIs DEF Telling
  <2>2. PICK after : RecordVersion(op, ctx, before, after)
    BY <1>2
  <2> QED BY <1>1, <1>4, <2>1, <2>2, OtherRecorded
<1> QED BY <1>3, <1>4

LEMMA FaultTelling ==
  ASSUME NEW own, NEW w \in Writers, OnItsOwn(own, w), Telling, Fault(w)
  PROVE  Telling'
<1> USE DEF OnItsOwn, Before
<1>1. rows' = rows /\ versions' = versions /\ cut \subseteq cut'
  BY DEF Fault, store
<1> SUFFICES ASSUME NEW x \in Ids PROVE Described(x)'
  BY DEF Telling
<1>2. CASE x = Touched(job[w])
  BY <1>2, CutIsOpen
<1>3. CASE x # Touched(job[w])
  <2>1. Described(x)
    BY <1>3, BusyIs DEF Telling
  <2>2. RowById(x)' = RowById(x)
    BY <1>1 DEF RowById, Present
  <2> QED BY <1>1, <2>1, <2>2, StaysDescribed
<1> QED BY <1>2, <1>3

LEMMA WorksTelling ==
  ASSUME NEW own, NEW w \in Writers, OnItsOwn(own, w), Telling, NEW o, Owned(o)', Turns(o)', Works(w)
  PROVE  Telling'
<1>1. CASE BeginSave(w) \/ BeginRollback(w) \/ ReadCurrent(w)
  <2>1. /\ pc[w] \notin {"after", "supersede", "record"}
        /\ rows' = rows /\ versions' = versions /\ cut' = cut
    BY <1>1 DEF BeginSave, BeginRollback, ReadCurrent, store
  <2> QED BY <2>1, QuietlyTelling
<1> QED
  BY <1>1, SaveUpsertsTelling, SaveReadsAfterTelling, RollbackRestoresTelling, RollbackSupersedesTelling,
     RecordsTelling, FaultTelling DEF Works

-----------------------------------------------------------------------------
(* Every row there is has a history, or a save of it was cut short or is   *)
(* about to record one.                                                    *)

Recounted(id) ==
  \/ \E v \in DOMAIN versions : versions[v].ctx = id
  \/ \E c \in cut : c.ctx = id
Covered == \A t \in Targets : Present(t) => Recounted(rows[t].id) \/ Busy(rows[t].id)

LEMMA StaysRecounted ==
  ASSUME TInv, HistoryInv, NEW w \in Writers, Works(w), NEW id, Recounted(id)
  PROVE  Recounted(id)'
<1>1. cut \subseteq cut'
  BY DEF Works, BeginSave, Upsert, ReadAfter, RecordSave, BeginRollback, ReadCurrent, Restore, Supersede,
    RecordRollback, Fault
<1>2. ASSUME NEW v \in DOMAIN versions PROVE v \in DOMAIN versions' /\ versions'[v].ctx = versions[v].ctx
  <2>1. CASE RecordSave(w) \/ RecordRollback(w)
    BY <2>1, Recorded DEF RecordSave, RecordRollback
  <2>2. CASE Supersede(w)
    BY <2>2, Superseded
  <2>3. CASE ~RecordSave(w) /\ ~RecordRollback(w) /\ ~Supersede(w)
    <3>1. versions' = versions
      BY <2>3 DEF Works, BeginSave, Upsert, ReadAfter, BeginRollback, ReadCurrent, Restore, Fault, store
    <3> QED BY <3>1
  <2> QED BY <2>1, <2>2, <2>3
<1> QED BY <1>1, <1>2 DEF Recounted

LEMMA WorksCovered ==
  ASSUME NEW own, NEW w \in Writers, OnItsOwn(own, w), Covered, NEW o, Owned(o)', Turns(o)', Works(w)
  PROVE  Covered'
<1> USE DEF OnItsOwn, Before
<1> SUFFICES ASSUME NEW t \in Targets, rows'[t] # NoRow, NEW id, id = rows'[t].id
             PROVE  Recounted(id)' \/ Busy(id)'
  BY DEF Covered, Present
<1>1. CASE Present(t) /\ rows[t].id = id
  <2>1. CASE Recounted(id)
    BY <2>1, StaysRecounted
  <2>2. CASE Busy(id)
    <3>1. pc[w] \in {"after", "supersede", "record"} /\ Touched(job[w]) = id
      BY <2>2, BusyIs
    <3>2. CASE ReadAfter(w)
      <4> DEFINE u == job[w].target
                 k == [job[w] EXCEPT !.after = rows[u]]
      <4>1. /\ job[w].op = "save" /\ pc'[w] = "record" /\ rows' = rows /\ Turn(own, "after", job[w])
        BY <3>2, JobOf DEF ReadAfter, Goto, store, HistoryInv, JobsKnowTheirVersions, KnowsItsVersion, Turns
      <4>2. Present(u)
        BY <4>1 DEF Turn
      <4>3. job'[w] = [k EXCEPT !.id = rows[u].id]
        BY <3>2, <4>2, JobOf DEF ReadAfter, Present
      <4>4. DOMAIN k = DOMAIN job[w] /\ k.op = "save" /\ k.target = u
        BY <4>1, JobOf DEF JobType
      <4>5. rows[u].id = id
        BY <3>1, <4>1, <4>2 DEF Touched
      <4>6. DOMAIN job[w] = {"op", "id", "target", "profile", "version", "before", "after"}
        BY JobOf DEF JobType
      <4> HIDE DEF u, k
      <4>7. job'[w].op = "save" /\ job'[w].target = u
        BY <4>3, <4>4, <4>6
      <4>8. Touched(job[w])' = id
        BY <4>1, <4>2, <4>5, <4>7 DEF Touched, Present
      <4> QED BY <4>1, <4>8, BusyIs
    <3>3. CASE RecordSave(w) \/ RecordRollback(w)
      <4>1. Touched(job[w]) = job[w].id
        BY <3>3 DEF RecordSave, RecordRollback, Turns, Turn, Touched
      <4>2. PICK op, before, after : RecordVersion(op, job[w].id, before, after)
        BY <3>3 DEF RecordSave, RecordRollback
      <4>3. Len(versions) + 1 \in DOMAIN versions' /\ versions'[Len(versions) + 1].ctx = id
        <5>1. Len(versions) \in Nat /\ DOMAIN versions' = 1..Len(versions) + 1
          BY <4>2, Recorded
        <5>2. versions'[Len(versions) + 1].ctx = job[w].id
          BY <4>2, Recorded
        <5> QED BY <3>1, <4>1, <5>1, <5>2
      <4> QED BY <4>3 DEF Recounted
    <3>4. CASE Supersede(w)
      <4>1. job[w].id = id
        BY <3>1, <3>4, Superseded DEF Touched
      <4>2. job[w].version \in DOMAIN versions' /\ versions'[job[w].version].ctx = id
        BY <3>4, <4>1, Superseded
      <4> QED BY <4>2 DEF Recounted
    <3>5. CASE Fault(w)
      <4> DEFINE c == [ctx |-> Touched(job[w]), version |-> job[w].version, recorded |-> Len(versions)]
      <4>1. c \in cut' /\ c.ctx = id
        BY <3>1, <3>5 DEF Fault
      <4> HIDE DEF c
      <4> QED BY <4>1 DEF Recounted
    <3> QED BY <3>1, <3>2, <3>3, <3>4, <3>5
         DEF Works, BeginSave, BeginRollback, Upsert, ReadCurrent, Restore
  <2> QED BY <1>1, <2>1, <2>2 DEF Covered
<1>2. CASE ~(Present(t) /\ rows[t].id = id)
  <2>1. rows'[t] # rows[t]
    BY <1>2 DEF Present
  <2>2. CASE Upsert(w)
    <3> DEFINE u == job[w].target
    <3>1. job[w].op = "save" /\ pc'[w] = "after" /\ job' = job /\ u \in Targets
      BY <2>2, JobOf DEF Upsert, Goto, HistoryInv, JobsKnowTheirVersions, KnowsItsVersion
    <3>2. t = u
      BY <2>1, <2>2, <3>1 DEF Upsert, TInv, StoreTypes
    <3>3. Touched(job[w])' = id
      BY <3>1, <3>2 DEF Touched, Present
    <3> QED BY <3>1, <3>3, BusyIs
  <2>3. CASE Restore(w)
    <3>1. job[w].after # NoRow /\ rows' = [rows EXCEPT ![job[w].after.target] = job[w].after]
      BY <2>1, <2>3 DEF Restore
    <3>2. rows'[t] = job[w].after
      BY <2>1, <3>1 DEF TInv, StoreTypes
    <3>3. job[w].after.id = job[w].id /\ job[w].version \in DOMAIN versions
          /\ versions[job[w].version].ctx = job[w].id
      BY <2>3, <3>1 DEF Restore, HistoryInv, JobsKnowTheirVersions, KnowsItsVersion, Owned, OwnRow
    <3>4. Recounted(id)
      BY <3>2, <3>3 DEF Recounted
    <3> QED BY <3>4, StaysRecounted
  <2> QED BY <2>1, <2>2, <2>3 DEF Works, BeginSave, ReadAfter, RecordSave, BeginRollback, ReadCurrent,
       Supersede, RecordRollback, Fault, store
<1> QED BY <1>1, <1>2

-----------------------------------------------------------------------------
(* What a resolve read is what the rows still say, when no writer began    *)
(* after it did and none was under way.                                    *)
Fresh ==
  resolver.pc # "idle" =>
    \/ resolver.since = MaxChanges + 1
    \/ /\ resolver.since <= changes
       /\ resolver.since = changes =>
            /\ Idle
            /\ \A i \in DOMAIN resolver.contexts :
                 \E t \in Targets : Present(t) /\ resolver.contexts[i] = rows[t]

LEMMA WorksFresh ==
  ASSUME NEW own, NEW w \in Writers, OnItsOwn(own, w), Fresh, Works(w)
  PROVE  Fresh'
<1> USE DEF OnItsOwn, Before
<1>1. resolver' = resolver /\ resolver.since \in Nat /\ changes \in Nat
  <2>1. resolver' = resolver
    BY DEF Works, BeginSave, Upsert, ReadAfter, RecordSave, BeginRollback, ReadCurrent, Restore, Supersede,
      RecordRollback, Fault, drafts
  <2> QED BY <2>1, ConstantsAssumption DEF TInv, AgentTypes, CutTypes
<1>2. CASE BeginSave(w) \/ BeginRollback(w)
  <2>1. changes' = changes + 1
    BY <1>2 DEF BeginSave, BeginRollback
  <2>2. resolver.since <= changes => resolver.since <= changes' /\ resolver.since # changes'
    BY <1>1, <2>1
  <2> QED BY <1>1, <2>2 DEF Fresh
<1>3. CASE ~BeginSave(w) /\ ~BeginRollback(w)
  <2>1. pc[w] # "idle" /\ changes' = changes
    BY <1>3 DEF Works, Upsert, ReadAfter, RecordSave, ReadCurrent, Restore, Supersede, RecordRollback, Fault
  <2>2. ~Idle
    BY <2>1 DEF Idle
  <2> QED BY <1>1, <2>1, <2>2 DEF Fresh
<1> QED BY <1>2, <1>3

(* The steps that are not a writer's.                                      *)
Reads ==
  SaveSettings \/ ResolveContacts \/ ResolveRoom \/ ResolveSignature \/ StampDraft
    \/ WriteBareDraft \/ Approve \/ UNCHANGED vars

LEMMA ReadsFresh == ASSUME TInv, Fresh, Reads PROVE Fresh'
<1>1. changes \in Nat /\ resolver.since \in Nat /\ changes <= MaxChanges /\ MaxChanges \in Nat
  BY ConstantsAssumption DEF TInv, AgentTypes, CutTypes
<1>2. rows' = rows /\ pc' = pc
  BY DEF Reads, SaveSettings, ResolveContacts, ResolveRoom, ResolveSignature, StampDraft, WriteBareDraft,
    Approve, vars, store, writers
<1>3. CASE SaveSettings
  <2>1. changes' = changes + 1 /\ resolver' = resolver
    BY <1>3 DEF SaveSettings, drafts
  <2>2. resolver.since <= changes => resolver.since <= changes' /\ resolver.since # changes'
    BY <1>1, <2>1
  <2> QED BY <2>1, <2>2 DEF Fresh
<1>4. CASE ResolveContacts
  <2> DEFINE contexts == Contexts(1, NumContacts)
             since == IF Idle THEN changes ELSE MaxChanges + 1
  <2>1. resolver' = [pc |-> "room", contexts |-> contexts, signature |-> <<>>, since |-> since]
        /\ changes' = changes
    BY <1>4 DEF ResolveContacts, writers
  <2>2. \A i \in DOMAIN contexts : \E t \in 1..NumContacts : Present(t) /\ contexts[i] = rows[t]
    BY ContextsTyped, ConstantsAssumption DEF TInv, Room
  <2>3. 1..NumContacts \subseteq Targets
    BY ConstantsAssumption DEF Targets
  <2> HIDE DEF contexts
  <2>4. \A i \in DOMAIN contexts : \E t \in Targets : Present(t)' /\ contexts[i] = rows'[t]
    BY <1>2, <2>2, <2>3 DEF Present
  <2>5. Idle' <=> Idle
    BY <1>2 DEF Idle
  <2>6. since = MaxChanges + 1 \/ (Idle /\ since = changes)
    OBVIOUS
  <2> HIDE DEF since
  <2>7. resolver'.since = since /\ resolver'.contexts = contexts
    BY <2>1
  <2> QED BY <1>1, <2>1, <2>4, <2>5, <2>6, <2>7 DEF Fresh
<1>5. CASE ResolveRoom
  <2> DEFINE room == Contexts(Room, Room)
             contexts == resolver.contexts \o room
  <2>1. /\ room \in Seq(Row)
        /\ \A i \in DOMAIN room : \E t \in Room..Room : Present(t) /\ room[i] = rows[t]
    <3>1. Room \in Nat /\ Room >= 1 /\ Room <= Room
      BY ConstantsAssumption DEF Room
    <3> QED BY <3>1, ContextsTyped DEF TInv
  <2>2. Room..Room \subseteq Targets
    BY ConstantsAssumption DEF Targets, Room
  <2>3. resolver.contexts \in Seq(Row)
    BY DEF TInv, AgentTypes
  <2> HIDE DEF room
  <2>4. \A i \in DOMAIN contexts :
          (i \in DOMAIN resolver.contexts /\ contexts[i] = resolver.contexts[i])
            \/ contexts[i] \in {room[k] : k \in DOMAIN room}
    BY <2>1, <2>3, Concatenated
  <2>5. resolver' = [resolver EXCEPT !.pc = "signature", !.contexts = contexts] /\ changes' = changes
    BY <1>5 DEF ResolveRoom, writers, room, TInv, AgentTypes
  <2> HIDE DEF contexts
  <2>6. resolver'.contexts = contexts /\ resolver'.since = resolver.since
    BY <2>5 DEF TInv, AgentTypes
  <2>7. (\A i \in DOMAIN resolver.contexts :
           \E t \in Targets : Present(t) /\ resolver.contexts[i] = rows[t]) =>
        \A i \in DOMAIN contexts : \E t \in Targets : Present(t)' /\ contexts[i] = rows'[t]
    BY <1>2, <2>1, <2>2, <2>4 DEF Present
  <2>8. Idle' <=> Idle
    BY <1>2 DEF Idle
  <2>9. resolver.pc # "idle"
    BY <1>5 DEF ResolveRoom
  <2> QED BY <2>5, <2>6, <2>7, <2>8, <2>9 DEF Fresh
<1>6. CASE ResolveSignature \/ Approve \/ UNCHANGED vars
  <2>1. /\ resolver'.since = resolver.since /\ resolver'.contexts = resolver.contexts /\ changes' = changes
        /\ resolver'.pc # "idle" => resolver.pc # "idle"
    BY <1>6 DEF ResolveSignature, Approve, vars, writers, TInv, AgentTypes
  <2> QED BY <1>2, <2>1 DEF Fresh, Idle, Present
<1>7. CASE StampDraft \/ WriteBareDraft
  <2>1. resolver'.pc = "idle"
    BY <1>7 DEF StampDraft, WriteBareDraft, Unresolved
  <2> QED BY <2>1 DEF Fresh
<1> QED BY <1>3, <1>4, <1>5, <1>6, <1>7 DEF Reads

-----------------------------------------------------------------------------
(* The start: contexts saved once, and the room perhaps saved and rolled   *)
(* back before.                                                            *)

Saved(v) ==
  /\ versions[v].status = "approved" /\ versions[v].before = NoRow
  /\ versions[v].ctx \in Targets /\ Present(versions[v].ctx)
  /\ versions[v].after = rows[versions[v].ctx]
Undone(v) ==
  /\ versions[v].ctx = FirstRoomId
  /\ \A row \in {versions[v].before, versions[v].after} \ {NoRow} : row.id = FirstRoomId /\ row.target = Room
  /\ \/ v = 1 /\ 2 \in DOMAIN versions /\ versions[2].ctx = FirstRoomId
     \/ v = 2 /\ versions[2].status = "approved" /\ versions[2].after = NoRow
FirstHistory ==
  /\ \A v \in DOMAIN versions : versions[v].at = 0 /\ (Saved(v) \/ Undone(v))
  /\ \A t \in Targets : Present(t) =>
       /\ rows[t].id = t /\ rows[t].target = t
       /\ \E v \in DOMAIN versions : versions[v].ctx = t

LEMMA VersionFields ==
  ASSUME NEW op, NEW ctx, NEW before, NEW after, NEW status
  PROVE  /\ Version(op, ctx, before, after, status).at = 0
         /\ Version(op, ctx, before, after, status).status = status
         /\ Version(op, ctx, before, after, status).ctx = ctx
         /\ Version(op, ctx, before, after, status).before = before
         /\ Version(op, ctx, before, after, status).after = after
BY DEF Version

LEMMA InitFirstHistory == Init => FirstHistory
<1> SUFFICES ASSUME Init PROVE FirstHistory
  OBVIOUS
<1>1. PICK present \in SUBSET Targets, profile \in [Targets -> Profiles], resaved \in BOOLEAN :
        /\ resaved => Room \in present
        /\ rows = [t \in Targets |->
                     IF t \in present THEN [id |-> t, target |-> t, profile |-> profile[t]] ELSE NoRow]
        /\ versions = (IF resaved THEN RoomHistory([rows[Room] EXCEPT !.id = FirstRoomId]) ELSE <<>>) \o
                      [i \in 1..Cardinality(present) |->
                         LET t == Nth(present, i) IN Version("create", t, NoRow, rows[t], "approved")]
  BY DEF Init
<1>2. ASSUME NEW t \in present
      PROVE t \in Targets /\ Present(t) /\ rows[t] \in Row /\ rows[t].id = t /\ rows[t].target = t
  <2>1. rows[t] = [id |-> t, target |-> t, profile |-> profile[t]] /\ t \in Targets
    BY <1>1
  <2>2. rows[t] \in Row /\ rows[t].id = t /\ rows[t].target = t
    BY <2>1, IdsAre DEF Row
  <2> QED BY <2>1, <2>2, SentinelAssumption DEF Present
<1>3. \A t \in Targets : Present(t) => t \in present
  BY <1>1 DEF Present
<1> DEFINE old == [rows[Room] EXCEPT !.id = FirstRoomId]
           past == IF resaved THEN RoomHistory(old) ELSE <<>>
           saved(t) == Version("create", t, NoRow, rows[t], "approved")
           first == [i \in 1..Cardinality(present) |-> saved(Nth(present, i))]
           S == {saved(Nth(present, i)) : i \in 1..Cardinality(present)} \cup {past[1], past[2]}
<1>4. present \in SUBSET Nat /\ IsFiniteSet(present) /\ Cardinality(present) \in Nat
  <2>1. IsFiniteSet(Targets)
    BY ConstantsAssumption, FS_Interval DEF Targets
  <2> QED BY <2>1, IdsAre, FS_Subset, FS_CardinalityType
<1>5. versions = past \o first
  BY <1>1
<1>6. /\ past \in Seq(S)
      /\ \A v \in DOMAIN past :
           /\ past[v].at = 0 /\ past[v].ctx = FirstRoomId
           /\ \A row \in {past[v].before, past[v].after} \ {NoRow} : row.id = FirstRoomId /\ row.target = Room
           /\ \/ v = 1 /\ 2 \in DOMAIN past
              \/ v = 2 /\ past[2].status = "approved" /\ past[2].after = NoRow
  <2>1. CASE resaved
    <3>1. old.id = FirstRoomId /\ old.target = Room
      <4>1. rows[Room] \in Row /\ rows[Room].target = Room
        BY <1>1, <1>2, <2>1
      <4> QED BY <4>1 DEF Row
    <3> DEFINE a == Version("create", FirstRoomId, NoRow, old, "superseded")
               b == Version("rollback", FirstRoomId, old, NoRow, "approved")
    <3>2. past = <<a, b>>
      BY <2>1 DEF RoomHistory
    <3> HIDE DEF old
    <3>3. /\ a.at = 0 /\ a.ctx = FirstRoomId /\ a.before = NoRow /\ a.after = old
          /\ b.at = 0 /\ b.ctx = FirstRoomId /\ b.before = old /\ b.after = NoRow /\ b.status = "approved"
      BY VersionFields
    <3> HIDE DEF a, b, past
    <3>4. DOMAIN past = {1, 2} /\ past[1] = a /\ past[2] = b
      BY <3>2
    <3>5. past \in Seq(S)
      BY <3>2, <3>4
    <3> QED BY <3>1, <3>3, <3>4, <3>5
  <2>2. CASE ~resaved
    <3>1. past = <<>>
      BY <2>2
    <3> HIDE DEF past
    <3> QED BY <3>1
  <2> QED BY <2>1, <2>2
<1>7. first \in Seq(S) /\ DOMAIN first = 1..Cardinality(present)
  <2>1. first \in [1..Cardinality(present) -> S]
    OBVIOUS
  <2> HIDE DEF first, S
  <2> QED BY <1>4, <2>1, FirstVersions
<1>8. ASSUME NEW i \in DOMAIN first PROVE \E t \in present : first[i] = saved(t)
  <2>1. Nth(present, i) \in present
    BY <1>4, <1>7, NthIs
  <2> QED BY <1>7, <2>1
<1>9. ASSUME NEW t \in present PROVE \E i \in DOMAIN first : first[i] = saved(t)
  <2>1. PICK i \in 1..Cardinality(present) : Nth(present, i) = t
    BY <1>4, NthReaches
  <2> QED BY <1>7, <2>1
<1>10. \A t \in present :
         /\ saved(t).at = 0 /\ saved(t).status = "approved" /\ saved(t).ctx = t
         /\ saved(t).before = NoRow /\ saved(t).after = rows[t]
  BY VersionFields
<1> HIDE DEF past, first, saved, S
<1>11. /\ \A v \in DOMAIN past : v \in DOMAIN versions /\ versions[v] = past[v]
       /\ \A v \in DOMAIN versions : v \in DOMAIN past \/ versions[v] \in {first[i] : i \in DOMAIN first}
       /\ \A i \in DOMAIN first : \E v \in DOMAIN versions : versions[v] = first[i]
  <2> DEFINE all == past \o first
  <2>1. /\ \A v \in DOMAIN past : v \in DOMAIN all /\ all[v] = past[v]
        /\ \A v \in DOMAIN all : v \in DOMAIN past \/ all[v] \in {first[i] : i \in DOMAIN first}
        /\ \A i \in DOMAIN first : \E v \in DOMAIN all : all[v] = first[i]
    <3>1. past \in Seq(S) /\ first \in Seq(S)
      BY <1>6, <1>7
    <3>2. \A v \in DOMAIN past : v \in DOMAIN all /\ all[v] = past[v]
      BY <3>1, Concatenated
    <3>3. \A v \in DOMAIN all : v \in DOMAIN past \/ all[v] \in {first[i] : i \in DOMAIN first}
      BY <3>1, Concatenated
    <3>4. \A i \in DOMAIN first : \E v \in DOMAIN all : all[v] = first[i]
      BY <3>1, Concatenated
    <3> QED BY <3>2, <3>3, <3>4
  <2> QED BY <1>5, <2>1
<1>12. ASSUME NEW v \in DOMAIN versions PROVE versions[v].at = 0 /\ (Saved(v) \/ Undone(v))
  <2>1. CASE v \in DOMAIN past
    BY <1>6, <1>11, <2>1 DEF Undone
  <2>2. CASE v \notin DOMAIN past
    <3>1. PICK t \in present : versions[v] = saved(t)
      BY <1>8, <1>11, <2>2
    <3> QED BY <1>2, <1>10, <3>1 DEF Saved
  <2> QED BY <2>1, <2>2
<1>13. ASSUME NEW t \in Targets, Present(t)
       PROVE  /\ rows[t].id = t /\ rows[t].target = t
              /\ \E v \in DOMAIN versions : versions[v].ctx = t
  <2>1. t \in present
    BY <1>3, <1>13
  <2>2. PICK i \in DOMAIN first : first[i] = saved(t)
    BY <1>9, <2>1
  <2>3. PICK v \in DOMAIN versions : versions[v] = saved(t)
    BY <1>11, <2>2
  <2> QED BY <1>2, <1>10, <2>1, <2>3
<1> QED BY <1>12, <1>13 DEF FirstHistory

LEMMA InitOwned == Init => Ownership
<1> SUFFICES ASSUME Init PROVE Ownership
  OBVIOUS
<1> DEFINE own == [id \in Ids |-> IF id \in Targets THEN id ELSE Room]
<1>1. own \in [Ids -> Targets] /\ own[FirstRoomId] = Room /\ \A t \in Targets : own[t] = t
  <2>1. FirstRoomId \notin Targets
    BY ConstantsAssumption DEF FirstRoomId, Targets
  <2> QED BY <2>1, IdsAre
<1> HIDE DEF own
<1>2. OwnedRows(own, rows)
  BY <1>1, InitFirstHistory DEF FirstHistory, OwnedRows, Present
<1>3. ASSUME NEW v \in DOMAIN versions
      PROVE  /\ OwnRow(own, versions[v].ctx, versions[v].before)
             /\ OwnRow(own, versions[v].ctx, versions[v].after)
  <2>1. Saved(v) \/ Undone(v)
    BY InitFirstHistory DEF FirstHistory
  <2>2. CASE Saved(v)
    BY <1>1, <2>2, InitFirstHistory DEF Saved, FirstHistory, OwnRow
  <2>3. CASE Undone(v)
    BY <1>1, <2>3 DEF Undone, OwnRow
  <2> QED BY <2>1, <2>2, <2>3
<1>4. Owned(own)
  BY <1>1, <1>2, <1>3 DEF Owned
<1>5. \A w \in Writers : Turn(own, pc[w], job[w])
  BY DEF Init, Turn, NoJob
<1> QED BY <1>4, <1>5 DEF Ownership

LEMMA InitDrawn == Init => Drawn
<1> SUFFICES ASSUME Init PROVE Drawn
  OBVIOUS
<1>1. changes = 0 /\ \A t \in Targets : t <= FirstRoomId + 0
  BY ConstantsAssumption DEF Init, FirstRoomId, Targets
<1>2. 0 <= FirstRoomId + 0 /\ FirstRoomId <= FirstRoomId + 0
  BY ConstantsAssumption DEF FirstRoomId
<1>3. \A t \in Targets : Present(t) => rows[t].id <= FirstRoomId + changes
  BY <1>1, InitFirstHistory DEF FirstHistory
<1>4. ASSUME NEW v \in DOMAIN versions PROVE versions[v].ctx <= FirstRoomId + changes
  <2>1. versions[v].ctx \in Targets \/ versions[v].ctx = FirstRoomId
    BY InitFirstHistory DEF FirstHistory, Saved, Undone
  <2> QED BY <1>1, <1>2, <2>1
<1>5. \A w \in Writers : job[w].id <= FirstRoomId + changes
  BY <1>1, <1>2 DEF Init, NoJob
<1> QED BY <1>3, <1>4, <1>5 DEF Drawn

LEMMA InitTelling == Init => Telling
<1> SUFFICES ASSUME Init, NEW ctx \in Ids, NEW m \in DOMAIN versions, Newest(m, ctx)
             PROVE  versions[m].status = "approved" /\ versions[m].after = RowById(ctx)
  BY DEF Telling, Described, Told
<1>1. Saved(m) \/ Undone(m)
  BY InitFirstHistory DEF FirstHistory
<1>2. CASE Saved(m)
  <2>1. PICK t \in Targets : Present(t) /\ rows[t].id = t /\ ctx = t /\ versions[m].after = rows[t]
    BY <1>2, InitFirstHistory DEF Saved, FirstHistory, Newest
  <2>2. PICK own : Owned(own)
    BY InitOwned DEF Ownership
  <2>3. ById(rows, ctx) = rows[t]
    BY <2>1, <2>2, ByIdFinds DEF Owned, Present
  <2> QED BY <1>2, <2>1, <2>3, RowByIdIsById DEF Saved
<1>3. CASE Undone(m)
  <2>1. ctx = FirstRoomId
    BY <1>3 DEF Undone, Newest
  <2>2. m # 1
    BY <1>3, <2>1 DEF Undone, Newest
  <2>3. versions[m].status = "approved" /\ versions[m].after = NoRow
    BY <1>3, <2>2 DEF Undone
  <2>4. FirstRoomId \notin Targets
    BY ConstantsAssumption DEF FirstRoomId, Targets
  <2>5. ById(rows, ctx) = NoRow
    BY <2>1, <2>4, ByIdCases, InitFirstHistory DEF FirstHistory, Present
  <2> QED BY <2>3, <2>5, RowByIdIsById
<1> QED BY <1>1, <1>2, <1>3

LEMMA InitInOrder == Init => InOrder /\ Covered /\ Fresh
<1> SUFFICES ASSUME Init PROVE InOrder /\ Covered /\ Fresh
  OBVIOUS
<1>1. InOrder
  <2>1. now = 0 /\ \A v \in DOMAIN versions : versions[v].at = 0
    BY InitFirstHistory DEF Init, FirstHistory
  <2> QED BY <2>1 DEF InOrder
<1>2. Covered
  BY InitFirstHistory DEF Covered, Recounted, FirstHistory
<1>3. Fresh
  BY DEF Init, Fresh, Unresolved
<1> QED BY <1>1, <1>2, <1>3

-----------------------------------------------------------------------------
(* The history of writers that take turns.                                 *)
KInv == Ownership /\ Drawn /\ InOrder /\ Telling /\ Covered /\ Fresh

LEMMA WorksKept ==
  ASSUME TInv, HistoryInv, KInv, Alone, Alone', NEW w \in Writers, Works(w)
  PROVE  KInv'
<1> USE DEF KInv
<1>1. PICK own : Owned(own) /\ Turns(own)
  BY DEF Ownership, Turns
<1>2. Ownership'
  BY WorksOwned
<1>3. PICK o : Owned(o)' /\ Turns(o)'
  BY <1>2 DEF Ownership, Turns
<1>4. OnItsOwn(own, w)
  BY <1>1, OthersIdle DEF OnItsOwn, Before, Rest
<1>5. Before(own, w)
  BY <1>4 DEF OnItsOwn
<1>6. Drawn' /\ InOrder'
  BY <1>5, WorksDrawn, WorksInOrder
<1>7. Telling' /\ Covered' /\ Fresh'
  BY <1>3, <1>4, WorksTelling, WorksCovered, WorksFresh
<1> QED BY <1>2, <1>6, <1>7

LEMMA ReadsKept == ASSUME TInv, KInv, Reads PROVE KInv'
<1> USE DEF KInv
<1>1. UNCHANGED <<rows, versions, now, pc, job, cut>> /\ changes' \in {changes, changes + 1}
  BY DEF Reads, SaveSettings, ResolveContacts, ResolveRoom, ResolveSignature, StampDraft, WriteBareDraft,
    Approve, vars, store, writers
<1>2. \A id : RowById(id)' = RowById(id)
  BY <1>1 DEF RowById, Present
<1>3. Ownership'
  <2>1. PICK own : Owned(own) /\ Turns(own)
    BY DEF Ownership, Turns
  <2>2. Owned(own)'
    BY <1>1, <2>1, Unowned
  <2>3. \A w \in Writers : Turn(own, pc[w], job[w])'
    BY <1>1, <1>2, <2>1 DEF Turns, Turn, Present
  <2> QED BY <2>2, <2>3 DEF Ownership
<1>4. Drawn'
  <2>1. changes \in Nat /\ changes' \in Nat /\ changes <= changes' /\ FirstRoomId \in Nat
    BY <1>1, ConstantsAssumption DEF TInv, CutTypes, FirstRoomId
  <2>2. ASSUME NEW i \in Nat, i <= FirstRoomId + changes PROVE i <= FirstRoomId + changes'
    BY <2>1, <2>2, StillBelow
  <2>3. /\ \A t \in Targets : Present(t) => rows[t].id \in Nat
        /\ \A v \in DOMAIN versions : versions[v].ctx \in Nat
        /\ \A w \in Writers : job[w].id \in Nat
    <3>1. \A t \in Targets : Present(t) => rows[t].id \in Nat
      BY RowFields, IdsAre DEF TInv, StoreTypes, MaybeRow, Present
    <3>2. \A v \in DOMAIN versions : versions[v] \in VersionType
      BY DEF TInv, StoreTypes
    <3>3. \A v \in DOMAIN versions : versions[v].ctx \in Nat
      BY <3>2, IdsAre DEF VersionType
    <3>4. ASSUME NEW w \in Writers PROVE job[w].id \in Nat
      <4>1. job[w] \in JobType
        BY JobOf
      <4>2. job[w].id \in Ids \cup {0}
        BY <4>1 DEF JobType
      <4>3. CASE job[w].id = 0
        BY <4>3
      <4>4. CASE job[w].id \in Ids
        BY <4>4, IdsAre
      <4> QED BY <4>2, <4>3, <4>4
    <3> QED BY <3>1, <3>3, <3>4
  <2> QED BY <1>1, <2>2, <2>3 DEF Drawn, Present
<1>5. InOrder' /\ Fresh'
  BY <1>1, ReadsFresh DEF InOrder
<1>6. \A id : Busy(id)' <=> Busy(id)
  BY <1>1 DEF Busy, Touched, Present
<1>7. Telling'
  BY <1>1, <1>2, <1>6, StaysDescribed DEF Telling
<1>8. Covered'
  BY <1>1, <1>6 DEF Covered, Recounted, Present
<1> QED BY <1>3, <1>4, <1>5, <1>7, <1>8

LEMMA InitKept == Init => KInv
BY InitOwned, InitDrawn, InitTelling, InitInOrder DEF KInv

LEMMA StepKeepsTold == TInv /\ HistoryInv /\ KInv /\ Alone /\ Alone' /\ [Next]_vars => KInv'
<1> SUFFICES ASSUME TInv, HistoryInv, KInv, Alone, Alone', [Next]_vars PROVE KInv'
  OBVIOUS
<1>1. Reads \/ \E w \in Writers : Works(w)
  BY DEF Next, Reads, Works
<1> QED BY <1>1, WorksKept, ReadsKept

LEMMA NewestExists ==
  ASSUME TInv, NEW v \in DOMAIN versions
  PROVE  \E m \in DOMAIN versions : Newest(m, versions[v].ctx)
<1> DEFINE S == {u \in DOMAIN versions : versions[u].ctx = versions[v].ctx}
<1>1. DOMAIN versions = 1..Len(versions) /\ Len(versions) \in Nat
  BY DEF TInv, StoreTypes
<1>2. IsFiniteSet(DOMAIN versions)
  BY <1>1, FS_Interval
<1>3. S \in SUBSET Nat /\ IsFiniteSet(S) /\ S # {}
  BY <1>1, <1>2, FS_Subset
<1>4. PICK m \in S : \A u \in S : u <= m
  <2> HIDE DEF S
  <2> QED BY <1>3, GreatestIs
<1> QED BY <1>4 DEF Newest

LEMMA NewestIsLatest ==
  ASSUME TInv, InOrder, NEW ctx, NEW m \in DOMAIN versions, Newest(m, ctx), versions[m].status = "approved"
  PROVE  m \in LatestApproved(ctx)
BY DEF Newest, InOrder, LatestApproved

(* What the writer's work comes to: nothing under way and every job that   *)
(* was cut short made good, the newest version says what the row says and  *)
(* a resolve finds it.                                                     *)
LEMMA NewestTells ==
  ASSUME TInv, KInv, Idle, NEW v \in DOMAIN versions, CutsMadeGood(versions[v].ctx)
  PROVE  \E m \in LatestApproved(versions[v].ctx) :
           Newest(m, versions[v].ctx) /\ versions[m].after = RowById(versions[v].ctx)
<1> DEFINE ctx == versions[v].ctx
<1>1. PICK m \in DOMAIN versions : Newest(m, ctx)
  BY NewestExists
<1>2. ctx \in Ids
  <2>1. versions[v] \in VersionType
    BY DEF TInv, StoreTypes
  <2> QED BY <2>1 DEF VersionType
<1>3. CutsMadeGood(ctx)
  OBVIOUS
<1> HIDE DEF ctx
<1>4. ~Busy(ctx)
  BY DEF Busy, Idle
<1>5. versions[m].status = "approved" /\ versions[m].after = RowById(ctx)
  BY <1>1, <1>2, <1>3, <1>4 DEF KInv, Telling, Described, Told
<1>6. m \in LatestApproved(ctx)
  BY <1>1, <1>5, NewestIsLatest DEF KInv
<1> QED BY <1>1, <1>5, <1>6 DEF ctx

LEMMA ToldDescribesRows == TInv /\ KInv => HistoryDescribesRows
<1> SUFFICES ASSUME TInv, KInv, Idle, NEW v \in DOMAIN versions,
                    \A c \in cut : c.ctx = versions[v].ctx => MadeGood(c)
             PROVE  \E m \in LatestApproved(versions[v].ctx) : versions[m].after = RowById(versions[v].ctx)
  BY DEF HistoryDescribesRows
<1>1. CutsMadeGood(versions[v].ctx)
  BY DEF CutsMadeGood
<1> QED BY <1>1, NewestTells

LEMMA StampIsQuoted ==
  ASSUME TInv, KInv, StampDraft, Idle, resolver.since = changes, cut = {}, DistinctTimes,
         NEW i \in DOMAIN resolver.contexts
  PROVE  \E v \in draft'.stamp.versions : versions[v].after = resolver.contexts[i]
<1>1. PICK t \in Targets : Present(t) /\ resolver.contexts[i] = rows[t]
  <2>1. resolver.since # MaxChanges + 1
    BY ConstantsAssumption DEF TInv, CutTypes
  <2> QED BY <2>1 DEF StampDraft, KInv, Fresh
<1>2. PICK u \in DOMAIN versions : versions[u].ctx = rows[t].id
  <2>1. ~Busy(rows[t].id)
    BY DEF Busy, Idle
  <2> QED BY <1>1, <2>1 DEF KInv, Covered, Recounted
<1> DEFINE ctx == rows[t].id
<1>3. PICK m \in LatestApproved(ctx) : Newest(m, ctx) /\ versions[m].after = RowById(ctx)
  <2>1. CutsMadeGood(versions[u].ctx)
    BY DEF CutsMadeGood
  <2> QED BY <1>2, <2>1, NewestTells
<1>4. RowById(ctx) = rows[t]
  <2>1. PICK own : Owned(own)
    BY DEF KInv, Ownership
  <2>2. ById(rows, ctx) = rows[t]
    BY <1>1, <2>1, ByIdFinds DEF Owned, Present
  <2> QED BY <2>2, RowByIdIsById
<1>5. resolver.contexts[i].id = ctx
  BY <1>1
<1> HIDE DEF ctx
<1>6. ASSUME NEW n \in LatestApproved(ctx) PROVE n = m
  <2>1. /\ m \in DOMAIN versions /\ n \in DOMAIN versions
        /\ versions[m].ctx = ctx /\ versions[n].ctx = ctx
        /\ versions[m].at <= versions[n].at /\ versions[n].at <= versions[m].at
    BY <1>3, <1>6 DEF LatestApproved
  <2>2. versions[m] \in VersionType /\ versions[n] \in VersionType
    BY <2>1 DEF TInv, StoreTypes
  <2>3. versions[m].at \in Nat /\ versions[n].at \in Nat
    BY <2>2 DEF VersionType
  <2>4. versions[m].at = versions[n].at
    BY <2>1, <2>3
  <2> QED BY <2>1, <2>4 DEF DistinctTimes
<1>7. PICK pick \in [DOMAIN resolver.contexts -> 0..Len(versions)] :
        /\ \A k \in DOMAIN pick :
             LET latest == LatestApproved(resolver.contexts[k].id) IN
               IF latest = {} THEN pick[k] = 0 ELSE pick[k] \in latest
        /\ draft' = [stage |-> "proposed",
                     stamp |-> [bundle |-> Effective(resolver.signature, ProfilesOf(resolver.contexts)),
                                versions |-> {pick[k] : k \in DOMAIN pick} \ {0}]]
  BY DEF StampDraft
<1>8. pick[i] = m
  <2>1. i \in DOMAIN pick /\ LatestApproved(resolver.contexts[i].id) # {}
    BY <1>3, <1>5
  <2>2. pick[i] \in LatestApproved(ctx)
    BY <1>5, <1>7, <2>1
  <2> QED BY <1>6, <2>2
<1>9. m \in DOMAIN versions /\ m # 0
  <2>1. m \in DOMAIN versions
    BY <1>3 DEF LatestApproved
  <2> QED BY <2>1 DEF TInv, StoreTypes
<1>10. draft'.stamp.versions = {pick[k] : k \in DOMAIN pick} \ {0}
  BY <1>7
<1>11. m \in draft'.stamp.versions
  BY <1>8, <1>9, <1>10
<1> QED BY <1>1, <1>3, <1>4, <1>11

LEMMA AlwaysTold == Spec /\ []Alone => []TInv /\ []KInv
<1>1. KInv /\ []TInv /\ []HistoryInv /\ []Alone /\ [][Next]_vars => []KInv
  BY StepKeepsTold, PTL
<1> QED BY <1>1, AlwaysTyped, InitKept, PTL DEF Spec

(* "Every context mutation is recorded in context_versions": whatever      *)
(* saves and rollbacks there were and wherever they were cut short, when   *)
(* none is under way a latest approved version of every context says what  *)
(* its row says, unless a cut is not made good yet.  For saves and         *)
(* rollbacks that take turns, with any number of them, contacts and        *)
(* profiles, and with several versions in one millisecond.                 *)
THEOREM HistoryDescribesRowsAlone == Spec /\ []Alone => []HistoryDescribesRows
BY AlwaysTold, ToldDescribesRows, PTL

(* The versions stamped into a draft are those of the contexts it was      *)
(* written with: a resolve that overlaps no save quotes the history right, *)
(* again for saves and rollbacks that take turns.                          *)
THEOREM StampQuotesItsContextAlone == Spec /\ []Alone => StampQuotesItsContext
<1>1. TInv /\ KInv /\ [Next]_vars =>
        [StampDraft /\ Idle /\ resolver.since = changes /\ cut = {} /\ DistinctTimes =>
           \A i \in DOMAIN resolver.contexts :
             \E v \in draft'.stamp.versions : versions[v].after = resolver.contexts[i]]_vars
  BY StampIsQuoted
<1> QED BY <1>1, AlwaysTold, PTL DEF StampQuotesItsContext, Spec

(* One writer always takes turns: the web server, whose handlers do not    *)
(* await between their statements, and the instance that is checked.       *)
THEOREM OneWriterTells ==
  ASSUME \A v, w \in Writers : v = w
  PROVE  Spec => []HistoryDescribesRows /\ StampQuotesItsContext
<1>1. TInv => Alone
  BY DEF Alone
<1>2. Spec => []TInv
  BY AlwaysTyped, PTL
<1> QED BY <1>1, <1>2, HistoryDescribesRowsAlone, StampQuotesItsContextAlone, PTL

-----------------------------------------------------------------------------
(* The merge.  What ContextResolve_proofs says of any contexts is said     *)
(* here of those that context_history looks at, and of those the rows hold.*)

LEMMA BoundedIsSeq ==
  ASSUME NEW S, NEW T, S \subseteq T, NEW n \in Nat, NEW contexts \in BoundedSeq(S, n)
  PROVE  contexts \in Seq(T)
<1>1. PICK m \in 0..n : contexts \in [1..m -> S]
  BY DEF BoundedSeq, SeqOf
<1>2. contexts \in [1..m -> T]
  BY <1>1
<1> QED BY <1>1, <1>2, FirstVersions

(* "Privacy and safety constraints are conservative": the run's property,  *)
(* from the theorem about any number of contexts.                          *)
THEOREM MergeConservativeHolds == Spec => []MergeConservative
<1>1. MergeConservative
  <2> SUFFICES ASSUME NEW contexts \in BoundedSeq(Restrictions, 3)
               PROVE  Conservative(Effective(<<>>, contexts), contexts)
    BY DEF MergeConservative
  <2> DEFINE D == {"location", "agenda"}
             M == {NoMark}
  <2>1. ASSUME NEW c \in Restrictions PROVE c \in AnyContext(D, M)
    <3>1. PICK p \in Postures, t \in Tones, d \in SUBSET D : c = Profile(p, t, d, "inherit", NoMark, "inherit")
      BY <2>1 DEF Restrictions
    <3> QED BY <3>1 DEF AnyContext, Profile, Modes
  <2>2. <<>> \in Seq(M)
    OBVIOUS
  <2> HIDE DEF D, M
  <2>3. contexts \in Seq(AnyContext(D, M))
    BY <2>1, BoundedIsSeq
  <2> QED BY <2>2, <2>3, MergeIsConservative
<1> QED BY <1>1, PTL

(* "Each context can inherit the current signature, append a suffix, or    *)
(* override it entirely": the run's property, from the theorem about any   *)
(* number of contexts and any tenant's signature.                          *)
THEOREM MergeLayeredHolds == Spec => []MergeLayered
<1>1. MergeLayered
  <2> SUFFICES ASSUME NEW contexts \in BoundedSeq(Layers, 3), NEW start \in {<<>>, <<"home">>}
               PROVE  Layered(Effective(start, contexts), start, contexts)
    BY DEF MergeLayered
  <2> DEFINE M == {NoMark, "m1", "m2", "home"}
  <2>1. ASSUME NEW c \in Layers PROVE c \in AnyContext({}, M)
    <3>1. PICK m \in Modes, k \in {NoMark, "m1", "m2"}, s \in Services \cup {"inherit"} :
            c = Profile(2, "warm", {}, m, k, s)
      BY <2>1 DEF Layers
    <3> QED BY <3>1 DEF AnyContext, Profile, Postures, Tones
  <2>2. start \in Seq(M)
    <3>1. <<>> \in Seq(M) /\ <<"home">> \in Seq(M)
      <4>1. "home" \in M
        OBVIOUS
      <4> HIDE DEF M
      <4> QED BY <4>1
    <3> QED BY <3>1
  <2> HIDE DEF M
  <2>3. contexts \in Seq(AnyContext({}, M))
    BY <2>1, BoundedIsSeq
  <2> QED BY <2>2, <2>3, MergeIsLayered
<1> QED BY <1>1, PTL

LEMMA ProfilesTyped ==
  ASSUME NEW D, NEW M, Profiles \subseteq AnyContext(D, M), NEW found \in Seq(Row)
  PROVE  ProfilesOf(found) \in Seq(AnyContext(D, M))
<1> DEFINE n == Len(found)
<1>1. n \in Nat /\ found \in [1..n -> Row]
  OBVIOUS
<1> HIDE DEF n
<1>2. \A i \in 1..n : found[i].profile \in AnyContext(D, M)
  BY <1>1, RowFields
<1>3. ProfilesOf(found) \in [1..n -> AnyContext(D, M)]
  <2>1. DOMAIN found = 1..n
    BY <1>1
  <2> QED BY <2>1, <1>2 DEF ProfilesOf
<1> QED BY <1>1, <1>3, FirstVersions

(* What docs/data-model.md promises of the bundle that is merged from      *)
(* these rows on top of this signature.                                    *)
MergedAsPromised(bundle, start, found) ==
  Conservative(bundle, ProfilesOf(found)) /\ Layered(bundle, start, ProfilesOf(found))

(* At any moment, with saves, rollbacks and crashes at any statement, the  *)
(* bundle that the rows and the settings make (the one an approve takes    *)
(* the signature and the delivery service from) is conservative and        *)
(* layered over the contexts there are then; and the bundle a draft is     *)
(* stamped with is so over the contexts its resolve has read.              *)
THEOREM BundleMergedAsPromised ==
  ASSUME NEW D, NEW M, Profiles \subseteq AnyContext(D, M), Signatures \subseteq Seq(M)
  PROVE  Spec => /\ []MergedAsPromised(Bundle, signature, Contexts(1, Room))
                 /\ [][StampDraft =>
                         MergedAsPromised(draft'.stamp.bundle, resolver.signature, resolver.contexts)]_vars
<1>1. ASSUME NEW start \in Signatures \cup {<<>>}, NEW found \in Seq(Row)
      PROVE  MergedAsPromised(Effective(start, ProfilesOf(found)), start, found)
  <2>1. start \in Seq(M)
    <3>1. <<>> \in Seq(M)
      OBVIOUS
    <3> QED BY <3>1
  <2>2. ProfilesOf(found) \in Seq(AnyContext(D, M))
    BY ProfilesTyped
  <2> QED BY <2>1, <2>2, MergeIsConservative, MergeIsLayered DEF MergedAsPromised
<1>2. TInv => MergedAsPromised(Bundle, signature, Contexts(1, Room))
  <2> SUFFICES ASSUME TInv PROVE MergedAsPromised(Bundle, signature, Contexts(1, Room))
    OBVIOUS
  <2>1. Contexts(1, Room) \in Seq(Row)
    <3>1. Room \in Nat /\ 1 \in Nat
      BY ConstantsAssumption DEF Room
    <3> QED BY <3>1, ContextsTyped DEF TInv
  <2> QED BY <2>1, <1>1 DEF Bundle, TInv, StoreTypes
<1>3. TInv /\ [Next]_vars =>
        [StampDraft => MergedAsPromised(draft'.stamp.bundle, resolver.signature, resolver.contexts)]_vars
  <2> SUFFICES ASSUME TInv, StampDraft
               PROVE  MergedAsPromised(draft'.stamp.bundle, resolver.signature, resolver.contexts)
    OBVIOUS
  <2>1. draft'.stamp.bundle = Effective(resolver.signature, ProfilesOf(resolver.contexts))
    BY DEF StampDraft
  <2>2. resolver.contexts \in Seq(Row) /\ resolver.signature \in Signatures \cup {<<>>}
    BY DEF TInv, AgentTypes
  <2> QED BY <1>1, <2>1, <2>2
<1> QED BY <1>2, <1>3, AlwaysTyped, PTL DEF Spec
=============================================================================
