----------------------- MODULE ContextResolve_proofs -----------------------
(***************************************************************************)
(* Proofs about the merge of contexts, for any number of contexts and any  *)
(* details, marks and signature: the bundle is conservative, and layered.  *)
(*                                                                         *)
(* The loops of ContextService.resolve are folds.  Each is first shown to  *)
(* be what the loop computes turn by turn (the lemmas called ...Runs), and *)
(* the properties follow by induction on the turns.  The induction is over *)
(* a set of numbers, that of the turns of which the claim holds.           *)
(***************************************************************************)
EXTENDS ContextResolve, FiniteSetTheorems, SequenceTheorems,
        WellFoundedInduction, TLAPS

(* Induction over a set of natural numbers: one that is left out would     *)
(* have a first one.                                                       *)
LEMMA Numbers ==
  ASSUME NEW S, 0 \in S, \A k \in Nat : k \in S => k + 1 \in S
  PROVE  Nat \subseteq S
<1> DEFINE T == Nat \ S
           R == OpToRel(<, Nat)
<1> SUFFICES ASSUME T # {} PROVE FALSE
  OBVIOUS
<1>1. PICK i \in T : \A j \in T : ~(<<j, i>> \in R)
  <2>1. IsWellFoundedOn(R, Nat)
    BY NatLessThanWellFounded
  <2>2. T \in SUBSET Nat
    OBVIOUS
  <2> HIDE DEF R, T
  <2> QED BY <2>1, <2>2, WFMin
<1>2. \A j \in T : j < i => <<j, i>> \in R
  BY SMT DEF OpToRel
<1>3. i \in Nat /\ i # 0
  OBVIOUS
<1>4. i - 1 \in Nat /\ i - 1 < i /\ (i - 1) + 1 = i
  BY <1>3
<1>5. i - 1 \in S
  <2> HIDE DEF R
  <2> QED BY <1>1, <1>2, <1>4
<1> QED BY <1>4, <1>5

(* The same over the turns of a loop.                                      *)
LEMMA InTurns ==
  ASSUME NEW n \in Nat, NEW S, 0 \in S, \A k \in 1..n : k - 1 \in S => k \in S
  PROVE  0..n \subseteq S
<1> DEFINE T == S \cup {k \in Nat : k > n}
<1>1. \A k \in Nat : k \in T => k + 1 \in T
  <2> SUFFICES ASSUME NEW k \in Nat, k \in T, k + 1 <= n PROVE k + 1 \in S
    OBVIOUS
  <2>1. k \in S /\ k + 1 \in 1..n /\ (k + 1) - 1 = k
    OBVIOUS
  <2> QED BY <2>1
<1>2. Nat \subseteq T
  <2>1. 0 \in T
    OBVIOUS
  <2> HIDE DEF T
  <2> QED BY <1>1, <2>1, Numbers
<1> QED BY <1>2

(* Numbers up to n have a greatest one.                                    *)
LEMMA Greatest ==
  ASSUME NEW n \in Nat, NEW s \in SUBSET (1..n), s # {}
  PROVE  Max(s) \in s /\ \A j \in s : j <= Max(s)
<1> DEFINE S == {k \in Nat : \A t \in SUBSET (1..k) : t # {} => \E x \in t : \A y \in t : x >= y}
<1>1. 0 \in S
  <2>1. \A t \in SUBSET (1..0) : t = {}
    OBVIOUS
  <2> QED BY <2>1
<1>2. ASSUME NEW k \in Nat, k \in S PROVE k + 1 \in S
  <2> SUFFICES ASSUME NEW t \in SUBSET (1..k + 1), t # {} PROVE \E x \in t : \A y \in t : x >= y
    OBVIOUS
  <2>1. CASE k + 1 \in t
    BY <2>1
  <2>2. CASE k + 1 \notin t
    <3>1. t \in SUBSET (1..k)
      BY <2>2
    <3> QED BY <1>2, <3>1
  <2> QED BY <2>1, <2>2
<1>3. n \in S
  <2> HIDE DEF S
  <2> QED BY <1>1, <1>2, Numbers
<1>4. \E x \in s : \A y \in s : x >= y
  BY <1>3
<1>5. Max(s) \in s /\ \A j \in s : Max(s) >= j
  BY <1>4 DEF Max
<1> QED BY <1>5, SMT

(* The first k of n places, as a fold goes through them.                   *)
LEMMA FirstPlaces ==
  ASSUME NEW n \in Nat, NEW k \in 1..n
  PROVE  /\ 1..k \in SUBSET (1..n) /\ 1..k # {} /\ Max(1..k) = k
         /\ (1..k) \ {k} = 1..k - 1
<1>1. 1..k \in SUBSET (1..n) /\ 1..k # {} /\ k \in 1..k
  OBVIOUS
<1>2. Max(1..k) \in 1..k /\ k <= Max(1..k)
  BY <1>1, Greatest
<1> QED BY <1>1, <1>2

(* Functions over parts of 1..n as MapThenFoldSet defines them by          *)
(* recursion exist: with one for k places there is one for k + 1.          *)
Follows(iter, n, base, next) ==
  iter = [s \in SUBSET (1..n) |->
            IF s = {} THEN base ELSE next[Max(s)][iter[s \ {Max(s)}]]]

LEMMA FoldExists ==
  ASSUME NEW n \in Nat, NEW V, NEW base \in V, NEW next \in [1..n -> [V -> V]]
  PROVE  \E iter \in [SUBSET (1..n) -> V] : Follows(iter, n, base, next)
<1> DEFINE S == {k \in 0..n : \E iter \in [SUBSET (1..k) -> V] : Follows(iter, k, base, next)}
<1>1. 0 \in S
  <2> DEFINE iter == [s \in SUBSET (1..0) |-> base]
  <2>1. iter \in [SUBSET (1..0) -> V]
    OBVIOUS
  <2>2. \A s \in SUBSET (1..0) : s = {}
    OBVIOUS
  <2>3. iter = [s \in SUBSET (1..0) |->
                  IF s = {} THEN base ELSE next[Max(s)][iter[s \ {Max(s)}]]]
    BY <2>2, Zenon
  <2>4. Follows(iter, 0, base, next)
    BY <2>3 DEF Follows
  <2> QED BY <2>1, <2>4
<1>2. ASSUME NEW k \in 1..n, k - 1 \in S PROVE k \in S
  <2>1. PICK it \in [SUBSET (1..k - 1) -> V] : Follows(it, k - 1, base, next)
    BY <1>2
  <2> DEFINE iter == [s \in SUBSET (1..k) |-> IF k \in s THEN next[k][it[s \ {k}]] ELSE it[s]]
  <2>2. \A s \in SUBSET (1..k) : s \ {k} \in SUBSET (1..k - 1) /\ (k \notin s => s \in SUBSET (1..k - 1))
    OBVIOUS
  <2>3. \A s \in SUBSET (1..k) : k \in s => s # {} /\ Max(s) = k
    <3> SUFFICES ASSUME NEW s \in SUBSET (1..k), k \in s PROVE Max(s) = k
      OBVIOUS
    <3>1. k \in Nat /\ s # {}
      OBVIOUS
    <3>2. Max(s) \in s /\ k <= Max(s)
      <4> HIDE DEF iter
      <4> QED BY <3>1, Greatest
    <3>3. Max(s) \in 1..k
      BY <3>2
    <3> QED BY <3>2, <3>3
  <2>4. \A s \in SUBSET (1..k) : k \notin s => iter[s] = it[s]
    OBVIOUS
  <2>5. iter \in [SUBSET (1..k) -> V]
    <3> SUFFICES ASSUME NEW s \in SUBSET (1..k)
                 PROVE  (IF k \in s THEN next[k][it[s \ {k}]] ELSE it[s]) \in V
      OBVIOUS
    <3>1. CASE k \in s
      <4>1. it[s \ {k}] \in V
        BY <2>1, <2>2
      <4> QED BY <3>1, <4>1
    <3>2. CASE k \notin s
      BY <2>1, <2>2, <3>2
    <3> QED BY <3>1, <3>2
  <2>6. \A s \in SUBSET (1..k - 1) :
          it[s] = IF s = {} THEN base ELSE next[Max(s)][it[s \ {Max(s)}]]
    BY <2>1, Zenon DEF Follows
  <2>7. ASSUME NEW s \in SUBSET (1..k)
        PROVE  iter[s] = IF s = {} THEN base ELSE next[Max(s)][iter[s \ {Max(s)}]]
    <3>1. CASE k \in s
      <4>1. iter[s] = next[k][it[s \ {k}]] /\ s # {} /\ Max(s) = k
        BY <2>3, <3>1
      <4>2. s \ {k} \in SUBSET (1..k) /\ k \notin s \ {k}
        OBVIOUS
      <4>3. iter[s \ {k}] = it[s \ {k}]
        BY <2>4, <4>2
      <4> QED BY <4>1, <4>3, Zenon
    <3>2. CASE k \notin s /\ s # {}
      <4>1. s \in SUBSET (1..k - 1) /\ iter[s] = it[s]
        BY <2>2, <2>4, <3>2
      <4>2. iter[s \ {Max(s)}] = it[s \ {Max(s)}]
        BY <2>4, <3>2
      <4> QED BY <2>6, <3>2, <4>1, <4>2, Zenon
    <3>3. CASE s = {}
      <4>1. s \in SUBSET (1..k - 1) /\ iter[s] = it[s]
        BY <2>4, <3>3
      <4> QED BY <2>6, <3>3, <4>1, Zenon
    <3> QED BY <3>1, <3>2, <3>3
  <2>8. Follows(iter, k, base, next)
    <3>1. DOMAIN iter = SUBSET (1..k)
      OBVIOUS
    <3>2. iter = [s \in SUBSET (1..k) |-> iter[s]]
      OBVIOUS
    <3> HIDE DEF iter
    <3>3. [s \in SUBSET (1..k) |-> iter[s]] =
          [s \in SUBSET (1..k) |-> IF s = {} THEN base ELSE next[Max(s)][iter[s \ {Max(s)}]]]
      BY <2>7, Zenon
    <3> QED BY <3>2, <3>3 DEF Follows
  <2> QED
    <3> HIDE DEF iter
    <3> QED BY <2>5, <2>8
<1>3. n \in S
  <2>1. n \in 0..n
    OBVIOUS
  <2> HIDE DEF S
  <2> QED BY <1>1, <1>2, <2>1, InTurns
<1> QED BY <1>3, Zenon

(* Along the first places such a function is what a loop computes.         *)
FollowsIn(V, iter, n, base, next) ==
  /\ iter[{}] = base
  /\ \A s \in SUBSET (1..n) :
       s # {} /\ iter[s \ {Max(s)}] \in V => iter[s] = next[Max(s)][iter[s \ {Max(s)}]]

(* A loop over n places, begun with base, that ends with result.           *)
Loops(V, n, base, next, result) ==
  \E run \in [0..n -> V] :
    /\ run[0] = base
    /\ \A k \in 1..n : run[k] = next[k][run[k - 1]]
    /\ run[n] = result

LEMMA FoldRuns ==
  ASSUME NEW n \in Nat, NEW V, NEW base \in V, NEW next \in [1..n -> [V -> V]], NEW iter,
         FollowsIn(V, iter, n, base, next)
  PROVE  Loops(V, n, base, next, iter[1..n])
<1> DEFINE S == {k \in 0..n : iter[1..k] \in V}
           run == [k \in 0..n |-> iter[1..k]]
<1>1. 1..0 = {}
  OBVIOUS
<1>2. ASSUME NEW k \in 1..n, iter[1..k - 1] \in V
      PROVE  iter[1..k] = next[k][iter[1..k - 1]] /\ iter[1..k] \in V
  <2>1. 1..k \in SUBSET (1..n) /\ 1..k # {} /\ Max(1..k) = k /\ (1..k) \ {k} = 1..k - 1
    BY FirstPlaces
  <2>2. iter[1..k] = next[k][iter[1..k - 1]]
    BY <1>2, <2>1, Zenon DEF FollowsIn
  <2> QED BY <1>2, <2>2
<1>3. \A k \in 0..n : iter[1..k] \in V
  <2>1. 0 \in S
    BY <1>1 DEF FollowsIn
  <2>2. ASSUME NEW k \in 1..n, k - 1 \in S PROVE k \in S
    BY <1>2, <2>2
  <2>3. 0..n \subseteq S
    <3> HIDE DEF S
    <3> QED BY <2>1, <2>2, InTurns
  <2> QED BY <2>3
<1>4. run \in [0..n -> V]
  BY <1>3
<1>5. run[0] = base
  BY <1>1 DEF FollowsIn
<1>6. ASSUME NEW k \in 1..n PROVE run[k] = next[k][run[k - 1]]
  <2>1. k - 1 \in 0..n /\ k \in 0..n
    OBVIOUS
  <2>2. iter[1..k] = next[k][iter[1..k - 1]]
    BY <1>2, <1>3, <2>1
  <2> QED BY <2>1, <2>2
<1>7. run[n] = iter[1..n]
  OBVIOUS
<1> HIDE DEF run
<1> QED BY <1>4, <1>5, <1>6, <1>7 DEF Loops

-----------------------------------------------------------------------------
(* The loops of the merge, turn by turn.                                   *)

(* A context with any lists of details D and any marks M.                  *)
AnyContext(D, M) ==
  [posture : Postures, tone : Tones, details : SUBSET D, mode : Modes, mark : M,
   delivery : Services \cup {"inherit"}]

LEMMA PosturesRun ==
  ASSUME NEW n \in Nat, NEW contexts, DOMAIN contexts = 1..n,
         \A i \in 1..n : contexts[i].posture \in Postures
  PROVE  \E run \in [0..n -> Postures] :
           /\ run[0] = AlwaysReply
           /\ \A k \in 1..n :
                run[k] = IF contexts[k].posture < run[k - 1] THEN contexts[k].posture ELSE run[k - 1]
           /\ MostRestrictiveReplyPosture(contexts) = run[n]
<1> DEFINE Turn(iter) ==
      iter = [s \in SUBSET (1..n) |->
                IF s = {} THEN AlwaysReply
                ELSE IF contexts[Max(s)].posture < iter[s \ {Max(s)}] THEN contexts[Max(s)].posture
                ELSE iter[s \ {Max(s)}]]
    next == [k \in 1..n |->
               [p \in Postures |-> IF contexts[k].posture < p THEN contexts[k].posture ELSE p]]
<1>1. MostRestrictiveReplyPosture(contexts) = (CHOOSE iter : Turn(iter))[1..n]
  BY DEF MostRestrictiveReplyPosture, FoldLeft, MapThenFoldSet
<1>2. next \in [1..n -> [Postures -> Postures]] /\ AlwaysReply \in Postures
  BY DEF AlwaysReply, Postures
<1>3. ASSUME NEW s \in SUBSET (1..n), s # {}, NEW p \in Postures
      PROVE  next[Max(s)][p] =
               IF contexts[Max(s)].posture < p THEN contexts[Max(s)].posture ELSE p
  <2>1. Max(s) \in 1..n
    BY <1>3, Greatest
  <2> QED BY <2>1
<1> HIDE DEF next
<1>4. \E iter : Turn(iter)
  <2>1. PICK it \in [SUBSET (1..n) -> Postures] : Follows(it, n, AlwaysReply, next)
    BY <1>2, FoldExists
  <2>2. \A s \in SUBSET (1..n) : it[s \ {Max(s)}] \in Postures
    BY <2>1
  <2>3. Turn(it)
    BY <2>1, <2>2, <1>3, Zenon DEF Follows
  <2> QED BY <2>3, Zenon
<1>5. PICK iter : Turn(iter) /\ MostRestrictiveReplyPosture(contexts) = iter[1..n]
  BY <1>1, <1>4, Zenon
<1>6. FollowsIn(Postures, iter, n, AlwaysReply, next)
  BY <1>3, <1>5, Zenon DEF FollowsIn
<1>7. PICK run \in [0..n -> Postures] :
        /\ run[0] = AlwaysReply
        /\ \A k \in 1..n : run[k] = next[k][run[k - 1]]
        /\ run[n] = iter[1..n]
  <2>1. Loops(Postures, n, AlwaysReply, next, iter[1..n])
    BY <1>2, <1>6, FoldRuns
  <2> QED BY <2>1, Zenon DEF Loops
<1>8. ASSUME NEW k \in 1..n
      PROVE  run[k] = IF contexts[k].posture < run[k - 1] THEN contexts[k].posture ELSE run[k - 1]
  <2>1. run[k - 1] \in Postures
    OBVIOUS
  <2> QED BY <1>7, <2>1 DEF next
<1> QED BY <1>5, <1>7, <1>8

(* The marks of a signature, context by context.                           *)
LEMMA SignedTyped ==
  ASSUME NEW D, NEW M, NEW current \in Seq(M), NEW c \in AnyContext(D, M)
  PROVE  Signed(current, c) \in Seq(M)
<1>1. c.mark \in M
  BY DEF AnyContext
<1>2. <<c.mark>> \in Seq(M) /\ Append(current, c.mark) \in Seq(M)
  BY <1>1, AppendProperties
<1> QED BY <1>2 DEF Signed

SignsInTurn(M, start, n, contexts) ==
  \E run \in [0..n -> Seq(M)] :
    /\ run[0] = start
    /\ \A k \in 1..n : run[k] = Signed(run[k - 1], contexts[k])
    /\ EffectiveSignature(start, contexts) = run[n]

LEMMA MarksRun ==
  ASSUME NEW D, NEW M, NEW start \in Seq(M), NEW n \in Nat,
         NEW contexts \in [1..n -> AnyContext(D, M)]
  PROVE  SignsInTurn(M, start, n, contexts)
<1> DEFINE Turn(iter) ==
      iter = [s \in SUBSET (1..n) |->
                IF s = {} THEN start ELSE Signed(iter[s \ {Max(s)}], contexts[Max(s)])]
    next == [k \in 1..n |-> [current \in Seq(M) |-> Signed(current, contexts[k])]]
<1>0. DOMAIN contexts = 1..n
  OBVIOUS
<1>1. EffectiveSignature(start, contexts) = (CHOOSE iter : Turn(iter))[1..n]
  BY <1>0, Zenon DEF EffectiveSignature, FoldLeft, MapThenFoldSet
<1>2. next \in [1..n -> [Seq(M) -> Seq(M)]]
  BY SignedTyped
<1>3. ASSUME NEW s \in SUBSET (1..n), s # {}, NEW current \in Seq(M)
      PROVE  next[Max(s)][current] = Signed(current, contexts[Max(s)])
  <2>1. Max(s) \in 1..n
    BY <1>3, Greatest
  <2> QED BY <2>1
<1> HIDE DEF next
<1>4. \E iter : Turn(iter)
  <2>1. PICK it \in [SUBSET (1..n) -> Seq(M)] : Follows(it, n, start, next)
    BY <1>2, FoldExists
  <2>2. \A s \in SUBSET (1..n) : it[s \ {Max(s)}] \in Seq(M)
    BY <2>1
  <2>3. Turn(it)
    BY <2>1, <2>2, <1>3, Zenon DEF Follows
  <2> QED BY <2>3, Zenon
<1>5. PICK iter : Turn(iter) /\ EffectiveSignature(start, contexts) = iter[1..n]
  BY <1>1, <1>4, Zenon
<1>6. FollowsIn(Seq(M), iter, n, start, next)
  BY <1>3, <1>5, Zenon DEF FollowsIn
<1>7. PICK run \in [0..n -> Seq(M)] :
        /\ run[0] = start
        /\ \A k \in 1..n : run[k] = next[k][run[k - 1]]
        /\ run[n] = iter[1..n]
  <2>1. Loops(Seq(M), n, start, next, iter[1..n])
    BY <1>2, <1>6, FoldRuns
  <2> QED BY <2>1, Zenon DEF Loops
<1>8. ASSUME NEW k \in 1..n PROVE run[k] = Signed(run[k - 1], contexts[k])
  <2>1. run[k - 1] \in Seq(M)
    OBVIOUS
  <2> QED BY <1>7, <2>1 DEF next
<1> QED BY <1>5, <1>7, <1>8 DEF SignsInTurn

ServesInTurn(n, contexts) ==
  \E run \in [0..n -> Services] :
    /\ run[0] = "auto"
    /\ \A k \in 1..n :
         run[k] = IF contexts[k].delivery = "inherit" THEN run[k - 1] ELSE contexts[k].delivery
    /\ EffectiveDeliveryService(contexts) = run[n]

LEMMA ServicesRun ==
  ASSUME NEW D, NEW M, NEW n \in Nat, NEW contexts \in [1..n -> AnyContext(D, M)]
  PROVE  ServesInTurn(n, contexts)
<1> DEFINE Turn(iter) ==
      iter = [s \in SUBSET (1..n) |->
                IF s = {} THEN "auto"
                ELSE IF contexts[Max(s)].delivery = "inherit" THEN iter[s \ {Max(s)}]
                ELSE contexts[Max(s)].delivery]
    next == [k \in 1..n |->
               [current \in Services |->
                  IF contexts[k].delivery = "inherit" THEN current ELSE contexts[k].delivery]]
<1>0. DOMAIN contexts = 1..n
  OBVIOUS
<1>1. EffectiveDeliveryService(contexts) = (CHOOSE iter : Turn(iter))[1..n]
  BY <1>0, Zenon DEF EffectiveDeliveryService, FoldLeft, MapThenFoldSet
<1>2. next \in [1..n -> [Services -> Services]] /\ "auto" \in Services
  BY DEF Services, AnyContext
<1>3. ASSUME NEW s \in SUBSET (1..n), s # {}, NEW current \in Services
      PROVE  next[Max(s)][current] =
               IF contexts[Max(s)].delivery = "inherit" THEN current ELSE contexts[Max(s)].delivery
  <2>1. Max(s) \in 1..n
    BY <1>3, Greatest
  <2> QED BY <2>1
<1> HIDE DEF next
<1>4. \E iter : Turn(iter)
  <2>1. PICK it \in [SUBSET (1..n) -> Services] : Follows(it, n, "auto", next)
    BY <1>2, FoldExists
  <2>2. \A s \in SUBSET (1..n) : it[s \ {Max(s)}] \in Services
    BY <2>1
  <2>3. Turn(it)
    BY <2>1, <2>2, <1>3, Zenon DEF Follows
  <2> QED BY <2>3, Zenon
<1>5. PICK iter : Turn(iter) /\ EffectiveDeliveryService(contexts) = iter[1..n]
  BY <1>1, <1>4, Zenon
<1>6. FollowsIn(Services, iter, n, "auto", next)
  BY <1>3, <1>5, Zenon DEF FollowsIn
<1>7. PICK run \in [0..n -> Services] :
        /\ run[0] = "auto"
        /\ \A k \in 1..n : run[k] = next[k][run[k - 1]]
        /\ run[n] = iter[1..n]
  <2>1. Loops(Services, n, "auto", next, iter[1..n])
    BY <1>2, <1>6, FoldRuns
  <2> QED BY <2>1, Zenon DEF Loops
<1>8. ASSUME NEW k \in 1..n
      PROVE  run[k] = IF contexts[k].delivery = "inherit" THEN run[k - 1] ELSE contexts[k].delivery
  <2>1. run[k - 1] \in Services
    OBVIOUS
  <2> QED BY <1>7, <2>1 DEF next
<1> QED BY <1>5, <1>7, <1>8 DEF ServesInTurn

-----------------------------------------------------------------------------
(* The posture that is left is the lowest one.                             *)
LEMMA LowestPosture ==
  ASSUME NEW n \in Nat, NEW contexts, DOMAIN contexts = 1..n,
         \A i \in 1..n : contexts[i].posture \in Postures
  PROVE  LET lowest == MostRestrictiveReplyPosture(contexts) IN
           /\ lowest \in Postures
           /\ \A i \in 1..n : lowest <= contexts[i].posture
           /\ lowest = AlwaysReply \/ \E i \in 1..n : contexts[i].posture = lowest
<1>1. PICK run \in [0..n -> Postures] :
        /\ run[0] = AlwaysReply
        /\ \A k \in 1..n :
             run[k] = IF contexts[k].posture < run[k - 1] THEN contexts[k].posture ELSE run[k - 1]
        /\ MostRestrictiveReplyPosture(contexts) = run[n]
  BY PosturesRun
<1> DEFINE Lowest(k) == /\ \A i \in 1..k : run[k] <= contexts[i].posture
                        /\ run[k] = AlwaysReply \/ \E i \in 1..k : contexts[i].posture = run[k]
           S == {k \in 0..n : Lowest(k)}
<1>2. 0 \in S
  BY <1>1
<1>3. ASSUME NEW k \in 1..n, k - 1 \in S PROVE k \in S
  <2>1. Lowest(k - 1)
    BY <1>3
  <2>2. /\ run[k] \in 0..3 /\ run[k - 1] \in 0..3 /\ contexts[k].posture \in 0..3
        /\ \A i \in 1..k - 1 : contexts[i].posture \in 0..3
    BY DEF Postures
  <2>3. \A i \in 1..k : i = k \/ i \in 1..k - 1
    OBVIOUS
  <2>4. CASE contexts[k].posture < run[k - 1]
    <3>1. run[k] = contexts[k].posture
      BY <1>1, <2>4
    <3> QED BY <2>1, <2>2, <2>3, <2>4, <3>1
  <2>5. CASE ~(contexts[k].posture < run[k - 1])
    <3>1. run[k] = run[k - 1]
      BY <1>1, <2>5
    <3> QED BY <2>1, <2>2, <2>3, <2>5, <3>1
  <2> QED BY <2>4, <2>5
<1>4. n \in S
  <2>1. n \in 0..n
    OBVIOUS
  <2> HIDE DEF S
  <2> QED BY <1>2, <1>3, <2>1, InTurns
<1> QED BY <1>1, <1>4

(* "Privacy and safety constraints are conservative" (docs/data-model.md): *)
(* the bundle of any number of contexts is no freer than any of them, in   *)
(* posture, tone and details, and no stricter than they require            *)
(* (ContextService.resolve).                                               *)
THEOREM MergeIsConservative ==
  \A D, M, start : \A contexts \in Seq(AnyContext(D, M)) :
    Conservative(Effective(start, contexts), contexts)
<1> SUFFICES ASSUME NEW D, NEW M, NEW start, NEW contexts \in Seq(AnyContext(D, M))
             PROVE  Conservative(Effective(start, contexts), contexts)
  OBVIOUS
<1> DEFINE n == Len(contexts)
           bundle == Effective(start, contexts)
<1>1. n \in Nat /\ DOMAIN contexts = 1..n /\ \A i \in 1..n : contexts[i] \in AnyContext(D, M)
  OBVIOUS
<1>2. \A i \in 1..n : contexts[i].posture \in Postures
  BY <1>1 DEF AnyContext
<1>3. /\ bundle.posture = MostRestrictiveReplyPosture(contexts)
      /\ bundle.tone = EffectiveTone(contexts)
      /\ bundle.details = Intersection([i \in DOMAIN contexts |-> contexts[i].details])
  BY DEF Effective
<1> HIDE DEF n, bundle
<1>4. /\ \A i \in DOMAIN contexts : bundle.posture <= contexts[i].posture
      /\ bundle.posture = AlwaysReply \/ \E i \in DOMAIN contexts : contexts[i].posture = bundle.posture
  BY <1>1, <1>2, <1>3, LowestPosture
<1>5. \A i \in DOMAIN contexts : contexts[i].tone = "avoid_rude" => bundle.tone = "avoid_rude"
  BY <1>3 DEF EffectiveTone
<1> DEFINE values == [i \in DOMAIN contexts |-> contexts[i].details]
           populated == {values[i] : i \in DOMAIN values} \ {{}}
<1>7. bundle.details = {item \in UNION populated : \A items \in populated : item \in items}
  BY <1>3 DEF Intersection
<1>8. populated = {contexts[i].details : i \in DOMAIN contexts} \ {{}}
  OBVIOUS
<1> HIDE DEF populated
<1>9. \A i \in DOMAIN contexts : contexts[i].details # {} => bundle.details \subseteq contexts[i].details
  BY <1>7, <1>8
<1>10. ASSUME NEW detail \in UNION {contexts[i].details : i \in DOMAIN contexts},
              \A i \in DOMAIN contexts : contexts[i].details = {} \/ detail \in contexts[i].details
       PROVE  detail \in bundle.details
  <2>1. \A items \in populated : detail \in items
    BY <1>8, <1>10
  <2>2. detail \in UNION populated
    BY <1>8
  <2> QED BY <1>7, <2>1, <2>2
<1> QED
  BY <1>4, <1>5, <1>9, <1>10 DEF Conservative, bundle

-----------------------------------------------------------------------------
(* Layered for the first k contexts: those whose mark counts, the          *)
(* overrides among them, those no override follows, and what they stand on.*)
Counts(contexts, k) ==
  {i \in 1..k : contexts[i].mark # NoMark /\ contexts[i].mode # "inherit"}
Overrides(contexts, k) == {i \in Counts(contexts, k) : contexts[i].mode = "override"}
Stays(contexts, k) == {i \in Counts(contexts, k) : \A j \in Overrides(contexts, k) : j <= i}
Ground(start, contexts, k) == IF Overrides(contexts, k) = {} THEN start ELSE <<>>
UpTo(S, i) == {j \in S : j <= i}
LayeredUpTo(signed, start, contexts, k) ==
  LET ground == Ground(start, contexts, k)
      stays == Stays(contexts, k)
  IN /\ Len(signed) = Len(ground) + Cardinality(stays)
     /\ \A x \in DOMAIN ground : signed[x] = ground[x]
     /\ \A i \in stays : signed[Len(ground) + Cardinality(UpTo(stays, i))] = contexts[i].mark

(* What one more context does to these.                                    *)
LEMMA OneMoreInherits ==
  ASSUME NEW n \in Nat, NEW contexts, NEW k \in 1..n,
         contexts[k].mark = NoMark \/ contexts[k].mode = "inherit"
  PROVE  /\ Overrides(contexts, k) = Overrides(contexts, k - 1)
         /\ Stays(contexts, k) = Stays(contexts, k - 1)
<1>1. \A i \in 1..k : i = k \/ i \in 1..k - 1
  OBVIOUS
<1>2. \A i \in 1..k - 1 : i \in 1..k
  OBVIOUS
<1>3. Counts(contexts, k) = Counts(contexts, k - 1)
  BY <1>1, <1>2, Zenon DEF Counts
<1> QED BY <1>3 DEF Overrides, Stays

LEMMA OneMoreAppends ==
  ASSUME NEW n \in Nat, NEW contexts, NEW k \in 1..n,
         contexts[k].mark # NoMark, contexts[k].mode \notin {"inherit", "override"}
  PROVE  /\ Overrides(contexts, k) = Overrides(contexts, k - 1)
         /\ Stays(contexts, k) = Stays(contexts, k - 1) \cup {k}
<1>1. \A i : i \in 1..k <=> i = k \/ i \in 1..k - 1
  OBVIOUS
<1>2. Counts(contexts, k) = Counts(contexts, k - 1) \cup {k}
  BY <1>1, Zenon DEF Counts
<1>3. Overrides(contexts, k) = Overrides(contexts, k - 1)
  BY <1>2, Zenon DEF Overrides
<1>4. \A j \in Overrides(contexts, k - 1) : j <= k
  BY DEF Overrides, Counts
<1> QED BY <1>2, <1>3, <1>4, Zenon DEF Stays

LEMMA OneMoreOverrides ==
  ASSUME NEW n \in Nat, NEW contexts, NEW k \in 1..n,
         contexts[k].mark # NoMark, contexts[k].mode = "override"
  PROVE  Overrides(contexts, k) # {} /\ Stays(contexts, k) = {k}
<1>1. k \in 1..k /\ \A i \in 1..k : k <= i => i = k
  OBVIOUS
<1>2. k \in Overrides(contexts, k) /\ \A j \in Overrides(contexts, k) : j \in 1..k
  BY <1>1 DEF Overrides, Counts
<1>3. k \in Counts(contexts, k) /\ \A j \in Counts(contexts, k) : j \in 1..k
  BY <1>2 DEF Overrides, Counts
<1>4. \A j \in 1..k : j <= k
  OBVIOUS
<1> QED BY <1>1, <1>2, <1>3, <1>4 DEF Stays

(* Places among a finite set of numbers.                                   *)
LEMMA Places ==
  ASSUME NEW k \in Nat, NEW S \in SUBSET (1..k)
  PROVE  /\ IsFiniteSet(S) /\ Cardinality(S) \in Nat
         /\ \A i \in S : Cardinality(UpTo(S, i)) \in 1..Cardinality(S)
<1>1. IsFiniteSet(S) /\ Cardinality(S) \in Nat
  <2>1. IsFiniteSet(1..k)
    BY FS_Interval
  <2> QED BY <2>1, FS_Subset, FS_CardinalityType
<1>2. ASSUME NEW i \in S PROVE Cardinality(UpTo(S, i)) \in 1..Cardinality(S)
  <2>1. UpTo(S, i) \subseteq S /\ i \in UpTo(S, i)
    BY DEF UpTo
  <2>2. /\ Cardinality(UpTo(S, i)) <= Cardinality(S) /\ Cardinality(UpTo(S, i)) \in Nat
        /\ IsFiniteSet(UpTo(S, i))
    BY <1>1, <2>1, FS_Subset, FS_CardinalityType
  <2>3. Cardinality(UpTo(S, i)) # 0
    BY <2>1, <2>2, FS_EmptySet
  <2> QED BY <1>1, <2>2, <2>3
<1> QED BY <1>1, <1>2

(* One more context keeps the layers.                                      *)
LEMMA OneMoreLayers ==
  ASSUME NEW D, NEW M, NEW start \in Seq(M), NEW n \in Nat,
         NEW contexts \in [1..n -> AnyContext(D, M)], NEW k \in 1..n,
         NEW signed \in Seq(M), LayeredUpTo(signed, start, contexts, k - 1)
  PROVE  LayeredUpTo(Signed(signed, contexts[k]), start, contexts, k)
<1> DEFINE stays == Stays(contexts, k - 1)
           ground == Ground(start, contexts, k - 1)
<1>1. stays \in SUBSET (1..k - 1) /\ k - 1 \in Nat
  BY DEF Stays, Counts
<1>2. /\ IsFiniteSet(stays) /\ Cardinality(stays) \in Nat
      /\ \A i \in stays : Cardinality(UpTo(stays, i)) \in 1..Cardinality(stays)
  <2> HIDE DEF stays
  <2> QED BY <1>1, Places
<1>3. ground \in Seq(M) /\ Len(ground) \in Nat /\ DOMAIN ground = 1..Len(ground)
  BY DEF Ground
<1>4. /\ Len(signed) = Len(ground) + Cardinality(stays)
      /\ \A x \in DOMAIN ground : signed[x] = ground[x]
      /\ \A i \in stays : signed[Len(ground) + Cardinality(UpTo(stays, i))] = contexts[i].mark
  BY Zenon DEF LayeredUpTo
<1>5. contexts[k].mark \in M
  BY DEF AnyContext
<1>6. CASE contexts[k].mark = NoMark \/ contexts[k].mode = "inherit"
  <2>1. Signed(signed, contexts[k]) = signed
    BY <1>6 DEF Signed
  <2>2. Stays(contexts, k) = stays /\ Ground(start, contexts, k) = ground
    BY <1>6, OneMoreInherits DEF Ground
  <2> QED BY <2>1, <2>2, Zenon DEF LayeredUpTo
<1>7. CASE contexts[k].mark # NoMark /\ contexts[k].mode \notin {"inherit", "override"}
  <2>1. Signed(signed, contexts[k]) = Append(signed, contexts[k].mark)
    BY <1>7 DEF Signed
  <2>2. Stays(contexts, k) = stays \cup {k} /\ Ground(start, contexts, k) = ground
    BY <1>7, OneMoreAppends DEF Ground
  <2> DEFINE longer == Append(signed, contexts[k].mark)
  <2>3. /\ Len(longer) = Len(signed) + 1
        /\ \A x \in 1..Len(signed) : longer[x] = signed[x]
        /\ longer[Len(signed) + 1] = contexts[k].mark
    BY <1>5, AppendProperties
  <2>4. k \notin stays /\ Cardinality(stays \cup {k}) = Cardinality(stays) + 1
    <3>1. k \notin stays
      <4> HIDE DEF stays
      <4> QED BY <1>1
    <3> HIDE DEF stays
    <3> QED BY <1>2, <3>1, FS_AddElement
  <2>5. UpTo(stays \cup {k}, k) = stays \cup {k}
    <3>1. k <= k /\ \A j \in stays : j <= k
      <4> HIDE DEF stays
      <4> QED BY <1>1
    <3> HIDE DEF stays
    <3> QED BY <3>1, Zenon DEF UpTo
  <2>6. \A i \in stays : UpTo(stays \cup {k}, i) = UpTo(stays, i)
    <3> HIDE DEF stays
    <3> QED BY <1>1 DEF UpTo
  <2> HIDE DEF stays, ground, longer
  <2>7. Len(longer) = Len(ground) + Cardinality(stays \cup {k})
    BY <1>2, <1>3, <1>4, <2>3, <2>4
  <2>8. \A x \in DOMAIN ground : longer[x] = ground[x]
    BY <1>2, <1>3, <1>4, <2>3
  <2>9. ASSUME NEW i \in stays \cup {k}
        PROVE  longer[Len(ground) + Cardinality(UpTo(stays \cup {k}, i))] = contexts[i].mark
    <3>1. CASE i = k
      <4>1. Cardinality(UpTo(stays \cup {k}, i)) = Cardinality(stays) + 1
        BY <2>4, <2>5, <3>1, Zenon
      <4>2. Len(ground) + (Cardinality(stays) + 1) = Len(signed) + 1
        BY <1>2, <1>3, <1>4
      <4> QED BY <2>3, <3>1, <4>1, <4>2, Zenon
    <3>2. CASE i \in stays
      <4>1. Len(ground) + Cardinality(UpTo(stays, i)) \in 1..Len(signed)
        BY <1>2, <1>3, <1>4, <3>2
      <4> QED BY <1>4, <2>3, <2>6, <3>2, <4>1
    <3> QED BY <3>1, <3>2
  <2> QED BY <2>1, <2>2, <2>7, <2>8, <2>9, Zenon DEF LayeredUpTo, longer
<1>8. CASE contexts[k].mark # NoMark /\ contexts[k].mode = "override"
  <2>1. Signed(signed, contexts[k]) = <<contexts[k].mark>>
    BY <1>8 DEF Signed
  <2>2. Stays(contexts, k) = {k} /\ Ground(start, contexts, k) = <<>>
    BY <1>8, OneMoreOverrides DEF Ground
  <2>3. UpTo({k}, k) = {k}
    BY DEF UpTo
  <2>4. Cardinality({k}) = 1
    BY FS_Singleton
  <2>5. Len(<<contexts[k].mark>>) = 1 /\ <<contexts[k].mark>>[1] = contexts[k].mark
    OBVIOUS
  <2>6. Len(<<>>) = 0 /\ DOMAIN <<>> = {}
    OBVIOUS
  <2> DEFINE new == <<contexts[k].mark>>
  <2> HIDE DEF new
  <2>7. Len(new) = Len(<<>>) + Cardinality({k})
    BY <2>4, <2>5, <2>6 DEF new
  <2>8. \A i \in {k} : new[Len(<<>>) + Cardinality(UpTo({k}, i))] = contexts[i].mark
    <3>1. Cardinality(UpTo({k}, k)) = 1
      BY <2>3, <2>4, Zenon
    <3>2. Len(<<>>) + 1 = 1
      BY <2>6
    <3> QED BY <2>5, <3>1, <3>2, Zenon DEF new
  <2> QED BY <2>1, <2>2, <2>6, <2>7, <2>8, Zenon DEF LayeredUpTo, new
<1> QED BY <1>6, <1>7, <1>8

LEMMA SignatureLayered ==
  ASSUME NEW D, NEW M, NEW start \in Seq(M), NEW n \in Nat,
         NEW contexts \in [1..n -> AnyContext(D, M)]
  PROVE  LayeredUpTo(EffectiveSignature(start, contexts), start, contexts, n)
<1>1. PICK run \in [0..n -> Seq(M)] :
        /\ run[0] = start
        /\ \A k \in 1..n : run[k] = Signed(run[k - 1], contexts[k])
        /\ EffectiveSignature(start, contexts) = run[n]
  <2>1. SignsInTurn(M, start, n, contexts)
    BY MarksRun
  <2> QED BY <2>1, Zenon DEF SignsInTurn
<1> DEFINE S == {k \in 0..n : LayeredUpTo(run[k], start, contexts, k)}
<1>2. 0 \in S
  <2>1. Counts(contexts, 0) = {}
    BY DEF Counts
  <2>2. Stays(contexts, 0) = {} /\ Ground(start, contexts, 0) = start
    BY <2>1 DEF Stays, Ground, Overrides
  <2>3. Len(start) = Len(start) + Cardinality({})
    BY FS_EmptySet
  <2>4. LayeredUpTo(start, start, contexts, 0)
    BY <2>2, <2>3, Zenon DEF LayeredUpTo
  <2> QED BY <1>1, <2>4
<1>3. ASSUME NEW k \in 1..n, k - 1 \in S PROVE k \in S
  <2>1. LayeredUpTo(run[k - 1], start, contexts, k - 1) /\ run[k - 1] \in Seq(M) /\ k \in 0..n
    BY <1>3
  <2>2. LayeredUpTo(Signed(run[k - 1], contexts[k]), start, contexts, k)
    BY <2>1, OneMoreLayers
  <2> QED BY <1>1, <2>1, <2>2
<1>4. n \in S
  <2>1. n \in 0..n
    OBVIOUS
  <2> HIDE DEF S
  <2> QED BY <1>2, <1>3, <2>1, InTurns
<1> QED BY <1>1, <1>4

LEMMA ServiceIsLast ==
  ASSUME NEW D, NEW M, NEW n \in Nat, NEW contexts \in [1..n -> AnyContext(D, M)]
  PROVE  LET chosen == {i \in 1..n : contexts[i].delivery # "inherit"}
             service == EffectiveDeliveryService(contexts)
         IN /\ chosen = {} => service = "auto"
            /\ \A i \in chosen : (\A j \in chosen : j <= i) => service = contexts[i].delivery
<1>1. PICK run \in [0..n -> Services] :
        /\ run[0] = "auto"
        /\ \A k \in 1..n :
             run[k] = IF contexts[k].delivery = "inherit" THEN run[k - 1] ELSE contexts[k].delivery
        /\ EffectiveDeliveryService(contexts) = run[n]
  <2>1. ServesInTurn(n, contexts)
    BY ServicesRun
  <2> QED BY <2>1, Zenon DEF ServesInTurn
<1> DEFINE Chosen(k) == {i \in 1..k : contexts[i].delivery # "inherit"}
           IsLast(k) ==
             /\ Chosen(k) = {} => run[k] = "auto"
             /\ \A i \in Chosen(k) : (\A j \in Chosen(k) : j <= i) => run[k] = contexts[i].delivery
           S == {k \in 0..n : IsLast(k)}
<1>2. 0 \in S
  <2>1. Chosen(0) = {}
    OBVIOUS
  <2> QED BY <1>1, <2>1
<1>3. ASSUME NEW k \in 1..n, k - 1 \in S PROVE k \in S
  <2>1. IsLast(k - 1) /\ k \in 0..n
    BY <1>3
  <2>2. \A i : i \in 1..k <=> i = k \/ i \in 1..k - 1
    OBVIOUS
  <2>3. CASE contexts[k].delivery = "inherit"
    <3>1. run[k] = run[k - 1]
      BY <1>1, <2>3
    <3>2. Chosen(k) = Chosen(k - 1)
      BY <2>2, <2>3, Zenon
    <3> HIDE DEF Chosen
    <3> QED BY <2>1, <3>1, <3>2, Zenon
  <2>4. CASE contexts[k].delivery # "inherit"
    <3>1. run[k] = contexts[k].delivery
      BY <1>1, <2>4
    <3>2. k \in Chosen(k)
      BY <2>4
    <3>3. \A i \in Chosen(k) : k <= i => i = k
      OBVIOUS
    <3> HIDE DEF Chosen
    <3> QED BY <2>1, <3>1, <3>2, <3>3, Zenon
  <2> QED BY <2>3, <2>4
<1>4. n \in S
  <2>1. n \in 0..n
    OBVIOUS
  <2> HIDE DEF S
  <2> QED BY <1>2, <1>3, <2>1, InTurns
<1> QED BY <1>1, <1>4, Zenon

(* "Each context can inherit the current signature, append a suffix, or    *)
(* override it entirely" (docs/data-model.md): whatever the tenant's       *)
(* signature and however many contexts, what is signed is the last         *)
(* override, or the tenant's, and the later appended marks in their order, *)
(* and the delivery service is the last one chosen.                        *)
THEOREM MergeIsLayered ==
  \A D, M : \A start \in Seq(M), contexts \in Seq(AnyContext(D, M)) :
    Layered(Effective(start, contexts), start, contexts)
<1> SUFFICES ASSUME NEW D, NEW M, NEW start \in Seq(M), NEW contexts \in Seq(AnyContext(D, M))
             PROVE  Layered(Effective(start, contexts), start, contexts)
  OBVIOUS
<1> DEFINE n == Len(contexts)
           bundle == Effective(start, contexts)
<1>1. n \in Nat /\ DOMAIN contexts = 1..n /\ contexts \in [1..n -> AnyContext(D, M)]
  OBVIOUS
<1>2. /\ bundle.signature = EffectiveSignature(start, contexts)
      /\ bundle.delivery = EffectiveDeliveryService(contexts)
  BY DEF Effective
<1> HIDE DEF n, bundle
<1>3. LayeredUpTo(bundle.signature, start, contexts, n)
  BY <1>1, <1>2, SignatureLayered
<1> DEFINE chosen == {i \in 1..n : contexts[i].delivery # "inherit"}
<1>4. /\ chosen = {} => bundle.delivery = "auto"
      /\ \A i \in chosen : (\A j \in chosen : j <= i) => bundle.delivery = contexts[i].delivery
  BY <1>1, <1>2, ServiceIsLast, SMTT(30)
<1>5. Layered(bundle, start, contexts)
  BY <1>1, <1>3, <1>4, Zenon
     DEF Layered, LayeredUpTo, Ground, Stays, Overrides, Counts, UpTo
<1> QED BY <1>5 DEF bundle
=============================================================================
