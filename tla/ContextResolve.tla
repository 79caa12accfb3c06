--------------------------- MODULE ContextResolve ---------------------------
(***************************************************************************)
(* The pure part of ContextService.resolve                                 *)
(* (packages/core/src/services/context.ts): how the contexts of a          *)
(* conversation, contacts in key order and then the room, are merged into  *)
(* the effective bundle.  A context is a record                            *)
(*   [posture, tone, details, mode, mark, delivery];                       *)
(* postures are their replyPostureRank, a signature is the sequence of the *)
(* marks it is put together from, an empty signatureValue is NoMark.       *)
(***************************************************************************)
EXTENDS Naturals, Sequences, SequencesExt, FiniteSets

CONSTANT NoMark

Postures == 0..3
DoNotReply == 0
AlwaysReply == 3

Tones == {"warm", "direct", "avoid_rude"}
Modes == {"inherit", "append", "override"}
Services == {"auto", "imessage", "sms"}

LeastRestrictiveReplyPosture(contexts) ==
  FoldLeft(LAMBDA current, c : IF c.posture > current THEN c.posture ELSE current,
           DoNotReply, contexts)
MostRestrictiveReplyPosture(contexts) ==
  FoldLeft(LAMBDA current, c : IF c.posture < current THEN c.posture ELSE current,
           AlwaysReply, contexts)

(* The lists that declare anything at all, intersected.                    *)
Intersection(values) ==
  LET populated == {values[i] : i \in DOMAIN values} \ {{}} IN
    {item \in UNION populated : \A items \in populated : item \in items}

EffectiveTone(contexts) ==
  IF \E i \in DOMAIN contexts : contexts[i].tone = "avoid_rude" THEN "avoid_rude"
  ELSE IF contexts = <<>> THEN "warm" ELSE contexts[1].tone

Signed(current, c) ==
  IF c.mark = NoMark \/ c.mode = "inherit" THEN current
  ELSE IF c.mode = "override" THEN <<c.mark>> ELSE Append(current, c.mark)
EffectiveSignatureFromLast(signature, contexts) == FoldLeft(Signed, signature, Reverse(contexts))
EffectiveSignature(signature, contexts) == FoldLeft(Signed, signature, contexts)

EffectiveDeliveryService(contexts) ==
  FoldLeft(LAMBDA current, c : IF c.delivery = "inherit" THEN current ELSE c.delivery,
           "auto", contexts)

Effective(signature, contexts) ==
  [posture   |-> MostRestrictiveReplyPosture(contexts),
   details   |-> Intersection([i \in DOMAIN contexts |-> contexts[i].details]),
   tone      |-> EffectiveTone(contexts),
   signature |-> EffectiveSignature(signature, contexts),
   delivery  |-> EffectiveDeliveryService(contexts)]

-----------------------------------------------------------------------------
(* What docs/data-model.md asks of the bundle, written without the loops.  *)

(* do_not_reply wins, avoid_rude wins over other tones, a personal detail  *)
(* is allowed only when every context that declares any allows it, and     *)
(* nothing is more restrictive than its most restrictive context.          *)
Conservative(bundle, contexts) ==
  /\ \A i \in DOMAIN contexts :
       /\ bundle.posture <= contexts[i].posture
       /\ contexts[i].tone = "avoid_rude" => bundle.tone = "avoid_rude"
       /\ contexts[i].details # {} => bundle.details \subseteq contexts[i].details
  /\ bundle.posture = AlwaysReply \/ \E i \in DOMAIN contexts : contexts[i].posture = bundle.posture
  /\ \A detail \in UNION {contexts[i].details : i \in DOMAIN contexts} :
       (\A i \in DOMAIN contexts : contexts[i].details = {} \/ detail \in contexts[i].details)
         => detail \in bundle.details

(* The signature starts at the last override, or at the tenant's when      *)
(* there is none, and the later appended marks follow in order; the        *)
(* delivery service is the last one that is not inherited.                 *)
Layered(bundle, signature, contexts) ==
  LET used == {i \in DOMAIN contexts : contexts[i].mark # NoMark /\ contexts[i].mode # "inherit"}
      overrides == {i \in used : contexts[i].mode = "override"}
      kept == {i \in used : \A j \in overrides : j <= i}
      start == IF overrides = {} THEN signature ELSE <<>>
      chosen == {i \in DOMAIN contexts : contexts[i].delivery # "inherit"}
  IN /\ Len(bundle.signature) = Len(start) + Cardinality(kept)
     /\ \A k \in DOMAIN start : bundle.signature[k] = start[k]
     /\ \A i \in kept :
          bundle.signature[Len(start) + Cardinality({j \in kept : j <= i})] = contexts[i].mark
     /\ chosen = {} => bundle.delivery = "auto"
     /\ \A i \in chosen : (\A j \in chosen : j <= i) => bundle.delivery = contexts[i].delivery
=============================================================================
