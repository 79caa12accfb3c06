--------------------------- MODULE ContextStoreMC ---------------------------
(* Instances of ContextStore for TLC.                                      *)
EXTENDS ContextStore, TLC

Profile(posture, tone, details, mode, mark, delivery) ==
  [posture |-> posture, tone |-> tone, details |-> details,
   mode |-> mode, mark |-> mark, delivery |-> delivery]

(* A person not to be answered, whose signature overrides; one that        *)
(* appends a mark, allows more and leaves the delivery service alone.      *)
SomeProfiles ==
  {Profile(DoNotReply, "warm", {"location"}, "override", "m1", "sms"),
   Profile(3, "avoid_rude", {"location", "agenda"}, "append", "m2", "inherit")}

SomeSignatures == {<<"home">>}

-----------------------------------------------------------------------------
(* The merge over every sequence of up to three contexts, first with all   *)
(* that restricts a reply, then with all that decides how it is signed and *)
(* sent.  It does not depend on the tables: one state, the one with no     *)
(* context and nothing under way, is enough to look at it.                 *)
Pristine == versions = <<>> /\ changes = 0 /\ draft.stage = "none" /\ resolver = Unresolved
Restrictions ==
  {Profile(p, t, d, "inherit", NoMark, "inherit") :
     p \in Postures, t \in Tones, d \in SUBSET {"location", "agenda"}}
Layers ==
  {Profile(2, "warm", {}, m, k, s) :
     m \in Modes, k \in {NoMark, "m1", "m2"}, s \in Services \cup {"inherit"}}

(* "Privacy and safety constraints are conservative" (docs/data-model.md): *)
(* whatever contexts a conversation has, in whatever order.                *)
MergeConservative ==
  Pristine =>
    \A contexts \in BoundedSeq(Restrictions, 3) : Conservative(Effective(<<>>, contexts), contexts)

(* "Each context can inherit the current signature, append a suffix, or    *)
(* override it entirely" (docs/data-model.md), contacts first and the room *)
(* last, on top of whatever the tenant has set.                            *)
MergeLayered ==
  Pristine => \A contexts \in BoundedSeq(Layers, 3), tenants \in {<<>>, <<"home">>} :
    Layered(Effective(tenants, contexts), tenants, contexts)
=============================================================================
