------------------------------- MODULE Options -------------------------------
(***************************************************************************)
(* Groups of choices: what the catalogue accepts when an owner defines one *)
(* (options.go) and what the cart accepts when a customer picks from it    *)
(* (cart, resolve.go).  Names and prices are left out.                     *)
(***************************************************************************)
EXTENDS Integers, FiniteSets

CONSTANT MaxOptions     \* bound: options of a group looked at

ASSUME MaxOptionsAssumption == MaxOptions \in Nat

Refused == [refused |-> TRUE]

(* The bodies a shop's app may send: any counts, sensible or not.          *)
GroupBody == [required : BOOLEAN, min : -1..(MaxOptions + 1), max : -1..(MaxOptions + 1),
              options : 0..MaxOptions]

Group(required, min, max, options) ==
    IF options = 0 \/ min > max \/ max > options THEN Refused
    ELSE [required |-> required, min |-> min, max |-> max, options |-> options]

(* NewVariantGroup: one choice unless more are said, and a group that must *)
(* be chosen from needs one at least.                                      *)
NewVariantGroup(b) ==
    LET max == IF b.max <= 0 THEN 1 ELSE b.max
        min == IF b.required /\ b.min < 1 THEN 1 ELSE IF b.min < 0 THEN 0 ELSE b.min
    IN  Group(b.required, min, max, b.options)

(* NewAddOnGroup: never required, and any maximum out of range means all.  *)
NewAddOnGroup(b) ==
    LET max == IF b.max <= 0 \/ b.max > b.options THEN b.options ELSE b.max
        min == IF b.min < 0 THEN 0 ELSE b.min
    IN  Group(FALSE, min, max, b.options)

GroupsAccepted == ({NewVariantGroup(b) : b \in GroupBody} \cup {NewAddOnGroup(b) : b \in GroupBody})
                    \ {Refused}

(* checkGroup: a group nobody touched is skipped unless it is required.    *)
CheckGroupMinFirst(g, picked) ==
    /\ picked >= g.min
    /\ picked <= g.max

CheckGroup(g, picked) ==
    /\ g.required => picked # 0
    /\ picked # 0 => picked >= g.min /\ picked <= g.max

(* chooseOptions: each option at most once, and only one that is there.    *)
MayChoose(g, available) == \E picked \in 0..available : CheckGroup(g, picked)

-----------------------------------------------------------------------------
(* The catalogue and the cart read a group's bounds alike: a group a shop  *)
(* was allowed to define can always be chosen from while all its options   *)
(* are there, up to its maximum, and never forces itself on a customer     *)
(* unless it is required (options.go, resolve.go).                         *)
EveryGroupCanBeChosen ==
    \A g \in GroupsAccepted : /\ MayChoose(g, g.options)
                              /\ CheckGroup(g, g.max) /\ g.max >= 1
                              /\ CheckGroup(g, 0) <=> ~g.required

(* service.go, ToContractItem: an item is offered for what it is itself. A *)
(* required group whose options have all run out still lets it be offered. *)
OfferedItemsCanBeChosen == \A g \in GroupsAccepted : \A n \in 0..g.options : MayChoose(g, n)
=============================================================================
