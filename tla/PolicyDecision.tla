--------------------------- MODULE PolicyDecision ---------------------------
(***************************************************************************)
(* What a loaded policy allows.  Two implementations answer that: the      *)
(* middleware asks the enforcer (AllowContext), where a role manager with  *)
(* a limited depth and keyMatch decide over the bytes of the stored codes; *)
(* menus and bindings ask the domain layer (ResolveCodes, Covers).         *)
(*                                                                         *)
(* A code is a sequence of characters, because keyMatch compares bytes and *)
(* knows nothing of segments.                                              *)
(***************************************************************************)
EXTENDS Naturals, FiniteSets, SequencesExt

CONSTANTS
    Role,
    Letter, Digit,  \* characters that segments are made of
    Sep, Star,      \* permCodeSep and permCodeWildcard
    MaxCode,        \* maxPermCodeLen, shorter
    MaxSegment      \* maxPermSegmentLen, shorter

ASSUME CharAssumption ==
    /\ Sep # Star /\ {Sep, Star} \cap (Letter \cup Digit) = {}
    /\ Letter \cap Digit = {}
    /\ MaxCode \in Nat /\ MaxSegment \in Nat

Text == UNION {[1 .. n -> Letter \cup Digit \cup {Sep, Star}] : n \in 0 .. MaxCode}

VARIABLES
    grants,         \* the p rules: <<role, code>>
    parents,        \* the g rules: <<child, parent>>
    asked           \* the role of a principal and the code a method requires

vars == <<grants, parents, asked>>

-----------------------------------------------------------------------------
(* PermissionCode.                                                         *)

Has(s, ch) == \E i \in DOMAIN s : s[i] = ch

(* strings.Split at Sep.                                                   *)
Segments(s) ==
    LET seps(i) == Cardinality({j \in 1 .. i : s[j] = Sep})
        ends(k) == {i \in DOMAIN s : s[i] = Sep /\ seps(i) = k}
        end(k) == CHOOSE i \in IF k = 0 THEN {0} ELSE ends(k) \cup {Len(s) + 1} :
                      \A j \in ends(k) : i <= j
    IN  [k \in 1 .. seps(Len(s)) + 1 |-> SubSeq(s, end(k - 1) + 1, end(k) - 1)]

validPermissionSegment(seg) ==
    seg # <<>> /\ seg[1] \in Letter /\ \A i \in DOMAIN seg : seg[i] \in Letter \cup Digit

(* Mutant: the wildcard may stand for any segment.                         *)
NewPermissionCodeAnyStar(s) ==
    LET segments == Segments(s)
    IN  /\ Len(s) <= MaxCode /\ Len(segments) >= 2
        /\ \A k \in DOMAIN segments :
              /\ Len(segments[k]) <= MaxSegment
              /\ validPermissionSegment(segments[k]) \/ segments[k] = <<Star>>
        /\ Has(s, Star) \/ Len(segments) = 3

(* s is accepted: three plain segments, or any number of plain ones before *)
(* a wildcard.  The empty code of a directory is not considered here.      *)
NewPermissionCode(s) ==
    LET segments == Segments(s)
    IN  /\ Len(s) <= MaxCode /\ Len(segments) >= 2
        /\ \A k \in DOMAIN segments :
              /\ Len(segments[k]) <= MaxSegment
              /\ \/ validPermissionSegment(segments[k])
                 \/ segments[k] = <<Star>> /\ k = Len(segments)
        /\ Has(s, Star) \/ Len(segments) = 3

Code == {s \in Text : NewPermissionCode(s)}
Concrete == {s \in Code : ~Has(s, Star)}

(* What is before the first wildcard.                                      *)
Before(s) ==
    LET first == CHOOSE i \in DOMAIN s : s[i] = Star /\ ~Has(SubSeq(s, 1, i - 1), Star)
    IN  SubSeq(s, 1, first - 1)

Covers(c, target) ==
    IF Has(c, Star) THEN IsPrefix(Before(c), target) ELSE c = target

(* util.KeyMatch of casbin.                                                *)
keyMatch(obj, policy) ==
    LET prefix == Before(policy)
    IN  IF ~Has(policy, Star) THEN obj = policy
        ELSE IF Len(obj) > Len(prefix) THEN SubSeq(obj, 1, Len(prefix)) = prefix
        ELSE obj = prefix

-----------------------------------------------------------------------------
(* The enforcer.                                                           *)

Init == grants = {} /\ parents = {} /\ asked \in Role \X Concrete

(* A binding replaces the one before; one code at a time is enough, for a  *)
(* decision looks at each by itself.                                       *)
SetRolePermissions(r, c) ==
    /\ grants' = {g \in grants : g[1] # r} \cup {<<r, c>>}
    /\ Cardinality(grants') <= 1
    /\ UNCHANGED <<parents, asked>>

AddRoleInheritance(child, parent) ==
    /\ child # parent
    /\ parents' = parents \cup {<<child, parent>>}
    /\ UNCHANGED <<grants, asked>>

Next ==
    \/ \E r \in Role, c \in Code : SetRolePermissions(r, c)
    \/ \E child, parent \in Role : AddRoleInheritance(child, parent)

Spec == Init /\ [][Next]_vars

(* Mutant: a fixed depth, as casbin's default of 10 levels.                *)
DepthFixed == 1

(* rebuildRoleLinks.                                                       *)
Depth == Cardinality(parents) + 1

(* HasLink of casbin's role manager goes up level by level.  The roles it  *)
(* finds from r:                                                           *)
Linked(r) ==
    LET level[k \in 0 .. Depth] ==
            IF k = 0 THEN {r}
            ELSE LET below == level[k - 1]
                 IN  {t \in Role : \E s \in below : <<s, t>> \in parents}
    IN  UNION {level[k] : k \in 0 .. Depth}

(* The matcher of ModelText, for one of the roles of a principal.          *)
AllowContext(r, obj) ==
    \E g \in grants :
        (obj = g[2] \/ keyMatch(obj, g[2])) /\ g[1] \in Linked(r)

(* GetImplicitPermissionsForUser has no limit: all that inherits from r.   *)
Implied(r) ==
    {t \in Role : \A S \in SUBSET Role :
        r \in S /\ (\A e \in parents : e[1] \in S => e[2] \in S) => t \in S}

PermissionsOf(r) == {g[2] : g \in {g \in grants : g[1] \in Implied(r)}}

-----------------------------------------------------------------------------
(* Properties.                                                             *)

(* What a code means: itself, or everything under its leading segments.    *)
Means(c, target) ==
    LET leading == Front(Segments(c))
    IN  IF Last(Segments(c)) = <<Star>>
        THEN IsStrictPrefix(leading, Segments(target))
        ELSE c = target

(* For any role and any method's code, what the enforcer lets through,     *)
(* what menus and bindings show as granted, and what the codes mean        *)
(* segment by segment are the same, however long the chain of roles        *)
(* (permissioncode.go:157, rebuildRoleLinks).                              *)
DecisionsAgree ==
    LET obj == asked[2]
        codes == PermissionsOf(asked[1])
        allowed == AllowContext(asked[1], obj)
    IN  /\ allowed <=> \E c \in codes : Covers(c, obj)
        /\ allowed <=> \E c \in codes : Means(c, obj)

=============================================================================
