-------------------------- MODULE Decisions_proofs -------------------------
(***************************************************************************)
(* Proofs about the two modules of algorithms: PolicyDecision, for any     *)
(* roles, characters and lengths, and GraphWalks, for any rows.  No two of *)
(* their names collide, so one module extends both.                        *)
(*                                                                         *)
(* The limit that rebuildRoleLinks gives the role manager is long enough:  *)
(* of the ways from a role to another, the shortest uses no relation twice *)
(* (Shortest).  And keyMatch over bytes and Covers over segments are one   *)
(* relation, because the separators before a wildcard are where the code   *)
(* that is asked for has them (SamePrefix, SameSegments).                  *)
(*                                                                         *)
(* A walk is right when the set it has walked is closed: a climb knows     *)
(* that the parents of the ids it has visited are visited, or the one it   *)
(* is at (Climbed); the search that what a role it has seen inherits is    *)
(* seen or on its stack (Searched); and the menus that every entry has its *)
(* parent beside it, but for those the range has still to produce and the  *)
(* one the inner loop is at (Collected).                                   *)
(***************************************************************************)
EXTENDS PolicyDecision, GraphWalks, FiniteSetTheorems, SequenceTheorems,
        WellFoundedInduction, TLAPS

LEMMA Least ==
    ASSUME NEW T \in SUBSET Nat, T # {}
    PROVE  \E m \in T : \A t \in T : m <= t
  <1> DEFINE R == {ss \in Nat \X Nat : ss[1] < ss[2]}
  <1>1. IsWellFoundedOn(R, Nat)
    BY NatLessThanWellFounded DEF OpToRel
  <1> HIDE DEF R
  <1>2. PICK m \in T : \A t \in T : <<t, m>> \notin R
    BY <1>1, WFMin
  <1>3. ASSUME NEW t \in T PROVE m <= t
    <2>1. m \in Nat /\ t \in Nat
      OBVIOUS
    <2>2. ~(t < m)
      BY <1>2, <2>1 DEF R
    <2> QED
      BY <2>1, <2>2
  <1> QED
    BY <1>3

(* The inductive invariant: what the mutators keep of the rules.           *)
RulesOK ==
    /\ grants \subseteq Role \X Code
    /\ parents \subseteq Role \X Role /\ IsFiniteSet(parents)
    /\ asked \in Role \X Concrete

-----------------------------------------------------------------------------
(* The role manager.                                                       *)

(* From r to t in k steps.                                                 *)
Path(w, k) == \A i \in 1 .. k : <<w[i - 1], w[i]>> \in parents

Way(r, t, k) == \E w \in [0 .. k -> Role] : w[0] = r /\ w[k] = t /\ Path(w, k)

LEMMA NoStep ==
    ASSUME NEW r \in Role, NEW t
    PROVE  Way(r, t, 0) <=> t = r
  <1>1. ASSUME t = r PROVE Way(r, t, 0)
    <2> DEFINE w == [i \in 0 .. 0 |-> r]
    <2>1. w \in [0 .. 0 -> Role] /\ w[0] = r /\ Path(w, 0)
      BY DEF Path
    <2> QED
      BY <1>1, <2>1 DEF Way
  <1> QED
    BY <1>1 DEF Way

LEMMA OneStep ==
    ASSUME NEW r \in Role, NEW u \in Role, NEW k \in Nat, parents \subseteq Role \X Role
    PROVE  Way(r, u, k + 1) <=> \E t \in Role : Way(r, t, k) /\ <<t, u>> \in parents
  <1>1. ASSUME Way(r, u, k + 1)
        PROVE  \E t \in Role : Way(r, t, k) /\ <<t, u>> \in parents
    <2>1. PICK w \in [0 .. k + 1 -> Role] : w[0] = r /\ w[k + 1] = u /\ Path(w, k + 1)
      BY <1>1 DEF Way
    <2> DEFINE v == [i \in 0 .. k |-> w[i]]
    <2>2. v \in [0 .. k -> Role] /\ v[0] = r /\ v[k] = w[k] /\ w[k] \in Role
      BY <2>1
    <2>3. Path(v, k)
      BY <2>1 DEF Path
    <2>4. <<w[k], u>> \in parents
      BY <2>1 DEF Path
    <2> HIDE DEF v
    <2> QED
      BY <2>2, <2>3, <2>4 DEF Way
  <1>2. ASSUME NEW t \in Role, Way(r, t, k), <<t, u>> \in parents
        PROVE  Way(r, u, k + 1)
    <2>1. PICK w \in [0 .. k -> Role] : w[0] = r /\ w[k] = t /\ Path(w, k)
      BY <1>2 DEF Way
    <2> DEFINE v == [i \in 0 .. k + 1 |-> IF i = k + 1 THEN u ELSE w[i]]
    <2>2. v \in [0 .. k + 1 -> Role] /\ v[0] = r /\ v[k + 1] = u
      BY <2>1
    <2>3. Path(v, k + 1)
      BY <1>2, <2>1 DEF Path
    <2> HIDE DEF v
    <2> QED
      BY <2>2, <2>3 DEF Way
  <1> QED
    BY <1>1, <1>2

(* The levels that HasLink goes up are what can be reached in so many      *)
(* steps.                                                                  *)
Up(r, S) == {t \in Role : \E s \in S : <<s, t>> \in parents}

IsLevels(r, n, level) ==
    level = [k \in 0 .. n |-> IF k = 0 THEN {r} ELSE Up(r, level[k - 1])]

LEMMA LevelsExist ==
    ASSUME NEW r \in Role, NEW n \in Nat, parents \subseteq Role \X Role
    PROVE  IsLevels(r, n, [k \in 0 .. n |-> {t \in Role : Way(r, t, k)}])
  <1> DEFINE W == [k \in 0 .. n |-> {t \in Role : Way(r, t, k)}]
  <1>1. ASSUME NEW k \in 0 .. n
        PROVE  W[k] = IF k = 0 THEN {r} ELSE Up(r, W[k - 1])
    <2>1. CASE k = 0
      BY <2>1, NoStep
    <2>2. CASE k # 0
      <3>1. k - 1 \in Nat /\ k - 1 \in 0 .. n /\ (k - 1) + 1 = k
        BY <2>2
      <3>2. \A u \in Role : Way(r, u, k) <=>
              \E t \in Role : Way(r, t, k - 1) /\ <<t, u>> \in parents
        BY <3>1, OneStep
      <3>3. W[k - 1] = {t \in Role : Way(r, t, k - 1)} /\ W[k] = {t \in Role : Way(r, t, k)}
        BY <3>1
      <3> HIDE DEF W
      <3> QED
        BY <2>2, <3>2, <3>3 DEF Up
    <2> QED
      BY <2>1, <2>2
  <1>2. W = [k \in 0 .. n |-> W[k]]
    OBVIOUS
  <1> HIDE DEF W
  <1>3. W = [k \in 0 .. n |-> IF k = 0 THEN {r} ELSE Up(r, W[k - 1])]
    BY <1>1, <1>2
  <1>4. IsLevels(r, n, W)
    BY <1>3 DEF IsLevels
  <1> QED
    BY <1>4 DEF W

LEMMA LevelsUnique ==
    ASSUME NEW r, NEW n \in Nat, NEW f, NEW g, IsLevels(r, n, f), IsLevels(r, n, g)
    PROVE  f = g
  <1> DEFINE Differ == {k \in 0 .. n : f[k] # g[k]}
  <1>1. SUFFICES ASSUME Differ # {} PROVE FALSE
    BY DEF IsLevels
  <1>2. PICK m \in Differ : \A k \in Differ : m <= k
    <2>1. Differ \in SUBSET Nat
      OBVIOUS
    <2> HIDE DEF Differ
    <2> QED
      BY <1>1, <2>1, Least
  <1>3. \A k \in 0 .. n : /\ f[k] = IF k = 0 THEN {r} ELSE Up(r, f[k - 1])
                          /\ g[k] = IF k = 0 THEN {r} ELSE Up(r, g[k - 1])
    BY DEF IsLevels
  <1>4. m \in 0 .. n /\ m # 0
    BY <1>2, <1>3
  <1>5. f[m - 1] = g[m - 1]
    BY <1>2, <1>4
  <1> QED
    BY <1>2, <1>3, <1>4, <1>5

LEMMA LinkedByWays ==
    ASSUME RulesOK, NEW r \in Role
    PROVE  /\ Depth \in Nat /\ Cardinality(parents) \in Nat
           /\ Linked(r) = {t \in Role : \E k \in 0 .. Depth : Way(r, t, k)}
  <1> DEFINE W == [k \in 0 .. Depth |-> {t \in Role : Way(r, t, k)}]
             L == CHOOSE level : IsLevels(r, Depth, level)
  <1>1. Depth \in Nat /\ Cardinality(parents) \in Nat
    BY FS_CardinalityType DEF RulesOK, Depth
  <1>2. IsLevels(r, Depth, W)
    BY <1>1, LevelsExist DEF RulesOK
  <1>3. IsLevels(r, Depth, L)
    BY <1>2
  <1>4. L = W
    BY <1>1, <1>2, <1>3, LevelsUnique
  <1>5. Linked(r) = UNION {L[k] : k \in 0 .. Depth}
    BY DEF Linked, IsLevels, Up
  <1>6. \A k \in 0 .. Depth : W[k] = {t \in Role : Way(r, t, k)}
    OBVIOUS
  <1> HIDE DEF W, L
  <1>7. UNION {W[k] : k \in 0 .. Depth} = {t \in Role : \E k \in 0 .. Depth : Way(r, t, k)}
    BY <1>6
  <1> QED
    BY <1>1, <1>4, <1>5, <1>7

(* The shortest way to a role takes no relation twice, for what is between *)
(* could be left out.                                                      *)
LEMMA Shortest ==
    ASSUME RulesOK, NEW r \in Role, NEW u \in Role, NEW k \in Nat, Way(r, u, k)
    PROVE  \E m \in 0 .. Cardinality(parents) : Way(r, u, m)
  <1> DEFINE Lengths == {m \in Nat : Way(r, u, m)}
  <1>1. PICK m \in Lengths : \A n \in Lengths : m <= n
    <2>1. Lengths \in SUBSET Nat /\ Lengths # {}
      OBVIOUS
    <2> HIDE DEF Lengths
    <2> QED
      BY <2>1, Least
  <1>2. Cardinality(parents) \in Nat /\ IsFiniteSet(parents)
    BY LinkedByWays DEF RulesOK
  <1>3. SUFFICES ASSUME m > Cardinality(parents) PROVE FALSE
    BY <1>1, <1>2
  <1>4. PICK w \in [0 .. m -> Role] : w[0] = r /\ w[m] = u /\ Path(w, m)
    BY <1>1 DEF Way
  <1>5. m \in Nat
    BY <1>1
  <1>6. PICK i \in 1 .. m, j \in 1 .. m : i < j /\ w[i] = w[j]
    <2> DEFINE step == [x \in 1 .. m |-> <<w[x - 1], w[x]>>]
    <2>1. step \in [1 .. m -> parents]
      BY <1>4 DEF Path
    <2>2. IsFiniteSet(1 .. m) /\ Cardinality(1 .. m) = m
      BY <1>2, <1>3, <1>5, FS_Interval
    <2>3. \A x, y \in 1 .. m : step[x] = step[y] => w[x] = w[y]
      OBVIOUS
    <2> HIDE DEF step
    <2>4. PICK x, y \in 1 .. m : x # y /\ step[x] = step[y]
      BY <1>2, <1>3, <2>1, <2>2, FS_PigeonHole
    <2>5. x < y \/ y < x
      BY <1>5, <2>4
    <2> QED
      BY <2>3, <2>4, <2>5
  <1> DEFINE n == m - (j - i)
             v == [x \in 0 .. n |-> IF x <= i THEN w[x] ELSE w[x + (j - i)]]
  <1>7. n \in Nat /\ n < m /\ i <= n
    BY <1>5, <1>6
  <1>8. v \in [0 .. n -> Role] /\ v[0] = r /\ v[n] = u
    BY <1>4, <1>5, <1>6
  <1>9. Path(v, n)
    <2>1. SUFFICES ASSUME NEW x \in 1 .. n PROVE <<v[x - 1], v[x]>> \in parents
      BY DEF Path
    <2>2. \A y \in 1 .. m : <<w[y - 1], w[y]>> \in parents
      BY <1>4 DEF Path
    <2>3. CASE x <= i
      BY <1>5, <1>6, <2>2, <2>3
    <2>4. CASE x = i + 1
      <3>1. v[x - 1] = w[j] /\ v[x] = w[j + 1] /\ j + 1 \in 1 .. m /\ (j + 1) - 1 = j
        BY <1>5, <1>6, <2>4
      <3> HIDE DEF v
      <3> QED
        BY <2>2, <3>1
    <2>5. CASE x > i + 1
      <3> DEFINE y == x + (j - i)
      <3>1. v[x - 1] = w[y - 1] /\ v[x] = w[y] /\ y \in 1 .. m
        BY <1>5, <1>6, <2>5
      <3> HIDE DEF v, y
      <3> QED
        BY <2>2, <3>1
    <2> QED
      BY <1>5, <1>6, <2>3, <2>4, <2>5
  <1>10. n \in Lengths
    <2> HIDE DEF v, n
    <2> QED
      BY <1>7, <1>8, <1>9 DEF Way
  <1> QED
    BY <1>1, <1>5, <1>7, <1>10

(* The enforcer's limited search finds every role that is inherited, and   *)
(* no other.                                                               *)
LEMMA LinkedIsImplied ==
    ASSUME RulesOK, NEW r \in Role
    PROVE  Linked(r) = Implied(r)
  <1> DEFINE Found == {t \in Role : \E k \in 0 .. Depth : Way(r, t, k)}
  <1>1. /\ Depth \in Nat /\ Cardinality(parents) \in Nat /\ Depth = Cardinality(parents) + 1
        /\ Linked(r) = Found /\ parents \subseteq Role \X Role
    BY LinkedByWays DEF Depth, RulesOK
  <1>2. ASSUME NEW t \in Role, NEW k \in 0 .. Depth, Way(r, t, k),
               NEW S \in SUBSET Role, r \in S, \A e \in parents : e[1] \in S => e[2] \in S
        PROVE  t \in S
    <2>1. PICK w \in [0 .. k -> Role] : w[0] = r /\ w[k] = t /\ Path(w, k)
      BY <1>2 DEF Way
    <2> DEFINE Out == {i \in 0 .. k : w[i] \notin S}
    <2>2. SUFFICES ASSUME Out # {} PROVE FALSE
      BY <1>1, <2>1
    <2>3. PICK i \in Out : \A j \in Out : i <= j
      <3>1. Out \in SUBSET Nat
        OBVIOUS
      <3> HIDE DEF Out
      <3> QED
        BY <2>2, <3>1, Least
    <2>4. i \in 1 .. k /\ w[i - 1] \in S
      BY <1>1, <1>2, <2>1, <2>3
    <2>5. <<w[i - 1], w[i]>> \in parents
      BY <2>1, <2>4 DEF Path
    <2> QED
      BY <1>2, <2>3, <2>4, <2>5
  <1>3. Found \subseteq Implied(r)
    BY <1>2 DEF Implied
  <1>4. Implied(r) \subseteq Found
    <2>1. r \in Found
      BY <1>1, NoStep
    <2>2. ASSUME NEW e \in parents, e[1] \in Found PROVE e[2] \in Found
      <3>1. e[1] \in Role /\ e[2] \in Role /\ <<e[1], e[2]>> \in parents
        BY <1>1
      <3>2. PICK k \in 0 .. Depth : Way(r, e[1], k)
        BY <2>2
      <3>3. Way(r, e[2], k + 1) /\ k + 1 \in Nat
        <4>1. k \in Nat /\ k + 1 \in Nat
          BY <1>1
        <4> HIDE DEF Found
        <4> QED
          BY <1>1, <3>1, <3>2, <4>1, OneStep
      <3>4. PICK m \in 0 .. Cardinality(parents) : Way(r, e[2], m)
        BY <1>1, <3>1, <3>3, Shortest
      <3>5. m \in 0 .. Depth
        BY <1>1
      <3> QED
        BY <3>1, <3>4, <3>5
    <2>3. Found \in SUBSET Role
      OBVIOUS
    <2> HIDE DEF Found
    <2> QED
      BY <2>1, <2>2, <2>3 DEF Implied
  <1> QED
    BY <1>1, <1>3, <1>4

-----------------------------------------------------------------------------
(* The separators of a code.                                               *)

Char == Letter \cup Digit \cup {Sep, Star}

LEMMA TextIsSeq ==
    ASSUME NEW s \in Text
    PROVE  /\ s \in Seq(Char) /\ Len(s) \in Nat /\ DOMAIN s = 1 .. Len(s)
           /\ \A i \in 1 .. Len(s) : s[i] \in Char
  <1>1. PICK n \in 0 .. MaxCode : s \in [1 .. n -> Char]
    BY DEF Text, Char
  <1>2. n \in Nat
    BY CharAssumption
  <1>3. s \in Seq(Char)
    BY <1>1, <1>2, SeqDef
  <1> QED
    BY <1>3, LenProperties, ElementOfSeq

(* How many there are among the first i characters, and where the segments *)
(* end, as Segments has it.                                                *)
SepsIn(s, i) == {j \in 1 .. i : s[j] = Sep}
Seps(s, i) == Cardinality(SepsIn(s, i))
Ends(s, k) == {i \in DOMAIN s : s[i] = Sep /\ Seps(s, i) = k}
End(s, k) == CHOOSE i \in IF k = 0 THEN {0} ELSE Ends(s, k) \cup {Len(s) + 1} :
                 \A j \in Ends(s, k) : i <= j

LEMMA SegmentsAre ==
    ASSUME NEW s
    PROVE  Segments(s) = [k \in 1 .. Seps(s, Len(s)) + 1 |->
                             SubSeq(s, End(s, k - 1) + 1, End(s, k) - 1)]
  BY DEF Segments, Seps, SepsIn, Ends, End

LEMMA CountSeps ==
    ASSUME NEW s
    PROVE  /\ Seps(s, 0) = 0
           /\ \A i \in Nat : /\ Seps(s, i) \in Nat
                             /\ Seps(s, i + 1) = IF s[i + 1] = Sep THEN Seps(s, i) + 1
                                                 ELSE Seps(s, i)
  <1>1. Seps(s, 0) = 0
    <2>1. SepsIn(s, 0) = {}
      BY DEF SepsIn
    <2> QED
      BY <2>1, FS_EmptySet DEF Seps
  <1>2. ASSUME NEW i \in Nat
        PROVE  /\ Seps(s, i) \in Nat
               /\ Seps(s, i + 1) = IF s[i + 1] = Sep THEN Seps(s, i) + 1 ELSE Seps(s, i)
    <2>1. IsFiniteSet(SepsIn(s, i)) /\ i + 1 \notin SepsIn(s, i)
      <3>1. IsFiniteSet(1 .. i) /\ SepsIn(s, i) \in SUBSET (1 .. i)
        BY FS_Interval DEF SepsIn
      <3> QED
        BY <3>1, FS_Subset
    <2>2. SepsIn(s, i + 1) = IF s[i + 1] = Sep THEN SepsIn(s, i) \cup {i + 1} ELSE SepsIn(s, i)
      BY DEF SepsIn
    <2>3. /\ Cardinality(SepsIn(s, i)) \in Nat
          /\ Cardinality(SepsIn(s, i) \cup {i + 1}) = Cardinality(SepsIn(s, i)) + 1
      BY <2>1, FS_CardinalityType, FS_AddElement
    <2> QED
      BY <2>2, <2>3 DEF Seps
  <1> QED
    BY <1>1, <1>2

LEMMA SepsGrow ==
    ASSUME NEW s, NEW i \in Nat, NEW j \in Nat, i <= j
    PROVE  Seps(s, i) <= Seps(s, j)
  <1> DEFINE Less == {n \in Nat : n >= i /\ Seps(s, n) < Seps(s, i)}
  <1>1. SUFFICES ASSUME Less # {} PROVE FALSE
    BY CountSeps
  <1>2. PICK n \in Less : \A m \in Less : n <= m
    <2>1. Less \in SUBSET Nat
      OBVIOUS
    <2> HIDE DEF Less
    <2> QED
      BY <1>1, <2>1, Least
  <1>3. n - 1 \in Nat /\ n - 1 >= i /\ (n - 1) + 1 = n
    BY <1>2, CountSeps
  <1>4. Seps(s, n - 1) <= Seps(s, n) /\ Seps(s, n - 1) \in Nat /\ Seps(s, n) \in Nat
    <2>1. /\ Seps(s, n - 1) \in Nat
          /\ Seps(s, (n - 1) + 1) \in {Seps(s, n - 1), Seps(s, n - 1) + 1}
      BY <1>3, CountSeps
    <2> QED
      BY <1>3, <2>1
  <1>5. Seps(s, i) \in Nat
    BY CountSeps
  <1>6. n - 1 \in Less
    BY <1>2, <1>3, <1>4, <1>5
  <1> QED
    BY <1>2, <1>3, <1>6

(* Each separator counted has its place, and one only.                     *)
LEMMA EndIsSep ==
    ASSUME NEW s \in Text, NEW k \in 1 .. Seps(s, Len(s))
    PROVE  /\ End(s, k) \in 1 .. Len(s) /\ s[End(s, k)] = Sep
           /\ Seps(s, End(s, k)) = k
           /\ \A i \in 1 .. Len(s) : s[i] = Sep /\ Seps(s, i) = k => i = End(s, k)
  <1>0. Len(s) \in Nat /\ DOMAIN s = 1 .. Len(s) /\ Seps(s, Len(s)) \in Nat /\ k \in Nat /\ k # 0
    BY TextIsSeq, CountSeps
  <1> DEFINE Reached == {i \in Nat : Seps(s, i) >= k}
  <1>1. PICK i \in Reached : \A j \in Reached : i <= j
    <2>1. Reached \in SUBSET Nat /\ Len(s) \in Reached
      BY <1>0
    <2> HIDE DEF Reached
    <2> QED
      BY <2>1, Least
  <1>2. i # 0 /\ i <= Len(s) /\ i \in Nat
    <2>1. Len(s) \in Reached /\ 0 \notin Reached
      BY <1>0, CountSeps
    <2> QED
      BY <1>1, <2>1
  <1>3. i - 1 \in Nat /\ (i - 1) + 1 = i /\ Seps(s, i - 1) \in Nat /\ Seps(s, i - 1) < k
    <2>1. i - 1 \in Nat /\ (i - 1) + 1 = i
      BY <1>2
    <2>2. Seps(s, i - 1) \in Nat
      BY <2>1, CountSeps
    <2>3. i - 1 \notin Reached
      BY <1>1, <2>1
    <2> QED
      BY <1>0, <2>1, <2>2, <2>3
  <1>4. s[i] = Sep /\ Seps(s, i) = k
    <2>1. Seps(s, i) = IF s[i] = Sep THEN Seps(s, i - 1) + 1 ELSE Seps(s, i - 1)
      BY <1>3, CountSeps
    <2> QED
      BY <1>0, <1>1, <1>3, <2>1
  <1>5. ASSUME NEW x \in 1 .. Len(s), NEW y \in 1 .. Len(s), s[y] = Sep,
               Seps(s, x) = k, Seps(s, y) = k
        PROVE  ~(x < y)
    <2>1. SUFFICES ASSUME x < y PROVE FALSE
      OBVIOUS
    <2>2. y - 1 \in Nat /\ (y - 1) + 1 = y /\ x \in Nat /\ x <= y - 1
      BY <1>0, <2>1
    <2>3. Seps(s, y) = Seps(s, y - 1) + 1 /\ Seps(s, y - 1) \in Nat
      BY <1>5, <2>2, CountSeps
    <2>4. Seps(s, x) <= Seps(s, y - 1)
      BY <2>2, SepsGrow
    <2> QED
      BY <1>0, <1>5, <2>3, <2>4
  <1>6. i \in 1 .. Len(s)
    BY <1>0, <1>2
  <1>7. \A x \in 1 .. Len(s) : s[x] = Sep /\ Seps(s, x) = k => x = i
    BY <1>0, <1>4, <1>5, <1>6
  <1>8. Ends(s, k) = {i}
    BY <1>0, <1>4, <1>6, <1>7 DEF Ends
  <1>9. End(s, k) = i
    <2>1. End(s, k) = CHOOSE x \in {i} \cup {Len(s) + 1} : \A j \in {i} : x <= j
      BY <1>0, <1>8 DEF End
    <2> QED
      BY <1>0, <1>6, <2>1
  <1> QED
    BY <1>4, <1>6, <1>7, <1>9

(* The segments lie between the ends, and every other character is in one. *)
LEMMA Layout ==
    ASSUME NEW s \in Text
    PROVE  LET N == Seps(s, Len(s))
           IN  /\ N \in Nat /\ End(s, 0) = 0 /\ End(s, N + 1) = Len(s) + 1
               /\ \A k \in 0 .. N : Seps(s, End(s, k)) = k /\ End(s, k) \in 0 .. Len(s)
               /\ \A k \in 1 .. N : s[End(s, k)] = Sep
               /\ \A k \in 1 .. N + 1 : End(s, k - 1) < End(s, k)
  <1> DEFINE N == Seps(s, Len(s))
  <1>1. Len(s) \in Nat /\ DOMAIN s = 1 .. Len(s) /\ N \in Nat
    BY TextIsSeq, CountSeps
  <1>2. End(s, 0) = 0
    <2>1. \A j \in Ends(s, 0) : 0 <= j
      BY <1>1 DEF Ends
    <2>2. End(s, 0) = CHOOSE i \in {0} : \A j \in Ends(s, 0) : i <= j
      BY DEF End
    <2> QED
      BY <2>1, <2>2
  <1>3. End(s, N + 1) = Len(s) + 1
    <2>1. Ends(s, N + 1) = {}
      <3>1. ASSUME NEW i \in 1 .. Len(s) PROVE Seps(s, i) # N + 1
        <4>1. i \in Nat /\ i <= Len(s) /\ Seps(s, i) \in Nat
          BY <1>1, CountSeps
        <4>2. Seps(s, i) <= N
          BY <1>1, <4>1, SepsGrow
        <4> HIDE DEF N
        <4> QED
          BY <1>1, <4>1, <4>2
      <3> QED
        BY <1>1, <3>1 DEF Ends
    <2>2. End(s, N + 1) = CHOOSE i \in {Len(s) + 1} : \A j \in {} : i <= j
      <3>1. N + 1 # 0 /\ Ends(s, N + 1) \cup {Len(s) + 1} = {Len(s) + 1}
        BY <1>1, <2>1
      <3> HIDE DEF N
      <3> QED
        BY <2>1, <3>1 DEF End
    <2> QED
      BY <2>2
  <1>4. \A k \in 1 .. N : /\ Seps(s, End(s, k)) = k /\ End(s, k) \in 1 .. Len(s)
                          /\ s[End(s, k)] = Sep
    BY EndIsSep
  <1>5. \A k \in 0 .. N : Seps(s, End(s, k)) = k /\ End(s, k) \in 0 .. Len(s)
    <2>1. Seps(s, End(s, 0)) = 0
      BY <1>2, CountSeps
    <2> HIDE DEF N
    <2> QED
      BY <1>1, <1>2, <1>4, <2>1
  <1>6. ASSUME NEW k \in 1 .. N + 1 PROVE End(s, k - 1) < End(s, k)
    <2> HIDE DEF N
    <2>1. k - 1 \in 0 .. N /\ End(s, k - 1) \in 0 .. Len(s) /\ Seps(s, End(s, k - 1)) = k - 1
      BY <1>1, <1>5
    <2>2. CASE k = N + 1
      BY <1>1, <1>3, <2>1, <2>2
    <2>3. CASE k # N + 1
      <3>1. k \in 1 .. N /\ End(s, k) \in 1 .. Len(s) /\ Seps(s, End(s, k)) = k
        BY <1>1, <1>4, <2>3
      <3>2. End(s, k) <= End(s, k - 1) => Seps(s, End(s, k)) <= Seps(s, End(s, k - 1))
        BY <1>1, <2>1, <3>1, SepsGrow
      <3> QED
        BY <1>1, <2>1, <3>1, <3>2
    <2> QED
      BY <2>2, <2>3
  <1> QED
    BY <1>1, <1>2, <1>3, <1>4, <1>5, <1>6

LEMMA SegmentAt ==
    ASSUME NEW s \in Text, NEW k \in 1 .. Seps(s, Len(s)) + 1
    PROVE  LET seg == Segments(s)[k]
           IN  /\ seg \in Seq(Char) /\ Len(seg) = End(s, k) - End(s, k - 1) - 1
               /\ Len(seg) \in Nat
               /\ \A x \in 1 .. Len(seg) : seg[x] = s[End(s, k - 1) + x]
  <1> DEFINE N == Seps(s, Len(s))
  <1>1. /\ N \in Nat /\ End(s, N + 1) = Len(s) + 1 /\ End(s, k - 1) < End(s, k)
        /\ \A j \in 0 .. N : End(s, j) \in 0 .. Len(s)
        /\ Len(s) \in Nat /\ \A i \in 1 .. Len(s) : s[i] \in Char
    BY Layout, TextIsSeq
  <1> HIDE DEF N
  <1>2. End(s, k - 1) \in 0 .. Len(s) /\ End(s, k) \in 1 .. Len(s) + 1
    <2>1. k - 1 \in 0 .. N /\ (k = N + 1 \/ k \in 0 .. N)
      BY <1>1 DEF N
    <2> QED
      BY <1>1, <2>1
  <1> DEFINE m == End(s, k - 1) + 1
             n == End(s, k) - 1
  <1>3. m \in Int /\ n \in Int /\ \A i \in m .. n : s[i] \in Char
    BY <1>1, <1>2
  <1>4. Segments(s)[k] = SubSeq(s, m, n)
    BY SegmentsAre
  <1>5. /\ SubSeq(s, m, n) \in Seq(Char)
        /\ Len(SubSeq(s, m, n)) = IF m <= n THEN n - m + 1 ELSE 0
        /\ \A i \in 1 .. n - m + 1 : SubSeq(s, m, n)[i] = s[m + i - 1]
    BY <1>3, SubSeqProperties
  <1>6. Len(SubSeq(s, m, n)) = n - m + 1 /\ n - m + 1 = End(s, k) - End(s, k - 1) - 1
    <2>1. m <= n \/ n - m + 1 = 0
      <3>1. End(s, k - 1) < End(s, k) /\ End(s, k - 1) \in Int /\ End(s, k) \in Int
        BY <1>1, <1>2
      <3> QED
        BY <3>1
    <2>2. n - m + 1 = End(s, k) - End(s, k - 1) - 1
      BY <1>2
    <2> QED
      BY <1>5, <2>1, <2>2
  <1>7. \A i \in Int : m + i - 1 = End(s, k - 1) + i
    BY <1>2
  <1>8. n - m + 1 \in Nat
    BY <1>1, <1>2
  <1> HIDE DEF m, n
  <1>9. ASSUME NEW x \in 1 .. n - m + 1 PROVE Segments(s)[k][x] = s[End(s, k - 1) + x]
    <2>1. m + x - 1 = End(s, k - 1) + x
      BY <1>7, <1>8
    <2> QED
      BY <1>4, <1>5, <2>1
  <1> QED
    BY <1>4, <1>5, <1>6, <1>8, <1>9

(* A character that is no separator is in the segment that follows the     *)
(* separators before it.                                                   *)
LEMMA InSegment ==
    ASSUME NEW s \in Text, NEW i \in 1 .. Len(s), s[i] # Sep
    PROVE  LET k == Seps(s, i) + 1
           IN  /\ k \in 1 .. Seps(s, Len(s)) + 1
               /\ i - End(s, k - 1) \in 1 .. Len(Segments(s)[k])
               /\ Segments(s)[k][i - End(s, k - 1)] = s[i]
  <1> DEFINE N == Seps(s, Len(s))
             m == Seps(s, i)
  <1>1. /\ N \in Nat /\ End(s, N + 1) = Len(s) + 1 /\ End(s, 0) = 0
        /\ \A j \in 0 .. N : Seps(s, End(s, j)) = j /\ End(s, j) \in 0 .. Len(s)
        /\ \A j \in 1 .. N : s[End(s, j)] = Sep
        /\ Len(s) \in Nat /\ i \in Nat /\ i # 0 /\ i <= Len(s)
    BY Layout, TextIsSeq
  <1>2. m \in Nat /\ m <= N
    BY <1>1, CountSeps, SepsGrow
  <1> HIDE DEF N, m
  <1>3. End(s, m) < i
    <2>1. CASE m = 0
      BY <1>1, <2>1
    <2>2. CASE m # 0
      <3>1. m \in 1 .. N /\ End(s, m) \in 0 .. Len(s) /\ s[End(s, m)] = Sep /\ Seps(s, End(s, m)) = m
        BY <1>1, <1>2, <2>2
      <3>2. SUFFICES ASSUME End(s, m) > i PROVE FALSE
        BY <1>1, <3>1
      <3> DEFINE e == End(s, m) - 1
      <3>3. e \in Nat /\ i <= e /\ e + 1 = End(s, m)
        BY <1>1, <3>1, <3>2
      <3>4. Seps(s, i) <= Seps(s, e)
        BY <1>1, <3>3, SepsGrow
      <3>5. Seps(s, e + 1) = Seps(s, e) + 1 /\ Seps(s, e) \in Nat
        BY <3>1, <3>3, CountSeps
      <3> HIDE DEF e
      <3> QED
        BY <1>2, <3>1, <3>3, <3>4, <3>5 DEF m
    <2> QED
      BY <2>1, <2>2
  <1>4. i < End(s, m + 1)
    <2>1. CASE m = N
      BY <1>1, <2>1
    <2>2. CASE m # N
      <3>1. m + 1 \in 0 .. N
        BY <1>1, <1>2, <2>2
      <3>2. End(s, m + 1) \in 0 .. Len(s) /\ Seps(s, End(s, m + 1)) = m + 1
        BY <1>1, <3>1
      <3>3. End(s, m + 1) <= i => m + 1 <= Seps(s, i)
        BY <1>1, <3>2, SepsGrow
      <3> QED
        BY <1>1, <1>2, <3>2, <3>3 DEF m
    <2> QED
      BY <2>1, <2>2
  <1>5. m + 1 \in 1 .. N + 1 /\ (m + 1) - 1 = m /\ End(s, m) \in 0 .. Len(s)
    BY <1>1, <1>2
  <1>6. End(s, m + 1) \in Nat
    <2>1. m + 1 = N + 1 \/ m + 1 \in 0 .. N
      BY <1>1, <1>2
    <2> QED
      BY <1>1, <2>1
  <1>7. /\ Len(Segments(s)[m + 1]) = End(s, m + 1) - End(s, m) - 1
        /\ \A x \in 1 .. Len(Segments(s)[m + 1]) : Segments(s)[m + 1][x] = s[End(s, m) + x]
    BY <1>5, SegmentAt DEF N
  <1>8. /\ i - End(s, m) \in 1 .. Len(Segments(s)[m + 1])
        /\ End(s, m) + (i - End(s, m)) = i
    BY <1>1, <1>3, <1>4, <1>5, <1>6, <1>7
  <1> QED
    BY <1>5, <1>7, <1>8 DEF m, N

(* Texts that begin alike have the same separators there.                  *)
LEMMA SameStart ==
    ASSUME NEW c \in Text, NEW t \in Text, NEW n \in Nat, n <= Len(c), n <= Len(t),
           \A i \in 1 .. n : c[i] = t[i],
           NEW k \in 1 .. Seps(c, n)
    PROVE  /\ k <= Seps(c, Len(c)) /\ k <= Seps(t, Len(t))
           /\ End(c, k) \in 1 .. n /\ End(t, k) = End(c, k)
  <1>1. /\ Len(c) \in Nat /\ Len(t) \in Nat
        /\ \A i \in Nat : Seps(c, i) \in Nat /\ Seps(t, i) \in Nat
    BY TextIsSeq, CountSeps
  <1>2. ASSUME NEW i \in 0 .. n PROVE Seps(c, i) = Seps(t, i)
    <2>1. SepsIn(c, i) = SepsIn(t, i)
      BY DEF SepsIn
    <2> QED
      BY <2>1 DEF Seps
  <1>3. k \in 1 .. Seps(c, Len(c)) /\ k \in 1 .. Seps(t, Len(t))
    <2>1. Seps(c, n) <= Seps(c, Len(c)) /\ Seps(t, n) <= Seps(t, Len(t))
      BY <1>1, SepsGrow
    <2>2. Seps(c, n) = Seps(t, n)
      BY <1>2
    <2>3. /\ Seps(c, n) \in Nat /\ Seps(c, Len(c)) \in Nat /\ Seps(t, Len(t)) \in Nat
      BY <1>1
    <2> QED
      BY <2>1, <2>2, <2>3
  <1> DEFINE e == End(c, k)
  <1>4. e \in 1 .. Len(c) /\ c[e] = Sep /\ Seps(c, e) = k
    BY <1>3, EndIsSep
  <1>5. e <= n
    <2>1. SUFFICES ASSUME e > n PROVE FALSE
      BY <1>1, <1>4
    <2> HIDE DEF e
    <2> DEFINE d == e - 1
    <2>2. d \in Nat /\ d + 1 = e /\ n <= d
      BY <1>1, <1>4, <2>1
    <2>3. Seps(c, d + 1) = Seps(c, d) + 1 /\ Seps(c, d) \in Nat
      BY <1>4, <2>2, CountSeps
    <2>4. Seps(c, n) <= Seps(c, d) /\ Seps(c, n) \in Nat
      BY <1>1, <2>2, SepsGrow
    <2> HIDE DEF d
    <2> QED
      BY <1>4, <2>2, <2>3, <2>4
  <1>6. e \in 1 .. Len(t) /\ t[e] = Sep /\ Seps(t, e) = k
    <2> HIDE DEF e
    <2>1. e \in 0 .. n /\ e \in 1 .. n /\ e \in 1 .. Len(t)
      BY <1>1, <1>4, <1>5
    <2> QED
      BY <1>2, <1>4, <2>1
  <1>7. End(t, k) = e
    BY <1>3, <1>6, EndIsSep
  <1> QED
    BY <1>1, <1>3, <1>4, <1>5, <1>7

(* So the first segments are the same.                                     *)
LEMMA SamePrefix ==
    ASSUME NEW c \in Text, NEW t \in Text, NEW n \in Nat, n <= Len(c), n <= Len(t),
           \A i \in 1 .. n : c[i] = t[i],
           NEW k \in 1 .. Seps(c, n)
    PROVE  Segments(c)[k] = Segments(t)[k]
  <1> DEFINE a == Segments(c)[k]
             b == Segments(t)[k]
  <1>1. k \in Nat /\ k <= Seps(c, Len(c)) /\ k <= Seps(t, Len(t)) /\ End(c, k) \in 1 .. n
        /\ End(t, k) = End(c, k) /\ Seps(c, n) \in Nat
    <2>1. Seps(c, n) \in Nat
      BY CountSeps
    <2> QED
      BY <2>1, SameStart
  <1>2. Seps(c, Len(c)) \in Nat /\ Seps(t, Len(t)) \in Nat
    BY Layout
  <1>3. End(t, k - 1) = End(c, k - 1) /\ End(c, k - 1) \in Nat
    <2>1. CASE k = 1
      BY <2>1, Layout
    <2>2. CASE k # 1
      <3>1. k - 1 \in 1 .. Seps(c, n)
        BY <1>1, <2>2
      <3> QED
        BY <3>1, SameStart
    <2> QED
      BY <2>1, <2>2
  <1>4. k \in 1 .. Seps(c, Len(c)) + 1 /\ k \in 1 .. Seps(t, Len(t)) + 1
    BY <1>1, <1>2
  <1>5. /\ a \in Seq(Char) /\ Len(a) = End(c, k) - End(c, k - 1) - 1 /\ Len(a) \in Nat
        /\ \A x \in 1 .. Len(a) : a[x] = c[End(c, k - 1) + x]
    BY <1>4, SegmentAt
  <1>6. /\ b \in Seq(Char) /\ Len(b) = End(t, k) - End(t, k - 1) - 1
        /\ \A x \in 1 .. Len(b) : b[x] = t[End(t, k - 1) + x]
    BY <1>4, SegmentAt
  <1> HIDE DEF a, b
  <1>7. ASSUME NEW x \in 1 .. Len(a) PROVE a[x] = b[x]
    <2>1. End(c, k - 1) + x \in 1 .. n
      BY <1>1, <1>3, <1>5
    <2> QED
      BY <1>1, <1>3, <1>5, <1>6, <2>1
  <1>8. Len(a) = Len(b)
    BY <1>1, <1>3, <1>5, <1>6
  <1>9. a = b
    BY <1>5, <1>6, <1>7, <1>8, SeqEqual
  <1> QED
    BY <1>9 DEF a, b

(* And texts whose first segments are the same begin alike.                *)
LEMMA SameSegments ==
    ASSUME NEW c \in Text, NEW t \in Text, NEW n \in Nat,
           n <= Seps(c, Len(c)), n <= Seps(t, Len(t)),
           \A k \in 1 .. n : Segments(c)[k] = Segments(t)[k]
    PROVE  /\ End(c, n) = End(t, n)
           /\ \A i \in 1 .. End(c, n) : c[i] = t[i]
  <1> DEFINE Alike(k) == /\ End(c, k) = End(t, k)
                         /\ \A i \in 1 .. End(c, k) : c[i] = t[i]
             Odd == {k \in 0 .. n : ~Alike(k)}
  <1>1. /\ Seps(c, Len(c)) \in Nat /\ Seps(t, Len(t)) \in Nat
        /\ End(c, 0) = 0 /\ End(t, 0) = 0
        /\ \A k \in 0 .. Seps(c, Len(c)) : End(c, k) \in 0 .. Len(c)
        /\ \A k \in 0 .. Seps(t, Len(t)) : End(t, k) \in 0 .. Len(t)
        /\ \A k \in 1 .. Seps(c, Len(c)) : c[End(c, k)] = Sep
        /\ \A k \in 1 .. Seps(t, Len(t)) : t[End(t, k)] = Sep
    BY Layout
  <1>2. SUFFICES ASSUME Odd # {} PROVE FALSE
    OBVIOUS
  <1>3. PICK k \in Odd : \A j \in Odd : k <= j
    <2>1. Odd \in SUBSET Nat
      OBVIOUS
    <2> HIDE DEF Odd
    <2> QED
      BY <1>2, <2>1, Least
  <1>4. k \in 1 .. n /\ k - 1 \in 0 .. n /\ Alike(k - 1) /\ ~Alike(k)
    <2>1. k \in 0 .. n /\ ~Alike(k)
      BY <1>3
    <2>2. Alike(0)
      BY <1>1
    <2>3. k - 1 \notin Odd
      BY <1>3, <2>1
    <2> QED
      BY <2>1, <2>2, <2>3
  <1> DEFINE a == Segments(c)[k]
             d == End(c, k - 1)
             e == End(c, k)
  <1>5. k \in 1 .. Seps(c, Len(c)) + 1 /\ k \in 1 .. Seps(t, Len(t)) + 1
        /\ k \in 1 .. Seps(c, Len(c)) /\ k \in 1 .. Seps(t, Len(t))
    BY <1>1, <1>4
  <1>6. /\ Len(a) = e - d - 1 /\ Len(a) \in Nat
        /\ \A x \in 1 .. Len(a) : a[x] = c[d + x]
    BY <1>5, SegmentAt
  <1>7. /\ a = Segments(t)[k] /\ End(t, k - 1) = d
        /\ Len(a) = End(t, k) - d - 1
        /\ \A x \in 1 .. Len(a) : a[x] = t[d + x]
    BY <1>4, <1>5, SegmentAt
  <1>8. d \in Nat /\ e \in Nat /\ End(t, k) \in Nat /\ e = End(t, k)
    <2>1. d \in Nat /\ e \in Nat /\ End(t, k) \in Nat
      BY <1>1, <1>4, <1>5
    <2> HIDE DEF a, d, e
    <2> QED
      BY <1>6, <1>7, <2>1
  <1>9. c[e] = Sep /\ t[e] = Sep
    BY <1>1, <1>5, <1>8
  <1>10. \A i \in 1 .. d : c[i] = t[i]
    BY <1>4
  <1>11. ASSUME NEW i \in 1 .. e PROVE c[i] = t[i]
    <2> HIDE DEF a, d, e
    <2>1. CASE i <= d
      BY <1>8, <1>10, <2>1
    <2>2. CASE i > d /\ i < e
      <3>1. i - d \in 1 .. Len(a) /\ d + (i - d) = i
        BY <1>6, <1>8, <2>2
      <3> QED
        BY <1>6, <1>7, <3>1
    <2>3. CASE i = e
      BY <1>9, <2>3
    <2> QED
      BY <1>8, <2>1, <2>2, <2>3
  <1> QED
    BY <1>4, <1>8, <1>11

-----------------------------------------------------------------------------
(* Codes with a wildcard.                                                  *)

(* NewPermissionCode lets a wildcard stand for the last segment only, with *)
(* at least one segment before it.                                         *)
LEMMA WildcardLast ==
    ASSUME NEW c \in Code, Has(c, Star)
    PROVE  /\ Seps(c, Len(c)) \in Nat \ {0}
           /\ Last(Segments(c)) = <<Star>> /\ Len(Segments(c)) = Seps(c, Len(c)) + 1
           /\ Len(c) \in Nat \ {0} /\ End(c, Seps(c, Len(c))) = Len(c) - 1
           /\ c[Len(c)] = Star
           /\ \A i \in 1 .. Len(c) : c[i] = Star => i = Len(c)
  <1> DEFINE N == Seps(c, Len(c))
  <1>1. c \in Text /\ NewPermissionCode(c)
    BY DEF Code
  <1>2. /\ Len(c) \in Nat /\ DOMAIN c = 1 .. Len(c) /\ N \in Nat
        /\ End(c, N + 1) = Len(c) + 1 /\ End(c, N) \in 0 .. Len(c)
    BY <1>1, TextIsSeq, Layout
  <1>3. Len(Segments(c)) = N + 1 /\ DOMAIN Segments(c) = 1 .. N + 1
    <2> HIDE DEF N
    <2>1. Segments(c) = [k \in 1 .. N + 1 |-> SubSeq(c, End(c, k - 1) + 1, End(c, k) - 1)]
      BY SegmentsAre DEF N
    <2> QED
      BY <1>2, <2>1
  <1>4. /\ N + 1 >= 2
        /\ \A k \in 1 .. N + 1 :
              \/ validPermissionSegment(Segments(c)[k])
              \/ Segments(c)[k] = <<Star>> /\ k = N + 1
    BY <1>1, <1>3 DEF NewPermissionCode
  <1>5. ASSUME NEW i \in 1 .. Len(c), c[i] = Star
        PROVE  /\ i = Len(c) /\ End(c, N) = Len(c) - 1
               /\ Segments(c)[N + 1] = <<Star>>
    <2> DEFINE k == Seps(c, i) + 1
               x == i - End(c, k - 1)
    <2>1. k \in 1 .. N + 1 /\ x \in 1 .. Len(Segments(c)[k]) /\ Segments(c)[k][x] = Star
      BY <1>1, <1>5, InSegment, CharAssumption
    <2>2. i = End(c, k - 1) + x
      <3>1. Seps(c, i) \in Nat /\ Seps(c, i) <= N
        <4>1. Seps(c, i) \in Nat
          BY <1>2, CountSeps
        <4> HIDE DEF N
        <4> QED
          BY <1>2, <2>1, <4>1
      <3>2. k - 1 = Seps(c, i) /\ Seps(c, i) \in 0 .. N
        BY <1>2, <3>1
      <3>3. End(c, k - 1) \in Nat
        <4> HIDE DEF N
        <4> QED
          BY <1>1, <1>2, <3>2, Layout DEF N
      <3> QED
        BY <1>2, <3>3
    <2> HIDE DEF k, x, N
    <2>3. Segments(c)[k] \in Seq(Char) /\ DOMAIN Segments(c)[k] = 1 .. Len(Segments(c)[k])
      BY <1>1, <2>1, SegmentAt, LenProperties DEF N
    <2>4. ~validPermissionSegment(Segments(c)[k])
      BY <2>1, <2>3, CharAssumption DEF validPermissionSegment
    <2>5. Segments(c)[k] = <<Star>> /\ k = N + 1
      BY <1>4, <2>1, <2>4
    <2>6. x = 1
      BY <2>1, <2>5
    <2>7. Len(Segments(c)[k]) = End(c, k) - End(c, k - 1) - 1 /\ Len(Segments(c)[k]) = 1
      BY <1>1, <2>1, <2>5, SegmentAt DEF N
    <2>8. k - 1 = N
      BY <1>2, <2>5
    <2>9. End(c, N) = Len(c) - 1
      BY <1>2, <2>5, <2>7, <2>8
    <2> QED
      BY <1>2, <2>2, <2>5, <2>6, <2>8, <2>9
  <1>6. PICK i \in 1 .. Len(c) : c[i] = Star
    BY <1>2 DEF Has
  <1>7. Last(Segments(c)) = Segments(c)[N + 1]
    BY <1>3 DEF Last
  <1> HIDE DEF N
  <1>8. N \in Nat \ {0}
    BY <1>2, <1>4
  <1>9. \A j \in 1 .. Len(c) : c[j] = Star => j = Len(c)
    BY <1>5
  <1>10. i = Len(c) /\ End(c, N) = Len(c) - 1 /\ Segments(c)[N + 1] = <<Star>>
    BY <1>5, <1>6
  <1>11. Len(c) \in Nat \ {0} /\ c[Len(c)] = Star
    BY <1>2, <1>6, <1>10
  <1> QED
    BY <1>3, <1>7, <1>8, <1>9, <1>10, <1>11 DEF N

LEMMA BeforeWildcard ==
    ASSUME NEW c \in Code, Has(c, Star)
    PROVE  /\ Before(c) = SubSeq(c, 1, Len(c) - 1)
           /\ Before(c) \in Seq(Char) /\ Len(Before(c)) = Len(c) - 1
           /\ \A i \in 1 .. Len(c) - 1 : Before(c)[i] = c[i]
  <1>1. /\ c \in Text /\ Len(c) \in Nat \ {0} /\ DOMAIN c = 1 .. Len(c) /\ c[Len(c)] = Star
        /\ \A i \in 1 .. Len(c) : c[i] \in Char
        /\ \A i \in 1 .. Len(c) : c[i] = Star => i = Len(c)
    BY WildcardLast, TextIsSeq DEF Code
  <1> DEFINE n == Len(c) - 1
             P == SubSeq(c, 1, n)
  <1>2. n \in Nat /\ \A i \in 1 .. n : i \in 1 .. Len(c) /\ i # Len(c)
    <2>1. Len(c) \in Nat \ {0}
      BY <1>1
    <2> QED
      BY <2>1
  <1>3. /\ P \in Seq(Char) /\ Len(P) = IF 1 <= n THEN n - 1 + 1 ELSE 0
        /\ \A i \in 1 .. n - 1 + 1 : P[i] = c[1 + i - 1]
    <2>1. \A i \in 1 .. n : c[i] \in Char
      BY <1>1, <1>2
    <2> HIDE DEF n
    <2> QED
      BY <1>2, <2>1, SubSeqProperties
  <1>4. Len(P) = n /\ DOMAIN P = 1 .. n /\ \A i \in 1 .. n : P[i] = c[i]
    <2> HIDE DEF n, P
    <2>1. Len(P) = n
      BY <1>2, <1>3
    <2>2. DOMAIN P = 1 .. n
      BY <1>3, <2>1, LenProperties
    <2>3. ASSUME NEW i \in 1 .. n PROVE P[i] = c[i]
      <3>1. i \in 1 .. n - 1 + 1 /\ 1 + i - 1 = i
        BY <1>2
      <3> QED
        BY <1>3, <3>1
    <2> QED
      BY <2>1, <2>2, <2>3
  <1>5. ~Has(P, Star)
    <2> HIDE DEF n, P
    <2> QED
      BY <1>1, <1>2, <1>4 DEF Has
  <1> DEFINE first == CHOOSE i \in DOMAIN c : c[i] = Star /\ ~Has(SubSeq(c, 1, i - 1), Star)
  <1>6. first = Len(c)
    <2>1. Len(c) \in DOMAIN c /\ c[Len(c)] = Star
      <3>1. \A l \in Nat \ {0} : l \in 1 .. l
        OBVIOUS
      <3>2. Len(c) \in 1 .. Len(c)
        BY <1>1, <3>1
      <3> QED
        BY <1>1, <3>2
    <2>2. ~Has(SubSeq(c, 1, Len(c) - 1), Star)
      BY <1>5 DEF P, n
    <2>3. \A i \in DOMAIN c : c[i] = Star => i = Len(c)
      BY <1>1
    <2> QED
      BY <2>1, <2>2, <2>3
  <1>7. Before(c) = SubSeq(c, 1, first - 1)
    BY DEF Before
  <1>8. Before(c) = P
    BY <1>6, <1>7
  <1> HIDE DEF P, first
  <1> QED
    BY <1>3, <1>4, <1>8 DEF P

LEMMA NoWildcard ==
    ASSUME NEW c \in Text, ~Has(c, Star)
    PROVE  Last(Segments(c)) # <<Star>>
  <1> DEFINE N == Seps(c, Len(c))
  <1>1. /\ Len(c) \in Nat /\ DOMAIN c = 1 .. Len(c) /\ N \in Nat
        /\ End(c, N + 1) = Len(c) + 1 /\ End(c, N) \in 0 .. Len(c)
    BY TextIsSeq, Layout
  <1>2. Last(Segments(c)) = Segments(c)[N + 1]
    <2> HIDE DEF N
    <2>1. Segments(c) = [k \in 1 .. N + 1 |-> SubSeq(c, End(c, k - 1) + 1, End(c, k) - 1)]
      BY SegmentsAre DEF N
    <2> QED
      BY <1>1, <2>1 DEF Last
  <1>3. SUFFICES ASSUME Segments(c)[N + 1] = <<Star>> PROVE FALSE
    BY <1>2
  <1> HIDE DEF N
  <1>4. N + 1 \in 1 .. N + 1 /\ (N + 1) - 1 = N
    BY <1>1
  <1>5. /\ Len(Segments(c)[N + 1]) = End(c, N + 1) - End(c, N) - 1
        /\ \A x \in 1 .. Len(Segments(c)[N + 1]) : Segments(c)[N + 1][x] = c[End(c, N) + x]
    BY <1>4, SegmentAt DEF N
  <1>6. 1 = End(c, N + 1) - End(c, N) - 1 /\ c[End(c, N) + 1] = Star
    BY <1>3, <1>5
  <1>7. End(c, N) + 1 \in DOMAIN c
    BY <1>1, <1>6
  <1> QED
    BY <1>6, <1>7 DEF Has

-----------------------------------------------------------------------------
(* What a code covers.                                                     *)

(* casbin's keyMatch, over bytes, is the domain layer's Covers.            *)
LEMMA KeyMatchIsCovers ==
    ASSUME NEW c \in Code, NEW obj \in Concrete
    PROVE  obj = c \/ keyMatch(obj, c) <=> Covers(c, obj)
  <1>1. CASE ~Has(c, Star)
    BY <1>1 DEF keyMatch, Covers
  <1>2. CASE Has(c, Star)
    <2> DEFINE P == Before(c)
    <2>1. obj # c /\ obj \in Seq(Char) /\ Len(obj) \in Nat
      BY <1>2, TextIsSeq DEF Concrete, Code
    <2>2. P \in Seq(Char) /\ Len(P) \in Nat
      BY <1>2, BeforeWildcard, LenProperties
    <2>3. keyMatch(obj, c) = IF Len(obj) > Len(P) THEN SubSeq(obj, 1, Len(P)) = P ELSE obj = P
      BY <1>2 DEF keyMatch
    <2>4. Covers(c, obj) = (Len(P) <= Len(obj) /\ SubSeq(P, 1, Len(P)) = SubSeq(obj, 1, Len(P)))
      BY <1>2 DEF Covers, IsPrefix
    <2> HIDE DEF P
    <2>5. SubSeq(P, 1, Len(P)) = P /\ SubSeq(obj, 1, Len(obj)) = obj
      BY <2>1, <2>2, SubSeqFull
    <2> QED
      BY <2>1, <2>2, <2>3, <2>4, <2>5
  <1> QED
    BY <1>1, <1>2

LEMMA PrefixByElements ==
    ASSUME NEW S, NEW s \in Seq(S), NEW t \in Seq(S)
    PROVE  IsPrefix(s, t) <=> Len(s) <= Len(t) /\ \A i \in 1 .. Len(s) : s[i] = t[i]
  <1>1. /\ Len(s) \in Nat /\ Len(t) \in Nat
        /\ \A i \in 1 .. Len(s) : s[i] \in S /\ \A j \in 1 .. Len(t) : t[j] \in S
    BY LenProperties, ElementOfSeq
  <1>2. SubSeq(s, 1, Len(s)) = s
    BY SubSeqFull
  <1>3. ASSUME Len(s) <= Len(t)
        PROVE  /\ SubSeq(t, 1, Len(s)) \in Seq(S) /\ Len(SubSeq(t, 1, Len(s))) = Len(s)
               /\ \A i \in 1 .. Len(s) : SubSeq(t, 1, Len(s))[i] = t[i]
    <2>1. \A i \in 1 .. Len(s) : t[i] \in S
      BY <1>1, <1>3, ElementOfSeq
    <2> DEFINE n == Len(s)
    <2> HIDE DEF n
    <2>2. n \in Nat /\ \A i \in 1 .. n : t[i] \in S
      BY <1>1, <2>1 DEF n
    <2>3. /\ SubSeq(t, 1, n) \in Seq(S)
          /\ Len(SubSeq(t, 1, n)) = IF 1 <= n THEN n - 1 + 1 ELSE 0
          /\ \A i \in 1 .. n - 1 + 1 : SubSeq(t, 1, n)[i] = t[1 + i - 1]
      BY <2>2, SubSeqProperties
    <2>4. Len(SubSeq(t, 1, n)) = n
      BY <2>2, <2>3
    <2>5. ASSUME NEW i \in 1 .. n PROVE SubSeq(t, 1, n)[i] = t[i]
      <3>1. i \in 1 .. n - 1 + 1 /\ 1 + i - 1 = i
        BY <2>2
      <3> QED
        BY <2>3, <3>1
    <2> QED
      BY <2>3, <2>4, <2>5 DEF n
  <1>4. ASSUME Len(s) <= Len(t), \A i \in 1 .. Len(s) : s[i] = t[i]
        PROVE  s = SubSeq(t, 1, Len(s))
    <2> DEFINE u == SubSeq(t, 1, Len(s))
    <2>1. u \in Seq(S) /\ Len(u) = Len(s) /\ \A i \in 1 .. Len(s) : u[i] = s[i]
      BY <1>3, <1>4
    <2> HIDE DEF u
    <2>2. u = s
      BY <2>1, SeqEqual
    <2> QED
      BY <2>2 DEF u
  <1> QED
    BY <1>2, <1>3, <1>4 DEF IsPrefix

(* And that is what the code means: itself, or all that is under it.       *)
LEMMA CoversIsMeans ==
    ASSUME NEW c \in Code, NEW obj \in Concrete
    PROVE  Covers(c, obj) <=> Means(c, obj)
  <1>0. c \in Text /\ obj \in Text
    BY DEF Code, Concrete
  <1>1. CASE ~Has(c, Star)
    BY <1>0, <1>1, NoWildcard DEF Covers, Means
  <1>2. CASE Has(c, Star)
    <2> DEFINE L == Len(c) - 1
               N == Seps(c, Len(c))
               M == Seps(obj, Len(obj))
               C == Segments(c)
               T == Segments(obj)
               F == SubSeq(C, 1, N)
    <2>1. /\ N \in Nat \ {0} /\ Last(C) = <<Star>> /\ Len(C) = N + 1
          /\ Len(c) \in Nat \ {0} /\ End(c, N) = L
      BY <1>2, WildcardLast
    <2>2. L \in Nat /\ L <= Len(c) /\ M \in Nat /\ Len(obj) \in Nat
      BY <1>0, <2>1, Layout, TextIsSeq
    <2>3. C \in Seq(Seq(Char)) /\ T \in Seq(Seq(Char)) /\ Len(T) = M + 1
      <3> HIDE DEF N, M
      <3>1. /\ C = [k \in 1 .. N + 1 |-> SubSeq(c, End(c, k - 1) + 1, End(c, k) - 1)]
            /\ T = [k \in 1 .. M + 1 |-> SubSeq(obj, End(obj, k - 1) + 1, End(obj, k) - 1)]
        BY SegmentsAre DEF N, M
      <3>2. /\ \A k \in 1 .. N + 1 : C[k] \in Seq(Char)
            /\ \A k \in 1 .. M + 1 : T[k] \in Seq(Char)
        BY <1>0, SegmentAt DEF N, M
      <3> HIDE DEF C, T
      <3>3. C \in [1 .. N + 1 -> Seq(Char)] /\ T \in [1 .. M + 1 -> Seq(Char)]
        BY <3>1, <3>2
      <3>4. N + 1 \in Nat /\ M + 1 \in Nat
        BY <2>1, <2>2
      <3>5. ASSUME NEW X, NEW n \in Nat, NEW f \in [1 .. n -> X] PROVE f \in Seq(X)
        BY SeqDef
      <3>6. C \in Seq(Seq(Char))
        BY <3>3, <3>4, <3>5
      <3>7. T \in Seq(Seq(Char))
        BY <3>3, <3>4, <3>5
      <3> QED
        BY <3>3, <3>4, <3>6, <3>7, LenProperties
    <2>4. /\ F \in Seq(Seq(Char)) /\ Len(F) = N /\ \A k \in 1 .. N : F[k] = C[k]
          /\ Front(C) = F
      <3> HIDE DEF N, C, M, T
      <3>1. \A k \in 1 .. N : C[k] \in Seq(Char)
        BY <2>1, <2>3, ElementOfSeq
      <3>2. /\ F \in Seq(Seq(Char)) /\ Len(F) = IF 1 <= N THEN N - 1 + 1 ELSE 0
            /\ \A k \in 1 .. N - 1 + 1 : F[k] = C[1 + k - 1]
        BY <2>1, <3>1, SubSeqProperties
      <3>3. \A k \in 1 .. N : k \in 1 .. N - 1 + 1 /\ 1 + k - 1 = k
        BY <2>1
      <3>4. Len(C) - 1 = N /\ Len(F) = N
        BY <2>1, <3>2
      <3> QED
        BY <3>2, <3>3, <3>4 DEF Front
    <2>5. Covers(c, obj) <=> L <= Len(obj) /\ \A i \in 1 .. L : c[i] = obj[i]
      <3>1. obj \in Seq(Char)
        BY <1>0, TextIsSeq
      <3>2. Covers(c, obj) <=> IsPrefix(Before(c), obj)
        BY <1>2 DEF Covers
      <3>3. /\ Before(c) \in Seq(Char) /\ Len(Before(c)) = L
            /\ \A i \in 1 .. L : Before(c)[i] = c[i]
        BY <1>2, BeforeWildcard
      <3> HIDE DEF L
      <3> QED
        BY <3>1, <3>2, <3>3, PrefixByElements
    <2>6. Means(c, obj) <=> N <= M /\ \A k \in 1 .. N : C[k] = T[k]
      <3>1. Means(c, obj) <=> IsPrefix(F, T) /\ F # T
        BY <2>1, <2>4 DEF Means, IsStrictPrefix
      <3> HIDE DEF N, M, C, T, F
      <3>2. F \in Seq(Seq(Char)) /\ T \in Seq(Seq(Char)) /\ Len(F) = N /\ Len(T) = M + 1
        BY <2>3, <2>4
      <3>3. IsPrefix(F, T) <=> Len(F) <= Len(T) /\ \A k \in 1 .. Len(F) : F[k] = T[k]
        <4>1. ASSUME NEW X, NEW s \in Seq(X), NEW t \in Seq(X)
              PROVE  IsPrefix(s, t) <=> Len(s) <= Len(t) /\ \A k \in 1 .. Len(s) : s[k] = t[k]
          BY PrefixByElements
        <4> DEFINE X == Seq(Char)
        <4> HIDE DEF X
        <4>2. F \in Seq(X) /\ T \in Seq(X)
          BY <3>2 DEF X
        <4> QED
          BY <4>1, <4>2
      <3>4. IsPrefix(F, T) <=> N <= M + 1 /\ \A k \in 1 .. N : C[k] = T[k]
        BY <2>4, <3>2, <3>3
      <3>5. N = M + 1 /\ (\A k \in 1 .. N : C[k] = T[k]) => F = T
        BY <2>3, <2>4, SeqEqual
      <3>6. N <= M => F # T
        BY <2>1, <2>2, <2>3, <2>4
      <3> QED
        BY <2>1, <2>2, <3>1, <3>4, <3>5, <3>6
    <2> HIDE DEF L, M, C, T, F
    <2>7. ASSUME L <= Len(obj), \A i \in 1 .. L : c[i] = obj[i]
          PROVE  N <= M /\ \A k \in 1 .. N : C[k] = T[k]
      <3>1. Seps(c, L) = N
        BY <1>0, <2>1, Layout
      <3> HIDE DEF N
      <3>2. \A k \in 1 .. N : k <= M /\ C[k] = T[k]
        BY <1>0, <2>2, <2>7, <3>1, SameStart, SamePrefix DEF C, T, M
      <3>3. N \in 1 .. N
        BY <2>1
      <3> QED
        BY <3>2, <3>3
    <2>8. ASSUME N <= M, \A k \in 1 .. N : C[k] = T[k]
          PROVE  L <= Len(obj) /\ \A i \in 1 .. L : c[i] = obj[i]
      <3>1. N \in Nat /\ N <= Seps(c, Len(c)) /\ N <= Seps(obj, Len(obj))
        BY <2>1, <2>8 DEF M
      <3>2. \A k \in 1 .. N : Segments(c)[k] = Segments(obj)[k]
        BY <2>8 DEF C, T
      <3>3. End(obj, N) \in 0 .. Len(obj)
        <4>1. N \in 0 .. Seps(obj, Len(obj))
          BY <3>1
        <4> HIDE DEF N
        <4> QED
          BY <1>0, <4>1, Layout
      <3> HIDE DEF N
      <3>4. L = End(obj, N) /\ \A i \in 1 .. L : c[i] = obj[i]
        BY <1>0, <2>1, <3>1, <3>2, SameSegments
      <3> QED
        BY <2>2, <3>3, <3>4
    <2> QED
      BY <2>5, <2>6, <2>7, <2>8
  <1> QED
    BY <1>1, <1>2

-----------------------------------------------------------------------------
(* What is decided.                                                        *)

LEMMA AllAgree == RulesOK => DecisionsAgree
  <1> SUFFICES ASSUME RulesOK PROVE DecisionsAgree
    OBVIOUS
  <1> DEFINE r == asked[1]
             obj == asked[2]
  <1>1. r \in Role /\ obj \in Concrete
    BY DEF RulesOK
  <1>2. \A g \in grants : g[2] \in Code
    BY DEF RulesOK
  <1> HIDE DEF r, obj
  <1>3. \A g \in grants : /\ obj = g[2] \/ keyMatch(obj, g[2]) <=> Covers(g[2], obj)
                          /\ Covers(g[2], obj) <=> Means(g[2], obj)
    BY <1>1, <1>2, KeyMatchIsCovers, CoversIsMeans
  <1>4. Linked(r) = Implied(r)
    BY <1>1, LinkedIsImplied
  <1>5. AllowContext(r, obj) <=> \E g \in grants : g[1] \in Implied(r) /\ Covers(g[2], obj)
    BY <1>3, <1>4 DEF AllowContext
  <1>6. AllowContext(r, obj) <=> \E g \in grants : g[1] \in Implied(r) /\ Means(g[2], obj)
    BY <1>3, <1>5
  <1>7. (\E c \in PermissionsOf(r) : Covers(c, obj))
          <=> \E g \in grants : g[1] \in Implied(r) /\ Covers(g[2], obj)
    BY DEF PermissionsOf
  <1>8. (\E c \in PermissionsOf(r) : Means(c, obj))
          <=> \E g \in grants : g[1] \in Implied(r) /\ Means(g[2], obj)
    BY DEF PermissionsOf
  <1>9. /\ AllowContext(r, obj) <=> \E c \in PermissionsOf(r) : Covers(c, obj)
        /\ AllowContext(r, obj) <=> \E c \in PermissionsOf(r) : Means(c, obj)
    BY <1>5, <1>6, <1>7, <1>8
  <1> QED
    BY <1>9 DEF DecisionsAgree, r, obj

LEMMA RulesKept == RulesOK /\ [Next]_vars => RulesOK'
  <1> SUFFICES ASSUME RulesOK, [Next]_vars PROVE RulesOK'
    OBVIOUS
  <1>1. ASSUME NEW r \in Role, NEW c \in Code, SetRolePermissions(r, c) PROVE RulesOK'
    BY <1>1 DEF RulesOK, SetRolePermissions
  <1>2. ASSUME NEW child \in Role, NEW above \in Role, AddRoleInheritance(child, above)
        PROVE  RulesOK'
    <2>1. IsFiniteSet(parents \cup {<<child, above>>})
      BY FS_AddElement DEF RulesOK
    <2> QED
      BY <1>2, <2>1 DEF RulesOK, AddRoleInheritance
  <1>3. CASE UNCHANGED vars
    BY <1>3 DEF RulesOK, vars
  <1> QED
    BY <1>1, <1>2, <1>3 DEF Next

(* For any roles, any characters and any lengths, the enforcer lets        *)
(* through exactly what menus and bindings show as granted, and exactly    *)
(* what the codes mean segment by segment: the limited depth of the role   *)
(* manager loses no role, and keyMatch over bytes never takes one segment  *)
(* for the start of another (permissioncode.go:157, rebuildRoleLinks).     *)
THEOREM DecisionsAlwaysAgree == Spec => []DecisionsAgree
  <1>1. Init => RulesOK
    BY FS_EmptySet DEF Init, RulesOK
  <1> QED
    BY <1>1, RulesKept, AllAgree, PTL DEF Spec

-----------------------------------------------------------------------------
(* The walks.                                                              *)

WalkTypeOK ==
    /\ parent \in [Node -> Node \cup {Root, Gone}]
    /\ hit \subseteq Node /\ visible \subseteq Node
    /\ cursor \in Node \cup {Root, Gone} /\ visited \subseteq Node
    /\ newParent \in Node \cup {Root, Gone}
    /\ edges \subseteq Node \X Node /\ IsFiniteSet(edges) /\ stack \in Seq(Node)
    /\ pc \in {"check", "climb", "search", "menus", "ancestors", "done"}
    /\ pc \in {"check", "climb", "search"} => id \in Node
    /\ pc = "search" => newParent \in Node
    /\ pc \in {"menus", "ancestors"} => id = Gone

(* What EnsureNoCycle has learnt when it looks at cursor.                  *)
Climbed ==
    /\ newParent \in visited \cup {cursor}
    /\ cursor \notin {id, Root}
    /\ cursor \in Node => cursor \in AtOrAbove({newParent})
    /\ \A m \in visited : m # id /\ parent[m] \in (visited \cup {cursor}) \ {Root}

(* What rolePathExists has found: what it has seen leads to nothing but    *)
(* what it has seen or has still to look at.                               *)
Found == visited \cup Range(stack)

Searched ==
    /\ newParent \in Found /\ Found \subseteq Inherited(newParent)
    /\ id \notin visited
    /\ \A e \in edges : e[1] \in visited => e[2] \in Found

(* What VisibleMenus has brought together.                                 *)
HasParent(n) == parent[n] \in Node => parent[n] \in visible

Collected ==
    /\ hit \subseteq visible /\ visible \subseteq AtOrAbove(hit)
    /\ pc = "ancestors" => cursor \in visible
    /\ \A n \in visible :
         \/ HasParent(n)
         \/ n \in hit \ produced
         \/ pc = "ancestors" /\ n = cursor

WalkInv ==
    /\ WalkTypeOK
    /\ pc = "check" => visited = {} /\ cursor = newParent
    /\ pc = "climb" => Climbed
    /\ pc = "search" => Searched
    /\ pc \in {"menus", "ancestors"} => Collected
    /\ WalksAgree

-----------------------------------------------------------------------------
(* What is at or above a set of rows.                                      *)

Upward(T) == \A m \in T : parent[m] \in Node => parent[m] \in T

LEMMA AboveWithin ==
    ASSUME NEW S, NEW T \in SUBSET Node, S \subseteq T, Upward(T)
    PROVE  AtOrAbove(S) \subseteq T
  BY DEF AtOrAbove, Upward

LEMMA AboveContains ==
    ASSUME NEW S \in SUBSET Node
    PROVE  S \subseteq AtOrAbove(S) /\ AtOrAbove(S) \subseteq Node /\ Upward(AtOrAbove(S))
  BY DEF AtOrAbove, Upward

LEMMA AboveStays ==
    ASSUME UNCHANGED rows
    PROVE  /\ AtOrAbove(hit)' = AtOrAbove(hit)
           /\ AtOrAbove({newParent})' = AtOrAbove({newParent})
           /\ VerdictRight' <=>
                (verdict' = "ok" <=>
                   \/ newParent = Root
                   \/ /\ newParent \in Node /\ id \notin AtOrAbove({newParent})
                      /\ \E top \in AtOrAbove({newParent}) : parent[top] = Root)
  BY DEF AtOrAbove, rows, VerdictRight

-----------------------------------------------------------------------------
(* What a role inherits.                                                   *)

Onwards(T) == \A e \in edges : e[1] \in T => e[2] \in T

LEMMA InheritedWithin ==
    ASSUME NEW r, NEW T \in SUBSET Node, r \in T, Onwards(T)
    PROVE  Inherited(r) \subseteq T
  BY DEF Inherited, Onwards

LEMMA InheritedContains ==
    ASSUME NEW r \in Node, edges \subseteq Node \X Node
    PROVE  r \in Inherited(r) /\ Inherited(r) \subseteq Node /\ Onwards(Inherited(r))
  BY DEF Inherited, Onwards

LEMMA InheritedStays ==
    ASSUME UNCHANGED rows
    PROVE  Inherited(newParent)' = Inherited(newParent)
  BY DEF Inherited, rows

-----------------------------------------------------------------------------
(* The stack of the search.                                                *)

LEMMA Pop ==
    ASSUME NEW s \in Seq(Node), s # <<>>
    PROVE  /\ Last(s) \in Node /\ Front(s) \in Seq(Node)
           /\ Range(s) = Range(Front(s)) \cup {Last(s)}
  <1>1. Len(s) \in Nat \ {0} /\ DOMAIN s = 1 .. Len(s)
    OBVIOUS
  <1>2. Last(s) = s[Len(s)] /\ Front(s) = SubSeq(s, 1, Len(s) - 1)
    BY DEF Last, Front
  <1>3. /\ Front(s) \in Seq(Node) /\ DOMAIN Front(s) = 1 .. Len(s) - 1
        /\ \A i \in 1 .. Len(s) - 1 : Front(s)[i] = s[i]
    BY <1>1, <1>2
  <1>4. 1 .. Len(s) = (1 .. Len(s) - 1) \cup {Len(s)}
    BY <1>1
  <1>5. Range(s) = {s[i] : i \in 1 .. Len(s) - 1} \cup {s[Len(s)]}
    BY <1>1, <1>4, Zenon DEF Range
  <1>6. Range(Front(s)) = {s[i] : i \in 1 .. Len(s) - 1}
    BY <1>3 DEF Range
  <1> QED
    BY <1>1, <1>2, <1>3, <1>5, <1>6

LEMMA Push ==
    ASSUME NEW s \in Seq(Node), NEW S \in SUBSET Node, IsFiniteSet(S),
           NEW next \in Bijection(1 .. Cardinality(S), S)
    PROVE  s \o next \in Seq(Node) /\ Range(s \o next) = Range(s) \cup S
  <1> DEFINE n == Cardinality(S)
  <1>1. n \in Nat
    BY FS_CardinalityType
  <1>2. next \in [1 .. n -> S] /\ \A x \in S : \E i \in 1 .. n : next[i] = x
    BY DEF Bijection, Surjection
  <1> HIDE DEF n
  <1>3. next \in Seq(Node) /\ Len(next) = n
    BY <1>1, <1>2
  <1>4. Range(next) = S
    BY <1>2 DEF Range
  <1>5. /\ s \o next \in Seq(Node) /\ Len(s \o next) = Len(s) + n
        /\ \A i \in 1 .. Len(s) : (s \o next)[i] = s[i]
        /\ \A i \in 1 .. n : (s \o next)[Len(s) + i] = next[i]
    BY <1>1, <1>3
  <1>6. \A i \in 1 .. Len(s) + n : i \in 1 .. Len(s) \/ \E j \in 1 .. n : i = Len(s) + j
    <2> SUFFICES ASSUME NEW i \in 1 .. Len(s) + n, i \notin 1 .. Len(s)
                 PROVE  i - Len(s) \in 1 .. n /\ i = Len(s) + (i - Len(s))
      OBVIOUS
    <2> QED
      BY <1>1
  <1>7. Range(s \o next) \subseteq Range(s) \cup S
    BY <1>2, <1>5, <1>6 DEF Range
  <1>8. Range(s) \cup S \subseteq Range(s \o next)
    <2>1. Range(s) \subseteq Range(s \o next)
      <3>1. \A i \in 1 .. Len(s) : i \in 1 .. Len(s) + n
        BY <1>1
      <3> QED
        BY <1>5, <3>1 DEF Range
    <2>2. S \subseteq Range(s \o next)
      <3> SUFFICES ASSUME NEW x \in S PROVE x \in Range(s \o next)
        OBVIOUS
      <3>1. PICK i \in 1 .. n : next[i] = x
        BY <1>2
      <3>2. Len(s) + i \in 1 .. Len(s \o next) /\ (s \o next)[Len(s) + i] = x
        BY <1>1, <1>5, <3>1
      <3>3. DOMAIN (s \o next) = 1 .. Len(s \o next)
        BY <1>5
      <3> QED
        BY <3>2, <3>3 DEF Range
    <2> QED
      BY <2>1, <2>2
  <1> QED
    BY <1>5, <1>7, <1>8

-----------------------------------------------------------------------------
(* All walks begin well.                                                   *)

LEMMA WalkInitInv == WalkInit => WalkInv
  <1> SUFFICES ASSUME WalkInit PROVE WalkInv
    OBVIOUS
  <1>1. WalkTypeOK
    <2>1. pc \in {"check", "search", "menus"} /\ parent \in Tables
      <3>1. [n \in Node |-> Root] \in Tables
        BY DEF Tables
      <3> QED
        BY <3>1 DEF WalkInit
    <2>2. edges \subseteq Node \X Node /\ IsFiniteSet(edges)
      <3>1. CASE pc = "search"
        BY <3>1 DEF WalkInit, Inheritances
      <3>2. CASE pc # "search"
        BY <3>2, FS_EmptySet DEF WalkInit
      <3> QED
        BY <3>1, <3>2
    <2>3. stack \in Seq(Node)
      BY DEF WalkInit
    <2>4. /\ hit \subseteq Node /\ visible = hit
          /\ cursor = newParent /\ visited = {} /\ newParent \in Node \cup {Root, Gone}
          /\ pc = "search" => newParent \in Node
          /\ id \in IF pc = "menus" THEN {Gone} ELSE Node
      BY DEF WalkInit
    <2> QED
      BY <2>1, <2>2, <2>3, <2>4 DEF WalkTypeOK, Tables
  <1>2. pc \in {"menus", "ancestors"} => Collected
    <2>1. hit \in SUBSET Node
      BY <1>1 DEF WalkTypeOK
    <2> QED
      BY <2>1, AboveContains DEF WalkInit, Collected
  <1>3. pc = "search" => Searched
    <2> SUFFICES ASSUME pc = "search" PROVE Searched
      OBVIOUS
    <2>1. /\ newParent \in Node /\ edges \subseteq Node \X Node
          /\ stack = <<newParent>> /\ visited = {}
      BY <1>1 DEF WalkInit, WalkTypeOK
    <2>2. Range(stack) = {newParent}
      BY <2>1 DEF Range
    <2> QED
      BY <2>1, <2>2, InheritedContains DEF Searched, Found
  <1> QED
    BY <1>1, <1>2, <1>3 DEF WalkInit, WalkInv, WalksAgree

-----------------------------------------------------------------------------
(* EnsureNoCycle.                                                          *)

(* A climb that comes to something visited, or to no row, has seen all     *)
(* that is above the new parent, and no root.                              *)
LEMMA NoWayUp ==
    ASSUME WalkTypeOK, Climbed, cursor \in visited \/ cursor \notin Node
    PROVE  newParent \in Node => \A top \in AtOrAbove({newParent}) : parent[top] # Root
  <1> SUFFICES ASSUME newParent \in Node
               PROVE  \A top \in AtOrAbove({newParent}) : parent[top] # Root
    OBVIOUS
  <1>1. newParent \in visited /\ visited \in SUBSET Node
    BY DEF WalkTypeOK, Climbed
  <1>2. Upward(visited)
    BY DEF Climbed, Upward
  <1>3. AtOrAbove({newParent}) \subseteq visited
    BY <1>1, <1>2, AboveWithin
  <1> QED
    BY <1>3 DEF Climbed

(* One that has come to the root has not passed the node.                  *)
LEMMA WayToRoot ==
    ASSUME WalkTypeOK, Climbed, cursor \in Node, parent[cursor] = Root
    PROVE  /\ newParent \in Node /\ id \notin AtOrAbove({newParent})
           /\ cursor \in AtOrAbove({newParent})
  <1> DEFINE T == visited \cup {cursor}
  <1>1. newParent \in T /\ T \in SUBSET Node /\ id \notin T
    BY DEF WalkTypeOK, Climbed
  <1>2. Upward(T)
    BY NodeAssumption DEF Climbed, Upward
  <1>3. AtOrAbove({newParent}) \subseteq T
    BY <1>1, <1>2, AboveWithin
  <1> QED
    BY <1>1, <1>3 DEF Climbed

LEMMA BeginCheckKeeps ==
    ASSUME WalkInv, BeginCheck
    PROVE  WalkInv'
  <1> USE DEF WalkInv
  <1>1. /\ WalkTypeOK /\ id \in Node /\ pc = "check" /\ visited = {} /\ cursor = newParent
        /\ UNCHANGED <<parent, hit, edges, id, newParent, cursor, stack, visited, visible, produced>>
    BY DEF BeginCheck, Conclude, WalkTypeOK, rows
  <1>2. CASE newParent = Root /\ Conclude("ok")
    <2>1. pc' = "done" /\ verdict' = "ok"
      BY <1>2 DEF Conclude
    <2>2. WalkTypeOK'
      BY <1>1, <2>1 DEF WalkTypeOK
    <2>3. VerdictRight'
      BY <1>1, <1>2, <2>1, AboveStays DEF rows
    <2> QED
      BY <1>1, <2>1, <2>2, <2>3 DEF WalksAgree
  <1>3. CASE newParent = id /\ Conclude("cycle")
    <2>1. pc' = "done" /\ verdict' = "cycle"
      BY <1>3 DEF Conclude
    <2>2. WalkTypeOK'
      BY <1>1, <2>1 DEF WalkTypeOK
    <2>3. newParent # Root /\ id \in AtOrAbove({newParent})
      BY <1>1, <1>3, NodeAssumption, AboveContains
    <2>4. VerdictRight'
      BY <1>1, <2>1, <2>3, AboveStays DEF rows
    <2> QED
      BY <1>1, <2>1, <2>2, <2>4 DEF WalksAgree
  <1>4. CASE newParent \notin {Root, id} /\ pc' = "climb"
    <2>1. WalkTypeOK'
      BY <1>1, <1>4 DEF WalkTypeOK
    <2>2. newParent \in Node => newParent \in AtOrAbove({newParent})
      BY AboveContains
    <2>3. Climbed'
      BY <1>1, <1>4, <2>2, AboveStays DEF Climbed, rows
    <2> QED
      BY <1>4, <2>1, <2>3 DEF WalksAgree
  <1> QED
    BY <1>2, <1>3, <1>4 DEF BeginCheck

LEMMA ClimbKeeps ==
    ASSUME WalkInv, Climb
    PROVE  WalkInv'
  <1> USE DEF WalkInv
  <1>1. /\ WalkTypeOK /\ Climbed /\ id \in Node /\ pc = "climb"
        /\ UNCHANGED <<parent, hit, edges, id, newParent, stack, visible, produced>>
    BY DEF Climb, Conclude, WalkTypeOK, rows
  <1>2. newParent # Root
    BY <1>1, NodeAssumption DEF Climbed, WalkTypeOK
  <1>3. ASSUME NEW v \in {"cycle", "not found"}, Conclude(v),
               \/ cursor \in visited \/ cursor \notin Node
               \/ cursor \in Node /\ parent[cursor] = id
        PROVE  WalkInv'
    <2>1. /\ pc' = "done" /\ UNCHANGED <<cursor, visited>>
          /\ verdict' \notin {"ok", "path", "no path"}
      BY <1>3 DEF Conclude
    <2>2. WalkTypeOK'
      BY <1>1, <2>1 DEF WalkTypeOK
    <2>3. CASE cursor \in visited \/ cursor \notin Node
      BY <1>1, <1>2, <2>1, <2>2, <2>3, NoWayUp, AboveStays DEF WalksAgree, rows
    <2>4. CASE cursor \in Node /\ parent[cursor] = id
      <3>1. ASSUME newParent \in Node PROVE id \in AtOrAbove({newParent})
        <4>1. cursor \in AtOrAbove({newParent}) /\ parent[cursor] = id
          BY <1>1, <2>4, <3>1 DEF Climbed
        <4>2. Upward(AtOrAbove({newParent}))
          BY <3>1, AboveContains
        <4> QED
          BY <1>1, <4>1, <4>2 DEF Upward
      <3> QED
        BY <1>1, <1>2, <2>1, <2>2, <3>1, AboveStays DEF WalksAgree, rows
    <2> QED
      BY <1>3, <2>3, <2>4
  <1>4. CASE cursor \in Node /\ parent[cursor] = Root /\ Conclude("ok")
    <2>1. pc' = "done" /\ verdict' = "ok" /\ UNCHANGED <<cursor, visited>>
      BY <1>4 DEF Conclude
    <2>2. WalkTypeOK'
      BY <1>1, <2>1 DEF WalkTypeOK
    <2> QED
      BY <1>1, <1>4, <2>1, <2>2, WayToRoot, AboveStays DEF WalksAgree, rows
  <1>5. CASE /\ cursor \in Node /\ parent[cursor] \notin {Root, id}
             /\ visited' = visited \cup {cursor} /\ cursor' = parent[cursor]
             /\ UNCHANGED <<pc, verdict>>
    <2>1. WalkTypeOK'
      BY <1>1, <1>5 DEF WalkTypeOK
    <2>2. parent[cursor] \in Node => parent[cursor] \in AtOrAbove({newParent})
      <3>1. newParent \in Node => cursor \in AtOrAbove({newParent})
        BY <1>1, <1>5 DEF Climbed
      <3>2. newParent \in Node
        BY <1>1, <1>5 DEF Climbed, WalkTypeOK
      <3> QED
        BY <3>1, <3>2, AboveContains DEF Upward
    <2>3. Climbed'
      BY <1>1, <1>5, <2>2, AboveStays DEF Climbed, rows
    <2> QED
      BY <1>1, <1>5, <2>1, <2>3 DEF WalksAgree
  <1> QED
    BY <1>1, <1>3, <1>4, <1>5 DEF Climb

-----------------------------------------------------------------------------
(* rolePathExists.                                                         *)

(* With nothing left to look at, all that is inherited has been seen.      *)
LEMMA NothingLeft ==
    ASSUME WalkTypeOK, Searched, stack = <<>>
    PROVE  id \notin Inherited(newParent)
  <1>1. Found = visited /\ visited \in SUBSET Node
    BY DEF Found, Range, WalkTypeOK
  <1>2. newParent \in visited /\ Onwards(visited)
    BY <1>1 DEF Searched, Onwards
  <1>3. Inherited(newParent) \subseteq visited
    BY <1>1, <1>2, InheritedWithin
  <1> QED
    BY <1>3 DEF Searched

LEMMA SearchKeeps ==
    ASSUME WalkInv, Search
    PROVE  WalkInv'
  <1> USE DEF WalkInv
  <1>1. /\ WalkTypeOK /\ Searched /\ id \in Node /\ newParent \in Node /\ pc = "search"
        /\ UNCHANGED <<parent, hit, edges, id, newParent, cursor, visible, produced>>
    BY DEF Search, Conclude, WalkTypeOK, rows
  <1>2. ASSUME NEW v \in {"path", "no path"}, Conclude(v),
               v = "path" <=> id \in Inherited(newParent)
        PROVE  WalkInv'
    <2>1. pc' = "done" /\ verdict' = v /\ UNCHANGED <<stack, visited>>
      BY <1>2 DEF Conclude
    <2>2. WalkTypeOK'
      BY <1>1, <2>1 DEF WalkTypeOK
    <2>3. PathRight'
      BY <1>1, <1>2, <2>1, InheritedStays DEF PathRight, rows
    <2> QED
      BY <1>1, <1>2, <2>1, <2>2, <2>3 DEF WalksAgree
  <1>3. CASE stack = <<>>
    <2>1. Conclude("no path")
      BY <1>1, <1>3 DEF Search
    <2> QED
      BY <1>1, <1>2, <1>3, <2>1, NothingLeft
  <1>4. CASE stack # <<>>
    <2> DEFINE current == Last(stack)
               rest == Front(stack)
    <2>1. stack \in Seq(Node) /\ edges \subseteq Node \X Node /\ IsFiniteSet(edges)
      BY <1>1 DEF WalkTypeOK
    <2>2. /\ current \in Node /\ rest \in Seq(Node)
          /\ Range(stack) = Range(rest) \cup {current}
      BY <1>4, <2>1, Pop
    <2>3. current \in Inherited(newParent)
      BY <1>1, <2>2 DEF Searched, Found
    <2>4. CASE current = id
      <3>1. Conclude("path")
        BY <1>1, <1>4, <2>4 DEF Search
      <3> QED
        BY <1>2, <2>3, <2>4, <3>1
    <2>5. ASSUME current # id, UNCHANGED <<pc, verdict>>, stack' \in Seq(Node),
                 visited' = visited \cup {current}, Searched'
          PROVE  WalkInv'
      <3>1. WalkTypeOK'
        BY <1>1, <2>2, <2>5 DEF WalkTypeOK
      <3> QED
        BY <1>1, <2>5, <3>1 DEF WalksAgree
    <2>6. CASE current # id /\ current \in visited
      <3>1. stack' = rest /\ visited' = visited /\ UNCHANGED <<pc, verdict>>
        BY <1>1, <1>4, <2>6 DEF Search
      <3>2. Found' = Found
        BY <2>2, <2>6, <3>1 DEF Found
      <3>3. Searched'
        BY <1>1, <3>1, <3>2, InheritedStays DEF Searched, rows
      <3> QED
        BY <2>2, <2>5, <2>6, <3>1, <3>3
    <2>7. CASE current # id /\ current \notin visited
      <3> DEFINE out == {e \in edges : e[1] = current}
                 S == {e[2] : e \in out}
      <3>1. /\ visited' = visited \cup {current} /\ UNCHANGED <<pc, verdict>>
            /\ \E next \in Listings(current) : stack' = rest \o next
        BY <1>1, <1>4, <2>7 DEF Search
      <3>2. S \in SUBSET Node /\ IsFiniteSet(S)
        <4>1. IsFiniteSet(out) /\ S \subseteq Node
          BY <2>1, FS_Subset
        <4> HIDE DEF out
        <4> HIDE DEF S
        <4>2. [e \in out |-> e[2]] \in Surjection(out, S)
          BY DEF Surjection, S
        <4> QED
          BY <4>1, <4>2, FS_Surjection
      <3>3. PICK next \in Bijection(1 .. Cardinality(S), S) : stack' = rest \o next
        BY <3>1 DEF Listings
      <3>4. stack' \in Seq(Node) /\ Range(stack') = Range(rest) \cup S
        BY <2>2, <3>2, <3>3, Push
      <3>5. Found' = Found \cup S
        BY <2>2, <3>1, <3>4 DEF Found
      <3>6. S \subseteq Inherited(newParent)
        <4>1. Onwards(Inherited(newParent))
          BY <1>1, <2>1, InheritedContains
        <4> QED
          BY <2>3, <4>1 DEF Onwards
      <3>7. \A e \in edges : e[1] \in visited' => e[2] \in Found \cup S
        BY <1>1, <3>1 DEF Searched
      <3>8. Searched'
        BY <1>1, <2>7, <3>1, <3>5, <3>6, <3>7, InheritedStays DEF Searched, rows
      <3> QED
        BY <2>5, <2>7, <3>1, <3>4, <3>8
    <2> QED
      BY <2>4, <2>6, <2>7
  <1> QED
    BY <1>3, <1>4

-----------------------------------------------------------------------------
(* VisibleMenus.                                                           *)

LEMMA NextEntryKeeps ==
    ASSUME WalkInv, NextEntry
    PROVE  WalkInv'
  <1> USE DEF WalkInv
  <1>1. /\ WalkTypeOK /\ Collected /\ pc = "menus" /\ id = Gone
        /\ UNCHANGED <<parent, hit, edges, id, newParent, stack, visited, verdict, visible>>
    BY DEF NextEntry, WalkTypeOK, rows
  <1>2. ASSUME NEW n \in visible \ produced,
               cursor' = n, produced' = produced \cup {n}, pc' = "ancestors"
        PROVE  WalkInv'
    <2>1. WalkTypeOK'
      BY <1>1, <1>2 DEF WalkTypeOK
    <2>2. Collected'
      BY <1>1, <1>2, AboveStays DEF Collected, HasParent, rows
    <2> QED
      BY <1>2, <2>1, <2>2 DEF WalksAgree
  <1>3. CASE hit \subseteq produced /\ pc' = "done" /\ UNCHANGED <<cursor, produced>>
    <2>1. WalkTypeOK'
      BY <1>1, <1>3 DEF WalkTypeOK
    <2>2. visible = AtOrAbove(hit)
      <3>1. Upward(visible) /\ visible \in SUBSET Node /\ hit \subseteq visible
        BY <1>1, <1>3 DEF Collected, HasParent, Upward, WalkTypeOK
      <3>2. AtOrAbove(hit) \subseteq visible
        BY <3>1, AboveWithin
      <3> QED
        BY <1>1, <3>2 DEF Collected
    <2> QED
      BY <1>1, <1>3, <2>1, <2>2, NodeAssumption, AboveStays DEF WalksAgree, rows
  <1> QED
    BY <1>2, <1>3 DEF NextEntry

LEMMA AddAncestorKeeps ==
    ASSUME WalkInv, AddAncestor
    PROVE  WalkInv'
  <1> USE DEF WalkInv
  <1>1. /\ WalkTypeOK /\ Collected /\ pc = "ancestors" /\ id = Gone
        /\ UNCHANGED <<parent, hit, edges, id, newParent, stack, visited, verdict, produced>>
    BY DEF AddAncestor, WalkTypeOK, rows
  <1>2. CASE /\ parent[cursor] \in Node \ visible /\ cursor' = parent[cursor]
             /\ visible' = visible \cup {parent[cursor]} /\ UNCHANGED pc
    <2>1. WalkTypeOK'
      BY <1>1, <1>2 DEF WalkTypeOK
    <2>2. parent[cursor] \in AtOrAbove(hit)
      BY <1>1, <1>2, AboveContains DEF Collected, Upward, WalkTypeOK
    <2>3. Collected'
      BY <1>1, <1>2, <2>2, AboveStays DEF Collected, HasParent, rows
    <2> QED
      BY <1>1, <1>2, <2>1, <2>3 DEF WalksAgree
  <1>3. CASE parent[cursor] \notin Node \ visible /\ pc' = "menus" /\ UNCHANGED <<cursor, visible>>
    <2>1. WalkTypeOK'
      BY <1>1, <1>3 DEF WalkTypeOK
    <2>2. Collected'
      BY <1>1, <1>3, AboveStays DEF Collected, HasParent, rows
    <2> QED
      BY <1>3, <2>1, <2>2 DEF WalksAgree
  <1> QED
    BY <1>2, <1>3 DEF AddAncestor

LEMMA WalkNextKeeps == WalkInv /\ [WalkNext]_walkVars => WalkInv'
  <1>1. ASSUME WalkInv, UNCHANGED walkVars PROVE WalkInv'
    <2> USE <1>1 DEF WalkInv
    <2>1. /\ UNCHANGED <<parent, hit, edges, id, newParent, pc, cursor, stack>>
          /\ UNCHANGED <<visited, verdict, visible, produced>> /\ UNCHANGED rows
      BY DEF walkVars, rows
    <2>2. WalkTypeOK'
      BY <2>1 DEF WalkTypeOK
    <2>3. (pc = "climb" => Climbed)' /\ (pc \in {"menus", "ancestors"} => Collected)'
      BY <2>1, AboveStays DEF Climbed, Collected, HasParent
    <2>4. (pc = "search" => Searched)'
      BY <2>1, InheritedStays DEF Searched, Found
    <2>5. WalksAgree'
      BY <2>1, AboveStays, InheritedStays DEF WalksAgree, VerdictRight, PathRight
    <2> QED
      BY <2>1, <2>2, <2>3, <2>4, <2>5
  <1> QED
    BY <1>1, BeginCheckKeeps, ClimbKeeps, SearchKeeps, NextEntryKeeps, AddAncestorKeeps
       DEF WalkNext, Done

(* Every reachable state satisfies the inductive invariant.                *)
THEOREM WalkInvariance == WalkSpec => []WalkInv
  BY WalkInitInv, WalkNextKeeps, PTL DEF WalkSpec

(* Whatever the rows are, in whatever order they were read and the map is  *)
(* ranged over, EnsureNoCycle accepts just the parents that hang from the  *)
(* root and not from the node, rolePathExists finds a way from one role to *)
(* another if and only if the one inherits the other, and VisibleMenus     *)
(* returns the granted nodes with all of their ancestors and with nothing  *)
(* else.                                                                   *)
THEOREM WalksAreRight == WalkSpec => []WalksAgree
  <1>1. WalkInv => WalksAgree
    BY DEF WalkInv
  <1> QED
    BY <1>1, WalkInvariance, PTL

=============================================================================
