-------------------------- MODULE CompactionProofs --------------------------
(***************************************************************************)
(* Proofs about context compression, for any number of messages, runs,     *)
(* failures and regenerations, any sizes and settings.                     *)
(*                                                                         *)
(* The estimate of a context and the batches of a compression are defined  *)
(* by recursion over the groups.  That an estimate is a number and that    *)
(* the batches have all compressed groups is proved by induction, which    *)
(* takes the form of SetInduction here: a set that has 0 and with every    *)
(* number the next one has all numbers (because numbers are well founded). *)
(*                                                                         *)
(* The context of a run is the groups a .. n, n being the newest message   *)
(* and a behind the boundary, and the cut is a matter of arithmetic on a,  *)
(* n and keep (Place).  Not inductive by itself: the boundary covers       *)
(* nothing that was dropped unseen only because a run whose context        *)
(* was trimmed has too few groups left to be compressed again (RunInv).    *)
(***************************************************************************)
EXTENDS Compaction, FiniteSetTheorems, SequenceTheorems, WellFoundedInduction, TLAPS

Groups == [user : Nat, reply : Nat]

TypeInv ==
    /\ size \in Seq(Groups)
    /\ saved \in [digest : SUBSET Nat, boundary : Nat]
    /\ pc \in {"idle", "precheck", "check", "summarize", "request"}
    /\ auto \in BOOLEAN
    /\ digest \in SUBSET Nat /\ draft \in SUBSET Nat
    /\ extra \in Nat /\ round \in Nat
    /\ batches \in Seq(SUBSET Nat)

\* What the next run starts with.
SavedInv ==
    /\ saved.digest \subseteq 1 .. saved.boundary
    /\ saved.boundary < Newest \/ (size = <<>> /\ saved.boundary = 0)

\* A run has a gapless end of what lies behind the boundary: all of it, or so
\* little that it will not be compressed (again).
RunInv ==
    pc # "idle" =>
        /\ size # <<>> /\ keep \in Keeps
        /\ digest = saved.digest
        /\ groups # {} /\ groups \subseteq saved.boundary + 1 .. Newest
        /\ \E a \in groups : groups = a .. Newest
        /\ saved.boundary + 1 \in groups \/ Compressed = {}

\* The summary in work has what the old one had and the compressed groups.
DraftInv ==
    pc = "summarize" =>
        /\ Compressed # {}
        /\ digest \subseteq draft
        /\ draft \cup UNION Range(batches) \subseteq digest \cup Compressed
        /\ Len(AllBatches) <= MaxBatches => Compressed \subseteq draft \cup UNION Range(batches)

\* Which requests are preceded by a check.
CheckedInv ==
    /\ pc \in {"check", "summarize"} => auto
    /\ pc = "precheck" => round = 0
    /\ pc \in {"check", "request"} => round > 0
    /\ OnlyUncheckedRequestsOverflow

Inv == TypeInv /\ SavedInv /\ RunInv /\ DraftInv /\ CheckedInv

-----------------------------------------------------------------------------
(* Induction over data                                                     *)

\* Mathematical induction, for sets instead of predicates.
LEMMA SetInduction ==
    ASSUME NEW S, 0 \in S, \A n \in Nat : n \in S => n + 1 \in S
    PROVE  Nat \subseteq S
<1> DEFINE R == OpToRel(<, Nat)
<1> SUFFICES ASSUME Nat \ S # {} PROVE FALSE OBVIOUS
<1>1. PICK x \in Nat \ S : \A y \in Nat \ S : <<y, x>> \notin R
  <2>1. IsWellFoundedOn(R, Nat) BY NatLessThanWellFounded
  <2>2. Nat \ S \subseteq Nat OBVIOUS
  <2> HIDE DEF R
  <2> QED BY <2>1, <2>2, WFMin
<1>2. x - 1 \in Nat /\ x - 1 < x /\ (x - 1) + 1 = x
  <2> HIDE DEF R
  <2> QED OBVIOUS
<1>3. <<x - 1, x>> \in R BY <1>2 DEF OpToRel
<1> HIDE DEF R
<1>4. x - 1 \in S BY <1>1, <1>2, <1>3
<1> QED BY <1>1, <1>2, <1>4

Recursive(n, D, base, step) ==
    \E h \in [0 .. n -> D] : h[0] = base /\ \A i \in 1 .. n : h[i] = step[<<h[i - 1], i>>]

\* A function on 0 .. n is defined by its first value and by how each value
\* follows from the one before.
LEMMA RecursionExists ==
    ASSUME NEW n \in Nat, NEW D, NEW base \in D, NEW step \in [D \X Nat -> D]
    PROVE  Recursive(n, D, base, step)
<1> DEFINE Good(m, h) == h[0] = base /\ \A i \in 1 .. m : h[i] = step[<<h[i - 1], i>>]
           S == {m \in Nat : \E h \in [0 .. m -> D] : Good(m, h)}
<1>1. 0 \in S
  <2>1. [i \in 0 .. 0 |-> base] \in [0 .. 0 -> D] OBVIOUS
  <2>2. Good(0, [i \in 0 .. 0 |-> base]) OBVIOUS
  <2> QED BY <2>1, <2>2
<1>2. ASSUME NEW m \in Nat, m \in S PROVE m + 1 \in S
  <2>1. PICK h \in [0 .. m -> D] : Good(m, h) BY <1>2
  <2> DEFINE g == [i \in 0 .. m + 1 |-> IF i = m + 1 THEN step[<<h[m], m + 1>>] ELSE h[i]]
  <2>2. g \in [0 .. m + 1 -> D]
    <3>1. step[<<h[m], m + 1>>] \in D BY <2>1
    <3>2. ASSUME NEW i \in 0 .. m + 1, i # m + 1 PROVE h[i] \in D BY <2>1, <3>2
    <3> QED BY <3>1, <3>2
  <2>3. g[0] = base BY <2>1
  <2>4. ASSUME NEW i \in 1 .. m + 1 PROVE g[i] = step[<<g[i - 1], i>>]
    <3>1. CASE i = m + 1
      <4>1. i - 1 = m /\ m \in 0 .. m + 1 /\ m # m + 1 BY <3>1
      <4>2. g[i - 1] = h[m] BY <4>1
      <4>3. g[i] = step[<<h[m], i>>] BY <3>1
      <4> HIDE DEF g
      <4> QED BY <4>2, <4>3
    <3>2. CASE i # m + 1
      <4>1. i \in 1 .. m /\ i - 1 \in 0 .. m /\ i - 1 # m + 1 BY <3>2
      <4>2. g[i] = h[i] /\ g[i - 1] = h[i - 1] BY <4>1, <3>2
      <4> QED BY <2>1, <4>1, <4>2
    <3> QED BY <3>1, <3>2
  <2>5. Good(m + 1, g) BY <2>3, <2>4
  <2> HIDE DEF Good, g
  <2> QED BY <2>2, <2>5
<1>3. n \in S
  <2> HIDE DEF S
  <2> QED BY <1>1, <1>2, SetInduction
<1> QED BY <1>3 DEF Recursive

-----------------------------------------------------------------------------

LEMMA TokensOfType ==
    ASSUME TypeInv, NEW gs PROVE TokensOf(gs) \in Nat
<1> DEFINE N == Newest
           A(g) == IF g \in gs THEN Tokens(g) ELSE 0
<1>1. N \in Nat BY DEF TypeInv, Newest
<1>2. \A g \in 1 .. N : A(g) \in Nat
  <2>1. PICK n \in Nat : n = Len(size) BY DEF TypeInv
  <2>2. \A g \in 1 .. n : size[g] \in Groups BY <2>1, ElementOfSeq DEF TypeInv
  <2>3. \A g \in 1 .. n : size[g].user + size[g].reply \in Nat BY <2>2 DEF Groups
  <2> QED BY <2>1, <2>3 DEF Newest, Tokens
<1> DEFINE step == [p \in Nat \X Nat |-> p[1] + (IF p[2] \in 1 .. N THEN A(p[2]) ELSE 0)]
<1>3. step \in [Nat \X Nat -> Nat] 
  <2> HIDE DEF N, A
  <2> QED BY <1>2
<1>4. PICK h \in [0 .. N -> Nat] : h[0] = 0 /\ \A i \in 1 .. N : h[i] = step[<<h[i - 1], i>>]
  <2> HIDE DEF step, N
  <2>1. Recursive(N, Nat, 0, step) BY <1>1, <1>3, RecursionExists
  <2> QED BY <2>1, Zenon DEF Recursive
<1> DEFINE F(f) == [g \in 0 .. N |-> IF g = 0 THEN 0 ELSE f[g - 1] + A(g)]
<1>5. h = F(h)
  <2> HIDE DEF N, A
  <2>1. ASSUME NEW i \in 0 .. N, i # 0 PROVE h[i] = h[i - 1] + A(i)
    <3>1. i \in 1 .. N /\ i - 1 \in 0 .. N BY <1>1, <2>1
    <3>2. <<h[i - 1], i>> \in Nat \X Nat BY <1>4, <3>1
    <3> QED BY <1>4, <3>1, <3>2
  <2> QED BY <1>1, <1>4, <2>1
<1> DEFINE u == CHOOSE f : f = F(f)
<1>6. u = F(u)
  <2> HIDE DEF F, N
  <2> QED BY <1>5
<1>7. TokensOf(gs) = u[N] BY DEF TokensOf
<1>8. Nat \subseteq {m \in Nat : m <= N => u[m] \in Nat}
  <2> HIDE DEF N, A, u
  <2> DEFINE S == {m \in Nat : m <= N => u[m] \in Nat}
  <2>1. 0 \in S BY <1>1, <1>6
  <2>2. ASSUME NEW m \in Nat, m \in S PROVE m + 1 \in S
    <3>1. CASE m + 1 <= N
      <4>1. m + 1 \in 1 .. N /\ (m + 1) - 1 = m /\ m <= N BY <1>1, <3>1
      <4>2. u[m + 1] = u[m] + A(m + 1) BY <1>6, <4>1
      <4>3. u[m] \in Nat BY <2>2, <4>1
      <4>4. A(m + 1) \in Nat BY <1>2, <4>1
      <4> HIDE DEF F
      <4> QED BY <4>2, <4>3, <4>4
    <3>2. CASE ~ (m + 1 <= N) BY <3>2
    <3> QED BY <3>1, <3>2
  <2>3. Nat \subseteq S
    <3> HIDE DEF S
    <3> QED BY <2>1, <2>2, SetInduction
  <2> QED BY <2>3
<1> QED BY <1>1, <1>7, <1>8

Adds(new, bs, g, X) ==
    new \in Seq(SUBSET X) /\ UNION Range(new) = (UNION Range(bs)) \cup {g}

\* A group added to the batches joins the last one or begins another one.
LEMMA AddedToBatch ==
    ASSUME NEW X, NEW bs \in Seq(SUBSET X), NEW g \in X
    PROVE  Adds(AddToBatch(bs, g), bs, g, X)
<1> DEFINE joined == [bs EXCEPT ![Len(bs)] = @ \cup {g}]
           begun == Append(bs, {g})
<1>1. PICK n \in Nat : n = Len(bs) /\ DOMAIN bs = 1 .. n OBVIOUS
<1>2. begun \in Seq(SUBSET X) /\ UNION Range(begun) = (UNION Range(bs)) \cup {g}
  <2>1. /\ begun \in Seq(SUBSET X) /\ DOMAIN begun = 1 .. n + 1
        /\ begun[n + 1] = {g} /\ \A i \in 1 .. n : begun[i] = bs[i]
    <3>1. {g} \in SUBSET X OBVIOUS
    <3> QED BY <1>1, <3>1, AppendProperties
  <2> HIDE DEF begun
  <2>2. ASSUME NEW x PROVE x \in UNION Range(begun) <=> x \in (UNION Range(bs)) \cup {g}
    <3>1. ASSUME x \in UNION Range(begun) PROVE x \in (UNION Range(bs)) \cup {g}
      <4>1. PICK i \in 1 .. n + 1 : x \in begun[i] BY <2>1, <3>1 DEF Range
      <4>2. CASE i = n + 1
        <5>1. x = g BY <2>1, <4>1, <4>2
        <5> QED BY <5>1, Zenon
      <4>3. CASE i # n + 1
        <5>1. i \in 1 .. n BY <4>3
        <5> QED BY <1>1, <2>1, <4>1, <5>1 DEF Range
      <4> QED BY <4>2, <4>3
    <3>2. ASSUME x \in UNION Range(bs) PROVE x \in UNION Range(begun)
      <4>1. PICK i \in 1 .. n : x \in bs[i] BY <1>1, <3>2 DEF Range
      <4>2. i \in 1 .. n + 1 /\ begun[i] = bs[i] BY <2>1
      <4> QED BY <2>1, <4>1, <4>2 DEF Range
    <3>3. g \in UNION Range(begun)
      <4>1. n + 1 \in 1 .. n + 1 OBVIOUS
      <4> QED BY <2>1, <4>1 DEF Range
    <3> QED BY <3>1, <3>2, <3>3, Zenon
  <2> QED BY <2>1, <2>2
<1>3. ASSUME bs # <<>>
      PROVE  joined \in Seq(SUBSET X) /\ UNION Range(joined) = (UNION Range(bs)) \cup {g}
  <2>1. n \in 1 .. n /\ bs[n] \in SUBSET X BY <1>1, <1>3, ElementOfSeq
  <2>2. bs[n] \cup {g} \in SUBSET X BY <2>1
  <2>3. joined \in Seq(SUBSET X) BY <1>1, <2>1, <2>2, ExceptSeq
  <2>4. /\ DOMAIN joined = 1 .. n /\ joined[n] = bs[n] \cup {g}
        /\ \A i \in 1 .. n : i # n => joined[i] = bs[i]
    BY <1>1, <2>1
  <2> HIDE DEF joined
  <2>5. ASSUME NEW x PROVE x \in UNION Range(joined) <=> x \in (UNION Range(bs)) \cup {g}
    <3>1. ASSUME x \in UNION Range(joined) PROVE x \in (UNION Range(bs)) \cup {g}
      <4>1. PICK i \in 1 .. n : x \in joined[i] BY <2>4, <3>1 DEF Range
      <4>2. x \in bs[i] \/ x = g BY <2>4, <4>1
      <4>3. bs[i] \in Range(bs) BY <1>1 DEF Range
      <4> QED BY <4>2, <4>3, Zenon
    <3>2. ASSUME x \in UNION Range(bs) PROVE x \in UNION Range(joined)
      <4>1. PICK i \in 1 .. n : x \in bs[i] BY <1>1, <3>2 DEF Range
      <4>2. x \in joined[i] BY <2>4, <4>1
      <4> QED BY <2>4, <4>2 DEF Range
    <3>3. g \in UNION Range(joined) BY <2>1, <2>4 DEF Range
    <3> QED BY <3>1, <3>2, <3>3, Zenon
  <2> QED BY <2>3, <2>5
<1>4. AddToBatch(bs, g) = begun \/ (bs # <<>> /\ AddToBatch(bs, g) = joined) BY DEF AddToBatch
<1> HIDE DEF begun, joined
<1> QED BY <1>2, <1>3, <1>4 DEF Adds

\* The batches have all compressed groups and no other.
LEMMA BatchesCover ==
    ASSUME NEW n \in Nat, Newest = n, Compressed \subseteq 1 .. n
    PROVE  AllBatches \in Seq(SUBSET Compressed) /\ UNION Range(AllBatches) = Compressed
<1> DEFINE C == Compressed
           D == Seq(SUBSET C)
           Step_(bs, g) == IF g \in C THEN AddToBatch(bs, g) ELSE bs
           step == [p \in D \X Nat |-> Step_(p[1], p[2])]
           F(f) == [g \in 0 .. n |-> IF g = 0 THEN <<>> ELSE Step_(f[g - 1], g)]
           u == CHOOSE f : f = F(f)
<1>1. AllBatches = u[n]
  BY DEF AllBatches
<1> HIDE DEF C
<1>2. ASSUME NEW bs \in D, NEW g \in Nat PROVE Step_(bs, g) \in D
  BY AddedToBatch DEF Adds
<1>3. step \in [D \X Nat -> D]
  <2> HIDE DEF D, Step_
  <2> QED BY <1>2
<1>4. u = F(u)
  <2>1. <<>> \in D OBVIOUS
  <2>2. Recursive(n, D, <<>>, step)
    <3> HIDE DEF step, D
    <3> QED BY <1>3, <2>1, RecursionExists
  <2>3. PICK h \in [0 .. n -> D] :
           h[0] = <<>> /\ \A i \in 1 .. n : h[i] = step[<<h[i - 1], i>>]
    <3> HIDE DEF step, D
    <3> QED BY <2>2, Zenon DEF Recursive
  <2>4. h = F(h)
    <3> HIDE DEF D, Step_
    <3>1. ASSUME NEW i \in 0 .. n, i # 0 PROVE h[i] = Step_(h[i - 1], i)
      <4>1. i \in 1 .. n /\ i - 1 \in 0 .. n /\ i \in Nat BY <3>1
      <4>2. <<h[i - 1], i>> \in D \X Nat BY <2>3, <4>1
      <4> QED BY <2>3, <4>1, <4>2
    <3> QED BY <2>3, <3>1
  <2> HIDE DEF F
  <2> QED BY <2>4
<1> DEFINE S == {m \in Nat : m <= n => u[m] \in D /\ UNION Range(u[m]) = C \cap 1 .. m}
<1>5. 0 \in S
  <2>1. u[0] = <<>>
    <3> HIDE DEF u, Step_
    <3> QED BY <1>4
  <2>2. UNION Range(<<>>) = {} BY DEF Range
  <2>3. C \cap 1 .. 0 = {} OBVIOUS
  <2>4. u[0] \in D
    <3> HIDE DEF u
    <3> QED BY <2>1
  <2>5. UNION Range(u[0]) = C \cap 1 .. 0
    <3> HIDE DEF u
    <3> QED BY <2>1, <2>2, <2>3
  <2> HIDE DEF u, D
  <2> QED BY <2>4, <2>5
<1>6. ASSUME NEW m \in Nat, m \in S PROVE m + 1 \in S
  <2> HIDE DEF u
  <2> SUFFICES ASSUME m + 1 <= n
               PROVE  u[m + 1] \in D /\ UNION Range(u[m + 1]) = C \cap 1 .. m + 1
    OBVIOUS
  <2>1. u[m] \in D /\ UNION Range(u[m]) = C \cap 1 .. m BY <1>6
  <2>2. u[m + 1] = Step_(u[m], m + 1)
    <3> HIDE DEF Step_
    <3>1. m + 1 \in 0 .. n /\ m + 1 # 0 /\ (m + 1) - 1 = m OBVIOUS
    <3> QED BY <1>4, <3>1
  <2>3. 1 .. m + 1 = 1 .. m \cup {m + 1} OBVIOUS
  <2>4. CASE m + 1 \in C
    <3> HIDE DEF D
    <3>1. u[m + 1] = AddToBatch(u[m], m + 1) BY <2>2, <2>4
    <3>2. u[m + 1] \in D /\ UNION Range(u[m + 1]) = (UNION Range(u[m])) \cup {m + 1}
      <4>1. PICK bs : bs = u[m] OBVIOUS
      <4>2. bs \in Seq(SUBSET C) BY <2>1, <4>1 DEF D
      <4>3. Adds(AddToBatch(bs, m + 1), bs, m + 1, C) BY <2>4, <4>2, AddedToBatch
      <4> QED BY <3>1, <4>1, <4>3 DEF D, Adds
    <3>3. C \cap (1 .. m \cup {m + 1}) = (C \cap 1 .. m) \cup {m + 1} BY <2>4
    <3> QED BY <2>1, <2>3, <3>2, <3>3, Zenon
  <2>5. CASE m + 1 \notin C
    <3>1. u[m + 1] = u[m] BY <2>2, <2>5
    <3> QED BY <2>1, <2>3, <2>5, <3>1
  <2> QED BY <2>4, <2>5
<1>7. Nat \subseteq S
  <2> HIDE DEF S
  <2> QED BY <1>5, <1>6, SetInduction
<1>8. u[n] \in D /\ UNION Range(u[n]) = C \cap 1 .. n
  <2> HIDE DEF u
  <2> QED BY <1>7
<1>9. C \cap 1 .. n = C BY DEF C
<1> QED
  <2> HIDE DEF u
  <2> QED BY <1>1, <1>8, <1>9 DEF C

-----------------------------------------------------------------------------
(* Cutting                                                                  *)

\* What has a member among the naturals has a least one.
LEMMA LeastMember ==
    ASSUME NEW S, S \subseteq Nat, S # {}
    PROVE  Min(S) \in S /\ \A y \in S : Min(S) <= y
<1>1. \E x \in S : \A y \in S : x <= y
  <2> SUFFICES ASSUME \A x \in S : \E y \in S : ~ (x <= y) PROVE FALSE OBVIOUS
  <2> DEFINE T == {m \in Nat : \A y \in S : m < y}
  <2>1. 0 \in T
    <3>1. 0 \notin S
      <4>1. \A y \in S : 0 <= y OBVIOUS
      <4> QED BY <4>1
    <3> QED BY <3>1
  <2>2. ASSUME NEW m \in Nat, m \in T PROVE m + 1 \in T
    <3>1. \A y \in S : m + 1 <= y BY <2>2
    <3>2. m + 1 \notin S BY <3>1
    <3>3. \A y \in S : m + 1 < y BY <3>1, <3>2
    <3> QED BY <3>3
  <2>3. Nat \subseteq T
    <3> HIDE DEF T
    <3> QED BY <2>1, <2>2, SetInduction
  <2>4. PICK y \in S : TRUE OBVIOUS
  <2> QED BY <2>3, <2>4
<1> QED BY <1>1 DEF Min

LEMMA EndsOfInterval ==
    ASSUME NEW a \in Nat, NEW n \in Nat, a <= n
    PROVE  Min(a .. n) = a /\ Max(a .. n) = n
<1>1. \A x \in a .. n : (\A y \in a .. n : x <= y) => x = a OBVIOUS
<1>2. a \in a .. n /\ \A y \in a .. n : a <= y OBVIOUS
<1>3. \A x \in a .. n : (\A y \in a .. n : x >= y) => x = n OBVIOUS
<1>4. n \in a .. n /\ \A y \in a .. n : n >= y OBVIOUS
<1>5. Min(a .. n) = a BY <1>1, <1>2 DEF Min
<1>6. Max(a .. n) = n BY <1>3, <1>4 DEF Max
<1> QED BY <1>5, <1>6

\* The cut leaves the last k of a gapless end.
LEMMA CutOf ==
    ASSUME NEW a \in Nat, NEW n \in Nat, a <= n, NEW k \in Nat \ {0}, NEW gs, gs = a .. n
    PROVE  {g \in gs : Cardinality({h \in gs : h >= g}) > k} = a .. n - k
<1>1. ASSUME NEW g \in a .. n
      PROVE  Cardinality({h \in gs : h >= g}) = n - g + 1
  <2>1. {h \in gs : h >= g} = g .. n OBVIOUS
  <2>2. g \in Int /\ n \in Int /\ ~ (g > n) OBVIOUS
  <2>3. Cardinality(g .. n) = IF g > n THEN 0 ELSE n - g + 1 BY <2>2, FS_Interval
  <2> QED BY <2>1, <2>2, <2>3
<1>2. {g \in gs : Cardinality({h \in gs : h >= g}) > k} = {g \in a .. n : n - g + 1 > k}
  BY <1>1
<1>3. \A g \in a .. n : n - g + 1 > k <=> g <= n - k OBVIOUS
<1> QED BY <1>2, <1>3

LEMMA Cut ==
    ASSUME NEW a \in Nat, NEW n \in Nat, a <= n, groups = a .. n, keep \in Nat \ {0}
    PROVE  Compressed = a .. n - keep /\ Kept = {g \in a .. n : g > n - keep}
<1>1. Compressed = a .. n - keep BY CutOf DEF Compressed
<1> QED BY <1>1 DEF Kept

LEMMA CutNext ==
    ASSUME NEW a \in Nat, NEW n \in Nat, a <= n, groups' = a .. n, keep' \in Nat \ {0}
    PROVE  Compressed' = a .. n - keep'
BY CutOf DEF Compressed

\* Dropping groups until the rest fits leaves an end of them.
LEMMA FittingEnds ==
    ASSUME NEW a \in Nat, NEW n \in Nat, a <= n, NEW summary, NEW gs, gs = a .. n
    PROVE  \E x \in gs : Fitting(summary, gs) = x .. n
<1> DEFINE from(g) == {h \in gs : h >= g}
           fits == {g \in gs : Estimate(summary, from(g), extra) <= Available}
<1>1. Fitting(summary, gs) = from(IF fits = {} THEN Max(gs) ELSE Min(fits)) BY DEF Fitting
<1>2. \A g \in gs : from(g) = g .. n OBVIOUS
<1>3. Max(gs) \in gs BY EndsOfInterval
<1>4. fits # {} => Min(fits) \in gs
  <2>1. fits \subseteq Nat /\ fits \subseteq gs OBVIOUS
  <2> HIDE DEF fits
  <2> QED BY <2>1, LeastMember
<1> HIDE DEF from, fits
<1> QED BY <1>1, <1>2, <1>3, <1>4

-----------------------------------------------------------------------------
(* What a step keeps                                                        *)

LEMMA EstimateType ==
    ASSUME TypeInv, NEW summary, NEW gs, NEW more \in Nat
    PROVE  Estimate(summary, gs, more) \in Nat
<1>1. TokensOf(gs) \in Nat BY TokensOfType
<1>2. Fixed \in Nat /\ SummarySize \in Nat BY CompactionAssumption
<1> QED BY <1>1, <1>2 DEF Estimate

LEMMA EstimatedNext ==
    ASSUME UNCHANGED size PROVE Estimated' = Estimate(digest', groups', extra')
BY DEF Estimated, Estimate, TokensOf, Newest, Tokens

LEMMA SameCut ==
    ASSUME UNCHANGED <<size, groups, keep>>
    PROVE  Compressed' = Compressed /\ AllBatches' = AllBatches
BY DEF AllBatches, Newest, AddToBatch, TokensOf, Compressed, Tokens

LEMMA SameContext ==
    ASSUME RunInv, pc # "idle", UNCHANGED <<size, saved, keep, groups, digest>>
    PROVE  RunInv'
<1>1. Compressed' = Compressed BY SameCut
<1>2. Newest' = Newest BY DEF Newest
<1> QED BY <1>1, <1>2 DEF RunInv

LEMMA SameSaved ==
    ASSUME SavedInv, UNCHANGED <<size, saved>> PROVE SavedInv'
BY DEF SavedInv, Newest

\* A run that is over leaves the row to the next one.
LEMMA EndedRunKeeps ==
    ASSUME TypeInv, SavedInv, EndRun, size' \in Seq(Groups), Len(size') = Len(size)
    PROVE  Inv'
<1>1. TypeInv' BY DEF TypeInv, EndRun, NoRun
<1>2. SavedInv'
  <2>1. size = <<>> => size' = <<>> BY DEF TypeInv
  <2> QED BY <2>1 DEF SavedInv, EndRun, Newest
<1>3. pc' = "idle" BY DEF EndRun
<1>4. RunInv' BY <1>3 DEF RunInv
<1>5. DraftInv' BY <1>3 DEF DraftInv
<1>6. CheckedInv' BY <1>3 DEF CheckedInv, OnlyUncheckedRequestsOverflow
<1> QED BY <1>1, <1>2, <1>4, <1>5, <1>6 DEF Inv

\* A run that begins has all that lies behind the boundary.
LEMMA StartedRunKeeps ==
    ASSUME TypeInv, SavedInv, NEW n \in Nat, StartRun(n), Len(size') = n, n > saved.boundary,
           size' \in Seq(Groups), auto' \in BOOLEAN
    PROVE  Inv'
<1>1. pc' = "precheck" /\ saved' = saved /\ round' = 0 BY DEF StartRun
<1>2. TypeInv' BY DEF TypeInv, StartRun, attempt
<1>3. PICK b \in Nat : b = saved.boundary BY DEF TypeInv
<1>4. Newest' = n /\ size' # <<>> BY <1>3 DEF Newest
<1>5. SavedInv' BY <1>1, <1>3, <1>4 DEF SavedInv
<1>6. groups' = b + 1 .. n BY <1>3 DEF StartRun, EffectiveHistory
<1>7. b + 1 \in groups' /\ groups' # {} BY <1>3, <1>6
<1>8. RunInv'
  <2>1. digest' = saved'.digest /\ keep' \in Keeps BY <1>1 DEF StartRun
  <2>2. groups' = saved'.boundary + 1 .. Newest' BY <1>1, <1>3, <1>4, <1>6
  <2>3. saved'.boundary + 1 \in groups' BY <1>1, <1>3, <1>7
  <2> QED BY <1>4, <1>7, <2>1, <2>2, <2>3 DEF RunInv
<1>9. DraftInv' BY <1>1 DEF DraftInv
<1>10. CheckedInv' BY <1>1 DEF CheckedInv, OnlyUncheckedRequestsOverflow
<1> QED BY <1>2, <1>5, <1>8, <1>9, <1>10 DEF Inv

\* A run goes on to a check, or to a request it has checked as far as it does.
LEMMA Proceeds ==
    ASSUME TypeInv, CheckedInv, Proceed, pc \in {"precheck", "check", "summarize"},
           UNCHANGED auto
    PROVE  /\ pc' \in {"check", "request"} /\ round' \in Nat /\ round' > 0
           /\ pc' = "check" => auto'
           /\ pc' = "request" /\ auto => round' = round /\ pc # "precheck"
BY DEF TypeInv, CheckedInv, Proceed

LEMMA ProceedKeeps ==
    ASSUME TypeInv, CheckedInv, Proceed, pc \in {"precheck", "check", "summarize"},
           UNCHANGED auto,
           pc' = "request" /\ auto => Estimated' <= Available \/ doneRound' \in {round, round + 1},
           pc' = "request" /\ ~ auto => Estimated' <= Available,
           Estimated' \in Nat
    PROVE  CheckedInv' /\ DraftInv'
<1>1. /\ pc' \in {"check", "request"} /\ round' \in Nat /\ round' > 0
      /\ pc' = "check" => auto'
      /\ pc' = "request" /\ auto => round' = round
  BY Proceeds
<1>2. Available \in Nat BY CompactionAssumption
<1>3. OnlyUncheckedRequestsOverflow'
  BY <1>1, <1>2 DEF OnlyUncheckedRequestsOverflow, TypeInv
<1>4. CheckedInv' BY <1>1, <1>3 DEF CheckedInv
<1> QED BY <1>1, <1>4 DEF DraftInv

-----------------------------------------------------------------------------
(* The actions                                                              *)

LEMMA InitInv == Init => Inv
<1> SUFFICES ASSUME Init PROVE Inv OBVIOUS
<1>1. TypeInv BY DEF Init, NoRun, TypeInv
<1>2. SavedInv BY DEF Init, SavedInv
<1>3. pc = "idle" BY DEF Init
<1> QED BY <1>1, <1>2, <1>3 DEF Inv, RunInv, DraftInv, CheckedInv, OnlyUncheckedRequestsOverflow

LEMMA SendMessageKeeps ==
    ASSUME Inv, NEW s \in Sizes, SendMessage(s) PROVE Inv'
<1>1. PICK n \in Nat : n = Len(size) BY DEF Inv, TypeInv
<1>2. [user |-> s, reply |-> 0] \in Groups BY CompactionAssumption DEF Groups
<1>3. size' \in Seq(Groups) /\ Len(size') = n + 1
  BY <1>1, <1>2, AppendProperties DEF SendMessage, Inv, TypeInv
<1>4. saved.boundary \in Nat /\ n + 1 > saved.boundary
  BY <1>1 DEF Inv, TypeInv, SavedInv, Newest
<1>5. StartRun(n + 1) /\ auto' \in BOOLEAN BY <1>1 DEF SendMessage, Newest
<1> QED BY <1>1, <1>3, <1>4, <1>5, StartedRunKeeps DEF Inv

LEMMA ReplyTyped ==
    ASSUME TypeInv, size # <<>>, NEW s \in Nat
    PROVE  /\ [size EXCEPT ![Newest].reply = s] \in Seq(Groups)
           /\ Len([size EXCEPT ![Newest].reply = s]) = Len(size)
<1>1. PICK n \in Nat : n = Len(size) BY DEF TypeInv
<1>2. n \in 1 .. n /\ size[n] \in Groups BY <1>1, ElementOfSeq DEF TypeInv
<1>3. [size[n] EXCEPT !.reply = s] \in Groups BY <1>2 DEF Groups
<1> QED BY <1>1, <1>2, <1>3, ExceptSeq DEF Newest, TypeInv

LEMMA RegenerateKeeps == ASSUME Inv, Regenerate PROVE Inv'
<1>1. PICK n \in Nat : n = Len(size) BY DEF Inv, TypeInv
<1>2. size' \in Seq(Groups) /\ Len(size') = n BY <1>1, ReplyTyped DEF Regenerate, Inv
<1>3. saved.boundary \in Nat /\ n > saved.boundary
  BY <1>1 DEF Inv, TypeInv, SavedInv, Newest, Regenerate
<1>4. StartRun(n) /\ auto' \in BOOLEAN BY <1>1 DEF Regenerate, Newest
<1> QED BY <1>1, <1>2, <1>3, <1>4, StartedRunKeeps DEF Inv

LEMMA NowEstimated ==
    ASSUME TypeInv PROVE Estimated \in Nat /\ Trigger \in Nat /\ Available \in Nat
<1>1. extra \in Nat BY DEF TypeInv
<1>2. Estimated \in Nat BY <1>1, EstimateType DEF Estimated
<1> QED BY <1>2, CompactionAssumption

LEMMA SameEstimate ==
    ASSUME UNCHANGED <<size, context>> PROVE Estimated' = Estimated
BY EstimatedNext DEF Estimated, context

LEMMA CheckPassesKeeps == ASSUME Inv, CheckPasses PROVE Inv'
<1>1. Estimated' = Estimated BY SameEstimate DEF CheckPasses
<1>2. Estimated \in Nat /\ Trigger \in Nat /\ Available \in Nat BY NowEstimated DEF Inv
<1>3. Trigger <= Available BY CompactionAssumption
<1>4. pc \in {"precheck", "check"} BY DEF CheckPasses, Checking
<1>5. pc' = "request" /\ auto => Estimated <= Available \/ doneRound' \in {round, round + 1}
  <2> SUFFICES ASSUME pc' = "request", auto
               PROVE  Estimated <= Available \/ doneRound' = round
    OBVIOUS
  <2>1. pc = "check" BY <1>4, Proceeds DEF CheckPasses, Inv, config
  <2>2. Threshold = Trigger BY <2>1 DEF Threshold
  <2>3. AlreadyDone \/ ~ (Estimated >= Trigger) BY <2>2 DEF CheckPasses, MustCompact
  <2> QED BY <1>2, <1>3, <2>3 DEF AlreadyDone, CheckPasses
<1>6. ~ auto => Estimated <= Available BY DEF CheckPasses
<1>7. UNCHANGED auto BY DEF CheckPasses, config
<1>8. CheckedInv' /\ DraftInv'
  BY <1>1, <1>2, <1>4, <1>5, <1>6, <1>7, ProceedKeeps DEF CheckPasses, Inv
<1>9. pc' \in {"check", "request"} /\ round' \in Nat BY <1>4, <1>7, Proceeds DEF CheckPasses, Inv
<1>10. TypeInv' BY <1>9 DEF CheckPasses, config, context, attempt, Inv, TypeInv
<1>11. SavedInv' BY SameSaved DEF CheckPasses, Inv
<1>12. RunInv' BY <1>4, SameContext DEF CheckPasses, config, context, Inv
<1> QED BY <1>8, <1>10, <1>11, <1>12 DEF Inv

LEMMA GoOnUncompactedKeeps == ASSUME Inv, GoOnUncompacted PROVE Inv'
<1>1. Estimated' = Estimated BY SameEstimate DEF GoOnUncompacted
<1>2. Estimated \in Nat BY NowEstimated DEF Inv
<1>3. pc \in {"precheck", "check"} BY DEF GoOnUncompacted, CannotCompact, MustCompact, Checking
<1>4. UNCHANGED auto BY DEF GoOnUncompacted, config
<1>5. Estimated' <= Available BY <1>1 DEF GoOnUncompacted
<1>6. CheckedInv' /\ DraftInv'
  BY <1>1, <1>2, <1>3, <1>4, <1>5, ProceedKeeps DEF GoOnUncompacted, Inv
<1>7. pc' \in {"check", "request"} /\ round' \in Nat
  BY <1>3, <1>4, Proceeds DEF GoOnUncompacted, Inv
<1>8. TypeInv' BY <1>7 DEF GoOnUncompacted, config, context, attempt, Inv, TypeInv
<1>9. SavedInv' BY SameSaved DEF GoOnUncompacted, Inv
<1>10. RunInv' BY <1>3, SameContext DEF GoOnUncompacted, config, context, Inv
<1> QED BY <1>6, <1>8, <1>9, <1>10 DEF Inv

\* How a run is placed in the conversation, in numbers.
LEMMA Place ==
    ASSUME Inv, pc # "idle"
    PROVE  \E a, n, b, k \in Nat :
              /\ n = Newest /\ b = saved.boundary /\ k = keep /\ k > 0
              /\ b < a /\ a <= n /\ groups = a .. n
              /\ Compressed = a .. n - k /\ Kept = {g \in a .. n : g > n - k}
              /\ a = b + 1 \/ n - k < a
<1>1. PICK n \in Nat : n = Newest BY DEF Inv, TypeInv, Newest
<1>2. PICK b \in Nat : b = saved.boundary BY DEF Inv, TypeInv
<1>3. PICK k \in Nat \ {0} : k = keep BY CompactionAssumption DEF Inv, RunInv
<1>4. groups \subseteq b + 1 .. n BY <1>1, <1>2 DEF Inv, RunInv
<1>5. PICK a \in groups : groups = a .. n BY <1>1 DEF Inv, RunInv
<1>6. a \in Nat /\ b < a /\ a <= n BY <1>4, <1>5
<1>7. Compressed = a .. n - k /\ Kept = {g \in a .. n : g > n - k} BY <1>3, <1>5, <1>6, Cut
<1>8. b + 1 \in groups \/ Compressed = {} BY <1>2 DEF Inv, RunInv
<1>9. a = b + 1 \/ n - k < a
  <2>1. CASE b + 1 \in groups BY <1>5, <1>6, <2>1
  <2>2. CASE Compressed = {}
    <3>1. a \notin a .. n - k BY <1>7, <2>2
    <3> QED BY <1>6, <3>1
  <2> QED BY <1>8, <2>1, <2>2
<1> QED BY <1>1, <1>2, <1>3, <1>5, <1>6, <1>7, <1>9

\* The batches a compression works on, and what it loses beyond MaxBatches.
LEMMA BatchesTaken ==
    ASSUME Inv, pc # "idle"
    PROVE  /\ SplitBatches \in Seq(SUBSET Compressed)
           /\ UNION Range(SplitBatches) \subseteq Compressed
           /\ Len(AllBatches) <= MaxBatches => UNION Range(SplitBatches) = Compressed
<1>1. PICK a, n, b, k \in Nat :
         n = Newest /\ a <= n /\ b < a /\ k > 0 /\ Compressed = a .. n - k
  BY Place
<1>2. Compressed \subseteq 1 .. n BY <1>1
<1>3. AllBatches \in Seq(SUBSET Compressed) /\ UNION Range(AllBatches) = Compressed
  BY <1>1, <1>2, BatchesCover
<1>4. PICK C : C = Compressed OBVIOUS
<1>5. PICK all \in Seq(SUBSET C) : all = AllBatches BY <1>3, <1>4
<1>6. PICK l \in Nat : l = Len(all) OBVIOUS
<1>7. PICK m \in Nat : m = MaxBatches BY CompactionAssumption
<1>8. PICK c \in Nat : c = Min({m, l}) /\ c <= l /\ (l <= m => c = l)
  <2>1. Min({m, l}) \in {m, l} /\ \A y \in {m, l} : Min({m, l}) <= y BY LeastMember
  <2> QED BY <2>1
<1>9. SplitBatches = SubSeq(all, 1, c) BY <1>5, <1>6, <1>7, <1>8 DEF SplitBatches
<1>10. /\ SubSeq(all, 1, c) \in Seq(SUBSET C) /\ DOMAIN SubSeq(all, 1, c) = 1 .. c
       /\ \A i \in 1 .. c : SubSeq(all, 1, c)[i] = all[i]
  <2>1. \A i \in 1 .. c : i \in 1 .. l BY <1>8
  <2>2. \A i \in 1 .. c : all[i] \in SUBSET C BY <1>6, <2>1, ElementOfSeq
  <2>3. Len(SubSeq(all, 1, c)) = c BY <1>6, <1>8, SubSeqProperties
  <2>4. SubSeq(all, 1, c) \in Seq(SUBSET C)
    <3>1. PICK X : X = SUBSET C OBVIOUS
    <3>2. c \in Int /\ \A i \in 1 .. c : all[i] \in X BY <2>2, <3>1
    <3>3. SubSeq(all, 1, c) \in Seq(X) BY <3>2, SubSeqProperties
    <3> QED BY <3>1, <3>3
  <2>5. \A i \in 1 .. c : SubSeq(all, 1, c)[i] = all[1 + i - 1]
    BY <1>6, <1>8, <2>3, SubSeqProperties
  <2>6. \A i \in 1 .. c : 1 + i - 1 = i OBVIOUS
  <2> QED BY <2>3, <2>4, <2>5, <2>6
<1>11. ASSUME l <= m PROVE UNION Range(SubSeq(all, 1, c)) = UNION Range(all)
  <2>1. c = l BY <1>8, <1>11
  <2>2. SubSeq(all, 1, c) = all BY <1>6, <2>1
  <2> QED BY <2>2
<1>12. UNION Range(SubSeq(all, 1, c)) \subseteq C
  <2>1. \A i \in 1 .. c : i \in 1 .. l BY <1>8
  <2>2. \A i \in 1 .. c : all[i] \in SUBSET C BY <1>6, <2>1, ElementOfSeq
  <2> QED BY <1>10, <2>2 DEF Range
<1> QED BY <1>3, <1>4, <1>5, <1>6, <1>7, <1>9, <1>10, <1>11, <1>12

LEMMA NaturalSets ==
    ASSUME NEW C, C \subseteq Nat, NEW bs \in Seq(SUBSET C) PROVE bs \in Seq(SUBSET Nat)
<1>1. SUBSET C \subseteq SUBSET Nat OBVIOUS
<1> QED BY <1>1, SeqMonotonic

LEMMA BeginCompactionKeeps == ASSUME Inv, BeginCompaction PROVE Inv'
<1>1. pc \in {"precheck", "check"} /\ auto /\ Compressed # {}
  BY DEF BeginCompaction, MustCompact, CannotCompact, Checking
<1>2. /\ SplitBatches \in Seq(SUBSET Compressed)
      /\ UNION Range(SplitBatches) \subseteq Compressed
      /\ Len(AllBatches) <= MaxBatches => UNION Range(SplitBatches) = Compressed
  BY <1>1, BatchesTaken
<1>3. Compressed \subseteq Nat
  <2>1. PICK a, n, k \in Nat : Compressed = a .. n - k BY <1>1, Place
  <2> QED BY <2>1
<1>4. batches' = SplitBatches /\ draft' = digest /\ pc' = "summarize" BY DEF BeginCompaction
<1>5. batches' \in Seq(SUBSET Nat) BY <1>2, <1>3, <1>4, NaturalSets
<1>6. TypeInv' BY <1>4, <1>5 DEF BeginCompaction, config, context, Inv, TypeInv
<1>7. SavedInv' BY SameSaved DEF BeginCompaction, Inv
<1>8. RunInv' BY <1>1, SameContext DEF BeginCompaction, config, context, Inv
<1>9. Compressed' = Compressed /\ AllBatches' = AllBatches /\ digest' = digest
  BY SameCut DEF BeginCompaction, config, context
<1>10. DraftInv'
  <2>1. draft' \cup UNION Range(batches') \subseteq digest' \cup Compressed'
    BY <1>2, <1>4, <1>9
  <2>2. Len(AllBatches') <= MaxBatches => Compressed' \subseteq draft' \cup UNION Range(batches')
    BY <1>2, <1>4, <1>9
  <2>3. Compressed' # {} /\ digest' \subseteq draft' BY <1>1, <1>4, <1>9
  <2> QED BY <2>1, <2>2, <2>3 DEF DraftInv
<1>11. auto' BY <1>1 DEF BeginCompaction, config
<1>12. CheckedInv' BY <1>4, <1>11 DEF CheckedInv, OnlyUncheckedRequestsOverflow
<1> QED BY <1>6, <1>7, <1>8, <1>10, <1>12 DEF Inv

LEMMA HeadAndTail ==
    ASSUME NEW X, NEW bs \in Seq(X), bs # <<>>
    PROVE  /\ Head(bs) \in X /\ Tail(bs) \in Seq(X)
           /\ UNION Range(bs) = Head(bs) \cup UNION Range(Tail(bs))
<1>1. PICK n \in Nat : n = Len(bs) /\ DOMAIN bs = 1 .. n OBVIOUS
<1>2. n > 0 /\ Head(bs) = bs[1] BY <1>1
<1>3. Tail(bs) \in Seq(X) /\ Len(Tail(bs)) = n - 1 BY <1>1, HeadTailProperties
<1>4. \A i \in 1 .. n - 1 : Tail(bs)[i] = bs[i + 1] BY <1>1, HeadTailProperties
<1>5. DOMAIN Tail(bs) = 1 .. n - 1 BY <1>3
<1>6. PICK h, t : h = Head(bs) /\ t = Tail(bs) OBVIOUS
<1>7. ASSUME NEW x PROVE x \in UNION Range(bs) <=> x \in h \/ x \in UNION Range(t)
  <2>1. ASSUME x \in UNION Range(bs) PROVE x \in h \/ x \in UNION Range(t)
    <3>1. PICK i \in 1 .. n : x \in bs[i] BY <1>1, <2>1 DEF Range
    <3>2. CASE i = 1 BY <1>2, <1>6, <3>1, <3>2
    <3>3. CASE i # 1
      <4>1. i - 1 \in 1 .. n - 1 /\ (i - 1) + 1 = i BY <1>1, <3>3
      <4>2. t[i - 1] = bs[i] BY <1>4, <1>6, <4>1
      <4> QED BY <1>5, <1>6, <3>1, <4>1, <4>2 DEF Range
    <3> QED BY <3>2, <3>3
  <2>2. ASSUME x \in h PROVE x \in UNION Range(bs)
    <3>1. 1 \in 1 .. n BY <1>1, <1>2
    <3> QED BY <1>1, <1>2, <1>6, <2>2, <3>1 DEF Range
  <2>3. ASSUME x \in UNION Range(t) PROVE x \in UNION Range(bs)
    <3>1. PICK i \in 1 .. n - 1 : x \in t[i] BY <1>5, <1>6, <2>3 DEF Range
    <3>2. i + 1 \in 1 .. n BY <1>1, <3>1
    <3> QED BY <1>1, <1>4, <1>6, <3>1, <3>2 DEF Range
  <2> QED BY <2>1, <2>2, <2>3
<1>8. h \in X BY <1>1, <1>2, <1>6, ElementOfSeq
<1>9. UNION Range(bs) = h \cup UNION Range(t) BY <1>7, Zenon
<1> QED BY <1>3, <1>6, <1>8, <1>9

LEMMA BatchSummarisedKeeps == ASSUME Inv, BatchSummarised PROVE Inv'
<1>1. pc = "summarize" /\ batches # <<>> /\ batches \in Seq(SUBSET Nat) /\ draft \in SUBSET Nat
  <2>1. Len(<<>>) = 0 OBVIOUS
  <2> QED BY <2>1 DEF BatchSummarised, Inv, TypeInv
<1>2. /\ Head(batches) \in SUBSET Nat /\ Tail(batches) \in Seq(SUBSET Nat)
      /\ UNION Range(batches) = Head(batches) \cup UNION Range(Tail(batches))
  BY <1>1, HeadAndTail
<1>3. draft' = draft \cup Head(batches) /\ batches' = Tail(batches) BY DEF BatchSummarised
<1>4. TypeInv' BY <1>1, <1>2, <1>3 DEF BatchSummarised, config, context, counters, Inv, TypeInv
<1>5. SavedInv' BY SameSaved DEF BatchSummarised, Inv
<1>6. RunInv' BY <1>1, SameContext DEF BatchSummarised, config, context, Inv
<1>7. Compressed' = Compressed /\ AllBatches' = AllBatches /\ digest' = digest
  BY SameCut DEF BatchSummarised, config, context
<1>8. draft' \cup UNION Range(batches') = draft \cup UNION Range(batches) BY <1>2, <1>3
<1>9. DraftInv'
  <2>1. digest' \subseteq draft' BY <1>1, <1>3, <1>7 DEF Inv, DraftInv
  <2>2. draft' \cup UNION Range(batches') \subseteq digest' \cup Compressed'
    BY <1>1, <1>7, <1>8 DEF Inv, DraftInv
  <2>3. Len(AllBatches') <= MaxBatches => Compressed' \subseteq draft' \cup UNION Range(batches')
    BY <1>1, <1>7, <1>8 DEF Inv, DraftInv
  <2>4. Compressed' # {} BY <1>1, <1>7 DEF Inv, DraftInv
  <2> QED BY <2>1, <2>2, <2>3, <2>4 DEF DraftInv
<1>10. CheckedInv'
  BY <1>1 DEF BatchSummarised, config, Inv, CheckedInv, OnlyUncheckedRequestsOverflow
<1> QED BY <1>4, <1>5, <1>6, <1>9, <1>10 DEF Inv

\* A run whose context shrinks to an end of the groups that were kept.
LEMMA ShrunkContext ==
    ASSUME Inv, pc # "idle", UNCHANGED <<size, keep>>, digest' = saved'.digest,
           NEW x \in Kept, groups' = x .. Newest,
           saved'.boundary = saved.boundary \/ (Compressed # {} /\ saved'.boundary = NewBoundary)
    PROVE  RunInv'
<1>1. PICK a, n, b, k \in Nat :
         /\ n = Newest /\ b = saved.boundary /\ k = keep /\ k > 0
         /\ b < a /\ a <= n
         /\ Compressed = a .. n - k /\ Kept = {g \in a .. n : g > n - k}
  BY Place
<1>2. x \in Nat /\ a <= x /\ x <= n /\ n - k < x BY <1>1
<1>3. groups' = x .. n BY <1>1
<1>4. Newest' = n BY <1>1 DEF Newest
<1>5. Compressed' = {}
  <2>1. Compressed' = x .. n - k BY <1>1, <1>2, <1>3, CutNext
  <2> QED BY <1>2, <2>1
<1>6. PICK c \in Nat : c = saved'.boundary /\ c < x
  <2>1. CASE saved'.boundary = saved.boundary BY <1>1, <1>2, <2>1
  <2>2. CASE Compressed # {} /\ saved'.boundary = NewBoundary
    <3>1. a <= n - k /\ n - k \in Nat BY <1>1, <2>2
    <3>2. NewBoundary = n - k BY <1>1, <3>1, EndsOfInterval DEF NewBoundary
    <3> QED BY <1>2, <2>2, <3>1, <3>2
  <2> QED BY <2>1, <2>2
<1>7. groups' \subseteq c + 1 .. n /\ x \in groups'
  <2>1. c + 1 <= x BY <1>2, <1>6
  <2>2. x .. n \subseteq c + 1 .. n BY <1>2, <2>1
  <2>3. x \in x .. n BY <1>2
  <2> QED BY <1>3, <2>2, <2>3, Zenon
<1>8. size' # <<>> /\ keep' \in Keeps BY DEF Inv, RunInv
<1>9. groups' # {} /\ groups' \subseteq saved'.boundary + 1 .. Newest' BY <1>4, <1>6, <1>7
<1>10. \E y \in groups' : groups' = y .. Newest' BY <1>3, <1>4, <1>7
<1> QED BY <1>5, <1>8, <1>9, <1>10 DEF RunInv

LEMMA RunCompactionKeeps == ASSUME Inv, CompactionSucceeds PROVE Inv'
<1> DEFINE summary == draft \cup Head(batches)
<1>1. pc = "summarize" /\ Len(batches) = 1 /\ batches \in Seq(SUBSET Nat) /\ draft \in SUBSET Nat
  BY DEF CompactionSucceeds, Inv, TypeInv
<1>2. /\ Head(batches) \in SUBSET Nat
      /\ UNION Range(batches) = Head(batches) \cup UNION Range(Tail(batches))
  BY <1>1, HeadAndTail
<1>3. PICK a, n, b, k \in Nat :
         /\ n = Newest /\ b = saved.boundary /\ k = keep /\ k > 0
         /\ b < a /\ a <= n
         /\ Compressed = a .. n - k /\ Kept = {g \in a .. n : g > n - k}
  BY <1>1, Place
<1>4. Compressed # {} /\ summary \subseteq digest \cup Compressed
  BY <1>1, <1>2 DEF Inv, DraftInv
<1>5. PICK c \in Nat : c = n - k /\ a <= c BY <1>3, <1>4
<1>6. NewBoundary = c BY <1>3, <1>5, EndsOfInterval DEF NewBoundary
<1>7. saved' = [digest |-> summary, boundary |-> c] /\ digest' = summary
  BY <1>6 DEF CompactionSucceeds
<1>8. digest \subseteq 1 .. b BY <1>1, <1>3 DEF Inv, RunInv, SavedInv
<1>9. summary \subseteq 1 .. c
  <2>1. 1 .. b \subseteq 1 .. c BY <1>3, <1>5
  <2>2. a .. c \subseteq 1 .. c BY <1>3
  <2>3. Compressed \subseteq 1 .. c BY <1>3, <1>5, <2>2
  <2> HIDE DEF summary
  <2> QED BY <1>4, <1>8, <2>1, <2>3
<1>10. PICK x \in Kept : groups' = x .. n
  <2>1. Kept = c + 1 .. n /\ c + 1 <= n BY <1>3, <1>5
  <2>2. groups' = Fitting(summary, Kept) BY DEF CompactionSucceeds
  <2> HIDE DEF summary
  <2> QED BY <2>1, <2>2, FittingEnds
<1>11. UNCHANGED <<size, keep, auto, extra>> BY DEF CompactionSucceeds, config
<1>12. RunInv'
  BY <1>1, <1>3, <1>4, <1>6, <1>7, <1>10, <1>11, ShrunkContext
<1>13. SavedInv'
  <2>1. Newest' = n BY <1>3, <1>11 DEF Newest
  <2>2. c < n BY <1>3, <1>5
  <2> HIDE DEF summary
  <2> QED BY <1>7, <1>9, <2>1, <2>2 DEF SavedInv
<1>14. auto /\ doneRound' = round + 1 BY <1>1 DEF CompactionSucceeds, Inv, CheckedInv
<1>15. Estimated' \in Nat
  <2>1. Estimated' = Estimate(digest', groups', extra') BY <1>11, EstimatedNext
  <2>2. extra' \in Nat BY <1>11 DEF Inv, TypeInv
  <2> QED BY <2>1, <2>2, EstimateType DEF Inv
<1>16. CheckedInv' /\ DraftInv'
  BY <1>1, <1>11, <1>14, <1>15, ProceedKeeps DEF CompactionSucceeds, Inv
<1>17. pc' \in {"check", "request"} /\ round' \in Nat
  BY <1>1, <1>11, Proceeds DEF CompactionSucceeds, Inv
<1>18. TypeInv'
  <2>1. batches' = <<>> /\ draft' = {} BY DEF CompactionSucceeds
  <2>2. summary \in SUBSET Nat BY <1>1, <1>2
  <2> HIDE DEF summary
  <2> QED BY <1>7, <1>11, <1>17, <2>1, <2>2 DEF Inv, TypeInv
<1> QED BY <1>12, <1>13, <1>16, <1>18 DEF Inv

LEMMA CompactionFailsKeeps == ASSUME Inv, CompactionFails PROVE Inv'
<1> DEFINE rest == Fitting(digest, Kept)
<1>1. pc = "summarize" /\ UNCHANGED size BY DEF CompactionFails
<1>2. CASE EndRun
  BY <1>1, <1>2, EndedRunKeeps DEF Inv, TypeInv
<1>3. CASE /\ Estimate(digest, rest, extra) <= Available
           /\ groups' = rest
           /\ batches' = <<>> /\ draft' = {}
           /\ Proceed
           /\ UNCHANGED <<saved, config, extra, digest, attempts, doneRound>>
  <2>1. PICK a, n, k \in Nat :
           n = Newest /\ k = keep /\ k > 0 /\ a <= n /\ Kept = {g \in a .. n : g > n - k}
    BY <1>1, Place
  <2>2. PICK c \in Nat : c <= n /\ Kept = c .. n
    <3>1. CASE n - k < a
      <4>1. Kept = a .. n BY <2>1, <3>1
      <4> QED BY <2>1, <4>1
    <3>2. CASE a <= n - k
      <4>1. Kept = n - k + 1 .. n /\ n - k + 1 \in Nat /\ n - k + 1 <= n BY <2>1, <3>2
      <4> QED BY <4>1
    <3> QED BY <2>1, <3>1, <3>2
  <2>3. PICK x \in Kept : groups' = x .. n BY <1>3, <2>2, FittingEnds
  <2>4. UNCHANGED <<keep, auto, saved, digest, extra>> BY <1>3 DEF config
  <2>5. digest = saved.digest BY <1>1 DEF Inv, RunInv
  <2>6. RunInv' BY <1>1, <2>1, <2>3, <2>4, <2>5, ShrunkContext
  <2>7. SavedInv' BY <1>1, <2>4, SameSaved DEF Inv
  <2>8. Estimated' = Estimate(digest, rest, extra)
    <3>1. Estimated' = Estimate(digest', groups', extra') BY <1>1, EstimatedNext
    <3> QED BY <1>3, <2>4, <3>1
  <2>9. Estimated' \in Nat /\ Estimated' <= Available
    <3>1. extra \in Nat BY DEF Inv, TypeInv
    <3> QED BY <1>3, <2>8, <3>1, EstimateType DEF Inv
  <2>10. CheckedInv' /\ DraftInv' BY <1>1, <1>3, <2>4, <2>9, ProceedKeeps DEF Inv
  <2>11. pc' \in {"check", "request"} /\ round' \in Nat BY <1>1, <1>3, <2>4, Proceeds DEF Inv
  <2>12. TypeInv' BY <1>1, <1>3, <2>4, <2>11 DEF Inv, TypeInv
  <2> QED BY <2>6, <2>7, <2>10, <2>12 DEF Inv
<1> QED BY <1>2, <1>3 DEF CompactionFails

LEMMA ToolExchangeKeeps == ASSUME Inv, NEW s \in Sizes, ToolExchange(s) PROVE Inv'
<1>1. s \in Nat BY CompactionAssumption
<1>2. pc = "request" /\ extra \in Nat /\ round \in Nat /\ round > 0 /\ auto \in BOOLEAN
  BY DEF ToolExchange, Inv, TypeInv, CheckedInv
<1>3. extra' = extra + s /\ round' = round + 1 /\ pc' = (IF auto THEN "check" ELSE "request")
  BY DEF ToolExchange
<1>4. UNCHANGED <<size, saved, auto, keep, groups, digest, batches, draft>>
  BY DEF ToolExchange, config, attempt
<1>5. TypeInv' BY <1>1, <1>2, <1>3, <1>4 DEF Inv, TypeInv
<1>6. SavedInv' BY <1>4, SameSaved DEF Inv
<1>7. RunInv' BY <1>2, <1>4, SameContext DEF Inv
<1>8. DraftInv' BY <1>3 DEF DraftInv
<1>9. ASSUME ~ auto, Estimated' > Available PROVE extra' > 0
  <2>1. CASE s > 0 BY <1>1, <1>2, <1>3, <2>1
  <2>2. CASE s = 0
    <3>1. extra' = extra BY <1>2, <1>3, <2>2
    <3>2. Estimated' = Estimated
      BY <1>4, <3>1, EstimatedNext DEF Estimated
    <3> QED BY <1>2, <1>9, <3>1, <3>2 DEF Inv, CheckedInv, OnlyUncheckedRequestsOverflow
  <2> QED BY <1>1, <2>1, <2>2
<1>10. OnlyUncheckedRequestsOverflow' BY <1>3, <1>4, <1>9 DEF OnlyUncheckedRequestsOverflow
<1>11. CheckedInv'
  <2>1. pc' # "precheck" /\ pc' # "summarize" /\ round' > 0 BY <1>2, <1>3
  <2>2. pc' = "check" => auto' BY <1>3, <1>4
  <2> QED BY <1>10, <2>1, <2>2 DEF CheckedInv
<1> QED BY <1>5, <1>6, <1>7, <1>8, <1>11 DEF Inv

LEMMA EndingsKeep ==
    ASSUME Inv, \/ CheckOverflows
                \/ GiveUpUncompacted
                \/ RunAborts
                \/ \E s \in Sizes : RunCompletes(s)
    PROVE  Inv'
<1>1. ASSUME UNCHANGED size, EndRun PROVE Inv'
  BY <1>1, EndedRunKeeps DEF Inv, TypeInv
<1>2. ASSUME NEW s \in Sizes, RunCompletes(s) PROVE Inv'
  <2>1. s \in Nat BY CompactionAssumption
  <2>2. size # <<>> BY <1>2 DEF RunCompletes, Inv, RunInv
  <2>3. size' \in Seq(Groups) /\ Len(size') = Len(size)
    BY <1>2, <2>1, <2>2, ReplyTyped DEF RunCompletes, Inv
  <2> QED BY <1>2, <2>3, EndedRunKeeps DEF RunCompletes, Inv
<1> QED BY <1>1, <1>2 DEF CheckOverflows, GiveUpUncompacted, RunAborts

LEMMA IdleKeeps == ASSUME Inv, UNCHANGED vars PROVE Inv'
<1>1. UNCHANGED <<size, saved, pc, auto, keep, groups, extra, digest, round, doneRound, batches, draft>>
  BY DEF vars, config, context, counters, attempt
<1>2. TypeInv' BY <1>1 DEF Inv, TypeInv
<1>3. SavedInv' BY <1>1, SameSaved DEF Inv
<1>4. Compressed' = Compressed /\ AllBatches' = AllBatches BY <1>1, SameCut
<1>5. Newest' = Newest BY <1>1 DEF Newest
<1>6. RunInv' BY <1>1, <1>4, <1>5 DEF Inv, RunInv
<1>7. DraftInv' BY <1>1, <1>4 DEF Inv, DraftInv
<1>8. Estimated' = Estimated BY <1>1, SameEstimate DEF context
<1>9. CheckedInv' BY <1>1, <1>8 DEF Inv, CheckedInv, OnlyUncheckedRequestsOverflow
<1> QED BY <1>2, <1>3, <1>6, <1>7, <1>9 DEF Inv

LEMMA InvStep == Inv /\ [Next]_vars => Inv'
<1> SUFFICES ASSUME Inv, [Next]_vars PROVE Inv' OBVIOUS
<1>1. CASE UNCHANGED vars BY <1>1, IdleKeeps
<1>2. CASE Regenerate BY <1>2, RegenerateKeeps
<1>3. ASSUME NEW s \in Sizes, SendMessage(s) PROVE Inv' BY <1>3, SendMessageKeeps
<1>4. CASE Step
  <2>1. CASE CheckPasses BY <2>1, CheckPassesKeeps
  <2>2. CASE GoOnUncompacted BY <2>2, GoOnUncompactedKeeps
  <2>3. CASE BeginCompaction BY <2>3, BeginCompactionKeeps
  <2>4. CASE BatchSummarised BY <2>4, BatchSummarisedKeeps
  <2>5. CASE CompactionSucceeds BY <2>5, RunCompactionKeeps
  <2>6. CASE CompactionFails BY <2>6, CompactionFailsKeeps
  <2>7. ASSUME NEW s \in Sizes, ToolExchange(s) PROVE Inv' BY <2>7, ToolExchangeKeeps
  <2>8. CASE CheckOverflows \/ GiveUpUncompacted \/ RunAborts BY <2>8, EndingsKeep
  <2>9. ASSUME NEW s \in Sizes, RunCompletes(s) PROVE Inv' BY <2>9, EndingsKeep
  <2> QED BY <1>4, <2>1, <2>2, <2>3, <2>4, <2>5, <2>6, <2>7, <2>8, <2>9 DEF Step
<1> QED BY <1>1, <1>2, <1>3, <1>4 DEF Next

LEMMA InvHolds == Spec => []Inv
BY InitInv, InvStep, PTL DEF Spec

-----------------------------------------------------------------------------
(* Theorems                                                                 *)

\* The context of a run is a gapless end of the conversation with the message it
\* answers, and nothing in it is in the summary as well (apply_compaction,
\* run_compaction): after any number of compressions, failures and restarts.
THEOREM ContextsAreRecent == Spec => []ContextIsRecentPart
<1>1. ASSUME Inv PROVE ContextIsRecentPart
  <2> SUFFICES ASSUME pc # "idle"
               PROVE  Newest \in groups /\ groups = Min(groups) .. Newest /\ groups \cap digest = {}
    BY DEF ContextIsRecentPart
  <2>1. PICK a, n, b \in Nat :
           n = Newest /\ b = saved.boundary /\ b < a /\ a <= n /\ groups = a .. n
    BY <1>1, Place
  <2>2. Min(groups) = a BY <2>1, EndsOfInterval
  <2>3. digest \subseteq 1 .. b BY <1>1, <2>1 DEF Inv, RunInv, SavedInv
  <2> QED BY <2>1, <2>2, <2>3
<1> QED BY <1>1, InvHolds, PTL

\* A request above the capacity leaves only where _maybe_compact does not look.
THEOREM OnlyUncheckedOverflow == Spec => []OnlyUncheckedRequestsOverflow
<1>1. Inv => OnlyUncheckedRequestsOverflow BY DEF Inv, CheckedInv
<1> QED BY <1>1, InvHolds, PTL

\* The stored summary and its boundary move forward together (persist_compaction):
\* what the boundary newly covers is in the new summary, as far as the batches go.
THEOREM CompactionsMoveForward == Spec => CompactionMovesForward
<1> DEFINE Forward ==
      saved' # saved =>
          /\ saved.digest \subseteq saved'.digest
          /\ saved.boundary < saved'.boundary /\ saved'.boundary < Newest
          /\ Len(AllBatches) <= MaxBatches =>
                 saved.boundary + 1 .. saved'.boundary \subseteq saved'.digest
<1>1. ASSUME Inv, [Next]_vars PROVE [Forward]_vars
  <2>1. ASSUME CompactionSucceeds PROVE Forward
    <3> DEFINE summary == draft \cup Head(batches)
    <3>1. pc = "summarize" /\ Len(batches) = 1 /\ batches \in Seq(SUBSET Nat)
      BY <1>1, <2>1 DEF CompactionSucceeds, Inv, TypeInv
    <3>2. /\ UNION Range(batches) = Head(batches) \cup UNION Range(Tail(batches))
          /\ Tail(batches) \in Seq(SUBSET Nat)
      BY <3>1, HeadAndTail
    <3>3. UNION Range(Tail(batches)) = {}
      <4>1. batches # <<>> BY <3>1
      <4>2. Len(Tail(batches)) = 0 BY <3>1, <4>1, HeadTailProperties
      <4>3. PICK t \in Seq(SUBSET Nat) : t = Tail(batches) BY <3>2
      <4>4. t = <<>> BY <4>2, <4>3
      <4>5. Range(<<>>) = {} BY DEF Range
      <4> QED BY <4>3, <4>4, <4>5
    <3>4. PICK a, n, b, k \in Nat :
             /\ n = Newest /\ b = saved.boundary /\ k > 0
             /\ b < a /\ a <= n /\ Compressed = a .. n - k
             /\ a = b + 1 \/ n - k < a
      BY <1>1, <3>1, Place
    <3>5. /\ Compressed # {} /\ digest \subseteq draft /\ digest = saved.digest
          /\ Len(AllBatches) <= MaxBatches => Compressed \subseteq draft \cup UNION Range(batches)
      BY <1>1, <3>1 DEF Inv, DraftInv, RunInv
    <3>6. PICK c \in Nat : c = n - k /\ a <= c BY <3>4, <3>5
    <3>7. NewBoundary = c BY <3>4, <3>6, EndsOfInterval DEF NewBoundary
    <3>8. saved' = [digest |-> summary, boundary |-> c] BY <2>1, <3>7 DEF CompactionSucceeds
    <3>9. saved.digest \subseteq summary BY <3>5
    <3>10. b < c /\ c < n BY <3>4, <3>6
    <3>11. b + 1 .. c = Compressed BY <3>4, <3>6
    <3>12. Len(AllBatches) <= MaxBatches => Compressed \subseteq summary
      BY <3>2, <3>3, <3>5
    <3> HIDE DEF summary
    <3> QED BY <3>4, <3>8, <3>9, <3>10, <3>11, <3>12
  <2>2. ASSUME ~ CompactionSucceeds PROVE saved' = saved
    BY <1>1, <2>2 DEF Next, Step, CheckPasses, CheckOverflows, GoOnUncompacted,
       GiveUpUncompacted, BeginCompaction, BatchSummarised, CompactionFails, ToolExchange,
       RunCompletes, RunAborts, EndRun, StartRun, SendMessage, Regenerate, vars
  <2> QED BY <2>1, <2>2
<1>2. Spec => [][Forward]_vars BY <1>1, InvHolds, PTL DEF Spec
<1> QED BY <1>2 DEF CompactionMovesForward

=============================================================================
