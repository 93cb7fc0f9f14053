------------------------------- MODULE PlanProofs -------------------------------
(***************************************************************************)
(* Proofs about ConnectPlan, for any server field and any answers of the   *)
(* resolvers.  What a recursive function computes is proved with the sets  *)
(* of the steps up to which it is right (Upwards).                         *)
(***************************************************************************)
EXTENDS Dial, NumberLemmas, FiniteSetTheorems, SequenceTheorems

-----------------------------------------------------------------------------
(* Sequences put one after another. *)

\* g gives what the first k members of s are, one after another.
Flattens(s, g, X) ==
  /\ g \in [0..Len(s) -> Seq(X)]
  /\ g[0] = <<>>
  /\ \A k \in 1..Len(s) : g[k] = g[k - 1] \o s[k]

LEMMA Members ==
  ASSUME NEW X, NEW s \in Seq(Seq(X))
  PROVE  Len(s) \in Nat /\ DOMAIN s = 1..Len(s) /\ \A k \in 1..Len(s) : s[k] \in Seq(X)
  OBVIOUS

LEMMA Joined ==
  ASSUME NEW X, NEW t \in Seq(X), NEW u \in Seq(X)
  PROVE  /\ t \o u \in Seq(X)
         /\ Len(t) \in Nat /\ Len(u) \in Nat /\ Len(t \o u) = Len(t) + Len(u)
         /\ \A i \in 1..Len(t) : (t \o u)[i] = t[i]
         /\ \A i \in 1..Len(u) : (t \o u)[Len(t) + i] = u[i]
         /\ ToSet(t \o u) = ToSet(t) \cup ToSet(u)
<1>1. /\ t \o u \in Seq(X)
      /\ Len(t) \in Nat /\ Len(u) \in Nat /\ Len(t \o u) = Len(t) + Len(u)
      /\ DOMAIN t = 1..Len(t) /\ DOMAIN u = 1..Len(u) /\ DOMAIN (t \o u) = 1..(Len(t) + Len(u))
      /\ \A i \in 1..(Len(t) + Len(u)) : (t \o u)[i] = IF i <= Len(t) THEN t[i] ELSE u[i - Len(t)]
  OBVIOUS
<1> DEFINE v == t \o u
<1> HIDE DEF v
<1>2. \A i \in 1..Len(t) : i \in DOMAIN v /\ v[i] = t[i]
  BY <1>1 DEF v
<1>3. \A i \in 1..Len(u) : Len(t) + i \in DOMAIN v /\ v[Len(t) + i] = u[i]
  BY <1>1 DEF v
<1>4. \A i \in DOMAIN v : \/ i \in DOMAIN t /\ v[i] = t[i]
                          \/ i - Len(t) \in DOMAIN u /\ v[i] = u[i - Len(t)]
  BY <1>1 DEF v
<1>5. DOMAIN t = 1..Len(t) /\ DOMAIN u = 1..Len(u)
  BY <1>1
<1>6. ToSet(v) = ToSet(t) \cup ToSet(u)
  BY <1>2, <1>3, <1>4, <1>5 DEF ToSet
<1> QED
  BY <1>1, <1>2, <1>3, <1>6 DEF v

LEMMA EmptyJoined ==
  ASSUME NEW X, NEW t \in Seq(X)
  PROVE  <<>> \o t = t
  OBVIOUS

LEMMA FlattenExists ==
  ASSUME NEW X, NEW s \in Seq(Seq(X))
  PROVE  \E g : Flattens(s, g, X)
<1> DEFINE n == Len(s)
           T == Seq(X)
           step == [p \in (1..n) \X T |-> p[2] \o s[p[1]]]
<1>1. n \in Nat /\ \A k \in 1..n : s[k] \in T
  BY Members
<1>2. <<>> \in T
  OBVIOUS
<1>3. \A k \in 1..n : \A t \in T : step[<<k, t>>] = t \o s[k]
  OBVIOUS
<1> HIDE DEF step
<1>4. Closed(step, n, T)
  <2> SUFFICES ASSUME NEW k \in 1..n, NEW t \in T PROVE step[<<k, t>>] \in T
    BY DEF Closed
  <2>1. s[k] \in Seq(X) /\ t \in Seq(X) /\ step[<<k, t>>] = t \o s[k]
    BY <1>1, <1>3
  <2> QED
    BY <2>1, Joined
<1> HIDE DEF n, T
<1>5. PICK g : Recurs(g, n, T, <<>>, step)
  BY <1>1, <1>2, <1>4, Recursion
<1>6. ASSUME NEW k \in 1..n PROVE g[k] = g[k - 1] \o s[k]
  <2>1. k - 1 \in 0..n
    BY <1>1
  <2>2. g[k - 1] \in T /\ g[k] = step[<<k, g[k - 1]>>]
    BY <1>5, <2>1 DEF Recurs
  <2> QED
    BY <1>3, <2>2
<1> QED
  BY <1>5, <1>6 DEF Flattens, Recurs, n, T

\* FlattenSeq is what the last of them is.
LEMMA FlattenIs ==
  ASSUME NEW X, NEW s \in Seq(Seq(X)), NEW g, Flattens(s, g, X)
  PROVE  FlattenSeq(s) = g[Len(s)]
<1> DEFINE n == Len(s)
<1>1. n \in Nat /\ \A k \in 1..n : s[k] \in Seq(X)
  BY Members
<1>2. g[0] = <<>> /\ \A k \in 1..n : g[k] = g[k - 1] \o s[k]
  BY DEF Flattens
<1>3. CASE n = 0
  BY <1>2, <1>3 DEF FlattenSeq
<1>4. CASE n # 0
  <2> DEFINE Eq(f) == f = [i \in 1..n |-> IF i = 1 THEN s[i] ELSE f[i - 1] \o s[i]]
             h == [i \in 1..n |-> g[i]]
             flatten == CHOOSE f : Eq(f)
  <2>1. FlattenSeq(s) = flatten[n]
    BY <1>4 DEF FlattenSeq
  <2> HIDE DEF n
  <2>2. 1 \in 1..n /\ g[1] = s[1]
    <3>1. 1 \in 1..n
      BY <1>1, <1>4
    <3>2. g[1] = g[1 - 1] \o s[1]
      BY <1>2, <3>1
    <3>3. g[1 - 1] = <<>> /\ s[1] \in Seq(X)
      BY <1>1, <1>2, <3>1
    <3> QED
      BY <3>1, <3>2, <3>3, EmptyJoined
  <2>3. Eq(h)
    <3>1. \A i \in 1..n : i # 1 => h[i - 1] = g[i - 1]
      BY <1>1
    <3>2. \A i \in 1..n : g[i] = IF i = 1 THEN s[i] ELSE h[i - 1] \o s[i]
      BY <1>2, <2>2, <3>1
    <3> QED
      BY <3>2
  <2>4. Eq(flatten)
    BY <2>3
  <2> HIDE DEF flatten
  <2>5. \A i \in 1..n : flatten[i] = IF i = 1 THEN s[i] ELSE flatten[i - 1] \o s[i]
    BY <2>4
  <2> DEFINE S == {i \in 0..n : i # 0 => flatten[i] = g[i]}
  <2>6. 0 \in S
    BY <1>1
  <2>7. ASSUME NEW i \in 1..n, i - 1 \in S PROVE i \in S
    <3>1. CASE i = 1
      BY <1>1, <2>2, <2>5, <3>1
    <3>2. CASE i # 1
      <4>1. flatten[i - 1] = g[i - 1] /\ i \in 0..n
        BY <1>1, <2>7, <3>2
      <4>2. flatten[i] = flatten[i - 1] \o s[i]
        BY <2>5, <3>2
      <4>3. g[i] = g[i - 1] \o s[i]
        BY <1>2
      <4> QED
        BY <4>1, <4>2, <4>3
    <3> QED
      BY <3>1, <3>2
  <2> HIDE DEF S
  <2>8. \A i \in 0..n : i \in S
    BY <1>1, <2>6, <2>7, Upwards
  <2>9. flatten[n] = g[n]
    BY <1>1, <1>4, <2>8 DEF S
  <2> QED
    BY <2>1, <2>9 DEF n
<1> QED
  BY <1>3, <1>4

\* The members of s are found in the whole of it, those of its first k members
\* in what these are.
Grows(s, g, X) ==
  \A k \in 0..Len(s) :
    /\ g[k] \in Seq(X)
    /\ ToSet(g[k]) = UNION {ToSet(s[j]) : j \in 1..k}
    /\ Len(g[k]) <= Len(g[Len(s)])
    /\ \A i \in 1..Len(g[k]) : g[Len(s)][i] = g[k][i]

LEMMA FlattenGrows ==
  ASSUME NEW X, NEW s \in Seq(Seq(X)), NEW g, Flattens(s, g, X)
  PROVE  Grows(s, g, X)
<1> DEFINE n == Len(s)
<1>1. n \in Nat /\ \A k \in 1..n : s[k] \in Seq(X)
  BY Members
<1>2. /\ \A k \in 0..n : g[k] \in Seq(X)
      /\ g[0] = <<>> /\ \A k \in 1..n : g[k] = g[k - 1] \o s[k]
  BY DEF Flattens
<1> HIDE DEF n
<1>3. ASSUME NEW k \in 1..n
      PROVE  /\ Len(g[k - 1]) \in Nat /\ Len(g[k - 1]) <= Len(g[k])
             /\ \A i \in 1..Len(g[k - 1]) : g[k][i] = g[k - 1][i]
             /\ ToSet(g[k]) = ToSet(g[k - 1]) \cup ToSet(s[k])
  <2>1. g[k - 1] \in Seq(X) /\ s[k] \in Seq(X) /\ g[k] = g[k - 1] \o s[k]
    <3>1. k - 1 \in 0..n
      BY <1>1
    <3> QED
      BY <1>1, <1>2, <3>1
  <2> DEFINE t == g[k - 1]
             u == s[k]
  <2> HIDE DEF t, u
  <2>2. t \in Seq(X) /\ u \in Seq(X) /\ g[k] = t \o u
    BY <2>1 DEF t, u
  <2>3. Len(t) \in Nat /\ Len(u) \in Nat /\ Len(g[k]) = Len(t) + Len(u)
    BY <2>2, Joined
  <2>4. ToSet(g[k]) = ToSet(t) \cup ToSet(u)
    BY <2>2, Joined
  <2>5. \A i \in 1..Len(t) : g[k][i] = t[i]
    BY <2>2
  <2>6. Len(t) <= Len(g[k])
    BY <2>3
  <2> QED
    BY <2>3, <2>4, <2>5, <2>6 DEF t, u
<1> DEFINE S == {k \in 0..n : ToSet(g[k]) = UNION {ToSet(s[j]) : j \in 1..k}}
<1>4. 0 \in S
  <2>1. ToSet(<<>>) = {}
    BY DEF ToSet
  <2> QED
    BY <1>1, <1>2, <2>1
<1>5. ASSUME NEW k \in 1..n, k - 1 \in S PROVE k \in S
  <2>1. 1..k = 1..(k - 1) \cup {k}
    BY <1>1
  <2>2. UNION {ToSet(s[j]) : j \in 1..k} = (UNION {ToSet(s[j]) : j \in 1..(k - 1)}) \cup ToSet(s[k])
    BY <2>1
  <2>3. k \in 0..n
    BY <1>1
  <2> QED
    BY <1>3, <1>5, <2>2, <2>3
<1> HIDE DEF S
<1>6. \A k \in 0..n : k \in S
  BY <1>1, <1>4, <1>5, Upwards
<1> DEFINE Begins(j, k) == /\ Len(g[j]) <= Len(g[k])
                           /\ \A i \in 1..Len(g[j]) : g[k][i] = g[j][i]
           P == {k \in 0..n : \A j \in 0..k : Begins(j, k)}
<1>7. 0 \in P
  <2>1. Len(g[0]) = 0
    BY <1>2
  <2> QED
    BY <1>1, <2>1
<1>8. ASSUME NEW k \in 1..n, k - 1 \in P PROVE k \in P
  <2>1. ASSUME NEW j \in 0..k PROVE Begins(j, k)
    <3>1. CASE j = k
      <4>1. Len(g[k]) \in Nat
        BY <1>1, <1>2, LenProperties
      <4> QED
        BY <3>1, <4>1
    <3>2. CASE j # k
      <4>1. j \in 0..(k - 1) /\ j \in 0..n /\ k \in 0..n
        BY <1>1, <3>2
      <4>2. Begins(j, k - 1)
        BY <1>8, <4>1
      <4>3. Len(g[j]) \in Nat /\ Len(g[k]) \in Nat
        BY <1>2, <4>1, LenProperties
      <4>4. Len(g[k - 1]) \in Nat /\ Len(g[k - 1]) <= Len(g[k])
        BY <1>3
      <4>5. Len(g[j]) <= Len(g[k]) /\ 1..Len(g[j]) \subseteq 1..Len(g[k - 1])
        BY <4>2, <4>3, <4>4
      <4> QED
        BY <1>3, <4>2, <4>5
    <3> QED
      BY <3>1, <3>2
  <2>2. k \in 0..n
    BY <1>1
  <2> QED
    BY <2>1, <2>2
<1> HIDE DEF P
<1>9. \A k \in 0..n : k \in P
  BY <1>1, <1>7, <1>8, Upwards
<1>10. n \in P
  BY <1>1, <1>9
<1>11. \A k \in 0..n : Begins(k, n)
  BY <1>10 DEF P
<1> QED
  BY <1>2, <1>6, <1>11 DEF Grows, S, n

-----------------------------------------------------------------------------
(* Duplicates. *)

Seen(s, i) == \E j \in 1..(i - 1) : s[j] = s[i]

\* kept gives what is kept of the first i members of s.
Keeps(s, kept, X) ==
  /\ kept \in [0..Len(s) -> Seq(X)]
  /\ kept[0] = <<>>
  /\ \A i \in 1..Len(s) : kept[i] = IF Seen(s, i) THEN kept[i - 1] ELSE Append(kept[i - 1], s[i])

LEMMA KeepsExists ==
  ASSUME NEW X, NEW s \in Seq(X)
  PROVE  \E kept : Keeps(s, kept, X)
<1> DEFINE n == Len(s)
           T == Seq(X)
           step == [p \in (1..n) \X T |-> IF Seen(s, p[1]) THEN p[2] ELSE Append(p[2], s[p[1]])]
<1>1. n \in Nat /\ \A k \in 1..n : s[k] \in X
  OBVIOUS
<1>2. <<>> \in T
  OBVIOUS
<1>3. \A k \in 1..n : \A t \in T : step[<<k, t>>] = IF Seen(s, k) THEN t ELSE Append(t, s[k])
  OBVIOUS
<1> HIDE DEF step
<1>4. Closed(step, n, T)
  <2> SUFFICES ASSUME NEW k \in 1..n, NEW t \in T PROVE step[<<k, t>>] \in T
    BY DEF Closed
  <2>1. s[k] \in X /\ Append(t, s[k]) \in T
    BY <1>1
  <2> QED
    BY <1>3, <2>1
<1> HIDE DEF n, T
<1>5. PICK kept : Recurs(kept, n, T, <<>>, step)
  BY <1>1, <1>2, <1>4, Recursion
<1>6. ASSUME NEW k \in 1..n PROVE kept[k] = IF Seen(s, k) THEN kept[k - 1] ELSE Append(kept[k - 1], s[k])
  <2>1. k - 1 \in 0..n
    BY <1>1
  <2>2. kept[k - 1] \in T /\ kept[k] = step[<<k, kept[k - 1]>>]
    BY <1>5, <2>1 DEF Recurs
  <2> QED
    BY <1>3, <2>2
<1> QED
  BY <1>5, <1>6 DEF Keeps, Recurs, n, T

LEMMA DedupeIs ==
  ASSUME NEW X, NEW s \in Seq(X), NEW g, Keeps(s, g, X)
  PROVE  DedupeCandidates(s) = g[Len(s)]
<1> DEFINE n == Len(s)
           Eq(f) == f = [i \in 0..n |->
                           IF i = 0 THEN <<>>
                           ELSE IF \E j \in 1..(i - 1) : s[j] = s[i] THEN f[i - 1]
                           ELSE Append(f[i - 1], s[i])]
           kept == CHOOSE f : Eq(f)
<1>1. n \in Nat
  OBVIOUS
<1>2. /\ g = [i \in 0..n |-> g[i]] /\ g[0] = <<>>
      /\ \A i \in 1..n : g[i] = IF Seen(s, i) THEN g[i - 1] ELSE Append(g[i - 1], s[i])
  BY DEF Keeps
<1>3. DedupeCandidates(s) = kept[n]
  BY DEF DedupeCandidates
<1> HIDE DEF n
<1>4. Eq(g)
  <2>1. ASSUME NEW i \in 0..n
        PROVE  g[i] = IF i = 0 THEN <<>>
                      ELSE IF \E j \in 1..(i - 1) : s[j] = s[i] THEN g[i - 1]
                      ELSE Append(g[i - 1], s[i])
    <3>1. CASE i = 0
      BY <1>2, <3>1
    <3>2. CASE i # 0
      <4>1. i \in 1..n
        BY <1>1, <3>2
      <4> QED
        BY <1>2, <3>2, <4>1 DEF Seen
    <3> QED
      BY <3>1, <3>2
  <2> QED
    BY <1>2, <2>1
<1>5. Eq(kept)
  BY <1>4
<1> HIDE DEF kept
<1>6. /\ kept[0] = <<>>
      /\ \A i \in 1..n : kept[i] = IF Seen(s, i) THEN kept[i - 1] ELSE Append(kept[i - 1], s[i])
  <2>1. \A i \in 0..n : kept[i] = IF i = 0 THEN <<>>
                               ELSE IF Seen(s, i) THEN kept[i - 1] ELSE Append(kept[i - 1], s[i])
    BY <1>5 DEF Seen
  <2>2. 0 \in 0..n /\ \A i \in 1..n : i \in 0..n /\ i # 0
    BY <1>1
  <2> QED
    BY <2>1, <2>2
<1> DEFINE S == {i \in 0..n : kept[i] = g[i]}
<1>7. 0 \in S
  BY <1>1, <1>2, <1>6
<1>8. ASSUME NEW i \in 1..n, i - 1 \in S PROVE i \in S
  <2>1. i \in 0..n
    BY <1>1
  <2> QED
    BY <1>2, <1>6, <1>8, <2>1
<1> HIDE DEF S
<1>9. \A i \in 0..n : i \in S
  BY <1>1, <1>7, <1>8, Upwards
<1> QED
  BY <1>1, <1>3, <1>9 DEF S, n

\* d occurs only behind some occurrence of c.
Behind(s, c, d) == \E i \in DOMAIN s : s[i] = c /\ \A j \in DOMAIN s : s[j] = d => i < j

\* What is kept is all that was there, once, and in the order of its first
\* occurrences.
Distinct(s) == \A i, j \in DOMAIN s : i # j => s[i] # s[j]

LEMMA DedupeSound ==
  ASSUME NEW X, NEW s \in Seq(X)
  PROVE  /\ DedupeCandidates(s) \in Seq(X)
         /\ ToSet(DedupeCandidates(s)) = ToSet(s)
         /\ Distinct(DedupeCandidates(s))
         /\ \A c, d \in ToSet(s) : Behind(s, c, d) => Behind(DedupeCandidates(s), c, d)
<1> DEFINE n == Len(s)
<1>1. n \in Nat /\ DOMAIN s = 1..n /\ \A i \in 1..n : s[i] \in X
  OBVIOUS
<1>2. PICK kept : Keeps(s, kept, X)
  BY KeepsExists
<1>3. DedupeCandidates(s) = kept[n]
  BY <1>2, DedupeIs
<1>4. /\ \A i \in 0..n : kept[i] \in Seq(X)
      /\ kept[0] = <<>>
      /\ \A i \in 1..n : kept[i] = IF Seen(s, i) THEN kept[i - 1] ELSE Append(kept[i - 1], s[i])
  BY <1>2 DEF Keeps
<1> HIDE DEF n
<1> DEFINE All(i) == ToSet(kept[i]) = {s[j] : j \in 1..i}
           \* A member of what is kept occurs in s before one that is kept behind it.
           Ordered(i) ==
             \A p, q \in DOMAIN kept[i] :
               p < q => \E j \in 1..i : /\ s[j] = kept[i][p]
                                        /\ \A l \in 1..i : s[l] = kept[i][q] => j < l
           S == {i \in 0..n : All(i) /\ Ordered(i)}
<1>5. 0 \in S
  BY <1>1, <1>4 DEF ToSet
<1>6. ASSUME NEW i \in 1..n, i - 1 \in S PROVE i \in S
  <2> DEFINE t == kept[i - 1]
             u == kept[i]
  <2>1. i - 1 \in 0..n /\ i \in 0..n /\ 1..i = 1..(i - 1) \cup {i}
    BY <1>1
  <2>2. t \in Seq(X) /\ s[i] \in X /\ All(i - 1) /\ Ordered(i - 1)
    BY <1>1, <1>4, <1>6, <2>1
  <2>3. CASE Seen(s, i)
    <3>1. u = t
      BY <1>4, <2>3
    <3>2. PICK k \in 1..(i - 1) : s[k] = s[i]
      BY <2>3 DEF Seen
    <3>3. All(i)
      BY <2>1, <2>2, <3>1, <3>2
    <3>4. ASSUME NEW p \in DOMAIN u, NEW q \in DOMAIN u, p < q
          PROVE  \E j \in 1..i : s[j] = u[p] /\ \A l \in 1..i : s[l] = u[q] => j < l
      <4>1. PICK j \in 1..(i - 1) : s[j] = t[p] /\ \A l \in 1..(i - 1) : s[l] = t[q] => j < l
        BY <2>2, <3>1, <3>4
      <4>2. \A l \in 1..i : s[l] = u[q] => j < l
        BY <2>1, <3>1, <4>1
      <4> QED
        BY <2>1, <3>1, <4>1, <4>2
    <3> QED
      BY <2>1, <3>3, <3>4
  <2>4. CASE ~Seen(s, i)
    <3>1. u = Append(t, s[i])
      BY <1>4, <2>4
    <3>2. /\ Len(t) \in Nat /\ DOMAIN t = 1..Len(t) /\ DOMAIN u = 1..(Len(t) + 1)
          /\ u[Len(t) + 1] = s[i] /\ \A p \in DOMAIN t : u[p] = t[p]
      <4> HIDE DEF t, u
      <4> QED
        BY <2>2, <3>1
    <3>3. DOMAIN u = DOMAIN t \cup {Len(t) + 1}
      BY <3>2
    <3>4. ToSet(u) = ToSet(t) \cup {s[i]}
      <4> HIDE DEF t, u
      <4> QED
        BY <3>2, <3>3 DEF ToSet
    <3>5. All(i)
      BY <2>1, <2>2, <3>4
    <3>6. ASSUME NEW p \in DOMAIN u, NEW q \in DOMAIN u, p < q
          PROVE  \E j \in 1..i : s[j] = u[p] /\ \A l \in 1..i : s[l] = u[q] => j < l
      <4>1. p \in DOMAIN t
        BY <3>2, <3>6
      <4>2. CASE q \in DOMAIN t
        <5>1. PICK j \in 1..(i - 1) : s[j] = t[p] /\ \A l \in 1..(i - 1) : s[l] = t[q] => j < l
          BY <2>2, <3>6, <4>1, <4>2
        <5>2. \A l \in 1..i : s[l] = u[q] => j < l
          BY <2>1, <3>2, <4>2, <5>1
        <5> QED
          BY <2>1, <3>2, <4>1, <5>1, <5>2
      <4>3. CASE q = Len(t) + 1
        <5>1. t[p] \in ToSet(t)
          BY <4>1 DEF ToSet
        <5>2. PICK j \in 1..(i - 1) : s[j] = t[p]
          BY <2>2, <5>1
        <5>3. \A l \in 1..i : s[l] = s[i] => l = i
          BY <2>1, <2>4 DEF Seen
        <5> QED
          BY <2>1, <3>2, <4>1, <4>3, <5>2, <5>3
      <4> QED
        BY <3>3, <4>2, <4>3
    <3> QED
      BY <2>1, <3>5, <3>6
  <2> QED
    BY <2>3, <2>4
<1> HIDE DEF S
<1>7. \A i \in 0..n : i \in S
  BY <1>1, <1>5, <1>6, Upwards
<1> DEFINE v == kept[n]
<1>8. All(n) /\ Ordered(n) /\ v \in Seq(X)
  <2>1. n \in 0..n
    BY <1>1
  <2>2. n \in S /\ v \in Seq(X)
    BY <1>4, <1>7, <2>1
  <2> QED
    BY <2>2 DEF S
<1>9. ToSet(v) = ToSet(s)
  BY <1>1, <1>8 DEF ToSet
<1>10. Distinct(v)
  <2> SUFFICES ASSUME NEW p \in DOMAIN v, NEW q \in DOMAIN v, p # q PROVE v[p] # v[q]
    BY DEF Distinct
  <2>1. p \in Nat /\ q \in Nat
    BY <1>8
  <2>2. \A j \in 1..n : ~ (j < j)
    BY <1>1
  <2>3. CASE p < q
    BY <1>8, <2>2, <2>3
  <2>4. CASE q < p
    BY <1>8, <2>2, <2>4
  <2> QED
    BY <2>1, <2>3, <2>4
<1>11. ASSUME NEW c \in ToSet(s), NEW d \in ToSet(s), Behind(s, c, d) PROVE Behind(v, c, d)
  <2>1. PICK i \in 1..n : s[i] = c /\ \A j \in 1..n : s[j] = d => i < j
    BY <1>1, <1>11 DEF Behind
  <2>2. PICK p \in DOMAIN v : v[p] = c
    BY <1>9 DEF ToSet
  <2>3. ASSUME NEW q \in DOMAIN v, v[q] = d PROVE p < q
    <3>1. p \in Nat /\ q \in Nat
      BY <1>8
    <3>2. CASE q < p
      <4>1. PICK j \in 1..n : s[j] = d /\ \A l \in 1..n : s[l] = c => j < l
        BY <1>8, <2>2, <2>3, <3>2
      <4>2. i < j /\ j < i
        BY <2>1, <4>1
      <4> QED
        BY <1>1, <4>2
    <3>3. CASE q = p
      BY <1>1, <2>1, <2>2, <2>3, <3>3
    <3> QED
      BY <3>1, <3>2, <3>3
  <2> QED
    BY <2>2, <2>3 DEF Behind
<1> QED
  BY <1>3, <1>8, <1>9, <1>10, <1>11

-----------------------------------------------------------------------------
(* The order of SRV records. *)

\* Strictly ordered members of a finite set are numbered by how many stand
\* before them.
StrictOrder(S, R) ==
  /\ \A x \in S : <<x, x>> \notin R
  /\ \A x, y, z \in S : <<x, y>> \in R /\ <<y, z>> \in R => <<x, z>> \in R
  /\ \A x, y \in S : x = y \/ <<x, y>> \in R \/ <<y, x>> \in R

LEMMA Ranking ==
  ASSUME NEW S, IsFiniteSet(S), NEW R, StrictOrder(S, R),
         NEW rank, \A x \in S : rank[x] = Cardinality({y \in S : <<y, x>> \in R})
  PROVE  /\ Cardinality(S) \in Nat
         /\ \A x \in S : rank[x] \in Nat /\ rank[x] + 1 \in 1..Cardinality(S)
         /\ \A x, y \in S : rank[x] < rank[y] <=> <<x, y>> \in R
         /\ \A k \in 1..Cardinality(S) : \E x \in S : rank[x] = k - 1
<1> DEFINE n == Cardinality(S)
           before(x) == {y \in S : <<y, x>> \in R}
<1>1. n \in Nat
  BY FS_CardinalityType
<1>2. ASSUME NEW x \in S
      PROVE  IsFiniteSet(before(x)) /\ rank[x] = Cardinality(before(x)) /\ rank[x] \in Nat /\ rank[x] < n
  <2>1. before(x) \in SUBSET S
    OBVIOUS
  <2>2. IsFiniteSet(before(x)) /\ Cardinality(before(x)) <= n /\ (n = Cardinality(before(x)) => S = before(x))
    BY <2>1, FS_Subset
  <2>3. x \notin before(x)
    BY DEF StrictOrder
  <2>4. Cardinality(before(x)) \in Nat
    BY <2>2, FS_CardinalityType
  <2> QED
    BY <1>1, <2>2, <2>3, <2>4
<1>3. ASSUME NEW x \in S, NEW y \in S, <<x, y>> \in R PROVE rank[x] < rank[y]
  <2>1. before(x) \in SUBSET before(y)
    BY <1>3 DEF StrictOrder
  <2>2. x \in before(y) /\ x \notin before(x)
    BY <1>3 DEF StrictOrder
  <2>3. IsFiniteSet(before(y))
    BY <1>2
  <2> HIDE DEF before
  <2>4. /\ Cardinality(before(x)) <= Cardinality(before(y))
        /\ Cardinality(before(y)) = Cardinality(before(x)) => before(y) = before(x)
    BY <2>1, <2>3, FS_Subset
  <2>5. /\ rank[x] \in Nat /\ rank[x] = Cardinality(before(x))
        /\ rank[y] \in Nat /\ rank[y] = Cardinality(before(y))
    BY <1>2
  <2> QED
    BY <2>2, <2>4, <2>5
<1>4. ASSUME NEW x \in S, NEW y \in S PROVE rank[x] < rank[y] <=> <<x, y>> \in R
  <2>1. rank[x] \in Nat /\ rank[y] \in Nat
    BY <1>2
  <2>2. <<y, x>> \in R => rank[y] < rank[x]
    BY <1>3
  <2>3. <<x, y>> \in R => rank[x] < rank[y]
    BY <1>3
  <2>4. x = y \/ <<x, y>> \in R \/ <<y, x>> \in R
    BY DEF StrictOrder
  <2> QED
    BY <2>1, <2>2, <2>3, <2>4
<1>9. ASSUME NEW x \in S PROVE rank[x] \in Nat /\ rank[x] + 1 \in 1..n
  <2> HIDE DEF n
  <2>1. rank[x] \in Nat /\ rank[x] < n
    BY <1>2
  <2> QED
    BY <1>1, <2>1
<1> DEFINE f == [x \in S |-> rank[x] + 1]
<1>5. f \in Injection(S, 1..n)
  <2>1. f \in [S -> 1..n]
    BY <1>9
  <2>2. ASSUME NEW x \in S, NEW y \in S, f[x] = f[y] PROVE x = y
    <3>1. rank[x] \in Nat /\ rank[y] \in Nat /\ rank[x] + 1 = rank[y] + 1
      BY <1>2, <2>2
    <3>2. ~ (rank[x] < rank[y]) /\ ~ (rank[y] < rank[x])
      BY <3>1
    <3> QED
      BY <1>4, <3>2 DEF StrictOrder
  <2> HIDE DEF f
  <2> QED
    BY <2>1, <2>2 DEF Injection, IsInjective
<1>6. IsFiniteSet(1..n) /\ Cardinality(1..n) = n
  BY <1>1, FS_Interval
<1>7. f \in Surjection(S, 1..n)
  <2> HIDE DEF f
  <2> QED
    BY <1>5, <1>6, FS_Injection
<1>8. ASSUME NEW k \in 1..n PROVE \E x \in S : rank[x] = k - 1
  <2>1. PICK x \in S : f[x] = k
    <3> HIDE DEF f
    <3> QED
      BY <1>7 DEF Surjection
  <2>2. rank[x] \in Nat /\ rank[x] + 1 = k
    BY <1>2, <2>1
  <2> QED
    BY <1>1, <2>2
<1> QED
  BY <1>1, <1>4, <1>8, <1>9

SrvRecord == [target : STRING, port : Nat, priority : Nat, weight : Nat, addresses : Seq(STRING)]
Usable(records) == {i \in DOMAIN records : records[i].target # "."}

\* Every usable record has its place, behind those that come before it.
LEMMA SrvSorted ==
  ASSUME NEW records \in Seq(SrvRecord)
  PROVE  /\ OrderSrv(records) \in Seq(Usable(records))
         /\ \A i \in Usable(records) : \E k \in DOMAIN OrderSrv(records) : OrderSrv(records)[k] = i
         /\ \A k, l \in DOMAIN OrderSrv(records) :
              k < l => SrvBefore(records, OrderSrv(records)[k], OrderSrv(records)[l])
<1> DEFINE S == Usable(records)
           n == Cardinality(S)
           R == {p \in S \X S : SrvBefore(records, p[1], p[2])}
           before(i) == {j \in S : SrvBefore(records, j, i)}
           rank == [i \in S |-> Cardinality(before(i))]
           order == OrderSrv(records)
<1>1. S \subseteq 1..Len(records) /\ Len(records) \in Nat
  BY DEF Usable
<1>2. \A i \in S : i \in Nat /\ records[i].priority \in Nat /\ records[i].weight \in Nat
  <2>1. \A i \in S : i \in Nat /\ records[i] \in SrvRecord
    BY DEF Usable
  <2> QED
    BY <2>1 DEF SrvRecord
<1>3. IsFiniteSet(S)
  <2>1. IsFiniteSet(1..Len(records))
    BY <1>1, FS_Interval
  <2> HIDE DEF S
  <2> QED
    BY <1>1, <2>1, FS_Subset
<1>4. order = [k \in 1..n |-> CHOOSE i \in S : Cardinality(before(i)) = k - 1]
  BY DEF OrderSrv, Usable
<1> HIDE DEF S
<1>5. \A i, j \in S : <<i, j>> \in R <=> SrvBefore(records, i, j)
  OBVIOUS
<1>6. StrictOrder(S, R)
  <2>1. \A i \in S : ~SrvBefore(records, i, i)
    BY <1>2 DEF SrvBefore
  <2>2. \A i, j, k \in S : SrvBefore(records, i, j) /\ SrvBefore(records, j, k) => SrvBefore(records, i, k)
    BY SMTT(30), <1>2 DEF SrvBefore
  <2>3. \A i, j \in S : i = j \/ SrvBefore(records, i, j) \/ SrvBefore(records, j, i)
    BY <1>2 DEF SrvBefore
  <2> HIDE DEF R
  <2> QED
    BY <1>5, <2>1, <2>2, <2>3 DEF StrictOrder
<1>7. \A i \in S : rank[i] = Cardinality({j \in S : <<j, i>> \in R})
  <2>1. \A i \in S : before(i) = {j \in S : <<j, i>> \in R}
    BY <1>5
  <2> HIDE DEF R
  <2>2. \A i \in S : rank[i] = Cardinality(before(i))
    OBVIOUS
  <2> HIDE DEF rank, before
  <2> QED
    BY <2>1, <2>2
<1>8. \A i \in S : rank[i] = Cardinality(before(i))
  OBVIOUS
<1> HIDE DEF R, rank, before
<1>9. /\ n \in Nat
      /\ \A i \in S : rank[i] \in Nat /\ rank[i] + 1 \in 1..n
      /\ \A i, j \in S : rank[i] < rank[j] <=> <<i, j>> \in R
      /\ \A k \in 1..n : \E i \in S : rank[i] = k - 1
  BY <1>3, <1>6, <1>7, Ranking
<1>10. ASSUME NEW k \in 1..n PROVE order[k] \in S /\ rank[order[k]] = k - 1
  <2>1. \E i \in S : Cardinality(before(i)) = k - 1
    BY <1>8, <1>9
  <2>2. order[k] = CHOOSE i \in S : Cardinality(before(i)) = k - 1
    BY <1>4
  <2>3. order[k] \in S /\ Cardinality(before(order[k])) = k - 1
    BY <2>1, <2>2
  <2> QED
    BY <1>8, <2>3
<1>11. order \in Seq(S) /\ DOMAIN order = 1..n
  <2>1. DOMAIN order = 1..n
    BY <1>4
  <2>2. order \in [1..n -> S]
    BY <1>4, <1>10
  <2> HIDE DEF order, n
  <2> QED
    BY <1>9, <2>1, <2>2, SeqDef
<1>12. ASSUME NEW i \in S PROVE \E k \in 1..n : order[k] = i
  <2> DEFINE k == rank[i] + 1
  <2>1. k \in 1..n
    BY <1>9
  <2>2. order[k] \in S /\ rank[order[k]] = k - 1
    BY <1>10, <2>1
  <2>3. \A x, y \in S : x # y => rank[x] < rank[y] \/ rank[y] < rank[x]
    BY <1>6, <1>9 DEF StrictOrder
  <2>4. rank[i] \in Nat
    BY <1>9
  <2> QED
    BY <2>1, <2>2, <2>3, <2>4
<1>13. ASSUME NEW k \in 1..n, NEW l \in 1..n, k < l PROVE SrvBefore(records, order[k], order[l])
  <2>1. rank[order[k]] < rank[order[l]] /\ order[k] \in S /\ order[l] \in S
    BY <1>9, <1>10, <1>13
  <2> QED
    BY <1>5, <1>9, <2>1
<1> HIDE DEF order
<1> QED
  BY <1>11, <1>12, <1>13 DEF order, S

-----------------------------------------------------------------------------
(* Candidates. *)

\* The candidates of a name with its own port and those of its answers.
Candidates == [ip : STRING \cup {"literal"}, port : Nat \cup {server.port}, tls : BOOLEAN]

LEMMA HostResolved ==
  ASSUME NEW addresses \in Seq(STRING), NEW port \in Nat \cup {server.port}, NEW tls \in BOOLEAN
  PROVE  ResolveHost(addresses, port, tls) \in Seq(Candidates)
<1> DEFINE m == IF Len(addresses) < MAX_ADDRESSES_PER_PORT THEN Len(addresses) ELSE MAX_ADDRESSES_PER_PORT
           s == ResolveHost(addresses, port, tls)
<1>1. m \in Nat /\ m <= Len(addresses)
  BY ConnectPlanAssumption
<1>2. \A i \in 1..m : Candidate(addresses[i], port, tls) \in Candidates
  <2>1. \A i \in 1..m : addresses[i] \in STRING \cup {"literal"}
    BY <1>1
  <2> QED
    BY <2>1 DEF Candidate, Candidates
<1>3. s = [i \in 1..m |-> Candidate(addresses[i], port, tls)]
  BY DEF ResolveHost
<1> HIDE DEF m, s
<1>4. s \in [1..m -> Candidates]
  BY <1>2, <1>3
<1>5. s \in Seq(Candidates)
  BY <1>1, <1>4, SeqDef
<1> QED
  BY <1>5 DEF s

Host(r) == ResolveHost(r.addresses, r.port, r.port = 5223)

LEMMA RecordsResolved ==
  ASSUME dns \in Resolved
  PROVE  /\ dns.srv \in Seq(SrvRecord)
         /\ dns.plain \in Seq(STRING) /\ dns.tls \in Seq(STRING) /\ dns.takes \in Nat
         /\ \A i \in DOMAIN dns.srv : dns.srv[i] \in SrvRecord /\ Host(dns.srv[i]) \in Seq(Candidates)
         /\ UsableRecords = {dns.srv[i] : i \in Usable(dns.srv)}
<1>1. /\ dns.srv \in Seq(SrvRecord) /\ dns.takes \in Nat
      /\ dns.plain \in Seq(STRING) /\ dns.tls \in Seq(STRING)
  BY DEF Resolved, SrvRecord
<1>2. ASSUME NEW r \in SrvRecord PROVE Host(r) \in Seq(Candidates)
  <2> DEFINE tls == r.port = 5223
  <2>1. r.addresses \in Seq(STRING) /\ r.port \in Nat \cup {server.port}
    BY DEF SrvRecord
  <2>2. tls \in BOOLEAN /\ Host(r) = ResolveHost(r.addresses, r.port, tls)
    BY DEF Host
  <2> HIDE DEF tls
  <2> QED
    BY <2>1, <2>2, HostResolved
<1>3. \A i \in DOMAIN dns.srv : dns.srv[i] \in SrvRecord
  BY <1>1
<1>4. UsableRecords = {dns.srv[i] : i \in Usable(dns.srv)}
  BY DEF UsableRecords, Usable, ToSet
<1> QED
  BY <1>1, <1>2, <1>3, <1>4

\* The addresses of SRV targets: all that usable records name, those of a record
\* before any that only records behind it name.
LEMMA SrvEndpointsSound ==
  ASSUME dns \in Resolved
  PROVE  /\ SrvEndpoints(dns) \in Seq(Candidates)
         /\ ToSet(SrvEndpoints(dns)) = UNION {ToSet(Host(r)) : r \in UsableRecords}
         /\ \A r \in UsableRecords : \A c \in ToSet(Host(r)) : \A d :
              (\A s \in UsableRecords : d \in ToSet(Host(s)) => PutFirst(r, s))
                => Behind(SrvEndpoints(dns), c, d)
<1> DEFINE records == dns.srv
           order == OrderSrv(records)
           n == Len(order)
           parts == [k \in DOMAIN order |-> Host(records[order[k]])]
           L == SrvEndpoints(dns)
<1>1. /\ records \in Seq(SrvRecord)
      /\ \A i \in DOMAIN records : records[i] \in SrvRecord /\ Host(records[i]) \in Seq(Candidates)
      /\ UsableRecords = {records[i] : i \in Usable(records)}
  BY RecordsResolved
<1>2. L = FlattenSeq(parts)
  BY DEF SrvEndpoints, Host
<1> HIDE DEF records, L
<1>3. /\ order \in Seq(Usable(records))
      /\ \A i \in Usable(records) : \E k \in DOMAIN order : order[k] = i
      /\ \A k, l \in DOMAIN order : k < l => SrvBefore(records, order[k], order[l])
  BY <1>1, SrvSorted
<1> HIDE DEF order
<1>4. n \in Nat /\ DOMAIN order = 1..n /\ \A k \in 1..n : order[k] \in Usable(records)
  BY <1>3
<1> HIDE DEF n
<1>5. \A i \in Usable(records) : i \in DOMAIN records /\ records[i] \in UsableRecords
  BY <1>1 DEF Usable
<1>6. \A k \in 1..n : parts[k] = Host(records[order[k]]) /\ parts[k] \in Seq(Candidates)
  BY <1>1, <1>4, <1>5
<1>7. parts \in Seq(Seq(Candidates)) /\ Len(parts) = n
  <2>1. parts = [k \in 1..n |-> parts[k]]
    BY <1>4
  <2> HIDE DEF parts
  <2> QED
    BY <1>4, <1>6, <2>1, SeqDef, LenProperties
<1> HIDE DEF parts
<1>8. PICK g : Flattens(parts, g, Candidates)
  BY <1>7, FlattenExists
<1>9. L = g[n]
  BY <1>2, <1>7, <1>8, FlattenIs
<1>10. \A k \in 0..n :
         /\ g[k] \in Seq(Candidates)
         /\ ToSet(g[k]) = UNION {ToSet(parts[j]) : j \in 1..k}
         /\ Len(g[k]) <= Len(L)
         /\ \A i \in 1..Len(g[k]) : L[i] = g[k][i]
  <2>1. \A k \in 0..Len(parts) :
          /\ g[k] \in Seq(Candidates)
          /\ ToSet(g[k]) = UNION {ToSet(parts[j]) : j \in 1..k}
          /\ Len(g[k]) <= Len(g[Len(parts)])
          /\ \A i \in 1..Len(g[k]) : g[Len(parts)][i] = g[k][i]
    <3>1. Grows(parts, g, Candidates)
      BY <1>7, <1>8, FlattenGrows
    <3> QED
      BY <3>1, Zenon DEF Grows
  <2> QED
    BY <1>7, <1>9, <2>1
<1>11. n \in 0..n
  BY <1>4
<1>12. L \in Seq(Candidates)
  BY <1>9, <1>10, <1>11
<1>13. ToSet(L) = UNION {ToSet(Host(r)) : r \in UsableRecords}
  <2>1. ToSet(L) = UNION {ToSet(parts[j]) : j \in 1..n}
    BY <1>9, <1>10, <1>11
  <2>2. \A j \in 1..n : \E r \in UsableRecords : parts[j] = Host(r)
    BY <1>4, <1>5, <1>6
  <2>3. \A r \in UsableRecords : \E j \in 1..n : parts[j] = Host(r)
    <3> SUFFICES ASSUME NEW r \in UsableRecords PROVE \E j \in 1..n : parts[j] = Host(r)
      OBVIOUS
    <3>1. PICK i \in Usable(records) : records[i] = r
      BY <1>1
    <3>2. PICK k \in 1..n : order[k] = i
      BY <1>3, <1>4
    <3> QED
      BY <1>6, <3>1, <3>2
  <2> QED
    BY <2>1, <2>2, <2>3
<1>14. ASSUME NEW r \in UsableRecords, NEW c \in ToSet(Host(r)), NEW d,
              \A s \in UsableRecords : d \in ToSet(Host(s)) => PutFirst(r, s)
       PROVE  Behind(L, c, d)
  <2>1. PICK k \in 1..n : records[order[k]] = r
    BY <1>1, <1>3, <1>4
  <2>2. k \in 0..n /\ c \in ToSet(parts[k])
    BY <1>4, <1>6, <2>1
  <2>3. /\ g[k] \in Seq(Candidates) /\ Len(g[k]) \in Nat /\ DOMAIN g[k] = 1..Len(g[k])
        /\ Len(g[k]) <= Len(L) /\ \A i \in 1..Len(g[k]) : L[i] = g[k][i]
    <3>1. g[k] \in Seq(Candidates)
      BY <1>10, <2>2
    <3> QED
      BY <1>10, <2>2, <3>1, LenProperties
  <2>4. k \in 1..k
    OBVIOUS
  <2>5. c \in ToSet(g[k])
    BY <1>10, <2>2, <2>4
  <2>6. PICK p \in 1..Len(g[k]) : g[k][p] = c
    BY <2>3, <2>5 DEF ToSet
  <2>7. p \in DOMAIN L /\ L[p] = c /\ DOMAIN L = 1..Len(L) /\ Len(L) \in Nat
    <3>1. DOMAIN L = 1..Len(L) /\ Len(L) \in Nat
      BY <1>12, LenProperties
    <3> QED
      BY <2>3, <2>6, <3>1
  <2>8. ASSUME NEW j \in DOMAIN L, L[j] = d, ~ (p < j) PROVE FALSE
    <3>1. j \in 1..Len(g[k]) /\ g[k][j] = d
      BY <2>3, <2>7, <2>8
    <3>2. d \in ToSet(g[k])
      BY <2>3, <3>1 DEF ToSet
    <3>3. PICK l \in 1..k : d \in ToSet(parts[l])
      BY <1>10, <2>2, <3>2
    <3>4. l \in 1..n /\ l <= k
      BY <1>4
    <3> DEFINE s == records[order[l]]
    <3>5. s \in UsableRecords /\ d \in ToSet(Host(s))
      BY <1>4, <1>5, <1>6, <3>3, <3>4
    <3>6. PutFirst(r, s)
      BY <1>14, <3>5
    <3>7. /\ r.priority \in Nat /\ r.weight \in Nat /\ s.priority \in Nat /\ s.weight \in Nat
      <4>1. r \in SrvRecord /\ s \in SrvRecord
        BY <1>1, <1>4, <1>5, <2>1, <3>4
      <4> QED
        BY <4>1 DEF SrvRecord
    <3>8. CASE l = k
      BY <2>1, <3>6, <3>7, <3>8 DEF PutFirst
    <3>9. CASE l # k
      <4>1. SrvBefore(records, order[l], order[k])
        BY <1>3, <1>4, <3>4, <3>9
      <4> QED
        BY <2>1, <3>6, <3>7, <4>1 DEF PutFirst, SrvBefore
    <3> QED
      BY <3>8, <3>9
  <2> QED
    BY <2>7, <2>8 DEF Behind
<1> QED
  BY <1>12, <1>13, <1>14 DEF L

LEMMA BehindJoined ==
  ASSUME NEW X, NEW t \in Seq(X), NEW u \in Seq(X), NEW c, NEW d, d \notin ToSet(t),
         c \in ToSet(t) \/ Behind(u, c, d)
  PROVE  Behind(t \o u, c, d)
<1> DEFINE v == t \o u
<1>1. /\ v \in Seq(X) /\ Len(t) \in Nat /\ Len(u) \in Nat /\ Len(v) = Len(t) + Len(u)
      /\ DOMAIN t = 1..Len(t) /\ DOMAIN u = 1..Len(u) /\ DOMAIN v = 1..Len(v)
  BY Joined
<1>2. (\A i \in 1..Len(t) : v[i] = t[i]) /\ \A i \in 1..Len(u) : v[Len(t) + i] = u[i]
  OBVIOUS
<1> HIDE DEF v
<1>3. ASSUME NEW j \in DOMAIN v, v[j] = d
      PROVE  j > Len(t) /\ j - Len(t) \in DOMAIN u /\ u[j - Len(t)] = d
  <2>1. j \notin DOMAIN t
    BY <1>1, <1>2, <1>3 DEF ToSet
  <2>2. j - Len(t) \in 1..Len(u) /\ j = Len(t) + (j - Len(t))
    BY <1>1, <2>1
  <2> QED
    BY <1>1, <1>2, <1>3, <2>2
<1>4. CASE c \in ToSet(t)
  <2>1. PICK i \in DOMAIN t : t[i] = c
    BY <1>4 DEF ToSet
  <2>2. i \in DOMAIN v /\ v[i] = c /\ \A j \in DOMAIN v : v[j] = d => i < j
    BY <1>1, <1>2, <1>3, <2>1
  <2> QED
    BY <2>2 DEF Behind, v
<1>5. CASE Behind(u, c, d)
  <2>1. PICK i \in DOMAIN u : u[i] = c /\ \A j \in DOMAIN u : u[j] = d => i < j
    BY <1>5 DEF Behind
  <2>2. Len(t) + i \in DOMAIN v /\ v[Len(t) + i] = c
    BY <1>1, <1>2, <2>1
  <2>3. \A j \in DOMAIN v : v[j] = d => Len(t) + i < j
    <3> SUFFICES ASSUME NEW j \in DOMAIN v, v[j] = d PROVE Len(t) + i < j
      OBVIOUS
    <3>1. i < j - Len(t)
      BY <1>3, <2>1
    <3> QED
      BY <1>1, <2>1, <3>1
  <2> QED
    BY <2>2, <2>3 DEF Behind, v
<1> QED
  BY <1>4, <1>5

Domain == SplitHostAndPort(server) = NoPort /\ server.host = "name"

\* The addresses of a domain, before those that occur twice are dropped.
Found == ResolveHost(dns.plain, 5222, FALSE) \o ResolveHost(dns.tls, 5223, TRUE) \o SrvEndpoints(dns)

LEMMA FoundSound ==
  ASSUME dns \in Resolved
  PROVE  /\ Found \in Seq(Candidates)
         /\ ToSet(Found) = OwnAddresses \cup UNION {AddressesFrom(r) : r \in UsableRecords}
         /\ \A d : d \notin OwnAddresses =>
              /\ \A c \in OwnAddresses : Behind(Found, c, d)
              /\ \A r \in UsableRecords : \A c \in AddressesFrom(r) :
                   (\A s \in UsableRecords : d \in AddressesFrom(s) => PutFirst(r, s))
                     => Behind(Found, c, d)
<1> DEFINE plain == ResolveHost(dns.plain, 5222, FALSE)
           tls == ResolveHost(dns.tls, 5223, TRUE)
           own == plain \o tls
           srv == SrvEndpoints(dns)
<1>1. plain \in Seq(Candidates) /\ tls \in Seq(Candidates)
  <2>1. dns.plain \in Seq(STRING) /\ dns.tls \in Seq(STRING)
    BY RecordsResolved
  <2>2. plain \in Seq(Candidates)
    <3> DEFINE mode == FALSE
    <3>1. mode \in BOOLEAN
      OBVIOUS
    <3> HIDE DEF mode, tls
    <3>2. ResolveHost(dns.plain, 5222, mode) \in Seq(Candidates)
      BY <2>1, <3>1, HostResolved
    <3> QED
      BY <3>2 DEF mode, ResolveHost, Candidate
  <2>3. tls \in Seq(Candidates)
    <3> DEFINE mode == TRUE
    <3>1. mode \in BOOLEAN
      OBVIOUS
    <3> HIDE DEF mode, plain
    <3>2. ResolveHost(dns.tls, 5223, mode) \in Seq(Candidates)
      BY <2>1, <3>1, HostResolved
    <3> QED
      BY <3>2 DEF mode, ResolveHost, Candidate
  <2> HIDE DEF plain, tls
  <2> QED
    BY <2>2, <2>3
<1>2. srv \in Seq(Candidates) /\ ToSet(srv) = UNION {ToSet(Host(r)) : r \in UsableRecords}
  BY SrvEndpointsSound
<1>3. OwnAddresses = ToSet(plain) \cup ToSet(tls)
  BY DEF OwnAddresses
<1>4. Found = own \o srv
  BY DEF Found
<1>5. \A r : AddressesFrom(r) = ToSet(Host(r)) \ OwnAddresses
  BY DEF AddressesFrom, Host
<1>6. \A r \in UsableRecords : \A c \in ToSet(Host(r)) : \A d :
        (\A s \in UsableRecords : d \in ToSet(Host(s)) => PutFirst(r, s)) => Behind(srv, c, d)
  BY SrvEndpointsSound
<1> HIDE DEF plain, tls, srv
<1>7. own \in Seq(Candidates) /\ ToSet(own) = OwnAddresses
  BY <1>1, <1>3, Joined
<1> HIDE DEF own
<1>8. Found \in Seq(Candidates) /\ ToSet(Found) = OwnAddresses \cup ToSet(srv)
  BY <1>2, <1>4, <1>7, Joined
<1>9. ToSet(Found) = OwnAddresses \cup UNION {AddressesFrom(r) : r \in UsableRecords}
  BY <1>2, <1>5, <1>8
<1>10. ASSUME NEW d, d \notin OwnAddresses, NEW c \in OwnAddresses PROVE Behind(Found, c, d)
  BY <1>2, <1>4, <1>7, <1>10, BehindJoined
<1>11. ASSUME NEW d, d \notin OwnAddresses, NEW r \in UsableRecords, NEW c \in AddressesFrom(r),
              \A s \in UsableRecords : d \in AddressesFrom(s) => PutFirst(r, s)
       PROVE  Behind(Found, c, d)
  <2>1. c \in ToSet(Host(r)) /\ \A s \in UsableRecords : d \in ToSet(Host(s)) => PutFirst(r, s)
    BY <1>5, <1>11
  <2>2. Behind(srv, c, d)
    BY <1>6, <2>1
  <2> QED
    BY <1>2, <1>4, <1>7, <1>11, <2>2, BehindJoined
<1> QED
  BY <1>8, <1>9, <1>10, <1>11

LEMMA AttemptsResolved ==
  ASSUME dns \in Resolved
  PROVE  /\ Attempts \in Seq(Candidates)
         /\ Domain => Attempts = DedupeCandidates(Found)
<1>1. DedupeCandidates(Found) \in Seq(Candidates)
  BY FoundSound, DedupeSound
<1>2. ASSUME NEW port \in Nat \cup {server.port}
      PROVE  ResolveHost(dns.plain, port, port = 5223) \in Seq(Candidates)
  <2> DEFINE tls == port = 5223
  <2>1. tls \in BOOLEAN /\ dns.plain \in Seq(STRING)
    BY RecordsResolved
  <2> HIDE DEF tls
  <2>2. ResolveHost(dns.plain, port, tls) \in Seq(Candidates)
    BY <2>1, HostResolved
  <2> QED
    BY <2>2 DEF tls
<1> DEFINE literal == <<Candidate("literal", 5222, FALSE), Candidate("literal", 5223, TRUE)>>
<1>3. literal \in Seq(Candidates)
  <2> DEFINE a == Candidate("literal", 5222, FALSE)
             b == Candidate("literal", 5223, TRUE)
  <2>1. a \in Candidates /\ b \in Candidates
    BY DEF Candidate, Candidates
  <2>2. literal = <<a, b>>
    BY Zenon
  <2> HIDE DEF a, b, literal
  <2>3. <<a, b>> \in Seq(Candidates)
    BY <2>1
  <2> QED
    BY <2>2, <2>3
<1> HIDE DEF literal
<1>4. <<>> \in Seq(Candidates)
  OBVIOUS
<1> DEFINE split == SplitHostAndPort(server)
<1>5. split.form = "endpoint" => split.port = server.port
  BY DEF SplitHostAndPort, Malformed, NoPort
<1>6. Attempts =
        CASE split = Malformed -> <<>>
          [] split.form = "endpoint" -> ResolveHost(dns.plain, server.port, server.port = 5223)
          [] split = NoPort /\ server.host = "ip" /\ server.bracket = "none" -> literal
          [] OTHER -> DedupeCandidates(Found)
  BY DEF Attempts, ResolveEndpoints, Found, literal
<1>7. split = Malformed => split.form = "malformed"
  BY DEF Malformed
<1>8. split = NoPort => split.form = "noport"
  BY DEF NoPort
<1> HIDE DEF split
<1>9. Attempts \in Seq(Candidates)
  <2>1. server.port \in Nat \cup {server.port}
    OBVIOUS
  <2> DEFINE port == server.port
  <2>2. ResolveHost(dns.plain, port, port = 5223) \in Seq(Candidates)
    <3>1. port \in Nat \cup {server.port}
      OBVIOUS
    <3> HIDE DEF port
    <3> QED
      BY <1>2, <3>1
  <2> DEFINE direct == ResolveHost(dns.plain, server.port, server.port = 5223)
             found == DedupeCandidates(Found)
             none == <<>>
  <2> HIDE DEF direct, found, none
  <2>3. none \in Seq(Candidates) /\ direct \in Seq(Candidates)
        /\ literal \in Seq(Candidates) /\ found \in Seq(Candidates)
    <3>1. none \in Seq(Candidates)
      BY <1>4 DEF none
    <3>2. direct \in Seq(Candidates)
      BY <2>2 DEF direct
    <3>3. literal \in Seq(Candidates)
      BY <1>3
    <3>4. found \in Seq(Candidates)
      BY <1>1 DEF found
    <3> QED
      BY <3>1, <3>2, <3>3, <3>4
  <2>4. Attempts =
          CASE split = Malformed -> none
            [] split.form = "endpoint" -> direct
            [] split = NoPort /\ server.host = "ip" /\ server.bracket = "none" -> literal
            [] OTHER -> found
    BY <1>6 DEF direct, found, none
  <2> QED
    BY <2>3, <2>4
<1>10. Domain => Attempts = DedupeCandidates(Found)
  BY <1>6, <1>7, <1>8 DEF Domain, split
<1> QED
  BY <1>9, <1>10

\* A domain's candidates are all that were found, once, in the order promised.
LEMMA PlanOrdered ==
  ASSUME dns \in Resolved, Domain
  PROVE  OrderKept(Attempts) /\ EachOnce(Attempts)
<1> DEFINE plan == Attempts
<1>1. plan = DedupeCandidates(Found)
  BY AttemptsResolved
<1>2. Found \in Seq(Candidates)
  BY FoundSound
<1>3. /\ plan \in Seq(Candidates) /\ ToSet(plan) = ToSet(Found) /\ Distinct(plan)
      /\ \A c, d \in ToSet(Found) : Behind(Found, c, d) => Behind(plan, c, d)
  BY <1>1, <1>2, DedupeSound
<1> HIDE DEF plan
<1>4. EachOnce(plan)
  BY <1>3, FoundSound DEF EachOnce, Distinct
<1>5. ASSUME NEW c \in ToSet(Found), NEW d \in ToSet(plan), Behind(Found, c, d)
      PROVE  \E i, j \in DOMAIN plan : i < j /\ plan[i] = c /\ plan[j] = d
  <2>1. Behind(plan, c, d)
    BY <1>3, <1>5
  <2>2. PICK j \in DOMAIN plan : plan[j] = d
    BY <1>5 DEF ToSet
  <2> QED
    BY <2>1, <2>2 DEF Behind
<1>6. OwnAddresses \subseteq ToSet(Found) /\ \A r \in UsableRecords : AddressesFrom(r) \subseteq ToSet(Found)
  BY FoundSound
<1>7. OrderKept(plan)
  <2>1. ASSUME NEW d \in ToSet(plan) \ OwnAddresses, NEW c \in OwnAddresses
        PROVE  \E i, j \in DOMAIN plan : i < j /\ plan[i] = c /\ plan[j] = d
    BY <1>5, <1>6, FoundSound
  <2>2. ASSUME NEW d \in ToSet(plan) \ OwnAddresses, NEW r \in UsableRecords, NEW c \in AddressesFrom(r),
               \A s \in UsableRecords : d \in AddressesFrom(s) => PutFirst(r, s)
        PROVE  \E i, j \in DOMAIN plan : i < j /\ plan[i] = c /\ plan[j] = d
    <3>1. Behind(Found, c, d)
      BY <2>2, FoundSound
    <3> QED
      BY <1>5, <1>6, <3>1
  <2> QED
    BY <2>1, <2>2 DEF OrderKept
<1> QED
  BY <1>4, <1>7 DEF plan


-----------------------------------------------------------------------------
(* Groups. *)

ModeOf(c) == <<c.port, c.tls>>
Mode(group) == {ModeOf(c) : c \in ToSet(group)}

Joins(s, i) == i > 1 /\ s[i].port = s[i - 1].port /\ s[i].tls = s[i - 1].tls
Joining(t, c) == [t EXCEPT ![Len(t)] = Append(@, c)]

\* g gives the groups of the first i members of s.
Cuts(s, g, X) ==
  /\ g \in [0..Len(s) -> Seq(Seq(X))]
  /\ g[0] = <<>>
  /\ \A i \in 1..Len(s) :
       g[i] = IF Joins(s, i) THEN Joining(g[i - 1], s[i]) ELSE Append(g[i - 1], <<s[i]>>)

LEMMA JoiningTyped ==
  ASSUME NEW X, NEW t \in Seq(Seq(X)), NEW c \in X
  PROVE  /\ Joining(t, c) \in Seq(Seq(X))
         /\ Len(t) \in Nat /\ Len(Joining(t, c)) = Len(t)
         /\ \A k \in 1..(Len(t) - 1) : Joining(t, c)[k] = t[k]
         /\ Len(t) > 0 => Joining(t, c)[Len(t)] = Append(t[Len(t)], c)
<1> DEFINE n == Len(t)
           u == Joining(t, c)
<1>1. n \in Nat /\ DOMAIN t = 1..n /\ \A k \in 1..n : t[k] \in Seq(X)
  BY Members
<1>2. DOMAIN u = 1..n /\ \A k \in 1..n : u[k] = IF k = n THEN Append(t[n], c) ELSE t[k]
  BY <1>1 DEF Joining
<1>3. u = [k \in 1..n |-> u[k]]
  BY <1>1 DEF Joining
<1> HIDE DEF n, u
<1>4. \A k \in 1..n : u[k] \in Seq(X)
  <2> SUFFICES ASSUME NEW k \in 1..n PROVE u[k] \in Seq(X)
    OBVIOUS
  <2>1. n \in 1..n /\ t[n] \in Seq(X) /\ t[k] \in Seq(X)
    BY <1>1
  <2>2. Append(t[n], c) \in Seq(X)
    BY <2>1
  <2> QED
    BY <1>2, <2>1, <2>2
<1>5. u \in Seq(Seq(X)) /\ Len(u) = n
  BY <1>1, <1>3, <1>4, SeqDef, LenProperties
<1>6. n > 0 => u[n] = Append(t[n], c)
  BY <1>1, <1>2
<1>7. \A k \in 1..(n - 1) : u[k] = t[k]
  BY <1>1, <1>2
<1> QED
  BY <1>1, <1>5, <1>6, <1>7 DEF n, u

LEMMA CutsExists ==
  ASSUME NEW X, NEW s \in Seq(X)
  PROVE  \E g : Cuts(s, g, X)
<1> DEFINE n == Len(s)
           T == Seq(Seq(X))
           step == [p \in (1..n) \X T |->
                      IF Joins(s, p[1]) THEN Joining(p[2], s[p[1]]) ELSE Append(p[2], <<s[p[1]]>>)]
<1>1. n \in Nat /\ \A k \in 1..n : s[k] \in X
  OBVIOUS
<1>2. <<>> \in T
  OBVIOUS
<1>3. \A k \in 1..n : \A t \in T :
        step[<<k, t>>] = IF Joins(s, k) THEN Joining(t, s[k]) ELSE Append(t, <<s[k]>>)
  OBVIOUS
<1> HIDE DEF step
<1>4. Closed(step, n, T)
  <2> SUFFICES ASSUME NEW k \in 1..n, NEW t \in T PROVE step[<<k, t>>] \in T
    BY DEF Closed
  <2>1. s[k] \in X /\ <<s[k]>> \in Seq(X)
    BY <1>1
  <2>2. Append(t, <<s[k]>>) \in T
    BY <2>1
  <2>3. Joining(t, s[k]) \in T
    BY <2>1, JoiningTyped
  <2> QED
    BY <1>3, <2>2, <2>3
<1> HIDE DEF n, T
<1>5. PICK g : Recurs(g, n, T, <<>>, step)
  BY <1>1, <1>2, <1>4, Recursion
<1>6. ASSUME NEW k \in 1..n
      PROVE  g[k] = IF Joins(s, k) THEN Joining(g[k - 1], s[k]) ELSE Append(g[k - 1], <<s[k]>>)
  <2>1. k - 1 \in 0..n
    BY <1>1
  <2>2. g[k - 1] \in T /\ g[k] = step[<<k, g[k - 1]>>]
    BY <1>5, <2>1 DEF Recurs
  <2> QED
    BY <1>3, <2>2
<1> QED
  BY <1>5, <1>6 DEF Cuts, Recurs, n, T

LEMMA GroupsAre ==
  ASSUME NEW X, NEW s \in Seq(X), NEW g, Cuts(s, g, X)
  PROVE  GroupAttempts(s) = g[Len(s)]
<1> DEFINE n == Len(s)
           joins(i) == i > 1 /\ s[i].port = s[i - 1].port /\ s[i].tls = s[i - 1].tls
           Eq(f) == f = [i \in 0..n |->
                           IF i = 0 THEN <<>>
                           ELSE IF joins(i) THEN [f[i - 1] EXCEPT ![Len(f[i - 1])] = Append(@, s[i])]
                           ELSE Append(f[i - 1], <<s[i]>>)]
           groups == CHOOSE f : Eq(f)
<1>1. n \in Nat
  OBVIOUS
<1>2. /\ g = [i \in 0..n |-> g[i]] /\ g[0] = <<>>
      /\ \A i \in 1..n : g[i] = IF Joins(s, i) THEN Joining(g[i - 1], s[i]) ELSE Append(g[i - 1], <<s[i]>>)
  BY DEF Cuts
<1>3. GroupAttempts(s) = groups[n]
  BY DEF GroupAttempts
<1>4. \A i : joins(i) <=> Joins(s, i)
  BY DEF Joins
<1> HIDE DEF n, joins
<1>6. Eq(g)
  <2>1. ASSUME NEW i \in 0..n
        PROVE  g[i] = IF i = 0 THEN <<>>
                      ELSE IF joins(i) THEN [g[i - 1] EXCEPT ![Len(g[i - 1])] = Append(@, s[i])]
                      ELSE Append(g[i - 1], <<s[i]>>)
    <3>1. CASE i = 0
      BY <1>2, <3>1
    <3>2. CASE i # 0
      <4>1. i \in 1..n
        BY <1>1, <3>2
      <4> QED
        BY <1>2, <1>4, <3>2, <4>1 DEF Joining
    <3> QED
      BY <3>1, <3>2
  <2> QED
    BY <1>2, <2>1
<1>7. Eq(groups)
  BY <1>6
<1> HIDE DEF groups
<1>8. /\ groups[0] = <<>>
      /\ \A i \in 1..n : groups[i] = IF Joins(s, i) THEN Joining(groups[i - 1], s[i])
                                     ELSE Append(groups[i - 1], <<s[i]>>)
  <2>1. \A i \in 0..n : groups[i] = IF i = 0 THEN <<>>
                                    ELSE IF joins(i) THEN Joining(groups[i - 1], s[i])
                                    ELSE Append(groups[i - 1], <<s[i]>>)
    BY <1>7 DEF Joining
  <2>2. 0 \in 0..n /\ \A i \in 1..n : i \in 0..n /\ i # 0
    BY <1>1
  <2> QED
    BY <1>4, <2>1, <2>2
<1> DEFINE S == {i \in 0..n : groups[i] = g[i]}
<1>9. 0 \in S
  BY <1>1, <1>2, <1>8
<1>10. ASSUME NEW i \in 1..n, i - 1 \in S PROVE i \in S
  <2>1. i \in 0..n
    BY <1>1
  <2> QED
    BY <1>2, <1>8, <1>10, <2>1
<1> HIDE DEF S
<1>11. \A i \in 0..n : i \in S
  BY <1>1, <1>9, <1>10, Upwards
<1> QED
  BY <1>1, <1>3, <1>11 DEF S, n

LEMMA FlattenAppended ==
  ASSUME NEW X, NEW t \in Seq(Seq(X)), NEW u \in Seq(X)
  PROVE  /\ FlattenSeq(t) \in Seq(X) /\ Append(t, u) \in Seq(Seq(X))
         /\ FlattenSeq(Append(t, u)) = FlattenSeq(t) \o u
<1> DEFINE n == Len(t)
           v == Append(t, u)
<1>1. /\ n \in Nat /\ v \in Seq(Seq(X)) /\ Len(v) = n + 1
      /\ v[n + 1] = u /\ \A k \in 1..n : v[k] = t[k]
  OBVIOUS
<1> HIDE DEF n, v
<1>2. PICK g : Flattens(v, g, X)
  BY <1>1, FlattenExists
<1>3. /\ g[0] = <<>> /\ \A k \in 1..(n + 1) : g[k] = g[k - 1] \o v[k]
      /\ \A k \in 0..(n + 1) : g[k] \in Seq(X)
  BY <1>1, <1>2 DEF Flattens
<1> DEFINE h == [k \in 0..n |-> g[k]]
<1>4. Flattens(t, h, X)
  <2>1. h \in [0..n -> Seq(X)]
    BY <1>1, <1>3
  <2>2. \A k \in 1..n : k - 1 \in 0..n /\ k \in 0..n /\ k \in 1..(n + 1)
    BY <1>1
  <2>3. 0 \in 0..n
    BY <1>1
  <2>4. h[0] = <<>> /\ \A k \in 1..n : h[k] = h[k - 1] \o t[k]
    BY <1>1, <1>3, <2>2, <2>3
  <2> HIDE DEF h
  <2> QED
    BY <2>1, <2>4 DEF Flattens, n
<1>5. FlattenSeq(t) = h[n] /\ FlattenSeq(v) = g[n + 1]
  <2>1. FlattenSeq(t) = h[n]
    BY <1>4, FlattenIs DEF n
  <2>2. FlattenSeq(v) = g[Len(v)]
    BY <1>1, <1>2, FlattenIs
  <2> QED
    BY <1>1, <2>1, <2>2
<1>6. h[n] = g[n] /\ g[n] \in Seq(X) /\ g[n + 1] = g[n] \o v[n + 1]
  <2>1. n \in 0..n /\ n + 1 \in 1..(n + 1) /\ n \in 0..(n + 1) /\ (n + 1) - 1 = n
    BY <1>1
  <2> QED
    BY <1>3, <2>1
<1> QED
  BY <1>1, <1>5, <1>6 DEF v

LEMMA FlattenJoined ==
  ASSUME NEW X, NEW t \in Seq(Seq(X)), NEW c \in X, Len(t) > 0
  PROVE  FlattenSeq(Joining(t, c)) = Append(FlattenSeq(t), c)
<1> DEFINE n == Len(t)
           u == Joining(t, c)
<1>1. /\ n \in Nat /\ n > 0 /\ u \in Seq(Seq(X)) /\ Len(u) = n
      /\ u[n] = Append(t[n], c) /\ \A k \in 1..(n - 1) : u[k] = t[k]
  BY JoiningTyped
<1>2. t[n] \in Seq(X)
  BY <1>1, Members
<1> HIDE DEF n, u
<1>3. PICK g : Flattens(t, g, X)
  BY FlattenExists
<1>4. /\ g[0] = <<>> /\ \A k \in 1..n : g[k] = g[k - 1] \o t[k]
      /\ \A k \in 0..n : g[k] \in Seq(X)
  BY <1>3 DEF Flattens, n
<1>5. n \in 1..n /\ n \in 0..n /\ n - 1 \in 0..n
  BY <1>1
<1>6. Append(g[n], c) = g[n - 1] \o u[n] /\ Append(g[n], c) \in Seq(X)
  <2> DEFINE a == g[n - 1]
             b == t[n]
             w == g[n]
  <2>1. a \in Seq(X) /\ b \in Seq(X) /\ w = a \o b /\ w \in Seq(X) /\ u[n] = Append(b, c)
    BY <1>1, <1>2, <1>4, <1>5
  <2> HIDE DEF a, b, w
  <2>2. Append(w, c) = a \o u[n]
    <3> DEFINE v == u[n]
               p == Append(w, c)
               q == a \o v
    <3>1. v = Append(b, c)
      BY <2>1
    <3> HIDE DEF v
    <3>2. /\ p \in Seq(X) /\ q \in Seq(X) /\ Len(p) = Len(a) + Len(b) + 1 /\ Len(q) = Len(p)
          /\ Len(a) \in Nat /\ Len(b) \in Nat
      BY <2>1, <3>1
    <3> HIDE DEF p, q
    <3>3. ASSUME NEW i \in 1..Len(p) PROVE p[i] = q[i]
      <4>1. CASE i <= Len(a)
        BY <2>1, <3>1, <3>2, <4>1 DEF p, q
      <4>2. CASE i > Len(a) /\ i <= Len(a) + Len(b)
        BY <2>1, <3>1, <3>2, <4>2 DEF p, q
      <4>3. CASE i = Len(a) + Len(b) + 1
        BY <2>1, <3>1, <3>2, <4>3 DEF p, q
      <4> QED
        BY <3>2, <4>1, <4>2, <4>3
    <3>4. p = q
      BY <3>2, <3>3, SeqEqual
    <3> QED
      BY <3>4 DEF p, q, v
  <2>3. Append(w, c) \in Seq(X)
    BY <2>1
  <2> QED
    BY <2>1, <2>2, <2>3 DEF a, w
<1> DEFINE h == [k \in 0..n |-> IF k = n THEN Append(g[n], c) ELSE g[k]]
<1>7. h \in [0..n -> Seq(X)] /\ h[n] = Append(g[n], c) /\ \A k \in 0..n : k # n => h[k] = g[k]
  BY <1>4, <1>5, <1>6
<1> HIDE DEF h
<1>8. h[0] = <<>> /\ \A k \in 1..n : h[k] = h[k - 1] \o u[k]
  <2>1. 0 \in 0..n /\ \A k \in 1..n : k \in 0..n /\ k - 1 \in 0..n /\ k - 1 # n /\ (k # n => k \in 1..(n - 1))
    BY <1>1
  <2>2. ASSUME NEW k \in 1..n PROVE h[k] = h[k - 1] \o u[k]
    <3>1. h[k - 1] = g[k - 1]
      BY <1>7, <2>1
    <3>2. CASE k = n
      BY <1>6, <1>7, <3>1, <3>2
    <3>3. CASE k # n
      BY <1>1, <1>4, <1>7, <2>1, <3>1, <3>3
    <3> QED
      BY <3>2, <3>3
  <2>3. h[0] = g[0]
    BY <1>1, <1>7, <2>1
  <2> QED
    BY <1>4, <2>2, <2>3
<1>9. Flattens(u, h, X)
  BY <1>1, <1>7, <1>8 DEF Flattens
<1>10. FlattenSeq(u) = h[Len(u)]
  BY <1>1, <1>9, FlattenIs
<1>11. FlattenSeq(t) = g[n]
  BY <1>3, FlattenIs DEF n
<1> QED
  BY <1>1, <1>7, <1>10, <1>11 DEF u

\* The plan cut where the port or the TLS mode changes.
CutRight(s, groups) ==
  /\ FlattenSeq(groups) = s
  /\ \A k \in DOMAIN groups : groups[k] # <<>> /\ \E m : Mode(groups[k]) = {m}
  /\ \A k \in DOMAIN groups : k > 1 => Mode(groups[k - 1]) # Mode(groups[k])

LEMMA ModeOfOne ==
  ASSUME NEW X, NEW c \in X
  PROVE  <<c>> \in Seq(X) /\ <<c>> # <<>> /\ Mode(<<c>>) = {ModeOf(c)}
<1>1. ToSet(<<c>>) = {c}
  BY DEF ToSet
<1> QED
  BY <1>1 DEF Mode

LEMMA ModeOfMore ==
  ASSUME NEW X, NEW u \in Seq(X), NEW c \in X
  PROVE  Append(u, c) # <<>> /\ Mode(Append(u, c)) = Mode(u) \cup {ModeOf(c)}
<1> DEFINE one == <<c>>
<1>1. one \in Seq(X) /\ ToSet(one) = {c}
  BY DEF ToSet
<1>2. Append(u, c) = u \o one
  BY AppendIsConcat
<1> HIDE DEF one
<1>3. ToSet(Append(u, c)) = ToSet(u) \cup {c}
  BY <1>1, <1>2, Joined
<1>4. Append(u, c) # <<>>
  BY AppendProperties
<1> QED
  BY <1>3, <1>4 DEF Mode

\* t is the first i members of s in their groups.
CutTo(s, t, i, X) ==
  /\ t \in Seq(Seq(X)) /\ (i > 0 => Len(t) > 0)
  /\ \A k \in 1..Len(t) : t[k] # <<>> /\ \E m : Mode(t[k]) = {m}
  /\ \A k \in 2..Len(t) : Mode(t[k - 1]) # Mode(t[k])
  /\ i > 0 => Mode(t[Len(t)]) = {ModeOf(s[i])}
  /\ Len(FlattenSeq(t)) = i /\ \A j \in 1..i : FlattenSeq(t)[j] = s[j]

LEMMA CutOn ==
  ASSUME NEW X, NEW s \in Seq(X), NEW i \in 1..Len(s), NEW t, CutTo(s, t, i - 1, X),
         NEW u, u = IF Joins(s, i) THEN Joining(t, s[i]) ELSE Append(t, <<s[i]>>)
  PROVE  CutTo(s, u, i, X)
<1> DEFINE n == Len(t)
           c == s[i]
           flat == FlattenSeq(t)
<1>1. /\ t \in Seq(Seq(X)) /\ (i - 1 > 0 => n > 0)
      /\ \A k \in 1..n : t[k] # <<>> /\ \E m : Mode(t[k]) = {m}
      /\ \A k \in 2..n : Mode(t[k - 1]) # Mode(t[k])
      /\ i - 1 > 0 => Mode(t[n]) = {ModeOf(s[i - 1])}
      /\ Len(flat) = i - 1 /\ \A j \in 1..(i - 1) : flat[j] = s[j]
  BY DEF CutTo
<1>2. c \in X /\ i \in Nat /\ i > 0
  OBVIOUS
<1>0. t \in Seq(Seq(X)) /\ n \in Nat
  BY <1>1, Members
<1>3. n \in Nat /\ \A k \in 1..n : t[k] \in Seq(X)
  BY <1>1, Members
<1>4. flat \in Seq(X)
  <2>1. <<c>> \in Seq(X)
    BY <1>2
  <2> QED
    BY <1>1, <2>1, FlattenAppended
<1> HIDE DEF n, c, flat
\* Either way the members grow by c.
<1>5. ASSUME NEW w, w = Append(flat, c)
      PROVE  Len(w) = i /\ \A j \in 1..i : w[j] = s[j]
  <2>1. Len(w) = i /\ w[i] = c /\ \A j \in 1..(i - 1) : w[j] = flat[j]
    BY <1>1, <1>2, <1>4, <1>5
  <2>2. \A j \in 1..i : j = i \/ j \in 1..(i - 1)
    BY <1>2
  <2> QED
    BY <1>1, <2>1, <2>2 DEF c
<1>6. CASE Joins(s, i)
  <2>1. /\ i - 1 > 0 /\ n > 0 /\ n \in 1..n
        /\ Mode(t[n]) = {ModeOf(c)}
    BY <1>1, <1>2, <1>3, <1>6 DEF Joins, ModeOf, c
  <2>2. u = Joining(t, c)
    BY <1>6 DEF c
  <2>3. /\ u \in Seq(Seq(X)) /\ Len(u) = n /\ u[n] = Append(t[n], c)
        /\ \A k \in 1..(n - 1) : u[k] = t[k]
    <3>1. n = Len(t)
      BY DEF n
    <3> QED
      <4>1. /\ Joining(t, c) \in Seq(Seq(X))
            /\ Len(t) \in Nat /\ Len(Joining(t, c)) = Len(t)
            /\ \A k \in 1..(Len(t) - 1) : Joining(t, c)[k] = t[k]
            /\ Len(t) > 0 => Joining(t, c)[Len(t)] = Append(t[Len(t)], c)
        BY <1>0, <1>2, JoiningTyped
      <4> QED
        BY <2>1, <2>2, <3>1, <4>1
  <2>4. u[n] # <<>> /\ Mode(u[n]) = {ModeOf(c)}
    <3> DEFINE last == t[n]
    <3>1. last \in Seq(X) /\ Mode(last) = {ModeOf(c)} /\ u[n] = Append(last, c)
      <4>1. last \in Seq(X)
        BY <1>3, <2>1
      <4> QED
        BY <2>1, <2>3, <4>1
    <3> HIDE DEF last
    <3> QED
      <4>1. Append(last, c) # <<>> /\ Mode(Append(last, c)) = Mode(last) \cup {ModeOf(c)}
        BY <1>2, <3>1, ModeOfMore, ZenonT(60)
      <4> QED
        BY <3>1, <4>1
  <2>5. FlattenSeq(u) = Append(flat, c)
    <3>1. Len(t) > 0
      BY <2>1 DEF n
    <3>2. FlattenSeq(Joining(t, c)) = Append(FlattenSeq(t), c)
      BY <1>0, <1>2, <3>1, FlattenJoined
    <3> QED
      BY <2>2, <3>2 DEF flat
  <2>6. \A k \in 1..n : k = n \/ (k \in 1..(n - 1) /\ u[k] = t[k])
    <3>1. \A k \in 1..n : k = n \/ k \in 1..(n - 1)
      BY <1>0
    <3>2. \A k \in 1..(n - 1) : u[k] = t[k]
      BY <2>3
    <3> QED
      BY <3>1, <3>2
  <2>7. \A k \in 1..n : Mode(u[k]) = Mode(t[k])
    BY <2>1, <2>4, <2>6
  <2>8. \A k \in 1..n : u[k] # <<>> /\ \E m : Mode(u[k]) = {m}
    <3> SUFFICES ASSUME NEW k \in 1..n PROVE u[k] # <<>> /\ \E m : Mode(u[k]) = {m}
      OBVIOUS
    <3>1. t[k] # <<>> /\ \E m : Mode(t[k]) = {m}
      BY <1>1
    <3>2. k = n \/ u[k] = t[k]
      BY <2>6
    <3> QED
      BY <2>4, <3>1, <3>2
  <2>9. \A k \in 2..n : k \in 1..n /\ k - 1 \in 1..n
    BY <1>0
  <2>10. \A k \in 2..n : Mode(u[k - 1]) # Mode(u[k])
    BY <1>1, <2>7, <2>9
  <2> QED
    BY ZenonT(60), <1>5, <2>1, <2>3, <2>4, <2>5, <2>8, <2>10 DEF CutTo, c
<1>7. CASE ~Joins(s, i)
  <2>1. u = Append(t, <<c>>)
    BY <1>7 DEF c
  <2>2. <<c>> \in Seq(X) /\ <<c>> # <<>> /\ Mode(<<c>>) = {ModeOf(c)}
    BY <1>2, ModeOfOne
  <2> DEFINE one == <<c>>
  <2> HIDE DEF one
  <2>3. one \in Seq(X) /\ one # <<>> /\ Mode(one) = {ModeOf(c)} /\ u = Append(t, one)
    BY <2>1, <2>2 DEF one
  <2>4. /\ u \in Seq(Seq(X)) /\ Len(u) = n + 1 /\ u[n + 1] = one
        /\ \A k \in 1..n : u[k] = t[k]
    <3>1. n = Len(t)
      BY DEF n
    <3> QED
      <4> DEFINE T == Seq(X)
      <4>1. t \in Seq(T) /\ one \in T
        BY <1>0, <2>3
      <4> HIDE DEF T
      <4>2. /\ Append(t, one) \in Seq(T) /\ Len(Append(t, one)) = Len(t) + 1
            /\ Append(t, one)[Len(t) + 1] = one /\ \A k \in 1..Len(t) : Append(t, one)[k] = t[k]
        BY <4>1, AppendProperties
      <4> QED
        BY <2>3, <3>1, <4>2 DEF T
  <2>5. FlattenSeq(u) = Append(flat, c)
    <3>1. FlattenSeq(u) = flat \o one
      BY <1>0, <2>3, FlattenAppended DEF flat
    <3> QED
      BY <1>2, <1>4, <3>1, AppendIsConcat DEF one
  <2>6. n > 0 => Mode(t[n]) # {ModeOf(c)}
    <3> SUFFICES ASSUME n > 0 PROVE Mode(t[n]) # {ModeOf(c)}
      OBVIOUS
    <3>1. CASE i > 1
      <4>1. Mode(t[n]) = {ModeOf(s[i - 1])}
        BY <1>1, <1>2, <3>1
      <4> QED
        <5>1. ModeOf(s[i - 1]) # ModeOf(c)
          BY <1>7, <3>1 DEF Joins, ModeOf, c
        <5> QED
          BY <4>1, <5>1
    <3>2. CASE ~ (i > 1)
      \* Nothing was there, so there is no group yet.
      <4>1. Len(flat) = 0
        BY <1>1, <1>2, <3>2
      <4>2. PICK g : Flattens(t, g, X)
        BY <1>1, FlattenExists
      <4>3. flat = g[n] /\ Grows(t, g, X)
        BY <1>1, <4>2, FlattenIs, FlattenGrows DEF flat, n
      <4>4. n \in 0..n /\ n \in 1..n
        BY <1>3
      <4>5. ToSet(flat) = UNION {ToSet(t[j]) : j \in 1..n}
        BY <4>3, <4>4 DEF Grows, n
      <4>6. ToSet(flat) = {}
        BY <1>4, <4>1 DEF ToSet
      <4>7. ToSet(t[n]) = {}
        BY <4>4, <4>5, <4>6
      <4>8. Mode(t[n]) = {}
        BY <4>7 DEF Mode
      <4> QED
        BY <4>8
    <3> QED
      BY <3>1, <3>2
  <2>7. \A k \in 1..(n + 1) : k = n + 1 \/ (k \in 1..n /\ u[k] = t[k])
    <3>1. \A k \in 1..(n + 1) : k = n + 1 \/ k \in 1..n
      BY <1>0
    <3>2. \A k \in 1..n : u[k] = t[k]
      BY <2>4
    <3> QED
      BY <3>1, <3>2
  <2>8. \A k \in 1..(n + 1) : u[k] # <<>> /\ \E m : Mode(u[k]) = {m}
    <3> SUFFICES ASSUME NEW k \in 1..(n + 1) PROVE u[k] # <<>> /\ \E m : Mode(u[k]) = {m}
      OBVIOUS
    <3>1. CASE k = n + 1
      <4>1. u[k] = one
        BY <2>4, <3>1
      <4> QED
        BY <2>3, <4>1
    <3>2. CASE k # n + 1
      <4>1. k \in 1..n /\ u[k] = t[k]
        BY <2>7, <3>2
      <4> QED
        BY <1>1, <4>1
    <3> QED
      BY <3>1, <3>2
  <2>9. ASSUME NEW k \in 2..(n + 1) PROVE Mode(u[k - 1]) # Mode(u[k])
    <3>1. k - 1 \in 1..n /\ u[k - 1] = t[k - 1]
      <4>1. k - 1 \in 1..n
        BY <1>0
      <4>2. \A j \in 1..n : u[j] = t[j]
        BY <2>4
      <4> QED
        BY <4>1, <4>2
    <3>2. CASE k = n + 1
      <4>1. k - 1 = n /\ n > 0
        BY <1>0, <3>1, <3>2
      <4>2. u[n + 1] = one
        BY <2>4
      <4> QED
        BY <2>3, <2>6, <3>1, <3>2, <4>1, <4>2
    <3>3. CASE k # n + 1
      <4>1. k \in 2..n /\ k \in 1..(n + 1)
        BY <1>0, <3>3
      <4>2. u[k] = t[k]
        BY <2>7, <3>3, <4>1
      <4>3. Mode(t[k - 1]) # Mode(t[k])
        BY <1>1, <4>1
      <4> QED
        BY <3>1, <4>2, <4>3
    <3> QED
      BY <3>2, <3>3
  <2>10. Len(u) > 0 /\ Len(u) = n + 1 /\ u \in Seq(Seq(X)) /\ Mode(u[Len(u)]) = {ModeOf(c)}
    <3>1. Len(u) = n + 1 /\ u \in Seq(Seq(X)) /\ u[n + 1] = one
      BY <2>4
    <3>2. Len(u) > 0
      BY <1>0, <3>1
    <3>3. Mode(u[Len(u)]) = Mode(one)
      BY <3>1
    <3> QED
      BY <2>3, <3>1, <3>2, <3>3
  <2>11. Len(FlattenSeq(u)) = i /\ \A j \in 1..i : FlattenSeq(u)[j] = s[j]
    BY <1>5, <2>5
  <2> QED
    BY <2>8, <2>9, <2>10, <2>11 DEF CutTo, c
<1> QED
  BY <1>6, <1>7

\* The groups of any plan are the plan cut right.
LEMMA GroupsOfPlan ==
  ASSUME NEW X, NEW s \in Seq(X)
  PROVE  GroupAttempts(s) \in Seq(Seq(X)) /\ CutRight(s, GroupAttempts(s))
<1> DEFINE n == Len(s)
           groups == GroupAttempts(s)
<1>1. n \in Nat
  OBVIOUS
<1>2. PICK g : Cuts(s, g, X)
  BY CutsExists
<1>3. groups = g[n]
  BY <1>2, GroupsAre
<1>4. /\ g[0] = <<>>
      /\ \A i \in 1..n : g[i] = IF Joins(s, i) THEN Joining(g[i - 1], s[i]) ELSE Append(g[i - 1], <<s[i]>>)
  BY <1>2 DEF Cuts
<1> HIDE DEF groups
<1> DEFINE S == {i \in 0..n : CutTo(s, g[i], i, X)}
<1>5. 0 \in S
  <2> DEFINE none == <<>>
  <2>1. none \in Seq(Seq(X)) /\ Len(none) = 0 /\ Len(FlattenSeq(none)) = 0
    BY DEF FlattenSeq
  <2> HIDE DEF none
  <2>2. CutTo(s, none, 0, X)
    BY <2>1 DEF CutTo
  <2>3. g[0] = none /\ 0 \in 0..n
    BY <1>1, <1>4 DEF none
  <2> QED
    BY <2>2, <2>3
<1>6. ASSUME NEW i \in 1..n, i - 1 \in S PROVE i \in S
  <2>1. CutTo(s, g[i - 1], i - 1, X)
    BY <1>6
  <2>2. g[i] = IF Joins(s, i) THEN Joining(g[i - 1], s[i]) ELSE Append(g[i - 1], <<s[i]>>)
    BY <1>4
  <2> DEFINE t == g[i - 1]
             u == g[i]
  <2> HIDE DEF t, u
  <2>3. CutTo(s, t, i - 1, X) /\ u = IF Joins(s, i) THEN Joining(t, s[i]) ELSE Append(t, <<s[i]>>)
    BY <2>1, <2>2 DEF t, u
  <2>4. CutTo(s, u, i, X)
    BY <2>3, CutOn
  <2>5. i \in 0..n
    BY <1>1
  <2> QED
    BY <2>4, <2>5 DEF u
<1> HIDE DEF S, n
<1>7. \A i \in 0..n : i \in S
  BY <1>1, <1>5, <1>6, Upwards
<1>8. CutTo(s, groups, n, X)
  <2>1. n \in S
    BY <1>1, <1>7
  <2> QED
    BY <1>3, <2>1 DEF S
<1>9. groups \in Seq(Seq(X)) /\ Len(FlattenSeq(groups)) = n /\ \A j \in 1..n : FlattenSeq(groups)[j] = s[j]
  BY <1>8 DEF CutTo
<1>10. FlattenSeq(groups) = s
  <2> DEFINE flat == FlattenSeq(groups)
  <2>1. flat \in Seq(X)
    <3>1. <<>> \in Seq(X)
      OBVIOUS
    <3> QED
      BY <1>9, <3>1, FlattenAppended
  <2>2. Len(flat) = Len(s) /\ \A j \in 1..Len(flat) : flat[j] = s[j]
    BY <1>9 DEF n
  <2> HIDE DEF flat
  <2>3. flat = s
    BY <2>1, <2>2, SeqEqual
  <2> QED
    BY <2>3 DEF flat
<1>11. DOMAIN groups = 1..Len(groups) /\ Len(groups) \in Nat
  BY <1>9, LenProperties
<1>12. /\ \A k \in DOMAIN groups : groups[k] # <<>> /\ \E m : Mode(groups[k]) = {m}
       /\ \A k \in DOMAIN groups : k > 1 => Mode(groups[k - 1]) # Mode(groups[k])
  <2>1. /\ \A k \in 1..Len(groups) : groups[k] # <<>> /\ \E m : Mode(groups[k]) = {m}
        /\ \A k \in 2..Len(groups) : Mode(groups[k - 1]) # Mode(groups[k])
    BY <1>8 DEF CutTo
  <2>2. \A k \in 1..Len(groups) : k > 1 => k \in 2..Len(groups)
    BY <1>11
  <2> QED
    BY <1>11, <2>1, <2>2
<1> QED
  BY <1>9, <1>10, <1>12 DEF CutRight, groups

-----------------------------------------------------------------------------
(* The plan of the account's server. *)

\* The plan is cut into groups, each a sequence of its own members, none empty.
GroupsAreSound ==
  /\ Groups \in Seq(ToSet(Groups))
  /\ \A i \in DOMAIN Groups : Groups[i] \in Seq(ToSet(Groups[i])) /\ Groups[i] # <<>>

LEMMA OwnMembers ==
  ASSUME NEW X, NEW s \in Seq(X)
  PROVE  s \in Seq(ToSet(s)) /\ DOMAIN s = 1..Len(s) /\ Len(s) \in Nat
<1>1. s = [i \in 1..Len(s) |-> s[i]] /\ Len(s) \in Nat /\ DOMAIN s = 1..Len(s)
  BY LenProperties
<1>2. \A i \in 1..Len(s) : s[i] \in ToSet(s)
  BY <1>1 DEF ToSet
<1> DEFINE n == Len(s)
           T == ToSet(s)
<1> HIDE DEF n, T
<1>3. s = [i \in 1..n |-> s[i]] /\ n \in Nat /\ \A i \in 1..n : s[i] \in T
  BY <1>1, <1>2 DEF n, T
<1>4. s \in [1..n -> T]
  BY <1>3
<1>5. s \in Seq(T)
  BY <1>3, <1>4, SeqDef
<1> QED
  BY <1>1, <1>5 DEF T

LEMMA GroupsSound ==
  ASSUME dns \in Resolved
  PROVE  GroupsAreSound
<1>1. Groups \in Seq(Seq(Candidates)) /\ CutRight(Attempts, Groups)
  BY AttemptsResolved, GroupsOfPlan DEF Groups
<1>2. Groups \in Seq(ToSet(Groups)) /\ DOMAIN Groups = 1..Len(Groups)
  BY <1>1, OwnMembers
<1>3. ASSUME NEW i \in DOMAIN Groups PROVE Groups[i] \in Seq(ToSet(Groups[i])) /\ Groups[i] # <<>>
  <2>1. Groups[i] \in Seq(Candidates)
    BY <1>1, <1>2
  <2>2. Groups[i] # <<>>
    BY <1>1 DEF CutRight
  <2> QED
    BY <2>1, <2>2, OwnMembers
<1> QED
  BY <1>2, <1>3 DEF GroupsAreSound

LEMMA PlanCut ==
  ASSUME dns \in Resolved
  PROVE  GroupsCut(Attempts)
<1> DEFINE groups == GroupAttempts(Attempts)
<1>1. CutRight(Attempts, groups)
  BY AttemptsResolved, GroupsOfPlan
<1> HIDE DEF groups
<1>2. \A k \in DOMAIN groups : Cardinality(Mode(groups[k])) = 1
  <2> SUFFICES ASSUME NEW k \in DOMAIN groups PROVE Cardinality(Mode(groups[k])) = 1
    OBVIOUS
  <2>1. PICK m : Mode(groups[k]) = {m}
    BY <1>1 DEF CutRight
  <2> QED
    BY <2>1, FS_Singleton
<1>3. \A group : {<<c.port, c.tls>> : c \in ToSet(group)} = Mode(group)
  BY DEF Mode, ModeOf
<1> QED
  BY <1>1, <1>2, <1>3 DEF GroupsCut, CutRight, groups

LEMMA NoGroups == GroupAttempts(<<>>) = <<>>
<1> DEFINE none == <<>>
<1>1. none \in Seq(Candidates) /\ Len(none) = 0
  OBVIOUS
<1> HIDE DEF none
<1>2. PICK g : Cuts(none, g, Candidates)
  BY <1>1, CutsExists
<1>3. GroupAttempts(none) = g[0]
  BY <1>1, <1>2, GroupsAre
<1> QED
  BY <1>2, <1>3 DEF Cuts, none
=============================================================================
