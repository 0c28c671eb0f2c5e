----------------------------- MODULE EditProofs -----------------------------
(* Theorems about PacketLoop where it edits HTTP requests, and about the   *)
(* name it keeps apart from the start of a request.                        *)
EXTENDS PacketLoopProofs, FiniteSetTheorems, FunctionTheorems

-----------------------------------------------------------------------------
(* Texts that say the same.                                                *)

(* f takes the n bytes of s after m to those of t after k: none is lost,   *)
(* none is doubled, and those that are not spaces stay in their order.     *)
Moves(f, s, m, t, k, n) ==
    /\ f \in [1..n -> 1..n]
    /\ \A i, j \in 1..n : f[i] = f[j] => i = j
    /\ \A j \in 1..n : \E i \in 1..n : f[i] = j
    /\ \A i \in 1..n : Folded(s[m + i]) = Folded(t[k + f[i]])
    /\ \A i, j \in 1..n :
          i < j /\ s[m + i] # "space" /\ s[m + j] # "space" => f[i] < f[j]

Aligned(s, m, t, k, n) == \E f : Moves(f, s, m, t, k, n)

LEMMA FoldedSpace ==
    ASSUME NEW b, NEW c, Folded(b) = Folded(c)
    PROVE  b = "space" <=> c = "space"
BY DEF Folded

LEMMA AlignedInPlace ==
    ASSUME NEW s, NEW m, NEW t, NEW k, NEW n \in Nat,
           \A i \in 1..n : Folded(s[m + i]) = Folded(t[k + i])
    PROVE  Aligned(s, m, t, k, n)
<1> DEFINE f == [i \in 1..n |-> i]
<1>1. Moves(f, s, m, t, k, n)
  BY DEF Moves
<1> QED
  BY <1>1 DEF Aligned

(* Two neighbouring parts.                                                 *)
LEMMA AlignedJoin ==
    ASSUME NEW s, NEW m \in Nat, NEW t, NEW k \in Nat, NEW n \in Nat, NEW o \in Nat,
           Aligned(s, m, t, k, n), Aligned(s, m + n, t, k + n, o)
    PROVE  Aligned(s, m, t, k, n + o)
<1>1. PICK f : Moves(f, s, m, t, k, n)
  BY DEF Aligned
<1>2. PICK g : Moves(g, s, m + n, t, k + n, o)
  BY DEF Aligned
<1> DEFINE h == [i \in 1..(n + o) |-> IF i <= n THEN f[i] ELSE n + g[i - n]]
<1>3. \A i \in 1..n : i \in 1..(n + o) /\ h[i] = f[i] /\ h[i] \in 1..n
  BY <1>1 DEF Moves
<1>4. ASSUME NEW i \in 1..o
      PROVE  /\ n + i \in 1..(n + o)
             /\ g[i] \in 1..o
             /\ h[n + i] = n + g[i]
             /\ h[n + i] > n /\ h[n + i] \in 1..(n + o)
  <2>1. n + i \in 1..(n + o) /\ ~(n + i <= n) /\ (n + i) - n = i
    OBVIOUS
  <2>2. g[i] \in 1..o
    BY <1>2 DEF Moves
  <2>3. h[n + i] = n + g[i]
    BY <2>1
  <2> HIDE DEF h
  <2> QED
    BY <2>1, <2>2, <2>3
<1>5. \A i \in 1..(n + o) : i \in 1..n \/ \E j \in 1..o : i = n + j
  <2> SUFFICES ASSUME NEW i \in 1..(n + o), i > n
               PROVE  \E j \in 1..o : i = n + j
    OBVIOUS
  <2>1. i - n \in 1..o /\ i = n + (i - n)
    OBVIOUS
  <2> QED
    BY <2>1
<1>6. h \in [1..(n + o) -> 1..(n + o)]
  <2>1. \A i \in 1..(n + o) : h[i] \in 1..(n + o)
    <3> HIDE DEF h
    <3>1. \A i \in 1..n : h[i] \in 1..(n + o)
      BY <1>3
    <3> QED
      BY <1>4, <1>5, <3>1
  <2>2. h = [i \in 1..(n + o) |-> h[i]]
    OBVIOUS
  <2> HIDE DEF h
  <2> QED
    BY <2>1, <2>2
<1> HIDE DEF h
<1>7. \A i, j \in 1..(n + o) : h[i] = h[j] => i = j
  <2>1. \A i, j \in 1..n : h[i] = h[j] => i = j
    BY <1>1, <1>3 DEF Moves
  <2>2. \A i, j \in 1..o : h[n + i] = h[n + j] => i = j
    <3>1. \A i, j \in 1..o : g[i] = g[j] => i = j
      BY <1>2 DEF Moves
    <3> SUFFICES ASSUME NEW i \in 1..o, NEW j \in 1..o, h[n + i] = h[n + j]
                 PROVE  i = j
      OBVIOUS
    <3>2. n + g[i] = n + g[j] /\ g[i] \in Int /\ g[j] \in Int
      BY <1>4
    <3>3. g[i] = g[j]
      BY <3>2
    <3> QED
      BY <3>1, <3>3
  <2>3. \A i \in 1..n, j \in 1..o : h[i] # h[n + j]
    <3> SUFFICES ASSUME NEW i \in 1..n, NEW j \in 1..o
                 PROVE  h[i] # h[n + j]
      OBVIOUS
    <3>1. h[i] \in 1..n
      BY <1>3
    <3>2. h[n + j] > n /\ h[n + j] \in Int
      BY <1>4
    <3> QED
      BY <3>1, <3>2
  <2> SUFFICES ASSUME NEW i \in 1..(n + o), NEW j \in 1..(n + o), h[i] = h[j]
               PROVE  i = j
    OBVIOUS
  <2>4. CASE i \in 1..n
    BY <1>5, <2>1, <2>3, <2>4
  <2>5. CASE \E x \in 1..o : i = n + x
    BY <1>5, <2>2, <2>3, <2>5
  <2> QED
    BY <1>5, <2>4, <2>5
<1>8. \A j \in 1..(n + o) : \E i \in 1..(n + o) : h[i] = j
  <2> SUFFICES ASSUME NEW j \in 1..(n + o)
               PROVE  \E i \in 1..(n + o) : h[i] = j
    OBVIOUS
  <2>1. CASE j \in 1..n
    BY <1>1, <1>3, <2>1 DEF Moves
  <2>2. ASSUME NEW x \in 1..o, j = n + x
        PROVE  \E i \in 1..(n + o) : h[i] = j
    <3>1. PICK i \in 1..o : g[i] = x
      BY <1>2 DEF Moves
    <3> QED
      BY <1>4, <2>2, <3>1
  <2> QED
    BY <1>5, <2>1, <2>2
<1>9. \A i \in 1..(n + o) : Folded(s[m + i]) = Folded(t[k + h[i]])
  <2>1. \A i \in 1..n : Folded(s[m + i]) = Folded(t[k + h[i]])
    BY <1>1, <1>3 DEF Moves
  <2>2. ASSUME NEW i \in 1..o
        PROVE  Folded(s[m + (n + i)]) = Folded(t[k + h[n + i]])
    <3>1. g[i] \in 1..o /\ Folded(s[(m + n) + i]) = Folded(t[(k + n) + g[i]])
      BY <1>2 DEF Moves
    <3>2. (m + n) + i = m + (n + i) /\ (k + n) + g[i] = k + h[n + i]
      BY <1>4, <3>1
    <3> QED
      BY <3>1, <3>2
  <2> QED
    BY <1>5, <2>1, <2>2
<1>10. \A i, j \in 1..(n + o) :
          i < j /\ s[m + i] # "space" /\ s[m + j] # "space" => h[i] < h[j]
  <2>1. \A i, j \in 1..n :
           i < j /\ s[m + i] # "space" /\ s[m + j] # "space" => h[i] < h[j]
    BY <1>1, <1>3 DEF Moves
  <2>2. ASSUME NEW i \in 1..o, NEW j \in 1..o, n + i < n + j,
               s[m + (n + i)] # "space", s[m + (n + j)] # "space"
        PROVE  h[n + i] < h[n + j]
    <3>1. m + (n + i) = (m + n) + i /\ m + (n + j) = (m + n) + j /\ i < j
      BY <2>2
    <3>2. g[i] < g[j]
      <4>1. s[(m + n) + i] # "space" /\ s[(m + n) + j] # "space"
        BY <2>2, <3>1
      <4> QED
        BY <1>2, <3>1, <4>1 DEF Moves
    <3>3. /\ h[n + i] = n + g[i] /\ h[n + j] = n + g[j]
          /\ g[i] \in Int /\ g[j] \in Int
      BY <1>4
    <3> QED
      BY <3>2, <3>3
  <2>3. \A i \in 1..n, j \in 1..o : h[i] < h[n + j] /\ ~(n + j < i)
    <3> SUFFICES ASSUME NEW i \in 1..n, NEW j \in 1..o
                 PROVE  h[i] < h[n + j] /\ ~(n + j < i)
      OBVIOUS
    <3>1. h[i] \in 1..n
      BY <1>3
    <3>2. h[n + j] > n /\ h[n + j] \in Int
      BY <1>4
    <3> QED
      BY <3>1, <3>2
  <2> SUFFICES ASSUME NEW i \in 1..(n + o), NEW j \in 1..(n + o),
                      i < j, s[m + i] # "space", s[m + j] # "space"
               PROVE  h[i] < h[j]
    OBVIOUS
  <2>4. CASE i \in 1..n
    BY <1>5, <2>1, <2>3, <2>4
  <2>5. CASE \E x \in 1..o : i = n + x
    BY <1>5, <2>2, <2>3, <2>5
  <2> QED
    BY <1>5, <2>4, <2>5
<1>11. Moves(h, s, m, t, k, n + o)
  BY <1>6, <1>7, <1>8, <1>9, <1>10 DEF Moves
<1> QED
  BY <1>11 DEF Aligned

(* Only the bytes matter.                                                  *)
LEMMA AlignedSame ==
    ASSUME NEW s, NEW m, NEW t, NEW k, NEW n \in Nat, Aligned(s, m, t, k, n),
           NEW u, NEW l, \A i \in 1..n : u[l + i] = s[m + i],
           NEW v, NEW o, \A i \in 1..n : v[o + i] = t[k + i]
    PROVE  Aligned(u, l, v, o, n)
<1>1. PICK f : Moves(f, s, m, t, k, n)
  BY DEF Aligned
<1>2. Moves(f, u, l, v, o, n)
  BY <1>1 DEF Moves
<1> QED
  BY <1>2 DEF Aligned

(* f counts the bytes that are not spaces alike on both sides.             *)
LEMMA MovesKeepRank ==
    ASSUME NEW s, NEW t, NEW n \in Nat, DOMAIN s = 1..n, DOMAIN t = 1..n,
           NEW f, Moves(f, s, 0, t, 0, n), NEW i \in Inked(s)
    PROVE  /\ f[i] \in Inked(t)
           /\ Rank(s, i) = Rank(t, f[i])
<1> DEFINE A == {j \in Inked(s) : j <= i}
           B == {j \in Inked(t) : j <= f[i]}
           g == [j \in A |-> f[j]]
<1>1. ASSUME NEW j \in 1..n
      PROVE  f[j] \in 1..n /\ Folded(s[j]) = Folded(t[f[j]])
  <2>1. f[j] \in 1..n /\ Folded(s[0 + j]) = Folded(t[0 + f[j]])
    BY DEF Moves
  <2>2. 0 + j = j /\ 0 + f[j] = f[j]
    BY <2>1
  <2> QED
    BY <2>1, <2>2
<1>2. \A j \in 1..n : j \in Inked(s) <=> f[j] \in Inked(t)
  <2> SUFFICES ASSUME NEW j \in 1..n
               PROVE  j \in Inked(s) <=> f[j] \in Inked(t)
    OBVIOUS
  <2>1. s[j] = "space" <=> t[f[j]] = "space"
    BY <1>1, FoldedSpace
  <2> QED
    BY <1>1, <2>1 DEF Inked
<1>3. \A j, k \in 1..n : j \in Inked(s) /\ k \in Inked(s) /\ j < k => f[j] < f[k]
  <2> SUFFICES ASSUME NEW j \in 1..n, NEW k \in 1..n,
                      s[j] # "space", s[k] # "space", j < k
               PROVE  f[j] < f[k]
    BY DEF Inked
  <2>1. 0 + j = j /\ 0 + k = k
    OBVIOUS
  <2>2. s[0 + j] # "space" /\ s[0 + k] # "space"
    BY <2>1
  <2> QED
    BY <2>2 DEF Moves
<1>4. Inked(s) \subseteq 1..n /\ Inked(t) \subseteq 1..n
  BY DEF Inked
<1>5. g \in [A -> B]
  <2> SUFFICES ASSUME NEW j \in A
               PROVE  f[j] \in B
    OBVIOUS
  <2>1. j \in 1..n /\ i \in 1..n /\ j <= i
    BY <1>4
  <2>2. f[j] \in Inked(t) /\ f[j] \in 1..n /\ f[i] \in 1..n
    BY <1>1, <1>2, <2>1
  <2>3. f[j] <= f[i]
    <3>1. CASE j = i
      BY <2>2, <3>1
    <3>2. CASE j < i
      BY <1>3, <2>1, <2>2, <3>2
    <3> QED
      BY <2>1, <3>1, <3>2
  <2> QED
    BY <2>2, <2>3
<1>6. \A j, k \in A : g[j] = g[k] => j = k
  <2>1. \A j, k \in 1..n : f[j] = f[k] => j = k
    BY DEF Moves
  <2> QED
    BY <1>4, <2>1
<1>7. \A x \in B : \E j \in A : g[j] = x
  <2> SUFFICES ASSUME NEW x \in B
               PROVE  \E j \in A : g[j] = x
    OBVIOUS
  <2>1. x \in 1..n /\ x <= f[i] /\ i \in 1..n
    BY <1>4
  <2>2. PICK j \in 1..n : f[j] = x
    BY <2>1 DEF Moves
  <2>3. j \in Inked(s)
    BY <1>2, <2>2
  <2>4. j <= i
    <3> SUFFICES ASSUME i < j PROVE FALSE
      BY <2>1
    <3>1. f[i] < f[j] /\ f[i] \in 1..n
      BY <1>1, <1>3, <2>1, <2>3
    <3> QED
      BY <2>1, <2>2, <3>1
  <2>5. j \in A
    BY <2>3, <2>4
  <2> QED
    BY <2>2, <2>5
<1>8. IsFiniteSet(A)
  <2>1. A \subseteq 1..n
    BY <1>4
  <2>2. IsFiniteSet(1..n)
    BY FS_Interval
  <2> HIDE DEF A
  <2> QED
    BY <2>1, <2>2, FS_Subset
<1>9. ExistsBijection(A, B)
  <2> HIDE DEF A, B, g
  <2>1. g \in Bijection(A, B)
    BY <1>5, <1>6, <1>7, Fun_IsBij
  <2> QED
    BY <2>1 DEF ExistsBijection
<1>10. Cardinality(A) = Cardinality(B)
  <2> HIDE DEF A, B
  <2> QED
    BY <1>8, <1>9, FS_Bijection
<1> QED
  BY <1>2, <1>4, <1>10 DEF Rank

(* Aligned texts have the same meaning.                                    *)
LEMMA AlignedMeaning ==
    ASSUME NEW s, NEW t, NEW n \in Nat, DOMAIN s = 1..n, DOMAIN t = 1..n,
           Aligned(s, 0, t, 0, n)
    PROVE  Meaning(s) = Meaning(t)
<1>1. PICK f : Moves(f, s, 0, t, 0, n)
  BY DEF Aligned
<1> DEFINE Said(bytes, i) == <<Rank(bytes, i), Folded(bytes[i])>>
<1>2. ASSUME NEW i \in Inked(s)
      PROVE  f[i] \in Inked(t) /\ Said(s, i) = Said(t, f[i])
  <2>1. /\ f[i] \in Inked(t)
        /\ Rank(s, i) = Rank(t, f[i])
    BY <1>1, <1>2, MovesKeepRank
  <2>2. Folded(s[i]) = Folded(t[f[i]])
    <3>1. i \in 1..n
      BY DEF Inked
    <3>2. f[i] \in 1..n /\ Folded(s[0 + i]) = Folded(t[0 + f[i]])
      BY <1>1, <3>1 DEF Moves
    <3>3. 0 + i = i /\ 0 + f[i] = f[i]
      BY <3>1, <3>2
    <3> QED
      BY <3>2, <3>3
  <2> QED
    BY <2>1, <2>2
<1>3. ASSUME NEW x \in Inked(t)
      PROVE  \E i \in Inked(s) : x = f[i]
  <2>1. x \in 1..n /\ t[x] # "space"
    BY DEF Inked
  <2>2. PICK i \in 1..n : f[i] = x
    BY <1>1, <2>1 DEF Moves
  <2>3. Folded(s[0 + i]) = Folded(t[0 + f[i]]) /\ 0 + i = i /\ 0 + x = x
    BY <1>1, <2>1 DEF Moves
  <2>4. s[i] # "space"
    BY <2>1, <2>2, <2>3, FoldedSpace
  <2> QED
    BY <2>2, <2>4 DEF Inked
<1>4. Meaning(s) = {Said(s, i) : i \in Inked(s)}
  BY DEF Meaning
<1>5. Meaning(t) = {Said(t, i) : i \in Inked(t)}
  BY DEF Meaning
<1> HIDE DEF Said
<1> QED
  BY <1>2, <1>3, <1>4, <1>5

-----------------------------------------------------------------------------
(* The edits.                                                              *)

LEMMA ConcatAt ==
    ASSUME NEW S, NEW s \in Seq(S), NEW t \in Seq(S)
    PROVE  /\ \A i \in 1..Len(s) : (s \o t)[i] = s[i]
           /\ \A i \in 1..Len(t) : (s \o t)[Len(s) + i] = t[i]
OBVIOUS

LEMMA FourPartsAt ==
    ASSUME NEW S, NEW s \in Seq(S), NEW t \in Seq(S), NEW u \in Seq(S), NEW v \in Seq(S),
           NEW w, w = s \o t \o u \o v
    PROVE  /\ \A i \in 1..Len(s) : w[i] = s[i]
           /\ \A i \in 1..Len(t) : w[Len(s) + i] = t[i]
           /\ \A i \in 1..Len(u) : w[Len(s) + Len(t) + i] = u[i]
           /\ \A i \in 1..Len(v) : w[Len(s) + Len(t) + Len(u) + i] = v[i]
<1> DEFINE st == s \o t  stu == st \o u  stuv == stu \o v
<1>1. /\ st \in Seq(S) /\ Len(st) = Len(s) + Len(t)
      /\ \A i \in 1..Len(s) : st[i] = s[i]
      /\ \A i \in 1..Len(t) : st[Len(s) + i] = t[i]
  BY ConcatLength, ConcatAt
<1> HIDE DEF st
<1>2. /\ stu \in Seq(S) /\ Len(stu) = Len(st) + Len(u)
      /\ \A i \in 1..Len(st) : stu[i] = st[i]
      /\ \A i \in 1..Len(u) : stu[Len(st) + i] = u[i]
  <2>1. st \in Seq(S)
    BY <1>1
  <2>2. stu \in Seq(S) /\ Len(stu) = Len(st) + Len(u)
    BY <2>1, ConcatLength
  <2>3. /\ \A i \in 1..Len(st) : stu[i] = st[i]
        /\ \A i \in 1..Len(u) : stu[Len(st) + i] = u[i]
    BY <2>1, ConcatAt
  <2> QED
    BY <2>2, <2>3
<1> HIDE DEF stu
<1>3. /\ \A i \in 1..Len(stu) : stuv[i] = stu[i]
      /\ \A i \in 1..Len(v) : stuv[Len(stu) + i] = v[i]
  BY <1>2, ConcatAt
<1>4. w = stuv
  BY DEF st, stu
<1> HIDE DEF stuv
<1>5. /\ Len(s) \in Nat /\ Len(t) \in Nat /\ Len(u) \in Nat /\ Len(v) \in Nat
  OBVIOUS
<1>6. \A i \in 1..Len(s) : stuv[i] = s[i]
  <2> SUFFICES ASSUME NEW i \in 1..Len(s) PROVE stuv[i] = s[i]
    OBVIOUS
  <2>1. i \in 1..Len(st) /\ i \in 1..Len(stu)
    BY <1>1, <1>2, <1>5
  <2> QED
    BY <1>1, <1>2, <1>3, <2>1
<1>7. \A i \in 1..Len(t) : stuv[Len(s) + i] = t[i]
  <2> SUFFICES ASSUME NEW i \in 1..Len(t) PROVE stuv[Len(s) + i] = t[i]
    OBVIOUS
  <2>1. Len(s) + i \in 1..Len(st) /\ Len(s) + i \in 1..Len(stu)
    BY <1>1, <1>2, <1>5
  <2> QED
    BY <1>1, <1>2, <1>3, <2>1
<1>8. \A i \in 1..Len(u) : stuv[Len(s) + Len(t) + i] = u[i]
  <2> SUFFICES ASSUME NEW i \in 1..Len(u) PROVE stuv[Len(s) + Len(t) + i] = u[i]
    OBVIOUS
  <2>1. Len(st) + i \in 1..Len(stu) /\ Len(st) + i = Len(s) + Len(t) + i
    BY <1>1, <1>2, <1>5
  <2> QED
    BY <1>2, <1>3, <2>1
<1>9. \A i \in 1..Len(v) : stuv[Len(s) + Len(t) + Len(u) + i] = v[i]
  <2>1. Len(stu) = Len(s) + Len(t) + Len(u)
    BY <1>1, <1>2
  <2> QED
    BY <1>3, <2>1
<1> QED
  BY <1>4, <1>6, <1>7, <1>8, <1>9

(* What is where once the space has moved.                                 *)
Shifted(data, at, to, i) ==
    IF to < at
    THEN IF i < to \/ i >= at THEN data[i]
         ELSE IF i = to THEN "space" ELSE data[i - 1]
    ELSE IF i < at - 1 \/ i > to THEN data[i]
         ELSE IF i = to THEN "space" ELSE data[i + 1]

LEMMA SpaceMovedAt ==
    ASSUME NEW data \in Seq(Byte), NEW at \in 2..Len(data), NEW to \in 1..Len(data),
           NEW i \in 1..Len(data)
    PROVE  SpaceMoved(data, at, to)[i] = Shifted(data, at, to, i)
<1> DEFINE sp == <<"space">>
<1>1. sp \in Seq(Byte) /\ Len(sp) = 1 /\ sp[1] = "space"
  BY SpaceIsSequence
<1> HIDE DEF sp
<1>2. CASE to < at
  <2> DEFINE a == SubSeq(data, 1, to - 1)
             b == SubSeq(data, to, at - 2)
             c == SubSeq(data, at, Len(data))
             whole == a \o sp \o b \o c
  <2>1. /\ a \in Seq(Byte) /\ Len(a) = to - 1
        /\ \A j \in 1..Len(a) : a[j] = data[j]
    BY <1>2
  <2>2. /\ b \in Seq(Byte) /\ Len(b) = at - 1 - to
        /\ \A j \in 1..Len(b) : b[j] = data[to - 1 + j]
    BY <1>2
  <2>3. /\ c \in Seq(Byte) /\ Len(c) = Len(data) + 1 - at
        /\ \A j \in 1..Len(c) : c[j] = data[at - 1 + j]
    OBVIOUS
  <2>4. SpaceMoved(data, at, to) = whole
    BY <1>2 DEF SpaceMoved, sp
  <2> HIDE DEF a, b, c
  <2>5. /\ \A j \in 1..Len(a) : whole[j] = a[j]
        /\ \A j \in 1..Len(sp) : whole[Len(a) + j] = sp[j]
        /\ \A j \in 1..Len(b) : whole[Len(a) + Len(sp) + j] = b[j]
        /\ \A j \in 1..Len(c) : whole[Len(a) + Len(sp) + Len(b) + j] = c[j]
    <3>1. /\ a \in Seq(Byte) /\ b \in Seq(Byte) /\ c \in Seq(Byte)
          /\ sp \in Seq(Byte)
      BY <1>1, <2>1, <2>2, <2>3
    <3>2. whole = a \o sp \o b \o c
      OBVIOUS
    <3> HIDE DEF whole
    <3> QED
      BY <3>1, <3>2, FourPartsAt, SMTT(90)
  <2> HIDE DEF whole
  <2>6. CASE i < to
    <3>1. i \in 1..Len(a)
      BY <2>1, <2>6
    <3> QED
      BY <1>2, <2>1, <2>4, <2>5, <2>6, <3>1 DEF Shifted
  <2>7. CASE i = to
    <3>1. 1 \in 1..Len(sp) /\ Len(a) + 1 = i
      BY <1>1, <2>1, <2>7
    <3>2. whole[i] = "space"
      BY <1>1, <2>5, <3>1
    <3> QED
      BY <1>2, <2>4, <2>7, <3>2 DEF Shifted
  <2>8. CASE i > to /\ i < at
    <3> DEFINE j == i - to
    <3>1. j \in 1..Len(b) /\ Len(a) + Len(sp) + j = i /\ to - 1 + j = i - 1
      BY <1>1, <2>1, <2>2, <2>8
    <3> HIDE DEF j
    <3>2. whole[i] = data[i - 1]
      BY <2>2, <2>5, <3>1
    <3> QED
      BY <1>2, <2>4, <2>8, <3>2 DEF Shifted
  <2>9. CASE i >= at
    <3> DEFINE j == i - at + 1
    <3>1. j \in 1..Len(c) /\ Len(a) + Len(sp) + Len(b) + j = i /\ at - 1 + j = i
      BY <1>1, <2>1, <2>2, <2>3, <2>9
    <3> HIDE DEF j
    <3>2. whole[i] = data[i]
      BY <2>3, <2>5, <3>1
    <3> QED
      BY <1>2, <2>4, <2>9, <3>2 DEF Shifted
  <2> QED
    BY <1>2, <2>6, <2>7, <2>8, <2>9
<1>3. CASE to >= at
  <2> DEFINE a == SubSeq(data, 1, at - 2)
             b == SubSeq(data, at, to)
             c == SubSeq(data, to + 1, Len(data))
             whole == a \o b \o sp \o c
  <2>1. /\ a \in Seq(Byte) /\ Len(a) = at - 2
        /\ \A j \in 1..Len(a) : a[j] = data[j]
    BY <1>3
  <2>2. /\ b \in Seq(Byte) /\ Len(b) = to + 1 - at
        /\ \A j \in 1..Len(b) : b[j] = data[at - 1 + j]
    BY <1>3
  <2>3. /\ c \in Seq(Byte) /\ Len(c) = Len(data) - to
        /\ \A j \in 1..Len(c) : c[j] = data[to + j]
    OBVIOUS
  <2>4. SpaceMoved(data, at, to) = whole
    <3>1. ~(to < at)
      BY <1>3
    <3> QED
      BY <3>1 DEF SpaceMoved, sp
  <2> HIDE DEF a, b, c
  <2>5. /\ \A j \in 1..Len(a) : whole[j] = a[j]
        /\ \A j \in 1..Len(b) : whole[Len(a) + j] = b[j]
        /\ \A j \in 1..Len(sp) : whole[Len(a) + Len(b) + j] = sp[j]
        /\ \A j \in 1..Len(c) : whole[Len(a) + Len(b) + Len(sp) + j] = c[j]
    <3>1. /\ a \in Seq(Byte) /\ b \in Seq(Byte) /\ c \in Seq(Byte)
          /\ sp \in Seq(Byte)
      BY <1>1, <2>1, <2>2, <2>3
    <3>2. whole = a \o b \o sp \o c
      OBVIOUS
    <3> HIDE DEF whole
    <3> QED
      BY <3>1, <3>2, FourPartsAt, SMTT(90)
  <2> HIDE DEF whole
  <2>6. CASE i < at - 1
    <3>1. i \in 1..Len(a)
      BY <2>1, <2>6
    <3> QED
      BY <1>3, <2>1, <2>4, <2>5, <2>6, <3>1 DEF Shifted
  <2>7. CASE i >= at - 1 /\ i < to
    <3> DEFINE j == i - (at - 2)
    <3>1. j \in 1..Len(b) /\ Len(a) + j = i /\ at - 1 + j = i + 1
      BY <2>1, <2>2, <2>7
    <3> HIDE DEF j
    <3>2. whole[i] = data[i + 1]
      BY <2>2, <2>5, <3>1
    <3> QED
      BY <1>3, <2>4, <2>7, <3>2 DEF Shifted
  <2>8. CASE i = to
    <3>1. 1 \in 1..Len(sp) /\ Len(a) + Len(b) + 1 = i
      BY <1>1, <2>1, <2>2, <2>8
    <3>2. whole[i] = "space"
      BY <1>1, <2>5, <3>1
    <3> QED
      BY <1>3, <2>4, <2>8, <3>2 DEF Shifted
  <2>9. CASE i > to
    <3> DEFINE j == i - to
    <3>1. j \in 1..Len(c) /\ Len(a) + Len(b) + Len(sp) + j = i /\ to + j = i
      BY <1>1, <2>1, <2>2, <2>3, <2>9
    <3> HIDE DEF j
    <3>2. whole[i] = data[i]
      BY <2>3, <2>5, <3>1
    <3> QED
      BY <1>3, <2>4, <2>9, <3>2 DEF Shifted
  <2> QED
    BY <1>3, <2>6, <2>7, <2>8, <2>9
<1> QED
  BY <1>2, <1>3

(* The value of a header comes after its name and a space.                 *)
LEMMA HeaderBeforeValue ==
    ASSUME NEW data \in Seq(Byte), NEW name,
           NEW value \in find_header_and_get_info(data, name)
    PROVE  data[value[1] - 2] = name /\ data[value[1] - 1] = "space"
<1> DEFINE at == value[1]
<1>1. at \in 4..Len(data)
  BY ValueInData
<1>2. SubSeq(data, at - 3, at - 1) = <<"eol", name, "space">>
  BY DEF find_header_and_get_info
<1> HIDE DEF at
<1> DEFINE part == SubSeq(data, at - 3, at - 1)
<1>3. /\ part[2] = data[at - 2] /\ part[3] = data[at - 1]
  BY <1>1
<1> HIDE DEF part
<1>4. part[2] = name /\ part[3] = "space"
  <2>1. part = <<"eol", name, "space">>
    BY <1>2 DEF part
  <2> QED
    BY <2>1
<1> QED
  BY <1>3, <1>4 DEF at

LEMMA FoldedUpper == \A b : Folded(Upper(b)) = Folded(b)
BY DEF Folded, Upper

(* An edit changes letters, and then moves the space before the value.     *)
LEMMA EditedIs ==
    ASSUME NEW data \in Seq(Byte), NEW value \in HostValues(data)
    PROVE  \E named \in Seq(Byte) :
              /\ Len(named) = Len(data)
              /\ \A i \in 1..Len(data) : Folded(named[i]) = Folded(data[i])
              /\ named[value[1] - 1] = "space"
              /\ \/ Edited(data, value) = named
                 \/ /\ cfg.do_host_removespace
                    /\ \E to \in 1..Len(data) :
                          Edited(data, value) = SpaceMoved(named, value[1], to)
<1> DEFINE cased == IF cfg.do_host_mixedcase THEN mix_case(data, value) ELSE data
           named == Renamed(cased, value)
           place == NewPlace(named, value)
<1>1. /\ value[1] \in 4..Len(data)
      /\ data[value[1] - 2] = "Host" /\ data[value[1] - 1] = "space"
  BY ValueInData, HeaderBeforeValue DEF HostValues
<1>2. /\ cased \in Seq(Byte) /\ Len(cased) = Len(data)
      /\ \A i \in 1..Len(data) : Folded(cased[i]) = Folded(data[i])
      /\ cased[value[1] - 2] = "Host" /\ cased[value[1] - 1] = "space"
  <2>1. CASE cfg.do_host_mixedcase
    <3> DEFINE mixed == [i \in 1..Len(data) |->
                           IF i \in value[1]..value[2] /\ (i - value[1]) % 2 = 1
                           THEN Upper(data[i]) ELSE data[i]]
    <3>1. mix_case(data, value) = mixed
      BY DEF mix_case
    <3>2. \A i \in 1..Len(data) : /\ mixed[i] \in {data[i], Upper(data[i])}
                                  /\ i < value[1] => mixed[i] = data[i]
      <4> SUFFICES ASSUME NEW i \in 1..Len(data)
                   PROVE  /\ mixed[i] \in {data[i], Upper(data[i])}
                          /\ i < value[1] => mixed[i] = data[i]
        OBVIOUS
      <4>1. value[1] \in Int
        BY <1>1
      <4>2. i < value[1] => ~(i \in value[1]..value[2])
        BY <4>1
      <4> QED
        BY <4>2
    <3>3. \A i \in 1..Len(data) : data[i] \in Byte /\ Upper(data[i]) \in Byte
      BY ByteAssumption DEF Upper
    <3>4. mixed = [i \in 1..Len(data) |-> mixed[i]]
      OBVIOUS
    <3> HIDE DEF mixed
    <3>5. \A i \in 1..Len(data) : mixed[i] \in Byte
      BY <3>2, <3>3
    <3>6. mixed \in Seq(Byte) /\ Len(mixed) = Len(data)
      BY <3>4, <3>5
    <3>7. \A i \in 1..Len(data) : Folded(mixed[i]) = Folded(data[i])
      BY <3>2, FoldedUpper
    <3>8. /\ mixed[value[1] - 2] = data[value[1] - 2]
          /\ mixed[value[1] - 1] = data[value[1] - 1]
      <4>1. /\ value[1] - 2 \in 1..Len(data) /\ value[1] - 2 < value[1]
            /\ value[1] - 1 \in 1..Len(data) /\ value[1] - 1 < value[1]
        BY <1>1
      <4> QED
        BY <3>2, <4>1
    <3>9. cased = mixed
      BY <2>1, <3>1
    <3> HIDE DEF cased
    <3> QED
      BY <1>1, <3>6, <3>7, <3>8, <3>9
  <2>2. CASE ~cfg.do_host_mixedcase
    BY <1>1, <2>2
  <2> QED
    BY <2>1, <2>2
<1>3. Edited(data, value) =
         IF place = {} THEN named
         ELSE SpaceMoved(named, value[1], CHOOSE to \in place : TRUE)
  BY DEF Edited
<1> HIDE DEF cased
<1>4. /\ named \in Seq(Byte) /\ Len(named) = Len(data)
      /\ \A i \in 1..Len(data) : Folded(named[i]) = Folded(data[i])
      /\ named[value[1] - 1] = "space"
  <2> DEFINE at  == value[1] - 2
             new == IF cfg.do_host THEN "hoSt" ELSE cased[at]
  <2>1. named = [cased EXCEPT ![at] = new]
    BY DEF Renamed
  <2>2. at \in 1..Len(data) /\ value[1] - 1 \in 1..Len(data) /\ value[1] - 1 # at
    BY <1>1
  <2>3. cased[at] = "Host" /\ cased[value[1] - 1] = "space"
    BY <1>2
  <2>4. new \in Byte /\ Folded(new) = Folded(cased[at])
    <3>1. cased[at] \in Byte
      BY <1>2, <2>2
    <3> QED
      BY <2>3, <3>1, ByteAssumption DEF Folded
  <2> HIDE DEF at, new, named
  <2>5. named \in Seq(Byte) /\ Len(named) = Len(data)
    BY <1>2, <2>1, <2>2, <2>4
  <2>6. \A i \in 1..Len(data) : named[i] = IF i = at THEN new ELSE cased[i]
    BY <1>2, <2>1, <2>2
  <2> QED
    BY <1>2, <2>2, <2>3, <2>4, <2>5, <2>6
<1> HIDE DEF named
<1>5. CASE place = {}
  BY <1>3, <1>4, <1>5
<1>6. CASE place # {}
  <2> DEFINE chosen == CHOOSE to \in place : TRUE
  <2>1. chosen \in place
    BY <1>6
  <2>2. chosen \in 1..Len(data)
    BY <2>1, <1>4, NewPlaceInData
  <2>3. Edited(data, value) = SpaceMoved(named, value[1], chosen)
    BY <1>3, <1>6
  <2>4. cfg.do_host_removespace
    BY <1>6 DEF NewPlace
  <2> HIDE DEF chosen
  <2> QED
    BY <1>4, <2>2, <2>3, <2>4
<1> QED
  BY <1>5, <1>6

(* Moving the space keeps the text.                                        *)
LEMMA SpaceMovedMoves ==
    ASSUME NEW data \in Seq(Byte), NEW at \in 2..Len(data), NEW to \in 1..Len(data),
           data[at - 1] = "space"
    PROVE  Aligned(data, 0, SpaceMoved(data, at, to), 0, Len(data))
<1> DEFINE n == Len(data)
           new == SpaceMoved(data, at, to)
           f == [i \in 1..n |->
                   IF i = at - 1 THEN to
                   ELSE IF to <= i /\ i < at THEN i + 1
                   ELSE IF at <= i /\ i <= to THEN i - 1
                   ELSE i]
<1>1. n \in Nat /\ \A i \in 1..n : new[i] = Shifted(data, at, to, i)
  BY SpaceMovedAt
<1> HIDE DEF new
<1>2. f \in [1..n -> 1..n]
  <2>1. \A i \in 1..n : f[i] \in 1..n
    BY <1>1
  <2> QED
    BY <2>1
<1>3. \A i, j \in 1..n : f[i] = f[j] => i = j
  BY <1>1
<1>4. \A j \in 1..n : \E i \in 1..n : f[i] = j
  <2> SUFFICES ASSUME NEW j \in 1..n
               PROVE  \E i \in 1..n : f[i] = j
    OBVIOUS
  <2>1. CASE j = to
    <3>1. at - 1 \in 1..n /\ f[at - 1] = j
      BY <1>1, <2>1
    <3> QED
      BY <3>1
  <2>2. CASE to < j /\ j < at
    <3>1. j - 1 \in 1..n /\ f[j - 1] = j
      BY <1>1, <2>2
    <3> QED
      BY <3>1
  <2>3. CASE at <= j + 1 /\ j < to
    <3>1. j + 1 \in 1..n /\ f[j + 1] = j
      BY <1>1, <2>3
    <3> QED
      BY <3>1
  <2>4. CASE j # to /\ ~(to < j /\ j < at) /\ ~(at <= j + 1 /\ j < to)
    <3>1. f[j] = j
      BY <1>1, <2>4
    <3> QED
      BY <3>1
  <2> QED
    BY <2>1, <2>2, <2>3, <2>4
<1>5. \A i \in 1..n : new[f[i]] = data[i]
  <2> SUFFICES ASSUME NEW i \in 1..n
               PROVE  new[f[i]] = data[i]
    OBVIOUS
  <2>1. CASE i = at - 1
    <3>1. f[i] = to
      BY <2>1
    <3>2. new[to] = "space"
      BY <1>1 DEF Shifted
    <3> QED
      BY <2>1, <3>1, <3>2
  <2>2. CASE to <= i /\ i < at - 1
    <3>1. f[i] = i + 1 /\ i + 1 \in 1..n
      BY <2>2
    <3>2. new[i + 1] = data[(i + 1) - 1] /\ (i + 1) - 1 = i
      BY <1>1, <2>2, <3>1 DEF Shifted
    <3> QED
      BY <3>1, <3>2
  <2>3. CASE at <= i /\ i <= to
    <3>1. f[i] = i - 1 /\ i - 1 \in 1..n
      BY <2>3
    <3>2. new[i - 1] = data[(i - 1) + 1] /\ (i - 1) + 1 = i
      BY <1>1, <2>3, <3>1 DEF Shifted
    <3> QED
      BY <3>1, <3>2
  <2>4. CASE i # at - 1 /\ ~(to <= i /\ i < at) /\ ~(at <= i /\ i <= to)
    <3>1. f[i] = i
      BY <2>4
    <3>2. new[i] = data[i]
      BY <1>1, <2>4 DEF Shifted
    <3> QED
      BY <3>1, <3>2
  <2> QED
    BY <2>1, <2>2, <2>3, <2>4
<1>6. \A i, j \in 1..n :
         i < j /\ data[i] # "space" /\ data[j] # "space" => f[i] < f[j]
  <2> SUFFICES ASSUME NEW i \in 1..n, NEW j \in 1..n, i < j,
                      i # at - 1, j # at - 1
               PROVE  f[i] < f[j]
    OBVIOUS
  <2> QED
    BY <1>1
<1> HIDE DEF f
<1>7. Moves(f, data, 0, new, 0, n)
  <2>1. \A i \in 1..n : f[i] \in 1..n /\ 0 + i = i /\ 0 + f[i] = f[i]
    BY <1>2
  <2> QED
    BY <1>2, <1>3, <1>4, <1>5, <1>6, <2>1 DEF Moves
<1> QED
  BY <1>7 DEF Aligned, new

LEMMA AlignedRecased ==
    ASSUME NEW s, NEW u, NEW t, NEW n \in Nat, Aligned(s, 0, t, 0, n),
           \A i \in 1..n : Folded(u[i]) = Folded(s[i])
    PROVE  Aligned(u, 0, t, 0, n)
<1>1. PICK f : Moves(f, s, 0, t, 0, n)
  BY DEF Aligned
<1>2. \A i \in 1..n : /\ 0 + i = i
                      /\ Folded(u[i]) = Folded(s[i])
                      /\ u[i] = "space" <=> s[i] = "space"
  BY FoldedSpace
<1>3. Moves(f, u, 0, t, 0, n)
  BY <1>1, <1>2 DEF Moves
<1> QED
  BY <1>3 DEF Aligned

(* An edited segment says what the client's segment says.                  *)
LEMMA EditedAligned ==
    ASSUME NEW data \in Seq(Byte), NEW value \in HostValues(data)
    PROVE  Aligned(data, 0, Edited(data, value), 0, Len(data))
<1> DEFINE new == Edited(data, value)
           n == Len(data)
<1>1. PICK named \in Seq(Byte) :
              /\ Len(named) = n
              /\ \A i \in 1..n : Folded(named[i]) = Folded(data[i])
              /\ named[value[1] - 1] = "space"
              /\ \/ new = named
                 \/ \E to \in 1..n : new = SpaceMoved(named, value[1], to)
  BY EditedIs
<1>2. n \in Nat /\ value[1] \in 2..Len(named)
  BY <1>1, ValueInData DEF HostValues
<1> HIDE DEF new, n
<1>3. Aligned(named, 0, new, 0, n)
  <2>1. CASE new = named
    <3>1. \A i \in 1..n : Folded(named[0 + i]) = Folded(new[0 + i])
      BY <2>1
    <3> QED
      BY <1>2, <3>1, AlignedInPlace
  <2>2. CASE \E to \in 1..n : new = SpaceMoved(named, value[1], to)
    BY <1>1, <1>2, <2>2, SpaceMovedMoves
  <2> QED
    BY <1>1, <2>1, <2>2
<1>4. \A i \in 1..n : Folded(data[i]) = Folded(named[i])
  BY <1>1
<1> QED
  BY <1>2, <1>3, <1>4, AlignedRecased DEF new, n

-----------------------------------------------------------------------------
(* No byte of a fake, but for one whose TTL was meant to end it.           *)

FakeInv ==
    /\ \A p \in wire : p.flaw = "long" => FakesByTtl
    /\ got = [i \in DOMAIN got |-> got[i]]
    /\ FakesByTtl \/ FromClient

LEMMA SendAddsFakes ==
    ASSUME Send, NEW p \in wire', p \notin wire, p.flaw = "long"
    PROVE  FakesByTtl
<1>1. ASSUME NEW data, NEW sni, NEW changed, SendTreated(data, sni, changed)
      PROVE  FakesByTtl
  <2>1. PICK ttl \in TtlOfFake :
           \/ p \in Fakes(ttl)
           \/ p \in Fragments(una, data, FragmentSize(sni))
           \/ p = Plain(una, data)
    BY <1>1 DEF SendTreated
  <2>2. p \in Fakes(ttl)
    BY <2>1 DEF Fragments, Plain
  <2>3. ttl = "long"
    BY <2>2 DEF Fakes
  <2> QED
    BY <2>3 DEF TtlOfFake
<1> PICK sni \in extract_sni(Segment) :
          \/ HelloTreated(Segment, sni)
          \/ RequestTreated(Segment)
          \/ SegmentPassed(Segment, sni)
  BY DEF Send
<1>2. CASE HelloTreated(Segment, sni)
  BY <1>1, <1>2 DEF HelloTreated
<1>3. CASE RequestTreated(Segment)
  BY <1>1, <1>3 DEF RequestTreated
<1>4. CASE SegmentPassed(Segment, sni)
  BY <1>4 DEF SegmentPassed, SendAsIs, Plain
<1> QED
  BY <1>2, <1>3, <1>4

LEMMA SettingsStay ==
    ASSUME [Next]_vars
    PROVE  cfg' = cfg /\ FakesByTtl' = FakesByTtl
BY DEF Next, SynAck, Send, Deliver, Lose, Ack, vars, FakesByTtl

(* What a packet brings: bytes of the client, or nothing but those of a    *)
(* fake.                                                                   *)
LEMMA Brought ==
    ASSUME TypeInv, NEW p \in wire, NEW i \in DOMAIN got, Reaches(p, i)
    PROVE  /\ p.flaw = "none" => p.data[i - p.from] \in Byte
           /\ p.flaw # "none" => p.data[i - p.from] = Fake
<1>1. BytesOK(p) /\ i - p.from \in DOMAIN p.data
  BY DEF TypeInv, Reaches
<1>2. ASSUME NEW S, p.data \in Seq(S)
      PROVE  p.data[i - p.from] \in S
  BY <1>1, <1>2
<1> QED
  BY <1>1, <1>2 DEF BytesOK

LEMMA FakeStep ==
    ASSUME TypeInv, FakeInv, [Next]_vars
    PROVE  FakeInv'
<1>1. FakesByTtl' = FakesByTtl
  BY SettingsStay
<1>2. ASSUME NEW r \in Request, SynAck(r)
      PROVE  FakeInv'
  <2>1. wire' = {} /\ got' = [i \in DOMAIN r.bytes |-> Missing]
    BY <1>2 DEF SynAck
  <2>2. got' = [i \in DOMAIN got' |-> got'[i]]
    BY <2>1
  <2>3. \A i \in DOMAIN got' : got'[i] # Fake
    BY <2>1 DEF Missing, Fake
  <2> QED
    BY <2>1, <2>2, <2>3 DEF FakeInv, FromClient
<1>3. CASE Send
  <2>1. got' = got
    BY <1>3 DEF Send, connection
  <2>2. \A p \in wire' : p.flaw = "long" => FakesByTtl
    BY <1>3, SendAddsFakes DEF FakeInv
  <2> QED
    BY <1>1, <2>1, <2>2 DEF FakeInv, FromClient
<1>4. ASSUME NEW p \in wire, Deliver(p)
      PROVE  FakeInv'
  <2>1. wire' \subseteq wire /\ p.flaw \in {"none", "long"}
    BY <1>4 DEF Deliver
  <2>2. got' = [i \in DOMAIN got |-> IF got[i] = Missing /\ Reaches(p, i)
                                     THEN p.data[i - p.from] ELSE got[i]]
    BY <1>4 DEF Deliver
  <2>3. got' = [i \in DOMAIN got' |-> got'[i]]
    BY <2>2
  <2>4. ASSUME FromClient, p.flaw = "none", NEW i \in DOMAIN got
        PROVE  got'[i] # Fake
    <3>1. CASE got[i] = Missing /\ Reaches(p, i)
      <4>1. p.data[i - p.from] \in Byte
        BY <2>4, <3>1, Brought
      <4> QED
        BY <2>2, <3>1, <4>1, ByteAssumption
    <3>2. CASE ~(got[i] = Missing /\ Reaches(p, i))
      BY <2>2, <2>4, <3>2 DEF FromClient
    <3> QED
      BY <3>1, <3>2
  <2>5. DOMAIN got' = DOMAIN got
    BY <2>2
  <2>6. FakesByTtl \/ FromClient'
    BY <2>1, <2>4, <2>5 DEF FakeInv, FromClient
  <2> QED
    BY <1>1, <2>1, <2>3, <2>6 DEF FakeInv
<1>5. ASSUME got' = got, wire' \subseteq wire
      PROVE  FakeInv'
  BY <1>1, <1>5 DEF FakeInv, FromClient
<1>6. ASSUME NEW p \in wire, Lose(p)
      PROVE  FakeInv'
  BY <1>5, <1>6 DEF Lose, connection
<1>7. CASE Ack
  BY <1>5, <1>7 DEF Ack
<1>8. CASE UNCHANGED vars
  BY <1>5, <1>8 DEF vars
<1> QED
  BY <1>2, <1>3, <1>4, <1>6, <1>7, <1>8 DEF Next

LEMMA FakeInit == Init => FakeInv
<1> SUFFICES ASSUME Init PROVE FakeInv
  OBVIOUS
<1>1. wire = {} /\ got = << >>
  BY DEF Init
<1>2. got = [i \in DOMAIN got |-> got[i]] /\ DOMAIN got = {}
  BY <1>1
<1> QED
  BY <1>1, <1>2 DEF FakeInv, FromClient

-----------------------------------------------------------------------------
(* Bytes in their places: settings that do not move the space.             *)

StreamInv ==
    /\ \A p \in wire :
          p.flaw = "none" =>
             \A j \in 1..Len(p.data) :
                Folded(p.data[j]) = Folded(request.bytes[p.from + j])
    /\ \A i \in DOMAIN got :
          Has(i) => \/ got[i] = Fake
                    \/ Folded(got[i]) = Folded(request.bytes[i])

LEMMA EditedInPlace ==
    ASSUME ~cfg.do_host_removespace,
           NEW data \in Seq(Byte), NEW value \in HostValues(data)
    PROVE  \A i \in 1..Len(data) : Folded(Edited(data, value)[i]) = Folded(data[i])
BY EditedIs

(* What a step of the client adds is a fake or a part of the request, at   *)
(* its place, but for the case of letters.                                 *)
LEMMA SendAddsParts ==
    ASSUME ~cfg.do_host_removespace, TypeInv, Send,
           NEW p \in wire', p \notin wire, p.flaw = "none"
    PROVE  \A j \in 1..Len(p.data) :
              Folded(p.data[j]) = Folded(request.bytes[p.from + j])
<1>1. /\ TypeOK
      /\ una \in Nat /\ una < Len(request.bytes)
      /\ window \in Nat \ {0}
      /\ request.bytes \in Seq(Byte)
  BY RequestType DEF TypeInv, TypeOK, Send
<1>2. /\ Segment \in Seq(Byte)
      /\ Len(Segment) \in 1..(Len(request.bytes) - una)
      /\ \A j \in 1..Len(Segment) : Segment[j] = request.bytes[una + j]
  BY <1>1, SegmentIsPart
<1>3. ASSUME NEW data \in Seq(Byte), Len(data) = Len(Segment),
             \A j \in 1..Len(Segment) : Folded(data[j]) = Folded(Segment[j]),
             NEW sni, SniOK(sni), NEW changed, SendTreated(data, sni, changed)
      PROVE  \A j \in 1..Len(p.data) :
                Folded(p.data[j]) = Folded(request.bytes[p.from + j])
  <2>1. /\ p.from >= una
        /\ p.from + Len(p.data) <= una + Len(Segment)
        /\ \A j \in 1..Len(p.data) : p.data[j] = data[p.from - una + j]
        /\ Sane(p) /\ BytesOK(p)
    BY <1>1, <1>2, <1>3, SendTreatedAdds
  <2>2. p.from \in Nat /\ Len(p.data) \in Nat
    BY <1>1, <2>1 DEF Sane, BytesOK
  <2>3. Len(Segment) \in Nat
    BY <1>2
  <2>4. ASSUME NEW j \in 1..Len(p.data)
        PROVE  /\ p.from - una + j \in 1..Len(Segment)
               /\ una + (p.from - una + j) = p.from + j
    <3>1. /\ una \in Nat /\ p.from >= una
          /\ p.from + Len(p.data) <= una + Len(Segment)
      BY <1>1, <2>1
    <3> QED
      BY <3>1, <2>2, <2>3
  <2> QED
    <3> SUFFICES ASSUME NEW j \in 1..Len(p.data)
                 PROVE  Folded(p.data[j]) = Folded(request.bytes[p.from + j])
      OBVIOUS
    <3> DEFINE k == p.from - una + j
    <3>1. k \in 1..Len(Segment) /\ una + k = p.from + j
      BY <2>4
    <3>2. p.data[j] = data[k]
      BY <2>1
    <3> HIDE DEF k
    <3> QED
      BY <1>2, <1>3, <3>1, <3>2
<1> PICK sni \in extract_sni(Segment) :
          \/ HelloTreated(Segment, sni)
          \/ RequestTreated(Segment)
          \/ SegmentPassed(Segment, sni)
  BY DEF Send
<1>4. SniOK(sni) /\ SniOK(NoSni)
  BY <1>2, SniType
<1>5. CASE HelloTreated(Segment, sni)
  BY <1>2, <1>3, <1>4, <1>5 DEF HelloTreated
<1>6. CASE RequestTreated(Segment)
  <2>1. PICK value \in HostValues(Segment) :
           SendTreated(Edited(Segment, value), NoSni,
                       cfg.do_native_frag \/ IsEdited(Segment, value))
    BY <1>6 DEF RequestTreated
  <2> DEFINE new == Edited(Segment, value)
             changed == cfg.do_native_frag \/ IsEdited(Segment, value)
  <2>2. /\ new \in Seq(Byte) /\ Len(new) = Len(Segment)
        /\ \A j \in 1..Len(Segment) : Folded(new[j]) = Folded(Segment[j])
    BY <1>2, EditKeepsLength, EditedInPlace
  <2>3. SendTreated(new, NoSni, changed)
    BY <2>1
  <2> HIDE DEF new, changed
  <2> QED
    BY <1>3, <1>4, <2>2, <2>3
<1>7. CASE SegmentPassed(Segment, sni)
  <2>1. p = Plain(una, Segment)
    BY <1>7 DEF SegmentPassed, SendAsIs
  <2> QED
    BY <1>2, <2>1 DEF Plain
<1> QED
  BY <1>5, <1>6, <1>7

LEMMA StreamInit == Init => StreamInv
BY DEF Init, StreamInv

LEMMA StreamStep ==
    ASSUME ~cfg.do_host_removespace, TypeInv, StreamInv, [Next]_vars
    PROVE  StreamInv'
<1>1. ASSUME NEW r \in Request, SynAck(r)
      PROVE  StreamInv'
  <2>1. wire' = {} /\ got' = [i \in DOMAIN r.bytes |-> Missing]
    BY <1>1 DEF SynAck
  <2> QED
    BY <2>1 DEF StreamInv, Has
<1>2. CASE Send
  <2>1. request' = request /\ got' = got
    BY <1>2 DEF Send, connection
  <2>2. ASSUME NEW p \in wire', p.flaw = "none"
        PROVE  \A j \in 1..Len(p.data) :
                  Folded(p.data[j]) = Folded(request.bytes[p.from + j])
    <3>1. CASE p \in wire
      BY <2>2, <3>1 DEF StreamInv
    <3>2. CASE p \notin wire
      BY <1>2, <2>2, <3>2, SendAddsParts
    <3> QED
      BY <3>1, <3>2
  <2> QED
    BY <2>1, <2>2 DEF StreamInv, Has
<1>3. ASSUME NEW p \in wire, Deliver(p)
      PROVE  StreamInv'
  <2>1. request' = request /\ wire' \subseteq wire
    BY <1>3 DEF Deliver
  <2> DEFINE new(i) == IF got[i] = Missing /\ Reaches(p, i)
                       THEN p.data[i - p.from] ELSE got[i]
  <2>2. got' = [i \in DOMAIN got |-> new(i)]
    BY <1>3 DEF Deliver
  <2>3. ASSUME NEW i \in DOMAIN got, new(i) # Missing, new(i) # Fake
        PROVE  Folded(new(i)) = Folded(request.bytes[i])
    <3>1. CASE got[i] = Missing /\ Reaches(p, i)
      <4>1. p.flaw = "none"
        BY <2>3, <3>1, Brought
      <4>2. p.data \in Seq(Byte)
        BY <4>1 DEF TypeInv, BytesOK
      <4>3. p.from \in Nat /\ i \in Int
        BY RequestType DEF TypeInv, TypeOK, Sane
      <4> DEFINE j == i - p.from
      <4>4. j \in 1..Len(p.data) /\ p.from + j = i
        BY <3>1, <4>2, <4>3 DEF Reaches
      <4>5. Folded(p.data[j]) = Folded(request.bytes[p.from + j])
        BY <4>1, <4>4 DEF StreamInv
      <4> QED
        BY <3>1, <4>4, <4>5
    <3>2. CASE ~(got[i] = Missing /\ Reaches(p, i))
      BY <2>3, <3>2 DEF StreamInv, Has
    <3> QED
      BY <3>1, <3>2
  <2> HIDE DEF new
  <2>4. DOMAIN got' = DOMAIN got /\ \A i \in DOMAIN got : got'[i] = new(i)
    BY <2>2
  <2>5. \A i \in DOMAIN got' :
           Has(i)' => \/ got'[i] = Fake
                      \/ Folded(got'[i]) = Folded(request'.bytes[i])
    BY <2>1, <2>3, <2>4 DEF Has
  <2> QED
    BY <2>1, <2>5 DEF StreamInv
<1>4. ASSUME request' = request, wire' \subseteq wire, got' = got
      PROVE  StreamInv'
  BY <1>4 DEF StreamInv, Has
<1>5. ASSUME NEW p \in wire, Lose(p)
      PROVE  StreamInv'
  BY <1>4, <1>5 DEF Lose, connection
<1>6. CASE Ack
  BY <1>4, <1>6 DEF Ack
<1>7. CASE UNCHANGED vars
  BY <1>4, <1>7 DEF vars
<1> QED
  BY <1>1, <1>2, <1>3, <1>5, <1>6, <1>7 DEF Next

LEMMA StreamRead ==
    ASSUME TypeInv, StreamInv, FromClient, \A i \in DOMAIN got : Has(i)
    PROVE  Meaning(got) = Meaning(request.bytes)
<1> DEFINE n == Len(request.bytes)
<1>1. n \in Nat /\ DOMAIN request.bytes = 1..n /\ DOMAIN got = 1..n
  BY RequestType DEF TypeInv, TypeOK
<1>2. \A i \in 1..n : Folded(request.bytes[0 + i]) = Folded(got[0 + i])
  BY <1>1 DEF StreamInv, FromClient
<1> HIDE DEF n
<1>3. Aligned(request.bytes, 0, got, 0, n)
  BY <1>1, <1>2, AlignedInPlace
<1> QED
  BY <1>1, <1>3, AlignedMeaning

-----------------------------------------------------------------------------
(* Whole segments: settings that do not fragment.                          *)

(* A packet the server takes is behind the client's position, or it is the *)
(* segment that starts there, and says what the request says.              *)
WholePacket(p) ==
    \/ p.from + Len(p.data) <= una
    \/ /\ p.from = una
       /\ Len(p.data) = Len(Segment)
       /\ Aligned(request.bytes, una, p.data, 0, Len(Segment))

(* After its position the server has nothing, or the whole segment.        *)
NothingAhead == \A i \in DOMAIN got : i > una => ~Has(i)

SegmentAhead ==
    /\ \A i \in 1..Len(Segment) : Has(una + i)
    /\ \A i \in DOMAIN got : i > una + Len(Segment) => ~Has(i)
    /\ Aligned(request.bytes, una, got, una, Len(Segment))

WholeInv ==
    /\ \A p \in wire : p.flaw = "none" => WholePacket(p)
    /\ got = [i \in DOMAIN got |-> got[i]]
    /\ \A i \in DOMAIN got : got[i] \in Byte \cup {Missing}
    /\ \A i \in 1..una : Has(i)
    /\ Aligned(request.bytes, 0, got, 0, una)
    /\ NothingAhead \/ SegmentAhead

(* Without fragmentation a step of the client adds fakes and one packet:   *)
(* the segment, edited or not.                                             *)
LEMMA SendAddsWhole ==
    ASSUME ~cfg.do_native_frag, TypeInv, Send,
           NEW p \in wire', p \notin wire, p.flaw = "none"
    PROVE  WholePacket(p)
<1>1. /\ TypeOK
      /\ una \in Nat /\ una < Len(request.bytes)
      /\ window \in Nat \ {0}
      /\ request.bytes \in Seq(Byte)
  BY RequestType DEF TypeInv, TypeOK, Send
<1>2. /\ Segment \in Seq(Byte)
      /\ Len(Segment) \in 1..(Len(request.bytes) - una)
      /\ \A j \in 1..Len(Segment) : Segment[j] = request.bytes[una + j]
  BY <1>1, SegmentIsPart
<1>3. ASSUME NEW data, Len(data) = Len(Segment),
             Aligned(Segment, 0, data, 0, Len(Segment)), p = Plain(una, data)
      PROVE  WholePacket(p)
  <2>1. p.from = una /\ p.data = data
    BY <1>3 DEF Plain
  <2>2. \A i \in 1..Len(Segment) : request.bytes[una + i] = Segment[0 + i]
    BY <1>2
  <2>3. \A i \in 1..Len(Segment) : data[0 + i] = data[0 + i]
    OBVIOUS
  <2>4. Aligned(request.bytes, una, data, 0, Len(Segment))
    BY <1>2, <1>3, <2>2, <2>3, AlignedSame
  <2> QED
    BY <1>3, <2>1, <2>4 DEF WholePacket
<1>4. Aligned(Segment, 0, Segment, 0, Len(Segment))
  BY <1>2, AlignedInPlace
<1>5. ASSUME NEW data, NEW sni, NEW changed, SendTreated(data, sni, changed)
      PROVE  p = Plain(una, data)
  <2>1. ~Fragmented(sni)
    BY DEF Fragmented
  <2>2. PICK ttl \in TtlOfFake : p \in Fakes(ttl) \/ p = Plain(una, data)
    BY <1>5, <2>1 DEF SendTreated
  <2>3. p \notin Fakes(ttl)
    BY DEF Fakes
  <2> QED
    BY <2>2, <2>3
<1> PICK sni \in extract_sni(Segment) :
          \/ HelloTreated(Segment, sni)
          \/ RequestTreated(Segment)
          \/ SegmentPassed(Segment, sni)
  BY DEF Send
<1>6. CASE HelloTreated(Segment, sni)
  BY <1>3, <1>4, <1>5, <1>6 DEF HelloTreated
<1>7. CASE RequestTreated(Segment)
  <2>1. PICK value \in HostValues(Segment) :
           SendTreated(Edited(Segment, value), NoSni,
                       cfg.do_native_frag \/ IsEdited(Segment, value))
    BY <1>7 DEF RequestTreated
  <2> DEFINE new == Edited(Segment, value)
  <2>2. Len(new) = Len(Segment) /\ Aligned(Segment, 0, new, 0, Len(Segment))
    BY <1>2, EditKeepsLength, EditedAligned
  <2>3. p = Plain(una, new)
    BY <1>5, <2>1
  <2> HIDE DEF new
  <2> QED
    BY <1>3, <2>2, <2>3
<1>8. CASE SegmentPassed(Segment, sni)
  <2>1. p = Plain(una, Segment)
    BY <1>8 DEF SegmentPassed, SendAsIs
  <2> QED
    BY <1>3, <1>4, <2>1
<1> QED
  BY <1>6, <1>7, <1>8

LEMMA WholeKept ==
    ASSUME WholeInv, UNCHANGED <<request, una, window, got>>,
           \A p \in wire' : p.flaw = "none" => WholePacket(p)
    PROVE  WholeInv'
<1>1. Segment' = Segment
  BY DEF Segment
<1>2. \A p \in wire' : p.flaw = "none" => WholePacket(p)'
  BY <1>1 DEF WholePacket
<1>3. (NothingAhead \/ SegmentAhead)'
  BY <1>1 DEF WholeInv, NothingAhead, SegmentAhead, Has
<1> QED
  BY <1>2, <1>3 DEF WholeInv, Has

(* The types these proofs need.                                            *)
LEMMA PositionTypes ==
    ASSUME TypeInv
    PROVE  /\ request.bytes \in Seq(Byte)
           /\ Len(request.bytes) \in Nat
           /\ DOMAIN got = 1..Len(request.bytes)
           /\ una \in 0..Len(request.bytes)
           /\ window \in Nat \ {0}
           /\ \A p \in wire : p.flaw = "none" =>
                 /\ p.data \in Seq(Byte)
                 /\ Len(p.data) \in Nat \ {0}
                 /\ p.from \in Nat
                 /\ p.from + Len(p.data) <= Len(request.bytes)
<1>1. request.bytes \in Seq(Byte)
  BY RequestType DEF TypeInv
<1>2. /\ DOMAIN got = DOMAIN request.bytes
      /\ una \in 0..Len(request.bytes)
      /\ window \in Nat \ {0}
  BY DEF TypeInv, TypeOK
<1>3. ASSUME NEW p \in wire, p.flaw = "none"
      PROVE  /\ p.data \in Seq(Byte)
             /\ Len(p.data) \in Nat \ {0}
             /\ p.from \in Nat
             /\ p.from + Len(p.data) <= Len(request.bytes)
  <2>1. Sane(p) /\ BytesOK(p)
    BY DEF TypeInv, TypeOK
  <2> QED
    BY <1>1, <1>3, <2>1 DEF Sane, BytesOK
<1> QED
  BY <1>1, <1>2, <1>3

LEMMA SegmentLength ==
    ASSUME TypeInv
    PROVE  /\ Len(Segment) \in 0..(Len(request.bytes) - una)
           /\ una < Len(request.bytes) => Len(Segment) > 0
<1>1. /\ request.bytes \in Seq(Byte)
      /\ una \in 0..Len(request.bytes)
      /\ window \in Nat \ {0}
  BY PositionTypes
<1>2. CASE una < Len(request.bytes)
  BY <1>1, <1>2, SegmentIsPart
<1>3. CASE una = Len(request.bytes)
  <2>1. Low(una + Low(window, Mss), Len(request.bytes)) = una
    <3>1. Low(window, Mss) \in Nat
      BY <1>1, BoundAssumption DEF Low
    <3>2. \A x \in Nat : Low(una + x, una) = una
      BY <1>1 DEF Low
    <3> QED
      BY <1>3, <3>1, <3>2
  <2>2. Segment = SubSeq(request.bytes, una + 1, una)
    BY <2>1 DEF Segment
  <2>3. Len(Segment) = 0
    BY <1>1, <2>2
  <2> QED
    BY <1>1, <1>3, <2>3
<1> QED
  BY <1>1, <1>2, <1>3

(* What the server takes from a packet.                                    *)
LEMMA WholeDelivered ==
    ASSUME TypeInv, WholeInv, NEW p \in wire, Deliver(p), p.flaw = "none"
    PROVE  WholeInv'
<1> DEFINE n == Len(Segment)
<1>1. /\ UNCHANGED <<request, una, window>> /\ wire' \subseteq wire
      /\ p.flaw = "none"
      /\ got' = [i \in DOMAIN got |->
                    IF got[i] = Missing /\ Reaches(p, i)
                    THEN p.data[i - p.from] ELSE got[i]]
  BY DEF Deliver
<1>2. /\ Len(request.bytes) \in Nat
      /\ DOMAIN got = 1..Len(request.bytes)
      /\ una \in 0..Len(request.bytes)
      /\ p.data \in Seq(Byte) /\ Len(p.data) \in Nat \ {0}
      /\ p.from \in Nat /\ p.from + Len(p.data) <= Len(request.bytes)
  BY <1>1, PositionTypes
<1>3. n \in 0..(Len(request.bytes) - una)
  BY SegmentLength
<1>4. \A i \in DOMAIN got :
         /\ i \in Int
         /\ Reaches(p, i) <=> p.from < i /\ i <= p.from + Len(p.data)
  BY <1>2 DEF Reaches
<1>5. Segment' = Segment
  BY <1>1 DEF Segment
<1>6. ASSUME \A i \in DOMAIN got : Reaches(p, i) => Has(i)
      PROVE  WholeInv'
  <2>1. got' = [i \in DOMAIN got |-> got[i]]
    BY <1>1, <1>6 DEF Has
  <2>2. got' = got
    BY <2>1 DEF WholeInv
  <2> QED
    BY <1>1, <2>2, WholeKept DEF WholeInv
<1>7. CASE p.from + Len(p.data) <= una
  <2>1. \A i \in DOMAIN got : Reaches(p, i) => i \in 1..una
    BY <1>2, <1>4, <1>7
  <2> QED
    BY <1>6, <2>1 DEF WholeInv
<1>8. CASE /\ p.from = una /\ Len(p.data) = n
           /\ Aligned(request.bytes, una, p.data, 0, n)
  <2>1. CASE SegmentAhead
    <3>1. ASSUME NEW i \in DOMAIN got, Reaches(p, i)
          PROVE  Has(i)
      <4> DEFINE j == i - una
      <4>1. j \in 1..n /\ una + j = i
        BY <1>2, <1>4, <1>8, <3>1
      <4> HIDE DEF j, n
      <4> QED
        BY <2>1, <4>1 DEF SegmentAhead, n
    <3> QED
      BY <1>6, <3>1
  <2>2. CASE NothingAhead
    <3> HIDE DEF n
    <3>1. ASSUME NEW i \in DOMAIN got
          PROVE  got'[i] = IF una < i /\ i <= una + n THEN p.data[i - una] ELSE got[i]
      <4>1. i > una => got[i] = Missing
        BY <2>2, <3>1 DEF NothingAhead, Has
      <4>2. got'[i] = IF got[i] = Missing /\ Reaches(p, i)
                      THEN p.data[i - p.from] ELSE got[i]
        BY <1>1
      <4> QED
        BY <1>2, <1>4, <1>8, <4>1, <4>2
    <3>2. DOMAIN got' = DOMAIN got /\ got' = [i \in DOMAIN got' |-> got'[i]]
      BY <1>1
    <3>3. \A j \in 1..n : /\ una + j \in DOMAIN got
                          /\ got'[una + j] = p.data[j] /\ p.data[j] \in Byte
      <4> SUFFICES ASSUME NEW j \in 1..n
                   PROVE  /\ una + j \in DOMAIN got
                          /\ got'[una + j] = p.data[j] /\ p.data[j] \in Byte
        OBVIOUS
      <4>1. /\ una + j \in DOMAIN got /\ una < una + j /\ una + j <= una + n
            /\ (una + j) - una = j
        BY <1>2, <1>3
      <4> QED
        BY <1>2, <1>8, <3>1, <4>1
    <3>4. \A i \in DOMAIN got : i <= una \/ i > una + n => got'[i] = got[i]
      BY <1>2, <1>3, <1>4, <3>1
    <3>5. \A i \in DOMAIN got : got'[i] \in Byte \cup {Missing}
      <4> SUFFICES ASSUME NEW i \in DOMAIN got
                   PROVE  got'[i] \in Byte \cup {Missing}
        OBVIOUS
      <4>1. CASE i <= una \/ i > una + n
        BY <3>4, <4>1 DEF WholeInv
      <4>2. CASE ~(i <= una \/ i > una + n)
        <5>1. i - una \in 1..n /\ una + (i - una) = i
          BY <1>2, <1>3, <1>4, <4>2
        <5> QED
          BY <3>3, <5>1
      <4> QED
        BY <4>1, <4>2
    <3>6. \A i \in 1..una : i \in DOMAIN got /\ got'[i] = got[i]
      BY <1>2, <3>4
    <3>7. Aligned(request.bytes, 0, got', 0, una)
      <4>1. \A i \in 1..una : got'[0 + i] = got[0 + i]
        <5>1. \A i \in 1..una : 0 + i = i
          BY <1>2
        <5> QED
          BY <3>6, <5>1
      <4>2. Aligned(request.bytes, 0, got, 0, una)
        BY DEF WholeInv
      <4>3. \A i \in 1..una : request.bytes[0 + i] = request.bytes[0 + i]
        OBVIOUS
      <4>4. una \in Nat
        BY <1>2
      <4> QED
        BY <4>1, <4>2, <4>3, <4>4, AlignedSame
    <3>8. Aligned(request.bytes, una, got', una, n)
      <4>1. \A i \in 1..n : got'[una + i] = p.data[0 + i]
        <5>1. \A i \in 1..n : 0 + i = i
          BY <1>3
        <5> QED
          BY <3>3, <5>1
      <4>2. \A i \in 1..n : request.bytes[una + i] = request.bytes[una + i]
        OBVIOUS
      <4>3. n \in Nat
        BY <1>2, <1>3
      <4> QED
        BY <1>8, <4>1, <4>2, <4>3, AlignedSame
    <3>9. (\A i \in 1..una : Has(i))'
      BY <1>1, <3>6 DEF WholeInv, Has
    <3>10. SegmentAhead'
      <4>1. \A i \in 1..n : got'[una + i] # Missing
        BY <3>3, ByteAssumption
      <4>2. \A i \in DOMAIN got' : i > una + n => got'[i] = Missing
        <5> SUFFICES ASSUME NEW i \in DOMAIN got, i > una + n
                     PROVE  got'[i] = Missing
          BY <3>2
        <5>1. i > una
          BY <1>2, <1>3, <1>4
        <5> QED
          BY <2>2, <3>4, <5>1 DEF NothingAhead, Has
      <4> QED
        BY <1>1, <1>5, <3>8, <4>1, <4>2 DEF SegmentAhead, Has, n
    <3>11. \A q \in wire' : q.flaw = "none" => WholePacket(q)'
      BY <1>1, <1>5 DEF WholeInv, WholePacket
    <3> QED
      BY <1>1, <3>2, <3>5, <3>7, <3>9, <3>10, <3>11 DEF WholeInv
  <2> QED
    BY <2>1, <2>2 DEF WholeInv
<1> QED
  BY <1>1, <1>7, <1>8 DEF WholeInv, WholePacket

(* The server acknowledges whole segments.                                 *)
LEMMA WholeAcked ==
    ASSUME TypeInv, WholeInv, Ack
    PROVE  WholeInv'
<1> DEFINE n == Len(Segment)
<1>1. /\ Len(request.bytes) \in Nat
      /\ DOMAIN got = 1..Len(request.bytes)
      /\ una \in 0..Len(request.bytes)
  BY PositionTypes
<1>2. n \in 0..(Len(request.bytes) - una)
  BY SegmentLength
<1>3. UNCHANGED <<request, wire, got>>
  BY DEF Ack
<1>4. /\ una' \in DOMAIN got /\ una < una'
      /\ \A i \in 1..una' : Has(i)
      /\ una' < Len(got) => ~Has(una' + 1)
  BY DEF Ack
<1>5. Len(got) = Len(request.bytes)
  <2>1. got = [i \in 1..Len(request.bytes) |-> got[i]]
    BY <1>1 DEF WholeInv
  <2>2. \A i \in 1..Len(request.bytes) : got[i] \in Byte \cup {Missing}
    BY <1>1 DEF WholeInv
  <2>3. got \in Seq(Byte \cup {Missing})
    BY <1>1, <2>1, <2>2
  <2> QED
    BY <1>1, <2>3
<1>6. SegmentAhead
  <2> SUFFICES ASSUME NothingAhead PROVE FALSE
    BY DEF WholeInv
  <2>1. una' \in 1..una' /\ una' > una
    BY <1>1, <1>4
  <2> QED
    BY <1>4, <2>1 DEF NothingAhead
<1>7. una' = una + n
  <2> HIDE DEF n
  <2>1. ~(una' > una + n)
    <3>1. una' \in 1..una'
      BY <1>1, <1>4
    <3> QED
      BY <1>4, <1>6, <3>1 DEF SegmentAhead, n
  <2>2. ~(una' < una + n)
    <3> SUFFICES ASSUME una' < una + n PROVE FALSE
      OBVIOUS
    <3>1. ~Has(una' + 1)
      BY <1>1, <1>2, <1>4, <1>5
    <3> DEFINE j == una' + 1 - una
    <3>2. j \in 1..n /\ una + j = una' + 1
      BY <1>1, <1>2, <1>4
    <3> HIDE DEF j
    <3> QED
      BY <1>6, <3>1, <3>2 DEF SegmentAhead, n
  <2> QED
    BY <1>1, <1>2, <1>4, <2>1, <2>2
<1>8. Aligned(request.bytes, 0, got, 0, una')
  <2>1. Aligned(request.bytes, 0, got, 0, una)
    BY DEF WholeInv
  <2>2. Aligned(request.bytes, 0 + una, got, 0 + una, n)
    <3>1. 0 + una = una
      BY <1>1
    <3> QED
      BY <1>6, <3>1 DEF SegmentAhead
  <2>3. una \in Nat /\ n \in Nat /\ 0 \in Nat
    BY <1>1, <1>2
  <2> HIDE DEF n
  <2> QED
    BY <1>7, <2>1, <2>2, <2>3, AlignedJoin
<1>9. NothingAhead'
  BY <1>3, <1>6, <1>7 DEF NothingAhead, SegmentAhead, Has
<1>10. ASSUME NEW p \in wire', p.flaw = "none"
       PROVE  WholePacket(p)'
  <2>1. WholePacket(p)
    BY <1>3, <1>10 DEF WholeInv
  <2>2. p.from \in Nat /\ Len(p.data) \in Nat
    BY <1>3, <1>10, PositionTypes
  <2>3. p.from + Len(p.data) <= una'
    <3>1. CASE p.from + Len(p.data) <= una
      BY <1>1, <1>2, <1>7, <2>2, <3>1
    <3>2. CASE p.from = una /\ Len(p.data) = n
      BY <1>1, <1>2, <1>7, <3>2
    <3> QED
      BY <2>1, <3>1, <3>2 DEF WholePacket
  <2> QED
    BY <2>3 DEF WholePacket
<1> QED
  BY <1>3, <1>4, <1>8, <1>9, <1>10 DEF WholeInv, Has

LEMMA WholeInit == Init => WholeInv
<1> SUFFICES ASSUME Init PROVE WholeInv
  OBVIOUS
<1>1. wire = {} /\ got = << >> /\ una = 0
  BY DEF Init
<1>2. got = [i \in DOMAIN got |-> got[i]] /\ DOMAIN got = {}
  BY <1>1
<1>3. Aligned(request.bytes, 0, got, 0, una)
  <2>1. Aligned(request.bytes, 0, got, 0, 0)
    BY AlignedInPlace
  <2> QED
    BY <1>1, <2>1
<1> QED
  BY <1>1, <1>2, <1>3 DEF WholeInv, NothingAhead

LEMMA WholeStep ==
    ASSUME ~cfg.do_native_frag, TypeInv, FromClient => WholeInv, [Next]_vars
    PROVE  (FromClient => WholeInv)'
<1> SUFFICES ASSUME FromClient' PROVE WholeInv'
  OBVIOUS
<1>1. ASSUME NEW r \in Request, SynAck(r)
      PROVE  WholeInv'
  <2>1. wire' = {} /\ una' = 0 /\ got' = [i \in DOMAIN r.bytes |-> Missing]
    BY <1>1 DEF SynAck
  <2>2. Aligned(request'.bytes, 0, got', 0, una')
    <3>1. Aligned(request'.bytes, 0, got', 0, 0)
      BY AlignedInPlace
    <3> QED
      BY <2>1, <3>1
  <2>3. \A i \in DOMAIN got' : got'[i] = Missing
    BY <2>1
  <2>4. got' = [i \in DOMAIN got' |-> got'[i]]
    BY <2>1
  <2> QED
    BY <2>1, <2>2, <2>3, <2>4 DEF WholeInv, NothingAhead, Has
<1>2. CASE Send
  <2>1. UNCHANGED <<request, una, window, got>>
    BY <1>2 DEF Send, connection
  <2>2. WholeInv
    BY <2>1 DEF FromClient
  <2>3. \A p \in wire' : p.flaw = "none" => WholePacket(p)
    BY <1>2, <2>2, SendAddsWhole DEF WholeInv
  <2> QED
    BY <2>1, <2>2, <2>3, WholeKept
<1>3. ASSUME NEW p \in wire, Deliver(p)
      PROVE  WholeInv'
  <2>1. /\ UNCHANGED <<request, una, window>> /\ wire' \subseteq wire
        /\ p.flaw \in {"none", "long"}
        /\ DOMAIN got' = DOMAIN got
        /\ \A i \in DOMAIN got : got'[i] = IF got[i] = Missing /\ Reaches(p, i)
                                          THEN p.data[i - p.from] ELSE got[i]
    BY <1>3 DEF Deliver
  <2>2. FromClient
    BY <2>1 DEF FromClient, Fake, Missing
  <2>3. CASE p.flaw = "none"
    BY <1>3, <2>2, <2>3, WholeDelivered
  <2>4. CASE p.flaw = "long"
    <3>1. ASSUME NEW i \in DOMAIN got
          PROVE  ~(got[i] = Missing /\ Reaches(p, i))
      <4> SUFFICES ASSUME got[i] = Missing, Reaches(p, i) PROVE FALSE
        OBVIOUS
      <4>1. got'[i] = Fake
        BY <2>1, <2>4, Brought
      <4> QED
        BY <2>1, <4>1 DEF FromClient
    <3>2. got' = [i \in DOMAIN got |-> got[i]]
      BY <1>3, <3>1 DEF Deliver
    <3>3. got' = got
      BY <2>2, <3>2 DEF WholeInv
    <3> QED
      BY <2>1, <2>2, <3>3, WholeKept DEF WholeInv
  <2> QED
    BY <2>1, <2>3, <2>4
<1>4. ASSUME NEW p \in wire, Lose(p)
      PROVE  WholeInv'
  <2>1. UNCHANGED <<request, una, window, got>> /\ wire' \subseteq wire
    BY <1>4 DEF Lose, connection
  <2>2. WholeInv
    BY <2>1 DEF FromClient
  <2> QED
    BY <2>1, <2>2, WholeKept DEF WholeInv
<1>5. CASE Ack
  <2>1. WholeInv
    BY <1>5 DEF Ack, FromClient
  <2> QED
    BY <1>5, <2>1, WholeAcked
<1>6. CASE UNCHANGED vars
  <2>1. UNCHANGED <<request, una, window, got, wire>>
    BY <1>6 DEF vars
  <2>2. WholeInv
    BY <2>1 DEF FromClient
  <2> QED
    BY <2>1, <2>2, WholeKept DEF WholeInv
<1> QED
  BY <1>1, <1>2, <1>3, <1>4, <1>5, <1>6 DEF Next

LEMMA WholeRead ==
    ASSUME TypeInv, WholeInv, \A i \in DOMAIN got : Has(i)
    PROVE  Meaning(got) = Meaning(request.bytes)
<1> DEFINE n == Len(request.bytes)
<1>1. /\ n \in Nat /\ DOMAIN got = 1..n /\ una \in 0..n
      /\ DOMAIN request.bytes = 1..n
      /\ Len(Segment) \in 0..(n - una)
      /\ una < n => Len(Segment) > 0
  BY PositionTypes, SegmentLength
<1> HIDE DEF n
<1>2. CASE NothingAhead
  <2>1. una = n
    <3> SUFFICES ASSUME una < n PROVE FALSE
      BY <1>1
    <3>1. una + 1 \in DOMAIN got /\ una + 1 > una
      BY <1>1
    <3> QED
      BY <1>2, <3>1 DEF NothingAhead
  <2>2. Aligned(request.bytes, 0, got, 0, n)
    BY <2>1 DEF WholeInv
  <2> QED
    BY <1>1, <2>2, AlignedMeaning
<1>3. CASE SegmentAhead
  <2>1. una + Len(Segment) = n
    <3> SUFFICES ASSUME una + Len(Segment) < n PROVE FALSE
      BY <1>1
    <3>1. una + Len(Segment) + 1 \in DOMAIN got
      BY <1>1
    <3> QED
      BY <1>1, <1>3, <3>1 DEF SegmentAhead
  <2>2. /\ Aligned(request.bytes, 0, got, 0, una)
        /\ Aligned(request.bytes, 0 + una, got, 0 + una, Len(Segment))
    <3>1. 0 + una = una
      BY <1>1
    <3> QED
      BY <1>3, <3>1 DEF WholeInv, SegmentAhead
  <2>3. una \in Nat /\ Len(Segment) \in Nat /\ 0 \in Nat
    BY <1>1
  <2>4. Aligned(request.bytes, 0, got, 0, n)
    BY <2>1, <2>2, <2>3, AlignedJoin
  <2> QED
    BY <1>1, <2>4, AlignedMeaning
<1> QED
  BY <1>2, <1>3 DEF WholeInv

-----------------------------------------------------------------------------
(* The server reads what the client sent.                                  *)

ReadInv ==
    /\ TypeInv
    /\ FakeInv
    /\ ~cfg.do_host_removespace => StreamInv
    /\ ~cfg.do_native_frag => (FromClient => WholeInv)

(* Whatever is edited, cut, faked, lost, reordered and sent again, with    *)
(* whatever sizes and windows, the server reads the request                *)
(* (ServerReadsRequest): where the space stays, each byte is in its place; *)
(* where nothing is cut, what arrives are segments that each say what the  *)
(* client's say.                                                           *)
THEOREM RequestRead == Spec => []ServerReadsRequest
<1>1. Init => ReadInv
  BY TypeInit, FakeInit, StreamInit, WholeInit DEF ReadInv
<1>2. ASSUME ReadInv, [Next]_vars
      PROVE  ReadInv'
  <2>1. TypeInv' /\ FakeInv'
    BY <1>2, TypeStep, FakeStep DEF ReadInv
  <2>2. cfg' = cfg
    BY <1>2, SettingsStay
  <2>3. (~cfg.do_host_removespace)' => StreamInv'
    BY <1>2, <2>2, StreamStep DEF ReadInv
  <2>4. (~cfg.do_native_frag)' => (FromClient => WholeInv)'
    BY <1>2, <2>2, WholeStep DEF ReadInv
  <2> QED
    BY <2>1, <2>3, <2>4 DEF ReadInv
<1>3. ReadInv => ServerReadsRequest
  BY StreamRead, WholeRead DEF ReadInv, FakeInv, ServerReadsRequest, EditsAndCuts
<1> QED
  BY <1>1, <1>2, <1>3, PTL DEF Spec

-----------------------------------------------------------------------------
(* The allowlist: loaded again only when one is loaded, it stays empty.    *)

AllowlistEmpty == allowlist = {}

LEMMA AllowlistInit == Init => AllowlistEmpty
BY DEF Init, AllowlistEmpty

LEMMA AllowlistStays ==
    ASSUME AllowlistEmpty, [Next]_vars
    PROVE  AllowlistEmpty'
<1>1. CASE Send
  <2>1. \/ UNCHANGED allowlist
        \/ \E sni \in extract_sni(Segment) : Consult(Segment, sni)
    BY <1>1 DEF Send, HelloTreated, RequestTreated, SegmentPassed
  <2> QED
    BY <2>1 DEF Consult, LoadAllowlist, AllowlistEmpty
<1> QED
  BY <1>1 DEF Next, SynAck, Deliver, Lose, Ack, vars, AllowlistEmpty

-----------------------------------------------------------------------------
(* The name apart from the start of the request.                           *)

(* Settings that fragment all they treat, and whose blacklist belongs to   *)
(* the filter mode.                                                        *)
CutsAll(c) ==
    c.do_native_frag =>
       /\ c.do_fragment_http /\ c.do_fragment_https
       /\ c.do_fragment_http_persistent \/ c.do_fake_packet
       /\ c.active_filter_mode \in 0..3
       /\ c.do_blacklist => c.active_filter_mode = 1

ApartInv ==
    /\ TypeInv
    /\ AllowlistEmpty
    /\ cfg.do_native_frag /\ una = 0 => window \in Windows \cup {Mss}
    /\ NameApartFromStart

(* Where an edited segment shows the name, the client's segment shows it   *)
(* there, or next to it.                                                   *)
LEMMA EditedNameless ==
    ASSUME NEW data \in Seq(Byte), NEW value \in HostValues(data),
           NEW n \in Nat, Nameless(data, n + 1)
    PROVE  Nameless(Edited(data, value), n)
<1> DEFINE new == Edited(data, value)
<1>1. PICK named \in Seq(Byte) :
              /\ Len(named) = Len(data)
              /\ \A i \in 1..Len(data) : Folded(named[i]) = Folded(data[i])
              /\ named[value[1] - 1] = "space"
              /\ \/ new = named
                 \/ \E to \in 1..Len(data) : new = SpaceMoved(named, value[1], to)
  BY EditedIs
<1>2. value[1] \in 2..Len(named) /\ Len(data) \in Nat
  BY <1>1, ValueInData DEF HostValues
<1>3. new \in Seq(Byte) /\ Len(new) = Len(data)
  BY EditKeepsLength
<1> HIDE DEF new
<1>4. \A i \in 1..Len(data) : i <= n + 1 => named[i] \notin {"h", "H"}
  <2> SUFFICES ASSUME NEW i \in 1..Len(data), i <= n + 1
               PROVE  named[i] \notin {"h", "H"}
    OBVIOUS
  <2>1. data[i] \notin {"h", "H"}
    BY DEF Nameless
  <2>2. Folded(named[i]) = Folded(data[i])
    BY <1>1
  <2> QED
    BY <2>1, <2>2 DEF Folded
<1>5. ASSUME NEW i \in 1..Len(data), i <= n
      PROVE  new[i] \notin {"h", "H"}
  <2>1. CASE new = named
    BY <1>4, <1>5, <2>1
  <2>2. ASSUME NEW to \in 1..Len(data), new = SpaceMoved(named, value[1], to)
        PROVE  new[i] \notin {"h", "H"}
    <3>1. new[i] = Shifted(named, value[1], to, i)
      BY <1>1, <1>2, <2>2, SpaceMovedAt
    <3>2. \/ Shifted(named, value[1], to, i) = "space"
          \/ \E j \in {i - 1, i, i + 1} : /\ j \in 1..Len(data)
                                        /\ Shifted(named, value[1], to, i) = named[j]
      BY <1>1, <1>2 DEF Shifted
    <3>3. \A j \in {i - 1, i, i + 1} : j <= n + 1
      BY <1>5
    <3> QED
      BY <1>4, <3>1, <3>2, <3>3
  <2> QED
    BY <1>1, <2>1, <2>2
<1> QED
  BY <1>3, <1>5 DEF Nameless, new

(* The fragment with the beginning is no longer than the fragment size.    *)
LEMMA FirstFragment ==
    ASSUME NEW data \in Seq(Byte), Len(data) > 0, NEW size \in Nat \ {0},
           NEW p \in Fragments(0, data, size), p.from = 0
    PROVE  /\ p.data \in Seq(Byte)
           /\ Len(p.data) <= size /\ Len(p.data) <= Len(data)
           /\ \A j \in 1..Len(p.data) : p.data[j] = data[j]
<1>1. CASE size >= Len(data)
  BY <1>1 DEF Fragments, Plain
<1>2. CASE size < Len(data)
  <2> DEFINE first  == SubSeq(data, 1, size)
             second == SubSeq(data, size + 1, Len(data))
  <2>1. Fragments(0, data, size) = {Plain(0, first), Plain(0 + size, second)}
    BY <1>2 DEF Fragments
  <2>2. /\ first \in Seq(Byte) /\ Len(first) = size
        /\ \A j \in 1..size : first[j] = data[j]
    BY <1>2
  <2> HIDE DEF first, second
  <2>3. p = Plain(0, first)
    <3>1. Plain(0 + size, second).from # 0
      BY DEF Plain
    <3> QED
      BY <2>1, <3>1
  <2> QED
    BY <1>2, <2>2, <2>3 DEF Plain
<1> QED
  BY <1>1, <1>2

LEMMA NamelessBytes ==
    ASSUME NEW p, NEW data \in Seq(Byte), NEW n \in Nat, Nameless(data, n),
           p.data \in Seq(Byte), Len(p.data) <= n, Len(p.data) <= Len(data),
           \A j \in 1..Len(p.data) : p.data[j] = data[j]
    PROVE  {"h", "H"} \cap Bytes(p) = {}
<1>1. \A j \in 1..Len(p.data) : j \in DOMAIN data /\ j <= n
  OBVIOUS
<1>2. \A j \in 1..Len(p.data) : p.data[j] \notin {"h", "H"}
  BY <1>1 DEF Nameless
<1> QED
  BY <1>2 DEF Bytes

(* The first segment a client sends, and what the loop makes of it.        *)
LEMMA FirstSegmentSeen ==
    ASSUME ApartInv, cfg.do_native_frag, CutsAll(cfg), Targeted,
           request \in Request, NameIsCutOff(request, cfg),
           una = 0, una < Len(request.bytes), NEW sni \in extract_sni(Segment)
    PROVE  \/ Nameless(Segment, Len(Segment))
           \/ /\ HelloSeen(Segment) /\ ~HelloExcluded(Segment, sni)
              /\ HelloTargeted(sni)
              /\ request.https /\ Fragmented(sni)
              /\ Nameless(Segment, FragmentSize(sni))
           \/ /\ RequestSeen(Segment) /\ RequestTargeted
              /\ ~request.https
              /\ Nameless(Segment, cfg.http_fragment_size + 1)
<1>1. /\ request.bytes \in Seq(Byte) /\ window \in Windows \cup {Mss}
      /\ cfg \in Config /\ request.https \in BOOLEAN
      /\ window \in Nat \ {0}
  BY PositionTypes, RequestAssumption DEF ApartInv, TypeInv, TypeOK
<1>2. /\ cfg.do_fragment_http /\ cfg.do_fragment_https
      /\ cfg.do_fragment_http_persistent \/ cfg.do_fake_packet
      /\ cfg.active_filter_mode \in 0..3
      /\ cfg.do_blacklist => cfg.active_filter_mode = 1
      /\ cfg.http_fragment_size \in Nat \ {0}
      /\ cfg.https_fragment_size \in Nat \ {0}
  BY <1>1, ConfigAssumption DEF CutsAll
<1>3. /\ cfg.do_blacklist => Listed(host, Blacklist)
      /\ cfg.active_filter_mode = 3 => GamingHost(host)
      /\ LookedAt /\ RequestTargeted
  <2>1. cfg.active_filter_mode = 1 => Listed(host, Blacklist)
    BY DEF Targeted
  <2>2. cfg.active_filter_mode = 2 => selected
    BY DEF Targeted
  <2>3. cfg.active_filter_mode = 3 => GamingHost(host)
    BY DEF Targeted
  <2> QED
    BY <1>2, <2>1, <2>2, <2>3 DEF LookedAt, RequestTargeted
<1>4. Segment \in Seq(Byte)
  BY <1>1, SegmentIsPart
<1>5. Segment = FirstSegment(request, window)
  <2>1. Low(0 + Low(window, Mss), Len(request.bytes))
           = Low(Low(window, Mss), Len(request.bytes))
    BY <1>1, BoundAssumption DEF Low
  <2>2. 0 + 1 = 1
    OBVIOUS
  <2> QED
    BY <2>1, <2>2 DEF Segment, FirstSegment
<1>6. \/ Nameless(Segment, Len(Segment))
      \/ request.https /\ HelloCutOff(Segment, cfg)
      \/ ~request.https /\ RequestCutOff(Segment, cfg)
  BY <1>1, <1>5 DEF NameIsCutOff
<1>7. CASE request.https /\ HelloCutOff(Segment, cfg)
  <2>1. /\ Len(Segment) > 16 /\ IsHello(Segment)
        /\ SniWhole(Segment) # {} /\ SniTorn(Segment) = {}
        /\ \A i \in SniWhole(Segment) :
              Nameless(Segment, IF cfg.do_fragment_by_sni THEN i
                                ELSE cfg.https_fragment_size)
    BY <1>7 DEF HelloCutOff
  <2>2. PICK i \in SniWhole(Segment) : sni = <<i + 1, host>>
    BY <2>1 DEF extract_sni
  <2>3. i \in Nat \ {0}
    BY <1>4 DEF SniWhole
  <2>4. sni[1] = i + 1 /\ sni[2] = host /\ HasName(sni)
    BY <2>2, <2>3 DEF HasName
  <2>5. HelloSeen(Segment)
    BY <1>2, <1>3, <1>7, <2>1 DEF HelloSeen
  <2>6. ~HelloExcluded(Segment, sni)
    BY DEF HelloExcluded, IsAllowlisted, ApartInv, AllowlistEmpty
  <2>7. HelloTargeted(sni)
    BY <1>3, <2>4 DEF HelloTargeted
  <2>8. FragmentSize(sni) = IF cfg.do_fragment_by_sni THEN sni[1] - 1
                            ELSE cfg.https_fragment_size
    BY <1>2, <1>7, <2>4 DEF FragmentSize
  <2>9. FragmentSize(sni) = IF cfg.do_fragment_by_sni THEN i
                            ELSE cfg.https_fragment_size
    BY <2>3, <2>4, <2>8
  <2>10. Fragmented(sni)
    BY <1>2, <2>3, <2>9 DEF Fragmented
  <2> QED
    BY <1>7, <2>1, <2>5, <2>6, <2>7, <2>9, <2>10
<1>8. CASE ~request.https /\ RequestCutOff(Segment, cfg)
  <2>1. /\ Len(Segment) > 16
        /\ SubSeq(Segment, 1, 4) = <<"G", "E", "T", "space">>
        /\ find_header_and_get_info(Segment, "Host") # {}
        /\ Nameless(Segment, cfg.http_fragment_size + 1)
    BY <1>8 DEF RequestCutOff
  <2>2. 4 \in find_http_method_end(Segment)
    <3>1. Len(Segment) >= 4
      BY <1>4, <2>1
    <3> QED
      BY <2>1, <3>1 DEF find_http_method_end
  <2>3. RequestSeen(Segment)
    BY <1>2, <1>3, <1>8, <2>1, <2>2 DEF RequestSeen, HostValues
  <2> QED
    BY <1>3, <1>8, <2>1, <2>3
<1> QED
  BY <1>6, <1>7, <1>8

(* What a step of the client adds to the wire at the start of a request    *)
(* does not name the host.                                                 *)
LEMMA SendKeepsApart ==
    ASSUME ApartInv, cfg.do_native_frag, CutsAll(cfg), Targeted,
           request \in Request, NameIsCutOff(request, cfg), Send,
           NEW p \in wire', p \notin wire, p.from = 0, p.flaw = "none"
    PROVE  {"h", "H"} \cap Bytes(p) = {}
<1>1. /\ TypeOK /\ TypeInv
      /\ una \in Nat /\ una < Len(request.bytes)
      /\ window \in Nat \ {0}
      /\ request.bytes \in Seq(Byte)
      /\ cfg \in Config
  BY RequestType DEF ApartInv, TypeInv, TypeOK, Send
<1>2. /\ Segment \in Seq(Byte)
      /\ Len(Segment) \in 1..(Len(request.bytes) - una)
  BY <1>1, SegmentIsPart
<1> PICK sni \in extract_sni(Segment) :
          \/ HelloTreated(Segment, sni)
          \/ RequestTreated(Segment)
          \/ SegmentPassed(Segment, sni)
  BY DEF Send
<1>0. SniOK(sni) /\ SniOK(NoSni)
  BY <1>2, SniType
<1>3. ASSUME NEW data \in Seq(Byte), Len(data) = Len(Segment),
             NEW name, SniOK(name), NEW changed,
             SendTreated(data, name, changed)
      PROVE  /\ una = 0
             /\ p.data \in Seq(Byte)
             /\ Len(p.data) <= Len(data)
             /\ \A j \in 1..Len(p.data) : p.data[j] = data[j]
             /\ changed /\ Fragmented(name) => Len(p.data) <= FragmentSize(name)
  <2>1. /\ Sane(p) /\ BytesOK(p)
        /\ p.from >= una
        /\ p.from + Len(p.data) <= una + Len(data)
        /\ \A j \in 1..Len(p.data) : p.data[j] = data[p.from - una + j]
    BY <1>1, <1>2, <1>3, SendTreatedAdds
  <2>2. una = 0
    BY <1>1, <2>1
  <2>3. p.data \in Seq(Byte) /\ Len(p.data) \in Nat
    BY <2>1 DEF BytesOK
  <2>4. Len(p.data) <= Len(data)
    BY <1>2, <1>3, <2>1, <2>2, <2>3
  <2>5. \A j \in 1..Len(p.data) : p.data[j] = data[j]
    <3> SUFFICES ASSUME NEW j \in 1..Len(p.data) PROVE p.data[j] = data[j]
      OBVIOUS
    <3>1. p.from - una + j = j
      BY <2>2
    <3> QED
      BY <2>1, <3>1
  <2>6. ASSUME changed, Fragmented(name)
        PROVE  Len(p.data) <= FragmentSize(name)
    <3> DEFINE size == FragmentSize(name)
    <3>1. size \in Nat \ {0}
      BY <1>1, <1>3, <2>6, FragmentSizeType
    <3>2. PICK ttl \in TtlOfFake : p \in Fakes(ttl) \/ p \in Fragments(una, data, size)
      BY <1>3, <2>6 DEF SendTreated
    <3>3. p \notin Fakes(ttl)
      BY DEF Fakes
    <3>4. p \in Fragments(0, data, size) /\ Len(data) > 0
      BY <1>2, <1>3, <2>2, <3>2, <3>3
    <3> HIDE DEF size
    <3>5. Len(p.data) <= size
      BY <3>1, <3>4, FirstFragment
    <3> QED
      BY <3>5 DEF size
  <2> QED
    BY <2>2, <2>3, <2>4, <2>5, <2>6
<1>4. ASSUME SegmentPassed(Segment, sni)
      PROVE  una = 0 /\ p.data = Segment
  BY <1>4 DEF SegmentPassed, SendAsIs, Plain
<1>5. ASSUME RequestTreated(Segment)
      PROVE  \E value \in HostValues(Segment) :
                /\ Edited(Segment, value) \in Seq(Byte)
                /\ Len(Edited(Segment, value)) = Len(Segment)
                /\ SendTreated(Edited(Segment, value), NoSni, TRUE)
  <2>1. PICK value \in HostValues(Segment) :
           SendTreated(Edited(Segment, value), NoSni,
                       cfg.do_native_frag \/ IsEdited(Segment, value))
    BY <1>5 DEF RequestTreated
  <2>2. (cfg.do_native_frag \/ IsEdited(Segment, value)) = TRUE
    OBVIOUS
  <2>3. /\ Edited(Segment, value) \in Seq(Byte)
        /\ Len(Edited(Segment, value)) = Len(Segment)
    BY <1>2, EditKeepsLength
  <2>4. SendTreated(Edited(Segment, value), NoSni, TRUE)
    BY <2>1 DEF SendTreated
  <2> QED
    BY <2>3, <2>4
<1>6. una = 0
  <2>1. CASE HelloTreated(Segment, sni)
    BY <1>0, <1>2, <1>3, <2>1 DEF HelloTreated
  <2>2. CASE RequestTreated(Segment)
    BY <1>0, <1>3, <1>5, <2>2
  <2> QED
    BY <1>4, <2>1, <2>2
<1>7. CASE Nameless(Segment, Len(Segment))
  <2>1. ASSUME NEW data \in Seq(Byte), Len(data) = Len(Segment),
               NEW name, SniOK(name), NEW changed,
               SendTreated(data, name, changed), Nameless(data, Len(data))
        PROVE  {"h", "H"} \cap Bytes(p) = {}
    <3>1. /\ p.data \in Seq(Byte) /\ Len(p.data) <= Len(data)
          /\ \A j \in 1..Len(p.data) : p.data[j] = data[j]
      BY <1>3, <2>1
    <3>2. Len(data) \in Nat
      BY <1>2, <2>1
    <3> QED
      BY <2>1, <3>1, <3>2, NamelessBytes
  <2>2. CASE HelloTreated(Segment, sni)
    BY <1>0, <1>2, <1>7, <2>1, <2>2 DEF HelloTreated
  <2>3. CASE RequestTreated(Segment)
    <3>1. PICK value \in HostValues(Segment) :
                /\ Edited(Segment, value) \in Seq(Byte)
                /\ Len(Edited(Segment, value)) = Len(Segment)
                /\ SendTreated(Edited(Segment, value), NoSni, TRUE)
      BY <1>5, <2>3
    <3> DEFINE n == Len(Segment)
               new == Edited(Segment, value)
    <3>2. n \in Nat
      BY <1>2
    <3>3. Nameless(Segment, n + 1)
      BY <1>2, <1>7 DEF Nameless
    <3>4. Nameless(new, n)
      BY <1>2, <3>2, <3>3, EditedNameless
    <3>5. new \in Seq(Byte) /\ Len(new) = n /\ SendTreated(new, NoSni, TRUE)
      BY <3>1
    <3> HIDE DEF new
    <3>6. Nameless(new, Len(new))
      BY <3>4, <3>5
    <3> QED
      BY <1>0, <2>1, <3>5, <3>6
  <2>4. CASE SegmentPassed(Segment, sni)
    <3>1. p.data = Segment
      BY <1>4, <2>4
    <3> QED
      BY <1>2, <1>7, <3>1, NamelessBytes
  <2> QED
    BY <2>2, <2>3, <2>4
<1>8. CASE /\ HelloSeen(Segment) /\ ~HelloExcluded(Segment, sni)
           /\ HelloTargeted(sni)
           /\ request.https /\ Fragmented(sni)
           /\ Nameless(Segment, FragmentSize(sni))
  <2>1. SendTreated(Segment, sni, TRUE)
    <3>1. HelloTreated(Segment, sni)
      BY <1>8 DEF RequestTreated, RequestSeen, SegmentPassed
    <3> QED
      BY <3>1 DEF HelloTreated, SendTreated
  <2>2. FragmentSize(sni) \in Nat
    BY <1>0, <1>1, <1>8, FragmentSizeType
  <2>3. /\ p.data \in Seq(Byte) /\ Len(p.data) <= Len(Segment)
        /\ Len(p.data) <= FragmentSize(sni)
        /\ \A j \in 1..Len(p.data) : p.data[j] = Segment[j]
    BY <1>0, <1>2, <1>3, <1>8, <2>1
  <2> QED
    BY <1>2, <1>8, <2>2, <2>3, NamelessBytes
<1>9. CASE /\ RequestSeen(Segment) /\ RequestTargeted
           /\ ~request.https
           /\ Nameless(Segment, cfg.http_fragment_size + 1)
  <2>1. RequestTreated(Segment)
    BY <1>9 DEF HelloTreated, HelloSeen, SegmentPassed
  <2>2. PICK value \in HostValues(Segment) :
              /\ Edited(Segment, value) \in Seq(Byte)
              /\ Len(Edited(Segment, value)) = Len(Segment)
              /\ SendTreated(Edited(Segment, value), NoSni, TRUE)
    BY <1>5, <2>1
  <2> DEFINE new == Edited(Segment, value)
             size == cfg.http_fragment_size
  <2>3. size \in Nat \ {0} /\ cfg.do_fragment_http
    BY <1>1, ConfigAssumption DEF CutsAll
  <2>4. Nameless(new, size)
    BY <1>2, <1>9, <2>3, EditedNameless
  <2>5. new \in Seq(Byte) /\ Len(new) = Len(Segment) /\ SendTreated(new, NoSni, TRUE)
    BY <2>2
  <2> HIDE DEF new
  <2>6. FragmentSize(NoSni) = size /\ Fragmented(NoSni)
    BY <1>9, <2>3 DEF FragmentSize, Fragmented
  <2> HIDE DEF size
  <2>7. /\ p.data \in Seq(Byte) /\ Len(p.data) <= Len(new)
        /\ Len(p.data) <= size
        /\ \A j \in 1..Len(p.data) : p.data[j] = new[j]
    BY <1>0, <1>3, <2>5, <2>6
  <2> QED
    BY <2>3, <2>4, <2>5, <2>7, NamelessBytes
<1> QED
  BY <1>1, <1>6, <1>7, <1>8, <1>9, FirstSegmentSeen

LEMMA SameCutOff ==
    ASSUME UNCHANGED <<cfg, request>>
    PROVE  NameIsCutOff(request, cfg)' = NameIsCutOff(request, cfg)
BY DEF NameIsCutOff, HelloCutOff, RequestCutOff, Nameless, FirstSegment, IsHello,
       SniWhole, SniTorn, find_header_and_get_info

LEMMA ApartKept ==
    ASSUME NameApartFromStart, UNCHANGED <<cfg, request, host, selected>>,
           wire' \subseteq wire
    PROVE  NameApartFromStart'
<1>1. Targeted' = Targeted
  BY DEF Targeted, GamingHost, GamingName
<1>2. \A p : Bytes(p)' = Bytes(p)
  BY DEF Bytes
<1>3. NameIsCutOff(request, cfg)' = NameIsCutOff(request, cfg)
  BY SameCutOff
<1> QED
  BY <1>1, <1>2, <1>3 DEF NameApartFromStart

LEMMA ApartStep ==
    ASSUME \A c \in Config : CutsAll(c),
           ApartInv, [Next]_vars
    PROVE  ApartInv'
<1>1. TypeInv' /\ AllowlistEmpty'
  BY TypeStep, AllowlistStays DEF ApartInv
<1>2. cfg' = cfg /\ cfg \in Config
  BY DEF Next, SynAck, Send, Deliver, Lose, Ack, vars, ApartInv, TypeInv, TypeOK
<1>3. ASSUME NEW r \in Request, SynAck(r)
      PROVE  ApartInv'
  <2>1. NameApartFromStart'
    BY <1>3 DEF SynAck, NameApartFromStart
  <2>2. (cfg.do_native_frag /\ una = 0 => window \in Windows \cup {Mss})'
    BY <1>2, <1>3 DEF SynAck, WindowSize
  <2> QED
    BY <1>1, <2>1, <2>2 DEF ApartInv
<1>4. CASE Send
  <2>1. UNCHANGED <<cfg, request, host, selected, una, window>>
    BY <1>4 DEF Send, connection
  <2>2. request \in Request
    <3>1. request.bytes # << >>
      BY <1>4 DEF Send, ApartInv, TypeInv, TypeOK
    <3> QED
      BY <3>1 DEF ApartInv, TypeInv, TypeOK
  <2>3. ASSUME cfg.do_native_frag, Targeted, NameIsCutOff(request, cfg),
               NEW p \in wire', p.from = 0, p.flaw = "none"
        PROVE  {"h", "H"} \cap Bytes(p) = {}
    <3>1. CASE p \in wire
      BY <2>3, <3>1 DEF ApartInv, NameApartFromStart
    <3>2. CASE p \notin wire
      BY <1>2, <1>4, <2>2, <2>3, <3>2, SendKeepsApart
    <3> QED
      BY <3>1, <3>2
  <2>4. Targeted' = Targeted
    BY <2>1 DEF Targeted, GamingHost, GamingName
  <2>5. NameIsCutOff(request, cfg)' = NameIsCutOff(request, cfg)
    BY <2>1, SameCutOff
  <2>6. NameApartFromStart'
    BY <2>1, <2>3, <2>4, <2>5 DEF NameApartFromStart, Bytes
  <2> QED
    BY <1>1, <2>1, <2>6 DEF ApartInv
<1>5. ASSUME NEW p \in wire, Deliver(p) \/ Lose(p)
      PROVE  ApartInv'
  <2>1. UNCHANGED <<cfg, request, host, selected, una, window>> /\ wire' \subseteq wire
    BY <1>5 DEF Deliver, Lose, connection
  <2> QED
    BY <1>1, <2>1, ApartKept DEF ApartInv
<1>6. CASE Ack
  <2>1. UNCHANGED <<cfg, request, host, selected>> /\ wire' \subseteq wire
        /\ window' = Mss
    BY <1>6 DEF Ack
  <2> QED
    BY <1>1, <2>1, ApartKept DEF ApartInv
<1>7. CASE UNCHANGED vars
  <2>1. UNCHANGED <<cfg, request, host, selected, una, window>> /\ wire' \subseteq wire
    BY <1>7 DEF vars
  <2> QED
    BY <1>1, <2>1, ApartKept DEF ApartInv
<1> QED
  BY <1>3, <1>4, <1>5, <1>6, <1>7 DEF Next

(* Native fragmentation hides the name of a targeted host                  *)
(* (NameApartFromStart), whatever is lost and sent again, edited or not,   *)
(* and whatever the windows: a request whose name can be cut off in each   *)
(* of them is cut before the name every time it is sent from its start.    *)
THEOREM NameHidden ==
    ASSUME \A c \in Config : CutsAll(c)
    PROVE  Spec => []NameApartFromStart
<1>1. Init => ApartInv
  BY TypeInit, AllowlistInit DEF ApartInv, NameApartFromStart, Init
<1>2. ApartInv /\ [Next]_vars => ApartInv'
  BY ApartStep
<1>3. ApartInv => NameApartFromStart
  BY DEF ApartInv
<1> QED
  BY <1>1, <1>2, <1>3, PTL DEF Spec

-----------------------------------------------------------------------------
(* The modes of the interface.                                             *)

Interface ==
    {Hayalet_RunConfig(mode, filter, allow) :
        mode \in {m \in Int : m <= 0}, filter \in 0..3, allow \in BOOLEAN}

(* Every mode is one of three kinds: nothing done to segments, edits and   *)
(* small windows, or fragments and fakes.                                  *)
LEMMA ModeKinds ==
    ASSUME NEW mode \in Int, mode <= 0, NEW c, c = ApplyEngineMode(mode)
    PROVE  /\ c.http_fragment_size = 2 /\ c.https_fragment_size \in {2, 40}
           /\ ~c.do_allow_no_sni
           /\ \/ ~c.do_native_frag /\ ~c.do_fake_packet
              \/ /\ c.do_native_frag /\ ~c.do_host_removespace
                 /\ c.do_fragment_http /\ c.do_fragment_https
                 /\ c.do_fragment_http_persistent
<1>1. \/ mode = 0 \/ mode = -1 \/ mode = -2 \/ mode = -3 \/ mode = -4
      \/ mode = -5 \/ mode = -6 \/ mode <= -7
  OBVIOUS
<1>2. CASE mode = 0
  <2>1. c = Off
    BY <1>2 DEF ApplyEngineMode
  <2> QED
    BY <2>1 DEF Native, Windowed, Off
<1>3. CASE mode = -1
  <2>1. c = Windowed
    BY <1>3 DEF ApplyEngineMode
  <2> QED
    BY <2>1 DEF Native, Windowed, Off
<1>4. CASE mode = -2
  <2>1. c = [Windowed EXCEPT !.https_fragment_size = 40]
    BY <1>4 DEF ApplyEngineMode
  <2> QED
    BY <2>1 DEF Native, Windowed, Off
<1>5. CASE mode = -3
  <2>1. c = [Windowed EXCEPT !.https_fragment_size = 40,
                              !.do_fragment_http = FALSE,
                              !.do_fragment_http_persistent = FALSE]
    BY <1>5 DEF ApplyEngineMode
  <2> QED
    BY <2>1 DEF Native, Windowed, Off
<1>6. CASE mode = -4
  <2>1. c = [Windowed EXCEPT !.do_fragment_http = FALSE,
                              !.do_fragment_https = FALSE,
                              !.do_fragment_http_persistent = FALSE]
    BY <1>6 DEF ApplyEngineMode
  <2> QED
    BY <2>1 DEF Native, Windowed, Off
<1>7. CASE mode = -5
  <2>1. c = [Native EXCEPT !.do_auto_ttl = TRUE]
    BY <1>7 DEF ApplyEngineMode
  <2> QED
    BY <2>1 DEF Native, Windowed, Off
<1>8. CASE mode = -6
  <2>1. c = [Native EXCEPT !.do_wrong_seq = TRUE]
    BY <1>8 DEF ApplyEngineMode
  <2> QED
    BY <2>1 DEF Native, Windowed, Off
<1>9. CASE mode <= -7
  <2>1. c = [Native EXCEPT !.do_wrong_chksum = TRUE,
                            !.do_wrong_seq = mode <= -8]
    BY <1>9 DEF ApplyEngineMode
  <2> QED
    BY <2>1 DEF Native, Windowed, Off
<1> QED
  BY <1>1, <1>2, <1>3, <1>4, <1>5, <1>6, <1>7, <1>8, <1>9

LEMMA InterfaceSettings ==
    ASSUME NEW c \in Interface
    PROVE  /\ ~c.do_native_frag \/ ~c.do_host_removespace
           /\ c.active_filter_mode \in 0..3
           /\ c.do_blacklist <=> c.active_filter_mode = 1
           /\ ~c.do_allow_no_sni
           /\ c.do_fake_packet =>
                 c.do_native_frag /\ c.do_fragment_http /\ c.do_fragment_https
           /\ CutsAll(c)
<1>1. PICK mode \in {m \in Int : m <= 0}, filter \in 0..3, allow \in BOOLEAN :
         c = Hayalet_RunConfig(mode, filter, allow)
  BY DEF Interface
<1> DEFINE e == ApplyEngineMode(mode)
<1>2. /\ ~e.do_allow_no_sni
      /\ \/ ~e.do_native_frag /\ ~e.do_fake_packet
         \/ /\ e.do_native_frag /\ ~e.do_host_removespace
            /\ e.do_fragment_http /\ e.do_fragment_https
            /\ e.do_fragment_http_persistent
  BY ModeKinds
<1>3. /\ "do_blacklist" \in DOMAIN e /\ "active_filter_mode" \in DOMAIN e
  <2>1. DOMAIN e = DOMAIN Off
    BY DEF ApplyEngineMode, Windowed, Native
  <2> QED
    BY <2>1 DEF Off
<1> HIDE DEF e
<1>4. c = [e EXCEPT !.active_filter_mode = filter,
                    !.allowlist_enabled = allow,
                    !.do_blacklist = filter = 1]
  BY <1>1 DEF Hayalet_RunConfig, e
<1>5. /\ c.active_filter_mode = filter /\ c.do_blacklist = (filter = 1)
      /\ c.do_allow_no_sni = e.do_allow_no_sni
      /\ c.do_native_frag = e.do_native_frag
      /\ c.do_fake_packet = e.do_fake_packet
      /\ c.do_fragment_http = e.do_fragment_http
      /\ c.do_fragment_https = e.do_fragment_https
      /\ c.do_fragment_http_persistent = e.do_fragment_http_persistent
      /\ c.do_host_removespace = e.do_host_removespace
  BY <1>3, <1>4
<1> QED
  BY <1>1, <1>2, <1>5 DEF CutsAll

(* With any mode, filter and list of the interface, and whatever the       *)
(* network does: the server reads the request (ServerReadsRequest, and no  *)
(* mode is one of the settings it excepts), the segments of whom the       *)
(* filter is not about are sent as they came (BystanderAsSent), and the    *)
(* statistics make sense (RatioBounded).  A server may read a fake in      *)
(* place of the request in modes that measure a TTL for their fakes        *)
(* (FakesByTtl), and a bystander's SYN/ACK may have its window changed.    *)
THEOREM InterfaceSafe ==
    ASSUME Config \subseteq Interface
    PROVE  Spec => /\ [](ServerReadsRequest /\ ~EditsAndCuts)
                   /\ BystanderAsSent
                   /\ []RatioBounded
<1>1. ListsFollowMode
  BY InterfaceSettings DEF ListsFollowMode
<1>2. FakesAreCut
  BY InterfaceSettings DEF FakesAreCut
<1>3. TypeOK => ~EditsAndCuts
  BY InterfaceSettings DEF TypeOK, EditsAndCuts
<1>4. Spec => [](ServerReadsRequest /\ ~EditsAndCuts)
  BY <1>3, RequestRead, TypeCorrect, PTL
<1>5. Spec => BystanderAsSent
  BY <1>1, BystandersAsSent
<1>6. Spec => []RatioBounded
  BY <1>2, CountsPlausible
<1> QED
  BY <1>4, <1>5, <1>6

(* The same modes hide the name of whom they target in every request whose *)
(* name can be cut off (NameApartFromStart).                               *)
THEOREM InterfaceHidesName ==
    ASSUME Config \subseteq Interface
    PROVE  Spec => []NameApartFromStart
<1>1. \A c \in Config : CutsAll(c)
  BY InterfaceSettings
<1> QED
  BY <1>1, NameHidden

=============================================================================
