---------------------------- MODULE DataProofs ----------------------------
(***************************************************************************)
(* Facts about the data the components share, cited by their proofs: what  *)
(* running the head of a handler queue and posting at its end do to the    *)
(* handlers of a set K of kinds (H is the set of handlers), induction over *)
(* the naturals, and the folds of the community modules over finite sets.  *)
(***************************************************************************)
EXTENDS HandlerQueue, Integers, FiniteSetTheorems, WellFoundedInduction, TLAPS

-----------------------------------------------------------------------------
(* Handler queues.                                                         *)

LEMMA TailElements ==
  ASSUME NEW H, NEW r \in Seq(H), r # <<>>
  PROVE  /\ 1 \in DOMAIN r /\ r[1] = Head(r)
         /\ \A i \in DOMAIN Tail(r) : i + 1 \in DOMAIN r /\ Tail(r)[i] = r[i + 1]
         /\ \A i \in DOMAIN r : i # 1 => /\ i - 1 \in DOMAIN Tail(r)
                                         /\ Tail(r)[i - 1] = r[i]
  OBVIOUS

LEMMA AppendElements ==
  ASSUME NEW H, NEW r \in Seq(H), NEW h \in H
  PROVE  /\ Len(r) + 1 \in DOMAIN Append(r, h) /\ Append(r, h)[Len(r) + 1] = h
         /\ \A i \in DOMAIN r : i \in DOMAIN Append(r, h) /\ Append(r, h)[i] = r[i]
         /\ \A i \in DOMAIN Append(r, h) :
               \/ i \in DOMAIN r /\ Append(r, h)[i] = r[i]
               \/ i = Len(r) + 1 /\ Append(r, h)[i] = h
  OBVIOUS

LEMMA RunKinds ==
  ASSUME NEW H, NEW r \in Seq(H), r # <<>>, NEW K, AtMostOne(r, K)
  PROVE  /\ AtMostOne(Tail(r), K)
         /\ Head(r).kind \in K => ~Waiting(Tail(r), K)
         /\ Head(r).kind \notin K => (Waiting(Tail(r), K) <=> Waiting(r, K))
<1>1. AtMostOne(Tail(r), K)
  <2> SUFFICES ASSUME NEW i \in DOMAIN Tail(r), NEW j \in DOMAIN Tail(r),
                      Tail(r)[i].kind \in K, Tail(r)[j].kind \in K
               PROVE  i = j
    BY DEF AtMostOne
  <2>1. i + 1 = j + 1
    BY TailElements DEF AtMostOne
  <2>2. i \in Int /\ j \in Int
    OBVIOUS
  <2> QED BY <2>1, <2>2
<1>2. ASSUME Head(r).kind \in K PROVE ~Waiting(Tail(r), K)
  <2> SUFFICES ASSUME NEW i \in DOMAIN Tail(r), Tail(r)[i].kind \in K PROVE FALSE
    BY DEF Waiting
  <2>1. i + 1 = 1
    BY <1>2, TailElements DEF AtMostOne
  <2>2. i \in Nat \ {0}
    OBVIOUS
  <2> QED BY <2>1, <2>2
<1>3. ASSUME Head(r).kind \notin K PROVE Waiting(Tail(r), K) <=> Waiting(r, K)
  BY <1>3, TailElements DEF Waiting
<1> QED BY <1>1, <1>2, <1>3

LEMMA PostKinds ==
  ASSUME NEW H, NEW r \in Seq(H), NEW h \in H, NEW K
  PROVE  /\ h.kind \notin K => /\ Waiting(Append(r, h), K) <=> Waiting(r, K)
                               /\ AtMostOne(r, K) => AtMostOne(Append(r, h), K)
         /\ h.kind \in K => /\ Waiting(Append(r, h), K)
                            /\ ~Waiting(r, K) => AtMostOne(Append(r, h), K)
<1>1. ASSUME h.kind \notin K
      PROVE  Waiting(Append(r, h), K) <=> Waiting(r, K)
  BY <1>1, AppendElements DEF Waiting
<1>2. ASSUME h.kind \notin K, AtMostOne(r, K)
      PROVE  AtMostOne(Append(r, h), K)
  BY <1>2, AppendElements DEF AtMostOne
<1>3. ASSUME h.kind \in K
      PROVE  Waiting(Append(r, h), K)
  BY <1>3, AppendElements DEF Waiting
<1>4. ASSUME h.kind \in K, ~Waiting(r, K)
      PROVE  AtMostOne(Append(r, h), K)
  BY <1>4, AppendElements DEF Waiting, AtMostOne
<1> QED BY <1>1, <1>2, <1>3, <1>4

LEMMA ConcatElements ==
  ASSUME NEW H, NEW r \in Seq(H), NEW s \in Seq(H)
  PROVE  /\ r \o s \in Seq(H) /\ Len(r) \in Nat
         /\ \A i \in DOMAIN r : i \in DOMAIN (r \o s) /\ (r \o s)[i] = r[i]
         /\ \A i \in DOMAIN s : /\ Len(r) + i \in DOMAIN (r \o s)
                                /\ (r \o s)[Len(r) + i] = s[i]
         /\ \A i \in DOMAIN (r \o s) :
               \/ i \in DOMAIN r /\ (r \o s)[i] = r[i]
               \/ i - Len(r) \in DOMAIN s /\ (r \o s)[i] = s[i - Len(r)]
  OBVIOUS

\* Every handler of t comes from r or from s.
From(t, r, s) == \A i \in DOMAIN t : \/ \E j \in DOMAIN r : t[i] = r[j]
                                    \/ \E j \in DOMAIN s : t[i] = s[j]

LEMMA ConcatOrigin ==
  ASSUME NEW H, NEW r \in Seq(H), NEW s \in Seq(H)
  PROVE  From(r \o s, r, s)
  BY ConcatElements DEF From

LEMMA ConcatKinds ==
  ASSUME NEW H, NEW r \in Seq(H), NEW s \in Seq(H), NEW K
  PROVE  /\ Waiting(r \o s, K) <=> Waiting(r, K) \/ Waiting(s, K)
         /\ AtMostOne(r, K) /\ AtMostOne(s, K) /\ (Waiting(s, K) => ~Waiting(r, K))
              => AtMostOne(r \o s, K)
<1>1. Waiting(r \o s, K) => Waiting(r, K) \/ Waiting(s, K)
  BY ConcatElements DEF Waiting
<1>2. Waiting(r, K) \/ Waiting(s, K) => Waiting(r \o s, K)
  <2>1. ASSUME Waiting(r, K) PROVE Waiting(r \o s, K)
    BY <2>1, ConcatElements DEF Waiting
  <2>2. ASSUME Waiting(s, K) PROVE Waiting(r \o s, K)
    <3>1. PICK i \in DOMAIN s : s[i].kind \in K
      BY <2>2 DEF Waiting
    <3>2. Len(r) + i \in DOMAIN (r \o s) /\ (r \o s)[Len(r) + i].kind \in K
      BY <3>1, ConcatElements
    <3> QED BY <3>2 DEF Waiting
  <2> QED BY <2>1, <2>2
<1>3. ASSUME AtMostOne(r, K), AtMostOne(s, K), Waiting(s, K) => ~Waiting(r, K),
             NEW i \in DOMAIN (r \o s), NEW j \in DOMAIN (r \o s),
             (r \o s)[i].kind \in K, (r \o s)[j].kind \in K
      PROVE  i = j
  <2>1. i \in Int /\ j \in Int /\ Len(r) \in Int
    BY ConcatElements
  <2>2. CASE /\ i \in DOMAIN r /\ (r \o s)[i] = r[i]
             /\ j \in DOMAIN r /\ (r \o s)[j] = r[j]
    BY <1>3, <2>2 DEF AtMostOne
  <2>3. CASE /\ i - Len(r) \in DOMAIN s /\ (r \o s)[i] = s[i - Len(r)]
             /\ j - Len(r) \in DOMAIN s /\ (r \o s)[j] = s[j - Len(r)]
    <3>1. i - Len(r) = j - Len(r)
      BY <1>3, <2>3 DEF AtMostOne
    <3> QED BY <2>1, <3>1
  <2>4. ~(/\ i \in DOMAIN r /\ (r \o s)[i] = r[i]
          /\ j - Len(r) \in DOMAIN s /\ (r \o s)[j] = s[j - Len(r)])
    BY <1>3 DEF Waiting
  <2>5. ~(/\ j \in DOMAIN r /\ (r \o s)[j] = r[j]
          /\ i - Len(r) \in DOMAIN s /\ (r \o s)[i] = s[i - Len(r)])
    BY <1>3 DEF Waiting
  <2> QED BY SMTT(20), ConcatElements, <2>2, <2>3, <2>4, <2>5
<1>4. AtMostOne(r, K) /\ AtMostOne(s, K) /\ (Waiting(s, K) => ~Waiting(r, K))
        => AtMostOne(r \o s, K)
  BY <1>3 DEF AtMostOne
<1> QED BY <1>1, <1>2, <1>4

-----------------------------------------------------------------------------
(* How many handlers of the kinds K a queue holds.                         *)

Those(r, K) == {i \in DOMAIN r : r[i].kind \in K}

LEMMA ThoseFinite ==
  ASSUME NEW H, NEW r \in Seq(H), NEW K
  PROVE  IsFiniteSet(Those(r, K)) /\ HowMany(r, K) = Cardinality(Those(r, K))
                                  /\ HowMany(r, K) \in Nat
<1>1. DOMAIN r = 1..Len(r) /\ Len(r) \in Int
  OBVIOUS
<1>2. IsFiniteSet(DOMAIN r)
  BY <1>1, FS_Interval
<1>3. IsFiniteSet(Those(r, K))
  BY <1>2, FS_Subset DEF Those
<1> QED BY <1>3, FS_CardinalityType DEF Those, HowMany

LEMMA ConcatHowMany ==
  ASSUME NEW H, NEW r \in Seq(H), NEW s \in Seq(H), NEW K
  PROVE  HowMany(r \o s, K) = HowMany(r, K) + HowMany(s, K)
<1> DEFINE n == Len(r)
           A == Those(r, K)
           B == Those(s, K)
           C == {n + i : i \in B}
           f == [i \in B |-> n + i]
<1>1. n \in Nat /\ A \subseteq 1..n /\ B \subseteq Nat \ {0}
  BY DEF Those
<1>2. Those(r \o s, K) = A \cup C
  <2>1. ASSUME NEW i \in Those(r \o s, K) PROVE i \in A \cup C
    <3>1. i \in DOMAIN (r \o s) /\ (r \o s)[i].kind \in K /\ i \in Int
      BY <2>1, ConcatElements DEF Those
    <3>2. CASE i \in DOMAIN r /\ (r \o s)[i] = r[i]
      BY <3>1, <3>2 DEF Those
    <3>3. CASE i - n \in DOMAIN s /\ (r \o s)[i] = s[i - n]
      <4>1. i - n \in B /\ i = n + (i - n)
        BY <1>1, <3>1, <3>3 DEF Those
      <4> QED BY <4>1
    <3> QED BY <3>1, <3>2, <3>3, ConcatElements
  <2>2. A \subseteq Those(r \o s, K)
    BY ConcatElements DEF Those
  <2>3. C \subseteq Those(r \o s, K)
    BY ConcatElements DEF Those
  <2> QED BY <2>1, <2>2, <2>3
<1>3. A \cap C = {}
  BY <1>1
<1>4. f \in Bijection(B, C)
  BY <1>1 DEF Bijection, Injection, Surjection, IsInjective
<1>5. IsFiniteSet(A) /\ IsFiniteSet(B)
  BY ThoseFinite
<1>6. IsFiniteSet(C) /\ Cardinality(C) = Cardinality(B)
  BY <1>4, <1>5, FS_Bijection DEF ExistsBijection
<1>7. Cardinality(A \cup C) = Cardinality(A) + Cardinality(C)
  <2>1. Cardinality(A \cap C) = 0
    BY <1>3, FS_EmptySet
  <2>2. Cardinality(A \cup C) = Cardinality(A) + Cardinality(C) - Cardinality(A \cap C)
    BY <1>5, <1>6, FS_Union
  <2>3. Cardinality(A) \in Nat /\ Cardinality(C) \in Nat
    BY <1>5, <1>6, FS_CardinalityType
  <2> QED BY <2>1, <2>2, <2>3
<1>8. r \o s \in Seq(H)
  BY ConcatElements
<1> QED BY <1>2, <1>6, <1>7, <1>8, ThoseFinite

LEMMA NoneOrAll ==
  ASSUME NEW H, NEW r \in Seq(H), NEW K
  PROVE  /\ (\A i \in DOMAIN r : r[i].kind \notin K) => HowMany(r, K) = 0
         /\ (\A i \in DOMAIN r : r[i].kind \in K) => HowMany(r, K) = Len(r)
<1>1. ASSUME \A i \in DOMAIN r : r[i].kind \notin K PROVE HowMany(r, K) = 0
  <2>1. Those(r, K) = {}
    BY <1>1 DEF Those
  <2> QED BY <2>1, ThoseFinite, FS_EmptySet
<1>2. ASSUME \A i \in DOMAIN r : r[i].kind \in K PROVE HowMany(r, K) = Len(r)
  <2>1. Those(r, K) = 1..Len(r) /\ Len(r) \in Nat
    BY <1>2 DEF Those
  <2>2. Cardinality(1..Len(r)) = IF 1 > Len(r) THEN 0 ELSE Len(r) - 1 + 1
    BY <2>1, FS_Interval
  <2> QED BY <2>1, <2>2, ThoseFinite
<1> QED BY <1>1, <1>2

LEMMA AppendHowMany ==
  ASSUME NEW H, NEW r \in Seq(H), NEW h \in H, NEW K
  PROVE  HowMany(Append(r, h), K) = HowMany(r, K) + IF h.kind \in K THEN 1 ELSE 0
<1>1. <<h>> \in Seq(H) /\ Append(r, h) = r \o <<h>> /\ Len(<<h>>) = 1
  OBVIOUS
<1>2. \A i \in DOMAIN <<h>> : <<h>>[i] = h
  OBVIOUS
<1>3. HowMany(<<h>>, K) = IF h.kind \in K THEN 1 ELSE 0
  BY <1>1, <1>2, NoneOrAll
<1>4. HowMany(r \o <<h>>, K) = HowMany(r, K) + HowMany(<<h>>, K)
  BY <1>1, ConcatHowMany
<1> QED BY <1>1, <1>3, <1>4

LEMMA TailHowMany ==
  ASSUME NEW H, NEW r \in Seq(H), r # <<>>, NEW K
  PROVE  HowMany(r, K) = HowMany(Tail(r), K) + IF Head(r).kind \in K THEN 1 ELSE 0
<1> DEFINE h == Head(r)
<1>1. h \in H /\ <<h>> \in Seq(H) /\ Tail(r) \in Seq(H) /\ r = <<h>> \o Tail(r)
  OBVIOUS
<1>2. Len(<<h>>) = 1 /\ \A i \in DOMAIN <<h>> : <<h>>[i] = h
  OBVIOUS
<1>3. HowMany(<<h>>, K) = IF h.kind \in K THEN 1 ELSE 0
  BY <1>1, <1>2, NoneOrAll
<1>4. HowMany(r, K) = HowMany(<<h>>, K) + HowMany(Tail(r), K)
  <2> DEFINE s == <<h>>
             t == Tail(r)
  <2>1. s \in Seq(H) /\ t \in Seq(H) /\ r = s \o t
    BY <1>1
  <2> HIDE DEF s, t
  <2>2. HowMany(s \o t, K) = HowMany(s, K) + HowMany(t, K)
    BY <2>1, ConcatHowMany
  <2>3. HowMany(r, K) = HowMany(s, K) + HowMany(t, K)
    BY <2>1, <2>2
  <2> QED BY <2>3 DEF s, t
<1>5. HowMany(Tail(r), K) \in Nat
  BY <1>1, ThoseFinite
<1> QED BY <1>3, <1>4, <1>5

\* Counting tells whether one waits, and whether two do.
LEMMA CountedWaiting ==
  ASSUME NEW H, NEW r \in Seq(H), NEW K
  PROVE  /\ HowMany(r, K) = 0 <=> ~Waiting(r, K)
         /\ HowMany(r, K) <= 1 => AtMostOne(r, K)
<1> DEFINE T == Those(r, K)
<1>1. IsFiniteSet(T) /\ HowMany(r, K) = Cardinality(T)
  BY ThoseFinite
<1>2. T = {} <=> ~Waiting(r, K)
  BY DEF Those, Waiting
<1>3. Cardinality(T) = 0 <=> T = {}
  BY <1>1, FS_EmptySet
<1>4. ASSUME HowMany(r, K) <= 1,
             NEW i \in DOMAIN r, NEW j \in DOMAIN r, r[i].kind \in K, r[j].kind \in K
      PROVE  i = j
  <2>1. i \in T /\ j \in T
    BY <1>4 DEF Those
  <2>2. Cardinality(T) \in Nat
    BY <1>1, FS_CardinalityType
  <2>3. Cardinality(T) # 0
    BY <2>1, <1>3
  <2>4. Cardinality(T) = 1
    BY <1>1, <1>4, <2>2, <2>3
  <2>5. PICK x : T = {x}
    BY <1>1, <2>4, FS_Singleton
  <2> QED BY <2>1, <2>5
<1>5. HowMany(r, K) <= 1 => AtMostOne(r, K)
  BY <1>4 DEF AtMostOne
<1> QED BY <1>1, <1>2, <1>3, <1>5

-----------------------------------------------------------------------------
(* The naturals: least elements, induction and recursion.                  *)

LEMMA Smallest ==
  ASSUME NEW s \in SUBSET Nat, s # {}
  PROVE  \E x \in s : \A y \in s : x <= y
<1> DEFINE R == OpToRel(<, Nat)
<1>1. IsWellFoundedOn(R, Nat)
  BY NatLessThanWellFounded
<1>2. \A x, y \in Nat : y < x => <<y, x>> \in R
  BY DEF OpToRel
<1> HIDE DEF R
<1>3. PICK x \in s : \A y \in s : ~(<<y, x>> \in R)
  BY <1>1, WFMin
<1>4. ASSUME NEW y \in s PROVE x <= y
  <2>1. x \in Nat /\ y \in Nat /\ ~(y < x)
    BY <1>2, <1>3
  <2> QED BY <2>1
<1> QED BY <1>4

\* A set that holds 0 and every successor of its members holds every natural.
LEMMA Induction ==
  ASSUME NEW S, 0 \in S, \A n \in Nat : n \in S => n + 1 \in S
  PROVE  \A n \in Nat : n \in S
<1> SUFFICES ASSUME NEW m \in Nat, m \notin S PROVE FALSE
  OBVIOUS
<1>1. PICK x \in Nat \ S : \A y \in Nat \ S : x <= y
  <2>1. Nat \ S \in SUBSET Nat /\ Nat \ S # {}
    OBVIOUS
  <2> QED BY <2>1, Smallest
<1>2. x - 1 \in Nat /\ ~(x <= x - 1) /\ (x - 1) + 1 = x
  BY <1>1
<1>3. x - 1 \in S
  BY <1>1, <1>2
<1> QED BY <1>1, <1>2, <1>3

\* Recursion over the naturals has a solution.
LEMMA RecursionExists ==
  ASSUME NEW V, NEW base \in V, NEW step \in [V -> V]
  PROVE  \E h \in [Nat -> V] : h[0] = base /\ \A n \in Nat : h[n + 1] = step[h[n]]
<1> DEFINE Upto(g, n) == g[0] = base /\ \A i \in Nat : i < n => g[i + 1] = step[g[i]]
           K == {n \in Nat : \E g \in [Nat -> V] : Upto(g, n)}
<1>1. 0 \in K
  <2>1. [i \in Nat |-> base] \in [Nat -> V] /\ Upto([i \in Nat |-> base], 0)
    OBVIOUS
  <2> QED BY <2>1
<1>2. ASSUME NEW n \in Nat, n \in K PROVE n + 1 \in K
  <2>1. PICK g \in [Nat -> V] : Upto(g, n)
    BY <1>2
  <2> DEFINE h == [i \in Nat |-> IF i = n + 1 THEN step[g[n]] ELSE g[i]]
  <2>2. h \in [Nat -> V]
    OBVIOUS
  <2>3. h[0] = base
    BY <2>1
  <2>4. ASSUME NEW i \in Nat, i < n + 1 PROVE h[i + 1] = step[h[i]]
    <3>1. h[i] = g[i]
      BY <2>4
    <3>2. CASE i = n
      BY <3>1, <3>2
    <3>3. CASE i < n
      <4>1. h[i + 1] = g[i + 1]
        BY <3>3
      <4> QED BY <2>1, <3>1, <3>3, <4>1
    <3> QED BY <2>4, <3>2, <3>3
  <2> HIDE DEF h
  <2>5. Upto(h, n + 1)
    BY <2>3, <2>4
  <2> QED BY <2>2, <2>5
<1>3. \A n \in Nat : \E g \in [Nat -> V] : Upto(g, n)
  <2>1. \A n \in Nat : n \in K
    <3> HIDE DEF K
    <3> QED BY <1>1, <1>2, Induction
  <2> QED BY <2>1
<1>4. ASSUME NEW m \in Nat, NEW n \in Nat, m <= n,
             NEW f \in [Nat -> V], NEW g \in [Nat -> V], Upto(f, m), Upto(g, n)
      PROVE  f[m] = g[m]
  <2> DEFINE L == {i \in Nat : i <= m => f[i] = g[i]}
  <2>1. 0 \in L
    BY <1>4
  <2>2. ASSUME NEW i \in Nat, i \in L PROVE i + 1 \in L
    <3> SUFFICES ASSUME i + 1 <= m PROVE f[i + 1] = g[i + 1]
      OBVIOUS
    <3>1. i < m /\ i < n /\ f[i] = g[i]
      BY <1>4, <2>2
    <3> QED BY <1>4, <3>1
  <2>3. m \in L
    <3> HIDE DEF L
    <3> QED BY <2>1, <2>2, Induction
  <2> QED BY <2>3
<1> DEFINE F(n) == CHOOSE g \in [Nat -> V] : Upto(g, n)
           h == [n \in Nat |-> F(n)[n]]
<1>5. \A n \in Nat : F(n) \in [Nat -> V] /\ Upto(F(n), n)
  <2> HIDE DEF Upto
  <2> QED BY <1>3
<1>6. h \in [Nat -> V]
  BY <1>5
<1>7. h[0] = base
  BY <1>5
<1>8. ASSUME NEW n \in Nat PROVE h[n + 1] = step[h[n]]
  <2> HIDE DEF F
  <2>1. F(n)[n] = F(n + 1)[n]
    <3> HIDE DEF Upto
    <3>1. n + 1 \in Nat /\ n <= n + 1
      OBVIOUS
    <3> QED BY <1>4, <1>5, <3>1
  <2>2. F(n + 1)[n + 1] = step[F(n + 1)[n]]
    BY <1>5
  <2> QED BY <2>1, <2>2
<1> HIDE DEF h
<1> QED BY <1>6, <1>7, <1>8

-----------------------------------------------------------------------------
(* Folds over finite sets.                                                 *)

\* The value of a fold over s that takes its elements in the order of pick.
Folded(g, s, base, pick, step) ==
  IF s = {} THEN base ELSE step[<<pick[s], g[s \ {pick[s]}]>>]

Folds(g, S, base, pick, step) == \A s \in SUBSET S : g[s] = Folded(g, s, base, pick, step)
Picks(pick, S) == \A s \in SUBSET S : s # {} => pick[s] \in s

\* The recursion over a finite set has a solution, with values where step has them.
LEMMA FoldExists ==
  ASSUME NEW S, IsFiniteSet(S), NEW V, NEW base \in V, NEW pick, NEW step \in [S \X V -> V],
         Picks(pick, S)
  PROVE  \E g \in [SUBSET S -> V] : Folds(g, S, base, pick, step)
<1> DEFINE Upto(g, n) == \A s \in SUBSET S : Cardinality(s) <= n => g[s] = Folded(g, s, base, pick, step)
           K == {n \in Nat : \E g \in [SUBSET S -> V] : Upto(g, n)}
<1>1. \A s \in SUBSET S : IsFiniteSet(s) /\ Cardinality(s) \in Nat /\ Cardinality(s) <= Cardinality(S)
  BY FS_Subset, FS_CardinalityType
<1>2. 0 \in K
  <2> DEFINE g == [s \in SUBSET S |-> base]
  <2>1. g \in [SUBSET S -> V]
    OBVIOUS
  <2>2. \A s \in SUBSET S : Cardinality(s) <= 0 => s = {}
    BY <1>1, FS_EmptySet
  <2>3. Upto(g, 0)
    BY <2>2 DEF Folded
  <2> QED BY <2>1, <2>3
<1>3. ASSUME NEW n \in Nat, n \in K PROVE n + 1 \in K
  <2>1. PICK g \in [SUBSET S -> V] : Upto(g, n)
    BY <1>3
  <2> DEFINE h == [s \in SUBSET S |-> Folded(g, s, base, pick, step)]
  <2>2. \A s \in SUBSET S : s # {} => <<pick[s], g[s \ {pick[s]}]>> \in S \X V
    BY DEF Picks
  <2>3. \A s \in SUBSET S : Folded(g, s, base, pick, step) \in V
    BY <2>2 DEF Folded
  <2>4. h \in [SUBSET S -> V]
    BY <2>3
  <2>5. ASSUME NEW s \in SUBSET S, Cardinality(s) <= n + 1
        PROVE  h[s] = Folded(h, s, base, pick, step)
    <3>1. CASE s = {}
      BY <3>1 DEF Folded
    <3>2. CASE s # {}
      <4> DEFINE t == s \ {pick[s]}
      <4>1. t \in SUBSET S /\ Cardinality(t) <= n
        <5>1. Cardinality(t) = Cardinality(s) - 1
          BY <1>1, <3>2, FS_RemoveElement DEF Picks
        <5> QED BY <1>1, <2>5, <5>1
      <4>2. g[t] = h[t]
        BY <2>1, <4>1
      <4>3. h[s] = Folded(g, s, base, pick, step)
        OBVIOUS
      <4> HIDE DEF h
      <4> QED BY <3>2, <4>2, <4>3 DEF Folded
    <3> QED BY <3>1, <3>2
  <2>6. Upto(h, n + 1)
    BY <2>5
  <2>7. \E f \in [SUBSET S -> V] : Upto(f, n + 1)
    <3> HIDE DEF h, Upto
    <3> QED BY <2>4, <2>6
  <2> QED BY <2>7
<1>4. \A n \in Nat : n \in K
  <2> HIDE DEF K
  <2> QED BY <1>2, <1>3, Induction
<1>5. PICK g \in [SUBSET S -> V] : Upto(g, Cardinality(S))
  BY <1>1, <1>4
<1>6. \A s \in SUBSET S : g[s] = Folded(g, s, base, pick, step)
  BY <1>1, <1>5
<1> QED BY <1>6 DEF Folds

-----------------------------------------------------------------------------
\* g is a sum of the weights w over the subsets of S, in the order of pick.
Sums(g, S, w, pick) ==
  /\ g[{}] = 0
  /\ \A s \in SUBSET S : s # {} => pick[s] \in s /\ g[s] = g[s \ {pick[s]}] + w[pick[s]]

Terms(g, S, w) ==
  \A s \in SUBSET S : g[s] \in Nat /\ \A x \in s : g[s] = g[s \ {x}] + w[x]

\* A sum is a number, and in whatever order it takes its terms, each can come last.
LEMMA SumRemoves ==
  ASSUME NEW S, IsFiniteSet(S), NEW w, \A x \in S : w[x] \in Nat,
         NEW pick, NEW g, Sums(g, S, w, pick)
  PROVE  Terms(g, S, w)
<1> DEFINE Small(n) == {s \in SUBSET S : Cardinality(s) = n}
           K == {n \in Nat : \A s \in Small(n) : g[s] \in Nat}
           L == {n \in Nat : \A s \in Small(n) : \A x \in s : g[s] = g[s \ {x}] + w[x]}
<1>1. \A s \in SUBSET S : IsFiniteSet(s) /\ Cardinality(s) \in Nat
  BY FS_Subset, FS_CardinalityType
<1>2. \A n \in Nat : \A s \in Small(n + 1) : \A x \in s : s \ {x} \in Small(n) /\ w[x] \in Nat
  <2> SUFFICES ASSUME NEW n \in Nat, NEW s \in Small(n + 1), NEW x \in s
               PROVE  s \ {x} \in Small(n) /\ w[x] \in Nat
    OBVIOUS
  <2>1. s \in SUBSET S /\ IsFiniteSet(s) /\ Cardinality(s) = n + 1
    BY <1>1
  <2>2. Cardinality(s \ {x}) = n
    <3>1. Cardinality(s \ {x}) = IF x \in s THEN Cardinality(s) - 1 ELSE Cardinality(s)
      BY <2>1, FS_RemoveElement
    <3> QED BY <2>1, <3>1
  <2> QED BY <2>1, <2>2
<1>3. Small(0) = {{}}
  BY <1>1, FS_EmptySet
<1>4. \A n \in Nat : \A s \in Small(n + 1) : pick[s] \in s /\ g[s] = g[s \ {pick[s]}] + w[pick[s]]
  <2> SUFFICES ASSUME NEW n \in Nat, NEW s \in Small(n + 1)
               PROVE  pick[s] \in s /\ g[s] = g[s \ {pick[s]}] + w[pick[s]]
    OBVIOUS
  <2>1. s \in SUBSET S /\ s # {}
    BY FS_EmptySet
  <2> QED BY <2>1 DEF Sums
<1>5. ASSUME NEW n \in Nat, n \in K PROVE n + 1 \in K
  <2> SUFFICES ASSUME NEW s \in Small(n + 1) PROVE g[s] \in Nat
    OBVIOUS
  <2> DEFINE c == pick[s]
  <2> HIDE DEF Small
  <2>1. c \in s /\ g[s] = g[s \ {c}] + w[c]
    BY <1>4
  <2> HIDE DEF c
  <2>2. g[s \ {c}] \in Nat /\ w[c] \in Nat
    BY <1>2, <1>5, <2>1
  <2> QED BY <2>1, <2>2
<1>6. 0 \in K /\ 0 \in L
  <2> HIDE DEF Small
  <2>1. \A s \in Small(0) : g[s] \in Nat /\ \A x \in s : g[s] = g[s \ {x}] + w[x]
    <3> SUFFICES ASSUME NEW s \in Small(0) PROVE g[s] \in Nat /\ s = {}
      OBVIOUS
    <3>1. s = {}
      BY <1>3
    <3>2. g[{}] = 0
      BY DEF Sums
    <3>3. g[s] = 0
      BY <3>1, <3>2
    <3> QED BY <3>1, <3>3
  <2> QED BY <2>1
<1>7. \A n \in Nat : n \in K
  <2> HIDE DEF K
  <2> QED BY <1>5, <1>6, Induction
<1>8. \A s \in SUBSET S : g[s] \in Nat
  BY <1>1, <1>7
<1>9. ASSUME NEW n \in Nat, n \in L PROVE n + 1 \in L
  <2> SUFFICES ASSUME NEW s \in Small(n + 1), NEW x \in s PROVE g[s] = g[s \ {x}] + w[x]
    OBVIOUS
  <2> DEFINE c == pick[s]
             r == s \ {x, c}
  <2>1. c \in s /\ g[s] = g[s \ {c}] + w[c]
    BY <1>4
  <2>2. s \ {c} \in Small(n) /\ s \ {x} \in Small(n) /\ w[c] \in Nat /\ w[x] \in Nat
    BY <1>2, <2>1
  <2> HIDE DEF c
  <2>3. CASE x = c
    BY <2>1, <2>3
  <2>4. CASE x # c
    <3>1. x \in s \ {c} /\ (s \ {c}) \ {x} = r /\ c \in s \ {x} /\ (s \ {x}) \ {c} = r
      BY <2>1, <2>4
    <3>2. g[s \ {c}] = g[r] + w[x]
      BY <1>9, <2>2, <3>1
    <3>3. g[s \ {x}] = g[r] + w[c]
      BY <1>9, <2>2, <3>1
    <3>4. g[r] \in Nat
      BY <1>8
    <3> HIDE DEF r
    <3> QED BY <2>1, <2>2, <3>2, <3>3, <3>4
  <2> QED BY <2>3, <2>4
<1>10. \A n \in Nat : n \in L
  <2> HIDE DEF L
  <2> QED BY <1>6, <1>9, Induction
<1> QED BY <1>1, <1>8, <1>10 DEF Terms

\* f counts the weights of 1..n one by one.
PartialSums(f, n, w) ==
  f \in [0..n -> Nat] /\ f[0] = 0 /\ \A i \in 1..n : f[i] = f[i - 1] + w[i]

\* The sum of a sequence of weights is the last of its partial sums.
LEMMA SumIsPartialSum ==
  ASSUME NEW n \in Nat, NEW w \in [1..n -> Nat], NEW pick, NEW g, Sums(g, 1..n, w, pick)
  PROVE  \E f : PartialSums(f, n, w) /\ f[n] = g[1..n]
<1> DEFINE f == [i \in 0..n |-> g[1..i]]
<1>1. IsFiniteSet(1..n)
  BY FS_Interval
<1>2. \A s \in SUBSET (1..n) : g[s] \in Nat /\ \A x \in s : g[s] = g[s \ {x}] + w[x]
  <2>1. Terms(g, 1..n, w)
    BY <1>1, SumRemoves
  <2> QED BY <2>1 DEF Terms
<1>3. f \in [0..n -> Nat]
  <2>1. \A i \in 0..n : 1..i \in SUBSET (1..n)
    OBVIOUS
  <2> QED BY <1>2, <2>1
<1>4. f[0] = 0
  <2>1. 1..0 = {}
    OBVIOUS
  <2> QED BY <2>1 DEF Sums
<1>5. ASSUME NEW i \in 1..n PROVE f[i] = f[i - 1] + w[i]
  <2>1. 1..i \in SUBSET (1..n) /\ i \in 1..i /\ (1..i) \ {i} = 1..(i - 1)
    OBVIOUS
  <2>2. g[1..i] = g[(1..i) \ {i}] + w[i]
    BY <1>2, <2>1
  <2>3. f[i] = g[1..i] /\ f[i - 1] = g[1..(i - 1)]
    OBVIOUS
  <2> QED BY <2>1, <2>2, <2>3
<1>6. f[n] = g[1..n]
  OBVIOUS
<1> HIDE DEF f
<1> QED BY <1>3, <1>4, <1>5, <1>6 DEF PartialSums

\* The weights w of 1..n are those of k+1..k+n among the weights v of 1..m.
Inside(n, w, m, v, k) ==
  /\ n \in Nat /\ m \in Nat /\ k \in Nat /\ n + k <= m
  /\ \A i \in 1..n : w[i] \in Nat /\ v[i + k] = w[i]

\* The partial sums of a part of a sequence are differences of those of the whole.
LEMMA PartialSumsOfPart ==
  ASSUME NEW n, NEW w, NEW f, PartialSums(f, n, w),
         NEW m, NEW v, NEW h, PartialSums(h, m, v),
         NEW k, Inside(n, w, m, v, k)
  PROVE  h[n + k] = h[k] + f[n]
<1> USE DEF Inside, PartialSums
<1> DEFINE K == {i \in Nat : i <= n => h[i + k] = h[k] + f[i]}
<1>1. 0 \in K
  BY DEF PartialSums
<1>2. ASSUME NEW i \in Nat, i \in K PROVE i + 1 \in K
  <2> SUFFICES ASSUME i + 1 <= n PROVE h[i + 1 + k] = h[k] + f[i + 1]
    OBVIOUS
  <2> DEFINE a == h[k]
             b == f[i]
             c == w[i + 1]
  <2>1. i + 1 \in 1..n /\ i + 1 + k \in 1..m /\ i + 1 - 1 = i /\ i + 1 + k - 1 = i + k
    OBVIOUS
  <2>2. f[i + 1] = b + c
    BY <2>1 DEF PartialSums
  <2>3. h[i + 1 + k] = h[i + k] + c
    BY <2>1 DEF PartialSums
  <2>4. h[i + k] = a + b
    BY <1>2
  <2>5. a \in Nat /\ b \in Nat /\ c \in Nat
    BY <2>1
  <2> HIDE DEF a, b, c, K
  <2>6. h[i + 1 + k] = a + (b + c)
    BY <2>3, <2>4, <2>5
  <2> QED BY <2>2, <2>6 DEF a
<1>3. n \in K
  <2> HIDE DEF K
  <2> QED BY <1>1, <1>2, Induction
<1> QED BY <1>3

=============================================================================
