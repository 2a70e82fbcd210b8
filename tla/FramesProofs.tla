--------------------------- MODULE FramesProofs ---------------------------
(***************************************************************************)
(* What holds of the wire format whatever the number of values of a byte,  *)
(* the bytes of a word, the lengths and the messages: how numbers and      *)
(* their bytes correspond, that what one host writes in a header any host  *)
(* reads, and that the receiver stays in step with the stream.             *)
(***************************************************************************)
EXTENDS Frames, DataProofs, SequenceTheorems

Byte == 0..Base - 1

-----------------------------------------------------------------------------
(* Powers and division.                                                    *)

LEMMA PowerSteps ==
  /\ Power[0] = 1
  /\ \A n \in Nat : Power[n] \in Nat \ {0} /\ Power[n + 1] = Base * Power[n]
<1> DEFINE V == Nat \ {0}
           one == 1
           step == [v \in V |-> Base * v]
           Term(f, n) == IF n = 0 THEN 1 ELSE Base * f[n - 1]
<1>1. Base \in Nat \ {0, 1}
  BY FramesAssumption
<1>2. one \in V /\ step \in [V -> V]
  BY <1>1
<1>3. PICK h \in [Nat -> V] : h[0] = one /\ \A n \in Nat : h[n + 1] = step[h[n]]
  <2> HIDE DEF one, step, V
  <2> QED BY <1>2, RecursionExists
<1>4. \A n \in Nat : h[n + 1] = Base * h[n]
  BY <1>3
<1>5. ASSUME NEW n \in Nat PROVE h[n] = Term(h, n)
  <2>1. CASE n = 0
    BY <1>3, <2>1
  <2>2. CASE n # 0
    <3>1. n - 1 \in Nat /\ (n - 1) + 1 = n
      BY <2>2
    <3>2. h[(n - 1) + 1] = Base * h[n - 1]
      BY <1>4, <3>1
    <3> QED BY <2>2, <3>1, <3>2
  <2> QED BY <2>1, <2>2
<1>6. h = [n \in Nat |-> Term(h, n)]
  BY <1>5
<1>7. Power = [n \in Nat |-> Term(Power, n)]
  <2>1. Power = CHOOSE f : f = [n \in Nat |-> Term(f, n)]
    BY DEF Power
  <2> HIDE DEF Term
  <2> QED BY <1>6, <2>1
<1>8. Power[0] = 1
  BY <1>7
<1>9. ASSUME NEW n \in Nat PROVE Power[n + 1] = Base * Power[n]
  <2>1. Power[n + 1] = Term(Power, n + 1)
    BY <1>7
  <2>2. (n + 1) - 1 = n /\ n + 1 # 0
    OBVIOUS
  <2> QED BY <2>1, <2>2
<1>10. \A n \in Nat : Power[n] \in V
  <2> DEFINE K == {n \in Nat : Power[n] \in V}
  <2>1. 0 \in K
    BY <1>8
  <2>2. ASSUME NEW n \in Nat, n \in K PROVE n + 1 \in K
    BY <1>1, <1>9, <2>2
  <2>3. \A n \in Nat : n \in K
    <3> HIDE DEF K
    <3> QED BY <2>1, <2>2, Induction
  <2> QED BY <2>3
<1> QED BY <1>8, <1>9, <1>10

LEMMA PowerAdds ==
  ASSUME NEW m \in Nat, NEW n \in Nat
  PROVE  Power[m + n] = Power[m] * Power[n]
<1> DEFINE K == {i \in Nat : Power[i + n] = Power[i] * Power[n]}
<1>1. 0 \in K
  <2>1. Power[n] \in Nat /\ Power[0] = 1
    BY PowerSteps
  <2> QED BY <2>1
<1>2. ASSUME NEW i \in Nat, i \in K PROVE i + 1 \in K
  <2>1. /\ Power[i + 1] = Base * Power[i]
        /\ Power[i + n + 1] = Base * Power[i + n]
        /\ i + 1 + n = i + n + 1
        /\ Power[i + n] = Power[i] * Power[n]
    BY <1>2, PowerSteps
  <2>2. Power[i] \in Nat /\ Power[n] \in Nat /\ Base \in Nat
    BY PowerSteps, FramesAssumption
  <2>3. ASSUME NEW a \in Nat, NEW b \in Nat, NEW c \in Nat PROVE a * (b * c) = (a * b) * c
    OBVIOUS
  <2>4. Base * (Power[i] * Power[n]) = (Base * Power[i]) * Power[n]
    BY <2>2, <2>3
  <2> QED BY <2>1, <2>4
<1>3. m \in K
  <2> HIDE DEF K
  <2> QED BY <1>1, <1>2, Induction
<1> QED BY <1>3

\* Division: a quotient and a remainder are the only ones.
LEMMA QuotientUnique ==
  ASSUME NEW d \in Nat \ {0}, NEW s \in Nat, NEW u \in 0..d - 1
  PROVE  (d * s + u) \div d = s /\ (d * s + u) % d = u
<1> DEFINE v == d * s + u
           q == v \div d
           r == v % d
<1>1. v \in Nat
  OBVIOUS
<1>2. v = d * q + r /\ q \in Nat /\ r \in 0..d - 1
  <2> HIDE DEF v
  <2> QED BY <1>1
<1>3. d * s + u = d * q + r
  BY <1>2
<1> HIDE DEF v, q, r
<1>4. ASSUME NEW x \in Nat, NEW y \in Nat, x < y PROVE d * y >= d * x + d
  <2>1. d * (y - x - 1) >= 0
    <3> DEFINE z == y - x - 1
    <3>1. z \in Nat
      BY <1>4
    <3> HIDE DEF z
    <3>2. d * z >= 0
      BY <3>1
    <3> QED BY <3>2 DEF z
  <2>2. d * (y - x - 1) = d * y - d * x - d
    OBVIOUS
  <2>3. d * y \in Nat /\ d * x \in Nat
    OBVIOUS
  <2> QED BY <2>1, <2>2, <2>3
<1>5. ~(s < q)
  <2> SUFFICES ASSUME s < q PROVE FALSE
    OBVIOUS
  <2>1. d * q >= d * s + d /\ d * q \in Nat /\ d * s \in Nat
    BY <1>2, <1>4
  <2> QED BY <1>2, <1>3, <2>1
<1>6. ~(q < s)
  <2> SUFFICES ASSUME q < s PROVE FALSE
    OBVIOUS
  <2>1. d * s >= d * q + d /\ d * q \in Nat /\ d * s \in Nat
    BY <1>2, <1>4
  <2> QED BY <1>2, <1>3, <2>1
<1>7. s = q
  BY <1>2, <1>5, <1>6
<1>8. r = u
  <2>1. d * q \in Nat /\ d * s = d * q
    BY <1>2, <1>7
  <2> QED BY <1>2, <1>3, <2>1
<1> QED BY <1>7, <1>8 DEF v, q, r

LEMMA Division ==
  ASSUME NEW v \in Nat, NEW d \in Nat \ {0}
  PROVE  v \div d \in Nat /\ v % d \in 0..d - 1 /\ v = d * (v \div d) + (v % d)
  OBVIOUS

\* Dividing twice.
LEMMA QuotientOfQuotient ==
  ASSUME NEW v \in Nat, NEW d \in Nat \ {0}, NEW e \in Nat \ {0}
  PROVE  (v \div d) \div e = v \div (d * e)
<1> DEFINE q == v \div d
           r == v % d
           s == q \div e
           t == q % e
<1>1. v = d * q + r /\ q \in Nat /\ r \in 0..d - 1
  OBVIOUS
<1>2. q = e * s + t /\ s \in Nat /\ t \in 0..e - 1
  <2> HIDE DEF q
  <2> QED BY <1>1
<1> HIDE DEF q, r, s, t
<1>3. d * t + r \in 0..(d * e) - 1
  <2>1. d * t \in Nat /\ d * e \in Nat
    BY <1>2
  <2>2. d * (e - 1 - t) >= 0
    <3> DEFINE z == e - 1 - t
    <3>1. z \in Nat
      BY <1>2
    <3> HIDE DEF z
    <3>2. d * z >= 0
      BY <3>1
    <3> QED BY <3>2 DEF z
  <2>3. d * (e - 1 - t) = d * e - d - d * t
    BY <1>2
  <2> QED BY <1>1, <2>1, <2>2, <2>3
<1>4. v = (d * e) * s + (d * t + r)
  <2>1. d * (e * s + t) = (d * e) * s + d * t
    BY <1>2
  <2>2. (d * e) * s \in Nat /\ d * t \in Nat
    BY <1>2
  <2> QED BY <1>1, <1>2, <2>1, <2>2
<1>5. d * e \in Nat \ {0}
  OBVIOUS
<1>6. v \div (d * e) = s
  <2> DEFINE f == d * e
             u == d * t + r
  <2>1. f \in Nat \ {0} /\ u \in 0..f - 1 /\ v = f * s + u
    BY <1>3, <1>4, <1>5
  <2> HIDE DEF f, u
  <2>2. v \div f = s
    BY <1>2, <2>1, QuotientUnique
  <2> QED BY <2>2 DEF f
<1> QED BY <1>6 DEF q, s

\* The number that the bytes from each place on stand for.
LEMMA ValueOfSuffixes ==
  ASSUME NEW b \in Seq(Byte)
  PROVE  \E f \in [1..(Len(b) + 1) -> Nat] :
            /\ f[1] = Value(b) /\ f[Len(b) + 1] = 0
            /\ \A i \in 1..Len(b) : f[i] = b[i] + Base * f[i + 1]
<1> DEFINE n == Len(b)
           least(s) == CHOOSE x \in s : \A y \in s : x <= y
           pick == [s \in SUBSET (1..n) |-> least(s)]
           step == [p \in (1..n) \X Nat |-> b[p[1]] + Base * p[2]]
           Term(g, s) == IF s = {} THEN 0
                         ELSE LET x == CHOOSE x \in s : \A y \in s : x <= y
                              IN b[x] + Base * g[s \ {x}]
           g == CHOOSE iter : iter = [s \in SUBSET (1..n) |-> Term(iter, s)]
<1>1. n \in Nat /\ DOMAIN b = 1..n /\ IsFiniteSet(1..n) /\ Base \in Nat
  BY FS_Interval, FramesAssumption
<1>2. \A i \in 1..n : b[i] \in Nat
  BY FramesAssumption DEF Byte
<1>3. \A s \in SUBSET (1..n) : s # {} => least(s) \in s /\ \A y \in s : least(s) <= y
  <2> SUFFICES ASSUME NEW s \in SUBSET (1..n), s # {}
               PROVE  \E x \in s : \A y \in s : x <= y
    OBVIOUS
  <2>1. s \in SUBSET Nat
    OBVIOUS
  <2> QED BY <2>1, Smallest
<1>4. Picks(pick, 1..n)
  BY <1>3 DEF Picks
<1>5. step \in [(1..n) \X Nat -> Nat]
  <2>1. \A i \in 1..n, v \in Nat : b[i] + Base * v \in Nat
    <3> SUFFICES ASSUME NEW i \in 1..n, NEW v \in Nat PROVE b[i] + Base * v \in Nat
      OBVIOUS
    <3>1. Base * v \in Nat
      BY <1>1
    <3> QED BY <1>2, <3>1
  <2> QED BY <2>1
<1>6. PICK h \in [SUBSET (1..n) -> Nat] : Folds(h, 1..n, 0, pick, step)
  <2> HIDE DEF pick, step
  <2> QED BY <1>1, <1>4, <1>5, FoldExists
<1>7. \A s \in SUBSET (1..n) : h[s] = Term(h, s)
  <2> SUFFICES ASSUME NEW s \in SUBSET (1..n), s # {} PROVE h[s] = Term(h, s)
    BY <1>6 DEF Folds, Folded
  <2> DEFINE c == least(s)
  <2>1. c \in s /\ pick[s] = c /\ h[s \ {c}] \in Nat
    BY <1>3
  <2>2. h[s] = step[<<c, h[s \ {c}]>>]
    BY <1>6, <2>1 DEF Folds, Folded
  <2>3. step[<<c, h[s \ {c}]>>] = b[c] + Base * h[s \ {c}]
    <3> HIDE DEF c
    <3> QED BY <2>1
  <2> QED BY <2>1, <2>2, <2>3
<1>8. h = [s \in SUBSET (1..n) |-> Term(h, s)]
  BY <1>7
<1>9. g = [s \in SUBSET (1..n) |-> Term(g, s)]
  <2> HIDE DEF Term
  <2> QED BY <1>8
<1>10. Value(b) = g[1..n]
  BY <1>1 DEF Value, FoldRight, MapThenFoldSet, Min
<1> HIDE DEF g
<1>11. ASSUME NEW i \in 1..n PROVE g[i..n] = b[i] + Base * g[(i + 1)..n]
  <2>1. i..n \in SUBSET (1..n) /\ i \in i..n /\ (i..n) \ {i} = (i + 1)..n
    OBVIOUS
  <2>2. least(i..n) = i
    <3>1. least(i..n) \in i..n /\ least(i..n) <= i
      BY <1>3, <2>1
    <3> HIDE DEF least
    <3> QED BY <3>1
  <2>3. g[i..n] = Term(g, i..n)
    BY <1>9, <2>1
  <2> QED BY <2>1, <2>2, <2>3
<1>12. g[(n + 1)..n] = 0
  <2>1. (n + 1)..n = {}
    OBVIOUS
  <2>2. g[{}] = 0
    BY <1>9
  <2> QED BY <2>1, <2>2
<1> DEFINE f == [i \in 1..(n + 1) |-> g[i..n]]
<1>13. ASSUME NEW i \in 1..n PROVE f[i] = b[i] + Base * f[i + 1]
  <2>1. i \in 1..(n + 1) /\ i + 1 \in 1..(n + 1)
    OBVIOUS
  <2> QED BY <1>11, <2>1
<1>14. f[1] = Value(b) /\ f[n + 1] = 0
  BY <1>10, <1>12
<1>15. \A i \in 1..(n + 1) : f[i] \in Nat
  <2> DEFINE K == {k \in Nat : \A i \in 1..(n + 1) : i + k = n + 1 => f[i] \in Nat}
  <2>1. 0 \in K
    BY <1>14
  <2>2. ASSUME NEW k \in Nat, k \in K PROVE k + 1 \in K
    <3> SUFFICES ASSUME NEW i \in 1..(n + 1), i + (k + 1) = n + 1 PROVE f[i] \in Nat
      OBVIOUS
    <3>1. i \in 1..n /\ i + 1 \in 1..(n + 1) /\ (i + 1) + k = n + 1
      OBVIOUS
    <3>2. f[i + 1] \in Nat
      BY <2>2, <3>1
    <3>3. f[i] = b[i] + Base * f[i + 1] /\ b[i] \in Nat
      BY <1>2, <1>13, <3>1
    <3> HIDE DEF f
    <3>4. Base * f[i + 1] \in Nat
      BY <1>1, <3>2
    <3> QED BY <3>3, <3>4
  <2>3. \A k \in Nat : k \in K
    <3> HIDE DEF K
    <3> QED BY <2>1, <2>2, Induction
  <2> SUFFICES ASSUME NEW i \in 1..(n + 1) PROVE f[i] \in Nat
    OBVIOUS
  <2>4. n + 1 - i \in Nat /\ i + (n + 1 - i) = n + 1
    OBVIOUS
  <2> HIDE DEF f
  <2> QED BY <2>3, <2>4
<1>16. f \in [1..(n + 1) -> Nat]
  BY <1>15
<1> HIDE DEF f
<1> QED BY <1>13, <1>14, <1>16

-----------------------------------------------------------------------------
(* Numbers and their bytes, the least significant first.                   *)

LEMMA DigitsType ==
  ASSUME NEW v \in Nat, NEW n \in Nat
  PROVE  /\ Digits(v, n) \in Seq(Byte) /\ Len(Digits(v, n)) = n
         /\ \A i \in 1..n : Digits(v, n)[i] = (v \div Power[i - 1]) % Base
<1>1. \A i \in 1..n : (v \div Power[i - 1]) % Base \in Byte
  <2> SUFFICES ASSUME NEW i \in 1..n PROVE (v \div Power[i - 1]) % Base \in Byte
    OBVIOUS
  <2> DEFINE p == Power[i - 1]
  <2>1. p \in Nat \ {0} /\ Base \in Nat \ {0}
    BY PowerSteps, FramesAssumption
  <2> HIDE DEF p
  <2>2. v \div p \in Nat
    BY <2>1
  <2> QED BY <2>1, <2>2 DEF Byte, p
<1> QED BY <1>1 DEF Digits

\* Equal lengths and equal elements.
LEMMA SameElements ==
  ASSUME NEW S, NEW a \in Seq(S), NEW b \in Seq(S), Len(a) = Len(b),
         \A i \in 1..Len(a) : a[i] = b[i]
  PROVE  a = b
  OBVIOUS

LEMMA PowerOfNext ==
  ASSUME NEW i \in Nat \ {0}
  PROVE  /\ Power[i] = Base * Power[i - 1] /\ Power[i] = Power[i - 1] * Base
         /\ Power[i - 1] \in Nat \ {0} /\ Power[i] \in Nat \ {0}
<1>1. i - 1 \in Nat /\ (i - 1) + 1 = i
  OBVIOUS
<1>2. Power[i] = Base * Power[i - 1] /\ Power[i - 1] \in Nat \ {0} /\ Power[i] \in Nat \ {0}
  BY <1>1, PowerSteps
<1>3. Base * Power[i - 1] = Power[i - 1] * Base
  BY <1>2, FramesAssumption
<1> QED BY <1>2, <1>3

\* Digit by digit, a number is what is left of it after the digits below.
LEMMA QuotientSteps ==
  ASSUME NEW v \in Nat, NEW i \in Nat \ {0}
  PROVE  /\ v \div Power[i - 1] \in Nat /\ v \div Power[i] \in Nat
         /\ (v \div Power[i - 1]) \div Base = v \div Power[i]
         /\ v \div Power[i - 1] = ((v \div Power[i - 1]) % Base) + Base * (v \div Power[i])
<1> DEFINE p == Power[i - 1]
           q == v \div p
<1>1. p \in Nat \ {0} /\ Base \in Nat \ {0} /\ Power[i] = p * Base
  BY PowerOfNext, FramesAssumption
<1> HIDE DEF p
<1>2. q \div Base = v \div Power[i]
  <2>1. (v \div p) \div Base = v \div (p * Base)
    BY <1>1, QuotientOfQuotient
  <2> QED BY <1>1, <2>1
<1>3. q \in Nat
  BY <1>1
<1> HIDE DEF q
<1>4. q \div Base \in Nat /\ q = (q % Base) + Base * (q \div Base)
  BY <1>1, <1>3
<1> QED BY <1>2, <1>3, <1>4 DEF p, q

\* A number that fits is the value of its bytes.
LEMMA ValueOfDigits ==
  ASSUME NEW n \in Nat, NEW v \in 0..Power[n] - 1
  PROVE  Value(Digits(v, n)) = v
<1> DEFINE b == Digits(v, n)
<1>0. v \in Nat
  BY PowerSteps
<1>1. b \in Seq(Byte) /\ Len(b) = n /\ \A i \in 1..n : b[i] = (v \div Power[i - 1]) % Base
  BY <1>0, DigitsType
<1> HIDE DEF b
<1>2. PICK f \in [1..(n + 1) -> Nat] :
         /\ f[1] = Value(b) /\ f[n + 1] = 0
         /\ \A i \in 1..n : f[i] = b[i] + Base * f[i + 1]
  BY <1>1, ValueOfSuffixes
<1>3. v \in Nat /\ Power[n] \in Nat \ {0}
  BY PowerSteps
<1> DEFINE K == {k \in Nat : \A i \in 1..(n + 1) : i + k = n + 1 => f[i] = v \div Power[i - 1]}
<1>4. 0 \in K
  <2>1. v \div Power[n] = 0
    <3> DEFINE p == Power[n]
    <3>1. v \in 0..p - 1 /\ p \in Nat \ {0}
      BY <1>3
    <3> HIDE DEF p
    <3>2. v \div p = 0
      BY <3>1
    <3> QED BY <3>2 DEF p
  <2> QED BY <1>2, <2>1
<1>5. ASSUME NEW k \in Nat, k \in K PROVE k + 1 \in K
  <2> SUFFICES ASSUME NEW i \in 1..(n + 1), i + (k + 1) = n + 1 PROVE f[i] = v \div Power[i - 1]
    OBVIOUS
  <2>1. i \in 1..n /\ i + 1 \in 1..(n + 1) /\ (i + 1) + k = n + 1 /\ (i + 1) - 1 = i
    OBVIOUS
  <2>2. f[i + 1] = v \div Power[i]
    BY <1>5, <2>1
  <2>3. f[i] = ((v \div Power[i - 1]) % Base) + Base * (v \div Power[i])
    BY <1>1, <1>2, <2>1, <2>2
  <2> QED BY <1>3, <2>1, <2>3, QuotientSteps
<1>6. n \in K
  <2> HIDE DEF K
  <2> QED BY <1>4, <1>5, Induction
<1>7. f[1] = v \div Power[0]
  BY <1>6
<1>8. v \div 1 = v
  BY <1>3
<1> QED BY <1>2, <1>7, <1>8, PowerSteps DEF b

\* Bytes are the digits of their value.
LEMMA DigitsOfValue ==
  ASSUME NEW b \in Seq(Byte)
  PROVE  Value(b) \in 0..Power[Len(b)] - 1 /\ Digits(Value(b), Len(b)) = b
<1> DEFINE n == Len(b)
           v == Value(b)
<1>1. PICK f \in [1..(n + 1) -> Nat] :
         /\ f[1] = v /\ f[n + 1] = 0
         /\ \A i \in 1..n : f[i] = b[i] + Base * f[i + 1]
  BY ValueOfSuffixes
<1>2. n \in Nat /\ \A i \in 1..n : b[i] \in Byte
  OBVIOUS
<1>3. Base \in Nat \ {0}
  BY FramesAssumption
<1>4. v \in Nat
  BY <1>1, <1>2
<1> HIDE DEF v, n
<1>5. v < Power[n]
  <2> DEFINE K == {k \in Nat : \A i \in 1..(n + 1) : i + k = n + 1 => f[i] < Power[k]}
  <2>1. 0 \in K
    <3>1. f[n + 1] < Power[0]
      BY <1>1, PowerSteps
    <3>2. \A i \in 1..(n + 1) : i + 0 = n + 1 => i = n + 1
      BY <1>2
    <3> QED BY <3>1, <3>2
  <2>2. ASSUME NEW k \in Nat, k \in K PROVE k + 1 \in K
    <3> SUFFICES ASSUME NEW i \in 1..(n + 1), i + (k + 1) = n + 1 PROVE f[i] < Power[k + 1]
      OBVIOUS
    <3>1. i \in 1..n /\ i + 1 \in 1..(n + 1) /\ (i + 1) + k = n + 1
      BY <1>2
    <3> DEFINE x == f[i + 1]
               p == Power[k]
    <3>2. x < p /\ x \in Nat /\ p \in Nat /\ Power[k + 1] = Base * p
      BY <1>1, <2>2, <3>1, PowerSteps
    <3>3. f[i] = b[i] + Base * x /\ b[i] \in 0..Base - 1
      BY <1>1, <1>2, <3>1 DEF Byte
    <3> HIDE DEF x, p, K
    <3>4. Base * (x + 1) <= Base * p
      <4> DEFINE z == p - (x + 1)
      <4>1. z \in Nat /\ Base * z \in Nat
        BY <1>3, <3>2
      <4>2. Base * z = Base * p - Base * (x + 1)
        BY <1>3, <3>2
      <4>3. Base * p \in Nat /\ Base * (x + 1) \in Nat
        BY <1>3, <3>2
      <4> HIDE DEF z
      <4> QED BY <4>1, <4>2, <4>3
    <3>5. Base * (x + 1) = Base * x + Base /\ Base * x \in Nat /\ Base * p \in Nat
      BY <1>3, <3>2
    <3> DEFINE y == Base * x
               z == Base * p
    <3>6. y \in Nat /\ z \in Nat /\ y + Base <= z
      BY <3>4, <3>5
    <3>7. f[i] = b[i] + y /\ Power[k + 1] = z
      BY <3>2, <3>3
    <3> HIDE DEF y, z
    <3> QED BY <1>3, <3>3, <3>6, <3>7
  <2>3. n \in K
    <3> HIDE DEF K
    <3> QED BY <1>2, <2>1, <2>2, Induction
  <2>4. 1 \in 1..(n + 1) /\ 1 + n = n + 1
    BY <1>2
  <2>5. f[1] < Power[n]
    BY <2>3, <2>4
  <2> QED BY <1>1, <2>5
<1> DEFINE L == {k \in Nat : k <= n => f[k + 1] = v \div Power[k]}
<1>6. 0 \in L
  <2>1. v \div 1 = v
    BY <1>4
  <2> QED BY <1>1, <2>1, PowerSteps
<1>7. ASSUME NEW k \in Nat, k < n PROVE (b[k + 1] + Base * f[k + 2]) \div Base = f[k + 2]
                                        /\ (b[k + 1] + Base * f[k + 2]) % Base = b[k + 1]
  <2> DEFINE x == f[k + 2]
             d == b[k + 1]
  <2>1. x \in Nat /\ d \in 0..Base - 1
    BY <1>1, <1>2, <1>7 DEF Byte
  <2> HIDE DEF x, d
  <2>2. (Base * x + d) \div Base = x /\ (Base * x + d) % Base = d
    BY <1>3, <2>1, QuotientUnique
  <2>3. Base * x + d = d + Base * x
    BY <1>3, <2>1
  <2> QED BY <2>2, <2>3 DEF x, d
<1>8. ASSUME NEW k \in Nat, k < n PROVE f[k + 1] = b[k + 1] + Base * f[k + 2]
  <2>1. k + 1 \in 1..n /\ (k + 1) + 1 = k + 2
    BY <1>2, <1>8
  <2> QED BY <1>1, <2>1
<1>9. ASSUME NEW k \in Nat, k \in L PROVE k + 1 \in L
  <2> SUFFICES ASSUME k + 1 <= n PROVE f[k + 2] = v \div Power[k + 1]
    OBVIOUS
  <2>1. k < n /\ f[k + 1] = v \div Power[k]
    BY <1>2, <1>9
  <2>2. f[k + 1] \div Base = f[k + 2]
    BY <1>7, <1>8, <2>1
  <2>3. (v \div Power[k]) \div Base = v \div Power[k + 1]
    <3>1. k + 1 \in Nat \ {0} /\ (k + 1) - 1 = k
      OBVIOUS
    <3> QED BY <1>4, <3>1, QuotientSteps
  <2> QED BY <2>1, <2>2, <2>3
<1>10. \A k \in Nat : k \in L
  <2> HIDE DEF L
  <2> QED BY <1>6, <1>9, Induction
<1>11. ASSUME NEW i \in 1..n PROVE Digits(v, n)[i] = b[i]
  <2>1. i - 1 \in Nat /\ i - 1 < n /\ i - 1 <= n /\ (i - 1) + 1 = i /\ (i - 1) + 2 = i + 1
    BY <1>2
  <2>2. f[i] = v \div Power[i - 1]
    BY <1>10, <2>1
  <2>3. f[i] % Base = b[i]
    BY <1>7, <1>8, <2>1
  <2> QED BY <1>2, <1>4, <2>2, <2>3, DigitsType
<1>12. Digits(v, n) = b
  <2>1. Digits(v, n) \in Seq(Byte) /\ Len(Digits(v, n)) = n /\ Len(b) = n
    BY <1>2, <1>4, DigitsType DEF n
  <2> QED BY <1>11, <2>1, SameElements
<1>13. v \in 0..Power[n] - 1
  <2>1. Power[n] \in Nat
    BY <1>2, PowerSteps
  <2> QED BY <1>4, <1>5, <2>1
<1> QED BY <1>12, <1>13 DEF v, n

-----------------------------------------------------------------------------
(* Sequences of bytes turned round, joined and taken apart.                *)

LEMMA ReverseFacts ==
  ASSUME NEW S, NEW b \in Seq(S)
  PROVE  /\ Reverse(b) \in Seq(S) /\ Len(Reverse(b)) = Len(b)
         /\ \A i \in 1..Len(b) : Reverse(b)[i] = b[Len(b) - i + 1]
         /\ Reverse(Reverse(b)) = b
<1>1. \A i \in 1..Len(b) : b[Len(b) - i + 1] \in S
  OBVIOUS
<1>2. Reverse(b) \in Seq(S) /\ Len(Reverse(b)) = Len(b)
  BY <1>1 DEF Reverse
<1>3. \A i \in 1..Len(b) : Reverse(b)[i] = b[Len(b) - i + 1]
  BY DEF Reverse
<1>4. Reverse(Reverse(b)) = b
  <2> DEFINE r == Reverse(b)
             n == Len(b)
  <2>1. r \in Seq(S) /\ Len(r) = n /\ n \in Nat
    BY <1>2
  <2>2. \A i \in 1..n : n - i + 1 \in 1..n /\ n - (n - i + 1) + 1 = i
    BY <2>1
  <2>3. \A i \in 1..n : r[n - i + 1] = b[i]
    BY <1>3, <2>2
  <2>4. \A i \in 1..n : Reverse(r)[i] = r[n - i + 1]
    BY <2>1 DEF Reverse
  <2>5. \A i \in 1..n : r[n - i + 1] \in S
    BY <2>1, <2>2
  <2>6. Reverse(r) \in Seq(S) /\ Len(Reverse(r)) = n
    BY <2>1, <2>5 DEF Reverse
  <2>7. \A i \in 1..n : Reverse(r)[i] = b[i]
    BY <2>3, <2>4
  <2> HIDE DEF r
  <2> QED BY <2>6, <2>7, SameElements DEF r
<1> QED BY <1>2, <1>3, <1>4

LEMMA ReverseOfConcat ==
  ASSUME NEW S, NEW a \in Seq(S), NEW b \in Seq(S)
  PROVE  Reverse(a \o b) = Reverse(b) \o Reverse(a)
<1> DEFINE m == Len(a)
           n == Len(b)
           c == a \o b
<1>1. /\ c \in Seq(S) /\ Len(c) = m + n /\ m \in Nat /\ n \in Nat
      /\ \A i \in 1..(m + n) : c[i] = IF i <= m THEN a[i] ELSE b[i - m]
  BY ConcatProperties
<1>2. /\ Reverse(c) \in Seq(S) /\ Len(Reverse(c)) = m + n
      /\ \A i \in 1..(m + n) : Reverse(c)[i] = c[m + n - i + 1]
  <2> HIDE DEF c, m, n
  <2>1. /\ Reverse(c) \in Seq(S) /\ Len(Reverse(c)) = Len(c)
        /\ \A i \in 1..Len(c) : Reverse(c)[i] = c[Len(c) - i + 1]
    BY <1>1, ReverseFacts
  <2>2. Len(c) = m + n
    BY <1>1
  <2>3. Reverse(c) \in Seq(S) /\ Len(Reverse(c)) = m + n
    BY <2>1, <2>2
  <2>4. ASSUME NEW i \in 1..(m + n)
        PROVE  Reverse(c)[i] = c[m + n - i + 1]
    <3>1. i \in 1..Len(c)
      BY <2>2
    <3>2. Reverse(c)[i] = c[Len(c) - i + 1]
      BY <2>1, <3>1
    <3>3. m \in Nat /\ n \in Nat
      BY <1>1
    <3>4. Len(c) - i + 1 = m + n - i + 1
      BY <2>2, <3>3
    <3> QED BY <3>2, <3>4
  <2> QED BY <2>3, <2>4
<1>3. /\ Reverse(a) \in Seq(S) /\ Len(Reverse(a)) = m
      /\ \A i \in 1..m : Reverse(a)[i] = a[m - i + 1]
  BY ReverseFacts
<1>4. /\ Reverse(b) \in Seq(S) /\ Len(Reverse(b)) = n
      /\ \A i \in 1..n : Reverse(b)[i] = b[n - i + 1]
  BY ReverseFacts
<1> DEFINE d == Reverse(b) \o Reverse(a)
<1>5. /\ d \in Seq(S) /\ Len(d) = n + m
      /\ \A i \in 1..(n + m) : d[i] = IF i <= n THEN Reverse(b)[i] ELSE Reverse(a)[i - n]
  <2> DEFINE x == Reverse(b)
             y == Reverse(a)
  <2>1. x \in Seq(S) /\ y \in Seq(S) /\ Len(x) = n /\ Len(y) = m
    BY <1>3, <1>4
  <2> HIDE DEF x, y, m, n
  <2>2. x \o y \in Seq(S) /\ Len(x \o y) = n + m
    BY <2>1, ConcatProperties
  <2>3. \A i \in 1..(n + m) : (x \o y)[i] = IF i <= n THEN x[i] ELSE y[i - n]
    BY <2>1, ConcatProperties
  <2> QED BY <2>2, <2>3 DEF x, y
<1> HIDE DEF c, d, m, n
<1>6. ASSUME NEW i \in 1..(m + n) PROVE Reverse(c)[i] = d[i]
  <2>1. CASE i <= n
    <3>1. m + n - i + 1 \in 1..(m + n) /\ ~(m + n - i + 1 <= m) /\ i \in 1..n /\ i \in 1..(n + m)
          /\ m + n - i + 1 - m = n - i + 1
      BY <1>1, <2>1
    <3>2. Reverse(c)[i] = c[m + n - i + 1]
      BY <1>2
    <3>3. c[m + n - i + 1] = b[n - i + 1]
      BY <1>1, <3>1
    <3>4. d[i] = Reverse(b)[i]
      BY <1>5, <2>1, <3>1
    <3>5. Reverse(b)[i] = b[n - i + 1]
      BY <1>4, <3>1
    <3> QED BY <3>2, <3>3, <3>4, <3>5
  <2>2. CASE ~(i <= n)
    <3>1. m + n - i + 1 \in 1..(m + n) /\ m + n - i + 1 <= m /\ i - n \in 1..m /\ i \in 1..(n + m)
          /\ m + n - i + 1 = m - (i - n) + 1
      BY <1>1, <2>2
    <3>2. Reverse(c)[i] = c[m + n - i + 1]
      BY <1>2
    <3>3. c[m + n - i + 1] = a[m - (i - n) + 1]
      BY <1>1, <3>1
    <3>4. d[i] = Reverse(a)[i - n]
      BY <1>5, <2>2, <3>1
    <3>5. Reverse(a)[i - n] = a[m - (i - n) + 1]
      BY <1>3, <3>1
    <3> QED BY <3>2, <3>3, <3>4, <3>5
  <2> QED BY <2>1, <2>2
<1>7. Reverse(c) = d
  <2>1. Len(Reverse(c)) = m + n /\ Len(d) = m + n
    BY <1>1, <1>2, <1>5
  <2> QED BY <1>2, <1>5, <1>6, <2>1, SameElements
<1> QED BY <1>7 DEF c, d

\* The bytes of a number of two parts are those of the parts.
LEMMA DigitsOfParts ==
  ASSUME NEW n \in Nat, NEW a \in 0..Power[n] - 1, NEW b \in Nat
  PROVE  Digits(a + Power[n] * b, 2 * n) = Digits(a, n) \o Digits(b, n)
<1> DEFINE p == Power[n]
           v == a + p * b
           x == Digits(a, n)
           y == Digits(b, n)
<1>1. p \in Nat \ {0} /\ a \in 0..p - 1 /\ Base \in Nat \ {0}
  BY PowerSteps, FramesAssumption
<1>2. a \in Nat /\ v \in Nat
  <2> HIDE DEF p
  <2> QED BY <1>1
<1>3. v \div p = b
  <2> HIDE DEF p
  <2>1. (p * b + a) \div p = b
    BY <1>1, QuotientUnique
  <2>2. p * b + a = v
    BY <1>1
  <2> QED BY <2>1, <2>2
<1>4. /\ x \in Seq(Byte) /\ Len(x) = n
      /\ \A i \in 1..n : x[i] = (a \div Power[i - 1]) % Base
      /\ y \in Seq(Byte) /\ Len(y) = n
      /\ \A i \in 1..n : y[i] = (b \div Power[i - 1]) % Base
  BY <1>2, DigitsType
<1>5. /\ Digits(v, 2 * n) \in Seq(Byte) /\ Len(Digits(v, 2 * n)) = 2 * n
      /\ \A i \in 1..(2 * n) : Digits(v, 2 * n)[i] = (v \div Power[i - 1]) % Base
  <2> HIDE DEF v
  <2>1. 2 * n \in Nat
    OBVIOUS
  <2> QED BY <1>2, <2>1, DigitsType
<1> HIDE DEF x, y
<1>6. /\ x \o y \in Seq(Byte) /\ Len(x \o y) = 2 * n
      /\ \A i \in 1..(2 * n) : (x \o y)[i] = IF i <= n THEN x[i] ELSE y[i - n]
  <2>1. x \in Seq(Byte) /\ y \in Seq(Byte) /\ Len(x) = n /\ Len(y) = n
    BY <1>4
  <2>2. x \o y \in Seq(Byte) /\ Len(x \o y) = Len(x) + Len(y)
    BY <2>1, ConcatProperties
  <2>3. \A i \in 1..(Len(x) + Len(y)) : (x \o y)[i] = IF i <= Len(x) THEN x[i] ELSE y[i - Len(x)]
    BY <2>1, ConcatProperties
  <2> QED BY <2>1, <2>2, <2>3
<1>7. ASSUME NEW i \in 1..n PROVE (v \div Power[i - 1]) % Base = (a \div Power[i - 1]) % Base
  <2> DEFINE s == Power[i - 1]
             t == Power[n - i]
  <2>1. i - 1 \in Nat /\ n - i \in Nat /\ (i - 1) + (n - i) + 1 = n
    OBVIOUS
  <2>2. s \in Nat \ {0} /\ t \in Nat \ {0}
    BY <2>1, PowerSteps
  <2>3. p = Base * (s * t)
    <3>1. Power[(i - 1) + (n - i)] = s * t
      BY <2>1, PowerAdds
    <3>2. (i - 1) + (n - i) \in Nat
      BY <2>1
    <3>3. Power[(i - 1) + (n - i) + 1] = Base * Power[(i - 1) + (n - i)]
      BY <3>2, PowerSteps
    <3> QED BY <2>1, <3>1, <3>3
  <2> DEFINE q == a \div s
             r == a % s
  <2>4. q \in Nat /\ r \in 0..s - 1 /\ a = s * q + r
    <3> HIDE DEF s
    <3> QED BY <1>2, <2>2
  <2> HIDE DEF p, s, t, q, r
  <2>5. v = s * (q + Base * (t * b)) + r
    <3>1. (Base * (s * t)) * b = s * (Base * (t * b))
      BY <1>1, <2>2
    <3>2. s * (q + Base * (t * b)) = s * q + s * (Base * (t * b))
      <4> DEFINE z == Base * (t * b)
      <4>1. z \in Nat
        BY <1>1, <2>2
      <4> HIDE DEF z
      <4>2. s * (q + z) = s * q + s * z
        BY <2>2, <2>4, <4>1
      <4> QED BY <4>2 DEF z
    <3> DEFINE w == s * (Base * (t * b))
               u == s * q
    <3>3. w \in Nat /\ u \in Nat
      <4>1. Base * (t * b) \in Nat
        BY <1>1, <2>2
      <4> QED BY <2>2, <2>4, <4>1
    <3>4. v = a + w
      BY <2>3, <3>1
    <3>5. s * (q + Base * (t * b)) = u + w /\ a = u + r
      BY <2>4, <3>2
    <3> HIDE DEF w, u
    <3> QED BY <2>4, <3>3, <3>4, <3>5
  <2> DEFINE z == t * b
  <2>6. z \in Nat
    BY <2>2
  <2> HIDE DEF z, v
  <2>7. v \div s = q + Base * z
    <3>1. q + Base * z \in Nat
      BY <1>1, <2>4, <2>6
    <3>2. v = s * (q + Base * z) + r
      BY <2>5 DEF z
    <3> HIDE DEF v
    <3> QED BY <2>2, <2>4, <3>1, <3>2, QuotientUnique
  <2>8. (q + Base * z) % Base = q % Base
    <3> DEFINE k == q \div Base
               l == q % Base
    <3>1. q = Base * k + l /\ k \in Nat /\ l \in 0..Base - 1
      BY <1>1, <2>4
    <3> HIDE DEF k, l
    <3>2. q + Base * z = Base * (k + z) + l
      BY <1>1, <2>6, <3>1
    <3>3. (Base * (k + z) + l) % Base = l
      BY <1>1, <2>6, <3>1, QuotientUnique
    <3> QED BY <3>2, <3>3 DEF l
  <2> QED BY <2>7, <2>8 DEF s, q
<1>8. ASSUME NEW i \in 1..n PROVE (v \div Power[n + i - 1]) % Base = (b \div Power[i - 1]) % Base
  <2>1. i - 1 \in Nat /\ n + (i - 1) = n + i - 1 /\ Power[i - 1] \in Nat \ {0}
    BY PowerSteps
  <2>2. Power[n + i - 1] = p * Power[i - 1]
    <3>1. Power[n + (i - 1)] = Power[n] * Power[i - 1]
      BY <2>1, PowerAdds
    <3> QED BY <2>1, <3>1
  <2> HIDE DEF v, p
  <2>3. (v \div p) \div Power[i - 1] = v \div (p * Power[i - 1])
    BY <1>1, <1>2, <2>1, QuotientOfQuotient
  <2> QED BY <1>3, <2>2, <2>3
<1> HIDE DEF v
<1>9. ASSUME NEW i \in 1..(2 * n) PROVE Digits(v, 2 * n)[i] = (x \o y)[i]
  <2>1. CASE i <= n
    <3>1. i \in 1..n
      BY <2>1
    <3> QED BY <1>4, <1>5, <1>6, <1>7, <2>1, <3>1
  <2>2. CASE ~(i <= n)
    <3>1. i - n \in 1..n /\ n + (i - n) - 1 = i - 1
      BY <2>2
    <3>2. (v \div Power[i - 1]) % Base = (b \div Power[i - n - 1]) % Base
      BY <1>8, <3>1
    <3>3. y[i - n] = (b \div Power[i - n - 1]) % Base
      BY <1>4, <3>1
    <3> QED BY <1>5, <1>6, <2>2, <3>2, <3>3
  <2> QED BY <2>1, <2>2
<1>10. Digits(v, 2 * n) = x \o y
  <2>1. Len(Digits(v, 2 * n)) = Len(x \o y)
    BY <1>5, <1>6
  <2> QED BY <1>5, <1>6, <1>9, <2>1, SameElements
<1> QED BY <1>10 DEF v, x, y, p

LEMMA SplitConcat ==
  ASSUME NEW S, NEW a \in Seq(S), NEW b \in Seq(S), NEW c \in Seq(S), NEW d \in Seq(S),
         Len(a) = Len(c), a \o b = c \o d
  PROVE  a = c /\ b = d
<1> DEFINE x == a \o b
<1>1. /\ x \in Seq(S) /\ Len(x) = Len(a) + Len(b)
      /\ \A i \in 1..(Len(a) + Len(b)) : x[i] = IF i <= Len(a) THEN a[i] ELSE b[i - Len(a)]
  BY ConcatProperties
<1>2. /\ x \in Seq(S) /\ Len(x) = Len(c) + Len(d)
      /\ \A i \in 1..(Len(c) + Len(d)) : x[i] = IF i <= Len(c) THEN c[i] ELSE d[i - Len(c)]
  BY ConcatProperties
<1> HIDE DEF x
<1>3. Len(a) \in Nat /\ Len(b) = Len(d) /\ Len(b) \in Nat
  BY <1>1, <1>2
<1>4. ASSUME NEW i \in 1..Len(a) PROVE a[i] = c[i]
  <2>1. i \in 1..(Len(a) + Len(b)) /\ i <= Len(a)
    BY <1>3
  <2>2. x[i] = a[i]
    BY <1>1, <2>1
  <2>3. x[i] = c[i]
    BY <1>2, <1>3, <2>1
  <2> QED BY <2>2, <2>3
<1>5. ASSUME NEW i \in 1..Len(b) PROVE b[i] = d[i]
  <2>1. /\ Len(a) + i \in 1..(Len(a) + Len(b)) /\ ~(Len(a) + i <= Len(a))
        /\ Len(a) + i - Len(a) = i
    BY <1>3
  <2>2. x[Len(a) + i] = b[i]
    BY <1>1, <2>1
  <2>3. x[Len(a) + i] = d[i]
    <3>1. /\ Len(c) + i \in 1..(Len(c) + Len(d)) /\ ~(Len(c) + i <= Len(c))
          /\ Len(c) + i - Len(c) = i
      BY <1>3
    <3>2. x[Len(c) + i] = d[i]
      BY <1>2, <3>1
    <3> QED BY <3>2
  <2> QED BY <2>2, <2>3
<1> QED BY <1>3, <1>4, <1>5, SameElements

\* Two words side by side stand for the first and Word times the second.
LEMMA ValueOfParts ==
  ASSUME NEW n \in Nat, NEW x \in Seq(Byte), NEW y \in Seq(Byte), Len(x) = n, Len(y) = n
  PROVE  Value(x \o y) = Value(x) + Power[n] * Value(y)
<1> DEFINE a == Value(x)
           b == Value(y)
           p == Power[n]
           v == a + p * b
<1>1. a \in 0..p - 1 /\ Digits(a, n) = x /\ b \in 0..p - 1 /\ Digits(b, n) = y
  BY DigitsOfValue
<1>2. p \in Nat \ {0} /\ Power[2 * n] = p * p /\ 2 * n \in Nat
  <2>1. n + n = 2 * n /\ 2 * n \in Nat
    OBVIOUS
  <2>2. Power[n + n] = Power[n] * Power[n]
    BY PowerAdds
  <2> QED BY <2>1, <2>2, PowerSteps
<1> HIDE DEF a, b
<1>3. Digits(v, 2 * n) = x \o y
  <2>1. a \in 0..Power[n] - 1 /\ b \in Nat
    BY <1>1, <1>2
  <2> QED BY <1>1, <2>1, DigitsOfParts
<1>4. v \in 0..Power[2 * n] - 1
  <2> HIDE DEF p
  <2>1. p * (b + 1) <= p * p
    <3> DEFINE z == p - (b + 1)
    <3>1. z \in Nat /\ p * z \in Nat
      BY <1>1, <1>2
    <3>2. p * z = p * p - p * (b + 1)
      BY <1>1, <1>2
    <3>3. p * p \in Nat /\ p * (b + 1) \in Nat
      BY <1>1, <1>2
    <3> HIDE DEF z
    <3> QED BY <3>1, <3>2, <3>3
  <2>2. p * (b + 1) = p * b + p
    BY <1>1, <1>2
  <2> DEFINE s == p * b
             t == p * p
  <2>3. s \in Nat /\ t \in Nat /\ s + p <= t /\ v = a + s /\ Power[2 * n] = t
    BY <1>1, <1>2, <2>1, <2>2
  <2> HIDE DEF s, t, v
  <2> QED BY <1>1, <1>2, <2>3
<1> HIDE DEF v
<1>5. Value(Digits(v, 2 * n)) = v
  BY <1>2, <1>4, ValueOfDigits
<1> QED BY <1>3, <1>5 DEF v, a, b, p

-----------------------------------------------------------------------------
(* Byte order.  What a host converts and stores has the most significant   *)
(* byte first, and what it loads and converts is read that way.            *)

Hosts == {"little", "big"}

Swapped(v, n, host) == IF host = "big" THEN v ELSE Value(Reverse(Digits(v, n)))

LEMMA SwappedOut ==
  ASSUME NEW n \in Nat, NEW v \in Nat, NEW host \in Hosts
  PROVE  Store(Swapped(v, n, host), n, host) = Reverse(Digits(v, n))
<1>1. Digits(v, n) \in Seq(Byte) /\ Len(Digits(v, n)) = n
  BY DigitsType
<1>2. Reverse(Digits(v, n)) \in Seq(Byte) /\ Len(Reverse(Digits(v, n))) = n
  BY <1>1, ReverseFacts
<1>3. Digits(Value(Reverse(Digits(v, n))), n) = Reverse(Digits(v, n))
  BY <1>2, DigitsOfValue
<1> QED BY <1>3 DEF Store, Ordered, Swapped, Hosts

LEMMA SwappedIn ==
  ASSUME NEW b \in Seq(Byte), NEW host \in Hosts
  PROVE  Swapped(Load(b, host), Len(b), host) = Value(Reverse(b))
<1>1. Digits(Value(b), Len(b)) = b
  BY DigitsOfValue
<1> QED BY <1>1 DEF Load, Ordered, Swapped, Hosts

LEMMA htonlSwaps ==
  ASSUME NEW v, NEW host
  PROVE  htonl(v, host) = Swapped(v, WordBytes, host)
  BY DEF htonl, Swapped

LEMMA htonllSwaps ==
  ASSUME NEW v \in Nat, NEW host \in Hosts
  PROVE  htonll(v, host) = Swapped(v, HEAD_ID_LENGTH, host)
<1> DEFINE a == v % Word
           b == v \div Word
           x == Digits(a, WordBytes)
           y == Digits(b, WordBytes)
<1>1. WordBytes \in Nat /\ Word \in Nat \ {0} /\ Word = Power[WordBytes]
  BY FramesAssumption, PowerSteps DEF Word
<1>2. a \in 0..Power[WordBytes] - 1 /\ b \in Nat /\ v = a + Power[WordBytes] * b
  <2> DEFINE w == Word
  <2>1. w \in Nat \ {0} /\ w = Power[WordBytes]
    BY <1>1
  <2> HIDE DEF w
  <2>2. v % w \in 0..w - 1 /\ v \div w \in Nat /\ v = w * (v \div w) + (v % w)
    BY <2>1, Division
  <2>3. v = (v % w) + w * (v \div w)
    <3> DEFINE r == v % w
               k == v \div w
    <3>1. k \in Nat /\ r \in Nat /\ v = w * k + r
      BY <2>1, <2>2
    <3> HIDE DEF k, r
    <3>2. v = r + w * k
      BY <2>1, <3>1
    <3> QED BY <3>2 DEF k, r
  <2> QED BY <2>1, <2>2, <2>3 DEF w
<1> HIDE DEF a, b
<1>3. Digits(v, HEAD_ID_LENGTH) = x \o y
  BY <1>1, <1>2, DigitsOfParts DEF HEAD_ID_LENGTH
<1>4. x \in Seq(Byte) /\ y \in Seq(Byte) /\ Len(x) = WordBytes /\ Len(y) = WordBytes
  BY <1>1, <1>2, DigitsType
<1>5. Reverse(x \o y) = Reverse(y) \o Reverse(x)
  BY <1>4, ReverseOfConcat
<1> HIDE DEF x, y
<1>6. /\ Reverse(x) \in Seq(Byte) /\ Len(Reverse(x)) = WordBytes
      /\ Reverse(y) \in Seq(Byte) /\ Len(Reverse(y)) = WordBytes
  BY <1>4, ReverseFacts
<1>7. Value(Reverse(y) \o Reverse(x)) = Value(Reverse(y)) + Word * Value(Reverse(x))
  BY <1>1, <1>6, ValueOfParts
<1>8. Value(Reverse(x)) \in Nat /\ Value(Reverse(y)) \in Nat
  <2>1. Power[WordBytes] \in Nat
    BY <1>1
  <2> QED BY <1>6, <2>1, DigitsOfValue
<1>9. Value(Reverse(x)) * Word + Value(Reverse(y)) = Value(Reverse(y)) + Word * Value(Reverse(x))
  BY <1>1, <1>8
<1>10. CASE host = "big"
  BY <1>10 DEF htonll, Swapped
<1>11. CASE host = "little"
  <2>1. htonl(a, host) = Value(Reverse(x)) /\ htonl(b, host) = Value(Reverse(y))
    BY <1>11 DEF htonl, x, y
  <2>2. htonll(v, host) = htonl(a, host) * Word + htonl(b, host)
    BY <1>11 DEF htonll, a, b
  <2>3. Swapped(v, HEAD_ID_LENGTH, host) = Value(Reverse(x \o y))
    BY <1>3, <1>11 DEF Swapped
  <2> QED BY <1>5, <1>7, <1>9, <2>1, <2>2, <2>3
<1> QED BY <1>10, <1>11 DEF Hosts

\* The header on the wire, whatever the host that wrote it.
NetHeader(id, len) == Reverse(Digits(id, HEAD_ID_LENGTH)) \o Reverse(Digits(len, HEAD_LEN_LENGTH))

LEMMA Lengths ==
  /\ HEAD_ID_LENGTH \in Nat /\ HEAD_LEN_LENGTH \in Nat /\ HEAD_LENGTH \in Nat \ {0}
  /\ HEAD_LENGTH = HEAD_ID_LENGTH + HEAD_LEN_LENGTH
  /\ HEAD_LEN_LENGTH = WordBytes
  BY FramesAssumption DEF HEAD_ID_LENGTH, HEAD_LEN_LENGTH, HEAD_LENGTH

LEMMA HeaderIsNet ==
  ASSUME sender \in Hosts, NEW id \in Nat, NEW len \in Nat
  PROVE  Header(id, len) = NetHeader(id, len)
<1>1. Store(htonll(id, sender), HEAD_ID_LENGTH, sender) = Reverse(Digits(id, HEAD_ID_LENGTH))
  <2>1. htonll(id, sender) = Swapped(id, HEAD_ID_LENGTH, sender)
    BY htonllSwaps
  <2> QED BY <2>1, Lengths, SwappedOut
<1>2. Store(htonl(len, sender), HEAD_LEN_LENGTH, sender) = Reverse(Digits(len, HEAD_LEN_LENGTH))
  <2>1. htonl(len, sender) = Swapped(len, HEAD_LEN_LENGTH, sender)
    BY Lengths, htonlSwaps
  <2> QED BY <2>1, Lengths, SwappedOut
<1> QED BY <1>1, <1>2 DEF Header, NetHeader

LEMMA NetHeaderType ==
  ASSUME NEW id \in Nat, NEW len \in Nat
  PROVE  NetHeader(id, len) \in Seq(Byte) /\ Len(NetHeader(id, len)) = HEAD_LENGTH
<1> DEFINE x == Reverse(Digits(id, HEAD_ID_LENGTH))
           y == Reverse(Digits(len, HEAD_LEN_LENGTH))
<1>1. /\ Digits(id, HEAD_ID_LENGTH) \in Seq(Byte)
      /\ Len(Digits(id, HEAD_ID_LENGTH)) = HEAD_ID_LENGTH
      /\ Digits(len, HEAD_LEN_LENGTH) \in Seq(Byte)
      /\ Len(Digits(len, HEAD_LEN_LENGTH)) = HEAD_LEN_LENGTH
  BY Lengths, DigitsType
<1>2. x \in Seq(Byte) /\ y \in Seq(Byte) /\ Len(x) = HEAD_ID_LENGTH /\ Len(y) = HEAD_LEN_LENGTH
  BY <1>1, ReverseFacts
<1> HIDE DEF x, y
<1>3. x \o y \in Seq(Byte) /\ Len(x \o y) = HEAD_LENGTH
  BY <1>2, Lengths, ConcatProperties
<1> QED BY <1>3 DEF NetHeader, x, y

\* What readHead() takes out of the header in b.
IdOf(b, host) == htonll(Load(SubSeq(b, 1, HEAD_ID_LENGTH), host), host)
LenOf(b, host) == htonl(Load(SubSeq(b, HEAD_ID_LENGTH + 1, HEAD_LENGTH), host), host)

LEMMA LoadType ==
  ASSUME NEW b \in Seq(Byte), NEW host \in Hosts
  PROVE  Load(b, host) \in 0..Power[Len(b)] - 1
<1>1. Ordered(b, host) \in Seq(Byte) /\ Len(Ordered(b, host)) = Len(b)
  BY ReverseFacts DEF Ordered
<1> QED BY <1>1, DigitsOfValue DEF Load

\* Whatever the bytes, the fields of a header are numbers that fit.
LEMMA FieldsOf ==
  ASSUME NEW b \in Seq(Byte), Len(b) = HEAD_LENGTH, NEW host \in Hosts
  PROVE  LET x == SubSeq(b, 1, HEAD_ID_LENGTH)
             y == SubSeq(b, HEAD_ID_LENGTH + 1, HEAD_LENGTH)
         IN  /\ x \in Seq(Byte) /\ Len(x) = HEAD_ID_LENGTH
             /\ y \in Seq(Byte) /\ Len(y) = HEAD_LEN_LENGTH
             /\ b = x \o y
             /\ IdOf(b, host) = Value(Reverse(x)) /\ LenOf(b, host) = Value(Reverse(y))
             /\ IdOf(b, host) \in 0..Power[HEAD_ID_LENGTH] - 1
             /\ LenOf(b, host) \in Nat
<1> DEFINE x == SubSeq(b, 1, HEAD_ID_LENGTH)
           y == SubSeq(b, HEAD_ID_LENGTH + 1, HEAD_LENGTH)
           k == HEAD_ID_LENGTH
           l == HEAD_LEN_LENGTH
           h == HEAD_LENGTH
<1>1. k \in Nat /\ l \in Nat /\ h = k + l
  BY Lengths
<1> HIDE DEF k, l, h
<1>2. /\ x \in Seq(Byte) /\ Len(x) = HEAD_ID_LENGTH
      /\ y \in Seq(Byte) /\ Len(y) = HEAD_LEN_LENGTH
      /\ b = x \o y
  <2>1. Len(b) = h
    BY DEF h
  <2> DEFINE u == SubSeq(b, 1, k)
             w == SubSeq(b, k + 1, h)
  <2>2. u \in Seq(Byte) /\ Len(u) = k /\ \A i \in 1..k : u[i] = b[i]
    BY <1>1, <2>1
  <2>3. w \in Seq(Byte) /\ Len(w) = l /\ \A i \in 1..l : w[i] = b[k + i]
    BY <1>1, <2>1
  <2> HIDE DEF u, w
  <2>4. u \o w \in Seq(Byte) /\ Len(u \o w) = k + l
    BY <2>2, <2>3, ConcatProperties
  <2>5. \A i \in 1..(k + l) : (u \o w)[i] = IF i <= k THEN u[i] ELSE w[i - k]
    BY <2>2, <2>3, ConcatProperties
  <2>6. ASSUME NEW i \in 1..(k + l) PROVE (u \o w)[i] = b[i]
    <3>1. CASE i <= k
      BY <1>1, <2>2, <2>5, <3>1
    <3>2. CASE ~(i <= k)
      <4>1. i - k \in 1..l /\ k + (i - k) = i
        BY <1>1, <3>2
      <4> QED BY <2>3, <2>5, <3>2, <4>1
    <3> QED BY <3>1, <3>2
  <2>7. b = u \o w
    BY <1>1, <2>1, <2>4, <2>6, SameElements
  <2> QED BY <2>2, <2>3, <2>7 DEF u, w, k, l, h
<1> HIDE DEF x, y
<1>3. Load(x, host) \in Nat /\ Load(y, host) \in Nat
  <2>1. Power[Len(x)] \in Nat /\ Power[Len(y)] \in Nat
    BY <1>2, Lengths, PowerSteps
  <2> QED BY <1>2, <2>1, LoadType
<1>4. IdOf(b, host) = Value(Reverse(x))
  <2>1. IdOf(b, host) = Swapped(Load(x, host), Len(x), host)
    BY <1>2, <1>3, htonllSwaps DEF IdOf, x
  <2> QED BY <1>2, <2>1, SwappedIn
<1>5. LenOf(b, host) = Value(Reverse(y))
  <2>1. LenOf(b, host) = Swapped(Load(y, host), Len(y), host)
    BY <1>2, Lengths, htonlSwaps DEF LenOf, y
  <2> QED BY <1>2, <2>1, SwappedIn
<1>6. /\ Reverse(x) \in Seq(Byte) /\ Len(Reverse(x)) = HEAD_ID_LENGTH
      /\ Reverse(y) \in Seq(Byte) /\ Len(Reverse(y)) = HEAD_LEN_LENGTH
  BY <1>2, ReverseFacts
<1>7. Value(Reverse(x)) \in 0..Power[HEAD_ID_LENGTH] - 1 /\ Value(Reverse(y)) \in Nat
  <2>1. Power[HEAD_LEN_LENGTH] \in Nat
    BY Lengths, PowerSteps
  <2> QED BY <1>6, <2>1, DigitsOfValue
<1> QED BY <1>2, <1>4, <1>5, <1>7 DEF x, y

\* A header read is the header written: htonll, htonl and the two memcpys of
\* send() and readHead() carry every id and length from one host to any other,
\* for every number of bytes of a word.
THEOREM HeaderTransfers ==
  ASSUME NEW id \in 0..Power[HEAD_ID_LENGTH] - 1, NEW len \in 0..Word - 1, NEW host \in Hosts
  PROVE  IdOf(NetHeader(id, len), host) = id /\ LenOf(NetHeader(id, len), host) = len
<1> DEFINE b == NetHeader(id, len)
           x == SubSeq(b, 1, HEAD_ID_LENGTH)
           y == SubSeq(b, HEAD_ID_LENGTH + 1, HEAD_LENGTH)
           u == Reverse(Digits(id, HEAD_ID_LENGTH))
           w == Reverse(Digits(len, HEAD_LEN_LENGTH))
<1>1. id \in Nat /\ len \in Nat
  <2>1. Power[HEAD_ID_LENGTH] \in Nat /\ Word \in Nat
    BY Lengths, PowerSteps DEF Word
  <2> QED BY <2>1
<1>2. b \in Seq(Byte) /\ Len(b) = HEAD_LENGTH
  BY <1>1, NetHeaderType
<1>3. /\ x \in Seq(Byte) /\ Len(x) = HEAD_ID_LENGTH
      /\ y \in Seq(Byte) /\ Len(y) = HEAD_LEN_LENGTH
      /\ b = x \o y
      /\ IdOf(b, host) = Value(Reverse(x)) /\ LenOf(b, host) = Value(Reverse(y))
  <2> HIDE DEF b
  <2> QED BY <1>2, FieldsOf
<1>4. /\ Digits(id, HEAD_ID_LENGTH) \in Seq(Byte)
      /\ Len(Digits(id, HEAD_ID_LENGTH)) = HEAD_ID_LENGTH
      /\ Digits(len, HEAD_LEN_LENGTH) \in Seq(Byte)
      /\ Len(Digits(len, HEAD_LEN_LENGTH)) = HEAD_LEN_LENGTH
  BY <1>1, Lengths, DigitsType
<1>5. /\ u \in Seq(Byte) /\ w \in Seq(Byte) /\ Len(u) = HEAD_ID_LENGTH /\ Len(w) = HEAD_LEN_LENGTH
      /\ Reverse(u) = Digits(id, HEAD_ID_LENGTH) /\ Reverse(w) = Digits(len, HEAD_LEN_LENGTH)
  BY <1>4, ReverseFacts
<1>6. b = u \o w
  BY DEF NetHeader
<1> HIDE DEF b, x, y, u, w
<1>7. x = u /\ y = w
  BY <1>3, <1>5, <1>6, SplitConcat
<1>8. Value(Digits(id, HEAD_ID_LENGTH)) = id /\ Value(Digits(len, HEAD_LEN_LENGTH)) = len
  BY Lengths, ValueOfDigits DEF Word
<1> QED BY <1>3, <1>5, <1>7, <1>8 DEF b

-----------------------------------------------------------------------------
(* Types.                                                                  *)

Message == {m \in [id : Ids, msg : Seq(Byte)] : Acceptable(m.msg)}
IdRange == 0..Power[HEAD_ID_LENGTH] - 1

TypesInv ==
    /\ sender \in Hosts /\ receiver \in Hosts
    /\ sent \in Seq(Message) /\ got \in Seq([id : IdRange, msg : Seq(Byte)])
    /\ wire \in Seq(Byte) /\ cut \in BOOLEAN /\ open \in BOOLEAN
    /\ part \in {"head", "body"}
    /\ node \in [msg_id : IdRange, total_len : Nat, buf : Seq(Byte)]
    /\ node.total_len \in (IF part = "head" THEN {HEAD_LENGTH} ELSE 1..MAX_LENGTH)
    /\ Len(node.buf) <= node.total_len

LEMMA Pieces ==
  ASSUME NEW S, NEW w \in Seq(S), NEW n \in 0..Len(w)
  PROVE  /\ SubSeq(w, 1, n) \in Seq(S) /\ Len(SubSeq(w, 1, n)) = n
         /\ SubSeq(w, n + 1, Len(w)) \in Seq(S)
         /\ w = SubSeq(w, 1, n) \o SubSeq(w, n + 1, Len(w))
<1>1. /\ SubSeq(w, 1, n) \in Seq(S) /\ Len(SubSeq(w, 1, n)) = n
      /\ SubSeq(w, n + 1, Len(w)) \in Seq(S)
  OBVIOUS
<1>2. SubSeq(w, 1, n) \o SubSeq(w, n + 1, Len(w)) = SubSeq(w, 1, Len(w))
  <2>1. 1 \in 1..Len(w) + 1 /\ n \in (1 - 1)..Len(w) /\ Len(w) \in n..Len(w)
    OBVIOUS
  <2> QED BY <2>1, ConcatAdjacentSubSeq
<1>3. SubSeq(w, 1, Len(w)) = w
  OBVIOUS
<1> QED BY <1>1, <1>2, <1>3

LEMMA ConstantTypes ==
  /\ Word \in Nat \ {0} /\ MAX_LENGTH \in Nat \ {0} /\ MAX_LENGTH < Word
  /\ 0 \in IdRange /\ MSG_ID_INVALID \in IdRange /\ Ids \subseteq IdRange /\ IdRange \subseteq Nat
  /\ Bodies \subseteq Seq(Byte)
<1>1. /\ Power[WordBytes] \in Nat \ {0} /\ Power[HEAD_ID_LENGTH] \in Nat \ {0}
      /\ HEAD_ID_LENGTH = 2 * WordBytes
  BY Lengths, PowerSteps DEF HEAD_ID_LENGTH
<1> QED BY <1>1, FramesAssumption DEF Word, IdRange, MSG_ID_INVALID, Byte

LEMMA HeaderType ==
  ASSUME sender \in Hosts, NEW id \in Ids, NEW len \in Nat
  PROVE  /\ Header(id, len) = NetHeader(id, len)
         /\ NetHeader(id, len) \in Seq(Byte) /\ Len(NetHeader(id, len)) = HEAD_LENGTH
<1>1. id \in Nat
  BY ConstantTypes
<1> QED BY <1>1, HeaderIsNet, NetHeaderType

LEMMA TypesInit == Init => TypesInv
<1> SUFFICES ASSUME Init PROVE TypesInv
  OBVIOUS
<1>1. /\ node = [msg_id |-> MSG_ID_INVALID, total_len |-> HEAD_LENGTH, buf |-> <<>>]
      /\ MSG_ID_INVALID \in IdRange /\ HEAD_LENGTH \in Nat
  BY ConstantTypes, Lengths DEF Init, RecvNode
<1>2. node \in [msg_id : IdRange, total_len : Nat, buf : Seq(Byte)] /\ node.total_len = HEAD_LENGTH
      /\ Len(node.buf) <= node.total_len
  BY <1>1
<1>3. /\ sent \in Seq(Message) /\ got \in Seq([id : IdRange, msg : Seq(Byte)])
      /\ wire \in Seq(Byte) /\ cut \in BOOLEAN /\ open \in BOOLEAN
      /\ sender \in Hosts /\ receiver \in Hosts
  <2>1. /\ sent \in Seq(Message) /\ got \in Seq([id : IdRange, msg : Seq(Byte)])
        /\ wire \in Seq(Byte)
    <3>1. sent = <<>> /\ got = <<>> /\ wire = <<>>
      BY DEF Init
    <3> QED BY <3>1
  <2>2. sender \in Hosts /\ receiver \in Hosts
    BY DEF Init, Hosts
  <2>3. cut \in BOOLEAN /\ open \in BOOLEAN
    BY DEF Init
  <2> QED BY <2>1, <2>2, <2>3
<1>4. part = "head"
  BY DEF Init
<1> QED BY <1>2, <1>3, <1>4 DEF TypesInv

LEMMA SendTypes ==
  ASSUME TypesInv, toSend \/ ForeignHeader \/ Cut
  PROVE  TypesInv'
<1> USE DEF TypesInv
<1>1. CASE toSend
  <2>1. PICK id \in Ids, msg \in {m \in Bodies : Acceptable(m)} :
           /\ sent' = Append(sent, [id |-> id, msg |-> msg])
           /\ wire' = wire \o Header(id, Len(msg)) \o msg
    BY <1>1 DEF toSend
  <2>2. msg \in Seq(Byte) /\ Acceptable(msg) /\ Len(msg) \in Nat
    BY ConstantTypes
  <2>3. [id |-> id, msg |-> msg] \in Message
    BY <2>2 DEF Message
  <2>4. Header(id, Len(msg)) \in Seq(Byte)
    BY <2>2, HeaderType
  <2>5. sent' \in Seq(Message)
    BY <2>1, <2>3
  <2>6. wire' \in Seq(Byte)
    BY <2>1, <2>2, <2>4
  <2> QED BY <1>1, <2>5, <2>6 DEF toSend
<1>2. CASE ForeignHeader
  <2>1. PICK id \in Ids, len \in (0..Word - 1) \ (1..MAX_LENGTH) : wire' = wire \o Header(id, len)
    BY <1>2 DEF ForeignHeader
  <2>2. len \in Nat
    BY ConstantTypes
  <2>3. Header(id, len) \in Seq(Byte)
    BY <2>2, HeaderType
  <2>4. wire' \in Seq(Byte)
    BY <2>1, <2>3
  <2> QED BY <1>2, <2>4 DEF ForeignHeader
<1>3. CASE Cut
  <2>1. wire' \in Seq(Byte)
    BY <1>3 DEF Cut
  <2> QED BY <1>3, <2>1 DEF Cut
<1> QED BY <1>1, <1>2, <1>3

LEMMA ArrivesTypes ==
  ASSUME TypesInv, Arrives
  PROVE  TypesInv'
<1> USE DEF TypesInv
<1>1. PICK n \in 1..Len(wire) :
         /\ Len(node.buf) + n <= node.total_len
         /\ node' = [node EXCEPT !.buf = @ \o SubSeq(wire, 1, n)]
         /\ wire' = SubSeq(wire, n + 1, Len(wire))
  BY DEF Arrives
<1>2. SubSeq(wire, 1, n) \in Seq(Byte) /\ Len(SubSeq(wire, 1, n)) = n /\ wire' \in Seq(Byte)
  <2>1. wire \in Seq(Byte) /\ n \in 0..Len(wire)
    OBVIOUS
  <2> QED BY <1>1, <2>1, Pieces
<1>3. node.buf \in Seq(Byte)
  OBVIOUS
<1>4. /\ node.buf \o SubSeq(wire, 1, n) \in Seq(Byte)
      /\ Len(node.buf \o SubSeq(wire, 1, n)) = Len(node.buf) + n
  BY <1>2, <1>3, ConcatProperties
<1>5. /\ node' \in [msg_id : IdRange, total_len : Nat, buf : Seq(Byte)]
      /\ node'.total_len = node.total_len /\ Len(node'.buf) <= node'.total_len
  BY <1>1, <1>4
<1> QED BY <1>2, <1>5 DEF Arrives

LEMMA ReadTypes ==
  ASSUME TypesInv, HeadRead \/ BodyRead \/ ReadFails
  PROVE  TypesInv'
<1> USE DEF TypesInv
<1>1. CASE HeadRead
  <2>1. node.buf \in Seq(Byte) /\ Len(node.buf) = HEAD_LENGTH
    BY <1>1 DEF HeadRead, Full
  <2> DEFINE id == IdOf(node.buf, receiver)
             len == LenOf(node.buf, receiver)
  <2>2. id \in IdRange /\ len \in Nat
    BY <2>1, FieldsOf DEF IdRange
  <2>3. \/ open' = FALSE /\ UNCHANGED <<part, node>>
        \/ ~BadLength(len) /\ readBody(id, len) /\ UNCHANGED open
    BY <1>1 DEF HeadRead, IdOf, LenOf
  <2> HIDE DEF id, len
  <2>4. CASE open' = FALSE /\ UNCHANGED <<part, node>>
    BY <1>1, <2>4 DEF HeadRead
  <2>5. CASE ~BadLength(len) /\ readBody(id, len) /\ UNCHANGED open
    <3>1. len \in 1..MAX_LENGTH
      BY <2>2, <2>5, ConstantTypes DEF BadLength
    <3>2. part' = "body" /\ node' = [msg_id |-> id, total_len |-> len, buf |-> <<>>]
      BY <2>5 DEF readBody, RecvNode
    <3>3. /\ node' \in [msg_id : IdRange, total_len : Nat, buf : Seq(Byte)]
          /\ node'.total_len = len /\ Len(node'.buf) <= node'.total_len
      BY <2>2, <3>2
    <3> QED BY <1>1, <2>5, <3>1, <3>2, <3>3 DEF HeadRead
  <2> QED BY <2>3, <2>4, <2>5
<1>2. CASE BodyRead
  <2>1. [id |-> node.msg_id, msg |-> node.buf] \in [id : IdRange, msg : Seq(Byte)]
    OBVIOUS
  <2>2. got' \in Seq([id : IdRange, msg : Seq(Byte)])
    BY <1>2, <2>1 DEF BodyRead
  <2>3. /\ part' = "head"
        /\ node' = [msg_id |-> MSG_ID_INVALID, total_len |-> HEAD_LENGTH, buf |-> <<>>]
    BY <1>2 DEF BodyRead, readHead, RecvNode
  <2>4. /\ node' \in [msg_id : IdRange, total_len : Nat, buf : Seq(Byte)]
        /\ node'.total_len = HEAD_LENGTH /\ Len(node'.buf) <= node'.total_len
    BY <2>3, ConstantTypes, Lengths
  <2> QED BY <1>2, <2>2, <2>3, <2>4 DEF BodyRead
<1>3. CASE ReadFails
  BY <1>3 DEF ReadFails
<1> QED BY <1>1, <1>2, <1>3

LEMMA TypesStep == TypesInv /\ [Next]_frameVars => TypesInv'
<1> SUFFICES ASSUME TypesInv, [Next]_frameVars PROVE TypesInv'
  OBVIOUS
<1>1. CASE UNCHANGED frameVars
  BY <1>1 DEF frameVars, TypesInv
<1> QED BY <1>1, SendTypes, ArrivesTypes, ReadTypes DEF Next

\* Whatever length a peer names and wherever the stream ends, the receiver's
\* buffer is the header's or one of 1..MAX_LENGTH bytes, and never overrun.
THEOREM TypeCorrect == FramesSpec => []FramesTypeOK
<1>1. TypesInv => FramesTypeOK
  <2> SUFFICES ASSUME TypesInv PROVE FramesTypeOK
    OBVIOUS
  <2>1. Seq(Message) \subseteq Seq([id : IdRange, msg : Seq(Byte)])
    <3>1. Message \subseteq [id : IdRange, msg : Seq(Byte)]
      BY ConstantTypes DEF Message
    <3> DEFINE T == [id : IdRange, msg : Seq(Byte)]
    <3>2. ASSUME NEW s \in Seq(Message) PROVE s \in Seq(T)
      <4>1. \A i \in 1..Len(s) : s[i] \in T
        BY <3>1
      <4> HIDE DEF T
      <4> QED BY <4>1
    <3> QED BY <3>2
  <2> QED BY <2>1 DEF TypesInv, FramesTypeOK, Hosts, IdRange, Byte
<1> QED BY <1>1, TypesInit, TypesStep, PTL DEF FramesSpec

-----------------------------------------------------------------------------
(* The stream.  The messages' frames follow each other, perhaps with a     *)
(* header of bad length at the end, and what the receiver has not taken    *)
(* apart yet is what follows the messages it has handed over.              *)

Frame(m) == NetHeader(m.id, Len(m.msg)) \o m.msg

BadHeaders == {NetHeader(id, len) : id \in Ids, len \in (0..Word - 1) \ (1..MAX_LENGTH)}
Ends(c) == IF c THEN {<<>>} \cup BadHeaders ELSE {<<>>}

\* F[k] is all that is written behind the first k messages of s, up to end.
Written(F, s, end) ==
    /\ F \in [Nat -> Seq(Byte)] /\ F[Len(s)] = end
    /\ \A k \in 0..Len(s) - 1 : F[k] = Frame(s[k + 1]) \o F[k + 1]

\* The bytes x that are left of y: all of them, unless the stream was cut.
Begins(x, y) == \E z \in Seq(Byte) : y = x \o z
LeftOf(x, y, c) == Begins(x, y) /\ (~c => x = y)

Due(F, s, g, p) == IF p = "head" THEN F[g] ELSE s[g + 1].msg \o F[g + 1]

Unread == node.buf \o wire

Delivered == Len(got) <= Len(sent) /\ \A i \in 1..Len(got) : got[i] = sent[i]

ReadsBody ==
    part = "body" => /\ Len(got) < Len(sent)
                     /\ node.msg_id = sent[Len(got) + 1].id
                     /\ node.total_len = Len(sent[Len(got) + 1].msg)

InStep ==
    \E F, end : /\ end \in Ends(cut) /\ Written(F, sent, end)
                /\ LeftOf(Unread, Due(F, sent, Len(got), part), cut)

StreamInv == TypesInv /\ Delivered /\ ReadsBody /\ InStep

-----------------------------------------------------------------------------
LEMMA FrameType ==
  ASSUME NEW m \in Message
  PROVE  /\ m.id \in Ids /\ m.msg \in Seq(Byte) /\ Len(m.msg) \in 1..MAX_LENGTH
         /\ NetHeader(m.id, Len(m.msg)) \in Seq(Byte)
         /\ Len(NetHeader(m.id, Len(m.msg))) = HEAD_LENGTH
         /\ Frame(m) \in Seq(Byte)
<1>1. m.id \in Ids /\ m.msg \in Seq(Byte) /\ Len(m.msg) \in 1..MAX_LENGTH
  BY DEF Message, Acceptable
<1>2. m.id \in Nat /\ Len(m.msg) \in Nat
  <2>1. m.id \in Nat
    BY <1>1, ConstantTypes
  <2>2. Len(m.msg) \in Nat
    BY <1>1
  <2> QED BY <2>1, <2>2
<1>3. /\ NetHeader(m.id, Len(m.msg)) \in Seq(Byte)
      /\ Len(NetHeader(m.id, Len(m.msg))) = HEAD_LENGTH
  BY <1>2, NetHeaderType
<1>4. Frame(m) \in Seq(Byte)
  BY <1>1, <1>3, ConcatProperties DEF Frame
<1> QED BY <1>1, <1>3, <1>4

LEMMA BadHeaderType ==
  ASSUME NEW h \in BadHeaders
  PROVE  h \in Seq(Byte) /\ Len(h) = HEAD_LENGTH
<1>1. PICK id \in Ids, len \in (0..Word - 1) \ (1..MAX_LENGTH) : h = NetHeader(id, len)
  BY DEF BadHeaders
<1>2. id \in Nat /\ len \in Nat
  BY ConstantTypes
<1> QED BY <1>1, <1>2, NetHeaderType

LEMMA JoinBytes == ASSUME NEW a \in Seq(Byte), NEW b \in Seq(Byte) PROVE a \o b \in Seq(Byte)
  BY ConcatProperties

LEMMA Reassociate ==
  ASSUME NEW a \in Seq(Byte), NEW b \in Seq(Byte), NEW c \in Seq(Byte)
  PROVE  (a \o b) \o c = a \o (b \o c)
  BY ConcatAssociative

LEMMA SplitLeft ==
  ASSUME NEW a \in Seq(Byte), NEW b \in Seq(Byte), NEW x \in Seq(Byte), NEW y \in Seq(Byte),
         Len(a) = Len(x), NEW c, LeftOf(a \o b, x \o y, c)
  PROVE  a = x /\ LeftOf(b, y, c)
<1>1. PICK z \in Seq(Byte) : x \o y = (a \o b) \o z
  BY DEF LeftOf, Begins
<1>2. x \o y = a \o (b \o z) /\ b \o z \in Seq(Byte)
  <2>1. (a \o b) \o z = a \o (b \o z)
    BY <1>1, Reassociate
  <2>2. b \o z \in Seq(Byte)
    BY <1>1, ConcatProperties
  <2> QED BY <1>1, <2>1, <2>2
<1>3. a = x /\ y = b \o z
  BY <1>2, SplitConcat
<1>4. ASSUME ~c PROVE b = y
  <2>1. a \o b = x \o y
    BY <1>4 DEF LeftOf
  <2> QED BY <2>1, SplitConcat
<1> QED BY <1>3, <1>4 DEF LeftOf, Begins

\* More is written behind everything.
LEMMA MoreWritten ==
  ASSUME NEW F, NEW s \in Seq(Message), Written(F, s, <<>>), NEW h \in Seq(Byte)
  PROVE  LET G == [k \in Nat |-> IF k <= Len(s) THEN F[k] \o h ELSE <<>>]
         IN  /\ Written(G, s, h)
             /\ \A k \in 0..Len(s) : G[k] = F[k] \o h
             /\ G[Len(s) + 1] = <<>>
<1> DEFINE G == [k \in Nat |-> IF k <= Len(s) THEN F[k] \o h ELSE <<>>]
<1>1. Len(s) \in Nat /\ F \in [Nat -> Seq(Byte)]
  BY DEF Written
<1>2. ASSUME NEW k \in Nat PROVE F[k] \o h \in Seq(Byte)
  <2>1. F[k] \in Seq(Byte)
    BY <1>1
  <2> QED BY <2>1, ConcatProperties
<1>3. G \in [Nat -> Seq(Byte)]
  BY <1>2
<1>4. \A k \in 0..Len(s) : G[k] = F[k] \o h
  <2>1. \A k \in 0..Len(s) : k \in Nat /\ k <= Len(s)
    BY <1>1
  <2> QED BY <2>1
<1>5. G[Len(s) + 1] = <<>>
  BY <1>1
<1>6. G[Len(s)] = h
  <2>1. G[Len(s)] = <<>> \o h
    BY <1>1, <1>4 DEF Written
  <2> QED BY <2>1, ConcatEmptySeq
<1> HIDE DEF G
<1>7. ASSUME NEW k \in 0..Len(s) - 1 PROVE G[k] = Frame(s[k + 1]) \o G[k + 1]
  <2>1. k \in 0..Len(s) /\ k + 1 \in 0..Len(s) /\ k + 1 \in 1..Len(s) /\ k + 1 \in Nat
    BY <1>1
  <2>2. Frame(s[k + 1]) \in Seq(Byte) /\ F[k + 1] \in Seq(Byte)
    <3>1. s[k + 1] \in Message
      BY <2>1
    <3>2. F[k + 1] \in Seq(Byte)
      BY <1>1, <2>1
    <3> QED BY <3>1, <3>2, FrameType
  <2>3. G[k] = (Frame(s[k + 1]) \o F[k + 1]) \o h
    BY <1>4, <2>1 DEF Written
  <2>4. G[k + 1] = F[k + 1] \o h
    BY <1>4, <2>1
  <2>5. (Frame(s[k + 1]) \o F[k + 1]) \o h = Frame(s[k + 1]) \o (F[k + 1] \o h)
    BY <2>2, Reassociate
  <2> QED BY <2>3, <2>4, <2>5, Zenon
<1>8. Written(G, s, h)
  BY <1>3, <1>6, <1>7 DEF Written
<1> QED BY <1>4, <1>5, <1>8 DEF G

Longer(G, F, n, h) == \A k \in 0..n : G[k] = F[k] \o h

Within(s, g, p) == g \in 0..Len(s) /\ (p = "head" \/ g < Len(s))

\* What is due grows by what is written.
LEMMA MoreDue ==
  ASSUME NEW s \in Seq(Message), NEW F, NEW end, Written(F, s, end), NEW G, NEW h \in Seq(Byte),
         Longer(G, F, Len(s), h), NEW g, NEW p, Within(s, g, p)
  PROVE  Due(G, s, g, p) = Due(F, s, g, p) \o h
<1> USE DEF Longer, Written, Within
<1>1. CASE p = "head"
  BY <1>1 DEF Due
<1>2. CASE p # "head"
  <2>1. g + 1 \in 1..Len(s) /\ g + 1 \in 0..Len(s) /\ g + 1 \in Nat
    BY <1>2
  <2>2. s[g + 1].msg \in Seq(Byte) /\ F[g + 1] \in Seq(Byte)
    BY <2>1, FrameType
  <2>3. Due(G, s, g, p) = s[g + 1].msg \o (F[g + 1] \o h)
    BY <1>2, <2>1 DEF Due
  <2>4. (s[g + 1].msg \o F[g + 1]) \o h = s[g + 1].msg \o (F[g + 1] \o h)
    BY <2>2, Reassociate
  <2> QED BY <1>2, <2>3, <2>4 DEF Due
<1> QED BY <1>1, <1>2

\* The stream F goes on to G with the bytes h.
GoesOn(F, G, s, h, g, p) == /\ Written(G, s, h) /\ G[Len(s) + 1] = <<>>
                            /\ Due(G, s, g, p) = Due(F, s, g, p) \o h

LEMMA StreamGrows ==
  ASSUME NEW s, s \in Seq(Message), NEW F, Written(F, s, <<>>), NEW h, h \in Seq(Byte),
         NEW g, NEW p, Within(s, g, p)
  PROVE  \E G : GoesOn(F, G, s, h, g, p)
<1> DEFINE G == [k \in Nat |-> IF k <= Len(s) THEN F[k] \o h ELSE <<>>]
<1>1. /\ Written(G, s, h) /\ \A k \in 0..Len(s) : G[k] = F[k] \o h
      /\ G[Len(s) + 1] = <<>>
  BY MoreWritten
<1> HIDE DEF G
<1>2. Longer(G, F, Len(s), h)
  BY <1>1 DEF Longer
<1>3. Due(G, s, g, p) = Due(F, s, g, p) \o h
  BY <1>2, MoreDue
<1> QED BY <1>1, <1>3 DEF GoesOn

LEMMA StreamInit == Init => StreamInv
<1> SUFFICES ASSUME Init PROVE StreamInv
  OBVIOUS
<1> DEFINE F == [k \in Nat |-> <<>>]
<1>1. TypesInv
  BY TypesInit
<1>2. Delivered /\ ReadsBody
  BY DEF Init, Delivered, ReadsBody
<1>3. sent = <<>> /\ got = <<>> /\ wire = <<>> /\ part = "head" /\ node.buf = <<>>
  BY DEF Init, RecvNode
<1>4. Written(F, sent, <<>>)
  <2>1. F \in [Nat -> Seq(Byte)] /\ F[0] = <<>>
    OBVIOUS
  <2> HIDE DEF F
  <2> QED BY <1>3, <2>1 DEF Written
<1>5. Unread = <<>>
  <2>1. <<>> \in Seq(Byte)
    OBVIOUS
  <2>2. <<>> \o <<>> = <<>>
    BY <2>1, ConcatEmptySeq
  <2> QED BY <1>3, <2>2 DEF Unread
<1>6. Due(F, sent, Len(got), part) = <<>>
  BY <1>3 DEF Due
<1> HIDE DEF F
<1>7. LeftOf(Unread, Due(F, sent, Len(got), part), cut)
  <2>1. <<>> \in Seq(Byte) /\ <<>> = <<>> \o <<>>
    BY ConcatEmptySeq
  <2> QED BY <1>5, <1>6, <2>1 DEF LeftOf, Begins
<1>8. <<>> \in Ends(cut)
  BY DEF Ends
<1> QED BY <1>1, <1>2, <1>4, <1>7, <1>8 DEF StreamInv, InStep

LEMMA ReceiverTypes ==
  ASSUME StreamInv
  PROVE  /\ node.buf \in Seq(Byte) /\ wire \in Seq(Byte) /\ Unread \in Seq(Byte)
         /\ sent \in Seq(Message) /\ Len(sent) \in Nat /\ Len(got) \in Nat
         /\ Len(got) \in 0..Len(sent) /\ (part = "head" \/ Len(got) < Len(sent))
         /\ part \in {"head", "body"} /\ cut \in BOOLEAN
         /\ sender \in Hosts /\ receiver \in Hosts
<1>1. /\ node.buf \in Seq(Byte) /\ wire \in Seq(Byte) /\ sent \in Seq(Message)
      /\ part \in {"head", "body"} /\ cut \in BOOLEAN /\ sender \in Hosts /\ receiver \in Hosts
      /\ Len(got) \in Nat
  BY DEF StreamInv, TypesInv
<1>2. Unread \in Seq(Byte)
  BY <1>1, ConcatProperties DEF Unread
<1>3. Len(sent) \in Nat
  BY <1>1
<1> QED BY <1>1, <1>2, <1>3 DEF StreamInv, Delivered, ReadsBody

\* What toSend and a foreign peer have in common.
WriteFrame(h) == (\E m \in Message : sent' = Append(sent, m) /\ h = Frame(m)) /\ UNCHANGED cut
WriteBad(h) == UNCHANGED sent /\ cut' /\ h \in BadHeaders

LEMMA WriteMore ==
  ASSUME StreamInv, ~cut, NEW h \in Seq(Byte), wire' = wire \o h, UNCHANGED <<part, node, got>>,
         WriteBad(h) \/ WriteFrame(h)
  PROVE  InStep'
<1>1. PICK F, end : end \in Ends(cut) /\ Written(F, sent, end)
                    /\ LeftOf(Unread, Due(F, sent, Len(got), part), cut)
  BY DEF StreamInv, InStep
<1>2. Written(F, sent, <<>>) /\ Unread = Due(F, sent, Len(got), part)
  BY <1>1 DEF Ends, LeftOf
<1>3. PICK G : GoesOn(F, G, sent, h, Len(got), part)
  <2>1. Written(F, sent, <<>>)
    BY <1>2
  <2>2. sent \in Seq(Message)
    BY ReceiverTypes
  <2>3. Within(sent, Len(got), part)
    BY ReceiverTypes DEF Within
  <2> QED BY <2>1, <2>2, <2>3, StreamGrows
<1>4. /\ Written(G, sent, h) /\ G[Len(sent) + 1] = <<>>
      /\ Due(G, sent, Len(got), part) = Due(F, sent, Len(got), part) \o h
  BY <1>3 DEF GoesOn
<1>5. Unread' = Unread \o h
  <2>1. (node.buf \o wire) \o h = node.buf \o (wire \o h)
    BY ReceiverTypes, Reassociate
  <2> QED BY <2>1 DEF Unread
<1>6. Unread' = Due(G, sent, Len(got), part) /\ Unread' \in Seq(Byte)
  BY <1>2, <1>4, <1>5, ReceiverTypes, ConcatProperties
<1>7. Begins(Unread', Due(G, sent, Len(got), part))
  <2>1. <<>> \in Seq(Byte)
    OBVIOUS
  <2>2. Unread' \o <<>> = Unread'
    BY <1>6, ConcatEmptySeq
  <2> QED BY <1>6, <2>1, <2>2 DEF Begins
<1>8. CASE WriteBad(h)
  <2> USE DEF WriteBad
  <2>1. h \in Ends(cut')
    BY <1>8 DEF Ends
  <2> QED BY <1>4, <1>6, <1>7, <1>8, <2>1 DEF InStep, LeftOf
<1>9. CASE WriteFrame(h)
  <2> USE DEF WriteFrame
  <2>1. PICK m \in Message : sent' = Append(sent, m) /\ h = Frame(m)
    BY <1>9
  <2>2. /\ Len(sent') = Len(sent) + 1 /\ sent'[Len(sent) + 1] = m
        /\ \A k \in 1..Len(sent) : sent'[k] = sent[k]
    BY <2>1, ReceiverTypes
  <2>3. Len(sent) \in Nat /\ Len(got) \in 0..Len(sent)
    BY ReceiverTypes
  <2>4. ASSUME NEW k \in 0..Len(sent') - 1 PROVE G[k] = Frame(sent'[k + 1]) \o G[k + 1]
    <3>1. CASE k = Len(sent)
      <4>1. h \o <<>> = h
        BY ConcatEmptySeq
      <4>2. G[k] = h
        BY <1>4, <3>1 DEF Written
      <4> QED BY <1>4, <2>1, <2>2, <3>1, <4>1, <4>2
    <3>2. CASE k # Len(sent)
      <4>1. k \in 0..Len(sent) - 1 /\ k + 1 \in 1..Len(sent)
        BY <2>2, <2>3, <3>2
      <4> QED BY <1>4, <2>2, <4>1 DEF Written
    <3> QED BY <3>1, <3>2
  <2>5. Written(G, sent', <<>>)
    BY <1>4, <2>2, <2>4 DEF Written
  <2>6. Due(G, sent', Len(got), part) = Due(G, sent, Len(got), part)
    <3>1. part = "head" \/ Len(got) + 1 \in 1..Len(sent)
      BY ReceiverTypes
    <3> QED BY <2>2, <3>1 DEF Due
  <2>7. <<>> \in Ends(cut')
    BY DEF Ends
  <2> QED BY <1>6, <1>7, <2>5, <2>6, <2>7 DEF InStep, LeftOf
<1> QED BY <1>8, <1>9

LEMMA SendKeepsStream ==
  ASSUME StreamInv, toSend
  PROVE  Delivered' /\ ReadsBody' /\ InStep'
<1>1. PICK id \in Ids, msg \in {m \in Bodies : Acceptable(m)} :
         /\ sent' = Append(sent, [id |-> id, msg |-> msg])
         /\ wire' = wire \o Header(id, Len(msg)) \o msg
  BY DEF toSend
<1> DEFINE m == [id |-> id, msg |-> msg]
<1>2. msg \in Seq(Byte) /\ Acceptable(msg) /\ Len(msg) \in Nat
  BY ConstantTypes
<1>3. m \in Message /\ m.id = id /\ m.msg = msg
  BY <1>2 DEF Message
<1>4. sent' = Append(sent, m) /\ ~cut /\ UNCHANGED <<cut, part, node, got>>
  BY <1>1 DEF toSend
<1> HIDE DEF m
<1>5. Header(id, Len(msg)) = NetHeader(id, Len(msg)) /\ NetHeader(id, Len(msg)) \in Seq(Byte)
  BY <1>2, ReceiverTypes, HeaderType
<1>6. wire' = wire \o Frame(m)
  <2> DEFINE h == NetHeader(id, Len(msg))
  <2>1. wire \in Seq(Byte) /\ h \in Seq(Byte) /\ msg \in Seq(Byte)
    BY <1>2, <1>5, ReceiverTypes
  <2>2. (wire \o h) \o msg = wire \o (h \o msg)
    <3> HIDE DEF h
    <3> QED BY <2>1, Reassociate
  <2>3. Frame(m) = h \o msg
    BY <1>3 DEF Frame
  <2>4. wire' = (wire \o h) \o msg
    BY <1>1, <1>5
  <2> QED BY <2>2, <2>3, <2>4
<1>7. Frame(m) \in Seq(Byte)
  BY <1>3, FrameType
<1>8. InStep'
  BY <1>3, <1>4, <1>6, <1>7, WriteMore DEF WriteFrame
<1>9. /\ Len(sent') = Len(sent) + 1
      /\ \A k \in 1..Len(sent) : sent'[k] = sent[k]
  BY <1>3, <1>4, ReceiverTypes
<1>10. Delivered'
  <2>1. Len(sent) \in Nat /\ Len(got) \in Nat /\ Len(got) <= Len(sent)
    BY ReceiverTypes
  <2>2. \A i \in 1..Len(got) : i \in 1..Len(sent)
    BY <2>1
  <2> QED BY <1>4, <1>9, <2>1, <2>2 DEF StreamInv, Delivered
<1>11. ReadsBody'
  <2> SUFFICES ASSUME part = "body"
               PROVE  /\ Len(got) < Len(sent') /\ node.msg_id = sent'[Len(got) + 1].id
                      /\ node.total_len = Len(sent'[Len(got) + 1].msg)
    BY <1>4 DEF ReadsBody
  <2>1. Len(got) + 1 \in 1..Len(sent) /\ Len(got) < Len(sent) + 1
    BY ReceiverTypes
  <2> QED BY <1>9, <2>1 DEF StreamInv, ReadsBody
<1> QED BY <1>8, <1>10, <1>11

LEMMA ForeignKeepsStream ==
  ASSUME StreamInv, ForeignHeader
  PROVE  Delivered' /\ ReadsBody' /\ InStep'
<1>1. PICK id \in Ids, len \in (0..Word - 1) \ (1..MAX_LENGTH) : wire' = wire \o Header(id, len)
  BY DEF ForeignHeader
<1>2. len \in Nat
  BY ConstantTypes
<1>3. Header(id, len) = NetHeader(id, len) /\ NetHeader(id, len) \in Seq(Byte)
  BY <1>2, ReceiverTypes, HeaderType
<1>4. NetHeader(id, len) \in BadHeaders
  BY DEF BadHeaders
<1>5. ~cut /\ cut' /\ UNCHANGED <<sent, part, node, got>>
  BY DEF ForeignHeader
<1>6. InStep'
  BY <1>1, <1>3, <1>4, <1>5, WriteMore DEF WriteBad
<1>7. Delivered' /\ ReadsBody'
  BY <1>5 DEF StreamInv, Delivered, ReadsBody
<1> QED BY <1>6, <1>7

LEMMA CutKeepsStream ==
  ASSUME StreamInv, Cut
  PROVE  Delivered' /\ ReadsBody' /\ InStep'
<1>1. cut' /\ UNCHANGED <<sent, part, node, got>>
  BY DEF Cut
<1>2. PICK n \in 0..Len(wire) : wire' = SubSeq(wire, 1, n)
  BY DEF Cut
<1>3. PICK F, end : end \in Ends(cut) /\ Written(F, sent, end)
                    /\ LeftOf(Unread, Due(F, sent, Len(got), part), cut)
  BY DEF StreamInv, InStep
<1> DEFINE d == Due(F, sent, Len(got), part)
           w == SubSeq(wire, n + 1, Len(wire))
<1>4. PICK z \in Seq(Byte) : d = (node.buf \o wire) \o z
  BY <1>3 DEF LeftOf, Begins, Unread
<1>5. wire' \in Seq(Byte) /\ w \in Seq(Byte) /\ wire = wire' \o w
  BY <1>2, ReceiverTypes, Pieces
<1> HIDE DEF d, w
<1>6. d = Unread' \o (w \o z) /\ w \o z \in Seq(Byte)
  <2>1. node.buf \o (wire' \o w) = (node.buf \o wire') \o w
    <3>1. node.buf \in Seq(Byte)
      BY ReceiverTypes
    <3> QED BY <1>5, <3>1, Reassociate
  <2>2. node.buf \o wire' \in Seq(Byte)
    BY <1>5, ReceiverTypes, JoinBytes
  <2>3. ((node.buf \o wire') \o w) \o z = (node.buf \o wire') \o (w \o z)
    BY <1>4, <1>5, <2>2, Reassociate
  <2>4. w \o z \in Seq(Byte)
    BY <1>4, <1>5, JoinBytes
  <2> QED BY <1>1, <1>4, <1>5, <2>1, <2>3, <2>4 DEF Unread
<1>7. LeftOf(Unread', d, cut')
  BY <1>1, <1>6 DEF LeftOf, Begins
<1>8. end \in Ends(cut')
  BY <1>1, <1>3 DEF Ends
<1>9. InStep'
  BY <1>1, <1>3, <1>7, <1>8 DEF InStep, d
<1>10. Delivered' /\ ReadsBody'
  BY <1>1 DEF StreamInv, Delivered, ReadsBody
<1> QED BY <1>9, <1>10

\* A piece that arrives is unread before and after.
LEMMA ArrivesKeepsStream ==
  ASSUME StreamInv, Arrives
  PROVE  Delivered' /\ ReadsBody' /\ InStep'
<1>1. PICK n \in 1..Len(wire) :
         /\ node' = [node EXCEPT !.buf = @ \o SubSeq(wire, 1, n)]
         /\ wire' = SubSeq(wire, n + 1, Len(wire))
  BY DEF Arrives
<1>2. UNCHANGED <<sent, cut, part, got>>
  BY DEF Arrives
<1> DEFINE v == SubSeq(wire, 1, n)
<1>3. v \in Seq(Byte) /\ wire' \in Seq(Byte) /\ wire = v \o wire'
  <2>1. n \in 0..Len(wire)
    OBVIOUS
  <2> QED BY <1>1, <2>1, ReceiverTypes, Pieces
<1>4. node'.buf = node.buf \o v /\ node'.msg_id = node.msg_id /\ node'.total_len = node.total_len
  BY <1>1 DEF StreamInv, TypesInv
<1> HIDE DEF v
<1>5. Unread' = Unread
  <2>1. (node.buf \o v) \o wire' = node.buf \o (v \o wire')
    <3>1. node.buf \in Seq(Byte)
      BY ReceiverTypes
    <3> QED BY <1>3, <3>1, Reassociate
  <2> QED BY <1>3, <1>4, <2>1 DEF Unread
<1>6. InStep'
  BY <1>2, <1>5 DEF StreamInv, InStep
<1>7. Delivered' /\ ReadsBody'
  BY <1>2, <1>4 DEF StreamInv, Delivered, ReadsBody
<1> QED BY <1>6, <1>7

\* What is due of a message whose header is not read yet.
LEMMA DueHeader ==
  ASSUME NEW s, s \in Seq(Message), NEW F, NEW end, Written(F, s, end),
         NEW g, g \in Nat, g < Len(s)
  PROVE  /\ s[g + 1] \in Message
         /\ Due(F, s, g, "head") =
              NetHeader(s[g + 1].id, Len(s[g + 1].msg)) \o Due(F, s, g, "body")
         /\ Due(F, s, g, "body") \in Seq(Byte)
         /\ Due(F, s, g, "body") = s[g + 1].msg \o Due(F, s, g + 1, "head")
         /\ Due(F, s, g + 1, "head") \in Seq(Byte)
<1> DEFINE m == s[g + 1]
           h == NetHeader(m.id, Len(m.msg))
<1>1. g + 1 \in 1..Len(s) /\ g \in 0..Len(s) - 1 /\ g + 1 \in Nat
  OBVIOUS
<1>2. m \in Message
  BY <1>1
<1>3. F[g + 1] \in Seq(Byte)
  BY <1>1 DEF Written
<1>4. h \in Seq(Byte) /\ m.msg \in Seq(Byte) /\ Frame(m) = h \o m.msg
  BY <1>2, FrameType DEF Frame
<1>5. F[g] = Frame(m) \o F[g + 1]
  BY <1>1 DEF Written
<1> HIDE DEF m, h
<1>6. (h \o m.msg) \o F[g + 1] = h \o (m.msg \o F[g + 1])
  BY <1>3, <1>4, Reassociate
<1>7. m.msg \o F[g + 1] \in Seq(Byte)
  BY <1>3, <1>4, JoinBytes
<1>8. Due(F, s, g, "head") = F[g] /\ Due(F, s, g + 1, "head") = F[g + 1]
      /\ Due(F, s, g, "body") = m.msg \o F[g + 1]
  BY DEF Due, m
<1> QED BY <1>2, <1>3, <1>4, <1>5, <1>6, <1>7, <1>8 DEF m, h

LEMMA HeadReadKeepsStream ==
  ASSUME StreamInv, HeadRead
  PROVE  Delivered' /\ ReadsBody' /\ InStep'
<1> DEFINE g == Len(got)
           id == IdOf(node.buf, receiver)
           len == LenOf(node.buf, receiver)
<1>1. /\ Len(node.buf) = HEAD_LENGTH /\ part = "head"
      /\ UNCHANGED <<sent, wire, cut, got>>
      /\ \/ BadLength(len) /\ open' = FALSE /\ UNCHANGED <<part, node>>
         \/ ~BadLength(len) /\ readBody(id, len)
  BY DEF HeadRead, Full, IdOf, LenOf, StreamInv, TypesInv
<1>2. /\ node.buf \in Seq(Byte) /\ wire \in Seq(Byte) /\ sent \in Seq(Message)
      /\ g \in Nat /\ Len(sent) \in Nat /\ g <= Len(sent) /\ receiver \in Hosts
  BY ReceiverTypes
<1>3. Delivered'
  BY <1>1 DEF StreamInv, Delivered
<1>4. CASE BadLength(len) /\ UNCHANGED <<part, node>>
  BY <1>1, <1>3, <1>4 DEF StreamInv, ReadsBody, InStep, Unread
<1>5. CASE ~BadLength(len) /\ readBody(id, len)
  <2>1. /\ part' = "body" /\ node'.msg_id = id /\ node'.total_len = len /\ node'.buf = <<>>
    BY <1>5 DEF readBody, RecvNode
  <2> HIDE DEF id, len
  <2>2. PICK F, end : end \in Ends(cut) /\ Written(F, sent, end)
                      /\ LeftOf(Unread, Due(F, sent, Len(got), part), cut)
    BY DEF StreamInv, InStep
  <2>3. LeftOf(node.buf \o wire, Due(F, sent, g, "head"), cut)
    BY <1>1, <2>2 DEF Unread
  <2>4. g # Len(sent)
    <3> SUFFICES ASSUME g = Len(sent) PROVE FALSE
      OBVIOUS
    <3>1. Due(F, sent, g, "head") = end
      BY <2>2 DEF Due, Written
    <3>2. PICK z \in Seq(Byte) : end = (node.buf \o wire) \o z
      BY <2>3, <3>1 DEF LeftOf, Begins
    <3>3. CASE end = <<>>
      <4>1. /\ node.buf \o wire \in Seq(Byte) /\ Len(node.buf \o wire) = Len(node.buf) + Len(wire)
        BY <1>2, ConcatProperties
      <4>2. Len(end) = Len(node.buf \o wire) + Len(z)
        BY <3>2, <4>1, ConcatProperties
      <4>3. Len(node.buf) \in Nat \ {0} /\ Len(wire) \in Nat /\ Len(z) \in Nat
        BY <1>1, <1>2, <3>2, Lengths
      <4> QED BY <3>3, <4>1, <4>2, <4>3
    <3>4. CASE end # <<>>
      <4>1. end \in BadHeaders
        BY <2>2, <3>4 DEF Ends
      <4>2. PICK i \in Ids, l \in (0..Word - 1) \ (1..MAX_LENGTH) : end = NetHeader(i, l)
        BY <4>1 DEF BadHeaders
      <4>3. end \in Seq(Byte) /\ Len(end) = HEAD_LENGTH /\ end \o <<>> = end
        BY <4>1, BadHeaderType, ConcatEmptySeq
      <4>4. LeftOf(node.buf \o wire, end \o <<>>, cut)
        BY <2>3, <3>1, <4>3
      <4>5. node.buf = end
        <5>1. <<>> \in Seq(Byte)
          OBVIOUS
        <5> QED BY <1>1, <1>2, <4>3, <4>4, <5>1, SplitLeft
      <4>6. i \in 0..Power[HEAD_ID_LENGTH] - 1 /\ l \in 0..Word - 1
        BY <4>2, ConstantTypes DEF IdRange
      <4>7. len = l
        BY <1>2, <4>2, <4>5, <4>6, HeaderTransfers DEF len
      <4>8. BadLength(l)
        BY <4>2, ConstantTypes DEF BadLength
      <4> QED BY <1>5, <4>7, <4>8
    <3> QED BY <3>3, <3>4
  <2>5. g < Len(sent)
    BY <1>2, <2>4
  <2> DEFINE m == sent[g + 1]
             h == NetHeader(m.id, Len(m.msg))
             d == Due(F, sent, g, "body")
  <2>6. m \in Message /\ Due(F, sent, g, "head") = h \o d /\ d \in Seq(Byte)
    BY <1>2, <2>2, <2>5, DueHeader
  <2>7. /\ h \in Seq(Byte) /\ Len(h) = HEAD_LENGTH
        /\ m.id \in Ids /\ Len(m.msg) \in 1..MAX_LENGTH
    BY <2>6, FrameType
  <2> HIDE DEF h, d, m, g
  <2>8. node.buf = h /\ LeftOf(wire, d, cut)
    <3>1. LeftOf(node.buf \o wire, h \o d, cut)
      BY <2>3, <2>6
    <3> QED BY <1>1, <1>2, <2>6, <2>7, <3>1, SplitLeft
  <2>9. id = m.id /\ len = Len(m.msg)
    <3>1. m.id \in 0..Power[HEAD_ID_LENGTH] - 1 /\ Len(m.msg) \in 0..Word - 1
      <4>1. m.id \in IdRange
        BY <2>7, ConstantTypes
      <4>2. Len(m.msg) \in 0..Word - 1
        BY <2>7, ConstantTypes
      <4> QED BY <4>1, <4>2 DEF IdRange
    <3>2. IdOf(h, receiver) = m.id /\ LenOf(h, receiver) = Len(m.msg)
      BY <1>2, <3>1, HeaderTransfers DEF h
    <3> QED BY <2>8, <3>2 DEF id, len
  <2>10. ReadsBody'
    BY <1>1, <2>1, <2>5, <2>9 DEF ReadsBody, m, g
  <2>11. Unread' = wire
    <3>1. <<>> \o wire = wire
      BY <1>2, ConcatEmptySeq
    <3> QED BY <1>1, <2>1, <3>1 DEF Unread
  <2>12. InStep'
    BY <1>1, <2>1, <2>2, <2>8, <2>11 DEF InStep, d, g
  <2> QED BY <1>3, <2>10, <2>12
<1> QED BY <1>1, <1>4, <1>5

LEMMA BodyReadKeepsStream ==
  ASSUME StreamInv, BodyRead
  PROVE  Delivered' /\ ReadsBody' /\ InStep'
<1> DEFINE g == Len(got)
           m == sent[g + 1]
           r == [id |-> node.msg_id, msg |-> node.buf]
<1>1. /\ Len(node.buf) = node.total_len /\ part = "body" /\ part' = "head" /\ node'.buf = <<>>
      /\ got' = Append(got, r) /\ UNCHANGED <<sent, wire, cut>>
  BY DEF BodyRead, Full, readHead, RecvNode
<1>2. /\ node.buf \in Seq(Byte) /\ wire \in Seq(Byte) /\ sent \in Seq(Message)
      /\ g \in Nat /\ Len(sent) \in Nat /\ g < Len(sent)
  BY <1>1, ReceiverTypes
<1>3. node.msg_id = m.id /\ node.total_len = Len(m.msg)
  BY <1>1 DEF StreamInv, ReadsBody
<1>4. PICK F, end : end \in Ends(cut) /\ Written(F, sent, end)
                    /\ LeftOf(Unread, Due(F, sent, Len(got), part), cut)
  BY DEF StreamInv, InStep
<1> DEFINE d == Due(F, sent, g + 1, "head")
<1>5. m \in Message /\ Due(F, sent, g, "body") = m.msg \o d /\ d \in Seq(Byte)
  BY <1>2, <1>4, DueHeader
<1>6. LeftOf(node.buf \o wire, m.msg \o d, cut)
  BY <1>1, <1>4, <1>5 DEF Unread
<1>7. m.msg \in Seq(Byte) /\ m = [id |-> m.id, msg |-> m.msg]
  BY <1>5 DEF Message
<1> HIDE DEF d, m
<1>8. node.buf = m.msg /\ LeftOf(wire, d, cut)
  BY <1>1, <1>2, <1>3, <1>5, <1>6, <1>7, SplitLeft
<1>9. r = m
  BY <1>3, <1>7, <1>8
<1>10. /\ got \in Seq([id : IdRange, msg : Seq(Byte)]) /\ r \in [id : IdRange, msg : Seq(Byte)]
  BY DEF StreamInv, TypesInv
<1> HIDE DEF r
<1>11. /\ Len(got') = g + 1 /\ got'[g + 1] = r
       /\ \A i \in 1..g : got'[i] = got[i]
  BY <1>1, <1>10
<1>12. Delivered'
  <2>1. Len(got') <= Len(sent')
    BY <1>1, <1>2, <1>11
  <2>2. ASSUME NEW i \in 1..(g + 1) PROVE got'[i] = sent[i]
    <3>1. CASE i = g + 1
      BY <1>9, <1>11, <3>1 DEF m
    <3>2. CASE i # g + 1
      <4>1. i \in 1..g
        BY <1>2, <3>2
      <4> QED BY <1>11, <4>1 DEF StreamInv, Delivered
    <3> QED BY <3>1, <3>2
  <2> QED BY <1>1, <1>11, <2>1, <2>2 DEF Delivered
<1>13. Unread' = wire
  <2>1. <<>> \o wire = wire
    BY <1>2, ConcatEmptySeq
  <2> QED BY <1>1, <2>1 DEF Unread
<1>14. InStep'
  <2>1. d = Due(F, sent', Len(got'), part')
    BY <1>1, <1>11 DEF d
  <2> QED BY <1>1, <1>4, <1>8, <1>13, <2>1 DEF InStep
<1>15. ReadsBody'
  BY <1>1 DEF ReadsBody
<1> QED BY <1>12, <1>14, <1>15

LEMMA StreamStep == StreamInv /\ [Next]_frameVars => StreamInv'
<1> SUFFICES ASSUME StreamInv, [Next]_frameVars PROVE StreamInv'
  OBVIOUS
<1>1. TypesInv'
  BY TypesStep DEF StreamInv
<1>2. CASE ReadFails
  BY <1>1, <1>2 DEF ReadFails, StreamInv, Delivered, ReadsBody, InStep, Unread
<1>3. CASE UNCHANGED frameVars
  BY <1>1, <1>3 DEF frameVars, StreamInv, Delivered, ReadsBody, InStep, Unread
<1> QED
  BY <1>1, <1>2, <1>3, SendKeepsStream, ForeignKeepsStream, CutKeepsStream,
     ArrivesKeepsStream, HeadReadKeepsStream, BodyReadKeepsStream
  DEF Next, StreamInv

\* What is handed over are the messages sent, whole, in order and under their
\* ids, for every word size, every byte order of either host, every way the
\* stream is cut into pieces and every place it ends at.
THEOREM FramesArriveIntact == FramesSpec => []FramesIntact
<1>1. StreamInv => FramesIntact
  <2> SUFFICES ASSUME StreamInv PROVE FramesIntact
    OBVIOUS
  <2>1. got \in Seq([id : IdRange, msg : Seq(Byte)])
    BY DEF StreamInv, TypesInv
  <2>2. /\ Len(got) \in Nat /\ Len(sent) \in Nat /\ Len(got) <= Len(sent)
        /\ \A i \in 1..Len(got) : got[i] = sent[i]
    BY ReceiverTypes DEF StreamInv, Delivered
  <2>3. SubSeq(got, 1, Len(got)) = SubSeq(sent, 1, Len(got))
    <3>1. \A i \in 1..Len(got) : got[i] = sent[i]
      BY <2>2
    <3> DEFINE n == Len(got)
    <3>2. /\ SubSeq(got, 1, n) = [i \in 1..n |-> got[i]]
          /\ SubSeq(sent, 1, n) = [i \in 1..n |-> sent[i]]
      <4>1. n \in Nat
        BY <2>2
      <4> HIDE DEF n
      <4> QED BY <4>1
    <3> QED BY <3>1, <3>2
  <2> QED BY <2>2, <2>3 DEF FramesIntact, IsPrefix
<1> QED BY <1>1, StreamInit, StreamStep, PTL DEF FramesSpec

=============================================================================
