---------------------------- MODULE EntityTagProofs ----------------------------
(***************************************************************************)
(* What the codec of EntityTagVersion computes, for every version and every *)
(* header.                                                                  *)
(***************************************************************************)
EXTENDS EntityTagVersion, SequenceTheorems, WellFoundedInduction, TLAPS

-----------------------------------------------------------------------------
(***************************************************************************)
(* Induction.  The library's theorems of induction take an operator; what   *)
(* follows needs only sets and functions: a set of counterexamples has a    *)
(* least one, and a function is defined by recursion on a measure.          *)
(***************************************************************************)

\* Every set of natural numbers that is not empty has a least number.
LEMMA LeastNumber ==
    ASSUME NEW S, S \subseteq Nat, S # {}
    PROVE  \E m \in S : \A n \in S : m <= n
  <1>1. PICK m \in S : \A n \in S : <<n, m>> \notin OpToRel(<, Nat)
    <2>1. IsWellFoundedOn(OpToRel(<, Nat), Nat)
      BY NatLessThanWellFounded
    <2>2. QED
      BY <2>1, WFMin
  <1>2. \A n \in S : ~(n < m)
    BY <1>1 DEF OpToRel
  <1>3. QED
    BY <1>2

\* What recursion makes of x, given what it makes of others.
Unfold(f, B, b, p, g, x) == IF x \in B THEN b[x] ELSE g[<<x, f[p[x]]>>]

\* Outside B, p lowers the measure m.
Terminates(D, V, B, b, p, g, m) ==
    /\ b \in [D -> V]
    /\ p \in [D -> D]
    /\ g \in [D \X V -> V]
    /\ m \in [D -> Nat]
    /\ \A x \in D : x \notin B => m[p[x]] < m[x]

\* Then there is a function F with F[x] = b[x] on B and F[x] = g[x, F[p[x]]] elsewhere.
LEMMA Recursion ==
    ASSUME NEW D, NEW V, NEW B, NEW b, NEW p, NEW g, NEW m, Terminates(D, V, B, b, p, g, m)
    PROVE  \E F \in [D -> V] : \A x \in D : F[x] = Unfold(F, B, b, p, g, x)
  <1> DEFINE Below(n) == {x \in D : m[x] < n}
             Partial(n, f) == /\ f \in [Below(n) -> V]
                              /\ \A x \in Below(n) : f[x] = Unfold(f, B, b, p, g, x)
  <1> USE DEF Terminates
  <1>1. ASSUME NEW f, NEW h, NEW i \in Nat, NEW j \in Nat, Partial(i, f), Partial(j, h),
               NEW x \in D, m[x] < i, m[x] < j
        PROVE  f[x] = h[x]
    <2> DEFINE Differ == {k \in Nat : \E y \in D : /\ m[y] = k /\ k < i /\ k < j
                                                    /\ f[y] # h[y]}
    <2>1. SUFFICES ASSUME Differ # {} PROVE FALSE
      BY <1>1
    <2>2. PICK k \in Differ : \A n \in Differ : k <= n
      <3> HIDE DEF Differ
      <3>1. Differ \subseteq Nat
        BY DEF Differ
      <3>2. QED
        BY <2>1, <3>1, LeastNumber
    <2>3. PICK y \in D : m[y] = k /\ k < i /\ k < j /\ f[y] # h[y]
      BY <2>2
    <2>4. f[y] = Unfold(f, B, b, p, g, y) /\ h[y] = Unfold(h, B, b, p, g, y)
      BY <1>1, <2>3
    <2>5. y \notin B /\ f[p[y]] # h[p[y]]
      BY <2>3, <2>4 DEF Unfold
    <2>6. p[y] \in D /\ m[p[y]] \in Nat /\ m[p[y]] < k
      BY <2>3, <2>5
    <2>7. m[p[y]] \in Differ
      BY <2>2, <2>3, <2>5, <2>6
    <2>8. QED
      BY <2>2, <2>6, <2>7
  <1>2. ASSUME NEW n \in Nat PROVE \E f : Partial(n, f)
    <2> DEFINE Missing == {k \in Nat : ~\E f : Partial(k, f)}
    <2>1. SUFFICES ASSUME Missing # {} PROVE FALSE
      OBVIOUS
    <2>2. PICK k \in Missing : \A i \in Missing : k <= i
      <3> HIDE DEF Missing
      <3>1. Missing \subseteq Nat
        BY DEF Missing
      <3>2. QED
        BY <2>1, <3>1, LeastNumber
    <2>3. CASE k = 0
      <3>1. Below(0) = {}
        BY SMT
      <3>2. Partial(0, [x \in {} |-> x])
        BY <3>1
      <3>3. QED
        BY <2>2, <2>3, <3>2
    <2>4. CASE k # 0
      <3>1. k - 1 \in Nat /\ k - 1 \notin Missing
        <4>1. k \in Nat
          OBVIOUS
        <4> HIDE DEF Missing
        <4>2. QED
          BY <2>2, <2>4, <4>1
      <3>2. PICK f : Partial(k - 1, f)
        BY <3>1
      <3> DEFINE h == [x \in Below(k) |-> Unfold(f, B, b, p, g, x)]
      <3>3. ASSUME NEW x \in Below(k), x \notin B
            PROVE  p[x] \in Below(k - 1) /\ p[x] \in Below(k) /\ f[p[x]] \in V
        BY <3>1, <3>2, <3>3
      <3>4. ASSUME NEW x \in Below(k) PROVE h[x] \in V
        BY <3>3, <3>4 DEF Unfold
      <3>5. ASSUME NEW x \in Below(k - 1) PROVE h[x] = f[x] /\ x \in Below(k)
        BY <3>1, <3>2, <3>5
      <3>6. ASSUME NEW x \in Below(k) PROVE h[x] = Unfold(h, B, b, p, g, x)
        BY <3>3, <3>5, <3>6 DEF Unfold
      <3>7. h \in [Below(k) -> V]
        BY <3>4
      <3>8. Partial(k, h)
        <4> HIDE DEF h
        <4>1. QED
          BY <3>6, <3>7
      <3>9. QED
        BY <2>2, <3>8
    <2>5. QED
      BY <2>3, <2>4
  <1> DEFINE Chosen(n) == CHOOSE f : Partial(n, f)
             F == [x \in D |-> Chosen(m[x] + 1)[x]]
  <1>3. ASSUME NEW n \in Nat PROVE Partial(n, Chosen(n))
    BY <1>2, <1>3
  <1> HIDE DEF Chosen
  <1>4. ASSUME NEW x \in D PROVE F[x] \in V
    <2>1. m[x] + 1 \in Nat /\ x \in Below(m[x] + 1)
      OBVIOUS
    <2>2. QED
      BY <1>3, <2>1
  <1>5. ASSUME NEW x \in D PROVE F[x] = Unfold(F, B, b, p, g, x)
    <2>1. m[x] + 1 \in Nat /\ x \in Below(m[x] + 1)
      OBVIOUS
    <2>2. F[x] = Unfold(Chosen(m[x] + 1), B, b, p, g, x)
      BY <1>3, <2>1
    <2>3. CASE x \in B
      BY <2>2, <2>3 DEF Unfold
    <2>4. CASE x \notin B
      <3>1. /\ p[x] \in D /\ m[p[x]] < m[x] /\ m[p[x]] \in Nat
            /\ m[p[x]] + 1 \in Nat /\ m[p[x]] < m[p[x]] + 1 /\ m[p[x]] < m[x] + 1
        BY <2>4
      <3>2. Chosen(m[x] + 1)[p[x]] = Chosen(m[p[x]] + 1)[p[x]]
        <4> HIDE DEF Partial
        <4>1. Partial(m[x] + 1, Chosen(m[x] + 1)) /\ Partial(m[p[x]] + 1, Chosen(m[p[x]] + 1))
          BY <1>3, <2>1, <3>1
        <4>2. QED
          BY <1>1, <2>1, <3>1, <4>1
      <3>3. QED
        BY <2>2, <2>4, <3>1, <3>2 DEF Unfold
    <2>5. QED
      BY <2>3, <2>4
  <1>6. F \in [D -> V]
    BY <1>4
  <1> HIDE DEF F
  <1>7. QED
    BY <1>5, <1>6

-----------------------------------------------------------------------------
\* The ten digits.
Digit == ToSet(Digits)

LEMMA DigitTells ==
    /\ Len(Digits) = 10 /\ DOMAIN Digits = 1..10
    /\ \A n \in 0..9 : Digits[n + 1] \in Digit /\ DigitValue(Digits[n + 1]) = n
    /\ \A d \in Digit : DigitValue(d) \in 0..9 /\ Digits[DigitValue(d) + 1] = d
    /\ "0" \in Digit /\ DigitValue("0") = 0 /\ Digits[1] = "0"
    /\ Space \notin Digit /\ Quote \notin Digit /\ "," \notin Digit
  <1>1. /\ Len(Digits) = 10 /\ DOMAIN Digits = 1..10
        /\ Digits[1] = "0" /\ Digits[2] = "1" /\ Digits[3] = "2" /\ Digits[4] = "3"
        /\ Digits[5] = "4" /\ Digits[6] = "5" /\ Digits[7] = "6" /\ Digits[8] = "7"
        /\ Digits[9] = "8" /\ Digits[10] = "9"
    BY DEF Digits
  <1>2. Digit = {Digits[i] : i \in 1..10}
    BY <1>1 DEF Digit, ToSet
  <1>3. \A i, j \in 1..10 : Digits[i] = Digits[j] => i = j
    BY DEF Digits
  <1>4. \A i \in 1..10 : DigitValue(Digits[i]) = i - 1
    BY <1>1, <1>3 DEF DigitValue
  <1>5. \A d \in Digit : \E i \in 1..10 : d = Digits[i]
    BY <1>2
  <1>6. \A i \in 1..10 : /\ Digits[i] # " " /\ Digits[i] # "\"" /\ Digits[i] # ","
    <2>1. \A i \in 1..10 : \/ i = 1 \/ i = 2 \/ i = 3 \/ i = 4 \/ i = 5
                           \/ i = 6 \/ i = 7 \/ i = 8 \/ i = 9 \/ i = 10
      OBVIOUS
    <2>2. QED
      BY <1>1, <2>1
  <1>7. \A n \in 0..9 : Digits[n + 1] \in Digit /\ DigitValue(Digits[n + 1]) = n
    BY <1>2, <1>4
  <1>8. \A d \in Digit : DigitValue(d) \in 0..9 /\ Digits[DigitValue(d) + 1] = d
    BY <1>4, <1>5
  <1>9. "0" \in Digit /\ DigitValue("0") = 0
    <2>1. "0" = Digits[0 + 1]
      BY <1>1
    <2>2. QED
      BY <1>7, <2>1
  <1>10. Space \notin Digit /\ Quote \notin Digit /\ "," \notin Digit
    BY <1>5, <1>6 DEF Space, Quote
  <1>11. QED
    BY <1>1, <1>7, <1>8, <1>9, <1>10

-----------------------------------------------------------------------------
\* The decimal of a number, and the number of a sequence of digits.

LEMMA DecimalTells ==
    \A n \in Nat :
        /\ Decimal[n] \in Seq(Digit)
        /\ n < 10 => Decimal[n] = <<Digits[n + 1]>>
        /\ n >= 10 => Decimal[n] = Append(Decimal[n \div 10], Digits[(n % 10) + 1])
  <1> DEFINE Body(f, n) == IF n < 10
                           THEN <<Digits[n + 1]>>
                           ELSE Append(f[n \div 10], Digits[(n % 10) + 1])
             D == Nat
             V == Seq(Digit)
             B == 0..9
             b == [n \in D |-> <<Digits[(n % 10) + 1]>>]
             p == [n \in D |-> n \div 10]
             g == [x \in D \X V |-> Append(x[2], Digits[(x[1] % 10) + 1])]
             m == [n \in D |-> n]
  <1>1. \A n \in Nat : /\ n \div 10 \in Nat /\ n % 10 \in 0..9
                       /\ n < 10 => n % 10 = n
                       /\ n >= 10 => n \div 10 < n
    OBVIOUS
  <1>2. \A n \in Nat : Digits[(n % 10) + 1] \in Digit
    BY <1>1, DigitTells
  <1>3. g \in [D \X V -> V]
    BY <1>2, AppendProperties
  <1>4. Terminates(D, V, B, b, p, g, m)
    <2>1. /\ b \in [D -> V] /\ p \in [D -> D] /\ m \in [D -> Nat]
          /\ \A n \in D : n \notin B => m[p[n]] < m[n]
      BY <1>1, <1>2
    <2>2. QED
      BY <1>3, <2>1 DEF Terminates
  <1>5. PICK F \in [D -> V] : \A n \in D : F[n] = Unfold(F, B, b, p, g, n)
    <2> HIDE DEF D, V, B, b, p, g, m
    <2>1. QED
      BY <1>4, Recursion
  <1>6. ASSUME NEW n \in Nat PROVE F[n] = Body(F, n)
    <2>1. F[n] = IF n \in B THEN b[n] ELSE g[<<n, F[p[n]]>>]
      BY <1>5 DEF Unfold
    <2>2. CASE n < 10
      BY <1>1, <2>1, <2>2
    <2>3. CASE n >= 10
      <3>1. p[n] = n \div 10 /\ F[p[n]] \in V
        BY <1>1, <1>5
      <3>2. g[<<n, F[p[n]]>>] = Append(F[p[n]], Digits[(n % 10) + 1])
        <4> HIDE DEF V, p
        <4>1. QED
          BY <3>1
      <3>3. n \notin B
        BY <2>3
      <3>4. F[n] = Append(F[n \div 10], Digits[(n % 10) + 1])
        BY <2>1, <3>1, <3>2, <3>3
      <3>5. ~(n < 10)
        BY <2>3
      <3>6. QED
        BY <3>4, <3>5
    <2>4. QED
      BY <2>2, <2>3
  <1>7. F = [n \in Nat |-> Body(F, n)]
    <2> HIDE DEF Body, V
    <2>1. QED
      BY <1>5, <1>6
  <1>8. Decimal = CHOOSE f : f = [n \in Nat |-> Body(f, n)]
    BY DEF Decimal
  <1>9. Decimal = [n \in Nat |-> Body(Decimal, n)]
    <2> HIDE DEF Body
    <2>1. QED
      BY <1>7, <1>8
  <1>10. ASSUME NEW n \in Nat PROVE Decimal[n] = Body(Decimal, n)
    <2> HIDE DEF Body
    <2>1. QED
      BY <1>9
  <1>11. ASSUME NEW n \in Nat
         PROVE  /\ n < 10 => Decimal[n] = <<Digits[n + 1]>>
                /\ n >= 10 => Decimal[n] = Append(Decimal[n \div 10], Digits[(n % 10) + 1])
    <2>1. n >= 10 => ~(n < 10)
      OBVIOUS
    <2>2. QED
      BY <1>10, <2>1, Zenon
  <1>12. \A n \in Nat : Decimal[n] \in V
    <2> DEFINE Wrong == {n \in Nat : Decimal[n] \notin V}
    <2>1. SUFFICES ASSUME Wrong # {} PROVE FALSE
      OBVIOUS
    <2>2. PICK n \in Wrong : \A k \in Wrong : n <= k
      <3> HIDE DEF Wrong
      <3>1. Wrong \subseteq Nat
        BY DEF Wrong
      <3>2. QED
        BY <2>1, <3>1, LeastNumber
    <2>3. n \in Nat /\ Decimal[n] \notin V
      OBVIOUS
    <2>4. CASE n < 10
      <3>1. Decimal[n] = <<Digits[n + 1]>> /\ Digits[n + 1] \in Digit
        BY <1>1, <1>2, <1>11, <2>3, <2>4
      <3>2. QED
        BY <2>3, <3>1
    <2>5. CASE n >= 10
      <3>1. n \div 10 \in Nat /\ n \div 10 < n
        BY <1>1, <2>3, <2>5
      <3>2. Decimal[n \div 10] \in V
        BY <2>2, <3>1
      <3>3. Decimal[n] = Append(Decimal[n \div 10], Digits[(n % 10) + 1])
        BY <1>11, <2>3, <2>5
      <3>4. QED
        BY <1>2, <2>3, <3>2, <3>3, AppendProperties
    <2>6. QED
      BY <2>3, <2>4, <2>5
  <1>13. QED
    BY <1>11, <1>12

\* A sequence without its last element, and with one more.
LEMMA FrontTells ==
    ASSUME NEW S, NEW s \in Seq(S)
    PROVE  /\ Front(s) \in Seq(S)
           /\ s # <<>> => /\ Last(s) \in S /\ Len(s) \in Nat \ {0}
                          /\ Len(Front(s)) = Len(s) - 1
                          /\ \A i \in 1..Len(s) - 1 : Front(s)[i] = s[i]
                          /\ s = Append(Front(s), Last(s))
           /\ \A e \in S : Front(Append(s, e)) = s /\ Last(Append(s, e)) = e
  <1>1. Len(s) \in Nat /\ \A i \in 1..Len(s) : s[i] \in S
    OBVIOUS
  <1>2. /\ Front(s) \in Seq(S)
        /\ Len(s) > 0 => Len(Front(s)) = Len(s) - 1
        /\ \A i \in 1..Len(s) - 1 : Front(s)[i] = s[i]
    <2> DEFINE n == Len(s) - 1
    <2>1. n \in Int /\ \A i \in 1..n : s[i] \in S
      BY <1>1
    <2> HIDE DEF n
    <2>2. /\ SubSeq(s, 1, n) \in Seq(S)
          /\ Len(SubSeq(s, 1, n)) = IF 1 <= n THEN n - 1 + 1 ELSE 0
          /\ \A i \in 1..n - 1 + 1 : SubSeq(s, 1, n)[i] = s[1 + i - 1]
      BY <2>1, SubSeqProperties
    <2>3. /\ SubSeq(s, 1, n) \in Seq(S)
          /\ n >= 0 => Len(SubSeq(s, 1, n)) = n
          /\ \A i \in 1..n : SubSeq(s, 1, n)[i] = s[i]
      BY <2>1, <2>2
    <2>4. QED
      BY <1>1, <2>3 DEF Front, n
  <1>3. ASSUME s # <<>>
        PROVE  /\ Last(s) \in S /\ Len(s) \in Nat \ {0}
               /\ s = Append(Front(s), Last(s))
    <2>1. Len(s) \in Nat \ {0} /\ Last(s) \in S
      BY <1>3, EmptySeq DEF Last
    <2>2. /\ Append(Front(s), Last(s)) \in Seq(S)
          /\ Len(Append(Front(s), Last(s))) = Len(s)
          /\ \A i \in 1..Len(s) - 1 : Append(Front(s), Last(s))[i] = s[i]
          /\ Append(Front(s), Last(s))[Len(s)] = s[Len(s)]
      <3>1. Len(Front(s)) = Len(s) - 1 /\ Len(Front(s)) + 1 = Len(s)
        BY <1>2, <2>1
      <3>2. QED
        BY <1>2, <2>1, <3>1, AppendProperties DEF Last
    <2>3. QED
      BY <2>1, <2>2, SeqEqual
  <1>4. ASSUME NEW e \in S PROVE Front(Append(s, e)) = s /\ Last(Append(s, e)) = e
    <2> DEFINE t == Append(s, e)
    <2>1. /\ t \in Seq(S) /\ Len(t) = Len(s) + 1
          /\ \A i \in 1..Len(s) : t[i] = s[i]
          /\ t[Len(s) + 1] = e
      BY AppendProperties
    <2> HIDE DEF t
    <2>2. Last(t) = e
      BY <2>1 DEF Last
    <2>3. \A i \in 1..Len(t) - 1 : t[i] \in S
      BY <2>1
    <2>4. /\ Front(t) \in Seq(S) /\ Len(Front(t)) = Len(s)
          /\ \A i \in 1..Len(s) : Front(t)[i] = s[i]
      <3>1. /\ SubSeq(t, 1, Len(t) - 1) \in Seq(S)
            /\ Len(SubSeq(t, 1, Len(t) - 1)) = Len(s)
            /\ \A i \in 1..Len(s) : SubSeq(t, 1, Len(t) - 1)[i] = t[i]
        BY <1>1, <2>1, <2>3, SubSeqProperties
      <3>2. QED
        BY <2>1, <3>1 DEF Front
    <2>5. Front(t) = s
      BY <2>4, SeqEqual
    <2>6. QED
      BY <2>2, <2>5 DEF t
  <1>5. QED
    BY <1>1, <1>2, <1>3, <1>4

\* Induction on sequences: what holds of the empty one, and of a sequence with one more
\* element when it holds of the sequence, holds of all.
LEMMA SequencesInduction ==
    ASSUME NEW S, NEW P, <<>> \in P,
           \A s \in Seq(S), e \in S : s \in P => Append(s, e) \in P
    PROVE  Seq(S) \subseteq P
  <1> DEFINE Lengths == {n \in Nat : \E s \in Seq(S) : Len(s) = n /\ s \notin P}
  <1>1. SUFFICES ASSUME Lengths # {} PROVE FALSE
    OBVIOUS
  <1>2. PICK n \in Lengths : \A k \in Lengths : n <= k
    <2> HIDE DEF Lengths
    <2>1. Lengths \subseteq Nat
      BY DEF Lengths
    <2>2. QED
      BY <1>1, <2>1, LeastNumber
  <1>3. PICK s \in Seq(S) : Len(s) = n /\ s \notin P
    OBVIOUS
  <1>4. /\ Front(s) \in Seq(S) /\ Last(s) \in S /\ Len(Front(s)) = Len(s) - 1
        /\ s = Append(Front(s), Last(s)) /\ Len(s) \in Nat \ {0}
    BY <1>3, FrontTells
  <1>5. Front(s) \in P
    <2>1. n - 1 \in Nat /\ ~(n <= n - 1) /\ Len(Front(s)) = n - 1
      BY <1>3, <1>4
    <2>2. QED
      BY <1>2, <1>4, <2>1
  <1>6. QED
    BY <1>3, <1>4, <1>5, Zenon

LEMMA NumberTells ==
    /\ Number[<<>>] = 0
    /\ \A s \in Seq(Digit) :
          /\ Number[s] \in Nat
          /\ \A d \in Digit : Number[Append(s, d)] = 10 * Number[s] + DigitValue(d)
  <1> DEFINE Body(f, s) == IF s = <<>> THEN 0 ELSE 10 * f[Front(s)] + DigitValue(Last(s))
             D == Seq(Digit)
             V == Nat
             B == {<<>>}
             b == [s \in D |-> 0]
             p == [s \in D |-> Front(s)]
             g == [x \in D \X V |-> IF x[1] = <<>> THEN 0 ELSE 10 * x[2] + DigitValue(Last(x[1]))]
             m == [s \in D |-> Len(s)]
  <1>1. \A s \in D : s # <<>> => DigitValue(Last(s)) \in 0..9
    BY FrontTells, DigitTells
  <1>2. \A s \in D : Front(s) \in D /\ (s # <<>> => Len(Front(s)) < Len(s))
    BY FrontTells
  <1>3. g \in [D \X V -> V]
    BY <1>1
  <1>4. Terminates(D, V, B, b, p, g, m)
    <2>1. /\ b \in [D -> V] /\ p \in [D -> D] /\ m \in [D -> Nat]
          /\ \A s \in D : s \notin B => m[p[s]] < m[s]
      BY <1>2
    <2>2. QED
      BY <1>3, <2>1 DEF Terminates
  <1>5. PICK F \in [D -> V] : \A s \in D : F[s] = Unfold(F, B, b, p, g, s)
    <2> HIDE DEF D, V, B, b, p, g, m
    <2>1. QED
      BY <1>4, Recursion
  <1>6. ASSUME NEW s \in D PROVE F[s] = Body(F, s)
    <2>1. F[s] = IF s \in B THEN b[s] ELSE g[<<s, F[p[s]]>>]
      BY <1>5 DEF Unfold
    <2>2. CASE s = <<>>
      BY <2>1, <2>2
    <2>3. CASE s # <<>>
      <3>1. p[s] = Front(s) /\ F[p[s]] \in V /\ s \notin B
        BY <1>2, <1>5, <2>3
      <3>2. g[<<s, F[p[s]]>>] = 10 * F[p[s]] + DigitValue(Last(s))
        <4> HIDE DEF D, V, p
        <4>1. QED
          BY <2>3, <3>1
      <3>3. QED
        BY <2>1, <2>3, <3>1, <3>2
    <2>4. QED
      BY <2>2, <2>3
  <1>7. F = [s \in D |-> Body(F, s)]
    <2> HIDE DEF Body, V, D
    <2>1. QED
      BY <1>5, <1>6
  <1>8. Number = CHOOSE f : f = [s \in D |-> Body(f, s)]
    BY DEF Number, Digit
  <1>9. Number = [s \in D |-> Body(Number, s)]
    <2> HIDE DEF Body, D
    <2>1. QED
      BY <1>7, <1>8
  <1>10. ASSUME NEW s \in D PROVE Number[s] = Body(Number, s)
    <2> HIDE DEF Body, D
    <2>1. QED
      BY <1>9
  <1>11. Number[<<>>] = 0
    <2>1. <<>> \in D
      BY EmptySeq
    <2>2. Number[<<>>] = Body(Number, <<>>)
      BY <1>10, <2>1
    <2>3. QED
      BY <2>2
  <1>12. ASSUME NEW s \in D, NEW d \in Digit
         PROVE  Number[Append(s, d)] = 10 * Number[s] + DigitValue(d)
    <2>1. Append(s, d) \in D /\ Append(s, d) # <<>>
      BY AppendProperties
    <2>2. Front(Append(s, d)) = s /\ Last(Append(s, d)) = d
      BY FrontTells
    <2>3. Number[Append(s, d)] = Body(Number, Append(s, d))
      BY <1>10, <2>1
    <2>4. QED
      BY <2>1, <2>2, <2>3
  <1>13. D \subseteq {s \in D : Number[s] \in Nat}
    <2> DEFINE P == {s \in D : Number[s] \in Nat}
    <2>1. <<>> \in P
      BY <1>11, EmptySeq
    <2>2. ASSUME NEW s \in D, NEW d \in Digit, s \in P PROVE Append(s, d) \in P
      <3>1. Append(s, d) \in D
        BY AppendProperties
      <3>2. Number[s] \in Nat /\ DigitValue(d) \in 0..9
        BY <2>2, DigitTells
      <3>3. Number[Append(s, d)] \in Nat
        BY <1>12, <3>2
      <3>4. QED
        BY <3>1, <3>3
    <2> HIDE DEF P
    <2>3. D \subseteq P
      BY <2>1, <2>2, SequencesInduction
    <2>4. QED
      BY <2>3 DEF P
  <1>14. QED
    BY <1>11, <1>12, <1>13

LEMMA OneElement ==
    \A e : /\ <<e>> # <<>> /\ Len(<<e>>) = 1 /\ <<e>>[1] = e
           /\ Append(<<>>, e) = <<e>>
  OBVIOUS

\* The decimal of a number denotes it, and none is empty.
LEMMA NumberOfDecimal ==
    \A n \in Nat : Decimal[n] \in Seq(Digit) /\ Decimal[n] # <<>> /\ Number[Decimal[n]] = n
  <1>1. ASSUME NEW n \in Nat PROVE Decimal[n] \in Seq(Digit) /\ Decimal[n] # <<>>
    <2>1. n >= 10 => n \div 10 \in Nat /\ n % 10 \in 0..9
      OBVIOUS
    <2>2. Decimal[n] \in Seq(Digit)
      BY DecimalTells
    <2>3. CASE n < 10
      <3>1. Decimal[n] = <<Digits[n + 1]>>
        BY <2>3, DecimalTells
      <3>2. QED
        BY <2>2, <3>1, OneElement, Zenon
    <2>4. CASE n >= 10
      <3>1. Decimal[n] = Append(Decimal[n \div 10], Digits[(n % 10) + 1])
        BY <2>4, DecimalTells
      <3>2. Decimal[n \div 10] \in Seq(Digit) /\ Digits[(n % 10) + 1] \in Digit
        BY <2>1, <2>4, DecimalTells, DigitTells
      <3>3. QED
        BY <2>2, <3>1, <3>2, AppendProperties
    <2>5. QED
      BY <2>3, <2>4
  <1>2. \A d \in Digit : Number[<<d>>] = DigitValue(d)
    <2>1. \A d \in Digit : <<d>> = Append(<<>>, d) /\ DigitValue(d) \in 0..9
      BY OneElement, DigitTells, Zenon
    <2>2. <<>> \in Seq(Digit)
      BY EmptySeq
    <2>3. ASSUME NEW d \in Digit PROVE Number[<<d>>] = DigitValue(d)
      <3>1. Number[Append(<<>>, d)] = 10 * 0 + DigitValue(d)
        BY <2>2, NumberTells, Zenon
      <3>2. QED
        BY <2>1, <3>1
    <2>4. QED
      BY <2>3
  <1> DEFINE Wrong == {n \in Nat : Number[Decimal[n]] # n}
  <1>3. Wrong = {}
    <2>1. SUFFICES ASSUME Wrong # {} PROVE FALSE
      OBVIOUS
    <2>2. PICK n \in Wrong : \A k \in Wrong : n <= k
      <3> HIDE DEF Wrong
      <3>1. Wrong \subseteq Nat
        BY DEF Wrong
      <3>2. QED
        BY <2>1, <3>1, LeastNumber
    <2>3. n \in Nat /\ Number[Decimal[n]] # n
      OBVIOUS
    <2>4. CASE n < 10
      <3>1. n \in 0..9
        BY <2>3, <2>4
      <3>2. Digits[n + 1] \in Digit /\ DigitValue(Digits[n + 1]) = n
        BY <3>1, DigitTells
      <3>3. QED
        BY <1>2, <2>3, <2>4, <3>2, DecimalTells
    <2>5. CASE n >= 10
      <3>1. /\ n \div 10 \in Nat /\ n \div 10 < n /\ n % 10 \in 0..9
            /\ 10 * (n \div 10) + (n % 10) = n
        BY <2>3, <2>5
      <3>2. Number[Decimal[n \div 10]] = n \div 10
        BY <2>2, <3>1
      <3> DEFINE d == Digits[(n % 10) + 1]
      <3>3. d \in Digit /\ DigitValue(d) = n % 10
        BY <3>1, DigitTells
      <3>4. Decimal[n] = Append(Decimal[n \div 10], d) /\ Decimal[n \div 10] \in Seq(Digit)
        BY <2>3, <2>5, <3>1, DecimalTells
      <3> HIDE DEF d
      <3>5. Number[Decimal[n]] = 10 * Number[Decimal[n \div 10]] + DigitValue(d)
        BY <3>3, <3>4, NumberTells
      <3>6. QED
        BY <2>3, <3>1, <3>2, <3>3, <3>5
    <2>6. QED
      BY <2>3, <2>4, <2>5
  <1>4. QED
    BY <1>1, <1>3

-----------------------------------------------------------------------------
\* Leading zeros.

\* s is t after z zeros.
Padded(s, t, z) ==
    /\ Len(s) = z + Len(t)
    /\ \A i \in 1..z : s[i] = "0"
    /\ \A i \in 1..Len(t) : s[z + i] = t[i]

\* A digit more at the end of both.
LEMMA PaddedAppend ==
    ASSUME NEW s \in Seq(Digit), NEW t \in Seq(Digit), NEW z \in Nat, NEW d \in Digit,
           Padded(s, t, z)
    PROVE  Padded(Append(s, d), Append(t, d), z)
  <1>1. /\ Len(Append(s, d)) = Len(s) + 1 /\ Len(Append(t, d)) = Len(t) + 1
        /\ \A i \in 1..Len(s) : Append(s, d)[i] = s[i]
        /\ \A i \in 1..Len(t) : Append(t, d)[i] = t[i]
        /\ Append(s, d)[Len(s) + 1] = d /\ Append(t, d)[Len(t) + 1] = d
        /\ Len(s) \in Nat /\ Len(t) \in Nat
    BY AppendProperties
  <1> DEFINE sd == Append(s, d)
             td == Append(t, d)
  <1> HIDE DEF sd, td
  <1>2. Padded(sd, td, z)
    BY <1>1 DEF Padded, sd, td
  <1>3. QED
    BY <1>2 DEF sd, td

\* They do not change the number.
LEMMA NumberOfPadded ==
    \A s \in Seq(Digit) : \A t \in Seq(Digit) : \A z \in Nat :
        Padded(s, t, z) => Number[s] = Number[t]
  <1> DEFINE P == {s \in Seq(Digit) : \A t \in Seq(Digit) : \A z \in Nat :
                        Padded(s, t, z) => Number[s] = Number[t]}
  <1>1. <<>> \in P
    <2>1. \A t \in Seq(Digit) : \A z \in Nat : Padded(<<>>, t, z) => t = <<>>
      BY EmptySeq DEF Padded
    <2>2. QED
      BY <2>1, EmptySeq
  <1>2. ASSUME NEW s \in Seq(Digit), NEW d \in Digit, s \in P PROVE Append(s, d) \in P
    <2> DEFINE sd == Append(s, d)
    <2>1. /\ sd \in Seq(Digit) /\ Len(sd) = Len(s) + 1 /\ Len(s) \in Nat
          /\ \A i \in 1..Len(s) : sd[i] = s[i]
          /\ sd[Len(s) + 1] = d
      BY AppendProperties
    <2>2. /\ Number[sd] = 10 * Number[s] + DigitValue(d)
          /\ Number[s] \in Nat
      BY NumberTells
    <2> HIDE DEF sd
    <2>3. ASSUME NEW t \in Seq(Digit), NEW z \in Nat, Padded(sd, t, z)
          PROVE  Number[sd] = Number[t]
      <3>1. CASE t = <<>>
        <4>1. z = Len(s) + 1 /\ d = "0" /\ \A i \in 1..Len(s) : s[i] = "0"
          BY <2>1, <2>3, <3>1 DEF Padded
        <4>2. Padded(s, t, Len(s))
          BY <2>1, <3>1, <4>1 DEF Padded
        <4>3. Number[s] = Number[t] /\ Number[t] = 0
          BY <1>2, <2>1, <3>1, <4>2, NumberTells
        <4>4. DigitValue(d) = 0
          BY <4>1, DigitTells
        <4>5. QED
          BY <2>2, <4>3, <4>4
      <3>2. CASE t # <<>>
        <4>1. /\ Front(t) \in Seq(Digit) /\ Last(t) \in Digit /\ Len(Front(t)) = Len(t) - 1
              /\ t = Append(Front(t), Last(t)) /\ Len(t) \in Nat \ {0}
              /\ \A i \in 1..Len(t) - 1 : Front(t)[i] = t[i]
          BY <3>2, FrontTells
        <4>2. Last(t) = d
          BY <2>1, <2>3, <4>1 DEF Padded, Last
        <4>3. Padded(s, Front(t), z)
          <5> DEFINE ft == Front(t)
          <5>1. Len(ft) = Len(t) - 1 /\ \A i \in 1..Len(t) - 1 : ft[i] = t[i]
            BY <4>1
          <5>2. Len(t) \in Nat \ {0}
            BY <4>1
          <5> HIDE DEF ft
          <5>3. Padded(s, ft, z)
            BY <2>1, <2>3, <5>1, <5>2 DEF Padded
          <5>4. QED
            BY <5>3 DEF ft
        <4>4. Number[s] = Number[Front(t)]
          BY <1>2, <4>1, <4>3
        <4>5. Number[Append(Front(t), d)] = 10 * Number[Front(t)] + DigitValue(d)
          BY <4>1, NumberTells
        <4>6. QED
          BY <2>2, <4>1, <4>2, <4>4, <4>5, Zenon
      <3>3. QED
        BY <3>1, <3>2
    <2>4. QED
      BY <2>1, <2>3 DEF sd
  <1> HIDE DEF P
  <1>3. Seq(Digit) \subseteq P
    BY <1>1, <1>2, SequencesInduction
  <1>4. QED
    BY <1>3 DEF P

\* The decimal of a number below ten is its digit.
LEMMA DecimalOfDigit ==
    ASSUME NEW d \in Digit
    PROVE  Decimal[DigitValue(d)] = <<d>>
  <1> DEFINE dv == DigitValue(d)
  <1>1. dv \in 0..9 /\ Digits[dv + 1] = d
    BY DigitTells
  <1> HIDE DEF dv
  <1>2. dv \in Nat /\ dv < 10
    BY <1>1
  <1>3. Decimal[dv] = <<Digits[dv + 1]>>
    BY <1>2, DecimalTells
  <1>4. Decimal[dv] = <<d>>
    BY <1>1, <1>3, Zenon
  <1>5. QED
    BY <1>4 DEF dv

\* A sequence of digits is the decimal of the number it denotes, after zeros.
LEMMA DecimalOfNumber ==
    \A s \in Seq(Digit) :
        s # <<>> => \E z \in Nat : Padded(s, Decimal[Number[s]], z)
  <1> DEFINE P == {s \in Seq(Digit) :
                      s # <<>> => \E z \in Nat : Padded(s, Decimal[Number[s]], z)}
  <1>1. <<>> \in P
    BY EmptySeq
  <1>2. ASSUME NEW s \in Seq(Digit), NEW d \in Digit, s \in P PROVE Append(s, d) \in P
    <2> DEFINE sd == Append(s, d)
               dv == DigitValue(d)
               N == Number[s]
    <2>1. /\ sd \in Seq(Digit) /\ Len(sd) = Len(s) + 1 /\ Len(s) \in Nat
          /\ \A i \in 1..Len(s) : sd[i] = s[i]
          /\ sd[Len(s) + 1] = d
      BY AppendProperties
    <2>2. /\ Number[sd] = 10 * N + dv
          /\ N \in Nat
      BY NumberTells
    <2>3. dv \in 0..9 /\ Digits[dv + 1] = d
      BY DigitTells
    <2> HIDE DEF sd, dv, N
    <2>4. CASE N = 0 /\ \E z \in Nat : Padded(s, Decimal[0], z)
      <3>1. PICK z \in Nat : Padded(s, Decimal[0], z)
        BY <2>4
      <3>2. Decimal[0] = <<"0">>
        <4>1. Decimal[DigitValue("0")] = <<"0">>
          BY DecimalOfDigit, DigitTells
        <4>2. QED
          BY <4>1, DigitTells
      <3>3. Len(s) = z + 1 /\ \A i \in 1..z + 1 : s[i] = "0"
        BY <3>1, <3>2 DEF Padded
      <3>4. Decimal[Number[sd]] = <<d>>
        <4>1. Number[sd] = dv
          BY <2>2, <2>3, <2>4
        <4>2. QED
          BY <4>1, DecimalOfDigit, Zenon DEF dv
      <3>5. Padded(sd, <<d>>, z + 1)
        BY <2>1, <3>3 DEF Padded
      <3>6. z + 1 \in Nat
        OBVIOUS
      <3>7. QED
        BY <2>1, <3>4, <3>5, <3>6 DEF sd
    <2>5. CASE N # 0 /\ \E z \in Nat : Padded(s, Decimal[N], z)
      <3>1. PICK z \in Nat : Padded(s, Decimal[N], z)
        BY <2>5
      <3>2. /\ 10 * N + dv \in Nat /\ 10 * N + dv >= 10
            /\ (10 * N + dv) \div 10 = N /\ (10 * N + dv) % 10 = dv
        BY <2>2, <2>3, <2>5
      <3>3. Decimal[Number[sd]] = Append(Decimal[N], d)
        BY <2>2, <2>3, <3>2, DecimalTells
      <3>4. Padded(sd, Append(Decimal[N], d), z)
        BY <2>2, <3>1, PaddedAppend, DecimalTells DEF sd
      <3>5. QED
        BY <2>1, <3>3, <3>4 DEF sd
    <2>6. CASE s = <<>>
      <3>1. N = 0 /\ sd = <<d>>
        BY <2>6, NumberTells, OneElement, Zenon DEF sd, N
      <3>2. Decimal[Number[sd]] = <<d>>
        <4>1. Number[sd] = dv
          BY <2>2, <2>3, <3>1
        <4>2. QED
          BY <4>1, DecimalOfDigit, Zenon DEF dv
      <3>3. Padded(<<d>>, <<d>>, 0)
        BY DEF Padded
      <3>4. QED
        BY <2>1, <3>1, <3>2, <3>3 DEF sd
    <2>7. QED
      BY <1>2, <2>4, <2>5, <2>6 DEF N
  <1> HIDE DEF P
  <1>3. Seq(Digit) \subseteq P
    BY <1>1, <1>2, SequencesInduction
  <1>4. QED
    BY <1>3 DEF P

\* A number in decimal, after zeros, denotes that number.
LEMMA PaddedDecimal ==
    ASSUME NEW S, NEW s \in Seq(S), NEW v \in Nat, NEW z \in Nat, Padded(s, Decimal[v], z)
    PROVE  s \in Seq(Digit) /\ s # <<>> /\ Number[s] = v
  <1>1. /\ Decimal[v] \in Seq(Digit) /\ Decimal[v] # <<>> /\ Number[Decimal[v]] = v
        /\ Len(Decimal[v]) \in Nat \ {0} /\ Len(s) \in Nat
    BY NumberOfDecimal, EmptySeq
  <1>2. \A i \in 1..Len(s) : s[i] \in Digit
    <2>1. ASSUME NEW i \in 1..Len(s) PROVE s[i] \in Digit
      <3>1. CASE i <= z
        <4>1. s[i] = "0"
          BY <3>1 DEF Padded
        <4>2. QED
          BY <4>1, DigitTells
      <3>2. CASE i > z
        <4>1. i - z \in 1..Len(Decimal[v]) /\ z + (i - z) = i
          BY <1>1, <3>2 DEF Padded
        <4>2. s[i] = Decimal[v][i - z]
          BY <4>1 DEF Padded
        <4>3. QED
          BY <1>1, <4>1, <4>2, ElementOfSeq
      <3>3. QED
        BY <1>1, <3>1, <3>2
    <2>2. QED
      BY <2>1
  <1>3. s \in Seq(Digit)
    BY <1>2, SeqDef
  <1>4. s # <<>>
    BY <1>1, EmptySeq DEF Padded
  <1>5. QED
    BY <1>1, <1>3, <1>4, NumberOfPadded

-----------------------------------------------------------------------------
\* What Trim keeps.

\* From a to e, around which there is white space only.
Framed(h, a, e) ==
    /\ a \in 1..Len(h) /\ e \in 1..Len(h) /\ a <= e
    /\ h[a] # Space /\ h[e] # Space
    /\ \A i \in 1..a - 1 : h[i] = Space
    /\ \A i \in e + 1..Len(h) : h[i] = Space

LEMMA TrimOfFramed ==
    ASSUME NEW S, NEW h \in Seq(S), NEW a, NEW e, Framed(h, a, e)
    PROVE  Trim(h) = SubSeq(h, a, e)
  <1> DEFINE kept == {i \in DOMAIN h : h[i] # Space}
  <1>1. /\ a \in kept /\ e \in kept
        /\ \A i \in kept : i \in Int /\ a <= i /\ i <= e
    BY DEF Framed
  <1> HIDE DEF kept
  <1>2. a \in Int /\ e \in Int
    BY <1>1
  <1>3. Min(kept) = a
    <2> DEFINE least == Min(kept)
    <2>1. least \in kept /\ \A i \in kept : least =< i
      BY <1>1 DEF Min
    <2> HIDE DEF least
    <2>2. least \in Int /\ a <= least /\ least <= a
      BY <1>1, <2>1
    <2>3. least = a
      BY <1>2, <2>2
    <2>4. QED
      BY <2>3 DEF least
  <1>4. Max(kept) = e
    <2> DEFINE greatest == Max(kept)
    <2>1. greatest \in kept /\ \A i \in kept : greatest >= i
      BY <1>1 DEF Max
    <2> HIDE DEF greatest
    <2>2. greatest \in Int /\ greatest <= e /\ e <= greatest
      BY <1>1, <1>2, <2>1
    <2>3. greatest = e
      BY <1>2, <2>2
    <2>4. QED
      BY <2>3 DEF greatest
  <1>5. Trim(h) = IF kept = {} THEN <<>> ELSE SubSeq(h, Min(kept), Max(kept))
    BY DEF Trim, kept
  <1>6. QED
    BY <1>1, <1>3, <1>4, <1>5

\* Nothing is kept of white space only, and something of any other sequence.
LEMMA TrimTells ==
    ASSUME NEW S, NEW h \in Seq(S)
    PROVE  /\ Trim(h) = <<>> <=> \A i \in 1..Len(h) : h[i] = Space
           /\ Trim(h) # <<>> => \E a, e \in 1..Len(h) : Framed(h, a, e)
  <1> DEFINE kept == {i \in 1..Len(h) : h[i] # Space}
             back == {n \in Nat : \E i \in kept : n = Len(h) - i}
  <1>1. Len(h) \in Nat /\ DOMAIN h = 1..Len(h)
    OBVIOUS
  <1>2. CASE kept = {}
    BY <1>1, <1>2 DEF Trim
  <1>3. CASE kept # {}
    <2>1. PICK a \in kept : \A i \in kept : a <= i
      <3>1. kept \subseteq Nat
        BY <1>1
      <3> HIDE DEF kept
      <3>2. QED
        BY <1>3, <3>1, LeastNumber
    <2>2. \A i \in kept : Len(h) - i \in back
      BY <1>1
    <2>3. PICK n \in back : \A k \in back : n <= k
      <3>1. back \subseteq Nat /\ back # {}
        <4> HIDE DEF kept
        <4>1. QED
          BY <1>3, <2>2
      <3> HIDE DEF back, kept
      <3>2. QED
        BY <3>1, LeastNumber
    <2>4. PICK e \in kept : n = Len(h) - e
      OBVIOUS
    <2>5. \A i \in kept : i <= e
      <3> HIDE DEF back
      <3>1. ASSUME NEW i \in kept PROVE i <= e
        <4>1. n <= Len(h) - i
          BY <2>2, <2>3
        <4>2. QED
          BY <1>1, <2>4, <4>1
      <3>2. QED
        BY <3>1
    <2>6. /\ a \in 1..Len(h) /\ e \in 1..Len(h)
          /\ h[a] # Space /\ h[e] # Space
      OBVIOUS
    <2>7. a <= e
      BY <2>1
    <2>8. ASSUME NEW i \in 1..Len(h), i < a \/ e < i PROVE h[i] = Space
      <3>1. i \notin kept
        <4> HIDE DEF kept, back
        <4>1. i \in Int /\ a \in Int /\ e \in Int
          BY <1>1, <2>6
        <4>2. QED
          BY <2>1, <2>5, <2>8, <4>1
      <3>2. QED
        BY <3>1
    <2>9. Framed(h, a, e)
      <3> HIDE DEF kept, back
      <3>1. QED
        BY <1>1, <2>6, <2>7, <2>8 DEF Framed
    <2>10. Trim(h) = SubSeq(h, a, e) /\ Len(SubSeq(h, a, e)) # 0
      <3> HIDE DEF kept, back
      <3>1. Trim(h) = SubSeq(h, a, e)
        BY <2>9, TrimOfFramed
      <3>2. a \in Int /\ e \in Int /\ \A i \in a..e : h[i] \in S
        BY <1>1, <2>6
      <3>3. Len(SubSeq(h, a, e)) = IF a <= e THEN e - a + 1 ELSE 0
        BY <3>2, SubSeqProperties
      <3>4. QED
        BY <2>7, <3>1, <3>2, <3>3
    <2>11. Trim(h) # <<>>
      BY <2>10, EmptySeq
    <2>12. QED
      BY <2>6, <2>9, <2>11
  <1>4. QED
    BY <1>2, <1>3

-----------------------------------------------------------------------------
\* What ParseRequired makes of a header.

\* Around the quotes there is white space only, and between them a decimal after zeros.
TagOf(h, v) ==
    \E a, e \in 1..Len(h) :
        /\ Framed(h, a, e) /\ a < e /\ h[a] = Quote /\ h[e] = Quote
        /\ \E z \in Nat : Padded(SubSeq(h, a + 1, e - 1), Decimal[v], z)

\* value is what h has from a to e, and text what is between the ends of value.
Piece(S, h, a, e, value, text) ==
    /\ value \in Seq(S) /\ Len(value) = e - a + 1 /\ value # <<>>
    /\ \A i \in 1..Len(value) : value[i] = h[a + i - 1]
    /\ Head(value) = h[a] /\ Last(value) = h[e]
    /\ SubSeq(value, 2, Len(value) - 1) = text
    /\ text \in Seq(S)
    /\ a < e => Len(text) = e - a - 1
    /\ \A i \in 1..e - a - 1 : text[i] = h[a + i]

LEMMA PieceOfHeader ==
    ASSUME NEW S, NEW h \in Seq(S), NEW a \in 1..Len(h), NEW e \in 1..Len(h), a <= e
    PROVE  Piece(S, h, a, e, SubSeq(h, a, e), SubSeq(h, a + 1, e - 1))
  <1> DEFINE value == SubSeq(h, a, e)
             inner == SubSeq(h, a + 1, e - 1)
             again == SubSeq(value, 2, Len(value) - 1)
  <1>1. /\ Len(h) \in Nat /\ a \in Int /\ e \in Int /\ a + 1 \in Int /\ e - 1 \in Int
        /\ \A i \in a..e : h[i] \in S
        /\ \A i \in a + 1..e - 1 : h[i] \in S
    OBVIOUS
  <1>2. /\ value \in Seq(S) /\ Len(value) = e - a + 1
        /\ \A i \in 1..Len(value) : value[i] = h[a + i - 1]
    <2>1. /\ value \in Seq(S)
          /\ Len(value) = IF a <= e THEN e - a + 1 ELSE 0
          /\ \A i \in 1..e - a + 1 : value[i] = h[a + i - 1]
      BY <1>1, SubSeqProperties
    <2> HIDE DEF value
    <2>2. QED
      BY <2>1
  <1>3. /\ inner \in Seq(S)
        /\ a < e => Len(inner) = e - a - 1
        /\ a = e => Len(inner) = 0
        /\ \A i \in 1..e - a - 1 : inner[i] = h[a + i]
    <2>1. /\ inner \in Seq(S)
          /\ Len(inner) = IF a + 1 <= e - 1 THEN (e - 1) - (a + 1) + 1 ELSE 0
          /\ \A i \in 1..(e - 1) - (a + 1) + 1 : inner[i] = h[(a + 1) + i - 1]
      BY <1>1, SubSeqProperties
    <2> HIDE DEF inner
    <2>2. QED
      BY <1>1, <2>1
  <1> HIDE DEF value
  <1>4. value # <<>> /\ Head(value) = h[a] /\ Last(value) = h[e]
    <2>1. Len(value) # 0 /\ value[1] = h[a] /\ value[Len(value)] = h[e]
      BY <1>1, <1>2
    <2>2. value # <<>>
      BY <2>1, EmptySeq
    <2>3. QED
      BY <1>2, <2>1, <2>2 DEF Last
  <1>5. again = inner
    <2>1. /\ 2 \in Int /\ Len(value) - 1 \in Int
          /\ \A i \in 2..Len(value) - 1 : value[i] \in S
      BY <1>1, <1>2
    <2>2. /\ again \in Seq(S)
          /\ Len(again) = IF 2 <= Len(value) - 1 THEN (Len(value) - 1) - 2 + 1 ELSE 0
          /\ \A i \in 1..(Len(value) - 1) - 2 + 1 : again[i] = value[2 + i - 1]
      BY <2>1, SubSeqProperties
    <2> HIDE DEF again, inner
    <2>3. Len(again) = Len(inner) /\ \A i \in 1..Len(again) : again[i] = inner[i]
      BY <1>1, <1>2, <1>3, <2>2
    <2>4. QED
      BY <1>3, <2>2, <2>3, SeqEqual
  <1>6. QED
    BY <1>2, <1>3, <1>4, <1>5 DEF value, Piece

\* A sequence is one of any elements that are all it has.
LEMMA SeqOfToSet ==
    ASSUME NEW S, NEW s \in Seq(S), NEW T
    PROVE  s \in Seq(T) <=> ToSet(s) \subseteq T
  <1>1. /\ DOMAIN s = 1..Len(s) /\ Len(s) \in Nat
        /\ s = [i \in 1..Len(s) |-> s[i]]
    BY LenProperties
  <1>2. ToSet(s) \subseteq T <=> \A i \in 1..Len(s) : s[i] \in T
    BY <1>1 DEF ToSet
  <1>3. (\A i \in 1..Len(s) : s[i] \in T) => s \in Seq(T)
    BY <1>1, SeqDef
  <1>4. s \in Seq(T) => \A i \in 1..Len(s) : s[i] \in T
    BY ElementOfSeq
  <1>5. QED
    BY <1>2, <1>3, <1>4

LEMMA Replies ==
    /\ \A v : Version(v).status = 200 /\ Version(v).version = v
    /\ \A status : Problem(status).status = status
  BY DEF Version, Problem

\* A strong tag of a version is taken for that version.
LEMMA TagIsParsed ==
    ASSUME NEW S, NEW h \in Seq(S), h # NoHeader, NEW v \in 1..MaxVersion, TagOf(h, v)
    PROVE  ParseRequired(h) = Version(v)
  <1>1. PICK a \in 1..Len(h), e \in 1..Len(h), z \in Nat :
            /\ Framed(h, a, e) /\ a < e /\ h[a] = Quote /\ h[e] = Quote
            /\ Padded(SubSeq(h, a + 1, e - 1), Decimal[v], z)
    BY DEF TagOf
  <1> DEFINE value == SubSeq(h, a, e)
             text == SubSeq(h, a + 1, e - 1)
  <1>2. /\ value \in Seq(S) /\ Len(value) = e - a + 1 /\ value # <<>>
        /\ \A i \in 1..Len(value) : value[i] = h[a + i - 1]
        /\ Head(value) = h[a] /\ Last(value) = h[e]
        /\ SubSeq(value, 2, Len(value) - 1) = text
        /\ text \in Seq(S) /\ Len(text) = e - a - 1
        /\ \A i \in 1..e - a - 1 : text[i] = h[a + i]
    <2>1. a <= e
      BY <1>1
    <2>2. Piece(S, h, a, e, value, text)
      BY <2>1, PieceOfHeader
    <2> HIDE DEF value, text
    <2>3. QED
      BY <1>1, <2>2 DEF Piece
  <1>3. Trim(h) = value
    BY <1>1, TrimOfFramed
  <1>4. v \in Nat /\ v >= 1 /\ v <= MaxVersion
    BY MaxVersionAssumption
  <1> HIDE DEF value, text
  <1>5. text \in Seq(Digit) /\ text # <<>> /\ Number[text] = v
    BY <1>1, <1>2, <1>4, PaddedDecimal DEF text
  <1>6. Len(value) >= 3
    <2>1. Len(text) # 0
      BY <1>5, EmptySeq
    <2>2. QED
      BY <1>1, <1>2, <2>1
  <1>7. value[1] = Quote /\ value[Len(value)] = Quote
    BY <1>1, <1>2, <1>6
  <1>8. ~IsPrefix(<<"W", "/">>, value)
    <2>1. SUFFICES ASSUME IsPrefix(<<"W", "/">>, value) PROVE FALSE
      OBVIOUS
    <2>2. SubSeq(<<"W", "/">>, 1, 2) = SubSeq(value, 1, 2)
      BY <2>1 DEF IsPrefix
    <2>3. SubSeq(<<"W", "/">>, 1, 2)[1] = "W"
      OBVIOUS
    <2>4. SubSeq(value, 1, 2)[1] = value[1]
      BY <1>2, <1>6
    <2>5. value[1] = "\""
      BY <1>7 DEF Quote
    <2>6. QED
      BY <2>2, <2>3, <2>4, <2>5
  <1>9. ~Contains(value, ",")
    <2>1. ASSUME NEW i \in 1..Len(value) PROVE value[i] # ","
      <3>1. CASE i = 1 \/ i = Len(value)
        <4>1. value[i] = Quote
          BY <1>7, <3>1
        <4>2. QED
          BY <4>1 DEF Quote
      <3>2. CASE i # 1 /\ i # Len(value)
        <4>1. i - 1 \in 1..Len(text) /\ a + (i - 1) = a + i - 1
          BY <1>1, <1>2, <3>2
        <4>2. value[i] = text[i - 1]
          BY <1>2, <4>1
        <4>3. text[i - 1] \in Digit
          BY <1>5, <4>1, ElementOfSeq
        <4>4. QED
          BY <4>2, <4>3, DigitTells
      <3>3. QED
        BY <3>1, <3>2
    <2>2. QED
      BY <2>1 DEF Contains
  <1>10. WellFormed(value)
    BY <1>1, <1>2, <1>6, <1>8, <1>9 DEF WellFormed
  <1>11. TryParse(text)
    <2>1. ToSet(text) \subseteq ToSet(Digits)
      BY <1>5, SeqOfToSet DEF Digit
    <2>2. QED
      BY <1>4, <1>5, <2>1 DEF TryParse
  <1>12. QED
    BY <1>2, <1>3, <1>4, <1>5, <1>10, <1>11, Zenon DEF ParseRequired

\* What is accepted is the strong tag of a version, white space only is no tag, and
\* everything else is an error of the client.
LEMMA ParseTells ==
    ASSUME NEW S, NEW h \in Seq(S), h # NoHeader
    PROVE  LET parse == ParseRequired(h)
           IN  /\ \/ /\ parse.status = 200 /\ parse = Version(parse.version)
                     /\ parse.version \in 1..MaxVersion /\ TagOf(h, parse.version)
                  \/ parse = Problem(428)
                  \/ parse = Problem(400)
               /\ parse.status = 428 <=> \A i \in 1..Len(h) : h[i] = Space
  <1>1. CASE Trim(h) = <<>>
    <2>1. ParseRequired(h) = Problem(428)
      BY <1>1 DEF ParseRequired
    <2>2. QED
      BY <1>1, <2>1, TrimTells, Replies
  <1>2. CASE Trim(h) # <<>>
    <2> DEFINE value == Trim(h)
               text == SubSeq(value, 2, Len(value) - 1)
    <2>1. ~\A i \in 1..Len(h) : h[i] = Space
      BY <1>2, TrimTells
    <2>2. ParseRequired(h) =
              IF WellFormed(value) /\ TryParse(text) /\ Number[text] >= 1
              THEN Version(Number[text])
              ELSE Problem(400)
      BY <1>2 DEF ParseRequired
    <2>3. CASE ~(WellFormed(value) /\ TryParse(text) /\ Number[text] >= 1)
      <3>1. ParseRequired(h) = Problem(400)
        BY <2>2, <2>3
      <3>2. QED
        BY <2>1, <3>1, Replies
    <2>4. CASE WellFormed(value) /\ TryParse(text) /\ Number[text] >= 1
      <3>1. ParseRequired(h) = Version(Number[text])
        BY <2>2, <2>4
      <3>2. PICK a \in 1..Len(h), e \in 1..Len(h) : Framed(h, a, e)
        BY <1>2, TrimTells
      <3>3. value = SubSeq(h, a, e) /\ a <= e
        BY <3>2, TrimOfFramed DEF Framed
      <3>4. /\ Len(value) = e - a + 1 /\ Head(value) = h[a] /\ Last(value) = h[e]
            /\ text = SubSeq(h, a + 1, e - 1) /\ text \in Seq(S)
        <4>1. Piece(S, h, a, e, value, SubSeq(h, a + 1, e - 1))
          BY <3>3, PieceOfHeader
        <4> HIDE DEF value
        <4>2. QED
          BY <4>1 DEF Piece
      <3> HIDE DEF value, text
      <3>5. /\ Len(value) >= 3 /\ h[a] = Quote /\ h[e] = Quote
            /\ text # <<>> /\ ToSet(text) \subseteq Digit /\ Number[text] <= MaxVersion
        BY <2>4, <3>4 DEF WellFormed, TryParse, Digit
      <3>6. text \in Seq(Digit)
        BY <3>4, <3>5, SeqOfToSet
      <3>7. Number[text] \in 1..MaxVersion
        BY <2>4, <3>5, <3>6, NumberTells, MaxVersionAssumption
      <3>8. \E z \in Nat : Padded(text, Decimal[Number[text]], z)
        BY <3>5, <3>6, DecimalOfNumber
      <3>9. a < e
        BY <3>2, <3>4, <3>5
      <3>10. TagOf(h, Number[text])
        BY <3>2, <3>4, <3>5, <3>8, <3>9 DEF TagOf
      <3>11. QED
        BY <2>1, <3>1, <3>7, <3>10, Replies
    <2>5. QED
      BY <2>3, <2>4
  <1>3. QED
    BY <1>1, <1>2

-----------------------------------------------------------------------------
\* What Format makes of a version.

\* A tag of a version is one of its strong tags, and no other version's.
LEMMA FormatTells ==
    \A v \in Nat :
        /\ Format(v) \in Seq({Quote} \cup Digit) /\ Format(v) # NoHeader
        /\ TagOf(Format(v), v)
        /\ \A w \in Nat : Format(w) = Format(v) => w = v
  <1> DEFINE U == {Quote} \cup Digit
  <1>1. ASSUME NEW v \in Nat
        PROVE  /\ Format(v) \in Seq(U)
               /\ Len(Format(v)) = Len(Decimal[v]) + 2 /\ Len(Decimal[v]) \in Nat \ {0}
               /\ Format(v)[1] = Quote /\ Format(v)[Len(Decimal[v]) + 2] = Quote
               /\ SubSeq(Format(v), 1 + 1, (Len(Decimal[v]) + 2) - 1) = Decimal[v]
    <2> DEFINE d == Decimal[v]
               q == <<Quote>>
               front == q \o d
               tag == front \o q
               inner == SubSeq(tag, 1 + 1, (Len(d) + 2) - 1)
    <2>1. d \in Seq(U) /\ Len(d) \in Nat \ {0}
      <3>1. d \in Seq(Digit) /\ d # <<>>
        BY NumberOfDecimal
      <3>2. d \in Seq(U)
        BY <3>1, SeqMonotonic
      <3>3. QED
        BY <3>1, <3>2, EmptySeq
    <2>2. q \in Seq(U) /\ Len(q) = 1 /\ q[1] = Quote
      OBVIOUS
    <2> HIDE DEF d, q, U
    <2>3. /\ front \in Seq(U) /\ Len(front) = Len(q) + Len(d)
          /\ \A i \in 1..Len(q) + Len(d) :
                front[i] = IF i <= Len(q) THEN q[i] ELSE d[i - Len(q)]
      BY <2>1, <2>2, ConcatProperties
    <2> HIDE DEF front
    <2>4. front \in Seq(U)
      BY <2>3
    <2>5. /\ tag \in Seq(U) /\ Len(tag) = Len(front) + Len(q)
          /\ \A i \in 1..Len(front) + Len(q) :
                tag[i] = IF i <= Len(front) THEN front[i] ELSE q[i - Len(front)]
      BY <2>2, <2>4, ConcatProperties
    <2> HIDE DEF tag
    <2>6. /\ Len(tag) = Len(d) + 2 /\ tag[1] = Quote /\ tag[Len(d) + 2] = Quote
          /\ \A i \in 1..Len(d) : tag[i + 1] = d[i]
      BY <2>1, <2>2, <2>3, <2>5
    <2>7. /\ inner \in Seq(U)
          /\ Len(inner) = Len(d)
          /\ \A i \in 1..Len(d) : inner[i] = tag[i + 1]
      <3> DEFINE first == 1 + 1
                 last == (Len(d) + 2) - 1
      <3>1. /\ first = 2 /\ last = Len(d) + 1 /\ first \in Int /\ last \in Int
            /\ \A i \in first..last : tag[i] \in U
        BY <2>1, <2>5, <2>6
      <3> HIDE DEF first, last
      <3>2. /\ SubSeq(tag, first, last) \in Seq(U)
            /\ Len(SubSeq(tag, first, last)) = IF first <= last THEN last - first + 1 ELSE 0
            /\ \A i \in 1..last - first + 1 : SubSeq(tag, first, last)[i] = tag[first + i - 1]
        BY <3>1, SubSeqProperties
      <3> DEFINE cut == SubSeq(tag, first, last)
      <3> HIDE DEF cut
      <3>3. cut \in Seq(U) /\ Len(cut) = Len(d) /\ \A i \in 1..Len(d) : cut[i] = tag[i + 1]
        BY <2>1, <3>1, <3>2 DEF cut
      <3>4. QED
        BY <3>3 DEF cut, first, last
    <2> HIDE DEF inner
    <2>8. Len(inner) = Len(d) /\ \A i \in 1..Len(inner) : inner[i] = d[i]
      BY <2>1, <2>6, <2>7
    <2>9. inner = d
      BY <2>1, <2>7, <2>8, SeqEqual
    <2>10. Format(v) = tag
      BY DEF Format, tag, front, q, d
    <2>11. QED
      BY <2>1, <2>5, <2>6, <2>9, <2>10 DEF inner, d
  <1>2. ASSUME NEW v \in Nat PROVE Format(v) # NoHeader
    BY <1>1, NoHeaderAssumption DEF Tags, Digit
  <1>3. ASSUME NEW v \in Nat PROVE TagOf(Format(v), v)
    <2> DEFINE tag == Format(v)
               e == Len(Decimal[v]) + 2
    <2>1. /\ tag \in Seq(U) /\ Len(tag) = e /\ tag[1] = Quote /\ tag[e] = Quote
          /\ SubSeq(tag, 1 + 1, e - 1) = Decimal[v] /\ Len(Decimal[v]) \in Nat \ {0}
      BY <1>1, Zenon
    <2>2. e \in Nat /\ e > 1 /\ 1 \in 1..e /\ e \in 1..e
      BY <2>1
    <2> HIDE DEF tag, e
    <2>3. Quote # Space
      BY DEF Quote, Space
    <2>4. Framed(tag, 1, e)
      BY <2>1, <2>2, <2>3 DEF Framed
    <2>5. Padded(SubSeq(tag, 1 + 1, e - 1), Decimal[v], 0)
      <3>1. Len(Decimal[v]) \in Nat
        BY <1>1
      <3>2. Padded(Decimal[v], Decimal[v], 0)
        BY <3>1 DEF Padded
      <3>3. QED
        BY <2>1, <3>2
    <2>6. TagOf(tag, v)
      BY <2>1, <2>2, <2>4, <2>5 DEF TagOf
    <2>7. QED
      BY <2>6 DEF tag
  <1>4. ASSUME NEW v \in Nat, NEW w \in Nat, Format(w) = Format(v) PROVE w = v
    <2>1. Decimal[w] = Decimal[v]
      BY <1>1, <1>4, Zenon
    <2>2. QED
      BY <2>1, NumberOfDecimal, Zenon
  <1>5. QED
    BY <1>1, <1>2, <1>3, <1>4

\* The tag of a version, sent back, is that version again.
LEMMA FormatIsParsed ==
    ASSUME NEW v \in 1..MaxVersion
    PROVE  ParseRequired(Format(v)) = Version(v)
  <1>1. v \in Nat
    BY MaxVersionAssumption
  <1>2. QED
    BY <1>1, FormatTells, TagIsParsed
=============================================================================
