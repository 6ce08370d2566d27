----------------------------- MODULE IfMatchProofs -----------------------------
(***************************************************************************)
(* What ParseRequired makes of every header a client may send, of any       *)
(* length and any letters, and for any largest version.                     *)
(***************************************************************************)
EXTENDS IfMatch, EntityTagProofs

-----------------------------------------------------------------------------
\* IsStrongTag, place by place.

\* The six parts of a strong tag, one after the other.
Layout(before, zeros, digits, after) ==
    [i \in 1..before |-> Space] \o <<Quote>> \o [i \in 1..zeros |-> "0"] \o digits \o <<Quote>>
        \o [i \in 1..after |-> Space]

\* The letters of tags.
TagLetter == {Space, Quote, "0"} \cup Digit

\* A part more.
LEMMA PartAppended ==
    ASSUME NEW s \in Seq(TagLetter), NEW t \in Seq(TagLetter)
    PROVE  /\ s \o t \in Seq(TagLetter) /\ Len(s \o t) = Len(s) + Len(t)
           /\ \A i \in 1..Len(s) : (s \o t)[i] = s[i]
           /\ \A i \in Len(s) + 1..Len(s) + Len(t) : (s \o t)[i] = t[i - Len(s)]
  <1> DEFINE st == s \o t
  <1>1. /\ st \in Seq(TagLetter) /\ Len(st) = Len(s) + Len(t)
        /\ \A i \in 1..Len(s) + Len(t) : st[i] = IF i <= Len(s) THEN s[i] ELSE t[i - Len(s)]
    BY ConcatProperties
  <1>2. Len(s) \in Nat /\ Len(t) \in Nat
    OBVIOUS
  <1> HIDE DEF st
  <1>3. /\ \A i \in 1..Len(s) : st[i] = s[i]
        /\ \A i \in Len(s) + 1..Len(s) + Len(t) : st[i] = t[i - Len(s)]
    BY <1>1, <1>2
  <1>4. QED
    BY <1>1, <1>3 DEF st

LEMMA RepeatTells ==
    ASSUME NEW n \in Nat, NEW letter \in TagLetter
    PROVE  LET s == [i \in 1..n |-> letter]
           IN  s \in Seq(TagLetter) /\ Len(s) = n /\ \A i \in 1..n : s[i] = letter
  <1> DEFINE s == [i \in 1..n |-> letter]
  <1>1. s \in [1..n -> TagLetter]
    OBVIOUS
  <1>2. s \in Seq(TagLetter) /\ DOMAIN s = 1..n
    BY <1>1, SeqDef
  <1>3. Len(s) = n
    <2> HIDE DEF s
    <2>1. DOMAIN s = 1..Len(s) /\ Len(s) \in Nat
      BY <1>2, LenProperties
    <2>2. QED
      BY <1>2, <2>1
  <1>4. QED
    BY <1>2, <1>3

\* What is at each place of a tag.
LaidOut(tag, before, zeros, digits, after) ==
    LET n == Len(digits)
    IN  /\ Len(tag) = before + zeros + n + after + 2
        /\ \A i \in 1..before : tag[i] = Space
        /\ tag[before + 1] = Quote
        /\ \A i \in before + 2..before + 1 + zeros : tag[i] = "0"
        /\ \A i \in before + zeros + 2..before + zeros + 1 + n :
              tag[i] = digits[i - (before + zeros + 1)]
        /\ tag[before + zeros + n + 2] = Quote
        /\ \A i \in before + zeros + n + 3..before + zeros + n + after + 2 : tag[i] = Space

LEMMA LayoutTells ==
    ASSUME NEW before \in Nat, NEW zeros \in Nat, NEW digits \in Seq(Digit), NEW after \in Nat
    PROVE  /\ Layout(before, zeros, digits, after) \in Seq(TagLetter)
           /\ LaidOut(Layout(before, zeros, digits, after), before, zeros, digits, after)
  <1> DEFINE b == [i \in 1..before |-> Space]
             q == <<Quote>>
             z == [i \in 1..zeros |-> "0"]
             a == [i \in 1..after |-> Space]
             bq == b \o q
             bqz == bq \o z
             bqzd == bqz \o digits
             bqzdq == bqzd \o q
             tag == bqzdq \o a
             n == Len(digits)
  <1>1. Space \in TagLetter /\ Quote \in TagLetter /\ "0" \in TagLetter /\ Digit \subseteq TagLetter
    BY DEF TagLetter
  <1>2. /\ b \in Seq(TagLetter) /\ Len(b) = before /\ \A i \in 1..before : b[i] = Space
        /\ z \in Seq(TagLetter) /\ Len(z) = zeros /\ \A i \in 1..zeros : z[i] = "0"
        /\ a \in Seq(TagLetter) /\ Len(a) = after /\ \A i \in 1..after : a[i] = Space
    BY <1>1, RepeatTells
  <1>3. q \in Seq(TagLetter) /\ Len(q) = 1 /\ q[1] = Quote
    BY <1>1
  <1>4. digits \in Seq(TagLetter) /\ n \in Nat
    BY <1>1, SeqMonotonic
  <1> HIDE DEF b, q, z, a, n
  <1>5. /\ bq \in Seq(TagLetter) /\ Len(bq) = before + 1
        /\ \A i \in 1..before : bq[i] = Space
        /\ bq[before + 1] = Quote
    <2>1. /\ bq \in Seq(TagLetter) /\ Len(bq) = Len(b) + Len(q)
          /\ \A i \in 1..Len(b) : bq[i] = b[i]
          /\ \A i \in Len(b) + 1..Len(b) + Len(q) : bq[i] = q[i - Len(b)]
      BY <1>2, <1>3, PartAppended
    <2> HIDE DEF bq
    <2>2. QED
      BY <1>2, <1>3, <2>1
  <1> HIDE DEF bq
  <1>6. /\ bqz \in Seq(TagLetter) /\ Len(bqz) = before + 1 + zeros
        /\ \A i \in 1..before : bqz[i] = Space
        /\ bqz[before + 1] = Quote
        /\ \A i \in before + 2..before + 1 + zeros : bqz[i] = "0"
    <2>1. /\ bqz \in Seq(TagLetter) /\ Len(bqz) = Len(bq) + Len(z)
          /\ \A i \in 1..Len(bq) : bqz[i] = bq[i]
          /\ \A i \in Len(bq) + 1..Len(bq) + Len(z) : bqz[i] = z[i - Len(bq)]
      BY <1>2, <1>5, PartAppended
    <2> HIDE DEF bqz
    <2>2. QED
      BY <1>2, <1>5, <2>1
  <1> HIDE DEF bqz
  <1>7. /\ bqzd \in Seq(TagLetter) /\ Len(bqzd) = before + 1 + zeros + n
        /\ \A i \in 1..before : bqzd[i] = Space
        /\ bqzd[before + 1] = Quote
        /\ \A i \in before + 2..before + 1 + zeros : bqzd[i] = "0"
        /\ \A i \in before + zeros + 2..before + zeros + 1 + n :
              bqzd[i] = digits[i - (before + zeros + 1)]
    <2>1. /\ bqzd \in Seq(TagLetter) /\ Len(bqzd) = Len(bqz) + Len(digits)
          /\ \A i \in 1..Len(bqz) : bqzd[i] = bqz[i]
          /\ \A i \in Len(bqz) + 1..Len(bqz) + Len(digits) : bqzd[i] = digits[i - Len(bqz)]
      BY <1>4, <1>6, PartAppended
    <2> HIDE DEF bqzd
    <2>2. QED
      BY <1>4, <1>6, <2>1 DEF n
  <1> HIDE DEF bqzd
  <1>8. /\ bqzdq \in Seq(TagLetter) /\ Len(bqzdq) = before + 1 + zeros + n + 1
        /\ \A i \in 1..before : bqzdq[i] = Space
        /\ bqzdq[before + 1] = Quote
        /\ \A i \in before + 2..before + 1 + zeros : bqzdq[i] = "0"
        /\ \A i \in before + zeros + 2..before + zeros + 1 + n :
              bqzdq[i] = digits[i - (before + zeros + 1)]
        /\ bqzdq[before + zeros + n + 2] = Quote
    <2>1. /\ bqzdq \in Seq(TagLetter) /\ Len(bqzdq) = Len(bqzd) + Len(q)
          /\ \A i \in 1..Len(bqzd) : bqzdq[i] = bqzd[i]
          /\ \A i \in Len(bqzd) + 1..Len(bqzd) + Len(q) : bqzdq[i] = q[i - Len(bqzd)]
      BY <1>3, <1>7, PartAppended
    <2> HIDE DEF bqzdq
    <2>2. QED
      BY <1>3, <1>4, <1>7, <2>1
  <1> HIDE DEF bqzdq
  <1>9. /\ tag \in Seq(TagLetter) /\ Len(tag) = before + zeros + n + after + 2
        /\ \A i \in 1..before : tag[i] = Space
        /\ tag[before + 1] = Quote
        /\ \A i \in before + 2..before + 1 + zeros : tag[i] = "0"
        /\ \A i \in before + zeros + 2..before + zeros + 1 + n :
              tag[i] = digits[i - (before + zeros + 1)]
        /\ tag[before + zeros + n + 2] = Quote
        /\ \A i \in before + zeros + n + 3..before + zeros + n + after + 2 : tag[i] = Space
    <2>1. /\ tag \in Seq(TagLetter) /\ Len(tag) = Len(bqzdq) + Len(a)
          /\ \A i \in 1..Len(bqzdq) : tag[i] = bqzdq[i]
          /\ \A i \in Len(bqzdq) + 1..Len(bqzdq) + Len(a) : tag[i] = a[i - Len(bqzdq)]
      BY <1>2, <1>8, PartAppended
    <2> HIDE DEF tag
    <2>2. QED
      BY <1>2, <1>4, <1>8, <2>1
  <1> HIDE DEF tag
  <1>10. tag = Layout(before, zeros, digits, after)
    BY DEF Layout, tag, bqzdq, bqzd, bqz, bq, b, q, z, a
  <1>11. QED
    BY <1>9, <1>10 DEF n, LaidOut

\* IsStrongTag says where the quotes, the zeros and the decimal are.
LEMMA StrongTagIsTag ==
    ASSUME NEW S, NEW h \in Seq(S), NEW v \in Nat, IsStrongTag(h, v)
    PROVE  TagOf(h, v)
  <1> DEFINE n == Len(Decimal[v])
  <1>1. Decimal[v] \in Seq(Digit) /\ n \in Nat \ {0} /\ Len(h) \in Nat
    BY NumberOfDecimal, EmptySeq
  <1>2. PICK before \in 0..Len(h), zeros \in 0..Len(h) :
            LET after == Len(h) - before - zeros - n - 2
            IN  after >= 0 /\ h = Layout(before, zeros, Decimal[v], after)
    BY DEF IsStrongTag, Layout
  <1> DEFINE after == Len(h) - before - zeros - n - 2
             a == before + 1
             e == before + zeros + n + 2
  <1>3. before \in Nat /\ zeros \in Nat /\ after \in Nat
    BY <1>1, <1>2
  <1>4. LaidOut(h, before, zeros, Decimal[v], after)
    <2>1. h = Layout(before, zeros, Decimal[v], after)
      BY <1>2
    <2> HIDE DEF after
    <2>2. QED
      BY <1>1, <1>3, <2>1, LayoutTells
  <1>5. /\ Len(h) = before + zeros + n + after + 2
        /\ \A i \in 1..before : h[i] = Space
        /\ h[a] = Quote /\ h[e] = Quote
        /\ \A i \in before + 2..before + 1 + zeros : h[i] = "0"
        /\ \A i \in before + zeros + 2..before + zeros + 1 + n :
              h[i] = Decimal[v][i - (before + zeros + 1)]
        /\ \A i \in e + 1..Len(h) : h[i] = Space
    <2> HIDE DEF after
    <2>1. /\ Len(h) = before + zeros + n + after + 2
          /\ \A i \in 1..before : h[i] = Space
          /\ h[before + 1] = Quote /\ h[before + zeros + n + 2] = Quote
          /\ \A i \in before + 2..before + 1 + zeros : h[i] = "0"
          /\ \A i \in before + zeros + 2..before + zeros + 1 + n :
                h[i] = Decimal[v][i - (before + zeros + 1)]
          /\ \A i \in before + zeros + n + 3..before + zeros + n + after + 2 : h[i] = Space
      BY <1>4 DEF LaidOut
    <2> HIDE DEF n
    <2>2. /\ e + 1 = before + zeros + n + 3
          /\ before + zeros + n + after + 2 = Len(h)
      BY <1>1, <1>3, <2>1
    <2>3. \A i \in e + 1..Len(h) : h[i] = Space
      <3> HIDE DEF e
      <3>1. QED
        BY <2>1, <2>2
    <2>4. QED
      BY <2>1, <2>3
  <1> HIDE DEF n, after
  <1>6. a \in 1..Len(h) /\ e \in 1..Len(h) /\ a < e /\ a <= e
    BY <1>1, <1>3, <1>5
  <1>7. Framed(h, a, e)
    <2>1. Quote # Space
      BY DEF Quote, Space
    <2>2. QED
      BY <1>1, <1>3, <1>5, <1>6, <2>1 DEF Framed
  <1>8. Padded(SubSeq(h, a + 1, e - 1), Decimal[v], zeros)
    <2> DEFINE text == SubSeq(h, a + 1, e - 1)
    <2>1. Piece(S, h, a, e, SubSeq(h, a, e), text)
      <3> HIDE DEF a, e
      <3>1. QED
        BY <1>6, PieceOfHeader
    <2> HIDE DEF text
    <2>2. Len(text) = zeros + n /\ \A i \in 1..zeros + n : text[i] = h[a + i]
      <3>1. e - a - 1 = zeros + n
        BY <1>1, <1>3
      <3> HIDE DEF a, e
      <3>2. Len(text) = e - a - 1 /\ \A i \in 1..e - a - 1 : text[i] = h[a + i]
        BY <1>6, <2>1 DEF Piece
      <3>3. QED
        BY <3>1, <3>2
    <2>3. ASSUME NEW i \in 1..zeros PROVE text[i] = "0"
      <3>1. text[i] = h[a + i]
        BY <1>1, <1>3, <2>2
      <3>2. a + i \in before + 2..before + 1 + zeros
        BY <1>1, <1>3
      <3>3. QED
        BY <1>5, <3>1, <3>2
    <2>4. ASSUME NEW i \in 1..n PROVE text[zeros + i] = Decimal[v][i]
      <3>1. text[zeros + i] = h[a + (zeros + i)]
        BY <1>1, <1>3, <2>2
      <3>2. /\ a + (zeros + i) \in before + zeros + 2..before + zeros + 1 + n
            /\ a + (zeros + i) - (before + zeros + 1) = i
        BY <1>1, <1>3
      <3>3. QED
        BY <1>5, <3>1, <3>2
    <2>5. Padded(text, Decimal[v], zeros)
      BY <2>2, <2>3, <2>4 DEF Padded, n
    <2>6. QED
      BY <2>5 DEF text
  <1>9. QED
    <2> HIDE DEF a, e
    <2>1. QED
      BY <1>3, <1>5, <1>6, <1>7, <1>8 DEF TagOf

LEMMA TagIsStrongTag ==
    ASSUME NEW S, NEW h \in Seq(S), NEW v \in Nat, TagOf(h, v)
    PROVE  IsStrongTag(h, v)
  <1> DEFINE n == Len(Decimal[v])
  <1>1. Decimal[v] \in Seq(Digit) /\ n \in Nat \ {0} /\ Len(h) \in Nat
    BY NumberOfDecimal, EmptySeq
  <1>2. PICK a \in 1..Len(h), e \in 1..Len(h), zeros \in Nat :
            /\ Framed(h, a, e) /\ a < e /\ h[a] = Quote /\ h[e] = Quote
            /\ Padded(SubSeq(h, a + 1, e - 1), Decimal[v], zeros)
    BY DEF TagOf
  <1> DEFINE before == a - 1
             after == Len(h) - before - zeros - n - 2
             text == SubSeq(h, a + 1, e - 1)
             tag == Layout(before, zeros, Decimal[v], after)
  <1>3. /\ Len(text) = e - a - 1 /\ \A i \in 1..e - a - 1 : text[i] = h[a + i]
    <2>1. Piece(S, h, a, e, SubSeq(h, a, e), text)
      <3>1. a <= e
        BY <1>2
      <3>2. QED
        BY <3>1, PieceOfHeader
    <2> HIDE DEF text
    <2>2. QED
      BY <1>2, <2>1 DEF Piece
  <1>4. /\ Len(text) = zeros + n
        /\ \A i \in 1..zeros : text[i] = "0"
        /\ \A i \in 1..n : text[zeros + i] = Decimal[v][i]
    BY <1>2 DEF Padded
  <1> HIDE DEF text, n
  <1>5. /\ e = a + zeros + n + 1 /\ before \in Nat /\ after = Len(h) - e /\ after \in Nat
        /\ before \in 0..Len(h) /\ zeros \in 0..Len(h)
    <2>1. e - a - 1 = zeros + n
      BY <1>3, <1>4
    <2>2. QED
      BY <1>1, <1>2, <2>1
  <1>6. LaidOut(h, before, zeros, Decimal[v], after)
    <2>1. Len(h) = before + zeros + n + after + 2
      BY <1>1, <1>5
    <2>2. /\ \A i \in 1..before : h[i] = Space
          /\ h[before + 1] = Quote /\ h[before + zeros + n + 2] = Quote
      BY <1>1, <1>2, <1>5 DEF Framed
    <2>3. \A i \in before + zeros + n + 3..before + zeros + n + after + 2 : h[i] = Space
      BY <1>1, <1>2, <1>5, <2>1 DEF Framed
    <2>4. ASSUME NEW i \in before + 2..before + 1 + zeros PROVE h[i] = "0"
      <3>1. i - a \in 1..zeros /\ i - a \in 1..e - a - 1 /\ a + (i - a) = i
        BY <1>1, <1>5
      <3>2. QED
        BY <1>3, <1>4, <3>1
    <2>5. ASSUME NEW i \in before + zeros + 2..before + zeros + 1 + n
          PROVE  h[i] = Decimal[v][i - (before + zeros + 1)]
      <3> DEFINE j == i - (before + zeros + 1)
      <3>1. j \in 1..n /\ zeros + j \in 1..e - a - 1 /\ a + (zeros + j) = i
        BY <1>1, <1>5
      <3> HIDE DEF j
      <3>2. text[zeros + j] = Decimal[v][j] /\ text[zeros + j] = h[i]
        BY <1>3, <1>4, <3>1
      <3>3. QED
        BY <3>2 DEF j
    <2> HIDE DEF before, after
    <2>6. QED
      BY <2>1, <2>2, <2>3, <2>4, <2>5 DEF LaidOut, n
  <1>7. h = tag
    <2> HIDE DEF before, after
    <2>1. tag \in Seq(TagLetter) /\ LaidOut(tag, before, zeros, Decimal[v], after)
      BY <1>1, <1>5, LayoutTells
    <2> HIDE DEF tag
    <2>2. Len(h) = Len(tag) /\ Len(h) = before + zeros + n + after + 2
      BY <1>6, <2>1 DEF LaidOut, n
    <2>3. ASSUME NEW i \in 1..Len(h) PROVE h[i] = tag[i]
      <3>1. CASE i \in 1..before
        BY <1>6, <2>1, <3>1 DEF LaidOut
      <3>2. CASE i = before + 1
        BY <1>6, <2>1, <3>2 DEF LaidOut
      <3>3. CASE i \in before + 2..before + 1 + zeros
        BY <1>6, <2>1, <3>3 DEF LaidOut
      <3>4. CASE i \in before + zeros + 2..before + zeros + 1 + n
        BY <1>6, <2>1, <3>4 DEF LaidOut, n
      <3>5. CASE i = before + zeros + n + 2
        BY <1>6, <2>1, <3>5 DEF LaidOut, n
      <3>6. CASE i \in before + zeros + n + 3..before + zeros + n + after + 2
        BY <1>6, <2>1, <3>6 DEF LaidOut, n
      <3>7. \/ i \in 1..before \/ i = before + 1
            \/ i \in before + 2..before + 1 + zeros
            \/ i \in before + zeros + 2..before + zeros + 1 + n
            \/ i = before + zeros + n + 2
            \/ i \in before + zeros + n + 3..before + zeros + n + after + 2
        BY <1>1, <1>5, <2>2
      <3>8. QED
        BY <3>1, <3>2, <3>3, <3>4, <3>5, <3>6, <3>7
    <2>4. h \in Seq(S \cup TagLetter) /\ tag \in Seq(S \cup TagLetter)
      BY <2>1, SeqMonotonic
    <2>5. QED
      BY <2>2, <2>3, <2>4, SeqEqual
  <1>8. QED
    <2>1. after >= 0
      BY <1>5
    <2>2. QED
      BY <1>5, <1>7, <2>1 DEF IsStrongTag, Layout, n

-----------------------------------------------------------------------------
\* The inductive invariant: the request has a header or none, and what was made of it is
\* what ParseRequired makes of it.
IInv ==
    /\ ifMatch # NoHeader => ifMatch \in Seq(ToSet(ifMatch))
    /\ parsed = Unparsed \/ parsed = ParseRequired(ifMatch)

LEMMA Invariance == Spec => []IInv
  <1>1. Init => IInv
    <2>1. ASSUME NEW v \in 1..MaxVersion PROVE Format(v) \in Seq(ToSet(Format(v)))
      <3>1. v \in Nat
        BY MaxVersionAssumption
      <3>2. QED
        BY <3>1, FormatTells, SeqOfToSet
    <2>2. QED
      BY <2>1, HeadersAssumption DEF Init, IInv
  <1>2. IInv /\ [Next]_vars => IInv'
    BY DEF IInv, Next, Parse, vars
  <1>3. QED
    BY <1>1, <1>2, PTL DEF Spec

\* The class supports exactly one strong tag (EntityTagVersion, line 7): what is accepted
\* is the tag of a version, a request without a tag is a 428, and no tag of a version is a
\* 400.
THEOREM OnlyOneStrongTag == Spec => []OneStrongTag
  <1>1. ASSUME IInv, parsed # Unparsed, NEW S, ifMatch # NoHeader, ifMatch \in Seq(S)
        PROVE  /\ parsed.status = 200 =>
                     parsed.version \in 1..MaxVersion /\ IsStrongTag(ifMatch, parsed.version)
               /\ parsed.status = 428 <=> ToSet(ifMatch) \subseteq {Space}
               /\ parsed.status = 400 =>
                     \A version \in 1..MaxVersion : ~IsStrongTag(ifMatch, version)
    <2> DEFINE h == ifMatch
    <2>1. parsed = ParseRequired(h)
      BY <1>1 DEF IInv
    <2>2. /\ \/ /\ parsed.status = 200 /\ parsed = Version(parsed.version)
                /\ parsed.version \in 1..MaxVersion /\ TagOf(h, parsed.version)
             \/ parsed = Problem(428)
             \/ parsed = Problem(400)
          /\ parsed.status = 428 <=> \A i \in 1..Len(h) : h[i] = Space
      BY <1>1, <2>1, ParseTells
    <2>3. 1..MaxVersion \subseteq Nat
      BY MaxVersionAssumption
    <2>4. parsed.status = 200 =>
              parsed.version \in 1..MaxVersion /\ IsStrongTag(h, parsed.version)
      BY <1>1, <2>2, <2>3, Replies, TagIsStrongTag
    <2>5. ToSet(h) \subseteq {Space} <=> \A i \in 1..Len(h) : h[i] = Space
      <3>1. DOMAIN h = 1..Len(h)
        BY <1>1
      <3>2. QED
        BY <3>1 DEF ToSet
    <2>6. ASSUME parsed.status = 400, NEW version \in 1..MaxVersion, IsStrongTag(h, version)
          PROVE  FALSE
      <3>1. TagOf(h, version)
        BY <1>1, <2>3, <2>6, StrongTagIsTag
      <3>2. parsed = Version(version)
        BY <1>1, <2>1, <3>1, TagIsParsed
      <3>3. QED
        BY <2>6, <3>2, Replies
    <2>7. QED
      BY <2>2, <2>4, <2>5, <2>6
  <1>2. IInv => OneStrongTag
    <2> SUFFICES ASSUME IInv, parsed # Unparsed
                 PROVE  /\ parsed.status = 200 =>
                              /\ parsed.version \in 1..MaxVersion
                              /\ IsStrongTag(ifMatch, parsed.version)
                        /\ parsed.status = 428 <=>
                              ifMatch = NoHeader \/ ToSet(ifMatch) \subseteq {Space}
                        /\ parsed.status = 400 =>
                              \A version \in 1..MaxVersion : ~IsStrongTag(ifMatch, version)
      BY DEF OneStrongTag
    <2>1. CASE ifMatch = NoHeader
      <3>1. parsed = Problem(428)
        BY <2>1 DEF IInv, ParseRequired
      <3>2. QED
        BY <2>1, <3>1, Replies
    <2>2. CASE ifMatch # NoHeader
      BY <1>1, <2>2 DEF IInv
    <2>3. QED
      BY <2>1, <2>2
  <1>3. QED
    BY <1>2, Invariance, PTL

\* The tag of every version, sent back, is that version again: Format and ParseRequired
\* of EntityTagVersion are inverse.
THEOREM TagsComeBack == Spec => []RoundTrip
  <1>1. IInv => RoundTrip
    BY FormatIsParsed DEF IInv, RoundTrip
  <1>2. QED
    BY <1>1, Invariance, PTL
=============================================================================
