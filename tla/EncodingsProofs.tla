--------------------------- MODULE EncodingsProofs ---------------------------
(***************************************************************************)
(* What the contracts, clients and signers encode is read back by the      *)
(* decoders of the formats, whatever it is: CBOR, RLP and the calldata     *)
(* public key.                                                             *)
(***************************************************************************)
EXTENDS AlgorithmsProofs

(***************************************************************************)
(* The CBOR decoder on what the contracts write.  Items are told by the    *)
(* bytes they are made of, wherever these stand among others; so what is   *)
(* written piece by piece is read piece by piece.                          *)
(***************************************************************************)

\* The value of a word, byte after byte.
UpToByte(word, f, m) == f[0] = 0 /\ \A n \in 1..m : f[n] = 256 * f[n - 1] + word[n]

LEMMA ValueBytes ==
  ASSUME NEW word \in Seq(Nat)
  PROVE  \E f : Value(word) = f[Len(word)] /\ UpToByte(word, f, Len(word))
<1> DEFINE len == Len(word)
           Is(f) == f = [n \in 0..len |-> IF n = 0 THEN 0 ELSE 256 * f[n - 1] + word[n]]
           upTo == CHOOSE f : Is(f)
           Known(m) == m <= len => \E f : UpToByte(word, f, m)
           unknown == {m \in Nat : ~ Known(m)}
<1>1. Value(word) = upTo[len]
  BY DEF Value
<1>2. len \in Nat
  OBVIOUS
<1>3. Known(0)
  <2> DEFINE f == [n \in 0..0 |-> 0]
  <2>1. UpToByte(word, f, 0)
    BY DEF UpToByte
  <2>. QED BY <2>1
<1>4. ASSUME NEW m \in Nat, Known(m), m + 1 <= len
      PROVE  Known(m + 1)
  <2>1. PICK f : UpToByte(word, f, m)
    BY <1>2, <1>4
  <2> DEFINE g == [n \in 0..(m + 1) |-> IF n = m + 1 THEN 256 * f[m] + word[m + 1] ELSE f[n]]
  <2>2. g[m + 1] = 256 * f[m] + word[m + 1] /\ \A n \in 0..m : g[n] = f[n]
    OBVIOUS
  <2> HIDE DEF g
  <2>3. ASSUME NEW n \in 1..(m + 1) PROVE g[n] = 256 * g[n - 1] + word[n]
    <3>1. CASE n = m + 1
      <4>1. n - 1 = m /\ m \in 0..m
        BY <3>1
      <4>. QED BY <2>2, <3>1, <4>1
    <3>2. CASE n # m + 1
      <4>1. n \in 1..m /\ n \in 0..m /\ n - 1 \in 0..m
        BY <3>2
      <4>. QED BY <2>1, <2>2, <4>1, ZenonT(30) DEF UpToByte
    <3>. QED BY <3>1, <3>2
  <2>4. g[0] = 0
    <3>1. 0 \in 0..m
      OBVIOUS
    <3>. QED BY <2>1, <2>2, <3>1 DEF UpToByte
  <2>5. UpToByte(word, g, m + 1)
    BY <2>3, <2>4 DEF UpToByte
  <2>. QED BY <2>5
<1>5. unknown = {}
  <2> HIDE DEF Known
  <2>1. SUFFICES ASSUME unknown # {} PROVE FALSE
    OBVIOUS
  <2>2. PICK least \in unknown : \A m \in unknown : least <= m
    BY <2>1, Smallest
  <2>3. least \in Nat /\ ~ Known(least)
    BY <2>2
  <2>4. least # 0 /\ least - 1 \in Nat /\ ~ (least <= least - 1) /\ (least - 1) + 1 = least
    BY <1>3, <2>3
  <2>5. Known(least - 1)
    BY <2>2, <2>4
  <2>6. ~ (least <= len)
    BY <1>4, <2>3, <2>4, <2>5
  <2>. QED BY <2>3, <2>6 DEF Known
<1>6. PICK f : UpToByte(word, f, len)
  <2>1. Known(len)
    <3> HIDE DEF Known, len
    <3>. QED BY <1>2, <1>5
  <2>. QED BY <1>2, <2>1
<1>7. \E g : Is(g)
  <2> DEFINE g == [n \in 0..len |-> f[n]]
  <2>1. \A n \in 0..len : g[n] = IF n = 0 THEN 0 ELSE 256 * g[n - 1] + word[n]
    <3>1. \A n \in 0..len : g[n] = f[n]
      OBVIOUS
    <3> HIDE DEF g
    <3>2. ASSUME NEW n \in 0..len, n # 0 PROVE g[n] = 256 * g[n - 1] + word[n]
      <4>1. n \in 1..len /\ n - 1 \in 0..len
        BY <1>2, <3>2
      <4>. QED BY <1>6, <3>1, <4>1, ZenonT(30) DEF UpToByte
    <3>3. 0 \in 0..len
      BY <1>2
    <3>. QED BY <1>6, <3>1, <3>2, <3>3 DEF UpToByte
  <2>2. Is(g)
    BY <2>1
  <2>. QED BY <2>2
<1>8. Is(upTo)
  <2> HIDE DEF Is
  <2>. QED BY <1>7
<1> HIDE DEF upTo
<1>9. UpToByte(word, upTo, len)
  <2>1. \A n \in 0..len : upTo[n] = IF n = 0 THEN 0 ELSE 256 * upTo[n - 1] + word[n]
    BY <1>8
  <2>. QED BY <1>2, <2>1 DEF UpToByte
<1>. QED BY <1>1, <1>9

LEMMA ValueIsNat ==
  ASSUME NEW word \in Seq(Nat)
  PROVE  Value(word) \in Nat
<1>1. PICK f : Value(word) = f[Len(word)] /\ UpToByte(word, f, Len(word))
  BY ValueBytes
<1> DEFINE len == Len(word)
           wrong == {m \in Nat : m <= len /\ f[m] \notin Nat}
<1>2. len \in Nat /\ \A n \in 1..len : word[n] \in Nat
  OBVIOUS
<1>3. wrong = {}
  <2>1. SUFFICES ASSUME wrong # {} PROVE FALSE
    OBVIOUS
  <2>2. PICK least \in wrong : \A m \in wrong : least <= m
    BY <2>1, Smallest
  <2>3. least \in Nat /\ least <= len /\ f[least] \notin Nat
    BY <2>2
  <2>4. least # 0
    BY <1>1, <2>3 DEF UpToByte
  <2>5. least - 1 \in Nat /\ ~ (least <= least - 1) /\ least - 1 <= len /\ least \in 1..len
    BY <1>2, <2>3, <2>4
  <2>6. f[least - 1] \in Nat
    BY <2>2, <2>5
  <2>7. f[least] = 256 * f[least - 1] + word[least]
    BY <1>1, <2>5 DEF UpToByte
  <2>. QED BY <1>2, <2>3, <2>5, <2>6, <2>7
<1>. QED BY <1>1, <1>2, <1>3

\* An item ends after the offset where it starts, at the last byte or before it.
Ends(item, from, to) == item = NoItem \/ item.end \in from..to

LEMMA HeadEnds ==
  ASSUME NEW bytes \in Seq(Nat), NEW offset \in Nat, offset < Len(bytes)
  PROVE  LET head == CborHead(bytes, offset)
         IN  head = NoItem \/ (head.end \in (offset + 1)..Len(bytes) /\ Value(head.value) \in Nat)
<1> DEFINE info == bytes[offset + 1] % 32
           width == <<1, 2, 4, 8>>[info - 23]
           word == Word(Slice(bytes, offset + 1, width))
<1>1. Len(bytes) \in Nat /\ info \in Nat
  <2>1. offset + 1 \in 1..Len(bytes)
    OBVIOUS
  <2>2. bytes[offset + 1] \in Nat
    BY <2>1
  <2>. QED BY <2>2
<1>2. CborHead(bytes, offset) =
        IF info <= 23 THEN CborItem("head", Word(<<info>>), offset + 1)
        ELSE IF info <= 27 /\ offset + width < Len(bytes) /\ Shortest(word, width)
        THEN CborItem("head", word, offset + 1 + width)
        ELSE NoItem
  BY DEF CborHead
<1>3. info \in 24..27 => width \in 1..8
  <2>1. ASSUME NEW i \in 1..4 PROVE <<1, 2, 4, 8>>[i] \in 1..8
    BY Widths
  <2>2. info \in 24..27 => info - 23 \in 1..4
    OBVIOUS
  <2> HIDE DEF info
  <2>. QED BY <2>1, <2>2
<1> HIDE DEF info
<1>4. \A kind, value, end : CborItem(kind, value, end).end = end /\ CborItem(kind, value, end).value = value
  BY DEF CborItem
<1>5. CASE info <= 23
  <2>1. Word(<<info>>) \in Seq(Nat)
    BY <1>1, SmallWords DEF Canonical
  <2>2. Value(Word(<<info>>)) \in Nat /\ offset + 1 \in (offset + 1)..Len(bytes)
    BY <1>1, <2>1, ValueIsNat
  <2>. QED BY <1>2, <1>4, <1>5, <2>2
<1>6. CASE ~ (info <= 23) /\ info <= 27 /\ offset + width < Len(bytes) /\ Shortest(word, width)
  <2>1. width \in Nat /\ offset + 1 \in Nat
    BY <1>1, <1>3, <1>6, SMTT(30)
  <2> HIDE DEF width
  <2>2. offset + 1 + width <= Len(bytes)
    BY <1>1, <1>6, <2>1
  <2>3. Slice(bytes, offset + 1, width) \in Seq(Nat)
    BY <2>1, <2>2, PartOf DEF Slice
  <2>4. word \in Seq(Nat)
    BY <2>3, WordIsCanonical DEF Canonical
  <2> HIDE DEF word
  <2>5. Value(word) \in Nat /\ offset + 1 + width \in (offset + 1)..Len(bytes)
    BY <1>1, <2>1, <2>2, <2>4, ValueIsNat
  <2>. QED BY <1>2, <1>4, <1>6, <2>5
<1> HIDE DEF word, width
<1>. QED BY <1>2, <1>5, <1>6

\* Two tables of contents that agree beyond an offset.
AgreeBeyond(f, g, offset, len) ==
  \A o \in (offset + 1)..len, n \in 0..len : f[o][n] = g[o][n] /\ Ends(f[o][n], o, len)

\* The item at an offset depends on what comes after it only.
LEMMA DecodeAhead ==
  ASSUME NEW bytes \in Seq(Nat), NEW offset \in Nat, NEW f, NEW g,
         AgreeBeyond(f, g, offset, Len(bytes))
  PROVE  /\ CborDecode(bytes, offset, f) = CborDecode(bytes, offset, g)
         /\ Ends(CborDecode(bytes, offset, f), offset + 1, Len(bytes))
<1> DEFINE len == Len(bytes)
           kind == Kinds[bytes[offset + 1] \div 32 + 1]
           head == CborHead(bytes, offset)
           count == Value(head.value) * IF kind = "map" THEN 2 ELSE 1
           start == head.end
<1>1. len \in Nat
  OBVIOUS
<1>2. CASE offset >= len \/ bytes[offset + 1] >= 192
  <2>1. \A h : CborDecode(bytes, offset, h) = NoItem
    BY <1>2 DEF CborDecode
  <2>. QED BY <2>1 DEF Ends
<1>3. CASE ~ (offset >= len \/ bytes[offset + 1] >= 192)
  <2>1. \A h : CborDecode(bytes, offset, h) = CborAfter(bytes, kind, head, h)
    BY <1>3 DEF CborDecode
  <2>2. head = NoItem \/ (start \in (offset + 1)..len /\ Value(head.value) \in Nat)
    BY <1>1, <1>3, HeadEnds
  <2> HIDE DEF kind, head
  <2>3. CASE head = NoItem
    <3>1. \A h : CborAfter(bytes, kind, head, h) = NoItem
      BY <2>3 DEF CborAfter
    <3>. QED BY <2>1, <3>1 DEF Ends
  <2>4. CASE head # NoItem /\ kind \notin {"array", "map"}
    <3>1. \A h : CborAfter(bytes, kind, head, h) = CborScalar(bytes, kind, head)
      BY <2>4 DEF CborAfter
    <3>2. start \in (offset + 1)..len /\ Value(head.value) \in Nat
      BY <2>2, <2>4
    <3> DEFINE value == Value(head.value)
               end == start + value
    <3>3. CborScalar(bytes, kind, head) =
            IF kind = "uint" THEN CborItem(kind, head.value, start)
            ELSE IF kind \in {"bytes", "text"} /\ ~ (end > len)
                 THEN CborItem(kind, Slice(bytes, start, value), end) ELSE NoItem
      BY DEF CborScalar
    <3> HIDE DEF start, value
    <3>4. ~ (end > len) => end \in (offset + 1)..len
      BY <1>1, <3>2 DEF value
    <3> HIDE DEF end
    <3>5. \A k, v, e : CborItem(k, v, e).end = e
      BY DEF CborItem
    <3>6. Ends(CborScalar(bytes, kind, head), offset + 1, len)
      BY <3>2, <3>3, <3>4, <3>5 DEF Ends
    <3>. QED BY <2>1, <3>1, <3>6
  <2>5. CASE head # NoItem /\ kind \in {"array", "map"}
    <3>1. \A h : CborAfter(bytes, kind, head, h) =
                   IF count > len - start THEN NoItem ELSE CborContainer(kind, h[start][count])
      BY <2>5 DEF CborAfter
    <3>2. start \in (offset + 1)..len /\ Value(head.value) \in Nat
      BY <2>2, <2>5
    <3>3. count \in Nat
      BY <3>2
    <3> HIDE DEF start, count
    <3>4. CASE count > len - start
      BY <2>1, <3>1, <3>4 DEF Ends
    <3>5. CASE ~ (count > len - start)
      <4>1. count \in 0..len
        BY <1>1, <3>2, <3>3, <3>5
      <4>2. f[start][count] = g[start][count] /\ Ends(f[start][count], start, len)
        BY <3>2, <4>1 DEF AgreeBeyond
      <4>3. CborDecode(bytes, offset, f) = CborContainer(kind, f[start][count])
        BY <2>1, <3>1, <3>5
      <4>4. CborDecode(bytes, offset, g) = CborContainer(kind, g[start][count])
        BY <2>1, <3>1, <3>5
      <4>5. Ends(CborContainer(kind, f[start][count]), offset + 1, len)
        <5> DEFINE items == f[start][count]
        <5>1. CASE items = NoItem
          BY <5>1 DEF Ends, CborContainer
        <5>2. CASE items # NoItem
          <6>1. items.end \in start..len
            BY <4>2, <5>2 DEF Ends
          <6>2. items.end \in (offset + 1)..len
            <7> DEFINE end == items.end
            <7> HIDE DEF items, end
            <7>1. end \in start..len
              BY <6>1 DEF end
            <7>2. end \in (offset + 1)..len
              BY <1>1, <3>2, <7>1
            <7>. QED BY <7>2 DEF end
          <6>3. CborContainer(kind, items).end = items.end
            BY <5>2 DEF CborContainer, CborItem
          <6>. QED BY <6>2, <6>3 DEF Ends
        <5>. QED BY <5>1, <5>2
      <4>. QED BY <4>2, <4>3, <4>4, <4>5
    <3>. QED BY <3>4, <3>5
  <2>. QED BY <2>3, <2>4, <2>5
<1>. QED BY <1>2, <1>3

LEMMA FollowedAhead ==
  ASSUME NEW len \in Nat, NEW offset \in Nat, NEW f, NEW g, AgreeBeyond(f, g, offset, len),
         NEW first, Ends(first, offset + 1, len), NEW n \in 0..len
  PROVE  /\ CborFollowed(first, n, f) = CborFollowed(first, n, g)
         /\ Ends(CborFollowed(first, n, f), offset, len)
<1>1. CASE first = NoItem
  BY <1>1 DEF CborFollowed, Ends
<1>2. CASE first # NoItem
  <2> DEFINE start == first.end
             rest == f[start][n]
  <2>1. start \in (offset + 1)..len
    BY <1>2 DEF Ends
  <2>2. f[start][n] = g[start][n] /\ Ends(rest, start, len)
    BY <2>1 DEF AgreeBeyond
  <2>3. CborFollowed(first, n, f) = CborFollowed(first, n, g)
    BY <2>2 DEF CborFollowed
  <2>4. CASE rest = NoItem
    BY <2>3, <2>4 DEF CborFollowed, Ends
  <2>5. CASE rest # NoItem
    <3>1. CborFollowed(first, n, f).end = rest.end
      BY <1>2, <2>5 DEF CborFollowed, CborItem
    <3> DEFINE end == rest.end
    <3>2. end \in start..len
      BY <2>2, <2>5 DEF Ends
    <3> HIDE DEF start, end
    <3>3. end \in offset..len
      BY <2>1, <3>2
    <3>4. Ends(CborFollowed(first, n, f), offset, len)
      BY <3>1, <3>3 DEF Ends, end
    <3>. QED BY <2>3, <3>4
  <2>. QED BY <2>4, <2>5
<1>. QED BY <1>1, <1>2

\* Counting down to zero.
LEMMA Descent ==
  ASSUME NEW S \in SUBSET Nat, S # {}, \A m \in S : m > 0 => m - 1 \in S
  PROVE  0 \in S
<1>1. PICK least \in S : \A m \in S : least <= m
  BY Smallest
<1>2. least \in Nat /\ ~ (least <= least - 1)
  OBVIOUS
<1>3. ~ (least > 0)
  BY <1>1, <1>2
<1>. QED BY <1>1, <1>2, <1>3

\* The table of contents, from an offset on.
Tabulates(bytes, f, from) ==
  \A o \in from..Len(bytes), n \in 0..Len(bytes) :
    /\ Ends(f[o][n], o, Len(bytes))
    /\ f[o][n] = IF n = 0 THEN CborItem("items", << >>, o)
                 ELSE CborFollowed(CborDecode(bytes, o, f), n - 1, f)

LEMMA TableExists ==
  ASSUME NEW bytes \in Seq(Nat)
  PROVE  \E f : Tabulates(bytes, f, 0)
<1> DEFINE len == Len(bytes)
           Known(m) == \E f : Tabulates(bytes, f, m)
           known == {m \in 0..(len + 1) : Known(m)}
<1>1. len \in Nat
  OBVIOUS
<1>2. len + 1 \in known
  <2>1. (len + 1)..len = {}
    BY <1>1
  <2>2. Tabulates(bytes, << >>, len + 1)
    BY <2>1 DEF Tabulates
  <2>. QED BY <1>1, <2>2
<1>3. ASSUME NEW m \in Nat, m > 0, m <= len + 1, Known(m)
      PROVE  Known(m - 1)
  <2>1. PICK f : Tabulates(bytes, f, m)
    BY <1>3
  <2> DEFINE p == m - 1
             Row(h, o) == [n \in 0..len |-> IF n = 0 THEN CborItem("items", << >>, o)
                                            ELSE CborFollowed(CborDecode(bytes, o, h), n - 1, h)]
             g == [o \in p..len |-> IF o = p THEN Row(f, p) ELSE f[o]]
  <2>2. p \in Nat /\ p <= len /\ p + 1 = m
    BY <1>1, <1>3
  <2> HIDE DEF p
  <2>3. g[p] = Row(f, p) /\ \A o \in m..len : g[o] = f[o]
    <3>1. p \in p..len /\ \A o \in m..len : o \in p..len /\ o # p
      BY <1>1, <1>3, <2>2
    <3> HIDE DEF Row
    <3>. QED BY <3>1
  <2> HIDE DEF g
  <2>4. ASSUME NEW o \in p..len PROVE AgreeBeyond(f, g, o, len)
    <3>1. \A x \in (o + 1)..len : x \in m..len
      BY <1>1, <1>3, <2>2
    <3>. QED BY <2>1, <2>3, <3>1 DEF Tabulates, AgreeBeyond
  <2>5. ASSUME NEW o \in p..len, NEW n \in 0..len
        PROVE  /\ Ends(g[o][n], o, len)
               /\ g[o][n] = IF n = 0 THEN CborItem("items", << >>, o)
                            ELSE CborFollowed(CborDecode(bytes, o, g), n - 1, g)
    <3> DEFINE first == CborDecode(bytes, o, f)
               after == CborFollowed(first, n - 1, f)
    <3>1. o \in Nat /\ o \in 0..len
      BY <1>1, <2>2
    <3>2. first = CborDecode(bytes, o, g) /\ Ends(first, o + 1, len)
      BY <2>4, <3>1, DecodeAhead
    <3> HIDE DEF first
    <3>3. n # 0 => after = CborFollowed(first, n - 1, g) /\ Ends(after, o, len)
      <4>1. SUFFICES ASSUME n # 0 PROVE after = CborFollowed(first, n - 1, g) /\ Ends(after, o, len)
        OBVIOUS
      <4> DEFINE k == n - 1
      <4>2. k \in 0..len
        BY <1>1, <4>1
      <4> HIDE DEF k
      <4>3. CborFollowed(first, k, f) = CborFollowed(first, k, g) /\ Ends(CborFollowed(first, k, f), o, len)
        BY <1>1, <2>4, <3>1, <3>2, <4>2, FollowedAhead
      <4>. QED BY <4>3 DEF k
    <3> HIDE DEF after
    <3>4. Ends(CborItem("items", << >>, o), o, len)
      BY <1>1, <3>1 DEF Ends, CborItem
    <3>5. g[o][n] = IF n = 0 THEN CborItem("items", << >>, o) ELSE after
      <4>1. CASE o = p
        BY <2>3, <4>1 DEF after, first
      <4>2. CASE o # p
        <5>1. o \in m..len
          BY <1>1, <2>2, <4>2
        <5>2. g[o] = f[o]
          BY <2>3, <5>1
        <5>3. f[o][n] = IF n = 0 THEN CborItem("items", << >>, o) ELSE after
          BY <2>1, <5>1 DEF Tabulates, after, first
        <5>. QED BY <5>2, <5>3
      <4>. QED BY <4>1, <4>2
    <3>6. Ends(g[o][n], o, len)
      BY <3>3, <3>4, <3>5
    <3>7. g[o][n] = IF n = 0 THEN CborItem("items", << >>, o) ELSE CborFollowed(first, n - 1, g)
      BY <3>3, <3>5
    <3>. QED BY <3>2, <3>6, <3>7
  <2>6. Tabulates(bytes, g, p)
    BY <2>5 DEF Tabulates
  <2>. QED BY <2>6 DEF p
<1>4. \A m \in known : m > 0 => m - 1 \in known
  <2> HIDE DEF Known
  <2>. QED BY <1>1, <1>3
<1>5. 0 \in known
  <2> HIDE DEF known
  <2>1. known \in SUBSET Nat
    BY <1>1 DEF known
  <2>. QED BY <1>2, <1>4, <2>1, Descent
<1>. QED BY <1>5

LEMMA ContentsTabulate ==
  ASSUME NEW bytes \in Seq(Nat)
  PROVE  Tabulates(bytes, CborContents(bytes), 0)
<1> DEFINE len == Len(bytes)
           Row(h, o) == [n \in 0..len |-> IF n = 0 THEN CborItem("items", << >>, o)
                                          ELSE CborFollowed(CborDecode(bytes, o, h), n - 1, h)]
           Is(f) == f = [o \in 0..len |-> Row(f, o)]
           contents == CHOOSE f : Is(f)
<1>1. CborContents(bytes) = contents
  BY DEF CborContents
<1>2. PICK f : Tabulates(bytes, f, 0)
  BY TableExists
<1>3. len \in Nat
  OBVIOUS
<1> DEFINE Whole(g) == /\ DOMAIN g = 0..len /\ g = [o \in 0..len |-> g[o]]
                       /\ \A o \in 0..len : g[o] = [n \in 0..len |-> f[o][n]]
           whole == [o \in 0..len |-> [n \in 0..len |-> f[o][n]]]
<1>4. Whole(whole)
  OBVIOUS
<1>5. PICK g : Whole(g)
  <2> HIDE DEF Whole, whole
  <2>. QED BY <1>4
<1>6. \A o \in 0..len, n \in 0..len : g[o][n] = f[o][n]
  BY <1>5
<1>7. ASSUME NEW o \in 0..len PROVE g[o] = Row(g, o)
  <2>1. AgreeBeyond(f, g, o, len)
    <3>1. \A x \in (o + 1)..len : x \in 0..len
      BY <1>3
    <3>. QED BY <1>2, <1>6, <3>1 DEF Tabulates, AgreeBeyond
  <2>2. o \in Nat
    BY <1>3
  <2>3. CborDecode(bytes, o, f) = CborDecode(bytes, o, g) /\ Ends(CborDecode(bytes, o, f), o + 1, len)
    BY <2>1, <2>2, DecodeAhead
  <2> DEFINE first == CborDecode(bytes, o, f)
  <2> HIDE DEF first
  <2>4. ASSUME NEW n \in 0..len
        PROVE  f[o][n] = IF n = 0 THEN CborItem("items", << >>, o) ELSE CborFollowed(first, n - 1, g)
    <3>1. f[o][n] = IF n = 0 THEN CborItem("items", << >>, o) ELSE CborFollowed(first, n - 1, f)
      BY <1>2 DEF Tabulates, first
    <3>2. ASSUME n # 0 PROVE CborFollowed(first, n - 1, f) = CborFollowed(first, n - 1, g)
      <4> DEFINE k == n - 1
      <4>1. k \in 0..len
        BY <1>3, <3>2
      <4>2. Ends(first, o + 1, len)
        BY <2>3 DEF first
      <4> HIDE DEF k
      <4>3. CborFollowed(first, k, f) = CborFollowed(first, k, g)
        BY <1>3, <2>1, <2>2, <4>1, <4>2, FollowedAhead
      <4>. QED BY <4>3 DEF k
    <3>. QED BY <3>1, <3>2
  <2>5. g[o] = [n \in 0..len |-> f[o][n]]
    BY <1>5
  <2>6. Row(g, o) = [n \in 0..len |-> IF n = 0 THEN CborItem("items", << >>, o)
                                      ELSE CborFollowed(first, n - 1, g)]
    BY <2>3 DEF first
  <2> HIDE DEF Row
  <2>. QED BY <2>4, <2>5, <2>6
<1>8. Is(g)
  <2> HIDE DEF Row
  <2>. QED BY <1>5, <1>7
<1>9. Is(contents)
  <2> HIDE DEF Is
  <2>. QED BY <1>8
<1> HIDE DEF contents
<1>10. \A o \in 0..len, n \in 0..len :
         contents[o][n] = IF n = 0 THEN CborItem("items", << >>, o)
                          ELSE CborFollowed(CborDecode(bytes, o, contents), n - 1, contents)
  <2>1. ASSUME NEW o \in 0..len PROVE contents[o] = Row(contents, o)
    <3> HIDE DEF Row
    <3>. QED BY <1>9
  <2>. QED BY <2>1
<1> DEFINE known == {m \in 0..(len + 1) : Tabulates(bytes, contents, m)}
<1>11. len + 1 \in known
  <2>1. (len + 1)..len = {}
    BY <1>3
  <2>. QED BY <1>3, <2>1 DEF Tabulates
<1>12. ASSUME NEW m \in known, m > 0 PROVE m - 1 \in known
  <2> DEFINE p == m - 1
  <2>1. p \in Nat /\ p <= len /\ p + 1 = m /\ p \in 0..len /\ p \in 0..(len + 1)
    BY <1>3, <1>12
  <2>2. Tabulates(bytes, contents, m)
    BY <1>12
  <2> HIDE DEF p
  <2>3. AgreeBeyond(contents, contents, p, len)
    BY <2>1, <2>2 DEF Tabulates, AgreeBeyond
  <2> DEFINE first == CborDecode(bytes, p, contents)
  <2>4. Ends(first, p + 1, len)
    BY <2>1, <2>3, DecodeAhead
  <2>5. contents[p] = Row(contents, p)
    BY <1>9, <2>1
  <2>6. ASSUME NEW n \in 0..len
        PROVE  Ends(contents[p][n], p, len)
    <3>1. CASE n = 0
      <4>1. contents[p][n] = CborItem("items", << >>, p)
        BY <1>10, <2>1, <3>1
      <4>. QED BY <2>1, <4>1 DEF Ends, CborItem
    <3>2. CASE n # 0
      <4> DEFINE k == n - 1
      <4>1. k \in 0..len
        BY <1>3, <3>2
      <4>2. contents[p][n] = CborFollowed(first, k, contents)
        BY <1>10, <2>1, <3>2
      <4> HIDE DEF k, first
      <4>3. Ends(CborFollowed(first, k, contents), p, len)
        BY <1>3, <2>1, <2>3, <2>4, <4>1, FollowedAhead
      <4>. QED BY <4>2, <4>3
    <3>. QED BY <3>1, <3>2
  <2>7. ASSUME NEW o \in p..len, NEW n \in 0..len PROVE Ends(contents[o][n], o, len)
    <3>1. CASE o = p
      BY <2>6, <3>1
    <3>2. CASE o # p
      <4>1. o \in m..len
        BY <1>3, <2>1, <3>2
      <4>. QED BY <2>2, <4>1 DEF Tabulates
    <3>. QED BY <3>1, <3>2
  <2>8. \A o \in p..len : o \in 0..len
    BY <2>1
  <2>9. Tabulates(bytes, contents, p)
    BY <1>10, <2>7, <2>8 DEF Tabulates
  <2>. QED BY <2>1, <2>9 DEF p
<1>13. 0 \in known
  <2> HIDE DEF known
  <2>1. known \in SUBSET Nat
    BY <1>3 DEF known
  <2>. QED BY <1>11, <1>12, <2>1, Descent
<1>. QED BY <1>1, <1>13

LEMMA HoldsSlice ==
  ASSUME NEW data \in Seq(Nat), NEW at \in Nat, NEW part \in Seq(Nat), Holds(data, at, part),
         NEW n, n = Len(part)
  PROVE  Slice(data, at, n) = part
<1> DEFINE slice == SubSeq(data, at + 1, at + n)
<1>1. n \in Nat /\ at + n <= Len(data) /\ \A i \in 1..n : data[at + i] = part[i]
  BY DEF Holds
<1>2. slice \in Seq(Nat) /\ Len(slice) = n /\ \A i \in 1..n : slice[i] = data[at + i]
  BY <1>1, PartOf
<1> HIDE DEF slice
<1>3. slice = part
  BY <1>1, <1>2, SameBytes
<1>. QED BY <1>3 DEF slice, Slice

\* Bytes that a decoder takes for the head of an item, wherever they stand.
IsHead(h, word) ==
  /\ h \in Seq(Nat) /\ Len(h) >= 1
  /\ \A bytes \in Seq(Nat), at \in Nat :
       Holds(bytes, at, h) => CborHead(bytes, at) = CborItem("head", word, at + Len(h))

LEMMA ShortHead ==
  ASSUME NEW x \in Nat, NEW n \in Nat, x % 32 = n, n <= 23, NEW h, h = <<x>>
  PROVE  IsHead(h, Word(<<n>>))
<1>1. h \in Seq(Nat) /\ Len(h) = 1 /\ h[1] = x
  BY FirstByte
<1>2. ASSUME NEW bytes \in Seq(Nat), NEW at \in Nat, Holds(bytes, at, h)
      PROVE  CborHead(bytes, at) = CborItem("head", Word(<<n>>), at + Len(h))
  <2>1. bytes[at + 1] = x
    <3>1. 1 \in 1..Len(h)
      BY <1>1
    <3>. QED BY <1>1, <1>2, <3>1 DEF Holds
  <2>2. bytes[at + 1] % 32 = n
    BY <2>1
  <2>. QED BY <1>1, <2>2 DEF CborHead
<1>. QED BY <1>1, <1>2 DEF IsHead

LEMMA WideHead ==
  ASSUME NEW x \in Nat, NEW i \in 1..4, x % 32 = 23 + i, NEW width \in Nat, width = HeadWidth(i),
         NEW s \in Seq(Nat), Len(s) = width, NEW word, Word(s) = word, Shortest(word, width),
         NEW h, h = Prefixed(x, s)
  PROVE  IsHead(h, word)
<1>1. h \in Seq(Nat) /\ Len(h) = width + 1 /\ h[1] = x /\ \A k \in 1..width : h[1 + k] = s[k]
  <2>1. /\ h \in Seq(Nat) /\ Len(h) = Len(s) + 1 /\ h[1] = x
        /\ \A k \in 1..Len(s) : h[1 + k] = s[k]
    BY ByteBefore DEF Prefixed
  <2>. QED BY <2>1
<1>2. ASSUME NEW bytes \in Seq(Nat), NEW at \in Nat, Holds(bytes, at, h)
      PROVE  CborHead(bytes, at) = CborItem("head", word, at + Len(h))
  <2> DEFINE info == bytes[at + 1] % 32
             start == at + 1
  <2>1. start \in Nat /\ at + (width + 1) <= Len(bytes) /\ Len(bytes) \in Nat
        /\ \A k \in 1..(width + 1) : bytes[at + k] = h[k]
    BY <1>1, <1>2, SMTT(30) DEF Holds
  <2>2. bytes[at + 1] = x
    <3>1. 1 \in 1..(width + 1)
      OBVIOUS
    <3>. QED BY <1>1, <2>1, <3>1
  <2>3. ~ (info <= 23) /\ info <= 27 /\ info - 23 = i
    BY <2>2, Z3
  <2>4. Holds(bytes, start, s)
    <3>1. start + Len(s) <= Len(bytes)
      BY <2>1
    <3>2. ASSUME NEW k \in 1..Len(s) PROVE bytes[start + k] = s[k]
      <4>1. 1 + k \in 1..(width + 1) /\ at + (1 + k) = start + k
        BY <3>2
      <4>2. bytes[at + (1 + k)] = h[1 + k]
        BY <2>1, <4>1
      <4>. QED BY <1>1, <4>1, <4>2
    <3> HIDE DEF start
    <3>. QED BY <3>1, <3>2 DEF Holds
  <2>5. Slice(bytes, start, width) = s
    <3> HIDE DEF start
    <3>. QED BY <2>1, <2>4, HoldsSlice
  <2>6. at + width < Len(bytes) /\ start + width = at + Len(h)
    BY <1>1, <2>1, SMTT(30)
  <2>7. CborHead(bytes, at) =
          LET size == HeadWidth(info - 23)
              read == Word(Slice(bytes, start, size))
          IN  IF info <= 23 THEN CborItem("head", Word(<<info>>), start)
              ELSE IF info <= 27 /\ at + size < Len(bytes) /\ Shortest(read, size)
              THEN CborItem("head", read, start + size)
              ELSE NoItem
    BY DEF CborHead, HeadWidth
  <2> HIDE DEF info, start
  <2>. QED BY <2>3, <2>5, <2>6, <2>7
<1>. QED BY <1>1, <1>2 DEF IsHead

\* Bytes that a decoder takes for an item, wherever they stand, and for as many.
IsItem(part, item) ==
  /\ part \in Seq(Nat) /\ Len(part) >= 1 /\ item = [kind |-> item.kind, value |-> item.value]
  /\ \A bytes \in Seq(Nat), at \in Nat :
       Holds(bytes, at, part) =>
         CborDecode(bytes, at, CborContents(bytes)) = CborItem(item.kind, item.value, at + Len(part))

Listed(items) == \E S : items \in Seq(S)
Continues(bytes, from, to, items) ==
  \A m, end \in Nat : \A rest :
    (/\ Listed(rest) /\ Len(items) + m <= Len(bytes) /\ end >= 1
     /\ CborContents(bytes)[to][m] = CborItem("items", rest, end))
    => CborContents(bytes)[from][Len(items) + m] = CborItem("items", items \o rest, end)
AreItems(part, items) ==
  /\ part \in Seq(Nat) /\ Listed(items) /\ Len(items) <= Len(part)
  /\ \A bytes \in Seq(Nat), at \in Nat :
       Holds(bytes, at, part) => Continues(bytes, at, at + Len(part), items)

LEMMA ItemWhole ==
  ASSUME NEW part, NEW item, IsItem(part, item)
  PROVE  CborWhole(part) = item
<1> DEFINE decoded == CborDecode(part, 0, CborContents(part))
<1>1. part \in Seq(Nat) /\ Len(part) \in Nat /\ Len(part) >= 1 /\ 0 \in Nat /\ 0 + Len(part) = Len(part)
      /\ item = [kind |-> item.kind, value |-> item.value]
  BY DEF IsItem
<1>2. Holds(part, 0, part)
  BY <1>1 DEF Holds
<1>3. decoded = CborItem(item.kind, item.value, Len(part))
  BY <1>1, <1>2 DEF IsItem
<1>4. CborWhole(part) = IF decoded # NoItem /\ decoded.end = Len(part)
                        THEN [kind |-> decoded.kind, value |-> decoded.value] ELSE NoItem
  BY DEF CborWhole
<1>5. decoded.kind = item.kind /\ decoded.value = item.value /\ decoded.end = Len(part)
  BY <1>3 DEF CborItem
<1>6. decoded # NoItem
  BY <1>1, <1>5 DEF NoItem, CborItem
<1> HIDE DEF decoded
<1>. QED BY <1>1, <1>4, <1>5, <1>6

\* How a decoder goes on after the head.
IsHeadOf(h, kind, word) == IsHead(h, word) /\ h[1] < 192 /\ Kinds[h[1] \div 32 + 1] = kind

LEMMA DecodedAfter ==
  ASSUME NEW bytes \in Seq(Nat), NEW at \in Nat, NEW part \in Seq(Nat), Holds(bytes, at, part),
         NEW h \in Seq(Nat), Holds(part, 0, h), NEW kind, NEW word, IsHeadOf(h, kind, word),
         NEW contents, NEW start, start = at + Len(h)
  PROVE  CborDecode(bytes, at, contents) = CborAfter(bytes, kind, CborItem("head", word, start), contents)
<1>1. Holds(bytes, at, h)
  BY HoldsFirst
<1>2. CborHead(bytes, at) = CborItem("head", word, start)
  BY <1>1 DEF IsHead, IsHeadOf
<1>3. Len(h) \in Nat /\ Len(h) >= 1 /\ at + Len(h) <= Len(bytes)
  BY <1>1 DEF IsHead, IsHeadOf, Holds
<1>4. bytes[at + 1] = h[1] /\ ~ (at >= Len(bytes))
  <2>1. 1 \in 1..Len(h)
    BY <1>3
  <2>. QED BY <1>1, <1>3, <2>1 DEF Holds
<1>5. ~ (h[1] >= 192)
  <2>1. h[1] \in Nat
    BY <1>3
  <2>. QED BY <2>1 DEF IsHeadOf
<1>. QED BY <1>2, <1>4, <1>5 DEF CborDecode, IsHeadOf

Chained(s, t) == s \o t

\* The three kinds of items: an integer is its head, a string and a container have
\* what the head counts after it.
LEMMA IntegerItem ==
  ASSUME NEW h, NEW word, IsHeadOf(h, "uint", word)
  PROVE  IsItem(h, AsUint(word))
<1>1. h \in Seq(Nat) /\ Len(h) >= 1
  BY DEF IsHead, IsHeadOf
<1>2. AsUint(word).kind = "uint" /\ AsUint(word).value = word
      /\ AsUint(word) = [kind |-> AsUint(word).kind, value |-> AsUint(word).value]
  BY DEF AsUint
<1>3. ASSUME NEW bytes \in Seq(Nat), NEW at \in Nat, Holds(bytes, at, h)
      PROVE  CborDecode(bytes, at, CborContents(bytes)) = CborItem("uint", word, at + Len(h))
  <2> DEFINE start == at + Len(h)
             head == CborItem("head", word, start)
             contents == CborContents(bytes)
             kind == "uint"
  <2>1. Holds(h, 0, h)
    BY <1>1 DEF Holds
  <2>2. IsHeadOf(h, kind, word)
    OBVIOUS
  <2>3. head.value = word /\ head.end = start /\ start >= 1
    BY <1>1 DEF CborItem
  <2>4. head # NoItem
    BY <2>3 DEF NoItem, CborItem
  <2> HIDE DEF start, contents, kind
  <2>5. CborDecode(bytes, at, contents) = CborAfter(bytes, kind, head, contents)
    BY <1>1, <1>3, <2>1, <2>2, DecodedAfter DEF start
  <2> HIDE DEF head
  <2>6. CborAfter(bytes, kind, head, contents) = CborScalar(bytes, kind, head)
    BY <2>4 DEF CborAfter, kind
  <2>7. CborScalar(bytes, kind, head) = CborItem(kind, word, start)
    BY <2>3 DEF CborScalar, kind
  <2>. QED BY <2>5, <2>6, <2>7 DEF start, contents, kind
<1>. QED BY <1>1, <1>2, <1>3 DEF IsItem

LEMMA StringItem ==
  ASSUME NEW h, NEW word, NEW kind \in {"bytes", "text"}, IsHeadOf(h, kind, word), NEW s \in Seq(Nat), Value(word) = Len(s),
         NEW all, all = Chained(h, s), NEW item, item = [kind |-> kind, value |-> s]
  PROVE  IsItem(all, item)
<1>1. h \in Seq(Nat) /\ Len(h) >= 1 /\ Len(h) \in Nat /\ Len(s) \in Nat
  BY DEF IsHead, IsHeadOf
<1>2. item.kind = kind /\ item.value = s /\ item = [kind |-> item.kind, value |-> item.value]
  OBVIOUS
<1>3. /\ all \in Seq(Nat) /\ Len(all) = Len(h) + Len(s)
      /\ Holds(all, 0, h) /\ Holds(all, Len(h), s)
  BY <1>1, TwoParts DEF Chained
<1>4. ASSUME NEW bytes \in Seq(Nat), NEW at \in Nat, Holds(bytes, at, all)
      PROVE  CborDecode(bytes, at, CborContents(bytes)) = CborItem(kind, s, at + Len(all))
  <2> DEFINE start == at + Len(h)
             head == CborItem("head", word, start)
             contents == CborContents(bytes)
             n == Len(s)
             end == start + n
  <2>1. start \in Nat /\ start >= 1 /\ end = at + Len(all) /\ n \in Nat /\ Len(bytes) \in Nat
    BY <1>1, <1>3
  <2>2. head.value = word /\ head.end = start
    BY DEF CborItem
  <2>3. head # NoItem
    BY <2>1, <2>2 DEF NoItem, CborItem
  <2>4. CborDecode(bytes, at, contents) = CborAfter(bytes, kind, head, contents)
    <3>1. start = at + Len(h) /\ head = CborItem("head", word, start)
      OBVIOUS
    <3>2. h \in Seq(Nat) /\ all \in Seq(Nat) /\ Holds(all, 0, h) /\ Holds(bytes, at, all)
      BY <1>1, <1>3, <1>4
    <3> HIDE DEF contents, start, head
    <3>3. CborDecode(bytes, at, contents) =
            CborAfter(bytes, kind, CborItem("head", word, start), contents)
      BY <3>1, <3>2, DecodedAfter
    <3>. QED BY <3>1, <3>3
  <2>5. Holds(bytes, start, s)
    <3> HIDE DEF start
    <3>. QED BY <1>1, <1>3, <1>4, HoldsAt DEF start
  <2>6. Slice(bytes, start, n) = s
    <3> HIDE DEF start
    <3>. QED BY <2>1, <2>5, HoldsSlice
  <2>7. ~ (end > Len(bytes))
    <3>1. end <= Len(bytes)
      BY <2>5 DEF Holds
    <3> HIDE DEF end
    <3>. QED BY <2>1, <3>1
  <2>8. CborAfter(bytes, kind, head, contents) = CborScalar(bytes, kind, head)
    <3> HIDE DEF head
    <3>. QED BY <2>3 DEF CborAfter
  <2>9. CborScalar(bytes, kind, head) = CborItem(kind, s, end)
    <3> HIDE DEF head, start
    <3>1. kind # "uint"
      OBVIOUS
    <3>2. CborScalar(bytes, kind, head) =
            IF head.end + Value(head.value) > Len(bytes) THEN NoItem
            ELSE CborItem(kind, Slice(bytes, head.end, Value(head.value)),
                          head.end + Value(head.value))
      BY <3>1 DEF CborScalar
    <3>. QED BY <2>2, <2>6, <2>7, <3>2
  <2>. QED BY <2>1, <2>4, <2>8, <2>9
<1>. QED BY <1>1, <1>2, <1>3, <1>4 DEF IsItem

LEMMA ContainerItem ==
  ASSUME NEW h, NEW word, NEW kind \in {"array", "map"}, IsHeadOf(h, kind, word), NEW body, NEW items, AreItems(body, items),
         Len(items) = Value(word) * (IF kind = "map" THEN 2 ELSE 1),
         NEW all, all = Chained(h, body), NEW item, item = [kind |-> kind, value |-> items]
  PROVE  IsItem(all, item)
<1>1. h \in Seq(Nat) /\ Len(h) >= 1 /\ Len(h) \in Nat /\ body \in Seq(Nat) /\ Len(body) \in Nat
  BY DEF IsHead, IsHeadOf, AreItems
<1>2. item.kind = kind /\ item.value = items /\ item = [kind |-> item.kind, value |-> item.value]
  OBVIOUS
<1>3. /\ all \in Seq(Nat) /\ Len(all) = Len(h) + Len(body)
      /\ Holds(all, 0, h) /\ Holds(all, Len(h), body)
  BY <1>1, TwoParts DEF Chained
<1> DEFINE count == Len(items)
<1>4. count \in Nat /\ count <= Len(body) /\ Listed(items) /\ items \o << >> = items
  BY DEF AreItems, Listed
<1>5. ASSUME NEW bytes \in Seq(Nat), NEW at \in Nat, Holds(bytes, at, all)
      PROVE  CborDecode(bytes, at, CborContents(bytes)) = CborItem(kind, items, at + Len(all))
  <2> DEFINE start == at + Len(h)
             head == CborItem("head", word, start)
             contents == CborContents(bytes)
             end == start + Len(body)
  <2>1. start \in Nat /\ start >= 1 /\ end = at + Len(all) /\ end \in Nat /\ end >= 1 /\ Len(bytes) \in Nat
    BY <1>1, <1>3
  <2>2. head.value = word /\ head.end = start
    BY DEF CborItem
  <2>3. head # NoItem
    BY <2>1, <2>2 DEF NoItem, CborItem
  <2>4. CborDecode(bytes, at, contents) = CborAfter(bytes, kind, head, contents)
    <3>1. start = at + Len(h) /\ head = CborItem("head", word, start)
      OBVIOUS
    <3>2. h \in Seq(Nat) /\ all \in Seq(Nat) /\ Holds(all, 0, h) /\ Holds(bytes, at, all)
      BY <1>1, <1>3, <1>5
    <3> HIDE DEF contents, start, head
    <3>3. CborDecode(bytes, at, contents) =
            CborAfter(bytes, kind, CborItem("head", word, start), contents)
      BY <3>1, <3>2, DecodedAfter
    <3>. QED BY <3>1, <3>3
  <2>5. Holds(bytes, start, body)
    <3> HIDE DEF start
    <3>. QED BY <1>1, <1>3, <1>5, HoldsAt DEF start
  <2>6. end <= Len(bytes)
    BY <2>5 DEF Holds
  <2>7. Continues(bytes, start, end, items)
    <3> HIDE DEF start
    <3>. QED BY <2>1, <2>5 DEF AreItems
  <2> HIDE DEF end
  <2>8. contents[end][0] = CborItem("items", << >>, end)
    <3>1. Tabulates(bytes, contents, 0)
      BY ContentsTabulate
    <3> HIDE DEF contents
    <3>2. end \in 0..Len(bytes) /\ 0 \in 0..Len(bytes)
      BY <2>1, <2>6
    <3>. QED BY <3>1, <3>2 DEF Tabulates
  <2>9. contents[start][count] = CborItem("items", items, end)
    <3>1. count + 0 = count /\ count <= Len(bytes) /\ 0 \in Nat
      <4>1. start + Len(body) <= Len(bytes)
        BY <2>6 DEF end
      <4> HIDE DEF start, count
      <4>. QED BY <1>1, <1>4, <2>1, <4>1
    <3>2. Listed(<< >>)
      BY DEF Listed
    <3> HIDE DEF contents, start
    <3>3. contents[start][count + 0] = CborItem("items", items \o << >>, end)
      BY <2>1, <2>7, <2>8, <3>1, <3>2, ZenonT(40) DEF Continues, contents
    <3>. QED BY <1>4, <3>1, <3>3
  <2>10. ~ (count > Len(bytes) - start)
    <3>1. start + Len(body) <= Len(bytes)
      BY <2>6 DEF end
    <3> HIDE DEF start, count
    <3>. QED BY <1>1, <1>4, <2>1, <3>1
  <2>11. CborAfter(bytes, kind, head, contents) = CborContainer(kind, contents[start][count])
    <3> HIDE DEF head, start, contents
    <3>1. Value(head.value) * (IF kind = "map" THEN 2 ELSE 1) = count
      BY <2>2
    <3> HIDE DEF count
    <3>. QED BY <2>2, <2>3, <2>10, <3>1 DEF CborAfter
  <2>12. CborContainer(kind, CborItem("items", items, end)) = CborItem(kind, items, end)
    <3> DEFINE found == CborItem("items", items, end)
    <3>1. found.value = items /\ found.end = end
      BY DEF CborItem
    <3>2. found # NoItem
      BY <2>1, <3>1 DEF NoItem, CborItem
    <3> HIDE DEF found
    <3>3. CborContainer(kind, found) = CborItem(kind, items, end)
      BY <3>1, <3>2 DEF CborContainer
    <3>. QED BY <3>3 DEF found
  <2>. QED BY <2>1, <2>4, <2>9, <2>11, <2>12
<1>. QED BY <1>1, <1>2, <1>3, <1>5 DEF IsItem

LEMMA ListsJoin ==
  ASSUME NEW s, NEW t, NEW u, Listed(s), Listed(t), Listed(u)
  PROVE  /\ Listed(s \o t) /\ Len(s \o t) = Len(s) + Len(t) /\ Len(s) \in Nat /\ Len(t) \in Nat
         /\ (s \o t) \o u = s \o (t \o u)
<1>1. PICK S : s \in Seq(S)
  BY DEF Listed
<1>2. PICK T : t \in Seq(T)
  BY DEF Listed
<1>3. PICK U : u \in Seq(U)
  BY DEF Listed
<1> DEFINE V == S \cup T \cup U
<1>4. s \in Seq(V) /\ t \in Seq(V) /\ u \in Seq(V)
  <2>1. S \subseteq V /\ T \subseteq V /\ U \subseteq V
    OBVIOUS
  <2> HIDE DEF V
  <2>. QED BY <1>1, <1>2, <1>3, <2>1
<1> HIDE DEF V
<1>5. s \o t \in Seq(V) /\ Len(s \o t) = Len(s) + Len(t) /\ Len(s) \in Nat /\ Len(t) \in Nat
  BY <1>4
<1>6. (s \o t) \o u = s \o (t \o u)
  BY <1>4, ConcatAssociative
<1>7. Listed(s \o t)
  BY <1>5 DEF Listed
<1>. QED BY <1>5, <1>6, <1>7

Single(item) == <<item>>

LEMMA OneItem ==
  ASSUME NEW part, NEW item, IsItem(part, item)
  PROVE  AreItems(part, Single(item))
<1> DEFINE items == Single(item)
<1>1. part \in Seq(Nat) /\ Len(part) >= 1 /\ Len(part) \in Nat
      /\ item = [kind |-> item.kind, value |-> item.value]
  BY DEF IsItem
<1>2. Listed(items) /\ Len(items) = 1
  <2>1. <<item>> \in Seq({item}) /\ Len(<<item>>) = 1
    OBVIOUS
  <2>. QED BY <2>1 DEF Listed, Single
<1> HIDE DEF items
<1>3. ASSUME NEW bytes \in Seq(Nat), NEW at \in Nat, Holds(bytes, at, part)
      PROVE  Continues(bytes, at, at + Len(part), items)
  <2> DEFINE to == at + Len(part)
             contents == CborContents(bytes)
             first == CborDecode(bytes, at, contents)
             len == Len(bytes)
  <2>1. first = CborItem(item.kind, item.value, to) /\ to \in Nat /\ to >= 1 /\ at <= len /\ len \in Nat
    <3>1. at + Len(part) <= len
      BY <1>3 DEF Holds
    <3>2. to \in Nat /\ to >= 1 /\ at <= len /\ len \in Nat
      BY <1>1, <3>1
    <3>3. first = CborItem(item.kind, item.value, to)
      BY <1>3 DEF IsItem
    <3>. QED BY <3>2, <3>3
  <2>2. first.kind = item.kind /\ first.value = item.value /\ first.end = to
    BY <2>1 DEF CborItem
  <2>3. first # NoItem
    BY <2>1, <2>2 DEF NoItem, CborItem
  <2>4. Tabulates(bytes, contents, 0)
    BY ContentsTabulate
  <2> SUFFICES ASSUME NEW m \in Nat, NEW end \in Nat, NEW rest, Listed(rest),
                      Len(items) + m <= len, end >= 1,
                      contents[to][m] = CborItem("items", rest, end)
               PROVE  contents[at][Len(items) + m] = CborItem("items", items \o rest, end)
    BY DEF Continues
  <2> DEFINE found == contents[to][m]
             n == Len(items) + m
  <2>5. n \in 0..len /\ n # 0 /\ n - 1 = m /\ at \in 0..len
    BY <1>2, <2>1
  <2> HIDE DEF contents, first, to
  <2>6. found.value = rest /\ found.end = end
    BY DEF CborItem
  <2>7. found # NoItem
    BY <2>6 DEF NoItem, CborItem
  <2> HIDE DEF n
  <2>8. contents[at][n] = CborFollowed(first, n - 1, contents)
    BY <2>4, <2>5 DEF Tabulates, first
  <2>9. CborFollowed(first, m, contents) = CborItem("items", <<item>> \o rest, end)
    <3>1. CborFollowed(first, m, contents) =
            IF first = NoItem \/ found = NoItem THEN NoItem
            ELSE CborItem("items", <<[kind |-> first.kind, value |-> first.value]>> \o found.value,
                          found.end)
      BY <2>2 DEF CborFollowed
    <3>2. [kind |-> first.kind, value |-> first.value] = item
      BY <1>1, <2>2
    <3> HIDE DEF found
    <3>. QED BY <2>3, <2>6, <2>7, <3>1, <3>2
  <2>. QED BY <2>5, <2>8, <2>9 DEF n, items, Single
<1>. QED BY <1>1, <1>2, <1>3 DEF AreItems, items

LEMMA MoreItems ==
  ASSUME NEW p, NEW is, AreItems(p, is), NEW q, NEW js, AreItems(q, js),
         NEW all, all = Chained(p, q), NEW items, items = Chained(is, js)
  PROVE  AreItems(all, items)
<1>1. /\ p \in Seq(Nat) /\ q \in Seq(Nat) /\ Len(p) \in Nat /\ Len(q) \in Nat
      /\ Listed(is) /\ Listed(js) /\ Len(is) <= Len(p) /\ Len(js) <= Len(q)
  BY DEF AreItems
<1>2. /\ all \in Seq(Nat) /\ Len(all) = Len(p) + Len(q)
      /\ Holds(all, 0, p) /\ Holds(all, Len(p), q)
  BY <1>1, TwoParts DEF Chained
<1>3. Listed(items) /\ Len(items) = Len(is) + Len(js) /\ Len(is) \in Nat /\ Len(js) \in Nat
  BY <1>1, ListsJoin DEF Chained
<1>4. ASSUME NEW rest, Listed(rest) PROVE items \o rest = is \o (js \o rest) /\ Listed(js \o rest)
  <2>1. (is \o js) \o rest = is \o (js \o rest) /\ Listed(js \o rest)
    BY <1>1, <1>4, ListsJoin
  <2>2. items = is \o js
    BY DEF Chained
  <2>. QED BY <2>1, <2>2
<1>5. ASSUME NEW bytes \in Seq(Nat), NEW at \in Nat, Holds(bytes, at, all)
      PROVE  Continues(bytes, at, at + Len(all), items)
  <2> DEFINE between == at + Len(p)
             to == between + Len(q)
             contents == CborContents(bytes)
  <2>1. between \in Nat /\ to = at + Len(all)
    BY <1>1, <1>2
  <2>2. Continues(bytes, at, between, is)
    <3>1. Holds(bytes, at, p)
      BY <1>1, <1>2, <1>5, HoldsFirst
    <3>. QED BY <3>1 DEF AreItems
  <2>3. Continues(bytes, between, to, js)
    <3>1. Holds(bytes, between, q)
      <4> HIDE DEF between
      <4>. QED BY <1>1, <1>2, <1>5, HoldsAt DEF between
    <3> HIDE DEF between
    <3>. QED BY <2>1, <3>1 DEF AreItems
  <2> HIDE DEF between, to
  <2>4. Continues(bytes, at, to, items)
    <3> SUFFICES ASSUME NEW m \in Nat, NEW end \in Nat, NEW rest, Listed(rest),
                        Len(items) + m <= Len(bytes), end >= 1,
                        contents[to][m] = CborItem("items", rest, end)
                 PROVE  contents[at][Len(items) + m] = CborItem("items", items \o rest, end)
      BY DEF Continues
    <3> DEFINE n == Len(js) + m
               further == js \o rest
    <3>1. n \in Nat /\ n <= Len(bytes) /\ Len(is) + n = Len(items) + m
      BY <1>3
    <3>2. contents[between][n] = CborItem("items", js \o rest, end)
      <4> HIDE DEF contents
      <4>. QED BY <2>3, <3>1 DEF Continues, contents
    <3> HIDE DEF n
    <3>3. further = js \o rest /\ Listed(further) /\ Len(is) + n <= Len(bytes)
      BY <1>4, <3>1
    <3> HIDE DEF further
    <3>4. contents[between][n] = CborItem("items", further, end)
      BY <3>2, <3>3
    <3>5. contents[at][Len(is) + n] = CborItem("items", is \o further, end)
      <4> HIDE DEF contents
      <4>. QED BY <2>2, <3>1, <3>3, <3>4 DEF Continues, contents
    <3>. QED BY <1>4, <3>1, <3>3, <3>5
  <2>. QED BY <2>1, <2>4
<1>6. Len(items) <= Len(all)
  BY <1>1, <1>2, <1>3
<1>. QED BY <1>2, <1>3, <1>5, <1>6 DEF AreItems

LEMMA KindsTold ==
  Kinds[1] = "uint" /\ Kinds[3] = "bytes" /\ Kinds[4] = "text" /\ Kinds[5] = "array" /\ Kinds[6] = "map"
BY DEF Kinds

LEMMA ValueOfSmall ==
  ASSUME NEW n \in Nat
  PROVE  Value(Word(<<n>>)) = n
<1>1. CASE n = 0
  <2>1. Word(<<n>>) = << >>
    BY <1>1, SmallWords
  <2>. QED BY <1>1, <2>1, ValueOfNone
<1>2. CASE n # 0
  BY <1>2, SmallWords, ValueOfOne
<1>. QED BY <1>1, <1>2

\* A head in one byte, of each kind.
LEMMA SmallHead ==
  ASSUME NEW t \in 0..5, NEW n \in 0..23, NEW x, x = 32 * t + n, NEW h, h = <<x>>,
         NEW kind, kind = Kinds[t + 1], NEW word, word = Word(<<n>>)
  PROVE  IsHeadOf(h, kind, word) /\ Value(word) = n /\ h \in Seq(Nat) /\ Len(h) = 1
<1>1. x \in Nat /\ n \in Nat /\ n <= 23 /\ x < 192 /\ x % 32 = n /\ x \div 32 = t
  OBVIOUS
<1>2. h \in Seq(Nat) /\ Len(h) = 1 /\ h[1] = x
  BY <1>1
<1>3. IsHead(h, word)
  BY <1>1, ShortHead
<1>4. Value(word) = n
  BY <1>1, ValueOfSmall
<1>. QED BY <1>1, <1>2, <1>3, <1>4 DEF IsHeadOf

\* What encodeUint writes of up to 64 bits is an integer in its shortest form, and
\* beyond that a string of 16 bytes.
LEMMA UintIsItem ==
  ASSUME NEW word, Canonical(word), Len(word) <= 16
  PROVE  IsItem(encodeUint(word), IF Len(word) <= 8 THEN AsUint(word) ELSE AsBytes(Padded(word, 16)))
<1> DEFINE bytes == encodeUint(word)
<1>0. word \in Seq(Nat) /\ Len(word) \in Nat
  BY DEF Canonical
<1>1. InFirstByte(word, bytes) \/ AfterPrefix(word, bytes) \/ AsString(word, bytes)
  BY Encoded
<1> HIDE DEF bytes
<1>2. CASE InFirstByte(word, bytes)
  <2>1. PICK b \in Nat : b <= 23 /\ bytes = <<b>> /\ word = Word(<<b>>)
    BY <1>2 DEF InFirstByte
  <2>2. 0 \in 0..5 /\ b \in 0..23 /\ b = 32 * 0 + b /\ "uint" = Kinds[0 + 1]
    BY <2>1, KindsTold
  <2>3. IsHeadOf(bytes, "uint", word)
    BY <2>1, <2>2, SmallHead
  <2>4. IsItem(bytes, AsUint(word))
    BY <2>3, IntegerItem
  <2>5. Len(word) <= 8
    <3> DEFINE single == <<b>>
    <3>1. single \in Seq(Nat) /\ Len(single) = 1 /\ word = Word(single)
      BY <2>1
    <3> HIDE DEF single
    <3>2. Len(Word(single)) <= Len(single)
      BY <3>1, WordIsCanonical
    <3>. QED BY <1>0, <3>1, <3>2
  <2>. QED BY <2>4, <2>5 DEF bytes
<1>3. CASE AfterPrefix(word, bytes)
  <2>1. PICK i \in 1..4 : LET width == <<1, 2, 4, 8>>[i] IN
          Len(word) <= width /\ Shortest(word, width) /\ bytes = Prefixed(23 + i, Padded(word, width))
    BY <1>3 DEF AfterPrefix
  <2> DEFINE width == HeadWidth(i)
             padded == Padded(word, width)
             x == 23 + i
  <2>2. width \in Nat /\ width <= 8
    BY Widths DEF HeadWidth
  <2>3. Len(word) <= width /\ Shortest(word, width) /\ bytes = Prefixed(x, padded)
    BY <2>1 DEF HeadWidth
  <2>4. width = HeadWidth(i)
    OBVIOUS
  <2> HIDE DEF width
  <2>5. padded \in Seq(Nat) /\ Len(padded) = width /\ Word(padded) = word
    BY <2>2, <2>3, PaddedWord
  <2>6. x \in Nat /\ x % 32 = 23 + i /\ x < 192 /\ x \div 32 + 1 = 1
    OBVIOUS
  <2> HIDE DEF padded, x
  <2>7. IsHead(bytes, word)
    BY <2>2, <2>3, <2>4, <2>5, <2>6, WideHead
  <2>8. bytes[1] = x
    BY <2>3, <2>5, <2>6, PrefixedBytes
  <2>9. IsHeadOf(bytes, "uint", word)
    BY <2>6, <2>7, <2>8, KindsTold DEF IsHeadOf
  <2>10. IsItem(bytes, AsUint(word))
    BY <2>9, IntegerItem
  <2>11. Len(word) <= 8
    BY <1>0, <2>2, <2>3
  <2>. QED BY <2>10, <2>11 DEF bytes
<1>4. CASE AsString(word, bytes)
  <2> DEFINE padded == Padded(word, 16)
             x == 80
             t == 2
             n == 16
             h == <<x>>
             size == Word(<<n>>)
  <2>1. Len(word) \in 9..16 /\ bytes = Chained(h, padded)
    BY <1>4 DEF AsString, Prefixed, Chained
  <2>2. padded \in Seq(Nat) /\ Len(padded) = 16
    BY PaddedWord
  <2>3. t \in 0..5 /\ n \in 0..23 /\ x = 32 * t + n /\ "bytes" = Kinds[t + 1]
    BY KindsTold
  <2> HIDE DEF x, t, n
  <2>4. IsHeadOf(h, "bytes", size) /\ Value(size) = n
    BY <2>3, SmallHead
  <2> HIDE DEF padded, h, size
  <2>5. AsBytes(padded) = [kind |-> "bytes", value |-> padded]
    BY DEF AsBytes
  <2>6. IsItem(bytes, AsBytes(padded))
    BY <2>1, <2>2, <2>4, <2>5, StringItem DEF n
  <2>7. ~ (Len(word) <= 8)
    <3> DEFINE width == Len(word)
    <3>1. width \in 9..16
      BY <2>1
    <3> HIDE DEF width
    <3>2. ~ (width <= 8)
      BY <3>1
    <3>. QED BY <3>2 DEF width
  <2>. QED BY <2>6, <2>7 DEF bytes, padded
<1>. QED BY <1>1, <1>2, <1>3, <1>4

\* What encodeBytes writes is a byte string, of up to 64 kB.
LEMMA WideStringHead ==
  ASSUME NEW x \in Nat, NEW i \in 1..2, x % 32 = 23 + i, x \div 32 + 1 = 3, NEW word, Canonical(word),
         Len(word) = i, Shortest(word, i), NEW h, h = Prefixed(x, word)
  PROVE  IsHeadOf(h, "bytes", word)
<1>1. x < 192
  OBVIOUS
<1>2. i \in 1..4 /\ i \in Nat /\ i = HeadWidth(i)
  <2>1. i = 1 \/ i = 2
    OBVIOUS
  <2>. QED BY <2>1, Widths DEF HeadWidth
<1>3. word \in Seq(Nat) /\ Word(word) = word
  BY WordOfWord DEF Canonical
<1>4. IsHead(h, word)
  BY <1>2, <1>3, WideHead
<1>5. h[1] = x
  BY <1>3, PrefixedBytes
<1>. QED BY <1>1, <1>4, <1>5, KindsTold DEF IsHeadOf

LEMMA TwoAfter ==
  ASSUME NEW x \in Nat, NEW a \in Nat, NEW b \in Nat
  PROVE  <<x, a, b>> = Prefixed(x, <<a, b>>)
<1> DEFINE two == <<a, b>>
           three == <<x, a, b>>
           all == Prefixed(x, two)
<1>1. two \in Seq(Nat) /\ Len(two) = 2 /\ two[1] = a /\ two[2] = b
  OBVIOUS
<1>2. three \in Seq(Nat) /\ Len(three) = 3 /\ three[1] = x /\ three[2] = a /\ three[3] = b
  OBVIOUS
<1> HIDE DEF two, three
<1>3. all \in Seq(Nat) /\ Len(all) = 3 /\ all[1] = x /\ \A k \in 1..2 : all[1 + k] = two[k]
  <2>1. /\ all \in Seq(Nat) /\ Len(all) = Len(two) + 1 /\ all[1] = x
        /\ \A k \in 1..Len(two) : all[1 + k] = two[k]
    BY <1>1, ByteBefore DEF Prefixed
  <2> HIDE DEF all
  <2>. QED BY <1>1, <2>1
<1> HIDE DEF all
<1>4. all[2] = a /\ all[3] = b
  <2>1. all[1 + 1] = two[1] /\ all[1 + 2] = two[2]
    BY <1>3
  <2>. QED BY <1>1, <2>1
<1>5. three = all
  <2>1. \A k \in 1..3 : three[k] = all[k]
    BY <1>2, <1>3, <1>4
  <2>. QED BY <1>2, <1>3, <2>1, SameBytes
<1>. QED BY <1>5 DEF all, two, three

IsLength(n) == n \in Nat /\ n <= 65535

LEMMA StringHead ==
  ASSUME NEW n \in Nat, IsLength(n)
  PROVE  \E word : IsHeadOf(bytesHeader(n), "bytes", word) /\ Value(word) = n
<1>1. CASE n <= 23
  <2> DEFINE x == 64 + n
             t == 2
             h == <<x>>
             word == Word(<<n>>)
  <2>1. bytesHeader(n) = h
    BY <1>1 DEF bytesHeader, IsLength
  <2>2. t \in 0..5 /\ n \in 0..23 /\ x = 32 * t + n /\ "bytes" = Kinds[t + 1]
    BY <1>1, KindsTold
  <2> HIDE DEF x, t
  <2>3. IsHeadOf(h, "bytes", word) /\ Value(word) = n
    BY <2>2, SmallHead
  <2>. QED BY <2>1, <2>3
<1>2. CASE n > 23 /\ n <= 255
  <2> DEFINE word == <<n>>
             x == 88
             i == 1
             h == bytesHeader(n)
  <2>1. Canonical(word) /\ Len(word) = i /\ word # << >> /\ word[1] = n /\ Value(word) = n
    BY <1>2, ValueOfOne DEF Canonical
  <2>2. h = Prefixed(x, word)
    <3>1. h = <<88, n>>
      BY <1>2 DEF bytesHeader, IsLength
    <3>. QED BY <3>1 DEF Prefixed
  <2> HIDE DEF word
  <2>3. Shortest(word, i)
    BY <1>2, <2>1 DEF Shortest
  <2>4. x \in Nat /\ i \in 1..2 /\ x % 32 = 23 + i /\ x \div 32 + 1 = 3
    OBVIOUS
  <2> HIDE DEF x, i, h
  <2>5. IsHeadOf(h, "bytes", word)
    BY <2>1, <2>2, <2>3, <2>4, WideStringHead
  <2>. QED BY <2>1, <2>5 DEF h
<1>3. CASE n > 255
  <2> DEFINE a == n \div 256
             b == n % 256
             word == <<a, b>>
             x == 89
             i == 2
             h == bytesHeader(n)
  <2>1. a \in Nat /\ b \in Nat /\ a # 0 /\ 256 * a + b = n
    BY <1>3
  <2>2. h = <<x, a, b>>
    BY <1>3 DEF bytesHeader, IsLength
  <2> HIDE DEF a, b
  <2>3. Canonical(word) /\ Len(word) = i /\ Value(word) = n
    BY <2>1, ValueOfTwo DEF Canonical
  <2>4. x \in Nat /\ i \in 1..2 /\ x % 32 = 23 + i /\ x \div 32 + 1 = 3
    OBVIOUS
  <2> HIDE DEF x, h
  <2>5. h = Prefixed(x, word)
    BY <2>1, <2>2, <2>4, TwoAfter
  <2> HIDE DEF word
  <2>6. Shortest(word, i)
    BY <2>3 DEF Shortest
  <2> HIDE DEF i
  <2>7. IsHeadOf(h, "bytes", word)
    BY <2>3, <2>4, <2>5, <2>6, WideStringHead
  <2>. QED BY <2>3, <2>7 DEF h
<1>. QED BY <1>1, <1>2, <1>3

LEMMA StringIsItem ==
  ASSUME NEW s \in Seq(Nat), IsLength(Len(s))
  PROVE  IsItem(encodeBytes(s), AsBytes(s))
<1> DEFINE n == Len(s)
           h == bytesHeader(n)
           bytes == encodeBytes(s)
           item == AsBytes(s)
<1>1. n \in Nat /\ IsLength(n) /\ item = [kind |-> "bytes", value |-> s] /\ "bytes" \in {"bytes", "text"}
  BY DEF AsBytes
<1>2. bytes = Chained(h, s)
  BY DEF encodeBytes, Chained
<1>3. PICK word : IsHeadOf(h, "bytes", word) /\ Value(word) = n
  BY <1>1, StringHead
<1> HIDE DEF h, bytes, item
<1>4. IsItem(bytes, item)
  BY <1>1, <1>2, <1>3, StringItem
<1>. QED BY <1>4 DEF bytes, item

\* A key is a text.
LEMMA TextIsItem ==
  ASSUME NEW len \in 0..23, NEW letter \in Nat, NEW key, key = Key(len, letter)
  PROVE  IsItem(Text(key), AsText(key))
<1> DEFINE x == 96 + len
           h == <<x>>
           word == Word(<<len>>)
           all == Text(key)
           item == AsText(key)
<1>1. key \in Seq(Nat) /\ Len(key) = len
  BY KeyIsBytes
<1>2. all = Chained(h, key) /\ item = [kind |-> "text", value |-> key]
  BY <1>1 DEF Text, Chained, AsText
<1>3. 3 \in 0..5 /\ x = 32 * 3 + len /\ "text" = Kinds[3 + 1] /\ h = <<x>> /\ word = Word(<<len>>)
  BY KindsTold
<1> HIDE DEF x, h, word
<1>4. IsHeadOf(h, "text", word) /\ Value(word) = len
  BY <1>3, SmallHead
<1> HIDE DEF all, item
<1>5. IsItem(all, item)
  BY <1>1, <1>2, <1>4, StringItem
<1>. QED BY <1>5 DEF all, item

-----------------------------------------------------------------------------
(* What encodeUint and encodeBytes write.                                   *)

\* Every integer of up to 128 bits is written as CBOR: an unsigned integer in its
\* shortest form, or beyond 64 bits a string of 16 bytes.
LEMMA UintIsCbor ==
  ASSUME NEW word, Canonical(word), Len(word) <= 16
  PROVE  CborWhole(encodeUint(word)) =
           IF Len(word) <= 8 THEN AsUint(word) ELSE AsBytes(Padded(word, 16))
BY UintIsItem, ItemWhole

\* What encodeBytes writes is a byte string, of up to 64 kB.
THEOREM StringIsCbor ==
  ASSUME NEW s \in Seq(Nat), Len(s) <= 65535
  PROVE  CborWhole(encodeBytes(s)) = AsBytes(s)
<1>1. IsLength(Len(s))
  BY DEF IsLength
<1>. QED BY <1>1, StringIsItem, ItemWhole

\* What parseUint and a CBOR decoder make of an integer of up to 128 bits, of every
\* value, among any bytes.
THEOREM EveryUintRead ==
  ASSUME NEW word, Canonical(word), Len(word) <= 16, NEW before \in Seq(Nat), NEW after \in Seq(Nat)
  PROVE  LET bytes == before \o encodeUint(word)
         IN  /\ parseUint(bytes \o after, Len(before)) = Parsed(Len(bytes), word)
             /\ CborWhole(encodeUint(word)) =
                  IF Len(word) <= 8 THEN AsUint(word) ELSE AsBytes(Padded(word, 16))
<1>1. CborWhole(encodeUint(word)) = IF Len(word) <= 8 THEN AsUint(word) ELSE AsBytes(Padded(word, 16))
  BY UintIsCbor
<1>2. LET bytes == before \o encodeUint(word)
      IN  parseUint(bytes \o after, Len(before)) = Parsed(Len(bytes), word)
  BY UintReadsBack
<1>. QED BY <1>1, <1>2

\* What encodeUint and encodeBytes write in a run is CBOR, and parseUint reads it back
\* (CBOR.sol:34-73, 88-143).
THEOREM EncodingsAreCbor == Spec => []EncodedIsCbor
<1>1. Init => Encodable
  BY DEF Init, Encodable, Given
<1>2. ASSUME Encodable, [Next]_<<input, host, enclave>>
      PROVE  Encodable'
  <2>1. CASE input' = input
    BY <1>2, <2>1 DEF Encodable, Given
  <2>2. CASE ChooseUint
    <3>1. PICK w \in Words(32), before \in {<< >>, <<24, 88>>}, after \in {<< >>, <<7>>} :
            input' = [alg |-> "uint", word |-> w, before |-> before, after |-> after]
      BY <2>2 DEF ChooseUint
    <3>2. Canonical(w)
      BY WordsAreCanonical
    <3>3. before \in Seq(Nat) /\ after \in Seq(Nat)
      <4>1. << >> \in Seq(Nat) /\ <<7>> \in Seq(Nat)
        OBVIOUS
      <4>2. <<24, 88>> \in Seq(Nat)
        OBVIOUS
      <4>. QED BY <4>1, <4>2, Zenon
    <3>4. /\ input'.word = w /\ input'.before = before /\ input'.after = after
          /\ input'.alg = "uint"
      BY <3>1
    <3>. QED BY <3>2, <3>3, <3>4 DEF Encodable, Given
  <2>3. CASE ChooseLength
    <3>1. input'.alg = "length" /\ input'.len \in Nat
      BY <2>3 DEF ChooseLength
    <3>. QED BY <3>1 DEF Encodable, Given
  <2>4. CASE (ChooseInput \/ NextDay) /\ ~ ChooseUint /\ ~ ChooseLength
    <3>1. input'.alg # "uint" /\ input'.alg # "length"
      BY <2>4, ChosenKinds DEF ChooseInput
    <3>. QED BY <3>1 DEF Encodable, Given
  <2>. QED BY <1>2, <2>1, <2>2, <2>3, <2>4, InputStays
<1>3. Encodable => EncodedIsCbor
  <2> SUFFICES ASSUME Encodable PROVE EncodedIsCbor
    OBVIOUS
  <2>1. ASSUME Given("uint"), Len(input.word) <= 16
        PROVE  /\ ReadsBack
               /\ CborWhole(encodeUint(input.word)) =
                    IF Len(input.word) <= 8 THEN AsUint(input.word) ELSE AsBytes(Padded(input.word, 16))
    <3>1. Canonical(input.word) /\ input.before \in Seq(Nat) /\ input.after \in Seq(Nat)
      BY <2>1 DEF Encodable
    <3>. QED BY <2>1, <3>1, UintReadsBack, UintIsCbor DEF ReadsBack
  <2>2. ASSUME Given("length")
        PROVE  IF input.len > 65535 THEN bytesHeader(input.len) = Reverted
               ELSE CborWhole(encodeBytes(Filled(input.len, 7))) = AsBytes(Filled(input.len, 7))
    <3> DEFINE len == input.len
               s == Filled(len, 7)
    <3>1. len \in Nat
      BY <2>2 DEF Encodable
    <3>2. s \in Seq(Nat) /\ Len(s) = len
      BY <3>1, FilledBytes
    <3> HIDE DEF len, s
    <3>3. CASE len > 65535
      <4>1. bytesHeader(len) = Reverted
        BY <3>1, <3>3 DEF bytesHeader
      <4>. QED BY <3>3, <4>1 DEF len
    <3>4. CASE len <= 65535
      <4>1. CborWhole(encodeBytes(s)) = AsBytes(s)
        BY <3>2, <3>4, StringIsCbor
      <4>2. ~ (len > 65535)
        BY <3>1, <3>4
      <4>. QED BY <4>1, <4>2 DEF len, s
    <3>. QED BY <3>1, <3>3, <3>4
  <2>. QED BY <2>1, <2>2 DEF EncodedIsCbor
<1>. QED BY <1>1, <1>2, <1>3, PTL DEF Spec

-----------------------------------------------------------------------------
(* The requests of the Subcall library, and the envelope of a call.         *)

\* Lists of two, four and eight, which no prover puts together of its own.
LEMMA Pairs ==
  ASSUME NEW a, NEW b
  PROVE  <<a, b>> = Chained(Single(a), Single(b)) /\ Listed(<<a, b>>) /\ Len(<<a, b>>) = 2
<1> DEFINE S == {a, b}
           two == <<a, b>>
           one == <<a>>
           other == <<b>>
           both == one \o other
<1>1. two \in Seq(S) /\ Len(two) = 2 /\ two[1] = a /\ two[2] = b
  OBVIOUS
<1>2. one \in Seq(S) /\ Len(one) = 1 /\ one[1] = a
  OBVIOUS
<1>3. other \in Seq(S) /\ Len(other) = 1 /\ other[1] = b
  OBVIOUS
<1> HIDE DEF S, two, one, other
<1>4. both \in Seq(S) /\ Len(both) = 2 /\ both[1] = a /\ both[2] = b
  <2>1. \A s, t \in Seq(S) : s \o t \in Seq(S) /\ Len(s \o t) = Len(s) + Len(t)
                             /\ \A i \in 1..Len(s) + Len(t) :
                                  (s \o t)[i] = IF i <= Len(s) THEN s[i] ELSE t[i - Len(s)]
    BY ConcatProperties
  <2> HIDE DEF both
  <2>2. both \in Seq(S) /\ Len(both) = 2
        /\ \A i \in 1..2 : both[i] = IF i <= 1 THEN one[i] ELSE other[i - 1]
    BY <1>2, <1>3, <2>1 DEF both
  <2>. QED BY <1>2, <1>3, <2>2
<1> HIDE DEF both
<1>5. two = both
  <2>1. \A i \in 1..Len(two) : two[i] = both[i]
    BY <1>1, <1>4
  <2>. QED BY <1>1, <1>4, <2>1, SeqEqual
<1>6. Listed(two)
  BY <1>1 DEF Listed
<1>. QED BY <1>1, <1>5, <1>6 DEF Chained, Single, two, both, one, other

LEMMA Fours ==
  ASSUME NEW a, NEW b, NEW c, NEW d
  PROVE  /\ <<a, b, c, d>> = Chained(<<a, b>>, <<c, d>>)
         /\ Listed(<<a, b, c, d>>) /\ Len(<<a, b, c, d>>) = 4
<1> DEFINE S == {a, b, c, d}
           four == <<a, b, c, d>>
           one == <<a, b>>
           other == <<c, d>>
           both == one \o other
<1>1. four \in Seq(S) /\ Len(four) = 4 /\ four[1] = a /\ four[2] = b /\ four[3] = c /\ four[4] = d
  OBVIOUS
<1>2. one \in Seq(S) /\ Len(one) = 2 /\ one[1] = a /\ one[2] = b
  OBVIOUS
<1>3. other \in Seq(S) /\ Len(other) = 2 /\ other[1] = c /\ other[2] = d
  OBVIOUS
<1> HIDE DEF S, four, one, other
<1>4. both \in Seq(S) /\ Len(both) = 4 /\ both[1] = a /\ both[2] = b /\ both[3] = c /\ both[4] = d
  <2>1. both \in Seq(S) /\ Len(both) = 4
        /\ \A i \in 1..4 : both[i] = IF i <= 2 THEN one[i] ELSE other[i - 2]
    <3>1. both \in Seq(S) /\ Len(both) = Len(one) + Len(other)
          /\ \A i \in 1..Len(one) + Len(other) :
               both[i] = IF i <= Len(one) THEN one[i] ELSE other[i - Len(one)]
      BY <1>2, <1>3, ConcatProperties
    <3> HIDE DEF both
    <3>. QED BY <1>2, <1>3, <3>1
  <2> HIDE DEF both
  <2>. QED BY <1>2, <1>3, <2>1
<1> HIDE DEF both
<1>5. four = both
  <2>1. \A i \in 1..Len(four) : four[i] = both[i]
    BY <1>1, <1>4
  <2>. QED BY <1>1, <1>4, <2>1, SeqEqual
<1>6. Listed(four)
  BY <1>1 DEF Listed
<1>. QED BY <1>1, <1>5, <1>6 DEF Chained, four, both, one, other

LEMMA Eights ==
  ASSUME NEW a, NEW b, NEW c, NEW d, NEW e, NEW f, NEW g, NEW h
  PROVE  /\ <<a, b, c, d, e, f, g, h>> = Chained(<<a, b, c, d>>, <<e, f, g, h>>)
         /\ Listed(<<a, b, c, d, e, f, g, h>>) /\ Len(<<a, b, c, d, e, f, g, h>>) = 8
<1> DEFINE S == {a, b, c, d, e, f, g, h}
           eight == <<a, b, c, d, e, f, g, h>>
           one == <<a, b, c, d>>
           other == <<e, f, g, h>>
           both == one \o other
<1>1. /\ eight \in Seq(S) /\ Len(eight) = 8 /\ eight[1] = a /\ eight[2] = b /\ eight[3] = c
      /\ eight[4] = d /\ eight[5] = e /\ eight[6] = f /\ eight[7] = g /\ eight[8] = h
  OBVIOUS
<1>2. one \in Seq(S) /\ Len(one) = 4 /\ one[1] = a /\ one[2] = b /\ one[3] = c /\ one[4] = d
  OBVIOUS
<1>3. other \in Seq(S) /\ Len(other) = 4 /\ other[1] = e /\ other[2] = f /\ other[3] = g /\ other[4] = h
  OBVIOUS
<1> HIDE DEF S, eight, one, other
<1>4. /\ both \in Seq(S) /\ Len(both) = 8 /\ both[1] = a /\ both[2] = b /\ both[3] = c
      /\ both[4] = d /\ both[5] = e /\ both[6] = f /\ both[7] = g /\ both[8] = h
  <2>1. both \in Seq(S) /\ Len(both) = 8
        /\ \A i \in 1..8 : both[i] = IF i <= 4 THEN one[i] ELSE other[i - 4]
    <3>1. both \in Seq(S) /\ Len(both) = Len(one) + Len(other)
          /\ \A i \in 1..Len(one) + Len(other) :
               both[i] = IF i <= Len(one) THEN one[i] ELSE other[i - Len(one)]
      BY <1>2, <1>3, ConcatProperties
    <3> HIDE DEF both
    <3>. QED BY <1>2, <1>3, <3>1
  <2> HIDE DEF both
  <2>. QED BY <1>2, <1>3, <2>1
<1> HIDE DEF both
<1>5. eight = both
  <2>1. \A i \in 1..8 : eight[i] = both[i]
    <3>1. \A i \in 1..8 : i = 1 \/ i = 2 \/ i = 3 \/ i = 4 \/ i = 5 \/ i = 6 \/ i = 7 \/ i = 8
      OBVIOUS
    <3>. QED BY <1>1, <1>4, <3>1
  <2>. QED BY <1>1, <1>4, <2>1, SeqEqual
<1>6. Listed(eight)
  BY <1>1 DEF Listed
<1>. QED BY <1>1, <1>5, <1>6 DEF Chained, eight, both, one, other

\* A container that is written piece by piece: what there is of it after its head.
Opens(front, h, items) == \E body : front = Chained(h, body) /\ AreItems(body, items)

LEMMA Regrouped ==
  ASSUME NEW s \in Seq(Nat), NEW t \in Seq(Nat), NEW u \in Seq(Nat)
  PROVE  Chained(Chained(s, t), u) = Chained(s, Chained(t, u))
BY ConcatAssociative, SMTT(30) DEF Chained

LEMMA TwoItems ==
  ASSUME NEW p, NEW a, IsItem(p, a), NEW q, NEW b, IsItem(q, b)
  PROVE  AreItems(Chained(p, q), <<a, b>>)
<1>1. AreItems(p, Single(a)) /\ AreItems(q, Single(b))
  BY OneItem
<1>2. <<a, b>> = Chained(Single(a), Single(b))
  BY Pairs
<1> DEFINE items == <<a, b>>
           all == Chained(p, q)
<1> HIDE DEF items, all
<1>3. items = Chained(Single(a), Single(b))
  BY <1>2 DEF items
<1>4. all = Chained(p, q)
  BY DEF all
<1>5. AreItems(all, items)
  BY <1>1, <1>3, <1>4, MoreItems
<1>. QED BY <1>5 DEF all, items

\* A pair after the head, and one more pair.
LEMMA FirstPair ==
  ASSUME NEW h \in Seq(Nat), NEW p, NEW a, IsItem(p, a), NEW q, NEW b, IsItem(q, b)
  PROVE  Opens(Chained(Chained(h, p), q), h, <<a, b>>)
<1>1. p \in Seq(Nat) /\ q \in Seq(Nat)
  BY DEF IsItem
<1>2. Chained(Chained(h, p), q) = Chained(h, Chained(p, q))
  BY <1>1, Regrouped
<1>3. AreItems(Chained(p, q), <<a, b>>)
  BY TwoItems
<1>. QED BY <1>2, <1>3 DEF Opens

LEMMA NextPair ==
  ASSUME NEW h \in Seq(Nat), NEW front, NEW items, Opens(front, h, items),
         NEW p, NEW a, IsItem(p, a), NEW q, NEW b, IsItem(q, b)
  PROVE  Opens(Chained(Chained(front, p), q), h, Chained(items, <<a, b>>))
<1>1. p \in Seq(Nat) /\ q \in Seq(Nat)
  BY DEF IsItem
<1>2. PICK body : front = Chained(h, body) /\ AreItems(body, items)
  BY DEF Opens
<1>3. body \in Seq(Nat)
  BY <1>2 DEF AreItems
<1> DEFINE pair == Chained(p, q)
           further == Chained(body, pair)
           more == Chained(items, <<a, b>>)
<1>4. AreItems(pair, <<a, b>>)
  BY TwoItems
<1>5. AreItems(further, more)
  <2> HIDE DEF pair, further, more
  <2>1. further = Chained(body, pair)
    BY DEF further
  <2>2. more = Chained(items, <<a, b>>)
    BY DEF more
  <2>. QED BY <1>2, <1>4, <2>1, <2>2, MoreItems
<1>6. Chained(Chained(front, p), q) = Chained(h, further)
  <2>1. pair \in Seq(Nat)
    BY <1>4 DEF AreItems
  <2>2. front \in Seq(Nat)
    BY <1>2, <1>3 DEF Chained
  <2>3. Chained(Chained(front, p), q) = Chained(front, pair)
    BY <1>1, <2>2, Regrouped
  <2> HIDE DEF pair
  <2>4. Chained(front, pair) = Chained(h, further)
    BY <1>2, <1>3, <2>1, Regrouped
  <2>. QED BY <2>3, <2>4
<1> HIDE DEF further, more
<1>7. Opens(Chained(Chained(front, p), q), h, more)
  BY <1>5, <1>6 DEF Opens
<1>. QED BY <1>7 DEF more

Counts(items, word, kind) == Len(items) = Value(word) * (IF kind = "map" THEN 2 ELSE 1)

\* The container, by itself, and as the last piece of another.
LEMMA Closed ==
  ASSUME NEW h, NEW word, NEW kind \in {"array", "map"}, IsHeadOf(h, kind, word),
         NEW front, NEW items, Opens(front, h, items),
         Counts(items, word, kind),
         NEW item, item = [kind |-> kind, value |-> items]
  PROVE  IsItem(front, item)
<1>1. PICK body : front = Chained(h, body) /\ AreItems(body, items)
  BY DEF Opens
<1>. QED BY <1>1, ContainerItem DEF Counts

LEMMA ClosedWithin ==
  ASSUME NEW h, NEW word, NEW kind \in {"array", "map"}, IsHeadOf(h, kind, word), NEW before \in Seq(Nat),
         NEW front, NEW items, Opens(front, Chained(before, h), items),
         Counts(items, word, kind),
         NEW item, item = [kind |-> kind, value |-> items]
  PROVE  \E part : IsItem(part, item) /\ front = Chained(before, part)
<1>1. PICK body : front = Chained(Chained(before, h), body) /\ AreItems(body, items)
  BY DEF Opens
<1> DEFINE part == Chained(h, body)
<1>2. h \in Seq(Nat) /\ body \in Seq(Nat)
  BY <1>1 DEF AreItems, IsHeadOf, IsHead
<1>3. front = Chained(before, part)
  BY <1>1, <1>2, Regrouped
<1>4. part = Chained(h, body)
  OBVIOUS
<1> HIDE DEF part
<1>5. IsItem(part, item)
  BY <1>1, <1>4, ContainerItem DEF Counts
<1>. QED BY <1>3, <1>5

\* The pieces that the library writes by hand: strings of a known length, and words
\* of a fixed width.
LEMMA ShortString ==
  ASSUME NEW s \in Seq(Nat), NEW n \in 0..23, Len(s) = n, NEW x, x = 64 + n, NEW h, h = <<x>>,
         NEW all, all = Chained(h, s)
  PROVE  h \in Seq(Nat) /\ IsItem(all, AsBytes(s))
<1> DEFINE t == 2
           kind == "bytes"
           word == Word(<<n>>)
           item == AsBytes(s)
<1>1. t \in 0..5 /\ n \in 0..23 /\ x = 32 * t + n /\ kind = Kinds[t + 1] /\ kind \in {"bytes", "text"}
  BY KindsTold
<1>2. item = [kind |-> kind, value |-> s]
  BY DEF AsBytes
<1>3. word = Word(<<n>>)
  OBVIOUS
<1> HIDE DEF t, kind, word, item
<1>4. IsHeadOf(h, kind, word) /\ Value(word) = n /\ h \in Seq(Nat)
  BY <1>1, <1>3, SmallHead, ZenonT(30)
<1>5. IsItem(all, item)
  BY <1>1, <1>2, <1>4, StringItem
<1>. QED BY <1>4, <1>5 DEF item

IsAddress(address) == address \in Seq(Nat) /\ Len(address) = 21
IsToken(token) == token \in Seq(Nat) /\ Len(token) <= 19
IsAmount(word) == Canonical(word) /\ Len(word) <= 16
IsReceipt(word) == Canonical(word) /\ Len(word) <= 8

LEMMA AddressIsItem ==
  ASSUME NEW address, IsAddress(address)
  PROVE  IsItem(Address(address), AsBytes(address))
<1> DEFINE x == 85
           n == 21
           h == <<x>>
           all == Address(address)
<1>1. address \in Seq(Nat) /\ Len(address) = n /\ n \in 0..23 /\ x = 64 + n /\ h = <<x>>
  BY DEF IsAddress
<1>2. all = Chained(h, address)
  BY DEF Address, Chained
<1> HIDE DEF x, n, h, all
<1>3. IsItem(all, AsBytes(address))
  BY <1>1, <1>2, ShortString
<1>. QED BY <1>3 DEF all

LEMMA AmountIsItem ==
  ASSUME NEW amount, IsAmount(amount)
  PROVE  IsItem(Uint128(amount), AsBytes(Padded(amount, 16)))
<1> DEFINE x == 80
           n == 16
           h == <<x>>
           all == Uint128(amount)
           padded == Padded(amount, 16)
<1>1. padded \in Seq(Nat) /\ Len(padded) = n
  <2>1. Canonical(amount) /\ Len(amount) <= 16
    BY DEF IsAmount
  <2>2. Canonical(amount) /\ n \in Nat /\ Len(amount) <= n
    BY <2>1
  <2>. QED BY <2>2, PaddedWord
<1>2. n \in 0..23 /\ x = 64 + n /\ h = <<x>>
  OBVIOUS
<1>3. all = Chained(h, padded)
  BY DEF Uint128, Chained
<1> HIDE DEF x, n, h, all, padded
<1>4. IsItem(all, AsBytes(padded))
  BY <1>1, <1>2, <1>3, ShortString
<1>. QED BY <1>4 DEF all, padded

LEMMA UpTo19 ==
  \A n \in Nat : n <= 19 => n \in 0..23
OBVIOUS

\* After <<64 + Len(token)>>, the bytes of token.
LEMMA TokenIsItem ==
  ASSUME NEW token, IsToken(token), NEW x, x = 64 + Len(token), NEW h, h = <<x>>
  PROVE  h \in Seq(Nat) /\ IsItem(Chained(h, token), AsBytes(token))
<1> DEFINE n == Len(token)
<1>1. token \in Seq(Nat) /\ n = Len(token) /\ x = 64 + n
  BY DEF IsToken
<1>2. n \in Nat /\ n <= 19
  BY DEF IsToken
<1> HIDE DEF n
<1>3. n \in 0..23
  BY <1>2, UpTo19
<1>. QED BY <1>1, <1>3, ShortString

LEMMA NoTokenIsItem ==
  ASSUME NEW x, x = 64, NEW h, h = <<x>>
  PROVE  IsItem(h, AsBytes(<< >>))
<1> DEFINE n == 0
           s == << >>
<1>1. s \in Seq(Nat) /\ Len(s) = n /\ n \in 0..23 /\ x = 64 + n /\ h = <<x>>
  OBVIOUS
<1>2. h = Chained(h, s)
  BY DEF Chained
<1> HIDE DEF n, s
<1>3. IsItem(h, AsBytes(s))
  BY <1>1, <1>2, ShortString
<1>. QED BY <1>3 DEF s

\* The receipt ids that Uint64 is used for have more than four bytes: their
\* shortest form is the one of eight.
LEMMA ReceiptIsItem ==
  ASSUME NEW receiptId, IsReceipt(receiptId), Len(receiptId) > 4
  PROVE  IsItem(Uint64(receiptId), AsUint(receiptId))
<1> DEFINE n == Len(receiptId)
<1>1. Canonical(receiptId) /\ n \in 5..8
  <2>1. Canonical(receiptId) /\ n \in Nat /\ n <= 8 /\ n > 4
    BY DEF IsReceipt, Canonical
  <2> HIDE DEF n
  <2>. QED BY <2>1
<1>2. encodeUint(receiptId) = Uint64(receiptId)
  <2>1. ~ (n = 0) /\ ~ (n = 1) /\ ~ (n <= 2) /\ ~ (n <= 4) /\ n <= 8
    <3> HIDE DEF n
    <3>. QED BY <1>1
  <2>2. encodeUint(receiptId) = <<27>> \o Padded(receiptId, 8)
    BY <2>1 DEF encodeUint
  <2>. QED BY <2>2 DEF Uint64
<1>3. n <= 8 /\ n <= 16
  <2> HIDE DEF n
  <2>. QED BY <1>1
<1>4. IsItem(encodeUint(receiptId), IF n <= 8 THEN AsUint(receiptId) ELSE AsBytes(Padded(receiptId, 16)))
  BY <1>1, <1>3, UintIsItem
<1>. QED BY <1>2, <1>3, <1>4

LEMMA ByteIsItem ==
  ASSUME NEW b \in 1..23, NEW h, h = <<b>>
  PROVE  IsItem(h, AsUint(h))
<1> DEFINE t == 0
           kind == "uint"
           word == Word(<<b>>)
<1>1. t \in 0..5 /\ b \in 0..23 /\ b = 32 * t + b /\ kind = Kinds[t + 1] /\ word = Word(<<b>>)
  BY KindsTold
<1>2. word = h
  <2>1. b \in Nat /\ b # 0
    OBVIOUS
  <2>. QED BY <2>1, SmallWords
<1> HIDE DEF t, word, kind
<1>3. IsHeadOf(h, kind, word)
  BY <1>1, SmallHead
<1>4. IsItem(h, AsUint(word))
  BY <1>3, IntegerItem DEF kind
<1>. QED BY <1>2, <1>4

\* The keys.
LEMMA KeyIsItem ==
  ASSUME NEW len \in 0..23, NEW letter \in Nat, NEW key, key = Key(len, letter)
  PROVE  IsItem(Text(key), AsText(key)) /\ Text(key) \in Seq(Nat)
<1>1. IsItem(Text(key), AsText(key))
  BY TextIsItem
<1>. QED BY <1>1 DEF IsItem

LEMMA KeysAreItems ==
  /\ \A key \in {ToKey, FromKey, AmountArg, SharesArg, ReceiptArg, IdKey, KindKey} :
       IsItem(Text(key), AsText(key)) /\ Text(key) \in Seq(Nat)
  /\ \A key \in {BodyKey, PkKey, DataKey, EpochArg, NonceKey, FormatKey} :
       IsItem(Text(key), AsText(key)) /\ Text(key) \in Seq(Nat)
<1>1. /\ \A key \in {ToKey, FromKey, AmountArg, SharesArg, ReceiptArg, IdKey, KindKey} :
           \E len \in 0..23, letter \in Nat : key = Key(len, letter)
      /\ \A key \in {BodyKey, PkKey, DataKey, EpochArg, NonceKey, FormatKey} :
           \E len \in 0..23, letter \in Nat : key = Key(len, letter)
  <2>1. /\ 2 \in 0..23 /\ 4 \in 0..23 /\ 5 \in 0..23 /\ 6 \in 0..23 /\ 7 \in 0..23
        /\ 116 \in Nat /\ 102 \in Nat /\ 97 \in Nat /\ 115 \in Nat /\ 114 \in Nat /\ 105 \in Nat
        /\ 107 \in Nat /\ 98 \in Nat /\ 112 \in Nat /\ 100 \in Nat /\ 101 \in Nat /\ 110 \in Nat
    OBVIOUS
  <2>. QED BY <2>1, ZenonT(40) DEF ToKey, FromKey, AmountArg, SharesArg, ReceiptArg, IdKey, KindKey,
                            BodyKey, PkKey, DataKey, EpochArg, NonceKey, FormatKey
<1>2. ASSUME NEW key, \E len \in 0..23, letter \in Nat : key = Key(len, letter)
      PROVE  IsItem(Text(key), AsText(key)) /\ Text(key) \in Seq(Nat)
  BY <1>2, KeyIsItem
<1>. QED BY <1>1, <1>2, Zenon

\* A map of n pairs, its head being one byte.
LEMMA MapHead ==
  ASSUME NEW n \in 0..23, NEW x, x = 160 + n, NEW h, h = <<x>>
  PROVE  h \in Seq(Nat) /\ \E word : IsHeadOf(h, "map", word) /\ Value(word) = n
<1> DEFINE t == 5
           kind == "map"
           word == Word(<<n>>)
<1>1. t \in 0..5 /\ x = 32 * t + n /\ kind = Kinds[t + 1] /\ word = Word(<<n>>)
  BY KindsTold
<1> HIDE DEF t, kind, word
<1>2. IsHeadOf(h, kind, word) /\ Value(word) = n /\ h \in Seq(Nat)
  BY <1>1, SmallHead, ZenonT(30)
<1>. QED BY <1>2 DEF kind

LEMMA MapIsItem ==
  ASSUME NEW n \in 0..23, NEW x, x = 160 + n, NEW h, h = <<x>>,
         NEW front, NEW items, Opens(front, h, items), Len(items) = n * 2
  PROVE  IsItem(front, AsMap(items))
<1> DEFINE item == AsMap(items)
           kind == "map"
<1>1. PICK word : IsHeadOf(h, "map", word) /\ Value(word) = n
  BY MapHead
<1>2. item = [kind |-> kind, value |-> items] /\ kind \in {"array", "map"}
      /\ (IF kind = "map" THEN 2 ELSE 1) = 2
  BY DEF AsMap
<1>3. IsHeadOf(h, kind, word)
  BY <1>1
<1> HIDE DEF item, kind
<1>4. Counts(items, word, kind)
  BY <1>1, <1>2 DEF Counts
<1>5. IsItem(front, item)
  BY <1>2, <1>3, <1>4, Closed
<1>. QED BY <1>5 DEF item

LEMMA ArrayHead ==
  ASSUME NEW n \in 0..23, NEW x, x = 128 + n, NEW h, h = <<x>>
  PROVE  h \in Seq(Nat) /\ \E word : IsHeadOf(h, "array", word) /\ Value(word) = n
<1> DEFINE t == 4
           kind == "array"
           word == Word(<<n>>)
<1>1. t \in 0..5 /\ x = 32 * t + n /\ kind = Kinds[t + 1] /\ word = Word(<<n>>)
  BY KindsTold
<1> HIDE DEF t, kind, word
<1>2. IsHeadOf(h, kind, word) /\ Value(word) = n /\ h \in Seq(Nat)
  BY <1>1, SmallHead, ZenonT(30)
<1>. QED BY <1>2 DEF kind

PairHead == <<130>>

LEMMA PairHeadTold ==
  PairHead \in Seq(Nat) /\ \E word : IsHeadOf(PairHead, "array", word) /\ Value(word) = 2
<1> DEFINE x == 130
           n == 2
           h == <<x>>
<1>1. n \in 0..23 /\ x = 128 + n /\ h = <<x>>
  OBVIOUS
<1> HIDE DEF n, x, h
<1>2. h \in Seq(Nat) /\ \E word : IsHeadOf(h, "array", word) /\ Value(word) = n
  BY <1>1, ArrayHead
<1>. QED BY <1>2 DEF n, x, h, PairHead

IsPairHead(h) == h = PairHead

LEMMA PairWithin ==
  ASSUME NEW h, IsPairHead(h), NEW before \in Seq(Nat),
         NEW front, NEW items, Opens(front, Chained(before, h), items), Len(items) = 2
  PROVE  \E part : IsItem(part, AsArray(items)) /\ front = Chained(before, part)
<1> DEFINE item == AsArray(items)
           kind == "array"
<1>1. PICK word : IsHeadOf(h, "array", word) /\ Value(word) = 2
  BY PairHeadTold DEF IsPairHead
<1>2. item = [kind |-> kind, value |-> items] /\ kind \in {"array", "map"}
      /\ (IF kind = "map" THEN 2 ELSE 1) = 1
  BY DEF AsArray
<1>3. IsHeadOf(h, kind, word)
  BY <1>1
<1> HIDE DEF item, kind
<1>4. Counts(items, word, kind)
  BY <1>1, <1>2 DEF Counts
<1>5. kind \in {"array", "map"}
  BY <1>2
<1>6. item = [kind |-> kind, value |-> items]
  BY <1>2
<1>7. \E part : IsItem(part, item) /\ front = Chained(before, part)
  BY <1>3, <1>4, <1>5, <1>6, ClosedWithin
<1>. QED BY <1>7 DEF item

\* An amount and its token are an array of two strings.
LEMMA CoinsAreItem ==
  ASSUME NEW before \in Seq(Nat), NEW h, h = PairHead, NEW p, NEW a, IsItem(p, a),
         NEW q, NEW b, IsItem(q, b)
  PROVE  \E part : /\ IsItem(part, AsArray(<<a, b>>))
                   /\ Chained(Chained(Chained(before, h), p), q) = Chained(before, part)
<1> DEFINE items == <<a, b>>
           all == Chained(Chained(Chained(before, h), p), q)
<1>1. Chained(before, h) \in Seq(Nat)
  BY PairHeadTold DEF Chained
<1>2. Opens(all, Chained(before, h), items)
  BY <1>1, FirstPair
<1>3. Len(items) = 2
  BY Pairs
<1> HIDE DEF items, all
<1>4. \E part : IsItem(part, AsArray(items)) /\ all = Chained(before, part)
  BY <1>2, <1>3, PairWithin DEF IsPairHead
<1>. QED BY <1>4 DEF all, items

\* The fields of the requests, each a pair of the runtime's map.
ToField(address) == <<AsText(ToKey), AsBytes(address)>>
FromField(address) == <<AsText(FromKey), AsBytes(address)>>
CoinsField(amount, token) ==
  <<AsText(AmountArg), AsArray(<<AsBytes(Padded(amount, 16)), AsBytes(token)>>)>>
SharesField(amount) == <<AsText(SharesArg), AsBytes(Padded(amount, 16))>>
ReceiptField(receiptId) == <<AsText(ReceiptArg), AsUint(receiptId)>>
IdField(receiptId) == <<AsText(IdKey), AsUint(receiptId)>>
KindField(kind) == <<AsText(KindKey), AsUint(<<kind>>)>>

LEMMA CoinsOpen ==
  ASSUME NEW h \in Seq(Nat), NEW front, NEW items, Opens(front, h, items), NEW amount, IsAmount(amount),
         NEW q, NEW token, IsItem(q, AsBytes(token)), NEW all,
         all = Chained(Chained(Chained(Chained(front, Text(AmountArg)), PairHead), Uint128(amount)), q)
  PROVE  Opens(all, h, Chained(items, CoinsField(amount, token)))
<1> DEFINE before == Chained(front, Text(AmountArg))
           key == AsText(AmountArg)
           pair == AsArray(<<AsBytes(Padded(amount, 16)), AsBytes(token)>>)
<1>1. IsItem(Text(AmountArg), key) /\ Text(AmountArg) \in Seq(Nat)
  BY KeysAreItems
<1>2. before \in Seq(Nat)
  <2>1. front \in Seq(Nat)
    <3>1. PICK body : front = Chained(h, body) /\ AreItems(body, items)
      BY DEF Opens
    <3>. QED BY <3>1 DEF AreItems, Chained
  <2>. QED BY <1>1, <2>1 DEF Chained
<1>3. IsItem(Uint128(amount), AsBytes(Padded(amount, 16)))
  BY AmountIsItem
<1>4. PICK part : /\ IsItem(part, pair)
                  /\ Chained(Chained(Chained(before, PairHead), Uint128(amount)), q) = Chained(before, part)
  <2> HIDE DEF before
  <2>. QED BY <1>2, <1>3, CoinsAreItem
<1>5. all = Chained(before, part)
  BY <1>4
<1>6. CoinsField(amount, token) = <<key, pair>>
  BY DEF CoinsField
<1> HIDE DEF key, pair
<1>7. Opens(Chained(before, part), h, Chained(items, <<key, pair>>))
  BY <1>1, <1>4, NextPair
<1> HIDE DEF before
<1>. QED BY <1>5, <1>6, <1>7

LEMMA ReceiptOpen ==
  ASSUME NEW h \in Seq(Nat), NEW front, NEW items, Opens(front, h, items), NEW receiptId, IsReceipt(receiptId),
         Len(receiptId) > 4, NEW all, all = Chained(Chained(front, Text(ReceiptArg)), Uint64(receiptId))
  PROVE  Opens(all, h, Chained(items, ReceiptField(receiptId)))
<1>1. IsItem(Text(ReceiptArg), AsText(ReceiptArg))
  BY KeysAreItems
<1>2. IsItem(Uint64(receiptId), AsUint(receiptId))
  BY ReceiptIsItem
<1>3. Opens(Chained(Chained(front, Text(ReceiptArg)), Uint64(receiptId)), h,
            Chained(items, <<AsText(ReceiptArg), AsUint(receiptId)>>))
  BY <1>1, <1>2, NextPair
<1>. QED BY <1>3 DEF ReceiptField

LEMMA AddressOpens ==
  ASSUME NEW h \in Seq(Nat), NEW address, IsAddress(address)
  PROVE  /\ Opens(Chained(Chained(h, Text(ToKey)), Address(address)), h, ToField(address))
         /\ Opens(Chained(Chained(h, Text(FromKey)), Address(address)), h, FromField(address))
<1>1. IsItem(Text(ToKey), AsText(ToKey)) /\ IsItem(Text(FromKey), AsText(FromKey))
  BY KeysAreItems
<1>2. IsItem(Address(address), AsBytes(address))
  BY AddressIsItem
<1>3. Opens(Chained(Chained(h, Text(ToKey)), Address(address)), h, <<AsText(ToKey), AsBytes(address)>>)
  BY <1>1, <1>2, FirstPair
<1>4. Opens(Chained(Chained(h, Text(FromKey)), Address(address)), h, <<AsText(FromKey), AsBytes(address)>>)
  BY <1>1, <1>2, FirstPair
<1>. QED BY <1>3, <1>4 DEF ToField, FromField

\* Fields are lists of two items each.
IsFields(items, n) == Listed(items) /\ n \in Nat /\ Len(items) = n * 2

LEMMA FieldsJoin ==
  ASSUME NEW items, NEW more, NEW n, NEW m, IsFields(items, n), IsFields(more, m)
  PROVE  IsFields(Chained(items, more), n + m)
<1>1. Listed(items \o more) /\ Len(items \o more) = Len(items) + Len(more)
  BY ListsJoin DEF IsFields
<1> DEFINE all == items \o more
<1> HIDE DEF all
<1>2. n \in Nat /\ m \in Nat /\ Len(items) = n * 2 /\ Len(more) = m * 2
  BY DEF IsFields
<1>3. n + m \in Nat /\ Len(items) + Len(more) = (n + m) * 2
  BY <1>2
<1>. QED BY <1>1, <1>3 DEF IsFields, Chained, all

LEMMA OneField ==
  ASSUME NEW a, NEW b
  PROVE  IsFields(<<a, b>>, 1)
<1>1. Listed(<<a, b>>) /\ Len(<<a, b>>) = 2
  BY Pairs
<1>. QED BY <1>1 DEF IsFields

LEMMA FieldsAreFields ==
  /\ \A address : IsFields(ToField(address), 1) /\ IsFields(FromField(address), 1)
  /\ \A amount : IsFields(SharesField(amount), 1)
  /\ \A amount, token : IsFields(CoinsField(amount, token), 1)
  /\ \A receiptId : IsFields(ReceiptField(receiptId), 1) /\ IsFields(IdField(receiptId), 1)
  /\ \A kind : IsFields(KindField(kind), 1)
BY OneField, Zenon DEF ToField, FromField, SharesField, CoinsField, ReceiptField, IdField, KindField

\* A map of so many fields.
LEMMA FieldsAreMap ==
  ASSUME NEW n \in 0..23, NEW x, x = 160 + n, NEW h, h = <<x>>,
         NEW front, NEW items, Opens(front, h, items), IsFields(items, n)
  PROVE  IsItem(front, AsMap(items))
<1>1. Len(items) = n * 2
  BY DEF IsFields
<1>. QED BY <1>1, MapIsItem

\* The heads of the maps of two and of three fields.
TwoFields == <<162>>
ThreeFields == <<163>>

LEMMA FieldHeads ==
  /\ TwoFields \in Seq(Nat) /\ ThreeFields \in Seq(Nat)
  /\ \A front, items : Opens(front, TwoFields, items) /\ IsFields(items, 2) => IsItem(front, AsMap(items))
  /\ \A front, items : Opens(front, ThreeFields, items) /\ IsFields(items, 3) => IsItem(front, AsMap(items))
<1>1. TwoFields \in Seq(Nat) /\ ThreeFields \in Seq(Nat)
  BY DEF TwoFields, ThreeFields
<1>2. ASSUME NEW front, NEW items, Opens(front, TwoFields, items), IsFields(items, 2)
      PROVE  IsItem(front, AsMap(items))
  <2> DEFINE n == 2
             x == 162
             h == TwoFields
  <2>1. n \in 0..23 /\ x = 160 + n /\ h = <<x>>
    BY DEF TwoFields
  <2>2. Opens(front, h, items)
    BY <1>2
  <2>3. IsFields(items, n)
    BY <1>2
  <2> HIDE DEF n, x, h
  <2>. QED BY <2>1, <2>2, <2>3, FieldsAreMap
<1>3. ASSUME NEW front, NEW items, Opens(front, ThreeFields, items), IsFields(items, 3)
      PROVE  IsItem(front, AsMap(items))
  <2> DEFINE n == 3
             x == 163
             h == ThreeFields
  <2>1. n \in 0..23 /\ x = 160 + n /\ h = <<x>>
    BY DEF ThreeFields
  <2>2. Opens(front, h, items)
    BY <1>3
  <2>3. IsFields(items, n)
    BY <1>3
  <2> HIDE DEF n, x, h
  <2>. QED BY <2>1, <2>2, <2>3, FieldsAreMap
<1>. QED BY <1>1, <1>2, <1>3, Zenon

LEMMA TwoOfThem ==
  ASSUME NEW a, NEW b, IsFields(a, 1), IsFields(b, 1)
  PROVE  IsFields(Chained(a, b), 2)
<1>1. IsFields(Chained(a, b), 1 + 1)
  BY FieldsJoin
<1>. QED BY <1>1

LEMMA ThreeOfThem ==
  ASSUME NEW a, NEW b, NEW c, IsFields(a, 1), IsFields(b, 1), IsFields(c, 1)
  PROVE  IsFields(Chained(Chained(a, b), c), 3)
<1>1. IsFields(Chained(a, b), 2)
  BY TwoOfThem
<1>2. IsFields(Chained(Chained(a, b), c), 2 + 1)
  BY <1>1, FieldsJoin
<1>. QED BY <1>2

\* Each request is the map of its fields.
LEMMA ToAndAmountIsItem ==
  ASSUME NEW address, IsAddress(address), NEW amount, IsAmount(amount), NEW token, IsToken(token)
  PROVE  IsItem(toAndAmount(address, amount, token), AsMap(ToField(address) \o CoinsField(amount, token)))
<1> DEFINE x == 64 + Len(token)
           head == <<x>>
           q == Chained(head, token)
           front == Chained(Chained(TwoFields, Text(ToKey)), Address(address))
           coins == Chained(Chained(Chained(front, Text(AmountArg)), PairHead), Uint128(amount))
           all == Chained(coins, q)
           items == Chained(ToField(address), CoinsField(amount, token))
<1>1. head \in Seq(Nat) /\ IsItem(q, AsBytes(token)) /\ token \in Seq(Nat)
  <2>1. x = 64 + Len(token) /\ head = <<x>>
    OBVIOUS
  <2> HIDE DEF x, head
  <2>. QED BY <2>1, TokenIsItem DEF IsToken
<1>2. Opens(front, TwoFields, ToField(address))
  BY FieldHeads, AddressOpens
<1>3. all = Chained(Chained(Chained(Chained(front, Text(AmountArg)), PairHead), Uint128(amount)), q)
  OBVIOUS
<1> HIDE DEF front, coins, all, items
<1>4. Opens(all, TwoFields, Chained(ToField(address), CoinsField(amount, token)))
  <2> HIDE DEF q
  <2>. QED BY <1>1, <1>2, <1>3, FieldHeads, CoinsOpen
<1>5. IsFields(items, 2)
  BY FieldsAreFields, TwoOfThem DEF items
<1>6. IsItem(all, AsMap(items))
  BY <1>4, <1>5, FieldHeads DEF items
<1>7. toAndAmount(address, amount, token) = Chained(Chained(coins, head), token)
  <2>1. ~ (Len(token) > 19)
    <3> DEFINE n == Len(token)
    <3>1. n \in Nat /\ n <= 19
      BY DEF IsToken
    <3> HIDE DEF n
    <3>2. ~ (n > 19)
      BY <3>1
    <3>. QED BY <3>2 DEF n
  <2>2. toAndAmount(address, amount, token) =
          <<162>> \o Text(ToKey) \o Address(address) \o Text(AmountArg) \o <<130>> \o Uint128(amount)
            \o <<64 + Len(token)>> \o token
    BY <2>1, Zenon DEF toAndAmount
  <2>. QED BY <2>2, Zenon DEF Chained, coins, front, head, x, TwoFields, PairHead
<1>8. Chained(Chained(coins, head), token) = all
  <2>1. coins \in Seq(Nat)
    <3>1. /\ TwoFields \in Seq(Nat) /\ Text(ToKey) \in Seq(Nat) /\ Text(AmountArg) \in Seq(Nat)
          /\ Address(address) \in Seq(Nat) /\ PairHead \in Seq(Nat) /\ Uint128(amount) \in Seq(Nat)
      BY FieldHeads, KeysAreItems, AddressIsItem, AmountIsItem, PairHeadTold DEF IsItem
    <3>. QED BY <3>1 DEF coins, front, Chained
  <2> HIDE DEF head
  <2>. QED BY <1>1, <2>1, Regrouped DEF all, q
<1>. QED BY <1>6, <1>7, <1>8 DEF items, Chained

LEMMA DelegateIsItem ==
  ASSUME NEW address, IsAddress(address), NEW amount, IsAmount(amount),
         NEW receiptId, IsReceipt(receiptId), Len(receiptId) > 4
  PROVE  IsItem(delegateWithReceipt(address, amount, receiptId),
                AsMap(ToField(address) \o CoinsField(amount, << >>) \o ReceiptField(receiptId)))
<1> DEFINE q == <<64>>
           front == Chained(Chained(ThreeFields, Text(ToKey)), Address(address))
           coins == Chained(Chained(Chained(Chained(front, Text(AmountArg)), PairHead), Uint128(amount)), q)
           two == Chained(ToField(address), CoinsField(amount, << >>))
           all == Chained(Chained(coins, Text(ReceiptArg)), Uint64(receiptId))
           items == Chained(two, ReceiptField(receiptId))
<1>1. IsItem(q, AsBytes(<< >>))
  <2> DEFINE x == 64
  <2>1. x = 64 /\ q = <<x>>
    OBVIOUS
  <2> HIDE DEF x, q
  <2>. QED BY <2>1, NoTokenIsItem
<1>2. Opens(front, ThreeFields, ToField(address))
  BY FieldHeads, AddressOpens
<1>3. coins = Chained(Chained(Chained(Chained(front, Text(AmountArg)), PairHead), Uint128(amount)), q)
      /\ all = Chained(Chained(coins, Text(ReceiptArg)), Uint64(receiptId))
  OBVIOUS
<1>4. delegateWithReceipt(address, amount, receiptId) = all
  <2>1. UsableReceipt(receiptId)
    BY DEF UsableReceipt
  <2>2. delegateWithReceipt(address, amount, receiptId) =
          <<163>> \o Text(ToKey) \o Address(address) \o Text(AmountArg) \o <<130>> \o Uint128(amount)
            \o <<64>> \o Text(ReceiptArg) \o Uint64(receiptId)
    BY <2>1, Zenon DEF delegateWithReceipt
  <2>. QED BY <2>2, Zenon DEF Chained, coins, front, q, all, ThreeFields, PairHead
<1> HIDE DEF front, coins, all, items, q, two
<1>5. Opens(coins, ThreeFields, two)
  BY <1>1, <1>2, <1>3, FieldHeads, CoinsOpen DEF two
<1>6. Opens(all, ThreeFields, items)
  BY <1>3, <1>5, FieldHeads, ReceiptOpen DEF items
<1>7. IsFields(items, 3)
  BY FieldsAreFields, ThreeOfThem DEF items, two
<1>8. IsItem(all, AsMap(items))
  BY <1>6, <1>7, FieldHeads
<1>. QED BY <1>4, <1>8 DEF items, two, Chained

LEMMA SharesOpen ==
  ASSUME NEW h \in Seq(Nat), NEW address, IsAddress(address), NEW amount, IsAmount(amount)
  PROVE  Opens(Chained(Chained(Chained(Chained(h, Text(FromKey)), Address(address)), Text(SharesArg)), Uint128(amount)), h,
               Chained(FromField(address), SharesField(amount)))
<1> DEFINE front == Chained(Chained(h, Text(FromKey)), Address(address))
<1>1. Opens(front, h, FromField(address))
  BY AddressOpens
<1>2. IsItem(Text(SharesArg), AsText(SharesArg))
  BY KeysAreItems
<1>3. IsItem(Uint128(amount), AsBytes(Padded(amount, 16)))
  BY AmountIsItem
<1> HIDE DEF front
<1>4. Opens(Chained(Chained(front, Text(SharesArg)), Uint128(amount)), h,
            Chained(FromField(address), <<AsText(SharesArg), AsBytes(Padded(amount, 16))>>))
  BY <1>1, <1>2, <1>3, NextPair
<1>. QED BY <1>4 DEF front, SharesField

LEMMA UndelegateIsItem ==
  ASSUME NEW address, IsAddress(address), NEW amount, IsAmount(amount)
  PROVE  IsItem(undelegate(address, amount), AsMap(FromField(address) \o SharesField(amount)))
<1> DEFINE all == Chained(Chained(Chained(Chained(TwoFields, Text(FromKey)), Address(address)),
                                  Text(SharesArg)), Uint128(amount))
           items == Chained(FromField(address), SharesField(amount))
<1>1. Opens(all, TwoFields, items)
  BY FieldHeads, SharesOpen
<1>2. undelegate(address, amount) = all
  BY Zenon DEF undelegate, Chained, TwoFields
<1> HIDE DEF all, items
<1>3. IsFields(items, 2)
  BY FieldsAreFields, TwoOfThem DEF items
<1>4. IsItem(all, AsMap(items))
  BY <1>1, <1>3, FieldHeads
<1>. QED BY <1>2, <1>4 DEF items, Chained

LEMMA UndelegateReceiptIsItem ==
  ASSUME NEW address, IsAddress(address), NEW amount, IsAmount(amount),
         NEW receiptId, IsReceipt(receiptId), Len(receiptId) > 4
  PROVE  IsItem(undelegateWithReceipt(address, amount, receiptId),
                AsMap(FromField(address) \o SharesField(amount) \o ReceiptField(receiptId)))
<1> DEFINE front == Chained(Chained(Chained(Chained(ThreeFields, Text(FromKey)), Address(address)),
                                    Text(SharesArg)), Uint128(amount))
           two == Chained(FromField(address), SharesField(amount))
           all == Chained(Chained(front, Text(ReceiptArg)), Uint64(receiptId))
           items == Chained(two, ReceiptField(receiptId))
<1>1. Opens(front, ThreeFields, two)
  BY FieldHeads, SharesOpen
<1>2. undelegateWithReceipt(address, amount, receiptId) = all
  <2>1. UsableReceipt(receiptId)
    BY DEF UsableReceipt
  <2>. QED BY <2>1, Zenon DEF undelegateWithReceipt, Chained, ThreeFields
<1>3. all = Chained(Chained(front, Text(ReceiptArg)), Uint64(receiptId))
  OBVIOUS
<1> HIDE DEF front, two, all, items
<1>4. Opens(all, ThreeFields, items)
  BY <1>1, <1>3, FieldHeads, ReceiptOpen DEF items
<1>5. IsFields(items, 3)
  BY FieldsAreFields, ThreeOfThem DEF items, two
<1>6. IsItem(all, AsMap(items))
  BY <1>4, <1>5, FieldHeads
<1>. QED BY <1>2, <1>6 DEF items, two, Chained

LEMMA TakeReceiptIsItem ==
  ASSUME NEW kind \in 1..23, NEW receiptId, IsReceipt(receiptId), Len(receiptId) > 4
  PROVE  IsItem(takeReceipt(kind, receiptId), AsMap(IdField(receiptId) \o KindField(kind)))
<1> DEFINE k == <<kind>>
           front == Chained(Chained(TwoFields, Text(IdKey)), Uint64(receiptId))
           all == Chained(Chained(front, Text(KindKey)), k)
           items == Chained(IdField(receiptId), KindField(kind))
<1>1. IsItem(k, AsUint(k))
  BY ByteIsItem
<1>2. IsItem(Text(IdKey), AsText(IdKey)) /\ IsItem(Text(KindKey), AsText(KindKey))
  BY KeysAreItems
<1>3. IsItem(Uint64(receiptId), AsUint(receiptId))
  BY ReceiptIsItem
<1>4. takeReceipt(kind, receiptId) = all
  <2>1. ~ (receiptId = << >>) /\ ~ (kind \notin 1..23)
    OBVIOUS
  <2>. QED BY <2>1, Zenon DEF takeReceipt, Chained, TwoFields
<1>5. Opens(front, TwoFields, <<AsText(IdKey), AsUint(receiptId)>>)
  BY <1>2, <1>3, FieldHeads, FirstPair
<1>6. KindField(kind) = <<AsText(KindKey), AsUint(k)>>
  BY DEF KindField
<1>7. IdField(receiptId) = <<AsText(IdKey), AsUint(receiptId)>>
  BY DEF IdField
<1>8. all = Chained(Chained(front, Text(KindKey)), k)
  OBVIOUS
<1> HIDE DEF k, front, all, items
<1>9. Opens(Chained(Chained(front, Text(KindKey)), k), TwoFields,
            Chained(IdField(receiptId), <<AsText(KindKey), AsUint(k)>>))
  BY <1>1, <1>2, <1>5, <1>7, FieldHeads, NextPair
<1>10. Opens(all, TwoFields, items)
  BY <1>6, <1>8, <1>9 DEF items
<1>11. IsFields(items, 2)
  BY FieldsAreFields, TwoOfThem DEF items
<1>12. IsItem(all, AsMap(items))
  BY <1>10, <1>11, FieldHeads
<1>. QED BY <1>4, <1>12 DEF items, Chained

\* A decoder takes no number of fewer bytes in a form of eight.
Refused(part) ==
  /\ part \in Seq(Nat) /\ Len(part) >= 1
  /\ \A bytes \in Seq(Nat), at \in Nat :
       Holds(bytes, at, part) => CborDecode(bytes, at, CborContents(bytes)) = NoItem

LEMMA ShortReceiptRefused ==
  ASSUME NEW receiptId, IsReceipt(receiptId), Len(receiptId) <= 4
  PROVE  Refused(Uint64(receiptId))
<1> DEFINE x == 27
           width == 8
           s == Padded(receiptId, width)
           part == Uint64(receiptId)
<1>1. /\ x \in Nat /\ width \in Nat /\ width = HeadWidth(4) /\ x % 32 = 27 /\ x < 192
      /\ width \div 2 = 4 /\ width # 1
  BY Widths DEF HeadWidth
<1>2. Canonical(receiptId) /\ Len(receiptId) \in Nat /\ Len(receiptId) <= width
  BY DEF IsReceipt, Canonical
<1> HIDE DEF x, width
<1>3. s \in Seq(Nat) /\ Len(s) = width /\ Word(s) = receiptId
  BY <1>1, <1>2, PaddedWord
<1>4. part = Prefixed(x, s)
  BY DEF Uint64, Prefixed, x, s, width
<1> HIDE DEF s, part
<1>5. part \in Seq(Nat) /\ Len(part) = width + 1 /\ part[1] = x /\ \A k \in 1..width : part[1 + k] = s[k]
  <2>1. /\ part \in Seq(Nat) /\ Len(part) = Len(s) + 1 /\ part[1] = x
        /\ \A k \in 1..Len(s) : part[1 + k] = s[k]
    BY <1>1, <1>3, <1>4, ByteBefore DEF Prefixed
  <2>. QED BY <1>3, <2>1
<1>6. ~ Shortest(receiptId, width)
  BY <1>1, <1>2 DEF Shortest
<1>7. ASSUME NEW bytes \in Seq(Nat), NEW at \in Nat, Holds(bytes, at, part)
      PROVE  CborDecode(bytes, at, CborContents(bytes)) = NoItem
  <2> DEFINE start == at + 1
             contents == CborContents(bytes)
             kind == Kinds[bytes[at + 1] \div 32 + 1]
  <2>1. start \in Nat /\ at + (width + 1) <= Len(bytes) /\ Len(bytes) \in Nat
        /\ \A k \in 1..(width + 1) : bytes[at + k] = part[k]
    <3>1. Len(part) = width + 1 /\ width \in Nat
      BY <1>1, <1>5
    <3>2. at + Len(part) <= Len(bytes) /\ \A k \in 1..Len(part) : bytes[at + k] = part[k]
      BY <1>7 DEF Holds
    <3>. QED BY <3>1, <3>2
  <2>2. bytes[at + 1] = x
    <3>1. 1 \in 1..(width + 1)
      BY <1>1
    <3>. QED BY <1>5, <2>1, <3>1
  <2>3. Holds(bytes, start, s)
    <3>1. start + Len(s) <= Len(bytes)
      BY <1>1, <1>3, <2>1
    <3>2. ASSUME NEW k \in 1..Len(s) PROVE bytes[start + k] = s[k]
      <4>1. k \in 1..width /\ 1 + k \in 1..(width + 1) /\ at + (1 + k) = start + k
        BY <1>1, <1>3, <3>2
      <4>2. bytes[at + (1 + k)] = part[1 + k]
        BY <2>1, <4>1
      <4>. QED BY <1>5, <4>1, <4>2
    <3> HIDE DEF start
    <3>. QED BY <3>1, <3>2 DEF Holds
  <2>4. Slice(bytes, start, width) = s
    <3> HIDE DEF start
    <3>. QED BY <1>3, <2>1, <2>3, HoldsSlice
  <2>5. CborHead(bytes, at) =
          LET info == bytes[at + 1] % 32
              size == HeadWidth(info - 23)
              read == Word(Slice(bytes, start, size))
          IN  IF info <= 23 THEN CborItem("head", Word(<<info>>), start)
              ELSE IF info <= 27 /\ at + size < Len(bytes) /\ Shortest(read, size)
              THEN CborItem("head", read, start + size)
              ELSE NoItem
    BY DEF CborHead, HeadWidth
  <2>6. bytes[at + 1] % 32 = 27 /\ ~ (27 <= 23) /\ 27 - 23 = 4
    BY <1>1, <2>2
  <2>7. CborHead(bytes, at) = NoItem
    <3> HIDE DEF start
    <3>. QED BY <1>1, <1>3, <1>6, <2>4, <2>5, <2>6
  <2> HIDE DEF contents, kind
  <2>8. CborAfter(bytes, kind, NoItem, contents) = NoItem
    BY DEF CborAfter
  <2>9. ~ (at >= Len(bytes)) /\ ~ (bytes[at + 1] >= 192)
    BY <1>1, <2>1, <2>2
  <2>10. CborDecode(bytes, at, contents) = CborAfter(bytes, kind, CborHead(bytes, at), contents)
    BY <2>9 DEF CborDecode, kind
  <2>. QED BY <2>7, <2>8, <2>10 DEF contents
<1>8. Len(part) >= 1
  BY <1>1, <1>5
<1>. QED BY <1>5, <1>7, <1>8 DEF Refused, part

LEMMA ChainedParts ==
  ASSUME NEW s \in Seq(Nat), NEW t \in Seq(Nat), NEW u \in Seq(Nat),
         NEW all, all = Chained(Chained(s, t), u)
  PROVE  /\ all \in Seq(Nat) /\ Len(all) = Len(s) + Len(t) + Len(u)
         /\ Holds(all, 0, s) /\ Holds(all, Len(s), t) /\ Holds(all, Len(s) + Len(t), u)
<1>1. all = s \o t \o u
  BY DEF Chained
<1>. QED BY <1>1, ThreeParts

\* Nor a map with such a number for its first value.
LEMMA MapRefused ==
  ASSUME NEW h, NEW word, IsHeadOf(h, "map", word), Value(word) = 2,
         NEW key, NEW item, IsItem(key, item), NEW part, Refused(part),
         NEW all \in Seq(Nat), Holds(all, 0, Chained(Chained(h, key), part))
  PROVE  CborWhole(all) = NoItem
<1> DEFINE front == Chained(h, key)
           three == Chained(front, part)
           start == Len(h)
           second == Len(h) + Len(key)
           contents == CborContents(all)
           len == Len(all)
           first == CborItem(item.kind, item.value, second)
           kind == "map"
           head == CborItem("head", word, start)
<1>1. /\ h \in Seq(Nat) /\ Len(h) \in Nat /\ Len(h) >= 1
      /\ key \in Seq(Nat) /\ Len(key) \in Nat /\ Len(key) >= 1
      /\ part \in Seq(Nat) /\ Len(part) \in Nat /\ Len(part) >= 1
      /\ len \in Nat /\ 0 \in Nat
  BY SMTT(30) DEF IsHeadOf, IsHead, IsItem, Refused
<1>2. /\ three \in Seq(Nat) /\ Len(three) = Len(h) + Len(key) + Len(part)
      /\ Holds(three, 0, h) /\ Holds(three, start, key) /\ Holds(three, second, part)
  <2>1. three = Chained(Chained(h, key), part)
    OBVIOUS
  <2> HIDE DEF three
  <2>2. h \in Seq(Nat) /\ key \in Seq(Nat) /\ part \in Seq(Nat)
    BY <1>1
  <2>3. /\ three \in Seq(Nat) /\ Len(three) = Len(h) + Len(key) + Len(part)
        /\ Holds(three, 0, h) /\ Holds(three, Len(h), key) /\ Holds(three, Len(h) + Len(key), part)
    BY <2>1, <2>2, ChainedParts
  <2>. QED BY <2>3
<1>3. Holds(all, 0, three)
  OBVIOUS
<1> HIDE DEF front, three
<1>4. start \in Nat /\ second \in Nat /\ second = start + Len(key) /\ second + Len(part) <= len
      /\ 0 + start = start /\ 0 + second = second /\ start >= 1
  <2>1. 0 + Len(three) <= len
    BY <1>3 DEF Holds
  <2>. QED BY <1>1, <1>2, <2>1
<1>5. Holds(all, start, key) /\ Holds(all, second, part)
  <2> HIDE DEF start, second
  <2>. QED BY <1>1, <1>2, <1>3, <1>4, HoldsAt
<1>6. CborDecode(all, start, contents) = first
  <2> HIDE DEF start, second
  <2>. QED BY <1>4, <1>5 DEF IsItem
<1>7. CborDecode(all, second, contents) = NoItem
  <2> HIDE DEF second
  <2>. QED BY <1>4, <1>5 DEF Refused
<1>8. Tabulates(all, contents, 0)
  BY ContentsTabulate
<1>9. ASSUME ~ (4 > len - start)
      PROVE  contents[start][4] = NoItem
  <2>1. /\ start \in 0..len /\ second \in 0..len /\ 4 \in 0..len /\ 3 \in 0..len
        /\ 4 - 1 = 3 /\ 3 - 1 = 2 /\ 4 # 0 /\ 3 # 0
    <3> HIDE DEF start, second, len
    <3>. QED BY <1>1, <1>4, <1>9
  <2> HIDE DEF contents, start, len
  <2>2. contents[second][3] = CborFollowed(CborDecode(all, second, contents), 2, contents)
    <3> HIDE DEF second
    <3>. QED BY <1>8, <2>1 DEF Tabulates, len
  <2>3. CborFollowed(NoItem, 2, contents) = NoItem
    BY DEF CborFollowed
  <2>4. contents[start][4] = CborFollowed(CborDecode(all, start, contents), 3, contents)
    <3> HIDE DEF second
    <3>. QED BY <1>8, <2>1 DEF Tabulates, len
  <2>5. first.end = second
    BY DEF CborItem
  <2> HIDE DEF first, second
  <2>6. CborFollowed(first, 3, contents) = NoItem
    BY <1>7, <2>2, <2>3, <2>5 DEF CborFollowed
  <2>. QED BY <1>6, <2>4, <2>6
<1>10. CborDecode(all, 0, contents) = CborAfter(all, kind, head, contents)
  <2>1. Holds(all, 0, h) /\ Holds(h, 0, h)
    <3>1. Holds(all, 0, h)
      BY <1>1, <1>2, <1>3, HoldsFirst
    <3>. QED BY <1>1, <3>1 DEF Holds
  <2>2. start = 0 + Len(h) /\ IsHeadOf(h, kind, word)
    BY <1>4
  <2> HIDE DEF contents, start, kind
  <2>3. CborDecode(all, 0, contents) = CborAfter(all, kind, CborItem("head", word, start), contents)
    BY <1>1, <2>1, <2>2, DecodedAfter
  <2>. QED BY <2>3
<1>11. head.value = word /\ head.end = start
  BY DEF CborItem
<1>12. head # NoItem
  BY <1>4, <1>11 DEF NoItem, CborItem
<1> HIDE DEF head, start, contents
<1>13. CborAfter(all, kind, head, contents) = NoItem
  <2>1. Value(head.value) * 2 = 4
    BY <1>11
  <2>2. CborAfter(all, kind, head, contents) =
          IF 4 > len - start THEN NoItem ELSE CborContainer(kind, contents[start][4])
    BY <1>11, <1>12, <2>1 DEF CborAfter
  <2>3. CborContainer(kind, NoItem) = NoItem
    BY DEF CborContainer
  <2>. QED BY <1>9, <2>2, <2>3
<1>. QED BY <1>10, <1>13 DEF CborWhole, contents

\* So one to take a receipt under an id of up to four bytes is sent, and is none.
LEMMA ShortReceiptNotTaken ==
  ASSUME NEW kind \in 1..23, NEW receiptId, IsReceipt(receiptId), receiptId # << >>, Len(receiptId) <= 4
  PROVE  takeReceipt(kind, receiptId) # Reverted /\ CborWhole(takeReceipt(kind, receiptId)) = NoItem
<1> DEFINE k == <<kind>>
           id == Text(IdKey)
           which == Text(KindKey)
           long == Uint64(receiptId)
           three == Chained(Chained(TwoFields, id), long)
           four == Chained(three, which)
           all == Chained(four, k)
<1>1. takeReceipt(kind, receiptId) = all
  <2>1. ~ (receiptId = << >>) /\ ~ (kind \notin 1..23)
    OBVIOUS
  <2>. QED BY <2>1, Zenon DEF takeReceipt, Chained, TwoFields
<1>2. Refused(long) /\ long \in Seq(Nat)
  BY ShortReceiptRefused DEF Refused
<1>3. IsItem(id, AsText(IdKey)) /\ id \in Seq(Nat) /\ which \in Seq(Nat)
  BY KeysAreItems
<1>4. TwoFields \in Seq(Nat) /\ \E word : IsHeadOf(TwoFields, "map", word) /\ Value(word) = 2
  <2> DEFINE n == 2
             x == 162
  <2>1. n \in 0..23 /\ x = 160 + n /\ TwoFields = <<x>>
    BY DEF TwoFields
  <2> HIDE DEF n, x
  <2>2. TwoFields \in Seq(Nat) /\ \E word : IsHeadOf(TwoFields, "map", word) /\ Value(word) = n
    BY <2>1, MapHead
  <2>. QED BY <2>2 DEF n
<1>5. k \in Seq(Nat)
  OBVIOUS
<1> HIDE DEF id, which, long, k
<1>6. three \in Seq(Nat)
  BY <1>2, <1>3, <1>4 DEF Chained
<1>7. PICK word : IsHeadOf(TwoFields, "map", word) /\ Value(word) = 2
  BY <1>4
<1>8. three = Chained(Chained(TwoFields, id), long) /\ four = Chained(three, which) /\ all = Chained(four, k)
  OBVIOUS
<1> HIDE DEF three, four, all
<1>9. four \in Seq(Nat) /\ Holds(four, 0, three)
  BY <1>3, <1>6, <1>8, TwoParts DEF Chained
<1>10. all \in Seq(Nat) /\ Holds(all, 0, four)
  BY <1>5, <1>8, <1>9, TwoParts DEF Chained
<1>11. Holds(all, 0, three)
  <2>1. 0 \in Nat
    OBVIOUS
  <2>. QED BY <1>6, <1>9, <1>10, <2>1, HoldsFirst
<1>12. CborWhole(all) = NoItem
  BY <1>2, <1>3, <1>7, <1>8, <1>10, <1>11, MapRefused
<1>. QED BY <1>1, <1>10, <1>12, RevertedAssumption

-----------------------------------------------------------------------------
(* The envelope of a call, and what is encrypted in it.                     *)

LEMMA KeyString ==
  ASSUME NEW s \in Seq(Nat), Len(s) = 32, NEW x, x = 88, NEW n, n = 32, NEW h, h = <<x, n>>
  PROVE  h \in Seq(Nat) /\ IsItem(Chained(h, s), AsBytes(s))
<1>1. h \in Seq(Nat)
  OBVIOUS
<1>2. IsLength(Len(s))
  BY DEF IsLength
<1>3. bytesHeader(32) = <<88, 32>>
  BY DEF bytesHeader
<1>4. encodeBytes(s) = Chained(h, s)
  BY <1>3, Zenon DEF encodeBytes, Chained
<1>5. IsItem(encodeBytes(s), AsBytes(s))
  BY <1>2, StringIsItem
<1>. QED BY <1>1, <1>4, <1>5

\* One field only: the plaintext of a call.
OneFields == <<161>>

LEMMA OneFieldHead ==
  /\ OneFields \in Seq(Nat)
  /\ \A front, items : Opens(front, OneFields, items) /\ IsFields(items, 1) => IsItem(front, AsMap(items))
<1>1. OneFields \in Seq(Nat)
  BY DEF OneFields
<1>2. ASSUME NEW front, NEW items, Opens(front, OneFields, items), IsFields(items, 1)
      PROVE  IsItem(front, AsMap(items))
  <2> DEFINE n == 1
             x == 161
             h == OneFields
  <2>1. n \in 0..23 /\ x = 160 + n /\ h = <<x>>
    BY DEF OneFields
  <2>2. Opens(front, h, items)
    BY <1>2
  <2>3. IsFields(items, n)
    BY <1>2
  <2> HIDE DEF n, x, h
  <2>. QED BY <2>1, <2>2, <2>3, FieldsAreMap
<1>. QED BY <1>1, <1>2, Zenon

\* The plaintext and its ciphertext still fit into the length of an encoded string.
IsCallData(data) == data \in Seq(Nat) /\ data # << >> /\ Len(data) <= 65510

LEMMA PlainIsItem ==
  ASSUME NEW data, IsCallData(data)
  PROVE  IsItem(plainEnvelope(data), AsMap(<<AsText(BodyKey), AsBytes(data)>>))
<1> DEFINE items == <<AsText(BodyKey), AsBytes(data)>>
           all == Chained(Chained(OneFields, Text(BodyKey)), encodeBytes(data))
<1>1. IsItem(encodeBytes(data), AsBytes(data))
  <2>1. data \in Seq(Nat) /\ IsLength(Len(data))
    BY DEF IsCallData, IsLength
  <2>. QED BY <2>1, StringIsItem
<1>2. IsItem(Text(BodyKey), AsText(BodyKey))
  BY KeysAreItems
<1>3. Opens(all, OneFields, items)
  BY <1>1, <1>2, OneFieldHead, FirstPair
<1>4. plainEnvelope(data) = all
  BY Zenon DEF plainEnvelope, Chained, OneFields
<1>5. IsFields(items, 1)
  BY OneField
<1> HIDE DEF items, all
<1>6. IsItem(all, AsMap(items))
  BY <1>3, <1>5, OneFieldHead
<1>. QED BY <1>4, <1>6 DEF items

LEMMA HeaderLength ==
  ASSUME NEW n \in Nat, IsLength(n)
  PROVE  bytesHeader(n) \in Seq(Nat) /\ Len(bytesHeader(n)) <= 3
<1>1. CASE n <= 23
  <2>1. bytesHeader(n) = <<64 + n>> /\ 64 + n \in Nat
    BY <1>1 DEF bytesHeader, IsLength
  <2>. QED BY <2>1
<1>2. CASE n > 23 /\ n <= 255
  <2>1. bytesHeader(n) = <<88, n>>
    BY <1>2 DEF bytesHeader, IsLength
  <2>. QED BY <2>1
<1>3. CASE n > 255
  <2> DEFINE a == n \div 256
             b == n % 256
  <2>1. bytesHeader(n) = <<89, a, b>> /\ a \in Nat /\ b \in Nat
    BY <1>3 DEF bytesHeader, IsLength
  <2> HIDE DEF a, b
  <2>. QED BY <2>1
<1>. QED BY <1>1, <1>2, <1>3

LEMMA ChainLength ==
  ASSUME NEW s \in Seq(Nat), NEW t \in Seq(Nat), NEW all, all = Chained(s, t)
  PROVE  all \in Seq(Nat) /\ Len(all) = Len(s) + Len(t)
<1>1. s \o t \in Seq(Nat) /\ Len(s \o t) = Len(s) + Len(t)
  OBVIOUS
<1>. QED BY <1>1, Zenon DEF Chained

LEMMA CiphertextFits ==
  ASSUME NEW data, IsCallData(data)
  PROVE  /\ Ciphertext(plainEnvelope(data)) \in Seq(Nat)
         /\ IsLength(Len(Ciphertext(plainEnvelope(data))))
<1> DEFINE n == Len(data)
           header == bytesHeader(n)
           encoded == encodeBytes(data)
           key == Text(BodyKey)
           plain == plainEnvelope(data)
           tag == Filled(Tag, 0)
           all == Ciphertext(plain)
<1>1. data \in Seq(Nat) /\ n \in Nat /\ n <= 65510 /\ IsLength(n)
  BY DEF IsCallData, IsLength
<1>2. header \in Seq(Nat) /\ Len(header) \in Nat /\ Len(header) <= 3
  <2> HIDE DEF n
  <2>. QED BY <1>1, HeaderLength
<1>3. key \in Seq(Nat) /\ Len(key) = 5
  <2>1. BodyKey \in Seq(Nat) /\ Len(BodyKey) = 4
    <3>1. 4 \in Nat /\ 98 \in Nat
      OBVIOUS
    <3>. QED BY <3>1, KeyIsBytes, ZenonT(30) DEF BodyKey
  <2> DEFINE head == <<100>>
  <2>2. head \in Seq(Nat) /\ Len(head) = 1
    OBVIOUS
  <2>3. key = Chained(head, BodyKey)
    BY <2>1 DEF Text, Chained
  <2> HIDE DEF key, head
  <2>4. key \in Seq(Nat) /\ Len(key) = Len(head) + Len(BodyKey)
    BY <2>1, <2>2, <2>3, ChainLength
  <2>. QED BY <2>1, <2>2, <2>4
<1>4. tag \in Seq(Nat) /\ Len(tag) = 16
  BY KeyIsBytes DEF Key, Tag
<1>5. encoded = header \o data
  BY DEF encodeBytes
<1> HIDE DEF header, key, tag, n
<1>6. encoded \in Seq(Nat) /\ Len(encoded) = Len(header) + n
  BY <1>1, <1>2, <1>5 DEF n
<1> DEFINE one == <<161>>
           front == Chained(one, key)
<1>7. plain = Chained(front, encoded)
  BY DEF plainEnvelope, key, Chained
<1>8. one \in Seq(Nat) /\ Len(one) = 1
  OBVIOUS
<1> HIDE DEF encoded, one
<1>9. front \in Seq(Nat) /\ Len(front) = Len(one) + Len(key)
  BY <1>3, <1>8, ChainLength
<1> HIDE DEF front, plain
<1>10. plain \in Seq(Nat) /\ Len(plain) = Len(front) + Len(encoded)
  BY <1>6, <1>7, <1>9, ChainLength
<1>11. all = Chained(plain, tag)
  BY DEF Ciphertext, tag, Chained
<1> HIDE DEF all
<1>12. all \in Seq(Nat) /\ Len(all) = Len(plain) + Len(tag)
  BY <1>4, <1>10, <1>11, ChainLength
<1>13. IsLength(Len(all))
  <2> DEFINE a == Len(header)
             b == Len(encoded)
             c == Len(plain)
             d == Len(all)
  <2>1. a \in Nat /\ a <= 3 /\ b = a + n /\ c = 1 + 5 + b /\ d = c + 16 /\ n \in Nat /\ n <= 65510
    BY <1>1, <1>2, <1>3, <1>4, <1>6, <1>8, <1>9, <1>10, <1>12
  <2> HIDE DEF a, b, c, d
  <2>2. d \in Nat /\ d <= 65535
    BY <2>1
  <2>. QED BY <2>2 DEF IsLength, d
<1>. QED BY <1>12, <1>13 DEF all, plain

\* The lists by name, so that the provers need not take them apart.
Two(a, b) == <<a, b>>
Four(a, b, c, d) == <<a, b, c, d>>
Eight(a, b, c, d, e, f, g, h) == <<a, b, c, d, e, f, g, h>>

LEMMA TwoListed ==
  \A a, b : Listed(Two(a, b)) /\ Len(Two(a, b)) = 2
BY Pairs DEF Two

LEMMA FourListed ==
  \A a, b, c, d : Four(a, b, c, d) = Chained(Two(a, b), Two(c, d)) /\ Listed(Four(a, b, c, d))
<1>1. ASSUME NEW a, NEW b, NEW c, NEW d
      PROVE  Four(a, b, c, d) = Chained(Two(a, b), Two(c, d)) /\ Listed(Four(a, b, c, d))
  BY Fours DEF Two, Four
<1>. QED BY <1>1, Zenon

LEMMA EightListed ==
  \A a, b, c, d, e, f, g, h :
    /\ Eight(a, b, c, d, e, f, g, h) = Chained(Four(a, b, c, d), Four(e, f, g, h))
    /\ Len(Eight(a, b, c, d, e, f, g, h)) = 8
<1>1. ASSUME NEW a, NEW b, NEW c, NEW d, NEW e, NEW f, NEW g, NEW h
      PROVE  /\ Eight(a, b, c, d, e, f, g, h) = Chained(Four(a, b, c, d), Four(e, f, g, h))
             /\ Listed(Eight(a, b, c, d, e, f, g, h)) /\ Len(Eight(a, b, c, d, e, f, g, h)) = 8
  BY Eights DEF Four, Eight
<1>. QED BY <1>1

\* The envelope: a map of four fields as the first field of a map of two.
FourFields == <<164>>
PkField(pk) == <<AsText(PkKey), AsBytes(pk)>>
DataField(data) == <<AsText(DataKey), AsBytes(Ciphertext(plainEnvelope(data)))>>
EpochField(epoch) == <<AsText(EpochArg), AsUint(epoch)>>
NonceField(nonce) == <<AsText(NonceKey), AsBytes(nonce)>>
InnerFields(data, pk, nonce, epoch) ==
  Chained(Chained(Chained(PkField(pk), DataField(data)), EpochField(epoch)), NonceField(nonce))

LEMMA InnerFieldsListed ==
  ASSUME NEW data, NEW pk, NEW nonce, NEW epoch
  PROVE  /\ InnerFields(data, pk, nonce, epoch) =
              <<AsText(PkKey), AsBytes(pk), AsText(DataKey), AsBytes(Ciphertext(plainEnvelope(data))),
                AsText(EpochArg), AsUint(epoch), AsText(NonceKey), AsBytes(nonce)>>
         /\ Len(InnerFields(data, pk, nonce, epoch)) = 8
<1> DEFINE a == AsText(PkKey)
           b == AsBytes(pk)
           c == AsText(DataKey)
           d == AsBytes(Ciphertext(plainEnvelope(data)))
           e == AsText(EpochArg)
           f == AsUint(epoch)
           g == AsText(NonceKey)
           h == AsBytes(nonce)
           all == InnerFields(data, pk, nonce, epoch)
           front == Four(a, b, c, d)
           more == Two(e, f)
           last == Two(g, h)
<1>1. all = Chained(Chained(Chained(Two(a, b), Two(c, d)), Two(e, f)), Two(g, h))
  BY Zenon DEF InnerFields, PkField, DataField, EpochField, NonceField, Two
<1> HIDE DEF a, b, c, d, e, f, g, h, all
<1>2. front = Chained(Two(a, b), Two(c, d)) /\ Listed(front)
  BY FourListed, Zenon
<1>3. Chained(more, last) = Four(e, f, g, h)
  BY FourListed, Zenon
<1>4. Listed(more) /\ Listed(last)
  BY TwoListed, Zenon
<1>5. Eight(a, b, c, d, e, f, g, h) = Chained(front, Four(e, f, g, h))
      /\ Len(Eight(a, b, c, d, e, f, g, h)) = 8
  BY EightListed, Zenon
<1>6. all = Chained(Chained(front, more), last)
  BY <1>1, <1>2, Zenon
<1> HIDE DEF front, more, last
<1>7. Chained(Chained(front, more), last) = Chained(front, Chained(more, last))
  <2>1. (front \o more) \o last = front \o (more \o last)
    BY <1>2, <1>4, ListsJoin
  <2>. QED BY <2>1, Zenon DEF Chained
<1>8. all = Eight(a, b, c, d, e, f, g, h)
  BY <1>3, <1>5, <1>6, <1>7, Zenon
<1>9. Len(all) = 8
  BY <1>5, <1>8, Zenon
<1>. QED BY <1>8, <1>9, Zenon DEF a, b, c, d, e, f, g, h, all, Eight

LEMMA FieldsWithin ==
  ASSUME NEW n \in 0..23, NEW x, x = 160 + n, NEW h, h = <<x>>, NEW before \in Seq(Nat),
         NEW front, NEW items, Opens(front, Chained(before, h), items), IsFields(items, n)
  PROVE  \E part : IsItem(part, AsMap(items)) /\ front = Chained(before, part)
<1> DEFINE item == AsMap(items)
           kind == "map"
<1>1. PICK word : IsHeadOf(h, "map", word) /\ Value(word) = n
  BY MapHead
<1>2. item = [kind |-> kind, value |-> items] /\ kind \in {"array", "map"}
      /\ (IF kind = "map" THEN 2 ELSE 1) = 2
  BY DEF AsMap
<1>3. IsHeadOf(h, kind, word)
  BY <1>1
<1> HIDE DEF item, kind
<1>4. Counts(items, word, kind)
  BY <1>1, <1>2 DEF Counts, IsFields
<1>5. \E part : IsItem(part, item) /\ front = Chained(before, part)
  BY <1>2, <1>3, <1>4, ClosedWithin
<1>. QED BY <1>5 DEF item

LEMMA InnerIsMap ==
  ASSUME NEW before \in Seq(Nat), NEW front, NEW items, Opens(front, Chained(before, FourFields), items),
         IsFields(items, 4)
  PROVE  \E part : IsItem(part, AsMap(items)) /\ front = Chained(before, part)
<1> DEFINE n == 4
           x == 164
           h == FourFields
<1>1. n \in 0..23 /\ x = 160 + n /\ h = <<x>>
  BY DEF FourFields
<1>2. IsFields(items, n)
  OBVIOUS
<1>3. Opens(front, Chained(before, h), items)
  OBVIOUS
<1> HIDE DEF n, x, h
<1>. QED BY <1>1, <1>2, <1>3, FieldsWithin

IsInner(pk, nonce, epoch) ==
  /\ pk \in Seq(Nat) /\ Len(pk) = 32 /\ nonce \in Seq(Nat) /\ Len(nonce) = 15
  /\ Canonical(epoch) /\ Len(epoch) <= 8

KeyStringHead == <<88, 32>>
NonceHead == <<79>>

\* The values of the inner map.
LEMMA InnerValues ==
  ASSUME NEW data, IsCallData(data), NEW pk, NEW nonce, NEW epoch, IsInner(pk, nonce, epoch)
  PROVE  /\ IsItem(Chained(KeyStringHead, pk), AsBytes(pk))
         /\ IsItem(encodeBytes(Ciphertext(plainEnvelope(data))), AsBytes(Ciphertext(plainEnvelope(data))))
         /\ IsItem(encodeUint(epoch), AsUint(epoch))
         /\ IsItem(Chained(NonceHead, nonce), AsBytes(nonce))
         /\ KeyStringHead \in Seq(Nat) /\ NonceHead \in Seq(Nat) /\ pk \in Seq(Nat) /\ nonce \in Seq(Nat)
<1>1. pk \in Seq(Nat) /\ Len(pk) = 32 /\ nonce \in Seq(Nat) /\ Len(nonce) = 15
      /\ Canonical(epoch) /\ Len(epoch) \in Nat /\ Len(epoch) <= 8
  BY DEF IsInner, Canonical
<1>2. IsItem(Chained(KeyStringHead, pk), AsBytes(pk)) /\ KeyStringHead \in Seq(Nat)
  <2> DEFINE x == 88
             n == 32
             h == KeyStringHead
  <2>1. x = 88 /\ n = 32 /\ h = <<x, n>>
    BY DEF KeyStringHead
  <2> HIDE DEF x, n, h
  <2>2. h \in Seq(Nat) /\ IsItem(Chained(h, pk), AsBytes(pk))
    BY <1>1, <2>1, KeyString
  <2>. QED BY <2>2 DEF h
<1>3. IsItem(encodeBytes(Ciphertext(plainEnvelope(data))), AsBytes(Ciphertext(plainEnvelope(data))))
  BY CiphertextFits, StringIsItem
<1>4. IsItem(encodeUint(epoch), AsUint(epoch))
  <2>1. Canonical(epoch) /\ Len(epoch) <= 16 /\ Len(epoch) <= 8
    BY <1>1
  <2>2. IsItem(encodeUint(epoch), IF Len(epoch) <= 8 THEN AsUint(epoch) ELSE AsBytes(Padded(epoch, 16)))
    BY <2>1, UintIsItem
  <2>. QED BY <2>1, <2>2
<1>5. IsItem(Chained(NonceHead, nonce), AsBytes(nonce)) /\ NonceHead \in Seq(Nat)
  <2> DEFINE x == 79
             n == 15
             h == NonceHead
             all == Chained(h, nonce)
  <2>1. nonce \in Seq(Nat) /\ Len(nonce) = n /\ n \in 0..23 /\ x = 64 + n /\ h = <<x>>
    BY <1>1 DEF NonceHead
  <2>2. all = Chained(h, nonce)
    OBVIOUS
  <2> HIDE DEF x, n, h, all
  <2>3. h \in Seq(Nat) /\ IsItem(all, AsBytes(nonce))
    BY <2>1, <2>2, ShortString
  <2>. QED BY <2>3 DEF h, all
<1>. QED BY <1>1, <1>2, <1>3, <1>4, <1>5

\* A pair whose value is itself written in two pieces.
LEMMA NextSplitPair ==
  ASSUME NEW h \in Seq(Nat), NEW front, NEW items, Opens(front, h, items), NEW p, NEW a, IsItem(p, a),
         NEW head \in Seq(Nat), NEW rest \in Seq(Nat), NEW b, IsItem(Chained(head, rest), b)
  PROVE  Opens(Chained(Chained(Chained(front, p), head), rest), h, Chained(items, <<a, b>>))
<1> DEFINE q == Chained(head, rest)
           before == Chained(front, p)
<1>1. before \in Seq(Nat)
  <2>1. PICK body : front = Chained(h, body) /\ AreItems(body, items)
    BY DEF Opens
  <2>. QED BY <2>1 DEF AreItems, Chained, IsItem
<1>2. Opens(Chained(before, q), h, Chained(items, <<a, b>>))
  <2> HIDE DEF q
  <2>1. IsItem(q, b)
    BY DEF q
  <2>. QED BY <2>1, NextPair
<1> HIDE DEF before
<1>3. Chained(Chained(before, head), rest) = Chained(before, q)
  BY <1>1, Regrouped
<1>. QED BY <1>2, <1>3 DEF before

LEMMA FirstSplitPair ==
  ASSUME NEW h \in Seq(Nat), NEW p, NEW a, IsItem(p, a),
         NEW head \in Seq(Nat), NEW rest \in Seq(Nat), NEW b, IsItem(Chained(head, rest), b)
  PROVE  Opens(Chained(Chained(Chained(h, p), head), rest), h, <<a, b>>)
<1> DEFINE q == Chained(head, rest)
           before == Chained(h, p)
<1>1. before \in Seq(Nat)
  BY DEF Chained, IsItem
<1>2. Opens(Chained(before, q), h, <<a, b>>)
  <2> HIDE DEF q
  <2>1. IsItem(q, b)
    BY DEF q
  <2>. QED BY <2>1, FirstPair
<1> HIDE DEF before
<1>3. Chained(Chained(before, head), rest) = Chained(before, q)
  BY <1>1, Regrouped
<1>. QED BY <1>2, <1>3 DEF before

\* What encryptCallData writes, field by field.
LEMMA EnvelopeIsItem ==
  ASSUME NEW data, IsCallData(data), NEW pk, NEW nonce, NEW epoch, IsInner(pk, nonce, epoch)
  PROVE  IsItem(encryptCallData(data, pk, nonce, epoch),
                AsMap(<<AsText(BodyKey), AsMap(InnerFields(data, pk, nonce, epoch)),
                        AsText(FormatKey), AsUint(<<1>>)>>))
<1> DEFINE one == <<1>>
           before == Chained(TwoFields, Text(BodyKey))
           inner == Chained(before, FourFields)
           cipher == encodeBytes(Ciphertext(plainEnvelope(data)))
           f1 == Chained(Chained(Chained(inner, Text(PkKey)), KeyStringHead), pk)
           f2 == Chained(Chained(f1, Text(DataKey)), cipher)
           f3 == Chained(Chained(f2, Text(EpochArg)), encodeUint(epoch))
           f4 == Chained(Chained(Chained(f3, Text(NonceKey)), NonceHead), nonce)
           all == Chained(Chained(f4, Text(FormatKey)), one)
           items == InnerFields(data, pk, nonce, epoch)
           body == AsMap(items)
           first == Two(AsText(BodyKey), body)
           last == Two(AsText(FormatKey), AsUint(one))
<1>1. encryptCallData(data, pk, nonce, epoch) = all
  <2>1. ~ (data = << >>)
    BY DEF IsCallData
  <2>. QED BY <2>1, Zenon DEF encryptCallData, Chained, TwoFields, FourFields, KeyStringHead, NonceHead
<1>2. /\ IsItem(Text(BodyKey), AsText(BodyKey)) /\ IsItem(Text(PkKey), AsText(PkKey))
      /\ IsItem(Text(DataKey), AsText(DataKey)) /\ IsItem(Text(EpochArg), AsText(EpochArg))
      /\ IsItem(Text(NonceKey), AsText(NonceKey)) /\ IsItem(Text(FormatKey), AsText(FormatKey))
      /\ Text(BodyKey) \in Seq(Nat)
  BY KeysAreItems
<1>3. before \in Seq(Nat) /\ inner \in Seq(Nat)
  <2>1. TwoFields \in Seq(Nat) /\ FourFields \in Seq(Nat)
    BY DEF TwoFields, FourFields
  <2>. QED BY <1>2, <2>1 DEF Chained
<1>4. /\ IsItem(Chained(KeyStringHead, pk), AsBytes(pk)) /\ IsItem(encodeUint(epoch), AsUint(epoch))
      /\ IsItem(cipher, AsBytes(Ciphertext(plainEnvelope(data))))
      /\ IsItem(Chained(NonceHead, nonce), AsBytes(nonce))
      /\ KeyStringHead \in Seq(Nat) /\ NonceHead \in Seq(Nat) /\ pk \in Seq(Nat) /\ nonce \in Seq(Nat)
  BY InnerValues
<1>5. f4 = Chained(Chained(Chained(f3, Text(NonceKey)), NonceHead), nonce)
      /\ all = Chained(Chained(f4, Text(FormatKey)), one)
  OBVIOUS
<1>6. IsItem(one, AsUint(one))
  BY ByteIsItem
<1> HIDE DEF one, cipher, before, inner
<1>7. Opens(f1, inner, PkField(pk))
  <2>1. Opens(f1, inner, <<AsText(PkKey), AsBytes(pk)>>)
    BY <1>2, <1>3, <1>4, FirstSplitPair
  <2>. QED BY <2>1 DEF PkField
<1> HIDE DEF f1
<1>8. Opens(f2, inner, Chained(PkField(pk), DataField(data)))
  <2>1. Opens(f2, inner, Chained(PkField(pk), <<AsText(DataKey), AsBytes(Ciphertext(plainEnvelope(data)))>>))
    BY <1>2, <1>3, <1>4, <1>7, NextPair
  <2>. QED BY <2>1 DEF DataField
<1> HIDE DEF f2
<1>9. Opens(f3, inner, Chained(Chained(PkField(pk), DataField(data)), EpochField(epoch)))
  <2>1. Opens(f3, inner, Chained(Chained(PkField(pk), DataField(data)), <<AsText(EpochArg), AsUint(epoch)>>))
    BY <1>2, <1>3, <1>4, <1>8, NextPair
  <2>. QED BY <2>1 DEF EpochField
<1> HIDE DEF f3, f4, all, items
<1>10. Opens(f4, inner, items)
  <2>1. Opens(Chained(Chained(Chained(f3, Text(NonceKey)), NonceHead), nonce), inner,
              Chained(Chained(Chained(PkField(pk), DataField(data)), EpochField(epoch)),
                      <<AsText(NonceKey), AsBytes(nonce)>>))
    BY <1>2, <1>3, <1>4, <1>9, NextSplitPair
  <2>. QED BY <1>5, <2>1 DEF NonceField, items, InnerFields
<1>11. IsFields(items, 4)
  <2>1. Len(items) = 8
    BY InnerFieldsListed DEF items
  <2>2. Listed(items)
    <3>1. PICK part : AreItems(part, items)
      BY <1>10 DEF Opens
    <3>. QED BY <3>1 DEF AreItems
  <2>. QED BY <2>1, <2>2 DEF IsFields
<1>12. PICK part : IsItem(part, body) /\ f4 = Chained(before, part)
  BY <1>3, <1>10, <1>11, InnerIsMap DEF inner
<1> HIDE DEF body
<1>13. Opens(f4, TwoFields, first)
  <2>1. Opens(Chained(Chained(TwoFields, Text(BodyKey)), part), TwoFields, <<AsText(BodyKey), body>>)
    BY <1>2, <1>12, FieldHeads, FirstPair
  <2>. QED BY <1>12, <2>1 DEF before, Two
<1> HIDE DEF first, last
<1>14. Opens(all, TwoFields, Chained(first, last))
  <2>1. Opens(Chained(Chained(f4, Text(FormatKey)), one), TwoFields,
              Chained(first, <<AsText(FormatKey), AsUint(one)>>))
    BY <1>2, <1>6, <1>13, FieldHeads, NextPair
  <2>. QED BY <1>5, <2>1 DEF last, Two
<1>15. IsFields(Chained(first, last), 2)
  <2>1. IsFields(first, 1) /\ IsFields(last, 1)
    BY OneField DEF first, last, Two
  <2>. QED BY <2>1, TwoOfThem
<1>16. IsItem(all, AsMap(Chained(first, last)))
  BY <1>14, <1>15, FieldHeads
<1>17. Chained(first, last) = Four(AsText(BodyKey), body, AsText(FormatKey), AsUint(one))
  BY FourListed, Zenon DEF first, last
<1>. QED BY <1>1, <1>16, <1>17, Zenon DEF Four, body, items, one

\* Bytes that are not a revert, and that the runtime decodes to these fields.
Understood(bytes, pairs) == bytes \in Seq(Nat) /\ bytes # Reverted /\ CborWhole(bytes) = AsMap(pairs)

LEMMA ItemUnderstood ==
  ASSUME NEW bytes, NEW pairs, IsItem(bytes, AsMap(pairs))
  PROVE  Understood(bytes, pairs)
<1>1. bytes \in Seq(Nat)
  BY DEF IsItem
<1>2. CborWhole(bytes) = AsMap(pairs)
  BY ItemWhole
<1>. QED BY <1>1, <1>2, RevertedAssumption DEF Understood

\* Whatever the addresses, amounts, tokens and receipt ids, the library refuses only
\* long tokens, the receipt 0, and for delegations receipts of up to four bytes, and
\* the runtime decodes every other request to what it was made of, but for those to
\* take a receipt of up to four bytes, which are sent and decode to nothing
\* (Subcall.sol:137-161, 182-205, 353-481).
THEOREM EveryRequestUnderstood ==
  ASSUME NEW address, IsAddress(address), NEW amount, IsAmount(amount),
         NEW token \in Seq(Nat), NEW receiptId, IsReceipt(receiptId), NEW kind \in 1..23
  PROVE  /\ IF Len(token) > 19 THEN toAndAmount(address, amount, token) = Reverted
            ELSE Understood(toAndAmount(address, amount, token), ToField(address) \o CoinsField(amount, token))
         /\ IF Len(receiptId) <= 4 THEN delegateWithReceipt(address, amount, receiptId) = Reverted
            ELSE Understood(delegateWithReceipt(address, amount, receiptId),
                            ToField(address) \o CoinsField(amount, << >>) \o ReceiptField(receiptId))
         /\ Understood(undelegate(address, amount), FromField(address) \o SharesField(amount))
         /\ IF Len(receiptId) <= 4 THEN undelegateWithReceipt(address, amount, receiptId) = Reverted
            ELSE Understood(undelegateWithReceipt(address, amount, receiptId),
                            FromField(address) \o SharesField(amount) \o ReceiptField(receiptId))
         /\ IF receiptId = << >> THEN takeReceipt(kind, receiptId) = Reverted
            ELSE IF Len(receiptId) <= 4
            THEN takeReceipt(kind, receiptId) # Reverted /\ CborWhole(takeReceipt(kind, receiptId)) = NoItem
            ELSE Understood(takeReceipt(kind, receiptId), IdField(receiptId) \o KindField(kind))
<1>1. Len(receiptId) \in Nat /\ Len(token) \in Nat
  BY DEF IsReceipt, Canonical
<1>3. IF Len(token) > 19 THEN toAndAmount(address, amount, token) = Reverted
      ELSE Understood(toAndAmount(address, amount, token), ToField(address) \o CoinsField(amount, token))
  <2>1. ASSUME Len(token) > 19 PROVE toAndAmount(address, amount, token) = Reverted
    BY <2>1 DEF toAndAmount
  <2>2. ASSUME ~ (Len(token) > 19)
        PROVE  Understood(toAndAmount(address, amount, token), ToField(address) \o CoinsField(amount, token))
    <3>1. Len(token) <= 19
      <4> DEFINE n == Len(token)
      <4>1. n \in Nat /\ ~ (n > 19)
        BY <1>1, <2>2
      <4> HIDE DEF n
      <4>2. n <= 19
        BY <4>1
      <4>. QED BY <4>2 DEF n
    <3>2. IsToken(token)
      BY <3>1 DEF IsToken
    <3>. QED BY <3>2, ToAndAmountIsItem, ItemUnderstood
  <2>. QED BY <2>1, <2>2, Zenon
<1>4. Understood(undelegate(address, amount), FromField(address) \o SharesField(amount))
  BY UndelegateIsItem, ItemUnderstood
<1>5. ASSUME Len(receiptId) <= 4
      PROVE  /\ delegateWithReceipt(address, amount, receiptId) = Reverted
             /\ undelegateWithReceipt(address, amount, receiptId) = Reverted
  <2>1. ~ UsableReceipt(receiptId)
    BY <1>1, <1>5 DEF UsableReceipt
  <2>. QED BY <2>1 DEF delegateWithReceipt, undelegateWithReceipt
<1>6. ASSUME ~ (Len(receiptId) <= 4) PROVE Len(receiptId) > 4
  <2> DEFINE n == Len(receiptId)
  <2>1. n \in Nat /\ ~ (n <= 4)
    BY <1>1, <1>6
  <2> HIDE DEF n
  <2>2. n > 4
    BY <2>1
  <2>. QED BY <2>2 DEF n
<1>7. ASSUME Len(receiptId) > 4
      PROVE  /\ Understood(delegateWithReceipt(address, amount, receiptId),
                           ToField(address) \o CoinsField(amount, << >>) \o ReceiptField(receiptId))
             /\ Understood(undelegateWithReceipt(address, amount, receiptId),
                           FromField(address) \o SharesField(amount) \o ReceiptField(receiptId))
             /\ Understood(takeReceipt(kind, receiptId), IdField(receiptId) \o KindField(kind))
  <2>1. IsItem(delegateWithReceipt(address, amount, receiptId),
               AsMap(ToField(address) \o CoinsField(amount, << >>) \o ReceiptField(receiptId)))
    BY <1>7, DelegateIsItem
  <2>2. IsItem(undelegateWithReceipt(address, amount, receiptId),
               AsMap(FromField(address) \o SharesField(amount) \o ReceiptField(receiptId)))
    BY <1>7, UndelegateReceiptIsItem
  <2>3. IsItem(takeReceipt(kind, receiptId), AsMap(IdField(receiptId) \o KindField(kind)))
    BY <1>7, TakeReceiptIsItem
  <2>. QED BY <2>1, <2>2, <2>3, ItemUnderstood, Zenon
<1>8. ASSUME receiptId = << >> PROVE takeReceipt(kind, receiptId) = Reverted
  BY <1>8 DEF takeReceipt
<1>9. ASSUME receiptId # << >>, Len(receiptId) <= 4
      PROVE  takeReceipt(kind, receiptId) # Reverted /\ CborWhole(takeReceipt(kind, receiptId)) = NoItem
  BY <1>9, ShortReceiptNotTaken
<1>. QED BY <1>3, <1>4, <1>5, <1>6, <1>7, <1>8, <1>9, Zenon

\* Whatever the call, the key, the nonce and the epoch, the runtime decodes the
\* envelope and, once decrypted, the call in it, which are no longer than a string
\* that encodeBytes writes (CalldataEncryption.sol:20-102).
THEOREM EveryEnvelopeUnderstood ==
  ASSUME NEW data, IsCallData(data), NEW pk, NEW nonce, NEW epoch, IsInner(pk, nonce, epoch)
  PROVE  /\ Understood(plainEnvelope(data), <<AsText(BodyKey), AsBytes(data)>>)
         /\ Understood(encryptCallData(data, pk, nonce, epoch),
              <<AsText(BodyKey),
                AsMap(<<AsText(PkKey), AsBytes(pk),
                        AsText(DataKey), AsBytes(Ciphertext(plainEnvelope(data))),
                        AsText(EpochArg), AsUint(epoch),
                        AsText(NonceKey), AsBytes(nonce)>>),
                AsText(FormatKey), AsUint(<<1>>)>>)
<1>1. Understood(plainEnvelope(data), <<AsText(BodyKey), AsBytes(data)>>)
  BY PlainIsItem, ItemUnderstood
<1> DEFINE inner == InnerFields(data, pk, nonce, epoch)
           told == <<AsText(PkKey), AsBytes(pk),
                     AsText(DataKey), AsBytes(Ciphertext(plainEnvelope(data))),
                     AsText(EpochArg), AsUint(epoch),
                     AsText(NonceKey), AsBytes(nonce)>>
<1>2. inner = told
  BY InnerFieldsListed
<1> DEFINE pairs(items) == <<AsText(BodyKey), AsMap(items), AsText(FormatKey), AsUint(<<1>>)>>
<1>3. IsItem(encryptCallData(data, pk, nonce, epoch), AsMap(pairs(inner)))
  BY EnvelopeIsItem
<1> HIDE DEF inner, told, pairs
<1>4. Understood(encryptCallData(data, pk, nonce, epoch), pairs(told))
  BY <1>2, <1>3, ItemUnderstood
<1>. QED BY <1>1, <1>4 DEF pairs, told

\* The requests and the calls of a run are such.
RequestInput ==
  /\ Given("request") =>
       /\ IsAddress(input.address) /\ IsAmount(input.amount) /\ input.token \in Seq(Nat)
       /\ IsReceipt(input.receiptId) /\ input.kind \in 1..23
  /\ Given("calldata") => IsCallData(input.data) /\ IsInner(input.pk, input.nonce, input.epoch)

LEMMA RequestChosen ==
  ASSUME ChooseRequest
  PROVE  /\ IsAddress(input'.address) /\ IsAmount(input'.amount) /\ input'.token \in Seq(Nat)
         /\ IsReceipt(input'.receiptId) /\ input'.kind \in 1..23 /\ input'.alg = "request"
<1>1. PICK amount \in UpTo(16), receiptId \in UpTo(8), kind \in 1..3, tokenLength \in {0, 19, 20} :
        /\ Len(amount) \in {0, 1, 16}
        /\ input' = [alg |-> "request", amount |-> amount, receiptId |-> receiptId, kind |-> kind,
                     address |-> Filled(21, 6), token |-> Filled(tokenLength, 84)]
  BY DEF ChooseRequest
<1>2. /\ input'.alg = "request" /\ input'.amount = amount /\ input'.receiptId = receiptId
      /\ input'.kind = kind /\ input'.address = Filled(21, 6) /\ input'.token = Filled(tokenLength, 84)
  BY <1>1
<1>3. IsAmount(amount)
  BY WordsUpTo DEF IsAmount
<1>4. IsReceipt(receiptId)
  BY WordsUpTo DEF IsReceipt
<1>5. 21 \in Nat /\ 6 \in Nat /\ 84 \in Nat /\ tokenLength \in Nat /\ kind \in 1..23
  OBVIOUS
<1>6. IsAddress(Filled(21, 6))
  BY <1>5, FilledBytes DEF IsAddress
<1>7. Filled(tokenLength, 84) \in Seq(Nat)
  BY <1>5, FilledBytes
<1>. QED BY <1>2, <1>3, <1>4, <1>5, <1>6, <1>7, Zenon

LEMMA CallDataChosen ==
  ASSUME ChooseCallData
  PROVE  IsCallData(input'.data) /\ IsInner(input'.pk, input'.nonce, input'.epoch) /\ input'.alg = "calldata"
<1>1. PICK len \in 1..40 \cup 225..260, epoch \in UpTo(8) :
        /\ Len(epoch) \in 0..3
        /\ input' = [alg |-> "calldata", data |-> Filled(len, 8), epoch |-> epoch,
                     pk |-> Filled(32, 1), nonce |-> Filled(15, 2)]
  BY DEF ChooseCallData
<1>2. /\ input'.alg = "calldata" /\ input'.data = Filled(len, 8) /\ input'.epoch = epoch
      /\ input'.pk = Filled(32, 1) /\ input'.nonce = Filled(15, 2)
  BY <1>1
<1>3. len \in Nat /\ len # 0 /\ len <= 65510
  OBVIOUS
<1>4. IsCallData(Filled(len, 8))
  <2> DEFINE s == Filled(len, 8)
  <2>1. s \in Seq(Nat) /\ Len(s) = len
    BY <1>3, FilledBytes
  <2> HIDE DEF s
  <2>2. s # << >>
    BY <1>3, <2>1
  <2>. QED BY <1>3, <2>1, <2>2 DEF IsCallData, s
<1>5. IsInner(Filled(32, 1), Filled(15, 2), epoch)
  <2>1. Canonical(epoch) /\ Len(epoch) <= 8
    BY WordsUpTo
  <2>2. Filled(32, 1) \in Seq(Nat) /\ Len(Filled(32, 1)) = 32
    <3>1. 32 \in Nat /\ 1 \in Nat
      OBVIOUS
    <3>. QED BY <3>1, FilledBytes, ZenonT(30)
  <2>3. Filled(15, 2) \in Seq(Nat) /\ Len(Filled(15, 2)) = 15
    <3>1. 15 \in Nat /\ 2 \in Nat
      OBVIOUS
    <3>. QED BY <3>1, FilledBytes, ZenonT(30)
  <2>. QED BY <2>1, <2>2, <2>3 DEF IsInner
<1>. QED BY <1>2, <1>4, <1>5, Zenon

\* What RequestsUnderstood says of one request.
SentIsRead(sent) ==
  IF sent.refused THEN sent.bytes = Reverted
  ELSE sent.bytes # Reverted /\ CborWhole(sent.bytes) = sent.read

LEMMA UnderstoodIsRead ==
  ASSUME NEW bytes, NEW pairs, Understood(bytes, pairs), NEW refused \in BOOLEAN, ~ refused
  PROVE  SentIsRead(Sent(refused, bytes, AsMap(pairs)))
BY DEF Understood, SentIsRead, Sent

LEMMA RefusedIsRead ==
  ASSUME NEW bytes, NEW read, bytes = Reverted, NEW refused \in BOOLEAN, refused
  PROVE  SentIsRead(Sent(refused, bytes, read))
BY DEF SentIsRead, Sent

\* A property of the elements is one of the list.
LEMMA OfEach ==
  ASSUME NEW S, NEW s \in Seq(S), NEW i \in DOMAIN s
  PROVE  s[i] \in S
OBVIOUS

LEMMA RequestsAreRead ==
  ASSUME RequestInput, Given("request")
  PROVE  \A i \in DOMAIN SentRequests : SentIsRead(SentRequests[i])
<1> DEFINE a == input.address
           m == input.amount
           t == input.token
           r == input.receiptId
           k == input.kind
           long == Len(t) > 19
           short == Len(r) <= 4
           none == r = << >>
           taken == IF short THEN NoItem ELSE AsMap(IdField(r) \o KindField(k))
           s1 == Sent(long, toAndAmount(a, m, t), AsMap(ToField(a) \o CoinsField(m, t)))
           s2 == Sent(short, delegateWithReceipt(a, m, r),
                      AsMap(ToField(a) \o CoinsField(m, << >>) \o ReceiptField(r)))
           s3 == Sent(FALSE, undelegate(a, m), AsMap(FromField(a) \o SharesField(m)))
           s4 == Sent(short, undelegateWithReceipt(a, m, r),
                      AsMap(FromField(a) \o SharesField(m) \o ReceiptField(r)))
           s5 == Sent(none, takeReceipt(k, r), taken)
<1>1. IsAddress(a) /\ IsAmount(m) /\ t \in Seq(Nat) /\ IsReceipt(r) /\ k \in 1..23
  BY DEF RequestInput
<1>2. SentRequests = <<s1, s2, s3, s4, s5>>
  <2>1. IdField(r) \o KindField(k) = <<AsText(IdKey), AsUint(r), AsText(KindKey), AsUint(<<k>>)>>
    <3> DEFINE p == AsText(IdKey)
               q == AsUint(r)
               u == AsText(KindKey)
               v == AsUint(<<k>>)
    <3>1. Four(p, q, u, v) = Chained(Two(p, q), Two(u, v))
      <4> HIDE DEF p, q, u, v
      <4>. QED BY FourListed, Zenon
    <3>. QED BY <3>1, Zenon DEF IdField, KindField, Chained, Two, Four
  <2>. QED BY <2>1, Zenon DEF SentRequests, ToField, CoinsField, FromField, SharesField, ReceiptField
<1>0. long \in BOOLEAN /\ short \in BOOLEAN /\ none \in BOOLEAN
  OBVIOUS
<1>3. SentIsRead(s1)
  <2>1. IF long THEN toAndAmount(a, m, t) = Reverted
        ELSE Understood(toAndAmount(a, m, t), ToField(a) \o CoinsField(m, t))
    BY <1>1, EveryRequestUnderstood
  <2> HIDE DEF long
  <2>. QED BY <1>0, <2>1, UnderstoodIsRead, RefusedIsRead
<1>4. SentIsRead(s2)
  <2>1. IF short THEN delegateWithReceipt(a, m, r) = Reverted
        ELSE Understood(delegateWithReceipt(a, m, r), ToField(a) \o CoinsField(m, << >>) \o ReceiptField(r))
    BY <1>1, EveryRequestUnderstood
  <2> HIDE DEF short
  <2>. QED BY <1>0, <2>1, UnderstoodIsRead, RefusedIsRead
<1>5. SentIsRead(s3)
  <2>1. Understood(undelegate(a, m), FromField(a) \o SharesField(m))
    BY <1>1, EveryRequestUnderstood
  <2>2. FALSE \in BOOLEAN /\ ~ FALSE
    OBVIOUS
  <2>. QED BY <2>1, <2>2, UnderstoodIsRead
<1>6. SentIsRead(s4)
  <2>1. IF short THEN undelegateWithReceipt(a, m, r) = Reverted
        ELSE Understood(undelegateWithReceipt(a, m, r), FromField(a) \o SharesField(m) \o ReceiptField(r))
    BY <1>1, EveryRequestUnderstood
  <2> HIDE DEF short
  <2>. QED BY <1>0, <2>1, UnderstoodIsRead, RefusedIsRead
<1>7. SentIsRead(s5)
  <2>1. IF none THEN takeReceipt(k, r) = Reverted
        ELSE IF short THEN takeReceipt(k, r) # Reverted /\ CborWhole(takeReceipt(k, r)) = NoItem
        ELSE Understood(takeReceipt(k, r), IdField(r) \o KindField(k))
    BY <1>1, EveryRequestUnderstood
  <2> HIDE DEF none, short
  <2>2. CASE none
    BY <1>0, <2>1, <2>2, RefusedIsRead
  <2>3. CASE ~ none /\ short
    BY <2>1, <2>3 DEF SentIsRead, Sent
  <2>4. CASE ~ none /\ ~ short
    <3>1. SentIsRead(Sent(none, takeReceipt(k, r), AsMap(IdField(r) \o KindField(k))))
      BY <1>0, <2>1, <2>4, UnderstoodIsRead
    <3>. QED BY <2>4, <3>1
  <2>. QED BY <2>2, <2>3, <2>4
<1> HIDE DEF s1, s2, s3, s4, s5
<1> DEFINE S == {s1, s2, s3, s4, s5}
           all == <<s1, s2, s3, s4, s5>>
<1>8. all \in Seq(S) /\ \A s \in S : SentIsRead(s)
  BY <1>3, <1>4, <1>5, <1>6, <1>7
<1> HIDE DEF S, all
<1>9. \A i \in DOMAIN all : SentIsRead(all[i])
  BY <1>8, OfEach
<1>. QED BY <1>2, <1>9 DEF all

LEMMA EnvelopesAreRead ==
  ASSUME RequestInput, Given("calldata")
  PROVE  \A i \in DOMAIN SentEnvelopes : SentIsRead(SentEnvelopes[i])
<1> DEFINE d == input.data
           told == <<AsText(BodyKey),
                     AsMap(<<AsText(PkKey), AsBytes(input.pk),
                             AsText(DataKey), AsBytes(Ciphertext(plainEnvelope(d))),
                             AsText(EpochArg), AsUint(input.epoch),
                             AsText(NonceKey), AsBytes(input.nonce)>>),
                     AsText(FormatKey), AsUint(<<1>>)>>
           s1 == Sent(FALSE, plainEnvelope(d), AsMap(<<AsText(BodyKey), AsBytes(d)>>))
           s2 == Sent(FALSE, encryptCallData(d, input.pk, input.nonce, input.epoch), AsMap(told))
           two == <<s1, s2>>
<1>1. IsCallData(d) /\ IsInner(input.pk, input.nonce, input.epoch)
  BY DEF RequestInput
<1>2. SentEnvelopes = two
  BY DEF SentEnvelopes
<1>0. FALSE \in BOOLEAN /\ ~ FALSE
  OBVIOUS
<1>3. SentIsRead(s1)
  BY <1>0, <1>1, EveryEnvelopeUnderstood, UnderstoodIsRead
<1>4. SentIsRead(s2)
  <2>1. Understood(encryptCallData(d, input.pk, input.nonce, input.epoch), told)
    BY <1>1, EveryEnvelopeUnderstood
  <2> HIDE DEF told
  <2>. QED BY <1>0, <2>1, UnderstoodIsRead
<1> HIDE DEF s1, s2
<1> DEFINE S == {s1, s2}
<1>5. two \in Seq(S) /\ \A s \in S : SentIsRead(s)
  BY <1>3, <1>4
<1> HIDE DEF S, two
<1>. QED BY <1>2, <1>5, OfEach

\* Every request and every envelope of a run is refused, or decoded to what it was
\* made of, as RequestsUnderstood says, and those to take a receipt of up to four
\* bytes are the ones sent that decode to nothing (Subcall.sol:137-161, 182-205,
\* 353-481, CalldataEncryption.sol:20-102).
THEOREM RequestsAlwaysUnderstood == Spec => []RequestsUnderstood
<1>1. Init => RequestInput
  BY DEF Init, RequestInput, Given
<1>2. ASSUME RequestInput, [Next]_<<input, host, enclave>>
      PROVE  RequestInput'
  <2>1. CASE input' = input
    BY <1>2, <2>1 DEF RequestInput, Given
  <2>2. CASE ChooseRequest
    <3>1. "request" # "calldata"
      OBVIOUS
    <3>. QED BY <2>2, <3>1, RequestChosen DEF RequestInput, Given
  <2>3. CASE ChooseCallData
    <3>1. "request" # "calldata"
      OBVIOUS
    <3>. QED BY <2>3, <3>1, CallDataChosen DEF RequestInput, Given
  <2>4. CASE (ChooseInput \/ NextDay) /\ ~ ChooseRequest /\ ~ ChooseCallData
    <3>1. input'.alg # "request" /\ input'.alg # "calldata"
      BY <2>4, ChosenKinds DEF ChooseInput
    <3>. QED BY <3>1 DEF RequestInput, Given
  <2>. QED BY <1>2, <2>1, <2>2, <2>3, <2>4, InputStays
<1>3. RequestInput => RequestsUnderstood
  <2> SUFFICES ASSUME RequestInput PROVE RequestsUnderstood
    OBVIOUS
  <2>1. CASE Given("request")
    <3>1. \A i \in DOMAIN SentRequests : SentIsRead(SentRequests[i])
      BY <2>1, RequestsAreRead
    <3>2. ~ Given("calldata")
      BY <2>1 DEF Given
    <3>. QED BY <2>1, <3>1, <3>2 DEF RequestsUnderstood, SentIsRead
  <2>2. CASE Given("calldata")
    <3>1. \A i \in DOMAIN SentEnvelopes : SentIsRead(SentEnvelopes[i])
      BY <2>2, EnvelopesAreRead
    <3>2. ~ Given("request")
      BY <2>2 DEF Given
    <3>. QED BY <2>2, <3>1, <3>2, Zenon DEF RequestsUnderstood, SentIsRead
  <2>3. CASE ~ Given("request") /\ ~ Given("calldata")
    <3>1. DOMAIN << >> = {}
      OBVIOUS
    <3>. QED BY <2>3, <3>1 DEF RequestsUnderstood
  <2>. QED BY <2>1, <2>2, <2>3
<1>. QED BY <1>1, <1>2, <1>3, PTL DEF Spec

-----------------------------------------------------------------------------
(***************************************************************************)
(* The RLP decoder on the transactions that the signers write.  As with    *)
(* CBOR, items are told by their bytes, wherever these stand.              *)
(***************************************************************************)

\* The value of a word with a byte more.
LEMMA ValueAppended ==
  ASSUME NEW word \in Seq(Nat), NEW byte \in Nat
  PROVE  Value(Append(word, byte)) = 256 * Value(word) + byte
<1> DEFINE longer == Append(word, byte)
           len == Len(word)
<1>1. /\ longer \in Seq(Nat) /\ len \in Nat /\ Len(longer) = len + 1 /\ longer[len + 1] = byte
      /\ \A i \in 1..len : longer[i] = word[i]
  OBVIOUS
<1> HIDE DEF longer
<1>2. PICK f : Value(word) = f[len] /\ UpToByte(word, f, len)
  BY ValueBytes
<1>3. PICK g : Value(longer) = g[len + 1] /\ UpToByte(longer, g, len + 1)
  BY <1>1, ValueBytes
<1> DEFINE differ == {m \in 0..len : f[m] # g[m]}
<1>4. differ = {}
  <2>1. SUFFICES ASSUME differ # {} PROVE FALSE
    OBVIOUS
  <2>2. differ \in SUBSET Nat
    BY <1>1
  <2>3. PICK least \in differ : \A m \in differ : least <= m
    <3> HIDE DEF differ
    <3>. QED BY <2>1, <2>2, Smallest
  <2>4. least \in 0..len /\ f[least] # g[least]
    BY <2>3
  <2>5. f[0] = 0 /\ g[0] = 0
    BY <1>2, <1>3 DEF UpToByte
  <2>6. least \in 1..len /\ least \in 1..(len + 1) /\ least - 1 \in 0..len /\ ~ (least <= least - 1)
    BY <1>1, <2>4, <2>5
  <2>7. f[least - 1] = g[least - 1]
    <3>1. least - 1 \notin differ
      <4> HIDE DEF differ
      <4>. QED BY <2>3, <2>6, Zenon
    <3>. QED BY <2>6, <3>1
  <2>8. f[least] = 256 * f[least - 1] + word[least]
    BY <1>2, <2>6 DEF UpToByte
  <2>9. g[least] = 256 * g[least - 1] + longer[least]
    BY <1>3, <2>6 DEF UpToByte
  <2>10. longer[least] = word[least]
    BY <1>1, <2>6
  <2>. QED BY <2>4, <2>7, <2>8, <2>9, <2>10
<1>5. f[len] = g[len]
  <2>1. len \in 0..len
    BY <1>1
  <2>. QED BY <1>4, <2>1
<1>6. g[len + 1] = 256 * g[len] + byte
  <2>1. len + 1 \in 1..(len + 1) /\ (len + 1) - 1 = len
    BY <1>1
  <2>2. g[len + 1] = 256 * g[(len + 1) - 1] + longer[len + 1]
    BY <1>3, <2>1 DEF UpToByte
  <2>. QED BY <1>1, <2>1, <2>2
<1>. QED BY <1>2, <1>3, <1>5, <1>6 DEF longer

\* The words of the numbers up to n, each from a smaller one.
WordsTabulated(f, n) == \A m \in 0..n : f[m] = IF m = 0 THEN << >> ELSE Append(f[m \div 256], m % 256)

LEMMA WordsTable ==
  ASSUME NEW n \in Nat
  PROVE  \E f : BigEndian(n) = f[n] /\ WordsTabulated(f, n)
<1> DEFINE Is(f) == f = [m \in 0..n |-> IF m = 0 THEN << >> ELSE Append(f[m \div 256], m % 256)]
           word == CHOOSE f : Is(f)
           Known(m) == \E f : WordsTabulated(f, m)
           unknown == {m \in Nat : ~ Known(m)}
<1>1. BigEndian(n) = word[n]
  BY DEF BigEndian
<1>2. Known(0)
  <2> DEFINE f == [m \in 0..0 |-> << >>]
  <2>1. \A m \in 0..0 : m = 0 /\ f[m] = << >>
    OBVIOUS
  <2> HIDE DEF f
  <2>2. WordsTabulated(f, 0)
    BY <2>1 DEF WordsTabulated
  <2>. QED BY <2>2
<1>3. ASSUME NEW m \in Nat, Known(m) PROVE Known(m + 1)
  <2>1. PICK f : WordsTabulated(f, m)
    BY <1>3
  <2> DEFINE next == Append(f[(m + 1) \div 256], (m + 1) % 256)
             g == [k \in 0..(m + 1) |-> IF k = m + 1 THEN next ELSE f[k]]
  <2>2. g[m + 1] = next /\ \A k \in 0..m : g[k] = f[k]
    <3> HIDE DEF next
    <3>. QED OBVIOUS
  <2> HIDE DEF g
  <2>3. ASSUME NEW k \in 0..(m + 1)
        PROVE  g[k] = IF k = 0 THEN << >> ELSE Append(g[k \div 256], k % 256)
    <3>1. CASE k = m + 1
      <4>1. k # 0 /\ (m + 1) \div 256 \in 0..m
        BY <3>1
      <4>. QED BY <2>2, <3>1, <4>1
    <3>2. CASE k # m + 1
      <4>1. k \in 0..m /\ k \div 256 \in 0..m
        BY <3>2
      <4> DEFINE above == k \div 256
      <4>2. f[k] = IF k = 0 THEN << >> ELSE Append(f[above], k % 256)
        BY <2>1, <4>1 DEF WordsTabulated
      <4> HIDE DEF above
      <4>3. g[k] = f[k] /\ g[above] = f[above]
        BY <2>2, <4>1 DEF above
      <4>. QED BY <4>2, <4>3 DEF above
    <3>. QED BY <3>1, <3>2
  <2>4. WordsTabulated(g, m + 1)
    BY <2>3 DEF WordsTabulated
  <2>. QED BY <2>4
<1>4. unknown = {}
  <2> HIDE DEF Known
  <2>1. SUFFICES ASSUME unknown # {} PROVE FALSE
    OBVIOUS
  <2>2. PICK least \in unknown : \A m \in unknown : least <= m
    BY <2>1, Smallest
  <2>3. least \in Nat /\ ~ Known(least)
    BY <2>2
  <2>4. least # 0 /\ least - 1 \in Nat /\ ~ (least <= least - 1) /\ (least - 1) + 1 = least
    BY <1>2, <2>3
  <2>5. Known(least - 1)
    BY <2>2, <2>4
  <2>. QED BY <1>3, <2>3, <2>4, <2>5
<1>5. PICK f : WordsTabulated(f, n)
  <2>1. Known(n)
    <3> HIDE DEF Known
    <3>. QED BY <1>4
  <2>. QED BY <2>1
<1>6. \E g : Is(g)
  <2> DEFINE g == [m \in 0..n |-> f[m]]
  <2>1. \A m \in 0..n : g[m] = IF m = 0 THEN << >> ELSE Append(g[m \div 256], m % 256)
    <3>1. \A m \in 0..n : g[m] = f[m]
      OBVIOUS
    <3> HIDE DEF g
    <3>2. \A m \in 0..n : m \div 256 \in 0..n
      OBVIOUS
    <3>. QED BY <1>5, <3>1, <3>2 DEF WordsTabulated
  <2>2. g = [m \in 0..n |-> g[m]]
    OBVIOUS
  <2> HIDE DEF g
  <2>3. Is(g)
    BY <2>1, <2>2
  <2>. QED BY <2>3
<1>7. Is(word)
  <2> HIDE DEF Is
  <2>. QED BY <1>6
<1> HIDE DEF word
<1>8. WordsTabulated(word, n)
  BY <1>7 DEF WordsTabulated
<1>. QED BY <1>1, <1>8

\* It is the word of its number, no longer than it has to be.
IsWordOf(word, n) ==
  /\ Canonical(word) /\ Value(word) = n /\ (n > 0 => word # << >>)
  /\ n < 4294967296 => Len(word) <= 4

LEMMA WordOfNumber ==
  ASSUME NEW n \in Nat
  PROVE  IsWordOf(BigEndian(n), n)
<1>1. PICK f : BigEndian(n) = f[n] /\ WordsTabulated(f, n)
  BY WordsTable
<1> DEFINE Right(m) == /\ Canonical(f[m]) /\ Value(f[m]) = m /\ (m > 0 => f[m] # << >>)
                       /\ (m < 1 => Len(f[m]) <= 0) /\ (m < 256 => Len(f[m]) <= 1)
                       /\ (m < 65536 => Len(f[m]) <= 2) /\ (m < 16777216 => Len(f[m]) <= 3)
                       /\ (m < 4294967296 => Len(f[m]) <= 4)
           wrong == {m \in 0..n : ~ Right(m)}
<1>2. Right(0)
  <2>1. f[0] = << >>
    BY <1>1 DEF WordsTabulated
  <2>. QED BY <2>1, ValueOfNone DEF Canonical
<1>3. ASSUME NEW m \in 1..n, Right(m \div 256) PROVE Right(m)
  <2> DEFINE word == f[m \div 256]
             byte == m % 256
             above == m \div 256
  <2>1. f[m] = Append(word, byte) /\ byte \in Nat /\ above \in Nat /\ m = 256 * above + byte
        /\ byte < 256 /\ m > 0
    <3>1. m \in 0..n /\ m # 0 /\ m \in Nat
      OBVIOUS
    <3>2. f[m] = Append(word, byte)
      BY <1>1, <3>1 DEF WordsTabulated
    <3>. QED BY <3>1, <3>2
  <2>2. word \in Seq(Nat) /\ Value(word) = above /\ (word # << >> => word[1] # 0) /\ (above > 0 => word # << >>)
    BY <1>3 DEF Canonical
  <2>3. /\ (above < 1 => Len(word) <= 0) /\ (above < 256 => Len(word) <= 1)
        /\ (above < 65536 => Len(word) <= 2) /\ (above < 16777216 => Len(word) <= 3)
    BY <1>3
  <2> HIDE DEF word, byte, above
  <2>4. Value(f[m]) = m
    BY <2>1, <2>2, ValueAppended
  <2>5. f[m] \in Seq(Nat) /\ Len(f[m]) = Len(word) + 1 /\ Len(word) \in Nat
        /\ (word # << >> => f[m][1] = word[1]) /\ (word = << >> => f[m][1] = byte) /\ f[m] # << >>
    <3> DEFINE len == Len(word)
               longer == Append(word, byte)
    <3>1. /\ len \in Nat /\ longer \in Seq(Nat) /\ Len(longer) = len + 1
          /\ longer[len + 1] = byte /\ \A i \in 1..len : longer[i] = word[i]
      BY <2>1, <2>2
    <3>2. (word # << >> => len >= 1) /\ (word = << >> => len = 0)
      BY <2>2
    <3> HIDE DEF len, longer
    <3>3. word # << >> => longer[1] = word[1]
      BY <3>1, <3>2
    <3>4. word = << >> => longer[1] = byte
      BY <3>1, <3>2
    <3>5. longer # << >>
      BY <3>1
    <3>6. f[m] = longer
      BY <2>1 DEF longer
    <3>. QED BY <3>1, <3>3, <3>4, <3>5, <3>6 DEF len
  <2>6. f[m][1] # 0
    <3>1. CASE word = << >>
      BY <2>1, <2>2, <2>5, <3>1
    <3>. QED BY <2>2, <2>5, <3>1
  <2>7. /\ (m < 1 => Len(f[m]) <= 0) /\ (m < 256 => Len(f[m]) <= 1)
        /\ (m < 65536 => Len(f[m]) <= 2) /\ (m < 16777216 => Len(f[m]) <= 3)
        /\ (m < 4294967296 => Len(f[m]) <= 4)
    <3>1. /\ ~ (m < 1) /\ (m < 256 => above < 1) /\ (m < 65536 => above < 256)
          /\ (m < 16777216 => above < 65536) /\ (m < 4294967296 => above < 16777216)
      BY <2>1
    <3>. QED BY <2>3, <2>5, <3>1
  <2>. QED BY <2>4, <2>5, <2>6, <2>7 DEF Canonical
<1>4. wrong = {}
  <2> HIDE DEF Right
  <2>1. SUFFICES ASSUME wrong # {} PROVE FALSE
    OBVIOUS
  <2>2. PICK least \in wrong : \A m \in wrong : least <= m
    <3>1. wrong \in SUBSET Nat
      OBVIOUS
    <3> HIDE DEF wrong
    <3>. QED BY <2>1, <3>1, Smallest
  <2>3. least \in 0..n /\ ~ Right(least)
    BY <2>2
  <2>4. least # 0 /\ least \in 1..n /\ least \div 256 \in 0..n /\ ~ (least <= least \div 256)
    BY <1>2, <2>3
  <2>5. Right(least \div 256)
    BY <2>2, <2>4
  <2>. QED BY <1>3, <2>3, <2>4, <2>5
<1>5. Right(n)
  <2> HIDE DEF Right
  <2>. QED BY <1>4
<1>. QED BY <1>1, <1>5 DEF IsWordOf

\* The payload of an item begins where the item does or after it, that of a list after it.
LEMMA PayloadWithin ==
  ASSUME NEW bytes \in Seq(Nat), NEW from \in Nat, from < Len(bytes)
  PROVE  LET span == RlpPayload(bytes, from)
         IN  \/ span = NoSpan
             \/ /\ span.start \in Nat /\ span.end \in Nat /\ from <= span.start /\ span.start <= span.end
                /\ bytes[from + 1] >= 192 => from + 1 <= span.start
<1> DEFINE prefix == bytes[from + 1]
           short == prefix - RlpBase(prefix)
           start == from + short - 54
           part == Slice(bytes, from + 1, short - 55)
           end == start + Value(part)
           second == bytes[from + 2]
           span == RlpPayload(bytes, from)
           Within(s) == /\ s.start \in Nat /\ s.end \in Nat /\ from <= s.start /\ s.start <= s.end
                        /\ prefix >= 192 => from + 1 <= s.start
<1>1. prefix \in Nat /\ Len(bytes) \in Nat
  <2>1. from + 1 \in 1..Len(bytes)
    OBVIOUS
  <2>. QED BY <2>1
<1>2. span = IF prefix < 128 THEN RlpSpan(from, from + 1)
             ELSE IF short <= 55
             THEN IF prefix = 129 /\ from + 1 < Len(bytes) /\ second < 128 THEN NoSpan
                  ELSE RlpSpan(from + 1, from + 1 + short)
             ELSE IF start <= Len(bytes) /\ second # 0 /\ end - start > 55
             THEN RlpSpan(start, end) ELSE NoSpan
  BY DEF RlpPayload
<1>3. \A a, b : RlpSpan(a, b).start = a /\ RlpSpan(a, b).end = b
  BY DEF RlpSpan
<1>4. prefix >= 128 => short \in Nat
  BY <1>1 DEF RlpBase
<1> HIDE DEF prefix, span, second
<1>5. CASE prefix < 128
  <2>1. from \in Nat /\ from + 1 \in Nat /\ from <= from + 1 /\ ~ (prefix >= 192)
    BY <1>1, <1>5
  <2>2. span = RlpSpan(from, from + 1)
    BY <1>2, <1>5
  <2>. QED BY <1>3, <2>1, <2>2 DEF prefix, span
<1>6. CASE ~ (prefix < 128) /\ short <= 55
  <2>1. from + 1 \in Nat /\ from + 1 + short \in Nat /\ from <= from + 1 /\ from + 1 <= from + 1 + short
    BY <1>1, <1>4, <1>6
  <2>2. span = NoSpan \/ span = RlpSpan(from + 1, from + 1 + short)
    BY <1>2, <1>6
  <2> HIDE DEF short
  <2>3. span = NoSpan \/ Within(span)
    BY <1>3, <2>1, <2>2
  <2>. QED BY <2>3 DEF prefix, span
<1>7. CASE ~ (prefix < 128) /\ ~ (short <= 55)
  <2>1. start \in Nat /\ from + 1 <= start /\ short - 55 \in Nat /\ from + 1 \in Nat
        /\ (from + 1) + (short - 55) = start
    BY <1>1, <1>4, <1>7
  <2>2. span = IF start <= Len(bytes) /\ second # 0 /\ end - start > 55
               THEN RlpSpan(start, end) ELSE NoSpan
    BY <1>2, <1>7
  <2>3. start <= Len(bytes) => part \in Seq(Nat)
    <3> DEFINE n == short - 55
               after == from + 1
    <3> HIDE DEF short
    <3>1. n \in Nat /\ after \in Nat /\ after + n = start
      BY <2>1
    <3> HIDE DEF n, after, start
    <3>2. after + n <= Len(bytes) => SubSeq(bytes, after + 1, after + n) \in Seq(Nat)
      BY <3>1, PartOf
    <3>3. part = SubSeq(bytes, after + 1, after + n)
      BY DEF Slice, n, after
    <3>. QED BY <3>1, <3>2, <3>3
  <2> HIDE DEF part
  <2>4. start <= Len(bytes) => Value(part) \in Nat
    BY <2>3, ValueIsNat
  <2> HIDE DEF start
  <2>5. start <= Len(bytes) => end \in Nat /\ start <= end
    BY <2>1, <2>4
  <2> HIDE DEF end
  <2>6. CASE start <= Len(bytes) /\ second # 0 /\ end - start > 55
    <3>1. from <= start
      BY <2>1
    <3>2. Within(span)
      BY <1>3, <2>1, <2>2, <2>5, <2>6, <3>1
    <3>. QED BY <3>2 DEF prefix, span
  <2>7. CASE ~ (start <= Len(bytes) /\ second # 0 /\ end - start > 55)
    BY <2>2, <2>7 DEF span
  <2>. QED BY <2>6, <2>7
<1>. QED BY <1>5, <1>6, <1>7

\* What is found at an offset depends on what comes after it only.
AlikeBeyond(f, g, offset, len) ==
  \A o \in (offset + 1)..len, t \in 0..len : f[o][t] = g[o][t]

LEMMA RlpAhead ==
  ASSUME NEW bytes \in Seq(Nat), NEW from \in 0..Len(bytes), NEW to \in 0..Len(bytes), NEW f, NEW g,
         AlikeBeyond(f, g, from, Len(bytes))
  PROVE  RlpFrom(bytes, from, to, f) = RlpFrom(bytes, from, to, g)
<1> DEFINE span == RlpPayload(bytes, from)
           len == Len(bytes)
           start == span.start
           end == span.end
<1>1. len \in Nat /\ from \in Nat /\ to \in Nat
  OBVIOUS
<1>2. \A h : RlpFrom(bytes, from, to, h) =
               IF end \notin (from + 1)..to THEN <<NoRlp>>
               ELSE <<IF bytes[from + 1] >= 192 THEN [list |-> h[start][end]]
                      ELSE [bytes |-> SubSeq(bytes, start + 1, end)]>> \o h[end][to]
  BY DEF RlpFrom
<1>3. CASE end \notin (from + 1)..to
  <2>1. \A h : RlpFrom(bytes, from, to, h) = <<NoRlp>>
    BY <1>2, <1>3
  <2>. QED BY <2>1
<1>4. CASE end \in (from + 1)..to
  <2>1. from < len /\ end \in (from + 1)..len /\ end \in 0..len /\ end # 0
    BY <1>1, <1>4
  <2>2. span # NoSpan
    <3>1. NoSpan.end = 0
      BY DEF NoSpan, RlpSpan
    <3>. QED BY <2>1, <3>1
  <2>3. start \in Nat /\ start <= end /\ (bytes[from + 1] >= 192 => from + 1 <= start)
    <3> HIDE DEF span
    <3>1. \/ span = NoSpan
          \/ /\ span.start \in Nat /\ span.end \in Nat /\ from <= span.start /\ span.start <= span.end
             /\ bytes[from + 1] >= 192 => from + 1 <= span.start
      BY <1>1, <2>1, PayloadWithin DEF span
    <3>. QED BY <2>2, <3>1
  <2> HIDE DEF start, end, span
  <2>4. f[end][to] = g[end][to]
    BY <1>1, <2>1 DEF AlikeBeyond
  <2>5. bytes[from + 1] >= 192 => f[start][end] = g[start][end]
    <3>1. from + 1 <= start => start \in (from + 1)..len
      BY <1>1, <2>1, <2>3
    <3>. QED BY <2>1, <2>3, <3>1 DEF AlikeBeyond
  <2> DEFINE Found(h) == IF bytes[from + 1] >= 192 THEN [list |-> h[start][end]]
                         ELSE [bytes |-> SubSeq(bytes, start + 1, end)]
  <2>6. Found(f) = Found(g)
    BY <2>5
  <2>7. \A h : RlpFrom(bytes, from, to, h) = <<Found(h)>> \o h[end][to]
    BY <1>2, <1>4
  <2> HIDE DEF Found
  <2>. QED BY <2>4, <2>6, <2>7
<1>. QED BY <1>3, <1>4

\* The table of what stands between two offsets is what its definition says.
RlpRow(bytes, h, o) ==
  [to \in 0..Len(bytes) |-> IF o = to THEN << >> ELSE RlpFrom(bytes, o, to, h)]
RlpTabulates(bytes, f, from) == \A o \in from..Len(bytes) : f[o] = RlpRow(bytes, f, o)

LEMMA SameRow ==
  ASSUME NEW bytes \in Seq(Nat), NEW o \in 0..Len(bytes), NEW f, NEW g,
         AlikeBeyond(f, g, o, Len(bytes))
  PROVE  RlpRow(bytes, f, o) = RlpRow(bytes, g, o)
<1>1. \A to \in 0..Len(bytes) : RlpFrom(bytes, o, to, f) = RlpFrom(bytes, o, to, g)
  BY RlpAhead
<1>. QED BY <1>1 DEF RlpRow

LEMMA RlpTable ==
  ASSUME NEW bytes \in Seq(Nat)
  PROVE  RlpTabulates(bytes, RlpItems(bytes), 0)
<1> DEFINE len == Len(bytes)
           Known(m) == \E f : RlpTabulates(bytes, f, m)
           known == {m \in 0..(len + 1) : Known(m)}
           Is(f) == f = [o \in 0..len |-> RlpRow(bytes, f, o)]
           items == CHOOSE f : Is(f)
<1>1. len \in Nat
  OBVIOUS
<1>2. len + 1 \in known
  <2>1. (len + 1)..len = {}
    BY <1>1
  <2>2. RlpTabulates(bytes, << >>, len + 1)
    BY <2>1 DEF RlpTabulates
  <2>. QED BY <1>1, <2>2
<1>3. ASSUME NEW m \in Nat, m > 0, m <= len + 1, Known(m)
      PROVE  Known(m - 1)
  <2>1. PICK f : RlpTabulates(bytes, f, m)
    BY <1>3
  <2> DEFINE p == m - 1
             g == [o \in p..len |-> IF o = p THEN RlpRow(bytes, f, p) ELSE f[o]]
  <2>2. p \in Nat /\ p <= len /\ p + 1 = m
    BY <1>1, <1>3
  <2> HIDE DEF p
  <2>3. g[p] = RlpRow(bytes, f, p) /\ \A o \in m..len : g[o] = f[o]
    <3>1. p \in p..len /\ \A o \in m..len : o \in p..len /\ o # p
      BY <1>1, <1>3, <2>2
    <3>. QED BY <3>1
  <2> HIDE DEF g
  <2>4. ASSUME NEW o \in p..len PROVE g[o] = RlpRow(bytes, g, o)
    <3>1. o \in 0..len /\ \A x \in (o + 1)..len : x \in m..len
      BY <1>1, <1>3, <2>2
    <3>2. AlikeBeyond(f, g, o, len)
      BY <2>3, <3>1 DEF AlikeBeyond
    <3>3. RlpRow(bytes, f, o) = RlpRow(bytes, g, o)
      BY <3>1, <3>2, SameRow
    <3>4. g[o] = RlpRow(bytes, f, o)
      <4>1. CASE o = p
        BY <2>3, <4>1
      <4>2. CASE o # p
        <5>1. o \in m..len
          BY <1>1, <2>2, <4>2
        <5>. QED BY <2>1, <2>3, <5>1 DEF RlpTabulates
      <4>. QED BY <4>1, <4>2
    <3>. QED BY <3>3, <3>4
  <2>5. RlpTabulates(bytes, g, p)
    BY <2>4 DEF RlpTabulates
  <2>. QED BY <2>5 DEF p
<1>4. \A m \in known : m > 0 => m - 1 \in known
  <2> HIDE DEF Known
  <2>. QED BY <1>1, <1>3
<1>5. 0 \in known
  <2> HIDE DEF known
  <2>1. known \in SUBSET Nat
    BY <1>1 DEF known
  <2>. QED BY <1>2, <1>4, <2>1, Descent
<1>6. PICK f : RlpTabulates(bytes, f, 0)
  BY <1>5
<1>7. \E g : Is(g)
  <2> DEFINE Whole(g) == g = [o \in 0..len |-> g[o]] /\ \A o \in 0..len : g[o] = f[o]
             whole == [o \in 0..len |-> f[o]]
  <2>1. Whole(whole)
    OBVIOUS
  <2>2. PICK g : Whole(g)
    <3> HIDE DEF Whole, whole
    <3>. QED BY <2>1
  <2>3. ASSUME NEW o \in 0..len PROVE g[o] = RlpRow(bytes, g, o)
    <3>1. \A x \in (o + 1)..len : x \in 0..len
      BY <1>1
    <3>2. AlikeBeyond(f, g, o, len)
      BY <2>2, <3>1 DEF AlikeBeyond
    <3>3. RlpRow(bytes, f, o) = RlpRow(bytes, g, o)
      BY <3>2, SameRow
    <3>. QED BY <1>6, <2>2, <3>3 DEF RlpTabulates
  <2>4. Is(g)
    BY <2>2, <2>3
  <2>. QED BY <2>4
<1>8. Is(items)
  <2> HIDE DEF Is
  <2>. QED BY <1>7
<1>9. RlpItems(bytes) = items
  BY DEF RlpItems, RlpRow
<1> HIDE DEF items
<1>. QED BY <1>8, <1>9 DEF RlpTabulates

\* Bytes that the decoder takes for these items, wherever they stand.
RlpContinues(bytes, from, to, list) ==
  \A end \in to..Len(bytes) : \A rest :
    Listed(rest) /\ RlpItems(bytes)[to][end] = rest => RlpItems(bytes)[from][end] = list \o rest
RlpReads(part, list) ==
  /\ part \in Seq(Nat) /\ Listed(list)
  /\ \A bytes \in Seq(Nat), at \in Nat :
       Holds(bytes, at, part) => RlpContinues(bytes, at, at + Len(part), list)

LEMMA RlpNothing == RlpReads(<< >>, << >>)
<1>1. << >> \in Seq(Nat) /\ Len(<< >>) = 0 /\ Listed(<< >>)
  BY DEF Listed
<1>2. ASSUME NEW bytes \in Seq(Nat), NEW at \in Nat PROVE RlpContinues(bytes, at, at + 0, << >>)
  <2>1. \A rest : Listed(rest) => << >> \o rest = rest
    BY DEF Listed
  <2>2. at + 0 = at
    OBVIOUS
  <2>. QED BY <2>1, <2>2, Zenon DEF RlpContinues
<1>. QED BY <1>1, <1>2 DEF RlpReads

LEMMA RlpMore ==
  ASSUME NEW p, NEW is, RlpReads(p, is), NEW q, NEW js, RlpReads(q, js),
         NEW all, all = Chained(p, q), NEW list, list = Chained(is, js)
  PROVE  RlpReads(all, list)
<1>1. /\ p \in Seq(Nat) /\ q \in Seq(Nat) /\ Len(p) \in Nat /\ Len(q) \in Nat
      /\ Listed(is) /\ Listed(js)
  BY DEF RlpReads
<1>2. /\ all \in Seq(Nat) /\ Len(all) = Len(p) + Len(q)
      /\ Holds(all, 0, p) /\ Holds(all, Len(p), q)
  BY <1>1, TwoParts DEF Chained
<1>3. Listed(list)
  BY <1>1, ListsJoin DEF Chained
<1>4. ASSUME NEW rest, Listed(rest) PROVE list \o rest = is \o (js \o rest) /\ Listed(js \o rest)
  <2>1. (is \o js) \o rest = is \o (js \o rest) /\ Listed(js \o rest)
    BY <1>1, <1>4, ListsJoin
  <2>2. list = is \o js
    BY DEF Chained
  <2>. QED BY <2>1, <2>2
<1>5. ASSUME NEW bytes \in Seq(Nat), NEW at \in Nat, Holds(bytes, at, all)
      PROVE  RlpContinues(bytes, at, at + Len(all), list)
  <2> DEFINE between == at + Len(p)
             to == between + Len(q)
             items == RlpItems(bytes)
  <2>1. between \in Nat /\ to = at + Len(all) /\ to \in Nat /\ between <= to /\ Len(bytes) \in Nat
    BY <1>1, <1>2
  <2>2. RlpContinues(bytes, at, between, is)
    <3>1. Holds(bytes, at, p)
      BY <1>1, <1>2, <1>5, HoldsFirst
    <3>. QED BY <3>1 DEF RlpReads
  <2>3. RlpContinues(bytes, between, to, js)
    <3>1. Holds(bytes, between, q)
      <4> HIDE DEF between
      <4>. QED BY <1>1, <1>2, <1>5, HoldsAt DEF between
    <3> HIDE DEF between
    <3>. QED BY <2>1, <3>1 DEF RlpReads
  <2> HIDE DEF between, to
  <2>4. RlpContinues(bytes, at, to, list)
    <3> SUFFICES ASSUME NEW end \in to..Len(bytes), NEW rest, Listed(rest), items[to][end] = rest
                 PROVE  items[at][end] = list \o rest
      BY DEF RlpContinues
    <3> DEFINE further == js \o rest
    <3>1. end \in between..Len(bytes)
      BY <2>1
    <3> HIDE DEF items
    <3>2. items[between][end] = further
      BY <2>3 DEF RlpContinues, items
    <3>3. Listed(further) /\ list \o rest = is \o further
      BY <1>4
    <3> HIDE DEF further
    <3>4. items[at][end] = is \o further
      BY <2>2, <3>1, <3>2, <3>3 DEF RlpContinues, items
    <3>. QED BY <3>3, <3>4
  <2>. QED BY <2>1, <2>4
<1>. QED BY <1>2, <1>3, <1>5 DEF RlpReads

\* A head that says where the payload after it ends.
Heads(h, s) ==
  /\ h \in Seq(Nat) /\ s \in Seq(Nat) /\ Len(h) + Len(s) >= 1
  /\ \A bytes \in Seq(Nat), at \in Nat :
       Holds(bytes, at, Chained(h, s)) =>
         RlpPayload(bytes, at) = RlpSpan(at + Len(h), at + Len(h) + Len(s))
Leads(h, s, byte) == Chained(h, s)[1] = byte

HasItem(bytes, at, h, s, byte, end) ==
  /\ Heads(h, s) /\ Leads(h, s, byte) /\ bytes \in Seq(Nat) /\ at \in Nat
  /\ Holds(bytes, at, Chained(h, s)) /\ end \in (at + Len(Chained(h, s)))..Len(bytes)
ItemBetween(items, at, start, to, end, s, byte) ==
  items[at][end] = <<IF byte >= 192 THEN [list |-> items[start][to]] ELSE [bytes |-> s]>> \o items[to][end]

LEMMA ItemThere ==
  ASSUME NEW h, NEW s, NEW byte, NEW bytes, NEW at, NEW end, HasItem(bytes, at, h, s, byte, end)
  PROVE  /\ ItemBetween(RlpItems(bytes), at, at + Len(h), at + Len(Chained(h, s)), end, s, byte)
         /\ at + Len(h) \in Nat /\ at + Len(Chained(h, s)) = at + Len(h) + Len(s)
         /\ at + Len(Chained(h, s)) \in 0..Len(bytes) /\ Holds(bytes, at + Len(h), s)
<1> DEFINE all == Chained(h, s)
           start == at + Len(h)
           to == at + Len(all)
           items == RlpItems(bytes)
<1>0. /\ Heads(h, s) /\ Leads(h, s, byte) /\ bytes \in Seq(Nat) /\ at \in Nat
      /\ Holds(bytes, at, all) /\ end \in to..Len(bytes)
      /\ start = at + Len(h) /\ to = at + Len(all) /\ items = RlpItems(bytes) /\ all = Chained(h, s)
  BY DEF HasItem
<1> HIDE DEF all, start, to, items
<1>1. /\ h \in Seq(Nat) /\ s \in Seq(Nat) /\ Len(h) \in Nat /\ Len(s) \in Nat /\ Len(h) + Len(s) >= 1
  BY <1>0 DEF Heads
<1>2. /\ all \in Seq(Nat) /\ Len(all) = Len(h) + Len(s)
      /\ Holds(all, 0, h) /\ Holds(all, Len(h), s)
  BY <1>0, <1>1, TwoParts DEF Chained
<1>3. start \in Nat /\ to \in Nat /\ to = start + Len(s) /\ to >= at + 1 /\ Len(bytes) \in Nat
  <2> DEFINE m == Len(h)
             n == Len(s)
  <2>1. /\ at \in Nat /\ m \in Nat /\ n \in Nat /\ m + n >= 1
        /\ start = at + m /\ to = at + (m + n)
    BY <1>0, <1>1, <1>2
  <2>2. Len(bytes) \in Nat
    BY <1>0
  <2> HIDE DEF m, n
  <2>3. start \in Nat /\ to \in Nat /\ to = start + n /\ to >= at + 1
    BY <2>1
  <2>. QED BY <2>2, <2>3 DEF n
<1>4. Holds(bytes, start, s)
  BY <1>0, <1>1, <1>2, HoldsAt
<1>5. to <= Len(bytes) /\ bytes[at + 1] = byte
  <2>1. at + Len(all) <= Len(bytes) /\ \A i \in 1..Len(all) : bytes[at + i] = all[i]
    BY <1>0 DEF Holds
  <2>2. 1 \in 1..Len(all)
    BY <1>1, <1>2
  <2>3. bytes[at + 1] = all[1]
    BY <2>1, <2>2
  <2>. QED BY <1>0, <2>1, <2>3 DEF Leads
<1>6. at \in 0..Len(bytes) /\ end \in 0..Len(bytes) /\ at # end /\ to \in (at + 1)..end
  BY <1>0, <1>3, <1>5
<1>7. RlpPayload(bytes, at) = RlpSpan(start, to)
  <2>1. RlpPayload(bytes, at) = RlpSpan(at + Len(h), at + Len(h) + Len(s))
    BY <1>0 DEF Heads
  <2>. QED BY <1>0, <1>3, <2>1
<1>8. RlpTabulates(bytes, items, 0)
  BY <1>0, RlpTable
<1>9. items[at][end] = RlpFrom(bytes, at, end, items)
  <2>1. items[at] = RlpRow(bytes, items, at)
    BY <1>6, <1>8 DEF RlpTabulates
  <2>. QED BY <1>6, <2>1 DEF RlpRow
<1>10. SubSeq(bytes, start + 1, to) = s
  <2> DEFINE n == Len(s)
  <2>1. n \in Nat /\ to = start + n
    BY <1>1, <1>3
  <2>2. Slice(bytes, start, n) = s
    BY <1>0, <1>1, <1>3, <1>4, HoldsSlice, SMTT(30)
  <2> HIDE DEF n
  <2>. QED BY <2>1, <2>2 DEF Slice
<1>11. RlpFrom(bytes, at, end, items) =
         <<IF byte >= 192 THEN [list |-> items[start][to]] ELSE [bytes |-> s]>> \o items[to][end]
  <2>1. RlpSpan(start, to).start = start /\ RlpSpan(start, to).end = to
    BY DEF RlpSpan
  <2>. QED BY <1>5, <1>6, <1>7, <1>10, <2>1 DEF RlpFrom
<1>12. to \in 0..Len(bytes) /\ ItemBetween(items, at, start, to, end, s, byte)
  BY <1>3, <1>5, <1>9, <1>11 DEF ItemBetween
<1>. QED BY <1>3, <1>4, <1>12 DEF all, start, to, items

LEMMA SingleListed ==
  ASSUME NEW item
  PROVE  Listed(Single(item)) /\ Len(Single(item)) = 1 /\ Single(item)[1] = item
<1>1. <<item>> \in Seq({item}) /\ Len(<<item>>) = 1 /\ <<item>>[1] = item
  OBVIOUS
<1>. QED BY <1>1, Zenon DEF Listed, Single

LEMMA RlpString ==
  ASSUME NEW h, NEW s, Heads(h, s), NEW byte, Leads(h, s, byte), ~ (byte >= 192),
         NEW all, all = Chained(h, s)
  PROVE  RlpReads(all, Single(AsField(s)))
<1>1. all \in Seq(Nat)
  BY TwoParts DEF Heads, Chained
<1>2. ASSUME NEW bytes \in Seq(Nat), NEW at \in Nat, Holds(bytes, at, all)
      PROVE  RlpContinues(bytes, at, at + Len(all), Single(AsField(s)))
  <2> DEFINE start == at + Len(h)
             to == at + Len(all)
             items == RlpItems(bytes)
  <2>1. ASSUME NEW end \in to..Len(bytes) PROVE items[at][end] = Single(AsField(s)) \o items[to][end]
    <3>1. HasItem(bytes, at, h, s, byte, end)
      BY <1>2 DEF HasItem
    <3>2. ItemBetween(items, at, start, to, end, s, byte)
      BY <3>1, ItemThere
    <3>. QED BY <3>2 DEF ItemBetween, Single, AsField
  <2>. QED BY <2>1 DEF RlpContinues
<1>. QED BY <1>1, <1>2, SingleListed DEF RlpReads

LEMMA RlpListItem ==
  ASSUME NEW h, NEW s, Heads(h, s), NEW byte, Leads(h, s, byte), byte >= 192,
         NEW list, RlpReads(s, list), NEW all, all = Chained(h, s)
  PROVE  RlpReads(all, Single(AsList(list)))
<1>1. all \in Seq(Nat)
  BY TwoParts DEF Heads, Chained
<1>2. ASSUME NEW bytes \in Seq(Nat), NEW at \in Nat, Holds(bytes, at, all)
      PROVE  RlpContinues(bytes, at, at + Len(all), Single(AsList(list)))
  <2> DEFINE start == at + Len(h)
             to == at + Len(all)
             items == RlpItems(bytes)
  <2>1. ASSUME NEW end \in to..Len(bytes) PROVE items[at][end] = Single(AsList(list)) \o items[to][end]
    <3>1. HasItem(bytes, at, h, s, byte, end)
      BY <1>2 DEF HasItem
    <3>2. /\ ItemBetween(items, at, start, to, end, s, byte) /\ items = RlpItems(bytes)
          /\ start \in Nat /\ to = start + Len(s) /\ to \in 0..Len(bytes) /\ Holds(bytes, start, s)
      BY <3>1, ItemThere
    <3> HIDE DEF start, to, items
    <3>3. items[to][to] = << >>
      <4>1. items[to] = RlpRow(bytes, items, to)
        BY <3>2, RlpTable DEF RlpTabulates
      <4>. QED BY <3>2, <4>1 DEF RlpRow
    <3>4. items[start][to] = list \o << >>
      <4>1. RlpContinues(bytes, start, to, list)
        BY <3>2 DEF RlpReads
      <4>2. to \in to..Len(bytes) /\ Listed(<< >>)
        BY <3>2 DEF Listed
      <4>. QED BY <3>2, <3>3, <4>1, <4>2 DEF RlpContinues
    <3>5. list \o << >> = list
      BY DEF RlpReads, Listed
    <3>. QED BY <3>2, <3>4, <3>5 DEF ItemBetween, Single, AsList
  <2>. QED BY <2>1 DEF RlpContinues
<1>. QED BY <1>1, <1>2, SingleListed DEF RlpReads

\* A list that is all there is.
LEMMA RlpWhole ==
  ASSUME NEW part, NEW list, RlpReads(part, Single(AsList(list)))
  PROVE  RlpList(part) = list
<1> DEFINE items == RlpItems(part)
           item == AsList(list)
           n == Len(part)
<1>1. part \in Seq(Nat) /\ n \in Nat /\ 0 \in Nat /\ 0 + n = n /\ n \in n..n /\ n \in 0..n
  BY DEF RlpReads
<1>2. Holds(part, 0, part)
  BY <1>1 DEF Holds
<1>3. RlpContinues(part, 0, n, Single(item))
  BY <1>1, <1>2 DEF RlpReads
<1>4. items[n][n] = << >>
  <2>1. items[n] = RlpRow(part, items, n)
    BY <1>1, RlpTable DEF RlpTabulates
  <2>. QED BY <1>1, <2>1 DEF RlpRow
<1>5. items[0][n] = Single(item) \o << >>
  <2>1. Listed(<< >>)
    BY DEF Listed
  <2> HIDE DEF items
  <2>2. \A end \in n..n : \A rest : Listed(rest) /\ items[n][end] = rest
                                     => items[0][end] = Single(item) \o rest
    BY <1>3 DEF RlpContinues, items
  <2> HIDE DEF n, item
  <2>. QED BY <1>1, <1>4, <2>1, <2>2
<1>6. Single(item) \o << >> = Single(item)
  BY SingleListed DEF Listed
<1> DEFINE found == items[0][n]
<1>7. Len(found) = 1 /\ found[1] = item
  BY <1>5, <1>6, SingleListed
<1>8. RlpList(part) = IF Len(found) = 1 /\ "list" \in DOMAIN found[1]
                      THEN found[1].list ELSE <<NoRlp>>
  BY DEF RlpList
<1>9. "list" \in DOMAIN item /\ item.list = list
  BY DEF AsList
<1> HIDE DEF found, item
<1>. QED BY <1>7, <1>8, <1>9 DEF item

\* The heads that writeLength writes.
LEMMA LengthHead ==
  ASSUME NEW base \in {128, 192}, NEW s \in Seq(Nat), Len(s) <= 55,
         base = 128 /\ Len(s) = 1 => s[1] >= 128,
         NEW byte, byte = Len(s) + base, NEW h, h = Single(byte)
  PROVE  Heads(h, s) /\ Leads(h, s, byte)
<1> DEFINE n == Len(s)
           all == Chained(h, s)
<1>1. n \in Nat /\ byte \in Nat /\ h \in Seq(Nat) /\ Len(h) = 1 /\ h[1] = byte
  <2>1. n \in Nat /\ byte \in Nat
    OBVIOUS
  <2>. QED BY <2>1, FirstByte DEF Single
<1>2. all \in Seq(Nat) /\ Len(all) = n + 1 /\ all[1] = byte /\ \A k \in 1..n : all[1 + k] = s[k]
  <2>1. /\ <<byte>> \o s \in Seq(Nat) /\ Len(<<byte>> \o s) = Len(s) + 1 /\ (<<byte>> \o s)[1] = byte
        /\ \A k \in 1..Len(s) : (<<byte>> \o s)[1 + k] = s[k]
    BY <1>1, ByteBefore
  <2>. QED BY <2>1 DEF Chained, Single
<1>3. ASSUME NEW bytes \in Seq(Nat), NEW at \in Nat, Holds(bytes, at, all)
      PROVE  RlpPayload(bytes, at) = RlpSpan(at + Len(h), at + Len(h) + n)
  <2> DEFINE second == bytes[at + 2]
  <2> HIDE DEF all, second
  <2>1. bytes[at + 1] = byte
    <3>1. 1 \in 1..Len(all)
      BY <1>1, <1>2
    <3>. QED BY <1>2, <1>3, <3>1 DEF Holds
  <2>2. RlpBase(byte) = base /\ byte - base = n /\ ~ (byte < 128) /\ n <= 55
    <3>1. base = 128 \/ base = 192
      OBVIOUS
    <3>. QED BY <1>1, <3>1 DEF RlpBase
  <2>3. byte = 129 => ~ (second < 128)
    <3>1. SUFFICES ASSUME byte = 129 PROVE ~ (second < 128)
      OBVIOUS
    <3>2. base = 128 /\ n = 1
      BY <1>1, <3>1
    <3>3. 2 \in 1..Len(all) /\ 1 \in 1..n /\ 1 + 1 = 2
      BY <1>2, <3>2
    <3>4. all[2] = s[1]
      BY <1>2, <3>3
    <3>5. second = all[2]
      BY <1>3, <3>3 DEF Holds, second
    <3>6. s[1] \in Nat
      BY <3>3
    <3>. QED BY <3>2, <3>4, <3>5, <3>6
  <2>4. RlpPayload(bytes, at) =
          IF byte < 128 THEN RlpSpan(at, at + 1)
          ELSE IF byte - RlpBase(byte) <= 55
          THEN IF byte = 129 /\ at + 1 < Len(bytes) /\ second < 128 THEN NoSpan
               ELSE RlpSpan(at + 1, at + 1 + (byte - RlpBase(byte)))
          ELSE RlpPayload(bytes, at)
    BY <2>1 DEF RlpPayload, second
  <2> HIDE DEF n
  <2>. QED BY <1>1, <2>2, <2>3, <2>4
<1>4. Len(h) + Len(s) >= 1
  BY <1>1
<1>. QED BY <1>1, <1>2, <1>3, <1>4 DEF Heads, Leads

LEMMA LongHead ==
  ASSUME NEW base \in {128, 192}, NEW s \in Seq(Nat), Len(s) > 55, NEW word, IsWordOf(word, Len(s)),
         base = 128 => Len(word) <= 8,
         NEW byte, byte = Len(word) + base + 55, NEW h, h = Prefixed(byte, word)
  PROVE  Heads(h, s) /\ Leads(h, s, byte)
<1> DEFINE n == Len(s)
           all == Chained(h, s)
           width == Len(word)
<1>1. /\ n \in Nat /\ n > 55 /\ word \in Seq(Nat) /\ width \in Nat /\ width >= 1 /\ byte \in Nat
      /\ Value(word) = n /\ word[1] # 0 /\ width = Len(word)
  BY DEF IsWordOf, Canonical
<1>2. /\ h \in Seq(Nat) /\ Len(h) = width + 1 /\ h[1] = byte
      /\ \A k \in 1..width : h[1 + k] = word[k]
  BY <1>1, ByteBefore DEF Prefixed
<1>3. all \in Seq(Nat) /\ Len(all) = Len(h) + n /\ Holds(all, 0, h) /\ Holds(all, Len(h), s)
  <2>1. all = h \o s
    BY DEF Chained
  <2>2. h \in Seq(Nat)
    BY <1>2
  <2> HIDE DEF all
  <2>. QED BY <2>1, <2>2, TwoParts
<1> HIDE DEF all, width
<1>4. all[1] = byte
  <2>1. 1 \in 1..Len(h) /\ 0 + 1 = 1
    BY <1>1, <1>2
  <2>. QED BY <1>2, <1>3, <2>1 DEF Holds
<1>5. ASSUME NEW bytes \in Seq(Nat), NEW at \in Nat, Holds(bytes, at, all)
      PROVE  RlpPayload(bytes, at) = RlpSpan(at + Len(h), at + Len(h) + n)
  <2> DEFINE second == bytes[at + 2]
             short == byte - RlpBase(byte)
             after == at + 1
             start == at + short - 54
             part == Slice(bytes, after, short - 55)
             end == start + Value(part)
  <2>1. Holds(bytes, at, h) /\ at + Len(all) <= Len(bytes)
    <3>1. Holds(bytes, at, h)
      BY <1>2, <1>3, <1>5, HoldsFirst
    <3>. QED BY <1>5, <3>1 DEF Holds
  <2>2. bytes[at + 1] = byte /\ second = word[1]
    <3>1. 1 \in 1..Len(h) /\ 2 \in 1..Len(h) /\ 1 \in 1..width /\ 1 + 1 = 2
      <4>1. width \in Nat /\ width >= 1 /\ Len(h) = width + 1
        BY <1>1, <1>2
      <4>. QED BY <4>1
    <3>2. bytes[at + 1] = h[1] /\ bytes[at + 2] = h[2]
      BY <2>1, <3>1 DEF Holds
    <3>3. h[1 + 1] = word[1]
      BY <1>2, <3>1
    <3>. QED BY <1>2, <3>1, <3>2, <3>3
  <2>3. RlpBase(byte) = base /\ short = width + 55 /\ ~ (byte < 128) /\ ~ (short <= 55)
        /\ start = at + Len(h) /\ after \in Nat /\ short - 55 = width
    <3>1. base = 128 \/ base = 192
      OBVIOUS
    <3>2. byte = width + base + 55 /\ (base = 128 => width <= 8)
      BY <1>1
    <3>3. RlpBase(byte) = base
      BY <1>1, <3>1, <3>2 DEF RlpBase
    <3>4. byte - base = width + 55 /\ ~ (byte < 128)
      BY <1>1, <3>1, <3>2
    <3>5. short = width + 55
      BY <3>3, <3>4
    <3> HIDE DEF short
    <3>6. start = at + (width + 1)
      BY <1>1, <3>5
    <3>7. width \in Nat /\ width >= 1 /\ Len(h) = width + 1
      BY <1>1, <1>2
    <3>8. ~ (short <= 55) /\ short - 55 = width
      BY <3>5, <3>7
    <3>9. start = at + Len(h)
      <4> HIDE DEF start
      <4>. QED BY <3>6, <3>7
    <3>. QED BY <3>3, <3>4, <3>5, <3>8, <3>9
  <2>4. Holds(bytes, after, word)
    <3>1. after + width <= Len(bytes)
      <4>1. at + Len(h) <= Len(bytes) /\ Len(bytes) \in Nat
        BY <2>1 DEF Holds
      <4>. QED BY <1>1, <1>2, <4>1
    <3>2. ASSUME NEW k \in 1..width PROVE bytes[after + k] = word[k]
      <4>1. 1 + k \in 1..Len(h) /\ at + (1 + k) = after + k
        BY <1>1, <1>2
      <4>2. bytes[at + (1 + k)] = h[1 + k]
        BY <2>1, <4>1 DEF Holds
      <4>. QED BY <1>2, <4>1, <4>2
    <3> HIDE DEF after
    <3>3. Len(word) = width
      BY <1>1
    <3>. QED BY <3>1, <3>2, <3>3 DEF Holds
  <2>5. part = word
    <3>1. Slice(bytes, after, width) = word
      <4>1. after \in Nat /\ width = Len(word) /\ word \in Seq(Nat)
        BY <1>1
      <4> HIDE DEF after, short
      <4>. QED BY <2>4, <4>1, HoldsSlice
    <3> HIDE DEF short, after
    <3>. QED BY <2>3, <3>1
  <2>6. start <= Len(bytes) /\ end = at + Len(h) + n /\ end - start > 55
    <3>1. at + Len(h) <= Len(bytes) /\ Len(h) \in Nat
      BY <1>2, <2>1 DEF Holds
    <3> HIDE DEF start, part, n
    <3>. QED BY <1>1, <2>3, <2>5, <3>1
  <2>7. RlpPayload(bytes, at) =
          IF byte < 128 THEN RlpSpan(at, at + 1)
          ELSE IF short <= 55 THEN RlpPayload(bytes, at)
          ELSE IF start <= Len(bytes) /\ second # 0 /\ end - start > 55
          THEN RlpSpan(start, end) ELSE NoSpan
    BY <2>2 DEF RlpPayload
  <2> HIDE DEF start, short, end, second
  <2>. QED BY <1>1, <2>2, <2>3, <2>6, <2>7
<1>6. Len(h) + Len(s) >= 1
  BY <1>1, <1>2
<1>. QED BY <1>1, <1>2, <1>4, <1>5, <1>6 DEF Heads, Leads, all

\* A byte string of up to 4 GiB; a list may be longer.
IsData(s) == s \in Seq(Nat) /\ Len(s) < 4294967296

LEMMA WrittenHead ==
  ASSUME NEW base \in {128, 192}, NEW s \in Seq(Nat),
         base = 128 => IsData(s) /\ (Len(s) = 1 => s[1] >= 128),
         NEW h, h = writeLength(Len(s), base)
  PROVE  Heads(h, s) /\ \E byte \in Nat : Leads(h, s, byte) /\ (byte >= 192 <=> base = 192)
<1>1. Len(s) \in Nat /\ (base = 128 \/ base = 192)
  OBVIOUS
<1>2. CASE Len(s) < 56
  <2> DEFINE byte == Len(s) + base
  <2>1. h = Single(byte) /\ Len(s) <= 55 /\ byte \in Nat /\ (byte >= 192 <=> base = 192)
    BY <1>1, <1>2 DEF writeLength, Single
  <2>2. Heads(h, s) /\ Leads(h, s, byte)
    <3>1. base = 128 /\ Len(s) = 1 => s[1] >= 128
      OBVIOUS
    <3>. QED BY <2>1, <3>1, LengthHead
  <2> HIDE DEF byte
  <2>. QED BY <2>1, <2>2
<1>3. CASE ~ (Len(s) < 56)
  <2> DEFINE word == BigEndian(Len(s))
             byte == Len(word) + base + 55
  <2>1. IsWordOf(word, Len(s))
    BY <1>1, WordOfNumber
  <2>2. h = Prefixed(byte, word)
    BY <1>3 DEF writeLength, Prefixed
  <2> HIDE DEF word
  <2>3. Len(word) \in Nat /\ (base = 128 => Len(word) <= 4)
    BY <2>1 DEF IsWordOf, Canonical, IsData
  <2>4. (base = 128 => Len(word) <= 8) /\ Len(s) > 55 /\ byte \in Nat /\ (byte >= 192 <=> base = 192)
    BY <1>1, <1>3, <2>3
  <2>5. Heads(h, s) /\ Leads(h, s, byte)
    BY <2>1, <2>2, <2>4, LongHead
  <2> HIDE DEF byte
  <2>. QED BY <2>4, <2>5
<1>. QED BY <1>2, <1>3

\* So what writeBytes and writeList write is read as a string and as a list.
LEMMA BytesWritten ==
  ASSUME NEW s, IsData(s)
  PROVE  RlpReads(writeBytes(s), Single(AsField(s)))
<1>1. s \in Seq(Nat) /\ Len(s) \in Nat
  BY DEF IsData
<1>2. CASE Len(s) = 1 /\ s[1] < 128
  <2> DEFINE byte == s[1]
  <2>1. byte \in Nat /\ s = Chained(<< >>, s) /\ << >> \in Seq(Nat) /\ Len(<< >>) = 0
    BY <1>1, <1>2 DEF Chained
  <2>2. Leads(<< >>, s, byte)
    BY <2>1 DEF Leads
  <2>3. ASSUME NEW bytes \in Seq(Nat), NEW at \in Nat, Holds(bytes, at, s)
        PROVE  RlpPayload(bytes, at) = RlpSpan(at + 0, at + 0 + Len(s))
    <3>1. bytes[at + 1] = byte
      <4>1. 1 \in 1..Len(s)
        BY <1>2
      <4>. QED BY <2>3, <4>1 DEF Holds
    <3>2. at + 0 = at /\ at + 0 + Len(s) = at + 1
      BY <1>2
    <3>3. bytes[at + 1] < 128
      BY <1>2, <3>1
    <3>4. RlpPayload(bytes, at) = RlpSpan(at, at + 1)
      BY <3>3 DEF RlpPayload
    <3>. QED BY <3>2, <3>4
  <2>4. Heads(<< >>, s)
    BY <1>1, <1>2, <2>1, <2>3 DEF Heads
  <2>5. RlpReads(s, Single(AsField(s)))
    <3>1. ~ (byte >= 192)
      BY <1>2, <2>1
    <3> HIDE DEF byte
    <3>. QED BY <2>1, <2>2, <2>4, <3>1, RlpString
  <2>. QED BY <1>2, <2>5 DEF writeBytes
<1>3. CASE ~ (Len(s) = 1 /\ s[1] < 128)
  <2> DEFINE h == writeLength(Len(s), 128)
             all == Chained(h, s)
  <2>1. Len(s) = 1 => s[1] >= 128
    <3>1. Len(s) = 1 => s[1] \in Nat
      BY <1>1
    <3>. QED BY <1>3, <3>1
  <2>2. Heads(h, s) /\ \E byte \in Nat : Leads(h, s, byte) /\ (byte >= 192 <=> 128 = 192)
    <3> DEFINE base == 128
    <3>1. base \in {128, 192} /\ h = writeLength(Len(s), base)
      OBVIOUS
    <3> HIDE DEF base, h
    <3>2. Heads(h, s) /\ \E byte \in Nat : Leads(h, s, byte) /\ (byte >= 192 <=> base = 192)
      BY <1>1, <2>1, <3>1, WrittenHead
    <3>. QED BY <3>2 DEF base
  <2> HIDE DEF h
  <2>3. PICK byte \in Nat : Leads(h, s, byte) /\ ~ (byte >= 192)
    BY <2>2
  <2>4. RlpReads(all, Single(AsField(s)))
    BY <2>2, <2>3, RlpString
  <2>. QED BY <1>3, <2>4 DEF writeBytes, Chained, h
<1>. QED BY <1>2, <1>3

LEMMA ListWritten ==
  ASSUME NEW items, NEW list, RlpReads(flatten(items), list)
  PROVE  RlpReads(writeList(items), Single(AsList(list)))
<1> DEFINE s == flatten(items)
           base == 192
           h == writeLength(Len(s), base)
           all == Chained(h, s)
<1>1. s \in Seq(Nat) /\ base \in {128, 192} /\ base # 128
  BY DEF RlpReads
<1>2. writeList(items) = all
  BY DEF writeList, Chained
<1>3. h = writeLength(Len(s), base)
  OBVIOUS
<1> HIDE DEF s, base, h
<1>4. Heads(h, s) /\ \E byte \in Nat : Leads(h, s, byte) /\ (byte >= 192 <=> base = 192)
  BY <1>1, <1>3, WrittenHead
<1>5. PICK byte \in Nat : Leads(h, s, byte) /\ byte >= 192
  BY <1>4 DEF base
<1>6. RlpReads(s, list)
  BY DEF s
<1>7. RlpReads(all, Single(AsList(list)))
  BY <1>4, <1>5, <1>6, RlpListItem
<1>. QED BY <1>2, <1>7

\* What is flattened is read one part after the other.
IsFlat(f, parts, m) == \A i \in 1..m : f[i] = IF i = 1 THEN parts[1] ELSE f[i - 1] \o parts[i]

LEMMA Flattened ==
  ASSUME NEW parts, NEW n \in Nat, Len(parts) = n, n > 0
  PROVE  \E f : flatten(parts) = f[n] /\ IsFlat(f, parts, n)
<1> DEFINE Is(f) == f = [i \in 1..n |-> IF i = 1 THEN parts[i] ELSE f[i - 1] \o parts[i]]
           flat == CHOOSE f : Is(f)
           Known(m) == \E f : IsFlat(f, parts, m)
           unknown == {m \in Nat : ~ Known(m)}
<1>1. flatten(parts) = flat[n]
  BY DEF flatten, FlattenSeq
<1>2. Known(0)
  <2>1. IsFlat(<< >>, parts, 0)
    BY DEF IsFlat
  <2>. QED BY <2>1
<1>3. ASSUME NEW m \in Nat, Known(m) PROVE Known(m + 1)
  <2>1. PICK f : IsFlat(f, parts, m)
    BY <1>3
  <2> DEFINE next == IF m + 1 = 1 THEN parts[1] ELSE f[m] \o parts[m + 1]
             g == [i \in 1..(m + 1) |-> IF i = m + 1 THEN next ELSE f[i]]
  <2>2. g[m + 1] = next /\ \A i \in 1..m : g[i] = f[i]
    <3> HIDE DEF next
    <3>. QED OBVIOUS
  <2> HIDE DEF g
  <2>3. ASSUME NEW i \in 1..(m + 1) PROVE g[i] = IF i = 1 THEN parts[1] ELSE g[i - 1] \o parts[i]
    <3>1. CASE i = m + 1
      <4>1. i - 1 = m /\ (i # 1 => m \in 1..m)
        BY <3>1
      <4>. QED BY <2>2, <3>1, <4>1
    <3>2. CASE i # m + 1
      <4>1. i \in 1..m /\ (i # 1 => i - 1 \in 1..m)
        BY <3>2
      <4>2. f[i] = IF i = 1 THEN parts[1] ELSE f[i - 1] \o parts[i]
        BY <2>1, <4>1 DEF IsFlat
      <4>. QED BY <2>2, <4>1, <4>2
    <3>. QED BY <3>1, <3>2
  <2>4. IsFlat(g, parts, m + 1)
    BY <2>3 DEF IsFlat
  <2>. QED BY <2>4
<1>4. unknown = {}
  <2> HIDE DEF Known
  <2>1. SUFFICES ASSUME unknown # {} PROVE FALSE
    OBVIOUS
  <2>2. PICK least \in unknown : \A m \in unknown : least <= m
    BY <2>1, Smallest
  <2>3. least \in Nat /\ ~ Known(least)
    BY <2>2
  <2>4. least # 0 /\ least - 1 \in Nat /\ ~ (least <= least - 1) /\ (least - 1) + 1 = least
    BY <1>2, <2>3
  <2>5. Known(least - 1)
    BY <2>2, <2>4
  <2>. QED BY <1>3, <2>3, <2>4, <2>5
<1>5. PICK f : IsFlat(f, parts, n)
  <2>1. Known(n)
    <3> HIDE DEF Known
    <3>. QED BY <1>4
  <2>. QED BY <2>1
<1>6. \E g : Is(g)
  <2> DEFINE Whole(g) == g = [i \in 1..n |-> g[i]] /\ \A i \in 1..n : g[i] = f[i]
             whole == [i \in 1..n |-> f[i]]
  <2>1. Whole(whole)
    OBVIOUS
  <2>2. PICK g : Whole(g)
    <3> HIDE DEF Whole, whole
    <3>. QED BY <2>1
  <2>3. ASSUME NEW i \in 1..n PROVE g[i] = IF i = 1 THEN parts[i] ELSE g[i - 1] \o parts[i]
    <3>1. i # 1 => i - 1 \in 1..n
      OBVIOUS
    <3>2. f[i] = IF i = 1 THEN parts[1] ELSE f[i - 1] \o parts[i]
      BY <1>5 DEF IsFlat
    <3>. QED BY <2>2, <3>1, <3>2
  <2>4. Is(g)
    BY <2>2, <2>3
  <2>. QED BY <2>4
<1>7. Is(flat)
  <2> HIDE DEF Is
  <2>. QED BY <1>6
<1> HIDE DEF flat
<1>8. IsFlat(flat, parts, n)
  BY <1>7 DEF IsFlat
<1>. QED BY <1>1, <1>8

\* Parts that are an item each.
ReadsEach(parts, list) ==
  /\ Listed(parts) /\ Listed(list) /\ Len(parts) = Len(list)
  /\ \A i \in 1..Len(list) : RlpReads(parts[i], Single(list[i]))

LEMMA ListPrefix ==
  ASSUME NEW list, Listed(list), NEW i \in 1..Len(list)
  PROVE  /\ Len(list) \in Nat /\ SubSeq(list, 1, i) = Chained(SubSeq(list, 1, i - 1), Single(list[i]))
         /\ SubSeq(list, 1, 1) = Single(list[1]) /\ SubSeq(list, 1, Len(list)) = list
         /\ Listed(SubSeq(list, 1, i))
<1>1. PICK S : list \in Seq(S)
  BY DEF Listed
<1>2. Len(list) \in Nat
  BY <1>1
<1>3. SubSeq(list, 1, i) = SubSeq(list, 1, i - 1) \o <<list[i]>>
  <2>1. 1 \in 1..Len(list) /\ i \in 1..Len(list)
    BY <1>2
  <2>. QED BY <1>1, <2>1, SubSeqRecursiveSecond
<1>4. SubSeq(list, 1, 1) = <<list[1]>>
  <2>1. 1 \in 1..Len(list) /\ 1 \in 1..1 /\ list[1] \in S
    BY <1>1, <1>2
  <2>2. SubSeq(list, 1, 1) = SubSeq(list, 1, 1 - 1) \o <<list[1]>>
    BY <1>1, <2>1, SubSeqRecursiveSecond
  <2>3. SubSeq(list, 1, 0) = << >> /\ 1 - 1 = 0
    BY <1>1
  <2>4. << >> \o <<list[1]>> = <<list[1]>>
    BY <2>1
  <2>. QED BY <2>2, <2>3, <2>4
<1>5. SubSeq(list, 1, Len(list)) = list
  BY <1>1
<1>6. SubSeq(list, 1, i) \in Seq(S)
  BY <1>1
<1>. QED BY <1>2, <1>3, <1>4, <1>5, <1>6 DEF Chained, Single, Listed

LEMMA FlatReads ==
  ASSUME NEW parts, NEW list, ReadsEach(parts, list)
  PROVE  RlpReads(flatten(parts), list)
<1> DEFINE n == Len(list)
<1>1. /\ Listed(parts) /\ Listed(list) /\ Len(parts) = n /\ n \in Nat
      /\ \A i \in 1..n : RlpReads(parts[i], Single(list[i]))
  BY DEF ReadsEach, Listed
<1>2. CASE n = 0
  <2>1. parts = << >> /\ list = << >>
    BY <1>1, <1>2 DEF Listed
  <2>2. flatten(parts) = << >>
    BY <1>1, <1>2, <2>1 DEF flatten, FlattenSeq
  <2>. QED BY <2>1, <2>2, RlpNothing
<1>3. CASE n # 0
  <2>1. PICK f : flatten(parts) = f[n] /\ IsFlat(f, parts, n)
    BY <1>1, <1>3, Flattened
  <2> DEFINE Right(i) == RlpReads(f[i], SubSeq(list, 1, i))
             wrong == {i \in 1..n : ~ Right(i)}
  <2>2. Right(1)
    <3>1. 1 \in 1..n
      BY <1>1, <1>3
    <3>2. f[1] = parts[1]
      BY <2>1, <3>1 DEF IsFlat
    <3>3. SubSeq(list, 1, 1) = Single(list[1])
      BY <1>1, <3>1, ListPrefix
    <3>. QED BY <1>1, <3>1, <3>2, <3>3
  <2>3. ASSUME NEW i \in 1..n, i # 1, Right(i - 1) PROVE Right(i)
    <3>1. f[i] = Chained(f[i - 1], parts[i])
      BY <2>1, <2>3 DEF IsFlat, Chained
    <3>2. SubSeq(list, 1, i) = Chained(SubSeq(list, 1, i - 1), Single(list[i]))
      BY <1>1, ListPrefix
    <3>3. RlpReads(parts[i], Single(list[i]))
      BY <1>1
    <3>4. RlpReads(f[i - 1], SubSeq(list, 1, i - 1))
      BY <2>3
    <3>. QED BY <3>1, <3>2, <3>3, <3>4, RlpMore
  <2>4. wrong = {}
    <3> HIDE DEF Right
    <3>1. SUFFICES ASSUME wrong # {} PROVE FALSE
      OBVIOUS
    <3>2. PICK least \in wrong : \A i \in wrong : least <= i
      <4>1. wrong \in SUBSET Nat
        OBVIOUS
      <4> HIDE DEF wrong
      <4>. QED BY <3>1, <4>1, Smallest
    <3>3. least \in 1..n /\ ~ Right(least)
      BY <3>2
    <3>4. least # 1 /\ least - 1 \in 1..n /\ ~ (least <= least - 1)
      BY <1>1, <2>2, <3>3
    <3>5. Right(least - 1)
      BY <3>2, <3>4
    <3>. QED BY <2>3, <3>3, <3>4, <3>5
  <2>5. Right(n)
    <3>1. n \in 1..n
      BY <1>1, <1>3
    <3> HIDE DEF Right
    <3>. QED BY <2>4, <3>1
  <2>6. SubSeq(list, 1, n) = list
    <3>1. 1 \in 1..n
      BY <1>1, <1>3
    <3>. QED BY <1>1, <3>1, ListPrefix
  <2>. QED BY <2>1, <2>5, <2>6
<1>. QED BY <1>2, <1>3

LEMMA EachWritten ==
  ASSUME NEW parts, NEW list, ReadsEach(parts, list)
  PROVE  RlpReads(writeList(parts), Single(AsList(list)))
BY FlatReads, ListWritten

LEMMA EachSingle ==
  ASSUME NEW part, NEW item, RlpReads(part, Single(item))
  PROVE  ReadsEach(Single(part), Single(item))
<1>1. \A i \in 1..1 : i = 1
  OBVIOUS
<1>. QED BY <1>1, SingleListed DEF ReadsEach

LEMMA EachMore ==
  ASSUME NEW p, NEW is, ReadsEach(p, is), NEW q, NEW js, ReadsEach(q, js),
         NEW all, all = Chained(p, q), NEW list, list = Chained(is, js)
  PROVE  ReadsEach(all, list)
<1> DEFINE m == Len(is)
           n == Len(js)
<1>1. /\ Listed(p) /\ Listed(is) /\ Len(p) = m /\ Listed(q) /\ Listed(js) /\ Len(q) = n
      /\ \A i \in 1..m : RlpReads(p[i], Single(is[i]))
      /\ \A i \in 1..n : RlpReads(q[i], Single(js[i]))
  BY DEF ReadsEach
<1>2. m \in Nat /\ n \in Nat
  BY <1>1, ListsJoin
<1>3. Listed(all) /\ Listed(list) /\ Len(all) = m + n /\ Len(list) = m + n
  <2>1. Listed(p \o q) /\ Len(p \o q) = Len(p) + Len(q)
    BY <1>1, ListsJoin
  <2>2. Listed(is \o js) /\ Len(is \o js) = Len(is) + Len(js)
    BY <1>1, ListsJoin
  <2>. QED BY <1>1, <2>1, <2>2 DEF Chained
<1>4. ASSUME NEW s, NEW t, Listed(s), Listed(t)
      PROVE  /\ \A i \in 1..Len(s) : (s \o t)[i] = s[i]
             /\ \A i \in 1..Len(t) : (s \o t)[Len(s) + i] = t[i]
  BY <1>4 DEF Listed
<1>5. ASSUME NEW i \in 1..(m + n) PROVE RlpReads(all[i], Single(list[i]))
  <2>1. CASE i \in 1..m
    <3>1. all[i] = p[i] /\ list[i] = is[i]
      BY <1>1, <1>4, <2>1 DEF Chained
    <3>. QED BY <1>1, <2>1, <3>1
  <2>2. CASE i \notin 1..m
    <3> DEFINE j == i - m
    <3>1. j \in 1..n /\ i = m + j
      BY <1>2, <2>2
    <3> HIDE DEF j
    <3>2. all[m + j] = q[j] /\ list[m + j] = js[j]
      BY <1>1, <1>4, <3>1 DEF Chained
    <3>. QED BY <1>1, <3>1, <3>2
  <2>. QED BY <2>1, <2>2
<1>. QED BY <1>3, <1>5 DEF ReadsEach

LEMMA EachAll ==
  ASSUME NEW n \in Nat, NEW parts, NEW list, DOMAIN parts = 1..n, DOMAIN list = 1..n,
         parts = [i \in 1..n |-> parts[i]], list = [i \in 1..n |-> list[i]],
         \A i \in 1..n : RlpReads(parts[i], Single(list[i]))
  PROVE  ReadsEach(parts, list)
<1>1. ASSUME NEW f, f = [i \in 1..n |-> f[i]]
      PROVE  Listed(f) /\ Len(f) = n
  <2> DEFINE S == {f[i] : i \in 1..n}
  <2>1. \A i \in 1..n : f[i] \in S
    OBVIOUS
  <2> HIDE DEF S
  <2>2. f \in [1..n -> S]
    BY <1>1, <2>1
  <2>3. f \in Seq(S) /\ Len(f) = n
    BY <2>2
  <2>. QED BY <2>3 DEF Listed
<1>2. Listed(parts) /\ Listed(list) /\ Len(parts) = n /\ Len(list) = n
  BY <1>1
<1>. QED BY <1>2 DEF ReadsEach

LEMMA EachTwo ==
  ASSUME NEW a, NEW b, NEW x, NEW y, RlpReads(a, Single(x)), RlpReads(b, Single(y))
  PROVE  ReadsEach(<<a, b>>, <<x, y>>)
<1>1. ReadsEach(Single(a), Single(x)) /\ ReadsEach(Single(b), Single(y))
  BY EachSingle
<1>2. <<a, b>> = Chained(Single(a), Single(b)) /\ <<x, y>> = Chained(Single(x), Single(y))
  BY Pairs
<1> DEFINE two == <<a, b>>
           both == <<x, y>>
<1> HIDE DEF two, both
<1>3. ReadsEach(two, both)
  BY <1>1, <1>2, EachMore DEF two, both
<1>. QED BY <1>3 DEF two, both

\* A tuple, as what it is made of.
LEMMA Threes ==
  ASSUME NEW a, NEW b, NEW c
  PROVE  <<a, b, c>> = Chained(Single(a), <<b, c>>)
<1> DEFINE S == {a, b, c}
           three == <<a, b, c>>
           one == <<a>>
           other == <<b, c>>
           both == one \o other
<1>1. three \in Seq(S) /\ Len(three) = 3 /\ three[1] = a /\ three[2] = b /\ three[3] = c
  OBVIOUS
<1>2. one \in Seq(S) /\ Len(one) = 1 /\ one[1] = a
  OBVIOUS
<1>3. other \in Seq(S) /\ Len(other) = 2 /\ other[1] = b /\ other[2] = c
  OBVIOUS
<1> HIDE DEF S, three, one, other
<1>4. both \in Seq(S) /\ Len(both) = 3 /\ both[1] = a /\ both[2] = b /\ both[3] = c
  <2>1. both \in Seq(S) /\ Len(both) = 3
        /\ \A i \in 1..3 : both[i] = IF i <= 1 THEN one[i] ELSE other[i - 1]
    <3>1. both \in Seq(S) /\ Len(both) = Len(one) + Len(other)
          /\ \A i \in 1..Len(one) + Len(other) :
               both[i] = IF i <= Len(one) THEN one[i] ELSE other[i - Len(one)]
      BY <1>2, <1>3, ConcatProperties
    <3> HIDE DEF both
    <3>. QED BY <1>2, <1>3, <3>1
  <2> HIDE DEF both
  <2>. QED BY <1>2, <1>3, <2>1
<1> HIDE DEF both
<1>5. three = both
  <2>1. \A i \in 1..Len(three) : three[i] = both[i]
    BY <1>1, <1>4
  <2>. QED BY <1>1, <1>4, <2>1, SeqEqual
<1>. QED BY <1>5 DEF Chained, Single, three, both, one, other

LEMMA EachThree ==
  ASSUME NEW a, NEW b, NEW c, NEW x, NEW y, NEW z,
         RlpReads(a, Single(x)), RlpReads(b, Single(y)), RlpReads(c, Single(z))
  PROVE  ReadsEach(<<a, b, c>>, <<x, y, z>>)
<1> DEFINE two == <<b, c>>
           both == <<y, z>>
           three == <<a, b, c>>
           all == <<x, y, z>>
<1>1. ReadsEach(Single(a), Single(x)) /\ ReadsEach(two, both)
  BY EachSingle, EachTwo
<1>2. three = Chained(Single(a), two) /\ all = Chained(Single(x), both)
  BY Threes
<1> HIDE DEF two, both, three, all
<1>3. ReadsEach(three, all)
  BY <1>1, <1>2, EachMore
<1>. QED BY <1>3 DEF three, all

LEMMA Sixes ==
  ASSUME NEW a, NEW b, NEW c, NEW d, NEW e, NEW f
  PROVE  <<a, b, c, d, e, f>> = Chained(<<a, b, c>>, <<d, e, f>>)
<1> DEFINE S == {a, b, c, d, e, f}
           six == <<a, b, c, d, e, f>>
           one == <<a, b, c>>
           other == <<d, e, f>>
           both == one \o other
<1>1. /\ six \in Seq(S) /\ Len(six) = 6 /\ six[1] = a /\ six[2] = b /\ six[3] = c
      /\ six[4] = d /\ six[5] = e /\ six[6] = f
  OBVIOUS
<1>2. one \in Seq(S) /\ Len(one) = 3 /\ one[1] = a /\ one[2] = b /\ one[3] = c
  OBVIOUS
<1>3. other \in Seq(S) /\ Len(other) = 3 /\ other[1] = d /\ other[2] = e /\ other[3] = f
  OBVIOUS
<1> HIDE DEF S, six, one, other
<1>4. /\ both \in Seq(S) /\ Len(both) = 6 /\ both[1] = a /\ both[2] = b /\ both[3] = c
      /\ both[4] = d /\ both[5] = e /\ both[6] = f
  <2>1. both \in Seq(S) /\ Len(both) = 6
        /\ \A i \in 1..6 : both[i] = IF i <= 3 THEN one[i] ELSE other[i - 3]
    <3>1. both \in Seq(S) /\ Len(both) = Len(one) + Len(other)
          /\ \A i \in 1..Len(one) + Len(other) :
               both[i] = IF i <= Len(one) THEN one[i] ELSE other[i - Len(one)]
      BY <1>2, <1>3, ConcatProperties
    <3> HIDE DEF both
    <3>. QED BY <1>2, <1>3, <3>1
  <2> HIDE DEF both
  <2>. QED BY <1>2, <1>3, <2>1
<1> HIDE DEF both
<1>5. six = both
  <2>1. \A i \in 1..6 : six[i] = both[i]
    <3>1. \A i \in 1..6 : i = 1 \/ i = 2 \/ i = 3 \/ i = 4 \/ i = 5 \/ i = 6
      OBVIOUS
    <3>. QED BY <1>1, <1>4, <3>1
  <2>. QED BY <1>1, <1>4, <2>1, SeqEqual
<1>. QED BY <1>5 DEF Chained, six, both, one, other

LEMMA EachSix ==
  ASSUME NEW a, NEW b, NEW c, NEW d, NEW e, NEW f, NEW u, NEW v, NEW w, NEW x, NEW y, NEW z,
         RlpReads(a, Single(u)), RlpReads(b, Single(v)), RlpReads(c, Single(w)),
         RlpReads(d, Single(x)), RlpReads(e, Single(y)), RlpReads(f, Single(z))
  PROVE  ReadsEach(<<a, b, c, d, e, f>>, <<u, v, w, x, y, z>>)
<1> DEFINE one == <<a, b, c>>
           other == <<d, e, f>>
           six == <<a, b, c, d, e, f>>
           first == <<u, v, w>>
           second == <<x, y, z>>
           all == <<u, v, w, x, y, z>>
<1>1. ReadsEach(one, first) /\ ReadsEach(other, second)
  BY EachThree
<1>2. six = Chained(one, other) /\ all = Chained(first, second)
  BY Sixes
<1> HIDE DEF one, other, six, first, second, all
<1>3. ReadsEach(six, all)
  BY <1>1, <1>2, EachMore
<1>. QED BY <1>3 DEF six, all

LEMMA EachNone == ReadsEach(<< >>, << >>)
<1>1. Listed(<< >>) /\ Len(<< >>) = 0
  BY DEF Listed
<1>. QED BY <1>1 DEF ReadsEach

\* Access lists, of any number of addresses and keys.
IsAccess(access) ==
  /\ access.addr \in Seq(Nat) /\ Len(access.addr) = 20
  /\ Listed(access.storageKeys)
  /\ \A j \in 1..Len(access.storageKeys) :
       access.storageKeys[j] \in Seq(Nat) /\ Len(access.storageKeys[j]) = 32
IsAccessList(accesses) ==
  Listed(accesses) /\ \A i \in 1..Len(accesses) : IsAccess(accesses[i])

LEMMA ListedDomain ==
  ASSUME NEW list, Listed(list)
  PROVE  Len(list) \in Nat /\ DOMAIN list = 1..Len(list)
BY DEF Listed

LEMMA AccessRead ==
  ASSUME NEW access, IsAccess(access)
  PROVE  LET keys == access.storageKeys
         IN  RlpReads(writeList(<<writeAddress(access.addr),
                                  writeList([j \in DOMAIN keys |-> writeBytes(keys[j])])>>),
                      Single(AsAccess(access)))
<1> DEFINE keys == access.storageKeys
           n == Len(keys)
           parts == [j \in DOMAIN keys |-> writeBytes(keys[j])]
           list == [j \in DOMAIN keys |-> AsField(keys[j])]
           addr == access.addr
<1>1. addr \in Seq(Nat) /\ Len(addr) = 20 /\ Listed(keys)
      /\ \A j \in 1..n : keys[j] \in Seq(Nat) /\ Len(keys[j]) = 32
  BY DEF IsAccess
<1>2. n \in Nat /\ DOMAIN keys = 1..n
  BY <1>1, ListedDomain
<1>3. RlpReads(writeList(parts), Single(AsKeys(keys)))
  <2>1. \A j \in 1..n : RlpReads(writeBytes(keys[j]), Single(AsField(keys[j])))
    <3> SUFFICES ASSUME NEW j \in 1..n PROVE RlpReads(writeBytes(keys[j]), Single(AsField(keys[j])))
      OBVIOUS
    <3>1. IsData(keys[j])
      <4>1. keys[j] \in Seq(Nat) /\ Len(keys[j]) = 32
        BY <1>1
      <4>. QED BY <4>1 DEF IsData
    <3>. QED BY <3>1, BytesWritten
  <2>2. /\ DOMAIN parts = 1..n /\ DOMAIN list = 1..n
        /\ parts = [j \in 1..n |-> parts[j]] /\ list = [j \in 1..n |-> list[j]]
        /\ \A j \in 1..n : parts[j] = writeBytes(keys[j]) /\ list[j] = AsField(keys[j])
    BY <1>2
  <2>3. AsKeys(keys) = AsList(list)
    BY DEF AsKeys
  <2> HIDE DEF parts, list, keys, n
  <2>4. ReadsEach(parts, list)
    BY <1>2, <2>1, <2>2, EachAll
  <2>. QED BY <2>3, <2>4, EachWritten
<1>4. RlpReads(writeAddress(addr), Single(AsField(addr)))
  <2>1. IsData(addr)
    BY <1>1 DEF IsData
  <2> HIDE DEF addr
  <2>. QED BY <2>1, BytesWritten DEF writeAddress
<1> DEFINE one == writeAddress(addr)
           other == writeList(parts)
           two == <<one, other>>
           both == <<AsField(addr), AsKeys(keys)>>
<1>5. AsAccess(access) = AsList(both)
  BY DEF AsAccess
<1> HIDE DEF one, other
<1>6. ReadsEach(two, both)
  BY <1>3, <1>4, EachTwo DEF one, other
<1> HIDE DEF two, both
<1>7. RlpReads(writeList(two), Single(AsList(both)))
  BY <1>6, EachWritten
<1>. QED BY <1>5, <1>7 DEF two, one, other

LEMMA AccessesRead ==
  ASSUME NEW accesses, IsAccessList(accesses)
  PROVE  RlpReads(encodeAccessList(accesses), Single(AsAccessList(accesses)))
<1> DEFINE n == Len(accesses)
           Part(access) == writeList(<<writeAddress(access.addr),
                                       writeList([j \in DOMAIN access.storageKeys |->
                                                    writeBytes(access.storageKeys[j])])>>)
           parts == [i \in DOMAIN accesses |-> Part(accesses[i])]
           list == [i \in DOMAIN accesses |-> AsAccess(accesses[i])]
<1>1. n \in Nat /\ DOMAIN accesses = 1..n /\ \A i \in 1..n : IsAccess(accesses[i])
  BY ListedDomain DEF IsAccessList
<1>2. encodeAccessList(accesses) = writeList(parts)
  BY DEF encodeAccessList
<1>3. \A i \in 1..n : RlpReads(Part(accesses[i]), Single(AsAccess(accesses[i])))
  BY <1>1, AccessRead
<1> HIDE DEF Part
<1>4. /\ DOMAIN parts = 1..n /\ DOMAIN list = 1..n
      /\ parts = [i \in 1..n |-> parts[i]] /\ list = [i \in 1..n |-> list[i]]
      /\ \A i \in 1..n : parts[i] = Part(accesses[i]) /\ list[i] = AsAccess(accesses[i])
  BY <1>1
<1>5. AsAccessList(accesses) = AsList(list)
  BY DEF AsAccessList
<1> HIDE DEF parts, list, n
<1>6. ReadsEach(parts, list)
  BY <1>1, <1>3, <1>4, EachAll
<1>. QED BY <1>2, <1>5, <1>6, EachWritten

\* A transaction, as the signers take it; the chain's identifier is of at most 30
\* bits, and so is v, which EIP-155 makes of it, of no more than four bytes.
IsNumber(word) == Canonical(word) /\ Len(word) <= 32
IsChain(word) == Value(word) < 1073741824
IsTransaction(tx) ==
  /\ tx.type \in 0..2
  /\ IsNumber(tx.chainId) /\ IsChain(tx.chainId)
  /\ IsNumber(tx.nonce) /\ IsNumber(tx.gasPrice) /\ IsNumber(tx.tip) /\ IsNumber(tx.gasLimit)
  /\ tx.to \in Seq(Nat) /\ Len(tx.to) = 20
  /\ IsNumber(tx.value) /\ IsData(tx.data) /\ IsAccessList(tx.accessList)
IsSignature(sig) == sig.parity \in 0..1 /\ IsNumber(sig.r) /\ IsNumber(sig.s)

LEMMA NumberIsData ==
  ASSUME NEW word, IsNumber(word)
  PROVE  IsData(word)
<1>1. word \in Seq(Nat) /\ Len(word) \in Nat /\ Len(word) <= 32
  BY DEF IsNumber, Canonical
<1>. QED BY <1>1 DEF IsData

LEMMA NumberWritten ==
  ASSUME NEW word, IsNumber(word)
  PROVE  RlpReads(writeUint(word), Single(AsField(word)))
BY NumberIsData, BytesWritten DEF writeUint

LEMMA LegacyRead ==
  ASSUME NEW tx, IsTransaction(tx), tx.type = 0
  PROVE  ReadsEach(LegacyFields(tx), FieldsOf(tx))
<1>1. /\ RlpReads(writeUint(tx.nonce), Single(AsField(tx.nonce)))
      /\ RlpReads(writeUint(tx.gasPrice), Single(AsField(tx.gasPrice)))
      /\ RlpReads(writeUint(tx.gasLimit), Single(AsField(tx.gasLimit)))
      /\ RlpReads(writeUint(tx.value), Single(AsField(tx.value)))
  BY NumberWritten DEF IsTransaction
<1>2. RlpReads(writeAddress(tx.to), Single(AsField(tx.to)))
  <2>1. IsData(tx.to)
    BY DEF IsTransaction, IsData
  <2>. QED BY <2>1, BytesWritten DEF writeAddress
<1>3. RlpReads(writeBytes(tx.data), Single(AsField(tx.data)))
  BY BytesWritten DEF IsTransaction
<1> DEFINE a == writeUint(tx.nonce)
           b == writeUint(tx.gasPrice)
           c == writeUint(tx.gasLimit)
           d == writeAddress(tx.to)
           e == writeUint(tx.value)
           f == writeBytes(tx.data)
           u == AsField(tx.nonce)
           v == AsField(tx.gasPrice)
           w == AsField(tx.gasLimit)
           x == AsField(tx.to)
           y == AsField(tx.value)
           z == AsField(tx.data)
<1>4. LegacyFields(tx) = <<a, b, c, d, e, f>> /\ FieldsOf(tx) = <<u, v, w, x, y, z>>
  BY DEF LegacyFields, FieldsOf
<1>5. /\ RlpReads(a, Single(u)) /\ RlpReads(b, Single(v)) /\ RlpReads(c, Single(w))
      /\ RlpReads(d, Single(x)) /\ RlpReads(e, Single(y)) /\ RlpReads(f, Single(z))
  BY <1>1, <1>2, <1>3
<1> HIDE DEF a, b, c, d, e, f, u, v, w, x, y, z
<1>6. ReadsEach(<<a, b, c, d, e, f>>, <<u, v, w, x, y, z>>)
  BY <1>5, EachSix
<1>. QED BY <1>4, <1>6, Zenon

LEMMA TypedRead ==
  ASSUME NEW tx, IsTransaction(tx), tx.type # 0
  PROVE  ReadsEach(TypedFields(tx), FieldsOf(tx))
<1>1. /\ RlpReads(writeUint(tx.chainId), Single(AsField(tx.chainId)))
      /\ RlpReads(writeUint(tx.nonce), Single(AsField(tx.nonce)))
      /\ RlpReads(writeUint(tx.tip), Single(AsField(tx.tip)))
      /\ RlpReads(writeUint(tx.gasPrice), Single(AsField(tx.gasPrice)))
      /\ RlpReads(writeUint(tx.gasLimit), Single(AsField(tx.gasLimit)))
      /\ RlpReads(writeUint(tx.value), Single(AsField(tx.value)))
  BY NumberWritten DEF IsTransaction
<1>2. RlpReads(writeAddress(tx.to), Single(AsField(tx.to)))
  <2>1. IsData(tx.to)
    BY DEF IsTransaction, IsData
  <2>. QED BY <2>1, BytesWritten DEF writeAddress
<1>3. /\ RlpReads(writeBytes(tx.data), Single(AsField(tx.data)))
      /\ RlpReads(encodeAccessList(tx.accessList), Single(AsAccessList(tx.accessList)))
  BY BytesWritten, AccessesRead DEF IsTransaction
<1> DEFINE a == writeUint(tx.gasPrice)
           b == writeUint(tx.gasLimit)
           c == writeAddress(tx.to)
           d == writeUint(tx.value)
           e == writeBytes(tx.data)
           f == encodeAccessList(tx.accessList)
           g == writeUint(tx.chainId)
           h == writeUint(tx.nonce)
           u == AsField(tx.gasPrice)
           v == AsField(tx.gasLimit)
           w == AsField(tx.to)
           x == AsField(tx.value)
           y == AsField(tx.data)
           z == AsAccessList(tx.accessList)
           s == AsField(tx.chainId)
           t == AsField(tx.nonce)
           tip == IF tx.type = 2 THEN <<AsField(tx.tip)>> ELSE << >>
<1>4. ReadsEach(Tip(tx), tip)
  <2>1. CASE tx.type = 2
    <3>1. Tip(tx) = Single(writeUint(tx.tip)) /\ tip = Single(AsField(tx.tip))
      BY <2>1 DEF Tip, Single
    <3> HIDE DEF tip
    <3>. QED BY <1>1, <3>1, EachSingle
  <2>2. CASE tx.type # 2
    <3>1. Tip(tx) = << >> /\ tip = << >>
      BY <2>2 DEF Tip
    <3>. QED BY <3>1, EachNone
  <2>. QED BY <2>1, <2>2
<1>5. /\ TypedFields(tx) = Chained(Chained(<<g, h>>, Tip(tx)), <<a, b, c, d, e, f>>)
      /\ FieldsOf(tx) = Chained(Chained(<<s, t>>, tip), <<u, v, w, x, y, z>>)
  BY Zenon DEF TypedFields, FieldsOf, Chained
<1>6. /\ RlpReads(a, Single(u)) /\ RlpReads(b, Single(v)) /\ RlpReads(c, Single(w))
      /\ RlpReads(d, Single(x)) /\ RlpReads(e, Single(y)) /\ RlpReads(f, Single(z))
      /\ RlpReads(g, Single(s)) /\ RlpReads(h, Single(t))
  BY <1>1, <1>2, <1>3
<1> HIDE DEF a, b, c, d, e, f, g, h, s, t, u, v, w, x, y, z, tip
<1>7. ReadsEach(<<a, b, c, d, e, f>>, <<u, v, w, x, y, z>>)
  BY <1>6, EachSix
<1>8. ReadsEach(<<g, h>>, <<s, t>>)
  BY <1>6, EachTwo
<1> DEFINE six == <<a, b, c, d, e, f>>
           sixItems == <<u, v, w, x, y, z>>
           two == <<g, h>>
           twoItems == <<s, t>>
           start == Chained(two, Tip(tx))
           startItems == Chained(twoItems, tip)
<1> HIDE DEF six, sixItems, two, twoItems
<1>9. ReadsEach(start, startItems)
  BY <1>4, <1>8, EachMore DEF two, twoItems
<1> HIDE DEF start, startItems
<1>10. ReadsEach(Chained(start, six), Chained(startItems, sixItems))
  BY <1>7, <1>9, EachMore DEF six, sixItems
<1>. QED BY <1>5, <1>10, Zenon DEF six, sixItems, two, twoItems, start, startItems

LEMMA FieldsRead ==
  ASSUME NEW tx, IsTransaction(tx)
  PROVE  ReadsEach(IF tx.type = 0 THEN LegacyFields(tx) ELSE TypedFields(tx), FieldsOf(tx))
BY LegacyRead, TypedRead

\* The list with v, r and s at its end.
LEMMA SignedRead ==
  ASSUME NEW fields, NEW list, ReadsEach(fields, list), NEW v, NEW r, NEW s,
         IsData(v), IsData(r), IsData(s)
  PROVE  RlpReads(writeList(fields \o Rsv(v, r, s)),
                  Single(AsList(list \o <<AsField(v), AsField(r), AsField(s)>>)))
<1> DEFINE a == writeUint(v)
           b == writeUint(r)
           c == writeUint(s)
           x == AsField(v)
           y == AsField(r)
           z == AsField(s)
<1>1. RlpReads(a, Single(x)) /\ RlpReads(b, Single(y)) /\ RlpReads(c, Single(z))
  BY BytesWritten DEF writeUint
<1>2. Rsv(v, r, s) = <<a, b, c>>
  BY DEF Rsv
<1> HIDE DEF a, b, c, x, y, z
<1>3. ReadsEach(<<a, b, c>>, <<x, y, z>>)
  BY <1>1, EachThree
<1> DEFINE three == <<a, b, c>>
           items == <<x, y, z>>
<1> HIDE DEF three, items
<1>4. ReadsEach(Chained(fields, three), Chained(list, items))
  BY <1>3, EachMore DEF three, items
<1>5. RlpReads(writeList(Chained(fields, three)), Single(AsList(Chained(list, items))))
  BY <1>4, EachWritten
<1>. QED BY <1>2, <1>5, Zenon DEF Chained, three, items, x, y, z

\* What is read of a list of the fields and a signature.
HasFields(sent, fields, x, y, z) ==
  /\ Len(sent) = Len(fields) + 3 /\ SubSeq(sent, 1, Len(fields)) = fields
  /\ sent[Len(fields) + 1] = x
  /\ SubSeq(sent, Len(fields) + 2, Len(fields) + 3) = <<y, z>>

LEMMA SignatureLast ==
  ASSUME NEW list, Listed(list), NEW x, NEW y, NEW z,
         NEW all, all = list \o <<x, y, z>>
  PROVE  HasFields(all, list, x, y, z)
<1> DEFINE n == Len(list)
           three == <<x, y, z>>
           two == <<y, z>>
<1>1. PICK S0 : list \in Seq(S0)
  BY DEF Listed
<1> DEFINE S == S0 \cup {x, y, z}
<1>2. list \in Seq(S)
  BY <1>1
<1>3. three \in Seq(S) /\ Len(three) = 3 /\ three[1] = x /\ three[2] = y /\ three[3] = z
  <2>1. x \in S /\ y \in S /\ z \in S
    OBVIOUS
  <2> HIDE DEF S
  <2>. QED BY <2>1
<1>4. two \in Seq(S) /\ Len(two) = 2 /\ two[1] = y /\ two[2] = z
  <2>1. y \in S /\ z \in S
    OBVIOUS
  <2> HIDE DEF S
  <2>. QED BY <2>1
<1> HIDE DEF S, three, two
<1>5. /\ all \in Seq(S) /\ Len(all) = Len(list) + Len(three)
      /\ \A i \in 1..Len(list) + Len(three) :
           all[i] = IF i <= Len(list) THEN list[i] ELSE three[i - Len(list)]
  BY <1>2, <1>3, ConcatProperties DEF three
<1>6. n \in Nat /\ Len(all) = n + 3 /\ (\A i \in 1..n : all[i] = list[i])
      /\ all[n + 1] = x /\ all[n + 2] = y /\ all[n + 3] = z
  <2>1. n \in Nat
    BY <1>2
  <2>2. \A i \in 1..(n + 3) : all[i] = IF i <= n THEN list[i] ELSE three[i - n]
    BY <1>3, <1>5
  <2>3. /\ 1 + n \in 1..(n + 3) /\ n + 2 \in 1..(n + 3) /\ n + 3 \in 1..(n + 3)
        /\ ~ (n + 1 <= n) /\ ~ (n + 2 <= n) /\ ~ (n + 3 <= n)
        /\ (n + 1) - n = 1 /\ (n + 2) - n = 2 /\ (n + 3) - n = 3
    BY <2>1
  <2>4. all[n + 1] = three[(n + 1) - n] /\ all[n + 2] = three[(n + 2) - n]
        /\ all[n + 3] = three[(n + 3) - n]
    BY <2>1, <2>2, <2>3
  <2>. QED BY <1>3, <1>5, <2>1, <2>2, <2>3, <2>4
<1>7. SubSeq(all, 1, n) = list
  <2> DEFINE first == SubSeq(all, 1, n)
  <2>1. first \in Seq(S) /\ Len(first) = n /\ \A i \in 1..n : first[i] = all[i]
    BY <1>5, <1>6
  <2> HIDE DEF first
  <2>2. \A i \in 1..Len(first) : first[i] = list[i]
    BY <1>6, <2>1
  <2>. QED BY <1>2, <2>1, <2>2, SeqEqual DEF first
<1>8. SubSeq(all, n + 2, n + 3) = two
  <2> DEFINE last == SubSeq(all, n + 2, n + 3)
  <2>1. last \in Seq(S) /\ Len(last) = 2 /\ last[1] = all[n + 2] /\ last[2] = all[n + 3]
    BY <1>5, <1>6
  <2> HIDE DEF last
  <2>2. \A i \in 1..Len(last) : last[i] = two[i]
    BY <1>4, <1>6, <2>1
  <2>. QED BY <1>4, <2>1, <2>2, SeqEqual DEF last
<1>. QED BY <1>6, <1>7, <1>8, Zenon DEF HasFields, two, n

LEMMA TypeFirst ==
  ASSUME NEW type \in Nat, NEW bytes \in Seq(Nat), NEW all, all = Prefixed(type, bytes)
  PROVE  Head(all) = type /\ Tail(all) = bytes
<1>1. /\ all \in Seq(Nat) /\ Len(all) = Len(bytes) + 1 /\ all[1] = type
      /\ \A i \in 1..Len(bytes) : all[i + 1] = bytes[i]
  BY ByteBefore DEF Prefixed
<1>2. Head(all) = type
  BY <1>1
<1>3. Tail(all) \in Seq(Nat) /\ Len(Tail(all)) = Len(bytes) /\ \A i \in 1..Len(bytes) : Tail(all)[i] = all[i + 1]
  BY <1>1
<1>4. Tail(all) = bytes
  <2> DEFINE rest == Tail(all)
  <2> HIDE DEF rest
  <2>1. \A i \in 1..Len(rest) : rest[i] = bytes[i]
    BY <1>1, <1>3 DEF rest
  <2>. QED BY <1>3, <2>1, SeqEqual DEF rest
<1>. QED BY <1>2, <1>4

\* The v of EIP-155 names the chain and the parity.
LEMMA LegacySigned ==
  ASSUME NEW tx, NEW sig, IsTransaction(tx), IsSignature(sig)
  PROVE  LET v == legacyV(tx.chainId, sig.parity)
             number == Value(v)
         IN  /\ IsData(v) /\ number >= 35 /\ (number - 35) % 2 = sig.parity
             /\ (number - 35) \div 2 = Value(tx.chainId)
<1> DEFINE chain == Value(tx.chainId)
           parity == sig.parity
           number == parity + 2 * chain + 35
           v == BigEndian(number)
<1>1. chain \in Nat /\ chain < 1073741824 /\ parity \in 0..1
  <2>1. tx.chainId \in Seq(Nat)
    BY DEF IsTransaction, IsNumber, Canonical
  <2>2. IsChain(tx.chainId) /\ sig.parity \in 0..1
    BY DEF IsTransaction, IsSignature
  <2>. QED BY <2>1, <2>2, ValueIsNat DEF IsChain
<1>2. legacyV(tx.chainId, sig.parity) = v
  BY DEF legacyV
<1> HIDE DEF chain, parity
<1>3. /\ number \in Nat /\ number < 4294967296 /\ number >= 35 /\ (number - 35) % 2 = parity
      /\ (number - 35) \div 2 = chain
  BY <1>1
<1> HIDE DEF number
<1>4. IsWordOf(v, number)
  BY <1>3, WordOfNumber
<1>5. v \in Seq(Nat) /\ Len(v) <= 4 /\ Value(v) = number
  BY <1>3, <1>4 DEF IsWordOf, Canonical
<1>6. IsData(v)
  <2>1. Len(v) \in Nat
    BY <1>5
  <2> HIDE DEF v
  <2>. QED BY <1>5, <2>1 DEF IsData
<1>. QED BY <1>2, <1>3, <1>5, <1>6 DEF chain, parity

LEMMA ParityWord ==
  ASSUME NEW parity \in 0..1
  PROVE  IsData(BigEndian(parity)) /\ Value(BigEndian(parity)) = parity
<1> DEFINE v == BigEndian(parity)
<1>1. IsWordOf(v, parity) /\ parity < 4294967296
  BY WordOfNumber
<1>2. v \in Seq(Nat) /\ Len(v) <= 4 /\ Value(v) = parity
  BY <1>1 DEF IsWordOf, Canonical
<1>3. Len(v) \in Nat
  BY <1>2
<1> HIDE DEF v
<1>. QED BY <1>2, <1>3 DEF IsData, v

LEMMA WrittenHasFields ==
  ASSUME NEW fields, NEW list, ReadsEach(fields, list), NEW v, NEW r, NEW s,
         IsData(v), IsData(r), IsData(s)
  PROVE  /\ HasFields(RlpList(writeList(fields \o Rsv(v, r, s))), list,
                      AsField(v), AsField(r), AsField(s))
         /\ writeList(fields \o Rsv(v, r, s)) \in Seq(Nat)
         /\ RlpList(writeList(fields \o Rsv(v, r, s))) = list \o <<AsField(v), AsField(r), AsField(s)>>
<1> DEFINE part == writeList(fields \o Rsv(v, r, s))
           x == AsField(v)
           y == AsField(r)
           z == AsField(s)
           all == list \o <<x, y, z>>
<1>1. RlpReads(part, Single(AsList(all))) /\ Listed(list)
  BY SignedRead DEF ReadsEach
<1> HIDE DEF part
<1>2. part \in Seq(Nat) /\ RlpList(part) = all
  <2> HIDE DEF all
  <2>. QED BY <1>1, RlpWhole DEF RlpReads
<1> HIDE DEF x, y, z
<1>3. all = list \o <<x, y, z>>
  OBVIOUS
<1> HIDE DEF all
<1>4. HasFields(all, list, x, y, z)
  BY <1>1, <1>3, SignatureLast, Zenon
<1>. QED BY <1>2, <1>3, <1>4, Zenon DEF part, x, y, z

\* Every transaction, with an access list of any length and calldata of up to 4 GiB, is
\* read back from what is signed and from what is sent, and v and the fields name the
\* chain and the parity (RLPWriter.sol:20-136, EIP155Signer.sol:27-85,
\* EIP1559Signer.sol:28-124, EIP2930Signer.sol:27-121).
THEOREM EveryTransactionSentAsSigned ==
  ASSUME NEW tx, NEW sig, IsTransaction(tx), IsSignature(sig)
  PROVE  SentAsSigned(tx, sig)
<1> DEFINE fields == FieldsOf(tx)
           written == IF tx.type = 0 THEN LegacyFields(tx) ELSE TypedFields(tx)
           v == IF tx.type = 0 THEN legacyV(tx.chainId, sig.parity) ELSE BigEndian(sig.parity)
           body == writeList(written \o Rsv(v, sig.r, sig.s))
           signed == ReadBack(tx, unsignedTx(tx))
           sent == ReadBack(tx, signedTx(tx, sig))
           n == Len(fields)
<1>1. ReadsEach(written, fields)
  BY FieldsRead
<1>2. /\ IsData(v) /\ IsData(sig.r) /\ IsData(sig.s) /\ IsData(tx.chainId) /\ IsData(<< >>)
      /\ SignedFor(tx, sig, Value(v))
  <2>1. IsData(sig.r) /\ IsData(sig.s) /\ IsData(tx.chainId) /\ IsData(<< >>)
    <3>1. IsNumber(<< >>)
      BY DEF IsNumber, Canonical
    <3>. QED BY <3>1, NumberIsData DEF IsTransaction, IsSignature
  <2>2. CASE tx.type = 0
    BY <2>1, <2>2, LegacySigned DEF SignedFor
  <2>3. CASE tx.type # 0
    <3>1. sig.parity \in 0..1
      BY DEF IsSignature
    <3>. QED BY <2>1, <2>3, <3>1, ParityWord DEF SignedFor
  <2>. QED BY <2>2, <2>3
<1> HIDE DEF fields, v
<1>3. HasFields(RlpList(body), fields, AsField(v), AsField(sig.r), AsField(sig.s)) /\ body \in Seq(Nat)
  BY <1>1, <1>2, WrittenHasFields
<1>4. /\ HasFields(sent, fields, AsField(v), AsField(sig.r), AsField(sig.s))
      /\ tx.type # 0 => Head(signedTx(tx, sig)) = tx.type
  <2>1. CASE tx.type = 0
    <3>1. signedTx(tx, sig) = body
      BY <2>1 DEF signedTx, v
    <3> HIDE DEF body
    <3>2. sent = RlpList(body)
      BY <2>1, <3>1 DEF ReadBack
    <3>. QED BY <1>3, <2>1, <3>2
  <2>2. CASE tx.type # 0
    <3>1. signedTx(tx, sig) = Prefixed(tx.type, body)
      BY <2>2 DEF signedTx, v, Prefixed
    <3> HIDE DEF body
    <3>2. Head(signedTx(tx, sig)) = tx.type /\ Tail(signedTx(tx, sig)) = body
      <4>1. tx.type \in Nat
        BY DEF IsTransaction
      <4>. QED BY <1>3, <3>1, <4>1, TypeFirst
    <3>3. sent = RlpList(body)
      BY <2>2, <3>2 DEF ReadBack
    <3>. QED BY <1>3, <3>2, <3>3
  <2>. QED BY <2>1, <2>2
<1>5. /\ tx.type # 0 => Head(unsignedTx(tx)) = tx.type
      /\ signed = fields \o
           IF tx.type = 0 THEN <<AsField(tx.chainId), AsField(<< >>), AsField(<< >>)>> ELSE << >>
  <2>1. CASE tx.type = 0
    <3> DEFINE part == writeList(written \o Rsv(tx.chainId, << >>, << >>))
    <3>1. RlpList(part) = fields \o <<AsField(tx.chainId), AsField(<< >>), AsField(<< >>)>>
      BY <1>1, <1>2, WrittenHasFields
    <3>2. unsignedTx(tx) = part
      BY <2>1 DEF unsignedTx
    <3> HIDE DEF part
    <3>3. signed = RlpList(part)
      BY <2>1, <3>2 DEF ReadBack
    <3> HIDE DEF signed
    <3>. QED BY <2>1, <3>1, <3>3
  <2>2. CASE tx.type # 0
    <3> DEFINE part == writeList(written)
    <3>1. RlpReads(part, Single(AsList(fields)))
      BY <1>1, EachWritten
    <3>2. unsignedTx(tx) = Prefixed(tx.type, part)
      BY <2>2 DEF unsignedTx, Prefixed
    <3> HIDE DEF part
    <3>3. part \in Seq(Nat) /\ RlpList(part) = fields
      BY <3>1, RlpWhole DEF RlpReads
    <3>4. Head(unsignedTx(tx)) = tx.type /\ Tail(unsignedTx(tx)) = part
      <4>1. tx.type \in Nat
        BY DEF IsTransaction
      <4>. QED BY <3>2, <3>3, <4>1, TypeFirst
    <3>5. signed = fields
      BY <2>2, <3>3, <3>4 DEF ReadBack
    <3>6. fields \o << >> = fields
      <4>1. Listed(fields)
        BY <1>1 DEF ReadsEach
      <4>. QED BY <4>1 DEF Listed
    <3> HIDE DEF signed
    <3>. QED BY <2>2, <3>4, <3>5, <3>6
  <2>. QED BY <2>1, <2>2
<1>6. /\ Len(sent) = n + 3 /\ SubSeq(sent, 1, n) = fields
      /\ sent[n + 1].bytes = v /\ SubSeq(sent, n + 2, n + 3) = <<AsField(sig.r), AsField(sig.s)>>
  <2> HIDE DEF sent
  <2>. QED BY <1>4 DEF HasFields, AsField
<1> HIDE DEF sent, signed
<1>7. SignedFor(tx, sig, Value(sent[n + 1].bytes))
  BY <1>2, <1>6
<1>. QED BY <1>4, <1>5, <1>6, <1>7, Zenon DEF SentAsSigned, sent, signed, fields

\* The transactions of a run are such.
TransactionInput ==
  Given("transaction") => IsTransaction(input.tx) /\ IsSignature(input.sig)

LEMMA FilledNumber ==
  ASSUME NEW n \in 0..32, NEW byte \in Nat, byte # 0
  PROVE  IsNumber(Filled(n, byte))
<1> DEFINE s == Filled(n, byte)
<1>1. n \in Nat /\ n <= 32
  OBVIOUS
<1>2. s \in Seq(Nat) /\ Len(s) = n /\ \A i \in 1..n : s[i] = byte
  BY <1>1, FilledBytes
<1> HIDE DEF s
<1>3. s # << >> => s[1] # 0
  BY <1>1, <1>2
<1>. QED BY <1>1, <1>2, <1>3 DEF IsNumber, Canonical, s

LEMMA FilledData ==
  ASSUME NEW n \in 0..256, NEW byte \in Nat
  PROVE  IsData(Filled(n, byte)) /\ Filled(n, byte) \in Seq(Nat) /\ Len(Filled(n, byte)) = n
<1>1. n \in Nat /\ n < 4294967296
  OBVIOUS
<1>. QED BY <1>1, FilledBytes DEF IsData

\* The numbers of a run that are written out.
LEMMA SomeNumbers ==
  /\ IsNumber(<< >>) /\ IsNumber(<<24>>) /\ IsNumber(<<1>>) /\ IsNumber(<<97>>)
  /\ IsNumber(<<127>>) /\ IsNumber(<<128>>)
<1>1. ASSUME NEW a \in Nat, a # 0 PROVE IsNumber(Single(a))
  BY <1>1 DEF IsNumber, Canonical, Single
<1>2. IsNumber(<< >>)
  BY DEF IsNumber, Canonical
<1>3. 24 \in Nat \ {0} /\ 1 \in Nat \ {0} /\ 97 \in Nat \ {0} /\ 127 \in Nat \ {0} /\ 128 \in Nat \ {0}
  OBVIOUS
<1>4. /\ IsNumber(Single(24)) /\ IsNumber(Single(1)) /\ IsNumber(Single(97))
      /\ IsNumber(Single(127)) /\ IsNumber(Single(128))
  BY <1>1, <1>3
<1>. QED BY <1>2, <1>4 DEF Single

LEMMA LongerNumbers ==
  /\ IsNumber(<<1, 0>>) /\ IsNumber(<<90, 254>>) /\ IsNumber(<<3, 208, 144>>)
  /\ IsNumber(Filled(32, 255))
<1>1. ASSUME NEW a \in Nat, a # 0, NEW b \in Nat, NEW s, s = <<a, b>> PROVE IsNumber(s)
  <2>1. s \in Seq(Nat) /\ Len(s) = 2 /\ s[1] = a
    BY <1>1
  <2>. QED BY <1>1, <2>1 DEF IsNumber, Canonical
<1>2. ASSUME NEW a \in Nat, a # 0, NEW b \in Nat, NEW c \in Nat, NEW s, s = <<a, b, c>>
      PROVE  IsNumber(s)
  <2>1. s \in Seq(Nat) /\ Len(s) = 3 /\ s[1] = a
    BY <1>2
  <2>. QED BY <1>2, <2>1 DEF IsNumber, Canonical
<1>3. IsNumber(<<1, 0>>) /\ IsNumber(<<90, 254>>)
  BY <1>1
<1>4. IsNumber(<<3, 208, 144>>)
  BY <1>2
<1>5. IsNumber(Filled(32, 255))
  <2>1. 32 \in 0..32 /\ 255 \in Nat /\ 255 # 0
    OBVIOUS
  <2>. QED BY <2>1, FilledNumber, Zenon
<1>. QED BY <1>3, <1>4, <1>5

LEMMA SomeChains ==
  ASSUME NEW word, word \in {<< 1 >>, << 97 >>, << 90, 254 >>}
  PROVE  IsNumber(word) /\ IsChain(word)
<1> DEFINE a == <<1>>
           b == <<97>>
           c == <<90, 254>>
           number == Value(word)
<1>1. word = a \/ word = b \/ word = c
  OBVIOUS
<1>2. Value(a) = 1 /\ Value(b) = 97 /\ Value(c) = 256 * 90 + 254
  <2>1. 1 \in Nat /\ 97 \in Nat /\ 90 \in Nat /\ 254 \in Nat
    OBVIOUS
  <2>. QED BY <2>1, ValueOfOne, ValueOfTwo, ZenonT(40)
<1>3. IsNumber(a) /\ IsNumber(b) /\ IsNumber(c)
  BY SomeNumbers, LongerNumbers
<1> HIDE DEF a, b, c
<1>4. IsNumber(word)
  BY <1>1, <1>3
<1>5. number = 1 \/ number = 97 \/ number = 256 * 90 + 254
  BY <1>1, <1>2
<1> HIDE DEF number
<1>6. number < 1073741824
  BY <1>5
<1>. QED BY <1>4, <1>6 DEF IsChain, number

LEMMA SomeValues ==
  ASSUME NEW word, word \in {<< >>, << 127 >>, << 128 >>, Filled(32, 255)}
  PROVE  IsNumber(word)
<1> DEFINE a == << >>
           b == <<127>>
           c == <<128>>
           d == Filled(32, 255)
<1>1. word = a \/ word = b \/ word = c \/ word = d
  OBVIOUS
<1>2. IsNumber(a) /\ IsNumber(b) /\ IsNumber(c) /\ IsNumber(d)
  BY SomeNumbers, LongerNumbers
<1> HIDE DEF a, b, c, d
<1>. QED BY <1>1, <1>2

LEMMA SomeFilled ==
  /\ IsNumber(Filled(32, 128)) /\ IsNumber(Filled(31, 9))
  /\ Filled(32, 2) \in Seq(Nat) /\ Len(Filled(32, 2)) = 32
  /\ Filled(20, 1) \in Seq(Nat) /\ Len(Filled(20, 1)) = 20
<1>1. IsNumber(Filled(32, 128))
  <2>1. 32 \in 0..32 /\ 128 \in Nat /\ 128 # 0
    OBVIOUS
  <2>. QED BY <2>1, FilledNumber, Zenon
<1>2. IsNumber(Filled(31, 9))
  <2>1. 31 \in 0..32 /\ 9 \in Nat /\ 9 # 0
    OBVIOUS
  <2>. QED BY <2>1, FilledNumber, Zenon
<1>3. ASSUME NEW n \in 0..256, NEW byte \in Nat
      PROVE  IsData(Filled(n, byte)) /\ Filled(n, byte) \in Seq(Nat) /\ Len(Filled(n, byte)) = n
  BY FilledData
<1>4. Filled(32, 2) \in Seq(Nat) /\ Len(Filled(32, 2)) = 32
  <2>1. 32 \in 0..256 /\ 2 \in Nat
    OBVIOUS
  <2>. QED BY <1>3, <2>1, Zenon
<1>5. Filled(20, 1) \in Seq(Nat) /\ Len(Filled(20, 1)) = 20
  <2>1. 20 \in 0..256 /\ 1 \in Nat
    OBVIOUS
  <2>. QED BY <1>3, <2>1, Zenon
<1>. QED BY <1>1, <1>2, <1>4, <1>5

\* The transactions of the run, of what differs from one to another.
MadeTx(type, chainId, value, n, byte, keys, nonce, gasPrice, gasLimit) ==
  [type |-> type, chainId |-> chainId, nonce |-> nonce, gasPrice |-> gasPrice,
   tip |-> << >>, gasLimit |-> gasLimit, to |-> Filled(20, byte), value |-> value,
   data |-> Filled(n, byte),
   accessList |-> IF keys = 0 THEN << >> ELSE
     <<[addr |-> Filled(20, 1), storageKeys |-> Filled(keys, Filled(32, 2))]>>]
MadeSig(parity) == [parity |-> parity, r |-> Filled(32, 128), s |-> Filled(31, 9)]
MadeOf(type, chainId, value, n, byte, keys, nonce, gasPrice, gasLimit) ==
  /\ type \in 0..2 /\ IsNumber(chainId) /\ IsChain(chainId) /\ IsNumber(value)
  /\ n \in 0..256 /\ byte \in Nat /\ keys \in 0..2
  /\ IsNumber(nonce) /\ IsNumber(gasPrice) /\ IsNumber(gasLimit)

LEMMA TransactionMade ==
  ASSUME NEW type, NEW chainId, NEW value, NEW n, NEW byte, NEW keys, NEW nonce, NEW gasPrice,
         NEW gasLimit, MadeOf(type, chainId, value, n, byte, keys, nonce, gasPrice, gasLimit)
  PROVE  IsTransaction(MadeTx(type, chainId, value, n, byte, keys, nonce, gasPrice, gasLimit))
<1> DEFINE to == Filled(20, byte)
           data == Filled(n, byte)
           access == [addr |-> Filled(20, 1), storageKeys |-> Filled(keys, Filled(32, 2))]
           list == IF keys = 0 THEN << >> ELSE <<access>>
           tx == [type |-> type, chainId |-> chainId, nonce |-> nonce, gasPrice |-> gasPrice,
                  tip |-> << >>, gasLimit |-> gasLimit, to |-> to, value |-> value,
                  data |-> data, accessList |-> list]
<1>1. /\ type \in 0..2 /\ IsNumber(chainId) /\ IsChain(chainId) /\ IsNumber(value)
      /\ n \in 0..256 /\ byte \in Nat /\ keys \in 0..2
      /\ IsNumber(nonce) /\ IsNumber(gasPrice) /\ IsNumber(gasLimit)
  BY DEF MadeOf
<1>2. IsNumber(<< >>)
  BY SomeNumbers
<1>4. to \in Seq(Nat) /\ Len(to) = 20 /\ IsData(data)
  <2>1. \A k \in 0..256, b \in Nat :
          IsData(Filled(k, b)) /\ Filled(k, b) \in Seq(Nat) /\ Len(Filled(k, b)) = k
    BY FilledData
  <2>2. n \in 0..256 /\ byte \in Nat
    BY <1>1
  <2>3. 20 \in 0..256
    OBVIOUS
  <2>4. IsData(data)
    BY <2>1, <2>2
  <2>5. to \in Seq(Nat) /\ Len(to) = 20
    BY <2>1, <2>2, <2>3
  <2>. QED BY <2>4, <2>5
<1>5. IsAccess(access)
  <2> DEFINE stored == Filled(keys, Filled(32, 2))
             key == Filled(32, 2)
             addr == Filled(20, 1)
  <2>1. key \in Seq(Nat) /\ Len(key) = 32 /\ addr \in Seq(Nat) /\ Len(addr) = 20
    BY SomeFilled
  <2>2. stored = Filled(keys, key)
    OBVIOUS
  <2> HIDE DEF key, addr, stored
  <2>3. Listed(stored) /\ \A j \in 1..Len(stored) : stored[j] = key
    <3>1. stored = [i \in 1..keys |-> key] /\ keys \in Nat
      BY <1>1, <2>2 DEF Filled
    <3> DEFINE S == {key}
    <3>2. key \in S
      OBVIOUS
    <3> HIDE DEF S
    <3>3. stored \in [1..keys -> S]
      BY <3>1, <3>2
    <3>4. stored \in Seq(S) /\ Len(stored) = keys
      BY <3>1, <3>3
    <3>. QED BY <3>1, <3>4 DEF Listed
  <2>4. access.addr = addr /\ access.storageKeys = stored
    BY DEF addr, stored, key
  <2> HIDE DEF access
  <2>. QED BY <2>1, <2>3, <2>4 DEF IsAccess
<1> HIDE DEF access
<1>6. IsAccessList(list)
  <2>1. CASE keys = 0
    <3>1. list = << >> /\ Listed(list) /\ Len(list) = 0
      BY <2>1 DEF Listed
    <3> HIDE DEF list
    <3>. QED BY <3>1 DEF IsAccessList
  <2>2. CASE keys # 0
    <3>1. list = <<access>>
      BY <2>2
    <3> HIDE DEF list
    <3>2. list \in Seq({access}) /\ Len(list) = 1 /\ list[1] = access
      BY <3>1
    <3>3. \A i \in 1..Len(list) : list[i] = access
      BY <3>2
    <3>. QED BY <1>5, <3>2, <3>3 DEF IsAccessList, Listed
  <2>. QED BY <2>1, <2>2
<1> HIDE DEF to, data, list
<1>8. /\ tx.type = type /\ tx.chainId = chainId /\ tx.nonce = nonce /\ tx.gasPrice = gasPrice
      /\ tx.tip = << >> /\ tx.gasLimit = gasLimit /\ tx.to = to /\ tx.value = value
      /\ tx.data = data /\ tx.accessList = list
  OBVIOUS
<1> HIDE DEF tx
<1>9. IsTransaction(tx)
  BY <1>1, <1>2, <1>4, <1>6, <1>8, Zenon DEF IsTransaction
<1>. QED BY <1>9, Zenon DEF MadeTx, tx, to, data, list, access

LEMMA SignatureMade ==
  ASSUME NEW parity \in 0..1
  PROVE  IsSignature(MadeSig(parity))
<1> DEFINE r == Filled(32, 128)
           s == Filled(31, 9)
<1>1. IsNumber(r) /\ IsNumber(s)
  BY SomeFilled
<1> HIDE DEF r, s
<1>2. IsSignature([parity |-> parity, r |-> r, s |-> s])
  BY <1>1 DEF IsSignature
<1>. QED BY <1>2 DEF MadeSig, r, s

LEMMA TransactionChosen ==
  ASSUME ChooseTransaction
  PROVE  IsTransaction(input'.tx) /\ IsSignature(input'.sig) /\ input'.alg = "transaction"
<1> DEFINE Choice(type, chainId, parity, value, n, byte, keys) ==
             /\ type \in 0..2 /\ chainId \in {<<1>>, <<97>>, <<90, 254>>} /\ parity \in 0..1
             /\ value \in {<< >>, <<127>>, <<128>>, Filled(32, 255)}
             /\ n \in {0, 1, 20, 54, 55, 56, 57, 255, 256} /\ byte \in {0, 127, 128} /\ keys \in 0..2
             /\ type = 0 => keys = 0
             /\ input' =
                  [alg |-> "transaction",
                   tx |-> [type |-> type, chainId |-> chainId, nonce |-> <<24>>, gasPrice |-> <<1, 0>>,
                           tip |-> << >>, gasLimit |-> <<3, 208, 144>>, to |-> Filled(20, byte),
                           value |-> value, data |-> Filled(n, byte),
                           accessList |-> IF keys = 0 THEN << >> ELSE
                             <<[addr |-> Filled(20, 1), storageKeys |-> Filled(keys, Filled(32, 2))]>>],
                   sig |-> [parity |-> parity, r |-> Filled(32, 128), s |-> Filled(31, 9)]]
<1>1. PICK type, chainId, parity, value, n, byte, keys :
        Choice(type, chainId, parity, value, n, byte, keys)
  <2>1. PICK type \in 0..2, chainId \in {<<1>>, <<97>>, <<90, 254>>}, parity \in 0..1,
             value \in {<< >>, <<127>>, <<128>>, Filled(32, 255)},
             n \in {0, 1, 20, 54, 55, 56, 57, 255, 256}, byte \in {0, 127, 128}, keys \in 0..2 :
          /\ type = 0 => keys = 0
          /\ input' =
               [alg |-> "transaction",
                tx |-> [type |-> type, chainId |-> chainId, nonce |-> <<24>>, gasPrice |-> <<1, 0>>,
                        tip |-> << >>, gasLimit |-> <<3, 208, 144>>, to |-> Filled(20, byte),
                        value |-> value, data |-> Filled(n, byte),
                        accessList |-> IF keys = 0 THEN << >> ELSE
                          <<[addr |-> Filled(20, 1), storageKeys |-> Filled(keys, Filled(32, 2))]>>],
                sig |-> [parity |-> parity, r |-> Filled(32, 128), s |-> Filled(31, 9)]]
    BY Zenon DEF ChooseTransaction
  <2>2. Choice(type, chainId, parity, value, n, byte, keys)
    BY <2>1, Zenon
  <2> HIDE DEF Choice
  <2> WITNESS type, chainId, parity, value, n, byte, keys
  <2>. QED BY <2>2
<1> DEFINE nonce == <<24>>
           gasPrice == <<1, 0>>
           gasLimit == <<3, 208, 144>>
           tx == MadeTx(type, chainId, value, n, byte, keys, nonce, gasPrice, gasLimit)
           sig == MadeSig(parity)
<1>2. /\ IsNumber(chainId) /\ IsChain(chainId) /\ IsNumber(nonce) /\ IsNumber(gasPrice)
      /\ IsNumber(gasLimit) /\ IsNumber(value)
  <2>1. chainId \in {<<1>>, <<97>>, <<90, 254>>} /\ value \in {<< >>, <<127>>, <<128>>, Filled(32, 255)}
    BY <1>1, Zenon
  <2> HIDE DEF nonce, gasPrice, gasLimit
  <2>2. IsNumber(chainId) /\ IsChain(chainId)
    BY <2>1, SomeChains
  <2>4. IsNumber(value)
    BY <2>1, SomeValues
  <2>3. IsNumber(nonce) /\ IsNumber(gasPrice) /\ IsNumber(gasLimit)
    BY SomeNumbers, LongerNumbers DEF nonce, gasPrice, gasLimit
  <2>. QED BY <2>2, <2>3, <2>4
<1>3. type \in 0..2 /\ parity \in 0..1 /\ n \in 0..256 /\ byte \in Nat /\ keys \in 0..2
  <2>1. /\ type \in 0..2 /\ parity \in 0..1 /\ byte \in {0, 127, 128} /\ keys \in 0..2
        /\ n \in {0, 1, 20, 54, 55, 56, 57, 255, 256}
    BY <1>1, Zenon
  <2>. QED BY <2>1
<1>4. input'.alg = "transaction" /\ input'.tx = tx /\ input'.sig = sig
  <2> HIDE DEF tx, sig
  <2>1. input' = [alg |-> "transaction", tx |-> tx, sig |-> sig]
    BY <1>1, Zenon DEF tx, sig, nonce, gasPrice, gasLimit, MadeTx, MadeSig
  <2>. QED BY <2>1
<1> HIDE DEF nonce, gasPrice, gasLimit
<1>5. MadeOf(type, chainId, value, n, byte, keys, nonce, gasPrice, gasLimit)
  BY <1>2, <1>3, Zenon DEF MadeOf
<1>6. IsTransaction(tx)
  BY <1>5, TransactionMade, Zenon
<1>7. IsSignature(sig)
  BY <1>3, SignatureMade, Zenon
<1>. QED BY <1>4, <1>6, <1>7, Zenon

\* What is sent for a transaction of a run is what was signed for it (EIP155Signer.sol:
\* 27-85, EIP1559Signer.sol:28-124, EIP2930Signer.sol:27-121).
THEOREM TransactionsSentAsSigned == Spec => []WhatIsSignedIsSent
<1>1. Init => TransactionInput
  BY DEF Init, TransactionInput, Given
<1>2. ASSUME TransactionInput, [Next]_<<input, host, enclave>>
      PROVE  TransactionInput'
  <2>1. CASE input' = input
    BY <1>2, <2>1 DEF TransactionInput, Given
  <2>2. CASE ChooseTransaction
    BY <2>2, TransactionChosen DEF TransactionInput, Given
  <2>3. CASE (ChooseInput \/ NextDay) /\ ~ ChooseTransaction
    <3>1. input'.alg # "transaction"
      BY <2>3, ChosenKinds DEF ChooseInput
    <3>. QED BY <3>1 DEF TransactionInput, Given
  <2>. QED BY <1>2, <2>1, <2>2, <2>3, InputStays
<1>3. TransactionInput => WhatIsSignedIsSent
  BY EveryTransactionSentAsSigned DEF TransactionInput, WhatIsSignedIsSent
<1>. QED BY <1>1, <1>2, <1>3, PTL DEF Spec

-----------------------------------------------------------------------------
(***************************************************************************)
(* The calldata public key: maps of any keys in any order, and the ABI     *)
(* encoding the JavaScript client takes it from.                           *)
(***************************************************************************)

\* The integers and words of the answer are read wherever they stand.
LEMMA UintIsInteger ==
  ASSUME NEW word, Canonical(word), Len(word) <= 16
  PROVE  Integer(encodeUint(word), word)
<1>0. Len(word) \in Nat
  BY DEF Canonical
<1>1. CASE Len(word) <= 8
  <2>1. encodeUint(word) \in Forms(word, 8)
    BY <1>1 DEF Forms
  <2>. QED BY <1>1, <2>1, FormsAreIntegers
<1>2. CASE ~ (Len(word) <= 8)
  <2>1. encodeUint(word) = Prefixed(80, Padded(word, 16))
    <3> DEFINE n == Len(word)
    <3>1. ~ (n = 0 \/ (n = 1 /\ word[1] < 24)) /\ ~ (n <= 2) /\ ~ (n <= 4) /\ ~ (n <= 8) /\ n <= 16
      <4>1. n \in Nat /\ ~ (n <= 8) /\ n <= 16
        BY <1>0, <1>2
      <4> HIDE DEF n
      <4>. QED BY <4>1
    <3>2. encodeUint(word) = <<80>> \o Padded(word, 16)
      BY <3>1 DEF encodeUint
    <3>. QED BY <3>2 DEF Prefixed
  <2>. QED BY <2>1 DEF Integer, Announces
<1>. QED BY <1>1, <1>2

Chain2(a, b) == <<a, b>>
StringOf(word) == Chained(Chain2(88, 32), Padded(word, 32))

LEMMA TwoFirst ==
  ASSUME NEW a \in Nat, NEW b \in Nat, NEW part \in Seq(Nat),
         NEW data \in Seq(Nat), NEW offset \in Nat, Holds(data, offset, Chained(Chain2(a, b), part))
  PROVE  /\ offset + 2 + Len(part) <= Len(data)
         /\ Chained(Chain2(a, b), part) \in Seq(Nat) /\ Len(Chained(Chain2(a, b), part)) = Len(part) + 2
         /\ data[offset + 1] = a /\ data[offset + 2] = b
         /\ Holds(data, offset, Chain2(a, b)) /\ Holds(data, offset + 2, part)
<1> DEFINE two == Chain2(a, b)
           all == Chained(two, part)
<1>1. two \in Seq(Nat) /\ Len(two) = 2 /\ two[1] = a /\ two[2] = b
  BY DEF Chain2
<1>2. Holds(data, offset, all)
  OBVIOUS
<1> HIDE DEF two
<1>3. all \in Seq(Nat) /\ Len(all) = 2 + Len(part) /\ Holds(all, 0, two) /\ Holds(all, 2, part)
  <2>1. all \in Seq(Nat) /\ Len(all) = Len(two) + Len(part) /\ Holds(all, 0, two) /\ Holds(all, Len(two), part)
    BY <1>1, HoldsBoth, Joined DEF Chained
  <2>. QED BY <1>1, <2>1
<1> HIDE DEF all
<1>4. Holds(data, offset + 0, two) /\ Holds(data, offset + 2, part)
  BY <1>1, <1>2, <1>3, HoldsWithin
<1>5. offset + 0 = offset /\ 1 \in 1..2 /\ 2 \in 1..2
  OBVIOUS
<1>6. data[offset + 1] = a /\ data[offset + 2] = b
  BY <1>1, <1>4, <1>5 DEF Holds
<1>7. Len(part) \in Nat /\ Len(data) \in Nat
  OBVIOUS
<1>8. offset + 2 + Len(part) <= Len(data)
  BY <1>4, <1>7 DEF Holds
<1>9. Len(all) = Len(part) + 2
  BY <1>3, <1>7
<1>. QED BY <1>3, <1>4, <1>5, <1>6, <1>8, <1>9 DEF two, all

LEMMA WordStringRead ==
  ASSUME NEW word, Canonical(word), Len(word) <= 32
  PROVE  /\ StringOf(word) \in Seq(Nat) /\ Len(StringOf(word)) = 34
         /\ \A data \in Seq(Nat), offset \in Nat :
              Holds(data, offset, StringOf(word)) => parseUint(data, offset) = Parsed(offset + 34, word)
<1> DEFINE padded == Padded(word, 32)
           two == Chain2(88, 32)
<1>1. padded \in Seq(Nat) /\ Len(padded) = 32 /\ Word(padded) = word
  BY PaddedWord
<1>2. two \in Seq(Nat) /\ Len(two) = 2
  BY DEF Chain2
<1>3. StringOf(word) = Chained(two, padded)
  BY DEF StringOf
<1>4. StringOf(word) \in Seq(Nat) /\ Len(StringOf(word)) = 34
  <2> HIDE DEF padded, two
  <2>1. Chained(two, padded) \in Seq(Nat) /\ Len(Chained(two, padded)) = Len(two) + Len(padded)
    BY <1>1, <1>2, Joined DEF Chained
  <2>. QED BY <1>1, <1>2, <1>3, <2>1
<1>5. ASSUME NEW data \in Seq(Nat), NEW offset \in Nat, Holds(data, offset, StringOf(word))
      PROVE  parseUint(data, offset) = Parsed(offset + 34, word)
  <2> HIDE DEF padded
  <2>1. /\ offset + 2 + Len(padded) <= Len(data) /\ data[offset + 1] = 88 /\ data[offset + 2] = 32
        /\ Holds(data, offset + 2, padded)
    <3> DEFINE a == 88
               b == 32
    <3>1. Holds(data, offset, Chained(Chain2(a, b), padded))
      BY <1>3, <1>5
    <3>2. a \in Nat /\ b \in Nat
      OBVIOUS
    <3> HIDE DEF a, b
    <3>3. /\ offset + 2 + Len(padded) <= Len(data) /\ data[offset + 1] = a /\ data[offset + 2] = b
          /\ Holds(data, offset + 2, padded)
      <4>1. padded \in Seq(Nat)
        BY <1>1
      <4>. QED BY <3>1, <3>2, <4>1, TwoFirst
    <3>. QED BY <3>3 DEF a, b
  <2>2. Len(data) \in Nat /\ offset + 2 + 32 <= Len(data) /\ ~ (offset >= Len(data)) /\ ~ (offset + 1 >= Len(data))
    BY <1>1, <2>1
  <2>3. Slice(data, offset + 2, 32) = padded
    <3> DEFINE from == offset + 2
               n == 32
    <3>1. from \in Nat /\ n = Len(padded) /\ Holds(data, from, padded)
      BY <1>1, <2>1
    <3> HIDE DEF from, n
    <3>2. Slice(data, from, n) = padded
      <4>1. padded \in Seq(Nat)
        BY <1>1
      <4>. QED BY <3>1, <4>1, HoldsSlice
    <3>. QED BY <3>2 DEF from, n
  <2>4. parseWord(data, offset + 2, 32) = Parsed(offset + 2 + 32, word)
    <3>1. ~ (32 > 32 \/ offset + 2 + 32 > Len(data))
      BY <2>2
    <3>. QED BY <1>1, <2>3, <3>1 DEF parseWord
  <2>5. parseUint(data, offset) = parseWord(data, offset + 2, 32)
    BY <2>1, <2>2 DEF parseUint
  <2>6. offset + 2 + 32 = offset + 34
    OBVIOUS
  <2>. QED BY <2>4, <2>5, <2>6
<1>. QED BY <1>4, <1>5

SignatureOf(r, s) == Chained(Chained(Chain2(88, 64), Padded(r, 32)), Padded(s, 32))

LEMMA SignatureRead ==
  ASSUME NEW r, NEW s, Canonical(r), Canonical(s), Len(r) <= 32, Len(s) <= 32
  PROVE  /\ SignatureOf(r, s) \in Seq(Nat) /\ Len(SignatureOf(r, s)) = 66
         /\ \A data \in Seq(Nat), offset \in Nat :
              Holds(data, offset, SignatureOf(r, s)) =>
                parseSignature(data, offset) = Parsed(offset + 66, Chain2(r, s))
<1> DEFINE pr == Padded(r, 32)
           ps == Padded(s, 32)
           two == Chain2(88, 64)
           front == Chained(two, pr)
           all == Chained(front, ps)
<1>1. /\ pr \in Seq(Nat) /\ Len(pr) = 32 /\ Word(pr) = r
      /\ ps \in Seq(Nat) /\ Len(ps) = 32 /\ Word(ps) = s
  BY PaddedWord
<1>2. two \in Seq(Nat) /\ Len(two) = 2 /\ two = <<88, 64>>
  BY DEF Chain2
<1>3. SignatureOf(r, s) = all
  BY DEF SignatureOf
<1> HIDE DEF pr, ps, two
<1>4. front \in Seq(Nat) /\ Len(front) = 34 /\ Holds(front, 0, two) /\ Holds(front, 2, pr)
  <2>0. front = two \o pr
    BY DEF Chained
  <2> HIDE DEF front
  <2>1. front \in Seq(Nat) /\ Len(front) = Len(two) + Len(pr) /\ Holds(front, 0, two) /\ Holds(front, Len(two), pr)
    BY <1>1, <1>2, <2>0, TwoParts
  <2>2. Len(front) = 34 /\ Len(two) = 2
    BY <1>1, <1>2, <2>1
  <2>. QED BY <2>1, <2>2
<1> HIDE DEF front
<1>5. all \in Seq(Nat) /\ Len(all) = 66 /\ Holds(all, 0, front) /\ Holds(all, 34, ps)
  <2>0. all = front \o ps
    BY DEF Chained
  <2> HIDE DEF all
  <2>1. all \in Seq(Nat) /\ Len(all) = Len(front) + Len(ps) /\ Holds(all, 0, front) /\ Holds(all, Len(front), ps)
    BY <1>1, <1>4, <2>0, TwoParts
  <2>2. Len(all) = 66 /\ Len(front) = 34
    BY <1>1, <1>4, <2>1
  <2>. QED BY <2>1, <2>2
<1> HIDE DEF all
<1>6. ASSUME NEW data \in Seq(Nat), NEW offset \in Nat, Holds(data, offset, all)
      PROVE  parseSignature(data, offset) = Parsed(offset + 66, Chain2(r, s))
  <2> DEFINE beyond == Filled(66, Beyond)
             padded == data \o beyond
  <2>1. beyond \in Seq(Nat)
    BY FilledBytes DEF Beyond
  <2> HIDE DEF beyond
  <2>2. padded \in Seq(Nat) /\ Holds(padded, 0, data)
    BY <2>1, Joined, HoldsBoth
  <2> HIDE DEF padded
  <2>3. /\ Holds(data, offset + 0, front) /\ Holds(data, offset + 34, ps)
    BY <1>1, <1>4, <1>5, <1>6, HoldsWithin
  <2>4. offset + 0 = offset /\ 0 + (offset + 2) = offset + 2 /\ 0 + (offset + 34) = offset + 34
    OBVIOUS
  <2>5. Holds(data, offset, front)
    BY <2>3, <2>4
  <2>6. Holds(data, offset + 0, two) /\ Holds(data, offset + 2, pr)
    BY <1>1, <1>2, <1>4, <2>5, HoldsWithin
  <2>7. Holds(padded, 0 + (offset + 2), pr)
    <3>1. offset + 2 \in Nat
      OBVIOUS
    <3>. QED BY <1>1, <2>2, <2>6, <3>1, HoldsWithin
  <2>8. Holds(padded, 0 + (offset + 34), ps)
    <3>1. offset + 34 \in Nat
      OBVIOUS
    <3>. QED BY <1>1, <2>2, <2>3, <3>1, HoldsWithin
  <2>9. Slice(padded, offset + 2, 32) = pr /\ Slice(padded, offset + 34, 32) = ps
    <3> DEFINE from == offset + 2
               next == offset + 34
               n == 32
    <3>1. from \in Nat /\ next \in Nat /\ n = Len(pr) /\ n = Len(ps)
      BY <1>1
    <3>2. Holds(padded, from, pr) /\ Holds(padded, next, ps)
      BY <2>4, <2>7, <2>8
    <3> HIDE DEF from, next, n
    <3>3. Slice(padded, from, n) = pr /\ Slice(padded, next, n) = ps
      <4>1. pr \in Seq(Nat) /\ ps \in Seq(Nat) /\ padded \in Seq(Nat)
        BY <1>1, <2>2
      <4>2. n = Len(pr) /\ n = Len(ps) /\ from \in Nat /\ next \in Nat
        BY <3>1
      <4>3. Slice(padded, from, n) = pr
        <5>1. Holds(padded, from, pr) /\ pr \in Seq(Nat) /\ padded \in Seq(Nat) /\ n = Len(pr) /\ from \in Nat
          BY <3>2, <4>1, <4>2
        <5>. QED BY <5>1, HoldsSlice
      <4>4. Slice(padded, next, n) = ps
        BY <3>2, <4>1, <4>2, HoldsSlice
      <4>. QED BY <4>3, <4>4
    <3>. QED BY <3>3 DEF from, next, n
  <2>10. Slice(data, offset, 2) = <<88, 64>>
    <3>1. Holds(data, offset, two)
      BY <2>4, <2>6
    <3>2. Slice(data, offset, 2) = two
      <4> DEFINE n == 2
      <4>1. n = Len(two)
        BY <1>2
      <4> HIDE DEF n
      <4>2. Slice(data, offset, n) = two
        <5>1. two \in Seq(Nat)
          BY <1>2
        <5>. QED BY <3>1, <4>1, <5>1, HoldsSlice
      <4>. QED BY <4>2 DEF n
    <3>. QED BY <1>2, <3>2
  <2>11. ~ (offset + 1 >= Len(data))
    <3>1. Len(data) \in Nat /\ offset + 66 <= Len(data)
      BY <1>5, <1>6 DEF Holds
    <3>. QED BY <3>1
  <2>12. parseSignature(data, offset) = Parsed(offset + 66, <<Word(pr), Word(ps)>>)
    BY <2>9, <2>10, <2>11 DEF parseSignature, padded, beyond
  <2>. QED BY <1>1, <2>12 DEF Chain2
<1>. QED BY <1>3, <1>5, <1>6

\* The loop over the pairs of a map is a table: what is found with m pairs to go.
Row(data, fields, m, later) ==
  [offset \in Nat |-> IF m = 0 THEN Parsed(offset, << >>) ELSE MapPair(parseKey(data, offset), fields, later)]
RowsOf(f, data, fields, n) == \A m \in 0..n : f[m] = Row(data, fields, m, f[m - 1])

LEMMA RowAny ==
  ASSUME NEW data, NEW fields, NEW later, NEW other
  PROVE  Row(data, fields, 0, later) = Row(data, fields, 0, other)
<1>1. \A offset \in Nat : (IF 0 = 0 THEN Parsed(offset, << >>) ELSE MapPair(parseKey(data, offset), fields, later))
                        = (IF 0 = 0 THEN Parsed(offset, << >>) ELSE MapPair(parseKey(data, offset), fields, other))
  OBVIOUS
<1>. QED BY <1>1 DEF Row

LEMMA LoopTable ==
  ASSUME NEW data, NEW fields, NEW n \in Nat
  PROVE  \E f : MapPairs(data, fields, n) = f[n] /\ RowsOf(f, data, fields, n)
<1> DEFINE Is(f) == f = [m \in 0..n |-> [offset \in Nat |->
                      IF m = 0 THEN Parsed(offset, << >>) ELSE MapPair(parseKey(data, offset), fields, f[m - 1])]]
           pairs == CHOOSE f : Is(f)
           Known(m) == \E f : RowsOf(f, data, fields, m)
           unknown == {m \in Nat : ~ Known(m)}
<1>1. MapPairs(data, fields, n) = pairs[n]
  BY DEF MapPairs
<1>2. Known(0)
  <2> DEFINE f == [m \in 0..0 |-> Row(data, fields, 0, << >>)]
  <2>1. \A m \in 0..0 : m = 0 /\ f[m] = Row(data, fields, 0, << >>)
    OBVIOUS
  <2> HIDE DEF f
  <2>2. ASSUME NEW m \in 0..0 PROVE f[m] = Row(data, fields, m, f[m - 1])
    <3>1. f[m] = Row(data, fields, 0, << >>) /\ m = 0
      BY <2>1
    <3>2. Row(data, fields, 0, << >>) = Row(data, fields, 0, f[m - 1])
      BY RowAny
    <3>. QED BY <3>1, <3>2
  <2>3. RowsOf(f, data, fields, 0)
    BY <2>2 DEF RowsOf
  <2>. QED BY <2>3
<1>3. ASSUME NEW m \in Nat, Known(m) PROVE Known(m + 1)
  <2>1. PICK f : RowsOf(f, data, fields, m)
    BY <1>3
  <2> DEFINE next == Row(data, fields, m + 1, f[m])
             g == [k \in 0..(m + 1) |-> IF k = m + 1 THEN next ELSE f[k]]
  <2>2. g[m + 1] = next /\ \A k \in 0..m : g[k] = f[k]
    <3> HIDE DEF next
    <3>. QED OBVIOUS
  <2> HIDE DEF g
  <2>3. ASSUME NEW k \in 0..(m + 1) PROVE g[k] = Row(data, fields, k, g[k - 1])
    <3>1. CASE k = m + 1
      <4>1. k - 1 = m /\ m \in 0..m
        BY <3>1
      <4>. QED BY <2>2, <3>1, <4>1
    <3>2. CASE k # m + 1 /\ k # 0
      <4>1. k \in 0..m /\ k - 1 \in 0..m
        BY <3>2
      <4>2. f[k] = Row(data, fields, k, f[k - 1])
        BY <2>1, <4>1 DEF RowsOf
      <4>. QED BY <2>2, <4>1, <4>2
    <3>3. CASE k = 0
      <4>1. 0 \in 0..m
        OBVIOUS
      <4>2. f[0] = Row(data, fields, 0, f[0 - 1]) /\ g[0] = f[0]
        BY <2>1, <2>2, <4>1 DEF RowsOf
      <4>. QED BY <3>3, <4>2, RowAny
    <3>. QED BY <3>1, <3>2, <3>3
  <2>4. RowsOf(g, data, fields, m + 1)
    BY <2>3 DEF RowsOf
  <2>. QED BY <2>4
<1>4. unknown = {}
  <2> HIDE DEF Known
  <2>1. SUFFICES ASSUME unknown # {} PROVE FALSE
    OBVIOUS
  <2>2. PICK least \in unknown : \A m \in unknown : least <= m
    BY <2>1, Smallest
  <2>3. least \in Nat /\ ~ Known(least)
    BY <2>2
  <2>4. least # 0 /\ least - 1 \in Nat /\ ~ (least <= least - 1) /\ (least - 1) + 1 = least
    BY <1>2, <2>3
  <2>5. Known(least - 1)
    BY <2>2, <2>4
  <2>. QED BY <1>3, <2>3, <2>4, <2>5
<1>5. PICK f : RowsOf(f, data, fields, n)
  <2>1. Known(n)
    <3> HIDE DEF Known
    <3>. QED BY <1>4
  <2>. QED BY <2>1
<1>6. \E g : Is(g)
  <2> DEFINE g == [m \in 0..n |-> f[m]]
  <2>1. \A m \in 0..n : g[m] = Row(data, fields, m, g[m - 1])
    <3>1. \A m \in 0..n : g[m] = f[m]
      OBVIOUS
    <3> HIDE DEF g
    <3>2. ASSUME NEW m \in 0..n PROVE g[m] = Row(data, fields, m, g[m - 1])
      <4>1. f[m] = Row(data, fields, m, f[m - 1])
        BY <1>5 DEF RowsOf
      <4>2. CASE m = 0
        BY <3>1, <4>1, <4>2, RowAny
      <4>3. CASE m # 0
        <5>1. m - 1 \in 0..n
          BY <4>3
        <5>. QED BY <3>1, <4>1, <5>1
      <4>. QED BY <4>2, <4>3
    <3>. QED BY <3>2
  <2>2. g = [m \in 0..n |-> g[m]]
    OBVIOUS
  <2> HIDE DEF g
  <2>3. Is(g)
    BY <2>1, <2>2 DEF Row
  <2>. QED BY <2>3
<1>7. Is(pairs)
  <2> HIDE DEF Is
  <2>. QED BY <1>6
<1> HIDE DEF pairs
<1>8. RowsOf(pairs, data, fields, n)
  BY <1>7 DEF RowsOf, Row
<1>. QED BY <1>1, <1>8

\* A key as its text tells it, and a value read wherever its encoding stands.
IsName(k) == \E len, letter \in Nat : len <= 31 /\ k = Key(len, letter)
FieldRead(data, field, e, v) ==
  /\ e \in Seq(Nat) /\ v \in MapValues
  /\ \A at \in Nat : Holds(data, at, e) => field[at] = Parsed(at + Len(e), v)
MapKeys(keys) == keys \in {DOMAIN NoPublicKey, DOMAIN NoAnswer}

LEMMA NameRead ==
  ASSUME NEW k, IsName(k)
  PROVE  /\ k \in Seq(Nat) /\ Text(k) \in Seq(Nat) /\ Len(Text(k)) >= 1
         /\ \A data \in Seq(Nat), offset \in Nat :
              Holds(data, offset, Text(k)) => parseKey(data, offset) = Parsed(offset + Len(Text(k)), k)
<1>1. PICK len \in Nat, letter \in Nat : len <= 31 /\ k = Key(len, letter)
  BY DEF IsName
<1>2. k \in Seq(Nat)
  BY <1>1, FilledBytes DEF Key
<1>3. Text(k) \in Seq(Nat) /\ Len(Text(k)) = len + 1
  BY <1>1, TextShape
<1>4. ASSUME NEW data \in Seq(Nat), NEW offset \in Nat, Holds(data, offset, Text(k))
      PROVE  parseKey(data, offset) = Parsed(offset + Len(Text(k)), k)
  <2>1. Holds(data, offset, Text(Key(len, letter)))
    BY <1>1, <1>4
  <2>2. parseKey(data, offset) = Parsed(offset + 1 + len, Key(len, letter))
    BY <1>1, <2>1, KeyRead
  <2>3. offset + 1 + len = offset + Len(Text(k))
    BY <1>3
  <2>. QED BY <1>1, <2>2, <2>3
<1>5. Len(Text(k)) >= 1
  BY <1>3
<1>. QED BY <1>2, <1>3, <1>4, <1>5

LEMMA FoundNotReverted ==
  ASSUME NEW offset \in Nat
  PROVE  /\ \A v \in MapValues : Parsed(offset, v) # Reverted
         /\ \A k \in Seq(Nat) : Parsed(offset, k) # Reverted
         /\ \A keys : MapKeys(keys) =>
              \A some \in SUBSET keys : \A found \in [some -> MapValues] : Parsed(offset, found) # Reverted
<1>1. \A v \in MapValues : Parsed(offset, v) \in [newOffset : Nat, value : MapValues]
  BY DEF Parsed
<1>2. \A k \in Seq(Nat) : Parsed(offset, k) \in [newOffset : Nat, value : Seq(Nat)]
  BY DEF Parsed
<1>3. ASSUME NEW keys, MapKeys(keys), NEW some \in SUBSET keys, NEW found \in [some -> MapValues]
      PROVE  Parsed(offset, found) # Reverted
  <2>1. some \in (SUBSET DOMAIN NoPublicKey) \cup (SUBSET DOMAIN NoAnswer)
    BY <1>3 DEF MapKeys
  <2>2. Parsed(offset, found) \in [newOffset : Nat, value : [some -> MapValues]]
    <3> DEFINE S == [some -> MapValues]
    <3>1. found \in S
      OBVIOUS
    <3> HIDE DEF S
    <3>2. Parsed(offset, found) \in [newOffset : Nat, value : S]
      BY <3>1 DEF Parsed
    <3>. QED BY <3>2 DEF S
  <2>. QED BY <2>1, <2>2, MapAssumption
<1>4. \A v \in MapValues : Parsed(offset, v) # Reverted
  BY <1>1, MapAssumption
<1>5. \A k \in Seq(Nat) : Parsed(offset, k) # Reverted
  BY <1>2, ParsedAssumption
<1>. QED BY <1>3, <1>4, <1>5

\* A pair that stands at an offset, and what is found behind it.
PairAhead(data, offset, fields, k, e, v) ==
  /\ data \in Seq(Nat) /\ offset \in Nat /\ MapKeys(DOMAIN fields) /\ k \in DOMAIN fields
  /\ IsName(k) /\ FieldRead(data, fields[k], e, v) /\ Holds(data, offset, Chained(Text(k), e))
FoundAfter(fields, later, at, end, found) ==
  /\ end \in Nat /\ later[at] = Parsed(end, found)
  /\ \E some \in SUBSET DOMAIN fields : found \in [some -> MapValues]

LEMMA PairRead ==
  ASSUME NEW data, NEW offset, NEW fields, NEW k, NEW e, NEW v, PairAhead(data, offset, fields, k, e, v),
         NEW end, NEW found, NEW later, FoundAfter(fields, later, offset + Len(Chained(Text(k), e)), end, found)
  PROVE  MapPair(parseKey(data, offset), fields, later) = Parsed(end, Stored(k, v, found))
<1> DEFINE text == Text(k)
           part == Chained(text, e)
           at == offset + Len(text)
           key == Parsed(at, k)
           field == Parsed(at + Len(e), v)
           rest == Parsed(end, found)
<1>0. /\ data \in Seq(Nat) /\ offset \in Nat /\ MapKeys(DOMAIN fields) /\ k \in DOMAIN fields
      /\ IsName(k) /\ FieldRead(data, fields[k], e, v) /\ Holds(data, offset, Chained(Text(k), e))
      /\ end \in Nat /\ later[offset + Len(Chained(Text(k), e))] = Parsed(end, found)
  BY DEF PairAhead, FoundAfter
<1>00. PICK some \in SUBSET DOMAIN fields : found \in [some -> MapValues]
  BY DEF FoundAfter
<1>1. k \in Seq(Nat) /\ text \in Seq(Nat) /\ e \in Seq(Nat) /\ v \in MapValues
  BY <1>0, NameRead DEF FieldRead
<1>2. Holds(data, offset, part)
  BY <1>0
<1> HIDE DEF text
<1>3. part \in Seq(Nat) /\ Len(part) = Len(text) + Len(e) /\ Holds(part, 0, text) /\ Holds(part, Len(text), e)
  BY <1>1, Joined, HoldsBoth DEF Chained
<1> HIDE DEF part
<1>4. Len(text) \in Nat /\ Len(e) \in Nat /\ at \in Nat /\ at + Len(e) \in Nat
  BY <1>0, <1>1
<1>5. Holds(data, offset + 0, text) /\ Holds(data, offset + Len(text), e)
  BY <1>0, <1>1, <1>2, <1>3, <1>4, HoldsWithin
<1>6. Holds(data, offset, text) /\ Holds(data, at, e)
  BY <1>0, <1>5
<1>7. parseKey(data, offset) = key
  BY <1>0, <1>6, NameRead DEF text
<1>8. fields[k][at] = field
  <2> HIDE DEF at
  <2>. QED BY <1>0, <1>4, <1>6 DEF FieldRead
<1>9. later[at + Len(e)] = rest
  <2>1. at + Len(e) = offset + Len(part)
    BY <1>0, <1>3, <1>4
  <2>2. later[offset + Len(part)] = rest
    BY <1>0 DEF part, text
  <2>. QED BY <2>1, <2>2
<1>10. key # Reverted /\ field # Reverted /\ rest # Reverted
  <2> HIDE DEF at
  <2>. QED BY <1>0, <1>00, <1>1, <1>4, FoundNotReverted
<1>11. /\ key.value = k /\ key.newOffset = at /\ field.value = v /\ field.newOffset = at + Len(e)
       /\ rest.value = found /\ rest.newOffset = end
  BY DEF Parsed
<1> HIDE DEF key, field, rest, at
<1>12. MapPair(key, fields, later) = PairFollowed(k, field, later)
  BY <1>0, <1>8, <1>10, <1>11 DEF MapPair
<1>13. PairFollowed(k, field, later) = Parsed(end, Stored(k, v, found))
  BY <1>9, <1>10, <1>11 DEF PairFollowed
<1>. QED BY <1>7, <1>12, <1>13

\* A map with these keys, n of them, in this order.
Parts(keys, encoded) == [i \in DOMAIN keys |-> Chained(Text(keys[i]), encoded[keys[i]])]
\* The pairs of the map, each of a key the loop knows.
GoodPairs(data, fields, keys, encoded, value) ==
  /\ MapKeys(DOMAIN fields) /\ Listed(keys)
  /\ \A i \in 1..Len(keys) : /\ keys[i] \in DOMAIN fields /\ IsName(keys[i])
                             /\ FieldRead(data, fields[keys[i]], encoded[keys[i]], value[keys[i]])
KeysFrom(keys, m) == {keys[i] : i \in (Len(keys) - m + 1)..Len(keys)}
FoundFor(keys, value, m) == [k \in KeysFrom(keys, m) |-> value[k]]

LEMMA FoundMore ==
  ASSUME NEW keys, Listed(keys), NEW value, NEW m \in 1..Len(keys), NEW k, k = keys[Len(keys) - m + 1]
  PROVE  FoundFor(keys, value, m) = Stored(k, value[k], FoundFor(keys, value, m - 1))
<1> DEFINE n == Len(keys)
           before == KeysFrom(keys, m - 1)
           g == [j \in before |-> value[j]]
<1>1. n \in Nat
  BY DEF Listed
<1>2. KeysFrom(keys, m) = before \cup {k}
  <2>1. (n - m + 1)..n = ((n - (m - 1) + 1)..n) \cup {n - m + 1}
    BY <1>1
  <2>. QED BY <2>1 DEF KeysFrom
<1> HIDE DEF before
<1>3. DOMAIN g = before /\ \A j \in before : g[j] = value[j]
  OBVIOUS
<1> HIDE DEF g
<1>4. Stored(k, value[k], g) = [j \in before \cup {k} |-> IF j \in before THEN g[j] ELSE value[k]]
  BY <1>3 DEF Stored
<1>5. \A j \in before \cup {k} : (IF j \in before THEN g[j] ELSE value[k]) = value[j]
  BY <1>3
<1>6. Stored(k, value[k], g) = [j \in before \cup {k} |-> value[j]]
  BY <1>4, <1>5
<1>. QED BY <1>2, <1>6 DEF FoundFor, before, g

LEMMA FoundNone ==
  ASSUME NEW keys, Listed(keys), NEW value
  PROVE  FoundFor(keys, value, 0) = << >>
<1>1. Len(keys) \in Nat
  BY DEF Listed
<1>2. (Len(keys) - 0 + 1)..Len(keys) = {}
  BY <1>1
<1>3. KeysFrom(keys, 0) = {}
  BY <1>2 DEF KeysFrom
<1>4. << >> = [k \in {} |-> value[k]]
  OBVIOUS
<1>. QED BY <1>3, <1>4 DEF FoundFor

LEMMA FoundKind ==
  ASSUME NEW data, NEW fields, NEW keys, NEW encoded, NEW value,
         GoodPairs(data, fields, keys, encoded, value), NEW m \in 0..Len(keys)
  PROVE  /\ KeysFrom(keys, m) \in SUBSET DOMAIN fields
         /\ FoundFor(keys, value, m) \in [KeysFrom(keys, m) -> MapValues]
<1>1. Len(keys) \in Nat
  BY DEF GoodPairs, Listed
<1>2. ASSUME NEW k \in KeysFrom(keys, m) PROVE k \in DOMAIN fields /\ value[k] \in MapValues
  <2>1. PICK i \in (Len(keys) - m + 1)..Len(keys) : k = keys[i]
    BY DEF KeysFrom
  <2>2. i \in 1..Len(keys)
    BY <1>1
  <2>. QED BY <2>1, <2>2 DEF GoodPairs, FieldRead
<1> DEFINE S == KeysFrom(keys, m)
<1>3. \A k \in S : k \in DOMAIN fields /\ value[k] \in MapValues
  BY <1>2
<1> HIDE DEF S
<1>4. S \in SUBSET DOMAIN fields /\ [k \in S |-> value[k]] \in [S -> MapValues]
  BY <1>3
<1>. QED BY <1>4 DEF FoundFor, S

LEMMA LoopStep ==
  ASSUME NEW data \in Seq(Nat), NEW at \in Nat, NEW fields, NEW keys, NEW encoded, NEW value,
         GoodPairs(data, fields, keys, encoded, value), NEW m \in 1..Len(keys),
         NEW i, i = Len(keys) - m + 1, NEW front \in Seq(Nat), NEW more \in Seq(Nat),
         more = Chained(front, Chained(Text(keys[i]), encoded[keys[i]])), Holds(data, at, more),
         NEW end \in Nat, NEW later, later[at + Len(more)] = Parsed(end, FoundFor(keys, value, m - 1))
  PROVE  /\ Holds(data, at, front)
         /\ Row(data, fields, m, later)[at + Len(front)] = Parsed(end, FoundFor(keys, value, m))
<1> DEFINE k == keys[i]
           e == encoded[k]
           v == value[k]
           part == Chained(Text(k), e)
           offset == at + Len(front)
           some == KeysFrom(keys, m - 1)
           found == FoundFor(keys, value, m - 1)
<1>1. Len(keys) \in Nat /\ i \in 1..Len(keys) /\ m - 1 \in 0..Len(keys)
  BY DEF GoodPairs, Listed
<1>2. MapKeys(DOMAIN fields) /\ k \in DOMAIN fields /\ IsName(k) /\ FieldRead(data, fields[k], e, v) /\ Listed(keys)
  BY <1>1 DEF GoodPairs
<1>3. e \in Seq(Nat) /\ Text(k) \in Seq(Nat)
  BY <1>2, NameRead DEF FieldRead
<1>4. part \in Seq(Nat)
  <2> HIDE DEF e, k
  <2>. QED BY <1>3, Joined DEF Chained
<1>5. more = Chained(front, part)
  OBVIOUS
<1>6. some \in SUBSET DOMAIN fields /\ found \in [some -> MapValues]
  BY <1>1, FoundKind
<1>7. FoundFor(keys, value, m) = Stored(k, v, found)
  BY <1>2, FoundMore
<1>8. later[at + Len(more)] = Parsed(end, found)
  OBVIOUS
<1> HIDE DEF e, v, found, some
<1>9. /\ Len(more) = Len(front) + Len(part) /\ Holds(more, 0, front) /\ Holds(more, Len(front), part)
  <2> HIDE DEF part
  <2>. QED BY <1>4, <1>5, Joined, HoldsBoth DEF Chained
<1>10. Holds(data, at, front) /\ Holds(data, offset, part) /\ offset \in Nat /\ offset + Len(part) = at + Len(more)
  <2> HIDE DEF part
  <2>1. Len(front) \in Nat /\ Len(part) \in Nat
    BY <1>4
  <2>2. Holds(data, at + 0, front) /\ Holds(data, at + Len(front), part)
    BY <1>4, <1>9, <2>1, HoldsWithin
  <2>. QED BY <1>9, <2>1, <2>2
<1>11. later[offset + Len(part)] = Parsed(end, found)
  BY <1>8, <1>10
<1>12. MapPair(parseKey(data, offset), fields, later) = Parsed(end, Stored(k, v, found))
  <2> HIDE DEF offset, k
  <2>1. offset \in Nat /\ Holds(data, offset, Chained(Text(k), e))
    BY <1>10
  <2>2. later[offset + Len(Chained(Text(k), e))] = Parsed(end, found)
    BY <1>11
  <2>3. MapKeys(DOMAIN fields) /\ k \in DOMAIN fields /\ IsName(k) /\ FieldRead(data, fields[k], e, v)
    BY <1>2
  <2>4. PairAhead(data, offset, fields, k, e, v)
    BY <2>1, <2>3 DEF PairAhead
  <2>5. FoundAfter(fields, later, offset + Len(Chained(Text(k), e)), end, found)
    BY <1>6, <2>2 DEF FoundAfter
  <2>. QED BY <2>4, <2>5, PairRead
<1>13. Row(data, fields, m, later)[offset] = MapPair(parseKey(data, offset), fields, later)
  <2> HIDE DEF offset
  <2>1. m # 0
    BY <1>1
  <2>. QED BY <1>10, <2>1 DEF Row
<1>. QED BY <1>7, <1>10, <1>12, <1>13

\* So the loop finds all of them, from the last one back.
LEMMA LoopRead ==
  ASSUME NEW data \in Seq(Nat), NEW at \in Nat, NEW fields, NEW keys, NEW encoded, NEW value,
         GoodPairs(data, fields, keys, encoded, value), Len(keys) > 0,
         Holds(data, at, flatten(Parts(keys, encoded)))
  PROVE  MapPairs(data, fields, Len(keys))[at]
           = Parsed(at + Len(flatten(Parts(keys, encoded))), FoundFor(keys, value, Len(keys)))
<1> DEFINE n == Len(keys)
           parts == Parts(keys, encoded)
<1>1. n \in Nat /\ n > 0 /\ Len(parts) = n /\ \A i \in 1..n : parts[i] = Chained(Text(keys[i]), encoded[keys[i]])
  BY DEF GoodPairs, Listed, Parts
<1> HIDE DEF parts
<1>2. PICK f : flatten(parts) = f[n] /\ IsFlat(f, parts, n)
  BY <1>1, Flattened
<1>3. PICK table : MapPairs(data, fields, n) = table[n] /\ RowsOf(table, data, fields, n)
  BY <1>1, LoopTable
<1> DEFINE whole == f[n]
           end == at + Len(whole)
           Start(m) == IF m = 0 THEN << >> ELSE f[m]
           Right(m) == /\ Start(n - m) \in Seq(Nat) /\ Holds(data, at, Start(n - m))
                       /\ table[m][at + Len(Start(n - m))] = Parsed(end, FoundFor(keys, value, m))
           wrong == {m \in 0..n : ~ Right(m)}
<1>4. ASSUME NEW i \in 1..n PROVE parts[i] \in Seq(Nat)
  <2>1. IsName(keys[i]) /\ encoded[keys[i]] \in Seq(Nat)
    BY DEF GoodPairs, FieldRead
  <2>2. Text(keys[i]) \in Seq(Nat)
    BY <2>1, NameRead
  <2>. QED BY <1>1, <2>1, <2>2, Joined DEF Chained
<1>5. ASSUME NEW i \in 1..n PROVE Start(i) = Chained(Start(i - 1), parts[i])
  <2>1. i - 1 \in Nat /\ i # 0 /\ (i - 1 = 0 <=> i = 1)
    BY <1>1
  <2>2. f[i] = IF i = 1 THEN parts[1] ELSE f[i - 1] \o parts[i]
    BY <1>2 DEF IsFlat
  <2>3. CASE i = 1
    <3>1. parts[1] \in Seq(Nat)
      BY <1>4, <2>3
    <3>2. << >> \o parts[1] = parts[1]
      BY <3>1
    <3>. QED BY <2>1, <2>2, <2>3, <3>2 DEF Chained
  <2>4. CASE i # 1
    BY <2>1, <2>2, <2>4 DEF Chained
  <2>. QED BY <2>3, <2>4
<1> HIDE DEF Start
<1>6. \A i \in 0..n : Start(i) \in Seq(Nat)
  <2> DEFINE odd == {i \in 0..n : Start(i) \notin Seq(Nat)}
  <2>1. SUFFICES ASSUME odd # {} PROVE FALSE
    OBVIOUS
  <2>2. PICK least \in odd : \A i \in odd : least <= i
    <3>1. odd \in SUBSET Nat
      BY <1>1
    <3> HIDE DEF odd
    <3>. QED BY <2>1, <3>1, Smallest
  <2>3. least \in 0..n /\ Start(least) \notin Seq(Nat)
    BY <2>2
  <2>4. least # 0
    <3>1. Start(0) \in Seq(Nat)
      BY DEF Start
    <3>. QED BY <2>3, <3>1
  <2>5. least \in 1..n /\ least - 1 \in 0..n /\ ~ (least <= least - 1)
    BY <1>1, <2>3, <2>4
  <2>6. Start(least - 1) \in Seq(Nat)
    BY <2>2, <2>5
  <2>7. parts[least] \in Seq(Nat) /\ Start(least) = Chained(Start(least - 1), parts[least])
    BY <1>4, <1>5, <2>5
  <2>. QED BY <2>3, <2>6, <2>7, Joined DEF Chained
<1>7. whole \in Seq(Nat) /\ end \in Nat /\ Start(n) = whole /\ Holds(data, at, whole)
  <2>1. Start(n) = whole /\ n \in 0..n
    BY <1>1 DEF Start
  <2>2. whole \in Seq(Nat)
    BY <1>6, <2>1
  <2>3. Len(whole) \in Nat
    BY <2>2
  <2>4. Holds(data, at, whole)
    BY <1>2 DEF parts
  <2>. QED BY <2>1, <2>2, <2>3, <2>4
<1>8. Right(0)
  <2>1. n - 0 = n /\ 0 \in 0..n
    BY <1>1
  <2>2. table[0] = Row(data, fields, 0, table[0 - 1])
    BY <1>3, <2>1 DEF RowsOf
  <2>3. Row(data, fields, 0, table[0 - 1])[end] = Parsed(end, << >>)
    <3> HIDE DEF end
    <3>. QED BY <1>7 DEF Row
  <2>4. FoundFor(keys, value, 0) = << >>
    BY FoundNone DEF GoodPairs
  <2>. QED BY <1>6, <1>7, <2>1, <2>2, <2>3, <2>4
<1>9. ASSUME NEW m \in 1..n, Right(m - 1) PROVE Right(m)
  <2> DEFINE i == n - m + 1
             front == Start(n - m)
             more == Start(i)
  <2>1. /\ i \in 1..n /\ n - (m - 1) = i /\ i - 1 = n - m /\ n - m \in 0..n /\ i \in 0..n /\ m \in 0..n
        /\ i = Len(keys) - m + 1
    BY <1>1
  <2>2. front \in Seq(Nat) /\ more \in Seq(Nat) /\ more = Chained(front, parts[i])
    BY <1>5, <1>6, <2>1
  <2>3. Holds(data, at, more) /\ table[m - 1][at + Len(more)] = Parsed(end, FoundFor(keys, value, m - 1))
    BY <1>9, <2>1
  <2>4. more = Chained(front, Chained(Text(keys[i]), encoded[keys[i]]))
    BY <1>1, <2>1, <2>2
  <2>5. table[m] = Row(data, fields, m, table[m - 1])
    BY <1>3, <2>1 DEF RowsOf
  <2> DEFINE later == table[m - 1]
  <2>6. later[at + Len(more)] = Parsed(end, FoundFor(keys, value, m - 1))
    BY <2>3
  <2> HIDE DEF front, more, i, later, end
  <2>7. /\ Holds(data, at, front)
        /\ Row(data, fields, m, later)[at + Len(front)] = Parsed(end, FoundFor(keys, value, m))
    <3>1. end \in Nat /\ m \in 1..Len(keys)
      BY <1>7
    <3>2. i = Len(keys) - m + 1 /\ front \in Seq(Nat) /\ more \in Seq(Nat)
      BY <2>1, <2>2
    <3>3. Holds(data, at, more)
      BY <2>3
    <3>. QED BY <2>4, <2>6, <3>1, <3>2, <3>3, LoopStep
  <2>. QED BY <2>2, <2>5, <2>7 DEF front, later
<1>10. wrong = {}
  <2> HIDE DEF Right
  <2>1. SUFFICES ASSUME wrong # {} PROVE FALSE
    OBVIOUS
  <2>2. PICK least \in wrong : \A m \in wrong : least <= m
    <3>1. wrong \in SUBSET Nat
      BY <1>1
    <3> HIDE DEF wrong
    <3>. QED BY <2>1, <3>1, Smallest
  <2>3. least \in 0..n /\ ~ Right(least)
    BY <2>2
  <2>4. least \in 1..n /\ least - 1 \in 0..n /\ ~ (least <= least - 1)
    BY <1>1, <1>8, <2>3
  <2>5. Right(least - 1)
    BY <2>2, <2>4
  <2>. QED BY <1>9, <2>3, <2>4, <2>5
<1>11. Right(n)
  <2>1. n \in 0..n
    BY <1>1
  <2> HIDE DEF Right
  <2>. QED BY <1>10, <2>1
<1>12. n - n = 0 /\ Len(Start(0)) = 0 /\ at + 0 = at
  BY <1>1 DEF Start
<1>13. table[n][at] = Parsed(end, FoundFor(keys, value, n))
  BY <1>11, <1>12
<1>. QED BY <1>2, <1>3, <1>13 DEF parts

LEMMA FlatBytes ==
  ASSUME NEW parts, NEW n \in Nat, Len(parts) = n, n > 0, \A i \in 1..n : parts[i] \in Seq(Nat)
  PROVE  flatten(parts) \in Seq(Nat)
<1>1. PICK f : flatten(parts) = f[n] /\ IsFlat(f, parts, n)
  BY Flattened
<1> DEFINE odd == {i \in 1..n : f[i] \notin Seq(Nat)}
<1>2. odd = {}
  <2>1. SUFFICES ASSUME odd # {} PROVE FALSE
    OBVIOUS
  <2>2. PICK least \in odd : \A i \in odd : least <= i
    <3>1. odd \in SUBSET Nat
      OBVIOUS
    <3> HIDE DEF odd
    <3>. QED BY <2>1, <3>1, Smallest
  <2>3. least \in 1..n /\ f[least] \notin Seq(Nat)
    BY <2>2
  <2>4. f[least] = IF least = 1 THEN parts[1] ELSE f[least - 1] \o parts[least]
    BY <1>1, <2>3 DEF IsFlat
  <2>5. least # 1
    BY <2>3, <2>4
  <2>6. least - 1 \in 1..n /\ ~ (least <= least - 1)
    BY <2>3, <2>5
  <2>7. f[least - 1] \in Seq(Nat) /\ parts[least] \in Seq(Nat)
    BY <2>2, <2>3, <2>6
  <2>8. f[least - 1] \o parts[least] \in Seq(Nat)
    BY <2>7, Joined
  <2>. QED BY <2>3, <2>4, <2>5, <2>8
<1>3. n \in 1..n
  OBVIOUS
<1>. QED BY <1>1, <1>2, <1>3

\* A map is read wherever it stands, whatever the order of its keys.
LEMMA MapRead ==
  ASSUME NEW data \in Seq(Nat), NEW offset \in Nat, NEW fields, NEW keys, NEW encoded, NEW value,
         GoodPairs(data, fields, keys, encoded, value), Len(keys) \in 1..23,
         NEW defaults, KeysFrom(keys, Len(keys)) = DOMAIN defaults
  PROVE  /\ MapOf(keys, encoded) \in Seq(Nat)
         /\ Holds(data, offset, MapOf(keys, encoded)) =>
              parseMap(data, offset, fields, defaults)
                = Parsed(offset + Len(MapOf(keys, encoded)), [k \in DOMAIN defaults |-> value[k]])
<1> DEFINE n == Len(keys)
           parts == Parts(keys, encoded)
           body == flatten(parts)
           header == Single(160 + n)
           found == FoundFor(keys, value, n)
           whole == [k \in DOMAIN defaults |-> value[k]]
<1>1. n \in Nat /\ n > 0 /\ n <= 23
  <2>1. n \in 1..23
    OBVIOUS
  <2> HIDE DEF n
  <2>. QED BY <2>1
<1>2. body \in Seq(Nat)
  <2>1. Len(parts) = n
    BY DEF GoodPairs, Listed, Parts
  <2>2. ASSUME NEW i \in 1..n PROVE parts[i] \in Seq(Nat)
    <3>1. IsName(keys[i]) /\ encoded[keys[i]] \in Seq(Nat)
      BY DEF GoodPairs, FieldRead
    <3>2. Text(keys[i]) \in Seq(Nat)
      BY <3>1, NameRead
    <3>3. parts[i] = Chained(Text(keys[i]), encoded[keys[i]])
      BY DEF GoodPairs, Listed, Parts
    <3>. QED BY <3>1, <3>2, <3>3, Joined DEF Chained
  <2> HIDE DEF parts
  <2>. QED BY <1>1, <2>1, <2>2, FlatBytes
<1>3. MapOf(keys, encoded) = Chained(header, body)
  BY DEF MapOf, Parts, Chained, flatten, Single
<1>4. header \in Seq(Nat) /\ Len(header) = 1 /\ header[1] = 160 + n
  BY <1>1 DEF Single
<1>5. found \in [DOMAIN defaults -> MapValues] /\ DOMAIN defaults \in SUBSET DOMAIN fields /\ MapKeys(DOMAIN fields)
  <2>1. n \in 0..n
    BY <1>1
  <2>2. KeysFrom(keys, n) \in SUBSET DOMAIN fields /\ found \in [KeysFrom(keys, n) -> MapValues]
    BY <2>1, FoundKind
  <2>. QED BY <2>2 DEF GoodPairs
<1>6. OrDefaults(found, defaults) = whole
  <2>1. DOMAIN found = DOMAIN defaults /\ \A k \in DOMAIN defaults : found[k] = value[k]
    BY DEF FoundFor
  <2> HIDE DEF found
  <2>. QED BY <2>1 DEF OrDefaults
<1>7. ASSUME Holds(data, offset + 1, body)
      PROVE  MapPairs(data, fields, n)[offset + 1] = Parsed(offset + 1 + Len(body), found)
  <2> DEFINE at == offset + 1
  <2>1. at \in Nat /\ Holds(data, at, body)
    BY <1>7
  <2> HIDE DEF at
  <2>2. MapPairs(data, fields, n)[at] = Parsed(at + Len(body), found)
    BY <1>1, <2>1, LoopRead
  <2>. QED BY <2>2 DEF at
<1> HIDE DEF body, header, found, whole
<1>8. Chained(header, body) \in Seq(Nat) /\ Len(Chained(header, body)) = 1 + Len(body)
  <2>1. Chained(header, body) \in Seq(Nat) /\ Len(Chained(header, body)) = Len(header) + Len(body)
    BY <1>2, <1>4, Joined DEF Chained
  <2>. QED BY <1>4, <2>1
<1>9. ASSUME Holds(data, offset, Chained(header, body))
      PROVE  parseMap(data, offset, fields, defaults) = Parsed(offset + (1 + Len(body)), whole)
  <2>1. Holds(data, offset + 0, header) /\ Holds(data, offset + 1, body)
    <3>1. Holds(Chained(header, body), 0, header) /\ Holds(Chained(header, body), 1, body)
      BY <1>2, <1>4, HoldsBoth DEF Chained
    <3>2. 0 \in Nat /\ 1 \in Nat
      OBVIOUS
    <3>3. Holds(data, offset + 0, header)
      BY <1>4, <1>8, <1>9, <3>1, <3>2, HoldsWithin
    <3>4. Holds(data, offset + 1, body)
      BY <1>2, <1>8, <1>9, <3>1, <3>2, HoldsWithin
    <3>. QED BY <3>3, <3>4
  <2>2. offset < Len(data) /\ data[offset + 1] = 160 + n
    <3>1. offset + 0 + 1 <= Len(data) /\ data[offset + 0 + 1] = header[1]
      BY <1>4, <2>1 DEF Holds
    <3>2. offset + 0 + 1 = offset + 1 /\ Len(data) \in Nat
      OBVIOUS
    <3>. QED BY <1>4, <3>1, <3>2
  <2> DEFINE map == parseMapStart(data, offset)
             got == MapPairs(data, fields, map.value)[map.newOffset]
  <2>3. map = Parsed(offset + 1, n)
    <3>1. data[offset + 1] \in 160..183 /\ data[offset + 1] - 160 = n
      <4> DEFINE byte == data[offset + 1]
      <4>1. byte = 160 + n
        BY <2>2
      <4> HIDE DEF byte, n
      <4>2. byte \in 160..183 /\ byte - 160 = n
        BY <1>1, <4>1
      <4>. QED BY <4>2 DEF byte
    <3>. QED BY <2>2, <3>1 DEF parseMapStart
  <2>4. map # Reverted /\ map.value = n /\ map.newOffset = offset + 1
    <3>1. map = Parsed(offset + 1, n) /\ n \in Nat /\ offset + 1 \in Nat
      BY <1>1, <2>3
    <3> HIDE DEF map, n
    <3>2. Parsed(offset + 1, n) # Reverted
      BY <3>1, MapAssumption DEF Parsed
    <3>. QED BY <3>1, <3>2 DEF Parsed
  <2>5. got = Parsed(offset + 1 + Len(body), found)
    BY <1>7, <2>1, <2>4
  <2>6. got # Reverted /\ got.value = found /\ got.newOffset = offset + 1 + Len(body)
    <3> DEFINE to == offset + 1 + Len(body)
    <3>1. to \in Nat
      BY <1>2
    <3>2. got = Parsed(to, found)
      BY <2>5
    <3> HIDE DEF to, got
    <3>3. Parsed(to, found) # Reverted
      BY <1>5, <3>1, FoundNotReverted
    <3>4. got # Reverted /\ got.value = found /\ got.newOffset = to
      BY <3>2, <3>3 DEF Parsed
    <3>. QED BY <3>4 DEF to
  <2>7. parseMap(data, offset, fields, defaults) = Parsed(got.newOffset, OrDefaults(got.value, defaults))
    BY <2>4, <2>6 DEF parseMap
  <2>8. offset + 1 + Len(body) = offset + (1 + Len(body))
    BY <1>2
  <2>. QED BY <1>6, <2>6, <2>7, <2>8
<1>. QED BY <1>3, <1>8, <1>9 DEF whole

\* A calldata public key, and an order of the keys of a map, each of them there.
IsWord32(word) == Canonical(word) /\ Len(word) <= 32
IsWordPair(v) == \E r, s : IsWord32(r) /\ IsWord32(s) /\ v = Chain2(r, s)
IsPublicKey(public) ==
  /\ DOMAIN public = DOMAIN NoPublicKey /\ public = [k \in DOMAIN NoPublicKey |-> public[k]]
  /\ IsWord32(public[KeyKey]) /\ IsWord32(public[ChecksumKey]) /\ IsWordPair(public[SignatureKey])
  /\ Canonical(public[ExpirationKey]) /\ Len(public[ExpirationKey]) <= 16
Orders(keys, defaults) ==
  Listed(keys) /\ Len(keys) \in 1..23 /\ {keys[i] : i \in 1..Len(keys)} = DOMAIN defaults

LEMMA KeyNames ==
  /\ DOMAIN NoPublicKey = {KeyKey, ChecksumKey, ExpirationKey, SignatureKey}
  /\ DOMAIN NoAnswer = {EpochKey, PublicKeyKey}
  /\ IsName(KeyKey) /\ IsName(ChecksumKey) /\ IsName(ExpirationKey) /\ IsName(SignatureKey)
  /\ IsName(EpochKey) /\ IsName(PublicKeyKey)
  /\ SignatureKey \notin {KeyKey, ChecksumKey, ExpirationKey}
  /\ ExpirationKey \notin {KeyKey, ChecksumKey} /\ KeyKey # ChecksumKey /\ EpochKey # PublicKeyKey
<1>1. /\ Len(KeyKey) = 3 /\ Len(ChecksumKey) = 8 /\ Len(ExpirationKey) = 10 /\ Len(SignatureKey) = 9
      /\ Len(EpochKey) = 5 /\ Len(PublicKeyKey) = 10
  <2>1. \A len, letter \in Nat : Len(Key(len, letter)) = len
    BY FilledBytes DEF Key
  <2>. QED BY <2>1 DEF KeyKey, ChecksumKey, ExpirationKey, SignatureKey, EpochKey, PublicKeyKey
<1>2. /\ IsName(KeyKey) /\ IsName(ChecksumKey) /\ IsName(ExpirationKey) /\ IsName(SignatureKey)
      /\ IsName(EpochKey) /\ IsName(PublicKeyKey)
  BY DEF IsName, KeyKey, ChecksumKey, ExpirationKey, SignatureKey, EpochKey, PublicKeyKey
<1>3. /\ SignatureKey \notin {KeyKey, ChecksumKey, ExpirationKey}
      /\ ExpirationKey \notin {KeyKey, ChecksumKey} /\ KeyKey # ChecksumKey /\ EpochKey # PublicKeyKey
  BY <1>1
<1>4. /\ DOMAIN NoPublicKey = {KeyKey, ChecksumKey, ExpirationKey, SignatureKey}
      /\ DOMAIN NoAnswer = {EpochKey, PublicKeyKey}
  BY DEF NoPublicKey, NoAnswer
<1>. QED BY <1>2, <1>3, <1>4

LEMMA EveryKeyFrom ==
  ASSUME NEW keys, NEW defaults, Orders(keys, defaults)
  PROVE  KeysFrom(keys, Len(keys)) = DOMAIN defaults
<1>1. Len(keys) \in 1..23 /\ {keys[i] : i \in 1..Len(keys)} = DOMAIN defaults
  BY DEF Orders
<1> DEFINE n == Len(keys)
<1>2. KeysFrom(keys, n) = {keys[i] : i \in (n - n + 1)..n} /\ n \in 1..23
  BY <1>1 DEF KeysFrom
<1>3. n - n + 1 = 1
  <2> HIDE DEF n
  <2>. QED BY <1>2
<1>. QED BY <1>1, <1>2, <1>3

LEMMA PublicFields ==
  ASSUME NEW data \in Seq(Nat), NEW public, IsPublicKey(public), NEW k \in DOMAIN NoPublicKey
  PROVE  IsName(k) /\ FieldRead(data, publicKeyFields(data)[k], EncodedKey(public)[k], public[k])
<1> DEFINE v == public[k]
           e == EncodedKey(public)[k]
           field == publicKeyFields(data)[k]
<1>1. IsName(k)
  BY KeyNames
<1>2. e = CASE k = SignatureKey -> <<88, 64>> \o Padded(public[k][1], 32) \o Padded(public[k][2], 32)
            [] k = ExpirationKey -> encodeUint(public[k])
            [] k \in {KeyKey, ChecksumKey} -> <<88, 32>> \o Padded(public[k], 32)
  BY DEF EncodedKey, IsPublicKey
<1>3. field = [at \in Nat |-> IF k = SignatureKey THEN parseSignature(data, at) ELSE parseUint(data, at)]
  BY DEF publicKeyFields
<1>4. CASE k = SignatureKey
  <2>1. PICK r, s : IsWord32(r) /\ IsWord32(s) /\ v = Chain2(r, s)
    BY <1>4 DEF IsPublicKey, IsWordPair
  <2>2. k # ExpirationKey /\ k \notin {KeyKey, ChecksumKey}
    BY <1>4, KeyNames
  <2>3. v[1] = r /\ v[2] = s
    BY <2>1 DEF Chain2
  <2>4. e = <<88, 64>> \o Padded(r, 32) \o Padded(s, 32)
    BY <1>2, <1>4, <2>2, <2>3
  <2>5. e = SignatureOf(r, s)
    BY <2>4 DEF SignatureOf, Chained, Chain2
  <2>6. /\ Canonical(r) /\ Canonical(s) /\ Len(r) <= 32 /\ Len(s) <= 32
    BY <2>1 DEF IsWord32
  <2>7. /\ e \in Seq(Nat) /\ Len(e) = 66
        /\ \A at \in Nat : Holds(data, at, e) => parseSignature(data, at) = Parsed(at + 66, Chain2(r, s))
    BY <2>5, <2>6, SignatureRead
  <2>8. v \in MapValues
    <3>1. r \in Seq(Nat) /\ s \in Seq(Nat)
      BY <2>6 DEF Canonical
    <3>2. v \in Seq(Seq(Nat))
      BY <2>1, <3>1 DEF Chain2
    <3>. QED BY <3>2 DEF MapValues, FieldValues
  <2>9. \A at \in Nat : field[at] = parseSignature(data, at)
    BY <1>3, <1>4
  <2> HIDE DEF v, e, field
  <2>10. \A at \in Nat : Holds(data, at, e) => field[at] = Parsed(at + Len(e), v)
    BY <2>1, <2>7, <2>9
  <2>11. FieldRead(data, field, e, v)
    BY <2>7, <2>8, <2>10 DEF FieldRead
  <2>. QED BY <1>1, <2>11 DEF v, e, field
<1>5. CASE k = ExpirationKey
  <2>1. k # SignatureKey /\ k \notin {KeyKey, ChecksumKey}
    BY <1>5, KeyNames
  <2>2. e = encodeUint(v) /\ Canonical(v) /\ Len(v) <= 16
    BY <1>2, <1>5, <2>1 DEF IsPublicKey
  <2>3. \A at \in Nat : field[at] = parseUint(data, at)
    BY <1>3, <2>1
  <2> HIDE DEF v, e, field
  <2>4. Integer(e, v) /\ 0 \in Nat
    BY <2>2, UintIsInteger
  <2>5. e \in Seq(Nat) /\ v \in MapValues
    <3>1. e \in Seq(Nat)
      BY <2>2, <2>4, IntegerRead
    <3>. QED BY <2>2, <3>1 DEF Canonical, MapValues, FieldValues
  <2>6. ASSUME NEW at \in Nat, Holds(data, at, e) PROVE field[at] = Parsed(at + Len(e), v)
    <3>1. parseUint(data, at) = Parsed(at + Len(e), v)
      BY <2>2, <2>4, <2>6, IntegerRead
    <3>. QED BY <2>3, <3>1
  <2>7. FieldRead(data, field, e, v)
    BY <2>5, <2>6 DEF FieldRead
  <2>. QED BY <1>1, <2>7 DEF v, e, field
<1>6. CASE k \in {KeyKey, ChecksumKey}
  <2>1. k # SignatureKey /\ k # ExpirationKey
    BY <1>6, KeyNames
  <2>2. e = <<88, 32>> \o Padded(v, 32) /\ Canonical(v) /\ Len(v) <= 32
    BY <1>2, <1>6, <2>1 DEF IsPublicKey, IsWord32
  <2>3. \A at \in Nat : field[at] = parseUint(data, at)
    BY <1>3, <2>1
  <2> HIDE DEF v, e, field
  <2>4. e = StringOf(v)
    BY <2>2 DEF StringOf, Chained, Chain2
  <2>5. /\ e \in Seq(Nat) /\ Len(e) = 34
        /\ \A at \in Nat : Holds(data, at, e) => parseUint(data, at) = Parsed(at + 34, v)
    BY <2>2, <2>4, WordStringRead
  <2>6. v \in MapValues
    BY <2>2 DEF Canonical, MapValues, FieldValues
  <2>7. \A at \in Nat : Holds(data, at, e) => field[at] = Parsed(at + Len(e), v)
    BY <2>3, <2>5
  <2>8. FieldRead(data, field, e, v)
    BY <2>5, <2>6, <2>7 DEF FieldRead
  <2>. QED BY <1>1, <2>8 DEF v, e, field
<1>7. k \in {KeyKey, ChecksumKey, ExpirationKey, SignatureKey}
  BY KeyNames
<1>. QED BY <1>4, <1>5, <1>6, <1>7

LEMMA InnerRead ==
  ASSUME NEW data \in Seq(Nat), NEW public, IsPublicKey(public), NEW keys, Orders(keys, NoPublicKey)
  PROVE  /\ MapOf(keys, EncodedKey(public)) \in Seq(Nat)
         /\ \A at \in Nat : Holds(data, at, MapOf(keys, EncodedKey(public))) =>
              parsePublicKeyInner(data, at) = Parsed(at + Len(MapOf(keys, EncodedKey(public))), public)
<1> DEFINE fields == publicKeyFields(data)
           encoded == EncodedKey(public)
<1>1. Listed(keys) /\ Len(keys) \in 1..23 /\ {keys[i] : i \in 1..Len(keys)} = DOMAIN NoPublicKey
  BY DEF Orders
<1>2. DOMAIN fields = DOMAIN NoPublicKey
  BY DEF publicKeyFields
<1>3. \A k \in DOMAIN NoPublicKey : IsName(k) /\ FieldRead(data, fields[k], encoded[k], public[k])
  BY PublicFields
<1> HIDE DEF fields, encoded
<1>4. ASSUME NEW i \in 1..Len(keys)
      PROVE  /\ keys[i] \in DOMAIN fields /\ IsName(keys[i])
             /\ FieldRead(data, fields[keys[i]], encoded[keys[i]], public[keys[i]])
  <2>1. keys[i] \in DOMAIN NoPublicKey
    BY <1>1
  <2>. QED BY <1>2, <1>3, <2>1
<1>5. GoodPairs(data, fields, keys, encoded, public)
  BY <1>1, <1>2, <1>4 DEF GoodPairs, MapKeys
<1>6. KeysFrom(keys, Len(keys)) = DOMAIN NoPublicKey
  BY EveryKeyFrom
<1>7. [k \in DOMAIN NoPublicKey |-> public[k]] = public
  BY DEF IsPublicKey
<1>8. ASSUME NEW at \in Nat
      PROVE  /\ MapOf(keys, encoded) \in Seq(Nat)
             /\ Holds(data, at, MapOf(keys, encoded)) =>
                  parseMap(data, at, fields, NoPublicKey)
                    = Parsed(at + Len(MapOf(keys, encoded)), [k \in DOMAIN NoPublicKey |-> public[k]])
  BY <1>1, <1>5, <1>6, MapRead
<1>9. MapOf(keys, encoded) \in Seq(Nat)
  <2>1. 0 \in Nat
    OBVIOUS
  <2>. QED BY <1>8, <2>1
<1>10. ASSUME NEW at \in Nat, Holds(data, at, MapOf(keys, encoded))
       PROVE  parsePublicKeyInner(data, at) = Parsed(at + Len(MapOf(keys, encoded)), public)
  <2>1. parseMap(data, at, fields, NoPublicKey) = Parsed(at + Len(MapOf(keys, encoded)), public)
    BY <1>7, <1>8, <1>10
  <2>. QED BY <2>1 DEF parsePublicKeyInner, fields
<1>. QED BY <1>9, <1>10 DEF encoded

LEMMA PublicValue ==
  ASSUME NEW public, IsPublicKey(public)
  PROVE  public \in MapValues
<1>1. ASSUME NEW k \in DOMAIN NoPublicKey PROVE public[k] \in FieldValues
  <2>1. CASE k = SignatureKey
    <3>1. PICK r, s : IsWord32(r) /\ IsWord32(s) /\ public[k] = Chain2(r, s)
      BY <2>1 DEF IsPublicKey, IsWordPair
    <3>2. r \in Seq(Nat) /\ s \in Seq(Nat)
      BY <3>1 DEF IsWord32, Canonical
    <3>3. Chain2(r, s) \in Seq(Seq(Nat))
      BY <3>2 DEF Chain2
    <3>. QED BY <3>1, <3>3 DEF FieldValues
  <2>2. CASE k # SignatureKey
    <3>1. k \in {KeyKey, ChecksumKey, ExpirationKey}
      BY <2>2, KeyNames
    <3>2. public[k] \in Seq(Nat)
      BY <3>1 DEF IsPublicKey, IsWord32, Canonical
    <3>. QED BY <3>2 DEF FieldValues
  <2>. QED BY <2>1, <2>2
<1>2. public = [k \in DOMAIN NoPublicKey |-> public[k]]
  BY DEF IsPublicKey
<1> DEFINE S == DOMAIN NoPublicKey
<1>3. \A k \in S : public[k] \in FieldValues
  BY <1>1
<1>4. public = [k \in S |-> public[k]]
  BY <1>2
<1> HIDE DEF S
<1>5. public \in [S -> FieldValues]
  BY <1>3, <1>4
<1>. QED BY <1>5 DEF MapValues, S

\* The values of the answer, and how they are encoded.
AnswerValues(epoch, public) == [k \in DOMAIN NoAnswer |-> IF k = EpochKey THEN epoch ELSE public]
AnswerParts(epoch, public, inner) ==
  [k \in DOMAIN NoAnswer |-> IF k = EpochKey THEN encodeUint(epoch) ELSE MapOf(inner, EncodedKey(public))]

LEMMA AnswerFields ==
  ASSUME NEW data \in Seq(Nat), NEW epoch, Canonical(epoch), Len(epoch) <= 16,
         NEW public, IsPublicKey(public), NEW inner, Orders(inner, NoPublicKey), NEW k \in DOMAIN NoAnswer
  PROVE  /\ IsName(k)
         /\ FieldRead(data, answerFields(data)[k], AnswerParts(epoch, public, inner)[k],
                      AnswerValues(epoch, public)[k])
<1> DEFINE v == AnswerValues(epoch, public)[k]
           e == AnswerParts(epoch, public, inner)[k]
           field == answerFields(data)[k]
<1>1. IsName(k)
  BY KeyNames
<1>2. /\ e = IF k = EpochKey THEN encodeUint(epoch) ELSE MapOf(inner, EncodedKey(public))
      /\ v = IF k = EpochKey THEN epoch ELSE public
  BY DEF AnswerParts, AnswerValues
<1>3. field = [at \in Nat |-> IF k = EpochKey THEN parseUint(data, at) ELSE parsePublicKeyInner(data, at)]
  BY DEF answerFields
<1>4. CASE k = EpochKey
  <2>1. e = encodeUint(v) /\ v = epoch
    BY <1>2, <1>4
  <2>2. \A at \in Nat : field[at] = parseUint(data, at)
    BY <1>3, <1>4
  <2> HIDE DEF v, e, field
  <2>3. Integer(e, v) /\ 0 \in Nat /\ Canonical(v)
    BY <2>1, UintIsInteger
  <2>4. e \in Seq(Nat) /\ v \in MapValues
    <3>1. e \in Seq(Nat)
      BY <2>3, IntegerRead
    <3>. QED BY <2>3, <3>1 DEF Canonical, MapValues, FieldValues
  <2>5. ASSUME NEW at \in Nat, Holds(data, at, e) PROVE field[at] = Parsed(at + Len(e), v)
    <3>1. parseUint(data, at) = Parsed(at + Len(e), v)
      BY <2>3, <2>5, IntegerRead
    <3>. QED BY <2>2, <3>1
  <2>6. FieldRead(data, field, e, v)
    BY <2>4, <2>5 DEF FieldRead
  <2>. QED BY <1>1, <2>6 DEF v, e, field
<1>5. CASE k # EpochKey
  <2>1. e = MapOf(inner, EncodedKey(public)) /\ v = public
    BY <1>2, <1>5
  <2>2. \A at \in Nat : field[at] = parsePublicKeyInner(data, at)
    BY <1>3, <1>5
  <2> HIDE DEF v, e, field
  <2>3. /\ e \in Seq(Nat)
        /\ \A at \in Nat : Holds(data, at, e) => parsePublicKeyInner(data, at) = Parsed(at + Len(e), v)
    BY <2>1, InnerRead
  <2>4. v \in MapValues
    BY <2>1, PublicValue
  <2>5. \A at \in Nat : Holds(data, at, e) => field[at] = Parsed(at + Len(e), v)
    BY <2>2, <2>3
  <2>6. FieldRead(data, field, e, v)
    BY <2>3, <2>4, <2>5 DEF FieldRead
  <2>. QED BY <1>1, <2>6 DEF v, e, field
<1>. QED BY <1>4, <1>5

LEMMA AnswerRead ==
  ASSUME NEW data \in Seq(Nat), NEW epoch, Canonical(epoch), Len(epoch) <= 16,
         NEW public, IsPublicKey(public), NEW inner, Orders(inner, NoPublicKey),
         NEW outer, Orders(outer, NoAnswer)
  PROVE  /\ MapOf(outer, AnswerParts(epoch, public, inner)) \in Seq(Nat)
         /\ Holds(data, 0, MapOf(outer, AnswerParts(epoch, public, inner))) =>
              parseCallDataPublicKey(data)
                = Parsed(Len(MapOf(outer, AnswerParts(epoch, public, inner))), AnswerValues(epoch, public))
<1> DEFINE fields == answerFields(data)
           encoded == AnswerParts(epoch, public, inner)
           values == AnswerValues(epoch, public)
<1>1. Listed(outer) /\ Len(outer) \in 1..23 /\ {outer[i] : i \in 1..Len(outer)} = DOMAIN NoAnswer
  BY DEF Orders
<1>2. DOMAIN fields = DOMAIN NoAnswer
  BY DEF answerFields
<1>3. \A k \in DOMAIN NoAnswer : IsName(k) /\ FieldRead(data, fields[k], encoded[k], values[k])
  BY AnswerFields
<1>4. [k \in DOMAIN NoAnswer |-> values[k]] = values
  BY DEF AnswerValues
<1> HIDE DEF fields, encoded, values
<1>5. ASSUME NEW i \in 1..Len(outer)
      PROVE  /\ outer[i] \in DOMAIN fields /\ IsName(outer[i])
             /\ FieldRead(data, fields[outer[i]], encoded[outer[i]], values[outer[i]])
  <2>1. outer[i] \in DOMAIN NoAnswer
    BY <1>1
  <2>. QED BY <1>2, <1>3, <2>1
<1>6. GoodPairs(data, fields, outer, encoded, values)
  BY <1>1, <1>2, <1>5 DEF GoodPairs, MapKeys
<1>7. KeysFrom(outer, Len(outer)) = DOMAIN NoAnswer
  BY EveryKeyFrom
<1> DEFINE at == 0
           whole == [k \in DOMAIN NoAnswer |-> values[k]]
<1>8. at \in Nat
  OBVIOUS
<1> HIDE DEF at
<1>9. /\ MapOf(outer, encoded) \in Seq(Nat)
      /\ Holds(data, at, MapOf(outer, encoded)) =>
           parseMap(data, at, fields, NoAnswer) = Parsed(at + Len(MapOf(outer, encoded)), whole)
  BY <1>1, <1>6, <1>7, <1>8, MapRead
<1>10. 0 + Len(MapOf(outer, encoded)) = Len(MapOf(outer, encoded))
  BY <1>9
<1>. QED BY <1>4, <1>9, <1>10 DEF parseCallDataPublicKey, at, fields, encoded, values

\* Every calldata public key is found, with its epoch, whatever the order of the two
\* maps (Subcall.sol:577-659).
THEOREM EveryKeyFound ==
  ASSUME NEW epoch, Canonical(epoch), Len(epoch) <= 16, NEW public, IsPublicKey(public),
         NEW outer, Orders(outer, NoAnswer), NEW inner, Orders(inner, NoPublicKey)
  PROVE  KeyFound(epoch, public, EncodedAnswer(epoch, public, outer, inner))
<1> DEFINE data == EncodedAnswer(epoch, public, outer, inner)
           got == parseCallDataPublicKey(data)
           values == AnswerValues(epoch, public)
<1>1. data = MapOf(outer, AnswerParts(epoch, public, inner))
  BY DEF EncodedAnswer, AnswerParts
<1>2. data \in Seq(Nat)
  <2>1. << >> \in Seq(Nat)
    OBVIOUS
  <2>2. MapOf(outer, AnswerParts(epoch, public, inner)) \in Seq(Nat)
    BY <2>1, AnswerRead
  <2>. QED BY <1>1, <2>2
<1>3. values[EpochKey] = epoch /\ values[PublicKeyKey] = public
  BY KeyNames DEF AnswerValues
<1>4. values \in [DOMAIN NoAnswer -> MapValues]
  <2>1. epoch \in MapValues /\ public \in MapValues
    BY PublicValue DEF Canonical, MapValues, FieldValues
  <2> DEFINE S == DOMAIN NoAnswer
  <2>2. values = [k \in S |-> IF k = EpochKey THEN epoch ELSE public]
    BY DEF AnswerValues
  <2> HIDE DEF S, values
  <2>3. values \in [S -> MapValues]
    BY <2>1, <2>2
  <2>. QED BY <2>3 DEF S
<1> HIDE DEF data, values
<1>5. Len(data) \in Nat /\ Holds(data, 0, data)
  BY <1>2 DEF Holds
<1>6. got = Parsed(Len(data), values)
  BY <1>1, <1>2, <1>5, AnswerRead DEF values
<1>7. Parsed(Len(data), values) # Reverted
  <2> DEFINE keys == DOMAIN NoAnswer
  <2>1. MapKeys(keys) /\ keys \in SUBSET keys /\ values \in [keys -> MapValues]
    BY <1>4 DEF MapKeys
  <2> HIDE DEF keys
  <2>. QED BY <1>5, <2>1, FoundNotReverted
<1>8. got # Reverted /\ got.newOffset = Len(data) /\ got.value = values
  BY <1>6, <1>7 DEF Parsed
<1>. QED BY <1>3, <1>8 DEF KeyFound, data

\* The ABI encoding of the answer: a status, an offset, a length, and the data.
LEMMA FrontHolds ==
  ASSUME NEW s \in Seq(Nat), NEW t \in Seq(Nat), NEW at \in Nat, NEW part \in Seq(Nat), Holds(s, at, part)
  PROVE  Holds(Chained(s, t), at, part)
<1>1. s \o t \in Seq(Nat) /\ Holds(s \o t, 0, s) /\ 0 \in Nat
  BY Joined, HoldsBoth
<1>2. Holds(s \o t, 0 + at, part)
  BY <1>1, HoldsWithin
<1>. QED BY <1>2 DEF Chained

LEMMA NextHolds ==
  ASSUME NEW s \in Seq(Nat), NEW t \in Seq(Nat)
  PROVE  Chained(s, t) \in Seq(Nat) /\ Len(Chained(s, t)) = Len(s) + Len(t) /\ Holds(Chained(s, t), Len(s), t)
BY Joined, HoldsBoth DEF Chained

FiveChained(a, b, c, d, z) == Chained(Chained(Chained(Chained(a, b), c), d), z)

LEMMA FiveHold ==
  ASSUME NEW a \in Seq(Nat), NEW b \in Seq(Nat), NEW c \in Seq(Nat), NEW d \in Seq(Nat), NEW z \in Seq(Nat),
         NEW first, first = Len(a), NEW second, second = first + Len(b), NEW third, third = second + Len(c)
  PROVE  /\ FiveChained(a, b, c, d, z) \in Seq(Nat)
         /\ Len(FiveChained(a, b, c, d, z)) >= third + Len(d)
         /\ Holds(FiveChained(a, b, c, d, z), 0, a) /\ Holds(FiveChained(a, b, c, d, z), first, b)
         /\ Holds(FiveChained(a, b, c, d, z), second, c) /\ Holds(FiveChained(a, b, c, d, z), third, d)
<1> DEFINE two == Chained(a, b)
           three == Chained(two, c)
           four == Chained(three, d)
           five == Chained(four, z)
<1>0. first \in Nat /\ second \in Nat /\ third \in Nat /\ 0 \in Nat /\ Len(d) \in Nat /\ Len(z) \in Nat
  OBVIOUS
<1>1. two \in Seq(Nat) /\ Len(two) = second /\ Holds(two, first, b) /\ Holds(two, 0, a)
  <2>1. two \in Seq(Nat) /\ Len(two) = Len(a) + Len(b) /\ Holds(two, Len(a), b)
    BY NextHolds
  <2>2. Holds(two, 0, a)
    BY HoldsBoth DEF Chained
  <2>. QED BY <2>1, <2>2
<1> HIDE DEF two
<1>2. /\ three \in Seq(Nat) /\ Len(three) = third /\ Holds(three, second, c)
      /\ Holds(three, first, b) /\ Holds(three, 0, a)
  <2>1. three \in Seq(Nat) /\ Len(three) = Len(two) + Len(c) /\ Holds(three, Len(two), c)
    BY <1>1, NextHolds
  <2>2. Holds(three, first, b) /\ Holds(three, 0, a)
    BY <1>0, <1>1, FrontHolds
  <2>. QED BY <1>1, <2>1, <2>2
<1> HIDE DEF three
<1>3. /\ four \in Seq(Nat) /\ Len(four) = third + Len(d) /\ Holds(four, third, d)
      /\ Holds(four, second, c) /\ Holds(four, first, b) /\ Holds(four, 0, a)
  <2>1. four \in Seq(Nat) /\ Len(four) = Len(three) + Len(d) /\ Holds(four, Len(three), d)
    BY <1>2, NextHolds
  <2>2. Holds(four, second, c) /\ Holds(four, first, b) /\ Holds(four, 0, a)
    BY <1>0, <1>2, FrontHolds
  <2>. QED BY <1>2, <2>1, <2>2
<1> HIDE DEF four
<1>4. five \in Seq(Nat) /\ Len(five) = Len(four) + Len(z)
  BY <1>3, NextHolds
<1>5. Holds(five, third, d) /\ Holds(five, second, c) /\ Holds(five, first, b) /\ Holds(five, 0, a)
  BY <1>0, <1>3, FrontHolds
<1>6. Len(five) >= third + Len(d)
  BY <1>0, <1>3, <1>4
<1>. QED BY <1>4, <1>5, <1>6 DEF FiveChained, four, three, two

\* A word in 32 bytes.
LEMMA Word32Padded ==
  ASSUME NEW word, IsWord32(word)
  PROVE  Padded(word, 32) \in Seq(Nat) /\ Len(Padded(word, 32)) = 32 /\ Word(Padded(word, 32)) = word
<1> DEFINE n == 32
<1>1. Canonical(word) /\ Len(word) <= n /\ n \in Nat
  BY DEF IsWord32
<1> HIDE DEF n
<1>2. Padded(word, n) \in Seq(Nat) /\ Len(Padded(word, n)) = n /\ Word(Padded(word, n)) = word
  BY <1>1, PaddedWord
<1>. QED BY <1>2 DEF n

\* What an answer tells, before its data and with all of it.
AnswerHead(bytes, status, n) ==
  /\ bytes \in Seq(Nat) /\ Holds(bytes, 0, Padded(status, 32))
  /\ Holds(bytes, 32, Padded(<<64>>, 32)) /\ Holds(bytes, 64, Padded(BigEndian(n), 32))

LEMMA FiveWords ==
  ASSUME NEW a, NEW b, NEW c, NEW d \in Seq(Nat), NEW z \in Seq(Nat), NEW w,
         a \in Seq(Nat) /\ Len(a) = w, b \in Seq(Nat) /\ Len(b) = w, c \in Seq(Nat) /\ Len(c) = w
  PROVE  /\ FiveChained(a, b, c, d, z) \in Seq(Nat) /\ Len(FiveChained(a, b, c, d, z)) >= w + w + w + Len(d)
         /\ Holds(FiveChained(a, b, c, d, z), 0, a) /\ Holds(FiveChained(a, b, c, d, z), w, b)
         /\ Holds(FiveChained(a, b, c, d, z), w + w, c) /\ Holds(FiveChained(a, b, c, d, z), w + w + w, d)
<1>1. w = Len(a) /\ w + w = w + Len(b) /\ w + w + w = w + w + Len(c)
  OBVIOUS
<1>. QED BY <1>1, FiveHold

LEMMA PadIsNat ==
  ASSUME NEW n \in Nat
  PROVE  (32 - (n % 32)) % 32 \in Nat
<1>1. n % 32 \in 0..31
  OBVIOUS
<1> DEFINE m == 32 - (n % 32)
<1>2. m \in Int
  BY <1>1
<1> HIDE DEF m
<1>3. m % 32 \in Nat
  BY <1>2
<1>. QED BY <1>3 DEF m

LEMMA AnswerShape ==
  ASSUME NEW status, IsWord32(status), NEW data \in Seq(Nat), NEW n, n = Len(data), n < 4294967296
  PROVE  /\ AnswerHead(AbiAnswer(status, data), status, n) /\ Holds(AbiAnswer(status, data), 96, data)
         /\ Len(AbiAnswer(status, data)) >= 96 + n
<1> DEFINE a == Padded(status, 32)
           b == Padded(<<64>>, 32)
           c == Padded(BigEndian(n), 32)
           rest == (32 - (n % 32)) % 32
           z == Filled(rest, 0)
           whole == FiveChained(a, b, c, data, z)
<1>1. n \in Nat
  OBVIOUS
<1>2. a \in Seq(Nat) /\ Len(a) = 32
  BY Word32Padded
<1>3. b \in Seq(Nat) /\ Len(b) = 32
  <2>1. IsWord32(<<64>>)
    BY DEF IsWord32, Canonical
  <2>. QED BY <2>1, Word32Padded
<1>4. c \in Seq(Nat) /\ Len(c) = 32
  <2>1. Canonical(BigEndian(n)) /\ Len(BigEndian(n)) <= 4
    BY <1>1, WordOfNumber DEF IsWordOf
  <2>2. IsWord32(BigEndian(n))
    BY <2>1 DEF Canonical, IsWord32
  <2>. QED BY <2>2, Word32Padded
<1>5. z \in Seq(Nat)
  <2>1. rest \in Nat /\ 0 \in Nat
    BY <1>1, PadIsNat
  <2> HIDE DEF rest
  <2>. QED BY <2>1, FilledBytes
<1>6. AbiAnswer(status, data) = whole
  BY DEF AbiAnswer, FiveChained, Chained
<1> HIDE DEF a, b, c, z
<1>7. /\ whole \in Seq(Nat) /\ Len(whole) >= 96 + n /\ Holds(whole, 0, a) /\ Holds(whole, 32, b)
      /\ Holds(whole, 64, c) /\ Holds(whole, 96, data)
  <2> DEFINE w == 32
  <2>1. a \in Seq(Nat) /\ Len(a) = w /\ b \in Seq(Nat) /\ Len(b) = w /\ c \in Seq(Nat) /\ Len(c) = w
    BY <1>2, <1>3, <1>4
  <2>2. z \in Seq(Nat)
    BY <1>5
  <2> HIDE DEF w
  <2>3. /\ whole \in Seq(Nat) /\ Len(whole) >= w + w + w + Len(data) /\ Holds(whole, 0, a) /\ Holds(whole, w, b)
        /\ Holds(whole, w + w, c) /\ Holds(whole, w + w + w, data)
    BY <2>1, <2>2, FiveWords
  <2>4. w + w = 64 /\ w + w + w = 96
    BY DEF w
  <2>. QED BY <2>3, <2>4 DEF w
<1>. QED BY <1>6, <1>7 DEF AnswerHead, a, b, c

\* A word of 32 bytes is read where it stands.
LEMMA WordSliced ==
  ASSUME NEW bytes \in Seq(Nat), NEW at \in Nat, NEW word, IsWord32(word), Holds(bytes, at, Padded(word, 32))
  PROVE  Word(Slice(bytes, at, 32)) = word
<1> DEFINE part == Padded(word, 32)
           n == 32
<1>1. part \in Seq(Nat) /\ Len(part) = 32 /\ Word(part) = word
  BY Word32Padded
<1>2. n = Len(part) /\ Holds(bytes, at, part)
  BY <1>1
<1> HIDE DEF part, n
<1>3. Slice(bytes, at, n) = part
  <2>1. part \in Seq(Nat)
    BY <1>1
  <2>. QED BY <1>2, <2>1, HoldsSlice
<1>. QED BY <1>1, <1>3 DEF n

LEMMA HeadTells ==
  ASSUME NEW bytes, NEW status, IsWord32(status), NEW n \in Nat, n < 4294967296, AnswerHead(bytes, status, n)
  PROVE  /\ parseBigIntFromByteArray(Slice(bytes, 0, 32)) = status
         /\ Value(parseBigIntFromByteArray(Slice(bytes, 32, 32))) = 64
         /\ Value(parseBigIntFromByteArray(Slice(bytes, 64, 32))) = n
<1>1. bytes \in Seq(Nat) /\ 0 \in Nat /\ 32 \in Nat /\ 64 \in Nat
  BY DEF AnswerHead
<1>2. Word(Slice(bytes, 0, 32)) = status
  BY <1>1, WordSliced DEF AnswerHead
<1>3. Word(Slice(bytes, 32, 32)) = <<64>>
  <2>1. IsWord32(<<64>>)
    BY DEF IsWord32, Canonical
  <2>. QED BY <1>1, <2>1, WordSliced DEF AnswerHead
<1>4. Word(Slice(bytes, 64, 32)) = BigEndian(n)
  <2>1. Canonical(BigEndian(n)) /\ Len(BigEndian(n)) <= 4
    BY WordOfNumber DEF IsWordOf
  <2>2. IsWord32(BigEndian(n))
    BY <2>1 DEF IsWord32, Canonical
  <2>. QED BY <1>1, <2>2, WordSliced DEF AnswerHead
<1>5. Value(<<64>>) = 64
  <2> DEFINE m == 64
  <2>1. m \in Nat /\ m # 0
    OBVIOUS
  <2> HIDE DEF m
  <2>2. Value(<<m>>) = m
    BY <2>1, ValueOfOne
  <2>. QED BY <2>2 DEF m
<1>6. Value(BigEndian(n)) = n
  BY WordOfNumber DEF IsWordOf
<1>. QED BY <1>2, <1>3, <1>4, <1>5, <1>6 DEF parseBigIntFromByteArray

LEMMA WholeAnswer ==
  ASSUME NEW bytes, NEW status, IsWord32(status), NEW data \in Seq(Nat), NEW n, n = Len(data), n < 4294967296,
         AnswerHead(bytes, status, n), Holds(bytes, 96, data), Len(bytes) >= 96 + n
  PROVE  runtimePublicKeyCbor(bytes) = IF status = << >> THEN data ELSE AbiDecodeError
<1>1. n \in Nat /\ bytes \in Seq(Nat) /\ Len(bytes) \in Nat /\ status \in Seq(Nat)
  BY DEF AnswerHead, IsWord32, Canonical
<1>2. /\ parseBigIntFromByteArray(Slice(bytes, 0, 32)) = status
      /\ Value(parseBigIntFromByteArray(Slice(bytes, 32, 32))) = 64
      /\ Value(parseBigIntFromByteArray(Slice(bytes, 64, 32))) = n
  <2>1. n \in Nat
    BY <1>1
  <2>. QED BY <2>1, HeadTells
<1>3. Slice(bytes, 96, n) = data
  <2> DEFINE at == 96
  <2>1. at \in Nat /\ Holds(bytes, at, data)
    OBVIOUS
  <2> HIDE DEF at
  <2>2. Slice(bytes, at, n) = data
    BY <1>1, <2>1, HoldsSlice
  <2>. QED BY <2>2 DEF at
<1>4. parseAbiEncodedUintBytes(bytes) = <<status, data>>
  <2>1. 64 + 32 = 96 /\ ~ (Len(bytes) < 32 * 3 \/ Len(bytes) < 64 + 32 \/ Len(bytes) < 64 + 32 + n)
    BY <1>1
  <2>2. ~ (Len(bytes) < 32 * 3 \/ Len(bytes) < 96 \/ Len(bytes) < 96 + n)
    BY <2>1
  <2>. QED BY <1>2, <1>3, <2>1, <2>2 DEF parseAbiEncodedUintBytes
<1>5. <<status, data>> # AbiDecodeError
  <2> DEFINE both == <<status, data>>
  <2>1. both \in Seq(Seq(Nat))
    BY <1>1
  <2> HIDE DEF both
  <2>2. both # AbiDecodeError
    BY <2>1, AbiAssumption
  <2>. QED BY <2>2 DEF both
<1>6. bytes # << >>
  BY <1>1
<1> DEFINE parsed == parseAbiEncodedUintBytes(bytes)
<1>7. parsed # AbiDecodeError /\ parsed[1] = status /\ parsed[2] = data
  BY <1>4, <1>5
<1>. QED BY <1>6, <1>7 DEF runtimePublicKeyCbor

LEMMA ShortAnswer ==
  ASSUME NEW bytes, NEW status, IsWord32(status), NEW n \in Nat, n < 4294967296,
         AnswerHead(bytes, status, n)
  PROVE  Len(bytes) < 96 + n => runtimePublicKeyCbor(bytes) = AbiDecodeError
<1>1. /\ Value(parseBigIntFromByteArray(Slice(bytes, 32, 32))) = 64
      /\ Value(parseBigIntFromByteArray(Slice(bytes, 64, 32))) = n
  BY HeadTells
<1>2. ASSUME Len(bytes) < 96 + n
      PROVE  runtimePublicKeyCbor(bytes) = AbiDecodeError
  <2>1. Len(bytes) < 64 + 32 + n
    BY <1>2
  <2>2. parseAbiEncodedUintBytes(bytes) = AbiDecodeError
    BY <1>1, <2>1 DEF parseAbiEncodedUintBytes
  <2>. QED BY <2>2 DEF runtimePublicKeyCbor
<1>. QED BY <1>2

LEMMA CutAnswer ==
  ASSUME NEW status, IsWord32(status), NEW n \in Nat, n < 4294967296, NEW whole, AnswerHead(whole, status, n),
         Len(whole) >= 96 + n, NEW cut \in 0..(95 + n)
  PROVE  runtimePublicKeyCbor(SubSeq(whole, 1, cut)) = AbiDecodeError
<1> DEFINE bytes == SubSeq(whole, 1, cut)
<1>1. whole \in Seq(Nat) /\ Len(whole) \in Nat /\ cut \in 0..Len(whole)
  BY DEF AnswerHead
<1>2. bytes \in Seq(Nat) /\ Len(bytes) = cut
  BY <1>1
<1>3. CASE cut < 96
  <2>1. Len(bytes) < 32 * 3
    BY <1>2, <1>3
  <2>2. parseAbiEncodedUintBytes(bytes) = AbiDecodeError
    BY <2>1 DEF parseAbiEncodedUintBytes
  <2>. QED BY <2>2 DEF runtimePublicKeyCbor
<1>4. CASE ~ (cut < 96)
  <2>1. AnswerHead(bytes, status, n)
    <3> HIDE DEF bytes
    <3>1. ASSUME NEW at \in Nat, at + 32 <= 96, NEW word, IsWord32(word), Holds(whole, at, Padded(word, 32))
          PROVE  Holds(bytes, at, Padded(word, 32))
      <4> DEFINE part == Padded(word, 32)
      <4>1. part \in Seq(Nat) /\ Len(part) = 32
        BY <3>1, Word32Padded
      <4>2. at + Len(part) <= cut
        <5>1. at \in Nat /\ at + 32 <= 96 /\ cut \in Nat /\ ~ (cut < 96)
          BY <1>1, <1>4, <3>1
        <5>2. Len(part) = 32
          BY <4>1
        <5> HIDE DEF part
        <5>. QED BY <5>1, <5>2
      <4>3. Holds(whole, at, part)
        BY <3>1
      <4> HIDE DEF part
      <4>4. Holds(bytes, at, part)
        <5>1. part \in Seq(Nat) /\ at \in Nat /\ whole \in Seq(Nat) /\ cut \in 0..Len(whole)
          BY <1>1, <3>1, <4>1
        <5>2. at + Len(part) <= cut => Holds(SubSeq(whole, 1, cut), at, part)
          BY <4>3, <5>1, CutShort
        <5>. QED BY <4>2, <5>2 DEF bytes
      <4>. QED BY <4>4 DEF part
    <3>2. IsWord32(<<64>>)
      BY DEF IsWord32, Canonical
    <3>3. IsWord32(BigEndian(n))
      <4>1. Canonical(BigEndian(n)) /\ Len(BigEndian(n)) <= 4
        BY WordOfNumber DEF IsWordOf
      <4>. QED BY <4>1 DEF IsWord32, Canonical
    <3>4. 0 \in Nat /\ 32 \in Nat /\ 64 \in Nat /\ 0 + 32 <= 96 /\ 32 + 32 <= 96 /\ 64 + 32 <= 96
      OBVIOUS
    <3>5. Holds(bytes, 0, Padded(status, 32))
      BY <3>1, <3>4 DEF AnswerHead
    <3>6. Holds(bytes, 32, Padded(<<64>>, 32))
      BY <3>1, <3>2, <3>4 DEF AnswerHead
    <3>7. Holds(bytes, 64, Padded(BigEndian(n), 32))
      BY <3>1, <3>3, <3>4 DEF AnswerHead
    <3>. QED BY <1>2, <3>5, <3>6, <3>7 DEF AnswerHead, bytes
  <2>2. Len(bytes) < 96 + n
    BY <1>1, <1>2
  <2> HIDE DEF bytes
  <2>3. runtimePublicKeyCbor(bytes) = AbiDecodeError
    BY <2>1, <2>2, ShortAnswer
  <2>. QED BY <2>3 DEF bytes
<1>. QED BY <1>3, <1>4

\* The JavaScript client takes any data out of an answer, none out of a failure or of an
\* answer that is cut short (calldatapublickey.ts:58-83, 114-127).
THEOREM EveryAnswerRead ==
  ASSUME NEW data \in Seq(Nat), Len(data) < 4294967296
  PROVE  KeyAnswerRead(data)
<1> DEFINE n == Len(data)
           good == AbiAnswer(<< >>, data)
           bad == AbiAnswer(<<1, 0>>, data)
<1>1. IsWord32(<< >>) /\ IsWord32(<<1, 0>>) /\ <<1, 0>> # << >>
  BY DEF IsWord32, Canonical
<1>2. AnswerHead(good, << >>, n) /\ Holds(good, 96, data) /\ Len(good) >= 96 + n
  BY <1>1, AnswerShape
<1>3. runtimePublicKeyCbor(good) = data
  <2> HIDE DEF good
  <2>. QED BY <1>1, <1>2, WholeAnswer
<1>4. runtimePublicKeyCbor(bad) = AbiDecodeError
  <2> DEFINE status == <<1, 0>>
  <2>1. IsWord32(status) /\ status # << >> /\ bad = AbiAnswer(status, data)
    BY <1>1
  <2> HIDE DEF status, bad
  <2>2. AnswerHead(bad, status, n) /\ Holds(bad, 96, data) /\ Len(bad) >= 96 + n
    BY <2>1, AnswerShape
  <2>. QED BY <2>1, <2>2, WholeAnswer
<1>5. ASSUME NEW cut \in 0..(95 + n)
      PROVE  runtimePublicKeyCbor(SubSeq(good, 1, cut)) = AbiDecodeError
  <2>1. n \in Nat
    OBVIOUS
  <2> HIDE DEF good
  <2>. QED BY <1>1, <1>2, <2>1, CutAnswer
<1>. QED BY <1>3, <1>4, <1>5 DEF KeyAnswerRead

\* The orders of a run are all of a set of keys.
LEMMA OrdersOfSet ==
  ASSUME NEW defaults, IsFiniteSet(DOMAIN defaults), Cardinality(DOMAIN defaults) \in 1..23,
         NEW keys \in SetToSeqs(DOMAIN defaults)
  PROVE  Orders(keys, defaults)
<1> DEFINE S == DOMAIN defaults
           n == Cardinality(S)
           D == 1..n
<1>1. n \in Nat /\ n >= 1 /\ n <= 23 /\ IsFiniteSet(S)
  <2>1. n \in 1..23 /\ IsFiniteSet(S)
    OBVIOUS
  <2> HIDE DEF n, S
  <2>. QED BY <2>1
<1>2. keys \in {f \in [D -> S] : \A i, j \in D : i # j => f[i] # f[j]}
  BY DEF SetToSeqs
<1> HIDE DEF S, n
<1>3. keys \in [D -> S] /\ \A i, j \in D : i # j => keys[i] # keys[j]
  BY <1>2
<1>4. keys \in Injection(D, S)
  BY <1>3 DEF Injection, IsInjective
<1>5. Cardinality(D) = n
  BY <1>1, FS_Interval
<1>6. keys \in Surjection(D, S)
  <2>1. Cardinality(D) = Cardinality(S)
    BY <1>5 DEF n
  <2>. QED BY <1>1, <1>4, <2>1, FS_Injection
<1>7. \A k \in S : \E i \in D : keys[i] = k
  BY <1>6 DEF Surjection
<1>8. keys \in Seq(S) /\ Len(keys) = n
  BY <1>1, <1>3
<1>9. {keys[i] : i \in 1..Len(keys)} = S
  BY <1>3, <1>7, <1>8
<1>10. Listed(keys)
  BY <1>8 DEF Listed
<1>11. Len(keys) \in 1..23
  BY <1>1, <1>8
<1>. QED BY <1>9, <1>10, <1>11 DEF Orders, S

LEMMA FewKeys ==
  /\ IsFiniteSet(DOMAIN NoPublicKey) /\ Cardinality(DOMAIN NoPublicKey) \in 1..23
  /\ IsFiniteSet(DOMAIN NoAnswer) /\ Cardinality(DOMAIN NoAnswer) \in 1..23
<1>1. ASSUME NEW a, NEW b
      PROVE  IsFiniteSet({a, b}) /\ Cardinality({a, b}) \in 1..2
  <2>1. IsFiniteSet({a}) /\ Cardinality({a}) = 1
    BY FS_Singleton
  <2>2. /\ IsFiniteSet({a} \cup {b})
        /\ Cardinality({a} \cup {b}) = IF b \in {a} THEN Cardinality({a}) ELSE Cardinality({a}) + 1
    BY <2>1, FS_AddElement
  <2>3. {a} \cup {b} = {a, b}
    OBVIOUS
  <2>. QED BY <2>1, <2>2, <2>3
<1>2. ASSUME NEW a, NEW b, NEW c, NEW d
      PROVE  IsFiniteSet({a, b, c, d}) /\ Cardinality({a, b, c, d}) \in 1..4
  <2> DEFINE two == {a, b}
             three == two \cup {c}
  <2>1. IsFiniteSet(two) /\ Cardinality(two) \in 1..2
    BY <1>1
  <2> HIDE DEF two
  <2>2. /\ IsFiniteSet(three)
        /\ Cardinality(three) = IF c \in two THEN Cardinality(two) ELSE Cardinality(two) + 1
    BY <2>1, FS_AddElement
  <2>3. Cardinality(three) \in 1..3
    BY <2>1, <2>2
  <2>4. three \cup {d} = {a, b, c, d}
    BY DEF two
  <2> HIDE DEF three
  <2>5. /\ IsFiniteSet(three \cup {d})
        /\ Cardinality(three \cup {d}) = IF d \in three THEN Cardinality(three) ELSE Cardinality(three) + 1
    BY <2>2, FS_AddElement
  <2>6. Cardinality(three \cup {d}) \in 1..4
    BY <2>3, <2>5
  <2>. QED BY <2>4, <2>5, <2>6
<1>3. IsFiniteSet(DOMAIN NoPublicKey) /\ Cardinality(DOMAIN NoPublicKey) \in 1..4
  <2>1. DOMAIN NoPublicKey = {KeyKey, ChecksumKey, ExpirationKey, SignatureKey}
    BY KeyNames
  <2>2. /\ IsFiniteSet({KeyKey, ChecksumKey, ExpirationKey, SignatureKey})
        /\ Cardinality({KeyKey, ChecksumKey, ExpirationKey, SignatureKey}) \in 1..4
    BY <1>2
  <2>. QED BY <2>1, <2>2
<1>4. IsFiniteSet(DOMAIN NoAnswer) /\ Cardinality(DOMAIN NoAnswer) \in 1..2
  <2>1. DOMAIN NoAnswer = {EpochKey, PublicKeyKey}
    BY KeyNames
  <2>2. IsFiniteSet({EpochKey, PublicKeyKey}) /\ Cardinality({EpochKey, PublicKeyKey}) \in 1..2
    BY <1>1
  <2>. QED BY <2>1, <2>2
<1>. QED BY <1>3, <1>4

\* An answer is a byte string, far shorter than 4 GiB.
LEMMA FlatBounded ==
  ASSUME NEW parts, NEW n \in Nat, Len(parts) = n, n > 0, NEW b \in Nat,
         \A i \in 1..n : parts[i] \in Seq(Nat) /\ Len(parts[i]) <= b
  PROVE  flatten(parts) \in Seq(Nat) /\ Len(flatten(parts)) <= n * b
<1>1. PICK f : flatten(parts) = f[n] /\ IsFlat(f, parts, n)
  BY Flattened
<1> DEFINE Right(i) == f[i] \in Seq(Nat) /\ Len(f[i]) <= i * b
           wrong == {i \in 1..n : ~ Right(i)}
<1>2. Right(1)
  <2>1. 1 \in 1..n /\ 1 * b = b
    OBVIOUS
  <2>2. f[1] = parts[1]
    BY <1>1, <2>1 DEF IsFlat
  <2>. QED BY <2>1, <2>2
<1>3. ASSUME NEW i \in 1..n, i # 1, Right(i - 1) PROVE Right(i)
  <2>1. f[i] = f[i - 1] \o parts[i]
    BY <1>1, <1>3 DEF IsFlat
  <2>2. f[i - 1] \in Seq(Nat) /\ parts[i] \in Seq(Nat) /\ Len(f[i - 1]) <= (i - 1) * b /\ Len(parts[i]) <= b
    BY <1>3
  <2>3. f[i] \in Seq(Nat) /\ Len(f[i]) = Len(f[i - 1]) + Len(parts[i])
    BY <2>1, <2>2, Joined
  <2>4. (i - 1) * b + b = i * b /\ (i - 1) * b \in Nat /\ i * b \in Nat
    <3>1. i \in Nat /\ i - 1 \in Nat
      BY <1>3
    <3>. QED BY <3>1
  <2>5. Len(f[i - 1]) + Len(parts[i]) <= (i - 1) * b + b
    <3> DEFINE y == (i - 1) * b
    <3>1. y \in Nat /\ Len(f[i - 1]) <= y /\ Len(parts[i]) <= b
      BY <2>2, <2>4
    <3>2. Len(f[i - 1]) \in Nat /\ Len(parts[i]) \in Nat
      BY <2>2
    <3> HIDE DEF y
    <3>3. Len(f[i - 1]) + Len(parts[i]) <= y + b
      BY <3>1, <3>2
    <3>. QED BY <3>3 DEF y
  <2>. QED BY <2>3, <2>4, <2>5
<1>4. wrong = {}
  <2> HIDE DEF Right
  <2>1. SUFFICES ASSUME wrong # {} PROVE FALSE
    OBVIOUS
  <2>2. PICK least \in wrong : \A i \in wrong : least <= i
    <3>1. wrong \in SUBSET Nat
      OBVIOUS
    <3> HIDE DEF wrong
    <3>. QED BY <2>1, <3>1, Smallest
  <2>3. least \in 1..n /\ ~ Right(least)
    BY <2>2
  <2>4. least # 1 /\ least - 1 \in 1..n /\ ~ (least <= least - 1)
    BY <1>2, <2>3
  <2>5. Right(least - 1)
    BY <2>2, <2>4
  <2>. QED BY <1>3, <2>3, <2>4, <2>5
<1>5. Right(n)
  <2>1. n \in 1..n
    OBVIOUS
  <2> HIDE DEF Right
  <2>. QED BY <1>4, <2>1
<1>. QED BY <1>1, <1>5

LEMMA MapBounded ==
  ASSUME NEW keys, NEW defaults, Orders(keys, defaults), NEW encoded, NEW b \in Nat,
         \A k \in DOMAIN defaults : IsName(k) /\ encoded[k] \in Seq(Nat) /\ Len(encoded[k]) <= b
  PROVE  MapOf(keys, encoded) \in Seq(Nat) /\ Len(MapOf(keys, encoded)) <= 1 + 23 * (b + 32)
<1> DEFINE n == Len(keys)
           parts == Parts(keys, encoded)
           body == flatten(parts)
           header == Single(160 + n)
           most == b + 32
<1>0. n \in 1..23 /\ n \in Nat /\ n > 0 /\ n <= 23
  <2>1. n \in 1..23
    BY DEF Orders
  <2> HIDE DEF n
  <2>. QED BY <2>1
<1>1. Len(parts) = n /\ \A i \in 1..n : parts[i] = Chained(Text(keys[i]), encoded[keys[i]])
  BY DEF Orders, Listed, Parts
<1>2. ASSUME NEW i \in 1..n PROVE parts[i] \in Seq(Nat) /\ Len(parts[i]) <= most
  <2> DEFINE k == keys[i]
             e == encoded[k]
  <2>1. k \in DOMAIN defaults
    BY DEF Orders
  <2>2. IsName(k) /\ e \in Seq(Nat) /\ Len(e) <= b
    BY <2>1
  <2>3. parts[i] = Chained(Text(k), e)
    BY <1>1
  <2> HIDE DEF k, e, parts
  <2>4. Text(k) \in Seq(Nat) /\ Len(Text(k)) <= 32
    <3>1. PICK len \in Nat, letter \in Nat : len <= 31 /\ k = Key(len, letter)
      BY <2>2 DEF IsName
    <3>2. Text(k) \in Seq(Nat) /\ Len(Text(k)) = len + 1
      BY <3>1, TextShape
    <3>. QED BY <3>1, <3>2
  <2>5. parts[i] \in Seq(Nat) /\ Len(parts[i]) = Len(Text(k)) + Len(e) /\ Len(Text(k)) \in Nat /\ Len(e) \in Nat
    BY <2>2, <2>3, <2>4, Joined DEF Chained
  <2>6. Len(parts[i]) <= most
    BY <2>2, <2>4, <2>5
  <2>. QED BY <2>5, <2>6
<1>3. MapOf(keys, encoded) = Chained(header, body)
  BY DEF MapOf, Parts, Chained, flatten, Single
<1> HIDE DEF parts
<1>4. body \in Seq(Nat) /\ Len(body) <= n * most
  <2>1. most \in Nat
    OBVIOUS
  <2> HIDE DEF most, n
  <2>. QED BY <1>0, <1>1, <1>2, <2>1, FlatBounded
<1>5. header \in Seq(Nat) /\ Len(header) = 1
  BY <1>0 DEF Single
<1>6. n * most <= 23 * most /\ n * most \in Nat
  <2>1. most \in Nat
    OBVIOUS
  <2> HIDE DEF most, n
  <2>2. 23 - n \in Nat
    BY <1>0
  <2>3. (23 - n) * most \in Nat /\ n * most \in Nat
    BY <1>0, <2>1, <2>2
  <2>4. (23 - n) * most = 23 * most - n * most
    BY <1>0, <2>1
  <2>5. 23 * most \in Nat
    BY <2>1
  <2> DEFINE x == n * most
             y == 23 * most
             z == (23 - n) * most
  <2>6. x \in Nat /\ y \in Nat /\ z \in Nat /\ z = y - x
    BY <2>3, <2>4, <2>5
  <2> HIDE DEF x, y, z
  <2>7. x <= y
    BY <2>6
  <2>. QED BY <2>6, <2>7 DEF x, y
<1> HIDE DEF body, header
<1>7. Chained(header, body) \in Seq(Nat) /\ Len(Chained(header, body)) = Len(header) + Len(body)
  BY <1>4, <1>5, Joined DEF Chained
<1>8. Len(Chained(header, body)) <= 1 + 23 * most
  <2>1. Len(body) \in Nat
    BY <1>4
  <2> DEFINE x == n * most
             y == 23 * most
  <2>2. Len(body) <= x /\ x <= y /\ x \in Nat /\ y \in Nat
    BY <1>4, <1>6
  <2> HIDE DEF x, y
  <2>3. Len(Chained(header, body)) <= 1 + y
    BY <1>5, <1>7, <2>1, <2>2
  <2>. QED BY <2>3 DEF y
<1>. QED BY <1>3, <1>7, <1>8

LEMMA IntegerBounded ==
  ASSUME NEW word, Canonical(word), Len(word) <= 16
  PROVE  encodeUint(word) \in Seq(Nat) /\ Len(encodeUint(word)) <= 17
<1> DEFINE e == encodeUint(word)
<1>1. Integer(e, word)
  BY UintIsInteger
<1> HIDE DEF e
<1>2. CASE InFirstByte(word, e)
  <2>1. PICK byte \in Nat : e = <<byte>>
    BY <1>2 DEF InFirstByte
  <2>. QED BY <2>1 DEF e
<1>3. CASE ~ InFirstByte(word, e)
  <2>1. PICK prefix \in Nat, n \in Nat : n <= 16 /\ Len(word) <= n /\ e = Prefixed(prefix, Padded(word, n))
    BY <1>1, <1>3 DEF Integer
  <2> DEFINE padded == Padded(word, n)
  <2>2. padded \in Seq(Nat) /\ Len(padded) = n
    BY <2>1, PaddedWord
  <2> HIDE DEF padded
  <2>3. Prefixed(prefix, padded) \in Seq(Nat) /\ Len(Prefixed(prefix, padded)) = n + 1
    BY <2>2 DEF Prefixed
  <2>. QED BY <2>1, <2>3 DEF e, padded
<1>. QED BY <1>2, <1>3

LEMMA InnerBounded ==
  ASSUME NEW public, IsPublicKey(public), NEW inner, Orders(inner, NoPublicKey)
  PROVE  MapOf(inner, EncodedKey(public)) \in Seq(Nat) /\ Len(MapOf(inner, EncodedKey(public))) <= 2300
<1> DEFINE encoded == EncodedKey(public)
           b == 66
<1>1. ASSUME NEW k \in DOMAIN NoPublicKey PROVE IsName(k) /\ encoded[k] \in Seq(Nat) /\ Len(encoded[k]) <= b
  <2>1. IsName(k) /\ encoded[k] \in Seq(Nat)
    <3>1. << >> \in Seq(Nat)
      OBVIOUS
    <3>. QED BY <3>1, PublicFields DEF FieldRead
  <2>2. encoded[k] = CASE k = SignatureKey -> <<88, 64>> \o Padded(public[k][1], 32) \o Padded(public[k][2], 32)
                       [] k = ExpirationKey -> encodeUint(public[k])
                       [] k \in {KeyKey, ChecksumKey} -> <<88, 32>> \o Padded(public[k], 32)
    BY DEF EncodedKey, IsPublicKey
  <2>3. CASE k = SignatureKey
    <3>1. PICK r, s : IsWord32(r) /\ IsWord32(s) /\ public[k] = Chain2(r, s)
      BY <2>3 DEF IsPublicKey, IsWordPair
    <3>2. public[k][1] = r /\ public[k][2] = s /\ k # ExpirationKey /\ k \notin {KeyKey, ChecksumKey}
      BY <2>3, <3>1, KeyNames DEF Chain2
    <3>3. encoded[k] = SignatureOf(r, s)
      BY <2>2, <2>3, <3>2 DEF SignatureOf, Chained, Chain2
    <3>4. Len(SignatureOf(r, s)) = 66
      BY <3>1, SignatureRead DEF IsWord32
    <3> HIDE DEF encoded
    <3>. QED BY <2>1, <3>3, <3>4
  <2>4. CASE k = ExpirationKey
    <3>1. encoded[k] = encodeUint(public[k]) /\ Canonical(public[k]) /\ Len(public[k]) <= 16
      BY <2>2, <2>4, KeyNames DEF IsPublicKey
    <3>2. Len(encodeUint(public[k])) <= 17 /\ Len(encodeUint(public[k])) \in Nat
      BY <3>1, IntegerBounded
    <3> HIDE DEF encoded
    <3>. QED BY <2>1, <3>1, <3>2
  <2>5. CASE k \in {KeyKey, ChecksumKey}
    <3>1. encoded[k] = <<88, 32>> \o Padded(public[k], 32) /\ Canonical(public[k]) /\ Len(public[k]) <= 32
      BY <2>2, <2>5, KeyNames DEF IsPublicKey, IsWord32
    <3>2. encoded[k] = StringOf(public[k])
      BY <3>1 DEF StringOf, Chained, Chain2
    <3>3. Len(StringOf(public[k])) = 34
      BY <3>1, WordStringRead
    <3> HIDE DEF encoded
    <3>. QED BY <2>1, <3>2, <3>3
  <2>6. k \in {KeyKey, ChecksumKey, ExpirationKey, SignatureKey}
    BY KeyNames
  <2>. QED BY <2>3, <2>4, <2>5, <2>6
<1>2. b \in Nat /\ 1 + 23 * (b + 32) <= 2300
  OBVIOUS
<1> HIDE DEF encoded, b
<1>3. MapOf(inner, encoded) \in Seq(Nat) /\ Len(MapOf(inner, encoded)) <= 1 + 23 * (b + 32)
  <2>1. \A k \in DOMAIN NoPublicKey : IsName(k) /\ encoded[k] \in Seq(Nat) /\ Len(encoded[k]) <= b
    BY <1>1
  <2>2. b \in Nat
    BY <1>2
  <2>. QED BY <2>1, <2>2, MapBounded
<1>4. Len(MapOf(inner, encoded)) <= 2300
  <2>1. Len(MapOf(inner, encoded)) \in Nat
    BY <1>3
  <2>. QED BY <1>2, <1>3, <2>1
<1>. QED BY <1>3, <1>4 DEF encoded

LEMMA AnswerBounded ==
  ASSUME NEW epoch, Canonical(epoch), Len(epoch) <= 16, NEW public, IsPublicKey(public),
         NEW outer, Orders(outer, NoAnswer), NEW inner, Orders(inner, NoPublicKey)
  PROVE  /\ EncodedAnswer(epoch, public, outer, inner) \in Seq(Nat)
         /\ Len(EncodedAnswer(epoch, public, outer, inner)) < 4294967296
<1> DEFINE encoded == AnswerParts(epoch, public, inner)
           b == 2300
<1>1. ASSUME NEW k \in DOMAIN NoAnswer PROVE IsName(k) /\ encoded[k] \in Seq(Nat) /\ Len(encoded[k]) <= b
  <2>1. IsName(k)
    BY KeyNames
  <2>2. encoded[k] = IF k = EpochKey THEN encodeUint(epoch) ELSE MapOf(inner, EncodedKey(public))
    BY DEF AnswerParts
  <2>3. encodeUint(epoch) \in Seq(Nat) /\ Len(encodeUint(epoch)) <= 2300
    <3>1. encodeUint(epoch) \in Seq(Nat) /\ Len(encodeUint(epoch)) <= 17
      BY IntegerBounded
    <3>. QED BY <3>1
  <2>4. MapOf(inner, EncodedKey(public)) \in Seq(Nat) /\ Len(MapOf(inner, EncodedKey(public))) <= 2300
    BY InnerBounded
  <2> HIDE DEF encoded
  <2>. QED BY <2>1, <2>2, <2>3, <2>4
<1>2. EncodedAnswer(epoch, public, outer, inner) = MapOf(outer, encoded)
  BY DEF EncodedAnswer, AnswerParts
<1>3. b \in Nat /\ 1 + 23 * (b + 32) < 4294967296
  OBVIOUS
<1> HIDE DEF encoded, b
<1>4. MapOf(outer, encoded) \in Seq(Nat) /\ Len(MapOf(outer, encoded)) <= 1 + 23 * (b + 32)
  <2>1. \A k \in DOMAIN NoAnswer : IsName(k) /\ encoded[k] \in Seq(Nat) /\ Len(encoded[k]) <= b
    BY <1>1
  <2>2. b \in Nat
    BY <1>3
  <2>. QED BY <2>1, <2>2, MapBounded
<1>5. Len(MapOf(outer, encoded)) < 4294967296
  <2>1. Len(MapOf(outer, encoded)) \in Nat
    BY <1>4
  <2>. QED BY <1>3, <1>4, <2>1
<1>. QED BY <1>2, <1>4, <1>5

\* The keys of a run are such.
IsKeyInput(epoch, public, data) ==
  /\ Canonical(epoch) /\ Len(epoch) <= 16 /\ IsPublicKey(public)
  /\ \E outer, inner : /\ Orders(outer, NoAnswer) /\ Orders(inner, NoPublicKey)
                       /\ data = EncodedAnswer(epoch, public, outer, inner)
KeyInput == Given("publicKey") => IsKeyInput(input.epoch, input.public, input.data)

LEMMA FilledWord == \A byte \in {4, 7} : IsWord32(Filled(32, byte))
<1> SUFFICES ASSUME NEW byte \in {4, 7} PROVE IsWord32(Filled(32, byte))
  OBVIOUS
<1>1. 32 \in Nat /\ byte \in Nat /\ byte # 0 /\ 1 \in 1..32
  OBVIOUS
<1> DEFINE word == Filled(32, byte)
<1>2. word \in Seq(Nat) /\ Len(word) = 32 /\ word[1] = byte
  BY <1>1, FilledBytes
<1> HIDE DEF word
<1>3. IsWord32(word)
  BY <1>1, <1>2 DEF IsWord32, Canonical
<1>. QED BY <1>3 DEF word

LEMMA PublicKeyMade ==
  ASSUME NEW key, IsWord32(key), NEW expiration, Canonical(expiration), Len(expiration) <= 16
  PROVE  IsPublicKey(PublicKey(key, expiration))
<1> DEFINE public == PublicKey(key, expiration)
           field(k) == CASE k = KeyKey -> key [] k = ChecksumKey -> <<5>> [] k = ExpirationKey -> expiration
                         [] k = SignatureKey -> <<<<3>>, Filled(32, 4)>>
           S == DOMAIN NoPublicKey
<1>1. public = [k \in S |-> field(k)]
  BY DEF PublicKey
<1>3. KeyKey # ChecksumKey
  BY KeyNames
<1>4. /\ field(KeyKey) = key /\ field(ChecksumKey) = <<5>> /\ field(ExpirationKey) = expiration
      /\ field(SignatureKey) = <<<<3>>, Filled(32, 4)>>
  BY <1>3, KeyNames
<1>5. KeyKey \in S /\ ChecksumKey \in S /\ ExpirationKey \in S /\ SignatureKey \in S
  BY KeyNames
<1> HIDE DEF field, S
<1>6. DOMAIN public = S /\ public = [k \in S |-> public[k]]
  BY <1>1
<1>7. /\ public[KeyKey] = key /\ public[ChecksumKey] = <<5>> /\ public[ExpirationKey] = expiration
      /\ public[SignatureKey] = <<<<3>>, Filled(32, 4)>>
  BY <1>1, <1>4, <1>5
<1>8. IsWord32(<<5>>)
  BY DEF IsWord32, Canonical
<1>9. IsWordPair(<<<<3>>, Filled(32, 4)>>)
  <2>1. IsWord32(<<3>>)
    BY DEF IsWord32, Canonical
  <2>2. IsWord32(Filled(32, 4))
    BY FilledWord
  <2>. QED BY <2>1, <2>2 DEF IsWordPair, Chain2
<1> HIDE DEF public
<1>. QED BY <1>6, <1>7, <1>8, <1>9 DEF IsPublicKey, S, public

LEMMA PublicKeyChosen ==
  ASSUME ChoosePublicKey
  PROVE  input'.alg = "publicKey" /\ IsKeyInput(input'.epoch, input'.public, input'.data)
<1>1. PICK epoch \in {<< >>, <<24>>, <<1, 0>>}, expiration \in {<< >>, <<24>>, <<1, 0>>},
           key \in {<<9>>, Filled(32, 7)}, outer \in SetToSeqs(DOMAIN NoAnswer),
           inner \in SetToSeqs(DOMAIN NoPublicKey) :
        input' = [alg |-> "publicKey", epoch |-> epoch, public |-> PublicKey(key, expiration),
                  data |-> EncodedAnswer(epoch, PublicKey(key, expiration), outer, inner)]
  BY DEF ChoosePublicKey
<1>2. /\ input'.alg = "publicKey" /\ input'.epoch = epoch /\ input'.public = PublicKey(key, expiration)
      /\ input'.data = EncodedAnswer(epoch, PublicKey(key, expiration), outer, inner)
  BY <1>1
<1>3. \A word \in {<< >>, <<24>>, <<1, 0>>} : Canonical(word) /\ Len(word) <= 16
  <2>1. Canonical(<< >>) /\ Len(<< >>) <= 16
    BY DEF Canonical
  <2>2. Canonical(<<24>>) /\ Len(<<24>>) <= 16
    BY DEF Canonical
  <2>3. Canonical(<<1, 0>>) /\ Len(<<1, 0>>) <= 16
    BY DEF Canonical
  <2>. QED BY <2>1, <2>2, <2>3
<1>4. IsWord32(key)
  <2>1. IsWord32(<<9>>)
    BY DEF IsWord32, Canonical
  <2>2. IsWord32(Filled(32, 7))
    BY FilledWord
  <2>. QED BY <2>1, <2>2
<1>5. IsPublicKey(PublicKey(key, expiration))
  <2>1. Canonical(expiration) /\ Len(expiration) <= 16
    BY <1>3
  <2>. QED BY <1>4, <2>1, PublicKeyMade
<1>6. Orders(outer, NoAnswer) /\ Orders(inner, NoPublicKey)
  BY FewKeys, OrdersOfSet
<1>7. Canonical(epoch) /\ Len(epoch) <= 16
  BY <1>3
<1>. QED BY <1>2, <1>5, <1>6, <1>7 DEF IsKeyInput

\* Every calldata public key of a run is found, by the contracts and by the JavaScript
\* client (Subcall.sol:577-659, calldatapublickey.ts:58-83, 114-127).
THEOREM PublicKeysFound == Spec => []PublicKeyFound
<1>1. Init => KeyInput
  BY DEF Init, KeyInput, Given
<1>2. ASSUME KeyInput, [Next]_<<input, host, enclave>>
      PROVE  KeyInput'
  <2>1. CASE input' = input
    BY <1>2, <2>1 DEF KeyInput, Given
  <2>2. CASE ChoosePublicKey
    BY <2>2, PublicKeyChosen DEF KeyInput, Given
  <2>3. CASE (ChooseInput \/ NextDay) /\ ~ ChoosePublicKey
    <3>1. input'.alg # "publicKey"
      BY <2>3, ChosenKinds DEF ChooseInput
    <3>. QED BY <3>1 DEF KeyInput, Given
  <2>. QED BY <1>2, <2>1, <2>2, <2>3, InputStays
<1>3. KeyInput => PublicKeyFound
  <2> SUFFICES ASSUME KeyInput, Given("publicKey")
               PROVE  KeyAnswerRead(input.data) /\ KeyFound(input.epoch, input.public, input.data)
    BY DEF PublicKeyFound
  <2> DEFINE epoch == input.epoch
             public == input.public
             data == input.data
  <2>1. IsKeyInput(epoch, public, data)
    BY DEF KeyInput
  <2> HIDE DEF epoch, public, data
  <2>2. PICK outer, inner : /\ Orders(outer, NoAnswer) /\ Orders(inner, NoPublicKey)
                            /\ data = EncodedAnswer(epoch, public, outer, inner)
    BY <2>1 DEF IsKeyInput
  <2>3. Canonical(epoch) /\ Len(epoch) <= 16 /\ IsPublicKey(public)
    BY <2>1 DEF IsKeyInput
  <2>4. data \in Seq(Nat) /\ Len(data) < 4294967296
    BY <2>2, <2>3, AnswerBounded
  <2>5. KeyAnswerRead(data)
    BY <2>4, EveryAnswerRead
  <2>6. KeyFound(epoch, public, data)
    BY <2>2, <2>3, EveryKeyFound
  <2>. QED BY <2>5, <2>6 DEF epoch, public, data
<1>. QED BY <1>1, <1>2, <1>3, PTL DEF Spec
=============================================================================
