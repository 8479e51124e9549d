------------------------------ MODULE Decoders ------------------------------
(***************************************************************************)
(* The reference for the encoders: strict decoders of CBOR and of RLP, as  *)
(* the runtime and the chain have them.  They refuse integers and lengths  *)
(* that are not in their shortest form, which is the rule of oasis-cbor    *)
(* behind the check of receipt ids in Subcall.sol.                         *)
(***************************************************************************)
EXTENDS EvmBytes

CONSTANT Malformed

Shortest(word, width) ==
  IF width = 1 THEN word # << >> /\ (Len(word) > 1 \/ word[1] >= 24)
  ELSE Len(word) > width \div 2

\* The item at an offset: its kind, its value, and where the next one starts.
CborItem(kind, value, end) == [kind |-> kind, value |-> value, end |-> end]
NoItem == CborItem(Malformed, << >>, 0)

\* The number in an item's head, and where the head ends.
CborHead(bytes, offset) ==
  LET info == bytes[offset + 1] % 32
      width == <<1, 2, 4, 8>>[info - 23]
      word == Word(Slice(bytes, offset + 1, width))
  IN  IF info <= 23 THEN CborItem("head", Word(<<info>>), offset + 1)
      ELSE IF info <= 27 /\ offset + width < Len(bytes) /\ Shortest(word, width)
      THEN CborItem("head", word, offset + 1 + width)
      ELSE NoItem

Kinds == <<"uint", "negative", "bytes", "text", "array", "map">>

\* An item that has no others in it.
CborScalar(bytes, kind, head) ==
  LET end == head.end + Value(head.value)
  IN  CASE kind = "uint" -> CborItem(kind, head.value, head.end)
        [] kind \in {"bytes", "text"} ->
             IF end > Len(bytes) THEN NoItem
             ELSE CborItem(kind, Slice(bytes, head.end, Value(head.value)), end)
        [] OTHER -> NoItem

\* A container, of so many items.
CborContainer(kind, items) ==
  IF items = NoItem THEN NoItem ELSE CborItem(kind, items.value, items.end)

\* The item that starts with this head; contents are the items, so many, from an
\* offset on.
CborAfter(bytes, kind, head, contents) ==
  LET count == Value(head.value) * IF kind = "map" THEN 2 ELSE 1
  IN  IF head = NoItem THEN NoItem
      ELSE IF kind \notin {"array", "map"} THEN CborScalar(bytes, kind, head)
      ELSE IF count > Len(bytes) - head.end THEN NoItem
      ELSE CborContainer(kind, contents[head.end][count])

CborDecode(bytes, offset, contents) ==
  IF offset >= Len(bytes) \/ bytes[offset + 1] >= 192 THEN NoItem
  ELSE CborAfter(bytes, Kinds[bytes[offset + 1] \div 32 + 1], CborHead(bytes, offset), contents)

\* An item and the n after it.
CborFollowed(first, n, contents) ==
  LET rest == contents[first.end][n]
  IN  IF first = NoItem \/ rest = NoItem THEN NoItem
      ELSE CborItem("items", <<[kind |-> first.kind, value |-> first.value]>> \o rest.value,
                    rest.end)

CborContents(bytes) ==
  LET contents[offset \in 0..Len(bytes)] ==
        [n \in 0..Len(bytes) |->
           IF n = 0 THEN CborItem("items", << >>, offset)
           ELSE CborFollowed(CborDecode(bytes, offset, contents), n - 1, contents)]
  IN  contents

\* All of bytes as one item.
CborWhole(bytes) ==
  LET item == CborDecode(bytes, 0, CborContents(bytes))
  IN  IF item # NoItem /\ item.end = Len(bytes)
      THEN [kind |-> item.kind, value |-> item.value] ELSE NoItem

\* The items by their names, for the expected values.
AsUint(word) == [kind |-> "uint", value |-> word]
AsBytes(bytes) == [kind |-> "bytes", value |-> bytes]
AsText(key) == [kind |-> "text", value |-> key]
AsArray(items) == [kind |-> "array", value |-> items]
AsMap(pairs) == [kind |-> "map", value |-> pairs]
-----------------------------------------------------------------------------
\* Where the payload of an RLP item is: a byte below 128 is its own, and a length
\* of more than 55 has bytes of its own.
RlpSpan(start, end) == [start |-> start, end |-> end]
NoSpan == RlpSpan(0, 0)
RlpBase(prefix) == IF prefix >= 192 THEN 192 ELSE 128

RlpPayload(bytes, from) ==
  LET prefix == bytes[from + 1]
      short == prefix - RlpBase(prefix)
      start == from + short - 54
      end == start + Value(Slice(bytes, from + 1, short - 55))
  IN  IF prefix < 128 THEN RlpSpan(from, from + 1)
      ELSE IF short <= 55
      THEN IF prefix = 129 /\ from + 1 < Len(bytes) /\ bytes[from + 2] < 128 THEN NoSpan
           ELSE RlpSpan(from + 1, from + 1 + short)
      ELSE IF start <= Len(bytes) /\ bytes[from + 2] # 0 /\ end - start > 55
      THEN RlpSpan(start, end) ELSE NoSpan

NoRlp == [malformed |-> Malformed]

\* The items from an offset to another, lists as [list |-> items].
RlpFrom(bytes, from, to, items) ==
  LET span == RlpPayload(bytes, from)
  IN  IF span.end \notin (from + 1)..to THEN <<NoRlp>>
      ELSE <<IF bytes[from + 1] >= 192 THEN [list |-> items[span.start][span.end]]
             ELSE [bytes |-> SubSeq(bytes, span.start + 1, span.end)]>>
             \o items[span.end][to]

RlpItems(bytes) ==
  LET items[from \in 0..Len(bytes)] ==
        [to \in 0..Len(bytes) |-> IF from = to THEN << >> ELSE RlpFrom(bytes, from, to, items)]
  IN  items

\* The items of a list that is all of bytes.
RlpList(bytes) ==
  LET items == RlpItems(bytes)[0][Len(bytes)]
  IN  IF Len(items) = 1 /\ "list" \in DOMAIN items[1] THEN items[1].list ELSE <<NoRlp>>
=============================================================================
