---------------------------- MODULE QueriesProofs ----------------------------
(***************************************************************************)
(* Theorems about Queries, for every table, listing, filter and page size. *)
(***************************************************************************)
EXTENDS Queries, SequenceTheorems, FiniteSetTheorems, WellFoundedInduction, TLAPS

Facts == INSTANCE EventsTableProofs WITH Chain <- Stored, NoAsset <- Null

-----------------------------------------------------------------------------
(* The inductive invariant of a walk.                                       *)

(* The rows that match and are above i in every listing.                    *)
Above(i) == {j \in rows : Wanted(j) /\ Table!Before(i, j)}

Seen(i) == \E k \in 1..Len(got) : got[k] = i

(* The rows the next page leaves out in front.                              *)
Passed == (page - 1) * size

(* Before the walk nothing is received, during it the offset of a proper    *)
(* size is far from the limit of 32 bits.                                   *)
Walking ==
  /\ page = 0 /\ ~over => got = <<>>
  /\ page > 0 => size \in PageSizes /\ ~over
  /\ page > 0 /\ Proper => Passed \in Nat /\ Passed <= Len(Chain) + ListLimit

SeesWanted == \A k \in 1..Len(got) : got[k] \in rows /\ Wanted(got[k])

(* What was there at the beginning is seen, or is still ahead.              *)
NoneMissed ==
  Proper =>
    \A i \in since : Wanted(i) =>
      \/ Seen(i)
      \/ Tied(i)
      \/ page > 0 /\ Cardinality(Above(i)) >= Passed

(* Whatever the size, the first page leaves a row out only when more match  *)
(* than a default page holds.                                               *)
FirstPage ==
  ~Proper /\ (page > 1 \/ over) /\ OnePage =>
    \A i \in since : Wanted(i) => Seen(i) \/ Tied(i)

(* While nothing is inserted what was seen is behind.                       *)
Follows(i, j) == \/ Table!Before(j, i)
                 \/ Tied(i) /\ SameKey(i, j)

Then(i, j) == \E k, l \in 1..Len(got) : k < l /\ got[k] = i /\ got[l] = j

Behind ==
  Proper /\ rows = since =>
    /\ \A i, j \in rows : Then(i, j) => Follows(i, j)
    /\ page > 0 => \A i \in rows : Seen(i) => Cardinality(Above(i)) < Passed

WalkInv ==
  /\ TypeOK /\ Walking /\ SeesWanted
  /\ NoneMissed /\ FirstPage /\ Behind

-----------------------------------------------------------------------------
(* Conversions.                                                             *)

LEMMA SignedSame ==
  ASSUME NEW h \in Nat \ {0}, NEW n \in 0..h - 1
  PROVE  Signed(n, h) = n /\ Unsigned(n, h) = n
BY DEF Signed, Unsigned

LEMMA ChainTyped ==
  ASSUME NEW i \in Position
  PROVE  /\ Chain[i].kind \in ValidKinds
         /\ Chain[i].block \in Nat /\ Chain[i].block \in 0..HalfLong - 1
         /\ Chain[i].logIndex \in Nat /\ Chain[i].logIndex \in 0..HalfWord - 1
         /\ HalfWord \in Nat \ {0} /\ HalfLong \in Nat \ {0}
<1>1. Chain[i].kind \in ValidKinds
  BY QueryAssumption DEF PayloadOf
<1> QED
  BY <1>1, QueryAssumption

(* The columns a query reads.                                               *)
LEMMA StoredRow ==
  ASSUME NEW i \in Position
  PROVE  /\ Stored[i].block = Chain[i].block
         /\ Stored[i].logIndex = Chain[i].logIndex
         /\ Stored[i].kind = EventKindNames[Chain[i].kind]
         /\ Stored[i].asset = HexOrNull(Chain[i].asset)
<1>1. Stored[i] = RowOf(Chain[i])
  BY DEF Stored
<1>2. /\ Stored[i].block = Signed(Chain[i].block, HalfLong)
      /\ Stored[i].logIndex = Signed(Chain[i].logIndex, HalfWord)
      /\ Stored[i].kind = EventKindNames[Chain[i].kind]
      /\ Stored[i].asset = HexOrNull(Chain[i].asset)
  BY <1>1 DEF RowOf
<1> QED
  BY <1>2, ChainTyped, SignedSame

LEMMA NamesDiffer ==
  /\ "unknown" \notin ValidKinds
  /\ \A k, l \in ValidKinds : EventKindNames[k] = EventKindNames[l] => k = l
BY DEF ValidKinds, EventKindNames

LEMMA TextsDiffer ==
  /\ \A a, b : Hex(a) = Hex(b) => a = b
  /\ \A a : Hex(a) # Null /\ Hex(a) # Empty
  /\ Null # Empty
  /\ \A a : Hex(a).form = "hex" /\ Hex(a).of = a
  /\ Null.form = "null" /\ Empty.form = "empty"
<1>1. \A a : Hex(a).form = "hex" /\ Hex(a).of = a
  BY DEF Hex
<1>2. Null.form = "null" /\ Empty.form = "empty"
  BY DEF Null, Empty
<1>3. \A a, b : Hex(a) = Hex(b) => a = b
  <2> SUFFICES ASSUME NEW a, NEW b, Hex(a) = Hex(b) PROVE a = b
    OBVIOUS
  <2>1. Hex(a).of = Hex(b).of
    OBVIOUS
  <2> QED
    BY <1>1, <2>1
<1>4. "hex" # "null" /\ "hex" # "empty" /\ "null" # "empty"
  OBVIOUS
<1>5. \A a : Hex(a) # Null /\ Hex(a) # Empty
  BY <1>1, <1>2, <1>4
<1>6. Null # Empty
  BY <1>2, <1>4
<1> QED
  BY <1>1, <1>2, <1>3, <1>5, <1>6

LEMMA PointersDiffer == \A a : <<a>> # Nil
BY DEF Nil

(* A decimal is read back as the number it spells.                          *)
LEMMA DecimalsReturn ==
  /\ \A p : Decimal(ParseBigInt(Decimal(p))) = Decimal(p)
  /\ \A p : IsPointer(p) =>
       LET text == DecimalOptional(p)
       IN  DecimalOptional(IF text = Empty THEN Nil ELSE ParseBigInt(text)) = text
<1>1. \A n : Dec(n).form = "dec" /\ Dec(n).of = n
  BY DEF Dec
<1>2. \A n : ParseBigInt(Dec(n)) = <<n>>
  BY <1>1 DEF ParseBigInt
<1>3. \A n : Decimal(<<n>>) = Dec(n)
  BY PointersDiffer DEF Decimal
<1>4. \A p : Decimal(ParseBigInt(Decimal(p))) = Decimal(p)
  <2> SUFFICES ASSUME NEW p PROVE Decimal(ParseBigInt(Decimal(p))) = Decimal(p)
    OBVIOUS
  <2>1. \E n : Decimal(p) = Dec(n)
    BY DEF Decimal
  <2> QED
    BY <1>2, <1>3, <2>1
<1>5. Empty.form = "empty" /\ "dec" # "empty"
  BY DEF Empty
<1>6. \A n : Dec(n) # Empty
  BY <1>1, <1>5
<1>7. ASSUME NEW p, IsPointer(p)
      PROVE  LET text == DecimalOptional(p)
             IN  DecimalOptional(IF text = Empty THEN Nil ELSE ParseBigInt(text)) = text
  <2>1. CASE p = Nil \/ p = <<0>>
    <3>1. DecimalOptional(p) = Empty /\ DecimalOptional(Nil) = Empty
      BY <2>1 DEF DecimalOptional
    <3> QED
      BY <3>1
  <2>2. CASE ~(p = Nil \/ p = <<0>>)
    <3>1. p = <<p[1]>>
      BY <1>7, <2>2 DEF IsPointer
    <3>2. DecimalOptional(p) = Dec(p[1])
      BY <2>2 DEF DecimalOptional
    <3>3. ParseBigInt(Dec(p[1])) = p
      BY <1>2, <3>1
    <3> QED
      BY <1>6, <3>2, <3>3
  <2> QED
    BY <2>1, <2>2
<1> QED
  BY <1>4, <1>7

LEMMA HexReturns == \A v : FromHex(Hex(v)) = v
BY TextsDiffer DEF FromHex

(* The payload of a kind, through its JSON and back.                        *)
LEMMA PayloadReturns ==
  ASSUME NEW e, e.kind \in ValidKinds,
         e.kind = "fulfilled" => IsPointer(PayloadOf(e)[1].round),
         NEW f, f.kind = e.kind,
         PayloadOf(f) = <<ScanPayload(e.kind, PayloadTexts(e))>>
  PROVE  PayloadTexts(f) = PayloadTexts(e)
<1> DEFINE p == PayloadOf(e)[1]
           json == PayloadTexts(e)
<1>1. PayloadOf(f)[1] = ScanPayload(e.kind, json)
  OBVIOUS
<1>2. /\ "requested" # "fulfilled" /\ "requested" # "registered"
      /\ "fulfilled" # "registered"
  OBVIOUS
<1>3. CASE e.kind = "requested"
  <2>1. json = [req |-> Decimal(p.req), asset |-> Hex(p.asset),
                requester |-> Hex(p.requester)]
    BY <1>3 DEF PayloadTexts
  <2>2. PayloadOf(f)[1] = [req |-> ParseBigInt(json.req), asset |-> FromHex(json.asset),
                           requester |-> FromHex(json.requester)]
    BY <1>1, <1>3 DEF ScanPayload, PriceRequestedPayload
  <2>3. PayloadTexts(f) = [req |-> Decimal(PayloadOf(f)[1].req),
                           asset |-> Hex(PayloadOf(f)[1].asset),
                           requester |-> Hex(PayloadOf(f)[1].requester)]
    BY <1>3 DEF PayloadTexts
  <2> HIDE DEF json, p
  <2> QED
    BY <2>1, <2>2, <2>3, DecimalsReturn, HexReturns DEF json
<1>4. CASE e.kind = "fulfilled"
  <2>1. json = [req |-> Decimal(p.req), asset |-> Hex(p.asset),
                price |-> Decimal(p.price), timestamp |-> Decimal(p.timestamp),
                round |-> DecimalOptional(p.round)]
    BY <1>2, <1>4 DEF PayloadTexts
  <2>2. PayloadOf(f)[1] =
          [req |-> ParseBigInt(json.req), asset |-> FromHex(json.asset),
           price |-> ParseBigInt(json.price), timestamp |-> ParseBigInt(json.timestamp),
           round |-> IF json.round = Empty THEN Nil ELSE ParseBigInt(json.round)]
    BY <1>1, <1>2, <1>4 DEF ScanPayload, PriceFulfilledPayload
  <2>3. PayloadTexts(f) =
          [req |-> Decimal(PayloadOf(f)[1].req), asset |-> Hex(PayloadOf(f)[1].asset),
           price |-> Decimal(PayloadOf(f)[1].price),
           timestamp |-> Decimal(PayloadOf(f)[1].timestamp),
           round |-> DecimalOptional(PayloadOf(f)[1].round)]
    BY <1>2, <1>4 DEF PayloadTexts
  <2>4. IsPointer(p.round)
    BY <1>4
  <2> HIDE DEF json, p
  <2> QED
    BY <2>1, <2>2, <2>3, <2>4, DecimalsReturn, HexReturns DEF json
<1>5. CASE e.kind = "registered"
  <2>1. json = [asset |-> Hex(p.asset), aggregator |-> Hex(p.aggregator)]
    BY <1>2, <1>5 DEF PayloadTexts
  <2>2. PayloadOf(f)[1] = [asset |-> FromHex(json.asset),
                           aggregator |-> FromHex(json.aggregator)]
    BY <1>1, <1>2, <1>5 DEF ScanPayload, AssetRegisteredPayload
  <2>3. PayloadTexts(f) = [asset |-> Hex(PayloadOf(f)[1].asset),
                           aggregator |-> Hex(PayloadOf(f)[1].aggregator)]
    BY <1>2, <1>5 DEF PayloadTexts
  <2> HIDE DEF json, p
  <2> QED
    BY <2>1, <2>2, <2>3, HexReturns DEF json
<1> QED
  BY <1>3, <1>4, <1>5 DEF ValidKinds

(* A row of the table is read without an error.                             *)
LEMMA RowReturns ==
  ASSUME NEW i \in Position
  PROVE  LET e == Chain[i]
             f == ReadBack[i][1]
         IN  /\ ReadBack[i] # Nil
             /\ f.kind = e.kind /\ PayloadOf(f) # Nil
             /\ PayloadOf(f) = <<ScanPayload(e.kind, PayloadTexts(e))>>
             /\ f.contract = e.contract /\ f.tx = e.tx /\ f.blockHash = e.blockHash
             /\ f.block = e.block /\ f.logIndex = e.logIndex
             /\ f.observedAt = Micros(e.observedAt)
<1> DEFINE e == Chain[i]
           row == Stored[i]
           Payload(kind) ==
             IF kind = e.kind THEN <<ScanPayload(e.kind, row.payloads[e.kind])>> ELSE Nil
<1>1. row = RowOf(e)
  BY DEF Stored
<1>2. e.kind \in ValidKinds
  BY ChainTyped
<1>3. /\ row.kind = EventKindNames[e.kind] /\ row.contract = Hex(e.contract)
      /\ row.tx = Hex(e.tx) /\ row.blockHash = Hex(e.blockHash)
      /\ row.block = Signed(e.block, HalfLong)
      /\ row.logIndex = Signed(e.logIndex, HalfWord)
      /\ row.payloads[e.kind] = PayloadTexts(e)
      /\ row.observedAt = Micros(e.observedAt)
  BY <1>1, <1>2 DEF RowOf
<1> HIDE DEF row
<1>4. ParseEventKind(row.kind) = <<e.kind>>
  BY <1>2, <1>3, NamesDiffer DEF ParseEventKind
<1>5. PayloadTexts(e) # Null
  <2>1. \A x, y, z : [req |-> x, asset |-> y, requester |-> z] # Null
    BY DEF Null
  <2>2. \A x, y, z, v, w : [req |-> x, asset |-> y, price |-> z, timestamp |-> v,
                            round |-> w] # Null
    BY DEF Null
  <2>3. \A x, y : [asset |-> x, aggregator |-> y] # Null
    BY DEF Null
  <2> QED
    BY <1>2, <2>1, <2>2, <2>3 DEF PayloadTexts, ValidKinds
<1>6. ReadBack[i] =
        <<[kind |-> e.kind, contract |-> FromHex(row.contract), tx |-> FromHex(row.tx),
           blockHash |-> FromHex(row.blockHash),
           block |-> Unsigned(row.block, HalfLong),
           logIndex |-> Unsigned(row.logIndex, HalfWord),
           observedAt |-> row.observedAt,
           asset |-> FromHex(row.asset), req |-> ParseBigInt(row.req),
           requested |-> Payload("requested"), fulfilled |-> Payload("fulfilled"),
           registered |-> Payload("registered")]>>
  <2>1. ReadBack[i] = ScanEvent(row)
    BY DEF ReadBack, row
  <2>2. <<e.kind>> # Nil /\ <<e.kind>>[1] = e.kind
    BY PointersDiffer
  <2> QED
    BY <1>3, <1>4, <1>5, <2>1, <2>2 DEF ScanEvent
<1> DEFINE f == ReadBack[i][1]
<1>7. /\ f.kind = e.kind /\ f.contract = FromHex(row.contract)
      /\ f.tx = FromHex(row.tx) /\ f.blockHash = FromHex(row.blockHash)
      /\ f.block = Unsigned(row.block, HalfLong)
      /\ f.logIndex = Unsigned(row.logIndex, HalfWord)
      /\ f.observedAt = row.observedAt
      /\ f.requested = Payload("requested") /\ f.fulfilled = Payload("fulfilled")
      /\ f.registered = Payload("registered")
  BY <1>6
<1>8. ReadBack[i] # Nil
  BY <1>6, PointersDiffer
<1> HIDE DEF f
<1>9. PayloadOf(f) = <<ScanPayload(e.kind, PayloadTexts(e))>>
  <2>1. f[e.kind] = Payload(e.kind)
    BY <1>2, <1>7 DEF ValidKinds
  <2> QED
    BY <1>2, <1>3, <1>7, <2>1 DEF PayloadOf
<1>10. f.block = e.block /\ f.logIndex = e.logIndex
  BY <1>3, <1>7, ChainTyped, SignedSame
<1> QED
  BY <1>3, <1>7, <1>8, <1>9, <1>10, HexReturns, PointersDiffer DEF f

-----------------------------------------------------------------------------
(* The rows a query reads answer as the events were sent live.              *)
LEMMA AnswerReturns ==
  ASSUME NEW i \in Position
  PROVE  Answered[i] = <<[SentLive[i] EXCEPT !.observedAt = Micros(@)]>>
<1> DEFINE e == Chain[i]
           f == ReadBack[i][1]
<1>1. /\ f.kind = e.kind /\ PayloadOf(f) # Nil /\ PayloadOf(e) # Nil
      /\ f.contract = e.contract /\ f.tx = e.tx /\ f.blockHash = e.blockHash
      /\ f.block = e.block /\ f.logIndex = e.logIndex
      /\ f.observedAt = Micros(e.observedAt)
      /\ PayloadTexts(f) = PayloadTexts(e)
  <2>1. PayloadOf(e) # Nil /\ (e.kind = "fulfilled" => IsPointer(PayloadOf(e)[1].round))
    BY QueryAssumption
  <2>2. e.kind \in ValidKinds
    BY ChainTyped
  <2>3. /\ f.kind = e.kind /\ PayloadOf(f) # Nil
        /\ PayloadOf(f) = <<ScanPayload(e.kind, PayloadTexts(e))>>
        /\ f.contract = e.contract /\ f.tx = e.tx /\ f.blockHash = e.blockHash
        /\ f.block = e.block /\ f.logIndex = e.logIndex
        /\ f.observedAt = Micros(e.observedAt)
    BY RowReturns
  <2> HIDE DEF e, f
  <2>4. PayloadTexts(f) = PayloadTexts(e)
    BY <2>1, <2>2, <2>3, PayloadReturns
  <2> QED
    BY <2>1, <2>3, <2>4
<1>2. Answered[i] = ToProto(f) /\ SentLive[i] = ToProto(e)[1]
  BY DEF Answered, SentLive
<1> HIDE DEF e, f
<1>3. SentLive[i] =
        [contract |-> Hex(e.contract), tx |-> Hex(e.tx), blockHash |-> Hex(e.blockHash),
         block |-> e.block, logIndex |-> e.logIndex, observedAt |-> e.observedAt,
         kind |-> EventKindToProto[e.kind], payload |-> PayloadTexts(e)]
  BY <1>1, <1>2 DEF ToProto
<1>4. Answered[i] =
        <<[contract |-> Hex(e.contract), tx |-> Hex(e.tx), blockHash |-> Hex(e.blockHash),
           block |-> e.block, logIndex |-> e.logIndex,
           observedAt |-> Micros(e.observedAt),
           kind |-> EventKindToProto[e.kind], payload |-> PayloadTexts(e)]>>
  BY <1>1, <1>2 DEF ToProto
<1>5. [[contract |-> Hex(e.contract), tx |-> Hex(e.tx), blockHash |-> Hex(e.blockHash),
        block |-> e.block, logIndex |-> e.logIndex, observedAt |-> e.observedAt,
        kind |-> EventKindToProto[e.kind], payload |-> PayloadTexts(e)]
       EXCEPT !.observedAt = Micros(@)]
      = [contract |-> Hex(e.contract), tx |-> Hex(e.tx), blockHash |-> Hex(e.blockHash),
         block |-> e.block, logIndex |-> e.logIndex,
         observedAt |-> Micros(e.observedAt),
         kind |-> EventKindToProto[e.kind], payload |-> PayloadTexts(e)]
  OBVIOUS
<1> QED
  BY <1>3, <1>4, <1>5, Zenon

-----------------------------------------------------------------------------
(* The table.                                                               *)

LEMMA SelectedWanted ==
  ASSUME filter \in ListEventsFilter, NEW i \in Position
  PROVE  Table!Selected(Arguments(filter), filter.from, filter.to, i) <=> Wanted(i)
<1> DEFINE f == Arguments(filter)
           e == Chain[i]
<1>1. /\ filter.kinds \in SUBSET ValidKinds
      /\ filter.from \in 0..HalfLong - 1 /\ filter.to \in 0..HalfLong - 1
      /\ filter.asset = Nil \/ \E a : filter.asset = <<a>>
  BY DEF ListEventsFilter
<1>2. /\ f.kinds = {EventKindNames[k] : k \in filter.kinds}
      /\ f.asset = IF filter.asset = Nil THEN Null ELSE Hex(filter.asset[1])
  <2>1. filter.kinds \cap ValidKinds = filter.kinds
    BY <1>1
  <2> QED
    BY <2>1 DEF Arguments
<1>3. e.kind \in ValidKinds
  BY ChainTyped
<1>4. /\ Stored[i].block = e.block /\ e.block \in Nat
      /\ Stored[i].kind = EventKindNames[e.kind] /\ Stored[i].asset = HexOrNull(e.asset)
  BY StoredRow, ChainTyped
<1>5. Table!Int64(filter.from) = filter.from /\ Table!Int64(filter.to) = filter.to
  <2>1. HalfLong \in Nat \ {0}
    BY QueryAssumption
  <2>2. \A n \in 0..HalfLong - 1 : Table!Int64(n) = n
    BY <2>1 DEF Table!Int64
  <2> QED
    BY <1>1, <2>2
<1> HIDE DEF f, e
<1>6. (f.kinds # {} => Stored[i].kind \in f.kinds)
        <=> (filter.kinds # {} => e.kind \in filter.kinds)
  <2>1. f.kinds # {} <=> filter.kinds # {}
    BY <1>2
  <2>2. Stored[i].kind \in f.kinds <=> e.kind \in filter.kinds
    <3>1. e.kind \in filter.kinds => Stored[i].kind \in f.kinds
      BY <1>2, <1>4
    <3>2. ASSUME Stored[i].kind \in f.kinds PROVE e.kind \in filter.kinds
      <4>1. PICK k \in filter.kinds : EventKindNames[e.kind] = EventKindNames[k]
        BY <1>2, <1>4, <3>2
      <4> QED
        BY <1>1, <1>3, <4>1, NamesDiffer
    <3> QED
      BY <3>1, <3>2
  <2> QED
    BY <2>1, <2>2
<1>7. (f.asset # Null => Stored[i].asset = f.asset)
        <=> (filter.asset # Nil => filter.asset = <<e.asset>> /\ e.asset # ZeroHash)
  <2>1. CASE filter.asset = Nil
    BY <1>2, <2>1
  <2>2. ASSUME NEW a, filter.asset = <<a>>
        PROVE  (f.asset # Null => Stored[i].asset = f.asset)
                 <=> (filter.asset # Nil
                        => filter.asset = <<e.asset>> /\ e.asset # ZeroHash)
    <3>1. filter.asset # Nil /\ f.asset = Hex(a) /\ f.asset # Null
      BY <1>2, <2>2, PointersDiffer, TextsDiffer
    <3>2. HexOrNull(e.asset) = Hex(a) <=> e.asset = a /\ e.asset # ZeroHash
      BY TextsDiffer DEF HexOrNull
    <3>3. <<a>> = <<e.asset>> <=> a = e.asset
      OBVIOUS
    <3> QED
      BY <1>4, <2>2, <3>1, <3>2, <3>3
  <2> QED
    BY <1>1, <2>1, <2>2
<1>8. (filter.from > 0 => Stored[i].block >= Table!Int64(filter.from))
        <=> e.block >= filter.from
  BY <1>1, <1>4, <1>5
<1>9. (filter.to > 0 => Stored[i].block <= Table!Int64(filter.to))
        <=> (filter.to > 0 => e.block <= filter.to)
  BY <1>4, <1>5
<1> QED
  BY <1>6, <1>7, <1>8, <1>9 DEF Table!Selected, Wanted, f, e

(* Facts names the operators of the table once more.                        *)
LEMMA SameTable ==
  ASSUME NEW order, NEW f, NEW first, NEW final, NEW limit, NEW start
  PROVE  /\ Facts!Page(order, rows, f, first, final, limit, start)
              = Table!Page(order, rows, f, first, final, limit, start)
         /\ Facts!Listings = Table!Listings
         /\ \A i : Facts!Selected(f, first, final, i) <=> Table!Selected(f, first, final, i)
<1>1. \A i : Facts!Selected(f, first, final, i) <=> Table!Selected(f, first, final, i)
  BY DEF Facts!Selected, Table!Selected, Facts!Int64, Table!Int64
<1>2. \A set : Facts!Listed(order, set) = Table!Listed(order, set)
  BY Zenon DEF Facts!Listed, Table!Listed, Facts!Nth, Table!Nth,
     Facts!UpTo, Table!UpTo, Facts!Cardinality, Table!Cardinality
<1>3. Facts!Limit(limit) = Table!Limit(limit)
  BY DEF Facts!Limit, Table!Limit
<1>4. Facts!Page(order, rows, f, first, final, limit, start)
        = Table!Page(order, rows, f, first, final, limit, start)
  BY <1>1, <1>2, <1>3 DEF Facts!Page, Table!Page
<1>5. Facts!Listings = Table!Listings
  BY Zenon DEF Facts!Listings, Table!Listings, Facts!Before, Table!Before,
     Facts!SetToSeqs, Table!SetToSeqs, Facts!Cardinality, Table!Cardinality
<1> QED
  BY <1>1, <1>4, <1>5

LEMMA SameFacts ==
  /\ \A i, j : Facts!Before(i, j) <=> Table!Before(i, j)
  /\ \A S : Facts!Cardinality(S) = Cardinality(S)
  /\ Facts!Rows = Position /\ Facts!KeysTyped
<1>1. \A i, j : Facts!Before(i, j) <=> Table!Before(i, j)
  BY DEF Facts!Before, Table!Before
<1>2. \A S : Facts!Cardinality(S) = Cardinality(S)
  BY Zenon DEF Facts!Cardinality, Cardinality
<1>3. Len(Stored) = Len(Chain) /\ Len(Chain) \in Nat
  <2>1. Len(Chain) \in Nat
    BY QueryAssumption
  <2>2. DOMAIN Stored = 1..Len(Chain)
    BY DEF Stored, Position
  <2> QED
    BY <2>1, <2>2 DEF Stored, Position
<1>4. Facts!Rows = Position
  BY <1>3 DEF Facts!Rows, Position
<1>5. Facts!KeysTyped
  BY <1>3, <1>4, StoredRow, ChainTyped DEF Facts!KeysTyped
<1> QED
  BY <1>1, <1>2, <1>4, <1>5

(* Keys are a total preorder.                                               *)
LEMMA KeyOrder ==
  ASSUME NEW i \in Position, NEW j \in Position, NEW k \in Position
  PROVE  /\ ~Table!Before(i, i)
         /\ Table!Before(i, j) /\ ~Table!Before(k, j) => Table!Before(i, k)
<1>1. \A l \in Position : Stored[l].block \in Nat /\ Stored[l].logIndex \in Nat
  BY StoredRow, ChainTyped
<1> QED
  BY <1>1 DEF Table!Before

-----------------------------------------------------------------------------
(* One page, in the terms of the walk: what EventsTableProofs says of it.   *)

NotBelow(i) == {j \in rows : Wanted(j) /\ ~Table!Before(j, i)}

LEMMA AboveFinite ==
  ASSUME rows \in SUBSET Position
  PROVE  /\ IsFiniteSet(Position) /\ Cardinality(Position) = Len(Chain)
         /\ \A i : IsFiniteSet(Above(i)) /\ Cardinality(Above(i)) \in Nat
         /\ \A i : /\ IsFiniteSet(NotBelow(i)) /\ Cardinality(NotBelow(i)) \in Nat
                  /\ Cardinality(NotBelow(i)) <= Len(Chain)
<1>1. IsFiniteSet(Position) /\ Cardinality(Position) = Len(Chain)
  <2>1. Len(Chain) \in Nat
    BY QueryAssumption
  <2>2. 1 \in Int /\ Len(Chain) \in Int /\ (1 > Len(Chain) => Len(Chain) = 0)
    BY <2>1
  <2> QED
    BY <2>2, FS_Interval DEF Position
<1>2. \A i : Above(i) \in SUBSET Position /\ NotBelow(i) \in SUBSET Position
  BY DEF Above, NotBelow
<1> QED
  BY <1>1, <1>2, FS_Subset, FS_CardinalityType

LEMMA OffsetTyped ==
  ASSUME TypeOK, Walking, page > 0
  PROVE  size \in Int /\ page \in Nat /\ Offset(page, size) \in Int
<1>1. size \in Int /\ HalfWord \in Nat \ {0}
  <2>1. size \in PageSizes
    BY DEF Walking
  <2> QED
    BY <2>1, QueryAssumption
<1>2. page \in Nat /\ (page - 1) * size \in Int
  BY <1>1 DEF TypeOK
<1>3. \A n \in Int : Int32(n) \in Int
  BY <1>1 DEF Int32, Signed
<1> QED
  BY <1>1, <1>2, <1>3 DEF Offset

(* The offset is the one meant: the product does not overflow.              *)
LEMMA OffsetPassed ==
  ASSUME TypeOK, Walking, page > 0, Proper
  PROVE  /\ Offset(page, size) = Passed /\ Passed \in Nat
         /\ size \in 1..ListLimit /\ ListLimit \in Nat /\ DefaultLimit \in Nat \ {0}
         /\ (page + 1 - 1) * size = Passed + size
<1>1. /\ size \in 1..ListLimit /\ ListLimit \in Nat /\ DefaultLimit \in Nat \ {0}
      /\ Len(Chain) \in Nat /\ HalfWord \in Nat \ {0}
      /\ HalfWord > Len(Chain) + ListLimit
  BY QueryAssumption DEF Proper
<1>2. Passed \in Nat /\ Passed <= Len(Chain) + ListLimit /\ page \in Nat
  BY DEF Walking, TypeOK
<1>3. Passed \in 0..HalfWord - 1
  BY <1>1, <1>2
<1>4. Offset(page, size) = Int32(Passed)
  BY DEF Offset, Passed
<1>5. Int32(Passed) = Passed
  BY <1>1, <1>3, SignedSame DEF Int32
<1>6. (page + 1 - 1) * size = (page - 1) * size + size
  BY <1>1, <1>2
<1> QED
  BY <1>1, <1>2, <1>4, <1>5, <1>6 DEF Passed

(* For any size, in the terms of the limit and the offset of the query.     *)
LEMMA PageFacts ==
  ASSUME TypeOK, Walking, page > 0, NEW order \in Orders
  PROVE  LET answer == ListEvents(order, page, size)
             n      == Facts!Limit(size)
             skip   == Facts!Skip(Offset(page, size))
         IN  /\ answer \in Seq(Position) /\ Len(answer) \in Nat /\ Len(answer) <= n
             /\ \A r \in 1..Len(answer) :
                  /\ answer[r] \in rows /\ Wanted(answer[r])
                  /\ Cardinality(Above(answer[r])) < skip + r
                  /\ skip + r <= Cardinality(NotBelow(answer[r]))
             /\ \A r, t \in 1..Len(answer) :
                  r < t => answer[r] # answer[t] /\ ~Table!Before(answer[r], answer[t])
             /\ \A i \in rows : Wanted(i) =>
                  \/ \E r \in 1..Len(answer) : answer[r] = i
                  \/ Cardinality(Above(i)) < skip
                  \/ /\ Len(answer) = n
                     /\ Cardinality(Above(i)) >= skip + n \/ Tied(i)
<1> DEFINE f      == Arguments(filter)
           first  == filter.from
           final  == filter.to
           answer == ListEvents(order, page, size)
           set    == Facts!Matching(rows, f, first, final)
           tpage  == Facts!Page(order, rows, f, first, final, size, Offset(page, size))
           n      == Facts!Limit(size)
           skip   == Facts!Skip(Offset(page, size))
<1>1. /\ size \in Int /\ Offset(page, size) \in Int
      /\ ListLimit \in Nat /\ DefaultLimit \in Nat \ {0}
  BY OffsetTyped, QueryAssumption
<1>2. rows \in SUBSET Position /\ filter \in ListEventsFilter
  BY DEF TypeOK
<1>3. answer = tpage
  BY SameTable DEF ListEvents
<1>5. \A i : i \in set <=> i \in rows /\ Wanted(i)
  BY <1>2, SelectedWanted, SameTable DEF Facts!Matching
<1>6. \A i : Facts!Newer(set, i) = Above(i) /\ Facts!AtLeast(set, i) = NotBelow(i)
  BY <1>5, SameFacts, Zenon DEF Facts!Newer, Facts!AtLeast, Above, NotBelow
<1>7. \A i : /\ Facts!Cardinality(Facts!Newer(set, i)) = Cardinality(Above(i))
             /\ Facts!Cardinality(Facts!AtLeast(set, i)) = Cardinality(NotBelow(i))
  BY <1>6, SameFacts
<1>8. /\ Facts!KeysTyped /\ rows \in SUBSET Facts!Rows /\ order \in Facts!Listings
      /\ size \in Int /\ Offset(page, size) \in Int
      /\ ListLimit \in Nat /\ DefaultLimit \in Nat \ {0}
  BY <1>1, <1>2, SameFacts, SameTable, QueryAssumption
<1>9. /\ tpage \in Seq(set) /\ Len(tpage) <= n
      /\ \A r, t \in 1..Len(tpage) :
           r < t => tpage[r] # tpage[t] /\ ~Facts!Before(tpage[r], tpage[t])
      /\ \A i \in set :
           \/ \E r \in 1..Len(tpage) : tpage[r] = i
           \/ Facts!Cardinality(Facts!Newer(set, i)) < skip
           \/ /\ Len(tpage) = n
              /\ \/ Facts!Cardinality(Facts!Newer(set, i)) >= skip + n
                 \/ \E j \in set \ {i} : ~Facts!Before(i, j) /\ ~Facts!Before(j, i)
  <2> HIDE DEF f, first, final, answer
  <2>1. /\ tpage \in Seq(set) /\ Len(tpage) <= n
        /\ \A r, t \in 1..Len(tpage) :
             r < t => tpage[r] # tpage[t] /\ ~Facts!Before(tpage[r], tpage[t])
        /\ \A i \in set :
             /\ Facts!Cardinality(Facts!Newer(set, i)) \in Nat
             /\ \/ \E r \in 1..Len(tpage) : tpage[r] = i
                \/ /\ Facts!Cardinality(Facts!Newer(set, i)) < skip
                   /\ \A r \in 1..Len(tpage) : ~Facts!Before(i, tpage[r])
                \/ /\ Len(tpage) = n
                   /\ \A r \in 1..Len(tpage) : ~Facts!Before(tpage[r], i)
                   /\ \/ Facts!Cardinality(Facts!Newer(set, i)) >= skip + n
                      \/ \E j \in set \ {i} : ~Facts!Before(i, j) /\ ~Facts!Before(j, i)
    BY <1>8, Facts!PageSplits
  <2> HIDE DEF tpage, set, n, skip
  <2> QED
    BY <2>1
<1>10. \A r \in 1..Len(tpage) :
         /\ Facts!Cardinality(Facts!Newer(set, tpage[r])) < skip + r
         /\ skip + r <= Facts!Cardinality(Facts!AtLeast(set, tpage[r]))
  BY <1>8, Facts!PagePlaces
<1> HIDE DEF f, first, final, answer, set, tpage, n, skip
<1>11. answer \in Seq(set) /\ Len(answer) \in Nat /\ Len(answer) <= n
  BY <1>3, <1>9, LenProperties
<1>12. answer \in Seq(Position)
  <2>1. \A r \in 1..Len(answer) : answer[r] \in Position
    BY <1>2, <1>5, <1>11, ElementOfSeq
  <2> QED
    BY <1>11, <2>1, SeqDef, LenProperties
<1>13. ASSUME NEW r \in 1..Len(answer)
       PROVE  /\ answer[r] \in rows /\ Wanted(answer[r])
              /\ Cardinality(Above(answer[r])) < skip + r
              /\ skip + r <= Cardinality(NotBelow(answer[r]))
  <2>1. answer[r] \in set
    BY <1>11, ElementOfSeq
  <2> QED
    BY <1>3, <1>5, <1>7, <1>10, <2>1
<1>14. ASSUME NEW i \in rows, Wanted(i)
       PROVE  \/ \E r \in 1..Len(answer) : answer[r] = i
              \/ Cardinality(Above(i)) < skip
              \/ /\ Len(answer) = n
                 /\ Cardinality(Above(i)) >= skip + n \/ Tied(i)
  <2>1. \/ \E r \in 1..Len(answer) : answer[r] = i
        \/ Cardinality(Above(i)) < skip
        \/ /\ Len(answer) = n
           /\ \/ Cardinality(Above(i)) >= skip + n
              \/ \E j \in set \ {i} : ~Facts!Before(i, j) /\ ~Facts!Before(j, i)
    BY <1>3, <1>5, <1>7, <1>9, <1>14
  <2>2. (\E j \in set \ {i} : ~Facts!Before(i, j) /\ ~Facts!Before(j, i)) => Tied(i)
    BY <1>5, SameFacts DEF Tied, SameKey
  <2> QED
    BY <2>1, <2>2
<1>15. \A r, t \in 1..Len(answer) :
         r < t => answer[r] # answer[t] /\ ~Table!Before(answer[r], answer[t])
  BY <1>3, <1>9, SameFacts
<1> QED
  BY <1>11, <1>12, <1>13, <1>14, <1>15 DEF answer, n, skip

(* A page of a proper size.                                                 *)
LEMMA PageHolds ==
  ASSUME TypeOK, Walking, page > 0, Proper, NEW order \in Orders
  PROVE  LET answer == ListEvents(order, page, size)
         IN  /\ Len(answer) <= size
             /\ \A r \in 1..Len(answer) :
                  /\ Cardinality(Above(answer[r])) < Passed + r
                  /\ Passed + r <= Cardinality(NotBelow(answer[r]))
             /\ \A i \in rows : Wanted(i) =>
                  \/ \E r \in 1..Len(answer) : answer[r] = i
                  \/ Cardinality(Above(i)) < Passed
                  \/ /\ Len(answer) = size
                     /\ Cardinality(Above(i)) >= Passed + size \/ Tied(i)
<1>1. /\ Offset(page, size) = Passed /\ Passed \in Nat
      /\ size \in 1..ListLimit /\ ListLimit \in Nat
  BY OffsetPassed
<1>2. Facts!Limit(size) = size /\ Facts!Skip(Offset(page, size)) = Passed
  BY <1>1 DEF Facts!Limit, Facts!Skip
<1> QED
  BY <1>2, PageFacts

(* The first page of any other size is a default page.                      *)
LEMMA FirstPageHolds ==
  ASSUME TypeOK, Walking, page = 1, ~Proper, OnePage, NEW order \in Orders
  PROVE  LET answer == ListEvents(order, page, size)
         IN  \A i \in rows : Wanted(i) =>
               Tied(i) \/ \E r \in 1..Len(answer) : answer[r] = i
<1> DEFINE answer == ListEvents(order, page, size)
           match  == {i \in rows : Wanted(i)}
<1>1. /\ size \in Int /\ ListLimit \in Nat /\ DefaultLimit \in Nat \ {0}
      /\ HalfWord \in Nat \ {0}
  BY OffsetTyped, QueryAssumption
<1>2. Facts!Limit(size) = DefaultLimit
  BY <1>1 DEF Facts!Limit, Proper
<1>3. Facts!Skip(Offset(page, size)) = 0
  <2>1. (1 - 1) * size = 0
    BY <1>1
  <2>2. Int32(0) = 0
    BY <1>1 DEF Int32, Signed
  <2>3. Offset(page, size) = 0
    BY <2>1, <2>2 DEF Offset
  <2> QED
    BY <2>3 DEF Facts!Skip
<1>4. \A i \in rows : Wanted(i) =>
        \/ \E r \in 1..Len(answer) : answer[r] = i
        \/ Cardinality(Above(i)) < 0
        \/ Cardinality(Above(i)) >= 0 + DefaultLimit
        \/ Tied(i)
  BY <1>2, <1>3, PageFacts
<1> HIDE DEF answer
<1>5. ASSUME NEW i \in rows, Wanted(i)
      PROVE  Cardinality(Above(i)) \in Nat /\ Cardinality(Above(i)) < DefaultLimit
  <2>1. rows \in SUBSET Position /\ i \in Position
    BY DEF TypeOK
  <2>2. /\ IsFiniteSet(match) /\ Cardinality(match) \in Nat
        /\ Cardinality(match) <= DefaultLimit
    <3>1. IsFiniteSet(Position) /\ match \in SUBSET Position
      BY <2>1, AboveFinite
    <3> QED
      BY <3>1, FS_Subset, FS_CardinalityType DEF OnePage
  <2>3. Above(i) \in SUBSET match /\ i \in match /\ i \notin Above(i)
    BY <1>5, <2>1, KeyOrder DEF Above
  <2>4. Above(i) # match
    BY <2>3
  <2>5. /\ Cardinality(Above(i)) <= Cardinality(match)
        /\ Cardinality(Above(i)) # Cardinality(match)
        /\ Cardinality(Above(i)) \in Nat
    BY <2>1, <2>2, <2>3, <2>4, FS_Subset, AboveFinite
  <2> QED
    BY <1>1, <2>2, <2>5
<1>6. ASSUME NEW i \in rows, Wanted(i)
      PROVE  Tied(i) \/ \E r \in 1..Len(answer) : answer[r] = i
  BY <1>1, <1>4, <1>5, <1>6
<1> QED
  BY <1>6 DEF answer

-----------------------------------------------------------------------------
(* Initial states and inserts.                                              *)

LEMMA InitWalk == Init => WalkInv
<1> SUFFICES ASSUME Init PROVE WalkInv
  OBVIOUS
<1>1. TypeOK
  <2>1. filter \in ListEventsFilter
    BY QueryAssumption DEF Init, ListEventsFilter
  <2>2. rows \in SUBSET Position
    BY DEF Init, Bootstrap
  <2>3. /\ got \in Seq(Position) /\ since \in SUBSET rows
        /\ size \in PageSizes \cup {0} /\ page \in Nat /\ over \in BOOLEAN
    BY EmptySeq DEF Init
  <2> QED
    BY <2>1, <2>2, <2>3 DEF TypeOK
<1>2. Walking /\ SeesWanted /\ NoneMissed /\ FirstPage /\ Behind
  BY DEF Init, Walking, SeesWanted, NoneMissed, FirstPage, Behind
<1> QED
  BY <1>1, <1>2 DEF WalkInv

(* An insert only adds rows above, and makes ties.                          *)
LEMMA InsertWalk ==
  ASSUME WalkInv, NEW i \in Position, Insert(i)
  PROVE  WalkInv'
<1>1. /\ i \notin rows /\ rows' = rows \cup {i}
      /\ filter' = filter /\ size' = size /\ page' = page /\ got' = got
      /\ since' = since /\ over' = over
  BY DEF Insert, walkVars
<1>2. TypeOK'
  BY <1>1 DEF WalkInv, TypeOK
<1>3. \A j : Wanted(j)' <=> Wanted(j)
  BY <1>1 DEF Wanted
<1>4. \A j : Tied(j) => Tied(j)'
  <2>1. \A j, k : SameKey(j, k)' <=> SameKey(j, k)
    BY DEF SameKey, Table!Before
  <2> QED
    BY <1>1, <1>3, <2>1 DEF Tied
<1>5. \A j : Cardinality(Above(j)) \in Nat /\ Cardinality(Above(j)') \in Nat
              /\ Cardinality(Above(j)) <= Cardinality(Above(j)')
  <2>1. \A j, k : Table!Before(j, k)' <=> Table!Before(j, k)
    BY DEF Table!Before
  <2>2. \A j : Above(j) \in SUBSET (Above(j)')
    BY <1>1, <1>3, <2>1 DEF Above
  <2>3. \A j : IsFiniteSet(Above(j)) /\ Cardinality(Above(j)) \in Nat
    BY AboveFinite DEF WalkInv, TypeOK
  <2>4. \A j : IsFiniteSet(Above(j)') /\ Cardinality(Above(j)') \in Nat
    <3>1. \A j : Above(j)' \in SUBSET Position
      BY <1>2 DEF Above, TypeOK
    <3>2. IsFiniteSet(Position)
      BY AboveFinite DEF WalkInv, TypeOK
    <3> QED
      BY <3>1, <3>2, FS_Subset, FS_CardinalityType
  <2> QED
    BY <2>2, <2>3, <2>4, FS_Subset
<1>6. Passed' = Passed /\ (Proper' <=> Proper)
  BY <1>1 DEF Passed, Proper
<1>7. Walking' /\ SeesWanted'
  <2>1. Walking'
    BY <1>1, <1>6 DEF WalkInv, Walking
  <2>2. SeesWanted'
    BY <1>1, <1>3 DEF WalkInv, SeesWanted
  <2> QED
    BY <2>1, <2>2
<1>8. NoneMissed'
  <2> SUFFICES ASSUME Proper, NEW j \in since, Wanted(j)
               PROVE  \/ Seen(j)'
                      \/ Tied(j)'
                      \/ page > 0 /\ Cardinality(Above(j)') >= Passed
    <3>1. \A j \in since' : Wanted(j)' => j \in since /\ Wanted(j)
      BY <1>1, <1>3
    <3> QED
      BY <1>1, <1>6, <3>1 DEF NoneMissed
  <2>1. Seen(j) \/ Tied(j) \/ (page > 0 /\ Cardinality(Above(j)) >= Passed)
    BY DEF WalkInv, NoneMissed
  <2>2. page > 0 => Passed \in Nat
    BY DEF WalkInv, Walking
  <2>3. Seen(j) => Seen(j)'
    BY <1>1 DEF Seen
  <2> QED
    BY <1>4, <1>5, <2>1, <2>2, <2>3
<1>9. Behind'
  <2>1. rows' # since'
    BY <1>1 DEF WalkInv, TypeOK
  <2> QED
    BY <2>1 DEF Behind
<1>10. OnePage' => OnePage
  <2> DEFINE match == {j \in rows : Wanted(j)}
             more  == {j \in rows' : Wanted(j)'}
  <2>1. match \in SUBSET more
    BY <1>1, <1>3
  <2>2. more \in SUBSET Position /\ IsFiniteSet(Position) /\ DefaultLimit \in Nat
    BY <1>2, AboveFinite, QueryAssumption DEF WalkInv, TypeOK
  <2> HIDE DEF match, more
  <2>3. /\ Cardinality(match) \in Nat /\ Cardinality(more) \in Nat
        /\ Cardinality(match) <= Cardinality(more)
    BY <2>1, <2>2, FS_Subset, FS_CardinalityType
  <2>4. Cardinality(more) <= DefaultLimit => Cardinality(match) <= DefaultLimit
    BY <2>2, <2>3
  <2> QED
    BY <2>4 DEF OnePage, match, more
<1>11. FirstPage'
  <2>1. \A j : Seen(j) => Seen(j)'
    BY <1>1 DEF Seen
  <2>2. FirstPage
    BY DEF WalkInv
  <2> QED
    BY <1>1, <1>3, <1>4, <1>6, <1>10, <2>1, <2>2 DEF FirstPage
<1> QED
  BY <1>2, <1>7, <1>8, <1>9, <1>11 DEF WalkInv

-----------------------------------------------------------------------------
(* A walk begins.                                                           *)

LEMMA FilterTyped ==
  ASSUME NEW wire, NEW range \in Ranges,
         NEW asset \in {Hex(Chain[i].asset) : i \in Position} \cup {Empty, Null}
  PROVE  BuildFilter(wire, asset, range) \in ListEventsFilter
<1>1. {EventKindFromProto(w) : w \in wire} \ {"unknown"} \in SUBSET ValidKinds
  <2>1. \A w : EventKindFromProto(w) \in ValidKinds \cup {"unknown"}
    BY DEF EventKindFromProto
  <2> QED
    BY <2>1
<1>2. ParseAssetID(asset) \in {<<Chain[i].asset>> : i \in Position} \cup {Nil}
  <2>1. "hex" # "null" /\ "hex" # "empty"
    OBVIOUS
  <2> QED
    BY <2>1, TextsDiffer DEF ParseAssetID
<1>3. range[1] \in 0..HalfLong - 1 /\ range[2] \in 0..HalfLong - 1
  BY QueryAssumption
<1> QED
  BY <1>1, <1>2, <1>3 DEF BuildFilter, ListEventsFilter

LEMMA StartWalkWalk ==
  ASSUME WalkInv, NEW wire \in SUBSET WireKinds, NEW range \in Ranges,
         NEW n \in PageSizes,
         NEW asset \in {Hex(Chain[i].asset) : i \in Position} \cup {Empty, Null},
         StartWalk(wire, asset, range, n)
  PROVE  WalkInv'
<1>1. /\ page = 0 /\ ~over
      /\ filter' = BuildFilter(wire, asset, range) /\ size' = n /\ page' = 1
      /\ since' = rows /\ rows' = rows /\ got' = got /\ over' = over
  BY DEF StartWalk
<1>2. got' = <<>>
  BY <1>1 DEF WalkInv, Walking
<1>3. TypeOK'
  <2>1. filter' \in ListEventsFilter
    BY <1>1, FilterTyped
  <2> QED
    BY <1>1, <2>1 DEF WalkInv, TypeOK
<1>4. n \in Int /\ Len(Chain) \in Nat /\ ListLimit \in Nat
  BY QueryAssumption
<1>5. Passed' = 0
  BY <1>1, <1>4 DEF Passed
<1>6. Walking'
  BY <1>1, <1>4, <1>5 DEF Walking
<1>7. Len(got') = 0
  BY <1>2
<1>8. SeesWanted' /\ Behind'
  BY <1>7 DEF SeesWanted, Behind, Then, Seen
<1>9. NoneMissed'
  <2>1. \A j : Cardinality(Above(j)') \in Nat
    <3>1. \A j : Above(j)' \in SUBSET Position
      BY <1>3 DEF Above, TypeOK
    <3>2. IsFiniteSet(Position)
      BY AboveFinite DEF WalkInv, TypeOK
    <3> QED
      BY <3>1, <3>2, FS_Subset, FS_CardinalityType
  <2>2. page' > 0
    BY <1>1
  <2> QED
    BY <1>5, <2>1, <2>2 DEF NoneMissed
<1>10. FirstPage'
  BY <1>1 DEF FirstPage
<1> QED
  BY <1>3, <1>6, <1>8, <1>9, <1>10 DEF WalkInv

-----------------------------------------------------------------------------
(* The next page.                                                           *)

(* What is on a page follows what was received before: a row above it is    *)
(* not behind yet, and a row received twice has another one of its key.     *)
LEMMA PageFollows ==
  ASSUME WalkInv, page > 0, Proper, NEW g \in rows, NEW p \in rows, Wanted(g), Wanted(p),
         Cardinality(Above(g)) < Passed, NEW r \in Nat \ {0},
         Passed + r <= Cardinality(NotBelow(p))
  PROVE  Follows(g, p)
<1>1. /\ rows \in SUBSET Position
      /\ Passed \in Nat /\ g \in Position /\ p \in Position
  BY DEF WalkInv, TypeOK, Walking
<1>2. /\ IsFiniteSet(Above(g)) /\ Cardinality(Above(g)) \in Nat
      /\ IsFiniteSet(NotBelow(p)) /\ Cardinality(NotBelow(p)) \in Nat
  BY <1>1, AboveFinite
<1>3. ~(NotBelow(p) \subseteq Above(g))
  BY <1>1, <1>2, FS_Subset
<1>4. ~Table!Before(g, p)
  <2> SUFFICES ASSUME Table!Before(g, p) PROVE NotBelow(p) \subseteq Above(g)
    BY <1>3
  <2>1. \A j \in Position : ~Table!Before(j, p) => Table!Before(g, j)
    BY <1>1, KeyOrder
  <2> QED
    BY <1>1, <2>1 DEF NotBelow, Above
<1>5. CASE Table!Before(p, g)
  BY <1>5 DEF Follows
<1>6. CASE ~Table!Before(p, g) /\ p # g
  BY <1>4, <1>6 DEF Follows, SameKey, Tied
<1>7. CASE p = g
  <2>1. ~(NotBelow(g) \subseteq Above(g) \cup {g})
    <3>1. IsFiniteSet(Above(g) \cup {g})
      BY <1>2, FS_AddElement
    <3>2. Cardinality(Above(g) \cup {g}) <= Cardinality(Above(g)) + 1
      <4>1. Cardinality(Above(g) \cup {g}) =
              IF g \in Above(g) THEN Cardinality(Above(g)) ELSE Cardinality(Above(g)) + 1
        BY <1>2, FS_AddElement, Zenon
      <4> QED
        BY <1>2, <4>1
    <3>3. Cardinality(Above(g) \cup {g}) \in Nat
      BY <3>1, FS_CardinalityType
    <3>4. Cardinality(NotBelow(g)) > Cardinality(Above(g)) + 1
          \/ Cardinality(NotBelow(g)) >= Passed + 1
      BY <1>1, <1>2, <1>7
    <3> QED
      BY <1>1, <1>2, <1>7, <3>1, <3>2, <3>3, <3>4, FS_Subset
  <2>2. PICK j \in NotBelow(g) : j \notin Above(g) /\ j # g
    BY <2>1
  <2>3. /\ j \in rows \ {g} /\ Wanted(j)
        /\ ~Table!Before(j, g) /\ ~Table!Before(g, j)
    BY <2>2 DEF NotBelow, Above
  <2>4. Tied(g)
    BY <2>3 DEF Tied, SameKey
  <2>5. SameKey(g, p)
    BY <1>1, <1>7, KeyOrder DEF SameKey
  <2> QED
    BY <2>4, <2>5 DEF Follows
<1> QED
  BY <1>5, <1>6, <1>7

LEMMA NextPageWalk ==
  ASSUME WalkInv, NextPage
  PROVE  WalkInv'
<1>1. PICK order \in Orders :
        LET answer == ListEvents(order, page, size)
        IN  /\ page > 0
            /\ got' = got \o answer
            /\ over' = (answer = <<>>)
            /\ page' = IF answer = <<>> THEN 0 ELSE page + 1
            /\ rows' = rows /\ filter' = filter /\ size' = size /\ since' = since
  BY DEF NextPage
<1> DEFINE answer == ListEvents(order, page, size)
<1>2. /\ page > 0 /\ got' = got \o answer
      /\ rows' = rows /\ filter' = filter /\ size' = size /\ since' = since
      /\ answer = <<>> => over' /\ page' = 0
      /\ answer # <<>> => ~over' /\ page' = page + 1
      /\ over' \in BOOLEAN
  BY <1>1
<1>3. /\ answer \in Seq(Position) /\ Len(answer) \in Nat
      /\ \A r \in 1..Len(answer) : answer[r] \in rows /\ Wanted(answer[r])
      /\ \A r, t \in 1..Len(answer) :
           r < t => answer[r] # answer[t] /\ ~Table!Before(answer[r], answer[t])
  BY <1>1, PageFacts DEF WalkInv
<1>4. ASSUME Proper
      PROVE  /\ Len(answer) <= size
             /\ \A r \in 1..Len(answer) :
                  /\ Cardinality(Above(answer[r])) < Passed + r
                  /\ Passed + r <= Cardinality(NotBelow(answer[r]))
             /\ \A i \in rows : Wanted(i) =>
                  \/ \E r \in 1..Len(answer) : answer[r] = i
                  \/ Cardinality(Above(i)) < Passed
                  \/ /\ Len(answer) = size
                     /\ Cardinality(Above(i)) >= Passed + size \/ Tied(i)
             /\ Passed \in Nat /\ size \in 1..ListLimit /\ ListLimit \in Nat
             /\ (page + 1 - 1) * size = Passed + size
  BY <1>1, <1>4, PageHolds, OffsetPassed DEF WalkInv
<1> HIDE DEF answer
<1>5. /\ rows \in SUBSET Position /\ since \in SUBSET rows /\ page \in Nat
      /\ got \in Seq(Position) /\ Len(got) \in Nat
      /\ \A j : Cardinality(Above(j)) \in Nat
  BY AboveFinite, LenProperties DEF WalkInv, TypeOK
<1>6. /\ got' \in Seq(Position) /\ Len(got') = Len(got) + Len(answer)
      /\ \A k \in 1..Len(got) : got'[k] = got[k]
      /\ \A r \in 1..Len(answer) : got'[Len(got) + r] = answer[r]
      /\ \A k \in 1..Len(got') :
           k \in 1..Len(got) \/ k - Len(got) \in 1..Len(answer)
  <2>1. got \o answer \in Seq(Position) /\ Len(got \o answer) = Len(got) + Len(answer)
    BY <1>3, <1>5, ConcatProperties
  <2>2. \A k \in 1..Len(got) + Len(answer) :
          (got \o answer)[k] = IF k <= Len(got) THEN got[k] ELSE answer[k - Len(got)]
    BY <1>3, <1>5, ConcatProperties
  <2>3. \A r \in 1..Len(answer) :
          /\ Len(got) + r \in 1..Len(got) + Len(answer)
          /\ ~(Len(got) + r <= Len(got)) /\ Len(got) + r - Len(got) = r
    BY <1>3, <1>5
  <2>4. \A k \in 1..Len(got) : k \in 1..Len(got) + Len(answer) /\ k <= Len(got)
    BY <1>3, <1>5
  <2>5. \A k \in 1..Len(got) + Len(answer) :
          k \in 1..Len(got) \/ k - Len(got) \in 1..Len(answer)
    BY <1>3, <1>5
  <2> QED
    BY <1>2, <2>1, <2>2, <2>3, <2>4, <2>5
<1>7. /\ \A i : Wanted(i)' <=> Wanted(i)
      /\ \A i, j : Table!Before(i, j)' <=> Table!Before(i, j)
  BY <1>2 DEF Wanted, Table!Before
<1>8. /\ \A i : Above(i)' = Above(i)
      /\ \A i : Tied(i)' <=> Tied(i)
      /\ \A i, j : Follows(i, j)' <=> Follows(i, j)
      /\ (Proper' <=> Proper) /\ (OnePage' <=> OnePage)
  BY <1>2, <1>7 DEF Above, Tied, SameKey, Follows, Proper, OnePage
<1>9. answer = <<>> <=> Len(answer) = 0
  BY <1>3, EmptySeq
<1>10. TypeOK'
  BY <1>2, <1>5, <1>6 DEF WalkInv, TypeOK
<1>11. Proper /\ answer # <<>> => Passed' = Passed + size
  <2> SUFFICES ASSUME Proper, answer # <<>> PROVE (page' - 1) * size' = Passed + size
    BY DEF Passed
  <2>1. page' = page + 1 /\ size' = size
    BY <1>2
  <2>2. ASSUME NEW p, NEW n, p = page + 1, n = size
        PROVE  (p - 1) * n = (page + 1 - 1) * size
    <3>1. p - 1 = page + 1 - 1
      BY <1>5, <2>2
    <3> QED
      BY <2>2, <3>1, Zenon
  <2> QED
    BY <1>4, <2>1, <2>2
<1>12. Walking'
  <2>1. CASE answer = <<>>
    BY <1>2, <2>1 DEF Walking
  <2>2. CASE answer # <<>>
    <3>1. 1 \in 1..Len(answer)
      BY <1>3, <1>9, <2>2
    <3>2. Proper => Passed + 1 <= Len(Chain)
      <4>1. /\ Proper => Passed + 1 <= Cardinality(NotBelow(answer[1]))
            /\ Cardinality(NotBelow(answer[1])) \in Nat
            /\ Cardinality(NotBelow(answer[1])) <= Len(Chain)
        BY <1>4, <1>5, <3>1, AboveFinite
      <4>2. Len(Chain) \in Nat
        BY QueryAssumption
      <4> QED
        BY <1>4, <4>1, <4>2
    <3>3. Len(Chain) \in Nat
      BY QueryAssumption
    <3>4. size \in PageSizes
      BY <1>2 DEF WalkInv, Walking
    <3>5. Proper => Passed' \in Nat /\ Passed' <= Len(Chain) + ListLimit
      BY <1>4, <1>11, <2>2, <3>2, <3>3
    <3> QED
      BY <1>2, <1>5, <1>8, <2>2, <3>4, <3>5 DEF Walking
  <2> QED
    BY <2>1, <2>2
<1>13. SeesWanted'
  <2> SUFFICES ASSUME NEW k \in 1..Len(got') PROVE got'[k] \in rows /\ Wanted(got'[k])
    BY <1>2, <1>7 DEF SeesWanted
  <2>1. CASE k \in 1..Len(got)
    BY <1>6, <2>1 DEF WalkInv, SeesWanted
  <2>2. CASE k - Len(got) \in 1..Len(answer)
    <3>1. k = Len(got) + (k - Len(got))
      BY <1>5
    <3> QED
      BY <1>3, <1>6, <2>2, <3>1
  <2> QED
    BY <1>6, <2>1, <2>2
<1>14. NoneMissed'
  <2> SUFFICES ASSUME Proper, NEW i \in since, Wanted(i)
               PROVE  \/ Seen(i)'
                      \/ Tied(i)
                      \/ page' > 0 /\ Cardinality(Above(i)) >= Passed'
    <3>1. \A i \in since' : Wanted(i)' => i \in since /\ Wanted(i)
      BY <1>2, <1>7
    <3> QED
      BY <1>8, <3>1 DEF NoneMissed
  <2>1. \A r \in 1..Len(answer) : Len(got) + r \in 1..Len(got')
    BY <1>3, <1>5, <1>6
  <2>2. \A k \in 1..Len(got) : k \in 1..Len(got')
    BY <1>3, <1>5, <1>6
  <2>3. CASE Seen(i)
    <3>1. PICK k \in 1..Len(got) : got[k] = i
      BY <2>3 DEF Seen
    <3> QED
      BY <1>6, <2>2, <3>1 DEF Seen
  <2>4. CASE \E r \in 1..Len(answer) : answer[r] = i
    <3>1. PICK r \in 1..Len(answer) : answer[r] = i
      BY <2>4
    <3> QED
      BY <1>6, <2>1, <3>1 DEF Seen
  <2>5. CASE Cardinality(Above(i)) >= Passed /\ ~\E r \in 1..Len(answer) : answer[r] = i
    <3>1. Len(answer) = size /\ (Cardinality(Above(i)) >= Passed + size \/ Tied(i))
      <4>1. Passed \in Nat /\ Cardinality(Above(i)) \in Nat /\ i \in rows
        BY <1>4, <1>5
      <4>2. ~(Cardinality(Above(i)) < Passed)
        BY <2>5, <4>1
      <4> QED
        BY <1>4, <2>5, <4>1, <4>2
    <3>2. answer # <<>>
      BY <1>4, <1>9, <3>1
    <3> QED
      BY <1>2, <1>5, <1>11, <3>1, <3>2
  <2>6. Seen(i) \/ Tied(i) \/ Cardinality(Above(i)) >= Passed
    BY DEF WalkInv, NoneMissed
  <2> QED
    BY <2>3, <2>4, <2>5, <2>6
<1>15. Behind'
  <2> SUFFICES ASSUME Proper, rows = since
               PROVE  /\ \A i, j \in rows : Then(i, j)' => Follows(i, j)
                      /\ page' > 0 => \A i \in rows :
                                       Seen(i)' => Cardinality(Above(i)) < Passed'
    BY <1>2, <1>8 DEF Behind
  <2>1. /\ \A j, k \in 1..Len(got) : j < k => Follows(got[j], got[k])
        /\ \A k \in 1..Len(got) : Cardinality(Above(got[k])) < Passed
        /\ \A k \in 1..Len(got) : got[k] \in rows /\ Wanted(got[k])
    BY <1>2 DEF WalkInv, Behind, SeesWanted, Then, Seen
  <2>2. ASSUME NEW j \in 1..Len(got'), NEW k \in 1..Len(got'), j < k
        PROVE  Follows(got'[j], got'[k])
    <3> DEFINE t == k - Len(got)
    <3>1. CASE j \in 1..Len(got) /\ k \in 1..Len(got)
      BY <1>6, <2>1, <2>2, <3>1
    <3>2. CASE j \in 1..Len(got) /\ t \in 1..Len(answer)
      <4>1. k = Len(got) + t /\ t \in Nat \ {0}
        BY <1>5, <3>2
      <4>2. got'[j] = got[j] /\ got'[k] = answer[t]
        BY <1>6, <3>2, <4>1
      <4> HIDE DEF t
      <4> QED
        BY <1>2, <1>3, <1>4, <2>1, <3>2, <4>1, <4>2, PageFollows
    <3>3. CASE j - Len(got) \in 1..Len(answer) /\ t \in 1..Len(answer)
      <4> DEFINE r == j - Len(got)
      <4>1. j = Len(got) + r /\ k = Len(got) + t /\ r < t
        BY <1>5, <2>2
      <4>2. got'[j] = answer[r] /\ got'[k] = answer[t]
        BY <1>6, <3>3, <4>1
      <4>3. /\ answer[r] # answer[t] /\ ~Table!Before(answer[r], answer[t])
            /\ answer[t] \in rows /\ Wanted(answer[t])
        BY <1>3, <3>3, <4>1
      <4> HIDE DEF r, t
      <4> QED
        BY <4>2, <4>3 DEF Follows, Tied, SameKey
    <3> QED
      BY <1>3, <1>5, <1>6, <2>2, <3>1, <3>2, <3>3
  <2>3. ASSUME page' > 0, NEW k \in 1..Len(got')
        PROVE  Cardinality(Above(got'[k])) < Passed'
    <3>1. Passed' = Passed + size
      BY <1>2, <1>11, <2>3
    <3>2. CASE k \in 1..Len(got)
      BY <1>4, <1>5, <1>6, <2>1, <3>1, <3>2
    <3>3. CASE k - Len(got) \in 1..Len(answer)
      <4> DEFINE t == k - Len(got)
      <4>1. k = Len(got) + t /\ t <= size /\ t \in Nat
        BY <1>3, <1>4, <1>5, <3>3
      <4>2. got'[k] = answer[t] /\ Cardinality(Above(answer[t])) < Passed + t
        BY <1>4, <1>6, <3>3, <4>1
      <4> HIDE DEF t
      <4> QED
        BY <1>4, <1>5, <3>1, <4>1, <4>2
    <3> QED
      BY <1>6, <3>2, <3>3
  <2> QED
    BY <2>2, <2>3 DEF Then, Seen
<1>16. FirstPage'
  <2> SUFFICES ASSUME ~Proper, OnePage, NEW i \in since, Wanted(i)
               PROVE  Seen(i)' \/ Tied(i)
    <3>1. \A i \in since' : Wanted(i)' => i \in since /\ Wanted(i)
      BY <1>2, <1>7
    <3> QED
      BY <1>8, <3>1 DEF FirstPage
  <2>1. CASE page = 1
    <3>1. Tied(i) \/ \E r \in 1..Len(answer) : answer[r] = i
      BY <1>1, <1>5, <2>1, FirstPageHolds DEF WalkInv, answer
    <3>2. \A r \in 1..Len(answer) : Len(got) + r \in 1..Len(got')
      BY <1>3, <1>5, <1>6
    <3> QED
      BY <1>6, <3>1, <3>2 DEF Seen
  <2>2. CASE page > 1
    <3>1. Seen(i) \/ Tied(i)
      BY <2>2 DEF WalkInv, FirstPage
    <3>2. \A k \in 1..Len(got) : k \in 1..Len(got')
      BY <1>3, <1>5, <1>6
    <3> QED
      BY <1>6, <3>1, <3>2 DEF Seen
  <2> QED
    BY <1>2, <1>5, <2>1, <2>2
<1> QED
  BY <1>10, <1>12, <1>13, <1>14, <1>15, <1>16 DEF WalkInv

-----------------------------------------------------------------------------
(* Theorems.                                                                *)

LEMMA StutterWalk ==
  ASSUME WalkInv, UNCHANGED vars
  PROVE  WalkInv'
<1>1. /\ rows' = rows /\ filter' = filter /\ size' = size /\ page' = page
      /\ got' = got /\ since' = since /\ over' = over
  BY DEF vars, walkVars
<1>2. /\ \A i : Wanted(i)' <=> Wanted(i)
      /\ \A i, j : Table!Before(i, j)' <=> Table!Before(i, j)
      /\ Passed' = Passed /\ (Proper' <=> Proper)
  BY <1>1 DEF Wanted, Table!Before, Passed, Proper
<1>3. /\ \A i : Above(i)' = Above(i)
      /\ \A i : Tied(i)' <=> Tied(i)
      /\ \A i : Seen(i)' <=> Seen(i)
      /\ \A i, j : Follows(i, j)' <=> Follows(i, j)
      /\ OnePage' <=> OnePage
  BY <1>1, <1>2 DEF Above, Tied, SameKey, Follows, Seen, OnePage
<1>4. TypeOK' /\ Walking'
  BY <1>1, <1>2 DEF WalkInv, TypeOK, Walking
<1>5. SeesWanted' /\ NoneMissed' /\ FirstPage' /\ Behind'
  BY <1>1, <1>2, <1>3
     DEF WalkInv, SeesWanted, NoneMissed, FirstPage, Behind, Then
<1> QED
  BY <1>4, <1>5 DEF WalkInv

LEMMA WalkAlways == Spec => []WalkInv
<1>1. WalkInv /\ [Next]_vars => WalkInv'
  BY InsertWalk, StartWalkWalk, NextPageWalk, StutterWalk DEF Next
<1> QED
  BY <1>1, InitWalk, PTL DEF Spec

(* Type correctness of the queries, for every table, filter and page size:  *)
(* every page of a walk is a list of rows of the table.                     *)
THEOREM TypeCorrect == Spec => []TypeOK
<1>1. WalkInv => TypeOK
  BY DEF WalkInv
<1> QED
  BY <1>1, WalkAlways, PTL

(* However far a client walks with a page size ListEvents accepts, the      *)
(* offset of the query is the product it was meant to be: the table ends    *)
(* long before the 32 bits in which (page - 1) * page_size is computed.     *)
THEOREM OffsetsExact == Spec => [](page > 0 /\ Proper => Offset(page, size) = Passed)
<1>1. WalkInv => (page > 0 /\ Proper => Offset(page, size) = Passed)
  BY OffsetPassed DEF WalkInv
<1> QED
  BY <1>1, WalkAlways, PTL

(* A client that walks the pages of ListEvents to the end has seen every    *)
(* matching row that was there at the beginning, with a page size that      *)
(* ListEvents accepts or when all that match fit a default page.            *)
THEOREM WalksComplete == Spec => []WalkComplete
<1>1. WalkInv => WalkComplete
  <2> SUFFICES ASSUME WalkInv, over PROVE WalkComplete
    BY DEF WalkComplete
  <2>1. ~(page > 0)
    BY DEF WalkInv, Walking
  <2>2. \A k \in 1..Len(got) : Wanted(got[k])
    BY DEF WalkInv, SeesWanted
  <2>3. Proper \/ OnePage => \A i \in since : Wanted(i) => Seen(i) \/ Tied(i)
    BY <2>1 DEF WalkInv, NoneMissed, FirstPage
  <2> QED
    BY <2>2, <2>3 DEF WalkComplete, Seen
<1> QED
  BY <1>1, WalkAlways, PTL

(* Over a table that rests its pages are one list, newest first, without    *)
(* repetition.                                                              *)
THEOREM WalksDescend == Spec => []WalkDescends
<1>1. WalkInv => WalkDescends
  <2> SUFFICES ASSUME WalkInv, Proper, rows = since,
                      NEW j \in 1..Len(got), NEW k \in 1..Len(got), j < k
               PROVE  Follows(got[j], got[k])
    BY DEF WalkDescends, Follows
  <2>1. Then(got[j], got[k]) /\ got[j] \in rows /\ got[k] \in rows
    BY DEF Then, WalkInv, SeesWanted
  <2> QED
    BY <2>1 DEF WalkInv, Behind
<1> QED
  BY <1>1, WalkAlways, PTL

(* What is read back from a row is what was decoded from the log.           *)
THEOREM AnswersFaithful == Spec => []AnsweredAsObserved
<1>1. TypeOK => AnsweredAsObserved
  BY RowReturns, AnswerReturns DEF TypeOK, AnsweredAsObserved
<1> QED
  BY <1>1, TypeCorrect, PTL

-----------------------------------------------------------------------------
(* GetRequest: the rows of a request.                                       *)

RowsFor(table, r) == {i \in table : Chain[i].req = <<r>>}

LEMMA RequestRows ==
  ASSUME NEW table \in SUBSET Position, NEW order \in Orders, NEW r
  PROVE  LET events == Table!ForRequest(order, table, Dec(r))
         IN  /\ Len(events) \in Nat
             /\ events = <<>> <=> Len(events) = 0
             /\ RowsFor(table, r) = {events[m] : m \in 1..Len(events)}
<1> DEFINE events == Table!ForRequest(order, table, Dec(r))
           set    == RowsFor(table, r)
           q      == Facts!Listed(order, set)
<1>1. {i \in table : Stored[i].req = Dec(r)} = set
  <2>1. \A i \in table : Stored[i].req = DecimalOrNull(Chain[i].req)
    BY DEF Stored, RowOf
  <2>2. \A n : Dec(n).of = n /\ Dec(n).form = "dec"
    BY DEF Dec
  <2>3. Null.form = "null" /\ "null" # "dec"
    BY DEF Null
  <2>4. \A n, m : Dec(n) = Dec(m) => n = m
    <3> SUFFICES ASSUME NEW n, NEW m, Dec(n) = Dec(m) PROVE n = m
      OBVIOUS
    <3>1. Dec(n).of = Dec(m).of
      OBVIOUS
    <3> QED
      BY <2>2, <3>1
  <2>5. \A n : Dec(n) # Null
    BY <2>2, <2>3
  <2>6. ASSUME NEW i \in table
        PROVE  DecimalOrNull(Chain[i].req) = Dec(r) <=> Chain[i].req = <<r>>
    <3>1. CASE Chain[i].req = Nil
      BY <2>5, <3>1, PointersDiffer DEF DecimalOrNull
    <3>2. CASE Chain[i].req # Nil
      <4>1. Chain[i].req = <<Chain[i].req[1]>>
        BY <3>2, QueryAssumption DEF IsPointer
      <4>2. DecimalOrNull(Chain[i].req) = Dec(Chain[i].req[1])
        BY <3>2 DEF DecimalOrNull
      <4>3. Chain[i].req[1] = r <=> Chain[i].req = <<r>>
        BY <4>1
      <4> QED
        BY <2>4, <4>2, <4>3
    <3> QED
      BY <3>1, <3>2
  <2> QED
    BY <2>1, <2>6 DEF RowsFor
<1>2. Facts!Listed(order, set) = Table!Listed(order, set)
  BY Zenon DEF Facts!Listed, Table!Listed, Facts!Nth, Table!Nth,
     Facts!UpTo, Table!UpTo, Facts!Cardinality, Table!Cardinality
<1>3. events = [m \in 1..Len(q) |-> q[(Len(q) - m) + 1]]
  BY <1>1, <1>2 DEF Table!ForRequest, Table!Reverse
<1>4. set \in SUBSET Position
  BY DEF RowsFor
<1> HIDE DEF events, set
<1>5. Facts!Descending(q, set)
  <2>1. Facts!KeysTyped /\ order \in Facts!Listings /\ set \in SUBSET Facts!Rows
    BY <1>4, SameFacts, SameTable, QueryAssumption
  <2> QED
    BY <2>1, Facts!ListedSorted
<1> HIDE DEF q
<1>6. /\ q \in Seq(set) /\ Len(q) \in Nat
      /\ \A m \in 1..Len(q) : q[m] \in set
      /\ \A i \in set : \E m \in 1..Len(q) : q[m] = i
  BY <1>5, LenProperties, ElementOfSeq DEF Facts!Descending
<1>7. \A m \in 1..Len(q) : (Len(q) - m) + 1 \in 1..Len(q)
  BY <1>6
<1>8. events \in Seq(set) /\ Len(events) = Len(q)
  <2>1. events \in [1..Len(q) -> set]
    BY <1>3, <1>6, <1>7
  <2>2. events \in Seq(set)
    BY <1>6, <2>1, SeqDef
  <2> QED
    BY <1>6, <2>1, <2>2, LenProperties
<1>9. \A i \in set : \E m \in 1..Len(q) : events[m] = i
  <2> SUFFICES ASSUME NEW i \in set PROVE \E m \in 1..Len(q) : events[m] = i
    OBVIOUS
  <2>1. PICK m \in 1..Len(q) : q[m] = i
    BY <1>6
  <2>2. (Len(q) - m) + 1 \in 1..Len(q) /\ (Len(q) - ((Len(q) - m) + 1)) + 1 = m
    BY <1>6, <1>7
  <2>3. events[(Len(q) - m) + 1] = i
    BY <1>3, <2>1, <2>2
  <2> QED
    BY <2>2, <2>3
<1>10. \A m \in 1..Len(events) : events[m] \in set
  BY <1>8, ElementOfSeq
<1>11. events = <<>> <=> Len(events) = 0
  BY <1>8, EmptySeq
<1>12. set = {events[m] : m \in 1..Len(events)}
  BY <1>8, <1>9, <1>10
<1> QED
  BY <1>6, <1>8, <1>11, <1>12 DEF events, set

-----------------------------------------------------------------------------
(* The fold over them.  Induction is by the least counterexample.           *)

LEMMA LeastNat ==
  ASSUME NEW T \in SUBSET Nat, T # {}
  PROVE  \E n \in T : \A m \in T : ~(m < n)
<1>1. \A m, n \in Nat : <<m, n>> \in OpToRel(<, Nat) <=> m < n
  BY DEF OpToRel
<1>2. \E n \in T : \A m \in T : ~(<<m, n>> \in OpToRel(<, Nat))
  BY NatLessThanWellFounded, WFMin
<1> QED
  BY <1>1, <1>2

Joins(f, events, n) ==
  f = [m \in 0..n |-> IF m = 0 THEN Pending ELSE Join(f[m - 1], events[m])]

LEMMA JoinExists ==
  ASSUME NEW events, NEW n \in Nat
  PROVE  \E f : Joins(f, events, n)
<1> DEFINE T == {m \in Nat : ~\E f : Joins(f, events, m)}
<1> SUFFICES ASSUME T # {} PROVE FALSE
  OBVIOUS
<1>1. PICK m \in T : \A k \in T : ~(k < m)
  BY LeastNat
<1>2. m \in Nat /\ ~\E f : Joins(f, events, m)
  OBVIOUS
<1>3. CASE m = 0
  <2> DEFINE g == [k \in 0..0 |-> Pending]
  <2>1. Joins(g, events, 0)
    BY DEF Joins
  <2> QED
    BY <1>2, <1>3, <2>1
<1>4. CASE m # 0
  <2>1. m - 1 \in Nat /\ m - 1 < m
    BY <1>2, <1>4
  <2>2. m - 1 \notin T
    BY <1>1, <2>1
  <2>3. PICK f : Joins(f, events, m - 1)
    BY <2>1, <2>2
  <2> DEFINE g == [k \in 0..m |-> IF k = m THEN Join(f[m - 1], events[m]) ELSE f[k]]
  <2>4. f = [k \in 0..m - 1 |-> IF k = 0 THEN Pending ELSE Join(f[k - 1], events[k])]
    BY <2>3 DEF Joins
  <2>5. ASSUME NEW k \in 0..m
        PROVE  g[k] = IF k = 0 THEN Pending ELSE Join(g[k - 1], events[k])
    <3>1. CASE k = m
      <4>1. g[k] = Join(f[m - 1], events[m])
        BY <3>1
      <4>2. m - 1 \in 0..m /\ m - 1 # m
        BY <1>2, <2>1
      <4>3. g[k - 1] = f[m - 1]
        BY <3>1, <4>2
      <4> QED
        BY <1>4, <3>1, <4>1, <4>3
    <3>2. CASE k # m /\ k = 0
      <4>1. g[k] = f[0] /\ 0 \in 0..m - 1
        BY <2>1, <3>2
      <4> QED
        BY <2>4, <3>2, <4>1
    <3>3. CASE k # m /\ k # 0
      <4>1. /\ k \in 0..m - 1 /\ k - 1 \in 0..m /\ k - 1 # m
            /\ g[k] = f[k] /\ g[k - 1] = f[k - 1]
        BY <1>2, <3>3
      <4> QED
        BY <2>4, <3>3, <4>1
    <3> QED
      BY <3>1, <3>2, <3>3
  <2>6. Joins(g, events, m)
    <3>1. g = [k \in 0..m |-> g[k]]
      OBVIOUS
    <3> HIDE DEF g
    <3> QED
      BY <2>5, <3>1 DEF Joins
  <2> QED
    BY <1>2, <2>6
<1> QED
  BY <1>3, <1>4

(* What a joined answer says of a set of rows.                              *)
Read(i)     == ReadBack[i][1]
Requests(S) == {i \in S : Read(i).kind = "requested"}
Answering(S) == {i \in S : Read(i).kind = "fulfilled"}

SaysRequest(a, i) ==
  /\ a.requester = PayloadTexts(Read(i)).requester
  /\ a.requestedTx = Hex(Read(i).tx) /\ a.requestedAt = <<Read(i).observedAt>>

SaysAnswer(a, i) ==
  /\ a.price = PayloadTexts(Read(i)).price
  /\ a.fulfilledTx = Hex(Read(i).tx) /\ a.fulfilledAt = <<Read(i).observedAt>>

Tells(a, S) ==
  /\ \E st, as, rq, rt, ra, ft, pr, fa :
       a = [status |-> st, asset |-> as, requester |-> rq,
            requestedTx |-> rt, requestedAt |-> ra,
            fulfilledTx |-> ft, price |-> pr, fulfilledAt |-> fa]
  /\ a.status = IF Answering(S) = {} THEN "pending" ELSE "fulfilled"
  /\ IF Requests(S) = {}
     THEN a.requester = Empty /\ a.requestedTx = Empty /\ a.requestedAt = Nil
     ELSE \E i \in Requests(S) : SaysRequest(a, i)
  /\ IF Answering(S) = {}
     THEN a.price = Empty /\ a.fulfilledTx = Empty /\ a.fulfilledAt = Nil
     ELSE \E i \in Answering(S) : SaysAnswer(a, i)
  /\ IF Requests(S) \cup Answering(S) = {} THEN a.asset = Empty
     ELSE \E i \in Requests(S) \cup Answering(S) : a.asset = PayloadTexts(Read(i)).asset

LEMMA PendingTells == Tells(Pending, {})
<1>1. Pending = [status |-> "pending", asset |-> Empty, requester |-> Empty,
                 requestedTx |-> Empty, requestedAt |-> Nil,
                 fulfilledTx |-> Empty, price |-> Empty, fulfilledAt |-> Nil]
  BY DEF Pending, NotFound
<1>2. Requests({}) = {} /\ Answering({}) = {}
  BY DEF Requests, Answering
<1> QED
  BY <1>1, <1>2 DEF Tells

LEMMA JoinTells ==
  ASSUME NEW a, NEW S \in SUBSET Position, Tells(a, S), NEW i \in Position
  PROVE  Tells(Join(a, i), S \cup {i})
<1> DEFINE e == Read(i)
           p == PayloadTexts(e)
           b == Join(a, i)
<1>1. PICK st, as, rq, rt, ra, ft, pr, fa :
        a = [status |-> st, asset |-> as, requester |-> rq,
             requestedTx |-> rt, requestedAt |-> ra,
             fulfilledTx |-> ft, price |-> pr, fulfilledAt |-> fa]
  BY DEF Tells
<1>2. "requested" # "fulfilled"
  OBVIOUS
<1>3. CASE e.kind = "requested"
  <2>1. b = [a EXCEPT !.asset = p.asset, !.requester = p.requester,
                      !.requestedTx = Hex(e.tx), !.requestedAt = <<e.observedAt>>]
    BY <1>3 DEF Join, Read
  <2>2. b = [status |-> st, asset |-> p.asset, requester |-> p.requester,
             requestedTx |-> Hex(e.tx), requestedAt |-> <<e.observedAt>>,
             fulfilledTx |-> ft, price |-> pr, fulfilledAt |-> fa]
    BY <1>1, <2>1
  <2>3. /\ Requests(S \cup {i}) = Requests(S) \cup {i}
        /\ Answering(S \cup {i}) = Answering(S)
    BY <1>2, <1>3 DEF Requests, Answering
  <2> HIDE DEF b, e, p
  <2>4. SaysRequest(b, i)
    BY <2>2 DEF SaysRequest, e, p
  <2>5. b.status = a.status /\ b.asset = p.asset
        /\ b.price = a.price /\ b.fulfilledTx = a.fulfilledTx /\ b.fulfilledAt = a.fulfilledAt
    BY <1>1, <2>2
  <2>6. \A k : SaysAnswer(a, k) => SaysAnswer(b, k)
    BY <2>5 DEF SaysAnswer
  <2>7. Tells(b, S \cup {i})
    <3>1. b.status = IF Answering(S \cup {i}) = {} THEN "pending" ELSE "fulfilled"
      BY <2>3, <2>5 DEF Tells
    <3>2. IF Answering(S \cup {i}) = {}
          THEN b.price = Empty /\ b.fulfilledTx = Empty /\ b.fulfilledAt = Nil
          ELSE \E k \in Answering(S \cup {i}) : SaysAnswer(b, k)
      BY <2>3, <2>5, <2>6 DEF Tells
    <3>3. /\ i \in Requests(S \cup {i}) /\ b.asset = PayloadTexts(Read(i)).asset
      BY <2>3, <2>5 DEF p, e
    <3> QED
      BY <2>2, <2>4, <3>1, <3>2, <3>3 DEF Tells
  <2> QED
    BY <2>7 DEF b
<1>4. CASE e.kind = "fulfilled"
  <2>1. b = [a EXCEPT !.status = "fulfilled", !.fulfilledTx = Hex(e.tx),
                      !.price = p.price, !.fulfilledAt = <<e.observedAt>>,
                      !.asset = IF @ = Empty THEN p.asset ELSE @]
    BY <1>2, <1>4 DEF Join, Read
  <2>2. b = [status |-> "fulfilled", asset |-> IF as = Empty THEN p.asset ELSE as,
             requester |-> rq, requestedTx |-> rt, requestedAt |-> ra,
             fulfilledTx |-> Hex(e.tx), price |-> p.price,
             fulfilledAt |-> <<e.observedAt>>]
    BY <1>1, <2>1
  <2>3. /\ Requests(S \cup {i}) = Requests(S)
        /\ Answering(S \cup {i}) = Answering(S) \cup {i}
    BY <1>2, <1>4 DEF Requests, Answering
  <2> HIDE DEF b, e, p
  <2>4. SaysAnswer(b, i)
    BY <2>2 DEF SaysAnswer, e, p
  <2>5. /\ b.status = "fulfilled"
        /\ b.asset = IF a.asset = Empty THEN p.asset ELSE a.asset
        /\ b.requester = a.requester /\ b.requestedTx = a.requestedTx
        /\ b.requestedAt = a.requestedAt
    BY <1>1, <2>2
  <2>6. \A k : SaysRequest(a, k) => SaysRequest(b, k)
    BY <2>5 DEF SaysRequest
  <2>7. Tells(b, S \cup {i})
    <3>1. IF Requests(S \cup {i}) = {}
          THEN b.requester = Empty /\ b.requestedTx = Empty /\ b.requestedAt = Nil
          ELSE \E k \in Requests(S \cup {i}) : SaysRequest(b, k)
      BY <2>3, <2>5, <2>6 DEF Tells
    <3>2. i \in Answering(S \cup {i})
      BY <2>3
    <3>3. \E k \in Requests(S \cup {i}) \cup Answering(S \cup {i}) :
            b.asset = PayloadTexts(Read(k)).asset
      <4>1. CASE a.asset = Empty
        BY <2>5, <3>2, <4>1 DEF p, e
      <4>2. CASE a.asset # Empty
        <5>1. PICK k \in Requests(S) \cup Answering(S) : a.asset = PayloadTexts(Read(k)).asset
          BY <4>2 DEF Tells
        <5> QED
          BY <2>3, <2>5, <4>2, <5>1
      <4> QED
        BY <4>1, <4>2
    <3> QED
      BY <2>2, <2>4, <2>5, <3>1, <3>2, <3>3 DEF Tells
  <2> QED
    BY <2>7 DEF b
<1>5. CASE e.kind # "requested" /\ e.kind # "fulfilled"
  <2>1. b = a
    BY <1>5 DEF Join, Read
  <2>2. Requests(S \cup {i}) = Requests(S) /\ Answering(S \cup {i}) = Answering(S)
    BY <1>5 DEF Requests, Answering
  <2> QED
    BY <2>1, <2>2 DEF Tells
<1> QED
  BY <1>3, <1>4, <1>5

LEMMA JoinedTells ==
  ASSUME NEW n \in Nat, NEW events, \A m \in 1..n : events[m] \in Position,
         NEW f, Joins(f, events, n)
  PROVE  Tells(f[n], {events[m] : m \in 1..n})
<1> DEFINE First(m) == {events[k] : k \in 1..m}
           T == {m \in 0..n : ~Tells(f[m], First(m))}
<1> SUFFICES ASSUME T # {} PROVE FALSE
  OBVIOUS
<1>1. PICK m \in T : \A k \in T : ~(k < m)
  <2>1. T \in SUBSET Nat
    OBVIOUS
  <2> HIDE DEF T
  <2> QED
    BY <2>1, LeastNat
<1>2. m \in 0..n /\ ~Tells(f[m], First(m))
  OBVIOUS
<1>3. f[m] = IF m = 0 THEN Pending ELSE Join(f[m - 1], events[m])
  BY <1>2 DEF Joins
<1>4. CASE m = 0
  <2>1. First(m) = {}
    BY <1>4
  <2> QED
    BY <1>2, <1>3, <1>4, <2>1, PendingTells
<1>5. CASE m # 0
  <2>1. m - 1 \in 0..n /\ m - 1 < m /\ m \in 1..n
    BY <1>2, <1>5
  <2>2. Tells(f[m - 1], First(m - 1))
    BY <1>1, <2>1
  <2>3. 1..m = (1..m - 1) \cup {m}
    BY <2>1
  <2>4. First(m) = First(m - 1) \cup {events[m]}
    BY <2>3
  <2>5. First(m - 1) \in SUBSET Position
    BY <2>1
  <2> HIDE DEF First, T
  <2> QED
    BY <1>2, <1>3, <1>5, <2>1, <2>2, <2>4, <2>5, JoinTells
<1> QED
  BY <1>2, <1>4, <1>5

Told(a, S) == IF S = {} THEN a = NotFound ELSE Tells(a, S)

(* The answer for a table says what the rows of the request say.            *)
LEMMA AnswerTold ==
  ASSUME NEW table \in SUBSET Position, NEW order \in Orders, NEW r
  PROVE  Told(GetRequest(order, table, r), RowsFor(table, r))
<1> DEFINE events == Table!ForRequest(order, table, Dec(r))
           n      == Len(events)
           joined == CHOOSE f : Joins(f, events, n)
<1>1. /\ n \in Nat /\ (events = <<>> <=> n = 0)
      /\ RowsFor(table, r) = {events[m] : m \in 1..n}
  BY RequestRows
<1>2. GetRequest(order, table, r) = IF events = <<>> THEN NotFound ELSE joined[n]
  BY DEF GetRequest, Joins
<1> HIDE DEF events, n
<1>3. Joins(joined, events, n)
  BY <1>1, JoinExists
<1> HIDE DEF joined
<1>4. \A m \in 1..n : events[m] \in Position
  BY <1>1 DEF RowsFor
<1>5. Tells(joined[n], RowsFor(table, r))
  BY <1>1, <1>3, <1>4, JoinedTells
<1>6. RowsFor(table, r) = {} <=> n = 0
  <2>1. n = 0 => 1..n = {}
    BY <1>1
  <2>2. n # 0 => 1 \in 1..n
    BY <1>1
  <2>3. 1..n = {} => RowsFor(table, r) = {}
    BY <1>1
  <2>4. 1 \in 1..n => events[1] \in RowsFor(table, r)
    BY <1>1
  <2> QED
    BY <2>1, <2>2, <2>3, <2>4
<1> QED
  BY <1>1, <1>2, <1>5, <1>6 DEF Told

-----------------------------------------------------------------------------
(* More rows say more.                                                      *)

LEMMA RowSays ==
  ASSUME NEW i \in Position
  PROVE  /\ Read(i).kind = Chain[i].kind
         /\ Chain[i].kind \in {"requested", "fulfilled"} =>
              PayloadTexts(Read(i)).asset = Hex(PayloadOf(Chain[i])[1].asset)
<1> DEFINE e == Chain[i]
           f == Read(i)
<1>1. PayloadOf(e) # Nil /\ (e.kind = "fulfilled" => IsPointer(PayloadOf(e)[1].round))
  BY QueryAssumption
<1>2. e.kind \in ValidKinds
  BY ChainTyped
<1>3. f.kind = e.kind /\ PayloadOf(f) = <<ScanPayload(e.kind, PayloadTexts(e))>>
  BY RowReturns DEF Read
<1> HIDE DEF e, f
<1>4. PayloadTexts(f) = PayloadTexts(e)
  BY <1>1, <1>2, <1>3, PayloadReturns
<1>5. e.kind \in {"requested", "fulfilled"} =>
        PayloadTexts(e).asset = Hex(PayloadOf(e)[1].asset)
  BY DEF PayloadTexts
<1> QED
  BY <1>3, <1>4, <1>5 DEF e, f

(* Where one contract uses the id and logs each kind once.                  *)
LEMMA OneOfEach ==
  ASSUME NEW r \in Unambiguous, NEW S \in SUBSET RowsFor(Position, r)
  PROVE  /\ \A i, j \in Requests(S) : i = j
         /\ \A i, j \in Answering(S) : i = j
         /\ \A i, j \in Requests(S) \cup Answering(S) :
              PayloadTexts(Read(i)).asset = PayloadTexts(Read(j)).asset
<1>1. \A i, j \in S : /\ i \in Position /\ j \in Position
                      /\ Chain[i].contract = Chain[j].contract
                      /\ Chain[i].kind = Chain[j].kind => i = j
  BY DEF Unambiguous, RowsFor
<1>2. /\ \A i \in Requests(S) : i \in S /\ Chain[i].kind = "requested"
      /\ \A i \in Answering(S) : i \in S /\ Chain[i].kind = "fulfilled"
  BY <1>1, RowSays DEF Requests, Answering
<1>3. ASSUME NEW i \in Requests(S) \cup Answering(S), NEW j \in Requests(S) \cup Answering(S)
      PROVE  PayloadTexts(Read(i)).asset = PayloadTexts(Read(j)).asset
  <2>1. /\ i \in Position /\ j \in Position /\ Chain[i].contract = Chain[j].contract
        /\ Chain[i].kind \in {"requested", "fulfilled"}
        /\ Chain[j].kind \in {"requested", "fulfilled"}
    BY <1>1, <1>2
  <2>2. PayloadOf(Chain[i])[1].asset = PayloadOf(Chain[j])[1].asset
    BY <2>1, QueryAssumption
  <2> QED
    BY <2>1, <2>2, RowSays
<1> QED
  BY <1>1, <1>2, <1>3

LEMMA ToldGrows ==
  ASSUME NEW r, NEW S \in SUBSET RowsFor(Position, r), NEW more \in SUBSET RowsFor(Position, r),
         S \subseteq more, NEW a, NEW b, Told(a, S), Told(b, more)
  PROVE  Grows(r, a, b)
<1>1. /\ Requests(S) \subseteq Requests(more) /\ Answering(S) \subseteq Answering(more)
  BY DEF Requests, Answering
<1>2. CASE S = {}
  <2>1. a = NotFound /\ a.status = "not_found"
    BY <1>2 DEF Told, NotFound
  <2>2. Rank(a) = 0 /\ Rank(b) \in 0..2
    BY <2>1 DEF Rank
  <2> QED
    BY <2>1, <2>2 DEF Grows
<1>3. CASE S # {}
  <2>1. Tells(a, S) /\ Tells(b, more)
    <3>1. more # {}
      BY <1>3
    <3> QED
      BY <1>3, <3>1 DEF Told
  <2>2. "pending" # "fulfilled" /\ "pending" # "not_found" /\ "fulfilled" # "not_found"
    OBVIOUS
  <2>3. Rank(a) <= Rank(b)
    <3>1. /\ Rank(a) = IF Answering(S) = {} THEN 1 ELSE 2
          /\ Rank(b) = IF Answering(more) = {} THEN 1 ELSE 2
      BY <2>1, <2>2 DEF Tells, Rank
    <3>2. Answering(more) = {} => Answering(S) = {}
      BY <1>1
    <3> QED
      BY <3>1, <3>2
  <2>4. /\ NotFound.asset = Empty /\ NotFound.requester = Empty
        /\ NotFound.requestedTx = Empty /\ NotFound.requestedAt = Nil
        /\ NotFound.fulfilledTx = Empty /\ NotFound.price = Empty
        /\ NotFound.fulfilledAt = Nil
    BY DEF NotFound
  <2>5. ASSUME r \in Unambiguous
        PROVE  /\ a.requester # Empty => b.requester = a.requester
               /\ a.requestedTx # Empty => b.requestedTx = a.requestedTx
               /\ a.requestedAt # Nil => b.requestedAt = a.requestedAt
    <3>1. CASE Requests(S) = {}
      BY <2>1, <3>1 DEF Tells
    <3>2. CASE Requests(S) # {}
      <4>1. PICK i \in Requests(S) : SaysRequest(a, i)
        BY <2>1, <3>2 DEF Tells
      <4>2. Requests(more) # {}
        BY <1>1, <3>2
      <4>3. PICK j \in Requests(more) : SaysRequest(b, j)
        BY <2>1, <4>2 DEF Tells
      <4>4. \A k, l \in Requests(more) : k = l
        BY <2>5, OneOfEach
      <4>5. i = j
        BY <1>1, <4>1, <4>3, <4>4
      <4> QED
        BY <4>1, <4>3, <4>5 DEF SaysRequest
    <3> QED
      BY <3>1, <3>2
  <2>6. ASSUME r \in Unambiguous
        PROVE  /\ a.price # Empty => b.price = a.price
               /\ a.fulfilledTx # Empty => b.fulfilledTx = a.fulfilledTx
               /\ a.fulfilledAt # Nil => b.fulfilledAt = a.fulfilledAt
    <3>1. CASE Answering(S) = {}
      BY <2>1, <3>1 DEF Tells
    <3>2. CASE Answering(S) # {}
      <4>1. PICK i \in Answering(S) : SaysAnswer(a, i)
        BY <2>1, <3>2 DEF Tells
      <4>2. Answering(more) # {}
        BY <1>1, <3>2
      <4>3. PICK j \in Answering(more) : SaysAnswer(b, j)
        BY <2>1, <4>2 DEF Tells
      <4>4. \A k, l \in Answering(more) : k = l
        BY <2>6, OneOfEach
      <4>5. i = j
        BY <1>1, <4>1, <4>3, <4>4
      <4> QED
        BY <4>1, <4>3, <4>5 DEF SaysAnswer
    <3> QED
      BY <3>1, <3>2
  <2>7. ASSUME r \in Unambiguous
        PROVE  a.asset # Empty => b.asset = a.asset
    <3>1. CASE Requests(S) \cup Answering(S) = {}
      BY <2>1, <3>1 DEF Tells
    <3>2. CASE Requests(S) \cup Answering(S) # {}
      <4>1. PICK i \in Requests(S) \cup Answering(S) : a.asset = PayloadTexts(Read(i)).asset
        BY <2>1, <3>2 DEF Tells
      <4>2. Requests(more) \cup Answering(more) # {}
        BY <1>1, <3>2
      <4>3. PICK j \in Requests(more) \cup Answering(more) :
              b.asset = PayloadTexts(Read(j)).asset
        BY <2>1, <4>2 DEF Tells
      <4>4. \A k, l \in Requests(more) \cup Answering(more) :
              PayloadTexts(Read(k)).asset = PayloadTexts(Read(l)).asset
        BY <2>7, OneOfEach
      <4>5. i \in Requests(more) \cup Answering(more)
        BY <1>1, <4>1
      <4> QED
        BY <4>1, <4>3, <4>4, <4>5
    <3> QED
      BY <3>1, <3>2
  <2>8. ASSUME r \in Unambiguous, NEW f \in DOMAIN NotFound \ {"status"}
        PROVE  a[f] # NotFound[f] => b[f] = a[f]
    <3>1. f \in {"asset", "requester", "requestedTx", "requestedAt",
                 "fulfilledTx", "price", "fulfilledAt"}
      BY DEF NotFound
    <3> QED
      BY <2>4, <2>5, <2>6, <2>7, <2>8, <3>1
  <2> QED
    BY <2>3, <2>8 DEF Grows
<1> QED
  BY <1>2, <1>3

(* The answer to GetRequest only grows as rows arrive, in whatever order    *)
(* they do and the queries list them.                                       *)
THEOREM AnswersKept == Spec => AnswersGrow
<1>1. ASSUME TypeOK, TypeOK', [Next]_vars, rows' # rows,
             NEW old \in Answers(rows), NEW new \in Answers(rows'), old.id = new.id
      PROVE  Grows(old.id, old.answer, new.answer)
  <2>1. /\ rows \subseteq rows' /\ rows \in SUBSET Position /\ rows' \in SUBSET Position
    BY <1>1 DEF TypeOK, Next, Insert, StartWalk, NextPage, vars
  <2>2. PICK r \in ReqIds, order \in Orders :
          old = [id |-> r, answer |-> GetRequest(order, rows, r)]
    BY <1>1 DEF Answers
  <2>3. PICK q \in ReqIds, listing \in Orders :
          new = [id |-> q, answer |-> GetRequest(listing, rows', q)]
    BY <1>1 DEF Answers
  <2>4. q = r /\ old.id = r
    BY <1>1, <2>2, <2>3
  <2>5. Told(old.answer, RowsFor(rows, r))
    BY <2>1, <2>2, AnswerTold
  <2>6. Told(new.answer, RowsFor(rows', r))
    <3>1. Told(GetRequest(listing, rows', r), RowsFor(rows', r))
      BY <2>1, AnswerTold
    <3> QED
      BY <2>3, <2>4, <3>1
  <2>7. /\ RowsFor(rows, r) \subseteq RowsFor(rows', r)
        /\ RowsFor(rows, r) \in SUBSET RowsFor(Position, r)
        /\ RowsFor(rows', r) \in SUBSET RowsFor(Position, r)
    BY <2>1 DEF RowsFor
  <2> QED
    BY <2>4, <2>5, <2>6, <2>7, ToldGrows
<1>2. TypeOK /\ TypeOK' /\ [Next]_vars =>
        [rows' # rows =>
           \A old \in Answers(rows), new \in Answers(rows') :
             old.id = new.id => Grows(old.id, old.answer, new.answer)]_rows
  BY <1>1
<1> QED
  BY <1>2, TypeCorrect, PTL DEF Spec, AnswersGrow
=============================================================================
