------------------------------- MODULE Records -------------------------------
(***************************************************************************)
(* The data model of the service and its conversions (internal/models and  *)
(* the codec of internal/repository): the event chainsub decodes from a    *)
(* log, the row of the events table it is stored in, and the event clients *)
(* are sent.                                                               *)
(*                                                                         *)
(* A pointer is <<>> for nil or <<v>>.  A text is a record of its form and *)
(* the value it spells, so that a decimal, a lower-case hex string, "" and *)
(* SQL's NULL are four different things.  A hash or an address is a value; *)
(* that its hex string is lower case everywhere is why Hex needs no case.  *)
(*                                                                         *)
(* ParseUnsigned is used nowhere: it is a faulty variant of ParseBigInt.   *)
(***************************************************************************)
EXTENDS Integers, TLC

CONSTANTS
  ZeroHash,      (* common.Hash{}                                           *)
  HalfWord,      (* 2^31: log_index is INTEGER, page and page_size int32    *)
  HalfLong       (* 2^63: block_number is BIGINT                            *)

Nil    == <<>>
IsPointer(p) == p = Nil \/ p = <<p[1]>>
Empty  == [form |-> "empty"]
Null   == [form |-> "null"]
Dec(n) == [form |-> "dec", of |-> n]
Hex(v) == [form |-> "hex", of |-> v]

Signed(n, half) == ((n + half) % (2 * half)) - half
Unsigned(n, half) == n % (2 * half)

-----------------------------------------------------------------------------
(* EventKind: in the program, in the table and on the wire.                 *)

EventKindNames ==
  [unknown |-> "UNKNOWN", requested |-> "PRICE_REQUESTED",
   fulfilled |-> "PRICE_FULFILLED", registered |-> "ASSET_REGISTERED"]

EventKindToProto ==
  [unknown |-> "EVENT_KIND_UNSPECIFIED", requested |-> "EVENT_KIND_PRICE_REQUESTED",
   fulfilled |-> "EVENT_KIND_PRICE_FULFILLED",
   registered |-> "EVENT_KIND_ASSET_REGISTERED"]

ValidKinds == {"requested", "fulfilled", "registered"}

(* Only the three real kinds are read back, as a pointer; nil is the error. *)
ParseEventKind(text) ==
  IF \E k \in ValidKinds : EventKindNames[k] = text
  THEN <<CHOOSE k \in ValidKinds : EventKindNames[k] = text>> ELSE Nil

(* A number outside the enum is unknown too.                                *)
EventKindFromProto(wire) ==
  IF \E k \in ValidKinds : EventKindToProto[k] = wire
  THEN CHOOSE k \in ValidKinds : EventKindToProto[k] = wire ELSE "unknown"

-----------------------------------------------------------------------------
(* The events chainsub and the bootstrap make.  asset is the asset that     *)
(* Resolve of ChainSub finds.                                               *)

PriceRequestedPayload(req, asset, requester) ==
  [req |-> req, asset |-> asset, requester |-> requester]

PriceFulfilledPayload(req, asset, price, timestamp, round) ==
  [req |-> req, asset |-> asset, price |-> price, timestamp |-> timestamp,
   round |-> round]

AssetRegisteredPayload(asset, aggregator) ==
  [asset |-> asset, aggregator |-> aggregator]

LogMeta(log, now) ==
  [contract |-> log.address, tx |-> log.tx, blockHash |-> log.blockHash,
   block |-> log.block, logIndex |-> Unsigned(log.index, HalfWord),
   observedAt |-> now, requested |-> Nil, fulfilled |-> Nil, registered |-> Nil]

PriceRequested(log, asset, now) ==
  [kind |-> "requested", asset |-> asset, req |-> <<log.req>>,
   requested |-> <<PriceRequestedPayload(<<log.req>>, asset, log.requester)>>]
  @@ LogMeta(log, now)

PriceFulfilled(log, asset, now) ==
  [kind |-> "fulfilled", asset |-> asset, req |-> <<log.req>>,
   fulfilled |-> <<PriceFulfilledPayload(<<log.req>>, asset, <<log.price>>,
                                         <<log.timestamp>>, Nil)>>]
  @@ LogMeta(log, now)

AssetRegistered(log, now) ==
  [kind |-> "registered", asset |-> log.asset, req |-> Nil,
   registered |-> <<AssetRegisteredPayload(log.asset, log.agg)>>]
  @@ LogMeta(log, now)

(* The hash of the pair stands for the pair; the block is 1 and the index 0 *)
(* for every seed.                                                          *)
SeedTx(asset, aggregator) == <<"asset-registered-seed", aggregator, asset>>

NewAssetRegisteredSeed(asset, aggregator, now) ==
  AssetRegistered([address |-> aggregator, tx |-> SeedTx(asset, aggregator),
                   blockHash |-> ZeroHash, block |-> 1, index |-> 0,
                   asset |-> asset, agg |-> aggregator], now)

-----------------------------------------------------------------------------
(* Conversions.                                                             *)

(* bigIntJSON and bigIntDecimalString; the optional ones; bigIntOrNil.      *)
Decimal(p)         == IF p = Nil THEN Dec(0) ELSE Dec(p[1])
DecimalOptional(p) == IF p = Nil \/ p = <<0>> THEN Empty ELSE Dec(p[1])
DecimalOrNull(p)   == IF p = Nil THEN Null ELSE Dec(p[1])
HexOrNull(h)       == IF h = ZeroHash THEN Null ELSE Hex(h)

FromHex(text) == IF text.form = "hex" THEN text.of ELSE ZeroHash

(* Of a request; nil is the error.                                          *)
ParseAssetID(text) == IF text.form = "hex" THEN <<text.of>> ELSE Nil

ParseUnsigned(text) == IF text.form = "dec" /\ text.of >= 0 THEN <<text.of>> ELSE Nil

ParseBigInt(text) == IF text.form = "dec" THEN <<text.of>> ELSE Nil

(* The payload the kind asks for; nil is the error of encodePayloads and of *)
(* ToProto.                                                                 *)
PayloadOf(e) == IF e.kind \in ValidKinds THEN e[e.kind] ELSE Nil

(* Its fields as texts: those of the JSON column and of the message alike.  *)
PayloadTexts(e) ==
  LET p == PayloadOf(e)[1]
  IN  CASE e.kind = "requested" ->
             [req |-> Decimal(p.req), asset |-> Hex(p.asset),
              requester |-> Hex(p.requester)]
        [] e.kind = "fulfilled" ->
             [req |-> Decimal(p.req), asset |-> Hex(p.asset),
              price |-> Decimal(p.price), timestamp |-> Decimal(p.timestamp),
              round |-> DecimalOptional(p.round)]
        [] e.kind = "registered" ->
             [asset |-> Hex(p.asset), aggregator |-> Hex(p.aggregator)]

(* timestamptz keeps microseconds.                                          *)
Micros(nanos) == nanos - (nanos % 1000)

(* InsertEvent: the columns of the row.                                     *)
RowOf(e) ==
  [kind |-> EventKindNames[e.kind], contract |-> Hex(e.contract),
   tx |-> Hex(e.tx), blockHash |-> Hex(e.blockHash),
   block |-> Signed(e.block, HalfLong), logIndex |-> Signed(e.logIndex, HalfWord),
   asset |-> HexOrNull(e.asset), req |-> DecimalOrNull(e.req),
   payloads |-> [k \in ValidKinds |-> IF k = e.kind THEN PayloadTexts(e) ELSE Null],
   observedAt |-> Micros(e.observedAt)]

(* scanEvent: the typed payload from the JSON column of the kind.           *)
ScanPayload(kind, json) ==
  CASE kind = "requested" ->
         PriceRequestedPayload(ParseBigInt(json.req), FromHex(json.asset),
                               FromHex(json.requester))
    [] kind = "fulfilled" ->
         PriceFulfilledPayload(ParseBigInt(json.req), FromHex(json.asset),
           ParseBigInt(json.price), ParseBigInt(json.timestamp),
           IF json.round = Empty THEN Nil ELSE ParseBigInt(json.round))
    [] kind = "registered" ->
         AssetRegisteredPayload(FromHex(json.asset), FromHex(json.aggregator))

(* nil is the error of a row of unknown kind or without its payload.        *)
ScanEvent(row) ==
  LET kinds == ParseEventKind(row.kind)
      k     == kinds[1]
      Payload(kind) == IF kind = k THEN <<ScanPayload(k, row.payloads[k])>> ELSE Nil
  IN  IF kinds = Nil \/ row.payloads[k] = Null THEN Nil
      ELSE <<[kind |-> k, contract |-> FromHex(row.contract), tx |-> FromHex(row.tx),
              blockHash |-> FromHex(row.blockHash),
              block |-> Unsigned(row.block, HalfLong),
              logIndex |-> Unsigned(row.logIndex, HalfWord),
              observedAt |-> row.observedAt,
              asset |-> FromHex(row.asset), req |-> ParseBigInt(row.req),
              requested |-> Payload("requested"), fulfilled |-> Payload("fulfilled"),
              registered |-> Payload("registered")]>>

(* Event.ToProto.                                                           *)
ToProto(e) ==
  IF PayloadOf(e) = Nil THEN Nil
  ELSE <<[contract |-> Hex(e.contract), tx |-> Hex(e.tx), blockHash |-> Hex(e.blockHash),
          block |-> e.block, logIndex |-> e.logIndex, observedAt |-> e.observedAt,
          kind |-> EventKindToProto[e.kind], payload |-> PayloadTexts(e)]>>
=============================================================================
