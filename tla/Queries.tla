------------------------------- MODULE Queries -------------------------------
(***************************************************************************)
(* ListEvents and GetRequest of internal/grpcsrv/server.go over the events *)
(* table, which grows while clients read it.                               *)
(*                                                                         *)
(* ListEvents keeps nothing between calls and says nothing of a total, so  *)
(* what matters is a client that walks the pages: the walk is the client's *)
(* (protocols/common/v1/pagination.proto: pages count from 1), each step   *)
(* of it one query.                                                        *)
(*                                                                         *)
(* Chain holds the events as they were decoded, the table their rows, and  *)
(* what a query answers is read back from the rows (Records).              *)
(*                                                                         *)
(* BuildFilterKeeps, OffsetFromZero, OffsetOverlaps and JoinReopens are    *)
(* used nowhere: they are faulty variants of the definition after them,    *)
(* with which a property fails.                                            *)
(***************************************************************************)
EXTENDS Records, SequencesExt

CONSTANTS
  Chain,         (* the events, by key                                      *)
  WireKinds,     (* the kinds a ListEvents request may name                 *)
  Ranges,        (* the <<from_block, to_block>> they name, 0 for no bound  *)
  PageSizes,     (* the page sizes clients ask for, 0 when they name none   *)
  ListLimit, DefaultLimit,
  Orders,        (* what a query may list the rows in: see EventsTable      *)
  MaxGot         (* bound: a client with more rows asks for no more         *)

Position  == 1..Len(Chain)
Stored    == [i \in Position |-> RowOf(Chain[i])]
ReadBack  == [i \in Position |-> ScanEvent(Stored[i])]
Bootstrap == {i \in Position : \E a, g \in {Chain[i].asset, Chain[i].contract} :
                                 Chain[i].tx = SeedTx(a, g)}
ReqIds    == {Chain[i].req[1] : i \in {j \in Position : Chain[j].req # Nil}}

Table == INSTANCE EventsTable WITH Chain <- Stored, NoAsset <- Null

(* Blocks, indices and bounds stay below 2^63 and 2^31, where the casts of  *)
(* the repository keep their order.  The price logs of one contract carry   *)
(* one asset: PricesResolved of ChainSub.                                   *)
ASSUME QueryAssumption ==
  /\ Len(Chain) \in Nat
  /\ HalfWord \in Nat \ {0} /\ HalfLong \in Nat \ {0}
  /\ ListLimit \in Nat \ {0} /\ DefaultLimit \in 1..ListLimit
  /\ PageSizes \subseteq -HalfWord..HalfWord - 1
  /\ MaxGot \in Nat
  /\ Orders = Table!Listings
  /\ HalfWord > Len(Chain) + ListLimit
  /\ Ranges \subseteq (0..HalfLong - 1) \X (0..HalfLong - 1)
  /\ \A i \in Position :
       /\ Chain[i].block \in 0..HalfLong - 1 /\ Chain[i].logIndex \in 0..HalfWord - 1
       /\ PayloadOf(Chain[i]) # Nil
       /\ IsPointer(Chain[i].req)
       /\ Chain[i].kind = "fulfilled" => IsPointer(PayloadOf(Chain[i])[1].round)
       /\ \A j \in Position :
            /\ i < j => ~Table!Before(j, i)
            /\ {Chain[i].kind, Chain[j].kind} \subseteq {"requested", "fulfilled"}
               /\ Chain[i].contract = Chain[j].contract
                 => PayloadOf(Chain[i])[1].asset = PayloadOf(Chain[j])[1].asset

(* The limit and the offset are arguments of their own.                     *)
ListEventsFilter ==
  [kinds : SUBSET ValidKinds, asset : {<<Chain[i].asset>> : i \in Position} \cup {Nil},
   from : 0..HalfLong - 1, to : 0..HalfLong - 1]

VARIABLES
  rows,     (* the events table                                             *)
  filter,   (* the client's filter, as buildListFilter passes it on         *)
  size,     (* page_size                                                    *)
  page,     (* the next page to ask for; 0 before the walk and after it     *)
  got,      (* the rows received, in order                                  *)
  since,    (* history: the table when the walk began                       *)
  over      (* the walk is over                                             *)

walkVars == <<filter, size, page, got, since, over>>
vars == <<rows, walkVars>>

(* The API opens after the bootstrap.                                       *)
Init ==
  /\ rows = Bootstrap
  /\ filter = [kinds |-> {}, asset |-> Nil, from |-> 0, to |-> 0]
  /\ size = 0
  /\ page = 0
  /\ got = <<>>
  /\ since = {}
  /\ over = FALSE

-----------------------------------------------------------------------------
(* A row is inserted, at any place of the order: see ChainSub.              *)
Insert(i) ==
  /\ i \notin rows
  /\ rows' = rows \cup {i}
  /\ UNCHANGED walkVars

-----------------------------------------------------------------------------
(* ListEvents                                                               *)

BuildFilterKeeps(wire, asset, range) ==
  [kinds |-> {EventKindFromProto(w) : w \in wire}, asset |-> ParseAssetID(asset),
   from |-> range[1], to |-> range[2]]

(* buildListFilter: kinds it does not know are left out, so a request that  *)
(* names only such kinds asks for all.  An asset that is not one is         *)
(* rejected, "" is no filter.                                               *)
BuildFilter(wire, asset, range) ==
  [kinds |-> {EventKindFromProto(w) : w \in wire} \ {"unknown"},
   asset |-> ParseAssetID(asset), from |-> range[1], to |-> range[2]]

Int32(n) == Signed(n, HalfWord)

OffsetFromZero(p, n) == Int32(p * n)

OffsetOverlaps(p, n) == IF p > 0 THEN Int32((p - 1) * n - 1) ELSE 0

(* Page is 1-indexed.                                                       *)
Offset(p, n) == IF p > 0 THEN Int32((p - 1) * n) ELSE 0

(* The arguments of the query; kinds that are not valid are left out again. *)
Arguments(f) ==
  [kinds |-> {EventKindNames[k] : k \in f.kinds \cap ValidKinds},
   asset |-> IF f.asset = Nil THEN Null ELSE Hex(f.asset[1])]

ListEvents(order, p, n) ==
  Table!Page(order, rows, Arguments(filter), filter.from, filter.to, n, Offset(p, n))

(* What the client reads for a row.                                         *)
Answered == [i \in Position |-> ToProto(ReadBack[i][1])]

StartWalk(wire, asset, range, n) ==
  /\ asset = Empty \/ ParseAssetID(asset) # Nil
  /\ page = 0
  /\ ~over
  /\ filter' = BuildFilter(wire, asset, range)
  /\ size' = n
  /\ page' = 1
  /\ since' = rows
  /\ UNCHANGED <<rows, got, over>>

(* The client asks for pages until one is empty, which with a page_size of  *)
(* 0 or less may be never: the offset stays 0, and the first page comes     *)
(* again and again.                                                         *)
NextPage ==
  /\ page > 0
  /\ Len(got) <= MaxGot
  /\ \E order \in Orders :
       LET answer == ListEvents(order, page, size)
       IN  /\ got' = got \o answer
           /\ over' = (answer = <<>>)
           /\ page' = IF answer = <<>> THEN 0 ELSE page + 1
  /\ UNCHANGED <<rows, filter, size, since>>

-----------------------------------------------------------------------------
(* GetRequest                                                               *)

NotFound ==
  [status |-> "not_found", asset |-> Empty, requester |-> Empty,
   requestedTx |-> Empty, requestedAt |-> Nil,
   fulfilledTx |-> Empty, price |-> Empty, fulfilledAt |-> Nil]
Pending == [NotFound EXCEPT !.status = "pending"]

JoinReopens(a, i) ==
  LET e == ReadBack[i][1]
  IN  CASE e.kind = "requested" -> [a EXCEPT !.status = "pending"]
        [] e.kind = "fulfilled" ->
             [a EXCEPT !.status = "fulfilled", !.fulfilledTx = Hex(e.tx)]
        [] OTHER -> a

(* One row of the request; an AssetRegistered is tied to none.              *)
Join(a, i) ==
  LET e == ReadBack[i][1]
      p == PayloadTexts(e)
  IN  CASE e.kind = "requested" ->
             [a EXCEPT !.asset = p.asset, !.requester = p.requester,
                       !.requestedTx = Hex(e.tx), !.requestedAt = <<e.observedAt>>]
        [] e.kind = "fulfilled" ->
             [a EXCEPT !.status = "fulfilled", !.fulfilledTx = Hex(e.tx),
                       !.price = p.price, !.fulfilledAt = <<e.observedAt>>,
                       !.asset = IF @ = Empty THEN p.asset ELSE @]
        [] OTHER -> a

(* One row after another.                                                   *)
GetRequest(order, table, r) ==
  LET events == Table!ForRequest(order, table, Dec(r))
      joined[n \in 0..Len(events)] ==
        IF n = 0 THEN Pending ELSE Join(joined[n - 1], events[n])
  IN  IF events = <<>> THEN NotFound ELSE joined[Len(events)]

-----------------------------------------------------------------------------
Next ==
  \/ \E i \in Position : Insert(i)
  \/ \E wire \in SUBSET WireKinds, range \in Ranges, n \in PageSizes,
        asset \in {Hex(Chain[i].asset) : i \in Position} \cup {Empty, Null} :
       StartWalk(wire, asset, range, n)
  \/ NextPage

Spec == Init /\ [][Next]_vars

-----------------------------------------------------------------------------
(* Properties.                                                              *)

(* Type correctness.                                                        *)
TypeOK ==
  /\ rows \in SUBSET Position
  /\ filter \in ListEventsFilter
  /\ size \in PageSizes \cup {0}
  /\ page \in Nat
  /\ got \in Seq(Position)
  /\ since \in SUBSET rows
  /\ over \in BOOLEAN

(* The protocol's words: "Empty = all kinds", both bounds inclusive.  The   *)
(* zero asset is stored as NULL, so no filter finds its rows: not even one  *)
(* by the zero asset.                                                       *)
Wanted(i) ==
  LET e == Chain[i]
  IN  /\ filter.kinds # {} => e.kind \in filter.kinds
      /\ filter.asset # Nil => filter.asset = <<e.asset>> /\ e.asset # ZeroHash
      /\ e.block >= filter.from
      /\ filter.to > 0 => e.block <= filter.to

SameKey(i, j) == ~Table!Before(i, j) /\ ~Table!Before(j, i)
Tied(i)       == \E j \in rows \ {i} : Wanted(j) /\ SameKey(i, j)

(* The page sizes for which the limit and the offset of a query agree: for  *)
(* any other one Limit puts the default, which the offset knows nothing of. *)
Proper == size \in 1..ListLimit

(* Then offset 0, whatever the size, is the whole answer.                   *)
OnePage == Cardinality({i \in rows : Wanted(i)}) <= DefaultLimit

(* A walk that is over has seen every matching row that was there when it   *)
(* began, whatever was inserted meanwhile and wherever, and nothing else.   *)
(* Only a row that shares its key with another matching one may be missing: *)
(* two queries may list the two in different orders.  With a page_size that *)
(* ListEvents replaces, the pages leave rows out between them, unless all   *)
(* that match are on the first.                                             *)
WalkComplete ==
  over =>
    LET seen == {got[k] : k \in 1..Len(got)}
    IN  /\ \A i \in seen : Wanted(i)
        /\ Proper \/ OnePage =>
             \A i \in since : Wanted(i) /\ ~Tied(i) => i \in seen

(* Without an insert during the walk no row is seen twice, and rows come    *)
(* newest first across the pages, again but for rows of one key.            *)
WalkDescends ==
  Proper /\ rows = since =>
    \A j, k \in 1..Len(got) :
      j < k => \/ Table!Before(got[k], got[j])
               \/ Tied(got[j]) /\ SameKey(got[j], got[k])

(* A row is answered as the event was sent live, through the two columns,   *)
(* the JSON payload and back: only the time of observation has lost its     *)
(* nanoseconds.                                                             *)
SentLive == [i \in Position |-> ToProto(Chain[i])[1]]

AnsweredAsObserved ==
  \A i \in rows :
    /\ ReadBack[i] # Nil
    /\ Answered[i] = <<[SentLive[i] EXCEPT !.observedAt = Micros(@)]>>

(* As rows arrive, in any order, the answer to GetRequest only grows: a     *)
(* request that was found stays found, one that was fulfilled stays so, and *)
(* no field that was set changes, where one contract uses the id and logs   *)
(* each kind once (a reorganisation may make it log the request again).     *)
Rank(a) == IF a.status = "not_found" THEN 0 ELSE IF a.status = "pending" THEN 1 ELSE 2

Unambiguous ==
  {r \in ReqIds : \A i, j \in {k \in Position : Chain[k].req = <<r>>} :
     /\ Chain[i].contract = Chain[j].contract
     /\ Chain[i].kind = Chain[j].kind => i = j}

Grows(r, a, b) ==
  /\ Rank(a) <= Rank(b)
  /\ r \in Unambiguous =>
       \A f \in DOMAIN NotFound \ {"status"} : a[f] # NotFound[f] => b[f] = a[f]

Answers(table) ==
  {[id |-> r, answer |-> GetRequest(order, table, r)] : r \in ReqIds, order \in Orders}

AnswersGrow ==
  [][rows' # rows =>
       \A old \in Answers(rows), new \in Answers(rows') :
         old.id = new.id => Grows(old.id, old.answer, new.answer)]_rows

(* "Returns NOT_FOUND if the indexer has not observed a PriceRequested with *)
(* that id yet." (protocols/indexer/v1/indexer.proto:35-36)                 *)
NotFoundUntilRequested ==
  \A r \in ReqIds, order \in Orders :
    GetRequest(order, rows, r).status # "not_found" =>
      \E i \in rows : Chain[i].req = <<r>> /\ Chain[i].kind = "requested"
=============================================================================
