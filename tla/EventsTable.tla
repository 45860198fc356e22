----------------------------- MODULE EventsTable -----------------------------
(***************************************************************************)
(* The reads of internal/repository over the events table.  A row is a     *)
(* position in Chain, listed by key: (block_number, log_index).  A table   *)
(* is a set of positions.                                                  *)
(*                                                                         *)
(* Keys are not unique: the bootstrap rows of all assets have one key, and *)
(* a log that took the place of a reorganised one has the key of that.     *)
(* ORDER BY leaves rows of one key in any order, and another one for each  *)
(* query, hence the parameter order of Page.                               *)
(*                                                                         *)
(* LimitBelow is used nowhere: it is a faulty variant of Limit.            *)
(***************************************************************************)
EXTENDS Integers, FiniteSets, SequencesExt

CONSTANTS
  Chain,         (* the rows: [block, logIndex, kind, asset, req]           *)
  NoAsset,       (* ListEventsFilter.AssetID = nil                          *)
  HalfLong,      (* 2^63: a bound is a uint64 passed as int64               *)
  ListLimit,     (* the largest limit ListEvents accepts                    *)
  DefaultLimit   (* what it uses instead of a limit it rejects              *)

Before(i, j) ==
  \/ Chain[i].block < Chain[j].block
  \/ Chain[i].block = Chain[j].block /\ Chain[i].logIndex < Chain[j].logIndex

(* What ORDER BY block_number DESC, log_index DESC may come out as.         *)
Listings ==
  {order \in SetToSeqs(1..Len(Chain)) :
     \A j, k \in 1..Len(Chain) : j < k => ~Before(order[j], order[k])}

LimitBelow(l) == IF l <= 0 \/ l >= ListLimit THEN DefaultLimit ELSE l

(* A limit out of range is replaced, not clamped.                           *)
Limit(l) == IF l <= 0 \/ l > ListLimit THEN DefaultLimit ELSE l

Int64(n) == ((n + HalfLong) % (2 * HalfLong)) - HalfLong

(* The WHERE clause: kind = ANY, asset_id =, block_number >= and <=.        *)
Selected(f, first, final, i) ==
  /\ f.kinds # {} => Chain[i].kind \in f.kinds
  /\ f.asset # NoAsset => Chain[i].asset = f.asset
  /\ first > 0 => Chain[i].block >= Int64(first)
  /\ final > 0 => Chain[i].block <= Int64(final)

(* The rows of a set in the order they are listed in: the n-th is at the    *)
(* n-th of their places, the one up to which there are n.                   *)
UpTo(places, k) == {l \in places : l <= k}
Nth(places, n)  == CHOOSE k \in places : Cardinality(UpTo(places, k)) = n

Listed(order, set) ==
  LET places == {k \in DOMAIN order : order[k] \in set}
  IN  [n \in 1..Cardinality(places) |-> order[Nth(places, n)]]

(* ListEvents: ORDER BY .. LIMIT .. OFFSET ..                               *)
Page(order, table, f, first, final, limit, offset) ==
  LET newest == Listed(order, {i \in table : Selected(f, first, final, i)})
      skip   == IF offset < 0 THEN 0 ELSE offset
      end    == skip + Limit(limit)
  IN  SubSeq(newest, skip + 1, IF end < Len(newest) THEN end ELSE Len(newest))

(* EventsForRequest: WHERE req_id = .. ORDER BY block_number, log_index,    *)
(* the same rows listed from the other end.                                 *)
ForRequest(order, table, r) ==
  Reverse(Listed(order, {i \in table : Chain[i].req = r}))
=============================================================================
