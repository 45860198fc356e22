--------------------------- MODULE StreamEventsProofs ---------------------------
(***************************************************************************)
(* Proofs about StreamEvents, for every chain, filter, page limit, table   *)
(* order and number of streams: what its hub does is what StreamHub does,  *)
(* and nothing falls between the replay and the live tail.                 *)
(***************************************************************************)
EXTENDS StreamEvents, EventFeedProofs

TableFacts == INSTANCE EventsTableProofs

-----------------------------------------------------------------------------
(* The hub of StreamEvents is the hub of StreamHub.                         *)

LEMMA PositionType ==
  /\ Len(Chain) \in Nat
  /\ \A i \in Position :
       /\ Chain[i] \in [block : Nat, logIndex : Nat, kind : Kinds, asset : Assets]
       /\ i \in Nat \ {0}
       /\ EventOf(i) \in Event
       /\ Key(i) \in [block : Nat, logIndex : Nat]
       /\ After(Key(i), NoKey)
<1>1. Chain \in Seq([block : Nat, logIndex : Nat, kind : Kinds, asset : Assets])
  BY StreamAssumption
<1>2. /\ Len(Chain) \in Nat
      /\ \A i \in Position :
           Chain[i] \in [block : Nat, logIndex : Nat, kind : Kinds, asset : Assets]
  BY <1>1, LenProperties, ElementOfSeq DEF Position
<1>3. ASSUME NEW i \in Position
      PROVE  EventOf(i) \in Event /\ Key(i) \in [block : Nat, logIndex : Nat]
  BY <1>2 DEF EventOf, Event, Key
<1> QED
  BY <1>2, <1>3, StreamAssumption DEF Position

IngestTyped == ingest \in Position \cup {0}

LEMMA HubSteps ==
  ASSUME IngestTyped, [StreamNext]_streamVars
  PROVE  [Next]_vars
<1>1. Ingester \in Publishers
  BY StreamAssumption
<1>2. CASE PublishRow
  BY <1>1, <1>2, PositionType DEF PublishRow, IngestTyped, Next, Step
<1>3. ASSUME NEW s \in Subs, HandlerRuns(s) \/ InHub(Connect(s)) PROVE [Next]_vars
  BY <1>3 DEF HandlerRuns, Subscribe, ReplayQuery, ReplaySend, LiveReceive, LiveClosed,
     InHub, Connect, Next, Step, HandlerStep
<1>4. CASE InHub(PublisherStep(Ingester)) \/ InHub(ShutdownFlag) \/ InHub(ShutdownStep)
           \/ InHub(Finished)
  BY <1>1, <1>4 DEF InHub, Next, Step
<1>5. CASE (\E i \in Position : InsertRow(i)) \/ LeaveUnpublished \/ UNCHANGED streamVars
  BY <1>5 DEF InsertRow, LeaveUnpublished, streamVars
<1> QED
  BY <1>2, <1>3, <1>4, <1>5 DEF StreamNext

(* The hub of a stream takes no step that hub.go does not: what is proved   *)
(* of StreamHub holds in StreamEvents.                                      *)
THEOREM StreamsHub == StreamSpec => Spec
<1>1. StreamInit => Init /\ IngestTyped
  BY DEF StreamInit, IngestTyped
<1>2. IngestTyped /\ [StreamNext]_streamVars => IngestTyped'
  BY DEF IngestTyped, StreamNext, streamVars, InsertRow, PublishRow, LeaveUnpublished,
     HandlerRuns, Subscribe, ReplayQuery, ReplaySend, LiveReceive, LiveClosed, InHub,
     tableVars
<1>3. IngestTyped /\ [StreamNext]_streamVars => [Next]_vars
  BY HubSteps
<1> QED
  BY <1>1, <1>2, <1>3, PTL DEF StreamSpec, Spec

-----------------------------------------------------------------------------
(* What is published: each row at most once, and each event of the hub is   *)
(* the one of a row.                                                        *)

PublishedEvents ==
  /\ Len(pubs) = IF ppc[Ingester] = "called" THEN Len(log) + 1 ELSE Len(log)
  /\ ppc[Ingester] = "called" => arg[Ingester] = EventOf(pubs[Len(pubs)])
  /\ \A n \in 1..Len(log) : log[n] = EventOf(pubs[n])

PublishedRows ==
  /\ ingest \in rows \cup {0}
  /\ \A n \in 1..Len(pubs) : pubs[n] \in rows /\ pubs[n] # ingest
  /\ \A m, n \in 1..Len(pubs) : m < n => pubs[m] # pubs[n]

PublishedInOrder ==
  /\ ingest # 0 => \A j \in rows \ {ingest} : Later(ingest, j) \/ OutOfOrder(ingest)
  /\ \A m, n \in 1..Len(pubs) : m < n => Later(pubs[n], pubs[m]) \/ OutOfOrder(pubs[n])

PubsInv == PublishedEvents /\ PublishedRows /\ PublishedInOrder

(* The handler of a subscription: it pages through rows, each page in chain *)
(* order; the watermark is the highest key it has replayed.                 *)
HoldsPage(s) ==
  /\ phase[s] = "start" <=> New(s)
  /\ phase[s] = "start" => offset[s] = 0 /\ sent[s] = <<>>
  /\ phase[s] = "send" <=> batch[s] # <<>>
  /\ \A k \in 1..Len(batch[s]) : batch[s][k] \in rows
  /\ \A k, l \in 1..Len(batch[s]) :
       k < l => batch[s][k] # batch[s][l] /\ ~Later(batch[s][k], batch[s][l])

Marks(s) ==
  /\ replayed[s] <= Len(sent[s])
  /\ phase[s] # "live" => replayed[s] = Len(sent[s])
  /\ mark[s] = NoKey \/ \E k \in 1..replayed[s] : mark[s] = Key(sent[s][k])
  /\ \A k \in 1..Len(sent[s]) : sent[s][k] \in rows
  /\ \A k \in 1..replayed[s] : ~After(Key(sent[s][k]), mark[s])
  /\ \A k \in replayed[s] + 1..Len(sent[s]) : After(Key(sent[s][k]), mark[s])

(* The live tail: what has left the buffer was sent, in the order it was    *)
(* published in, or is not after the watermark.                             *)
SendsTail(s) ==
  /\ phase[s] # "live" => accepted[s] \subseteq Buffered(s)
  /\ phase[s] = "live" =>
       \A n \in accepted[s] \ Buffered(s) : pubs[n] \in SentTo(s) \/ ~Fresh(s, pubs[n])

KeepsOrder(s) ==
  \A k \in replayed[s] + 1..Len(sent[s]) :
    /\ \E n \in 1..Len(pubs) : n <= last[s] /\ pubs[n] = sent[s][k]
    /\ \A j \in replayed[s] + 1..k - 1 :
         \E m, n \in 1..Len(pubs) : m < n /\ pubs[m] = sent[s][j] /\ pubs[n] = sent[s][k]

Handles(s) == HoldsPage(s) /\ Marks(s) /\ SendsTail(s) /\ KeepsOrder(s)

HandlerInv == \A s \in Subs : Handles(s)

(* Where an event a replay was asked for is: it is sent, or skipped; or it  *)
(* came after Subscribe and is still after the watermark, so that the tail  *)
(* has it; or it is on the page being sent; or it is further down than the  *)
(* pages so far.                                                            *)
Asking(s)  == from[s] > 0 /\ phase[s] # "start"
Old(s, i)  == \E n \in 1..base[s] : pubs[n] = i
Ahead(s, i) == ~Old(s, i) /\ Fresh(s, i)
Above(s, i) == {j \in rows : Asked(s, j) /\ Later(j, i)}
Below(s, i, n) == Cardinality(Above(s, i)) >= n

OnPage(s, i) ==
  \/ \E k \in 1..Len(batch[s]) : batch[s][k] = i
  \/ OutOfOrder(i) /\ \E k \in 1..Len(batch[s]) : ~Later(i, batch[s][k])
  \/ Ahead(s, i) /\ \A k \in 1..Len(batch[s]) : ~Later(batch[s][k], i)
  \/ full[s] /\ Below(s, i, offset[s] + ReplayLimit)

Accounted(s, i) ==
  \/ i \in SentTo(s) \/ Skipped(s, i)
  \/ phase[s] = "query" /\ (Ahead(s, i) \/ Below(s, i, offset[s]))
  \/ phase[s] = "send" /\ OnPage(s, i)
  \/ phase[s] = "live" /\ Ahead(s, i)

AllAccounted(s) == Asking(s) => \A i \in rows : Asked(s, i) => Accounted(s, i)

ReplayInv == \A s \in Subs : AllAccounted(s)

-----------------------------------------------------------------------------
(* The order of keys.                                                       *)

LogKey == [block : Nat, logIndex : Nat]

LEMMA KeyOrder ==
  ASSUME NEW k \in LogKey, NEW l \in LogKey, NEW m \in LogKey
  PROVE  /\ ~After(k, k)
         /\ After(k, l) => ~After(l, k)
         /\ After(k, l) /\ ~After(m, l) => After(k, m)
         /\ ~After(l, k) /\ After(l, m) => After(k, m)
         /\ ~After(k, l) /\ ~After(l, m) => ~After(k, m)
         /\ ~After(k, l) /\ ~After(l, k) => k = l
BY DEF LogKey, After

LEMMA KeyType == NoKey \in LogKey /\ \A i \in Position : Key(i) \in LogKey
BY PositionType DEF NoKey, LogKey

LEMMA KeyBefore ==
  ASSUME NEW i \in Position, NEW j \in Position
  PROVE  TableFacts!Before(i, j) <=> Later(j, i)
BY PositionType DEF TableFacts!Before, Later, After, Key

LEMMA SamePage ==
  ASSUME NEW order, NEW table, NEW f, NEW first, NEW limit, NEW start
  PROVE  /\ TableFacts!Page(order, table, f, first, 0, limit, start)
              = Table!Page(order, table, f, first, 0, limit, start)
         /\ TableFacts!Listings = Table!Listings
         /\ \A i : TableFacts!Selected(f, first, 0, i) <=> Table!Selected(f, first, 0, i)
         /\ TableFacts!Limit(limit) = Table!Limit(limit)
<1>1. \A i : TableFacts!Selected(f, first, 0, i) <=> Table!Selected(f, first, 0, i)
  BY DEF TableFacts!Selected, Table!Selected, TableFacts!Int64, Table!Int64
<1>2. \A set : TableFacts!Listed(order, set) = Table!Listed(order, set)
  BY Zenon DEF TableFacts!Listed, Table!Listed, TableFacts!Nth, Table!Nth,
     TableFacts!UpTo, Table!UpTo, TableFacts!Cardinality, Table!Cardinality
<1>3. TableFacts!Limit(limit) = Table!Limit(limit)
  BY DEF TableFacts!Limit, Table!Limit
<1>4. TableFacts!Page(order, table, f, first, 0, limit, start)
        = Table!Page(order, table, f, first, 0, limit, start)
  BY <1>1, <1>2, <1>3 DEF TableFacts!Page, Table!Page
<1>5. TableFacts!Listings = Table!Listings
  BY Zenon DEF TableFacts!Listings, Table!Listings, TableFacts!Before, Table!Before,
     TableFacts!SetToSeqs, Table!SetToSeqs, TableFacts!Cardinality, Table!Cardinality
<1> QED
  BY <1>1, <1>3, <1>4, <1>5

LEMMA SameCardinality == \A S : TableFacts!Cardinality(S) = Cardinality(S)
BY Zenon DEF TableFacts!Cardinality, Cardinality

(* What the page of a query holds: EventsTableProofs, in the terms of the   *)
(* replay.                                                                  *)
LEMMA PageHolds ==
  ASSUME NEW s \in Subs, rows \in SUBSET Position, offset[s] \in Nat, NEW order \in Orders
  PROVE  LET page == Table!Page(order, rows, filter[s], from[s], 0, ReplayLimit, offset[s])
         IN  /\ page \in Seq(rows) /\ Len(page) \in Nat /\ Len(page) <= ReplayLimit
             /\ \A r, t \in 1..Len(page) :
                  r < t => page[r] # page[t] /\ ~Later(page[t], page[r])
             /\ \A i \in rows : Asked(s, i) =>
                  \/ \E r \in 1..Len(page) : page[r] = i
                  \/ /\ ~Below(s, i, offset[s])
                     /\ \A r \in 1..Len(page) : ~Later(page[r], i)
                  \/ /\ Len(page) = ReplayLimit
                     /\ \A r \in 1..Len(page) : ~Later(i, page[r])
                     /\ \/ Below(s, i, offset[s] + ReplayLimit)
                        \/ OutOfOrder(i)
<1> DEFINE page == Table!Page(order, rows, filter[s], from[s], 0, ReplayLimit, offset[s])
           set  == TableFacts!Matching(rows, filter[s], from[s], 0)
<1>1. /\ TableFacts!KeysTyped /\ TableFacts!Rows = Position
      /\ ReplayLimit \in Nat \ {0} /\ ReplayLimit <= ListLimit
      /\ ListLimit \in Nat /\ DefaultLimit \in Nat \ {0}
      /\ order \in TableFacts!Listings
  <2>1. TableFacts!Rows = Position
    BY DEF TableFacts!Rows, Position
  <2>2. TableFacts!KeysTyped
    BY <2>1, PositionType DEF TableFacts!KeysTyped
  <2>3. order \in TableFacts!Listings
    BY StreamAssumption, SamePage
  <2>4. ReplayLimit \in 1..ListLimit /\ ListLimit \in Nat /\ DefaultLimit \in Nat \ {0}
    BY StreamAssumption
  <2> QED
    BY <2>1, <2>2, <2>3, <2>4
<1>2. TableFacts!Limit(ReplayLimit) = ReplayLimit /\ TableFacts!Skip(offset[s]) = offset[s]
  BY <1>1 DEF TableFacts!Limit, TableFacts!Skip
<1>3. /\ page \in Seq(set) /\ Len(page) <= ReplayLimit
      /\ \A r, t \in 1..Len(page) :
           r < t => page[r] # page[t] /\ ~TableFacts!Before(page[r], page[t])
      /\ \A i \in set :
           /\ TableFacts!Cardinality(TableFacts!Newer(set, i)) \in Nat
           /\ \/ \E r \in 1..Len(page) : page[r] = i
              \/ /\ TableFacts!Cardinality(TableFacts!Newer(set, i)) < offset[s]
                 /\ \A r \in 1..Len(page) : ~TableFacts!Before(i, page[r])
              \/ /\ Len(page) = ReplayLimit
                 /\ \A r \in 1..Len(page) : ~TableFacts!Before(page[r], i)
                 /\ \/ TableFacts!Cardinality(TableFacts!Newer(set, i))
                         >= offset[s] + ReplayLimit
                    \/ \E j \in set \ {i} :
                         ~TableFacts!Before(i, j) /\ ~TableFacts!Before(j, i)
  <2>1. page = TableFacts!Page(order, rows, filter[s], from[s], 0, ReplayLimit, offset[s])
    BY SamePage
  <2>2. ReplayLimit \in Int /\ offset[s] \in Int
    BY <1>1
  <2> HIDE DEF page
  <2>3. rows \in SUBSET TableFacts!Rows
    BY <1>1
  <2> DEFINE tpage == TableFacts!Page(order, rows, filter[s], from[s], 0, ReplayLimit, offset[s])
             tn == TableFacts!Limit(ReplayLimit)
             tskip == TableFacts!Skip(offset[s])
  <2>4. /\ tpage \in Seq(set) /\ Len(tpage) <= tn
        /\ \A r, t \in 1..Len(tpage) :
             r < t => tpage[r] # tpage[t] /\ ~TableFacts!Before(tpage[r], tpage[t])
        /\ \A i \in set :
             /\ TableFacts!Cardinality(TableFacts!Newer(set, i)) \in Nat
             /\ \/ \E r \in 1..Len(tpage) : tpage[r] = i
                \/ /\ TableFacts!Cardinality(TableFacts!Newer(set, i)) < tskip
                   /\ \A r \in 1..Len(tpage) : ~TableFacts!Before(i, tpage[r])
                \/ /\ Len(tpage) = tn
                   /\ \A r \in 1..Len(tpage) : ~TableFacts!Before(tpage[r], i)
                   /\ \/ TableFacts!Cardinality(TableFacts!Newer(set, i)) >= tskip + tn
                      \/ \E j \in set \ {i} :
                           ~TableFacts!Before(i, j) /\ ~TableFacts!Before(j, i)
    BY <1>1, <2>2, <2>3, TableFacts!PageSplits
  <2> QED
    BY <1>2, <2>1, <2>4
<1>4. set = {i \in rows : Asked(s, i)}
  BY SamePage DEF TableFacts!Matching, Asked
<1>5. \A i \in set : i \in rows /\ i \in Position
  BY <1>4
<1> HIDE DEF page, set
<1>6. page \in Seq(rows) /\ Len(page) \in Nat /\ \A r \in 1..Len(page) : page[r] \in set
  BY <1>3, <1>5, LenProperties, ElementOfSeq, SeqMonotonic
<1>7. \A i \in set : TableFacts!Newer(set, i) = Above(s, i)
  BY <1>4, KeyBefore DEF TableFacts!Newer, Above
<1>8. ASSUME NEW i \in set, NEW j \in set \ {i},
             ~TableFacts!Before(i, j), ~TableFacts!Before(j, i)
      PROVE  OutOfOrder(i)
  <2>1. ~After(Key(i), Key(j)) /\ ~After(Key(j), Key(i))
    BY <1>5, <1>8, KeyBefore DEF Later
  <2>2. Key(i) = Key(j)
    BY <1>5, <2>1, KeyOrder, KeyType
  <2> QED
    BY <1>5, <2>2 DEF OutOfOrder
<1>9. \A r, t \in 1..Len(page) : r < t => page[r] # page[t] /\ ~Later(page[t], page[r])
  BY <1>3, <1>5, <1>6, KeyBefore
<1>10. ASSUME NEW i \in set
       PROVE  \/ \E r \in 1..Len(page) : page[r] = i
              \/ /\ ~Below(s, i, offset[s])
                 /\ \A r \in 1..Len(page) : ~Later(page[r], i)
              \/ /\ Len(page) = ReplayLimit
                 /\ \A r \in 1..Len(page) : ~Later(i, page[r])
                 /\ \/ Below(s, i, offset[s] + ReplayLimit)
                    \/ OutOfOrder(i)
  <2>1. TableFacts!Cardinality(TableFacts!Newer(set, i)) = Cardinality(Above(s, i))
    BY <1>7, SameCardinality
  <2>2. \A r \in 1..Len(page) :
          /\ TableFacts!Before(i, page[r]) <=> Later(page[r], i)
          /\ TableFacts!Before(page[r], i) <=> Later(i, page[r])
    BY <1>5, <1>6, KeyBefore
  <2>3. Cardinality(Above(s, i)) \in Nat
    BY <1>3, <2>1
  <2> QED
    BY <1>3, <1>8, <2>1, <2>2, <2>3 DEF Below
<1> QED
  BY <1>3, <1>4, <1>6, <1>9, <1>10 DEF page

-----------------------------------------------------------------------------
HubInv == TypeOK /\ PermitInv /\ NoSilentLoss /\ WantInv /\ OrderInv

LEMMA HubInvariant == StreamSpec => []HubInv
<1>1. OnePublisher
  BY StreamAssumption DEF OnePublisher
<1>2. Spec => []OrderInv
  BY <1>1, OrderInvariant
<1> QED
  BY <1>2, StreamsHub, TypeCorrect, PermitInvariant, LossIsSignalled, WantInvariant, PTL
     DEF HubInv

(* The steps of the hub that leave the table and the replay alone.          *)
Quiet ==
  /\ UNCHANGED <<tableVars, from, replayVars>>
  /\ \/ \E s \in Subs : Connect(s) \/ ReceiveClosed(s)
     \/ PublisherStep(Ingester)
     \/ ShutdownFlag \/ ShutdownStep
     \/ UNCHANGED vars

LEMMA StreamCases ==
  ASSUME [StreamNext]_streamVars
  PROVE  \/ \E i \in Position : InsertRow(i)
         \/ PublishRow \/ LeaveUnpublished
         \/ \E s \in Subs : Subscribe(s) \/ ReplayQuery(s) \/ ReplaySend(s) \/ LiveReceive(s)
         \/ Quiet
<1>1. ASSUME NEW s \in Subs, LiveClosed(s) \/ InHub(Connect(s)) PROVE Quiet
  BY <1>1 DEF LiveClosed, InHub, Quiet
<1>2. CASE InHub(PublisherStep(Ingester)) \/ InHub(ShutdownFlag) \/ InHub(ShutdownStep)
           \/ InHub(Finished) \/ UNCHANGED streamVars
  BY <1>2 DEF InHub, Finished, Quiet, streamVars
<1> QED
  BY <1>1, <1>2 DEF StreamNext, HandlerRuns

(* What they do to the hub, as far as the replay can tell: no subscription  *)
(* is registered or ends its Subscribe, no handler receives, and what a     *)
(* channel accepts stays in its buffer.                                     *)
LEMMA QuietStep ==
  ASSUME TypeOK, Quiet
  PROVE  /\ UNCHANGED <<filter, base, last>>
         /\ \A s \in Subs : New(s)' <=> New(s)
         /\ \A s \in Subs : accepted'[s] \ Buffered(s)' \subseteq accepted[s] \ Buffered(s)
         /\ \/ PublishSnapshot(Ingester)
            \/ UNCHANGED <<log, arg>> /\ (ppc'[Ingester] = "called" <=> ppc[Ingester] = "called")
<1>1. Ingester \in Publishers /\ DOMAIN ppc = Publishers /\ DOMAIN hpc = Subs
  BY StreamAssumption DEF TypeOK
<1>2. ASSUME NEW s \in Subs, Connect(s) \/ ReceiveClosed(s)
      PROVE  /\ UNCHANGED <<filter, base, last, accepted, chan, log, arg, ppc>>
             /\ \A t \in Subs : New(t)' <=> New(t)
  <2>1. UNCHANGED <<filter, base, last, accepted, chan, log, arg, ppc>>
    BY <1>2 DEF Connect, SubscribeLoad, Leave, CancelDelete, CancelClose, ReceiveClosed,
       pubVars, histVars
  <2>2. \A t \in Subs \ {s} : hpc'[t] = hpc[t]
    BY <1>1, <1>2 DEF Connect, SubscribeLoad, Leave, CancelDelete, CancelClose, ReceiveClosed
  <2>3. New(s)' <=> New(s)
    BY <1>1, <1>2 DEF Connect, SubscribeLoad, Leave, CancelDelete, CancelClose, ReceiveClosed,
       New
  <2> QED
    BY <2>1, <2>2, <2>3 DEF New
<1>3. ASSUME ShutdownFlag \/ ShutdownStep \/ UNCHANGED vars
      PROVE  UNCHANGED <<hpc, filter, base, last, accepted, chan, log, arg, ppc>>
  BY <1>3 DEF ShutdownFlag, ShutdownStep, ShutdownLock, ShutdownClose, ShutdownUnlock, vars,
     subVars, pubVars, histVars
<1>4. ASSUME NEW s \in Subs, PublishSend(Ingester, s)
      PROVE  /\ UNCHANGED <<hpc, filter, base, last, log, arg, ppc>>
             /\ \A t \in Subs :
                  accepted'[t] \ Buffered(t)' \subseteq accepted[t] \ Buffered(t)
  <2>1. UNCHANGED <<hpc, filter, base, last, log, arg, ppc>>
    BY <1>4 DEF PublishSend
  <2>2. \A t \in Subs \ {s} :
          accepted'[t] \ Buffered(t)' \subseteq accepted[t] \ Buffered(t)
    BY <1>1, <1>4, SendCases DEF Buffered
  <2>3. accepted'[s] \ Buffered(s)' \subseteq accepted[s] \ Buffered(s)
    <3>1. CASE UNCHANGED <<accepted, chan>>
      BY <3>1 DEF Buffered
    <3>2. CASE accepted'[s] = accepted[s] \cup {cur[Ingester]}
               /\ chan'[s] = Append(chan[s], cur[Ingester])
      <4>1. chan[s] \in Seq(Nat) /\ cur[Ingester] \in Nat
        BY <1>1 DEF TypeOK
      <4>2. /\ Len(chan'[s]) = Len(chan[s]) + 1 /\ Len(chan[s]) \in Nat
            /\ \A k \in 1..Len(chan[s]) : chan'[s][k] = chan[s][k]
            /\ chan'[s][Len(chan[s]) + 1] = cur[Ingester]
        BY <3>2, <4>1, AppendProperties, LenProperties
      <4>3. cur[Ingester] \in Buffered(s)' /\ Buffered(s) \subseteq Buffered(s)'
        BY <4>2 DEF Buffered
      <4> QED
        BY <3>2, <4>3
    <3> QED
      BY <1>1, <1>4, <3>1, <3>2, SendCases
  <2> QED
    BY <2>1, <2>2, <2>3
<1>5. ASSUME NEW s \in Subs,
             PublishSkip(Ingester, s) \/ PublishRemove(Ingester, s) \/ PublishClose(Ingester, s)
      PROVE  UNCHANGED <<hpc, filter, base, last, accepted, chan, log, arg, ppc>>
  BY <1>5 DEF PublishSkip, PublishRemove, PublishClose, subVars, histVars
<1>6. ASSUME PublishReturn(Ingester)
      PROVE  /\ UNCHANGED <<hpc, filter, base, last, accepted, chan, log, arg>>
             /\ ppc'[Ingester] # "called" /\ ppc[Ingester] # "called"
  BY <1>1, <1>6 DEF PublishReturn, subVars, histVars
<1>7. ASSUME PublishSnapshot(Ingester)
      PROVE  UNCHANGED <<hpc, filter, base, last, accepted, chan>>
  BY <1>7 DEF PublishSnapshot, subVars
<1>8. CASE PublisherStep(Ingester)
  BY <1>4, <1>5, <1>6, <1>7, <1>8 DEF PublisherStep, New, Buffered
<1> QED
  BY <1>2, <1>3, <1>8 DEF Quiet, New, Buffered

-----------------------------------------------------------------------------
(* What is published.                                                       *)

LEMMA PubsAppend ==
  ASSUME pubs \in Seq(Position), ingest \in Position, pubs' = Append(pubs, ingest)
  PROVE  /\ pubs' \in Seq(Position) /\ Len(pubs) \in Nat /\ Len(pubs') = Len(pubs) + 1
         /\ \A n \in 1..Len(pubs) : pubs'[n] = pubs[n]
         /\ pubs'[Len(pubs) + 1] = ingest
BY AppendProperties, LenProperties

LEMMA PublishStep ==
  ASSUME TypeOK, IngestTyped, PublishRow
  PROVE  /\ UNCHANGED <<hpc, filter, base, last, accepted, chan, log, rows, late, from,
                        replayVars>>
         /\ ingest \in Position /\ ingest' = 0 /\ pubs' = Append(pubs, ingest)
         /\ ppc[Ingester] = "idle" /\ ppc'[Ingester] = "called"
         /\ arg'[Ingester] = EventOf(ingest)
<1>1. Ingester \in Publishers /\ DOMAIN ppc = Publishers /\ DOMAIN arg = Publishers
  BY StreamAssumption DEF TypeOK
<1> QED
  BY <1>1 DEF PublishRow, PublishCall, IngestTyped, subVars, histVars

LEMMA NextPublishedEvents ==
  ASSUME TypeOK, IngestTyped, pubs \in Seq(Position), PublishedEvents,
         [StreamNext]_streamVars
  PROVE  PublishedEvents'
<1>0. /\ Ingester \in Publishers /\ DOMAIN ppc = Publishers
      /\ Len(log) \in Nat /\ Len(pubs) \in Nat
  BY StreamAssumption, LenProperties DEF TypeOK
<1>1. CASE UNCHANGED <<pubs, log, arg, ppc>>
  BY <1>1 DEF PublishedEvents
<1>2. ASSUME (\E i \in Position : InsertRow(i)) \/ LeaveUnpublished
      PROVE  PublishedEvents'
  BY <1>1, <1>2 DEF InsertRow, LeaveUnpublished, vars, pubVars, histVars
<1>3. ASSUME NEW s \in Subs, Subscribe(s) \/ ReplayQuery(s) \/ ReplaySend(s) \/ LiveReceive(s)
      PROVE  PublishedEvents'
  BY <1>1, <1>3 DEF Subscribe, SubscribeInsert, ReplayQuery, ReplaySend, LiveReceive, Receive, vars,
     pubVars, histVars, tableVars
<1>4. CASE PublishRow
  <2>1. Len(pubs) = Len(log) /\ ppc'[Ingester] = "called" /\ log' = log
    BY <1>4, PublishStep DEF PublishedEvents
  <2>2. /\ Len(pubs') = Len(pubs) + 1
        /\ \A n \in 1..Len(pubs) : pubs'[n] = pubs[n]
        /\ arg'[Ingester] = EventOf(pubs'[Len(pubs) + 1])
    BY <1>4, PublishStep, PubsAppend
  <2> QED
    BY <1>0, <2>1, <2>2 DEF PublishedEvents
<1>5. CASE Quiet
  <2>1. pubs' = pubs
    BY <1>5 DEF Quiet, tableVars
  <2>2. CASE PublishSnapshot(Ingester)
    <3>1. ppc[Ingester] = "called" /\ ppc'[Ingester] # "called"
      BY <1>0, <2>2 DEF PublishSnapshot
    <3>2. Len(pubs) = Len(log) + 1 /\ arg[Ingester] = EventOf(pubs[Len(log) + 1])
      BY <3>1 DEF PublishedEvents
    <3>3. /\ Len(log') = Len(log) + 1 /\ \A n \in 1..Len(log) : log'[n] = log[n]
          /\ log'[Len(log) + 1] = arg[Ingester]
      BY <1>0, <2>2, LogGrows
    <3> QED
      BY <1>0, <2>1, <3>1, <3>2, <3>3 DEF PublishedEvents
  <2>3. CASE UNCHANGED <<log, arg>>
             /\ (ppc'[Ingester] = "called" <=> ppc[Ingester] = "called")
    BY <2>1, <2>3 DEF PublishedEvents
  <2> QED
    BY <1>5, <2>2, <2>3, QuietStep
<1> QED
  BY <1>2, <1>3, <1>4, <1>5, StreamCases

(* Rows, and what is known of their order, only ever grow.                  *)
LEMMA OutOfOrderStays ==
  ASSUME rows \subseteq rows', late \subseteq late', NEW i, OutOfOrder(i)
  PROVE  OutOfOrder(i)'
BY DEF OutOfOrder, Key

LEMMA TableStep ==
  ASSUME [StreamNext]_streamVars
  PROVE  /\ rows \subseteq rows' /\ late \subseteq late'
         /\ \/ UNCHANGED <<rows, late>>
            \/ \E i \in Position : InsertRow(i)
BY StreamCases DEF InsertRow, PublishRow, LeaveUnpublished, Subscribe, ReplayQuery,
   ReplaySend, LiveReceive, Quiet, tableVars

LEMMA NextPublishedRows ==
  ASSUME TypeOK, IngestTyped, rows \in SUBSET Position, pubs \in Seq(Position),
         PublishedRows, PublishedInOrder, [StreamNext]_streamVars
  PROVE  PublishedRows' /\ PublishedInOrder'
<1>0. Len(pubs) \in Nat /\ \A n \in 1..Len(pubs) : pubs[n] \in Position
  BY LenProperties, ElementOfSeq
<1>1. CASE UNCHANGED <<pubs, ingest, rows, late>>
  BY <1>1 DEF PublishedRows, PublishedInOrder, OutOfOrder, Later, Key
<1>2. ASSUME NEW i \in Position, InsertRow(i)
      PROVE  PublishedRows' /\ PublishedInOrder'
  <2>1. /\ ingest' = i /\ rows' = rows \cup {i} /\ i \notin rows /\ pubs' = pubs
        /\ i # 0
        /\ (\E j \in rows : After(Key(j), Key(i))) => i \in late'
    BY <1>2, PositionType DEF InsertRow
  <2>2. PublishedRows'
    BY <2>1 DEF PublishedRows
  <2>3. ASSUME NEW j \in rows, i \notin late' PROVE Later(i, j) \/ Key(j) = Key(i)
    <3>1. ~After(Key(j), Key(i))
      BY <2>1, <2>3
    <3> QED
      BY <3>1, KeyOrder, KeyType DEF Later
  <2>4. \A j \in rows : Later(i, j) \/ OutOfOrder(i)'
    BY <2>1, <2>3 DEF OutOfOrder, Key
  <2>5. rows \subseteq rows' /\ late \subseteq late'
    BY <1>2, TableStep
  <2>6. \A m, n \in 1..Len(pubs) : m < n => Later(pubs[n], pubs[m]) \/ OutOfOrder(pubs[n])'
    BY <2>1, <2>5 DEF PublishedInOrder, OutOfOrder, Key
  <2> QED
    BY <2>1, <2>2, <2>4, <2>6 DEF PublishedInOrder, Later, Key
<1>3. CASE PublishRow
  <2>1. /\ UNCHANGED <<rows, late>> /\ ingest \in Position /\ ingest' = 0
        /\ ingest \in rows /\ ingest # 0
    BY <1>3, PublishStep, PositionType DEF PublishedRows
  <2>2. /\ Len(pubs') = Len(pubs) + 1 /\ pubs'[Len(pubs) + 1] = ingest
        /\ \A n \in 1..Len(pubs) : pubs'[n] = pubs[n]
    BY <1>3, PublishStep, PubsAppend
  <2>3. \A n \in 1..Len(pubs') : pubs'[n] \in rows /\ pubs'[n] # 0
    <3>1. \A n \in 1..Len(pubs') : n \in 1..Len(pubs) \/ n = Len(pubs) + 1
      BY <1>0, <2>2
    <3>2. \A n \in 1..Len(pubs) : pubs[n] \in rows /\ pubs[n] # 0
      BY <1>0, PositionType DEF PublishedRows
    <3> QED
      BY <2>1, <2>2, <3>1, <3>2
  <2>4. ASSUME NEW m \in 1..Len(pubs'), NEW n \in 1..Len(pubs'), m < n
        PROVE  /\ pubs'[m] # pubs'[n]
               /\ Later(pubs'[n], pubs'[m]) \/ OutOfOrder(pubs'[n])
    <3>1. m \in 1..Len(pubs) /\ (n \in 1..Len(pubs) \/ n = Len(pubs) + 1)
      BY <1>0, <2>2, <2>4
    <3>2. CASE n \in 1..Len(pubs)
      BY <2>2, <2>4, <3>1, <3>2 DEF PublishedRows, PublishedInOrder
    <3>3. CASE n = Len(pubs) + 1
      <4>1. pubs'[n] = ingest /\ pubs'[m] = pubs[m]
        BY <2>2, <3>1, <3>3
      <4>2. pubs[m] \in rows \ {ingest}
        BY <3>1 DEF PublishedRows
      <4>3. Later(ingest, pubs[m]) \/ OutOfOrder(ingest)
        BY <2>1, <4>2 DEF PublishedInOrder
      <4> QED
        BY <4>1, <4>2, <4>3
    <3> QED
      BY <3>1, <3>2, <3>3
  <2>5. PublishedRows'
    BY <2>1, <2>3, <2>4 DEF PublishedRows
  <2>6. PublishedInOrder'
    BY <2>1, <2>4 DEF PublishedInOrder, OutOfOrder, Later, Key
  <2> QED
    BY <2>5, <2>6
<1>4. CASE LeaveUnpublished
  <2>1. UNCHANGED <<rows, pubs, late>> /\ ingest' = 0
    BY <1>4 DEF LeaveUnpublished
  <2>2. \A n \in 1..Len(pubs) : pubs[n] # 0
    BY <1>0, PositionType
  <2> QED
    BY <2>1, <2>2 DEF PublishedRows, PublishedInOrder, OutOfOrder, Later, Key
<1>5. ASSUME NEW s \in Subs, Subscribe(s) \/ ReplayQuery(s) \/ ReplaySend(s) \/ LiveReceive(s)
      PROVE  UNCHANGED <<pubs, ingest, rows, late>>
  BY <1>5 DEF Subscribe, ReplayQuery, ReplaySend, LiveReceive, tableVars
<1>6. Quiet => UNCHANGED <<pubs, ingest, rows, late>>
  BY DEF Quiet, tableVars
<1> QED
  BY <1>1, <1>2, <1>3, <1>4, <1>5, <1>6, StreamCases

-----------------------------------------------------------------------------
(* Type correctness.                                                        *)

(* The next event of a buffer is one that was published.                    *)
LEMMA HeadPublished ==
  ASSUME HubInv, PublishedEvents, pubs \in Seq(Position), NEW s \in Subs, chan[s] # <<>>
  PROVE  /\ Head(chan[s]) \in accepted[s] /\ Head(chan[s]) > last[s]
         /\ Head(chan[s]) \in 1..Len(pubs) /\ pubs[Head(chan[s])] \in Position
<1>1. /\ chan[s] \in Seq(Nat) /\ base[s] \in Nat /\ Len(log) \in Nat
      /\ Len(pubs) \in Nat
  BY LenProperties DEF HubInv, TypeOK
<1>2. 1 \in 1..Len(chan[s]) /\ Head(chan[s]) = chan[s][1]
  BY <1>1, EmptySeq, LenProperties
<1>3. Head(chan[s]) \in accepted[s] /\ last[s] < Head(chan[s])
  BY <1>2 DEF HubInv, OrderInv, BufferInOrder
<1>4. Head(chan[s]) \in 1..Len(log)
  BY <1>1, <1>3 DEF HubInv, WantInv, OnlyWanted, Wanted
<1>5. Len(log) <= Len(pubs)
  BY <1>1 DEF PublishedEvents
<1>6. last[s] \in Nat
  BY DEF HubInv, TypeOK
<1> DEFINE n == Head(chan[s])
<1> HIDE DEF n
<1>7. n \in 1..Len(pubs)
  BY <1>1, <1>4, <1>5 DEF n
<1>8. n > last[s]
  BY <1>1, <1>3, <1>4, <1>6 DEF n
<1> QED
  BY <1>3, <1>7, <1>8, ElementOfSeq DEF n

LEMMA ReverseHolds ==
  ASSUME NEW S, NEW q \in Seq(S)
  PROVE  /\ Reverse(q) \in Seq(S) /\ Len(Reverse(q)) = Len(q) /\ Len(q) \in Nat
         /\ \A k \in 1..Len(q) : Len(q) - k + 1 \in 1..Len(q)
                                 /\ Reverse(q)[k] = q[Len(q) - k + 1]
<1>1. Len(q) \in Nat /\ \A k \in 1..Len(q) : Len(q) - k + 1 \in 1..Len(q)
  BY LenProperties
<1>2. Reverse(q) = [k \in 1..Len(q) |-> q[Len(q) - k + 1]]
  BY DEF Reverse
<1>3. Reverse(q) \in [1..Len(q) -> S]
  BY <1>1, <1>2, ElementOfSeq
<1>4. Reverse(q) \in Seq(S)
  BY <1>1, <1>3, SeqDef
<1>5. Len(Reverse(q)) = Len(q)
  BY <1>1, <1>3, <1>4, LenProperties
<1> QED
  BY <1>1, <1>2, <1>4, <1>5

(* What each step of a handler does.                                        *)
LEMMA SubscribeStep ==
  ASSUME TypeOK, StreamTypeOK, NEW s \in Subs, Subscribe(s)
  PROVE  /\ UNCHANGED <<tableVars, from, offset, batch, full, mark, sent, replayed,
                        filter, accepted, chan, last, log, arg, ppc>>
         /\ New(s)
         /\ \A t \in Subs \ {s} : phase'[t] = phase[t] /\ base'[t] = base[t]
                                  /\ (New(t)' <=> New(t))
         /\ \/ phase'[s] = phase[s] /\ base'[s] = base[s] /\ New(s)'
            \/ /\ phase'[s] = IF from[s] > 0 THEN "query" ELSE "live"
               /\ base'[s] = Len(log) /\ ~New(s)'
<1>1. /\ UNCHANGED <<tableVars, from, offset, batch, full, mark, sent, replayed,
                     filter, accepted, chan, last, log, arg, ppc>>
      /\ New(s)
  BY DEF Subscribe, SubscribeInsert, pubVars, New
<1>2. DOMAIN phase = Subs /\ DOMAIN hpc = Subs /\ DOMAIN base = Subs
  BY DEF TypeOK, StreamTypeOK
<1>3. \A t \in Subs \ {s} : phase'[t] = phase[t] /\ base'[t] = base[t] /\ hpc'[t] = hpc[t]
  BY <1>2 DEF Subscribe, SubscribeInsert
<1>4. \/ hpc'[s] = "rejected" /\ phase'[s] = phase[s] /\ base'[s] = base[s]
      \/ /\ hpc'[s] = "open" /\ base'[s] = Len(log)
         /\ phase'[s] = IF from[s] > 0 THEN "query" ELSE "live"
  BY <1>2 DEF Subscribe, SubscribeInsert
<1> QED
  BY <1>1, <1>3, <1>4 DEF New

LEMMA QueryStep ==
  ASSUME StreamTypeOK, NEW s \in Subs, ReplayQuery(s)
  PROVE  /\ UNCHANGED <<vars, tableVars, from, offset, mark, sent, replayed>>
         /\ phase[s] = "query"
         /\ \A t \in Subs \ {s} :
              phase'[t] = phase[t] /\ batch'[t] = batch[t] /\ full'[t] = full[t]
         /\ batch'[s] \in Seq(rows) /\ Len(batch'[s]) \in Nat
         /\ phase'[s] = IF batch'[s] = <<>> THEN "live" ELSE "send"
         /\ Len(batch'[s]) <= ReplayLimit
         /\ full'[s] = (Len(batch'[s]) = ReplayLimit)
         /\ \A k, l \in 1..Len(batch'[s]) :
              k < l => batch'[s][k] # batch'[s][l] /\ ~Later(batch'[s][k], batch'[s][l])
         /\ \A i \in rows : Asked(s, i) =>
              \/ \E k \in 1..Len(batch'[s]) : batch'[s][k] = i
              \/ /\ ~Below(s, i, offset[s])
                 /\ \A k \in 1..Len(batch'[s]) : ~Later(batch'[s][k], i)
              \/ /\ Len(batch'[s]) = ReplayLimit
                 /\ \A k \in 1..Len(batch'[s]) : ~Later(i, batch'[s][k])
                 /\ Below(s, i, offset[s] + ReplayLimit) \/ OutOfOrder(i)
<1>1. PICK order \in Orders :
        LET page == Table!Page(order, rows, filter[s], from[s], 0, ReplayLimit, offset[s])
        IN  /\ phase' = [phase EXCEPT ![s] = IF page = <<>> THEN "live" ELSE "send"]
            /\ batch' = [batch EXCEPT ![s] = Reverse(page)]
            /\ full' = [full EXCEPT ![s] = Len(page) >= ReplayLimit]
  BY DEF ReplayQuery, OldestFirst
<1> DEFINE page == Table!Page(order, rows, filter[s], from[s], 0, ReplayLimit, offset[s])
<1>2. rows \in SUBSET Position /\ offset[s] \in Nat /\ ReplayLimit \in Nat
  BY StreamAssumption DEF StreamTypeOK
<1>3. /\ page \in Seq(rows) /\ Len(page) \in Nat /\ Len(page) <= ReplayLimit
      /\ \A r, t \in 1..Len(page) : r < t => page[r] # page[t] /\ ~Later(page[t], page[r])
      /\ \A i \in rows : Asked(s, i) =>
           \/ \E r \in 1..Len(page) : page[r] = i
           \/ /\ ~Below(s, i, offset[s])
              /\ \A r \in 1..Len(page) : ~Later(page[r], i)
           \/ /\ Len(page) = ReplayLimit
              /\ \A r \in 1..Len(page) : ~Later(i, page[r])
              /\ Below(s, i, offset[s] + ReplayLimit) \/ OutOfOrder(i)
  BY <1>2, PageHolds
<1>4. DOMAIN phase = Subs /\ DOMAIN batch = Subs /\ DOMAIN full = Subs
  BY DEF StreamTypeOK
<1>5. /\ phase'[s] = IF page = <<>> THEN "live" ELSE "send"
      /\ batch'[s] = Reverse(page) /\ full'[s] = (Len(page) >= ReplayLimit)
      /\ \A t \in Subs \ {s} :
           phase'[t] = phase[t] /\ batch'[t] = batch[t] /\ full'[t] = full[t]
  BY <1>1, <1>4
<1> HIDE DEF page
<1>6. /\ batch'[s] \in Seq(rows) /\ Len(batch'[s]) = Len(page)
      /\ \A k \in 1..Len(page) : Len(page) - k + 1 \in 1..Len(page)
                                 /\ batch'[s][k] = page[Len(page) - k + 1]
  BY <1>3, <1>5, ReverseHolds
<1>7. page = <<>> <=> batch'[s] = <<>>
  BY <1>3, <1>6, EmptySeq
<1>8. \A r \in 1..Len(page) : \E k \in 1..Len(page) : batch'[s][k] = page[r]
  <2> SUFFICES ASSUME NEW r \in 1..Len(page)
               PROVE  \E k \in 1..Len(page) : batch'[s][k] = page[r]
    OBVIOUS
  <2>1. Len(page) - r + 1 \in 1..Len(page) /\ Len(page) - (Len(page) - r + 1) + 1 = r
    BY <1>3
  <2> QED
    BY <1>6, <2>1
<1>9. ASSUME NEW k \in 1..Len(page), NEW l \in 1..Len(page), k < l
      PROVE  batch'[s][k] # batch'[s][l] /\ ~Later(batch'[s][k], batch'[s][l])
  <2>1. Len(page) - l + 1 < Len(page) - k + 1
    BY <1>3, <1>9
  <2> QED
    BY <1>3, <1>6, <2>1
<1>10. ASSUME NEW i \in rows, Asked(s, i)
       PROVE  \/ \E k \in 1..Len(batch'[s]) : batch'[s][k] = i
              \/ /\ ~Below(s, i, offset[s])
                 /\ \A k \in 1..Len(batch'[s]) : ~Later(batch'[s][k], i)
              \/ /\ Len(batch'[s]) = ReplayLimit
                 /\ \A k \in 1..Len(batch'[s]) : ~Later(i, batch'[s][k])
                 /\ Below(s, i, offset[s] + ReplayLimit) \/ OutOfOrder(i)
  BY <1>3, <1>6, <1>8, <1>10
<1>11. full'[s] = (Len(batch'[s]) = ReplayLimit)
  BY <1>2, <1>3, <1>5, <1>6
<1>12. UNCHANGED <<vars, tableVars, from, offset, mark, sent, replayed>> /\ phase[s] = "query"
  BY DEF ReplayQuery
<1> QED
  BY <1>3, <1>5, <1>6, <1>7, <1>9, <1>10, <1>11, <1>12

LEMMA SendStep ==
  ASSUME StreamTypeOK, NEW s \in Subs, batch[s] # <<>>, ReplaySend(s)
  PROVE  LET i    == batch[s][1]
             done == batch'[s] = <<>>
         IN  /\ UNCHANGED <<vars, tableVars, from, full>>
             /\ phase[s] = "send"
             /\ \A t \in Subs \ {s} : /\ sent'[t] = sent[t] /\ replayed'[t] = replayed[t]
                                      /\ mark'[t] = mark[t] /\ batch'[t] = batch[t]
                                      /\ phase'[t] = phase[t] /\ offset'[t] = offset[t]
             /\ i \in Position /\ 1 \in 1..Len(batch[s])
             /\ sent'[s] = Append(sent[s], i) /\ sent'[s] \in Seq(Position)
             /\ Len(sent[s]) \in Nat /\ Len(sent'[s]) = Len(sent[s]) + 1
             /\ sent'[s][Len(sent[s]) + 1] = i
             /\ \A k \in 1..Len(sent[s]) : sent'[s][k] = sent[s][k]
             /\ replayed'[s] = replayed[s] + 1 /\ replayed[s] \in Nat
             /\ mark'[s] = IF After(Key(i), mark[s]) THEN Key(i) ELSE mark[s]
             /\ batch'[s] \in Seq(Position)
             /\ Len(batch[s]) \in Nat /\ Len(batch'[s]) = Len(batch[s]) - 1
             /\ \A k \in 1..Len(batch'[s]) :
                  k + 1 \in 1..Len(batch[s]) /\ batch'[s][k] = batch[s][k + 1]
             /\ phase'[s] = IF ~done THEN "send" ELSE IF full[s] THEN "query" ELSE "live"
             /\ offset'[s] = IF done /\ full[s] THEN offset[s] + ReplayLimit ELSE offset[s]
<1> DEFINE i == batch[s][1]
<1>1. /\ DOMAIN sent = Subs /\ DOMAIN replayed = Subs /\ DOMAIN mark = Subs
      /\ DOMAIN batch = Subs /\ DOMAIN phase = Subs /\ DOMAIN offset = Subs
      /\ sent[s] \in Seq(Position) /\ batch[s] \in Seq(Position) /\ replayed[s] \in Nat
  BY DEF StreamTypeOK
<1>2. Len(batch[s]) \in Nat /\ 1 \in 1..Len(batch[s]) /\ Head(batch[s]) = i
  BY <1>1, EmptySeq, LenProperties
<1>3. i \in Position
  BY <1>1, <1>2, ElementOfSeq
<1>4. /\ Tail(batch[s]) \in Seq(Position) /\ Len(Tail(batch[s])) = Len(batch[s]) - 1
      /\ \A k \in 1..Len(Tail(batch[s])) : Tail(batch[s])[k] = batch[s][k + 1]
  BY <1>1, HeadTailProperties
<1>5. /\ UNCHANGED <<vars, tableVars, from, full>> /\ phase[s] = "send"
      /\ sent' = [sent EXCEPT ![s] = Append(sent[s], Head(batch[s]))]
      /\ replayed' = [replayed EXCEPT ![s] = replayed[s] + 1]
      /\ mark' = [mark EXCEPT ![s] = IF After(Key(Head(batch[s])), mark[s])
                                     THEN Key(Head(batch[s])) ELSE mark[s]]
      /\ batch' = [batch EXCEPT ![s] = Tail(batch[s])]
      /\ phase' = [phase EXCEPT ![s] = IF Tail(batch[s]) # <<>> THEN "send"
                                       ELSE IF full[s] THEN "query" ELSE "live"]
      /\ offset' = [offset EXCEPT ![s] = IF Tail(batch[s]) = <<>> /\ full[s]
                                         THEN offset[s] + ReplayLimit ELSE offset[s]]
  BY DEF ReplaySend
<1>6. /\ sent'[s] = Append(sent[s], i) /\ replayed'[s] = replayed[s] + 1
      /\ mark'[s] = IF After(Key(i), mark[s]) THEN Key(i) ELSE mark[s]
      /\ batch'[s] = Tail(batch[s])
      /\ phase'[s] = IF batch'[s] # <<>> THEN "send" ELSE IF full[s] THEN "query" ELSE "live"
      /\ offset'[s] = IF batch'[s] = <<>> /\ full[s] THEN offset[s] + ReplayLimit ELSE offset[s]
  BY <1>1, <1>2, <1>5
<1>7. \A t \in Subs \ {s} : /\ sent'[t] = sent[t] /\ replayed'[t] = replayed[t]
                            /\ mark'[t] = mark[t] /\ batch'[t] = batch[t]
                            /\ phase'[t] = phase[t] /\ offset'[t] = offset[t]
  BY <1>1, <1>5
<1>8. /\ sent'[s] \in Seq(Position) /\ Len(sent'[s]) = Len(sent[s]) + 1
      /\ Len(sent[s]) \in Nat /\ sent'[s][Len(sent[s]) + 1] = i
      /\ \A k \in 1..Len(sent[s]) : sent'[s][k] = sent[s][k]
  BY <1>1, <1>3, <1>6, AppendProperties, LenProperties
<1>9. \A k \in 1..Len(batch'[s]) :
        k + 1 \in 1..Len(batch[s]) /\ batch'[s][k] = batch[s][k + 1]
  BY <1>2, <1>4, <1>6
<1> QED
  BY <1>1, <1>2, <1>3, <1>4, <1>5, <1>6, <1>7, <1>8, <1>9

LEMMA ReceiveStep ==
  ASSUME HubInv, StreamTypeOK, PublishedEvents, NEW s \in Subs, LiveReceive(s)
  PROVE  LET n == Head(chan[s])
             i == pubs[n]
         IN  /\ UNCHANGED <<hpc, filter, base, accepted, log, arg, ppc, tableVars, from, phase,
                            offset, batch, full, mark, replayed>>
             /\ phase[s] = "live"
             /\ n \in accepted[s] /\ n \in 1..Len(pubs) /\ n > last[s] /\ i \in Position
             /\ last'[s] = n
             /\ \A t \in Subs \ {s} :
                  sent'[t] = sent[t] /\ chan'[t] = chan[t] /\ last'[t] = last[t]
             /\ \A m \in Buffered(s) : m = n \/ m \in Buffered(s)'
             /\ Len(sent[s]) \in Nat /\ sent'[s] \in Seq(Position)
             /\ \A k \in 1..Len(sent[s]) : sent'[s][k] = sent[s][k]
             /\ \/ ~Fresh(s, i) /\ sent'[s] = sent[s]
                \/ /\ Fresh(s, i) /\ Len(sent'[s]) = Len(sent[s]) + 1
                   /\ sent'[s][Len(sent[s]) + 1] = i
<1> DEFINE n == Head(chan[s])
           i == pubs[n]
<1>1. /\ DOMAIN sent = Subs /\ DOMAIN chan = Subs /\ DOMAIN last = Subs
      /\ sent[s] \in Seq(Position) /\ chan[s] \in Seq(Nat) /\ pubs \in Seq(Position)
      /\ chan[s] # <<>>
  BY DEF StreamTypeOK, HubInv, TypeOK, LiveReceive, Receive
<1>2. n \in accepted[s] /\ n > last[s] /\ n \in 1..Len(pubs) /\ i \in Position
  BY <1>1, HeadPublished
<1>3. /\ UNCHANGED <<hpc, filter, base, accepted, log, arg, ppc, tableVars, from, phase,
                     offset, batch, full, mark, replayed>>
      /\ phase[s] = "live"
      /\ last' = [last EXCEPT ![s] = n]
      /\ chan' = [chan EXCEPT ![s] = Tail(chan[s])]
      /\ sent' = IF Fresh(s, i) THEN [sent EXCEPT ![s] = Append(sent[s], i)] ELSE sent
  BY DEF LiveReceive, Receive, pubVars
<1> HIDE DEF n, i
<1>4. /\ last'[s] = n /\ chan'[s] = Tail(chan[s])
      /\ \A t \in Subs \ {s} :
           sent'[t] = sent[t] /\ chan'[t] = chan[t] /\ last'[t] = last[t]
      /\ \/ ~Fresh(s, i) /\ sent'[s] = sent[s]
         \/ Fresh(s, i) /\ sent'[s] = Append(sent[s], i)
  BY <1>1, <1>3
<1>5. \A m \in Buffered(s) : m = n \/ m \in Buffered(s)'
  <2> SUFFICES ASSUME NEW k \in 1..Len(chan[s]) PROVE chan[s][k] = n \/ chan[s][k] \in Buffered(s)'
    BY DEF Buffered
  <2>1. /\ Len(chan[s]) \in Nat /\ n = chan[s][1]
        /\ Len(chan'[s]) = Len(chan[s]) - 1
        /\ \A l \in 1..Len(chan'[s]) : chan'[s][l] = chan[s][l + 1]
    BY <1>1, <1>4, HeadTailProperties, LenProperties DEF n
  <2>2. k = 1 \/ (k - 1 \in 1..Len(chan'[s]) /\ chan'[s][k - 1] = chan[s][k])
    BY <2>1
  <2> QED
    BY <2>1, <2>2 DEF Buffered
<1>6. Len(sent[s]) \in Nat
  BY <1>1, LenProperties
<1>7. /\ sent'[s] \in Seq(Position)
      /\ \A k \in 1..Len(sent[s]) : sent'[s][k] = sent[s][k]
      /\ \/ ~Fresh(s, i) /\ sent'[s] = sent[s]
         \/ /\ Fresh(s, i) /\ Len(sent'[s]) = Len(sent[s]) + 1
            /\ sent'[s][Len(sent[s]) + 1] = i
  <2>1. CASE ~Fresh(s, i) /\ sent'[s] = sent[s]
    BY <1>1, <2>1
  <2>2. CASE Fresh(s, i) /\ sent'[s] = Append(sent[s], i)
    BY <1>1, <1>2, <2>2, AppendProperties
  <2> QED
    BY <1>4, <2>1, <2>2
<1> QED
  BY <1>2, <1>3, <1>4, <1>5, <1>6, <1>7 DEF n, i

LEMMA NextStreamTypeOK ==
  ASSUME HubInv, HubInv', StreamTypeOK, PublishedEvents, HandlerInv,
         [StreamNext]_streamVars
  PROVE  StreamTypeOK'
<1>0. TypeOK /\ TypeOK' /\ IngestTyped /\ MaxLate \in Nat /\ ReplayLimit \in Nat
  BY StreamAssumption DEF HubInv, StreamTypeOK, IngestTyped
<1>1. ASSUME NEW i \in Position, InsertRow(i) PROVE StreamTypeOK'
  <2>1. /\ rows' = rows \cup {i} /\ ingest' = i /\ late' \in {late, late \cup {i}}
        /\ UNCHANGED <<pubs, from, replayVars>>
    BY <1>1 DEF InsertRow
  <2> QED
    BY <1>0, <2>1 DEF StreamTypeOK, replayVars
<1>2. CASE PublishRow
  BY <1>0, <1>2, PublishStep, PubsAppend DEF StreamTypeOK, replayVars
<1>3. CASE LeaveUnpublished \/ Quiet
  BY <1>0, <1>3 DEF LeaveUnpublished, Quiet, StreamTypeOK, tableVars, replayVars
<1>4. ASSUME NEW s \in Subs, Subscribe(s) PROVE StreamTypeOK'
  <2>1. UNCHANGED <<tableVars, from, offset, batch, full, mark, sent, replayed>>
    BY <1>4 DEF Subscribe
  <2>2. phase' \in [Subs -> {"start", "query", "send", "live"}]
    BY <1>4 DEF Subscribe, StreamTypeOK
  <2> QED
    BY <1>0, <2>1, <2>2 DEF StreamTypeOK, tableVars
<1>5. ASSUME NEW s \in Subs, ReplayQuery(s) PROVE StreamTypeOK'
  <2>1. /\ UNCHANGED <<tableVars, from, offset, mark, sent, replayed>>
        /\ batch'[s] \in Seq(rows) /\ rows \in SUBSET Position
    BY <1>5, QueryStep DEF StreamTypeOK
  <2>2. batch'[s] \in Seq(Position)
    BY <2>1, SeqMonotonic
  <2>3. /\ phase' \in [Subs -> {"start", "query", "send", "live"}]
        /\ full' \in [Subs -> BOOLEAN]
    BY <1>5 DEF ReplayQuery, StreamTypeOK
  <2>4. batch' \in [Subs -> Seq(Position)]
    <3>1. batch' = [batch EXCEPT ![s] = batch'[s]]
      BY <1>5 DEF ReplayQuery, StreamTypeOK
    <3> QED
      BY <2>2, <3>1 DEF StreamTypeOK
  <2> QED
    BY <1>0, <2>1, <2>3, <2>4 DEF StreamTypeOK, tableVars
<1>6. ASSUME NEW s \in Subs, ReplaySend(s), batch[s] # <<>> PROVE StreamTypeOK'
  <2>1. /\ UNCHANGED <<tableVars, from, full>>
        /\ phase' = [phase EXCEPT ![s] = phase'[s]]
        /\ offset' = [offset EXCEPT ![s] = offset'[s]]
        /\ batch' = [batch EXCEPT ![s] = batch'[s]]
        /\ mark' = [mark EXCEPT ![s] = mark'[s]]
        /\ sent' = [sent EXCEPT ![s] = sent'[s]]
        /\ replayed' = [replayed EXCEPT ![s] = replayed'[s]]
    BY <1>6 DEF ReplaySend, StreamTypeOK
  <2>2. /\ phase'[s] \in {"start", "query", "send", "live"}
        /\ offset'[s] \in {offset[s], offset[s] + ReplayLimit}
        /\ batch'[s] \in Seq(Position) /\ sent'[s] \in Seq(Position)
        /\ replayed'[s] = replayed[s] + 1
        /\ mark'[s] \in {mark[s], Key(batch[s][1])} /\ batch[s][1] \in Position
    BY <1>6, SendStep
  <2>3. /\ phase' \in [Subs -> {"start", "query", "send", "live"}]
        /\ batch' \in [Subs -> Seq(Position)] /\ sent' \in [Subs -> Seq(Position)]
    BY <2>1, <2>2 DEF StreamTypeOK
  <2>4. offset' \in [Subs -> Nat] /\ replayed' \in [Subs -> Nat]
    <3>1. offset[s] \in Nat /\ replayed[s] \in Nat
      BY DEF StreamTypeOK
    <3>2. offset'[s] \in Nat /\ replayed'[s] \in Nat
      BY <1>0, <2>2, <3>1
    <3> QED
      BY <2>1, <3>2 DEF StreamTypeOK
  <2>5. mark' \in [Subs -> {NoKey} \cup {Key(i) : i \in Position}]
    <3>1. mark'[s] \in {NoKey} \cup {Key(i) : i \in Position}
      BY <2>2 DEF StreamTypeOK
    <3> QED
      BY <2>1, <3>1 DEF StreamTypeOK
  <2> QED
    BY <1>0, <2>1, <2>3, <2>4, <2>5 DEF StreamTypeOK, tableVars
<1>7. ASSUME NEW s \in Subs, LiveReceive(s) PROVE StreamTypeOK'
  <2>1. /\ UNCHANGED <<tableVars, from, phase, offset, batch, full, mark, replayed>>
        /\ sent' = [sent EXCEPT ![s] = sent'[s]]
    BY <1>7 DEF LiveReceive, StreamTypeOK
  <2>2. sent'[s] \in Seq(Position)
    BY <1>7, ReceiveStep
  <2> QED
    BY <1>0, <2>1, <2>2 DEF StreamTypeOK, tableVars
<1>8. \A s \in Subs : ReplaySend(s) => batch[s] # <<>>
  BY DEF ReplaySend, HandlerInv, Handles, HoldsPage
<1> QED
  BY <1>1, <1>2, <1>3, <1>4, <1>5, <1>6, <1>7, <1>8, StreamCases

-----------------------------------------------------------------------------
(* The handlers.                                                            *)

(* A handler is not disturbed by steps of others, which only add rows and   *)
(* publish.                                                                 *)
LEMMA HandlerFrame ==
  ASSUME HubInv, StreamTypeOK, PublishedEvents, NEW s \in Subs, Handles(s),
         rows \subseteq rows', Len(pubs) <= Len(pubs'), Len(pubs') \in Nat,
         \A n \in 1..Len(pubs) : pubs'[n] = pubs[n],
         phase'[s] = phase[s], offset'[s] = offset[s], batch'[s] = batch[s],
         sent'[s] = sent[s], replayed'[s] = replayed[s], mark'[s] = mark[s],
         last'[s] = last[s], New(s)' <=> New(s),
         accepted'[s] \ Buffered(s)' \subseteq accepted[s] \ Buffered(s)
  PROVE  Handles(s)'
<1>1. HoldsPage(s)'
  <2>1. phase'[s] = "start" <=> New(s)'
    BY DEF Handles, HoldsPage
  <2>2. /\ phase'[s] = "start" => offset'[s] = 0 /\ sent'[s] = <<>>
        /\ phase'[s] = "send" <=> batch'[s] # <<>>
        /\ \A k \in 1..Len(batch'[s]) : batch'[s][k] \in rows'
    BY DEF Handles, HoldsPage
  <2>3. \A k, l \in 1..Len(batch'[s]) :
          k < l => batch'[s][k] # batch'[s][l]
                   /\ ~After(Key(batch'[s][k]), Key(batch'[s][l]))
    BY DEF Handles, HoldsPage, Later
  <2> QED
    BY <2>1, <2>2, <2>3 DEF HoldsPage, Later, Key
<1>2. Marks(s)'
  BY DEF Handles, Marks, Key
<1>3. \A n \in accepted[s] : n \in 1..Len(pubs)
  <2>1. Len(log) \in Nat /\ base[s] \in Nat /\ Len(pubs) \in Nat
    BY LenProperties DEF HubInv, TypeOK, StreamTypeOK
  <2>2. \A n \in accepted[s] : n \in base[s] + 1..Len(log)
    BY DEF HubInv, WantInv, OnlyWanted, Wanted
  <2> QED
    BY <2>1, <2>2 DEF PublishedEvents
<1>4. SendsTail(s)'
  BY <1>3 DEF Handles, SendsTail, SentTo, Fresh, Key
<1>5. KeepsOrder(s)'
  <2>1. Len(pubs) \in Nat /\ \A n \in 1..Len(pubs) : n \in 1..Len(pubs')
    BY LenProperties DEF StreamTypeOK
  <2>2. ASSUME NEW k \in replayed[s] + 1..Len(sent[s])
        PROVE  \E n \in 1..Len(pubs') : n <= last'[s] /\ pubs'[n] = sent[s][k]
    <3>1. PICK n \in 1..Len(pubs) : n <= last[s] /\ pubs[n] = sent[s][k]
      BY DEF Handles, KeepsOrder
    <3> QED
      BY <2>1, <3>1
  <2>3. ASSUME NEW k \in replayed[s] + 1..Len(sent[s]), NEW j \in replayed[s] + 1..k - 1
        PROVE  \E m, n \in 1..Len(pubs') :
                 m < n /\ pubs'[m] = sent[s][j] /\ pubs'[n] = sent[s][k]
    <3>1. PICK m \in 1..Len(pubs), n \in 1..Len(pubs) :
            m < n /\ pubs[m] = sent[s][j] /\ pubs[n] = sent[s][k]
      BY DEF Handles, KeepsOrder
    <3> QED
      BY <2>1, <3>1
  <2> QED
    BY <2>2, <2>3 DEF KeepsOrder
<1> QED
  BY <1>1, <1>2, <1>4, <1>5 DEF Handles

LEMMA SubscribeHandles ==
  ASSUME HubInv, StreamTypeOK, PublishedEvents, HandlerInv, NEW s \in Subs, Subscribe(s)
  PROVE  HandlerInv'
<1>1. /\ UNCHANGED <<rows, pubs, accepted, chan>> /\ Len(pubs) \in Nat
      /\ UNCHANGED <<from, offset, batch, full, mark, sent, replayed, last>>
      /\ New(s) /\ Handles(s)
  BY SubscribeStep, LenProperties DEF HubInv, StreamTypeOK, tableVars, HandlerInv
<1>2. ASSUME NEW t \in Subs, phase'[t] = phase[t], New(t)' <=> New(t)
      PROVE  Handles(t)'
  BY <1>1, <1>2, HandlerFrame DEF HandlerInv, Buffered
<1>3. ASSUME ~New(s)', phase'[s] = IF from[s] > 0 THEN "query" ELSE "live"
      PROVE  Handles(s)'
  <2>1. phase[s] = "start" /\ sent[s] = <<>> /\ batch[s] = <<>> /\ replayed[s] = Len(sent[s])
        /\ accepted[s] \subseteq Buffered(s)
    BY <1>1 DEF Handles, HoldsPage, Marks, SendsTail
  <2>2. phase'[s] \notin {"start", "send"} /\ Len(sent[s]) = 0
    BY <1>3, <2>1
  <2>3. HoldsPage(s)'
    BY <1>1, <1>3, <2>1, <2>2 DEF Handles, HoldsPage
  <2>4. Marks(s)'
    BY <1>1, <2>1 DEF Handles, Marks, Key
  <2>5. SendsTail(s)'
    BY <1>1, <2>1 DEF SendsTail, Buffered
  <2>6. KeepsOrder(s)'
    BY <1>1, <2>1, <2>2 DEF KeepsOrder
  <2> QED
    BY <2>3, <2>4, <2>5, <2>6 DEF Handles
<1>4. Handles(s)'
  BY <1>2, <1>3, SubscribeStep DEF HubInv
<1>5. \A t \in Subs \ {s} : Handles(t)'
  BY <1>2, SubscribeStep DEF HubInv
<1> QED
  BY <1>4, <1>5 DEF HandlerInv

LEMMA QueryHandles ==
  ASSUME HubInv, StreamTypeOK, PublishedEvents, HandlerInv, NEW s \in Subs, ReplayQuery(s)
  PROVE  HandlerInv'
<1>1. /\ UNCHANGED <<rows, pubs, accepted, chan, hpc, last>> /\ Len(pubs) \in Nat
      /\ UNCHANGED <<offset, mark, sent, replayed>>
      /\ phase[s] = "query" /\ Handles(s)
  BY QueryStep, LenProperties
     DEF StreamTypeOK, tableVars, vars, histVars, subVars, HandlerInv
<1>2. \A t \in Subs \ {s} : Handles(t)'
  BY <1>1, QueryStep, HandlerFrame DEF HandlerInv, Buffered, New
<1>3. /\ batch'[s] \in Seq(rows) /\ \A k \in 1..Len(batch'[s]) : batch'[s][k] \in rows
      /\ phase'[s] = IF batch'[s] = <<>> THEN "live" ELSE "send"
      /\ \A k, l \in 1..Len(batch'[s]) :
           k < l => batch'[s][k] # batch'[s][l] /\ ~Later(batch'[s][k], batch'[s][l])
  BY QueryStep, ElementOfSeq
<1>4. HoldsPage(s)'
  BY <1>1, <1>3 DEF Handles, HoldsPage, New, Later, Key
<1>5. Marks(s)'
  BY <1>1 DEF Handles, Marks, Key
<1>6. SendsTail(s)' /\ KeepsOrder(s)'
  BY <1>1 DEF Handles, SendsTail, KeepsOrder, Buffered, Marks
<1> QED
  BY <1>2, <1>4, <1>5, <1>6 DEF HandlerInv, Handles

LEMMA SendHandles ==
  ASSUME HubInv, StreamTypeOK, PublishedEvents, HandlerInv, NEW s \in Subs, ReplaySend(s)
  PROVE  HandlerInv'
<1> DEFINE i == batch[s][1]
           old == mark[s]
           new == mark'[s]
<1>0. /\ UNCHANGED <<rows, pubs, accepted, chan, hpc, last>> /\ Len(pubs) \in Nat
      /\ Handles(s) /\ batch[s] # <<>>
  BY LenProperties
     DEF ReplaySend, StreamTypeOK, tableVars, vars, histVars, subVars, HandlerInv, Handles,
         HoldsPage
<1>1. /\ i \in Position /\ i \in rows /\ 1 \in 1..Len(batch[s])
      /\ Len(sent[s]) \in Nat /\ Len(sent'[s]) = Len(sent[s]) + 1
      /\ sent'[s][Len(sent[s]) + 1] = i
      /\ \A k \in 1..Len(sent[s]) : sent'[s][k] = sent[s][k]
      /\ replayed[s] = Len(sent[s]) /\ replayed'[s] = Len(sent'[s])
      /\ new = IF After(Key(i), old) THEN Key(i) ELSE old
      /\ phase[s] = "send"
  BY <1>0, SendStep DEF Handles, HoldsPage, Marks
<1>2. \A t \in Subs \ {s} : Handles(t)'
  <2> SUFFICES ASSUME NEW t \in Subs \ {s} PROVE Handles(t)'
    OBVIOUS
  <2>1. /\ sent'[t] = sent[t] /\ replayed'[t] = replayed[t] /\ mark'[t] = mark[t]
        /\ batch'[t] = batch[t] /\ phase'[t] = phase[t] /\ offset'[t] = offset[t]
    BY <1>0, SendStep
  <2> QED
    BY <1>0, <2>1, HandlerFrame DEF HandlerInv, Buffered, New
<1>3. HoldsPage(s)'
  <2>1. /\ Len(batch'[s]) \in Nat /\ Len(batch[s]) \in Nat
        /\ \A k \in 1..Len(batch'[s]) :
             k + 1 \in 1..Len(batch[s]) /\ batch'[s][k] = batch[s][k + 1]
        /\ phase'[s] = IF batch'[s] # <<>> THEN "send"
                       ELSE IF full[s] THEN "query" ELSE "live"
    BY <1>0, SendStep, LenProperties
  <2>2. \A k \in 1..Len(batch'[s]) : batch'[s][k] \in rows
    BY <1>0, <2>1 DEF Handles, HoldsPage
  <2>3. ASSUME NEW k \in 1..Len(batch'[s]), NEW l \in 1..Len(batch'[s]), k < l
        PROVE  batch'[s][k] # batch'[s][l] /\ ~Later(batch'[s][k], batch'[s][l])
    BY <1>0, <2>1, <2>3 DEF Handles, HoldsPage
  <2>4. ~New(s)'
    BY <1>0, <1>1 DEF Handles, HoldsPage, New
  <2> QED
    BY <1>0, <2>1, <2>2, <2>3, <2>4 DEF HoldsPage, Later, Key
<1>4. Marks(s)'
  <2>1. \A k \in 1..Len(sent'[s]) : k \in 1..Len(sent[s]) \/ k = Len(sent[s]) + 1
    BY <1>1
  <2>2. old \in LogKey /\ Key(i) \in LogKey /\ new \in LogKey
    BY <1>1, KeyType DEF StreamTypeOK
  <2>3. ~After(Key(i), new) /\ ~After(old, new)
    BY <1>1, <2>2, KeyOrder
  <2>4. \A k \in 1..Len(sent[s]) : sent[s][k] \in rows /\ sent[s][k] \in Position
    BY <1>0 DEF Handles, Marks, StreamTypeOK
  <2>5. \A k \in 1..Len(sent[s]) : ~After(Key(sent[s][k]), new)
    <3> SUFFICES ASSUME NEW k \in 1..Len(sent[s]) PROVE ~After(Key(sent[s][k]), new)
      OBVIOUS
    <3>1. ~After(Key(sent[s][k]), old)
      BY <1>0, <1>1 DEF Handles, Marks
    <3> QED
      BY <2>2, <2>3, <2>4, <3>1, KeyOrder, KeyType
  <2>6. \A k \in 1..Len(sent'[s]) : sent'[s][k] \in rows /\ ~After(Key(sent'[s][k]), new)
    BY <1>1, <2>1, <2>3, <2>4, <2>5
  <2>7. new = NoKey \/ \E k \in 1..Len(sent'[s]) : new = Key(sent'[s][k])
    <3>1. CASE new = Key(i)
      <4>1. Len(sent[s]) + 1 \in 1..Len(sent'[s])
        BY <1>1
      <4> QED
        BY <1>1, <3>1, <4>1
    <3>2. CASE new = old
      <4>1. old = NoKey \/ \E k \in 1..Len(sent[s]) : old = Key(sent[s][k])
        BY <1>0, <1>1 DEF Handles, Marks
      <4>2. \A k \in 1..Len(sent[s]) : k \in 1..Len(sent'[s])
        BY <1>1
      <4> QED
        BY <1>1, <3>2, <4>1, <4>2
    <3> QED
      BY <1>1, <3>1, <3>2
  <2> HIDE DEF new
  <2>8. /\ replayed'[s] = Len(sent'[s]) /\ Len(sent'[s]) \in Nat
        /\ rows' = rows /\ mark'[s] = new
    BY <1>0, <1>1 DEF new
  <2>9. /\ mark'[s] = NoKey \/ \E k \in 1..replayed'[s] : mark'[s] = Key(sent'[s][k])
        /\ \A k \in 1..Len(sent'[s]) : sent'[s][k] \in rows'
        /\ \A k \in 1..replayed'[s] : ~After(Key(sent'[s][k]), mark'[s])
        /\ replayed'[s] + 1..Len(sent'[s]) = {}
    BY <2>6, <2>7, <2>8
  <2> QED
    BY <2>8, <2>9 DEF Marks, Key
<1>5. SendsTail(s)'
  <2>1. accepted'[s] \subseteq Buffered(s)'
    BY <1>0, <1>1 DEF Handles, SendsTail, Buffered
  <2> QED
    BY <2>1 DEF SendsTail
<1>6. KeepsOrder(s)'
  <2>1. replayed'[s] + 1..Len(sent'[s]) = {}
    BY <1>1
  <2> QED
    BY <2>1 DEF KeepsOrder
<1> QED
  BY <1>2, <1>3, <1>4, <1>5, <1>6 DEF HandlerInv, Handles

LEMMA ReceiveHandles ==
  ASSUME HubInv, StreamTypeOK, PublishedEvents, PublishedRows, HandlerInv,
         NEW s \in Subs, LiveReceive(s)
  PROVE  HandlerInv'
<1> DEFINE n == Head(chan[s])
           i == pubs[n]
<1>1. /\ UNCHANGED <<hpc, accepted, rows, pubs, phase, offset, batch, mark, replayed>>
      /\ Len(pubs) \in Nat /\ Handles(s) /\ replayed[s] \in Nat /\ last[s] \in Nat
      /\ \A k \in 1..Len(pubs) : pubs[k] \in Position
  BY ReceiveStep, LenProperties, ElementOfSeq
     DEF HandlerInv, StreamTypeOK, HubInv, TypeOK, tableVars
<1>2. /\ phase[s] = "live"
      /\ n \in accepted[s] /\ n \in 1..Len(pubs) /\ n > last[s] /\ i \in Position
      /\ last'[s] = n
      /\ \A t \in Subs \ {s} : sent'[t] = sent[t] /\ chan'[t] = chan[t] /\ last'[t] = last[t]
      /\ \A m \in Buffered(s) : m = n \/ m \in Buffered(s)'
      /\ Len(sent[s]) \in Nat
      /\ \A k \in 1..Len(sent[s]) : sent'[s][k] = sent[s][k]
      /\ \/ ~Fresh(s, i) /\ sent'[s] = sent[s]
         \/ /\ Fresh(s, i) /\ Len(sent'[s]) = Len(sent[s]) + 1
            /\ sent'[s][Len(sent[s]) + 1] = i
  BY ReceiveStep
<1> HIDE DEF n, i
<1>3. \A t \in Subs \ {s} : Handles(t)'
  <2> SUFFICES ASSUME NEW t \in Subs \ {s} PROVE Handles(t)'
    OBVIOUS
  <2>1. Buffered(t)' = Buffered(t) /\ sent'[t] = sent[t] /\ last'[t] = last[t]
    BY <1>2 DEF Buffered
  <2> QED
    BY <1>1, <2>1, HandlerFrame DEF HandlerInv, New
<1>4. /\ Len(sent'[s]) \in Nat /\ Len(sent[s]) <= Len(sent'[s])
      /\ \A k \in 1..Len(sent'[s]) :
           \/ k \in 1..Len(sent[s]) /\ sent'[s][k] = sent[s][k]
           \/ k = Len(sent[s]) + 1 /\ sent'[s][k] = i /\ Fresh(s, i)
  BY <1>2
<1>5. i \in rows
  BY <1>2 DEF PublishedRows, i
<1>6. HoldsPage(s)'
  <2>1. phase[s] # "start" /\ phase[s] # "send" /\ ~New(s) /\ batch[s] = <<>>
    BY <1>1, <1>2 DEF Handles, HoldsPage
  <2>2. Len(batch[s]) = 0
    BY <2>1
  <2>3. phase'[s] = phase[s] /\ batch'[s] = batch[s] /\ ~New(s)'
    BY <1>1, <2>1 DEF New
  <2> QED
    BY <2>1, <2>2, <2>3 DEF HoldsPage
<1>7. Marks(s)'
  <2>1. /\ replayed[s] <= Len(sent[s])
        /\ \A k \in 1..Len(sent[s]) : sent[s][k] \in rows
        /\ \A k \in 1..replayed[s] : k \in 1..Len(sent[s]) /\ ~After(Key(sent[s][k]), mark[s])
        /\ \A k \in replayed[s] + 1..Len(sent[s]) :
             k \in 1..Len(sent[s]) /\ After(Key(sent[s][k]), mark[s])
        /\ mark[s] = NoKey \/ \E k \in 1..replayed[s] : mark[s] = Key(sent[s][k])
    BY <1>1, <1>2 DEF Handles, Marks
  <2>2. replayed[s] <= Len(sent'[s])
    BY <1>1, <1>2, <1>4, <2>1
  <2>3. \A k \in 1..Len(sent'[s]) : sent'[s][k] \in rows
    BY <1>4, <1>5, <2>1
  <2>4. \A k \in 1..replayed[s] : sent'[s][k] = sent[s][k]
    BY <1>2, <2>1
  <2>5. ASSUME NEW k \in replayed[s] + 1..Len(sent'[s])
        PROVE  After(Key(sent'[s][k]), mark[s])
    <3>1. k \in 1..Len(sent'[s])
      BY <1>1, <1>4
    <3>2. CASE k \in 1..Len(sent[s]) /\ sent'[s][k] = sent[s][k]
      BY <1>1, <2>1, <3>2
    <3>3. CASE sent'[s][k] = i /\ Fresh(s, i)
      BY <3>3 DEF Fresh
    <3> QED
      BY <1>4, <3>1, <3>2, <3>3
  <2>6. /\ replayed'[s] = replayed[s] /\ mark'[s] = mark[s] /\ phase'[s] = "live"
        /\ rows' = rows
    BY <1>1, <1>2
  <2>7. mark[s] = NoKey \/ \E k \in 1..replayed[s] : mark[s] = Key(sent'[s][k])
    BY <2>1, <2>4
  <2> QED
    BY <2>1, <2>2, <2>3, <2>4, <2>5, <2>6, <2>7 DEF Marks, Key
<1>8. SendsTail(s)'
  <2>1. SentTo(s) \subseteq SentTo(s)'
    BY <1>2, <1>4 DEF SentTo
  <2>2. i \in SentTo(s)' \/ ~Fresh(s, i)
    <3>1. CASE Fresh(s, i)
      <4>1. Len(sent[s]) + 1 \in 1..Len(sent'[s]) /\ sent'[s][Len(sent[s]) + 1] = i
        BY <1>2, <3>1
      <4> QED
        BY <4>1 DEF SentTo
    <3> QED
      BY <3>1
  <2>3. ASSUME NEW m \in accepted[s] \ Buffered(s)'
        PROVE  pubs[m] \in SentTo(s)' \/ ~Fresh(s, pubs[m])
    <3>1. CASE m = n
      BY <2>2, <3>1 DEF i
    <3>2. CASE m # n
      BY <1>1, <1>2, <2>1, <2>3, <3>2 DEF Handles, SendsTail
    <3> QED
      BY <3>1, <3>2
  <2> QED
    BY <1>1, <1>2, <2>3 DEF SendsTail, Fresh, Key
<1>9. KeepsOrder(s)'
  <2>0. \A k \in replayed[s] + 1..Len(sent[s]) :
          /\ \E m \in 1..Len(pubs) : m <= last[s] /\ pubs[m] = sent[s][k]
          /\ \A j \in replayed[s] + 1..k - 1 :
               \E l, m \in 1..Len(pubs) : l < m /\ pubs[l] = sent[s][j] /\ pubs[m] = sent[s][k]
    BY <1>1 DEF Handles, KeepsOrder
  <2>1. ASSUME NEW k \in replayed[s] + 1..Len(sent'[s])
        PROVE  \E m \in 1..Len(pubs) : m <= n /\ pubs[m] = sent'[s][k]
    <3>1. k \in 1..Len(sent'[s])
      BY <1>1, <1>4
    <3>2. CASE k \in 1..Len(sent[s]) /\ sent'[s][k] = sent[s][k]
      <4>0. k \in replayed[s] + 1..Len(sent[s])
        BY <1>1, <3>2
      <4>1. PICK m \in 1..Len(pubs) : m <= last[s] /\ pubs[m] = sent[s][k]
        BY <2>0, <4>0
      <4>2. m <= n
        BY <1>1, <1>2, <4>1
      <4> QED
        BY <3>2, <4>1, <4>2
    <3>3. CASE sent'[s][k] = i
      BY <1>2, <3>3 DEF i
    <3> QED
      BY <1>4, <3>1, <3>2, <3>3
  <2>2. ASSUME NEW k \in replayed[s] + 1..Len(sent'[s]), NEW j \in replayed[s] + 1..k - 1
        PROVE  \E l, m \in 1..Len(pubs) :
                 l < m /\ pubs[l] = sent'[s][j] /\ pubs[m] = sent'[s][k]
    <3>1. /\ k \in 1..Len(sent'[s]) /\ j \in 1..Len(sent[s])
          /\ j \in replayed[s] + 1..Len(sent[s]) /\ sent'[s][j] = sent[s][j]
      <4>1. k \in 1..Len(sent'[s]) /\ (k <= Len(sent[s]) \/ k = Len(sent[s]) + 1)
        BY <1>1, <1>2, <1>4
      <4>2. j \in 1..Len(sent[s]) /\ j \in replayed[s] + 1..Len(sent[s])
        BY <1>1, <1>2, <4>1
      <4> QED
        BY <1>2, <4>1, <4>2
    <3>2. CASE k \in 1..Len(sent[s]) /\ sent'[s][k] = sent[s][k]
      <4>1. k \in replayed[s] + 1..Len(sent[s])
        BY <1>1, <3>2
      <4>2. PICK l \in 1..Len(pubs), m \in 1..Len(pubs) :
              l < m /\ pubs[l] = sent[s][j] /\ pubs[m] = sent[s][k]
        BY <2>0, <4>1
      <4> QED
        BY <3>1, <3>2, <4>2
    <3>3. CASE sent'[s][k] = i
      <4>1. PICK m \in 1..Len(pubs) : m <= last[s] /\ pubs[m] = sent[s][j]
        BY <2>0, <3>1
      <4>2. m < n
        BY <1>1, <1>2, <4>1
      <4> QED
        BY <1>2, <3>1, <3>3, <4>1, <4>2 DEF i
    <3> QED
      BY <1>4, <3>1, <3>2, <3>3
  <2>3. replayed'[s] = replayed[s] /\ pubs' = pubs /\ last'[s] = n
    BY <1>1, <1>2
  <2>4. \A k \in replayed'[s] + 1..Len(sent'[s]) :
          /\ \E m \in 1..Len(pubs') : m <= last'[s] /\ pubs'[m] = sent'[s][k]
          /\ \A j \in replayed'[s] + 1..k - 1 :
               \E l, m \in 1..Len(pubs') :
                 l < m /\ pubs'[l] = sent'[s][j] /\ pubs'[m] = sent'[s][k]
    BY <2>1, <2>2, <2>3
  <2> QED
    BY <2>4 DEF KeepsOrder
<1> QED
  BY <1>3, <1>6, <1>7, <1>8, <1>9 DEF HandlerInv, Handles

LEMMA NextHandlerInv ==
  ASSUME HubInv, StreamTypeOK, PubsInv, HandlerInv, [StreamNext]_streamVars
  PROVE  HandlerInv'
<1>0. /\ PublishedEvents /\ PublishedRows /\ TypeOK /\ IngestTyped
      /\ pubs \in Seq(Position) /\ Len(pubs) \in Nat
      /\ rows \subseteq rows'
  BY TableStep, LenProperties DEF PubsInv, HubInv, StreamTypeOK, IngestTyped
<1>1. ASSUME UNCHANGED <<replayVars, last>>, \A s \in Subs : New(s)' <=> New(s),
             \A s \in Subs : accepted'[s] \ Buffered(s)' \subseteq accepted[s] \ Buffered(s),
             Len(pubs) <= Len(pubs'), Len(pubs') \in Nat,
             \A n \in 1..Len(pubs) : pubs'[n] = pubs[n]
      PROVE  HandlerInv'
  BY <1>0, <1>1, HandlerFrame DEF HandlerInv, replayVars
<1>2. ASSUME (\E i \in Position : InsertRow(i)) \/ LeaveUnpublished PROVE HandlerInv'
  <2>1. UNCHANGED <<vars, pubs, replayVars>>
    BY <1>2 DEF InsertRow, LeaveUnpublished
  <2> QED
    BY <1>0, <1>1, <2>1 DEF New, Buffered, vars, subVars, histVars
<1>3. CASE PublishRow
  <2>1. UNCHANGED <<hpc, last, accepted, chan, replayVars>> /\ Len(pubs') = Len(pubs) + 1
        /\ \A n \in 1..Len(pubs) : pubs'[n] = pubs[n]
    BY <1>0, <1>3, PublishStep, PubsAppend
  <2> QED
    BY <1>0, <1>1, <2>1 DEF New, Buffered
<1>4. CASE Quiet
  <2>1. pubs' = pubs /\ UNCHANGED replayVars
    BY <1>4 DEF Quiet, tableVars
  <2> QED
    BY <1>0, <1>1, <1>4, <2>1, QuietStep
<1> QED
  BY <1>0, <1>2, <1>3, <1>4, StreamCases, SubscribeHandles, QueryHandles, SendHandles,
     ReceiveHandles

LEMMA InitReplay == StreamInit => StreamTypeOK /\ PubsInv /\ HandlerInv
<1> SUFFICES ASSUME StreamInit PROVE StreamTypeOK /\ PubsInv /\ HandlerInv
  OBVIOUS
<1>1. TypeOK /\ Init
  BY InitTypeOK DEF StreamInit
<1>2. <<>> \in Seq(Position) /\ Len(<<>>) = 0
  BY EmptySeq
<1>3. StreamTypeOK
  BY <1>1, <1>2 DEF StreamInit, StreamTypeOK
<1>4. PubsInv
  <2>1. ppc[Ingester] = "idle" /\ log = <<>> /\ pubs = <<>> /\ ingest = 0
    BY <1>1, StreamAssumption DEF Init, StreamInit
  <2> QED
    BY <1>2, <2>1 DEF PubsInv, PublishedEvents, PublishedRows, PublishedInOrder
<1>5. ASSUME NEW s \in Subs PROVE Handles(s)
  <2>1. /\ phase[s] = "start" /\ New(s) /\ offset[s] = 0 /\ sent[s] = <<>> /\ batch[s] = <<>>
        /\ replayed[s] = 0 /\ mark[s] = NoKey /\ accepted[s] = {}
    BY <1>1 DEF Init, StreamInit, New
  <2> QED
    BY <1>2, <2>1 DEF Handles, HoldsPage, Marks, SendsTail, KeepsOrder
<1> QED
  BY <1>3, <1>4, <1>5 DEF HandlerInv

LEMMA NextReplay ==
  HubInv /\ HubInv' /\ StreamTypeOK /\ PubsInv /\ HandlerInv /\ [StreamNext]_streamVars
    => StreamTypeOK' /\ PubsInv' /\ HandlerInv'
<1> SUFFICES ASSUME HubInv, HubInv', StreamTypeOK, PubsInv, HandlerInv, [StreamNext]_streamVars
             PROVE  StreamTypeOK' /\ PubsInv' /\ HandlerInv'
  OBVIOUS
<1>1. /\ TypeOK /\ IngestTyped /\ rows \in SUBSET Position /\ pubs \in Seq(Position)
      /\ PublishedEvents /\ PublishedRows /\ PublishedInOrder
  BY DEF HubInv, StreamTypeOK, IngestTyped, PubsInv
<1>2. PubsInv'
  BY <1>1, NextPublishedEvents, NextPublishedRows DEF PubsInv
<1> QED
  BY <1>1, <1>2, NextStreamTypeOK, NextHandlerInv

LEMMA ReplayInvariant == StreamSpec => [](HubInv /\ StreamTypeOK /\ PubsInv /\ HandlerInv)
BY HubInvariant, InitReplay, NextReplay, PTL DEF StreamSpec

(* Type correctness of the composition, whatever the chain and the table's  *)
(* orders, page limit and filters are.                                      *)
THEOREM StreamTypeCorrect == StreamSpec => []StreamTypeOK
BY ReplayInvariant, PTL

(* LiveExtends: nothing is sent twice across the boundary between the       *)
(* replay and the live tail, since each live event is after the watermark,  *)
(* which is the highest key the replay has sent.                            *)
THEOREM NothingTwiceAcross == StreamSpec => []LiveExtends
<1>1. ASSUME StreamTypeOK, HandlerInv PROVE LiveExtends
  <2> SUFFICES ASSUME NEW s \in Subs, NEW k \in (replayed[s] + 1)..Len(sent[s])
               PROVE  /\ \A j \in 1..replayed[s] : Later(sent[s][k], sent[s][j])
                      /\ \A j \in (replayed[s] + 1)..(k - 1) :
                           \E m, n \in 1..Len(pubs) :
                             m < n /\ pubs[m] = sent[s][j] /\ pubs[n] = sent[s][k]
    BY DEF LiveExtends
  <2>1. Handles(s) /\ replayed[s] \in Nat /\ Len(sent[s]) \in Nat
    BY <1>1, LenProperties DEF HandlerInv, StreamTypeOK
  <2>2. After(Key(sent[s][k]), mark[s])
    BY <2>1 DEF Handles, Marks
  <2>3. \A j \in 1..Len(sent[s]) : sent[s][j] \in Position /\ Key(sent[s][j]) \in LogKey
    BY <1>1, ElementOfSeq, KeyType DEF StreamTypeOK
  <2>4. mark[s] \in LogKey
    <3>1. mark[s] \in {NoKey} \cup {Key(i) : i \in Position}
      BY <1>1 DEF StreamTypeOK
    <3> QED
      BY <3>1, KeyType
  <2>5. ASSUME NEW j \in 1..replayed[s] PROVE Later(sent[s][k], sent[s][j])
    <3>1. ~After(Key(sent[s][j]), mark[s]) /\ j \in 1..Len(sent[s])
      BY <2>1 DEF Handles, Marks
    <3>2. k \in 1..Len(sent[s])
      BY <2>1
    <3> QED
      BY <2>2, <2>3, <2>4, <3>1, <3>2, KeyOrder DEF Later
  <2> QED
    BY <2>1, <2>5 DEF Handles, KeepsOrder
<1> QED
  BY <1>1, ReplayInvariant, PTL

-----------------------------------------------------------------------------
(* Where the events a replay was asked for are.                             *)

(* A handler that the step leaves alone: what it was asked for and what it  *)
(* has are the same, and rows and publications are only added.              *)
Undisturbed(s) ==
  /\ UNCHANGED <<filter[s], from[s], base[s], mark[s], sent[s], phase[s], offset[s],
                 batch[s], full[s]>>
  /\ \A n \in 1..Len(pubs) : pubs'[n] = pubs[n]
  /\ rows \subseteq rows' /\ rows' \subseteq Position /\ late \subseteq late'

LEMMA OldStays ==
  ASSUME HubInv, PublishedEvents, pubs \in Seq(Position), NEW s \in Subs,
         base'[s] = base[s], \A n \in 1..Len(pubs) : pubs'[n] = pubs[n]
  PROVE  \A i : Old(s, i)' <=> Old(s, i)
<1>1. /\ base[s] \in Nat /\ base[s] <= Len(log) /\ Len(log) \in Nat /\ Len(pubs) \in Nat
      /\ Len(log) <= Len(pubs)
  <2>1. base[s] \in Nat /\ Len(log) \in Nat /\ Len(pubs) \in Nat
    BY LenProperties DEF HubInv, TypeOK
  <2>2. base[s] <= Len(log)
    BY DEF HubInv, WantInv, NewUntouched
  <2>3. Len(log) <= Len(pubs)
    BY <2>1 DEF PublishedEvents
  <2> QED
    BY <2>1, <2>2, <2>3
<1>2. \A n \in 1..base[s] : pubs'[n] = pubs[n]
  BY <1>1
<1> QED
  BY <1>2 DEF Old

LEMMA PositionFinite == IsFiniteSet(Position)
<1>1. Len(Chain) \in Nat
  BY PositionType
<1>2. 1 \in Int /\ Len(Chain) \in Int
  BY <1>1
<1> QED
  BY <1>2, FS_Interval DEF Position

LEMMA AboveFinite ==
  ASSUME rows \subseteq Position, NEW s, NEW i
  PROVE  Cardinality(Above(s, i)) \in Nat
<1>1. Above(s, i) \subseteq Position
  BY DEF Above
<1> QED
  BY <1>1, PositionFinite, FS_Subset, FS_CardinalityType

LEMMA BelowStays ==
  ASSUME rows \subseteq rows', rows' \subseteq Position, NEW s \in Subs,
         filter'[s] = filter[s], from'[s] = from[s], NEW i, NEW n \in Int, Below(s, i, n)
  PROVE  Cardinality(Above(s, i)') >= n
<1> DEFINE A == Above(s, i)
           B == Above(s, i)'
<1>1. A \subseteq B
  BY DEF Above, Asked, Later, Key
<1>3. B \subseteq Position
  BY DEF Above
<1>4. Cardinality(A) >= n
  BY DEF Below
<1> HIDE DEF A, B
<1>5. IsFiniteSet(B)
  BY <1>3, PositionFinite, FS_Subset
<1>6. IsFiniteSet(A) /\ Cardinality(A) <= Cardinality(B)
  BY <1>1, <1>5, FS_Subset
<1>7. Cardinality(A) \in Nat /\ Cardinality(B) \in Nat
  BY <1>5, <1>6, FS_CardinalityType
<1>8. Cardinality(B) >= n
  BY <1>4, <1>6, <1>7
<1> QED
  BY <1>8 DEF B

LEMMA AccountFrame ==
  ASSUME HubInv, StreamTypeOK, PublishedEvents, NEW s \in Subs, Undisturbed(s),
         NEW i \in rows, Accounted(s, i)
  PROVE  Accounted(s, i)'
<1>1. /\ filter'[s] = filter[s] /\ from'[s] = from[s] /\ base'[s] = base[s]
      /\ mark'[s] = mark[s] /\ sent'[s] = sent[s] /\ phase'[s] = phase[s]
      /\ offset'[s] = offset[s] /\ batch'[s] = batch[s] /\ full'[s] = full[s]
      /\ \A n \in 1..Len(pubs) : pubs'[n] = pubs[n]
      /\ rows \subseteq rows' /\ rows' \subseteq Position /\ late \subseteq late'
  BY DEF Undisturbed
<1>2. pubs \in Seq(Position) /\ offset[s] \in Int /\ ReplayLimit \in Int
  BY StreamAssumption DEF StreamTypeOK
<1>3. Old(s, i)' <=> Old(s, i)
  BY <1>1, <1>2, OldStays
<1>4. Ahead(s, i)' <=> Ahead(s, i)
  BY <1>1, <1>3 DEF Ahead, Fresh, Key
<1>5. OutOfOrder(i) => OutOfOrder(i)'
  BY <1>1, OutOfOrderStays
<1>6. /\ Below(s, i, offset[s]) => Below(s, i, offset[s])'
      /\ Below(s, i, offset[s] + ReplayLimit) => Below(s, i, offset[s] + ReplayLimit)'
  BY <1>1, <1>2, BelowStays DEF Below
<1>7. i \in SentTo(s) => i \in SentTo(s)'
  BY <1>1 DEF SentTo
<1>8. Skipped(s, i) => Skipped(s, i)'
  BY <1>1, <1>5 DEF Skipped, Key
<1>9. OnPage(s, i) => OnPage(s, i)'
  <2>1. CASE \E k \in 1..Len(batch[s]) : batch[s][k] = i
    BY <1>1, <2>1 DEF OnPage
  <2>2. CASE OutOfOrder(i) /\ \E k \in 1..Len(batch[s]) : ~Later(i, batch[s][k])
    BY <1>1, <1>5, <2>2 DEF OnPage, Later, Key
  <2>3. CASE Ahead(s, i) /\ \A k \in 1..Len(batch[s]) : ~Later(batch[s][k], i)
    BY <1>1, <1>4, <2>3 DEF OnPage, Later, Key
  <2>4. CASE full[s] /\ Below(s, i, offset[s] + ReplayLimit)
    BY <1>1, <1>6, <2>4 DEF OnPage
  <2> QED
    BY <2>1, <2>2, <2>3, <2>4 DEF OnPage
<1> QED
  BY <1>1, <1>4, <1>6, <1>7, <1>8, <1>9 DEF Accounted

LEMMA FrameAccounts ==
  ASSUME HubInv, StreamTypeOK, PublishedEvents, NEW s \in Subs, Undisturbed(s),
         rows' = rows, AllAccounted(s)
  PROVE  AllAccounted(s)'
<1>1. from'[s] = from[s] /\ phase'[s] = phase[s] /\ filter'[s] = filter[s]
  BY DEF Undisturbed
<1>2. Asking(s)' <=> Asking(s)
  BY <1>1 DEF Asking
<1>3. \A i : Asked(s, i)' <=> Asked(s, i)
  BY <1>1 DEF Asked
<1> QED
  BY <1>2, <1>3, AccountFrame DEF AllAccounted

(* A new row is still to be published; if it is not after the watermark, or *)
(* after the rows of the page, it is out of order.                          *)
LEMMA InsertAccounts ==
  ASSUME HubInv, StreamTypeOK, PubsInv, HandlerInv, NEW r \in Position, InsertRow(r),
         NEW s \in Subs, AllAccounted(s)
  PROVE  AllAccounted(s)'
<1>1. /\ UNCHANGED <<vars, pubs, from, replayVars>>
      /\ rows' = rows \cup {r} /\ r \notin rows /\ late \subseteq late'
      /\ (\E j \in rows : After(Key(j), Key(r))) => r \in late'
  BY DEF InsertRow
<1>2. Undisturbed(s)
  BY <1>1 DEF Undisturbed, StreamTypeOK, vars, subVars, histVars, replayVars
<1>3. Asking(s)' <=> Asking(s)
  BY <1>1 DEF Asking, replayVars
<1>4. \A i : Asked(s, i)' <=> Asked(s, i)
  BY <1>1 DEF Asked, vars, subVars
<1>5. ASSUME NEW i \in rows, Asking(s), Asked(s, i) PROVE Accounted(s, i)'
  BY <1>2, <1>5, AccountFrame DEF AllAccounted, PubsInv
<1>6. ASSUME NEW j \in rows, j \in Position, ~Later(r, j) PROVE OutOfOrder(r)'
  <2>1. CASE After(Key(j), Key(r))
    BY <1>1, <2>1 DEF OutOfOrder
  <2>2. CASE Key(j) = Key(r)
    BY <1>1, <2>2 DEF OutOfOrder, Key
  <2> QED
    BY <1>6, <2>1, <2>2, KeyOrder, KeyType DEF Later
<1>7. ASSUME Asking(s) PROVE Accounted(s, r)'
  <2>0. /\ mark'[s] = mark[s] /\ sent'[s] = sent[s] /\ phase'[s] = phase[s]
        /\ batch'[s] = batch[s] /\ base'[s] = base[s] /\ pubs' = pubs
        /\ \A j \in rows : j \in Position
    BY <1>1 DEF vars, histVars, replayVars, StreamTypeOK
  <2>1. ~Old(s, r)'
    <3>1. base[s] \in Nat /\ Len(log) \in Nat /\ Len(pubs) \in Nat
      BY LenProperties DEF HubInv, TypeOK, StreamTypeOK
    <3>2. base[s] <= Len(pubs)
      BY <3>1 DEF HubInv, WantInv, NewUntouched, PubsInv, PublishedEvents
    <3>3. \A n \in 1..base[s] : pubs[n] \in rows
      BY <3>1, <3>2 DEF PubsInv, PublishedRows
    <3> QED
      BY <1>1, <2>0, <3>3 DEF Old
  <2>2. CASE ~Fresh(s, r)
    <3>1. mark[s] # NoKey
      BY <2>2, PositionType DEF Fresh
    <3>2. PICK k \in 1..replayed[s] : mark[s] = Key(sent[s][k])
      BY <3>1 DEF HandlerInv, Handles, Marks
    <3>3. sent[s][k] \in rows
      <4>1. k \in 1..Len(sent[s])
        BY LenProperties DEF HandlerInv, Handles, Marks, StreamTypeOK
      <4> QED
        BY <4>1 DEF HandlerInv, Handles, Marks
    <3>4. OutOfOrder(r)'
      BY <1>6, <2>0, <2>2, <3>2, <3>3 DEF Fresh, Later
    <3> QED
      BY <2>0, <2>2, <3>4 DEF Accounted, Skipped, Fresh, Key
  <2>3. CASE Fresh(s, r)
    <3>1. Ahead(s, r)'
      BY <2>0, <2>1, <2>3 DEF Ahead, Fresh, Key
    <3>2. CASE phase[s] # "send"
      <4>1. phase[s] = "query" \/ phase[s] = "live"
        BY <1>7, <3>2 DEF Asking, StreamTypeOK
      <4> QED
        BY <2>0, <3>1, <4>1 DEF Accounted
    <3>3. CASE phase[s] = "send"
      <4>1. CASE \A k \in 1..Len(batch[s]) : ~Later(batch[s][k], r)
        BY <2>0, <3>1, <3>3, <4>1 DEF Accounted, OnPage, Later, Key
      <4>2. ASSUME NEW k \in 1..Len(batch[s]), Later(batch[s][k], r)
            PROVE  Accounted(s, r)'
        <5>1. batch[s][k] \in rows /\ batch[s][k] \in Position
          BY <2>0 DEF HandlerInv, Handles, HoldsPage
        <5>2. ~Later(r, batch[s][k])
          BY <4>2, <5>1, KeyOrder, KeyType DEF Later
        <5>3. OutOfOrder(r)'
          BY <1>6, <5>1, <5>2
        <5> QED
          BY <2>0, <3>3, <5>2, <5>3 DEF Accounted, OnPage, Later, Key
      <4> QED
        BY <4>1, <4>2
    <3> QED
      BY <3>2, <3>3
  <2> QED
    BY <2>2, <2>3
<1> QED
  BY <1>1, <1>3, <1>4, <1>5, <1>7 DEF AllAccounted

(* Nothing has been replayed yet: every row is further down than nothing.   *)
LEMMA SubscribeAccounts ==
  ASSUME HubInv, StreamTypeOK, PublishedEvents, HandlerInv, NEW s \in Subs, Subscribe(s),
         NEW t \in Subs, AllAccounted(t)
  PROVE  AllAccounted(t)'
<1>1. /\ UNCHANGED <<tableVars, from, offset, batch, full, mark, sent, filter>>
      /\ New(s)
      /\ \A u \in Subs \ {s} : phase'[u] = phase[u] /\ base'[u] = base[u]
      /\ \/ phase'[s] = phase[s] /\ base'[s] = base[s]
         \/ phase'[s] = IF from[s] > 0 THEN "query" ELSE "live"
  BY SubscribeStep DEF HubInv
<1>2. rows' = rows /\ rows \subseteq Position
  BY <1>1 DEF tableVars, StreamTypeOK
<1>3. ASSUME phase'[t] = phase[t], base'[t] = base[t] PROVE AllAccounted(t)'
  <2>1. Undisturbed(t)
    BY <1>1, <1>2, <1>3 DEF Undisturbed, tableVars
  <2> QED
    BY <1>2, <2>1, FrameAccounts
<1>4. ASSUME t = s, phase'[s] = IF from[s] > 0 THEN "query" ELSE "live"
      PROVE  AllAccounted(t)'
  <2>1. offset'[s] = 0 /\ from'[s] = from[s]
    BY <1>1 DEF HandlerInv, Handles, HoldsPage
  <2>2. \A i : Cardinality(Above(s, i)') \in Nat
    <3>1. \A i : Above(s, i)' = Above(s, i)
      BY <1>1, <1>2 DEF Above, Asked, Later, Key
    <3> QED
      BY <1>2, <3>1, AboveFinite
  <2>3. \A i : Below(s, i, offset[s])'
    BY <2>1, <2>2 DEF Below
  <2> QED
    BY <1>4, <2>1, <2>3 DEF AllAccounted, Asking, Accounted
<1> QED
  BY <1>1, <1>3, <1>4

(* The next page: a row is on it, or is ahead of what was inserted since,   *)
(* or is further down.                                                      *)
LEMMA QueryAccounts ==
  ASSUME HubInv, StreamTypeOK, PublishedEvents, NEW s \in Subs, ReplayQuery(s),
         NEW t \in Subs, AllAccounted(t)
  PROVE  AllAccounted(t)'
<1>1. /\ UNCHANGED <<rows, late, pubs, from, filter, base, offset, mark, sent>>
      /\ rows \subseteq Position
  BY QueryStep DEF vars, subVars, histVars, tableVars, StreamTypeOK
<1>2. CASE t # s
  <2>1. phase'[t] = phase[t] /\ batch'[t] = batch[t] /\ full'[t] = full[t]
    BY <1>2, QueryStep
  <2>2. Undisturbed(t)
    BY <1>1, <2>1 DEF Undisturbed
  <2> QED
    BY <1>1, <2>2, FrameAccounts
<1>3. CASE t = s
  <2> SUFFICES ASSUME Asking(s)', NEW i \in rows, Asked(s, i) PROVE Accounted(s, i)'
    BY <1>1, <1>3 DEF AllAccounted, Asked
  <2>1. /\ phase[s] = "query"
        /\ phase'[s] = IF batch'[s] = <<>> THEN "live" ELSE "send"
        /\ Len(batch'[s]) \in Nat /\ (Len(batch'[s]) # 0 => batch'[s] # <<>>)
        /\ full'[s] = (Len(batch'[s]) = ReplayLimit)
    BY QueryStep, EmptySeq
  <2>2. Asking(s)
    BY <1>1, <2>1 DEF Asking
  <2>3. \/ i \in SentTo(s) \/ Skipped(s, i)
        \/ Ahead(s, i) \/ Below(s, i, offset[s])
    BY <1>3, <2>1, <2>2 DEF AllAccounted, Accounted
  <2>4. i \in SentTo(s) => i \in SentTo(s)'
    BY <1>1 DEF SentTo
  <2>5. Skipped(s, i) => Skipped(s, i)'
    BY <1>1 DEF Skipped, OutOfOrder, Key
  <2>6. Ahead(s, i) => Ahead(s, i)'
    BY <1>1 DEF Ahead, Old, Fresh, Key
  <2>7. OutOfOrder(i) => OutOfOrder(i)'
    BY <1>1 DEF OutOfOrder, Key
  <2>8. Below(s, i, offset[s] + ReplayLimit) => Below(s, i, offset[s] + ReplayLimit)'
    BY <1>1 DEF Below, Above, Asked, Later, Key
  <2>9. CASE \E k \in 1..Len(batch'[s]) : batch'[s][k] = i
    BY <2>1, <2>9 DEF Accounted, OnPage
  <2>10. CASE Ahead(s, i) /\ \A k \in 1..Len(batch'[s]) : ~Later(batch'[s][k], i)
    BY <2>1, <2>6, <2>10 DEF Accounted, OnPage, Later, Key
  <2>11. CASE /\ Len(batch'[s]) = ReplayLimit
              /\ \A k \in 1..Len(batch'[s]) : ~Later(i, batch'[s][k])
              /\ Below(s, i, offset[s] + ReplayLimit) \/ OutOfOrder(i)
    <3>0. ReplayLimit \in Nat \ {0}
      BY StreamAssumption
    <3>1. 1 \in 1..Len(batch'[s]) /\ phase'[s] = "send" /\ full'[s]
      <4>1. 1 \in 1..Len(batch'[s]) /\ batch'[s] # <<>>
        BY <2>1, <2>11, <3>0
      <4>2. full'[s] = (Len(batch'[s]) = ReplayLimit)
        BY <2>1
      <4>3. full'[s]
        BY <2>11, <4>2
      <4> QED
        BY <2>1, <4>1, <4>3
    <3>2. CASE Below(s, i, offset[s] + ReplayLimit)
      BY <2>8, <3>1, <3>2 DEF Accounted, OnPage
    <3>3. CASE OutOfOrder(i)
      <4>1. \E k \in 1..Len(batch'[s]) : ~Later(i, batch'[s][k])
        BY <2>11, <3>1
      <4> QED
        BY <2>7, <3>1, <3>3, <4>1 DEF Accounted, OnPage, Later, Key
    <3> QED
      BY <2>11, <3>2, <3>3
  <2>12. CASE i \in SentTo(s) \/ Skipped(s, i)
    BY <2>4, <2>5, <2>12 DEF Accounted
  <2> QED
    BY <2>3, <2>9, <2>10, <2>11, <2>12, QueryStep
<1> QED
  BY <1>2, <1>3

(* A row is sent and the watermark rises.                                   *)
LEMMA SendAccounts ==
  ASSUME HubInv, StreamTypeOK, PublishedEvents, HandlerInv, NEW s \in Subs, ReplaySend(s),
         NEW t \in Subs, AllAccounted(t)
  PROVE  AllAccounted(t)'
<1>0. batch[s] # <<>>
  BY DEF ReplaySend, HandlerInv, Handles, HoldsPage
<1>1. /\ UNCHANGED <<rows, late, pubs, from, filter, base, full>>
      /\ rows \subseteq Position
  BY <1>0, SendStep DEF vars, subVars, histVars, tableVars, StreamTypeOK
<1>2. CASE t # s
  <2>1. /\ sent'[t] = sent[t] /\ mark'[t] = mark[t] /\ batch'[t] = batch[t]
        /\ phase'[t] = phase[t] /\ offset'[t] = offset[t]
    BY <1>0, <1>2, SendStep
  <2>2. Undisturbed(t)
    BY <1>1, <2>1 DEF Undisturbed
  <2> QED
    BY <1>1, <2>2, FrameAccounts
<1>3. CASE t = s
  <2> DEFINE first == batch[s][1]
             old == mark[s]
             new == mark'[s]
  <2>1. /\ phase[s] = "send" /\ first \in Position
        /\ Len(sent[s]) \in Nat /\ Len(sent'[s]) = Len(sent[s]) + 1
        /\ sent'[s][Len(sent[s]) + 1] = first
        /\ \A k \in 1..Len(sent[s]) : sent'[s][k] = sent[s][k]
        /\ new = IF After(Key(first), old) THEN Key(first) ELSE old
        /\ batch'[s] \in Seq(Position) /\ Len(batch'[s]) \in Nat
        /\ Len(batch[s]) \in Nat /\ Len(batch'[s]) = Len(batch[s]) - 1
        /\ \A k \in 1..Len(batch'[s]) :
             k + 1 \in 1..Len(batch[s]) /\ batch'[s][k] = batch[s][k + 1]
        /\ phase'[s] = IF batch'[s] # <<>> THEN "send" ELSE IF full[s] THEN "query" ELSE "live"
        /\ offset'[s] = IF batch'[s] = <<>> /\ full[s] THEN offset[s] + ReplayLimit
                                                     ELSE offset[s]
        /\ first \in rows
    BY <1>0, SendStep, LenProperties DEF HandlerInv, Handles, HoldsPage
  <2>2. \A k \in 2..Len(batch[s]) :
          /\ k - 1 \in 1..Len(batch'[s]) /\ batch'[s][k - 1] = batch[s][k]
          /\ batch'[s] # <<>>
    <3> SUFFICES ASSUME NEW k \in 2..Len(batch[s])
                 PROVE  /\ k - 1 \in 1..Len(batch'[s]) /\ batch'[s][k - 1] = batch[s][k]
                        /\ batch'[s] # <<>>
      OBVIOUS
    <3>1. k - 1 \in 1..Len(batch'[s]) /\ (k - 1) + 1 = k
      BY <2>1
    <3>2. batch'[s][k - 1] = batch[s][k]
      BY <2>1, <3>1
    <3> QED
      BY <3>1, <3>2, EmptySeq
  <2>3. /\ old \in LogKey /\ Key(first) \in LogKey /\ new \in LogKey
        /\ ~After(Key(first), new) /\ ~After(old, new)
    <3>1. old \in {NoKey} \cup {Key(i) : i \in Position}
      BY DEF StreamTypeOK
    <3>2. old \in LogKey /\ Key(first) \in LogKey
      BY <2>1, <3>1, KeyType
    <3> QED
      BY <2>1, <3>2, KeyOrder
  <2> HIDE DEF first, old, new
  <2> SUFFICES ASSUME Asking(s)', NEW i \in rows, Asked(s, i) PROVE Accounted(s, i)'
    BY <1>1, <1>3 DEF AllAccounted, Asked
  <2>4. Asking(s)
    BY <1>1, <2>1 DEF Asking
  <2>5. i \in SentTo(s) \/ Skipped(s, i) \/ OnPage(s, i)
    BY <1>3, <2>1, <2>4 DEF AllAccounted, Accounted
  <2>6. i \in SentTo(s) \/ i = first => i \in SentTo(s)'
    <3>1. Len(sent[s]) + 1 \in 1..Len(sent'[s])
      BY <2>1
    <3>2. \A k \in 1..Len(sent[s]) : k \in 1..Len(sent'[s])
      BY <2>1
    <3> QED
      BY <2>1, <3>1, <3>2 DEF SentTo
  <2>7. Key(i) \in LogKey /\ i \in Position
    BY <1>1, KeyType
  <2>8. OutOfOrder(i) => OutOfOrder(i)'
    BY <1>1 DEF OutOfOrder, Key
  <2>9. ASSUME OutOfOrder(i), ~After(Key(i), old) \/ ~After(Key(i), Key(first))
        PROVE  Skipped(s, i)'
    <3>1. ~After(Key(i), new)
      BY <2>3, <2>7, <2>9, KeyOrder
    <3> QED
      BY <2>8, <2>9, <3>1 DEF Skipped, Key, new
  <2>10. CASE Skipped(s, i)
    BY <2>9, <2>10 DEF Skipped, Accounted, old
  <2>11. CASE \E k \in 1..Len(batch[s]) : batch[s][k] = i
    <3>1. PICK k \in 1..Len(batch[s]) : batch[s][k] = i
      BY <2>11
    <3>2. CASE k = 1
      BY <2>6, <3>1, <3>2 DEF first, Accounted
    <3>3. CASE k # 1
      <4>1. k \in 2..Len(batch[s])
        BY <2>1, <3>3
      <4>2. \E l \in 1..Len(batch'[s]) : batch'[s][l] = i
        BY <2>2, <3>1, <4>1
      <4>3. phase'[s] = "send"
        BY <2>1, <2>2, <4>1
      <4> QED
        BY <4>2, <4>3 DEF Accounted, OnPage
    <3> QED
      BY <3>2, <3>3
  <2>12. CASE OutOfOrder(i) /\ \E k \in 1..Len(batch[s]) : ~Later(i, batch[s][k])
    <3>1. PICK k \in 1..Len(batch[s]) : ~Later(i, batch[s][k])
      BY <2>12
    <3>2. CASE k = 1
      BY <2>9, <2>12, <3>1, <3>2 DEF Later, first, Accounted
    <3>3. CASE k # 1
      <4>1. k \in 2..Len(batch[s])
        BY <2>1, <3>3
      <4>2. \E l \in 1..Len(batch'[s]) : ~Later(i, batch'[s][l])
        BY <2>2, <3>1, <4>1
      <4>3. phase'[s] = "send"
        BY <2>1, <2>2, <4>1
      <4> QED
        BY <2>8, <2>12, <4>2, <4>3 DEF Accounted, OnPage, Later, Key
    <3> QED
      BY <3>2, <3>3
  <2>13. CASE Ahead(s, i) /\ \A k \in 1..Len(batch[s]) : ~Later(batch[s][k], i)
    <3>1. After(Key(i), old) /\ (Old(s, i)' <=> Old(s, i))
      BY <1>1, <2>13 DEF Ahead, Fresh, Old, old
    <3>2. CASE After(Key(i), new)
      <4>1. Ahead(s, i)'
        BY <2>13, <3>1, <3>2 DEF Ahead, Fresh, Key, new
      <4>2. \A k \in 1..Len(batch'[s]) : ~Later(batch'[s][k], i)
        BY <2>1, <2>13
      <4>3. phase'[s] = "send" => OnPage(s, i)'
        BY <4>1, <4>2 DEF OnPage, Later, Key
      <4>4. phase'[s] \in {"send", "query", "live"}
        BY <2>1
      <4> QED
        BY <4>1, <4>3, <4>4 DEF Accounted
    <3>3. CASE ~After(Key(i), new)
      <4>1. new = Key(first) /\ ~After(Key(i), Key(first))
        BY <2>1, <3>1, <3>3
      <4>2. ~After(Key(first), Key(i))
        <5>1. 1 \in 1..Len(batch[s])
          BY <1>0, SendStep
        <5> QED
          BY <2>13, <5>1 DEF Later, first
      <4>3. Key(i) = Key(first)
        BY <2>3, <2>7, <4>1, <4>2, KeyOrder
      <4>4. i = first \/ OutOfOrder(i)
        BY <2>1, <4>3 DEF OutOfOrder
      <4> QED
        BY <2>6, <2>9, <4>1, <4>4 DEF Accounted
    <3> QED
      BY <3>2, <3>3
  <2>14. CASE full[s] /\ Below(s, i, offset[s] + ReplayLimit)
    <3>1. Cardinality(Above(s, i)') >= offset[s] + ReplayLimit
      BY <1>1, <2>14 DEF Below, Above, Asked, Later, Key
    <3>2. CASE batch'[s] = <<>>
      <4>1. phase'[s] = "query" /\ offset'[s] = offset[s] + ReplayLimit
        BY <2>1, <2>14, <3>2
      <4> QED
        BY <3>1, <4>1 DEF Accounted, Below
    <3>3. CASE batch'[s] # <<>>
      <4>1. phase'[s] = "send" /\ offset'[s] = offset[s] /\ full'[s]
        BY <1>1, <2>1, <2>14, <3>3
      <4> QED
        BY <3>1, <4>1 DEF Accounted, OnPage, Below
    <3> QED
      BY <3>2, <3>3
  <2> QED
    BY <2>5, <2>6, <2>10, <2>11, <2>12, <2>13, <2>14 DEF OnPage, Accounted
<1> QED
  BY <1>2, <1>3

(* The live loop moves neither the watermark nor the table.                 *)
LEMMA ReceiveAccounts ==
  ASSUME HubInv, StreamTypeOK, PublishedEvents, NEW s \in Subs, LiveReceive(s),
         NEW t \in Subs, AllAccounted(t)
  PROVE  AllAccounted(t)'
<1>1. /\ UNCHANGED <<rows, late, pubs, from, filter, base, phase, offset, batch, full, mark>>
      /\ rows \subseteq Position /\ phase[s] = "live"
  BY ReceiveStep DEF tableVars, StreamTypeOK
<1>2. CASE t # s
  <2>1. sent'[t] = sent[t]
    BY <1>2, ReceiveStep
  <2>2. Undisturbed(t)
    BY <1>1, <2>1 DEF Undisturbed
  <2> QED
    BY <1>1, <2>2, FrameAccounts
<1>3. CASE t = s
  <2> SUFFICES ASSUME Asking(s), NEW i \in rows, Asked(s, i) PROVE Accounted(s, i)'
    BY <1>1, <1>3 DEF AllAccounted, Asked, Asking
  <2>1. i \in SentTo(s) \/ Skipped(s, i) \/ Ahead(s, i)
    BY <1>1, <1>3 DEF AllAccounted, Accounted
  <2>2. i \in SentTo(s) => i \in SentTo(s)'
    <3>1. /\ Len(sent[s]) \in Nat /\ Len(sent'[s]) \in Nat /\ Len(sent[s]) <= Len(sent'[s])
          /\ \A k \in 1..Len(sent[s]) : sent'[s][k] = sent[s][k]
      BY ReceiveStep
    <3>2. \A k \in 1..Len(sent[s]) : k \in 1..Len(sent'[s])
      BY <3>1
    <3> QED
      BY <3>1, <3>2 DEF SentTo
  <2>3. Skipped(s, i) => Skipped(s, i)'
    BY <1>1 DEF Skipped, OutOfOrder, Key
  <2>4. Ahead(s, i) => Ahead(s, i)'
    BY <1>1 DEF Ahead, Old, Fresh, Key
  <2> QED
    BY <1>1, <2>1, <2>2, <2>3, <2>4 DEF Accounted
<1> QED
  BY <1>2, <1>3

LEMMA NextReplayInv ==
  ASSUME HubInv, StreamTypeOK, StreamTypeOK', PubsInv, HandlerInv, ReplayInv,
         [StreamNext]_streamVars
  PROVE  ReplayInv'
<1> SUFFICES ASSUME NEW t \in Subs PROVE AllAccounted(t)'
  BY DEF ReplayInv, AllAccounted
<1>0. /\ AllAccounted(t) /\ PublishedEvents /\ TypeOK /\ IngestTyped
      /\ pubs \in Seq(Position) /\ Len(pubs) \in Nat /\ rows \subseteq Position
  BY LenProperties DEF ReplayInv, AllAccounted, PubsInv, HubInv, StreamTypeOK, IngestTyped
<1>1. ASSUME UNCHANGED <<rows, late, from, replayVars, filter, base>>,
             \A n \in 1..Len(pubs) : pubs'[n] = pubs[n]
      PROVE  AllAccounted(t)'
  <2>1. Undisturbed(t)
    BY <1>0, <1>1 DEF Undisturbed, replayVars
  <2> QED
    BY <1>0, <1>1, <2>1, FrameAccounts
<1>2. CASE PublishRow
  BY <1>0, <1>1, <1>2, PublishStep, PubsAppend
<1>3. CASE LeaveUnpublished
  BY <1>1, <1>3 DEF LeaveUnpublished, vars, subVars, histVars
<1>4. CASE Quiet
  <2>1. UNCHANGED <<rows, late, pubs, from, replayVars>>
    BY <1>4 DEF Quiet, tableVars
  <2> QED
    BY <1>0, <1>1, <1>4, <2>1, QuietStep
<1> QED
  BY <1>0, <1>2, <1>3, <1>4, StreamCases, InsertAccounts, SubscribeAccounts, QueryAccounts,
     SendAccounts, ReceiveAccounts

LEMMA InitReplayInv == StreamInit => ReplayInv
BY DEF StreamInit, ReplayInv, AllAccounted, Asking

LEMMA AccountInvariant == StreamSpec => []ReplayInv
<1>1. HubInv /\ StreamTypeOK /\ StreamTypeOK' /\ PubsInv /\ HandlerInv /\ ReplayInv
      /\ [StreamNext]_streamVars
        => ReplayInv'
  BY NextReplayInv
<1> QED
  BY <1>1, InitReplayInv, ReplayInvariant, PTL DEF StreamSpec

(* NoBoundaryLoss: nothing falls between the replay and the live tail.  A   *)
(* row the replay was asked for is sent, or skipped as out of order, or was *)
(* published after Subscribe and is after the watermark: then the hub owes  *)
(* it to the channel, and the live loop does not skip it.                   *)
THEOREM NothingLostBetween == StreamSpec => []NoBoundaryLoss
<1>1. ASSUME HubInv, StreamTypeOK, PubsInv, HandlerInv, ReplayInv PROVE NoBoundaryLoss
  <2> SUFFICES ASSUME NEW s \in Subs, from[s] > 0, phase[s] = "live", hpc[s] = "open",
                      ~closed[s], NEW n \in 1..Len(log), Asked(s, pubs[n])
               PROVE  \/ pubs[n] \in SentTo(s) \/ Skipped(s, pubs[n])
                      \/ n \in Buffered(s) \/ Served(s, n) \/ Condemned(s)
    BY DEF NoBoundaryLoss
  <2>1. /\ Len(log) \in Nat /\ Len(pubs) \in Nat /\ base[s] \in Nat
        /\ n \in 1..Len(pubs) /\ log[n] = EventOf(pubs[n])
    <3>1. Len(log) \in Nat /\ Len(pubs) \in Nat /\ base[s] \in Nat
      BY <1>1, LenProperties DEF HubInv, TypeOK, StreamTypeOK
    <3>2. Len(log) <= Len(pubs)
      BY <1>1, <3>1 DEF PubsInv, PublishedEvents
    <3> QED
      BY <1>1, <3>1, <3>2 DEF PubsInv, PublishedEvents
  <2>2. pubs[n] \in rows
    BY <1>1, <2>1 DEF PubsInv, PublishedRows
  <2>3. pubs[n] \in SentTo(s) \/ Skipped(s, pubs[n]) \/ Ahead(s, pubs[n])
    BY <1>1, <2>2 DEF ReplayInv, AllAccounted, Asking, Accounted
  <2>4. CASE Ahead(s, pubs[n])
    <3>1. n \in base[s] + 1..Len(log)
      BY <2>1, <2>4 DEF Ahead, Old
    <3>2. Matches(filter[s], log[n])
      BY <2>1 DEF Asked, Table!Selected, Matches, EventOf
    <3>3. n \in accepted[s] \/ Served(s, n) \/ Condemned(s)
      BY <1>1, <3>1, <3>2 DEF HubInv, NoSilentLoss, Wanted
    <3>4. n \in accepted[s] \ Buffered(s) => pubs[n] \in SentTo(s)
      BY <1>1, <2>4 DEF HandlerInv, Handles, SendsTail, Ahead
    <3> QED
      BY <3>3, <3>4
  <2> QED
    BY <2>3, <2>4
<1> QED
  BY <1>1, ReplayInvariant, AccountInvariant, PTL

-----------------------------------------------------------------------------
(* The first page.                                                          *)

PageOne(s) ==
  /\ phase[s] = "query" => replayed[s] = 0 \/ replayed[s] >= ReplayLimit
  /\ phase[s] = "send" => \/ replayed[s] >= ReplayLimit
                          \/ replayed[s] + Len(batch[s]) = ReplayLimit
                          \/ replayed[s] + Len(batch[s]) < ReplayLimit /\ ~full[s]
  /\ replayed[s] <= ReplayLimit =>
       \A j, k \in 1..replayed[s] :
         j < k => sent[s][j] # sent[s][k] /\ ~Later(sent[s][j], sent[s][k])
  /\ replayed[s] < ReplayLimit =>
       \A j \in 1..replayed[s] : \A k \in 1..Len(batch[s]) :
         sent[s][j] # batch[s][k] /\ ~Later(sent[s][j], batch[s][k])

(* While no more than ReplayLimit rows are replayed, they are of one page.  *)
FirstPage == \A s \in Subs : PageOne(s)

LEMMA PageFrame ==
  ASSUME NEW s \in Subs, PageOne(s), phase'[s] = phase[s], replayed'[s] = replayed[s],
         batch'[s] = batch[s], full'[s] = full[s],
         \A k \in 1..replayed[s] : sent'[s][k] = sent[s][k]
  PROVE  PageOne(s)'
<1>1. \A j, k \in 1..replayed'[s] :
        replayed'[s] <= ReplayLimit /\ j < k =>
          sent'[s][j] # sent'[s][k] /\ ~After(Key(sent'[s][j]), Key(sent'[s][k]))
  BY DEF PageOne, Later
<1>2. \A j \in 1..replayed'[s] : \A k \in 1..Len(batch'[s]) :
        replayed'[s] < ReplayLimit =>
          sent'[s][j] # batch'[s][k] /\ ~After(Key(sent'[s][j]), Key(batch'[s][k]))
  BY DEF PageOne, Later
<1>3. /\ phase'[s] = "query" => replayed'[s] = 0 \/ replayed'[s] >= ReplayLimit
      /\ phase'[s] = "send" => \/ replayed'[s] >= ReplayLimit
                               \/ replayed'[s] + Len(batch'[s]) = ReplayLimit
                               \/ replayed'[s] + Len(batch'[s]) < ReplayLimit /\ ~full'[s]
  BY DEF PageOne
<1> QED
  BY <1>1, <1>2, <1>3 DEF PageOne, Later, Key

LEMMA NextFirstPage ==
  ASSUME HubInv, StreamTypeOK, PubsInv, HandlerInv, FirstPage, [StreamNext]_streamVars
  PROVE  FirstPage'
<1> SUFFICES ASSUME NEW t \in Subs PROVE PageOne(t)'
  BY DEF FirstPage
<1>0. /\ PageOne(t) /\ Handles(t) /\ ReplayLimit \in Nat \ {0} /\ replayed[t] \in Nat
      /\ TypeOK /\ IngestTyped
  BY StreamAssumption DEF FirstPage, HandlerInv, StreamTypeOK, HubInv, IngestTyped
<1>1. CASE UNCHANGED replayVars
  BY <1>0, <1>1, PageFrame DEF replayVars
<1>2. (\E i \in Position : InsertRow(i)) \/ PublishRow \/ LeaveUnpublished \/ Quiet
        => UNCHANGED replayVars
  BY <1>0, PublishStep DEF InsertRow, LeaveUnpublished, Quiet
<1>3. ASSUME NEW s \in Subs, Subscribe(s) PROVE PageOne(t)'
  <2>1. UNCHANGED <<batch, full, sent, replayed>>
    BY <1>3, SubscribeStep DEF HubInv
  <2>2. CASE phase'[t] = phase[t]
    BY <1>0, <2>1, <2>2, PageFrame
  <2>3. CASE t = s /\ New(s) /\ phase'[s] = IF from[s] > 0 THEN "query" ELSE "live"
    <3>1. replayed[s] = Len(sent[s]) /\ sent[s] = <<>>
      BY <1>0, <2>3 DEF Handles, HoldsPage, Marks
    <3>2. replayed'[s] = 0 /\ phase'[s] # "send" /\ 1..0 = {}
      BY <2>1, <2>3, <3>1
    <3> QED
      BY <2>3, <3>2 DEF PageOne
  <2> QED
    BY <1>3, <2>2, <2>3, SubscribeStep DEF HubInv
<1>4. ASSUME NEW s \in Subs, ReplayQuery(s) PROVE PageOne(t)'
  <2>1. /\ UNCHANGED <<sent, replayed>> /\ phase[s] = "query"
        /\ \A u \in Subs \ {s} :
              phase'[u] = phase[u] /\ batch'[u] = batch[u] /\ full'[u] = full[u]
        /\ Len(batch'[s]) \in Nat /\ Len(batch'[s]) <= ReplayLimit
        /\ full'[s] = (Len(batch'[s]) = ReplayLimit)
        /\ phase'[s] # "query"
    BY <1>4, QueryStep
  <2>2. CASE t # s
    BY <1>0, <2>1, <2>2, PageFrame
  <2>3. CASE t = s
    <3>1. replayed'[s] = replayed[s] /\ (replayed[s] = 0 \/ replayed[s] >= ReplayLimit)
      BY <1>0, <2>1, <2>3 DEF PageOne
    <3>2. CASE replayed[s] = 0
      <4>1. 0 + Len(batch'[s]) = ReplayLimit \/ (0 + Len(batch'[s]) < ReplayLimit /\ ~full'[s])
        <5>1. full'[s] = (Len(batch'[s]) = ReplayLimit)
          BY <2>1
        <5>2. full'[s] => Len(batch'[s]) = ReplayLimit
          BY <5>1
        <5> QED
          BY <1>0, <2>1, <5>2
      <4>2. replayed'[s] = 0 /\ 1..0 = {}
        BY <3>1, <3>2
      <4> QED
        BY <2>1, <2>3, <4>1, <4>2 DEF PageOne
    <3>3. CASE replayed[s] >= ReplayLimit
      <4>1. ~(replayed[s] < ReplayLimit)
        BY <1>0, <2>3, <3>3
      <4> QED
        BY <1>0, <2>1, <2>3, <3>1, <3>3, <4>1 DEF PageOne, Later, Key
    <3> QED
      BY <3>1, <3>2, <3>3
  <2> QED
    BY <2>2, <2>3
<1>5. ASSUME NEW s \in Subs, ReplaySend(s) PROVE PageOne(t)'
  <2>0. batch[s] # <<>>
    BY <1>5 DEF ReplaySend, HandlerInv, Handles, HoldsPage
  <2>1. CASE t # s
    <3>1. /\ full' = full /\ sent'[t] = sent[t] /\ replayed'[t] = replayed[t]
          /\ batch'[t] = batch[t] /\ phase'[t] = phase[t]
      BY <1>5, <2>0, <2>1, SendStep
    <3> QED
      BY <1>0, <3>1, PageFrame
  <2>2. CASE t = s
    <3> DEFINE r == replayed[s]
               b == Len(batch[s])
    <3>1. /\ phase[s] = "send" /\ full' = full /\ 1 \in 1..b
          /\ Len(sent[s]) = r /\ sent'[s][r + 1] = batch[s][1]
          /\ \A k \in 1..r : sent'[s][k] = sent[s][k]
          /\ replayed'[s] = r + 1 /\ b \in Nat /\ Len(batch'[s]) = b - 1
          /\ \A k \in 1..b - 1 : k + 1 \in 1..b /\ batch'[s][k] = batch[s][k + 1]
          /\ batch'[s] = <<>> <=> b - 1 = 0
          /\ phase'[s] = IF batch'[s] # <<>> THEN "send" ELSE IF full[s] THEN "query" ELSE "live"
      <4>1. phase[s] = "send"
        BY <1>5, <2>0, SendStep
      <4>2. Len(sent[s]) = r
        BY <1>0, <2>2, <4>1 DEF Handles, Marks
      <4>3. /\ full' = full /\ 1 \in 1..b /\ sent'[s][Len(sent[s]) + 1] = batch[s][1]
            /\ \A k \in 1..Len(sent[s]) : sent'[s][k] = sent[s][k]
            /\ replayed'[s] = r + 1 /\ b \in Nat /\ Len(batch'[s]) = b - 1
            /\ \A k \in 1..Len(batch'[s]) : k + 1 \in 1..b /\ batch'[s][k] = batch[s][k + 1]
            /\ batch'[s] \in Seq(Position)
            /\ phase'[s] = IF batch'[s] # <<>> THEN "send"
                           ELSE IF full[s] THEN "query" ELSE "live"
        BY <1>5, <2>0, SendStep
      <4>4. batch'[s] = <<>> <=> b - 1 = 0
        BY <4>3, EmptySeq
      <4> HIDE DEF r, b
      <4> QED
        BY <4>1, <4>2, <4>3, <4>4
    <3>2. /\ \/ r >= ReplayLimit \/ r + b = ReplayLimit
             \/ r + b < ReplayLimit /\ ~full[s]
          /\ r < ReplayLimit =>
               /\ \A j, k \in 1..r :
                    j < k => sent[s][j] # sent[s][k] /\ ~Later(sent[s][j], sent[s][k])
               /\ \A j \in 1..r : \A k \in 1..b :
                    sent[s][j] # batch[s][k] /\ ~Later(sent[s][j], batch[s][k])
      BY <1>0, <2>2, <3>1 DEF PageOne
    <3>3. \A k, l \in 1..b :
            k < l => batch[s][k] # batch[s][l] /\ ~Later(batch[s][k], batch[s][l])
      BY <1>0, <2>2 DEF Handles, HoldsPage
    <3>4. r \in Nat
      BY <1>0, <2>2
    <3> HIDE DEF r, b
    <3>5. phase'[s] = "query" => r + 1 >= ReplayLimit
      BY <1>0, <3>1, <3>2, <3>4
    <3>6. \/ r + 1 >= ReplayLimit \/ r + 1 + (b - 1) = ReplayLimit
          \/ r + 1 + (b - 1) < ReplayLimit /\ ~full'[s]
      BY <1>0, <3>1, <3>2, <3>4
    <3>7. ASSUME r + 1 <= ReplayLimit, NEW j \in 1..r + 1, NEW k \in 1..r + 1, j < k
          PROVE  sent'[s][j] # sent'[s][k] /\ ~Later(sent'[s][j], sent'[s][k])
      <4>1. r < ReplayLimit /\ j \in 1..r /\ (k \in 1..r \/ k = r + 1)
        BY <1>0, <3>4, <3>7
      <4>2. CASE k \in 1..r
        BY <3>1, <3>2, <3>7, <4>1, <4>2
      <4>3. CASE k = r + 1
        BY <3>1, <3>2, <4>1, <4>3
      <4> QED
        BY <4>1, <4>2, <4>3
    <3>8. ASSUME r + 1 < ReplayLimit, NEW j \in 1..r + 1, NEW k \in 1..b - 1
          PROVE  sent'[s][j] # batch'[s][k] /\ ~Later(sent'[s][j], batch'[s][k])
      <4>1. r < ReplayLimit /\ (j \in 1..r \/ j = r + 1) /\ k + 1 \in 1..b /\ 1 < k + 1
        BY <1>0, <3>1, <3>4, <3>8
      <4>2. CASE j \in 1..r
        BY <3>1, <3>2, <4>1, <4>2
      <4>3. CASE j = r + 1
        BY <3>1, <3>3, <4>1, <4>3
      <4> QED
        BY <4>1, <4>2, <4>3
    <3>9. PageOne(s)'
      <4>1. /\ phase'[s] = "query" => replayed'[s] = 0 \/ replayed'[s] >= ReplayLimit
            /\ phase'[s] = "send" =>
                 \/ replayed'[s] >= ReplayLimit
                 \/ replayed'[s] + Len(batch'[s]) = ReplayLimit
                 \/ replayed'[s] + Len(batch'[s]) < ReplayLimit /\ ~full'[s]
        BY <3>1, <3>5, <3>6
      <4>2. replayed'[s] <= ReplayLimit =>
              \A j, k \in 1..replayed'[s] :
                j < k => sent'[s][j] # sent'[s][k]
                         /\ ~After(Key(sent'[s][j]), Key(sent'[s][k]))
        BY <3>1, <3>7 DEF Later
      <4>3. replayed'[s] < ReplayLimit =>
              \A j \in 1..replayed'[s] : \A k \in 1..Len(batch'[s]) :
                sent'[s][j] # batch'[s][k] /\ ~After(Key(sent'[s][j]), Key(batch'[s][k]))
        BY <3>1, <3>8 DEF Later
      <4> QED
        BY <4>1, <4>2, <4>3 DEF PageOne, Later, Key
    <3> QED
      BY <2>2, <3>9
  <2> QED
    BY <2>1, <2>2
<1>6. ASSUME NEW s \in Subs, LiveReceive(s) PROVE PageOne(t)'
  <2>1. /\ UNCHANGED <<phase, batch, full, replayed>>
        /\ \A u \in Subs \ {s} : sent'[u] = sent[u]
        /\ \A k \in 1..Len(sent[s]) : sent'[s][k] = sent[s][k]
        /\ Len(sent[s]) \in Nat
    BY <1>6, ReceiveStep DEF PubsInv
  <2>2. replayed[t] <= Len(sent[t])
    BY <1>0 DEF Handles, Marks
  <2>3. \A k \in 1..replayed[t] : sent'[t][k] = sent[t][k]
    BY <1>0, <2>1, <2>2
  <2> QED
    BY <1>0, <2>1, <2>3, PageFrame
<1> QED
  BY <1>1, <1>2, <1>3, <1>4, <1>5, <1>6, StreamCases

LEMMA PageInvariant == StreamSpec => []FirstPage
<1>1. StreamInit => FirstPage
  <2>1. 1..0 = {}
    OBVIOUS
  <2> QED
    BY <2>1 DEF StreamInit, FirstPage, PageOne
<1>2. HubInv /\ StreamTypeOK /\ PubsInv /\ HandlerInv /\ FirstPage /\ [StreamNext]_streamVars
        => FirstPage'
  BY NextFirstPage
<1> QED
  BY <1>1, <1>2, ReplayInvariant, PTL DEF StreamSpec

(* OnePageInOrder: as long as the replay has sent no more than one page,    *)
(* the stream has no duplicates and is in chain order, but for live events  *)
(* that came out of order and for events of one key.                        *)
THEOREM OnePageOrdered == StreamSpec => []OnePageInOrder
<1>1. ASSUME StreamTypeOK, PubsInv, HandlerInv, LiveExtends, FirstPage PROVE OnePageInOrder
  <2> SUFFICES ASSUME NEW s \in Subs, replayed[s] <= ReplayLimit,
                      NEW j \in 1..Len(sent[s]), NEW k \in 1..Len(sent[s]), j < k
               PROVE  /\ sent[s][j] # sent[s][k]
                      /\ k <= replayed[s] => ~Later(sent[s][j], sent[s][k])
                      /\ Later(sent[s][k], sent[s][j]) \/ OutOfOrder(sent[s][k])
    BY DEF OnePageInOrder
  <2> DEFINE a == sent[s][j]
             b == sent[s][k]
  <2>1. /\ replayed[s] \in Nat /\ Len(sent[s]) \in Nat
        /\ a \in Position /\ b \in Position /\ a \in rows
        /\ Key(a) \in LogKey /\ Key(b) \in LogKey
    BY <1>1, LenProperties, ElementOfSeq, KeyType DEF StreamTypeOK, HandlerInv, Handles, Marks
  <2>2. CASE k <= replayed[s]
    <3>1. j \in 1..replayed[s] /\ k \in 1..replayed[s]
      BY <2>1, <2>2
    <3>2. a # b /\ ~Later(a, b)
      BY <1>1, <3>1 DEF FirstPage, PageOne
    <3>3. Later(b, a) \/ Key(a) = Key(b)
      BY <2>1, <3>2, KeyOrder DEF Later
    <3> QED
      BY <2>1, <3>2, <3>3 DEF OutOfOrder
  <2>3. CASE j <= replayed[s] /\ k > replayed[s]
    <3>1. j \in 1..replayed[s] /\ k \in (replayed[s] + 1)..Len(sent[s])
      BY <2>1, <2>3
    <3>2. Later(b, a)
      BY <1>1, <3>1 DEF LiveExtends
    <3>3. a # b
      BY <2>1, <3>2, KeyOrder DEF Later
    <3> QED
      BY <2>1, <2>3, <3>2, <3>3
  <2>4. CASE j > replayed[s]
    <3>1. k \in (replayed[s] + 1)..Len(sent[s]) /\ j \in (replayed[s] + 1)..(k - 1)
      BY <2>1, <2>4
    <3>2. PICK m \in 1..Len(pubs), n \in 1..Len(pubs) : m < n /\ pubs[m] = a /\ pubs[n] = b
      BY <1>1, <3>1 DEF LiveExtends
    <3>3. a # b /\ (Later(b, a) \/ OutOfOrder(b))
      BY <1>1, <3>2 DEF PubsInv, PublishedRows, PublishedInOrder
    <3> QED
      BY <2>1, <2>4, <3>3
  <2> QED
    BY <2>1, <2>2, <2>3, <2>4
<1> QED
  BY <1>1, ReplayInvariant, NothingTwiceAcross, PageInvariant, PTL
=============================================================================
