----------------------------- MODULE StreamEvents -----------------------------
(***************************************************************************)
(* Replay-then-live: the StreamEvents handler of internal/grpcsrv/         *)
(* server.go between the events table (internal/repository), which         *)
(* chainsub fills, and the hub (StreamHub), to which chainsub publishes    *)
(* each row after it has inserted it.                                      *)
(*                                                                         *)
(* An event is a position in Chain, the sequence of all logs by key.  The  *)
(* handler of a subscription subscribes first, then pages through the      *)
(* table, newest page first, and then reads its channel, skipping what is  *)
(* not after the watermark the replay left.                                *)
(*                                                                         *)
(* Rows come in chain order unless the chain is reorganised: then a log    *)
(* may come after later ones, or with the key of one that is stored.  Both *)
(* are out of order, and the properties say what becomes of them.          *)
(*                                                                         *)
(* PublishRowLate, NewestFirst, FreshBlock and FreshAlways are used        *)
(* nowhere: they are faulty variants of the definition after them, with    *)
(* which a property of this module fails.                                  *)
(***************************************************************************)
EXTENDS StreamHub, SequencesExt

CONSTANTS
  Chain,         (* the logs: [block, logIndex, kind, asset]                *)
  Ingester,      (* chainsub's goroutine, the one publisher                 *)
  FromBlocks,    (* the from_block values clients ask for; 0 is live-only   *)
  ReplayLimit,   (* filter.Limit of replayHistory                           *)
  ListLimit, DefaultLimit, HalfLong,    (* of EventsTable                   *)
  Orders,        (* what a query may list the rows in: see EventsTable      *)
  MaxLate        (* bound: the rows inserted after one of a higher key      *)

Table  == INSTANCE EventsTable
Models == INSTANCE Records WITH ZeroHash <- NoAsset, HalfWord <- HalfLong

Position == 1..Len(Chain)

(* logKey.after                                                             *)
After(k, o) ==
  IF k.block # o.block THEN k.block > o.block ELSE k.logIndex > o.logIndex

Key(i)     == [block |-> Chain[i].block, logIndex |-> Chain[i].logIndex]
EventOf(i) == [kind |-> Chain[i].kind, asset |-> Chain[i].asset]
NoKey      == [block |-> 0, logIndex |-> 0]

(* buildStreamFilter; a request whose asset is none is rejected.            *)
StreamFilter(wire, asset) ==
  [kinds |-> {Models!EventKindFromProto(w) : w \in wire} \ {"unknown"}, asset |-> asset]

WireKinds == {Models!EventKindToProto[k] : k \in DOMAIN Models!EventKindToProto}

ASSUME StreamAssumption ==
  /\ Filters \subseteq {StreamFilter(wire, asset) :
                          wire \in SUBSET WireKinds, asset \in Assets \cup {NoAsset}}
  /\ Publishers = {Ingester}
  /\ Chain \in Seq([block : Nat, logIndex : Nat, kind : Kinds, asset : Assets])
  /\ \A i \in Position : After(Key(i), NoKey)
  /\ \A i, j \in Position : i < j => ~After(Key(i), Key(j))
  /\ Orders = Table!Listings
  /\ FromBlocks \subseteq 0..HalfLong - 1 /\ MaxLate \in Nat
  /\ ListLimit \in Nat /\ ReplayLimit \in 1..ListLimit /\ DefaultLimit \in Nat \ {0}
  /\ MaxEvents >= Len(Chain)

VARIABLES
  rows,      (* the events table                                            *)
  ingest,    (* the row ingest has inserted and not yet published, or 0     *)
  pubs,      (* history: the rows handed to Publish, in order               *)
  late,      (* history: the rows inserted after one of a higher key        *)
  from,      (* from_block of each request                                  *)
  phase,     (* handler: "start", "query", "send" (a page), "live"          *)
  offset,    (* filter.Offset of replayHistory                              *)
  batch,     (* what is left of the page being sent, oldest first           *)
  full,      (* the page had filter.Limit rows                              *)
  mark,      (* the watermark: highest key sent by the replay               *)
  sent,      (* history: what the client was sent, in order                 *)
  replayed   (* history: how many of those the replay sent                  *)

tableVars  == <<rows, ingest, pubs, late>>
replayVars == <<phase, offset, batch, full, mark, sent, replayed>>
streamVars == <<vars, tableVars, from, replayVars>>

StreamInit ==
  /\ Init
  /\ rows = {}
  /\ ingest = 0
  /\ pubs = <<>>
  /\ late = {}
  /\ from \in [Subs -> FromBlocks]
  /\ phase = [s \in Subs |-> "start"]
  /\ offset = [s \in Subs |-> 0]
  /\ batch = [s \in Subs |-> <<>>]
  /\ full = [s \in Subs |-> FALSE]
  /\ mark = [s \in Subs |-> NoKey]
  /\ sent = [s \in Subs |-> <<>>]
  /\ replayed = [s \in Subs |-> 0]

-----------------------------------------------------------------------------
(* chainsub.ingest as the table and the hub see it: insert, then publish    *)
(* (ChainSub has the whole of it).  Logs it missed or failed to insert may  *)
(* never come.                                                              *)

InsertRow(i) ==
  LET isLate == \E j \in rows : After(Key(j), Key(i))
  IN  /\ Alive
      /\ ingest = 0
      /\ ppc[Ingester] = "idle"
      /\ i \notin rows
      /\ isLate => Cardinality(late) < MaxLate
      /\ rows' = rows \cup {i}
      /\ ingest' = i
      /\ late' = IF isLate THEN late \cup {i} ELSE late
      /\ UNCHANGED <<vars, pubs, from, replayVars>>

PublishRowLate ==
  /\ ingest # 0
  /\ PublishCall(Ingester, EventOf(ingest))
  /\ ingest' = 0
  /\ pubs' = Append(pubs, ingest')
  /\ UNCHANGED <<rows, late, from, replayVars>>

PublishRow ==
  /\ ingest # 0
  /\ PublishCall(Ingester, EventOf(ingest))
  /\ pubs' = Append(pubs, ingest)
  /\ ingest' = 0
  /\ UNCHANGED <<rows, late, from, replayVars>>

(* The row stays unpublished: the insert was committed but returned an      *)
(* error (a lost connection, a cancelled context), or the hub is shut down. *)
LeaveUnpublished ==
  /\ Alive
  /\ ingest # 0
  /\ ingest' = 0
  /\ UNCHANGED <<vars, rows, pubs, late, from, replayVars>>

-----------------------------------------------------------------------------
(* The handler of a subscription.                                           *)

(* hub.Subscribe comes before the replay; without from_block there is none. *)
Subscribe(s) ==
  /\ SubscribeInsert(s)
  /\ phase' = IF hpc'[s] # "open" THEN phase
              ELSE [phase EXCEPT ![s] = IF from[s] > 0 THEN "query" ELSE "live"]
  /\ UNCHANGED <<tableVars, from, offset, batch, full, mark, sent, replayed>>

NewestFirst(page) == page

OldestFirst(page) == Reverse(page)

(* One page, reversed in memory.                                            *)
ReplayQuery(s) ==
  /\ Alive
  /\ hpc[s] = "open"
  /\ phase[s] = "query"
  /\ UNCHANGED <<vars, tableVars, from, offset, mark, sent, replayed>>
  /\ \E order \in Orders :
       \E page \in {Table!Page(order, rows, filter[s], from[s], 0, ReplayLimit, offset[s])} :
         /\ phase' = [phase EXCEPT ![s] = IF page = <<>> THEN "live" ELSE "send"]
         /\ batch' = [batch EXCEPT ![s] = OldestFirst(page)]
         /\ full' = [full EXCEPT ![s] = Len(page) >= ReplayLimit]

(* Send one row and raise the watermark; after the last row of the page go  *)
(* on with the next page if this one was full.                              *)
ReplaySend(s) ==
  LET i    == Head(batch[s])
      rest == Tail(batch[s])
      done == rest = <<>>
  IN  /\ Alive
      /\ hpc[s] = "open"
      /\ phase[s] = "send"
      /\ sent' = [sent EXCEPT ![s] = Append(@, i)]
      /\ replayed' = [replayed EXCEPT ![s] = @ + 1]
      /\ mark' = [mark EXCEPT ![s] = IF After(Key(i), @) THEN Key(i) ELSE @]
      /\ batch' = [batch EXCEPT ![s] = rest]
      /\ phase' = [phase EXCEPT ![s] = IF ~done THEN "send"
                                       ELSE IF full[s] THEN "query" ELSE "live"]
      /\ offset' = [offset EXCEPT ![s] = IF done /\ full[s]
                                         THEN @ + ReplayLimit ELSE @]
      /\ UNCHANGED <<vars, tableVars, from, full>>

FreshBlock(s, i) == Key(i).block > mark[s].block
FreshAlways(s, i) == TRUE

(* Not emitted by the replay: strictly after the watermark.                 *)
Fresh(s, i) == After(Key(i), mark[s])

(* The live loop: skip what the replay already emitted, send the rest.      *)
LiveReceive(s) ==
  LET i == pubs[Head(chan[s])]
  IN  /\ phase[s] = "live"
      /\ Receive(s)
      /\ sent' = IF Fresh(s, i)
                 THEN [sent EXCEPT ![s] = Append(@, i)] ELSE sent
      /\ UNCHANGED <<tableVars, from, phase, offset, batch, full, mark,
                     replayed>>

LiveClosed(s) ==
  /\ phase[s] = "live"
  /\ ReceiveClosed(s)
  /\ UNCHANGED <<tableVars, from, replayVars>>

(* The rest of the handler: the flag read of Subscribe, the return when the *)
(* client is gone, a query or a Send fails, and the deferred Cancel.        *)
Connect(s) ==
  \/ SubscribeLoad(s) \/ Leave(s) \/ CancelDelete(s) \/ CancelClose(s)

-----------------------------------------------------------------------------
HandlerRuns(s) == Subscribe(s) \/ ReplayQuery(s) \/ ReplaySend(s)
                  \/ LiveReceive(s) \/ LiveClosed(s)

(* Steps of the hub alone.                                                  *)
InHub(A) == A /\ UNCHANGED <<tableVars, from, replayVars>>

StreamNext ==
  \/ \E i \in Position : InsertRow(i)
  \/ PublishRow
  \/ LeaveUnpublished
  \/ \E s \in Subs : HandlerRuns(s) \/ InHub(Connect(s))
  \/ InHub(PublisherStep(Ingester))
  \/ InHub(ShutdownFlag)
  \/ InHub(ShutdownStep)
  \/ InHub(Finished)

(* chainsub and a publisher inside the hub keep running, and so does a      *)
(* handler whose client takes what it is sent.                              *)
StreamFairness ==
  /\ WF_streamVars(PublishRow)
  /\ WF_streamVars(InHub(PublisherStep(Ingester)))
  /\ \A s \in Subs : WF_streamVars(HandlerRuns(s))

StreamSpec == StreamInit /\ [][StreamNext]_streamVars /\ StreamFairness

-----------------------------------------------------------------------------
(* Properties.                                                              *)

SentTo(s)    == {sent[s][k] : k \in 1..Len(sent[s])}
Asked(s, i)  == Table!Selected(filter[s], from[s], 0, i)
Later(j, i)  == After(Key(j), Key(i))

(* Out of order: after a higher key, or with the key of another row.        *)
OutOfOrder(i) == i \in late \/ \E j \in rows \ {i} : Key(j) = Key(i)

(* Type correctness of the composition.                                     *)
StreamTypeOK ==
  /\ TypeOK
  /\ rows \in SUBSET Position
  /\ ingest \in Position \cup {0}
  /\ pubs \in Seq(Position)
  /\ late \in SUBSET rows
  /\ from \in [Subs -> FromBlocks]
  /\ phase \in [Subs -> {"start", "query", "send", "live"}]
  /\ offset \in [Subs -> Nat]
  /\ batch \in [Subs -> Seq(Position)]
  /\ full \in [Subs -> BOOLEAN]
  /\ mark \in [Subs -> {NoKey} \cup {Key(i) : i \in Position}]
  /\ sent \in [Subs -> Seq(Position)]
  /\ replayed \in [Subs -> Nat]

(* Nothing falls between the replay and the live tail: once the replay is   *)
(* over, every published event a client asked for has been sent, or its     *)
(* open channel holds it or is about to, or the stream is condemned.  Only  *)
(* an event out of order is skipped, if it is not after the watermark.      *)
Skipped(s, i) == OutOfOrder(i) /\ ~After(Key(i), mark[s])

NoBoundaryLoss ==
  \A s \in Subs :
    from[s] > 0 /\ phase[s] = "live" /\ hpc[s] = "open" /\ ~closed[s] =>
      \A n \in 1..Len(log) :
        Asked(s, pubs[n]) =>
          \/ pubs[n] \in SentTo(s) \/ Skipped(s, pubs[n])
          \/ n \in Buffered(s) \/ Served(s, n) \/ Condemned(s)

(* Nothing is sent twice across the boundary: each live event is later in   *)
(* the chain than everything the replay sent, also if the chain is          *)
(* reorganised, and the live events are sent in the order they were         *)
(* published in.                                                            *)
LiveExtends ==
  \A s \in Subs : \A k \in (replayed[s] + 1)..Len(sent[s]) :
    /\ \A j \in 1..replayed[s] : Later(sent[s][k], sent[s][j])
    /\ \A j \in (replayed[s] + 1)..(k - 1) :
         \E m, n \in 1..Len(pubs) : m < n /\ pubs[m] = sent[s][j] /\ pubs[n] = sent[s][k]

(* As long as the replay has sent no more than one page, the stream has no  *)
(* duplicates and is in chain order, whatever is inserted and published     *)
(* meanwhile; but for live events that came out of order, and for events of *)
(* one key.                                                                 *)
OnePageInOrder ==
  \A s \in Subs : replayed[s] <= ReplayLimit =>
    \A j, k \in 1..Len(sent[s]) : j < k =>
      LET a == sent[s][j]
          b == sent[s][k]
      IN  /\ a # b
          /\ k <= replayed[s] => ~Later(a, b)
          /\ Later(b, a) \/ OutOfOrder(b)

(* Every published event a replaying client asked for reaches it, or is out *)
(* of order and not after the watermark, or its stream ends, the hub is     *)
(* shut down, or the process dies.                                          *)
EventuallySent ==
  \A s \in Subs, i \in Position :
    (/\ hpc[s] = "open" /\ from[s] > 0 /\ Asked(s, i)
     /\ \E n \in 1..Len(pubs) : pubs[n] = i)
      ~> \/ i \in SentTo(s) \/ Skipped(s, i) \/ hpc[s] # "open"
         \/ shutdown \/ ~Alive

(* "replayHistory drains historical events from fromBlock to head in        *)
(* chronological order" (server.go:346-347).                                *)
ReplayChronological ==
  \A s \in Subs : \A j, k \in 1..replayed[s] :
    j < k => Later(sent[s][k], sent[s][j])
=============================================================================
