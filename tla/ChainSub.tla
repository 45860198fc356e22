------------------------------ MODULE ChainSub ------------------------------
(***************************************************************************)
(* The chain observer of internal/chainsub, the events table it fills and  *)
(* the bootstrap of that table by App.Init.                                *)
(*                                                                         *)
(* One goroutine (Run) owns everything here: it dials, subscribes to the   *)
(* addresses it knows, and takes each log from its channel through parse,  *)
(* insert and publish.  What it races with is the chain, the connection,   *)
(* the database, the cancellation of its context and the death of the      *)
(* process; so steps of its own between which none of these can tell a     *)
(* difference are one action.  Time is left out: a backoff delay has any   *)
(* length.                                                                 *)
(*                                                                         *)
(* A log is its position in Chain, the order in which the chain emits      *)
(* them; it stands for the key (tx_hash, log_index) of the table.          *)
(*                                                                         *)
(* BootedWithoutSeeds, WatchEverything, TakeAny, TakeUnlessCancelled,      *)
(* PublishDuplicate, CountDuplicate, PublishCleared, PublishSkipped and    *)
(* PublishUnlessCancelled are used nowhere: they are faulty variants of    *)
(* the definition after them, with which a property of this module fails.  *)
(***************************************************************************)
EXTENDS Integers, Sequences, FiniteSets

CONSTANTS
  Aggregators,   (* PriceAggregator addresses                               *)
  Registry,      (* the OracleRegistry address                              *)
  Assets,        (* asset ids                                               *)
  NoAsset,       (* the zero hash: no asset id                              *)
  Seeds,         (* cfg.Assets: the configured aggregator -> asset mapping  *)
  Chain,         (* the logs of the chain, in order                         *)
  MaxAgain,      (* bound: logs the node delivers once more                 *)
  MaxRestarts    (* bound: restarts of the process                          *)

Address  == Aggregators \cup {Registry}
Position == 1..Len(Chain)

(* agg and asset are the payload of an AssetRegistered.                     *)
Log == [from : Address,
        kind : {"requested", "fulfilled", "registered", "other"},
        agg : Aggregators, asset : Assets]

Price(i)      == Chain[i].kind \in {"requested", "fulfilled"}
Registered(i) == Chain[i].kind = "registered" /\ Chain[i].from = Registry

EventKind == {"requested", "fulfilled", "registered"}

(* The last part is "One aggregator -> one asset" of config.Validate, taken *)
(* to hold of the chain too.                                                *)
ASSUME ChainAssumption ==
  /\ Registry \notin Aggregators
  /\ NoAsset \notin Assets
  /\ Seeds \in [Address -> Assets \cup {NoAsset}]
  /\ Seeds[Registry] = NoAsset
  /\ Chain \in Seq(Log)
  /\ MaxAgain \in Nat /\ MaxRestarts \in Nat
  /\ \A i \in Position :
       /\ Price(i) => Chain[i].from \in Aggregators
       /\ Registered(i) => Seeds[Chain[i].agg] \in {Chain[i].asset, NoAsset}
       /\ \A j \in Position :
            Registered(i) /\ Registered(j) /\ Chain[i].agg = Chain[j].agg
              => Chain[i].asset = Chain[j].asset

VARIABLES
  head,       (* the chain: how many logs have been emitted                 *)
  up,         (* the connection of the session works                        *)
  ctx,        (* the runtime context is cancelled                           *)
  pc,         (* "boot", "dial", "live", "insert", "publish", "backoff",    *)
              (* or "stopped"                                               *)
  watched,    (* the addresses of the session's log filter                  *)
  logs,       (* the logs channel, with what the client library buffers     *)
  evt,        (* the log being ingested, or 0                               *)
  mapping,    (* s.mapping                                                  *)
  seeded,     (* events table: the bootstrap rows, by aggregator            *)
  rows,       (* events table: the rows of logs                             *)
  assetID,    (* events table: their asset_id column                        *)
  pubs,       (* history: the logs handed to Publish                        *)
  delivered,  (* history: the logs the node delivered                       *)
  failed,     (* history: the logs whose insert returned an error           *)
  cut,        (* history: the logs discarded with a session or a process    *)
  again,      (* how many logs the node delivered once more                 *)
  restarts,   (* how often the process was restarted                        *)
  metrics,    (* the counters chainsub writes                               *)
  base        (* history: how long pubs was when the process started        *)

nodeVars  == <<head, up, delivered, again>>
sessVars  == <<pc, watched, logs, evt, mapping>>
tableVars == <<seeded, rows, assetID>>
histVars  == <<pubs, failed, cut>>
procVars  == <<restarts, metrics, base>>
vars == <<nodeVars, ctx, sessVars, tableVars, histVars, procVars>>

InLogs == {logs[k] : k \in 1..Len(logs)}

(* A new process counts from zero.                                          *)
NewRegistry == [seen |-> [k \in EventKind |-> 0], decodeErrors |-> 0]

Init ==
  /\ head = 0
  /\ up = FALSE
  /\ ctx = FALSE
  /\ pc = "boot"
  /\ watched = {}
  /\ logs = <<>>
  /\ evt = 0
  /\ mapping = Seeds
  /\ seeded = {}
  /\ rows = {}
  /\ assetID = [i \in Position |-> NoAsset]
  /\ pubs = <<>>
  /\ delivered = {}
  /\ failed = {}
  /\ cut = {}
  /\ again = 0
  /\ restarts = 0
  /\ metrics = NewRegistry
  /\ base = 0

-----------------------------------------------------------------------------
(* App.Init: one AssetRegistered row per configured asset, before chainsub  *)
(* runs.  The synthetic key makes a second insert a no-op.  An error ends   *)
(* the process: see Restart.                                                *)

Configured == {a \in Aggregators : Seeds[a] # NoAsset}

BootSeed(a) ==
  /\ pc = "boot"
  /\ a \in Configured \ seeded
  /\ seeded' = seeded \cup {a}
  /\ UNCHANGED <<nodeVars, ctx, sessVars, rows, assetID, histVars, procVars>>

BootedWithoutSeeds == TRUE

Booted == Configured \subseteq seeded

BootDone ==
  /\ pc = "boot"
  /\ Booted
  /\ pc' = "dial"
  /\ UNCHANGED <<nodeVars, ctx, watched, logs, evt, mapping, tableVars,
                 histVars, procVars>>

-----------------------------------------------------------------------------
(* Run and runSession.                                                      *)

WatchEverything == Address

(* subscribedAddresses                                                      *)
SubscribedAddresses == {Registry} \cup {a \in Aggregators : mapping[a] # NoAsset}

(* DialContext and SubscribeFilterLogs succeed.  The addresses are read     *)
(* once: an aggregator recorded later is watched from the next session on.  *)
SessionStarts ==
  /\ pc = "dial"
  /\ pc' = "live"
  /\ up' = TRUE
  /\ watched' = SubscribedAddresses
  /\ UNCHANGED <<head, delivered, again, ctx, logs, evt, mapping, tableVars,
                 histVars, procVars>>

(* One of them fails.                                                       *)
DialFails ==
  /\ pc = "dial"
  /\ pc' = IF ctx THEN "stopped" ELSE "backoff"
  /\ UNCHANGED <<nodeVars, ctx, watched, logs, evt, mapping, tableVars,
                 histVars, procVars>>

(* The delay is over; the loop looks at the context before it dials.        *)
Reconnect ==
  /\ pc = "backoff"
  /\ pc' = IF ctx THEN "stopped" ELSE "dial"
  /\ UNCHANGED <<nodeVars, ctx, watched, logs, evt, mapping, tableVars,
                 histVars, procVars>>

(* What is left of a session: its client and its channel go.                *)
EndSession ==
  /\ up' = FALSE
  /\ watched' = {}
  /\ logs' = <<>>
  /\ cut' = cut \cup InLogs

(* select picks sub.Err(), whether or not logs are waiting too.             *)
SessionEnds ==
  /\ pc = "live"
  /\ ~up
  /\ pc' = IF ctx THEN "stopped" ELSE "backoff"
  /\ EndSession
  /\ UNCHANGED <<head, delivered, again, ctx, evt, mapping, tableVars, pubs,
                 failed, procVars>>

(* ctx.Done() in a live session and while backing off.                      *)
StopRun ==
  /\ pc \in {"live", "backoff"}
  /\ ctx
  /\ pc' = "stopped"
  /\ EndSession
  /\ UNCHANGED <<head, delivered, again, ctx, evt, mapping, tableVars, pubs,
                 failed, procVars>>

-----------------------------------------------------------------------------
(* ingest                                                                   *)

(* Parser.Parse: an event, ErrUnknownEvent, or an error, which is what an   *)
(* AssetRegistered of another contract gives, and what does not decode.     *)
Parse(i) ==
  CASE Price(i) \/ Registered(i)    -> "event"
    [] Chain[i].kind = "registered" /\ ~Registered(i) -> "error"
    [] OTHER                         -> "unknown"

Known(i) == Parse(i) = "event"

(* The asset of the event: the payload's for AssetRegistered, else the      *)
(* mapping's; an aggregator that is not in the mapping gives NoAsset and a  *)
(* warning, not an error.                                                   *)
Resolve(i) == IF Registered(i) THEN Chain[i].asset ELSE mapping[Chain[i].from]

RecordAggregator(a, asset) == [mapping EXCEPT ![a] = asset]

ObserveDecodeError == [metrics EXCEPT !.decodeErrors = @ + 1]
ObserveSeen(i)     == [metrics EXCEPT !.seen[Chain[i].kind] = @ + 1]

(* select picks a log.  One that Parse rejects is dropped; an               *)
(* AssetRegistered extends the mapping before it is inserted.               *)
TakeLog(i) ==
  /\ pc' = IF Known(i) THEN "insert" ELSE "live"
  /\ evt' = IF Known(i) THEN i ELSE 0
  /\ mapping' = IF Registered(i)
                THEN RecordAggregator(Chain[i].agg, Chain[i].asset)
                ELSE mapping
  /\ metrics' = IF Parse(i) = "error" THEN ObserveDecodeError ELSE metrics
  /\ UNCHANGED <<nodeVars, ctx, watched, tableVars, histVars, restarts, base>>

TakeAny ==
  /\ pc = "live"
  /\ \E k \in 1..Len(logs) :
       /\ TakeLog(logs[k])
       /\ logs' = SubSeq(logs, 1, k - 1) \o SubSeq(logs, k + 1, Len(logs))

TakeUnlessCancelled ==
  /\ pc = "live"
  /\ logs # <<>>
  /\ IF ctx
     THEN UNCHANGED <<pc, evt, mapping, nodeVars, ctx, watched, tableVars,
                      histVars, procVars>>
     ELSE TakeLog(Head(logs))
  /\ logs' = Tail(logs)

Take ==
  /\ pc = "live"
  /\ logs # <<>>
  /\ TakeLog(Head(logs))
  /\ logs' = Tail(logs)

WriteRow ==
  /\ rows' = rows \cup {evt}
  /\ assetID' = [assetID EXCEPT ![evt] = Resolve(evt)]
  /\ UNCHANGED seeded

(* InsertEvent returned (true, nil), and the row is counted.                *)
InsertNew ==
  /\ pc = "insert"
  /\ evt \notin rows
  /\ WriteRow
  /\ metrics' = ObserveSeen(evt)
  /\ pc' = "publish"
  /\ UNCHANGED <<nodeVars, ctx, watched, logs, evt, mapping, histVars,
                 restarts, base>>

PublishDuplicate ==
  /\ pc = "insert"
  /\ evt \in rows
  /\ pc' = "publish"
  /\ UNCHANGED <<nodeVars, ctx, watched, logs, evt, mapping, tableVars,
                 histVars, procVars>>

CountDuplicate ==
  /\ pc = "insert"
  /\ evt \in rows
  /\ metrics' = ObserveSeen(evt)
  /\ pc' = "live"
  /\ evt' = 0
  /\ UNCHANGED <<nodeVars, ctx, watched, logs, mapping, tableVars, histVars,
                 restarts, base>>

(* InsertEvent returned (false, nil): ON CONFLICT DO NOTHING.               *)
InsertDuplicate ==
  /\ pc = "insert"
  /\ evt \in rows
  /\ pc' = "live"
  /\ evt' = 0
  /\ UNCHANGED <<nodeVars, ctx, watched, logs, mapping, tableVars, histVars,
                 procVars>>

(* InsertEvent returned an error, the row being written or not.  Nothing    *)
(* retries; only the error of a cancelled context ends the session.         *)
InsertFails ==
  /\ pc = "insert"
  /\ IF evt \in rows THEN UNCHANGED tableVars
     ELSE WriteRow \/ UNCHANGED tableVars
  /\ failed' = failed \cup {evt}
  /\ evt' = 0
  /\ \/ /\ pc' = "live"
        /\ UNCHANGED <<up, watched, logs, cut>>
     \/ /\ ctx
        /\ pc' = "stopped"
        /\ EndSession
  /\ UNCHANGED <<head, delivered, again, ctx, mapping, pubs, procVars>>

PublishCleared ==
  /\ pc = "publish"
  /\ evt' = 0
  /\ pubs' = Append(pubs, evt')
  /\ pc' = "live"
  /\ UNCHANGED <<nodeVars, ctx, watched, logs, mapping, tableVars, failed, cut,
                 procVars>>

PublishUnlessCancelled ==
  /\ pc = "publish"
  /\ ~ctx
  /\ pubs' = Append(pubs, evt)
  /\ pc' = "live"
  /\ evt' = 0
  /\ UNCHANGED <<nodeVars, ctx, watched, logs, mapping, tableVars, failed, cut,
                 procVars>>

PublishSkipped ==
  /\ pc = "publish"
  /\ pubs' = IF ctx THEN pubs ELSE Append(pubs, evt)
  /\ pc' = "live"
  /\ evt' = 0
  /\ UNCHANGED <<nodeVars, ctx, watched, logs, mapping, tableVars, failed, cut,
                 procVars>>

Publish ==
  /\ pc = "publish"
  /\ pubs' = Append(pubs, evt)
  /\ pc' = "live"
  /\ evt' = 0
  /\ UNCHANGED <<nodeVars, ctx, watched, logs, mapping, tableVars, failed, cut,
                 procVars>>

-----------------------------------------------------------------------------
(* The environment.                                                         *)

(* The chain emits its next log; a working subscription delivers it when    *)
(* its address is in the filter.                                            *)
Emit ==
  /\ head < Len(Chain)
  /\ head' = head + 1
  /\ IF up /\ Chain[head + 1].from \in watched
     THEN /\ logs' = Append(logs, head + 1)
          /\ delivered' = delivered \cup {head + 1}
     ELSE UNCHANGED <<logs, delivered>>
  /\ UNCHANGED <<up, again, ctx, pc, watched, evt, mapping, tableVars, histVars,
                 procVars>>

(* A reorganisation: the node announces that a log was removed, or that it  *)
(* is back; chainsub looks at neither mark and sees the same log again.     *)
DeliverAgain(i) ==
  /\ up
  /\ i <= head
  /\ Chain[i].from \in watched
  /\ again < MaxAgain
  /\ again' = again + 1
  /\ logs' = Append(logs, i)
  /\ delivered' = delivered \cup {i}
  /\ UNCHANGED <<head, up, ctx, pc, watched, evt, mapping, tableVars, histVars,
                 procVars>>

Disconnect ==
  /\ up
  /\ up' = FALSE
  /\ UNCHANGED <<head, delivered, again, ctx, sessVars, tableVars, histVars,
                 procVars>>

(* App.Stop calls cancelRuntime.                                            *)
Cancel ==
  /\ ~ctx
  /\ pc # "boot"
  /\ ctx' = TRUE
  /\ UNCHANGED <<nodeVars, sessVars, tableVars, histVars, procVars>>

(* The process dies, or has stopped, and is started again: the table is all *)
(* that remains.                                                            *)
Restart ==
  /\ restarts < MaxRestarts
  /\ restarts' = restarts + 1
  /\ ctx' = FALSE
  /\ pc' = "boot"
  /\ up' = FALSE
  /\ watched' = {}
  /\ logs' = <<>>
  /\ evt' = 0
  /\ cut' = cut \cup InLogs \cup ({evt} \ {0})
  /\ mapping' = Seeds
  /\ metrics' = NewRegistry
  /\ base' = Len(pubs)
  /\ UNCHANGED <<head, delivered, again, tableVars, pubs, failed>>

-----------------------------------------------------------------------------
(* Steps of the goroutine.  Whether a dial or an insert succeeds is not its *)
(* choice, but each of them returns.                                        *)
Run ==
  \/ \E a \in Aggregators : BootSeed(a)
  \/ BootDone
  \/ SessionStarts \/ DialFails \/ Reconnect \/ SessionEnds \/ StopRun
  \/ Take \/ InsertNew \/ InsertDuplicate \/ InsertFails \/ Publish

Environment ==
  \/ Emit
  \/ \E i \in Position : DeliverAgain(i)
  \/ Disconnect \/ Cancel \/ Restart

(* A stopped process that nobody starts again, at the end of Chain.         *)
Finished ==
  /\ pc = "stopped"
  /\ head = Len(Chain)
  /\ UNCHANGED vars

Next == Run \/ Environment \/ Finished

Spec == Init /\ [][Next]_vars /\ WF_vars(Run)

-----------------------------------------------------------------------------
(* Properties.                                                              *)

(* Type correctness of the observer's state.                                *)
TypeOK ==
  /\ head \in 0..Len(Chain)
  /\ up \in BOOLEAN
  /\ ctx \in BOOLEAN
  /\ pc \in {"boot", "dial", "live", "insert", "publish", "backoff", "stopped"}
  /\ watched \in SUBSET Address
  /\ logs \in Seq(Position)
  /\ evt \in Position \cup {0}
  /\ mapping \in [Address -> Assets \cup {NoAsset}]
  /\ seeded \in SUBSET Configured
  /\ rows \in SUBSET Position
  /\ assetID \in [Position -> Assets \cup {NoAsset}]
  /\ pubs \in Seq(Position)
  /\ delivered \in SUBSET Position
  /\ failed \in SUBSET Position
  /\ cut \in SUBSET Position
  /\ again \in 0..MaxAgain
  /\ restarts \in 0..MaxRestarts
  /\ metrics \in [seen : [EventKind -> Nat], decodeErrors : Nat]
  /\ base \in 0..Len(pubs)

(* Every price row carries the asset of its aggregator: the filter of a     *)
(* session never lets in a log of an aggregator the mapping does not hold,  *)
(* though the mapping grows meanwhile and restarts from the configuration.  *)
TrueAsset(a) ==
  IF Seeds[a] # NoAsset THEN {Seeds[a]}
  ELSE {Chain[i].asset : i \in {j \in Position : Registered(j) /\ Chain[j].agg = a}}

PricesResolved ==
  \A i \in rows : Price(i) => assetID[i] \in TrueAsset(Chain[i].from)

(* A log a session was given and understands is in the table, on its way    *)
(* there, or lost for one of the two reasons the code has: its insert       *)
(* returned an error, or its session ended (or the process died) before it  *)
(* was inserted.                                                            *)
NoneSkipped ==
  \A i \in delivered :
    Known(i) => i \in rows \cup InLogs \cup {evt} \cup failed \cup cut

(* What is in the table was handed to the live subscribers, or is about to  *)
(* be, unless its insert returned an error although it wrote the row, or    *)
(* the process died between the two (or threw away a copy of the log): a    *)
(* cancel, a lost connection or a redelivery between them costs nothing.    *)
Announced == {pubs[n] : n \in 1..Len(pubs)}

StoredAnnounced ==
  \A i \in rows :
    \/ i \in Announced \cup failed \cup cut
    \/ pc = "publish" /\ i = evt

(* An aggregator the observer resolves is one the API lists: there is an    *)
(* AssetRegistered row for it, unless the insert of that row is still to    *)
(* come or returned an error.                                               *)
ListedAggregators ==
  pc # "boot" =>
    \A a \in Aggregators : mapping[a] # NoAsset =>
      \/ a \in seeded
      \/ \E i \in rows \cup {evt} \cup failed :
           i # 0 /\ Registered(i) /\ Chain[i].agg = a

(* Rows enter the table in chain order as long as the node delivers each    *)
(* log once: what the replay of StreamEvents takes for granted.             *)
OrderedIngest ==
  [][again' = 0 => \A i \in rows' \ rows : \A j \in rows : j < i]_vars

(* The metric counts "Events persisted-and-published, by kind"              *)
(* (metrics.go:36): those of this process, each once, however often its log *)
(* is delivered; the one about to be published is counted already.          *)
Published(k) == {n \in base + 1..Len(pubs) : Chain[pubs[n]].kind = k}

CountsPublished ==
  \A k \in EventKind :
    metrics.seen[k] =
      Cardinality(Published(k)) + (IF pc = "publish" /\ Chain[evt].kind = k THEN 1 ELSE 0)

(* Ingest implements EventLedger: a log is published at most once, right    *)
(* after its row was written, whatever is delivered again, lost, cancelled  *)
(* or restarted.                                                            *)
Ledger == INSTANCE EventLedger
            WITH Events <- Position,
                 ingest <- IF pc = "publish" THEN evt ELSE 0

ImplementsLedger == Ledger!LedgerSpec

(* Every log that waits in a session's channel is eventually stored, or its *)
(* insert fails, or its session ends.                                       *)
ChannelDrained ==
  \A i \in Position :
    i \in InLogs /\ Known(i) ~> i \in rows \cup failed \cup cut

(* A cancelled Run returns, whatever the node and the database do.          *)
RunStops == ctx ~> pc = "stopped" \/ ~ctx

(* "persists every observed event" (README.md:6): a log that was taken from *)
(* the channel, and not discarded with its session, is in the table or      *)
(* still being ingested.                                                    *)
PersistsEveryObserved ==
  \A i \in delivered :
    Known(i) => i \in rows \cup InLogs \cup {evt} \cup cut
=============================================================================
