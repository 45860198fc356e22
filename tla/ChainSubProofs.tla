---------------------------- MODULE ChainSubProofs ----------------------------
(***************************************************************************)
(* Proofs about ChainSub for every chain, configuration, set of            *)
(* aggregators, and number of redeliveries and restarts.                   *)
(***************************************************************************)
EXTENDS ChainSub, SequenceTheorems, FiniteSetTheorems, TLAPS

(* Every step of ChainSub is one of its actions, or leaves vars alone.      *)
LEMMA StepCases ==
  ASSUME [Next]_vars
  PROVE  \/ \E a \in Aggregators : BootSeed(a)
         \/ BootDone
         \/ SessionStarts
         \/ DialFails \/ Reconnect
         \/ SessionEnds \/ StopRun
         \/ Take
         \/ InsertNew \/ InsertDuplicate \/ InsertFails
         \/ Publish
         \/ Emit
         \/ \E i \in Position : DeliverAgain(i)
         \/ Disconnect \/ Cancel
         \/ Restart
         \/ UNCHANGED vars
  BY DEF Next, Run, Environment, Finished

(* What the channel holds after a log was added to it, and after one was    *)
(* taken from it.                                                           *)
LEMMA ChannelAppend ==
  ASSUME NEW i \in Position, logs \in Seq(Position), logs' = Append(logs, i)
  PROVE  logs' \in Seq(Position) /\ InLogs' = InLogs \cup {i}
<1>1. /\ logs' \in Seq(Position)
      /\ Len(logs') = Len(logs) + 1
      /\ \A k \in 1..Len(logs) : logs'[k] = logs[k]
      /\ logs'[Len(logs) + 1] = i
  BY AppendProperties
<1>2. Len(logs) \in Nat
  BY LenProperties
<1>3. 1..Len(logs') = (1..Len(logs)) \cup {Len(logs) + 1}
  BY <1>1, <1>2
<1> QED
  BY <1>1, <1>3 DEF InLogs

LEMMA ChannelTake ==
  ASSUME logs \in Seq(Position), logs # <<>>, logs' = Tail(logs)
  PROVE  /\ logs' \in Seq(Position)
         /\ Head(logs) \in Position
         /\ InLogs = InLogs' \cup {Head(logs)}
<1>1. /\ logs' \in Seq(Position)
      /\ Head(logs) \in Position
      /\ Head(logs) = logs[1]
      /\ Len(logs') = Len(logs) - 1
      /\ \A k \in 1..Len(logs') : logs'[k] = logs[k + 1]
  BY HeadTailProperties
<1>2. Len(logs) \in Nat /\ Len(logs) >= 1
  BY LenProperties, EmptySeq
<1>3. \A k \in 1..Len(logs) : k = 1 \/ (k - 1 \in 1..Len(logs') /\ logs'[k - 1] = logs[k])
  BY <1>1, <1>2
<1>4. \A k \in 1..Len(logs') : k + 1 \in 1..Len(logs) /\ logs[k + 1] = logs'[k]
  BY <1>1, <1>2
<1>5. 1 \in 1..Len(logs)
  BY <1>2
<1>6. InLogs \subseteq InLogs' \cup {Head(logs)}
  <2> SUFFICES ASSUME NEW k \in 1..Len(logs)
               PROVE  logs[k] = Head(logs) \/ logs[k] \in InLogs'
    BY DEF InLogs
  <2>1. CASE k = 1
    BY <1>1, <2>1
  <2>2. CASE k # 1
    BY <1>3, <2>2 DEF InLogs
  <2> QED
    BY <2>1, <2>2
<1>7. InLogs' \cup {Head(logs)} \subseteq InLogs
  BY <1>1, <1>4, <1>5 DEF InLogs
<1> QED
  BY <1>1, <1>6, <1>7

LEMMA ChannelCleared ==
  ASSUME logs' = <<>>
  PROVE  logs' \in Seq(Position) /\ InLogs' = {}
  BY EmptySeq DEF InLogs

LEMMA InLogsPosition == logs \in Seq(Position) => InLogs \subseteq Position
<1> SUFFICES ASSUME logs \in Seq(Position) PROVE InLogs \subseteq Position
  OBVIOUS
<1> QED
  BY ElementOfSeq DEF InLogs

(* A channel that did not change holds what it held.                        *)
LEMMA ChannelSame == logs' = logs => InLogs' = InLogs
  BY DEF InLogs
-----------------------------------------------------------------------------
LEMMA InitTypeOK == Init => TypeOK
<1> SUFFICES ASSUME Init PROVE TypeOK
  OBVIOUS
<1>1. Len(Chain) \in Nat
  BY ChainAssumption, LenProperties
<1>2. logs \in Seq(Position) /\ pubs \in Seq(Position) /\ Len(pubs) = 0
  BY EmptySeq DEF Init
<1>3. mapping \in [Address -> Assets \cup {NoAsset}]
  BY ChainAssumption DEF Init
<1>4. metrics \in [seen : [EventKind -> Nat], decodeErrors : Nat]
  BY DEF Init, NewRegistry
<1>5. 0 \in 0..Len(pubs) /\ 0 \in 0..Len(Chain)
  BY <1>1, <1>2
<1>6. 0 \in 0..MaxAgain /\ 0 \in 0..MaxRestarts
  BY ChainAssumption
<1> QED
  BY <1>2, <1>3, <1>4, <1>5, <1>6 DEF Init, TypeOK

(* The log being ingested is one that Parse accepts, and there is one       *)
(* exactly while it is inserted and published; it is published only after   *)
(* it was written.                                                          *)
Ingesting ==
  /\ pc \in {"insert", "publish"} => evt \in Position /\ Known(evt)
  /\ pc \notin {"insert", "publish"} => evt = 0
  /\ pc = "publish" => evt \in rows

LEMMA LogTypes ==
  ASSUME NEW i \in Position
  PROVE  /\ Chain[i].from \in Address
         /\ Chain[i].agg \in Aggregators /\ Chain[i].agg \in Address
         /\ Chain[i].asset \in Assets
<1>1. Chain[i] \in Log
  BY ChainAssumption, ElementOfSeq DEF Position
<1> QED
  BY <1>1 DEF Log, Address

LEMMA ResolveType ==
  ASSUME TypeOK, NEW i \in Position
  PROVE  Resolve(i) \in Assets \cup {NoAsset}
  BY LogTypes DEF TypeOK, Resolve

LEMMA WriteRowType ==
  ASSUME TypeOK, evt \in Position, WriteRow
  PROVE  /\ rows' \in SUBSET Position /\ seeded' = seeded
         /\ assetID' \in [Position -> Assets \cup {NoAsset}]
<1>1. Resolve(evt) \in Assets \cup {NoAsset}
  BY ResolveType
<1> QED
  BY <1>1 DEF TypeOK, WriteRow

LEMMA EndSessionType ==
  ASSUME TypeOK, EndSession
  PROVE  /\ up' \in BOOLEAN /\ watched' \in SUBSET Address
         /\ logs' \in Seq(Position) /\ cut' \in SUBSET Position
  BY ChannelCleared, InLogsPosition DEF TypeOK, EndSession

LEMMA CounterTypes ==
  ASSUME TypeOK, NEW i \in Position
  PROVE  /\ ObserveSeen(i) \in [seen : [EventKind -> Nat], decodeErrors : Nat]
         /\ ObserveDecodeError \in [seen : [EventKind -> Nat], decodeErrors : Nat]
<1> DEFINE k == Chain[i].kind
<1>1. /\ metrics \in [seen : [EventKind -> Nat], decodeErrors : Nat]
      /\ metrics.seen \in [EventKind -> Nat] /\ metrics.decodeErrors \in Nat
  BY DEF TypeOK
<1>2. [metrics.seen EXCEPT ![k] = @ + 1] \in [EventKind -> Nat]
  <2>1. ASSUME NEW f \in [EventKind -> Nat] PROVE [f EXCEPT ![k] = @ + 1] \in [EventKind -> Nat]
    <3>1. CASE k \in EventKind
      <4>1. f[k] + 1 \in Nat
        BY <3>1
      <4> QED
        BY <4>1
    <3>2. CASE k \notin EventKind
      BY <3>2
    <3> QED
      BY <3>1, <3>2
  <2> QED
    BY <1>1, <2>1
<1>3. ObserveSeen(i) = [metrics EXCEPT !.seen = [metrics.seen EXCEPT ![k] = @ + 1]]
  BY DEF ObserveSeen
<1> QED
  BY <1>1, <1>2, <1>3 DEF ObserveDecodeError

LEMMA SessionTypeOK ==
  ASSUME TypeOK,
         \/ \E a \in Aggregators : BootSeed(a)
         \/ BootDone \/ SessionStarts \/ DialFails \/ Reconnect
         \/ SessionEnds \/ StopRun
  PROVE  TypeOK'
<1> USE DEF nodeVars, sessVars, tableVars, histVars, procVars
<1>1. ASSUME NEW a \in Aggregators, BootSeed(a) PROVE TypeOK'
  BY <1>1 DEF BootSeed, TypeOK
<1>2. CASE BootDone
  BY <1>2 DEF BootDone, TypeOK
<1>3. CASE SessionStarts
  <2>1. watched' \in SUBSET Address
    BY <1>3 DEF SessionStarts, SubscribedAddresses, Address
  <2> QED
    BY <1>3, <2>1 DEF SessionStarts, TypeOK
<1>4. CASE DialFails
  BY <1>4 DEF DialFails, TypeOK
<1>5. CASE Reconnect
  BY <1>5 DEF Reconnect, TypeOK
<1>6. CASE SessionEnds
  BY <1>6, EndSessionType DEF SessionEnds, TypeOK
<1>7. CASE StopRun
  BY <1>7, EndSessionType DEF StopRun, TypeOK
<1> QED
  BY <1>1, <1>2, <1>3, <1>4, <1>5, <1>6, <1>7

LEMMA IngestTypeOK ==
  ASSUME TypeOK, Ingesting,
         Take \/ InsertNew \/ InsertDuplicate \/ InsertFails \/ Publish
  PROVE  TypeOK'
<1> USE DEF nodeVars, sessVars, tableVars, histVars, procVars
<1>1. CASE Take
  <2> DEFINE i == Head(logs)
  <2>1. i \in Position /\ logs' \in Seq(Position)
    BY <1>1, ChannelTake DEF Take, TypeOK
  <2>2. evt' \in Position \cup {0} /\ pc' \in {"insert", "live"}
    BY <1>1, <2>1 DEF Take, TakeLog
  <2>3. mapping' \in [Address -> Assets \cup {NoAsset}]
    BY <1>1, <2>1, LogTypes DEF Take, TakeLog, RecordAggregator, TypeOK
  <2>4. metrics' \in [seen : [EventKind -> Nat], decodeErrors : Nat]
    <3>1. metrics' = ObserveDecodeError \/ metrics' = metrics
      BY <1>1 DEF Take, TakeLog
    <3> QED
      BY <2>1, <3>1, CounterTypes DEF TypeOK
  <2> QED
    BY <1>1, <2>1, <2>2, <2>3, <2>4 DEF Take, TakeLog, TypeOK
<1>2. CASE InsertNew
  <2>1. evt \in Position
    BY <1>2 DEF InsertNew, Ingesting
  <2>2. metrics' \in [seen : [EventKind -> Nat], decodeErrors : Nat]
    BY <1>2, <2>1, CounterTypes DEF InsertNew
  <2> QED
    BY <1>2, <2>1, <2>2, WriteRowType DEF InsertNew, TypeOK
<1>3. CASE InsertDuplicate
  BY <1>3 DEF InsertDuplicate, TypeOK
<1>4. CASE InsertFails
  <2>1. evt \in Position
    BY <1>4 DEF InsertFails, Ingesting
  <2>2. /\ rows' \in SUBSET Position /\ seeded' \in SUBSET Configured
        /\ assetID' \in [Position -> Assets \cup {NoAsset}]
    BY <1>4, <2>1, WriteRowType DEF InsertFails, TypeOK
  <2>3. /\ up' \in BOOLEAN /\ watched' \in SUBSET Address
        /\ logs' \in Seq(Position) /\ cut' \in SUBSET Position
    BY <1>4, EndSessionType DEF InsertFails, TypeOK
  <2> QED
    BY <1>4, <2>1, <2>2, <2>3 DEF InsertFails, TypeOK
<1>5. CASE Publish
  <2>1. evt \in Position
    BY <1>5 DEF Publish, Ingesting
  <2>2. /\ pubs' \in Seq(Position) /\ Len(pubs') = Len(pubs) + 1
        /\ Len(pubs) \in Nat
    BY <1>5, <2>1, AppendProperties, LenProperties DEF Publish, TypeOK
  <2>3. base' \in 0..Len(pubs')
    BY <1>5, <2>2 DEF Publish, TypeOK
  <2> QED
    BY <1>5, <2>2, <2>3 DEF Publish, TypeOK
<1> QED
  BY <1>1, <1>2, <1>3, <1>4, <1>5

LEMMA EnvironmentTypeOK ==
  ASSUME TypeOK,
         \/ Emit
         \/ \E i \in Position : DeliverAgain(i)
         \/ Disconnect \/ Cancel \/ Restart
  PROVE  TypeOK'
<1> USE DEF nodeVars, sessVars, tableVars, histVars, procVars
<1>1. CASE Emit
  <2>1. head + 1 \in Position /\ head' \in 0..Len(Chain)
    <3>1. Len(Chain) \in Nat
      BY ChainAssumption, LenProperties
    <3> QED
      BY <1>1, <3>1 DEF Emit, TypeOK, Position
  <2>2. logs' \in Seq(Position) /\ delivered' \in SUBSET Position
    BY <1>1, <2>1, ChannelAppend DEF Emit, TypeOK
  <2> QED
    BY <1>1, <2>1, <2>2 DEF Emit, TypeOK
<1>2. ASSUME NEW i \in Position, DeliverAgain(i) PROVE TypeOK'
  <2>1. logs' \in Seq(Position) /\ delivered' \in SUBSET Position
    BY <1>2, ChannelAppend DEF DeliverAgain, TypeOK
  <2>2. again' \in 0..MaxAgain
    BY <1>2, ChainAssumption DEF DeliverAgain, TypeOK
  <2> QED
    BY <1>2, <2>1, <2>2 DEF DeliverAgain, TypeOK
<1>3. CASE Disconnect
  BY <1>3 DEF Disconnect, TypeOK
<1>4. CASE Cancel
  BY <1>4 DEF Cancel, TypeOK
<1>5. CASE Restart
  <2>1. logs' \in Seq(Position) /\ cut' \in SUBSET Position
    BY <1>5, ChannelCleared, InLogsPosition DEF Restart, TypeOK
  <2>2. mapping' \in [Address -> Assets \cup {NoAsset}]
    BY <1>5, ChainAssumption DEF Restart
  <2>3. metrics' \in [seen : [EventKind -> Nat], decodeErrors : Nat]
    BY <1>5 DEF Restart, NewRegistry
  <2>4. base' \in 0..Len(pubs')
    BY <1>5, LenProperties DEF Restart, TypeOK
  <2>5. restarts' \in 0..MaxRestarts
    BY <1>5, ChainAssumption DEF Restart, TypeOK
  <2> QED
    BY <1>5, <2>1, <2>2, <2>3, <2>4, <2>5 DEF Restart, TypeOK
<1> QED
  BY <1>1, <1>2, <1>3, <1>4, <1>5

LEMMA StepTypeOK ==
  ASSUME TypeOK, Ingesting, [Next]_vars
  PROVE  TypeOK'
<1>1. CASE UNCHANGED vars
  BY <1>1 DEF TypeOK, vars, nodeVars, sessVars, tableVars, histVars, procVars
<1> QED
  BY <1>1, StepCases, SessionTypeOK, IngestTypeOK, EnvironmentTypeOK

LEMMA StepIngesting ==
  ASSUME TypeOK, Ingesting, [Next]_vars
  PROVE  Ingesting'
<1> USE DEF nodeVars, sessVars, tableVars, histVars, procVars, Ingesting
<1>1. ASSUME NEW a \in Aggregators, BootSeed(a) PROVE Ingesting'
  BY <1>1 DEF BootSeed
<1>2. CASE BootDone
  BY <1>2 DEF BootDone
<1>3. CASE SessionStarts \/ DialFails \/ Reconnect
  BY <1>3 DEF SessionStarts, DialFails, Reconnect
<1>4. CASE SessionEnds \/ StopRun
  BY <1>4 DEF SessionEnds, StopRun
<1>5. CASE Take
  <2>1. Head(logs) \in Position
    BY <1>5, ChannelTake DEF Take, TypeOK
  <2> QED
    BY <1>5, <2>1 DEF Take, TakeLog
<1>6. CASE InsertNew
  BY <1>6 DEF InsertNew, WriteRow
<1>7. CASE InsertDuplicate \/ InsertFails \/ Publish
  BY <1>7 DEF InsertDuplicate, InsertFails, Publish
<1>8. CASE Emit
  BY <1>8 DEF Emit
<1>9. ASSUME NEW i \in Position, DeliverAgain(i) PROVE Ingesting'
  BY <1>9 DEF DeliverAgain
<1>10. CASE Disconnect \/ Cancel \/ Restart
  BY <1>10 DEF Disconnect, Cancel, Restart
<1>11. CASE UNCHANGED vars
  BY <1>11 DEF vars
<1> QED
  BY <1>1, <1>2, <1>3, <1>4, <1>5, <1>6, <1>7, <1>8, <1>9, <1>10, <1>11, StepCases

(* Type correctness, and that an insert or a publish always has its log.    *)
THEOREM TypeCorrect == Spec => [](TypeOK /\ Ingesting)
<1>1. Init => TypeOK /\ Ingesting
  BY InitTypeOK DEF Init, Ingesting
<1>2. TypeOK /\ Ingesting /\ [Next]_vars => (TypeOK /\ Ingesting)'
  BY StepTypeOK, StepIngesting
<1> QED
  BY <1>1, <1>2, PTL DEF Spec
-----------------------------------------------------------------------------
(* Nothing is skipped: what leaves the channel is the log being ingested,   *)
(* or is cut off; what leaves ingest is in the table, or failed, or cut.    *)

LEMMA StepNoneSkipped ==
  ASSUME TypeOK, Ingesting, NoneSkipped, [Next]_vars
  PROVE  NoneSkipped'
<1> USE DEF nodeVars, sessVars, tableVars, histVars, procVars, NoneSkipped
<1>1. ASSUME NEW a \in Aggregators, BootSeed(a) PROVE NoneSkipped'
  BY <1>1, ChannelSame DEF BootSeed
<1>2. CASE BootDone
  BY <1>2, ChannelSame DEF BootDone
<1>3. CASE SessionStarts
  BY <1>3, ChannelSame DEF SessionStarts
<1>4. CASE DialFails \/ Reconnect
  BY <1>4, ChannelSame DEF DialFails, Reconnect
<1>5. CASE SessionEnds \/ StopRun
  BY <1>5 DEF SessionEnds, StopRun, EndSession
<1>6. CASE Take
  <2>1. InLogs = InLogs' \cup {Head(logs)}
    BY <1>6, ChannelTake DEF Take, TypeOK
  <2>2. evt = 0 /\ (Known(Head(logs)) => evt' = Head(logs))
    BY <1>6 DEF Take, TakeLog, Ingesting
  <2>3. UNCHANGED <<delivered, rows, failed, cut>>
    BY <1>6 DEF Take, TakeLog
  <2>4. \A i \in delivered : i # 0
    BY DEF TypeOK, Position
  <2> QED
    BY <2>1, <2>2, <2>3, <2>4
<1>7. CASE InsertNew
  BY <1>7, ChannelSame DEF InsertNew, WriteRow
<1>8. CASE InsertDuplicate
  BY <1>8, ChannelSame DEF InsertDuplicate
<1>9. CASE InsertFails
  <2>1. /\ InLogs \subseteq InLogs' \cup cut' /\ cut \subseteq cut'
        /\ rows \subseteq rows' /\ failed' = failed \cup {evt}
        /\ delivered' = delivered
    BY <1>9, ChannelSame DEF InsertFails, WriteRow, EndSession
  <2> QED
    BY <2>1
<1>10. CASE Publish
  BY <1>10, ChannelSame DEF Publish, Ingesting
<1>11. CASE Emit
  <2>1. head + 1 \in Position
    <3>1. Len(Chain) \in Nat
      BY ChainAssumption, LenProperties
    <3> QED
      BY <1>11, <3>1 DEF Emit, TypeOK, Position
  <2>2. \/ InLogs' = InLogs \cup {head + 1} /\ delivered' = delivered \cup {head + 1}
        \/ InLogs' = InLogs /\ delivered' = delivered
    BY <1>11, <2>1, ChannelAppend, ChannelSame DEF Emit, TypeOK
  <2> QED
    BY <1>11, <2>2 DEF Emit
<1>12. ASSUME NEW i \in Position, DeliverAgain(i) PROVE NoneSkipped'
  <2>1. InLogs' = InLogs \cup {i} /\ delivered' = delivered \cup {i}
    BY <1>12, ChannelAppend DEF DeliverAgain, TypeOK
  <2> QED
    BY <1>12, <2>1 DEF DeliverAgain
<1>13. CASE Disconnect \/ Cancel
  BY <1>13, ChannelSame DEF Disconnect, Cancel
<1>14. CASE Restart
  <2>1. /\ InLogs \cup ({evt} \ {0}) \cup cut = cut'
        /\ UNCHANGED <<delivered, rows, failed>>
    BY <1>14 DEF Restart
  <2>2. \A i \in delivered : i # 0
    BY DEF TypeOK, Position
  <2> QED
    BY <2>1, <2>2
<1>15. CASE UNCHANGED vars
  BY <1>15, ChannelSame DEF vars
<1> QED
  BY <1>1, <1>2, <1>3, <1>4, <1>5, <1>6, <1>7, <1>8, <1>9, <1>10, <1>11, <1>12,
     <1>13, <1>14, <1>15, StepCases

(* A log a session was given and understands is stored, under way, or lost  *)
(* for one of the two reasons the code has: ingest and runSession           *)
(* (subscriber.go) lose no other.                                           *)
THEOREM NothingSkipped == Spec => []NoneSkipped
<1>1. Init => NoneSkipped
  BY DEF Init, NoneSkipped
<1>2. TypeOK /\ Ingesting /\ NoneSkipped /\ [Next]_vars => NoneSkipped'
  BY StepNoneSkipped
<1> QED
  BY <1>1, <1>2, TypeCorrect, PTL DEF Spec

-----------------------------------------------------------------------------
(* What is stored is announced.                                             *)

LEMMA AnnouncedSame == pubs' = pubs => Announced' = Announced
  BY DEF Announced

LEMMA StepStoredAnnounced ==
  ASSUME TypeOK, Ingesting, StoredAnnounced, [Next]_vars
  PROVE  StoredAnnounced'
<1> USE DEF nodeVars, sessVars, tableVars, histVars, procVars
<1>1. CASE InsertNew
  <2>1. rows' = rows \cup {evt} /\ evt' = evt /\ pc = "insert" /\ pc' = "publish"
        /\ UNCHANGED <<failed, cut>> /\ Announced' = Announced
    BY <1>1, AnnouncedSame DEF InsertNew, WriteRow
  <2> QED
    BY <2>1 DEF StoredAnnounced
<1>2. CASE InsertFails
  <2>1. /\ pc = "insert" /\ rows' \subseteq rows \cup {evt}
        /\ failed' = failed \cup {evt} /\ cut \subseteq cut'
        /\ Announced' = Announced
    BY <1>2, AnnouncedSame DEF InsertFails, WriteRow, EndSession
  <2> QED
    BY <2>1 DEF StoredAnnounced
<1>3. CASE Publish
  <2>1. pubs \in Seq(Position) /\ evt \in Position /\ pubs' = Append(pubs, evt)
    BY <1>3 DEF Publish, TypeOK, Ingesting
  <2>2. Announced \cup {evt} \subseteq Announced'
    <3>1. /\ Len(pubs') = Len(pubs) + 1 /\ Len(pubs) \in Nat
          /\ \A n \in 1..Len(pubs) : pubs'[n] = pubs[n]
          /\ pubs'[Len(pubs) + 1] = evt
      BY <2>1, AppendProperties, LenProperties
    <3>2. \A n \in 1..Len(pubs) : n \in 1..Len(pubs')
      BY <3>1
    <3>3. Len(pubs) + 1 \in 1..Len(pubs')
      BY <3>1
    <3> QED
      BY <3>1, <3>2, <3>3 DEF Announced
  <2>3. UNCHANGED <<rows, failed, cut>>
    BY <1>3 DEF Publish
  <2> QED
    BY <2>2, <2>3 DEF StoredAnnounced
<1>4. CASE Restart
  <2>1. /\ UNCHANGED <<rows, failed>> /\ cut' = cut \cup InLogs \cup ({evt} \ {0})
        /\ Announced' = Announced
    BY <1>4, AnnouncedSame DEF Restart
  <2>2. pc = "publish" => evt # 0
    BY DEF Ingesting, Position
  <2> QED
    BY <2>1, <2>2 DEF StoredAnnounced
<1>5. CASE \/ SessionEnds \/ StopRun \/ Take \/ InsertDuplicate \/ BootDone
           \/ SessionStarts \/ DialFails \/ Reconnect
  <2>1. pc # "publish" /\ UNCHANGED <<rows, failed>> /\ cut \subseteq cut'
        /\ Announced' = Announced
    BY <1>5, AnnouncedSame DEF SessionEnds, StopRun, EndSession, Take, TakeLog,
       InsertDuplicate, BootDone, SessionStarts, DialFails, Reconnect
  <2> QED
    BY <2>1 DEF StoredAnnounced
<1>6. CASE \/ \E a \in Aggregators : BootSeed(a)
           \/ Emit \/ \E i \in Position : DeliverAgain(i)
           \/ Disconnect \/ Cancel \/ UNCHANGED vars
  <2>1. UNCHANGED <<pc, evt, rows, failed, cut>> /\ Announced' = Announced
    BY <1>6, AnnouncedSame DEF BootSeed, Emit, DeliverAgain, Disconnect, Cancel, vars
  <2> QED
    BY <2>1 DEF StoredAnnounced
<1> QED
  BY <1>1, <1>2, <1>3, <1>4, <1>5, <1>6, StepCases

(* A row of a log was handed to Publish, or is about to be, or its insert   *)
(* returned an error, or the log was cut: ingest (subscriber.go) forgets    *)
(* no row between its insert and its Publish.                               *)
THEOREM StoredIsAnnounced == Spec => []StoredAnnounced
<1>1. Init => StoredAnnounced
  BY DEF Init, StoredAnnounced
<1>2. TypeOK /\ Ingesting /\ StoredAnnounced /\ [Next]_vars => StoredAnnounced'
  BY StepStoredAnnounced
<1> QED
  BY <1>1, <1>2, TypeCorrect, PTL DEF Spec

-----------------------------------------------------------------------------
(* The steps of ingest as the abstract ledger's.                            *)

LEMMA LedgerStep ==
  ASSUME TypeOK, Ingesting, [Next]_vars
  PROVE  [Ledger!LedgerNext]_(Ledger!ledger)
<1> USE DEF nodeVars, sessVars, tableVars, histVars, procVars, Ledger!ledger
<1>1. ASSUME NEW a \in Aggregators, BootSeed(a) PROVE UNCHANGED Ledger!ledger
  BY <1>1 DEF BootSeed
<1>2. CASE BootDone \/ SessionStarts \/ DialFails \/ Reconnect
  BY <1>2 DEF BootDone, SessionStarts, DialFails, Reconnect
<1>3. CASE SessionEnds \/ StopRun
  BY <1>3 DEF SessionEnds, StopRun
<1>4. CASE Take
  BY <1>4 DEF Take, TakeLog
<1>5. CASE InsertNew
  <2>1. evt \in Position /\ evt # 0
    BY <1>5 DEF InsertNew, Ingesting, Position
  <2>2. Ledger!Enter(evt)
    BY <1>5, <2>1 DEF InsertNew, WriteRow, Ledger!Enter
  <2> QED
    BY <2>1, <2>2 DEF Ledger!LedgerNext
<1>6. CASE InsertDuplicate
  BY <1>6 DEF InsertDuplicate
<1>7. CASE InsertFails
  <2>1. evt \in Position
    BY <1>7 DEF InsertFails, Ingesting
  <2>2. CASE evt \in rows \/ UNCHANGED tableVars
    BY <1>7, <2>2 DEF InsertFails
  <2>3. CASE evt \notin rows /\ WriteRow
    <3>1. Ledger!Enter(evt)
      BY <1>7, <2>3 DEF InsertFails, WriteRow, Ledger!Enter
    <3> QED
      BY <2>1, <3>1 DEF Ledger!LedgerNext
  <2> QED
    BY <1>7, <2>2, <2>3 DEF InsertFails
<1>8. CASE Publish
  <2>1. evt # 0
    BY <1>8 DEF Publish, Ingesting, Position
  <2>2. Ledger!Announce
    BY <1>8, <2>1 DEF Publish, Ledger!Announce
  <2> QED
    BY <2>2 DEF Ledger!LedgerNext
<1>9. CASE Emit
  BY <1>9 DEF Emit
<1>10. ASSUME NEW i \in Position, DeliverAgain(i) PROVE UNCHANGED Ledger!ledger
  BY <1>10 DEF DeliverAgain
<1>11. CASE Disconnect \/ Cancel
  BY <1>11 DEF Disconnect, Cancel
<1>12. CASE Restart
  <2>1. CASE pc = "publish"
    <3>1. evt # 0
      BY <2>1 DEF Ingesting, Position
    <3>2. Ledger!Forget
      BY <1>12, <2>1, <3>1 DEF Restart, Ledger!Forget
    <3> QED
      BY <3>2 DEF Ledger!LedgerNext
  <2>2. CASE pc # "publish"
    BY <1>12, <2>2 DEF Restart
  <2> QED
    BY <2>1, <2>2
<1>13. CASE UNCHANGED vars
  BY <1>13 DEF vars
<1> QED
  BY <1>1, <1>2, <1>3, <1>4, <1>5, <1>6, <1>7, <1>8, <1>9, <1>10, <1>11, <1>12,
     <1>13, StepCases

(* Whatever is delivered again, lost, cancelled or restarted, a log is      *)
(* published at most once, and only right after its row was written.        *)
THEOREM PublishedOnce == Spec => ImplementsLedger
<1>1. Init => Ledger!LedgerInit
  BY DEF Init, Ledger!LedgerInit
<1>2. TypeOK /\ Ingesting /\ [Next]_vars => [Ledger!LedgerNext]_(Ledger!ledger)
  BY LedgerStep
<1> QED
  BY <1>1, <1>2, TypeCorrect, PTL DEF Spec, ImplementsLedger, Ledger!LedgerSpec
-----------------------------------------------------------------------------
(* Every price row carries the asset of its aggregator.  The mapping knows  *)
(* the aggregator of every address a session watches, and hence of every    *)
(* log that waits or is being ingested: within one process it only grows,   *)
(* and a new process starts with nothing watched.                           *)

Holds(a) == mapping[a] # NoAsset

Resolvable ==
  /\ \A a \in Aggregators : Holds(a) => mapping[a] \in TrueAsset(a)
  /\ \A a \in watched \cap Aggregators : Holds(a)
  /\ \A i \in Position :
       i \in InLogs \cup {evt} /\ Price(i) => Holds(Chain[i].from)

LEMMA PriceFrom ==
  ASSUME NEW i \in Position, Price(i)
  PROVE  Chain[i].from \in Aggregators /\ ~Registered(i)
  BY ChainAssumption DEF Price, Registered

LEMMA SeedIsTrue ==
  ASSUME NEW a \in Aggregators, Seeds[a] # NoAsset
  PROVE  Seeds[a] \in TrueAsset(a)
  BY DEF TrueAsset

LEMMA RegisteredIsTrue ==
  ASSUME NEW i \in Position, Registered(i)
  PROVE  Chain[i].asset \in TrueAsset(Chain[i].agg)
<1>1. Seeds[Chain[i].agg] \in {Chain[i].asset, NoAsset}
  BY ChainAssumption
<1>2. i \in {j \in Position : Registered(j) /\ Chain[j].agg = Chain[i].agg}
  OBVIOUS
<1> QED
  BY <1>1, <1>2 DEF TrueAsset

LEMMA WrittenResolved ==
  ASSUME TypeOK, Ingesting, Resolvable, PricesResolved,
         evt \in Position, evt \notin rows, WriteRow
  PROVE  PricesResolved'
<1> SUFFICES ASSUME NEW i \in rows', Price(i)
             PROVE  assetID'[i] \in TrueAsset(Chain[i].from)
  BY DEF PricesResolved, Price, TrueAsset, Registered
<1>1. CASE i = evt
  <2>1. Chain[i].from \in Aggregators /\ ~Registered(i)
    BY <1>1, PriceFrom
  <2>2. assetID'[i] = mapping[Chain[i].from]
    BY <1>1, <2>1 DEF WriteRow, Resolve, TypeOK
  <2>3. Holds(Chain[i].from)
    BY <1>1 DEF Resolvable
  <2> QED
    BY <2>1, <2>2, <2>3 DEF Resolvable
<1>2. CASE i # evt
  <2>1. i \in rows /\ assetID'[i] = assetID[i]
    BY <1>2 DEF WriteRow, TypeOK
  <2> QED
    BY <2>1 DEF PricesResolved
<1> QED
  BY <1>1, <1>2

LEMMA StepPricesResolved ==
  ASSUME TypeOK, Ingesting, Resolvable, PricesResolved, [Next]_vars
  PROVE  PricesResolved'
<1> USE DEF nodeVars, sessVars, tableVars, histVars, procVars
<1>1. CASE InsertNew
  BY <1>1, WrittenResolved DEF InsertNew, Ingesting
<1>2. CASE InsertFails
  <2>1. CASE evt \notin rows /\ WriteRow
    BY <1>2, <2>1, WrittenResolved DEF InsertFails, Ingesting
  <2>2. CASE UNCHANGED tableVars
    BY <2>2 DEF PricesResolved
  <2> QED
    BY <1>2, <2>1, <2>2 DEF InsertFails
<1>3. CASE UNCHANGED <<rows, assetID>>
  BY <1>3 DEF PricesResolved
<1>4. \/ InsertNew \/ InsertFails \/ UNCHANGED <<rows, assetID>>
  BY StepCases DEF BootSeed, BootDone, SessionStarts, DialFails, Reconnect,
     SessionEnds, StopRun, Take, TakeLog, InsertDuplicate, Publish, Emit,
     DeliverAgain, Disconnect, Cancel, Restart, vars
<1> QED
  BY <1>1, <1>2, <1>3, <1>4

(* The steps that change nothing Resolvable is about, or drop logs.         *)
LEMMA ResolvableKept ==
  ASSUME TypeOK, Resolvable, mapping' = mapping, watched' \subseteq watched,
         InLogs' \subseteq InLogs, evt' \in {evt, 0}
  PROVE  Resolvable'
<1>1. \A a \in Aggregators : Holds(a)' = Holds(a)
  BY DEF Holds
<1>2. (\A a \in Aggregators : Holds(a) => mapping[a] \in TrueAsset(a))'
  BY <1>1 DEF Resolvable, TrueAsset, Registered
<1>3. (\A a \in watched \cap Aggregators : Holds(a))'
  BY <1>1 DEF Resolvable
<1>4. ASSUME NEW i \in Position, i \in InLogs' \cup {evt'}, Price(i)
      PROVE  Holds(Chain[i].from)'
  <2>1. i \in InLogs \cup {evt}
    BY <1>4 DEF Position
  <2> QED
    BY <1>1, <1>4, <2>1, PriceFrom DEF Resolvable
<1> QED
  BY <1>2, <1>3, <1>4 DEF Resolvable, Price

LEMMA StepResolvable ==
  ASSUME TypeOK, Ingesting, Resolvable, [Next]_vars
  PROVE  Resolvable'
<1> USE DEF nodeVars, sessVars, tableVars, histVars, procVars
<1>1. CASE SessionStarts
  <2>1. \A a \in watched' \cap Aggregators : Holds(a)
    BY <1>1, ChainAssumption DEF SessionStarts, SubscribedAddresses, Holds
  <2>2. InLogs' = InLogs /\ UNCHANGED <<mapping, evt>>
    BY <1>1, ChannelSame DEF SessionStarts
  <2> QED
    BY <2>1, <2>2 DEF Resolvable, Holds, TrueAsset
<1>2. CASE Take
  <2> DEFINE h == Head(logs)
  <2>1. h \in Position /\ InLogs = InLogs' \cup {h}
    BY <1>2, ChannelTake DEF Take, TypeOK
  <2>2. evt' \in {h, 0} /\ UNCHANGED watched
    BY <1>2 DEF Take, TakeLog
  <2>3. \A a \in Aggregators :
          \/ mapping'[a] = mapping[a]
          \/ mapping'[a] # NoAsset /\ mapping'[a] \in TrueAsset(a)
    <3>1. CASE Registered(h)
      <4>1. /\ mapping' = [mapping EXCEPT ![Chain[h].agg] = Chain[h].asset]
            /\ Chain[h].asset # NoAsset
        BY <1>2, <2>1, <3>1, LogTypes, ChainAssumption
           DEF Take, TakeLog, RecordAggregator
      <4>2. Chain[h].asset \in TrueAsset(Chain[h].agg)
        BY <2>1, <3>1, RegisteredIsTrue
      <4> QED
        BY <4>1, <4>2 DEF TypeOK, Address
    <3>2. CASE ~Registered(h)
      BY <1>2, <3>2 DEF Take, TakeLog
    <3> QED
      BY <3>1, <3>2
  <2>4. \A a \in Aggregators :
          (Holds(a) => Holds(a)') /\ (Holds(a)' => mapping'[a] \in TrueAsset(a))
    BY <2>3 DEF Holds, Resolvable
  <2>5. \A i \in Position :
          i \in InLogs' \cup {evt'} /\ Price(i) => Holds(Chain[i].from)'
    <3> SUFFICES ASSUME NEW i \in Position, i \in InLogs' \cup {evt'}, Price(i)
                 PROVE  Holds(Chain[i].from)'
      OBVIOUS
    <3>1. i \in InLogs
      BY <2>1, <2>2 DEF Position
    <3>2. Chain[i].from \in Aggregators /\ Holds(Chain[i].from)
      BY <3>1, PriceFrom DEF Resolvable
    <3> QED
      BY <2>4, <3>2
  <2> QED
    BY <2>2, <2>4, <2>5 DEF Resolvable, Holds, TrueAsset, Price, Registered
<1>3. CASE Emit
  <2>1. head + 1 \in Position
    <3>1. Len(Chain) \in Nat
      BY ChainAssumption, LenProperties
    <3> QED
      BY <1>3, <3>1 DEF Emit, TypeOK, Position
  <2>2. \/ InLogs' = InLogs
        \/ InLogs' = InLogs \cup {head + 1} /\ Chain[head + 1].from \in watched
    BY <1>3, <2>1, ChannelAppend, ChannelSame DEF Emit, TypeOK
  <2>3. UNCHANGED <<mapping, watched, evt>>
    BY <1>3 DEF Emit
  <2>4. Price(head + 1) => Chain[head + 1].from \in Aggregators
    BY <2>1, PriceFrom
  <2> QED
    BY <2>1, <2>2, <2>3, <2>4 DEF Resolvable, Holds, TrueAsset
<1>4. ASSUME NEW j \in Position, DeliverAgain(j) PROVE Resolvable'
  <2>1. InLogs' = InLogs \cup {j} /\ Chain[j].from \in watched
    BY <1>4, ChannelAppend DEF DeliverAgain, TypeOK
  <2>2. UNCHANGED <<mapping, watched, evt>>
    BY <1>4 DEF DeliverAgain
  <2>3. Price(j) => Chain[j].from \in Aggregators
    BY PriceFrom
  <2> QED
    BY <2>1, <2>2, <2>3 DEF Resolvable, Holds, TrueAsset
<1>5. CASE Restart
  <2>1. mapping' = Seeds /\ watched' = {} /\ InLogs' = {} /\ evt' = 0
    BY <1>5, ChannelCleared DEF Restart
  <2> QED
    BY <2>1, SeedIsTrue DEF Resolvable, Holds, TrueAsset, Position
<1>6. CASE \/ \E a \in Aggregators : BootSeed(a)
           \/ BootDone \/ DialFails \/ Reconnect
           \/ InsertNew \/ InsertDuplicate \/ Publish
           \/ Disconnect \/ Cancel \/ UNCHANGED vars
  <2>1. UNCHANGED <<mapping, watched, logs>> /\ evt' \in {evt, 0}
    BY <1>6 DEF BootSeed, BootDone, DialFails, Reconnect, InsertNew,
       InsertDuplicate, Publish, Disconnect, Cancel, vars
  <2> QED
    BY <2>1, ResolvableKept, ChannelSame
<1>7. CASE SessionEnds \/ StopRun \/ InsertFails
  <2>1. /\ mapping' = mapping /\ watched' \subseteq watched /\ evt' \in {evt, 0}
        /\ logs' = logs \/ logs' = <<>>
    BY <1>7 DEF SessionEnds, StopRun, InsertFails, EndSession
  <2> QED
    BY <2>1, ResolvableKept, ChannelSame, ChannelCleared
<1> QED
  BY <1>1, <1>2, <1>3, <1>4, <1>5, <1>6, <1>7, StepCases

(* No price row is stored without its asset or with that of another         *)
(* aggregator, though the mapping is rebuilt at every start and extended    *)
(* while logs wait (AssetIDFor, subscribedAddresses, recordAggregator).     *)
THEOREM PricesLabelled == Spec => []PricesResolved
<1>1. Init => Resolvable /\ PricesResolved
  <2> SUFFICES ASSUME Init PROVE Resolvable /\ PricesResolved
    OBVIOUS
  <2>1. mapping = Seeds /\ watched = {} /\ InLogs = {} /\ evt = 0 /\ rows = {}
    BY DEF Init, InLogs
  <2> QED
    BY <2>1, SeedIsTrue DEF Resolvable, Holds, PricesResolved, Position
<1>2. TypeOK /\ Ingesting /\ Resolvable /\ PricesResolved /\ [Next]_vars
        => (Resolvable /\ PricesResolved)'
  BY StepResolvable, StepPricesResolved
<1> QED
  BY <1>1, <1>2, TypeCorrect, PTL DEF Spec
-----------------------------------------------------------------------------
(* The aggregators the observer resolves are listed.  While the table is    *)
(* bootstrapped the mapping is the configuration's; afterwards it grows     *)
(* only with a log that is ingested next, and such a log is never           *)
(* forgotten: it ends up in rows or in failed.                              *)

BootMapping == pc = "boot" => mapping = Seeds

Listed(a) ==
  \/ a \in seeded
  \/ \E i \in rows \cup {evt} \cup failed :
       i # 0 /\ Registered(i) /\ Chain[i].agg = a

LEMMA StepBootMapping ==
  ASSUME BootMapping, [Next]_vars
  PROVE  BootMapping'
<1> USE DEF nodeVars, sessVars, tableVars, histVars, procVars
<1>1. CASE Restart
  BY <1>1 DEF Restart, BootMapping
<1>2. CASE Take
  BY <1>2 DEF Take, TakeLog, BootMapping
<1>3. CASE pc' # "boot"
  BY <1>3 DEF BootMapping
<1>4. CASE pc' = pc /\ mapping' = mapping
  BY <1>4 DEF BootMapping
<1>5. ASSUME \/ BootDone \/ SessionStarts \/ DialFails \/ Reconnect
             \/ SessionEnds \/ StopRun
             \/ InsertNew \/ InsertDuplicate \/ InsertFails \/ Publish
      PROVE  pc' # "boot"
  BY <1>5 DEF BootDone, SessionStarts, DialFails, Reconnect, SessionEnds,
     StopRun, InsertNew, InsertDuplicate, InsertFails, Publish
<1>6. ASSUME \/ \E a \in Aggregators : BootSeed(a)
             \/ Emit \/ \E i \in Position : DeliverAgain(i)
             \/ Disconnect \/ Cancel \/ UNCHANGED vars
      PROVE  pc' = pc /\ mapping' = mapping
  BY <1>6 DEF BootSeed, Emit, DeliverAgain, Disconnect, Cancel, vars
<1> QED
  BY <1>1, <1>2, <1>3, <1>4, <1>5, <1>6, StepCases

(* A log that is being ingested is not forgotten.                           *)
LEMMA IngestRemembers ==
  ASSUME TypeOK, Ingesting, [Next]_vars, ~Restart
  PROVE  /\ seeded \subseteq seeded'
         /\ (rows \cup {evt} \cup failed) \ {0} \subseteq rows' \cup {evt'} \cup failed'
<1> USE DEF nodeVars, sessVars, tableVars, histVars, procVars
<1>1. CASE InsertNew \/ InsertDuplicate \/ InsertFails
  BY <1>1 DEF InsertNew, InsertDuplicate, InsertFails, WriteRow
<1>2. CASE Publish
  BY <1>2 DEF Publish, Ingesting
<1>3. CASE Take
  BY <1>3 DEF Take, TakeLog, Ingesting
<1>4. CASE seeded \subseteq seeded' /\ UNCHANGED <<rows, evt, failed>>
  BY <1>4
<1>5. \/ InsertNew \/ InsertDuplicate \/ InsertFails \/ Publish \/ Take
      \/ seeded \subseteq seeded' /\ UNCHANGED <<rows, evt, failed>>
  BY StepCases DEF BootSeed, BootDone, SessionStarts, DialFails, Reconnect,
     SessionEnds, StopRun, EndSession, Emit, DeliverAgain, Disconnect, Cancel,
     vars
<1> QED
  BY <1>1, <1>2, <1>3, <1>4, <1>5

LEMMA StepListed ==
  ASSUME TypeOK, Ingesting, BootMapping, ListedAggregators, [Next]_vars
  PROVE  ListedAggregators'
<1> USE DEF nodeVars, sessVars, tableVars, histVars, procVars
<1> SUFFICES ASSUME pc' # "boot", NEW a \in Aggregators, mapping'[a] # NoAsset
             PROVE  Listed(a)'
  BY DEF ListedAggregators, Listed, Registered
<1>1. ~Restart
  BY DEF Restart
<1>2. Listed(a) => Listed(a)'
  BY <1>1, IngestRemembers DEF Listed, Registered
<1>3. CASE pc # "boot" /\ mapping' = mapping
  BY <1>2, <1>3 DEF ListedAggregators, Listed
<1>4. CASE BootDone
  <2>1. mapping = Seeds /\ mapping' = mapping /\ Configured \subseteq seeded
    BY <1>4 DEF BootDone, Booted, BootMapping
  <2>2. a \in seeded
    BY <2>1 DEF Configured
  <2> QED
    BY <1>2, <2>2 DEF Listed
<1>5. CASE Take
  <2> DEFINE h == Head(logs)
  <2>1. h \in Position /\ pc # "boot"
    BY <1>5, ChannelTake DEF Take, TypeOK
  <2>2. CASE mapping' = mapping
    BY <1>3, <2>1, <2>2
  <2>3. CASE Registered(h)
    <3>1. /\ mapping' = [mapping EXCEPT ![Chain[h].agg] = Chain[h].asset]
          /\ evt' = h
      <4>1. Known(h)
        BY <2>3, Zenon DEF Known, Parse
      <4> QED
        BY <1>5, <2>3, <4>1 DEF Take, TakeLog, RecordAggregator
    <3>2. CASE a = Chain[h].agg
      <4>1. h # 0
        BY <2>1 DEF Position
      <4> QED
        BY <2>3, <3>1, <3>2, <4>1 DEF Listed, Registered
    <3>3. CASE a # Chain[h].agg
      <4>1. mapping'[a] = mapping[a]
        BY <3>1, <3>3 DEF TypeOK, Address
      <4> QED
        BY <1>2, <2>1, <4>1 DEF ListedAggregators, Listed
    <3> QED
      BY <3>2, <3>3
  <2> QED
    BY <1>5, <2>2, <2>3 DEF Take, TakeLog
<1>6. BootDone \/ Take \/ (pc # "boot" /\ mapping' = mapping)
  BY <1>1, StepCases DEF BootSeed, SessionStarts, DialFails, Reconnect,
     SessionEnds, StopRun, EndSession, InsertNew, InsertDuplicate, InsertFails,
     Publish, Emit, DeliverAgain, Disconnect, Cancel, vars
<1> QED
  BY <1>3, <1>4, <1>5, <1>6

(* The aggregators whose prices the observer resolves are those the API     *)
(* lists, through every restart and failed insert but that of their own     *)
(* AssetRegistered row (App.Init, recordAggregator, ingest).                *)
THEOREM AggregatorsListed == Spec => []ListedAggregators
<1>1. Init => BootMapping /\ ListedAggregators
  BY DEF Init, BootMapping, ListedAggregators
<1>2. /\ TypeOK /\ Ingesting /\ BootMapping /\ ListedAggregators
      /\ [Next]_vars
      => (BootMapping /\ ListedAggregators)'
  BY StepBootMapping, StepListed
<1> QED
  BY <1>1, <1>2, TypeCorrect, PTL DEF Spec
-----------------------------------------------------------------------------
(* While nothing was delivered twice, the stored rows, the log being        *)
(* ingested and the waiting logs are in the order of the chain, none past   *)
(* the last log emitted.                                                    *)

InOrder ==
  /\ \A i \in rows : i <= head
  /\ evt <= head
  /\ pc = "insert" => \A i \in rows : i < evt
  /\ \A k \in 1..Len(logs) :
       /\ logs[k] <= head
       /\ \A i \in rows \cup {evt} : i < logs[k]
       /\ \A l \in 1..Len(logs) : l < k => logs[l] < logs[k]

Chronological == again = 0 => InOrder

LEMMA StepIngestsInOrder ==
  ASSUME TypeOK, Chronological, [Next]_vars, again' = 0
  PROVE  \A i \in rows' \ rows : \A j \in rows : j < i
<1> USE DEF nodeVars, sessVars, tableVars, histVars, procVars
<1>1. CASE InsertNew \/ InsertFails
  BY <1>1 DEF InsertNew, InsertFails, WriteRow, Chronological, InOrder
<1>2. CASE rows' = rows
  BY <1>2
<1>3. InsertNew \/ InsertFails \/ rows' = rows
  BY StepCases DEF BootSeed, BootDone, SessionStarts, DialFails, Reconnect,
     SessionEnds, StopRun, EndSession, Take, TakeLog, InsertDuplicate, Publish,
     Emit, DeliverAgain, Disconnect, Cancel, Restart, vars
<1> QED
  BY <1>1, <1>2, <1>3

(* The steps that take no log from the channel and add none to it.          *)
LEMMA InOrderKept ==
  ASSUME TypeOK, InOrder,
         head' = head, logs' \in {logs, <<>>}, evt' \in {evt, 0},
         rows' \subseteq rows \cup ({evt} \ {0}),
         pc' = "insert" => pc = "insert" /\ UNCHANGED <<evt, rows>>
  PROVE  InOrder'
<1>1. head \in Nat /\ evt \in Nat /\ \A i \in Position : i \in Nat /\ 0 < i
  BY ChainAssumption, LenProperties DEF TypeOK, Position
<1>2. /\ \A i \in rows' : i <= head
      /\ evt' <= head
      /\ pc' = "insert" => \A i \in rows' : i < evt'
  BY <1>1 DEF InOrder
<1>3. CASE logs' = <<>>
  <2>1. Len(logs') = 0
    BY <1>3
  <2> QED
    BY <1>2, <2>1 DEF InOrder
<1>4. CASE logs' = logs
  <2>1. \A k \in 1..Len(logs) : 0 < logs[k]
    <3>1. \A k \in 1..Len(logs) : logs[k] \in Position
      BY ElementOfSeq DEF TypeOK
    <3> QED
      BY <1>1, <3>1
  <2>2. \A k \in 1..Len(logs) : \A i \in rows' \cup {evt'} : i < logs[k]
    BY <2>1 DEF InOrder
  <2> QED
    BY <1>2, <1>4, <2>2 DEF InOrder
<1> QED
  BY <1>3, <1>4

LEMMA EmitInOrder ==
  ASSUME TypeOK, InOrder, Emit
  PROVE  InOrder'
<1> USE DEF sessVars, tableVars
<1>1. head \in Nat /\ evt \in Nat /\ Position \subseteq Nat /\ Len(logs) \in Nat
  BY ChainAssumption, LenProperties DEF TypeOK, Position
<1>2. rows \subseteq Nat
  BY <1>1 DEF TypeOK
<1>3. head' = head + 1 /\ UNCHANGED <<rows, evt, pc>>
  BY DEF Emit
<1>4. \A k \in 1..Len(logs) : logs[k] \in Nat
  BY <1>1, ElementOfSeq DEF TypeOK
<1>5. CASE logs' = logs
  BY <1>1, <1>2, <1>3, <1>4, <1>5 DEF InOrder
<1>6. CASE logs' = Append(logs, head + 1)
  <2>1. head + 1 \in Position
    <3>1. Len(Chain) \in Nat
      BY ChainAssumption, LenProperties
    <3> QED
      BY <3>1 DEF Emit, TypeOK, Position
  <2>2. /\ Len(logs') = Len(logs) + 1
        /\ \A k \in 1..Len(logs) : logs'[k] = logs[k]
        /\ logs'[Len(logs) + 1] = head + 1
    BY <1>6, <2>1, AppendProperties DEF TypeOK
  <2>3. 1..Len(logs') = (1..Len(logs)) \cup {Len(logs) + 1}
    BY <1>1, <2>2
  <2>4. ASSUME NEW k \in 1..Len(logs)
        PROVE  /\ logs'[k] <= head'
               /\ \A i \in rows' \cup {evt'} : i < logs'[k]
               /\ \A l \in 1..Len(logs') : l < k => logs'[l] < logs'[k]
    <3>1. logs'[k] = logs[k] /\ logs[k] \in Nat /\ k \in Nat
      BY <1>1, <1>4, <2>2
    <3>2. /\ logs[k] <= head
          /\ \A i \in rows \cup {evt} : i < logs[k]
          /\ \A l \in 1..Len(logs) : l < k => logs[l] < logs[k]
      BY DEF InOrder
    <3>3. logs'[k] <= head'
      BY <1>1, <1>3, <3>1, <3>2
    <3>4. ASSUME NEW l \in 1..Len(logs'), l < k
          PROVE  l \in 1..Len(logs) /\ logs'[l] = logs[l]
      BY <1>1, <2>2, <3>4
    <3> QED
      BY <1>3, <3>1, <3>2, <3>3, <3>4
  <2>5. /\ logs'[Len(logs) + 1] <= head'
        /\ \A i \in rows' \cup {evt'} : i < logs'[Len(logs) + 1]
        /\ \A l \in 1..Len(logs') :
             l < Len(logs) + 1 => logs'[l] < logs'[Len(logs) + 1]
    BY <1>1, <1>2, <1>3, <1>4, <2>2, <2>3 DEF InOrder
  <2>6. /\ \A i \in rows' : i <= head'
        /\ evt' <= head'
        /\ pc' = "insert" => \A i \in rows' : i < evt'
    BY <1>1, <1>2, <1>3 DEF InOrder
  <2> QED
    BY <2>3, <2>4, <2>5, <2>6 DEF InOrder
<1> QED
  BY <1>5, <1>6 DEF Emit

LEMMA TakeInOrder ==
  ASSUME TypeOK, InOrder, Take
  PROVE  InOrder'
<1> USE DEF nodeVars, tableVars
<1> DEFINE h == Head(logs)
<1>1. /\ head \in Nat /\ rows \subseteq Nat
      /\ \A i \in Position : i \in Nat /\ 0 < i
  BY ChainAssumption, LenProperties DEF TypeOK, Position
<1>2. /\ h \in Position
      /\ h = logs[1]
      /\ Len(logs') = Len(logs) - 1
      /\ \A k \in 1..Len(logs') : logs'[k] = logs[k + 1]
  BY HeadTailProperties DEF Take, TypeOK
<1>3. Len(logs) \in Nat /\ Len(logs) >= 1
  BY LenProperties, EmptySeq DEF Take, TypeOK
<1>4. /\ evt' \in {h, 0} /\ UNCHANGED <<head, rows>>
      /\ pc' = "insert" => evt' = h
  BY DEF Take, TakeLog
<1>5. \A k \in 1..Len(logs') : k \in Nat /\ k + 1 \in 1..Len(logs) /\ 1 < k + 1
  BY <1>2, <1>3
<1>6. \A k \in 1..Len(logs) : logs[k] \in Position
  BY ElementOfSeq DEF TypeOK
<1>7. 1 \in 1..Len(logs)
  BY <1>3
<1>8. /\ h <= head
      /\ \A i \in rows : i < h
      /\ \A k \in 1..Len(logs') : h < logs[k + 1]
  BY <1>2, <1>5, <1>7 DEF InOrder
<1>9. /\ \A i \in rows' : i <= head'
      /\ evt' <= head'
      /\ pc' = "insert" => \A i \in rows' : i < evt'
  BY <1>1, <1>2, <1>4, <1>8 DEF InOrder
<1>10. ASSUME NEW k \in 1..Len(logs')
       PROVE  /\ logs'[k] <= head'
              /\ \A i \in rows' \cup {evt'} : i < logs'[k]
  <2>1. /\ logs'[k] = logs[k + 1] /\ k + 1 \in 1..Len(logs)
        /\ 0 < logs[k + 1]
    BY <1>1, <1>2, <1>5, <1>6
  <2>2. logs[k + 1] <= head /\ \A i \in rows : i < logs[k + 1]
    BY <2>1 DEF InOrder
  <2> QED
    BY <1>4, <1>8, <2>1, <2>2
<1>11. ASSUME NEW k \in 1..Len(logs'), NEW l \in 1..Len(logs'), l < k
       PROVE  logs'[l] < logs'[k]
  <2>1. l + 1 < k + 1
    BY <1>5, <1>11
  <2> QED
    BY <1>2, <1>5, <2>1 DEF InOrder
<1> QED
  BY <1>9, <1>10, <1>11 DEF InOrder

LEMMA StepInOrder ==
  ASSUME TypeOK, Ingesting, Chronological, [Next]_vars
  PROVE  Chronological'
<1> USE DEF nodeVars, sessVars, tableVars, histVars, procVars
<1>1. CASE \E i \in Position : DeliverAgain(i)
  BY <1>1 DEF DeliverAgain, TypeOK, Chronological
<1>2. CASE Emit
  BY <1>2, EmitInOrder DEF Emit, Chronological
<1>3. CASE Take
  BY <1>3, TakeInOrder DEF Take, TakeLog, Chronological
<1>4. CASE InsertNew \/ InsertFails
  <2>1. /\ UNCHANGED <<head, again>> /\ evt' \in {evt, 0}
        /\ logs' \in {logs, <<>>} /\ pc' # "insert"
        /\ rows' \subseteq rows \cup {evt} /\ evt # 0
    BY <1>4 DEF InsertNew, InsertFails, WriteRow, EndSession, Ingesting, Position
  <2> QED
    BY <2>1, InOrderKept DEF Chronological
<1>5. CASE \/ \E a \in Aggregators : BootSeed(a)
           \/ BootDone \/ SessionStarts \/ DialFails \/ Reconnect
           \/ SessionEnds \/ StopRun \/ InsertDuplicate \/ Publish
           \/ Disconnect \/ Cancel \/ Restart \/ UNCHANGED vars
  <2>1. /\ UNCHANGED <<head, again, rows>> /\ evt' \in {evt, 0}
        /\ logs' \in {logs, <<>>}
    BY <1>5 DEF BootSeed, BootDone, SessionStarts, DialFails, Reconnect,
       SessionEnds, StopRun, EndSession, InsertDuplicate, Publish, Disconnect,
       Cancel, Restart, vars
  <2>2. pc' = "insert" => pc = "insert" /\ evt' = evt
    BY <1>5 DEF BootSeed, BootDone, SessionStarts, DialFails, Reconnect,
       SessionEnds, StopRun, InsertDuplicate, Publish, Disconnect,
       Cancel, Restart, vars
  <2> QED
    BY <2>1, <2>2, InOrderKept DEF Chronological
<1> QED
  BY <1>1, <1>2, <1>3, <1>4, <1>5, StepCases

(* As long as the node delivers every log once, rows enter the table in the *)
(* order of the chain: the order StreamEvents replays them in is the order  *)
(* they were stored in, through failed inserts, lost sessions and restarts. *)
THEOREM IngestOrdered == Spec => OrderedIngest
<1>1. Init => Chronological
  <2> SUFFICES ASSUME Init PROVE InOrder
    BY DEF Chronological
  <2>1. head = 0 /\ evt = 0 /\ rows = {} /\ Len(logs) = 0 /\ pc = "boot"
    BY DEF Init
  <2> QED
    BY <2>1 DEF InOrder
<1>2. TypeOK /\ Ingesting /\ Chronological /\ [Next]_vars => Chronological'
  BY StepInOrder
<1>3. TypeOK /\ Chronological /\ [Next]_vars
        => [again' = 0 => \A i \in rows' \ rows : \A j \in rows : j < i]_vars
  BY StepIngestsInOrder
<1> QED
  BY <1>1, <1>2, <1>3, TypeCorrect, PTL DEF Spec, OrderedIngest

-----------------------------------------------------------------------------
(* The counters.                                                            *)

LEMMA PublishedFinite ==
  ASSUME TypeOK, NEW k
  PROVE  IsFiniteSet(Published(k)) /\ Cardinality(Published(k)) \in Nat
<1>1. base + 1 \in Int /\ Len(pubs) \in Int
  BY LenProperties DEF TypeOK
<1>2. IsFiniteSet(base + 1..Len(pubs))
  BY <1>1, FS_Interval
<1> QED
  BY <1>2, FS_Subset, FS_CardinalityType DEF Published

(* A publish adds one to its kind.                                          *)
LEMMA PublishCounts ==
  ASSUME TypeOK, evt \in Position, pubs' = Append(pubs, evt), base' = base,
         NEW k \in EventKind
  PROVE  Cardinality(Published(k)') =
           Cardinality(Published(k)) + (IF Chain[evt].kind = k THEN 1 ELSE 0)
<1> DEFINE n == Len(pubs) + 1
<1>1. /\ Len(pubs) \in Nat /\ base \in 0..Len(pubs)
      /\ Len(pubs') = n /\ pubs'[n] = evt
      /\ \A m \in 1..Len(pubs) : pubs'[m] = pubs[m]
  BY LenProperties, AppendProperties DEF TypeOK
<1>2. base + 1..n = (base + 1..Len(pubs)) \cup {n}
  BY <1>1
<1>3. \A m \in base + 1..Len(pubs) : pubs'[m] = pubs[m]
  BY <1>1
<1>4. n \notin Published(k)
  BY <1>1 DEF Published
<1>5. Published(k)' = {m \in base + 1..n : Chain[pubs'[m]].kind = k}
  BY <1>1 DEF Published
<1> HIDE DEF n
<1>6. Published(k)' = Published(k) \cup (IF Chain[evt].kind = k THEN {n} ELSE {})
  BY <1>1, <1>2, <1>3, <1>5 DEF Published
<1>7. IsFiniteSet(Published(k)) /\ Cardinality(Published(k)) \in Nat
  BY PublishedFinite
<1>8. CASE Chain[evt].kind = k
  <2>1. Published(k)' = Published(k) \cup {n}
    BY <1>6, <1>8
  <2>2. Cardinality(Published(k) \cup {n}) = Cardinality(Published(k)) + 1
    BY <1>4, <1>7, FS_AddElement
  <2> QED
    BY <1>8, <2>1, <2>2
<1>9. CASE Chain[evt].kind # k
  BY <1>6, <1>7, <1>9
<1> QED
  BY <1>8, <1>9

LEMMA StepCounts ==
  ASSUME TypeOK, TypeOK', Ingesting, CountsPublished, [Next]_vars
  PROVE  CountsPublished'
<1> USE DEF nodeVars, sessVars, tableVars, histVars, procVars
<1>1. ASSUME UNCHANGED <<pubs, base, metrics>>,
             \/ pc # "publish" /\ pc' # "publish"
             \/ UNCHANGED <<pc, evt>>
      PROVE  CountsPublished'
  BY <1>1 DEF CountsPublished, Published
<1>2. ASSUME NEW a \in Aggregators, BootSeed(a) PROVE CountsPublished'
  BY <1>1, <1>2 DEF BootSeed
<1>3. CASE BootDone \/ SessionStarts \/ DialFails \/ Reconnect
  BY <1>1, <1>3 DEF BootDone, SessionStarts, DialFails, Reconnect
<1>4. CASE SessionEnds \/ StopRun
  BY <1>1, <1>4 DEF SessionEnds, StopRun
<1>5. CASE Take
  <2>1. /\ pc # "publish" /\ pc' # "publish" /\ UNCHANGED <<pubs, base>>
        /\ metrics' = metrics \/ metrics' = ObserveDecodeError
    BY <1>5 DEF Take, TakeLog
  <2>2. metrics'.seen = metrics.seen
    BY <2>1 DEF TypeOK, ObserveDecodeError
  <2> QED
    BY <2>1, <2>2 DEF CountsPublished, Published
<1>6. CASE InsertNew
  <2>1. /\ pc = "insert" /\ pc' = "publish" /\ UNCHANGED <<pubs, base, evt>>
        /\ metrics' = ObserveSeen(evt)
    BY <1>6 DEF InsertNew
  <2> SUFFICES ASSUME NEW k \in EventKind
               PROVE  metrics'.seen[k] = Cardinality(Published(k)) +
                                         (IF Chain[evt].kind = k THEN 1 ELSE 0)
    BY <2>1 DEF CountsPublished, Published
  <2>2. metrics.seen[k] = Cardinality(Published(k)) /\ Cardinality(Published(k)) \in Nat
    BY <2>1, PublishedFinite DEF CountsPublished
  <2>3. metrics'.seen[k] = metrics.seen[k] + (IF Chain[evt].kind = k THEN 1 ELSE 0)
    <3>1. metrics.seen \in [EventKind -> Nat]
      BY DEF TypeOK
    <3>2. metrics'.seen = [metrics.seen EXCEPT ![Chain[evt].kind] = @ + 1]
      BY <2>1 DEF TypeOK, ObserveSeen
    <3> QED
      BY <3>1, <3>2
  <2> QED
    BY <2>2, <2>3
<1>7. CASE InsertDuplicate \/ InsertFails
  <2>1. pc # "publish" /\ pc' # "publish" /\ UNCHANGED <<pubs, base, metrics>>
    BY <1>7 DEF InsertDuplicate, InsertFails
  <2> QED
    BY <1>1, <2>1
<1>8. CASE Publish
  <2>1. /\ pc = "publish" /\ pc' # "publish" /\ pubs' = Append(pubs, evt)
        /\ UNCHANGED <<base, metrics>> /\ evt \in Position
    BY <1>8 DEF Publish, Ingesting
  <2> SUFFICES ASSUME NEW k \in EventKind
               PROVE  metrics.seen[k] = Cardinality(Published(k)')
    <3>1. \A k \in EventKind : Cardinality(Published(k)') \in Nat
      BY PublishCounts, PublishedFinite, <2>1
    <3> QED
      BY <2>1, <3>1 DEF CountsPublished
  <2> QED
    BY <2>1, PublishCounts DEF CountsPublished
<1>9. CASE Emit \/ Disconnect \/ Cancel
  BY <1>1, <1>9 DEF Emit, Disconnect, Cancel
<1>10. ASSUME NEW i \in Position, DeliverAgain(i) PROVE CountsPublished'
  BY <1>1, <1>10 DEF DeliverAgain
<1>11. CASE Restart
  <2>1. pc' # "publish" /\ metrics' = NewRegistry /\ base' = Len(pubs) /\ pubs' = pubs
    BY <1>11 DEF Restart
  <2>2. \A k : Published(k)' = {}
    <3>1. Len(pubs) \in Nat
      BY LenProperties DEF TypeOK
    <3>2. base' + 1..Len(pubs') = {}
      BY <2>1, <3>1
    <3> QED
      BY <3>2 DEF Published
  <2>3. Cardinality({}) = 0
    BY FS_EmptySet
  <2>4. \A k \in EventKind : metrics'.seen[k] = 0
    BY <2>1 DEF NewRegistry
  <2>5. \A k : Cardinality(Published(k)') = 0
    BY <2>2, <2>3
  <2> SUFFICES ASSUME NEW k \in EventKind
               PROVE  metrics'.seen[k] =
                        Cardinality(Published(k)') +
                        (IF pc' = "publish" /\ Chain[evt'].kind = k THEN 1 ELSE 0)
    BY DEF CountsPublished
  <2> QED
    BY <2>1, <2>4, <2>5
<1>12. CASE UNCHANGED vars
  BY <1>1, <1>12 DEF vars
<1> QED
  BY <1>2, <1>3, <1>4, <1>5, <1>6, <1>7, <1>8, <1>9, <1>10, <1>11, <1>12, StepCases

(* The counters are exact: whatever is redelivered, cancelled or restarted, *)
(* they count each log this process published once, and nothing else.       *)
THEOREM CountersExact == Spec => []CountsPublished
<1>1. Init => CountsPublished
  <2> SUFFICES ASSUME Init PROVE CountsPublished
    OBVIOUS
  <2>1. \A k : Published(k) = {}
    <3>1. base + 1..Len(pubs) = {}
      BY EmptySeq DEF Init
    <3> QED
      BY <3>1 DEF Published
  <2>2. Cardinality({}) = 0
    BY FS_EmptySet
  <2>3. pc # "publish" /\ \A k \in EventKind : metrics.seen[k] = 0
    BY DEF Init, NewRegistry
  <2> QED
    BY <2>1, <2>2, <2>3 DEF CountsPublished
<1>2. TypeOK /\ TypeOK' /\ Ingesting /\ CountsPublished /\ [Next]_vars => CountsPublished'
  BY StepCounts
<1> QED
  BY <1>1, <1>2, TypeCorrect, PTL DEF Spec
=============================================================================
