------------------------------ MODULE StreamHub ------------------------------
(***************************************************************************)
(* The in-process fan-out of internal/streamhub/hub.go.                    *)
(*                                                                         *)
(* Publish copies the registry of subscriptions under the read lock and    *)
(* sends outside it, Cancel and the slow-consumer drop delete under the    *)
(* write lock and close outside it, Subscribe reads the shutdown flag      *)
(* before it takes the lock.  Each such piece is an action of its own, so  *)
(* the goroutines interleave exactly where the code lets them.  A critical *)
(* section that is one short block under h.mu is one action; the loop of   *)
(* Shutdown, which holds the lock while Publish keeps sending outside it,  *)
(* closes one channel per action.                                          *)
(*                                                                         *)
(* Some definitions stand just before one they are a faulty variant of,    *)
(* and are used nowhere: AtCapLate, ReceiveIgnoresOk, CancelDeleteAnyway,  *)
(* PassesKindOnly, SendBlocks, RemoveWithoutClose, ReturnKeepsSlow and     *)
(* ShutdownDelete.  Each is a plausible slip, and put in the place of the  *)
(* definition after it makes a property of this module fail.               *)
(*                                                                         *)
(* The goroutines are the StreamEvents handlers (one per subscription:     *)
(* Subscribe, receive, deferred Cancel), the publishers (chainsub's one    *)
(* goroutine in the program) and the goroutine that calls Shutdown.        *)
(***************************************************************************)
EXTENDS Integers, Sequences, FiniteSets

CONSTANTS
  Subs,        (* subscriptions: one per call of Subscribe, h.nextID        *)
  Publishers,  (* goroutines that call Publish                              *)
  Kinds,       (* event kinds                                               *)
  Assets,      (* asset ids                                                 *)
  NoAsset,     (* Filter.AssetID = nil                                      *)
  Filters,     (* the filters clients ask for                               *)
  BufSize,     (* bufSize argument of New                                   *)
  MaxSubs,     (* h.maxSubs                                                 *)
  MaxEvents    (* bound: calls of Publish in a behaviour                    *)

Event  == [kind : Kinds, asset : Assets]
Filter == [kinds : SUBSET Kinds, asset : Assets \cup {NoAsset}]

ASSUME HubAssumption ==
  /\ IsFiniteSet(Subs)
  /\ Kinds # {} /\ Assets # {}
  /\ NoAsset \notin Assets
  /\ Filters \subseteq Filter
  /\ BufSize \in Int
  /\ MaxSubs \in Nat
  /\ MaxEvents \in Nat

(* New: a buffer below 1 is clamped to 1, so a send never needs a receiver. *)
Capacity == IF BufSize < 1 THEN 1 ELSE BufSize

(* Filter.Matches: no kinds means every kind, a nil asset every asset.      *)
Matches(f, e) ==
  /\ f.kinds # {} => e.kind \in f.kinds
  /\ f.asset # NoAsset => e.asset = f.asset

VARIABLES
  subs,      (* h.subs: the registered subscriptions                        *)
  shutdown,  (* h.shutdown                                                  *)
  spc,       (* goroutine in Shutdown: idle, flagged, sweeping, done        *)
  hpc,       (* handler goroutine of each subscription                      *)
  filter,    (* sub.filter                                                  *)
  chan,      (* sub.ch: numbers of the buffered events                      *)
  closed,    (* sub.ch has been closed                                      *)
  ppc,       (* publisher goroutine: idle, called, sending                  *)
  arg,       (* the event a called publisher was given                      *)
  cur,       (* number of the event a sending publisher holds               *)
  snap,      (* the part of the snapshot still to be served                 *)
  dropped,   (* ids found full, still to be removed                         *)
  pending,   (* the id deleted by remove and not yet closed                 *)
  panic,     (* the runtime panic that killed the process, or "none"        *)
  log,       (* history: the published events, in the order of the snapshots *)
  base,      (* history: Len(log) when the subscription was registered      *)
  accepted,  (* history: numbers of the events the channel accepted         *)
  last       (* history: number of the last event the handler received      *)

hubVars  == <<subs, shutdown, spc>>
subVars  == <<hpc, filter, chan, closed>>
pubVars  == <<ppc, arg, cur, snap, dropped, pending>>
histVars == <<log, base, accepted, last>>
vars     == <<hubVars, subVars, pubVars, panic, histVars>>

Buffered(s) == {chan[s][i] : i \in 1..Len(chan[s])}

(* h.mu is held across actions only by the loop of Shutdown.                *)
LockFree == spc # "sweeping"

(* A panic in any goroutine ends the process.                               *)
Alive == panic = "none"

(* close(ch): closing a closed channel is a run-time panic.                 *)
CloseChannel(s) ==
  IF closed[s]
  THEN panic' = "close of closed channel" /\ UNCHANGED closed
  ELSE closed' = [closed EXCEPT ![s] = TRUE] /\ UNCHANGED panic

Init ==
  /\ subs = {}
  /\ shutdown = FALSE
  /\ spc = "idle"
  /\ hpc = [s \in Subs |-> "idle"]
  /\ filter \in [Subs -> Filters]
  /\ chan = [s \in Subs |-> <<>>]
  /\ closed = [s \in Subs |-> FALSE]
  /\ ppc = [p \in Publishers |-> "idle"]
  /\ arg \in [Publishers -> {CHOOSE e \in Event : TRUE}]
  /\ cur = [p \in Publishers |-> 0]
  /\ snap = [p \in Publishers |-> {}]
  /\ dropped = [p \in Publishers |-> {}]
  /\ pending = [p \in Publishers |-> {}]
  /\ panic = "none"
  /\ log = <<>>
  /\ base = [s \in Subs |-> 0]
  /\ accepted = [s \in Subs |-> {}]
  /\ last = [s \in Subs |-> 0]

-----------------------------------------------------------------------------
(* The handler of a subscription.                                           *)

(* Subscribe reads the shutdown flag before it takes the lock.              *)
SubscribeLoad(s) ==
  /\ Alive
  /\ hpc[s] = "idle"
  /\ hpc' = [hpc EXCEPT ![s] = IF shutdown THEN "rejected" ELSE "loaded"]
  /\ UNCHANGED <<hubVars, filter, chan, closed, pubVars, panic, histVars>>

AtCapLate == Cardinality(subs) > MaxSubs

AtCap == Cardinality(subs) >= MaxSubs

SubscribeInsert(s) ==
  /\ Alive
  /\ hpc[s] = "loaded"
  /\ LockFree
  /\ IF AtCap
     THEN /\ hpc' = [hpc EXCEPT ![s] = "rejected"]
          /\ UNCHANGED <<subs, base>>
     ELSE /\ hpc' = [hpc EXCEPT ![s] = "open"]
          /\ subs' = subs \cup {s}
          /\ base' = [base EXCEPT ![s] = Len(log)]
  /\ UNCHANGED <<shutdown, spc, filter, chan, closed, pubVars, panic,
                 log, accepted, last>>

ReceiveIgnoresOk(s) ==
  /\ Alive
  /\ hpc[s] = "open"
  /\ chan[s] # <<>> \/ closed[s]
  /\ last' = [last EXCEPT ![s] = IF chan[s] = <<>> THEN -1 ELSE Head(chan[s])]
  /\ chan' = [chan EXCEPT ![s] = IF @ = <<>> THEN @ ELSE Tail(@)]
  /\ UNCHANGED <<hubVars, hpc, filter, closed, pubVars, panic, log, base,
                 accepted>>

(* <-sub.Events() yields the oldest buffered event, closed channel or not.  *)
Receive(s) ==
  /\ Alive
  /\ hpc[s] = "open"
  /\ chan[s] # <<>>
  /\ last' = [last EXCEPT ![s] = Head(chan[s])]
  /\ chan' = [chan EXCEPT ![s] = Tail(@)]
  /\ UNCHANGED <<hubVars, hpc, filter, closed, pubVars, panic, log, base,
                 accepted>>

(* <-sub.Events() reports the close only once the buffer is drained.        *)
ReceiveClosed(s) ==
  /\ Alive
  /\ hpc[s] = "open"
  /\ chan[s] = <<>>
  /\ closed[s]
  /\ hpc' = [hpc EXCEPT ![s] = "cancel"]
  /\ UNCHANGED <<hubVars, filter, chan, closed, pubVars, panic, histVars>>

(* The client goes away, or a Send fails: the handler returns.              *)
Leave(s) ==
  /\ Alive
  /\ hpc[s] = "open"
  /\ hpc' = [hpc EXCEPT ![s] = "cancel"]
  /\ UNCHANGED <<hubVars, filter, chan, closed, pubVars, panic, histVars>>

CancelDeleteAnyway(s) ==
  /\ Alive
  /\ hpc[s] = "cancel"
  /\ LockFree
  /\ hpc' = [hpc EXCEPT ![s] = "close"]
  /\ subs' = subs \ {s}
  /\ UNCHANGED <<shutdown, spc, filter, chan, closed, pubVars, panic,
                 histVars>>

(* The deferred Cancel: remove deletes the entry under the lock ...         *)
CancelDelete(s) ==
  /\ Alive
  /\ hpc[s] = "cancel"
  /\ LockFree
  /\ hpc' = [hpc EXCEPT ![s] = IF s \in subs THEN "close" ELSE "done"]
  /\ subs' = subs \ {s}
  /\ UNCHANGED <<shutdown, spc, filter, chan, closed, pubVars, panic,
                 histVars>>

(* ... and closes the channel after it has released it.                     *)
CancelClose(s) ==
  /\ Alive
  /\ hpc[s] = "close"
  /\ CloseChannel(s)
  /\ hpc' = [hpc EXCEPT ![s] = "done"]
  /\ UNCHANGED <<hubVars, filter, chan, pubVars, histVars>>

-----------------------------------------------------------------------------
(* A publisher.                                                             *)

Called == {p \in Publishers : ppc[p] = "called"}

(* Publish returns at once after Shutdown: such a call leaves no trace.     *)
PublishCall(p, e) ==
  /\ Alive
  /\ ppc[p] = "idle"
  /\ ~shutdown
  /\ Len(log) + Cardinality(Called) < MaxEvents
  /\ ppc' = [ppc EXCEPT ![p] = "called"]
  /\ arg' = [arg EXCEPT ![p] = e]
  /\ UNCHANGED <<hubVars, subVars, cur, snap, dropped, pending, panic,
                 histVars>>

PublishSnapshot(p) ==
  /\ Alive
  /\ ppc[p] = "called"
  /\ LockFree
  /\ ppc' = [ppc EXCEPT ![p] = "sending"]
  /\ log' = Append(log, arg[p])
  /\ cur' = [cur EXCEPT ![p] = Len(log) + 1]
  /\ snap' = [snap EXCEPT ![p] = subs]
  /\ UNCHANGED <<hubVars, subVars, arg, dropped, pending, panic, base,
                 accepted, last>>

PassesKindOnly(p, s) ==
  filter[s].kinds # {} => log[cur[p]].kind \in filter[s].kinds

Passes(p, s) == Matches(filter[s], log[cur[p]])

(* A subscription whose filter rejects the event is passed over.            *)
PublishSkip(p, s) ==
  /\ Alive
  /\ ppc[p] = "sending"
  /\ s \in snap[p]
  /\ ~Passes(p, s)
  /\ snap' = [snap EXCEPT ![p] = @ \ {s}]
  /\ UNCHANGED <<hubVars, subVars, ppc, arg, cur, dropped, pending, panic,
                 histVars>>

(* The outcomes of select { case s.ch <- e: ... default: ... }.  A closed   *)
(* channel panics although there is a default case.                         *)
SendPanics(s) ==
  /\ closed[s]
  /\ panic' = "send on closed channel"
  /\ UNCHANGED <<chan, accepted, dropped>>

SendAccepted(p, s) ==
  /\ ~closed[s]
  /\ Len(chan[s]) < Capacity
  /\ chan' = [chan EXCEPT ![s] = Append(@, cur[p])]
  /\ accepted' = [accepted EXCEPT ![s] = @ \cup {cur[p]}]
  /\ UNCHANGED <<dropped, panic>>

SendBlocks(p, s) == FALSE

SendOverflows(p, s) ==
  /\ ~closed[s]
  /\ Len(chan[s]) >= Capacity
  /\ dropped' = [dropped EXCEPT ![p] = @ \cup {s}]
  /\ UNCHANGED <<chan, accepted, panic>>

(* The snapshot comes from a map iteration, so any order of sends.          *)
PublishSend(p, s) ==
  /\ Alive
  /\ ppc[p] = "sending"
  /\ s \in snap[p]
  /\ Passes(p, s)
  /\ snap' = [snap EXCEPT ![p] = @ \ {s}]
  /\ SendPanics(s) \/ SendAccepted(p, s) \/ SendOverflows(p, s)
  /\ UNCHANGED <<hubVars, hpc, filter, closed, ppc, arg, cur, pending, log,
                 base, last>>

RemoveWithoutClose(p, s) ==
  /\ Alive
  /\ ppc[p] = "sending"
  /\ snap[p] = {}
  /\ s \in dropped[p]
  /\ LockFree
  /\ dropped' = [dropped EXCEPT ![p] = @ \ {s}]
  /\ subs' = subs \ {s}
  /\ UNCHANGED <<shutdown, spc, subVars, ppc, arg, cur, snap, pending, panic,
                 histVars>>

(* remove(id, slow), once per full subscription after the last send.        *)
PublishRemove(p, s) ==
  /\ Alive
  /\ ppc[p] = "sending"
  /\ snap[p] = {}
  /\ pending[p] = {}
  /\ s \in dropped[p]
  /\ LockFree
  /\ dropped' = [dropped EXCEPT ![p] = @ \ {s}]
  /\ subs' = subs \ {s}
  /\ pending' = [pending EXCEPT ![p] = subs \cap {s}]
  /\ UNCHANGED <<shutdown, spc, subVars, ppc, arg, cur, snap, panic,
                 histVars>>

PublishClose(p, s) ==
  /\ Alive
  /\ s \in pending[p]
  /\ CloseChannel(s)
  /\ pending' = [pending EXCEPT ![p] = {}]
  /\ UNCHANGED <<hubVars, hpc, filter, chan, ppc, arg, cur, snap, dropped,
                 histVars>>

ReturnKeepsSlow(p) ==
  /\ Alive
  /\ ppc[p] = "sending"
  /\ snap[p] = {}
  /\ ppc' = [ppc EXCEPT ![p] = "idle"]
  /\ dropped' = [dropped EXCEPT ![p] = {}]
  /\ UNCHANGED <<hubVars, subVars, arg, cur, snap, pending, panic, histVars>>

PublishReturn(p) ==
  /\ Alive
  /\ ppc[p] = "sending"
  /\ snap[p] = {}
  /\ dropped[p] = {}
  /\ pending[p] = {}
  /\ ppc' = [ppc EXCEPT ![p] = "idle"]
  /\ UNCHANGED <<hubVars, subVars, arg, cur, snap, dropped, pending, panic,
                 histVars>>

-----------------------------------------------------------------------------
(* Shutdown.  A second call finds the flag set and returns.                 *)

ShutdownFlag ==
  /\ Alive
  /\ spc = "idle"
  /\ spc' = "flagged"
  /\ shutdown' = TRUE
  /\ UNCHANGED <<subs, subVars, pubVars, panic, histVars>>

ShutdownLock ==
  /\ Alive
  /\ spc = "flagged"
  /\ spc' = "sweeping"
  /\ UNCHANGED <<subs, shutdown, subVars, pubVars, panic, histVars>>

ShutdownDelete(s) ==
  /\ Alive
  /\ spc = "sweeping"
  /\ s \in subs
  /\ subs' = subs \ {s}
  /\ UNCHANGED <<shutdown, spc, subVars, pubVars, panic, histVars>>

ShutdownClose(s) ==
  /\ Alive
  /\ spc = "sweeping"
  /\ s \in subs
  /\ CloseChannel(s)
  /\ subs' = subs \ {s}
  /\ UNCHANGED <<shutdown, spc, hpc, filter, chan, pubVars, histVars>>

ShutdownUnlock ==
  /\ Alive
  /\ spc = "sweeping"
  /\ subs = {}
  /\ spc' = "done"
  /\ UNCHANGED <<subs, shutdown, subVars, pubVars, panic, histVars>>

-----------------------------------------------------------------------------
HandlerStep(s) ==
  \/ SubscribeLoad(s) \/ SubscribeInsert(s)
  \/ Receive(s) \/ ReceiveClosed(s) \/ Leave(s)
  \/ CancelDelete(s) \/ CancelClose(s)

PublisherStep(p) ==
  \/ PublishSnapshot(p)
  \/ \E s \in Subs : \/ PublishSkip(p, s) \/ PublishSend(p, s)
                     \/ PublishRemove(p, s) \/ PublishClose(p, s)
  \/ PublishReturn(p)

ShutdownStep ==
  \/ ShutdownLock
  \/ \E s \in Subs : ShutdownClose(s)
  \/ ShutdownUnlock

Step ==
  \/ \E s \in Subs : HandlerStep(s)
  \/ \E p \in Publishers :
       PublisherStep(p) \/ \E e \in Event : PublishCall(p, e)
  \/ ShutdownFlag
  \/ ShutdownStep

Idle ==
  /\ \A s \in Subs : hpc[s] \in {"done", "rejected"}
  /\ \A p \in Publishers : ppc[p] = "idle"
  /\ spc = "done"

(* Stuttering that lets TLC's deadlock check tell a finished process, or    *)
(* one killed by a panic, from goroutines that wait for each other.         *)
Finished == (~Alive \/ Idle) /\ UNCHANGED vars

Next == Step \/ Finished

(* A goroutine inside a hub method keeps running; what a client does, and   *)
(* whether events arrive or Shutdown is called, is up to the environment.   *)
Fairness ==
  /\ \A p \in Publishers : WF_vars(PublisherStep(p))
  /\ WF_vars(ShutdownStep)
  /\ \A s \in Subs : WF_vars(CancelDelete(s) \/ CancelClose(s))

Spec     == Init /\ [][Next]_vars
FairSpec == Spec /\ Fairness

-----------------------------------------------------------------------------
(* Properties.                                                              *)

(* Type correctness of the hub's state.                                     *)
TypeOK ==
  /\ subs \in SUBSET Subs
  /\ shutdown \in BOOLEAN
  /\ spc \in {"idle", "flagged", "sweeping", "done"}
  /\ hpc \in [Subs -> {"idle", "loaded", "rejected", "open", "cancel",
                       "close", "done"}]
  /\ filter \in [Subs -> Filter]
  /\ chan \in [Subs -> Seq(Nat)]
  /\ closed \in [Subs -> BOOLEAN]
  /\ ppc \in [Publishers -> {"idle", "called", "sending"}]
  /\ arg \in [Publishers -> Event]
  /\ cur \in [Publishers -> Nat]
  /\ snap \in [Publishers -> SUBSET Subs]
  /\ dropped \in [Publishers -> SUBSET Subs]
  /\ pending \in [Publishers -> SUBSET Subs]
  /\ panic \in {"none", "send on closed channel", "close of closed channel"}
  /\ log \in Seq(Event)
  /\ base \in [Subs -> Nat]
  /\ accepted \in [Subs -> SUBSET Nat]
  /\ last \in [Subs -> Nat]

(* However Cancel, the slow-consumer drop and Shutdown race for the same    *)
(* subscription, its channel is closed at most once: whoever deletes the    *)
(* registry entry under the lock is the only one to close.                  *)
NoDoubleClose == panic # "close of closed channel"

(* The registry never outgrows h.maxSubs and no channel its buffer, with    *)
(* Subscribe calls racing each other and several publishers sending.        *)
Bounded ==
  /\ Cardinality(subs) <= MaxSubs
  /\ \A s \in Subs : Len(chan[s]) <= Capacity

Served(s, i) == \E p \in Publishers : cur[p] = i /\ s \in snap[p]
Condemned(s) == \E p \in Publishers : s \in dropped[p] \cup pending[p]
Wanted(s) == {i \in (base[s] + 1)..Len(log) : Matches(filter[s], log[i])}

(* A subscriber never misses an event in silence: while its handler is      *)
(* reading an open channel, every matching event published since it was     *)
(* registered is in the channel or was, unless a publisher has yet to reach *)
(* it or has already condemned it to be dropped (and closed).               *)
NoSilentLoss ==
  \A s \in Subs : hpc[s] = "open" /\ ~closed[s] =>
    \A i \in Wanted(s) : i \in accepted[s] \/ Served(s, i) \/ Condemned(s)

(* Who may close a channel: the registry entry is the permit.  Whoever      *)
(* takes it out of subs closes the channel next, and nobody else holds it.  *)
RegisteredOpen ==
  \A s \in subs : hpc[s] \in {"open", "cancel"} /\ ~closed[s]

HandlerPermit ==
  \A s \in Subs : hpc[s] \in {"idle", "loaded", "close"} =>
    ~closed[s] /\ \A p \in Publishers : s \notin pending[p]

PublisherPermit ==
  \A p \in Publishers : \A s \in pending[p] :
    /\ s \notin subs /\ ~closed[s]
    /\ pending[p] = {s}
    /\ \A q \in Publishers : s \in pending[q] => q = p

(* A handler reading an open channel is registered, or a publisher has the  *)
(* permit and is about to close.                                            *)
ReadersKept ==
  \A s \in Subs : hpc[s] = "open" =>
    closed[s] \/ s \in subs \/ \E p \in Publishers : s \in pending[p]

(* A publisher serves and removes only between its snapshot and its return. *)
Resting ==
  \A p \in Publishers :
    ppc[p] # "sending" => snap[p] = {} /\ dropped[p] = {} /\ pending[p] = {}

(* With one publishing goroutine the hub implements EventFeed: a channel    *)
(* takes, one by one and in order, the events its subscription wants, and   *)
(* nothing after it is closed.                                              *)
FeedStatus ==
  [s \in Subs |-> IF hpc[s] \in {"idle", "loaded", "rejected"} THEN "new"
                  ELSE IF closed[s] THEN "cut" ELSE "live"]

Feed == INSTANCE EventFeed
          WITH Wants <- Matches, status <- FeedStatus, view <- accepted

ImplementsFeed == Feed!FeedSpec

(* What a handler has received is gap-free and in publication order, even   *)
(* past a slow-consumer drop, a cancel or a shutdown, as long as there is   *)
(* one publishing goroutine: everything it wanted up to the last event it   *)
(* got, it got.                                                             *)
GapFree ==
  \A s \in Subs : \A i \in Wanted(s) :
    i <= last[s] => i \in accepted[s] \ Buffered(s)

(* Nothing a subscriber receives was published before it was registered, or *)
(* is rejected by its filter.                                               *)
OnlyWanted == \A s \in Subs : accepted[s] \subseteq Wanted(s)

(* Publish does not wait for consumers: a call returns although no handler  *)
(* ever receives, unless a panic kills the process.                         *)
PublishReturns ==
  \A p \in Publishers :
    ppc[p] # "idle" ~> ppc[p] = "idle" \/ ~Alive

(* A subscriber found full is told: its channel is eventually closed,       *)
(* whoever of the publisher, its own handler and Shutdown removes it.       *)
DropIsSignalled ==
  \A p \in Publishers, s \in Subs :
    s \in dropped[p] ~> closed[s] \/ ~Alive

(* Every subscription that is registered when Shutdown begins, or is        *)
(* registered before Shutdown takes the lock, gets its channel closed.      *)
ShutdownSignals ==
  \A s \in Subs :
    spc \in {"flagged", "sweeping"} /\ s \in subs ~> closed[s] \/ ~Alive

(* "Hub is the central fan-out. Goroutine-safe." (hub.go:103): publishing,  *)
(* cancelling and shutting down concurrently never panics.                  *)
GoroutineSafe == panic # "send on closed channel"

(* "Shutdown closes every subscriber channel and rejects new subscriptions" *)
(* (hub.go:202-203): once it has returned, no subscription is registered.   *)
ShutdownIsFinal == spc = "done" => subs = {}
=============================================================================
