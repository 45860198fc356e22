---------------------------- MODULE EventFeedProofs ----------------------------
(***************************************************************************)
(* What a subscriber gets from the hub: only what it wants, in order,      *)
(* without a gap, and as EventFeed has it.  The first holds for any number *)
(* of publishers; the rest needs that there is one, as in the program,     *)
(* where chainsub's goroutine is the only caller of Publish.               *)
(***************************************************************************)
EXTENDS StreamHubProofs

New(s) == hpc[s] \in {"idle", "loaded", "rejected"}

(* A subscription that was never registered was handed nothing.             *)
NewUntouched ==
  \A s \in Subs :
    /\ base[s] <= Len(log)
    /\ New(s) => /\ accepted[s] = {}
                 /\ \A p \in Publishers : s \notin snap[p] \cup pending[p]

(* A publisher serves only subscriptions older than its event.              *)
Addressed ==
  \A p \in Publishers : \A s \in snap[p] : cur[p] \in (base[s] + 1)..Len(log)

WantInv == NewUntouched /\ Addressed /\ OnlyWanted

(* A step that hands nothing over, logs nothing and registers nothing.      *)
LEMMA WantFrame ==
  ASSUME WantInv,
         UNCHANGED <<log, filter, base, accepted, cur>>,
         \A p \in Publishers : snap'[p] \subseteq snap[p],
         \A s \in Subs : New(s)' =>
           New(s) /\ \A p \in Publishers : s \notin pending'[p]
  PROVE  WantInv'
<1>1. NewUntouched'
  BY DEF WantInv, NewUntouched
<1>2. Addressed'
  BY DEF WantInv, Addressed
<1>3. OnlyWanted'
  BY DEF WantInv, OnlyWanted, Wanted
<1> QED
  BY <1>1, <1>2, <1>3 DEF WantInv

LEMMA LogGrows ==
  ASSUME TypeOK, NEW p \in Publishers, PublishSnapshot(p)
  PROVE  /\ Len(log) \in Nat
         /\ Len(log') = Len(log) + 1
         /\ \A i \in 1..Len(log) : log'[i] = log[i]
         /\ log'[Len(log) + 1] = arg[p]
<1>1. log \in Seq(Event) /\ arg[p] \in Event
  BY DEF TypeOK
<1>2. log' = Append(log, arg[p])
  BY DEF PublishSnapshot
<1> QED
  BY <1>1, <1>2, AppendProperties, LenProperties

LEMMA InsertWant ==
  ASSUME TypeOK, PermitInv, WantInv, NEW s \in Subs, SubscribeInsert(s)
  PROVE  WantInv'
<1>1. /\ UNCHANGED <<log, filter, accepted, cur, snap, pending>>
      /\ New(s)
  BY DEF SubscribeInsert, pubVars, New
<1>2. \A t \in Subs \ {s} : hpc'[t] = hpc[t] /\ base'[t] = base[t]
  BY DEF SubscribeInsert, TypeOK
<1>3. Len(log) \in Nat
  BY LenProperties DEF TypeOK
<1>4. base'[s] <= Len(log)
  <2>1. base'[s] \in {base[s], Len(log)} /\ base[s] \in Nat
    BY DEF SubscribeInsert, TypeOK
  <2> QED
    BY <1>3, <2>1 DEF WantInv, NewUntouched
<1>5. accepted[s] = {} /\ \A p \in Publishers : s \notin snap[p] \cup pending[p]
  BY <1>1 DEF WantInv, NewUntouched
<1>6. NewUntouched'
  BY <1>1, <1>2, <1>4, <1>5 DEF WantInv, NewUntouched, New
<1>7. Addressed'
  <2>1. \A p \in Publishers : snap[p] \subseteq Subs \ {s}
    BY <1>5 DEF TypeOK
  <2> QED
    BY <1>1, <1>2, <2>1 DEF WantInv, Addressed
<1>8. OnlyWanted'
  BY <1>1, <1>2, <1>5 DEF WantInv, OnlyWanted, Wanted
<1> QED
  BY <1>6, <1>7, <1>8 DEF WantInv

LEMMA SnapshotWant ==
  ASSUME TypeOK, PermitInv, WantInv, NEW p \in Publishers, PublishSnapshot(p)
  PROVE  WantInv'
<1>1. /\ UNCHANGED <<hpc, filter, base, accepted, pending>>
      /\ cur'[p] = Len(log) + 1 /\ snap'[p] = subs
      /\ \A q \in Publishers \ {p} : cur'[q] = cur[q] /\ snap'[q] = snap[q]
  BY DEF PublishSnapshot, subVars, TypeOK
<1>2. \A s \in Subs : base[s] \in Nat /\ base[s] <= Len(log)
  BY DEF TypeOK, WantInv, NewUntouched
<1>3. \A s \in subs : s \in Subs /\ ~New(s)
  BY DEF PermitInv, RegisteredOpen, New, TypeOK
<1>4. NewUntouched'
  <2>1. \A s \in Subs : base'[s] <= Len(log')
    BY <1>1, <1>2, LogGrows
  <2> QED
    BY <1>1, <1>3, <2>1 DEF WantInv, NewUntouched, New
<1>5. Addressed'
  <2>1. \A s \in snap'[p] : cur'[p] \in (base'[s] + 1)..Len(log')
    BY <1>1, <1>2, <1>3, LogGrows
  <2>2. ASSUME NEW q \in Publishers \ {p}, NEW s \in snap'[q]
        PROVE  cur'[q] \in (base'[s] + 1)..Len(log')
    <3>1. s \in Subs /\ cur[q] \in (base[s] + 1)..Len(log)
      BY <1>1, <2>2 DEF WantInv, Addressed, TypeOK
    <3> QED
      BY <1>1, <1>2, <3>1, LogGrows
  <2> QED
    BY <2>1, <2>2 DEF Addressed
<1>6. OnlyWanted'
  <2>1. \A s \in Subs : Wanted(s) \subseteq Wanted(s)'
    BY <1>1, <1>2, LogGrows DEF Wanted
  <2> QED
    BY <1>1, <2>1 DEF WantInv, OnlyWanted
<1> QED
  BY <1>4, <1>5, <1>6 DEF WantInv

(* A send hands over the event, or nothing at all.                          *)
LEMMA SendCases ==
  ASSUME TypeOK, NEW p \in Publishers, NEW s \in Subs, PublishSend(p, s)
  PROVE  /\ UNCHANGED <<subs, hpc, closed, filter, log, base, last, cur, pending, ppc>>
         /\ s \in snap[p] /\ cur[p] \in Nat
         /\ Matches(filter[s], log[cur[p]])
         /\ snap'[p] = snap[p] \ {s}
         /\ \A q \in Publishers \ {p} : snap'[q] = snap[q]
         /\ \A t \in Subs \ {s} : accepted'[t] = accepted[t] /\ chan'[t] = chan[t]
         /\ \/ UNCHANGED <<accepted, chan>> /\ (closed[s] \/ s \in dropped'[p])
            \/ /\ ~closed[s]
               /\ accepted'[s] = accepted[s] \cup {cur[p]}
               /\ accepted' = [accepted EXCEPT ![s] = accepted[s] \cup {cur[p]}]
               /\ chan'[s] = Append(chan[s], cur[p])
         /\ \A q \in Publishers : dropped[q] \subseteq dropped'[q]
<1>1. /\ UNCHANGED <<subs, hpc, closed, filter, log, base, last, cur, pending, ppc>>
      /\ s \in snap[p] /\ snap' = [snap EXCEPT ![p] = snap[p] \ {s}]
      /\ Matches(filter[s], log[cur[p]])
  BY DEF PublishSend, Passes, hubVars
<1>2. DOMAIN snap = Publishers /\ DOMAIN dropped = Publishers /\ DOMAIN chan = Subs
      /\ DOMAIN accepted = Subs /\ cur[p] \in Nat
  BY DEF TypeOK
<1>3. CASE SendPanics(s)
  BY <1>1, <1>2, <1>3 DEF SendPanics
<1>4. CASE SendAccepted(p, s)
  BY <1>1, <1>2, <1>4 DEF SendAccepted
<1>5. CASE SendOverflows(p, s)
  BY <1>1, <1>2, <1>5 DEF SendOverflows
<1> QED
  BY <1>3, <1>4, <1>5 DEF PublishSend

LEMMA SendWant ==
  ASSUME TypeOK, WantInv, NEW p \in Publishers, NEW s \in Subs,
         PublishSend(p, s)
  PROVE  WantInv'
<1>1. CASE UNCHANGED accepted
  BY <1>1, SendCases, WantFrame DEF WantInv, NewUntouched, New
<1>2. CASE ~UNCHANGED accepted
  <2>1. accepted'[s] = accepted[s] \cup {cur[p]}
    BY <1>2, SendCases
  <2>2. cur[p] \in Wanted(s)
    BY SendCases DEF WantInv, Addressed, Wanted
  <2>3. ~New(s)
    BY SendCases DEF WantInv, NewUntouched
  <2>4. NewUntouched'
    BY <2>3, SendCases DEF WantInv, NewUntouched, New
  <2>5. Addressed'
    BY SendCases DEF WantInv, Addressed
  <2>6. OnlyWanted'
    <3>1. \A t \in Subs : Wanted(t)' = Wanted(t)
      BY SendCases DEF Wanted
    <3> QED
      BY <2>1, <2>2, <3>1, SendCases DEF WantInv, OnlyWanted
  <2> QED
    BY <2>4, <2>5, <2>6 DEF WantInv
<1> QED
  BY <1>1, <1>2

LEMMA RemoveWant ==
  ASSUME TypeOK, PermitInv, WantInv, NEW p \in Publishers, NEW s \in Subs,
         PublishRemove(p, s)
  PROVE  WantInv'
<1>1. /\ UNCHANGED <<hpc, log, filter, base, accepted, cur, snap>>
      /\ pending'[p] \subseteq subs
      /\ \A q \in Publishers \ {p} : pending'[q] = pending[q]
  BY DEF PublishRemove, subVars, histVars, TypeOK
<1>2. \A t \in subs : ~New(t)
  BY DEF PermitInv, RegisteredOpen, New
<1> QED
  BY <1>1, <1>2, WantFrame DEF WantInv, NewUntouched, New

(* The other steps are all of the kind of WantFrame.                        *)
LEMMA QuietWant ==
  ASSUME TypeOK, WantInv,
         \/ \E s \in Subs : HandlerStep(s) /\ ~SubscribeInsert(s)
         \/ \E p \in Publishers, e \in Event : PublishCall(p, e)
         \/ \E p \in Publishers, s \in Subs : PublishSkip(p, s) \/ PublishClose(p, s)
         \/ \E p \in Publishers : PublishReturn(p)
         \/ ShutdownFlag \/ ShutdownStep \/ UNCHANGED vars
  PROVE  WantInv'
<1> USE DEF pubVars, histVars, subVars
<1>1. ASSUME NEW s \in Subs, HandlerStep(s), ~SubscribeInsert(s)
      PROVE  WantInv'
  <2>1. UNCHANGED <<log, filter, base, accepted, cur, snap, pending>>
    BY <1>1 DEF HandlerStep, SubscribeLoad, Receive, ReceiveClosed, Leave,
       CancelDelete, CancelClose
  <2>2. \A t \in Subs : New(t)' => New(t)
    BY <1>1 DEF HandlerStep, SubscribeLoad, Receive, ReceiveClosed, Leave,
       CancelDelete, CancelClose, New, TypeOK
  <2> QED
    BY <2>1, <2>2, WantFrame DEF WantInv, NewUntouched
<1>2. ASSUME NEW p \in Publishers, NEW s \in Subs,
             PublishSkip(p, s) \/ PublishClose(p, s)
      PROVE  WantInv'
  <2>1. UNCHANGED <<hpc, log, filter, base, accepted, cur>>
    BY <1>2 DEF PublishSkip, PublishClose
  <2>2. \A q \in Publishers :
          snap'[q] \subseteq snap[q] /\ pending'[q] \subseteq pending[q]
    BY <1>2 DEF PublishSkip, PublishClose, TypeOK
  <2> QED
    BY <2>1, <2>2, WantFrame DEF WantInv, NewUntouched, New
<1>3. ASSUME \/ \E p \in Publishers, e \in Event : PublishCall(p, e)
             \/ \E p \in Publishers : PublishReturn(p)
             \/ ShutdownFlag \/ ShutdownStep \/ UNCHANGED vars
      PROVE  WantInv'
  <2>1. UNCHANGED <<hpc, log, filter, base, accepted, cur, snap, pending>>
    BY <1>3 DEF PublishCall, PublishReturn, ShutdownFlag, ShutdownStep,
       ShutdownLock, ShutdownClose, ShutdownUnlock, vars
  <2> QED
    BY <2>1, WantFrame DEF WantInv, NewUntouched, New
<1> QED
  BY <1>1, <1>2, <1>3

LEMMA NextWant ==
  ASSUME TypeOK, PermitInv, WantInv, [Next]_vars
  PROVE  WantInv'
<1>1. ASSUME NEW s \in Subs, HandlerStep(s) PROVE WantInv'
  BY <1>1, InsertWant, QuietWant
<1>2. ASSUME NEW p \in Publishers, PublisherStep(p) PROVE WantInv'
  BY <1>2, SnapshotWant, SendWant, RemoveWant, QuietWant DEF PublisherStep
<1> QED
  BY <1>1, <1>2, QuietWant, StepCases

LEMMA WantInvariant == Spec => []WantInv
<1>1. Init => WantInv
  <2> SUFFICES ASSUME Init PROVE WantInv
    OBVIOUS
  <2>1. Len(log) = 0 /\ \A s \in Subs : base[s] = 0 /\ accepted[s] = {}
    BY DEF Init
  <2>2. \A p \in Publishers : snap[p] = {} /\ pending[p] = {}
    BY DEF Init
  <2> QED
    BY <2>1, <2>2 DEF WantInv, NewUntouched, Addressed, OnlyWanted
<1>2. TypeOK /\ PermitInv /\ WantInv /\ [Next]_vars => WantInv'
  BY NextWant
<1> QED
  BY <1>1, <1>2, TypeCorrect, PermitInvariant, PTL DEF Spec

(* For any number of publishers, a subscriber is handed nothing that was    *)
(* published before it was registered or that its filter rejects, although  *)
(* Publish sends to a copy of the registry, outside the lock.               *)
THEOREM OnlyWantedReceived == Spec => []OnlyWanted
<1>1. WantInv => OnlyWanted
  BY DEF WantInv
<1> QED
  BY <1>1, WantInvariant, PTL

-----------------------------------------------------------------------------
(* One publisher.  The hub hands over each subscription's events in order:  *)
(* a snapshot is only taken when the last one has been served, and then     *)
(* whoever is registered has everything.                                    *)

OnePublisher == \A p, q \in Publishers : p = q

RegisteredKept ==
  \A s \in subs : \A i \in Wanted(s) :
    i \in accepted[s] \/ Served(s, i) \/ \E p \in Publishers : s \in dropped[p]

CaughtUp ==
  \A p \in Publishers : \A s \in snap[p] :
    /\ cur[p] = Len(log)
    /\ cur[p] \notin accepted[s]
    /\ \A i \in Wanted(s) : i < cur[p] => i \in accepted[s]

PrefixAccepted ==
  \A s \in Subs : \A i \in accepted[s] :
    \A j \in Wanted(s) : j < i => j \in accepted[s]

BufferInOrder ==
  \A s \in Subs :
    /\ last[s] # 0 => last[s] \in accepted[s]
    /\ \A k \in 1..Len(chan[s]) :
         /\ chan[s][k] \in accepted[s]
         /\ last[s] < chan[s][k]
         /\ \A l \in 1..Len(chan[s]) : l < k => chan[s][l] < chan[s][k]

OrderInv == RegisteredKept /\ CaughtUp /\ PrefixAccepted /\ BufferInOrder

(* The buffer's order given, what a handler has received is gap-free.       *)
LEMMA OrderIsGapFree ==
  ASSUME TypeOK, OrderInv
  PROVE  GapFree
<1> SUFFICES ASSUME NEW s \in Subs, NEW i \in Wanted(s), i <= last[s]
             PROVE  i \in accepted[s] \ Buffered(s)
  BY DEF GapFree
<1>1. i \in Nat \ {0} /\ last[s] \in Nat
  <2>1. base[s] \in Nat /\ Len(log) \in Nat /\ last[s] \in Nat
    BY LenProperties DEF TypeOK
  <2> QED
    BY <2>1 DEF Wanted
<1>2. i \in accepted[s]
  BY <1>1 DEF OrderInv, PrefixAccepted, BufferInOrder
<1>3. ASSUME i \in Buffered(s) PROVE FALSE
  <2>1. PICK k \in 1..Len(chan[s]) : i = chan[s][k]
    BY <1>3 DEF Buffered
  <2> QED
    BY <1>1, <2>1 DEF OrderInv, BufferInOrder
<1> QED
  BY <1>2, <1>3

(* A step that neither logs, registers nor hands over anything, and removes *)
(* a subscription from dropped only when it removes it from subs.           *)
LEMMA OrderFrame ==
  ASSUME TypeOK, OrderInv,
         UNCHANGED <<log, filter, base, accepted, cur, snap, chan, last>>,
         subs' \subseteq subs,
         \A p \in Publishers : dropped[p] \cap subs' \subseteq dropped'[p]
  PROVE  OrderInv'
<1>1. RegisteredKept'
  <2>1. subs \subseteq Subs
    BY DEF TypeOK
  <2> QED
    BY <2>1 DEF OrderInv, RegisteredKept, Wanted, Served
<1>2. CaughtUp'
  BY DEF OrderInv, CaughtUp, Wanted
<1>3. PrefixAccepted'
  BY DEF OrderInv, PrefixAccepted, Wanted
<1>4. BufferInOrder'
  BY DEF OrderInv, BufferInOrder
<1> QED
  BY <1>1, <1>2, <1>3, <1>4 DEF OrderInv

LEMMA InsertOrder ==
  ASSUME TypeOK, WantInv, OrderInv, NEW s \in Subs, SubscribeInsert(s)
  PROVE  OrderInv'
<1>1. /\ UNCHANGED <<log, filter, accepted, cur, snap, chan, last, dropped>>
      /\ New(s)
  BY DEF SubscribeInsert, pubVars, New
<1>2. \A t \in Subs \ {s} : base'[t] = base[t]
  BY DEF SubscribeInsert, TypeOK
<1>3. \/ subs' = subs /\ base' = base
      \/ subs' = subs \cup {s} /\ base'[s] = Len(log)
  BY DEF SubscribeInsert, TypeOK
<1>4. accepted[s] = {} /\ \A p \in Publishers : s \notin snap[p]
  BY <1>1 DEF WantInv, NewUntouched
<1>5. CASE subs' = subs /\ base' = base
  BY <1>1, <1>5, OrderFrame
<1>6. CASE subs' = subs \cup {s} /\ base'[s] = Len(log)
  <2>1. Wanted(s)' = {}
    <3>1. Len(log) \in Nat
      BY LenProperties DEF TypeOK
    <3> QED
      BY <1>1, <1>6, <3>1 DEF Wanted
  <2>2. \A t \in Subs \ {s} : Wanted(t)' = Wanted(t)
    BY <1>1, <1>2 DEF Wanted
  <2>3. subs \subseteq Subs /\ \A p \in Publishers : snap[p] \subseteq Subs
    BY DEF TypeOK
  <2>4. RegisteredKept'
    BY <1>1, <1>6, <2>1, <2>2, <2>3 DEF OrderInv, RegisteredKept, Served
  <2>5. CaughtUp'
    BY <1>1, <1>4, <2>2, <2>3 DEF OrderInv, CaughtUp
  <2>6. PrefixAccepted'
    BY <1>1, <2>1, <2>2 DEF OrderInv, PrefixAccepted
  <2>7. BufferInOrder'
    BY <1>1 DEF OrderInv, BufferInOrder
  <2> QED
    BY <2>4, <2>5, <2>6, <2>7 DEF OrderInv
<1> QED
  BY <1>3, <1>5, <1>6

LEMMA ReceiveOrder ==
  ASSUME TypeOK, OrderInv, NEW s \in Subs, Receive(s)
  PROVE  OrderInv'
<1>1. /\ UNCHANGED <<subs, log, filter, base, accepted, cur, snap, dropped>>
      /\ \A t \in Subs \ {s} : chan'[t] = chan[t] /\ last'[t] = last[t]
  BY DEF Receive, hubVars, pubVars, TypeOK
<1>2. /\ chan[s] \in Seq(Nat) /\ chan[s] # <<>>
      /\ chan'[s] = Tail(chan[s]) /\ last'[s] = Head(chan[s])
  BY DEF Receive, TypeOK
<1>3. /\ last'[s] = chan[s][1]
      /\ Len(chan'[s]) = Len(chan[s]) - 1
      /\ \A k \in 1..Len(chan'[s]) : chan'[s][k] = chan[s][k + 1]
  BY <1>2, HeadTailProperties
<1>4. Len(chan[s]) \in Nat /\ Len(chan[s]) >= 1
  BY <1>2, LenProperties, EmptySeq
<1>5. \A k \in 1..Len(chan'[s]) : k \in Nat /\ k + 1 \in 1..Len(chan[s]) /\ 1 < k + 1
  BY <1>3, <1>4
<1>6. 1 \in 1..Len(chan[s])
  BY <1>4
<1>7. last'[s] \in accepted[s]
  BY <1>3, <1>6 DEF OrderInv, BufferInOrder
<1>8. ASSUME NEW k \in 1..Len(chan'[s])
      PROVE  /\ chan'[s][k] \in accepted[s]
             /\ last'[s] < chan'[s][k]
             /\ \A l \in 1..Len(chan'[s]) : l < k => chan'[s][l] < chan'[s][k]
  <2>1. chan'[s][k] \in accepted[s] /\ last'[s] < chan'[s][k]
    BY <1>3, <1>5, <1>6 DEF OrderInv, BufferInOrder
  <2>2. ASSUME NEW l \in 1..Len(chan'[s]), l < k PROVE chan'[s][l] < chan'[s][k]
    <3>1. l + 1 < k + 1
      BY <1>5, <2>2
    <3> QED
      BY <1>3, <1>5, <3>1 DEF OrderInv, BufferInOrder
  <2> QED
    BY <2>1, <2>2
<1>9. BufferInOrder'
  BY <1>1, <1>7, <1>8 DEF OrderInv, BufferInOrder
<1>10. RegisteredKept' /\ CaughtUp' /\ PrefixAccepted'
  BY <1>1 DEF OrderInv, RegisteredKept, CaughtUp, PrefixAccepted, Wanted, Served
<1> QED
  BY <1>9, <1>10 DEF OrderInv

LEMMA SnapshotOrder ==
  ASSUME TypeOK, PermitInv, Resting, WantInv, OrderInv, OnePublisher,
         NEW p \in Publishers, PublishSnapshot(p)
  PROVE  OrderInv'
<1>1. /\ UNCHANGED <<subs, chan, filter, base, accepted, dropped, last>>
      /\ cur'[p] = Len(log) + 1 /\ snap'[p] = subs
  BY DEF PublishSnapshot, hubVars, subVars, TypeOK
<1>2. snap[p] = {} /\ dropped[p] = {} /\ Publishers = {p}
  BY DEF PublishSnapshot, Resting, OnePublisher
<1>3. /\ Len(log) \in Nat /\ subs \subseteq Subs
      /\ \A s \in Subs : base[s] \in Nat
  BY LogGrows DEF TypeOK
<1>4. \A s \in subs : \A i \in Wanted(s) : i \in accepted[s]
  BY <1>2 DEF OrderInv, RegisteredKept, Served
<1>5. \A s \in Subs : Wanted(s)' \subseteq Wanted(s) \cup {Len(log) + 1}
  BY <1>1, <1>3, LogGrows DEF Wanted
<1>6. \A s \in Subs : \A i \in accepted[s] : i \in Nat /\ i <= Len(log)
  BY <1>3 DEF WantInv, OnlyWanted, Wanted
<1>7. RegisteredKept'
  BY <1>1, <1>2, <1>3, <1>4, <1>5 DEF RegisteredKept, Served
<1>8. CaughtUp'
  <2> SUFFICES ASSUME NEW s \in subs
               PROVE  /\ cur'[p] = Len(log')
                      /\ cur'[p] \notin accepted[s]
                      /\ \A i \in Wanted(s)' : i < cur'[p] => i \in accepted[s]
    BY <1>1, <1>2 DEF CaughtUp
  <2>1. cur'[p] = Len(log')
    BY <1>1, LogGrows
  <2>2. cur'[p] \notin accepted[s]
    BY <1>1, <1>3, <1>6
  <2>3. \A i \in Wanted(s)' : i < cur'[p] => i \in accepted[s]
    BY <1>1, <1>3, <1>4, <1>5
  <2> QED
    BY <2>1, <2>2, <2>3
<1>9. PrefixAccepted'
  <2> SUFFICES ASSUME NEW s \in Subs, NEW i \in accepted[s], NEW j \in Wanted(s)', j < i
               PROVE  j \in accepted[s]
    BY <1>1 DEF PrefixAccepted
  <2>1. j \in Wanted(s)
    BY <1>3, <1>5, <1>6
  <2> QED
    BY <2>1 DEF OrderInv, PrefixAccepted
<1>10. BufferInOrder'
  BY <1>1 DEF OrderInv, BufferInOrder
<1> QED
  BY <1>7, <1>8, <1>9, <1>10 DEF OrderInv

LEMMA SkipOrder ==
  ASSUME TypeOK, OrderInv, NEW p \in Publishers, NEW s \in Subs,
         PublishSkip(p, s)
  PROVE  OrderInv'
<1>1. /\ UNCHANGED <<subs, chan, filter, log, base, accepted, cur, dropped, last>>
      /\ s \in snap[p] /\ snap'[p] = snap[p] \ {s}
      /\ \A q \in Publishers \ {p} : snap'[q] = snap[q]
  BY DEF PublishSkip, hubVars, subVars, histVars, TypeOK
<1>2. cur[p] \notin Wanted(s)
  BY DEF PublishSkip, Passes, Wanted
<1>3. \A t \in Subs : \A i \in Wanted(t) : Served(t, i) => Served(t, i)'
  BY <1>1, <1>2 DEF Served
<1>4. subs \subseteq Subs /\ \A t \in Subs : Wanted(t)' = Wanted(t)
  BY <1>1 DEF TypeOK, Wanted
<1>5. RegisteredKept'
  BY <1>1, <1>3, <1>4 DEF OrderInv, RegisteredKept
<1>6. CaughtUp' /\ PrefixAccepted' /\ BufferInOrder'
  BY <1>1 DEF OrderInv, CaughtUp, PrefixAccepted, BufferInOrder, Wanted
<1> QED
  BY <1>5, <1>6 DEF OrderInv

LEMMA SendOrder ==
  ASSUME TypeOK, PermitInv, WantInv, OrderInv, OnePublisher,
         NEW p \in Publishers, NEW s \in Subs, PublishSend(p, s)
  PROVE  OrderInv'
<1>1. UNCHANGED subs /\ Publishers = {p} /\ subs \subseteq Subs
  <2>1. UNCHANGED subs /\ subs \subseteq Subs
    BY SendCases DEF TypeOK
  <2>2. Publishers = {p}
    BY DEF OnePublisher
  <2> QED
    BY <2>1, <2>2
<1>2. \A t \in Subs : Wanted(t)' = Wanted(t)
  BY SendCases DEF Wanted
<1>3. /\ cur[p] = Len(log) /\ cur[p] \in Nat /\ 0 < cur[p]
      /\ cur[p] \notin accepted[s]
      /\ \A i \in Wanted(s) : i < cur[p] => i \in accepted[s]
  <2>1. cur[p] \in (base[s] + 1)..Len(log) /\ base[s] \in Nat
    BY SendCases DEF WantInv, Addressed, TypeOK
  <2> QED
    BY <2>1, SendCases DEF OrderInv, CaughtUp
<1>4. \A i \in accepted[s] : i \in Nat /\ i < cur[p]
  <2>1. base[s] \in Nat
    BY DEF TypeOK
  <2> QED
    BY <1>3, <2>1 DEF WantInv, OnlyWanted, Wanted
<1>5. RegisteredKept'
  <2> SUFFICES ASSUME NEW t \in subs, NEW i \in Wanted(t)
               PROVE  i \in accepted'[t] \/ Served(t, i)' \/ t \in dropped'[p]
    BY <1>1, <1>2 DEF RegisteredKept
  <2>1. i \in accepted[t] \/ (cur[p] = i /\ t \in snap[p]) \/ t \in dropped[p]
    BY <1>1 DEF OrderInv, RegisteredKept, Served
  <2>2. accepted[t] \subseteq accepted'[t] /\ t \in Subs
    BY <1>1, SendCases
  <2>3. CASE t # s
    BY <2>1, <2>2, <2>3, SendCases DEF Served
  <2>4. CASE t = s
    <3>1. ~closed[s]
      BY <2>4 DEF PermitInv, RegisteredOpen
    <3> QED
      BY <2>1, <2>2, <2>4, <3>1, SendCases
  <2> QED
    BY <2>3, <2>4
<1>6. CaughtUp'
  <2> SUFFICES ASSUME NEW t \in snap'[p]
               PROVE  /\ cur'[p] = Len(log')
                      /\ cur'[p] \notin accepted'[t]
                      /\ \A i \in Wanted(t)' : i < cur'[p] => i \in accepted'[t]
    BY <1>1 DEF CaughtUp
  <2>1. t \in snap[p] /\ t \in Subs /\ t # s
    <3>1. snap'[p] = snap[p] \ {s}
      BY SendCases
    <3>2. snap[p] \subseteq Subs
      BY DEF TypeOK
    <3> QED
      BY <3>1, <3>2
  <2>2. accepted'[t] = accepted[t] /\ cur'[p] = cur[p] /\ log' = log
    BY <2>1, SendCases
  <2>3. /\ cur[p] = Len(log)
        /\ cur[p] \notin accepted[t]
        /\ \A i \in Wanted(t) : i < cur[p] => i \in accepted[t]
    BY <2>1 DEF OrderInv, CaughtUp
  <2> QED
    BY <1>2, <2>1, <2>2, <2>3
<1>7. PrefixAccepted'
  <2> SUFFICES ASSUME NEW t \in Subs, NEW i \in accepted'[t], NEW j \in Wanted(t), j < i
               PROVE  j \in accepted'[t]
    BY <1>2 DEF PrefixAccepted
  <2>1. CASE i \in accepted[t]
    BY <2>1, SendCases DEF OrderInv, PrefixAccepted
  <2>2. CASE i \notin accepted[t]
    <3>1. t = s /\ i = cur[p]
      BY <2>2, SendCases
    <3> QED
      BY <1>3, <3>1, SendCases
  <2> QED
    BY <2>1, <2>2
<1>8. BufferInOrder'
  <2>1. \A t \in Subs \ {s} :
          chan'[t] = chan[t] /\ accepted'[t] = accepted[t] /\ last'[t] = last[t]
    BY SendCases
  <2>2. CASE UNCHANGED <<accepted, chan>>
    BY <2>2, SendCases DEF OrderInv, BufferInOrder
  <2>3. CASE /\ accepted'[s] = accepted[s] \cup {cur[p]}
             /\ chan'[s] = Append(chan[s], cur[p])
    <3>1. chan[s] \in Seq(Nat) /\ Len(chan[s]) \in Nat
      BY LenProperties DEF TypeOK
    <3>2. /\ Len(chan'[s]) = Len(chan[s]) + 1
          /\ \A k \in 1..Len(chan[s]) : chan'[s][k] = chan[s][k]
          /\ chan'[s][Len(chan[s]) + 1] = cur[p]
      BY <1>3, <2>3, <3>1, AppendProperties
    <3>3. last'[s] = last[s] /\ last[s] \in Nat /\ last[s] < cur[p]
      <4>1. last'[s] = last[s] /\ last[s] \in Nat
        BY SendCases DEF TypeOK
      <4> QED
        BY <1>3, <1>4, <4>1 DEF OrderInv, BufferInOrder
    <3>4. last'[s] # 0 => last'[s] \in accepted'[s]
      BY <2>3, <3>3 DEF OrderInv, BufferInOrder
    <3>5. ASSUME NEW k \in 1..Len(chan[s])
          PROVE  /\ chan'[s][k] \in accepted'[s]
                 /\ last'[s] < chan'[s][k]
                 /\ chan'[s][k] < cur[p]
                 /\ \A l \in 1..Len(chan[s]) : l < k => chan'[s][l] < chan'[s][k]
      BY <1>4, <2>3, <3>2, <3>3 DEF OrderInv, BufferInOrder
    <3>6. \A k \in 1..Len(chan'[s]) : k \in 1..Len(chan[s]) \/ k = Len(chan[s]) + 1
      BY <3>1, <3>2
    <3>7. \A k, l \in 1..Len(chan'[s]) : l < k => l \in 1..Len(chan[s])
      BY <3>1, <3>2
    <3>8. ASSUME NEW k \in 1..Len(chan'[s])
          PROVE  /\ chan'[s][k] \in accepted'[s]
                 /\ last'[s] < chan'[s][k]
                 /\ \A l \in 1..Len(chan'[s]) : l < k => chan'[s][l] < chan'[s][k]
      <4>1. CASE k \in 1..Len(chan[s])
        BY <3>5, <3>7, <4>1
      <4>2. CASE k = Len(chan[s]) + 1
        BY <2>3, <3>2, <3>3, <3>5, <3>7, <4>2
      <4> QED
        BY <3>6, <4>1, <4>2
    <3> QED
      BY <2>1, <3>4, <3>8 DEF OrderInv, BufferInOrder
  <2> QED
    BY <2>2, <2>3, SendCases
<1> QED
  BY <1>5, <1>6, <1>7, <1>8 DEF OrderInv

LEMMA QuietOrder ==
  ASSUME TypeOK, OrderInv,
         \/ \E s \in Subs : HandlerStep(s) /\ ~SubscribeInsert(s) /\ ~Receive(s)
         \/ \E p \in Publishers, e \in Event : PublishCall(p, e)
         \/ \E p \in Publishers, s \in Subs : PublishRemove(p, s) \/ PublishClose(p, s)
         \/ \E p \in Publishers : PublishReturn(p)
         \/ ShutdownFlag \/ ShutdownStep \/ UNCHANGED vars
  PROVE  OrderInv'
<1> USE DEF hubVars, subVars, pubVars, histVars
<1>1. /\ UNCHANGED <<log, filter, base, accepted, cur, snap, chan, last>>
      /\ subs' \subseteq subs
  BY DEF HandlerStep, SubscribeLoad, ReceiveClosed, Leave, CancelDelete,
     CancelClose, PublishCall, PublishRemove, PublishClose, PublishReturn,
     ShutdownFlag, ShutdownStep, ShutdownLock, ShutdownClose, ShutdownUnlock, vars
<1>2. CASE UNCHANGED dropped
  BY <1>1, <1>2, OrderFrame
<1>3. ASSUME NEW p \in Publishers, NEW s \in Subs, PublishRemove(p, s)
      PROVE  OrderInv'
  <2>1. \A q \in Publishers : dropped[q] \cap subs' \subseteq dropped'[q]
    BY <1>3 DEF PublishRemove, TypeOK
  <2> QED
    BY <1>1, <2>1, OrderFrame
<1>4. UNCHANGED dropped \/ \E p \in Publishers, s \in Subs : PublishRemove(p, s)
  BY DEF HandlerStep, SubscribeLoad, ReceiveClosed, Leave, CancelDelete,
     CancelClose, PublishCall, PublishClose, PublishReturn, ShutdownFlag,
     ShutdownStep, ShutdownLock, ShutdownClose, ShutdownUnlock, vars
<1> QED
  BY <1>2, <1>3, <1>4

LEMMA NextOrder ==
  ASSUME TypeOK, PermitInv, Resting, WantInv, OrderInv, OnePublisher, [Next]_vars
  PROVE  OrderInv'
<1>1. ASSUME NEW s \in Subs, HandlerStep(s) PROVE OrderInv'
  BY <1>1, InsertOrder, ReceiveOrder, QuietOrder
<1>2. ASSUME NEW p \in Publishers, PublisherStep(p) PROVE OrderInv'
  BY <1>2, SnapshotOrder, SkipOrder, SendOrder, QuietOrder DEF PublisherStep
<1> QED
  BY <1>1, <1>2, QuietOrder, StepCases

LEMMA OrderInvariant ==
  ASSUME OnePublisher
  PROVE  Spec => []OrderInv
<1>1. Init => OrderInv
  <2> SUFFICES ASSUME Init PROVE OrderInv
    OBVIOUS
  <2>1. subs = {} /\ \A p \in Publishers : snap[p] = {}
    BY DEF Init
  <2>2. \A s \in Subs : last[s] = 0 /\ accepted[s] = {} /\ Len(chan[s]) = 0
    BY DEF Init
  <2> QED
    BY <2>1, <2>2 DEF OrderInv, RegisteredKept, CaughtUp, PrefixAccepted, BufferInOrder
<1>2. TypeOK /\ PermitInv /\ Resting /\ WantInv /\ OrderInv /\ [Next]_vars => OrderInv'
  BY NextOrder
<1>3. Spec => []Resting
  <2>1. Init => Resting
    BY DEF Init, Resting
  <2>2. TypeOK /\ Resting /\ [Next]_vars => Resting'
    BY NextResting
  <2> QED
    BY <2>1, <2>2, TypeCorrect, PTL DEF Spec
<1> QED
  BY <1>1, <1>2, <1>3, TypeCorrect, PermitInvariant, WantInvariant, PTL DEF Spec

(* With one publisher, everything a subscriber wanted up to the last event  *)
(* it got, it got, past a drop, a cancel and a shutdown.                    *)
THEOREM ReceivedGapFree ==
  ASSUME OnePublisher
  PROVE  Spec => []GapFree
<1>1. TypeOK /\ OrderInv => GapFree
  BY OrderIsGapFree
<1> QED
  BY <1>1, OrderInvariant, TypeCorrect, PTL

-----------------------------------------------------------------------------
(* The refinement.  Each step of the hub is one step of the feed, or none   *)
(* that a subscriber could see.                                             *)

LEMMA StatusFrame ==
  ASSUME UNCHANGED closed,
         \A s \in Subs : New(s)' <=> New(s)
  PROVE  UNCHANGED FeedStatus
<1>1. \A s \in Subs :
        (IF New(s)' THEN "new" ELSE IF closed'[s] THEN "cut" ELSE "live")
          = (IF New(s) THEN "new" ELSE IF closed[s] THEN "cut" ELSE "live")
  OBVIOUS
<1> QED
  BY <1>1 DEF FeedStatus, New

(* A subscription that is registered, or whose permit a publisher or its    *)
(* own handler holds, has an open channel: closing it cuts a live feed.     *)
LEMMA CloseCuts ==
  ASSUME TypeOK, NEW s \in Subs, ~New(s), ~closed[s], CloseChannel(s),
         \A t \in Subs : New(t)' <=> New(t),
         UNCHANGED <<log, filter, base, accepted>>
  PROVE  Feed!Cut(s)
<1>1. closed' = [closed EXCEPT ![s] = TRUE]
  BY DEF CloseChannel
<1>2. DOMAIN closed = Subs /\ closed'[s]
  BY <1>1 DEF TypeOK
<1>3. \A t \in Subs \ {s} : closed'[t] = closed[t]
  BY <1>1, <1>2
<1>4. FeedStatus[s] = "live"
  BY DEF FeedStatus, New
<1>5. FeedStatus' = [FeedStatus EXCEPT ![s] = "cut"]
  <2>1. \A t \in Subs \ {s} : FeedStatus'[t] = FeedStatus[t]
    BY <1>3 DEF FeedStatus, New
  <2>2. FeedStatus'[s] = "cut"
    BY <1>2 DEF FeedStatus, New
  <2>3. /\ FeedStatus = [t \in Subs |-> FeedStatus[t]]
        /\ FeedStatus' = [t \in Subs |-> FeedStatus'[t]]
    BY DEF FeedStatus
  <2> QED
    BY <2>1, <2>2, <2>3
<1> QED
  BY <1>4, <1>5 DEF Feed!Cut

LEMMA InsertJoins ==
  ASSUME TypeOK, PermitInv, NEW s \in Subs, SubscribeInsert(s)
  PROVE  Feed!Join(s) \/ UNCHANGED <<log, filter, FeedStatus, base, accepted>>
<1>1. UNCHANGED <<log, filter, closed, accepted>> /\ New(s)
      /\ hpc[s] = "loaded"
  BY DEF SubscribeInsert, New
<1>2. \A t \in Subs \ {s} : hpc'[t] = hpc[t]
  BY DEF SubscribeInsert, TypeOK
<1>3. CASE hpc'[s] = "open" /\ base' = [base EXCEPT ![s] = Len(log)]
  <2>1. ~closed[s]
    BY <1>1 DEF PermitInv, HandlerPermit
  <2>2. FeedStatus[s] = "new"
    BY <1>1 DEF FeedStatus, New
  <2>3. FeedStatus' = [FeedStatus EXCEPT ![s] = "live"]
    <3>1. \A t \in Subs \ {s} : FeedStatus'[t] = FeedStatus[t]
      BY <1>1, <1>2 DEF FeedStatus
    <3>2. FeedStatus'[s] = "live"
      BY <1>1, <1>3, <2>1 DEF FeedStatus
    <3>3. /\ FeedStatus = [t \in Subs |-> FeedStatus[t]]
          /\ FeedStatus' = [t \in Subs |-> FeedStatus'[t]]
      BY DEF FeedStatus
    <3> QED
      BY <3>1, <3>2, <3>3
  <2> QED
    BY <1>1, <1>3, <2>2, <2>3 DEF Feed!Join
<1>4. CASE hpc'[s] = "rejected" /\ UNCHANGED base
  <2>1. \A t \in Subs : New(t)' <=> New(t)
    BY <1>1, <1>2, <1>4 DEF New
  <2> QED
    BY <1>1, <1>4, <2>1, StatusFrame
<1> QED
  BY <1>3, <1>4 DEF SubscribeInsert, TypeOK

LEMMA SendHands ==
  ASSUME TypeOK, PermitInv, WantInv, OrderInv,
         NEW p \in Publishers, NEW s \in Subs, PublishSend(p, s)
  PROVE  Feed!Hand(s) \/ UNCHANGED <<log, filter, FeedStatus, base, accepted>>
<1>1. UNCHANGED <<log, filter, FeedStatus, base>>
  BY SendCases, StatusFrame DEF New
<1>2. CASE ~UNCHANGED accepted
  <2>1. ~closed[s] /\ accepted' = [accepted EXCEPT ![s] = accepted[s] \cup {cur[p]}]
    BY <1>2, SendCases
  <2>2. ~New(s)
    BY SendCases DEF WantInv, NewUntouched
  <2>3. FeedStatus[s] = "live"
    BY <2>1, <2>2 DEF FeedStatus, New
  <2>4. cur[p] \in (base[s] + 1)..Len(log)
    BY SendCases DEF WantInv, Addressed
  <2>5. Feed!IsNext(s, cur[p])
    <3>1. cur[p] \notin accepted[s] /\ Matches(filter[s], log[cur[p]])
      BY SendCases DEF OrderInv, CaughtUp
    <3>2. ASSUME NEW j \in (base[s] + 1)..(cur[p] - 1), Matches(filter[s], log[j])
          PROVE  j \in accepted[s]
      <4>1. base[s] \in Nat /\ Len(log) \in Nat /\ cur[p] \in Nat
        BY SendCases, LenProperties DEF TypeOK
      <4>2. j \in (base[s] + 1)..Len(log) /\ j < cur[p]
        BY <2>4, <4>1
      <4> QED
        BY <3>2, <4>2, SendCases DEF OrderInv, CaughtUp, Wanted
    <3> QED
      BY <3>1, <3>2 DEF Feed!IsNext
  <2> QED
    BY <1>1, <2>1, <2>3, <2>4, <2>5 DEF Feed!Hand
<1> QED
  BY <1>1, <1>2

LEMMA HandlerFeeds ==
  ASSUME TypeOK, PermitInv, WantInv, NEW s \in Subs, HandlerStep(s)
  PROVE  [Feed!FeedNext]_<<log, filter, FeedStatus, base, accepted>>
<1> USE DEF pubVars, histVars, subVars, hubVars
<1>1. CASE SubscribeInsert(s)
  BY <1>1, InsertJoins DEF Feed!FeedNext
<1>2. CASE CancelClose(s)
  <2>1. UNCHANGED <<log, filter, base, accepted>> /\ CloseChannel(s)
        /\ hpc[s] = "close"
    BY <1>2 DEF CancelClose
  <2>2. ~New(s) /\ ~closed[s]
    BY <2>1 DEF New, PermitInv, HandlerPermit
  <2>3. \A t \in Subs : New(t)' <=> New(t)
    BY <1>2 DEF CancelClose, New, TypeOK
  <2> QED
    BY <2>1, <2>2, <2>3, CloseCuts DEF Feed!FeedNext
<1>3. CASE SubscribeLoad(s) \/ Receive(s) \/ ReceiveClosed(s) \/ Leave(s)
           \/ CancelDelete(s)
  <2>1. UNCHANGED <<log, filter, base, accepted, closed>>
    BY <1>3 DEF SubscribeLoad, Receive, ReceiveClosed, Leave, CancelDelete
  <2>2. \A t \in Subs : New(t)' <=> New(t)
    BY <1>3 DEF SubscribeLoad, Receive, ReceiveClosed, Leave, CancelDelete,
       New, TypeOK
  <2> QED
    BY <2>1, <2>2, StatusFrame
<1> QED
  BY <1>1, <1>2, <1>3 DEF HandlerStep

LEMMA PublisherFeeds ==
  ASSUME TypeOK, PermitInv, WantInv, OrderInv, NEW p \in Publishers,
         PublisherStep(p) \/ \E e \in Event : PublishCall(p, e)
  PROVE  [Feed!FeedNext]_<<log, filter, FeedStatus, base, accepted>>
<1> USE DEF pubVars, histVars, subVars, hubVars
<1>1. CASE PublishSnapshot(p)
  <2>1. UNCHANGED <<hpc, closed, filter, base, accepted>>
        /\ log' = Append(log, arg[p]) /\ arg[p] \in Event
    BY <1>1 DEF PublishSnapshot, TypeOK
  <2>2. UNCHANGED FeedStatus
    BY <2>1, StatusFrame DEF New
  <2> QED
    BY <2>1, <2>2 DEF Feed!FeedNext, Feed!Publish
<1>2. CASE \E s \in Subs : PublishSend(p, s)
  BY <1>2, SendHands DEF Feed!FeedNext
<1>3. ASSUME NEW s \in Subs, PublishClose(p, s)
      PROVE  Feed!FeedNext
  <2>1. UNCHANGED <<log, filter, base, accepted, hpc>> /\ CloseChannel(s)
        /\ s \in pending[p]
    BY <1>3 DEF PublishClose
  <2>2. ~New(s) /\ ~closed[s]
    BY <2>1 DEF WantInv, NewUntouched, PermitInv, PublisherPermit
  <2> QED
    BY <2>1, <2>2, CloseCuts DEF Feed!FeedNext, New
<1>4. CASE \/ \E s \in Subs : PublishSkip(p, s) \/ PublishRemove(p, s)
           \/ PublishReturn(p)
           \/ \E e \in Event : PublishCall(p, e)
  <2>1. UNCHANGED <<log, filter, base, accepted, hpc, closed>>
    BY <1>4 DEF PublishSkip, PublishRemove, PublishReturn, PublishCall
  <2> QED
    BY <2>1, StatusFrame DEF New
<1> QED
  BY <1>1, <1>2, <1>3, <1>4 DEF PublisherStep

LEMMA ShutdownFeeds ==
  ASSUME TypeOK, PermitInv, WantInv,
         ShutdownFlag \/ ShutdownStep \/ UNCHANGED vars
  PROVE  [Feed!FeedNext]_<<log, filter, FeedStatus, base, accepted>>
<1> USE DEF pubVars, histVars, subVars, hubVars
<1>1. ASSUME NEW s \in Subs, ShutdownClose(s)
      PROVE  Feed!FeedNext
  <2>1. UNCHANGED <<log, filter, base, accepted, hpc>> /\ CloseChannel(s)
        /\ s \in subs
    BY <1>1 DEF ShutdownClose
  <2>2. ~New(s) /\ ~closed[s]
    BY <2>1 DEF New, PermitInv, RegisteredOpen
  <2> QED
    BY <2>1, <2>2, CloseCuts DEF Feed!FeedNext, New
<1>2. CASE ShutdownFlag \/ ShutdownLock \/ ShutdownUnlock \/ UNCHANGED vars
  <2>1. UNCHANGED <<log, filter, base, accepted, hpc, closed>>
    BY <1>2 DEF ShutdownFlag, ShutdownLock, ShutdownUnlock, vars
  <2> QED
    BY <2>1, StatusFrame DEF New
<1> QED
  BY <1>1, <1>2 DEF ShutdownStep

(* With one publisher, the hub implements the feed that EventFeed promises  *)
(* a subscriber: the events it wants since it joined, one by one and in     *)
(* order, and nothing once it is cut, whoever cuts it.                      *)
THEOREM FeedImplemented ==
  ASSUME OnePublisher
  PROVE  Spec => ImplementsFeed
<1>1. Init => Feed!FeedInit
  BY DEF Init, Feed!FeedInit, FeedStatus
<1>2. TypeOK /\ PermitInv /\ WantInv /\ OrderInv /\ [Next]_vars
        => [Feed!FeedNext]_(Feed!feed)
  BY StepCases, HandlerFeeds, PublisherFeeds, ShutdownFeeds DEF Feed!feed
<1> QED
  BY <1>1, <1>2, TypeCorrect, PermitInvariant, WantInvariant, OrderInvariant,
     PTL DEF Spec, ImplementsFeed, Feed!FeedSpec
=============================================================================
