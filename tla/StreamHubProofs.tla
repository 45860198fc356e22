--------------------------- MODULE StreamHubProofs ---------------------------
(***************************************************************************)
(* Proofs about StreamHub for every set of subscriptions and publishers,   *)
(* every buffer size, cap, filter set and number of events.                *)
(***************************************************************************)
EXTENDS StreamHub, SequenceTheorems, FiniteSetTheorems, TLAPS

(* Every step of StreamHub is one of its actions, or leaves vars alone.     *)
LEMMA StepCases ==
  ASSUME [Next]_vars
  PROVE  \/ \E s \in Subs : HandlerStep(s)
         \/ \E p \in Publishers : PublisherStep(p)
         \/ \E p \in Publishers, e \in Event : PublishCall(p, e)
         \/ ShutdownFlag
         \/ ShutdownStep
         \/ UNCHANGED vars
  BY DEF Next, Step, Finished

-----------------------------------------------------------------------------
LEMMA InitTypeOK == Init => TypeOK
<1> SUFFICES ASSUME Init PROVE TypeOK
  OBVIOUS
<1>1. Event # {}
  <2>1. PICK k \in Kinds, a \in Assets : TRUE
    BY HubAssumption
  <2>2. [kind |-> k, asset |-> a] \in Event
    BY DEF Event
  <2> QED
    BY <2>2
<1>2. (CHOOSE e \in Event : TRUE) \in Event
  BY <1>1
<1>3. arg \in [Publishers -> Event]
  BY <1>2 DEF Init
<1>4. filter \in [Subs -> Filter]
  BY HubAssumption DEF Init
<1>5. chan \in [Subs -> Seq(Nat)] /\ log \in Seq(Event)
  <2>1. <<>> \in Seq(Nat) /\ <<>> \in Seq(Event)
    OBVIOUS
  <2> QED
    BY <2>1 DEF Init
<1> QED
  BY <1>3, <1>4, <1>5 DEF Init, TypeOK

LEMMA HandlerTypeOK ==
  ASSUME TypeOK, NEW s \in Subs, HandlerStep(s)
  PROVE  TypeOK'
<1>1. CASE SubscribeLoad(s)
  BY <1>1 DEF SubscribeLoad, TypeOK, hubVars, subVars, pubVars, histVars
<1>2. CASE SubscribeInsert(s)
  <2>1. Len(log) \in Nat
    BY LenProperties DEF TypeOK
  <2>2. base' \in [Subs -> Nat] /\ subs' \in SUBSET Subs
    BY <1>2, <2>1 DEF SubscribeInsert, TypeOK
  <2>3. hpc' \in [Subs -> {"idle", "loaded", "rejected", "open", "cancel",
                          "close", "done"}]
    BY <1>2 DEF SubscribeInsert, TypeOK
  <2> QED
    BY <1>2, <2>2, <2>3 DEF SubscribeInsert, TypeOK, hubVars, subVars, pubVars,
                            histVars
<1>3. CASE Receive(s)
  <2>1. chan[s] \in Seq(Nat) /\ chan[s] # <<>>
    BY <1>3 DEF Receive, TypeOK
  <2>2. Head(chan[s]) \in Nat /\ Tail(chan[s]) \in Seq(Nat)
    BY <2>1, HeadTailProperties
  <2>3. chan' \in [Subs -> Seq(Nat)] /\ last' \in [Subs -> Nat]
    BY <1>3, <2>2 DEF Receive, TypeOK
  <2> QED
    BY <1>3, <2>3 DEF Receive, TypeOK, hubVars, subVars, pubVars, histVars
<1>4. CASE ReceiveClosed(s)
  BY <1>4 DEF ReceiveClosed, TypeOK, hubVars, subVars, pubVars, histVars
<1>5. CASE Leave(s)
  BY <1>5 DEF Leave, TypeOK, hubVars, subVars, pubVars, histVars
<1>6. CASE CancelDelete(s)
  BY <1>6 DEF CancelDelete, TypeOK, hubVars, subVars, pubVars, histVars
<1>7. CASE CancelClose(s)
  BY <1>7 DEF CancelClose, CloseChannel, TypeOK, hubVars, subVars, pubVars,
              histVars
<1> QED
  BY <1>1, <1>2, <1>3, <1>4, <1>5, <1>6, <1>7 DEF HandlerStep

LEMMA PublisherTypeOK ==
  ASSUME TypeOK, NEW p \in Publishers, PublisherStep(p)
  PROVE  TypeOK'
<1>1. CASE PublishSnapshot(p)
  <2>1. arg[p] \in Event /\ log \in Seq(Event) /\ Len(log) \in Nat
    BY LenProperties DEF TypeOK
  <2>2. log' \in Seq(Event)
    BY <1>1, <2>1, AppendProperties DEF PublishSnapshot
  <2>3. cur' \in [Publishers -> Nat]
    <3>1. Len(log) + 1 \in Nat
      BY <2>1
    <3>2. cur' = [cur EXCEPT ![p] = Len(log) + 1]
      BY <1>1 DEF PublishSnapshot
    <3> QED
      BY <3>1, <3>2 DEF TypeOK
  <2> QED
    BY <1>1, <2>2, <2>3 DEF PublishSnapshot, TypeOK, hubVars, subVars, pubVars,
                            histVars
<1>2. ASSUME NEW s \in Subs, PublishSkip(p, s) PROVE TypeOK'
  BY <1>2 DEF PublishSkip, TypeOK, hubVars, subVars, pubVars, histVars
<1>3. ASSUME NEW s \in Subs, PublishSend(p, s) PROVE TypeOK'
  <2>1. chan[s] \in Seq(Nat) /\ cur[p] \in Nat
    BY DEF TypeOK
  <2>2. Append(chan[s], cur[p]) \in Seq(Nat)
    BY <2>1, AppendProperties
  <2>3. chan' \in [Subs -> Seq(Nat)]
    BY <1>3, <2>2 DEF PublishSend, SendPanics, SendAccepted, SendOverflows,
       TypeOK
  <2>4. accepted' \in [Subs -> SUBSET Nat]
    <3>1. accepted[s] \cup {cur[p]} \in SUBSET Nat
      BY <2>1 DEF TypeOK
    <3>2. \/ UNCHANGED accepted
          \/ accepted' = [accepted EXCEPT ![s] = accepted[s] \cup {cur[p]}]
      BY <1>3 DEF PublishSend, SendPanics, SendAccepted,
         SendOverflows
    <3> QED
      BY <3>1, <3>2 DEF TypeOK
  <2>5. dropped' \in [Publishers -> SUBSET Subs]
    <3>1. dropped[p] \cup {s} \in SUBSET Subs
      BY DEF TypeOK
    <3>2. \/ UNCHANGED dropped
          \/ dropped' = [dropped EXCEPT ![p] = dropped[p] \cup {s}]
      BY <1>3 DEF PublishSend, SendPanics, SendAccepted,
         SendOverflows
    <3> QED
      BY <3>1, <3>2 DEF TypeOK
  <2>6. panic' \in {"none", "send on closed channel", "close of closed channel"}
    BY <1>3 DEF PublishSend, SendPanics, SendAccepted, SendOverflows, TypeOK
  <2>7. snap' \in [Publishers -> SUBSET Subs]
    BY <1>3 DEF PublishSend, SendPanics, SendAccepted, SendOverflows, TypeOK
  <2> QED
    BY <1>3, <2>3, <2>4, <2>5, <2>6, <2>7
       DEF PublishSend, SendPanics, SendAccepted, SendOverflows, TypeOK, hubVars,
                                              histVars
<1>4. ASSUME NEW s \in Subs, PublishRemove(p, s) PROVE TypeOK'
  BY <1>4 DEF PublishRemove, TypeOK, hubVars, subVars, pubVars, histVars
<1>5. ASSUME NEW s \in Subs, PublishClose(p, s) PROVE TypeOK'
  BY <1>5 DEF PublishClose, CloseChannel, TypeOK, hubVars, subVars, pubVars,
              histVars
<1>6. CASE PublishReturn(p)
  BY <1>6 DEF PublishReturn, TypeOK, hubVars, subVars, pubVars, histVars
<1> QED
  BY <1>1, <1>2, <1>3, <1>4, <1>5, <1>6 DEF PublisherStep

LEMMA EnvironmentTypeOK ==
  ASSUME TypeOK,
         \/ \E p \in Publishers, e \in Event : PublishCall(p, e)
         \/ ShutdownFlag
         \/ ShutdownStep
  PROVE  TypeOK'
<1>1. ASSUME NEW p \in Publishers, NEW e \in Event, PublishCall(p, e)
      PROVE  TypeOK'
  BY <1>1 DEF PublishCall, TypeOK, hubVars, subVars, pubVars, histVars
<1>2. CASE ShutdownFlag
  BY <1>2 DEF ShutdownFlag, TypeOK, hubVars, subVars, pubVars, histVars
<1>3. CASE ShutdownLock
  BY <1>3 DEF ShutdownLock, TypeOK, hubVars, subVars, pubVars, histVars
<1>4. ASSUME NEW s \in Subs, ShutdownClose(s) PROVE TypeOK'
  BY <1>4 DEF ShutdownClose, CloseChannel, TypeOK, hubVars, subVars, pubVars,
              histVars
<1>5. CASE ShutdownUnlock
  BY <1>5 DEF ShutdownUnlock, TypeOK, hubVars, subVars, pubVars, histVars
<1> QED
  BY <1>1, <1>2, <1>3, <1>4, <1>5 DEF ShutdownStep

LEMMA StutterTypeOK ==
  ASSUME TypeOK, UNCHANGED vars
  PROVE  TypeOK'
  BY DEF TypeOK, vars, hubVars, subVars, pubVars, histVars

LEMMA NextTypeOK ==
  ASSUME TypeOK, [Next]_vars
  PROVE  TypeOK'
  BY StepCases, HandlerTypeOK, PublisherTypeOK, EnvironmentTypeOK, StutterTypeOK

(* Type correctness: no interleaving of the hub's goroutines leaves the     *)
(* state space of TypeOK.                                                   *)
THEOREM TypeCorrect == Spec => []TypeOK
<1>1. Init => TypeOK
  BY InitTypeOK
<1>2. TypeOK /\ [Next]_vars => TypeOK'
  BY NextTypeOK
<1> QED
  BY <1>1, <1>2, PTL DEF Spec

-----------------------------------------------------------------------------
(* Only one party ever closes a channel.  NoDoubleClose alone is not        *)
(* inductive: that a channel about to be closed is still open follows from  *)
(* the permits of StreamHub.                                                *)

PermitInv == /\ RegisteredOpen
             /\ HandlerPermit
             /\ PublisherPermit
             /\ ReadersKept
             /\ NoDoubleClose

LEMMA InitPermit == Init => PermitInv
  BY DEF Init, PermitInv, RegisteredOpen, HandlerPermit, PublisherPermit,
         ReadersKept, NoDoubleClose

(* Steps of a handler up to its deferred Cancel touch no permit.            *)
LEMMA ReaderPermit ==
  ASSUME TypeOK, PermitInv, NEW s \in Subs,
         \/ SubscribeLoad(s) \/ Receive(s) \/ ReceiveClosed(s) \/ Leave(s)
  PROVE  PermitInv'
<1>1. UNCHANGED <<subs, closed, pending, panic>>
  BY DEF SubscribeLoad, Receive, ReceiveClosed, Leave, hubVars, pubVars
<1>2. \A t \in Subs \ {s} : hpc'[t] = hpc[t]
  BY DEF SubscribeLoad, Receive, ReceiveClosed, Leave, TypeOK
<1>3. \/ hpc'[s] = hpc[s]
      \/ hpc[s] = "idle" /\ hpc'[s] \in {"loaded", "rejected"}
      \/ hpc[s] = "open" /\ hpc'[s] = "cancel"
  BY DEF SubscribeLoad, Receive, ReceiveClosed, Leave, TypeOK
<1>4. subs \subseteq Subs
  BY DEF TypeOK
<1> QED
  BY <1>1, <1>2, <1>3, <1>4 DEF PermitInv, RegisteredOpen, HandlerPermit,
     PublisherPermit, ReadersKept, NoDoubleClose

LEMMA InsertPermit ==
  ASSUME TypeOK, PermitInv, NEW s \in Subs, SubscribeInsert(s)
  PROVE  PermitInv'
<1>1. UNCHANGED <<closed, pending, panic>> /\ hpc[s] = "loaded"
  BY DEF SubscribeInsert, pubVars
<1>2. \A t \in Subs \ {s} : hpc'[t] = hpc[t]
  BY DEF SubscribeInsert, TypeOK
<1>3. \/ hpc'[s] = "rejected" /\ subs' = subs
      \/ hpc'[s] = "open" /\ subs' = subs \cup {s}
  BY DEF SubscribeInsert, TypeOK
<1>4. subs \subseteq Subs
  BY DEF TypeOK
<1>5. s \notin subs /\ ~closed[s] /\ \A p \in Publishers : s \notin pending[p]
  BY <1>1 DEF PermitInv, RegisteredOpen, HandlerPermit
<1>6. RegisteredOpen'
  BY <1>1, <1>2, <1>3, <1>4, <1>5
     DEF PermitInv, RegisteredOpen
<1>7. HandlerPermit'
  BY <1>1, <1>2, <1>3, <1>4, <1>5
     DEF PermitInv, HandlerPermit
<1>8. PublisherPermit'
  BY <1>1, <1>2, <1>3, <1>4, <1>5
     DEF PermitInv, PublisherPermit
<1>9. ReadersKept'
  BY <1>1, <1>2, <1>3, <1>4, <1>5
     DEF PermitInv, ReadersKept
<1> QED
  BY <1>1, <1>6, <1>7, <1>8, <1>9 DEF PermitInv, NoDoubleClose

LEMMA CancelPermit ==
  ASSUME TypeOK, PermitInv, NEW s \in Subs, CancelDelete(s) \/ CancelClose(s)
  PROVE  PermitInv'
<1>1. \A t \in Subs \ {s} : hpc'[t] = hpc[t]
  BY DEF CancelDelete, CancelClose, TypeOK
<1>2. subs \subseteq Subs /\ UNCHANGED pending
  BY DEF CancelDelete, CancelClose, TypeOK, pubVars
<1>3. CASE CancelDelete(s)
  <2>1. UNCHANGED <<closed, panic>> /\ subs' = subs \ {s}
    BY <1>3 DEF CancelDelete
  <2>2. hpc'[s] = IF s \in subs THEN "close" ELSE "done"
    BY <1>3 DEF CancelDelete, TypeOK
  <2>3. s \in subs => ~closed[s] /\ \A p \in Publishers : s \notin pending[p]
    BY DEF PermitInv, RegisteredOpen, PublisherPermit
  <2>4. RegisteredOpen'
    BY <2>1, <1>1, <1>2, <2>2, <2>3
       DEF PermitInv, RegisteredOpen
  <2>5. HandlerPermit'
    BY <2>1, <1>1, <1>2, <2>2, <2>3
       DEF PermitInv, HandlerPermit
  <2>6. PublisherPermit'
    BY <2>1, <1>1, <1>2, <2>2, <2>3
       DEF PermitInv, PublisherPermit
  <2>7. ReadersKept'
    BY <2>1, <1>1, <1>2, <2>2, <2>3
       DEF PermitInv, ReadersKept
  <2> QED
    BY <2>1, <2>4, <2>5, <2>6, <2>7 DEF PermitInv, NoDoubleClose
<1>4. CASE CancelClose(s)
  <2>1. hpc[s] = "close" /\ ~closed[s]
    BY <1>4 DEF CancelClose, PermitInv, HandlerPermit
  <2>2. UNCHANGED <<subs, panic>> /\ closed' = [closed EXCEPT ![s] = TRUE]
    BY <1>4, <2>1 DEF CancelClose, CloseChannel, hubVars
  <2>3. hpc'[s] = "done"
    BY <1>4 DEF CancelClose, TypeOK
  <2>4. \A t \in Subs : closed'[t] <=> (closed[t] \/ t = s)
    BY <2>2 DEF TypeOK
  <2>5. s \notin subs /\ \A p \in Publishers : s \notin pending[p]
    BY <2>1 DEF PermitInv, RegisteredOpen, HandlerPermit
  <2>6. \A p \in Publishers : pending[p] \subseteq Subs
    BY DEF TypeOK
  <2>7. RegisteredOpen'
    BY <2>2, <1>1, <1>2, <2>3, <2>4, <2>5, <2>6
       DEF PermitInv, RegisteredOpen
  <2>8. HandlerPermit'
    BY <2>2, <1>1, <1>2, <2>3, <2>4, <2>5, <2>6
       DEF PermitInv, HandlerPermit
  <2>9. PublisherPermit'
    BY <2>2, <1>1, <1>2, <2>3, <2>4, <2>5, <2>6
       DEF PermitInv, PublisherPermit
  <2>10. ReadersKept'
    BY <2>2, <1>1, <1>2, <2>3, <2>4, <2>5, <2>6
       DEF PermitInv, ReadersKept
  <2> QED
    BY <2>2, <2>7, <2>8, <2>9, <2>10 DEF PermitInv, NoDoubleClose
<1> QED
  BY <1>3, <1>4

(* Calls, snapshots and sends leave registry and channels' ends alone.      *)
LEMMA SendPermit ==
  ASSUME TypeOK, PermitInv, NEW p \in Publishers,
         \/ \E e \in Event : PublishCall(p, e)
         \/ PublishSnapshot(p)
         \/ \E s \in Subs : PublishSkip(p, s) \/ PublishSend(p, s)
         \/ PublishReturn(p)
  PROVE  PermitInv'
<1>1. UNCHANGED <<subs, hpc, closed, pending>>
  BY DEF PublishCall, PublishSnapshot, PublishSkip, PublishSend,
         PublishReturn, hubVars, subVars
<1>2. panic' # "close of closed channel"
  BY DEF PublishCall, PublishSnapshot, PublishSkip, PublishSend, SendPanics, SendAccepted,
     SendOverflows,
         PublishReturn, PermitInv, NoDoubleClose
<1> QED
  BY <1>1, <1>2 DEF PermitInv, RegisteredOpen, HandlerPermit,
     PublisherPermit, ReadersKept, NoDoubleClose

LEMMA RemovePermit ==
  ASSUME TypeOK, PermitInv, NEW p \in Publishers, NEW s \in Subs,
         PublishRemove(p, s)
  PROVE  PermitInv'
<1>1. UNCHANGED <<hpc, closed, panic>> /\ subs' = subs \ {s} /\ pending[p] = {}
  BY DEF PublishRemove, subVars
<1>2. /\ pending'[p] = subs \cap {s}
      /\ \A q \in Publishers \ {p} : pending'[q] = pending[q]
  BY DEF PublishRemove, TypeOK
<1>3. s \in subs => /\ hpc[s] \in {"open", "cancel"} /\ ~closed[s]
                    /\ \A q \in Publishers : s \notin pending[q]
  BY DEF PermitInv, RegisteredOpen, PublisherPermit
<1>4. RegisteredOpen' /\ NoDoubleClose'
  BY <1>1 DEF PermitInv, RegisteredOpen, NoDoubleClose
<1>5. HandlerPermit'
  BY <1>1, <1>2, <1>3 DEF PermitInv, HandlerPermit
<1>6. PublisherPermit'
  BY <1>1, <1>2, <1>3 DEF PermitInv, PublisherPermit
<1>7. ReadersKept'
  BY <1>1, <1>2, <1>3 DEF PermitInv, ReadersKept
<1> QED
  BY <1>4, <1>5, <1>6, <1>7 DEF PermitInv

LEMMA DropPermit ==
  ASSUME TypeOK, PermitInv, NEW p \in Publishers, NEW s \in Subs,
         PublishClose(p, s)
  PROVE  PermitInv'
<1>1. s \in pending[p] /\ s \notin subs /\ ~closed[s] /\ pending[p] = {s}
  BY DEF PublishClose, PermitInv, PublisherPermit
<1>2. UNCHANGED <<subs, hpc, panic>> /\ closed' = [closed EXCEPT ![s] = TRUE]
  BY <1>1 DEF PublishClose, CloseChannel, hubVars
<1>3. \A t \in Subs : closed'[t] <=> (closed[t] \/ t = s)
  BY <1>2 DEF TypeOK
<1>4. /\ pending'[p] = {}
      /\ \A q \in Publishers \ {p} : pending'[q] = pending[q]
  BY DEF PublishClose, TypeOK
<1>5. /\ subs \subseteq Subs
      /\ \A q \in Publishers : pending[q] \subseteq Subs
  BY DEF TypeOK
<1>6. \A q \in Publishers \ {p} : s \notin pending[q]
  BY <1>1 DEF PermitInv, PublisherPermit
<1>7. RegisteredOpen' /\ NoDoubleClose'
  BY <1>1, <1>2, <1>3, <1>5 DEF PermitInv, RegisteredOpen, NoDoubleClose
<1>8. HandlerPermit'
  BY <1>1, <1>2, <1>3, <1>4 DEF PermitInv, HandlerPermit
<1>9. PublisherPermit'
  BY <1>2, <1>3, <1>4, <1>5, <1>6 DEF PermitInv, PublisherPermit
<1>10. ReadersKept'
  BY <1>1, <1>2, <1>3, <1>4 DEF PermitInv, ReadersKept
<1> QED
  BY <1>7, <1>8, <1>9, <1>10 DEF PermitInv

LEMMA ShutdownPermit ==
  ASSUME TypeOK, PermitInv, ShutdownFlag \/ ShutdownStep
  PROVE  PermitInv'
<1>1. CASE ShutdownFlag \/ ShutdownLock \/ ShutdownUnlock
  <2>1. UNCHANGED <<subs, hpc, closed, pending, panic>>
    BY <1>1 DEF ShutdownFlag, ShutdownLock, ShutdownUnlock, subVars, pubVars
  <2> QED
    BY <2>1 DEF PermitInv, RegisteredOpen, HandlerPermit, PublisherPermit,
       ReadersKept, NoDoubleClose
<1>2. ASSUME NEW s \in Subs, ShutdownClose(s) PROVE PermitInv'
  <2>1. s \in subs /\ ~closed[s] /\ hpc[s] \in {"open", "cancel"}
    BY <1>2 DEF ShutdownClose, PermitInv, RegisteredOpen
  <2>2. /\ UNCHANGED <<hpc, pending, panic>> /\ subs' = subs \ {s}
        /\ closed' = [closed EXCEPT ![s] = TRUE]
    BY <1>2, <2>1 DEF ShutdownClose, CloseChannel, pubVars
  <2>3. \A t \in Subs : closed'[t] <=> (closed[t] \/ t = s)
    BY <2>2 DEF TypeOK
  <2>4. \A p \in Publishers : s \notin pending[p] /\ pending[p] \subseteq Subs
    BY <2>1 DEF PermitInv, PublisherPermit, TypeOK
  <2>5. subs \subseteq Subs
    BY DEF TypeOK
  <2>6. RegisteredOpen'
    BY <2>2, <2>1, <2>3, <2>4, <2>5
       DEF PermitInv, RegisteredOpen
  <2>7. HandlerPermit'
    BY <2>2, <2>1, <2>3, <2>4, <2>5
       DEF PermitInv, HandlerPermit
  <2>8. PublisherPermit'
    BY <2>2, <2>1, <2>3, <2>4, <2>5
       DEF PermitInv, PublisherPermit
  <2>9. ReadersKept'
    BY <2>2, <2>1, <2>3, <2>4, <2>5
       DEF PermitInv, ReadersKept
  <2> QED
    BY <2>2, <2>6, <2>7, <2>8, <2>9 DEF PermitInv, NoDoubleClose
<1> QED
  BY <1>1, <1>2 DEF ShutdownStep

LEMMA NextPermit ==
  ASSUME TypeOK, PermitInv, [Next]_vars
  PROVE  PermitInv'
<1>1. CASE UNCHANGED vars
  BY <1>1 DEF vars, hubVars, subVars, pubVars, PermitInv, RegisteredOpen,
     HandlerPermit, PublisherPermit, ReadersKept, NoDoubleClose
<1>2. ASSUME NEW s \in Subs, HandlerStep(s) PROVE PermitInv'
  BY <1>2, ReaderPermit, InsertPermit, CancelPermit DEF HandlerStep
<1>3. ASSUME NEW p \in Publishers, PublisherStep(p) PROVE PermitInv'
  BY <1>3, SendPermit, RemovePermit, DropPermit DEF PublisherStep
<1> QED
  BY <1>1, <1>2, <1>3, SendPermit, ShutdownPermit, StepCases

LEMMA PermitInvariant == Spec => []PermitInv
<1>1. Init => PermitInv
  BY InitPermit
<1>2. TypeOK /\ PermitInv /\ [Next]_vars => PermitInv'
  BY NextPermit
<1> QED
  BY <1>1, <1>2, TypeCorrect, PTL DEF Spec

(* For any number of publishers and handlers, a channel is closed at most   *)
(* once, whoever of remove and Shutdown wins the race for it.               *)
THEOREM ClosedAtMostOnce == Spec => []NoDoubleClose
<1>1. PermitInv => NoDoubleClose
  BY DEF PermitInv
<1> QED
  BY <1>1, PermitInvariant, PTL

-----------------------------------------------------------------------------
(* No silent loss.  An event can only be missed by a subscription that is   *)
(* not in the snapshot (it is then not registered, hence by ReadersKept     *)
(* about to be closed) or whose buffer is full (it is then condemned).      *)

LEMMA NextResting ==
  ASSUME TypeOK, Resting, [Next]_vars
  PROVE  Resting'
<1>1. CASE UNCHANGED <<ppc, snap, dropped, pending>>
  BY <1>1 DEF Resting
<1>2. ASSUME NEW p \in Publishers, PublisherStep(p) PROVE Resting'
  <2>1. /\ \A q \in Publishers \ {p} :
             /\ ppc'[q] = ppc[q] /\ snap'[q] = snap[q]
             /\ dropped'[q] = dropped[q] /\ pending'[q] = pending[q]
    BY <1>2 DEF PublisherStep, PublishSnapshot, PublishSkip, PublishSend, SendPanics, SendAccepted,
       SendOverflows,
       PublishRemove, PublishClose, PublishReturn, TypeOK
  <2>2. ppc'[p] # "sending" => /\ snap'[p] = {} /\ dropped'[p] = {}
                               /\ pending'[p] = {}
    <3>1. CASE PublishReturn(p)
      BY <3>1 DEF PublishReturn
    <3>2. CASE PublishSnapshot(p)
      BY <3>2 DEF PublishSnapshot, TypeOK
    <3>3. ASSUME NEW s \in Subs,
                 \/ PublishSkip(p, s) \/ PublishSend(p, s)
                 \/ PublishRemove(p, s) \/ PublishClose(p, s)
          PROVE  ppc'[p] = "sending"
      BY <3>3 DEF PublishSkip, PublishSend, PublishRemove, PublishClose,
         Resting, TypeOK
    <3> QED
      BY <1>2, <3>1, <3>2, <3>3 DEF PublisherStep
  <2> QED
    BY <2>1, <2>2 DEF Resting
<1>3. ASSUME NEW p \in Publishers, NEW e \in Event, PublishCall(p, e)
      PROVE  Resting'
  <2>1. UNCHANGED <<snap, dropped, pending>>
    BY <1>3 DEF PublishCall
  <2>2. \A q \in Publishers : ppc'[q] # "sending" => ppc[q] # "sending"
    BY <1>3 DEF PublishCall, TypeOK
  <2> QED
    BY <2>1, <2>2 DEF Resting
<1>4. ASSUME NEW s \in Subs, HandlerStep(s)
      PROVE  UNCHANGED <<ppc, snap, dropped, pending>>
  BY <1>4 DEF HandlerStep, SubscribeLoad, SubscribeInsert, Receive,
     ReceiveClosed, Leave, CancelDelete, CancelClose, pubVars
<1>5. ShutdownFlag \/ ShutdownStep \/ UNCHANGED vars =>
        UNCHANGED <<ppc, snap, dropped, pending>>
  BY DEF ShutdownFlag, ShutdownStep, ShutdownLock, ShutdownClose,
     ShutdownUnlock, pubVars, vars
<1> QED
  BY <1>1, <1>2, <1>3, <1>4, <1>5, StepCases

(* A step keeps NoSilentLoss if it publishes and registers nothing, reopens *)
(* no channel, and takes a subscription out of a publisher's hands only to  *)
(* serve it, to condemn it, or when its event is not wanted.                *)
LEMMA LossFrame ==
  ASSUME NoSilentLoss,
         UNCHANGED <<log, filter>>,
         \A t \in Subs : hpc'[t] = "open" /\ ~closed'[t] =>
           /\ hpc[t] = "open" /\ ~closed[t] /\ base'[t] = base[t]
           /\ accepted[t] \subseteq accepted'[t]
           /\ \A i \in Wanted(t) :
                Served(t, i) \/ Condemned(t) =>
                  i \in accepted'[t] \/ Served(t, i)' \/ Condemned(t)'
  PROVE  NoSilentLoss'
<1> SUFFICES ASSUME NEW t \in Subs, hpc'[t] = "open", ~closed'[t],
                    NEW i \in Wanted(t)'
             PROVE  i \in accepted'[t] \/ Served(t, i)' \/ Condemned(t)'
  BY DEF NoSilentLoss
<1>1. i \in Wanted(t)
  BY DEF Wanted
<1>2. i \in accepted[t] \/ Served(t, i) \/ Condemned(t)
  BY <1>1 DEF NoSilentLoss
<1> QED
  BY <1>1, <1>2

LEMMA HandlerLoss ==
  ASSUME TypeOK, NoSilentLoss, NEW s \in Subs, HandlerStep(s)
  PROVE  NoSilentLoss'
<1>1. UNCHANGED <<log, filter, accepted, cur, snap, dropped, pending>>
  BY DEF HandlerStep, SubscribeLoad, SubscribeInsert, Receive, ReceiveClosed,
     Leave, CancelDelete, CancelClose, pubVars, histVars
<1>2. CASE SubscribeInsert(s)
  <2>1. /\ UNCHANGED closed
        /\ \A t \in Subs \ {s} : hpc'[t] = hpc[t] /\ base'[t] = base[t]
        /\ hpc'[s] = "open" => base'[s] = Len(log)
    BY <1>2 DEF SubscribeInsert, TypeOK
  <2>2. Len(log) \in Nat
    BY LenProperties DEF TypeOK
  <2>3. hpc'[s] = "open" => Wanted(s)' = {}
    BY <1>1, <2>1, <2>2 DEF Wanted
  <2>4. ASSUME NEW t \in Subs \ {s}, hpc'[t] = "open", ~closed'[t],
               NEW i \in Wanted(t)'
        PROVE  i \in accepted'[t] \/ Served(t, i)' \/ Condemned(t)'
    BY <1>1, <2>1, <2>4 DEF NoSilentLoss, Wanted, Served, Condemned
  <2> QED
    BY <2>3, <2>4 DEF NoSilentLoss
<1>3. CASE ~SubscribeInsert(s)
  <2>1. UNCHANGED base
    BY <1>3 DEF HandlerStep, SubscribeLoad, Receive, ReceiveClosed, Leave,
       CancelDelete, CancelClose, histVars
  <2>2. \A t \in Subs : hpc'[t] = "open" => hpc[t] = "open"
    BY <1>3 DEF HandlerStep, SubscribeLoad, Receive, ReceiveClosed, Leave,
       CancelDelete, CancelClose, TypeOK
  <2>3. \A t \in Subs : closed[t] => closed'[t]
    BY <1>3 DEF HandlerStep, SubscribeLoad, Receive, ReceiveClosed, Leave,
       CancelDelete, CancelClose, CloseChannel, TypeOK
  <2> QED
    BY <1>1, <2>1, <2>2, <2>3, LossFrame DEF Served, Condemned
<1> QED
  BY <1>2, <1>3

LEMMA SnapshotLoss ==
  ASSUME TypeOK, PermitInv, Resting, NoSilentLoss,
         NEW p \in Publishers, PublishSnapshot(p)
  PROVE  NoSilentLoss'
<1>1. /\ UNCHANGED <<hpc, closed, filter, base, accepted, dropped, pending>>
      /\ log' = Append(log, arg[p])
      /\ cur' = [cur EXCEPT ![p] = Len(log) + 1]
      /\ snap' = [snap EXCEPT ![p] = subs]
  BY DEF PublishSnapshot, subVars
<1>2. /\ Len(log) \in Nat
      /\ Len(log') = Len(log) + 1
      /\ \A i \in 1..Len(log) : log'[i] = log[i]
  <2>1. log \in Seq(Event) /\ arg[p] \in Event
    BY DEF TypeOK
  <2> QED
    BY <1>1, <2>1, AppendProperties, LenProperties
<1>3. /\ snap[p] = {} /\ pending[p] = {}
      /\ cur'[p] = Len(log) + 1 /\ snap'[p] = subs
      /\ \A q \in Publishers \ {p} : cur'[q] = cur[q] /\ snap'[q] = snap[q]
  BY <1>1 DEF PublishSnapshot, Resting, TypeOK
<1> SUFFICES ASSUME NEW t \in Subs, hpc[t] = "open", ~closed[t],
                    NEW i \in Wanted(t)'
             PROVE  i \in accepted'[t] \/ Served(t, i)' \/ Condemned(t)'
  BY <1>1 DEF NoSilentLoss
<1>4. base[t] \in Nat
  BY DEF TypeOK
<1>5. CASE i = Len(log) + 1
  <2>1. t \in subs \/ \E q \in Publishers : t \in pending[q]
    BY DEF PermitInv, ReadersKept
  <2>2. t \in subs => Served(t, i)'
    BY <1>3, <1>5 DEF Served
  <2>3. (\E q \in Publishers : t \in pending[q]) => Condemned(t)'
    BY <1>1 DEF Condemned
  <2> QED
    BY <2>1, <2>2, <2>3
<1>6. CASE i # Len(log) + 1
  <2>1. i \in Wanted(t)
    BY <1>1, <1>2, <1>4, <1>6 DEF Wanted
  <2>2. i \in accepted[t] \/ Served(t, i) \/ Condemned(t)
    BY <2>1 DEF NoSilentLoss
  <2>3. Served(t, i) => Served(t, i)'
    BY <1>3 DEF Served
  <2>4. Condemned(t) => Condemned(t)'
    BY <1>1 DEF Condemned
  <2> QED
    BY <1>1, <2>2, <2>3, <2>4
<1> QED
  BY <1>5, <1>6

LEMMA ServeLoss ==
  ASSUME TypeOK, NoSilentLoss, NEW p \in Publishers, NEW s \in Subs,
         PublishSkip(p, s) \/ PublishSend(p, s)
  PROVE  NoSilentLoss'
<1>1. /\ UNCHANGED <<hpc, closed, filter, log, base, cur, pending>>
      /\ s \in snap[p]
      /\ snap' = [snap EXCEPT ![p] = @ \ {s}]
  BY DEF PublishSkip, PublishSend, subVars, histVars
<1>2. /\ snap'[p] = snap[p] \ {s}
      /\ \A q \in Publishers \ {p} : snap'[q] = snap[q]
  BY <1>1 DEF TypeOK
<1>3. /\ \A t \in Subs : accepted[t] \subseteq accepted'[t]
      /\ \A q \in Publishers : dropped[q] \subseteq dropped'[q]
  <2>1. \/ UNCHANGED accepted
        \/ accepted' = [accepted EXCEPT ![s] = accepted[s] \cup {cur[p]}]
    BY DEF PublishSkip, PublishSend, SendPanics, SendAccepted,
       SendOverflows, histVars
  <2>2. \/ UNCHANGED dropped
        \/ dropped' = [dropped EXCEPT ![p] = dropped[p] \cup {s}]
    BY DEF PublishSkip, PublishSend, SendPanics, SendAccepted,
       SendOverflows
  <2>3. accepted \in [Subs -> SUBSET Nat] /\ dropped \in [Publishers -> SUBSET Subs]
    BY DEF TypeOK
  <2>4. \A t \in Subs : accepted[t] \subseteq accepted'[t]
    BY <2>1, <2>3
  <2>5. \A q \in Publishers : dropped[q] \subseteq dropped'[q]
    BY <2>2, <2>3
  <2> QED
    BY <2>4, <2>5
<1>4. ~closed[s] /\ cur[p] \in Wanted(s) =>
        cur[p] \in accepted'[s] \/ s \in dropped'[p]
  <2>1. CASE PublishSkip(p, s)
    BY <2>1 DEF PublishSkip, Passes, Wanted
  <2>2. CASE PublishSend(p, s) /\ ~closed[s]
    <3>1. \/ accepted' = [accepted EXCEPT ![s] = accepted[s] \cup {cur[p]}]
          \/ dropped' = [dropped EXCEPT ![p] = dropped[p] \cup {s}]
      BY <2>2 DEF PublishSend, SendPanics, SendAccepted,
         SendOverflows
    <3>2. DOMAIN accepted = Subs /\ DOMAIN dropped = Publishers
      BY DEF TypeOK
    <3>3. CASE accepted' = [accepted EXCEPT ![s] = accepted[s] \cup {cur[p]}]
      BY <3>2, <3>3
    <3>4. CASE dropped' = [dropped EXCEPT ![p] = dropped[p] \cup {s}]
      BY <3>2, <3>4
    <3> QED
      BY <3>1, <3>3, <3>4
  <2> QED
    BY <2>1, <2>2
<1>5. ASSUME NEW t \in Subs, ~closed[t], NEW i \in Wanted(t), Served(t, i)
      PROVE  i \in accepted'[t] \/ Served(t, i)' \/ Condemned(t)'
  <2>1. PICK q \in Publishers : cur[q] = i /\ t \in snap[q]
    BY <1>5 DEF Served
  <2>2. CASE q = p /\ t = s
    BY <1>4, <1>5, <2>1, <2>2 DEF Condemned
  <2>3. CASE ~(q = p /\ t = s)
    BY <1>1, <1>2, <2>1, <2>3 DEF Served
  <2> QED
    BY <2>2, <2>3
<1>6. \A t \in Subs : Condemned(t) => Condemned(t)'
  BY <1>1, <1>3 DEF Condemned
<1> QED
  BY <1>1, <1>3, <1>5, <1>6, LossFrame

LEMMA RemoveLoss ==
  ASSUME TypeOK, PermitInv, NoSilentLoss,
         NEW p \in Publishers, NEW s \in Subs, PublishRemove(p, s)
  PROVE  NoSilentLoss'
<1>1. UNCHANGED <<hpc, closed, filter, log, base, accepted, cur, snap>>
  BY DEF PublishRemove, subVars, histVars
<1>2. /\ pending[p] = {} /\ pending'[p] = subs \cap {s}
      /\ dropped'[p] = dropped[p] \ {s}
      /\ \A q \in Publishers \ {p} : pending'[q] = pending[q]
                                     /\ dropped'[q] = dropped[q]
  BY DEF PublishRemove, TypeOK
<1>3. \A t \in Subs : \A i \in Wanted(t) : Served(t, i) => Served(t, i)'
  BY <1>1 DEF Served
<1>4. ASSUME NEW t \in Subs, hpc[t] = "open", ~closed[t], Condemned(t)
      PROVE  Condemned(t)'
  <2>1. CASE t # s
    BY <1>2, <1>4, <2>1 DEF Condemned
  <2>2. CASE t = s /\ s \in subs
    BY <1>2, <2>2 DEF Condemned
  <2>3. CASE t = s /\ s \notin subs
    <3>1. PICK q \in Publishers : s \in pending[q]
      BY <1>4, <2>3 DEF PermitInv, ReadersKept
    <3> QED
      BY <1>2, <2>3, <3>1 DEF Condemned
  <2> QED
    BY <2>1, <2>2, <2>3
<1> QED
  BY <1>1, <1>3, <1>4, LossFrame

LEMMA DropLoss ==
  ASSUME TypeOK, PermitInv, NoSilentLoss,
         NEW p \in Publishers, NEW s \in Subs, PublishClose(p, s)
  PROVE  NoSilentLoss'
<1>1. s \in pending[p] /\ ~closed[s] /\ pending[p] = {s}
  BY DEF PublishClose, PermitInv, PublisherPermit
<1>2. /\ UNCHANGED <<hpc, filter, log, base, accepted, cur, snap, dropped>>
      /\ closed' = [closed EXCEPT ![s] = TRUE]
  BY <1>1 DEF PublishClose, CloseChannel, histVars
<1>3. \A t \in Subs : closed'[t] <=> (closed[t] \/ t = s)
  BY <1>2 DEF TypeOK
<1>4. \A q \in Publishers : pending[q] \subseteq pending'[q] \cup {s}
  BY <1>1 DEF PublishClose, TypeOK
<1>5. \A t \in Subs \ {s} : Condemned(t) => Condemned(t)'
  BY <1>2, <1>4 DEF Condemned
<1>6. \A t \in Subs : \A i \in Wanted(t) : Served(t, i) => Served(t, i)'
  BY <1>2 DEF Served
<1> QED
  BY <1>2, <1>3, <1>5, <1>6, LossFrame

LEMMA QuietLoss ==
  ASSUME TypeOK, PermitInv, NoSilentLoss,
         \/ \E p \in Publishers, e \in Event : PublishCall(p, e)
         \/ \E p \in Publishers : PublishReturn(p)
         \/ ShutdownFlag \/ ShutdownStep \/ UNCHANGED vars
  PROVE  NoSilentLoss'
<1>1. UNCHANGED <<hpc, filter, log, base, accepted, cur, snap, dropped,
                  pending>>
  BY DEF PublishCall, PublishReturn, ShutdownFlag, ShutdownStep, ShutdownLock,
     ShutdownClose, ShutdownUnlock, vars, subVars, pubVars, histVars
<1>2. \A t \in Subs : closed[t] => closed'[t]
  BY DEF PublishCall, PublishReturn, ShutdownFlag, ShutdownStep, ShutdownLock,
     ShutdownClose, ShutdownUnlock, CloseChannel, TypeOK, vars, subVars
<1> QED
  BY <1>1, <1>2, LossFrame DEF Served, Condemned

LossInv == Resting /\ NoSilentLoss

LEMMA NextLoss ==
  ASSUME TypeOK, PermitInv, LossInv, [Next]_vars
  PROVE  LossInv'
<1>1. Resting'
  BY NextResting DEF LossInv
<1>2. ASSUME NEW p \in Publishers, PublisherStep(p) PROVE NoSilentLoss'
  BY <1>2, SnapshotLoss, ServeLoss, RemoveLoss, DropLoss, QuietLoss
     DEF PublisherStep, LossInv
<1>3. NoSilentLoss'
  BY <1>2, StepCases, HandlerLoss, QuietLoss DEF LossInv
<1> QED
  BY <1>1, <1>3 DEF LossInv

(* A subscriber never misses an event in silence, for any number of         *)
(* publishers, handlers and events and any buffer size and cap.             *)
THEOREM LossIsSignalled == Spec => []NoSilentLoss
<1>1. Init => LossInv
  BY DEF Init, LossInv, Resting, NoSilentLoss
<1>2. TypeOK /\ PermitInv /\ LossInv /\ [Next]_vars => LossInv'
  BY NextLoss
<1>3. LossInv => NoSilentLoss
  BY DEF LossInv
<1> QED
  BY <1>1, <1>2, <1>3, TypeCorrect, PermitInvariant, PTL DEF Spec

-----------------------------------------------------------------------------
(* The bounds on the registry and on the buffers.                           *)

LEMMA CapacityType == Capacity \in Nat \ {0}
  BY HubAssumption DEF Capacity

LEMMA RegistryFinite ==
  ASSUME TypeOK
  PROVE  IsFiniteSet(subs) /\ Cardinality(subs) \in Nat
  BY HubAssumption, FS_Subset, FS_CardinalityType DEF TypeOK

LEMMA ShrinkBounded ==
  ASSUME TypeOK, Bounded, subs' \subseteq subs, UNCHANGED chan
  PROVE  Bounded'
<1>1. Cardinality(subs') <= Cardinality(subs) /\ Cardinality(subs') \in Nat
  BY RegistryFinite, FS_Subset, FS_CardinalityType
<1> QED
  BY <1>1, RegistryFinite, HubAssumption DEF Bounded

LEMMA InsertBounded ==
  ASSUME TypeOK, Bounded, NEW s \in Subs, SubscribeInsert(s)
  PROVE  Bounded'
<1>1. UNCHANGED chan
  BY DEF SubscribeInsert
<1>2. CASE Cardinality(subs) >= MaxSubs
  BY <1>1, <1>2, ShrinkBounded DEF SubscribeInsert, AtCap
<1>3. CASE ~(Cardinality(subs) >= MaxSubs)
  <2>1. subs' = subs \cup {s}
    BY <1>3 DEF SubscribeInsert, AtCap
  <2>2. Cardinality(subs') <= Cardinality(subs) + 1
        /\ Cardinality(subs') \in Nat
    BY <2>1, RegistryFinite, FS_AddElement
  <2> QED
    BY <1>1, <1>3, <2>2, RegistryFinite, HubAssumption DEF Bounded
<1> QED
  BY <1>2, <1>3

LEMMA ReceiveBounded ==
  ASSUME TypeOK, Bounded, NEW s \in Subs, Receive(s)
  PROVE  Bounded'
<1>1. chan[s] \in Seq(Nat) /\ chan[s] # <<>> /\ UNCHANGED subs
  BY DEF Receive, TypeOK, hubVars
<1>2. Len(Tail(chan[s])) <= Len(chan[s])
  BY <1>1, HeadTailProperties, LenProperties
<1>3. /\ \A t \in Subs \ {s} : chan'[t] = chan[t]
      /\ chan'[s] = Tail(chan[s])
  BY DEF Receive, TypeOK
<1>4. Len(chan[s]) \in Nat /\ Len(Tail(chan[s])) \in Nat
  BY <1>1, HeadTailProperties, LenProperties
<1>5. Len(chan'[s]) <= Capacity
  BY <1>2, <1>3, <1>4, CapacityType DEF Bounded
<1> QED
  BY <1>1, <1>3, <1>5 DEF Bounded

LEMMA SendBounded ==
  ASSUME TypeOK, Bounded, NEW p \in Publishers, NEW s \in Subs,
         PublishSend(p, s)
  PROVE  Bounded'
<1>1. UNCHANGED subs
  BY DEF PublishSend, SendPanics, SendAccepted, SendOverflows, hubVars
<1>2. CASE UNCHANGED chan
  BY <1>1, <1>2 DEF Bounded
<1>3. CASE ~UNCHANGED chan
  <2>1. /\ Len(chan[s]) < Capacity
        /\ chan' = [chan EXCEPT ![s] = Append(chan[s], cur[p])]
    BY <1>3 DEF PublishSend, SendPanics, SendAccepted,
       SendOverflows
  <2>2. chan[s] \in Seq(Nat) /\ cur[p] \in Nat
    BY DEF TypeOK
  <2>3. Len(Append(chan[s], cur[p])) = Len(chan[s]) + 1 /\ Len(chan[s]) \in Nat
    BY <2>2, AppendProperties, LenProperties
  <2>4. /\ \A t \in Subs \ {s} : chan'[t] = chan[t]
        /\ chan'[s] = Append(chan[s], cur[p])
    BY <2>1 DEF TypeOK
  <2>5. Len(chan'[s]) <= Capacity
    BY <2>1, <2>3, <2>4, CapacityType
  <2> QED
    BY <1>1, <2>4, <2>5 DEF Bounded
<1> QED
  BY <1>2, <1>3

LEMMA NextBounded ==
  ASSUME TypeOK, Bounded, [Next]_vars
  PROVE  Bounded'
<1>1. ASSUME NEW s \in Subs, HandlerStep(s) PROVE Bounded'
  <2>1. CASE SubscribeInsert(s) \/ Receive(s)
    BY <2>1, InsertBounded, ReceiveBounded
  <2>2. CASE ~(SubscribeInsert(s) \/ Receive(s))
    <3>1. subs' \subseteq subs /\ UNCHANGED chan
      BY <1>1, <2>2 DEF HandlerStep, SubscribeLoad, ReceiveClosed, Leave,
         CancelDelete, CancelClose, hubVars
    <3> QED
      BY <3>1, ShrinkBounded
  <2> QED
    BY <2>1, <2>2
<1>2. ASSUME NEW p \in Publishers, PublisherStep(p) PROVE Bounded'
  <2>1. CASE \E s \in Subs : PublishSend(p, s)
    BY <2>1, SendBounded
  <2>2. CASE ~\E s \in Subs : PublishSend(p, s)
    <3>1. subs' \subseteq subs /\ UNCHANGED chan
      BY <1>2, <2>2 DEF PublisherStep, PublishSnapshot, PublishSkip,
         PublishRemove, PublishClose, PublishReturn, hubVars, subVars
    <3> QED
      BY <3>1, ShrinkBounded
  <2> QED
    BY <2>1, <2>2
<1>3. ASSUME \/ \E p \in Publishers, e \in Event : PublishCall(p, e)
             \/ ShutdownFlag \/ ShutdownStep \/ UNCHANGED vars
      PROVE  Bounded'
  <2>1. subs' \subseteq subs /\ UNCHANGED chan
    BY <1>3 DEF PublishCall, ShutdownFlag, ShutdownStep, ShutdownLock,
       ShutdownClose, ShutdownUnlock, vars, hubVars, subVars
  <2> QED
    BY <2>1, ShrinkBounded
<1> QED
  BY <1>1, <1>2, <1>3, StepCases

(* However Subscribe calls race, the registry stays within h.maxSubs, and   *)
(* however publishers race, no channel outgrows its buffer.                 *)
THEOREM BoundsHold == Spec => []Bounded
<1>1. Init => Bounded
  <2>1. Cardinality({}) = 0
    BY FS_EmptySet
  <2>2. Len(<<>>) = 0
    OBVIOUS
  <2> QED
    BY <2>1, <2>2, CapacityType, HubAssumption DEF Init, Bounded
<1>2. TypeOK /\ Bounded /\ [Next]_vars => Bounded'
  BY NextBounded
<1> QED
  BY <1>1, <1>2, TypeCorrect, PTL DEF Spec
=============================================================================
