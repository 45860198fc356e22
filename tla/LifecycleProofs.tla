---------------------------- MODULE LifecycleProofs ----------------------------
(***************************************************************************)
(* The start and the stop of a process, for every set of calls and every   *)
(* environment.                                                            *)
(***************************************************************************)
EXTENDS Lifecycle, SequenceTheorems, WellFoundedInduction, TLAPS

(* The modules stop in the opposite of the order they start in.             *)
LEMMA Turns ==
  /\ Len(Modules) = 3 /\ Len(StartOrder) = 3 /\ Len(StopOrder) = 3
  /\ DOMAIN StartOrder = 1..3 /\ DOMAIN StopOrder = 1..3
  /\ StartOrder[1] = "repository" /\ StartOrder[2] = "grpc" /\ StartOrder[3] = "healthz"
  /\ StopOrder[1] = "healthz" /\ StopOrder[2] = "grpc" /\ StopOrder[3] = "repository"
<1> DEFINE Names == {"repository", "grpc", "healthz"}
           m1 == Append(<<>>, "repository")
           m2 == Append(m1, "grpc")
           m3 == Append(m2, "healthz")
<1>1. m1 \in Seq(Names) /\ Len(m1) = 1 /\ m1[1] = "repository"
  <2>1. <<>> \in Seq(Names) /\ Len(<<>>) = 0
    BY EmptySeq
  <2> QED
    BY <2>1, AppendProperties
<1>2. m2 \in Seq(Names) /\ Len(m2) = 2 /\ m2[1] = "repository" /\ m2[2] = "grpc"
  BY <1>1, AppendProperties
<1>3. /\ m3 \in Seq(Names) /\ Len(m3) = 3
      /\ m3[1] = "repository" /\ m3[2] = "grpc" /\ m3[3] = "healthz"
  BY <1>2, AppendProperties
<1>4. Modules = m3
  BY DEF Modules, Register
<1> HIDE DEF m3
<1>5. /\ Len(Modules) = 3 /\ DOMAIN Modules = 1..3
      /\ Modules[1] = "repository" /\ Modules[2] = "grpc" /\ Modules[3] = "healthz"
  BY <1>3, <1>4, LenProperties
<1>6. StopOrder = [i \in 1..3 |-> Modules[(3 - i) + 1]]
  BY <1>5 DEF StopOrder, Reverse
<1>7. Len(StopOrder) = 3 /\ DOMAIN StopOrder = 1..3
  <2>1. StopOrder \in [1..3 -> Names]
    BY <1>3, <1>4, <1>6
  <2>2. StopOrder \in Seq(Names)
    BY <2>1, SeqDef
  <2> QED
    BY <2>1, <2>2, LenProperties
<1> QED
  BY <1>5, <1>6, <1>7 DEF StartOrder
-----------------------------------------------------------------------------
Launching == {"new", "config", "validate", "init", "boot"}

(* chainsub runs from App.Serve on.                                         *)
NotRunYet == main \in Launching \cup {"serve"} => sub = "off"

LEMMA InitTypeOK == Init => TypeOK
<1> SUFFICES ASSUME Init PROVE TypeOK
  OBVIOUS
<1>1. step \in 0..Len(Modules) + 1
  BY Turns DEF Init
<1>2. call \in [Calls -> {"none", "query", "subscribing", "done"} \cup Streaming]
  BY DEF Init
<1>3. Alive => (scheme = Nil <=> main \in {"new", "config"})
  BY DEF Init
<1> QED
  BY <1>1, <1>2, <1>3 DEF Init, TypeOK, Starting

(* Until App.Serve.                                                         *)
LEMMA LaunchTypeOK ==
  ASSUME TypeOK, Alive, Launch
  PROVE  TypeOK'
<1> USE DEF TypeOK, Starting, Streaming, Alive, Fails, Proceeds, modVars,
    configVars, subVars, callVars, probeVars
<1>1. CASE NewApplication
  BY <1>1 DEF NewApplication
<1>2. CASE ReadConfig
  BY <1>2 DEF ReadConfig
<1>3. CASE ValidateConfig
  BY <1>3 DEF ValidateConfig
<1>4. CASE InitRepository
  BY <1>4 DEF InitRepository
<1>5. CASE Bootstrap
  BY <1>5 DEF Bootstrap, InitHealthz
<1> QED
  BY <1>1, <1>2, <1>3, <1>4, <1>5 DEF Launch

(* The main goroutine from App.Serve on.                                    *)
Serves == ServeRuntime \/ StartModule \/ Notify \/ Signal
Stops  == \/ CancelRuntime \/ ShutdownHub
          \/ HealthzStopBegins \/ HealthzStopReturns
          \/ GrpcStopBegins \/ GrpcStopReturns
          \/ PoolCloseBegins \/ PoolCloseReturns \/ StopReturns

LEMMA StepCases ==
  ASSUME [Next]_vars
  PROVE  \/ Alive /\ Launch
         \/ Alive /\ UNCHANGED configVars
            /\ \/ Serves \/ Stops \/ HealthzBinds \/ SubStep
               \/ \E c \in Calls : CallStep(c)
               \/ ProbeAsks \/ ProbeAnswers
         \/ UNCHANGED vars
  BY DEF Next, MainStep, AsConfigured, Finished, Serves, Stops

LEMMA ServesTypeOK ==
  ASSUME TypeOK, NotRunYet, Alive, UNCHANGED configVars, Serves
  PROVE  TypeOK'
<1> USE DEF TypeOK, Starting, Streaming, Alive, configVars, modVars, subVars,
    callVars, probeVars
<1>1. CASE ServeRuntime
  <2>1. step' \in 0..Len(Modules) + 1
    BY <1>1, Turns DEF ServeRuntime
  <2>2. copy' = {}
    BY <1>1 DEF ServeRuntime, NotRunYet
  <2> QED
    BY <1>1, <2>1, <2>2 DEF ServeRuntime
<1>2. CASE StartModule
  BY <1>2, Turns DEF StartModule, Fails
<1>3. CASE Notify
  BY <1>3 DEF Notify
<1>4. CASE Signal
  <2>1. CASE main' = "killed" /\ quit' = quit
    BY <1>4, <2>1 DEF Signal
  <2>2. CASE main' = main /\ quit' = TRUE
    BY <1>4, <2>2 DEF Signal
  <2> QED
    BY <1>4, <2>1, <2>2 DEF Signal
<1> QED
  BY <1>1, <1>2, <1>3, <1>4 DEF Serves

LEMMA StopsTypeOK ==
  ASSUME TypeOK, Alive, UNCHANGED configVars, Stops
  PROVE  TypeOK'
<1> USE Turns DEF TypeOK, Starting, Streaming, Alive, Stopping, StopRest,
    configVars, modVars, subVars, callVars, probeVars
<1>1. CASE CancelRuntime \/ StopReturns
  BY <1>1 DEF CancelRuntime, StopReturns
<1>2. CASE ShutdownHub
  BY <1>2 DEF ShutdownHub
<1>3. CASE HealthzStopBegins \/ GrpcStopBegins \/ PoolCloseBegins
  BY <1>3 DEF HealthzStopBegins, GrpcStopBegins, PoolCloseBegins
<1>4. CASE HealthzStopReturns \/ GrpcStopReturns \/ PoolCloseReturns
  BY <1>4 DEF HealthzStopReturns, GrpcStopReturns, PoolCloseReturns
<1> QED
  BY <1>1, <1>2, <1>3, <1>4 DEF Stops

LEMMA SubTypeOK ==
  ASSUME TypeOK, Alive, UNCHANGED configVars, SubStep
  PROVE  TypeOK'
<1> USE DEF TypeOK, Starting, Streaming, Alive, SubRest, configVars, modVars,
    subVars, callVars, probeVars
<1>1. CASE TakeLog \/ InsertFails \/ RunEnds
  BY <1>1 DEF TakeLog, InsertFails, RunEnds
<1>2. CASE InsertReturns
  BY <1>2 DEF InsertReturns
<1>3. CASE PublishReturns
  BY <1>3 DEF PublishReturns, DropSlow
<1>4. CASE PublishPanics
  BY <1>4 DEF PublishPanics
<1> QED
  BY <1>1, <1>2, <1>3, <1>4 DEF SubStep

(* What a call does touches nothing but the calls.                          *)
LEMMA CallMoves ==
  ASSUME TypeOK, NEW c \in Calls, CallStep(c)
  PROVE  /\ CallRest /\ UNCHANGED told
         /\ \E s \in {"query", "subscribing", "done"} \cup Streaming :
              call' = [call EXCEPT ![c] = s]
         /\ late' \in {late, late \cup {c}}
         /\ call[c] \in {"none", "done"} => grpc \in {"serving", "draining"}
<1> USE DEF Goes, Moves, Streaming
<1>1. CASE QueryArrives(c) \/ StreamArrives(c)
  BY <1>1 DEF QueryArrives, StreamArrives
<1>2. CASE SubscribeInsert(c)
  BY <1>2 DEF SubscribeInsert
<1>3. CASE \/ SubscribeRefused(c) \/ QueryReturns(c) \/ ReplayReturns(c)
           \/ ClientTakes(c) \/ LiveEvent(c) \/ StreamTold(c) \/ ClientLeaves(c)
  BY <1>3 DEF SubscribeRefused, QueryReturns, ReplayReturns, ClientTakes,
     LiveEvent, StreamTold, ClientLeaves
<1> QED
  BY <1>1, <1>2, <1>3 DEF CallStep

LEMMA NextTypeOK ==
  ASSUME TypeOK, NotRunYet, [Next]_vars
  PROVE  TypeOK'
<1> USE DEF configVars, procVars, modVars, subVars, callVars, probeVars
<1>1. ASSUME UNCHANGED configVars, NEW c \in Calls, CallStep(c) PROVE TypeOK'
  BY <1>1, CallMoves DEF CallRest, TypeOK, Alive, Streaming
<1>2. CASE UNCHANGED configVars /\ (HealthzBinds \/ ProbeAsks \/ ProbeAnswers)
  BY <1>2 DEF HealthzBinds, ProbeAsks, ProbeAnswers, TypeOK, Alive
<1>3. CASE UNCHANGED vars
  BY <1>3 DEF vars, TypeOK, Alive
<1> QED
  BY <1>1, <1>2, <1>3, StepCases, LaunchTypeOK, ServesTypeOK, StopsTypeOK, SubTypeOK

LEMMA NextNotRunYet ==
  ASSUME NotRunYet, [Next]_vars
  PROVE  NotRunYet'
<1> USE DEF NotRunYet, Launching, configVars, procVars, modVars, subVars, callVars,
    probeVars
<1>1. CASE Launch
  BY <1>1 DEF Launch, NewApplication, ReadConfig, ValidateConfig, InitRepository,
     Bootstrap, Fails, Proceeds
<1>2. CASE Serves
  BY <1>2 DEF Serves, ServeRuntime, StartModule, Notify, Signal, Starting, Fails
<1>3. CASE Stops
  BY <1>3 DEF Stops, CancelRuntime, ShutdownHub, HealthzStopBegins,
     HealthzStopReturns, GrpcStopBegins, GrpcStopReturns, PoolCloseBegins,
     PoolCloseReturns, StopReturns, Stopping, StopRest
<1>4. CASE SubStep
  BY <1>4 DEF SubStep, TakeLog, InsertFails, InsertReturns, PublishReturns,
     PublishPanics, RunEnds, SubRest
<1>5. CASE \/ HealthzBinds \/ ProbeAsks \/ ProbeAnswers \/ UNCHANGED vars
           \/ \E c \in Calls : CallStep(c)
  <2>1. UNCHANGED <<main, sub>>
    BY <1>5 DEF HealthzBinds, ProbeAsks, ProbeAnswers, vars, CallStep, QueryArrives,
       StreamArrives, SubscribeInsert, SubscribeRefused, QueryReturns,
       ReplayReturns, ClientTakes, LiveEvent, StreamTold, ClientLeaves, Goes,
       Moves, CallRest
  <2> QED
    BY <2>1
<1> QED
  BY <1>1, <1>2, <1>3, <1>4, <1>5, StepCases

(* Every behaviour is type correct, the copy of the registry that Publish   *)
(* works on included: it is held only inside Publish.                       *)
THEOREM TypeCorrect == Spec => []TypeOK
<1>1. Init => NotRunYet
  BY DEF Init, NotRunYet
<1>2. TypeOK /\ NotRunYet /\ [Next]_vars => TypeOK' /\ NotRunYet'
  BY NextTypeOK, NextNotRunYet
<1> QED
  BY InitTypeOK, <1>1, <1>2, PTL DEF Spec

-----------------------------------------------------------------------------
(* The inductive invariant.                                                 *)

(* What has been started, by where the main goroutine is.                   *)
StartedSoFar ==
  /\ main \in Launching \cup {"serve"} => grpc = "unbound" /\ health \in {"none", "off"}
  /\ main \in {"boot", "serve", "start", "waiting", "cancelled"} => pool = "open"
  /\ main = "start" =>
       /\ step \in 1..4
       /\ grpc = IF step <= 2 THEN "unbound" ELSE "serving"
       /\ step <= 3 => health \in {"none", "off"}
       /\ step = 4 => health \in {"starting", "serving", "failed"}
  /\ main \in {"waiting", "cancelled"} =>
       grpc = "serving" /\ health \in {"starting", "serving", "failed"}

(* What has been stopped.                                                   *)
StoppedSoFar ==
  /\ main \in {"cancelled", "stop", "exited"} => cancelled
  /\ main \in {"stop", "exited"} => hub = "down"
  /\ main = "stop" =>
       /\ step \in 1..4
       /\ step = 1 => health \in {"starting", "serving", "failed", "draining"}
       /\ step # 1 => health \in {"stopped", "abandoned"}
       /\ step \in 1..2 => grpc \in {"serving", "draining"} /\ pool = "open"
       /\ step \in 3..4 => grpc = "stopped"
       /\ step = 3 => pool \in {"open", "closing"}
       /\ step = 4 => pool = "closed"
  /\ main = "exited" =>
       grpc = "stopped" /\ pool = "closed" /\ health \in {"stopped", "abandoned"}

(* Calls come through the gRPC server, and the pool outlives it.            *)
Active(c) == call[c] \notin {"none", "done"}

ServerHasPool ==
  /\ grpc \in {"serving", "draining"} => pool = "open"
  /\ \A c \in Calls : Active(c) => grpc \in {"serving", "draining"}

(* Probes come through the health server, which starts after grpc.          *)
ProbesLater ==
  health \notin {"none", "off"} \/ probe = "asking" \/ answer = "ready"
    => grpc # "unbound"

LifeInv == StartedSoFar /\ StoppedSoFar /\ ServerHasPool /\ ProbesLater

LEMMA InitLife == Init => LifeInv
  BY DEF Init, LifeInv, StartedSoFar, StoppedSoFar, ServerHasPool, ProbesLater,
     Launching, Active

(* A step that starts and stops nothing.                                    *)
LEMMA LifeFrame ==
  ASSUME LifeInv,
         UNCHANGED <<step, cancelled, modVars>>,
         main' \in {main, "failed", "killed"},
         \A c \in Calls : Active(c)' => Active(c) \/ grpc \in {"serving", "draining"},
         probe' = "asking" \/ answer' = "ready" =>
           probe = "asking" \/ answer = "ready" \/ health \notin {"none", "off"}
  PROVE  LifeInv'
<1> USE DEF modVars
<1>1. StartedSoFar'
  BY DEF LifeInv, StartedSoFar, Launching
<1>2. StoppedSoFar'
  BY DEF LifeInv, StoppedSoFar
<1>3. ServerHasPool'
  BY DEF LifeInv, ServerHasPool
<1>4. ProbesLater'
  BY DEF LifeInv, ProbesLater
<1> QED
  BY <1>1, <1>2, <1>3, <1>4 DEF LifeInv

LEMMA LaunchLife ==
  ASSUME LifeInv, Launch
  PROVE  LifeInv'
<1> USE DEF modVars, procVars, subVars, callVars, probeVars, Active
<1>1. CASE main' = "failed" /\ UNCHANGED modVars
  <2>1. UNCHANGED <<step, cancelled, call, probe, answer>>
    BY <1>1 DEF Launch, NewApplication, ReadConfig, ValidateConfig, InitRepository,
       Bootstrap, Fails, Proceeds
  <2> QED
    BY <1>1, <2>1, LifeFrame
<1>2. CASE ~(main' = "failed" /\ UNCHANGED modVars)
  <2>1. /\ main \in Launching /\ main' \in Launching \cup {"serve"}
        /\ UNCHANGED <<step, cancelled, grpc, call, probe, answer>>
        /\ health' \in {health, "off"}
    BY <1>2 DEF Launch, NewApplication, ReadConfig, ValidateConfig, InitRepository,
       Bootstrap, InitHealthz, Fails, Proceeds, Launching
  <2>2. main' \in {"boot", "serve"} => pool' = "open"
    BY <1>2 DEF Launch, NewApplication, ReadConfig, ValidateConfig, InitRepository,
       Bootstrap, Fails, Proceeds, LifeInv, StartedSoFar
  <2>3. StartedSoFar'
    BY <2>1, <2>2 DEF LifeInv, StartedSoFar, Launching
  <2>4. StoppedSoFar'
    BY <2>1 DEF StoppedSoFar, Launching
  <2>5. ServerHasPool' /\ ProbesLater'
    BY <2>1 DEF LifeInv, StartedSoFar, ServerHasPool, ProbesLater
  <2> QED
    BY <2>3, <2>4, <2>5 DEF LifeInv
<1> QED
  BY <1>1, <1>2

LEMMA ServesLife ==
  ASSUME TypeOK, LifeInv, Alive, Serves
  PROVE  LifeInv'
<1> USE DEF modVars, subVars, callVars, probeVars, Active
<1>1. CASE ServeRuntime
  <2>1. /\ main = "serve" /\ main' = "start" /\ step' = 1
        /\ UNCHANGED <<cancelled, hub, pool, grpc, health, call, probe, answer>>
    BY <1>1 DEF ServeRuntime
  <2>2. StartedSoFar' /\ StoppedSoFar'
    BY <2>1 DEF LifeInv, StartedSoFar, StoppedSoFar, Launching
  <2>3. ServerHasPool' /\ ProbesLater'
    BY <2>1 DEF LifeInv, ServerHasPool, ProbesLater
  <2> QED
    BY <2>2, <2>3 DEF LifeInv
<1>2. CASE StartModule
  <2>1. CASE Fails
    BY <1>2, <2>1, LifeFrame DEF StartModule, Fails
  <2>2. CASE ~Fails
    <3>1. /\ main = "start" /\ main' = "start" /\ step \in 1..3 /\ step' = step + 1
          /\ UNCHANGED <<cancelled, hub, pool, call, probe, answer>>
          /\ grpc' = IF step = 2 THEN "serving" ELSE grpc
          /\ health' = IF step = 3 THEN "starting" ELSE health
      BY <1>2, <2>2, Turns DEF StartModule
    <3>2. StartedSoFar' /\ StoppedSoFar'
      BY <3>1 DEF LifeInv, StartedSoFar, StoppedSoFar, Launching
    <3>3. ServerHasPool' /\ ProbesLater'
      BY <3>1 DEF LifeInv, StartedSoFar, ServerHasPool, ProbesLater
    <3> QED
      BY <3>2, <3>3 DEF LifeInv
  <2> QED
    BY <2>1, <2>2
<1>3. CASE Notify
  <2>1. /\ main = "start" /\ main' = "waiting" /\ step > 3
        /\ UNCHANGED <<step, cancelled, hub, pool, grpc, health, call, probe, answer>>
    BY <1>3, Turns DEF Notify
  <2>2. StartedSoFar' /\ StoppedSoFar'
    BY <2>1 DEF LifeInv, StartedSoFar, StoppedSoFar, Launching
  <2>3. ServerHasPool' /\ ProbesLater'
    BY <2>1 DEF LifeInv, ServerHasPool, ProbesLater
  <2> QED
    BY <2>2, <2>3 DEF LifeInv
<1>4. CASE Signal
  BY <1>4, LifeFrame DEF Signal
<1> QED
  BY <1>1, <1>2, <1>3, <1>4 DEF Serves

(* A step of App.Stop: only the module whose turn it is changes, and the    *)
(* next one has its turn when it has stopped.                               *)
LEMMA StopCases ==
  ASSUME TypeOK, LifeInv, Stops
  PROVE  /\ UNCHANGED <<call, probe, answer>>
         /\ \/ /\ main = "waiting" /\ main' = "cancelled" /\ cancelled'
               /\ UNCHANGED <<hub, pool, grpc, health>>
            \/ /\ main = "cancelled" /\ main' = "stop" /\ hub' = "down" /\ step' = 1
               /\ UNCHANGED <<cancelled, pool, grpc, health>>
            \/ /\ main = "stop" /\ main' = "stop" /\ UNCHANGED <<cancelled, hub>>
               /\ \/ /\ step = 1 /\ UNCHANGED <<pool, grpc>>
                     /\ \/ step' = 1 /\ health' = "draining"
                        \/ step' = 2 /\ health' \in {"stopped", "abandoned"}
                           /\ health = "draining"
                  \/ /\ step = 2 /\ UNCHANGED <<pool, health>>
                     /\ \/ step' = 2 /\ grpc' = "draining"
                        \/ /\ step' = 3 /\ grpc' = "stopped"
                           /\ \A c \in Calls : ~Active(c)
                  \/ /\ step = 3 /\ UNCHANGED <<grpc, health>>
                     /\ \/ step' = 3 /\ pool' = "closing"
                        \/ step' = 4 /\ pool' = "closed"
            \/ /\ main = "stop" /\ main' = "exited" /\ step = 4
               /\ UNCHANGED <<step, cancelled, hub, pool, grpc, health>>
<1> USE Turns DEF modVars, subVars, callVars, probeVars, Active, Stopping, StopRest
<1>1. CASE CancelRuntime \/ ShutdownHub
  BY <1>1 DEF CancelRuntime, ShutdownHub
<1>2. CASE HealthzStopBegins \/ HealthzStopReturns
  BY <1>2 DEF HealthzStopBegins, HealthzStopReturns
<1>3. CASE GrpcStopBegins \/ GrpcStopReturns
  BY <1>3 DEF GrpcStopBegins, GrpcStopReturns
<1>4. CASE PoolCloseBegins \/ PoolCloseReturns
  BY <1>4 DEF PoolCloseBegins, PoolCloseReturns
<1>5. CASE StopReturns
  BY <1>5 DEF StopReturns, TypeOK
<1> QED
  BY <1>1, <1>2, <1>3, <1>4, <1>5 DEF Stops

LEMMA StopsLife ==
  ASSUME TypeOK, LifeInv, Stops
  PROVE  LifeInv'
<1>1. StartedSoFar'
  BY StopCases DEF LifeInv, StartedSoFar, Launching
<1>2. StoppedSoFar'
  <2>1. main' \in {"cancelled", "stop", "exited"} => cancelled'
    BY StopCases DEF LifeInv, StoppedSoFar
  <2>2. main' \in {"stop", "exited"} => hub' = "down"
    BY StopCases DEF LifeInv, StoppedSoFar
  <2>3. ASSUME main = "cancelled", main' = "stop" PROVE StoppedSoFar'
    BY <2>1, <2>2, <2>3, StopCases DEF LifeInv, StartedSoFar, StoppedSoFar
  <2>4. ASSUME main = "stop", main' = "stop" PROVE StoppedSoFar'
    BY <2>1, <2>2, <2>4, StopCases DEF LifeInv, StoppedSoFar
  <2>5. ASSUME main' \notin {"stop"} PROVE StoppedSoFar'
    BY <2>1, <2>2, <2>5, StopCases DEF LifeInv, StoppedSoFar
  <2> QED
    BY <2>3, <2>4, <2>5, StopCases
<1>3. ServerHasPool'
  BY StopCases DEF LifeInv, StoppedSoFar, ServerHasPool, Active
<1>4. ProbesLater'
  BY StopCases DEF LifeInv, StartedSoFar, StoppedSoFar, ProbesLater
<1> QED
  BY <1>1, <1>2, <1>3, <1>4 DEF LifeInv

LEMMA NextLife ==
  ASSUME TypeOK, LifeInv, [Next]_vars
  PROVE  LifeInv'
<1> USE DEF procVars, modVars, subVars, callVars, probeVars, Active
<1>1. CASE SubStep
  <2>1. /\ UNCHANGED <<step, cancelled, modVars, call, probe, answer>>
        /\ main' \in {main, "killed"}
    BY <1>1 DEF SubStep, TakeLog, InsertFails, InsertReturns, PublishReturns,
       PublishPanics, RunEnds, SubRest
  <2> QED
    BY <2>1, LifeFrame
<1>2. ASSUME NEW c \in Calls, CallStep(c) PROVE LifeInv'
  <2>1. /\ UNCHANGED <<main, step, cancelled, modVars, probe, answer>>
        /\ \A d \in Calls \ {c} : call'[d] = call[d]
        /\ call[c] \in {"none", "done"} => grpc \in {"serving", "draining"}
    BY <1>2, CallMoves DEF CallRest, TypeOK
  <2> QED
    BY <2>1, LifeFrame
<1>3. CASE HealthzBinds
  <2>1. /\ UNCHANGED <<main, step, cancelled, hub, pool, grpc, call, probe, answer>>
        /\ health = "starting" /\ health' \in {"serving", "failed"}
    BY <1>3 DEF HealthzBinds
  <2>2. StartedSoFar' /\ StoppedSoFar'
    BY <2>1 DEF LifeInv, StartedSoFar, StoppedSoFar
  <2>3. ServerHasPool' /\ ProbesLater'
    BY <2>1 DEF LifeInv, ServerHasPool, ProbesLater
  <2> QED
    BY <2>2, <2>3 DEF LifeInv
<1>4. CASE ProbeAsks \/ ProbeAnswers \/ UNCHANGED vars
  <2>1. UNCHANGED <<main, step, cancelled, modVars, call>>
    BY <1>4 DEF ProbeAsks, ProbeAnswers, vars
  <2>2. probe' = "asking" \/ answer' = "ready" =>
          probe = "asking" \/ answer = "ready" \/ health \notin {"none", "off"}
    BY <1>4 DEF ProbeAsks, ProbeAnswers, vars
  <2> QED
    BY <2>1, <2>2, LifeFrame
<1> QED
  BY <1>1, <1>2, <1>3, <1>4, StepCases, LaunchLife, ServesLife, StopsLife

LEMMA LifeInvariant == Spec => []LifeInv
<1>1. TypeOK /\ LifeInv /\ [Next]_vars => LifeInv'
  BY NextLife
<1> QED
  BY InitLife, <1>1, TypeCorrect, PTL DEF Spec

(* chainsub takes no log after the cancel, and the close of the pool waits  *)
(* for the insert that was under way.                                       *)
InsertsStop == pool = "closed" => cancelled /\ sub # "insert"

LEMMA NextInsertsStop ==
  ASSUME TypeOK, LifeInv, InsertsStop, [Next]_vars
  PROVE  InsertsStop'
<1> USE DEF InsertsStop, configVars, procVars, modVars, subVars, callVars, probeVars
<1>1. CASE Launch
  <2>1. pool' \in {pool, "open"} /\ UNCHANGED <<cancelled, sub>>
    BY <1>1 DEF Launch, NewApplication, ReadConfig, ValidateConfig, InitRepository,
       Bootstrap, Fails, Proceeds
  <2> QED
    BY <2>1
<1>2. CASE Serves
  <2>1. UNCHANGED <<pool, cancelled>> /\ sub' \in {sub, "idle"}
    BY <1>2 DEF Serves, ServeRuntime, StartModule, Notify, Signal, Fails
  <2> QED
    BY <2>1
<1>3. CASE Stops
  <2>1. CASE PoolCloseReturns
    BY <2>1 DEF PoolCloseReturns, Stopping, StopRest, LifeInv, StoppedSoFar
  <2>2. CASE ~PoolCloseReturns
    <3>1. pool' \in {pool, "closing"} /\ (cancelled => cancelled') /\ UNCHANGED sub
      BY <1>3, <2>2 DEF Stops, CancelRuntime, ShutdownHub, HealthzStopBegins,
         HealthzStopReturns, GrpcStopBegins, GrpcStopReturns, PoolCloseBegins,
         StopReturns, Stopping, StopRest
    <3> QED
      BY <3>1
  <2> QED
    BY <2>1, <2>2
<1>4. CASE SubStep
  <2>1. UNCHANGED <<pool, cancelled>> /\ (sub' = "insert" => ~cancelled)
    BY <1>4 DEF SubStep, TakeLog, InsertFails, InsertReturns, PublishReturns,
       PublishPanics, RunEnds, SubRest
  <2> QED
    BY <2>1
<1>5. CASE \/ HealthzBinds \/ ProbeAsks \/ ProbeAnswers \/ UNCHANGED vars
           \/ \E c \in Calls : CallStep(c)
  <2>1. UNCHANGED <<pool, cancelled, sub>>
    BY <1>5, CallMoves DEF HealthzBinds, ProbeAsks, ProbeAnswers, vars, CallRest
  <2> QED
    BY <2>1
<1> QED
  BY <1>1, <1>2, <1>3, <1>4, <1>5, StepCases

(* No call that has begun loses the database under it: GracefulStop comes   *)
(* before the pool is closed, and waits.                                    *)
THEOREM CallsKeepPool == Spec => []CallsHavePool
<1>1. LifeInv => CallsHavePool
  BY DEF LifeInv, ServerHasPool, CallsHavePool, Active
<1> QED
  BY <1>1, LifeInvariant, PTL

(* /readyz never says ready before the gRPC socket is bound, because the    *)
(* health server is started after it.                                       *)
THEOREM ReadyAfterBound == Spec => []ReadyMeansBound
<1>1. LifeInv => ReadyMeansBound
  BY DEF LifeInv, ProbesLater, ReadyMeansBound
<1> QED
  BY <1>1, LifeInvariant, PTL

(* A process that exits has stopped its hub and its modules, whatever timed *)
(* out on the way, and chainsub is not inside an insert.                    *)
THEOREM StopCompletes == Spec => []StopIsComplete
<1>1. Init => InsertsStop
  BY DEF Init, InsertsStop
<1>2. TypeOK /\ LifeInv /\ InsertsStop /\ [Next]_vars => InsertsStop'
  BY NextInsertsStop
<1>3. LifeInv /\ InsertsStop => StopIsComplete
  BY DEF LifeInv, StoppedSoFar, InsertsStop, StopIsComplete
<1> QED
  BY <1>1, <1>2, <1>3, TypeCorrect, LifeInvariant, PTL DEF Spec

-----------------------------------------------------------------------------
(* The configuration.                                                       *)

(* What initializeConfig returns has an asset list of the right form.       *)
LEMMA ReadAssets ==
  ASSUME NEW e \in Environments, InitializeConfig(e.vars, e.assets) # Nil
  PROVE  IsAssetList(InitializeConfig(e.vars, e.assets)[1].assets)
<1> DEFINE s == Unmarshal(e.vars)
<1>1. s # Nil /\ InitializeConfig(e.vars, e.assets) = ApplyEnvOverrides(s[1], e.assets)
  BY DEF InitializeConfig
<1>2. PICK text, number : s = <<[text |-> text, number |-> number, assets |-> <<>>]>>
  BY <1>1 DEF Unmarshal
<1>3. s[1].assets = <<>>
  BY <1>2
<1> HIDE DEF s
<1>4. CASE e.assets = Empty
  <2>1. InitializeConfig(e.vars, e.assets)
          = <<[s[1] EXCEPT !.assets = IF @ = <<>> THEN DefaultAssets ELSE @]>>
    BY <1>1, <1>4 DEF ApplyEnvOverrides, Empty
  <2>2. InitializeConfig(e.vars, e.assets)[1].assets = DefaultAssets
    BY <1>2, <2>1
  <2> QED
    BY <2>2, DefaultsAssumption
<1>5. CASE e.assets # Empty /\ e.assets.form = "list"
  <2>1. InitializeConfig(e.vars, e.assets) = <<[s[1] EXCEPT !.assets = e.assets.of]>>
    BY <1>1, <1>5 DEF ApplyEnvOverrides
  <2>2. InitializeConfig(e.vars, e.assets)[1].assets = e.assets.of
    BY <1>2, <2>1
  <2> QED
    BY <1>5, <2>2, EnvironmentAssumption
<1> QED
  BY <1>1, <1>4, <1>5 DEF ApplyEnvOverrides

LEMMA SameKey ==
  ASSUME NEW t, NEW u, IsText(t), IsText(u), IsHex(t), IsHex(u),
         AllDigits(t), AllDigits(u), FromHex(t) = FromHex(u)
  PROVE  ToLower(t) = ToLower(u)
<1>1. t.shaped = u.shaped
  BY DEF IsText, IsHex
<1> QED
  BY <1>1 DEF IsText, ToLower, AllDigits, FromHex

(* Validate leaves no two entries with one aggregator, in whatever case     *)
(* their digits are.                                                        *)
LEMMA OneEntryEach ==
  ASSUME NEW scm, IsAssetList(scm.assets), Complaints(scm) = {},
         NEW i \in DOMAIN scm.assets, NEW j \in DOMAIN scm.assets,
         FromHex(scm.assets[i].aggregator) = FromHex(scm.assets[j].aggregator),
         AllDigits(scm.assets[i].aggregator), AllDigits(scm.assets[j].aggregator)
  PROVE  i = j
<1> DEFINE L == scm.assets
<1>1. /\ \A k \in DOMAIN L : IsHex(L[k].aggregator)
      /\ Repeated(L) = {}
  <2>1. {<<"aggregator", k>> : k \in {l \in DOMAIN L : ~IsHex(L[l].aggregator)}} = {}
    BY DEF Complaints
  <2>2. {<<"repeated", k>> : k \in Repeated(L)} = {}
    BY DEF Complaints
  <2> QED
    BY <2>1, <2>2
<1>2. DOMAIN L = 1..Len(L) /\ Len(L) \in Nat
  BY DEF IsAssetList
<1>3. AggregatorKey(L[i]) = AggregatorKey(L[j])
  <2>1. /\ IsText(L[i].aggregator) /\ IsText(L[j].aggregator)
        /\ IsHex(L[i].aggregator) /\ IsHex(L[j].aggregator)
    BY <1>1 DEF IsAssetList
  <2> QED
    BY <2>1, SameKey DEF AggregatorKey
<1> HIDE DEF L
<1>4. \A k, l \in DOMAIN L : AggregatorKey(L[l]) = AggregatorKey(L[k]) => ~(l < k)
  BY <1>1, <1>2 DEF Repeated
<1>5. L = scm.assets
  BY DEF L
<1> QED
  BY <1>2, <1>3, <1>4, <1>5

(* A set of places has a last one.                                          *)
LEMMA LastPlace ==
  ASSUME NEW n \in Nat, NEW I \in SUBSET (1..n), I # {}
  PROVE  Max(I) \in I /\ \A k \in I : Max(I) >= k
<1> DEFINE T == {m \in Nat : n - m \in I}
<1>1. T \in SUBSET Nat /\ T # {}
  <2>1. PICK k \in I : TRUE
    OBVIOUS
  <2>2. n - k \in Nat /\ n - (n - k) = k
    BY <2>1
  <2> QED
    BY <2>1, <2>2
<1>2. \A m, k \in Nat : <<m, k>> \in OpToRel(<, Nat) <=> m < k
  BY DEF OpToRel
<1>3. PICK t \in T : \A m \in T : ~(<<m, t>> \in OpToRel(<, Nat))
  BY <1>1, NatLessThanWellFounded, WFMin
<1>4. \A m \in T : ~(m < t)
  BY <1>1, <1>2, <1>3
<1>5. \A k \in I : n - k \in Nat /\ n - (n - k) = k
  OBVIOUS
<1>6. n - t \in I /\ \A k \in I : n - t >= k
  <2>1. t \in Nat /\ n - t \in I
    BY <1>3
  <2>2. ASSUME NEW k \in I PROVE n - t >= k
    <3>1. n - k \in T
      BY <1>5
    <3>2. ~(n - k < t)
      BY <1>4, <3>1
    <3> QED
      BY <2>1, <3>2
  <2> QED
    BY <2>1, <2>2
<1> QED
  BY <1>6 DEF Max

(* So chainsub's map has, of an entry, its asset, or that of a later entry  *)
(* one of whose addresses is not hexadecimal.                               *)
LEMMA MappingOfEntries ==
  ASSUME NEW scm, IsAssetList(scm.assets), Complaints(scm) = {},
         NEW i \in DOMAIN scm.assets
  PROVE  /\ ParseEntry(scm.assets[i]) \in ToSet(ParseAssets(scm.assets))
         /\ \/ Mapping(ParseAssets(scm.assets))[FromHex(scm.assets[i].aggregator)]
                 = FromHex(scm.assets[i].id)
            \/ MisreadLater(scm.assets, i)
<1> DEFINE L == scm.assets
           A == ParseAssets(L)
           g == FromHex(L[i].aggregator)
           I == {k \in 1..Len(A) : A[k].aggregator = g}
<1>1. DOMAIN L = 1..Len(L) /\ Len(L) \in Nat
  BY DEF IsAssetList
<1>2. A = [k \in 1..Len(L) |-> [asset |-> FromHex(L[k].id),
                                aggregator |-> FromHex(L[k].aggregator)]]
  BY <1>1 DEF ParseAssets, ParseEntry
<1>3. Len(A) = Len(L) /\ DOMAIN A = 1..Len(L)
  <2> DEFINE R == {A[k] : k \in 1..Len(L)}
  <2>1. A \in [1..Len(L) -> R]
    BY <1>2
  <2>2. A \in Seq(R)
    BY <1>1, <2>1, SeqDef
  <2>3. DOMAIN A = 1..Len(A) /\ Len(A) \in Nat
    BY <2>2, LenProperties
  <2> QED
    BY <1>1, <2>1, <2>3
<1> DEFINE last == Max(I)
<1>4. /\ i \in I /\ last \in I /\ last >= i
      /\ I = {k \in 1..Len(L) : FromHex(L[k].aggregator) = g}
  <2>1. I = {k \in 1..Len(L) : FromHex(L[k].aggregator) = g}
    BY <1>2, <1>3
  <2>2. i \in I
    BY <1>1, <2>1
  <2> QED
    BY <1>1, <2>1, <2>2, LastPlace
<1>5. SelectLastInSeq(A, LAMBDA a : a.aggregator = g) = last
  BY <1>4 DEF SelectLastInSeq
<1>6. A[i] \in ToSet(A) /\ A[i] = ParseEntry(L[i]) /\ A[i].aggregator = g
  BY <1>1, <1>2, <1>3 DEF ToSet, ParseEntry
<1>7. last = i \/ MisreadLater(L, i)
  <2>1. /\ last \in DOMAIN L /\ i \in Nat /\ last \in Nat /\ last >= i
        /\ FromHex(L[last].aggregator) = FromHex(L[i].aggregator)
    <3> HIDE DEF last, L, A
    <3>1. last \in 1..Len(L) /\ FromHex(L[last].aggregator) = g
      BY <1>4
    <3> QED
      BY <1>1, <1>4, <3>1
  <2>2. ASSUME last # i, AllDigits(L[i].aggregator), AllDigits(L[last].aggregator)
        PROVE  FALSE
    BY <2>1, <2>2, OneEntryEach
  <2> HIDE DEF last
  <2> QED
    BY <2>1, <2>2 DEF MisreadLater
<1> HIDE DEF A, last
<1>8. g \in {a.aggregator : a \in ToSet(A)}
  BY <1>6
<1>9. Mapping(A)[g] = A[SelectLastInSeq(A, LAMBDA a : a.aggregator = g)].asset
  BY <1>8 DEF Mapping
<1>10. A[i].asset = FromHex(L[i].id)
  BY <1>6 DEF ParseEntry
<1> QED
  BY <1>5, <1>6, <1>7, <1>9, <1>10 DEF A

(* The invariant: the list that is read has the right form, main only goes  *)
(* on with one that Validate accepts, and what is made of it stays.         *)
ConfigInv ==
  /\ main \notin {"new", "config"} /\ Alive => IsAssetList(scheme[1].assets)
  /\ main \in {"init", "boot"} => Complaints(scheme[1]) = {}
  /\ main \in Launching => mapping = <<>>
  /\ ConfiguredAssets

LEMMA ConfigFrame ==
  ASSUME ConfigInv, UNCHANGED <<scheme, mapping, listed>>,
         Alive' => Alive /\ main \notin {"new", "config"},
         main' \notin Launching
  PROVE  ConfigInv'
<1>1. ConfiguredAssets'
  BY DEF ConfigInv, ConfiguredAssets
<1> QED
  BY <1>1 DEF ConfigInv, Launching

LEMMA LaunchConfig ==
  ASSUME TypeOK, ConfigInv, Alive, Launch
  PROVE  ConfigInv'
<1> USE DEF configVars, procVars, Launching, Alive
<1>1. CASE NewApplication
  BY <1>1 DEF NewApplication, Fails, Proceeds, ConfigInv, ConfiguredAssets
<1>2. CASE ReadConfig
  <2> DEFINE read == InitializeConfig(environ.vars, environ.assets)
  <2>1. main = "config" /\ mapping' = mapping /\ mapping = <<>>
    BY <1>2 DEF ReadConfig, Fails, Proceeds, ConfigInv
  <2>2. \/ main' = "failed"
        \/ main' = "validate" /\ read # Nil /\ scheme' = read
    BY <1>2 DEF ReadConfig, Fails, Proceeds
  <2>3. read # Nil => IsAssetList(read[1].assets)
    BY ReadAssets DEF TypeOK
  <2> HIDE DEF read
  <2> QED
    BY <2>1, <2>2, <2>3 DEF ConfigInv, ConfiguredAssets
<1>3. CASE ValidateConfig
  BY <1>3 DEF ValidateConfig, Fails, Proceeds, ConfigInv, ConfiguredAssets
<1>4. CASE InitRepository
  BY <1>4 DEF InitRepository, Fails, Proceeds, ConfigInv, ConfiguredAssets
<1>5. CASE Bootstrap
  <2>1. /\ main = "boot" /\ mapping = <<>> /\ IsAssetList(scheme[1].assets)
        /\ Complaints(scheme[1]) = {} /\ UNCHANGED scheme
    BY <1>5 DEF Bootstrap, ConfigInv
  <2>2. CASE main' = "failed" /\ UNCHANGED mapping
    BY <2>1, <2>2 DEF ConfigInv, ConfiguredAssets
  <2>3. CASE /\ main' = "serve"
             /\ mapping' = Mapping(ParseAssets(scheme[1].assets))
             /\ listed' = listed \cup ToSet(ParseAssets(scheme[1].assets))
    <3>1. ConfiguredAssets'
      BY <2>1, <2>3, MappingOfEntries DEF ConfiguredAssets
    <3> QED
      BY <2>1, <2>3, <3>1 DEF ConfigInv
  <2> QED
    BY <1>5, <2>2, <2>3 DEF Bootstrap, Fails
<1> QED
  BY <1>1, <1>2, <1>3, <1>4, <1>5 DEF Launch

LEMMA NextConfig ==
  ASSUME TypeOK, ConfigInv, [Next]_vars
  PROVE  ConfigInv'
<1> USE DEF configVars, procVars, modVars, subVars, callVars, probeVars
<1>1. CASE Alive /\ Launch
  BY <1>1, LaunchConfig
<1>2. CASE Alive /\ UNCHANGED configVars /\ (Serves \/ Stops)
  <2>1. /\ main' \notin Launching
        /\ main \in {"new", "config"} => main' = "killed"
    BY <1>2 DEF Serves, Stops, ServeRuntime, StartModule, Notify, Signal, Starting,
       CancelRuntime, ShutdownHub, HealthzStopBegins, HealthzStopReturns,
       GrpcStopBegins, GrpcStopReturns, PoolCloseBegins, PoolCloseReturns,
       StopReturns, Stopping, StopRest, Fails, Launching, TypeOK
  <2> QED
    BY <1>2, <2>1, ConfigFrame DEF Alive
<1>3. CASE /\ UNCHANGED configVars
           /\ \/ HealthzBinds \/ SubStep \/ ProbeAsks \/ ProbeAnswers
              \/ \E c \in Calls : CallStep(c)
  <2>1. main' \in {main, "killed"}
    BY <1>3, CallMoves DEF HealthzBinds, SubStep, ProbeAsks, ProbeAnswers, CallRest,
       TakeLog, InsertFails, InsertReturns, PublishReturns, PublishPanics, RunEnds,
       SubRest
  <2> QED
    BY <1>3, <2>1 DEF ConfigInv, ConfiguredAssets, Launching, Alive
<1>4. CASE UNCHANGED vars
  BY <1>4 DEF vars, ConfigInv, ConfiguredAssets, Alive
<1> QED
  BY <1>1, <1>2, <1>3, <1>4, StepCases

(* Whatever list is configured, hexadecimal or not, if the process gets     *)
(* past Validate, every entry is listed, and chainsub's map agrees with it  *)
(* unless a later entry parses to its address and one of the two is not     *)
(* hexadecimal.                                                             *)
THEOREM AssetsAsConfigured == Spec => []ConfiguredAssets
<1>1. Init => ConfigInv
  BY DEF Init, ConfigInv, ConfiguredAssets, Launching
<1>2. TypeOK /\ ConfigInv /\ [Next]_vars => ConfigInv'
  BY NextConfig
<1>3. ConfigInv => ConfiguredAssets
  BY DEF ConfigInv
<1> QED
  BY <1>1, <1>2, <1>3, TypeCorrect, PTL DEF Spec
=============================================================================
