------------------------------ MODULE Lifecycle ------------------------------
(***************************************************************************)
(* The life of a process: main, the configuration (Config), and App.Init,  *)
(* App.Serve and App.Stop (internal/application.go) over module.Manager,   *)
(* with what Start and Stop of the modules do to the calls, the probes and *)
(* the log that are under way.  The components are reduced to what start   *)
(* and stop see of them: chainsub inserts or publishes, a call waits for   *)
(* the database, for the hub or for its client.                            *)
(*                                                                         *)
(* StartBackwards, StopAsRegistered, ShutdownFlagOnly, HealthzStopGivesUp  *)
(* and PublishKeepsCopy are used nowhere: they are faulty variants of the  *)
(* definition after them, with which a property fails.                     *)
(***************************************************************************)
EXTENDS Config

CONSTANTS
  Calls,         (* the API calls clients make, each at most once           *)
  Environments   (* what the process may find: [vars, assets], see Config   *)

ASSUME EnvironmentAssumption ==
  \A e \in Environments : e.assets.form = "list" => IsAssetList(e.assets.of)

VARIABLES
  environ,   (* the environment of the process                              *)
  scheme,    (* App.config, or nil                                          *)
  mapping,   (* chainsub: aggregator -> asset, as configured                *)
  listed,    (* the seed rows in the table: [asset, aggregator]             *)
  main,      (* where the main goroutine is                                 *)
  step,      (* StartAll and StopAll: which module's turn it is             *)
  quit,      (* a signal waits in the channel quit                          *)
  cancelled, (* the runtime context                                         *)
  hub,       (* "none", "open", "down"                                      *)
  pool,      (* "none", "open", "closing", "closed"                         *)
  grpc,      (* "unbound", "serving", "draining", "stopped"                 *)
  health,    (* "none" until the server is made, "off", "starting",         *)
             (* "serving", "failed", "draining", "stopped", "abandoned":    *)
             (* Shutdown gave up on a connection                            *)
  sub,       (* chainsub: "off", "idle", "insert", "publish", "ended"       *)
  copy,      (* the subscriptions its Publish has copied                    *)
  call,      (* per call, see below                                         *)
  told,      (* the streams whose channel the hub has closed                *)
  late,      (* history: the streams registered after Shutdown's sweep      *)
  probe,     (* a /readyz request: "idle", "asking"                         *)
  answer     (* the last answer of /readyz                                  *)

configVars == <<environ, scheme, mapping, listed>>
procVars == <<main, step, quit, cancelled>>
modVars  == <<hub, pool, grpc, health>>
subVars  == <<sub, copy>>
callVars == <<call, told, late>>
probeVars == <<probe, answer>>
vars == <<configVars, procVars, modVars, subVars, callVars, probeVars>>

(* A unary call waits for the database ("query").  A stream is inside       *)
(* Subscribe ("subscribing"), then it may read a page of history ("replay") *)
(* and send it ("page"); then it waits for the hub ("live") and sends what  *)
(* comes ("send").                                                          *)
Streaming == {"replay", "page", "live", "send"}
Registered(c) == call[c] \in Streaming /\ c \notin told
Closed(c)     == c \in told \/ call[c] = "done"

Register(modules, m) == Append(modules, m)

(* As App.Init registers them, one after the other.                         *)
Modules == Register(Register(Register(<<>>, "repository"), "grpc"), "healthz")

StartBackwards == Reverse(Modules)
StartOrder     == Modules

StopAsRegistered == Modules
StopOrder        == Reverse(Modules)

Alive == main \notin {"failed", "killed", "exited"}

Init ==
  /\ environ \in Environments /\ scheme = Nil /\ mapping = <<>> /\ listed = {}
  /\ main = "new" /\ step = 0 /\ quit = FALSE /\ cancelled = FALSE
  /\ hub = "none" /\ pool = "none" /\ grpc = "unbound" /\ health = "none"
  /\ sub = "off" /\ copy = {}
  /\ call = [c \in Calls |-> "none"] /\ told = {} /\ late = {}
  /\ probe = "idle" /\ answer = "none"

-----------------------------------------------------------------------------
(* Until App.Serve.  An error ends the process: RunE returns it, and cobra  *)
(* calls PostRun, which holds App.Stop, only when RunE returns none.  The   *)
(* comment of serve.go:30 says the contrary; the pool, if open, stays so.   *)

Fails == main' = "failed" /\ UNCHANGED <<step, quit, cancelled, modVars, subVars>>

Proceeds(from, to) ==
  /\ main = from
  /\ main' = to
  /\ UNCHANGED <<step, quit, cancelled, hub, grpc, health, subVars>>

(* A build date that was linked in may not parse.                           *)
NewApplication ==
  /\ \/ main = "new" /\ Fails
     \/ Proceeds("new", "config") /\ UNCHANGED pool
  /\ UNCHANGED <<configVars, callVars, probeVars>>

ReadConfig ==
  LET read == InitializeConfig(environ.vars, environ.assets)
  IN  /\ \/ read = Nil /\ main = "config" /\ Fails /\ UNCHANGED scheme
         \/ read # Nil /\ Proceeds("config", "validate") /\ scheme' = read /\ UNCHANGED pool
      /\ UNCHANGED <<environ, mapping, listed, callVars, probeVars>>

ValidateConfig ==
  /\ main = "validate"
  /\ IF Complaints(scheme[1]) # {} THEN Fails
     ELSE Proceeds("validate", "init") /\ UNCHANGED pool
  /\ UNCHANGED <<configVars, callVars, probeVars>>

InitRepository ==
  /\ \/ main = "init" /\ Fails
     \/ Proceeds("init", "boot") /\ pool' = "open"
  /\ UNCHANGED <<configVars, callVars, probeVars>>

(* A wiring error or a missing configuration are the only ones, and App.Init *)
(* makes neither.                                                           *)
InitHealthz == health = "none" /\ health' = "off"

(* bootstrapAssets adds the rows that are not there, one by one, and any    *)
(* insert may fail; then the hub, chainsub and the servers are constructed. *)
Bootstrap ==
  LET assets == ParseAssets(scheme[1].assets)
  IN  /\ main = "boot"
      /\ \/ /\ Fails
            /\ \E n \in 0..Len(assets) : listed' = listed \cup ToSet(SubSeq(assets, 1, n))
            /\ UNCHANGED mapping
         \/ /\ main' = "serve"
            /\ listed' = listed \cup ToSet(assets)
            /\ mapping' = Mapping(assets)
            /\ hub' = "open"
            /\ InitHealthz
            /\ UNCHANGED <<step, quit, cancelled, pool, grpc, subVars>>
      /\ UNCHANGED <<environ, scheme, callVars, probeVars>>

Launch == NewApplication \/ ReadConfig \/ ValidateConfig \/ InitRepository \/ Bootstrap

ServeRuntime ==
  /\ main = "serve"
  /\ main' = "start"
  /\ step' = 1
  /\ sub' = "idle"
  /\ UNCHANGED <<quit, cancelled, modVars, copy, callVars, probeVars>>

(* StartAll: repository does nothing, grpc binds its socket or fails,       *)
(* healthz leaves that to a goroutine.                                      *)
StartModule ==
  /\ main = "start"
  /\ step \in DOMAIN StartOrder
  /\ LET m == StartOrder[step] IN
     \/ m = "grpc" /\ Fails
     \/ /\ step' = step + 1
        /\ grpc' = IF m = "grpc" THEN "serving" ELSE grpc
        /\ health' = IF m = "healthz" THEN "starting" ELSE health
        /\ UNCHANGED <<main, quit, cancelled, hub, pool, subVars>>
  /\ UNCHANGED <<callVars, probeVars>>

HealthzBinds ==
  /\ health = "starting"
  /\ health' \in {"serving", "failed"}
  /\ UNCHANGED <<procVars, hub, pool, grpc, subVars, callVars, probeVars>>

Notify ==
  /\ main = "start"
  /\ step > Len(StartOrder)
  /\ main' = "waiting"
  /\ UNCHANGED <<step, quit, cancelled, modVars, subVars, callVars, probeVars>>

Starting == {"new", "config", "validate", "init", "boot", "serve", "start"}

(* A signal kills the process until signal.Notify is installed; during Stop *)
(* it is swallowed.                                                         *)
Signal ==
  /\ \/ main \in Starting /\ main' = "killed" /\ quit' = quit
     \/ main = "waiting" /\ ~quit /\ main' = main /\ quit' = TRUE
  /\ UNCHANGED <<step, cancelled, modVars, subVars, callVars, probeVars>>

-----------------------------------------------------------------------------
(* App.Stop                                                                 *)

CancelRuntime ==
  /\ main = "waiting"
  /\ quit
  /\ main' = "cancelled"
  /\ quit' = FALSE
  /\ cancelled' = TRUE
  /\ UNCHANGED <<step, modVars, subVars, callVars, probeVars>>

ShutdownFlagOnly ==
  /\ main = "cancelled"
  /\ main' = "stop"
  /\ step' = 1
  /\ hub' = "down"
  /\ UNCHANGED <<quit, cancelled, pool, grpc, health, subVars, callVars, probeVars>>

(* The sweep of the registry as one step; StreamHub has it in full.         *)
ShutdownHub ==
  /\ main = "cancelled"
  /\ main' = "stop"
  /\ step' = 1
  /\ hub' = "down"
  /\ told' = told \cup {c \in Calls : Registered(c)}
  /\ UNCHANGED <<quit, cancelled, pool, grpc, health, subVars, call, late, probeVars>>

(* StopAll: the module whose turn it is; each Stop begins, then returns.    *)
Stopping(m) == main = "stop" /\ step \in DOMAIN StopOrder /\ StopOrder[step] = m

StopRest == UNCHANGED <<main, quit, cancelled, hub, subVars, callVars, probeVars>>

HealthzStopBegins ==
  /\ Stopping("healthz")
  /\ health \in {"starting", "serving", "failed"}
  /\ health' = "draining"
  /\ StopRest /\ UNCHANGED <<step, pool, grpc>>

HealthzStopGivesUp ==
  /\ Stopping("healthz")
  /\ health = "draining"
  /\ \/ probe = "idle" /\ health' = "stopped" /\ step' = step + 1
     \/ health' = "abandoned" /\ step' = Len(StopOrder) + 1
  /\ StopRest /\ UNCHANGED <<pool, grpc>>

(* Shutdown waits five seconds for open connections.  Its error is noted    *)
(* and the next module's turn comes all the same.                           *)
HealthzStopReturns ==
  /\ Stopping("healthz")
  /\ health = "draining"
  /\ \/ probe = "idle" /\ health' = "stopped"
     \/ health' = "abandoned"
  /\ step' = step + 1
  /\ StopRest /\ UNCHANGED <<pool, grpc>>

GrpcStopBegins ==
  /\ Stopping("grpc")
  /\ grpc = "serving"
  /\ grpc' = "draining"
  /\ StopRest /\ UNCHANGED <<step, pool, health>>

(* GracefulStop looks at no context: it waits for the last handler.         *)
GrpcStopReturns ==
  /\ Stopping("grpc")
  /\ grpc = "draining"
  /\ \A c \in Calls : call[c] \in {"none", "done"}
  /\ grpc' = "stopped"
  /\ step' = step + 1
  /\ StopRest /\ UNCHANGED <<pool, health>>

PoolCloseBegins ==
  /\ Stopping("repository")
  /\ pool = "open"
  /\ pool' = "closing"
  /\ StopRest /\ UNCHANGED <<step, grpc, health>>

(* Close waits for the connections that are in use.                         *)
PoolCloseReturns ==
  /\ Stopping("repository")
  /\ pool = "closing"
  /\ sub # "insert" /\ probe # "asking"
  /\ \A c \in Calls : call[c] \notin {"query", "replay"}
  /\ pool' = "closed"
  /\ step' = step + 1
  /\ StopRest /\ UNCHANGED <<grpc, health>>

(* chainsub has ended, or the 30 seconds since StopAll began are over.      *)
StopReturns ==
  /\ main = "stop"
  /\ step > Len(StopOrder)
  /\ main' = "exited"
  /\ UNCHANGED <<step, quit, cancelled, modVars, subVars, callVars, probeVars>>

-----------------------------------------------------------------------------
(* chainsub; see ChainSub.                                                  *)

SubRest == UNCHANGED <<step, quit, cancelled, modVars, call, late, probeVars>>

(* After the cancel, select may still pick a log that waits: the pool gives *)
(* no connection under a cancelled context, and Run ends (RunEnds).         *)
TakeLog ==
  /\ sub = "idle"
  /\ ~cancelled
  /\ sub' = "insert"
  /\ UNCHANGED <<main, copy, told>> /\ SubRest

InsertFails ==
  /\ sub = "insert"
  /\ sub' \in (IF cancelled THEN {"idle", "ended"} ELSE {"idle"})
  /\ UNCHANGED <<main, copy, told>> /\ SubRest

(* The row is stored; Publish looks at the shutdown flag and copies the     *)
(* registry.                                                                *)
InsertReturns ==
  /\ sub = "insert"
  /\ pool \in {"open", "closing"}
  /\ sub' = IF hub = "open" THEN "publish" ELSE "idle"
  /\ copy' = IF hub = "open" THEN {c \in Calls : Registered(c)} ELSE {}
  /\ UNCHANGED <<main, told>> /\ SubRest

(* The slow ones are cut off.                                               *)
DropSlow == \E slow \in SUBSET {c \in copy : Registered(c)} : told' = told \cup slow

PublishKeepsCopy ==
  /\ sub = "publish"
  /\ sub' = "idle"
  /\ DropSlow
  /\ UNCHANGED <<main, copy>> /\ SubRest

PublishReturns ==
  /\ sub = "publish"
  /\ sub' = "idle"
  /\ copy' = {}
  /\ DropSlow
  /\ UNCHANGED main /\ SubRest

(* A channel of the copy was closed: the send panics.                       *)
PublishPanics ==
  /\ sub = "publish"
  /\ \E c \in copy : Closed(c)
  /\ main' = "killed"
  /\ UNCHANGED <<subVars, told>> /\ SubRest

RunEnds ==
  /\ sub = "idle"
  /\ cancelled
  /\ sub' = "ended"
  /\ UNCHANGED <<main, copy, told>> /\ SubRest

-----------------------------------------------------------------------------
(* API calls.                                                               *)

CallRest == UNCHANGED <<procVars, modVars, subVars, probeVars>>
Moves(c, from, to) ==
  /\ call[c] \in from
  /\ \E s \in to : call' = [call EXCEPT ![c] = s]
  /\ CallRest
Goes(c, from, to) == Moves(c, from, to) /\ UNCHANGED <<told, late>>

(* A call may already be on its way when the drain begins.                  *)
QueryArrives(c) ==
  /\ grpc \in {"serving", "draining"}
  /\ Goes(c, {"none"}, {"query"})

(* Subscribe reads the flag of the hub, and the call is refused, or goes on *)
(* to register; at the cap it is refused too.                               *)
StreamArrives(c) ==
  /\ grpc \in {"serving", "draining"}
  /\ Goes(c, {"none"}, {IF hub = "down" THEN "done" ELSE "subscribing"})

SubscribeRefused(c) == Goes(c, {"subscribing"}, {"done"})
SubscribeInsert(c) ==
  /\ Moves(c, {"subscribing"}, {"replay", "live"})
  /\ late' = IF hub = "down" THEN late \cup {c} ELSE late
  /\ UNCHANGED told

(* The database answers, with an error too.                                 *)
QueryReturns(c)  == Goes(c, {"query"}, {"done"})
ReplayReturns(c) == Goes(c, {"replay"}, {"page", "live", "done"})

ClientTakes(c) ==
  \/ Goes(c, {"page"}, {"replay", "live"})
  \/ Goes(c, {"send"}, {"live"})
LiveEvent(c) == c \notin late /\ Goes(c, {"live"}, {"send"})

StreamTold(c)   == c \in told /\ Goes(c, {"live"}, {"done"})
ClientLeaves(c) == Goes(c, {"query"} \cup Streaming, {"done"})

-----------------------------------------------------------------------------
(* Probes: readyz asks every module; repository asks the database, grpc     *)
(* nothing, and healthz whether its server was made, so /readyz may say     *)
(* ready whatever else happens.                                             *)

HealthzHealthCheck == health # "none"

HealthCheck(m) ==
  CASE m = "repository" -> IF pool = "none" THEN {FALSE} ELSE BOOLEAN
    [] m = "grpc"       -> {TRUE}
    [] m = "healthz"    -> {HealthzHealthCheck}
Ready(healthy) == \A m \in DOMAIN healthy : healthy[m]

ProbeAsks ==
  /\ health \in {"serving", "draining", "abandoned"}
  /\ pool = "open"
  /\ probe = "idle"
  /\ probe' = "asking"
  /\ UNCHANGED <<procVars, modVars, subVars, callVars, answer>>

ProbeAnswers ==
  /\ probe = "asking"
  /\ probe' = "idle"
  /\ \E healthy \in [ToSet(Modules) -> BOOLEAN] :
       /\ \A m \in DOMAIN healthy : healthy[m] \in HealthCheck(m)
       /\ answer' = IF Ready(healthy) THEN "ready" ELSE "not_ready"
  /\ UNCHANGED <<procVars, modVars, subVars, callVars>>

-----------------------------------------------------------------------------
(* The configuration is read and used before anything else runs.            *)
AsConfigured(A) == A /\ UNCHANGED configVars

MainStep ==
  \/ Launch
  \/ AsConfigured( \/ ServeRuntime \/ StartModule \/ Notify
                   \/ CancelRuntime \/ ShutdownHub
                   \/ HealthzStopBegins \/ HealthzStopReturns
                   \/ GrpcStopBegins \/ GrpcStopReturns
                   \/ PoolCloseBegins \/ PoolCloseReturns \/ StopReturns )

SubStep == TakeLog \/ InsertFails \/ InsertReturns \/ PublishReturns \/ PublishPanics \/ RunEnds

CallStep(c) ==
  \/ QueryArrives(c) \/ StreamArrives(c)
  \/ SubscribeInsert(c) \/ SubscribeRefused(c)
  \/ QueryReturns(c) \/ ReplayReturns(c) \/ ClientTakes(c) \/ LiveEvent(c)
  \/ StreamTold(c) \/ ClientLeaves(c)

Finished == ~Alive /\ UNCHANGED vars

Next ==
  \/ Alive /\ MainStep
  \/ Alive /\ AsConfigured( \/ Signal \/ HealthzBinds \/ SubStep
                            \/ \E c \in Calls : CallStep(c)
                            \/ ProbeAsks \/ ProbeAnswers )
  \/ Finished

(* Fair are the main goroutine, chainsub within one log (its calls take the *)
(* context), a handler inside Subscribe, and a probe (it asks with a        *)
(* timeout of three seconds).  Neither clients nor the database, asked by a *)
(* call, are.  A stream whose channel is closed finds it empty one day: the *)
(* buffer is finite, hence the strong fairness.                             *)
Spec ==
  /\ Init /\ [][Next]_vars
  /\ WF_vars(Alive /\ MainStep)
  /\ WF_vars(Alive /\ AsConfigured(InsertFails \/ InsertReturns))
  /\ WF_vars(Alive /\ AsConfigured(PublishReturns))
  /\ WF_vars(Alive /\ AsConfigured(ProbeAnswers))
  /\ \A c \in Calls : WF_vars(Alive /\ AsConfigured(SubscribeInsert(c) \/ SubscribeRefused(c)))
  /\ \A c \in Calls : SF_vars(Alive /\ AsConfigured(StreamTold(c)))

-----------------------------------------------------------------------------
(* Properties.                                                              *)

(* Type correctness; a copy of the registry is held only inside Publish.    *)
TypeOK ==
  /\ environ \in Environments
  /\ main \in Starting \cup {"waiting", "cancelled", "stop", "failed", "killed", "exited"}
  /\ Alive => (scheme = Nil <=> main \in {"new", "config"})
  /\ step \in 0..Len(Modules) + 1
  /\ quit \in BOOLEAN /\ cancelled \in BOOLEAN
  /\ hub \in {"none", "open", "down"}
  /\ pool \in {"none", "open", "closing", "closed"}
  /\ grpc \in {"unbound", "serving", "draining", "stopped"}
  /\ health \in {"none", "off", "starting", "serving", "failed", "draining", "stopped",
                 "abandoned"}
  /\ sub \in {"off", "idle", "insert", "publish", "ended"}
  /\ copy \in SUBSET Calls /\ (sub # "publish" => copy = {})
  /\ call \in [Calls -> {"none", "query", "subscribing", "done"} \cup Streaming]
  /\ told \in SUBSET Calls /\ late \in SUBSET Calls
  /\ probe \in {"idle", "asking"} /\ answer \in {"none", "ready", "not_ready"}

(* Two texts may be of one address and yet differ, if they have other than  *)
(* hexadecimal digits.                                                      *)
AllDigits(text) == text.rest = Nil

MisreadLater(list, i) ==
  \E j \in DOMAIN list :
    /\ j > i
    /\ FromHex(list[j].aggregator) = FromHex(list[i].aggregator)
    /\ ~(AllDigits(list[i].aggregator) /\ AllDigits(list[j].aggregator))

(* What the configuration says of an aggregator is what the process makes   *)
(* of it, in whatever case addresses are spelled: the API lists the pair of *)
(* every entry, before any log or call, and chainsub labels the logs of the *)
(* aggregator with the asset of its entry, unless a later entry that is not *)
(* hexadecimal, or follows one that is not, parses to the same address.     *)
(* Validate means to exclude that ("One aggregator -> one asset",           *)
(* config/init.go:172) and application.go:198 relies on it ("Validation     *)
(* already guaranteed the hex shapes"), but Validate checks no digit.       *)
ConfiguredAssets ==
  mapping # <<>> =>
    LET list == scheme[1].assets
    IN  \A i \in DOMAIN list :
          /\ ParseEntry(list[i]) \in listed
          /\ \/ mapping[FromHex(list[i].aggregator)] = FromHex(list[i].id)
             \/ MisreadLater(list, i)

(* No call that has begun loses the database under it: the pool is open     *)
(* until the last handler has returned.                                     *)
CallsHavePool ==
  \A c \in Calls : call[c] \notin {"none", "done"} => pool = "open"

(* /readyz never says ready before the gRPC socket is bound.                *)
ReadyMeansBound == answer = "ready" => grpc # "unbound"

(* When Stop returns, the hub and every module have been stopped, also if   *)
(* the health listener did not drain in time, and chainsub, which may still *)
(* run if it outlived the 30 seconds, is not inside an insert.              *)
StopIsComplete ==
  main = "exited" =>
    /\ cancelled /\ hub = "down" /\ grpc = "stopped" /\ pool = "closed"
    /\ health \in {"stopped", "abandoned"}
    /\ sub # "insert"

(* The Stop of a module "Should respect context timeout for graceful        *)
(* shutdown" (module.go:26), so StopAll, once begun, comes to its end,      *)
(* whatever the clients do.                                                 *)
StopRespectsTimeout == main = "stop" ~> ~Alive

(* A signal ends the process, unless one call is held up for ever by its    *)
(* client, by the database, or by a subscription that was registered after  *)
(* the hub was shut down (see ShutdownIsFinal of StreamHub).                *)
HeldUp(c) ==
  \/ call[c] \in {"query", "replay", "page", "send"}
  \/ call[c] = "live" /\ c \in late

SignalEndsProcess == (quit ~> ~Alive) \/ \E c \in Calls : <>[]HeldUp(c)
=============================================================================
