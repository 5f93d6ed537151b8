--------------------------- MODULE GrpcLifecycle ----------------------------
(***************************************************************************)
(* The life of the gRPC process (internal/app/grpc.go): it connects,       *)
(* serves on three listeners, and on a signal or a listener's failure      *)
(* fails readiness, waits, and stops the servers one after the other       *)
(* within one timeout.  Around it, the balancer that probes /readyz and    *)
(* sends RPCs while the process is in rotation.                            *)
(*                                                                         *)
(* The pprof listener is always there; disabled, it is one nobody asks.    *)
(* What the process returns is left out.                                   *)
(***************************************************************************)
EXTENDS Naturals, FiniteSets

CONSTANTS
    RPC,              \* the clients, each with one RPC at a time
    RedisModes,       \* the values cfg.Redis.Mode may have
    DrainDelay,       \* cfg.Server.DrainDelay in units of time
    ShutdownTimeout,  \* cfg.Server.ShutdownTimeout
    PingTimeout,      \* the 3 seconds of Readiness
    ProbePeriod,      \* the balancer asks again this long after an answer
    RemovalLag        \* and takes at most this long to act on a refusal

ASSUME LifecycleAssumption ==
    /\ RedisModes \subseteq {"required", "optional"} /\ RedisModes # {}
    /\ DrainDelay \in Nat
    /\ ShutdownTimeout \in Nat \ {0}
    /\ PingTimeout \in Nat \ {0}
    /\ ProbePeriod \in Nat \ {0}
    /\ RemovalLag \in Nat

VARIABLES
    pc,         \* where RunGRPC is; "down" between two lives
    signalled,  \* ctx of NotifyContext is done
    killed,     \* the last life ended by force
    mode,       \* cfg.Redis.Mode of this life
    rdb,        \* setupRedis returned a client
    draining,   \* readiness and gRPC health refuse
    left,       \* time left of the drain delay or of shutdownCtx
    age,        \* history: time since draining began
    listener,   \* "off", "up", "failed" or "closed"
    rpc,        \* "idle", "flight", "cut" or "refused"
    profiling,  \* a pprof request is being served
    up,         \* the dependencies that answer
    probe,      \* "idle", "ping" (past the draining check) or "lost"
    timer,      \* time until the balancer's next probe, or the answer's limit
    rotation,   \* "in", "leaving" or "out"
    lag         \* time left for the balancer to act

mainVars == <<pc, signalled, killed, mode, rdb, draining>>
balancerVars == <<probe, timer, rotation, lag>>
lifeVars == <<mainVars, left, age, listener, rpc, profiling, up, balancerVars>>

Dependency == {"postgres", "redis"}
Listener == {"grpc", "http", "pprof"}
Booting == {"postgres", "redis", "servers"}
Serving == {"serve", "sleep"} \cup Listener

CountDown(n) == IF n > 0 THEN n - 1 ELSE 0

-----------------------------------------------------------------------------
(***************************************************************************)
(* Boot.  A failed step returns, the deferred closers run, and the process *)
(* is gone.                                                                *)
(***************************************************************************)
Start ==
    /\ pc = "down"
    /\ pc' = "postgres" /\ mode' \in RedisModes
    /\ signalled' = FALSE /\ killed' = FALSE /\ draining' = FALSE /\ rdb' = FALSE
    /\ left' = 0 /\ age' = 0
    /\ listener' = [l \in Listener |-> "off"]
    /\ UNCHANGED <<rpc, profiling, up, balancerVars>>

\* NewPool pings, Migrate runs.
ConnectPostgres ==
    /\ pc = "postgres" /\ "postgres" \in up
    /\ pc' = "redis"
    /\ UNCHANGED <<signalled, killed, mode, rdb, draining, left, age, listener, rpc, profiling, up,
                   balancerVars>>

ConnectRedis ==
    /\ pc = "redis" /\ "redis" \in up
    /\ pc' = "servers" /\ rdb' = TRUE
    /\ UNCHANGED <<signalled, killed, mode, draining, left, age, listener, rpc, profiling, up,
                   balancerVars>>

\* Redis does not answer, or the context is done: go on with a nil client.
WithoutRedis ==
    /\ pc = "redis" /\ ("redis" \notin up \/ signalled)
    /\ pc' = "servers"
    /\ UNCHANGED <<signalled, killed, mode, rdb, draining, left, age, listener, rpc, profiling, up,
                   balancerVars>>

\* Mutant of RedisUnreachable: the mode is not looked at.
RedisUnreachableAnyMode == WithoutRedis

\* In required mode the boot fails.
RedisUnreachable == mode = "optional" /\ WithoutRedis

\* Migrations, the ocr client, the TLS files, or a cancelled context.
BootFails ==
    /\ pc \in Booting
    /\ pc' = "down"
    /\ UNCHANGED <<signalled, killed, mode, rdb, draining, left, age, listener, rpc, profiling, up,
                   balancerVars>>

BuildServers ==
    /\ pc = "servers"
    /\ pc' = "serve"
    /\ UNCHANGED <<signalled, killed, mode, rdb, draining, left, age, listener, rpc, profiling, up,
                   balancerVars>>

(***************************************************************************)
(* The goroutines of the errgroup.  One that has not listened when its     *)
(* server is stopped returns at once.                                      *)
(***************************************************************************)
Listen(l) ==
    /\ pc \in Serving /\ listener[l] = "off"
    /\ listener' = [listener EXCEPT ![l] = "up"]
    /\ UNCHANGED <<mainVars, left, age, rpc, profiling, up, balancerVars>>

ListenerFails(l) ==
    /\ pc \in Serving /\ listener[l] \in {"off", "up"}
    /\ listener' = [listener EXCEPT ![l] = "failed"]
    /\ UNCHANGED <<mainVars, left, age, rpc, profiling, up, balancerVars>>

Signal ==
    /\ pc # "down" /\ ~signalled
    /\ signalled' = TRUE
    /\ UNCHANGED <<pc, killed, mode, rdb, draining, left, age, listener, rpc, profiling, up,
                   balancerVars>>

-----------------------------------------------------------------------------
(***************************************************************************)
(* Shutdown.                                                               *)
(***************************************************************************)
RunCtxDone == signalled \/ \E l \in Listener : listener[l] = "failed"

\* Mutant of BeginShutdown: readiness goes on as before.
BeginShutdownReady ==
    /\ pc = "serve" /\ RunCtxDone
    /\ pc' = "sleep" /\ left' = DrainDelay
    /\ UNCHANGED <<signalled, killed, mode, rdb, draining, age, listener, rpc, profiling, up,
                   balancerVars>>

\* Both BeginDrains, then the sleep.
BeginShutdown ==
    /\ pc = "serve" /\ RunCtxDone
    /\ pc' = "sleep" /\ draining' = TRUE /\ left' = DrainDelay
    /\ UNCHANGED <<signalled, killed, mode, rdb, age, listener, rpc, profiling, up, balancerVars>>

\* Shutdown of a server closes its listener first.
Close(l) ==
    listener' = [listener EXCEPT ![l] = IF @ = "failed" THEN @ ELSE "closed"]

\* Mutant of StopPprof: shutdownCtx was made before the sleep.
StopPprofSharedTimeout ==
    /\ pc = "sleep" /\ left = 0
    /\ pc' = "pprof" /\ left' = IF ShutdownTimeout > age THEN ShutdownTimeout - age ELSE 0
    /\ Close("pprof")
    /\ UNCHANGED <<signalled, killed, mode, rdb, draining, age, rpc, profiling, up, balancerVars>>

StopPprof ==
    /\ pc = "sleep" /\ left = 0
    /\ pc' = "pprof" /\ left' = ShutdownTimeout
    /\ Close("pprof")
    /\ UNCHANGED <<signalled, killed, mode, rdb, draining, age, rpc, profiling, up, balancerVars>>

StopHTTP ==
    /\ pc = "pprof" /\ ~profiling
    /\ pc' = "http"
    /\ Close("http")
    /\ UNCHANGED <<signalled, killed, mode, rdb, draining, left, age, rpc, profiling, up, balancerVars>>

StopGRPC ==
    /\ pc = "http" /\ probe # "ping"
    /\ pc' = "grpc"
    /\ Close("grpc")
    /\ UNCHANGED <<signalled, killed, mode, rdb, draining, left, age, rpc, profiling, up, balancerVars>>

Busy(l) ==
    CASE l = "pprof" -> profiling
      [] l = "http" -> probe = "ping"
      [] l = "grpc" -> \E r \in RPC : rpc[r] = "flight"

\* RunGRPC returns: the clients are closed and the process ends.
Gone ==
    /\ pc' = "down"
    /\ listener' = [l \in Listener |-> IF listener[l] = "up" THEN "closed" ELSE listener[l]]
    /\ rpc' = [r \in RPC |-> IF rpc[r] = "flight" THEN "cut" ELSE rpc[r]]
    /\ profiling' = FALSE
    /\ probe' = IF probe = "ping" THEN "lost" ELSE probe
    /\ UNCHANGED <<signalled, mode, rdb, draining, left, age, up, timer, rotation, lag>>

\* Every server has stopped, so Wait has nothing to wait for.
Drained == pc = "grpc" /\ ~Busy("grpc") /\ Gone /\ UNCHANGED killed

\* Mutant of TimedOut: the servers are stopped without a deadline.
TimedOutNever == pc = "sleep" /\ left > DrainDelay /\ Gone /\ UNCHANGED killed

\* A Shutdown that runs out of time returns, and RunGRPC with it: the servers
\* that come after are not stopped but end with the process.
TimedOut ==
    /\ pc \in Listener /\ Busy(pc) /\ left = 0
    /\ Gone /\ UNCHANGED killed

\* SIGKILL, or a second SIGTERM after stop().
Kill == pc # "down" /\ Gone /\ killed' = TRUE

-----------------------------------------------------------------------------
(***************************************************************************)
(* RPCs and profiles.                                                      *)
(***************************************************************************)
Send(r) ==
    /\ rpc[r] = "idle" /\ rotation # "out"
    /\ rpc' = [rpc EXCEPT ![r] = IF listener["grpc"] = "up" THEN "flight" ELSE "refused"]
    /\ UNCHANGED <<mainVars, left, age, listener, profiling, up, balancerVars>>

\* An answer, or the client noticing that there is none.
Complete(r) ==
    /\ rpc[r] # "idle"
    /\ rpc' = [rpc EXCEPT ![r] = "idle"]
    /\ UNCHANGED <<mainVars, left, age, listener, profiling, up, balancerVars>>

Profile ==
    /\ profiling \/ listener["pprof"] = "up"
    /\ profiling' = ~profiling
    /\ UNCHANGED <<mainVars, left, age, listener, rpc, up, balancerVars>>

(***************************************************************************)
(* The balancer's probe of /readyz.  Readiness reads draining when it      *)
(* starts and pings afterwards, so an answer can be older than the drain.  *)
(***************************************************************************)
Refused ==
    /\ probe' = "idle" /\ timer' = ProbePeriod
    /\ IF rotation = "in"
         THEN rotation' = "leaving" /\ lag' = RemovalLag
         ELSE UNCHANGED <<rotation, lag>>

Accepted == probe' = "idle" /\ timer' = ProbePeriod /\ rotation' = "in" /\ lag' = 0

\* Mutant of Probe: the pings are bounded by the server's WriteTimeout alone.
ProbeUnbounded ==
    /\ probe = "idle" /\ timer = 0
    /\ IF listener["http"] = "up" /\ ~draining
         THEN probe' = "ping" /\ timer' = 10 * PingTimeout /\ UNCHANGED <<rotation, lag>>
         ELSE Refused
    /\ UNCHANGED <<mainVars, left, age, listener, rpc, profiling, up>>

Probe ==
    /\ probe = "idle" /\ timer = 0
    /\ IF listener["http"] = "up" /\ ~draining
         THEN probe' = "ping" /\ timer' = PingTimeout /\ UNCHANGED <<rotation, lag>>
         ELSE Refused
    /\ UNCHANGED <<mainVars, left, age, listener, rpc, profiling, up>>

\* A nil client's pinger always fails.
Readiness ==
    /\ probe \in {"ping", "lost"}
    /\ IF probe = "ping" /\ rdb /\ up = Dependency THEN Accepted ELSE Refused
    /\ UNCHANGED <<mainVars, left, age, listener, rpc, profiling, up>>

Remove ==
    /\ rotation = "leaving"
    /\ rotation' = "out" /\ lag' = 0
    /\ UNCHANGED <<mainVars, left, age, listener, rpc, profiling, up, probe, timer>>

Flip(d) ==
    /\ up' = IF d \in up THEN up \ {d} ELSE up \cup {d}
    /\ UNCHANGED <<mainVars, left, age, listener, rpc, profiling, balancerVars>>

\* The balancer is on time; RunGRPC may be late.
Tick ==
    /\ timer > 0 /\ (rotation = "leaving" => lag > 0)
    /\ timer' = timer - 1
    /\ lag' = CountDown(lag)
    /\ left' = CountDown(left)
    /\ age' = IF draining /\ pc # "down" /\ age < DrainDelay + ShutdownTimeout
                THEN age + 1 ELSE age
    /\ UNCHANGED <<mainVars, listener, rpc, profiling, up, probe, rotation>>

-----------------------------------------------------------------------------
LifeInit ==
    /\ pc = "down" /\ signalled = FALSE /\ killed = FALSE /\ rdb = FALSE /\ draining = FALSE
    /\ mode \in RedisModes
    /\ left = 0 /\ age = 0
    /\ listener = [l \in Listener |-> "off"]
    /\ rpc = [r \in RPC |-> "idle"]
    /\ profiling = FALSE
    /\ up = Dependency
    /\ probe = "idle" /\ timer = ProbePeriod /\ rotation = "out" /\ lag = 0

Main ==
    \/ Start \/ ConnectPostgres \/ ConnectRedis \/ RedisUnreachable \/ BootFails \/ BuildServers
    \/ BeginShutdown \/ StopPprof \/ StopHTTP \/ StopGRPC \/ Drained \/ TimedOut

Balancer == Probe \/ Readiness \/ Remove

LifeNext ==
    \/ Main \/ Signal \/ Kill \/ Balancer \/ Profile \/ Tick
    \/ \E l \in Listener : Listen(l) \/ ListenerFails(l)
    \/ \E r \in RPC : Send(r) \/ Complete(r)
    \/ \E d \in Dependency : Flip(d)

LifeSpec == LifeInit /\ [][LifeNext]_lifeVars

(***************************************************************************)
(* Fairness.  The orchestrator starts what is down, the process takes its  *)
(* next step, time passes and the balancer probes.  Boot steps and         *)
(* listeners may fail, but not every time.  Requests may hang for ever.    *)
(***************************************************************************)
LifeFairness ==
    /\ WF_lifeVars(Main) /\ WF_lifeVars(Balancer) /\ WF_lifeVars(Tick)
    /\ SF_lifeVars(ConnectPostgres) /\ SF_lifeVars(ConnectRedis) /\ SF_lifeVars(BuildServers)
    /\ \A l \in Listener : WF_lifeVars(Listen(l))

LifeFairSpec == LifeSpec /\ LifeFairness

-----------------------------------------------------------------------------
(***************************************************************************)
(* Properties.                                                             *)
(***************************************************************************)
\* Every variable has its type; the timers stay within the waits they time.
LifeTypeOK ==
    /\ pc \in {"down"} \cup Booting \cup Serving
    /\ signalled \in BOOLEAN /\ killed \in BOOLEAN /\ rdb \in BOOLEAN /\ draining \in BOOLEAN
    /\ mode \in RedisModes
    /\ left \in 0 .. (DrainDelay + ShutdownTimeout)
    /\ age \in 0 .. (DrainDelay + ShutdownTimeout)
    /\ listener \in [Listener -> {"off", "up", "failed", "closed"}]
    /\ rpc \in [RPC -> {"idle", "flight", "cut", "refused"}]
    /\ profiling \in BOOLEAN
    /\ up \in SUBSET Dependency
    /\ probe \in {"idle", "ping", "lost"}
    /\ timer \in 0 .. (PingTimeout + ProbePeriod)
    /\ rotation \in {"in", "leaving", "out"}
    /\ lag \in 0 .. RemovalLag

\* A drain delay that covers a probe answered late, the next one and the removal.
DelayCoversRemoval == DrainDelay > PingTimeout + ProbePeriod + RemovalLag

\* "Fail readiness first, then drain" (grpc.go:164): when the delay covers the balancer's
\* reaction, no client is sent to a listener that the shutdown has closed.  Refusals are
\* left to processes that died, lost the listener, or do not listen yet.
NobodyIsTurnedAway ==
    [][DelayCoversRemoval =>
          \A r \in RPC : rpc[r] # "refused" /\ rpc'[r] = "refused" =>
              killed \/ listener["grpc"] \in {"off", "failed"}]_lifeVars

\* A shutdown cuts an RPC off only when it has had the whole drain delay and the whole
\* shutdown timeout to finish, whichever server used the time up.
InFlightGetsTheTime ==
    [][\A r \in RPC : rpc[r] = "flight" /\ rpc'[r] = "cut" =>
          killed' \/ age = DrainDelay + ShutdownTimeout]_lifeVars

\* A signalled process ends, although probes, profiles and RPCs may hang: no Shutdown
\* and no Wait blocks for ever.
ShutdownEnds == signalled ~> pc = "down"

Undisturbed ==
    /\ up = Dependency /\ ~signalled /\ ~killed
    /\ \A l \in Listener : listener[l] # "failed"

\* Once the dependencies answer for good and nobody ends the process, one that requires
\* Redis comes into rotation and stays: a Redis down at boot ends it instead of leaving
\* it without a client.
ReadyOnceHealthy == <>[](Undisturbed /\ mode = "required") => <>[](rotation = "in")

\* "optional mode degrades only for as long as the connection is down" (grpc.go:196):
\* the same in optional mode.
DegradesOnlyWhileDown == <>[](Undisturbed /\ mode = "optional") => <>[](rotation = "in")
=============================================================================
