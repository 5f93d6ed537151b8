------------------------ MODULE GrpcLifecycleProofs -------------------------
(***************************************************************************)
(* Theorems about GrpcLifecycle, for every number of clients and every     *)
(* choice of the delays and timeouts.                                      *)
(***************************************************************************)
EXTENDS GrpcLifecycle, TLAPS

(***************************************************************************)
(* The inductive invariant.                                                *)
(***************************************************************************)

\* Once readiness fails, the time that is left and the time gone by make up the wait:
\* the drain delay, and then the shutdown timeout after it.
DrainTime ==
    /\ ~draining => age = 0
    /\ pc = "sleep" => draining /\ DrainDelay <= age + left
    /\ pc \in Listener =>
          draining /\ DrainDelay <= age /\ DrainDelay + ShutdownTimeout <= age + left

\* How late in the drain a probe may still be answered, the process be in rotation,
\* and the balancer be about to take it out.
ReactionTime ==
    /\ probe # "idle" => timer <= PingTimeout
    /\ draining =>
          /\ probe # "idle" => age + timer <= PingTimeout
          /\ rotation = "in" => age + timer <= PingTimeout + ProbePeriod
          /\ rotation = "leaving" => age + lag <= PingTimeout + ProbePeriod + RemovalLag

\* A shutdown closes the listener of the RPCs after the drain delay.
ClosedLate == listener["grpc"] = "closed" /\ ~killed => draining /\ DrainDelay <= age

LifeInv == LifeTypeOK /\ DrainTime /\ ReactionTime /\ ClosedLate

LEMMA LifeInvInit == LifeInit => LifeInv
<1> SUFFICES ASSUME LifeInit PROVE LifeInv
  OBVIOUS
<1>1. {signalled, killed, rdb, draining, profiling} \subseteq BOOLEAN /\ ~draining
  BY Zenon DEF LifeInit
<1>2. /\ pc = "down" /\ mode \in RedisModes /\ left = 0 /\ age = 0
      /\ listener = [l \in Listener |-> "off"] /\ rpc = [r \in RPC |-> "idle"]
      /\ up = Dependency /\ probe = "idle" /\ timer = ProbePeriod /\ rotation = "out" /\ lag = 0
  BY DEF LifeInit
<1>3. LifeTypeOK
  BY <1>1, <1>2, LifecycleAssumption DEF LifeTypeOK
<1>4. DrainTime /\ ReactionTime /\ ClosedLate
  BY <1>1, <1>2 DEF DrainTime, ReactionTime, ClosedLate, Listener
<1> QED BY <1>3, <1>4 DEF LifeInv

(***************************************************************************)
(* The type of the variables.                                              *)
(***************************************************************************)

LEMMA LifeTypeStep == LifeTypeOK /\ [LifeNext]_lifeVars => LifeTypeOK'
<1> SUFFICES ASSUME LifeTypeOK, [LifeNext]_lifeVars PROVE LifeTypeOK'
  OBVIOUS
<1> USE LifecycleAssumption DEF LifeTypeOK
<1>1. CASE UNCHANGED lifeVars
  BY <1>1 DEF lifeVars, mainVars, balancerVars
<1>2. CASE Start
  <2>1. {signalled', killed', rdb', draining', profiling'} \subseteq BOOLEAN
    BY <1>2, Zenon DEF Start
  <2>2. /\ pc' \in Booting /\ mode' \in RedisModes
        /\ left' \in 0 .. (DrainDelay + ShutdownTimeout)
        /\ age' \in 0 .. (DrainDelay + ShutdownTimeout)
        /\ listener' \in [Listener -> {"off", "up", "failed", "closed"}]
    BY <1>2 DEF Start, Booting
  <2>3. UNCHANGED <<rpc, up, probe, timer, rotation, lag>>
    BY <1>2 DEF Start, balancerVars
  <2> QED BY <2>1, <2>2, <2>3
<1>3. CASE ConnectPostgres \/ ConnectRedis \/ RedisUnreachable \/ BootFails \/ BuildServers
  BY <1>3 DEF ConnectPostgres, ConnectRedis, RedisUnreachable, WithoutRedis, BootFails, BuildServers,
              balancerVars, Booting, Serving
<1>4. CASE BeginShutdown \/ Signal
  <2>1. {signalled', killed', rdb', draining', profiling'} \subseteq BOOLEAN
    BY <1>4, Zenon DEF BeginShutdown, Signal
  <2>2. pc' \in {"down"} \cup Booting \cup Serving /\ left' \in 0 .. (DrainDelay + ShutdownTimeout)
    BY <1>4 DEF BeginShutdown, Signal, Serving
  <2>3. UNCHANGED <<mode, age, listener, rpc, up, probe, timer, rotation, lag>>
    BY <1>4 DEF BeginShutdown, Signal, balancerVars
  <2> QED BY <2>1, <2>2, <2>3
<1>5. CASE StopPprof \/ StopHTTP \/ StopGRPC
  BY <1>5 DEF StopPprof, StopHTTP, StopGRPC, Close, balancerVars, Serving, Listener
<1>6. CASE Drained \/ TimedOut \/ Kill
  BY <1>6 DEF Drained, TimedOut, Kill, Gone
<1>7. CASE Probe \/ Readiness \/ Remove
  BY <1>7 DEF Probe, Readiness, Remove, Refused, Accepted, mainVars
<1>8. CASE Profile \/ \E r \in RPC : Send(r) \/ Complete(r)
  BY <1>8 DEF Profile, Send, Complete, mainVars, balancerVars
<1>9. CASE Tick
  BY <1>9 DEF Tick, CountDown, mainVars
<1>10. CASE \E l \in Listener : Listen(l) \/ ListenerFails(l)
  BY <1>10 DEF Listen, ListenerFails, mainVars, balancerVars
<1>11. CASE \E d \in Dependency : Flip(d)
  BY <1>11 DEF Flip, mainVars, balancerVars
<1> QED BY <1>1, <1>2, <1>3, <1>4, <1>5, <1>6, <1>7, <1>8, <1>9, <1>10, <1>11
        DEF LifeNext, Main, Balancer

(***************************************************************************)
(* The time since the drain began.                                         *)
(***************************************************************************)

\* What the steps do to the two flags of the invariant.
LEMMA Flags ==
    ASSUME [LifeNext]_lifeVars
    PROVE  /\ BeginShutdown => draining'
           /\ Start => ~draining' /\ ~killed'
           /\ Kill => killed'
           /\ ~BeginShutdown /\ ~Start => (draining' <=> draining)
           /\ ~Kill /\ ~Start => (killed' <=> killed)
<1>1. (BeginShutdown => draining') /\ (Kill => killed')
  BY Zenon DEF BeginShutdown, Kill
<1>2. Start => ~draining' /\ ~killed'
  BY Zenon DEF Start
<1>3. (BeginShutdown => killed' = killed) /\ (Kill => draining' = draining)
  BY DEF BeginShutdown, Kill, Gone
<1>4. ~BeginShutdown /\ ~Start /\ ~Kill => draining' = draining /\ killed' = killed
  BY DEF LifeNext, Main, Balancer, lifeVars, mainVars, ConnectPostgres, ConnectRedis, RedisUnreachable,
         WithoutRedis, BootFails, BuildServers, Signal, StopPprof, StopHTTP, StopGRPC, Drained, TimedOut,
         Gone, Probe, Readiness, Remove, Profile, Send, Complete, Tick, Listen, ListenerFails, Flip
<1>5. ~BeginShutdown /\ ~Start => draining' = draining
  BY <1>3, <1>4
<1>6. ~Kill /\ ~Start => killed' = killed
  BY <1>3, <1>4
<1>7. ~BeginShutdown /\ ~Start => (draining' <=> draining)
  BY <1>5, Zenon
<1>8. ~Kill /\ ~Start => (killed' <=> killed)
  BY <1>6, Zenon
<1> QED BY <1>1, <1>2, <1>7, <1>8

LEMMA DrainTimeStep == LifeTypeOK /\ DrainTime /\ [LifeNext]_lifeVars => DrainTime'
<1> SUFFICES ASSUME LifeTypeOK, DrainTime, [LifeNext]_lifeVars PROVE DrainTime'
  OBVIOUS
<1>1. /\ left \in Nat /\ age \in Nat /\ left <= DrainDelay + ShutdownTimeout
      /\ age <= DrainDelay + ShutdownTimeout
      /\ DrainDelay \in Nat /\ ShutdownTimeout \in Nat
  BY LifecycleAssumption DEF LifeTypeOK
<1>2. CASE Start
  BY <1>2, Flags DEF Start, DrainTime, Listener
<1>3. CASE BeginShutdown
  <2>1. draining' /\ pc' = "sleep" /\ left' = DrainDelay /\ age' = age
    BY <1>3, Flags DEF BeginShutdown
  <2>2. DrainDelay <= age + DrainDelay
    BY <1>1
  <2> QED BY <2>1, <2>2 DEF DrainTime, Listener
<1>4. CASE ConnectPostgres \/ ConnectRedis \/ RedisUnreachable \/ BootFails \/ BuildServers
  <2>1. pc' \in Booting \cup {"down", "serve"} /\ age' = age /\ ~BeginShutdown /\ ~Start
    BY <1>4 DEF ConnectPostgres, ConnectRedis, RedisUnreachable, WithoutRedis, BootFails, BuildServers,
                Booting, BeginShutdown, Start
  <2>2. draining' <=> draining
    BY <2>1, Flags
  <2> QED BY <2>1, <2>2 DEF DrainTime, Listener, Booting
<1>5. CASE Drained \/ TimedOut \/ Kill
  <2>1. pc' = "down" /\ age' = age /\ ~BeginShutdown /\ ~Start
    BY <1>5 DEF Drained, TimedOut, Kill, Gone, BeginShutdown, Start
  <2>2. draining' <=> draining
    BY <2>1, Flags
  <2> QED BY <2>1, <2>2 DEF DrainTime, Listener
<1>6. CASE StopPprof
  <2>1. pc' = "pprof" /\ age' = age /\ left' = ShutdownTimeout /\ ~BeginShutdown /\ ~Start
    BY <1>6 DEF StopPprof, BeginShutdown, Start
  <2>2. draining /\ DrainDelay <= age + left /\ left = 0
    BY <1>6 DEF StopPprof, DrainTime
  <2>3. draining'
    BY <2>1, <2>2, Flags
  <2>4. DrainDelay <= age /\ DrainDelay + ShutdownTimeout <= age + ShutdownTimeout
    BY <1>1, <2>2
  <2> QED BY <2>1, <2>3, <2>4 DEF DrainTime, Listener
<1>7. CASE StopHTTP \/ StopGRPC
  <2>1. /\ pc \in Listener /\ pc' \in Listener /\ pc' # "sleep" /\ UNCHANGED <<age, left>>
        /\ ~BeginShutdown /\ ~Start
    BY <1>7 DEF StopHTTP, StopGRPC, Listener, BeginShutdown, Start
  <2>2. draining' <=> draining
    BY <2>1, Flags
  <2> QED BY <2>1, <2>2 DEF DrainTime
<1>8. CASE Tick
  <2>1. /\ left' = IF left > 0 THEN left - 1 ELSE 0
        /\ pc' = pc /\ ~BeginShutdown /\ ~Start
        /\ age' = IF draining /\ pc # "down" /\ age < DrainDelay + ShutdownTimeout
                    THEN age + 1 ELSE age
    BY <1>8 DEF Tick, CountDown, mainVars, BeginShutdown, Start
  <2>2. draining' <=> draining
    BY <2>1, Flags
  <2>3. CASE ~draining
    BY <2>1, <2>2, <2>3 DEF DrainTime
  <2>4. CASE draining
    <3>1. pc = "sleep" => DrainDelay <= age + left
      BY DEF DrainTime
    <3>2. pc \in Listener => DrainDelay <= age /\ DrainDelay + ShutdownTimeout <= age + left
      BY DEF DrainTime
    <3>3. \/ age' = age + 1 /\ left' = left - 1 /\ left > 0
          \/ age' = age + 1 /\ left' = 0 /\ left = 0
          \/ age' = age /\ left' = left - 1 /\ left > 0 /\ age = DrainDelay + ShutdownTimeout
          \/ age' = age /\ left' = 0 /\ left = 0
          \/ pc = "down"
      BY <1>1, <2>1, <2>4
    <3>4. pc = "sleep" => DrainDelay <= age' + left'
      BY <1>1, <3>1, <3>3
    <3>5. pc \in Listener => DrainDelay <= age' /\ DrainDelay + ShutdownTimeout <= age' + left'
      BY <1>1, <3>2, <3>3 DEF Listener
    <3> QED BY <2>1, <2>2, <2>4, <3>4, <3>5 DEF DrainTime
  <2> QED BY <2>3, <2>4
<1>9. CASE \/ UNCHANGED lifeVars \/ Signal \/ Balancer \/ Profile
           \/ \E l \in Listener : Listen(l) \/ ListenerFails(l)
           \/ \E r \in RPC : Send(r) \/ Complete(r)
           \/ \E d \in Dependency : Flip(d)
  <2>1. UNCHANGED <<pc, left, age, draining>>
    BY <1>9 DEF lifeVars, mainVars, Signal, Balancer, Probe, Readiness, Remove, Profile, Send, Complete,
                Listen, ListenerFails, Flip
  <2> QED BY <2>1 DEF DrainTime
<1> QED BY <1>2, <1>3, <1>4, <1>5, <1>6, <1>7, <1>8, <1>9 DEF LifeNext, Main

LEMMA ReactionTimeStep ==
    LifeTypeOK /\ DrainTime /\ ReactionTime /\ [LifeNext]_lifeVars => ReactionTime'
<1> SUFFICES ASSUME LifeTypeOK, DrainTime, ReactionTime, [LifeNext]_lifeVars PROVE ReactionTime'
  OBVIOUS
<1>1. /\ age \in Nat /\ timer \in Nat /\ lag \in Nat
      /\ timer <= PingTimeout + ProbePeriod /\ lag <= RemovalLag
      /\ PingTimeout \in Nat /\ ProbePeriod \in Nat /\ RemovalLag \in Nat
  BY LifecycleAssumption DEF LifeTypeOK
<1>2. probe # "idle" => timer <= PingTimeout
  BY DEF ReactionTime
<1>3. ASSUME draining
      PROVE  /\ probe # "idle" => age + timer <= PingTimeout
             /\ rotation = "in" => age + timer <= PingTimeout + ProbePeriod
             /\ rotation = "leaving" => age + lag <= PingTimeout + ProbePeriod + RemovalLag
  BY <1>3 DEF ReactionTime
<1>4. CASE Start
  <2>1. ~draining' /\ UNCHANGED <<probe, timer>>
    BY <1>4, Flags DEF Start, balancerVars
  <2> QED BY <1>2, <2>1 DEF ReactionTime
<1>5. CASE BeginShutdown
  <2>1. UNCHANGED <<probe, timer, rotation, lag, age>>
    BY <1>5 DEF BeginShutdown, balancerVars
  <2>2. CASE draining
    BY <1>2, <1>3, <2>1, <2>2 DEF ReactionTime
  <2>3. CASE ~draining
    <3>1. age = 0
      BY <2>3 DEF DrainTime
    <3>2. /\ probe # "idle" => age + timer <= PingTimeout
          /\ age + timer <= PingTimeout + ProbePeriod
          /\ age + lag <= PingTimeout + ProbePeriod + RemovalLag
      BY <1>1, <1>2, <3>1
    <3> QED BY <1>2, <2>1, <3>2 DEF ReactionTime
  <2> QED BY <2>2, <2>3
<1>6. ASSUME ~BeginShutdown, ~Start PROVE draining' <=> draining
  BY <1>6, Flags
<1>7. CASE Drained \/ TimedOut \/ Kill
  <2>1. /\ UNCHANGED <<timer, rotation, lag, age>> /\ ~BeginShutdown /\ ~Start
        /\ probe' = IF probe = "ping" THEN "lost" ELSE probe
    BY <1>7 DEF Drained, TimedOut, Kill, Gone, BeginShutdown, Start
  <2>2. probe' # "idle" => probe # "idle"
    BY <2>1
  <2> QED BY <1>2, <1>3, <1>6, <2>1, <2>2 DEF ReactionTime
<1>8. CASE Probe
  <2>1. probe = "idle" /\ timer = 0 /\ age' = age /\ ~BeginShutdown /\ ~Start
    BY <1>8 DEF Probe, mainVars, BeginShutdown, Start
  <2>2. CASE listener["http"] = "up" /\ ~draining
    <3>1. timer' = PingTimeout
      BY <1>8, <2>2 DEF Probe
    <3> QED BY <1>1, <1>6, <2>1, <2>2, <3>1 DEF ReactionTime
  <2>3. CASE Refused
    <3>1. /\ probe' = "idle" /\ timer' = ProbePeriod /\ rotation' # "in"
          /\ \/ rotation = "in" /\ lag' = RemovalLag
             \/ rotation # "in" /\ rotation' = rotation /\ lag' = lag
      BY <2>3 DEF Refused
    <3>2. ASSUME draining, rotation' = "leaving"
          PROVE  age' + lag' <= PingTimeout + ProbePeriod + RemovalLag
      <4>1. CASE rotation = "in" /\ lag' = RemovalLag
        <5>1. age <= PingTimeout + ProbePeriod
          BY <1>1, <1>3, <2>1, <3>2, <4>1
        <5> QED BY <1>1, <2>1, <4>1, <5>1
      <4>2. CASE rotation # "in" /\ rotation' = rotation /\ lag' = lag
        BY <1>3, <2>1, <3>2, <4>2
      <4> QED BY <3>1, <4>1, <4>2
    <3> QED BY <1>6, <2>1, <3>1, <3>2 DEF ReactionTime
  <2> QED BY <1>8, <2>2, <2>3 DEF Probe
<1>9. CASE Readiness
  <2>1. probe # "idle" /\ age' = age /\ ~BeginShutdown /\ ~Start
    BY <1>9 DEF Readiness, mainVars, BeginShutdown, Start
  <2>2. draining => age <= PingTimeout
    BY <1>1, <1>3, <2>1
  <2>3. CASE Accepted
    <3>1. probe' = "idle" /\ timer' = ProbePeriod /\ rotation' = "in"
      BY <2>3 DEF Accepted
    <3>2. draining => age' + timer' <= PingTimeout + ProbePeriod
      BY <1>1, <2>1, <2>2, <3>1
    <3> QED BY <1>6, <2>1, <3>1, <3>2 DEF ReactionTime
  <2>4. CASE Refused
    <3>1. /\ probe' = "idle" /\ rotation' # "in"
          /\ \/ lag' = RemovalLag
             \/ rotation' = rotation /\ lag' = lag
      BY <2>4 DEF Refused
    <3>2. ASSUME draining, rotation' = "leaving"
          PROVE  age' + lag' <= PingTimeout + ProbePeriod + RemovalLag
      <4>1. CASE lag' = RemovalLag
        BY <1>1, <2>1, <2>2, <3>2, <4>1
      <4>2. CASE rotation' = rotation /\ lag' = lag
        BY <1>3, <2>1, <3>2, <4>2
      <4> QED BY <3>1, <4>1, <4>2
    <3> QED BY <1>6, <2>1, <3>1, <3>2 DEF ReactionTime
  <2> QED BY <1>9, <2>3, <2>4 DEF Readiness
<1>10. CASE Remove
  <2>1. rotation' = "out" /\ UNCHANGED <<probe, timer, age>> /\ ~BeginShutdown /\ ~Start
    BY <1>10 DEF Remove, mainVars, BeginShutdown, Start
  <2> QED BY <1>2, <1>3, <1>6, <2>1 DEF ReactionTime
<1>11. CASE Tick
  <2>1. /\ timer > 0 /\ timer' = timer - 1 /\ UNCHANGED <<probe, rotation>>
        /\ rotation = "leaving" => lag > 0
        /\ lag' = IF lag > 0 THEN lag - 1 ELSE 0
        /\ ~BeginShutdown /\ ~Start
    BY <1>11 DEF Tick, CountDown, mainVars, BeginShutdown, Start
  <2>2. age' = age + 1 \/ age' = age
    BY <1>11 DEF Tick
  <2>3. probe' # "idle" => timer' <= PingTimeout
    BY <1>1, <1>2, <2>1
  <2>4. ASSUME draining
        PROVE  /\ probe' # "idle" => age' + timer' <= PingTimeout
               /\ rotation' = "in" => age' + timer' <= PingTimeout + ProbePeriod
               /\ rotation' = "leaving" => age' + lag' <= PingTimeout + ProbePeriod + RemovalLag
    BY <1>1, <1>3, <2>1, <2>2, <2>4
  <2> QED BY <1>6, <2>1, <2>3, <2>4 DEF ReactionTime
<1>12. CASE \/ UNCHANGED lifeVars \/ Signal \/ Profile
            \/ ConnectPostgres \/ ConnectRedis \/ RedisUnreachable \/ BootFails \/ BuildServers
            \/ StopPprof \/ StopHTTP \/ StopGRPC
            \/ \E l \in Listener : Listen(l) \/ ListenerFails(l)
            \/ \E r \in RPC : Send(r) \/ Complete(r)
            \/ \E d \in Dependency : Flip(d)
  <2>1. UNCHANGED <<probe, timer, rotation, lag, age, draining>>
    BY <1>12 DEF lifeVars, mainVars, balancerVars, Signal, Profile, ConnectPostgres, ConnectRedis,
                 RedisUnreachable, WithoutRedis, BootFails, BuildServers, StopPprof, StopHTTP, StopGRPC,
                 Listen, ListenerFails, Send, Complete, Flip
  <2> QED BY <2>1 DEF ReactionTime
<1> QED BY <1>4, <1>5, <1>7, <1>8, <1>9, <1>10, <1>11, <1>12 DEF LifeNext, Main, Balancer

LEMMA ClosedLateStep ==
    LifeTypeOK /\ DrainTime /\ ClosedLate /\ [LifeNext]_lifeVars => ClosedLate'
<1> SUFFICES ASSUME LifeTypeOK, DrainTime, ClosedLate, [LifeNext]_lifeVars,
                    listener'["grpc"] = "closed", ~killed'
             PROVE  draining' /\ DrainDelay <= age'
  BY DEF ClosedLate
<1>1. age \in Nat /\ DrainDelay \in Nat /\ listener \in [Listener -> {"off", "up", "failed", "closed"}]
  BY LifecycleAssumption DEF LifeTypeOK
<1>2. ~Start
  BY DEF Start, Listener
<1>3. ~Kill
  BY Flags
<1>4. killed' <=> killed
  BY <1>2, <1>3, Flags
<1>5. draining => draining'
  BY <1>2, Flags
<1>6. age' = age \/ age' = age + 1
  BY <1>2 DEF LifeNext, Main, Balancer, lifeVars, mainVars, ConnectPostgres, ConnectRedis,
              RedisUnreachable, WithoutRedis, BootFails, BuildServers, BeginShutdown, Signal, Kill,
              StopPprof, StopHTTP, StopGRPC, Drained, TimedOut, Gone, Probe, Readiness, Remove, Profile,
              Send, Complete, Tick, Listen, ListenerFails, Flip
<1>7. draining /\ DrainDelay <= age
  <2>1. CASE listener["grpc"] = "closed"
    BY <1>4, <2>1 DEF ClosedLate
  <2>2. CASE listener["grpc"] # "closed"
    <3>1. StopGRPC \/ Drained \/ TimedOut
      BY <1>1, <1>2, <1>3, <2>2
      DEF LifeNext, Main, Balancer, lifeVars, mainVars, ConnectPostgres, ConnectRedis, RedisUnreachable,
          WithoutRedis, BootFails, BuildServers, BeginShutdown, Signal, StopPprof, StopHTTP, Close,
          Probe, Readiness, Remove, Profile, Send, Complete, Tick, Listen, ListenerFails, Flip, Listener
    <3>2. pc \in Listener
      BY <3>1 DEF StopGRPC, Drained, TimedOut, Listener
    <3> QED BY <3>2 DEF DrainTime
  <2> QED BY <2>1, <2>2
<1>8. DrainDelay <= age'
  BY <1>1, <1>6, <1>7
<1> QED BY <1>5, <1>7, <1>8

LEMMA LifeAlways == LifeSpec => []LifeInv
<1>1. LifeInv /\ [LifeNext]_lifeVars => LifeInv'
  BY LifeTypeStep, DrainTimeStep, ReactionTimeStep, ClosedLateStep DEF LifeInv
<1> QED BY <1>1, LifeInvInit, PTL DEF LifeSpec

(***************************************************************************)
(* Theorems.                                                               *)
(***************************************************************************)

\* RunGRPC, the balancer and the clients keep every variable's type, and the timers
\* stay within the waits they time.
THEOREM LifeTypeCorrect == LifeSpec => []LifeTypeOK
BY LifeAlways, PTL DEF LifeInv

\* RunGRPC makes shutdownCtx after the sleep: for every delay and timeout, a shutdown
\* cuts off an RPC in flight only after the whole of both.
THEOREM RPCsGetTheTime == LifeSpec => InFlightGetsTheTime
<1>1. LifeInv /\ [LifeNext]_lifeVars =>
         [\A r \in RPC : rpc[r] = "flight" /\ rpc'[r] = "cut" =>
             killed' \/ age = DrainDelay + ShutdownTimeout]_lifeVars
  <2> SUFFICES ASSUME LifeInv, [LifeNext]_lifeVars, NEW r \in RPC,
                      rpc[r] = "flight", rpc'[r] = "cut", ~killed'
               PROVE  age = DrainDelay + ShutdownTimeout
    OBVIOUS
  <2>1. LifeTypeOK /\ DrainTime
    BY DEF LifeInv
  <2>2. ~Kill
    BY Flags
  <2>3. Drained \/ TimedOut
    BY <2>1, <2>2
    DEF LifeTypeOK, LifeNext, Main, Balancer, lifeVars, mainVars, Start, ConnectPostgres, ConnectRedis,
        RedisUnreachable, WithoutRedis, BootFails, BuildServers, BeginShutdown, Signal, StopPprof,
        StopHTTP, StopGRPC, Probe, Readiness, Remove, Profile, Send, Complete, Tick, Listen,
        ListenerFails, Flip
  <2>4. ~Drained
    BY DEF Drained, Busy
  <2>5. pc \in Listener /\ left = 0
    BY <2>3, <2>4 DEF TimedOut
  <2>6. DrainDelay + ShutdownTimeout <= age + left
    BY <2>1, <2>5 DEF DrainTime
  <2>7. /\ age \in Nat /\ age <= DrainDelay + ShutdownTimeout
        /\ DrainDelay \in Nat /\ ShutdownTimeout \in Nat
    BY <2>1, LifecycleAssumption DEF LifeTypeOK
  <2> QED BY <2>5, <2>6, <2>7
<1> QED BY <1>1, LifeAlways, PTL DEF LifeSpec, InFlightGetsTheTime

\* "Fail readiness first, then drain": whatever the times are, if the drain delay is
\* longer than a late probe, the next one and the removal together, no client is
\* sent to a listener a shutdown has closed.
THEOREM NobodyTurnedAway == LifeSpec => NobodyIsTurnedAway
<1>1. LifeInv /\ [LifeNext]_lifeVars =>
         [DelayCoversRemoval =>
             \A r \in RPC : rpc[r] # "refused" /\ rpc'[r] = "refused" =>
                 killed \/ listener["grpc"] \in {"off", "failed"}]_lifeVars
  <2> SUFFICES ASSUME LifeInv, [LifeNext]_lifeVars, DelayCoversRemoval, NEW r \in RPC,
                      rpc[r] # "refused", rpc'[r] = "refused", ~killed,
                      listener["grpc"] \notin {"off", "failed"}
               PROVE  FALSE
    OBVIOUS
  <2>1. LifeTypeOK /\ ReactionTime /\ ClosedLate
    BY DEF LifeInv
  <2>2. \E q \in RPC : Send(q) /\ rpc'[q] = "refused" /\ rpc[q] = "idle"
    BY <2>1
    DEF LifeTypeOK, LifeNext, Main, Balancer, lifeVars, mainVars, Start, ConnectPostgres, ConnectRedis,
        RedisUnreachable, WithoutRedis, BootFails, BuildServers, BeginShutdown, Signal, StopPprof,
        StopHTTP, StopGRPC, Drained, TimedOut, Kill, Gone, Probe, Readiness, Remove, Profile, Send,
        Complete, Tick, Listen, ListenerFails, Flip
  <2>3. rotation # "out" /\ listener["grpc"] # "up"
    BY <2>1, <2>2 DEF Send, LifeTypeOK
  <2>4. listener["grpc"] = "closed" /\ rotation \in {"in", "leaving"}
    BY <2>1, <2>3 DEF LifeTypeOK, Listener
  <2>5. draining /\ DrainDelay <= age
    BY <2>1, <2>4 DEF ClosedLate
  <2>6. /\ rotation = "in" => age + timer <= PingTimeout + ProbePeriod
        /\ rotation = "leaving" => age + lag <= PingTimeout + ProbePeriod + RemovalLag
    BY <2>1, <2>5 DEF ReactionTime
  <2>7. /\ age \in Nat /\ timer \in Nat /\ lag \in Nat
        /\ DrainDelay \in Nat /\ PingTimeout \in Nat /\ ProbePeriod \in Nat /\ RemovalLag \in Nat
    BY <2>1, LifecycleAssumption DEF LifeTypeOK
  <2> QED BY <2>4, <2>5, <2>6, <2>7 DEF DelayCoversRemoval
<1> QED BY <1>1, LifeAlways, PTL DEF LifeSpec, NobodyIsTurnedAway
=============================================================================
