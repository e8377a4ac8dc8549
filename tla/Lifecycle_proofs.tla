--------------------------- MODULE Lifecycle_proofs ---------------------------
(***************************************************************************)
(* Theorems about Lifecycle, for any number of requests and restarts and   *)
(* any set of failures.  The order in which fx starts and stops the        *)
(* components is all that they rest on.                                    *)
(***************************************************************************)
EXTENDS Lifecycle, TLAPS

(* A request is in flight only while the server is there to serve it, and  *)
(* the server is there only while everything before it is started.         *)
Serving == comp["server"] \in {"started", "closing"}

ServerLast ==
    Serving => \A name \in Names \ {"server"} : comp[name] = "started"

LifeInv ==
    /\ pc \in [Requests -> Steps]
    /\ comp \in [Names -> {"none", "built", "started", "closing", "closed"}]
    /\ app = "building" => ~Serving
    /\ app = "exited" => \A r \in Requests : ~InFlight(r)
    /\ ServerLast
    /\ \A r \in Requests : InFlight(r) => Serving
    /\ \A r \in Requests : pc[r] = "lost" => timedOut
-----------------------------------------------------------------------------
LEMMA ComponentFacts ==
    /\ Last = 7
    /\ Names = {"tracing", "migrations", "postgres", "redis", "consumer",
                "producer", "server"}
    /\ \A c \in 1 .. Last : Components[c] \in Names
    /\ \A c \in 1 .. Last : Components[c] = "server" <=> c = Last
    /\ \A name \in Names : \E c \in 1 .. Last : Components[c] = name
<1>1. Last = 7
  BY DEF Last, Components
<1>2. \A c \in 1 .. 7 : c = 1 \/ c = 2 \/ c = 3 \/ c = 4 \/ c = 5 \/ c = 6 \/ c = 7
  OBVIOUS
<1>3. /\ Components[1] = "tracing"
      /\ Components[2] = "migrations"
      /\ Components[3] = "postgres"
      /\ Components[4] = "redis"
      /\ Components[5] = "consumer"
      /\ Components[6] = "producer"
      /\ Components[7] = "server"
  BY DEF Components
<1>4. Names = {"tracing", "migrations", "postgres", "redis", "consumer",
               "producer", "server"}
  BY <1>1, <1>2, <1>3 DEF Names
<1> QED
  BY <1>1, <1>2, <1>3, <1>4

LEMMA Distinct == \A i, j \in 1 .. Last : Components[i] = Components[j] => i = j
<1>1. Last = 7
  BY ComponentFacts
<1>2. \A c \in 1 .. 7 : c = 1 \/ c = 2 \/ c = 3 \/ c = 4 \/ c = 5 \/ c = 6 \/ c = 7
  OBVIOUS
<1> QED
  BY <1>1, <1>2 DEF Components
-----------------------------------------------------------------------------
(* Steps of the service leave the components alone. *)

(* Where a step of a request leads, and that it concerns no other request. *)
LEMMA RequestGoesOn ==
    ASSUME NEW r \in Requests, pc \in [Requests -> Steps],
           Arrival(r) \/ RequestStep(r) \/ CancelledCall(r)
    PROVE  /\ pc' \in [Requests -> Steps]
           /\ \A q \in Requests : pc'[q] = "lost" => pc[q] = "lost"
<1>1. PICK step \in Steps \ {"lost"} : pc' = [pc EXCEPT ![r] = step]
  <2>1. CASE Arrival(r)
    BY <2>1 DEF Arrival, Start, Heartbeat, GetCurrentPauseResume, Goto, Steps
  <2>2. CASE RedisGet(r) \/ Select(r)
    BY <2>2 DEF RedisGet, Select, GetReturns, AnswerOK, Answer, Goto, Steps
  <2>3. CASE Mutate(r) \/ UpsertSession(r) \/ CacheSession(r)
    BY <2>3 DEF Mutate, UpsertSession, CacheSession, AnswerOK, Answer, Goto,
                Steps
  <2>4. CASE PublishHeartbeat(r) \/ PublishRefused(r) \/ AwaitPublish(r)
  \/ Fallback(r)
    BY <2>4 DEF PublishHeartbeat, PublishRefused, AwaitPublish, Fallback,
                AnswerOK, Answer,
                Goto, Steps
  <2>5. CASE CancelledCall(r)
    BY <2>5 DEF CancelledCall, AnswerOK, Answer, Goto, Steps
  <2> QED
    BY <2>1, <2>2, <2>3, <2>4, <2>5 DEF RequestStep
<1> QED
  BY <1>1

LEMMA OtherStepsKeepRequests ==
    ASSUME \/ \E r \in Requests : Warm(r) \/ WarmClosed(r)
           \/ Send
           \/ Consume
           \/ HandleCancelled
           \/ CommitCancelled
    PROVE  UNCHANGED <<pc, lifeVars>>
  BY DEF Warm, WarmMarshal, WarmSet, WarmClosed, Send, Consume,
         HandleCancelled, CommitCancelled, reqVars

LEMMA ServiceKeepsLifeInv ==
    ASSUME LifeInv, ServiceStep
    PROVE  LifeInv'
<1> USE DEF LifeInv, ServerLast, Serving, InFlight, lifeVars
<1>1. CASE \E r \in Requests : Serve(r) \/ CancelledCall(r)
  <2>1. PICK r \in Requests : Serve(r) \/ CancelledCall(r)
    BY <1>1
  <2>2. Serving /\ UNCHANGED lifeVars /\ app # "exited"
    BY <2>1 DEF Serve, CancelledCall, ServiceStep
  <2>3. /\ pc' \in [Requests -> Steps]
        /\ \A q \in Requests : pc'[q] = "lost" => pc[q] = "lost"
    BY <2>1, RequestGoesOn DEF Serve
  <2> QED
    BY <2>2, <2>3
<1>2. CASE UNCHANGED <<pc, lifeVars>>
  BY <1>2
<1> QED
  BY <1>1, <1>2, OtherStepsKeepRequests DEF ServiceStep
-----------------------------------------------------------------------------
(* Steps of fx leave the requests alone, until the process exits. *)

LEMMA StartKeepsLifeInv ==
    ASSUME LifeInv, NEW c \in 1 .. Last,
           \/ Up(c) \/ Build(c) \/ InvokeFails(c) \/ PingFails(c)
           \/ StartHook(c) \/ ListenFails(c)
    PROVE  LifeInv'
<1> USE DEF LifeInv, Serving, InFlight
<1>1. UNCHANGED <<pc, timedOut>>
  BY DEF Up, Build, InvokeFails, PingFails, BuildFails, StartHook, ListenFails,
         vars, reqVars
<1>2. Components[c] \in Names /\ "server" \in Names
  BY ComponentFacts
<1>3. CASE Build(c)
  <2>1. /\ app = "building"
        /\ comp[Components[c]] = "none"
        /\ comp' = [comp EXCEPT ![Components[c]] = "built"]
        /\ app' \in {"building", "starting"}
    BY <1>3 DEF Build, Move
  <2>2. ~Serving /\ ~Serving'
    BY <1>2, <2>1
  <2>3. comp' \in [Names -> {"none", "built", "started", "closing", "closed"}]
    BY <1>2, <2>1
  <2> QED
    BY <1>1, <2>1, <2>2, <2>3 DEF ServerLast
<1>4. CASE Up(c) \/ InvokeFails(c) \/ PingFails(c) \/ ListenFails(c)
  BY <1>1, <1>4 DEF Up, InvokeFails, PingFails, BuildFails, ListenFails, ServerLast
<1>5. CASE StartHook(c)
  <2>1. /\ app' \in {"starting", "running"}
        /\ app = "starting"
        /\ comp[Components[c]] = "built"
        /\ comp' = [comp EXCEPT ![Components[c]] = "started"]
        /\ \A i \in 1 .. c - 1 : comp[Components[i]] = "started"
    BY <1>5 DEF StartHook, Move, Before
  <2>2. comp' \in [Names -> {"none", "built", "started", "closing", "closed"}]
    BY <1>2, <2>1
  <2>3. Serving => Serving'
    BY <1>2, <2>1
  <2>4. ServerLast'
    <3>1. CASE c = Last
      <4>1. ASSUME NEW name \in Names \ {"server"}
            PROVE  comp'[name] = "started"
        <5>1. PICK i \in 1 .. Last : Components[i] = name
          BY ComponentFacts
        <5>2. i \in 1 .. c - 1
          BY <3>1, <4>1, <5>1, ComponentFacts
        <5> QED
          BY <2>1, <5>1, <5>2, <1>2
      <4> QED
        BY <4>1 DEF ServerLast
    <3>2. CASE c # Last
      <4>1. Components[c] # "server"
        BY <3>2, ComponentFacts
      <4>2. comp'["server"] = comp["server"]
        BY <1>2, <2>1, <4>1
      <4> QED
        BY <2>1, <4>2, <1>2 DEF ServerLast
    <3> QED
      BY <3>1, <3>2
  <2> QED
    BY <1>1, <2>1, <2>2, <2>3, <2>4
<1> QED
  BY <1>3, <1>4, <1>5

LEMMA StopKeepsLifeInv ==
    ASSUME LifeInv, NEW c \in 1 .. Last, BeginStop(c) \/ EndStop(c)
    PROVE  LifeInv'
<1> USE DEF LifeInv, Serving, InFlight
<1>1. UNCHANGED <<pc, timedOut, app>> /\ app = "stopping"
  BY DEF BeginStop, EndStop, vars, reqVars
<1>2. Components[c] \in Names /\ "server" \in Names
  BY ComponentFacts
<1>3. comp' \in [Names -> {"none", "built", "started", "closing", "closed"}]
  BY <1>2 DEF BeginStop, EndStop, Move
<1>4. CASE BeginStop(c)
  <2>1. /\ comp[Components[c]] = "started"
        /\ comp' = [comp EXCEPT ![Components[c]] = "closing"]
        /\ \A i \in c + 1 .. Last : comp[Components[i]] \in {"built", "closed"}
    BY <1>4 DEF BeginStop, Move, Stopped
  <2>2. CASE c = Last
    <3>1. Components[c] = "server"
      BY <2>2, ComponentFacts
    <3> QED
      BY <1>1, <1>2, <1>3, <2>1, <3>1 DEF ServerLast
  <2>3. CASE c # Last
    <3>1. Components[c] # "server" /\ Last \in c + 1 .. Last
      BY <2>3, ComponentFacts
    <3>2. comp["server"] \in {"built", "closed"}
      BY <2>1, <3>1, ComponentFacts
    <3>3. ~Serving /\ ~Serving'
      BY <1>2, <2>1, <3>1, <3>2
    <3> QED
      BY <1>1, <1>3, <3>3 DEF ServerLast
  <2> QED
    BY <2>2, <2>3
<1>5. CASE EndStop(c)
  <2>1. /\ comp[Components[c]] = "closing"
        /\ comp' = [comp EXCEPT ![Components[c]] = "closed"]
        /\ Finished(Components[c])
    BY <1>5 DEF EndStop, Move
  <2>2. CASE c = Last
    <3>1. Components[c] = "server"
      BY <2>2, ComponentFacts
    <3>2. ~Serving' /\ \A r \in Requests : ~InFlight(r)
      BY <1>2, <2>1, <3>1 DEF Finished, Drained
    <3> QED
      BY <1>1, <1>3, <3>2 DEF ServerLast
  <2>3. CASE c # Last
    <3>1. Components[c] # "server"
      BY <2>3, ComponentFacts
    <3>2. ~Serving
      BY <1>2, <2>1, <3>1 DEF ServerLast
    <3>3. ~Serving'
      BY <1>2, <2>1, <3>1, <3>2
    <3> QED
      BY <1>1, <1>3, <3>2, <3>3 DEF ServerLast
  <2> QED
    BY <2>2, <2>3
<1> QED
  BY <1>4, <1>5

LEMMA FxKeepsLifeInv ==
    ASSUME LifeInv, FxStep
    PROVE  LifeInv'
<1> USE DEF LifeInv, Serving, InFlight
<1>1. CASE \E c \in 1 .. Last : \/ Up(c) \/ Build(c) \/ InvokeFails(c) \/ PingFails(c)
                                \/ StartHook(c) \/ ListenFails(c)
  BY <1>1, StartKeepsLifeInv
<1>2. CASE \E c \in 1 .. Last : BeginStop(c) \/ EndStop(c)
  BY <1>2, StopKeepsLifeInv
<1>3. CASE Signal
  BY <1>3 DEF Signal, vars, reqVars, ServerLast
<1>4. CASE Exit
  <2>1. "server" = Components[Last] /\ Last \in 1 .. Last
    BY ComponentFacts
  <2>2. ~Serving
    BY <1>4, <2>1 DEF Exit, Stopped
  <2>3. /\ UNCHANGED <<comp, timedOut>>
        /\ app' = "exited"
        /\ pc' = [r \in Requests |-> IF InFlight(r) THEN "lost" ELSE pc[r]]
    BY <1>4 DEF Exit, Die
  <2>4. \A r \in Requests : pc'[r] = pc[r]
    BY <2>2, <2>3
  <2>5. pc' \in [Requests -> Steps]
    BY <2>3 DEF Steps
  <2> QED
    BY <2>2, <2>3, <2>4, <2>5 DEF ServerLast
<1>5. CASE StopTimeout
  <2>1. /\ UNCHANGED comp
        /\ timedOut' = TRUE
        /\ app' = "exited"
        /\ pc' = [r \in Requests |-> IF InFlight(r) THEN "lost" ELSE pc[r]]
    BY <1>5 DEF StopTimeout, Die
  <2>2. pc' \in [Requests -> Steps]
    BY <2>1 DEF Steps
  <2>3. \A r \in Requests : pc'[r] \in {"idle", "done", "lost"}
    BY <2>1
  <2> QED
    BY <2>1, <2>2, <2>3 DEF ServerLast
<1>6. CASE Restart
  <2>1. /\ UNCHANGED <<pc, timedOut>>
        /\ app = "exited"
        /\ app' = "building"
        /\ comp' = [name \in Names |-> "none"]
    BY <1>6 DEF Restart, reqVars
  <2>2. ~Serving'
    BY <2>1, ComponentFacts
  <2> QED
    BY <2>1, <2>2 DEF ServerLast
<1> QED
  BY <1>1, <1>2, <1>3, <1>4, <1>5, <1>6 DEF FxStep

LEMMA LifeInvStep == LifeInv /\ [LifecycleNext]_lvars => LifeInv'
<1> SUFFICES ASSUME LifeInv, [LifecycleNext]_lvars
             PROVE  LifeInv'
  OBVIOUS
<1>1. CASE UNCHANGED lvars
  BY <1>1 DEF lvars, vars, reqVars, lifeVars, LifeInv, Serving, ServerLast,
              InFlight
<1> QED
  BY <1>1, FxKeepsLifeInv, ServiceKeepsLifeInv DEF LifecycleNext

LEMMA LifeInvInit == LifecycleInit => LifeInv
<1> SUFFICES ASSUME LifecycleInit
             PROVE  LifeInv
  OBVIOUS
<1>1. ~Serving
  BY ComponentFacts DEF LifecycleInit, Serving
<1>2. pc = [r \in Requests |-> "idle"]
  BY DEF LifecycleInit, Init
<1> QED
  BY <1>1, <1>2 DEF LifecycleInit, LifeInv, ServerLast, InFlight, Steps
-----------------------------------------------------------------------------
(***************************************************************************)
(* What server.go and main.go arrange by the order of the hooks: a request *)
(* in flight never meets a closed pool, Redis client or producer, whatever *)
(* fails at the start and however far a stop has come.                     *)
(***************************************************************************)
THEOREM NothingClosesUnderRequests == LifecycleSpec => []InFlightFindsOpen
<1>1. LifeInv => InFlightFindsOpen
  BY ComponentFacts DEF LifeInv, ServerLast, InFlightFindsOpen
<1> QED
  BY <1>1, LifeInvInit, LifeInvStep, PTL DEF LifecycleSpec

(***************************************************************************)
(* A request that the server has accepted is lost only by a stop that runs *)
(* out of time: Shutdown (server.go) waits, and the other hooks wait for   *)
(* Shutdown.                                                               *)
(***************************************************************************)
THEOREM StopAnswersRequests == LifecycleSpec => []OrderlyStopAnswersAll
<1>1. LifeInv => OrderlyStopAnswersAll
  BY DEF LifeInv, OrderlyStopAnswersAll
<1> QED
  BY <1>1, LifeInvInit, LifeInvStep, PTL DEF LifecycleSpec
-----------------------------------------------------------------------------
(***************************************************************************)
(* The migrations.  Whoever has passed RunMigrations has found the schema  *)
(* ready, and it stays so; whoever is built has it behind him.             *)
(***************************************************************************)
SchemaInv ==
    /\ comp \in [Names -> {"none", "built", "started", "closing", "closed"}]
    /\ comp["migrations"] # "none" => schema = "ready"
    /\ \A c \in 1 .. Last :
          comp[Components[c]] # "none" =>
              \A i \in 1 .. c - 1 : comp[Components[i]] # "none"

(* A component that is there moves on, and the schema stays. *)
LEMMA MoveKeepsSchemaInv ==
    ASSUME SchemaInv, NEW c \in 1 .. Last, NEW from, from # "none",
           NEW to \in {"built", "started", "closing", "closed"},
           Move(c, from, to), UNCHANGED schema
    PROVE  SchemaInv'
<1>1. Components[c] \in Names /\ "migrations" \in Names
  BY ComponentFacts
<1>2. /\ comp[Components[c]] # "none"
      /\ comp' = [comp EXCEPT ![Components[c]] = to]
  BY DEF Move
<1>3. comp' \in [Names -> {"none", "built", "started", "closing", "closed"}]
  BY <1>2 DEF SchemaInv
<1>4. \A name \in Names : comp'[name] = "none" <=> comp[name] = "none"
  BY <1>1, <1>2 DEF SchemaInv
<1>5. \A i \in 1 .. Last : comp'[Components[i]] = "none" <=> comp[Components[i]] = "none"
  BY <1>4, ComponentFacts
<1>6. \A d \in 1 .. Last : \A i \in 1 .. d - 1 : i \in 1 .. Last
  BY ComponentFacts
<1> QED
  BY <1>1, <1>3, <1>4, <1>5, <1>6 DEF SchemaInv

LEMMA BuildKeepsSchemaInv ==
    ASSUME SchemaInv, NEW c \in 1 .. Last, Build(c)
    PROVE  SchemaInv'
<1>1. Components[c] \in Names /\ "migrations" \in Names
  BY ComponentFacts
<1>2. /\ comp' = [comp EXCEPT ![Components[c]] = "built"]
      /\ \A i \in 1 .. c - 1 : comp[Components[i]] = "built"
      /\ Components[c] = "migrations" => schema = "ready"
      /\ UNCHANGED schema
  BY DEF Build, Move, Before, RunMigrations
<1>3. comp' \in [Names -> {"none", "built", "started", "closing", "closed"}]
  BY <1>2 DEF SchemaInv
<1>4. comp'["migrations"] # "none" => schema' = "ready"
  BY <1>1, <1>2 DEF SchemaInv
<1>5. ASSUME NEW d \in 1 .. Last, comp'[Components[d]] # "none",
             NEW i \in 1 .. d - 1
      PROVE  comp'[Components[i]] # "none"
  <2>1. i \in 1 .. Last /\ Components[i] \in Names /\ Components[d] \in Names
    BY ComponentFacts
  <2>2. CASE Components[i] = Components[c]
    BY <1>1, <1>2, <2>2 DEF SchemaInv
  <2>3. CASE Components[i] # Components[c] /\ d = c
    BY <1>2, <2>1, <2>3 DEF SchemaInv
  <2>4. CASE Components[i] # Components[c] /\ Components[d] # Components[c]
    BY <1>2, <1>5, <2>1, <2>4 DEF SchemaInv
  <2>5. Components[d] = Components[c] => d = c
    BY Distinct
  <2> QED
    BY <2>2, <2>3, <2>4, <2>5
<1> QED
  BY <1>3, <1>4, <1>5 DEF SchemaInv

LEMMA SchemaInvStep == SchemaInv /\ [LifecycleNext]_lvars => SchemaInv'
<1> SUFFICES ASSUME SchemaInv, [LifecycleNext]_lvars
             PROVE  SchemaInv'
  OBVIOUS
<1>1. CASE UNCHANGED <<comp, schema>>
  BY <1>1 DEF SchemaInv
<1>2. ASSUME NEW c \in 1 .. Last, Build(c)
      PROVE  SchemaInv'
  BY <1>2, BuildKeepsSchemaInv
<1>3. ASSUME NEW c \in 1 .. Last, StartHook(c) \/ BeginStop(c) \/ EndStop(c)
      PROVE  SchemaInv'
  BY <1>3, MoveKeepsSchemaInv DEF StartHook, BeginStop, EndStop
<1>4. ASSUME NEW c \in 1 .. Last, Up(c) \/ InvokeFails(c)
      PROVE  SchemaInv'
  <2>1. UNCHANGED comp /\ (schema = "ready" => schema' = "ready")
    BY <1>4 DEF Up, InvokeFails, BuildFails
  <2> QED
    BY <2>1 DEF SchemaInv
<1>5. ASSUME NEW c \in 1 .. Last, PingFails(c) \/ ListenFails(c)
      PROVE  UNCHANGED <<comp, schema>>
  BY <1>5 DEF PingFails, ListenFails, BuildFails
<1>6. CASE Restart
  <2>1. comp' = [name \in Names |-> "none"]
    BY <1>6 DEF Restart
  <2>2. \A c \in 1 .. Last : comp'[Components[c]] = "none"
    BY <2>1, ComponentFacts
  <2>3. comp'["migrations"] = "none"
    BY <2>1, ComponentFacts
  <2> QED
    BY <2>1, <2>2, <2>3 DEF SchemaInv
<1>7. CASE Signal \/ Exit \/ StopTimeout
  BY <1>1, <1>7 DEF Signal, Exit, StopTimeout, Die
<1>8. CASE ServiceStep
  <2>1. UNCHANGED lifeVars
    BY <1>8, OtherStepsKeepRequests DEF ServiceStep, Serve, CancelledCall
  <2> QED
    BY <1>1, <2>1 DEF lifeVars
<1>9. CASE UNCHANGED lvars
  BY <1>1, <1>9 DEF lvars, lifeVars
<1> QED
  BY <1>1, <1>2, <1>3, <1>4, <1>5, <1>6, <1>7, <1>8, <1>9 DEF LifecycleNext, FxStep

(***************************************************************************)
(* However many processes have died in the middle of RunMigrations, the    *)
(* consumer and the server only ever run on a finished schema.             *)
(***************************************************************************)
THEOREM ServesMigratedSchema == LifecycleSpec => []MigratedFirst
<1>1. LifecycleInit => SchemaInv
  BY ComponentFacts DEF LifecycleInit, SchemaInv
<1>2. SchemaInv => MigratedFirst
  <2>1. /\ Components[2] = "migrations" /\ Components[5] = "consumer"
        /\ Components[7] = "server" /\ Last = 7
    BY ComponentFacts DEF Components
  <2>2. 2 \in 1 .. 5 - 1 /\ 2 \in 1 .. 7 - 1 /\ 5 \in 1 .. 7 /\ 7 \in 1 .. 7
    OBVIOUS
  <2>3. ASSUME SchemaInv, comp["consumer"] # "none" \/ comp["server"] # "none"
        PROVE  comp["migrations"] # "none"
    BY <2>1, <2>2, <2>3 DEF SchemaInv
  <2> QED
    BY <2>3 DEF SchemaInv, MigratedFirst
<1> QED
  BY <1>1, <1>2, SchemaInvStep, PTL DEF LifecycleSpec
=============================================================================
