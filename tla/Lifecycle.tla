------------------------------ MODULE Lifecycle ------------------------------
(***************************************************************************)
(* cmd/service/main.go, internal/server/server.go and the hooks of the     *)
(* other components, around PlaybackService: one process is built, started,*)
(* stopped by a signal or by a failing start, and may be started again.    *)
(*                                                                         *)
(* fx builds a component when the first one that needs it is built, starts *)
(* the components in the order in which they were built and stops them in  *)
(* the opposite order.  A stop hook may take its time; when the time for   *)
(* all of them is over, the process exits at once.                         *)
(*                                                                         *)
(* Stopping the server cancels the context of every request in flight, and *)
(* stopping the consumer the context of the message in hand: a call made   *)
(* with a cancelled context fails, or has been just in time.               *)
(*                                                                         *)
(* Left out: expiry and rebalances, which PlaybackService has, and the     *)
(* crash, which loses the same as a stop that runs out of time.            *)
(***************************************************************************)
EXTENDS PlaybackService

VARIABLES
    app,       \* what fx is doing: see Phases
    comp,      \* comp[c]: the state of component c
    schema,    \* what the migrations have made of the database: see Schemas
    timedOut   \* history: a stop has run out of time

lifeVars == <<app, comp, schema, timedOut>>
lvars == <<vars, lifeVars>>

Phases == {"building", "starting", "running", "stopping", "exited"}

(* "dirty" is what golang-migrate leaves of a migration that did not end. *)
Schemas == {"empty", "applying", "dirty", "ready"}

(* Mutation of Components: the server is registered before its producer. *)
Components_ServerFirst ==
    <<"tracing", "migrations", "postgres", "redis", "consumer", "server",
      "producer">>

(***************************************************************************)
(* The components in the order of main.go: its Invokes from top to bottom, *)
(* before each what it needs.  The migrations have no hooks; starting and  *)
(* stopping them does nothing.                                             *)
(***************************************************************************)
Components ==
    <<"tracing", "migrations", "postgres", "redis", "consumer", "producer",
      "server">>

Last == Len(Components)

Names == {Components[c] : c \in 1 .. Last}

LifecycleInit ==
    /\ Init
    /\ app = "building"
    /\ comp = [name \in Names |-> "none"]
    /\ schema = "empty"
    /\ timedOut = FALSE

(* The state of the c-th component changes. *)
Move(c, from, to) ==
    /\ comp[Components[c]] = from
    /\ comp' = [comp EXCEPT ![Components[c]] = to]

(* All the components before the c-th are in a state, or all after it. *)
Before(c, state) == \A i \in 1 .. c - 1 : comp[Components[i]] = state
Stopped(c) == \A i \in c .. Last : comp[Components[i]] \in {"built", "closed"}
-----------------------------------------------------------------------------
(* Building and starting. *)

(* Up marks the version dirty, runs the statements of the file and marks   *)
(* the version clean.  It refuses a version that it finds dirty.           *)
Up(c) ==
    /\ app = "building"
    /\ Before(c, "built")
    /\ Components[c] = "migrations"
    /\ comp[Components[c]] = "none"
    /\ \/ schema = "empty" /\ schema' = "applying"
       \/ schema = "applying" /\ schema' = "ready"
    /\ UNCHANGED <<vars, app, comp, timedOut>>

(* Mutation of RunMigrations: any error of Up is taken for ErrNoChange. *)
RunMigrations_AnyError == schema # "applying"

(* RunMigrations returns no error: Up has come to its end, or there was    *)
(* nothing to do.                                                          *)
RunMigrations == schema = "ready"

(* The next constructor or Invoke succeeds. *)
Build(c) ==
    /\ app = "building"
    /\ Before(c, "built")
    /\ Components[c] = "migrations" => RunMigrations
    /\ Move(c, "none", "built")
    /\ app' = IF c = Last THEN "starting" ELSE app
    /\ UNCHANGED <<vars, schema, timedOut>>

(* It returns an error: Run exits, and there is nothing to stop. *)
BuildFails(c, names) ==
    /\ "startup" \in Faults
    /\ app = "building"
    /\ Before(c, "built")
    /\ comp[Components[c]] = "none"
    /\ Components[c] \in names
    /\ app' = "exited"
    /\ UNCHANGED <<vars, comp, timedOut>>

(* The tracer cannot be set up, or a migration fails: before it has begun, *)
(* half way (as it does if the process is killed), or because it is dirty. *)
InvokeFails(c) ==
    /\ BuildFails(c, {"tracing", "migrations"})
    /\ schema' = IF schema = "applying" THEN "dirty" ELSE schema

(* New of postgres or redis gets no answer to its Ping. *)
PingFails(c) == BuildFails(c, {"postgres", "redis"}) /\ UNCHANGED schema

(* OnStart: the consumer's Run and the server's Serve begin. *)
StartHook(c) ==
    /\ app = "starting"
    /\ Before(c, "started")
    /\ Move(c, "built", "started")
    /\ app' = IF c = Last THEN "running" ELSE app
    /\ UNCHANGED <<vars, schema, timedOut>>

(* The address is taken: fx stops what it has started. *)
ListenFails(c) ==
    /\ "startup" \in Faults
    /\ app = "starting"
    /\ Before(c, "started")
    /\ comp[Components[c]] = "built"
    /\ Components[c] = "server"
    /\ app' = "stopping"
    /\ UNCHANGED <<vars, comp, schema, timedOut>>
-----------------------------------------------------------------------------
(* Stopping. *)

(* SIGINT or SIGTERM. *)
Signal ==
    /\ app = "running"
    /\ app' = "stopping"
    /\ UNCHANGED <<vars, comp, schema, timedOut>>

(***************************************************************************)
(* OnStop of the last started component begins: the server stops listening *)
(* and cancels the requests in flight, the consumer's context is cancelled,*)
(* the Writer sends what it still has.                                     *)
(***************************************************************************)
BeginStop(c) ==
    /\ app = "stopping"
    /\ Stopped(c + 1)
    /\ Move(c, "started", "closing")
    /\ UNCHANGED <<vars, app, schema, timedOut>>

(* fasthttp's Shutdown waits until no connection is open. *)
Drained == \A r \in Requests : ~InFlight(r)

(* The Writer's Close waits until every batch is sent or given up. *)
Flushed == \A r \in Requests : ~Sending(r)

(* Mutation of Finished: the server does not wait for its connections. *)
Finished_NoDrain(name) == name = "producer" => Flushed

(* Mutation of Finished: the producer has no hook that closes the Writer. *)
Finished_NoFlush(name) == name = "server" => Drained

(* Nothing waits for Run or for the cache-warming goroutines. *)
Finished(name) ==
    /\ name = "server" => Drained
    /\ name = "producer" => Flushed

(* OnStop returns, without an error or with one that fx only reports. *)
EndStop(c) ==
    /\ app = "stopping"
    /\ Finished(Components[c])
    /\ Move(c, "closing", "closed")
    /\ UNCHANGED <<vars, app, schema, timedOut>>

(* The process is gone, and with it all that its goroutines were doing. *)
Die ==
    /\ app' = "exited"
    /\ pc' = [r \in Requests |-> IF InFlight(r) THEN "lost" ELSE pc[r]]
    /\ warm' = [r \in Requests |-> Nil]
    /\ PipeCrash
    /\ UNCHANGED <<repoVars, call, sess, code, clock, restarts, comp, schema>>

(* Every hook has run: Run returns, and so does main. *)
Exit ==
    /\ app = "stopping"
    /\ Stopped(1)
    /\ Die
    /\ UNCHANGED timedOut

(* fx.StopTimeout is over (or the start timeout, if a failed start is      *)
(* being undone): the other hooks do not run any more.                     *)
StopTimeout ==
    /\ app = "stopping"
    /\ Die
    /\ timedOut' = TRUE

(* Somebody starts the service again. *)
Restart ==
    /\ app = "exited"
    /\ restarts < MaxRestarts
    /\ restarts' = restarts + 1
    /\ app' = "building"
    /\ comp' = [name \in Names |-> "none"]
    /\ UNCHANGED <<repoVars, pipeVars, reqVars, schema, timedOut>>
-----------------------------------------------------------------------------
(* The service in its process. *)

(* A statement whose context is cancelled may have taken effect. *)
CancelledUpsert(s) ==
    \/ UNCHANGED <<db, stored>>
    \/ Fits(s) /\ WriteRow(s)

(***************************************************************************)
(* Requests arrive on connections that the server has accepted; the first  *)
(* one on a connection is served although Shutdown has begun.              *)
(***************************************************************************)
Serve(r) ==
    /\ comp["server"] \in {"started", "closing"}
    /\ Arrival(r) \/ RequestStep(r)
    /\ UNCHANGED lifeVars

(* Mutation of CancelledCall: a cancelled Publish is taken for a success. *)
CancelledCall_PublishOK(r) ==
    /\ comp["server"] = "closing"
    /\ pc[r] \in {"publish", "await"}
    /\ AnswerOK(r)
    /\ UNCHANGED <<repoVars, pipeVars, call, sess, warm, clock, restarts,
                   lifeVars>>

(* A call of request r fails because Shutdown has cancelled its context. *)
CancelledCall(r) ==
    /\ comp["server"] = "closing"
    /\ \/ /\ pc[r] = "get"
          /\ Goto(r, "select")
          /\ UNCHANGED <<db, stored>>
       \/ /\ pc[r] = "select"
          /\ Answer(r, 500)
          /\ UNCHANGED <<db, stored>>
       \/ /\ pc[r] \in {"upsert", "fallback"}
          /\ Answer(r, 500)
          /\ CancelledUpsert(sess[r])
       \/ /\ pc[r] = "setcache"
          /\ \/ call[r].op = "heartbeat" /\ Goto(r, "publish")
             \/ call[r].op # "heartbeat" /\ AnswerOK(r)
          /\ UNCHANGED <<db, stored>>
       \/ /\ pc[r] \in {"publish", "await"}
          /\ Goto(r, "fallback")
          /\ UNCHANGED <<db, stored>>
    /\ UNCHANGED <<cache, pipeVars, call, sess, warm, clock, restarts, lifeVars>>

(* The cache-warming goroutines have a context that nobody cancels. *)
Warm(r) ==
    /\ WarmMarshal(r) \/ (comp["redis"] # "closed" /\ WarmSet(r))
    /\ UNCHANGED lifeVars

(* SetCache fails because the client is closed. *)
WarmClosed(r) ==
    /\ comp["redis"] = "closed"
    /\ warm[r] # Nil
    /\ warm[r].call = "set"
    /\ warm' = [warm EXCEPT ![r] = Nil]
    /\ UNCHANGED <<repoVars, pipeVars, call, pc, sess, code, clock, restarts,
                   lifeVars>>

(* The Writer's goroutines. *)
Send ==
    /\ \E r \in Requests : WriterStep(r)
    /\ UNCHANGED <<reqVars, restarts, lifeVars>>

(* OnStop cancels the context of Run, then closes the Reader. *)
ConsumerCancelled == comp["consumer"] \in {"closing", "closed"}

(***************************************************************************)
(* Run's loop.  FetchMessage chooses between a message it has received and *)
(* the cancelled context, so that Run may go on for a while; Run's return  *)
(* is that it goes on no more.  CommitMessages also chooses: a commit may  *)
(* be under way before the Reader is closed.                               *)
(***************************************************************************)
Consume ==
    /\ comp["consumer"] = "started" \/ ConsumerCancelled
    /\ \/ FetchMessage
       \/ comp["postgres"] # "closed" /\ Handle
       \/ comp["consumer"] # "closed" /\ \E f \in BOOLEAN : CommitMessages(f)
    /\ UNCHANGED <<reqVars, restarts, lifeVars>>

(* The handler's Upsert, if it comes to one, fails: its context is         *)
(* cancelled.                                                              *)
HandleCancelled ==
    /\ ConsumerCancelled
    /\ consumer # Nil
    /\ consumer.call = "handle"
    /\ LET m == topic[consumer.part][consumer.off] IN
          \/ UNCHANGED <<db, stored>>
          \/ m # Malformed /\ comp["postgres"] # "closed" /\ CancelledUpsert(m)
    /\ handled' = handled \cup {<<consumer.part, consumer.off>>}
    /\ consumer' = [consumer EXCEPT !.call = "commit"]
    /\ UNCHANGED <<cache, topic, writer, position, committed, reqVars, restarts,
                   lifeVars>>

(* Mutation of CommitCancelled: Run, cancelled, commits what it has in     *)
(* hand before it returns, whether or not the handler has seen it.         *)
CommitCancelled_InHand ==
    /\ comp["consumer"] = "closing"
    /\ consumer # Nil
    /\ committed' = [committed EXCEPT ![consumer.part] = consumer.off]
    /\ consumer' = Nil
    /\ UNCHANGED <<repoVars, topic, writer, position, handled, reqVars,
                   restarts, lifeVars>>

(* CommitMessages fails because the context is cancelled. *)
CommitCancelled ==
    /\ ConsumerCancelled
    /\ consumer # Nil
    /\ consumer.call = "commit"
    /\ consumer' = Nil
    /\ UNCHANGED <<repoVars, topic, writer, position, committed, handled,
                   reqVars, restarts, lifeVars>>

ServiceStep ==
    /\ app # "exited"
    /\ \/ \E r \in Requests :
              Serve(r) \/ CancelledCall(r) \/ Warm(r) \/ WarmClosed(r)
       \/ Send
       \/ Consume
       \/ HandleCancelled
       \/ CommitCancelled

FxStep ==
    \/ \E c \in 1 .. Last :
          \/ Up(c)
          \/ Build(c)
          \/ InvokeFails(c)
          \/ PingFails(c)
          \/ StartHook(c)
          \/ ListenFails(c)
          \/ BeginStop(c)
          \/ EndStop(c)
    \/ Signal
    \/ Exit
    \/ StopTimeout
    \/ Restart

LifecycleNext == FxStep \/ ServiceStep

LifecycleSpec == LifecycleInit /\ [][LifecycleNext]_lvars
-----------------------------------------------------------------------------
(* Properties. *)

(***************************************************************************)
(* What a request needs is there while the request is in flight: no stop,  *)
(* and no start that fails half way, closes the pool, the Redis client or  *)
(* the producer under it.                                                  *)
(***************************************************************************)
InFlightFindsOpen ==
    \A r \in Requests : InFlight(r) =>
        \A name \in {"postgres", "redis", "producer"} : comp[name] = "started"

(***************************************************************************)
(* Unless the stop runs out of time, every request that has been accepted  *)
(* is answered before the process exits, be it with an error.              *)
(***************************************************************************)
OrderlyStopAnswersAll ==
    \A r \in Requests : pc[r] = "lost" => timedOut

(* The message m is in the topic, and the group will come to it. *)
Waiting(m) ==
    \E p \in Partitions : \E i \in committed[p] + 1 .. Len(topic[p]) :
        topic[p][i] = m

(* The message m is in the topic, and the handler has seen it. *)
Seen(m) ==
    \E p \in Partitions : \E i \in 1 .. Len(topic[p]) :
        topic[p][i] = m /\ <<p, i>> \in handled

(***************************************************************************)
(* With an asynchronous Writer, too, and brokers that accept messages, a   *)
(* heartbeat answered 204 has left the process when a stop that was given  *)
(* enough time is over: the server's hook ends the requests before the     *)
(* producer's hook sends what is left.  It is stored, or in the topic, and *)
(* there the handler has seen it or the next process will.  That the       *)
(* handler may have seen it in vain, because the stop cancelled its        *)
(* Upsert, is what LossOnlyByStop is about.                                *)
(***************************************************************************)
OrderlyStopSendsHeartbeats ==
    app = "exited" /\ ~timedOut =>
        \A r \in Requests : Acked(r, {"heartbeat"}) =>
            sess[r] \in stored \/ Waiting(sess[r]) \/ Seen(sess[r])

(***************************************************************************)
(* As long as the table accepts every row, the consumer commits a          *)
(* heartbeat that is not in the table only while it is being stopped: Run  *)
(* takes the cancelled Upsert for handled.                                 *)
(***************************************************************************)
LossOnlyByStop ==
    [][\A p \in Partitions : \A i \in committed[p] + 1 .. committed'[p] :
          \/ topic[p][i] \in stored \cup {Malformed}
          \/ comp["consumer"] = "closing"]_lvars

(***************************************************************************)
(* Nothing reads or writes a table that a migration has left half made:    *)
(* neither the consumer nor the server is started before RunMigrations has *)
(* succeeded, in this process or in an earlier one, whatever process died  *)
(* in the middle of it.                                                    *)
(***************************************************************************)
MigratedFirst ==
    \A name \in {"consumer", "server"} :
        comp[name] \in {"started", "closing"} => schema = "ready"
=============================================================================
