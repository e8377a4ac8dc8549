--------------------------- MODULE PlaybackService ---------------------------
(***************************************************************************)
(* internal/session/service.go over Repository and HeartbeatPipeline: the  *)
(* five operations, each running as a goroutine of its own HTTP request,   *)
(* interleaved at every call of PostgreSQL, Redis or Kafka, together with  *)
(* the cache-warming goroutines, the heartbeat consumer and crashes.       *)
(*                                                                         *)
(* A request is served once and remembered, so Requests bounds how many    *)
(* requests a behaviour has; Workload says which operations they call.     *)
(* Sequential describes the clients: with it, a user sends a request only  *)
(* when no earlier one of that user is unanswered.                         *)
(***************************************************************************)
EXTENDS HeartbeatPipeline

CONSTANTS
    Workload,      \* the operations that clients call
    Sequential,    \* whether each user waits for an answer before the next
    MaxRestarts    \* bound on the number of crashes

Operations == {"start", "current", "heartbeat", "pause", "resume"}

(* What a request asks of the service. *)
Calls == [op : Operations, user : Users, device : Devices]

ASSUME ServiceAssumption ==
    /\ Workload \subseteq Operations
    /\ Sequential \in BOOLEAN
    /\ MaxRestarts \in Nat
    /\ Nil \notin Calls

VARIABLES
    call,      \* call[r]: operation, user and device of request r, or Nil
    pc,        \* pc[r]: the next step of request r
    sess,      \* sess[r]: the *PlaybackSession request r works on, or Nil
    code,      \* code[r]: the HTTP status answered, 0 before
    warm,      \* warm[r]: the cache-warming goroutine r started, or Nil
    clock,     \* the last tick that time.Now returned
    restarts   \* the number of crashes so far

reqVars == <<call, pc, sess, code, warm, clock>>
vars == <<repoVars, pipeVars, reqVars, restarts>>

Steps == {"idle", "get", "select", "mutate", "upsert", "setcache", "publish",
          "await", "fallback", "done", "lost"}

Init ==
    /\ RepoInit
    /\ PipeInit
    /\ call = [r \in Requests |-> Nil]
    /\ pc = [r \in Requests |-> "idle"]
    /\ sess = [r \in Requests |-> Nil]
    /\ code = [r \in Requests |-> 0]
    /\ warm = [r \in Requests |-> Nil]
    /\ clock = 0
    /\ restarts = 0
-----------------------------------------------------------------------------
(* Helpers. *)

InFlight(r) == pc[r] \notin {"idle", "done", "lost"}

(* Mutation of SuccessCode: a heartbeat is accepted for later, 202. *)
SuccessCode_Accepted(op) ==
    IF op = "start" THEN 201 ELSE IF op = "heartbeat" THEN 202 ELSE 200

SuccessCode(op) ==
    IF op = "start" THEN 201 ELSE IF op = "heartbeat" THEN 204 ELSE 200

(* Request r called an operation of ops and was told that it succeeded. *)
Acked(r, ops) ==
    /\ pc[r] = "done"
    /\ call[r].op \in ops
    /\ code[r] = SuccessCode(call[r].op)

(* The operations that write the session through to the table. *)
WriteThrough == {"start", "pause", "resume"}

Goto(r, step) ==
    /\ pc' = [pc EXCEPT ![r] = step]
    /\ UNCHANGED code

Answer(r, status) ==
    /\ pc' = [pc EXCEPT ![r] = "done"]
    /\ code' = [code EXCEPT ![r] = status]

AnswerOK(r) == Answer(r, SuccessCode(call[r].op))

(* A request of operation op arrives from user u with device d. *)
Accept(r, op, u, d) ==
    /\ op \in Workload
    /\ pc[r] = "idle"
    /\ Sequential => \A q \in Requests :
                        InFlight(q) => call[q].user # u
    /\ call' = [call EXCEPT ![r] = [op |-> op, user |-> u, device |-> d]]

(* The session Start and Heartbeat build from a body, stamped time.Now. *)
NewSession(u, b) ==
    [user |-> u, track |-> b.track, pos |-> b.pos, status |-> StatusPlaying,
     device |-> b.device, at |-> clock + 1]
-----------------------------------------------------------------------------
(* The operations, one action per stretch between two outside calls. *)

(* Start: build the session; Upsert comes next. *)
Start(r) ==
    \E u \in Users, b \in Bodies :
        /\ Accept(r, "start", u, b.device)
        /\ sess' = [sess EXCEPT ![r] = NewSession(u, b)]
        /\ clock' = clock + 1
        /\ Goto(r, "upsert")
        /\ UNCHANGED <<repoVars, pipeVars, warm, restarts>>

(* Heartbeat: build the session (position_sec min=0); SetCache comes next. *)
Heartbeat(r) ==
    \E u \in Users, b \in Bodies :
        /\ b.pos >= 0
        /\ Accept(r, "heartbeat", u, b.device)
        /\ sess' = [sess EXCEPT ![r] = NewSession(u, b)]
        /\ clock' = clock + 1
        /\ Goto(r, "setcache")
        /\ UNCHANGED <<repoVars, pipeVars, warm, restarts>>

(* GetCurrent, Pause and Resume begin with repo.Get. *)
GetCurrentPauseResume(r) ==
    \E op \in {"current", "pause", "resume"}, u \in Users, d \in Devices :
        /\ Accept(r, op, u, d)
        /\ Goto(r, "get")
        /\ UNCHANGED <<repoVars, pipeVars, sess, warm, clock, restarts>>

(* Get has returned s: GetCurrent answers it, Pause and Resume change it. *)
GetReturns(r, s) ==
    /\ sess' = [sess EXCEPT ![r] = s]
    /\ \/ call[r].op = "current" /\ AnswerOK(r)
       \/ call[r].op # "current" /\ Goto(r, "mutate")

(* Get, up to the reply of Redis. *)
RedisGet(r) ==
    /\ pc[r] = "get"
    /\ \/ /\ CacheHit(call[r].user)
          /\ GetReturns(r, cache[call[r].user])
       \/ /\ CacheMiss(call[r].user)
          /\ Goto(r, "select")
          /\ UNCHANGED sess
    /\ UNCHANGED <<repoVars, pipeVars, call, warm, clock, restarts>>

(* Mutation of Select: every error of the query is taken for ErrNoRows. *)
Select_NotFound(r) ==
    LET u == call[r].user IN
    /\ pc[r] = "select"
    /\ \/ /\ db[u] = Nil \/ "db" \in Faults
          /\ Answer(r, 404)
          /\ UNCHANGED <<sess, warm>>
       \/ /\ db[u] # Nil
          /\ GetReturns(r, db[u])
          /\ warm' = [warm EXCEPT ![r] = [call |-> "marshal", data |-> Nil]]
    /\ UNCHANGED <<repoVars, pipeVars, call, clock, restarts>>

(***************************************************************************)
(* Get, from the SELECT on.  A row found is returned, and a goroutine that *)
(* shares the returned struct is started to put it into the cache.         *)
(***************************************************************************)
Select(r) ==
    LET u == call[r].user IN
    /\ pc[r] = "select"
    /\ \/ /\ "db" \in Faults
          /\ Answer(r, 500)
          /\ UNCHANGED <<sess, warm>>
       \/ /\ db[u] = Nil
          /\ Answer(r, 404)
          /\ UNCHANGED <<sess, warm>>
       \/ /\ db[u] # Nil
          /\ GetReturns(r, db[u])
          /\ warm' = [warm EXCEPT ![r] = [call |-> "marshal", data |-> Nil]]
    /\ UNCHANGED <<repoVars, pipeVars, call, clock, restarts>>

(* Mutation of Mutated: Resume leaves the status of what is not paused. *)
Mutated_ResumePaused(r) ==
    [sess[r] EXCEPT !.status = IF call[r].op = "pause" THEN StatusPaused
                               ELSE IF @ = StatusPaused THEN StatusPlaying
                               ELSE @,
                    !.device = call[r].device,
                    !.at = clock + 1]

(* Mutation of Mutated: the position is that of a new, empty session. *)
Mutated_ResetPosition(r) ==
    [sess[r] EXCEPT !.status = IF call[r].op = "pause" THEN StatusPaused
                                                       ELSE StatusPlaying,
                    !.pos = 0,
                    !.device = call[r].device,
                    !.at = clock + 1]

(* The struct that Pause or Resume leaves behind. *)
Mutated(r) ==
    [sess[r] EXCEPT !.status = IF call[r].op = "pause" THEN StatusPaused
                                                       ELSE StatusPlaying,
                    !.device = call[r].device,
                    !.at = clock + 1]

(***************************************************************************)
(* Pause and Resume assign Status, DeviceID and UpdatedAt.  A warming      *)
(* goroutine of this request that has not encoded the struct yet may do so *)
(* at the same time, without synchronisation, and see any mixture.         *)
(***************************************************************************)
Mutate(r) ==
    /\ pc[r] = "mutate"
    /\ sess' = [sess EXCEPT ![r] = Mutated(r)]
    /\ clock' = clock + 1
    /\ \/ UNCHANGED warm
       \/ /\ warm[r] # Nil
          /\ warm[r].call = "marshal"
          /\ \E s \in RacedReads(sess[r], Mutated(r)) :
                warm' = [warm EXCEPT ![r] = [call |-> "set", data |-> s]]
    /\ Goto(r, "upsert")
    /\ UNCHANGED <<repoVars, pipeVars, call, restarts>>

(* Start, Pause, Resume: an error of Upsert is answered 500. *)
UpsertSession(r) ==
    /\ pc[r] = "upsert"
    /\ \/ Upsert(sess[r], TRUE) /\ Answer(r, 500)
       \/ Upsert(sess[r], FALSE) /\ Goto(r, "setcache")
    /\ UNCHANGED <<cache, pipeVars, call, sess, warm, clock, restarts>>

(* Mutation of CacheSession: only Heartbeat writes the cache. *)
CacheSession_HeartbeatOnly(r) ==
    /\ pc[r] = "setcache"
    /\ \/ call[r].op = "heartbeat" /\ Goto(r, "publish") /\ SetCache(sess[r])
       \/ call[r].op # "heartbeat" /\ AnswerOK(r) /\ UNCHANGED cache
    /\ UNCHANGED <<db, stored, pipeVars, call, sess, warm, clock, restarts>>

(* SetCache: the last call of Start, Pause and Resume, Heartbeat's first. *)
CacheSession(r) ==
    /\ pc[r] = "setcache"
    /\ SetCache(sess[r])
    /\ \/ call[r].op = "heartbeat" /\ Goto(r, "publish")
       \/ call[r].op # "heartbeat" /\ AnswerOK(r)
    /\ UNCHANGED <<db, stored, pipeVars, call, sess, warm, clock, restarts>>

(***************************************************************************)
(* Heartbeat: WriteMessages queues the message.  An asynchronous Writer    *)
(* returns then, with no error; any other waits for the brokers.           *)
(***************************************************************************)
PublishHeartbeat(r) ==
    /\ pc[r] = "publish"
    /\ Publish(r, sess[r])
    /\ \/ Async /\ AnswerOK(r)
       \/ ~Async /\ Goto(r, "await")
    /\ UNCHANGED <<repoVars, call, sess, warm, clock, restarts>>

(***************************************************************************)
(* Heartbeat: WriteMessages, asynchronous or not, returns an error before  *)
(* it queues the message - the lookup of the topic's partitions fails, the *)
(* message is too large - and the row is written directly.                 *)
(***************************************************************************)
PublishRefused(r) ==
    /\ pc[r] = "publish"
    /\ "kafka" \in Faults
    /\ Goto(r, "fallback")
    /\ UNCHANGED <<repoVars, pipeVars, call, sess, warm, clock, restarts>>

(* Mutation of AwaitPublish: an error of Publish is only logged. *)
AwaitPublish_NoFallback(r) ==
    /\ pc[r] = "await"
    /\ PublishOK(r) \/ PublishErr(r)
    /\ AnswerOK(r)
    /\ UNCHANGED <<repoVars, pipeVars, call, sess, warm, clock, restarts>>

(* Mutation of AwaitPublish: only a success ends the wait. *)
AwaitPublish_NoError(r) ==
    /\ pc[r] = "await"
    /\ PublishOK(r)
    /\ AnswerOK(r)
    /\ UNCHANGED <<repoVars, pipeVars, call, sess, warm, clock, restarts>>

(* Heartbeat: Publish returns; on an error the row is written directly. *)
AwaitPublish(r) ==
    /\ pc[r] = "await"
    /\ \/ PublishOK(r) /\ AnswerOK(r)
       \/ PublishErr(r) /\ Goto(r, "fallback")
    /\ UNCHANGED <<repoVars, pipeVars, call, sess, warm, clock, restarts>>

Fallback(r) ==
    /\ pc[r] = "fallback"
    /\ \/ Upsert(sess[r], TRUE) /\ Answer(r, 500)
       \/ Upsert(sess[r], FALSE) /\ AnswerOK(r)
    /\ UNCHANGED <<cache, pipeVars, call, sess, warm, clock, restarts>>
-----------------------------------------------------------------------------
(* The cache-warming goroutine: SetCache encodes the struct, then sends. *)

WarmMarshal(r) ==
    /\ warm[r] # Nil
    /\ warm[r].call = "marshal"
    /\ warm' = [warm EXCEPT ![r] = [call |-> "set", data |-> sess[r]]]
    /\ UNCHANGED <<repoVars, pipeVars, call, pc, sess, code, clock, restarts>>

WarmSet(r) ==
    /\ warm[r] # Nil
    /\ warm[r].call = "set"
    /\ SetCache(warm[r].data)
    /\ warm' = [warm EXCEPT ![r] = Nil]
    /\ UNCHANGED <<db, stored, pipeVars, call, pc, sess, code, clock, restarts>>
-----------------------------------------------------------------------------
(* The process dies and is started again: requests in flight are lost. *)
Crash ==
    /\ "crash" \in Faults
    /\ restarts < MaxRestarts
    /\ restarts' = restarts + 1
    /\ pc' = [r \in Requests |-> IF InFlight(r) THEN "lost" ELSE pc[r]]
    /\ warm' = [r \in Requests |-> Nil]
    /\ PipeCrash
    /\ UNCHANGED <<repoVars, call, sess, code, clock>>

RequestStep(r) ==
    \/ RedisGet(r)
    \/ Select(r)
    \/ Mutate(r)
    \/ UpsertSession(r)
    \/ CacheSession(r)
    \/ PublishHeartbeat(r)
    \/ PublishRefused(r)
    \/ AwaitPublish(r)
    \/ Fallback(r)

Arrival(r) == Start(r) \/ Heartbeat(r) \/ GetCurrentPauseResume(r)

WriterStep(r) == SendAcked(r) \/ SendFailed(r)

WarmStep(r) == WarmMarshal(r) \/ WarmSet(r)

ConsumerStep ==
    \/ FetchMessage
    \/ Handle
    \/ \E failed \in BOOLEAN : CommitMessages(failed)

PipeStep ==
    /\ \/ \E r \in Requests : WriterStep(r)
       \/ ConsumerStep
       \/ Rebalance
    /\ UNCHANGED <<reqVars, restarts>>

Expiry ==
    /\ \E u \in Users : Expire(u)
    /\ UNCHANGED <<pipeVars, reqVars, restarts>>

Next ==
    \/ \E r \in Requests : Arrival(r) \/ RequestStep(r) \/ WarmStep(r)
    \/ PipeStep
    \/ Expiry
    \/ Crash

Spec == Init /\ [][Next]_vars

(***************************************************************************)
(* Every goroutine goes on: the servers answer each call in the end, or    *)
(* the client library reports an error, and the Go scheduler is fair.      *)
(* Clients owe nothing, and no failure ever has to happen.  A commit that  *)
(* is asked for again and again succeeds at some time: only a broker that  *)
(* is down for good could refuse it for ever.                              *)
(***************************************************************************)
Fairness ==
    /\ \A r \in Requests : /\ WF_vars(RequestStep(r))
                          /\ WF_vars(WarmStep(r))
                          /\ WF_vars(WriterStep(r) /\ UNCHANGED <<reqVars, restarts>>)
    /\ WF_vars(ConsumerStep /\ UNCHANGED <<reqVars, restarts>>)
    /\ SF_vars(CommitMessages(FALSE) /\ UNCHANGED <<reqVars, restarts>>)

FairSpec == Spec /\ Fairness
-----------------------------------------------------------------------------
(* Properties. *)

WarmTask == [call : {"marshal", "set"}, data : RacedSession \cup {Nil}]

(* Every variable of the service has a value of its type. *)
TypeOK ==
    /\ db \in [Users -> RacedSession \cup {Nil}]
    /\ cache \in [Users -> RacedSession \cup {Nil}]
    /\ stored \subseteq RacedSession
    /\ topic \in [Partitions -> Seq(RacedSession \cup {Malformed})]
    /\ writer \in [Requests -> Batch \cup {Nil}]
    /\ position \in [Partitions -> Nat]
    /\ committed \in [Partitions -> Nat]
    /\ consumer \in InHand \cup {Nil}
    /\ handled \subseteq Partitions \X Nat
    /\ call \in [Requests -> Calls \cup {Nil}]
    /\ pc \in [Requests -> Steps]
    /\ sess \in [Requests -> RacedSession \cup {Nil}]
    /\ code \in [Requests -> {0, 200, 201, 204, 404, 500}]
    /\ warm \in [Requests -> WarmTask \cup {Nil}]
    /\ clock \in Nat
    /\ restarts \in 0 .. MaxRestarts

(***************************************************************************)
(* A heartbeat is answered 204 only once it is in the topic or in the      *)
(* table, and Start, Pause and Resume succeed only once the very session   *)
(* they return has been written to the table - whatever fails, and         *)
(* whenever the process crashes ("so data is never lost", service.go:64).  *)
(* An asynchronous Writer gives no such promise for heartbeats.            *)
(***************************************************************************)
AckDurable ==
    \A r \in Requests :
        /\ Acked(r, WriteThrough) => sess[r] \in stored
        /\ ~Async /\ Acked(r, {"heartbeat"}) =>
               sess[r] \in stored \/ Logged(sess[r])

(***************************************************************************)
(* What a data race leaves in a struct being encoded stays in the cache:   *)
(* no row ever written and no message ever published has a torn field,     *)
(* although Pause and Resume store sessions they have read from the cache. *)
(***************************************************************************)
NoTornWrites ==
    /\ stored \subseteq Session
    /\ \A p \in Partitions : \A i \in 1 .. Len(topic[p]) :
           topic[p][i] \in Session \cup {Malformed}

(* Track and position of s were sent together by user s.user. *)
Sourced(s) ==
    \E q \in Requests : /\ call[q] # Nil
                        /\ call[q].op \in {"start", "heartbeat"}
                        /\ SamePlace(s, sess[q])

(***************************************************************************)
(* Every session in Redis, in the table, in the topic or in an answer      *)
(* shows a place (track and position) that the same user sent in one body: *)
(* lost updates, races and redeliveries never mix the track of one body    *)
(* with the position of another, nor one user's session with another's.    *)
(***************************************************************************)
NoMixedSessions ==
    /\ \A u \in Users :
          /\ db[u] # Nil => db[u].user = u /\ Sourced(db[u])
          /\ cache[u] # Nil => cache[u].user = u /\ Sourced(cache[u])
    /\ \A r \in Requests : sess[r] # Nil =>
          sess[r].user = call[r].user /\ Sourced(sess[r])
    /\ \A p \in Partitions : \A i \in 1 .. Len(topic[p]) :
          topic[p][i] # Malformed => Sourced(topic[p][i])

(***************************************************************************)
(* Every offset the group has committed belongs to a message whose handler *)
(* has returned: no crash and no rebalance lets the consumer skip one.     *)
(***************************************************************************)
CommittedWasHandled ==
    \A p \in Partitions : \A i \in 1 .. committed[p] : <<p, i>> \in handled

Queue == INSTANCE AtLeastOnce
         WITH log <- topic, delivered <- handled, released <- committed

(***************************************************************************)
(* Producer, broker, consumer and all that fails between them implement    *)
(* at-least-once delivery: no retry, failed commit, rebalance or crash     *)
(* changes what is in the topic, makes up a message, or moves a committed  *)
(* offset past a message whose handler has not returned.                   *)
(***************************************************************************)
DeliversAtLeastOnce == Queue!Spec

(***************************************************************************)
(* Every committed heartbeat has reached the table.                        *)
(***************************************************************************)
CommittedIsStored ==
    \A p \in Partitions : \A i \in 1 .. committed[p] :
        topic[p][i] \in stored \cup {Malformed}

(***************************************************************************)
(* A status other than playing and paused (model.go:15) is never cached.   *)
(***************************************************************************)
CachedStatusKnown ==
    \A u \in Users : cache[u] # Nil => cache[u].status \in Status

(***************************************************************************)
(* 404 means that there is no row: it is answered only to a user for whom  *)
(* nothing was ever written to the table.  No error of the query and no    *)
(* row that came or went between the two lookups of Get is taken for       *)
(* absence.  A heartbeat that is still in the topic is not in the table:   *)
(* see AckedIsFound.                                                       *)
(***************************************************************************)
NotFoundIsTrue ==
    [][\A r \in Requests :
          code[r] = 0 /\ code'[r] = 404 =>
              \A s \in stored : s.user # call[r].user]_vars

(* The operations that change the session of the user. *)
Writes == WriteThrough \cup {"heartbeat"}

(***************************************************************************)
(* "When Redis is unavailable all operations transparently go on through   *)
(* PostgreSQL" (README.md:69): a user who has been told that a session was *)
(* written is not told afterwards that there is none.                      *)
(***************************************************************************)
AckedIsFound ==
    [][\A r, q \in Requests :
          /\ code[r] = 0 /\ code'[r] = 404
          /\ Acked(q, Writes)
          => call[q].user # call[r].user]_vars

(***************************************************************************)
(* "GetCurrent returns the most recent session state" (service.go:56):     *)
(* whatever GetCurrent, Pause or Resume reads is at least as recent as     *)
(* every session of the user whose writing has been acknowledged.          *)
(***************************************************************************)
FreshReads ==
    [][\A r, q \in Requests :
          /\ pc[r] \in {"get", "select"}
          /\ Acked(q, Writes)
          /\ call[q].user = call[r].user
          => /\ sess'[r] # Nil => sess'[r].at >= sess[q].at
             /\ code'[r] # 404]_vars

(***************************************************************************)
(* Every acknowledged heartbeat reaches the table in the end, whatever     *)
(* happens in between: failed produce requests and commits, rebalances, a  *)
(* malformed message ahead of it in the partition, a crash of the process. *)
(***************************************************************************)
AckedIsStoredEventually ==
    \A r \in Requests : Acked(r, {"heartbeat"}) ~> sess[r] \in stored

(* Every request is answered, unless the process dies meanwhile. *)
EveryRequestAnswered ==
    \A r \in Requests : InFlight(r) ~> pc[r] \in {"done", "lost"}

(***************************************************************************)
(* When the clients have stopped and the consumer has caught up, the table *)
(* shows what the cache shows, so that a new device, served from the table *)
(* on a miss, gets the position the other one has just heard (README:67).  *)
(* A crash excuses the table only if it has cut off a request: what such a *)
(* request had put into the cache may have gone nowhere else.              *)
(***************************************************************************)
CacheAndTableAgree ==
    <>[](\A u \in Users :
            \/ db[u] = cache[u]
            \/ \E r \in Requests : pc[r] = "lost" /\ call[r].user = u)
=============================================================================
