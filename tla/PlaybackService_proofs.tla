------------------------ MODULE PlaybackService_proofs ------------------------
(***************************************************************************)
(* Proofs about PlaybackService, for any number of users, requests,        *)
(* partitions and failures.                                                *)
(*                                                                         *)
(* TypeOK says too little to be inductive: an operation may only write a   *)
(* session it holds, and the consumer may only read a message that exists. *)
(* TypeInv adds what each step of a request holds, and where the offsets   *)
(* of the consumer lie.  It also keeps apart the sessions that a data race *)
(* may have torn (cache, answers) from the others (table, topic), which is *)
(* NoTornWrites.                                                           *)
(***************************************************************************)
EXTENDS PlaybackService, TLAPS

Writing == {"upsert", "setcache", "publish", "await", "fallback"}

CleanBatch == [state : {"sending", "acked", "failed"}, part : Partitions,
               tries : 0 .. MaxAttempts - 1, msg : Session]

(* The types of the stores: only the cache may hold a torn session. *)
StoreTypes ==
    /\ db \in [Users -> Session \cup {Nil}]
    /\ cache \in [Users -> RacedSession \cup {Nil}]
    /\ stored \subseteq Session

(* The types of the pipeline; offsets lie within the logs. *)
PipeTypes ==
    /\ topic \in [Partitions -> Seq(Session \cup {Malformed})]
    /\ writer \in [Requests -> CleanBatch \cup {Nil}]
    /\ position \in [Partitions -> Nat]
    /\ committed \in [Partitions -> Nat]
    /\ consumer \in InHand \cup {Nil}
    /\ handled \subseteq Partitions \X Nat
    /\ \A p \in Partitions : /\ position[p] <= Len(topic[p])
                             /\ committed[p] <= Len(topic[p])
    /\ consumer # Nil => consumer.off \in 1 .. Len(topic[consumer.part])

(* The types of the requests, by what each step of a request holds. *)
RequestTypes ==
    /\ call \in [Requests -> Calls \cup {Nil}]
    /\ pc \in [Requests -> Steps]
    /\ sess \in [Requests -> RacedSession \cup {Nil}]
    /\ code \in [Requests -> {0, 200, 201, 204, 404, 500}]
    /\ warm \in [Requests -> WarmTask \cup {Nil}]
    /\ clock \in Nat
    /\ restarts \in 0 .. MaxRestarts
    /\ \A r \in Requests :
          /\ pc[r] # "idle" => call[r] \in Calls
          /\ pc[r] \in Writing => sess[r] \in Session
          /\ pc[r] = "mutate" => sess[r] \in RacedSession
          /\ warm[r] # Nil => /\ sess[r] \in RacedSession
                              /\ warm[r].call = "set" =>
                                     warm[r].data \in RacedSession

TypeInv == StoreTypes /\ PipeTypes /\ RequestTypes
-----------------------------------------------------------------------------
(* What the operators of the model return. *)

(* A clean session is one of the sessions that a race may produce. *)
LEMMA SessionIsRaced == Session \subseteq RacedSession
BY DEF Session, RacedSession

(* Start and Heartbeat build a clean session. *)
LEMMA NewSessionType ==
    ASSUME NEW u \in Users, NEW b \in Bodies, clock \in Nat
    PROVE  NewSession(u, b) \in Session
<1>1. b \in Body
  BY ModelAssumption
<1> QED
  BY <1>1 DEF NewSession, Session, Body, Status, StatusPlaying, StatusPaused

(* Assigning clean strings and a stamp, as Pause and Resume do. *)
LEMMA CleanAssignment ==
    ASSUME NEW x \in RacedSession, NEW st \in Status, NEW d \in Devices,
           NEW a \in Nat
    PROVE  [x EXCEPT !.status = st, !.device = d, !.at = a] \in Session
BY DEF RacedSession, Session

(* Assigning strings that may be torn, as a racing read sees it. *)
LEMMA RacedAssignment ==
    ASSUME NEW x \in RacedSession, NEW st \in Status \cup {Torn},
           NEW d \in Devices \cup {Torn}, NEW a \in Nat
    PROVE  [x EXCEPT !.status = st, !.device = d, !.at = a] \in RacedSession
BY DEF RacedSession

(* Pause and Resume make a clean session even of a torn one. *)
LEMMA MutatedType ==
    ASSUME NEW r \in Requests, sess[r] \in RacedSession, call[r] \in Calls,
           clock \in Nat
    PROVE  Mutated(r) \in Session
<1> DEFINE st == IF call[r].op = "pause" THEN StatusPaused ELSE StatusPlaying
<1>1. st \in Status /\ call[r].device \in Devices /\ clock + 1 \in Nat
  BY DEF Calls, Status
<1>2. Mutated(r) = [sess[r] EXCEPT !.status = st, !.device = call[r].device,
                                   !.at = clock + 1]
  BY DEF Mutated
<1> HIDE DEF st
<1>3. [sess[r] EXCEPT !.status = st, !.device = call[r].device,
                      !.at = clock + 1] \in Session
  BY <1>1, CleanAssignment
<1> QED
  BY <1>2, <1>3

(* Whatever a racing read sees, it is a session but for torn strings. *)
LEMMA RacedReadsType ==
    ASSUME NEW x \in RacedSession, NEW y \in RacedSession
    PROVE  RacedReads(x, y) \subseteq RacedSession
<1> DEFINE Read(st, d, a) ==
               [x EXCEPT !.status = st, !.device = d, !.at = a]
           Dates == {x.at, y.at, 0}
<1>1. RacedReads(x, y) = {Read(st, d, a) :
          st \in MixedString(x.status, y.status),
          d \in MixedString(x.device, y.device), a \in Dates}
  BY DEF RacedReads
<1>2. /\ MixedString(x.status, y.status) \subseteq Status \cup {Torn}
      /\ MixedString(x.device, y.device) \subseteq Devices \cup {Torn}
      /\ Dates \subseteq Nat
  BY DEF MixedString, RacedSession
<1>3. \A st \in Status \cup {Torn}, d \in Devices \cup {Torn}, a \in Nat :
          Read(st, d, a) \in RacedSession
  BY RacedAssignment
<1> HIDE DEF Read, Dates
<1> QED
  BY <1>1, <1>2, <1>3

(* Upsert keeps the table clean and adds at most its argument to it. *)
LEMMA UpsertType ==
    ASSUME NEW s \in Session, NEW failed \in BOOLEAN,
           db \in [Users -> Session \cup {Nil}], stored \subseteq Session,
           Upsert(s, failed)
    PROVE  /\ db' \in [Users -> Session \cup {Nil}]
           /\ stored' \subseteq Session
           /\ stored \subseteq stored'
           /\ ~failed => s \in stored'
<1>1. s.user \in Users
  BY DEF Session
<1> QED
  BY <1>1 DEF Upsert, WriteRow

(* SetCache keeps the cache typed. *)
LEMMA SetCacheType ==
    ASSUME NEW s \in RacedSession, cache \in [Users -> RacedSession \cup {Nil}],
           SetCache(s)
    PROVE  cache' \in [Users -> RacedSession \cup {Nil}]
BY DEF SetCache, RacedSession
-----------------------------------------------------------------------------
(* TypeInv is inductive: first what leaves a component alone, or a step of *)
(* a request that changes little of it.                                    *)

LEMMA StoreUnchanged ==
    ASSUME StoreTypes, UNCHANGED repoVars
    PROVE  StoreTypes'
BY DEF StoreTypes, repoVars

LEMMA PipeUnchanged ==
    ASSUME PipeTypes, UNCHANGED pipeVars
    PROVE  PipeTypes'
BY DEF PipeTypes, pipeVars

LEMMA RequestsUnchanged ==
    ASSUME RequestTypes, UNCHANGED <<reqVars, restarts>>
    PROVE  RequestTypes'
BY DEF RequestTypes, reqVars

(* A request goes to its next step with what it holds. *)
LEMMA GotoTypes ==
    ASSUME RequestTypes, NEW r \in Requests,
           NEW step \in {"select", "setcache", "await", "fallback", "publish"},
           pc[r] # "idle",
           step \in Writing => sess[r] \in Session,
           Goto(r, step),
           UNCHANGED <<call, sess, warm, clock, restarts>>
    PROVE  RequestTypes'
BY DEF RequestTypes, Goto, Steps

(* A request is answered. *)
LEMMA AnswerTypes ==
    ASSUME RequestTypes, NEW r \in Requests,
           NEW status \in {0, 200, 201, 204, 404, 500},
           pc[r] # "idle",
           Answer(r, status),
           UNCHANGED <<call, sess, warm, clock, restarts>>
    PROVE  RequestTypes'
BY DEF RequestTypes, Answer, Steps, Writing

LEMMA SuccessCodeType ==
    ASSUME NEW op
    PROVE  SuccessCode(op) \in {0, 200, 201, 204, 404, 500}
BY DEF SuccessCode

(* A request is answered that it succeeded. *)
LEMMA AnswerOKTypes ==
    ASSUME RequestTypes, NEW r \in Requests, pc[r] # "idle", AnswerOK(r),
           UNCHANGED <<call, sess, warm, clock, restarts>>
    PROVE  RequestTypes'
BY AnswerTypes, SuccessCodeType DEF AnswerOK

(* The initial states are typed. *)
LEMMA TypeInvInit == Init => TypeInv
<1> SUFFICES ASSUME Init PROVE TypeInv
  OBVIOUS
<1>1. StoreTypes
  BY DEF Init, RepoInit, StoreTypes
<1>2. PipeTypes
  <2> DEFINE Logs == {<<>>} \cup
                      (IF "malformed" \in Faults THEN {<<Malformed>>} ELSE {})
             T == Session \cup {Malformed}
  <2>0. Logs \subseteq Seq(T)
    <3>1. <<>> \in Seq(T)
      OBVIOUS
    <3>2. <<Malformed>> \in Seq(T)
      <4>1. Malformed \in T
        OBVIOUS
      <4> HIDE DEF T
      <4> QED
        BY <4>1
    <3> QED
      BY <3>1, <3>2
  <2>1. topic \in [Partitions -> Seq(T)]
    <3>1. topic \in [Partitions -> Logs]
      BY DEF Init, PipeInit
    <3> HIDE DEF Logs, T
    <3> QED
      BY <2>0, <3>1
  <2>2. \A p \in Partitions : Len(topic[p]) \in Nat
    BY <2>1
  <2> QED
    BY <2>1, <2>2 DEF Init, PipeInit, PipeTypes
<1>3. RequestTypes
  BY ServiceAssumption DEF Init, RequestTypes, Steps, Writing
<1> QED
  BY <1>1, <1>2, <1>3 DEF TypeInv

(* A request of any operation arrives. *)
LEMMA ArrivalTypes ==
    ASSUME TypeInv, NEW r \in Requests, Arrival(r)
    PROVE  TypeInv'
<1> USE DEF TypeInv
<1>1. ASSUME NEW op \in Operations, NEW u \in Users, NEW d \in Devices,
             Accept(r, op, u, d)
      PROVE  /\ call' \in [Requests -> Calls \cup {Nil}]
             /\ call'[r] \in Calls
             /\ \A q \in Requests : q # r => call'[q] = call[q]
             /\ pc[r] = "idle"
  BY <1>1 DEF Accept, Calls, RequestTypes
<1>2. CASE Start(r)
  <2>1. PICK u \in Users, b \in Bodies :
            /\ Accept(r, "start", u, b.device)
            /\ sess' = [sess EXCEPT ![r] = NewSession(u, b)]
            /\ clock' = clock + 1
            /\ Goto(r, "upsert")
            /\ UNCHANGED <<repoVars, pipeVars, warm, restarts>>
    BY <1>2 DEF Start
  <2>2. b.device \in Devices
    BY ModelAssumption DEF Body
  <2>3. NewSession(u, b) \in Session /\ NewSession(u, b) \in RacedSession
    BY NewSessionType, SessionIsRaced DEF RequestTypes
  <2>4. RequestTypes'
    BY <1>1, <2>1, <2>2, <2>3, SessionIsRaced
       DEF RequestTypes, Goto, Steps, Writing, Operations
  <2> QED
    BY <2>1, <2>4, StoreUnchanged, PipeUnchanged
<1>3. CASE Heartbeat(r)
  <2>1. PICK u \in Users, b \in Bodies :
            /\ Accept(r, "heartbeat", u, b.device)
            /\ sess' = [sess EXCEPT ![r] = NewSession(u, b)]
            /\ clock' = clock + 1
            /\ Goto(r, "setcache")
            /\ UNCHANGED <<repoVars, pipeVars, warm, restarts>>
    BY <1>3 DEF Heartbeat
  <2>2. b.device \in Devices
    BY ModelAssumption DEF Body
  <2>3. NewSession(u, b) \in Session /\ NewSession(u, b) \in RacedSession
    BY NewSessionType, SessionIsRaced DEF RequestTypes
  <2>4. RequestTypes'
    BY <1>1, <2>1, <2>2, <2>3, SessionIsRaced
       DEF RequestTypes, Goto, Steps, Writing, Operations
  <2> QED
    BY <2>1, <2>4, StoreUnchanged, PipeUnchanged
<1>4. CASE GetCurrentPauseResume(r)
  <2>1. PICK op \in {"current", "pause", "resume"}, u \in Users, d \in Devices :
            /\ Accept(r, op, u, d)
            /\ Goto(r, "get")
            /\ UNCHANGED <<repoVars, pipeVars, sess, warm, clock, restarts>>
    BY <1>4 DEF GetCurrentPauseResume
  <2>2. op \in Operations
    BY DEF Operations
  <2>3. RequestTypes'
    BY <1>1, <2>1, <2>2 DEF RequestTypes, Goto, Steps, Writing
  <2> QED
    BY <2>1, <2>3, StoreUnchanged, PipeUnchanged
<1> QED
  BY <1>2, <1>3, <1>4 DEF Arrival

(* repo.Get hands a session out: it is answered or about to be changed. *)
LEMMA GetReturnsTypes ==
    ASSUME RequestTypes, NEW r \in Requests, NEW s \in RacedSession,
           pc[r] \in {"get", "select"}, GetReturns(r, s),
           UNCHANGED <<call, clock, restarts>>,
           \/ UNCHANGED warm
           \/ warm' = [warm EXCEPT ![r] = [call |-> "marshal", data |-> Nil]]
    PROVE  RequestTypes'
<1>1. /\ pc' \in [Requests -> Steps]
      /\ code' \in [Requests -> {0, 200, 201, 204, 404, 500}]
      /\ \A q \in Requests : q # r => pc'[q] = pc[q]
      /\ pc'[r] \in {"done", "mutate"}
  BY SuccessCodeType
     DEF GetReturns, AnswerOK, Answer, Goto, RequestTypes, Steps
<1>2. sess' = [sess EXCEPT ![r] = s]
  BY DEF GetReturns
<1>3. warm' \in [Requests -> WarmTask \cup {Nil}]
  BY DEF RequestTypes, WarmTask
<1>4. \A q \in Requests : q # r => warm'[q] = warm[q]
  BY DEF RequestTypes
<1>5. warm'[r] # Nil /\ warm'[r].call = "set" => warm'[r].data \in RacedSession
  BY DEF RequestTypes
<1>6. ASSUME NEW q \in Requests
      PROVE  /\ pc'[q] # "idle" => call'[q] \in Calls
             /\ pc'[q] \in Writing => sess'[q] \in Session
             /\ pc'[q] = "mutate" => sess'[q] \in RacedSession
             /\ warm'[q] # Nil => /\ sess'[q] \in RacedSession
                                  /\ warm'[q].call = "set" =>
                                         warm'[q].data \in RacedSession
  <2>1. CASE q = r
    <3>1. sess'[r] = s
      BY <1>2 DEF RequestTypes
    <3>2. call'[r] \in Calls
      BY DEF RequestTypes
    <3> QED
      BY <1>1, <1>5, <2>1, <3>1, <3>2 DEF Writing
  <2>2. CASE q # r
    <3>1. sess'[q] = sess[q] /\ pc'[q] = pc[q] /\ warm'[q] = warm[q]
      BY <1>1, <1>2, <1>4, <2>2 DEF RequestTypes
    <3> QED
      BY <3>1 DEF RequestTypes
  <2> QED
    BY <2>1, <2>2
<1>7. sess' \in [Requests -> RacedSession \cup {Nil}]
  BY <1>2 DEF RequestTypes
<1> QED
  BY <1>1, <1>3, <1>6, <1>7 DEF RequestTypes

(* A request in flight takes its next step. *)
LEMMA RequestStepTypes ==
    ASSUME TypeInv, NEW r \in Requests, RequestStep(r)
    PROVE  TypeInv'
<1> USE DEF TypeInv
<1>1. CASE RedisGet(r)
  <2>1. pc[r] = "get" /\ call[r] \in Calls
    BY <1>1 DEF RedisGet, RequestTypes
  <2>2. CASE CacheHit(call[r].user) /\ GetReturns(r, cache[call[r].user])
    <3>1. cache[call[r].user] \in RacedSession
      BY <2>1, <2>2 DEF CacheHit, StoreTypes, Calls
    <3>2. UNCHANGED <<call, clock, restarts, warm>>
      BY <1>1 DEF RedisGet
    <3>3. RequestTypes'
      BY <2>1, <2>2, <3>1, <3>2, GetReturnsTypes
    <3> QED
      BY <1>1, <3>3, StoreUnchanged, PipeUnchanged DEF RedisGet
  <2>3. CASE Goto(r, "select") /\ UNCHANGED sess
    <3>1. RequestTypes'
      BY <1>1, <2>1, <2>3, GotoTypes DEF RedisGet, Writing
    <3> QED
      BY <1>1, <3>1, StoreUnchanged, PipeUnchanged DEF RedisGet
  <2> QED
    BY <1>1, <2>2, <2>3 DEF RedisGet
<1>2. CASE Select(r)
  <2>1. pc[r] = "select" /\ call[r] \in Calls
    BY <1>2 DEF Select, RequestTypes
  <2>2. CASE /\ Answer(r, 500) \/ Answer(r, 404)
             /\ UNCHANGED <<sess, warm>>
    <3>1. RequestTypes'
      BY <1>2, <2>1, <2>2, AnswerTypes DEF Select
    <3> QED
      BY <1>2, <3>1, StoreUnchanged, PipeUnchanged DEF Select
  <2>3. CASE /\ db[call[r].user] # Nil
             /\ GetReturns(r, db[call[r].user])
             /\ warm' = [warm EXCEPT ![r] = [call |-> "marshal", data |-> Nil]]
    <3>1. db[call[r].user] \in RacedSession
      BY <2>1, <2>3, SessionIsRaced DEF StoreTypes, Calls
    <3>2. UNCHANGED <<call, clock, restarts>>
      BY <1>2 DEF Select
    <3>3. RequestTypes'
      BY <2>1, <2>3, <3>1, <3>2, GetReturnsTypes
    <3> QED
      BY <1>2, <3>3, StoreUnchanged, PipeUnchanged DEF Select
  <2> QED
    BY <1>2, <2>2, <2>3 DEF Select
<1>3. CASE Mutate(r)
  <2>1. /\ pc[r] = "mutate"
        /\ sess[r] \in RacedSession
        /\ call[r] \in Calls
        /\ clock \in Nat
    BY <1>3 DEF Mutate, RequestTypes
  <2>2. Mutated(r) \in Session /\ Mutated(r) \in RacedSession
    BY <2>1, MutatedType, SessionIsRaced
  <2>3. /\ warm' \in [Requests -> WarmTask \cup {Nil}]
        /\ \A q \in Requests : q # r => warm'[q] = warm[q]
        /\ warm'[r] # Nil /\ warm'[r].call = "set" =>
               warm'[r].data \in RacedSession
    <3>1. CASE UNCHANGED warm
      BY <3>1 DEF RequestTypes
    <3>2. CASE \E s \in RacedReads(sess[r], Mutated(r)) :
                  warm' = [warm EXCEPT ![r] = [call |-> "set", data |-> s]]
      <4>1. PICK s \in RacedReads(sess[r], Mutated(r)) :
                warm' = [warm EXCEPT ![r] = [call |-> "set", data |-> s]]
        BY <3>2
      <4>2. s \in RacedSession
        BY <2>1, <2>2, RacedReadsType
      <4> QED
        BY <4>1, <4>2 DEF RequestTypes, WarmTask
    <3> QED
      BY <1>3, <3>1, <3>2 DEF Mutate
  <2>4. RequestTypes'
    <3>1. /\ sess' = [sess EXCEPT ![r] = Mutated(r)]
          /\ clock' = clock + 1
          /\ pc' = [pc EXCEPT ![r] = "upsert"]
          /\ UNCHANGED <<code, call, restarts>>
      BY <1>3 DEF Mutate, Goto
    <3> HIDE DEF Mutated
    <3> QED
      BY <2>1, <2>2, <2>3, <3>1 DEF RequestTypes, Steps, Writing
  <2> QED
    BY <1>3, <2>4, StoreUnchanged, PipeUnchanged DEF Mutate
<1>4. ASSUME sess[r] \in Session, NEW failed \in BOOLEAN,
             Upsert(sess[r], failed), UNCHANGED cache
      PROVE  StoreTypes'
  BY <1>4, UpsertType DEF StoreTypes
<1>5. CASE UpsertSession(r)
  <2>1. pc[r] = "upsert" /\ sess[r] \in Session
    BY <1>5 DEF UpsertSession, RequestTypes, Writing
  <2>2. StoreTypes'
    BY <1>4, <1>5, <2>1 DEF UpsertSession
  <2>3. RequestTypes'
    <3>1. Answer(r, 500) \/ Goto(r, "setcache")
      BY <1>5 DEF UpsertSession
    <3>2. UNCHANGED <<call, sess, warm, clock, restarts>>
      BY <1>5 DEF UpsertSession
    <3> QED
      BY <2>1, <3>1, <3>2, GotoTypes, AnswerTypes
  <2> QED
    BY <1>5, <2>2, <2>3, PipeUnchanged DEF UpsertSession
<1>6. CASE CacheSession(r)
  <2>1. /\ pc[r] = "setcache"
        /\ sess[r] \in Session
        /\ sess[r] \in RacedSession
    BY <1>6, SessionIsRaced DEF CacheSession, RequestTypes, Writing
  <2>2. StoreTypes'
    BY <1>6, <2>1, SetCacheType DEF CacheSession, StoreTypes
  <2>3. RequestTypes'
    BY <1>6, <2>1, GotoTypes, AnswerOKTypes DEF CacheSession
  <2> QED
    BY <1>6, <2>2, <2>3, PipeUnchanged DEF CacheSession
<1>7. CASE PublishHeartbeat(r)
  <2>1. pc[r] = "publish" /\ sess[r] \in Session
    BY <1>7 DEF PublishHeartbeat, RequestTypes, Writing
  <2>2. PipeTypes'
    <3>1. PICK p \in Partitions :
              writer' = [writer EXCEPT ![r] =
                           [state |-> "sending", part |-> p, tries |-> 0,
                            msg |-> sess[r]]]
      BY <1>7 DEF PublishHeartbeat, Publish
    <3>2. 0 \in 0 .. MaxAttempts - 1
      BY PipelineAssumption
    <3>3. writer' \in [Requests -> CleanBatch \cup {Nil}]
      BY <2>1, <3>1, <3>2 DEF PipeTypes, CleanBatch
    <3>4. UNCHANGED <<topic, position, committed, consumer, handled>>
      BY <1>7 DEF PublishHeartbeat, Publish
    <3> QED
      BY <3>3, <3>4 DEF PipeTypes
  <2>3. RequestTypes'
    BY <1>7, <2>1, GotoTypes, AnswerOKTypes DEF PublishHeartbeat
  <2> QED
    BY <1>7, <2>2, <2>3, StoreUnchanged DEF PublishHeartbeat
<1>8. CASE PublishRefused(r) \/ AwaitPublish(r)
  <2>1. pc[r] \in {"publish", "await"} /\ sess[r] \in Session
    BY <1>8 DEF PublishRefused, AwaitPublish, RequestTypes, Writing
  <2>2. RequestTypes'
    BY <1>8, <2>1, GotoTypes, AnswerOKTypes DEF PublishRefused, AwaitPublish
  <2> QED
    BY <1>8, <2>2, StoreUnchanged, PipeUnchanged DEF PublishRefused,
      AwaitPublish
<1>9. CASE Fallback(r)
  <2>1. pc[r] = "fallback" /\ sess[r] \in Session
    BY <1>9 DEF Fallback, RequestTypes, Writing
  <2>2. StoreTypes'
    BY <1>4, <1>9, <2>1 DEF Fallback
  <2>3. RequestTypes'
    <3>1. Answer(r, 500) \/ AnswerOK(r)
      BY <1>9 DEF Fallback
    <3>2. UNCHANGED <<call, sess, warm, clock, restarts>>
      BY <1>9 DEF Fallback
    <3> QED
      BY <2>1, <3>1, <3>2, AnswerTypes, AnswerOKTypes
  <2> QED
    BY <1>9, <2>2, <2>3, PipeUnchanged DEF Fallback
<1> QED
  BY <1>1, <1>2, <1>3, <1>5, <1>6, <1>7, <1>8, <1>9 DEF RequestStep

(* A cache-warming goroutine takes its next step. *)
LEMMA WarmStepTypes ==
    ASSUME TypeInv, NEW r \in Requests, WarmStep(r)
    PROVE  TypeInv'
<1> USE DEF TypeInv
<1>1. CASE WarmMarshal(r)
  <2>1. sess[r] \in RacedSession
    BY <1>1 DEF WarmMarshal, RequestTypes
  <2>2. RequestTypes'
    BY <1>1, <2>1 DEF WarmMarshal, RequestTypes, WarmTask
  <2> QED
    BY <1>1, <2>2, StoreUnchanged, PipeUnchanged DEF WarmMarshal
<1>2. CASE WarmSet(r)
  <2>1. warm[r].data \in RacedSession
    BY <1>2 DEF WarmSet, RequestTypes
  <2>2. StoreTypes'
    BY <1>2, <2>1, SetCacheType DEF WarmSet, StoreTypes
  <2>3. RequestTypes'
    BY <1>2 DEF WarmSet, RequestTypes
  <2> QED
    BY <1>2, <2>2, <2>3, PipeUnchanged DEF WarmSet
<1> QED
  BY <1>1, <1>2 DEF WarmStep

(* A message in the log: what an append leaves where it was. *)
LEMMA AppendTypes ==
    ASSUME PipeTypes, NEW p \in Partitions, NEW m \in Session, AppendTo(p, m)
    PROVE  /\ topic' \in [Partitions -> Seq(Session \cup {Malformed})]
           /\ \A q \in Partitions :
                 /\ Len(topic[q]) <= Len(topic'[q])
                 /\ \A i \in 1 .. Len(topic[q]) : topic'[q][i] = topic[q][i]
           /\ topic'[p][Len(topic'[p])] = m
           /\ Len(topic'[p]) \in 1 .. Len(topic'[p])
<1> DEFINE T == Session \cup {Malformed}
<1>1. topic \in [Partitions -> Seq(T)] /\ m \in T
  BY DEF PipeTypes
<1>2. topic' = [topic EXCEPT ![p] = Append(topic[p], m)]
  BY DEF AppendTo
<1> HIDE DEF T
<1>3. topic' \in [Partitions -> Seq(T)]
  BY <1>1, <1>2
<1>4. ASSUME NEW q \in Partitions
      PROVE  /\ Len(topic[q]) <= Len(topic'[q])
             /\ \A i \in 1 .. Len(topic[q]) : topic'[q][i] = topic[q][i]
  <2>1. CASE q = p
    BY <1>1, <1>2, <2>1
  <2>2. CASE q # p
    BY <1>1, <1>2, <2>2
  <2> QED
    BY <2>1, <2>2
<1>5. /\ topic'[p][Len(topic'[p])] = m
      /\ Len(topic'[p]) \in 1 .. Len(topic'[p])
  BY <1>1, <1>2
<1> QED
  BY <1>3, <1>4, <1>5 DEF T

(* The offsets stay within the logs when these grow. *)
LEMMA LogsGrow ==
    ASSUME PipeTypes,
           topic' \in [Partitions -> Seq(Session \cup {Malformed})],
           \A q \in Partitions : Len(topic[q]) <= Len(topic'[q]),
           writer' \in [Requests -> CleanBatch \cup {Nil}],
           UNCHANGED <<position, committed, consumer, handled>>
    PROVE  PipeTypes'
<1> DEFINE T == Session \cup {Malformed}
<1>1. topic \in [Partitions -> Seq(T)] /\ topic' \in [Partitions -> Seq(T)]
  BY DEF PipeTypes
<1> HIDE DEF T
<1>2. \A q \in Partitions : Len(topic[q]) \in Nat /\ Len(topic'[q]) \in Nat
  BY <1>1
<1>3. \A q \in Partitions : position[q] <= Len(topic'[q])
                            /\ committed[q] <= Len(topic'[q])
  BY <1>2 DEF PipeTypes
<1>4. consumer # Nil => consumer.off \in 1 .. Len(topic'[consumer.part])
  BY <1>2 DEF PipeTypes, InHand
<1> QED
  BY <1>3, <1>4 DEF PipeTypes

(* The Writer takes its next step for a batch. *)
LEMMA WriterStepTypes ==
    ASSUME TypeInv, NEW r \in Requests, WriterStep(r),
           UNCHANGED <<reqVars, restarts>>
    PROVE  TypeInv'
<1> USE DEF TypeInv
<1>1. /\ writer[r] \in CleanBatch
      /\ writer[r].part \in Partitions
      /\ writer[r].msg \in Session
  BY DEF WriterStep, SendAcked, SendFailed, Sending, PipeTypes, CleanBatch
<1>2. UNCHANGED <<repoVars, position, committed, consumer, handled>>
  BY DEF WriterStep, SendAcked, SendFailed
<1>3. /\ topic' \in [Partitions -> Seq(Session \cup {Malformed})]
      /\ \A q \in Partitions : Len(topic[q]) <= Len(topic'[q])
  <2>1. CASE AppendTo(writer[r].part, writer[r].msg)
    BY <1>1, <2>1, AppendTypes
  <2>2. CASE UNCHANGED topic
    <3> DEFINE T == Session \cup {Malformed}
    <3>1. topic \in [Partitions -> Seq(T)]
      BY DEF PipeTypes
    <3> HIDE DEF T
    <3>2. \A q \in Partitions : Len(topic[q]) \in Nat
      BY <3>1
    <3> QED
      BY <2>2, <3>1, <3>2 DEF T
  <2> QED
    BY <2>1, <2>2 DEF WriterStep, SendAcked, SendFailed
<1>4. writer' \in [Requests -> CleanBatch \cup {Nil}]
  <2>1. ASSUME NEW state \in {"acked", "failed"},
               writer' = [writer EXCEPT ![r].state = state]
        PROVE  writer' \in [Requests -> CleanBatch \cup {Nil}]
    BY <1>1, <2>1 DEF PipeTypes, CleanBatch
  <2>2. ASSUME writer[r].tries + 1 < MaxAttempts,
               writer' = [writer EXCEPT ![r].tries = @ + 1]
        PROVE  writer' \in [Requests -> CleanBatch \cup {Nil}]
    <3>1. writer[r].tries + 1 \in 0 .. MaxAttempts - 1
      BY <1>1, <2>2, PipelineAssumption DEF CleanBatch
    <3> QED
      BY <1>1, <2>2, <3>1 DEF PipeTypes, CleanBatch
  <2> QED
    BY <2>1, <2>2 DEF WriterStep, SendAcked, SendFailed
<1>5. PipeTypes'
  BY <1>2, <1>3, <1>4, LogsGrow
<1> QED
  BY <1>2, <1>5, StoreUnchanged, RequestsUnchanged

(* The consumer takes its next step, or its group is rebalanced. *)
LEMMA ConsumerStepTypes ==
    ASSUME TypeInv, ConsumerStep \/ Rebalance, UNCHANGED <<reqVars, restarts>>
    PROVE  TypeInv'
<1> USE DEF TypeInv
<1> DEFINE T == Session \cup {Malformed}
<1>1. /\ topic \in [Partitions -> Seq(T)]
      /\ \A q \in Partitions : Len(topic[q]) \in Nat
  <2>1. topic \in [Partitions -> Seq(T)]
    BY DEF PipeTypes
  <2> HIDE DEF T
  <2> QED
    BY <2>1
<1> HIDE DEF T
<1>2. CASE FetchMessage
  <2>1. PICK p \in Partitions :
            /\ position[p] < Len(topic[p])
            /\ position' = [position EXCEPT ![p] = @ + 1]
            /\ consumer' = [call |-> "handle", part |-> p,
                            off |-> position[p] + 1]
    BY <1>2 DEF FetchMessage
  <2>2. UNCHANGED <<repoVars, topic, writer, committed, handled>>
    BY <1>2 DEF FetchMessage
  <2>3. /\ position[p] + 1 \in 1 .. Len(topic[p])
        /\ position[p] + 1 \in Nat
    BY <1>1, <2>1 DEF PipeTypes
  <2>4. /\ position' \in [Partitions -> Nat]
        /\ \A q \in Partitions : position'[q] <= Len(topic[q])
    BY <1>1, <2>1, <2>3 DEF PipeTypes
  <2>5. consumer' \in InHand
        /\ consumer'.off \in 1 .. Len(topic[consumer'.part])
    BY <2>1, <2>3 DEF InHand
  <2>6. PipeTypes'
    BY <2>2, <2>4, <2>5 DEF PipeTypes
  <2> QED
    BY <2>2, <2>6, StoreUnchanged, RequestsUnchanged
<1>3. CASE Handle
  <2>1. /\ consumer \in InHand
        /\ consumer.part \in Partitions
        /\ consumer.off \in 1 .. Len(topic[consumer.part])
        /\ consumer' = [consumer EXCEPT !.call = "commit"]
        /\ handled' = handled \cup {<<consumer.part, consumer.off>>}
        /\ UNCHANGED <<cache, topic, writer, position, committed>>
    BY <1>3 DEF Handle, PipeTypes, InHand
  <2> DEFINE m == topic[consumer.part][consumer.off]
  <2>2. m \in T
    BY <1>1, <2>1
  <2>3. StoreTypes'
    <3>1. CASE UNCHANGED <<db, stored>>
      BY <2>1, <3>1 DEF StoreTypes
    <3>2. CASE m # Malformed /\ \E failed \in BOOLEAN : Upsert(m, failed)
      <4>1. m \in Session
        BY <2>2, <3>2 DEF T
      <4> HIDE DEF m
      <4>2. PICK failed \in BOOLEAN : Upsert(m, failed)
        BY <3>2
      <4> QED
        BY <2>1, <4>1, <4>2, UpsertType DEF StoreTypes
    <3> QED
      BY <1>3, <3>1, <3>2 DEF Handle
  <2>4. PipeTypes'
    <3>1. /\ consumer' \in InHand
          /\ consumer'.off = consumer.off
          /\ consumer'.part = consumer.part
      BY <2>1 DEF InHand
    <3>2. handled' \subseteq Partitions \X Nat
      BY <1>1, <2>1 DEF PipeTypes, InHand
    <3> QED
      BY <2>1, <3>1, <3>2 DEF PipeTypes
  <2> QED
    BY <2>3, <2>4, RequestsUnchanged
<1>4. ASSUME NEW failed \in BOOLEAN, CommitMessages(failed)
      PROVE  TypeInv'
  <2>1. /\ consumer \in InHand
        /\ consumer.part \in Partitions
        /\ consumer.off \in 1 .. Len(topic[consumer.part])
        /\ consumer.off \in Nat
    BY <1>4 DEF CommitMessages, PipeTypes, InHand
  <2>2. /\ \/ committed' = [committed EXCEPT ![consumer.part] = consumer.off]
           \/ UNCHANGED committed
        /\ consumer' = Nil
        /\ UNCHANGED <<repoVars, topic, writer, position, handled>>
    BY <1>4 DEF CommitMessages
  <2>3. /\ committed' \in [Partitions -> Nat]
        /\ \A q \in Partitions : committed'[q] <= Len(topic[q])
    BY <1>1, <2>1, <2>2 DEF PipeTypes
  <2>4. PipeTypes'
    BY <2>2, <2>3 DEF PipeTypes
  <2> QED
    BY <2>2, <2>4, StoreUnchanged, RequestsUnchanged
<1>5. CASE Rebalance
  <2>1. PipeTypes'
    BY <1>5 DEF Rebalance, PipeTypes
  <2> QED
    BY <1>5, <2>1, StoreUnchanged, RequestsUnchanged DEF Rebalance
<1> QED
  BY <1>2, <1>3, <1>4, <1>5 DEF ConsumerStep

(* The process dies and is started again. *)
LEMMA CrashTypes ==
    ASSUME TypeInv, Crash
    PROVE  TypeInv'
<1> USE DEF TypeInv
<1>1. PipeTypes'
  <2>1. /\ writer' = [r \in Requests |-> Nil]
        /\ position' = committed
        /\ consumer' = Nil
        /\ UNCHANGED <<topic, committed, handled>>
    BY DEF Crash, PipeCrash
  <2> QED
    BY <2>1 DEF PipeTypes
<1>2. RequestTypes'
  <2>1. restarts' \in 0 .. MaxRestarts
    BY ServiceAssumption DEF Crash, RequestTypes
  <2>2. pc' = [r \in Requests |-> IF InFlight(r) THEN "lost" ELSE pc[r]]
    BY DEF Crash
  <2>3. /\ warm' = [r \in Requests |-> Nil]
        /\ UNCHANGED <<call, sess, code, clock>>
    BY DEF Crash
  <2> QED
    BY <2>1, <2>2, <2>3 DEF RequestTypes, InFlight, Steps, Writing
<1> QED
  BY <1>1, <1>2, StoreUnchanged DEF Crash

(* Every step preserves TypeInv. *)
LEMMA TypeInvStep == TypeInv /\ [Next]_vars => TypeInv'
<1> SUFFICES ASSUME TypeInv, [Next]_vars
             PROVE  TypeInv'
  OBVIOUS
<1>1. ASSUME NEW r \in Requests, Arrival(r) \/ RequestStep(r) \/ WarmStep(r)
      PROVE  TypeInv'
  BY <1>1, ArrivalTypes, RequestStepTypes, WarmStepTypes
<1>2. CASE PipeStep
  BY <1>2, WriterStepTypes, ConsumerStepTypes DEF PipeStep
<1>3. CASE Expiry
  <2>1. PICK u \in Users : Expire(u)
    BY <1>3 DEF Expiry
  <2>2. StoreTypes'
    BY <2>1 DEF Expire, TypeInv, StoreTypes
  <2>3. UNCHANGED <<pipeVars, reqVars, restarts>>
    BY <1>3 DEF Expiry
  <2> QED
    BY <2>2, <2>3, PipeUnchanged, RequestsUnchanged DEF TypeInv
<1>4. CASE Crash
  BY <1>4, CrashTypes
<1>5. CASE UNCHANGED vars
  BY <1>5, StoreUnchanged, PipeUnchanged, RequestsUnchanged DEF vars, TypeInv
<1> QED
  BY <1>1, <1>2, <1>3, <1>4, <1>5 DEF Next

(* In every reachable state each step of a request holds what it needs. *)
THEOREM TypeInvHolds == Spec => []TypeInv
BY TypeInvInit, TypeInvStep, PTL DEF Spec

(* A message of a typed log is a clean session or malformed. *)
LEMMA MessageType ==
    ASSUME PipeTypes, NEW p \in Partitions, NEW i \in 1 .. Len(topic[p])
    PROVE  topic[p][i] \in Session \cup {Malformed}
<1> DEFINE T == Session \cup {Malformed}
<1>1. topic \in [Partitions -> Seq(T)]
  BY DEF PipeTypes
<1> HIDE DEF T
<1>2. topic[p] \in Seq(T)
  BY <1>1
<1>3. topic[p][i] \in T
  BY <1>2
<1> QED
  BY <1>3 DEF T

(***************************************************************************)
(* Type correctness of the whole service: every store, queue and goroutine *)
(* of internal/session and internal/kafka holds values of its type.        *)
(***************************************************************************)
THEOREM TypeCorrect == Spec => []TypeOK
<1>1. TypeInv => TypeOK
  <2> SUFFICES ASSUME TypeInv PROVE TypeOK
    OBVIOUS
  <2>1. /\ db \in [Users -> RacedSession \cup {Nil}]
        /\ stored \subseteq RacedSession
    BY SessionIsRaced DEF TypeInv, StoreTypes
  <2>2. topic \in [Partitions -> Seq(RacedSession \cup {Malformed})]
    <3> DEFINE T == Session \cup {Malformed}
               U == RacedSession \cup {Malformed}
    <3>1. topic \in [Partitions -> Seq(T)]
      BY DEF TypeInv, PipeTypes
    <3>2. T \subseteq U
      BY SessionIsRaced
    <3> HIDE DEF T, U
    <3>3. \A p \in Partitions : topic[p] \in Seq(U)
      BY <3>1, <3>2
    <3>4. topic \in [Partitions -> Seq(U)]
      BY <3>1, <3>3
    <3> QED
      BY <3>4 DEF U
  <2>3. writer \in [Requests -> Batch \cup {Nil}]
    <3>1. CleanBatch \subseteq Batch
      BY SessionIsRaced DEF CleanBatch, Batch
    <3> QED
      BY <3>1 DEF TypeInv, PipeTypes
  <2> QED
    BY <2>1, <2>2, <2>3
       DEF TypeOK, TypeInv, StoreTypes, PipeTypes, RequestTypes
<1> QED
  BY <1>1, TypeInvHolds, PTL

(***************************************************************************)
(* The data race between a cache-warming goroutine and Pause or Resume     *)
(* never gets a torn string into the table or into the topic.              *)
(***************************************************************************)
THEOREM TornStaysInCache == Spec => []NoTornWrites
<1>1. TypeInv => NoTornWrites
  BY MessageType DEF TypeInv, StoreTypes, NoTornWrites
<1> QED
  BY <1>1, TypeInvHolds, PTL
-----------------------------------------------------------------------------
(***************************************************************************)
(* The consumer commits only what it has handled.  That is inductive only  *)
(* together with what has been fetched: everything below the position of   *)
(* the Reader has been handled, but for the one message in hand.           *)
(***************************************************************************)
InHandNow(p, i) == /\ consumer # Nil
                   /\ consumer.call = "handle"
                   /\ consumer.part = p
                   /\ consumer.off = i

CommitInv ==
    /\ \A p \in Partitions : \A i \in 1 .. committed[p] : <<p, i>> \in handled
    /\ \A p \in Partitions : \A i \in 1 .. position[p] :
           <<p, i>> \in handled \/ InHandNow(p, i)
    /\ consumer # Nil =>
           \A i \in 1 .. consumer.off :
               \/ i = consumer.off /\ consumer.call = "handle"
               \/ <<consumer.part, i>> \in handled

LEMMA CommitInvStep ==
    ASSUME TypeInv, CommitInv, [Next]_vars
    PROVE  CommitInv'
<1> USE DEF TypeInv
<1>1. ASSUME UNCHANGED <<position, committed, consumer, handled>>
      PROVE  CommitInv'
  BY <1>1 DEF CommitInv, InHandNow
<1>2. ASSUME NEW r \in Requests, Arrival(r) \/ RequestStep(r) \/ WarmStep(r)
      PROVE  UNCHANGED <<position, committed, consumer, handled>>
  BY <1>2 DEF Arrival, Start, Heartbeat, GetCurrentPauseResume, RequestStep,
     RedisGet, Select, Mutate, UpsertSession, CacheSession, PublishHeartbeat,
     Publish, PublishRefused, AwaitPublish, Fallback, WarmStep, WarmMarshal,
     WarmSet, pipeVars
<1>3. ASSUME NEW r \in Requests, WriterStep(r)
      PROVE  UNCHANGED <<position, committed, consumer, handled>>
  BY <1>3 DEF WriterStep, SendAcked, SendFailed
<1>4. CASE FetchMessage
  <2>1. PICK p \in Partitions :
            /\ position' = [position EXCEPT ![p] = @ + 1]
            /\ consumer' = [call |-> "handle", part |-> p,
                            off |-> position[p] + 1]
    BY <1>4 DEF FetchMessage
  <2>2. consumer = Nil /\ UNCHANGED <<committed, handled>>
    BY <1>4 DEF FetchMessage
  <2>3. \A q \in Partitions : position[q] \in Nat
    BY DEF PipeTypes
  <2>4. \A q \in Partitions : \A i \in 1 .. position[q] : <<q, i>> \in handled
    BY <2>2 DEF CommitInv, InHandNow
  <2>5. ASSUME NEW q \in Partitions, NEW i \in 1 .. position'[q]
        PROVE  <<q, i>> \in handled' \/ InHandNow(q, i)'
    <3>1. CASE i \in 1 .. position[q]
      BY <2>2, <2>4, <3>1
    <3>2. CASE i \notin 1 .. position[q]
      <4>1. q = p /\ i = position[p] + 1
        BY <2>1, <2>3, <3>2 DEF PipeTypes
      <4>2. consumer' \in InHand
        BY <2>1, <2>3 DEF InHand
      <4> QED
        BY <2>1, <4>1, <4>2, PipelineAssumption DEF InHandNow
    <3> QED
      BY <3>1, <3>2
  <2>6. \A i \in 1 .. consumer'.off :
            \/ i = consumer'.off /\ consumer'.call = "handle"
            \/ <<consumer'.part, i>> \in handled'
    BY <2>1, <2>2, <2>3, <2>4
  <2> QED
    BY <2>2, <2>5, <2>6 DEF CommitInv
<1>5. CASE Handle
  <2>1. /\ consumer \in InHand
        /\ consumer.call = "handle"
        /\ consumer' = [consumer EXCEPT !.call = "commit"]
        /\ handled' = handled \cup {<<consumer.part, consumer.off>>}
        /\ UNCHANGED <<position, committed>>
    BY <1>5 DEF Handle, PipeTypes
  <2>2. /\ consumer'.call = "commit"
        /\ consumer'.part = consumer.part
        /\ consumer'.off = consumer.off
        /\ consumer # Nil
    BY <1>5, <2>1 DEF InHand, Handle
  <2> QED
    BY <2>1, <2>2 DEF CommitInv, InHandNow
<1>6. ASSUME NEW failed \in BOOLEAN, CommitMessages(failed)
      PROVE  CommitInv'
  <2>1. /\ consumer # Nil
        /\ consumer.call = "commit"
        /\ consumer.part \in Partitions
        /\ \/ committed' = [committed EXCEPT ![consumer.part] = consumer.off]
           \/ UNCHANGED committed
        /\ consumer' = Nil
        /\ UNCHANGED <<position, handled>>
    BY <1>6 DEF CommitMessages, PipeTypes, InHand
  <2>2. \A i \in 1 .. consumer.off : <<consumer.part, i>> \in handled
    BY <2>1 DEF CommitInv
  <2>3. \A p \in Partitions : \A i \in 1 .. committed'[p] :
            <<p, i>> \in handled
    BY <2>1, <2>2 DEF CommitInv, PipeTypes
  <2> QED
    BY <2>1, <2>3 DEF CommitInv, InHandNow
<1>7. CASE Rebalance
  BY <1>7 DEF Rebalance, CommitInv, InHandNow
<1>8. CASE Crash
  <2>1. /\ position' = committed
        /\ consumer' = Nil
        /\ UNCHANGED <<committed, handled>>
    BY <1>8 DEF Crash, PipeCrash
  <2> QED
    BY <2>1 DEF CommitInv, InHandNow
<1>9. CASE Expiry
  BY <1>1, <1>9 DEF Expiry, pipeVars
<1>10. CASE UNCHANGED vars
  BY <1>1, <1>10 DEF vars, pipeVars
<1> QED
  BY <1>1, <1>2, <1>3, <1>4, <1>5, <1>6, <1>7, <1>8, <1>9, <1>10
     DEF Next, PipeStep, ConsumerStep

(***************************************************************************)
(* Neither a crash nor a rebalance nor a failed commit ever lets the group *)
(* pass over a message that the handler has not seen.                      *)
(***************************************************************************)
THEOREM NothingSkipped == Spec => []CommittedWasHandled
<1>1. Init => CommitInv
  BY DEF Init, PipeInit, CommitInv
<1>2. CommitInv => CommittedWasHandled
  BY DEF CommitInv, CommittedWasHandled
<1> QED
  BY <1>1, <1>2, CommitInvStep, TypeInvHolds, PTL DEF Spec
-----------------------------------------------------------------------------
(***************************************************************************)
(* What is acknowledged is durable.  The proof follows one request r: what *)
(* its step says about the operation, that a session is in the table       *)
(* before it is cached, and that the Writer holds the request's session    *)
(* and reports success only for a message in the topic.                    *)
(***************************************************************************)
Durable(r) ==
    /\ pc[r] \in {"publish", "await", "fallback"} => call[r].op = "heartbeat"
    /\ pc[r] \in {"get", "select", "mutate", "upsert"} =>
           call[r].op # "heartbeat"
    /\ pc[r] = "setcache" /\ call[r].op # "heartbeat" => sess[r] \in stored
    /\ writer[r] # Nil => /\ pc[r] \in {"await", "fallback", "done"}
                          /\ writer[r].msg = sess[r]
                          /\ writer[r].state = "acked" => Logged(sess[r])
    /\ Acked(r, WriteThrough) => sess[r] \in stored
    /\ ~Async /\ Acked(r, {"heartbeat"}) =>
           sess[r] \in stored \/ Logged(sess[r])

DurableInv == \A r \in Requests : Durable(r)

(* Logs only grow, and so does the history of the table. *)
Growing ==
    /\ stored \subseteq stored'
    /\ \A p \in Partitions :
          /\ Len(topic[p]) <= Len(topic'[p])
          /\ \A i \in 1 .. Len(topic[p]) : topic'[p][i] = topic[p][i]

(* The logs of a typed topic have lengths. *)
LEMMA LogLengths ==
    ASSUME NEW log \in [Partitions -> Seq(Session \cup {Malformed})]
    PROVE  \A p \in Partitions : Len(log[p]) \in Nat
<1> DEFINE T == Session \cup {Malformed}
<1>1. log \in [Partitions -> Seq(T)]
  OBVIOUS
<1> HIDE DEF T
<1> QED
  BY <1>1

(* A message that is logged stays logged. *)
LEMMA LoggedStays ==
    ASSUME PipeTypes, PipeTypes', Growing, NEW m,
           \E p \in Partitions : \E i \in 1 .. Len(topic[p]) : topic[p][i] = m
    PROVE  \E p \in Partitions : \E i \in 1 .. Len(topic'[p]) : topic'[p][i] = m
<1>1. PICK p \in Partitions : \E i \in 1 .. Len(topic[p]) : topic[p][i] = m
  OBVIOUS
<1>2. PICK i \in 1 .. Len(topic[p]) : topic[p][i] = m
  BY <1>1
<1>3. /\ topic \in [Partitions -> Seq(Session \cup {Malformed})]
      /\ topic' \in [Partitions -> Seq(Session \cup {Malformed})]
  BY DEF PipeTypes
<1>4. Len(topic[p]) \in Nat /\ Len(topic'[p]) \in Nat
  BY <1>3, LogLengths
<1>5. i \in 1 .. Len(topic'[p]) /\ topic'[p][i] = m
  BY <1>2, <1>4 DEF Growing
<1> QED
  BY <1>5

(* A request whose own state a step leaves alone stays durable. *)
LEMMA DurableFrame ==
    ASSUME PipeTypes, PipeTypes', Growing, NEW q \in Requests, Durable(q),
           pc'[q] = pc[q], call'[q] = call[q], sess'[q] = sess[q],
           code'[q] = code[q], writer'[q] = writer[q]
    PROVE  Durable(q)'
<1>1. Logged(sess[q]) => Logged(sess[q])'
  BY LoggedStays DEF Logged
<1> QED
  BY <1>1 DEF Durable, Acked, Growing

(* A step that leaves table history and topic alone lets them grow. *)
LEMMA GrowingFrame ==
    ASSUME PipeTypes, UNCHANGED topic, stored \subseteq stored'
    PROVE  Growing
BY LogLengths DEF Growing, PipeTypes

(* Upsert never forgets what was stored. *)
LEMMA UpsertGrows ==
    ASSUME NEW s, NEW failed \in BOOLEAN, Upsert(s, failed)
    PROVE  /\ stored \subseteq stored'
           /\ ~failed => s \in stored'
BY DEF Upsert, WriteRow

(* The steps of a request change the state of no other request. *)
LEMMA OnlyOwnRequest ==
    ASSUME TypeInv, NEW r \in Requests,
           Arrival(r) \/ RequestStep(r) \/ WarmStep(r),
           NEW q \in Requests, q # r
    PROVE  /\ pc'[q] = pc[q]
           /\ call'[q] = call[q]
           /\ sess'[q] = sess[q]
           /\ code'[q] = code[q]
           /\ writer'[q] = writer[q]
<1> USE DEF TypeInv, RequestTypes, PipeTypes
<1>1. CASE Arrival(r)
  BY <1>1 DEF Arrival, Start, Heartbeat, GetCurrentPauseResume, Accept, Goto,
     pipeVars
<1>2. CASE RedisGet(r) \/ Select(r)
  BY <1>2 DEF RedisGet, Select, GetReturns, AnswerOK, Answer, Goto, pipeVars
<1>3. CASE Mutate(r)
  BY <1>3 DEF Mutate, Goto, pipeVars
<1>4. CASE UpsertSession(r)
  <2>1. Answer(r, 500) \/ Goto(r, "setcache")
    BY <1>4 DEF UpsertSession
  <2>2. UNCHANGED <<call, sess, writer>>
    BY <1>4 DEF UpsertSession, pipeVars
  <2> QED
    BY <2>1, <2>2 DEF Answer, Goto
<1>5. CASE CacheSession(r)
  BY <1>5 DEF CacheSession, AnswerOK, Answer, Goto, pipeVars
<1>6. CASE PublishHeartbeat(r)
  BY <1>6 DEF PublishHeartbeat, Publish, AnswerOK, Answer, Goto
<1>7. CASE PublishRefused(r) \/ AwaitPublish(r)
  BY <1>7 DEF PublishRefused, AwaitPublish, AnswerOK, Answer, Goto, pipeVars
<1>8. CASE Fallback(r)
  <2>1. Answer(r, 500) \/ AnswerOK(r)
    BY <1>8 DEF Fallback
  <2>2. UNCHANGED <<call, sess, writer>>
    BY <1>8 DEF Fallback, pipeVars
  <2> QED
    BY <2>1, <2>2 DEF AnswerOK, Answer
<1>9. CASE WarmStep(r)
  BY <1>9 DEF WarmStep, WarmMarshal, WarmSet, pipeVars
<1> QED
  BY <1>1, <1>2, <1>3, <1>4, <1>5, <1>6, <1>7, <1>8, <1>9 DEF RequestStep

(* The steps of a request leave the topic alone and only add to the table. *)
LEMMA RequestGrows ==
    ASSUME TypeInv, NEW r \in Requests,
           Arrival(r) \/ RequestStep(r) \/ WarmStep(r)
    PROVE  Growing /\ UNCHANGED topic
<1>1. UNCHANGED topic
  BY DEF Arrival, Start, Heartbeat, GetCurrentPauseResume, RequestStep,
     RedisGet, Select, Mutate, UpsertSession, CacheSession, PublishHeartbeat,
     Publish, PublishRefused, AwaitPublish, Fallback, WarmStep, WarmMarshal,
     WarmSet, pipeVars
<1>2. stored \subseteq stored'
  <2>1. CASE UpsertSession(r) \/ Fallback(r)
    <3>1. PICK failed \in BOOLEAN : Upsert(sess[r], failed)
      BY <2>1 DEF UpsertSession, Fallback
    <3> QED
      BY <3>1, UpsertGrows
  <2>2. CASE ~(UpsertSession(r) \/ Fallback(r))
    BY <2>2 DEF Arrival, Start, Heartbeat, GetCurrentPauseResume, RequestStep,
       RedisGet, Select, Mutate, CacheSession, PublishHeartbeat,
       PublishRefused, AwaitPublish, WarmStep, WarmMarshal, WarmSet, repoVars
  <2> QED
    BY <2>1, <2>2
<1> QED
  BY <1>1, <1>2, GrowingFrame DEF TypeInv


(* A step of request r keeps what r has been acknowledged durable. *)
LEMMA OwnStepDurable ==
    ASSUME TypeInv, TypeInv', NEW r \in Requests, Durable(r),
           Arrival(r) \/ RequestStep(r) \/ WarmStep(r)
    PROVE  Durable(r)'
<1> USE DEF TypeInv
<1>0. Growing /\ UNCHANGED topic
  BY RequestGrows
<1>1. CASE Start(r)
  <2>1. /\ pc[r] = "idle" /\ pc'[r] = "upsert"
        /\ call'[r].op = "start"
        /\ UNCHANGED writer
    BY <1>1 DEF Start, Accept, Goto, RequestTypes, pipeVars
  <2> QED
    BY <2>1 DEF Durable, Acked
<1>2. CASE Heartbeat(r)
  <2>1. /\ pc[r] = "idle" /\ pc'[r] = "setcache"
        /\ call'[r].op = "heartbeat"
        /\ UNCHANGED writer
    BY <1>2 DEF Heartbeat, Accept, Goto, RequestTypes, pipeVars
  <2> QED
    BY <2>1 DEF Durable, Acked
<1>3. CASE GetCurrentPauseResume(r)
  <2>1. /\ pc[r] = "idle" /\ pc'[r] = "get"
        /\ call'[r].op \in {"current", "pause", "resume"}
        /\ UNCHANGED writer
    BY <1>3 DEF GetCurrentPauseResume, Accept, Goto, RequestTypes, pipeVars
  <2> QED
    BY <2>1 DEF Durable, Acked
<1>4. CASE RedisGet(r) \/ Select(r)
  <2>1. /\ pc[r] \in {"get", "select"}
        /\ UNCHANGED <<call, writer>>
    BY <1>4 DEF RedisGet, Select, pipeVars
  <2>2. \/ pc'[r] = "mutate"
        \/ pc'[r] = "select"
        \/ pc'[r] = "done" /\ call[r].op = "current"
        \/ pc'[r] = "done" /\ code'[r] \in {404, 500}
    BY <1>4 DEF RedisGet, Select, GetReturns, AnswerOK, Answer, Goto,
       RequestTypes
  <2> QED
    BY <2>1, <2>2 DEF Durable, Acked, SuccessCode, WriteThrough
<1>5. CASE Mutate(r)
  <2>1. /\ pc[r] = "mutate" /\ pc'[r] = "upsert"
        /\ UNCHANGED <<call, writer>>
    BY <1>5 DEF Mutate, Goto, RequestTypes, pipeVars
  <2> QED
    BY <2>1 DEF Durable, Acked
<1>6. CASE UpsertSession(r)
  <2>1. pc[r] = "upsert" /\ UNCHANGED <<call, sess, writer>>
    BY <1>6 DEF UpsertSession, pipeVars
  <2>2. CASE Answer(r, 500)
    <3>1. pc'[r] = "done" /\ code'[r] = 500
      BY <2>2 DEF Answer, RequestTypes
    <3> QED
      BY <2>1, <3>1 DEF Durable, Acked, SuccessCode
  <2>3. CASE Upsert(sess[r], FALSE) /\ Goto(r, "setcache")
    <3>1. pc'[r] = "setcache"
      BY <2>3 DEF Goto, RequestTypes
    <3>2. sess[r] \in stored'
      BY <2>3, UpsertGrows
    <3> QED
      BY <2>1, <3>1, <3>2 DEF Durable, Acked
  <2> QED
    BY <1>6, <2>2, <2>3 DEF UpsertSession
<1>7. CASE CacheSession(r)
  <2>1. /\ pc[r] = "setcache"
        /\ UNCHANGED <<call, sess, stored, writer>>
    BY <1>7 DEF CacheSession, pipeVars
  <2>2. \/ call[r].op = "heartbeat" /\ pc'[r] = "publish"
        \/ call[r].op # "heartbeat" /\ pc'[r] = "done"
    BY <1>7 DEF CacheSession, AnswerOK, Answer, Goto, RequestTypes
  <2> QED
    BY <2>1, <2>2 DEF Durable, Acked, WriteThrough
<1>8. CASE PublishHeartbeat(r)
  <2>1. /\ pc[r] = "publish" /\ call[r].op = "heartbeat"
        /\ UNCHANGED <<call, sess>>
    BY <1>8 DEF PublishHeartbeat, Durable
  <2>2. /\ writer'[r].state = "sending"
        /\ writer'[r].msg = sess[r]
    BY <1>8 DEF PublishHeartbeat, Publish, PipeTypes
  <2>3. pc'[r] = "await" \/ (Async /\ pc'[r] = "done")
    BY <1>8 DEF PublishHeartbeat, AnswerOK, Answer, Goto, RequestTypes
  <2> QED
    BY <2>1, <2>2, <2>3 DEF Durable, Acked, WriteThrough
<1>9. CASE PublishRefused(r) \/ AwaitPublish(r)
  <2>1. /\ pc[r] \in {"publish", "await"} /\ call[r].op = "heartbeat"
        /\ UNCHANGED <<call, sess, stored, topic, writer>>
    BY <1>9 DEF PublishRefused, AwaitPublish, Durable, repoVars, pipeVars
  <2>2. Logged(sess[r]) => Logged(sess[r])'
    BY <2>1 DEF Logged
  <2>3. \/ PublishOK(r) /\ pc[r] = "await" /\ pc'[r] = "done"
        \/ pc'[r] = "fallback"
    BY <1>9 DEF PublishRefused, AwaitPublish, AnswerOK, Answer, Goto,
                RequestTypes
  <2> QED
    BY <2>1, <2>2, <2>3 DEF Durable, Acked, WriteThrough, PublishOK
<1>10. CASE Fallback(r)
  <2>1. /\ pc[r] = "fallback" /\ call[r].op = "heartbeat"
        /\ UNCHANGED <<call, sess, topic, writer>>
    BY <1>10 DEF Fallback, Durable, pipeVars
  <2>2. Logged(sess[r]) => Logged(sess[r])'
    BY <2>1 DEF Logged
  <2>3. CASE Answer(r, 500)
    <3>1. pc'[r] = "done" /\ code'[r] = 500
      BY <2>3 DEF Answer, RequestTypes
    <3> QED
      BY <2>1, <2>2, <3>1 DEF Durable, Acked, SuccessCode
  <2>4. CASE Upsert(sess[r], FALSE) /\ AnswerOK(r)
    <3>1. pc'[r] = "done"
      BY <2>4 DEF AnswerOK, Answer, RequestTypes
    <3>2. sess[r] \in stored'
      BY <2>4, UpsertGrows
    <3> QED
      BY <2>1, <2>2, <3>1, <3>2 DEF Durable, Acked, WriteThrough
  <2> QED
    BY <1>10, <2>3, <2>4 DEF Fallback
<1>11. CASE WarmStep(r)
  <2>1. UNCHANGED <<pc, call, sess, code, writer>>
    BY <1>11 DEF WarmStep, WarmMarshal, WarmSet, pipeVars
  <2> QED
    BY <1>0, <2>1, DurableFrame
<1> QED
  BY <1>1, <1>2, <1>3, <1>4, <1>5, <1>6, <1>7, <1>8, <1>9, <1>10, <1>11
     DEF Arrival, RequestStep

(* A step of the Writer for request r, which r itself does not notice. *)
LEMMA WriterStepDurable ==
    ASSUME TypeInv, TypeInv', DurableInv, NEW r \in Requests, WriterStep(r),
           UNCHANGED reqVars
    PROVE  DurableInv'
<1> USE DEF TypeInv
<1>1. /\ writer[r] # Nil
      /\ writer[r] \in CleanBatch
      /\ writer[r].part \in Partitions
      /\ writer[r].msg \in Session
  BY DEF WriterStep, SendAcked, SendFailed, Sending, PipeTypes, CleanBatch
<1>2. UNCHANGED <<db, stored, pc, call, sess, code>>
  BY DEF WriterStep, SendAcked, SendFailed, repoVars, reqVars
<1>3. Growing
  <2>1. CASE AppendTo(writer[r].part, writer[r].msg)
    BY <1>1, <1>2, <2>1, AppendTypes DEF Growing
  <2>2. CASE UNCHANGED topic
    BY <1>2, <2>2, GrowingFrame
  <2> QED
    BY <2>1, <2>2 DEF WriterStep, SendAcked, SendFailed
<1>4. \A q \in Requests : q # r => writer'[q] = writer[q]
  BY DEF WriterStep, SendAcked, SendFailed, PipeTypes
<1>5. ASSUME NEW q \in Requests, q # r
      PROVE  Durable(q)'
  BY <1>2, <1>3, <1>4, <1>5, DurableFrame DEF DurableInv
<1>6. Durable(r)'
  <2>1. Durable(r)
    BY DEF DurableInv
  <2>2. writer'[r].msg = writer[r].msg
    BY <1>1 DEF WriterStep, SendAcked, SendFailed, PipeTypes, CleanBatch
  <2>3. writer'[r].state = "acked" => Logged(sess[r])'
    <3>1. CASE SendAcked(r)
      <4>1. AppendTo(writer[r].part, writer[r].msg)
        BY <3>1 DEF SendAcked
      <4>2. writer[r].msg = sess[r]
        BY <1>1, <2>1 DEF Durable
      <4>3. \E i \in 1 .. Len(topic'[writer[r].part]) :
                topic'[writer[r].part][i] = sess'[r]
        BY <1>1, <1>2, <4>1, <4>2, AppendTypes
      <4> QED
        BY <1>1, <4>3 DEF Logged
    <3>2. CASE SendFailed(r)
      <4>1. writer'[r].state # "acked"
        BY <1>1, <3>2 DEF SendFailed, Sending, PipeTypes, CleanBatch
      <4> QED
        BY <4>1
    <3> QED
      BY <3>1, <3>2 DEF WriterStep
  <2>4. Logged(sess[r]) => Logged(sess[r])'
    BY <1>2, <1>3, LoggedStays DEF Logged
  <2> QED
    BY <1>1, <1>2, <2>1, <2>2, <2>3, <2>4 DEF Durable, Acked
<1> QED
  BY <1>5, <1>6 DEF DurableInv

(* A step of the consumer, which no request notices. *)
LEMMA ConsumerStepDurable ==
    ASSUME TypeInv, TypeInv', DurableInv, ConsumerStep \/ Rebalance,
           UNCHANGED reqVars
    PROVE  DurableInv'
<1>1. UNCHANGED <<topic, writer, pc, call, sess, code>>
  BY DEF ConsumerStep, FetchMessage, Handle, CommitMessages, Rebalance, reqVars
<1>2. stored \subseteq stored'
  <2>1. CASE Handle
    <3>1. CASE UNCHANGED <<db, stored>>
      BY <3>1
    <3>2. CASE \E failed \in BOOLEAN :
                   Upsert(topic[consumer.part][consumer.off], failed)
      BY <3>2, UpsertGrows
    <3> QED
      BY <2>1, <3>1, <3>2 DEF Handle
  <2>2. CASE ~Handle
    BY <2>2 DEF ConsumerStep, FetchMessage, CommitMessages, Rebalance, repoVars
  <2> QED
    BY <2>1, <2>2
<1>3. Growing
  BY <1>1, <1>2, GrowingFrame DEF TypeInv
<1> QED
  BY <1>1, <1>3, DurableFrame DEF DurableInv, TypeInv

(* A crash answers nobody, and the Writer's batches are gone with it. *)
LEMMA CrashDurable ==
    ASSUME TypeInv, TypeInv', DurableInv, Crash
    PROVE  DurableInv'
<1> SUFFICES ASSUME NEW r \in Requests
             PROVE  Durable(r)'
  BY DEF DurableInv
<1>1. /\ writer' = [q \in Requests |-> Nil]
      /\ UNCHANGED <<topic, stored, call, sess, code>>
  BY DEF Crash, PipeCrash, repoVars
<1>2. pc'[r] = IF InFlight(r) THEN "lost" ELSE pc[r]
  BY DEF Crash
<1>3. pc'[r] = "lost" \/ (pc'[r] = pc[r] /\ pc[r] \in {"idle", "done", "lost"})
  BY <1>2 DEF InFlight
<1>4. Logged(sess[r]) => Logged(sess[r])'
  BY <1>1 DEF Logged
<1> QED
  BY <1>1, <1>3, <1>4 DEF DurableInv, Durable, Acked

(* Every step preserves what the acknowledged requests rely on. *)
LEMMA DurableInvStep ==
    ASSUME TypeInv, TypeInv', DurableInv, [Next]_vars
    PROVE  DurableInv'
<1>1. ASSUME NEW r \in Requests, Arrival(r) \/ RequestStep(r) \/ WarmStep(r)
      PROVE  DurableInv'
  <2>1. Growing
    BY <1>1, RequestGrows
  <2>2. ASSUME NEW q \in Requests
        PROVE  Durable(q)'
    <3>1. CASE q = r
      BY <1>1, <3>1, OwnStepDurable DEF DurableInv
    <3>2. CASE q # r
      BY <1>1, <2>1, <3>2, OnlyOwnRequest, DurableFrame DEF DurableInv, TypeInv
    <3> QED
      BY <3>1, <3>2
  <2> QED
    BY <2>2 DEF DurableInv
<1>2. CASE PipeStep
  <2>1. UNCHANGED reqVars
    BY <1>2 DEF PipeStep
  <2> QED
    BY <1>2, <2>1, WriterStepDurable, ConsumerStepDurable DEF PipeStep
<1>3. CASE Expiry \/ UNCHANGED vars
  <2>1. UNCHANGED <<topic, writer, stored, pc, call, sess, code>>
    BY <1>3 DEF Expiry, Expire, vars, repoVars, pipeVars, reqVars
  <2>2. Growing
    BY <2>1, GrowingFrame DEF TypeInv
  <2> QED
    BY <2>1, <2>2, DurableFrame DEF DurableInv, TypeInv
<1>4. CASE Crash
  BY <1>4, CrashDurable
<1> QED
  BY <1>1, <1>2, <1>3, <1>4 DEF Next

(***************************************************************************)
(* A success that Start, Pause, Resume or (with a synchronous Writer)      *)
(* Heartbeat reports is durable, whatever fails and however requests,      *)
(* consumer and crashes interleave.                                        *)
(***************************************************************************)
THEOREM AcknowledgedIsDurable == Spec => []AckDurable
<1>1. Init => DurableInv
  BY DEF Init, PipeInit, DurableInv, Durable, Acked
<1>2. DurableInv => AckDurable
  BY DEF DurableInv, Durable, AckDurable
<1>3. TypeInv /\ TypeInv' /\ DurableInv /\ [Next]_vars => DurableInv'
  BY DurableInvStep
<1> QED
  BY <1>1, <1>2, <1>3, TypeInvHolds, PTL DEF Spec
-----------------------------------------------------------------------------
(***************************************************************************)
(* Rows are replaced but never deleted: a user for whom a session was once *)
(* stored has a row.                                                       *)
(***************************************************************************)
RowsStay == \A s \in stored : db[s.user] # Nil

LEMMA UpsertKeepsRows ==
    ASSUME StoreTypes, RowsStay, NEW s \in Session, NEW failed \in BOOLEAN,
           Upsert(s, failed)
    PROVE  RowsStay'
<1>1. s # Nil /\ s.user \in Users
  BY ModelAssumption, SessionIsRaced DEF Session
<1>2. CASE UNCHANGED <<db, stored>>
  BY <1>2 DEF RowsStay
<1>3. CASE WriteRow(s)
  <2>1. \A x \in stored : x.user \in Users
    BY DEF StoreTypes, Session
  <2> QED
    BY <1>1, <1>3, <2>1 DEF WriteRow, RowsStay, StoreTypes
<1> QED
  BY <1>2, <1>3 DEF Upsert

LEMMA RowsStayStep ==
    ASSUME TypeInv, RowsStay, [Next]_vars
    PROVE  RowsStay'
<1> USE DEF TypeInv
<1>1. CASE UNCHANGED <<db, stored>>
  BY <1>1 DEF RowsStay
<1>2. ASSUME NEW r \in Requests, UpsertSession(r) \/ Fallback(r)
      PROVE  RowsStay'
  <2>1. sess[r] \in Session
    BY <1>2 DEF UpsertSession, Fallback, RequestTypes, Writing
  <2>2. PICK failed \in BOOLEAN : Upsert(sess[r], failed)
    BY <1>2 DEF UpsertSession, Fallback
  <2> QED
    BY <2>1, <2>2, UpsertKeepsRows
<1>3. CASE Handle
  <2>1. CASE topic[consumer.part][consumer.off] # Malformed
    <3>1. /\ consumer.part \in Partitions
          /\ consumer.off \in 1 .. Len(topic[consumer.part])
      BY <1>3 DEF Handle, PipeTypes, InHand
    <3>2. topic[consumer.part][consumer.off] \in Session
      BY <2>1, <3>1, MessageType
    <3>3. PICK failed \in BOOLEAN :
              Upsert(topic[consumer.part][consumer.off], failed)
      BY <1>3, <2>1 DEF Handle
    <3> QED
      BY <3>2, <3>3, UpsertKeepsRows
  <2>2. CASE topic[consumer.part][consumer.off] = Malformed
    BY <1>1, <1>3, <2>2 DEF Handle
  <2> QED
    BY <2>1, <2>2
<1>4. ASSUME NEW r \in Requests, Arrival(r) \/ RequestStep(r) \/ WarmStep(r),
             ~(UpsertSession(r) \/ Fallback(r))
      PROVE  UNCHANGED <<db, stored>>
  BY <1>4 DEF Arrival, Start, Heartbeat, GetCurrentPauseResume, RequestStep,
     RedisGet, Select, Mutate, CacheSession, PublishHeartbeat,
     PublishRefused, AwaitPublish,
     WarmStep, WarmMarshal, WarmSet, repoVars
<1>5. CASE PipeStep /\ ~Handle
  <2>1. UNCHANGED <<db, stored>>
    BY <1>5 DEF PipeStep, ConsumerStep, WriterStep, SendAcked, SendFailed,
       FetchMessage, CommitMessages, Rebalance, repoVars
  <2> QED
    BY <1>1, <2>1
<1>6. CASE Expiry \/ Crash \/ UNCHANGED vars
  BY <1>1, <1>6 DEF Expiry, Expire, Crash, vars, repoVars
<1> QED
  BY <1>1, <1>2, <1>3, <1>4, <1>5, <1>6 DEF Next

(* Only a SELECT without a row makes a 404. *)
LEMMA OnlySelectAnswers404 ==
    ASSUME TypeInv, [Next]_vars, NEW r \in Requests, code[r] = 0,
           code'[r] = 404
    PROVE  /\ call[r].user \in Users
           /\ db[call[r].user] = Nil
<1> USE DEF TypeInv
<1>1. PICK q \in Requests : Arrival(q) \/ RequestStep(q) \/ WarmStep(q)
  BY DEF Next, PipeStep, Expiry, Crash, vars, reqVars
<1>2. q = r
  BY <1>1, OnlyOwnRequest
<1>3. CASE Select(r)
  BY <1>3 DEF Select, GetReturns, AnswerOK, Answer, Goto, SuccessCode,
     RequestTypes, Calls
<1>4. CASE RedisGet(r) \/ CacheSession(r) \/ PublishHeartbeat(r)
  BY <1>4 DEF RedisGet, CacheSession, PublishHeartbeat, GetReturns,
     AnswerOK, Answer, Goto, SuccessCode, RequestTypes
<1>5. CASE UpsertSession(r) \/ PublishRefused(r) \/ AwaitPublish(r)
\/ Fallback(r)
  <2>1. \/ Answer(r, 500)
        \/ AnswerOK(r)
        \/ \E step \in Steps : Goto(r, step)
    BY <1>5 DEF UpsertSession, PublishRefused, AwaitPublish, Fallback, Steps
  <2> QED
    BY <2>1 DEF AnswerOK, Answer, Goto, SuccessCode, RequestTypes
<1>6. CASE Mutate(r) \/ Arrival(r) \/ WarmStep(r)
  BY <1>6 DEF Mutate, Arrival, Start, Heartbeat, GetCurrentPauseResume, Goto,
     WarmStep, WarmMarshal, WarmSet
<1> QED
  BY <1>1, <1>2, <1>3, <1>4, <1>5, <1>6 DEF RequestStep

(***************************************************************************)
(* No failure of Redis or PostgreSQL, no race and no crash makes the       *)
(* service answer 404 for a user who has a row.                            *)
(***************************************************************************)
THEOREM NotFoundTellsTheTruth == Spec => NotFoundIsTrue
<1>1. Init => RowsStay
  BY DEF Init, RepoInit, RowsStay
<1>2. TypeInv /\ RowsStay /\ [Next]_vars => RowsStay'
  BY RowsStayStep
<1>3. TypeInv /\ RowsStay /\ [Next]_vars =>
          [\A r \in Requests :
              code[r] = 0 /\ code'[r] = 404 =>
                  \A s \in stored : s.user # call[r].user]_vars
  BY OnlySelectAnswers404 DEF RowsStay
<1> QED
  BY <1>1, <1>2, <1>3, TypeInvHolds, PTL DEF Spec, NotFoundIsTrue
=============================================================================
