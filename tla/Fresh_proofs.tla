---------------------------- MODULE Fresh_proofs ----------------------------
(***************************************************************************)
(* StaleOnlyInDoubt for any instance and all failures.                     *)
(*                                                                         *)
(* The reason is that nobody reads the table of a user of whom nothing is  *)
(* in doubt: with a row there is an entry too, and without an entry there  *)
(* is no row.  So no warming goroutine is started for this user, the only  *)
(* one of all the writers of the cache that could put an old session over  *)
(* a new one, and the entry is the session of the user's last request that *)
(* has written one.  A disturbance breaks this, and a request that runs    *)
(* alone and writes the entry restores it.                                 *)
(***************************************************************************)
EXTENDS Freshness, Sessions_proofs

(* A request that has not read yet has neither a session nor an answer,    *)
(* and has started no goroutine; one that has not arrived calls nobody.    *)
Unread(r) ==
    /\ pc[r] \in {"idle", "get", "select"} =>
           sess[r] = Nil /\ code[r] = 0 /\ warm[r] = Nil
    /\ pc[r] = "idle" => call[r] = Nil

(* What is being written, or was, has a stamp of the clock. *)
Stamped(r) ==
    pc[r] \in Writing \/ Acked(r, Writes) =>
        sess[r] \in Session /\ sess[r].at <= clock

(* A warming goroutine writes the entry of the user it was started for. *)
WarmOwn(r) ==
    warm[r] # Nil /\ warm[r].call = "set" => warm[r].data.user = call[r].user

Base == \A r \in Requests : Unread(r) /\ Stamped(r) /\ WarmOwn(r)

NoWarming(u) == \A r \in Requests : OfUser(r, u) => warm[r] = Nil

(* What was missed stays missed until the request has looked for the row. *)
Missed(u) ==
    \A r \in Requests : OfUser(r, u) /\ pc[r] = "select" => cache[u] = Nil

RowCached(u) ==
    db[u] # Nil =>
        \/ cache[u] # Nil
        \/ \E r \in Requests : OfUser(r, u) /\ pc[r] = "setcache"

(* A heartbeat is cached before it is published. *)
PublishedCached(u) ==
    /\ \A r \in Requests :
           writer[r] # Nil /\ writer[r].msg.user = u => cache[u] # Nil
    /\ \A p \in Partitions : \A i \in 1 .. Len(topic[p]) :
           topic[p][i] # Malformed /\ topic[p][i].user = u => cache[u] # Nil

(* What is being written is newer than what has been acknowledged. *)
Newest(u) ==
    \A r, q \in Requests :
        /\ OfUser(r, u) /\ pc[r] \in Writing
        /\ OfUser(q, u) /\ Acked(q, Writes)
        => sess[q].at <= sess[r].at

(* A request that has written the cache, and may have been told so. *)
PastCache(r) ==
    pc[r] \in {"publish", "await", "fallback"} \/ Acked(r, Writes)

Shown(u) ==
    \A r \in Requests : OfUser(r, u) /\ PastCache(r) =>
        cache[u] # Nil /\ sess[r].at <= cache[u].at

(* The cache entry of user u is what the user has last written. *)
Settled(u) ==
    /\ ~Overlapping(u)
    /\ NoWarming(u)
    /\ Missed(u)
    /\ RowCached(u)
    /\ PublishedCached(u)
    /\ Newest(u)
    /\ Shown(u)

FreshInv == Base /\ \A u \in Users \ doubt : Settled(u)
-----------------------------------------------------------------------------
(* Facts about steps. *)

(* A request of somebody has left "idle". *)
LEMMA Calling ==
    ASSUME TypeInv, NEW r \in Requests, pc[r] # "idle"
    PROVE  call[r] \in Calls /\ call[r] # Nil /\ call[r].user \in Users
  BY ServiceAssumption DEF TypeInv, RequestTypes, Calls

LEMMA OthersWarm ==
    ASSUME TypeInv, NEW r \in Requests,
           Arrival(r) \/ RequestStep(r) \/ WarmStep(r),
           NEW q \in Requests, q # r
    PROVE  warm'[q] = warm[q]
<1> USE DEF TypeInv, RequestTypes
<1>1. CASE Arrival(r)
  BY <1>1 DEF Arrival, Start, Heartbeat, GetCurrentPauseResume
<1>2. CASE WarmStep(r)
  BY <1>2 DEF WarmStep, WarmMarshal, WarmSet
<1>3. CASE Mutate(r)
  BY <1>3 DEF Mutate
<1>4. CASE Select(r)
  <2>1. warm' = warm
            \/ warm' = [warm EXCEPT ![r] = [call |-> "marshal", data |-> Nil]]
    BY <1>4 DEF Select
  <2> QED
    BY <2>1
<1>5. CASE RequestStep(r) /\ ~Mutate(r) /\ ~Select(r)
  BY <1>5 DEF RequestStep, RedisGet, UpsertSession, CacheSession,
     PublishHeartbeat, PublishRefused, AwaitPublish, Fallback
<1> QED
  BY <1>1, <1>2, <1>3, <1>4, <1>5

(* A request that a step turns into an acknowledged one was writing, and   *)
(* past its SetCache or just at it.                                        *)
LEMMA BecomesAcked ==
    ASSUME TypeInv, NEW r \in Requests, Arrival(r) \/ RequestStep(r),
           Acked(r, Writes)'
    PROVE  /\ pc[r] \in {"setcache", "publish", "await", "fallback"}
           /\ UNCHANGED <<call, sess>>
<1> USE DEF TypeInv, RequestTypes, Writes, WriteThrough
<1>1. pc'[r] = "done" /\ call'[r].op \in Writes
      /\ code'[r] = SuccessCode(call'[r].op)
  BY DEF Acked
<1>2. ~Arrival(r)
  BY <1>1 DEF Arrival, Start, Heartbeat, GetCurrentPauseResume, Goto
<1>3. ~Mutate(r)
  BY <1>1 DEF Mutate, Goto
<1>4. ~RedisGet(r) /\ ~Select(r)
  <2>1. ASSUME NEW s, GetReturns(r, s), UNCHANGED call
        PROVE  FALSE
    BY <1>1, <2>1 DEF GetReturns, Goto
  <2>2. ASSUME NEW status \in {404, 500}, Answer(r, status)
        PROVE  FALSE
    BY <1>1, <2>2 DEF Answer, SuccessCode
  <2>3. ~Goto(r, "select")
    BY <1>1 DEF Goto
  <2>4. ~RedisGet(r)
    BY <2>1, <2>3 DEF RedisGet
  <2>5. ~Select(r)
    BY <2>1, <2>2 DEF Select
  <2> QED
    BY <2>4, <2>5
<1>5. ~UpsertSession(r)
  <2>1. ~Answer(r, 500) /\ ~Goto(r, "setcache")
    BY <1>1 DEF Answer, Goto, SuccessCode
  <2> QED
    BY <2>1 DEF UpsertSession
<1> QED
  BY <1>2, <1>3, <1>4, <1>5 DEF RequestStep, CacheSession, PublishHeartbeat,
     PublishRefused, AwaitPublish, Fallback

(* A step of a request that is in flight. *)
LEMMA InFlightStep ==
    ASSUME TypeInv, NEW r \in Requests, RequestStep(r)
    PROVE  InFlight(r) /\ UNCHANGED call
  BY DEF RequestStep, RedisGet, Select, Mutate, UpsertSession, CacheSession,
     PublishHeartbeat, PublishRefused, AwaitPublish, Fallback, InFlight

(* A request that arrives, and the session it may have built. *)
LEMMA Arriving ==
    ASSUME TypeInv, NEW r \in Requests, Arrival(r)
    PROVE  /\ pc[r] = "idle"
           /\ UNCHANGED <<repoVars, pipeVars, warm, code>>
           /\ \/ pc'[r] = "get" /\ UNCHANGED <<sess, clock>>
              \/ /\ pc'[r] \in {"upsert", "setcache"}
                 /\ sess'[r] \in Session
                 /\ sess'[r].at = clock + 1
                 /\ clock' = clock + 1
<1> USE DEF TypeInv, RequestTypes
<1>1. CASE GetCurrentPauseResume(r)
  BY <1>1 DEF GetCurrentPauseResume, Accept, Goto
<1>2. CASE Start(r)
  <2>1. PICK u \in Users, b \in Bodies :
            sess' = [sess EXCEPT ![r] = NewSession(u, b)]
    BY <1>2 DEF Start
  <2>2. sess'[r] = NewSession(u, b) /\ NewSession(u, b) \in Session
    BY <2>1, NewSessionType
  <2> QED
    BY <1>2, <2>2 DEF Start, Accept, Goto, NewSession
<1>3. CASE Heartbeat(r)
  <2>1. PICK u \in Users, b \in Bodies :
            sess' = [sess EXCEPT ![r] = NewSession(u, b)]
    BY <1>3 DEF Heartbeat
  <2>2. sess'[r] = NewSession(u, b) /\ NewSession(u, b) \in Session
    BY <2>1, NewSessionType
  <2> QED
    BY <1>3, <2>2 DEF Heartbeat, Accept, Goto, NewSession
<1> QED
  BY <1>1, <1>2, <1>3 DEF Arrival

(* What Pause and Resume make of the session they have read. *)
LEMMA Mutating ==
    ASSUME TypeInv, NEW r \in Requests, Mutate(r)
    PROVE  /\ pc[r] = "mutate" /\ pc'[r] = "upsert"
           /\ UNCHANGED <<repoVars, pipeVars, call, code>>
           /\ sess[r] \in RacedSession
           /\ sess'[r] = Mutated(r) /\ sess'[r] \in Session
           /\ sess'[r].at = clock + 1
           /\ clock' = clock + 1
<1> USE DEF TypeInv, RequestTypes
<1>1. pc[r] = "mutate" /\ sess[r] \in RacedSession /\ call[r] \in Calls
  BY DEF Mutate
<1>2. sess'[r] = Mutated(r)
  BY DEF Mutate
<1>3. Mutated(r) \in Session
  BY <1>1, MutatedType
<1>4. Mutated(r).at = clock + 1
  BY <1>1 DEF Mutated, RacedSession
<1> QED
  BY <1>1, <1>2, <1>3, <1>4 DEF Mutate, Goto
-----------------------------------------------------------------------------
(* Base is preserved. *)

LEMMA StampedKept ==
    ASSUME TypeInv, NEW q \in Requests, Stamped(q),
           clock' \in {clock, clock + 1}, sess'[q] = sess[q],
           pc'[q] \in Writing \/ Acked(q, Writes)' =>
               pc[q] \in Writing \/ Acked(q, Writes)
    PROVE  Stamped(q)'
<1>1. clock \in Nat
  BY DEF TypeInv, RequestTypes
<1>2. ASSUME pc[q] \in Writing \/ Acked(q, Writes)
      PROVE  sess[q] \in Session /\ sess[q].at <= clock'
  BY <1>1, <1>2 DEF Stamped, Session
<1> QED
  BY <1>2 DEF Stamped

LEMMA ClockTicks ==
    ASSUME NEW r \in Requests, Arrival(r) \/ RequestStep(r) \/ WarmStep(r)
    PROVE  clock' \in {clock, clock + 1}
  BY DEF Arrival, Start, Heartbeat, GetCurrentPauseResume, RequestStep,
     RedisGet, Select, Mutate, UpsertSession, CacheSession, PublishHeartbeat,
     PublishRefused, AwaitPublish, Fallback, WarmStep, WarmMarshal, WarmSet

LEMMA BaseOthers ==
    ASSUME TypeInv, Base, NEW r \in Requests,
           Arrival(r) \/ RequestStep(r) \/ WarmStep(r),
           NEW q \in Requests, q # r
    PROVE  Unread(q)' /\ Stamped(q)' /\ WarmOwn(q)'
<1>1. /\ pc'[q] = pc[q] /\ call'[q] = call[q] /\ sess'[q] = sess[q]
      /\ code'[q] = code[q] /\ warm'[q] = warm[q]
  BY OnlyOwnRequest, OthersWarm
<1>2. Acked(q, Writes)' <=> Acked(q, Writes)
  BY <1>1 DEF Acked
<1>3. Stamped(q)'
  BY <1>1, <1>2, ClockTicks, StampedKept DEF Base
<1> QED
  BY <1>1, <1>3 DEF Base, Unread, WarmOwn

(* A request that has arrived. *)
LEMMA BaseArrival ==
    ASSUME TypeInv, Base, NEW r \in Requests, Arrival(r)
    PROVE  Unread(r)' /\ Stamped(r)' /\ WarmOwn(r)'
<1>1. clock \in Nat
  BY DEF TypeInv, RequestTypes
<1>2. sess[r] = Nil /\ code[r] = 0 /\ warm[r] = Nil
  BY Arriving DEF Base, Unread
<1>3. Unread(r)' /\ WarmOwn(r)'
  BY <1>2, Arriving DEF Unread, WarmOwn
<1>4. ~Acked(r, Writes)'
  BY Arriving DEF Acked
<1>5. Stamped(r)'
  BY <1>1, <1>4, Arriving DEF Stamped, Writing
<1> QED
  BY <1>3, <1>5

(* Get: what is read is not written yet. *)
LEMMA BaseGet ==
    ASSUME TypeInv, Base, NEW r \in Requests, RedisGet(r) \/ Select(r)
    PROVE  Unread(r)' /\ Stamped(r)' /\ WarmOwn(r)'
<1> USE DEF TypeInv, RequestTypes
<1>0. RequestStep(r)
  BY DEF RequestStep
<1>1. pc[r] \in {"get", "select"}
  BY DEF RedisGet, Select
<1>2. sess[r] = Nil /\ code[r] = 0 /\ warm[r] = Nil
  BY <1>1 DEF Base, Unread
<1>3. ~Acked(r, Writes)'
  BY <1>0, <1>1, BecomesAcked
<1>4. \/ pc'[r] \in {"mutate", "done"}
      \/ /\ pc'[r] = "select"
         /\ UNCHANGED <<sess, code, warm>>
  <2>1. CASE RedisGet(r)
    BY <2>1 DEF RedisGet, GetReturns, AnswerOK, Answer, Goto
  <2>2. CASE Select(r)
    BY <2>2 DEF Select, GetReturns, AnswerOK, Answer, Goto
  <2> QED
    BY <2>1, <2>2
<1>5. warm'[r] = Nil \/ warm'[r].call = "marshal"
  <2>1. CASE RedisGet(r)
    BY <1>2, <2>1 DEF RedisGet
  <2>2. CASE Select(r)
    <3>1. warm' = warm
              \/ warm' = [warm EXCEPT ![r] = [call |-> "marshal", data |-> Nil]]
      BY <2>2 DEF Select
    <3> QED
      BY <1>2, <3>1
  <2> QED
    BY <2>1, <2>2
<1>6. Unread(r)'
  BY <1>2, <1>4 DEF Unread
<1>7. Stamped(r)'
  BY <1>3, <1>4 DEF Stamped, Writing
<1> QED
  BY <1>5, <1>6, <1>7 DEF WarmOwn

LEMMA BaseMutate ==
    ASSUME TypeInv, NoMixedSessions, Base, NEW r \in Requests, Mutate(r)
    PROVE  Unread(r)' /\ Stamped(r)' /\ WarmOwn(r)'
<1> USE DEF TypeInv, RequestTypes
<1>1. Unread(r)' /\ Stamped(r)'
  <2>1. clock \in Nat /\ ~Acked(r, Writes)'
    BY Mutating DEF Acked
  <2> QED
    BY <2>1, Mutating DEF Unread, Stamped
<1>2. sess[r].user = call[r].user
  BY Mutating, ModelAssumption DEF NoMixedSessions
<1>3. WarmOwn(r)'
  <2>1. CASE UNCHANGED warm
    BY <2>1, Mutating DEF Base, WarmOwn
  <2>2. CASE ~UNCHANGED warm
    <3>1. PICK s \in RacedReads(sess[r], Mutated(r)) :
              warm' = [warm EXCEPT ![r] = [call |-> "set", data |-> s]]
      BY <2>2 DEF Mutate
    <3>2. Mutated(r) \in RacedSession
      BY Mutating, SessionIsRaced
    <3>3. s.user = sess[r].user
      BY <3>1, <3>2, Mutating, RacedPlace DEF SamePlace
    <3>4. warm'[r].data = s
      BY <3>1
    <3> QED
      BY <1>2, <3>3, <3>4, Mutating DEF WarmOwn
  <2> QED
    BY <2>1, <2>2
<1> QED
  BY <1>1, <1>3

(* The other steps of a request leave its session and its goroutine alone. *)
LEMMA BaseWriting ==
    ASSUME TypeInv, Base, NEW r \in Requests, RequestStep(r),
           ~RedisGet(r), ~Select(r), ~Mutate(r)
    PROVE  Unread(r)' /\ Stamped(r)' /\ WarmOwn(r)'
<1>1. /\ pc[r] \in Writing
      /\ UNCHANGED <<call, sess, warm, clock>>
  BY DEF RequestStep, UpsertSession, CacheSession, PublishHeartbeat,
     PublishRefused, AwaitPublish, Fallback, Writing
<1>2. pc'[r] \notin {"idle", "get", "select"}
  <2>1. \/ \E s \in {"setcache", "publish", "await", "fallback"} : Goto(r, s)
        \/ \E c : Answer(r, c)
    BY DEF RequestStep, UpsertSession, CacheSession, PublishHeartbeat,
       PublishRefused, AwaitPublish, Fallback, AnswerOK
  <2>2. pc \in [Requests -> Steps]
    BY DEF TypeInv, RequestTypes
  <2> QED
    BY <2>1, <2>2 DEF Goto, Answer
<1>3. Unread(r)'
  BY <1>2 DEF Unread
<1>4. Stamped(r)'
  BY <1>1, StampedKept DEF Base
<1> QED
  BY <1>1, <1>3, <1>4 DEF Base, WarmOwn

LEMMA BaseWarm ==
    ASSUME TypeInv, NoMixedSessions, Base, NEW r \in Requests, WarmStep(r)
    PROVE  Unread(r)' /\ Stamped(r)' /\ WarmOwn(r)'
<1> USE DEF TypeInv, RequestTypes
<1>1. warm[r] # Nil /\ UNCHANGED <<call, pc, sess, code, clock>>
  BY DEF WarmStep, WarmMarshal, WarmSet
<1>2. Unread(r)'
  BY <1>1 DEF Base, Unread
<1>3. Stamped(r)'
  BY <1>1, StampedKept DEF Base, Acked
<1>4. sess[r].user = call[r].user
  BY <1>1, ModelAssumption DEF NoMixedSessions
<1>5. warm'[r] = Nil \/ warm'[r].data = sess[r]
  BY DEF WarmStep, WarmMarshal, WarmSet
<1> QED
  BY <1>1, <1>2, <1>3, <1>4, <1>5 DEF WarmOwn

LEMMA BaseStep ==
    ASSUME TypeInv, NoMixedSessions, Base, [Next]_vars
    PROVE  Base'
<1>1. ASSUME NEW r \in Requests, Arrival(r) \/ RequestStep(r) \/ WarmStep(r)
      PROVE  Base'
  <2>1. Unread(r)' /\ Stamped(r)' /\ WarmOwn(r)'
    BY <1>1, BaseArrival, BaseGet, BaseMutate, BaseWriting, BaseWarm
  <2> QED
    BY <1>1, <2>1, BaseOthers DEF Base
<1>2. CASE UNCHANGED reqVars
  BY <1>2 DEF reqVars, Base, Unread, Stamped, WarmOwn, Acked
<1>3. CASE Crash
  <2>1. /\ \A r \in Requests : /\ pc'[r] \in {pc[r], "lost"}
                               /\ warm'[r] = Nil
        /\ UNCHANGED <<call, sess, code, clock>>
    BY <1>3 DEF Crash, TypeInv, RequestTypes
  <2> QED
    BY <2>1 DEF Base, Unread, Stamped, WarmOwn, Acked, Writing
<1> QED
  BY <1>1, <1>2, <1>3 DEF Next, PipeStep, Expiry, vars
-----------------------------------------------------------------------------
(* What a step does to a user. *)

(* The requests of u are what they were; a goroutine may be gone. *)
SameRequests(u) ==
    \A q \in Requests :
        /\ OfUser(q, u)' <=> OfUser(q, u)
        /\ OfUser(q, u) =>
              /\ pc'[q] = pc[q] /\ call'[q] = call[q]
              /\ sess'[q] = sess[q] /\ code'[q] = code[q]
              /\ warm'[q] = warm[q]

(* A step that changes nothing of u but, perhaps, the row.  *)
LEMMA UserFrame ==
    ASSUME NEW u \in Users, Settled(u), SameRequests(u), cache'[u] = cache[u],
           db'[u] = db[u] \/ cache[u] # Nil, PublishedCached(u)'
    PROVE  Settled(u)'
<1> USE DEF Settled, SameRequests
<1>1. ~Overlapping(u)'
  BY DEF Overlapping, InFlight
<1>2. NoWarming(u)' /\ Missed(u)' /\ RowCached(u)'
  BY DEF NoWarming, Missed, RowCached
<1>3. \A q \in Requests : OfUser(q, u) =>
          /\ Acked(q, Writes)' <=> Acked(q, Writes)
          /\ PastCache(q)' <=> PastCache(q)
  BY DEF Acked, PastCache
<1>4. Newest(u)' /\ Shown(u)'
  BY <1>3 DEF Newest, Shown
<1> QED
  BY <1>1, <1>2, <1>4

(* The other requests of u are over, and have left no goroutine. *)
Alone(r, u) ==
    \A q \in Requests : q # r /\ OfUser(q, u) => ~InFlight(q) /\ warm[q] = Nil

(* What has to be seen of a step of the only request of u in flight. *)
Goes(r, u) ==
    /\ warm'[r] = Nil
    /\ pc'[r] = "select" => cache'[u] = Nil
    /\ db'[u] # Nil =>
           cache'[u] # Nil \/ (OfUser(r, u)' /\ pc'[r] = "setcache")
    /\ \A q \in Requests : q # r /\ OfUser(q, u) /\ Acked(q, Writes) =>
           /\ pc'[r] \in Writing => sess[q].at <= sess'[r].at
           /\ cache'[u] # Nil
           /\ sess[q].at <= cache'[u].at
    /\ PastCache(r)' => cache'[u] # Nil /\ sess'[r].at <= cache'[u].at

LEMMA OwnStep ==
    ASSUME TypeInv, NEW u \in Users, NEW r \in Requests,
           Arrival(r) \/ RequestStep(r), Alone(r, u),
           Goes(r, u), PublishedCached(u)'
    PROVE  Settled(u)'
<1>1. \A q \in Requests : q # r =>
          /\ pc'[q] = pc[q] /\ call'[q] = call[q] /\ sess'[q] = sess[q]
          /\ code'[q] = code[q] /\ warm'[q] = warm[q]
  BY OnlyOwnRequest, OthersWarm
<1>2. \A q \in Requests : q # r =>
          /\ OfUser(q, u)' <=> OfUser(q, u)
          /\ OfUser(q, u) => ~InFlight(q)' /\ warm'[q] = Nil
          /\ Acked(q, Writes)' <=> Acked(q, Writes)
  BY <1>1 DEF OfUser, Alone, InFlight, Acked
<1>3. ~Overlapping(u)' /\ NoWarming(u)' /\ RowCached(u)'
  BY <1>2 DEF Goes, Overlapping, NoWarming, RowCached
<1>4. Missed(u)'
  BY <1>2 DEF Goes, Missed, InFlight
<1>5. \A q \in Requests : q # r /\ OfUser(q, u) =>
          /\ pc'[q] \notin Writing
          /\ PastCache(q)' => Acked(q, Writes)
  BY <1>1, <1>2 DEF InFlight, Writing, PastCache
<1>6. Newest(u)'
  <2>1. ~(pc'[r] \in Writing /\ Acked(r, Writes)')
    BY DEF Acked, Writing
  <2> QED
    BY <1>1, <1>2, <1>5, <2>1 DEF Goes, Newest
<1>7. Shown(u)'
  BY <1>1, <1>2, <1>5 DEF Goes, Shown
<1> QED
  BY <1>3, <1>4, <1>6, <1>7 DEF Settled

(* With an entry nothing of what is published can be missing. *)
LEMMA EntryCovers ==
    ASSUME NEW u \in Users, cache'[u] # Nil
    PROVE  PublishedCached(u)'
  BY DEF PublishedCached

LEMMA NothingPublished ==
    ASSUME NEW u \in Users, PublishedCached(u), cache'[u] = cache[u],
           UNCHANGED <<topic, writer>>
    PROVE  PublishedCached(u)'
  BY DEF PublishedCached

(* A step of a request in flight finds the user's other requests over. *)
LEMMA AloneInFlight ==
    ASSUME NEW u \in Users, Settled(u), NEW r \in Requests, OfUser(r, u),
           InFlight(r)
    PROVE  Alone(r, u) /\ warm[r] = Nil
  BY DEF Settled, Overlapping, NoWarming, Alone

(* A row of u has an entry, unless r is about to write it. *)
LEMMA OwnRow ==
    ASSUME NEW u \in Users, Settled(u), NEW r \in Requests, Alone(r, u),
           pc[r] # "setcache"
    PROVE  db[u] # Nil => cache[u] # Nil
  BY DEF Settled, RowCached, Alone, InFlight

(* The entry of u has a number for a stamp, and so has a stamped request. *)
LEMMA Numbers ==
    ASSUME TypeInv, Base
    PROVE  /\ clock \in Nat
           /\ \A u \in Users : cache[u] # Nil => cache[u].at \in Nat
           /\ \A q \in Requests : pc[q] \in Writing \/ Acked(q, Writes) =>
                  sess[q].at \in Nat /\ sess[q].at <= clock
  BY DEF TypeInv, StoreTypes, RequestTypes, RacedSession, Base, Stamped, Session
-----------------------------------------------------------------------------
(* The steps of a request of u. *)

LEMMA ArrivalSettled ==
    ASSUME TypeInv, Base, NEW u \in Users, Settled(u), ~Overlapping(u)',
           NEW r \in Requests, Arrival(r), OfUser(r, u)'
    PROVE  Settled(u)'
<1>1. /\ pc[r] = "idle" /\ pc'[r] \in {"get", "upsert", "setcache"}
      /\ UNCHANGED <<db, cache, topic, writer, warm>>
  BY Arriving DEF repoVars, pipeVars
<1>2. Alone(r, u)
  <2>1. ASSUME NEW q \in Requests, q # r, OfUser(q, u)
        PROVE  ~InFlight(q) /\ warm[q] = Nil
    <3>1. pc'[q] = pc[q] /\ call'[q] = call[q]
      BY <2>1, OnlyOwnRequest
    <3>2. OfUser(q, u)' /\ InFlight(r)'
      BY <1>1, <2>1, <3>1 DEF OfUser, InFlight
    <3>3. ~InFlight(q)
      BY <2>1, <3>1, <3>2 DEF Overlapping, InFlight
    <3> QED
      BY <2>1, <3>3 DEF Settled, NoWarming
  <2> QED
    BY <2>1 DEF Alone
<1>3. warm'[r] = Nil /\ ~PastCache(r)' /\ pc'[r] # "select"
  BY <1>1 DEF Base, Unread, PastCache, Acked
<1>4. db[u] # Nil => cache[u] # Nil
  BY <1>1, <1>2, OwnRow
<1>5. PublishedCached(u)'
  BY <1>1, NothingPublished DEF Settled
<1>6. ASSUME NEW q \in Requests, q # r, OfUser(q, u), Acked(q, Writes)
      PROVE  /\ pc'[r] \in Writing => sess[q].at <= sess'[r].at
             /\ cache[u] # Nil
             /\ sess[q].at <= cache[u].at
  <2>1. pc'[r] \in Writing => sess'[r].at = clock + 1
    BY Arriving DEF Writing
  <2>2. sess[q].at \in Nat /\ sess[q].at <= clock /\ clock \in Nat
    BY <1>6, Numbers
  <2>3. cache[u] # Nil /\ sess[q].at <= cache[u].at
    BY <1>6 DEF Settled, Shown, PastCache
  <2> QED
    BY <2>1, <2>2, <2>3
<1>7. Goes(r, u)
  BY <1>1, <1>3, <1>4, <1>6 DEF Goes
<1> QED
  BY <1>2, <1>5, <1>7, OwnStep

(* A step that reads or changes a session, and leaves the stores alone. *)
LEMMA ReadingSettled ==
    ASSUME TypeInv, Base, NEW u \in Users, Settled(u), NEW r \in Requests,
           OfUser(r, u), RequestStep(r), pc[r] # "setcache",
           UNCHANGED <<db, cache, topic, writer>>,
           warm'[r] = Nil, ~Acked(r, Writes)',
           \/ pc'[r] = "done"
           \/ pc'[r] = "select" /\ cache[u] = Nil
           \/ pc'[r] = "mutate"
           \/ pc'[r] = "upsert" /\ sess'[r].at = clock + 1
    PROVE  Settled(u)'
<1>1. Alone(r, u)
  BY InFlightStep, AloneInFlight
<1>2. db[u] # Nil => cache[u] # Nil
  BY <1>1, OwnRow
<1>3. PublishedCached(u)'
  BY NothingPublished DEF Settled
<1>4. ~PastCache(r)'
  BY DEF PastCache
<1>5. ASSUME NEW q \in Requests, q # r, OfUser(q, u), Acked(q, Writes)
      PROVE  /\ pc'[r] \in Writing => sess[q].at <= sess'[r].at
             /\ cache[u] # Nil
             /\ sess[q].at <= cache[u].at
  <2>1. pc'[r] \in Writing => sess'[r].at = clock + 1
    BY DEF Writing
  <2>2. sess[q].at \in Nat /\ sess[q].at <= clock /\ clock \in Nat
    BY <1>5, Numbers
  <2>3. cache[u] # Nil /\ sess[q].at <= cache[u].at
    BY <1>5 DEF Settled, Shown, PastCache
  <2> QED
    BY <2>1, <2>2, <2>3
<1>6. Goes(r, u)
  BY <1>2, <1>4, <1>5 DEF Goes
<1> QED
  BY <1>1, <1>3, <1>6, OwnStep

LEMMA GetSettled ==
    ASSUME TypeInv, Base, NEW u \in Users, Settled(u), ~GetFailed(u),
           NEW r \in Requests, OfUser(r, u), RedisGet(r)
    PROVE  Settled(u)'
<1> USE DEF TypeInv, RequestTypes
<1>0. RequestStep(r)
  BY DEF RequestStep
<1>1. /\ pc[r] = "get"
      /\ UNCHANGED <<db, cache, topic, writer, warm>>
  BY DEF RedisGet, repoVars, pipeVars
<1>2. warm'[r] = Nil
  BY <1>1 DEF Base, Unread
<1>3. pc'[r] \in {"done", "mutate", "select"}
  BY DEF RedisGet, GetReturns, AnswerOK, Answer, Goto
<1>4. pc'[r] = "select" => cache[u] = Nil
  BY <1>1 DEF GetFailed
<1>5. ~Acked(r, Writes)'
  BY <1>0, <1>1, BecomesAcked
<1> QED
  BY <1>0, <1>1, <1>2, <1>3, <1>4, <1>5, ReadingSettled

(* A request that reaches the table finds no row. *)
LEMMA SelectSettled ==
    ASSUME TypeInv, Base, NEW u \in Users, Settled(u),
           NEW r \in Requests, OfUser(r, u), Select(r)
    PROVE  Settled(u)'
<1> USE DEF TypeInv, RequestTypes
<1>0. RequestStep(r)
  BY DEF RequestStep
<1>1. /\ pc[r] = "select"
      /\ UNCHANGED <<db, cache, topic, writer>>
  BY DEF Select, repoVars, pipeVars
<1>2. db[u] = Nil
  <2>1. cache[u] = Nil
    BY <1>1 DEF Settled, Missed
  <2> QED
    BY <1>0, <1>1, <2>1, InFlightStep, AloneInFlight, OwnRow
<1>3. pc'[r] = "done" /\ warm'[r] = warm[r]
  BY <1>2 DEF Select, Answer, OfUser
<1>4. warm'[r] = Nil
  BY <1>1, <1>3 DEF Base, Unread
<1>5. ~Acked(r, Writes)'
  BY <1>0, <1>1, BecomesAcked
<1> QED
  BY <1>0, <1>1, <1>3, <1>4, <1>5, ReadingSettled

LEMMA MutateSettled ==
    ASSUME TypeInv, Base, NEW u \in Users, Settled(u),
           NEW r \in Requests, OfUser(r, u), Mutate(r)
    PROVE  Settled(u)'
<1>0. RequestStep(r)
  BY DEF RequestStep
<1>1. /\ pc[r] = "mutate" /\ pc'[r] = "upsert" /\ sess'[r].at = clock + 1
      /\ UNCHANGED <<db, cache, topic, writer>>
  BY Mutating DEF repoVars, pipeVars
<1>2. warm[r] = Nil
  BY <1>0, InFlightStep, AloneInFlight
<1>3. warm'[r] = Nil
  BY <1>2 DEF Mutate
<1>4. ~Acked(r, Writes)'
  BY <1>1 DEF Acked
<1> QED
  BY <1>0, <1>1, <1>3, <1>4, ReadingSettled

(* The session that a request of u writes is one of u. *)
LEMMA OwnSession ==
    ASSUME TypeInv, NoMixedSessions, NEW r \in Requests, pc[r] \in Writing
    PROVE  sess[r] \in Session /\ sess[r].user = call[r].user
<1>1. sess[r] \in Session /\ sess[r] # Nil
  BY SessionIsRaced, ModelAssumption DEF TypeInv, RequestTypes
<1> QED
  BY <1>1 DEF NoMixedSessions

LEMMA UpsertSettled ==
    ASSUME TypeInv, Base, NEW u \in Users, Settled(u), ~Stranded(u),
           NEW r \in Requests, OfUser(r, u), UpsertSession(r)
    PROVE  Settled(u)'
<1> USE DEF TypeInv, RequestTypes
<1>0. RequestStep(r)
  BY DEF RequestStep
<1>1. /\ pc[r] = "upsert"
      /\ UNCHANGED <<cache, topic, writer, call, sess, warm>>
  BY DEF UpsertSession, pipeVars
<1>2. pc'[r] = "done" \/ pc'[r] = "setcache"
  <2>1. Answer(r, 500) \/ Goto(r, "setcache")
    BY DEF UpsertSession
  <2> QED
    BY <2>1 DEF Answer, Goto
<1>3. ~PastCache(r)'
  BY <1>0, <1>1, <1>2, BecomesAcked DEF PastCache
<1>4. Alone(r, u) /\ warm'[r] = Nil
  BY <1>0, <1>1, InFlightStep, AloneInFlight
<1>5. db'[u] # Nil => cache[u] # Nil \/ (OfUser(r, u)' /\ pc'[r] = "setcache")
  BY <1>1, <1>2 DEF Stranded, OfUser
<1>6. PublishedCached(u)'
  BY <1>1, NothingPublished DEF Settled
<1>7. \A q \in Requests : q # r /\ OfUser(q, u) /\ Acked(q, Writes) =>
          /\ sess[q].at <= sess[r].at
          /\ cache[u] # Nil
          /\ sess[q].at <= cache[u].at
  BY <1>1 DEF Settled, Newest, Shown, PastCache, Writing
<1>8. Goes(r, u)
  BY <1>1, <1>2, <1>3, <1>4, <1>5, <1>7 DEF Goes
<1> QED
  BY <1>0, <1>4, <1>6, <1>8, OwnStep

(* A SetCache that succeeds makes the session the entry. *)
LEMMA CacheStep ==
    ASSUME TypeInv, Base, NEW u \in Users, NEW r \in Requests, OfUser(r, u),
           Alone(r, u), warm[r] = Nil, CacheSession(r), cache'[u] = sess[r],
           \A q \in Requests : OfUser(q, u) /\ Acked(q, Writes) =>
               sess[q].at <= sess[r].at
    PROVE  Settled(u)'
<1> USE DEF TypeInv, RequestTypes
<1>0. RequestStep(r)
  BY DEF RequestStep
<1>1. pc[r] = "setcache" /\ UNCHANGED <<sess, warm>>
  BY DEF CacheSession
<1>2. pc'[r] \in {"publish", "done"}
  BY DEF CacheSession, AnswerOK, Answer, Goto
<1>3. sess[r] \in Session /\ sess[r] # Nil /\ sess[r].at \in Nat
  BY <1>1, SessionIsRaced, ModelAssumption DEF Writing, Session
<1>4. PublishedCached(u)'
  BY <1>3, EntryCovers
<1>5. Goes(r, u)
  BY <1>1, <1>2, <1>3 DEF Goes
<1> QED
  BY <1>0, <1>4, <1>5, OwnStep

LEMMA CacheSettled ==
    ASSUME TypeInv, Base, NEW u \in Users, Settled(u), ~SetCacheFailed(u),
           NEW r \in Requests, OfUser(r, u), CacheSession(r)
    PROVE  Settled(u)'
<1>0. RequestStep(r)
  BY DEF RequestStep
<1>1. pc[r] = "setcache" /\ pc'[r] \in {"publish", "done"}
  BY DEF CacheSession, AnswerOK, Answer, Goto, TypeInv, RequestTypes
<1>2. cache'[u] = sess[r]
  BY <1>1 DEF SetCacheFailed
<1>3. Alone(r, u) /\ warm[r] = Nil
  BY <1>0, InFlightStep, AloneInFlight
<1>4. \A q \in Requests : OfUser(q, u) /\ Acked(q, Writes) =>
          sess[q].at <= sess[r].at
  BY <1>1 DEF Settled, Newest, Writing
<1> QED
  BY <1>2, <1>3, <1>4, CacheStep

(* What is handed to the Writer, or written directly, is cached already. *)
LEMMA PublishSettled ==
    ASSUME TypeInv, Base, NEW u \in Users, Settled(u),
           NEW r \in Requests, OfUser(r, u),
           PublishHeartbeat(r) \/ PublishRefused(r) \/ AwaitPublish(r)
             \/ Fallback(r)
    PROVE  Settled(u)'
<1> USE DEF TypeInv, RequestTypes
<1>0. RequestStep(r)
  BY DEF RequestStep
<1>1. /\ pc[r] \in {"publish", "await", "fallback"}
      /\ UNCHANGED <<cache, sess, warm>>
  BY DEF PublishHeartbeat, PublishRefused, AwaitPublish, Fallback, repoVars
<1>2. pc'[r] \in {"await", "fallback", "done"}
  <2>1. \/ Goto(r, "await") \/ Goto(r, "fallback")
        \/ \E c : Answer(r, c)
    BY DEF PublishHeartbeat, PublishRefused, AwaitPublish, Fallback, AnswerOK
  <2> QED
    BY <2>1 DEF Goto, Answer
<1>3. cache[u] # Nil /\ sess[r].at <= cache[u].at
  BY <1>1 DEF Settled, Shown, PastCache
<1>4. Alone(r, u) /\ warm'[r] = Nil
  BY <1>0, <1>1, InFlightStep, AloneInFlight
<1>5. PublishedCached(u)'
  BY <1>1, <1>3, EntryCovers
<1>6. \A q \in Requests : q # r /\ OfUser(q, u) /\ Acked(q, Writes) =>
          /\ sess[q].at <= sess[r].at
          /\ sess[q].at <= cache[u].at
  BY <1>1 DEF Settled, Newest, Shown, PastCache, Writing
<1>7. Goes(r, u)
  BY <1>1, <1>2, <1>3, <1>4, <1>6 DEF Goes
<1> QED
  BY <1>0, <1>4, <1>5, <1>7, OwnStep
-----------------------------------------------------------------------------
(* The steps of others. *)

LEMMA WriteRowOf ==
    ASSUME TypeInv, NEW s, NEW failed \in BOOLEAN, Upsert(s, failed),
           NEW u \in Users, s.user # u
    PROVE  db'[u] = db[u]
  BY DEF Upsert, WriteRow, TypeInv, StoreTypes

(* A request that is not one of u. *)
LEMMA ForeignSettled ==
    ASSUME TypeInv, NoMixedSessions, Base, NEW u \in Users, Settled(u),
           NEW r \in Requests, Arrival(r) \/ RequestStep(r), ~OfUser(r, u)'
    PROVE  Settled(u)'
<1> USE DEF TypeInv, RequestTypes
<1>1. ~OfUser(r, u)
  <2>1. CASE Arrival(r)
    <3>1. call[r] = Nil
      BY <2>1, Arriving DEF Base, Unread
    <3> QED
      BY <3>1 DEF OfUser
  <2>2. CASE RequestStep(r)
    BY <2>2, InFlightStep DEF OfUser
  <2> QED
    BY <2>1, <2>2
<1>2. SameRequests(u)
  BY <1>1, OnlyOwnRequest, OthersWarm DEF SameRequests, OfUser
<1>3. RequestStep(r) => call[r].user # u
  BY <1>1, InFlightStep, Calling DEF OfUser, InFlight
<1>4. pc[r] \in Writing /\ RequestStep(r) =>
          sess[r] \in Session /\ sess[r].user # u
  BY <1>3, OwnSession
<1>5. db'[u] = db[u]
  <2>1. CASE UpsertSession(r) \/ Fallback(r)
    <3>1. PICK failed \in BOOLEAN : Upsert(sess[r], failed)
      BY <2>1 DEF UpsertSession, Fallback
    <3>2. RequestStep(r) /\ pc[r] \in Writing
      BY <2>1 DEF RequestStep, UpsertSession, Fallback, Writing
    <3> QED
      BY <1>4, <3>1, <3>2, WriteRowOf
  <2>2. CASE ~(UpsertSession(r) \/ Fallback(r))
    BY <2>2 DEF Arrival, Start, Heartbeat, GetCurrentPauseResume, RequestStep,
       RedisGet, Select, Mutate, CacheSession, PublishHeartbeat,
       PublishRefused, AwaitPublish, repoVars
  <2> QED
    BY <2>1, <2>2
<1>6. cache'[u] = cache[u]
  <2>1. CASE CacheSession(r)
    <3>1. SetCache(sess[r]) /\ RequestStep(r) /\ pc[r] \in Writing
      BY <2>1 DEF RequestStep, CacheSession, Writing
    <3> QED
      BY <1>4, <3>1 DEF SetCache, StoreTypes
  <2>2. CASE ~CacheSession(r)
    BY <2>2 DEF Arrival, Start, Heartbeat, GetCurrentPauseResume, RequestStep,
       RedisGet, Select, Mutate, UpsertSession, Fallback, PublishHeartbeat,
       PublishRefused, AwaitPublish, repoVars
  <2> QED
    BY <2>1, <2>2
<1>7. PublishedCached(u)'
  <2>1. UNCHANGED topic
    BY RequestGrows
  <2>2. \A q \in Requests : q # r => writer'[q] = writer[q]
    BY OnlyOwnRequest
  <2>3. writer'[r] = writer[r] \/ (writer'[r].msg = sess[r] /\ sess[r].user # u)
    <3>1. CASE PublishHeartbeat(r)
      <4>1. writer'[r].msg = sess[r]
        BY <3>1 DEF PublishHeartbeat, Publish, PipeTypes
      <4>2. RequestStep(r) /\ pc[r] \in Writing
        BY <3>1 DEF RequestStep, PublishHeartbeat, Writing
      <4> QED
        BY <1>4, <4>1, <4>2
    <3>2. CASE ~PublishHeartbeat(r)
      BY <3>2 DEF Arrival, Start, Heartbeat, GetCurrentPauseResume,
         RequestStep, RedisGet, Select, Mutate, UpsertSession, CacheSession,
         PublishRefused, AwaitPublish, Fallback, pipeVars
    <3> QED
      BY <3>1, <3>2
  <2> QED
    BY <1>6, <2>1, <2>2, <2>3 DEF Settled, PublishedCached
<1> QED
  BY <1>2, <1>5, <1>6, <1>7, UserFrame

(* A warming goroutine is one of another user. *)
LEMMA WarmSettled ==
    ASSUME TypeInv, NoMixedSessions, Base, NEW u \in Users, Settled(u),
           NEW r \in Requests, WarmStep(r)
    PROVE  Settled(u)'
<1>1. warm[r] # Nil
  BY DEF WarmStep, WarmMarshal, WarmSet
<1>2. call[r] # Nil /\ call[r].user # u /\ ~OfUser(r, u)
  <2>1. pc[r] # "idle"
    BY <1>1 DEF Base, Unread
  <2>2. ~OfUser(r, u)
    BY <1>1 DEF Settled, NoWarming
  <2> QED
    BY <2>1, <2>2, Calling DEF OfUser
<1>3. UNCHANGED <<db, topic, writer, call, pc, sess, code>>
  BY DEF WarmStep, WarmMarshal, WarmSet, repoVars, pipeVars
<1>4. SameRequests(u)
  BY <1>2, <1>3, OthersWarm DEF SameRequests, OfUser
<1>5. cache'[u] = cache[u]
  <2>1. CASE WarmMarshal(r)
    BY <2>1 DEF WarmMarshal, repoVars
  <2>2. CASE WarmSet(r)
    <3>1. SetCache(warm[r].data) /\ warm[r].data.user # u
      BY <1>1, <1>2, <2>2 DEF WarmSet, Base, WarmOwn
    <3> QED
      BY <3>1 DEF SetCache, TypeInv, StoreTypes
  <2> QED
    BY <2>1, <2>2 DEF WarmStep
<1>6. PublishedCached(u)'
  BY <1>3, <1>5, NothingPublished DEF Settled
<1> QED
  BY <1>3, <1>4, <1>5, <1>6, UserFrame
-----------------------------------------------------------------------------
(* The steps of the pipeline, expiry and crash. *)

LEMMA ReqVarsSame ==
    ASSUME UNCHANGED reqVars, NEW u \in Users
    PROVE  SameRequests(u)
  BY DEF reqVars, SameRequests, OfUser

(* A heartbeat that reaches the topic was with the Writer before. *)
LEMMA WriterSettled ==
    ASSUME TypeInv, NEW u \in Users, Settled(u), NEW r \in Requests,
           WriterStep(r), UNCHANGED reqVars
    PROVE  Settled(u)'
<1>0. UNCHANGED <<db, cache>>
  BY DEF WriterStep, SendAcked, SendFailed, repoVars
<1>1. writer \in [Requests -> CleanBatch \cup {Nil}] /\ writer[r] # Nil
  BY DEF TypeInv, PipeTypes, WriterStep, SendAcked, SendFailed, Sending
<1>2. writer[r].part \in Partitions /\ writer[r].msg \in Session
  BY <1>1 DEF CleanBatch
<1>3. \A q \in Requests :
          writer[q] # Nil /\ writer[q].msg.user = u => cache[u] # Nil
  BY DEF Settled, PublishedCached
<1>4. \A q \in Requests :
          writer'[q] # Nil /\ writer'[q].msg.user = u => cache[u] # Nil
  <2>1. \/ \E st : writer' = [writer EXCEPT ![r].state = st]
        \/ writer' = [writer EXCEPT ![r].tries = @ + 1]
    BY DEF WriterStep, SendAcked, SendFailed
  <2>2. /\ \A q \in Requests : q # r => writer'[q] = writer[q]
        /\ writer'[r].msg = writer[r].msg
    BY <1>1, <2>1 DEF CleanBatch
  <2> QED
    BY <1>1, <1>3, <2>2
<1>5. ASSUME NEW q \in Partitions, NEW i \in 1 .. Len(topic'[q]),
             topic'[q][i] # Malformed, topic'[q][i].user = u
      PROVE  cache[u] # Nil
  <2>1. CASE UNCHANGED topic
    BY <1>5, <2>1 DEF Settled, PublishedCached
  <2>2. CASE AppendTo(writer[r].part, writer[r].msg)
    <3> DEFINE p == writer[r].part
               m == writer[r].msg
               T == Session \cup {Malformed}
    <3>1. topic \in [Partitions -> Seq(T)] /\ m \in T /\ p \in Partitions
      BY <1>2 DEF TypeInv, PipeTypes
    <3>2. topic' = [topic EXCEPT ![p] = Append(topic[p], m)]
      BY <2>2 DEF AppendTo
    <3>3. m.user = u => cache[u] # Nil
      BY <1>1, <1>3
    <3> HIDE DEF p, m, T
    <3>4. \/ i \in 1 .. Len(topic[q]) /\ topic'[q][i] = topic[q][i]
          \/ topic'[q][i] = m
      <4>1. CASE q = p
        BY <1>5, <3>1, <3>2, <4>1
      <4>2. CASE q # p
        BY <1>5, <3>1, <3>2, <4>2
      <4> QED
        BY <4>1, <4>2
    <3> QED
      BY <1>5, <3>3, <3>4 DEF Settled, PublishedCached
  <2> QED
    BY <2>1, <2>2 DEF WriterStep, SendAcked, SendFailed
<1>6. PublishedCached(u)'
  BY <1>0, <1>4, <1>5 DEF PublishedCached
<1> QED
  BY <1>0, <1>6, ReqVarsSame, UserFrame

(* The consumer writes rows of users who have an entry only. *)
LEMMA HandleSettled ==
    ASSUME TypeInv, NEW u \in Users, Settled(u), Handle, UNCHANGED reqVars
    PROVE  Settled(u)'
<1> DEFINE m == topic[consumer.part][consumer.off]
<1>1. UNCHANGED <<cache, topic, writer>>
  BY DEF Handle
<1>2. db'[u] = db[u] \/ cache[u] # Nil
  <2>1. CASE m = Malformed
    BY <2>1 DEF Handle
  <2>2. CASE m # Malformed
    <3>1. consumer \in InHand /\ consumer.off \in 1 .. Len(topic[consumer.part])
      BY DEF Handle, TypeInv, PipeTypes
    <3>2. consumer.part \in Partitions
      BY <3>1 DEF InHand
    <3>3. m.user = u => cache[u] # Nil
      BY <2>2, <3>1, <3>2 DEF Settled, PublishedCached
    <3>4. PICK failed \in BOOLEAN : Upsert(m, failed)
      BY <2>2 DEF Handle
    <3> HIDE DEF m
    <3> QED
      BY <3>3, <3>4, WriteRowOf
  <2> QED
    BY <2>1, <2>2
<1>3. PublishedCached(u)'
  BY <1>1, NothingPublished DEF Settled
<1> QED
  BY <1>1, <1>2, <1>3, ReqVarsSame, UserFrame

LEMMA PipeSettled ==
    ASSUME TypeInv, NEW u \in Users, Settled(u), PipeStep
    PROVE  Settled(u)'
<1>1. UNCHANGED reqVars
  BY DEF PipeStep
<1>2. ASSUME NEW r \in Requests, WriterStep(r)
      PROVE  Settled(u)'
  BY <1>1, <1>2, WriterSettled
<1>3. CASE Handle
  BY <1>1, <1>3, HandleSettled
<1>4. CASE \/ FetchMessage \/ Rebalance
           \/ \E failed \in BOOLEAN : CommitMessages(failed)
  <2>1. UNCHANGED <<db, cache, topic, writer>>
    BY <1>4 DEF FetchMessage, Rebalance, CommitMessages, repoVars
  <2>2. PublishedCached(u)'
    BY <2>1, NothingPublished DEF Settled
  <2> QED
    BY <1>1, <2>1, <2>2, ReqVarsSame, UserFrame
<1> QED
  BY <1>2, <1>3, <1>4 DEF PipeStep, ConsumerStep

LEMMA ExpirySettled ==
    ASSUME TypeInv, NEW u \in Users, Settled(u), ~EntryDropped(u), Expiry
    PROVE  Settled(u)'
<1>1. UNCHANGED <<db, topic, writer, reqVars>>
  BY DEF Expiry, Expire, pipeVars
<1>2. cache'[u] = cache[u]
  BY DEF Expiry, Expire, EntryDropped, TypeInv, StoreTypes
<1>3. PublishedCached(u)'
  BY <1>1, <1>2, NothingPublished DEF Settled
<1> QED
  BY <1>1, <1>2, <1>3, ReqVarsSame, UserFrame

(* A crash leaves no request in flight.  A row without an entry would be   *)
(* one that a request of u has written whose entry is never written now.   *)
LEMMA CrashSettled ==
    ASSUME TypeInv, NEW u \in Users, Settled(u), ~Stranded(u), Crash
    PROVE  Settled(u)'
<1> USE DEF TypeInv, RequestTypes
<1>1. /\ UNCHANGED <<db, cache, topic, call, sess, code>>
      /\ \A q \in Requests : /\ pc'[q] = IF InFlight(q) THEN "lost" ELSE pc[q]
                             /\ warm'[q] = Nil
                             /\ writer'[q] = Nil
  BY DEF Crash, repoVars, PipeCrash
<1>2. \A q \in Requests : ~InFlight(q)'
  BY <1>1 DEF InFlight
<1>3. ~Overlapping(u)' /\ NoWarming(u)' /\ Missed(u)' /\ Newest(u)'
  BY <1>1, <1>2 DEF Overlapping, NoWarming, Missed, Newest, InFlight, Writing
<1>4. RowCached(u)'
  <2>1. ASSUME db[u] # Nil, cache[u] = Nil
        PROVE  FALSE
    <3>1. PICK r \in Requests : OfUser(r, u) /\ pc[r] = "setcache"
      BY <2>1 DEF Settled, RowCached
    <3>2. pc'[r] = "lost"
      BY <1>1, <3>1 DEF InFlight
    <3> QED
      BY <1>1, <2>1, <3>1, <3>2 DEF Stranded
  <2> QED
    BY <1>1, <2>1 DEF RowCached
<1>5. PublishedCached(u)'
  BY <1>1 DEF Settled, PublishedCached
<1>6. Shown(u)'
  <2>1. \A q \in Requests : /\ OfUser(q, u)' <=> OfUser(q, u)
                            /\ PastCache(q)' => PastCache(q)
    BY <1>1 DEF OfUser, PastCache, Acked, InFlight
  <2> QED
    BY <1>1, <2>1 DEF Settled, Shown
<1> QED
  BY <1>3, <1>4, <1>5, <1>6 DEF Settled
-----------------------------------------------------------------------------
(* Who is not in doubt is settled. *)

LEMMA UndisturbedSettled ==
    ASSUME TypeInv, NoMixedSessions, Base, NEW u \in Users, Settled(u),
           ~Disturbed(u), Next
    PROVE  Settled(u)'
<1>1. /\ ~EntryDropped(u) /\ ~GetFailed(u) /\ ~SetCacheFailed(u)
      /\ ~Stranded(u) /\ ~Overlapping(u)'
  BY DEF Disturbed
<1>2. ASSUME NEW r \in Requests, Arrival(r), OfUser(r, u)'
      PROVE  Settled(u)'
  BY <1>1, <1>2, ArrivalSettled
<1>3. ASSUME NEW r \in Requests, RequestStep(r), OfUser(r, u)'
      PROVE  Settled(u)'
  <2>1. OfUser(r, u)
    BY <1>3, InFlightStep DEF OfUser
  <2> QED
    BY <1>1, <1>3, <2>1, GetSettled, SelectSettled, MutateSettled,
       UpsertSettled, CacheSettled, PublishSettled DEF RequestStep
<1>4. ASSUME NEW r \in Requests, Arrival(r) \/ RequestStep(r), ~OfUser(r, u)'
      PROVE  Settled(u)'
  BY <1>4, ForeignSettled
<1> QED
  BY <1>1, <1>2, <1>3, <1>4, WarmSettled, PipeSettled, ExpirySettled,
     CrashSettled DEF Next

(* A recovery settles, whatever was before. *)
LEMMA RecoveredSettled ==
    ASSUME TypeInv, Base, NEW u \in Users, Recovered(u), Next
    PROVE  Settled(u)'
<1> USE DEF TypeInv, RequestTypes
<1>1. PICK r \in Requests :
          /\ OfUser(r, u)
          /\ pc[r] = "setcache"
          /\ pc'[r] \notin {"setcache", "lost"}
          /\ cache'[u] = sess[r]
          /\ \A q \in Requests : OfUser(q, u) =>
                /\ warm[q] = Nil
                /\ q # r => ~InFlight(q)
                /\ Acked(q, Writes) => sess[q].at <= sess[r].at
  BY DEF Recovered
<1>2. PICK x \in Requests : Arrival(x) \/ RequestStep(x)
  <2>1. ~Crash
    BY <1>1 DEF Crash, InFlight
  <2>2. ~PipeStep /\ ~Expiry
    BY <1>1 DEF PipeStep, Expiry, reqVars
  <2>3. \A q \in Requests : ~WarmStep(q)
    BY <1>1 DEF WarmStep, WarmMarshal, WarmSet
  <2> QED
    BY <2>1, <2>2, <2>3 DEF Next
<1>3. x = r
  BY <1>1, <1>2, OnlyOwnRequest
<1>4. CacheSession(r)
  BY <1>1, <1>2, <1>3, Arriving DEF RequestStep, RedisGet, Select, Mutate,
     UpsertSession, PublishHeartbeat, PublishRefused, AwaitPublish, Fallback
<1>5. Alone(r, u) /\ warm[r] = Nil
  BY <1>1 DEF Alone
<1> QED
  BY <1>1, <1>4, <1>5, CacheStep

LEMMA FreshInvStep ==
    ASSUME TypeInv, NoMixedSessions, FreshInv, [FreshNext]_fvars
    PROVE  FreshInv'
<1>1. [Next]_vars
  BY DEF FreshNext, fvars
<1>2. Base'
  BY <1>1, BaseStep DEF FreshInv
<1>3. CASE UNCHANGED fvars
  <2>1. UNCHANGED <<db, cache, topic, writer, reqVars, doubt>>
    BY <1>3 DEF fvars, vars, repoVars, pipeVars
  <2>2. ASSUME NEW u \in Users \ doubt'
        PROVE  Settled(u)'
    <3>1. Settled(u)
      BY <2>1, <2>2 DEF FreshInv
    <3>2. PublishedCached(u)'
      BY <2>1, <3>1, NothingPublished DEF Settled
    <3> QED
      BY <2>1, <3>1, <3>2, ReqVarsSame, UserFrame
  <2> QED
    BY <1>2, <2>2 DEF FreshInv
<1>4. CASE FreshNext
  <2>1. ASSUME NEW u \in Users \ doubt'
        PROVE  Settled(u)'
    <3>1. Recovered(u) \/ (u \notin doubt /\ ~Disturbed(u))
      BY <1>4, <2>1 DEF FreshNext
    <3>2. CASE Recovered(u)
      BY <1>4, <3>2, RecoveredSettled DEF FreshInv, FreshNext
    <3>3. CASE u \notin doubt /\ ~Disturbed(u)
      BY <1>4, <3>3, UndisturbedSettled DEF FreshInv, FreshNext
    <3> QED
      BY <3>1, <3>2, <3>3
  <2> QED
    BY <1>2, <2>1 DEF FreshInv
<1> QED
  BY <1>3, <1>4

LEMMA FreshInvInit == FreshInit => FreshInv
<1> SUFFICES ASSUME FreshInit
             PROVE  FreshInv
  OBVIOUS
<1>1. /\ \A r \in Requests : pc[r] = "idle" /\ sess[r] = Nil /\ code[r] = 0
                             /\ warm[r] = Nil /\ writer[r] = Nil /\ call[r] = Nil
      /\ \A u \in Users : db[u] = Nil
  BY DEF FreshInit, Init, RepoInit, PipeInit
<1>2. Base
  BY <1>1 DEF Base, Unread, Stamped, WarmOwn, Writing, Acked
<1>3. \A r \in Requests, u \in Users : ~OfUser(r, u)
  BY <1>1 DEF OfUser
<1>4. ASSUME NEW u \in Users
      PROVE  Settled(u)
  <2>1. ~Overlapping(u) /\ NoWarming(u) /\ Missed(u) /\ RowCached(u)
        /\ Newest(u) /\ Shown(u)
    BY <1>1, <1>3 DEF Overlapping, NoWarming, Missed, RowCached, Newest, Shown
  <2>2. \A p \in Partitions : topic[p] = <<>> \/ topic[p] = <<Malformed>>
    BY DEF FreshInit, Init, PipeInit
  <2>3. \A p \in Partitions : \A i \in 1 .. Len(topic[p]) :
            topic[p][i] = Malformed
    BY <2>2
  <2> QED
    BY <1>1, <2>1, <2>3 DEF Settled, PublishedCached
<1> QED
  BY <1>2, <1>4 DEF FreshInv
-----------------------------------------------------------------------------
(* The theorem. *)

(* What a request reads is not older than what has been acknowledged. *)
LEMMA FreshStep ==
    ASSUME TypeInv, FreshInv, [FreshNext]_fvars,
           NEW r \in Requests, NEW q \in Requests,
           pc[r] \in {"get", "select"}, call[r].user \notin doubt,
           Acked(q, Writes), call[q].user = call[r].user
    PROVE  /\ sess'[r] # Nil => sess'[r].at >= sess[q].at
           /\ code'[r] # 404
<1> DEFINE u == call[r].user
<1>1. sess[r] = Nil /\ code[r] = 0
  BY DEF FreshInv, Base, Unread
<1>2. u \in Users /\ OfUser(r, u) /\ OfUser(q, u)
  BY Calling DEF OfUser, Acked
<1>3. Settled(u)
  BY <1>2 DEF FreshInv
<1>4. cache[u] # Nil /\ sess[q].at <= cache[u].at
  BY <1>2, <1>3 DEF Settled, Shown, PastCache
<1>5. sess[q].at \in Nat /\ cache[u].at \in Nat
  BY <1>2, <1>4, Numbers DEF FreshInv
<1>6. pc[r] = "get"
  BY <1>2, <1>3, <1>4 DEF Settled, Missed
<1>7. CASE RedisGet(r)
  <2>1. CASE GetReturns(r, cache[u])
    <3>1. sess'[r] = cache[u]
      BY <2>1 DEF GetReturns, TypeInv, RequestTypes
    <3>2. code'[r] # 404
      BY <1>1, <2>1 DEF GetReturns, AnswerOK, Answer, Goto, SuccessCode,
         TypeInv, RequestTypes
    <3> QED
      BY <1>4, <1>5, <3>1, <3>2
  <2>2. CASE Goto(r, "select") /\ UNCHANGED sess
    BY <1>1, <2>2 DEF Goto
  <2> QED
    BY <1>7, <2>1, <2>2 DEF RedisGet
<1>8. ~Arrival(r)
  BY <1>6, Arriving
<1>9. RequestStep(r) => RedisGet(r)
  BY <1>6 DEF RequestStep, Select, Mutate, UpsertSession, CacheSession,
     PublishHeartbeat, PublishRefused, AwaitPublish, Fallback
<1>10. ASSUME NEW x \in Requests, x # r,
              Arrival(x) \/ RequestStep(x) \/ WarmStep(x)
       PROVE  sess'[r] = sess[r] /\ code'[r] = code[r]
  BY <1>10, OnlyOwnRequest
<1>11. ASSUME WarmStep(r) \/ PipeStep \/ Expiry \/ Crash \/ UNCHANGED vars
       PROVE  sess'[r] = sess[r] /\ code'[r] = code[r]
  <2>1. UNCHANGED <<sess, code>>
    BY <1>11 DEF WarmStep, WarmMarshal, WarmSet, PipeStep, Expiry, Crash, vars,
       reqVars
  <2> QED
    BY <2>1
<1>12. [Next]_vars
  BY DEF FreshNext, fvars
<1> QED
  BY <1>1, <1>7, <1>8, <1>9, <1>10, <1>11, <1>12 DEF Next

LEMMA FreshSpecIsSpec == FreshSpec => Spec
<1>1. FreshInit => Init
  BY DEF FreshInit
<1>2. [FreshNext]_fvars => [Next]_vars
  BY DEF FreshNext, fvars
<1> QED
  BY <1>1, <1>2, PTL DEF FreshSpec, Spec

(***************************************************************************)
(* "GetCurrent returns the most recent session state" (service.go:56), for *)
(* every number of users, requests and partitions and whatever fails: to   *)
(* every user except those whose entry was dropped, missed, not written or *)
(* left out, or who used two devices at once - and to those again from     *)
(* their next undisturbed write on.  No hypothesis is made.                *)
(***************************************************************************)
THEOREM ReadsAreFresh == FreshSpec => StaleOnlyInDoubt
<1>1. FreshInit => FreshInv
  BY FreshInvInit
<1>2. TypeInv /\ NoMixedSessions /\ FreshInv /\ [FreshNext]_fvars => FreshInv'
  BY FreshInvStep
<1> DEFINE Fresh ==
        \A r, q \in Requests :
            /\ pc[r] \in {"get", "select"}
            /\ call[r].user \notin doubt
            /\ Acked(q, Writes)
            /\ call[q].user = call[r].user
            => /\ sess'[r] # Nil => sess'[r].at >= sess[q].at
               /\ code'[r] # 404
<1>3. TypeInv /\ FreshInv /\ [FreshNext]_fvars => [Fresh]_fvars
  BY FreshStep
<1> HIDE DEF Fresh
<1>4. FreshSpec => [][Fresh]_fvars
  BY <1>1, <1>2, <1>3, TypeInvHolds, SessionsAreNotMixed, FreshSpecIsSpec, PTL
     DEF FreshSpec
<1> QED
  BY <1>4 DEF StaleOnlyInDoubt, Fresh
=============================================================================
