--------------------------- MODULE Sessions_proofs ---------------------------
(***************************************************************************)
(* What the sessions are that the service keeps: NoMixedSessions for any   *)
(* instance, and CommittedIsStored for a table that accepts what it is     *)
(* given.                                                                  *)
(*                                                                         *)
(* A place is sent by a request of Start or Heartbeat, which builds its    *)
(* session once and never changes it: only Get and what follows it assign  *)
(* a session, and neither operation calls Get.  So a place that has a      *)
(* source keeps it, and it remains to see that each step copies sessions   *)
(* as a whole, or changes other fields than the user and the place.        *)
(***************************************************************************)
EXTENDS PlaybackService_proofs

(* Request q has sent a place. *)
Source(q) == call[q] # Nil /\ call[q].op \in {"start", "heartbeat"}

(* The place of s has a source in the next state. *)
SourcedNext(s) ==
    \E q \in Requests : /\ call'[q] # Nil
                        /\ call'[q].op \in {"start", "heartbeat"}
                        /\ SamePlace(s, sess'[q])

(* What table, cache, topic, Writer and goroutines hold has a source. *)
DbOrigin == \A u \in Users : db[u] # Nil => db[u].user = u /\ Sourced(db[u])
CacheOrigin ==
    \A u \in Users : cache[u] # Nil => cache[u].user = u /\ Sourced(cache[u])
TopicOrigin ==
    \A p \in Partitions : \A i \in 1 .. Len(topic[p]) :
        topic[p][i] # Malformed => Sourced(topic[p][i])
WriterOrigin == \A r \in Requests : writer[r] # Nil => Sourced(writer[r].msg)
WarmOrigin ==
    \A r \in Requests :
        warm[r] # Nil /\ warm[r].call = "set" => Sourced(warm[r].data)
SessOrigin ==
    \A r \in Requests :
        sess[r] # Nil => sess[r].user = call[r].user /\ Sourced(sess[r])

(* A request that has sent a place is past the steps that assign one. *)
SourcesFixed ==
    \A r \in Requests :
        /\ pc[r] = "idle" => call[r] = Nil /\ sess[r] = Nil
        /\ Source(r) => pc[r] \notin {"idle", "get", "select", "mutate"}

OriginInv ==
    /\ DbOrigin /\ CacheOrigin /\ TopicOrigin
    /\ WriterOrigin /\ WarmOrigin /\ SessOrigin
    /\ SourcesFixed
-----------------------------------------------------------------------------
(* Sources stay. *)

(* A step assigns the session only of a request that is no source. *)
LEMMA SourceKept ==
    ASSUME TypeInv, SourcesFixed, [Next]_vars, NEW q \in Requests, Source(q)
    PROVE  call'[q] = call[q] /\ sess'[q] = sess[q]
<1> USE DEF TypeInv, RequestTypes
<1>1. pc[q] \notin {"idle", "get", "select", "mutate"}
  BY DEF SourcesFixed
<1>2. ASSUME NEW r \in Requests, Arrival(r) \/ RequestStep(r) \/ WarmStep(r)
      PROVE  call'[q] = call[q] /\ sess'[q] = sess[q]
  <2>1. CASE r # q
    BY <1>2, <2>1, OnlyOwnRequest
  <2>2. CASE r = q
    <3>1. ~Arrival(q) /\ ~RedisGet(q) /\ ~Select(q) /\ ~Mutate(q)
      BY <1>1 DEF Arrival, Start, Heartbeat, GetCurrentPauseResume, Accept,
                  RedisGet, Select, Mutate
    <3> QED
      BY <1>2, <2>2, <3>1 DEF RequestStep, UpsertSession, CacheSession,
         PublishHeartbeat, PublishRefused, AwaitPublish, Fallback, WarmStep,
         WarmMarshal, WarmSet
  <2> QED
    BY <2>1, <2>2
<1>3. CASE PipeStep \/ Expiry \/ Crash \/ UNCHANGED vars
  BY <1>3 DEF PipeStep, Expiry, Crash, reqVars, vars
<1> QED
  BY <1>2, <1>3 DEF Next

LEMMA SourcedStays ==
    ASSUME TypeInv, SourcesFixed, [Next]_vars, NEW s, Sourced(s)
    PROVE  SourcedNext(s)
<1>1. PICK q \in Requests : Source(q) /\ SamePlace(s, sess[q])
  BY DEF Sourced, Source
<1>2. call'[q] = call[q] /\ sess'[q] = sess[q]
  BY <1>1, SourceKept
<1> QED
  BY <1>1, <1>2 DEF SourcedNext, Source

(* The same place has the same source. *)
LEMMA SourcedPlace ==
    ASSUME NEW s, NEW t, SamePlace(s, t), SourcedNext(t)
    PROVE  SourcedNext(s)
BY DEF SourcedNext, SamePlace
-----------------------------------------------------------------------------
(* What each kind of step does to what is kept. *)

(* The parts of OriginInv in the next state, in terms of SourcedNext. *)
LEMMA Primed ==
    /\ DbOrigin' <=> \A u \in Users :
           db'[u] # Nil => db'[u].user = u /\ SourcedNext(db'[u])
    /\ CacheOrigin' <=> \A u \in Users :
           cache'[u] # Nil => cache'[u].user = u /\ SourcedNext(cache'[u])
    /\ TopicOrigin' <=> \A p \in Partitions : \A i \in 1 .. Len(topic'[p]) :
           topic'[p][i] # Malformed => SourcedNext(topic'[p][i])
    /\ WriterOrigin' <=> \A r \in Requests :
           writer'[r] # Nil => SourcedNext(writer'[r].msg)
    /\ WarmOrigin' <=> \A r \in Requests :
           warm'[r] # Nil /\ warm'[r].call = "set" => SourcedNext(warm'[r].data)
    /\ SessOrigin' <=> \A r \in Requests : sess'[r] # Nil =>
           sess'[r].user = call'[r].user /\ SourcedNext(sess'[r])
  BY DEF DbOrigin, CacheOrigin, TopicOrigin, WriterOrigin, WarmOrigin,
         SessOrigin, Sourced, SourcedNext

(* What a step leaves alone keeps its origin. *)
LEMMA OriginFrame ==
    ASSUME TypeInv, OriginInv, [Next]_vars
    PROVE  /\ UNCHANGED db => DbOrigin'
           /\ UNCHANGED cache => CacheOrigin'
           /\ UNCHANGED topic => TopicOrigin'
           /\ UNCHANGED writer => WriterOrigin'
           /\ UNCHANGED warm => WarmOrigin'
           /\ UNCHANGED <<call, sess>> => SessOrigin'
<1>1. \A s : Sourced(s) => SourcedNext(s)
  BY SourcedStays DEF OriginInv
<1>2. UNCHANGED db => DbOrigin'
  BY <1>1, Primed DEF OriginInv, DbOrigin
<1>3. UNCHANGED cache => CacheOrigin'
  BY <1>1, Primed DEF OriginInv, CacheOrigin
<1>4. UNCHANGED topic => TopicOrigin'
  BY <1>1, Primed DEF OriginInv, TopicOrigin
<1>5. UNCHANGED writer => WriterOrigin'
  BY <1>1, Primed DEF OriginInv, WriterOrigin
<1>6. UNCHANGED warm => WarmOrigin'
  BY <1>1, Primed DEF OriginInv, WarmOrigin
<1>7. UNCHANGED <<call, sess>> => SessOrigin'
  BY <1>1, Primed DEF OriginInv, SessOrigin
<1> QED
  BY <1>2, <1>3, <1>4, <1>5, <1>6, <1>7

(* Upsert puts its argument into the row of its user. *)
LEMMA UpsertOrigin ==
    ASSUME TypeInv, OriginInv, [Next]_vars, NEW s \in Session,
           NEW failed \in BOOLEAN, Upsert(s, failed), Sourced(s)
    PROVE  DbOrigin'
<1>1. SourcedNext(s)
  BY SourcedStays DEF OriginInv
<1>2. \A u \in Users : db[u] # Nil => db[u].user = u /\ SourcedNext(db[u])
  BY SourcedStays DEF OriginInv, DbOrigin
<1>3. s.user \in Users /\ db \in [Users -> Session \cup {Nil}]
  BY DEF TypeInv, StoreTypes, Session
<1>4. UNCHANGED db \/ db' = [db EXCEPT ![s.user] = s]
  BY DEF Upsert, WriteRow
<1>5. ASSUME NEW u \in Users, db'[u] # Nil
      PROVE  db'[u].user = u /\ SourcedNext(db'[u])
  <2>1. db'[u] = db[u] \/ (u = s.user /\ db'[u] = s)
    BY <1>3, <1>4
  <2> QED
    BY <1>1, <1>2, <1>5, <2>1
<1> QED
  BY <1>5, Primed

(* SetCache puts its argument into the entry of its user. *)
LEMMA SetCacheOrigin ==
    ASSUME TypeInv, OriginInv, [Next]_vars, NEW s \in RacedSession,
           SetCache(s), Sourced(s)
    PROVE  CacheOrigin'
<1>1. SourcedNext(s)
  BY SourcedStays DEF OriginInv
<1>2. \A u \in Users : cache[u] # Nil => cache[u].user = u /\ SourcedNext(cache[u])
  BY SourcedStays DEF OriginInv, CacheOrigin
<1>3. s.user \in Users /\ cache \in [Users -> RacedSession \cup {Nil}]
  BY DEF TypeInv, StoreTypes, RacedSession
<1>4. UNCHANGED cache \/ cache' = [cache EXCEPT ![s.user] = s]
  BY DEF SetCache
<1>5. ASSUME NEW u \in Users, cache'[u] # Nil
      PROVE  cache'[u].user = u /\ SourcedNext(cache'[u])
  <2>1. cache'[u] = cache[u] \/ (u = s.user /\ cache'[u] = s)
    BY <1>3, <1>4
  <2> QED
    BY <1>1, <1>2, <1>5, <2>1
<1> QED
  BY <1>5, Primed

(* A request that is given session s, of its user and with a source. *)
LEMMA AssignOrigin ==
    ASSUME TypeInv, OriginInv, [Next]_vars, NEW r \in Requests, NEW s,
           sess' = [sess EXCEPT ![r] = s], SourcedNext(s),
           s.user = call'[r].user,
           \A q \in Requests : q # r => call'[q] = call[q]
    PROVE  SessOrigin'
<1>1. \A q \in Requests :
          sess[q] # Nil => sess[q].user = call[q].user /\ SourcedNext(sess[q])
  BY SourcedStays DEF OriginInv, SessOrigin
<1>2. sess \in [Requests -> RacedSession \cup {Nil}]
  BY DEF TypeInv, RequestTypes
<1>3. ASSUME NEW q \in Requests, sess'[q] # Nil
      PROVE  sess'[q].user = call'[q].user /\ SourcedNext(sess'[q])
  <2>1. CASE q = r
    BY <1>2, <2>1
  <2>2. CASE q # r
    BY <1>1, <1>2, <1>3, <2>2
  <2> QED
    BY <2>1, <2>2
<1> QED
  BY <1>3, Primed
-----------------------------------------------------------------------------
(* Requests that have sent a place stay past the steps that assign one. *)

LEMMA SourcesFixedStep ==
    ASSUME TypeInv, TypeInv', SourcesFixed, [Next]_vars
    PROVE  SourcesFixed'
<1> USE DEF TypeInv, RequestTypes
<1> DEFINE Fixed(q) ==
        /\ pc[q] = "idle" => call[q] = Nil /\ sess[q] = Nil
        /\ Source(q) => pc[q] \notin {"idle", "get", "select", "mutate"}
<1>1. \A q \in Requests : Fixed(q)
  BY DEF SourcesFixed
<1>2. ASSUME NEW r \in Requests, Arrival(r) \/ RequestStep(r) \/ WarmStep(r),
             NEW q \in Requests
      PROVE  Fixed(q)'
  <2>1. CASE q # r
    BY <1>1, <1>2, <2>1, OnlyOwnRequest DEF Source
  <2>2. CASE q = r
    <3>1. CASE Start(r) \/ Heartbeat(r)
      BY <2>2, <3>1 DEF Start, Heartbeat, Goto
    <3>2. CASE GetCurrentPauseResume(r)
      <4>1. /\ pc'[r] = "get"
            /\ call'[r].op \in {"current", "pause", "resume"}
        BY <3>2 DEF GetCurrentPauseResume, Accept, Goto
      <4> QED
        BY <2>2, <4>1 DEF Source
    <3>3. CASE RedisGet(r) \/ Select(r) \/ Mutate(r)
      <4>1. ~Source(r) /\ call'[r] = call[r]
        BY <1>1, <3>3 DEF RedisGet, Select, Mutate
      <4>2. pc'[r] # "idle"
        BY <3>3 DEF RedisGet, Select, Mutate, GetReturns, AnswerOK, Answer, Goto
      <4> QED
        BY <2>2, <4>1, <4>2 DEF Source
    <3>4. CASE UpsertSession(r) \/ CacheSession(r) \/ PublishHeartbeat(r)
               \/ PublishRefused(r) \/ AwaitPublish(r) \/ Fallback(r)
      <4>1. \/ \E s \in {"setcache", "publish", "await", "fallback"} : Goto(r, s)
            \/ \E c : Answer(r, c)
        BY <3>4 DEF UpsertSession, CacheSession, PublishHeartbeat,
                    PublishRefused, AwaitPublish,
                    Fallback, AnswerOK
      <4>2. pc'[r] \in {"setcache", "publish", "await", "fallback", "done"}
        BY <4>1 DEF Goto, Answer
      <4> QED
        BY <2>2, <4>2
    <3>5. CASE WarmStep(r)
      BY <1>1, <2>2, <3>5 DEF WarmStep, WarmMarshal, WarmSet, Source
    <3> QED
      BY <1>2, <3>1, <3>2, <3>3, <3>4, <3>5 DEF Arrival, RequestStep
  <2> QED
    BY <2>1, <2>2
<1>3. ASSUME PipeStep \/ Expiry \/ UNCHANGED vars, NEW q \in Requests
      PROVE  Fixed(q)'
  <2>1. UNCHANGED <<call, pc, sess>>
    BY <1>3 DEF PipeStep, Expiry, reqVars, vars
  <2> QED
    BY <1>1, <2>1 DEF Source
<1>4. ASSUME Crash, NEW q \in Requests
      PROVE  Fixed(q)'
  <2>1. UNCHANGED <<call, sess>> /\ (pc'[q] = pc[q] \/ pc'[q] = "lost")
    BY <1>4 DEF Crash
  <2> QED
    BY <1>1, <2>1 DEF Source
<1>5. \A q \in Requests : Fixed(q)'
  BY <1>2, <1>3, <1>4 DEF Next
<1> QED
  BY <1>5 DEF SourcesFixed
-----------------------------------------------------------------------------
(* The steps of requests. *)

LEMMA ArrivalOrigin ==
    ASSUME TypeInv, OriginInv, [Next]_vars, NEW r \in Requests, Arrival(r)
    PROVE  DbOrigin' /\ CacheOrigin' /\ TopicOrigin' /\ WriterOrigin'
           /\ WarmOrigin' /\ SessOrigin'
<1> USE DEF TypeInv, RequestTypes
<1>1. UNCHANGED <<repoVars, pipeVars, warm>>
  BY DEF Arrival, Start, Heartbeat, GetCurrentPauseResume
<1>2. DbOrigin' /\ CacheOrigin' /\ TopicOrigin' /\ WriterOrigin' /\ WarmOrigin'
  BY <1>1, OriginFrame DEF repoVars, pipeVars
<1>3. pc[r] = "idle" /\ sess[r] = Nil
  BY DEF Arrival, Start, Heartbeat, GetCurrentPauseResume, Accept, OriginInv,
         SourcesFixed
<1>4. CASE Start(r) \/ Heartbeat(r)
  <2>1. PICK op \in {"start", "heartbeat"}, u \in Users, b \in Bodies :
            /\ call' = [call EXCEPT ![r] = [op |-> op, user |-> u, device |-> b.device]]
            /\ sess' = [sess EXCEPT ![r] = NewSession(u, b)]
    BY <1>4 DEF Start, Heartbeat, Accept
  <2>2. b.device \in Devices
    BY ModelAssumption DEF Body
  <2> DEFINE c == [op |-> op, user |-> u, device |-> b.device]
  <2>3. c \in Calls /\ c.op = op /\ c.user = u
    BY <2>2 DEF Calls, Operations
  <2>4. call'[r] = c
    BY <2>1
  <2> HIDE DEF c
  <2>5. sess'[r] = NewSession(u, b)
    BY <2>1
  <2>6. SourcedNext(NewSession(u, b))
    BY <2>3, <2>4, <2>5, ServiceAssumption DEF SourcedNext, SamePlace
  <2>7. NewSession(u, b).user = u
    BY DEF NewSession
  <2>8. \A q \in Requests : q # r => call'[q] = call[q]
    BY <2>1
  <2>9. SessOrigin'
    BY <2>1, <2>3, <2>4, <2>6, <2>7, <2>8, AssignOrigin
  <2> QED
    BY <1>2, <2>9
<1>5. CASE GetCurrentPauseResume(r)
  <2>1. UNCHANGED sess /\ \A q \in Requests : q # r => call'[q] = call[q]
    BY <1>5 DEF GetCurrentPauseResume, Accept
  <2>2. \A q \in Requests :
            sess[q] # Nil => sess[q].user = call[q].user /\ SourcedNext(sess[q])
    BY SourcedStays DEF OriginInv, SessOrigin
  <2>3. SessOrigin'
    BY <1>3, <2>1, <2>2, Primed
  <2> QED
    BY <1>2, <2>3
<1> QED
  BY <1>4, <1>5 DEF Arrival

(* Get returns a session of the user that was asked for. *)
LEMMA GetReturnsOrigin ==
    ASSUME TypeInv, OriginInv, [Next]_vars, NEW r \in Requests, NEW s,
           GetReturns(r, s), s.user = call[r].user, Sourced(s), UNCHANGED call
    PROVE  SessOrigin'
<1>1. SourcedNext(s)
  BY SourcedStays DEF OriginInv
<1>2. sess' = [sess EXCEPT ![r] = s]
  BY DEF GetReturns
<1> QED
  BY <1>1, <1>2, AssignOrigin

LEMMA GetOrigin ==
    ASSUME TypeInv, OriginInv, [Next]_vars, NEW r \in Requests,
           RedisGet(r) \/ Select(r)
    PROVE  DbOrigin' /\ CacheOrigin' /\ TopicOrigin' /\ WriterOrigin'
           /\ WarmOrigin' /\ SessOrigin'
<1>1. UNCHANGED <<repoVars, pipeVars, call>>
  BY DEF RedisGet, Select
<1>2. DbOrigin' /\ CacheOrigin' /\ TopicOrigin' /\ WriterOrigin'
  BY <1>1, OriginFrame DEF repoVars, pipeVars
<1>3. call[r].user \in Users
  BY DEF TypeInv, RequestTypes, RedisGet, Select, Calls
<1>4. SessOrigin'
  <2>1. CASE UNCHANGED sess
    BY <1>1, <2>1, OriginFrame
  <2>2. CASE CacheHit(call[r].user) /\ GetReturns(r, cache[call[r].user])
    <3>1. /\ cache[call[r].user].user = call[r].user
          /\ Sourced(cache[call[r].user])
      BY <1>3, <2>2 DEF OriginInv, CacheOrigin, CacheHit
    <3> QED
      BY <1>1, <2>2, <3>1, GetReturnsOrigin
  <2>3. CASE db[call[r].user] # Nil /\ GetReturns(r, db[call[r].user])
    <3>1. /\ db[call[r].user].user = call[r].user
          /\ Sourced(db[call[r].user])
      BY <1>3, <2>3 DEF OriginInv, DbOrigin
    <3> QED
      BY <1>1, <2>3, <3>1, GetReturnsOrigin
  <2> QED
    BY <2>1, <2>2, <2>3 DEF RedisGet, Select
<1>5. WarmOrigin'
  <2>1. CASE UNCHANGED warm
    BY <2>1, OriginFrame
  <2>2. CASE warm' = [warm EXCEPT ![r] = [call |-> "marshal", data |-> Nil]]
    <3>1. \A q \in Requests :
              warm[q] # Nil /\ warm[q].call = "set" => SourcedNext(warm[q].data)
      BY SourcedStays DEF OriginInv, WarmOrigin
    <3>2. warm \in [Requests -> WarmTask \cup {Nil}]
      BY DEF TypeInv, RequestTypes
    <3>3. ASSUME NEW q \in Requests, warm'[q] # Nil, warm'[q].call = "set"
          PROVE  SourcedNext(warm'[q].data)
      <4>1. q # r
        BY <2>2, <3>2, <3>3
      <4>2. warm'[q] = warm[q]
        BY <2>2, <3>2, <4>1
      <4> QED
        BY <3>1, <3>3, <4>2
    <3> QED
      BY <3>3, Primed
  <2> QED
    BY <2>1, <2>2 DEF RedisGet, Select
<1> QED
  BY <1>2, <1>4, <1>5

(* Assigning status, device and time leaves user and place alone. *)
LEMMA PlaceKept ==
    ASSUME NEW s \in RacedSession, NEW st, NEW d, NEW a
    PROVE  SamePlace([s EXCEPT !.status = st, !.device = d, !.at = a], s)
BY DEF SamePlace, RacedSession

LEMMA RacedPlace ==
    ASSUME NEW old \in RacedSession, NEW new \in RacedSession
    PROVE  \A s \in RacedReads(old, new) : SamePlace(s, old)
<1> DEFINE Read(st, d, a) == [old EXCEPT !.status = st, !.device = d, !.at = a]
           Dates == {old.at, new.at, 0}
<1>1. RacedReads(old, new) = {Read(st, d, a) :
          st \in MixedString(old.status, new.status),
          d \in MixedString(old.device, new.device), a \in Dates}
  BY DEF RacedReads
<1>2. \A st, d, a : SamePlace(Read(st, d, a), old)
  BY PlaceKept
<1> HIDE DEF Read, Dates
<1> QED
  BY <1>1, <1>2

(* A goroutine that has got data with a source. *)
LEMMA WarmGets ==
    ASSUME TypeInv, OriginInv, [Next]_vars, NEW r \in Requests, NEW s,
           warm' = [warm EXCEPT ![r] = [call |-> "set", data |-> s]],
           SourcedNext(s)
    PROVE  WarmOrigin'
<1>1. \A q \in Requests :
          warm[q] # Nil /\ warm[q].call = "set" => SourcedNext(warm[q].data)
  BY SourcedStays DEF OriginInv, WarmOrigin
<1>2. warm \in [Requests -> WarmTask \cup {Nil}]
  BY DEF TypeInv, RequestTypes
<1>3. ASSUME NEW q \in Requests, warm'[q] # Nil, warm'[q].call = "set"
      PROVE  SourcedNext(warm'[q].data)
  <2>1. CASE q = r
    <3>1. warm'[q].data = s
      BY <1>2, <2>1
    <3> QED
      BY <3>1
  <2>2. CASE q # r
    <3>1. warm'[q] = warm[q]
      BY <1>2, <2>2
    <3> QED
      BY <1>1, <1>3, <3>1
  <2> QED
    BY <2>1, <2>2
<1> QED
  BY <1>3, Primed

LEMMA MutateOrigin ==
    ASSUME TypeInv, OriginInv, [Next]_vars, NEW r \in Requests, Mutate(r)
    PROVE  DbOrigin' /\ CacheOrigin' /\ TopicOrigin' /\ WriterOrigin'
           /\ WarmOrigin' /\ SessOrigin'
<1>1. UNCHANGED <<repoVars, pipeVars, call>>
  BY DEF Mutate
<1>2. DbOrigin' /\ CacheOrigin' /\ TopicOrigin' /\ WriterOrigin'
  BY <1>1, OriginFrame DEF repoVars, pipeVars
<1>3. sess[r] \in RacedSession /\ sess[r] # Nil
  BY ModelAssumption DEF TypeInv, RequestTypes, Mutate
<1>4. sess[r].user = call[r].user /\ SourcedNext(sess[r])
  BY <1>3, SourcedStays DEF OriginInv, SessOrigin
<1>5. SamePlace(Mutated(r), sess[r])
  BY <1>3, PlaceKept DEF Mutated
<1>6. SessOrigin'
  <2>1. SourcedNext(Mutated(r))
    BY <1>4, <1>5, SourcedPlace
  <2>2. Mutated(r).user = call'[r].user
    BY <1>1, <1>4, <1>5 DEF SamePlace
  <2> QED
    BY <1>1, <2>1, <2>2, AssignOrigin DEF Mutate
<1>7. WarmOrigin'
  <2>1. CASE UNCHANGED warm
    BY <2>1, OriginFrame
  <2>2. CASE ~UNCHANGED warm
    <3>1. PICK s \in RacedReads(sess[r], Mutated(r)) :
              warm' = [warm EXCEPT ![r] = [call |-> "set", data |-> s]]
      BY <2>2 DEF Mutate
    <3>2. call[r] \in Calls /\ clock \in Nat
      BY DEF TypeInv, RequestTypes, Mutate
    <3>3. Mutated(r) \in RacedSession
      BY <1>3, <3>2, MutatedType, SessionIsRaced
    <3>4. SamePlace(s, sess[r])
      BY <1>3, <3>3, RacedPlace
    <3>5. SourcedNext(s)
      BY <1>4, <3>4, SourcedPlace
    <3> QED
      BY <3>1, <3>5, WarmGets
  <2> QED
    BY <2>1, <2>2
<1> QED
  BY <1>2, <1>6, <1>7

(* The other steps of a request copy the session it holds. *)
LEMMA WritingOrigin ==
    ASSUME TypeInv, OriginInv, [Next]_vars, NEW r \in Requests,
           \/ UpsertSession(r) \/ CacheSession(r) \/ PublishHeartbeat(r)
           \/ PublishRefused(r) \/ AwaitPublish(r) \/ Fallback(r)
    PROVE  DbOrigin' /\ CacheOrigin' /\ TopicOrigin' /\ WriterOrigin'
           /\ WarmOrigin' /\ SessOrigin'
<1>1. UNCHANGED <<topic, call, sess, warm>>
  BY DEF UpsertSession, CacheSession, PublishHeartbeat, Publish,
         PublishRefused, AwaitPublish,
         Fallback, pipeVars
<1>2. TopicOrigin' /\ WarmOrigin' /\ SessOrigin'
  BY <1>1, OriginFrame
<1>3. sess[r] \in Session
  BY DEF TypeInv, RequestTypes, Writing, UpsertSession, CacheSession,
         PublishHeartbeat, PublishRefused, AwaitPublish, Fallback
<1>4. sess[r] \in RacedSession /\ sess[r] # Nil
  BY <1>3, SessionIsRaced, ModelAssumption
<1>5. Sourced(sess[r])
  BY <1>4 DEF OriginInv, SessOrigin
<1>6. CASE UpsertSession(r) \/ Fallback(r)
  <2>1. PICK failed \in BOOLEAN : Upsert(sess[r], failed)
    BY <1>6 DEF UpsertSession, Fallback
  <2>2. DbOrigin'
    BY <1>3, <1>5, <2>1, UpsertOrigin
  <2>3. UNCHANGED <<cache, writer>>
    BY <1>6 DEF UpsertSession, Fallback, pipeVars
  <2> QED
    BY <1>2, <2>2, <2>3, OriginFrame
<1>7. CASE CacheSession(r)
  <2>1. SetCache(sess[r]) /\ UNCHANGED <<db, writer>>
    BY <1>7 DEF CacheSession, pipeVars
  <2> QED
    BY <1>2, <1>4, <1>5, <2>1, SetCacheOrigin, OriginFrame
<1>8. CASE PublishHeartbeat(r)
  <2>1. PICK p \in Partitions :
            writer' = [writer EXCEPT ![r] = [state |-> "sending", part |-> p,
                                             tries |-> 0, msg |-> sess[r]]]
    BY <1>8 DEF PublishHeartbeat, Publish
  <2>2. \A q \in Requests : writer[q] # Nil => SourcedNext(writer[q].msg)
    BY SourcedStays DEF OriginInv, WriterOrigin
  <2>3. SourcedNext(sess[r])
    BY <1>5, SourcedStays DEF OriginInv
  <2>4. writer \in [Requests -> CleanBatch \cup {Nil}]
    BY DEF TypeInv, PipeTypes
  <2>5. ASSUME NEW q \in Requests, writer'[q] # Nil
        PROVE  SourcedNext(writer'[q].msg)
    <3>1. CASE q = r
      <4>1. writer'[q].msg = sess[r]
        BY <2>1, <2>4, <3>1
      <4> QED
        BY <2>3, <4>1
    <3>2. CASE q # r
      <4>1. writer'[q] = writer[q]
        BY <2>1, <2>4, <3>2
      <4> QED
        BY <2>2, <2>5, <4>1
    <3> QED
      BY <3>1, <3>2
  <2>6. WriterOrigin'
    BY <2>5, Primed
  <2>7. UNCHANGED <<db, cache>>
    BY <1>8 DEF PublishHeartbeat, repoVars
  <2> QED
    BY <1>2, <2>6, <2>7, OriginFrame
<1>9. CASE PublishRefused(r) \/ AwaitPublish(r)
  <2>1. UNCHANGED <<db, cache, writer>>
    BY <1>9 DEF PublishRefused, AwaitPublish, repoVars, pipeVars
  <2> QED
    BY <1>2, <2>1, OriginFrame
<1> QED
  BY <1>6, <1>7, <1>8, <1>9

(* The goroutine encodes the struct, and puts what it has got. *)
LEMMA WarmOriginStep ==
    ASSUME TypeInv, OriginInv, [Next]_vars, NEW r \in Requests, WarmStep(r)
    PROVE  DbOrigin' /\ CacheOrigin' /\ TopicOrigin' /\ WriterOrigin'
           /\ WarmOrigin' /\ SessOrigin'
<1>1. UNCHANGED <<db, pipeVars, call, sess>>
  BY DEF WarmStep, WarmMarshal, WarmSet, repoVars
<1>2. DbOrigin' /\ TopicOrigin' /\ WriterOrigin' /\ SessOrigin'
  BY <1>1, OriginFrame DEF pipeVars
<1>3. CASE WarmMarshal(r)
  <2>1. sess[r] # Nil
    BY <1>3, ModelAssumption DEF WarmMarshal, TypeInv, RequestTypes
  <2>2. SourcedNext(sess[r])
    BY <2>1, SourcedStays DEF OriginInv, SessOrigin
  <2>3. WarmOrigin'
    BY <1>3, <2>2, WarmGets DEF WarmMarshal
  <2>4. CacheOrigin'
    BY <1>3, OriginFrame DEF WarmMarshal, repoVars
  <2> QED
    BY <1>2, <2>3, <2>4
<1>4. CASE WarmSet(r)
  <2>1. warm[r] # Nil /\ warm[r].call = "set" /\ SetCache(warm[r].data)
    BY <1>4 DEF WarmSet
  <2>2. warm[r].data \in RacedSession /\ Sourced(warm[r].data)
    BY <2>1 DEF TypeInv, RequestTypes, OriginInv, WarmOrigin
  <2>3. CacheOrigin'
    BY <2>1, <2>2, SetCacheOrigin
  <2>4. \A q \in Requests :
            warm[q] # Nil /\ warm[q].call = "set" => SourcedNext(warm[q].data)
    BY SourcedStays DEF OriginInv, WarmOrigin
  <2>5. \A q \in Requests : warm'[q] = warm[q] \/ warm'[q] = Nil
    BY <1>4 DEF WarmSet, TypeInv, RequestTypes
  <2>6. WarmOrigin'
    BY <2>4, <2>5, Primed
  <2> QED
    BY <1>2, <2>3, <2>6
<1> QED
  BY <1>3, <1>4 DEF WarmStep
-----------------------------------------------------------------------------
(* The steps of the pipeline, expiry and crash. *)

LEMMA WriterStepOrigin ==
    ASSUME TypeInv, OriginInv, [Next]_vars, NEW r \in Requests, WriterStep(r)
    PROVE  TopicOrigin' /\ WriterOrigin'
<1>1. writer \in [Requests -> CleanBatch \cup {Nil}] /\ writer[r] # Nil
  BY DEF TypeInv, PipeTypes, WriterStep, SendAcked, SendFailed, Sending
<1>2. /\ writer[r].part \in Partitions
      /\ writer[r].msg \in Session
  BY <1>1 DEF CleanBatch
<1>3. \A q \in Requests : writer[q] # Nil => SourcedNext(writer[q].msg)
  BY SourcedStays DEF OriginInv, WriterOrigin
<1>4. WriterOrigin'
  <2>1. \/ \E st : writer' = [writer EXCEPT ![r].state = st]
        \/ writer' = [writer EXCEPT ![r].tries = @ + 1]
    BY DEF WriterStep, SendAcked, SendFailed
  <2>2. /\ \A q \in Requests : q # r => writer'[q] = writer[q]
        /\ writer'[r].msg = writer[r].msg
    BY <1>1, <2>1 DEF CleanBatch
  <2> QED
    BY <1>1, <1>3, <2>2, Primed
<1>5. CASE UNCHANGED topic
  BY <1>4, <1>5, OriginFrame
<1>6. CASE AppendTo(writer[r].part, writer[r].msg)
  <2> DEFINE p == writer[r].part
             m == writer[r].msg
  <2>1. \A q \in Partitions : \A i \in 1 .. Len(topic[q]) :
            topic[q][i] # Malformed => SourcedNext(topic[q][i])
    BY SourcedStays DEF OriginInv, TopicOrigin
  <2>2. SourcedNext(m)
    BY <1>1, <1>3
  <2>3. /\ p \in Partitions /\ m \in Session
        /\ AppendTo(p, m)
    BY <1>2, <1>6
  <2> HIDE DEF p, m
  <2>4. ASSUME NEW q \in Partitions, NEW i \in 1 .. Len(topic'[q])
        PROVE  \/ i \in 1 .. Len(topic[q]) /\ topic'[q][i] = topic[q][i]
               \/ topic'[q][i] = m
    <3> DEFINE T == Session \cup {Malformed}
    <3>1. topic \in [Partitions -> Seq(T)] /\ m \in T
      BY <2>3 DEF TypeInv, PipeTypes
    <3>2. topic' = [topic EXCEPT ![p] = Append(topic[p], m)]
      BY <2>3 DEF AppendTo
    <3> HIDE DEF T
    <3>3. CASE q = p
      BY <2>3, <2>4, <3>1, <3>2, <3>3
    <3>4. CASE q # p
      BY <2>3, <2>4, <3>1, <3>2, <3>4
    <3> QED
      BY <3>3, <3>4
  <2>5. TopicOrigin'
    BY <2>1, <2>2, <2>4, Primed
  <2> QED
    BY <1>4, <2>5
<1> QED
  BY <1>5, <1>6 DEF WriterStep, SendAcked, SendFailed

LEMMA HandleOrigin ==
    ASSUME TypeInv, OriginInv, [Next]_vars, Handle
    PROVE  DbOrigin'
<1> DEFINE m == topic[consumer.part][consumer.off]
<1>1. CASE m = Malformed
  BY <1>1, OriginFrame DEF Handle
<1>2. CASE m # Malformed
  <2>1. consumer \in InHand /\ consumer.off \in 1 .. Len(topic[consumer.part])
    BY DEF Handle, TypeInv, PipeTypes
  <2>2. consumer.part \in Partitions
    BY <2>1 DEF InHand
  <2>3. m \in Session
    BY <1>2, <2>1, <2>2, MessageType DEF TypeInv
  <2>4. Sourced(m)
    BY <1>2, <2>1, <2>2 DEF OriginInv, TopicOrigin
  <2>5. PICK failed \in BOOLEAN : Upsert(m, failed)
    BY <1>2 DEF Handle
  <2> QED
    BY <2>3, <2>4, <2>5, UpsertOrigin
<1> QED
  BY <1>1, <1>2

LEMMA OriginInvStep ==
    ASSUME TypeInv, TypeInv', OriginInv, [Next]_vars
    PROVE  OriginInv'
<1> DEFINE Kept == DbOrigin' /\ CacheOrigin' /\ TopicOrigin' /\ WriterOrigin'
                   /\ WarmOrigin' /\ SessOrigin'
<1>7. SourcesFixed'
  BY SourcesFixedStep DEF OriginInv
<1> SUFFICES Kept
  BY <1>7 DEF OriginInv
<1>0. /\ UNCHANGED db => DbOrigin'
      /\ UNCHANGED cache => CacheOrigin'
      /\ UNCHANGED topic => TopicOrigin'
      /\ UNCHANGED writer => WriterOrigin'
      /\ UNCHANGED warm => WarmOrigin'
      /\ UNCHANGED <<call, sess>> => SessOrigin'
  BY OriginFrame
<1>1. ASSUME NEW r \in Requests, Arrival(r) \/ RequestStep(r) \/ WarmStep(r)
      PROVE  Kept
  BY <1>1, ArrivalOrigin, GetOrigin, MutateOrigin, WritingOrigin, WarmOriginStep
     DEF RequestStep
<1>2. CASE PipeStep
  <2>1. UNCHANGED <<call, sess, warm>>
    BY <1>2 DEF PipeStep, reqVars
  <2>2. ASSUME NEW r \in Requests, WriterStep(r)
        PROVE  Kept
    <3>1. UNCHANGED <<db, cache>>
      BY <2>2 DEF WriterStep, SendAcked, SendFailed, repoVars
    <3> QED
      BY <2>1, <2>2, <3>1, WriterStepOrigin, <1>0
  <2>3. CASE Handle
    <3>1. UNCHANGED <<cache, topic, writer>>
      BY <2>3 DEF Handle
    <3> QED
      BY <2>1, <2>3, <3>1, HandleOrigin, <1>0
  <2>4. CASE \/ FetchMessage \/ Rebalance
             \/ \E failed \in BOOLEAN : CommitMessages(failed)
    <3>1. UNCHANGED <<db, cache, topic, writer>>
      BY <2>4 DEF FetchMessage, Rebalance, CommitMessages, repoVars
    <3> QED
      BY <2>1, <3>1, <1>0
  <2> QED
    BY <1>2, <2>2, <2>3, <2>4 DEF PipeStep, ConsumerStep
<1>3. CASE Expiry
  <2>1. UNCHANGED <<db, topic, writer, warm, call, sess>>
    BY <1>3 DEF Expiry, Expire, pipeVars, reqVars
  <2>2. \A u \in Users : cache'[u] = cache[u] \/ cache'[u] = Nil
    BY <1>3 DEF Expiry, Expire, TypeInv, StoreTypes
  <2>3. \A u \in Users : cache[u] # Nil => cache[u].user = u /\ SourcedNext(cache[u])
    BY SourcedStays DEF OriginInv, CacheOrigin
  <2>4. CacheOrigin'
    BY <2>2, <2>3, Primed
  <2> QED
    BY <2>1, <2>4, <1>0
<1>4. CASE Crash
  <2>1. UNCHANGED <<db, cache, topic, call, sess>>
    BY <1>4 DEF Crash, PipeCrash, repoVars
  <2>2. \A r \in Requests : writer'[r] = Nil /\ warm'[r] = Nil
    BY <1>4 DEF Crash, PipeCrash
  <2>3. WriterOrigin' /\ WarmOrigin'
    BY <2>2, Primed
  <2> QED
    BY <2>1, <2>3, <1>0
<1>5. CASE UNCHANGED vars
  BY <1>5, <1>0 DEF vars, repoVars, pipeVars, reqVars
<1> QED
  BY <1>1, <1>2, <1>3, <1>4, <1>5 DEF Next

LEMMA OriginInvInit == Init => OriginInv
<1> SUFFICES ASSUME Init PROVE OriginInv
  OBVIOUS
<1>1. DbOrigin /\ CacheOrigin /\ WriterOrigin /\ WarmOrigin /\ SessOrigin
      /\ SourcesFixed
  BY DEF Init, RepoInit, PipeInit, DbOrigin, CacheOrigin, WriterOrigin,
         WarmOrigin, SessOrigin, SourcesFixed, Source
<1>2. TopicOrigin
  <2>1. \A p \in Partitions : topic[p] = <<>> \/ topic[p] = <<Malformed>>
    BY DEF Init, PipeInit
  <2> QED
    BY <2>1 DEF TopicOrigin
<1> QED
  BY <1>1, <1>2 DEF OriginInv

(***************************************************************************)
(* However requests, goroutines and the consumer overtake each other, and  *)
(* whatever they read back from a torn cache entry or an old message, a    *)
(* session shows its own user a track and a position that this user sent   *)
(* in one body.                                                            *)
(***************************************************************************)
THEOREM SessionsAreNotMixed == Spec => []NoMixedSessions
<1>1. TypeInv /\ TypeInv' /\ OriginInv /\ [Next]_vars => OriginInv'
  BY OriginInvStep
<1>2. OriginInv => NoMixedSessions
  BY DEF OriginInv, NoMixedSessions, DbOrigin, CacheOrigin, TopicOrigin,
         SessOrigin
<1> QED
  BY <1>1, <1>2, OriginInvInit, TypeInvHolds, PTL DEF Spec
-----------------------------------------------------------------------------
(* What the consumer is done with has reached the table. *)

(* Fails once the table refuses a message: Run goes on to the commit. *)
HandledStored ==
    \A p \in Partitions, i \in Nat :
        <<p, i>> \in handled =>
            /\ i \in 1 .. Len(topic[p])
            /\ topic[p][i] \in stored \cup {Malformed}

(* A table that takes all positions and never fails before it writes. *)
LEMMA UpsertStores ==
    ASSUME NEW s \in Session, NEW failed \in BOOLEAN, Upsert(s, failed),
           Positions \subseteq Int4, "db" \notin Faults
    PROVE  s \in stored'
<1>1. Fits(s)
  BY DEF Fits, Session
<1> QED
  BY <1>1 DEF Upsert, WriteRow

LEMMA HandledFrame ==
    ASSUME TypeInv, TypeInv', HandledStored, Growing, UNCHANGED handled
    PROVE  HandledStored'
<1>1. \A p \in Partitions : Len(topic[p]) \in Nat /\ Len(topic'[p]) \in Nat
  BY LogLengths DEF TypeInv, PipeTypes
<1>2. ASSUME NEW p \in Partitions, NEW i \in Nat, <<p, i>> \in handled
      PROVE  /\ i \in 1 .. Len(topic'[p])
             /\ topic'[p][i] \in stored' \cup {Malformed}
  <2>1. i \in 1 .. Len(topic[p]) /\ topic[p][i] \in stored \cup {Malformed}
    BY <1>2 DEF HandledStored
  <2> QED
    BY <1>1, <2>1 DEF Growing
<1> QED
  BY <1>2 DEF HandledStored

LEMMA WriterGrows ==
    ASSUME TypeInv, NEW r \in Requests, WriterStep(r)
    PROVE  Growing /\ UNCHANGED handled
<1>1. UNCHANGED <<stored, handled>>
  BY DEF WriterStep, SendAcked, SendFailed, repoVars
<1>2. writer[r].part \in Partitions /\ writer[r].msg \in Session
  BY DEF WriterStep, SendAcked, SendFailed, Sending, TypeInv, PipeTypes,
         CleanBatch
<1>3. CASE AppendTo(writer[r].part, writer[r].msg)
  BY <1>1, <1>2, <1>3, AppendTypes DEF Growing, TypeInv
<1>4. CASE UNCHANGED topic
  BY <1>1, <1>4, GrowingFrame DEF TypeInv
<1> QED
  BY <1>1, <1>3, <1>4 DEF WriterStep, SendAcked, SendFailed

LEMMA HandleStores ==
    ASSUME TypeInv, TypeInv', HandledStored, Handle,
           Positions \subseteq Int4, "db" \notin Faults
    PROVE  HandledStored'
<1> DEFINE m == topic[consumer.part][consumer.off]
<1>1. consumer \in InHand /\ consumer.off \in 1 .. Len(topic[consumer.part])
  BY DEF Handle, TypeInv, PipeTypes
<1>2. consumer.part \in Partitions
  BY <1>1 DEF InHand
<1>3. stored \subseteq stored' /\ m \in stored' \cup {Malformed}
  <2>1. CASE m = Malformed
    BY <2>1 DEF Handle
  <2>2. CASE m # Malformed
    <3>1. PICK failed \in BOOLEAN : Upsert(m, failed)
      BY <2>2 DEF Handle
    <3>2. m \in Session
      BY <1>1, <1>2, <2>2, MessageType DEF TypeInv
    <3> HIDE DEF m
    <3> QED
      BY <3>1, <3>2, UpsertStores, UpsertGrows
  <2> QED
    BY <2>1, <2>2
<1>4. /\ UNCHANGED topic
      /\ handled' = handled \cup {<<consumer.part, consumer.off>>}
  BY DEF Handle
<1>5. ASSUME NEW p \in Partitions, NEW i \in Nat, <<p, i>> \in handled'
      PROVE  i \in 1 .. Len(topic[p]) /\ topic[p][i] \in stored' \cup {Malformed}
  <2>1. CASE <<p, i>> \in handled
    BY <1>3, <2>1 DEF HandledStored
  <2>2. CASE p = consumer.part /\ i = consumer.off
    BY <1>1, <1>3, <2>2
  <2> QED
    BY <1>4, <1>5, <2>1, <2>2
<1> QED
  BY <1>4, <1>5 DEF HandledStored

LEMMA HandledStoredStep ==
    ASSUME TypeInv, TypeInv', HandledStored, [Next]_vars,
           Positions \subseteq Int4, "db" \notin Faults
    PROVE  HandledStored'
<1>1. ASSUME NEW r \in Requests, Arrival(r) \/ RequestStep(r) \/ WarmStep(r)
      PROVE  Growing /\ UNCHANGED handled
  <2>1. UNCHANGED handled
    BY <1>1 DEF Arrival, Start, Heartbeat, GetCurrentPauseResume, RequestStep,
       RedisGet, Select, Mutate, UpsertSession, CacheSession, PublishHeartbeat,
       Publish, PublishRefused, AwaitPublish, Fallback, WarmStep,
       WarmMarshal, WarmSet, pipeVars
  <2> QED
    BY <1>1, <2>1, RequestGrows
<1>2. ASSUME FetchMessage \/ Rebalance \/ Expiry \/ Crash \/ UNCHANGED vars
             \/ \E failed \in BOOLEAN : CommitMessages(failed)
      PROVE  Growing /\ UNCHANGED handled
  <2>1. UNCHANGED <<stored, topic, handled>>
    BY <1>2 DEF FetchMessage, Rebalance, CommitMessages, Expiry, Expire, Crash,
       PipeCrash, vars, repoVars, pipeVars
  <2> QED
    BY <2>1, GrowingFrame DEF TypeInv
<1> QED
  BY <1>1, <1>2, WriterGrows, HandledFrame, HandleStores
     DEF Next, PipeStep, ConsumerStep

(***************************************************************************)
(* Where every position fits the column and no statement fails before it   *)
(* is carried out, a heartbeat whose offset is committed is in the table,  *)
(* in spite of lost replies, repeated deliveries, rebalances and crashes.  *)
(* Without the assumptions it need not be: Run commits after an error of   *)
(* the handler too.                                                        *)
(***************************************************************************)
THEOREM CommittedHeartbeatsAreStored ==
    ASSUME Positions \subseteq Int4, "db" \notin Faults
    PROVE  Spec => []CommittedIsStored
<1>1. Init => HandledStored /\ CommitInv
  BY DEF Init, PipeInit, HandledStored, CommitInv
<1>2. TypeInv /\ TypeInv' /\ HandledStored /\ [Next]_vars => HandledStored'
  BY HandledStoredStep
<1>3. TypeInv /\ CommitInv /\ [Next]_vars => CommitInv'
  BY CommitInvStep
<1>4. TypeInv /\ HandledStored /\ CommitInv => CommittedIsStored
  BY DEF TypeInv, PipeTypes, HandledStored, CommitInv, CommittedIsStored
<1> QED
  BY <1>1, <1>2, <1>3, <1>4, TypeInvHolds, PTL DEF Spec
=============================================================================
