--------------------------- MODULE Counters_proofs ---------------------------
(***************************************************************************)
(* http_requests_total counts every request that comes back up through     *)
(* Metrics once, under its method, its pattern and the status of its       *)
(* answer.  Requests may be infinitely many: those that have been counted  *)
(* are finitely many at any time.                                          *)
(***************************************************************************)
EXTENDS HttpServer_proofs, FiniteSetTheorems

(* The requests that have been counted, and those of one series. *)
AllCounted == {q \in Requests : Counted(q)}
CountedAs(s) == {r \in AllCounted : Series(r) = s}

CountInv == IsFiniteSet(AllCounted) /\ ReturnedAreCounted

(* A request has been counted if Metrics, the fourth middleware, is behind *)
(* it and it has not panicked.                                             *)
PastMetrics(r) ==
    \/ stage[r] = "leave" /\ depth[r] <= 3
    \/ stage[r] = "answered" /\ ~Panicked(r)

LEMMA CountedWhere ==
    HTypes => \A r \in Requests : Counted(r) <=> PastMetrics(r)
<1> SUFFICES ASSUME HTypes, NEW r \in Requests
             PROVE  Counted(r) <=> PastMetrics(r)
  OBVIOUS
<1>1. stage[r] = "leave" => depth[r] \in 1 .. 5
  BY Owned
<1>2. ASSUME NEW d \in 1 .. 5
      PROVE  (\A i \in 1 .. d : Chain[i] # "Metrics") <=> d <= 3
  <2>1. \A i \in 1 .. 5 : Chain[i] = "Metrics" <=> i = 4
    BY ChainFacts, Numbers
  <2> QED
    BY <2>1
<1> QED
  BY <1>1, <1>2 DEF Counted, Answered, PastMetrics

LEMMA CountedWhereNext ==
    HTypes' => \A r \in Requests : Counted(r)' <=> PastMetrics(r)'
<1>1. HTypes' => (\A r \in Requests : Counted(r) <=> PastMetrics(r))'
  BY CountedWhere, PTL
<1> QED
  BY <1>1

LEMMA CountKept ==
    ASSUME CountInv, UNCHANGED total,
           \A x \in Requests : /\ Counted(x)' <=> Counted(x)
                               /\ Counted(x) => Series(x)' = Series(x)
    PROVE  CountInv'
<1>1. AllCounted' = AllCounted
  BY DEF AllCounted
<1>2. {Series(r) : r \in AllCounted}' = {Series(r) : r \in AllCounted}
  BY <1>1 DEF AllCounted
<1>3. \A s : CountedAs(s)' = CountedAs(s)
  BY <1>1 DEF AllCounted, CountedAs
<1>4. total = [s \in {Series(r) : r \in AllCounted} |-> Cardinality(CountedAs(s))]
  BY DEF CountInv, ReturnedAreCounted, CountOf, AllCounted, CountedAs
<1>5. total' = [s \in {Series(r) : r \in AllCounted}' |->
                    Cardinality(CountedAs(s)')]
  BY <1>2, <1>3, <1>4
<1> QED
  BY <1>1, <1>5 DEF CountInv, ReturnedAreCounted, CountOf, AllCounted, CountedAs

(* One more request has been counted, under its series. *)
LEMMA CountOne ==
    ASSUME CountInv, NEW r \in Requests, ~Counted(r), Counted(r)',
           Series(r)' = Series(r), total' = Inc(Series(r)),
           \A x \in Requests \ {r} : /\ Counted(x)' <=> Counted(x)
                                     /\ Counted(x) => Series(x)' = Series(x)
    PROVE  CountInv'
<1> DEFINE one == Series(r)
<1>1. AllCounted' = AllCounted \cup {r}
  BY DEF AllCounted
<1>2. IsFiniteSet(AllCounted) /\ IsFiniteSet(AllCounted')
  BY <1>1, FS_AddElement DEF CountInv
<1>3. {Series(x) : x \in AllCounted}' = {Series(x) : x \in AllCounted} \cup {one}
  BY <1>1 DEF AllCounted
<1>4. /\ CountedAs(one)' = CountedAs(one) \cup {r}
      /\ r \notin CountedAs(one)
  BY <1>1 DEF AllCounted, CountedAs
<1>5. \A s : s # one => CountedAs(s)' = CountedAs(s)
  BY <1>1 DEF AllCounted, CountedAs
<1>6. ASSUME NEW s
      PROVE  IsFiniteSet(CountedAs(s)) /\ Cardinality(CountedAs(s)) \in Nat
  <2>1. CountedAs(s) \subseteq AllCounted
    BY DEF CountedAs, AllCounted
  <2> QED
    BY <1>2, <2>1, FS_Subset, FS_CardinalityType
<1>7. Cardinality(CountedAs(one)') = Cardinality(CountedAs(one)) + 1
  BY <1>4, <1>6, FS_AddElement
<1>8. total = [s \in {Series(x) : x \in AllCounted} |-> Cardinality(CountedAs(s))]
  BY DEF CountInv, ReturnedAreCounted, CountOf, AllCounted, CountedAs
<1>9. ASSUME NEW s, s \notin {Series(x) : x \in AllCounted}
      PROVE  Cardinality(CountedAs(s)) = 0
  <2>1. CountedAs(s) = {}
    BY <1>9 DEF CountedAs, AllCounted
  <2> QED
    BY <2>1, FS_EmptySet
<1>10. ASSUME NEW s
       PROVE  Cardinality(CountedAs(s)') =
                  (IF s \in DOMAIN total THEN total[s] ELSE 0)
                      + (IF s = one THEN 1 ELSE 0)
  <2>1. Cardinality(CountedAs(s)) = IF s \in DOMAIN total THEN total[s] ELSE 0
    BY <1>8, <1>9
  <2>2. CASE s = one
    BY <1>7, <2>1, <2>2
  <2>3. CASE s # one
    <3>1. CountedAs(s)' = CountedAs(s)
      BY <1>5, <2>3
    <3> QED
      BY <1>6, <2>1, <2>3, <3>1
  <2> QED
    BY <2>2, <2>3
<1>11. DOMAIN total \cup {one} = {Series(x) : x \in AllCounted}'
  BY <1>3, <1>8
<1>12. total' = [s \in {Series(x) : x \in AllCounted}' |->
                     Cardinality(CountedAs(s)')]
  BY <1>10, <1>11 DEF Inc
<1> QED
  BY <1>2, <1>12 DEF CountInv, ReturnedAreCounted, CountOf, AllCounted, CountedAs

(* What the step of a request means for the others. *)
LEMMA OthersCounted ==
    ASSUME HTypes, HTypes', NEW r \in Requests, Enter(r) \/ GoOn(r) \/ Panic(r),
           NEW x \in Requests, x # r
    PROVE  /\ Counted(x)' <=> Counted(x)
           /\ Counted(x) => Series(x)' = Series(x)
<1>1. Moved(r) \/ Enter(r)
  BY RequestMoves
<1>2. /\ stage'[x] = stage[x] /\ resp'[x] = resp[x]
      /\ depth'[x] = depth[x] /\ values'[x] = values[x]
      /\ query'[x] = query[x]
  BY <1>1, OthersKept
<1>3. LinesOf(x)' = LinesOf(x)
  BY OtherLines
<1>4. Panicked(x)' <=> Panicked(x)
  <2>1. Panicked(x) <=> \E l \in LinesOf(x) : l.event = "panic recovered"
    BY DEF Panicked, LinesOf
  <2>2. Panicked(x)' <=> \E l \in LinesOf(x)' : l.event = "panic recovered"
    BY DEF Panicked, LinesOf
  <2> QED
    BY <1>3, <2>1, <2>2
<1> QED
  BY <1>2, <1>4 DEF Counted, Answered, Series

(* A request that goes down, is handled, or panics is not counted. *)
LEMMA NotYetCounted ==
    ASSUME Stories, Stories', NEW r \in Requests,
           \/ Enter(r) \/ Route(r) \/ ProbeHandler(r) \/ UserID(r) \/ BindJSON(r)
           \/ ServiceReturns(r) \/ Panic(r) \/ Unwind(r) \/ Recover(r)
    PROVE  ~Counted(r) /\ ~Counted(r)' /\ UNCHANGED total
<1>1. HTypes /\ HTypes' /\ Story(r) /\ Story(r)'
  BY DEF Stories
<1>2. UNCHANGED total
  BY DEF Enter, Route, ProbeHandler, UserID, BindJSON, ServiceReturns, Panic,
         Unwind, Recover, obsVars
<1>3. stage[r] \notin {"leave", "answered"}
  BY DEF Enter, Route, ProbeHandler, UserID, BindJSON, ServiceReturns, Panic,
         Unwind, Recover
<1>4. ~Counted(r)
  BY <1>1, <1>3, CountedWhere DEF PastMetrics
<1>5. Counted(r)' <=> PastMetrics(r)'
  BY <1>1, CountedWhereNext
<1>6. CASE Enter(r) \/ Unwind(r)
  <2>1. stage'[r] \in {"route", "panic"}
    BY <1>1, <1>6 DEF Enter, Unwind, HTypes, HttpTypeOK
  <2> QED
    BY <1>2, <1>4, <1>5, <2>1 DEF PastMetrics
<1>7. CASE Recover(r)
  <2>1. depth[r] \in 1 .. 5 /\ Innermost(r) = "Recoverer"
    BY <1>1, <1>7, Owned DEF Recover
  <2>2. depth[r] = 1
    BY <2>1, ChainFacts, Numbers DEF Innermost
  <2>3. stage'[r] = "answered"
    BY <1>1, <1>7, <2>2, After DEF Recover
  <2>4. Panicked(r)'
    <3> DEFINE line == PanicLine(r)
    <3>1. line \in lines'
      BY <1>7 DEF Recover
    <3>2. line.req = r /\ line.event = "panic recovered"
      BY DEF PanicLine
    <3> HIDE DEF line
    <3> QED
      BY <3>1, <3>2 DEF Panicked
  <2> QED
    BY <1>2, <1>4, <1>5, <2>3, <2>4 DEF PastMetrics
<1>8. CASE Route(r) \/ ProbeHandler(r) \/ UserID(r) \/ BindJSON(r)
           \/ ServiceReturns(r) \/ Panic(r)
  <2>1. depth'[r] = 5
    <3>1. UNCHANGED depth /\ stage[r] \in Inside
      BY <1>8 DEF Route, ProbeHandler, UserID, BindJSON, ServiceReturns, Panic,
                  Inside
    <3> QED
      BY <1>1, <3>1 DEF Story
  <2>2. stage'[r] # "answered"
    BY <1>1, <2>1 DEF Story
  <2> QED
    BY <1>2, <1>4, <1>5, <2>1, <2>2 DEF PastMetrics
<1> QED
  BY <1>6, <1>7, <1>8

(* On its way up, a request is counted by Metrics and by nobody else. *)
LEMMA LeaveCounts ==
    ASSUME Stories, Stories', NEW r \in Requests, Leave(r)
    PROVE  /\ Series(r)' = Series(r)
           /\ \/ (Counted(r)' <=> Counted(r)) /\ UNCHANGED total
              \/ ~Counted(r) /\ Counted(r)' /\ total' = Inc(Series(r))
<1>1. HTypes /\ HTypes' /\ Story(r) /\ Story(r)'
  BY DEF Stories
<1>2. stage[r] = "leave" /\ depth[r] \in 1 .. 5
  BY <1>1, Owned DEF Leave
<1>3. Series(r)' = Series(r)
  BY DEF Leave, ctxVars, Series
<1>4. /\ depth'[r] = depth[r] - 1
      /\ stage'[r] = IF depth[r] = 1 THEN "answered" ELSE "leave"
  BY <1>1, <1>2 DEF Leave, HTypes, HttpTypeOK
<1>5. Counted(r) <=> depth[r] <= 3
  BY <1>1, <1>2, CountedWhere DEF PastMetrics
<1>6. Counted(r)' <=> PastMetrics(r)'
  BY <1>1, CountedWhereNext
<1>7. Innermost(r) = "Metrics" <=> depth[r] = 4
  BY <1>2, ChainFacts, Numbers DEF Innermost
<1>8. CASE depth[r] = 4
  <2>1. Metrics(r)
    BY <1>7, <1>8 DEF Leave
  <2> QED
    BY <1>3, <1>4, <1>5, <1>6, <1>8, <2>1 DEF Metrics, PastMetrics
<1>9. CASE depth[r] # 4
  <2>1. UNCHANGED total
    BY <1>7, <1>9 DEF Leave, Logger, EndTracing, obsVars
  <2>2. CASE depth[r] # 1
    BY <1>2, <1>3, <1>4, <1>5, <1>6, <1>9, <2>1, <2>2 DEF PastMetrics
  <2>3. CASE depth[r] = 1
    <3>1. ~Panicked(r)
      <4>1. LinesOf(r) \subseteq {CompletedLine(r)}
        BY <1>1, <1>2 DEF Story, Returned
      <4>2. CompletedLine(r).event = "request completed"
        BY DEF CompletedLine
      <4>3. \A l \in LinesOf(r) : l.event = "request completed"
        BY <4>1, <4>2
      <4> QED
        BY <4>3 DEF Panicked, LinesOf
    <3>2. Innermost(r) = "Recoverer"
      BY <2>3, ChainFacts DEF Innermost
    <3>3. UNCHANGED lines
      BY <3>2 DEF Leave, obsVars
    <3>4. ~Panicked(r)'
      BY <3>1, <3>3 DEF Panicked
    <3> QED
      BY <1>3, <1>4, <1>5, <1>6, <2>1, <2>3, <3>4 DEF PastMetrics
  <2> QED
    BY <2>2, <2>3
<1> QED
  BY <1>8, <1>9

LEMMA CountInvStep ==
    ASSUME Stories, Stories', CountInv, [HttpNext]_hvars
    PROVE  CountInv'
<1>1. CASE LoadConfig \/ LoadPanics \/ Register \/ Stop \/ ShutdownReturns
           \/ UNCHANGED hvars
  <2>1. UNCHANGED <<stage, depth, values, query, resp, lines, total>>
    BY <1>1 DEF LoadConfig, LoadPanics, Register, Stop, ShutdownReturns, hvars,
                flightVars, ctxVars, obsVars
  <2>2. \A x \in Requests : /\ Counted(x)' <=> Counted(x)
                            /\ Series(x)' = Series(x)
    BY <2>1 DEF Counted, Answered, Panicked, Series
  <2> QED
    BY <2>1, <2>2, CountKept
<1>2. ASSUME NEW r \in Requests, Enter(r) \/ GoOn(r) \/ Panic(r)
      PROVE  CountInv'
  <2>1. \A x \in Requests \ {r} : /\ Counted(x)' <=> Counted(x)
                                  /\ Counted(x) => Series(x)' = Series(x)
    BY <1>2, OthersCounted DEF Stories
  <2>2. CASE Leave(r)
    <3>1. CASE (Counted(r)' <=> Counted(r)) /\ UNCHANGED total
      BY <2>1, <2>2, <3>1, LeaveCounts, CountKept
    <3>2. CASE ~Counted(r) /\ Counted(r)' /\ total' = Inc(Series(r))
      BY <2>1, <2>2, <3>2, LeaveCounts, CountOne
    <3> QED
      BY <2>2, <3>1, <3>2, LeaveCounts
  <2>3. CASE ~Leave(r)
    <3>1. ~Counted(r) /\ ~Counted(r)' /\ UNCHANGED total
      BY <1>2, <2>3, NotYetCounted DEF GoOn
    <3> QED
      BY <2>1, <3>1, CountKept
  <2> QED
    BY <2>2, <2>3
<1> QED
  BY <1>1, <1>2 DEF HttpNext

LEMMA CountInvInit ==
    ASSUME HttpInit
    PROVE  CountInv
<1>1. AllCounted = {}
  BY DEF HttpInit, AllCounted, Counted, Answered
<1>2. total = [s \in {} |-> 0]
  BY DEF HttpInit
<1>3. total = [s \in {Series(r) : r \in AllCounted} |-> Cardinality(CountedAs(s))]
  BY <1>1, <1>2
<1> QED
  BY <1>1, <1>3, FS_EmptySet DEF CountInv, ReturnedAreCounted, CountOf, AllCounted, CountedAs

(***************************************************************************)
(* However many requests there are and however they interleave, the        *)
(* counter of a method, a pattern and a status is the number of requests   *)
(* that have come back up through Metrics and get this status: none is     *)
(* counted twice, none under the labels of another or of an earlier state  *)
(* of its response (middleware.go).  It is not the total of its help text: *)
(* those that panicked are missing from it.                                *)
(***************************************************************************)
THEOREM ReturnsAreCounted == HttpSpec => []ReturnedAreCounted
<1>1. HttpInit => Stories /\ CountInv
  BY InitStories, CountInvInit
<1>2. Stories /\ [HttpNext]_hvars => Stories'
  BY NextStories
<1>3. Stories /\ Stories' /\ CountInv /\ [HttpNext]_hvars => CountInv'
  BY CountInvStep
<1>4. CountInv => ReturnedAreCounted
  BY DEF CountInv
<1> QED
  BY <1>1, <1>2, <1>3, <1>4, PTL DEF HttpSpec
=============================================================================
