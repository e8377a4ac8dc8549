-------------------------- MODULE HttpServer_proofs --------------------------
(***************************************************************************)
(* Theorems about HttpServer, for any number of requests and whatever      *)
(* clients send.                                                           *)
(***************************************************************************)
EXTENDS HttpServer, TLAPS

USE DEF NewNotFound, NewValidation, NewUnauthorized, NewInternal,
        NewLogger, RegisterTracing

LEMMA ChainFacts ==
    /\ Len(Chain) = 5
    /\ Chain[1] = "Recoverer"
    /\ Chain[2] = "RequestID"
    /\ Chain[3] = "Tracing"
    /\ Chain[4] = "Metrics"
    /\ Chain[5] = "Logger"
  BY DEF Chain

LEMMA Numbers == \A d \in 1 .. 5 : d = 1 \/ d = 2 \/ d = 3 \/ d = 4 \/ d = 5
  OBVIOUS

(* A query that clients make has the fields of Query. *)
LEMMA QueryTypes ==
    ASSUME NEW q \in Queries
    PROVE  /\ q.route \in Routes \cup {"unknown"}
           /\ q.method \in Methods
           /\ q.id \in Ids \cup {Nil}
           /\ q.parent # Nil => q.parent.trace \in Ids /\ q.parent.sampled \in BOOLEAN
           /\ q # Nil
  BY HttpAssumption DEF Query

LEMMA MakeSpan ==
    ASSUME NEW t \in Ids \cup Requests, NEW b \in BOOLEAN,
           NEW s \in Statuses \cup {0}, NEW e \in BOOLEAN, NEW d \in BOOLEAN
    PROVE  [trace |-> t, recorded |-> b, status |-> s, error |-> e, ended |-> d]
               \in Span
  BY DEF Span

LEMMA Members ==
    /\ "none" \in Kinds /\ "map" \in Kinds /\ "session" \in Kinds
    /\ "error" \in Kinds /\ "text" \in Kinds
    /\ 200 \in Statuses /\ 201 \in Statuses /\ 204 \in Statuses
    /\ 301 \in Statuses /\ 400 \in Statuses /\ 401 \in Statuses
    /\ 404 \in Statuses /\ 405 \in Statuses /\ 500 \in Statuses
    /\ 503 \in Statuses
  BY DEF Kinds, Statuses

LEMMA MakeResponse ==
    ASSUME NEW s \in Statuses, NEW b \in Kinds,
           NEW i \in Ids \cup Requests \cup {Nil}
    PROVE  [status |-> s, body |-> b, id |-> i] \in Response
  BY DEF Response

LEMMA MakeValues ==
    ASSUME NEW i \in Ids \cup Requests, NEW p \in Patterns
    PROVE  [request_id |-> i, route_pattern |-> p] \in UserValues
  BY DEF UserValues
-----------------------------------------------------------------------------
(* Types. *)

(* What a request that has arrived carries. *)
Carried ==
    \A r \in Requests : stage[r] # "idle" =>
        /\ query[r] \in Queries
        /\ values[r] \in UserValues
        /\ resp[r] \in Response
        /\ stage[r] # "answered" => depth[r] \in 1 .. 5

HTypes == HttpTypeOK /\ Carried

LEMMA ProcessTypes ==
    ASSUME HTypes,
           LoadConfig \/ LoadPanics \/ Register \/ Stop \/ ShutdownReturns
    PROVE  HTypes'
<1>1. UNCHANGED <<query, stage, depth, values, resp, span, outcome, lines, total>>
  BY DEF LoadConfig, LoadPanics, Register, Stop, ShutdownReturns, flightVars,
         ctxVars, obsVars
<1>2. /\ phase' \in Phases
      /\ tracing' \in BOOLEAN /\ verbose' \in BOOLEAN /\ ready' \in BOOLEAN
  BY DEF HTypes, HttpTypeOK, LoadConfig, LoadPanics, Register, Stop,
         ShutdownReturns, Phases
<1>3. settings' \in [Keys -> {"env", "file", "default", "zero"}] \cup {Nil}
  BY DEF HTypes, HttpTypeOK, LoadConfig, LoadPanics, Register, Stop,
         ShutdownReturns, Load
<1> QED
  BY <1>1, <1>2, <1>3 DEF HTypes, HttpTypeOK, Carried

LEMMA EnterTypes ==
    ASSUME HTypes, NEW r \in Requests, Enter(r)
    PROVE  HTypes'
<1>1. PICK q \in Queries :
          /\ query' = [query EXCEPT ![r] = q]
          /\ values' = [values EXCEPT ![r] =
                [request_id |-> RequestID(r, q), route_pattern |-> "unknown"]]
          /\ resp' = [resp EXCEPT ![r] =
                [status |-> 200, body |-> "none", id |-> RequestID(r, q)]]
          /\ span' = [span EXCEPT ![r] = StartSpan(r, q)]
  BY DEF Enter
<1>2. RequestID(r, q) \in Ids \cup Requests
  BY QueryTypes DEF RequestID
<1>3. StartSpan(r, q) \in Span \cup {Nil}
  <2>1. (q.parent = Nil \/ q.parent.sampled) \in BOOLEAN
    BY Zenon
  <2>2. (IF q.parent = Nil THEN r ELSE q.parent.trace) \in Ids \cup Requests
    BY QueryTypes
  <2> QED
    BY <2>1, <2>2, MakeSpan, Zenon DEF StartSpan
<1>4. [request_id |-> RequestID(r, q), route_pattern |-> "unknown"] \in UserValues
  BY <1>2, MakeValues DEF Patterns
<1>5. [status |-> 200, body |-> "none", id |-> RequestID(r, q)] \in Response
  <2>1. RequestID(r, q) \in Ids \cup Requests \cup {Nil}
    BY <1>2
  <2> QED
    BY <2>1, Members, MakeResponse
<1>6. /\ stage' = [stage EXCEPT ![r] = "route"]
      /\ depth' = [depth EXCEPT ![r] = 5]
      /\ UNCHANGED <<phase, settings, tracing, verbose, ready, outcome, lines, total>>
  BY ChainFacts DEF Enter, procVars
<1>7. /\ span' \in [Requests -> Span \cup {Nil}]
      /\ query' \in [Requests -> Queries \cup {Nil}]
  BY <1>1, <1>3 DEF HTypes, HttpTypeOK
<1>8. /\ values' \in [Requests -> UserValues \cup {Nil}]
      /\ resp' \in [Requests -> Response \cup {Nil}]
  BY <1>1, <1>4, <1>5 DEF HTypes, HttpTypeOK
<1>9. /\ stage' \in [Requests -> Stages]
      /\ depth' \in [Requests -> 0 .. Len(Chain)]
  <2>1. /\ stage \in [Requests -> Stages] /\ "route" \in Stages
        /\ depth \in [Requests -> 0 .. 5] /\ Len(Chain) = 5
    BY ChainFacts DEF HTypes, HttpTypeOK, Stages
  <2> QED
    BY <1>6, <2>1
<1>10. Carried'
  <2>1. SUFFICES ASSUME NEW x \in Requests, stage'[x] # "idle"
                 PROVE  /\ query'[x] \in Queries
                        /\ values'[x] \in UserValues
                        /\ resp'[x] \in Response
                        /\ stage'[x] # "answered" => depth'[x] \in 1 .. 5
    BY DEF Carried
  <2> /\ query \in [Requests -> Queries \cup {Nil}]
      /\ values \in [Requests -> UserValues \cup {Nil}]
      /\ resp \in [Requests -> Response \cup {Nil}]
      /\ stage \in [Requests -> Stages]
      /\ depth \in [Requests -> 0 .. 5]
    BY ChainFacts DEF HTypes, HttpTypeOK
  <2>2. CASE x = r
    BY <1>1, <1>4, <1>5, <1>6, <2>2
  <2>3. CASE x # r
    BY <1>1, <1>6, <2>1, <2>3 DEF HTypes, Carried
  <2> QED
    BY <2>2, <2>3
<1> QED
  BY <1>6, <1>7, <1>8, <1>9, <1>10 DEF HTypes, HttpTypeOK

(* A step of request r, after its arrival, changes what r has and what     *)
(* requests share; every new value has its type.                           *)
SetValues(r) == \E v \in UserValues : values' = [values EXCEPT ![r] = v]
SetResp(r) == \E w \in Response : resp' = [resp EXCEPT ![r] = w]
SetSpan(r) == \E s \in Span \cup {Nil} : span' = [span EXCEPT ![r] = s]
SetOutcome(r) == \E o \in Effects : outcome' = [outcome EXCEPT ![r] = o]
SetStage(r) ==
    \E st \in Stages \ {"idle", "answered"} : stage' = [stage EXCEPT ![r] = st]

Moved(r) ==
    /\ UNCHANGED <<procVars, query>>
    /\ SetValues(r) /\ SetResp(r) /\ SetSpan(r) /\ SetOutcome(r)
    /\ \E st \in Stages \ {"idle"}, d \in 0 .. 5 :
          /\ stage' = [stage EXCEPT ![r] = st]
          /\ depth' = [depth EXCEPT ![r] = d]
          /\ st # "answered" => d # 0
    /\ lines' \subseteq LogLine
    /\ DOMAIN total' \subseteq Labels
    /\ \A s \in DOMAIN total' : total'[s] \in Nat

LEMMA MovedTypes ==
    ASSUME HTypes, NEW r \in Requests, stage[r] # "idle", Moved(r)
    PROVE  HTypes'
<1>1. PICK v \in UserValues : values' = [values EXCEPT ![r] = v]
  BY DEF Moved, SetValues
<1>2. PICK w \in Response : resp' = [resp EXCEPT ![r] = w]
  BY DEF Moved, SetResp
<1>3. PICK s \in Span \cup {Nil} : span' = [span EXCEPT ![r] = s]
  BY DEF Moved, SetSpan
<1>4. PICK o \in Effects : outcome' = [outcome EXCEPT ![r] = o]
  BY DEF Moved, SetOutcome
<1>5. PICK st \in Stages \ {"idle"}, d \in 0 .. 5 :
          /\ stage' = [stage EXCEPT ![r] = st]
          /\ depth' = [depth EXCEPT ![r] = d]
          /\ st # "answered" => d # 0
  BY DEF Moved
<1>6. /\ values' \in [Requests -> UserValues \cup {Nil}]
      /\ resp' \in [Requests -> Response \cup {Nil}]
  BY <1>1, <1>2 DEF HTypes, HttpTypeOK
<1>7. /\ span' \in [Requests -> Span \cup {Nil}]
      /\ outcome' \in [Requests -> Effects]
  BY <1>3, <1>4 DEF HTypes, HttpTypeOK
<1>8. /\ stage' \in [Requests -> Stages]
      /\ depth' \in [Requests -> 0 .. Len(Chain)]
  <2>1. /\ stage \in [Requests -> Stages]
        /\ depth \in [Requests -> 0 .. 5] /\ Len(Chain) = 5
    BY ChainFacts DEF HTypes, HttpTypeOK
  <2> QED
    BY <1>5, <2>1
<1>9. Carried'
  <2>1. /\ query \in [Requests -> Queries \cup {Nil}]
        /\ values \in [Requests -> UserValues \cup {Nil}]
        /\ resp \in [Requests -> Response \cup {Nil}]
        /\ stage \in [Requests -> Stages]
        /\ depth \in [Requests -> 0 .. 5]
        /\ UNCHANGED query
    BY ChainFacts DEF HTypes, HttpTypeOK, Moved
  <2>2. SUFFICES ASSUME NEW x \in Requests, stage'[x] # "idle"
                 PROVE  /\ query'[x] \in Queries
                        /\ values'[x] \in UserValues
                        /\ resp'[x] \in Response
                        /\ stage'[x] # "answered" => depth'[x] \in 1 .. 5
    BY DEF Carried
  <2>3. CASE x = r
    BY <1>1, <1>2, <1>5, <2>1, <2>3 DEF HTypes, Carried
  <2>4. CASE x # r
    BY <1>1, <1>2, <1>5, <2>1, <2>2, <2>4 DEF HTypes, Carried
  <2> QED
    BY <2>3, <2>4
<1>10. UNCHANGED <<phase, settings, tracing, verbose, ready, query>>
  BY DEF Moved, procVars
<1>11. /\ lines' \subseteq LogLine
       /\ DOMAIN total' \subseteq Labels
       /\ \A x \in DOMAIN total' : total'[x] \in Nat
  BY DEF Moved
<1> QED
  BY <1>6, <1>7, <1>8, <1>9, <1>10, <1>11 DEF HTypes, HttpTypeOK

(* What r has is typed, and putting it back changes nothing. *)
LEMMA Owned ==
    ASSUME HTypes, NEW r \in Requests, stage[r] # "idle"
    PROVE  /\ query[r] \in Queries
           /\ values[r] \in UserValues /\ values = [values EXCEPT ![r] = values[r]]
           /\ resp[r] \in Response /\ resp = [resp EXCEPT ![r] = resp[r]]
           /\ span[r] \in Span \cup {Nil} /\ span = [span EXCEPT ![r] = span[r]]
           /\ outcome[r] \in Effects /\ outcome = [outcome EXCEPT ![r] = outcome[r]]
           /\ stage[r] \in Stages /\ stage = [stage EXCEPT ![r] = stage[r]]
           /\ depth[r] \in 0 .. 5 /\ depth = [depth EXCEPT ![r] = depth[r]]
           /\ stage[r] # "answered" => depth[r] \in 1 .. 5
           /\ lines \subseteq LogLine
           /\ DOMAIN total \subseteq Labels
           /\ \A s \in DOMAIN total : total[s] \in Nat
<1>1. /\ values \in [Requests -> UserValues \cup {Nil}]
      /\ resp \in [Requests -> Response \cup {Nil}]
      /\ span \in [Requests -> Span \cup {Nil}]
      /\ outcome \in [Requests -> Effects]
      /\ stage \in [Requests -> Stages]
      /\ depth \in [Requests -> 0 .. 5]
  BY ChainFacts DEF HTypes, HttpTypeOK
<1>2. /\ query[r] \in Queries
      /\ values[r] \in UserValues
      /\ resp[r] \in Response
      /\ stage[r] # "answered" => depth[r] \in 1 .. 5
  BY DEF HTypes, Carried
<1>3. /\ lines \subseteq LogLine
      /\ DOMAIN total \subseteq Labels
      /\ \A s \in DOMAIN total : total[s] \in Nat
  BY DEF HTypes, HttpTypeOK
<1> QED
  BY <1>1, <1>2, <1>3

(* What a step leaves alone. *)
LEMMA Kept ==
    ASSUME HTypes, NEW r \in Requests, stage[r] # "idle"
    PROVE  /\ UNCHANGED values => SetValues(r)
           /\ UNCHANGED resp => SetResp(r)
           /\ UNCHANGED span => SetSpan(r)
           /\ UNCHANGED outcome => SetOutcome(r)
<1>1. UNCHANGED values => SetValues(r)
  BY Owned DEF SetValues
<1>2. UNCHANGED resp => SetResp(r)
  BY Owned DEF SetResp
<1>3. UNCHANGED span => SetSpan(r)
  BY Owned DEF SetSpan
<1>4. UNCHANGED outcome => SetOutcome(r)
  BY Owned DEF SetOutcome
<1> QED
  BY <1>1, <1>2, <1>3, <1>4

LEMMA Staged ==
    ASSUME NEW r \in Requests,
           NEW st \in {"route", "handler", "bind", "service", "leave", "panic"},
           stage' = [stage EXCEPT ![r] = st]
    PROVE  SetStage(r)
<1>1. st \in Stages \ {"idle", "answered"}
  BY DEF Stages
<1> QED
  BY <1>1 DEF SetStage

(* What Respond writes. *)
LEMMA Responded ==
    ASSUME HTypes, NEW r \in Requests, stage[r] # "idle",
           NEW status \in Statuses, NEW body \in Kinds, Respond(r, status, body)
    PROVE  /\ SetResp(r)
           /\ resp'[r].status = status /\ resp'[r].body = body
           /\ resp'[r].id = resp[r].id
           /\ stage' = [stage EXCEPT ![r] = "leave"]
<1> DEFINE w == [status |-> status, body |-> body, id |-> resp[r].id]
<1>1. resp[r] \in Response /\ resp \in [Requests -> Response \cup {Nil}]
  BY Owned DEF HTypes, HttpTypeOK
<1>2. resp[r].id \in Ids \cup Requests \cup {Nil}
  BY <1>1 DEF Response
<1>3. w \in Response
  BY <1>2, MakeResponse
<1>4. /\ resp' = [resp EXCEPT ![r] = w]
      /\ stage' = [stage EXCEPT ![r] = "leave"]
  BY DEF Respond
<1>5. w.status = status /\ w.body = body /\ w.id = resp[r].id
  OBVIOUS
<1> HIDE DEF w
<1>6. resp'[r] = w
  BY <1>1, <1>4
<1> QED
  BY <1>3, <1>4, <1>5, <1>6 DEF SetResp

(* WriteJSON responds, as asked or with an error. *)
LEMMA Written ==
    ASSUME HTypes, NEW r \in Requests, stage[r] # "idle",
           NEW status \in Statuses, NEW body \in Kinds,
           WriteJSON(r, status, body)
    PROVE  /\ SetResp(r)
           /\ \/ resp'[r].status = status /\ resp'[r].body = body
              \/ /\ resp'[r].status = 500 /\ resp'[r].body = "error"
                 /\ body = "session"
           /\ resp'[r].id = resp[r].id
           /\ stage' = [stage EXCEPT ![r] = "leave"]
<1>1. CASE Respond(r, status, body)
  BY <1>1, Responded
<1>2. CASE body = "session" /\ Respond(r, 500, "error")
  <2>1. 500 \in Statuses /\ "error" \in Kinds
    BY Members
  <2> QED
    BY <1>2, <2>1, Responded
<1> QED
  BY <1>1, <1>2 DEF WriteJSON

(* Going on inside the chain: stage and outcome change, maybe the response. *)
LEMMA HandlerMoves ==
    ASSUME HTypes, NEW r \in Requests, stage[r] \notin {"idle", "answered"},
           UNCHANGED <<procVars, query, depth, obsVars>>,
           SetValues(r), SetResp(r), SetOutcome(r), SetStage(r)
    PROVE  Moved(r)
<1>1. depth' = depth /\ span' = span /\ lines' = lines /\ total' = total
  BY DEF obsVars
<1>2. /\ depth[r] \in 0 .. 5 /\ depth[r] # 0
      /\ depth' = [depth EXCEPT ![r] = depth[r]]
      /\ SetSpan(r)
  BY <1>1, Owned, Kept
<1>3. PICK st \in Stages \ {"idle", "answered"} : stage' = [stage EXCEPT ![r] = st]
  BY DEF SetStage
<1>4. /\ lines' \subseteq LogLine
      /\ DOMAIN total' \subseteq Labels
      /\ \A s \in DOMAIN total' : total'[s] \in Nat
  BY <1>1, Owned
<1> QED
  BY <1>2, <1>3, <1>4 DEF Moved

(* The router answers with one of four statuses. *)
LEMMA RouterStatuses == \A q : \A s \in RouterAnswers(q) : s \in {200, 301, 404, 405}
  BY DEF RouterAnswers

LEMMA RouteMoves ==
    ASSUME HTypes, NEW r \in Requests, Route(r)
    PROVE  Moved(r)
<1>1. /\ stage[r] = "route"
      /\ UNCHANGED <<procVars, query, depth, outcome, obsVars>>
  BY DEF Route
<1>2. SetOutcome(r) /\ resp[r] \in Response /\ values[r] \in UserValues /\ query[r] \in Queries
  BY <1>1, Owned, Kept
<1>3. CASE Unrouted(r)
  <2>1. PICK s \in RouterAnswers(query[r]) :
            resp' = [resp EXCEPT ![r] = [status |-> s, body |-> "text",
                         id |-> IF s = 404 THEN Nil ELSE resp[r].id]]
    BY <1>3 DEF Unrouted
  <2>0. s \in {200, 301, 404, 405}
    BY RouterStatuses
  <2> DEFINE i == IF s = 404 THEN Nil ELSE resp[r].id
             w == [status |-> s, body |-> "text", id |-> i]
  <2>2. i \in Ids \cup Requests \cup {Nil}
    BY <1>2 DEF Response
  <2>3. resp' = [resp EXCEPT ![r] = w] /\ s \in Statuses
    BY <2>0, <2>1, Members
  <2> HIDE DEF i
  <2>4. w \in Response
    BY <2>2, <2>3, Members, MakeResponse
  <2> HIDE DEF w
  <2>5. SetResp(r)
    BY <2>3, <2>4 DEF SetResp
  <2>6. UNCHANGED values /\ stage' = [stage EXCEPT ![r] = "leave"]
    BY <1>3 DEF Unrouted
  <2>7. SetValues(r)
    BY <1>1, <2>6, Kept
  <2>8. SetStage(r)
    BY <2>6, Staged
  <2> QED
    BY <1>1, <1>2, <2>5, <2>7, <2>8, HandlerMoves
<1>4. CASE ~Unrouted(r)
  <2>1. /\ query[r].route \in Patterns
        /\ values' = [values EXCEPT ![r].route_pattern = query[r].route]
    BY <1>2, <1>4, QueryTypes DEF Route, Patterns
  <2>2. SetValues(r)
    <3> DEFINE v == [values[r] EXCEPT !.route_pattern = query[r].route]
    <3>1. v \in UserValues
      BY <1>2, <2>1 DEF UserValues
    <3>2. values' = [values EXCEPT ![r] = v]
      BY <2>1
    <3> HIDE DEF v
    <3> QED
      BY <3>1, <3>2 DEF SetValues
  <2>3. CASE AdaptedHandler(r)
    <3>1. PICK s \in {200, 404} : Respond(r, s, "text")
      BY <2>3 DEF AdaptedHandler
    <3>2. s \in Statuses /\ "text" \in Kinds
      BY Members
    <3>3. SetResp(r) /\ stage' = [stage EXCEPT ![r] = "leave"]
      BY <1>1, <3>1, <3>2, Responded
    <3> QED
      BY <1>1, <1>2, <2>2, <3>3, Staged, HandlerMoves
  <2>4. CASE stage' = [stage EXCEPT ![r] = "handler"] /\ UNCHANGED resp
    BY <1>1, <1>2, <2>2, <2>4, Kept, Staged, HandlerMoves
  <2> QED
    BY <1>4, <2>3, <2>4 DEF Route
<1> QED
  BY <1>3, <1>4

LEMMA ProbeMoves ==
    ASSUME HTypes, NEW r \in Requests, ProbeHandler(r)
    PROVE  Moved(r)
<1>1. /\ stage[r] = "handler"
      /\ UNCHANGED <<procVars, query, depth, values, obsVars>>
  BY DEF ProbeHandler
<1>2. SetValues(r)
  BY <1>1, Kept
<1>3. SetOutcome(r)
  <2>1. "refused" \in Effects /\ "done" \in Effects
    BY DEF Effects
  <2> QED
    BY <2>1 DEF ProbeHandler, SetOutcome
<1>4. WriteJSON(r, 503, "map") \/ WriteJSON(r, 200, "map")
  BY DEF ProbeHandler
<1>5. SetResp(r) /\ stage' = [stage EXCEPT ![r] = "leave"]
  BY <1>1, <1>4, Written, Members
<1>6. SetStage(r)
  BY <1>5, Staged
<1> QED
  BY <1>1, <1>2, <1>3, <1>5, <1>6, HandlerMoves

LEMMA UserIDMoves ==
    ASSUME HTypes, NEW r \in Requests, UserID(r)
    PROVE  Moved(r)
<1>1. /\ stage[r] = "handler"
      /\ UNCHANGED <<procVars, query, depth, values, outcome, obsVars>>
  BY DEF UserID, ctxVars
<1>2. SetValues(r) /\ SetOutcome(r)
  BY <1>1, Kept
<1>3. CASE WriteError(r, 401)
  <2>1. SetResp(r) /\ stage' = [stage EXCEPT ![r] = "leave"]
    BY <1>1, <1>3, Written, Members DEF WriteError
  <2>2. SetStage(r)
    BY <2>1, Staged
  <2> QED
    BY <1>1, <1>2, <2>1, <2>2, HandlerMoves
<1>4. CASE ~WriteError(r, 401)
  <2>1. /\ \/ stage' = [stage EXCEPT ![r] = "service"]
           \/ stage' = [stage EXCEPT ![r] = "bind"]
        /\ UNCHANGED resp
    BY <1>4 DEF UserID
  <2>2. SetResp(r)
    BY <1>1, <2>1, Kept
  <2>3. SetStage(r)
    BY <2>1, Staged
  <2> QED
    BY <1>1, <1>2, <2>2, <2>3, HandlerMoves
<1> QED
  BY <1>3, <1>4

LEMMA BindMoves ==
    ASSUME HTypes, NEW r \in Requests, BindJSON(r)
    PROVE  Moved(r)
<1>1. /\ stage[r] = "bind"
      /\ UNCHANGED <<procVars, query, depth, values, outcome, obsVars>>
  BY DEF BindJSON, ctxVars
<1>2. SetValues(r) /\ SetOutcome(r)
  BY <1>1, Kept
<1>3. CASE WriteError(r, 400)
  <2>1. SetResp(r) /\ stage' = [stage EXCEPT ![r] = "leave"]
    BY <1>1, <1>3, Written, Members DEF WriteError
  <2>2. SetStage(r)
    BY <2>1, Staged
  <2> QED
    BY <1>1, <1>2, <2>1, <2>2, HandlerMoves
<1>4. CASE ~WriteError(r, 400)
  <2>1. stage' = [stage EXCEPT ![r] = "service"] /\ UNCHANGED resp
    BY <1>4 DEF BindJSON
  <2>2. SetResp(r)
    BY <1>1, <2>1, Kept
  <2>3. SetStage(r)
    BY <2>1, Staged
  <2> QED
    BY <1>1, <1>2, <2>2, <2>3, HandlerMoves
<1> QED
  BY <1>3, <1>4

(* The service has returned o, and the handler has written its answer. *)
Answers(r, o) ==
    \/ /\ o = "done"
       /\ \/ query[r].route = "heartbeat" /\ Respond(r, 204, "none")
          \/ query[r].route = "start" /\ WriteJSON(r, 201, "session")
          \/ /\ query[r].route \notin {"heartbeat", "start"}
             /\ WriteJSON(r, 200, "session")
    \/ o = "missing" /\ WriteError(r, 404)
    \/ o = "failed" /\ WriteError(r, 500)

LEMMA ServiceMoves ==
    ASSUME HTypes, NEW r \in Requests, ServiceReturns(r)
    PROVE  Moved(r)
<1>1. /\ stage[r] = "service"
      /\ UNCHANGED <<procVars, query, depth, values, obsVars>>
  BY DEF ServiceReturns
<1>2. PICK o \in Outcomes(query[r].route) :
          outcome' = [outcome EXCEPT ![r] = o] /\ Answers(r, o)
  BY DEF ServiceReturns, Answers
<1>3. SetValues(r)
  BY <1>1, Kept
<1>4. SetOutcome(r)
  <2>1. o \in Effects
    BY DEF Effects, Outcomes
  <2> QED
    BY <1>2, <2>1 DEF SetOutcome
<1>5. SetResp(r) /\ stage' = [stage EXCEPT ![r] = "leave"]
  <2>1. CASE Respond(r, 204, "none")
    BY <1>1, <2>1, Responded, Members
  <2>2. CASE ~Respond(r, 204, "none")
    <3>1. \/ WriteJSON(r, 201, "session") \/ WriteJSON(r, 200, "session")
          \/ WriteJSON(r, 404, "error") \/ WriteJSON(r, 500, "error")
      BY <1>2, <2>2 DEF Answers, WriteError
    <3> QED
      BY <1>1, <3>1, Written, Members
  <2> QED
    BY <2>1, <2>2
<1>6. SetStage(r)
  BY <1>5, Staged
<1> QED
  BY <1>1, <1>3, <1>4, <1>5, <1>6, HandlerMoves

LEMMA PanicMoves ==
    ASSUME HTypes, NEW r \in Requests, Panic(r)
    PROVE  Moved(r)
<1>1. /\ stage[r] \notin {"idle", "answered"}
      /\ stage' = [stage EXCEPT ![r] = "panic"]
      /\ UNCHANGED <<procVars, query, depth, values, resp, outcome, obsVars>>
  BY DEF Panic, ctxVars
<1>2. SetValues(r) /\ SetResp(r) /\ SetOutcome(r)
  BY <1>1, Kept
<1>3. SetStage(r)
  BY <1>1, Staged
<1> QED
  BY <1>1, <1>2, <1>3, HandlerMoves

(* The values the way up writes. *)
LEMMA SpanUpdates ==
    ASSUME NEW s \in Span, NEW st \in Statuses \cup {0}, NEW e \in BOOLEAN
    PROVE  /\ [s EXCEPT !.ended = TRUE] \in Span
           /\ [s EXCEPT !.error = TRUE] \in Span
           /\ [s EXCEPT !.status = st, !.error = e, !.ended = TRUE] \in Span
  BY DEF Span

LEMMA LineTypes ==
    ASSUME HTypes, NEW r \in Requests, stage[r] # "idle"
    PROVE  Line(r) \in LogLine /\ PanicLine(r) \in LogLine
<1>1. resp[r].status \in Statuses
  BY Owned DEF Response
<1>2. values[r].request_id \in Ids \cup Requests
  BY Owned DEF UserValues
<1>3. (IF span[r] = Nil THEN Nil ELSE span[r].trace) \in Ids \cup Requests \cup {Nil}
  BY Owned DEF Span
<1> DEFINE t == IF span[r] = Nil THEN Nil ELSE span[r].trace
<1> HIDE DEF t
<1>4. [req |-> r, event |-> "request completed", status |-> resp[r].status,
       id |-> values[r].request_id, trace |-> t] \in LogLine
  BY <1>1, <1>2, <1>3 DEF LogLine, t
<1>5. PanicLine(r) \in LogLine
  BY <1>2 DEF LogLine, PanicLine
<1> QED
  BY <1>4, <1>5 DEF Line, t

LEMMA SeriesTypes ==
    ASSUME HTypes, NEW r \in Requests, stage[r] # "idle"
    PROVE  /\ DOMAIN Inc(Series(r)) \subseteq Labels
           /\ \A s \in DOMAIN Inc(Series(r)) : Inc(Series(r))[s] \in Nat
<1>1. /\ resp[r].status \in Statuses
      /\ values[r].route_pattern \in Patterns
      /\ query[r].method \in Methods
  BY Owned, QueryTypes DEF Response, UserValues
<1>2. Series(r) \in Labels
  BY <1>1 DEF Series, Labels
<1>3. /\ DOMAIN total \subseteq Labels
      /\ \A s \in DOMAIN total : total[s] \in Nat
  BY Owned
<1> QED
  BY <1>2, <1>3 DEF Inc

LEMMA LeaveMoves ==
    ASSUME HTypes, NEW r \in Requests, Leave(r)
    PROVE  Moved(r)
<1>1. /\ stage[r] = "leave"
      /\ UNCHANGED <<procVars, query, values, outcome, resp>>
      /\ depth' = [depth EXCEPT ![r] = depth[r] - 1]
      /\ stage' = [stage EXCEPT ![r] = IF depth[r] = 1 THEN "answered" ELSE "leave"]
  BY DEF Leave, ctxVars
<1>2. SetValues(r) /\ SetResp(r) /\ SetOutcome(r)
  BY <1>1, Kept
<1>3. PICK st \in Stages \ {"idle"}, d \in 0 .. 5 :
          /\ stage' = [stage EXCEPT ![r] = st]
          /\ depth' = [depth EXCEPT ![r] = d]
          /\ st # "answered" => d # 0
  <2> DEFINE st == IF depth[r] = 1 THEN "answered" ELSE "leave"
  <2>1. depth[r] \in 1 .. 5
    BY <1>1, Owned
  <2>2. /\ st \in Stages \ {"idle"}
        /\ depth[r] - 1 \in 0 .. 5
        /\ st # "answered" => depth[r] - 1 # 0
    BY <2>1 DEF Stages
  <2> QED
    BY <1>1, <2>2
<1>4. /\ lines' \subseteq LogLine
      /\ DOMAIN total' \subseteq Labels
      /\ \A s \in DOMAIN total' : total'[s] \in Nat
      /\ SetSpan(r)
  <2>1. /\ lines \subseteq LogLine
        /\ DOMAIN total \subseteq Labels
        /\ \A s \in DOMAIN total : total[s] \in Nat
    BY <1>1, Owned
  <2>2. CASE Logger(r)
    <3>1. span' = span /\ total' = total
      BY <2>2 DEF Logger
    <3>2. lines' \subseteq LogLine
      BY <1>1, <2>1, <2>2, LineTypes DEF Logger
    <3>3. SetSpan(r)
      BY <1>1, <3>1, Kept
    <3> QED
      BY <2>1, <3>1, <3>2, <3>3
  <2>3. CASE Metrics(r)
    <3>1. span' = span /\ lines' = lines /\ total' = Inc(Series(r))
      BY <2>3 DEF Metrics
    <3>2. SetSpan(r)
      BY <1>1, <3>1, Kept
    <3>3. /\ DOMAIN Inc(Series(r)) \subseteq Labels
          /\ \A s \in DOMAIN Inc(Series(r)) : Inc(Series(r))[s] \in Nat
      BY <1>1, SeriesTypes
    <3> QED
      BY <2>1, <3>1, <3>2, <3>3
  <2>4. CASE EndTracing(r)
    <3>1. lines' = lines /\ total' = total
      BY <2>4 DEF EndTracing
    <3> DEFINE new == IF span[r] = Nil THEN Nil
                      ELSE IF IsRecording(span[r])
                           THEN [span[r] EXCEPT !.status = resp[r].status,
                                                !.error = resp[r].status >= 500,
                                                !.ended = TRUE]
                           ELSE [span[r] EXCEPT !.ended = TRUE]
    <3>2. span' = [span EXCEPT ![r] = new]
      BY <2>4 DEF EndTracing
    <3>3. new \in Span \cup {Nil}
      <4>1. resp[r].status \in Statuses \cup {0}
        BY <1>1, Owned DEF Response
      <4>2. (resp[r].status >= 500) \in BOOLEAN
        OBVIOUS
      <4>3. CASE span[r] = Nil
        BY <4>3
      <4>4. CASE span[r] # Nil
        <5>1. span[r] \in Span
          BY <1>1, <4>4, Owned
        <5> DEFINE st0 == resp[r].status
                   e0 == resp[r].status >= 500
        <5>2. st0 \in Statuses \cup {0} /\ e0 \in BOOLEAN
          BY <4>1, <4>2
        <5> HIDE DEF st0, e0
        <5>3. /\ [span[r] EXCEPT !.status = st0, !.error = e0, !.ended = TRUE] \in Span
              /\ [span[r] EXCEPT !.ended = TRUE] \in Span
          BY <5>1, <5>2, SpanUpdates
        <5> QED
          BY <4>4, <5>3, Zenon DEF st0, e0
      <4> QED
        BY <4>3, <4>4
    <3> HIDE DEF new
    <3>4. SetSpan(r)
      BY <3>2, <3>3 DEF SetSpan
    <3> QED
      BY <2>1, <3>1, <3>4
  <2>5. CASE UNCHANGED obsVars
    <3>1. span' = span /\ lines' = lines /\ total' = total
      BY <2>5 DEF obsVars
    <3>2. SetSpan(r)
      BY <1>1, <3>1, Kept
    <3> QED
      BY <2>1, <3>1, <3>2
  <2> QED
    BY <2>2, <2>3, <2>4, <2>5 DEF Leave
<1> QED
  BY <1>1, <1>2, <1>3, <1>4 DEF Moved

LEMMA UnwindMoves ==
    ASSUME HTypes, NEW r \in Requests, Unwind(r)
    PROVE  Moved(r)
<1>1. /\ stage[r] = "panic" /\ Innermost(r) # "Recoverer"
      /\ UNCHANGED <<procVars, query, values, outcome, resp, lines, total>>
      /\ depth' = [depth EXCEPT ![r] = depth[r] - 1]
      /\ UNCHANGED stage
  BY DEF Unwind, ctxVars
<1>2. SetValues(r) /\ SetResp(r) /\ SetOutcome(r)
  BY <1>1, Kept
<1>3. depth[r] - 1 \in 1 .. 5 /\ stage' = [stage EXCEPT ![r] = "panic"]
  <2>1. depth[r] \in 1 .. 5 /\ stage' = [stage EXCEPT ![r] = "panic"]
    BY <1>1, Owned
  <2>2. depth[r] # 1
    BY <1>1, ChainFacts DEF Innermost
  <2> QED
    BY <2>1, <2>2
<1>4. SetSpan(r)
  <2> DEFINE new == IF span[r] = Nil \/ Innermost(r) # "Tracing" THEN span[r]
                    ELSE [span[r] EXCEPT !.ended = TRUE]
  <2>1. span' = [span EXCEPT ![r] = new]
    BY DEF Unwind
  <2>2. new \in Span \cup {Nil}
    <3>1. span[r] \in Span \cup {Nil}
      BY <1>1, Owned
    <3>2. CASE span[r] = Nil
      BY <3>2
    <3>3. CASE span[r] # Nil
      BY <3>1, <3>3 DEF Span
    <3> QED
      BY <3>2, <3>3
  <2> HIDE DEF new
  <2> QED
    BY <2>1, <2>2 DEF SetSpan
<1>5. /\ lines' \subseteq LogLine
      /\ DOMAIN total' \subseteq Labels
      /\ \A s \in DOMAIN total' : total'[s] \in Nat
  BY <1>1, Owned
<1>6. "panic" \in Stages \ {"idle"}
  BY DEF Stages
<1>7. \E st \in Stages \ {"idle"}, d \in 0 .. 5 :
          /\ stage' = [stage EXCEPT ![r] = st]
          /\ depth' = [depth EXCEPT ![r] = d]
          /\ st # "answered" => d # 0
  <2> DEFINE d0 == depth[r] - 1
  <2>1. d0 \in 0 .. 5 /\ d0 # 0 /\ depth' = [depth EXCEPT ![r] = d0]
    BY <1>1, <1>3
  <2> HIDE DEF d0
  <2> QED
    BY <1>3, <1>6, <2>1, Zenon
<1>8. UNCHANGED <<procVars, query>>
  BY <1>1
<1> QED
  BY <1>2, <1>4, <1>5, <1>7, <1>8, Zenon DEF Moved

LEMMA RecoverMoves ==
    ASSUME HTypes, NEW r \in Requests, Recover(r)
    PROVE  Moved(r) /\ depth[r] = 1
<1>1. /\ stage[r] = "panic" /\ Innermost(r) = "Recoverer"
      /\ UNCHANGED <<procVars, query, values, outcome, total>>
      /\ depth' = [depth EXCEPT ![r] = depth[r] - 1]
      /\ stage' = [stage EXCEPT ![r] = IF depth[r] = 1 THEN "answered" ELSE "leave"]
  BY DEF Recover, ctxVars
<1>2. SetValues(r) /\ SetOutcome(r)
  BY <1>1, Kept
<1>3. depth[r] = 1
  BY <1>1, Owned, Numbers, ChainFacts DEF Innermost
<1>4. \E st \in Stages \ {"idle"}, d \in 0 .. 5 :
          /\ stage' = [stage EXCEPT ![r] = st]
          /\ depth' = [depth EXCEPT ![r] = d]
          /\ st # "answered" => d # 0
  <2>1. "answered" \in Stages \ {"idle"} /\ 0 \in 0 .. 5 /\ depth[r] - 1 = 0
    BY <1>3 DEF Stages
  <2> QED
    BY <1>1, <1>3, <2>1
<1>5. SetResp(r)
  <2> DEFINE w == [status |-> 500, body |-> "text", id |-> Nil]
  <2>1. w \in Response
    BY Members, MakeResponse
  <2>2. resp' = [resp EXCEPT ![r] = w]
    BY DEF Recover
  <2> HIDE DEF w
  <2> QED
    BY <2>1, <2>2 DEF SetResp
<1>6. SetSpan(r)
  <2> DEFINE new == IF IsRecording(span[r]) THEN [span[r] EXCEPT !.error = TRUE]
                                            ELSE span[r]
  <2>1. span' = [span EXCEPT ![r] = new]
    BY DEF Recover
  <2>2. new \in Span \cup {Nil}
    <3>1. span[r] \in Span \cup {Nil}
      BY <1>1, Owned
    <3>2. CASE span[r] = Nil
      BY <3>2 DEF IsRecording
    <3>3. CASE span[r] # Nil
      BY <3>1, <3>3 DEF Span
    <3> QED
      BY <3>2, <3>3
  <2> HIDE DEF new
  <2> QED
    BY <2>1, <2>2 DEF SetSpan
<1>7. lines' \subseteq LogLine
  <2>1. lines' = lines \cup {PanicLine(r)}
    BY DEF Recover
  <2> QED
    BY <1>1, <2>1, LineTypes, Owned
<1>8. /\ DOMAIN total' \subseteq Labels
      /\ \A s \in DOMAIN total' : total'[s] \in Nat
  BY <1>1, Owned
<1> QED
  BY <1>1, <1>2, <1>3, <1>4, <1>5, <1>6, <1>7, <1>8 DEF Moved

LEMMA StutterTypes ==
    ASSUME HTypes, UNCHANGED hvars
    PROVE  HTypes'
<1>1. UNCHANGED <<phase, settings, tracing, verbose, ready, query, stage, depth,
                  values, resp, span, outcome, lines, total>>
  BY DEF hvars, procVars, flightVars, ctxVars, obsVars
<1> QED
  BY <1>1 DEF HTypes, HttpTypeOK, Carried

(* Every step of a request that has arrived keeps the types. *)
LEMMA RequestMoves ==
    ASSUME HTypes, NEW r \in Requests, GoOn(r) \/ Panic(r)
    PROVE  stage[r] # "idle" /\ stage[r] # "answered" /\ Moved(r)
<1>1. stage[r] # "idle" /\ stage[r] # "answered"
  BY DEF GoOn, Panic, Route, ProbeHandler, UserID, BindJSON, ServiceReturns,
         Leave, Unwind, Recover
<1> QED
  BY <1>1, RouteMoves, ProbeMoves, UserIDMoves, BindMoves, ServiceMoves,
     PanicMoves, LeaveMoves, UnwindMoves, RecoverMoves DEF GoOn

LEMMA NextTypes ==
    ASSUME HTypes, [HttpNext]_hvars
    PROVE  HTypes'
<1>1. CASE LoadConfig \/ LoadPanics \/ Register \/ Stop \/ ShutdownReturns
  BY <1>1, ProcessTypes
<1>2. CASE \E r \in Requests : Enter(r) \/ GoOn(r) \/ Panic(r)
  BY <1>2, EnterTypes, RequestMoves, MovedTypes
<1>3. CASE UNCHANGED hvars
  BY <1>3, StutterTypes
<1> QED
  BY <1>1, <1>2, <1>3 DEF HttpNext

LEMMA InitTypes ==
    ASSUME HttpInit
    PROVE  HTypes
<1>1. HttpTypeOK
  <2>1. 0 \in 0 .. Len(Chain)
    BY ChainFacts
  <2>2. DOMAIN total = {} /\ lines = {}
    BY DEF HttpInit
  <2>3. /\ phase \in Phases
        /\ settings \in [Keys -> {"env", "file", "default", "zero"}] \cup {Nil}
        /\ tracing \in BOOLEAN /\ verbose \in BOOLEAN /\ ready \in BOOLEAN
    BY DEF HttpInit, Phases
  <2>4. /\ query \in [Requests -> Queries \cup {Nil}]
        /\ values \in [Requests -> UserValues \cup {Nil}]
        /\ resp \in [Requests -> Response \cup {Nil}]
        /\ span \in [Requests -> Span \cup {Nil}]
    BY DEF HttpInit
  <2>5. /\ stage \in [Requests -> Stages]
        /\ depth \in [Requests -> 0 .. Len(Chain)]
        /\ outcome \in [Requests -> Effects]
    BY <2>1 DEF HttpInit, Stages, Effects
  <2> QED
    BY <2>2, <2>3, <2>4, <2>5 DEF HttpTypeOK
<1>2. Carried
  BY DEF HttpInit, Carried
<1> QED
  BY <1>1, <1>2 DEF HTypes

(***************************************************************************)
(* The types hold for any number of requests: whatever handlers, panics    *)
(* and middlewares do, a request has an identifier from its arrival on,    *)
(* its response one of the statuses, and depth stays within the chain.     *)
(***************************************************************************)
THEOREM HttpTypeCorrect == HttpSpec => []HttpTypeOK
<1>1. HttpInit => HTypes
  BY InitTypes
<1>2. HTypes /\ [HttpNext]_hvars => HTypes'
  BY NextTypes
<1>3. HTypes => HttpTypeOK
  BY DEF HTypes
<1> QED
  BY <1>1, <1>2, <1>3, PTL DEF HttpSpec

(***************************************************************************)
(* What README.md promises of the environment holds of Load for any file   *)
(* and any environment.                                                    *)
(***************************************************************************)
THEOREM EnvironmentWorks == HttpSpec => []DocumentedEnvWorks
<1>1. HttpInit => DocumentedEnvWorks
  BY DEF HttpInit, DocumentedEnvWorks
<1>2. ASSUME DocumentedEnvWorks, [HttpNext]_hvars
      PROVE  DocumentedEnvWorks'
  <2>1. CASE LoadConfig
    <3>1. PICK file \in Files, env \in Envs :
              /\ found' = [file |-> file, env |-> env]
              /\ settings' = Load(file, env)
      BY <2>1 DEF LoadConfig
    <3>2. \A k \in Documented : k \in Keys /\ k \in Defaults
      BY DEF Documented, Keys, Defaults
    <3>3. ASSUME NEW k \in Documented
          PROVE  /\ k \in found'.env => settings'[k] = "env"
                 /\ settings'[k] # "zero"
      BY <3>1, <3>2 DEF Load, KnownKeys
    <3> QED
      BY <3>3 DEF DocumentedEnvWorks
  <2>2. CASE LoadPanics \/ Register \/ Stop \/ ShutdownReturns
    BY <2>2 DEF LoadPanics, Register, Stop, ShutdownReturns, DocumentedEnvWorks
  <2>3. CASE UNCHANGED procVars
    BY <1>2, <2>3 DEF procVars, DocumentedEnvWorks
  <2>4. UNCHANGED hvars => UNCHANGED procVars
    BY DEF hvars
  <2>5. ASSUME NEW r \in Requests, Enter(r) \/ GoOn(r) \/ Panic(r)
        PROVE  UNCHANGED procVars
    BY <2>5 DEF Enter, GoOn, Panic, Route, ProbeHandler, UserID, BindJSON,
                ServiceReturns, Leave, Unwind, Recover
  <2> QED
    BY <1>2, <2>1, <2>2, <2>3, <2>4, <2>5 DEF HttpNext
<1> QED
  BY <1>1, <1>2, PTL DEF HttpSpec
-----------------------------------------------------------------------------
(* The contract. *)

(* What this server shows of the deviations is taken into account: panics, *)
(* clients that ask for the probes or send empty strings.                  *)
DeviationsNamed ==
    /\ "panic" \in Breaks => "plainErrors" \in Deviations
    /\ \A q \in Queries :
          /\ q.route \in {"healthz", "readyz"} => "rootProbes" \in Deviations
          /\ \A f \in {"track_id", "device_id"} :
                q.fields[f] = "empty" => "emptyStrings" \in Deviations

LEMMA PathFacts ==
    /\ DOMAIN Api!Paths = SessionRoutes \cup Probes
    /\ Api!Paths["start"] = Api!start
    /\ Api!Paths["current"] = Api!current
    /\ Api!Paths["heartbeat"] = Api!heartbeat
    /\ Api!Paths["pause"] = Api!pause
    /\ Api!Paths["resume"] = Api!resume
    /\ Api!Paths["readyz"] = Api!readyz
    /\ Api!Paths["healthz"] = Api!healthz
    /\ Api!Paths["example"] = Api!example
  BY DEF Api!Paths, SessionRoutes, Probes

(* What the router serves is what the contract publishes. *)
LEMMA ServedIsPublished ==
    ASSUME DeviationsNamed, NEW q \in Queries, q.route \in SessionRoutes \cup Probes
    PROVE  Api!Published(q) <=> Served(q)
<1>1. /\ q.route \in DOMAIN Api!Paths
      /\ Api!UnderBase(q.route) = Prefixed(q.route)
  BY PathFacts DEF DeviationsNamed, Api!UnderBase, Prefixed, SessionRoutes, Probes
<1>2. Api!Paths[q.route].method = MethodOf(q.route)
  <2>1. CASE q.route = "start"
    BY <2>1, PathFacts DEF Api!start, Api!SessionOp, MethodOf
  <2>2. CASE q.route = "current"
    BY <2>2, PathFacts DEF Api!current, Api!SessionOp, MethodOf
  <2>3. CASE q.route = "heartbeat"
    BY <2>3, PathFacts DEF Api!heartbeat, Api!SessionOp, MethodOf
  <2>4. CASE q.route = "pause"
    BY <2>4, PathFacts DEF Api!pause, Api!SessionOp, MethodOf
  <2>5. CASE q.route = "resume"
    BY <2>5, PathFacts DEF Api!resume, Api!SessionOp, MethodOf
  <2>6. CASE q.route = "healthz"
    BY <2>6, PathFacts DEF Api!healthz, Api!Probe, MethodOf
  <2>7. CASE q.route = "readyz"
    BY <2>7, PathFacts DEF Api!readyz, Api!Probe, MethodOf
  <2>8. CASE q.route = "example"
    BY <2>8, PathFacts DEF Api!example, Api!Probe, MethodOf
  <2> QED
    BY <2>1, <2>2, <2>3, <2>4, <2>5, <2>6, <2>7, <2>8 DEF SessionRoutes, Probes
<1>3. q.route # "unknown"
  BY DEF SessionRoutes, Probes
<1> QED
  BY <1>1, <1>2, <1>3 DEF Api!Published, Served

(* A field that must be there has to hold a text. *)
LEMMA PresentIsText ==
    ASSUME DeviationsNamed, NEW q \in Queries, NEW f \in {"track_id", "device_id"}
    PROVE  Api!Present(q.fields[f]) <=> q.fields[f] = "text"
<1>1. q.fields[f] \in {"absent", "empty", "text"}
  BY HttpAssumption DEF Query
<1> QED
  BY <1>1 DEF DeviationsNamed, Api!Present

(* What an operation on sessions requires of a request. *)
LEMMA Schemas ==
    ASSUME NEW q \in Queries, q.route \in SessionRoutes
    PROVE  /\ Api!Paths[q.route].user = TRUE
           /\ q.route = "start" => Api!Paths[q.route].schema = Api!StartRequest
           /\ q.route = "current" => Api!Paths[q.route].schema = Api!None
           /\ q.route = "heartbeat" => Api!Paths[q.route].schema = Api!HeartbeatRequest
           /\ q.route \in {"pause", "resume"} =>
                  Api!Paths[q.route].schema = Api!PauseResumeRequest
<1>1. CASE q.route = "start"
  BY <1>1, PathFacts DEF Api!start, Api!SessionOp
<1>2. CASE q.route = "current"
  BY <1>2, PathFacts DEF Api!current, Api!SessionOp
<1>3. CASE q.route = "heartbeat"
  BY <1>3, PathFacts DEF Api!heartbeat, Api!SessionOp
<1>4. CASE q.route = "pause"
  BY <1>4, PathFacts DEF Api!pause, Api!SessionOp
<1>5. CASE q.route = "resume"
  BY <1>5, PathFacts DEF Api!resume, Api!SessionOp
<1> QED
  BY <1>1, <1>2, <1>3, <1>4, <1>5 DEF SessionRoutes

(* The tags of the request structs are the schemas. *)
LEMMA ConformsFacts ==
    ASSUME DeviationsNamed, NEW q \in Queries, q.route \in SessionRoutes
    PROVE  /\ Api!Authentic(q) <=> q.user
           /\ Api!Conforms(q) <=> q.route = "current" \/ (q.body = "object" /\ Valid(q))
<1>1. Api!Authentic(q) <=> q.user
  BY Schemas DEF Api!Authentic
<1>2. CASE q.route = "start"
  <2>1. Api!Paths[q.route].schema = Api!StartRequest /\ Api!StartRequest # Api!None
    BY <1>2, Schemas DEF Api!StartRequest, Api!None
  <2> QED
    BY <1>1, <1>2, <2>1, PresentIsText DEF Api!Conforms, Valid, Api!StartRequest
<1>3. CASE q.route = "current"
  BY <1>1, <1>3, Schemas DEF Api!Conforms
<1>4. CASE q.route = "heartbeat"
  <2>1. Api!Paths[q.route].schema = Api!HeartbeatRequest /\ Api!HeartbeatRequest # Api!None
    BY <1>4, Schemas DEF Api!HeartbeatRequest, Api!None
  <2> QED
    BY <1>1, <1>4, <2>1, PresentIsText
       DEF Api!Conforms, Valid, Api!HeartbeatRequest
<1>5. CASE q.route \in {"pause", "resume"}
  <2>1. Api!Paths[q.route].schema = Api!PauseResumeRequest /\ Api!PauseResumeRequest # Api!None
    BY <1>5, Schemas DEF Api!PauseResumeRequest, Api!None
  <2> QED
    BY <1>1, <1>5, <2>1, PresentIsText
       DEF Api!Conforms, Valid, Api!PauseResumeRequest
<1> QED
  BY <1>2, <1>3, <1>4, <1>5 DEF SessionRoutes

(* The answers of the operations on sessions. *)
LEMMA SessionAnswers ==
    ASSUME NEW q \in Queries, q.route \in SessionRoutes
    PROVE  LET op == Api!Paths[q.route] IN
           /\ op.success = IF q.route = "start" THEN 201
                           ELSE IF q.route = "heartbeat" THEN 204 ELSE 200
           /\ op.success \in DOMAIN op.answers
           /\ op.answers[op.success] =
                  IF q.route = "heartbeat" THEN "none" ELSE "session"
           /\ 401 \in DOMAIN op.answers /\ op.answers[401] = "error"
           /\ 500 \in DOMAIN op.answers /\ op.answers[500] = "error"
           /\ q.route # "current" =>
                  400 \in DOMAIN op.answers /\ op.answers[400] = "error"
           /\ q.route \in {"current", "pause", "resume"} =>
                  404 \in DOMAIN op.answers /\ op.answers[404] = "error"
<1>1. CASE q.route = "start"
  BY <1>1, PathFacts DEF Api!start, Api!SessionOp
<1>2. CASE q.route = "current"
  BY <1>2, PathFacts DEF Api!current, Api!SessionOp
<1>3. CASE q.route = "heartbeat"
  BY <1>3, PathFacts DEF Api!heartbeat, Api!SessionOp
<1>4. CASE q.route = "pause"
  BY <1>4, PathFacts DEF Api!pause, Api!SessionOp
<1>5. CASE q.route = "resume"
  BY <1>5, PathFacts DEF Api!resume, Api!SessionOp
<1> QED
  BY <1>1, <1>2, <1>3, <1>4, <1>5 DEF SessionRoutes

LEMMA ProbeAnswers ==
    ASSUME NEW q \in Queries, q.route \in Probes
    PROVE  LET op == Api!Paths[q.route] IN
           /\ op.success = 200
           /\ 200 \in DOMAIN op.answers /\ op.answers[200] = "map"
           /\ q.route = "readyz" =>
                  503 \in DOMAIN op.answers /\ op.answers[503] = "map"
<1>1. CASE q.route = "healthz"
  BY <1>1, PathFacts DEF Api!healthz, Api!Probe
<1>2. CASE q.route = "readyz"
  BY <1>2, PathFacts DEF Api!readyz, Api!Probe
<1>3. CASE q.route = "example"
  BY <1>3, PathFacts DEF Api!example, Api!Probe
<1> QED
  BY <1>1, <1>2, <1>3 DEF Probes

LEMMA ProbesAreOpen ==
    ASSUME NEW q \in Queries, q.route \in Probes
    PROVE  Api!Authentic(q) /\ Api!Conforms(q)
<1>1. CASE q.route = "healthz"
  BY <1>1, PathFacts DEF Api!healthz, Api!Probe, Api!Authentic, Api!Conforms
<1>2. CASE q.route = "readyz"
  BY <1>2, PathFacts DEF Api!readyz, Api!Probe, Api!Authentic, Api!Conforms
<1>3. CASE q.route = "example"
  BY <1>3, PathFacts DEF Api!example, Api!Probe, Api!Authentic, Api!Conforms
<1> QED
  BY <1>1, <1>2, <1>3 DEF Probes

(* A documented answer with its meaning is allowed. *)
LEMMA AllowedAnswer ==
    ASSUME DeviationsNamed, NEW q \in Queries, Served(q),
           q.route \in SessionRoutes \cup Probes, NEW e,
           NEW s \in DOMAIN Api!Paths[q.route].answers, Api!Meaning(q, s, e)
    PROVE  [status |-> s, body |-> Api!Paths[q.route].answers[s]]
               \in Api!Allowed(q, e)
  BY ServedIsPublished DEF Api!Allowed, Api!Documented

LEMMA AllowedFailure ==
    ASSUME DeviationsNamed, NEW q \in Queries, Served(q),
           q.route \in SessionRoutes, NEW e
    PROVE  [status |-> 500, body |-> "error"] \in Api!Allowed(q, e)
<1>1. 500 \in DOMAIN Api!Paths[q.route].answers
      /\ Api!Paths[q.route].answers[500] = "error"
  BY SessionAnswers
<1>2. Api!Meaning(q, 500, e)
  BY SessionAnswers DEF Api!Meaning
<1> QED
  BY <1>1, <1>2, AllowedAnswer

LEMMA AllowedPanic ==
    ASSUME DeviationsNamed, NEW q \in Queries, Served(q),
           q.route \in SessionRoutes \cup Probes, NEW e, "panic" \in Breaks
    PROVE  [status |-> 500, body |-> "text"] \in Api!Allowed(q, e)
  BY ServedIsPublished DEF Api!Allowed, Api!Panics, DeviationsNamed

LEMMA AllowedElsewhere ==
    ASSUME DeviationsNamed, NEW q \in Queries,
           q.route \notin SessionRoutes \cup Probes \/ ~Served(q), NEW e,
           NEW s \in {200, 301, 404, 405}
    PROVE  [status |-> s, body |-> "text"] \in Api!Allowed(q, e)
<1>1. ~Api!Published(q)
  BY PathFacts, ServedIsPublished DEF Api!Published
<1> QED
  BY <1>1 DEF Api!Allowed

(* The statuses of the handlers and of the probes, each with its meaning. *)
LEMMA AllowedStatuses ==
    ASSUME DeviationsNamed, NEW q \in Queries, Served(q)
    PROVE  /\ q.route \in SessionRoutes /\ ~q.user =>
                  [status |-> 401, body |-> "error"] \in Api!Allowed(q, "none")
           /\ q.route \in SessionRoutes \ {"current"} /\ q.user
              /\ ~(q.body = "object" /\ Valid(q)) =>
                  [status |-> 400, body |-> "error"] \in Api!Allowed(q, "none")
           /\ q.route \in {"current", "pause", "resume"} =>
                  [status |-> 404, body |-> "error"] \in Api!Allowed(q, "missing")
           /\ q.route = "heartbeat" =>
                  [status |-> 204, body |-> "none"] \in Api!Allowed(q, "done")
           /\ q.route = "start" =>
                  [status |-> 201, body |-> "session"] \in Api!Allowed(q, "done")
           /\ q.route \in {"current", "pause", "resume"} =>
                  [status |-> 200, body |-> "session"] \in Api!Allowed(q, "done")
           /\ q.route \in Probes =>
                  [status |-> 200, body |-> "map"] \in Api!Allowed(q, "done")
           /\ q.route = "readyz" =>
                  [status |-> 503, body |-> "map"] \in Api!Allowed(q, "refused")
<1>1. ASSUME q.route \in SessionRoutes, ~q.user
      PROVE  [status |-> 401, body |-> "error"] \in Api!Allowed(q, "none")
  <2>1. Api!Meaning(q, 401, "none")
    BY <1>1, ConformsFacts, SessionAnswers DEF Api!Meaning
  <2> QED
    BY <1>1, <2>1, SessionAnswers, AllowedAnswer
<1>2. ASSUME q.route \in SessionRoutes \ {"current"}, q.user,
             ~(q.body = "object" /\ Valid(q))
      PROVE  [status |-> 400, body |-> "error"] \in Api!Allowed(q, "none")
  <2>1. Api!Meaning(q, 400, "none")
    BY <1>2, ConformsFacts, SessionAnswers DEF Api!Meaning
  <2> QED
    BY <1>2, <2>1, SessionAnswers, AllowedAnswer
<1>3. ASSUME q.route \in {"current", "pause", "resume"}
      PROVE  /\ [status |-> 404, body |-> "error"] \in Api!Allowed(q, "missing")
             /\ [status |-> 200, body |-> "session"] \in Api!Allowed(q, "done")
  <2>1. q.route \in SessionRoutes
    BY <1>3 DEF SessionRoutes
  <2>2. Api!Meaning(q, 404, "missing") /\ Api!Meaning(q, 200, "done")
    BY <1>3, <2>1, SessionAnswers DEF Api!Meaning
  <2> QED
    BY <1>3, <2>1, <2>2, SessionAnswers, AllowedAnswer
<1>4. ASSUME q.route = "heartbeat"
      PROVE  [status |-> 204, body |-> "none"] \in Api!Allowed(q, "done")
  <2>1. q.route \in SessionRoutes
    BY <1>4 DEF SessionRoutes
  <2>2. Api!Meaning(q, 204, "done")
    BY <1>4, <2>1, SessionAnswers DEF Api!Meaning
  <2> QED
    BY <1>4, <2>1, <2>2, SessionAnswers, AllowedAnswer
<1>5. ASSUME q.route = "start"
      PROVE  [status |-> 201, body |-> "session"] \in Api!Allowed(q, "done")
  <2>1. q.route \in SessionRoutes
    BY <1>5 DEF SessionRoutes
  <2>2. Api!Meaning(q, 201, "done")
    BY <1>5, <2>1, SessionAnswers DEF Api!Meaning
  <2> QED
    BY <1>5, <2>1, <2>2, SessionAnswers, AllowedAnswer
<1>6. ASSUME q.route \in Probes
      PROVE  [status |-> 200, body |-> "map"] \in Api!Allowed(q, "done")
  <2>1. Api!Meaning(q, 200, "done")
    BY <1>6, ProbeAnswers DEF Api!Meaning
  <2> QED
    BY <1>6, <2>1, ProbeAnswers, AllowedAnswer
<1>7. ASSUME q.route = "readyz"
      PROVE  [status |-> 503, body |-> "map"] \in Api!Allowed(q, "refused")
  <2>1. q.route \in Probes
    BY <1>7 DEF Probes
  <2>2. Api!Meaning(q, 503, "refused")
    BY <2>1, ProbeAnswers DEF Api!Meaning
  <2> QED
    BY <1>7, <2>1, <2>2, ProbeAnswers, AllowedAnswer
<1> QED
  BY <1>1, <1>2, <1>3, <1>4, <1>5, <1>6, <1>7

(***************************************************************************)
(* Where request r is says what is known of it and of what it was told:    *)
(* the service acts on it in stage "service" only, which is reached with a *)
(* user and a valid body only; from "leave" on its answer is an allowed    *)
(* one for what was done.  The flag and the phase tell the same.           *)
(***************************************************************************)
Promise(r) ==
    /\ stage[r] = "idle" => query[r] = Nil
    /\ stage[r] \in {"idle", "route", "handler", "bind", "service", "panic"} =>
           outcome[r] = "none"
    /\ stage[r] \in {"handler", "bind", "service", "panic"} => Served(query[r])
    /\ stage[r] \in {"handler", "panic"} =>
           query[r].route \in SessionRoutes \cup Probes
    /\ stage[r] = "panic" => "panic" \in Breaks
    /\ stage[r] = "bind" =>
           query[r].route \in SessionRoutes \ {"current"} /\ query[r].user
    /\ stage[r] = "service" =>
           /\ query[r].route \in SessionRoutes /\ query[r].user
           /\ \/ query[r].route = "current"
              \/ query[r].body = "object" /\ Valid(query[r])
    /\ stage[r] = "leave" =>
           [status |-> resp[r].status, body |-> resp[r].body]
               \in Api!Allowed(query[r], outcome[r])

Flag == ready <=> phase \notin {"stopping", "stopped"}

Promised ==
    DeviationsNamed /\ HTypes /\ Flag /\ \A r \in Requests : Promise(r)

(* A step of r leaves the other requests alone. *)
LEMMA OthersKept ==
    ASSUME HTypes, NEW r \in Requests, Moved(r) \/ Enter(r),
           NEW x \in Requests, x # r
    PROVE  /\ query'[x] = query[x] /\ stage'[x] = stage[x] /\ resp'[x] = resp[x]
           /\ outcome'[x] = outcome[x] /\ depth'[x] = depth[x]
           /\ values'[x] = values[x] /\ span'[x] = span[x]
<1>1. /\ query \in [Requests -> Queries \cup {Nil}]
      /\ values \in [Requests -> UserValues \cup {Nil}]
      /\ resp \in [Requests -> Response \cup {Nil}]
      /\ span \in [Requests -> Span \cup {Nil}]
      /\ outcome \in [Requests -> Effects]
      /\ stage \in [Requests -> Stages]
      /\ depth \in [Requests -> 0 .. Len(Chain)]
  BY DEF HTypes, HttpTypeOK
<1>2. CASE Moved(r)
  BY <1>1, <1>2 DEF Moved, SetValues, SetResp, SetSpan, SetOutcome
<1>3. CASE Enter(r)
  BY <1>1, <1>3 DEF Enter
<1> QED
  BY <1>2, <1>3

LEMMA PromiseKept ==
    ASSUME NEW x \in Requests, Promise(x),
           query'[x] = query[x], stage'[x] = stage[x], resp'[x] = resp[x],
           outcome'[x] = outcome[x]
    PROVE  Promise(x)'
  BY DEF Promise, Valid, Served

(* What a step that has changed r's stage and no more than that tells. *)
LEMMA After ==
    ASSUME HTypes, NEW r \in Requests, NEW st, stage' = [stage EXCEPT ![r] = st]
    PROVE  stage'[r] = st
  BY DEF HTypes, HttpTypeOK

LEMMA AfterOutcome ==
    ASSUME HTypes, NEW r \in Requests, NEW o, outcome' = [outcome EXCEPT ![r] = o]
    PROVE  outcome'[r] = o
  BY DEF HTypes, HttpTypeOK

(* An answer that may be given. *)
Permitted(q, e, status, body) == [status |-> status, body |-> body] \in Api!Allowed(q, e)

LEMMA LeavePromise ==
    ASSUME NEW r \in Requests, stage'[r] = "leave", query'[r] = query[r],
           NEW e, outcome'[r] = e,
           Permitted(query[r], e, resp'[r].status, resp'[r].body)
    PROVE  Promise(r)'
  BY DEF Promise, Permitted

LEMMA EnterPromise ==
    ASSUME Promised, NEW r \in Requests, Enter(r)
    PROVE  Promise(r)'
<1>1. HTypes /\ Promise(r)
  BY DEF Promised
<1>2. stage[r] = "idle" /\ stage' = [stage EXCEPT ![r] = "route"] /\ UNCHANGED outcome
  BY DEF Enter
<1>3. stage'[r] = "route" /\ outcome'[r] = "none"
  BY <1>1, <1>2, After DEF Promise
<1> QED
  BY <1>3 DEF Promise

LEMMA RoutePromise ==
    ASSUME Promised, NEW r \in Requests, Route(r)
    PROVE  Promise(r)'
<1>1. HTypes /\ Promise(r) /\ stage[r] = "route" /\ UNCHANGED <<query, outcome>>
  BY DEF Promised, Route
<1>0. DeviationsNamed
  BY DEF Promised
<1>2. query[r] \in Queries /\ outcome[r] = "none" /\ resp \in [Requests -> Response \cup {Nil}]
  BY <1>1, Owned DEF Promise, HTypes, HttpTypeOK
<1>3. ASSUME NEW s \in {200, 301, 404, 405}, stage' = [stage EXCEPT ![r] = "leave"],
             query[r].route \notin SessionRoutes \cup Probes \/ ~Served(query[r]),
             resp'[r].status = s, resp'[r].body = "text"
      PROVE  Promise(r)'
  <2>1. stage'[r] = "leave"
    BY <1>1, <1>3, After
  <2>2. Permitted(query[r], "none", resp'[r].status, resp'[r].body)
    BY <1>0, <1>2, <1>3, AllowedElsewhere DEF Permitted
  <2> QED
    BY <1>1, <1>2, <2>1, <2>2, LeavePromise
<1>4. CASE Unrouted(r)
  <2>1. PICK s \in RouterAnswers(query[r]) :
            resp' = [resp EXCEPT ![r] = [status |-> s, body |-> "text",
                         id |-> IF s = 404 THEN Nil ELSE resp[r].id]]
    BY <1>4 DEF Unrouted
  <2>0. s \in {200, 301, 404, 405}
    BY RouterStatuses
  <2>2. resp'[r].status = s /\ resp'[r].body = "text"
    BY <1>2, <2>1
  <2>3. ~Served(query[r]) /\ stage' = [stage EXCEPT ![r] = "leave"]
    BY <1>4 DEF Unrouted
  <2> QED
    BY <1>3, <2>0, <2>2, <2>3
<1>5. CASE AdaptedHandler(r)
  <2>1. PICK s \in {200, 404} : Respond(r, s, "text")
    BY <1>5 DEF AdaptedHandler
  <2>2. s \in Statuses /\ "text" \in Kinds
    BY Members
  <2>3. /\ resp'[r].status = s /\ resp'[r].body = "text"
        /\ stage' = [stage EXCEPT ![r] = "leave"]
    BY <1>1, <2>1, <2>2, Responded
  <2>4. query[r].route \notin SessionRoutes \cup Probes
    BY <1>5 DEF AdaptedHandler, Adapted, SessionRoutes, Probes
  <2> QED
    BY <1>3, <2>3, <2>4
<1>6. CASE ~Unrouted(r) /\ ~AdaptedHandler(r)
  <2>1. /\ stage' = [stage EXCEPT ![r] = "handler"]
        /\ Served(query[r]) /\ query[r].route \notin Adapted
    BY <1>6 DEF Route
  <2>2. query[r].route \in SessionRoutes \cup Probes
    BY <1>2, <2>1, QueryTypes DEF Routes, Served
  <2>3. stage'[r] = "handler"
    BY <1>1, <2>1, After
  <2> QED
    BY <1>1, <1>2, <2>1, <2>2, <2>3 DEF Promise
<1> QED
  BY <1>4, <1>5, <1>6

LEMMA ProbePromise ==
    ASSUME Promised, NEW r \in Requests, ProbeHandler(r)
    PROVE  Promise(r)'
<1>1. /\ DeviationsNamed /\ HTypes /\ Promise(r)
      /\ stage[r] = "handler" /\ UNCHANGED query /\ query[r].route \in Probes
  BY DEF Promised, ProbeHandler
<1>2. query[r] \in Queries /\ Served(query[r])
  BY <1>1, Owned DEF Promise
<1>3. ASSUME NEW e, NEW s \in Statuses, WriteJSON(r, s, "map"),
             outcome' = [outcome EXCEPT ![r] = e],
             [status |-> s, body |-> "map"] \in Api!Allowed(query[r], e)
      PROVE  Promise(r)'
  <2>1. /\ resp'[r].status = s /\ resp'[r].body = "map"
        /\ stage' = [stage EXCEPT ![r] = "leave"]
    BY <1>1, <1>3, Written, Members
  <2>2. Permitted(query[r], e, resp'[r].status, resp'[r].body)
    BY <1>3, <2>1 DEF Permitted
  <2>3. stage'[r] = "leave"
    BY <1>1, <2>1, After
  <2>4. outcome'[r] = e
    BY <1>1, <1>3, AfterOutcome
  <2> QED
    BY <1>1, <2>2, <2>3, <2>4, LeavePromise
<1>4. CASE query[r].route = "readyz" /\ ~ready
  BY <1>1, <1>2, <1>3, <1>4, AllowedStatuses, Members DEF ProbeHandler
<1>5. CASE query[r].route # "readyz" \/ ready
  BY <1>1, <1>2, <1>3, <1>5, AllowedStatuses, Members DEF ProbeHandler
<1> QED
  BY <1>4, <1>5

LEMMA UserIDPromise ==
    ASSUME Promised, NEW r \in Requests, UserID(r)
    PROVE  Promise(r)'
<1>1. /\ HTypes /\ Promise(r) /\ stage[r] = "handler" /\ UNCHANGED <<query, outcome>>
      /\ query[r].route \in SessionRoutes /\ DeviationsNamed
  BY DEF Promised, UserID, ctxVars
<1>2. query[r] \in Queries /\ outcome[r] = "none" /\ Served(query[r])
  BY <1>1, Owned DEF Promise
<1>3. CASE ~query[r].user
  <2>1. WriteJSON(r, 401, "error")
    BY <1>3 DEF UserID, WriteError
  <2>2. /\ resp'[r].status = 401 /\ resp'[r].body = "error"
        /\ stage' = [stage EXCEPT ![r] = "leave"]
    BY <1>1, <2>1, Written, Members
  <2>3. [status |-> 401, body |-> "error"] \in Api!Allowed(query[r], "none")
    BY <1>1, <1>2, <1>3, AllowedStatuses
  <2>4. Permitted(query[r], "none", resp'[r].status, resp'[r].body)
    BY <2>2, <2>3 DEF Permitted
  <2>5. stage'[r] = "leave"
    BY <1>1, <2>2, After
  <2> QED
    BY <1>1, <1>2, <2>4, <2>5, LeavePromise
<1>4. CASE query[r].user
  <2>1. stage' = [stage EXCEPT
            ![r] = IF query[r].route = "current" THEN "service" ELSE "bind"]
    BY <1>4 DEF UserID
  <2>2. stage'[r] = IF query[r].route = "current" THEN "service" ELSE "bind"
    BY <1>1, <2>1, After
  <2> QED
    BY <1>1, <1>2, <1>4, <2>2 DEF Promise
<1> QED
  BY <1>3, <1>4

LEMMA BindPromise ==
    ASSUME Promised, NEW r \in Requests, BindJSON(r)
    PROVE  Promise(r)'
<1>1. /\ HTypes /\ Promise(r) /\ stage[r] = "bind" /\ UNCHANGED <<query, outcome>>
      /\ DeviationsNamed
  BY DEF Promised, BindJSON, ctxVars
<1>2. /\ query[r] \in Queries /\ outcome[r] = "none" /\ Served(query[r])
      /\ query[r].route \in SessionRoutes \ {"current"} /\ query[r].user
  BY <1>1, Owned DEF Promise
<1>3. CASE ~(query[r].body = "object" /\ Valid(query[r]))
  <2>1. WriteJSON(r, 400, "error")
    BY <1>3 DEF BindJSON, WriteError
  <2>2. /\ resp'[r].status = 400 /\ resp'[r].body = "error"
        /\ stage' = [stage EXCEPT ![r] = "leave"]
    BY <1>1, <2>1, Written, Members
  <2>3. [status |-> 400, body |-> "error"] \in Api!Allowed(query[r], "none")
    BY <1>1, <1>2, <1>3, AllowedStatuses
  <2>4. Permitted(query[r], "none", resp'[r].status, resp'[r].body)
    BY <2>2, <2>3 DEF Permitted
  <2>5. stage'[r] = "leave"
    BY <1>1, <2>2, After
  <2> QED
    BY <1>1, <1>2, <2>4, <2>5, LeavePromise
<1>4. CASE query[r].body = "object" /\ Valid(query[r])
  <2>1. stage' = [stage EXCEPT ![r] = "service"]
    BY <1>4 DEF BindJSON
  <2>2. stage'[r] = "service"
    BY <1>1, <2>1, After
  <2>3. Valid(query'[r])
    BY <1>1, <1>4
  <2> QED
    BY <1>1, <1>2, <1>4, <2>2, <2>3 DEF Promise
<1> QED
  BY <1>3, <1>4

LEMMA ServicePromise ==
    ASSUME Promised, NEW r \in Requests, ServiceReturns(r)
    PROVE  Promise(r)'
<1>1. /\ HTypes /\ Promise(r) /\ stage[r] = "service" /\ UNCHANGED query
      /\ DeviationsNamed
  BY DEF Promised, ServiceReturns
<1>2. /\ query[r] \in Queries /\ query[r].route \in SessionRoutes
      /\ Served(query[r])
  BY <1>1, Owned DEF Promise
<1>3. PICK o \in Outcomes(query[r].route) :
          outcome' = [outcome EXCEPT ![r] = o] /\ Answers(r, o)
  BY DEF ServiceReturns, Answers
<1>4. ASSUME NEW s \in Statuses, NEW b \in Kinds,
             WriteJSON(r, s, b) \/ Respond(r, s, b),
             [status |-> s, body |-> b] \in Api!Allowed(query[r], o)
      PROVE  Promise(r)'
  <2>1. /\ \/ resp'[r].status = s /\ resp'[r].body = b
           \/ resp'[r].status = 500 /\ resp'[r].body = "error"
        /\ stage' = [stage EXCEPT ![r] = "leave"]
    BY <1>1, <1>4, Written, Responded
  <2>2. Permitted(query[r], o, resp'[r].status, resp'[r].body)
    <3>1. [status |-> 500, body |-> "error"] \in Api!Allowed(query[r], o)
      BY <1>1, <1>2, AllowedFailure
    <3> QED
      BY <1>4, <2>1, <3>1 DEF Permitted
  <2>3. stage'[r] = "leave"
    BY <1>1, <2>1, After
  <2>4. outcome'[r] = o
    BY <1>1, <1>3, AfterOutcome
  <2> QED
    BY <1>1, <2>2, <2>3, <2>4, LeavePromise
<1>5. CASE o = "done" /\ query[r].route = "heartbeat"
  <2>1. Respond(r, 204, "none")
    BY <1>3, <1>5 DEF Answers
  <2> QED
    BY <1>1, <1>2, <1>4, <1>5, <2>1, AllowedStatuses, Members
<1>6. CASE o = "done" /\ query[r].route = "start"
  <2>1. WriteJSON(r, 201, "session")
    BY <1>3, <1>6 DEF Answers
  <2> QED
    BY <1>1, <1>2, <1>4, <1>6, <2>1, AllowedStatuses, Members
<1>7. CASE o = "done" /\ query[r].route \in {"current", "pause", "resume"}
  <2>1. WriteJSON(r, 200, "session")
    BY <1>3, <1>7 DEF Answers
  <2> QED
    BY <1>1, <1>2, <1>4, <1>7, <2>1, AllowedStatuses, Members
<1>8. CASE o = "missing"
  <2>1. WriteJSON(r, 404, "error")
    BY <1>3, <1>8 DEF Answers, WriteError
  <2>2. query[r].route \in {"current", "pause", "resume"}
    BY <1>8 DEF Outcomes
  <2> QED
    BY <1>1, <1>2, <1>4, <1>8, <2>1, <2>2, AllowedStatuses, Members
<1>9. CASE o = "failed"
  <2>1. WriteJSON(r, 500, "error")
    BY <1>3, <1>9 DEF Answers, WriteError
  <2>2. [status |-> 500, body |-> "error"] \in Api!Allowed(query[r], o)
    BY <1>1, <1>2, AllowedFailure
  <2> QED
    BY <1>4, <2>1, <2>2, Members
<1>10. o \in {"done", "missing", "failed"}
  BY DEF Outcomes
<1> QED
  BY <1>2, <1>5, <1>6, <1>7, <1>8, <1>9, <1>10 DEF SessionRoutes

LEMMA PanicPromise ==
    ASSUME Promised, NEW r \in Requests, Panic(r)
    PROVE  Promise(r)'
<1>1. /\ HTypes /\ Promise(r) /\ UNCHANGED <<query, outcome>>
      /\ stage[r] \in {"handler", "bind", "service"}
      /\ stage' = [stage EXCEPT ![r] = "panic"] /\ "panic" \in Breaks
  BY DEF Promised, Panic, ctxVars
<1>2. stage'[r] = "panic"
  BY <1>1, After
<1> QED
  BY <1>1, <1>2 DEF Promise

(* On the way up, the answer stays. *)
LEMMA UpPromise ==
    ASSUME Promised, NEW r \in Requests, Leave(r) \/ Unwind(r) \/ Recover(r)
    PROVE  Promise(r)'
<1>1. HTypes /\ Promise(r) /\ UNCHANGED <<query, outcome>>
  BY DEF Promised, Leave, Unwind, Recover, ctxVars
<1>2. CASE Leave(r)
  <2>1. /\ stage[r] = "leave" /\ UNCHANGED resp
        /\ stage' = [stage EXCEPT ![r] = IF depth[r] = 1 THEN "answered" ELSE "leave"]
    BY <1>2 DEF Leave
  <2>2. stage'[r] = "answered" \/ stage'[r] = "leave"
    BY <1>1, <2>1, After
  <2> QED
    BY <1>1, <2>1, <2>2, PromiseKept DEF Promise
<1>3. CASE Unwind(r)
  BY <1>1, <1>3, PromiseKept DEF Unwind
<1>4. CASE Recover(r)
  <2>1. stage' = [stage EXCEPT ![r] = "answered"]
    BY <1>1, <1>4, RecoverMoves DEF Recover
  <2>2. stage'[r] = "answered"
    BY <1>1, <2>1, After
  <2> QED
    BY <2>2 DEF Promise
<1> QED
  BY <1>2, <1>3, <1>4

LEMMA FlagKept ==
    ASSUME Flag, [HttpNext]_hvars
    PROVE  Flag'
<1>1. CASE LoadConfig \/ LoadPanics \/ Register \/ Stop \/ ShutdownReturns
  BY <1>1 DEF Flag, LoadConfig, LoadPanics, Register, Stop, ShutdownReturns
<1>2. CASE UNCHANGED procVars
  BY <1>2 DEF Flag, procVars
<1>3. UNCHANGED hvars => UNCHANGED procVars
  BY DEF hvars
<1>4. ASSUME NEW r \in Requests, Enter(r) \/ GoOn(r) \/ Panic(r)
      PROVE  UNCHANGED procVars
  BY <1>4 DEF Enter, GoOn, Panic, Route, ProbeHandler, UserID, BindJSON,
              ServiceReturns, Leave, Unwind, Recover
<1> QED
  BY <1>1, <1>2, <1>3, <1>4 DEF HttpNext

LEMMA NextPromised ==
    ASSUME Promised, [HttpNext]_hvars
    PROVE  Promised'
<1>1. DeviationsNamed /\ HTypes' /\ Flag'
  BY NextTypes, FlagKept DEF Promised
<1>2. ASSUME NEW x \in Requests
      PROVE  Promise(x)'
  <2>1. HTypes /\ Promise(x)
    BY DEF Promised
  <2>2. CASE LoadConfig \/ LoadPanics \/ Register \/ Stop \/ ShutdownReturns \/ UNCHANGED hvars
    <3>1. UNCHANGED <<query, stage, resp, outcome>>
      BY <2>2 DEF LoadConfig, LoadPanics, Register, Stop, ShutdownReturns, hvars,
                  flightVars, ctxVars
    <3> QED
      BY <2>1, <3>1, PromiseKept
  <2>3. ASSUME NEW r \in Requests, Enter(r) \/ GoOn(r) \/ Panic(r)
        PROVE  Promise(x)'
    <3>1. CASE x = r
      BY <2>3, <3>1, EnterPromise, RoutePromise, ProbePromise, UserIDPromise,
         BindPromise, ServicePromise, PanicPromise, UpPromise DEF GoOn
    <3>2. CASE x # r
      <4>1. Moved(r) \/ Enter(r)
        BY <2>1, <2>3, RequestMoves
      <4>2. /\ query'[x] = query[x] /\ stage'[x] = stage[x] /\ resp'[x] = resp[x]
            /\ outcome'[x] = outcome[x]
        BY <2>1, <3>2, <4>1, OthersKept
      <4> QED
        BY <2>1, <4>2, PromiseKept
    <3> QED
      BY <3>1, <3>2
  <2> QED
    BY <2>2, <2>3 DEF HttpNext
<1> QED
  BY <1>1, <1>2 DEF Promised

LEMMA InitPromised ==
    ASSUME DeviationsNamed, HttpInit
    PROVE  Promised
<1>1. Flag
  BY DEF HttpInit, Flag
<1>2. \A r \in Requests : Promise(r)
  BY DEF HttpInit, Promise
<1> QED
  BY <1>1, <1>2, InitTypes DEF Promised

(* What the client of each request has been told: reply of the contract. *)
Told == [r \in Requests |->
            IF Answered(r) THEN [status |-> resp[r].status, body |-> resp[r].body]
                           ELSE Nil]

Closing == phase \in {"stopping", "stopped"}

(* A step of r that does not answer it tells nobody anything. *)
LEMMA ToldNothing ==
    ASSUME HTypes, NEW r \in Requests, Moved(r) \/ Enter(r),
           stage[r] # "answered", stage'[r] # "answered"
    PROVE  Told' = Told
<1>1. ASSUME NEW x \in Requests
      PROVE  /\ Answered(x)' <=> Answered(x)
             /\ Answered(x) => resp'[x] = resp[x]
  <2>1. CASE x = r
    BY <2>1 DEF Answered
  <2>2. CASE x # r
    BY <2>2, OthersKept DEF Answered
  <2> QED
    BY <2>1, <2>2
<1> QED
  BY <1>1 DEF Told

(* The step that answers it tells its client alone. *)
LEMMA ToldOnce ==
    ASSUME HTypes, NEW r \in Requests, Moved(r),
           stage[r] # "answered", stage'[r] = "answered"
    PROVE  /\ Told' = [Told EXCEPT ![r] = [status |-> resp'[r].status,
                                           body |-> resp'[r].body]]
           /\ Told[r] = Nil
<1>1. ASSUME NEW x \in Requests, x # r
      PROVE  (Answered(x)' <=> Answered(x)) /\ resp'[x] = resp[x]
  BY <1>1, OthersKept DEF Answered
<1> QED
  BY <1>1 DEF Told, Answered

LEMMA ApiStutter ==
    ASSUME UNCHANGED <<query, outcome>>, Told' = Told, Closing' = Closing
    PROVE  UNCHANGED Api!api
  BY DEF Api!api, Told, Closing

LEMMA ProcessRefines ==
    ASSUME Promised,
           LoadConfig \/ LoadPanics \/ Register \/ Stop \/ ShutdownReturns
             \/ UNCHANGED hvars
    PROVE  [Api!Next]_Api!api
<1>1. UNCHANGED <<query, stage, resp, outcome>>
  BY DEF LoadConfig, LoadPanics, Register, Stop, ShutdownReturns, hvars,
         flightVars, ctxVars
<1>2. Told' = Told
  BY <1>1 DEF Told, Answered
<1>3. CASE Stop
  <2>1. Closing' = TRUE
    BY <1>3 DEF Stop, Closing
  <2>2. Api!Close
    BY <1>1, <1>2, <2>1 DEF Api!Close, Told, Closing
  <2> QED
    BY <2>2 DEF Api!Next
<1>4. CASE ~Stop
  <2>1. Closing' = Closing
    <3>1. CASE LoadConfig \/ LoadPanics
      BY <3>1 DEF LoadConfig, LoadPanics, Closing
    <3>2. CASE Register
      BY <3>2 DEF Register, Closing
    <3>3. CASE ShutdownReturns
      BY <3>3 DEF ShutdownReturns, Closing
    <3>4. CASE UNCHANGED hvars
      BY <3>4 DEF hvars, procVars, Closing
    <3> QED
      BY <1>4, <3>1, <3>2, <3>3, <3>4
  <2> QED
    BY <1>1, <1>2, <2>1, ApiStutter
<1> QED
  BY <1>3, <1>4

LEMMA EnterRefines ==
    ASSUME Promised, NEW r \in Requests, Enter(r)
    PROVE  Api!Next
<1>1. HTypes /\ stage[r] = "idle" /\ stage' = [stage EXCEPT ![r] = "route"]
  BY DEF Promised, Enter
<1>2. Told' = Told
  BY <1>1, After, ToldNothing
<1>3. UNCHANGED outcome /\ Closing' = Closing
  BY DEF Enter, procVars, Closing
<1>4. PICK q \in Queries : query' = [query EXCEPT ![r] = q]
  BY DEF Enter
<1>5. query[r] = Nil
  BY <1>1 DEF Promised, Promise
<1>6. Api!Ask(r)
  BY <1>2, <1>3, <1>4, <1>5 DEF Api!Ask, Told, Closing
<1> QED
  BY <1>6 DEF Api!Next

(* Steps that the client does not see. *)
LEMMA QuietRefines ==
    ASSUME Promised, NEW r \in Requests,
           Route(r) \/ UserID(r) \/ BindJSON(r) \/ Panic(r) \/ Unwind(r)
    PROVE  UNCHANGED Api!api
<1>1. HTypes
  BY DEF Promised
<1>2. stage[r] # "answered" /\ Moved(r)
  BY <1>1, RequestMoves DEF GoOn
<1>3. UNCHANGED <<query, outcome>> /\ Closing' = Closing
  BY DEF Route, UserID, BindJSON, Panic, Unwind, procVars, ctxVars, Closing
<1>4. stage'[r] # "answered"
  <2>1. CASE Unwind(r)
    BY <2>1 DEF Unwind
  <2>2. CASE ~Unwind(r)
    <3>1. PICK st \in {"handler", "bind", "service", "leave", "panic"} :
              stage' = [stage EXCEPT ![r] = st]
      BY <2>2 DEF Route, UserID, BindJSON, Panic, Unrouted, AdaptedHandler,
                  WriteError, WriteJSON, Respond
    <3>2. stage'[r] = st
      BY <1>1, <3>1, After
    <3> QED
      BY <3>2
  <2> QED
    BY <2>1, <2>2
<1>5. Told' = Told
  BY <1>1, <1>2, <1>4, ToldNothing
<1> QED
  BY <1>3, <1>5, ApiStutter

(* What the contract lets the service do about r. *)
LEMMA ActRefines ==
    ASSUME Promised, NEW r \in Requests, ProbeHandler(r) \/ ServiceReturns(r)
    PROVE  Api!Next
<1>1. DeviationsNamed /\ HTypes /\ Promise(r) /\ Flag
  BY DEF Promised
<1>2. stage[r] # "answered" /\ Moved(r)
  BY <1>1, RequestMoves DEF GoOn
<1>3. /\ stage[r] \in {"handler", "service"} /\ UNCHANGED query
      /\ Closing' = Closing
  BY DEF ProbeHandler, ServiceReturns, procVars, Closing
<1>4. query[r] \in Queries /\ query[r] # Nil /\ outcome[r] = "none"
  BY <1>1, <1>3, Owned, QueryTypes DEF Promise
<1>5. stage' = [stage EXCEPT ![r] = "leave"]
  BY DEF ProbeHandler, ServiceReturns, WriteError, WriteJSON, Respond
<1>6. Told' = Told /\ Told[r] = Nil
  <2>1. stage'[r] = "leave"
    BY <1>1, <1>5, After
  <2>2. Told' = Told
    BY <1>1, <1>2, <2>1, ToldNothing
  <2> QED
    BY <1>2, <2>2 DEF Told, Answered
<1>7. /\ query[r].route \in SessionRoutes \cup Probes /\ Served(query[r])
      /\ Api!Authentic(query[r]) /\ Api!Conforms(query[r])
  <2>1. CASE ProbeHandler(r)
    BY <1>1, <1>4, <2>1, ProbesAreOpen DEF ProbeHandler, Promise
  <2>2. CASE ServiceReturns(r)
    <3>1. /\ query[r].route \in SessionRoutes /\ query[r].user
          /\ Served(query[r])
          /\ \/ query[r].route = "current"
             \/ query[r].body = "object" /\ Valid(query[r])
      BY <1>1, <2>2 DEF ServiceReturns, Promise
    <3> QED
      BY <1>1, <1>4, <3>1, ConformsFacts
  <2> QED
    BY <2>1, <2>2
<1>8. \E e \in Api!Effects(query[r].route) : outcome' = [outcome EXCEPT ![r] = e]
  <2>1. CASE ProbeHandler(r)
    <3>1. CASE query[r].route = "readyz"
      BY <1>1, <2>1, <3>1 DEF ProbeHandler, Api!Effects, Flag
    <3>2. CASE query[r].route # "readyz"
      BY <2>1, <3>2 DEF ProbeHandler, Api!Effects
    <3> QED
      BY <3>1, <3>2
  <2>2. CASE ServiceReturns(r)
    <3>1. query[r].route \in SessionRoutes /\ query[r].route # "readyz"
      BY <1>1, <2>2 DEF ServiceReturns, Promise, SessionRoutes
    <3>2. PICK o \in Outcomes(query[r].route) : outcome' = [outcome EXCEPT ![r] = o]
      BY <2>2 DEF ServiceReturns
    <3>3. query[r].route \in {"current", "pause", "resume"} =>
              404 \in DOMAIN Api!Paths[query[r].route].answers
      BY <1>4, <3>1, SessionAnswers
    <3>4. o \in Api!Effects(query[r].route)
      BY <3>1, <3>2, <3>3 DEF Outcomes, Api!Effects
    <3> QED
      BY <3>2, <3>4
  <2> QED
    BY <2>1, <2>2
<1>9. Api!Published(query[r])
  BY <1>1, <1>4, <1>7, ServedIsPublished
<1>10. Api!Act(r)
  BY <1>3, <1>4, <1>6, <1>7, <1>8, <1>9 DEF Api!Act, Told, Closing
<1> QED
  BY <1>10 DEF Api!Next

(* The end of the chain is the answer. *)
LEMMA ReplyRefines ==
    ASSUME Promised, NEW r \in Requests, Leave(r) \/ Recover(r)
    PROVE  [Api!Next]_Api!api
<1>1. DeviationsNamed /\ HTypes /\ Promise(r)
  BY DEF Promised
<1>2. stage[r] # "answered" /\ stage[r] # "idle" /\ Moved(r)
  BY <1>1, RequestMoves DEF GoOn
<1>3. UNCHANGED <<query, outcome>> /\ Closing' = Closing
  BY DEF Leave, Recover, procVars, ctxVars, Closing
<1>4. query[r] \in Queries /\ query[r] # Nil
  BY <1>1, <1>2, Owned, QueryTypes
<1>5. CASE stage'[r] # "answered"
  BY <1>1, <1>2, <1>3, <1>5, ToldNothing, ApiStutter
<1>6. CASE stage'[r] = "answered"
  <2> DEFINE a == [status |-> resp'[r].status, body |-> resp'[r].body]
  <2>1. a \in Api!Allowed(query[r], outcome[r])
    <3>1. CASE Leave(r)
      <4>1. stage[r] = "leave" /\ UNCHANGED resp
        BY <3>1 DEF Leave
      <4> QED
        BY <1>1, <4>1 DEF Promise
    <3>2. CASE Recover(r)
      <4>1. stage[r] = "panic" /\ resp'[r].status = 500 /\ resp'[r].body = "text"
        BY <1>1, <3>2 DEF Recover, HTypes, HttpTypeOK
      <4>2. /\ query[r].route \in SessionRoutes \cup Probes /\ Served(query[r])
            /\ "panic" \in Breaks
        BY <1>1, <4>1 DEF Promise
      <4>3. [status |-> 500, body |-> "text"] \in Api!Allowed(query[r], outcome[r])
        BY <1>1, <1>4, <4>2, AllowedPanic
      <4> QED
        BY <4>1, <4>3
    <3> QED
      BY <3>1, <3>2
  <2>2. Told' = [Told EXCEPT ![r] = a] /\ Told[r] = Nil
    BY <1>1, <1>2, <1>6, ToldOnce
  <2> HIDE DEF a
  <2>3. Api!Reply(r)
    BY <1>3, <1>4, <2>1, <2>2 DEF Api!Reply, Told, Closing
  <2> QED
    BY <2>3 DEF Api!Next
<1> QED
  BY <1>5, <1>6

(***************************************************************************)
(* Where nothing panics and no client asks for a probe or sends an empty   *)
(* string, the server keeps to docs.go as it is (Deviations = {}): the     *)
(* service acts on a request at most once and only if it names its user    *)
(* and its body conforms, every answer is a documented one that means what *)
(* it says, nobody is answered twice, and readiness is refused exactly     *)
(* while the server is stopping.  Where these things happen, it does so    *)
(* but for the deviations of the same names - for any number of concurrent *)
(* requests, and encoding errors.                                          *)
(***************************************************************************)
THEOREM ServerImplementsContract ==
    ASSUME DeviationsNamed
    PROVE  HttpSpec => ImplementsContract
<1>1. HttpInit => Promised
  BY InitPromised
<1>2. Promised /\ [HttpNext]_hvars => Promised'
  BY NextPromised
<1>3. HttpInit => Api!Init
  BY DEF HttpInit, Api!Init, Answered
<1>4. ASSUME Promised, [HttpNext]_hvars
      PROVE  [Api!Next]_Api!api
  <2>1. ASSUME NEW r \in Requests, GoOn(r) \/ Panic(r)
        PROVE  [Api!Next]_Api!api
    BY <1>4, <2>1, QuietRefines, ActRefines, ReplyRefines DEF GoOn
  <2> QED
    BY <1>4, <2>1, ProcessRefines, EnterRefines DEF HttpNext
<1> QED
  BY <1>1, <1>2, <1>3, <1>4, PTL DEF HttpSpec, ImplementsContract, Api!Spec
-----------------------------------------------------------------------------
(* Log and trace. *)

LinesOf(r) == {l \in lines : l.req = r}

(* The span of r is as it was started; it has ended with the status of the *)
(* response; it has ended with nothing.                                    *)
Untouched(r) == span[r] = StartSpan(r, query[r])
Closed(r) ==
    span[r] # Nil =>
        /\ span[r].ended
        /\ span[r].recorded =>
              /\ span[r].status = resp[r].status
              /\ span[r].error <=> resp[r].status >= 500
Abandoned(r) ==
    span[r] # Nil => span[r].ended /\ span[r].status = 0 /\ ~span[r].error

(* A request that comes back up, or has come up: Logger is the first and   *)
(* Tracing the third middleware that it meets.                             *)
Returned(r) ==
    /\ Served(query[r]) => resp[r].id = RequestID(r, query[r])
    /\ LinesOf(r) = IF verbose /\ depth[r] < 5 THEN {CompletedLine(r)} ELSE {}
    /\ depth[r] >= 3 => Untouched(r)
    /\ depth[r] < 3 => Closed(r)

(* A request that Recoverer has answered. *)
Recovered(r) ==
    /\ resp[r].status = 500
    /\ LinesOf(r) # {}
    /\ \A l \in LinesOf(r) : l.event = "panic recovered"
    /\ Abandoned(r)

Inside == {"route", "handler", "bind", "service"}

(* What log and trace hold of r, by where it is.  Tracing and logging are  *)
(* set up before the first request arrives.                                *)
Story(r) ==
    /\ stage[r] = "idle" => LinesOf(r) = {}
    /\ stage[r] # "idle" =>
           /\ phase \in {"serving", "stopping", "stopped"}
           /\ values[r].request_id = RequestID(r, query[r])
    /\ stage[r] \in Inside =>
           /\ depth[r] = 5 /\ LinesOf(r) = {} /\ Untouched(r)
           /\ resp[r].id = RequestID(r, query[r])
    /\ stage[r] = "leave" => Returned(r)
    /\ stage[r] = "panic" =>
           /\ LinesOf(r) = {}
           /\ depth[r] >= 3 => Untouched(r)
           /\ depth[r] < 3 => Abandoned(r)
    /\ stage[r] = "answered" => depth[r] = 0 /\ (Returned(r) \/ Recovered(r))

Stories == HTypes /\ \A r \in Requests : Story(r)

(* A request that nothing has happened to keeps its story. *)
LEMMA StoryKept ==
    ASSUME NEW x \in Requests, Story(x),
           UNCHANGED <<tracing, verbose>>,
           phase \in {"serving", "stopping", "stopped"} =>
               phase' \in {"serving", "stopping", "stopped"},
           query'[x] = query[x], stage'[x] = stage[x], resp'[x] = resp[x],
           depth'[x] = depth[x], values'[x] = values[x], span'[x] = span[x],
           LinesOf(x)' = LinesOf(x)
    PROVE  Story(x)'
<1>1. /\ CompletedLine(x)' = CompletedLine(x)
      /\ Untouched(x)' <=> Untouched(x)
      /\ Closed(x)' <=> Closed(x)
      /\ Abandoned(x)' <=> Abandoned(x)
  BY DEF CompletedLine, Untouched, StartSpan, Closed, Abandoned
<1>2. Returned(x)' <=> Returned(x)
  BY <1>1 DEF Returned, RequestID
<1>3. Recovered(x)' <=> Recovered(x)
  <2>1. resp'[x].status = resp[x].status
    OBVIOUS
  <2> DEFINE Only(S) == \A l \in S : l.event = "panic recovered"
  <2>2. Only(LinesOf(x)') <=> Only(LinesOf(x))
    OBVIOUS
  <2>3. Recovered(x) <=> resp[x].status = 500 /\ LinesOf(x) # {} /\ Only(LinesOf(x))
                         /\ Abandoned(x)
    BY DEF Recovered
  <2>4. Recovered(x)' <=> resp'[x].status = 500 /\ LinesOf(x)' # {}
                          /\ Only(LinesOf(x)') /\ Abandoned(x)'
    BY DEF Recovered
  <2> HIDE DEF Only
  <2> QED
    BY <1>1, <2>1, <2>2, <2>3, <2>4
<1> QED
  BY <1>1, <1>2, <1>3 DEF Story, RequestID

LEMMA ProcessStories ==
    ASSUME Stories, NEW x \in Requests,
           LoadConfig \/ LoadPanics \/ Register \/ Stop \/ ShutdownReturns
             \/ UNCHANGED hvars
    PROVE  Story(x)'
<1>1. UNCHANGED <<query, stage, depth, values, resp, span, lines>>
  BY DEF LoadConfig, LoadPanics, Register, Stop, ShutdownReturns, hvars,
         flightVars, ctxVars, obsVars
<1>2. Story(x) /\ LinesOf(x)' = LinesOf(x)
  BY <1>1 DEF Stories, LinesOf
<1>3. CASE LoadConfig \/ LoadPanics \/ Register
  <2>1. stage[x] = "idle"
    BY <1>2, <1>3 DEF Story, LoadConfig, LoadPanics, Register
  <2>2. stage'[x] = "idle" /\ LinesOf(x)' = {}
    BY <1>1, <1>2, <2>1 DEF Story
  <2> QED
    BY <2>2 DEF Story, Inside
<1>4. CASE Stop \/ ShutdownReturns
  BY <1>1, <1>2, <1>4, StoryKept DEF Stop, ShutdownReturns
<1>5. CASE UNCHANGED hvars
  <2>1. UNCHANGED <<phase, tracing, verbose>>
    BY <1>5 DEF hvars, procVars
  <2> QED
    BY <1>1, <1>2, <2>1, StoryKept
<1> QED
  BY <1>3, <1>4, <1>5

LEMMA EnterStory ==
    ASSUME Stories, NEW r \in Requests, Enter(r)
    PROVE  Story(r)'
<1>1. HTypes /\ Story(r) /\ stage[r] = "idle"
  BY DEF Stories, Enter
<1>2. /\ UNCHANGED <<phase, tracing, lines>>
      /\ phase \in {"serving", "stopping"}
  BY DEF Enter, procVars
<1>3. PICK q \in Queries :
          /\ query' = [query EXCEPT ![r] = q]
          /\ values' = [values EXCEPT ![r] =
                [request_id |-> RequestID(r, q), route_pattern |-> "unknown"]]
          /\ resp' = [resp EXCEPT ![r] =
                [status |-> 200, body |-> "none", id |-> RequestID(r, q)]]
          /\ span' = [span EXCEPT ![r] = StartSpan(r, q)]
  BY DEF Enter
<1>4. /\ query'[r] = q /\ span'[r] = StartSpan(r, q)
      /\ values'[r].request_id = RequestID(r, q)
      /\ resp'[r].id = RequestID(r, q)
  BY <1>1, <1>3 DEF HTypes, HttpTypeOK
<1>5. stage'[r] = "route" /\ depth'[r] = 5
  BY <1>1, ChainFacts DEF Enter, HTypes, HttpTypeOK
<1>6. LinesOf(r)' = {}
  BY <1>1, <1>2 DEF Story, LinesOf
<1>7. Untouched(r)'
  BY <1>2, <1>4 DEF Untouched, StartSpan
<1> QED
  BY <1>2, <1>4, <1>5, <1>6, <1>7 DEF Story, Inside

(* The steps of the router and the handlers are before the log and the     *)
(* span of their request.                                                  *)
LEMMA HandlerStory ==
    ASSUME Stories, NEW r \in Requests, stage[r] \in Inside,
           UNCHANGED <<phase, tracing, verbose, query, depth, span, lines>>,
           values'[r].request_id = values[r].request_id,
           stage'[r] \in {"handler", "bind", "service", "leave", "panic"},
           stage'[r] # "leave" => resp'[r] = resp[r],
           Served(query[r]) => resp'[r].id = resp[r].id
    PROVE  Story(r)'
<1>1. Story(r)
  BY DEF Stories
<1>2. /\ depth'[r] = 5 /\ LinesOf(r)' = {}
      /\ resp[r].id = RequestID(r, query[r])
      /\ phase' \in {"serving", "stopping", "stopped"}
      /\ values'[r].request_id = RequestID(r, query[r])
  BY <1>1 DEF Story, LinesOf, Inside
<1>3. Untouched(r)'
  BY <1>1 DEF Story, Untouched, StartSpan
<1>4. query'[r] = query[r]
  OBVIOUS
<1>5. CASE stage'[r] = "leave"
  <2>1. Returned(r)'
    BY <1>2, <1>3, <1>4 DEF Returned
  <2> QED
    BY <1>2, <1>4, <1>5, <2>1 DEF Story, Inside
<1>6. CASE stage'[r] # "leave"
  BY <1>2, <1>3, <1>4, <1>6 DEF Story, Inside
<1> QED
  BY <1>5, <1>6

LEMMA InsideStory ==
    ASSUME Stories, NEW r \in Requests,
           Route(r) \/ ProbeHandler(r) \/ UserID(r) \/ BindJSON(r)
             \/ ServiceReturns(r) \/ Panic(r)
    PROVE  Story(r)'
<1>1. HTypes
  BY DEF Stories
<1>2. /\ stage[r] \in Inside
      /\ UNCHANGED <<phase, tracing, verbose, query, depth, span, lines>>
  BY DEF Route, ProbeHandler, UserID, BindJSON, ServiceReturns, Panic, procVars,
         ctxVars, obsVars, Inside
<1>3. stage[r] # "idle"
  BY <1>2 DEF Inside
<1>4. values'[r].request_id = values[r].request_id
  <2>1. CASE UNCHANGED values
    BY <2>1
  <2>2. CASE Route(r) /\ ~Unrouted(r)
    <3>1. values' = [values EXCEPT ![r].route_pattern = query[r].route]
      BY <2>2 DEF Route
    <3>2. values[r] \in UserValues /\ values \in [Requests -> UserValues \cup {Nil}]
      BY <1>1, <1>3, Owned DEF HTypes, HttpTypeOK
    <3>3. values'[r] = [values[r] EXCEPT !.route_pattern = query[r].route]
      BY <3>1, <3>2
    <3> QED
      BY <3>2, <3>3 DEF UserValues
  <2> QED
    BY <2>1, <2>2 DEF Unrouted, ProbeHandler, UserID, BindJSON, ServiceReturns,
                      Panic, ctxVars
<1>5. ASSUME stage' = [stage EXCEPT ![r] = "leave"],
             Served(query[r]) => resp'[r].id = resp[r].id
      PROVE  Story(r)'
  <2>1. stage'[r] = "leave"
    BY <1>1, <1>5, After
  <2> QED
    BY <1>2, <1>4, <1>5, <2>1, HandlerStory
<1>6. ASSUME NEW st \in {"handler", "bind", "service", "panic"},
             stage' = [stage EXCEPT ![r] = st], UNCHANGED resp
      PROVE  Story(r)'
  <2>1. stage'[r] = st
    BY <1>1, <1>6, After
  <2> QED
    BY <1>2, <1>4, <1>6, <2>1, HandlerStory
<1>7. ASSUME NEW s \in Statuses, NEW b \in Kinds, WriteJSON(r, s, b) \/ Respond(r, s, b)
      PROVE  Story(r)'
  BY <1>1, <1>3, <1>5, <1>7, Written, Responded
<1>8. CASE Route(r)
  <2>1. CASE Unrouted(r)
    BY <1>5, <2>1 DEF Unrouted
  <2>2. CASE AdaptedHandler(r)
    BY <1>7, <2>2, Members DEF AdaptedHandler
  <2>3. CASE ~Unrouted(r) /\ ~AdaptedHandler(r)
    BY <1>6, <1>8, <2>3 DEF Route
  <2> QED
    BY <2>1, <2>2, <2>3
<1>9. CASE ProbeHandler(r)
  BY <1>7, <1>9, Members DEF ProbeHandler
<1>10. CASE UserID(r)
  BY <1>6, <1>7, <1>10, Members DEF UserID, WriteError
<1>11. CASE BindJSON(r)
  BY <1>6, <1>7, <1>11, Members DEF BindJSON, WriteError
<1>12. CASE ServiceReturns(r)
  <2>1. PICK o \in Outcomes(query[r].route) : Answers(r, o)
    BY <1>12 DEF ServiceReturns, Answers
  <2> QED
    BY <1>7, <2>1, Members DEF Answers, WriteError
<1>13. CASE Panic(r)
  BY <1>6, <1>13 DEF Panic
<1> QED
  BY <1>8, <1>9, <1>10, <1>11, <1>12, <1>13

(* The line of a request whose span is as it was started. *)
LEMMA CompletedLineIsLogged ==
    ASSUME HTypes, NEW r \in Requests, stage[r] # "idle", Story(r), Untouched(r)
    PROVE  Line(r) = CompletedLine(r)
<1>1. values[r].request_id = IF query[r].id = Nil THEN r ELSE query[r].id
  BY DEF Story, RequestID
<1>2. (IF span[r] = Nil THEN Nil ELSE span[r].trace) =
          IF ~tracing THEN Nil
          ELSE IF query[r].parent = Nil THEN r ELSE query[r].parent.trace
  <2>1. CASE ~tracing
    BY <2>1 DEF Untouched, StartSpan
  <2>2. CASE tracing
    <3>1. span[r].trace = IF query[r].parent = Nil THEN r ELSE query[r].parent.trace
      BY <2>2 DEF Untouched, StartSpan
    <3>2. span[r] # Nil
      <4>1. (IF query[r].parent = Nil THEN r ELSE query[r].parent.trace) \in Ids \cup Requests
        BY Owned, QueryTypes
      <4>2. (query[r].parent = Nil \/ query[r].parent.sampled) \in BOOLEAN
        BY Zenon
      <4>3. StartSpan(r, query[r]) \in Span
        BY <2>2, <4>1, <4>2, MakeSpan, Zenon DEF StartSpan
      <4> QED
        BY <4>3, HttpAssumption DEF Untouched
    <3> QED
      BY <2>2, <3>1, <3>2
  <2> QED
    BY <2>1, <2>2
<1> QED
  BY <1>1, <1>2 DEF Line, CompletedLine

(* A span as it is started has neither a status nor an end. *)
LEMMA FreshSpan ==
    ASSUME HTypes, NEW r \in Requests, stage[r] # "idle", Untouched(r), span[r] # Nil
    PROVE  span[r] \in Span /\ span[r].status = 0 /\ ~span[r].error /\ ~span[r].ended
<1>1. span[r] \in Span
  BY Owned
<1>2. tracing
  BY DEF Untouched, StartSpan
<1>3. span[r].status = 0 /\ span[r].error = FALSE /\ span[r].ended = FALSE
  BY <1>2 DEF Untouched, StartSpan
<1> QED
  BY <1>1, <1>3

LEMMA LeaveStory ==
    ASSUME Stories, NEW r \in Requests, Leave(r)
    PROVE  Story(r)'
<1>1. HTypes /\ Story(r) /\ stage[r] = "leave"
  BY DEF Stories, Leave
<1>2. Returned(r)
  BY <1>1 DEF Story
<1>3. /\ UNCHANGED <<phase, tracing, verbose, query, values, resp>>
      /\ depth' = [depth EXCEPT ![r] = depth[r] - 1]
      /\ stage' = [stage EXCEPT ![r] = IF depth[r] = 1 THEN "answered" ELSE "leave"]
  BY <1>1 DEF Leave, procVars, ctxVars
<1>4. depth[r] \in 1 .. 5 /\ depth \in [Requests -> 0 .. 5]
  BY <1>1, Owned, ChainFacts DEF HTypes, HttpTypeOK
<1>5. depth'[r] = depth[r] - 1
  BY <1>3, <1>4
<1>6. stage'[r] = IF depth[r] = 1 THEN "answered" ELSE "leave"
  BY <1>1, <1>3, After
<1>7. CompletedLine(r)' = CompletedLine(r) /\ CompletedLine(r).req = r
  BY <1>3 DEF CompletedLine
<1>8. Served(query'[r]) => resp'[r].id = RequestID(r, query'[r])
  BY <1>2, <1>3 DEF Returned
<1>9. Returned(r)'
  <2>1. CASE depth[r] = 5
    <3>1. Logger(r)
      BY <2>1, ChainFacts DEF Leave, Innermost
    <3>2. Untouched(r) /\ LinesOf(r) = {}
      BY <1>2, <2>1 DEF Returned
    <3>3. Line(r) = CompletedLine(r)
      BY <1>1, <3>2, CompletedLineIsLogged
    <3>4. lines' = IF verbose THEN lines \cup {CompletedLine(r)} ELSE lines
      BY <3>1, <3>3 DEF Logger
    <3>5. LinesOf(r)' = IF verbose THEN {CompletedLine(r)} ELSE {}
      BY <1>7, <3>2, <3>4 DEF LinesOf
    <3>6. Untouched(r)'
      BY <1>3, <3>1, <3>2 DEF Untouched, StartSpan, Logger
    <3>7. depth'[r] = 4
      BY <1>5, <2>1
    <3> QED
      BY <1>3, <1>7, <1>8, <3>5, <3>6, <3>7 DEF Returned
  <2>2. CASE depth[r] # 5
    <3>1. lines' = lines
      <4>1. Innermost(r) # "Logger"
        BY <1>4, <2>2, Numbers, ChainFacts DEF Innermost
      <4> QED
        BY <4>1 DEF Leave, Metrics, EndTracing, obsVars
    <3>2. LinesOf(r)' = IF verbose THEN {CompletedLine(r)} ELSE {}
      <4>1. depth[r] < 5
        BY <1>4, <2>2
      <4>2. LinesOf(r)' = LinesOf(r)
        BY <3>1 DEF LinesOf
      <4> QED
        BY <1>2, <4>1, <4>2 DEF Returned
    <3>3. /\ depth'[r] < 5
          /\ depth'[r] >= 3 => depth[r] = 4
      BY <1>4, <1>5, <2>2
    <3>4. depth[r] = 4 => Untouched(r)'
      <4>1. SUFFICES ASSUME depth[r] = 4 PROVE Untouched(r)'
        OBVIOUS
      <4>2. span' = span
        BY <4>1, ChainFacts DEF Leave, Innermost, Metrics
      <4>3. Untouched(r)
        BY <1>2, <4>1 DEF Returned
      <4> QED
        BY <1>3, <4>2, <4>3 DEF Untouched, StartSpan
    <3>5. depth'[r] < 3 => Closed(r)'
      <4>1. CASE depth[r] = 3
        <5>1. EndTracing(r) /\ Untouched(r)
          BY <1>2, <4>1, ChainFacts DEF Leave, Innermost, Returned
        <5>2. CASE span[r] = Nil
          <6>1. span' = [span EXCEPT ![r] = Nil]
            BY <5>1, <5>2 DEF EndTracing
          <6>2. span'[r] = Nil
            BY <1>1, <6>1 DEF HTypes, HttpTypeOK
          <6> QED
            BY <6>2 DEF Closed
        <5>3. CASE span[r] # Nil
          <6>1. span[r] \in Span /\ ~span[r].ended
            BY <1>1, <5>1, <5>3, FreshSpan
          <6>2. CASE span[r].recorded
            <7>1. IsRecording(span[r])
              BY <5>3, <6>1, <6>2 DEF IsRecording
            <7> DEFINE e == resp[r].status >= 500
            <7>2. span' = [span EXCEPT ![r] =
                      [span[r] EXCEPT !.status = resp[r].status, !.error = e,
                                      !.ended = TRUE]]
              BY <5>1, <5>3, <7>1 DEF EndTracing
            <7>3. e <=> resp[r].status >= 500
              OBVIOUS
            <7> HIDE DEF e
            <7>4. span'[r] = [span[r] EXCEPT !.status = resp[r].status, !.error = e,
                                             !.ended = TRUE]
              BY <1>1, <7>2 DEF HTypes, HttpTypeOK
            <7>5. span'[r].ended /\ span'[r].status = resp[r].status /\ (span'[r].error <=> e)
              BY <6>1, <7>4 DEF Span
            <7> QED
              BY <1>3, <7>3, <7>5 DEF Closed
          <6>3. CASE ~span[r].recorded
            <7>1. ~IsRecording(span[r])
              BY <6>3 DEF IsRecording
            <7>2. span' = [span EXCEPT ![r] = [span[r] EXCEPT !.ended = TRUE]]
              BY <5>1, <5>3, <7>1 DEF EndTracing
            <7>3. span'[r] = [span[r] EXCEPT !.ended = TRUE]
              BY <1>1, <7>2 DEF HTypes, HttpTypeOK
            <7>4. span'[r].ended /\ ~span'[r].recorded
              BY <6>1, <6>3, <7>3 DEF Span
            <7> QED
              BY <7>4 DEF Closed
          <6> QED
            BY <6>2, <6>3
        <5> QED
          BY <5>2, <5>3
      <4>2. CASE depth[r] \in {1, 2}
        <5>1. span' = span
          BY <4>2, ChainFacts DEF Leave, Innermost, obsVars
        <5>2. Closed(r)
          BY <1>2, <4>2 DEF Returned
        <5> QED
          BY <1>3, <5>1, <5>2 DEF Closed
      <4>3. CASE depth[r] = 4
        BY <1>5, <4>3
      <4> QED
        BY <1>4, <2>2, <4>1, <4>2, <4>3
    <3> QED
      BY <1>3, <1>7, <1>8, <3>2, <3>3, <3>4, <3>5 DEF Returned
  <2> QED
    BY <2>1, <2>2
<1>10. /\ phase' \in {"serving", "stopping", "stopped"}
       /\ values'[r].request_id = RequestID(r, query'[r])
  BY <1>1, <1>3 DEF Story
<1>11. stage'[r] = "answered" => depth'[r] = 0
  BY <1>5, <1>6
<1> QED
  BY <1>6, <1>9, <1>10, <1>11 DEF Story, Inside

LEMMA UnwindStory ==
    ASSUME Stories, NEW r \in Requests, Unwind(r)
    PROVE  Story(r)'
<1>1. HTypes /\ Story(r) /\ stage[r] = "panic" /\ Innermost(r) # "Recoverer"
  BY DEF Stories, Unwind
<1>2. /\ UNCHANGED <<phase, tracing, verbose, query, values, stage, lines>>
      /\ depth' = [depth EXCEPT ![r] = depth[r] - 1]
  BY DEF Unwind, procVars, ctxVars
<1>3. /\ depth[r] \in 1 .. 5 /\ depth \in [Requests -> 0 .. 5]
      /\ span \in [Requests -> Span \cup {Nil}]
  BY <1>1, Owned, ChainFacts DEF HTypes, HttpTypeOK
<1>4. depth'[r] = depth[r] - 1
  BY <1>2, <1>3
<1>5. LinesOf(r)' = {}
  BY <1>1, <1>2 DEF Story, LinesOf
<1>6. CASE depth[r] = 3
  <2>1. Innermost(r) = "Tracing" /\ Untouched(r)
    BY <1>1, <1>6, ChainFacts DEF Innermost, Story
  <2>2. Abandoned(r)'
    <3>1. CASE span[r] = Nil
      <4>1. span'[r] = Nil
        BY <1>3, <3>1 DEF Unwind
      <4> QED
        BY <4>1 DEF Abandoned
    <3>2. CASE span[r] # Nil
      <4>1. span[r] \in Span /\ span[r].status = 0 /\ ~span[r].error
        BY <1>1, <2>1, <3>2, FreshSpan
      <4>2. span'[r] = [span[r] EXCEPT !.ended = TRUE]
        BY <1>3, <2>1, <3>2 DEF Unwind
      <4>3. span'[r].ended /\ span'[r].status = 0 /\ ~span'[r].error
        BY <4>1, <4>2 DEF Span
      <4> QED
        BY <4>3 DEF Abandoned
    <3> QED
      BY <3>1, <3>2
  <2>3. depth'[r] = 2
    BY <1>4, <1>6
  <2> QED
    BY <1>1, <1>2, <1>5, <2>2, <2>3 DEF Story, Inside
<1>7. CASE depth[r] # 3
  <2>1. Innermost(r) # "Tracing"
    BY <1>3, <1>7, Numbers, ChainFacts DEF Innermost
  <2>2. span'[r] = span[r]
    BY <1>3, <2>1 DEF Unwind
  <2>3. /\ Untouched(r) => Untouched(r)'
        /\ Abandoned(r) => Abandoned(r)'
    BY <1>2, <2>2 DEF Untouched, StartSpan, Abandoned
  <2>4. /\ depth'[r] >= 3 => depth[r] >= 3
        /\ depth'[r] < 3 => depth[r] < 3
    BY <1>3, <1>4, <1>7
  <2> QED
    BY <1>1, <1>2, <1>5, <2>3, <2>4 DEF Story, Inside
<1> QED
  BY <1>6, <1>7

LEMMA RecoverStory ==
    ASSUME Stories, NEW r \in Requests, Recover(r)
    PROVE  Story(r)'
<1>1. HTypes /\ Story(r) /\ stage[r] = "panic"
  BY DEF Stories, Recover
<1>2. depth[r] = 1
  BY <1>1, RecoverMoves
<1>3. UNCHANGED <<phase, tracing, verbose, query, values>>
  BY DEF Recover, procVars, ctxVars
<1>4. stage'[r] = "answered" /\ depth'[r] = 0
  <2>1. stage \in [Requests -> Stages] /\ depth \in [Requests -> 0 .. Len(Chain)]
    BY <1>1 DEF HTypes, HttpTypeOK
  <2>2. /\ stage' = [stage EXCEPT ![r] = "answered"]
        /\ depth' = [depth EXCEPT ![r] = depth[r] - 1]
    BY <1>2 DEF Recover
  <2>3. depth'[r] = depth[r] - 1
    BY <2>1, <2>2
  <2>4. depth'[r] = 0
    BY <1>2, <2>3
  <2>5. stage'[r] = "answered"
    BY <1>1, <2>2, After
  <2> QED
    BY <2>4, <2>5
<1>5. Abandoned(r) /\ LinesOf(r) = {}
  BY <1>1, <1>2 DEF Story
<1>6. span'[r] = span[r]
  <2>1. ~IsRecording(span[r])
    BY <1>5 DEF Abandoned, IsRecording
  <2>2. span \in [Requests -> Span \cup {Nil}]
    BY <1>1 DEF HTypes, HttpTypeOK
  <2> QED
    BY <2>1, <2>2 DEF Recover
<1>7. Abandoned(r)'
  BY <1>5, <1>6 DEF Abandoned
<1>8. resp'[r].status = 500
  BY <1>1 DEF Recover, HTypes, HttpTypeOK
<1> DEFINE line == PanicLine(r)
<1>9. /\ lines' = lines \cup {line}
      /\ line.req = r /\ line.event = "panic recovered"
  BY DEF Recover, PanicLine
<1> HIDE DEF line
<1>10. LinesOf(r)' = {line}
  BY <1>5, <1>9 DEF LinesOf
<1>11. Recovered(r)'
  BY <1>7, <1>8, <1>9, <1>10 DEF Recovered
<1> QED
  BY <1>1, <1>3, <1>4, <1>11 DEF Story, Inside

(* The lines of the others are theirs. *)
LEMMA OtherLines ==
    ASSUME NEW r \in Requests, Enter(r) \/ GoOn(r) \/ Panic(r),
           NEW x \in Requests, x # r
    PROVE  LinesOf(x)' = LinesOf(x)
<1>1. CASE lines' = lines \cup {Line(r)}
  <2> DEFINE line == Line(r)
  <2>1. lines' = lines \cup {line} /\ line.req = r
    BY <1>1 DEF Line
  <2> HIDE DEF line
  <2> QED
    BY <2>1 DEF LinesOf
<1>2. CASE lines' = lines
  BY <1>2 DEF LinesOf
<1>3. CASE Leave(r)
  <2>1. CASE Logger(r)
    BY <1>1, <1>2, <2>1 DEF Logger
  <2>2. CASE ~Logger(r)
    BY <1>2, <1>3, <2>2 DEF Leave, Metrics, EndTracing, obsVars
  <2> QED
    BY <2>1, <2>2
<1>4. CASE Recover(r)
  <2> DEFINE line == PanicLine(r)
  <2>1. lines' = lines \cup {line} /\ line.req = r
    BY <1>4 DEF Recover, PanicLine
  <2> HIDE DEF line
  <2> QED
    BY <2>1 DEF LinesOf
<1>5. CASE ~Leave(r) /\ ~Recover(r)
  BY <1>2, <1>5 DEF Enter, GoOn, Panic, Route, ProbeHandler, UserID, BindJSON,
                    ServiceReturns, Unwind, obsVars
<1> QED
  BY <1>3, <1>4, <1>5

LEMMA NextStories ==
    ASSUME Stories, [HttpNext]_hvars
    PROVE  Stories'
<1>1. HTypes /\ HTypes'
  BY NextTypes DEF Stories
<1>2. ASSUME NEW x \in Requests
      PROVE  Story(x)'
  <2>1. CASE LoadConfig \/ LoadPanics \/ Register \/ Stop \/ ShutdownReturns
               \/ UNCHANGED hvars
    BY <2>1, ProcessStories
  <2>2. ASSUME NEW r \in Requests, Enter(r) \/ GoOn(r) \/ Panic(r)
        PROVE  Story(x)'
    <3>1. CASE x = r
      BY <2>2, <3>1, EnterStory, InsideStory, LeaveStory, UnwindStory,
         RecoverStory DEF GoOn
    <3>2. CASE x # r
      <4>1. Moved(r) \/ Enter(r)
        BY <1>1, <2>2, RequestMoves
      <4>2. UNCHANGED <<phase, tracing, verbose>>
        BY <4>1 DEF Moved, Enter, procVars
      <4>3. /\ query'[x] = query[x] /\ stage'[x] = stage[x] /\ resp'[x] = resp[x]
            /\ depth'[x] = depth[x] /\ values'[x] = values[x] /\ span'[x] = span[x]
        BY <1>1, <3>2, <4>1, OthersKept
      <4>4. LinesOf(x)' = LinesOf(x)
        BY <2>2, <3>2, OtherLines
      <4>5. Story(x)
        BY DEF Stories
      <4> QED
        BY <4>2, <4>3, <4>4, <4>5, StoryKept
    <3> QED
      BY <3>1, <3>2
  <2> QED
    BY <2>1, <2>2 DEF HttpNext
<1> QED
  BY <1>1, <1>2 DEF Stories

LEMMA InitStories ==
    ASSUME HttpInit
    PROVE  Stories
<1>1. \A r \in Requests : stage[r] = "idle" /\ LinesOf(r) = {}
  BY DEF HttpInit, LinesOf
<1>2. \A r \in Requests : Story(r)
  BY <1>1 DEF Story, Inside
<1> QED
  BY <1>2, InitTypes DEF Stories

(* What an answered request has left behind. *)
LEMMA StoryTold ==
    ASSUME HTypes, NEW r \in Requests, Story(r), Answered(r)
    PROVE  /\ span[r] # Nil => span[r].ended
           /\ \/ /\ Panicked(r)
                 /\ resp[r].status = 500
                 /\ \A l \in lines : l.req = r => l.event = "panic recovered"
              \/ /\ ~Panicked(r)
                 /\ {l \in lines : l.req = r} =
                       IF verbose THEN {CompletedLine(r)} ELSE {}
                 /\ Served(query[r]) => resp[r].id = CompletedLine(r).id
                 /\ span[r] # Nil /\ span[r].recorded =>
                       /\ span[r].status = resp[r].status
                       /\ span[r].error <=> resp[r].status >= 500
<1>1. depth[r] = 0 /\ (Returned(r) \/ Recovered(r))
  BY DEF Story, Answered
<1>2. CASE Recovered(r)
  <2>1. /\ Panicked(r)
        /\ \A l \in lines : l.req = r => l.event = "panic recovered"
    <3>1. \A l : l \in LinesOf(r) <=> l \in lines /\ l.req = r
      BY DEF LinesOf
    <3>2. \A l \in LinesOf(r) : l.event = "panic recovered"
      BY <1>2 DEF Recovered
    <3>3. PICK l : l \in LinesOf(r)
      BY <1>2 DEF Recovered
    <3>4. Panicked(r)
      BY <3>1, <3>2, <3>3, Zenon DEF Panicked
    <3> QED
      BY <3>1, <3>2, <3>4, Zenon
  <2> QED
    BY <1>2, <2>1 DEF Recovered, Abandoned
<1>3. CASE Returned(r)
  <2>1. LinesOf(r) = (IF verbose THEN {CompletedLine(r)} ELSE {}) /\ Closed(r)
    BY <1>1, <1>3 DEF Returned
  <2>2. /\ CompletedLine(r).event = "request completed"
        /\ CompletedLine(r).id = RequestID(r, query[r])
    BY DEF CompletedLine, RequestID
  <2>3. ~Panicked(r)
    BY <2>1, <2>2 DEF LinesOf, Panicked
  <2>4. Served(query[r]) => resp[r].id = CompletedLine(r).id
    BY <1>3, <2>2 DEF Returned
  <2> QED
    BY <2>1, <2>3, <2>4 DEF LinesOf, Closed
<1> QED
  BY <1>1, <1>2, <1>3

(***************************************************************************)
(* Log and trace agree with what the client got, for any number of         *)
(* requests: the handler's answer is in the line and in the span, a panic  *)
(* leaves its own line, and every span ends.                               *)
(***************************************************************************)
THEOREM ObserversAgreeAlways == HttpSpec => []ObserversAgree
<1>1. HttpInit => Stories
  BY InitStories
<1>2. Stories /\ [HttpNext]_hvars => Stories'
  BY NextStories
<1>3. Stories => ObserversAgree
  BY StoryTold DEF Stories, ObserversAgree
<1> QED
  BY <1>1, <1>2, <1>3, PTL DEF HttpSpec
=============================================================================
