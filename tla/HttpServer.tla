----------------------------- MODULE HttpServer -----------------------------
(***************************************************************************)
(* What surrounds the session service in its process: the settings it is   *)
(* started with, the middleware chain and the routes of server.go, the     *)
(* probes of handler.go, the handlers of session/handler.go with binding   *)
(* and application errors, and the end of the server.                      *)
(*                                                                         *)
(* A request goes down the chain, is handled, and comes back up through    *)
(* what each middleware does after next has returned - or a panic unwinds  *)
(* the chain, which runs deferred calls only.  Going down touches nothing  *)
(* that requests share and is one step; coming up is one step for each     *)
(* middleware, since counters and log are shared.                          *)
(*                                                                         *)
(* The service is a call that returns in the end: PlaybackService has what *)
(* it does in between.  Its answers for each operation are Outcomes.       *)
(***************************************************************************)
EXTENDS Config, Integers, Sequences, FiniteSets

CONSTANTS
    Requests,
    Ids,          \* the request and trace identifiers that clients choose
    Queries,      \* the requests that clients make: a subset of Query
    Files, Envs,  \* the files and environments a process may find
    Breaks,       \* what goes wrong: "panic", "encode", "config"
    Deviations,   \* from the published API: see ApiContract
    Nil

SessionRoutes == {"start", "current", "heartbeat", "pause", "resume"}
Probes == {"healthz", "readyz", "example"}
Adapted == {"metrics", "swagger"}
Routes == SessionRoutes \cup Probes \cup Adapted
Methods == {"GET", "POST", "PUT", "OPTIONS"}

(* Where server.go registers a route: prefix and method. *)
Prefixed(route) == route \in SessionRoutes \cup {"example"}
MethodOf(route) ==
    IF route = "start" THEN "POST"
    ELSE IF route \in {"heartbeat", "pause", "resume"} THEN "PUT" ELSE "GET"

(***************************************************************************)
(* A request: the operation its path names, if any, with or without the    *)
(* prefix /api/v1, and its method; whether X-User-ID is not empty,         *)
(* X-Request-Id, the trace context of the caller, and its body: "empty",   *)
(* "invalid" (as JSON, or a field of the wrong type) or an "object" whose  *)
(* strings may be missing or empty.                                        *)
(***************************************************************************)
Query ==
    [route : Routes \cup {"unknown"},
     base : BOOLEAN,
     method : Methods,
     user : BOOLEAN,
     id : Ids \cup {Nil},
     parent : [trace : Ids, sampled : BOOLEAN] \cup {Nil},
     body : {"empty", "invalid", "object"},
     fields : [{"track_id", "device_id"} -> {"absent", "empty", "text"}],
     pos : Int]

Statuses == {200, 201, 204, 301, 400, 401, 404, 405, 500, 503}
Patterns == Routes \cup {"unknown"}
Labels == Methods \X Patterns \X Statuses

UserValues == [request_id : Ids \cup Requests, route_pattern : Patterns]

Kinds == {"none", "map", "session", "error", "text"}

Response == [status : Statuses, body : Kinds, id : Ids \cup Requests \cup {Nil}]

Span == [trace : Ids \cup Requests, recorded : BOOLEAN, status : Statuses \cup {0},
         error : BOOLEAN, ended : BOOLEAN]

LogLine == [req : Requests, status : Statuses \cup {0},
            event : {"request completed", "panic recovered"},
            id : Ids \cup Requests, trace : Ids \cup Requests \cup {Nil}]

Effects == {"none", "done", "missing", "failed", "refused"}

ASSUME HttpAssumption ==
    /\ Queries \subseteq Query
    /\ Deviations \subseteq {"rootProbes", "plainErrors", "emptyStrings"}
    /\ Files \subseteq SUBSET Keys
    /\ Envs \subseteq SUBSET Keys
    /\ Nil \notin Query \cup Span \cup Ids \cup Requests

VARIABLES
    phase,      \* of the process: see Phases
    found,      \* the file and the environment Load has found, or Nil
    settings,   \* the origin of each setting that Load has returned, or Nil
    tracing,    \* whether a tracer provider is installed
    verbose,    \* whether the logger lets Info through
    ready,      \* Handler.ready
    query,      \* query[r]: the request, or Nil
    stage,      \* stage[r]: where its goroutine is: see Stages
    depth,      \* depth[r]: the number of middlewares it is inside of
    values,     \* values[r]: the user values of its RequestCtx
    resp,       \* resp[r]: its Response
    span,       \* span[r]: its server span, Nil if there is no provider
    outcome,    \* outcome[r]: what the service or a probe has done
    lines,      \* the lines the middlewares have logged
    total       \* http_requests_total, for each series that has begun

procVars == <<phase, found, settings, tracing, verbose, ready>>
ctxVars == <<query, values, outcome>>
obsVars == <<span, lines, total>>
flightVars == <<ctxVars, obsVars, stage, depth, resp>>
hvars == <<procVars, flightVars>>

Phases == {"loading", "loaded", "serving", "stopping", "stopped", "failed"}
Stages == {"idle", "route", "handler", "bind", "service", "leave", "panic",
           "answered"}

HttpInit ==
    /\ phase = "loading"
    /\ found = Nil
    /\ settings = Nil
    /\ tracing = FALSE
    /\ verbose = TRUE
    /\ ready = TRUE
    /\ query = [r \in Requests |-> Nil]
    /\ stage = [r \in Requests |-> "idle"]
    /\ depth = [r \in Requests |-> 0]
    /\ values = [r \in Requests |-> Nil]
    /\ resp = [r \in Requests |-> Nil]
    /\ span = [r \in Requests |-> Nil]
    /\ outcome = [r \in Requests |-> "none"]
    /\ lines = {}
    /\ total = [series \in {} |-> 0]
-----------------------------------------------------------------------------
(* The process around the server. *)

(* main: Load finds a file, or none, and an environment. *)
LoadConfig ==
    /\ phase = "loading"
    /\ phase' = "loaded"
    /\ \E file \in Files, env \in Envs :
          /\ found' = [file |-> file, env |-> env]
          /\ settings' = Load(file, env)
    /\ UNCHANGED <<tracing, verbose, ready, flightVars>>

(* The file cannot be read, or a value does not decode: Load panics. *)
LoadPanics ==
    /\ "config" \in Breaks
    /\ phase = "loading"
    /\ phase' = "failed"
    /\ UNCHANGED <<found, settings, tracing, verbose, ready, flightVars>>

(* logger.New: warn and error silence Info; any other level does not. *)
NewLogger ==
    verbose' \in IF settings["log_level"] = "default" THEN {TRUE} ELSE BOOLEAN

(* tracing.Register: a provider, or OpenTelemetry's no-ops. *)
RegisterTracing ==
    tracing' \in IF settings["tracing_enabled"] = "default" THEN {TRUE} ELSE BOOLEAN

(* The components take their settings and do not come back for more. *)
Register ==
    /\ phase = "loaded"
    /\ phase' = "serving"
    /\ NewLogger
    /\ RegisterTracing
    /\ found' = Nil
    /\ settings' = Nil
    /\ UNCHANGED <<ready, flightVars>>

(* Mutation of Stop: the readiness flag is forgotten. *)
Stop_StaysReady ==
    /\ phase = "serving"
    /\ phase' = "stopping"
    /\ UNCHANGED <<found, settings, tracing, verbose, ready, flightVars>>

(* OnStop: the flag is taken back, then Shutdown begins. *)
Stop ==
    /\ phase = "serving"
    /\ phase' = "stopping"
    /\ ready' = FALSE
    /\ UNCHANGED <<found, settings, tracing, verbose, flightVars>>

(* Shutdown returns when no connection is open. *)
ShutdownReturns ==
    /\ phase = "stopping"
    /\ \A r \in Requests : stage[r] \in {"idle", "answered"}
    /\ phase' = "stopped"
    /\ UNCHANGED <<found, settings, tracing, verbose, ready, flightVars>>
-----------------------------------------------------------------------------
(* Down the chain. *)

(* Mutation of Chain: nothing recovers from a panic. *)
Chain_NoRecoverer == <<"RequestID", "Tracing", "Metrics", "Logger">>

(* The order in which server.go composes the middlewares, outermost first. *)
Chain == <<"Recoverer", "RequestID", "Tracing", "Metrics", "Logger">>

(* Mutation of RequestID: no identifier is generated. *)
RequestID_NoneGenerated(r, q) == q.id

(* RequestID: the client's identifier, or a generated one. *)
RequestID(r, q) == IF q.id = Nil THEN r ELSE q.id

(***************************************************************************)
(* Tracing: the span continues the trace of the caller and is recorded if  *)
(* the caller's is, or begins a trace and is recorded.  Without a provider *)
(* there is neither a propagator nor a span.                               *)
(***************************************************************************)
StartSpan(r, q) ==
    IF ~tracing THEN Nil
    ELSE [trace |-> IF q.parent = Nil THEN r ELSE q.parent.trace,
          recorded |-> q.parent = Nil \/ q.parent.sampled,
          status |-> 0, error |-> FALSE, ended |-> FALSE]

IsRecording(s) == s # Nil /\ s.recorded /\ ~s.ended

(* A request arrives, and goes down to the router. *)
Enter(r) ==
    /\ phase \in {"serving", "stopping"}
    /\ stage[r] = "idle"
    /\ stage' = [stage EXCEPT ![r] = "route"]
    /\ depth' = [depth EXCEPT ![r] = Len(Chain)]
    /\ \E q \in Queries :
          /\ query' = [query EXCEPT ![r] = q]
          /\ values' = [values EXCEPT ![r] =
                [request_id |-> RequestID(r, q), route_pattern |-> "unknown"]]
          /\ resp' = [resp EXCEPT ![r] =
                [status |-> 200, body |-> "none", id |-> RequestID(r, q)]]
          /\ span' = [span EXCEPT ![r] = StartSpan(r, q)]
    /\ UNCHANGED <<procVars, outcome, lines, total>>
-----------------------------------------------------------------------------
(* The handlers. *)

(* The status that each constructor of apperror gives its error. *)
NewNotFound == 404
NewValidation == 400
NewUnauthorized == 401
NewInternal == 500

(* The handler of r returns with a response that keeps its headers. *)
Respond(r, status, body) ==
    /\ resp' = [resp EXCEPT ![r] = [status |-> status, body |-> body, id |-> @.id]]
    /\ stage' = [stage EXCEPT ![r] = "leave"]

(* WriteJSON: a session that cannot be encoded is replaced by an error;    *)
(* maps and errors, which hold strings only, can always be encoded.        *)
WriteJSON(r, status, body) ==
    \/ Respond(r, status, body)
    \/ "encode" \in Breaks /\ body = "session" /\ Respond(r, 500, "error")

WriteError(r, status) == WriteJSON(r, status, "error")

(* The router has a handler for the path and the method of q. *)
Served(q) ==
    /\ q.route # "unknown"
    /\ q.base = Prefixed(q.route)
    /\ q.method = MethodOf(q.route)

(* What the router answers by itself: a path it almost knows is redirected *)
(* (301 stands for 308 as well), an unknown one is 404, and a known one    *)
(* with another method 405, unless the client asks for its methods.        *)
RouterAnswers(q) ==
    IF q.route = "unknown" THEN {301, 404}
    ELSE IF q.base # Prefixed(q.route) THEN {404}
    ELSE IF q.method = "OPTIONS" THEN {200} ELSE {405}

(* The router finds no handler; for 404 it calls ctx.Error, which takes    *)
(* the headers back.                                                       *)
Unrouted(r) ==
    /\ ~Served(query[r])
    /\ \E status \in RouterAnswers(query[r]) :
          resp' = [resp EXCEPT ![r] =
                      [status |-> status, body |-> "text",
                       id |-> IF status = 404 THEN Nil ELSE resp[r].id]]
    /\ stage' = [stage EXCEPT ![r] = "leave"]
    /\ UNCHANGED values

(* The handlers of promhttp and of the Swagger UI. *)
AdaptedHandler(r) ==
    /\ query[r].route \in Adapted
    /\ \E status \in {200, 404} : Respond(r, status, "text")

Route(r) ==
    /\ stage[r] = "route"
    /\ \/ Unrouted(r)
       \/ /\ Served(query[r])
          /\ values' = [values EXCEPT ![r].route_pattern = query[r].route]
          /\ \/ AdaptedHandler(r)
             \/ /\ query[r].route \notin Adapted
                /\ stage' = [stage EXCEPT ![r] = "handler"]
                /\ UNCHANGED resp
    /\ UNCHANGED <<procVars, query, depth, outcome, obsVars>>

(* Healthz, Example, and Readyz, which looks at the flag. *)
ProbeHandler(r) ==
    /\ stage[r] = "handler"
    /\ query[r].route \in Probes
    /\ \/ /\ query[r].route = "readyz" /\ ~ready
          /\ WriteJSON(r, 503, "map")
          /\ outcome' = [outcome EXCEPT ![r] = "refused"]
       \/ /\ query[r].route # "readyz" \/ ready
          /\ WriteJSON(r, 200, "map")
          /\ outcome' = [outcome EXCEPT ![r] = "done"]
    /\ UNCHANGED <<procVars, query, depth, values, obsVars>>

(* Handler.userID, with which every handler of sessions begins. *)
UserID(r) ==
    /\ stage[r] = "handler"
    /\ query[r].route \in SessionRoutes
    /\ \/ ~query[r].user /\ WriteError(r, NewUnauthorized)
       \/ /\ query[r].user
          /\ stage' = [stage EXCEPT
                ![r] = IF query[r].route = "current" THEN "service" ELSE "bind"]
          /\ UNCHANGED resp
    /\ UNCHANGED <<procVars, ctxVars, depth, obsVars>>

(* The tags of the request structs: required, and min=0 for a heartbeat. *)
Valid(q) ==
    /\ \A f \in {"device_id"} \cup
                (IF q.route \in {"start", "heartbeat"} THEN {"track_id"} ELSE {}) :
           q.fields[f] = "text"
    /\ q.route = "heartbeat" => q.pos >= 0

(* BindJSON: a body that is there, decodes and is valid. *)
BindJSON(r) ==
    /\ stage[r] = "bind"
    /\ \/ /\ query[r].body = "object" /\ Valid(query[r])
          /\ stage' = [stage EXCEPT ![r] = "service"]
          /\ UNCHANGED resp
       \/ /\ query[r].body # "object" \/ ~Valid(query[r])
          /\ WriteError(r, NewValidation)
    /\ UNCHANGED <<procVars, ctxVars, depth, obsVars>>

(* What an operation of the service returns: a session (or nil for a       *)
(* heartbeat), NewNotFound of Get, or any other error.                     *)
Outcomes(op) ==
    {"done", "failed"} \cup
    (IF op \in {"current", "pause", "resume"} THEN {"missing"} ELSE {})

(* The service has returned: the session, no content, or an error.         *)
ServiceReturns(r) ==
    /\ stage[r] = "service"
    /\ \E o \in Outcomes(query[r].route) :
          /\ outcome' = [outcome EXCEPT ![r] = o]
          /\ \/ /\ o = "done"
                /\ \/ query[r].route = "heartbeat" /\ Respond(r, 204, "none")
                   \/ query[r].route = "start" /\ WriteJSON(r, 201, "session")
                   \/ /\ query[r].route \notin {"heartbeat", "start"}
                      /\ WriteJSON(r, 200, "session")
             \/ o = "missing" /\ WriteError(r, NewNotFound)
             \/ o = "failed" /\ WriteError(r, NewInternal)
    /\ UNCHANGED <<procVars, query, depth, values, obsVars>>

(* A handler, or what it calls, panics. *)
Panic(r) ==
    /\ "panic" \in Breaks
    /\ stage[r] \in {"handler", "bind", "service"}
    /\ stage' = [stage EXCEPT ![r] = "panic"]
    /\ UNCHANGED <<procVars, ctxVars, depth, resp, obsVars>>
-----------------------------------------------------------------------------
(* Up the chain, with a response or with a panic. *)

Innermost(r) == Chain[depth[r]]

Line(r) ==
    [req |-> r, event |-> "request completed", status |-> resp[r].status,
     id |-> values[r].request_id,
     trace |-> IF span[r] = Nil THEN Nil ELSE span[r].trace]

(* The line of Recoverer has neither status nor trace. *)
PanicLine(r) ==
    [req |-> r, event |-> "panic recovered", status |-> 0,
     id |-> values[r].request_id, trace |-> Nil]

(* Logger: one line of level Info. *)
Logger(r) ==
    /\ lines' = IF verbose THEN lines \cup {Line(r)} ELSE lines
    /\ UNCHANGED <<span, total>>

(* The labels of request r: method, path and status. *)
Series(r) == <<query[r].method, values[r].route_pattern, resp[r].status>>

(* WithLabelValues(series).Inc(). *)
Inc(series) ==
    [s \in DOMAIN total \cup {series} |->
        (IF s \in DOMAIN total THEN total[s] ELSE 0) + (IF s = series THEN 1 ELSE 0)]

(* Mutation of Metrics: the labels are taken before next is called. *)
Metrics_Early(r) ==
    /\ total' = Inc(<<query[r].method, values[r].route_pattern, 200>>)
    /\ UNCHANGED <<span, lines>>

(* Metrics: one more request of this method, pattern and status. *)
Metrics(r) ==
    /\ total' = Inc(Series(r))
    /\ UNCHANGED <<span, lines>>

(* Mutation of EndTracing: 500 itself is not taken for an error. *)
EndTracing_Above500(r) ==
    /\ span' = [span EXCEPT ![r] =
          IF @ = Nil THEN Nil
          ELSE IF IsRecording(@)
               THEN [@ EXCEPT !.status = resp[r].status,
                              !.error = resp[r].status > 500,
                              !.ended = TRUE]
               ELSE [@ EXCEPT !.ended = TRUE]]
    /\ UNCHANGED <<lines, total>>

(* Tracing: the status is put into a span that is recorded, and it ends. *)
EndTracing(r) ==
    /\ span' = [span EXCEPT ![r] =
          IF @ = Nil THEN Nil
          ELSE IF IsRecording(@)
               THEN [@ EXCEPT !.status = resp[r].status,
                              !.error = resp[r].status >= 500,
                              !.ended = TRUE]
               ELSE [@ EXCEPT !.ended = TRUE]]
    /\ UNCHANGED <<lines, total>>

(* The innermost middleware gets control back from next, and returns. *)
Leave(r) ==
    /\ stage[r] = "leave"
    /\ \/ Innermost(r) = "Logger" /\ Logger(r)
       \/ Innermost(r) = "Metrics" /\ Metrics(r)
       \/ Innermost(r) = "Tracing" /\ EndTracing(r)
       \/ Innermost(r) \in {"RequestID", "Recoverer"} /\ UNCHANGED obsVars
    /\ depth' = [depth EXCEPT ![r] = @ - 1]
    /\ stage' = [stage EXCEPT ![r] = IF depth[r] = 1 THEN "answered" ELSE @]
    /\ UNCHANGED <<procVars, ctxVars, resp>>

(* A panic passes Tracing, whose deferred End runs, and the others. *)
Unwind(r) ==
    /\ stage[r] = "panic"
    /\ depth[r] > 0
    /\ Innermost(r) # "Recoverer"
    /\ span' = [span EXCEPT ![r] = IF @ = Nil \/ Innermost(r) # "Tracing" THEN @
                                   ELSE [@ EXCEPT !.ended = TRUE]]
    /\ depth' = [depth EXCEPT ![r] = @ - 1]
    /\ UNCHANGED <<procVars, ctxVars, stage, resp, lines, total>>

(***************************************************************************)
(* Recoverer: a line of level Error, the status of a span that is still    *)
(* recording, and ctx.Error, which begins a new response without headers.  *)
(***************************************************************************)
Recover(r) ==
    /\ stage[r] = "panic"
    /\ depth[r] > 0
    /\ Innermost(r) = "Recoverer"
    /\ lines' = lines \cup {PanicLine(r)}
    /\ span' = [span EXCEPT ![r] = IF IsRecording(@) THEN [@ EXCEPT !.error = TRUE]
                                                     ELSE @]
    /\ resp' = [resp EXCEPT ![r] = [status |-> 500, body |-> "text", id |-> Nil]]
    /\ depth' = [depth EXCEPT ![r] = @ - 1]
    /\ stage' = [stage EXCEPT ![r] = IF depth[r] = 1 THEN "answered" ELSE "leave"]
    /\ UNCHANGED <<procVars, ctxVars, total>>
-----------------------------------------------------------------------------
GoOn(r) ==
    \/ Route(r)
    \/ ProbeHandler(r)
    \/ UserID(r)
    \/ BindJSON(r)
    \/ ServiceReturns(r)
    \/ Leave(r)
    \/ Unwind(r)
    \/ Recover(r)

HttpNext ==
    \/ LoadConfig
    \/ LoadPanics
    \/ Register
    \/ Stop
    \/ ShutdownReturns
    \/ \E r \in Requests : Enter(r) \/ GoOn(r) \/ Panic(r)

HttpSpec == HttpInit /\ [][HttpNext]_hvars

(***************************************************************************)
(* The goroutines of the requests go on: the service returns in the end    *)
(* (EveryRequestAnswered of PlaybackService).  Shutdown polls for open     *)
(* connections until there are none.                                       *)
(***************************************************************************)
FairHttpSpec ==
    /\ HttpSpec
    /\ \A r \in Requests : WF_hvars(GoOn(r))
    /\ WF_hvars(ShutdownReturns)
-----------------------------------------------------------------------------
(* Properties. *)

(* Every variable of the server has a value of its type; a request that    *)
(* has arrived has an identifier.                                          *)
HttpTypeOK ==
    /\ phase \in Phases
    /\ settings \in [Keys -> {"env", "file", "default", "zero"}] \cup {Nil}
    /\ tracing \in BOOLEAN /\ verbose \in BOOLEAN /\ ready \in BOOLEAN
    /\ query \in [Requests -> Queries \cup {Nil}]
    /\ stage \in [Requests -> Stages]
    /\ depth \in [Requests -> 0 .. Len(Chain)]
    /\ values \in [Requests -> UserValues \cup {Nil}]
    /\ resp \in [Requests -> Response \cup {Nil}]
    /\ span \in [Requests -> Span \cup {Nil}]
    /\ outcome \in [Requests -> Effects]
    /\ lines \subseteq LogLine
    /\ DOMAIN total \subseteq Labels
    /\ \A s \in DOMAIN total : total[s] \in Nat

Answered(r) == stage[r] = "answered"

Api == INSTANCE ApiContract
       WITH asked <- query,
            effect <- outcome,
            reply <- [r \in Requests |->
                         IF Answered(r) THEN [status |-> resp[r].status,
                                              body |-> resp[r].body]
                                        ELSE Nil],
            closing <- phase \in {"stopping", "stopped"}

(***************************************************************************)
(* The server keeps to its published API, docs.go but for Deviations: it   *)
(* acts only on what names its user and conforms to the schema, acts once, *)
(* answers with a documented status and body, and no answer but 500 - not  *)
(* even one that a panic or a shutdown is racing with - says anything but  *)
(* what was done.  The run ProbePaths finds the first of the deviations.   *)
(***************************************************************************)
ImplementsContract == Api!Spec

(***************************************************************************)
(* Each variable of the table in README.md takes effect, whatever the file *)
(* holds, and no documented setting is left without a value.               *)
(***************************************************************************)
DocumentedEnvWorks ==
    phase = "loaded" =>
        \A k \in Documented :
            /\ k \in found.env => settings[k] = "env"
            /\ settings[k] # "zero"

Panicked(r) == \E l \in lines : l.req = r /\ l.event = "panic recovered"

(* The line Logger owes for request r when it has been answered. *)
CompletedLine(r) ==
    [req |-> r, event |-> "request completed", status |-> resp[r].status,
     id |-> IF query[r].id = Nil THEN r ELSE query[r].id,
     trace |-> IF ~tracing THEN Nil
               ELSE IF query[r].parent = Nil THEN r ELSE query[r].parent.trace]

(***************************************************************************)
(* What log and trace tell of an answered request is what its client got:  *)
(* status, identifier and trace.  A panic is the one exception: it has its *)
(* own line and no "request completed".  What its span should hold is not  *)
(* said anywhere, and not here (Recoverer's SetStatus comes after End).    *)
(***************************************************************************)
ObserversAgree ==
    \A r \in Requests : Answered(r) =>
        /\ span[r] # Nil => span[r].ended
        /\ \/ /\ Panicked(r)
              /\ resp[r].status = 500
              /\ \A l \in lines : l.req = r => l.event = "panic recovered"
           \/ /\ ~Panicked(r)
              /\ {l \in lines : l.req = r} =
                    IF verbose THEN {CompletedLine(r)} ELSE {}
              /\ Served(query[r]) => resp[r].id = CompletedLine(r).id
              /\ span[r] # Nil /\ span[r].recorded =>
                    /\ span[r].status = resp[r].status
                    /\ span[r].error <=> resp[r].status >= 500

(* Request r has come back up through Metrics. *)
Counted(r) ==
    \/ stage[r] = "leave" /\ \A i \in 1 .. depth[r] : Chain[i] # "Metrics"
    \/ Answered(r) /\ ~Panicked(r)

(* The counters that a set of requests should give. *)
CountOf(rs) ==
    [s \in {Series(r) : r \in rs} |-> Cardinality({r \in rs : Series(r) = s})]

(***************************************************************************)
(* http_requests_total is, at any time, the number of requests that have   *)
(* come back up through Metrics with this method and pattern and with the  *)
(* status the client gets, however requests interleave.  That is less than *)
(* the help text promises, "Total number of HTTP requests by method, path, *)
(* and status" (middleware.go:186): a request that panicked is answered    *)
(* and never comes back through Metrics.                                   *)
(***************************************************************************)
ReturnedAreCounted == total = CountOf({r \in Requests : Counted(r)})

(***************************************************************************)
(* A shutdown comes to its end, whatever requests do meanwhile: since it   *)
(* waits for all of them, each is answered, also by way of a panic.        *)
(***************************************************************************)
StopReturns == phase = "stopping" ~> phase = "stopped"
=============================================================================
