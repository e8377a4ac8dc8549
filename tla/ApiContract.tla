---------------------------- MODULE ApiContract ----------------------------
(***************************************************************************)
(* docs/docs.go, the API as it is published: for each operation where it   *)
(* is found, whether a user has to be named, the schema of the body and    *)
(* the answers with what their bodies hold.  Below, what that means for a  *)
(* client: a service that looks at a request, acts on it at most once and  *)
(* answers it.                                                             *)
(*                                                                         *)
(* With Deviations = {} the module says what docs.go says.  The service    *)
(* differs from it in three points, each of which can be allowed for by    *)
(* its name, and in no other:                                              *)
(*   rootProbes    docs.go puts every path under BasePath, the service     *)
(*                 has /healthz and /readyz at the root                    *)
(*   plainErrors   a panic is answered 500 with a plain text, also by      *)
(*                 operations that document no 500                         *)
(*   emptyStrings  an empty string counts as a missing one, while the      *)
(*                 schemas set no minLength                                *)
(***************************************************************************)
EXTENDS Integers

CONSTANTS
    Requests,
    Queries,      \* what a client may ask: see Query of HttpServer
    Deviations,   \* the points in which the service may differ
    Nil

None == [required |-> {}, nonNegative |-> FALSE]

(* The schemas of the bodies. *)
StartRequest == [required |-> {"track_id", "device_id"}, nonNegative |-> FALSE]
HeartbeatRequest ==
    [required |-> {"track_id", "device_id"}, nonNegative |-> TRUE]
PauseResumeRequest == [required |-> {"device_id"}, nonNegative |-> FALSE]

(* An operation without parameters answers a map of strings. *)
Probe(statuses) ==
    [method |-> "GET", user |-> FALSE, schema |-> None, success |-> 200,
     answers |-> [s \in statuses |-> "map"]]

(* An operation on sessions: success, failures, and the session or nothing. *)
SessionOp(method, schema, success, failures) ==
    [method |-> method, user |-> TRUE, schema |-> schema, success |-> success,
     answers |-> [s \in {success} \cup failures |->
                     IF s # success THEN "error"
                     ELSE IF s = 204 THEN "none" ELSE "session"]]

example   == Probe({200})
healthz   == Probe({200})
readyz    == Probe({200, 503})
start     == SessionOp("POST", StartRequest, 201, {400, 401, 500})
current   == SessionOp("GET", None, 200, {401, 404, 500})
heartbeat == SessionOp("PUT", HeartbeatRequest, 204, {400, 401, 500})
pause     == SessionOp("PUT", PauseResumeRequest, 200, {400, 401, 404, 500})
resume    == SessionOp("PUT", PauseResumeRequest, 200, {400, 401, 404, 500})

Paths ==
    [op \in {"example", "healthz", "readyz", "start", "current", "heartbeat",
             "pause", "resume"} |->
        CASE op = "example" -> example
          [] op = "healthz" -> healthz
          [] op = "readyz" -> readyz
          [] op = "start" -> start
          [] op = "current" -> current
          [] op = "heartbeat" -> heartbeat
          [] op = "pause" -> pause
          [] op = "resume" -> resume]
-----------------------------------------------------------------------------
VARIABLES
    asked,     \* asked[r]: the request a client has made, or Nil
    effect,    \* effect[r]: what the service has done about it
    reply,     \* reply[r]: the status and the kind of body answered, or Nil
    closing    \* whether the service is being shut down

api == <<asked, effect, reply, closing>>

(* BasePath is /api/v1: every operation is found under it. *)
UnderBase(op) ==
    ~(op \in {"healthz", "readyz"} /\ "rootProbes" \in Deviations)

(* The path and the method of q are documented. *)
Published(q) ==
    /\ q.route \in DOMAIN Paths
    /\ q.base = UnderBase(q.route)
    /\ q.method = Paths[q.route].method

Present(value) ==
    value = "text" \/ (value = "empty" /\ "emptyStrings" \notin Deviations)

(* The body of q is one its schema allows. *)
Conforms(q) ==
    LET schema == Paths[q.route].schema IN
    \/ schema = None
    \/ /\ q.body = "object"
       /\ \A f \in schema.required : Present(q.fields[f])
       /\ schema.nonNegative => q.pos >= 0

Authentic(q) == Paths[q.route].user => q.user

Init ==
    /\ asked = [r \in Requests |-> Nil]
    /\ effect = [r \in Requests |-> "none"]
    /\ reply = [r \in Requests |-> Nil]
    /\ closing = FALSE

Ask(r) ==
    /\ asked[r] = Nil
    /\ \E q \in Queries : asked' = [asked EXCEPT ![r] = q]
    /\ UNCHANGED <<effect, reply, closing>>

(***************************************************************************)
(* The service acts on a request, once, and only if the request names its  *)
(* user and its body conforms.  The readiness probe looks at closing.      *)
(***************************************************************************)
Effects(op) ==
    IF op = "readyz" THEN IF closing THEN {"refused"} ELSE {"done"}
    ELSE {"done", "failed"} \cup
         (IF 404 \in DOMAIN Paths[op].answers THEN {"missing"} ELSE {})

Act(r) ==
    /\ asked[r] # Nil
    /\ effect[r] = "none"
    /\ reply[r] = Nil
    /\ Published(asked[r])
    /\ Authentic(asked[r])
    /\ Conforms(asked[r])
    /\ \E e \in Effects(asked[r].route) : effect' = [effect EXCEPT ![r] = e]
    /\ UNCHANGED <<asked, reply, closing>>

(* What has happened when an operation is answered with a status; 500      *)
(* promises nothing.                                                       *)
Meaning(q, status, e) ==
    CASE status = Paths[q.route].success -> e = "done"
      [] status = 404 -> e = "missing"
      [] status = 503 -> e = "refused"
      [] status = 401 -> ~Authentic(q) /\ e = "none"
      [] status = 400 -> Authentic(q) /\ ~Conforms(q) /\ e = "none"
      [] status = 500 -> TRUE
      [] OTHER -> FALSE

(***************************************************************************)
(* An answer is one of those documented, with the body documented, and it  *)
(* means what it says.  Elsewhere there is nothing but text.               *)
(***************************************************************************)
Documented(q, e) ==
    LET answers == Paths[q.route].answers IN
    {[status |-> s, body |-> answers[s]] :
        s \in {t \in DOMAIN answers : Meaning(q, t, e)}}

Panics ==
    IF "plainErrors" \in Deviations THEN [status : {500}, body : {"text"}] ELSE {}

Allowed(q, e) ==
    IF Published(q) THEN Documented(q, e) \cup Panics
                    ELSE [status : {200, 301, 404, 405}, body : {"text"}]

Reply(r) ==
    /\ asked[r] # Nil
    /\ reply[r] = Nil
    /\ \E a \in Allowed(asked[r], effect[r]) : reply' = [reply EXCEPT ![r] = a]
    /\ UNCHANGED <<asked, effect, closing>>

Close ==
    /\ closing' = TRUE
    /\ UNCHANGED <<asked, effect, reply>>

Next ==
    \/ \E r \in Requests : Ask(r) \/ Act(r) \/ Reply(r)
    \/ Close

Spec == Init /\ [][Next]_api
=============================================================================
