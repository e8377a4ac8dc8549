------------------------------- MODULE MCHttp -------------------------------
(* A small instance of HttpServer for TLC. *)
EXTENDS HttpServer

CONSTANTS r1, r2

(* A request with nothing wrong, and what is wrong with the others. *)
Plain ==
    [route |-> "start", base |-> TRUE, method |-> "POST", user |-> TRUE,
     id |-> Nil, parent |-> Nil, body |-> "object",
     fields |-> [f \in {"track_id", "device_id"} |-> "text"], pos |-> 0]

Get == [Plain EXCEPT !.method = "GET"]
Put == [Plain EXCEPT !.method = "PUT"]

Traced(sampled) == [trace |-> "trace", sampled |-> sampled]

MCQueries ==
    {[Plain EXCEPT !.pos = -1],
     [Plain EXCEPT !.fields = [@ EXCEPT !["track_id"] = "empty"]],
     [Put EXCEPT !.route = "heartbeat", !.id = "id", !.parent = Traced(TRUE)],
     [Put EXCEPT !.route = "heartbeat", !.pos = -1],
     [Put EXCEPT !.route = "pause", !.parent = Traced(FALSE),
                 !.fields = [@ EXCEPT !["track_id"] = "absent"]],
     [Get EXCEPT !.route = "current", !.user = FALSE, !.id = "id"],
     [Get EXCEPT !.route = "current", !.body = "empty"],
     [Get EXCEPT !.route = "readyz", !.base = FALSE, !.user = FALSE],
     [Get EXCEPT !.route = "readyz", !.user = FALSE],
     [Get EXCEPT !.route = "unknown"],
     [Get EXCEPT !.route = "metrics", !.base = FALSE, !.user = FALSE],
     [Get EXCEPT !.route = "start", !.id = "id"]}

(* A probe where docs.go has it: below BasePath. *)
DocumentedProbe == {[Get EXCEPT !.route = "healthz", !.user = FALSE]}

(* Nothing, what tracing and logging are told, and keys without default. *)
MCFiles ==
    {{}, {"tracing_enabled"}, {"log_level"}, {"redis.password", "kafka_consumer.topic"}}
MCEnvs == {{}, {"redis.password", "kafka_consumer.topic"}}
=============================================================================
