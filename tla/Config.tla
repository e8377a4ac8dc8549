------------------------------- MODULE Config -------------------------------
(***************************************************************************)
(* internal/config/config.go: where Load takes the value of each key from. *)
(* Keys are those of the struct Config; a key is present in the file, in   *)
(* the environment, in both or in neither.  What Load yields for a key is  *)
(* its origin: "env", "file", "default", or "zero", Go's zero value.       *)
(*                                                                         *)
(* viper's Unmarshal goes over the keys viper knows of: those with a       *)
(* default and those of the file.  AutomaticEnv makes no key known, so for *)
(* any other key the environment is not even looked at.                    *)
(***************************************************************************)

(* The keys of the struct, nested ones with a dot. *)
Keys ==
    {"service_name", "http_port", "log_level", "shutdown_timeout",
     "tracing_enabled", "otlp_endpoint",
     "postgres.dsn", "postgres.max_conns", "postgres.min_conns",
     "postgres.max_conn_lifetime", "postgres.max_conn_idle_time",
     "postgres.connect_timeout",
     "redis.addr", "redis.password", "redis.db", "redis.pool_size",
     "kafka.brokers", "kafka.batch_timeout", "kafka.batch_size", "kafka.async",
     "kafka_consumer.brokers", "kafka_consumer.group_id",
     "kafka_consumer.topic", "kafka_consumer.min_bytes",
     "kafka_consumer.max_bytes", "kafka_consumer.max_wait"}

(* Mutation of Defaults: the topic is left to the file. *)
Defaults_NoTopic ==
    {"service_name", "http_port", "log_level", "shutdown_timeout",
     "tracing_enabled", "otlp_endpoint",
     "postgres.dsn", "postgres.max_conns", "postgres.min_conns",
     "redis.addr", "redis.db", "redis.pool_size", "kafka.brokers",
     "kafka_consumer.brokers", "kafka_consumer.group_id"}

(* The keys with a SetDefault. *)
Defaults ==
    {"service_name", "http_port", "log_level", "shutdown_timeout",
     "tracing_enabled", "otlp_endpoint",
     "postgres.dsn", "postgres.max_conns", "postgres.min_conns",
     "redis.addr", "redis.db", "redis.pool_size", "kafka.brokers",
     "kafka_consumer.brokers", "kafka_consumer.group_id",
     "kafka_consumer.topic"}

(* The keys AllKeys returns when file is the set of keys in the file. *)
KnownKeys(file) == Defaults \cup file

(* Load: the origin of each key.  A file that is not found has no keys. *)
Load(file, env) ==
    [k \in Keys |->
        IF k \notin KnownKeys(file) THEN "zero"
        ELSE IF k \in env THEN "env"
        ELSE IF k \in file THEN "file"
        ELSE "default"]

(* The keys in the table of settings of README.md (lines 81 to 95), which  *)
(* names an environment variable for each.                                 *)
Documented == Keys \ {"redis.password", "redis.db", "kafka.batch_timeout",
    "kafka.batch_size", "kafka.async", "kafka_consumer.min_bytes",
    "kafka_consumer.max_bytes", "kafka_consumer.max_wait",
    "postgres.max_conn_lifetime", "postgres.max_conn_idle_time",
    "postgres.connect_timeout"}
=============================================================================
