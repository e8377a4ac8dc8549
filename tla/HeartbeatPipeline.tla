-------------------------- MODULE HeartbeatPipeline --------------------------
(***************************************************************************)
(* The way of a heartbeat through Kafka into the table:                    *)
(*   internal/kafka/producer.go    Publish, over kafka-go's Writer         *)
(*   internal/kafka/event.go       the envelope, here the payload itself   *)
(*   internal/kafka/consumer.go    Run: fetch, handle, commit              *)
(*   internal/session/consumer.go  handle: decode, Upsert                  *)
(*                                                                         *)
(* The topic is a set of append-only logs, one per partition.  The Writer  *)
(* is configured with LeastBytes, which ignores the message key: messages  *)
(* of one user go to any partition.  One Reader consumes all partitions.   *)
(***************************************************************************)
EXTENDS Repository

CONSTANTS
    Requests,      \* HTTP requests, each publishes at most once
    Partitions,
    MaxAttempts,   \* Writer.MaxAttempts, 3 in producer.go
    Async,         \* ProducerConfig.Async
    Malformed      \* a message whose value does not decode

(* A message on its way through the Writer. *)
Batch == [state : {"sending", "acked", "failed"}, part : Partitions,
          tries : 0 .. MaxAttempts - 1, msg : RacedSession]

(* A message that Run has fetched, and what Run does with it next. *)
InHand == [call : {"handle", "commit"}, part : Partitions, off : Nat]

ASSUME PipelineAssumption ==
    /\ MaxAttempts \in Nat \ {0}
    /\ Async \in BOOLEAN
    /\ Nil \notin Batch
    /\ Nil \notin InHand

VARIABLES
    topic,      \* topic[p]: the log of partition p
    writer,     \* writer[r]: the batch of request r inside the Writer, or Nil
    position,   \* position[p]: offset up to which the Reader has fetched
    committed,  \* committed[p]: offset up to which the group has committed
    consumer,   \* the message in Run's loop body and the next call, or Nil
    handled     \* history: <<p, i>> whose handler call has returned

pipeVars == <<topic, writer, position, committed, consumer, handled>>

PipeInit ==
    /\ topic \in [Partitions -> {<<>>} \cup
                    (IF "malformed" \in Faults THEN {<<Malformed>>} ELSE {})]
    /\ writer = [r \in Requests |-> Nil]
    /\ position = [p \in Partitions |-> 0]
    /\ committed = [p \in Partitions |-> 0]
    /\ consumer = Nil
    /\ handled = {}
-----------------------------------------------------------------------------
(* The producer. *)

(***************************************************************************)
(* WriteMessages: the balancer picks any partition, the message is queued. *)
(* Messages queued for one partition at the same time may share a batch,   *)
(* which is sent, and sent again, as a whole: copies of them interleave.   *)
(* Batches of one message each, sent in any order, have all those logs.    *)
(***************************************************************************)
Publish(r, s) ==
    /\ \E p \in Partitions :
           writer' = [writer EXCEPT ![r] =
                        [state |-> "sending", part |-> p, tries |-> 0, msg |-> s]]
    /\ UNCHANGED <<topic, position, committed, consumer, handled>>

Sending(r) == writer[r] # Nil /\ writer[r].state = "sending"

AppendTo(p, m) == topic' = [topic EXCEPT ![p] = Append(@, m)]

(* A produce request succeeds: all in-sync replicas have the message. *)
SendAcked(r) ==
    /\ Sending(r)
    /\ AppendTo(writer[r].part, writer[r].msg)
    /\ writer' = [writer EXCEPT ![r].state = "acked"]
    /\ UNCHANGED <<repoVars, position, committed, consumer, handled>>

(***************************************************************************)
(* A produce request fails, and the broker may have the message all the    *)
(* same.  The Writer tries again, at most MaxAttempts times, unless the    *)
(* error is permanent.                                                     *)
(***************************************************************************)
SendFailed(r) ==
    /\ Sending(r)
    /\ "kafka" \in Faults
    /\ AppendTo(writer[r].part, writer[r].msg) \/ UNCHANGED topic
    /\ \/ /\ writer[r].tries + 1 < MaxAttempts
          /\ writer' = [writer EXCEPT ![r].tries = @ + 1]
       \/ writer' = [writer EXCEPT ![r].state = "failed"]
    /\ UNCHANGED <<repoVars, position, committed, consumer, handled>>

(* What Publish returns once the Writer is through with the message. *)
PublishOK(r)  == writer[r] # Nil /\ writer[r].state = "acked"
PublishErr(r) == writer[r] # Nil /\ writer[r].state = "failed"
-----------------------------------------------------------------------------
(* The consumer. *)

(* Mutation of FetchMessage: ReadMessage, which commits what it returns. *)
FetchMessage_AutoCommit ==
    /\ consumer = Nil
    /\ \E p \in Partitions :
          /\ position[p] < Len(topic[p])
          /\ position' = [position EXCEPT ![p] = @ + 1]
          /\ committed' = [committed EXCEPT ![p] = position[p] + 1]
          /\ consumer' = [call |-> "handle", part |-> p, off |-> position[p] + 1]
    /\ UNCHANGED <<repoVars, topic, writer, handled>>

(* FetchMessage returns the next message of some partition. *)
FetchMessage ==
    /\ consumer = Nil
    /\ \E p \in Partitions :
          /\ position[p] < Len(topic[p])
          /\ position' = [position EXCEPT ![p] = @ + 1]
          /\ consumer' = [call |-> "handle", part |-> p, off |-> position[p] + 1]
    /\ UNCHANGED <<repoVars, topic, writer, committed, handled>>

(* Mutation of Handle: Run does not go on from a message that does not     *)
(* decode, but tries it again.                                             *)
Handle_RetryMalformed ==
    /\ consumer # Nil
    /\ consumer.call = "handle"
    /\ LET m == topic[consumer.part][consumer.off] IN
          /\ m # Malformed
          /\ \E failed \in BOOLEAN : Upsert(m, failed)
    /\ handled' = handled \cup {<<consumer.part, consumer.off>>}
    /\ consumer' = [consumer EXCEPT !.call = "commit"]
    /\ UNCHANGED <<cache, topic, writer, position, committed>>

(* Mutation of Handle: what is written to the table is cached, too.        *)
Handle_SetCache ==
    /\ consumer # Nil
    /\ consumer.call = "handle"
    /\ LET m == topic[consumer.part][consumer.off] IN
          \/ /\ m = Malformed
             /\ UNCHANGED repoVars
          \/ /\ m # Malformed
             /\ \E failed \in BOOLEAN : Upsert(m, failed)
             /\ SetCache(m)
    /\ handled' = handled \cup {<<consumer.part, consumer.off>>}
    /\ consumer' = [consumer EXCEPT !.call = "commit"]
    /\ UNCHANGED <<topic, writer, position, committed>>

(***************************************************************************)
(* handle: a message that does not decode is skipped, any other is         *)
(* upserted.  Run logs an error of the handler and goes on to the commit.  *)
(***************************************************************************)
Handle ==
    /\ consumer # Nil
    /\ consumer.call = "handle"
    /\ LET m == topic[consumer.part][consumer.off] IN
          \/ /\ m = Malformed
             /\ UNCHANGED <<db, stored>>
          \/ /\ m # Malformed
             /\ \E failed \in BOOLEAN : Upsert(m, failed)
    /\ handled' = handled \cup {<<consumer.part, consumer.off>>}
    /\ consumer' = [consumer EXCEPT !.call = "commit"]
    /\ UNCHANGED <<cache, topic, writer, position, committed>>

(* Mutation of CommitMessages: the offset after the next one is committed. *)
CommitMessages_OffByOne(failed) ==
    /\ consumer # Nil
    /\ consumer.call = "commit"
    /\ ~failed
    /\ committed' = [committed EXCEPT ![consumer.part] = consumer.off + 1]
    /\ consumer' = Nil
    /\ UNCHANGED <<repoVars, topic, writer, position, handled>>

(* CommitMessages; an error is logged and the loop goes on. *)
CommitMessages(failed) ==
    /\ consumer # Nil
    /\ consumer.call = "commit"
    /\ \/ /\ ~failed
          /\ committed' = [committed EXCEPT ![consumer.part] = consumer.off]
       \/ /\ failed
          /\ "commit" \in Faults
          /\ UNCHANGED committed
    /\ consumer' = Nil
    /\ UNCHANGED <<repoVars, topic, writer, position, handled>>

(* A new generation of the group starts over from the committed offsets. *)
Rebalance ==
    /\ "rebalance" \in Faults
    /\ position # committed
    /\ position' = committed
    /\ UNCHANGED <<repoVars, topic, writer, committed, consumer, handled>>

(* The process dies: what the Writer and the Reader hold is gone. *)
PipeCrash ==
    /\ writer' = [r \in Requests |-> Nil]
    /\ position' = committed
    /\ consumer' = Nil
    /\ UNCHANGED <<topic, committed, handled>>

(* The message m is in the log of some partition. *)
Logged(m) == \E p \in Partitions : \E i \in 1 .. Len(topic[p]) : topic[p][i] = m
=============================================================================
