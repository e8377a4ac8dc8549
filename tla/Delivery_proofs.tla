--------------------------- MODULE Delivery_proofs ---------------------------
(***************************************************************************)
(* PlaybackService implements AtLeastOnce.  A step of the service either   *)
(* leaves topic, handled and committed alone, or is one step of AtLeastOnce*)
(* under the mapping of Queue:                                             *)
(*   SendAcked, SendFailed   Publish, or nothing if the broker has nothing *)
(*   Handle                  Deliver the message in hand                   *)
(*   CommitMessages          Release the prefix that ends with it          *)
(* Handle needs that the message in hand exists (TypeInv), CommitMessages  *)
(* that all before it have been handled (CommitInv).                       *)
(***************************************************************************)
EXTENDS PlaybackService_proofs

(* A produce request adds to a log, or changes nothing. *)
LEMMA WriterPublishes ==
    ASSUME TypeInv, NEW r \in Requests, WriterStep(r)
    PROVE  Queue!Publish
<1>1. /\ writer[r].part \in Partitions
      /\ writer[r].msg \in Session
  BY DEF TypeInv, PipeTypes, WriterStep, SendAcked, SendFailed, Sending,
         CleanBatch
<1>2. /\ UNCHANGED <<committed, handled>>
      /\ AppendTo(writer[r].part, writer[r].msg) \/ UNCHANGED topic
  BY DEF WriterStep, SendAcked, SendFailed
<1>3. CASE AppendTo(writer[r].part, writer[r].msg)
  <2>1. DOMAIN topic' = Partitions
    BY <1>1, <1>3, AppendTypes DEF TypeInv
  <2> QED
    BY <1>1, <1>2, <1>3, <2>1, AppendTypes DEF TypeInv, Queue!Publish
<1>4. CASE UNCHANGED topic
  <2>1. DOMAIN topic = Partitions
    BY DEF TypeInv, PipeTypes
  <2>2. \A p \in Partitions : Len(topic[p]) \in Nat
    BY LogLengths DEF TypeInv, PipeTypes
  <2> QED
    BY <1>2, <1>4, <2>1, <2>2 DEF Queue!Publish
<1> QED
  BY <1>2, <1>3, <1>4

(* Each step of the service is a step of the queue or leaves it alone. *)
LEMMA StepDelivers ==
    ASSUME TypeInv, CommitInv, [Next]_vars
    PROVE  [Queue!Next]_<<topic, handled, committed>>
<1>1. ASSUME NEW r \in Requests, Arrival(r) \/ RequestStep(r) \/ WarmStep(r)
      PROVE  UNCHANGED <<topic, handled, committed>>
  BY <1>1 DEF Arrival, Start, Heartbeat, GetCurrentPauseResume, RequestStep,
     RedisGet, Select, Mutate, UpsertSession, CacheSession, PublishHeartbeat,
     Publish, PublishRefused, AwaitPublish, Fallback, WarmStep, WarmMarshal,
     WarmSet, pipeVars
<1>2. ASSUME NEW r \in Requests, WriterStep(r)
      PROVE  Queue!Next
  BY <1>2, WriterPublishes DEF Queue!Next
<1>3. CASE FetchMessage
  BY <1>3 DEF FetchMessage
<1>4. CASE Handle
  <2>1. /\ consumer \in InHand
        /\ consumer.off \in 1 .. Len(topic[consumer.part])
    BY <1>4 DEF Handle, TypeInv, PipeTypes
  <2>2. consumer.part \in Partitions
    BY <2>1 DEF InHand
  <2>3. Queue!Deliver(consumer.part)
    BY <1>4, <2>1 DEF Handle, Queue!Deliver
  <2> QED
    BY <2>2, <2>3 DEF Queue!Next
<1>5. ASSUME NEW failed \in BOOLEAN, CommitMessages(failed)
      PROVE  [Queue!Next]_<<topic, handled, committed>>
  <2>1. /\ consumer \in InHand
        /\ consumer.call = "commit"
        /\ consumer.off \in 1 .. Len(topic[consumer.part])
    BY <1>5 DEF CommitMessages, TypeInv, PipeTypes
  <2>2. consumer.part \in Partitions /\ Len(topic[consumer.part]) \in Nat
    BY <2>1, LogLengths DEF InHand, TypeInv, PipeTypes
  <2>3. UNCHANGED <<topic, handled>>
    BY <1>5 DEF CommitMessages
  <2>4. CASE UNCHANGED committed
    BY <2>3, <2>4
  <2>5. CASE committed' = [committed EXCEPT ![consumer.part] = consumer.off]
    <3>1. \A i \in 1 .. consumer.off : <<consumer.part, i>> \in handled
      BY <1>5, <2>1 DEF CommitInv, CommitMessages
    <3>2. consumer.off \in 0 .. Len(topic[consumer.part])
      BY <2>1, <2>2
    <3>3. Queue!Release(consumer.part)
      BY <2>3, <2>5, <3>1, <3>2 DEF Queue!Release
    <3> QED
      BY <2>2, <3>3 DEF Queue!Next
  <2> QED
    BY <1>5, <2>4, <2>5 DEF CommitMessages
<1>6. CASE Rebalance \/ Expiry \/ Crash \/ UNCHANGED vars
  BY <1>6 DEF Rebalance, Expiry, Crash, PipeCrash, vars, pipeVars
<1> QED
  BY <1>1, <1>2, <1>3, <1>4, <1>5, <1>6 DEF Next, PipeStep, ConsumerStep

(***************************************************************************)
(* Heartbeats are delivered at least once, for any number of partitions,   *)
(* requests, failures, rebalances and crashes: the whole service, seen     *)
(* through the mapping of Queue, behaves as AtLeastOnce allows.            *)
(***************************************************************************)
THEOREM ServiceDeliversAtLeastOnce == Spec => DeliversAtLeastOnce
<1>1. Init => Queue!Init
  BY DEF Init, PipeInit, Queue!Init
<1>2. Init => CommitInv
  BY DEF Init, PipeInit, CommitInv
<1>3. TypeInv /\ CommitInv /\ [Next]_vars => CommitInv'
  BY CommitInvStep
<1>4. TypeInv /\ CommitInv /\ [Next]_vars => [Queue!Next]_(Queue!queue)
  BY StepDelivers DEF Queue!queue
<1> QED
  BY <1>1, <1>2, <1>3, <1>4, TypeInvHolds, PTL
     DEF Spec, DeliversAtLeastOnce, Queue!Spec
=============================================================================
