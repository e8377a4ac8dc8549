--------------------------- MODULE Shutdown_proofs ---------------------------
(***************************************************************************)
(* The service in its process: what requests, consumer and Writer keep     *)
(* through starts that fail, stops that cancel their calls, stops that run *)
(* out of time, and restarts.                                              *)
(*                                                                         *)
(* Most steps of Lifecycle are steps of PlaybackService, or leave it alone *)
(* (ProcessSteps), so that what is proved about Next is used again here;   *)
(* what is left are the calls that a stop cancels, the end of the process  *)
(* and its restart.                                                        *)
(***************************************************************************)
EXTENDS Lifecycle_proofs, Sessions_proofs, Delivery_proofs

(* The steps that only a process with a beginning and an end takes. *)
Cancelled ==
    \/ \E r \in Requests : CancelledCall(r) \/ WarmClosed(r)
    \/ HandleCancelled
    \/ CommitCancelled

LEMMA ProcessSteps ==
    ASSUME [LifecycleNext]_lvars
    PROVE  [Next]_vars \/ Cancelled \/ Die \/ Restart
<1>1. CASE UNCHANGED lvars
  BY <1>1 DEF lvars
<1>2. ASSUME NEW c \in 1 .. Last,
             \/ Up(c) \/ Build(c) \/ InvokeFails(c) \/ PingFails(c)
             \/ StartHook(c) \/ ListenFails(c) \/ BeginStop(c) \/ EndStop(c)
      PROVE  UNCHANGED vars
  BY <1>2 DEF Up, Build, InvokeFails, PingFails, BuildFails, StartHook,
              ListenFails, BeginStop, EndStop
<1>3. CASE FxStep
  BY <1>2, <1>3 DEF FxStep, Signal, Exit, StopTimeout
<1>4. CASE \E r \in Requests : Serve(r) \/ Warm(r)
  BY <1>4 DEF Serve, Warm, WarmStep, Next
<1>5. CASE Send \/ Consume
  BY <1>5 DEF Send, Consume, PipeStep, ConsumerStep, Next
<1> QED
  BY <1>1, <1>3, <1>4, <1>5 DEF LifecycleNext, ServiceStep, Cancelled
-----------------------------------------------------------------------------
(* Types. *)

LEMMA CancelledUpsertTypes ==
    ASSUME StoreTypes, NEW s \in Session, CancelledUpsert(s), UNCHANGED cache
    PROVE  StoreTypes' /\ stored \subseteq stored'
<1>1. s.user \in Users
  BY DEF Session
<1> QED
  BY <1>1 DEF StoreTypes, CancelledUpsert, WriteRow

LEMMA CancelledCallTypes ==
    ASSUME TypeInv, NEW r \in Requests, CancelledCall(r)
    PROVE  TypeInv' /\ stored \subseteq stored'
<1> USE DEF TypeInv
<1>1. UNCHANGED <<cache, pipeVars, call, sess, warm, clock, restarts>>
  BY DEF CancelledCall
<1>2. PipeTypes'
  BY <1>1, PipeUnchanged
<1>3. pc[r] \in Writing => sess[r] \in Session
  BY DEF RequestTypes
<1>4. StoreTypes' /\ stored \subseteq stored'
  <2>1. CASE UNCHANGED <<db, stored>>
    BY <1>1, <2>1 DEF StoreTypes
  <2>2. CASE pc[r] \in {"upsert", "fallback"} /\ CancelledUpsert(sess[r])
    BY <1>1, <1>3, <2>2, CancelledUpsertTypes DEF Writing
  <2> QED
    BY <2>1, <2>2 DEF CancelledCall
<1>5. RequestTypes'
  <2>1. pc[r] # "idle"
    BY DEF CancelledCall
  <2>2. CASE \E status \in {0, 200, 201, 204, 404, 500} : Answer(r, status)
    BY <1>1, <2>1, <2>2, AnswerTypes
  <2>3. CASE AnswerOK(r)
    BY <1>1, <2>1, <2>3, AnswerOKTypes
  <2>4. CASE \E step \in {"select", "publish", "fallback"} :
                /\ Goto(r, step)
                /\ step # "select" => pc[r] \in Writing
    BY <1>1, <1>3, <2>1, <2>4, GotoTypes DEF Writing
  <2> QED
    BY <2>2, <2>3, <2>4 DEF CancelledCall, Writing
<1> QED
  BY <1>2, <1>4, <1>5

LEMMA WarmClosedTypes ==
    ASSUME TypeInv, NEW r \in Requests, WarmClosed(r)
    PROVE  TypeInv'
<1>1. /\ UNCHANGED <<repoVars, pipeVars, call, pc, sess, code, clock, restarts>>
      /\ warm' = [warm EXCEPT ![r] = Nil]
  BY DEF WarmClosed
<1>2. RequestTypes'
  BY <1>1 DEF TypeInv, RequestTypes
<1> QED
  BY <1>1, <1>2, StoreUnchanged, PipeUnchanged DEF TypeInv

LEMMA HandleCancelledTypes ==
    ASSUME TypeInv, HandleCancelled
    PROVE  TypeInv' /\ stored \subseteq stored'
<1> USE DEF TypeInv
<1>1. /\ consumer \in InHand
      /\ consumer.part \in Partitions
      /\ consumer.off \in 1 .. Len(topic[consumer.part])
      /\ consumer' = [consumer EXCEPT !.call = "commit"]
      /\ handled' = handled \cup {<<consumer.part, consumer.off>>}
      /\ UNCHANGED <<cache, topic, writer, position, committed>>
      /\ UNCHANGED <<reqVars, restarts>>
  BY DEF HandleCancelled, PipeTypes, InHand
<1> DEFINE m == topic[consumer.part][consumer.off]
<1>2. StoreTypes' /\ stored \subseteq stored'
  <2>1. CASE UNCHANGED <<db, stored>>
    BY <1>1, <2>1 DEF StoreTypes
  <2>2. CASE m # Malformed /\ CancelledUpsert(m)
    <3>1. m \in Session
      BY <1>1, <2>2, MessageType
    <3> HIDE DEF m
    <3> QED
      BY <1>1, <2>2, <3>1, CancelledUpsertTypes
  <2> QED
    BY <2>1, <2>2 DEF HandleCancelled
<1>3. PipeTypes'
  <2>1. /\ consumer' \in InHand
        /\ consumer'.off = consumer.off
        /\ consumer'.part = consumer.part
    BY <1>1 DEF InHand
  <2>2. handled' \subseteq Partitions \X Nat
    BY <1>1 DEF PipeTypes, InHand
  <2> QED
    BY <1>1, <2>1, <2>2 DEF PipeTypes
<1> QED
  BY <1>1, <1>2, <1>3, RequestsUnchanged

LEMMA CommitCancelledTypes ==
    ASSUME TypeInv, CommitCancelled
    PROVE  TypeInv'
<1>1. /\ consumer' = Nil
      /\ UNCHANGED <<repoVars, topic, writer, position, committed, handled,
                     reqVars, restarts>>
  BY DEF CommitCancelled
<1>2. PipeTypes'
  BY <1>1 DEF TypeInv, PipeTypes
<1> QED
  BY <1>1, <1>2, StoreUnchanged, RequestsUnchanged DEF TypeInv

LEMMA DieTypes ==
    ASSUME TypeInv, Die
    PROVE  TypeInv'
<1> USE DEF TypeInv
<1>1. /\ writer' = [r \in Requests |-> Nil]
      /\ position' = committed
      /\ consumer' = Nil
      /\ UNCHANGED <<topic, committed, handled>>
  BY DEF Die, PipeCrash
<1>2. PipeTypes'
  BY <1>1 DEF PipeTypes
<1>3. /\ pc' = [r \in Requests |-> IF InFlight(r) THEN "lost" ELSE pc[r]]
      /\ warm' = [r \in Requests |-> Nil]
      /\ UNCHANGED <<repoVars, call, sess, code, clock, restarts>>
  BY DEF Die
<1>4. RequestTypes'
  BY <1>3 DEF RequestTypes, InFlight, Steps, Writing
<1> QED
  BY <1>2, <1>3, <1>4, StoreUnchanged

LEMMA RestartTypes ==
    ASSUME TypeInv, Restart
    PROVE  TypeInv'
<1>1. UNCHANGED <<repoVars, pipeVars, reqVars>>
  BY DEF Restart
<1>2. restarts' \in 0 .. MaxRestarts
  BY ServiceAssumption DEF Restart, TypeInv, RequestTypes
<1>3. RequestTypes'
  BY <1>1, <1>2 DEF TypeInv, RequestTypes, reqVars
<1> QED
  BY <1>1, <1>3, StoreUnchanged, PipeUnchanged DEF TypeInv

LEMMA ProcessTypeInvStep == TypeInv /\ [LifecycleNext]_lvars => TypeInv'
<1> SUFFICES ASSUME TypeInv, [LifecycleNext]_lvars
             PROVE  TypeInv'
  OBVIOUS
<1>1. CASE [Next]_vars
  BY <1>1, TypeInvStep
<1>2. CASE Cancelled
  BY <1>2, CancelledCallTypes, WarmClosedTypes, HandleCancelledTypes,
     CommitCancelledTypes DEF Cancelled
<1> QED
  BY <1>1, <1>2, DieTypes, RestartTypes, ProcessSteps

(***************************************************************************)
(* Each request and each store holds what its next step needs, also when a *)
(* stop cancels calls half way.                                            *)
(***************************************************************************)
THEOREM ProcessTypes == LifecycleSpec => []TypeInv
<1>1. LifecycleInit => TypeInv
  BY TypeInvInit DEF LifecycleInit
<1> QED
  BY <1>1, ProcessTypeInvStep, PTL DEF LifecycleSpec
-----------------------------------------------------------------------------
(* What is acknowledged is durable. *)

(* A cancelled step of one request concerns no other. *)
LEMMA CancelledOwnRequest ==
    ASSUME TypeInv, NEW r \in Requests, CancelledCall(r) \/ WarmClosed(r),
           NEW q \in Requests, q # r
    PROVE  pc'[q] = pc[q] /\ code'[q] = code[q]
<1>1. CASE WarmClosed(r)
  BY <1>1 DEF WarmClosed
<1>2. CASE CancelledCall(r)
  <2>1. (\E step : Goto(r, step)) \/ (\E status : Answer(r, status))
    BY <1>2 DEF CancelledCall, AnswerOK
  <2> QED
    BY <2>1 DEF Goto, Answer, TypeInv, RequestTypes
<1> QED
  BY <1>1, <1>2

(* Of the answers to a cancelled call, only that of SetCache is a success. *)
LEMMA CancelledCallAnswers ==
    ASSUME TypeInv, NEW r \in Requests, CancelledCall(r)
    PROVE  \/ pc[r] = "get" /\ pc'[r] = "select"
           \/ pc[r] \in {"select", "upsert", "fallback"} /\ pc'[r] = "done"
              /\ code'[r] = 500
           \/ pc[r] = "setcache" /\ call[r].op = "heartbeat"
              /\ pc'[r] = "publish"
           \/ pc[r] = "setcache" /\ call[r].op # "heartbeat" /\ pc'[r] = "done"
           \/ pc[r] \in {"publish", "await"} /\ pc'[r] = "fallback"
  BY DEF CancelledCall, AnswerOK, Answer, Goto, TypeInv, RequestTypes

LEMMA CancelledGrows ==
    ASSUME TypeInv, Cancelled
    PROVE  Growing /\ UNCHANGED <<topic, writer, call, sess>>
<1>1. ASSUME NEW r \in Requests, CancelledCall(r) \/ WarmClosed(r)
      PROVE  /\ stored \subseteq stored'
             /\ UNCHANGED <<topic, writer, call, sess>>
  BY <1>1, CancelledCallTypes DEF CancelledCall, WarmClosed, pipeVars, repoVars
<1>2. stored \subseteq stored' /\ UNCHANGED <<topic, writer, call, sess>>
  <2>1. CASE HandleCancelled
    BY <2>1, HandleCancelledTypes DEF HandleCancelled, reqVars
  <2>2. CASE CommitCancelled
    BY <2>2 DEF CommitCancelled, repoVars, reqVars
  <2> QED
    BY <1>1, <2>1, <2>2 DEF Cancelled
<1> QED
  BY <1>2, GrowingFrame DEF TypeInv

LEMMA CancelledDurable ==
    ASSUME TypeInv, TypeInv', DurableInv, Cancelled
    PROVE  DurableInv'
<1>1. Growing /\ UNCHANGED <<topic, writer, call, sess>>
  BY CancelledGrows
<1>2. ASSUME NEW q \in Requests, pc'[q] = pc[q], code'[q] = code[q]
      PROVE  Durable(q)'
  BY <1>1, <1>2, DurableFrame DEF DurableInv, TypeInv
<1>3. CASE HandleCancelled \/ CommitCancelled
  BY <1>2, <1>3 DEF HandleCancelled, CommitCancelled, reqVars, DurableInv
<1>4. ASSUME NEW r \in Requests, WarmClosed(r)
      PROVE  DurableInv'
  BY <1>2, <1>4 DEF WarmClosed, DurableInv
<1>5. ASSUME NEW r \in Requests, CancelledCall(r)
      PROVE  DurableInv'
  <2>1. Durable(r)'
    <3>1. Durable(r) /\ stored \subseteq stored'
      BY <1>1 DEF DurableInv, Growing
    <3>2. Logged(sess[r]) => Logged(sess[r])'
      BY <1>1 DEF Logged
    <3>3. CASE pc[r] = "get" /\ pc'[r] = "select"
      BY <1>1, <3>1, <3>2, <3>3 DEF Durable, Acked
    <3>4. CASE pc[r] \in {"select", "upsert", "fallback"} /\ pc'[r] = "done"
               /\ code'[r] = 500
      BY <1>1, <3>1, <3>2, <3>4 DEF Durable, Acked, SuccessCode
    <3>5. CASE pc[r] = "setcache" /\ call[r].op = "heartbeat"
               /\ pc'[r] = "publish"
      BY <1>1, <3>1, <3>2, <3>5 DEF Durable, Acked
    <3>6. CASE pc[r] = "setcache" /\ call[r].op # "heartbeat" /\ pc'[r] = "done"
      BY <1>1, <3>1, <3>2, <3>6 DEF Durable, Acked
    <3>7. CASE pc[r] \in {"publish", "await"} /\ pc'[r] = "fallback"
      BY <1>1, <3>1, <3>2, <3>7 DEF Durable, Acked
    <3> QED
      BY <1>5, <3>3, <3>4, <3>5, <3>6, <3>7, CancelledCallAnswers
  <2>2. \A q \in Requests : q # r => Durable(q)'
    BY <1>2, <1>5, CancelledOwnRequest
  <2> QED
    BY <2>1, <2>2 DEF DurableInv
<1> QED
  BY <1>3, <1>4, <1>5 DEF Cancelled

LEMMA DieDurable ==
    ASSUME DurableInv, Die
    PROVE  DurableInv'
<1> SUFFICES ASSUME NEW r \in Requests
             PROVE  Durable(r)'
  BY DEF DurableInv
<1>1. /\ writer' = [q \in Requests |-> Nil]
      /\ UNCHANGED <<topic, stored, call, sess, code>>
  BY DEF Die, PipeCrash, repoVars
<1>2. pc'[r] = "lost" \/ (pc'[r] = pc[r] /\ pc[r] \in {"idle", "done", "lost"})
  BY DEF Die, InFlight
<1>3. Logged(sess[r]) => Logged(sess[r])'
  BY <1>1 DEF Logged
<1> QED
  BY <1>1, <1>2, <1>3 DEF DurableInv, Durable, Acked

LEMMA ProcessDurableStep ==
    ASSUME TypeInv, TypeInv', DurableInv, [LifecycleNext]_lvars
    PROVE  DurableInv'
<1>1. CASE Restart
  <2>1. UNCHANGED <<topic, writer, stored, pc, call, sess, code>>
    BY <1>1 DEF Restart, repoVars, pipeVars, reqVars
  <2>2. Growing
    BY <2>1, GrowingFrame DEF TypeInv
  <2> QED
    BY <2>1, <2>2, DurableFrame DEF DurableInv, TypeInv
<1> QED
  BY <1>1, ProcessSteps, DurableInvStep, CancelledDurable, DieDurable

LEMMA ProcessDurable == LifecycleSpec => []DurableInv
<1>1. LifecycleInit => DurableInv
  BY DEF LifecycleInit, Init, PipeInit, DurableInv, Durable, Acked
<1>2. TypeInv /\ TypeInv' /\ DurableInv /\ [LifecycleNext]_lvars => DurableInv'
  BY ProcessDurableStep
<1> QED
  BY <1>1, <1>2, ProcessTypes, PTL DEF LifecycleSpec

(***************************************************************************)
(* A success that was reported is durable, also when a stop cancels the    *)
(* calls of the requests it has to wait for, and whatever the process was  *)
(* doing when its time was over: a cancelled Publish falls back to the     *)
(* table, and a cancelled Upsert is an error (service.go).                 *)
(***************************************************************************)
THEOREM StopKeepsAcknowledged == LifecycleSpec => []AckDurable
<1>1. DurableInv => AckDurable
  BY DEF DurableInv, Durable, AckDurable
<1> QED
  BY <1>1, ProcessDurable, PTL
-----------------------------------------------------------------------------
(* Delivery. *)

LEMMA ProcessCommitStep ==
    ASSUME TypeInv, CommitInv, [LifecycleNext]_lvars
    PROVE  CommitInv'
<1>1. CASE \/ \E r \in Requests : CancelledCall(r) \/ WarmClosed(r)
           \/ Restart
  <2>1. UNCHANGED <<position, committed, consumer, handled>>
    BY <1>1 DEF CancelledCall, WarmClosed, Restart, pipeVars
  <2> QED
    BY <2>1 DEF CommitInv, InHandNow
<1>2. CASE HandleCancelled
  <2>1. /\ consumer \in InHand
        /\ consumer.call = "handle"
        /\ consumer' = [consumer EXCEPT !.call = "commit"]
        /\ handled' = handled \cup {<<consumer.part, consumer.off>>}
        /\ UNCHANGED <<position, committed>>
    BY <1>2 DEF HandleCancelled, TypeInv, PipeTypes
  <2>2. /\ consumer'.call = "commit"
        /\ consumer'.part = consumer.part
        /\ consumer'.off = consumer.off
        /\ consumer # Nil
    BY <1>2, <2>1 DEF InHand, HandleCancelled
  <2> QED
    BY <2>1, <2>2 DEF CommitInv, InHandNow
<1>3. CASE CommitCancelled
  <2>1. /\ consumer # Nil
        /\ consumer.call = "commit"
        /\ consumer' = Nil
        /\ UNCHANGED <<position, committed, handled>>
    BY <1>3 DEF CommitCancelled
  <2> QED
    BY <2>1 DEF CommitInv, InHandNow
<1>4. CASE Die
  <2>1. /\ position' = committed
        /\ consumer' = Nil
        /\ UNCHANGED <<committed, handled>>
    BY <1>4 DEF Die, PipeCrash
  <2> QED
    BY <2>1 DEF CommitInv, InHandNow
<1> QED
  BY <1>1, <1>2, <1>3, <1>4, ProcessSteps, CommitInvStep DEF Cancelled

LEMMA ProcessStepDelivers ==
    ASSUME TypeInv, CommitInv, [LifecycleNext]_lvars
    PROVE  [Queue!Next]_<<topic, handled, committed>>
<1>1. CASE \/ \E r \in Requests : CancelledCall(r) \/ WarmClosed(r)
           \/ CommitCancelled \/ Restart \/ Die
  BY <1>1 DEF CancelledCall, WarmClosed, CommitCancelled, Restart, Die,
     PipeCrash, pipeVars
<1>2. CASE HandleCancelled
  <2>1. /\ consumer \in InHand
        /\ consumer.off \in 1 .. Len(topic[consumer.part])
    BY <1>2 DEF HandleCancelled, TypeInv, PipeTypes
  <2>2. consumer.part \in Partitions
    BY <2>1 DEF InHand
  <2>3. Queue!Deliver(consumer.part)
    BY <1>2, <2>1 DEF HandleCancelled, Queue!Deliver
  <2> QED
    BY <2>2, <2>3 DEF Queue!Next
<1> QED
  BY <1>1, <1>2, ProcessSteps, StepDelivers DEF Cancelled

LEMMA ProcessCommits == LifecycleSpec => []CommitInv
<1>1. LifecycleInit => CommitInv
  BY DEF LifecycleInit, Init, PipeInit, CommitInv
<1>2. TypeInv /\ CommitInv /\ [LifecycleNext]_lvars => CommitInv'
  BY ProcessCommitStep
<1> QED
  BY <1>1, <1>2, ProcessTypes, PTL DEF LifecycleSpec

(***************************************************************************)
(* Stops do not break at-least-once delivery: a handler whose context was  *)
(* cancelled has seen its message, a commit that was cancelled, or that    *)
(* did not come about before the process was gone, releases nothing, and   *)
(* the next process starts from what is committed.                         *)
(***************************************************************************)
THEOREM ProcessDeliversAtLeastOnce == LifecycleSpec => DeliversAtLeastOnce
<1>1. LifecycleInit => Queue!Init
  BY DEF LifecycleInit, Init, PipeInit, Queue!Init
<1>2. TypeInv /\ CommitInv /\ [LifecycleNext]_lvars =>
          [Queue!Next]_(Queue!queue)
  BY ProcessStepDelivers DEF Queue!queue
<1> QED
  BY <1>1, <1>2, ProcessTypes, ProcessCommits, PTL
     DEF LifecycleSpec, DeliversAtLeastOnce, Queue!Spec
-----------------------------------------------------------------------------
(***************************************************************************)
(* An asynchronous Writer.  It has something to send only while its hook   *)
(* has not ended: the server's hook, which ends first, waits for whoever   *)
(* might still give it something.                                          *)
(***************************************************************************)
SendInv ==
    \A r \in Requests :
        Sending(r) => /\ comp["producer"] \in {"started", "closing"}
                      /\ app \notin {"building", "exited"}

(* A heartbeat that was acknowledged is in the table, in the topic, or in  *)
(* the Writer's hands - unless these were gone before it could send.       *)
Held(r) ==
    Acked(r, {"heartbeat"}) =>
        \/ timedOut
        \/ sess[r] \in stored
        \/ Logged(sess[r])
        \/ Sending(r)

HeldInv == \A r \in Requests : Held(r)

(* Apart from the Writer itself and the end of the process, only a request *)
(* that is being served changes what the Writer has.                       *)
LEMMA WriterKept ==
    ASSUME ServiceStep, ~Send, \A r \in Requests : ~(Serve(r) /\ PublishHeartbeat(r))
    PROVE  UNCHANGED <<writer, lifeVars>>
<1>1. ASSUME NEW r \in Requests, Serve(r), ~PublishHeartbeat(r)
      PROVE  UNCHANGED <<writer, lifeVars>>
  BY <1>1 DEF Serve, Arrival, Start, Heartbeat, GetCurrentPauseResume,
     RequestStep, RedisGet, Select, Mutate, UpsertSession, CacheSession,
     PublishRefused, AwaitPublish, Fallback, pipeVars
<1>2. ASSUME NEW r \in Requests, CancelledCall(r) \/ Warm(r) \/ WarmClosed(r)
      PROVE  UNCHANGED <<writer, lifeVars>>
  BY <1>2 DEF CancelledCall, Warm, WarmMarshal, WarmSet, WarmClosed, pipeVars
<1>3. CASE Consume \/ HandleCancelled \/ CommitCancelled
  BY <1>3 DEF Consume, FetchMessage, Handle, CommitMessages, HandleCancelled,
     CommitCancelled
<1> QED
  BY <1>1, <1>2, <1>3 DEF ServiceStep

LEMMA SendInvService ==
    ASSUME TypeInv, LifeInv, SendInv, ServiceStep
    PROVE  SendInv'
<1>1. CASE UNCHANGED <<writer, lifeVars>>
  BY <1>1 DEF SendInv, Sending, lifeVars
<1>2. CASE Send
  <2>1. PICK r \in Requests : WriterStep(r)
    BY <1>2 DEF Send
  <2>2. Sending(r) /\ \A q \in Requests : q # r => writer'[q] = writer[q]
    BY <2>1 DEF WriterStep, SendAcked, SendFailed, TypeInv, PipeTypes
  <2>3. UNCHANGED lifeVars
    BY <1>2 DEF Send
  <2> QED
    BY <2>2, <2>3 DEF SendInv, Sending, lifeVars
<1>3. ASSUME NEW r \in Requests, Serve(r), PublishHeartbeat(r)
      PROVE  SendInv'
  <2>1. Serving /\ app # "exited" /\ UNCHANGED lifeVars
    BY <1>3 DEF Serve, Serving, ServiceStep
  <2>2. comp["producer"] = "started" /\ app # "building"
    BY <2>1, ComponentFacts DEF LifeInv, ServerLast
  <2> QED
    BY <2>1, <2>2 DEF SendInv, lifeVars
<1> QED
  BY <1>1, <1>2, <1>3, WriterKept

(* A component moves: the producer's state changes only if it is the one. *)
LEMMA ProducerMoves ==
    ASSUME LifeInv, NEW c \in 1 .. Last, NEW from, NEW to, Move(c, from, to)
    PROVE  \/ comp'["producer"] = comp["producer"]
           \/ /\ Components[c] = "producer"
              /\ comp["producer"] = from
              /\ comp'["producer"] = to
<1>1. "producer" \in Names
  BY ComponentFacts
<1> QED
  BY <1>1 DEF Move, LifeInv

LEMMA SendInvFx ==
    ASSUME LifeInv, SendInv, FxStep
    PROVE  SendInv'
<1>1. ASSUME NEW c \in 1 .. Last,
             \/ Up(c) \/ Build(c) \/ InvokeFails(c) \/ PingFails(c)
      PROVE  SendInv'
  <2>1. app = "building" /\ UNCHANGED writer
    BY <1>1 DEF Up, Build, InvokeFails, PingFails, BuildFails, vars, pipeVars
  <2> QED
    BY <2>1 DEF SendInv, Sending
<1>2. ASSUME NEW c \in 1 .. Last, StartHook(c) \/ BeginStop(c)
      PROVE  SendInv'
  <2>1. /\ Move(c, "built", "started") \/ Move(c, "started", "closing")
        /\ app' \notin {"building", "exited"}
        /\ UNCHANGED writer
    BY <1>2 DEF StartHook, BeginStop, vars, pipeVars
  <2>2. comp["producer"] \in {"started", "closing"} =>
            comp'["producer"] \in {"started", "closing"}
    BY <2>1, ProducerMoves
  <2> QED
    BY <2>1, <2>2 DEF SendInv, Sending
<1>3. ASSUME NEW c \in 1 .. Last, EndStop(c)
      PROVE  SendInv'
  <2>1. /\ Move(c, "closing", "closed")
        /\ Finished(Components[c])
        /\ UNCHANGED <<writer, app>>
    BY <1>3 DEF EndStop, vars, pipeVars
  <2>2. CASE comp'["producer"] = comp["producer"]
    BY <2>1, <2>2 DEF SendInv, Sending
  <2>3. CASE Components[c] = "producer"
    <3>1. \A r \in Requests : ~Sending(r)
      BY <2>1, <2>3 DEF Finished, Flushed
    <3> QED
      BY <2>1, <3>1 DEF SendInv, Sending
  <2> QED
    BY <2>1, <2>2, <2>3, ProducerMoves
<1>4. ASSUME NEW c \in 1 .. Last, ListenFails(c)
      PROVE  SendInv'
  BY <1>4 DEF ListenFails, SendInv, Sending, vars, pipeVars
<1>5. CASE Signal
  BY <1>5 DEF Signal, SendInv, Sending, vars, pipeVars
<1>6. CASE Exit \/ StopTimeout
  <2>1. writer' = [r \in Requests |-> Nil]
    BY <1>6 DEF Exit, StopTimeout, Die, PipeCrash
  <2> QED
    BY <2>1 DEF SendInv, Sending
<1>7. CASE Restart
  <2>1. app = "exited" /\ UNCHANGED writer
    BY <1>7 DEF Restart, pipeVars
  <2> QED
    BY <2>1 DEF SendInv, Sending
<1> QED
  BY <1>1, <1>2, <1>3, <1>4, <1>5, <1>6, <1>7 DEF FxStep

LEMMA SendInvStep ==
    ASSUME TypeInv, LifeInv, SendInv, [LifecycleNext]_lvars
    PROVE  SendInv'
<1>1. CASE UNCHANGED lvars
  BY <1>1 DEF lvars, lifeVars, vars, pipeVars, SendInv, Sending
<1> QED
  BY <1>1, SendInvService, SendInvFx DEF LifecycleNext

(* A request that a step leaves alone is still held, if the Writer still   *)
(* has what it had or has sent it.                                         *)
LEMMA HeldFrame ==
    ASSUME TypeInv, TypeInv', Growing, NEW q \in Requests, Held(q),
           pc'[q] = pc[q], call'[q] = call[q], sess'[q] = sess[q],
           code'[q] = code[q], timedOut => timedOut',
           Sending(q) => Sending(q)' \/ Logged(sess[q])' \/ timedOut'
    PROVE  Held(q)'
<1>1. Logged(sess[q]) => Logged(sess[q])'
  BY LoggedStays DEF Logged, TypeInv
<1>2. Acked(q, {"heartbeat"})' => Acked(q, {"heartbeat"})
  BY DEF Acked
<1> QED
  BY <1>1, <1>2 DEF Held, Growing

(* The request's own steps: an asynchronous Publish leaves the heartbeat   *)
(* with the Writer, any other success comes after the topic or the table.  *)
LEMMA OwnStepHeld ==
    ASSUME TypeInv, TypeInv', NEW r \in Requests, Durable(r),
           Arrival(r) \/ RequestStep(r)
    PROVE  Held(r)'
<1> SUFFICES ASSUME Acked(r, {"heartbeat"})'
             PROVE  sess'[r] \in stored' \/ Logged(sess[r])' \/ Sending(r)'
  BY DEF Held
<1>1. pc'[r] = "done" /\ call'[r].op = "heartbeat" /\ code'[r] = 204
  BY DEF Acked, SuccessCode
<1>2. ~Arrival(r)
  BY <1>1 DEF Arrival, Start, Heartbeat, GetCurrentPauseResume, Goto, TypeInv,
     RequestTypes
<1>3. UNCHANGED call
  BY <1>2 DEF RequestStep, RedisGet, Select, Mutate, UpsertSession,
     CacheSession, PublishHeartbeat, PublishRefused, AwaitPublish, Fallback
<1>4. ~RedisGet(r) /\ ~Select(r) /\ ~Mutate(r)
  BY <1>1, <1>3 DEF RedisGet, Select, Mutate, Durable
<1>5. ~UpsertSession(r) /\ ~CacheSession(r)
  <2>1. ~UpsertSession(r)
    BY <1>1, <1>3 DEF UpsertSession, Durable
  <2>2. ~CacheSession(r)
    BY <1>1, <1>3 DEF CacheSession, Goto, TypeInv, RequestTypes
  <2> QED
    BY <2>1, <2>2
<1>6. CASE PublishHeartbeat(r)
  <2>1. writer'[r] # Nil /\ writer'[r].state = "sending"
    <3>1. PICK p \in Partitions :
              writer' = [writer EXCEPT ![r] =
                  [state |-> "sending", part |-> p, tries |-> 0,
                   msg |-> sess[r]]]
      BY <1>6 DEF PublishHeartbeat, Publish
    <3>2. sess[r] \in Session
      BY <1>6 DEF PublishHeartbeat, TypeInv, RequestTypes, Writing
    <3>3. writer'[r] = [state |-> "sending", part |-> p, tries |-> 0,
                        msg |-> sess[r]]
      BY <3>1 DEF TypeInv, PipeTypes
    <3>4. writer'[r] \in Batch
      BY <3>2, <3>3, SessionIsRaced, PipelineAssumption DEF Batch
    <3> QED
      BY <3>3, <3>4, PipelineAssumption
  <2> QED
    BY <2>1 DEF Sending
<1>7. CASE PublishRefused(r) \/ AwaitPublish(r)
  <2>1. UNCHANGED <<sess, topic>>
    BY <1>7 DEF PublishRefused, AwaitPublish, pipeVars
  <2>2. PublishOK(r)
    BY <1>1, <1>7 DEF PublishRefused, AwaitPublish, Goto, TypeInv, RequestTypes
  <2>3. Logged(sess[r])
    BY <2>2 DEF PublishOK, Durable
  <2> QED
    BY <2>1, <2>3 DEF Logged
<1>8. CASE Fallback(r)
  <2>1. UNCHANGED sess
    BY <1>8 DEF Fallback
  <2>2. ~Answer(r, 500)
    BY <1>1 DEF Answer, TypeInv, RequestTypes
  <2>3. Upsert(sess[r], FALSE)
    BY <1>8, <2>2 DEF Fallback
  <2> QED
    BY <2>1, <2>3, UpsertGrows
<1> QED
  BY <1>2, <1>4, <1>5, <1>6, <1>7, <1>8 DEF RequestStep

LEMMA ConsumeGrows ==
    ASSUME TypeInv, Consume
    PROVE  Growing /\ UNCHANGED <<topic, writer, reqVars, lifeVars>>
<1>1. UNCHANGED <<topic, writer, reqVars, lifeVars>>
  BY DEF Consume, FetchMessage, Handle, CommitMessages
<1>2. stored \subseteq stored'
  <2>1. CASE Handle
    <3>1. CASE UNCHANGED <<db, stored>>
      BY <3>1
    <3>2. CASE \E failed \in BOOLEAN :
                   Upsert(topic[consumer.part][consumer.off], failed)
      BY <3>2, UpsertGrows
    <3> QED
      BY <2>1, <3>1, <3>2 DEF Handle
  <2>2. CASE ~Handle
    BY <2>2 DEF Consume, FetchMessage, CommitMessages, repoVars
  <2> QED
    BY <2>1, <2>2
<1> QED
  BY <1>1, <1>2, GrowingFrame DEF TypeInv

LEMMA HeldService ==
    ASSUME TypeInv, TypeInv', DurableInv, DurableInv', HeldInv, ServiceStep,
           "kafka" \notin Faults
    PROVE  HeldInv'
<1>1. ASSUME NEW r \in Requests, Serve(r)
      PROVE  HeldInv'
  <2>1. (Arrival(r) \/ RequestStep(r)) /\ UNCHANGED lifeVars
    BY <1>1 DEF Serve
  <2>2. Held(r)'
    BY <2>1, OwnStepHeld DEF DurableInv
  <2>3. ASSUME NEW q \in Requests, q # r
        PROVE  Held(q)'
    <3>1. /\ pc'[q] = pc[q] /\ call'[q] = call[q] /\ sess'[q] = sess[q]
          /\ code'[q] = code[q] /\ writer'[q] = writer[q]
      BY <2>1, <2>3, OnlyOwnRequest
    <3>2. Growing /\ timedOut' = timedOut
      BY <2>1, RequestGrows DEF lifeVars
    <3> QED
      BY <3>1, <3>2, HeldFrame DEF Sending, HeldInv
  <2> QED
    BY <2>2, <2>3 DEF HeldInv
<1>2. ASSUME NEW r \in Requests, CancelledCall(r)
      PROVE  HeldInv'
  <2>1. /\ Growing
        /\ UNCHANGED <<topic, writer, call, sess>>
        /\ UNCHANGED lifeVars
    BY <1>2, CancelledGrows DEF Cancelled, CancelledCall
  <2>2. Held(r)'
    <3>1. ~(pc'[r] = "done" /\ call[r].op = "heartbeat" /\ code'[r] = 204)
      BY <1>2, CancelledCallAnswers
    <3> QED
      BY <2>1, <3>1 DEF Held, Acked, SuccessCode
  <2>3. ASSUME NEW q \in Requests, q # r
        PROVE  Held(q)'
    BY <1>2, <2>1, <2>3, CancelledOwnRequest, HeldFrame
       DEF Sending, HeldInv, lifeVars
  <2> QED
    BY <2>2, <2>3 DEF HeldInv
<1>3. ASSUME Growing, UNCHANGED <<writer, call, sess, pc, code, timedOut>>
      PROVE  HeldInv'
  BY <1>3, HeldFrame DEF Sending, HeldInv
<1>4. ASSUME NEW r \in Requests, Warm(r)
      PROVE  HeldInv'
  <2>1. UNCHANGED <<writer, call, sess, pc, code, timedOut>>
    BY <1>4 DEF Warm, WarmMarshal, WarmSet, pipeVars, lifeVars
  <2>2. Growing
    BY <1>4, RequestGrows DEF Warm, WarmStep
  <2> QED
    BY <1>3, <2>1, <2>2
<1>5. ASSUME NEW r \in Requests, WarmClosed(r)
      PROVE  HeldInv'
  <2>1. UNCHANGED <<writer, call, sess, pc, code, timedOut>>
    BY <1>5 DEF WarmClosed, pipeVars, lifeVars
  <2>2. Growing
    BY <1>5, CancelledGrows DEF Cancelled
  <2> QED
    BY <1>3, <2>1, <2>2
<1>6. CASE HandleCancelled \/ CommitCancelled
  <2>1. UNCHANGED <<writer, call, sess, pc, code, timedOut>>
    BY <1>6 DEF HandleCancelled, CommitCancelled, lifeVars, reqVars
  <2>2. Growing
    BY <1>6, CancelledGrows DEF Cancelled
  <2> QED
    BY <1>3, <2>1, <2>2
<1>7. CASE Consume
  BY <1>3, <1>7, ConsumeGrows DEF reqVars, lifeVars
<1>8. CASE Send
  <2>1. PICK r \in Requests : SendAcked(r)
    BY <1>8 DEF Send, WriterStep, SendFailed
  <2>2. Growing
    BY <2>1, WriterGrows DEF WriterStep
  <2>3. UNCHANGED <<call, sess, pc, code, timedOut>>
    BY <1>8 DEF Send, reqVars, lifeVars
  <2>4. \A q \in Requests : q # r => writer'[q] = writer[q]
    BY <2>1 DEF SendAcked, TypeInv, PipeTypes
  <2>5. writer'[r] # Nil /\ writer'[r].state = "acked"
    <3>1. writer[r] \in CleanBatch
      BY <2>1 DEF SendAcked, Sending, TypeInv, PipeTypes
    <3>2. /\ writer'[r] = [writer[r] EXCEPT !.state = "acked"]
          /\ writer'[r] \in CleanBatch
      BY <2>1, <3>1 DEF SendAcked, TypeInv, PipeTypes, CleanBatch
    <3>3. writer'[r] \in Batch
      BY <3>2, SessionIsRaced DEF CleanBatch, Batch
    <3> QED
      BY <3>1, <3>2, <3>3, PipelineAssumption DEF CleanBatch
  <2>6. Logged(sess[r])'
    BY <2>5 DEF DurableInv, Durable
  <2>7. ASSUME NEW q \in Requests
        PROVE  Held(q)'
    <3>1. Sending(q) => Sending(q)' \/ Logged(sess[q])'
      BY <2>4, <2>6 DEF Sending
    <3> QED
      BY <2>2, <2>3, <3>1, HeldFrame DEF HeldInv
  <2> QED
    BY <2>7 DEF HeldInv
<1> QED
  BY <1>1, <1>2, <1>4, <1>5, <1>6, <1>7, <1>8 DEF ServiceStep

LEMMA HeldFx ==
    ASSUME TypeInv, TypeInv', LifeInv, SendInv, HeldInv, FxStep
    PROVE  HeldInv'
<1>1. ASSUME UNCHANGED <<stored, topic, writer, call, sess, pc, code, timedOut>>
      PROVE  HeldInv'
  <2>1. Growing
    BY <1>1, GrowingFrame DEF TypeInv
  <2> QED
    BY <1>1, <2>1, HeldFrame DEF Sending, HeldInv
<1>2. ASSUME NEW c \in 1 .. Last,
             \/ Up(c) \/ Build(c) \/ InvokeFails(c) \/ PingFails(c)
             \/ StartHook(c) \/ ListenFails(c) \/ BeginStop(c) \/ EndStop(c)
      PROVE  UNCHANGED <<vars, timedOut>>
  BY <1>2 DEF Up, Build, InvokeFails, PingFails, BuildFails, StartHook,
              ListenFails, BeginStop, EndStop
<1>3. CASE UNCHANGED <<vars, timedOut>>
  BY <1>1, <1>3 DEF vars, repoVars, pipeVars, reqVars
<1>4. CASE Restart
  BY <1>1, <1>4 DEF Restart, repoVars, pipeVars, reqVars
<1>5. CASE StopTimeout
  BY <1>5 DEF StopTimeout, HeldInv, Held
<1>6. CASE Exit
  <2>1. comp["producer"] \in {"built", "closed"}
    BY <1>6, ComponentFacts DEF Exit, Stopped
  <2>2. \A r \in Requests : ~Sending(r)
    BY <2>1 DEF SendInv
  <2>3. Growing
    BY <1>6, GrowingFrame DEF Exit, Die, PipeCrash, repoVars, TypeInv
  <2>4. ASSUME NEW q \in Requests
        PROVE  Held(q)'
    <3>1. CASE InFlight(q)
      BY <1>6, <3>1 DEF Exit, Die, Held, Acked
    <3>2. CASE ~InFlight(q)
      BY <1>6, <2>2, <2>3, <3>2, HeldFrame DEF Exit, Die, HeldInv
    <3> QED
      BY <3>1, <3>2
  <2> QED
    BY <2>4 DEF HeldInv
<1>7. CASE Signal
  BY <1>3, <1>7 DEF Signal
<1> QED
  BY <1>2, <1>3, <1>4, <1>5, <1>6, <1>7 DEF FxStep

LEMMA HeldInvStep ==
    ASSUME TypeInv, TypeInv', DurableInv, DurableInv', LifeInv, SendInv,
           HeldInv, [LifecycleNext]_lvars, "kafka" \notin Faults
    PROVE  HeldInv'
<1>1. CASE UNCHANGED lvars
  <2>1. UNCHANGED <<stored, topic, writer, call, sess, pc, code, timedOut>>
    BY <1>1 DEF lvars, lifeVars, vars, repoVars, pipeVars, reqVars
  <2>2. Growing
    BY <2>1, GrowingFrame DEF TypeInv
  <2> QED
    BY <2>1, <2>2, HeldFrame DEF Sending, HeldInv
<1> QED
  BY <1>1, HeldService, HeldFx DEF LifecycleNext

(* The group has not passed what its handler has not seen. *)
LEMMA LoggedIsConsumed ==
    ASSUME TypeInv, CommitInv, NEW m, Logged(m)
    PROVE  Waiting(m) \/ Seen(m)
<1>0. PICK p \in Partitions : \E i \in 1 .. Len(topic[p]) : topic[p][i] = m
  BY DEF Logged
<1>1. PICK i \in 1 .. Len(topic[p]) : topic[p][i] = m
  BY <1>0
<1>2. committed[p] \in Nat /\ Len(topic[p]) \in Nat
  BY DEF TypeInv, PipeTypes
<1>3. CASE i \in 1 .. committed[p]
  BY <1>1, <1>3 DEF CommitInv, Seen
<1>4. CASE i \in committed[p] + 1 .. Len(topic[p])
  BY <1>1, <1>4 DEF Waiting
<1> QED
  BY <1>2, <1>3, <1>4

(***************************************************************************)
(* Where brokers accept what they are sent, a stop that is given its time  *)
(* leaves no acknowledged heartbeat in the process, asynchronous Writer or *)
(* not: the server and its requests end before the producer's hook begins, *)
(* and that hook does not return before the Writer has sent everything     *)
(* (producer.go, server.go, and the order of Invokes in main.go).  What is *)
(* in the topic has been given to the handler or will be.  A broker that   *)
(* refuses a message for good loses an asynchronous one, whatever the      *)
(* hooks do, and a handler whose Upsert the stop cancels loses it too.     *)
(***************************************************************************)
THEOREM StopFlushesHeartbeats ==
    ASSUME "kafka" \notin Faults
    PROVE  LifecycleSpec => []OrderlyStopSendsHeartbeats
<1>1. LifecycleInit => SendInv /\ HeldInv
  BY DEF LifecycleInit, Init, PipeInit, SendInv, Sending, HeldInv, Held, Acked
<1>2. TypeInv /\ LifeInv /\ SendInv /\ [LifecycleNext]_lvars => SendInv'
  BY SendInvStep
<1>3. /\ TypeInv /\ TypeInv' /\ DurableInv /\ DurableInv' /\ LifeInv /\ SendInv
      /\ HeldInv
      /\ [LifecycleNext]_lvars
      => HeldInv'
  BY HeldInvStep
<1>4. TypeInv /\ CommitInv /\ SendInv /\ HeldInv
      => OrderlyStopSendsHeartbeats
  BY LoggedIsConsumed
     DEF SendInv, HeldInv, Held, OrderlyStopSendsHeartbeats
<1>5. LifecycleSpec => []LifeInv
  BY LifeInvInit, LifeInvStep, PTL DEF LifecycleSpec
<1> QED
  BY <1>1, <1>2, <1>3, <1>4, <1>5, ProcessTypes, ProcessDurable,
     ProcessCommits, PTL DEF LifecycleSpec
-----------------------------------------------------------------------------
(***************************************************************************)
(* What the consumer commits.  While nobody stops it, everything between   *)
(* the committed offset and the Reader's position is in the table, but for *)
(* the message in hand; the message in hand is the last one fetched; and a *)
(* process begins and ends with nothing fetched that is not committed.     *)
(***************************************************************************)
FetchedStored ==
    \A p \in Partitions : \A i \in committed[p] + 1 .. position[p] :
        topic[p][i] \in stored \cup {Malformed} \/ InHandNow(p, i)

LastFetched == consumer # Nil => consumer.off = position[consumer.part]

LagInv ==
    /\ app \in {"building", "exited"} => position = committed /\ consumer = Nil
    /\ app = "building" => comp["consumer"] \in {"none", "built"}
    /\ LastFetched
    /\ ~ConsumerCancelled => FetchedStored

(* Logs and table may grow. *)
LEMMA FetchedFrame ==
    ASSUME TypeInv, FetchedStored, Growing,
           UNCHANGED <<position, committed, consumer>>
    PROVE  FetchedStored'
<1> SUFFICES ASSUME NEW p \in Partitions,
                    NEW i \in committed[p] + 1 .. position[p]
             PROVE  topic'[p][i] \in stored' \cup {Malformed} \/ InHandNow(p, i)'
  BY DEF FetchedStored
<1>1. i \in 1 .. Len(topic[p])
  <2>1. /\ committed[p] \in Nat /\ position[p] \in Nat
        /\ position[p] <= Len(topic[p])
    BY DEF TypeInv, PipeTypes
  <2>2. Len(topic[p]) \in Nat
    BY LogLengths DEF TypeInv, PipeTypes
  <2> QED
    BY <2>1, <2>2
<1>2. topic[p][i] \in stored \cup {Malformed} \/ InHandNow(p, i)
  BY DEF FetchedStored
<1> QED
  BY <1>1, <1>2 DEF Growing, InHandNow

LEMMA FetchKeepsLag ==
    ASSUME TypeInv, LastFetched, FetchMessage
    PROVE  LastFetched' /\ (FetchedStored => FetchedStored')
<1>1. PICK p \in Partitions :
          /\ position' = [position EXCEPT ![p] = @ + 1]
          /\ consumer' = [call |-> "handle", part |-> p, off |-> position[p] + 1]
  BY DEF FetchMessage
<1>2. consumer = Nil /\ UNCHANGED <<topic, stored, committed>>
  BY DEF FetchMessage, repoVars
<1>3. \A q \in Partitions : position[q] \in Nat /\ committed[q] \in Nat
  BY DEF TypeInv, PipeTypes
<1>4. position'[p] = position[p] + 1
      /\ \A q \in Partitions : q # p => position'[q] = position[q]
  BY <1>1 DEF TypeInv, PipeTypes
<1>5. consumer' \in InHand
  BY <1>1, <1>3 DEF InHand
<1>6. ASSUME FetchedStored, NEW q \in Partitions,
             NEW i \in committed'[q] + 1 .. position'[q]
      PROVE  topic'[q][i] \in stored' \cup {Malformed} \/ InHandNow(q, i)'
  <2>1. CASE i \in committed[q] + 1 .. position[q]
    BY <1>2, <1>6, <2>1 DEF FetchedStored, InHandNow
  <2>2. CASE i \notin committed[q] + 1 .. position[q]
    <3>1. q = p /\ i = position[p] + 1
      BY <1>2, <1>3, <1>4, <2>2
    <3> QED
      BY <1>1, <1>5, <3>1, PipelineAssumption DEF InHandNow
  <2> QED
    BY <2>1, <2>2
<1> QED
  BY <1>1, <1>4, <1>6 DEF LastFetched, FetchedStored

LEMMA HandleKeepsLag ==
    ASSUME TypeInv, LastFetched, Handle,
           Positions \subseteq Int4, "db" \notin Faults
    PROVE  LastFetched' /\ (FetchedStored => FetchedStored')
<1> DEFINE m == topic[consumer.part][consumer.off]
<1>1. consumer \in InHand /\ consumer.off \in 1 .. Len(topic[consumer.part])
  BY DEF Handle, TypeInv, PipeTypes
<1>2. consumer.part \in Partitions /\ consumer # Nil
  BY <1>1 DEF InHand, Handle
<1>3. stored \subseteq stored' /\ m \in stored' \cup {Malformed}
  <2>1. CASE m = Malformed
    BY <2>1 DEF Handle
  <2>2. CASE m # Malformed
    <3>1. PICK failed \in BOOLEAN : Upsert(m, failed)
      BY <2>2 DEF Handle
    <3>2. m \in Session
      BY <1>1, <1>2, <2>2, MessageType DEF TypeInv
    <3> HIDE DEF m
    <3> QED
      BY <3>1, <3>2, UpsertStores, UpsertGrows
  <2> QED
    BY <2>1, <2>2
<1>4. /\ consumer' = [consumer EXCEPT !.call = "commit"]
      /\ UNCHANGED <<topic, position, committed>>
  BY DEF Handle
<1>5. /\ consumer'.call = "commit"
      /\ consumer'.part = consumer.part
      /\ consumer'.off = consumer.off
  BY <1>1, <1>4 DEF InHand
<1>6. ASSUME FetchedStored, NEW p \in Partitions,
             NEW i \in committed[p] + 1 .. position[p]
      PROVE  topic[p][i] \in stored' \cup {Malformed}
  <2>1. CASE InHandNow(p, i)
    BY <1>3, <2>1 DEF InHandNow
  <2>2. CASE topic[p][i] \in stored \cup {Malformed}
    BY <1>3, <2>2
  <2> QED
    BY <1>6, <2>1, <2>2 DEF FetchedStored
<1> QED
  BY <1>2, <1>4, <1>5, <1>6 DEF LastFetched, FetchedStored

LEMMA CommitKeepsLag ==
    ASSUME TypeInv, LastFetched, NEW failed \in BOOLEAN, CommitMessages(failed)
    PROVE  LastFetched' /\ (FetchedStored => FetchedStored')
<1>1. /\ consumer # Nil
      /\ consumer.call = "commit"
      /\ consumer.part \in Partitions
      /\ \/ committed' = [committed EXCEPT ![consumer.part] = consumer.off]
         \/ UNCHANGED committed
      /\ consumer' = Nil
      /\ UNCHANGED <<topic, stored, position>>
  BY DEF CommitMessages, TypeInv, PipeTypes, InHand, repoVars
<1>2. \A p \in Partitions : position[p] \in Nat
  BY DEF TypeInv, PipeTypes
<1>3. ASSUME FetchedStored, NEW p \in Partitions,
             NEW i \in committed'[p] + 1 .. position[p]
      PROVE  topic[p][i] \in stored \cup {Malformed}
  <2>1. committed'[p] = committed[p]
    <3>1. CASE p = consumer.part /\ committed'[p] = consumer.off
      BY <1>1, <1>2, <1>3, <3>1 DEF LastFetched
    <3> QED
      BY <1>1, <3>1 DEF TypeInv, PipeTypes
  <2> QED
    BY <1>1, <1>3, <2>1 DEF FetchedStored, InHandNow
<1> QED
  BY <1>1, <1>3 DEF LastFetched, FetchedStored

(* All the steps of the service, each with the pipeline as it leaves it. *)
LEMMA ServiceKeepsLag ==
    ASSUME TypeInv, LagInv, ServiceStep,
           Positions \subseteq Int4, "db" \notin Faults
    PROVE  LagInv'
<1>1. UNCHANGED lifeVars
  BY DEF ServiceStep, Serve, CancelledCall, Warm, WarmClosed, Send, Consume,
     HandleCancelled, CommitCancelled
<1>2. ASSUME Growing, UNCHANGED <<position, committed, consumer>>
      PROVE  LagInv'
  BY <1>1, <1>2, FetchedFrame
     DEF LagInv, LastFetched, ConsumerCancelled, lifeVars
<1>3. ASSUME NEW r \in Requests, Serve(r) \/ Warm(r)
      PROVE  LagInv'
  <2>1. Arrival(r) \/ RequestStep(r) \/ WarmStep(r)
    BY <1>3 DEF Serve, Warm, WarmStep
  <2>2. UNCHANGED <<position, committed, consumer>>
    BY <2>1 DEF Arrival, Start, Heartbeat, GetCurrentPauseResume, RequestStep,
       RedisGet, Select, Mutate, UpsertSession, CacheSession, PublishHeartbeat,
       Publish, PublishRefused, AwaitPublish, Fallback, WarmStep,
       WarmMarshal, WarmSet, pipeVars
  <2> QED
    BY <1>2, <2>1, <2>2, RequestGrows
<1>4. ASSUME NEW r \in Requests, CancelledCall(r) \/ WarmClosed(r)
      PROVE  LagInv'
  <2>1. UNCHANGED <<position, committed, consumer>>
    BY <1>4 DEF CancelledCall, WarmClosed, pipeVars
  <2>2. Growing
    BY <1>4, CancelledGrows DEF Cancelled
  <2> QED
    BY <1>2, <2>1, <2>2
<1>5. CASE Send
  <2>1. PICK r \in Requests : WriterStep(r)
    BY <1>5 DEF Send
  <2>2. UNCHANGED <<position, committed, consumer>>
    BY <2>1 DEF WriterStep, SendAcked, SendFailed
  <2> QED
    BY <1>2, <2>1, <2>2, WriterGrows
<1>6. app # "exited"
  BY DEF ServiceStep
<1>7. CASE HandleCancelled \/ CommitCancelled
  <2>1. ConsumerCancelled /\ app # "building"
    BY <1>7 DEF HandleCancelled, CommitCancelled, ConsumerCancelled, LagInv
  <2>2. LastFetched'
    <3>1. CASE CommitCancelled
      BY <3>1 DEF CommitCancelled, LastFetched
    <3>2. CASE HandleCancelled
      <4>1. consumer \in InHand /\ consumer # Nil
        BY <3>2 DEF HandleCancelled, TypeInv, PipeTypes
      <4>2. consumer'.part = consumer.part /\ consumer'.off = consumer.off
        BY <3>2, <4>1 DEF HandleCancelled, InHand
      <4> QED
        BY <3>2, <4>1, <4>2 DEF HandleCancelled, LastFetched, LagInv
    <3> QED
      BY <1>7, <3>1, <3>2
  <2> QED
    BY <1>1, <1>6, <2>1, <2>2 DEF LagInv, ConsumerCancelled, lifeVars
<1>8. CASE Consume
  <2>1. app # "building"
    BY <1>8 DEF Consume, ConsumerCancelled, LagInv
  <2>2. LastFetched' /\ (FetchedStored => FetchedStored')
    BY <1>8, FetchKeepsLag, HandleKeepsLag, CommitKeepsLag DEF Consume, LagInv
  <2> QED
    BY <1>1, <1>6, <2>1, <2>2 DEF LagInv, ConsumerCancelled, lifeVars
<1> QED
  BY <1>3, <1>4, <1>5, <1>7, <1>8 DEF ServiceStep

LEMMA FxKeepsLag ==
    ASSUME TypeInv, LifeInv, LagInv, FxStep
    PROVE  LagInv'
<1>1. ASSUME UNCHANGED <<topic, stored, position, committed, consumer>>
      PROVE  /\ LastFetched' = LastFetched
             /\ FetchedStored' = FetchedStored
  BY <1>1 DEF LastFetched, FetchedStored, InHandNow
<1>2. "consumer" \in Names
  BY ComponentFacts
<1>3. ASSUME UNCHANGED vars
      PROVE  UNCHANGED <<topic, stored, position, committed, consumer>>
  BY <1>3 DEF vars, repoVars, pipeVars
<1>4. ASSUME NEW c \in 1 .. Last, Build(c)
      PROVE  LagInv'
  <2>1. /\ app = "building"
        /\ Move(c, "none", "built")
        /\ app' \in {"building", "starting"}
        /\ UNCHANGED <<topic, stored, position, committed, consumer>>
    BY <1>3, <1>4 DEF Build
  <2>2. comp'["consumer"] \in {"none", "built"}
    BY <1>2, <2>1 DEF Move, LagInv, LifeInv
  <2> QED
    BY <1>1, <2>1, <2>2 DEF LagInv, ConsumerCancelled
<1>5. ASSUME NEW c \in 1 .. Last,
             StartHook(c) \/ BeginStop(c) \/ EndStop(c)
      PROVE  LagInv'
  <2>1. /\ \/ Move(c, "built", "started")
           \/ Move(c, "started", "closing")
           \/ Move(c, "closing", "closed")
        /\ app' \notin {"building", "exited"}
        /\ UNCHANGED <<topic, stored, position, committed, consumer>>
    BY <1>3, <1>5 DEF StartHook, BeginStop, EndStop
  <2>2. ConsumerCancelled => ConsumerCancelled'
    BY <1>2, <2>1 DEF Move, ConsumerCancelled, LifeInv
  <2> QED
    BY <1>1, <2>1, <2>2 DEF LagInv
<1>6. ASSUME NEW c \in 1 .. Last,
             Up(c) \/ InvokeFails(c) \/ PingFails(c) \/ ListenFails(c)
      PROVE  LagInv'
  <2>1. /\ UNCHANGED comp
        /\ UNCHANGED <<topic, stored, position, committed, consumer>>
        /\ \/ app = "building" /\ app' \in {"building", "exited"}
           \/ app' = "stopping"
    BY <1>3, <1>6 DEF Up, InvokeFails, PingFails, BuildFails, ListenFails
  <2> QED
    BY <1>1, <2>1 DEF LagInv, ConsumerCancelled
<1>7. CASE Signal
  <2>1. /\ UNCHANGED comp
        /\ UNCHANGED <<topic, stored, position, committed, consumer>>
        /\ app' = "stopping"
    BY <1>3, <1>7 DEF Signal
  <2> QED
    BY <1>1, <2>1 DEF LagInv, ConsumerCancelled
<1>8. CASE Exit \/ StopTimeout
  <2>1. /\ position' = committed /\ committed' = committed
        /\ consumer' = Nil
        /\ app' = "exited"
    BY <1>8 DEF Exit, StopTimeout, Die, PipeCrash
  <2>2. \A p \in Partitions : committed[p] \in Nat
    BY DEF TypeInv, PipeTypes
  <2> QED
    BY <2>1, <2>2 DEF LagInv, LastFetched, FetchedStored
<1>9. CASE Restart
  <2>1. /\ position' = committed' /\ consumer' = Nil
        /\ app' = "building"
        /\ comp'["consumer"] = "none"
        /\ UNCHANGED committed
    BY <1>2, <1>9 DEF Restart, pipeVars, LagInv
  <2>2. \A p \in Partitions : committed[p] \in Nat
    BY DEF TypeInv, PipeTypes
  <2> QED
    BY <2>1, <2>2 DEF LagInv, LastFetched, FetchedStored
<1> QED
  BY <1>4, <1>5, <1>6, <1>7, <1>8, <1>9 DEF FxStep

LEMMA LagInvStep ==
    ASSUME TypeInv, LifeInv, LagInv, [LifecycleNext]_lvars,
           Positions \subseteq Int4, "db" \notin Faults
    PROVE  LagInv'
<1>1. CASE UNCHANGED lvars
  BY <1>1 DEF lvars, lifeVars, vars, repoVars, pipeVars, LagInv, LastFetched,
     FetchedStored, InHandNow, ConsumerCancelled
<1> QED
  BY <1>1, ServiceKeepsLag, FxKeepsLag DEF LifecycleNext

(* Only Run moves a committed offset. *)
LEMMA OnlyCommitsMove ==
    ASSUME [LifecycleNext]_lvars
    PROVE  \/ UNCHANGED committed
           \/ /\ comp["consumer"] # "closed"
              /\ \E failed \in BOOLEAN : CommitMessages(failed)
<1>1. ASSUME NEW r \in Requests,
             Serve(r) \/ CancelledCall(r) \/ Warm(r) \/ WarmClosed(r)
      PROVE  UNCHANGED committed
  BY <1>1 DEF Serve, Arrival, Start, Heartbeat, GetCurrentPauseResume,
     RequestStep, RedisGet, Select, Mutate, UpsertSession, CacheSession,
     PublishHeartbeat, Publish, PublishRefused, AwaitPublish, Fallback,
     CancelledCall, Warm,
     WarmMarshal, WarmSet, WarmClosed, pipeVars
<1>2. CASE Send \/ HandleCancelled \/ CommitCancelled
  BY <1>2 DEF Send, WriterStep, SendAcked, SendFailed, HandleCancelled,
     CommitCancelled
<1>3. CASE Consume
  BY <1>3 DEF Consume, FetchMessage, Handle
<1>4. CASE FxStep
  <2>1. ASSUME NEW c \in 1 .. Last,
               \/ Up(c) \/ Build(c) \/ InvokeFails(c) \/ PingFails(c)
               \/ StartHook(c) \/ ListenFails(c) \/ BeginStop(c) \/ EndStop(c)
        PROVE  UNCHANGED vars
    BY <2>1 DEF Up, Build, InvokeFails, PingFails, BuildFails, StartHook,
                ListenFails, BeginStop, EndStop
  <2> QED
    BY <1>4, <2>1 DEF FxStep, Signal, Exit, StopTimeout, Die, PipeCrash, Restart,
       vars, pipeVars
<1>5. CASE UNCHANGED lvars
  BY <1>5 DEF lvars, vars, pipeVars
<1> QED
  BY <1>1, <1>2, <1>3, <1>4, <1>5 DEF LifecycleNext, ServiceStep

(* What LossOnlyByStop says of a step. *)
LEMMA StepLosesOnlyByStop ==
    ASSUME TypeInv, LagInv, [LifecycleNext]_lvars
    PROVE  \A p \in Partitions : \A i \in committed[p] + 1 .. committed'[p] :
               \/ topic[p][i] \in stored \cup {Malformed}
               \/ comp["consumer"] = "closing"
<1> SUFFICES ASSUME NEW p \in Partitions,
                    NEW i \in committed[p] + 1 .. committed'[p],
                    comp["consumer"] # "closing"
             PROVE  topic[p][i] \in stored \cup {Malformed}
  OBVIOUS
<1>1. committed[p] \in Nat /\ position[p] \in Nat
  BY DEF TypeInv, PipeTypes
<1>2. CASE UNCHANGED committed
  BY <1>1, <1>2
<1>3. CASE /\ comp["consumer"] # "closed"
           /\ \E failed \in BOOLEAN : CommitMessages(failed)
  <2>1. /\ consumer # Nil
        /\ consumer.call = "commit"
        /\ \/ committed' = [committed EXCEPT ![consumer.part] = consumer.off]
           \/ UNCHANGED committed
    BY <1>3 DEF CommitMessages
  <2>2. committed'[p] = committed[p] \/ committed'[p] = position[p]
    BY <2>1 DEF LagInv, LastFetched, TypeInv, PipeTypes
  <2>3. i \in committed[p] + 1 .. position[p]
    BY <1>1, <2>2
  <2>4. FetchedStored
    BY <1>3 DEF LagInv, ConsumerCancelled
  <2> QED
    BY <2>1, <2>3, <2>4 DEF FetchedStored, InHandNow
<1> QED
  BY <1>2, <1>3, OnlyCommitsMove

(***************************************************************************)
(* Where the table takes every row, a heartbeat is lost by one thing only: *)
(* a commit that got through while the consumer was being stopped, after a *)
(* handler whose Upsert the stop had cancelled.  Run calls CommitMessages  *)
(* after every handler, also after one that failed (consumer.go).          *)
(***************************************************************************)
THEOREM OnlyStopsLoseHeartbeats ==
    ASSUME Positions \subseteq Int4, "db" \notin Faults
    PROVE  LifecycleSpec => LossOnlyByStop
<1>1. LifecycleInit => LagInv
  <2> SUFFICES ASSUME LifecycleInit
               PROVE  LagInv
    OBVIOUS
  <2>1. /\ position = committed /\ consumer = Nil
        /\ committed = [p \in Partitions |-> 0]
        /\ comp["consumer"] = "none"
    BY ComponentFacts DEF LifecycleInit, Init, PipeInit
  <2> QED
    BY <2>1 DEF LagInv, LastFetched, FetchedStored
<1>2. TypeInv /\ LifeInv /\ LagInv /\ [LifecycleNext]_lvars => LagInv'
  BY LagInvStep
<1>3. TypeInv /\ LagInv /\ [LifecycleNext]_lvars =>
        \A p \in Partitions : \A i \in committed[p] + 1 .. committed'[p] :
            \/ topic[p][i] \in stored \cup {Malformed}
            \/ comp["consumer"] = "closing"
  BY StepLosesOnlyByStop
<1>4. LifecycleSpec => []LifeInv
  BY LifeInvInit, LifeInvStep, PTL DEF LifecycleSpec
<1> QED
  BY <1>1, <1>2, <1>3, <1>4, ProcessTypes, PTL DEF LifecycleSpec, LossOnlyByStop
=============================================================================
