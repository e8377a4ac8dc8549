---------------------------- MODULE AtLeastOnce ----------------------------
(***************************************************************************)
(* What the heartbeat consumer promises, without fetches, retries, commits *)
(* that fail, rebalances and crashes: the messages of a log that only      *)
(* grows are delivered in any order and as often as one likes, and a       *)
(* prefix of a partition is released - never to be asked for again - only  *)
(* when each of its messages has been delivered.  A prefix may be taken    *)
(* back: the group may return to an earlier offset.                        *)
(***************************************************************************)
EXTENDS Naturals, Sequences

CONSTANT Partitions

VARIABLES
    log,         \* log[p]: the messages published to partition p
    delivered,   \* the pairs <<p, i>> handed to the handler
    released     \* released[p]: how long the released prefix of p is

queue == <<log, delivered, released>>

Init ==
    /\ DOMAIN log = Partitions
    /\ delivered = {}
    /\ released = [p \in Partitions |-> 0]

(* Messages are added at the end of a partition and never change. *)
Publish ==
    /\ DOMAIN log' = Partitions
    /\ \A p \in Partitions :
          /\ Len(log[p]) <= Len(log'[p])
          /\ \A i \in 1 .. Len(log[p]) : log'[p][i] = log[p][i]
    /\ UNCHANGED <<delivered, released>>

Deliver(p) ==
    /\ \E i \in 1 .. Len(log[p]) : delivered' = delivered \cup {<<p, i>>}
    /\ UNCHANGED <<log, released>>

Release(p) ==
    /\ \E n \in 0 .. Len(log[p]) :
          /\ \A i \in 1 .. n : <<p, i>> \in delivered
          /\ released' = [released EXCEPT ![p] = n]
    /\ UNCHANGED <<log, delivered>>

Next ==
    \/ Publish
    \/ \E p \in Partitions : Deliver(p) \/ Release(p)

Spec == Init /\ [][Next]_queue
=============================================================================
