----------------------------- MODULE Freshness -----------------------------
(***************************************************************************)
(* How far "GetCurrent returns the most recent session state"              *)
(* (service.go:56) holds.  StaleWarm shows that it does not hold for ever  *)
(* and for everybody: after a miss, or a failure of Redis, the cache entry *)
(* of a user may be behind what the user has been told is written.  This   *)
(* module adds to PlaybackService a history of the users of whom that may  *)
(* be so: the ones to whom something happened that the code has no answer  *)
(* to, until one of their requests, alone, has put its session into the    *)
(* cache.  Everybody else reads the most recent state - whatever the table *)
(* holds, however far the consumer is behind, and whatever fails for the   *)
(* other users.                                                            *)
(***************************************************************************)
EXTENDS PlaybackService

VARIABLE doubt    \* history: the users whose entry may be behind

fvars == <<vars, doubt>>

OfUser(r, u) == call[r] # Nil /\ call[r].user = u

(* The entry of u is gone: its 24 h are over, or Redis has dropped it. *)
EntryDropped(u) == cache[u] # Nil /\ cache'[u] = Nil

(* A Get goes on to the table although there is an entry. *)
GetFailed(u) ==
    /\ cache[u] # Nil
    /\ \E r \in Requests : OfUser(r, u) /\ pc[r] = "get" /\ pc'[r] = "select"

(* A request goes on although its session did not get into the cache. *)
SetCacheFailed(u) ==
    \E r \in Requests : /\ OfUser(r, u)
                        /\ pc[r] = "setcache"
                        /\ pc'[r] \notin {"setcache", "lost"}
                        /\ cache'[u] # sess[r]

(* The first row of u is written by a request that ends before it has      *)
(* written the entry: PostgreSQL's reply is lost, or the process dies.     *)
Stranded(u) ==
    /\ db'[u] # Nil /\ cache'[u] = Nil
    /\ \E r \in Requests : /\ OfUser(r, u)
                           /\ pc[r] \in {"upsert", "setcache"}
                           /\ pc'[r] \in {"done", "lost"}

(* Two devices of u call the service at the same time. *)
Overlapping(u) ==
    \E r, q \in Requests : /\ r # q
                           /\ OfUser(r, u) /\ InFlight(r)
                           /\ OfUser(q, u) /\ InFlight(q)

Disturbed(u) ==
    \/ EntryDropped(u)
    \/ GetFailed(u)
    \/ SetCacheFailed(u)
    \/ Stranded(u)
    \/ Overlapping(u)'

(* A request of u has put its session into the cache, and neither another  *)
(* request nor a warming goroutine of u may overwrite it with an older one.*)
Recovered(u) ==
    \E r \in Requests :
        /\ OfUser(r, u)
        /\ pc[r] = "setcache"
        /\ pc'[r] \notin {"setcache", "lost"}
        /\ cache'[u] = sess[r]
        /\ \A q \in Requests : OfUser(q, u) =>
              /\ warm[q] = Nil
              /\ q # r => ~InFlight(q)
              /\ Acked(q, Writes) => sess[q].at <= sess[r].at

FreshInit == Init /\ doubt = {}

FreshNext ==
    /\ Next
    /\ doubt' = (doubt \cup {u \in Users : Disturbed(u)})
                    \ {u \in Users : Recovered(u)}

FreshSpec == FreshInit /\ [][FreshNext]_fvars
-----------------------------------------------------------------------------
(***************************************************************************)
(* A user of whom nothing is in doubt reads, with GetCurrent, Pause or     *)
(* Resume, what is at least as recent as every session of theirs whose     *)
(* writing has been acknowledged, and is never answered 404 after that.    *)
(* Old heartbeats that the consumer writes over newer rows, statements     *)
(* that fail, lost replies, crashes and restarts cannot be seen through    *)
(* the cache; and what has been seen of a disturbance ends with the next   *)
(* heartbeat, Start, Pause or Resume that runs alone.                      *)
(***************************************************************************)
StaleOnlyInDoubt ==
    [][\A r, q \in Requests :
          /\ pc[r] \in {"get", "select"}
          /\ call[r].user \notin doubt
          /\ Acked(q, Writes)
          /\ call[q].user = call[r].user
          => /\ sess'[r] # Nil => sess'[r].at >= sess[q].at
             /\ code'[r] # 404]_fvars
=============================================================================
