----------------------------- MODULE Repository -----------------------------
(***************************************************************************)
(* internal/session/repository.go: the PostgreSQL table playback_sessions  *)
(* (one row per user) and the Redis keys "session:<user>".                 *)
(*                                                                         *)
(* Each operator below is one round trip to one of the two servers; what   *)
(* callers do between round trips is up to PlaybackService.  Neither       *)
(* Upsert nor SetCache compares time stamps: whoever arrives last wins.    *)
(***************************************************************************)
EXTENDS SessionModel

VARIABLES
    db,       \* db[u]: the row of user u, or Nil
    cache,    \* cache[u]: the Redis entry of user u, or Nil
    stored    \* history: every session ever written to the table

repoVars == <<db, cache, stored>>

RepoInit ==
    /\ db = [u \in Users |-> Nil]
    /\ cache = [u \in Users |-> Nil]
    /\ stored = {}

(* INSERT ... ON CONFLICT (user_id) DO UPDATE: the row becomes s. *)
WriteRow(s) ==
    /\ db' = [db EXCEPT ![s.user] = s]
    /\ stored' = stored \cup {s}

(* The row of s can be encoded for the INTEGER column position. *)
Fits(s) == s.pos \in Int4

(* Upsert(ctx, s) returns an error (failed) or nil (~failed). *)
Upsert(s, failed) ==
    \/ /\ ~failed
       /\ Fits(s)
       /\ WriteRow(s)
    \/ /\ failed
       /\ Fits(s) => "db" \in Faults
       /\ UNCHANGED <<db, stored>>
    \/ /\ failed
       /\ Fits(s)
       /\ "dbReply" \in Faults
       /\ WriteRow(s)

(***************************************************************************)
(* SetCache(ctx, s).  Its callers only log an error, so that the caller    *)
(* goes on in the same way whether the entry was written or not.           *)
(***************************************************************************)
SetCache(s) ==
    \/ cache' = [cache EXCEPT ![s.user] = s]
    \/ /\ "redis" \in Faults
       /\ UNCHANGED cache

(* Get, first part: the Redis entry of user u is found and decoded. *)
CacheHit(u) == cache[u] # Nil

(* Get, first part: miss, undecodable entry or Redis error - on to the DB. *)
CacheMiss(u) == cache[u] = Nil \/ "redis" \in Faults

(* Redis drops the entry of user u. *)
Expire(u) ==
    /\ "expiry" \in Faults
    /\ cache[u] # Nil
    /\ cache' = [cache EXCEPT ![u] = Nil]
    /\ UNCHANGED <<db, stored>>
=============================================================================
