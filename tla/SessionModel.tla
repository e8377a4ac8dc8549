---------------------------- MODULE SessionModel ----------------------------
(***************************************************************************)
(* The data of internal/session/model.go, and the parameters every module  *)
(* of this development shares.                                             *)
(*                                                                         *)
(* Tracks, devices and users are opaque names.  A position is a number,    *)
(* because its range matters: the Go field is a 64-bit int, the column     *)
(* playback_sessions.position is a 32-bit INTEGER, so there are positions  *)
(* the service accepts, caches and publishes but the table refuses.        *)
(*                                                                         *)
(* A time stamp (UpdatedAt) is a tick of one clock.  Two calls of time.Now *)
(* read different ticks; a tick is no finer than the microsecond the       *)
(* column updated_at keeps, so a stamp survives the table unchanged.       *)
(***************************************************************************)
EXTENDS Integers, Sequences, FiniteSets

CONSTANTS
    Users,       \* values of the X-User-ID header
    Tracks,
    Devices,
    Positions,   \* values of position_sec
    Int4,        \* the positions that the INTEGER column can store
    Bodies,      \* the track/position/device triples that clients send
    Torn,        \* a string read while another goroutine assigns it
    Nil,         \* absence: no row, no cache entry, no message, ...
    Faults       \* the failures of the environment that may happen

(***************************************************************************)
(* The failures, each of which a configuration may switch on:              *)
(*   redis      a Redis command fails, or a Redis entry does not parse     *)
(*   expiry     a cache entry disappears: its 24 h TTL runs out, Redis     *)
(*              evicts it or restarts empty                                *)
(*   db         a PostgreSQL statement fails without effect                *)
(*   dbReply    a PostgreSQL statement takes effect, its reply is lost     *)
(*   kafka      a produce request fails, with or without effect, or the    *)
(*              Writer refuses a message before it sends it                *)
(*   commit     a commit request of the consumer group fails               *)
(*   rebalance  the consumer group starts a new generation                 *)
(*   malformed  a partition starts with a message that is no heartbeat     *)
(*   crash      the process dies and is started again                      *)
(*   startup    a component cannot be built or started                     *)
(***************************************************************************)
AllFaults == {"redis", "expiry", "db", "dbReply", "kafka", "commit",
              "rebalance", "malformed", "crash", "startup"}

StatusPlaying == "playing"
StatusPaused  == "paused"
Status == {StatusPlaying, StatusPaused}

Body == [track : Tracks, pos : Positions, device : Devices]

(* PlaybackSession, as every code path but one builds and stores it. *)
Session == [user : Users, track : Tracks, pos : Positions,
            status : Status, device : Devices, at : Nat]

(***************************************************************************)
(* PlaybackSession, as a goroutine may read it that races with a goroutine *)
(* assigning Status, DeviceID and UpdatedAt.  A Go string is a pointer and *)
(* a length, two words: a racing read may pair the pointer of one value    *)
(* with the length of another, which is Torn.  A racing read of the three  *)
(* words of a time.Time may yield a date long past, which is tick 0.       *)
(***************************************************************************)
RacedSession == [user : Users, track : Tracks, pos : Positions,
                 status : Status \cup {Torn}, device : Devices \cup {Torn},
                 at : Nat]

(* What a racing read may make of a string being changed from x to y. *)
MixedString(x, y) == IF x = y THEN {x} ELSE {x, y, Torn}

(***************************************************************************)
(* Every value json.Marshal may see of a session that is being changed     *)
(* from old to new.  UserID, TrackID and Position are not assigned.        *)
(***************************************************************************)
RacedReads(old, new) ==
    {[old EXCEPT !.status = st, !.device = d, !.at = a] :
        st \in MixedString(old.status, new.status),
        d \in MixedString(old.device, new.device),
        a \in {old.at, new.at, 0}}

(* Two sessions that show the same user the same place in the same track. *)
SamePlace(s, t) == s.user = t.user /\ s.track = t.track /\ s.pos = t.pos

ASSUME ModelAssumption ==
    /\ Positions \subseteq Int
    /\ Int4 \subseteq Int
    /\ Bodies \subseteq Body
    /\ Faults \subseteq AllFaults
    /\ Nil \notin RacedSession
=============================================================================
