------------------------------- MODULE Heartbeat -------------------------------
(***************************************************************************)
(* The heartbeat of one connection (apps/api/src/game/heartbeat.ts) and    *)
(* the life the hub gives it: started when the connection is registered,   *)
(* stopped when it is replaced, revoked or closed (gameHub.ts).  The peer  *)
(* may fall silent without closing, pongs may be slow or arrive after the  *)
(* connection was replaced.  Timers are punctual: time does not pass while *)
(* one is due.                                                             *)
(***************************************************************************)
EXTENDS Integers

CONSTANTS
  HEARTBEAT_PING_INTERVAL_MS,
  HEARTBEAT_TIMEOUT_MS,
  MaxPongs,         \* bound of the pongs on their way
  MaxBeatClock      \* bound of the clock

ASSUME BeatAssumption ==
  /\ HEARTBEAT_PING_INTERVAL_MS \in Nat \ {0}
  /\ HEARTBEAT_TIMEOUT_MS \in Nat \ {0}
  /\ MaxPongs \in Nat
  /\ MaxBeatClock \in Nat

VARIABLES
  pingAt,       \* when pingTimer fires next, or Off
  timeoutAt,    \* when timeoutTimer fires, or Off
  beatClock,    \* the time
  place,        \* "new", "registered", "ended" (its socket is, before the hub
                \* heard of it), "replaced" or "gone": the hub's view
  peerAlive,    \* whether the peer still answers
  pongs,        \* pongs on their way to the server
  heardAt,      \* history: the start or the last pong the heartbeat was told of
  cut           \* history: whether the heartbeat terminated the socket, and why

beatVars == <<pingAt, timeoutAt, beatClock, place, peerAlive, pongs, heardAt, cut>>

Off == -1
Due(timer) == timer # Off /\ timer <= beatClock
Beating    == pingAt # Off \/ timeoutAt # Off

BeatInit ==
  /\ pingAt = Off /\ timeoutAt = Off
  /\ beatClock = 0
  /\ place = "new"
  /\ peerAlive = TRUE
  /\ pongs = 0
  /\ heardAt = 0
  /\ cut = "no"

-----------------------------------------------------------------------------
armTimeout == timeoutAt' = beatClock + HEARTBEAT_TIMEOUT_MS

stopTimers == pingAt' = Off /\ timeoutAt' = Off

\* The hub registers the connection and starts its heartbeat.
Start ==
  /\ place = "new" /\ ~Beating
  /\ place' = "registered"
  /\ armTimeout
  /\ pingAt' = beatClock + HEARTBEAT_PING_INTERVAL_MS
  /\ heardAt' = beatClock
  /\ UNCHANGED <<beatClock, peerAlive, pongs, cut>>

\* A connection whose socket is no longer open when it is registered gets no
\* heartbeat; only its close event is left to come.
StartSkipped ==
  /\ place = "new"
  /\ place' = "ended"
  /\ UNCHANGED <<pingAt, timeoutAt, beatClock, peerAlive, pongs, heardAt, cut>>

\* terminate: the socket is destroyed; its close event reaches the hub as
\* CloseEvent.
terminateSilent(why) ==
  /\ stopTimers
  /\ cut' = why
  /\ UNCHANGED <<beatClock, place, peerAlive, pongs, heardAt>>

Ping ==
  /\ Due(pingAt)
  /\ \/ /\ pingAt' = pingAt + HEARTBEAT_PING_INTERVAL_MS
        /\ pongs' = IF peerAlive /\ pongs < MaxPongs THEN pongs + 1 ELSE pongs
        /\ UNCHANGED <<timeoutAt, beatClock, place, peerAlive, heardAt, cut>>
     \/ terminateSilent("ping failed")

TimeoutFires ==
  /\ Due(timeoutAt)
  /\ terminateSilent("timeout")

MutAcknowledge ==
  /\ armTimeout
  /\ heardAt' = beatClock

\* A pong after stop must not start a timer again.
acknowledge ==
  IF Beating THEN armTimeout /\ heardAt' = beatClock
  ELSE UNCHANGED <<timeoutAt, heardAt>>

Pong ==
  /\ pongs > 0
  /\ pongs' = pongs - 1
  /\ acknowledge
  /\ UNCHANGED <<pingAt, beatClock, place, peerAlive, cut>>

\* replaceConnection and revokeUser: the connection loses its place at once,
\* its socket closes later.
LosePlace ==
  /\ place \in {"registered", "ended"}
  /\ stopTimers
  /\ place' = "replaced"
  /\ UNCHANGED <<beatClock, peerAlive, pongs, heardAt, cut>>

\* disconnect: nothing is done for a connection that has no place any more.
CloseEvent ==
  /\ place \in {"registered", "ended", "replaced"}
  /\ place' = "gone"
  /\ pongs' = 0
  /\ IF place # "replaced" THEN stopTimers ELSE UNCHANGED <<pingAt, timeoutAt>>
  /\ UNCHANGED <<beatClock, peerAlive, heardAt, cut>>

PeerFallsSilent ==
  /\ peerAlive
  /\ peerAlive' = FALSE
  /\ UNCHANGED <<pingAt, timeoutAt, beatClock, place, pongs, heardAt, cut>>

ElapseBeat ==
  /\ beatClock < MaxBeatClock
  /\ ~Due(pingAt) /\ ~Due(timeoutAt)
  /\ beatClock' = beatClock + 1
  /\ UNCHANGED <<pingAt, timeoutAt, place, peerAlive, pongs, heardAt, cut>>

BeatNext ==
  \/ Start \/ StartSkipped \/ Ping \/ TimeoutFires \/ Pong
  \/ LosePlace \/ CloseEvent \/ PeerFallsSilent
  \/ ElapseBeat

BeatSpec == BeatInit /\ [][BeatNext]_beatVars

-----------------------------------------------------------------------------
(* Properties.                                                             *)

BeatTypeOK ==
  /\ pingAt \in Nat \cup {Off} /\ timeoutAt \in Nat \cup {Off}
  /\ beatClock \in 0..MaxBeatClock
  /\ place \in {"new", "registered", "ended", "replaced", "gone"}
  /\ peerAlive \in BOOLEAN
  /\ pongs \in 0..MaxPongs
  /\ heardAt \in 0..MaxBeatClock
  /\ cut \in {"no", "ping failed", "timeout"}

\* A connection that has its place and was not cut off was heard of within
\* the timeout ...
SilentAreNoticed ==
  place = "registered" /\ cut = "no" => beatClock <= heardAt + HEARTBEAT_TIMEOUT_MS

\* ... one cut off by the timeout was silent all that time ...
HeardAreSpared == cut = "timeout" => beatClock >= heardAt + HEARTBEAT_TIMEOUT_MS

\* ... and no timer runs for a connection that lost its place, whatever pongs
\* still arrive.
TimersEndWithPlace == Beating => place = "registered" /\ cut = "no"

\* The heartbeat ends the connections that are silent, no others, and ends
\* with the connection (heartbeat.ts:24-62; gameHub.ts:232-234, 341-388).
OnlyTheSilentAreCut == SilentAreNoticed /\ HeardAreSpared /\ TimersEndWithPlace
=============================================================================
