----------------------------- MODULE RoomSession -----------------------------
(***************************************************************************)
(* The session of one match room (apps/api/src/game/roomSession.ts): which *)
(* players are ready, which are missing, and the single state the room is  *)
(* in.  A session is a record and every method of the class is an operator *)
(* from a session to the session the call leaves behind, so that the hub   *)
(* (GameHub) and the stand-alone machine (RoomSessionLife) share them.     *)
(***************************************************************************)
EXTENDS Integers

CONSTANT RECONNECT_WINDOW_MS  \* how long the seat of a lost player is kept

ASSUME WindowAssumption == RECONNECT_WINDOW_MS \in Nat \ {0}

Sides == {"left", "right"}
NoSide == "none"

\* The states a lost player can be taken back into.
ResumableStates == {"waiting", "playing", "paused"}
SessionStates == ResumableStates \cup {"reconnecting", "finished"}

\* reconnectDeadlineMs = null.
NoDeadline == -1

Session == [state        : SessionStates,
            resumeState  : ResumableStates,
            ready        : SUBSET Sides,
            disconnected : SUBSET Sides,
            deadline     : Nat \cup {NoDeadline}]

NewSession == [state        |-> "waiting",
               resumeState  |-> "waiting",
               ready        |-> {},
               disconnected |-> {},
               deadline     |-> NoDeadline]

opposite(side) == IF side = "left" THEN "right" ELSE "left"

-----------------------------------------------------------------------------
(* Before the match and during it.  (Here and below, an operator Mut... is *)
(* a plausible slip in the method after it, put in its place to see that   *)
(* the properties notice.)                                                 *)

markReady(s, side) ==
  IF s.state # "waiting" THEN s
  ELSE LET ready == s.ready \cup {side}
       IN [s EXCEPT !.ready = ready,
                    !.state = IF ready = Sides THEN "playing" ELSE "waiting"]

pause(s)  == IF s.state = "playing" THEN [s EXCEPT !.state = "paused"] ELSE s

resume(s) == IF s.state = "paused" THEN [s EXCEPT !.state = "playing"] ELSE s

-----------------------------------------------------------------------------
(* Losing players and taking them back.                                    *)

MutDisconnect(s, side, nowMs) ==
  IF s.state = "finished" THEN s
  ELSE [s EXCEPT !.resumeState  = IF s.state = "reconnecting" THEN "paused" ELSE s.state,
                 !.disconnected = @ \cup {side},
                 !.deadline     = nowMs + RECONNECT_WINDOW_MS,
                 !.state        = "reconnecting"]

\* A second loss keeps resumeState and starts the window of both anew.
disconnect(s, side, nowMs) ==
  IF s.state = "finished" THEN s
  ELSE [s EXCEPT !.resumeState  = IF s.state = "reconnecting" THEN @ ELSE s.state,
                 !.disconnected = @ \cup {side},
                 !.deadline     = nowMs + RECONNECT_WINDOW_MS,
                 !.state        = "reconnecting"]

\* The result of reconnect: whether the player is taken back.
reconnects(s, side, nowMs) ==
  /\ s.state = "reconnecting"
  /\ s.deadline # NoDeadline
  /\ nowMs <= s.deadline
  /\ side \in s.disconnected

MutReconnect(s, side, nowMs) ==
  IF ~reconnects(s, side, nowMs) THEN s
  ELSE [s EXCEPT !.disconnected = @ \ {side},
                 !.state        = s.resumeState,
                 !.deadline     = NoDeadline]

reconnect(s, side, nowMs) ==
  LET missing == s.disconnected \ {side}
      back    == [s EXCEPT !.disconnected = missing]
  IN CASE ~reconnects(s, side, nowMs) -> s
       [] reconnects(s, side, nowMs) /\ missing # {} -> back
       [] OTHER -> [back EXCEPT !.state = s.resumeState, !.deadline = NoDeadline]

finish(s) == [s EXCEPT !.state = "finished", !.disconnected = {}, !.deadline = NoDeadline]

MutExpires(s, nowMs) ==
  /\ s.state = "reconnecting"
  /\ s.deadline # NoDeadline
  /\ nowMs + 1 >= s.deadline

\* The guard of expireReconnect: FALSE is its null result.
expires(s, nowMs) ==
  /\ s.state = "reconnecting"
  /\ s.deadline # NoDeadline
  /\ nowMs >= s.deadline

MutForfeitingSide(s) ==
  IF s.disconnected = {} THEN NoSide ELSE CHOOSE side \in s.disconnected : TRUE

\* Somebody loses by forfeit only when exactly one side is missing.
forfeitingSide(s) ==
  IF \E side \in Sides : s.disconnected = {side}
  THEN CHOOSE side \in Sides : s.disconnected = {side}
  ELSE NoSide

winnerSide(s) == IF forfeitingSide(s) = NoSide THEN NoSide ELSE opposite(forfeitingSide(s))

expireReconnect(s, nowMs) == IF expires(s, nowMs) THEN finish(s) ELSE s
=============================================================================
