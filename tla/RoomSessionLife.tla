--------------------------- MODULE RoomSessionLife ---------------------------
(***************************************************************************)
(* One room session driven through its whole life by the calls the hub     *)
(* makes, against a clock.  Any call may come at any time; what the hub    *)
(* allows of it is narrower (GameHub).                                     *)
(***************************************************************************)
EXTENDS RoomSession

CONSTANT MaxClock  \* bound of the clock, in milliseconds of the model

ASSUME ClockAssumption == MaxClock \in Nat

VARIABLES
  session,    \* the RoomSession object
  now,        \* Date.now(), as the caller passes it in
  lostAt,     \* history: when each missing side was lost
  before,     \* history: the last state that was neither reconnecting nor finished
  forfeit     \* history: the side that lost by expiry, or NoSide

vars == <<session, now, lostAt, before, forfeit>>

NotLost == -1

TypeOK ==
  /\ session \in Session
  /\ now \in 0..MaxClock
  /\ lostAt \in [Sides -> Nat \cup {NotLost}]
  /\ before \in ResumableStates
  /\ forfeit \in Sides \cup {NoSide}

Init ==
  /\ session = NewSession
  /\ now = 0
  /\ lostAt = [side \in Sides |-> NotLost]
  /\ before = "waiting"
  /\ forfeit = NoSide

\* What is remembered of the state a step leads to.
Remember == before' = IF session'.state \in ResumableStates THEN session'.state ELSE before

-----------------------------------------------------------------------------
MarkReady(side) ==
  /\ session' = markReady(session, side)
  /\ Remember
  /\ UNCHANGED <<now, lostAt, forfeit>>

Pause ==
  /\ session' = pause(session)
  /\ Remember
  /\ UNCHANGED <<now, lostAt, forfeit>>

Resume ==
  /\ session' = resume(session)
  /\ Remember
  /\ UNCHANGED <<now, lostAt, forfeit>>

Disconnect(side) ==
  /\ session' = disconnect(session, side, now)
  /\ lostAt' = IF session.state = "finished" THEN lostAt
               ELSE [lostAt EXCEPT ![side] = now]
  /\ Remember
  /\ UNCHANGED <<now, forfeit>>

Reconnect(side) ==
  /\ session' = reconnect(session, side, now)
  /\ lostAt' = IF reconnects(session, side, now)
               THEN [lostAt EXCEPT ![side] = NotLost] ELSE lostAt
  /\ Remember
  /\ UNCHANGED <<now, forfeit>>

ExpireReconnect ==
  /\ session' = expireReconnect(session, now)
  /\ forfeit' = IF expires(session, now) THEN forfeitingSide(session) ELSE forfeit
  /\ Remember
  /\ UNCHANGED <<now, lostAt>>

Finish ==
  /\ session' = finish(session)
  /\ Remember
  /\ UNCHANGED <<now, lostAt, forfeit>>

Elapse ==
  /\ now < MaxClock
  /\ now' = now + 1
  /\ UNCHANGED <<session, lostAt, before, forfeit>>

Next ==
  \/ \E side \in Sides : MarkReady(side) \/ Disconnect(side) \/ Reconnect(side)
  \/ Pause
  \/ Resume
  \/ ExpireReconnect
  \/ Finish
  \/ Elapse

Spec == Init /\ [][Next]_vars

-----------------------------------------------------------------------------
(* Properties.                                                             *)

\* The three ways the class has of saying "somebody is missing" agree: the
\* state, the set of missing sides and the deadline (roomSession.ts:63-94).
\* A session stuck in "reconnecting" with nobody missing could never leave it.
MissingAgrees ==
  /\ session.state = "reconnecting" <=> session.disconnected # {}
  /\ session.state = "reconnecting" <=> session.deadline # NoDeadline

\* A match is played, paused, or waited for in order to be taken up again,
\* only after both sides said they are ready (roomSession.ts:46-51).
PlayedOnlyWhenReady ==
  \/ session.state \in {"playing", "paused"}
  \/ session.state = "reconnecting" /\ session.resumeState \in {"playing", "paused"}
  => session.ready = Sides

\* The session's state tells the truth: who is missing and since when it waits,
\* and that both sides agreed to play, in whatever order readiness, pauses,
\* losses and returns come (roomSession.ts:46-94).
SessionAgrees == MissingAgrees /\ PlayedOnlyWhenReady

\* Whoever forfeits had the full window since the moment it was lost, although
\* one deadline serves both sides and is moved by every loss
\* (roomSession.ts:63-76, 96-119).
ForfeitAfterFullWindow ==
  forfeit # NoSide =>
    /\ lostAt[forfeit] # NotLost
    /\ now >= lostAt[forfeit] + RECONNECT_WINDOW_MS

\* Whoever wins by forfeit is there: nobody wins a match both sides have left
\* (roomSession.ts:105-118).
ForfeitWinnerIsPresent ==
  forfeit # NoSide => lostAt[opposite(forfeit)] = NotLost

\* A forfeit is fair: against the side that had its whole window, for one that
\* is there (roomSession.ts:63-118).
ForfeitIsFair == ForfeitAfterFullWindow /\ ForfeitWinnerIsPresent

\* When the last missing player is back the match goes on in the state in
\* which the first one was lost (roomSession.ts:65-71, 88-92).
ReturnsToStateBefore ==
  [][session.state = "reconnecting" /\ session'.state \in ResumableStates
       => session'.state = before]_vars

\* What the other invariants rest on: the remembered state is the one to
\* resume, the history of losses is the set of missing sides and lies in the
\* past, and the deadline is a full window after every loss still open.
HistoryAgrees ==
  /\ \A side \in Sides : lostAt[side] <= now
  /\ session.state \in ResumableStates => before = session.state
  /\ session.state = "reconnecting" => before = session.resumeState
  /\ session.state # "finished" =>
       /\ forfeit = NoSide
       /\ \A side \in Sides :
            /\ side \in session.disconnected <=> lostAt[side] # NotLost
            /\ side \in session.disconnected =>
                 lostAt[side] + RECONNECT_WINDOW_MS <= session.deadline

\* A finished session stays finished, whatever is called on it afterwards.
FinishedIsFinal == [][session.state = "finished" => session'.state = "finished"]_vars
=============================================================================
