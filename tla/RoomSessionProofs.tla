-------------------------- MODULE RoomSessionProofs --------------------------
(***************************************************************************)
(* What RoomSessionLife promises for every window and every clock bound.   *)
(* HistoryAgrees is the strengthening: it ties the deadline and the set of *)
(* missing sides to the history the forfeit is judged by.                  *)
(***************************************************************************)
EXTENDS RoomSessionLife, SessionLemmas

IInv ==
  /\ TypeOK
  /\ MissingAgrees
  /\ PlayedOnlyWhenReady
  /\ HistoryAgrees
  /\ ForfeitAfterFullWindow
  /\ ForfeitWinnerIsPresent

LEMMA InitIInv == Init => IInv
BY WindowAssumption, ClockAssumption
   DEF Init, IInv, TypeOK, MissingAgrees, PlayedOnlyWhenReady, HistoryAgrees,
       ForfeitAfterFullWindow, ForfeitWinnerIsPresent, NewSession, Session,
       SessionStates, ResumableStates, Sides, NoSide, NotLost, NoDeadline

\* What markReady, pause and resume have in common: they move between the
\* states a session can be resumed in and lose nobody (roomSession.ts:46-61).
LEMMA PlayStep ==
  ASSUME IInv, session' \in Session, Remember,
         UNCHANGED <<now, lostAt, forfeit>>,
         session.state \in ResumableStates, session'.state \in ResumableStates,
         session'.disconnected = session.disconnected,
         session'.deadline = session.deadline,
         session'.state = "waiting" \/ session'.ready = Sides
  PROVE  IInv'
<1>1. before' = session'.state /\ session'.state # "reconnecting" /\ session'.state # "finished"
  BY DEF Remember, ResumableStates
<1>2. session.state # "reconnecting" /\ session.state # "finished"
  BY DEF ResumableStates
<1>3. TypeOK'
  BY <1>1 DEF IInv, TypeOK
<1>4. MissingAgrees'
  BY <1>1, <1>2 DEF IInv, MissingAgrees
<1>5. PlayedOnlyWhenReady'
  BY <1>1 DEF PlayedOnlyWhenReady
<1>6. HistoryAgrees'
  BY <1>1, <1>2 DEF IInv, HistoryAgrees
<1>7. ForfeitAfterFullWindow' /\ ForfeitWinnerIsPresent'
  BY DEF IInv, ForfeitAfterFullWindow, ForfeitWinnerIsPresent
<1>. QED
  BY <1>3, <1>4, <1>5, <1>6, <1>7 DEF IInv

\* A call that leaves the session alone leaves the invariant alone.
LEMMA IdleStep ==
  ASSUME IInv, session' = session, Remember, UNCHANGED <<now, lostAt, forfeit>>
  PROVE  IInv'
<1>1. before' = before
  BY DEF IInv, HistoryAgrees, Remember
<1>. QED
  BY <1>1 DEF IInv, TypeOK, MissingAgrees, PlayedOnlyWhenReady, HistoryAgrees,
              ForfeitAfterFullWindow, ForfeitWinnerIsPresent

LEMMA NextIInv == IInv /\ [Next]_vars => IInv'
<1> SUFFICES ASSUME IInv, [Next]_vars
             PROVE  IInv'
  OBVIOUS
<1>0. session \in Session /\ now \in Nat
  BY ClockAssumption DEF IInv, TypeOK
<1>1. ASSUME NEW side \in Sides, MarkReady(side)
      PROVE  IInv'
  <2>1. session' \in Session /\ Remember /\ UNCHANGED <<now, lostAt, forfeit>>
    BY <1>0, <1>1, MethodsType DEF MarkReady
  <2>2. CASE session.state # "waiting"
    BY <1>1, <2>1, <2>2, IdleStep DEF MarkReady, markReady
  <2>3. CASE session.state = "waiting"
    <3>1. /\ session'.disconnected = session.disconnected /\ session'.deadline = session.deadline
          /\ session'.state = IF session'.ready = Sides THEN "playing" ELSE "waiting"
      BY <1>0, <1>1, <2>3 DEF MarkReady, markReady, Session
    <3>. QED
      BY <2>1, <2>3, <3>1, PlayStep DEF ResumableStates
  <2>. QED
    BY <2>2, <2>3
<1>4. CASE Pause
  <2>1. session' \in Session /\ Remember /\ UNCHANGED <<now, lostAt, forfeit>>
    BY <1>0, <1>4, MethodsType DEF Pause, Sides
  <2>2. CASE session.state # "playing"
    BY <1>4, <2>1, <2>2, IdleStep DEF Pause, pause
  <2>3. CASE session.state = "playing"
    <3>1. /\ session'.disconnected = session.disconnected /\ session'.deadline = session.deadline
          /\ session'.state = "paused" /\ session'.ready = session.ready
      BY <1>0, <1>4, <2>3 DEF Pause, pause, Session
    <3>2. session.ready = Sides
      BY <2>3 DEF IInv, PlayedOnlyWhenReady
    <3>. QED
      BY <2>1, <2>3, <3>1, <3>2, PlayStep DEF ResumableStates
  <2>. QED
    BY <2>2, <2>3
<1>5. CASE Resume
  <2>1. session' \in Session /\ Remember /\ UNCHANGED <<now, lostAt, forfeit>>
    BY <1>0, <1>5, MethodsType DEF Resume, Sides
  <2>2. CASE session.state # "paused"
    BY <1>5, <2>1, <2>2, IdleStep DEF Resume, resume
  <2>3. CASE session.state = "paused"
    <3>1. /\ session'.disconnected = session.disconnected /\ session'.deadline = session.deadline
          /\ session'.state = "playing" /\ session'.ready = session.ready
      BY <1>0, <1>5, <2>3 DEF Resume, resume, Session
    <3>2. session.ready = Sides
      BY <2>3 DEF IInv, PlayedOnlyWhenReady
    <3>. QED
      BY <2>1, <2>3, <3>1, <3>2, PlayStep DEF ResumableStates
  <2>. QED
    BY <2>2, <2>3
<1> USE WindowAssumption, ClockAssumption
        DEF IInv, TypeOK, MissingAgrees, PlayedOnlyWhenReady, HistoryAgrees,
            ForfeitAfterFullWindow, ForfeitWinnerIsPresent, Remember,
            ResumableStates, SessionStates, NoSide, NotLost, NoDeadline
<1>2. ASSUME NEW side \in Sides, Disconnect(side)
      PROVE  IInv'
  <2>1. session' \in Session
    <3> HIDE DEF IInv
    <3>. QED
      BY <1>0, <1>2, MethodsType DEF Disconnect
  <2>2. CASE session.state = "finished"
    BY <1>2, <2>1, <2>2 DEF Disconnect, disconnect
  <2>3. CASE session.state # "finished"
    <3>1. /\ session'.state = "reconnecting"
          /\ session'.resumeState = IF session.state = "reconnecting"
                                    THEN session.resumeState ELSE session.state
          /\ session'.disconnected = session.disconnected \cup {side}
          /\ session'.ready = session.ready
          /\ session'.deadline = now + RECONNECT_WINDOW_MS
          /\ lostAt' = [lostAt EXCEPT ![side] = now]
          /\ UNCHANGED <<now, forfeit, before>>
      BY <1>2, <2>3 DEF Disconnect, disconnect, Session
    <3>2. MissingAgrees' /\ PlayedOnlyWhenReady'
      BY <2>3, <3>1
    <3>3. lostAt' \in [Sides -> Nat \cup {NotLost}]
      BY <3>1
    <3>5. HistoryAgrees'
      BY <2>3, <3>1 DEF Session
    <3>6. ForfeitAfterFullWindow' /\ ForfeitWinnerIsPresent'
      BY <2>3, <3>1
    <3>. QED
      BY <2>1, <3>1, <3>2, <3>3, <3>5, <3>6
  <2>. QED
    BY <2>2, <2>3
<1>3. ASSUME NEW side \in Sides, Reconnect(side)
      PROVE  IInv'
  <2>1. session' \in Session
    BY <1>3, MethodsType DEF Reconnect
  <2>2. CASE ~reconnects(session, side, now)
    <3> HIDE DEF IInv
    <3>. QED
      BY <1>3, <2>2, IdleStep DEF Reconnect, reconnect
  <2>3. CASE reconnects(session, side, now) /\ session.disconnected \ {side} # {}
    BY <1>3, <2>1, <2>3 DEF Reconnect, reconnect, reconnects, Session, Sides
  <2>4. CASE reconnects(session, side, now) /\ session.disconnected \ {side} = {}
    BY <1>3, <2>1, <2>4 DEF Reconnect, reconnect, reconnects, Session, Sides
  <2>. QED
    BY <2>2, <2>3, <2>4
<1>6. CASE ExpireReconnect
  <2>1. session' \in Session
    <3> HIDE DEF IInv
    <3>1. expireReconnect(session, now) \in Session
      BY <1>0, MethodsType DEF Sides
    <3>. QED
      BY <1>6, <3>1 DEF ExpireReconnect
  <2>2. CASE ~expires(session, now)
    BY <1>6, <2>1, <2>2 DEF ExpireReconnect, expireReconnect
  <2>3. CASE expires(session, now)
    <3>1. /\ forfeit' = forfeitingSide(session)
          /\ session'.state = "finished"
          /\ session'.disconnected = {}
          /\ session'.deadline = NoDeadline
          /\ UNCHANGED <<now, lostAt, before>>
      BY <1>6, <2>3 DEF ExpireReconnect, expireReconnect, finish, Session
    <3>2. forfeit' \in Sides \cup {NoSide}
      BY <3>1, ForfeitingSideAlone
    <3>3. ForfeitAfterFullWindow' /\ ForfeitWinnerIsPresent'
      BY <2>3, <3>1, <3>2, ForfeitingSideAlone
         DEF expires, Session, Sides, opposite
    <3>. QED
      BY <2>1, <3>1, <3>2, <3>3
  <2>. QED
    BY <2>2, <2>3
<1>7. CASE Finish
  <2>1. session' \in Session
    <3> HIDE DEF IInv
    <3>1. finish(session) \in Session
      BY <1>0, MethodsType DEF Sides
    <3>. QED
      BY <1>7, <3>1 DEF Finish
  <2>2. /\ session'.state = "finished"
        /\ session'.disconnected = {}
        /\ session'.deadline = NoDeadline
        /\ UNCHANGED <<now, lostAt, forfeit, before>>
    BY <1>7 DEF Finish, finish, Session
  <2>. QED
    BY <2>1, <2>2
<1>8. CASE Elapse
  BY <1>8 DEF Elapse
<1>9. CASE UNCHANGED vars
  BY <1>9 DEF vars
<1>. QED
  BY <1>1, <1>2, <1>3, <1>4, <1>5, <1>6, <1>7, <1>8, <1>9 DEF Next

\* IInv holds in every reachable state, so every conjunct of it does.
LEMMA Invariance == Spec => []IInv
BY InitIInv, NextIInv, PTL DEF Spec

\* The class keeps a well-formed record whatever is called on it.
THEOREM TypeCorrect == Spec => []TypeOK
<1>1. IInv => TypeOK
  BY DEF IInv
<1>. QED
  BY <1>1, Invariance, PTL

\* The state, the set of missing sides and the deadline always agree, so that a
\* session never waits for nobody, and a match is only ever played between two
\* sides that both said they were ready.
THEOREM SessionAgreesAlways == Spec => []SessionAgrees
<1>1. IInv => SessionAgrees
  BY DEF IInv, SessionAgrees
<1>. QED
  BY <1>1, Invariance, PTL

\* A forfeit is fair: nobody forfeits before the window that began with its own
\* loss is over, however the two sides come and go around one shared deadline,
\* and a match both sides have left has no winner.
THEOREM ForfeitIsFairAlways == Spec => []ForfeitIsFair
<1>1. IInv => ForfeitIsFair
  BY DEF IInv, ForfeitIsFair
<1>. QED
  BY <1>1, Invariance, PTL

\* The match goes on in the state in which the first player was lost.
THEOREM ReturnsToStateBeforeAlways == Spec => ReturnsToStateBefore
<1>1. ASSUME IInv, [Next]_vars
      PROVE  [session.state = "reconnecting" /\ session'.state \in ResumableStates
                => session'.state = before]_vars
  <2> SUFFICES ASSUME Next, session.state = "reconnecting",
                      session'.state \in ResumableStates
               PROVE  session'.state = before
    BY <1>1
  <2> USE DEF ResumableStates
  <2>1. session \in Session /\ before = session.resumeState
    BY <1>1 DEF IInv, TypeOK, HistoryAgrees
  <2>2. ASSUME NEW side \in Sides, Reconnect(side)
        PROVE  session'.state = session.resumeState
    BY <2>1, <2>2 DEF Reconnect, reconnect, Session
  <2>3. ASSUME NEW side \in Sides, MarkReady(side) \/ Disconnect(side)
        PROVE  FALSE
    BY <2>1, <2>3 DEF MarkReady, markReady, Disconnect, disconnect, Session
  <2>4. CASE Pause \/ Resume \/ ExpireReconnect \/ Finish \/ Elapse
    BY <2>1, <2>4 DEF Pause, pause, Resume, resume, ExpireReconnect,
                      expireReconnect, Finish, finish, Elapse, Session
  <2>. QED
    BY <2>1, <2>2, <2>3, <2>4 DEF Next
<1>. QED
  BY <1>1, Invariance, PTL DEF Spec, ReturnsToStateBefore

\* Nothing that is called on a finished session makes it anything else.
THEOREM FinishedIsFinalAlways == Spec => FinishedIsFinal
<1>1. ASSUME IInv, [Next]_vars
      PROVE  [session.state = "finished" => session'.state = "finished"]_vars
  <2> SUFFICES ASSUME Next, session.state = "finished"
               PROVE  session'.state = "finished"
    BY <1>1
  <2>1. session \in Session
    BY <1>1 DEF IInv, TypeOK
  <2>2. ASSUME NEW side \in Sides, MarkReady(side) \/ Disconnect(side) \/ Reconnect(side)
        PROVE  session'.state = "finished"
    BY <2>2 DEF MarkReady, markReady, Disconnect, disconnect, Reconnect,
                reconnect, reconnects
  <2>3. CASE Pause \/ Resume \/ ExpireReconnect \/ Finish \/ Elapse
    BY <2>1, <2>3 DEF Pause, pause, Resume, resume, ExpireReconnect,
                      expireReconnect, expires, Finish, finish, Elapse, Session
  <2>. QED
    BY <2>2, <2>3 DEF Next
<1>. QED
  BY <1>1, Invariance, PTL DEF Spec, FinishedIsFinal
=============================================================================
