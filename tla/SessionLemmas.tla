---------------------------- MODULE SessionLemmas ----------------------------
(***************************************************************************)
(* What the methods of a room's session return: the lemmas shared by the   *)
(* proofs about the session alone and about the hub's rooms.               *)
(***************************************************************************)
EXTENDS RoomSession, TLAPS

\* Every method of the class returns a session record (roomSession.ts:46-126).
LEMMA MethodsType ==
  ASSUME NEW s \in Session, NEW side \in Sides, NEW nowMs \in Nat
  PROVE  /\ markReady(s, side) \in Session
         /\ pause(s) \in Session
         /\ resume(s) \in Session
         /\ disconnect(s, side, nowMs) \in Session
         /\ reconnect(s, side, nowMs) \in Session
         /\ finish(s) \in Session
         /\ expireReconnect(s, nowMs) \in Session
<1> USE WindowAssumption DEF Session, SessionStates, ResumableStates, Sides
<1>1. markReady(s, side) \in Session
  BY DEF markReady
<1>2. pause(s) \in Session /\ resume(s) \in Session
  BY DEF pause, resume
<1>3. disconnect(s, side, nowMs) \in Session
  <2>1. s.disconnected \cup {side} \in SUBSET Sides /\ nowMs + RECONNECT_WINDOW_MS \in Nat
    OBVIOUS
  <2>2. CASE s.state = "finished"
    BY <2>2 DEF disconnect
  <2>3. CASE s.state # "finished"
    <3>1. (IF s.state = "reconnecting" THEN s.resumeState ELSE s.state) \in ResumableStates
      BY <2>3
    <3>. QED
      BY <2>1, <2>3, <3>1 DEF disconnect
  <2>. QED
    BY <2>2, <2>3
<1>4. finish(s) \in Session
  BY DEF finish
<1>5. reconnect(s, side, nowMs) \in Session
  BY DEF reconnect
<1>6. expireReconnect(s, nowMs) \in Session
  BY <1>4 DEF expireReconnect
<1>. QED
  BY <1>1, <1>2, <1>3, <1>4, <1>5, <1>6

\* The side that forfeits is the only missing one (roomSession.ts:105-118).
LEMMA ForfeitingSideAlone ==
  ASSUME NEW s \in Session
  PROVE  /\ forfeitingSide(s) \in Sides \cup {NoSide}
         /\ forfeitingSide(s) # NoSide => s.disconnected = {forfeitingSide(s)}
BY DEF forfeitingSide, Sides, NoSide, Session
=============================================================================
