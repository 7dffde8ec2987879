----------------------------- MODULE RoomScheduler -----------------------------
(***************************************************************************)
(* The one clock all rooms play by: FixedStepAccumulator and               *)
(* FixedStepScheduler (apps/api/src/game/fixedStepScheduler.ts) under      *)
(* SharedRoomScheduler (apps/api/src/game/sharedRoomScheduler.ts).  A      *)
(* timer callback may come late; its loop runs one room's step after the   *)
(* other, and a step may take its own room out (the match is over).        *)
(***************************************************************************)
EXTENDS Integers, FiniteSets

CONSTANTS
  MatchRooms,
  timestepMs,
  maxTicksPerLoop,
  maxAccumulatedMs,
  MaxTickClock,      \* bound of the clock
  MaxLateness        \* how late, at most, a timer callback comes

ASSUME SchedulerAssumption ==
  /\ timestepMs \in Nat \ {0} /\ maxTicksPerLoop \in Nat \ {0}
  /\ maxAccumulatedMs = maxTicksPerLoop * timestepMs
  /\ MaxTickClock \in Nat /\ MaxLateness \in Nat

VARIABLES
  roomSteps,    \* the rooms registered
  accumulator,  \* the accumulator of the running scheduler, or Stopped
  loop,         \* what is left of the timer callback that is running
  tickClock,    \* performance.now()
  thrownAway,   \* history: time the cap of the lag gave up, since the start
  ticksRun,     \* history: ticks begun since the start
  stepsOf       \* history: of each room, steps made and ticks owed, since it registered

schedVars == <<roomSteps, accumulator, loop, tickClock, thrownAway, ticksRun, stepsOf>>

Stopped == [startedAt |-> -1, previousTimeMs |-> -1, lagMs |-> 0, timerAt |-> -1]
Idle    == [ticks |-> 0, rooms |-> {}]
TimerRuns == accumulator # Stopped
NoSteps == [made |-> 0, owed |-> 0]

Capped(cap, n) == IF cap < n THEN cap ELSE n

-----------------------------------------------------------------------------
(* FixedStepAccumulator.advance.                                           *)

lagAfter(nowMs) ==
  Capped(maxAccumulatedMs, accumulator.lagMs + (nowMs - accumulator.previousTimeMs))

ticksDue(nowMs) == Capped(maxTicksPerLoop, lagAfter(nowMs) \div timestepMs)

MutAdvanced(nowMs) ==
  [accumulator EXCEPT !.previousTimeMs = nowMs, !.lagMs = 0]

advanced(nowMs) ==
  [accumulator EXCEPT !.previousTimeMs = nowMs,
                      !.lagMs = lagAfter(nowMs) - ticksDue(nowMs) * timestepMs]

-----------------------------------------------------------------------------
SchedInit ==
  /\ roomSteps = {}
  /\ accumulator = Stopped
  /\ loop = Idle
  /\ tickClock = 0
  /\ thrownAway = 0
  /\ ticksRun = 0
  /\ stepsOf = [r \in MatchRooms |-> NoSteps]

start ==
  IF TimerRuns THEN UNCHANGED <<accumulator, thrownAway, ticksRun>>
  ELSE /\ accumulator' = [startedAt |-> tickClock, previousTimeMs |-> tickClock,
                          lagMs |-> 0, timerAt |-> tickClock + timestepMs]
       /\ thrownAway' = 0
       /\ ticksRun' = 0

\* register: the match starts, goes on after a pause or a lost player is back.
Register(r) ==
  /\ loop = Idle
  /\ roomSteps' = roomSteps \cup {r}
  /\ start
  /\ stepsOf' = IF r \in roomSteps THEN stepsOf ELSE [stepsOf EXCEPT ![r] = NoSteps]
  /\ UNCHANGED <<loop, tickClock>>

unregister(r) ==
  /\ roomSteps' = roomSteps \ {r}
  /\ accumulator' = IF roomSteps \ {r} = {} THEN Stopped ELSE accumulator

\* unregister from outside a step: a pause or a lost player.
Unregister(r) ==
  /\ loop = Idle
  /\ unregister(r)
  /\ UNCHANGED <<loop, tickClock, thrownAway, ticksRun, stepsOf>>

\* SharedRoomScheduler.stop, when the hub closes.
StopAll ==
  /\ loop = Idle
  /\ roomSteps' = {}
  /\ accumulator' = Stopped
  /\ UNCHANGED <<loop, tickClock, thrownAway, ticksRun, stepsOf>>

\* The timer callback begins: runLoop asks for the ticks due.
TimerFires ==
  /\ loop = Idle /\ TimerRuns
  /\ tickClock >= accumulator.timerAt
  /\ loop' = [ticks |-> ticksDue(tickClock), rooms |-> {}]
  /\ accumulator' = [advanced(tickClock) EXCEPT !.timerAt = tickClock + timestepMs]
  /\ thrownAway' = thrownAway + accumulator.lagMs + (tickClock - accumulator.previousTimeMs)
                              - lagAfter(tickClock)
  /\ UNCHANGED <<roomSteps, tickClock, ticksRun, stepsOf>>

\* The next tick of the loop: stepRooms copies the rooms, unless the timer
\* was stopped meanwhile.
BeginTick ==
  /\ loop.ticks > 0 /\ loop.rooms = {}
  /\ IF TimerRuns
     THEN /\ loop' = [ticks |-> loop.ticks - 1, rooms |-> roomSteps]
          /\ ticksRun' = ticksRun + 1
          /\ stepsOf' = [r \in MatchRooms |->
               IF r \in roomSteps THEN [stepsOf[r] EXCEPT !.owed = @ + 1] ELSE stepsOf[r]]
     ELSE loop' = Idle /\ UNCHANGED <<ticksRun, stepsOf>>
  /\ UNCHANGED <<roomSteps, accumulator, tickClock, thrownAway>>

\* One room of the copy is stepped; its match may end with the step.
StepRoom(r) ==
  /\ r \in loop.rooms
  /\ loop' = [loop EXCEPT !.rooms = @ \ {r}]
  /\ stepsOf' = [stepsOf EXCEPT ![r].made = @ + 1]
  /\ unregister(r) \/ UNCHANGED <<roomSteps, accumulator>>
  /\ UNCHANGED <<tickClock, thrownAway, ticksRun>>

\* A callback that is due comes before it is later than MaxLateness.
ElapseTick ==
  /\ loop = Idle
  /\ tickClock < MaxTickClock
  /\ ~TimerRuns \/ tickClock < accumulator.timerAt + MaxLateness
  /\ tickClock' = tickClock + 1
  /\ UNCHANGED <<roomSteps, accumulator, loop, thrownAway, ticksRun, stepsOf>>

SchedNext ==
  \/ \E r \in MatchRooms : Register(r) \/ Unregister(r) \/ StepRoom(r)
  \/ StopAll \/ TimerFires \/ BeginTick \/ ElapseTick

SchedSpec == SchedInit /\ [][SchedNext]_schedVars

-----------------------------------------------------------------------------
(* Properties.                                                             *)

SchedTypeOK ==
  /\ roomSteps \subseteq MatchRooms
  /\ accumulator.lagMs \in 0..maxAccumulatedMs
  /\ loop.ticks \in 0..maxTicksPerLoop /\ loop.rooms \subseteq MatchRooms
  /\ tickClock \in 0..MaxTickClock
  /\ thrownAway \in Nat /\ ticksRun \in Nat

\* The timer runs exactly while a room is registered.
RunsForRooms == TimerRuns <=> roomSteps # {}

\* No time is lost or gained but by the cap: ticks made and still to make in
\* this loop, lag and what was given up are the time since the start.
TimeIsAccounted ==
  TimerRuns => /\ timestepMs * (ticksRun + loop.ticks) + accumulator.lagMs + thrownAway
                  = accumulator.previousTimeMs - accumulator.startedAt
             /\ accumulator.lagMs < timestepMs

\* Every registered room is stepped once in every tick, whichever rooms left
\* while the tick went over the others.
NoRoomSkipped ==
  \A r \in roomSteps : stepsOf[r].made + (IF r \in loop.rooms THEN 1 ELSE 0) = stepsOf[r].owed

\* Rooms keep time: they play on the wall clock, late timers are caught up
\* with and the remainder is carried over (fixedStepScheduler.ts:48-65,
\* 111-119; sharedRoomScheduler.ts:31-52).
RoomsKeepTime == RunsForRooms /\ TimeIsAccounted /\ NoRoomSkipped
=============================================================================
