------------------------------ MODULE PongMatch ------------------------------
(***************************************************************************)
(* A match against the AI, tick by tick: PongSimulation.step and           *)
(* PongAi.nextDirection (apps/api/src/game), as GameHub.tick calls them    *)
(* with the last direction the player sent, between pauses.                *)
(*                                                                         *)
(* Places are whole numbers on a small court.  What floating point         *)
(* computes with speeds is left open within what the code makes sure of:   *)
(* a hit turns the ball and makes it no slower across, its new slope has   *)
(* the sign of the offset, and acceleration keeps both signs.  The noise   *)
(* and the mistakes of the AI leave its target open.                       *)
(***************************************************************************)
EXTENDS Integers

CONSTANTS
  GAME_WIDTH, GAME_HEIGHT,
  PADDLE_HEIGHT,
  PADDLE_REACH,          \* how far from its edge of the court a paddle hits
  BALL_RADIUS,
  ARENA_PADDING,
  PADDLE_SPEED_PER_TICK,
  MaxAcross, MaxSlope,   \* bounds of the ball's speed, per tick
  WINNING_SCORE,
  MAX_MATCH_TICKS,
  reactionTicks, deadZone

\* A ball is never so fast that it crosses a paddle's reach between two ticks
\* (51 against 34, what 1.04 per hit makes of the first serve in 900 ticks), nor the
\* court from wall to wall; no paddle step jumps over a dead zone (13 against 20).
CourtAssumption ==
  /\ MaxAcross \in 1..PADDLE_REACH
  /\ 2 * PADDLE_REACH + MaxAcross < GAME_WIDTH
  /\ MaxSlope \in 1..(GAME_HEIGHT - 2 * BALL_RADIUS)
  /\ PADDLE_SPEED_PER_TICK \in 1..(2 * deadZone)
  /\ PADDLE_HEIGHT + 2 * ARENA_PADDING <= GAME_HEIGHT
  /\ {GAME_WIDTH, GAME_HEIGHT, PADDLE_HEIGHT, PADDLE_REACH, BALL_RADIUS, ARENA_PADDING, deadZone} \subseteq Nat
  /\ {WINNING_SCORE, MAX_MATCH_TICKS, reactionTicks} \subseteq Nat \ {0}

ASSUME CourtAssumption

VARIABLES
  simulation,   \* PongSimulationState
  matchPhase,   \* the phase of the room: "playing", "paused" or "finished"
  dy,           \* the direction the player on the left sent last
  ai,           \* targetY and nextReactionTick of the AI on the right
  touchedBy     \* history: who hit the ball last since it was served

matchVars == <<simulation, matchPhase, dy, ai, touchedBy>>

PaddleSides == {"left", "right"}
Directions  == {-1, 0, 1}
Clamped(n, low, high) == IF n < low THEN low ELSE IF n > high THEN high ELSE n
SignOf(n) == IF n < 0 THEN -1 ELSE IF n > 0 THEN 1 ELSE 0
Size(n)   == IF n < 0 THEN -n ELSE n

MidX == GAME_WIDTH \div 2
MidY == GAME_HEIGHT \div 2
LowestY  == ARENA_PADDING
HighestY == GAME_HEIGHT - PADDLE_HEIGHT - ARENA_PADDING
Speeds(limit) == (-limit)..limit

-----------------------------------------------------------------------------
(* The steps of PongSimulation.step.                                       *)

initialState ==
  [tick |-> 0, phase |-> "playing", score |-> [side \in PaddleSides |-> 0],
   y |-> [side \in PaddleSides |-> MidY - PADDLE_HEIGHT \div 2],
   direction |-> [side \in PaddleSides |-> 0],
   ballX |-> MidX, ballY |-> MidY, across |-> 1, slope |-> 1,
   winnerSide |-> "none"]

movePaddles(s, inputs) ==
  [s EXCEPT !.direction = inputs,
            !.y = [side \in PaddleSides |->
                     Clamped(s.y[side] + inputs[side] * PADDLE_SPEED_PER_TICK, LowestY, HighestY)]]

\* The ball flies on and is folded back at the walls.
moveBall(s) ==
  LET y == s.ballY + s.slope
      low == BALL_RADIUS
      high == GAME_HEIGHT - BALL_RADIUS
  IN [s EXCEPT !.ballX = @ + s.across,
               !.ballY = IF y < low THEN 2 * low - y ELSE IF y > high THEN 2 * high - y ELSE y,
               !.slope = IF y < low THEN Size(@) ELSE IF y > high THEN -Size(@) ELSE @]

Towards(side) == IF side = "left" THEN -1 ELSE 1

WithinReach(s, side) ==
  IF side = "left" THEN s.ballX <= PADDLE_REACH ELSE s.ballX >= GAME_WIDTH - PADDLE_REACH

MutCollides(s, side) ==
  /\ WithinReach(s, side)
  /\ s.ballY \in s.y[side]..(s.y[side] + PADDLE_HEIGHT)

Collides(s, side) ==
  /\ WithinReach(s, side)
  /\ s.ballY \in s.y[side]..(s.y[side] + PADDLE_HEIGHT)
  /\ SignOf(s.across) = Towards(side)

Aim(s, side) == SignOf(2 * s.ballY - (2 * s.y[side] + PADDLE_HEIGHT))

TurnedBack(s, side, a, b) == [s EXCEPT !.across = -SignOf(@) * a, !.slope = Aim(s, side) * b]

collidePaddle(s, side) ==
  IF ~Collides(s, side) THEN {s}
  ELSE {TurnedBack(s, side, a, b) : a \in Size(s.across)..MaxAcross, b \in 1..MaxSlope}

Out(s) == IF s.ballX < 0 THEN "left" ELSE IF s.ballX > GAME_WIDTH THEN "right" ELSE "none"

opponent(side) == IF side = "left" THEN "right" ELSE "left"

\* resetBall: the serve goes on to the side that missed, up or down by the parity
\* of the tick.
serve(s) ==
  IF Out(s) = "none" THEN {s}
  ELSE {[s EXCEPT !.score[opponent(Out(s))] = @ + 1,
                  !.ballX = MidX, !.ballY = MidY,
                  !.across = Towards(Out(s)) * a,
                  !.slope = IF s.tick % 2 = 0 THEN 1 ELSE -1] : a \in 1..MaxAcross}

Faster(s, a, b) == [s EXCEPT !.across = SignOf(@) * a, !.slope = SignOf(@) * b]

\* accelerateBall keeps the direction.
accelerateBall(s) ==
  {Faster(s, a, b) : a \in Size(s.across)..MaxAcross, b \in Size(s.slope)..MaxSlope}

endMatch(s) ==
  IF \/ \E side \in PaddleSides : s.score[side] >= WINNING_SCORE
     \/ s.tick >= MAX_MATCH_TICKS
  THEN [s EXCEPT !.phase = "finished",
                 !.winnerSide = IF s.score["left"] >= s.score["right"] THEN "left" ELSE "right",
                 !.direction = [side \in PaddleSides |-> 0]]
  ELSE s

Moved(s, inputs) == moveBall(movePaddles([s EXCEPT !.tick = @ + 1], inputs))

\* The states step may return.
step(s, inputs) ==
  {endMatch(z) : z \in UNION {accelerateBall(y) : y \in UNION {serve(x) : x \in
     UNION {collidePaddle(w, "right") : w \in collidePaddle(Moved(s, inputs), "left")}}}}

-----------------------------------------------------------------------------
(* The AI on the right.                                                    *)

Targets == (ARENA_PADDING + PADDLE_HEIGHT \div 2)..(GAME_HEIGHT - ARENA_PADDING - PADDLE_HEIGHT \div 2)

\* What the AI knows after it looked, or not, at the ball.
Reactions ==
  IF simulation.tick >= ai.nextReactionTick
  THEN {[targetY |-> y, nextReactionTick |-> simulation.tick + reactionTicks] : y \in Targets}
  ELSE {ai}

nextDirection(mind) ==
  LET center == simulation.y["right"] + PADDLE_HEIGHT \div 2
  IN IF mind.targetY > center + deadZone THEN 1
     ELSE IF mind.targetY < center - deadZone THEN -1 ELSE 0

-----------------------------------------------------------------------------
MatchInit ==
  /\ simulation = initialState
  /\ matchPhase = "playing"
  /\ dy = 0
  /\ ai = [targetY |-> MidY, nextReactionTick |-> 0]
  /\ touchedBy = "none"

\* GameHub.tick and syncSnapshot, once per step of the shared clock.
Tick ==
  /\ matchPhase = "playing"
  /\ ai' \in Reactions
  /\ LET inputs == [side \in PaddleSides |-> IF side = "left" THEN dy ELSE nextDirection(ai')]
         moved  == Moved(simulation, inputs)
         hit    == {side \in PaddleSides : Collides(moved, side)}
     IN /\ simulation' \in step(simulation, inputs)
        /\ touchedBy' = IF Out(moved) # "none" THEN "none"
                        ELSE IF hit # {} THEN CHOOSE side \in hit : TRUE ELSE touchedBy
  /\ matchPhase' = simulation'.phase
  /\ dy' = simulation'.direction["left"]

\* applyInput, past the gate.
SendInput(direction) ==
  /\ matchPhase = "playing"
  /\ dy' = direction
  /\ UNCHANGED <<simulation, matchPhase, ai, touchedBy>>

PauseMatch ==
  /\ matchPhase = "playing"
  /\ matchPhase' = "paused"
  /\ dy' = 0
  /\ simulation' = [simulation EXCEPT !.direction = [side \in PaddleSides |-> 0]]
  /\ UNCHANGED <<ai, touchedBy>>

ResumeMatch ==
  /\ matchPhase = "paused"
  /\ matchPhase' = "playing"
  /\ UNCHANGED <<simulation, dy, ai, touchedBy>>

MatchNext ==
  \/ Tick
  \/ \E direction \in Directions : SendInput(direction)
  \/ PauseMatch
  \/ ResumeMatch

MatchSpec == MatchInit /\ [][MatchNext]_matchVars

-----------------------------------------------------------------------------
(* Properties.                                                             *)

\* Ball and paddles stay on the court.
InCourt ==
  /\ simulation.ballX \in 0..GAME_WIDTH
  /\ simulation.ballY \in BALL_RADIUS..(GAME_HEIGHT - BALL_RADIUS)
  /\ \A side \in PaddleSides : simulation.y[side] \in LowestY..HighestY

\* A ball that was hit flies away from who hit it until the other hits it or
\* it is out: nobody hits it twice while it is still behind the paddle's face.
FliesFromHit == touchedBy # "none" => SignOf(simulation.across) = -Towards(touchedBy)

\* The match is over exactly when somebody has the points or the time is up.
EndsByTheRules ==
  simulation.phase = "finished" <=>
    \/ simulation.tick = MAX_MATCH_TICKS
    \/ \E side \in PaddleSides : simulation.score[side] = WINNING_SCORE

\* A point is scored only against a paddle that had the ball in its reach at
\* the tick before and missed it; one point at a time.
PointsAreMissed ==
  simulation'.score # simulation.score =>
    \E side \in PaddleSides :
      /\ WithinReach(simulation, side)
      /\ SignOf(simulation.across) = Towards(side)
      /\ simulation'.score = [simulation.score EXCEPT ![opponent(side)] = @ + 1]

\* The AI does not turn round before it looks again.
AiIsSteady ==
  simulation.direction["right"] * simulation'.direction["right"] = -1 =>
    ai'.nextReactionTick # ai.nextReactionTick

\* A match is played by the rules of the game, tick by tick and through pauses
\* (pongSimulation.ts:82-239, pongAi.ts:71-104, gameHub.ts:934-990).
PlayedByTheRules ==
  /\ [](InCourt /\ FliesFromHit /\ EndsByTheRules)
  /\ [][PointsAreMissed /\ AiIsSteady]_matchVars
=============================================================================
