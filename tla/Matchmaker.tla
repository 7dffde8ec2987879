------------------------------ MODULE Matchmaker ------------------------------
(***************************************************************************)
(* The matchmaking engine (apps/api/src/game/matchmaker.ts): who is paired *)
(* with whom.  Its state is a record of the waiting queue and of the       *)
(* status of every user; every method is an operator from that record to   *)
(* the record the call leaves behind.                                      *)
(***************************************************************************)
EXTENDS Integers, Sequences, SequencesExt

CONSTANTS
  Users,                  \* user ids
  Guests,                 \* the users of kind "guest"; the others are registered
  Rating,                 \* the rating of each user
  MAX_RATING_DIFFERENCE,  \* maxRatingDifference
  AI_FALLBACK_MS          \* MATCHMAKER_AI_FALLBACK_MS

ASSUME MatchmakerAssumption ==
  /\ Guests \subseteq Users
  /\ Rating \in [Users -> Int]
  /\ MAX_RATING_DIFFERENCE \in Nat
  /\ AI_FALLBACK_MS \in Nat

\* playerStatuses; "none" stands for a missing key.
Statuses == {"none", "queued", "matched"}
QueueEntry == [userId : Users, queuedAtMs : Nat]
MatchmakerState == [queue : Seq(QueueEntry), status : [Users -> Statuses]]

NewMatchmaker == [queue |-> <<>>, status |-> [u \in Users |-> "none"]]

SameKind(u, v) == u \in Guests <=> v \in Guests
Difference(u, v) == IF Rating[u] >= Rating[v] THEN Rating[u] - Rating[v] ELSE Rating[v] - Rating[u]

\* (An operator Mut... is a plausible slip in the definition after it, put in
\* its place to see that the properties notice.)
Compatible(u, v) == SameKind(u, v) /\ Difference(u, v) <= MAX_RATING_DIFFERENCE

-----------------------------------------------------------------------------
(* findClosestOpponent: the position in the queue of the closest opponent  *)
(* of u, the one that waits longest among equally close ones; 0 for none.  *)

MutCandidates(m, u) == {i \in DOMAIN m.queue \ {1} : Compatible(m.queue[i].userId, u)}

Candidates(m, u) == {i \in DOMAIN m.queue : Compatible(m.queue[i].userId, u)}

MutFindClosestOpponent(m, u) ==
  LET Gap(i) == Difference(m.queue[i].userId, u)
      Closest(i) == \A j \in Candidates(m, u) : Gap(i) < Gap(j) \/ (Gap(i) = Gap(j) /\ i >= j)
  IN IF Candidates(m, u) = {} THEN 0 ELSE CHOOSE i \in Candidates(m, u) : Closest(i)

findClosestOpponent(m, u) ==
  LET Gap(i) == Difference(m.queue[i].userId, u)
      Closest(i) == \A j \in Candidates(m, u) : Gap(i) < Gap(j) \/ (Gap(i) = Gap(j) /\ i <= j)
  IN IF Candidates(m, u) = {} THEN 0 ELSE CHOOSE i \in Candidates(m, u) : Closest(i)

-----------------------------------------------------------------------------
(* The methods.                                                            *)

\* enqueue has three results: the user is known already, an opponent waits,
\* or the user has to wait.
IsDuplicate(m, u) == m.status[u] # "none"
FindsOpponent(m, u) == ~IsDuplicate(m, u) /\ Candidates(m, u) # {}
OpponentOf(m, u) == m.queue[findClosestOpponent(m, u)].userId

enqueue(m, u, nowMs) ==
  CASE IsDuplicate(m, u) -> m
    [] FindsOpponent(m, u) ->
         [queue  |-> RemoveAt(m.queue, findClosestOpponent(m, u)),
          status |-> [m.status EXCEPT ![OpponentOf(m, u)] = "matched", ![u] = "matched"]]
    [] OTHER ->
         [queue  |-> Append(m.queue, [userId |-> u, queuedAtMs |-> nowMs]),
          status |-> [m.status EXCEPT ![u] = "queued"]]

\* queue.findIndex by user id; 0 for -1.
Positions(m, u) == {i \in DOMAIN m.queue : m.queue[i].userId = u}
Position(m, u) == IF Positions(m, u) = {} THEN 0
                  ELSE CHOOSE i \in Positions(m, u) : \A j \in Positions(m, u) : i <= j
Unqueued(m, u) == IF Position(m, u) = 0 THEN m.queue ELSE RemoveAt(m.queue, Position(m, u))

\* claimAiFallback is "unavailable", "waiting" or "ready"; only "ready" gives
\* the user to an AI, and a queued user that is in no queue is forgotten.
claimResult(m, u, nowMs) ==
  CASE m.status[u] # "queued" \/ Position(m, u) = 0 -> "unavailable"
    [] m.status[u] = "queued" /\ Position(m, u) # 0
         /\ nowMs - m.queue[Position(m, u)].queuedAtMs < AI_FALLBACK_MS -> "waiting"
    [] OTHER -> "ready"

claimAiFallback(m, u, nowMs) ==
  CASE claimResult(m, u, nowMs) = "ready" ->
         [queue |-> Unqueued(m, u), status |-> [m.status EXCEPT ![u] = "matched"]]
    [] claimResult(m, u, nowMs) = "unavailable" /\ m.status[u] = "queued" ->
         [m EXCEPT !.status[u] = "none"]
    [] OTHER -> m

MutLeaveQueue(m, u) ==
  [queue |-> Unqueued(m, u), status |-> [m.status EXCEPT ![u] = "none"]]

\* Takes back a wait, never a match.
leaveQueue(m, u) ==
  IF m.status[u] # "queued" THEN m
  ELSE [queue |-> Unqueued(m, u), status |-> [m.status EXCEPT ![u] = "none"]]

\* leaveQueue's result.
leavesQueue(m, u) == m.status[u] = "queued" /\ Position(m, u) # 0

MutRelease(m, u) == [m EXCEPT !.status[u] = "none"]

\* Forgets the user whatever its status.
release(m, u) ==
  [queue  |-> IF m.status[u] = "queued" THEN Unqueued(m, u) ELSE m.queue,
   status |-> [m.status EXCEPT ![u] = "none"]]
=============================================================================
