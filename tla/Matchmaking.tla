------------------------------ MODULE Matchmaking ------------------------------
(***************************************************************************)
(* The matchmaking engine driven by any sequence of calls.                 *)
(***************************************************************************)
EXTENDS Matchmaker

CONSTANT MaxClock  \* bound of the clock

ASSUME ClockAssumption == MaxClock \in Nat

VARIABLES
  mm,   \* the Matchmaker object
  now   \* its clock

vars == <<mm, now>>

TypeOK == mm \in MatchmakerState /\ now \in 0..MaxClock

Init == mm = NewMatchmaker /\ now = 0

Enqueue(u) == mm' = enqueue(mm, u, now) /\ UNCHANGED now
ClaimAiFallback(u) == mm' = claimAiFallback(mm, u, now) /\ UNCHANGED now
LeaveQueue(u) == mm' = leaveQueue(mm, u) /\ UNCHANGED now
Release(u) == mm' = release(mm, u) /\ UNCHANGED now
Elapse == now < MaxClock /\ now' = now + 1 /\ UNCHANGED mm

Next ==
  \/ \E u \in Users : Enqueue(u) \/ ClaimAiFallback(u) \/ LeaveQueue(u) \/ Release(u)
  \/ Elapse

Spec == Init /\ [][Next]_vars

-----------------------------------------------------------------------------
(* Properties.                                                             *)

\* The queue and the statuses, kept in two structures, name the same users,
\* each once (matchmaker.ts:67-156).  A user queued in one and unknown to the
\* other could be matched twice or never.
QueueMatchesStatus ==
  /\ \A u \in Users : mm.status[u] = "queued" <=> Positions(mm, u) # {}
  /\ \A i, j \in DOMAIN mm.queue : mm.queue[i].userId = mm.queue[j].userId => i = j

\* Nobody is left waiting next to somebody they could play: however users
\* come, leave and are released, no two waiting users are compatible
\* (matchmaker.ts:67-98).
NoCompatiblePairWaits ==
  \A i, j \in DOMAIN mm.queue :
    i # j => ~Compatible(mm.queue[i].userId, mm.queue[j].userId)

\* A newcomer that is matched at once takes exactly one waiting user with it:
\* of its own kind, nobody who waited was closer to it in rating, and of those
\* as close nobody came before (matchmaker.ts:67-98, 167-181; "the closest
\* queued player within the configured rating difference", matchmaker.test.ts:5).
MatchedWithClosest ==
  [][\A u \in Users :
       mm.status[u] = "none" /\ mm'.status[u] = "matched" =>
         \E v \in Users :
           /\ {w \in Users \ {u} : mm'.status[w] # mm.status[w]} = {v}
           /\ mm.status[v] = "queued" /\ mm'.status[v] = "matched"
           /\ SameKind(u, v) /\ Difference(u, v) <= MAX_RATING_DIFFERENCE
           /\ \A i, j \in DOMAIN mm.queue :
                LET w == mm.queue[j].userId
                IN mm.queue[i].userId = v /\ SameKind(u, w) =>
                     \/ Difference(u, v) < Difference(u, w)
                     \/ Difference(u, v) = Difference(u, w) /\ i <= j]_vars

\* A match is only ever taken back by release: no other call, and never a
\* late leave, which has another effect than release on a matched user, turns
\* it into a waiting or an unknown one (matchmaker.ts:67-72, 134-140;
\* matchmaker.test.ts:95).
MatchSurvivesLeaving ==
  [][\A u \in Users :
       mm.status[u] = "matched" /\ mm'.status[u] # "matched" => Release(u) /\ ~LeaveQueue(u)]_vars
=============================================================================
