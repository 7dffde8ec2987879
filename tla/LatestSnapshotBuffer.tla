------------------------- MODULE LatestSnapshotBuffer -------------------------
(***************************************************************************)
(* The snapshots on their way to one client                                *)
(* (apps/api/src/game/latestSnapshotBuffer.ts): at most one waits, a       *)
(* congested socket is tried again and given up in the end, and the        *)
(* observer is told what became of each snapshot.  How full the socket is  *)
(* and when it answers a send is the network's choice; timers are          *)
(* punctual.  A snapshot is its number.                                    *)
(***************************************************************************)
EXTENDS Integers

CONSTANTS
  MAX_CONGESTION_MS,
  RETRY_INTERVAL_MS,
  MaxSnapshots,      \* bound of the snapshots enqueued
  MaxSnapClock       \* bound of the clock

ASSUME SnapAssumption ==
  /\ MAX_CONGESTION_MS \in Nat \ {0} /\ RETRY_INTERVAL_MS \in Nat \ {0}
  /\ MaxSnapshots \in Nat /\ MaxSnapClock \in Nat

VARIABLES
  link,       \* the buffer and its socket
  level,      \* bufferedAmount, as far as drain tells it apart
  snapClock,  \* performance.now()
  lastSnap,   \* number of the snapshot enqueued last
  told,       \* history: how often the observer was told of each snapshot
  waitingSince \* history: since when some snapshot has been waiting, or Never

snapVars == <<link, level, snapClock, lastSnap, told, waitingSince>>

None  == 0     \* pendingSnapshot = null
Never == -1    \* congestionStartedAtMs = null, retryTimer = null
Levels == {"clear", "over soft limit", "at hard limit"}
Snapshots == 1..MaxSnapshots

Link == [pending : {None} \cup Snapshots,  \* pendingSnapshot
         sending : SUBSET Snapshots,       \* sends not yet answered
         dropped : SUBSET Snapshots,       \* what onDropped was called for in this step
         congestedAt : Nat \cup {Never},
         retryAt : Nat \cup {Never},
         closed : BOOLEAN,
         open : BOOLEAN]                   \* readyState = OPEN

NewLink == [pending |-> None, sending |-> {}, dropped |-> {}, congestedAt |-> Never,
            retryAt |-> Never, closed |-> FALSE, open |-> TRUE]

Waiting(l) == {l.pending} \ {None}

-----------------------------------------------------------------------------
(* The methods, as operators on the link.                                  *)

close(l) == [l EXCEPT !.closed = TRUE, !.dropped = @ \cup Waiting(l),
                      !.pending = None, !.retryAt = Never]

terminate(l) == IF l.closed THEN l ELSE [close(l) EXCEPT !.open = FALSE]

armRetry(l) ==
  IF l.retryAt # Never THEN l ELSE [l EXCEPT !.retryAt = snapClock + RETRY_INTERVAL_MS]

MutCongested(l) == [l EXCEPT !.congestedAt = snapClock]

\* The socket is congested: since when is noted once.
congested(l) == IF l.congestedAt = Never THEN [l EXCEPT !.congestedAt = snapClock] ELSE l

sent(l) == [l EXCEPT !.congestedAt = Never, !.sending = @ \cup Waiting(l), !.pending = None]

drain(l) ==
  CASE l.closed -> l
    [] ~l.closed /\ ~l.open -> close(l)
    [] ~l.closed /\ l.open /\ level = "at hard limit" -> terminate(l)
    [] ~l.closed /\ l.open /\ level = "over soft limit" ->
         LET c == congested(l)
         IN IF snapClock - c.congestedAt >= MAX_CONGESTION_MS THEN terminate(c) ELSE armRetry(c)
    [] OTHER -> sent(l)

\* The snapshot waiting so far is dropped for the newer one.
enqueue(l, snapshot) == drain([l EXCEPT !.dropped = Waiting(l), !.pending = snapshot])

\* The observer is told of the snapshots dropped, and of the ones in answered.
Tell(answered) ==
  /\ told' = [n \in Snapshots |-> told[n] + (IF n \in link'.dropped THEN 1 ELSE 0)
                                          + (IF n \in answered THEN 1 ELSE 0)]
  /\ waitingSince' = IF link'.pending = None THEN Never
                     ELSE IF link.pending = None THEN snapClock ELSE waitingSince

-----------------------------------------------------------------------------
SnapInit ==
  /\ link = NewLink
  /\ level = "clear"
  /\ snapClock = 0
  /\ lastSnap = None
  /\ told = [n \in Snapshots |-> 0]
  /\ waitingSince = Never

\* broadcastSnapshot: the hub does not send to a socket that is not open, and
\* a closed buffer takes nothing.
Enqueue ==
  /\ lastSnap < MaxSnapshots
  /\ link.open /\ ~link.closed
  /\ lastSnap' = lastSnap + 1
  /\ link' = enqueue(link, lastSnap + 1)
  /\ Tell({})
  /\ UNCHANGED <<level, snapClock>>

RetryFires ==
  /\ link.retryAt # Never /\ link.retryAt <= snapClock
  /\ link' = drain([link EXCEPT !.retryAt = Never, !.dropped = {}])
  /\ Tell({})
  /\ UNCHANGED <<level, snapClock, lastSnap>>

\* The callback of a send: delivered, or an error that ends the connection.
SendAnswered(n) ==
  /\ n \in link.sending
  /\ LET answered == [link EXCEPT !.sending = @ \ {n}, !.dropped = {}]
     IN \/ link' = answered
        \/ link' = terminate(answered)
  /\ Tell({n})
  /\ UNCHANGED <<level, snapClock, lastSnap>>

\* The hub closes the buffer: the client is replaced, revoked or gone.
Close ==
  /\ link' = close([link EXCEPT !.dropped = {}])
  /\ Tell({})
  /\ UNCHANGED <<level, snapClock, lastSnap>>

\* The socket leaves OPEN; the hub hears of it later.
SocketCloses ==
  /\ link.open
  /\ link' = [link EXCEPT !.open = FALSE, !.dropped = {}]
  /\ UNCHANGED <<level, snapClock, lastSnap, told, waitingSince>>

LevelChanges ==
  /\ level' \in Levels
  /\ UNCHANGED <<link, snapClock, lastSnap, told, waitingSince>>

ElapseSnap ==
  /\ snapClock < MaxSnapClock
  /\ link.retryAt = Never \/ snapClock < link.retryAt
  /\ snapClock' = snapClock + 1
  /\ UNCHANGED <<link, level, lastSnap, told, waitingSince>>

SnapNext ==
  \/ Enqueue \/ RetryFires \/ Close
  \/ \E n \in Snapshots : SendAnswered(n)
  \/ SocketCloses \/ LevelChanges \/ ElapseSnap

SnapSpec == SnapInit /\ [][SnapNext]_snapVars

-----------------------------------------------------------------------------
(* Properties.                                                             *)

SnapTypeOK ==
  /\ link \in Link
  /\ level \in Levels
  /\ snapClock \in 0..MaxSnapClock
  /\ lastSnap \in {None} \cup Snapshots
  /\ told \in [Snapshots -> Nat]
  /\ waitingSince \in Nat \cup {Never}

\* A snapshot waits, is being sent, or was told of exactly once.
ToldOnce ==
  \A n \in Snapshots :
    told[n] = IF n <= lastSnap /\ n \notin Waiting(link) \cup link.sending THEN 1 ELSE 0

\* Only the newest snapshot waits, and a retry is coming for it in time.
NewestIsRetried ==
  link.pending # None =>
    /\ link.pending = lastSnap
    /\ link.retryAt \in snapClock .. snapClock + RETRY_INTERVAL_MS

\* No congestion holds snapshots back for longer than it may: a link on which
\* none gets through is given up.
CongestionEnds ==
  link.pending # None => snapClock <= waitingSince + MAX_CONGESTION_MS + RETRY_INTERVAL_MS

\* Every snapshot has exactly one fate: it is sent, replaced by a newer one or
\* given up with the connection, and none waits on a link nobody drains
\* (latestSnapshotBuffer.ts:57-143).
SnapshotHasOneFate == ToldOnce /\ NewestIsRetried /\ CongestionEnds
=============================================================================
