------------------------------- MODULE InputGate -------------------------------
(***************************************************************************)
(* The gate every paddle input passes (apps/api/src/game/inputGate.ts),    *)
(* with what feeds and resets it: the sequence counter of the browser's    *)
(* socket (apps/web/src/game/GameSocketClient.ts) and the hub, which       *)
(* empties the gate whenever another socket takes the player's place       *)
(* (apps/api/src/gameHub.ts).  One player in one room: buckets and         *)
(* sequence numbers are kept per user and room, and nothing is shared.     *)
(* Time is performance.now(); a token is TOKEN units, so that the refill   *)
(* of a fraction of a token per millisecond stays whole.                   *)
(***************************************************************************)
EXTENDS Integers, Sequences

CONSTANTS
  Sockets,        \* the sockets the player's tabs open
  RATE,           \* units refilled per millisecond
  TOKEN,          \* units one input costs
  BURST,          \* burstCapacity, in tokens
  MaxGateClock,   \* bound of the clock
  MaxSequence,    \* bound of the inputs sent over one socket
  MaxInFlight     \* bound of the inputs on their way over one socket

ASSUME GateAssumption ==
  /\ RATE \in Nat \ {0} /\ TOKEN \in Nat \ {0} /\ BURST \in Nat \ {0}
  /\ MaxGateClock \in Nat /\ MaxSequence \in Nat /\ MaxInFlight \in Nat

VARIABLES
  bucket,        \* this.buckets of the player
  lastSequence,  \* this.lastSequences of the player and the room
  gateClock,     \* performance.now()
  sockets,       \* the player's sockets, at both ends
  moving,        \* whether the room's phase is "playing"
  heard          \* history: when the inputs of the present connection were accepted

gateVars == <<bucket, lastSequence, gateClock, sockets, moving, heard>>

NoBucket == [tokens |-> -1, lastRefillMs |-> -1]
Unheard  == -1
Full     == BURST * TOKEN

\* A socket is opened by a tab, authenticated, registered with the hub and
\* replaced or lost; the browser may learn of its end later.
NoSocket == [state |-> "unused", sequence |-> 0, wire |-> <<>>]

AtMost(cap, n) == IF cap < n THEN cap ELSE n

-----------------------------------------------------------------------------
(* The gate.                                                               *)

MutRefill(nowMs) ==
  IF bucket = NoBucket THEN [tokens |-> Full, lastRefillMs |-> nowMs]
  ELSE [tokens |-> bucket.tokens + RATE * (nowMs - bucket.lastRefillMs), lastRefillMs |-> nowMs]

refill(nowMs) ==
  IF bucket = NoBucket THEN [tokens |-> Full, lastRefillMs |-> nowMs]
  ELSE [tokens       |-> AtMost(Full, bucket.tokens + RATE * (nowMs - bucket.lastRefillMs)),
        lastRefillMs |-> nowMs]

Stale(inputSeq) == lastSequence # Unheard /\ inputSeq <= lastSequence

check(inputSeq, nowMs) ==
  \/ /\ Stale(inputSeq)
     /\ UNCHANGED <<bucket, lastSequence, heard>>
  \/ /\ ~Stale(inputSeq)
     /\ refill(nowMs).tokens < TOKEN
     /\ bucket' = refill(nowMs)
     /\ UNCHANGED <<lastSequence, heard>>
  \/ /\ ~Stale(inputSeq)
     /\ refill(nowMs).tokens >= TOKEN
     /\ bucket' = [refill(nowMs) EXCEPT !.tokens = @ - TOKEN]
     /\ lastSequence' = inputSeq
     /\ heard' = Append(heard, nowMs)

MutReleaseUser == bucket' = NoBucket /\ heard' = <<>> /\ UNCHANGED lastSequence

releaseUser == bucket' = NoBucket /\ lastSequence' = Unheard /\ heard' = <<>>

-----------------------------------------------------------------------------
GateInit ==
  /\ bucket = NoBucket
  /\ lastSequence = Unheard
  /\ gateClock = 0
  /\ sockets = [s \in Sockets |-> NoSocket]
  /\ moving = FALSE
  /\ heard = <<>>

Registered == {s \in Sockets : sockets[s].state = "registered"}

\* openSocket: the counter starts anew with every socket.
OpenSocket(s) ==
  /\ sockets[s].state \in {"unused", "gone"}
  /\ sockets' = [sockets EXCEPT ![s] = [NoSocket EXCEPT !.state = "opening"]]
  /\ UNCHANGED <<bucket, lastSequence, gateClock, moving, heard>>

\* hub.connect: a registered socket of the player is replaced and the gate
\* emptied; if there is none, the seat is recovered and the room goes on as
\* its session says.
ConnectHub(s) ==
  /\ sockets[s].state = "opening"
  /\ sockets' = [t \in Sockets |->
       IF t = s THEN [sockets[t] EXCEPT !.state = "registered"]
       ELSE IF t \in Registered THEN [sockets[t] EXCEPT !.state = "gone"]
       ELSE sockets[t]]
  /\ IF Registered # {} THEN releaseUser /\ UNCHANGED moving
     ELSE UNCHANGED <<bucket, lastSequence, heard>> /\ moving' \in BOOLEAN
  /\ UNCHANGED gateClock

\* The socket ends: disconnect forgets the player and pauses the room,
\* unless another socket has the player's place.
EndSocket(s) ==
  /\ sockets[s].state \in {"opening", "registered"}
  /\ sockets' = [sockets EXCEPT ![s].state = "gone"]
  /\ IF s \in Registered THEN releaseUser /\ moving' = FALSE
     ELSE UNCHANGED <<bucket, lastSequence, heard, moving>>
  /\ UNCHANGED gateClock

\* sendDirection, over a socket the browser takes to be open.
SendDirection(s) ==
  /\ sockets[s].state # "unused"
  /\ sockets[s].sequence < MaxSequence
  /\ Len(sockets[s].wire) < MaxInFlight
  /\ sockets' = [sockets EXCEPT ![s].sequence = @ + 1,
                                ![s].wire = Append(@, sockets[s].sequence + 1)]
  /\ UNCHANGED <<bucket, lastSequence, gateClock, moving, heard>>

\* receive and applyInput: inputs sent before the socket is registered wait,
\* those of a socket that lost its place are ignored, and so are all while
\* the room is not playing.
ApplyInput(s) ==
  /\ sockets[s].state \in {"registered", "gone"}
  /\ sockets[s].wire # <<>>
  /\ sockets' = [sockets EXCEPT ![s].wire = Tail(@)]
  /\ IF s \in Registered /\ moving THEN check(Head(sockets[s].wire), gateClock)
     ELSE UNCHANGED <<bucket, lastSequence, heard>>
  /\ UNCHANGED <<gateClock, moving>>

\* pauseRoom, resumeRoom.
TogglePause ==
  /\ Registered # {}
  /\ moving' = ~moving
  /\ UNCHANGED <<bucket, lastSequence, gateClock, sockets, heard>>

ElapseGate ==
  /\ gateClock < MaxGateClock
  /\ gateClock' = gateClock + 1
  /\ UNCHANGED <<bucket, lastSequence, sockets, moving, heard>>

GateNext ==
  \/ \E s \in Sockets : \/ OpenSocket(s) \/ ConnectHub(s) \/ EndSocket(s)
                        \/ SendDirection(s) \/ ApplyInput(s)
  \/ TogglePause
  \/ ElapseGate

GateSpec == GateInit /\ [][GateNext]_gateVars

-----------------------------------------------------------------------------
(* Properties.                                                             *)

GateTypeOK ==
  /\ bucket \in [tokens : 0..Full, lastRefillMs : 0..MaxGateClock] \cup {NoBucket}
  /\ lastSequence \in Nat \cup {Unheard}
  /\ gateClock \in 0..MaxGateClock
  /\ sockets \in [Sockets -> [state    : {"unused", "opening", "registered", "gone"},
                              sequence : 0..MaxSequence,
                              wire     : Seq(Nat)]]
  /\ moving \in BOOLEAN
  /\ heard \in Seq(0..MaxGateClock)

\* An input of the socket that has the player's place is never taken for an
\* old one, although every new socket counts from one again and inputs of its
\* predecessors may still arrive (inputGate.ts:61, 75-81; gameHub.ts:246-388).
InputsHeardInOrder ==
  \A s \in Registered : \A i \in DOMAIN sockets[s].wire : ~Stale(sockets[s].wire[i])

\* Between any two accepted inputs of a connection no more were accepted than
\* the burst and the rate allow, wherever the window between them is put
\* (inputGate.ts:65-71, 83-102).
RateHolds ==
  \A i, j \in DOMAIN heard :
    i <= j => (j - i + 1) * TOKEN <= Full + RATE * (heard[j] - heard[i])
=============================================================================
