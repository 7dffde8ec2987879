------------------------------ MODULE PartsProofs ------------------------------
(***************************************************************************)
(* What the machines of one connection and of the process promise, for     *)
(* every value of their constants: the gate the inputs pass, the           *)
(* heartbeat, the snapshots, the clock of the rooms, the deployment, the   *)
(* sockets of the registered users, the tickets of the guests, a match     *)
(* against the AI and the friendships; and of all of them side by side.    *)
(***************************************************************************)
EXTENDS MCParts, RoomSessionProofs, FiniteSetTheorems, TLAPS

-----------------------------------------------------------------------------
(* The gate (InputGate), for any rate, burst, number of sockets and time.  *)

\* The numbers on a wire rise, above what was heard and up to what was sent.
Rising(wire, low, high) ==
  /\ \A i \in 1..Len(wire) : low < wire[i] /\ wire[i] <= high
  /\ \A i, j \in 1..Len(wire) : i < j => wire[i] < wire[j]

HeardOf(s) == IF s \in Registered THEN lastSequence ELSE Unheard

\* The hub has at most one socket of the player, what it heard belongs to that
\* socket, and a socket's inputs arrive in the order of their numbers.
WiresInOrder ==
  /\ \A s, t \in Registered : s = t
  /\ Registered = {} => lastSequence = Unheard
  /\ \A s \in Sockets : /\ HeardOf(s) <= sockets[s].sequence
                         /\ Rising(sockets[s].wire, HeardOf(s), sockets[s].sequence)

\* The tokens left and the inputs heard since any of them never exceed what the
\* bucket held and was refilled with.
TokensAreSpent ==
  /\ heard # <<>> => bucket # NoBucket
  /\ bucket # NoBucket =>
       /\ bucket.lastRefillMs <= gateClock
       /\ \A i \in DOMAIN heard :
            /\ heard[i] <= bucket.lastRefillMs
            /\ TOKEN * (Len(heard) - i + 1) + bucket.tokens
                 <= Full + RATE * (bucket.lastRefillMs - heard[i])

SocketRanges == [state : {"unused", "opening", "registered", "gone"},
                 sequence : 0..MaxSequence, wire : Seq(Nat)]

\* GateTypeOK but for the one Boolean.
GateRanges ==
  /\ bucket \in [tokens : 0..Full, lastRefillMs : 0..MaxGateClock] \cup {NoBucket}
  /\ lastSequence \in Nat \cup {Unheard}
  /\ gateClock \in 0..MaxGateClock
  /\ heard \in Seq(0..MaxGateClock)

Ranges == GateRanges /\ sockets \in [Sockets -> SocketRanges]

GateInv == Ranges /\ moving \in BOOLEAN /\ WiresInOrder /\ TokensAreSpent /\ RateHolds

USE DEF Unheard

LEMMA Constants ==
  /\ RATE \in Nat /\ TOKEN \in Nat /\ BURST \in Nat /\ Full \in Nat
  /\ MaxGateClock \in Nat /\ MaxSequence \in Nat
<1>1. BURST \in Nat /\ TOKEN \in Nat /\ RATE \in Nat /\ MaxGateClock \in Nat /\ MaxSequence \in Nat
  BY GateAssumption
<1>2. BURST * TOKEN \in Nat
  BY <1>1
<1>. QED
  BY <1>1, <1>2 DEF Full

LEMMA NoBucketIsNone == ASSUME NEW b \in [tokens : 0..Full, lastRefillMs : 0..MaxGateClock]
                        PROVE  b # NoBucket
<1>1. b.tokens # -1
  BY Constants
<1>. QED
  BY <1>1 DEF NoBucket

LEMMA Distributes == ASSUME NEW k \in Int, NEW a \in Int, NEW b \in Int, NEW c \in Int
                     PROVE  k * (b - a) + k * (c - b) = k * (c - a)
OBVIOUS

LEMMA Products == ASSUME NEW a \in Int, NEW b \in Int PROVE a * b \in Int
OBVIOUS

LEMMA AppendRises ==
  ASSUME NEW wire \in Seq(Nat), NEW low \in Int, NEW high \in Nat, low <= high,
         Rising(wire, low, high)
  PROVE  Rising(Append(wire, high + 1), low, high + 1)
<1>. DEFINE more == Append(wire, high + 1)
<1>1. /\ Len(more) = Len(wire) + 1 /\ more[Len(wire) + 1] = high + 1
      /\ \A i \in 1..Len(wire) : more[i] = wire[i] /\ wire[i] \in Nat
      /\ Len(wire) \in Nat
  OBVIOUS
<1>. HIDE DEF more
<1>2. \A i \in 1..Len(wire) : low < wire[i] /\ wire[i] <= high
  BY DEF Rising
<1>3. ASSUME NEW i \in 1..Len(more) PROVE low < more[i] /\ more[i] <= high + 1
  <2>1. CASE i = Len(wire) + 1
    BY <1>1, <2>1
  <2>2. CASE i \in 1..Len(wire)
    <3>1. low < wire[i] /\ wire[i] <= high /\ wire[i] \in Nat /\ more[i] = wire[i]
      BY <1>1, <1>2, <2>2
    <3>. QED
      BY <3>1
  <2>. QED
    BY <1>1, <2>1, <2>2
<1>4. ASSUME NEW i \in 1..Len(more), NEW j \in 1..Len(more), i < j PROVE more[i] < more[j]
  <2>1. CASE j = Len(wire) + 1
    <3>1. i \in 1..Len(wire)
      BY <1>1, <1>4, <2>1
    <3>2. wire[i] <= high /\ wire[i] \in Nat /\ more[i] = wire[i] /\ more[j] = high + 1
      BY <1>1, <1>2, <2>1, <3>1
    <3>. QED
      BY <3>2
  <2>2. CASE j \in 1..Len(wire)
    BY <1>1, <1>4, <2>2 DEF Rising
  <2>. QED
    BY <1>1, <2>1, <2>2
<1>5. Rising(more, low, high + 1)
  BY <1>3, <1>4 DEF Rising
<1>. QED
  BY <1>5 DEF more

LEMMA TailRises ==
  ASSUME NEW wire \in Seq(Nat), wire # <<>>, NEW low \in Int, NEW high \in Nat,
         Rising(wire, low, high)
  PROVE  /\ Head(wire) \in Nat /\ low < Head(wire) /\ Head(wire) <= high
         /\ Tail(wire) \in Seq(Nat) /\ Rising(Tail(wire), Head(wire), high)
<1>. DEFINE less == Tail(wire)
<1>1. /\ Head(wire) = wire[1] /\ wire[1] \in Nat /\ Len(wire) \in Nat \ {0}
      /\ less \in Seq(Nat) /\ Len(less) = Len(wire) - 1
      /\ \A i \in 1..(Len(wire) - 1) : less[i] = wire[i + 1] /\ wire[i + 1] \in Nat
  OBVIOUS
<1>. HIDE DEF less
<1>2. 1 \in 1..Len(wire) /\ \A i \in 1..Len(less) : i + 1 \in 1..Len(wire) /\ 1 < i + 1
  BY <1>1
<1>3. \A i \in 1..Len(less) : Head(wire) < less[i] /\ less[i] <= high
  BY <1>1, <1>2 DEF Rising
<1>4. ASSUME NEW i \in 1..Len(less), NEW j \in 1..Len(less), i < j PROVE less[i] < less[j]
  <2>1. i + 1 < j + 1
    BY <1>4
  <2>. QED
    BY <1>1, <1>2, <2>1 DEF Rising
<1>5. Rising(less, Head(wire), high)
  BY <1>3, <1>4 DEF Rising
<1>6. low < wire[1] /\ wire[1] <= high
  BY <1>2 DEF Rising
<1>. QED
  BY <1>1, <1>5, <1>6 DEF less

LEMMA LowerStillRises ==
  ASSUME NEW wire \in Seq(Nat), NEW low, NEW high, Rising(wire, low, high)
  PROVE  Rising(wire, Unheard, high)
<1>1. \A i \in 1..Len(wire) : wire[i] \in Nat
  OBVIOUS
<1>. QED
  BY <1>1 DEF Rising

THEOREM GateInitial == GateInit => GateInv
<1> SUFFICES ASSUME GateInit PROVE GateInv
  OBVIOUS
<1>. USE DEF GateInit, NoSocket
<1>1. Ranges
  BY Constants DEF Ranges, GateRanges, SocketRanges
<1>2. WiresInOrder
  BY DEF WiresInOrder, Registered, HeardOf, Rising
<1>3. TokensAreSpent /\ RateHolds
  BY DEF TokensAreSpent, RateHolds
<1>4. moving \in BOOLEAN
  OBVIOUS
<1>. QED
  BY <1>1, <1>2, <1>3, <1>4 DEF GateInv

\* Steps that leave the gate alone, or empty it.
LEMMA GateAtRest ==
  ASSUME GateInv, gateClock' \in Nat, gateClock <= gateClock',
         UNCHANGED <<bucket, heard>> \/ releaseUser
  PROVE  TokensAreSpent' /\ RateHolds'
<1>1. CASE UNCHANGED <<bucket, heard>>
  <2>1. ASSUME bucket # NoBucket PROVE bucket.lastRefillMs <= gateClock'
    BY <2>1, Constants DEF GateInv, TokensAreSpent, Ranges, GateRanges
  <2>. QED
    BY <1>1, <2>1 DEF GateInv, TokensAreSpent, RateHolds
<1>2. CASE releaseUser
  BY <1>2 DEF releaseUser, TokensAreSpent, RateHolds
<1>. QED
  BY <1>1, <1>2

\* An input that is accepted is paid for.
LEMMA AcceptedIsPaid ==
  ASSUME GateInv, NEW q \in Nat, check(q, gateClock), UNCHANGED gateClock
  PROVE  /\ bucket' \in [tokens : 0..Full, lastRefillMs : 0..MaxGateClock] \cup {NoBucket}
         /\ heard' \in Seq(0..MaxGateClock)
         /\ TokensAreSpent' /\ RateHolds'
<1>. DEFINE moment == gateClock
            full == refill(moment)
<1>. USE Constants
<1>0. moment \in 0..MaxGateClock /\ heard \in Seq(0..MaxGateClock)
  BY DEF GateInv, Ranges, GateRanges
<1>1. CASE UNCHANGED <<bucket, heard>>
  BY <1>1, GateAtRest DEF GateInv, Ranges, GateRanges
<1>2. /\ full \in [tokens : 0..Full, lastRefillMs : 0..MaxGateClock]
      /\ full.lastRefillMs = moment
      /\ \A i \in DOMAIN heard :
           /\ heard[i] <= moment
           /\ TOKEN * (Len(heard) - i + 1) + full.tokens <= Full + RATE * (moment - heard[i])
  <2>1. CASE bucket = NoBucket
    BY <2>1, <1>0 DEF refill, GateInv, TokensAreSpent
  <2>2. CASE bucket # NoBucket
    <3>1. /\ bucket.tokens \in 0..Full /\ bucket.lastRefillMs \in 0..MaxGateClock
          /\ bucket.lastRefillMs <= moment
      BY <2>2 DEF GateInv, Ranges, GateRanges, TokensAreSpent
    <3>. DEFINE gain == RATE * (moment - bucket.lastRefillMs)
    <3>2. gain \in Nat
      BY <3>1, <1>0
    <3>3. full = [tokens |-> AtMost(Full, bucket.tokens + gain), lastRefillMs |-> moment]
      BY <2>2 DEF refill
    <3>4. AtMost(Full, bucket.tokens + gain) \in 0..Full
          /\ AtMost(Full, bucket.tokens + gain) <= bucket.tokens + gain
      <4>. HIDE DEF gain
      <4>. QED BY <3>1, <3>2 DEF AtMost
    <3>5. ASSUME NEW i \in DOMAIN heard
          PROVE  /\ heard[i] <= moment
                 /\ TOKEN * (Len(heard) - i + 1) + full.tokens <= Full + RATE * (moment - heard[i])
      <4>1. heard[i] \in 0..MaxGateClock /\ i \in 1..Len(heard) /\ Len(heard) \in Nat
        BY <1>0
      <4>2. heard[i] <= bucket.lastRefillMs
        BY <2>2, <3>5 DEF GateInv, TokensAreSpent
      <4>9. TOKEN * (Len(heard) - i + 1) + bucket.tokens
              <= Full + RATE * (bucket.lastRefillMs - heard[i])
        BY <2>2, <3>5 DEF GateInv, TokensAreSpent
      <4>3. full.tokens <= bucket.tokens + gain /\ full.tokens \in Nat
        BY <3>3, <3>4
      <4>. DEFINE used   == TOKEN * (Len(heard) - i + 1)
                  earned == RATE * (bucket.lastRefillMs - heard[i])
                  owed   == RATE * (moment - heard[i])
      <4>4. earned + gain = owed
        <5>. DEFINE h == heard[i]
                    l == bucket.lastRefillMs
        <5>1. h \in Int /\ l \in Int /\ gateClock \in Int
          BY <4>1, <3>1, <1>0
        <5>. HIDE DEF h, l
        <5>2. RATE * (l - h) + RATE * (gateClock - l) = RATE * (gateClock - h)
          BY <5>1, Distributes
        <5>. QED
          BY <5>2 DEF h, l
      <4>5. used \in Int /\ earned \in Int /\ owed \in Int
        <5>1. /\ Len(heard) - i + 1 \in Int /\ bucket.lastRefillMs - heard[i] \in Int
              /\ moment - heard[i] \in Int
          BY <4>1, <3>1, <1>0
        <5>. QED
          BY <5>1, Products
      <4>6. used + bucket.tokens <= Full + earned
        BY <4>9
      <4>7. used + full.tokens <= Full + owed
        <5>. HIDE DEF gain, full, used, earned, owed
        <5>. QED
          BY <4>3, <4>4, <4>5, <4>6, <3>1, <3>2
      <4>8. heard[i] <= moment
        BY <4>1, <4>2, <3>1, <1>0
      <4>. QED
        BY <4>7, <4>8
    <3>. QED
      BY <3>3, <3>4, <3>5, <1>0
  <2>. QED
    BY <2>1, <2>2
<1>3. CASE /\ full.tokens < TOKEN /\ bucket' = full /\ UNCHANGED heard
  <2>1. bucket' # NoBucket
    BY <1>2, <1>3, NoBucketIsNone
  <2>2. TokensAreSpent'
    BY <1>0, <1>2, <1>3, <2>1 DEF TokensAreSpent
  <2>. QED
    BY <1>0, <1>2, <1>3, <2>2 DEF GateInv, RateHolds
<1>4. CASE /\ full.tokens >= TOKEN
           /\ bucket' = [full EXCEPT !.tokens = @ - TOKEN]
           /\ heard' = Append(heard, moment)
  <2>1. /\ bucket' \in [tokens : 0..Full, lastRefillMs : 0..MaxGateClock]
        /\ bucket'.lastRefillMs = moment /\ bucket'.tokens = full.tokens - TOKEN
    BY <1>2, <1>4
  <2>2. /\ heard' \in Seq(0..MaxGateClock) /\ Len(heard') = Len(heard) + 1
        /\ \A i \in 1..Len(heard) : heard'[i] = heard[i]
        /\ heard'[Len(heard) + 1] = moment
        /\ DOMAIN heard' = 1..(Len(heard) + 1) /\ DOMAIN heard = 1..Len(heard)
    BY <1>0, <1>4
  <2>3. ASSUME NEW i \in DOMAIN heard'
        PROVE  /\ heard'[i] \in Nat /\ heard'[i] <= moment
               /\ TOKEN * (Len(heard') - i + 1) + bucket'.tokens <= Full + RATE * (moment - heard'[i])
    <3>. DEFINE used == TOKEN * (Len(heard) - i + 1)
                owed == RATE * (moment - heard[i])
                left == full.tokens
    <3>0. left \in Nat /\ left <= Full /\ bucket'.tokens = left - TOKEN
      BY <1>2, <2>1
    <3>1. CASE i \in DOMAIN heard
      <4>1. heard[i] <= moment /\ used + left <= Full + owed
        BY <1>2, <3>1
      <4>2. heard[i] \in Nat /\ heard'[i] = heard[i] /\ i \in Nat /\ Len(heard) \in Nat
        BY <1>0, <2>2, <3>1
      <4>3. TOKEN * (Len(heard') - i + 1) = used + TOKEN
        BY <2>2, <4>2
      <4>4. used \in Int /\ owed \in Int
        BY <4>2, <1>0
      <4>5. used + TOKEN + (left - TOKEN) <= Full + owed
        <5>. HIDE DEF used, owed, left
        <5>. QED
          BY <4>1, <4>4, <3>0
      <4>. QED
        BY <4>1, <4>2, <4>3, <4>5, <3>0
    <3>2. CASE i = Len(heard) + 1
      <4>1. heard'[i] = moment /\ Len(heard') - i + 1 = 1
        BY <2>2, <3>2, <1>0
      <4>2. TOKEN * (Len(heard') - i + 1) = TOKEN /\ RATE * (moment - heard'[i]) = 0
        BY <4>1, <1>0
      <4>. DEFINE cost == TOKEN * (Len(heard') - i + 1)
                  due  == RATE * (moment - heard'[i])
      <4>3. cost + bucket'.tokens <= Full + due
        <5>. HIDE DEF left, cost, due
        <5>. QED
          BY <4>2, <3>0 DEF cost, due
      <4>. QED
        BY <4>1, <4>3, <1>0
    <3>. QED
      BY <2>2, <3>1, <3>2
  <2>4. TokensAreSpent'
    BY <2>1, <2>3, <1>0, NoBucketIsNone DEF TokensAreSpent
  <2>5. RateHolds'
    <3> SUFFICES ASSUME NEW i \in DOMAIN heard', NEW j \in DOMAIN heard', i <= j
                 PROVE  (j - i + 1) * TOKEN <= Full + RATE * (heard'[j] - heard'[i])
      BY DEF RateHolds
    <3>1. CASE j \in DOMAIN heard
      <4>1. i \in DOMAIN heard /\ heard'[i] = heard[i] /\ heard'[j] = heard[j]
        BY <2>2, <3>1, <1>0
      <4>2. (j - i + 1) * TOKEN <= Full + RATE * (heard[j] - heard[i])
        BY <4>1, <3>1 DEF GateInv, RateHolds
      <4>. QED
        BY <4>1, <4>2
    <3>2. CASE j = Len(heard')
      <4>1. heard'[j] = moment
        BY <2>2, <3>2
      <4>2. TOKEN * (j - i + 1) + bucket'.tokens <= Full + RATE * (heard'[j] - heard'[i])
        BY <2>3, <3>2, <4>1
      <4>. DEFINE used == TOKEN * (j - i + 1)
                  owed == RATE * (heard'[j] - heard'[i])
      <4>3. i \in Nat /\ j \in Nat /\ heard'[i] \in Nat
        <5>1. i \in 1..Len(heard') /\ j \in 1..Len(heard') /\ Len(heard') \in Nat
          BY <2>2
        <5>. QED
          BY <5>1, <2>2
      <4>4. used = (j - i + 1) * TOKEN /\ used \in Int /\ owed \in Int
        BY <4>1, <4>3, <1>0
      <4>5. bucket'.tokens \in Nat
        BY <2>1
      <4>6. used <= Full + owed
        <5>. HIDE DEF used, owed
        <5>. QED
          BY <4>2, <4>4, <4>5 DEF used, owed
      <4>. QED
        BY <4>4, <4>6
    <3>. QED
      BY <2>2, <3>1, <3>2
  <2>. QED
    BY <2>1, <2>2, <2>4, <2>5
<1>. QED
  BY <1>1, <1>3, <1>4 DEF check

\* A socket's record may change, within its ranges.
LEMMA SocketChanges ==
  ASSUME sockets \in [Sockets -> SocketRanges], NEW s \in Sockets, NEW r \in SocketRanges,
         sockets' = [sockets EXCEPT ![s] = r]
  PROVE  sockets' \in [Sockets -> SocketRanges]
OBVIOUS

LEMMA RangesStay == ASSUME Ranges, GateInv, [GateNext]_gateVars PROVE Ranges'
<1>. USE Constants
<1>1. ASSUME NEW s \in Sockets, OpenSocket(s) PROVE Ranges'
  <2>1. sockets' = [sockets EXCEPT ![s] = [state |-> "opening", sequence |-> 0, wire |-> <<>>]]
    <3>1. [NoSocket EXCEPT !.state = "opening"] = [state |-> "opening", sequence |-> 0, wire |-> <<>>]
      BY DEF NoSocket
    <3>. QED
      BY <1>1, <3>1 DEF OpenSocket
  <2>2. [state |-> "opening", sequence |-> 0, wire |-> <<>>] \in SocketRanges
    BY DEF SocketRanges
  <2>3. sockets' \in [Sockets -> SocketRanges]
    BY <2>1, <2>2, SocketChanges DEF Ranges
  <2>. QED
    BY <1>1, <2>3 DEF OpenSocket, Ranges, GateRanges
<1>2. ASSUME NEW s \in Sockets, ConnectHub(s) PROVE Ranges'
  <2>1. sockets' \in [Sockets -> SocketRanges]
    BY <1>2 DEF ConnectHub, Ranges, SocketRanges
  <2>2. GateRanges'
    <3>1. UNCHANGED gateClock /\ (releaseUser \/ UNCHANGED <<bucket, lastSequence, heard>>)
      BY <1>2 DEF ConnectHub
    <3>2. CASE releaseUser
      <4>1. <<>> \in Seq(0..MaxGateClock)
        OBVIOUS
      <4>. QED
        BY <3>1, <3>2, <4>1 DEF releaseUser, Ranges, GateRanges
    <3>3. CASE UNCHANGED <<bucket, lastSequence, heard>>
      BY <3>1, <3>3 DEF Ranges, GateRanges
    <3>. QED
      BY <3>1, <3>2, <3>3
  <2>. QED
    BY <2>1, <2>2 DEF Ranges
<1>3. ASSUME NEW s \in Sockets, EndSocket(s) PROVE Ranges'
  <2>1. sockets' \in [Sockets -> SocketRanges]
    BY <1>3 DEF EndSocket, Ranges, SocketRanges
  <2>2. GateRanges'
    <3>1. UNCHANGED gateClock /\ (releaseUser \/ UNCHANGED <<bucket, lastSequence, heard>>)
      BY <1>3 DEF EndSocket
    <3>2. CASE releaseUser
      <4>1. <<>> \in Seq(0..MaxGateClock)
        OBVIOUS
      <4>. QED
        BY <3>1, <3>2, <4>1 DEF releaseUser, Ranges, GateRanges
    <3>3. CASE UNCHANGED <<bucket, lastSequence, heard>>
      BY <3>1, <3>3 DEF Ranges, GateRanges
    <3>. QED
      BY <3>1, <3>2, <3>3
  <2>. QED
    BY <2>1, <2>2 DEF Ranges
<1>4. ASSUME NEW s \in Sockets, SendDirection(s) PROVE Ranges'
  <2>1. sockets' \in [Sockets -> SocketRanges]
    <3>1. sockets[s].sequence + 1 \in 0..MaxSequence /\ sockets[s].wire \in Seq(Nat)
      BY <1>4 DEF SendDirection, Ranges, SocketRanges
    <3>2. Append(sockets[s].wire, sockets[s].sequence + 1) \in Seq(Nat)
      BY <3>1
    <3>. QED
      BY <1>4, <3>1, <3>2 DEF SendDirection, Ranges, SocketRanges
  <2>2. GateRanges'
    BY <1>4 DEF SendDirection, Ranges, GateRanges
  <2>. QED
    BY <2>1, <2>2 DEF Ranges
<1>5. ASSUME NEW s \in Sockets, ApplyInput(s) PROVE Ranges'
  <2>1. sockets[s].wire \in Seq(Nat) /\ sockets[s].wire # <<>>
    BY <1>5 DEF ApplyInput, Ranges, SocketRanges
  <2>2. Head(sockets[s].wire) \in Nat /\ Tail(sockets[s].wire) \in Seq(Nat)
    BY <2>1
  <2>3. sockets' \in [Sockets -> SocketRanges]
    BY <1>5, <2>2 DEF ApplyInput, Ranges, SocketRanges
  <2>4. CASE check(Head(sockets[s].wire), gateClock)
    <3>1. lastSequence' \in Nat \cup {Unheard}
      BY <2>2, <2>4 DEF check, Ranges, GateRanges
    <3>2. /\ bucket' \in [tokens : 0..Full, lastRefillMs : 0..MaxGateClock] \cup {NoBucket}
          /\ heard' \in Seq(0..MaxGateClock)
      BY <1>5, <2>2, <2>4, AcceptedIsPaid DEF ApplyInput
    <3>. QED
      BY <1>5, <2>3, <3>1, <3>2 DEF ApplyInput, Ranges, GateRanges
  <2>5. CASE UNCHANGED <<bucket, lastSequence, heard>>
    BY <1>5, <2>3, <2>5 DEF ApplyInput, Ranges, GateRanges
  <2>. QED
    BY <1>5, <2>4, <2>5 DEF ApplyInput
<1>6. ASSUME TogglePause \/ UNCHANGED gateVars PROVE Ranges'
  BY <1>6 DEF TogglePause, gateVars, Ranges, GateRanges
<1>7. ASSUME ElapseGate PROVE Ranges'
  BY <1>7 DEF ElapseGate, Ranges, GateRanges
<1>. QED
  BY <1>1, <1>2, <1>3, <1>4, <1>5, <1>6, <1>7 DEF GateNext

LEMMA MovingStays == ASSUME moving \in BOOLEAN, [GateNext]_gateVars PROVE (moving \in BOOLEAN)'
<1>1. ASSUME NEW s \in Sockets, OpenSocket(s) \/ SendDirection(s) \/ ApplyInput(s)
      PROVE  moving' \in BOOLEAN
  BY <1>1 DEF OpenSocket, SendDirection, ApplyInput
<1>2. ASSUME NEW s \in Sockets, ConnectHub(s) \/ EndSocket(s) PROVE moving' \in BOOLEAN
  BY <1>2 DEF ConnectHub, EndSocket
<1>3. ASSUME TogglePause \/ ElapseGate \/ UNCHANGED gateVars PROVE moving' \in BOOLEAN
  BY <1>3 DEF TogglePause, ElapseGate, gateVars
<1>. QED
  BY <1>1, <1>2, <1>3 DEF GateNext

LEMMA RateStays == ASSUME GateInv, [GateNext]_gateVars PROVE TokensAreSpent' /\ RateHolds'
<1>0. gateClock \in Nat
  BY Constants DEF GateInv, Ranges, GateRanges
<1>1. ASSUME NEW s \in Sockets, OpenSocket(s) \/ SendDirection(s) PROVE TokensAreSpent' /\ RateHolds'
  BY <1>0, <1>1, GateAtRest DEF OpenSocket, SendDirection
<1>2. ASSUME NEW s \in Sockets, ConnectHub(s) \/ EndSocket(s) PROVE TokensAreSpent' /\ RateHolds'
  BY <1>0, <1>2, GateAtRest DEF ConnectHub, EndSocket
<1>3. ASSUME NEW s \in Sockets, ApplyInput(s) PROVE TokensAreSpent' /\ RateHolds'
  <2>1. sockets[s].wire \in Seq(Nat) /\ sockets[s].wire # <<>>
    BY <1>3 DEF ApplyInput, GateInv, Ranges, SocketRanges
  <2>2. Head(sockets[s].wire) \in Nat
    BY <2>1
  <2>. QED
    BY <1>0, <1>3, <2>2, GateAtRest, AcceptedIsPaid DEF ApplyInput
<1>4. ASSUME TogglePause \/ ElapseGate \/ UNCHANGED gateVars PROVE TokensAreSpent' /\ RateHolds'
  BY <1>0, <1>4, GateAtRest DEF TogglePause, ElapseGate, gateVars
<1>. QED
  BY <1>1, <1>2, <1>3, <1>4 DEF GateNext

LEMMA OrderStays == ASSUME Ranges, WiresInOrder, [GateNext]_gateVars PROVE WiresInOrder'
<1>. USE DEF Registered, HeardOf
<1>0. /\ lastSequence \in Nat \cup {Unheard}
      /\ \A t \in Sockets : /\ sockets[t].wire \in Seq(Nat) /\ sockets[t].sequence \in Nat
                             /\ HeardOf(t) \in Int
  BY Constants DEF Ranges, GateRanges, SocketRanges
<1>1. ASSUME NEW s \in Sockets, OpenSocket(s) PROVE WiresInOrder'
  <2>1. /\ sockets'[s] = [state |-> "opening", sequence |-> 0, wire |-> <<>>]
        /\ \A t \in Sockets \ {s} : sockets'[t] = sockets[t]
        /\ lastSequence' = lastSequence
    BY <1>1 DEF OpenSocket, NoSocket, Ranges
  <2>2. s \notin Registered /\ Registered' = Registered
    BY <1>1, <2>1 DEF OpenSocket
  <2>3. Rising(sockets'[s].wire, Unheard, 0)
    BY <2>1 DEF Rising
  <2>4. \A t \in Sockets \ {s} : HeardOf(t)' = HeardOf(t)
    BY <2>1, <2>2
  <2>5. HeardOf(s)' = Unheard
    BY <2>2
  <2>. QED
    BY <2>1, <2>2, <2>3, <2>4, <2>5 DEF WiresInOrder
<1>2. ASSUME NEW s \in Sockets, ConnectHub(s) PROVE WiresInOrder'
  <2>1. /\ \A t \in Sockets : /\ sockets'[t].wire = sockets[t].wire
                               /\ sockets'[t].sequence = sockets[t].sequence
        /\ Registered' = {s}
    BY <1>2 DEF ConnectHub, Ranges, SocketRanges
  <2>2. lastSequence' = Unheard
    BY <1>2 DEF ConnectHub, releaseUser, WiresInOrder
  <2>3. \A t \in Sockets : HeardOf(t)' = Unheard
    BY <2>2
  <2>4. \A t \in Sockets : Rising(sockets[t].wire, Unheard, sockets[t].sequence)
    BY <1>0, LowerStillRises DEF WiresInOrder
  <2>. QED
    BY <1>0, <2>1, <2>2, <2>3, <2>4 DEF WiresInOrder
<1>3. ASSUME NEW s \in Sockets, EndSocket(s) PROVE WiresInOrder'
  <2>1. /\ \A t \in Sockets : /\ sockets'[t].wire = sockets[t].wire
                               /\ sockets'[t].sequence = sockets[t].sequence
        /\ Registered' = Registered \ {s}
    BY <1>3 DEF EndSocket, Ranges, SocketRanges
  <2>2. CASE s \in Registered
    <3>1. Registered' = {} /\ lastSequence' = Unheard
      BY <1>3, <2>1, <2>2 DEF EndSocket, releaseUser, WiresInOrder
    <3>2. \A t \in Sockets : HeardOf(t)' = Unheard
      BY <3>1
    <3>3. \A t \in Sockets : Rising(sockets[t].wire, Unheard, sockets[t].sequence)
      BY <1>0, LowerStillRises DEF WiresInOrder
    <3>. QED
      BY <1>0, <2>1, <3>1, <3>2, <3>3 DEF WiresInOrder
  <2>3. CASE s \notin Registered
    <3>1. Registered' = Registered /\ lastSequence' = lastSequence
      BY <1>3, <2>1, <2>3 DEF EndSocket
    <3>2. \A t \in Sockets : HeardOf(t)' = HeardOf(t)
      BY <3>1
    <3>. QED
      BY <2>1, <3>1, <3>2 DEF WiresInOrder
  <2>. QED
    BY <2>2, <2>3
<1>4. ASSUME NEW s \in Sockets, SendDirection(s) PROVE WiresInOrder'
  <2>1. /\ sockets'[s].wire = Append(sockets[s].wire, sockets[s].sequence + 1)
        /\ sockets'[s].sequence = sockets[s].sequence + 1
        /\ sockets'[s].state = sockets[s].state
        /\ \A t \in Sockets \ {s} : sockets'[t] = sockets[t]
        /\ lastSequence' = lastSequence
    BY <1>4 DEF SendDirection, Ranges, SocketRanges
  <2>2. Registered' = Registered /\ \A t \in Sockets : HeardOf(t)' = HeardOf(t)
    BY <2>1
  <2>3. /\ HeardOf(s) <= sockets[s].sequence
        /\ Rising(sockets[s].wire, HeardOf(s), sockets[s].sequence)
    BY DEF WiresInOrder
  <2>4. Rising(Append(sockets[s].wire, sockets[s].sequence + 1), HeardOf(s), sockets[s].sequence + 1)
    BY <1>0, <2>3, AppendRises
  <2>5. HeardOf(s) <= sockets[s].sequence + 1
    BY <1>0, <2>3
  <2>6. \A t \in Sockets : /\ HeardOf(t)' <= sockets'[t].sequence
                           /\ Rising(sockets'[t].wire, HeardOf(t)', sockets'[t].sequence)
    BY <2>1, <2>2, <2>4, <2>5 DEF WiresInOrder
  <2>. QED
    BY <2>1, <2>2, <2>6 DEF WiresInOrder
<1>5. ASSUME NEW s \in Sockets, ApplyInput(s) PROVE WiresInOrder'
  <2>. DEFINE w == sockets[s].wire
  <2>1. /\ sockets'[s].wire = Tail(w) /\ sockets'[s].sequence = sockets[s].sequence
        /\ sockets'[s].state = sockets[s].state
        /\ \A t \in Sockets \ {s} : sockets'[t] = sockets[t]
        /\ w # <<>>
    BY <1>5 DEF ApplyInput, Ranges, SocketRanges
  <2>2. Registered' = Registered
    BY <2>1
  <2>3. /\ Head(w) \in Nat /\ HeardOf(s) < Head(w) /\ Head(w) <= sockets[s].sequence
        /\ Tail(w) \in Seq(Nat) /\ Rising(Tail(w), Head(w), sockets[s].sequence)
    BY <1>0, <2>1, TailRises DEF WiresInOrder
  <2>4. \A i \in 1..Len(Tail(w)) : Tail(w)[i] \in Nat
    BY <2>3
  <2>5. Rising(Tail(w), HeardOf(s), sockets[s].sequence)
    <3>. DEFINE less == Tail(w)
    <3>. HIDE DEF w, less
    <3>. QED
      BY <1>0, <2>3, <2>4 DEF Rising, less
  <2>6. CASE lastSequence' = lastSequence
    <3>1. \A t \in Sockets : HeardOf(t)' = HeardOf(t)
      BY <2>2, <2>6
    <3>. QED
      BY <2>1, <2>2, <2>5, <2>6, <3>1 DEF WiresInOrder
  <2>7. CASE s \in Registered /\ lastSequence' = Head(w)
    <3>1. HeardOf(s)' = Head(w) /\ \A t \in Sockets \ {s} : HeardOf(t)' = HeardOf(t)
      BY <2>2, <2>7 DEF WiresInOrder
    <3>. QED
      BY <2>1, <2>2, <2>3, <2>7, <3>1 DEF WiresInOrder
  <2>8. lastSequence' = lastSequence \/ (s \in Registered /\ lastSequence' = Head(w))
    BY <1>5 DEF ApplyInput, check
  <2>. QED
    BY <2>6, <2>7, <2>8
<1>6. ASSUME TogglePause \/ ElapseGate \/ UNCHANGED gateVars PROVE WiresInOrder'
  <2>1. UNCHANGED <<sockets, lastSequence>>
    BY <1>6 DEF TogglePause, ElapseGate, gateVars
  <2>. QED
    BY <2>1 DEF WiresInOrder
<1>. QED
  BY <1>1, <1>2, <1>3, <1>4, <1>5, <1>6 DEF GateNext

THEOREM GateInvariance == GateSpec => []GateInv
<1>1. GateInv /\ [GateNext]_gateVars => GateInv'
  BY RangesStay, MovingStays, RateStays, OrderStays DEF GateInv
<1>. QED
  BY <1>1, GateInitial, PTL DEF GateSpec

\* No input of the socket that has the player's place is taken for an old one,
\* for any number of sockets and however far the numbers run.
THEOREM InputsHeardInOrderAlways == GateSpec => []InputsHeardInOrder
<1>1. GateInv => InputsHeardInOrder
  <2> SUFFICES ASSUME GateInv, NEW s \in Registered, NEW i \in DOMAIN sockets[s].wire
               PROVE  ~Stale(sockets[s].wire[i])
    BY DEF InputsHeardInOrder
  <2>. DEFINE w == sockets[s].wire
  <2>2. w \in Seq(Nat) /\ lastSequence \in Int
    BY DEF GateInv, Ranges, GateRanges, SocketRanges, Registered
  <2>3. i \in 1..Len(w) /\ w[i] \in Nat
    BY <2>2
  <2>4. Rising(w, lastSequence, sockets[s].sequence)
    BY DEF GateInv, WiresInOrder, HeardOf, Registered
  <2>1. lastSequence < w[i] /\ w[i] \in Nat /\ lastSequence \in Int
    BY <2>2, <2>3, <2>4 DEF Rising
  <2>. QED
    BY <2>1 DEF Stale
<1>. QED
  BY <1>1, GateInvariance, PTL

\* Whatever window is laid over the inputs of a connection, the burst and the
\* rate bound those accepted in it.
THEOREM RateHoldsAlways == GateSpec => []RateHolds
<1>1. GateInv => RateHolds
  BY DEF GateInv
<1>. QED
  BY <1>1, GateInvariance, PTL

-----------------------------------------------------------------------------
(* The heartbeat, for any interval, timeout and number of pongs under way. *)

BeatRanges ==
  /\ pingAt \in Nat \cup {Off} /\ timeoutAt \in Nat \cup {Off}
  /\ beatClock \in Nat /\ heardAt \in Nat

\* Both timers run or none; they run for the connection that has its place and
\* was not cut off, and the timeout is counted from what was last heard.
TimersAgree ==
  /\ pingAt # Off <=> timeoutAt # Off
  /\ place = "registered" /\ cut = "no" <=> timeoutAt # Off
  /\ timeoutAt # Off => timeoutAt = heardAt + HEARTBEAT_TIMEOUT_MS /\ beatClock <= timeoutAt
  /\ place = "new" => cut = "no"

BeatInv == BeatRanges /\ TimersAgree /\ HeardAreSpared

THEOREM BeatInvariance == BeatSpec => []BeatInv
<1>. USE BeatAssumption DEF Off
<1>1. BeatInit => BeatInv
  BY DEF BeatInit, BeatInv, BeatRanges, TimersAgree, HeardAreSpared
<1>2. BeatInv /\ [BeatNext]_beatVars => BeatInv'
  <2> SUFFICES ASSUME BeatInv, [BeatNext]_beatVars PROVE BeatInv'
    OBVIOUS
  <2>. USE DEF BeatInv, BeatRanges, TimersAgree, HeardAreSpared, Beating
  <2>1. CASE Start \/ StartSkipped
    BY <2>1 DEF Start, StartSkipped, armTimeout
  <2>2. CASE Ping
    <3>1. pingAt # Off
      BY <2>2 DEF Ping, Due
    <3>2. CASE terminateSilent("ping failed")
      BY <3>1, <3>2 DEF terminateSilent, stopTimers
    <3>3. CASE pingAt' = pingAt + HEARTBEAT_PING_INTERVAL_MS
               /\ UNCHANGED <<timeoutAt, beatClock, place, heardAt, cut>>
      <4>1. BeatRanges'
        BY <3>1, <3>3
      <4>2. TimersAgree'
        BY <3>1, <3>3
      <4>3. HeardAreSpared'
        BY <3>3
      <4>. QED
        BY <4>1, <4>2, <4>3
    <3>. QED
      BY <2>2, <3>2, <3>3 DEF Ping
  \* The timeout is due: nothing was heard since it was set.
  <2>3. CASE TimeoutFires
    BY <2>3 DEF TimeoutFires, Due, terminateSilent, stopTimers
  <2>4. CASE Pong
    <3>1. UNCHANGED <<pingAt, beatClock, place, cut>>
      BY <2>4 DEF Pong
    <3>2. CASE Beating
      <4>1. timeoutAt' = beatClock + HEARTBEAT_TIMEOUT_MS /\ heardAt' = beatClock
        BY <2>4, <3>2 DEF Pong, acknowledge, armTimeout
      <4>2. BeatRanges'
        BY <3>1, <4>1
      <4>3. TimersAgree'
        BY <3>1, <3>2, <4>1
      <4>4. HeardAreSpared'
        BY <3>1, <3>2
      <4>. QED
        BY <4>2, <4>3, <4>4
    <3>3. CASE ~Beating
      <4>1. UNCHANGED <<timeoutAt, heardAt>>
        BY <2>4, <3>3 DEF Pong, acknowledge
      <4>. QED
        BY <3>1, <4>1
    <3>. QED
      BY <3>2, <3>3
  <2>5. CASE LosePlace
    BY <2>5 DEF LosePlace, stopTimers
  <2>6. CASE CloseEvent
    BY <2>6 DEF CloseEvent, stopTimers
  <2>7. CASE PeerFallsSilent
    BY <2>7 DEF PeerFallsSilent
  <2>8. CASE ElapseBeat
    <3>1. /\ beatClock' = beatClock + 1
          /\ UNCHANGED <<pingAt, timeoutAt, place, heardAt, cut>>
      BY <2>8 DEF ElapseBeat
    <3>2. timeoutAt = Off \/ beatClock < timeoutAt
      BY <2>8 DEF ElapseBeat, Due
    <3>3. BeatRanges'
      BY <3>1
    <3>4. TimersAgree'
      BY <3>1, <3>2
    <3>5. HeardAreSpared'
      BY <3>1
    <3>. QED
      BY <3>3, <3>4, <3>5
  <2>9. CASE UNCHANGED beatVars
    BY <2>9 DEF beatVars
  <2>. QED
    BY <2>1, <2>2, <2>3, <2>4, <2>5, <2>6, <2>7, <2>8, <2>9 DEF BeatNext
<1>. QED
  BY <1>1, <1>2, PTL DEF BeatSpec

\* OnlyTheSilentAreCut holds always (heartbeat.ts:24-62; gameHub.ts:232-234,
\* 341-388).
THEOREM OnlyTheSilentAreCutAlways == BeatSpec => []OnlyTheSilentAreCut
<1>1. BeatInv => OnlyTheSilentAreCut
  BY BeatAssumption DEF BeatInv, BeatRanges, TimersAgree, HeardAreSpared, OnlyTheSilentAreCut, SilentAreNoticed,
     TimersEndWithPlace, Beating, Off
<1>. QED
  BY <1>1, BeatInvariance, PTL

-----------------------------------------------------------------------------
(* The snapshots on their way to a client (LatestSnapshotBuffer), for any   *)
(* number of them, any time and any patience with a congested socket.       *)

\* Every snapshot so far has one fate, the sends not answered are of snapshots
\* enqueued, and the one that waits is the newest and is not being sent.
Fates ==
  /\ ToldOnce
  /\ link.sending \subseteq 1..lastSnap
  /\ link.pending # None => link.pending = lastSnap
  /\ link.pending \notin link.sending

\* A closed buffer holds and plans nothing, and a retry is never overdue.
Retries ==
  /\ link.closed => link.pending = None /\ link.retryAt = Never
  /\ link.retryAt # Never => link.retryAt \in snapClock .. snapClock + RETRY_INTERVAL_MS
  /\ link.pending # None => link.retryAt # Never

\* While a socket is congested a retry is coming before patience has run out for
\* longer than one interval, and whatever waits has waited since no earlier.
Congestion ==
  /\ link.congestedAt # Never /\ ~link.closed =>
       /\ link.congestedAt <= snapClock
       /\ link.retryAt # Never
       /\ link.retryAt <= link.congestedAt + MAX_CONGESTION_MS + RETRY_INTERVAL_MS
  /\ link.pending # None =>
       /\ link.congestedAt # Never
       /\ link.congestedAt <= waitingSince

SnapInv == SnapTypeOK /\ Fates /\ Retries /\ Congestion

\* What drain does with a link that is not closed: the connection is given up,
\* the snapshot goes on waiting, or it is sent.
GivenUp(l, m) ==
  /\ m.closed
  /\ m.pending = None
  /\ m.retryAt = Never
  /\ m.sending = l.sending
  /\ m.dropped = l.dropped \cup Waiting(l)

KeptWaiting(l, m) ==
  /\ m.closed = l.closed
  /\ m.pending = l.pending
  /\ m.sending = l.sending
  /\ m.dropped = l.dropped
  /\ m.congestedAt = IF l.congestedAt = Never THEN snapClock ELSE l.congestedAt
  /\ snapClock < m.congestedAt + MAX_CONGESTION_MS
  /\ m.retryAt = IF l.retryAt = Never THEN snapClock + RETRY_INTERVAL_MS ELSE l.retryAt

HandedOver(l, m) ==
  /\ m.closed = l.closed
  /\ m.pending = None
  /\ m.sending = l.sending \cup Waiting(l)
  /\ m.dropped = l.dropped
  /\ m.congestedAt = Never
  /\ m.retryAt = l.retryAt

LEMMA SnapTimes ==
  /\ MAX_CONGESTION_MS \in Nat /\ MAX_CONGESTION_MS > 0
  /\ RETRY_INTERVAL_MS \in Nat /\ RETRY_INTERVAL_MS > 0
  /\ MaxSnapshots \in Nat /\ MaxSnapClock \in Nat
BY SnapAssumption

LEMMA WaitingAreSnapshots ==
  ASSUME NEW l \in Link PROVE Waiting(l) \subseteq Snapshots /\ Waiting(l) = IF l.pending = None THEN {} ELSE {l.pending}
BY DEF Link, Waiting

LEMMA CloseIs ==
  ASSUME NEW l \in Link
  PROVE  close(l) \in Link /\ GivenUp(l, close(l))
<1>1. Waiting(l) \subseteq Snapshots
  BY WaitingAreSnapshots
<1>2. l.dropped \cup Waiting(l) \in SUBSET Snapshots
  BY <1>1 DEF Link
<1> QED BY <1>2 DEF Link, close, GivenUp

LEMMA TerminateIs ==
  ASSUME NEW l \in Link, ~l.closed
  PROVE  terminate(l) \in Link /\ GivenUp(l, terminate(l))
<1>1. terminate(l) = [close(l) EXCEPT !.open = FALSE]
  BY DEF terminate
<1>2. close(l) \in Link /\ GivenUp(l, close(l))
  BY CloseIs
<1> QED BY <1>1, <1>2 DEF Link, GivenUp

LEMMA CongestedIs ==
  ASSUME NEW l \in Link, snapClock \in Nat
  PROVE  /\ congested(l) \in Link
         /\ congested(l) =
              [l EXCEPT !.congestedAt = IF l.congestedAt = Never THEN snapClock ELSE l.congestedAt]
BY DEF Link, congested

\* What becomes of a link that is drained (latestSnapshotBuffer.ts:72-127).
LEMMA DrainIs ==
  ASSUME NEW l \in Link, ~l.closed, snapClock \in Nat, level \in Levels
  PROVE  /\ drain(l) \in Link
         /\ \/ GivenUp(l, drain(l))
            \/ KeptWaiting(l, drain(l))
            \/ HandedOver(l, drain(l))
<1>1. CASE ~l.open
  BY <1>1, CloseIs DEF drain
<1>2. CASE l.open /\ level = "at hard limit"
  BY <1>2, TerminateIs DEF drain
<1>3. CASE l.open /\ level = "over soft limit"
  <2> DEFINE c == congested(l)
  <2>1. drain(l) = IF snapClock - c.congestedAt >= MAX_CONGESTION_MS THEN terminate(c) ELSE armRetry(c)
    BY <1>3 DEF drain
  <2>2. /\ c \in Link
        /\ c = [l EXCEPT !.congestedAt = IF l.congestedAt = Never THEN snapClock ELSE l.congestedAt]
    BY CongestedIs
  <2>3. /\ c.closed = l.closed /\ c.pending = l.pending /\ c.sending = l.sending
        /\ c.dropped = l.dropped /\ c.retryAt = l.retryAt
        /\ c.congestedAt = IF l.congestedAt = Never THEN snapClock ELSE l.congestedAt
        /\ Waiting(c) = Waiting(l)
    BY <2>2 DEF Link, Waiting
  <2> HIDE DEF c
  <2>4. CASE snapClock - c.congestedAt >= MAX_CONGESTION_MS
    <3>1. drain(l) = terminate(c)
      BY <2>1, <2>4
    <3>2. terminate(c) \in Link /\ GivenUp(c, terminate(c))
      BY <2>2, <2>3, TerminateIs
    <3>3. GivenUp(l, terminate(c))
      BY <2>3, <3>2 DEF GivenUp
    <3> QED BY <3>1, <3>2, <3>3
  <2>5. CASE ~(snapClock - c.congestedAt >= MAX_CONGESTION_MS)
    <3>1. drain(l) = armRetry(c)
      BY <2>1, <2>5
    <3>2. c.congestedAt \in Nat
      BY <2>3 DEF Link, Never
    <3>3. snapClock < c.congestedAt + MAX_CONGESTION_MS
      BY <2>5, <3>2, SnapTimes
    <3>4. /\ armRetry(c) \in Link
          /\ armRetry(c) = [c EXCEPT !.retryAt = IF c.retryAt = Never THEN snapClock + RETRY_INTERVAL_MS
                                                 ELSE c.retryAt]
      <4>1. CASE c.retryAt = Never
        <5> DEFINE due == snapClock + RETRY_INTERVAL_MS
        <5>1. armRetry(c) = [c EXCEPT !.retryAt = due]
          BY <4>1 DEF armRetry
        <5>2. due \in Nat
          BY SnapTimes
        <5> HIDE DEF due
        <5>3. [c EXCEPT !.retryAt = due] \in Link
          BY <2>2, <5>2 DEF Link
        <5>4. armRetry(c) = [c EXCEPT !.retryAt = IF c.retryAt = Never THEN due ELSE c.retryAt]
          BY <4>1, <5>1
        <5> QED BY <5>1, <5>3, <5>4 DEF due
      <4>2. CASE c.retryAt # Never
        <5>1. armRetry(c) = c
          BY <4>2 DEF armRetry
        <5>2. c = [c EXCEPT !.retryAt = c.retryAt]
          BY <2>2 DEF Link
        <5> QED BY <2>2, <4>2, <5>1, <5>2
      <4> QED BY <4>1, <4>2
    <3>5. /\ armRetry(c).closed = c.closed /\ armRetry(c).pending = c.pending
          /\ armRetry(c).sending = c.sending /\ armRetry(c).dropped = c.dropped
          /\ armRetry(c).congestedAt = c.congestedAt
          /\ armRetry(c).retryAt = IF c.retryAt = Never THEN snapClock + RETRY_INTERVAL_MS ELSE c.retryAt
      BY <2>2, <3>4 DEF Link
    <3> QED BY <2>3, <3>1, <3>3, <3>4, <3>5 DEF KeptWaiting
  <2> QED BY <2>4, <2>5
<1>4. CASE l.open /\ level = "clear"
  <2>1. drain(l) = sent(l)
    BY <1>4 DEF drain
  <2>2. l.sending \cup Waiting(l) \in SUBSET Snapshots
    BY WaitingAreSnapshots DEF Link
  <2> QED BY <2>1, <2>2 DEF Link, sent, HandedOver
<1> QED BY <1>1, <1>2, <1>3, <1>4 DEF Levels, Link

\* A drained link keeps the invariant, whatever drain did with it, when the link
\* it drained had one fate for every snapshot and a retry that was not overdue.
LEMMA DrainKeeps ==
  ASSUME SnapTypeOK, NEW l \in Link, ~l.closed,
         link' = drain(l), Tell({}), lastSnap' \in Snapshots \cup {None}, lastSnap' >= lastSnap,
         UNCHANGED <<level, snapClock>>,
         l.pending # None => l.pending = lastSnap',
         l.pending \notin l.sending,
         l.sending \subseteq 1..lastSnap,
         l.dropped \cap (l.sending \cup Waiting(l)) = {},
         \A n \in Snapshots :
           told[n] = IF n <= lastSnap' /\ n \notin Waiting(l) \cup l.sending \cup l.dropped THEN 1 ELSE 0,
         l.dropped \subseteq 1..lastSnap,
         l.retryAt # Never => l.retryAt \in snapClock .. snapClock + RETRY_INTERVAL_MS,
         l.congestedAt # Never =>
           /\ l.congestedAt <= snapClock
           /\ l.retryAt # Never => l.retryAt <= l.congestedAt + MAX_CONGESTION_MS + RETRY_INTERVAL_MS,
         link.pending # None => l.congestedAt # Never /\ l.congestedAt <= waitingSince,
         link.pending # None => l.pending # None
  PROVE  SnapInv'
<1>0. /\ link \in Link /\ snapClock \in Nat /\ level \in Levels /\ lastSnap \in Nat
      /\ told \in [Snapshots -> Nat] /\ waitingSince \in Nat \cup {Never}
      /\ lastSnap' \in Nat
  BY SnapTimes DEF SnapTypeOK, Snapshots, None
<1>1. /\ link' \in Link
      /\ \/ GivenUp(l, link')
         \/ KeptWaiting(l, link')
         \/ HandedOver(l, link')
  BY <1>0, DrainIs
<1>2. /\ told' = [n \in Snapshots |-> told[n] + (IF n \in link'.dropped THEN 1 ELSE 0)]
      /\ waitingSince' = IF link'.pending = None THEN Never
                         ELSE IF link.pending = None THEN snapClock ELSE waitingSince
  BY <1>0 DEF Tell
<1>3. waitingSince' \in Nat \cup {Never}
  BY <1>0, <1>2
<1>4. told' \in [Snapshots -> Nat]
  BY <1>0, <1>2
<1>5. SnapTypeOK'
  BY <1>0, <1>1, <1>3, <1>4 DEF SnapTypeOK
<1>6. Waiting(l) = IF l.pending = None THEN {} ELSE {l.pending}
  BY WaitingAreSnapshots
<1>7. Waiting(link') = IF link'.pending = None THEN {} ELSE {link'.pending}
  BY <1>1, WaitingAreSnapshots
<1>8. Waiting(l) \subseteq Snapshots /\ l.sending \subseteq Snapshots /\ l.dropped \subseteq Snapshots
  BY WaitingAreSnapshots DEF Link
<1>9. ASSUME NEW n \in Snapshots
      PROVE  told'[n] = IF n <= lastSnap' /\ n \notin Waiting(link') \cup link'.sending THEN 1 ELSE 0
  <2>0. n \in Nat /\ n > 0 /\ (n \in 1..lastSnap => n <= lastSnap')
    BY <1>0, SnapTimes DEF Snapshots
  <2>1. told'[n] = told[n] + (IF n \in link'.dropped THEN 1 ELSE 0)
    BY <1>2
  <2>2. told[n] = IF n <= lastSnap' /\ n \notin Waiting(l) \cup l.sending \cup l.dropped THEN 1 ELSE 0
    OBVIOUS
  <2>3. n \in l.dropped => n <= lastSnap'
    BY <2>0
  <2>4. n \in Waiting(l) => n <= lastSnap'
    BY <1>0, <1>6, <2>0
  <2>5. CASE GivenUp(l, link')
    <3>1. (n \in link'.dropped <=> n \in l.dropped \cup Waiting(l)) /\ Waiting(link') = {} /\ link'.sending = l.sending
      BY <2>5, <1>7 DEF GivenUp
    <3> QED BY <1>6, <2>1, <2>2, <2>3, <2>4, <3>1
  <2>6. CASE KeptWaiting(l, link')
    <3>1. link'.dropped = l.dropped /\ Waiting(link') = Waiting(l) /\ link'.sending = l.sending
      BY <2>6, <1>6, <1>7 DEF KeptWaiting
    <3> QED BY <2>1, <2>2, <2>3, <2>4, <3>1
  <2>7. CASE HandedOver(l, link')
    <3>1. link'.dropped = l.dropped /\ Waiting(link') = {} /\ link'.sending = l.sending \cup Waiting(l)
      BY <2>7, <1>7 DEF HandedOver
    <3> QED BY <2>1, <2>2, <2>3, <2>4, <3>1
  <2> QED BY <1>1, <2>5, <2>6, <2>7
<1>10. ToldOnce'
  BY <1>9 DEF ToldOnce, Snapshots
<1>11. 1..lastSnap \subseteq 1..lastSnap'
  BY <1>0
<1>12. Waiting(l) \subseteq 1..lastSnap'
  BY <1>0, <1>6, <1>8 DEF Snapshots
<1>13. Fates'
  <2>1. None \notin link'.sending
    BY <1>1 DEF Link, Snapshots, None
  <2> QED BY <1>1, <1>6, <1>7, <1>10, <1>11, <1>12, <2>1 DEF Fates, GivenUp, KeptWaiting, HandedOver
<1>14. l.retryAt \in Nat \cup {Never} /\ l.congestedAt \in Nat \cup {Never}
  BY DEF Link
<1>15. Retries'
  <2>1. CASE GivenUp(l, link')
    BY <2>1 DEF GivenUp, Retries
  <2>2. CASE KeptWaiting(l, link')
    BY <1>0, <1>14, <2>2, SnapTimes DEF KeptWaiting, Retries, Never
  <2>3. CASE HandedOver(l, link')
    BY <1>0, <1>14, <2>3, SnapTimes DEF HandedOver, Retries, Never
  <2> QED BY <1>1, <2>1, <2>2, <2>3
<1>16. Congestion'
  <2>1. CASE GivenUp(l, link')
    BY <2>1 DEF GivenUp, Congestion
  <2>2. CASE KeptWaiting(l, link')
    BY <1>0, <1>2, <1>14, <2>2, SnapTimes DEF KeptWaiting, Congestion, Never
  <2>3. CASE HandedOver(l, link')
    BY <2>3 DEF HandedOver, Congestion
  <2> QED BY <1>1, <2>1, <2>2, <2>3
<1> QED BY <1>5, <1>13, <1>15, <1>16 DEF SnapInv

\* The invariant of the buffer holds of every behaviour.
THEOREM SnapInvariance == SnapSpec => []SnapInv
<1>1. SnapInit => SnapInv
  <2>1. SnapInit => SnapTypeOK
    BY SnapTimes DEF SnapInit, SnapTypeOK, Link, NewLink, Levels, None, Never
  <2> QED BY <2>1 DEF SnapInit, SnapInv, Fates, Retries, Congestion, NewLink, ToldOnce, Snapshots, None, Never, Waiting
<1>2. SnapInv /\ [SnapNext]_snapVars => SnapInv'
  <2> SUFFICES ASSUME SnapInv, [SnapNext]_snapVars PROVE SnapInv'
    OBVIOUS
  <2>0. /\ SnapTypeOK /\ Fates /\ Retries /\ Congestion
        /\ link \in Link /\ snapClock \in Nat /\ level \in Levels /\ lastSnap \in Nat
        /\ lastSnap \in {None} \cup Snapshots
        /\ told \in [Snapshots -> Nat] /\ waitingSince \in Nat \cup {Never}
    BY SnapTimes DEF SnapInv, SnapTypeOK, Snapshots, None
  <2>1. Waiting(link) = IF link.pending = None THEN {} ELSE {link.pending}
    BY <2>0, WaitingAreSnapshots
  <2>2. /\ link.sending \subseteq Snapshots /\ link.pending \in {None} \cup Snapshots
        /\ link.retryAt \in Nat \cup {Never} /\ link.congestedAt \in Nat \cup {Never}
        /\ link.closed \in BOOLEAN
    BY <2>0 DEF Link
  <2>3. \A n \in Snapshots : n \in Nat /\ n > 0
    BY SnapTimes DEF Snapshots
  <2>4. ASSUME Enqueue PROVE SnapInv'
    <3> DEFINE l == [link EXCEPT !.dropped = Waiting(link), !.pending = lastSnap + 1]
    <3>1. /\ lastSnap < MaxSnapshots /\ ~link.closed /\ lastSnap' = lastSnap + 1
          /\ link' = drain(l) /\ Tell({}) /\ UNCHANGED <<level, snapClock>>
      BY <2>4 DEF Enqueue, enqueue
    <3>2. lastSnap + 1 \in Snapshots
      BY <2>0, <3>1, SnapTimes DEF Snapshots
    <3>3. l \in Link
      BY <2>0, <3>2, WaitingAreSnapshots DEF Link
    <3>4. /\ l.pending = lastSnap + 1 /\ l.dropped = Waiting(link) /\ l.sending = link.sending
          /\ l.closed = link.closed /\ l.retryAt = link.retryAt /\ l.congestedAt = link.congestedAt
      BY <2>0 DEF Link
    <3> HIDE DEF l
    <3>5. Waiting(l) = {lastSnap + 1}
      BY <2>0, <3>3, <3>4, WaitingAreSnapshots DEF None
    <3>6. l.sending \subseteq 1..lastSnap /\ l.dropped \subseteq 1..lastSnap /\ l.dropped \cap l.sending = {}
      BY <2>0, <2>1, <2>2, <2>3, <3>4 DEF Fates, None
    <3>7. lastSnap + 1 \notin 1..lastSnap
      BY <2>0
    <3>8. ASSUME NEW n \in Snapshots
          PROVE  told[n] = IF n <= lastSnap' /\ n \notin Waiting(l) \cup l.sending \cup l.dropped THEN 1 ELSE 0
      <4>1. told[n] = IF n <= lastSnap /\ n \notin Waiting(link) \cup link.sending THEN 1 ELSE 0
        BY <2>0 DEF Fates, ToldOnce
      <4>2. n <= lastSnap <=> n <= lastSnap' /\ n # lastSnap + 1
        BY <2>0, <2>3, <3>1
      <4> QED BY <3>4, <3>5, <4>1, <4>2
    <3>9. l.retryAt # Never => l.retryAt \in snapClock .. snapClock + RETRY_INTERVAL_MS
      BY <2>0, <3>4 DEF Retries
    <3>10. l.congestedAt # Never =>
             /\ l.congestedAt <= snapClock
             /\ l.retryAt # Never => l.retryAt <= l.congestedAt + MAX_CONGESTION_MS + RETRY_INTERVAL_MS
      BY <2>0, <3>1, <3>4 DEF Congestion
    <3>11. link.pending # None => l.congestedAt # Never /\ l.congestedAt <= waitingSince
      BY <2>0, <3>4 DEF Congestion
    <3>12. l.pending # None /\ l.pending = lastSnap'
      BY <2>0, <3>1, <3>4 DEF None
    <3>13. lastSnap' \in Snapshots \cup {None} /\ lastSnap' >= lastSnap
      BY <2>0, <3>1, <3>2
    <3>14. l.pending \notin l.sending /\ l.dropped \cap (l.sending \cup Waiting(l)) = {}
      BY <3>4, <3>5, <3>6, <3>7
    <3> QED BY <2>0, <3>1, <3>3, <3>4, <3>6, <3>8, <3>9, <3>10, <3>11, <3>12, <3>13, <3>14, DrainKeeps
  <2>5. ASSUME RetryFires PROVE SnapInv'
    <3> DEFINE l == [link EXCEPT !.retryAt = Never, !.dropped = {}]
    <3>1. /\ link.retryAt # Never /\ lastSnap' = lastSnap
          /\ link' = drain(l) /\ Tell({}) /\ UNCHANGED <<level, snapClock>>
      BY <2>5 DEF RetryFires
    <3>2. l \in Link
      BY <2>0 DEF Link
    <3>3. /\ l.pending = link.pending /\ l.dropped = {} /\ l.sending = link.sending
          /\ l.closed = link.closed /\ l.retryAt = Never /\ l.congestedAt = link.congestedAt
      BY <2>0 DEF Link
    <3>4. Waiting(l) = Waiting(link)
      BY <3>3 DEF Waiting
    <3> HIDE DEF l
    <3>5. ~l.closed
      BY <2>0, <3>1, <3>3 DEF Retries
    <3>6. /\ l.pending # None => l.pending = lastSnap'
          /\ l.pending \notin l.sending
          /\ l.sending \subseteq 1..lastSnap
      BY <2>0, <3>1, <3>3 DEF Fates
    <3>7. \A n \in Snapshots :
            told[n] = IF n <= lastSnap' /\ n \notin Waiting(l) \cup l.sending \cup l.dropped THEN 1 ELSE 0
      BY <2>0, <3>1, <3>3, <3>4 DEF Fates, ToldOnce
    <3>8. /\ l.congestedAt # Never => l.congestedAt <= snapClock
          /\ link.pending # None => l.congestedAt # Never /\ l.congestedAt <= waitingSince
      BY <2>0, <3>3, <3>5 DEF Congestion
    <3>9. lastSnap' \in Snapshots \cup {None} /\ lastSnap' >= lastSnap
      BY <2>0, <3>1
    <3> QED BY <2>0, <3>1, <3>2, <3>3, <3>5, <3>6, <3>7, <3>8, <3>9, DrainKeeps
  <2>6. ASSUME NEW answered \in SUBSET link.sending, link' \in Link, Tell(answered),
               UNCHANGED <<level, snapClock, lastSnap>>,
               link'.sending = link.sending \ answered,
               \/ GivenUp([link EXCEPT !.sending = @ \ answered, !.dropped = {}], link')
               \/ link' = [link EXCEPT !.sending = @ \ answered, !.dropped = {}]
        PROVE  SnapInv'
    <3> DEFINE l == [link EXCEPT !.sending = @ \ answered, !.dropped = {}]
    <3>1. /\ l.pending = link.pending /\ l.dropped = {} /\ l.sending = link.sending \ answered
          /\ l.closed = link.closed /\ l.retryAt = link.retryAt /\ l.congestedAt = link.congestedAt
          /\ Waiting(l) = Waiting(link)
      BY <2>0 DEF Link, Waiting
    <3>2. \/ GivenUp(l, link')
          \/ link' = l
      BY <2>6
    <3> HIDE DEF l
    <3>3. /\ told' = [n \in Snapshots |-> told[n] + (IF n \in link'.dropped THEN 1 ELSE 0)
                                                  + (IF n \in answered THEN 1 ELSE 0)]
          /\ waitingSince' = IF link'.pending = None THEN Never
                             ELSE IF link.pending = None THEN snapClock ELSE waitingSince
      BY <2>6 DEF Tell
    <3>4. told' \in [Snapshots -> Nat] /\ waitingSince' \in Nat \cup {Never}
      BY <2>0, <3>3
    <3>5. SnapTypeOK'
      BY <2>0, <2>6, <3>4 DEF SnapTypeOK
    <3>6. Waiting(link') = IF link'.pending = None THEN {} ELSE {link'.pending}
      BY <2>6, WaitingAreSnapshots
    <3>7. \/ link'.dropped = Waiting(link) /\ Waiting(link') = {}
          \/ link'.dropped = {} /\ Waiting(link') = Waiting(link)
      BY <3>1, <3>2, <3>6 DEF GivenUp
    <3>8. ASSUME NEW n \in Snapshots
          PROVE  told'[n] = IF n <= lastSnap' /\ n \notin Waiting(link') \cup link'.sending THEN 1 ELSE 0
      <4>1. told[n] = IF n <= lastSnap /\ n \notin Waiting(link) \cup link.sending THEN 1 ELSE 0
        BY <2>0 DEF Fates, ToldOnce
      <4>2. n \in Waiting(link) => n \notin link.sending /\ n <= lastSnap
        BY <2>0, <2>1 DEF Fates
      <4>3. n \in answered => n \in link.sending /\ n <= lastSnap
        BY <2>0, <2>3 DEF Fates
      <4>4. told'[n] = told[n] + (IF n \in link'.dropped THEN 1 ELSE 0) + (IF n \in answered THEN 1 ELSE 0)
        BY <3>3
      <4>5. n \in link'.sending <=> n \in link.sending /\ n \notin answered
        BY <2>6
      <4> QED BY <2>6, <3>7, <4>1, <4>2, <4>3, <4>4, <4>5
    <3>9. ToldOnce'
      BY <3>8 DEF ToldOnce, Snapshots
    <3>10. Fates'
      <4>1. None \notin link'.sending
        BY <2>6 DEF Link, Snapshots, None
      <4>2. link'.pending = None \/ link'.pending = link.pending
        BY <3>1, <3>2 DEF GivenUp
      <4> QED BY <2>0, <2>6, <3>9, <4>1, <4>2 DEF Fates
    <3>11. Retries'
      BY <2>0, <2>6, <3>1, <3>2 DEF Retries, GivenUp
    <3>12. Congestion'
      <4>1. CASE GivenUp(l, link')
        BY <4>1 DEF GivenUp, Congestion
      <4>2. CASE link' = l
        BY <2>0, <2>6, <3>1, <3>3, <4>2 DEF Congestion
      <4> QED BY <3>2, <4>1, <4>2
    <3> QED BY <3>5, <3>10, <3>11, <3>12 DEF SnapInv
  <2>7. ASSUME NEW n \in Snapshots, SendAnswered(n) PROVE SnapInv'
    <3> DEFINE l == [link EXCEPT !.sending = @ \ {n}, !.dropped = {}]
    <3>1. /\ n \in link.sending /\ Tell({n}) /\ UNCHANGED <<level, snapClock, lastSnap>>
          /\ \/ link' = l
             \/ link' = terminate(l)
      BY <2>7 DEF SendAnswered
    <3>2. l \in Link /\ l.sending = link.sending \ {n}
      BY <2>0 DEF Link
    <3> HIDE DEF l
    <3>3. CASE link' = l
      <4>1. link' \in Link /\ link'.sending = link.sending \ {n}
        BY <3>2, <3>3
      <4> QED BY <2>6, <3>1, <3>3, <4>1 DEF l
    <3>4. CASE link' # l
      <4>1. link' = terminate(l) /\ ~l.closed
        BY <3>1, <3>4 DEF terminate
      <4>2. link' \in Link /\ GivenUp(l, link')
        BY <3>2, <4>1, TerminateIs
      <4>3. link'.sending = link.sending \ {n}
        BY <3>2, <4>2 DEF GivenUp
      <4> QED BY <2>6, <3>1, <4>2, <4>3 DEF l
    <3> QED BY <3>3, <3>4
  <2>8. ASSUME Close PROVE SnapInv'
    <3> DEFINE l == [link EXCEPT !.sending = @ \ {}, !.dropped = {}]
    <3>1. l = [link EXCEPT !.dropped = {}] /\ l \in Link /\ l.sending = link.sending \ {}
      BY <2>0 DEF Link
    <3> HIDE DEF l
    <3>2. link' = close(l) /\ Tell({}) /\ UNCHANGED <<level, snapClock, lastSnap>>
      BY <2>8, <3>1 DEF Close
    <3>3. link' \in Link /\ GivenUp(l, link')
      BY <3>1, <3>2, CloseIs
    <3>4. link'.sending = link.sending \ {}
      BY <3>1, <3>3 DEF GivenUp
    <3> QED BY <2>6, <3>2, <3>3, <3>4 DEF l
  <2>9. ASSUME SocketCloses PROVE SnapInv'
    <3>1. /\ link' = [link EXCEPT !.open = FALSE, !.dropped = {}]
          /\ UNCHANGED <<level, snapClock, lastSnap, told, waitingSince>>
      BY <2>9 DEF SocketCloses
    <3>2. /\ link' \in Link /\ link'.pending = link.pending /\ link'.sending = link.sending
          /\ link'.closed = link.closed /\ link'.retryAt = link.retryAt
          /\ link'.congestedAt = link.congestedAt
      BY <2>0, <3>1 DEF Link
    <3>3. Waiting(link') = Waiting(link)
      BY <3>2 DEF Waiting
    <3>4. SnapTypeOK'
      BY <2>0, <3>1, <3>2 DEF SnapTypeOK
    <3>5. Fates'
      BY <2>0, <3>1, <3>2, <3>3 DEF Fates, ToldOnce
    <3>6. Retries' /\ Congestion'
      BY <2>0, <3>1, <3>2 DEF Retries, Congestion
    <3> QED BY <3>4, <3>5, <3>6 DEF SnapInv
  <2>10. ASSUME LevelChanges \/ UNCHANGED snapVars PROVE SnapInv'
    <3>1. /\ level' \in Levels
          /\ UNCHANGED <<link, snapClock, lastSnap, told, waitingSince>>
      BY <2>0, <2>10 DEF LevelChanges, snapVars
    <3>2. SnapTypeOK'
      BY <2>0, <3>1 DEF SnapTypeOK
    <3> QED BY <2>0, <3>1, <3>2 DEF SnapInv, Fates, ToldOnce, Retries, Congestion, Waiting
  <2>11. ASSUME ElapseSnap PROVE SnapInv'
    <3>1. /\ snapClock < MaxSnapClock /\ snapClock' = snapClock + 1
          /\ link.retryAt = Never \/ snapClock < link.retryAt
          /\ UNCHANGED <<link, level, lastSnap, told, waitingSince>>
      BY <2>11 DEF ElapseSnap
    <3>2. SnapTypeOK'
      BY <2>0, <3>1, SnapTimes DEF SnapTypeOK
    <3>3. Fates'
      BY <2>0, <3>1 DEF Fates, ToldOnce, Waiting
    <3>4. Retries'
      BY <2>0, <2>2, <3>1, SnapTimes DEF Retries, Never
    <3>5. Congestion'
      BY <2>0, <2>2, <3>1 DEF Congestion, Never
    <3> QED BY <3>2, <3>3, <3>4, <3>5 DEF SnapInv
  <2> QED BY <2>4, <2>5, <2>7, <2>8, <2>9, <2>10, <2>11 DEF SnapNext
<1> QED BY <1>1, <1>2, PTL DEF SnapSpec

\* Every snapshot has exactly one fate, the newest one is tried again in time,
\* and a socket that takes none is given up, however many snapshots and whatever
\* the limits (latestSnapshotBuffer.ts:57-143).
THEOREM SnapshotHasOneFateAlways == SnapSpec => []SnapshotHasOneFate
<1>1. SnapInv => SnapshotHasOneFate
  <2> SUFFICES ASSUME SnapInv PROVE SnapshotHasOneFate
    OBVIOUS
  <2>0. /\ Fates /\ Retries /\ Congestion /\ link \in Link /\ snapClock \in Nat
        /\ waitingSince \in Nat \cup {Never}
    BY SnapTimes DEF SnapInv, SnapTypeOK
  <2>1. ToldOnce /\ NewestIsRetried
    BY <2>0 DEF Fates, Retries, NewestIsRetried
  <2>2. CongestionEnds
    <3> SUFFICES ASSUME link.pending # None
                 PROVE  snapClock <= waitingSince + MAX_CONGESTION_MS + RETRY_INTERVAL_MS
      BY DEF CongestionEnds
    <3>1. ~link.closed /\ link.congestedAt # Never /\ link.congestedAt <= waitingSince
      BY <2>0 DEF Retries, Congestion
    <3>2. /\ link.retryAt \in snapClock .. snapClock + RETRY_INTERVAL_MS
          /\ link.retryAt <= link.congestedAt + MAX_CONGESTION_MS + RETRY_INTERVAL_MS
      BY <2>0, <3>1 DEF Retries, Congestion
    <3>3. link.congestedAt \in Nat /\ waitingSince \in Nat
      BY <2>0, <3>1 DEF Link, Never
    <3> QED BY <2>0, <3>1, <3>2, <3>3, SnapTimes
  <2> QED BY <2>1, <2>2 DEF SnapshotHasOneFate
<1> QED BY <1>1, SnapInvariance, PTL

-----------------------------------------------------------------------------
(* The scheduler, for any rooms and timestep, however late its timer is.   *)

Accumulators == [startedAt : Int, previousTimeMs : Int, lagMs : Nat, timerAt : Int]
Counts == [made : Nat, owed : Nat]

SchedRanges ==
  /\ roomSteps \subseteq MatchRooms
  /\ accumulator \in Accumulators
  /\ loop \in [ticks : Nat, rooms : SUBSET MatchRooms]
  /\ tickClock \in Nat /\ thrownAway \in Nat /\ ticksRun \in Nat
  /\ stepsOf \in [MatchRooms -> Counts]

\* The scheduler looked at the clock before.
ClockWasRead == TimerRuns => 0 <= accumulator.startedAt /\ accumulator.previousTimeMs <= tickClock

SchedInv == SchedRanges /\ ClockWasRead /\ RunsForRooms /\ TimeIsAccounted /\ NoRoomSkipped

LEMMA Steps == timestepMs \in Nat \ {0} /\ maxTicksPerLoop \in Nat \ {0} /\ maxAccumulatedMs \in Nat
<1>1. timestepMs \in Nat \ {0} /\ maxTicksPerLoop \in Nat \ {0}
      /\ maxAccumulatedMs = maxTicksPerLoop * timestepMs
  BY SchedulerAssumption
<1>2. maxTicksPerLoop * timestepMs \in Nat
  BY <1>1
<1>. QED
  BY <1>1, <1>2

LEMMA Division ==
  ASSUME NEW n \in Nat, NEW d \in Nat \ {0}
  PROVE  /\ n \div d \in Nat
         /\ n - (n \div d) * d \in Nat /\ n - (n \div d) * d < d
<1>1. n = d * (n \div d) + (n % d) /\ n % d \in 0..(d - 1) /\ n \div d \in Int
  OBVIOUS
<1>2. n \div d \in Nat
  BY Z3
<1>. QED
  BY <1>1, <1>2

\* The cap of the lag is the most a loop can catch up with: what a loop leaves
\* is less than a step.
LEMMA RemainderIs ==
  ASSUME NEW n \in Nat, n <= maxAccumulatedMs
  PROVE  /\ Capped(maxTicksPerLoop, n \div timestepMs) \in Nat
         /\ n - Capped(maxTicksPerLoop, n \div timestepMs) * timestepMs \in Nat
         /\ n - Capped(maxTicksPerLoop, n \div timestepMs) * timestepMs < timestepMs
<1>. DEFINE q == n \div timestepMs
<1>1. q \in Nat /\ n - q * timestepMs \in Nat /\ n - q * timestepMs < timestepMs
  BY Division, Steps
<1>. HIDE DEF q
<1>2. q <= maxTicksPerLoop
  <2>1. q * timestepMs <= maxTicksPerLoop * timestepMs
    <3>1. q * timestepMs \in Int /\ maxTicksPerLoop * timestepMs \in Int
      BY <1>1, Steps
    <3>. QED
      BY <1>1, <3>1, SchedulerAssumption, Steps
  <2>. QED
    BY <1>1, <2>1, Steps
<1>3. Capped(maxTicksPerLoop, q) = q
  BY <1>1, <1>2, Steps DEF Capped
<1>. QED
  BY <1>1, <1>3 DEF q

LEMMA Sums ==
  ASSUME NEW x \in Int, NEW y \in Int, NEW z \in Int, NEW lag \in Int, NEW thrown \in Int,
         NEW former \in Int, NEW current \in Int, NEW previous \in Int, NEW first \in Int,
         x = y + z, y + former + thrown = previous - first
  PROVE  x + (lag - z) + (thrown + former + (current - previous) - lag) = current - first
OBVIOUS

\* What advance makes of the accumulator when the timer fires.
LEMMA AdvanceIs ==
  ASSUME SchedRanges, ClockWasRead, TimerRuns
  PROVE  LET ticks == ticksDue(tickClock)
             since == tickClock - accumulator.previousTimeMs
         IN /\ lagAfter(tickClock) \in Nat /\ lagAfter(tickClock) <= accumulator.lagMs + since
            /\ since \in Nat /\ ticks \in Nat
            /\ advanced(tickClock) \in Accumulators
            /\ advanced(tickClock).startedAt = accumulator.startedAt
            /\ advanced(tickClock).previousTimeMs = tickClock
            /\ advanced(tickClock).lagMs = lagAfter(tickClock) - ticks * timestepMs
            /\ advanced(tickClock).lagMs < timestepMs
<1>. DEFINE since == tickClock - accumulator.previousTimeMs
            lag == lagAfter(tickClock)
            ticks == ticksDue(tickClock)
            left == lag - ticks * timestepMs
<1>1. since \in Nat /\ accumulator \in Accumulators /\ accumulator.lagMs \in Nat /\ tickClock \in Nat
  BY DEF SchedRanges, ClockWasRead, Accumulators
<1>2. lag \in Nat /\ lag <= accumulator.lagMs + since /\ lag <= maxAccumulatedMs
  BY <1>1, Steps DEF lagAfter, Capped
<1>3. ticks \in Nat /\ left \in Nat /\ left < timestepMs
  BY <1>2, RemainderIs DEF ticksDue
<1>4. advanced(tickClock) = [accumulator EXCEPT !.previousTimeMs = tickClock, !.lagMs = left]
  BY DEF advanced
<1>. HIDE DEF left, lag, ticks
<1>5. advanced(tickClock) = [startedAt |-> accumulator.startedAt, previousTimeMs |-> tickClock,
                             lagMs |-> left, timerAt |-> accumulator.timerAt]
  <2>. DEFINE one == [accumulator EXCEPT !.previousTimeMs = tickClock]
  <2>1. one = [startedAt |-> accumulator.startedAt, previousTimeMs |-> tickClock,
               lagMs |-> accumulator.lagMs, timerAt |-> accumulator.timerAt]
    BY <1>1 DEF Accumulators
  <2>2. advanced(tickClock) = [one EXCEPT !.lagMs = left]
    BY <1>4
  <2>. HIDE DEF one
  <2>. QED
    BY <2>1, <2>2
<1>6. accumulator.startedAt \in Int /\ accumulator.timerAt \in Int
  BY <1>1 DEF Accumulators
<1>7. advanced(tickClock) \in Accumulators
  BY <1>1, <1>3, <1>5, <1>6 DEF Accumulators
<1>. QED
  BY <1>1, <1>2, <1>3, <1>5, <1>7 DEF left, lag, ticks

\* Taking a room out stops the timer with the last one.
LEMMA UnregisterIs ==
  ASSUME SchedInv, NEW r \in MatchRooms, unregister(r)
  PROVE  /\ roomSteps' \subseteq roomSteps
         /\ accumulator' \in {accumulator, Stopped}
         /\ TimerRuns' <=> roomSteps' # {}
<1>1. roomSteps' = roomSteps \ {r} /\ accumulator' = IF roomSteps' = {} THEN Stopped ELSE accumulator
  BY DEF unregister
<1>2. roomSteps # {} => accumulator # Stopped
  BY DEF SchedInv, RunsForRooms, TimerRuns
<1>. QED
  BY <1>1, <1>2 DEF TimerRuns

THEOREM SchedInvariance == SchedSpec => []SchedInv
<1>1. SchedInit => SchedInv
  <2> SUFFICES ASSUME SchedInit PROVE SchedInv
    OBVIOUS
  <2>. USE DEF SchedInit
  <2>1. Stopped \in Accumulators /\ Idle \in [ticks : Nat, rooms : SUBSET MatchRooms] /\ NoSteps \in Counts
    BY DEF Stopped, Accumulators, Idle, NoSteps, Counts
  <2>2. ~TimerRuns
    BY DEF TimerRuns
  <2>. QED
    BY <2>1, <2>2 DEF SchedInv, SchedRanges, ClockWasRead, RunsForRooms, TimeIsAccounted, NoRoomSkipped
<1>2. SchedInv /\ [SchedNext]_schedVars => SchedInv'
  <2> SUFFICES ASSUME SchedInv, [SchedNext]_schedVars PROVE SchedInv'
    OBVIOUS
  <2>. USE DEF SchedInv
  <2>0. Stopped \in Accumulators /\ NoSteps \in Counts /\ NoSteps.made = NoSteps.owed
        /\ Idle \in [ticks : Nat, rooms : SUBSET MatchRooms] /\ Idle.ticks = 0 /\ Idle.rooms = {}
    BY DEF Stopped, Accumulators, NoSteps, Counts, Idle
  \* Leaving the scheduler does not change the account of those who stay.
  <2>1. ASSUME NEW r \in MatchRooms, unregister(r), UNCHANGED <<tickClock, thrownAway, ticksRun>>,
               loop'.ticks = loop.ticks
        PROVE  /\ roomSteps' \subseteq MatchRooms /\ accumulator' \in Accumulators
               /\ ClockWasRead' /\ RunsForRooms' /\ TimeIsAccounted'
    <3>1. CASE accumulator' = accumulator
      BY <2>0, <2>1, <3>1, UnregisterIs DEF SchedRanges, ClockWasRead, RunsForRooms, TimeIsAccounted, TimerRuns
    <3>2. CASE accumulator' = Stopped
      BY <2>0, <2>1, <3>2, UnregisterIs DEF SchedRanges, ClockWasRead, RunsForRooms, TimeIsAccounted, TimerRuns
    <3>. QED
      BY <2>1, <3>1, <3>2, UnregisterIs
  <2>2. ASSUME NEW r \in MatchRooms, Register(r) PROVE SchedInv'
    <3>1. /\ loop = Idle /\ roomSteps' = roomSteps \cup {r} /\ UNCHANGED <<loop, tickClock>>
          /\ stepsOf' = IF r \in roomSteps THEN stepsOf ELSE [stepsOf EXCEPT ![r] = NoSteps]
      BY <2>2 DEF Register
    <3>2. stepsOf' \in [MatchRooms -> Counts] /\ NoRoomSkipped'
      <4>1. CASE r \in roomSteps
        BY <3>1, <4>1 DEF SchedRanges, NoRoomSkipped
      <4>2. CASE r \notin roomSteps
        <5>1. /\ stepsOf' = [stepsOf EXCEPT ![r] = NoSteps] /\ loop'.rooms = {} /\ loop.rooms = {}
              /\ roomSteps' = roomSteps \cup {r}
          BY <2>0, <3>1, <4>2
        <5>2. stepsOf' \in [MatchRooms -> Counts] /\ stepsOf'[r] = NoSteps
              /\ \A other \in MatchRooms \ {r} : stepsOf'[other] = stepsOf[other]
          BY <2>0, <5>1 DEF SchedRanges
        <5>3. \A other \in roomSteps : other # r /\ other \in MatchRooms
          BY <4>2 DEF SchedRanges
        <5>4. ASSUME NEW other \in roomSteps'
              PROVE  stepsOf'[other].made + 0 = stepsOf'[other].owed
          <6>1. CASE other = r
            BY <5>2, <6>1 DEF NoSteps
          <6>2. CASE other # r
            BY <5>1, <5>2, <5>3, <6>2 DEF NoRoomSkipped
          <6>. QED
            BY <6>1, <6>2
        <5>. QED
          BY <5>1, <5>2, <5>4 DEF NoRoomSkipped
      <4>. QED
        BY <4>1, <4>2
    <3>3. CASE TimerRuns
      <4>1. UNCHANGED <<accumulator, thrownAway, ticksRun>>
        BY <2>2, <3>3 DEF Register, start
      <4>. QED
        BY <3>1, <3>2, <3>3, <4>1 DEF SchedRanges, ClockWasRead, RunsForRooms, TimeIsAccounted, TimerRuns
    <3>4. CASE ~TimerRuns
      <4>1. /\ accumulator' = [startedAt |-> tickClock, previousTimeMs |-> tickClock,
                               lagMs |-> 0, timerAt |-> tickClock + timestepMs]
            /\ thrownAway' = 0 /\ ticksRun' = 0
        BY <2>2, <3>4 DEF Register, start
      <4>2. tickClock \in Nat /\ accumulator' \in Accumulators
        BY <4>1, Steps DEF SchedRanges, Accumulators
      <4>3. TimerRuns' /\ ClockWasRead'
        BY <3>1, <4>1, <4>2 DEF TimerRuns, Stopped, ClockWasRead
      <4>4. TimeIsAccounted'
        <5>1. timestepMs * 0 = 0
          BY Steps
        <5>. QED
          BY <2>0, <3>1, <4>1, <4>2, <5>1, Steps DEF TimeIsAccounted
      <4>. QED
        BY <3>1, <3>2, <4>1, <4>2, <4>3, <4>4 DEF SchedRanges, RunsForRooms
    <3>. QED
      BY <3>3, <3>4
  <2>3. ASSUME NEW r \in MatchRooms, Unregister(r) PROVE SchedInv'
    <3>1. unregister(r) /\ UNCHANGED <<loop, tickClock, thrownAway, ticksRun, stepsOf>>
      BY <2>3 DEF Unregister
    <3>2. NoRoomSkipped'
      BY <3>1, UnregisterIs DEF NoRoomSkipped
    <3>. QED
      BY <2>1, <3>1, <3>2 DEF SchedRanges
  <2>4. ASSUME NEW r \in MatchRooms, StepRoom(r) PROVE SchedInv'
    <3>1. /\ r \in loop.rooms
          /\ loop' = [loop EXCEPT !.rooms = @ \ {r}]
          /\ stepsOf' = [stepsOf EXCEPT ![r].made = @ + 1]
          /\ UNCHANGED <<tickClock, thrownAway, ticksRun>>
          /\ unregister(r) \/ UNCHANGED <<roomSteps, accumulator>>
      BY <2>4 DEF StepRoom
    <3>2. /\ loop'.ticks = loop.ticks /\ loop'.rooms = loop.rooms \ {r}
          /\ loop' \in [ticks : Nat, rooms : SUBSET MatchRooms]
      BY <3>1 DEF SchedRanges
    <3>3. /\ stepsOf' \in [MatchRooms -> Counts]
          /\ stepsOf'[r].made = stepsOf[r].made + 1 /\ stepsOf'[r].owed = stepsOf[r].owed
          /\ \A other \in MatchRooms \ {r} : stepsOf'[other] = stepsOf[other]
      BY <3>1 DEF SchedRanges, Counts
    <3>4. roomSteps' \subseteq roomSteps
      BY <3>1, UnregisterIs
    <3>5. NoRoomSkipped'
      <4> SUFFICES ASSUME NEW other \in roomSteps'
                   PROVE  stepsOf'[other].made + (IF other \in loop'.rooms THEN 1 ELSE 0) = stepsOf'[other].owed
        BY DEF NoRoomSkipped
      <4>1. /\ other \in roomSteps /\ other \in MatchRooms
            /\ stepsOf[other].made + (IF other \in loop.rooms THEN 1 ELSE 0) = stepsOf[other].owed
            /\ stepsOf[other].made \in Nat
        BY <3>4 DEF NoRoomSkipped, SchedRanges, Counts
      <4>2. CASE other = r
        BY <3>1, <3>2, <3>3, <4>1, <4>2
      <4>3. CASE other # r
        BY <3>2, <3>3, <4>1, <4>3
      <4>. QED
        BY <4>2, <4>3
    <3>6. CASE unregister(r)
      BY <2>1, <3>1, <3>2, <3>3, <3>5, <3>6 DEF SchedRanges
    <3>7. CASE UNCHANGED <<roomSteps, accumulator>>
      BY <3>1, <3>2, <3>3, <3>5, <3>7 DEF SchedRanges, ClockWasRead, RunsForRooms, TimeIsAccounted, TimerRuns
    <3>. QED
      BY <3>1, <3>6, <3>7
  <2>5. CASE StopAll
    <3>1. /\ roomSteps' = {} /\ accumulator' = Stopped
          /\ UNCHANGED <<loop, tickClock, thrownAway, ticksRun, stepsOf>>
      BY <2>5 DEF StopAll
    <3>. QED
      BY <2>0, <3>1 DEF SchedRanges, ClockWasRead, RunsForRooms, TimeIsAccounted, TimerRuns, NoRoomSkipped
  <2>6. CASE TimerFires
    <3>. DEFINE due == ticksDue(tickClock)
                lag == lagAfter(tickClock)
                adv == advanced(tickClock)
    <3>1. /\ loop = Idle /\ TimerRuns
          /\ loop' = [ticks |-> due, rooms |-> {}]
          /\ accumulator' = [adv EXCEPT !.timerAt = tickClock + timestepMs]
          /\ thrownAway' = thrownAway + accumulator.lagMs + (tickClock - accumulator.previousTimeMs) - lag
          /\ UNCHANGED <<roomSteps, tickClock, ticksRun, stepsOf>>
      BY <2>6 DEF TimerFires
    <3>2. /\ lag \in Nat /\ lag <= accumulator.lagMs + (tickClock - accumulator.previousTimeMs)
          /\ due \in Nat /\ adv \in Accumulators
          /\ adv.startedAt = accumulator.startedAt /\ adv.previousTimeMs = tickClock
          /\ adv.lagMs = lag - due * timestepMs /\ adv.lagMs < timestepMs
      BY <3>1, AdvanceIs
    <3>. HIDE DEF due, lag, adv
    <3>3. /\ accumulator' \in Accumulators
          /\ accumulator'.startedAt = accumulator.startedAt /\ accumulator'.previousTimeMs = tickClock
          /\ accumulator'.lagMs = lag - due * timestepMs /\ accumulator'.lagMs < timestepMs
      BY <3>1, <3>2, Steps DEF Accumulators, SchedRanges
    <3>4. loop'.ticks = due /\ loop'.rooms = {} /\ loop' \in [ticks : Nat, rooms : SUBSET MatchRooms]
      BY <3>1, <3>2
    <3>5. thrownAway' \in Nat
      BY <3>1, <3>2 DEF SchedRanges, Accumulators
    <3>6. TimerRuns' /\ ClockWasRead'
      BY <3>1, <3>3 DEF TimerRuns, Stopped, ClockWasRead, SchedRanges
    <3>7. TimeIsAccounted'
      <4>. DEFINE n == ticksRun
                  d == timestepMs
      <4>1. /\ d * (n + 0) + accumulator.lagMs + thrownAway = accumulator.previousTimeMs - accumulator.startedAt
            /\ n \in Nat /\ d \in Nat /\ thrownAway \in Nat /\ accumulator.lagMs \in Nat
            /\ accumulator.previousTimeMs \in Int /\ accumulator.startedAt \in Int /\ tickClock \in Nat
        BY <2>0, <3>1, Steps DEF TimeIsAccounted, SchedRanges, Accumulators
      <4>2. d * (n + due) = d * (n + 0) + due * d /\ d * (n + 0) \in Int /\ due * d \in Int
        <5>. HIDE DEF n, d
        <5>. QED
          BY <3>2, <4>1
      <4>3. d * (n + due) + (lag - due * d)
              + (thrownAway + accumulator.lagMs + (tickClock - accumulator.previousTimeMs) - lag)
              = tickClock - accumulator.startedAt
        <5>. DEFINE x == d * (n + due)
                    y == d * (n + 0)
                    z == due * d
        <5>1. x = y + z /\ y \in Int /\ z \in Int
              /\ y + accumulator.lagMs + thrownAway = accumulator.previousTimeMs - accumulator.startedAt
          BY <4>1, <4>2
        <5>. HIDE DEF x, y, z, n, d
        <5>2. x + (lag - z) + (thrownAway + accumulator.lagMs + (tickClock - accumulator.previousTimeMs) - lag)
                = tickClock - accumulator.startedAt
          <6>1. /\ x \in Int /\ lag \in Int /\ thrownAway \in Int /\ accumulator.lagMs \in Int
                /\ accumulator.previousTimeMs \in Int /\ accumulator.startedAt \in Int /\ tickClock \in Int
            BY <3>2, <4>1, <5>1
          <6>. QED
            BY <5>1, <6>1, Sums
        <5>. QED
          BY <5>2 DEF x, y, z
      <4>. QED
        BY <3>1, <3>3, <3>4, <4>3 DEF TimeIsAccounted
    <3>8. NoRoomSkipped'
      BY <2>0, <3>1, <3>4 DEF NoRoomSkipped
    <3>. QED
      BY <3>1, <3>3, <3>4, <3>5, <3>6, <3>7, <3>8 DEF SchedRanges, RunsForRooms
  <2>7. CASE BeginTick
    <3>1. loop.ticks > 0 /\ loop.rooms = {} /\ UNCHANGED <<roomSteps, accumulator, tickClock, thrownAway>>
      BY <2>7 DEF BeginTick
    <3>2. CASE TimerRuns
      <4>1. /\ loop' = [ticks |-> loop.ticks - 1, rooms |-> roomSteps]
            /\ ticksRun' = ticksRun + 1
            /\ stepsOf' = [r \in MatchRooms |->
                 IF r \in roomSteps THEN [stepsOf[r] EXCEPT !.owed = @ + 1] ELSE stepsOf[r]]
        BY <2>7, <3>2 DEF BeginTick
      <4>2. /\ loop'.ticks = loop.ticks - 1 /\ loop'.rooms = roomSteps
            /\ loop' \in [ticks : Nat, rooms : SUBSET MatchRooms]
        BY <3>1, <4>1 DEF SchedRanges
      <4>3. \A r \in MatchRooms : /\ stepsOf'[r] \in Counts
                                  /\ r \in roomSteps => /\ stepsOf'[r].made = stepsOf[r].made
                                                        /\ stepsOf'[r].owed = stepsOf[r].owed + 1
        BY <4>1 DEF SchedRanges, Counts
      <4>4. stepsOf' \in [MatchRooms -> Counts]
        BY <4>1, <4>3
      <4>5. NoRoomSkipped'
        BY <3>1, <4>2, <4>3 DEF NoRoomSkipped, SchedRanges, Counts
      <4>6. TimeIsAccounted'
        <5>1. ticksRun' + loop'.ticks = ticksRun + loop.ticks
          BY <4>1, <4>2 DEF SchedRanges
        <5>. QED
          BY <3>1, <5>1 DEF TimeIsAccounted, TimerRuns
      <4>. QED
        BY <3>1, <4>1, <4>2, <4>4, <4>5, <4>6 DEF SchedRanges, ClockWasRead, RunsForRooms, TimerRuns
    <3>3. CASE ~TimerRuns
      <4>1. loop' = Idle /\ UNCHANGED <<ticksRun, stepsOf>>
        BY <2>7, <3>3 DEF BeginTick
      <4>. QED
        BY <2>0, <3>1, <3>3, <4>1 DEF SchedRanges, ClockWasRead, RunsForRooms, TimeIsAccounted, TimerRuns,
           NoRoomSkipped
    <3>. QED
      BY <3>2, <3>3
  <2>8. CASE ElapseTick
    <3>1. tickClock' = tickClock + 1 /\ UNCHANGED <<roomSteps, accumulator, loop, thrownAway, ticksRun, stepsOf>>
      BY <2>8 DEF ElapseTick
    <3>. QED
      BY <3>1 DEF SchedRanges, Accumulators, ClockWasRead, RunsForRooms, TimeIsAccounted, TimerRuns, NoRoomSkipped
  <2>9. CASE UNCHANGED schedVars
    BY <2>9 DEF schedVars, SchedRanges, ClockWasRead, RunsForRooms, TimeIsAccounted, TimerRuns, NoRoomSkipped
  <2>. QED
    BY <2>2, <2>3, <2>4, <2>5, <2>6, <2>7, <2>8, <2>9 DEF SchedNext
<1>. QED
  BY <1>1, <1>2, PTL DEF SchedSpec

\* RoomsKeepTime holds always (fixedStepScheduler.ts:48-65, 111-119;
\* sharedRoomScheduler.ts:31-52).
THEOREM RoomsKeepTimeAlways == SchedSpec => []RoomsKeepTime
<1>1. SchedInv => RoomsKeepTime
  BY DEF SchedInv, RoomsKeepTime
<1>. QED
  BY <1>1, SchedInvariance, PTL

-----------------------------------------------------------------------------
(* The deployment, for any processes and releases, whatever they migrate.  *)

\* Every process is one of Server.
Known == server \in [Processes -> Server]

\* A process drains with its first signal.
DrainCounted ==
  /\ DOMAIN drains = Processes
  /\ \A p \in Processes : drains[p] = IF server[p].started THEN 1 ELSE 0

\* What a probe found is what some set the database held since it arrived was
\* compared with, the database still holds all of that, and a process that ended
\* answers no probe.
ProbeMeans(p) ==
  /\ probe[p] \in {"current", "pending", "diverged"} =>
       /\ server[p].database
       /\ \E set \in held[p] : probe[p] = compareMigrationSets(server[p].release, set)
  /\ probe[p] # "none" => applied \in held[p] /\ \A set \in held[p] : set \subseteq applied
  /\ probe[p] = "not_applicable" => ~server[p].database
  /\ probe[p] = "failed" => server[p].database
  /\ probe[p] \in Probes
  /\ server[p].stage = "ended" => probe[p] = "none"

ProbesMean ==
  /\ DOMAIN probe = Processes /\ DOMAIN held = Processes /\ DOMAIN said = Processes
  /\ \A p \in Processes : ProbeMeans(p)

DeployInv == Known /\ DrainCounted /\ ProbesMean

\* A signal and a closing process change nothing of what a probe was about.
SameProcess(p) ==
  /\ server'[p].release = server[p].release
  /\ server'[p].database = server[p].database
  /\ server'[p].started = server[p].started

LEMMA Compared ==
  ASSUME NEW r, NEW a
  PROVE  /\ compareMigrationSets(r, a) \in {"current", "pending", "diverged"}
         /\ compareMigrationSets(r, a) = "current" <=> a = r
BY DEF compareMigrationSets

\* A field of a process that is set, and the others.
LEMMA SetStage ==
  ASSUME Known, NEW p \in Processes, NEW st \in {"starting", "up", "closing", "ended"},
         server' = [server EXCEPT ![p].stage = st]
  PROVE  /\ Known' /\ server'[p].stage = st
         /\ SameProcess(p)
         /\ \A q \in Processes \ {p} : server'[q] = server[q]
BY DEF Known, Server, SameProcess

LEMMA SetClosed ==
  ASSUME Known, NEW p \in Processes, NEW hook \in CloseHooks, NEW st \in {"closing", "ended"},
         server' = [server EXCEPT ![p].closed = @ \cup {hook}, ![p].stage = st]
  PROVE  /\ Known' /\ server'[p].stage = st
         /\ SameProcess(p)
         /\ \A q \in Processes \ {p} : server'[q] = server[q]
<1>. DEFINE one == [server EXCEPT ![p].closed = @ \cup {hook}]
<1>1. one \in [Processes -> Server] /\ \A q \in Processes \ {p} : one[q] = server[q]
  BY DEF Known, Server
<1>2. /\ one[p].release = server[p].release /\ one[p].database = server[p].database
      /\ one[p].started = server[p].started
  BY DEF Known, Server
<1>3. server' = [one EXCEPT ![p].stage = st]
  OBVIOUS
<1>. HIDE DEF one
<1>4. DOMAIN server' = Processes /\ server'[p] = [one[p] EXCEPT !.stage = st]
      /\ \A q \in Processes \ {p} : server'[q] = one[q]
  BY <1>1, <1>3
<1>5. /\ server'[p] \in Server /\ server'[p].stage = st
      /\ server'[p].release = one[p].release /\ server'[p].database = one[p].database
      /\ server'[p].started = one[p].started
  <2>1. one[p] \in Server /\ st \in {"starting", "up", "closing", "ended"}
    BY <1>1
  <2>. QED
    <3>. DEFINE old == one[p]
                new == server'[p]
    <3>1. new = [old EXCEPT !.stage = st] /\ old \in Server
      BY <1>4, <2>1
    <3>. HIDE DEF old, new
    <3>2. new \in Server /\ new.stage = st
      BY <2>1, <3>1 DEF Server
    <3>3. new.release = old.release /\ new.database = old.database /\ new.started = old.started
      BY <3>1 DEF Server
    <3>. QED
      BY <3>2, <3>3 DEF old, new
<1>6. server' = [q \in Processes |-> server'[q]] /\ \A q \in Processes : server'[q] \in Server
  BY <1>1, <1>3, <1>4, <1>5
<1>. QED
  BY <1>1, <1>2, <1>4, <1>5, <1>6 DEF Known, SameProcess

LEMMA SetSignalled ==
  ASSUME Known, NEW p \in Processes,
         server' = [server EXCEPT ![p].started = TRUE, ![p].draining = TRUE]
  PROVE  /\ Known' /\ server'[p].stage = server[p].stage /\ server'[p].started
         /\ server'[p].release = server[p].release /\ server'[p].database = server[p].database
         /\ \A q \in Processes \ {p} : server'[q] = server[q]
<1>. DEFINE one == [server EXCEPT ![p].started = TRUE]
<1>1. one \in [Processes -> Server] /\ \A q \in Processes \ {p} : one[q] = server[q]
  BY DEF Known, Server
<1>2. /\ one[p].release = server[p].release /\ one[p].database = server[p].database
      /\ one[p].started = TRUE /\ one[p].stage = server[p].stage
  BY DEF Known, Server
<1>3. server' = [one EXCEPT ![p].draining = TRUE]
  OBVIOUS
<1>. HIDE DEF one
<1>4. DOMAIN server' = Processes /\ server'[p] = [one[p] EXCEPT !.draining = TRUE]
      /\ \A q \in Processes \ {p} : server'[q] = one[q]
  BY <1>1, <1>3
<1>5. /\ server'[p] \in Server /\ server'[p].stage = one[p].stage
      /\ server'[p].release = one[p].release /\ server'[p].database = one[p].database
      /\ server'[p].started = one[p].started
  <2>. DEFINE old == one[p]
              new == server'[p]
  <2>1. new = [old EXCEPT !.draining = TRUE] /\ old \in Server
    BY <1>1, <1>4
  <2>. HIDE DEF old, new
  <2>2. new \in Server /\ new.stage = old.stage
    BY <2>1 DEF Server
  <2>3. new.release = old.release /\ new.database = old.database /\ new.started = old.started
    BY <2>1 DEF Server
  <2>. QED
    BY <2>2, <2>3 DEF old, new
<1>6. server' = [q \in Processes |-> server'[q]] /\ \A q \in Processes : server'[q] \in Server
  BY <1>1, <1>3, <1>4, <1>5
<1>. QED
  BY <1>1, <1>2, <1>4, <1>5, <1>6 DEF Known

LEMMA KeepsProbes ==
  ASSUME ProbesMean, NEW p \in Processes, UNCHANGED <<applied, held, said>>,
         probe' = probe \/ probe' = [probe EXCEPT ![p] = "none"],
         \A q \in Processes : /\ server'[q].release = server[q].release
                              /\ server'[q].database = server[q].database
                              /\ server'[q].stage = "ended" => probe'[q] = "none"
  PROVE  ProbesMean'
<1>1. DOMAIN probe' = Processes /\ DOMAIN held' = Processes /\ DOMAIN said' = Processes
  BY DEF ProbesMean, ProbeMeans
<1>2. \A q \in Processes : probe'[q] = probe[q] \/ probe'[q] = "none"
  BY DEF ProbesMean, ProbeMeans
<1>3. "none" \in Probes
  BY DEF Probes
<1>. QED
  BY <1>1, <1>2, <1>3 DEF ProbesMean, ProbeMeans

THEOREM DeployInvariance == DeploySpec => []DeployInv
<1>1. DeployInit => DeployInv
  <2> SUFFICES ASSUME DeployInit PROVE DeployInv
    OBVIOUS
  <2>1. server = [p \in Processes |-> [Booting({}, TRUE) EXCEPT !.stage = "ended"]]
    BY DEF DeployInit
  <2>2. [Booting({}, TRUE) EXCEPT !.stage = "ended"] \in Server
        /\ [Booting({}, TRUE) EXCEPT !.stage = "ended"].started = FALSE
    BY DEF Booting, Server
  <2>3. Known /\ \A p \in Processes : ~server[p].started
    BY <2>1, <2>2 DEF Known
  <2>4. DrainCounted
    BY <2>3 DEF DeployInit, DrainCounted
  <2>5. ProbesMean
    BY DEF DeployInit, ProbesMean, ProbeMeans, Probes
  <2>. QED
    BY <2>3, <2>4, <2>5 DEF DeployInv
<1>2. DeployInv /\ [DeployNext]_deployVars => DeployInv'
  <2> SUFFICES ASSUME DeployInv, [DeployNext]_deployVars PROVE DeployInv'
    OBVIOUS
  <2>. USE DEF DeployInv
  <2>1. ASSUME UNCHANGED deployVars PROVE DeployInv'
    BY <2>1 DEF deployVars, Known, DrainCounted, ProbesMean, ProbeMeans
  <2>2. ASSUME NEW p \in Processes, NEW r \in Releases, NEW d \in BOOLEAN, StartProcess(p, r, d)
        PROVE  DeployInv'
    <3>1. /\ server[p].stage = "ended" /\ server' = [server EXCEPT ![p] = Booting(r, d)]
          /\ drains' = [drains EXCEPT ![p] = 0] /\ said' = [said EXCEPT ![p] = "nothing"]
          /\ UNCHANGED <<applied, probe, held>>
      BY <2>2 DEF StartProcess
    <3>2. Booting(r, d) \in Server /\ Booting(r, d).started = FALSE
      BY DEF Booting, Server
    <3>3. Known' /\ server'[p] = Booting(r, d) /\ \A q \in Processes \ {p} : server'[q] = server[q]
      BY <3>1, <3>2 DEF Known
    <3>4. DrainCounted'
      <4>1. DOMAIN drains' = Processes /\ drains'[p] = 0 /\ \A q \in Processes \ {p} : drains'[q] = drains[q]
        BY <3>1 DEF DrainCounted
      <4>. QED
        BY <3>2, <3>3, <4>1 DEF DrainCounted
    <3>5. ProbesMean'
      <4>1. probe[p] = "none" /\ DOMAIN said' = Processes
        BY <3>1 DEF ProbesMean, ProbeMeans
      <4>. QED
        BY <3>1, <3>3, <4>1 DEF ProbesMean, ProbeMeans
    <3>. QED
      BY <3>3, <3>4, <3>5
  \* A step that sets the stage of a process, ends its probe or not.
  <2>3. ASSUME NEW p \in Processes, Known', SameProcess(p), UNCHANGED <<applied, held, said, drains>>,
               probe' = probe \/ probe' = [probe EXCEPT ![p] = "none"],
               \A q \in Processes \ {p} : server'[q] = server[q],
               server'[p].stage = "ended" => probe' = [probe EXCEPT ![p] = "none"]
        PROVE  DeployInv'
    <3>1. \A q \in Processes : SameProcess(q)
      BY <2>3 DEF SameProcess
    <3>2. DrainCounted'
      BY <2>3, <3>1 DEF DrainCounted, SameProcess
    <3>3. \A q \in Processes : server'[q].stage = "ended" => probe'[q] = "none"
      BY <2>3 DEF ProbesMean, ProbeMeans
    <3>4. ProbesMean'
      BY <2>3, <3>1, <3>3, KeepsProbes DEF SameProcess
    <3>. QED
      BY <2>3, <3>2, <3>4
  <2>4. ASSUME NEW p \in Processes, Listens(p) \/ DrainAnswered(p) PROVE DeployInv'
    <3>1. PICK st \in {"up", "closing"} : server' = [server EXCEPT ![p].stage = st]
      BY <2>4 DEF Listens, DrainAnswered
    <3>2. UNCHANGED <<applied, probe, held, said, drains>>
      BY <2>4 DEF Listens, DrainAnswered
    <3>3. Known' /\ SameProcess(p) /\ server'[p].stage = st /\ \A q \in Processes \ {p} : server'[q] = server[q]
      BY <3>1, SetStage
    <3>. QED
      BY <2>3, <3>2, <3>3
  <2>5. ASSUME NEW p \in Processes, EndProcess(p) PROVE DeployInv'
    <3>1. server' = [server EXCEPT ![p].stage = "ended"] /\ probe' = [probe EXCEPT ![p] = "none"]
          /\ UNCHANGED <<applied, held, said, drains>>
      BY <2>5 DEF EndProcess
    <3>2. Known' /\ SameProcess(p) /\ \A q \in Processes \ {p} : server'[q] = server[q]
      BY <3>1, SetStage
    <3>. QED
      BY <2>3, <3>1, <3>2
  <2>6. ASSUME NEW p \in Processes, NEW hook \in CloseHooks, OnClose(p, hook) PROVE DeployInv'
    <3>. DEFINE done == server[p].closed \cup {hook} = CloseHooks
    <3>1. /\ server[p].stage = "closing"
          /\ server' = [server EXCEPT ![p].closed = @ \cup {hook},
                                      ![p].stage = IF done THEN "ended" ELSE @]
          /\ probe' = IF done THEN [probe EXCEPT ![p] = "none"] ELSE probe
          /\ UNCHANGED <<applied, held, said, drains>>
      BY <2>6 DEF OnClose
    <3>. HIDE DEF done
    <3>2. PICK st \in {"closing", "ended"} :
            /\ server' = [server EXCEPT ![p].closed = @ \cup {hook}, ![p].stage = st]
            /\ st = "ended" <=> done
      <4>1. CASE done
        BY <3>1, <4>1
      <4>2. CASE ~done
        BY <3>1, <4>2 DEF Known, Server
      <4>. QED
        BY <4>1, <4>2
    <3>3. Known' /\ SameProcess(p) /\ server'[p].stage = st /\ \A q \in Processes \ {p} : server'[q] = server[q]
      BY <3>2, SetClosed
    <3>. QED
      BY <2>3, <3>1, <3>2, <3>3
  <2>7. ASSUME NEW p \in Processes, Signal(p) PROVE DeployInv'
    <3>1. /\ ~server[p].started /\ drains' = [drains EXCEPT ![p] = @ + 1]
          /\ server' = [server EXCEPT ![p].started = TRUE, ![p].draining = TRUE]
          /\ UNCHANGED <<applied, probe, held, said>>
      BY <2>7 DEF Signal, MayStart
    <3>2. /\ Known' /\ server'[p].stage = server[p].stage /\ server'[p].started
          /\ server'[p].release = server[p].release /\ server'[p].database = server[p].database
          /\ \A q \in Processes \ {p} : server'[q] = server[q]
      BY <3>1, SetSignalled
    <3>3. DrainCounted'
      <4>1. DOMAIN drains' = Processes /\ drains'[p] = 1 /\ \A q \in Processes \ {p} : drains'[q] = drains[q]
        BY <3>1 DEF DrainCounted
      <4>. QED
        BY <3>2, <4>1 DEF DrainCounted
    <3>4. ProbesMean'
      <4>1. \A q \in Processes : /\ server'[q].release = server[q].release
                                 /\ server'[q].database = server[q].database
                                 /\ server'[q].stage = server[q].stage
        BY <3>2
      <4>2. ASSUME NEW q \in Processes PROVE ProbeMeans(q)'
        <5>1. ProbeMeans(q)
          BY DEF ProbesMean
        <5>2. \A set : compareMigrationSets(server'[q].release, set) = compareMigrationSets(server[q].release, set)
          BY <4>1
        <5>3. held'[q] = held[q] /\ probe'[q] = probe[q] /\ applied' = applied /\ server'[q].stage = server[q].stage
              /\ server'[q].database = server[q].database
          BY <3>1, <4>1
        <5>. QED
          BY ONLY <5>1, <5>2, <5>3 DEF ProbeMeans
      <4>. QED
        BY <3>1, <4>2 DEF ProbesMean
    <3>. QED
      BY <3>2, <3>3, <3>4
  <2>8. ASSUME NEW p \in Processes,
               ProbeArrives(p) \/ ProbeReads(p) \/ ProbeReadsMemory(p) \/ ProbeFails(p) \/ ProbeAnswered(p)
        PROVE  DeployInv'
    <3>1. UNCHANGED <<applied, server, drains>>
      BY <2>8 DEF ProbeArrives, ProbeReads, ProbeReadsMemory, ProbeFails, ProbeAnswered
    <3>2. Known' /\ DrainCounted'
      BY <3>1 DEF Known, DrainCounted
    <3>3. ProbeMeans(p)' /\ (\A q \in Processes \ {p} : probe'[q] = probe[q] /\ held'[q] = held[q]) => ProbesMean'
      <4>1. DOMAIN probe' = Processes /\ DOMAIN held' = Processes /\ DOMAIN said' = Processes
        BY <2>8 DEF ProbeArrives, ProbeReads, ProbeReadsMemory, ProbeFails, ProbeAnswered, ProbesMean, ProbeMeans
      <4>. QED
        BY <3>1, <4>1 DEF ProbesMean, ProbeMeans
    <3>4. {"none", "asked", "not_applicable", "failed", "current", "pending", "diverged"} = Probes
      BY DEF Probes
    <3>5. probe[p] # "none" => server[p].stage # "ended"
      BY DEF ProbesMean, ProbeMeans
    <3>6. CASE ProbeArrives(p)
      <4>1. probe' = [probe EXCEPT ![p] = "asked"] /\ held' = [held EXCEPT ![p] = {applied}] /\ server[p].stage = "up"
        BY <3>6 DEF ProbeArrives
      <4>2. /\ probe'[p] = "asked" /\ held'[p] = {applied}
            /\ \A q \in Processes \ {p} : probe'[q] = probe[q] /\ held'[q] = held[q]
        BY <4>1 DEF ProbesMean, ProbeMeans
      <4>8. ProbeMeans(p)'
        BY <3>1, <3>4, <4>1, <4>2 DEF ProbesMean, ProbeMeans
      <4>9. \A q \in Processes \ {p} : probe'[q] = probe[q] /\ held'[q] = held[q]
        BY <4>1, <4>2
      <4>. QED
        BY <3>2, <3>3, <4>8, <4>9
    <3>7. CASE ProbeReads(p)
      <4>1. /\ probe' = [probe EXCEPT ![p] = compareMigrationSets(server[p].release, applied)]
            /\ UNCHANGED held /\ server[p].database /\ probe[p] = "asked"
        BY <3>7 DEF ProbeReads
      <4>2. /\ probe'[p] = compareMigrationSets(server[p].release, applied)
            /\ \A q \in Processes \ {p} : probe'[q] = probe[q] /\ held'[q] = held[q]
        BY <4>1 DEF ProbesMean, ProbeMeans
      <4>3. probe'[p] \in {"current", "pending", "diverged"}
        BY <4>2, Compared
      <4>4. applied \in held[p] /\ \A set \in held[p] : set \subseteq applied
        BY <4>1 DEF ProbesMean, ProbeMeans
      <4>8. ProbeMeans(p)'
        BY <3>1, <3>4, <3>5, <4>1, <4>2, <4>3, <4>4 DEF ProbeMeans
      <4>9. \A q \in Processes \ {p} : probe'[q] = probe[q] /\ held'[q] = held[q]
        BY <4>1, <4>2
      <4>. QED
        BY <3>2, <3>3, <4>8, <4>9
    <3>8. CASE ProbeReadsMemory(p)
      <4>1. /\ probe' = [probe EXCEPT ![p] = "not_applicable"] /\ UNCHANGED held
            /\ ~server[p].database /\ probe[p] = "asked"
        BY <3>8 DEF ProbeReadsMemory
      <4>2. probe'[p] = "not_applicable" /\ \A q \in Processes \ {p} : probe'[q] = probe[q]
        BY <4>1 DEF ProbesMean, ProbeMeans
      <4>8. ProbeMeans(p)'
        BY <3>1, <3>4, <3>5, <4>1, <4>2 DEF ProbesMean, ProbeMeans
      <4>9. \A q \in Processes \ {p} : probe'[q] = probe[q] /\ held'[q] = held[q]
        BY <4>1, <4>2
      <4>. QED
        BY <3>2, <3>3, <4>8, <4>9
    <3>9. CASE ProbeFails(p)
      <4>1. /\ probe' = [probe EXCEPT ![p] = "failed"] /\ UNCHANGED held
            /\ server[p].database /\ probe[p] = "asked"
        BY <3>9 DEF ProbeFails
      <4>2. probe'[p] = "failed" /\ \A q \in Processes \ {p} : probe'[q] = probe[q]
        BY <4>1 DEF ProbesMean, ProbeMeans
      <4>8. ProbeMeans(p)'
        BY <3>1, <3>4, <3>5, <4>1, <4>2 DEF ProbesMean, ProbeMeans
      <4>9. \A q \in Processes \ {p} : probe'[q] = probe[q] /\ held'[q] = held[q]
        BY <4>1, <4>2
      <4>. QED
        BY <3>2, <3>3, <4>8, <4>9
    <3>10. CASE ProbeAnswered(p)
      <4>1. probe' = [probe EXCEPT ![p] = "none"] /\ UNCHANGED held
        BY <3>10 DEF ProbeAnswered
      <4>2. probe'[p] = "none" /\ \A q \in Processes \ {p} : probe'[q] = probe[q]
        BY <4>1 DEF ProbesMean, ProbeMeans
      <4>8. ProbeMeans(p)'
        BY <3>1, <3>4, <4>1, <4>2 DEF ProbesMean, ProbeMeans
      <4>9. \A q \in Processes \ {p} : probe'[q] = probe[q] /\ held'[q] = held[q]
        BY <4>1, <4>2
      <4>. QED
        BY <3>2, <3>3, <4>8, <4>9
    <3>. QED
      BY <2>8, <3>2, <3>6, <3>7, <3>8, <3>9, <3>10
  <2>9. ASSUME NEW r \in Releases, MigrateDatabase(r) PROVE DeployInv'
    <3>1. /\ applied \subseteq r /\ applied' = r
          /\ held' = [p \in Processes |-> IF probe[p] = "none" THEN held[p] ELSE held[p] \cup {r}]
          /\ UNCHANGED <<server, probe, said, drains>>
      BY <2>9 DEF MigrateDatabase, Migratable
    <3>2. Known' /\ DrainCounted'
      BY <3>1 DEF Known, DrainCounted
    <3>3. ASSUME NEW p \in Processes PROVE ProbeMeans(p)'
      <4>1. ProbeMeans(p)
        BY DEF ProbesMean
      <4>2. CASE probe[p] = "none"
        BY <3>1, <4>1, <4>2 DEF ProbeMeans
      <4>3. CASE probe[p] # "none"
        <5>1. held'[p] = held[p] \cup {r}
          BY <3>1, <4>3
        <5>2. applied' \in held'[p] /\ \A set \in held'[p] : set \subseteq applied'
          BY <3>1, <4>1, <4>3, <5>1 DEF ProbeMeans
        <5>. QED
          BY <3>1, <4>1, <5>1, <5>2 DEF ProbeMeans
      <4>. QED
        BY <4>2, <4>3
    <3>4. ProbesMean'
      BY <3>1, <3>3 DEF ProbesMean
    <3>. QED
      BY <3>2, <3>4
  <2>10. CASE UNCHANGED deployVars
    BY <2>1, <2>10
  <2>. QED
    BY <2>2, <2>4, <2>5, <2>6, <2>7, <2>8, <2>9, <2>10 DEF DeployNext
<1>. QED
  BY <1>1, <1>2, PTL DEF DeploySpec

-----------------------------------------------------------------------------
\* ReadyIsTrue holds (app.ts:259-294, migrator.ts:90-126,
\* gracefulShutdown.ts:15-33, index.ts:55-69).
THEOREM ReadyIsTrueAlways == DeploySpec => ReadyIsTrue
<1>1. DeployInv => DrainsOnce
  <2>1. DeployInv => \A p \in Processes : drains[p] = 0 \/ drains[p] = 1
    BY DEF DeployInv, DrainCounted
  <2>2. ASSUME NEW n, n = 0 \/ n = 1 PROVE n <= 1
    BY <2>2
  <2>. QED
    BY <2>1, <2>2 DEF DrainsOnce
<1>2. DeployInv /\ [DeployNext]_deployVars => [AnswersAreTrue]_deployVars
  <2> SUFFICES ASSUME DeployInv, DeployNext,
                      NEW p \in Processes, probe[p] \notin {"none", "asked"}, probe'[p] = "none",
                      server'[p].stage # "ended"
               PROVE  \/ said'[p] = "ready" /\ ReadyWasTrue(p)
                      \/ said'[p] = "not_ready" /\ NotReadyHasReason(p)
    BY DEF AnswersAreTrue
  <2>. USE DEF DeployInv
  \* Only the answer ends a probe of a process that goes on.
  <2>1. ProbeAnswered(p)
    <3>1. ASSUME NEW q \in Processes,
                 \/ ProbeArrives(q) \/ ProbeReads(q) \/ ProbeReadsMemory(q) \/ ProbeFails(q)
          PROVE  FALSE
      <4>1. \E answer : probe' = [probe EXCEPT ![q] = answer] /\ answer # "none" /\ p \in DOMAIN probe
        BY <3>1, Compared DEF ProbeArrives, ProbeReads, ProbeReadsMemory, ProbeFails, ProbesMean, ProbeMeans
      <4>. QED
        BY <4>1
    <3>2. ASSUME NEW q \in Processes, q # p, ProbeAnswered(q) PROVE FALSE
      BY <3>2 DEF ProbeAnswered, ProbesMean, ProbeMeans
    <3>3. ASSUME UNCHANGED probe PROVE FALSE
      BY <3>3
    <3>4. ASSUME NEW q \in Processes, EndProcess(q) PROVE FALSE
      <4>1. /\ server' = [server EXCEPT ![q].stage = "ended"] /\ probe' = [probe EXCEPT ![q] = "none"]
        BY <3>4 DEF EndProcess
      <4>2. q = p
        BY <4>1 DEF ProbesMean, ProbeMeans
      <4>. QED
        BY <4>1, <4>2, SetStage
    <3>5. ASSUME NEW q \in Processes, NEW hook \in CloseHooks, OnClose(q, hook) PROVE FALSE
      <4>. DEFINE done == server[q].closed \cup {hook} = CloseHooks
      <4>1. /\ server' = [server EXCEPT ![q].closed = @ \cup {hook},
                                        ![q].stage = IF done THEN "ended" ELSE @]
            /\ probe' = IF done THEN [probe EXCEPT ![q] = "none"] ELSE probe
        BY <3>5 DEF OnClose
      <4>. HIDE DEF done
      <4>2. done /\ q = p
        BY <4>1 DEF ProbesMean, ProbeMeans
      <4>3. server' = [server EXCEPT ![q].closed = @ \cup {hook}, ![q].stage = "ended"]
        BY <4>1, <4>2
      <4>. QED
        BY <4>2, <4>3, SetClosed
    <3>. QED
      BY <3>1, <3>2, <3>3, <3>4, <3>5 DEF DeployNext, MigrateDatabase, StartProcess, Listens, Signal, DrainAnswered
  <2>2. said'[p] = IF Ready(p) THEN "ready" ELSE "not_ready"
    BY <2>1 DEF ProbeAnswered, ProbesMean, ProbeMeans
  <2>3. ProbeMeans(p)
    BY DEF ProbesMean
  \* The set that was read is among those held, and nothing of it went since.
  <2>4. CASE Ready(p)
    <3>1. ~server[p].draining /\ probe[p] \in {"current", "not_applicable"}
      BY <2>4 DEF Ready
    <3>2. CASE probe[p] = "current"
      <4>1. PICK set \in held[p] : probe[p] = compareMigrationSets(server[p].release, set)
        BY <2>3, <3>2 DEF ProbeMeans
      <4>2. set = server[p].release
        BY <3>2, <4>1, Compared
      <4>3. set \subseteq applied
        BY <2>3, <3>2 DEF ProbeMeans
      <4>. QED
        BY <2>2, <2>4, <3>1, <3>2, <4>2, <4>3 DEF ReadyWasTrue
    <3>3. CASE probe[p] = "not_applicable"
      BY <2>2, <2>3, <2>4, <3>1, <3>3 DEF ReadyWasTrue, ProbeMeans
    <3>. QED
      BY <3>1, <3>2, <3>3
  <2>5. CASE ~Ready(p)
    <3>1. server[p].draining \/ probe[p] \in {"failed", "pending", "diverged"}
      BY <2>3, <2>5 DEF Ready, ProbeMeans, Probes
    <3>2. CASE probe[p] \in {"pending", "diverged"}
      <4>1. PICK set \in held[p] : probe[p] = compareMigrationSets(server[p].release, set)
        BY <2>3, <3>2 DEF ProbeMeans
      <4>2. set # server[p].release
        BY <3>2, <4>1, Compared
      <4>3. server[p].database
        BY <2>3, <3>2 DEF ProbeMeans
      <4>. QED
        BY <2>2, <2>5, <4>2, <4>3 DEF NotReadyHasReason
    <3>3. CASE server[p].draining \/ probe[p] = "failed"
      BY <2>2, <2>5, <3>3 DEF NotReadyHasReason
    <3>. QED
      BY <3>1, <3>2, <3>3
  <2>. QED
    BY <2>4, <2>5
<1>. QED
  BY <1>1, <1>2, DeployInvariance, PTL DEF DeploySpec, ReadyIsTrue

-----------------------------------------------------------------------------
(* The sockets of registered users (AccountAccess), for any users, tickets, *)
(* sockets, messages and bans.                                              *)

\* The clients of the hub are the sockets it took, each under its user, and a
\* socket that was given a user has used up a ticket of its own.
DoorsKnown ==
  /\ \A s \in Doors, u \in Members :
       clientOf[u] = s <=> door[s].stage = "client" /\ door[s].user = u
  /\ \A s \in Doors :
       /\ door[s].stage = "client" => door[s].user # Nobody
       /\ door[s].stage \in {"none", "consuming"} => door[s].user = Nobody
       /\ door[s].stage # "none" => door[s].ticket \in Tickets
       /\ door[s].user # Nobody =>
            door[s].ticket \in Tickets /\ wsTickets[door[s].ticket].state = "gone"
  /\ \A r, s \in Doors :
       r # s /\ door[r].user # Nobody /\ door[s].user # Nobody => door[r].ticket # door[s].ticket

DoorHeard(d) ==
  /\ d.stage = "client" => d.handled = d.received
  /\ d.stage \in {"none", "consuming", "admitted"} /\ ~d.shut =>
       d.pendingPayloads = d.received /\ d.handled = <<>>
  /\ d.pendingBytes <= PRE_AUTH_BUFFER_MAX_BYTES
  /\ d.shut \/ d.stage = "over" => ~d.isOpen
  /\ d.stage = "none" => ~d.shut /\ ~d.isOpen

\* Whoever of a user whose ban is carried out is in, or about to be, had passed
\* the database before the hub was told.
DoorsOut ==
  \A u \in suspended :
    revoking[u] = 0 =>
      \A s \in Doors : door[s].user = u /\ door[s].stage \in {"admitted", "client"} => s \in slippedBy

AccessInv ==
  /\ AccessTypeOK
  /\ DoorsKnown
  /\ \A s \in Doors : DoorHeard(door[s])
  /\ DoorsOut

LEMMA ReplacedIs ==
  ASSUME AccessTypeOK, NEW p
  PROVE  /\ Replaced(door, p) \in [Doors -> DoorState]
         /\ \A r \in Doors \ {p} : Replaced(door, p)[r] = door[r]
         /\ p \in Doors => ~Replaced(door, p)[p].isOpen
         /\ \A r \in Doors :
              /\ Replaced(door, p)[r].user = door[r].user
              /\ Replaced(door, p)[r].ticket = door[r].ticket
              /\ Replaced(door, p)[r].pendingBytes = door[r].pendingBytes
              /\ Replaced(door, p)[r].stage = IF r = p THEN "over" ELSE door[r].stage
<1> DEFINE over(d) == [d EXCEPT !.isOpen = FALSE, !.stage = "over"]
<1>1. ASSUME NEW d \in DoorState
      PROVE  /\ over(d) \in DoorState
             /\ over(d).user = d.user /\ over(d).ticket = d.ticket
             /\ over(d).pendingBytes = d.pendingBytes
             /\ over(d).stage = "over" /\ ~over(d).isOpen
  BY DEF DoorState
<1>2. \A r \in Doors : door[r] \in DoorState
  BY DEF AccessTypeOK
<1>3. \A r \in Doors : Replaced(door, p)[r] = IF r = p THEN over(door[r]) ELSE door[r]
  BY DEF Replaced
<1>4. Replaced(door, p) \in [Doors -> DoorState]
  <2> HIDE DEF over
  <2>1. Replaced(door, p) = [r \in Doors |-> Replaced(door, p)[r]]
    BY DEF Replaced
  <2>2. \A r \in Doors : Replaced(door, p)[r] \in DoorState
    BY <1>1, <1>2, <1>3
  <2> QED BY <2>1, <2>2
<1> HIDE DEF over
<1>5. ASSUME NEW r \in Doors
      PROVE  /\ Replaced(door, p)[r].user = door[r].user
             /\ Replaced(door, p)[r].ticket = door[r].ticket
             /\ Replaced(door, p)[r].pendingBytes = door[r].pendingBytes
             /\ Replaced(door, p)[r].stage = IF r = p THEN "over" ELSE door[r].stage
  <2>1. door[r] \in DoorState
    BY <1>2
  <2>2. CASE r = p
    BY <1>1, <1>3, <2>1, <2>2
  <2>3. CASE r # p
    BY <1>3, <2>3
  <2> QED BY <2>2, <2>3
<1>6. p \in Doors => ~Replaced(door, p)[p].isOpen
  BY <1>1, <1>2, <1>3
<1> QED BY <1>3, <1>4, <1>5, <1>6

\* A step that leaves the sockets and the hub alone keeps what is known of them,
\* when no used ticket comes back.
LEMMA DoorsRest ==
  ASSUME AccessInv, UNCHANGED <<door, clientOf>>,
         \A t \in Tickets : wsTickets[t].state = "gone" => wsTickets'[t].state = "gone"
  PROVE  DoorsKnown' /\ \A s \in Doors : DoorHeard(door[s])'
BY DEF AccessInv, DoorsKnown, DoorHeard

LEMMA MessageKeeps ==
  ASSUME NEW d \in DoorState, NEW size \in MessageSizes, d.isOpen, DoorHeard(d),
         NEW e, e = onMessage(d, size)
  PROVE  /\ e \in DoorState
         /\ DoorHeard(e)
         /\ e.stage = d.stage /\ e.user = d.user /\ e.ticket = d.ticket
<1> DEFINE m == [d EXCEPT !.received = Append(@, size)]
<1>0. size \in Nat /\ PRE_AUTH_BUFFER_MAX_BYTES \in Nat
  BY AccessAssumption
<1>1. Append(d.received, size) \in Seq(MessageSizes)
  BY DEF DoorState
<1>2. /\ m \in DoorState
      /\ m.received = Append(d.received, size)
      /\ m.stage = d.stage /\ m.user = d.user /\ m.ticket = d.ticket /\ m.shut = d.shut
      /\ m.pendingPayloads = d.pendingPayloads /\ m.pendingBytes = d.pendingBytes
      /\ m.handled = d.handled
  BY <1>1 DEF DoorState
<1>3. e = IF d.stage = "client" THEN [m EXCEPT !.handled = Append(@, size)] ELSE bufferPayload(m, size)
  BY DEF onMessage
<1> HIDE DEF m
<1>4. CASE d.stage = "client"
  <2>1. Append(d.handled, size) \in Seq(MessageSizes)
    BY DEF DoorState
  <2>2. e = [m EXCEPT !.handled = Append(d.handled, size)]
    BY <1>2, <1>3, <1>4
  <2>3. /\ e \in DoorState
        /\ e.handled = Append(d.handled, size) /\ e.received = m.received
        /\ e.stage = m.stage /\ e.user = m.user /\ e.ticket = m.ticket
        /\ e.pendingBytes = m.pendingBytes /\ e.shut = m.shut
    BY <1>2, <2>1, <2>2 DEF DoorState
  <2> QED BY <1>2, <1>4, <2>3 DEF DoorHeard
<1>5. CASE d.stage # "client" /\ m.shut
  <2>1. e = m
    BY <1>2, <1>3, <1>5 DEF bufferPayload
  <2> QED BY <1>2, <1>5, <2>1 DEF DoorHeard
<1>6. CASE d.stage # "client" /\ ~m.shut /\ TooMuch(m, size)
  <2>1. e = [m EXCEPT !.shut = TRUE, !.isOpen = FALSE]
    BY <1>2, <1>3, <1>6 DEF bufferPayload, closeAuthentication
  <2>2. /\ e \in DoorState
        /\ e.shut /\ ~e.isOpen /\ e.stage = m.stage /\ e.user = m.user /\ e.ticket = m.ticket
        /\ e.pendingBytes = m.pendingBytes
    BY <1>2, <2>1 DEF DoorState
  <2> QED BY <1>2, <1>6, <2>2 DEF DoorHeard
<1>7. CASE d.stage # "client" /\ ~m.shut /\ ~TooMuch(m, size)
  <2>1. e = [m EXCEPT !.pendingPayloads = Append(m.pendingPayloads, size),
                      !.pendingBytes = m.pendingBytes + size]
    BY <1>2, <1>3, <1>7 DEF bufferPayload
  <2>2. m.pendingBytes \in Nat /\ Append(m.pendingPayloads, size) \in Seq(MessageSizes)
    BY <1>2 DEF DoorState
  <2>3. m.pendingBytes + size \in Nat /\ m.pendingBytes + size <= PRE_AUTH_BUFFER_MAX_BYTES
    BY <1>0, <1>7, <2>2 DEF TooMuch
  <2>4. /\ e \in DoorState
        /\ e.shut = m.shut /\ e.stage = m.stage /\ e.user = m.user /\ e.ticket = m.ticket
        /\ e.pendingBytes = m.pendingBytes + size
        /\ e.pendingPayloads = Append(m.pendingPayloads, size)
        /\ e.handled = m.handled /\ e.received = m.received
    BY <1>2, <2>1, <2>2, <2>3 DEF DoorState
  <2>5. d.stage \in {"none", "consuming", "admitted"}
    BY <1>7 DEF DoorState, DoorHeard
  <2> QED BY <1>2, <1>7, <2>3, <2>4, <2>5 DEF DoorHeard
<1> QED BY <1>4, <1>5, <1>6, <1>7

\* The invariant holds initially and after every step, one step of the proof for
\* each action; what a step does to one socket is said before what it does to the
\* invariant.
THEOREM AccessInvariance == AccessSpec => []AccessInv
<1>1. ASSUME AccessInit PROVE AccessInv
  <2>1. \A s \in Doors : door[s] = NewDoor /\ NewDoor \in DoorState
    BY <1>1 DEF AccessInit, NewDoor, DoorState
  <2>2. AccessTypeOK
    BY <1>1, <2>1, AccessAssumption DEF AccessInit, AccessTypeOK, TicketRow
  <2>3. DoorsKnown
    BY <1>1, <2>1, AccessAssumption DEF AccessInit, DoorsKnown, NewDoor
  <2>4. \A s \in Doors : DoorHeard(door[s])
    BY <2>1, AccessAssumption DEF DoorHeard, NewDoor
  <2>5. DoorsOut
    BY <1>1 DEF AccessInit, DoorsOut
  <2> QED BY <2>2, <2>3, <2>4, <2>5 DEF AccessInv
<1>2. ASSUME AccessInv, UNCHANGED accessVars PROVE AccessInv'
  BY <1>2 DEF accessVars, AccessInv, AccessTypeOK, DoorsKnown, DoorHeard, DoorsOut
<1>3. ASSUME AccessInv, NEW u \in Members, NEW c \in Tokens, LogIn(u, c) PROVE AccessInv'
  <2>1. AccessTypeOK'
    BY <1>3 DEF AccessInv, AccessTypeOK, LogIn
  <2>2. DoorsKnown' /\ \A s \in Doors : DoorHeard(door[s])'
    BY <1>3, DoorsRest DEF LogIn
  <2>3. DoorsOut'
    BY <1>3 DEF AccessInv, DoorsOut, LogIn
  <2> QED BY <2>1, <2>2, <2>3 DEF AccessInv
<1>4. ASSUME AccessInv, NEW c \in Tokens, LogOut(c) PROVE AccessInv'
  <2>1. AccessTypeOK'
    BY <1>4 DEF AccessInv, AccessTypeOK, LogOut
  <2>2. DoorsKnown' /\ \A s \in Doors : DoorHeard(door[s])'
    BY <1>4, DoorsRest DEF LogOut
  <2>3. DoorsOut'
    BY <1>4 DEF AccessInv, DoorsOut, LogOut
  <2> QED BY <2>1, <2>2, <2>3 DEF AccessInv
<1>5. ASSUME AccessInv, NEW t \in Tickets,
             \/ \E c \in Tokens : RequestWsTicket(c, t)
             \/ createWsTicket(t)
             \/ WsTicketExpires(t)
      PROVE  AccessInv'
  <2>1. PICK row \in TicketRow : /\ wsTickets' = [wsTickets EXCEPT ![t] = row]
                                 /\ row.state # "gone" /\ wsTickets[t].state # "gone"
                                 /\ UNCHANGED <<suspended, sessions, door, clientOf, revoking, slippedBy>>
    <3>1. wsTickets[t] \in TicketRow /\ \A c \in Tokens : sessions[c] \in Members \cup {Nobody}
      BY <1>5 DEF AccessInv, AccessTypeOK
    <3>2. CASE \E c \in Tokens : RequestWsTicket(c, t)
      <4>1. PICK c \in Tokens : RequestWsTicket(c, t)
        BY <3>2
      <4>2. [user |-> sessions[c], state |-> "asked"] \in TicketRow
        BY <3>1 DEF TicketRow
      <4> QED BY <4>1, <4>2 DEF RequestWsTicket
    <3>3. CASE createWsTicket(t)
      <4>1. [wsTickets[t] EXCEPT !.state = "valid"] \in TicketRow
        BY <3>1 DEF TicketRow
      <4>2. [wsTickets[t] EXCEPT !.state = "valid"].state = "valid"
        BY <3>1 DEF TicketRow
      <4> QED BY <3>3, <4>1, <4>2 DEF createWsTicket
    <3>4. CASE WsTicketExpires(t)
      <4>1. [wsTickets[t] EXCEPT !.state = "expired"] \in TicketRow
        BY <3>1 DEF TicketRow
      <4>2. [wsTickets[t] EXCEPT !.state = "expired"].state = "expired"
        BY <3>1 DEF TicketRow
      <4> QED BY <3>4, <4>1, <4>2 DEF WsTicketExpires
    <3> QED BY <1>5, <3>2, <3>3, <3>4
  <2>2. AccessTypeOK'
    BY <1>5, <2>1 DEF AccessInv, AccessTypeOK
  <2>3. wsTickets \in [Tickets -> TicketRow]
    BY <1>5 DEF AccessInv, AccessTypeOK
  <2>4. \A r \in Tickets : wsTickets[r].state = "gone" => wsTickets'[r].state = "gone"
    BY <2>1, <2>3
  <2>5. DoorsKnown' /\ \A s \in Doors : DoorHeard(door[s])'
    BY <1>5, <2>1, <2>4, DoorsRest
  <2>6. DoorsOut'
    BY <1>5, <2>1 DEF AccessInv, DoorsOut
  <2> QED BY <2>2, <2>5, <2>6 DEF AccessInv
<1>6. ASSUME AccessInv, NEW s \in Doors, NEW t \in Tickets, ComeToDoor(s, t) PROVE AccessInv'
  <2>1. door[s] \in DoorState /\ DoorHeard(door[s]) /\ door[s].stage = "none" /\ door[s].user = Nobody
    BY <1>6 DEF AccessInv, AccessTypeOK, DoorsKnown, ComeToDoor
  <2>2. PICK e \in DoorState :
           /\ door' = [door EXCEPT ![s] = e]
           /\ e.stage = "consuming" /\ e.user = Nobody /\ e.ticket = t
           /\ DoorHeard(e)
    <3> DEFINE e == [door[s] EXCEPT !.stage = "consuming", !.ticket = t, !.isOpen = TRUE]
    <3>1. door' = [door EXCEPT ![s] = e] /\ ~door[s].shut
      BY <1>6, <2>1 DEF ComeToDoor, DoorHeard
    <3>2. /\ e \in DoorState
          /\ e.stage = "consuming" /\ e.user = door[s].user /\ e.ticket = t /\ e.shut = door[s].shut
          /\ e.pendingPayloads = door[s].pendingPayloads /\ e.pendingBytes = door[s].pendingBytes
          /\ e.received = door[s].received /\ e.handled = door[s].handled
      BY <2>1 DEF DoorState
    <3> HIDE DEF e
    <3>3. DoorHeard(e)
      BY <2>1, <3>1, <3>2 DEF DoorHeard
    <3> QED BY <2>1, <3>1, <3>2, <3>3
  <2>3. /\ door \in [Doors -> DoorState]
        /\ UNCHANGED <<suspended, sessions, wsTickets, clientOf, revoking, slippedBy>>
    BY <1>6 DEF AccessInv, AccessTypeOK, ComeToDoor
  <2>4. \A r \in Doors : door'[r] = IF r = s THEN e ELSE door[r]
    BY <2>2, <2>3
  <2>5. AccessTypeOK'
    BY <1>6, <2>2, <2>3 DEF AccessInv, AccessTypeOK
  <2>6. DoorsKnown'
    BY <1>6, <2>1, <2>2, <2>3, <2>4, AccessAssumption DEF AccessInv, DoorsKnown
  <2>7. (\A r \in Doors : DoorHeard(door[r]))'
    BY <1>6, <2>2, <2>4 DEF AccessInv, DoorHeard
  <2>8. DoorsOut'
    BY <1>6, <2>2, <2>3, <2>4 DEF AccessInv, DoorsOut
  <2> QED BY <2>5, <2>6, <2>7, <2>8 DEF AccessInv
<1>7. ASSUME AccessInv, NEW s \in Doors, NEW size \in MessageSizes, MessageArrives(s, size) PROVE AccessInv'
  <2>1. door[s] \in DoorState /\ DoorHeard(door[s]) /\ door[s].isOpen
    BY <1>7 DEF AccessInv, AccessTypeOK, MessageArrives
  <2> DEFINE e == onMessage(door[s], size)
  <2>2. door' = [door EXCEPT ![s] = e]
    BY <1>7 DEF MessageArrives
  <2>3. /\ e \in DoorState
        /\ DoorHeard(e)
        /\ e.stage = door[s].stage /\ e.user = door[s].user /\ e.ticket = door[s].ticket
    BY <2>1, MessageKeeps
  <2> HIDE DEF e
  <2>4. /\ door \in [Doors -> DoorState]
        /\ UNCHANGED <<suspended, sessions, wsTickets, clientOf, revoking, slippedBy>>
    BY <1>7 DEF AccessInv, AccessTypeOK, MessageArrives
  <2>5. \A r \in Doors : door'[r] = IF r = s THEN e ELSE door[r]
    BY <2>2, <2>4
  <2>6. \A r \in Doors : /\ door'[r].stage = door[r].stage /\ door'[r].user = door[r].user
                         /\ door'[r].ticket = door[r].ticket
    BY <2>3, <2>5
  <2>7. AccessTypeOK'
    BY <1>7, <2>2, <2>3, <2>4 DEF AccessInv, AccessTypeOK
  <2>8. DoorsKnown'
    BY <1>7, <2>4, <2>6 DEF AccessInv, DoorsKnown
  <2>9. (\A r \in Doors : DoorHeard(door[r]))'
    BY <1>7, <2>3, <2>5 DEF AccessInv, DoorHeard
  <2>10. DoorsOut'
    BY <1>7, <2>4, <2>6 DEF AccessInv, DoorsOut
  <2> QED BY <2>7, <2>8, <2>9, <2>10 DEF AccessInv
<1>8. ASSUME AccessInv, NEW s \in Doors, ConsumeAtDoor(s) PROVE AccessInv'
  <2> DEFINE k == door[s].ticket
             u == consumeWsTicket(k)
             e == [door[s] EXCEPT !.stage = "admitted", !.user = u]
  <2>1. /\ door[s] \in DoorState /\ DoorHeard(door[s]) /\ door[s].stage = "consuming"
        /\ door[s].user = Nobody /\ k \in Tickets /\ wsTickets[k] \in TicketRow
        /\ \A r \in Doors : door[r] \in DoorState
    BY <1>8 DEF AccessInv, AccessTypeOK, DoorsKnown, ConsumeAtDoor
  <2>2. /\ u \in Members \cup {Nobody} /\ u \notin suspended
        /\ u # Nobody => wsTickets[k].state # "gone"
    BY <1>8, <2>1, AccessAssumption DEF consumeWsTicket, TicketRow, AccessInv, AccessTypeOK
  <2>3. /\ door' = [door EXCEPT ![s] = e]
        /\ wsTickets' = [wsTickets EXCEPT ![k] = [wsTickets[k] EXCEPT !.state = "gone"]]
        /\ UNCHANGED <<suspended, sessions, clientOf, revoking, slippedBy>>
    BY <1>8 DEF ConsumeAtDoor
  <2> HIDE DEF u
  <2>4. /\ e \in DoorState
        /\ e.stage = "admitted" /\ e.user = u /\ e.ticket = k
        /\ e.shut = door[s].shut /\ e.isOpen = door[s].isOpen
        /\ e.pendingPayloads = door[s].pendingPayloads /\ e.pendingBytes = door[s].pendingBytes
        /\ e.received = door[s].received /\ e.handled = door[s].handled
    BY <2>1, <2>2 DEF DoorState
  <2> HIDE DEF e
  <2>5. DoorHeard(e)
    BY <2>1, <2>4 DEF DoorHeard
  <2>6. [wsTickets[k] EXCEPT !.state = "gone"] \in TicketRow /\ [wsTickets[k] EXCEPT !.state = "gone"].state = "gone"
    BY <2>1 DEF TicketRow
  <2> HIDE DEF k
  <2>7. door \in [Doors -> DoorState] /\ wsTickets \in [Tickets -> TicketRow]
    BY <1>8 DEF AccessInv, AccessTypeOK
  <2>8. \A r \in Doors : door'[r] = IF r = s THEN e ELSE door[r]
    BY <2>3, <2>7
  <2>9. /\ wsTickets' \in [Tickets -> TicketRow] /\ wsTickets'[k].state = "gone"
        /\ \A t \in Tickets : wsTickets[t].state = "gone" => wsTickets'[t].state = "gone"
    BY <2>1, <2>3, <2>6, <2>7
  <2>10. AccessTypeOK'
    BY <1>8, <2>3, <2>4, <2>9 DEF AccessInv, AccessTypeOK
  <2>11. DoorsKnown'
    <3>1. \A r \in Doors \ {s} : door[r].user # Nobody /\ u # Nobody => door[r].ticket # k
      BY <1>8, <2>2 DEF AccessInv, DoorsKnown
    <3>2. (\A r \in Doors, v \in Members : clientOf[v] = r <=> door[r].stage = "client" /\ door[r].user = v)'
      BY <1>8, <2>1, <2>3, <2>4, <2>8 DEF AccessInv, DoorsKnown
    <3>3. (\A r \in Doors :
             /\ door[r].stage = "client" => door[r].user # Nobody
             /\ door[r].stage \in {"none", "consuming"} => door[r].user = Nobody
             /\ door[r].stage # "none" => door[r].ticket \in Tickets
             /\ door[r].user # Nobody =>
                  door[r].ticket \in Tickets /\ wsTickets[door[r].ticket].state = "gone")'
      BY <1>8, <2>1, <2>3, <2>4, <2>8, <2>9 DEF AccessInv, DoorsKnown
    <3>4. (\A r, q \in Doors :
             r # q /\ door[r].user # Nobody /\ door[q].user # Nobody => door[r].ticket # door[q].ticket)'
      BY <1>8, <2>4, <2>8, <3>1 DEF AccessInv, DoorsKnown
    <3> QED BY <3>2, <3>3, <3>4 DEF DoorsKnown
  <2>12. (\A r \in Doors : DoorHeard(door[r]))'
    BY <1>8, <2>5, <2>8 DEF AccessInv, DoorHeard
  <2>13. DoorsOut'
    BY <1>8, <2>2, <2>3, <2>4, <2>8 DEF AccessInv, DoorsOut
  <2> QED BY <2>10, <2>11, <2>12, <2>13 DEF AccessInv
<1>9. ASSUME AccessInv, NEW s \in Doors, AuthenticationAnswered(s), UNCHANGED clientOf PROVE AccessInv'
  <2>1. door[s] \in DoorState /\ DoorHeard(door[s]) /\ door[s].stage = "admitted"
    BY <1>9 DEF AccessInv, AccessTypeOK, AuthenticationAnswered
  <2>2. PICK e \in DoorState : /\ door' = [door EXCEPT ![s] = e]
                               /\ e.stage = "over" /\ e.user = door[s].user /\ e.ticket = door[s].ticket
                               /\ DoorHeard(e)
    <3> DEFINE e1 == [door[s] EXCEPT !.shut = TRUE, !.isOpen = FALSE]
               e2 == [e1 EXCEPT !.stage = "over"]
               e3 == [door[s] EXCEPT !.stage = "over"]
    <3>1. /\ e1 \in DoorState /\ ~e1.isOpen
          /\ e1.user = door[s].user /\ e1.ticket = door[s].ticket /\ e1.pendingBytes = door[s].pendingBytes
      BY <2>1 DEF DoorState
    <3> HIDE DEF e1
    <3>2. /\ e2 \in DoorState /\ ~e2.isOpen /\ e2.stage = "over"
          /\ e2.user = door[s].user /\ e2.ticket = door[s].ticket /\ e2.pendingBytes = door[s].pendingBytes
      BY <3>1 DEF DoorState
    <3>3. /\ e3 \in DoorState /\ e3.isOpen = door[s].isOpen /\ e3.stage = "over"
          /\ e3.user = door[s].user /\ e3.ticket = door[s].ticket /\ e3.pendingBytes = door[s].pendingBytes
          /\ e3.shut = door[s].shut
      BY <2>1 DEF DoorState
    <3>4. \/ door' = [door EXCEPT ![s] = e2]
          \/ ~door[s].isOpen /\ door' = [door EXCEPT ![s] = e3]
          \/ HubTakes(s) /\ door[s].user # Nobody
      BY <1>9, <2>1 DEF AuthenticationAnswered, closeAuthentication, DoorHeard, e1
    <3>5. ~(HubTakes(s) /\ door[s].user # Nobody)
      <4> SUFFICES ASSUME HubTakes(s), door[s].user # Nobody PROVE FALSE
        OBVIOUS
      <4>1. door[s].user \in Members /\ clientOf \in [Members -> Doors \cup {NoDoor}]
        BY <1>9, <2>1 DEF AccessInv, AccessTypeOK, DoorState
      <4>2. clientOf[door[s].user] = s
        BY <1>9, <4>1 DEF HubTakes
      <4> QED BY <1>9, <2>1, <4>1, <4>2 DEF AccessInv, DoorsKnown
    <3> HIDE DEF e2, e3
    <3> QED BY <2>1, <3>2, <3>3, <3>4, <3>5 DEF DoorHeard
  <2>3. /\ door \in [Doors -> DoorState]
        /\ UNCHANGED <<suspended, sessions, wsTickets, clientOf, revoking, slippedBy>>
    BY <1>9 DEF AccessInv, AccessTypeOK, AuthenticationAnswered
  <2>4. \A r \in Doors : door'[r] = IF r = s THEN e ELSE door[r]
    BY <2>2, <2>3
  <2>5. AccessTypeOK'
    BY <1>9, <2>2, <2>3 DEF AccessInv, AccessTypeOK
  <2>6. DoorsKnown'
    BY <1>9, <2>1, <2>2, <2>3, <2>4 DEF AccessInv, DoorsKnown
  <2>7. (\A r \in Doors : DoorHeard(door[r]))'
    BY <1>9, <2>2, <2>4 DEF AccessInv, DoorHeard
  <2>8. DoorsOut'
    BY <1>9, <2>1, <2>2, <2>3, <2>4 DEF AccessInv, DoorsOut
  <2> QED BY <2>5, <2>6, <2>7, <2>8 DEF AccessInv
<1>10. ASSUME AccessInv, NEW s \in Doors, AuthenticationAnswered(s), HubTakes(s), door[s].user # Nobody,
              ~door[s].shut
       PROVE  AccessInv'
  <2> DEFINE u == door[s].user
             p == clientOf[u]
             d == Replaced(door, p)
             e == [d[s] EXCEPT !.stage = "client", !.handled = door[s].pendingPayloads]
  <2>1. /\ door[s] \in DoorState /\ DoorHeard(door[s]) /\ door[s].stage = "admitted" /\ u \in Members
        /\ clientOf \in [Members -> Doors \cup {NoDoor}] /\ door[s].pendingPayloads \in Seq(MessageSizes)
        /\ door \in [Doors -> DoorState] /\ \A r \in Doors : door[r] \in DoorState
    BY <1>10 DEF AccessInv, AccessTypeOK, AuthenticationAnswered, DoorState
  <2>2. p # s
    BY <1>10, <2>1 DEF AccessInv, DoorsKnown
  <2>3. /\ clientOf' = [clientOf EXCEPT ![u] = s]
        /\ door' = [d EXCEPT ![s] = e]
        /\ UNCHANGED <<suspended, sessions, wsTickets, revoking, slippedBy>>
    BY <1>10 DEF HubTakes, AuthenticationAnswered
  <2>4. /\ d \in [Doors -> DoorState]
        /\ d[s] = door[s]
        /\ \A r \in Doors \ {p} : d[r] = door[r]
        /\ p \in Doors => ~d[p].isOpen
        /\ \A r \in Doors : /\ d[r].user = door[r].user /\ d[r].ticket = door[r].ticket
                            /\ d[r].pendingBytes = door[r].pendingBytes
                            /\ d[r].stage = IF r = p THEN "over" ELSE door[r].stage
    BY <1>10, <2>2, ReplacedIs DEF AccessInv
  <2> HIDE DEF d
  <2>5. /\ e \in DoorState /\ e.stage = "client" /\ e.user = u /\ e.ticket = door[s].ticket
        /\ e.handled = door[s].pendingPayloads /\ e.received = door[s].received
        /\ e.pendingBytes = door[s].pendingBytes /\ e.shut = door[s].shut
    BY <2>1, <2>4 DEF DoorState
  <2> HIDE DEF e
  <2>6. DoorHeard(e)
    BY <1>10, <2>1, <2>5 DEF DoorHeard
  <2>7. \A r \in Doors : door'[r] = IF r = s THEN e ELSE d[r]
    BY <2>3, <2>4
  <2>8. \A r \in Doors : /\ door'[r].user = door[r].user
                         /\ door'[r].ticket = door[r].ticket
                         /\ door'[r].stage = IF r = s THEN "client" ELSE IF r = p THEN "over" ELSE door[r].stage
    BY <2>4, <2>5, <2>7
  <2>9. AccessTypeOK'
    BY <1>10, <2>1, <2>3, <2>4, <2>5 DEF AccessInv, AccessTypeOK
  <2>10. DoorsKnown'
    <3>1. \A v \in Members : clientOf'[v] = IF v = u THEN s ELSE clientOf[v]
      BY <2>1, <2>3
    <3>2. \A r \in Doors, v \in Members : clientOf[v] = r <=> door[r].stage = "client" /\ door[r].user = v
      BY <1>10 DEF AccessInv, DoorsKnown
    <3>3. \A r \in Doors, v \in Members : clientOf'[v] = r <=> door'[r].stage = "client" /\ door'[r].user = v
      BY <2>1, <2>2, <2>8, <3>1, <3>2
    <3>4. (\A r \in Doors :
             /\ door[r].stage = "client" => door[r].user # Nobody
             /\ door[r].stage \in {"none", "consuming"} => door[r].user = Nobody
             /\ door[r].stage # "none" => door[r].ticket \in Tickets
             /\ door[r].user # Nobody =>
                  door[r].ticket \in Tickets /\ wsTickets[door[r].ticket].state = "gone")'
      <4>1. p \in Doors => door[p].stage = "client"
        BY <2>1, <3>2
      <4> QED BY <1>10, <2>1, <2>3, <2>8, <4>1 DEF AccessInv, DoorsKnown
    <3>5. (\A r, q \in Doors :
             r # q /\ door[r].user # Nobody /\ door[q].user # Nobody => door[r].ticket # door[q].ticket)'
      BY <1>10, <2>8 DEF AccessInv, DoorsKnown
    <3> QED BY <3>3, <3>4, <3>5 DEF DoorsKnown
  <2>11. \A r \in Doors : DoorHeard(d[r])
    <3> SUFFICES ASSUME NEW r \in Doors PROVE DoorHeard(d[r])
      OBVIOUS
    <3>1. door[r] \in DoorState /\ DoorHeard(door[r])
      BY <1>10, <2>1 DEF AccessInv
    <3>2. CASE r # p
      BY <2>4, <3>1, <3>2
    <3>3. CASE r = p
      <4>1. d[r].pendingBytes = door[r].pendingBytes /\ d[r].stage = "over" /\ ~d[r].isOpen
        BY <2>4, <3>1, <3>3 DEF DoorState
      <4> QED BY <3>1, <4>1 DEF DoorHeard
    <3> QED BY <3>2, <3>3
  <2>12. (\A r \in Doors : DoorHeard(door[r]))'
    <3>1. \A r \in Doors : DoorHeard(door'[r])
      BY <2>6, <2>7, <2>11
    <3> QED BY <3>1 DEF DoorHeard
  <2>13. DoorsOut'
    BY <1>10, <2>1, <2>3, <2>8 DEF AccessInv, DoorsOut
  <2> QED BY <2>9, <2>10, <2>12, <2>13 DEF AccessInv
<1>11. ASSUME AccessInv, NEW s \in Doors, LeaveDoor(s) PROVE AccessInv'
  <2> DEFINE e == [door[s] EXCEPT !.isOpen = FALSE, !.stage = IF @ = "client" THEN "over" ELSE @]
  <2>1. /\ door[s] \in DoorState /\ DoorHeard(door[s]) /\ door[s].isOpen
        /\ clientOf \in [Members -> Doors \cup {NoDoor}] /\ door \in [Doors -> DoorState]
    BY <1>11 DEF AccessInv, AccessTypeOK, LeaveDoor
  <2>2. /\ door' = [door EXCEPT ![s] = e]
        /\ clientOf' = [v \in Members |-> IF clientOf[v] = s THEN NoDoor ELSE clientOf[v]]
        /\ UNCHANGED <<suspended, sessions, wsTickets, revoking, slippedBy>>
    BY <1>11 DEF LeaveDoor
  <2>3. /\ e \in DoorState /\ ~e.isOpen /\ e.stage = IF door[s].stage = "client" THEN "over" ELSE door[s].stage
        /\ e.user = door[s].user /\ e.ticket = door[s].ticket /\ e.shut = door[s].shut
        /\ e.pendingPayloads = door[s].pendingPayloads /\ e.pendingBytes = door[s].pendingBytes
        /\ e.received = door[s].received /\ e.handled = door[s].handled
    BY <2>1 DEF DoorState
  <2> HIDE DEF e
  <2>4. DoorHeard(e)
    BY <2>1, <2>3 DEF DoorHeard
  <2>5. \A r \in Doors : door'[r] = IF r = s THEN e ELSE door[r]
    BY <2>1, <2>2
  <2>6. AccessTypeOK'
    BY <1>11, <2>1, <2>2, <2>3 DEF AccessInv, AccessTypeOK
  <2>7. DoorsKnown'
    <3>1. \A v \in Members : clientOf'[v] = IF clientOf[v] = s THEN NoDoor ELSE clientOf[v]
      BY <2>2
    <3>2. \A r \in Doors, v \in Members : clientOf[v] = r <=> door[r].stage = "client" /\ door[r].user = v
      BY <1>11 DEF AccessInv, DoorsKnown
    <3>3. \A r \in Doors, v \in Members : clientOf'[v] = r <=> door'[r].stage = "client" /\ door'[r].user = v
      BY <2>3, <2>5, <3>1, <3>2, AccessAssumption
    <3>4. (\A r \in Doors :
             /\ door[r].stage = "client" => door[r].user # Nobody
             /\ door[r].stage \in {"none", "consuming"} => door[r].user = Nobody
             /\ door[r].stage # "none" => door[r].ticket \in Tickets
             /\ door[r].user # Nobody =>
                  door[r].ticket \in Tickets /\ wsTickets[door[r].ticket].state = "gone")'
      BY <1>11, <2>2, <2>3, <2>5 DEF AccessInv, DoorsKnown
    <3>5. (\A r, q \in Doors :
             r # q /\ door[r].user # Nobody /\ door[q].user # Nobody => door[r].ticket # door[q].ticket)'
      BY <1>11, <2>3, <2>5 DEF AccessInv, DoorsKnown
    <3> QED BY <3>3, <3>4, <3>5 DEF DoorsKnown
  <2>8. (\A r \in Doors : DoorHeard(door[r]))'
    BY <1>11, <2>4, <2>5 DEF AccessInv, DoorHeard
  <2>9. DoorsOut'
    BY <1>11, <2>2, <2>3, <2>5 DEF AccessInv, DoorsOut
  <2> QED BY <2>6, <2>7, <2>8, <2>9 DEF AccessInv
<1>12. ASSUME AccessInv, NEW u \in Members, Suspend(u) PROVE AccessInv'
  <2>1. /\ revoking \in [Members -> 0..MaxSuspensions] /\ MaxSuspensions \in Nat
        /\ revoking[u] < MaxSuspensions /\ suspended' = suspended \cup {u}
        /\ revoking' = [revoking EXCEPT ![u] = revoking[u] + 1]
        /\ UNCHANGED <<sessions, wsTickets, door, clientOf, slippedBy>>
    BY <1>12, AccessAssumption DEF AccessInv, AccessTypeOK, Suspend
  <2>2. /\ revoking' \in [Members -> 0..MaxSuspensions] /\ revoking'[u] # 0
        /\ \A v \in Members \ {u} : revoking'[v] = revoking[v]
    BY <2>1
  <2>3. AccessTypeOK'
    BY <1>12, <2>1, <2>2 DEF AccessInv, AccessTypeOK
  <2>4. DoorsKnown' /\ \A s \in Doors : DoorHeard(door[s])'
    BY <1>12, <2>1, DoorsRest
  <2>5. DoorsOut'
    BY <1>12, <2>1, <2>2 DEF AccessInv, AccessTypeOK, DoorsOut
  <2> QED BY <2>3, <2>4, <2>5 DEF AccessInv
<1>13. ASSUME AccessInv, NEW u \in Members, Reinstate(u) PROVE AccessInv'
  <2>1. AccessTypeOK'
    BY <1>13 DEF AccessInv, AccessTypeOK, Reinstate
  <2>2. DoorsKnown' /\ \A s \in Doors : DoorHeard(door[s])'
    BY <1>13, DoorsRest DEF Reinstate
  <2>3. DoorsOut'
    BY <1>13 DEF AccessInv, DoorsOut, Reinstate
  <2> QED BY <2>1, <2>2, <2>3 DEF AccessInv
<1>14. ASSUME AccessInv, NEW u \in Members, revokeUser(u) PROVE AccessInv'
  <2> DEFINE p == clientOf[u]
             d == Replaced(door, p)
  <2>1. /\ clientOf \in [Members -> Doors \cup {NoDoor}] /\ door \in [Doors -> DoorState]
        /\ revoking \in [Members -> 0..MaxSuspensions] /\ MaxSuspensions \in Nat
        /\ \A r \in Doors : door[r] \in DoorState
    BY <1>14, AccessAssumption DEF AccessInv, AccessTypeOK
  <2>2. /\ revoking[u] > 0 /\ revoking' = [revoking EXCEPT ![u] = revoking[u] - 1]
        /\ door' = d
        /\ clientOf' = [clientOf EXCEPT ![u] = NoDoor]
        /\ slippedBy' = {s \in Doors : IF door[s].user = u THEN door[s].stage = "admitted" ELSE s \in slippedBy}
        /\ UNCHANGED <<suspended, sessions, wsTickets>>
    BY <1>14 DEF revokeUser
  <2>3. /\ d \in [Doors -> DoorState]
        /\ \A r \in Doors \ {p} : d[r] = door[r]
        /\ p \in Doors => ~d[p].isOpen
        /\ \A r \in Doors : /\ d[r].user = door[r].user /\ d[r].ticket = door[r].ticket
                            /\ d[r].pendingBytes = door[r].pendingBytes
                            /\ d[r].stage = IF r = p THEN "over" ELSE door[r].stage
    BY <1>14, ReplacedIs DEF AccessInv
  <2> HIDE DEF d
  <2>4. \A r \in Doors : /\ door'[r].user = door[r].user
                         /\ door'[r].ticket = door[r].ticket
                         /\ door'[r].stage = IF r = p THEN "over" ELSE door[r].stage
    BY <2>2, <2>3
  <2>5. revoking' \in [Members -> 0..MaxSuspensions]
    BY <2>1, <2>2
  <2>6. \A v \in Members : clientOf'[v] = IF v = u THEN NoDoor ELSE clientOf[v]
    BY <2>1, <2>2
  <2>7. AccessTypeOK'
    BY <1>14, <2>1, <2>2, <2>3, <2>5 DEF AccessInv, AccessTypeOK
  <2>8. \A r \in Doors, v \in Members : clientOf[v] = r <=> door[r].stage = "client" /\ door[r].user = v
    BY <1>14 DEF AccessInv, DoorsKnown
  <2>9. DoorsKnown'
    <3>1. \A r \in Doors, v \in Members : clientOf'[v] = r <=> door'[r].stage = "client" /\ door'[r].user = v
      BY <2>1, <2>4, <2>6, <2>8, AccessAssumption
    <3>2. p \in Doors => door[p].stage = "client"
      BY <2>8
    <3>3. (\A r \in Doors :
             /\ door[r].stage = "client" => door[r].user # Nobody
             /\ door[r].stage \in {"none", "consuming"} => door[r].user = Nobody
             /\ door[r].stage # "none" => door[r].ticket \in Tickets
             /\ door[r].user # Nobody =>
                  door[r].ticket \in Tickets /\ wsTickets[door[r].ticket].state = "gone")'
      BY <1>14, <2>2, <2>4, <3>2 DEF AccessInv, DoorsKnown
    <3>4. (\A r, q \in Doors :
             r # q /\ door[r].user # Nobody /\ door[q].user # Nobody => door[r].ticket # door[q].ticket)'
      BY <1>14, <2>4 DEF AccessInv, DoorsKnown
    <3> QED BY <3>1, <3>3, <3>4 DEF DoorsKnown
  <2>10. \A r \in Doors : DoorHeard(d[r])
    <3> SUFFICES ASSUME NEW r \in Doors PROVE DoorHeard(d[r])
      OBVIOUS
    <3>1. door[r] \in DoorState /\ DoorHeard(door[r])
      BY <1>14, <2>1 DEF AccessInv
    <3>2. CASE r # p
      BY <2>3, <3>1, <3>2
    <3>3. CASE r = p
      <4>1. d[r].pendingBytes = door[r].pendingBytes /\ d[r].stage = "over" /\ ~d[r].isOpen
        BY <2>3, <3>1, <3>3 DEF DoorState
      <4> QED BY <3>1, <4>1 DEF DoorHeard
    <3> QED BY <3>2, <3>3
  <2>11. (\A r \in Doors : DoorHeard(door[r]))'
    BY <2>2, <2>10 DEF DoorHeard
  <2>12. DoorsOut'
    <3> SUFFICES ASSUME NEW v \in suspended, revoking'[v] = 0, NEW r \in Doors, door'[r].user = v,
                        door'[r].stage \in {"admitted", "client"}
                 PROVE  r \in slippedBy'
      BY <2>2 DEF DoorsOut
    <3>1. v \in Members /\ door[r].user = v /\ door[r].stage \in {"admitted", "client"} /\ r # p
      BY <1>14, <2>4 DEF AccessInv, AccessTypeOK
    <3>2. CASE v = u
      BY <2>2, <2>8, <3>1, <3>2
    <3>3. CASE v # u
      <4>1. revoking[v] = 0
        BY <2>1, <2>2, <3>1, <3>3
      <4> QED BY <1>14, <2>2, <3>1, <3>3, <4>1 DEF AccessInv, DoorsOut
    <3> QED BY <3>2, <3>3
  <2> QED BY <2>7, <2>9, <2>11, <2>12 DEF AccessInv
<1>15. ASSUME AccessInv, [AccessNext]_accessVars PROVE AccessInv'
  <2>1. CASE \E s \in Doors : AuthenticationAnswered(s)
    <3>1. PICK s \in Doors : AuthenticationAnswered(s)
      BY <2>1
    <3>2. UNCHANGED clientOf \/ (HubTakes(s) /\ door[s].user # Nobody /\ ~door[s].shut)
      BY <3>1 DEF AuthenticationAnswered
    <3> QED BY <1>9, <1>10, <1>15, <3>1, <3>2
  <2>2. CASE ~\E s \in Doors : AuthenticationAnswered(s)
    BY <1>2, <1>3, <1>4, <1>5, <1>6, <1>7, <1>8, <1>11, <1>12, <1>13, <1>14, <1>15, <2>2 DEF AccessNext
  <2> QED BY <2>1, <2>2
<1> QED BY <1>1, <1>15, PTL DEF AccessSpec

\* A ban that was carried out keeps its user out, but for a handshake the
\* database had let through before (app.ts:206-235, 572-601).
THEOREM SuspendedAreOutAlways == AccessSpec => []SuspendedAreOut
<1>1. ASSUME AccessInv PROVE SuspendedAreOut
  <2> SUFFICES ASSUME NEW u \in suspended, revoking[u] = 0, clientOf[u] # NoDoor
               PROVE  clientOf[u] \in slippedBy
    BY DEF SuspendedAreOut
  <2>1. u \in Members /\ clientOf[u] \in Doors
    BY <1>1 DEF AccessInv, AccessTypeOK
  <2>2. door[clientOf[u]].stage = "client" /\ door[clientOf[u]].user = u
    BY <1>1, <2>1 DEF AccessInv, DoorsKnown
  <2> QED BY <1>1, <2>1, <2>2 DEF AccessInv, DoorsOut
<1> QED BY <1>1, AccessInvariance, PTL

\* A ticket opens one socket, a user has one socket, and the hub hears all that
\* arrived on it, in its order (app.ts:157-189, 211-235).
THEOREM SocketsAreTheirsAlways == AccessSpec => []SocketsAreTheirs
<1>1. ASSUME AccessInv PROVE SocketsAreTheirs
  <2>1. OneSocketEach
    <3>1. \A s \in Doors : door[s].user \in Members \cup {Nobody}
      BY <1>1 DEF AccessInv, AccessTypeOK, DoorState
    <3> QED BY <1>1, <3>1 DEF AccessInv, DoorsKnown, OneSocketEach
  <2>2. NothingSaidIsLost
    BY <1>1 DEF AccessInv, DoorHeard, NothingSaidIsLost
  <2> QED BY <2>1, <2>2 DEF SocketsAreTheirs
<1> QED BY <1>1, AccessInvariance, PTL

-----------------------------------------------------------------------------
(* The tickets of the guests (GuestAccessLife), for any limits, any number *)
(* of guests and addresses and any time.                                   *)

\* Tickets and the newest ticket of each guest are inverse to each other, and a
\* ticket is of its guest's address.
Paired(tk, nw, ck) ==
  /\ \A t \in DOMAIN tk :
       /\ tk[t].guest \in DOMAIN nw \cap DOMAIN ck
       /\ nw[tk[t].guest] = t
       /\ tk[t].ip = ck[tk[t].guest].ip
  /\ \A g \in DOMAIN nw : nw[g] \in DOMAIN tk /\ tk[nw[g]].guest = g

WithinLimits(tk) ==
  /\ IsFiniteSet(DOMAIN tk) /\ Cardinality(DOMAIN tk) <= ticketLimit
  /\ \A ip \in Ips : Cardinality(TicketsOfIp(tk, ip)) <= ticketsPerIp

\* Ids were handed out in order, and the tickets there are have one.
IdsInOrder ==
  /\ IsFiniteSet(spent) /\ spent = 1..Cardinality(spent)
  /\ DOMAIN tickets \subseteq spent

GuestInv == Paired(tickets, newest, cookies) /\ WithinLimits(tickets) /\ IdsInOrder

LEMMA DroppedIs ==
  ASSUME NEW map, NEW keys
  PROVE  /\ DOMAIN Drop(map, keys) = DOMAIN map \ keys
         /\ \A k \in DOMAIN map \ keys : Drop(map, keys)[k] = map[k]
BY DEF Drop, Restrict

LEMMA PutIs ==
  ASSUME NEW map, NEW key, NEW value
  PROVE  /\ DOMAIN Put(map, key, value) = DOMAIN map \cup {key}
         /\ Put(map, key, value)[key] = value
         /\ \A k \in DOMAIN map \ {key} : Put(map, key, value)[k] = map[k]
BY DEF Put

LEMMA NothingIs == DOMAIN Nothing = {}
BY DEF Nothing

\* Deleting tickets, and what points to them, keeps the maps in agreement.
LEMMA DropKeepsPairs ==
  ASSUME NEW tk, NEW nw, NEW ck, NEW gone, Paired(tk, nw, ck)
  PROVE  Paired(Drop(tk, gone), NewestWithout(nw, gone), ck)
<1> DEFINE left == Drop(tk, gone)
           known == NewestWithout(nw, gone)
<1>1. DOMAIN left = DOMAIN tk \ gone /\ \A t \in DOMAIN left : left[t] = tk[t]
  BY DEF Drop, Restrict
<1>2. /\ DOMAIN known = {g \in DOMAIN nw : nw[g] \notin gone}
      /\ \A g \in DOMAIN known : known[g] = nw[g]
  <2> DEFINE out == {g \in DOMAIN nw : nw[g] \in gone}
  <2>1. known = Drop(nw, out)
    BY DEF NewestWithout
  <2>2. DOMAIN nw \ out = {g \in DOMAIN nw : nw[g] \notin gone}
    OBVIOUS
  <2>. HIDE DEF out, known
  <2>. QED
    BY <2>1, <2>2, DroppedIs
<1>. HIDE DEF left, known
<1>3. \A t \in DOMAIN left :
        /\ left[t].guest \in DOMAIN known \cap DOMAIN ck
        /\ known[left[t].guest] = t
        /\ left[t].ip = ck[left[t].guest].ip
  BY <1>1, <1>2 DEF Paired
<1>4. \A g \in DOMAIN known : known[g] \in DOMAIN left /\ left[known[g]].guest = g
  BY <1>1, <1>2 DEF Paired
<1>5. Paired(left, known, ck)
  BY <1>3, <1>4 DEF Paired
<1>. QED
  BY <1>5 DEF left, known

LEMMA OfIpCounts ==
  ASSUME NEW tk, NEW ip, IsFiniteSet(DOMAIN tk)
  PROVE  /\ IsFiniteSet(TicketsOfIp(tk, ip))
         /\ Cardinality(DOMAIN tk) \in Nat /\ Cardinality(TicketsOfIp(tk, ip)) \in Nat
<1>1. TicketsOfIp(tk, ip) \subseteq DOMAIN tk
  BY DEF TicketsOfIp
<1>2. IsFiniteSet(TicketsOfIp(tk, ip))
  BY <1>1, FS_Subset
<1>. QED
  BY <1>2, FS_CardinalityType

LEMMA DropKeepsLimits ==
  ASSUME NEW tk, NEW gone, WithinLimits(tk)
  PROVE  WithinLimits(Drop(tk, gone))
<1> DEFINE left == Drop(tk, gone)
<1>1. DOMAIN left \subseteq DOMAIN tk /\ \A t \in DOMAIN left : left[t] = tk[t]
  BY DEF Drop, Restrict
<1>. HIDE DEF left
<1>2. IsFiniteSet(DOMAIN left) /\ Cardinality(DOMAIN left) <= Cardinality(DOMAIN tk)
  BY <1>1, FS_Subset DEF WithinLimits
<1>3. Cardinality(DOMAIN left) <= ticketLimit
  BY <1>2, FS_CardinalityType, LimitsAssumption DEF WithinLimits
<1>4. ASSUME NEW ip \in Ips PROVE Cardinality(TicketsOfIp(left, ip)) <= ticketsPerIp
  <2>1. TicketsOfIp(left, ip) \subseteq TicketsOfIp(tk, ip)
    BY <1>1 DEF TicketsOfIp
  <2>2. IsFiniteSet(TicketsOfIp(tk, ip)) /\ Cardinality(TicketsOfIp(tk, ip)) \in Nat
    BY OfIpCounts DEF WithinLimits
  <2>3. Cardinality(TicketsOfIp(left, ip)) <= Cardinality(TicketsOfIp(tk, ip))
    BY <2>1, <2>2, FS_Subset
  <2>4. Cardinality(TicketsOfIp(left, ip)) \in Nat
    BY <1>2, OfIpCounts
  <2>. QED
    BY <2>2, <2>3, <2>4, LimitsAssumption DEF WithinLimits
<1>5. WithinLimits(left)
  BY <1>2, <1>3, <1>4 DEF WithinLimits
<1>. QED
  BY <1>5 DEF left

\* A guest without a ticket is given one.
LEMMA PutKeeps ==
  ASSUME NEW tk, NEW nw, NEW ck, NEW t, NEW g, NEW ip \in Ips, NEW k,
         Paired(tk, nw, ck), WithinLimits(tk), TicketAllowed(tk, ip),
         t \notin DOMAIN tk, g \notin DOMAIN nw, g \in DOMAIN ck, ck[g].ip = ip, k.guest = g, k.ip = ip
  PROVE  Paired(Put(tk, t, k), Put(nw, g, t), ck) /\ WithinLimits(Put(tk, t, k))
<1> DEFINE more == Put(tk, t, k)
           known == Put(nw, g, t)
<1>1. DOMAIN more = DOMAIN tk \cup {t} /\ more[t] = k /\ \A u \in DOMAIN tk : more[u] = tk[u]
  BY DEF Put
<1>2. DOMAIN known = DOMAIN nw \cup {g} /\ known[g] = t /\ \A h \in DOMAIN nw : known[h] = nw[h]
  BY DEF Put
<1>. HIDE DEF more, known
<1>3. \A u \in DOMAIN more :
        /\ more[u].guest \in DOMAIN known \cap DOMAIN ck
        /\ known[more[u].guest] = u
        /\ more[u].ip = ck[more[u].guest].ip
  BY <1>1, <1>2 DEF Paired
<1>4. \A h \in DOMAIN known : known[h] \in DOMAIN more /\ more[known[h]].guest = h
  BY <1>1, <1>2 DEF Paired
<1>5. Paired(more, known, ck)
  BY <1>3, <1>4 DEF Paired
<1>6. /\ IsFiniteSet(DOMAIN tk) /\ Cardinality(DOMAIN tk) \in Nat
      /\ Cardinality(DOMAIN tk) < ticketLimit /\ Cardinality(TicketsOfIp(tk, ip)) < ticketsPerIp
  BY FS_CardinalityType DEF WithinLimits, TicketAllowed
<1>7. /\ IsFiniteSet(DOMAIN more)
      /\ Cardinality(DOMAIN more) = Cardinality(DOMAIN tk) + 1
  BY <1>1, <1>6, FS_AddElement
<1>8. Cardinality(DOMAIN more) <= ticketLimit
  BY <1>6, <1>7, LimitsAssumption
<1>9. ASSUME NEW jp \in Ips PROVE Cardinality(TicketsOfIp(more, jp)) <= ticketsPerIp
  <2>1. IsFiniteSet(TicketsOfIp(tk, jp)) /\ Cardinality(TicketsOfIp(tk, jp)) \in Nat
    BY <1>6, OfIpCounts
  <2>2. CASE jp # ip
    <3>1. TicketsOfIp(more, jp) = TicketsOfIp(tk, jp)
      BY <1>1, <2>2 DEF TicketsOfIp
    <3>. QED
      BY <3>1 DEF WithinLimits
  <2>3. CASE jp = ip
    <3>1. TicketsOfIp(more, jp) = TicketsOfIp(tk, jp) \cup {t} /\ t \notin TicketsOfIp(tk, jp)
      BY <1>1, <2>3 DEF TicketsOfIp
    <3>2. Cardinality(TicketsOfIp(more, jp)) = Cardinality(TicketsOfIp(tk, jp)) + 1
      BY <2>1, <3>1, FS_AddElement
    <3>. QED
      BY <1>6, <2>1, <2>3, <3>2, LimitsAssumption
  <2>. QED
    BY <2>2, <2>3
<1>10. WithinLimits(more)
  BY <1>7, <1>8, <1>9 DEF WithinLimits
<1>. QED
  BY <1>5, <1>10 DEF more, known

\* Where a ticket of an address has been deleted, the limits leave room for
\* another.
LEMMA RoomForAnother ==
  ASSUME NEW tk, NEW gone, NEW ip \in Ips, NEW t \in DOMAIN tk \cap gone, tk[t].ip = ip, WithinLimits(tk)
  PROVE  TicketAllowed(Drop(tk, gone), ip)
<1> DEFINE left == Drop(tk, gone)
<1>1. DOMAIN left \subseteq DOMAIN tk \ {t} /\ \A u \in DOMAIN left : left[u] = tk[u]
  BY DEF Drop, Restrict
<1>. HIDE DEF left
<1>2. /\ IsFiniteSet(DOMAIN tk) /\ IsFiniteSet(TicketsOfIp(tk, ip))
      /\ Cardinality(DOMAIN tk) \in Nat /\ Cardinality(TicketsOfIp(tk, ip)) \in Nat
  BY OfIpCounts DEF WithinLimits
<1>3. TicketsOfIp(left, ip) \subseteq TicketsOfIp(tk, ip) \ {t} /\ t \in TicketsOfIp(tk, ip)
  BY <1>1 DEF TicketsOfIp
<1>4. /\ IsFiniteSet(DOMAIN tk \ {t}) /\ Cardinality(DOMAIN tk \ {t}) = Cardinality(DOMAIN tk) - 1
      /\ IsFiniteSet(TicketsOfIp(tk, ip) \ {t})
      /\ Cardinality(TicketsOfIp(tk, ip) \ {t}) = Cardinality(TicketsOfIp(tk, ip)) - 1
  BY <1>2, <1>3, FS_RemoveElement
<1>5. /\ IsFiniteSet(DOMAIN left) /\ Cardinality(DOMAIN left) <= Cardinality(DOMAIN tk \ {t})
      /\ Cardinality(TicketsOfIp(left, ip)) <= Cardinality(TicketsOfIp(tk, ip) \ {t})
  BY <1>1, <1>3, <1>4, FS_Subset
<1>6. Cardinality(DOMAIN left) \in Nat /\ Cardinality(TicketsOfIp(left, ip)) \in Nat
  BY <1>5, OfIpCounts
<1>7. Cardinality(DOMAIN left) < ticketLimit /\ Cardinality(TicketsOfIp(left, ip)) < ticketsPerIp
  BY <1>2, <1>4, <1>5, <1>6, LimitsAssumption DEF WithinLimits
<1>. QED
  BY <1>7 DEF left, TicketAllowed

\* What a step may do to the tickets: some are deleted, and at most one is
\* handed out, to a guest who has no other then.
Deletes(gone) ==
  /\ tickets' = Drop(tickets, gone) /\ newest' = NewestWithout(newest, gone)
  /\ UNCHANGED <<cookies, spent>>

LEMMA DeletionKeeps ==
  ASSUME GuestInv, NEW gone, Deletes(gone)
  PROVE  /\ GuestInv'
         /\ \A t \in DOMAIN tickets \ gone : t \in DOMAIN tickets'
<1>1. Paired(tickets', newest', cookies')
  BY DropKeepsPairs DEF GuestInv, Deletes
<1>2. WithinLimits(tickets')
  BY DropKeepsLimits DEF GuestInv, Deletes
<1>3. DOMAIN tickets' = DOMAIN tickets \ gone
  BY DroppedIs DEF Deletes
<1>4. IdsInOrder'
  BY <1>3 DEF GuestInv, IdsInOrder, Deletes
<1>. QED
  BY <1>1, <1>2, <1>3, <1>4 DEF GuestInv, Paired, WithinLimits, TicketsOfIp

LEMMA IssueKeeps ==
  ASSUME GuestInv, NEW g \in Guests, NEW ip \in Ips, RequestTicket(g, ip)
  PROVE  /\ GuestInv'
         /\ \A t \in DOMAIN tickets \ ExpiredTickets(tickets, guestClock) :
              \/ t \in DOMAIN tickets'
              \/ \E u \in DOMAIN tickets' \ DOMAIN tickets : tickets'[u].guest = tickets[t].guest
<1> DEFINE id == Cardinality(spent) + 1
           expired == ExpiredTickets(tickets, guestClock)
           gone == expired \cup Previous(NewestWithout(newest, expired), g)
<1>1. issueWsTicket(g, ip, id) /\ g \in DOMAIN cookies /\ cookies[g].ip = ip /\ cookies' = cookies
  BY DEF RequestTicket, Authenticated
<1>2. \/ Deletes(expired)
      \/ Deletes(gone) /\ ~TicketAllowed(Drop(tickets, gone), ip)
      \/ /\ TicketAllowed(Drop(tickets, gone), ip)
         /\ tickets' = Put(Drop(tickets, gone), id, NewTicket(g, ip))
         /\ newest' = Put(NewestWithout(newest, gone), g, id)
         /\ spent' = spent \cup {id}
  BY <1>1 DEF issueWsTicket, Deletes
<1> DEFINE known == NewestWithout(newest, expired)
<1>3. \A h \in DOMAIN known : h \in DOMAIN newest /\ known[h] = newest[h] /\ newest[h] \notin expired
  <2> DEFINE out == {h \in DOMAIN newest : newest[h] \in expired}
  <2>1. known = Drop(newest, out)
    BY DEF NewestWithout
  <2>2. DOMAIN known = DOMAIN newest \ out /\ \A h \in DOMAIN newest \ out : known[h] = newest[h]
    BY <2>1 DEF Drop, Restrict
  <2>. QED
    BY <2>2
<1>4. ASSUME NEW t \in DOMAIN tickets \ expired
      PROVE  t \in gone => tickets[t].guest = g /\ tickets[t].ip = ip
  <2>. HIDE DEF known, expired
  <2>1. t \in gone => g \in DOMAIN known /\ t = known[g]
    BY DEF Previous, known
  <2>. QED
    BY <1>1, <1>3, <2>1 DEF GuestInv, Paired
<1>5. CASE Deletes(expired)
  BY <1>5, DeletionKeeps
<1>6. CASE Deletes(gone) /\ ~TicketAllowed(Drop(tickets, gone), ip)
  <2>. HIDE DEF gone, expired
  <2>1. \A t \in DOMAIN tickets \ expired : t \notin gone
    BY <1>4, <1>6, RoomForAnother DEF GuestInv
  <2>. QED
    BY <1>6, <2>1, DeletionKeeps DEF expired
<1>7. CASE /\ TicketAllowed(Drop(tickets, gone), ip)
           /\ tickets' = Put(Drop(tickets, gone), id, NewTicket(g, ip))
           /\ newest' = Put(NewestWithout(newest, gone), g, id)
           /\ spent' = spent \cup {id}
  <2>1. Paired(Drop(tickets, gone), NewestWithout(newest, gone), cookies) /\ WithinLimits(Drop(tickets, gone))
    BY DropKeepsPairs, DropKeepsLimits DEF GuestInv
  <2>2. Cardinality(spent) \in Nat /\ id \notin spent
    BY FS_CardinalityType DEF GuestInv, IdsInOrder
  <2>3. DOMAIN Drop(tickets, gone) = DOMAIN tickets \ gone /\ id \notin DOMAIN tickets
    BY <2>2, DroppedIs DEF GuestInv, IdsInOrder
  <2>4. g \notin DOMAIN NewestWithout(newest, gone)
    <3>. HIDE DEF gone
    <3> DEFINE out == {h \in DOMAIN newest : newest[h] \in gone}
    <3>1. DOMAIN NewestWithout(newest, gone) = DOMAIN newest \ out
      BY DroppedIs DEF NewestWithout
    <3>2. g \in DOMAIN newest => newest[g] \in gone
      <4>1. CASE g \in DOMAIN newest /\ newest[g] \in expired
        BY <4>1 DEF gone
      <4>2. CASE g \in DOMAIN newest /\ newest[g] \notin expired
        <5> DEFINE late == {h \in DOMAIN newest : newest[h] \in expired}
        <5>1. g \in DOMAIN newest \ late
          BY <4>2
        <5>2. DOMAIN known = DOMAIN newest \ late
          BY DroppedIs DEF NewestWithout
        <5>3. g \in DOMAIN known /\ known[g] = newest[g]
          BY <1>3, <5>1, <5>2
        <5>. QED
          BY <5>3 DEF gone, Previous
      <4>. QED
        BY <4>1, <4>2
    <3>. QED
      BY <3>1, <3>2
  <2>5. NewTicket(g, ip).guest = g /\ NewTicket(g, ip).ip = ip
    BY DEF NewTicket
  <2>. HIDE DEF gone, expired, known, id
  <2>6. Paired(tickets', newest', cookies) /\ WithinLimits(tickets')
    BY <1>1, <1>7, <2>1, <2>3, <2>4, <2>5, PutKeeps
  <2>7. /\ DOMAIN tickets' = (DOMAIN tickets \ gone) \cup {id}
        /\ tickets'[id] = NewTicket(g, ip)
    BY <1>7, <2>3 DEF Put
  <2>8. IdsInOrder'
    <3>1. /\ IsFiniteSet(spent') /\ Cardinality(spent') = Cardinality(spent) + 1
      BY <1>7, <2>2, FS_AddElement DEF GuestInv, IdsInOrder
    <3>2. spent' = 1..Cardinality(spent')
      BY <1>7, <2>2, <3>1 DEF GuestInv, IdsInOrder, id
    <3>3. DOMAIN tickets' \subseteq spent'
      BY <1>7, <2>7 DEF GuestInv, IdsInOrder
    <3>. QED
      BY <3>1, <3>2, <3>3 DEF IdsInOrder
  <2>9. GuestInv'
    BY <1>1, <2>6, <2>8 DEF GuestInv, Paired, WithinLimits, TicketsOfIp
  <2>10. ASSUME NEW t \in DOMAIN tickets \ expired
         PROVE  \/ t \in DOMAIN tickets'
                \/ \E u \in DOMAIN tickets' \ DOMAIN tickets : tickets'[u].guest = tickets[t].guest
    BY <1>4, <2>3, <2>5, <2>7
  <2>. QED
    BY <2>9, <2>10 DEF expired
<1>. QED
  BY <1>2, <1>5, <1>6, <1>7

LEMMA SessionKeepsTickets ==
  ASSUME GuestInv, NEW g \in Guests, NEW ip \in Ips, createSession(g, ip)
  PROVE  GuestInv'
<1>1. tickets' = tickets /\ newest' = newest /\ spent' = spent /\ g \notin DOMAIN cookies
  BY DEF createSession
<1>2. DOMAIN cookies \subseteq DOMAIN cookies' /\ \A h \in DOMAIN cookies : cookies'[h] = cookies[h]
  <2>1. cookies' = cookies \/ \E v : cookies' = Put(cookies, g, v)
    BY DEF createSession
  <2>. QED
    BY <1>1, <2>1 DEF Put
<1>3. Paired(tickets', newest', cookies')
  BY <1>1, <1>2 DEF GuestInv, Paired
<1>. QED
  BY <1>1, <1>3 DEF GuestInv, Paired, WithinLimits, IdsInOrder, TicketsOfIp

\* How a ticket that has not expired may end.
EndsForAReason ==
  \A t \in DOMAIN tickets \ ExpiredTickets(tickets, guestClock) :
    t \in DOMAIN tickets'
      \/ t \in consumed'
      \/ \E u \in DOMAIN tickets' \ DOMAIN tickets : tickets'[u].guest = tickets[t].guest

LEMMA GuestStep == GuestInv /\ [GuestNext]_guestVars => GuestInv' /\ EndsForAReason
<1> SUFFICES ASSUME GuestInv, [GuestNext]_guestVars PROVE GuestInv' /\ EndsForAReason
  OBVIOUS
<1>1. ASSUME NEW g \in Guests, NEW ip \in Ips, createSession(g, ip) PROVE GuestInv' /\ EndsForAReason
  BY <1>1, SessionKeepsTickets DEF EndsForAReason, createSession
<1>2. ASSUME NEW g \in Guests, NEW ip \in Ips, RequestTicket(g, ip) PROVE GuestInv' /\ EndsForAReason
  BY <1>2, IssueKeeps DEF EndsForAReason
<1>3. ASSUME NEW t \in 1..MaxTickets, NEW ip \in Ips, Handshake(t, ip) PROVE GuestInv' /\ EndsForAReason
  <2>1. Deletes({t}) /\ t \in consumed'
    BY <1>3 DEF Handshake, Deletes
  <2>2. GuestInv' /\ \A u \in DOMAIN tickets \ {t} : u \in DOMAIN tickets'
    BY <2>1, DeletionKeeps
  <2>. QED
    BY <2>1, <2>2 DEF EndsForAReason
<1>4. ASSUME NEW t \in 1..MaxTickets, TicketTimer(t) PROVE GuestInv' /\ EndsForAReason
  <2>1. Deletes({t}) /\ t \in ExpiredTickets(tickets, guestClock)
    BY <1>4 DEF TicketTimer, Deletes
  <2>2. GuestInv' /\ \A u \in DOMAIN tickets \ {t} : u \in DOMAIN tickets'
    BY <2>1, DeletionKeeps
  <2>. QED
    BY <2>1, <2>2 DEF EndsForAReason
<1>5. CASE UNCHANGED <<cookies, tickets, newest, spent>>
  BY <1>5 DEF GuestInv, Paired, WithinLimits, IdsInOrder, TicketsOfIp, EndsForAReason
<1>6. ASSUME NEW g \in Guests, NEW t \in 1..MaxTickets, SocketEnds(g, t)
      PROVE  UNCHANGED <<cookies, tickets, newest, spent>>
  BY <1>6 DEF SocketEnds
<1>7. WindowTimers \/ ElapseGuest \/ UNCHANGED guestVars => UNCHANGED <<cookies, tickets, newest, spent>>
  BY DEF WindowTimers, ElapseGuest, guestVars
<1>. QED
  BY <1>1, <1>2, <1>3, <1>4, <1>5, <1>6, <1>7 DEF GuestNext

\* The maps of tickets agree and the limits hold (guestAccess.ts:191-231,
\* 305-315, 366-373).
THEOREM GuestInvariance == GuestSpec => []GuestInv
<1>1. GuestInit => GuestInv
  <2> SUFFICES ASSUME GuestInit PROVE GuestInv
    OBVIOUS
  <2>1. DOMAIN tickets = {} /\ DOMAIN newest = {} /\ spent = {}
    BY NothingIs DEF GuestInit
  <2>2. Cardinality({}) = 0 /\ IsFiniteSet({})
    BY FS_EmptySet
  <2>3. Paired(tickets, newest, cookies)
    BY <2>1 DEF Paired
  <2>4. WithinLimits(tickets)
    <3>1. \A ip \in Ips : TicketsOfIp(tickets, ip) = {}
      BY <2>1 DEF TicketsOfIp
    <3>2. IsFiniteSet(DOMAIN tickets) /\ Cardinality(DOMAIN tickets) = 0
      BY <2>1, <2>2
    <3>3. \A ip \in Ips : Cardinality(TicketsOfIp(tickets, ip)) = 0
      BY <2>2, <3>1
    <3>4. 0 <= ticketLimit /\ 0 <= ticketsPerIp
      BY LimitsAssumption
    <3>. QED
      BY <3>2, <3>3, <3>4 DEF WithinLimits
  <2>5. IdsInOrder
    BY <2>1, <2>2 DEF IdsInOrder
  <2>. QED
    BY <2>3, <2>4, <2>5 DEF GuestInv
<1>2. GuestInv /\ [GuestNext]_guestVars => GuestInv'
  BY GuestStep
<1>. QED
  BY <1>1, <1>2, PTL DEF GuestSpec

\* The two maps of tickets agree, a ticket is of the address its guest's cookie
\* is bound to, and no limit is exceeded (guestAccess.ts:191-231).
THEOREM TicketsAgreeAlways == GuestSpec => []TicketsAgree
<1>1. GuestInv => TicketsAgree
  BY DEF GuestInv, Paired, WithinLimits, TicketsAgree
<1>. QED
  BY <1>1, GuestInvariance, PTL

\* No guest loses a ticket but by using it, by its time, or for a newer one
\* (guestAccess.ts:191-231, 305-315, 366-373).
THEOREM TicketsEndForAReasonAlways == GuestSpec => TicketsEndForAReason
<1>1. GuestInv /\ [GuestNext]_guestVars => [EndsForAReason]_guestVars
  BY GuestStep
<1>2. [EndsForAReason]_guestVars <=>
        [\A t \in DOMAIN tickets \ ExpiredTickets(tickets, guestClock) :
           t \in DOMAIN tickets'
             \/ t \in consumed'
             \/ \E u \in DOMAIN tickets' \ DOMAIN tickets : tickets'[u].guest = tickets[t].guest]_guestVars
  BY DEF EndsForAReason
<1>. QED
  BY <1>1, <1>2, GuestInvariance, PTL DEF GuestSpec, TicketsEndForAReason

-----------------------------------------------------------------------------
(* A match against the AI (PongMatch), on any court the assumption allows. *)

LEMMA CourtIs ==
  /\ GAME_WIDTH \in Nat /\ GAME_HEIGHT \in Nat /\ PADDLE_HEIGHT \in Nat /\ PADDLE_REACH \in Nat
  /\ BALL_RADIUS \in Nat /\ ARENA_PADDING \in Nat /\ deadZone \in Nat
  /\ MaxAcross \in Nat /\ MaxSlope \in Nat /\ PADDLE_SPEED_PER_TICK \in Nat
  /\ WINNING_SCORE \in Nat /\ MAX_MATCH_TICKS \in Nat /\ reactionTicks \in Nat
  /\ WINNING_SCORE > 0 /\ MAX_MATCH_TICKS > 0 /\ reactionTicks > 0
  /\ MaxAcross >= 1 /\ MaxAcross <= PADDLE_REACH /\ 2 * PADDLE_REACH + MaxAcross < GAME_WIDTH
  /\ MaxSlope >= 1 /\ MaxSlope <= GAME_HEIGHT - 2 * BALL_RADIUS
  /\ PADDLE_SPEED_PER_TICK <= 2 * deadZone
  /\ PADDLE_HEIGHT + 2 * ARENA_PADDING <= GAME_HEIGHT
BY CourtAssumption DEF CourtAssumption

LEMMA MiddleIs ==
  /\ MidX \in 0..GAME_WIDTH
  /\ MidY \in BALL_RADIUS..(GAME_HEIGHT - BALL_RADIUS)
  /\ MidY - PADDLE_HEIGHT \div 2 \in LowestY..HighestY
  /\ PADDLE_HEIGHT \div 2 \in Int
  /\ LowestY \in Int /\ HighestY \in Int /\ LowestY <= HighestY
BY CourtIs DEF MidX, MidY, LowestY, HighestY

\* The states of a match, wherever the ball is.
MatchState ==
  [tick : Nat, phase : {"playing", "finished"}, score : [PaddleSides -> Nat],
   y : [PaddleSides -> LowestY..HighestY], direction : [PaddleSides -> Directions],
   ballX : Int, ballY : BALL_RADIUS..(GAME_HEIGHT - BALL_RADIUS),
   across : Speeds(MaxAcross) \ {0}, slope : Speeds(MaxSlope),
   winnerSide : PaddleSides \cup {"none"}]

\* What a hit, a serve and the acceleration have in common.
OnlyBall(s, z) ==
  /\ z \in MatchState
  /\ z.tick = s.tick /\ z.phase = s.phase /\ z.y = s.y /\ z.direction = s.direction

LEMMA PaddlesMoved ==
  ASSUME NEW s \in MatchState, NEW inputs \in [PaddleSides -> Directions]
  PROVE  LET m == movePaddles([s EXCEPT !.tick = @ + 1], inputs)
         IN /\ m \in MatchState
            /\ m.tick = s.tick + 1 /\ m.phase = s.phase /\ m.score = s.score /\ m.direction = inputs
            /\ m.ballX = s.ballX /\ m.ballY = s.ballY /\ m.across = s.across /\ m.slope = s.slope
            /\ \A side \in PaddleSides :
                 /\ inputs[side] = 0 => m.y[side] = s.y[side]
                 /\ inputs[side] = 1 => m.y[side] <= s.y[side] + PADDLE_SPEED_PER_TICK
                 /\ inputs[side] = -1 => m.y[side] >= s.y[side] - PADDLE_SPEED_PER_TICK
<1> DEFINE m == movePaddles([s EXCEPT !.tick = @ + 1], inputs)
           y == [side \in PaddleSides |->
                   Clamped(s.y[side] + inputs[side] * PADDLE_SPEED_PER_TICK, LowestY, HighestY)]
<1>1. ASSUME NEW side \in PaddleSides
      PROVE  /\ y[side] \in LowestY..HighestY
             /\ inputs[side] = 0 => y[side] = s.y[side]
             /\ inputs[side] = 1 => y[side] <= s.y[side] + PADDLE_SPEED_PER_TICK
             /\ inputs[side] = -1 => y[side] >= s.y[side] - PADDLE_SPEED_PER_TICK
  <2>1. s.y[side] \in LowestY..HighestY /\ inputs[side] \in {-1, 0, 1}
    BY DEF MatchState, Directions
  <2>2. inputs[side] * PADDLE_SPEED_PER_TICK =
          IF inputs[side] = 1 THEN PADDLE_SPEED_PER_TICK
          ELSE IF inputs[side] = 0 THEN 0 ELSE -PADDLE_SPEED_PER_TICK
    BY <2>1, CourtIs
  <2>3. y[side] = Clamped(s.y[side] + inputs[side] * PADDLE_SPEED_PER_TICK, LowestY, HighestY)
    OBVIOUS
  <2>. QED
    BY <2>1, <2>2, <2>3, CourtIs, MiddleIs DEF Clamped
<1>2. y \in [PaddleSides -> LowestY..HighestY]
  BY <1>1
<1> DEFINE s1 == [s EXCEPT !.tick = s.tick + 1]
<1>3. m = [s1 EXCEPT !.direction = inputs, !.y = y]
  BY DEF movePaddles, MatchState
<1>3a. /\ s1 \in MatchState /\ s1.tick = s.tick + 1 /\ s1.phase = s.phase /\ s1.score = s.score
       /\ s1.ballX = s.ballX /\ s1.ballY = s.ballY /\ s1.across = s.across /\ s1.slope = s.slope
  BY DEF MatchState
<1>. HIDE DEF m, y, s1
<1>4. /\ m \in MatchState /\ m.y = y
      /\ m.tick = s.tick + 1 /\ m.phase = s.phase /\ m.score = s.score /\ m.direction = inputs
      /\ m.ballX = s.ballX /\ m.ballY = s.ballY /\ m.across = s.across /\ m.slope = s.slope
  BY <1>2, <1>3, <1>3a DEF MatchState
<1>5. /\ m \in MatchState
      /\ m.tick = s.tick + 1 /\ m.phase = s.phase /\ m.score = s.score /\ m.direction = inputs
      /\ m.ballX = s.ballX /\ m.ballY = s.ballY /\ m.across = s.across /\ m.slope = s.slope
      /\ \A side \in PaddleSides :
           /\ inputs[side] = 0 => m.y[side] = s.y[side]
           /\ inputs[side] = 1 => m.y[side] <= s.y[side] + PADDLE_SPEED_PER_TICK
           /\ inputs[side] = -1 => m.y[side] >= s.y[side] - PADDLE_SPEED_PER_TICK
  BY <1>1, <1>4
<1>. QED
  BY <1>5 DEF m

LEMMA BallMoved ==
  ASSUME NEW s \in MatchState
  PROVE  LET m == moveBall(s)
         IN /\ OnlyBall(s, m) /\ m.score = s.score
            /\ m.ballX = s.ballX + s.across /\ m.across = s.across
<1>1. /\ s.ballY \in BALL_RADIUS..(GAME_HEIGHT - BALL_RADIUS) /\ s.slope \in Int
      /\ s.slope <= MaxSlope /\ -MaxSlope <= s.slope /\ s.ballX \in Int /\ s.across \in Int
  BY CourtIs DEF MatchState, Speeds
<1> DEFINE y == s.ballY + s.slope
           low == BALL_RADIUS
           high == GAME_HEIGHT - BALL_RADIUS
           folded == IF y < low THEN 2 * low - y ELSE IF y > high THEN 2 * high - y ELSE y
           turned == IF y < low THEN Size(s.slope) ELSE IF y > high THEN -Size(s.slope) ELSE s.slope
<1>2. folded \in low..high
  BY <1>1, CourtIs
<1>3. turned \in Speeds(MaxSlope)
  BY <1>1, CourtIs DEF Speeds, Size
<1>4. moveBall(s) = [s EXCEPT !.ballX = s.ballX + s.across, !.ballY = folded, !.slope = turned]
  BY DEF moveBall, MatchState
<1>. HIDE DEF folded, turned
<1>5. s.ballX + s.across \in Int
  BY <1>1
<1> DEFINE m == moveBall(s)
<1>6. OnlyBall(s, m) /\ m.score = s.score /\ m.ballX = s.ballX + s.across /\ m.across = s.across
  BY <1>2, <1>3, <1>4, <1>5 DEF OnlyBall, MatchState
<1>. QED
  BY <1>6

LEMMA SpeedIs ==
  ASSUME NEW v \in Speeds(MaxAcross) \ {0}
  PROVE  /\ v \in Int /\ SignOf(v) \in {-1, 1} /\ Size(v) \in 1..MaxAcross
         /\ \A a \in Size(v)..MaxAcross :
              /\ SignOf(v) * a \in Speeds(MaxAcross) \ {0} /\ SignOf(SignOf(v) * a) = SignOf(v)
              /\ -SignOf(v) * a \in Speeds(MaxAcross) \ {0} /\ SignOf(-SignOf(v) * a) = -SignOf(v)
<1>1. v \in Int /\ v # 0 /\ -MaxAcross <= v /\ v <= MaxAcross /\ MaxAcross \in Nat
  BY CourtIs DEF Speeds
<1>2. SignOf(v) \in {-1, 1} /\ Size(v) \in 1..MaxAcross
  BY <1>1 DEF SignOf, Size
<1>3. ASSUME NEW a \in Size(v)..MaxAcross
      PROVE  /\ SignOf(v) * a \in Speeds(MaxAcross) \ {0} /\ SignOf(SignOf(v) * a) = SignOf(v)
             /\ -SignOf(v) * a \in Speeds(MaxAcross) \ {0} /\ SignOf(-SignOf(v) * a) = -SignOf(v)
  <2>1. a \in Int /\ 1 <= a /\ a <= MaxAcross
    BY <1>1, <1>2
  <2>2. SignOf(v) * a = IF SignOf(v) = 1 THEN a ELSE -a
    BY <1>2, <2>1
  <2>3. -SignOf(v) * a = IF SignOf(v) = 1 THEN -a ELSE a
    BY <1>2, <2>1
  <2>. QED
    BY <1>1, <1>2, <2>1, <2>2, <2>3 DEF Speeds, SignOf
<1>. QED
  BY <1>1, <1>2, <1>3

LEMMA SlopeIs ==
  ASSUME NEW n \in {-1, 0, 1}, NEW b \in 0..MaxSlope
  PROVE  n * b \in Speeds(MaxSlope)
<1>1. n * b = IF n = 1 THEN b ELSE IF n = 0 THEN 0 ELSE -b
  BY CourtIs
<1>. QED
  BY <1>1, CourtIs DEF Speeds

\* A paddle that the ball comes to turns it back.
LEMMA Hit ==
  ASSUME NEW s \in MatchState, NEW side \in PaddleSides, NEW z \in collidePaddle(s, side)
  PROVE  /\ OnlyBall(s, z) /\ z.score = s.score /\ z.ballX = s.ballX
         /\ ~Collides(s, side) => z = s
         /\ Collides(s, side) => SignOf(z.across) = -Towards(side)
<1>1. CASE ~Collides(s, side)
  <2>1. z = s
    BY <1>1 DEF collidePaddle
  <2>. QED
    BY <1>1, <2>1 DEF OnlyBall
<1>2. CASE Collides(s, side)
  <2>9. PICK a \in Size(s.across)..MaxAcross, b \in 1..MaxSlope : z = TurnedBack(s, side, a, b)
    BY <1>2 DEF collidePaddle
  <2>1. z = [s EXCEPT !.across = -SignOf(s.across) * a, !.slope = Aim(s, side) * b]
    BY <2>9 DEF TurnedBack, MatchState
  <2>2. s.across \in Speeds(MaxAcross) \ {0}
    BY DEF MatchState
  <2>3. -SignOf(s.across) * a \in Speeds(MaxAcross) \ {0} /\ SignOf(-SignOf(s.across) * a) = -SignOf(s.across)
    BY <2>2, SpeedIs
  <2>4. Aim(s, side) * b \in Speeds(MaxSlope)
    <3>1. Aim(s, side) \in {-1, 0, 1}
      BY DEF Aim, SignOf
    <3>2. b \in 0..MaxSlope
      BY CourtIs
    <3>. QED
      BY <3>1, <3>2, SlopeIs
  <2> DEFINE v == -SignOf(s.across) * a
             w == Aim(s, side) * b
  <2>5. SignOf(s.across) = Towards(side)
    BY <1>2 DEF Collides
  <2>6. z = [s EXCEPT !.across = v, !.slope = w]
    BY <2>1
  <2>7. v \in Speeds(MaxAcross) \ {0} /\ w \in Speeds(MaxSlope) /\ SignOf(v) = -Towards(side)
    BY <2>3, <2>4, <2>5
  <2>. HIDE DEF v, w
  <2>8. OnlyBall(s, z) /\ z.score = s.score /\ z.ballX = s.ballX /\ z.across = v
    BY <2>6, <2>7 DEF OnlyBall, MatchState
  <2>. QED
    BY <1>2, <2>7, <2>8
<1>. QED
  BY <1>1, <1>2

LEMMA Served ==
  ASSUME NEW s \in MatchState, NEW z \in serve(s)
  PROVE  /\ OnlyBall(s, z)
         /\ Out(s) = "none" => z = s
         /\ Out(s) # "none" =>
              /\ Out(s) \in PaddleSides /\ z.ballX = MidX
              /\ z.score = [s.score EXCEPT ![opponent(Out(s))] = @ + 1]
<1>1. CASE Out(s) = "none"
  <2>1. z = s
    BY <1>1 DEF serve
  <2>. QED
    BY <1>1, <2>1 DEF OnlyBall
<1>2. CASE Out(s) # "none"
  <2>1. Out(s) \in PaddleSides /\ opponent(Out(s)) \in PaddleSides
    BY <1>2 DEF Out, PaddleSides, opponent
  <2> DEFINE up == IF s.tick % 2 = 0 THEN 1 ELSE -1
  <2>2. PICK a \in 1..MaxAcross :
          z = [s EXCEPT !.score[opponent(Out(s))] = @ + 1, !.ballX = MidX, !.ballY = MidY,
                        !.across = Towards(Out(s)) * a, !.slope = up]
    BY <1>2 DEF serve
  <2>3. up \in Speeds(MaxSlope)
    BY CourtIs DEF Speeds
  <2> DEFINE v == Towards(Out(s)) * a
             points == [s.score EXCEPT ![opponent(Out(s))] = @ + 1]
  <2>4. v \in Speeds(MaxAcross) \ {0}
    <3>1. Towards(Out(s)) \in {-1, 1}
      BY DEF Towards
    <3>2. v = IF Towards(Out(s)) = 1 THEN a ELSE -a
      BY <3>1, CourtIs
    <3>. QED
      BY <3>1, <3>2, CourtIs DEF Speeds
  <2>5. points \in [PaddleSides -> Nat]
    BY <2>1 DEF MatchState
  <2>. HIDE DEF up
  <2>6. z = [s EXCEPT !.score = points, !.ballX = MidX, !.ballY = MidY, !.across = v, !.slope = up]
    BY <2>2 DEF MatchState
  <2>. HIDE DEF v, points
  <2> DEFINE placed == [s EXCEPT !.score = points, !.ballX = MidX, !.ballY = MidY]
  <2>8. placed \in MatchState
    <3>1. MidX \in Int
      BY MiddleIs, CourtIs
    <3>. QED
      BY <2>5, <3>1, MiddleIs DEF MatchState
  <2>9. /\ placed.tick = s.tick /\ placed.phase = s.phase /\ placed.y = s.y /\ placed.direction = s.direction
        /\ placed.ballX = MidX /\ placed.score = points
    BY DEF MatchState
  <2>10. z = [placed EXCEPT !.across = v, !.slope = up]
    BY <2>6
  <2>. HIDE DEF placed
  <2>7. OnlyBall(s, z) /\ z.ballX = MidX /\ z.score = points
    BY <2>3, <2>4, <2>8, <2>9, <2>10 DEF OnlyBall, MatchState
  <2>. QED
    BY <1>2, <2>1, <2>7 DEF points
<1>. QED
  BY <1>1, <1>2

LEMMA Accelerated ==
  ASSUME NEW s \in MatchState, NEW z \in accelerateBall(s)
  PROVE  /\ OnlyBall(s, z) /\ z.score = s.score /\ z.ballX = s.ballX
         /\ SignOf(z.across) = SignOf(s.across)
<1>8. PICK a \in Size(s.across)..MaxAcross, b \in Size(s.slope)..MaxSlope : z = Faster(s, a, b)
  BY DEF accelerateBall
<1>1. z = [s EXCEPT !.across = SignOf(s.across) * a, !.slope = SignOf(s.slope) * b]
  BY <1>8 DEF Faster, MatchState
<1>2. s.across \in Speeds(MaxAcross) \ {0} /\ s.slope \in Speeds(MaxSlope)
  BY DEF MatchState
<1> DEFINE v == SignOf(s.across) * a
           w == SignOf(s.slope) * b
<1>3. v \in Speeds(MaxAcross) \ {0} /\ SignOf(v) = SignOf(s.across)
  BY <1>2, SpeedIs
<1>4. w \in Speeds(MaxSlope)
  <2>1. SignOf(s.slope) \in {-1, 0, 1}
    BY DEF SignOf
  <2>2. b \in 0..MaxSlope
    BY <1>2, CourtIs DEF Speeds, Size
  <2>. QED
    BY <2>1, <2>2, SlopeIs
<1>5. z = [s EXCEPT !.across = v, !.slope = w]
  BY <1>1
<1>. HIDE DEF v, w
<1>6. OnlyBall(s, z) /\ z.score = s.score /\ z.ballX = s.ballX /\ z.across = v
  BY <1>3, <1>4, <1>5 DEF OnlyBall, MatchState
<1>. QED
  BY <1>3, <1>6

Over(s) == s.tick >= MAX_MATCH_TICKS \/ \E side \in PaddleSides : s.score[side] >= WINNING_SCORE

LEMMA Ended ==
  ASSUME NEW s \in MatchState
  PROVE  LET z == endMatch(s)
         IN /\ z \in MatchState
            /\ z.tick = s.tick /\ z.score = s.score /\ z.y = s.y
            /\ z.ballX = s.ballX /\ z.across = s.across
            /\ Over(s) => z.phase = "finished" /\ \A side \in PaddleSides : z.direction[side] = 0
            /\ ~Over(s) => z = s
<1>1. CASE ~Over(s)
  BY <1>1 DEF Over, endMatch
<1>2. CASE Over(s)
  <2> DEFINE winner == IF s.score["left"] >= s.score["right"] THEN "left" ELSE "right"
             still == [side \in PaddleSides |-> 0]
  <2>1. endMatch(s) = [s EXCEPT !.phase = "finished", !.winnerSide = winner, !.direction = still]
    BY <1>2 DEF Over, endMatch
  <2>2. winner \in PaddleSides /\ still \in [PaddleSides -> Directions]
    BY DEF PaddleSides, Directions
  <2>. HIDE DEF winner
  <2>3. \A side \in PaddleSides : still[side] = 0
    OBVIOUS
  <2>. HIDE DEF still
  <2> DEFINE z == endMatch(s)
  <2>4. /\ z \in MatchState /\ z.phase = "finished" /\ z.direction = still
        /\ z.tick = s.tick /\ z.score = s.score /\ z.y = s.y
        /\ z.ballX = s.ballX /\ z.across = s.across
    BY <2>1, <2>2 DEF MatchState
  <2>. QED
    BY <1>2, <2>3, <2>4
<1>. QED
  BY <1>1, <1>2

\* One tick: where the ball flies, who hits it, who scores, and whether the match
\* is over.
LEMMA StepIs ==
  ASSUME NEW s \in MatchState, NEW inputs \in [PaddleSides -> Directions], NEW z \in step(s, inputs),
         s.phase = "playing", s.ballX \in 0..GAME_WIDTH
  PROVE  LET m == Moved(s, inputs)
         IN /\ z \in MatchState /\ z.tick = s.tick + 1 /\ z.ballX \in 0..GAME_WIDTH
            /\ z.phase = "finished" <=> Over(z)
            /\ z.direction = inputs \/ \A side \in PaddleSides : z.direction[side] = 0
            /\ \A side \in PaddleSides :
                 /\ inputs[side] = 0 => z.y[side] = s.y[side]
                 /\ inputs[side] = 1 => z.y[side] <= s.y[side] + PADDLE_SPEED_PER_TICK
                 /\ inputs[side] = -1 => z.y[side] >= s.y[side] - PADDLE_SPEED_PER_TICK
            /\ m.ballX = s.ballX + s.across /\ m.across = s.across
            /\ Out(m) = "none" =>
                 /\ z.score = s.score
                 /\ \A side \in PaddleSides : Collides(m, side) => SignOf(z.across) = -Towards(side)
                 /\ (\A side \in PaddleSides : ~Collides(m, side)) => SignOf(z.across) = SignOf(s.across)
            /\ Out(m) # "none" =>
                 Out(m) \in PaddleSides /\ z.score = [s.score EXCEPT ![opponent(Out(m))] = @ + 1]
<1> DEFINE m == Moved(s, inputs)
           n == movePaddles([s EXCEPT !.tick = @ + 1], inputs)
           struck == UNION {collidePaddle(w, "right") : w \in collidePaddle(m, "left")}
           played == UNION {serve(x) : x \in struck}
           faster == UNION {accelerateBall(y) : y \in played}
<1>1. /\ m \in MatchState /\ m.tick = s.tick + 1 /\ m.phase = "playing" /\ m.direction = inputs
      /\ m.score = s.score /\ m.ballX = s.ballX + s.across /\ m.across = s.across
      /\ \A side \in PaddleSides :
           /\ inputs[side] = 0 => m.y[side] = s.y[side]
           /\ inputs[side] = 1 => m.y[side] <= s.y[side] + PADDLE_SPEED_PER_TICK
           /\ inputs[side] = -1 => m.y[side] >= s.y[side] - PADDLE_SPEED_PER_TICK
  <2>1. /\ n \in MatchState
        /\ n.tick = s.tick + 1 /\ n.phase = s.phase /\ n.score = s.score /\ n.direction = inputs
        /\ n.ballX = s.ballX /\ n.across = s.across
        /\ \A side \in PaddleSides :
             /\ inputs[side] = 0 => n.y[side] = s.y[side]
             /\ inputs[side] = 1 => n.y[side] <= s.y[side] + PADDLE_SPEED_PER_TICK
             /\ inputs[side] = -1 => n.y[side] >= s.y[side] - PADDLE_SPEED_PER_TICK
    BY PaddlesMoved
  <2>2. m = moveBall(n)
    BY DEF Moved
  <2>. HIDE DEF m, n
  <2>3. OnlyBall(n, m) /\ m.score = n.score /\ m.ballX = n.ballX + n.across /\ m.across = n.across
    BY <2>1, <2>2, BallMoved
  <2>. QED
    BY <2>1, <2>3 DEF OnlyBall
<1>2. z \in {endMatch(v) : v \in faster}
  BY DEF step
<1>. HIDE DEF m
<1>3. PICK w \in collidePaddle(m, "left") : \E x \in collidePaddle(w, "right") :
        \E y \in serve(x) : \E v \in accelerateBall(y) : z = endMatch(v)
  <2>1. PICK v \in faster : z = endMatch(v)
    BY <1>2
  <2>. HIDE DEF played
  <2>2. PICK y \in played : v \in accelerateBall(y)
    OBVIOUS
  <2>. USE DEF played
  <2>. HIDE DEF struck
  <2>3. PICK x \in struck : y \in serve(x)
    OBVIOUS
  <2>. USE DEF struck
  <2>4. PICK w \in collidePaddle(m, "left") : x \in collidePaddle(w, "right")
    OBVIOUS
  <2>. QED
    BY <2>1, <2>2, <2>3, <2>4
<1>4. PICK x \in collidePaddle(w, "right") : \E y \in serve(x) : \E v \in accelerateBall(y) : z = endMatch(v)
  BY <1>3
<1>5. PICK y \in serve(x) : \E v \in accelerateBall(y) : z = endMatch(v)
  BY <1>4
<1>6. PICK v \in accelerateBall(y) : z = endMatch(v)
  BY <1>5
<1>. HIDE DEF struck, played, faster
<1>7. /\ OnlyBall(m, w) /\ w.score = m.score /\ w.ballX = m.ballX
      /\ ~Collides(m, "left") => w = m
      /\ Collides(m, "left") => SignOf(w.across) = 1
  BY <1>1, Hit DEF PaddleSides, Towards
<1>8. /\ OnlyBall(w, x) /\ x.score = m.score /\ x.ballX = m.ballX
      /\ ~Collides(w, "right") => x = w
      /\ Collides(w, "right") => SignOf(x.across) = -1
  <2>1. w \in MatchState /\ "right" \in PaddleSides /\ Towards("right") = 1
    BY <1>7 DEF OnlyBall, PaddleSides, Towards
  <2>. QED
    BY <1>7, <2>1, Hit
<1>9. ~(Collides(m, "left") /\ Collides(w, "right")) /\ ~(Collides(m, "left") /\ Collides(m, "right"))
  <2>1. ~(WithinReach(m, "left") /\ WithinReach(m, "right"))
    BY <1>1, CourtIs DEF WithinReach, MatchState
  <2>2. WithinReach(w, "right") <=> WithinReach(m, "right")
    BY <1>7 DEF WithinReach
  <2>. QED
    BY <2>1, <2>2 DEF Collides
<1>10. /\ Collides(m, "left") => SignOf(x.across) = 1
       /\ Collides(m, "right") => SignOf(x.across) = -1
       /\ ~Collides(m, "left") /\ ~Collides(m, "right") => x = m
  BY <1>7, <1>8, <1>9
<1>11. /\ x \in MatchState /\ x.tick = m.tick /\ x.phase = m.phase /\ x.y = m.y /\ x.direction = m.direction
       /\ Out(x) = Out(m)
  BY <1>7, <1>8 DEF OnlyBall, Out
<1>12. /\ OnlyBall(x, y)
       /\ Out(m) = "none" => y = x
       /\ Out(m) # "none" =>
            /\ Out(m) \in PaddleSides /\ y.ballX = MidX
            /\ y.score = [m.score EXCEPT ![opponent(Out(m))] = @ + 1]
  BY <1>8, <1>11, Served
<1>13. y \in MatchState
  BY <1>12 DEF OnlyBall
<1>14. OnlyBall(y, v) /\ v.score = y.score /\ v.ballX = y.ballX /\ SignOf(v.across) = SignOf(y.across)
  BY <1>13, Accelerated
<1>15. /\ v \in MatchState /\ v.tick = s.tick + 1 /\ v.phase = "playing" /\ v.y = m.y /\ v.direction = inputs
  BY <1>1, <1>11, <1>12, <1>14 DEF OnlyBall
<1>16. /\ z \in MatchState
       /\ z.tick = v.tick /\ z.score = v.score /\ z.y = v.y
       /\ z.ballX = v.ballX /\ z.across = v.across
       /\ Over(v) => z.phase = "finished" /\ \A side \in PaddleSides : z.direction[side] = 0
       /\ ~Over(v) => z = v
  BY <1>6, <1>15, Ended
<1>17. z.phase = "finished" <=> Over(z)
  BY <1>15, <1>16 DEF Over
<1>18. z.direction = inputs \/ \A side \in PaddleSides : z.direction[side] = 0
  BY <1>15, <1>16
<1>19. z.ballX \in 0..GAME_WIDTH
  <2>1. CASE Out(m) = "none"
    <3>1. z.ballX = m.ballX /\ m.ballX \in Int
      BY <1>1, <1>8, <1>12, <1>14, <1>16, <2>1 DEF MatchState
    <3>. QED
      BY <2>1, <3>1, CourtIs DEF Out
  <2>2. CASE Out(m) # "none"
    BY <1>12, <1>14, <1>16, <2>2, MiddleIs
  <2>. QED
    BY <2>1, <2>2
<1>20. Out(m) = "none" =>
         /\ z.score = s.score
         /\ \A side \in PaddleSides : Collides(m, side) => SignOf(z.across) = -Towards(side)
         /\ (\A side \in PaddleSides : ~Collides(m, side)) => SignOf(z.across) = SignOf(s.across)
  <2> SUFFICES ASSUME Out(m) = "none"
               PROVE  /\ z.score = s.score
                      /\ \A side \in PaddleSides : Collides(m, side) => SignOf(z.across) = -Towards(side)
                      /\ (\A side \in PaddleSides : ~Collides(m, side)) => SignOf(z.across) = SignOf(s.across)
    OBVIOUS
  <2>1. z.score = s.score /\ SignOf(z.across) = SignOf(x.across)
    BY <1>1, <1>8, <1>12, <1>14, <1>16
  <2>2. -Towards("left") = 1 /\ -Towards("right") = -1
    <3>1. Towards("left") = -1 /\ Towards("right") = 1
      BY DEF Towards
    <3>. QED
      BY <3>1
  <2>3. ASSUME NEW side \in PaddleSides, Collides(m, side) PROVE SignOf(z.across) = -Towards(side)
    <3>1. CASE side = "left"
      BY <1>10, <2>1, <2>2, <2>3, <3>1
    <3>2. CASE side = "right"
      BY <1>10, <2>1, <2>2, <2>3, <3>2
    <3>. QED
      BY <3>1, <3>2 DEF PaddleSides
  <2>4. (\A side \in PaddleSides : ~Collides(m, side)) => SignOf(z.across) = SignOf(s.across)
    BY <1>1, <1>10, <2>1 DEF PaddleSides
  <2>. QED
    BY <2>1, <2>3, <2>4
<1>21. Out(m) # "none" =>
         Out(m) \in PaddleSides /\ z.score = [s.score EXCEPT ![opponent(Out(m))] = @ + 1]
  BY <1>1, <1>12, <1>14, <1>16
<1>22. z.tick = s.tick + 1 /\ z.y = m.y
  BY <1>15, <1>16
<1>. QED
  BY <1>1, <1>16, <1>17, <1>18, <1>19, <1>20, <1>21, <1>22 DEF m

-----------------------------------------------------------------------------
\* A match that is not over has not come to an end, and what the AI does it
\* will not undo before it looks again.
Center == simulation.y["right"] + PADDLE_HEIGHT \div 2

MatchInv ==
  /\ simulation \in MatchState /\ simulation.ballX \in 0..GAME_WIDTH
  /\ matchPhase \in {"playing", "paused", "finished"}
  /\ matchPhase # "finished" => simulation.phase = "playing"
  /\ dy \in Directions
  /\ ai.targetY \in Int /\ ai.nextReactionTick \in Int
  /\ touchedBy \in PaddleSides \cup {"none"} /\ FliesFromHit
  /\ simulation.tick <= MAX_MATCH_TICKS
  /\ \A side \in PaddleSides : simulation.score[side] <= WINNING_SCORE
  /\ simulation.phase = "finished" <=> Over(simulation)
  /\ simulation.direction["right"] = 1 => ai.targetY > Center - deadZone
  /\ simulation.direction["right"] = -1 => ai.targetY < Center + deadZone

LEMMA MatchStarts == MatchInit => MatchInv
<1> SUFFICES ASSUME MatchInit PROVE MatchInv
  OBVIOUS
<1>1. simulation = initialState /\ matchPhase = "playing" /\ dy = 0 /\ touchedBy = "none"
  BY DEF MatchInit
<1>2. ai.targetY = MidY /\ ai.nextReactionTick = 0
  BY DEF MatchInit
<1>3. 1 \in Speeds(MaxAcross) \ {0} /\ 1 \in Speeds(MaxSlope)
  BY CourtIs DEF Speeds
<1>4. simulation \in MatchState
  <2>1. MidX \in Int
    BY MiddleIs, CourtIs
  <2>. QED
    BY <1>1, <1>3, <2>1, MiddleIs DEF initialState, MatchState, PaddleSides, Directions
<1>5. /\ simulation.ballX = MidX /\ simulation.tick = 0 /\ simulation.phase = "playing"
      /\ \A side \in PaddleSides : simulation.score[side] = 0 /\ simulation.direction[side] = 0
  BY <1>1 DEF initialState
<1>6. MidY \in Int
  BY MiddleIs, CourtIs
<1>7. ~Over(simulation)
  BY <1>5, CourtIs DEF Over
<1>8. simulation.direction["right"] = 0
  BY <1>5 DEF PaddleSides
<1>. QED
  BY <1>1, <1>2, <1>4, <1>5, <1>6, <1>7, <1>8, MiddleIs, CourtIs DEF MatchInv, Directions, FliesFromHit

LEMMA Thinks ==
  ASSUME MatchInv, NEW mind \in Reactions
  PROVE  /\ mind.targetY \in Int /\ mind.nextReactionTick \in Int
         /\ mind = ai \/ mind.nextReactionTick # ai.nextReactionTick
         /\ nextDirection(mind) \in Directions
         /\ nextDirection(mind) = 1 => mind.targetY > Center + deadZone
         /\ nextDirection(mind) = -1 => mind.targetY < Center - deadZone
<1>1. /\ mind.targetY \in Int /\ mind.nextReactionTick \in Int
      /\ mind = ai \/ mind.nextReactionTick # ai.nextReactionTick
  <2>1. CASE mind = ai
    BY <2>1 DEF MatchInv
  <2>2. CASE simulation.tick >= ai.nextReactionTick
    <3>1. simulation.tick \in Int /\ ai.nextReactionTick \in Int
      BY DEF MatchInv, MatchState
    <3>2. PICK y \in Targets : mind = [targetY |-> y, nextReactionTick |-> simulation.tick + reactionTicks]
      BY <2>2 DEF Reactions
    <3>3. y \in Int
      BY DEF Targets
    <3>. QED
      BY <2>2, <3>1, <3>2, <3>3, CourtIs
  <2>. QED
    BY <2>1, <2>2 DEF Reactions
<1>2. Center \in Int
  BY MiddleIs DEF Center, MatchInv, MatchState, PaddleSides
<1>. QED
  BY <1>1, <1>2, CourtIs DEF nextDirection, Center, Directions

LEMMA TickKeeps ==
  ASSUME MatchInv, Tick
  PROVE  MatchInv' /\ PointsAreMissed /\ AiIsSteady
<1> DEFINE inputs == [side \in PaddleSides |-> IF side = "left" THEN dy ELSE nextDirection(ai')]
           m == Moved(simulation, inputs)
           hit == {side \in PaddleSides : Collides(m, side)}
<1>1. /\ ai' \in Reactions /\ simulation' \in step(simulation, inputs)
      /\ touchedBy' = IF Out(m) # "none" THEN "none"
                       ELSE IF hit # {} THEN CHOOSE side \in hit : TRUE ELSE touchedBy
      /\ matchPhase' = simulation'.phase /\ dy' = simulation'.direction["left"]
      /\ simulation.phase = "playing"
  BY DEF Tick, MatchInv
<1>2. /\ ai'.targetY \in Int /\ ai'.nextReactionTick \in Int
      /\ ai' = ai \/ ai'.nextReactionTick # ai.nextReactionTick
      /\ nextDirection(ai') \in Directions
      /\ nextDirection(ai') = 1 => ai'.targetY > Center + deadZone
      /\ nextDirection(ai') = -1 => ai'.targetY < Center - deadZone
  BY <1>1, Thinks
<1>3. inputs \in [PaddleSides -> Directions] /\ inputs["right"] = nextDirection(ai')
  BY <1>2 DEF MatchInv, PaddleSides
<1>4. simulation \in MatchState /\ simulation.ballX \in 0..GAME_WIDTH
  BY DEF MatchInv
<1>. HIDE DEF inputs
<1>5. /\ simulation' \in MatchState /\ simulation'.tick = simulation.tick + 1
      /\ simulation'.ballX \in 0..GAME_WIDTH
      /\ simulation'.phase = "finished" <=> Over(simulation')
      /\ simulation'.direction = inputs \/ \A side \in PaddleSides : simulation'.direction[side] = 0
      /\ \A side \in PaddleSides :
           /\ inputs[side] = 0 => simulation'.y[side] = simulation.y[side]
           /\ inputs[side] = 1 => simulation'.y[side] <= simulation.y[side] + PADDLE_SPEED_PER_TICK
           /\ inputs[side] = -1 => simulation'.y[side] >= simulation.y[side] - PADDLE_SPEED_PER_TICK
      /\ m.ballX = simulation.ballX + simulation.across /\ m.across = simulation.across
      /\ Out(m) = "none" =>
           /\ simulation'.score = simulation.score
           /\ \A side \in PaddleSides : Collides(m, side) => SignOf(simulation'.across) = -Towards(side)
           /\ (\A side \in PaddleSides : ~Collides(m, side)) =>
                SignOf(simulation'.across) = SignOf(simulation.across)
      /\ Out(m) # "none" =>
           /\ Out(m) \in PaddleSides
           /\ simulation'.score = [simulation.score EXCEPT ![opponent(Out(m))] = @ + 1]
  BY <1>1, <1>3, <1>4, StepIs
<1>. HIDE DEF m
<1>6. ~Over(simulation)
  BY <1>1 DEF MatchInv
<1>7. simulation'.tick <= MAX_MATCH_TICKS
  BY <1>4, <1>5, <1>6, CourtIs DEF Over, MatchState
<1>8. ASSUME NEW side \in PaddleSides PROVE simulation'.score[side] <= WINNING_SCORE
  <2>1. simulation.score \in [PaddleSides -> Nat] /\ simulation.score[side] < WINNING_SCORE
    BY <1>4, <1>6, CourtIs DEF Over, MatchState
  <2>2. simulation'.score[side] \in {simulation.score[side], simulation.score[side] + 1}
    BY <1>5, <2>1
  <2>. QED
    BY <2>1, <2>2, CourtIs
<1>9. touchedBy' \in PaddleSides \cup {"none"} /\ FliesFromHit'
  <2>1. CASE Out(m) # "none"
    BY <1>1, <2>1 DEF FliesFromHit
  <2>2. CASE Out(m) = "none" /\ hit # {}
    <3>1. touchedBy' \in hit
      BY <1>1, <2>2
    <3>. QED
      BY <1>5, <2>2, <3>1 DEF FliesFromHit
  <2>3. CASE Out(m) = "none" /\ hit = {}
    <3>1. touchedBy' = touchedBy /\ SignOf(simulation'.across) = SignOf(simulation.across)
      BY <1>1, <1>5, <2>3
    <3>. QED
      BY <3>1 DEF FliesFromHit, MatchInv
  <2>. QED
    BY <2>1, <2>2, <2>3
<1>10. /\ Center \in Int /\ Center' \in Int
       /\ inputs["right"] = 1 => Center' <= Center + 2 * deadZone
       /\ inputs["right"] = -1 => Center' >= Center - 2 * deadZone
  <2>1. "right" \in PaddleSides /\ simulation.y["right"] \in Int /\ simulation'.y["right"] \in Int
    BY <1>4, <1>5, MiddleIs DEF MatchState, PaddleSides
  <2>2. Center' = simulation'.y["right"] + PADDLE_HEIGHT \div 2
    BY DEF Center
  <2>. QED
    BY <1>5, <2>1, <2>2, CourtIs, MiddleIs DEF Center
<1>11. simulation'.direction["right"] \in {0, inputs["right"]} /\ simulation'.direction["left"] \in Directions
  BY <1>5 DEF MatchState, PaddleSides
<1>12. /\ simulation'.direction["right"] = 1 => ai'.targetY > Center' - deadZone
       /\ simulation'.direction["right"] = -1 => ai'.targetY < Center' + deadZone
  BY <1>2, <1>3, <1>10, <1>11, CourtIs
<1>13. MatchInv'
  BY <1>1, <1>2, <1>5, <1>7, <1>8, <1>9, <1>11, <1>12 DEF MatchInv, MatchState, Over
<1>14. PointsAreMissed
  <2> SUFFICES ASSUME simulation'.score # simulation.score
               PROVE  \E side \in PaddleSides :
                        /\ WithinReach(simulation, side) /\ SignOf(simulation.across) = Towards(side)
                        /\ simulation'.score = [simulation.score EXCEPT ![opponent(side)] = @ + 1]
    BY DEF PointsAreMissed
  <2>1. Out(m) \in PaddleSides /\ simulation'.score = [simulation.score EXCEPT ![opponent(Out(m))] = @ + 1]
    BY <1>5
  <2>2. /\ simulation.ballX \in Int /\ 0 <= simulation.ballX /\ simulation.ballX <= GAME_WIDTH
        /\ simulation.across \in Int /\ -MaxAcross <= simulation.across /\ simulation.across <= MaxAcross
    BY <1>4, CourtIs DEF MatchState, Speeds
  <2>3. WithinReach(simulation, Out(m)) /\ SignOf(simulation.across) = Towards(Out(m))
    BY <1>5, <2>1, <2>2, CourtIs DEF Out, WithinReach, SignOf, Towards, PaddleSides
  <2>. QED
    BY <2>1, <2>3
<1>15. AiIsSteady
  <2> DEFINE a == simulation.direction["right"]
             b == simulation'.direction["right"]
  <2>1. a \in {-1, 0, 1} /\ b \in {-1, 0, 1}
    BY <1>4, <1>5 DEF MatchState, PaddleSides, Directions
  <2>. HIDE DEF a, b
  <2>2. a * b = -1 => (a = 1 /\ b = -1) \/ (a = -1 /\ b = 1)
    BY <2>1
  <2>3. ai' = ai => ~(a = 1 /\ b = -1) /\ ~(a = -1 /\ b = 1)
    BY <1>2, <1>3, <1>10, <1>11, CourtIs DEF MatchInv, a, b
  <2>. QED
    BY <1>2, <2>2, <2>3 DEF AiIsSteady, a, b
<1>. QED
  BY <1>13, <1>14, <1>15

LEMMA MatchStep == MatchInv /\ [MatchNext]_matchVars => MatchInv' /\ [PointsAreMissed /\ AiIsSteady]_matchVars
<1> SUFFICES ASSUME MatchInv, [MatchNext]_matchVars
             PROVE  MatchInv' /\ [PointsAreMissed /\ AiIsSteady]_matchVars
  OBVIOUS
<1>1. ASSUME Tick PROVE MatchInv' /\ [PointsAreMissed /\ AiIsSteady]_matchVars
  BY <1>1, TickKeeps
<1>2. simulation.direction["right"] \in {-1, 0, 1}
  BY DEF MatchInv, MatchState, PaddleSides, Directions
<1>3. \A n \in {-1, 0, 1} : n * n # -1 /\ n * 0 # -1
  OBVIOUS
<1>4. ASSUME simulation' = simulation, ai' = ai, touchedBy' = touchedBy, dy' \in Directions,
             matchPhase' \in {"playing", "paused", "finished"},
             matchPhase' # "finished" => matchPhase # "finished"
      PROVE  MatchInv' /\ PointsAreMissed /\ AiIsSteady
  <2>1. MatchInv'
    BY <1>4 DEF MatchInv, FliesFromHit, Over, Center
  <2>2. PointsAreMissed /\ AiIsSteady
    BY <1>2, <1>3, <1>4 DEF PointsAreMissed, AiIsSteady
  <2>. QED
    BY <2>1, <2>2
<1>5. ASSUME NEW direction \in Directions, SendInput(direction) PROVE MatchInv' /\ PointsAreMissed /\ AiIsSteady
  BY <1>4, <1>5 DEF SendInput, MatchInv
<1>6. ASSUME ResumeMatch PROVE MatchInv' /\ PointsAreMissed /\ AiIsSteady
  BY <1>4, <1>6 DEF ResumeMatch, MatchInv
<1>7. ASSUME PauseMatch PROVE MatchInv' /\ PointsAreMissed /\ AiIsSteady
  <2> DEFINE still == [side \in PaddleSides |-> 0]
  <2>1. simulation' = [simulation EXCEPT !.direction = still] /\ ai' = ai /\ touchedBy' = touchedBy
    BY <1>7 DEF PauseMatch
  <2>2. matchPhase' = "paused" /\ dy' = 0 /\ matchPhase = "playing"
    BY <1>7 DEF PauseMatch
  <2>3. still \in [PaddleSides -> Directions] /\ still["right"] = 0
    BY DEF Directions, PaddleSides
  <2>. HIDE DEF still
  <2>4. /\ simulation' \in MatchState /\ simulation'.direction = still
        /\ simulation'.ballX = simulation.ballX /\ simulation'.tick = simulation.tick
        /\ simulation'.score = simulation.score /\ simulation'.across = simulation.across
        /\ simulation'.phase = simulation.phase
    BY <2>1, <2>3 DEF MatchInv, MatchState
  <2>5. MatchInv'
    BY <2>1, <2>2, <2>3, <2>4 DEF MatchInv, FliesFromHit, Over, Directions
  <2>6. PointsAreMissed /\ AiIsSteady
    BY <1>2, <1>3, <2>3, <2>4 DEF PointsAreMissed, AiIsSteady
  <2>. QED
    BY <2>5, <2>6
<1>8. CASE UNCHANGED matchVars
  BY <1>8 DEF matchVars, MatchInv, FliesFromHit, Over, Center
<1>. QED
  BY <1>1, <1>5, <1>6, <1>7, <1>8 DEF MatchNext

\* Every tick of a match keeps it on the court and within its limits, and what
\* the AI last decided still holds (pongSimulation.ts:82-239, pongAi.ts:71-104).
THEOREM MatchInvariance == MatchSpec => []MatchInv
<1>. QED
  BY MatchStarts, MatchStep, PTL DEF MatchSpec

\* A match is played by the rules, tick by tick and through pauses
\* (pongSimulation.ts:82-239, pongAi.ts:71-104, gameHub.ts:934-990).
THEOREM PlayedByTheRulesAlways == MatchSpec => PlayedByTheRules
<1>1. MatchInv => InCourt /\ FliesFromHit /\ EndsByTheRules
  <2> SUFFICES ASSUME MatchInv PROVE InCourt /\ FliesFromHit /\ EndsByTheRules
    OBVIOUS
  <2>1. InCourt
    BY DEF MatchInv, MatchState, InCourt
  <2>2. EndsByTheRules
    <3>1. simulation.tick \in Nat /\ \A side \in PaddleSides : simulation.score[side] \in Nat
      BY DEF MatchInv, MatchState
    <3>. QED
      BY <3>1, CourtIs DEF MatchInv, Over, EndsByTheRules
  <2>. QED
    BY <2>1, <2>2 DEF MatchInv
<1>. QED
  BY <1>1, MatchInvariance, MatchStep, PTL DEF MatchSpec, PlayedByTheRules

-----------------------------------------------------------------------------
(* Friendships, for any users and any rows of older releases.              *)

\* A delete keeps just the rows at the places it does not name, each once.
LEMMA RemainingIs ==
  ASSUME NEW S, NEW table \in Seq(S), NEW kept \in SUBSET (DOMAIN table)
  PROVE  /\ Remaining(table, kept) \in Seq(S)
         /\ \A n \in DOMAIN Remaining(table, kept) : \E i \in kept : Remaining(table, kept)[n] = table[i]
         /\ \A m, n \in DOMAIN Remaining(table, kept) : m # n =>
              \E i, j \in kept : /\ i # j /\ Remaining(table, kept)[m] = table[i]
                                 /\ Remaining(table, kept)[n] = table[j]
         /\ \A i \in kept : \E n \in DOMAIN Remaining(table, kept) : Remaining(table, kept)[n] = table[i]
<1> DEFINE Below(i) == {j \in kept : j <= i}
           size     == Cardinality(kept)
           rank     == [i \in kept |-> Cardinality(Below(i))]
           nth  == [n \in 1..size |-> CHOOSE i \in kept : Cardinality({j \in kept : j <= i}) = n]
<1>1. kept \subseteq Nat /\ IsFiniteSet(kept) /\ size \in Nat
  <2>1. IsFiniteSet(1..Len(table)) /\ DOMAIN table = 1..Len(table)
    BY FS_Interval
  <2>. QED
    BY <2>1, FS_Subset, FS_CardinalityType
<1>2. ASSUME NEW i \in kept
      PROVE  IsFiniteSet(Below(i)) /\ rank[i] = Cardinality(Below(i)) /\ rank[i] \in 1..size
  <2>1. IsFiniteSet(Below(i)) /\ Cardinality(Below(i)) <= size /\ Cardinality(Below(i)) \in Nat
    BY <1>1, FS_Subset, FS_CardinalityType
  <2>2. Below(i) # {}
    BY <1>1
  <2>3. Cardinality(Below(i)) # 0
    BY <2>1, <2>2, FS_EmptySet
  <2>. QED
    BY <1>1, <2>1, <2>3
<1>3. ASSUME NEW i \in kept, NEW j \in kept, i < j
      PROVE  rank[i] < rank[j]
  <2>1. Below(i) \in SUBSET Below(j) /\ j \notin Below(i) /\ j \in Below(j)
    BY <1>1, <1>3
  <2>. HIDE DEF Below
  <2>2. Cardinality(Below(i)) <= Cardinality(Below(j)) /\ Cardinality(Below(i)) # Cardinality(Below(j))
    BY <1>2, <2>1, FS_Subset
  <2>. QED
    BY <1>1, <1>2, <2>2
<1>. HIDE DEF Below
<1>4. rank \in Injection(kept, 1..size)
  <2>1. rank \in [kept -> 1..size]
    BY <1>2
  <2>. HIDE DEF rank
  <2>2. \A i, j \in kept : i # j => rank[i] # rank[j]
    <3> SUFFICES ASSUME NEW i \in kept, NEW j \in kept, i # j PROVE rank[i] # rank[j]
      OBVIOUS
    <3>1. i < j \/ j < i
      BY <1>1
    <3>2. rank[i] \in Nat /\ rank[j] \in Nat
      BY <1>1, <1>2
    <3>. QED
      BY <1>3, <3>1, <3>2
  <2>. QED
    BY <2>1, <2>2 DEF Injection, IsInjective
<1>5. \A n \in 1..size : \E i \in kept : rank[i] = n
  <2>1. IsFiniteSet(1..size) /\ Cardinality(1..size) = size
    BY <1>1, FS_Interval
  <2>2. rank \in Surjection(kept, 1..size)
    BY <1>1, <1>4, <2>1, FS_Injection
  <2>. QED
    BY <2>2 DEF Surjection
<1>6. \A n \in 1..size : nth[n] \in kept /\ rank[nth[n]] = n
  <2> SUFFICES ASSUME NEW n \in 1..size PROVE nth[n] \in kept /\ rank[nth[n]] = n
    OBVIOUS
  <2>1. PICK i \in kept : rank[i] = n
    BY <1>5
  <2>2. Cardinality({j \in kept : j <= i}) = n
    BY <2>1 DEF Below
  <2>3. nth[n] \in kept /\ Cardinality({j \in kept : j <= nth[n]}) = n
    BY <2>2
  <2>. QED
    BY <2>3 DEF Below
<1>7. Remaining(table, kept) = [n \in 1..size |-> table[nth[n]]]
  BY DEF Remaining
<1>9. nth \in [1..size -> kept]
  BY <1>6
<1>. HIDE DEF nth, rank, size
<1>8. \A i \in kept : nth[rank[i]] = i
  BY <1>2, <1>4, <1>6 DEF Injection, IsInjective
<1>10. \A n \in 1..size : table[nth[n]] \in S
  BY <1>9
<1>11. DOMAIN Remaining(table, kept) = 1..size /\ Remaining(table, kept) \in [1..size -> S]
  BY <1>7, <1>10
<1>12. \A m, n \in 1..size : nth[m] = nth[n] => m = n
  BY <1>6
<1>13. \A n \in 1..size : Remaining(table, kept)[n] = table[nth[n]]
  BY <1>7
<1>14. \A i \in kept : \E n \in 1..size : nth[n] = i
  BY <1>2, <1>8
<1>15. Remaining(table, kept) \in Seq(S)
  BY <1>1, <1>11
<1>. QED
  BY <1>9, <1>11, <1>12, <1>13, <1>14, <1>15

\* What FriendshipsAgree says, of any table and any wishes.
OneRow(table) ==
  \A i, j \in DOMAIN table :
    /\ table[i].requester # table[i].addressee
    /\ i # j => ~SamePair(table[i], table[j])

Follows(table, wishes) ==
  /\ \A i \in DOMAIN table :
       /\ <<table[i].requester, table[i].addressee>> \in wishes
       /\ table[i].status = "accepted" <=> <<table[i].addressee, table[i].requester>> \in wishes
  /\ \A w \in wishes : w[1] # w[2] => RowsOfPair(table, w[1], w[2]) # {}

\* Until it is migrated a database is as the old releases left it; from then on
\* it says what is wanted.
FriendsInv ==
  /\ FriendsTypeOK
  /\ ~friendsMigrated => /\ DirectionsUnique(friendships)
                         /\ wanted = WantedIn(friendships)
                         /\ memoryFriends = <<>>
                         /\ youngDatabase => friendships = <<>>
  /\ friendsMigrated => /\ OneRow(friendships) /\ Follows(friendships, wanted)
                        /\ youngDatabase => memoryFriends = friendships

LEMMA FriendsBegin == FriendsInit => FriendsInv
<1> SUFFICES ASSUME FriendsInit PROVE FriendsInv
  OBVIOUS
<1>1. friendships \in Seq(Friendship)
  <2>1. PICK n \in 0..MaxLegacy : friendships \in [1..n -> Friendship]
    BY DEF FriendsInit
  <2>. QED
    BY <2>1, FriendsAssumption
<1>2. WantedIn(friendships) \subseteq Friends \X Friends
  <2>1. \A i \in DOMAIN friendships :
          friendships[i].requester \in Friends /\ friendships[i].addressee \in Friends
    <3>1. \A i \in DOMAIN friendships : friendships[i] \in Friendship
      BY <1>1
    <3>. QED
      BY <3>1 DEF Friendship
  <2>. QED
    BY <2>1 DEF WantedIn
<1>3. friendsMigrated = FALSE /\ memoryFriends = <<>> /\ memoryFriends \in Seq(Friendship)
  BY DEF FriendsInit
<1>4. youngDatabase \in BOOLEAN /\ (youngDatabase => friendships = <<>>)
  BY DEF FriendsInit
<1>5. DirectionsUnique(friendships) /\ wanted = WantedIn(friendships)
  BY DEF FriendsInit
<1>. QED
  BY <1>1, <1>2, <1>3, <1>4, <1>5 DEF FriendsInv, FriendsTypeOK

\* Rows of people who befriended themselves go, and nothing else.
LEMMA SelvesGo ==
  ASSUME NEW table \in Seq(Friendship), DirectionsUnique(table)
  PROVE  /\ WithoutSelves(table) \in Seq(Friendship) /\ DirectionsUnique(WithoutSelves(table))
         /\ \A n \in DOMAIN WithoutSelves(table) :
              /\ WithoutSelves(table)[n].requester # WithoutSelves(table)[n].addressee
              /\ \E i \in DOMAIN table : table[i] = WithoutSelves(table)[n]
         /\ \A i \in DOMAIN table : table[i].requester # table[i].addressee =>
              \E n \in DOMAIN WithoutSelves(table) : WithoutSelves(table)[n] = table[i]
<1> DEFINE kept == {i \in DOMAIN table : table[i].requester # table[i].addressee}
           rest == Remaining(table, kept)
<1>0. kept \in SUBSET (DOMAIN table)
  OBVIOUS
<1>. HIDE DEF kept
<1>1. rest \in Seq(Friendship)
  BY <1>0, RemainingIs
<1>2. /\ \A n \in DOMAIN rest : \E i \in kept : rest[n] = table[i]
      /\ \A m, n \in DOMAIN rest : m # n =>
           \E i, j \in kept : i # j /\ rest[m] = table[i] /\ rest[n] = table[j]
      /\ \A i \in kept : \E n \in DOMAIN rest : rest[n] = table[i]
  BY <1>0, RemainingIs
<1>3. rest = WithoutSelves(table)
  BY DEF WithoutSelves, kept
<1>. HIDE DEF rest
<1>. USE DEF kept
<1>4. DirectionsUnique(rest)
  <2> SUFFICES ASSUME NEW m \in DOMAIN rest, NEW n \in DOMAIN rest, m # n
               PROVE  rest[m].requester # rest[n].requester \/ rest[m].addressee # rest[n].addressee
    BY DEF DirectionsUnique
  <2>1. PICK i \in kept, j \in kept : i # j /\ rest[m] = table[i] /\ rest[n] = table[j]
    BY <1>2
  <2>. QED
    BY <2>1 DEF DirectionsUnique
<1>. QED
  BY <1>1, <1>2, <1>3, <1>4

\* Rows that answer each other are accepted, and nothing else changes.
LEMMA MutualAccepted ==
  ASSUME NEW table \in Seq(Friendship)
  PROVE  /\ AcceptMutual(table) \in Seq(Friendship) /\ DOMAIN AcceptMutual(table) = DOMAIN table
         /\ \A i \in DOMAIN table :
              /\ AcceptMutual(table)[i].requester = table[i].requester
              /\ AcceptMutual(table)[i].addressee = table[i].addressee
              /\ AcceptMutual(table)[i].status = "accepted" <=>
                   \/ table[i].status = "accepted"
                   \/ \E j \in DOMAIN table : j # i /\ OtherWay(table[i], table[j])
<1>1. \A i \in DOMAIN table :
        /\ table[i] \in Friendship /\ Accepted(table[i]) \in Friendship
        /\ Accepted(table[i]).requester = table[i].requester
        /\ Accepted(table[i]).addressee = table[i].addressee
        /\ Accepted(table[i]).status = "accepted"
  <2>1. ASSUME NEW f \in Friendship
        PROVE  /\ Accepted(f) \in Friendship /\ Accepted(f).status = "accepted"
               /\ Accepted(f).requester = f.requester /\ Accepted(f).addressee = f.addressee
    BY DEF Accepted, Friendship, FriendStatus
  <2>. QED
    BY <2>1
<1>2. DOMAIN AcceptMutual(table) = 1..Len(table) /\ DOMAIN table = 1..Len(table)
  BY DEF AcceptMutual
<1>3. \A i \in DOMAIN table : AcceptMutual(table)[i] =
        IF \E j \in DOMAIN table : j # i /\ OtherWay(table[i], table[j])
        THEN Accepted(table[i]) ELSE table[i]
  BY DEF AcceptMutual
<1>4. AcceptMutual(table) \in [1..Len(table) -> Friendship]
  <2>1. \A i \in DOMAIN table : AcceptMutual(table)[i] \in Friendship
    BY <1>1, <1>3
  <2>2. AcceptMutual(table) = [i \in 1..Len(table) |-> AcceptMutual(table)[i]]
    BY DEF AcceptMutual
  <2>. QED
    BY <1>2, <2>1, <2>2
<1>. QED
  BY <1>1, <1>2, <1>3, <1>4

\* Of a pair one row is left, and some row is.
LEMMA OneIsLeft ==
  ASSUME NEW table \in Seq(Friendship), DirectionsUnique(table),
         \A i, j \in DOMAIN table : i # j /\ OtherWay(table[i], table[j]) =>
           table[i].status = table[j].status,
         \A i \in DOMAIN table : table[i].requester # table[i].addressee
  PROVE  /\ OnePerPair(table) \in Seq(Friendship) /\ OneRow(OnePerPair(table))
         /\ \A n \in DOMAIN OnePerPair(table) : \E i \in DOMAIN table : OnePerPair(table)[n] = table[i]
         /\ \A i \in DOMAIN table :
              \E n \in DOMAIN OnePerPair(table) : SamePair(OnePerPair(table)[n], table[i])
<1> DEFINE kept == {i \in DOMAIN table : FirstOfPair(table, i)}
           rest == Remaining(table, kept)
<1>0. kept \in SUBSET (DOMAIN table)
  OBVIOUS
<1>. HIDE DEF kept
<1>1. rest \in Seq(Friendship)
  BY <1>0, RemainingIs
<1>2. /\ \A n \in DOMAIN rest : \E i \in kept : rest[n] = table[i]
      /\ \A m, n \in DOMAIN rest : m # n =>
           \E i, j \in kept : i # j /\ rest[m] = table[i] /\ rest[n] = table[j]
      /\ \A i \in kept : \E n \in DOMAIN rest : rest[n] = table[i]
  BY <1>0, RemainingIs
<1>3. rest = OnePerPair(table)
  BY DEF OnePerPair, kept
<1>. HIDE DEF rest
<1>. USE DEF kept
<1>4. \A i, j \in kept : i # j => ~SamePair(table[i], table[j])
  <2> SUFFICES ASSUME NEW i \in kept, NEW j \in kept, i # j, SamePair(table[i], table[j]) PROVE FALSE
    OBVIOUS
  <2>1. SamePair(table[j], table[i])
    BY DEF SamePair
  <2>2. \/ table[i].status = "accepted" /\ table[j].status = "pending"
        \/ table[i].status = table[j].status /\ i < j
    BY DEF FirstOfPair
  <2>3. \/ table[j].status = "accepted" /\ table[i].status = "pending"
        \/ table[j].status = table[i].status /\ j < i
    BY <2>1 DEF FirstOfPair
  <2>4. i \in Nat /\ j \in Nat
    OBVIOUS
  <2>. QED
    BY <2>2, <2>3, <2>4
<1>5. \A i \in DOMAIN table : \E k \in kept : SamePair(table[k], table[i])
  <2> SUFFICES ASSUME NEW i \in DOMAIN table PROVE \E k \in kept : SamePair(table[k], table[i])
    OBVIOUS
  <2>1. ASSUME NEW m \in DOMAIN table, NEW n \in DOMAIN table, m # n, SamePair(table[m], table[n])
        PROVE  OtherWay(table[m], table[n]) /\ OtherWay(table[n], table[m])
               /\ table[m].status = table[n].status
    BY <2>1 DEF SamePair, OtherWay, DirectionsUnique
  <2>2. CASE FirstOfPair(table, i)
    BY <2>2 DEF SamePair
  <2>3. CASE ~FirstOfPair(table, i)
    <3>1. PICK j \in DOMAIN table \ {i} : SamePair(table[i], table[j]) /\ ~(i < j)
      BY <2>1, <2>3 DEF FirstOfPair
    <3>2. ASSUME NEW m \in DOMAIN table \ {j}, SamePair(table[j], table[m])
          PROVE  m = i
      <4>1. OtherWay(table[i], table[j]) /\ OtherWay(table[m], table[j])
        <5>1. j # i /\ SamePair(table[i], table[j])
          BY <3>1
        <5>2. m \in DOMAIN table /\ m # j /\ j # m
          OBVIOUS
        <5>. QED
          BY <2>1, <3>2, <5>1, <5>2
      <4>. QED
        BY <4>1 DEF OtherWay, DirectionsUnique
    <3>3. j < i /\ table[i].status = table[j].status
      BY <2>1, <3>1
    <3>4. FirstOfPair(table, j)
      BY <3>2, <3>3 DEF FirstOfPair
    <3>. QED
      BY <3>1, <3>4 DEF SamePair
  <2>. QED
    BY <2>2, <2>3
<1>6. OneRow(rest)
  BY <1>2, <1>4 DEF OneRow
<1>7. \A i \in DOMAIN table : \E n \in DOMAIN rest : SamePair(rest[n], table[i])
  BY <1>2, <1>5
<1>. QED
  BY <1>1, <1>2, <1>3, <1>6, <1>7

\* What migration 004 leaves follows what the rows it finds say.
LEMMA MigrationFollows ==
  ASSUME NEW table \in Seq(Friendship), DirectionsUnique(table)
  PROVE  LET after == OnePerPair(AcceptMutual(WithoutSelves(table)))
         IN  after \in Seq(Friendship) /\ OneRow(after) /\ Follows(after, WantedIn(table))
<1> DEFINE others == WithoutSelves(table)
           agreed == AcceptMutual(others)
           after  == OnePerPair(agreed)
<1>1. /\ others \in Seq(Friendship) /\ DirectionsUnique(others)
      /\ \A n \in DOMAIN others : /\ others[n].requester # others[n].addressee
                                  /\ \E i \in DOMAIN table : table[i] = others[n]
      /\ \A i \in DOMAIN table : table[i].requester # table[i].addressee =>
           \E n \in DOMAIN others : others[n] = table[i]
  BY SelvesGo
<1>. HIDE DEF others
<1>2. /\ agreed \in Seq(Friendship) /\ DOMAIN agreed = DOMAIN others
      /\ \A i \in DOMAIN others :
           /\ agreed[i].requester = others[i].requester /\ agreed[i].addressee = others[i].addressee
           /\ agreed[i].status = "accepted" <=>
                \/ others[i].status = "accepted"
                \/ \E j \in DOMAIN others : j # i /\ OtherWay(others[i], others[j])
  BY <1>1, MutualAccepted
<1>. HIDE DEF agreed
<1>3. DirectionsUnique(agreed) /\ \A i \in DOMAIN agreed : agreed[i].requester # agreed[i].addressee
  BY <1>1, <1>2 DEF DirectionsUnique
<1>4. \A i, j \in DOMAIN agreed : i # j /\ OtherWay(agreed[i], agreed[j]) =>
        agreed[i].status = "accepted" /\ agreed[j].status = "accepted"
  BY <1>2 DEF OtherWay
<1>5. /\ after \in Seq(Friendship) /\ OneRow(after)
      /\ \A n \in DOMAIN after : \E i \in DOMAIN agreed : after[n] = agreed[i]
      /\ \A i \in DOMAIN agreed : \E n \in DOMAIN after : SamePair(after[n], agreed[i])
  BY <1>2, <1>3, <1>4, OneIsLeft
<1>. HIDE DEF after
<1> DEFINE Asked(a, b) == \/ \E i \in DOMAIN table : table[i].requester = a /\ table[i].addressee = b
                          \/ \E i \in DOMAIN table : /\ table[i].requester = b /\ table[i].addressee = a
                                                     /\ table[i].status = "accepted"
<1>6. \A a, b : <<a, b>> \in WantedIn(table) <=> Asked(a, b)
  BY DEF WantedIn
<1>7. \A w \in WantedIn(table) : w = <<w[1], w[2]>>
  BY DEF WantedIn
<1>8. ASSUME NEW a, NEW b, a # b, Asked(a, b)
      PROVE  RowsOfPair(after, a, b) # {}
  <2>1. PICK i \in DOMAIN table : \/ (table[i].requester = a /\ table[i].addressee = b)
                                 \/ (table[i].requester = b /\ table[i].addressee = a)
    BY <1>8
  <2>2. PICK n \in DOMAIN others : others[n] = table[i]
    BY <1>1, <1>8, <2>1
  <2>3. PICK k \in DOMAIN after : SamePair(after[k], agreed[n])
    BY <1>2, <1>5
  <2>4. {after[k].requester, after[k].addressee} = {a, b}
    <3>1. agreed[n].requester = table[i].requester /\ agreed[n].addressee = table[i].addressee
      BY <1>2, <2>2
    <3>2. {agreed[n].requester, agreed[n].addressee} = {a, b}
      BY <2>1, <3>1
    <3>. QED
      BY <2>3, <3>2 DEF SamePair
  <2>. QED
    BY <2>4 DEF RowsOfPair
<1>9. ASSUME NEW n \in DOMAIN after
      PROVE  /\ Asked(after[n].requester, after[n].addressee)
             /\ after[n].status = "accepted" <=> Asked(after[n].addressee, after[n].requester)
  <2>1. PICK k \in DOMAIN agreed : after[n] = agreed[k]
    BY <1>5
  <2>2. PICK i \in DOMAIN table : table[i] = others[k]
    BY <1>1, <1>2
  <2> DEFINE a == table[i].requester
             b == table[i].addressee
  <2>3. after[n].requester = a /\ after[n].addressee = b /\ a # b
    BY <1>1, <1>2, <2>1, <2>2
  <2>4. after[n].status = "accepted" <=>
          table[i].status = "accepted" \/ \E j \in DOMAIN others : j # k /\ OtherWay(others[k], others[j])
    BY <1>2, <2>1, <2>2
  <2>5. ASSUME NEW j \in DOMAIN others, OtherWay(others[k], others[j])
        PROVE  \E m \in DOMAIN table : table[m].requester = b /\ table[m].addressee = a
    BY <1>1, <2>2, <2>5 DEF OtherWay
  <2>6. ASSUME NEW m \in DOMAIN table, table[m].requester = b, table[m].addressee = a
        PROVE  \E j \in DOMAIN others : j # k /\ OtherWay(others[k], others[j])
    <3>1. PICK j \in DOMAIN others : others[j] = table[m]
      BY <1>1, <2>3, <2>6
    <3>. QED
      BY <2>2, <2>3, <2>6, <3>1 DEF OtherWay
  <2>7. ASSUME NEW m \in DOMAIN table, table[m].requester = a, table[m].addressee = b
        PROVE  m = i
    BY <2>7 DEF DirectionsUnique
  <2>. QED
    BY <2>3, <2>4, <2>5, <2>6, <2>7
<1>. HIDE DEF Asked
<1>10. Follows(after, WantedIn(table))
  <2>1. \A w \in WantedIn(table) : w[1] # w[2] => RowsOfPair(after, w[1], w[2]) # {}
    BY <1>6, <1>7, <1>8
  <2>. QED
    BY <1>6, <1>9, <2>1 DEF Follows
<1>. QED
  BY <1>5, <1>10 DEF after, agreed, others

\* An empty table stays empty.
LEMMA NothingToMigrate == OnePerPair(AcceptMutual(WithoutSelves(<<>>))) = <<>>
<1>1. Remaining(<<>>, {}) = <<>>
  <2> DEFINE none == <<>>
  <2>1. none \in Seq({}) /\ {} \in SUBSET (DOMAIN none)
    OBVIOUS
  <2>. HIDE DEF none
  <2>2. Remaining(none, {}) \in Seq({})
    BY <2>1, RemainingIs
  <2>. QED
    BY <2>2 DEF none
<1>2. {i \in DOMAIN <<>> : <<>>[i].requester # <<>>[i].addressee} = {}
  OBVIOUS
<1>3. WithoutSelves(<<>>) = <<>>
  BY <1>1, <1>2 DEF WithoutSelves
<1>4. AcceptMutual(<<>>) = <<>>
  BY MutualAccepted DEF AcceptMutual
<1>5. {i \in DOMAIN <<>> : FirstOfPair(<<>>, i)} = {}
  OBVIOUS
<1>. QED
  BY <1>1, <1>3, <1>4, <1>5 DEF OnePerPair

\* The row of a pair is where both repositories look for it.
LEMMA OneRowFound ==
  ASSUME NEW table, OneRow(table), NEW a, NEW b, NEW i \in RowsOfPair(table, a, b)
  PROVE  RowsOfPair(table, a, b) = {i}
BY DEF OneRow, RowsOfPair, SamePair

\* A request for a friendship: the row it adds, or the answer it gives.
LEMMA RequestFollows ==
  ASSUME NEW table \in Seq(Friendship), NEW wishes \in SUBSET (Friends \X Friends),
         OneRow(table), Follows(table, wishes),
         NEW a \in Friends, NEW b \in Friends, a # b
  PROVE  LET after == requestFriend(table, a, b)
         IN  /\ after \in Seq(Friendship) /\ OneRow(after) /\ Follows(after, wishes \cup {<<a, b>>})
             /\ memoryRequestFriend(table, a, b) = after
<1> DEFINE after == requestFriend(table, a, b)
           rows  == RowsOfPair(table, a, b)
<1>1. \A i \in DOMAIN table : table[i] \in Friendship
  OBVIOUS
<1>2. DOMAIN table = 1..Len(table)
  OBVIOUS
<1>3. CASE rows = {}
  <2> DEFINE new == NewFriendship(a, b)
  <2>1. /\ new \in Friendship /\ new.requester = a /\ new.addressee = b /\ new.status = "pending"
    BY DEF NewFriendship, Friendship, FriendStatus
  <2>2. after = Append(table, new)
    BY <1>3 DEF requestFriend
  <2>. HIDE DEF new
  <2>3. /\ after \in Seq(Friendship) /\ DOMAIN after = 1..(Len(table) + 1) /\ Len(table) \in Nat
        /\ \A i \in DOMAIN table : after[i] = table[i]
        /\ after[Len(table) + 1] = new
    BY <2>1, <2>2
  <2>4. \A i \in DOMAIN after : i \in DOMAIN table \/ i = Len(table) + 1
    BY <1>2, <2>3
  <2>5. \A i \in DOMAIN table : i \in DOMAIN after
    BY <1>2, <2>3
  <2>6. \A i \in DOMAIN table : {table[i].requester, table[i].addressee} # {a, b}
    BY <1>3 DEF RowsOfPair
  <2>. HIDE DEF after
  <2>7. OneRow(after)
    <3>1. \A i \in DOMAIN table : /\ after[i].requester # after[i].addressee
                                 /\ ~SamePair(after[i], new) /\ ~SamePair(new, after[i])
      BY <2>1, <2>3, <2>6 DEF OneRow, SamePair
    <3>2. \A i, j \in DOMAIN table : i # j => ~SamePair(after[i], after[j])
      BY <2>3 DEF OneRow
    <3>3. new.requester # new.addressee
      BY <2>1
    <3>. QED
      BY <2>3, <2>4, <3>1, <3>2, <3>3 DEF OneRow
  <2>8. <<a, b>> \notin wishes /\ <<b, a>> \notin wishes
    BY <1>3, <2>6 DEF Follows, RowsOfPair
  <2>9. \A i \in DOMAIN after :
          /\ <<after[i].requester, after[i].addressee>> \in wishes \cup {<<a, b>>}
          /\ after[i].status = "accepted" <=>
               <<after[i].addressee, after[i].requester>> \in wishes \cup {<<a, b>>}
    BY <2>1, <2>3, <2>4, <2>6, <2>8 DEF Follows
  <2>10. \A w \in wishes \cup {<<a, b>>} : w[1] # w[2] => RowsOfPair(after, w[1], w[2]) # {}
    <3>1. Len(table) + 1 \in RowsOfPair(after, a, b)
      BY <2>1, <2>3 DEF RowsOfPair
    <3>2. \A w \in wishes : RowsOfPair(table, w[1], w[2]) \subseteq RowsOfPair(after, w[1], w[2])
      BY <2>3, <2>5 DEF RowsOfPair
    <3>3. \A w \in wishes : w[1] # w[2] => RowsOfPair(after, w[1], w[2]) # {}
      BY <3>2 DEF Follows
    <3>. QED
      BY <3>1, <3>3
  <2>11. memoryRequestFriend(table, a, b) = Append(table, new)
    BY <1>3 DEF memoryRequestFriend, new
  <2>. QED
    BY <2>2, <2>3, <2>7, <2>9, <2>10, <2>11 DEF after, Follows
<1>4. CASE rows # {}
  <2>1. PICK k \in DOMAIN table : /\ rows = {k}
                                  /\ {table[k].requester, table[k].addressee} = {a, b}
    <3>1. PICK k \in rows : TRUE
      BY <1>4
    <3>2. rows = {k}
      BY <3>1, OneRowFound
    <3>. QED
      BY <3>1, <3>2 DEF RowsOfPair
  <2>2. \/ (table[k].requester = a /\ table[k].addressee = b)
        \/ (table[k].requester = b /\ table[k].addressee = a)
    BY <2>1
  <2> DEFINE row == Upserted(table[k], a, b)
  <2>3. /\ row \in Friendship
        /\ row.requester = table[k].requester /\ row.addressee = table[k].addressee
        /\ row.status = "accepted" <=> table[k].status = "accepted" \/ table[k].requester = b
    <3>1. PICK f \in Friendship : f = table[k]
      BY <1>1
    <3>2. f.status \in {"pending", "accepted"}
      BY DEF Friendship, FriendStatus
    <3>3. /\ Upserted(f, a, b) \in Friendship
          /\ Upserted(f, a, b).requester = f.requester /\ Upserted(f, a, b).addressee = f.addressee
          /\ Upserted(f, a, b).status = "accepted" <=> f.status = "accepted" \/ f.requester = b
      BY <2>2, <3>1, <3>2 DEF Upserted, Accepted, Friendship, FriendStatus
    <3>. QED
      BY <3>1, <3>3
  <2>4. after = [i \in DOMAIN table |-> IF i = k THEN row ELSE table[i]]
    BY <1>4, <2>1 DEF requestFriend
  <2>5. memoryRequestFriend(table, a, b) = [i \in DOMAIN table |-> IF i = k THEN row ELSE table[i]]
    <3>1. {i \in rows : \A j \in rows : i <= j} = {k}
      BY <1>2, <2>1
    <3>2. row = IF table[k].status = "pending" /\ table[k].requester = b
                THEN Accepted(table[k]) ELSE table[k]
      BY <2>2 DEF Upserted
    <3>3. \A i \in DOMAIN table :
            (IF i \in {k} /\ table[i].status = "pending" /\ table[i].requester = b
             THEN Accepted(table[i]) ELSE table[i]) = IF i = k THEN row ELSE table[i]
      BY <3>2
    <3>4. {k} # {}
      OBVIOUS
    <3>. QED
      BY <3>1, <3>3, <3>4 DEF memoryRequestFriend
  <2>. HIDE DEF row
  <2>6. /\ after \in Seq(Friendship) /\ DOMAIN after = DOMAIN table
        /\ after[k] = row /\ \A i \in DOMAIN table : i # k => after[i] = table[i]
    BY <1>1, <1>2, <2>3, <2>4
  <2>. HIDE DEF after
  <2>7. \A i \in DOMAIN table :
          after[i].requester = table[i].requester /\ after[i].addressee = table[i].addressee
    BY <2>3, <2>6
  <2>8. OneRow(after)
    BY <2>6, <2>7 DEF OneRow, SamePair
  <2>9. \A i \in DOMAIN table \ {k} : {table[i].requester, table[i].addressee} # {a, b}
    BY <2>1 DEF RowsOfPair
  <2>10. \A i \in DOMAIN after :
           /\ <<after[i].requester, after[i].addressee>> \in wishes \cup {<<a, b>>}
           /\ after[i].status = "accepted" <=>
                <<after[i].addressee, after[i].requester>> \in wishes \cup {<<a, b>>}
    BY <2>2, <2>3, <2>6, <2>7, <2>9 DEF Follows
  <2>11. \A w \in wishes \cup {<<a, b>>} : w[1] # w[2] => RowsOfPair(after, w[1], w[2]) # {}
    <3>1. \A c, d : RowsOfPair(after, c, d) = RowsOfPair(table, c, d)
      BY <2>6, <2>7 DEF RowsOfPair
    <3>. QED
      BY <1>4, <3>1 DEF Follows
  <2>. QED
    BY <2>4, <2>5, <2>6, <2>8, <2>10, <2>11 DEF after, Follows
<1>. QED
  BY <1>3, <1>4

\* An acceptance by the one who was asked.
LEMMA AcceptFollows ==
  ASSUME NEW table \in Seq(Friendship), NEW wishes, OneRow(table), Follows(table, wishes),
         NEW user, NEW i \in DOMAIN table
  PROVE  LET after == acceptFriend(table, user, i)
         IN  /\ after \in Seq(Friendship) /\ OneRow(after)
             /\ Follows(after, IF table[i].addressee = user
                               THEN wishes \cup {<<user, table[i].requester>>} ELSE wishes)
<1> DEFINE after == acceptFriend(table, user, i)
<1>1. CASE table[i].addressee # user
  BY <1>1 DEF acceptFriend
<1>2. CASE table[i].addressee = user
  <2> DEFINE row    == Accepted(table[i])
             wanted2 == wishes \cup {<<user, table[i].requester>>}
  <2>1. \A n \in DOMAIN table : table[n] \in Friendship
    OBVIOUS
  <2>2. /\ row \in Friendship /\ row.status = "accepted"
        /\ row.requester = table[i].requester /\ row.addressee = table[i].addressee
    <3>1. PICK f \in Friendship : f = table[i]
      BY <2>1
    <3>2. /\ Accepted(f) \in Friendship /\ Accepted(f).status = "accepted"
          /\ Accepted(f).requester = f.requester /\ Accepted(f).addressee = f.addressee
      BY DEF Accepted, Friendship, FriendStatus
    <3>. QED
      BY <3>1, <3>2
  <2>3. after = [table EXCEPT ![i] = row]
    BY <1>2 DEF acceptFriend
  <2>. HIDE DEF row
  <2>4. /\ after \in Seq(Friendship) /\ DOMAIN after = DOMAIN table
        /\ after[i] = row /\ \A n \in DOMAIN table : n # i => after[n] = table[n]
    BY <2>2, <2>3
  <2>. HIDE DEF after
  <2>5. \A n \in DOMAIN table :
          after[n].requester = table[n].requester /\ after[n].addressee = table[n].addressee
    BY <2>2, <2>4
  <2>6. OneRow(after)
    BY <2>4, <2>5 DEF OneRow, SamePair
  <2>7. \A n \in DOMAIN table \ {i} : ~SamePair(table[n], table[i])
    BY DEF OneRow
  <2>8. \A n \in DOMAIN after :
          /\ <<after[n].requester, after[n].addressee>> \in wanted2
          /\ after[n].status = "accepted" <=> <<after[n].addressee, after[n].requester>> \in wanted2
    BY <1>2, <2>2, <2>4, <2>5, <2>7 DEF Follows, SamePair
  <2>9. \A c, d : RowsOfPair(after, c, d) = RowsOfPair(table, c, d)
    BY <2>4, <2>5 DEF RowsOfPair
  <2>10. i \in RowsOfPair(table, user, table[i].requester)
    BY <1>2 DEF RowsOfPair
  <2>11. \A w \in wanted2 : w[1] # w[2] => RowsOfPair(after, w[1], w[2]) # {}
    BY <2>9, <2>10 DEF Follows
  <2>. QED
    BY <1>2, <2>4, <2>6, <2>8, <2>11 DEF Follows, after
<1>. QED
  BY <1>1, <1>2

LEMMA FriendsStep == FriendsInv /\ [FriendsNext]_friendVars => FriendsInv'
<1> SUFFICES ASSUME FriendsInv, [FriendsNext]_friendVars PROVE FriendsInv'
  OBVIOUS
<1>1. /\ friendships \in Seq(Friendship) /\ memoryFriends \in Seq(Friendship)
      /\ friendsMigrated \in BOOLEAN /\ youngDatabase \in BOOLEAN
      /\ wanted \in SUBSET (Friends \X Friends)
  BY DEF FriendsInv, FriendsTypeOK
<1>2. friendsMigrated => /\ OneRow(friendships) /\ Follows(friendships, wanted)
                         /\ youngDatabase => memoryFriends = friendships
  BY DEF FriendsInv
<1>3. ASSUME MigrateFriendships PROVE FriendsInv'
  <2>1. /\ DirectionsUnique(friendships) /\ wanted = WantedIn(friendships)
        /\ memoryFriends = <<>> /\ (youngDatabase => friendships = <<>>)
    BY <1>3 DEF MigrateFriendships, FriendsInv
  <2>2. friendships' \in Seq(Friendship) /\ OneRow(friendships') /\ Follows(friendships', wanted)
    BY <1>1, <1>3, <2>1, MigrationFollows DEF MigrateFriendships
  <2>3. youngDatabase => friendships' = <<>>
    BY <1>3, <2>1, NothingToMigrate DEF MigrateFriendships
  <2>. QED
    BY <1>1, <1>3, <2>1, <2>2, <2>3 DEF MigrateFriendships, FriendsInv, FriendsTypeOK
<1>4. ASSUME NEW a \in Friends, NEW b \in Friends, RequestFriend(a, b) PROVE FriendsInv'
  <2>1. friendsMigrated /\ a # b
    BY <1>4 DEF RequestFriend
  <2>2. /\ requestFriend(friendships, a, b) \in Seq(Friendship)
        /\ OneRow(requestFriend(friendships, a, b))
        /\ Follows(requestFriend(friendships, a, b), wanted \cup {<<a, b>>})
        /\ memoryRequestFriend(friendships, a, b) = requestFriend(friendships, a, b)
    BY <1>1, <1>2, <2>1, RequestFollows
  <2>3. /\ friendships' = requestFriend(friendships, a, b)
        /\ wanted' = wanted \cup {<<a, b>>}
        /\ memoryFriends' = IF youngDatabase THEN memoryRequestFriend(memoryFriends, a, b) ELSE memoryFriends
        /\ friendsMigrated' = friendsMigrated /\ youngDatabase' = youngDatabase
    BY <1>4 DEF RequestFriend
  <2>4. <<a, b>> \in Friends \X Friends
    OBVIOUS
  <2>5. memoryFriends' \in Seq(Friendship) /\ (youngDatabase => memoryFriends' = friendships')
    BY <1>1, <1>2, <2>1, <2>2, <2>3
  <2>. QED
    BY <1>1, <2>1, <2>2, <2>3, <2>4, <2>5 DEF FriendsInv, FriendsTypeOK
<1>5. ASSUME NEW user \in Friends, NEW i \in DOMAIN friendships, AcceptFriend(user, i) PROVE FriendsInv'
  <2>1. friendsMigrated
    BY <1>5 DEF AcceptFriend
  <2>2. /\ friendships' = acceptFriend(friendships, user, i)
        /\ wanted' = IF friendships[i].addressee = user
                     THEN wanted \cup {<<user, friendships[i].requester>>} ELSE wanted
        /\ memoryFriends' = IF youngDatabase THEN acceptFriend(memoryFriends, user, i) ELSE memoryFriends
        /\ friendsMigrated' = friendsMigrated /\ youngDatabase' = youngDatabase
    BY <1>5 DEF AcceptFriend
  <2>3. friendships' \in Seq(Friendship) /\ OneRow(friendships') /\ Follows(friendships', wanted')
    BY <1>1, <1>2, <2>1, <2>2, AcceptFollows
  <2>4. memoryFriends' \in Seq(Friendship) /\ (youngDatabase => memoryFriends' = friendships')
    BY <1>1, <1>2, <2>1, <2>2, <2>3
  <2>5. friendships[i].requester \in Friends
    <3>1. friendships[i] \in Friendship
      BY <1>1
    <3>. QED
      BY <3>1 DEF Friendship
  <2>6. wanted' \subseteq Friends \X Friends
    BY <1>1, <2>2, <2>5
  <2>. QED
    BY <1>1, <2>1, <2>2, <2>3, <2>4, <2>6 DEF FriendsInv, FriendsTypeOK
<1>6. CASE UNCHANGED friendVars
  BY <1>6 DEF friendVars, FriendsInv, FriendsTypeOK, DirectionsUnique, WantedIn, OneRow, Follows, RowsOfPair
<1>. QED
  BY <1>3, <1>4, <1>5, <1>6 DEF FriendsNext

\* Whatever rows the older releases left and whoever asks first, once the database
\* is migrated a pair has one row, which says what the two want, and the in-memory
\* repository says the same (index.ts:441-490, 1160-1192;
\* 004_friendship_tournament_invariants.sql).
THEOREM FriendshipsAgreeAlways == FriendsSpec => []FriendshipsAgree
<1>1. FriendsInv => FriendshipsAgree
  BY DEF FriendsInv, FriendshipsAgree, OneRowPerPair, StatusFollowsWishes, OneRow, Follows
<1>. QED
  BY <1>1, FriendsBegin, FriendsStep, PTL DEF FriendsSpec

-----------------------------------------------------------------------------
(* The parts side by side (MCParts), and their types.                      *)

\* Side by side each part does what its own specification says, so that what is
\* proved of it holds there and what is found there is found of it.
LEMMA PartsAreThemselves ==
  PartsSpec => /\ Spec /\ GateSpec /\ BeatSpec /\ SnapSpec /\ SchedSpec /\ GuestSpec
               /\ AccessSpec /\ FriendsSpec /\ MatchSpec /\ DeploySpec
<1>1. PartsInit => /\ Init /\ GateInit /\ BeatInit /\ SnapInit /\ SchedInit /\ GuestInit
                   /\ AccessInit /\ FriendsInit /\ MatchInit /\ DeployInit
  BY DEF PartsInit
<1> DEFINE all == <<part, vars, gateVars, beatVars, snapVars, schedVars, guestVars, accessVars,
                    friendVars, matchVars, deployVars>>
<1>2. [PartsNext]_all => /\ [Next]_vars /\ [GateNext]_gateVars /\ [BeatNext]_beatVars
                         /\ [SnapNext]_snapVars /\ [SchedNext]_schedVars /\ [GuestNext]_guestVars
                         /\ [AccessNext]_accessVars /\ [FriendsNext]_friendVars
                         /\ [MatchNext]_matchVars /\ [DeployNext]_deployVars
  BY DEF PartsNext, Part
<1>. QED
  BY <1>1, <1>2, PTL DEF PartsSpec, Spec, GateSpec, BeatSpec, SnapSpec, SchedSpec, GuestSpec,
                         AccessSpec, FriendsSpec, MatchSpec, DeploySpec

LEMMA GateTypes == GateSpec => []GateTypeOK
<1>1. GateInv => GateTypeOK
  BY DEF GateInv, Ranges, GateRanges, SocketRanges, GateTypeOK
<1>. QED
  BY <1>1, GateInvariance, PTL

LEMMA BeatTypes == BeatSpec => []BeatTypeOK
<1> DEFINE Bounded == /\ beatClock \in 0..MaxBeatClock /\ heardAt \in 0..MaxBeatClock
                      /\ pongs \in 0..MaxPongs
           Named   == /\ place \in {"new", "registered", "ended", "replaced", "gone"}
                      /\ cut \in {"no", "ping failed", "timeout"}
<1>. USE BeatAssumption
<1>1. BeatInit => Bounded /\ Named /\ peerAlive \in BOOLEAN
  BY DEF BeatInit
<1>2. Bounded /\ [BeatNext]_beatVars => Bounded'
  <2> SUFFICES ASSUME Bounded, [BeatNext]_beatVars PROVE Bounded'
    OBVIOUS
  <2>1. CASE Start \/ StartSkipped
    BY <2>1 DEF Start, StartSkipped, armTimeout
  <2>2. CASE Ping
    <3>1. /\ pongs' = pongs \/ (pongs < MaxPongs /\ pongs' = pongs + 1)
          /\ beatClock' = beatClock /\ heardAt' = heardAt
      BY <2>2, Zenon DEF Ping, terminateSilent
    <3>. QED
      BY <3>1
  <2>3. CASE TimeoutFires
    BY <2>3 DEF TimeoutFires, terminateSilent, stopTimers
  <2>4. CASE Pong
    BY <2>4 DEF Pong, acknowledge, armTimeout
  <2>5. CASE LosePlace
    BY <2>5 DEF LosePlace, stopTimers
  <2>6. CASE CloseEvent
    BY <2>6 DEF CloseEvent, stopTimers
  <2>7. CASE PeerFallsSilent
    BY <2>7 DEF PeerFallsSilent
  <2>8. CASE ElapseBeat
    BY <2>8 DEF ElapseBeat
  <2>9. CASE UNCHANGED beatVars
    BY <2>9 DEF beatVars
  <2>. QED
    BY <2>1, <2>2, <2>3, <2>4, <2>5, <2>6, <2>7, <2>8, <2>9 DEF BeatNext
<1>3. Named /\ [BeatNext]_beatVars => Named'
  BY DEF BeatNext, beatVars, Start, StartSkipped, Ping, TimeoutFires, Pong, LosePlace, CloseEvent, PeerFallsSilent,
         ElapseBeat, terminateSilent
<1>4. peerAlive \in BOOLEAN /\ [BeatNext]_beatVars => (peerAlive \in BOOLEAN)'
  BY DEF BeatNext, beatVars, Start, StartSkipped, Ping, TimeoutFires, Pong, LosePlace, CloseEvent, PeerFallsSilent,
         ElapseBeat, terminateSilent
<1>5. BeatInv /\ Bounded /\ Named /\ peerAlive \in BOOLEAN => BeatTypeOK
  BY DEF BeatInv, BeatRanges, BeatTypeOK
<1>. QED
  BY <1>1, <1>2, <1>3, <1>4, <1>5, BeatInvariance, PTL DEF BeatSpec

LEMMA SchedTypes == SchedSpec => []SchedTypeOK
<1> DEFINE Bounded == /\ accumulator.lagMs \in 0..maxAccumulatedMs
                      /\ loop.ticks \in 0..maxTicksPerLoop
                      /\ tickClock \in 0..MaxTickClock
<1>. USE Steps
<1>0. Stopped.lagMs = 0 /\ Idle.ticks = 0 /\ MaxTickClock \in Nat
  BY SchedulerAssumption DEF Stopped, Idle
<1>1. SchedInit => Bounded
  BY <1>0 DEF SchedInit
<1>2. Bounded /\ SchedInv /\ [SchedNext]_schedVars => Bounded'
  <2> SUFFICES ASSUME Bounded, SchedInv, [SchedNext]_schedVars PROVE Bounded'
    OBVIOUS
  <2>1. accumulator \in Accumulators /\ loop \in [ticks : Nat, rooms : SUBSET MatchRooms] /\ tickClock \in Nat
    BY DEF SchedInv, SchedRanges
  <2>2. ASSUME NEW r \in MatchRooms, Register(r) PROVE Bounded'
    BY <1>0, <2>2 DEF Register, start
  <2>3. ASSUME NEW r \in MatchRooms, Unregister(r) PROVE Bounded'
    BY <1>0, <2>3 DEF Unregister, unregister
  <2>4. ASSUME NEW r \in MatchRooms, StepRoom(r) PROVE Bounded'
    BY <1>0, <2>1, <2>4 DEF StepRoom, unregister
  <2>5. CASE StopAll
    BY <1>0, <2>5 DEF StopAll
  <2>6. CASE TimerFires
    <3>1. TimerRuns /\ loop'.ticks = ticksDue(tickClock) /\ tickClock' = tickClock
          /\ accumulator' = [advanced(tickClock) EXCEPT !.timerAt = tickClock + timestepMs]
      BY <2>6 DEF TimerFires
    <3>2. /\ lagAfter(tickClock) \in Nat /\ ticksDue(tickClock) \in Nat
          /\ advanced(tickClock) \in Accumulators
          /\ advanced(tickClock).lagMs = lagAfter(tickClock) - ticksDue(tickClock) * timestepMs
      BY <3>1, AdvanceIs DEF SchedInv
    <3>3. accumulator'.lagMs = advanced(tickClock).lagMs /\ advanced(tickClock).lagMs \in Nat
      BY <3>1, <3>2 DEF Accumulators
    <3>4. lagAfter(tickClock) <= maxAccumulatedMs
      BY <3>2 DEF lagAfter, Capped
    <3>5. ticksDue(tickClock) <= maxTicksPerLoop
      BY <3>2 DEF ticksDue, Capped
    <3>6. ticksDue(tickClock) * timestepMs \in Nat
      BY <3>2
    <3>7. advanced(tickClock).lagMs <= maxAccumulatedMs
      BY <3>2, <3>3, <3>4, <3>6
    <3>. QED
      BY <3>1, <3>2, <3>3, <3>5, <3>7
  <2>7. CASE BeginTick
    <3>1. tickClock' = tickClock /\ accumulator' = accumulator
      BY <2>7 DEF BeginTick
    <3>2. loop.ticks > 0 /\ (loop'.ticks = loop.ticks - 1 \/ loop'.ticks = 0)
      BY <1>0, <2>7 DEF BeginTick
    <3>. QED
      BY <3>1, <3>2
  <2>8. CASE ElapseTick
    BY <1>0, <2>8 DEF ElapseTick
  <2>9. CASE UNCHANGED schedVars
    BY <2>9 DEF schedVars
  <2>. QED
    BY <2>2, <2>3, <2>4, <2>5, <2>6, <2>7, <2>8, <2>9 DEF SchedNext
<1>3. SchedInv /\ Bounded => SchedTypeOK
  BY DEF SchedInv, SchedRanges, SchedTypeOK
<1>. QED
  BY <1>1, <1>2, <1>3, SchedInvariance, PTL DEF SchedSpec

LEMMA DeployTypes == DeploySpec => []DeployTypeOK
<1> DEFINE Typed == /\ applied \in Releases \cup {{}}
                    /\ probe \in [Processes -> Probes]
                    /\ held \in [Processes -> SUBSET (Releases \cup {{}})]
                    /\ said \in [Processes -> {"nothing", "ready", "not_ready"}]
                    /\ drains \in [Processes -> Nat]
<1>0. {"none", "asked", "not_applicable", "failed"} \subseteq Probes
  BY DEF Probes
<1>1. DeployInit => Typed
  BY DEF DeployInit, Probes
<1>2. Typed /\ [DeployNext]_deployVars => Typed'
  <2> SUFFICES ASSUME Typed, [DeployNext]_deployVars PROVE Typed'
    OBVIOUS
  <2>1. ASSUME NEW r \in Releases, MigrateDatabase(r) PROVE Typed'
    BY <2>1 DEF MigrateDatabase
  <2>2. ASSUME NEW p \in Processes, NEW r \in Releases, NEW d \in BOOLEAN, StartProcess(p, r, d) PROVE Typed'
    BY <2>2 DEF StartProcess
  <2>3. ASSUME NEW p \in Processes, Listens(p) \/ EndProcess(p) PROVE Typed'
    BY <1>0, <2>3 DEF Listens, EndProcess
  <2>4. ASSUME NEW p \in Processes, Signal(p) \/ DrainAnswered(p) PROVE Typed'
    BY <2>4 DEF Signal, DrainAnswered
  <2>5. ASSUME NEW p \in Processes, NEW hook \in CloseHooks, OnClose(p, hook) PROVE Typed'
    BY <1>0, <2>5 DEF OnClose
  <2>6. ASSUME NEW p \in Processes, ProbeArrives(p) \/ ProbeReadsMemory(p) \/ ProbeFails(p) PROVE Typed'
    BY <1>0, <2>6 DEF ProbeArrives, ProbeReadsMemory, ProbeFails
  <2>7. ASSUME NEW p \in Processes, ProbeReads(p) PROVE Typed'
    <3>1. compareMigrationSets(server[p].release, applied) \in Probes
      BY Compared DEF Probes
    <3>. QED
      BY <2>7, <3>1 DEF ProbeReads
  <2>8. ASSUME NEW p \in Processes, ProbeAnswered(p) PROVE Typed'
    BY <1>0, <2>8 DEF ProbeAnswered
  <2>9. CASE UNCHANGED deployVars
    BY <2>9 DEF deployVars
  <2>. QED
    BY <2>1, <2>2, <2>3, <2>4, <2>5, <2>6, <2>7, <2>8, <2>9 DEF DeployNext
<1>3. DeployInv /\ Typed => DeployTypeOK
  BY DEF DeployInv, Known, DeployTypeOK
<1>. QED
  BY <1>1, <1>2, <1>3, DeployInvariance, PTL DEF DeploySpec

\* The state of every part is what the code can hold there: timers, tokens, lags,
\* ticks and tickets stay within their limits (the parts' own modules).
THEOREM PartsTypes == PartsSpec => []PartsTypeOK
<1>1. SnapSpec => []SnapTypeOK
  BY SnapInvariance, PTL DEF SnapInv
<1>2. AccessSpec => []AccessTypeOK
  BY AccessInvariance, PTL DEF AccessInv
<1>3. FriendsSpec => []FriendsTypeOK
  <2>1. FriendsInv => FriendsTypeOK
    BY DEF FriendsInv
  <2>. QED
    BY <2>1, FriendsBegin, FriendsStep, PTL DEF FriendsSpec
<1>. QED
  BY <1>1, <1>2, <1>3, PartsAreThemselves, TypeCorrect, GateTypes, BeatTypes, SchedTypes, TicketsAgreeAlways,
     DeployTypes, PTL DEF PartsTypeOK

=============================================================================
