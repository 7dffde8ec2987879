------------------------------- MODULE MCParts -------------------------------
(***************************************************************************)
(* The parts that share no state, checked side by side: the session of a   *)
(* room, the gate its inputs pass, the heartbeat and the snapshots of a    *)
(* connection, the clock of the rooms, the guests, the sockets of the      *)
(* registered users, friendships, a match against the AI and the           *)
(* deployment.  Their product would only multiply their states, so a       *)
(* behaviour moves one of them, the one the first state picks, and the     *)
(* others rest where they begin.                                           *)
(***************************************************************************)
EXTENDS RoomSessionLife, InputGate, Heartbeat, LatestSnapshotBuffer, RoomScheduler,
        GuestAccessLife, AccountAccess, Friendships, PongMatch, Deployment

VARIABLE part  \* the part that moves

Parts == {"session", "gate", "heartbeat", "snapshots", "scheduler", "guests",
          "accounts", "friendships", "match", "deployment"}

PartsInit ==
  /\ part \in Parts
  /\ Init /\ GateInit /\ BeatInit /\ SnapInit /\ SchedInit /\ GuestInit /\ AccessInit
  /\ MatchInit /\ DeployInit
  /\ part = "friendships" \/ (part # "friendships" /\ friendships = <<>>)
  /\ FriendsInit

\* p rests, or moves as moves says.
Part(p, moves, itsVars) == IF part = p THEN moves ELSE UNCHANGED itsVars

PartsNext ==
  /\ part' = part
  /\ Part("session", Next, vars)
  /\ Part("gate", GateNext, gateVars)
  /\ Part("heartbeat", BeatNext, beatVars)
  /\ Part("snapshots", SnapNext, snapVars)
  /\ Part("scheduler", SchedNext, schedVars)
  /\ Part("guests", GuestNext, guestVars)
  /\ Part("accounts", AccessNext, accessVars)
  /\ Part("friendships", FriendsNext, friendVars)
  /\ Part("match", MatchNext, matchVars)
  /\ Part("deployment", DeployNext, deployVars)

PartsSpec ==
  /\ PartsInit
  /\ [][PartsNext]_<<part, vars, gateVars, beatVars, snapVars, schedVars, guestVars, accessVars,
                    friendVars, matchVars, deployVars>>

\* The types of all parts.
PartsTypeOK ==
  /\ TypeOK /\ GateTypeOK /\ BeatTypeOK /\ SnapTypeOK /\ SchedTypeOK /\ TicketsAgree
  /\ AccessTypeOK /\ FriendsTypeOK /\ DeployTypeOK
=============================================================================
