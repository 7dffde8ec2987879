------------------------------ MODULE EntryProofs ------------------------------
(***************************************************************************)
(* What Entry promises for any number of tabs, users, attempts and faults: *)
(* a tab has one socket, the leases are those of the sockets the hub knows,*)
(* and who shows a match plays it.                                         *)
(***************************************************************************)
EXTENDS Entry, FiniteSetTheorems, TLAPS

\* As Tab, whatever attempts there are.
TabRecord == [page : [status : Statuses, room : BOOLEAN], seen : {"startable", "room", "other"},
              current : Nat, timer : BOOLEAN, window : {"none", "open", "over"}]

EntryTyped ==
  /\ demo \in BOOLEAN /\ owner \in [Tabs -> Users]
  /\ tab \in [Tabs -> TabRecord]
  /\ att \in Seq(Attempt)
  /\ hub \in [Users -> Nat]
  /\ seat \in [Users -> Seats]

Early == {"requesting", "granted", "refused"}
Wired == {"connecting", "open"}

\* Of an attempt: the hub does not know it yet.  Of a seat: in a match that is
\* shown to the player.
Unheard == {"none", "coming", "admitted"}
Playing == {"held", "ending"}

\* The attempt the tab is still interested in.
Live(a) == att[a].fresh /\ att[a].stage # "closed"

\* The browser: a tab pursues one attempt, or waits for its timer, and the
\* sockets under way are the current ones.
TabsInv ==
  /\ \A a \in Attempts : att[a].stage \in Wired => isCurrent(a)
  /\ \A t \in Tabs :
       /\ tab[t].current # NoAttempt =>
            /\ tab[t].current \in Attempts
            /\ att[tab[t].current].tab = t /\ att[tab[t].current].stage \in Wired
       /\ tab[t].timer => \A a \in Attempts : att[a].tab = t => ~Live(a)
       /\ tab[t].page.status = "inRoom" =>
            /\ tab[t].current # NoAttempt
            /\ att[tab[t].current].server \notin Unheard
  /\ \A a, b \in Attempts : Live(a) /\ Live(b) /\ att[a].tab = att[b].tab => a = b

\* The server: the hub knows the sockets registered with it, each under its
\* user, and a seat is held or waited for by a user who is connected.
SocketsInv ==
  /\ \A a \in Attempts :
       /\ att[a].stage \in Early => att[a].server = "none"
       /\ att[a].server \in Unheard => att[a].inbox = <<>>
       /\ att[a].server = "registered" <=> hub[UserOf(a)] = a
       /\ att[a].server = "admitted" => ~demo
  /\ \A u \in Users :
       /\ hub[u] # NoAttempt => hub[u] \in Attempts /\ UserOf(hub[u]) = u
       /\ seat[u] \in {"queued", "held", "ending"} => hub[u] # NoAttempt
       /\ seat[u] = "reserved" => hub[u] = NoAttempt

\* Who shows a match has a seat in it, or was sent a snapshot too late.
Plays(a) == seat[UserOf(a)] \in Playing \/ att[a].late

NewsInv ==
  \A a \in Attempts :
    /\ att[a].stage \in Wired /\ att[a].server = "registered" /\ ~att[a].cut
    /\ ShowsMatch(tab[att[a].tab].page, att[a].inbox)
    => Plays(a)

LeaseInv ==
  /\ LeaseFollowsSocket
  /\ IsFiniteSet(DOMAIN connections)
  /\ \A u \in DOMAIN connections : DOMAIN connections[u] = {"ip", "leaseId"}

EntryInv == EntryTyped /\ TabsInv /\ SocketsInv /\ NewsInv /\ LeaseInv

-----------------------------------------------------------------------------
(* Facts about attempts.                                                   *)

LEMMA AttemptsAre ==
  ASSUME att \in Seq(Attempt)
  PROVE  /\ Len(att) \in Nat /\ Attempts = 1..Len(att)
         /\ Attempts \subseteq Nat /\ NoAttempt \notin Attempts
         /\ \A a \in Attempts : att[a] \in Attempt /\ att[a].tab \in Tabs
<1>1. Len(att) \in Nat /\ DOMAIN att = 1..Len(att) /\ \A a \in 1..Len(att) : att[a] \in Attempt
  OBVIOUS
<1>2. \A r \in Attempt : r.tab \in Tabs
  BY DEF Attempt
<1> QED BY <1>1, <1>2 DEF Attempts, NoAttempt

\* The attempts changed one by one.
LEMMA ChangedIs ==
  ASSUME att \in Seq(Attempt), NEW f, DOMAIN f = Attempts, f = [a \in Attempts |-> f[a]],
         \A a \in Attempts : f[a] \in Attempt
  PROVE  f \in Seq(Attempt)
<1>1. Len(att) \in Nat /\ Attempts = 1..Len(att)
  BY AttemptsAre
<1>2. f \in [1..Len(att) -> Attempt]
  BY <1>1
<1> QED BY <1>1, <1>2

LEMMA FinishedIs ==
  ASSUME NEW t \in Tabs
  PROVE  /\ Finished(t) \in Attempt
         /\ Finished(t).tab = t /\ ~Finished(t).fresh /\ Finished(t).stage = "closed"
         /\ Finished(t).server = "closed" /\ Finished(t).inbox = <<>> /\ ~Finished(t).cut
BY DEF Finished, Attempt, Messages

\* What is left of an attempt that is settled.
LEMMA SettledIs ==
  ASSUME NEW r \in Attempt
  PROVE  /\ Settled(r) \in Attempt
         /\ Settled(r).tab = r.tab /\ Settled(r).stage = r.stage
         /\ Settled(r).server = r.server
              \/ (r.stage = "closed" /\ r.server \in {"none", "coming"} /\ Settled(r).server = "closed")
         /\ r.server \notin {"none", "coming"} => Settled(r).server = r.server
         /\ r.stage = "closed" => ~Settled(r).fresh /\ Settled(r).inbox = <<>>
         /\ r.stage # "closed" => Settled(r) = r
<1>1. r.tab \in Tabs
  BY DEF Attempt
<1>2. CASE r.stage = "closed" /\ (r.server \in {"none", "closed"} \/ (r.server = "coming" /\ r.cut))
  <2>1. Settled(r) = Finished(r.tab)
    BY <1>2 DEF Settled
  <2> QED BY <1>1, <1>2, <2>1, FinishedIs
<1>3. CASE r.stage = "closed" /\ ~(r.server \in {"none", "closed"} \/ (r.server = "coming" /\ r.cut))
  <2> DEFINE joins == r.joins /\ ~r.cut
             f == Finished(r.tab)
             e == [f EXCEPT !.server = r.server, !.ticket = r.ticket, !.joins = joins]
  <2>1. Settled(r) = e
    BY <1>3 DEF Settled
  <2>2. joins \in BOOLEAN /\ f \in Attempt /\ f.tab = r.tab /\ ~f.fresh /\ f.stage = "closed" /\ f.inbox = <<>>
    BY <1>1, FinishedIs
  <2> HIDE DEF joins, f
  <2>3. /\ e \in Attempt /\ e.inbox = <<>> /\ ~e.fresh
        /\ e.tab = r.tab /\ e.stage = "closed" /\ e.server = r.server
    BY <2>2 DEF Attempt
  <2> HIDE DEF e
  <2> QED BY <1>3, <2>1, <2>3
<1>4. CASE r.stage # "closed"
  <2>1. Settled(r) = r
    BY <1>4 DEF Settled
  <2> QED BY <1>4, <2>1
<1> QED BY <1>2, <1>3, <1>4

-----------------------------------------------------------------------------
(* Steps that leave a part of the invariant alone.                         *)

\* The attempts keep their tabs and stay under way, or not; the tabs keep
\* their attempt and their timer, and show a match only if they did.
LEMMA TabsKept ==
  ASSUME TabsInv, EntryTyped, EntryTyped', Attempts' = Attempts,
         \A a \in Attempts :
           /\ att'[a].tab = att[a].tab
           /\ att'[a].stage \in Wired <=> att[a].stage \in Wired
           /\ att[a].stage \in Wired => (att'[a].fresh <=> att[a].fresh)
           /\ att'[a].fresh /\ att'[a].stage # "closed" => Live(a)
           /\ att[a].server \notin Unheard => att'[a].server \notin Unheard,
         \A t \in Tabs :
           /\ tab'[t].current = tab[t].current
           /\ tab'[t].timer => tab[t].timer
           /\ tab'[t].page.status = "inRoom" /\ tab[t].page.status # "inRoom" =>
                /\ tab[t].current # NoAttempt
                /\ att[tab[t].current].server \notin Unheard
  PROVE  TabsInv'
<1>0. \A a \in Attempts : att[a].tab \in Tabs
  BY AttemptsAre DEF EntryTyped
<1>1. (\A a \in Attempts : att[a].stage \in Wired => isCurrent(a))'
  BY <1>0 DEF TabsInv, isCurrent
<1>2. ASSUME NEW t \in Tabs
      PROVE  (/\ tab[t].current # NoAttempt =>
                   /\ tab[t].current \in Attempts
                   /\ att[tab[t].current].tab = t /\ att[tab[t].current].stage \in Wired
              /\ tab[t].timer => \A a \in Attempts : att[a].tab = t => ~Live(a)
              /\ tab[t].page.status = "inRoom" =>
                   /\ tab[t].current # NoAttempt
                   /\ att[tab[t].current].server \notin Unheard)'
  <2>1. tab'[t].current = tab[t].current
    OBVIOUS
  <2>2. tab[t].current # NoAttempt =>
          /\ tab[t].current \in Attempts
          /\ att[tab[t].current].tab = t /\ att[tab[t].current].stage \in Wired
    BY DEF TabsInv
  <2>3. tab[t].timer => \A a \in Attempts : att[a].tab = t => ~Live(a)
    BY DEF TabsInv
  <2>4. (tab[t].timer => \A a \in Attempts : att[a].tab = t => ~Live(a))'
    BY <2>3 DEF Live
  <2>5. tab'[t].page.status = "inRoom" =>
          /\ tab[t].current # NoAttempt
          /\ att[tab[t].current].server \notin Unheard
    BY DEF TabsInv
  <2> QED BY <2>1, <2>2, <2>4, <2>5
<1>3. (\A a, b \in Attempts : Live(a) /\ Live(b) /\ att[a].tab = att[b].tab => a = b)'
  BY DEF TabsInv, Live
<1> QED BY <1>1, <1>2, <1>3 DEF TabsInv

\* A seat is kept, given up, or taken by a user who is connected.
SeatsFollow ==
  \A u \in Users :
    \/ seat'[u] \in {seat[u], "none", "endingAway"}
    \/ (seat'[u] \in {"queued", "held", "ending"} /\ hub[u] # NoAttempt)

\* No attempt gets further at the server, and none starts anew.
SocketsSettle ==
  \A a \in Attempts :
    /\ att'[a].tab = att[a].tab
    /\ att'[a].server = att[a].server \/ (att[a].server \in {"none", "coming"} /\ att'[a].stage \notin Early
                                          /\ att'[a].server \notin {"admitted", "registered"})
    /\ att'[a].stage \in Early => att[a].stage \in Early
    /\ att[a].inbox = <<>> /\ att'[a].server \in Unheard => att'[a].inbox = <<>>

\* The server and its connections stay as they are, but for attempts nobody
\* heard of.
LEMMA SocketsMove ==
  ASSUME SocketsInv, EntryTyped, EntryTyped', UNCHANGED <<demo, owner, hub>>, Attempts' = Attempts,
         SeatsFollow,
         SocketsSettle
  PROVE  SocketsInv'
<1>0. \A a \in Attempts : UserOf(a)' = UserOf(a)
  BY DEF UserOf, SocketsSettle
<1>1. ASSUME NEW a \in Attempts
      PROVE  (/\ att[a].stage \in Early => att[a].server = "none"
              /\ att[a].server \in Unheard => att[a].inbox = <<>>
              /\ att[a].server = "registered" <=> hub[UserOf(a)] = a
              /\ att[a].server = "admitted" => ~demo)'
  <2>1. /\ att[a].stage \in Early => att[a].server = "none"
        /\ att[a].server \in Unheard => att[a].inbox = <<>>
        /\ att[a].server = "registered" <=> hub[UserOf(a)] = a
        /\ att[a].server = "admitted" => ~demo
    BY DEF SocketsInv
  <2>2. CASE att'[a].server = att[a].server
    BY <1>0, <2>1, <2>2 DEF SocketsSettle
  <2>3. CASE att[a].server \in {"none", "coming"} /\ att'[a].stage \notin Early
               /\ att'[a].server \notin {"admitted", "registered"}
    BY <1>0, <2>1, <2>3 DEF SocketsSettle, Unheard
  <2> QED BY <2>2, <2>3 DEF SocketsSettle
<1>2. ASSUME NEW u \in Users
      PROVE  (/\ hub[u] # NoAttempt => hub[u] \in Attempts /\ UserOf(hub[u]) = u
              /\ seat[u] \in {"queued", "held", "ending"} => hub[u] # NoAttempt
              /\ seat[u] = "reserved" => hub[u] = NoAttempt)'
  <2>1. /\ hub[u] # NoAttempt => hub[u] \in Attempts /\ UserOf(hub[u]) = u
        /\ seat[u] \in {"queued", "held", "ending"} => hub[u] # NoAttempt
        /\ seat[u] = "reserved" => hub[u] = NoAttempt
    BY DEF SocketsInv
  <2>2. hub[u] \in Attempts => UserOf(hub[u])' = UserOf(hub[u])
    BY DEF UserOf, SocketsSettle
  <2>3. \/ seat'[u] \in {seat[u], "none", "endingAway"}
        \/ (seat'[u] \in {"queued", "held", "ending"} /\ hub[u] # NoAttempt)
    BY DEF SeatsFollow
  <2>4. hub'[u] = hub[u] /\ Attempts' = Attempts
    OBVIOUS
  <2> QED BY <2>1, <2>2, <2>3, <2>4
<1> QED BY <1>1, <1>2 DEF SocketsInv

LEMMA SocketsKept ==
  ASSUME SocketsInv, EntryTyped, EntryTyped', UNCHANGED <<demo, owner, hub, seat>>, Attempts' = Attempts,
         SocketsSettle
  PROVE  SocketsInv'
<1>1. SeatsFollow
  BY DEF SeatsFollow
<1> QED BY <1>1, SocketsMove

\* Nobody is shown a match who was not, and nobody loses a seat.
LEMMA NewsKept ==
  ASSUME NewsInv, EntryTyped, Attempts' = Attempts, UNCHANGED owner,
         \A a \in Attempts :
           /\ att'[a].tab = att[a].tab
           /\ att'[a].stage \in Wired /\ att'[a].server = "registered" /\ ~att'[a].cut =>
                /\ att[a].stage \in Wired /\ att[a].server = "registered" /\ ~att[a].cut
                /\ att[a].late => att'[a].late
                /\ ShowsMatch(tab'[att[a].tab].page, att'[a].inbox)
                     => \/ ShowsMatch(tab[att[a].tab].page, att[a].inbox)
                        \/ seat'[UserOf(a)] \in Playing \/ att'[a].late,
         \A u \in Users : seat[u] \in Playing => seat'[u] \in Playing
  PROVE  NewsInv'
<1> SUFFICES ASSUME NEW a \in Attempts,
                    att'[a].stage \in Wired, att'[a].server = "registered", ~att'[a].cut,
                    ShowsMatch(tab'[att[a].tab].page, att'[a].inbox)
             PROVE  seat'[UserOf(a)] \in Playing \/ att'[a].late
  BY DEF NewsInv, UserOf, Plays
<1>1. att[a].tab \in Tabs /\ UserOf(a) \in Users
  BY AttemptsAre DEF EntryTyped, UserOf
<1> QED BY <1>1 DEF NewsInv, Plays

\* The leases stay where the connections stay.
LEMMA LeasesKept ==
  ASSUME LeaseInv, UNCHANGED <<demo, hub, connections>>
  PROVE  LeaseInv'
BY DEF LeaseInv, LeaseFollowsSocket, GuestsOfIp

\* A message is added to what is on its way to the user's socket.
LEMMA SendIs ==
  ASSUME EntryTyped, NEW u \in Users, NEW m \in Messages
  PROVE  /\ Send(u, m) \in Seq(Attempt) /\ DOMAIN Send(u, m) = Attempts
         /\ \A a \in Attempts :
              /\ Send(u, m)[a].tab = att[a].tab /\ Send(u, m)[a].stage = att[a].stage
              /\ Send(u, m)[a].fresh = att[a].fresh /\ Send(u, m)[a].server = att[a].server
              /\ Send(u, m)[a].cut = att[a].cut /\ Send(u, m)[a].late = att[a].late
              /\ Send(u, m)[a].inbox = IF a = hub[u] /\ att[a].stage # "closed" /\ ~att[a].cut
                                       THEN Append(att[a].inbox, m) ELSE att[a].inbox
<1> DEFINE with(r) == [r EXCEPT !.inbox = Append(@, m)]
<1>1. ASSUME NEW r \in Attempt
      PROVE  /\ with(r) \in Attempt
             /\ with(r).tab = r.tab /\ with(r).stage = r.stage /\ with(r).fresh = r.fresh
             /\ with(r).server = r.server /\ with(r).cut = r.cut /\ with(r).late = r.late
             /\ with(r).inbox = Append(r.inbox, m)
  <2>1. Append(r.inbox, m) \in Seq(Messages)
    BY DEF Attempt
  <2> QED BY <2>1 DEF Attempt
<1>2. \A a \in Attempts : att[a] \in Attempt
  BY AttemptsAre DEF EntryTyped
<1>3. \A a \in Attempts : Send(u, m)[a] = IF a = hub[u] /\ att[a].stage # "closed" /\ ~att[a].cut
                                          THEN with(att[a]) ELSE att[a]
  BY DEF Send
<1> HIDE DEF with
<1>4. DOMAIN Send(u, m) = Attempts /\ Send(u, m) = [a \in Attempts |-> Send(u, m)[a]]
  BY DEF Send
<1>5. \A a \in Attempts : Send(u, m)[a] \in Attempt
  BY <1>1, <1>2, <1>3
<1>6. Send(u, m) \in Seq(Attempt)
  BY <1>4, <1>5, ChangedIs DEF EntryTyped
<1>7. ASSUME NEW a \in Attempts
      PROVE  /\ Send(u, m)[a].tab = att[a].tab /\ Send(u, m)[a].stage = att[a].stage
             /\ Send(u, m)[a].fresh = att[a].fresh /\ Send(u, m)[a].server = att[a].server
             /\ Send(u, m)[a].cut = att[a].cut /\ Send(u, m)[a].late = att[a].late
             /\ Send(u, m)[a].inbox = IF a = hub[u] /\ att[a].stage # "closed" /\ ~att[a].cut
                                      THEN Append(att[a].inbox, m) ELSE att[a].inbox
  <2>1. CASE a = hub[u] /\ att[a].stage # "closed" /\ ~att[a].cut
    <3>1. att[a] \in Attempt /\ Send(u, m)[a] = with(att[a])
      BY <1>2, <1>3, <2>1
    <3> QED BY <1>1, <2>1, <3>1
  <2>2. CASE ~(a = hub[u] /\ att[a].stage # "closed" /\ ~att[a].cut)
    BY <1>3, <2>2
  <2> QED BY <2>1, <2>2
<1> QED BY <1>4, <1>6, <1>7

LEMMA LastSaid ==
  ASSUME NEW S, NEW s \in Seq(S), NEW m \in S, NEW page
  PROVE  ShowsMatch(page, Append(s, m)) <=> m \in {"room", "snapshot"}
<1>1. Append(s, m) # <<>> /\ Len(Append(s, m)) = Len(s) + 1 /\ Append(s, m)[Len(s) + 1] = m
  OBVIOUS
<1> QED BY <1>1 DEF ShowsMatch

LEMMA OneChanged ==
  ASSUME EntryTyped, NEW a \in Attempts, NEW e \in Attempt
  PROVE  /\ [att EXCEPT ![a] = e] \in Seq(Attempt) /\ DOMAIN [att EXCEPT ![a] = e] = Attempts
         /\ [att EXCEPT ![a] = e][a] = e
         /\ \A b \in Attempts \ {a} : [att EXCEPT ![a] = e][b] = att[b]
<1>1. att \in Seq(Attempt) /\ Attempts = DOMAIN att
  BY DEF EntryTyped, Attempts
<1> QED BY <1>1

-----------------------------------------------------------------------------
(* The actions, one by one.                                                *)

\* React renders, or the window for a reconnection is over: only the tab knows.
LEMMA TabOnly ==
  ASSUME EntryInv, NEW t \in Tabs, Render(t) \/ ReconnectWindowEnds(t)
  PROVE  EntryInv'
<1>1. tab[t] \in TabRecord /\ tab \in [Tabs -> TabRecord]
  BY DEF EntryInv, EntryTyped
<1>2. PICK e \in TabRecord : /\ tab' = [tab EXCEPT ![t] = e]
                       /\ e.page = tab[t].page /\ e.current = tab[t].current /\ e.timer = tab[t].timer
                       /\ UNCHANGED <<demo, owner, att, hub, seat, recent, connections, faults>>
  <2>1. CASE Render(t)
    <3>1. Shown(tab[t].page) \in {"startable", "room", "other"}
      BY DEF Shown
    <3> DEFINE e == [tab[t] EXCEPT !.seen = Shown(tab[t].page)]
    <3>2. e \in TabRecord /\ e.page = tab[t].page /\ e.current = tab[t].current /\ e.timer = tab[t].timer
      BY <1>1, <3>1 DEF TabRecord
    <3> QED BY <2>1, <3>2 DEF Render
  <2>2. CASE ReconnectWindowEnds(t)
    <3> DEFINE e == [tab[t] EXCEPT !.window = "over"]
    <3>1. e \in TabRecord /\ e.page = tab[t].page /\ e.current = tab[t].current /\ e.timer = tab[t].timer
      BY <1>1 DEF TabRecord
    <3> QED BY <2>2, <3>1 DEF ReconnectWindowEnds
  <2> QED BY <2>1, <2>2
<1>3. \A s \in Tabs : tab'[s].page = tab[s].page /\ tab'[s].current = tab[s].current /\ tab'[s].timer = tab[s].timer
  BY <1>1, <1>2
<1>4. EntryTyped' /\ Attempts' = Attempts
  BY <1>1, <1>2 DEF EntryInv, EntryTyped, Attempts
<1>5. TabsInv'
  BY <1>2, <1>3, <1>4, TabsKept DEF EntryInv, Live
<1>6. SocketsInv'
  BY <1>2, <1>4, SocketsKept DEF EntryInv, SocketsSettle
<1>7. \A a \in Attempts : att[a].tab \in Tabs
  BY AttemptsAre DEF EntryInv, EntryTyped
<1>8. NewsInv'
  BY <1>2, <1>3, <1>4, <1>7, NewsKept DEF EntryInv
<1> QED BY <1>2, <1>4, <1>5, <1>6, <1>8, LeasesKept DEF EntryInv

\* What every action that leaves the tabs alone needs to know of the attempts.
LEMMA AttemptsTyped ==
  ASSUME EntryInv, UNCHANGED <<demo, owner, tab>>, hub' \in [Users -> Nat],
         seat' \in [Users -> Seats],
         att' \in Seq(Attempt), DOMAIN att' = Attempts
  PROVE  EntryTyped' /\ Attempts' = Attempts
BY DEF EntryInv, EntryTyped, Attempts

\* A ticket is issued or refused, and the guest's previous one is void.
LEMMA TicketIssued ==
  ASSUME EntryInv, NEW a \in Attempts, IssueTicket(a)
  PROVE  EntryInv'
<1>1. att[a].stage = "requesting" /\ UNCHANGED <<demo, owner, tab, hub, seat, recent, connections, faults>>
  BY DEF IssueTicket
<1>2. \A b \in Attempts : att[b] \in Attempt
  BY AttemptsAre DEF EntryInv, EntryTyped
<1> DEFINE granted(r) == [r EXCEPT !.stage = "granted", !.ticket = "valid"]
           voided(r) == [r EXCEPT !.ticket = "void"]
           refused(r) == [r EXCEPT !.stage = "refused"]
           same(r, e) == /\ e \in Attempt /\ e.tab = r.tab /\ e.fresh = r.fresh /\ e.server = r.server
                         /\ e.inbox = r.inbox /\ e.cut = r.cut /\ e.late = r.late
<1>3. \A r \in Attempt : /\ same(r, granted(r)) /\ granted(r).stage = "granted"
                         /\ same(r, voided(r)) /\ voided(r).stage = r.stage
                         /\ same(r, refused(r)) /\ refused(r).stage = "refused"
  <2> TAKE r \in Attempt
  <2>1. same(r, granted(r)) /\ granted(r).stage = "granted"
    BY DEF Attempt
  <2>2. same(r, voided(r)) /\ voided(r).stage = r.stage
    BY DEF Attempt
  <2>3. same(r, refused(r)) /\ refused(r).stage = "refused"
    BY DEF Attempt
  <2> HIDE DEF granted, voided, refused, same
  <2> QED BY <2>1, <2>2, <2>3
<1>4. /\ att' \in Seq(Attempt) /\ DOMAIN att' = Attempts
      /\ \A b \in Attempts : /\ same(att[b], att'[b])
                             /\ att'[b].stage = att[b].stage \/ (b = a /\ att'[b].stage \in {"granted", "refused"})
  <2>1. CASE att' = [att EXCEPT ![a].stage = "refused"]
    <3>1. att' = [att EXCEPT ![a] = refused(att[a])]
      BY <2>1
    <3> HIDE DEF refused
    <3>2. same(att[a], refused(att[a])) /\ refused(att[a]).stage = "refused"
      BY <1>2, <1>3
    <3>3. \A b \in Attempts : same(att[b], att[b])
      BY <1>2
    <3> QED BY <3>1, <3>2, <3>3, OneChanged DEF EntryInv
  <2>2. CASE att' = [b \in Attempts |->
               IF b = a THEN granted(att[b])
               ELSE IF demo /\ UserOf(b) = UserOf(a) /\ att[b].ticket = "valid" THEN voided(att[b])
               ELSE att[b]]
    <3> HIDE DEF granted, voided, refused
    <3>1. ASSUME NEW b \in Attempts
          PROVE  /\ same(att[b], att'[b])
                 /\ att'[b].stage = att[b].stage \/ (b = a /\ att'[b].stage \in {"granted", "refused"})
      <4>1. att'[b] \in {granted(att[b]), voided(att[b]), att[b]} /\ (att'[b] = granted(att[b]) => b = a \/ att'[b] = voided(att[b]) \/ att'[b] = att[b])
        BY <2>2
      <4> QED BY <1>2, <1>3, <4>1
    <3>2. att' \in Seq(Attempt)
      BY <2>2, <3>1, ChangedIs DEF EntryInv, EntryTyped
    <3> QED BY <2>2, <3>1, <3>2
  <2> QED BY <2>1, <2>2 DEF IssueTicket
<1> HIDE DEF granted, voided, refused
<1>5. EntryTyped' /\ Attempts' = Attempts
  BY <1>1, <1>4, AttemptsTyped DEF EntryInv, EntryTyped
<1>6. \A b \in Attempts : /\ att'[b].stage \in Wired <=> att[b].stage \in Wired
                          /\ att'[b].stage \in Early <=> att[b].stage \in Early
                          /\ att'[b].stage = "closed" <=> att[b].stage = "closed"
  BY <1>1, <1>4 DEF Wired, Early
<1>7. TabsInv'
  BY <1>1, <1>4, <1>5, <1>6, TabsKept DEF EntryInv, Live
<1>8. SocketsInv'
  BY <1>1, <1>4, <1>5, <1>6, SocketsKept DEF EntryInv, SocketsSettle
<1>9. NewsInv'
  BY <1>1, <1>4, <1>5, <1>6, NewsKept DEF EntryInv
<1> QED BY <1>1, <1>5, <1>7, <1>8, <1>9, LeasesKept DEF EntryInv

\* At the door: the socket is turned away, or its connection is cut.
LEMMA TurnedAway ==
  ASSUME EntryInv, NEW a \in Attempts, (AtTheDoor(a) /\ Rejected(a)) \/ Cut(a)
  PROVE  EntryInv'
<1>1. UNCHANGED <<demo, owner, tab, hub, seat, recent, connections>>
  BY DEF Rejected, Cut
<1>2. \A b \in Attempts : att[b] \in Attempt
  BY AttemptsAre DEF EntryInv, EntryTyped
<1>3. PICK e \in Attempt :
        /\ att' = [att EXCEPT ![a] = e]
        /\ e.tab = att[a].tab /\ e.fresh = att[a].fresh /\ e.stage = att[a].stage
        /\ e.stage \notin Early
        /\ \/ e.server = "closing" /\ att[a].server = "coming"
           \/ e.server = att[a].server /\ e.cut /\ e.inbox = <<>>
  <2>1. CASE AtTheDoor(a) /\ Rejected(a)
    <3> DEFINE e == [att[a] EXCEPT !.server = "closing", !.ticket = "none"]
    <3>1. /\ e \in Attempt /\ e.tab = att[a].tab /\ e.fresh = att[a].fresh /\ e.stage = att[a].stage
          /\ e.server = "closing"
      BY <1>2 DEF Attempt
    <3>2. att' = [att EXCEPT ![a] = e] /\ att[a].server = "coming"
      BY <2>1 DEF AtTheDoor, Rejected
    <3>3. att[a].stage \notin Early
      BY <3>2 DEF EntryInv, SocketsInv
    <3> HIDE DEF e
    <3> QED BY <3>1, <3>2, <3>3
  <2>2. CASE Cut(a)
    <3> DEFINE e == [att[a] EXCEPT !.cut = TRUE, !.inbox = <<>>, !.waiting = FALSE, !.joins = FALSE]
    <3>0. <<>> \in Seq(Messages)
      OBVIOUS
    <3>1. /\ e \in Attempt /\ e.tab = att[a].tab /\ e.fresh = att[a].fresh /\ e.stage = att[a].stage
          /\ e.server = att[a].server /\ e.cut /\ e.inbox = <<>>
      BY <1>2, <3>0 DEF Attempt
    <3>2. att' = [att EXCEPT ![a] = e] /\ att[a].stage \notin Early
      BY <2>2 DEF Cut, Early
    <3> HIDE DEF e
    <3> QED BY <3>1, <3>2
  <2> QED BY <2>1, <2>2
<1>4. /\ att' \in Seq(Attempt) /\ DOMAIN att' = Attempts /\ att'[a] = e
      /\ \A b \in Attempts \ {a} : att'[b] = att[b]
  BY <1>3, OneChanged DEF EntryInv
<1>5. EntryTyped' /\ Attempts' = Attempts
  BY <1>1, <1>4, AttemptsTyped DEF EntryInv, EntryTyped
<1>6. \A b \in Attempts : /\ att'[b].tab = att[b].tab /\ att'[b].stage = att[b].stage
                          /\ att'[b].fresh = att[b].fresh
  BY <1>3, <1>4
<1>7. TabsInv'
  <2>1. \A b \in Attempts : att[b].server \notin Unheard => att'[b].server \notin Unheard
    BY <1>3, <1>4 DEF Unheard
  <2> QED BY <1>1, <1>5, <1>6, <2>1, TabsKept DEF EntryInv, Live
<1>8. SocketsInv'
  <2>1. SocketsSettle
    BY <1>3, <1>4, <1>6 DEF SocketsSettle, Unheard
  <2> QED BY <1>1, <1>5, <2>1, SocketsKept DEF EntryInv
<1>9. NewsInv'
  <2>1. \A b \in Attempts : att'[b].server = "registered" /\ ~att'[b].cut => att'[b] = att[b]
    BY <1>3, <1>4
  <2> QED BY <1>1, <1>5, <1>6, <2>1, NewsKept DEF EntryInv
<1> QED BY <1>1, <1>5, <1>7, <1>8, <1>9, LeasesKept DEF EntryInv

\* The upgrade of a socket that was given up is lost; nobody heard of it.
LEMMA LostOnTheWay ==
  ASSUME EntryInv, NEW a \in Attempts, UpgradeLost(a)
  PROVE  EntryInv'
<1>1. /\ UNCHANGED <<demo, owner, tab, hub, seat, recent, connections>>
      /\ att[a].stage = "closed" /\ att[a].server = "coming"
      /\ att' = [att EXCEPT ![a] = Finished(att[a].tab)]
  BY DEF UpgradeLost
<1> DEFINE e == Finished(att[a].tab)
<1>2. /\ e \in Attempt /\ e.tab = att[a].tab /\ ~e.fresh /\ e.stage = "closed"
      /\ e.server = "closed" /\ e.inbox = <<>>
  BY AttemptsAre, FinishedIs DEF EntryInv, EntryTyped
<1> HIDE DEF e
<1>3. /\ att' \in Seq(Attempt) /\ DOMAIN att' = Attempts /\ att'[a] = e
      /\ \A b \in Attempts \ {a} : att'[b] = att[b]
  BY <1>1, <1>2, OneChanged DEF EntryInv, e
<1>4. EntryTyped' /\ Attempts' = Attempts
  BY <1>1, <1>3, AttemptsTyped DEF EntryInv, EntryTyped
<1>5. "closed" \notin Wired /\ "closed" \notin Early
  BY DEF Wired, Early
<1>6. TabsInv'
  <2>1. \A b \in Attempts :
           /\ att'[b].tab = att[b].tab /\ att'[b].stage = att[b].stage
           /\ att[b].stage # "closed" => (att'[b].fresh <=> att[b].fresh)
           /\ att'[b].fresh /\ att'[b].stage # "closed" => Live(b)
           /\ att[b].server \notin Unheard => att'[b].server \notin Unheard
    BY <1>1, <1>2, <1>3 DEF Live, Unheard
  <2> QED BY <1>1, <1>4, <1>5, <2>1, TabsKept DEF EntryInv
<1>7. SocketsInv'
  <2>1. SocketsSettle
    BY <1>1, <1>2, <1>3, <1>5 DEF SocketsSettle, Unheard
  <2> QED BY <1>1, <1>4, <2>1, SocketsKept DEF EntryInv
<1>8. NewsInv'
  <2>1. \A b \in Attempts : /\ att'[b].tab = att[b].tab
                            /\ att'[b].server = "registered" => att'[b] = att[b]
    BY <1>2, <1>3
  <2> QED BY <1>1, <1>4, <2>1, NewsKept DEF EntryInv
<1> QED BY <1>1, <1>4, <1>6, <1>7, <1>8, LeasesKept DEF EntryInv

\* A registered user's ticket is used up; nobody hears of the socket yet.
LEMMA TicketConsumed ==
  ASSUME EntryInv, NEW a \in Attempts, ConsumeTicket(a)
  PROVE  EntryInv'
<1>1. CASE Rejected(a)
  BY <1>1, TurnedAway DEF ConsumeTicket
<1>2. CASE ~Rejected(a)
  <2>1. /\ UNCHANGED <<demo, owner, tab, hub, seat, recent, connections>>
        /\ ~demo /\ att[a].server = "coming"
        /\ att' = [att EXCEPT ![a] = [att[a] EXCEPT !.server = "admitted", !.ticket = "none"]]
    BY <1>2 DEF ConsumeTicket, AtTheDoor
  <2> DEFINE e == [att[a] EXCEPT !.server = "admitted", !.ticket = "none"]
  <2>2. \A b \in Attempts : att[b] \in Attempt
    BY AttemptsAre DEF EntryInv, EntryTyped
  <2>3. /\ e \in Attempt /\ e.tab = att[a].tab /\ e.fresh = att[a].fresh /\ e.stage = att[a].stage
        /\ e.server = "admitted" /\ e.inbox = att[a].inbox
    BY <2>2 DEF Attempt
  <2> HIDE DEF e
  <2>4. /\ att' \in Seq(Attempt) /\ DOMAIN att' = Attempts /\ att'[a] = e
        /\ \A b \in Attempts \ {a} : att'[b] = att[b]
    BY <2>1, <2>3, OneChanged DEF EntryInv, e
  <2>5. EntryTyped' /\ Attempts' = Attempts
    BY <2>1, <2>4, AttemptsTyped DEF EntryInv, EntryTyped
  <2>6. \A b \in Attempts : /\ att'[b].tab = att[b].tab /\ att'[b].stage = att[b].stage
                            /\ att'[b].fresh = att[b].fresh
    BY <2>3, <2>4
  <2>7. TabsInv'
    <3>1. \A b \in Attempts : att[b].server \notin Unheard => att'[b].server \notin Unheard
      BY <2>1, <2>4 DEF Unheard
    <3> QED BY <2>1, <2>5, <2>6, <3>1, TabsKept DEF EntryInv, Live
  <2>8. SocketsInv'
    <3>1. ASSUME NEW b \in Attempts
          PROVE  (/\ att[b].stage \in Early => att[b].server = "none"
                  /\ att[b].server \in Unheard => att[b].inbox = <<>>
                  /\ att[b].server = "registered" <=> hub[UserOf(b)] = b
                  /\ att[b].server = "admitted" => ~demo)'
      <4>1. UserOf(b)' = UserOf(b)
        BY <2>1, <2>6 DEF UserOf
      <4>2. /\ att[b].stage \in Early => att[b].server = "none"
            /\ att[b].server \in Unheard => att[b].inbox = <<>>
            /\ att[b].server = "registered" <=> hub[UserOf(b)] = b
            /\ att[b].server = "admitted" => ~demo
        BY DEF EntryInv, SocketsInv
      <4>3. CASE b = a
        BY <2>1, <2>3, <2>4, <4>1, <4>2, <4>3 DEF Early, Unheard
      <4>4. CASE b # a
        BY <2>1, <2>4, <4>1, <4>2, <4>4
      <4> QED BY <4>3, <4>4
    <3>2. \A u \in Users : hub[u] \in Attempts => UserOf(hub[u])' = UserOf(hub[u])
      BY <2>1, <2>6 DEF UserOf
    <3> QED BY <2>1, <2>5, <3>1, <3>2 DEF EntryInv, SocketsInv
  <2>9. NewsInv'
    <3>1. \A b \in Attempts : att'[b].server = "registered" => att'[b] = att[b]
      BY <2>3, <2>4
    <3> QED BY <2>1, <2>5, <2>6, <3>1, NewsKept DEF EntryInv
  <2> QED BY <2>1, <2>5, <2>7, <2>8, <2>9, LeasesKept DEF EntryInv
<1> QED BY <1>1, <1>2

\* The hub knows of a socket only when it is registered; the user of the socket
\* it tells something is the one it means.
LEMMA HubOf ==
  ASSUME EntryInv, NEW u \in Users, NEW a \in Attempts, a = hub[u]
  PROVE  UserOf(a) = u /\ att[a].server = "registered" /\ a # NoAttempt
BY AttemptsAre DEF EntryInv, EntryTyped, SocketsInv

\* What is said about a match to a user who has a seat from then on, or whose
\* last word is another.
LEMMA Said ==
  ASSUME EntryInv, NEW u \in Users, NEW m \in Messages,
         UNCHANGED <<demo, owner, tab, hub, connections>>,
         seat' \in [Users -> Seats],
         \A v \in Users \ {u} : seat'[v] = seat[v],
         seat'[u] \in {seat[u], "none"} \/ (seat'[u] = "held" /\ hub[u] # NoAttempt),
         m \in {"room", "snapshot"} => seat'[u] \in Playing,
         att' \in Seq(Attempt), DOMAIN att' = Attempts,
         \A b \in Attempts :
           /\ att'[b].tab = att[b].tab /\ att'[b].stage = att[b].stage
           /\ att'[b].fresh = att[b].fresh /\ att'[b].server = att[b].server
           /\ att'[b].cut = att[b].cut /\ att'[b].late = att[b].late
           /\ att'[b].inbox = Send(u, m)[b].inbox
  PROVE  EntryInv'
<1>1. \A b \in Attempts : att'[b].inbox = IF b = hub[u] /\ att[b].stage # "closed" /\ ~att[b].cut
                                          THEN Append(att[b].inbox, m) ELSE att[b].inbox
  BY SendIs DEF EntryInv
<1>2. EntryTyped' /\ Attempts' = Attempts
  BY AttemptsTyped DEF EntryInv, EntryTyped
<1>3. TabsInv'
  BY <1>2, TabsKept DEF EntryInv, Live
<1>4. SocketsInv'
  <2>1. \A b \in Attempts : att[b].inbox = <<>> /\ att[b].server \in Unheard => att'[b].inbox = <<>>
    BY <1>1, HubOf DEF Unheard
  <2> QED BY <1>2, <2>1, SocketsMove DEF EntryInv, SeatsFollow, SocketsSettle
<1>5. NewsInv'
  <2> SUFFICES ASSUME NEW b \in Attempts,
                      att'[b].stage \in Wired, att'[b].server = "registered", ~att'[b].cut,
                      ShowsMatch(tab[att[b].tab].page, att'[b].inbox)
               PROVE  seat'[UserOf(b)] \in Playing \/ att'[b].late
    BY <1>2 DEF NewsInv, UserOf, Plays
  <2>1. UserOf(b) \in Users /\ att[b] \in Attempt
    BY AttemptsAre DEF EntryInv, EntryTyped, UserOf
  <2>2. hub[UserOf(b)] = b
    BY DEF EntryInv, SocketsInv
  <2>3. CASE UserOf(b) = u
    <3>1. att'[b].inbox = Append(att[b].inbox, m)
      BY <1>1, <2>2, <2>3 DEF Wired
    <3>2. att[b].inbox \in Seq(Messages)
      BY <2>1 DEF Attempt
    <3>3. m \in {"room", "snapshot"}
      BY <3>1, <3>2, LastSaid
    <3> QED BY <2>3, <3>3
  <2>4. CASE UserOf(b) # u
    <3>1. b # hub[u]
      BY <2>4, HubOf
    <3>2. att'[b].inbox = att[b].inbox
      BY <1>1, <3>1
    <3> QED BY <2>1, <2>4, <3>2 DEF EntryInv, NewsInv, Plays
  <2> QED BY <2>3, <2>4
<1> QED BY <1>2, <1>3, <1>4, <1>5, LeasesKept DEF EntryInv

LEMMA MatchSays ==
  ASSUME EntryInv, NEW u \in Users,
         MatchFound(u) \/ GuestMatchEnds(u) \/ (ResultWritten(u) /\ seat[u] = "ending")
  PROVE  EntryInv'
<1>1. seat \in [Users -> Seats]
  BY DEF EntryInv, EntryTyped
<1>2. \A m \in Messages :
        /\ Send(u, m) \in Seq(Attempt) /\ DOMAIN Send(u, m) = Attempts
        /\ \A a \in Attempts :
              /\ Send(u, m)[a].tab = att[a].tab /\ Send(u, m)[a].stage = att[a].stage
              /\ Send(u, m)[a].fresh = att[a].fresh /\ Send(u, m)[a].server = att[a].server
              /\ Send(u, m)[a].cut = att[a].cut /\ Send(u, m)[a].late = att[a].late
  BY SendIs DEF EntryInv
<1>3. CASE MatchFound(u)
  <2>1. /\ att' = Send(u, "room") /\ seat' = [seat EXCEPT ![u] = "held"] /\ seat[u] = "queued"
        /\ UNCHANGED <<demo, owner, tab, hub, connections>>
    BY <1>3 DEF MatchFound
  <2>2. hub[u] # NoAttempt
    BY <2>1 DEF EntryInv, SocketsInv
  <2>3. seat' \in [Users -> Seats] /\ seat'[u] = "held"
        /\ \A v \in Users \ {u} : seat'[v] = seat[v]
    BY <1>1, <2>1 DEF Seats
  <2>4. "room" \in Messages /\ "held" \in Playing
    BY DEF Messages, Playing
  <2> QED BY <1>2, <2>1, <2>2, <2>3, <2>4, Said
<1>4. CASE GuestMatchEnds(u) \/ (ResultWritten(u) /\ seat[u] = "ending")
  <2>1. /\ att' = Send(u, "finished") /\ seat' = [seat EXCEPT ![u] = "none"]
        /\ UNCHANGED <<demo, owner, tab, hub, connections>>
    BY <1>4 DEF GuestMatchEnds, ResultWritten
  <2>2. seat' \in [Users -> Seats] /\ seat'[u] = "none"
        /\ \A v \in Users \ {u} : seat'[v] = seat[v]
    BY <1>1, <2>1 DEF Seats
  <2>3. "finished" \in Messages /\ "finished" \notin {"room", "snapshot"}
    BY DEF Messages
  <2> QED BY <1>2, <2>1, <2>2, <2>3, Said
<1> QED BY <1>3, <1>4

\* A snapshot is added to what is on its way, unless it changes nothing there.
LEMMA WithIs ==
  ASSUME NEW page, NEW inbox \in Seq(Messages), NEW m \in Messages
  PROVE  With(page, inbox, m) \in Seq(Messages)
BY DEF With

\* A snapshot goes out or is held up: the attempt's user plays from then on, or
\* nothing new is shown, or the snapshot was late.
LEMMA SnapshotMoves ==
  ASSUME EntryInv, NEW a \in Attempts, NEW e \in Attempt, att' = [att EXCEPT ![a] = e],
         UNCHANGED <<demo, owner, tab, hub, seat, connections>>,
         att[a].server = "registered",
         e.tab = att[a].tab, e.stage = att[a].stage, e.fresh = att[a].fresh, e.cut = att[a].cut,
         e.server = "registered", att[a].late => e.late,
         e.inbox = att[a].inbox \/ seat[UserOf(a)] \in Playing \/ e.late
  PROVE  EntryInv'
<1>1. /\ att' \in Seq(Attempt) /\ DOMAIN att' = Attempts /\ att'[a] = e
      /\ \A b \in Attempts \ {a} : att'[b] = att[b]
  BY OneChanged DEF EntryInv
<1>2. EntryTyped' /\ Attempts' = Attempts
  BY <1>1, AttemptsTyped DEF EntryInv, EntryTyped
<1>3. \A b \in Attempts : /\ att'[b].tab = att[b].tab /\ att'[b].stage = att[b].stage
                          /\ att'[b].fresh = att[b].fresh /\ att'[b].server = att[b].server
                          /\ att'[b].cut = att[b].cut /\ (att[b].late => att'[b].late)
  BY <1>1
<1>4. TabsInv'
  BY <1>2, <1>3, TabsKept DEF EntryInv, Live
<1>5. SocketsInv'
  <2>1. SocketsSettle
    BY <1>1, <1>3 DEF SocketsSettle, Unheard
  <2> QED BY <1>2, <2>1, SocketsKept DEF EntryInv
<1>6. NewsInv'
  <2>1. \A b \in Attempts : att'[b].inbox = att[b].inbox \/ seat'[UserOf(b)] \in Playing \/ att'[b].late
    BY <1>1
  <2> QED BY <1>2, <1>3, <2>1, NewsKept DEF EntryInv
<1> QED BY <1>2, <1>4, <1>5, <1>6, LeasesKept DEF EntryInv

LEMMA SnapshotSent ==
  ASSUME EntryInv, NEW u \in Users, SendSnapshot(u)
  PROVE  EntryInv'
<1> DEFINE a == hub[u]
           news == With(tab[att[a].tab].page, att[a].inbox, "snapshot")
           sent == [att[a] EXCEPT !.inbox = news, !.waiting = FALSE]
           held == [att[a] EXCEPT !.waiting = TRUE]
<1>1. /\ seat[u] = "held" /\ a # NoAttempt /\ UNCHANGED <<demo, owner, tab, hub, seat, connections>>
      /\ att' = [att EXCEPT ![a] = sent] \/ att' = [att EXCEPT ![a] = held]
  BY DEF SendSnapshot
<1>2. a \in Attempts /\ UserOf(a) = u
  BY <1>1 DEF EntryInv, SocketsInv
<1>3. att[a] \in Attempt /\ att[a].server = "registered"
  BY <1>2, HubOf, AttemptsAre DEF EntryInv, EntryTyped
<1>4. news \in Seq(Messages)
  <2>1. "snapshot" \in Messages /\ att[a].inbox \in Seq(Messages)
    BY <1>3 DEF Messages, Attempt
  <2> QED BY <2>1, WithIs
<1>5. seat[UserOf(a)] \in Playing
  BY <1>1, <1>2 DEF Playing
<1> HIDE DEF a, news
<1>6. /\ sent \in Attempt /\ sent.tab = att[a].tab /\ sent.stage = att[a].stage /\ sent.fresh = att[a].fresh
      /\ sent.cut = att[a].cut /\ sent.server = "registered" /\ sent.late = att[a].late
  BY <1>3, <1>4 DEF Attempt
<1>7. /\ held \in Attempt /\ held.tab = att[a].tab /\ held.stage = att[a].stage /\ held.fresh = att[a].fresh
      /\ held.cut = att[a].cut /\ held.server = "registered" /\ held.late = att[a].late
  BY <1>3 DEF Attempt
<1> HIDE DEF sent, held
<1>8. CASE att' = [att EXCEPT ![a] = sent]
  BY <1>1, <1>2, <1>3, <1>5, <1>6, <1>8, SnapshotMoves
<1>9. CASE att' = [att EXCEPT ![a] = held]
  BY <1>1, <1>2, <1>3, <1>5, <1>7, <1>9, SnapshotMoves
<1> QED BY <1>1, <1>8, <1>9

LEMMA SnapshotComesLate ==
  ASSUME EntryInv, NEW a \in Attempts, SnapshotRetried(a)
  PROVE  EntryInv'
<1> DEFINE news == With(tab[att[a].tab].page, att[a].inbox, "snapshot")
           late == att[a].late \/ seat[UserOf(a)] \notin {"held", "ending"}
           e == [att[a] EXCEPT !.waiting = FALSE, !.inbox = news, !.late = late]
<1>1. /\ att' = [att EXCEPT ![a] = e] /\ UNCHANGED <<demo, owner, tab, hub, seat, connections>>
      /\ att[a].server = "registered"
  BY DEF SnapshotRetried
<1>2. att[a] \in Attempt
  BY AttemptsAre DEF EntryInv, EntryTyped
<1>3. news \in Seq(Messages)
  <2>1. "snapshot" \in Messages /\ att[a].inbox \in Seq(Messages)
    BY <1>2 DEF Messages, Attempt
  <2> QED BY <2>1, WithIs
<1>4. late \in BOOLEAN
  BY <1>2 DEF Attempt
<1>5. (att[a].late => late) /\ (seat[UserOf(a)] \in Playing \/ late)
  BY DEF Playing
<1> HIDE DEF news, late
<1>6. /\ e \in Attempt /\ e.tab = att[a].tab /\ e.stage = att[a].stage /\ e.fresh = att[a].fresh
      /\ e.cut = att[a].cut /\ e.server = "registered" /\ e.late = late
  BY <1>1, <1>2, <1>3, <1>4 DEF Attempt
<1> HIDE DEF e
<1> QED BY <1>1, <1>5, <1>6, SnapshotMoves

\* A match of registered users ends; its result is written later.
LEMMA Ended ==
  ASSUME EntryInv, NEW u \in Users, MatchEnds(u)
  PROVE  EntryInv'
<1> DEFINE after == IF seat[u] = "held" THEN "ending" ELSE "endingAway"
<1>1. /\ UNCHANGED <<demo, owner, tab, att, hub, connections>>
      /\ seat' = [seat EXCEPT ![u] = after] /\ seat[u] \in {"held", "reserved"}
      /\ seat \in [Users -> Seats]
  BY DEF MatchEnds, EntryInv, EntryTyped
<1>2. /\ after \in Seats /\ (seat[u] \in Playing => after \in Playing)
      /\ after = "endingAway" \/ (after = "ending" /\ hub[u] # NoAttempt)
  BY <1>1 DEF Seats, Playing, EntryInv, SocketsInv
<1> HIDE DEF after
<1>3. seat' \in [Users -> Seats] /\ seat'[u] = after /\ \A v \in Users \ {u} : seat'[v] = seat[v]
  BY <1>1, <1>2
<1>4. EntryTyped' /\ Attempts' = Attempts
  BY <1>1, <1>3 DEF EntryInv, EntryTyped, Attempts
<1>5. TabsInv'
  BY <1>1, <1>4, TabsKept DEF EntryInv, Live
<1>6. SocketsInv'
  <2>1. SeatsFollow /\ SocketsSettle
    BY <1>1, <1>2, <1>3 DEF SeatsFollow, SocketsSettle
  <2> QED BY <1>1, <1>4, <2>1, SocketsMove DEF EntryInv
<1>7. NewsInv'
  <2>1. \A v \in Users : seat[v] \in Playing => seat'[v] \in Playing
    BY <1>2, <1>3
  <2> QED BY <1>1, <1>4, <2>1, NewsKept DEF EntryInv
<1> QED BY <1>1, <1>4, <1>5, <1>6, <1>7, LeasesKept DEF EntryInv

\* A match nobody is at any more is dropped; the hub forgets old results.
LEMMA Dropped ==
  ASSUME EntryInv, NEW u \in Users,
         MatchAbandoned(u) \/ GuestResultExpires(u) \/ (ResultWritten(u) /\ seat[u] = "endingAway")
  PROVE  EntryInv'
<1>1. /\ seat \in [Users -> Seats]
      /\ \A a \in Attempts : att[a].tab \in Tabs /\ UserOf(a) \in Users
  BY AttemptsAre DEF EntryInv, EntryTyped, UserOf
<1>2. /\ UNCHANGED <<demo, owner, tab, att, hub, connections>>
      /\ seat' = seat \/ (seat' = [seat EXCEPT ![u] = "none"] /\ seat[u] \notin Playing)
  BY DEF MatchAbandoned, GuestResultExpires, ResultWritten, Playing
<1>3. /\ seat' \in [Users -> Seats]
      /\ \A v \in Users : seat'[v] = seat[v] \/ (seat'[v] = "none" /\ seat[v] \notin Playing)
  BY <1>1, <1>2 DEF Seats
<1>4. EntryTyped' /\ Attempts' = Attempts
  BY <1>2, <1>3 DEF EntryInv, EntryTyped, Attempts
<1>5. TabsInv'
  BY <1>2, <1>4, TabsKept DEF EntryInv, Live
<1>6. SocketsInv'
  BY <1>2, <1>3, <1>4, SocketsMove DEF EntryInv, SeatsFollow, SocketsSettle
<1>7. NewsInv'
  BY <1>2, <1>3, <1>4, NewsKept DEF EntryInv
<1> QED BY <1>2, <1>4, <1>5, <1>6, <1>7, LeasesKept DEF EntryInv

\* A wish to join the queue arrives: it is granted, or answered with an error.
LEMMA QueueJoined ==
  ASSUME EntryInv, NEW a \in Attempts, JoinQueue(a)
  PROVE  EntryInv'
<1> DEFINE u == UserOf(a)
<1>1. /\ seat \in [Users -> Seats]
      /\ u \in Users /\ hub[u] = a /\ a # NoAttempt
      /\ \A b \in Attempts : att[b] \in Attempt /\ att[b].tab \in Tabs /\ UserOf(b) \in Users
  BY AttemptsAre DEF EntryInv, EntryTyped, UserOf, JoinQueue
<1>2. /\ UNCHANGED <<demo, owner, tab, hub, connections>>
      /\ seat' = [seat EXCEPT ![u] = IF seat[u] = "none" THEN "queued" ELSE seat[u]]
      /\ \/ seat[u] = "none" /\ att' = [att EXCEPT ![a].joins = FALSE]
         \/ seat[u] # "none" /\ att' = [Send(u, "error") EXCEPT ![a].joins = FALSE]
  BY DEF JoinQueue
<1> HIDE DEF u
<1>3. \A r \in Attempt : LET e == [r EXCEPT !.joins = FALSE]
                         IN  /\ e \in Attempt /\ e.tab = r.tab /\ e.stage = r.stage /\ e.fresh = r.fresh
                             /\ e.server = r.server /\ e.cut = r.cut /\ e.inbox = r.inbox
                             /\ e.late = r.late
  BY DEF Attempt
<1>4. /\ seat' \in [Users -> Seats]
      /\ \A v \in Users \ {u} : seat'[v] = seat[v]
      /\ seat'[u] = IF seat[u] = "none" THEN "queued" ELSE seat[u]
  BY <1>1, <1>2 DEF Seats
<1>5. CASE seat[u] = "none"
  <2> DEFINE e == [att[a] EXCEPT !.joins = FALSE]
  <2>1. /\ e \in Attempt /\ e.tab = att[a].tab /\ e.stage = att[a].stage /\ e.fresh = att[a].fresh
        /\ e.server = att[a].server /\ e.cut = att[a].cut /\ e.inbox = att[a].inbox
        /\ e.late = att[a].late
    BY <1>1, <1>3
  <2>2. att' = [att EXCEPT ![a] = e]
    BY <1>2, <1>5
  <2> HIDE DEF e
  <2>3. /\ att' \in Seq(Attempt) /\ DOMAIN att' = Attempts
        /\ \A b \in Attempts :
             /\ att'[b].tab = att[b].tab /\ att'[b].stage = att[b].stage
             /\ att'[b].fresh = att[b].fresh /\ att'[b].server = att[b].server
             /\ att'[b].cut = att[b].cut /\ att'[b].inbox = att[b].inbox
             /\ att'[b].late = att[b].late
    BY <2>1, <2>2, OneChanged DEF EntryInv
  <2>4. EntryTyped' /\ Attempts' = Attempts
    BY <1>2, <1>4, <2>3, AttemptsTyped DEF EntryInv, EntryTyped
  <2>5. TabsInv'
    BY <1>2, <2>3, <2>4, TabsKept DEF EntryInv, Live
  <2>6. SeatsFollow /\ SocketsSettle
    BY <1>1, <1>2, <1>4, <2>3 DEF SeatsFollow, SocketsSettle
  <2>7. SocketsInv'
    BY <1>2, <2>4, <2>6, SocketsMove DEF EntryInv
  <2>8. \A v \in Users : seat[v] \in Playing => seat'[v] \in Playing
    BY <1>4, <1>5 DEF Playing
  <2>9. NewsInv'
    BY <1>1, <1>2, <2>3, <2>4, <2>8, NewsKept DEF EntryInv
  <2> QED BY <1>2, <2>4, <2>5, <2>7, <2>9, LeasesKept DEF EntryInv
<1>6. CASE seat[u] # "none"
  <2> DEFINE f == Send(u, "error")
             e == [f[a] EXCEPT !.joins = FALSE]
  <2>0. "error" \in Messages /\ "error" \notin {"room", "snapshot"}
    BY DEF Messages
  <2>1. /\ f \in Seq(Attempt) /\ DOMAIN f = Attempts
        /\ \A b \in Attempts :
              /\ f[b].tab = att[b].tab /\ f[b].stage = att[b].stage
              /\ f[b].fresh = att[b].fresh /\ f[b].server = att[b].server
              /\ f[b].cut = att[b].cut /\ f[b].late = att[b].late
    BY <1>1, <2>0, SendIs DEF EntryInv
  <2>2. att' = [f EXCEPT ![a] = e]
    BY <1>2, <1>6
  <2> HIDE DEF f
  <2>3. f[a] \in Attempt
    BY <2>1
  <2>4. /\ e \in Attempt /\ e.tab = f[a].tab /\ e.stage = f[a].stage /\ e.fresh = f[a].fresh
        /\ e.server = f[a].server /\ e.cut = f[a].cut /\ e.inbox = f[a].inbox
        /\ e.late = f[a].late
    BY <1>3, <2>3
  <2> HIDE DEF e
  <2>5. /\ att' \in Seq(Attempt) /\ DOMAIN att' = Attempts /\ att'[a] = e
        /\ \A b \in Attempts \ {a} : att'[b] = f[b]
    BY <2>1, <2>2, <2>4
  <2>6. \A b \in Attempts :
          /\ att'[b].tab = att[b].tab /\ att'[b].stage = att[b].stage
          /\ att'[b].fresh = att[b].fresh /\ att'[b].server = att[b].server
          /\ att'[b].cut = att[b].cut /\ att'[b].inbox = Send(u, "error")[b].inbox
          /\ att'[b].late = att[b].late
    BY <2>1, <2>4, <2>5 DEF f
  <2>7. seat'[u] \in {seat[u], "none"}
    BY <1>4, <1>6
  <2> QED BY <1>1, <1>2, <1>4, <2>0, <2>5, <2>6, <2>7, Said
<1> QED BY <1>5, <1>6

Page == [status : Statuses, room : BOOLEAN]

Events == Messages \cup {"connectStarted", "socketOpened", "socketReopened", "failed", "socketClosed"}

\* Only a message about a room shows a match.
LEMMA ReducedIs ==
  ASSUME NEW page \in Page, NEW event \in Events
  PROVE  /\ reduced(page, event) \in Page
         /\ reduced(page, event).status = "inRoom" <=> event \in {"room", "snapshot"}
<1> USE DEF Page, Statuses
<1>1. CASE event \in {"connectStarted", "room", "snapshot", "over", "finished"}
  BY <1>1 DEF reduced
<1>2. CASE event = "socketOpened"
  BY <1>2 DEF reduced
<1>3. CASE event = "socketReopened"
  BY <1>3 DEF reduced
<1>4. CASE event \in {"error", "failed"}
  BY <1>4 DEF reduced
<1>5. CASE event = "socketClosed"
  BY <1>5 DEF reduced
<1> QED BY <1>1, <1>2, <1>3, <1>4, <1>5 DEF Events, Messages

LEMMA DispatchIs ==
  ASSUME NEW tb \in TabRecord, NEW event \in Events
  PROVE  /\ dispatch(tb, event) \in TabRecord
         /\ dispatch(tb, event).page = reduced(tb.page, event)
         /\ dispatch(tb, event).page.status = "inRoom" <=> event \in {"room", "snapshot"}
         /\ dispatch(tb, event).current = tb.current /\ dispatch(tb, event).timer = tb.timer
         /\ dispatch(tb, event).window = tb.window /\ dispatch(tb, event).seen = tb.seen
<1>1. tb.page \in Page
  BY DEF TabRecord, Page
<1>2. reduced(tb.page, event) \in Page /\ (reduced(tb.page, event).status = "inRoom" <=> event \in {"room", "snapshot"})
  BY <1>1, ReducedIs
<1> DEFINE p == reduced(tb.page, event)
<1>3. dispatch(tb, event) = [tb EXCEPT !.page = p]
  BY DEF dispatch
<1> HIDE DEF p
<1>4. /\ [tb EXCEPT !.page = p] \in TabRecord /\ [tb EXCEPT !.page = p].page = p
      /\ [tb EXCEPT !.page = p].current = tb.current /\ [tb EXCEPT !.page = p].timer = tb.timer
      /\ [tb EXCEPT !.page = p].window = tb.window /\ [tb EXCEPT !.page = p].seen = tb.seen
  BY <1>2 DEF TabRecord, Page, p
<1> QED BY <1>2, <1>3, <1>4 DEF p

LEMMA ScheduleIs ==
  ASSUME NEW tb \in TabRecord
  PROVE  /\ scheduleReconnect(tb) \in TabRecord
         /\ scheduleReconnect(tb).current = tb.current
         /\ scheduleReconnect(tb).page.status = "inRoom" => tb.page.status = "inRoom"
<1>1. CASE tb.timer
  BY <1>1 DEF scheduleReconnect
<1>2. CASE ~tb.timer /\ tb.window = "over"
  <2>1. scheduleReconnect(tb) = dispatch(tb, "failed")
    BY <1>2 DEF scheduleReconnect
  <2>2. "failed" \in Events /\ "failed" \notin {"room", "snapshot"}
    BY DEF Events, Messages
  <2> QED BY <2>1, <2>2, DispatchIs
<1>3. CASE ~tb.timer /\ tb.window # "over"
  <2>1. scheduleReconnect(tb) = [tb EXCEPT !.timer = TRUE, !.window = "open"]
    BY <1>3 DEF scheduleReconnect
  <2> QED BY <2>1 DEF TabRecord
<1> QED BY <1>1, <1>2, <1>3

\* The attempt a tab pursues goes on or comes to its end.
LEMMA PursuedMoves ==
  ASSUME EntryInv, NEW a \in Attempts, Live(a), NEW e \in Attempt, NEW n \in TabRecord,
         att' = [att EXCEPT ![a] = e], tab' = [tab EXCEPT ![att[a].tab] = n],
         e.tab = att[a].tab,
         e.stage \in Wired => e.fresh /\ n.current = a /\ ~n.timer,
         e.stage \notin Wired => n.current = NoAttempt /\ ~(e.fresh /\ e.stage # "closed"),
         n.page.status = "inRoom" => n.current # NoAttempt /\ e.server \notin Unheard
  PROVE  TabsInv'
<1> DEFINE t == att[a].tab
<1>1. /\ t \in Tabs /\ tab \in [Tabs -> TabRecord] /\ NoAttempt \notin Attempts
      /\ \A b \in Attempts : att[b].tab \in Tabs
  BY AttemptsAre DEF EntryInv, EntryTyped
<1>2. /\ Attempts' = Attempts /\ att'[a] = e
      /\ \A b \in Attempts \ {a} : att'[b] = att[b]
  BY OneChanged DEF EntryInv, Attempts
<1>3. tab'[t] = n /\ \A s \in Tabs \ {t} : tab'[s] = tab[s]
  BY <1>1
<1>4. \A b \in Attempts : Live(b) /\ att[b].tab = t => b = a
  BY DEF EntryInv, TabsInv
<1>5. \A b \in Attempts : att[b].stage \in Wired => Live(b)
  BY DEF EntryInv, TabsInv, isCurrent, Live, Wired
<1>6. (\A b \in Attempts : att[b].stage \in Wired => isCurrent(b))'
  <2> SUFFICES ASSUME NEW b \in Attempts, att'[b].stage \in Wired
               PROVE  tab'[att'[b].tab].current = b /\ att'[b].fresh
    BY <1>2 DEF isCurrent
  <2>1. CASE b = a
    BY <1>2, <1>3, <2>1
  <2>2. CASE b # a
    <3>1. att'[b] = att[b] /\ att[b].tab # t
      BY <1>2, <1>4, <1>5, <2>2
    <3> QED BY <1>1, <1>3, <3>1 DEF EntryInv, TabsInv, isCurrent
  <2> QED BY <2>1, <2>2
<1>7. ASSUME NEW s \in Tabs
      PROVE  (/\ tab[s].current # NoAttempt =>
                   /\ tab[s].current \in Attempts
                   /\ att[tab[s].current].tab = s /\ att[tab[s].current].stage \in Wired
              /\ tab[s].timer => \A b \in Attempts : att[b].tab = s => ~Live(b)
              /\ tab[s].page.status = "inRoom" =>
                   /\ tab[s].current # NoAttempt
                   /\ att[tab[s].current].server \notin Unheard)'
  <2>1. CASE s = t
    <3>1. tab'[s] = n
      BY <1>3, <2>1
    <3>2. n.current # NoAttempt => n.current = a /\ e.stage \in Wired /\ ~n.timer
      OBVIOUS
    <3>3. n.timer => \A b \in Attempts : att'[b].tab = s => ~(att'[b].fresh /\ att'[b].stage # "closed")
      BY <1>2, <1>4, <2>1 DEF Live
    <3> QED BY <1>2, <2>1, <3>1, <3>2, <3>3 DEF Live
  <2>2. CASE s # t
    <3>1. tab'[s] = tab[s]
      BY <1>3, <2>2
    <3>2. /\ tab[s].current # NoAttempt =>
               /\ tab[s].current \in Attempts
               /\ att[tab[s].current].tab = s /\ att[tab[s].current].stage \in Wired
          /\ tab[s].timer => \A b \in Attempts : att[b].tab = s => ~Live(b)
          /\ tab[s].page.status = "inRoom" =>
               /\ tab[s].current # NoAttempt
               /\ att[tab[s].current].server \notin Unheard
      BY DEF EntryInv, TabsInv
    <3>3. \A b \in Attempts : att'[b].tab = s => b # a /\ att'[b] = att[b]
      BY <1>2, <2>2
    <3>4. tab[s].current # NoAttempt => tab[s].current # a
      BY <2>2, <3>2
    <3>5. tab[s].current # NoAttempt => att'[tab[s].current] = att[tab[s].current]
      BY <1>2, <3>2, <3>4
    <3>6. (tab[s].timer => \A b \in Attempts : att[b].tab = s => ~Live(b))'
      BY <1>2, <3>1, <3>2, <3>3 DEF Live
    <3> QED BY <1>2, <3>1, <3>2, <3>5, <3>6
  <2> QED BY <2>1, <2>2
<1>8. (\A b, c \in Attempts : Live(b) /\ Live(c) /\ att[b].tab = att[c].tab => b = c)'
  <2> SUFFICES ASSUME NEW b \in Attempts, NEW c \in Attempts,
                      att'[b].fresh, att'[b].stage # "closed", att'[c].fresh, att'[c].stage # "closed",
                      att'[b].tab = att'[c].tab
               PROVE  b = c
    BY <1>2 DEF Live
  <2>1. CASE b = a \/ c = a
    BY <1>2, <1>4, <2>1 DEF Live
  <2>2. CASE b # a /\ c # a
    BY <1>2, <2>2 DEF EntryInv, TabsInv, Live
  <2> QED BY <2>1, <2>2
<1> QED BY <1>6, <1>7, <1>8 DEF TabsInv

\* ... which the server does not notice, and which shows no match that was not
\* shown, or about to be.
LEMMA PursuedKeeps ==
  ASSUME EntryInv, NEW a \in Attempts, Live(a), NEW e \in Attempt, NEW n \in TabRecord,
         att' = [att EXCEPT ![a] = e], tab' = [tab EXCEPT ![att[a].tab] = n],
         UNCHANGED <<demo, owner, hub, seat, connections>>,
         e.tab = att[a].tab,
         e.stage \in Wired => e.fresh /\ n.current = a /\ ~n.timer,
         e.stage \notin Wired => n.current = NoAttempt /\ ~(e.fresh /\ e.stage # "closed"),
         e.stage \notin Early,
         n.page.status = "inRoom" => n.current # NoAttempt /\ e.server \notin Unheard,
         e.server = att[a].server
           \/ (att[a].server \in {"none", "coming"} /\ e.server \in {"coming", "closed"}),
         att[a].inbox = <<>> => e.inbox = <<>>,
         e.stage \in Wired /\ e.server = "registered" /\ ~e.cut =>
           /\ att[a].stage \in Wired /\ ~att[a].cut /\ (att[a].late => e.late)
           /\ ShowsMatch(n.page, e.inbox) => ShowsMatch(tab[att[a].tab].page, att[a].inbox)
  PROVE  EntryInv'
<1>1. /\ att[a].tab \in Tabs /\ tab \in [Tabs -> TabRecord]
      /\ \A b \in Attempts : att[b].tab \in Tabs
  BY AttemptsAre DEF EntryInv, EntryTyped
<1>2. /\ att' \in Seq(Attempt) /\ DOMAIN att' = Attempts /\ att'[a] = e
      /\ \A b \in Attempts \ {a} : att'[b] = att[b]
  BY OneChanged DEF EntryInv
<1>3. tab' \in [Tabs -> TabRecord]
  BY <1>1
<1>4. EntryTyped' /\ Attempts' = Attempts
  BY <1>2, <1>3 DEF EntryInv, EntryTyped, Attempts
<1>5. TabsInv'
  BY PursuedMoves
<1>6. SeatsFollow /\ SocketsSettle
  BY <1>2 DEF SeatsFollow, SocketsSettle
<1>7. SocketsInv'
  BY <1>4, <1>6, SocketsMove DEF EntryInv
<1>8. NewsInv'
  <2>1. ASSUME NEW b \in Attempts
        PROVE  /\ att'[b].tab = att[b].tab
               /\ att'[b].stage \in Wired /\ att'[b].server = "registered" /\ ~att'[b].cut =>
                    /\ att[b].stage \in Wired /\ att[b].server = "registered" /\ ~att[b].cut
                    /\ att[b].late => att'[b].late
                    /\ ShowsMatch(tab'[att[b].tab].page, att'[b].inbox)
                         => ShowsMatch(tab[att[b].tab].page, att[b].inbox)
    <3>1. CASE b = a
      <4>1. tab'[att[a].tab] = n
        BY <1>1
      <4> QED BY <1>2, <3>1, <4>1
    <3>2. CASE b # a
      <4>1. att[b].stage \in Wired => att[b].tab # att[a].tab
        BY <3>2 DEF EntryInv, TabsInv, Live, isCurrent, Wired
      <4>2. att[b].tab # att[a].tab => tab'[att[b].tab] = tab[att[b].tab]
        BY <1>1
      <4> QED BY <1>2, <3>2, <4>1, <4>2
    <3> QED BY <3>1, <3>2
  <2> QED BY <1>4, <2>1, NewsKept DEF EntryInv
<1> QED BY <1>4, <1>5, <1>7, <1>8, LeasesKept DEF EntryInv

LEMMA SocketOpened ==
  ASSUME EntryInv, NEW a \in Attempts, SocketOpens(a)
  PROVE  EntryInv'
<1> DEFINE t == att[a].tab
           joins == isCurrent(a) /\ ~att[a].reconnected /\ att[a].server \in {"admitted", "registered"}
           e == [att[a] EXCEPT !.stage = "open", !.joins = joins]
           opened == [tab[t] EXCEPT !.window = "none"]
           event == IF att[a].reconnected THEN "socketReopened" ELSE "socketOpened"
           n == dispatch(opened, event)
<1>1. /\ att[a] \in Attempt /\ t \in Tabs /\ tab[t] \in TabRecord
      /\ att[a].stage = "connecting"
  BY AttemptsAre DEF EntryInv, EntryTyped, SocketOpens
<1>2. isCurrent(a) /\ Live(a)
  BY <1>1 DEF EntryInv, TabsInv, Live, Wired, isCurrent
<1>3. joins \in BOOLEAN /\ att[a].reconnected \in BOOLEAN
  BY <1>1 DEF isCurrent, Attempt
<1>4. /\ att' = [att EXCEPT ![a] = e] /\ tab' = [tab EXCEPT ![t] = n]
      /\ UNCHANGED <<demo, owner, hub, seat, connections>>
  BY <1>2 DEF SocketOpens
<1> HIDE DEF joins
<1>5. /\ e \in Attempt /\ e.tab = t /\ e.stage = "open" /\ e.fresh = att[a].fresh
      /\ e.server = att[a].server /\ e.inbox = att[a].inbox /\ e.cut = att[a].cut
      /\ e.late = att[a].late
  BY <1>1, <1>3 DEF Attempt
<1> HIDE DEF e
<1>6. opened \in TabRecord /\ opened.current = tab[t].current /\ opened.timer = tab[t].timer
  BY <1>1 DEF TabRecord
<1>7. event \in Events /\ event \notin {"room", "snapshot"}
  BY DEF Events, Messages
<1> HIDE DEF opened, event
<1>8. n \in TabRecord /\ n.page.status # "inRoom" /\ n.current = tab[t].current /\ n.timer = tab[t].timer
  BY <1>6, <1>7, DispatchIs
<1> HIDE DEF n
<1>9. tab[t].current = a /\ ~tab[t].timer /\ att[a].fresh
  BY <1>1, <1>2 DEF EntryInv, TabsInv, isCurrent
<1>10. e.stage \in Wired /\ att[a].stage \in Wired /\ e.stage \notin Early
  BY <1>1, <1>5 DEF Wired, Early
<1>11. ShowsMatch(n.page, e.inbox) => ShowsMatch(tab[t].page, att[a].inbox)
  BY <1>5, <1>8 DEF ShowsMatch
<1> QED BY <1>2, <1>4, <1>5, <1>8, <1>9, <1>10, <1>11, PursuedKeeps

LEMMA LastStays ==
  ASSUME NEW S, NEW s \in Seq(S), s # <<>>
  PROVE  /\ Tail(s) \in Seq(S) /\ Head(s) \in S
         /\ Len(s) \in Nat \ {0} /\ Len(Tail(s)) = Len(s) - 1
         /\ Tail(s) # <<>> => Tail(s)[Len(Tail(s))] = s[Len(s)]
         /\ Tail(s) = <<>> => Head(s) = s[Len(s)]
<1>0. \A q \in Seq(S) : q = <<>> <=> Len(q) = 0
  OBVIOUS
<1>1. Len(s) \in Nat \ {0} /\ Tail(s) \in Seq(S) /\ Head(s) \in S /\ Head(s) = s[1]
  OBVIOUS
<1>2. Len(Tail(s)) = Len(s) - 1 /\ \A i \in 1..(Len(s) - 1) : Tail(s)[i] = s[i + 1]
  OBVIOUS
<1>3. Tail(s) # <<>> => Len(s) - 1 \in 1..(Len(s) - 1)
  <2>1. Tail(s) # <<>> => Len(Tail(s)) # 0
    BY <1>0, <1>1
  <2> QED BY <1>1, <1>2, <2>1
<1>4. Tail(s) = <<>> => Len(s) = 1
  <2>1. Tail(s) = <<>> => Len(Tail(s)) = 0
    BY <1>0, <1>1
  <2> QED BY <1>1, <1>2, <2>1
<1>5. (Len(s) - 1) + 1 = Len(s)
  BY <1>1
<1>6. Tail(s) # <<>> => Tail(s)[Len(s) - 1] = s[(Len(s) - 1) + 1]
  BY <1>2, <1>3
<1>7. Tail(s) # <<>> => Tail(s)[Len(Tail(s))] = s[Len(s)]
  BY <1>2, <1>5, <1>6
<1>8. Tail(s) = <<>> => Head(s) = s[Len(s)]
  BY <1>1, <1>4
<1> QED BY <1>1, <1>2, <1>7, <1>8

LEMMA Delivered ==
  ASSUME EntryInv, NEW a \in Attempts, Deliver(a)
  PROVE  EntryInv'
<1> DEFINE t == att[a].tab
           e == [att[a] EXCEPT !.inbox = Tail(att[a].inbox)]
           event == Head(att[a].inbox)
           n == dispatch(tab[t], event)
<1>1. /\ att[a] \in Attempt /\ t \in Tabs /\ tab[t] \in TabRecord
      /\ att[a].stage = "open" /\ att[a].inbox # <<>>
      /\ att[a].inbox \in Seq(Messages)
  BY AttemptsAre DEF EntryInv, EntryTyped, Deliver, Attempt
<1>2. isCurrent(a) /\ Live(a)
  BY <1>1 DEF EntryInv, TabsInv, Live, Wired, isCurrent
<1>3. /\ att' = [att EXCEPT ![a] = e] /\ tab' = [tab EXCEPT ![t] = n]
      /\ UNCHANGED <<demo, owner, hub, seat, connections>>
  BY <1>2 DEF Deliver
<1>4. /\ Tail(att[a].inbox) \in Seq(Messages)
      /\ event \in Messages
      /\ Len(att[a].inbox) \in Nat \ {0} /\ Len(Tail(att[a].inbox)) = Len(att[a].inbox) - 1
      /\ Tail(att[a].inbox) # <<>> => Tail(att[a].inbox)[Len(Tail(att[a].inbox))] = att[a].inbox[Len(att[a].inbox)]
      /\ Tail(att[a].inbox) = <<>> => event = att[a].inbox[Len(att[a].inbox)]
  BY <1>1, LastStays
<1>5. /\ e \in Attempt /\ e.tab = t /\ e.stage = "open" /\ e.fresh = att[a].fresh
      /\ e.server = att[a].server /\ e.inbox = Tail(att[a].inbox) /\ e.cut = att[a].cut
      /\ e.late = att[a].late
  BY <1>1, <1>4 DEF Attempt
<1> HIDE DEF e
<1>6. event \in Events
  BY <1>4 DEF Events, Messages
<1> HIDE DEF event
<1>7. /\ n \in TabRecord /\ n.current = tab[t].current /\ n.timer = tab[t].timer
      /\ n.page.status = "inRoom" <=> event \in {"room", "snapshot"}
  BY <1>1, <1>6, DispatchIs
<1> HIDE DEF n
<1>8. tab[t].current = a /\ ~tab[t].timer /\ att[a].fresh /\ a # NoAttempt
  BY <1>1, <1>2, AttemptsAre DEF EntryInv, EntryTyped, TabsInv, isCurrent
<1>9. e.stage \in Wired /\ att[a].stage \in Wired /\ e.stage \notin Early
  BY <1>1, <1>5 DEF Wired, Early
<1>10. att[a].server \notin Unheard
  BY <1>1 DEF EntryInv, SocketsInv
<1>11. ShowsMatch(n.page, e.inbox) => ShowsMatch(tab[t].page, att[a].inbox)
  BY <1>1, <1>4, <1>5, <1>7 DEF ShowsMatch
<1> QED BY <1>1, <1>2, <1>3, <1>5, <1>7, <1>8, <1>9, <1>10, <1>11, PursuedKeeps

\* The attempt is closed at the browser.
LEMMA ClosedIs ==
  ASSUME NEW r \in Attempt
  PROVE  LET e == Settled([r EXCEPT !.stage = "closed"])
         IN  /\ e \in Attempt /\ e.tab = r.tab /\ e.stage = "closed"
             /\ e.server = r.server \/ (r.server \in {"none", "coming"} /\ e.server = "closed")
             /\ r.inbox = <<>> => e.inbox = <<>>
<1> DEFINE c == [r EXCEPT !.stage = "closed"]
<1>1. c \in Attempt /\ c.tab = r.tab /\ c.stage = "closed" /\ c.server = r.server /\ c.inbox = r.inbox
  BY DEF Attempt
<1> HIDE DEF c
<1>2. /\ Settled(c) \in Attempt /\ Settled(c).tab = r.tab /\ Settled(c).stage = "closed"
      /\ Settled(c).server = r.server \/ (r.server \in {"none", "coming"} /\ Settled(c).server = "closed")
      /\ r.inbox = <<>> => Settled(c).inbox = <<>>
  BY <1>1, SettledIs
<1> QED BY <1>2 DEF c

LEMMA SocketClosed ==
  ASSUME EntryInv, NEW a \in Attempts, SocketCloses(a)
  PROVE  EntryInv'
<1> DEFINE t == att[a].tab
           e == Settled([att[a] EXCEPT !.stage = "closed"])
           left == [tab[t] EXCEPT !.current = NoAttempt]
           c == dispatch(left, "socketClosed")
<1>1. /\ att[a] \in Attempt /\ t \in Tabs /\ tab[t] \in TabRecord
      /\ att[a].stage \in Wired
  BY AttemptsAre DEF EntryInv, EntryTyped, SocketCloses, Wired
<1>2. isCurrent(a) /\ Live(a)
  BY <1>1 DEF EntryInv, TabsInv, Live, Wired, isCurrent
<1>3. /\ att' = [att EXCEPT ![a] = e]
      /\ tab' = [tab EXCEPT ![t] = IF tab[t].seen = "room" THEN scheduleReconnect(c) ELSE c]
      /\ UNCHANGED <<demo, owner, hub, seat, connections>>
  BY <1>2 DEF SocketCloses
<1>4. /\ e \in Attempt /\ e.tab = t /\ e.stage = "closed"
      /\ e.server = att[a].server \/ (att[a].server \in {"none", "coming"} /\ e.server = "closed")
      /\ att[a].inbox = <<>> => e.inbox = <<>>
  BY <1>1, ClosedIs
<1> HIDE DEF e
<1>5. left \in TabRecord /\ left.current = NoAttempt
  BY <1>1 DEF TabRecord, NoAttempt
<1> HIDE DEF left
<1>6. "socketClosed" \in Events /\ "socketClosed" \notin {"room", "snapshot"}
  BY DEF Events, Messages
<1>7. c \in TabRecord /\ c.current = NoAttempt /\ c.page.status # "inRoom"
  BY <1>5, <1>6, DispatchIs
<1> HIDE DEF c
<1>8. PICK n \in TabRecord : tab' = [tab EXCEPT ![t] = n] /\ n.current = NoAttempt /\ n.page.status # "inRoom"
  BY <1>3, <1>7, ScheduleIs
<1>9. e.stage \notin Wired /\ e.stage \notin Early
  BY <1>4 DEF Wired, Early
<1>10. ~(e.fresh /\ e.stage # "closed")
  BY <1>4
<1> HIDE DEF t
<1> QED BY <1>2, <1>3, <1>4, <1>8, <1>9, <1>10, PursuedKeeps DEF t

\* An attempt that was given up finds out when its ticket comes.
LEMMA TooLate ==
  ASSUME EntryInv, NEW a \in Attempts, TicketAnswered(a), ~att[a].fresh
  PROVE  EntryInv'
<1> DEFINE e == Settled([att[a] EXCEPT !.stage = "closed"])
<1>1. /\ att[a] \in Attempt /\ att[a].stage \in {"granted", "refused"}
      /\ tab \in [Tabs -> TabRecord]
  BY AttemptsAre DEF EntryInv, EntryTyped, TicketAnswered
<1>2. /\ att' = [att EXCEPT ![a] = e] /\ UNCHANGED <<demo, owner, hub, seat, connections>>
      /\ tab' = [tab EXCEPT ![att[a].tab] = tab[att[a].tab]]
  BY DEF TicketAnswered, Obsolete
<1>3. tab' = tab
  BY <1>1, <1>2
<1>4. /\ e \in Attempt /\ e.tab = att[a].tab /\ e.stage = "closed"
      /\ e.server = att[a].server \/ (att[a].server \in {"none", "coming"} /\ e.server = "closed")
      /\ att[a].inbox = <<>> => e.inbox = <<>>
  BY <1>1, ClosedIs
<1> HIDE DEF e
<1>5. /\ att' \in Seq(Attempt) /\ DOMAIN att' = Attempts /\ att'[a] = e
      /\ \A b \in Attempts \ {a} : att'[b] = att[b]
  BY <1>2, <1>4, OneChanged DEF EntryInv
<1>6. EntryTyped' /\ Attempts' = Attempts
  BY <1>2, <1>3, <1>5, AttemptsTyped DEF EntryInv, EntryTyped
<1>7. att[a].stage \notin Wired /\ "closed" \notin Wired /\ "closed" \notin Early /\ att[a].server = "none"
  BY <1>1 DEF Wired, Early, EntryInv, SocketsInv
<1>8. TabsInv'
  <2>1. \A b \in Attempts :
           /\ att'[b].tab = att[b].tab
           /\ att'[b].stage \in Wired <=> att[b].stage \in Wired
           /\ att[b].stage \in Wired => (att'[b].fresh <=> att[b].fresh)
           /\ att'[b].fresh /\ att'[b].stage # "closed" => Live(b)
           /\ att[b].server \notin Unheard => att'[b].server \notin Unheard
    BY <1>4, <1>5, <1>7 DEF Live, Unheard
  <2> QED BY <1>3, <1>6, <2>1, TabsKept DEF EntryInv
<1>9. SocketsInv'
  <2>1. SeatsFollow /\ SocketsSettle
    BY <1>2, <1>4, <1>5, <1>7 DEF SeatsFollow, SocketsSettle
  <2> QED BY <1>2, <1>6, <2>1, SocketsMove DEF EntryInv
<1>10. NewsInv'
  <2>1. \A b \in Attempts : att'[b].stage \in Wired => att'[b] = att[b]
    BY <1>4, <1>5, <1>7
  <2>2. \A b \in Attempts : att'[b].tab = att[b].tab
    BY <1>4, <1>5
  <2> QED BY <1>2, <1>3, <1>6, <2>1, <2>2, NewsKept DEF EntryInv
<1> QED BY <1>2, <1>6, <1>8, <1>9, <1>10, LeasesKept DEF EntryInv

LEMMA TicketUsed ==
  ASSUME EntryInv, NEW a \in Attempts, TicketAnswered(a), att[a].fresh
  PROVE  EntryInv'
<1> DEFINE t == att[a].tab
<1>1. /\ att[a] \in Attempt /\ t \in Tabs /\ tab[t] \in TabRecord /\ att[a].inbox = <<>>
      /\ att[a].stage \in {"granted", "refused"} /\ att[a].server = "none"
      /\ a \in Nat /\ a # NoAttempt
  BY AttemptsAre DEF EntryInv, EntryTyped, TicketAnswered, SocketsInv, Early, Unheard
<1>2. Live(a) /\ att[a].stage \notin Wired
  BY <1>1 DEF Live, Wired
<1>3. tab[t].current = NoAttempt /\ tab[t].page.status # "inRoom" /\ ~tab[t].timer
  <2>1. tab[t].current # NoAttempt => tab[t].current \in Attempts /\ Live(tab[t].current)
                                      /\ att[tab[t].current].tab = t /\ att[tab[t].current].stage \in Wired
    BY <1>1 DEF EntryInv, TabsInv, Live, Wired, isCurrent
  <2> QED BY <1>1, <1>2, <2>1 DEF EntryInv, TabsInv
<1>4. CASE att[a].stage = "granted"
  <2> DEFINE c == [att[a] EXCEPT !.stage = "connecting", !.server = "coming"]
             n == [tab[t] EXCEPT !.current = a]
  <2>1. /\ att' = [att EXCEPT ![a] = c] /\ tab' = [tab EXCEPT ![t] = n]
        /\ UNCHANGED <<demo, owner, hub, seat, connections>>
    BY <1>4 DEF TicketAnswered, Obsolete
  <2>2. /\ c \in Attempt /\ c.tab = t /\ c.stage = "connecting" /\ c.fresh /\ c.server = "coming"
        /\ c.inbox = <<>>
    BY <1>1 DEF Attempt
  <2> HIDE DEF c
  <2>4. n \in TabRecord /\ n.current = a /\ ~n.timer /\ n.page = tab[t].page
    BY <1>1, <1>3 DEF TabRecord
  <2> HIDE DEF n
  <2>5. c.stage \in Wired /\ c.stage \notin Early /\ c.server # "registered"
    BY <2>2 DEF Wired, Early
  <2>6. n.page.status # "inRoom"
    BY <1>3, <2>4
  <2> QED BY <1>1, <1>2, <2>1, <2>2, <2>4, <2>5, <2>6, PursuedKeeps
<1>5. CASE att[a].stage = "refused"
  <2> DEFINE e == Settled([att[a] EXCEPT !.stage = "closed"])
  <2>1. /\ att' = [att EXCEPT ![a] = e] /\ UNCHANGED <<demo, owner, hub, seat, connections>>
        /\ tab' = [tab EXCEPT ![t] = IF att[a].reconnected THEN scheduleReconnect(tab[t])
                                     ELSE dispatch(tab[t], "failed")]
    BY <1>5 DEF TicketAnswered, Obsolete
  <2>2. /\ e \in Attempt /\ e.tab = t /\ e.stage = "closed"
        /\ e.server = att[a].server \/ (att[a].server \in {"none", "coming"} /\ e.server = "closed")
        /\ att[a].inbox = <<>> => e.inbox = <<>>
    BY <1>1, ClosedIs
  <2> HIDE DEF e
  <2>3. "failed" \in Events /\ "failed" \notin {"room", "snapshot"}
    BY DEF Events, Messages
  <2>4. /\ dispatch(tab[t], "failed") \in TabRecord /\ dispatch(tab[t], "failed").current = NoAttempt
        /\ dispatch(tab[t], "failed").page.status # "inRoom"
    BY <1>1, <1>3, <2>3, DispatchIs
  <2>5. /\ scheduleReconnect(tab[t]) \in TabRecord /\ scheduleReconnect(tab[t]).current = NoAttempt
        /\ scheduleReconnect(tab[t]).page.status # "inRoom"
    BY <1>1, <1>3, ScheduleIs
  <2>6. PICK n \in TabRecord : tab' = [tab EXCEPT ![t] = n] /\ n.current = NoAttempt /\ n.page.status # "inRoom"
    BY <2>1, <2>4, <2>5
  <2>7. e.stage \notin Wired /\ e.stage \notin Early
    BY <2>2 DEF Wired, Early
  <2>8. ~(e.fresh /\ e.stage # "closed")
    BY <2>2
  <2> QED BY <1>2, <2>1, <2>2, <2>6, <2>7, <2>8, PursuedKeeps
<1> QED BY <1>1, <1>4, <1>5

\* A tab gives up what it had under way, and perhaps begins anew.
Anew(t) ==
  /\ Attempts \subseteq Attempts'
  /\ \A b, c \in Attempts' \ Attempts : b = c
  /\ \A b \in Attempts' \ Attempts : \E r \in BOOLEAN : att'[b] = NewAttempt(t, r)
  /\ \A a \in Attempts :
       /\ att'[a].tab = att[a].tab
       /\ att[a].tab = t => /\ ~(att'[a].fresh /\ att'[a].stage # "closed")
                            /\ att'[a].stage \notin Wired
       /\ att[a].tab # t => att'[a] = att[a]
       /\ \/ att'[a].server = att[a].server
          \/ (att[a].server \in {"none", "coming"} /\ att'[a].server = "closed" /\ att'[a].stage = "closed")
       /\ att'[a].stage \in Early => att[a].stage \in Early
       /\ att[a].inbox = <<>> => att'[a].inbox = <<>>

LEMMA BegunIs ==
  ASSUME NEW t \in Tabs, NEW r \in BOOLEAN
  PROVE  /\ NewAttempt(t, r) \in Attempt
         /\ NewAttempt(t, r).tab = t /\ NewAttempt(t, r).stage = "requesting"
         /\ NewAttempt(t, r).server = "none" /\ NewAttempt(t, r).inbox = <<>>
BY DEF NewAttempt, Attempt

LEMMA AnewKeeps ==
  ASSUME EntryInv, NEW t \in Tabs, NEW n \in TabRecord, tab' = [tab EXCEPT ![t] = n],
         n.current = NoAttempt, ~n.timer, n.page.status # "inRoom",
         UNCHANGED <<demo, owner, hub, seat, connections>>,
         att' \in Seq(Attempt), Anew(t)
  PROVE  EntryInv'
<1>1. /\ \A a \in Attempts : att[a].tab \in Tabs /\ UserOf(a) \in Users /\ a # NoAttempt
      /\ tab \in [Tabs -> TabRecord]
  BY AttemptsAre DEF EntryInv, EntryTyped, UserOf
<1>2. tab' \in [Tabs -> TabRecord] /\ tab'[t] = n /\ \A s \in Tabs \ {t} : tab'[s] = tab[s]
  BY <1>1
<1>3. EntryTyped'
  BY <1>2 DEF EntryInv, EntryTyped
<1>4. \A b \in Attempts' \ Attempts :
        /\ att'[b].tab = t /\ att'[b].stage = "requesting" /\ att'[b].server = "none" /\ att'[b].inbox = <<>>
        /\ b # NoAttempt
  <2>1. \A b \in Attempts' : b # NoAttempt
    BY DEF Attempts, NoAttempt
  <2> QED BY <2>1, BegunIs DEF Anew
<1>5. "requesting" \notin Wired /\ "requesting" \in Early /\ "requesting" # "closed" /\ "closed" \notin Early
  BY DEF Wired, Early
<1>6. TabsInv'
  <2>1. (\A b \in Attempts : att[b].stage \in Wired => isCurrent(b))'
    <3> SUFFICES ASSUME NEW b \in Attempts', att'[b].stage \in Wired
                 PROVE  tab'[att'[b].tab].current = b /\ att'[b].fresh
      BY DEF isCurrent
    <3>1. b \in Attempts /\ att[b].tab # t /\ att'[b] = att[b]
      BY <1>4, <1>5 DEF Anew
    <3> QED BY <1>1, <1>2, <3>1 DEF EntryInv, TabsInv, isCurrent
  <2>2. ASSUME NEW s \in Tabs
        PROVE  (/\ tab[s].current # NoAttempt =>
                     /\ tab[s].current \in Attempts
                     /\ att[tab[s].current].tab = s /\ att[tab[s].current].stage \in Wired
                /\ tab[s].timer => \A b \in Attempts : att[b].tab = s => ~Live(b)
                /\ tab[s].page.status = "inRoom" =>
                     /\ tab[s].current # NoAttempt
                     /\ att[tab[s].current].server \notin Unheard)'
    <3>1. CASE s = t
      BY <1>2, <3>1
    <3>2. CASE s # t
      <4>1. tab'[s] = tab[s]
        BY <1>2, <3>2
      <4>2. /\ tab[s].current # NoAttempt =>
                 /\ tab[s].current \in Attempts
                 /\ att[tab[s].current].tab = s /\ att[tab[s].current].stage \in Wired
            /\ tab[s].timer => \A b \in Attempts : att[b].tab = s => ~Live(b)
            /\ tab[s].page.status = "inRoom" =>
                 /\ tab[s].current # NoAttempt
                 /\ att[tab[s].current].server \notin Unheard
        BY DEF EntryInv, TabsInv
      <4>3. \A b \in Attempts' : att'[b].tab = s => b \in Attempts /\ att'[b] = att[b]
        BY <1>4, <3>2 DEF Anew
      <4>4. tab[s].current # NoAttempt => att'[tab[s].current] = att[tab[s].current] /\ tab[s].current \in Attempts'
        BY <3>2, <4>2 DEF Anew
      <4>5. (tab[s].timer => \A b \in Attempts : att[b].tab = s => ~Live(b))'
        BY <4>1, <4>2, <4>3 DEF Live
      <4> QED BY <4>1, <4>2, <4>4, <4>5
    <3> QED BY <3>1, <3>2
  <2>3. (\A b, c \in Attempts : Live(b) /\ Live(c) /\ att[b].tab = att[c].tab => b = c)'
    <3> SUFFICES ASSUME NEW b \in Attempts', NEW c \in Attempts',
                        att'[b].fresh, att'[b].stage # "closed", att'[c].fresh, att'[c].stage # "closed",
                        att'[b].tab = att'[c].tab
                 PROVE  b = c
      BY DEF Live
    <3>1. CASE att'[b].tab = t
      <4>1. ASSUME NEW d \in Attempts', att'[d].tab = t, att'[d].fresh, att'[d].stage # "closed"
            PROVE  d \notin Attempts
        BY <4>1 DEF Anew
      <4>2. b \notin Attempts /\ c \notin Attempts
        BY <3>1, <4>1
      <4> QED BY <4>2 DEF Anew
    <3>2. CASE att'[b].tab # t
      <4>1. b \in Attempts /\ c \in Attempts /\ att'[b] = att[b] /\ att'[c] = att[c]
        BY <1>4, <3>2 DEF Anew
      <4> QED BY <4>1 DEF EntryInv, TabsInv, Live
    <3> QED BY <3>1, <3>2
  <2> QED BY <2>1, <2>2, <2>3 DEF TabsInv
<1>7. SocketsInv'
  <2>1. ASSUME NEW b \in Attempts'
        PROVE  (/\ att[b].stage \in Early => att[b].server = "none"
                /\ att[b].server \in Unheard => att[b].inbox = <<>>
                /\ att[b].server = "registered" <=> hub[UserOf(b)] = b
                /\ att[b].server = "admitted" => ~demo)'
    <3>1. CASE b \in Attempts
      <4>1. UserOf(b)' = UserOf(b)
        BY <3>1 DEF UserOf, Anew
      <4>2. /\ att[b].stage \in Early => att[b].server = "none"
            /\ att[b].server \in Unheard => att[b].inbox = <<>>
            /\ att[b].server = "registered" <=> hub[UserOf(b)] = b
            /\ att[b].server = "admitted" => ~demo
        BY <3>1 DEF EntryInv, SocketsInv
      <4>3. CASE att'[b].server = att[b].server
        BY <3>1, <4>1, <4>2, <4>3 DEF Anew
      <4>4. CASE att[b].server \in {"none", "coming"} /\ att'[b].server = "closed" /\ att'[b].stage = "closed"
        BY <1>5, <4>1, <4>2, <4>4 DEF Unheard
      <4> QED BY <3>1, <4>3, <4>4 DEF Anew
    <3>2. CASE b \notin Attempts
      <4>1. UserOf(b)' \in Users
        BY <1>3, <1>4, <3>2 DEF EntryTyped, UserOf
      <4>2. \A u \in Users : hub[u] # b
        BY <1>4, <3>2 DEF EntryInv, SocketsInv
      <4> QED BY <1>4, <3>2, <4>1, <4>2
    <3> QED BY <3>1, <3>2
  <2>2. \A u \in Users : hub[u] \in Attempts => UserOf(hub[u])' = UserOf(hub[u]) /\ hub[u] \in Attempts'
    BY DEF UserOf, Anew
  <2>3. \A u \in Users :
          /\ hub[u] # NoAttempt => hub[u] \in Attempts /\ UserOf(hub[u]) = u
          /\ seat[u] \in {"queued", "held", "ending"} => hub[u] # NoAttempt
          /\ seat[u] = "reserved" => hub[u] = NoAttempt
    BY DEF EntryInv, SocketsInv
  <2> QED BY <2>1, <2>2, <2>3 DEF SocketsInv
<1>8. NewsInv'
  <2> SUFFICES ASSUME NEW b \in Attempts', att'[b].stage \in Wired, att'[b].server = "registered", ~att'[b].cut,
                      ShowsMatch(tab'[att'[b].tab].page, att'[b].inbox)
               PROVE  Plays(b)'
    BY DEF NewsInv
  <2>1. b \in Attempts /\ att[b].tab # t /\ att'[b] = att[b]
    BY <1>4, <1>5 DEF Anew
  <2>2. UserOf(b)' = UserOf(b) /\ tab'[att[b].tab] = tab[att[b].tab]
    BY <1>1, <1>2, <2>1 DEF UserOf
  <2> QED BY <2>1, <2>2 DEF EntryInv, NewsInv, Plays
<1> QED BY <1>3, <1>6, <1>7, <1>8, LeasesKept DEF EntryInv

\* What replaceConnection leaves of the attempts.
LEMMA RetiredIs ==
  ASSUME EntryInv, NEW t \in Tabs
  PROVE  /\ Retired(t) \in Seq(Attempt) /\ DOMAIN Retired(t) = Attempts
         /\ \A a \in Attempts :
              /\ Retired(t)[a].tab = att[a].tab
              /\ att[a].tab = t => ~Retired(t)[a].fresh /\ Retired(t)[a].stage \notin Wired
              /\ att[a].tab # t => Retired(t)[a] = att[a]
              /\ \/ Retired(t)[a].server = att[a].server
                 \/ (att[a].server \in {"none", "coming"} /\ Retired(t)[a].server = "closed" /\ Retired(t)[a].stage = "closed")
              /\ Retired(t)[a].stage \in Early => att[a].stage \in Early
              /\ att[a].inbox = <<>> => Retired(t)[a].inbox = <<>>
<1>1. \A a \in Attempts : att[a] \in Attempt
  BY AttemptsAre DEF EntryInv, EntryTyped
<1>2. ASSUME NEW a \in Attempts
      PROVE  /\ Retired(t)[a] \in Attempt
             /\ Retired(t)[a].tab = att[a].tab
             /\ att[a].tab = t => ~Retired(t)[a].fresh /\ Retired(t)[a].stage \notin Wired
             /\ att[a].tab # t => Retired(t)[a] = att[a]
             /\ \/ Retired(t)[a].server = att[a].server
                \/ (att[a].server \in {"none", "coming"} /\ Retired(t)[a].server = "closed" /\ Retired(t)[a].stage = "closed")
             /\ Retired(t)[a].stage \in Early => att[a].stage \in Early
             /\ att[a].inbox = <<>> => Retired(t)[a].inbox = <<>>
  <2>1. CASE att[a].tab # t
    <3>1. Retired(t)[a] = att[a]
      BY <2>1 DEF Retired
    <3> QED BY <1>1, <2>1, <3>1
  <2>2. CASE att[a].tab = t
    <3> DEFINE new == IF a = tab[t].current THEN "closed" ELSE att[a].stage
               c == [att[a] EXCEPT !.fresh = FALSE, !.stage = new]
    <3>1. Retired(t)[a] = Settled(c)
      BY <2>2 DEF Retired
    <3>2. new \in {"requesting", "granted", "refused", "connecting", "open", "closed"}
      BY <1>1 DEF Attempt
    <3>3. new \notin Wired /\ (new \in Early => att[a].stage \in Early)
      BY <2>2 DEF EntryInv, TabsInv, isCurrent, Wired, Early
    <3> HIDE DEF new
    <3>4. /\ c \in Attempt /\ c.tab = t /\ ~c.fresh /\ c.stage = new /\ c.server = att[a].server
          /\ c.inbox = att[a].inbox
      BY <1>1, <2>2, <3>2 DEF Attempt
    <3> HIDE DEF c
    <3>5. /\ Settled(c) \in Attempt /\ Settled(c).tab = t /\ ~Settled(c).fresh /\ Settled(c).stage = new
          /\ Settled(c).server = att[a].server
               \/ (new = "closed" /\ att[a].server \in {"none", "coming"} /\ Settled(c).server = "closed")
          /\ att[a].inbox = <<>> => Settled(c).inbox = <<>>
      BY <3>4, SettledIs
    <3> QED BY <2>2, <3>1, <3>3, <3>5
  <2> QED BY <2>1, <2>2
<1>3. DOMAIN Retired(t) = Attempts /\ Retired(t) = [a \in Attempts |-> Retired(t)[a]]
  BY DEF Retired
<1>4. Retired(t) \in Seq(Attempt)
  BY <1>2, <1>3, ChangedIs DEF EntryInv, EntryTyped
<1> QED BY <1>2, <1>3, <1>4

\* An attempt is added to those there are.
LEMMA AppendedIs ==
  ASSUME EntryInv, NEW f \in Seq(Attempt), DOMAIN f = Attempts, NEW e \in Attempt, att' = Append(f, e)
  PROVE  /\ att' \in Seq(Attempt) /\ Attempts \subseteq Attempts'
         /\ \A b, c \in Attempts' \ Attempts : b = c
         /\ \A b \in Attempts' \ Attempts : att'[b] = e
         /\ \A a \in Attempts : att'[a] = f[a]
<1>1. Len(f) \in Nat /\ Attempts = 1..Len(f)
  OBVIOUS
<1>2. /\ att' \in Seq(Attempt) /\ Len(att') = Len(f) + 1 /\ DOMAIN att' = 1..(Len(f) + 1)
      /\ att'[Len(f) + 1] = e
  BY <1>1
<1>3. \A a \in 1..Len(f) : att'[a] = f[a]
  BY <1>1
<1>4. Attempts' = 1..(Len(f) + 1)
  BY <1>2 DEF Attempts
<1>5. \A b \in Attempts' \ Attempts : b = Len(f) + 1
  BY <1>1, <1>4
<1> QED BY <1>1, <1>2, <1>3, <1>4, <1>5

LEMMA PageLeft ==
  ASSUME EntryInv, NEW t \in Tabs, LeavePage(t)
  PROVE  EntryInv'
<1> DEFINE n == [Cleared(tab[t]) EXCEPT !.page = NewPage, !.seen = "startable"]
<1>1. tab[t] \in TabRecord
  BY DEF EntryInv, EntryTyped
<1>2. /\ tab' = [tab EXCEPT ![t] = n] /\ att' = Retired(t)
      /\ UNCHANGED <<demo, owner, hub, seat, connections>>
  BY DEF LeavePage
<1>3. n \in TabRecord /\ n.current = NoAttempt /\ ~n.timer /\ n.page.status # "inRoom"
  BY <1>1 DEF TabRecord, Cleared, NewPage, NoAttempt, Statuses
<1> HIDE DEF n
<1>4. att' \in Seq(Attempt) /\ Attempts' = Attempts
  BY <1>2, RetiredIs DEF Attempts
<1>5. Anew(t)
  BY <1>2, <1>4, RetiredIs DEF Anew
<1> QED BY <1>2, <1>3, <1>4, <1>5, AnewKeeps

LEMMA Connected ==
  ASSUME EntryInv, NEW t \in Tabs, Connect(t)
  PROVE  EntryInv'
<1> DEFINE n == dispatch(Cleared(tab[t]), "connectStarted")
<1>1. tab[t] \in TabRecord
  BY DEF EntryInv, EntryTyped
<1>2. /\ tab' = [tab EXCEPT ![t] = n] /\ att' = Append(Retired(t), NewAttempt(t, FALSE))
      /\ UNCHANGED <<demo, owner, hub, seat, connections>>
  BY DEF Connect
<1>3. /\ Cleared(tab[t]) \in TabRecord /\ Cleared(tab[t]).current = NoAttempt /\ ~Cleared(tab[t]).timer
  BY <1>1 DEF TabRecord, Cleared, NoAttempt
<1>4. "connectStarted" \in Events /\ "connectStarted" \notin {"room", "snapshot"}
  BY DEF Events, Messages
<1>5. n \in TabRecord /\ n.current = NoAttempt /\ ~n.timer /\ n.page.status # "inRoom"
  BY <1>3, <1>4, DispatchIs
<1> HIDE DEF n
<1>6. NewAttempt(t, FALSE) \in Attempt
  BY BegunIs
<1>7. /\ att' \in Seq(Attempt) /\ Attempts \subseteq Attempts'
      /\ \A b, c \in Attempts' \ Attempts : b = c
      /\ \A b \in Attempts' \ Attempts : att'[b] = NewAttempt(t, FALSE)
      /\ \A a \in Attempts : att'[a] = Retired(t)[a]
  BY <1>2, <1>6, RetiredIs, AppendedIs
<1>8. Anew(t)
  <2>1. \A a \in Attempts :
          /\ Retired(t)[a].tab = att[a].tab
          /\ att[a].tab = t => ~Retired(t)[a].fresh /\ Retired(t)[a].stage \notin Wired
          /\ att[a].tab # t => Retired(t)[a] = att[a]
          /\ \/ Retired(t)[a].server = att[a].server
             \/ (att[a].server \in {"none", "coming"} /\ Retired(t)[a].server = "closed" /\ Retired(t)[a].stage = "closed")
          /\ Retired(t)[a].stage \in Early => att[a].stage \in Early
          /\ att[a].inbox = <<>> => Retired(t)[a].inbox = <<>>
    BY RetiredIs
  <2>2. \A b \in Attempts' \ Attempts : \E r \in BOOLEAN : att'[b] = NewAttempt(t, r)
    BY <1>7
  <2> QED BY <1>7, <2>1, <2>2 DEF Anew
<1> QED BY <1>2, <1>5, <1>7, <1>8, AnewKeeps

LEMMA Reconnecting ==
  ASSUME EntryInv, NEW t \in Tabs, ReconnectTimerFires(t)
  PROVE  EntryInv'
<1> DEFINE n == [tab[t] EXCEPT !.timer = FALSE]
<1>1. tab[t] \in TabRecord /\ att \in Seq(Attempt) /\ DOMAIN att = Attempts
  BY DEF EntryInv, EntryTyped, Attempts
<1>2. /\ tab[t].timer /\ tab' = [tab EXCEPT ![t] = n] /\ att' = Append(att, NewAttempt(t, TRUE))
      /\ UNCHANGED <<demo, owner, hub, seat, connections>>
  BY DEF ReconnectTimerFires
<1>3. \A a \in Attempts : att[a].tab = t => ~Live(a) /\ att[a].stage \notin Wired
  BY <1>2 DEF EntryInv, TabsInv, Live, isCurrent, Wired
<1>4. tab[t].current = NoAttempt /\ tab[t].page.status # "inRoom"
  BY <1>3 DEF EntryInv, TabsInv
<1>5. n \in TabRecord /\ n.current = NoAttempt /\ ~n.timer /\ n.page.status # "inRoom"
  BY <1>1, <1>4 DEF TabRecord
<1> HIDE DEF n
<1>6. NewAttempt(t, TRUE) \in Attempt
  BY BegunIs
<1>7. /\ att' \in Seq(Attempt) /\ Attempts \subseteq Attempts'
      /\ \A b, c \in Attempts' \ Attempts : b = c
      /\ \A b \in Attempts' \ Attempts : att'[b] = NewAttempt(t, TRUE)
      /\ \A a \in Attempts : att'[a] = att[a]
  BY <1>1, <1>2, <1>6, AppendedIs
<1>8. Anew(t)
  BY <1>3, <1>7 DEF Anew, Live
<1> QED BY <1>2, <1>5, <1>7, <1>8, AnewKeeps

-----------------------------------------------------------------------------
(* The leases.                                                             *)

LEMMA NobodyOnLease ==
  ASSUME NEW S
  PROVE  /\ DOMAIN Nothing = {}
         /\ Drop(Nothing, S) = Nothing
<1>1. DOMAIN Nothing = {}
  BY DEF Nothing
<1> DEFINE f == [x \in {} |-> Nothing[x]]
<1>2. Drop(Nothing, S) = f
  BY <1>1 DEF Drop, Restrict
<1>3. f \in [1..0 -> {}]
  OBVIOUS
<1>4. f \in Seq({}) /\ Len(f) = 0
  BY <1>3
<1>5. f = <<>>
  BY <1>4
<1> QED BY <1>1, <1>2, <1>5 DEF Nothing

\* The leases that are left are those of before.
LEMMA FewerGuests ==
  ASSUME NEW before, NEW after, IsFiniteSet(DOMAIN before), DOMAIN after \subseteq DOMAIN before,
         \A u \in DOMAIN after : after[u] = before[u], NEW ip
  PROVE  /\ IsFiniteSet(DOMAIN after) /\ Cardinality(DOMAIN after) <= Cardinality(DOMAIN before)
         /\ Cardinality(DOMAIN after) \in Nat /\ Cardinality(DOMAIN before) \in Nat
         /\ Cardinality(GuestsOfIp(after, ip)) <= Cardinality(GuestsOfIp(before, ip))
         /\ Cardinality(GuestsOfIp(after, ip)) \in Nat /\ Cardinality(GuestsOfIp(before, ip)) \in Nat
<1>1. IsFiniteSet(DOMAIN after) /\ Cardinality(DOMAIN after) <= Cardinality(DOMAIN before)
  BY FS_Subset
<1>2. GuestsOfIp(before, ip) \subseteq DOMAIN before /\ GuestsOfIp(after, ip) \subseteq GuestsOfIp(before, ip)
  BY DEF GuestsOfIp
<1>3. IsFiniteSet(GuestsOfIp(before, ip))
  BY <1>2, FS_Subset
<1>4. /\ IsFiniteSet(GuestsOfIp(after, ip))
      /\ Cardinality(GuestsOfIp(after, ip)) <= Cardinality(GuestsOfIp(before, ip))
  BY <1>2, <1>3, FS_Subset
<1> QED BY <1>1, <1>3, <1>4, FS_CardinalityType

\* The leases when hub[u] is a and that connection is forgotten.
LEMMA LeaseReturned ==
  ASSUME EntryInv, NEW a \in Attempts, LET u == UserOf(a) IN u \in Users,
         connections' = release(connections, UserOf(a), a), UNCHANGED demo,
         hub' = IF hub[UserOf(a)] = a THEN [hub EXCEPT ![UserOf(a)] = NoAttempt] ELSE hub
  PROVE  LeaseInv'
<1> DEFINE u == UserOf(a)
<1>1. hub \in [Users -> Nat] /\ u \in Users /\ a # NoAttempt
  BY AttemptsAre DEF EntryInv, EntryTyped
<1>2. \A v \in Users : hub'[v] = IF v = u /\ hub[u] = a THEN NoAttempt ELSE hub[v]
  BY <1>1
<1> DEFINE gone == {g \in DOMAIN connections \cap {u} : connections[g].leaseId = a}
<1>3. connections' = Drop(connections, gone)
  BY DEF release
<1>4. CASE ~demo
  <2>1. connections = Nothing
    BY <1>4 DEF EntryInv, LeaseInv, LeaseFollowsSocket
  <2> HIDE DEF gone
  <2>2. connections' = Nothing
    BY <1>3, <2>1, NobodyOnLease
  <2>3. ~demo' /\ connections' = connections
    BY <1>4, <2>1, <2>2
  <2> QED BY <2>2, <2>3, <1>4 DEF EntryInv, LeaseInv, LeaseFollowsSocket
<1>5. CASE demo
  <2>1. /\ DOMAIN connections = {v \in Users : hub[v] # NoAttempt}
        /\ \A v \in DOMAIN connections : connections[v].leaseId = hub[v]
        /\ \A ip \in Ips : Cardinality(GuestsOfIp(connections, ip)) <= connectionsPerIp
        /\ Cardinality(DOMAIN connections) <= connectionLimit
        /\ IsFiniteSet(DOMAIN connections)
        /\ \A v \in DOMAIN connections : DOMAIN connections[v] = {"ip", "leaseId"}
    BY <1>5 DEF EntryInv, LeaseInv, LeaseFollowsSocket
  <2>2. gone = IF hub[u] = a THEN {u} ELSE {}
    BY <1>1, <2>1
  <2> HIDE DEF gone
  <2>3. /\ DOMAIN connections' = DOMAIN connections \ gone
        /\ \A v \in DOMAIN connections' : connections'[v] = connections[v]
    BY <1>3 DEF Drop, Restrict
  <2>4. DOMAIN connections' = {v \in Users : hub'[v] # NoAttempt}
    BY <1>1, <1>2, <2>1, <2>2, <2>3
  <2>5. \A v \in DOMAIN connections' : connections'[v].leaseId = hub'[v]
    BY <1>1, <1>2, <2>1, <2>2, <2>3
  <2> HIDE DEF u
  <2> DEFINE after == connections'
  <2>6. /\ DOMAIN after \subseteq DOMAIN connections
        /\ \A v \in DOMAIN after : after[v] = connections[v]
    BY <2>3
  <2> HIDE DEF after
  <2>7. \A ip \in Ips : Cardinality(GuestsOfIp(after, ip)) <= connectionsPerIp
    <3> TAKE ip \in Ips
    <3>1. /\ Cardinality(GuestsOfIp(after, ip)) <= Cardinality(GuestsOfIp(connections, ip))
          /\ Cardinality(GuestsOfIp(after, ip)) \in Nat /\ Cardinality(GuestsOfIp(connections, ip)) \in Nat
      BY <2>1, <2>6, FewerGuests
    <3> QED BY <2>1, <3>1, LimitsAssumption
  <2>8. IsFiniteSet(DOMAIN after) /\ Cardinality(DOMAIN after) <= connectionLimit
    <3>1. /\ IsFiniteSet(DOMAIN after) /\ Cardinality(DOMAIN after) <= Cardinality(DOMAIN connections)
          /\ Cardinality(DOMAIN after) \in Nat /\ Cardinality(DOMAIN connections) \in Nat
      BY <2>1, <2>6, FewerGuests
    <3> QED BY <2>1, <3>1, LimitsAssumption
  <2>9. \A ip \in Ips : Cardinality(GuestsOfIp(connections, ip)') <= connectionsPerIp
    BY <2>7 DEF after, GuestsOfIp
  <2>10. demo'
    BY <1>5
  <2>11. \A v \in DOMAIN connections' : DOMAIN connections'[v] = {"ip", "leaseId"}
    BY <2>1, <2>6 DEF after
  <2> QED BY <2>4, <2>5, <2>8, <2>9, <2>10, <2>11 DEF after, LeaseInv, LeaseFollowsSocket, GuestsOfIp
<1> QED BY <1>4, <1>5

LEMMA LeaseTaken ==
  ASSUME EntryInv, NEW a \in Attempts, UserOf(a) \in Users, NEW ip \in Ips, demo, UNCHANGED demo,
         ConnectionAllowed(connections, ip, UserOf(a)),
         connections' = acquireConnection(connections, ip, UserOf(a), a),
         hub' = [hub EXCEPT ![UserOf(a)] = a]
  PROVE  LeaseInv'
<1> DEFINE u == UserOf(a)
           lease == [ip |-> ip, leaseId |-> a]
           after == connections'
<1>1. hub \in [Users -> Nat] /\ u \in Users /\ a # NoAttempt /\ a \in Nat
  BY AttemptsAre DEF EntryInv, EntryTyped
<1>2. \A v \in Users : hub'[v] = IF v = u THEN a ELSE hub[v]
  BY <1>1
<1>3. /\ DOMAIN connections = {v \in Users : hub[v] # NoAttempt}
      /\ \A v \in DOMAIN connections : connections[v].leaseId = hub[v]
      /\ \A i \in Ips : Cardinality(GuestsOfIp(connections, i)) <= connectionsPerIp
      /\ Cardinality(DOMAIN connections) <= connectionLimit
      /\ IsFiniteSet(DOMAIN connections)
      /\ \A v \in DOMAIN connections : DOMAIN connections[v] = {"ip", "leaseId"}
  BY DEF EntryInv, LeaseInv, LeaseFollowsSocket
<1>4. lease.ip = ip /\ lease.leaseId = a /\ DOMAIN lease = {"ip", "leaseId"}
  OBVIOUS
<1> HIDE DEF u
<1>5. /\ DOMAIN after = DOMAIN connections \cup {u}
      /\ after[u] = lease
      /\ \A v \in DOMAIN connections \ {u} : after[v] = connections[v]
  BY DEF acquireConnection, Put, u
<1>6. ConnectionAllowed(connections, ip, u)
  BY DEF u
<1> HIDE DEF after, lease
<1>7. \A i \in Ips : /\ IsFiniteSet(GuestsOfIp(connections, i))
                     /\ Cardinality(GuestsOfIp(connections, i)) \in Nat
  BY <1>3, FS_Subset, FS_CardinalityType DEF GuestsOfIp
<1>8. /\ IsFiniteSet(DOMAIN after) /\ Cardinality(DOMAIN after) <= connectionLimit
  <2>1. CASE u \in DOMAIN connections
    <3>1. DOMAIN after = DOMAIN connections
      BY <1>5, <2>1
    <3> QED BY <1>3, <3>1
  <2>2. CASE u \notin DOMAIN connections
    <3>1. Cardinality(DOMAIN connections) < connectionLimit
      BY <1>6, <2>2 DEF ConnectionAllowed
    <3>2. IsFiniteSet(DOMAIN connections) /\ DOMAIN after = DOMAIN connections \cup {u}
      BY <1>3, <1>5
    <3>3. /\ IsFiniteSet(DOMAIN after) /\ Cardinality(DOMAIN after) = Cardinality(DOMAIN connections) + 1
          /\ Cardinality(DOMAIN connections) \in Nat
      BY <2>2, <3>2, FS_AddElement, FS_CardinalityType
    <3> QED BY <3>1, <3>3, LimitsAssumption
  <2> QED BY <2>1, <2>2
<1>9. ASSUME NEW i \in Ips
      PROVE  Cardinality(GuestsOfIp(after, i)) <= connectionsPerIp
  <2>1. CASE i = ip /\ u \notin GuestsOfIp(connections, ip)
    <3>1. Cardinality(GuestsOfIp(connections, ip)) < connectionsPerIp
      BY <1>6, <2>1 DEF ConnectionAllowed, GuestsOfIp
    <3>2. GuestsOfIp(after, ip) = GuestsOfIp(connections, ip) \cup {u}
      BY <1>4, <1>5 DEF GuestsOfIp
    <3>3. /\ Cardinality(GuestsOfIp(after, ip)) = Cardinality(GuestsOfIp(connections, ip)) + 1
          /\ Cardinality(GuestsOfIp(connections, ip)) \in Nat
      BY <1>7, <2>1, <3>2, FS_AddElement
    <3> QED BY <2>1, <3>1, <3>3, LimitsAssumption
  <2>2. CASE i # ip \/ u \in GuestsOfIp(connections, ip)
    <3>1. GuestsOfIp(after, i) \subseteq GuestsOfIp(connections, i)
      BY <1>4, <1>5, <2>2 DEF GuestsOfIp
    <3>2. /\ Cardinality(GuestsOfIp(after, i)) <= Cardinality(GuestsOfIp(connections, i))
          /\ Cardinality(GuestsOfIp(after, i)) \in Nat /\ Cardinality(GuestsOfIp(connections, i)) \in Nat
      BY <1>7, <3>1, FS_Subset, FS_CardinalityType
    <3> QED BY <1>3, <3>2, LimitsAssumption
  <2> QED BY <2>1, <2>2
<1>10. DOMAIN after = {v \in Users : hub'[v] # NoAttempt}
  BY <1>1, <1>2, <1>3, <1>5
<1>11. \A v \in DOMAIN after : after[v].leaseId = hub'[v]
  <2>1. \A v \in DOMAIN connections \ {u} : after[v].leaseId = hub'[v]
    BY <1>2, <1>3, <1>5
  <2>2. after[u].leaseId = hub'[u]
    BY <1>1, <1>2, <1>4, <1>5
  <2> QED BY <1>5, <2>1, <2>2
<1>12. \A v \in DOMAIN after : DOMAIN after[v] = {"ip", "leaseId"}
  BY <1>3, <1>4, <1>5
<1>13. \A i \in Ips : Cardinality(GuestsOfIp(connections, i)') <= connectionsPerIp
  BY <1>9 DEF after, GuestsOfIp
<1>14. demo'
  OBVIOUS
<1> QED BY <1>8, <1>10, <1>11, <1>12, <1>13, <1>14 DEF after, LeaseInv, LeaseFollowsSocket, GuestsOfIp

\* A connection is forgotten by the server.
LEMMA Noticed ==
  ASSUME EntryInv, NEW a \in Attempts, ServerNotices(a)
  PROVE  EntryInv'
<1> DEFINE u == UserOf(a)
           c == [att[a] EXCEPT !.server = "closed", !.joins = FALSE, !.waiting = FALSE]
           e == Settled(c)
           given == CASE seat[u] = "queued" -> "none" [] seat[u] = "held" -> "reserved"
                      [] seat[u] = "ending" -> "endingAway" [] OTHER -> seat[u]
<1>1. /\ att[a] \in Attempt /\ \A b \in Attempts : att[b].tab \in Tabs /\ UserOf(b) \in Users /\ b # NoAttempt
      /\ hub \in [Users -> Nat] /\ seat \in [Users -> Seats]
  BY AttemptsAre DEF EntryInv, EntryTyped, UserOf
<1>2. /\ att' = [att EXCEPT ![a] = e] /\ UNCHANGED <<demo, owner, tab>>
      /\ connections' = release(connections, u, a)
      /\ att[a].server \in {"closing", "admitted", "registered"}
  BY DEF ServerNotices
<1>3. /\ hub' = IF hub[u] = a THEN [hub EXCEPT ![u] = NoAttempt] ELSE hub
      /\ seat' = IF hub[u] = a THEN [seat EXCEPT ![u] = given] ELSE seat
  BY DEF ServerNotices
<1>4. /\ c \in Attempt /\ c.tab = att[a].tab /\ c.stage = att[a].stage /\ c.fresh = att[a].fresh
      /\ c.server = "closed" /\ c.inbox = att[a].inbox
  BY <1>1 DEF Attempt
<1> HIDE DEF c
<1>5. /\ e \in Attempt /\ e.tab = att[a].tab /\ e.stage = att[a].stage /\ e.server = "closed"
      /\ e.stage # "closed" => e.fresh = att[a].fresh
  BY <1>4, SettledIs
<1> HIDE DEF e
<1>6. /\ att' \in Seq(Attempt) /\ DOMAIN att' = Attempts /\ att'[a] = e
      /\ \A b \in Attempts \ {a} : att'[b] = att[b]
  BY <1>2, <1>5, OneChanged DEF EntryInv
<1>7. given \in Seats /\ given \notin {"queued", "held", "ending"}
  BY <1>1 DEF Seats
<1>8. \A v \in Users : /\ hub'[v] = IF v = u /\ hub[u] = a THEN NoAttempt ELSE hub[v]
                       /\ seat'[v] = IF v = u /\ hub[u] = a THEN given ELSE seat[v]
  BY <1>1, <1>3
<1> HIDE DEF given
<1>9. hub' \in [Users -> Nat] /\ seat' \in [Users -> Seats]
  BY <1>1, <1>3, <1>7 DEF NoAttempt
<1>10. EntryTyped' /\ Attempts' = Attempts
  BY <1>2, <1>6, <1>9, AttemptsTyped
<1>11. TabsInv'
  <2>1. \A b \in Attempts :
           /\ att'[b].tab = att[b].tab
           /\ att'[b].stage = att[b].stage
           /\ att[b].stage # "closed" => (att'[b].fresh <=> att[b].fresh)
           /\ att'[b].fresh /\ att'[b].stage # "closed" => Live(b)
           /\ att[b].server \notin Unheard => att'[b].server \notin Unheard
    BY <1>5, <1>6 DEF Live, Unheard
  <2>2. "closed" \notin Wired
    BY DEF Wired
  <2> QED BY <1>2, <1>10, <2>1, <2>2, TabsKept DEF EntryInv
<1>12. \A b \in Attempts : UserOf(b)' = UserOf(b) /\ (b # a => att'[b] = att[b])
  BY <1>2, <1>5, <1>6 DEF UserOf
<1>13. \A b \in Attempts : /\ att[b].stage \in Early => att[b].server = "none"
                           /\ att[b].server \in Unheard => att[b].inbox = <<>>
                           /\ att[b].server = "registered" <=> hub[UserOf(b)] = b
                           /\ att[b].server = "admitted" => ~demo
  BY DEF EntryInv, SocketsInv
<1>14. SocketsInv'
  <2>1. ASSUME NEW b \in Attempts
        PROVE  (/\ att[b].stage \in Early => att[b].server = "none"
                /\ att[b].server \in Unheard => att[b].inbox = <<>>
                /\ att[b].server = "registered" <=> hub[UserOf(b)] = b
                /\ att[b].server = "admitted" => ~demo)'
    <3>1. CASE b = a
      <4>1. att'[b].stage \notin Early
        BY <1>2, <1>5, <1>6, <1>13, <3>1
      <4>2. hub'[u] # a
        BY <1>1, <1>8
      <4> QED BY <1>5, <1>6, <1>12, <3>1, <4>1, <4>2 DEF Unheard
    <3>2. CASE b # a
      <4>1. hub'[UserOf(b)] = b <=> hub[UserOf(b)] = b
        BY <1>1, <1>8, <3>2
      <4> QED BY <1>2, <1>12, <1>13, <3>2, <4>1
    <3> QED BY <3>1, <3>2
  <2>2. ASSUME NEW v \in Users
        PROVE  (/\ hub[v] # NoAttempt => hub[v] \in Attempts /\ UserOf(hub[v]) = v
                /\ seat[v] \in {"queued", "held", "ending"} => hub[v] # NoAttempt
                /\ seat[v] = "reserved" => hub[v] = NoAttempt)'
    <3>1. /\ hub[v] # NoAttempt => hub[v] \in Attempts /\ UserOf(hub[v]) = v
          /\ seat[v] \in {"queued", "held", "ending"} => hub[v] # NoAttempt
          /\ seat[v] = "reserved" => hub[v] = NoAttempt
      BY DEF EntryInv, SocketsInv
    <3>2. CASE v = u /\ hub[u] = a
      BY <1>7, <1>8, <3>2
    <3>3. CASE ~(v = u /\ hub[u] = a)
      <4>1. hub'[v] = hub[v] /\ seat'[v] = seat[v]
        BY <1>8, <3>3
      <4>2. \A b \in Attempts : owner'[att'[b].tab] = UserOf(b)
        BY <1>12 DEF UserOf
      <4> QED BY <1>10, <3>1, <4>1, <4>2 DEF UserOf
    <3> QED BY <3>2, <3>3
  <2> QED BY <1>10, <2>1, <2>2 DEF SocketsInv
<1>15. NewsInv'
  <2> SUFFICES ASSUME NEW b \in Attempts,
                      att'[b].stage \in Wired, att'[b].server = "registered", ~att'[b].cut,
                      ShowsMatch(tab'[att'[b].tab].page, att'[b].inbox)
               PROVE  Plays(b)'
    BY <1>10 DEF NewsInv
  <2>1. b # a /\ att'[b] = att[b] /\ UserOf(b)' = UserOf(b)
    BY <1>5, <1>6, <1>12
  <2>2. hub[UserOf(b)] = b
    BY <1>13, <2>1
  <2>3. seat'[UserOf(b)] = seat[UserOf(b)]
    BY <1>1, <1>8, <2>1, <2>2
  <2> QED BY <1>2, <2>1, <2>3 DEF EntryInv, NewsInv, Plays
<1>16. LeaseInv'
  BY <1>1, <1>2, <1>3, LeaseReturned
<1> QED BY <1>10, <1>11, <1>14, <1>15, <1>16 DEF EntryInv

-----------------------------------------------------------------------------
(* A connection is made.                                                   *)

Seated(u) == IF hub[u] = NoAttempt THEN seat[u] = "reserved" ELSE seat[u] \in Playing

LEMMA GreetingIs ==
  ASSUME NEW u, NEW g \in Greetings(u), NEW page
  PROVE  /\ g \in Seq(Messages)
         /\ ShowsMatch(page, g) => Seated(u) \/ (g = <<>> /\ page.status = "inRoom")
<1> DEFINE newest == IF seat[u] = "ending" THEN "over" ELSE "snapshot"
           shown == With(NewPage, <<"room">>, newest)
<1>1. newest \in Messages
  BY DEF Messages
<1>2. <<"room">> \in Seq(Messages) /\ <<"finished">> \in Seq(Messages) /\ <<>> \in Seq(Messages)
  BY DEF Messages
<1> HIDE DEF newest
<1>3. shown \in Seq(Messages)
  BY <1>1, <1>2, WithIs
<1>4. CASE Seated(u)
  <2>1. g \in {<<"room">>, shown}
    BY <1>4 DEF Greetings, Seated, Playing, newest
  <2> HIDE DEF shown
  <2> QED BY <1>2, <1>3, <1>4, <2>1
<1>5. CASE ~Seated(u)
  <2> DEFINE last == IF u \in recent THEN <<"finished">> ELSE <<>>
  <2>1. g = last
    BY <1>5 DEF Greetings, Seated, Playing
  <2>2. CASE u \in recent
    BY <1>2, <2>1, <2>2 DEF ShowsMatch
  <2>3. CASE u \notin recent
    BY <1>2, <2>1, <2>3 DEF ShowsMatch
  <2> QED BY <2>2, <2>3
<1> QED BY <1>4, <1>5

\* The attempts after hub.connect: the new connection, the one it replaces,
\* and the others.
LEMMA ConnectionsAre ==
  ASSUME EntryInv, NEW a \in Attempts, HubConnect(a), hub[UserOf(a)] # a
  PROVE  /\ att' \in Seq(Attempt) /\ DOMAIN att' = Attempts
         /\ \A b \in Attempts : /\ att'[b].tab = att[b].tab /\ att'[b].stage = att[b].stage
                                /\ att[b].stage # "closed" =>
                                     att'[b].fresh = att[b].fresh /\ att'[b].cut = att[b].cut
         /\ att'[a].server = "registered"
         /\ \E g \in Greetings(UserOf(a)) : att[a].stage # "closed" => att'[a].inbox = g
         /\ \A b \in Attempts \ {a} :
              /\ att'[b].inbox = att[b].inbox /\ att'[b].late = att[b].late
              /\ att'[b].server = IF b = hub[UserOf(a)] THEN "closing" ELSE att[b].server
<1> DEFINE u == UserOf(a)
           p == hub[u]
<1>1. PICK g \in Greetings(u) :
        att' = Replaced([att EXCEPT ![a] = Settled([att[a] EXCEPT !.server = "registered", !.ticket = "none",
                                                       !.inbox = g])], p)
  BY DEF HubConnect
<1> DEFINE c == [att[a] EXCEPT !.server = "registered", !.ticket = "none", !.inbox = g]
           e == Settled(c)
           f == [att EXCEPT ![a] = e]
<1>2. /\ \A b \in Attempts : att[b] \in Attempt /\ b # NoAttempt
      /\ u \in Users /\ (p # NoAttempt => p \in Attempts) /\ p # a
  BY AttemptsAre DEF EntryInv, EntryTyped, SocketsInv, UserOf
<1>3. g \in Seq(Messages)
  BY GreetingIs
<1>4. /\ c \in Attempt /\ c.tab = att[a].tab /\ c.stage = att[a].stage /\ c.fresh = att[a].fresh
      /\ c.cut = att[a].cut /\ c.server = "registered" /\ c.inbox = g
  BY <1>2, <1>3 DEF Attempt
<1>5. att' = Replaced(f, p)
  BY <1>1
<1> HIDE DEF c
<1>6. /\ e \in Attempt /\ e.tab = att[a].tab /\ e.stage = att[a].stage /\ e.server = "registered"
      /\ att[a].stage # "closed" => e.fresh = att[a].fresh /\ e.cut = att[a].cut /\ e.inbox = g
  BY <1>4, SettledIs
<1> HIDE DEF e
<1>7. f \in Seq(Attempt) /\ DOMAIN f = Attempts /\ f[a] = e /\ \A b \in Attempts \ {a} : f[b] = att[b]
  BY <1>6, OneChanged DEF EntryInv
<1> HIDE DEF f, p
<1>8. CASE p = NoAttempt
  <2>1. att' = f /\ \A b \in Attempts : b # p
    BY <1>2, <1>5, <1>8 DEF Replaced
  <2> HIDE DEF u
  <2> QED BY <1>6, <1>7, <2>1 DEF u, p
<1>9. CASE p # NoAttempt
  <2> DEFINE d == [att[p] EXCEPT !.server = "closing", !.waiting = FALSE, !.joins = FALSE]
  <2>1. att' = [f EXCEPT ![p] = d]
    BY <1>2, <1>5, <1>7, <1>9 DEF Replaced
  <2>2. /\ d \in Attempt /\ d.tab = att[p].tab /\ d.stage = att[p].stage /\ d.fresh = att[p].fresh
        /\ d.cut = att[p].cut /\ d.server = "closing" /\ d.inbox = att[p].inbox /\ d.late = att[p].late
    BY <1>2, <1>9 DEF Attempt
  <2> HIDE DEF d
  <2>3. /\ att' \in Seq(Attempt) /\ DOMAIN att' = Attempts /\ att'[p] = d
        /\ \A b \in Attempts \ {p} : att'[b] = f[b]
    BY <1>2, <1>7, <1>9, <2>1, <2>2
  <2> HIDE DEF u
  <2> QED BY <1>2, <1>6, <1>7, <1>9, <2>2, <2>3 DEF u, p
<1> QED BY <1>8, <1>9

LEMMA Registered ==
  ASSUME EntryInv, NEW a \in Attempts, HubConnect(a), LeaseInv',
         att[a].server \in {"coming", "admitted"}
  PROVE  EntryInv'
<1> DEFINE u == UserOf(a)
           taken == CASE seat[u] = "queued" -> "none" [] seat[u] = "reserved" -> "held" [] OTHER -> seat[u]
<1>1. /\ \A b \in Attempts : att[b].tab \in Tabs /\ UserOf(b) \in Users /\ b # NoAttempt
      /\ a \in Nat /\ hub \in [Users -> Nat] /\ seat \in [Users -> Seats]
  BY AttemptsAre DEF EntryInv, EntryTyped, UserOf
<1>2. \A b \in Attempts : /\ att[b].stage \in Early => att[b].server = "none"
                          /\ att[b].server \in Unheard => att[b].inbox = <<>>
                          /\ att[b].server = "registered" <=> hub[UserOf(b)] = b
                          /\ att[b].server = "admitted" => ~demo
  BY DEF EntryInv, SocketsInv
<1>3. /\ UNCHANGED <<demo, owner, tab>> /\ hub[u] # a
      /\ hub' = [hub EXCEPT ![u] = a] /\ seat' = [seat EXCEPT ![u] = taken]
  BY <1>2 DEF HubConnect
<1>4. \A v \in Users : hub'[v] = (IF v = u THEN a ELSE hub[v]) /\ seat'[v] = (IF v = u THEN taken ELSE seat[v])
  BY <1>1, <1>3
<1>5. /\ taken \in Seats \ {"queued", "reserved"}
      /\ Seated(u) => taken \in Playing
  BY <1>1 DEF Seats, Seated, Playing
<1> HIDE DEF taken
<1>6. /\ hub' \in [Users -> Nat] /\ seat' \in [Users -> Seats]
  BY <1>1, <1>3, <1>5
<1>7. /\ att' \in Seq(Attempt) /\ DOMAIN att' = Attempts
      /\ \A b \in Attempts : /\ att'[b].tab = att[b].tab /\ att'[b].stage = att[b].stage
                             /\ att[b].stage # "closed" =>
                                  att'[b].fresh = att[b].fresh /\ att'[b].cut = att[b].cut
      /\ att'[a].server = "registered"
      /\ \E g \in Greetings(u) : att[a].stage # "closed" => att'[a].inbox = g
      /\ \A b \in Attempts \ {a} :
           /\ att'[b].inbox = att[b].inbox /\ att'[b].late = att[b].late
           /\ att'[b].server = IF b = hub[u] THEN "closing" ELSE att[b].server
  BY <1>3, ConnectionsAre
<1>8. EntryTyped' /\ Attempts' = Attempts
  BY <1>3, <1>6, <1>7, AttemptsTyped
<1>9. TabsInv'
  <2>1. \A b \in Attempts : att[b].server \notin Unheard => att'[b].server \notin Unheard
    BY <1>7 DEF Unheard
  <2>2. "closed" \notin Wired
    BY DEF Wired
  <2> QED BY <1>3, <1>7, <1>8, <2>1, <2>2, TabsKept DEF EntryInv, Live
<1>10. \A b \in Attempts : owner'[att'[b].tab] = UserOf(b)
  BY <1>3, <1>7 DEF UserOf
<1>11. SocketsInv'
  <2>1. ASSUME NEW b \in Attempts
        PROVE  (/\ att[b].stage \in Early => att[b].server = "none"
                /\ att[b].server \in Unheard => att[b].inbox = <<>>
                /\ att[b].server = "registered" <=> hub[UserOf(b)] = b
                /\ att[b].server = "admitted" => ~demo)'
    <3>1. CASE b = a
      <4>1. owner'[att'[a].tab] = u /\ hub'[u] = a /\ u \in Users
        BY <1>1, <1>4, <1>10
      <4> HIDE DEF u
      <4>2. att[a].stage \notin Early
        BY <1>2
      <4> QED BY <1>7, <3>1, <4>1, <4>2 DEF UserOf, Unheard
    <3>2. CASE b # a /\ b = hub[u]
      <4>1. UserOf(b) = u /\ att[b].stage \notin Early
        BY <1>1, <1>2, <3>2, HubOf
      <4>2. owner'[att'[b].tab] = u /\ hub'[u] = a
        BY <1>1, <1>4, <1>10, <4>1
      <4>3. att'[b].server = "closing" /\ att'[b].stage \notin Early
        BY <1>7, <3>2, <4>1
      <4> HIDE DEF u
      <4> QED BY <3>2, <4>2, <4>3 DEF UserOf, Unheard
    <3>3. CASE b # a /\ b # hub[u]
      <4>1. hub'[UserOf(b)] = b <=> hub[UserOf(b)] = b
        BY <1>1, <1>4, <3>3
      <4> QED BY <1>1, <1>2, <1>3, <1>7, <1>10, <3>3, <4>1 DEF UserOf
    <3> QED BY <3>1, <3>2, <3>3
  <2>2. ASSUME NEW v \in Users
        PROVE  (/\ hub[v] # NoAttempt => hub[v] \in Attempts /\ UserOf(hub[v]) = v
                /\ seat[v] \in {"queued", "held", "ending"} => hub[v] # NoAttempt
                /\ seat[v] = "reserved" => hub[v] = NoAttempt)'
    <3>1. /\ hub[v] # NoAttempt => hub[v] \in Attempts /\ UserOf(hub[v]) = v
          /\ seat[v] \in {"queued", "held", "ending"} => hub[v] # NoAttempt
          /\ seat[v] = "reserved" => hub[v] = NoAttempt
      BY DEF EntryInv, SocketsInv
    <3>2. CASE v = u
      BY <1>1, <1>4, <1>5, <1>8, <1>10, <3>2 DEF UserOf
    <3>3. CASE v # u
      BY <1>4, <1>8, <1>10, <3>1, <3>3 DEF UserOf
    <3> QED BY <3>2, <3>3
  <2> QED BY <1>8, <2>1, <2>2 DEF SocketsInv
<1>12. NewsInv'
  <2> SUFFICES ASSUME NEW b \in Attempts,
                      att'[b].stage \in Wired, att'[b].server = "registered", ~att'[b].cut,
                      ShowsMatch(tab'[att'[b].tab].page, att'[b].inbox)
               PROVE  seat'[owner'[att'[b].tab]] \in Playing \/ att'[b].late
    BY <1>8 DEF NewsInv, UserOf, Plays
  <2>1. CASE b = a
    <3> DEFINE page == tab[att[a].tab].page
    <3>1. PICK g \in Greetings(u) : att[a].stage \in Wired /\ ShowsMatch(page, g)
      BY <1>3, <1>7, <2>1 DEF Wired
    <3>2. page.status # "inRoom"
      BY <1>1, <3>1 DEF EntryInv, TabsInv, isCurrent, Unheard
    <3>3. Seated(u)
      <4> HIDE DEF page, u
      <4> QED BY <3>1, <3>2, GreetingIs
    <3> QED BY <1>1, <1>4, <1>5, <1>10, <2>1, <3>3
  <2>2. CASE b # a
    <3>1. /\ att[b].server = "registered" /\ b # hub[u] /\ att[b].stage \in Wired /\ ~att[b].cut
          /\ ShowsMatch(tab[att[b].tab].page, att[b].inbox)
      BY <1>3, <1>7, <2>2 DEF Wired
    <3>2. UserOf(b) # u /\ Plays(b)
      BY <1>2, <3>1 DEF EntryInv, NewsInv
    <3> QED BY <1>1, <1>4, <1>7, <1>10, <2>2, <3>2 DEF Plays
  <2> QED BY <2>1, <2>2
<1> QED BY <1>8, <1>9, <1>11, <1>12 DEF EntryInv

LEMMA GuestLetIn ==
  ASSUME EntryInv, NEW a \in Attempts, NEW ip \in Ips, AuthenticateGuest(a, ip)
  PROVE  EntryInv'
<1>1. CASE Rejected(a)
  BY <1>1, TurnedAway DEF AuthenticateGuest
<1>2. CASE ~Rejected(a)
  <2>1. /\ demo /\ AtTheDoor(a) /\ HubConnect(a)
        /\ ConnectionAllowed(connections, ip, UserOf(a))
        /\ connections' = acquireConnection(connections, ip, UserOf(a), a)
    BY <1>2 DEF AuthenticateGuest
  <2>2. att[a].server = "coming"
    BY <2>1 DEF AtTheDoor
  <2>3. UserOf(a) \in Users
    BY AttemptsAre DEF EntryInv, EntryTyped, UserOf
  <2>4. UNCHANGED demo /\ hub' = [hub EXCEPT ![UserOf(a)] = a]
    BY <2>1 DEF HubConnect
  <2>5. LeaseInv'
    BY <2>1, <2>3, <2>4, LeaseTaken
  <2> QED BY <2>1, <2>2, <2>5, Registered
<1> QED BY <1>1, <1>2

LEMMA Admitted ==
  ASSUME EntryInv, NEW a \in Attempts, Admit(a)
  PROVE  EntryInv'
<1>1. att[a].server = "admitted" /\ HubConnect(a) /\ UNCHANGED connections
  BY DEF Admit
<1>2. ~demo
  BY <1>1 DEF EntryInv, SocketsInv
<1>3. UNCHANGED demo
  BY <1>1 DEF HubConnect
<1>4. connections = Nothing /\ connections' = Nothing /\ ~demo'
  BY <1>1, <1>2, <1>3 DEF EntryInv, LeaseInv, LeaseFollowsSocket
<1>5. LeaseInv'
  BY <1>1, <1>4 DEF EntryInv, LeaseInv, LeaseFollowsSocket
<1> QED BY <1>1, <1>2, <1>5, Registered

-----------------------------------------------------------------------------
(* The theorems.                                                           *)

LEMMA EntryStarts ==
  ASSUME EntryInit
  PROVE  EntryInv
<1>1. /\ att = <<>> /\ Attempts = {} /\ att \in Seq(Attempt)
      /\ hub = [u \in Users |-> NoAttempt] /\ seat = [u \in Users |-> "none"] /\ connections = Nothing
      /\ demo \in BOOLEAN /\ owner \in [Tabs -> Users]
  BY DEF EntryInit, Attempts
<1> DEFINE n == [page |-> NewPage, seen |-> "startable", current |-> NoAttempt,
                 timer |-> FALSE, window |-> "none"]
<1>2. n \in TabRecord /\ n.current = NoAttempt /\ ~n.timer /\ n.page.status # "inRoom"
  BY DEF TabRecord, NewPage, NoAttempt, Statuses
<1>3. tab = [t \in Tabs |-> n]
  BY DEF EntryInit
<1> HIDE DEF n
<1>4. EntryTyped
  BY <1>1, <1>2, <1>3 DEF EntryTyped, NoAttempt, Seats
<1>5. TabsInv
  BY <1>1, <1>2, <1>3 DEF TabsInv
<1>6. SocketsInv
  BY <1>1 DEF SocketsInv
<1>7. NewsInv
  BY <1>1 DEF NewsInv
<1>8. LeaseInv
  <2>1. /\ DOMAIN connections = {} /\ IsFiniteSet({}) /\ Cardinality({}) = 0
        /\ {u \in Users : hub[u] # NoAttempt} = {}
    BY <1>1, NobodyOnLease, FS_EmptySet
  <2>2. \A ip \in Ips : GuestsOfIp(connections, ip) = {}
    BY <2>1 DEF GuestsOfIp
  <2>3. 0 <= connectionsPerIp /\ 0 <= connectionLimit
    BY LimitsAssumption
  <2> QED BY <1>1, <2>1, <2>2, <2>3 DEF LeaseInv, LeaseFollowsSocket
<1> QED BY <1>4, <1>5, <1>6, <1>7, <1>8 DEF EntryInv

\* The steps of the hub and of the network that concern an attempt.
LEMMA EntryStep ==
  ASSUME EntryInv, [EntryNext]_entryVars
  PROVE  EntryInv'
<1>1. ASSUME NEW t \in Tabs, \/ Render(t) \/ Connect(t) \/ LeavePage(t)
                             \/ ReconnectTimerFires(t) \/ ReconnectWindowEnds(t)
      PROVE  EntryInv'
  BY <1>1, TabOnly, Connected, PageLeft, Reconnecting
<1>2. ASSUME NEW a \in Attempts, TicketAnswered(a)
      PROVE  EntryInv'
  BY <1>2, TicketUsed, TooLate
<1>3. ASSUME NEW a \in Attempts, SocketOpens(a) \/ Deliver(a) \/ SocketCloses(a) \/ IssueTicket(a)
      PROVE  EntryInv'
  BY <1>3, SocketOpened, Delivered, SocketClosed, TicketIssued
<1>4. ASSUME NEW a \in Attempts, NEW ip \in Ips, AuthenticateGuest(a, ip)
      PROVE  EntryInv'
  BY <1>4, GuestLetIn
<1>5. ASSUME NEW a \in Attempts, \/ ConsumeTicket(a) \/ Admit(a) \/ UpgradeLost(a) \/ ServerNotices(a)
                                \/ JoinQueue(a) \/ SnapshotRetried(a) \/ Cut(a)
      PROVE  EntryInv'
  BY <1>5, TicketConsumed, Admitted, LostOnTheWay, Noticed, QueueJoined, SnapshotComesLate, TurnedAway
<1>6. ASSUME NEW u \in Users, MatchFound(u) \/ SendSnapshot(u) \/ GuestMatchEnds(u) \/ MatchEnds(u)
      PROVE  EntryInv'
  BY <1>6, MatchSays, SnapshotSent, Ended
<1>7. ASSUME NEW u \in Users, ResultWritten(u) \/ MatchAbandoned(u) \/ GuestResultExpires(u)
      PROVE  EntryInv'
  <2>1. ResultWritten(u) => seat[u] = "ending" \/ seat[u] = "endingAway"
    BY DEF ResultWritten
  <2> QED BY <1>7, <2>1, MatchSays, Dropped
<1>8. CASE UNCHANGED entryVars
  <2>1. UNCHANGED <<demo, owner, tab, att, hub, seat, recent, connections, faults>>
    BY <1>8 DEF entryVars
  <2>2. EntryTyped' /\ Attempts' = Attempts
    BY <2>1 DEF EntryInv, EntryTyped, Attempts
  <2>3. TabsInv' /\ SocketsInv' /\ NewsInv'
    <3>1. TabsInv'
      BY <2>1, <2>2, TabsKept DEF EntryInv, Live
    <3>2. SocketsInv'
      BY <2>1, <2>2, SocketsKept DEF EntryInv, SocketsSettle
    <3>3. NewsInv'
      BY <2>1, <2>2, NewsKept DEF EntryInv
    <3> QED BY <3>1, <3>2, <3>3
  <2> QED BY <2>1, <2>2, <2>3, LeasesKept DEF EntryInv
<1> QED BY <1>1, <1>2, <1>3, <1>4, <1>5, <1>6, <1>7, <1>8 DEF EntryNext, UnderWay

\* What holds between the tabs, the sockets, the hub, the seats and the leases
\* at every moment (GameSocketClient.ts:52-187, gameHub.ts:188-241,
\* guestAccess.ts:248-303): the inductive invariant of this module.
THEOREM EntryInvariance == EntrySpec => []EntryInv
<1>1. EntryInit => EntryInv
  BY EntryStarts
<1>2. EntryInv /\ [EntryNext]_entryVars => EntryInv'
  BY EntryStep
<1> QED BY <1>1, <1>2, PTL DEF EntrySpec

\* A tab never has two sockets (GameSocketClient.ts:52-64, 99, 167-187).
THEOREM OneLiveSocketPerTabAlways == EntrySpec => []OneLiveSocketPerTab
<1>1. EntryInv => OneLiveSocketPerTab
  BY DEF EntryInv, TabsInv, Wired, OneLiveSocketPerTab
<1> QED BY <1>1, EntryInvariance, PTL

\* The leases are those of the sockets the hub knows, and within the limits
\* (guestAccess.ts:248-303; app.ts:225-233; gameHub.ts:188-241).
THEOREM LeaseFollowsSocketAlways == EntrySpec => []LeaseFollowsSocket
<1>1. EntryInv => LeaseFollowsSocket
  BY DEF EntryInv, LeaseInv
<1> QED BY <1>1, EntryInvariance, PTL

\* A tab that shows a match and has heard everything plays it, or a snapshot of
\* an ended match reached it late through the buffer (gameHub.ts:341-427, 1097-1111; gameConnection.ts:62-122).
THEOREM PlayingTabHasSeatAlways == EntrySpec => []PlayingTabHasSeat
<1>1. ASSUME EntryInv
      PROVE  PlayingTabHasSeat
  <2> SUFFICES ASSUME NEW t \in Tabs, NEW a, a = tab[t].current,
                      tab[t].page.status = "inRoom", a # NoAttempt,
                      att[a].inbox = <<>>, ~att[a].cut, att[a].server \notin {"closing", "closed"}
               PROVE  hub[owner[t]] = a /\ (seat[owner[t]] \in Playing \/ att[a].late)
    BY DEF PlayingTabHasSeat, Playing
  <2>1. /\ a \in Attempts /\ att[a].tab = t /\ att[a].stage \in Wired
        /\ att[a].server \notin Unheard
    BY <1>1 DEF EntryInv, TabsInv
  <2>2. att[a].server = "registered"
    <3>1. att[a] \in Attempt
      BY <1>1, <2>1, AttemptsAre DEF EntryInv, EntryTyped
    <3> QED BY <2>1, <3>1 DEF Attempt, Unheard
  <2>3. hub[UserOf(a)] = a
    BY <1>1, <2>1, <2>2 DEF EntryInv, SocketsInv
  <2>4. ShowsMatch(tab[att[a].tab].page, att[a].inbox)
    BY <2>1 DEF ShowsMatch
  <2>5. Plays(a)
    BY <1>1, <2>1, <2>2, <2>4 DEF EntryInv, NewsInv
  <2> QED BY <2>1, <2>3, <2>5 DEF UserOf, Plays
<1>2. EntryInv => PlayingTabHasSeat
  BY <1>1
<1> QED BY <1>2, EntryInvariance, PTL
==============================================================================
