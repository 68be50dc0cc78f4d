------------------------- MODULE NetplayGameProofs -------------------------
(***************************************************************************)
(* Netplay implements Lockstep, as long as a client does not stall in the  *)
(* frame in which it loads a savestate that is ahead of it: the peers play *)
(* one game.  For any clients, any sizes of the rings, any latency, any    *)
(* inputs and any number of savestates.                                    *)
(***************************************************************************)
EXTENDS NetplayProofs

\* What is known of the game as a whole, of which each peer only keeps the last frames:
\* the inputs that were taken, per player and frame, the frame from which a player
\* plays, and the frame from which a savestate is played on.
Games ==
  [ made : [Peers -> SUBSET Frames], real : [Peers -> [Frames -> SUBSET Buttons]],
    joined : [Peers -> Counts],      from : [Nat -> Frames] ]

\* The input of a frame, and the inputs of the frames from a to the one before b.
Board(w, g)       == [c \in Peers |-> IF g \in w.made[c] THEN w.real[c][g] ELSE Zero]
Official(w, a, b) == [k \in 1..b - a |-> Board(w, a + k - 1)]

\* The state that a peer will not go back behind.
Certain(i, p) == IF p.other < p.run \/ p.force_rewind THEN At(i, p, p.other).state ELSE p.core

\* The frame is in the ring.
Has(i, p, f) == At(i, p, f).frame = f

\* The inputs a peer has are those that were taken.
Heard(w, p) ==
  \A k \in DOMAIN p.ring : \A c \in p.ring[k].have_real :
    p.ring[k].frame \in w.made[c] /\ p.ring[k].real[c] = w.real[c][p.ring[k].frame]

\* A peer takes an input once for a frame, from the frame on in which it joined, and keeps it
\* as long as it may be needed.
Takes(w, i, p) ==
  /\ p.playing <=> i \in p.players
  /\ i \notin p.players => w.made[i] = {}
  /\ \A g \in w.made[i] : w.joined[i] <= g /\ g <= p.self
  /\ p.self \in w.made[i] /\ p.other <= p.self => At(i, p, p.self).have_local
  /\ \A g \in w.made[i] : p.other <= g => Has(i, p, g) /\ i \in At(i, p, g).have_real
  /\ i \in p.players =>
       \A g \in Frames : p.self <= g /\ g < w.joined[i] /\ p.other <= g =>
         Has(i, p, g) /\ At(i, p, g).have_local

\* It has each input of another player that it has read and may need.
Reads(w, i, p) ==
  \A c \in p.players \ {i} :
    /\ w.joined[c] <= p.read[c]
    /\ \A g \in Frames : p.other <= g /\ w.joined[c] <= g /\ g < p.read[c] =>
         Has(i, p, g) /\ c \in At(i, p, g).have_real

\* The state to go back to is there.
Saves(i, p) ==
  /\ p.force_rewind => Has(i, p, p.other)
  /\ p.polling /\ p.other <= p.run => Has(i, p, p.run)
  /\ p.polling /\ ~p.force_rewind => At(i, p, p.run).state = p.core

\* No input of c will be taken any more for a frame, of which P is what the peers are.
Settled(w, P, c, g) ==
  g \in w.made[c] \/ (c \in P[Server].players => g < w.joined[c]) \/ g < P[c].self

\* What a peer is certain of is the game from a savestate on.
Agrees(w, P, i) ==
  LET p == P[i]
      s == Certain(i, p)
  IN s.load # Unsynced =>
       /\ s.load \in 0..P[Server].loads /\ w.from[s.load] <= p.other
       /\ s.inputs = Official(w, w.from[s.load], p.other)
       /\ \A c \in Peers : \A g \in w.from[s.load]..p.other - 1 : Settled(w, P, c, g)

\* Who plays, as far as a client has read; s is on its way to it.
Follows(w, P, i, s) ==
  /\ P[i].players \subseteq P[Server].players
  /\ P[i].server <= P[Server].read[Server]
  /\ \A c \in P[Server].players \ P[i].players :
       /\ P[i].server <= w.joined[c]
       /\ P[i].connected => \E k \in DOMAIN s : s[k] = ModeMsg(w.joined[c], c)

\* What is on its way to the server.
ToServer(w, P, c, s) ==
  /\ \A k \in DOMAIN s : s[k].type = "input" =>
       s[k].frame \in w.made[c] /\ s[k].input = w.real[c][s[k].frame]
  /\ \A k \in DOMAIN s : s[k].type = "play" => c \notin P[Server].players
  /\ \A k, l \in DOMAIN s : s[k].type = "play" /\ s[l].type = "play" => k = l
  /\ ~P[c].asked => c \notin P[Server].players /\ \A k \in DOMAIN s : s[k].type # "play"

\* A message to client i that is true of the game.
Tells(w, P, i, m) ==
  /\ m.type = "input" =>
       /\ m.frame \in w.made[m.client] /\ m.input = w.real[m.client][m.frame]
       /\ m.client = Server => m.frame < P[Server].read[Server]
  /\ m.type = "mode" =>
       /\ m.client \in P[Server].players /\ m.frame = w.joined[m.client]
       /\ P[i].connected => m.client \notin P[i].players
  /\ m.type = "savestate" =>
       /\ m.state.inputs = <<>> /\ m.state.load \in 1..P[Server].loads
       /\ w.from[m.state.load] = m.frame
       /\ Certain(i, P[i]).load < m.state.load

\* A message and a later one.
InOrder(m, n) ==
  /\ m.type = "input" /\ n.type = "mode" /\ m.client = Server => m.frame < n.frame
  /\ m.type = "mode" /\ n.type = "mode" => m.client # n.client
  /\ m.type = "savestate" /\ n.type = "savestate" => m.state.load < n.state.load

\* What is on its way to a client.
ToClient(w, P, i, s) ==
  /\ \A k \in DOMAIN s : Tells(w, P, i, s[k])
  /\ \A k, l \in DOMAIN s : k < l => InOrder(s[k], s[l])

\* The peers, and what is under way between them, are of one game.
GameInv(w, P, ts, tc) ==
  /\ w.joined[Server] = 0
  /\ \A i \in Peers : Heard(w, P[i]) /\ Takes(w, i, P[i]) /\ Reads(w, i, P[i]) /\ Saves(i, P[i])
                      /\ Agrees(w, P, i)
  /\ \A c \in Clients : /\ Follows(w, P, c, tc[c])
                        /\ ToServer(w, P, c, ts[c]) /\ ToClient(w, P, c, tc[c])
-----------------------------------------------------------------------------
(* What one peer does and the rest of the game. *)

\* A step of peer i, by which the game may become more than it was.
Moves(w, v, P, Q, i) ==
  /\ w \in Games /\ v \in Games /\ v.joined[Server] = 0
  /\ \A j \in Peers : j # i => Q[j] = P[j]
  /\ P[i].self <= Q[i].self
  /\ \A c \in Peers : /\ w.made[c] \subseteq v.made[c]
                      /\ c # i => v.made[c] = w.made[c]
                      /\ \A g \in w.made[c] : v.real[c][g] = w.real[c][g]
  /\ \A g \in v.made[i] \ w.made[i] : Settled(w, P, i, g) => v.real[i][g] = Zero
  /\ P[Server].players \subseteq Q[Server].players
  /\ \A c \in P[Server].players : v.joined[c] = w.joined[c]
  /\ \A c \in Q[Server].players \ P[Server].players : P[Server].read[Server] <= v.joined[c]
  /\ P[Server].loads <= Q[Server].loads
  /\ \A l \in 0..P[Server].loads : v.from[l] = w.from[l]
  /\ P[Server].read[Server] <= Q[Server].read[Server]

\* Each peer is as NetplayProofs says.
Sound(P) == \A j \in Peers : PeerInv(j, P[j])

\* The parts of a game are numbers.
LEMMA GameTypes ==
  ASSUME NEW w \in Games
  PROVE  /\ \A c \in Peers : w.made[c] \subseteq Frames /\ w.joined[c] \in Nat
         /\ \A c \in Peers : \A g \in Frames : w.real[c][g] \in SUBSET Buttons
         /\ \A l \in Nat : w.from[l] \in Nat /\ w.from[l] \in Frames
BY FramesNat DEF Games

\* The counts of the server are numbers.
LEMMA ServerCounts ==
  ASSUME NEW P, Sound(P)
  PROVE  P[Server].read[Server] \in Nat /\ P[Server].loads \in Nat /\ P[Server].self \in Nat
         /\ P[Server].players \subseteq Peers /\ Server \in P[Server].players
<1>1. Server \in Peers
  BY DEF Peers
<1>2. P[Server] \in Netplays(Server) /\ Counted(Server, P[Server])
  BY <1>1 DEF Sound, PeerInv
<1>3. P[Server].read \in [Peers -> Counts] /\ P[Server].loads \in 0..MaxLoads
  BY <1>2, PeerTypes
<1>4. P[Server].read[Server] \in Counts
  BY <1>1, <1>3
<1>5. P[Server].self \in Frames /\ P[Server].players \in SUBSET Peers
  BY <1>2, PeerTypes
<1>6. P[Server].loads \in Nat
  BY <1>3
<1> QED BY <1>2, <1>4, <1>5, <1>6, FramesNat DEF Counted

\* What a peer is certain of is behind what the server has sent.
LEMMA CertainIsSent ==
  ASSUME NEW P, Sound(P), NEW w, NEW ts, NEW tc, GameInv(w, P, ts, tc), NEW j \in Peers
  PROVE  /\ P[j].other \in Nat /\ P[j].self \in Nat /\ P[Server].read[Server] \in Nat
         /\ P[j].other <= P[Server].read[Server]
<1>1. Server \in Peers /\ (j # Server => j \in Clients)
  BY DEF Peers
<1>2. PeerInv(j, P[j]) /\ PeerInv(Server, P[Server])
  BY <1>1 DEF Sound
<1>3. /\ P[j] \in Netplays(j) /\ Counted(j, P[j])
      /\ P[Server] \in Netplays(Server) /\ Counted(Server, P[Server])
  BY <1>2 DEF PeerInv
<1>4. P[j].other \in Nat /\ P[j].self \in Nat /\ P[j].server \in Nat /\ P[Server].read[Server] \in Nat
  <2>1. P[Server].read \in [Peers -> Counts]
    BY <1>3, PeerTypes
  <2> QED BY <1>1, <1>3, <2>1, PeerTypes, FramesNat
<1>5. CASE j = Server
  BY <1>3, <1>4, <1>5 DEF Counted
<1>6. CASE j # Server
  <2>1. P[j].server <= P[Server].read[Server]
    BY <1>1, <1>6 DEF GameInv, Follows
  <2>2. P[j].other <= P[j].server
    BY <1>3, <1>6 DEF Counted
  <2> QED BY <1>4, <2>1, <2>2
<1> QED BY <1>4, <1>5, <1>6

\* A frame that is settled stays so.
LEMMA SettledStays ==
  ASSUME NEW P, NEW Q, NEW w, NEW v, NEW i \in Peers, Moves(w, v, P, Q, i), Sound(P), Sound(Q),
         NEW c \in Peers, NEW g \in Nat, g < P[Server].read[Server], Settled(w, P, c, g)
  PROVE  Settled(v, Q, c, g)
<1>1. Server \in Peers
  BY DEF Peers
<1>2. \A j \in Peers : P[j].self \in Nat /\ Q[j].self \in Nat /\ P[j].read[Server] \in Nat
  <2>1. \A j \in Peers : P[j] \in Netplays(j) /\ Q[j] \in Netplays(j)
    BY DEF Sound, PeerInv
  <2>2. \A j \in Peers : P[j].read \in [Peers -> Counts]
    BY <2>1, PeerTypes
  <2> QED BY <1>1, <2>1, <2>2, PeerTypes, FramesNat
<1>3. v.joined[c] \in Nat
  BY GameTypes DEF Moves
<1>4. CASE g \in w.made[c]
  BY <1>4 DEF Moves, Settled
<1>5. CASE g < P[c].self
  <2>1. P[c].self <= Q[c].self
    BY <1>2 DEF Moves
  <2> QED BY <1>2, <1>5, <2>1 DEF Settled
<1>6. CASE c \in P[Server].players => g < w.joined[c]
  <2>1. CASE c \in P[Server].players
    BY <1>6, <2>1 DEF Moves, Settled
  <2>2. CASE c \in Q[Server].players \ P[Server].players
    <3>1. P[Server].read[Server] <= v.joined[c]
      BY <2>2 DEF Moves
    <3>2. g < v.joined[c]
      BY <1>1, <1>2, <1>3, <3>1
    <3> QED BY <3>2 DEF Settled
  <2>3. CASE c \notin Q[Server].players
    BY <2>3 DEF Settled
  <2> QED BY <2>1, <2>2, <2>3
<1> QED BY <1>4, <1>5, <1>6 DEF Settled

\* The input of a frame that is settled does not change.
LEMMA BoardStays ==
  ASSUME NEW P, NEW Q, NEW w, NEW v, NEW i \in Peers, Moves(w, v, P, Q, i),
         NEW g, \A c \in Peers : Settled(w, P, c, g)
  PROVE  Board(v, g) = Board(w, g)
<1>1. ASSUME NEW c \in Peers
      PROVE  (IF g \in v.made[c] THEN v.real[c][g] ELSE Zero)
               = (IF g \in w.made[c] THEN w.real[c][g] ELSE Zero)
  <2>1. CASE g \in w.made[c]
    BY <2>1 DEF Moves
  <2>2. CASE g \in v.made[c] \ w.made[c]
    <3>1. c = i
      BY <2>2 DEF Moves
    <3>2. v.real[c][g] = Zero
      BY <2>2, <3>1 DEF Moves
    <3> QED BY <2>2, <3>2
  <2> QED BY <2>1, <2>2
<1> QED BY <1>1 DEF Board

\* Nor do those of a stretch of such frames.
LEMMA OfficialStays ==
  ASSUME NEW P, NEW Q, NEW w, NEW v, NEW i \in Peers, Moves(w, v, P, Q, i),
         NEW a \in Nat, NEW b \in Nat,
         \A c \in Peers : \A g \in a..b - 1 : Settled(w, P, c, g)
  PROVE  Official(v, a, b) = Official(w, a, b)
<1>1. ASSUME NEW k \in 1..b - a
      PROVE  Board(v, a + k - 1) = Board(w, a + k - 1)
  <2>1. PICK g : g = a + k - 1
    OBVIOUS
  <2>2. g \in a..b - 1
    BY <2>1
  <2>3. \A c \in Peers : Settled(w, P, c, g)
    BY <2>2
  <2>4. Board(v, g) = Board(w, g)
    BY <2>3, BoardStays
  <2> QED BY <2>1, <2>4
<1> QED BY <1>1 DEF Official

\* A peer whose certain state has not changed still agrees.
LEMMA AgreesStays ==
  ASSUME NEW P, NEW Q, NEW w, NEW v, NEW i \in Peers, Moves(w, v, P, Q, i), Sound(P), Sound(Q),
         NEW ts, NEW tc, GameInv(w, P, ts, tc), NEW j \in Peers,
         Certain(j, Q[j]) = Certain(j, P[j]), Q[j].other = P[j].other
  PROVE  Agrees(v, Q, j)
<1>1. SUFFICES ASSUME Certain(j, P[j]).load # Unsynced
               PROVE  Agrees(v, Q, j)
  BY DEF Agrees
<1>2. PICK l : l = Certain(j, P[j]).load
  OBVIOUS
<1>3. PICK b : b = P[j].other
  OBVIOUS
<1>4. PICK a : a = w.from[l]
  OBVIOUS
<1>5. /\ l \in 0..P[Server].loads /\ a <= b
      /\ Certain(j, P[j]).inputs = Official(w, a, b)
      /\ \A c \in Peers : \A g \in a..b - 1 : Settled(w, P, c, g)
  BY <1>1, <1>2, <1>3, <1>4 DEF GameInv, Agrees
<1>6. b \in Nat /\ P[Server].read[Server] \in Nat /\ b <= P[Server].read[Server]
  BY <1>3, CertainIsSent
<1>7. P[Server].loads \in Nat /\ Q[Server].loads \in Nat
  <2>1. P[Server] \in Netplays(Server) /\ Q[Server] \in Netplays(Server)
    BY DEF Sound, PeerInv, Peers
  <2> QED BY <2>1, PeerTypes, NetplayAssumption
<1>8. l \in Nat
  BY <1>5, <1>7
<1>9. v.from[l] = a /\ a \in Nat
  BY <1>4, <1>5, <1>8, GameTypes DEF Moves
<1>10. Official(v, a, b) = Official(w, a, b)
  BY <1>5, <1>6, <1>9, OfficialStays
<1>11. ASSUME NEW c \in Peers, NEW g \in a..b - 1
       PROVE  Settled(v, Q, c, g)
  <2>1. g \in Nat /\ g < P[Server].read[Server]
    BY <1>6, <1>9
  <2>2. Settled(w, P, c, g)
    BY <1>5
  <2> QED BY <2>1, <2>2, SettledStays
<1>12. l \in 0..Q[Server].loads
  BY <1>5, <1>7 DEF Moves
<1> QED BY <1>2, <1>3, <1>5, <1>9, <1>10, <1>11, <1>12 DEF Agrees

\* What the others have is still true of the game.
LEMMA OthersStay ==
  ASSUME NEW P, NEW Q, NEW w, NEW v, NEW i \in Peers, Moves(w, v, P, Q, i), Sound(P), Sound(Q),
         NEW ts, NEW tc, GameInv(w, P, ts, tc), NEW j \in Peers, j # i
  PROVE  /\ Heard(v, Q[j]) /\ Takes(v, j, Q[j]) /\ Reads(v, j, Q[j]) /\ Saves(j, Q[j])
         /\ Agrees(v, Q, j)
<1>1. PICK p : p = P[j]
  OBVIOUS
<1>2. Q[j] = p
  BY <1>1 DEF Moves
<1>3. Heard(w, p) /\ Takes(w, j, p) /\ Reads(w, j, p) /\ Saves(j, p)
  BY <1>1 DEF GameInv
<1>4. p \in Netplays(j)
  BY <1>1 DEF Sound, PeerInv
<1>5. Server \in Peers /\ (j # Server => j \in Clients)
  BY DEF Peers
<1>6. p.players \subseteq P[Server].players /\ p.players \subseteq Peers
  <2>1. CASE j = Server
    BY <1>1, <1>4, <2>1, PeerTypes
  <2>2. CASE j # Server
    BY <1>1, <1>4, <1>5, <2>2, PeerTypes DEF GameInv, Follows
  <2> QED BY <2>1, <2>2
<1>7. \A c \in p.players : v.joined[c] = w.joined[c]
  BY <1>6 DEF Moves
<1>8. Heard(v, p)
  <2>1. ASSUME NEW k \in DOMAIN p.ring, NEW c \in p.ring[k].have_real
        PROVE  p.ring[k].frame \in v.made[c] /\ p.ring[k].real[c] = v.real[c][p.ring[k].frame]
    <3>1. p.ring[k] \in Deltas
      BY <1>4, RingPlace
    <3>2. c \in Peers
      BY <3>1, DeltaTypes
    <3>3. p.ring[k].frame \in w.made[c] /\ p.ring[k].real[c] = w.real[c][p.ring[k].frame]
      BY <1>3 DEF Heard
    <3> QED BY <3>2, <3>3 DEF Moves
  <2> QED BY <2>1 DEF Heard
<1>9. Takes(v, j, p)
  <2>1. v.made[j] = w.made[j]
    BY DEF Moves
  <2>2. CASE j \in p.players
    <3>1. v.joined[j] = w.joined[j]
      BY <1>7, <2>2
    <3> QED BY <1>3, <2>1, <2>2, <3>1 DEF Takes
  <2>3. CASE j \notin p.players
    BY <1>3, <2>1, <2>3 DEF Takes
  <2> QED BY <2>2, <2>3
<1>10. Reads(v, j, p)
  BY <1>3, <1>7 DEF Reads
<1>11. Agrees(v, Q, j)
  BY <1>1, <1>2, AgreesStays
<1> QED BY <1>2, <1>3, <1>8, <1>9, <1>10, <1>11

\* The messages of s are in t.
Among(s, t) == \A k \in DOMAIN s : \E l \in DOMAIN t : t[l] = s[k]

\* t tells of the new players.
Announces(v, P, Q, t) ==
  \A b \in Q[Server].players \ P[Server].players :
    \E l \in DOMAIN t : t[l] = ModeMsg(v.joined[b], b)

\* A client that has read nothing new follows, if it is told of new players.
LEMMA FollowsStays ==
  ASSUME NEW P, NEW Q, NEW w, NEW v, NEW i \in Peers, Moves(w, v, P, Q, i), Sound(P), Sound(Q),
         NEW c \in Clients, NEW s, NEW t, Follows(w, P, c, s),
         Q[c].players = P[c].players, Q[c].server = P[c].server, Q[c].connected => P[c].connected,
         Among(s, t), Announces(v, P, Q, t)
  PROVE  Follows(v, Q, c, t)
<1>1. c \in Peers /\ Server \in Peers
  BY DEF Peers
<1>2. P[c].server \in Nat /\ P[Server].read[Server] \in Nat /\ Q[Server].read[Server] \in Nat
      /\ Q[Server].players \subseteq Peers
  <2>1. P[c] \in Netplays(c) /\ P[Server] \in Netplays(Server) /\ Q[Server] \in Netplays(Server)
    BY <1>1 DEF Sound, PeerInv
  <2>2. P[Server].read \in [Peers -> Counts] /\ Q[Server].read \in [Peers -> Counts]
    BY <2>1, PeerTypes
  <2> QED BY <1>1, <2>1, <2>2, PeerTypes, FramesNat
<1>3. Q[c].players \subseteq Q[Server].players
  BY DEF Follows, Moves
<1>4. Q[c].server <= Q[Server].read[Server]
  <2>1. P[c].server <= P[Server].read[Server] /\ P[Server].read[Server] <= Q[Server].read[Server]
    BY DEF Follows, Moves
  <2> QED BY <1>2, <2>1
<1>5. ASSUME NEW b \in Q[Server].players \ Q[c].players
      PROVE  /\ Q[c].server <= v.joined[b]
             /\ Q[c].connected => \E l \in DOMAIN t : t[l] = ModeMsg(v.joined[b], b)
  <2>1. CASE b \in P[Server].players
    <3>1. v.joined[b] = w.joined[b]
      BY <2>1 DEF Moves
    <3>2. /\ P[c].server <= w.joined[b]
          /\ P[c].connected => \E k \in DOMAIN s : s[k] = ModeMsg(w.joined[b], b)
      BY <1>5, <2>1 DEF Follows
    <3> QED BY <3>1, <3>2 DEF Among
  <2>2. CASE b \notin P[Server].players
    <3>1. P[Server].read[Server] <= v.joined[b]
      BY <1>5, <2>2 DEF Moves
    <3>2. P[c].server <= P[Server].read[Server]
      BY DEF Follows
    <3>3. v.joined[b] \in Nat
      BY <1>2, <1>5, GameTypes DEF Moves
    <3> QED BY <1>2, <1>5, <2>2, <3>1, <3>2, <3>3 DEF Announces
  <2> QED BY <2>1, <2>2
<1> QED BY <1>3, <1>4, <1>5 DEF Follows

\* What one has in sequences that are put together.
LEMMA InConcat ==
  ASSUME NEW S, NEW s \in Seq(S), NEW t \in Seq(S)
  PROVE  /\ s \o t \in Seq(S)
         /\ \A k \in DOMAIN s : k \in DOMAIN (s \o t) /\ (s \o t)[k] = s[k]
         /\ \A k \in DOMAIN t : Len(s) + k \in DOMAIN (s \o t) /\ (s \o t)[Len(s) + k] = t[k]
         /\ \A k \in DOMAIN (s \o t) :
              \/ k \in DOMAIN s /\ (s \o t)[k] = s[k]
              \/ k - Len(s) \in DOMAIN t /\ (s \o t)[k] = t[k - Len(s)] /\ k > Len(s)
         /\ DOMAIN s = 1..Len(s) /\ DOMAIN t = 1..Len(t) /\ DOMAIN (s \o t) = 1..Len(s) + Len(t)
OBVIOUS

\* ... and in one whose first element has been taken.
LEMMA InTail ==
  ASSUME NEW S, NEW s \in Seq(S), s # <<>>
  PROVE  /\ Tail(s) \in Seq(S) /\ Head(s) = s[1] /\ 1 \in DOMAIN s /\ DOMAIN s = 1..Len(s)
         /\ \A k \in DOMAIN Tail(s) : k \in Nat /\ k + 1 \in DOMAIN s /\ Tail(s)[k] = s[k + 1]
         /\ \A k \in DOMAIN s : k = 1 \/ (k - 1 \in DOMAIN Tail(s) /\ Tail(s)[k - 1] = s[k])
         /\ Len(Tail(s)) = Len(s) - 1 /\ DOMAIN Tail(s) = 1..Len(s) - 1
OBVIOUS

\* What a client sends is its own input.
LEMMA FromClientIs ==
  ASSUME NEW c, NEW s \in Seq(FromClient(c)), NEW k \in DOMAIN s
  PROVE  s[k] \in FromClient(c)
OBVIOUS

\* What a client has sent stays true, and what it sends is.
LEMMA ToServerGrows ==
  ASSUME NEW P, NEW Q, NEW w, NEW v, NEW i \in Peers, Moves(w, v, P, Q, i),
         NEW c \in Clients, NEW s \in Seq(FromClient(c)), NEW t \in Seq(FromClient(c)),
         ToServer(w, P, c, s), c \in Q[Server].players => c \in P[Server].players,
         P[c].asked => Q[c].asked,
         \A k \in DOMAIN t : t[k].type = "input" =>
           t[k].frame \in v.made[c] /\ t[k].input = v.real[c][t[k].frame],
         (\A k \in DOMAIN t : t[k].type # "play") \/ (Len(t) = 1 /\ ~P[c].asked /\ Q[c].asked)
  PROVE  ToServer(v, Q, c, s \o t)
<1>1. PICK u : u = s \o t
  OBVIOUS
<1>2. /\ DOMAIN s = 1..Len(s) /\ DOMAIN t = 1..Len(t)
      /\ \A k \in DOMAIN u : \/ k \in DOMAIN s /\ u[k] = s[k]
                             \/ k - Len(s) \in DOMAIN t /\ u[k] = t[k - Len(s)] /\ k > Len(s)
      /\ DOMAIN u = 1..Len(s) + Len(t) /\ Len(s) \in Nat /\ Len(t) \in Nat
  BY <1>1, InConcat
<1>3. c \in Peers
  BY DEF Peers
<1>4. ASSUME NEW k \in DOMAIN u, u[k].type = "input"
      PROVE  u[k].frame \in v.made[c] /\ u[k].input = v.real[c][u[k].frame]
  <2>1. CASE k \in DOMAIN s /\ u[k] = s[k]
    <3>1. s[k].frame \in w.made[c] /\ s[k].input = w.real[c][s[k].frame]
      BY <1>4, <2>1 DEF ToServer
    <3> QED BY <1>3, <2>1, <3>1 DEF Moves
  <2>2. CASE k - Len(s) \in DOMAIN t /\ u[k] = t[k - Len(s)]
    BY <1>4, <2>2
  <2> QED BY <1>2, <2>1, <2>2
<1>5. (\E k \in DOMAIN t : t[k].type = "play") =>
        Len(t) = 1 /\ ~P[c].asked /\ Q[c].asked
        /\ c \notin P[Server].players /\ \A k \in DOMAIN s : s[k].type # "play"
  BY DEF ToServer
<1>6. ASSUME NEW k \in DOMAIN u, u[k].type = "play"
      PROVE  c \notin Q[Server].players
  <2>1. CASE k \in DOMAIN s /\ u[k] = s[k]
    BY <1>6, <2>1 DEF ToServer
  <2>2. CASE k - Len(s) \in DOMAIN t /\ u[k] = t[k - Len(s)]
    BY <1>5, <1>6, <2>2
  <2> QED BY <1>2, <2>1, <2>2
<1>7. ASSUME NEW k \in DOMAIN u, NEW l \in DOMAIN u, u[k].type = "play", u[l].type = "play"
      PROVE  k = l
  <2>1. CASE \E n \in DOMAIN t : t[n].type = "play"
    <3>1. k = Len(s) + 1 /\ l = Len(s) + 1
      BY <1>2, <1>5, <1>7, <2>1
    <3> QED BY <3>1
  <2>2. CASE ~ \E n \in DOMAIN t : t[n].type = "play"
    <3>1. k \in DOMAIN s /\ l \in DOMAIN s /\ s[k].type = "play" /\ s[l].type = "play"
      BY <1>2, <1>7, <2>2
    <3> QED BY <3>1 DEF ToServer
  <2> QED BY <2>1, <2>2
<1>8. ASSUME ~Q[c].asked
      PROVE  c \notin Q[Server].players /\ \A k \in DOMAIN u : u[k].type # "play"
  <2>1. ~P[c].asked
    BY <1>8
  <2>2. c \notin P[Server].players /\ \A k \in DOMAIN s : s[k].type # "play"
    BY <2>1 DEF ToServer
  <2>3. \A k \in DOMAIN t : t[k].type # "play"
    BY <1>8
  <2> QED BY <1>2, <2>2, <2>3
<1> QED BY <1>1, <1>4, <1>6, <1>7, <1>8 DEF ToServer

\* ... so does the rest when the server has taken a message, unless it lets the client play.
LEMMA ToServerTaken ==
  ASSUME NEW P, NEW Q, NEW w, NEW v, NEW i \in Peers, Moves(w, v, P, Q, i),
         NEW c \in Clients, NEW s \in Seq(FromClient(c)), s # <<>>, ToServer(w, P, c, s),
         c \in Q[Server].players => c \in P[Server].players \/ Head(s).type = "play",
         Q[c].asked = P[c].asked
  PROVE  ToServer(v, Q, c, Tail(s))
<1>1. PICK u : u = Tail(s)
  OBVIOUS
<1>2. /\ \A k \in DOMAIN u : k \in Nat /\ k + 1 \in DOMAIN s /\ u[k] = s[k + 1]
      /\ DOMAIN u = 1..Len(s) - 1 /\ Head(s) = s[1] /\ 1 \in DOMAIN s
  BY <1>1, InTail
<1>3. c \in Peers
  BY DEF Peers
<1>4. ASSUME NEW k \in DOMAIN u
      PROVE  /\ u[k].type = "input" =>
                  u[k].frame \in v.made[c] /\ u[k].input = v.real[c][u[k].frame]
             /\ u[k].type = "play" => c \notin Q[Server].players
  <2>1. u[k] = s[k + 1] /\ k + 1 \in DOMAIN s /\ k + 1 # 1
    BY <1>2
  <2>2. u[k].type = "input" => u[k].frame \in w.made[c] /\ u[k].input = w.real[c][u[k].frame]
    BY <2>1 DEF ToServer
  <2>3. u[k].type = "play" => c \notin P[Server].players /\ Head(s).type # "play"
    BY <1>2, <2>1 DEF ToServer
  <2> QED BY <1>3, <2>2, <2>3 DEF Moves
<1>5. ASSUME NEW k \in DOMAIN u, NEW l \in DOMAIN u, u[k].type = "play", u[l].type = "play"
      PROVE  k = l
  <2>1. s[k + 1].type = "play" /\ s[l + 1].type = "play"
    BY <1>2, <1>5
  <2>2. k + 1 = l + 1
    BY <1>2, <2>1 DEF ToServer
  <2> QED BY <1>2, <2>2
<1>6. ASSUME ~Q[c].asked
      PROVE  c \notin Q[Server].players /\ \A k \in DOMAIN u : u[k].type # "play"
  <2>1. ~P[c].asked
    BY <1>6
  <2>2. c \notin P[Server].players /\ \A k \in DOMAIN s : s[k].type # "play"
    BY <2>1 DEF ToServer
  <2> QED BY <1>2, <2>2
<1> QED BY <1>1, <1>4, <1>5, <1>6 DEF ToServer

\* A message to a client stays true.
LEMMA TellsStays ==
  ASSUME NEW P, NEW Q, NEW w, NEW v, NEW i \in Peers, Moves(w, v, P, Q, i), Sound(P), Sound(Q),
         NEW c \in Clients, NEW m \in FromServer, Tells(w, P, c, m),
         m.type = "mode" /\ Q[c].connected => P[c].connected /\ m.client \notin Q[c].players,
         m.type = "savestate" => Certain(c, Q[c]).load < m.state.load
  PROVE  Tells(v, Q, c, m)
<1>1. Server \in Peers
  BY DEF Peers
<1>2. P[Server].read[Server] \in Nat /\ Q[Server].read[Server] \in Nat
      /\ P[Server].loads \in Nat /\ Q[Server].loads \in Nat
  BY ServerCounts
<1>3. CASE m.type = "input"
  <2>1. m.frame \in Frames /\ m.frame \in Nat /\ m.client \in Peers
    BY <1>3, InputMessage, FramesNat
  <2>2. /\ m.frame \in w.made[m.client] /\ m.input = w.real[m.client][m.frame]
        /\ m.client = Server => m.frame < P[Server].read[Server]
    BY <1>3 DEF Tells
  <2>3. P[Server].read[Server] <= Q[Server].read[Server]
    BY DEF Moves
  <2>4. m.frame \in v.made[m.client] /\ m.input = v.real[m.client][m.frame]
    BY <2>1, <2>2 DEF Moves
  <2>5. m.client = Server => m.frame < Q[Server].read[Server]
    BY <1>2, <2>1, <2>2, <2>3
  <2> QED BY <1>3, <2>4, <2>5 DEF Tells
<1>4. CASE m.type = "mode"
  <2>1. m.client \in P[Server].players /\ m.frame = w.joined[m.client]
    BY <1>4 DEF Tells
  <2>2. m.client \in Q[Server].players /\ m.frame = v.joined[m.client]
    BY <2>1 DEF Moves
  <2>3. Q[c].connected => m.client \notin Q[c].players
    BY <1>4
  <2> QED BY <1>4, <2>2, <2>3 DEF Tells
<1>5. CASE m.type = "savestate"
  <2>1. /\ m.state.inputs = <<>> /\ m.state.load \in 1..P[Server].loads
        /\ w.from[m.state.load] = m.frame
    BY <1>5 DEF Tells
  <2>2. m.state.load \in 1..Q[Server].loads /\ m.state.load \in 0..P[Server].loads
    BY <1>2, <2>1 DEF Moves
  <2>3. v.from[m.state.load] = m.frame
    BY <2>1, <2>2 DEF Moves
  <2> QED BY <1>5, <2>1, <2>2, <2>3 DEF Tells
<1> QED BY <1>3, <1>4, <1>5 DEF Tells

\* What is on its way to a client that has not read any of it stays true.
LEMMA ToClientStays ==
  ASSUME NEW P, NEW Q, NEW w, NEW v, NEW i \in Peers, Moves(w, v, P, Q, i), Sound(P), Sound(Q),
         NEW c \in Clients, NEW s \in Seq(FromServer), ToClient(w, P, c, s),
         Q[c].players = P[c].players, Q[c].connected => P[c].connected,
         Certain(c, Q[c]).load = Certain(c, P[c]).load
  PROVE  ToClient(v, Q, c, s)
<1>1. ASSUME NEW k \in DOMAIN s
      PROVE  Tells(v, Q, c, s[k])
  <2>1. PICK m : m = s[k]
    OBVIOUS
  <2>2. m \in FromServer /\ Tells(w, P, c, m)
    BY <2>1 DEF ToClient
  <2>3. m.type = "mode" /\ Q[c].connected => P[c].connected /\ m.client \notin Q[c].players
    BY <2>2 DEF Tells
  <2>4. m.type = "savestate" => Certain(c, Q[c]).load < m.state.load
    BY <2>2 DEF Tells
  <2> QED BY <2>1, <2>2, <2>3, <2>4, TellsStays
<1> QED BY <1>1 DEF ToClient

\* ... and so is it with what is sent then, if that is true and comes in order.
LEMMA ToClientGrows ==
  ASSUME NEW Q, NEW v, NEW c \in Clients, NEW s \in Seq(FromServer), NEW t \in Seq(FromServer),
         ToClient(v, Q, c, s), ToClient(v, Q, c, t),
         \A k \in DOMAIN s : \A l \in DOMAIN t : InOrder(s[k], t[l])
  PROVE  ToClient(v, Q, c, s \o t)
<1>1. PICK u : u = s \o t
  OBVIOUS
<1>2. /\ DOMAIN s = 1..Len(s) /\ DOMAIN t = 1..Len(t)
      /\ \A k \in DOMAIN u : \/ k \in DOMAIN s /\ u[k] = s[k]
                             \/ k - Len(s) \in DOMAIN t /\ u[k] = t[k - Len(s)] /\ k > Len(s)
      /\ DOMAIN u = 1..Len(s) + Len(t) /\ Len(s) \in Nat /\ Len(t) \in Nat
  BY <1>1, InConcat
<1>3. \A k \in DOMAIN u : Tells(v, Q, c, u[k])
  BY <1>2 DEF ToClient
<1>4. ASSUME NEW k \in DOMAIN u, NEW l \in DOMAIN u, k < l
      PROVE  InOrder(u[k], u[l])
  <2>1. CASE l \in DOMAIN s /\ u[l] = s[l]
    <3>1. k \in DOMAIN s /\ u[k] = s[k]
      BY <1>2, <1>4, <2>1
    <3> QED BY <1>4, <2>1, <3>1 DEF ToClient
  <2>2. CASE l - Len(s) \in DOMAIN t /\ u[l] = t[l - Len(s)]
    <3>1. CASE k \in DOMAIN s /\ u[k] = s[k]
      BY <2>2, <3>1
    <3>2. CASE k - Len(s) \in DOMAIN t /\ u[k] = t[k - Len(s)]
      <4>1. k - Len(s) < l - Len(s)
        BY <1>2, <1>4
      <4> QED BY <2>2, <3>2, <4>1 DEF ToClient
    <3> QED BY <1>2, <3>1, <3>2
  <2> QED BY <1>2, <2>1, <2>2
<1> QED BY <1>1, <1>3, <1>4 DEF ToClient

\* ... and the rest, when the client has read a message.
LEMMA ToClientTaken ==
  ASSUME NEW P, NEW Q, NEW w, NEW v, NEW i \in Peers, Moves(w, v, P, Q, i), Sound(P), Sound(Q),
         NEW c \in Clients, NEW s \in Seq(FromServer), s # <<>>, ToClient(w, P, c, s),
         Q[c].connected =>
           P[c].connected
           /\ (Head(s).type # "mode" => Q[c].players = P[c].players)
           /\ (Head(s).type = "mode" => Q[c].players \subseteq P[c].players \cup {Head(s).client}),
         Certain(c, Q[c]).load = Certain(c, P[c]).load
           \/ (Head(s).type = "savestate" /\ Certain(c, Q[c]).load = Head(s).state.load)
  PROVE  ToClient(v, Q, c, Tail(s))
<1>1. PICK u : u = Tail(s)
  OBVIOUS
<1>2. PICK h : h = Head(s)
  OBVIOUS
<1>3. /\ \A k \in DOMAIN u : k \in Nat /\ k + 1 \in DOMAIN s /\ u[k] = s[k + 1]
      /\ DOMAIN u = 1..Len(s) - 1 /\ h = s[1] /\ 1 \in DOMAIN s
  BY <1>1, <1>2, InTail
<1>4. ASSUME NEW k \in DOMAIN u
      PROVE  Tells(v, Q, c, u[k])
  <2>1. PICK m : m = u[k]
    OBVIOUS
  <2>2. m = s[k + 1] /\ k + 1 \in DOMAIN s /\ 1 < k + 1
    BY <1>3, <2>1
  <2>3. m \in FromServer /\ Tells(w, P, c, m) /\ InOrder(h, m)
    BY <1>3, <2>2 DEF ToClient
  <2>4. ASSUME m.type = "mode", Q[c].connected
        PROVE  P[c].connected /\ m.client \notin Q[c].players
    <3>1. P[c].connected /\ m.client \notin P[c].players
      BY <2>3, <2>4 DEF Tells
    <3>2. h.type = "mode" => m.client # h.client
      BY <2>3, <2>4 DEF InOrder
    <3> QED BY <1>2, <2>4, <3>1, <3>2
  <2>5. ASSUME m.type = "savestate"
        PROVE  Certain(c, Q[c]).load < m.state.load
    <3>1. Certain(c, P[c]).load < m.state.load
      BY <2>3, <2>5 DEF Tells
    <3>2. h.type = "savestate" => h.state.load < m.state.load
      BY <2>3, <2>5 DEF InOrder
    <3> QED BY <1>2, <3>1, <3>2
  <2> QED BY <2>1, <2>3, <2>4, <2>5, TellsStays
<1>5. ASSUME NEW k \in DOMAIN u, NEW l \in DOMAIN u, k < l
      PROVE  InOrder(u[k], u[l])
  <2>1. k + 1 \in DOMAIN s /\ l + 1 \in DOMAIN s /\ k + 1 < l + 1 /\ u[k] = s[k + 1] /\ u[l] = s[l + 1]
    BY <1>3, <1>5
  <2> QED BY <2>1 DEF ToClient
<1> QED BY <1>1, <1>4, <1>5 DEF ToClient

\* What is under way.
Mail(ts, tc) == \A c \in Clients : ts[c] \in Seq(FromClient(c)) /\ tc[c] \in Seq(FromServer)

\* What a peer has is of the game.
Knows(w, i, p) == Heard(w, p) /\ Takes(w, i, p) /\ Reads(w, i, p) /\ Saves(i, p)

\* What the clients send now is true.
Writes(v, P, Q, x) ==
  \A c \in Clients :
    /\ \A k \in DOMAIN x[c] : x[c][k].type = "input" =>
         x[c][k].frame \in v.made[c] /\ x[c][k].input = v.real[c][x[c][k].frame]
    /\ \/ \A k \in DOMAIN x[c] : x[c][k].type # "play"
       \/ Len(x[c]) = 1 /\ ~P[c].asked /\ Q[c].asked

\* ... and so is what they are sent, which comes after all that is on its way.
Posts(v, Q, tc, y) ==
  \A c \in Clients :
    /\ ToClient(v, Q, c, y[c])
    /\ \A k \in DOMAIN tc[c] : \A l \in DOMAIN y[c] : InOrder(tc[c][k], y[c][l])

\* That is put behind it.
Puts(ts, x, us) == \A c \in Clients : us[c] = ts[c] \o x[c]

\* A step that reads nothing and lets nobody play, after which what the peer has is true
\* and so is what it sends, leaves all peers in one game.
LEMMA SendingAgrees ==
  ASSUME NEW P, NEW Q, NEW w, NEW v, NEW i \in Peers, Moves(w, v, P, Q, i), Sound(P), Sound(Q),
         NEW ts, NEW tc, GameInv(w, P, ts, tc), Mail(ts, tc),
         Knows(v, i, Q[i]), Agrees(v, Q, i),
         Q[i].players = P[i].players, Q[i].server = P[i].server,
         Q[i].connected => P[i].connected, i # Server => Certain(i, Q[i]).load = Certain(i, P[i]).load,
         P[i].asked => Q[i].asked,
         NEW x, NEW y, Mail(x, y), Writes(v, P, Q, x), Posts(v, Q, tc, y),
         NEW us, NEW uc, Puts(ts, x, us), Puts(tc, y, uc)
  PROVE  GameInv(v, Q, us, uc)
<1>1. \A j \in Peers : /\ Heard(v, Q[j]) /\ Takes(v, j, Q[j]) /\ Reads(v, j, Q[j]) /\ Saves(j, Q[j])
                       /\ Agrees(v, Q, j)
  BY OthersStay DEF Knows
<1>2. \A j \in Peers : /\ Q[j].players = P[j].players /\ Q[j].server = P[j].server
                       /\ Q[j].connected => P[j].connected
                       /\ P[j].asked => Q[j].asked
                       /\ j # Server => Certain(j, Q[j]).load = Certain(j, P[j]).load
  BY DEF Moves
<1>3. Server \in Peers
  BY DEF Peers
<1>4. ASSUME NEW c \in Clients
      PROVE  Follows(v, Q, c, uc[c]) /\ ToServer(v, Q, c, us[c]) /\ ToClient(v, Q, c, uc[c])
  <2>1. c \in Peers /\ c # Server
    BY NetplayAssumption DEF Peers
  <2>2. PICK s : s = tc[c]
    OBVIOUS
  <2>3. PICK t : t = y[c]
    OBVIOUS
  <2>4. s \in Seq(FromServer) /\ t \in Seq(FromServer) /\ uc[c] = s \o t
        /\ ts[c] \in Seq(FromClient(c)) /\ x[c] \in Seq(FromClient(c))
    BY <2>2, <2>3 DEF Mail, Puts
  <2>5. Follows(w, P, c, s) /\ ToServer(w, P, c, ts[c]) /\ ToClient(w, P, c, s)
    BY <2>2 DEF GameInv
  <2>6. Follows(v, Q, c, uc[c])
    <3>1. Among(s, uc[c])
      BY <2>4, InConcat DEF Among
    <3>2. Announces(v, P, Q, uc[c])
      BY <1>2, <1>3 DEF Announces
    <3>3. PICK u : u = uc[c]
      OBVIOUS
    <3> QED BY <1>2, <2>1, <2>5, <3>1, <3>2, <3>3, FollowsStays
  <2>7. ToServer(v, Q, c, us[c])
    <3>1. PICK a : a = ts[c]
      OBVIOUS
    <3>2. PICK b : b = x[c]
      OBVIOUS
    <3>3. ToServer(v, Q, c, a \o b)
      BY <1>2, <1>3, <2>1, <2>4, <2>5, <3>1, <3>2, ToServerGrows DEF Writes
    <3> QED BY <3>1, <3>2, <3>3 DEF Puts
  <2>8. ToClient(v, Q, c, uc[c])
    <3>1. ToClient(v, Q, c, s)
      BY <1>2, <2>1, <2>4, <2>5, ToClientStays
    <3>2. ToClient(v, Q, c, t) /\ \A k \in DOMAIN s : \A l \in DOMAIN t : InOrder(s[k], t[l])
      BY <2>2, <2>3 DEF Posts
    <3>3. ToClient(v, Q, c, s \o t)
      BY <2>4, <3>1, <3>2, ToClientGrows
    <3> QED BY <2>4, <3>3
  <2> QED BY <2>6, <2>7, <2>8
<1> QED BY <1>1, <1>4 DEF GameInv, Moves

-----------------------------------------------------------------------------
(* Steps. *)

\* A step of peer i takes it on in the game.
Onward(w, v, P, Q, i) ==
  /\ Moves(w, v, P, Q, i)
  /\ LET s == Certain(i, P[i])
         t == Certain(i, Q[i])
     IN \/ s.load < t.load
        \/ s.load = t.load /\ (s.load = Unsynced \/ P[i].other <= Q[i].other)

\* Somebody goes on, and all are still in one game.
GoesOn(w, P, Q, us, uc) ==
  \E v \in Games : \E i \in Peers : Onward(w, v, P, Q, i) /\ GameInv(v, Q, us, uc)

\* Nothing changes of what a peer knows of the game.
SameGame(p, q) ==
  /\ q.ring = p.ring /\ q.core = p.core /\ q.self = p.self /\ q.run = p.run /\ q.other = p.other
  /\ q.server = p.server /\ q.read = p.read /\ q.players = p.players /\ q.playing = p.playing
  /\ q.force_rewind = p.force_rewind /\ q.loads = p.loads

\* Then, what was true of it still is.
LEMMA SameIsTrue ==
  ASSUME NEW w, NEW i, NEW p, NEW q, SameGame(p, q), q.polling => p.polling
  PROVE  /\ Heard(w, p) => Heard(w, q)
         /\ Takes(w, i, p) => Takes(w, i, q)
         /\ Reads(w, i, p) => Reads(w, i, q)
         /\ Saves(i, p) => Saves(i, q)
         /\ Certain(i, q) = Certain(i, p)
<1>1. \A f : At(i, q, f) = At(i, p, f) /\ (Has(i, p, f) => Has(i, q, f))
  BY DEF SameGame, At, Has
<1>2. Heard(w, p) => Heard(w, q)
  BY DEF SameGame, Heard
<1>3. Takes(w, i, p) => Takes(w, i, q)
  BY <1>1 DEF SameGame, Takes
<1>4. Reads(w, i, p) => Reads(w, i, q)
  BY <1>1 DEF SameGame, Reads
<1>5. Saves(i, p) => Saves(i, q)
  BY <1>1 DEF SameGame, Saves
<1>6. Certain(i, q) = Certain(i, p)
  BY <1>1 DEF SameGame, Certain
<1> QED BY <1>2, <1>3, <1>4, <1>5, <1>6

\* The game is what it was.
LEMMA SameMoves ==
  ASSUME NEW w \in Games, NEW P, NEW Q, NEW i \in Peers, w.joined[Server] = 0,
         Sound(P), \A j \in Peers : j # i => Q[j] = P[j],
         Q[i].self = P[i].self, Q[i].loads = P[i].loads,
         i = Server => Q[i].players = P[i].players /\ Q[i].read[Server] = P[i].read[Server]
  PROVE  Moves(w, w, P, Q, i)
<1>1. P[Server].read[Server] \in Nat /\ P[Server].loads \in Nat
  BY ServerCounts
<1>2. P[i].self \in Nat
  BY PeerTypes, FramesNat DEF Sound, PeerInv
<1>3. /\ Q[Server].players = P[Server].players /\ Q[Server].loads = P[Server].loads
      /\ Q[Server].read[Server] = P[Server].read[Server]
  BY DEF Peers
<1> QED BY <1>1, <1>2, <1>3 DEF Moves

\* A peer that changes nothing of this, and sends nothing but a question, is still in the game.
LEMMA SameAgrees ==
  ASSUME NEW w \in Games, NEW P, NEW Q, NEW i \in Peers, Sound(P), Sound(Q),
         NEW ts, NEW tc, GameInv(w, P, ts, tc), Mail(ts, tc),
         \A j \in Peers : j # i => Q[j] = P[j],
         SameGame(P[i], Q[i]), Q[i].polling => P[i].polling, Q[i].connected => P[i].connected,
         P[i].asked => Q[i].asked,
         NEW x, NEW y, Mail(x, y), \A c \in Clients : \A k \in DOMAIN x[c] : x[c][k].type # "input",
         \A c \in Clients : \A k \in DOMAIN y[c] : y[c][k].type = "stall",
         \A c \in Clients :
           (\A k \in DOMAIN x[c] : x[c][k].type # "play")
             \/ (Len(x[c]) = 1 /\ ~P[c].asked /\ Q[c].asked),
         NEW us, NEW uc, Puts(ts, x, us), Puts(tc, y, uc)
  PROVE  GoesOn(w, P, Q, us, uc)
<1>1. Moves(w, w, P, Q, i)
  BY SameMoves DEF SameGame, GameInv
<1>2. Heard(w, P[i]) /\ Takes(w, i, P[i]) /\ Reads(w, i, P[i]) /\ Saves(i, P[i]) /\ Agrees(w, P, i)
  BY DEF GameInv
<1>3. PICK p : p = P[i]
  OBVIOUS
<1>4. PICK q : q = Q[i]
  OBVIOUS
<1>5. Heard(w, q) /\ Takes(w, i, q) /\ Reads(w, i, q) /\ Saves(i, q) /\ Certain(i, q) = Certain(i, p)
  BY <1>2, <1>3, <1>4, SameIsTrue
<1>6. q.other = p.other /\ q.players = p.players /\ q.server = p.server
  BY <1>3, <1>4 DEF SameGame
<1>7. Agrees(w, Q, i)
  BY <1>1, <1>3, <1>4, <1>5, <1>6, AgreesStays
<1>8. Posts(w, Q, tc, y)
  BY DEF Posts, ToClient, Tells, InOrder
<1>9. Writes(w, P, Q, x)
  BY DEF Writes
<1>10. GameInv(w, Q, us, uc)
  <2>1. Knows(w, i, Q[i])
    BY <1>4, <1>5 DEF Knows
  <2>2. /\ Q[i].players = P[i].players /\ Q[i].server = P[i].server
        /\ Certain(i, Q[i]).load = Certain(i, P[i]).load
    BY <1>3, <1>4, <1>5, <1>6
  <2> QED BY <1>1, <1>7, <1>8, <1>9, <2>1, <2>2, SendingAgrees
<1>11. Onward(w, w, P, Q, i)
  <2>1. p.other \in Nat
    BY <1>3, PeerTypes, FramesNat DEF Sound, PeerInv
  <2> QED BY <1>1, <1>3, <1>4, <1>5, <1>6, <2>1 DEF Onward
<1> QED BY <1>10, <1>11 DEF GoesOn

\* Nothing is sent.
LEMMA NoMail ==
  LET x == [c \in Clients |-> <<>>]
  IN /\ Mail(x, x)
     /\ \A c \in Clients : x[c] = <<>> /\ DOMAIN x[c] = {} /\ Len(x[c]) = 0
BY DEF Mail

\* What IInv says of the peers and of what is under way.
LEMMA FromIInv ==
  ASSUME IInv
  PROVE  Sound(peer) /\ Mail(toServer, toClient)
<1>1. Sound(peer)
  BY DEF IInv, Sound
<1>2. Mail(toServer, toClient)
  BY DEF IInv, TypeOK, Mail
<1> QED BY <1>1, <1>2

\* The empty sequence.
LEMMA NothingSent ==
  ASSUME NEW S
  PROVE  \E n : n = <<>> /\ n \in Seq(S) /\ DOMAIN n = {}
<1>1. <<>> \in Seq(S)
  OBVIOUS
<1>2. DOMAIN <<>> = {}
  OBVIOUS
<1> QED BY <1>1, <1>2

\* The first message of client c is taken.
OneTaken(ts, c, us) == ts[c] # <<>> /\ us[c] = Tail(ts[c]) /\ \A b \in Clients \ {c} : us[b] = ts[b]

\* Client c adds x to what it has sent.
OneAdds(ts, c, x, us) == us[c] = ts[c] \o x /\ \A b \in Clients \ {c} : us[b] = ts[b]

\* What message h may change of client i.
Understands(P, Q, i, h) ==
  /\ Q[i].connected =>
       /\ P[i].connected
       /\ h.type # "mode" => Q[i].players = P[i].players
       /\ h.type = "mode" => Q[i].players \subseteq P[i].players \cup {h.client}
  /\ \/ Certain(i, Q[i]).load = Certain(i, P[i]).load
     \/ h.type = "savestate" /\ Certain(i, Q[i]).load = h.state.load

\* x is input of client i.
InputsOf(v, i, x) ==
  \A k \in DOMAIN x : x[k].type = "input" /\ x[k].frame \in v.made[i]
                      /\ x[k].input = v.real[i][x[k].frame]

\* A client that reads a message, and follows from then on, is still in the game.
LEMMA ClientReadingAgrees ==
  ASSUME NEW P, NEW Q, NEW w, NEW v, NEW i \in Clients, Moves(w, v, P, Q, i), Sound(P), Sound(Q),
         NEW ts, NEW tc, GameInv(w, P, ts, tc), Mail(ts, tc),
         Knows(v, i, Q[i]), Agrees(v, Q, i), Follows(v, Q, i, Tail(tc[i])),
         Q[i].asked = P[i].asked,
         Understands(P, Q, i, Head(tc[i])),
         NEW x \in Seq(FromClient(i)), InputsOf(v, i, x),
         NEW us, OneAdds(ts, i, x, us), NEW uc, OneTaken(tc, i, uc)
  PROVE  GameInv(v, Q, us, uc)
<1>1. i \in Peers /\ i # Server /\ Server \in Peers
  BY ClientsArePeers
<1>2. \A j \in Peers : /\ Heard(v, Q[j]) /\ Takes(v, j, Q[j]) /\ Reads(v, j, Q[j]) /\ Saves(j, Q[j])
                       /\ Agrees(v, Q, j)
  BY <1>1, OthersStay DEF Knows
<1>3. Q[Server] = P[Server]
  BY <1>1 DEF Moves
<1>4. ToServer(v, Q, i, us[i])
  <2>1. PICK s : s = ts[i]
    OBVIOUS
  <2>2. s \in Seq(FromClient(i)) /\ ToServer(w, P, i, s)
    BY <2>1 DEF Mail, GameInv
  <2>3. i \in Q[Server].players => i \in P[Server].players
    BY <1>3
  <2>4. ToServer(v, Q, i, s \o x)
    BY <1>1, <2>2, <2>3, ToServerGrows DEF InputsOf
  <2> QED BY <2>1, <2>4 DEF OneAdds
<1>5. ToClient(v, Q, i, uc[i])
  <2>1. PICK s : s = tc[i]
    OBVIOUS
  <2>2. s \in Seq(FromServer) /\ ToClient(w, P, i, s) /\ s # <<>>
    BY <2>1 DEF Mail, GameInv, OneTaken
  <2>3. ToClient(v, Q, i, Tail(s))
    BY <1>1, <2>1, <2>2, ToClientTaken DEF Understands
  <2> QED BY <2>1, <2>3 DEF OneTaken
<1>6. ASSUME NEW c \in Clients, c # i
      PROVE  Follows(v, Q, c, uc[c]) /\ ToServer(v, Q, c, us[c]) /\ ToClient(v, Q, c, uc[c])
  <2>1. c \in Peers /\ Q[c] = P[c]
    BY <1>6, ClientsArePeers DEF Moves
  <2>2. PICK s : s = ts[c]
    OBVIOUS
  <2>3. PICK t : t = tc[c]
    OBVIOUS
  <2>4. /\ s \in Seq(FromClient(c)) /\ ToServer(w, P, c, s)
        /\ t \in Seq(FromServer) /\ ToClient(w, P, c, t) /\ Follows(w, P, c, t)
    BY <2>2, <2>3 DEF Mail, GameInv
  <2>5. us[c] = s \o <<>> /\ uc[c] = t /\ <<>> \in Seq(FromClient(c))
    BY <1>6, <2>2, <2>3, <2>4 DEF OneAdds, OneTaken
  <2>6. ToServer(v, Q, c, s \o <<>>)
    <3>1. PICK e : e = <<>> /\ e \in Seq(FromClient(c)) /\ DOMAIN e = {}
      BY NothingSent
    <3>2. ToServer(v, Q, c, s \o e)
      BY <1>1, <1>3, <2>1, <2>4, <3>1, ToServerGrows
    <3> QED BY <3>1, <3>2
  <2>7. ToClient(v, Q, c, t)
    BY <1>1, <2>1, <2>4, ToClientStays
  <2>8. Follows(v, Q, c, t)
    <3>1. Among(t, t)
      BY DEF Among
    <3>2. Announces(v, P, Q, t)
      BY <1>3 DEF Announces
    <3> QED BY <1>1, <2>1, <2>4, <3>1, <3>2, FollowsStays
  <2> QED BY <2>5, <2>6, <2>7, <2>8
<1>7. Follows(v, Q, i, uc[i])
  BY DEF OneTaken
<1>8. \A c \in Clients : Follows(v, Q, c, uc[c]) /\ ToServer(v, Q, c, us[c]) /\ ToClient(v, Q, c, uc[c])
  BY <1>4, <1>5, <1>6, <1>7
<1> QED BY <1>2, <1>8 DEF GameInv, Moves

\* So is the server that reads one, and tells the clients of a new player.
LEMMA ServerReadingAgrees ==
  ASSUME NEW P, NEW Q, NEW w, NEW v, Moves(w, v, P, Q, Server), Sound(P), Sound(Q),
         NEW ts, NEW tc, GameInv(w, P, ts, tc), Mail(ts, tc), NEW c \in Clients,
         Knows(v, Server, Q[Server]), Agrees(v, Q, Server),
         Q[Server].players = P[Server].players
           \/ (Head(ts[c]).type = "play" /\ Q[Server].players = P[Server].players \cup {c}),
         NEW us, OneTaken(ts, c, us),
         NEW y, \A b \in Clients : y[b] \in Seq(FromServer), Posts(v, Q, tc, y),
         \A b \in Clients : Announces(v, P, Q, y[b]),
         NEW uc, Puts(tc, y, uc)
  PROVE  GameInv(v, Q, us, uc)
<1>1. Server \in Peers
  BY ClientsArePeers
<1>2. \A j \in Peers : /\ Heard(v, Q[j]) /\ Takes(v, j, Q[j]) /\ Reads(v, j, Q[j]) /\ Saves(j, Q[j])
                       /\ Agrees(v, Q, j)
  BY <1>1, OthersStay DEF Knows
<1>3. \A e \in Clients : Q[e] = P[e] /\ e \in Peers
  BY ClientsArePeers DEF Moves
<1>4. ASSUME NEW e \in Clients
      PROVE  Follows(v, Q, e, uc[e]) /\ ToServer(v, Q, e, us[e]) /\ ToClient(v, Q, e, uc[e])
  <2>1. PICK s : s = ts[e]
    OBVIOUS
  <2>2. PICK t : t = tc[e]
    OBVIOUS
  <2>3. PICK z : z = y[e]
    OBVIOUS
  <2>4. /\ s \in Seq(FromClient(e)) /\ ToServer(w, P, e, s)
        /\ t \in Seq(FromServer) /\ ToClient(w, P, e, t) /\ Follows(w, P, e, t)
        /\ z \in Seq(FromServer) /\ uc[e] = t \o z
    BY <2>1, <2>2, <2>3 DEF Mail, GameInv, Puts
  <2>5. ToServer(v, Q, e, us[e])
    <3>1. CASE e = c
      <4>1. s # <<>> /\ us[e] = Tail(s) /\ Q[e].asked = P[e].asked
        BY <1>3, <2>1, <3>1 DEF OneTaken
      <4>2. e \in Q[Server].players => e \in P[Server].players \/ Head(s).type = "play"
        BY <2>1, <3>1
      <4>3. ToServer(v, Q, e, Tail(s))
        BY <1>1, <2>4, <4>1, <4>2, ToServerTaken
      <4> QED BY <4>1, <4>3
    <3>2. CASE e # c
      <4>1. PICK n : n = <<>> /\ n \in Seq(FromClient(e)) /\ DOMAIN n = {}
        BY NothingSent
      <4>2. e \in Q[Server].players => e \in P[Server].players
        BY <3>2
      <4>3. ToServer(v, Q, e, s \o n)
        BY <1>1, <1>3, <2>4, <4>1, <4>2, ToServerGrows
      <4>4. us[e] = s \o n
        BY <2>1, <2>4, <3>2, <4>1 DEF OneTaken
      <4> QED BY <4>3, <4>4
    <3> QED BY <3>1, <3>2
  <2>6. ToClient(v, Q, e, t \o z)
    <3>1. ToClient(v, Q, e, t)
      BY <1>1, <1>3, <2>4, ToClientStays
    <3>2. ToClient(v, Q, e, z) /\ \A k \in DOMAIN t : \A l \in DOMAIN z : InOrder(t[k], z[l])
      BY <2>2, <2>3 DEF Posts
    <3> QED BY <2>4, <3>1, <3>2, ToClientGrows
  <2>7. Follows(v, Q, e, t \o z)
    <3>1. PICK u : u = t \o z
      OBVIOUS
    <3>2. /\ \A k \in DOMAIN t : k \in DOMAIN u /\ u[k] = t[k]
          /\ \A k \in DOMAIN z : Len(t) + k \in DOMAIN u /\ u[Len(t) + k] = z[k]
      BY <2>4, <3>1, InConcat
    <3>3. Among(t, u)
      BY <3>2 DEF Among
    <3>4. Announces(v, P, Q, u)
      <4>1. Announces(v, P, Q, z)
        BY <2>3
      <4> QED BY <3>2, <4>1 DEF Announces
    <3>5. /\ Q[e].players = P[e].players /\ Q[e].server = P[e].server
          /\ Q[e].connected => P[e].connected
      BY <1>3
    <3>6. Follows(v, Q, e, u)
      BY <1>1, <2>4, <3>3, <3>4, <3>5, FollowsStays
    <3> QED BY <3>1, <3>6
  <2> QED BY <2>4, <2>5, <2>6, <2>7
<1> QED BY <1>2, <1>4 DEF GameInv, Moves

\* A message that changes nothing of the game.
LEMMA ClientIgnores ==
  ASSUME NEW w \in Games, NEW P, NEW Q, NEW i \in Clients, Sound(P), Sound(Q),
         NEW ts, NEW tc, GameInv(w, P, ts, tc), Mail(ts, tc),
         \A j \in Peers : j # i => Q[j] = P[j],
         SameGame(P[i], Q[i]), Q[i].polling => P[i].polling, Q[i].asked = P[i].asked,
         Q[i].connected => P[i].connected /\ Head(tc[i]).type # "mode",
         NEW uc, OneTaken(tc, i, uc)
  PROVE  GoesOn(w, P, Q, ts, uc)
<1>1. i \in Peers /\ i # Server
  BY ClientsArePeers
<1>2. Moves(w, w, P, Q, i)
  BY <1>1, SameMoves DEF SameGame, GameInv
<1>3. PICK p : p = P[i]
  OBVIOUS
<1>4. PICK q : q = Q[i]
  OBVIOUS
<1>5. Heard(w, p) /\ Takes(w, i, p) /\ Reads(w, i, p) /\ Saves(i, p)
  BY <1>1, <1>3 DEF GameInv
<1>6. Knows(w, i, q) /\ Certain(i, q) = Certain(i, p)
  BY <1>3, <1>4, <1>5, SameIsTrue DEF Knows
<1>7. q.other = p.other /\ q.players = p.players /\ q.server = p.server
  BY <1>3, <1>4 DEF SameGame
<1>8. Agrees(w, Q, i)
  BY <1>1, <1>2, <1>3, <1>4, <1>6, <1>7, AgreesStays
<1>9. Follows(w, Q, i, Tail(tc[i]))
  <2>1. PICK s : s = tc[i]
    OBVIOUS
  <2>2. Follows(w, P, i, s) /\ s \in Seq(FromServer) /\ s # <<>>
    BY <2>1 DEF GameInv, Mail, OneTaken
  <2>3. \A k \in DOMAIN s : k = 1 \/ (k - 1 \in DOMAIN Tail(s) /\ Tail(s)[k - 1] = s[k])
    BY <2>2, InTail
  <2>4. Head(s) = s[1]
    BY <2>2, InTail
  <2>5. Q[Server] = P[Server]
    BY <1>1, ClientsArePeers
  <2>6. ASSUME NEW c \in Q[Server].players \ Q[i].players
        PROVE  /\ Q[i].server <= w.joined[c]
               /\ Q[i].connected =>
                    \E l \in DOMAIN Tail(s) : Tail(s)[l] = ModeMsg(w.joined[c], c)
    <3>1. /\ P[i].server <= w.joined[c]
          /\ P[i].connected => \E k \in DOMAIN s : s[k] = ModeMsg(w.joined[c], c)
      BY <1>3, <1>4, <1>7, <2>2, <2>5, <2>6 DEF Follows
    <3>2. ASSUME Q[i].connected
          PROVE  \E l \in DOMAIN Tail(s) : Tail(s)[l] = ModeMsg(w.joined[c], c)
      <4>1. PICK k \in DOMAIN s : s[k] = ModeMsg(w.joined[c], c)
        BY <3>1, <3>2
      <4>2. s[k].type = "mode"
        BY <4>1 DEF ModeMsg
      <4>3. k # 1
        BY <2>1, <2>4, <3>2, <4>2
      <4> QED BY <2>3, <4>1, <4>3
    <3> QED BY <1>3, <1>4, <1>7, <3>1, <3>2
  <2> QED BY <1>3, <1>4, <1>7, <2>1, <2>2, <2>5, <2>6 DEF Follows
<1>10. GameInv(w, Q, ts, uc)
  <2>1. PICK x : x = <<>> /\ x \in Seq(FromClient(i)) /\ DOMAIN x = {}
    BY NothingSent
  <2>2. OneAdds(ts, i, x, ts)
    <3>1. PICK s : s = ts[i]
      OBVIOUS
    <3>2. s \in Seq(FromClient(i))
      BY <3>1 DEF Mail
    <3>3. s \o <<>> = s
      BY <3>2
    <3> QED BY <2>1, <3>1, <3>3 DEF OneAdds
  <2>3. Knows(w, i, Q[i]) /\ Understands(P, Q, i, Head(tc[i]))
    BY <1>3, <1>4, <1>6, <1>7 DEF Understands
  <2>4. InputsOf(w, i, x)
    BY <2>1 DEF InputsOf
  <2>5. x \in Seq(FromClient(i))
    BY <2>1
  <2> QED BY <1>2, <1>8, <1>9, <2>2, <2>3, <2>4, <2>5, ClientReadingAgrees
<1>11. Onward(w, w, P, Q, i)
  <2>1. p.other \in Nat
    BY <1>1, <1>3, PeerTypes, FramesNat DEF Sound, PeerInv
  <2> QED BY <1>2, <1>3, <1>4, <1>6, <1>7, <2>1 DEF Onward
<1> QED BY <1>1, <1>10, <1>11 DEF GoesOn

\* ... of the server.
LEMMA ServerIgnores ==
  ASSUME NEW w \in Games, NEW P, NEW Q, Sound(P), Sound(Q),
         NEW ts, NEW tc, GameInv(w, P, ts, tc), Mail(ts, tc), NEW c \in Clients,
         \A j \in Clients : Q[j] = P[j],
         SameGame(P[Server], Q[Server]), Q[Server].polling => P[Server].polling,
         NEW us, OneTaken(ts, c, us)
  PROVE  GoesOn(w, P, Q, us, tc)
<1>1. Server \in Peers /\ \A j \in Peers : j # Server => j \in Clients
  BY DEF Peers
<1>2. Moves(w, w, P, Q, Server)
  BY <1>1, SameMoves DEF SameGame, GameInv
<1>3. PICK p : p = P[Server]
  OBVIOUS
<1>4. PICK q : q = Q[Server]
  OBVIOUS
<1>5. Heard(w, p) /\ Takes(w, Server, p) /\ Reads(w, Server, p) /\ Saves(Server, p)
  BY <1>1, <1>3 DEF GameInv
<1>6. Knows(w, Server, q) /\ Certain(Server, q) = Certain(Server, p)
  BY <1>3, <1>4, <1>5, SameIsTrue DEF Knows
<1>7. q.other = p.other /\ q.players = p.players
  BY <1>3, <1>4 DEF SameGame
<1>8. Agrees(w, Q, Server)
  BY <1>1, <1>2, <1>3, <1>4, <1>6, <1>7, AgreesStays
<1>9. PICK y : y = [b \in Clients |-> <<>>]
  OBVIOUS
<1>10. /\ \A b \in Clients : y[b] = <<>> /\ DOMAIN y[b] = {}
       /\ \A b \in Clients : y[b] \in Seq(FromServer)
  BY <1>9, NoMail DEF Mail
<1>11. Puts(tc, y, tc)
  <2>1. ASSUME NEW b \in Clients
        PROVE  tc[b] = tc[b] \o y[b]
    <3>1. PICK t : t = tc[b]
      OBVIOUS
    <3>2. t \in Seq(FromServer) /\ y[b] = <<>>
      BY <1>10, <3>1 DEF Mail
    <3>3. t \o <<>> = t
      BY <3>2
    <3> QED BY <3>1, <3>2, <3>3
  <2> QED BY <2>1 DEF Puts
<1>12. Posts(w, Q, tc, y)
  BY <1>10 DEF Posts, ToClient
<1>13. \A b \in Clients : Announces(w, P, Q, y[b])
  BY <1>3, <1>4, <1>7 DEF Announces
<1>14. GameInv(w, Q, us, tc)
  <2>1. Knows(w, Server, Q[Server]) /\ Q[Server].players = P[Server].players
    BY <1>3, <1>4, <1>6, <1>7
  <2> QED BY <1>2, <1>8, <1>10, <1>11, <1>12, <1>13, <2>1, ServerReadingAgrees
<1>15. Onward(w, w, P, Q, Server)
  <2>1. p.other \in Nat
    BY <1>1, <1>3, PeerTypes, FramesNat DEF Sound, PeerInv
  <2> QED BY <1>2, <1>3, <1>4, <1>6, <1>7, <2>1 DEF Onward
<1> QED BY <1>1, <1>14, <1>15 DEF GoesOn

\* What an invariant says of two states of the peers, and of what is under way in the first.
LEMMA Setting ==
  ASSUME IInv, IInv'
  PROVE  /\ Sound(peer) /\ Sound(peer') /\ Mail(toServer, toClient)
         /\ peer = [j \in Peers |-> peer[j]] /\ toServer = [b \in Clients |-> toServer[b]]
         /\ toClient = [b \in Clients |-> toClient[b]]
<1>1. Sound(peer) /\ Mail(toServer, toClient) /\ Sound(peer)'
  BY FromIInv, PTL
<1>2. /\ peer = [j \in Peers |-> peer[j]] /\ toServer = [b \in Clients |-> toServer[b]]
      /\ toClient = [b \in Clients |-> toClient[b]]
  BY DEF IInv, TypeOK
<1> QED BY <1>1, <1>2 DEF Sound

\* One client sends one message.
OneSends(ts, c, m, us) ==
  ts = [b \in Clients |-> ts[b]] /\ us = [ts EXCEPT ![c] = Append(@, m)]

\* x is that message, and y is nothing.
OneLetter(x, y, c, m) ==
  /\ \A b \in Clients \ {c} : DOMAIN x[b] = {}
  /\ Len(x[c]) = 1 /\ DOMAIN x[c] = {1} /\ x[c][1] = m
  /\ \A b \in Clients : DOMAIN y[b] = {}

\* The one is put behind what that client has sent.
LEMMA OneMail ==
  ASSUME NEW c \in Clients, NEW m \in FromClient(c), NEW ts, NEW tc, Mail(ts, tc),
         NEW us, OneSends(ts, c, m, us)
  PROVE  \E x, y : Mail(x, y) /\ Puts(ts, x, us) /\ Puts(tc, y, tc) /\ OneLetter(x, y, c, m)
<1>1. PICK x : x = [b \in Clients |-> IF b = c THEN <<m>> ELSE <<>>]
  OBVIOUS
<1>2. PICK y : y = [b \in Clients |-> <<>>]
  OBVIOUS
<1>3. <<m>> \in Seq(FromClient(c)) /\ Len(<<m>>) = 1 /\ DOMAIN <<m>> = {1} /\ <<m>>[1] = m
  OBVIOUS
<1>4. Mail(x, y)
  BY <1>1, <1>2, <1>3 DEF Mail
<1>5. Puts(ts, x, us)
  <2>1. ASSUME NEW b \in Clients
        PROVE  us[b] = ts[b] \o x[b]
    <3>1. PICK s : s = ts[b]
      OBVIOUS
    <3>2. s \in Seq(FromClient(b))
      BY <3>1 DEF Mail
    <3>3. CASE b = c
      <4>1. us[b] = Append(s, m)
        BY <3>1, <3>3 DEF OneSends
      <4>2. Append(s, m) = s \o <<m>>
        BY <3>2, <3>3
      <4>3. x[b] = <<m>>
        BY <1>1, <3>3
      <4> QED BY <3>1, <4>1, <4>2, <4>3
    <3>4. CASE b # c
      <4>1. us[b] = s /\ x[b] = <<>>
        BY <1>1, <3>1, <3>4 DEF OneSends
      <4>2. s \o <<>> = s
        BY <3>2
      <4> QED BY <3>1, <4>1, <4>2
    <3> QED BY <3>3, <3>4
  <2> QED BY <2>1 DEF Puts
<1>6. Puts(tc, y, tc)
  <2>1. ASSUME NEW b \in Clients
        PROVE  tc[b] = tc[b] \o y[b]
    <3>1. PICK t : t = tc[b]
      OBVIOUS
    <3>2. t \in Seq(FromServer) /\ y[b] = <<>>
      BY <1>2, <3>1 DEF Mail
    <3>3. t \o <<>> = t
      BY <3>2
    <3> QED BY <3>1, <3>2, <3>3
  <2> QED BY <2>1 DEF Puts
<1>7. \A b \in Clients \ {c} : DOMAIN x[b] = {}
  BY <1>1
<1>8. Len(x[c]) = 1 /\ DOMAIN x[c] = {1} /\ x[c][1] = m
  BY <1>1, <1>3
<1>9. \A b \in Clients : DOMAIN y[b] = {}
  BY <1>2
<1> QED BY <1>4, <1>5, <1>6, <1>7, <1>8, <1>9 DEF OneLetter

\* A client that asks something, which changes nothing it knows.
LEMMA AskingAgrees ==
  ASSUME NEW w \in Games, NEW P, NEW Q, NEW c \in Clients, Sound(P), Sound(Q),
         NEW ts, NEW tc, GameInv(w, P, ts, tc), Mail(ts, tc),
         \A j \in Peers : j # c => Q[j] = P[j],
         SameGame(P[c], Q[c]), Q[c].polling = P[c].polling, Q[c].connected = P[c].connected,
         NEW m \in FromClient(c), NEW us, OneSends(ts, c, m, us),
         \/ m.type = "request" /\ Q[c].asked = P[c].asked
         \/ m.type = "play" /\ ~P[c].asked /\ Q[c].asked
  PROVE  GoesOn(w, P, Q, us, tc)
<1>1. c \in Peers
  BY ClientsArePeers
<1>2. PICK x, y : /\ Mail(x, y) /\ Puts(ts, x, us) /\ Puts(tc, y, tc) /\ OneLetter(x, y, c, m)
  BY OneMail
<1>3. \A b \in Clients : \A k \in DOMAIN x[b] : x[b][k].type # "input"
  BY <1>2 DEF OneLetter
<1>4. \A b \in Clients : \A k \in DOMAIN y[b] : y[b][k].type = "stall"
  BY <1>2 DEF OneLetter
<1>5. \A b \in Clients : \/ \A k \in DOMAIN x[b] : x[b][k].type # "play"
                         \/ Len(x[b]) = 1 /\ ~P[b].asked /\ Q[b].asked
  BY <1>2 DEF OneLetter
<1> QED BY <1>1, <1>2, <1>3, <1>4, <1>5, SameAgrees

\* A client that asks to play, which it does once.
LEMMA AsksToPlayAgrees ==
  ASSUME IInv, IInv', NEW w \in Games, GameInv(w, peer, toServer, toClient),
         NEW c \in Clients, AsksToPlay(c)
  PROVE  GoesOn(w, peer, peer', toServer', toClient')
<1>1. c \in Peers
  BY ClientsArePeers
<1>2. PICK P : P = peer
  OBVIOUS
<1>3. PICK Q : Q = peer'
  OBVIOUS
<1>4. /\ Sound(P) /\ Sound(Q) /\ Mail(toServer, toClient)
      /\ P = [j \in Peers |-> P[j]] /\ toServer = [b \in Clients |-> toServer[b]]
  BY <1>2, <1>3, Setting
<1>5. PICK m : m = PlayMsg
  OBVIOUS
<1>6. m \in FromClient(c) /\ m.type = "play"
  BY <1>5 DEF FromClient, PlayMsg
<1>7. /\ ~P[c].asked /\ Q = [P EXCEPT ![c].asked = TRUE]
      /\ OneSends(toServer, c, m, toServer') /\ toClient' = toClient
  BY <1>2, <1>3, <1>4, <1>5 DEF AsksToPlay, OneSends
<1>8. P[c] \in Netplays(c)
  BY <1>1, <1>4 DEF Sound, PeerInv
<1>9. /\ SameGame(P[c], Q[c]) /\ Q[c].polling = P[c].polling
      /\ Q[c].connected = P[c].connected /\ Q[c].asked
      /\ \A j \in Peers : j # c => Q[j] = P[j]
  BY <1>1, <1>4, <1>7, <1>8 DEF SameGame, Netplays
<1>10. GoesOn(w, P, Q, toServer', toClient)
  BY <1>2, <1>4, <1>6, <1>7, <1>9, AskingAgrees
<1> QED BY <1>2, <1>3, <1>7, <1>10

\* A client that asks for a savestate.
LEMMA RequestsSavestateAgrees ==
  ASSUME IInv, IInv', NEW w \in Games, GameInv(w, peer, toServer, toClient),
         NEW c \in Clients, RequestsSavestate(c)
  PROVE  GoesOn(w, peer, peer', toServer', toClient')
<1>1. c \in Peers
  BY ClientsArePeers
<1>2. PICK P : P = peer
  OBVIOUS
<1>3. PICK Q : Q = peer'
  OBVIOUS
<1>4. /\ Sound(P) /\ Sound(Q) /\ Mail(toServer, toClient)
      /\ P = [j \in Peers |-> P[j]] /\ toServer = [b \in Clients |-> toServer[b]]
  BY <1>2, <1>3, Setting
<1>5. PICK m : m = RequestMsg
  OBVIOUS
<1>6. m \in FromClient(c) /\ m.type = "request"
  BY <1>5 DEF FromClient, RequestMsg
<1>7. /\ Q = [P EXCEPT ![c].outstanding = TRUE]
      /\ OneSends(toServer, c, m, toServer') /\ toClient' = toClient
  BY <1>2, <1>3, <1>4, <1>5 DEF RequestsSavestate, OneSends
<1>8. P[c] \in Netplays(c)
  BY <1>1, <1>4 DEF Sound, PeerInv
<1>9. /\ SameGame(P[c], Q[c]) /\ Q[c].polling = P[c].polling
      /\ Q[c].connected = P[c].connected /\ Q[c].asked = P[c].asked
      /\ \A j \in Peers : j # c => Q[j] = P[j]
  BY <1>1, <1>4, <1>7, <1>8 DEF SameGame, Netplays
<1>10. GoesOn(w, P, Q, toServer', toClient)
  BY <1>2, <1>4, <1>6, <1>7, <1>9, AskingAgrees
<1> QED BY <1>2, <1>3, <1>7, <1>10

\* A peer that hangs up plays no more, and is what it was.
HungUp(P, Q, i) == Q = [P EXCEPT ![i].connected = FALSE, ![i].polling = FALSE]

\* It knows what it knew.
LEMMA HangupIs ==
  ASSUME NEW P, NEW Q, P = [j \in Peers |-> P[j]], NEW i \in Peers, P[i] \in Netplays(i),
         HungUp(P, Q, i)
  PROVE  /\ SameGame(P[i], Q[i]) /\ ~Q[i].polling /\ ~Q[i].connected /\ Q[i].asked = P[i].asked
         /\ \A j \in Peers : j # i => Q[j] = P[j]
BY DEF HungUp, SameGame, Netplays

\* What is taken is the first of what was sent.
LEMMA TakenIs ==
  ASSUME NEW ts, ts = [b \in Clients |-> ts[b]], NEW c \in Clients, ts[c] # <<>>,
         NEW us, us = [ts EXCEPT ![c] = Tail(@)]
  PROVE  OneTaken(ts, c, us)
BY DEF OneTaken

\* A client that reads a message that it does not act on, or that is not for this game,
\* or that ends its game.
LEMMA IgnoringAgrees ==
  ASSUME IInv, IInv', NEW w \in Games, GameInv(w, peer, toServer, toClient),
         NEW i \in Clients, ClientTakes(i), toServer' = toServer,
         NEW Q, Q = peer', \A j \in Peers : j # i => Q[j] = peer[j],
         SameGame(peer[i], Q[i]), Q[i].asked = peer[i].asked,
         Q[i].connected => Head(toClient[i]).type # "mode"
  PROVE  GoesOn(w, peer, peer', toServer', toClient')
<1>1. PICK P : P = peer
  OBVIOUS
<1>2. PICK tc : tc = toClient
  OBVIOUS
<1>3. PICK uc : uc = toClient'
  OBVIOUS
<1>4. /\ Sound(P) /\ Sound(Q) /\ Mail(toServer, tc) /\ tc = [b \in Clients |-> tc[b]]
  BY <1>1, <1>2, Setting
<1>5. P[i].polling /\ P[i].connected
  BY <1>1 DEF ClientTakes
<1>6. OneTaken(tc, i, uc)
  <2>1. tc[i] # <<>> /\ uc = [tc EXCEPT ![i] = Tail(@)]
    BY <1>2, <1>3 DEF ClientTakes
  <2> QED BY <1>4, <2>1, TakenIs
<1>7. GameInv(w, P, toServer, tc)
  BY <1>1, <1>2
<1>8. /\ \A j \in Peers : j # i => Q[j] = P[j]
      /\ SameGame(P[i], Q[i])
      /\ Q[i].polling => P[i].polling
      /\ Q[i].asked = P[i].asked
      /\ Q[i].connected => P[i].connected /\ Head(tc[i]).type # "mode"
  BY <1>1, <1>2, <1>5
<1>9. PICK ts : ts = toServer
  OBVIOUS
<1>10. Mail(ts, tc) /\ GameInv(w, P, ts, tc)
  BY <1>4, <1>7, <1>9
<1>11. GoesOn(w, P, Q, ts, uc)
  <2>1. Sound(P) /\ Sound(Q)
    BY <1>4
  <2> QED BY <1>6, <1>8, <1>10, <2>1, ClientIgnores
<1> QED BY <1>1, <1>3, <1>9, <1>11

\* Nor does that change anything with which a client hangs up.
LEMMA ClientHangsUp ==
  ASSUME IInv, IInv', NEW w \in Games, GameInv(w, peer, toServer, toClient),
         NEW i \in Clients, ClientTakes(i), Hangup(i), toServer' = toServer
  PROVE  GoesOn(w, peer, peer', toServer', toClient')
<1>1. PICK P : P = peer
  OBVIOUS
<1>2. PICK Q : Q = peer'
  OBVIOUS
<1>3. Sound(P) /\ P = [j \in Peers |-> P[j]]
  BY <1>1, Setting
<1>4. i \in Peers /\ P[i] \in Netplays(i)
  BY <1>3, ClientsArePeers DEF Sound, PeerInv
<1>5. HungUp(P, Q, i)
  BY <1>1, <1>2 DEF Hangup, HungUp
<1>6. /\ SameGame(P[i], Q[i]) /\ ~Q[i].connected /\ Q[i].asked = P[i].asked
      /\ \A j \in Peers : j # i => Q[j] = P[j]
  BY <1>3, <1>4, <1>5, HangupIs
<1> QED BY <1>1, <1>2, <1>6, IgnoringAgrees

\* A client that is asked to stall.
LEMMA ClientReceivesStallAgrees ==
  ASSUME IInv, IInv', NEW w \in Games, GameInv(w, peer, toServer, toClient),
         NEW i \in Clients, ClientReceivesStall(i)
  PROVE  GoesOn(w, peer, peer', toServer', toClient')
<1>1. PICK P : P = peer
  OBVIOUS
<1>2. PICK Q : Q = peer'
  OBVIOUS
<1>3. Sound(P) /\ P = [j \in Peers |-> P[j]]
  BY <1>1, Setting
<1>4. i \in Peers /\ P[i] \in Netplays(i)
  BY <1>3, ClientsArePeers DEF Sound, PeerInv
<1>5. \/ Q = P
      \/ \E n : Q = [P EXCEPT ![i].stall = "server", ![i].stall_frame = n]
  BY <1>1, <1>2 DEF ClientReceivesStall
<1>6. /\ SameGame(P[i], Q[i]) /\ Q[i].asked = P[i].asked
      /\ \A j \in Peers : j # i => Q[j] = P[j]
  <2>1. CASE Q = P
    BY <2>1 DEF SameGame
  <2>2. CASE \E n : Q = [P EXCEPT ![i].stall = "server", ![i].stall_frame = n]
    BY <1>3, <1>4, <2>2 DEF SameGame, Netplays
  <2> QED BY <1>5, <2>1, <2>2
<1>7. ClientTakes(i) /\ toServer' = toServer /\ Head(toClient[i]).type = "stall"
  BY DEF ClientReceivesStall
<1> QED BY <1>1, <1>2, <1>6, <1>7, IgnoringAgrees

\* The server that reads a message that changes nothing of the game.
LEMMA ServerIgnoringAgrees ==
  ASSUME IInv, IInv', NEW w \in Games, GameInv(w, peer, toServer, toClient),
         NEW c \in Clients, ServerTakes(c), toClient' = toClient,
         NEW Q, Q = peer', \A j \in Clients : Q[j] = peer[j], SameGame(peer[Server], Q[Server])
  PROVE  GoesOn(w, peer, peer', toServer', toClient')
<1>1. PICK P : P = peer
  OBVIOUS
<1>2. PICK ts : ts = toServer
  OBVIOUS
<1>3. PICK us : us = toServer'
  OBVIOUS
<1>4. /\ Sound(P) /\ Sound(Q) /\ Mail(ts, toClient) /\ ts = [b \in Clients |-> ts[b]]
  BY <1>1, <1>2, Setting
<1>5. P[Server].polling
  BY <1>1 DEF ServerTakes
<1>6. OneTaken(ts, c, us)
  <2>1. ts[c] # <<>> /\ us = [ts EXCEPT ![c] = Tail(@)]
    BY <1>2, <1>3 DEF ServerTakes
  <2> QED BY <1>4, <2>1, TakenIs
<1>7. GameInv(w, P, ts, toClient)
  BY <1>1, <1>2
<1>8. (\A j \in Clients : Q[j] = P[j]) /\ SameGame(P[Server], Q[Server])
  BY <1>1
<1>9. GoesOn(w, P, Q, us, toClient)
  BY <1>4, <1>5, <1>6, <1>7, <1>8, ServerIgnores
<1> QED BY <1>1, <1>3, <1>9

\* It is asked for a savestate.
LEMMA ServerReceivesRequestAgrees ==
  ASSUME IInv, IInv', NEW w \in Games, GameInv(w, peer, toServer, toClient),
         NEW c \in Clients, ServerReceivesRequest(c)
  PROVE  GoesOn(w, peer, peer', toServer', toClient')
<1>1. PICK P : P = peer
  OBVIOUS
<1>2. PICK Q : Q = peer'
  OBVIOUS
<1>3. Sound(P) /\ P = [j \in Peers |-> P[j]]
  BY <1>1, Setting
<1>4. Server \in Peers /\ P[Server] \in Netplays(Server) /\ \A j \in Clients : j \in Peers /\ j # Server
  BY <1>3, ClientsArePeers DEF Sound, PeerInv
<1>5. Q = [P EXCEPT ![Server].force_send = TRUE]
  BY <1>1, <1>2 DEF ServerReceivesRequest
<1>6. SameGame(P[Server], Q[Server]) /\ \A j \in Clients : Q[j] = P[j]
  BY <1>3, <1>4, <1>5 DEF SameGame, Netplays
<1>7. ServerTakes(c) /\ toClient' = toClient
  BY DEF ServerReceivesRequest
<1> QED BY <1>1, <1>2, <1>6, <1>7, ServerIgnoringAgrees

\* It hangs up.
LEMMA ServerHangsUp ==
  ASSUME IInv, IInv', NEW w \in Games, GameInv(w, peer, toServer, toClient),
         NEW c \in Clients, ServerTakes(c), Hangup(Server), toClient' = toClient
  PROVE  GoesOn(w, peer, peer', toServer', toClient')
<1>1. PICK P : P = peer
  OBVIOUS
<1>2. PICK Q : Q = peer'
  OBVIOUS
<1>3. Sound(P) /\ P = [j \in Peers |-> P[j]]
  BY <1>1, Setting
<1>4. Server \in Peers /\ P[Server] \in Netplays(Server) /\ \A j \in Clients : j \in Peers /\ j # Server
  BY <1>3, ClientsArePeers DEF Sound, PeerInv
<1>5. HungUp(P, Q, Server)
  BY <1>1, <1>2 DEF Hangup, HungUp
<1>6. SameGame(P[Server], Q[Server]) /\ \A j \in Clients : Q[j] = P[j]
  BY <1>3, <1>4, <1>5, HangupIs
<1> QED BY <1>1, <1>2, <1>6, ServerIgnoringAgrees

\* A peer that finds no place for its frame.
LEMMA HangupAgrees ==
  ASSUME IInv, IInv', NEW w \in Games, GameInv(w, peer, toServer, toClient),
         NEW i \in Peers, Hangup(i), toServer' = toServer, toClient' = toClient
  PROVE  GoesOn(w, peer, peer', toServer', toClient')
<1>1. PICK P : P = peer
  OBVIOUS
<1>2. PICK Q : Q = peer'
  OBVIOUS
<1>3. Sound(P) /\ P = [j \in Peers |-> P[j]] /\ Sound(Q) /\ Mail(toServer, toClient)
  BY <1>1, <1>2, Setting
<1>4. P[i] \in Netplays(i)
  BY <1>3 DEF Sound, PeerInv
<1>5. HungUp(P, Q, i)
  BY <1>1, <1>2 DEF Hangup, HungUp
<1>6. /\ SameGame(P[i], Q[i]) /\ ~Q[i].polling /\ ~Q[i].connected /\ Q[i].asked = P[i].asked
      /\ \A j \in Peers : j # i => Q[j] = P[j]
  BY <1>3, <1>4, <1>5, HangupIs
<1>7. PICK x : x = [b \in Clients |-> <<>>]
  OBVIOUS
<1>8. Mail(x, x) /\ \A b \in Clients : x[b] = <<>> /\ DOMAIN x[b] = {}
  BY <1>7, NoMail
<1>9. Puts(toServer, x, toServer) /\ Puts(toClient, x, toClient)
  <2>1. ASSUME NEW S, NEW s \in Seq(S)
        PROVE  s = s \o <<>>
    OBVIOUS
  <2>2. \A b \in Clients : toServer[b] = toServer[b] \o x[b] /\ toClient[b] = toClient[b] \o x[b]
    BY <1>3, <1>8, <2>1 DEF Mail
  <2> QED BY <2>2 DEF Puts
<1>10. \A b \in Clients : /\ \A k \in DOMAIN x[b] : x[b][k].type # "input"
                          /\ \A k \in DOMAIN x[b] : x[b][k].type = "stall"
                          /\ \A k \in DOMAIN x[b] : x[b][k].type # "play"
  BY <1>8
<1>11. GameInv(w, P, toServer, toClient)
  BY <1>1
<1>12. GoesOn(w, P, Q, toServer, toClient)
  BY <1>3, <1>6, <1>8, <1>9, <1>10, <1>11, SameAgrees
<1> QED BY <1>1, <1>2, <1>12

-----------------------------------------------------------------------------
(* The ring of a peer. *)

\* What the ring has of frames that may be needed stays in it.
Keeping(i, p, q) ==
  \A f \in Int : p.other <= f /\ Has(i, p, f) =>
    /\ Has(i, q, f)
    /\ At(i, p, f).have_real \subseteq At(i, q, f).have_real
    /\ At(i, p, f).have_local => At(i, q, f).have_local

\* The game has what it had.
Grows(w, v) ==
  \A c \in Peers : /\ w.made[c] \subseteq v.made[c]
                   /\ \A g \in w.made[c] : v.real[c][g] = w.real[c][g]

\* What has come into the ring is of the game.
Gains(v, i, p, q) ==
  \A k \in 1..BufferSize(i) : \A c \in q.ring[k].have_real :
    \/ /\ c \in p.ring[k].have_real /\ p.ring[k].frame = q.ring[k].frame
       /\ p.ring[k].real[c] = q.ring[k].real[c]
    \/ /\ q.ring[k].frame \in v.made[c]
       /\ q.ring[k].real[c] = v.real[c][q.ring[k].frame]

\* Then all in it is.
LEMMA HeardStays ==
  ASSUME NEW i, NEW p \in Netplays(i), NEW q \in Netplays(i), NEW w, NEW v,
         Grows(w, v), Heard(w, p), Gains(v, i, p, q)
  PROVE  Heard(v, q)
<1>1. DOMAIN p.ring = 1..BufferSize(i) /\ DOMAIN q.ring = 1..BufferSize(i)
  BY RingPlace
<1>2. ASSUME NEW k \in 1..BufferSize(i), NEW c \in q.ring[k].have_real
      PROVE  q.ring[k].frame \in v.made[c] /\ q.ring[k].real[c] = v.real[c][q.ring[k].frame]
  <2>1. c \in Peers
    <3>1. q.ring[k] \in Deltas
      BY RingPlace
    <3> QED BY <3>1, DeltaTypes
  <2>2. CASE /\ c \in p.ring[k].have_real /\ p.ring[k].frame = q.ring[k].frame
             /\ p.ring[k].real[c] = q.ring[k].real[c]
    <3>1. p.ring[k].frame \in w.made[c] /\ p.ring[k].real[c] = w.real[c][p.ring[k].frame]
      BY <1>1, <2>2 DEF Heard
    <3> QED BY <2>1, <2>2, <3>1 DEF Grows
  <2>3. CASE ~(/\ c \in p.ring[k].have_real /\ p.ring[k].frame = q.ring[k].frame
               /\ p.ring[k].real[c] = q.ring[k].real[c])
    BY <2>3 DEF Gains
  <2> QED BY <2>2, <2>3
<1> QED BY <1>1, <1>2 DEF Heard

\* The input that was taken is still there.
LEMMA TakesStays ==
  ASSUME NEW i, NEW p \in Netplays(i), NEW q \in Netplays(i), NEW w \in Games, NEW v, i \in Peers,
         Takes(w, i, p), v.made[i] = w.made[i], i \in p.players => v.joined[i] = w.joined[i],
         q.playing = p.playing, i \in q.players <=> i \in p.players,
         p.self <= q.self, p.other <= q.other, Keeping(i, p, q)
  PROVE  Takes(v, i, q)
<1>1. /\ p.self \in Nat /\ q.self \in Nat /\ p.other \in Nat /\ q.other \in Nat
      /\ w.made[i] \subseteq Frames /\ Frames \subseteq Int /\ Frames \subseteq Nat
  BY PeerTypes, FramesNat, FramesInt, GameTypes
<1>2. w.joined[i] \in Nat
  BY GameTypes
<1>3. i \notin p.players => w.made[i] = {}
  BY DEF Takes
<1>4. (q.playing <=> i \in q.players) /\ (i \notin q.players => v.made[i] = {})
  BY DEF Takes
<1>5. ASSUME NEW g \in v.made[i]
      PROVE  v.joined[i] <= g /\ g <= q.self
  <2>1. g \in Nat /\ w.joined[i] <= g /\ g <= p.self /\ i \in p.players
    BY <1>1, <1>3, <1>5 DEF Takes
  <2> QED BY <1>1, <2>1
<1>6. ASSUME NEW g \in v.made[i], q.other <= g
      PROVE  Has(i, q, g) /\ i \in At(i, q, g).have_real
  <2>1. g \in Int /\ g \in w.made[i] /\ p.other <= g
    <3>1. g \in w.made[i]
      BY <1>6
    <3>2. g \in Nat
      BY <1>1, <3>1
    <3> QED BY <1>1, <1>6, <3>1, <3>2
  <2>2. Has(i, p, g) /\ i \in At(i, p, g).have_real
    BY <2>1 DEF Takes
  <2> QED BY <2>1, <2>2 DEF Keeping
<1>7. ASSUME q.self \in v.made[i], q.other <= q.self
      PROVE  At(i, q, q.self).have_local
  <2>1. q.self = p.self /\ p.other <= p.self
    BY <1>1, <1>7 DEF Takes
  <2>2. Has(i, p, p.self) /\ At(i, p, p.self).have_local
    BY <1>7, <2>1 DEF Takes
  <2> QED BY <1>1, <2>1, <2>2 DEF Keeping
<1>8. ASSUME i \in q.players, NEW g \in Frames, q.self <= g, g < v.joined[i], q.other <= g
      PROVE  Has(i, q, g) /\ At(i, q, g).have_local
  <2>1. g \in Int /\ p.self <= g /\ g < w.joined[i] /\ p.other <= g
    BY <1>1, <1>2, <1>8
  <2>2. Has(i, p, g) /\ At(i, p, g).have_local
    BY <1>8, <2>1 DEF Takes
  <2> QED BY <2>1, <2>2 DEF Keeping
<1> QED BY <1>4, <1>5, <1>6, <1>7, <1>8 DEF Takes

\* What has been read of c is there.
ReadsOf(w, v, i, p, q, c) ==
  \/ /\ c \in p.players /\ v.joined[c] = w.joined[c] /\ p.read[c] <= q.read[c]
     /\ \A g \in Frames : q.other <= g /\ p.read[c] <= g /\ g < q.read[c] =>
          Has(i, q, g) /\ c \in At(i, q, g).have_real
  \/ v.joined[c] = q.read[c]

\* ... of all.
LEMMA ReadsStays ==
  ASSUME NEW i, NEW p \in Netplays(i), NEW q \in Netplays(i), NEW w \in Games, NEW v \in Games,
         Reads(w, i, p), \A c \in q.players \ {i} : ReadsOf(w, v, i, p, q, c),
         p.other <= q.other, Keeping(i, p, q)
  PROVE  Reads(v, i, q)
<1>1. /\ p.other \in Nat /\ q.other \in Nat /\ Frames \subseteq Int /\ Frames \subseteq Nat
      /\ q.players \subseteq Peers
  BY PeerTypes, FramesNat, FramesInt
<1>2. ASSUME NEW c \in q.players \ {i}
      PROVE  /\ v.joined[c] <= q.read[c]
             /\ \A g \in Frames : q.other <= g /\ v.joined[c] <= g /\ g < q.read[c] =>
                  Has(i, q, g) /\ c \in At(i, q, g).have_real
  <2>1. c \in Peers /\ p.read[c] \in Nat /\ q.read[c] \in Nat /\ v.joined[c] \in Nat
        /\ w.joined[c] \in Nat
    <3>1. c \in Peers /\ p.read \in [Peers -> Counts] /\ q.read \in [Peers -> Counts]
      BY <1>1, PeerTypes
    <3> QED BY <3>1, FramesNat, GameTypes
  <2>2. CASE v.joined[c] = q.read[c]
    <3>1. ASSUME NEW g \in Frames, v.joined[c] <= g, g < q.read[c]
          PROVE  FALSE
      BY <1>1, <2>1, <2>2, <3>1
    <3> QED BY <2>1, <2>2, <3>1
  <2>3. CASE v.joined[c] # q.read[c]
    <3>1. /\ c \in p.players /\ v.joined[c] = w.joined[c] /\ p.read[c] <= q.read[c]
          /\ \A g \in Frames : q.other <= g /\ p.read[c] <= g /\ g < q.read[c] =>
               Has(i, q, g) /\ c \in At(i, q, g).have_real
      BY <1>2, <2>3 DEF ReadsOf
    <3>2. w.joined[c] <= p.read[c]
      BY <1>2, <3>1 DEF Reads
    <3>3. ASSUME NEW g \in Frames, q.other <= g, v.joined[c] <= g, g < q.read[c]
          PROVE  Has(i, q, g) /\ c \in At(i, q, g).have_real
      <4>1. CASE p.read[c] <= g
        BY <3>1, <3>3, <4>1
      <4>2. CASE ~(p.read[c] <= g)
        <5>1. g \in Int /\ p.other <= g /\ w.joined[c] <= g /\ g < p.read[c]
          BY <1>1, <2>1, <3>1, <3>3, <4>2
        <5>2. Has(i, p, g) /\ c \in At(i, p, g).have_real
          BY <1>2, <3>1, <5>1 DEF Reads
        <5> QED BY <5>1, <5>2 DEF Keeping
      <4> QED BY <4>1, <4>2
    <3> QED BY <2>1, <3>1, <3>2, <3>3
  <2> QED BY <2>2, <2>3
<1> QED BY <1>2 DEF Reads

\* The states in the ring are what they were.
SameStates(i, p, q) == \A k \in 1..BufferSize(i) : q.ring[k].state = p.ring[k].state

\* Then there is a state to go back to, the same as before.
LEMMA SavesStays ==
  ASSUME NEW i, NEW p \in Netplays(i), NEW q \in Netplays(i), Counted(i, p), Keeping(i, p, q),
         SameStates(i, p, q), q.run = p.run, q.other = p.other, q.core = p.core,
         q.force_rewind = p.force_rewind, q.polling => p.polling, Saves(i, p)
  PROVE  Saves(i, q) /\ Certain(i, q) = Certain(i, p)
<1>1. p.other \in Int /\ p.run \in Int
  BY PeerTypes, FramesInt
<1>2. \A f \in Int : At(i, q, f).state = At(i, p, f).state
  BY PlaceIs DEF SameStates, At
<1>3. p.force_rewind \in BOOLEAN /\ (~p.force_rewind => p.other <= p.run)
  BY PeerTypes DEF Counted
<1>4. Saves(i, q)
  BY <1>1, <1>2, <1>3 DEF Saves, Keeping
<1>5. Certain(i, q) = Certain(i, p)
  BY <1>1, <1>2 DEF Certain
<1> QED BY <1>4, <1>5

\* A frame that is made ready has its place, and the others have theirs.
LEMMA ReadyIs ==
  ASSUME NEW i, NEW p \in Netplays(i), NEW f \in Frames, Ready(p, f),
         NEW q, q = netplay_delta_frame_ready(p, f)
  PROVE  /\ q \in Netplays(i) /\ RingOnly(p, q) /\ SameStates(i, p, q) /\ Keeping(i, p, q)
         /\ Has(i, q, f) /\ (Has(i, p, f) => q = p)
         /\ \A k \in 1..BufferSize(i) :
              \/ q.ring[k] = p.ring[k]
              \/ k = Place(i, f) /\ q.ring[k].have_real = {} /\ ~q.ring[k].have_local
<1>1. f \in Int /\ Place(i, f) \in 1..BufferSize(i) /\ Ptr(p, f) = Place(i, f) /\ Delta(p, f) = At(i, p, f)
  BY FramesInt, PlaceIs, RingPlace
<1>2. PICK k : k = Place(i, f)
  OBVIOUS
<1>3. q \in Netplays(i) /\ RingOnly(p, q) /\ Has(i, q, f) /\ (Has(i, p, f) => q = p)
  BY FrameReady DEF Has
<1>4. CASE Has(i, p, f)
  BY <1>3, <1>4 DEF SameStates, Keeping
<1>5. CASE ~Has(i, p, f)
  <2>1. p.ring \in [1..BufferSize(i) -> Deltas]
    BY RingPlace
  <2>2. PICK s : s = p.ring[k].state
    OBVIOUS
  <2>3. q = [p EXCEPT !.ring[k] = Fresh(f, s)]
    BY <1>1, <1>2, <1>5, <2>2 DEF netplay_delta_frame_ready, Has
  <2>4. q.ring = [p.ring EXCEPT ![k] = Fresh(f, s)]
    BY <2>3 DEF Netplays
  <2>5. /\ q.ring[k] = Fresh(f, s)
        /\ \A l \in 1..BufferSize(i) : l # k => q.ring[l] = p.ring[l]
    BY <1>1, <1>2, <2>1, <2>4
  <2>6. Fresh(f, s).state = s /\ Fresh(f, s).have_real = {} /\ ~Fresh(f, s).have_local
    BY DEF Fresh
  <2>7. SameStates(i, p, q)
    BY <2>2, <2>5, <2>6 DEF SameStates
  <2>8. p.ring[k].frame < p.other
    BY <1>1, <1>2, <1>5 DEF Ready, Has, At
  <2>9. ASSUME NEW g \in Int, p.other <= g, Has(i, p, g)
        PROVE  /\ Has(i, q, g)
               /\ At(i, p, g).have_real \subseteq At(i, q, g).have_real
               /\ At(i, p, g).have_local => At(i, q, g).have_local
    <3>1. p.other \in Int /\ Place(i, g) \in 1..BufferSize(i)
      BY PeerTypes, FramesInt, PlaceIs
    <3>2. Place(i, g) # k
      BY <2>8, <2>9, <3>1 DEF Has, At
    <3>3. At(i, q, g) = At(i, p, g)
      BY <2>5, <3>1, <3>2 DEF At
    <3> QED BY <2>9, <3>3 DEF Has
  <2> QED BY <1>2, <1>3, <1>5, <2>5, <2>6, <2>7, <2>9 DEF Keeping
<1> QED BY <1>3, <1>4, <1>5

\* An input of the game that comes in its turn, and finds room.
InTurn(w, p, m) ==
  /\ m.frame \in Frames /\ m.client \in p.players /\ m.input \in SUBSET Buttons
  /\ m.frame = p.read[m.client] /\ Ready(p, m.frame)
  /\ m.frame \in w.made[m.client] /\ m.input = w.real[m.client][m.frame]

\* It is written.
Wrote(p, m, s, q) == q = [Written(p, m) EXCEPT !.server = s]

\* All but the ring and what has been read is what it was.
Beside(p, q) ==
  /\ q.playing = p.playing /\ q.players = p.players /\ q.self = p.self /\ q.run = p.run
  /\ q.other = p.other /\ q.core = p.core /\ q.force_rewind = p.force_rewind
  /\ q.loads = p.loads /\ q.asked = p.asked /\ q.polling = p.polling
  /\ q.connected = p.connected

\* An input that is written is there, and the rest is what it was.
LEMMA WrittenIs ==
  ASSUME NEW i \in Peers, NEW p \in Netplays(i), Counted(i, p), NEW m, NEW w, InTurn(w, p, m),
         NEW s, NEW q \in Netplays(i), Wrote(p, m, s, q)
  PROVE  /\ Beside(p, q) /\ q.server = s
         /\ \A c \in Peers : q.read[c] = IF c = m.client THEN p.read[c] + 1 ELSE p.read[c]
         /\ SameStates(i, p, q) /\ Keeping(i, p, q) /\ Gains(w, i, p, q)
         /\ Has(i, q, m.frame) /\ m.client \in At(i, q, m.frame).have_real
<1>1. PICK c : c = m.client
  OBVIOUS
<1>2. PICK f : f = m.frame
  OBVIOUS
<1>3. PICK k : k = Place(i, f)
  OBVIOUS
<1>4. PICK r : r = netplay_delta_frame_ready(p, f)
  OBVIOUS
<1>5. c \in Peers /\ f \in Frames /\ f \in Int
  BY <1>1, <1>2, PeerTypes, FramesInt DEF InTurn
<1>6. /\ r \in Netplays(i) /\ RingOnly(p, r) /\ SameStates(i, p, r) /\ Keeping(i, p, r)
      /\ Has(i, r, f)
      /\ \A l \in 1..BufferSize(i) :
           \/ r.ring[l] = p.ring[l]
           \/ l = Place(i, f) /\ r.ring[l].have_real = {} /\ ~r.ring[l].have_local
  <2>1. Ready(p, f)
    BY <1>2 DEF InTurn
  <2> QED BY <1>4, <1>5, <2>1, ReadyIs
<1>7. k \in 1..BufferSize(i) /\ Ptr(r, f) = k /\ r.ring \in [1..BufferSize(i) -> Deltas]
  BY <1>3, <1>5, <1>6, PlaceIs, RingPlace
<1>8. r.read \in [Peers -> Counts]
  BY <1>6, PeerTypes
<1>9. PICK d : d = Given(r.ring[k], c, m.input)
  OBVIOUS
<1>10. q = [r EXCEPT !.ring[k] = d, !.read[c] = @ + 1, !.server = s]
  BY <1>1, <1>2, <1>4, <1>7, <1>9 DEF Written, Wrote
<1>11. /\ q.playing = r.playing /\ q.players = r.players /\ q.self = r.self /\ q.run = r.run
       /\ q.other = r.other /\ q.core = r.core /\ q.force_rewind = r.force_rewind
       /\ q.loads = r.loads /\ q.asked = r.asked /\ q.polling = r.polling
       /\ q.connected = r.connected /\ q.server = s
       /\ q.read = [r.read EXCEPT ![c] = @ + 1] /\ q.ring = [r.ring EXCEPT ![k] = d]
  BY <1>6, <1>10 DEF Netplays
<1>12. /\ q.ring[k] = d /\ \A l \in 1..BufferSize(i) : l # k => q.ring[l] = r.ring[l]
  <2>1. q.ring = [r.ring EXCEPT ![k] = d]
    BY <1>11
  <2>2. k \in 1..BufferSize(i) /\ r.ring \in [1..BufferSize(i) -> Deltas]
    BY <1>7
  <2> QED BY <2>1, <2>2
<1>13. r.ring[k] \in Deltas
  BY <1>7
<1>14. /\ d.frame = r.ring[k].frame /\ d.have_local = r.ring[k].have_local
       /\ d.state = r.ring[k].state /\ d.have_real = r.ring[k].have_real \cup {c}
       /\ d.real = [r.ring[k].real EXCEPT ![c] = m.input] /\ d.frame = f
  BY <1>3, <1>6, <1>9, <1>13 DEF Given, Deltas, Has, At
<1>15. r.ring[k].real \in Boards
  BY <1>13, DeltaTypes
<1>16. SameStates(i, p, q)
  BY <1>6, <1>12, <1>14 DEF SameStates
<1>17. Keeping(i, p, q)
  <2>1. ASSUME NEW g \in Int, p.other <= g, Has(i, p, g)
        PROVE  /\ Has(i, q, g)
               /\ At(i, p, g).have_real \subseteq At(i, q, g).have_real
               /\ At(i, p, g).have_local => At(i, q, g).have_local
    <3>1. /\ Has(i, r, g)
          /\ At(i, p, g).have_real \subseteq At(i, r, g).have_real
          /\ At(i, p, g).have_local => At(i, r, g).have_local
      BY <1>6, <2>1 DEF Keeping
    <3>2. Place(i, g) \in 1..BufferSize(i)
      BY PlaceIs
    <3> QED BY <1>12, <1>14, <3>1, <3>2 DEF At, Has
  <2> QED BY <2>1 DEF Keeping
<1>18. Gains(w, i, p, q)
  <2>1. ASSUME NEW l \in 1..BufferSize(i), NEW b \in q.ring[l].have_real
        PROVE  \/ /\ b \in p.ring[l].have_real /\ p.ring[l].frame = q.ring[l].frame
                  /\ p.ring[l].real[b] = q.ring[l].real[b]
               \/ /\ q.ring[l].frame \in w.made[b]
                  /\ q.ring[l].real[b] = w.real[b][q.ring[l].frame]
    <3>1. CASE l # k
      BY <1>3, <1>6, <1>12, <2>1, <3>1
    <3>2. CASE l = k /\ b = c
      <4>1. q.ring[l].frame = f /\ q.ring[l].real[b] = m.input
        BY <1>5, <1>12, <1>14, <1>15, <3>2 DEF Boards
      <4> QED BY <1>1, <1>2, <3>2, <4>1 DEF InTurn
    <3>3. CASE l = k /\ b # c
      <4>1. b \in r.ring[k].have_real /\ q.ring[l].frame = r.ring[k].frame
            /\ q.ring[l].real[b] = r.ring[k].real[b]
        <5>1. b \in d.have_real /\ q.ring[l] = d
          BY <1>12, <2>1, <3>3
        <5>2. b \in r.ring[k].have_real
          BY <1>14, <3>3, <5>1
        <5>3. b \in Peers
          BY <1>13, <5>2, DeltaTypes
        <5>4. d.real[b] = r.ring[k].real[b]
          BY <1>5, <1>14, <1>15, <3>3, <5>3 DEF Boards
        <5> QED BY <1>14, <5>1, <5>2, <5>4
      <4>2. r.ring[k] = p.ring[k]
        BY <1>6, <1>7, <4>1
      <4> QED BY <3>3, <4>1, <4>2
    <3> QED BY <3>1, <3>2, <3>3
  <2> QED BY <2>1 DEF Gains
<1>19. Has(i, q, m.frame) /\ m.client \in At(i, q, m.frame).have_real
  BY <1>1, <1>2, <1>3, <1>12, <1>14 DEF Has, At
<1>20. \A b \in Peers : q.read[b] = IF b = m.client THEN p.read[b] + 1 ELSE p.read[b]
  <2>1. q.read = [r.read EXCEPT ![c] = @ + 1]
    BY <1>11
  <2>2. r.read = p.read
    BY <1>6 DEF RingOnly
  <2> QED BY <1>1, <1>8, <2>1, <2>2
<1>21. Beside(p, q)
  BY <1>6, <1>11 DEF RingOnly, Beside
<1>22. q.server = s
  BY <1>11
<1> QED BY <1>16, <1>17, <1>18, <1>19, <1>20, <1>21, <1>22

-----------------------------------------------------------------------------
(* Inputs are read. *)

\* A client that reads a message and is certain of the same as before goes on.
LEMMA ClientReads ==
  ASSUME NEW w, NEW v \in Games, NEW P, NEW Q, NEW i \in Clients, Moves(w, v, P, Q, i),
         Sound(P), Sound(Q), NEW ts, NEW tc, GameInv(w, P, ts, tc), Mail(ts, tc),
         Knows(v, i, Q[i]), Certain(i, Q[i]) = Certain(i, P[i]), Q[i].other = P[i].other,
         Follows(v, Q, i, Tail(tc[i])), Q[i].asked = P[i].asked,
         Understands(P, Q, i, Head(tc[i])),
         NEW x \in Seq(FromClient(i)), InputsOf(v, i, x),
         NEW us, OneAdds(ts, i, x, us), NEW uc, OneTaken(tc, i, uc)
  PROVE  GoesOn(w, P, Q, us, uc)
<1>1. i \in Peers
  BY ClientsArePeers
<1>2. Agrees(v, Q, i)
  BY <1>1, AgreesStays
<1>3. GameInv(v, Q, us, uc)
  BY <1>2, ClientReadingAgrees
<1>4. P[i].other \in Nat
  BY <1>1, PeerTypes, FramesNat DEF Sound, PeerInv
<1>5. Onward(w, v, P, Q, i)
  BY <1>4 DEF Onward
<1> QED BY <1>1, <1>3, <1>5 DEF GoesOn

\* Nothing is sent by a client.
LEMMA OneSilent ==
  ASSUME NEW ts, NEW tc, Mail(ts, tc), NEW i \in Clients, NEW v
  PROVE  \E x \in Seq(FromClient(i)) : InputsOf(v, i, x) /\ OneAdds(ts, i, x, ts)
<1>1. PICK x : x = <<>> /\ x \in Seq(FromClient(i)) /\ DOMAIN x = {}
  BY NothingSent
<1>2. OneAdds(ts, i, x, ts)
  <2>1. PICK s : s = ts[i]
    OBVIOUS
  <2>2. s \in Seq(FromClient(i))
    BY <2>1 DEF Mail
  <2>3. s \o <<>> = s
    BY <2>2
  <2> QED BY <1>1, <2>1, <2>3 DEF OneAdds
<1>3. InputsOf(v, i, x)
  BY <1>1 DEF InputsOf
<1> QED BY <1>1, <1>2, <1>3

\* A client that has read an input of the server follows.
LEMMA FollowsInput ==
  ASSUME NEW w \in Games, NEW P, NEW Q, NEW i \in Clients, Sound(P), Sound(Q), NEW s \in Seq(FromServer),
         s # <<>>, ToClient(w, P, i, s), Follows(w, P, i, s), P[i].connected,
         NEW m, m = Head(s), m.type = "input", Q[Server] = P[Server],
         Q[i].players = P[i].players,
         Q[i].server = P[i].server \/ (m.client = Server /\ Q[i].server = m.frame + 1)
  PROVE  Follows(w, Q, i, Tail(s))
<1>1. PICK u : u = Tail(s)
  OBVIOUS
<1>2. /\ m = s[1] /\ 1 \in DOMAIN s /\ DOMAIN s = 1..Len(s)
      /\ \A k \in DOMAIN s : k = 1 \/ (k - 1 \in DOMAIN u /\ u[k - 1] = s[k])
  BY <1>1, InTail
<1>3. m \in FromServer /\ Tells(w, P, i, m)
  BY <1>2 DEF ToClient
<1>4. m.frame \in Nat
  BY <1>3, InputMessage, FramesNat
<1>5. P[Server].read[Server] \in Nat /\ P[Server].players \subseteq Peers
  BY ServerCounts
<1>6. Q[i].server <= P[Server].read[Server]
  <2>1. CASE Q[i].server = P[i].server
    BY <2>1 DEF Follows
  <2>2. CASE m.client = Server /\ Q[i].server = m.frame + 1
    <3>1. m.frame < P[Server].read[Server]
      BY <1>3, <2>2 DEF Tells
    <3> QED BY <1>4, <1>5, <2>2, <3>1
  <2> QED BY <2>1, <2>2
<1>7. ASSUME NEW c \in P[Server].players \ P[i].players
      PROVE  Q[i].server <= w.joined[c] /\ \E l \in DOMAIN u : u[l] = ModeMsg(w.joined[c], c)
  <2>1. P[i].server <= w.joined[c] /\ \E k \in DOMAIN s : s[k] = ModeMsg(w.joined[c], c)
    BY <1>7 DEF Follows
  <2>2. PICK k \in DOMAIN s : s[k] = ModeMsg(w.joined[c], c)
    BY <2>1
  <2>3. s[k].type = "mode" /\ s[k].frame = w.joined[c]
    BY <2>2 DEF ModeMsg
  <2>4. k # 1
    BY <1>2, <2>3
  <2>5. 1 < k
    BY <1>2, <2>4
  <2>6. InOrder(s[1], s[k])
    BY <1>2, <2>5 DEF ToClient
  <2>7. w.joined[c] \in Nat
    BY <1>5, <1>7, GameTypes
  <2>8. m.client = Server => m.frame + 1 <= w.joined[c]
    <3>1. m.client = Server => m.frame < w.joined[c]
      BY <1>2, <2>3, <2>6 DEF InOrder
    <3> QED BY <1>4, <2>7, <3>1
  <2>9. Q[i].server <= w.joined[c]
    BY <2>1, <2>8
  <2> QED BY <1>2, <2>2, <2>4, <2>9
<1>8. Q[i].players \subseteq Q[Server].players
  BY DEF Follows
<1>9. Q[i].server <= Q[Server].read[Server]
  BY <1>6
<1>10. \A c \in Q[Server].players \ Q[i].players :
         /\ Q[i].server <= w.joined[c]
         /\ Q[i].connected => \E l \in DOMAIN u : u[l] = ModeMsg(w.joined[c], c)
  BY <1>7
<1> QED BY <1>1, <1>8, <1>9, <1>10 DEF Follows

\* Who writes an input that is of the game still knows the game.
LEMMA WritingKnows ==
  ASSUME NEW w \in Games, NEW i \in Peers, NEW p \in Netplays(i), Counted(i, p),
         Knows(w, i, p), NEW m, InTurn(w, p, m), NEW s, NEW q \in Netplays(i), Wrote(p, m, s, q)
  PROVE  Knows(w, i, q) /\ Certain(i, q) = Certain(i, p)
<1>1. /\ Beside(p, q) /\ q.server = s
      /\ \A c \in Peers : q.read[c] = IF c = m.client THEN p.read[c] + 1 ELSE p.read[c]
      /\ SameStates(i, p, q) /\ Keeping(i, p, q) /\ Gains(w, i, p, q)
      /\ Has(i, q, m.frame) /\ m.client \in At(i, q, m.frame).have_real
  BY WrittenIs
<1>9. /\ q.playing = p.playing /\ q.players = p.players /\ q.self = p.self /\ q.run = p.run
      /\ q.other = p.other /\ q.core = p.core /\ q.force_rewind = p.force_rewind
      /\ q.polling = p.polling
  BY <1>1 DEF Beside
<1>2. Heard(w, p) /\ Takes(w, i, p) /\ Reads(w, i, p) /\ Saves(i, p)
  BY DEF Knows
<1>3. Heard(w, q)
  <2>1. Grows(w, w) /\ Gains(w, i, p, q)
    BY <1>1 DEF Grows
  <2> QED BY <1>2, <2>1, HeardStays
<1>4. p.self \in Nat /\ p.other \in Nat /\ p.read \in [Peers -> Counts] /\ p.players \subseteq Peers
      /\ m.frame = p.read[m.client]
  BY PeerTypes, FramesNat DEF InTurn
<1>5. Takes(w, i, q)
  <2>1. p.self <= q.self /\ p.other <= q.other /\ Keeping(i, p, q)
    BY <1>1, <1>4, <1>9
  <2> QED BY <1>2, <1>9, <2>1, TakesStays
<1>6. ASSUME NEW c \in q.players \ {i}
      PROVE  ReadsOf(w, w, i, p, q, c)
  <2>1. c \in Peers /\ p.read[c] \in Nat /\ c \in p.players
    BY <1>4, <1>6, <1>9, FramesNat
  <2>2. CASE c = m.client
    <3>1. q.read[c] = p.read[c] + 1
      BY <1>1, <2>1, <2>2
    <3>2. \A g \in Frames : p.read[c] <= g /\ g < q.read[c] => g = m.frame
      BY <1>4, <2>1, <2>2, <3>1, FramesNat
    <3>3. Has(i, q, m.frame) /\ c \in At(i, q, m.frame).have_real
      BY <1>1, <2>2
    <3> QED BY <2>1, <3>1, <3>2, <3>3 DEF ReadsOf
  <2>3. CASE c # m.client
    <3>1. q.read[c] = p.read[c]
      BY <1>1, <2>1, <2>3
    <3>2. \A g \in Frames : ~(p.read[c] <= g /\ g < q.read[c])
      <4>1. \A g \in Nat : ~(p.read[c] <= g /\ g < q.read[c])
        BY <2>1, <3>1
      <4> QED BY <4>1, FramesNat
    <3> QED BY <2>1, <3>1, <3>2 DEF ReadsOf
  <2> QED BY <2>2, <2>3
<1>7. Reads(w, i, q)
  <2>1. p.other <= q.other /\ Keeping(i, p, q)
    BY <1>1, <1>4, <1>9
  <2> QED BY <1>2, <1>6, <2>1, ReadsStays
<1>8. Saves(i, q) /\ Certain(i, q) = Certain(i, p)
  <2>1. SameStates(i, p, q) /\ Keeping(i, p, q)
    BY <1>1
  <2> QED BY <1>2, <1>9, <2>1, SavesStays
<1> QED BY <1>3, <1>5, <1>7, <1>8 DEF Knows

\* A client that reads an input.
LEMMA ClientReceivesInputAgrees ==
  ASSUME IInv, IInv', NEW w \in Games, GameInv(w, peer, toServer, toClient),
         NEW i \in Clients, ClientReceivesInput(i)
  PROVE  GoesOn(w, peer, peer', toServer', toClient')
<1>1. PICK P : P = peer
  OBVIOUS
<1>2. PICK Q : Q = peer'
  OBVIOUS
<1>3. PICK tc : tc = toClient
  OBVIOUS
<1>4. PICK m : m = Head(tc[i])
  OBVIOUS
<1>5. PICK p : p = P[i]
  OBVIOUS
<1>6. /\ Sound(P) /\ Sound(Q) /\ Mail(toServer, tc) /\ P = [j \in Peers |-> P[j]]
      /\ tc = [b \in Clients |-> tc[b]]
  BY <1>1, <1>2, <1>3, Setting
<1>7. i \in Peers /\ i # Server /\ Server \in Peers
  BY ClientsArePeers
<1>8. ClientTakes(i) /\ m.type = "input" /\ toServer' = toServer
  BY <1>3, <1>4 DEF ClientReceivesInput
<1>9. p.polling /\ p.connected /\ m \in FromServer /\ Fits(p, m)
  BY <1>1, <1>3, <1>4, <1>5, <1>8, ClientTook
<1>10. CASE peer' = peer
  <2>1. /\ Q = P /\ SameGame(P[i], Q[i]) /\ Q[i].asked = P[i].asked
        /\ \A j \in Peers : j # i => Q[j] = P[j]
    BY <1>1, <1>2, <1>10 DEF SameGame
  <2>2. Head(toClient[i]).type # "mode"
    BY <1>3, <1>4, <1>8
  <2> QED BY <1>1, <1>2, <1>8, <2>1, <2>2, IgnoringAgrees
<1>11. CASE Hangup(i)
  BY <1>8, <1>11, ClientHangsUp
<1>12. CASE /\ m.client \in p.players /\ m.frame = p.read[m.client]
            /\ peer' = [peer EXCEPT ![i] =
                 [Written(p, m) EXCEPT !.server = IF m.client = Server THEN m.frame + 1 ELSE @]]
  <2>1. m.frame \in Frames /\ m.client \in Peers /\ m.input \in SUBSET Buttons
    BY <1>8, <1>9, InputMessage
  <2>2. Ready(p, m.frame)
    BY <1>8, <1>9, <1>12 DEF Fits
  <2>3. PICK s : s = IF m.client = Server THEN m.frame + 1 ELSE Written(p, m).server
    OBVIOUS
  <2>4. Written(p, m).server = p.server
    BY DEF Written, netplay_delta_frame_ready
  <2>5. PICK q : Wrote(p, m, s, q)
    BY DEF Wrote
  <2>6. Q = [P EXCEPT ![i] = q]
    BY <1>1, <1>2, <1>12, <2>3, <2>5 DEF Wrote
  <2>7. Q[i] = q /\ (\A j \in Peers : j # i => Q[j] = P[j]) /\ Q[Server] = P[Server]
    BY <1>6, <1>7, <2>6
  <2>8. p \in Netplays(i) /\ q \in Netplays(i) /\ Counted(i, p)
    BY <1>5, <1>6, <1>7, <2>7 DEF Sound, PeerInv
  <2>9. GameInv(w, P, toServer, tc)
    BY <1>1, <1>3
  <2>10. PICK t : t = tc[i]
    OBVIOUS
  <2>11. /\ t \in Seq(FromServer) /\ t # <<>> /\ m = Head(t)
         /\ ToClient(w, P, i, t) /\ Follows(w, P, i, t)
    BY <1>3, <1>4, <1>6, <1>8, <2>9, <2>10 DEF Mail, GameInv, ClientTakes
  <2>12. Tells(w, P, i, m)
    <3>1. m = t[1] /\ 1 \in DOMAIN t
      BY <2>11, InTail
    <3> QED BY <2>11, <3>1 DEF ToClient
  <2>13. InTurn(w, p, m)
    BY <1>8, <1>12, <2>1, <2>2, <2>12 DEF InTurn, Tells
  <2>14. Knows(w, i, p)
    BY <1>5, <1>7, <2>9 DEF GameInv, Knows
  <2>15. Knows(w, i, q) /\ Certain(i, q) = Certain(i, p)
    BY <1>7, <2>5, <2>8, <2>13, <2>14, WritingKnows
  <2>16. Beside(p, q) /\ q.server = s
    BY <1>7, <2>5, <2>8, <2>13, WrittenIs
  <2>17. /\ q.self = p.self /\ q.players = p.players /\ q.other = p.other /\ q.loads = p.loads
         /\ q.connected = p.connected /\ q.asked = p.asked
    BY <2>16 DEF Beside
  <2>18. Follows(w, Q, i, Tail(t))
    <3>1. Q[i].server = P[i].server \/ (m.client = Server /\ Q[i].server = m.frame + 1)
      BY <1>5, <2>3, <2>4, <2>7, <2>16
    <3>2. Q[i].players = P[i].players /\ P[i].connected
      BY <1>5, <1>9, <2>7, <2>17
    <3> QED BY <1>6, <1>8, <2>7, <2>11, <3>1, <3>2, FollowsInput
  <2>19. Moves(w, w, P, Q, i)
    <3>1. w.joined[Server] = 0
      BY <2>9 DEF GameInv
    <3>2. Q[i].self = P[i].self /\ Q[i].loads = P[i].loads
      BY <1>5, <2>7, <2>17
    <3> QED BY <1>6, <1>7, <2>7, <3>1, <3>2, SameMoves
  <2>20. Understands(P, Q, i, Head(tc[i]))
    <3>1. /\ Q[i].connected = P[i].connected /\ Q[i].players = P[i].players
          /\ Certain(i, Q[i]) = Certain(i, P[i])
      BY <1>5, <2>7, <2>15, <2>17
    <3>2. Head(tc[i]).type # "mode"
      BY <1>4, <1>8
    <3> QED BY <3>1, <3>2 DEF Understands
  <2>21. PICK x \in Seq(FromClient(i)) : InputsOf(w, i, x) /\ OneAdds(toServer, i, x, toServer)
    BY <1>6, OneSilent
  <2>22. PICK uc : uc = toClient'
    OBVIOUS
  <2>23. OneTaken(tc, i, uc)
    <3>1. tc[i] # <<>> /\ uc = [tc EXCEPT ![i] = Tail(@)]
      BY <1>3, <1>8, <2>22 DEF ClientTakes
    <3> QED BY <1>6, <3>1, TakenIs
  <2>24. /\ Knows(w, i, Q[i]) /\ Certain(i, Q[i]) = Certain(i, P[i]) /\ Q[i].other = P[i].other
         /\ Q[i].asked = P[i].asked /\ Follows(w, Q, i, Tail(tc[i]))
    BY <1>5, <2>7, <2>10, <2>15, <2>17, <2>18
  <2>25. PICK ts : ts = toServer
    OBVIOUS
  <2>26. GameInv(w, P, ts, tc) /\ Mail(ts, tc) /\ OneAdds(ts, i, x, ts)
    BY <1>6, <2>9, <2>21, <2>25
  <2>27. Sound(P) /\ Sound(Q) /\ InputsOf(w, i, x)
    BY <1>6, <2>21
  <2>28. GoesOn(w, P, Q, ts, uc)
    BY <2>19, <2>20, <2>23, <2>24, <2>26, <2>27, ClientReads
  <2> QED BY <1>1, <1>2, <1>8, <2>22, <2>25, <2>28
<1> QED BY <1>1, <1>3, <1>4, <1>5, <1>10, <1>11, <1>12 DEF ClientReceivesInput

\* A server that reads a message and is certain of the same as before goes on.
LEMMA ServerReads ==
  ASSUME NEW w, NEW v \in Games, NEW P, NEW Q, Moves(w, v, P, Q, Server), Sound(P), Sound(Q),
         NEW ts, NEW tc, GameInv(w, P, ts, tc), Mail(ts, tc), NEW c \in Clients,
         Knows(v, Server, Q[Server]), Certain(Server, Q[Server]) = Certain(Server, P[Server]),
         Q[Server].other = P[Server].other,
         Q[Server].players = P[Server].players
           \/ (Head(ts[c]).type = "play" /\ Q[Server].players = P[Server].players \cup {c}),
         NEW us, OneTaken(ts, c, us),
         NEW y, \A b \in Clients : y[b] \in Seq(FromServer), Posts(v, Q, tc, y),
         \A b \in Clients : Announces(v, P, Q, y[b]),
         NEW uc, Puts(tc, y, uc)
  PROVE  GoesOn(w, P, Q, us, uc)
<1>1. Server \in Peers
  BY ClientsArePeers
<1>2. Agrees(v, Q, Server)
  BY <1>1, AgreesStays
<1>3. GameInv(v, Q, us, uc)
  BY <1>2, ServerReadingAgrees
<1>4. P[Server].other \in Nat
  BY <1>1, PeerTypes, FramesNat DEF Sound, PeerInv
<1>5. Onward(w, v, P, Q, Server)
  BY <1>4 DEF Onward
<1> QED BY <1>1, <1>3, <1>5 DEF GoesOn

\* m is put behind what the clients B have been sent.
SentTo(tc, B, m, uc) == uc = [b \in Clients |-> IF b \in B THEN Append(tc[b], m) ELSE tc[b]]

\* y is m for each of B, and nothing for the others.
Only(y, B, m) ==
  \A b \in Clients : /\ y[b] \in Seq(FromServer)
                     /\ \A k \in DOMAIN y[b] : k = 1 /\ b \in B /\ y[b][k] = m
                     /\ b \in B => 1 \in DOMAIN y[b]

\* One is put behind by the other.
LEMMA SomeMail ==
  ASSUME NEW tc, \A b \in Clients : tc[b] \in Seq(FromServer), NEW m \in FromServer,
         NEW B, NEW uc, SentTo(tc, B, m, uc)
  PROVE  \E y : Puts(tc, y, uc) /\ Only(y, B, m)
<1>1. PICK y : y = [b \in Clients |-> IF b \in B THEN <<m>> ELSE <<>>]
  OBVIOUS
<1>2. <<m>> \in Seq(FromServer) /\ DOMAIN <<m>> = {1} /\ <<m>>[1] = m
  OBVIOUS
<1>3. \A b \in Clients : y[b] \in Seq(FromServer)
  BY <1>1, <1>2
<1>4. Puts(tc, y, uc)
  <2>1. ASSUME NEW b \in Clients
        PROVE  uc[b] = tc[b] \o y[b]
    <3>1. PICK t : t = tc[b]
      OBVIOUS
    <3>2. t \in Seq(FromServer)
      BY <3>1
    <3>3. Append(t, m) = t \o <<m>> /\ t \o <<>> = t
      BY <3>2
    <3> QED BY <1>1, <3>1, <3>3 DEF SentTo
  <2> QED BY <2>1 DEF Puts
<1>5. ASSUME NEW b \in Clients
      PROVE  /\ \A k \in DOMAIN y[b] : k = 1 /\ b \in B /\ y[b][k] = m
             /\ b \in B => 1 \in DOMAIN y[b]
  BY <1>1, <1>2
<1> QED BY <1>3, <1>4, <1>5 DEF Only

\* The server that reads an input, and sends it on.
LEMMA ServerReceivesInputAgrees ==
  ASSUME IInv, IInv', NEW w \in Games, GameInv(w, peer, toServer, toClient),
         NEW c \in Clients, ServerReceivesInput(c)
  PROVE  GoesOn(w, peer, peer', toServer', toClient')
<1>1. PICK P : P = peer
  OBVIOUS
<1>2. PICK Q : Q = peer'
  OBVIOUS
<1>3. PICK ts : ts = toServer
  OBVIOUS
<1>4. PICK m : m = Head(ts[c])
  OBVIOUS
<1>5. PICK p : p = P[Server]
  OBVIOUS
<1>6. /\ Sound(P) /\ Sound(Q) /\ Mail(ts, toClient) /\ P = [j \in Peers |-> P[j]]
      /\ ts = [b \in Clients |-> ts[b]] /\ toClient = [b \in Clients |-> toClient[b]]
  BY <1>1, <1>2, <1>3, Setting
<1>7. Server \in Peers /\ c \in Peers /\ c # Server /\ \A b \in Clients : b \in Peers /\ b # Server
  BY ClientsArePeers
<1>8. ServerTakes(c) /\ m.type = "input"
  BY <1>3, <1>4 DEF ServerReceivesInput
<1>9. p.polling /\ p.connected /\ m \in FromClient(c) /\ Fits(p, m)
  BY <1>1, <1>3, <1>4, <1>5, <1>8, ServerTook
<1>10. CASE peer' = peer /\ toClient' = toClient
  <2>1. SameGame(P[Server], Q[Server]) /\ \A j \in Clients : Q[j] = P[j]
    BY <1>1, <1>2, <1>10 DEF SameGame
  <2> QED BY <1>1, <1>2, <1>8, <1>10, <2>1, ServerIgnoringAgrees
<1>11. CASE Hangup(Server) /\ toClient' = toClient
  BY <1>8, <1>11, ServerHangsUp
<1>12. CASE /\ c \in p.players /\ m.frame = p.read[c]
            /\ peer' = [peer EXCEPT ![Server] = Written(p, m)]
            /\ toClient' = [b \in Clients |->
                 IF b # c /\ m.frame <= p.self THEN Append(toClient[b], m) ELSE toClient[b]]
  <2>1. m.frame \in Frames /\ m.client = c /\ m.input \in SUBSET Buttons
    BY <1>8, <1>9, ClientsInput
  <2>2. Ready(p, m.frame)
    BY <1>8, <1>9, <1>12, <2>1 DEF Fits
  <2>3. p \in Netplays(Server) /\ Counted(Server, p)
    BY <1>5, <1>6, <1>7 DEF Sound, PeerInv
  <2>4. PICK q : Wrote(p, m, p.server, q)
    BY DEF Wrote
  <2>5. q = Written(p, m)
    <3>1. PICK r : r = netplay_delta_frame_ready(p, m.frame)
      OBVIOUS
    <3>2. r \in Netplays(Server) /\ r.server = p.server
      <4>1. r \in Netplays(Server) /\ RingOnly(p, r)
        BY <2>1, <2>3, <3>1, FrameReady
      <4> QED BY <4>1 DEF RingOnly
    <3> QED BY <2>4, <3>1, <3>2 DEF Wrote, Written, Netplays
  <2>6. Q = [P EXCEPT ![Server] = q]
    BY <1>1, <1>2, <1>12, <2>5
  <2>7. Q[Server] = q /\ (\A j \in Peers : j # Server => Q[j] = P[j])
    BY <1>6, <1>7, <2>6
  <2>8. q \in Netplays(Server)
    BY <1>6, <1>7, <2>7 DEF Sound, PeerInv
  <2>9. GameInv(w, P, ts, toClient)
    BY <1>1, <1>3
  <2>10. m.frame \in w.made[c] /\ m.input = w.real[c][m.frame]
    <3>1. PICK t : t = ts[c]
      OBVIOUS
    <3>2. t \in Seq(FromClient(c)) /\ t # <<>> /\ m = Head(t) /\ ToServer(w, P, c, t)
      BY <1>3, <1>4, <1>6, <1>8, <2>9, <3>1 DEF Mail, GameInv, ServerTakes
    <3>3. m = t[1] /\ 1 \in DOMAIN t
      BY <3>2, InTail
    <3> QED BY <1>8, <3>2, <3>3 DEF ToServer
  <2>11. InTurn(w, p, m)
    BY <1>12, <2>1, <2>2, <2>10 DEF InTurn
  <2>12. Knows(w, Server, p)
    BY <1>5, <1>7, <2>9 DEF GameInv, Knows
  <2>13. Knows(w, Server, q) /\ Certain(Server, q) = Certain(Server, p)
    BY <1>7, <2>3, <2>4, <2>8, <2>11, <2>12, WritingKnows
  <2>14. Beside(p, q) /\ \A b \in Peers : q.read[b] = IF b = m.client THEN p.read[b] + 1 ELSE p.read[b]
    BY <1>7, <2>3, <2>4, <2>8, <2>11, WrittenIs
  <2>15. /\ q.self = p.self /\ q.players = p.players /\ q.other = p.other /\ q.loads = p.loads
         /\ q.read[Server] = p.read[Server]
    BY <1>7, <2>1, <2>14 DEF Beside
  <2>16. Moves(w, w, P, Q, Server)
    <3>1. w.joined[Server] = 0
      BY <2>9 DEF GameInv
    <3>2. /\ Q[Server].self = P[Server].self /\ Q[Server].loads = P[Server].loads
          /\ Q[Server].players = P[Server].players /\ Q[Server].read[Server] = P[Server].read[Server]
      BY <1>5, <2>7, <2>15
    <3> QED BY <1>6, <1>7, <2>7, <3>1, <3>2, SameMoves
  <2>17. m \in FromServer /\ m.client \in Peers
    <3>1. m \in InputOf({c})
      BY <1>8, <1>9 DEF FromClient
    <3> QED BY <1>7, <2>1, <3>1 DEF InputOf, FromServer
  <2>18. PICK B : B = { b \in Clients : b # c /\ m.frame <= p.self }
    OBVIOUS
  <2>19. PICK tc : tc = toClient
    OBVIOUS
  <2>20. PICK uc : uc = toClient'
    OBVIOUS
  <2>21. SentTo(tc, B, m, uc)
    BY <1>12, <2>18, <2>19, <2>20 DEF SentTo
  <2>22. PICK y : Puts(tc, y, uc) /\ Only(y, B, m)
    <3>1. \A b \in Clients : tc[b] \in Seq(FromServer)
      BY <1>6, <2>19 DEF Mail
    <3> QED BY <2>17, <2>21, <3>1, SomeMail
  <2>23. Posts(w, Q, tc, y)
    <3>1. \A b \in Clients : Tells(w, Q, b, m)
      BY <1>7, <1>8, <2>1, <2>10 DEF Tells
    <3>2. \A n : InOrder(n, m)
      BY <1>8 DEF InOrder
    <3>3. \A b \in Clients : ToClient(w, Q, b, y[b])
      BY <2>22, <3>1, <3>2 DEF ToClient, Only
    <3>4. \A b \in Clients : \A k \in DOMAIN tc[b] : \A l \in DOMAIN y[b] : InOrder(tc[b][k], y[b][l])
      BY <2>22, <3>2 DEF Only
    <3> QED BY <3>3, <3>4 DEF Posts
  <2>24. Q[Server].players = P[Server].players
    BY <1>5, <2>7, <2>15
  <2>25. \A b \in Clients : Announces(w, P, Q, y[b])
    BY <2>24 DEF Announces
  <2>26. PICK us : us = toServer'
    OBVIOUS
  <2>27. OneTaken(ts, c, us)
    <3>1. ts[c] # <<>> /\ us = [ts EXCEPT ![c] = Tail(@)]
      BY <1>3, <1>8, <2>26 DEF ServerTakes
    <3> QED BY <1>6, <3>1, TakenIs
  <2>28. /\ Knows(w, Server, Q[Server]) /\ Certain(Server, Q[Server]) = Certain(Server, P[Server])
         /\ Q[Server].other = P[Server].other
    BY <1>5, <2>7, <2>13, <2>15
  <2>29. GameInv(w, P, ts, tc) /\ Mail(ts, tc) /\ Sound(P) /\ Sound(Q)
    BY <1>6, <2>9, <2>19
  <2>30. (\A b \in Clients : y[b] \in Seq(FromServer)) /\ Puts(tc, y, uc)
    BY <2>22 DEF Only
  <2>31. GoesOn(w, P, Q, us, uc)
    BY <2>16, <2>23, <2>24, <2>25, <2>27, <2>28, <2>29, <2>30, ServerReads
  <2> QED BY <1>1, <1>2, <2>20, <2>26, <2>31
<1> QED BY <1>1, <1>3, <1>4, <1>5, <1>10, <1>11, <1>12 DEF ServerReceivesInput

\* The server that lets a client play.
LEMMA ServerReceivesPlayAgrees ==
  ASSUME IInv, IInv', NEW w \in Games, GameInv(w, peer, toServer, toClient),
         NEW c \in Clients, ServerReceivesPlay(c)
  PROVE  GoesOn(w, peer, peer', toServer', toClient')
<1>1. PICK P : P = peer
  OBVIOUS
<1>2. PICK Q : Q = peer'
  OBVIOUS
<1>3. PICK ts : ts = toServer
  OBVIOUS
<1>4. PICK h : h = Head(ts[c])
  OBVIOUS
<1>5. PICK p : p = P[Server]
  OBVIOUS
<1>6. PICK q : q = Q[Server]
  OBVIOUS
<1>7. PICK tc : tc = toClient
  OBVIOUS
<1>8. PICK us : us = toServer'
  OBVIOUS
<1>9. PICK uc : uc = toClient'
  OBVIOUS
<1>10. /\ Sound(P) /\ Sound(Q) /\ Mail(ts, tc) /\ P = [j \in Peers |-> P[j]]
       /\ ts = [b \in Clients |-> ts[b]] /\ GameInv(w, P, ts, tc)
  BY <1>1, <1>2, <1>3, <1>7, Setting
<1>11. Server \in Peers /\ c \in Peers /\ c # Server /\ \A b \in Clients : b \in Peers /\ b # Server
  BY ClientsArePeers
<1>12. ServerTakes(c) /\ h.type = "play"
  BY <1>3, <1>4 DEF ServerReceivesPlay
<1>13. PICK n : n = p.self + 1
  OBVIOUS
<1>14. /\ Q = [P EXCEPT ![Server].players = @ \cup {c}, ![Server].read[c] = n]
       /\ uc = [b \in Clients |-> Append(tc[b], ModeMsg(n, c))]
  BY <1>1, <1>2, <1>5, <1>7, <1>9, <1>13 DEF ServerReceivesPlay
<1>15. /\ p \in Netplays(Server) /\ Counted(Server, p) /\ Serving(p) /\ q \in Netplays(Server)
       /\ p.polling
  <2>1. PeerInv(Server, p) /\ PeerInv(Server, q)
    BY <1>5, <1>6, <1>10, <1>11 DEF Sound
  <2>2. p.polling
    BY <1>1, <1>5, <1>12 DEF ServerTakes
  <2> QED BY <2>1, <2>2 DEF PeerInv
<1>16. p.self \in Nat /\ n \in Counts /\ n \in Nat /\ p.read \in [Peers -> Counts] /\ p.other \in Nat
  <2>1. p.self \in Frames /\ p.self \in Nat /\ p.read \in [Peers -> Counts] /\ p.other \in Nat
    BY <1>15, PeerTypes, FramesNat
  <2>2. p.self < MaxFrame
    BY <1>15 DEF Counted
  <2> QED BY <1>13, <2>1, <2>2, NetplayAssumption DEF Frames, Counts
<1>17. q = [p EXCEPT !.players = @ \cup {c}, !.read[c] = n] /\ \A j \in Peers : j # Server => Q[j] = P[j]
  BY <1>5, <1>6, <1>10, <1>11, <1>14
<1>18. /\ q.ring = p.ring /\ q.core = p.core /\ q.self = p.self /\ q.run = p.run /\ q.other = p.other
       /\ q.playing = p.playing /\ q.force_rewind = p.force_rewind /\ q.loads = p.loads
       /\ q.polling = p.polling /\ q.players = p.players \cup {c}
       /\ q.read = [p.read EXCEPT ![c] = n]
  BY <1>15, <1>17 DEF Netplays
<1>19. \A b \in Peers : q.read[b] = IF b = c THEN n ELSE p.read[b]
  <2>1. q.read = [p.read EXCEPT ![c] = n]
    BY <1>18
  <2> QED BY <1>16, <2>1
<1>20. PICK t : t = ts[c]
  OBVIOUS
<1>21. c \notin p.players
  <2>1. t \in Seq(FromClient(c)) /\ t # <<>> /\ h = Head(t) /\ ToServer(w, P, c, t)
    BY <1>3, <1>4, <1>10, <1>12, <1>20 DEF Mail, GameInv, ServerTakes
  <2>2. h = t[1] /\ 1 \in DOMAIN t
    BY <2>1, InTail
  <2> QED BY <1>5, <1>12, <2>1, <2>2 DEF ToServer
<1>22. PICK v : v = [w EXCEPT !.joined[c] = n]
  OBVIOUS
<1>23. /\ v \in Games /\ v.made = w.made /\ v.real = w.real /\ v.from = w.from
       /\ v.joined[c] = n /\ \A b \in Peers : b # c => v.joined[b] = w.joined[b]
  <2>1. v.made = w.made /\ v.real = w.real /\ v.from = w.from /\ v.joined = [w.joined EXCEPT ![c] = n]
    BY <1>22 DEF Games
  <2>2. w.joined \in [Peers -> Counts] /\ v \in Games
    BY <1>16, <1>22 DEF Games
  <2>3. v.joined[c] = n /\ \A b \in Peers : b # c => v.joined[b] = w.joined[b]
    BY <1>11, <2>1, <2>2
  <2> QED BY <2>1, <2>2, <2>3
<1>24. /\ w.joined[Server] = 0 /\ v.joined[Server] = 0
  BY <1>10, <1>11, <1>23 DEF GameInv
<1>25. p.read[Server] \in Nat /\ p.read[Server] <= n
  <2>1. p.read[Server] \in Nat
    BY <1>11, <1>16, FramesNat
  <2>2. p.read[Server] <= p.self + 1
    BY <1>15 DEF Serving
  <2> QED BY <1>13, <2>1, <2>2
<1>26. p.loads \in Nat /\ p.players \subseteq Peers
  <2>1. P[Server].loads \in Nat /\ P[Server].players \subseteq Peers
    BY <1>10, ServerCounts
  <2> QED BY <1>5, <2>1
<1>27. Moves(w, v, P, Q, Server)
  <2>1. \A b \in p.players : v.joined[b] = w.joined[b]
    BY <1>21, <1>23, <1>26
  <2>2. \A b \in q.players \ p.players : p.read[Server] <= v.joined[b]
    BY <1>18, <1>23, <1>25
  <2>3. p.players \subseteq q.players
    BY <1>18
  <2>4. p.self <= q.self /\ p.loads <= q.loads /\ p.read[Server] <= q.read[Server]
    BY <1>11, <1>16, <1>18, <1>19, <1>25, <1>26
  <2> QED BY <1>5, <1>6, <1>17, <1>23, <1>24, <2>1, <2>2, <2>3, <2>4 DEF Moves
<1>28. Heard(w, p) /\ Takes(w, Server, p) /\ Reads(w, Server, p) /\ Saves(Server, p)
  BY <1>5, <1>10, <1>11 DEF GameInv
<1>29. \A f : At(Server, q, f) = At(Server, p, f) /\ (Has(Server, p, f) => Has(Server, q, f))
  BY <1>18 DEF At, Has
<1>30. Keeping(Server, p, q) /\ SameStates(Server, p, q)
  BY <1>18, <1>29 DEF Keeping, SameStates
<1>31. Heard(v, q)
  BY <1>18, <1>23, <1>28 DEF Heard
<1>32. Takes(v, Server, q)
  <2>1. v.made[Server] = w.made[Server] /\ v.joined[Server] = w.joined[Server]
    BY <1>23, <1>24
  <2>2. Server \in q.players <=> Server \in p.players
    BY <1>11, <1>18
  <2>3. p.self <= q.self /\ p.other <= q.other /\ q.playing = p.playing
    BY <1>16, <1>18
  <2> QED BY <1>11, <1>15, <1>28, <1>30, <2>1, <2>2, <2>3, TakesStays
<1>33. ASSUME NEW b \in q.players \ {Server}
       PROVE  ReadsOf(w, v, Server, p, q, b)
  <2>1. CASE b = c
    BY <1>11, <1>19, <1>23, <2>1 DEF ReadsOf
  <2>2. CASE b # c
    <3>1. b \in p.players /\ b \in Peers
      BY <1>18, <1>26, <1>33, <2>2
    <3>2. v.joined[b] = w.joined[b] /\ q.read[b] = p.read[b] /\ p.read[b] \in Nat
      BY <1>16, <1>19, <1>23, <2>2, <3>1, FramesNat
    <3>3. \A g \in Frames : ~(p.read[b] <= g /\ g < q.read[b])
      <4>1. \A g \in Nat : ~(p.read[b] <= g /\ g < q.read[b])
        BY <3>2
      <4> QED BY <4>1, FramesNat
    <3> QED BY <3>1, <3>2, <3>3 DEF ReadsOf
  <2> QED BY <2>1, <2>2
<1>34. Reads(v, Server, q)
  <2>1. p.other <= q.other
    BY <1>16, <1>18
  <2> QED BY <1>15, <1>23, <1>28, <1>30, <1>33, <2>1, ReadsStays
<1>35. Saves(Server, q) /\ Certain(Server, q) = Certain(Server, p)
  BY <1>15, <1>18, <1>28, <1>30, SavesStays
<1>36. PICK m : m = ModeMsg(n, c)
  OBVIOUS
<1>37. m.type = "mode" /\ m.client = c /\ m.frame = n /\ m \in FromServer
  BY <1>16, <1>36 DEF ModeMsg, FromServer
<1>38. SentTo(tc, Clients, m, uc)
  BY <1>14, <1>36 DEF SentTo
<1>39. PICK y : Puts(tc, y, uc) /\ Only(y, Clients, m)
  <2>1. \A b \in Clients : tc[b] \in Seq(FromServer)
    BY <1>10 DEF Mail
  <2> QED BY <1>37, <1>38, <2>1, SomeMail
<1>40. \A b \in Clients : Tells(v, Q, b, m)
  <2>1. ASSUME NEW b \in Clients
        PROVE  Tells(v, Q, b, m)
    <3>1. c \notin P[b].players
      BY <1>5, <1>10, <1>21 DEF GameInv, Follows
    <3>2. c \notin Q[b].players
      BY <1>11, <1>17, <3>1
    <3>3. c \in Q[Server].players
      BY <1>6, <1>18
    <3> QED BY <1>23, <1>37, <3>2, <3>3 DEF Tells
  <2> QED BY <2>1
<1>41. ASSUME NEW b \in Clients, NEW k \in DOMAIN tc[b]
       PROVE  InOrder(tc[b][k], m)
  <2>1. PICK e : e = tc[b][k]
    OBVIOUS
  <2>2. Tells(w, P, b, e) /\ e \in FromServer
    <3>1. PICK s : s = tc[b]
      OBVIOUS
    <3>2. s \in Seq(FromServer) /\ ToClient(w, P, b, s)
      BY <1>10, <3>1 DEF Mail, GameInv
    <3>3. e = s[k] /\ k \in DOMAIN s
      BY <2>1, <3>1
    <3> QED BY <3>2, <3>3 DEF ToClient
  <2>3. ASSUME e.type = "input", e.client = Server
        PROVE  e.frame < m.frame
    <3>1. e.frame \in Nat
      BY <2>2, <2>3, InputMessage, FramesNat
    <3>2. e.frame < p.read[Server]
      BY <1>5, <2>2, <2>3 DEF Tells
    <3> QED BY <1>16, <1>25, <1>37, <3>1, <3>2
  <2>4. ASSUME e.type = "mode"
        PROVE  e.client # m.client
    BY <1>5, <1>21, <1>37, <2>2, <2>4 DEF Tells
  <2> QED BY <1>37, <2>1, <2>3, <2>4 DEF InOrder
<1>42. Posts(v, Q, tc, y)
  <2>1. \A b \in Clients : ToClient(v, Q, b, y[b])
    BY <1>39, <1>40 DEF ToClient, Only
  <2>2. \A b \in Clients : \A k \in DOMAIN tc[b] : \A l \in DOMAIN y[b] : InOrder(tc[b][k], y[b][l])
    BY <1>39, <1>41 DEF Only
  <2> QED BY <2>1, <2>2 DEF Posts
<1>43. \A b \in Clients : Announces(v, P, Q, y[b])
  <2>1. Q[Server].players \ P[Server].players \subseteq {c}
    BY <1>5, <1>6, <1>18
  <2>2. ASSUME NEW b \in Clients
        PROVE  1 \in DOMAIN y[b] /\ y[b][1] = ModeMsg(v.joined[c], c)
    BY <1>23, <1>36, <1>39 DEF Only
  <2> QED BY <2>1, <2>2 DEF Announces
<1>44. OneTaken(ts, c, us)
  <2>1. ts[c] # <<>> /\ us = [ts EXCEPT ![c] = Tail(@)]
    BY <1>3, <1>8, <1>12 DEF ServerTakes
  <2> QED BY <1>10, <2>1, TakenIs
<1>45. /\ Knows(v, Server, Q[Server]) /\ Certain(Server, Q[Server]) = Certain(Server, P[Server])
       /\ Q[Server].other = P[Server].other
  BY <1>5, <1>6, <1>18, <1>31, <1>32, <1>34, <1>35 DEF Knows
<1>46. Head(ts[c]).type = "play" /\ Q[Server].players = P[Server].players \cup {c}
  BY <1>4, <1>5, <1>6, <1>12, <1>18
<1>47. (\A b \in Clients : y[b] \in Seq(FromServer)) /\ Puts(tc, y, uc)
  BY <1>39 DEF Only
<1>48. v \in Games /\ Sound(P) /\ Sound(Q) /\ GameInv(w, P, ts, tc) /\ Mail(ts, tc)
  BY <1>10, <1>23
<1>49. GoesOn(w, P, Q, us, uc)
  BY <1>27, <1>42, <1>43, <1>44, <1>45, <1>46, <1>47, <1>48, ServerReads
<1> QED BY <1>1, <1>2, <1>8, <1>9, <1>49

-----------------------------------------------------------------------------
(* A savestate is loaded. *)

\* The game is what it was, and the peer may have gone to a later frame.
LEMMA LaterMoves ==
  ASSUME NEW w \in Games, NEW P, NEW Q, NEW i \in Peers, w.joined[Server] = 0,
         Sound(P), \A j \in Peers : j # i => Q[j] = P[j],
         P[i].self <= Q[i].self, P[i].loads <= Q[i].loads,
         i = Server => Q[i].players = P[i].players /\ P[i].read[Server] <= Q[i].read[Server]
  PROVE  Moves(w, w, P, Q, i)
<1>1. P[Server].read[Server] \in Nat /\ P[Server].loads \in Nat
  BY ServerCounts
<1>2. /\ Q[Server].players = P[Server].players /\ P[Server].loads <= Q[Server].loads
      /\ P[Server].read[Server] <= Q[Server].read[Server]
  BY <1>1, ClientsArePeers
<1> QED BY <1>1, <1>2 DEF Moves

\* A client that has read something else than who plays follows as before.
LEMMA FollowsTail ==
  ASSUME NEW w, NEW P, NEW Q, NEW i \in Clients, NEW s \in Seq(FromServer), s # <<>>,
         Follows(w, P, i, s), Head(s).type # "mode", Q[Server] = P[Server],
         Q[i].players = P[i].players, Q[i].server = P[i].server,
         Q[i].connected => P[i].connected
  PROVE  Follows(w, Q, i, Tail(s))
<1>1. /\ \A k \in DOMAIN s : k = 1 \/ (k - 1 \in DOMAIN Tail(s) /\ Tail(s)[k - 1] = s[k])
      /\ Head(s) = s[1]
  BY InTail
<1>2. ASSUME NEW c \in Q[Server].players \ Q[i].players
      PROVE  /\ Q[i].server <= w.joined[c]
             /\ Q[i].connected => \E l \in DOMAIN Tail(s) : Tail(s)[l] = ModeMsg(w.joined[c], c)
  <2>1. /\ P[i].server <= w.joined[c]
        /\ P[i].connected => \E k \in DOMAIN s : s[k] = ModeMsg(w.joined[c], c)
    BY <1>2 DEF Follows
  <2>2. ASSUME Q[i].connected
        PROVE  \E l \in DOMAIN Tail(s) : Tail(s)[l] = ModeMsg(w.joined[c], c)
    <3>1. PICK k \in DOMAIN s : s[k] = ModeMsg(w.joined[c], c)
      BY <2>1, <2>2
    <3>2. s[k].type = "mode"
      BY <3>1 DEF ModeMsg
    <3>3. k # 1
      BY <1>1, <3>2
    <3> QED BY <1>1, <3>1, <3>3
  <2> QED BY <2>1, <2>2
<1> QED BY <1>2 DEF Follows

\* A savestate for the frame that a peer has come to as for the server.
Fit(p, m) ==
  /\ m.frame \in Frames /\ m.frame = p.server /\ m.state \in Cores /\ Ready(p, m.frame)

\* After it has been loaded the peer is at its frame, and has what it had of that and
\* later ones.
LEMMA LoadsIs ==
  ASSUME NEW i \in Peers, i # Server, NEW p \in Netplays(i), Counted(i, p), NEW m, Fit(p, m),
         NEW q \in Netplays(i), q = Loads(p, m)
  PROVE  /\ q.other = m.frame /\ p.other <= q.other /\ p.self <= q.self /\ q.force_rewind
         /\ q.run = (IF m.frame > p.run THEN m.frame - 1 ELSE p.run) /\ q.polling = p.polling
         /\ q.players = p.players /\ q.playing = p.playing /\ q.server = p.server
         /\ q.asked = p.asked /\ q.connected = p.connected /\ q.loads = p.loads
         /\ \A c \in p.players : q.read[c] = IF p.read[c] >= m.frame THEN p.read[c] ELSE m.frame
         /\ At(i, q, m.frame).state = m.state /\ Has(i, q, m.frame)
         /\ Keeping(i, p, q)
         /\ \A k \in 1..BufferSize(i) : \A c \in q.ring[k].have_real :
              /\ c \in p.ring[k].have_real /\ p.ring[k].frame = q.ring[k].frame
              /\ p.ring[k].real[c] = q.ring[k].real[c]
<1>1. PICK f : f = m.frame
  OBVIOUS
<1>2. PICK r : r = netplay_delta_frame_ready(p, f)
  OBVIOUS
<1>3. PICK k : k = Place(i, f)
  OBVIOUS
<1>4. f \in Frames /\ f \in Int /\ f = p.server /\ Ready(p, f)
  BY <1>1, FramesInt DEF Fit
<1>5. /\ r \in Netplays(i) /\ RingOnly(p, r) /\ SameStates(i, p, r) /\ Keeping(i, p, r)
      /\ Has(i, r, f)
      /\ \A l \in 1..BufferSize(i) :
           \/ r.ring[l] = p.ring[l]
           \/ l = Place(i, f) /\ r.ring[l].have_real = {} /\ ~r.ring[l].have_local
  BY <1>2, <1>4, ReadyIs
<1>6. k \in 1..BufferSize(i) /\ Ptr(r, f) = k /\ r.ring \in [1..BufferSize(i) -> Deltas]
  BY <1>3, <1>4, <1>5, PlaceIs, RingPlace
<1>7. q = [r EXCEPT !.ring[k].state = m.state,
                    !.force_rewind = TRUE,
                    !.run   = IF f > r.run THEN f - 1 ELSE @,
                    !.self  = IF f > r.run /\ f > r.self THEN f - 1 ELSE @,
                    !.read  = [c \in Peers |-> IF c \in r.players THEN Max({@[c], f}) ELSE @[c]],
                    !.other = f,
                    !.outstanding = FALSE]
  BY <1>1, <1>2, <1>6 DEF Loads
<1>8. /\ q.ring = [r.ring EXCEPT ![k].state = m.state] /\ q.force_rewind
      /\ q.self = IF f > r.run /\ f > r.self THEN f - 1 ELSE r.self
      /\ q.read = [c \in Peers |-> IF c \in r.players THEN Max({r.read[c], f}) ELSE r.read[c]]
      /\ q.other = f /\ q.players = r.players /\ q.playing = r.playing /\ q.server = r.server
      /\ q.asked = r.asked /\ q.connected = r.connected /\ q.loads = r.loads
      /\ q.run = (IF f > r.run THEN f - 1 ELSE r.run) /\ q.polling = r.polling
  BY <1>5, <1>7 DEF Netplays
<1>9. /\ r.self = p.self /\ r.players = p.players /\ r.playing = p.playing /\ r.server = p.server
      /\ r.asked = p.asked /\ r.connected = p.connected /\ r.loads = p.loads /\ r.read = p.read
      /\ r.run = p.run /\ r.polling = p.polling
  BY <1>5 DEF RingOnly
<1>10. p.other \in Int /\ p.self \in Int /\ p.read \in [Peers -> Counts] /\ p.players \subseteq Peers
       /\ p.other <= f
  BY <1>4, PeerTypes, FramesInt DEF Counted
<1>11. p.self <= q.self
  BY <1>4, <1>8, <1>9, <1>10
<1>12. ASSUME NEW c \in p.players
       PROVE  q.read[c] = IF p.read[c] >= f THEN p.read[c] ELSE f
  <2>1. c \in Peers /\ p.read[c] \in Int
    BY <1>10, FramesInt
  <2>2. q.read[c] = Max({p.read[c], f})
    BY <1>8, <1>9, <2>1
  <2> QED BY <1>4, <2>1, <2>2, MaxOfTwo
<1>13. /\ q.ring[k] = [r.ring[k] EXCEPT !.state = m.state]
       /\ \A l \in 1..BufferSize(i) : l # k => q.ring[l] = r.ring[l]
  <2>1. q.ring = [r.ring EXCEPT ![k].state = m.state]
    BY <1>8
  <2> QED BY <1>6, <2>1
<1>14. r.ring[k] \in Deltas
  BY <1>6
<1>15. /\ q.ring[k].frame = r.ring[k].frame /\ q.ring[k].have_local = r.ring[k].have_local
       /\ q.ring[k].have_real = r.ring[k].have_real /\ q.ring[k].real = r.ring[k].real
       /\ q.ring[k].state = m.state
  BY <1>13, <1>14 DEF Deltas
<1>16. \A l \in 1..BufferSize(i) :
         /\ q.ring[l].frame = r.ring[l].frame /\ q.ring[l].have_local = r.ring[l].have_local
         /\ q.ring[l].have_real = r.ring[l].have_real /\ q.ring[l].real = r.ring[l].real
  BY <1>13, <1>15
<1>17. Keeping(i, p, q)
  <2>1. ASSUME NEW g \in Int, p.other <= g, Has(i, p, g)
        PROVE  /\ Has(i, q, g)
               /\ At(i, p, g).have_real \subseteq At(i, q, g).have_real
               /\ At(i, p, g).have_local => At(i, q, g).have_local
    <3>1. /\ Has(i, r, g)
          /\ At(i, p, g).have_real \subseteq At(i, r, g).have_real
          /\ At(i, p, g).have_local => At(i, r, g).have_local
      BY <1>5, <2>1 DEF Keeping
    <3>2. Place(i, g) \in 1..BufferSize(i)
      BY PlaceIs
    <3> QED BY <1>16, <3>1, <3>2 DEF At, Has
  <2> QED BY <2>1 DEF Keeping
<1>18. \A l \in 1..BufferSize(i) : \A c \in q.ring[l].have_real :
         /\ c \in p.ring[l].have_real /\ p.ring[l].frame = q.ring[l].frame
         /\ p.ring[l].real[c] = q.ring[l].real[c]
  BY <1>5, <1>16
<1>19. At(i, q, f).state = m.state /\ Has(i, q, f)
  BY <1>3, <1>5, <1>6, <1>15, <1>16 DEF At, Has
<1> QED BY <1>1, <1>8, <1>9, <1>10, <1>11, <1>12, <1>17, <1>18, <1>19

\* No inputs are those of no frame.
LEMMA OfficialOfNone ==
  ASSUME NEW w, NEW a \in Int
  PROVE  Official(w, a, a) = <<>>
<1>1. 1..a - a = {}
  OBVIOUS
<1>2. Official(w, a, a) = [k \in {} |-> Board(w, a + k - 1)]
  BY <1>1 DEF Official
<1>3. [k \in {} |-> Board(w, a + k - 1)] = <<>>
  BY SMT
<1> QED BY <1>2, <1>3

\* A peer that has loaded a savestate of the game knows the game.
LEMMA LoadingKnows ==
  ASSUME NEW w \in Games, NEW i \in Peers, i # Server, NEW p \in Netplays(i), Counted(i, p),
         Knows(w, i, p), NEW m, Fit(p, m), NEW q \in Netplays(i), q = Loads(p, m)
  PROVE  Knows(w, i, q) /\ Certain(i, q) = m.state
<1>1. /\ q.other = m.frame /\ p.other <= q.other /\ p.self <= q.self /\ q.force_rewind
      /\ q.run = (IF m.frame > p.run THEN m.frame - 1 ELSE p.run) /\ q.polling = p.polling
      /\ q.players = p.players /\ q.playing = p.playing
      /\ \A c \in p.players : q.read[c] = IF p.read[c] >= m.frame THEN p.read[c] ELSE m.frame
      /\ At(i, q, m.frame).state = m.state /\ Has(i, q, m.frame)
      /\ Keeping(i, p, q)
      /\ \A k \in 1..BufferSize(i) : \A c \in q.ring[k].have_real :
           /\ c \in p.ring[k].have_real /\ p.ring[k].frame = q.ring[k].frame
           /\ p.ring[k].real[c] = q.ring[k].real[c]
  BY LoadsIs
<1>2. Heard(w, p) /\ Takes(w, i, p) /\ Reads(w, i, p)
  BY DEF Knows
<1>3. Heard(w, q)
  <2>1. Grows(w, w) /\ Gains(w, i, p, q)
    BY <1>1 DEF Grows, Gains
  <2> QED BY <1>2, <2>1, HeardStays
<1>4. Takes(w, i, q)
  <2>1. p.self <= q.self /\ p.other <= q.other /\ Keeping(i, p, q)
        /\ q.playing = p.playing /\ q.players = p.players
    BY <1>1
  <2> QED BY <1>2, <2>1, TakesStays
<1>5. ASSUME NEW c \in q.players \ {i}
      PROVE  ReadsOf(w, w, i, p, q, c)
  <2>1. c \in p.players /\ m.frame \in Nat /\ p.read[c] \in Nat
    BY <1>1, <1>5, PeerTypes, FramesNat DEF Fit
  <2>2. q.read[c] = IF p.read[c] >= m.frame THEN p.read[c] ELSE m.frame
    BY <1>1, <2>1
  <2>3. p.read[c] <= q.read[c]
    BY <2>1, <2>2
  <2>4. \A g \in Nat : ~(m.frame <= g /\ p.read[c] <= g /\ g < q.read[c])
    BY <2>1, <2>2
  <2>5. \A g \in Frames : ~(q.other <= g /\ p.read[c] <= g /\ g < q.read[c])
    BY <1>1, <2>4, FramesNat
  <2> QED BY <2>1, <2>3, <2>5 DEF ReadsOf
<1>6. Reads(w, i, q)
  <2>1. p.other <= q.other /\ Keeping(i, p, q)
    BY <1>1
  <2> QED BY <1>2, <1>5, <2>1, ReadsStays
<1>7. Saves(i, q) /\ Certain(i, q) = m.state
  <2>1. p.run \in Int /\ m.frame \in Int /\ p.other \in Int
    BY PeerTypes, FramesInt DEF Fit
  <2>2. ASSUME q.polling, q.other <= q.run
        PROVE  Has(i, q, q.run)
    <3>1. q.run = p.run /\ p.other <= p.run
      BY <1>1, <2>1, <2>2
    <3>2. Has(i, p, p.run)
      BY <1>1, <2>2, <3>1 DEF Knows, Saves
    <3> QED BY <1>1, <2>1, <3>1, <3>2 DEF Keeping
  <2> QED BY <1>1, <2>2 DEF Saves, Certain
<1> QED BY <1>3, <1>4, <1>6, <1>7 DEF Knows

\* A client that reads a savestate.
LEMMA ClientReceivesSavestateAgrees ==
  ASSUME IInv, IInv', NEW w \in Games, GameInv(w, peer, toServer, toClient),
         NEW i \in Clients, ClientReceivesSavestate(i)
  PROVE  GoesOn(w, peer, peer', toServer', toClient')
<1>1. PICK P : P = peer
  OBVIOUS
<1>2. PICK Q : Q = peer'
  OBVIOUS
<1>3. PICK tc : tc = toClient
  OBVIOUS
<1>4. PICK m : m = Head(tc[i])
  OBVIOUS
<1>5. PICK p : p = P[i]
  OBVIOUS
<1>6. /\ Sound(P) /\ Sound(Q) /\ Mail(toServer, tc) /\ P = [j \in Peers |-> P[j]]
      /\ tc = [b \in Clients |-> tc[b]]
  BY <1>1, <1>2, <1>3, Setting
<1>7. i \in Peers /\ i # Server /\ Server \in Peers
  BY ClientsArePeers
<1>8. ClientTakes(i) /\ m.type = "savestate" /\ toServer' = toServer
  BY <1>3, <1>4 DEF ClientReceivesSavestate
<1>9. p.polling /\ p.connected /\ m \in FromServer /\ Fits(p, m)
  BY <1>1, <1>3, <1>4, <1>5, <1>8, ClientTook
<1>10. CASE Hangup(i)
  BY <1>8, <1>10, ClientHangsUp
<1>11. CASE m.frame = p.server /\ peer' = [peer EXCEPT ![i] = Loads(p, m)]
  <2>1. Fit(p, m)
    BY <1>8, <1>9, <1>11, SavestateMessage DEF Fits, Fit
  <2>2. PICK q : q = Loads(p, m)
    OBVIOUS
  <2>3. Q = [P EXCEPT ![i] = q]
    BY <1>1, <1>2, <1>11, <2>2
  <2>4. Q[i] = q /\ (\A j \in Peers : j # i => Q[j] = P[j]) /\ Q[Server] = P[Server]
    BY <1>6, <1>7, <2>3
  <2>5. p \in Netplays(i) /\ q \in Netplays(i) /\ Counted(i, p)
    BY <1>5, <1>6, <1>7, <2>4 DEF Sound, PeerInv
  <2>6. PICK ts : ts = toServer
    OBVIOUS
  <2>7. GameInv(w, P, ts, tc) /\ Mail(ts, tc)
    BY <1>1, <1>3, <1>6, <2>6
  <2>8. PICK t : t = tc[i]
    OBVIOUS
  <2>9. /\ t \in Seq(FromServer) /\ t # <<>> /\ m = Head(t)
        /\ ToClient(w, P, i, t) /\ Follows(w, P, i, t)
    BY <1>3, <1>4, <1>8, <2>7, <2>8 DEF Mail, GameInv, ClientTakes
  <2>10. Tells(w, P, i, m)
    <3>1. m = t[1] /\ 1 \in DOMAIN t
      BY <2>9, InTail
    <3> QED BY <2>9, <3>1 DEF ToClient
  <2>11. PICK l : l = m.state.load
    OBVIOUS
  <2>12. m.state.inputs = <<>> /\ l \in 1..P[Server].loads /\ w.from[l] = m.frame
         /\ Certain(i, p).load < l
    BY <1>5, <1>8, <2>10, <2>11 DEF Tells
  <2>13. Knows(w, i, p)
    BY <1>5, <1>7, <2>7 DEF GameInv, Knows
  <2>14. Knows(w, i, q) /\ Certain(i, q) = m.state
    BY <1>7, <2>1, <2>2, <2>5, <2>13, LoadingKnows
  <2>15. /\ q.other = m.frame /\ p.self <= q.self /\ q.players = p.players
         /\ q.server = p.server /\ q.asked = p.asked /\ q.connected = p.connected
         /\ q.loads = p.loads
    BY <1>7, <2>1, <2>2, <2>5, LoadsIs
  <2>16. Moves(w, w, P, Q, i)
    <3>1. w.joined[Server] = 0
      BY <2>7 DEF GameInv
    <3>2. p.loads \in Nat
      <4>1. p.loads \in 0..MaxLoads
        BY <2>5, PeerTypes
      <4> QED BY <4>1, NetplayAssumption
    <3>3. P[i].self <= Q[i].self /\ P[i].loads <= Q[i].loads
      BY <1>5, <2>4, <2>15, <3>2
    <3> QED BY <1>6, <1>7, <2>4, <3>1, <3>3, LaterMoves
  <2>17. Follows(w, Q, i, Tail(t))
    <3>1. Head(t).type # "mode"
      BY <1>8, <2>9
    <3>2. /\ Q[i].players = P[i].players /\ Q[i].server = P[i].server
          /\ Q[i].connected => P[i].connected
      BY <1>5, <2>4, <2>15
    <3> QED BY <2>4, <2>9, <3>1, <3>2, FollowsTail
  <2>18. Agrees(w, Q, i)
    <3>1. PICK f : f = m.frame
      OBVIOUS
    <3>2. f \in Int /\ w.from[l] = f /\ Q[i].other = f
      BY <2>1, <2>4, <2>12, <2>15, <3>1, FramesInt DEF Fit
    <3>3. Official(w, f, f) = <<>>
      BY <3>2, OfficialOfNone
    <3>4. f..f - 1 = {}
      BY <3>2
    <3>5. P[Server].loads \in Nat
      BY <1>6, ServerCounts
    <3>6. l \in 0..Q[Server].loads
      BY <2>4, <2>12, <3>5
    <3>7. Certain(i, Q[i]).load = l /\ Certain(i, Q[i]).inputs = <<>>
      BY <2>4, <2>11, <2>12, <2>14
    <3> QED BY <3>2, <3>3, <3>4, <3>6, <3>7 DEF Agrees
  <2>19. Understands(P, Q, i, Head(tc[i]))
    BY <1>4, <1>5, <1>8, <2>4, <2>14, <2>15 DEF Understands
  <2>20. PICK x \in Seq(FromClient(i)) : InputsOf(w, i, x) /\ OneAdds(ts, i, x, ts)
    BY <2>7, OneSilent
  <2>21. PICK uc : uc = toClient'
    OBVIOUS
  <2>22. OneTaken(tc, i, uc)
    <3>1. tc[i] # <<>> /\ uc = [tc EXCEPT ![i] = Tail(@)]
      BY <1>3, <1>8, <2>21 DEF ClientTakes
    <3> QED BY <1>6, <3>1, TakenIs
  <2>23. /\ Knows(w, i, Q[i]) /\ Q[i].asked = P[i].asked /\ Follows(w, Q, i, Tail(tc[i]))
    BY <1>5, <2>4, <2>8, <2>14, <2>15, <2>17
  <2>24. Sound(P) /\ Sound(Q)
    BY <1>6
  <2>25. GameInv(w, Q, ts, uc)
    BY <2>7, <2>16, <2>18, <2>19, <2>20, <2>22, <2>23, <2>24, ClientReadingAgrees
  <2>26. Onward(w, w, P, Q, i)
    BY <1>5, <2>4, <2>11, <2>12, <2>14, <2>16 DEF Onward
  <2>27. GoesOn(w, P, Q, ts, uc)
    BY <1>7, <2>25, <2>26 DEF GoesOn
  <2> QED BY <1>1, <1>2, <1>8, <2>6, <2>21, <2>27
<1> QED BY <1>1, <1>3, <1>4, <1>5, <1>10, <1>11 DEF ClientReceivesSavestate

-----------------------------------------------------------------------------
(* Somebody plays. *)

\* A client that hears of player c.  Its ring may change as that of a peer that plays does.
Joins(i, p, q, c) ==
  /\ q.players = p.players \cup {c} /\ q.playing = (p.playing \/ c = i)
  /\ \A b \in Peers : q.read[b] = IF b = c THEN p.server ELSE p.read[b]
  /\ q.force_rewind = (p.force_rewind \/ p.server < p.self)
  /\ q.self = p.self /\ q.run = p.run /\ q.other = p.other /\ q.server = p.server
  /\ q.core = p.core /\ q.loads = p.loads /\ q.asked = p.asked
  /\ q.polling = p.polling /\ q.connected = p.connected

\* That is what the message makes of it.
LEMMA PlaysIs ==
  ASSUME NEW i \in Peers, NEW p \in Netplays(i), NEW c \in Clients, NEW q, q = Plays(i, p, c)
  PROVE  Joins(i, p, q, c) /\ q.ring = p.ring
<1>1. c \in Peers
  BY ClientsArePeers
<1>2. p.read \in [Peers -> Counts]
  BY PeerTypes
<1>3. PICK n : n = (p.force_rewind \/ p.server < p.self)
  OBVIOUS
<1>4. PICK pl : pl = (p.playing \/ c = i)
  OBVIOUS
<1>5. PICK ps : ps = p.players \cup {c}
  OBVIOUS
<1>6. PICK rd : rd = [p.read EXCEPT ![c] = p.server]
  OBVIOUS
<1>7. q = [p EXCEPT !.players = ps, !.read = rd, !.force_rewind = n, !.playing = pl]
  BY <1>3, <1>4, <1>5, <1>6 DEF Joined, Plays
<1>8. /\ q.players = ps /\ q.playing = pl /\ q.read = rd /\ q.force_rewind = n
      /\ q.self = p.self /\ q.run = p.run /\ q.other = p.other /\ q.server = p.server
      /\ q.core = p.core /\ q.loads = p.loads /\ q.asked = p.asked
      /\ q.polling = p.polling /\ q.connected = p.connected /\ q.ring = p.ring
  BY <1>7 DEF Netplays
<1>9. \A b \in Peers : rd[b] = IF b = c THEN p.server ELSE p.read[b]
  BY <1>1, <1>2, <1>6
<1> QED BY <1>3, <1>4, <1>5, <1>8, <1>9 DEF Joins

\* Of a peer that has begun a frame, the state to go back to is in the ring.
LEMMA CertainIsHeld ==
  ASSUME NEW i, NEW p, PeerInv(i, p), Saves(i, p), p.polling
  PROVE  /\ Has(i, p, p.other) \/ p.other > p.run
         /\ p.force_rewind \/ p.other <= p.run
         /\ p.other <= p.run => Certain(i, p) = At(i, p, p.other).state
<1>1. p \in Netplays(i) /\ Counted(i, p) /\ Held(i, p)
  BY DEF PeerInv
<1>2. p.other \in Int /\ p.run \in Int /\ p.force_rewind \in BOOLEAN
  BY <1>1, PeerTypes, FramesInt
<1>3. ~p.force_rewind => p.other <= p.run
  BY <1>1 DEF Counted
<1>4. CASE p.force_rewind
  BY <1>4 DEF Saves, Certain
<1>5. CASE ~p.force_rewind /\ p.other < p.run
  <2>1. At(i, p, p.other).frame = p.other
    BY <1>1, <1>2, <1>5, RunIsHeld
  <2> QED BY <1>2, <1>5, <2>1 DEF Has, Certain
<1>6. CASE ~p.force_rewind /\ p.other = p.run
  BY <1>2, <1>6 DEF Saves, Certain
<1> QED BY <1>2, <1>3, <1>4, <1>5, <1>6

\* The client is certain of what it was, and has read what it had.
LEMMA JoinsIs ==
  ASSUME NEW i \in Peers, NEW p, PeerInv(i, p), p.polling, NEW c, c \notin p.players,
         NEW q \in Netplays(i), Joins(i, p, q, c), SameStates(i, p, q), Keeping(i, p, q),
         NEW w \in Games, NEW v \in Games, Reads(w, i, p), Saves(i, p),
         v.joined = w.joined, w.joined[c] = p.server
  PROVE  Reads(v, i, q) /\ Saves(i, q) /\ Certain(i, q) = Certain(i, p)
<1>1. p \in Netplays(i) /\ Counted(i, p)
  BY DEF PeerInv
<1>2. /\ p.other \in Int /\ p.run \in Int /\ p.players \subseteq Peers /\ q.players \subseteq Peers
      /\ p.read \in [Peers -> Counts]
  BY <1>1, PeerTypes, FramesInt
<1>3. /\ q.players = p.players \cup {c} /\ q.other = p.other /\ q.run = p.run /\ q.core = p.core
      /\ \A b \in Peers : q.read[b] = IF b = c THEN p.server ELSE p.read[b]
      /\ q.force_rewind = (p.force_rewind \/ p.server < p.self) /\ q.polling = p.polling
  BY DEF Joins
<1>4. ASSUME NEW b \in q.players \ {i}
      PROVE  ReadsOf(w, v, i, p, q, b)
  <2>1. b \in Peers
    BY <1>2, <1>4
  <2>2. CASE b = c
    BY <1>3, <2>1, <2>2 DEF ReadsOf
  <2>3. CASE b # c
    <3>1. b \in p.players /\ q.read[b] = p.read[b] /\ p.read[b] \in Nat
      BY <1>2, <1>3, <1>4, <2>1, <2>3, FramesNat
    <3>2. \A g \in Frames : ~(p.read[b] <= g /\ g < q.read[b])
      <4>1. \A g \in Nat : ~(p.read[b] <= g /\ g < q.read[b])
        BY <3>1
      <4> QED BY <4>1, FramesNat
    <3> QED BY <3>1, <3>2 DEF ReadsOf
  <2> QED BY <2>2, <2>3
<1>5. Reads(v, i, q)
  <2>1. p.other <= q.other
    BY <1>2, <1>3
  <2> QED BY <1>1, <1>4, <2>1, ReadsStays
<1>6. \A f \in Int : At(i, q, f).state = At(i, p, f).state
  BY PlaceIs DEF SameStates, At
<1>7. /\ Has(i, p, p.other) \/ p.other > p.run
      /\ p.force_rewind \/ p.other <= p.run
      /\ p.other <= p.run => Certain(i, p) = At(i, p, p.other).state
  BY CertainIsHeld
<1>8. p.force_rewind => Has(i, p, p.other)
  BY DEF Saves
<1>9. Has(i, p, p.other)
  BY <1>2, <1>7, <1>8
<1>10. Has(i, q, p.other) /\ (Has(i, p, p.run) /\ p.other <= p.run => Has(i, q, p.run))
  BY <1>2, <1>9 DEF Keeping
<1>11. Saves(i, q)
  BY <1>2, <1>3, <1>6, <1>10 DEF Saves
<1>12. Certain(i, q) = Certain(i, p)
  <2>1. CASE p.force_rewind \/ p.other < p.run
    <3>1. Certain(i, p) = At(i, p, p.other).state /\ Certain(i, q) = At(i, q, p.other).state
      BY <1>3, <2>1 DEF Certain
    <3> QED BY <1>2, <1>6, <3>1
  <2>2. CASE ~p.force_rewind /\ ~(p.other < p.run)
    <3>1. p.other = p.run
      BY <1>2, <1>7, <2>2
    <3>2. Certain(i, p) = p.core /\ Certain(i, p) = At(i, p, p.other).state
      BY <1>2, <1>7, <2>2, <3>1 DEF Certain
    <3>3. Certain(i, q) = At(i, q, p.other).state \/ Certain(i, q) = p.core
      BY <1>3 DEF Certain
    <3> QED BY <1>2, <1>6, <3>2, <3>3
  <2> QED BY <2>1, <2>2
<1> QED BY <1>5, <1>11, <1>12

\* The game goes on with inputs of i that are none.
Rests(w, v, i) ==
  /\ v.joined = w.joined /\ v.from = w.from
  /\ \A c \in Peers : /\ w.made[c] \subseteq v.made[c]
                      /\ c # i => v.made[c] = w.made[c]
                      /\ \A g \in w.made[c] : v.real[c][g] = w.real[c][g]
  /\ \A g \in v.made[i] \ w.made[i] : v.real[i][g] = Zero

\* A client that hears who plays, and has what it is to have then, goes on.
LEMMA ClientPlays ==
  ASSUME NEW w \in Games, NEW v \in Games, NEW P, NEW Q, NEW i \in Clients, Sound(P), Sound(Q),
         NEW ts, NEW tc, GameInv(w, P, ts, tc), Mail(ts, tc), P[i].polling, P[i].connected,
         NEW m, m = Head(tc[i]), m.type = "mode", m.frame = P[i].server,
         \A j \in Peers : j # i => Q[j] = P[j],
         Joins(i, P[i], Q[i], m.client), SameStates(i, P[i], Q[i]), Keeping(i, P[i], Q[i]),
         Rests(w, v, i), Heard(v, Q[i]), Takes(v, i, Q[i]),
         NEW x \in Seq(FromClient(i)), InputsOf(v, i, x),
         NEW us, OneAdds(ts, i, x, us), NEW uc, OneTaken(tc, i, uc)
  PROVE  GoesOn(w, P, Q, us, uc)
<1>1. PICK p : p = P[i]
  OBVIOUS
<1>2. PICK q : q = Q[i]
  OBVIOUS
<1>3. PICK c : c = m.client
  OBVIOUS
<1>4. PICK t : t = tc[i]
  OBVIOUS
<1>5. i \in Peers /\ i # Server /\ Server \in Peers
  BY ClientsArePeers
<1>6. PeerInv(i, p) /\ p \in Netplays(i) /\ q \in Netplays(i)
  BY <1>1, <1>2, <1>5 DEF Sound, PeerInv
<1>7. /\ t \in Seq(FromServer) /\ t # <<>> /\ m = Head(t)
      /\ ToClient(w, P, i, t) /\ Follows(w, P, i, t)
  BY <1>4 DEF Mail, GameInv, OneTaken
<1>8. m = t[1] /\ 1 \in DOMAIN t
      /\ \A k \in DOMAIN t : k = 1 \/ (k - 1 \in DOMAIN Tail(t) /\ Tail(t)[k - 1] = t[k])
  BY <1>7, InTail
<1>9. Tells(w, P, i, m)
  BY <1>7, <1>8 DEF ToClient
<1>10. c \in P[Server].players /\ m.frame = w.joined[c] /\ c \notin p.players
  BY <1>1, <1>3, <1>9 DEF Tells
<1>11. Heard(w, p) /\ Takes(w, i, p) /\ Reads(w, i, p) /\ Saves(i, p)
  BY <1>1, <1>5 DEF GameInv
<1>12. /\ Joins(i, p, q, c) /\ SameStates(i, p, q) /\ Keeping(i, p, q) /\ p.polling
       /\ v.joined = w.joined /\ w.joined[c] = p.server
  BY <1>1, <1>2, <1>3, <1>10 DEF Rests
<1>13. Reads(v, i, q) /\ Saves(i, q) /\ Certain(i, q) = Certain(i, p)
  BY <1>5, <1>6, <1>10, <1>11, <1>12, JoinsIs
<1>14. /\ q.players = p.players \cup {c} /\ q.self = p.self /\ q.other = p.other
       /\ q.server = p.server /\ q.asked = p.asked /\ q.connected = p.connected
  BY <1>12 DEF Joins
<1>15. Q[Server] = P[Server]
  BY <1>5
<1>16. Moves(w, v, P, Q, i)
  <2>1. P[Server].read[Server] \in Nat /\ P[Server].loads \in Nat
    BY ServerCounts
  <2>2. p.self \in Nat
    BY <1>6, PeerTypes, FramesNat
  <2>3. P[i].self <= Q[i].self
    BY <1>1, <1>2, <1>14, <2>2
  <2>4. v.joined[Server] = 0
    BY <1>12 DEF GameInv
  <2> QED BY <1>15, <2>1, <2>3, <2>4 DEF Moves, Rests
<1>17. Follows(v, Q, i, Tail(t))
  <2>1. Q[i].players \subseteq Q[Server].players
    BY <1>1, <1>2, <1>7, <1>10, <1>14, <1>15 DEF Follows
  <2>2. Q[i].server <= Q[Server].read[Server]
    BY <1>1, <1>2, <1>7, <1>14, <1>15 DEF Follows
  <2>3. ASSUME NEW b \in Q[Server].players \ Q[i].players
        PROVE  /\ Q[i].server <= v.joined[b]
               /\ Q[i].connected =>
                    \E l \in DOMAIN Tail(t) : Tail(t)[l] = ModeMsg(v.joined[b], b)
    <3>1. b \in P[Server].players \ p.players /\ b # c
      BY <1>2, <1>14, <1>15, <2>3
    <3>2. /\ p.server <= w.joined[b]
          /\ p.connected => \E k \in DOMAIN t : t[k] = ModeMsg(w.joined[b], b)
      BY <1>1, <1>7, <3>1 DEF Follows
    <3>3. PICK n : n = w.joined[b]
      OBVIOUS
    <3>4. ASSUME q.connected
          PROVE  \E l \in DOMAIN Tail(t) : Tail(t)[l] = ModeMsg(n, b)
      <4>1. PICK k \in DOMAIN t : t[k] = ModeMsg(n, b)
        BY <1>14, <3>2, <3>3, <3>4
      <4>2. t[k].client = b
        BY <4>1 DEF ModeMsg
      <4>3. k # 1
        BY <1>3, <1>8, <3>1, <4>2
      <4> QED BY <1>8, <4>1, <4>3
    <3> QED BY <1>2, <1>12, <1>14, <3>2, <3>3, <3>4
  <2> QED BY <2>1, <2>2, <2>3 DEF Follows
<1>18. Understands(P, Q, i, Head(tc[i]))
  BY <1>1, <1>2, <1>3, <1>13, <1>14 DEF Understands
<1>19. /\ Knows(v, i, Q[i]) /\ Certain(i, Q[i]) = Certain(i, P[i]) /\ Q[i].other = P[i].other
       /\ Q[i].asked = P[i].asked /\ Follows(v, Q, i, Tail(tc[i]))
  BY <1>1, <1>2, <1>4, <1>13, <1>14, <1>17 DEF Knows
<1> QED BY <1>16, <1>18, <1>19, ClientReads

\* A client that hears of another player has what it had.
LEMMA OtherPlays ==
  ASSUME NEW w \in Games, NEW i \in Peers, NEW p \in Netplays(i), NEW c, c # i,
         NEW q \in Netplays(i), Joins(i, p, q, c), q.ring = p.ring, Heard(w, p), Takes(w, i, p)
  PROVE  Heard(w, q) /\ Takes(w, i, q) /\ SameStates(i, p, q) /\ Keeping(i, p, q)
<1>1. \A f : At(i, q, f) = At(i, p, f) /\ (Has(i, p, f) => Has(i, q, f))
  BY DEF At, Has
<1>2. SameStates(i, p, q) /\ Keeping(i, p, q)
  BY <1>1 DEF SameStates, Keeping
<1>3. Heard(w, q)
  BY DEF Heard
<1>4. Takes(w, i, q)
  <2>1. /\ q.self = p.self /\ q.other = p.other /\ (i \in q.players <=> i \in p.players)
        /\ q.playing = p.playing
    <3>1. p.playing \in BOOLEAN
      BY PeerTypes
    <3> QED BY <3>1 DEF Joins
  <2>2. p.self \in Int /\ p.other \in Int
    BY PeerTypes, FramesInt
  <2>3. p.self <= q.self /\ p.other <= q.other
    BY <2>1, <2>2
  <2> QED BY <1>2, <2>1, <2>3, TakesStays
<1> QED BY <1>2, <1>3, <1>4

\* The frames that a client has begun when it hears that it plays are in its ring.
LEMMA PastIsHeld ==
  ASSUME NEW i \in Peers, i # Server, NEW p, PeerInv(i, p), p.polling,
         NEW g \in Int, p.server <= g, g <= p.self
  PROVE  Has(i, p, g)
<1>1. p \in Netplays(i) /\ Counted(i, p) /\ Held(i, p)
  BY DEF PeerInv
<1>2. p.other \in Int /\ p.run \in Int /\ p.server \in Int /\ p.self \in Int
  BY <1>1, PeerTypes, FramesInt
<1>3. p.other <= g /\ Reached(p, g)
  BY <1>1, <1>2 DEF Counted, Reached
<1>4. ~(g = p.run /\ Passed(i, p))
  BY <1>2 DEF Passed
<1> QED BY <1>1, <1>3, <1>4 DEF Held, Has

\* The ring after no input has been given for these frames.
GivenPast(i, p, q) ==
  \A k \in 1..BufferSize(i) :
    IF \E f \in p.server..p.self : Place(i, f) = k
    THEN q.ring[k] = [Given(p.ring[k], i, Zero) EXCEPT !.have_local = TRUE]
    ELSE q.ring[k] = p.ring[k]

\* That is what GivesPast makes of it.
LEMMA GivesPastIs ==
  ASSUME NEW i \in Peers, NEW p \in Netplays(i), NEW j \in Netplays(i), Joins(i, p, j, i),
         j.ring = p.ring, NEW q \in Netplays(i), q = GivesPast(i, j)
  PROVE  Joins(i, p, q, i) /\ GivenPast(i, p, q)
<1>1. PICK past : past = p.server..p.self
  OBVIOUS
<1>2. p.server \in Int /\ p.self \in Int /\ DOMAIN p.ring = 1..BufferSize(i)
  BY PeerTypes, FramesInt, RingPlace
<1>3. \A f \in past : Ptr(j, f) = Place(i, f)
  BY <1>1, <1>2, RingPlace
<1>4. PICK r : r = [k \in 1..BufferSize(i) |->
                      IF \E f \in past : Ptr(j, f) = k
                      THEN [Given(p.ring[k], i, Zero) EXCEPT !.have_local = TRUE]
                      ELSE p.ring[k]]
  OBVIOUS
<1>5. j.server = p.server /\ j.self = p.self
  BY DEF Joins
<1>6. q = [j EXCEPT !.ring = r]
  BY <1>1, <1>2, <1>4, <1>5 DEF GivesPast
<1>7. /\ q.ring = r /\ q.players = j.players /\ q.playing = j.playing /\ q.read = j.read
      /\ q.force_rewind = j.force_rewind
      /\ q.self = j.self /\ q.run = j.run /\ q.other = j.other /\ q.server = j.server
      /\ q.core = j.core /\ q.loads = j.loads /\ q.asked = j.asked
      /\ q.polling = j.polling /\ q.connected = j.connected
  BY <1>6 DEF Netplays
<1>8. Joins(i, p, q, i)
  BY <1>7 DEF Joins
<1>9. GivenPast(i, p, q)
  BY <1>1, <1>3, <1>4, <1>7 DEF GivenPast
<1> QED BY <1>8, <1>9

\* A client that hears that it plays, from a frame on that it has begun, has what it had.
LEMMA PlaysPast ==
  ASSUME NEW w \in Games, NEW i \in Peers, i # Server, NEW p, PeerInv(i, p), p.polling,
         NEW q \in Netplays(i), Joins(i, p, q, i), GivenPast(i, p, q),
         Heard(w, p), Takes(w, i, p), i \notin p.players, w.joined[i] = p.server,
         p.server <= p.self,
         NEW v \in Games, Rests(w, v, i), v.made[i] = p.server..p.self
  PROVE  Heard(v, q) /\ Takes(v, i, q) /\ SameStates(i, p, q) /\ Keeping(i, p, q)
<1>1. p \in Netplays(i) /\ Counted(i, p)
  BY DEF PeerInv
<1>2. /\ p.other \in Int /\ p.server \in Int /\ p.self \in Int /\ p.ring \in [1..BufferSize(i) -> Deltas]
      /\ p.other <= p.server
  BY <1>1, PeerTypes, FramesInt, RingPlace DEF Counted
<1>3. w.made[i] = {}
  BY DEF Takes
<1>4. \A g \in p.server..p.self : Has(i, p, g)
  BY <1>2, PastIsHeld
<1>5. \A g \in p.server..p.self : v.real[i][g] = Zero
  BY <1>3 DEF Rests
<1>6. ASSUME NEW k \in 1..BufferSize(i)
      PROVE  /\ q.ring[k].frame = p.ring[k].frame /\ q.ring[k].state = p.ring[k].state
             /\ p.ring[k].have_real \subseteq q.ring[k].have_real
             /\ p.ring[k].have_local => q.ring[k].have_local
             /\ \A c \in q.ring[k].have_real :
                  \/ c \in p.ring[k].have_real /\ p.ring[k].real[c] = q.ring[k].real[c]
                  \/ q.ring[k].frame \in v.made[c]
                     /\ q.ring[k].real[c] = v.real[c][q.ring[k].frame]
  <2>1. CASE \E f \in p.server..p.self : Place(i, f) = k
    <3>1. PICK f \in p.server..p.self : Place(i, f) = k
      BY <2>1
    <3>2. q.ring[k] = [Given(p.ring[k], i, Zero) EXCEPT !.have_local = TRUE]
      BY <2>1 DEF GivenPast
    <3>3. PICK d : d = p.ring[k]
      OBVIOUS
    <3>4. d \in Deltas /\ d.frame = f
      BY <1>2, <1>4, <3>1, <3>3 DEF Has, At
    <3>5. PICK e : e = q.ring[k]
      OBVIOUS
    <3>6. /\ e.frame = d.frame /\ e.state = d.state /\ e.have_local
          /\ e.have_real = d.have_real \cup {i} /\ e.real = [d.real EXCEPT ![i] = Zero]
      BY <3>2, <3>3, <3>4, <3>5 DEF Given, Deltas
    <3>7. d.real \in Boards /\ d.have_real \subseteq Peers
      BY <3>4, DeltaTypes
    <3>8. \A c \in Peers : e.real[c] = IF c = i THEN Zero ELSE d.real[c]
      BY <3>6, <3>7 DEF Boards
    <3>9. f \in v.made[i] /\ v.real[i][f] = Zero
      BY <1>5, <3>1
    <3>10. \A c \in e.have_real :
             \/ c \in d.have_real /\ d.real[c] = e.real[c]
             \/ e.frame \in v.made[c] /\ e.real[c] = v.real[c][e.frame]
      BY <3>4, <3>6, <3>7, <3>8, <3>9
    <3> QED BY <3>3, <3>5, <3>6, <3>10
  <2>2. CASE ~ \E f \in p.server..p.self : Place(i, f) = k
    <3>1. q.ring[k] = p.ring[k]
      BY <2>2 DEF GivenPast
    <3> QED BY <3>1
  <2> QED BY <2>1, <2>2
<1>7. SameStates(i, p, q)
  BY <1>6 DEF SameStates
<1>8. Keeping(i, p, q)
  BY <1>6, PlaceIs DEF Keeping, Has, At
<1>9. Heard(v, q)
  <2>1. Gains(v, i, p, q)
    BY <1>6 DEF Gains
  <2>2. Grows(w, v)
    BY DEF Grows, Rests
  <2> QED BY <1>1, <2>1, <2>2, HeardStays
<1>10. ASSUME NEW g \in p.server..p.self
       PROVE  Has(i, q, g) /\ At(i, q, g).have_local /\ i \in At(i, q, g).have_real
  <2>1. PICK k : k = Place(i, g)
    OBVIOUS
  <2>0. g \in Int
    BY <1>3
  <2>2. k \in 1..BufferSize(i) /\ p.ring[k] \in Deltas
    <3>1. k \in 1..BufferSize(i)
      BY <2>0, <2>1, PlaceIs
    <3> QED BY <1>2, <3>1
  <2>3. q.ring[k] = [Given(p.ring[k], i, Zero) EXCEPT !.have_local = TRUE]
    BY <2>1, <2>2 DEF GivenPast
  <2>4. q.ring[k].have_local /\ i \in q.ring[k].have_real
    BY <2>2, <2>3 DEF Given, Deltas
  <2>5. Has(i, p, g) /\ q.ring[k].frame = p.ring[k].frame
    BY <1>4, <1>6, <2>2
  <2> QED BY <2>1, <2>4, <2>5 DEF Has, At
<1>11. /\ q.self = p.self /\ q.other = p.other /\ q.playing /\ i \in q.players
       /\ v.joined[i] = p.server
  BY DEF Joins, Rests
<1>12. Takes(v, i, q)
  <2>1. \A g \in v.made[i] : v.joined[i] <= g /\ g <= q.self
    BY <1>2, <1>11
  <2>2. q.self \in v.made[i]
    BY <1>2, <1>11
  <2>3. At(i, q, q.self).have_local
    BY <1>2, <1>10, <1>11
  <2>4. \A g \in v.made[i] : Has(i, q, g) /\ i \in At(i, q, g).have_real
    BY <1>10
  <2>5. \A g \in Int : q.self <= g /\ g < v.joined[i] => FALSE
    BY <1>2, <1>11
  <2>6. \A g \in Frames : ~(q.self <= g /\ g < v.joined[i])
    BY <2>5, FramesInt
  <2> QED BY <1>11, <2>1, <2>3, <2>4, <2>6 DEF Takes
<1> QED BY <1>7, <1>8, <1>9, <1>12

\* The ring after the frames before the first of its own have been skipped.
Skipped(i, p, q) ==
  \A k \in 1..BufferSize(i) :
    /\ q.ring[k].state = p.ring[k].state
    /\ \/ q.ring[k].have_real = {} /\ p.ring[k].frame = Unused
       \/ /\ q.ring[k].frame = p.ring[k].frame /\ q.ring[k].real = p.ring[k].real
          /\ q.ring[k].have_real = p.ring[k].have_real
          /\ p.ring[k].have_local => q.ring[k].have_local
    /\ (\E f \in p.self..p.server - 1 : Place(i, f) = k) => q.ring[k].have_local

\* That is what SkipsToFuture makes of it.
LEMMA SkipsToFutureIs ==
  ASSUME NEW i \in Peers, NEW p \in Netplays(i), NEW j \in Netplays(i), Joins(i, p, j, i),
         j.ring = p.ring, NEW n, n = p.server, NEW q \in Netplays(i), q = SkipsToFuture(j, n)
  PROVE  Joins(i, p, q, i) /\ Skipped(i, p, q)
<1>1. PICK skipped : skipped = { Ptr(j, f) : f \in p.self..n - 1 }
  OBVIOUS
<1>2. PICK first : first = [k \in 1..BufferSize(i) |-> CHOOSE f \in p.self..n - 1 : Ptr(j, f) = k]
  OBVIOUS
<1>3. PICK r : r = [k \in 1..BufferSize(i) |->
                      IF k \notin skipped THEN p.ring[k]
                      ELSE [(IF p.ring[k].frame # Unused THEN p.ring[k]
                             ELSE Fresh(first[k], p.ring[k].state)) EXCEPT !.have_local = TRUE]]
  OBVIOUS
<1>4. DOMAIN p.ring = 1..BufferSize(i) /\ p.ring \in [1..BufferSize(i) -> Deltas]
      /\ p.self \in Int /\ n \in Int
  BY RingPlace, PeerTypes, FramesInt
<1>5. j.self = p.self
  BY DEF Joins
<1>6. q = [j EXCEPT !.ring = r]
  BY <1>1, <1>2, <1>3, <1>4, <1>5 DEF SkipsToFuture
<1>7. /\ q.ring = r /\ q.players = j.players /\ q.playing = j.playing /\ q.read = j.read
      /\ q.force_rewind = j.force_rewind
      /\ q.self = j.self /\ q.run = j.run /\ q.other = j.other /\ q.server = j.server
      /\ q.core = j.core /\ q.loads = j.loads /\ q.asked = j.asked
      /\ q.polling = j.polling /\ q.connected = j.connected
  BY <1>6 DEF Netplays
<1>8. Joins(i, p, q, i)
  BY <1>7 DEF Joins
<1>9. ASSUME NEW k \in 1..BufferSize(i)
      PROVE  /\ q.ring[k].state = p.ring[k].state
             /\ \/ q.ring[k].have_real = {} /\ p.ring[k].frame = Unused
                \/ /\ q.ring[k].frame = p.ring[k].frame /\ q.ring[k].real = p.ring[k].real
                   /\ q.ring[k].have_real = p.ring[k].have_real
                   /\ p.ring[k].have_local => q.ring[k].have_local
             /\ k \in skipped => q.ring[k].have_local
  <2>1. p.ring[k] \in Deltas
    BY <1>4
  <2>2. CASE k \notin skipped
    BY <1>3, <1>7, <2>2
  <2>3. CASE k \in skipped /\ p.ring[k].frame # Unused
    <3>1. q.ring[k] = [p.ring[k] EXCEPT !.have_local = TRUE]
      BY <1>3, <1>7, <2>3
    <3> QED BY <2>1, <3>1 DEF Deltas
  <2>4. CASE k \in skipped /\ p.ring[k].frame = Unused
    <3>1. q.ring[k] = [Fresh(first[k], p.ring[k].state) EXCEPT !.have_local = TRUE]
      <4>1. PICK d : d = IF p.ring[k].frame # Unused THEN p.ring[k]
                         ELSE Fresh(first[k], p.ring[k].state)
        OBVIOUS
      <4>4. q.ring[k] = r[k]
        BY <1>7
      <4>5. r[k] = IF k \notin skipped THEN p.ring[k]
                   ELSE [(IF p.ring[k].frame # Unused THEN p.ring[k]
                          ELSE Fresh(first[k], p.ring[k].state)) EXCEPT !.have_local = TRUE]
        BY <1>3
      <4>6. r[k] = IF k \notin skipped THEN p.ring[k] ELSE [d EXCEPT !.have_local = TRUE]
        BY <4>1, <4>5
      <4>2. q.ring[k] = [d EXCEPT !.have_local = TRUE]
        BY <2>4, <4>4, <4>6
      <4>3. d = Fresh(first[k], p.ring[k].state)
        BY <2>4, <4>1
      <4> QED BY <4>2, <4>3
    <3> QED BY <2>4, <3>1 DEF Fresh
  <2> QED BY <2>2, <2>3, <2>4
<1>10. \A f \in p.self..n - 1 : Place(i, f) \in skipped
  BY <1>1, <1>4, RingPlace
<1>11. Skipped(i, p, q)
  BY <1>9, <1>10 DEF Skipped
<1> QED BY <1>8, <1>11

\* A client that hears that it plays from a later frame on has what it had.
LEMMA PlaysLater ==
  ASSUME NEW w \in Games, NEW i \in Peers, i # Server, NEW p, PeerInv(i, p), p.polling,
         Saves(i, p), p.server <= p.read[Server],
         NEW q \in Netplays(i), Joins(i, p, q, i), Skipped(i, p, q),
         Heard(w, p), Takes(w, i, p), i \notin p.players, w.joined[i] = p.server
  PROVE  Heard(w, q) /\ Takes(w, i, q) /\ SameStates(i, p, q) /\ Keeping(i, p, q)
<1>1. p \in Netplays(i) /\ Counted(i, p) /\ Held(i, p)
  BY DEF PeerInv
<1>2. /\ p.other \in Nat /\ p.server \in Int /\ p.self \in Int /\ p.run \in Int
      /\ p.read[Server] \in Int
  BY <1>1, PeerTypes, FramesInt, FramesNat, ClientsArePeers
<1>3. w.made[i] = {}
  BY DEF Takes
<1>4. SameStates(i, p, q)
  BY DEF SameStates, Skipped
<1>5. Keeping(i, p, q)
  <2>1. ASSUME NEW g \in Int, p.other <= g, Has(i, p, g)
        PROVE  /\ Has(i, q, g)
               /\ At(i, p, g).have_real \subseteq At(i, q, g).have_real
               /\ At(i, p, g).have_local => At(i, q, g).have_local
    <3>1. PICK k : k = Place(i, g)
      OBVIOUS
    <3>2. k \in 1..BufferSize(i) /\ p.ring[k].frame = g /\ g # Unused
      BY <1>2, <2>1, <3>1, PlaceIs DEF Has, At, Unused
    <3> QED BY <3>1, <3>2 DEF Skipped, Has, At
  <2> QED BY <2>1 DEF Keeping
<1>6. Heard(w, q)
  <2>1. Gains(w, i, p, q)
    BY DEF Skipped, Gains
  <2>2. Grows(w, w)
    BY DEF Grows
  <2> QED BY <1>1, <2>1, <2>2, HeardStays
<1>7. /\ q.self = p.self /\ q.other = p.other /\ q.playing /\ i \in q.players
  BY DEF Joins
<1>8. ASSUME NEW g \in Frames, p.self <= g, g < p.server, p.other <= g
      PROVE  Has(i, q, g) /\ At(i, q, g).have_local
  <2>1. g \in Int /\ g \in p.self..p.server - 1
    BY <1>2, <1>8, FramesInt
  <2>2. g < p.read[Server] /\ Server \in p.players
    BY <1>1, <1>2, <1>8, <2>1 DEF Counted
  <2>3. Reached(p, g)
    BY <2>2 DEF Reached
  <2>4. Has(i, p, g)
    <3>1. CASE g = p.run
      BY <1>8, <3>1 DEF Saves
    <3>2. CASE g # p.run
      BY <1>1, <1>8, <2>1, <2>3, <3>2 DEF Held, Has
    <3> QED BY <3>1, <3>2
  <2>5. Has(i, q, g)
    BY <1>5, <1>8, <2>1, <2>4 DEF Keeping
  <2>6. At(i, q, g).have_local
    BY <2>1, PlaceIs DEF Skipped, At
  <2> QED BY <2>5, <2>6
<1>9. Takes(w, i, q)
  BY <1>3, <1>7, <1>8 DEF Takes
<1> QED BY <1>4, <1>5, <1>6, <1>9

\* What a client sends for the frames that it has begun.
LEMMA PastMail ==
  ASSUME NEW i \in Clients, NEW a \in Nat, NEW b \in Frames, a <= b,
         NEW v, v.made[i] = a..b, \A g \in a..b : v.real[i][g] = Zero,
         NEW x, x = [k \in 1..b - a + 1 |-> InputMsg(a + k - 1, i, Zero)]
  PROVE  x \in Seq(FromClient(i)) /\ InputsOf(v, i, x)
<1>1. i \in Peers /\ b \in Nat /\ Zero \in SUBSET Buttons
  BY ClientsArePeers, FramesNat DEF Zero
<1>2. PICK n : n = b - a + 1
  OBVIOUS
<1>3. n \in Nat
  BY <1>1, <1>2
<1>4. ASSUME NEW k \in 1..n
      PROVE  /\ InputMsg(a + k - 1, i, Zero) \in FromClient(i)
             /\ a + k - 1 \in a..b
  <2>1. a + k - 1 \in a..b
    BY <1>1, <1>2
  <2>2. a + k - 1 \in Frames
    BY <1>1, <2>1, NetplayAssumption DEF Frames
  <2>3. InputMsg(a + k - 1, i, Zero) \in InputOf({i})
    BY <1>1, <2>2, InputMsgs
  <2> QED BY <2>1, <2>3, FromTypes
<1>5. x \in Seq(FromClient(i))
  <2> DEFINE msg(k) == InputMsg(a + k - 1, i, Zero)
  <2>1. x = [k \in 1..n |-> msg(k)] /\ \A k \in 1..n : msg(k) \in FromClient(i)
    BY <1>2, <1>4
  <2> HIDE DEF msg
  <2>2. PICK T : T = FromClient(i)
    OBVIOUS
  <2>3. \A k \in 1..n : msg(k) \in T
    BY <2>1, <2>2
  <2>4. [k \in 1..n |-> msg(k)] \in Seq(T)
    BY <1>3, <2>3
  <2> QED BY <2>1, <2>2, <2>4
<1>6. DOMAIN x = 1..n /\ \A k \in 1..n : x[k] = InputMsg(a + k - 1, i, Zero)
  BY <1>2
<1>7. ASSUME NEW k \in 1..n
      PROVE  x[k].type = "input" /\ x[k].frame \in v.made[i] /\ x[k].input = v.real[i][x[k].frame]
  <2>1. PICK g : g = a + k - 1
    OBVIOUS
  <2>2. g \in a..b /\ x[k] = InputMsg(g, i, Zero)
    BY <1>4, <1>6, <2>1
  <2>3. x[k].type = "input" /\ x[k].frame = g /\ x[k].input = Zero
    BY <2>2 DEF InputMsg
  <2> QED BY <2>2, <2>3
<1>8. InputsOf(v, i, x)
  BY <1>6, <1>7 DEF InputsOf
<1> QED BY <1>5, <1>8

\* A game in which i has no input for some frames.
LEMMA RestingGame ==
  ASSUME NEW w \in Games, NEW i \in Peers, w.made[i] = {}, NEW S \in SUBSET Frames
  PROVE  \E v \in Games : Rests(w, v, i) /\ v.made[i] = S /\ \A g \in S : v.real[i][g] = Zero
<1>1. PICK z : z = [g \in Frames |-> Zero]
  OBVIOUS
<1>2. z \in [Frames -> SUBSET Buttons] /\ \A g \in Frames : z[g] = Zero
  BY <1>1 DEF Zero
<1>3. PICK v : v = [w EXCEPT !.made[i] = S, !.real[i] = z]
  OBVIOUS
<1>4. /\ v.made = [w.made EXCEPT ![i] = S] /\ v.real = [w.real EXCEPT ![i] = z]
      /\ v.joined = w.joined /\ v.from = w.from
  BY <1>3 DEF Games
<1>5. w.made \in [Peers -> SUBSET Frames] /\ w.real \in [Peers -> [Frames -> SUBSET Buttons]]
  BY DEF Games
<1>6. v \in Games
  BY <1>2, <1>3 DEF Games
<1>7. \A c \in Peers : /\ v.made[c] = IF c = i THEN S ELSE w.made[c]
                       /\ v.real[c] = IF c = i THEN z ELSE w.real[c]
  BY <1>4, <1>5
<1>8. \A g \in S : v.real[i][g] = Zero
  BY <1>2, <1>7
<1>9. Rests(w, v, i)
  BY <1>4, <1>7, <1>8 DEF Rests
<1> QED BY <1>6, <1>7, <1>8, <1>9

\* A client that has heard of player c, with the inputs it sends.
Heeds(w, P, Q, i, c, ts, us) ==
  /\ Joins(i, P[i], Q[i], c) /\ SameStates(i, P[i], Q[i]) /\ Keeping(i, P[i], Q[i])
  /\ \E v \in Games : /\ Rests(w, v, i) /\ Heard(v, Q[i]) /\ Takes(v, i, Q[i])
                       /\ \E x \in Seq(FromClient(i)) : InputsOf(v, i, x) /\ OneAdds(ts, i, x, us)

\* A client that reads who plays.
LEMMA ClientReceivesModeAgrees ==
  ASSUME IInv, IInv', NEW w \in Games, GameInv(w, peer, toServer, toClient),
         NEW i \in Clients, ClientReceivesMode(i)
  PROVE  GoesOn(w, peer, peer', toServer', toClient')
<1>1. PICK P : P = peer
  OBVIOUS
<1>2. PICK Q : Q = peer'
  OBVIOUS
<1>3. PICK tc : tc = toClient
  OBVIOUS
<1>4. PICK m : m = Head(tc[i])
  OBVIOUS
<1>5. PICK p : p = P[i]
  OBVIOUS
<1>6. PICK ts : ts = toServer
  OBVIOUS
<1>7. PICK us : us = toServer'
  OBVIOUS
<1>8. PICK uc : uc = toClient'
  OBVIOUS
<1>9. PICK c : c = m.client
  OBVIOUS
<1>10. PICK j : j = Plays(i, p, c)
  OBVIOUS
<1>11. PICK q : q = Q[i]
  OBVIOUS
<1>12. /\ Sound(P) /\ Sound(Q) /\ Mail(ts, tc) /\ P = [b \in Peers |-> P[b]]
       /\ tc = [b \in Clients |-> tc[b]] /\ ts = [b \in Clients |-> ts[b]]
       /\ GameInv(w, P, ts, tc)
  BY <1>1, <1>2, <1>3, <1>6, Setting
<1>13. i \in Peers /\ i # Server /\ Server \in Peers
  BY ClientsArePeers
<1>14. ClientTakes(i) /\ m.type = "mode"
  BY <1>3, <1>4 DEF ClientReceivesMode
<1>15. p.polling /\ p.connected /\ m \in FromServer
  BY <1>1, <1>3, <1>4, <1>5, <1>14, ClientTook
<1>16. c \in Clients /\ m.frame \in Counts
  BY <1>9, <1>14, <1>15, ModeMessage
<1>17. j = [Joined(peer[i], m.client) EXCEPT !.playing = @ \/ m.client = i]
  BY <1>1, <1>5, <1>9, <1>10 DEF Plays
<1>18. PeerInv(i, p) /\ p \in Netplays(i) /\ q \in Netplays(i) /\ Counted(i, p)
  BY <1>5, <1>11, <1>12, <1>13 DEF Sound, PeerInv
<1>19. Joins(i, p, j, c) /\ j.ring = p.ring /\ j \in Netplays(i)
  <2>1. j \in Netplays(i)
    BY <1>10, <1>13, <1>15, <1>16, <1>18, JoinedStays DEF PeerInv
  <2> QED BY <1>10, <1>13, <1>16, <1>18, <2>1, PlaysIs
<1>20. j.server = p.server /\ j.self = p.self
  BY <1>19 DEF Joins
<1>21. OneTaken(tc, i, uc) /\ tc[i] # <<>>
  <2>1. tc[i] # <<>> /\ uc = [tc EXCEPT ![i] = Tail(@)]
    BY <1>3, <1>8, <1>14 DEF ClientTakes
  <2> QED BY <1>12, <2>1, TakenIs
<1>22. Heard(w, p) /\ Takes(w, i, p) /\ Reads(w, i, p) /\ Saves(i, p)
  BY <1>5, <1>12, <1>13 DEF GameInv
<1>23. Tells(w, P, i, m)
  <2>1. PICK t : t = tc[i]
    OBVIOUS
  <2>2. t \in Seq(FromServer) /\ t # <<>> /\ m = Head(t) /\ ToClient(w, P, i, t)
    BY <1>4, <1>12, <1>21, <2>1 DEF Mail, GameInv
  <2>3. m = t[1] /\ 1 \in DOMAIN t
    BY <2>2, InTail
  <2> QED BY <2>2, <2>3 DEF ToClient
<1>24. m.frame = w.joined[c] /\ c \notin p.players
  BY <1>5, <1>9, <1>14, <1>15, <1>23 DEF Tells
<1>25. Rests(w, w, i)
  BY DEF Rests
<1>26. CASE Hangup(i) /\ toServer' = toServer
  BY <1>14, <1>26, ClientHangsUp
<1>27. ASSUME NEW r, Q = [P EXCEPT ![i] = r]
       PROVE  q = r /\ \A b \in Peers : b # i => Q[b] = P[b]
  BY <1>11, <1>12, <1>13, <1>27
<1>28. ASSUME m.frame = p.server, \A b \in Peers : b # i => Q[b] = P[b],
              Heeds(w, P, Q, i, c, ts, us)
       PROVE  GoesOn(w, P, Q, us, uc)
  <2>4. PICK v \in Games : /\ Rests(w, v, i) /\ Heard(v, Q[i]) /\ Takes(v, i, Q[i])
                           /\ \E x \in Seq(FromClient(i)) : InputsOf(v, i, x) /\ OneAdds(ts, i, x, us)
    BY <1>28 DEF Heeds
  <2>5. PICK x \in Seq(FromClient(i)) : InputsOf(v, i, x) /\ OneAdds(ts, i, x, us)
    BY <2>4
  <2>1. P[i].polling /\ P[i].connected /\ m.frame = P[i].server
    BY <1>5, <1>15, <1>28
  <2>2. /\ Joins(i, P[i], Q[i], m.client) /\ SameStates(i, P[i], Q[i]) /\ Keeping(i, P[i], Q[i])
        /\ Heard(v, Q[i]) /\ Takes(v, i, Q[i]) /\ Rests(w, v, i)
    BY <1>9, <1>28, <2>4 DEF Heeds
  <2>3. Sound(P) /\ Sound(Q) /\ GameInv(w, P, ts, tc) /\ Mail(ts, tc)
    BY <1>12
  <2> QED BY <1>4, <1>14, <1>21, <1>28, <2>1, <2>2, <2>3, <2>5, ClientPlays
<1>29. ASSUME /\ m.frame = p.server /\ c # i /\ Q = [P EXCEPT ![i] = j] /\ us = ts
       PROVE  GoesOn(w, P, Q, us, uc)
    <2>1. q = j /\ \A b \in Peers : b # i => Q[b] = P[b]
    BY <1>27, <1>29
  <2>2. Heard(w, q) /\ Takes(w, i, q) /\ SameStates(i, p, q) /\ Keeping(i, p, q)
    BY <1>13, <1>18, <1>19, <1>22, <1>29, <2>1, OtherPlays
  <2>3. PICK x \in Seq(FromClient(i)) : InputsOf(w, i, x) /\ OneAdds(ts, i, x, ts)
    BY <1>12, OneSilent
  <2>4. Heeds(w, P, Q, i, c, ts, us)
    BY <1>5, <1>11, <1>19, <1>25, <1>29, <2>1, <2>2, <2>3 DEF Heeds
  <2>5. m.frame = p.server
    BY <1>29
  <2> QED BY <1>28, <2>1, <2>4, <2>5
<1>30. ASSUME /\ m.frame = p.server /\ c = i /\ m.frame <= p.self
              /\ Q = [P EXCEPT ![i] = GivesPast(i, j)]
              /\ us = [ts EXCEPT ![i] =
                   @ \o [k \in 1..p.self - m.frame + 1 |-> InputMsg(m.frame + k - 1, i, Zero)]]
       PROVE  GoesOn(w, P, Q, us, uc)
    <2>1. q = GivesPast(i, j) /\ \A b \in Peers : b # i => Q[b] = P[b]
    BY <1>27, <1>30
  <2>2. Joins(i, p, q, i) /\ GivenPast(i, p, q)
    BY <1>13, <1>18, <1>19, <1>30, <2>1, GivesPastIs
  <2>3. p.server \in Nat /\ p.self \in Frames /\ p.self \in Nat
    BY <1>18, PeerTypes, FramesNat
  <2>4. w.made[i] = {}
    BY <1>22, <1>24, <1>30 DEF Takes
  <2>5. p.server..p.self \subseteq Frames
    BY <2>3, NetplayAssumption DEF Frames
  <2>6. PICK v \in Games : /\ Rests(w, v, i) /\ v.made[i] = p.server..p.self
                           /\ \A g \in p.server..p.self : v.real[i][g] = Zero
    <3>1. PICK S : S = p.server..p.self
      OBVIOUS
    <3>2. S \in SUBSET Frames
      BY <2>5, <3>1
    <3>3. PICK v \in Games : Rests(w, v, i) /\ v.made[i] = S /\ \A g \in S : v.real[i][g] = Zero
      BY <1>13, <2>4, <3>2, RestingGame
    <3> QED BY <3>1, <3>3
  <2>7. Heard(v, q) /\ Takes(v, i, q) /\ SameStates(i, p, q) /\ Keeping(i, p, q)
    BY <1>13, <1>15, <1>18, <1>22, <1>24, <1>30, <2>2, <2>6, PlaysPast
  <2>8. PICK x : x = [k \in 1..p.self - p.server + 1 |-> InputMsg(p.server + k - 1, i, Zero)]
    OBVIOUS
  <2>9. x \in Seq(FromClient(i)) /\ InputsOf(v, i, x)
    BY <1>30, <2>3, <2>6, <2>8, PastMail
  <2>10. OneAdds(ts, i, x, us)
    BY <1>12, <1>30, <2>8 DEF OneAdds
  <2>11. Heeds(w, P, Q, i, c, ts, us)
    <3>1. c = i
      BY <1>30
    <3> QED BY <1>5, <1>11, <2>2, <2>6, <2>7, <2>9, <2>10, <3>1 DEF Heeds
  <2>12. m.frame = p.server
    BY <1>30
  <2> QED BY <1>28, <2>1, <2>11, <2>12
<1>31. ASSUME /\ m.frame = p.server /\ c = i /\ us = ts
              /\ Q = [P EXCEPT ![i] = SkipsToFuture(j, m.frame)]
       PROVE  GoesOn(w, P, Q, us, uc)
    <2>1. q = SkipsToFuture(j, m.frame) /\ \A b \in Peers : b # i => Q[b] = P[b]
    BY <1>27, <1>31
  <2>2. Joins(i, p, q, i) /\ Skipped(i, p, q)
    BY <1>13, <1>18, <1>19, <1>31, <2>1, SkipsToFutureIs
  <2>3. p.server <= p.read[Server]
    BY <1>13, <1>18 DEF Counted
  <2>4. Heard(w, q) /\ Takes(w, i, q) /\ SameStates(i, p, q) /\ Keeping(i, p, q)
    BY <1>13, <1>15, <1>18, <1>22, <1>24, <1>31, <2>2, <2>3, PlaysLater
  <2>5. PICK x \in Seq(FromClient(i)) : InputsOf(w, i, x) /\ OneAdds(ts, i, x, ts)
    BY <1>12, OneSilent
  <2>6. Heeds(w, P, Q, i, c, ts, us)
    <3>1. c = i /\ us = ts
      BY <1>31
    <3> QED BY <1>5, <1>11, <1>25, <2>2, <2>4, <2>5, <3>1 DEF Heeds
  <2>7. m.frame = p.server
    BY <1>31
  <2> QED BY <1>28, <2>1, <2>6, <2>7
<1>32. \/ Hangup(i) /\ toServer' = toServer
       \/ m.frame = p.server /\ c # i /\ Q = [P EXCEPT ![i] = j] /\ us = ts
       \/ /\ m.frame = p.server /\ c = i /\ m.frame <= p.self
          /\ Q = [P EXCEPT ![i] = GivesPast(i, j)]
          /\ us = [ts EXCEPT ![i] =
               @ \o [k \in 1..p.self - m.frame + 1 |-> InputMsg(m.frame + k - 1, i, Zero)]]
       \/ /\ m.frame = p.server /\ c = i /\ us = ts
          /\ Q = [P EXCEPT ![i] = SkipsToFuture(j, m.frame)]
  <2>1. \/ m.frame # j.server /\ Hangup(i) /\ UNCHANGED toServer
        \/ /\ m.frame = j.server /\ c # i
           /\ Q = [P EXCEPT ![i] = j]
           /\ UNCHANGED toServer
        \/ /\ m.frame = j.server /\ c = i /\ m.frame <= j.self
           /\ Q = [P EXCEPT ![i] = GivesPast(i, j)]
           /\ us = [ts EXCEPT ![i] =
                @ \o [k \in 1..j.self - m.frame + 1 |-> InputMsg(m.frame + k - 1, i, Zero)]]
        \/ /\ m.frame = j.server /\ c = i /\ m.frame > j.self
           /\ Q = [P EXCEPT ![i] = SkipsToFuture(j, m.frame)]
           /\ UNCHANGED toServer
    BY <1>1, <1>2, <1>3, <1>4, <1>6, <1>7, <1>9, <1>17 DEF ClientReceivesMode
  <2> QED BY <1>6, <1>7, <1>20, <2>1
<1>33. GoesOn(w, P, Q, us, uc) \/ (Hangup(i) /\ toServer' = toServer)
  <2>1. CASE Hangup(i) /\ toServer' = toServer
    BY <2>1
  <2>2. CASE m.frame = p.server /\ c # i /\ Q = [P EXCEPT ![i] = j] /\ us = ts
    BY <1>29, <2>2
  <2>3. CASE /\ m.frame = p.server /\ c = i /\ m.frame <= p.self
             /\ Q = [P EXCEPT ![i] = GivesPast(i, j)]
             /\ us = [ts EXCEPT ![i] =
                  @ \o [k \in 1..p.self - m.frame + 1 |-> InputMsg(m.frame + k - 1, i, Zero)]]
    BY <1>30, <2>3
  <2>4. CASE /\ m.frame = p.server /\ c = i /\ us = ts
             /\ Q = [P EXCEPT ![i] = SkipsToFuture(j, m.frame)]
    BY <1>31, <2>4
  <2> QED BY <1>32, <2>1, <2>2, <2>3, <2>4
<1> QED BY <1>1, <1>2, <1>7, <1>8, <1>26, <1>33

-----------------------------------------------------------------------------
(* The server starts anew. *)

\* A game in which savestate l is played on from frame f.
LEMMA LoadedGame ==
  ASSUME NEW w \in Games, NEW l \in Nat, NEW f \in Frames
  PROVE  \E v \in Games : /\ v.made = w.made /\ v.real = w.real /\ v.joined = w.joined
                          /\ v.from[l] = f /\ \A k \in Nat : k # l => v.from[k] = w.from[k]
<1>1. PICK v : v = [w EXCEPT !.from[l] = f]
  OBVIOUS
<1>2. /\ v.made = w.made /\ v.real = w.real /\ v.joined = w.joined
      /\ v.from = [w.from EXCEPT ![l] = f]
  BY <1>1 DEF Games
<1>3. w.from \in [Nat -> Frames] /\ v \in Games
  BY <1>1 DEF Games
<1>4. v.from[l] = f /\ \A k \in Nat : k # l => v.from[k] = w.from[k]
  BY <1>2, <1>3
<1> QED BY <1>2, <1>3, <1>4

\* What is known of a game does not depend on its savestates.
LEMMA SameKnown ==
  ASSUME NEW w, NEW v, v.made = w.made, v.real = w.real, v.joined = w.joined,
         NEW i, NEW p, Knows(w, i, p)
  PROVE  Knows(v, i, p)
<1>1. Heard(v, p)
  BY DEF Knows, Heard
<1>2. Takes(v, i, p)
  BY DEF Knows, Takes
<1>3. Reads(v, i, p)
  BY DEF Knows, Reads
<1> QED BY <1>1, <1>2, <1>3 DEF Knows

\* Loading has put the server from p to q, which nobody has a part in but it.
Restarts(p, q) ==
  /\ q.loads = p.loads + 1 /\ q.core = Core(p.loads + 1)
  /\ q.self = p.self /\ q.run = p.self /\ q.other = p.self /\ ~q.force_rewind
  /\ q.players = p.players /\ q.server = p.server /\ q.connected = p.connected
  /\ q.asked = p.asked /\ p.read[Server] <= q.read[Server]

\* The savestates that there have been before are others.
LEMMA EarlierLoads ==
  ASSUME NEW w, NEW P, Sound(P), NEW ts, NEW tc, GameInv(w, P, ts, tc), Mail(ts, tc),
         NEW l, l = P[Server].loads + 1
  PROVE  /\ \A b \in Peers : Certain(b, P[b]).load < l
         /\ \A b \in Clients : \A k \in DOMAIN tc[b] :
              tc[b][k].type = "savestate" => tc[b][k].state.load < l
<1>1. P[Server].loads \in Nat
  BY ServerCounts
<1>2. ASSUME NEW b \in Peers
      PROVE  Certain(b, P[b]).load < l
  <2>1. PICK n : n = Certain(b, P[b]).load
    OBVIOUS
  <2>2. n # Unsynced => n \in 0..P[Server].loads
    BY <2>1 DEF GameInv, Agrees
  <2>3. CASE n = Unsynced
    BY <1>1, <2>1, <2>3 DEF Unsynced
  <2>4. CASE n # Unsynced
    BY <1>1, <2>1, <2>2, <2>4
  <2> QED BY <2>3, <2>4
<1>3. ASSUME NEW b \in Clients, NEW k \in DOMAIN tc[b], tc[b][k].type = "savestate"
      PROVE  tc[b][k].state.load < l
  <2>1. Tells(w, P, b, tc[b][k])
    BY DEF GameInv, ToClient
  <2>2. tc[b][k].state.load \in 1..P[Server].loads
    BY <1>3, <2>1 DEF Tells
  <2> QED BY <1>1, <2>2
<1> QED BY <1>2, <1>3

\* The server that loads a state plays on from it, and tells all clients, or nobody.
LEMMA ServerLoads ==
  ASSUME NEW w \in Games, NEW P, NEW Q, Sound(P), Sound(Q), \A j \in Peers : j # Server => Q[j] = P[j],
         NEW ts, NEW tc, GameInv(w, P, ts, tc), Mail(ts, tc),
         Restarts(P[Server], Q[Server]), Knows(w, Server, Q[Server]),
         NEW m, m = SavestateMsg(P[Server].self, Core(P[Server].loads + 1)),
         NEW B, NEW uc, SentTo(tc, B, m, uc)
  PROVE  \E v \in Games : /\ v.made = w.made /\ v.joined = w.joined
                          /\ Onward(w, v, P, Q, Server) /\ GameInv(v, Q, ts, uc)
<1>1. PICK p : p = P[Server]
  OBVIOUS
<1>2. PICK q : q = Q[Server]
  OBVIOUS
<1>3. PICK l : l = p.loads + 1
  OBVIOUS
<1>4. PICK f : f = p.self
  OBVIOUS
<1>5. Server \in Peers /\ \A b \in Clients : b \in Peers /\ b # Server
  BY ClientsArePeers
<1>6. p \in Netplays(Server) /\ q \in Netplays(Server)
  BY <1>1, <1>2, <1>5 DEF Sound, PeerInv
<1>7. /\ q.loads = l /\ q.core = Core(l) /\ q.self = f /\ q.other = f /\ q.run = f /\ ~q.force_rewind
      /\ q.players = p.players /\ q.server = p.server /\ q.connected = p.connected
      /\ q.asked = p.asked /\ p.read[Server] <= q.read[Server]
  BY <1>1, <1>2, <1>3, <1>4 DEF Restarts
<1>8. f \in Frames /\ f \in Int /\ f \in Nat /\ p.loads \in Nat /\ l \in Nat /\ l >= 1
      /\ l \in 0..MaxLoads
  <2>1. p.loads \in Nat
    BY <1>1, ServerCounts
  <2>2. q.loads \in 0..MaxLoads /\ f \in Frames
    BY <1>4, <1>6, PeerTypes
  <2> QED BY <1>3, <1>7, <2>1, <2>2, FramesInt, FramesNat
<1>9. PICK v \in Games : /\ v.made = w.made /\ v.real = w.real /\ v.joined = w.joined
                         /\ v.from[l] = f /\ \A k \in Nat : k # l => v.from[k] = w.from[k]
  BY <1>8, LoadedGame
<1>10. Moves(w, v, P, Q, Server)
  <2>1. \A k \in 0..p.loads : v.from[k] = w.from[k]
    BY <1>3, <1>8, <1>9
  <2>2. v.joined[Server] = 0
    BY <1>9 DEF GameInv
  <2>3. P[Server].self <= Q[Server].self /\ P[Server].loads <= Q[Server].loads
    BY <1>1, <1>2, <1>3, <1>4, <1>7, <1>8
  <2> QED BY <1>1, <1>2, <1>7, <1>9, <2>1, <2>2, <2>3 DEF Moves
<1>11. /\ \A b \in Peers : Certain(b, P[b]).load < l
       /\ \A b \in Clients : \A k \in DOMAIN tc[b] :
            tc[b][k].type = "savestate" => tc[b][k].state.load < l
  BY <1>1, <1>3, EarlierLoads
<1>12. Certain(Server, q) = Core(l)
  BY <1>7, <1>8 DEF Certain
<1>13. Core(l).load = l /\ Core(l).inputs = <<>>
  BY DEF Core
<1>14. Agrees(v, Q, Server)
  <2>1. Official(v, f, f) = <<>> /\ f..f - 1 = {}
    BY <1>8, OfficialOfNone
  <2>2. l \in 0..q.loads
    BY <1>7, <1>8
  <2> QED BY <1>2, <1>7, <1>8, <1>9, <1>12, <1>13, <2>1, <2>2 DEF Agrees
<1>15. m.type = "savestate" /\ m.frame = f /\ m.state = Core(l) /\ m \in FromServer
  <2>1. m = SavestateMsg(f, Core(l))
    BY <1>1, <1>3, <1>4
  <2>2. Core(l) \in Cores
    BY <1>8, CoreTypes
  <2> QED BY <1>8, <2>1, <2>2 DEF SavestateMsg, FromServer
<1>16. PICK y : Puts(tc, y, uc) /\ Only(y, B, m)
  <2>1. \A b \in Clients : tc[b] \in Seq(FromServer)
    BY DEF Mail
  <2> QED BY <1>15, <2>1, SomeMail
<1>17. Posts(v, Q, tc, y)
  <2>1. ASSUME NEW b \in Clients
        PROVE  Tells(v, Q, b, m)
    <3>1. Certain(b, Q[b]).load < l
      BY <1>5, <1>11
    <3>2. l \in 1..q.loads
      BY <1>7, <1>8
    <3> QED BY <1>2, <1>9, <1>13, <1>15, <3>1, <3>2 DEF Tells
  <2>2. \A b \in Clients : \A k \in DOMAIN tc[b] : InOrder(tc[b][k], m)
    BY <1>11, <1>13, <1>15 DEF InOrder
  <2>3. \A b \in Clients : ToClient(v, Q, b, y[b])
    BY <1>15, <1>16, <2>1 DEF ToClient, Only
  <2>4. \A b \in Clients : \A k \in DOMAIN tc[b] : \A n \in DOMAIN y[b] : InOrder(tc[b][k], y[b][n])
    BY <1>16, <2>2 DEF Only
  <2> QED BY <2>3, <2>4 DEF Posts
<1>18. PICK x : x = [b \in Clients |-> <<>>]
  OBVIOUS
<1>19. Mail(x, x) /\ \A b \in Clients : x[b] = <<>> /\ DOMAIN x[b] = {}
  BY <1>18, NoMail
<1>20. Puts(ts, x, ts)
  <2>1. ASSUME NEW S, NEW s \in Seq(S)
        PROVE  s = s \o <<>>
    OBVIOUS
  <2>2. \A b \in Clients : ts[b] = ts[b] \o x[b]
    BY <1>19, <2>1 DEF Mail
  <2> QED BY <2>2 DEF Puts
<1>21. Writes(v, P, Q, x)
  BY <1>19 DEF Writes
<1>22. Mail(x, y)
  BY <1>16, <1>19 DEF Mail, Only
<1>23. /\ Q[Server].players = P[Server].players /\ Q[Server].server = P[Server].server
       /\ Q[Server].connected => P[Server].connected
       /\ P[Server].asked => Q[Server].asked
  BY <1>1, <1>2, <1>7
<1>24. Knows(v, Server, Q[Server])
  BY <1>9, SameKnown
<1>25. GameInv(v, Q, ts, uc)
  BY <1>5, <1>10, <1>14, <1>16, <1>17, <1>20, <1>21, <1>22, <1>23, <1>24, SendingAgrees
<1>26. Onward(w, v, P, Q, Server)
  BY <1>2, <1>5, <1>10, <1>11, <1>12, <1>13 DEF Onward
<1> QED BY <1>9, <1>25, <1>26

\* The inputs in the ring are what they were.
SameInputs(i, p, q) ==
  \A k \in 1..BufferSize(i) :
    /\ q.ring[k].frame = p.ring[k].frame /\ q.ring[k].have_local = p.ring[k].have_local
    /\ q.ring[k].have_real = p.ring[k].have_real /\ q.ring[k].real = p.ring[k].real

\* The server plays on from the frame that it has come to.
Now(p, q) ==
  /\ q.self = p.self /\ q.run = p.self /\ q.other = p.self
  /\ \A c \in Peers : q.read[c] = p.read[c] \/ (p.read[c] <= p.self /\ q.read[c] = p.self)
  /\ q.players = p.players /\ q.playing = p.playing /\ q.polling = p.polling
  /\ q.connected = p.connected /\ q.force_rewind = p.force_rewind
  /\ q.server = p.server /\ q.asked = p.asked
  /\ SameInputs(Server, p, q)

\* Then it knows the game from there on.
LEMMA NowKnows ==
  ASSUME NEW w \in Games, NEW p, PeerInv(Server, p), ~p.polling, Knows(w, Server, p),
         NEW q \in Netplays(Server), Now(p, q)
  PROVE  Knows(w, Server, q) /\ p.read[Server] <= q.read[Server]
<1>1. p \in Netplays(Server) /\ Counted(Server, p) /\ Serving(p)
  BY DEF PeerInv
<1>2. /\ p.self \in Nat /\ p.other \in Int /\ p.run \in Int /\ p.read \in [Peers -> Counts]
      /\ p.players \subseteq Peers
  BY <1>1, PeerTypes, FramesNat, FramesInt
<1>3. p.other <= p.self /\ ~p.force_rewind
  BY <1>1, <1>2 DEF Counted, Serving
<1>4. Heard(w, p) /\ Takes(w, Server, p) /\ Reads(w, Server, p)
  BY DEF Knows
<1>5. /\ q.self = p.self /\ q.other = p.self /\ q.players = p.players /\ q.playing = p.playing
      /\ q.polling = p.polling /\ q.force_rewind = p.force_rewind
  BY DEF Now
<1>6. \A f \in Int : /\ At(Server, q, f).frame = At(Server, p, f).frame
                     /\ At(Server, q, f).have_local = At(Server, p, f).have_local
                     /\ At(Server, q, f).have_real = At(Server, p, f).have_real
  BY PlaceIs DEF Now, SameInputs, At
<1>7. Keeping(Server, p, q)
  BY <1>6 DEF Keeping, Has
<1>8. Heard(w, q)
  <2>1. Grows(w, w) /\ Gains(w, Server, p, q)
    BY DEF Grows, Gains, Now, SameInputs
  <2> QED BY <1>1, <1>4, <2>1, HeardStays
<1>9. Server \in Peers
  BY ClientsArePeers
<1>10. Takes(w, Server, q)
  <2>1. p.self <= q.self /\ p.other <= q.other
    BY <1>2, <1>3, <1>5
  <2> QED BY <1>1, <1>4, <1>5, <1>7, <1>9, <2>1, TakesStays
<1>11. ASSUME NEW c \in q.players \ {Server}
       PROVE  ReadsOf(w, w, Server, p, q, c)
  <2>1. c \in p.players /\ c \in Peers /\ p.read[c] \in Nat
    BY <1>2, <1>5, <1>11, FramesNat
  <2>2. q.read[c] = p.read[c] \/ (p.read[c] <= p.self /\ q.read[c] = p.self)
    BY <2>1 DEF Now
  <2>3. p.read[c] <= q.read[c]
    BY <1>2, <2>1, <2>2
  <2>4. \A g \in Nat : ~(p.self <= g /\ p.read[c] <= g /\ g < q.read[c])
    BY <1>2, <2>1, <2>2
  <2>5. \A g \in Frames : ~(q.other <= g /\ p.read[c] <= g /\ g < q.read[c])
    BY <1>5, <2>4, FramesNat
  <2> QED BY <2>1, <2>3, <2>5 DEF ReadsOf
<1>12. Reads(w, Server, q)
  <2>1. p.other <= q.other
    BY <1>3, <1>5
  <2> QED BY <1>1, <1>4, <1>7, <1>11, <2>1, ReadsStays
<1>13. Saves(Server, q)
  BY <1>3, <1>5 DEF Saves
<1>14. p.read[Server] <= q.read[Server]
  <2>1. p.read[Server] \in Nat
    BY <1>2, <1>9, FramesNat
  <2>2. q.read[Server] = p.read[Server] \/ (p.read[Server] <= p.self /\ q.read[Server] = p.self)
    BY <1>9 DEF Now
  <2> QED BY <1>2, <2>1, <2>2
<1> QED BY <1>8, <1>10, <1>12, <1>13, <1>14 DEF Knows

\* netplay_force_future puts it there.
LEMMA FutureIs ==
  ASSUME NEW p, PeerInv(Server, p), NEW q, q = netplay_force_future(p)
  PROVE  q \in Netplays(Server) /\ Now(p, q) /\ q.ring = p.ring /\ q.loads = p.loads
<1>1. /\ q \in Netplays(Server)
      /\ q.self = p.self /\ q.run = p.self /\ q.other = p.self
      /\ \A c \in Peers : q.read[c] = p.read[c] \/ (p.read[c] <= p.self /\ q.read[c] = p.self)
      /\ q.players = p.players /\ q.playing = p.playing /\ q.polling = p.polling
      /\ q.connected = p.connected /\ q.force_rewind = p.force_rewind
      /\ q.ring = p.ring /\ q.loads = p.loads
  BY ForcedFuture
<1>2. q.server = p.server /\ q.asked = p.asked
  BY DEF netplay_force_future
<1>3. SameInputs(Server, p, q)
  BY <1>1 DEF SameInputs
<1> QED BY <1>1, <1>2, <1>3 DEF Now

\* So does netplay_load_savestate.
LEMMA LoadSavestateIs ==
  ASSUME NEW p, PeerInv(Server, p), ~p.polling, p.connected, p.loads < MaxLoads,
         NEW q, q = netplay_load_savestate(p)
  PROVE  /\ PeerInv(Server, q) /\ q \in Netplays(Server) /\ Now(p, q)
         /\ q.loads = p.loads + 1 /\ q.core = Core(p.loads + 1)
<1>1. PICK F : F = netplay_force_future(p)
  OBVIOUS
<1>2. F \in Netplays(Server) /\ Now(p, F)
  BY <1>1, FutureIs
<1>3. PeerInv(Server, q) /\ q \in Netplays(Server)
  BY LoadedStays DEF PeerInv
<1>4. PICK k : k = Ptr(F, F.run)
  OBVIOUS
<1>5. q = [F EXCEPT !.loads = @ + 1, !.core = Core(p.loads + 1), !.ring[k].state = Core(p.loads + 1)]
  BY <1>1, <1>4 DEF netplay_load_savestate
<1>6. F.loads = p.loads
  BY <1>1, FutureIs
<1>7. /\ q.self = F.self /\ q.run = F.run /\ q.other = F.other /\ q.read = F.read
      /\ q.players = F.players /\ q.playing = F.playing /\ q.polling = F.polling
      /\ q.connected = F.connected /\ q.force_rewind = F.force_rewind
      /\ q.server = F.server /\ q.asked = F.asked
      /\ q.loads = p.loads + 1 /\ q.core = Core(p.loads + 1)
      /\ q.ring = [F.ring EXCEPT ![k].state = Core(p.loads + 1)]
  BY <1>2, <1>5, <1>6 DEF Netplays
<1>8. F.ring \in [1..BufferSize(Server) -> Deltas]
  BY <1>2, RingPlace
<1>9. SameInputs(Server, F, q)
  <2>1. ASSUME NEW l \in 1..BufferSize(Server)
        PROVE  /\ q.ring[l].frame = F.ring[l].frame
               /\ q.ring[l].have_local = F.ring[l].have_local
               /\ q.ring[l].have_real = F.ring[l].have_real /\ q.ring[l].real = F.ring[l].real
    <3>1. F.ring[l] \in Deltas
      BY <1>8
    <3>2. q.ring[l] = F.ring[l] \/ q.ring[l] = [F.ring[l] EXCEPT !.state = Core(p.loads + 1)]
      BY <1>7, <1>8
    <3> QED BY <3>1, <3>2 DEF Deltas
  <2> QED BY <2>1 DEF SameInputs
<1>10. Now(p, q)
  <2>1. SameInputs(Server, p, q)
    BY <1>2, <1>9 DEF Now, SameInputs
  <2> QED BY <1>2, <1>7, <2>1 DEF Now
<1> QED BY <1>3, <1>7, <1>10

\* A peer that makes a frame ready knows what it knew.
LEMMA ReadyKnows ==
  ASSUME NEW w \in Games, NEW i \in Peers, NEW p, PeerInv(i, p), Knows(w, i, p),
         NEW f \in Frames, Ready(p, f), NEW q, q = netplay_delta_frame_ready(p, f)
  PROVE  Knows(w, i, q) /\ Certain(i, q) = Certain(i, p)
<1>1. p \in Netplays(i) /\ Counted(i, p)
  BY DEF PeerInv
<1>2. /\ q \in Netplays(i) /\ RingOnly(p, q) /\ SameStates(i, p, q) /\ Keeping(i, p, q)
      /\ \A k \in 1..BufferSize(i) :
           \/ q.ring[k] = p.ring[k]
           \/ k = Place(i, f) /\ q.ring[k].have_real = {} /\ ~q.ring[k].have_local
  BY <1>1, ReadyIs
<1>3. /\ q.self = p.self /\ q.other = p.other /\ q.run = p.run /\ q.players = p.players
      /\ q.playing = p.playing /\ q.read = p.read /\ q.core = p.core
      /\ q.force_rewind = p.force_rewind /\ q.polling = p.polling
  BY <1>2 DEF RingOnly
<1>4. /\ p.self \in Int /\ p.other \in Int /\ p.read \in [Peers -> Counts] /\ p.players \subseteq Peers
  BY <1>1, PeerTypes, FramesInt
<1>5. Heard(w, q)
  <2>1. Grows(w, w)
    BY DEF Grows
  <2>2. Gains(w, i, p, q)
    BY <1>2 DEF Gains
  <2> QED BY <1>1, <1>2, <2>1, <2>2, HeardStays DEF Knows
<1>6. Takes(w, i, q)
  <2>1. p.self <= q.self /\ p.other <= q.other
    BY <1>3, <1>4
  <2> QED BY <1>1, <1>2, <1>3, <2>1, TakesStays DEF Knows
<1>7. ASSUME NEW c \in q.players \ {i}
      PROVE  ReadsOf(w, w, i, p, q, c)
  <2>1. c \in p.players /\ q.read[c] = p.read[c] /\ p.read[c] \in Nat
    BY <1>3, <1>4, <1>7, FramesNat
  <2>2. \A g \in Nat : ~(p.read[c] <= g /\ g < q.read[c])
    BY <2>1
  <2>3. \A g \in Frames : ~(p.read[c] <= g /\ g < q.read[c])
    BY <2>2, FramesNat
  <2> QED BY <2>1, <2>3 DEF ReadsOf
<1>8. Reads(w, i, q)
  <2>1. p.other <= q.other
    BY <1>3, <1>4
  <2> QED BY <1>1, <1>2, <1>7, <2>1, ReadsStays DEF Knows
<1>9. Saves(i, q) /\ Certain(i, q) = Certain(i, p)
  BY <1>1, <1>2, <1>3, SavesStays DEF Knows
<1> QED BY <1>5, <1>6, <1>8, <1>9 DEF Knows

\* The server after netplay_force_future.
LEMMA FutureKnows ==
  ASSUME NEW w \in Games, NEW p, PeerInv(Server, p), ~p.polling, p.connected, Knows(w, Server, p),
         NEW F, F = netplay_force_future(p)
  PROVE  /\ PeerInv(Server, F) /\ Knows(w, Server, F) /\ Now(p, F) /\ F.loads = p.loads
         /\ p.read[Server] <= F.read[Server]
<1>1. F \in Netplays(Server) /\ Now(p, F) /\ F.ring = p.ring /\ F.loads = p.loads
  BY FutureIs
<1>2. Knows(w, Server, F) /\ p.read[Server] <= F.read[Server]
  BY <1>1, NowKnows
<1>3. PeerInv(Server, F)
  <2>1. /\ F.self = p.self /\ F.run = p.self /\ F.other = p.self
        /\ \A c \in Peers : F.read[c] = p.read[c] \/ (p.read[c] <= p.self /\ F.read[c] = p.self)
        /\ \A c \in p.players : p.self <= F.read[c]
        /\ F.players = p.players /\ F.playing = p.playing /\ F.polling = p.polling
        /\ F.connected = p.connected /\ F.force_rewind = p.force_rewind
    BY ForcedFuture
  <2>2. \A k \in 1..BufferSize(Server) : F.ring[k].frame = p.ring[k].frame
                                          /\ F.ring[k].have_local = p.ring[k].have_local
    BY <1>1
  <2> QED BY <1>1, <2>1, <2>2, NowStays
<1> QED BY <1>1, <1>2, <1>3

\* The user of the server loads a state.
LEMMA HostLoadsAgrees ==
  ASSUME IInv, IInv', NEW w \in Games, GameInv(w, peer, toServer, toClient), HostLoads
  PROVE  GoesOn(w, peer, peer', toServer', toClient')
<1>1. PICK P : P = peer
  OBVIOUS
<1>2. PICK Q : Q = peer'
  OBVIOUS
<1>3. PICK ts : ts = toServer
  OBVIOUS
<1>4. PICK tc : tc = toClient
  OBVIOUS
<1>5. PICK uc : uc = toClient'
  OBVIOUS
<1>6. PICK p : p = P[Server]
  OBVIOUS
<1>7. PICK q : q = Q[Server]
  OBVIOUS
<1>8. PICK F : F = netplay_force_future(p)
  OBVIOUS
<1>9. PICK l : l = p.loads + 1
  OBVIOUS
<1>10. /\ Sound(P) /\ Sound(Q) /\ Mail(ts, tc) /\ P = [j \in Peers |-> P[j]]
       /\ tc = [b \in Clients |-> tc[b]] /\ GameInv(w, P, ts, tc)
  BY <1>1, <1>2, <1>3, <1>4, Setting
<1>11. Server \in Peers
  BY ClientsArePeers
<1>12. p.connected /\ ~p.polling /\ p.loads < MaxLoads /\ toServer' = toServer
  BY <1>1, <1>6 DEF HostLoads, Going, MayLoad
<1>13. PeerInv(Server, p) /\ p \in Netplays(Server) /\ q \in Netplays(Server)
  BY <1>6, <1>7, <1>10, <1>11 DEF Sound, PeerInv
<1>14. Knows(w, Server, p)
  BY <1>6, <1>10, <1>11 DEF GameInv, Knows
<1>15. /\ PeerInv(Server, F) /\ Knows(w, Server, F) /\ Now(p, F) /\ F.loads = p.loads
       /\ p.read[Server] <= F.read[Server]
  BY <1>8, <1>12, <1>13, <1>14, FutureKnows
<1>16. /\ F.self = p.self /\ F.run = p.self /\ F.other = p.self /\ F.players = p.players
       /\ F.polling = p.polling /\ F.connected = p.connected /\ F.force_rewind = p.force_rewind
       /\ F.server = p.server /\ F.asked = p.asked
  BY <1>15 DEF Now
<1>17. F \in Netplays(Server) /\ p.self \in Frames /\ ~p.force_rewind
  BY <1>13, <1>15, PeerTypes DEF PeerInv, Serving
<1>18. p.read[Server] \in Nat /\ F.read[Server] \in Nat
  <2>1. p.read \in [Peers -> Counts] /\ F.read \in [Peers -> Counts]
    BY <1>13, <1>17, PeerTypes
  <2> QED BY <1>11, <2>1, FramesNat
<1>19. PICK m : m = SavestateMsg(p.self, Core(l))
  OBVIOUS
<1>20. \E B : Restarts(p, q) /\ Knows(w, Server, q) /\ SentTo(tc, B, m, uc)
              /\ \A j \in Peers : j # Server => Q[j] = P[j]
  <2>1. CASE ~Ready(F, F.self)
    <3>1. /\ Q = [P EXCEPT ![Server] = [F EXCEPT !.loads = @ + 1, !.core = Core(F.loads + 1)]]
          /\ uc = tc
      BY <1>1, <1>2, <1>4, <1>5, <1>6, <1>8, <2>1 DEF HostLoads
    <3>2. /\ q = [F EXCEPT !.loads = @ + 1, !.core = Core(l)]
          /\ \A j \in Peers : j # Server => Q[j] = P[j]
      BY <1>7, <1>9, <1>10, <1>11, <1>15, <3>1
    <3>3. /\ q.loads = l /\ q.core = Core(l) /\ q.ring = F.ring /\ q.read = F.read
          /\ q.self = F.self /\ q.run = F.run /\ q.other = F.other /\ q.players = F.players
          /\ q.playing = F.playing /\ q.polling = F.polling
          /\ q.connected = F.connected /\ q.force_rewind = F.force_rewind
          /\ q.server = F.server /\ q.asked = F.asked
      BY <1>9, <1>15, <1>17, <3>2 DEF Netplays
    <3>4. Restarts(p, q)
      BY <1>9, <1>15, <1>16, <1>17, <3>3 DEF Restarts
    <3>5. Now(p, q)
      BY <1>15, <3>3 DEF Now, SameInputs
    <3>6. Knows(w, Server, q)
      BY <1>12, <1>13, <1>14, <3>5, NowKnows
    <3>7. SentTo(tc, {}, m, uc)
      BY <1>10, <3>1 DEF SentTo
    <3> QED BY <3>2, <3>4, <3>6, <3>7
  <2>2. CASE Ready(F, F.self)
    <3>1. PICK R : R = netplay_delta_frame_ready(F, F.self)
      OBVIOUS
    <3>2. PICK r : r = netplay_load_savestate(R)
      OBVIOUS
    <3>3. /\ Q = [P EXCEPT ![Server] = r]
          /\ uc = [c \in Clients |-> Append(tc[c], SavestateMsg(r.run, r.core))]
      BY <1>1, <1>2, <1>4, <1>5, <1>6, <1>8, <2>2, <3>1, <3>2 DEF HostLoads
    <3>4. q = r /\ \A j \in Peers : j # Server => Q[j] = P[j]
      BY <1>7, <1>10, <1>11, <3>3
    <3>5. F.self \in Frames
      BY <1>16, <1>17
    <3>6. Knows(w, Server, R) /\ PeerInv(Server, R)
      BY <1>11, <1>15, <2>2, <3>1, <3>5, ReadyKnows, ReadyStays
    <3>7. RingOnly(F, R)
      BY <1>17, <3>1, <3>5, FrameReady
    <3>8. /\ R.self = F.self /\ R.players = F.players /\ R.polling = F.polling
          /\ R.connected = F.connected /\ R.force_rewind = F.force_rewind
          /\ R.server = F.server /\ R.asked = F.asked /\ R.loads = F.loads /\ R.read = F.read
      BY <3>7 DEF RingOnly
    <3>9. /\ PeerInv(Server, q) /\ Now(R, q) /\ q \in Netplays(Server)
          /\ q.loads = R.loads + 1 /\ q.core = Core(R.loads + 1)
      BY <1>12, <1>15, <1>16, <3>2, <3>4, <3>6, <3>8, LoadSavestateIs
    <3>10. Knows(w, Server, q) /\ R.read[Server] <= q.read[Server]
      BY <1>12, <1>16, <3>6, <3>8, <3>9, NowKnows
    <3>11. q.read[Server] \in Nat
      <4>1. q.read \in [Peers -> Counts]
        BY <3>9, PeerTypes
      <4> QED BY <1>11, <4>1, FramesNat
    <3>12. p.read[Server] <= q.read[Server]
      BY <1>15, <1>18, <3>8, <3>10, <3>11
    <3>13. /\ q.self = p.self /\ q.run = p.self /\ q.other = p.self /\ q.players = p.players
           /\ q.connected = p.connected /\ q.force_rewind = p.force_rewind
           /\ q.server = p.server /\ q.asked = p.asked
      BY <1>16, <3>8, <3>9 DEF Now
    <3>14. Restarts(p, q)
      BY <1>15, <1>17, <3>8, <3>9, <3>12, <3>13 DEF Restarts
    <3>15. SentTo(tc, Clients, m, uc)
      <4>1. SavestateMsg(r.run, r.core) = m
        BY <1>9, <1>15, <1>19, <3>4, <3>8, <3>9, <3>13
      <4> QED BY <3>3, <4>1 DEF SentTo
    <3> QED BY <3>4, <3>10, <3>14, <3>15
  <2> QED BY <2>1, <2>2
<1>21. PICK B : Restarts(p, q) /\ Knows(w, Server, q) /\ SentTo(tc, B, m, uc)
                /\ \A j \in Peers : j # Server => Q[j] = P[j]
  BY <1>20
<1>22. \E v \in Games : Onward(w, v, P, Q, Server) /\ GameInv(v, Q, ts, uc)
  <2>1. Restarts(P[Server], Q[Server]) /\ Knows(w, Server, Q[Server])
    BY <1>6, <1>7, <1>21
  <2>2. m = SavestateMsg(P[Server].self, Core(P[Server].loads + 1))
    BY <1>6, <1>9, <1>19
  <2> QED BY <1>10, <1>21, <2>1, <2>2, ServerLoads
<1> QED BY <1>1, <1>2, <1>3, <1>5, <1>11, <1>12, <1>22 DEF GoesOn

-----------------------------------------------------------------------------
(* A frame begins. *)

\* The state is saved in the frame that is to be run, which what is certain does not depend on.
LEMMA SavedKnows ==
  ASSUME NEW w \in Games, NEW i \in Peers, NEW p, PeerInv(i, p), ~p.polling, p.connected,
         Knows(w, i, p), NEW q, q = Saved(p)
  PROVE  Knows(w, i, q) /\ Certain(i, q) = Certain(i, p)
<1>1. p \in Netplays(i) /\ Counted(i, p) /\ Held(i, p)
  BY DEF PeerInv
<1>2. CASE ~Ready(p, p.run)
  <2>1. q = p
    BY <1>2 DEF Saved
  <2> QED BY <2>1
<1>3. CASE Ready(p, p.run)
  <2>1. PICK n : n = p.run
    OBVIOUS
  <2>2. PICK r : r = netplay_delta_frame_ready(p, n)
    OBVIOUS
  <2>3. n \in Frames /\ n \in Int /\ p.other \in Int /\ p.core \in Cores /\ ~p.force_rewind
        /\ p.other <= n
    BY <1>1, <2>1, PeerTypes, FramesInt DEF Counted
  <2>4. /\ Knows(w, i, r) /\ Certain(i, r) = Certain(i, p) /\ PeerInv(i, r)
        /\ r \in Netplays(i) /\ RingOnly(p, r) /\ Has(i, r, n)
    <3>1. Ready(p, n)
      BY <1>3, <2>1
    <3> QED BY <1>1, <2>2, <2>3, <3>1, ReadyKnows, ReadyStays, ReadyIs
  <2>5. PICK k : k = Place(i, n)
    OBVIOUS
  <2>6. k \in 1..BufferSize(i) /\ Ptr(r, n) = k /\ r.ring \in [1..BufferSize(i) -> Deltas]
        /\ DOMAIN r.ring = 1..BufferSize(i)
    BY <2>3, <2>4, <2>5, RingPlace, PlaceIs
  <2>7. /\ r.run = n /\ r.core = p.core /\ r.other = p.other /\ ~r.force_rewind /\ ~r.polling
        /\ r.self = p.self /\ r.players = p.players
    BY <2>1, <2>3, <2>4 DEF RingOnly
  <2>8. q = [r EXCEPT !.ring[k].state = p.core]
    BY <1>3, <2>1, <2>2, <2>6, <2>7 DEF Saved
  <2>9. /\ q.ring = [r.ring EXCEPT ![k].state = p.core]
        /\ q.playing = r.playing /\ q.players = r.players /\ q.self = r.self /\ q.run = r.run
        /\ q.other = r.other /\ q.read = r.read /\ q.core = r.core
        /\ q.force_rewind = r.force_rewind /\ q.polling = r.polling
    BY <2>4, <2>8 DEF Netplays
  <2>10. DOMAIN q.ring = 1..BufferSize(i)
    BY <2>6, <2>9
  <2>11. \A l \in 1..BufferSize(i) :
           /\ q.ring[l].frame = r.ring[l].frame /\ q.ring[l].have_local = r.ring[l].have_local
           /\ q.ring[l].have_real = r.ring[l].have_real /\ q.ring[l].real = r.ring[l].real
           /\ l # k => q.ring[l].state = r.ring[l].state
    <3>1. ASSUME NEW l \in 1..BufferSize(i)
          PROVE  /\ q.ring[l].frame = r.ring[l].frame
                 /\ q.ring[l].have_local = r.ring[l].have_local
                 /\ q.ring[l].have_real = r.ring[l].have_real /\ q.ring[l].real = r.ring[l].real
                 /\ l # k => q.ring[l].state = r.ring[l].state
      <4>1. r.ring[l] \in Deltas
        BY <2>6
      <4>2. /\ l # k => q.ring[l] = r.ring[l]
            /\ l = k => q.ring[l] = [r.ring[l] EXCEPT !.state = p.core]
        BY <2>6, <2>9
      <4> QED BY <4>1, <4>2 DEF Deltas
    <3> QED BY <3>1
  <2>12. \A f \in Int : /\ At(i, q, f).frame = At(i, r, f).frame
                        /\ At(i, q, f).have_local = At(i, r, f).have_local
                        /\ At(i, q, f).have_real = At(i, r, f).have_real
                        /\ Place(i, f) # k => At(i, q, f).state = At(i, r, f).state
    BY <2>11, PlaceIs DEF At
  <2>13. \A f \in Int : Has(i, r, f) => Has(i, q, f)
    BY <2>12 DEF Has
  <2>14. w.made[i] \subseteq Int /\ Frames \subseteq Int /\ r.self \in Int
    BY <1>1, <2>7, GameTypes, PeerTypes, FramesInt
  <2>15. Heard(w, q)
    BY <2>4, <2>6, <2>10, <2>11 DEF Knows, Heard
  <2>16. Takes(w, i, q)
    BY <2>4, <2>9, <2>12, <2>13, <2>14 DEF Knows, Takes
  <2>17. Reads(w, i, q)
    BY <2>4, <2>9, <2>12, <2>13, <2>14 DEF Knows, Reads
  <2>18. Saves(i, q)
    BY <2>7, <2>9 DEF Saves
  <2>19. Certain(i, q) = Certain(i, r)
    <3>1. CASE p.other < n
      <4>1. Counted(i, r) /\ Held(i, r)
        BY <2>4 DEF PeerInv
      <4>2. At(i, r, r.other).frame = r.other
        BY <2>3, <2>4, <2>7, <3>1, <4>1, RunIsHeld
      <4>3. Place(i, p.other) # k
        BY <2>3, <2>4, <2>5, <2>7, <3>1, <4>2 DEF Has, At
      <4>4. At(i, q, p.other).state = At(i, r, p.other).state
        BY <2>3, <2>12, <4>3
      <4> QED BY <2>7, <2>9, <3>1, <4>4 DEF Certain
    <3>2. CASE ~(p.other < n)
      BY <2>7, <2>9, <3>2 DEF Certain
    <3> QED BY <3>1, <3>2
  <2> QED BY <2>4, <2>15, <2>16, <2>17, <2>18, <2>19 DEF Knows
<1> QED BY <1>2, <1>3

\* The game has one more input.
Adds(w, v, i, f, b) ==
  /\ v.joined = w.joined /\ v.from = w.from
  /\ \A c \in Peers : c # i => v.made[c] = w.made[c] /\ v.real[c] = w.real[c]
  /\ v.made[i] = w.made[i] \cup {f} /\ v.real[i][f] = b
  /\ \A g \in Frames : g # f => v.real[i][g] = w.real[i][g]

\* A game in which i has one more input.
LEMMA InputGame ==
  ASSUME NEW w \in Games, NEW i \in Peers, NEW f \in Frames, NEW b \in SUBSET Buttons
  PROVE  \E v \in Games : Adds(w, v, i, f, b)
<1>1. PICK v : v = [w EXCEPT !.made[i] = @ \cup {f}, !.real[i][f] = b]
  OBVIOUS
<1>2. w.made \in [Peers -> SUBSET Frames] /\ w.real \in [Peers -> [Frames -> SUBSET Buttons]]
  BY DEF Games
<1>3. /\ v.made = [w.made EXCEPT ![i] = @ \cup {f}] /\ v.real = [w.real EXCEPT ![i][f] = b]
      /\ v.joined = w.joined /\ v.from = w.from
  BY <1>1 DEF Games
<1>4. v \in Games
  <2>1. v.made \in [Peers -> SUBSET Frames]
    BY <1>2, <1>3
  <2>2. v.real \in [Peers -> [Frames -> SUBSET Buttons]]
    BY <1>2, <1>3
  <2>3. v = [made |-> v.made, real |-> v.real, joined |-> v.joined, from |-> v.from]
    BY <1>1 DEF Games
  <2> QED BY <1>3, <2>1, <2>2, <2>3 DEF Games
<1>5. w.real[i] \in [Frames -> SUBSET Buttons] /\ v.real[i] = [w.real[i] EXCEPT ![f] = b]
  BY <1>2, <1>3
<1>6. v.real[i][f] = b /\ \A g \in Frames : g # f => v.real[i][g] = w.real[i][g]
  BY <1>5
<1>7. \A c \in Peers : c # i => v.made[c] = w.made[c] /\ v.real[c] = w.real[c]
  BY <1>2, <1>3
<1>8. v.made[i] = w.made[i] \cup {f}
  BY <1>2, <1>3
<1>9. Adds(w, v, i, f, b)
  BY <1>3, <1>6, <1>7, <1>8 DEF Adds
<1> QED BY <1>4, <1>9

\* What comes into the ring is this input.
OnlyGains(i, p, q, f, v) ==
  \A k \in 1..BufferSize(i) : \A c \in q.ring[k].have_real :
    \/ /\ c \in p.ring[k].have_real /\ p.ring[k].frame = q.ring[k].frame
       /\ p.ring[k].real[c] = q.ring[k].real[c]
    \/ p.playing /\ c = i /\ q.ring[k].frame = f /\ q.ring[k].real[c] = v

\* The input of a frame is taken, if it has not been.
LEMMA TakeIs ==
  ASSUME NEW i \in Peers, NEW p \in Netplays(i), Ready(p, p.self), p.self < MaxFrame,
         NEW v \in SUBSET Buttons, NEW q, q = get_self_input_state(i, p, v)
  PROVE  /\ HaveLocal(p) => q = p
         /\ ~HaveLocal(p) =>
              /\ Has(i, q, p.self) /\ At(i, q, p.self).have_local
              /\ p.playing => i \in At(i, q, p.self).have_real
              /\ Keeping(i, p, q) /\ OnlyGains(i, p, q, p.self, v)
              /\ \A c \in Peers : q.read[c] = IF p.playing /\ c = i THEN p.self + 1 ELSE p.read[c]
              /\ q.asked = p.asked /\ q.loads = p.loads
<1>1. CASE HaveLocal(p)
  BY <1>1 DEF get_self_input_state
<1>2. CASE ~HaveLocal(p)
  <2>1. PICK f : f = p.self
    OBVIOUS
  <2>2. PICK r : r = netplay_delta_frame_ready(p, f)
    OBVIOUS
  <2>3. PICK k : k = Place(i, f)
    OBVIOUS
  <2>4. f \in Frames /\ f \in Int
    BY <2>1, PeerTypes, FramesInt
  <2>5. /\ r \in Netplays(i) /\ RingOnly(p, r) /\ Keeping(i, p, r) /\ Has(i, r, f)
        /\ \A l \in 1..BufferSize(i) :
             \/ r.ring[l] = p.ring[l]
             \/ l = Place(i, f) /\ r.ring[l].have_real = {} /\ ~r.ring[l].have_local
    <3>1. Ready(p, f)
      BY <2>1
    <3> QED BY <2>2, <2>4, <3>1, ReadyIs
  <2>6. k \in 1..BufferSize(i) /\ Ptr(r, f) = k /\ r.ring \in [1..BufferSize(i) -> Deltas]
    BY <2>3, <2>4, <2>5, PlaceIs, RingPlace
  <2>7. r.self = f /\ r.playing = p.playing /\ r.read = p.read /\ r.asked = p.asked
        /\ r.loads = p.loads /\ r.read \in [Peers -> Counts]
    BY <2>1, <2>5, PeerTypes DEF RingOnly
  <2>8. PICK d : d = IF p.playing THEN [Given(r.ring[k], i, v) EXCEPT !.have_local = TRUE]
                     ELSE [r.ring[k] EXCEPT !.have_local = TRUE]
    OBVIOUS
  <2>9. r.ring[k] \in Deltas /\ r.ring[k].frame = f
    BY <2>3, <2>5, <2>6 DEF Has, At
  <2>10. r.ring[k].real \in Boards /\ r.ring[k].have_real \subseteq Peers
    BY <2>9, DeltaTypes
  <2>11. /\ d.frame = f /\ d.have_local = TRUE
         /\ d.have_real = (IF p.playing THEN r.ring[k].have_real \cup {i} ELSE r.ring[k].have_real)
         /\ d.real = (IF p.playing THEN [r.ring[k].real EXCEPT ![i] = v] ELSE r.ring[k].real)
    BY <2>8, <2>9 DEF Given, Deltas
  <2>12. CASE p.playing
    <3>1. q = [r EXCEPT !.ring[k] = d, !.read[i] = f + 1]
      BY <1>2, <2>1, <2>2, <2>6, <2>7, <2>8, <2>12 DEF get_self_input_state
    <3>2. /\ q.ring = [r.ring EXCEPT ![k] = d] /\ q.read = [r.read EXCEPT ![i] = f + 1]
          /\ q.asked = r.asked /\ q.loads = r.loads
      BY <2>5, <3>1 DEF Netplays
    <3>3. q.ring[k] = d /\ \A l \in 1..BufferSize(i) : l # k => q.ring[l] = r.ring[l]
      BY <2>6, <3>2
    <3>4. \A c \in Peers : q.read[c] = IF p.playing /\ c = i THEN f + 1 ELSE p.read[c]
      BY <2>7, <2>12, <3>2
    <3>5. OnlyGains(i, p, q, f, v)
      <4>1. ASSUME NEW l \in 1..BufferSize(i), NEW c \in q.ring[l].have_real
            PROVE  \/ /\ c \in p.ring[l].have_real /\ p.ring[l].frame = q.ring[l].frame
                      /\ p.ring[l].real[c] = q.ring[l].real[c]
                   \/ p.playing /\ c = i /\ q.ring[l].frame = f /\ q.ring[l].real[c] = v
        <5>1. CASE l # k
          BY <2>3, <2>5, <3>3, <4>1, <5>1
        <5>2. CASE l = k /\ c = i
          <6>1. d.real[i] = v
            BY <2>10, <2>11, <2>12 DEF Boards
          <6> QED BY <2>11, <2>12, <3>3, <5>2, <6>1
        <5>3. CASE l = k /\ c # i
          <6>1. c \in r.ring[k].have_real
            BY <2>11, <2>12, <3>3, <4>1, <5>3
          <6>2. d.real[c] = r.ring[k].real[c]
            BY <2>10, <2>11, <2>12, <5>3, <6>1 DEF Boards
          <6>3. r.ring[k] = p.ring[k]
            BY <2>5, <2>6, <6>1
          <6> QED BY <2>9, <2>11, <3>3, <5>3, <6>1, <6>2, <6>3
        <5> QED BY <5>1, <5>2, <5>3
      <4> QED BY <4>1 DEF OnlyGains
    <3>6. Keeping(i, p, q)
      <4>1. ASSUME NEW g \in Int, p.other <= g, Has(i, p, g)
            PROVE  /\ Has(i, q, g)
                   /\ At(i, p, g).have_real \subseteq At(i, q, g).have_real
                   /\ At(i, p, g).have_local => At(i, q, g).have_local
        <5>1. /\ Has(i, r, g)
              /\ At(i, p, g).have_real \subseteq At(i, r, g).have_real
              /\ At(i, p, g).have_local => At(i, r, g).have_local
          BY <2>5, <4>1 DEF Keeping
        <5>2. Place(i, g) \in 1..BufferSize(i)
          BY PlaceIs
        <5> QED BY <2>9, <2>11, <3>3, <5>1, <5>2 DEF At, Has
      <4> QED BY <4>1 DEF Keeping
    <3>7. Has(i, q, f) /\ At(i, q, f).have_local /\ i \in At(i, q, f).have_real
      BY <2>3, <2>11, <2>12, <3>3 DEF Has, At
    <3> QED BY <1>2, <2>1, <2>7, <3>2, <3>4, <3>5, <3>6, <3>7
  <2>13. CASE ~p.playing
    <3>1. q = [r EXCEPT !.ring[k].have_local = TRUE]
      BY <1>2, <2>1, <2>2, <2>6, <2>7, <2>13 DEF get_self_input_state
    <3>2. /\ q.ring = [r.ring EXCEPT ![k].have_local = TRUE] /\ q.read = r.read
          /\ q.asked = r.asked /\ q.loads = r.loads
      BY <2>5, <3>1 DEF Netplays
    <3>3. q.ring[k] = d /\ \A l \in 1..BufferSize(i) : l # k => q.ring[l] = r.ring[l]
      BY <2>6, <2>8, <2>13, <3>2
    <3>4. \A c \in Peers : q.read[c] = IF p.playing /\ c = i THEN f + 1 ELSE p.read[c]
      BY <2>7, <2>13, <3>2
    <3>5. OnlyGains(i, p, q, f, v)
      <4>1. ASSUME NEW l \in 1..BufferSize(i), NEW c \in q.ring[l].have_real
            PROVE  /\ c \in p.ring[l].have_real /\ p.ring[l].frame = q.ring[l].frame
                   /\ p.ring[l].real[c] = q.ring[l].real[c]
        <5>1. CASE l # k
          BY <2>3, <2>5, <3>3, <4>1, <5>1
        <5>2. CASE l = k
          <6>1. c \in r.ring[k].have_real
            BY <2>11, <2>13, <3>3, <4>1, <5>2
          <6>2. r.ring[k] = p.ring[k]
            BY <2>5, <2>6, <6>1
          <6> QED BY <2>9, <2>11, <2>13, <3>3, <5>2, <6>1, <6>2
        <5> QED BY <5>1, <5>2
      <4> QED BY <4>1 DEF OnlyGains
    <3>6. Keeping(i, p, q)
      <4>1. ASSUME NEW g \in Int, p.other <= g, Has(i, p, g)
            PROVE  /\ Has(i, q, g)
                   /\ At(i, p, g).have_real \subseteq At(i, q, g).have_real
                   /\ At(i, p, g).have_local => At(i, q, g).have_local
        <5>1. /\ Has(i, r, g)
              /\ At(i, p, g).have_real \subseteq At(i, r, g).have_real
              /\ At(i, p, g).have_local => At(i, r, g).have_local
          BY <2>5, <4>1 DEF Keeping
        <5>2. Place(i, g) \in 1..BufferSize(i)
          BY PlaceIs
        <5> QED BY <2>9, <2>11, <3>3, <5>1, <5>2 DEF At, Has
      <4> QED BY <4>1 DEF Keeping
    <3>7. Has(i, q, f) /\ At(i, q, f).have_local
      BY <2>3, <2>11, <3>3 DEF Has, At
    <3> QED BY <1>2, <2>1, <2>7, <2>13, <3>2, <3>4, <3>5, <3>6, <3>7
  <2> QED BY <2>12, <2>13
<1> QED BY <1>1, <1>2

\* The frame may begin: it has a place, and the state has been saved.
Opens(i, p) ==
  /\ PeerInv(i, p) /\ ~p.polling /\ p.connected /\ p.self < MaxFrame /\ Ready(p, p.self)
  /\ Ready(p, p.run) => At(i, p, p.run).state = p.core

\* It begins.
Begins(i, p, b, q) == q = [get_self_input_state(i, p, b) EXCEPT !.polling = TRUE]

\* Its input is in the ring then, and the rest is what it was.
Beginning(i, p, b, q) ==
  /\ PeerInv(i, q) /\ q \in Netplays(i) /\ q.polling
  /\ q.playing = p.playing /\ q.players = p.players /\ q.self = p.self /\ q.run = p.run
  /\ q.other = p.other /\ q.server = p.server /\ q.force_rewind = p.force_rewind
  /\ q.core = p.core /\ q.connected = p.connected /\ q.asked = p.asked
  /\ q.loads = p.loads
  /\ Keeps(i, p, q) /\ Keeping(i, p, q)
  /\ At(i, q, p.self).state = At(i, p, p.self).state
  /\ HaveLocal(p) => q.ring = p.ring
  /\ ~HaveLocal(p) =>
       /\ Has(i, q, p.self) /\ At(i, q, p.self).have_local
       /\ p.playing => i \in At(i, q, p.self).have_real
       /\ OnlyGains(i, p, q, p.self, b)
  /\ \A c \in Peers :
       q.read[c] = IF ~HaveLocal(p) /\ p.playing /\ c = i THEN p.self + 1 ELSE p.read[c]

\* That is what it does.
LEMMA BeginsIs ==
  ASSUME NEW i \in Peers, NEW p, Opens(i, p), NEW b \in SUBSET Buttons, NEW q, Begins(i, p, b, q)
  PROVE  Beginning(i, p, b, q)
<1>1. PeerInv(i, p) /\ p \in Netplays(i) /\ Ready(p, p.self) /\ p.self < MaxFrame
  BY DEF Opens, PeerInv
<1>2. PICK r : r = get_self_input_state(i, p, b)
  OBVIOUS
<1>3. Took(i, p, r)
  BY <1>1, <1>2, TakesInput
<1>4. q = [r EXCEPT !.polling = TRUE] /\ r \in Netplays(i)
  BY <1>2, <1>3 DEF Begins, Took
<1>5. PeerInv(i, q)
  BY <1>2, <1>4, FrameBegun DEF Opens
<1>6. /\ q.polling /\ q.ring = r.ring /\ q.read = r.read /\ q.playing = r.playing
      /\ q.players = r.players /\ q.self = r.self /\ q.run = r.run /\ q.other = r.other
      /\ q.server = r.server /\ q.force_rewind = r.force_rewind /\ q.core = r.core
      /\ q.connected = r.connected /\ q.asked = r.asked /\ q.loads = r.loads
  BY <1>4 DEF Netplays
<1>7. /\ r.playing = p.playing /\ r.players = p.players /\ r.self = p.self /\ r.run = p.run
      /\ r.other = p.other /\ r.server = p.server /\ r.force_rewind = p.force_rewind
      /\ r.core = p.core /\ r.connected = p.connected /\ Keeps(i, p, r)
      /\ At(i, r, p.self).state = At(i, p, p.self).state
  BY <1>3 DEF Took
<1>8. Keeps(i, p, q) /\ At(i, q, p.self).state = At(i, p, p.self).state
  BY <1>6, <1>7 DEF Keeps, At
<1>9. CASE HaveLocal(p)
  <2>1. r = p
    BY <1>1, <1>2, <1>9, TakeIs
  <2>2. q.ring = p.ring /\ q.read = p.read /\ q.asked = p.asked /\ q.loads = p.loads
    BY <1>6, <2>1
  <2>3. Keeping(i, p, q)
    BY <2>2 DEF Keeping, Has, At
  <2> QED BY <1>4, <1>5, <1>6, <1>7, <1>8, <1>9, <2>2, <2>3 DEF PeerInv, Beginning
<1>10. CASE ~HaveLocal(p)
  <2>1. /\ Has(i, r, p.self) /\ At(i, r, p.self).have_local
        /\ p.playing => i \in At(i, r, p.self).have_real
        /\ Keeping(i, p, r) /\ OnlyGains(i, p, r, p.self, b)
        /\ \A c \in Peers : r.read[c] = IF p.playing /\ c = i THEN p.self + 1 ELSE p.read[c]
        /\ r.asked = p.asked /\ r.loads = p.loads
    BY <1>1, <1>2, <1>10, TakeIs
  <2>2. /\ Has(i, q, p.self) /\ At(i, q, p.self).have_local
        /\ p.playing => i \in At(i, q, p.self).have_real
    BY <1>6, <2>1 DEF Has, At
  <2>3. Keeping(i, p, q)
    BY <1>6, <2>1 DEF Keeping, Has, At
  <2>4. OnlyGains(i, p, q, p.self, b)
    BY <1>6, <2>1 DEF OnlyGains
  <2>5. /\ q.asked = p.asked /\ q.loads = p.loads
        /\ \A c \in Peers :
             q.read[c] = IF ~HaveLocal(p) /\ p.playing /\ c = i THEN p.self + 1 ELSE p.read[c]
    BY <1>6, <1>10, <2>1
  <2> QED BY <1>4, <1>5, <1>6, <1>7, <1>8, <1>10, <2>2, <2>3, <2>4, <2>5 DEF PeerInv, Beginning
<1> QED BY <1>9, <1>10

\* A player that has not taken the input of its frame has not made any for it.
LEMMA NotTaken ==
  ASSUME NEW w \in Games, NEW i \in Peers, NEW p, Opens(i, p), Knows(w, i, p), ~HaveLocal(p)
  PROVE  /\ p.self \notin w.made[i]
         /\ p.playing => i \in p.players /\ w.joined[i] <= p.self
         /\ p.other <= p.run /\ p.run <= p.self /\ ~p.force_rewind
<1>1. /\ PeerInv(i, p) /\ p \in Netplays(i) /\ Counted(i, p) /\ ~p.polling /\ p.connected
  BY DEF Opens, PeerInv
<1>2. p.self \in Frames /\ p.run \in Frames /\ p.other \in Frames
  BY <1>1, PeerTypes
<1>3. p.other <= p.run /\ p.run <= p.self /\ ~p.force_rewind
  BY <1>1 DEF Counted
<1>0. p.self \in Nat /\ p.run \in Nat /\ p.other \in Nat
  BY <1>2, FramesNat
<1>4. p.other <= p.self
  BY <1>0, <1>3
<1>5. p.self \in Int
  BY <1>2, FramesInt
<1>6. Delta(p, p.self) = At(i, p, p.self)
  BY <1>1, <1>5, RingPlace
<1>7. ~(Has(i, p, p.self) /\ At(i, p, p.self).have_local)
  BY <1>6 DEF HaveLocal, Has
<1>8. Takes(w, i, p)
  BY DEF Knows
<1>9. p.self \notin w.made[i]
  BY <1>4, <1>7, <1>8 DEF Takes
<1>10. w.joined[i] \in Nat /\ p.self \in Nat
  BY <1>2, GameTypes, FramesNat
<1>11. ASSUME p.playing PROVE i \in p.players /\ w.joined[i] <= p.self
  <2>1. i \in p.players
    BY <1>8, <1>11 DEF Takes
  <2>2. ~(p.self < w.joined[i])
    <3>1. \A g \in Frames : p.self <= g /\ g < w.joined[i] /\ p.other <= g =>
            Has(i, p, g) /\ At(i, p, g).have_local
      BY <1>8, <2>1 DEF Takes
    <3> QED BY <1>2, <1>4, <1>7, <1>10, <3>1
  <2> QED BY <1>10, <2>1, <2>2
<1> QED BY <1>3, <1>9, <1>11

\* The game after a frame has begun.
Gets(w, v, i, p, b) ==
  IF ~HaveLocal(p) /\ p.playing THEN Adds(w, v, i, p.self, b) ELSE v = w

\* It has what it had.
LEMMA GetsGrows ==
  ASSUME NEW w \in Games, NEW v \in Games, NEW i \in Peers, NEW p, Opens(i, p), Knows(w, i, p),
         NEW b, Gets(w, v, i, p, b)
  PROVE  /\ Grows(w, v) /\ v.joined = w.joined /\ v.from = w.from
         /\ \A c \in Peers : c # i => v.made[c] = w.made[c]
         /\ ~(~HaveLocal(p) /\ p.playing) => v = w
         /\ ~HaveLocal(p) /\ p.playing => /\ v.made[i] = w.made[i] \cup {p.self}
                                          /\ v.real[i][p.self] = b
<1>1. CASE ~HaveLocal(p) /\ p.playing
  <2>1. Adds(w, v, i, p.self, b)
    BY <1>1 DEF Gets
  <2>2. p.self \notin w.made[i]
    BY <1>1, NotTaken
  <2>3. w.made[i] \subseteq Frames
    BY GameTypes
  <2>4. \A g \in w.made[i] : v.real[i][g] = w.real[i][g]
    BY <2>1, <2>2, <2>3 DEF Adds
  <2>5. Grows(w, v)
    BY <2>1, <2>4 DEF Grows, Adds
  <2> QED BY <1>1, <2>1, <2>5 DEF Adds
<1>2. CASE ~(~HaveLocal(p) /\ p.playing)
  <2>1. v = w
    BY <1>2 DEF Gets
  <2> QED BY <1>2, <2>1 DEF Grows
<1> QED BY <1>1, <1>2

\* What has come into the ring is this input.
LEMMA BeginsGains ==
  ASSUME NEW w \in Games, NEW v \in Games, NEW i \in Peers, NEW p, Opens(i, p), Knows(w, i, p),
         NEW b \in SUBSET Buttons, NEW q, Begins(i, p, b, q), Gets(w, v, i, p, b)
  PROVE  Heard(v, q)
<1>1. Grows(w, v) /\ (~HaveLocal(p) /\ p.playing => p.self \in v.made[i] /\ v.real[i][p.self] = b)
  BY GetsGrows
<1>4. Beginning(i, p, b, q)
  BY BeginsIs
<1>2. p \in Netplays(i) /\ q \in Netplays(i) /\ Heard(w, p)
  BY <1>4 DEF Opens, PeerInv, Knows, Beginning
<1>3. Gains(v, i, p, q)
  <2>1. CASE HaveLocal(p)
    <3>1. q.ring = p.ring
      BY <1>4, <2>1 DEF Beginning
    <3> QED BY <3>1 DEF Gains
  <2>2. CASE ~HaveLocal(p)
    <3>1. OnlyGains(i, p, q, p.self, b)
      BY <1>4, <2>2 DEF Beginning
    <3> QED BY <1>1, <2>2, <3>1 DEF Gains, OnlyGains
  <2> QED BY <2>1, <2>2
<1> QED BY <1>1, <1>2, <1>3, HeardStays

\* The input that was taken is there.
LEMMA BeginsTakes ==
  ASSUME NEW w \in Games, NEW v \in Games, NEW i \in Peers, NEW p, Opens(i, p), Knows(w, i, p),
         NEW b \in SUBSET Buttons, NEW q, Begins(i, p, b, q), Gets(w, v, i, p, b)
  PROVE  Takes(v, i, q)
<1>0. Beginning(i, p, b, q)
  BY BeginsIs
<1>1. /\ p \in Netplays(i) /\ q \in Netplays(i) /\ Takes(w, i, p) /\ Keeping(i, p, q)
      /\ q.playing = p.playing /\ q.players = p.players /\ q.self = p.self /\ q.other = p.other
  BY <1>0 DEF Opens, PeerInv, Knows, Beginning
<1>2. CASE ~(~HaveLocal(p) /\ p.playing)
  <2>1. v = w
    BY <1>2, GetsGrows
  <2>2. p.self \in Nat /\ p.other \in Nat
    BY <1>1, PeerTypes, FramesNat
  <2> QED BY <1>1, <2>1, <2>2, TakesStays
<1>3. CASE ~HaveLocal(p) /\ p.playing
  <2>1. /\ v.joined = w.joined /\ v.made[i] = w.made[i] \cup {p.self}
    BY <1>3, GetsGrows
  <2>2. /\ Has(i, q, p.self) /\ At(i, q, p.self).have_local /\ i \in At(i, q, p.self).have_real
    BY <1>0, <1>3 DEF Beginning
  <2>3. i \in p.players /\ w.joined[i] <= p.self
    BY <1>3, NotTaken
  <2>4. p.self \in Nat /\ w.made[i] \subseteq Int /\ Frames \subseteq Int
    BY <1>1, PeerTypes, FramesNat, FramesInt, GameTypes
  <2>5. \A g \in v.made[i] : v.joined[i] <= g /\ g <= p.self
    <3>1. \A g \in w.made[i] : w.joined[i] <= g /\ g <= p.self
      BY <1>1 DEF Takes
    <3> QED BY <2>1, <2>3, <2>4, <3>1
  <2>6. \A g \in v.made[i] : p.other <= g => Has(i, q, g) /\ i \in At(i, q, g).have_real
    <3>1. \A g \in w.made[i] : p.other <= g => Has(i, p, g) /\ i \in At(i, p, g).have_real
      BY <1>1 DEF Takes
    <3>2. \A g \in w.made[i] : p.other <= g => Has(i, q, g) /\ i \in At(i, q, g).have_real
      BY <1>1, <2>4, <3>1 DEF Keeping
    <3> QED BY <2>1, <2>2, <3>2
  <2>7. \A g \in Frames : p.self <= g /\ g < v.joined[i] /\ p.other <= g =>
          Has(i, q, g) /\ At(i, q, g).have_local
    <3>1. \A g \in Frames : p.self <= g /\ g < w.joined[i] /\ p.other <= g =>
            Has(i, p, g) /\ At(i, p, g).have_local
      BY <1>1, <2>3 DEF Takes
    <3> QED BY <1>1, <2>1, <2>4, <3>1 DEF Keeping
  <2>8. p.playing <=> i \in p.players
    BY <1>1 DEF Takes
  <2> QED BY <1>1, <2>2, <2>3, <2>5, <2>6, <2>7, <2>8 DEF Takes
<1> QED BY <1>2, <1>3

\* The input that has been read is there, and so is the state to go back to.
LEMMA BeginsSaves ==
  ASSUME NEW w \in Games, NEW i \in Peers, NEW p, Opens(i, p), Knows(w, i, p),
         w.joined[Server] = 0, NEW b \in SUBSET Buttons, NEW q, Begins(i, p, b, q)
  PROVE  Saves(i, q) /\ Certain(i, q) = Certain(i, p)
<1>1. /\ PeerInv(i, p) /\ p \in Netplays(i) /\ Counted(i, p) /\ Held(i, p) /\ ~p.polling
      /\ p.connected /\ Reads(w, i, p)
  BY DEF Opens, PeerInv, Knows
<1>2. /\ PeerInv(i, q) /\ q \in Netplays(i) /\ q.polling /\ q.players = p.players
      /\ q.self = p.self /\ q.run = p.run /\ q.other = p.other /\ q.server = p.server
      /\ q.force_rewind = p.force_rewind /\ q.core = p.core /\ Keeps(i, p, q)
      /\ At(i, q, p.self).state = At(i, p, p.self).state
      /\ Keeping(i, p, q)
      /\ \A c \in Peers :
           q.read[c] = IF ~HaveLocal(p) /\ p.playing /\ c = i THEN p.self + 1 ELSE p.read[c]
  <2>1. Beginning(i, p, b, q)
    BY BeginsIs
  <2> QED BY <2>1 DEF Beginning
<1>3. /\ p.other <= p.run /\ p.run <= p.self /\ ~p.force_rewind
  BY <1>1 DEF Counted
<1>4. p.self \in Nat /\ p.run \in Nat /\ p.other \in Nat /\ p.run \in Frames
      /\ p.read \in [Peers -> Counts] /\ q.read \in [Peers -> Counts] /\ p.players \subseteq Peers
  BY <1>1, <1>2, PeerTypes, FramesNat
<1>5. Server \in p.players
  BY <1>1 DEF Counted
\* A frame whose input there is from every player is there.
<1>6. ASSUME NEW s \in Netplays(i), Passed(i, s), s.run = p.run, s.players = p.players,
             s.read[Server] = p.read[Server]
      PROVE  Has(i, p, p.run)
  <2>1. i # Server /\ p.run < p.read[Server]
    BY <1>5, <1>6 DEF Passed
  <2>2. \A g \in Frames : p.other <= g /\ w.joined[Server] <= g /\ g < p.read[Server] => Has(i, p, g)
    BY <1>1, <1>5, <2>1 DEF Reads
  <2> QED BY <1>3, <1>4, <2>1, <2>2
<1>7. i # Server => q.read[Server] = p.read[Server]
  BY <1>2, ClientsArePeers
<1>8. Has(i, q, p.run)
  <2>1. Reached(q, p.run)
    BY <1>2, <1>3, <1>4 DEF Reached
  <2>2. At(i, q, p.run).frame = p.run \/ Passed(i, q)
    <3>1. Held(i, q)
      BY <1>2 DEF PeerInv
    <3> QED BY <1>2, <1>3, <1>4, <2>1, <3>1 DEF Held
  <2>3. ASSUME Passed(i, q) PROVE Has(i, q, p.run)
    <3>1. Has(i, p, p.run)
      BY <1>2, <1>6, <1>7, <2>3 DEF Passed
    <3> QED BY <1>2, <1>3, <1>4, <3>1 DEF Keeping
  <2> QED BY <2>2, <2>3 DEF Has
<1>9. At(i, q, p.run).state = p.core
  <2>1. CASE p.run = p.self
    BY <1>2, <2>1 DEF Opens
  <2>2. CASE p.run # p.self
    <3>1. Reached(p, p.run)
      BY <1>3, <1>4, <2>2 DEF Reached
    <3>2. At(i, p, p.run).frame = p.run \/ Passed(i, p)
      BY <1>1, <1>3, <1>4, <3>1 DEF Held
    <3>3. Has(i, p, p.run)
      BY <1>1, <1>6, <3>2 DEF Has
    <3>4. Ready(p, p.run)
      BY <1>1, <1>4, <3>3, RingPlace DEF Ready, Has
    <3>5. At(i, p, p.run).state = p.core
      BY <3>4 DEF Opens
    <3> QED BY <1>2, <1>3, <1>4, <3>3, <3>5 DEF Keeps, Has
  <2> QED BY <2>1, <2>2
<1>10. Saves(i, q)
  BY <1>2, <1>3, <1>8, <1>9 DEF Saves
<1>11. Certain(i, q) = Certain(i, p)
  <2>1. CASE p.other < p.run
    <3>1. At(i, p, p.other).frame = p.other
      BY <1>1, <1>3, <1>4, <2>1, RunIsHeld
    <3>2. At(i, q, p.other).state = At(i, p, p.other).state
      BY <1>2, <1>4, <3>1 DEF Keeps
    <3> QED BY <1>2, <2>1, <3>2 DEF Certain
  <2>2. CASE ~(p.other < p.run)
    BY <1>2, <1>3, <2>2 DEF Certain
  <2> QED BY <2>1, <2>2
<1> QED BY <1>10, <1>11

\* What a peer that has begun a frame has is of the game.
LEMMA BeginsKnows ==
  ASSUME NEW w \in Games, NEW v \in Games, NEW i \in Peers, NEW p, Opens(i, p), Knows(w, i, p),
         w.joined[Server] = 0, NEW b \in SUBSET Buttons, NEW q, Begins(i, p, b, q),
         Gets(w, v, i, p, b)
  PROVE  Knows(v, i, q) /\ Certain(i, q) = Certain(i, p)
<1>1. /\ Heard(v, q) /\ Takes(v, i, q) /\ Saves(i, q) /\ Certain(i, q) = Certain(i, p)
  BY BeginsGains, BeginsTakes, BeginsSaves
<1>2. Reads(v, i, q)
  <2>1. /\ p \in Netplays(i) /\ q \in Netplays(i) /\ Reads(w, i, p) /\ Keeping(i, p, q)
        /\ q.players = p.players /\ q.other = p.other
        /\ \A c \in Peers :
             q.read[c] = IF ~HaveLocal(p) /\ p.playing /\ c = i THEN p.self + 1 ELSE p.read[c]
    <3>1. Beginning(i, p, b, q)
      BY BeginsIs
    <3> QED BY <3>1 DEF Opens, PeerInv, Knows, Beginning
  <2>2. p.other \in Nat /\ p.read \in [Peers -> Counts] /\ p.players \subseteq Peers
    BY <2>1, PeerTypes, FramesNat
  <2>3. v.joined = w.joined
    BY GetsGrows
  <2>4. ASSUME NEW c \in q.players \ {i} PROVE ReadsOf(w, v, i, p, q, c)
    <3>1. c \in Peers /\ c # i /\ c \in p.players
      BY <2>1, <2>2, <2>4
    <3>2. q.read[c] = p.read[c] /\ p.read[c] \in Int
      BY <2>1, <2>2, <3>1, FramesInt
    <3>3. \A g \in Frames : ~(p.read[c] <= g /\ g < q.read[c])
      <4>1. \A g \in Nat : ~(p.read[c] <= g /\ g < q.read[c])
        BY <3>2
      <4> QED BY <4>1, FramesNat
    <3> QED BY <2>3, <3>1, <3>2, <3>3 DEF ReadsOf
  <2> QED BY <2>1, <2>2, <2>4, ReadsStays
<1> QED BY <1>1, <1>2 DEF Knows

\* m is an input of the game.
Input(v, m) ==
  /\ m.type = "input" /\ m.client \in Peers /\ m.frame \in v.made[m.client]
  /\ m.input = v.real[m.client][m.frame]

\* What netplay_send_cur_input sends are inputs of the game, of a client its own.
LEMMA CurInputTrue ==
  ASSUME NEW i \in Peers, NEW q \in Netplays(i), NEW v, Heard(v, q), Has(i, q, q.self),
         q.playing => i \in At(i, q, q.self).have_real,
         NEW to, NEW k \in DOMAIN CurInput(q, i, to), NEW m, m = CurInput(q, i, to)[k]
  PROVE  Input(v, m) /\ m.frame = q.self /\ (i # Server => m.client = i)
<1>1. PICK d : d = Delta(q, q.self)
  OBVIOUS
<1>2. PICK others : others = IF i = Server THEN (d.have_real \cap q.players) \ {Server, to} ELSE {}
  OBVIOUS
<1>3. q.self \in Frames /\ q.players \in SUBSET Peers /\ q.self \in Int
  BY PeerTypes, FramesInt
<1>4. d \in Deltas /\ d = At(i, q, q.self) /\ d.frame = q.self
  BY <1>1, <1>3, RingPlace DEF Has
<1>5. d.have_real \in SUBSET Peers
  BY <1>4, DeltaTypes
<1>6. others \in SUBSET d.have_real /\ others \in SUBSET Nat /\ IsFiniteSet(others)
      /\ (i # Server => others = {})
  <2>1. others \in SUBSET d.have_real /\ (i # Server => others = {})
    BY <1>2
  <2>2. QED
    BY <1>5, <2>1, PeersFinite, FS_Subset
<1>7. \A c \in d.have_real : q.self \in v.made[c] /\ d.real[c] = v.real[c][q.self]
  <2>1. \E l \in DOMAIN q.ring : d = q.ring[l]
    BY <1>3, <1>4, PlaceIs, RingPlace DEF At
  <2> QED BY <1>4, <2>1 DEF Heard
<1>8. ASSUME NEW c \in d.have_real, NEW n, n = InputMsg(q.self, c, d.real[c])
      PROVE  Input(v, n) /\ n.frame = q.self /\ n.client = c
  <2>1. n.type = "input" /\ n.frame = q.self /\ n.client = c /\ n.input = d.real[c]
    BY <1>8 DEF InputMsg
  <2> QED BY <1>5, <1>7, <2>1 DEF Input
<1>9. Cardinality(others) \in Nat /\ (i # Server => Cardinality(others) = 0)
  BY <1>6, FS_CardinalityType, FS_EmptySet
<1> DEFINE ranked(n) == CHOOSE c \in others : Cardinality({ b \in others : b <= c }) = n
           first == [n \in 1..Cardinality(others) |-> InputMsg(q.self, ranked(n), d.real[ranked(n)])]
           own == IF q.playing THEN <<InputMsg(q.self, i, d.real[i])>> ELSE <<>>
<1>10. ASSUME NEW n \in 1..Cardinality(others)
       PROVE  ranked(n) \in others
  <2>1. \E c \in others : Cardinality({ b \in others : b <= c }) = n
    BY <1>6, Ranked
  <2>2. QED
    BY <2>1
<1>11. CurInput(q, i, to) = first \o own
  BY <1>1, <1>2 DEF CurInput
<1> HIDE DEF ranked
<1>12. ASSUME NEW n \in DOMAIN first
       PROVE  i = Server /\ \E c \in d.have_real : first[n] = InputMsg(q.self, c, d.real[c])
  <2>1. n \in 1..Cardinality(others)
    BY <1>12
  <2>2. first[n] = InputMsg(q.self, ranked(n), d.real[ranked(n)])
    BY <2>1
  <2>3. ranked(n) \in d.have_real
    BY <1>6, <1>10, <2>1
  <2>4. i = Server
    BY <1>9, <2>1
  <2> QED BY <2>2, <2>3, <2>4
<1>13. ASSUME NEW n \in DOMAIN own
       PROVE  i \in d.have_real /\ own[n] = InputMsg(q.self, i, d.real[i])
  <2>1. PICK a : a = InputMsg(q.self, i, d.real[i])
    OBVIOUS
  <2>2. own = IF q.playing THEN <<a>> ELSE <<>>
    BY <2>1
  <2>3. DOMAIN <<>> = {} /\ DOMAIN <<a>> = {1} /\ <<a>>[1] = a
    OBVIOUS
  <2> HIDE DEF own
  <2>4. q.playing
    BY <1>13, <2>2, <2>3
  <2>5. own[n] = a
    BY <1>13, <2>2, <2>3, <2>4
  <2> QED BY <1>4, <2>1, <2>4, <2>5
<1>14. first \in Seq(Range(first) \cup Range(own)) /\ own \in Seq(Range(first) \cup Range(own))
  <2>1. DOMAIN first = 1..Cardinality(others)
    OBVIOUS
  <2>2. \E n \in Nat : DOMAIN own = 1..n
    <3>1. PICK a : a = InputMsg(q.self, i, d.real[i])
      OBVIOUS
    <3>2. own = IF q.playing THEN <<a>> ELSE <<>>
      BY <3>1
    <3>3. DOMAIN <<>> = 1..0 /\ DOMAIN <<a>> = 1..1
      OBVIOUS
    <3> HIDE DEF own
    <3> QED BY <3>2, <3>3
  <2>3. first = [n \in DOMAIN first |-> first[n]]
    OBVIOUS
  <2>4. own = [n \in DOMAIN own |-> own[n]]
    <3>1. PICK a : a = InputMsg(q.self, i, d.real[i])
      OBVIOUS
    <3>2. own = IF q.playing THEN <<a>> ELSE <<>>
      BY <3>1
    <3>3. <<>> = [n \in DOMAIN <<>> |-> <<>>[n]] /\ <<a>> = [n \in DOMAIN <<a>> |-> <<a>>[n]]
      OBVIOUS
    <3> HIDE DEF own
    <3> QED BY <3>2, <3>3
  <2> HIDE DEF first, own
  <2> QED BY <1>9, <2>1, <2>2, <2>3, <2>4 DEF Range
<1> HIDE DEF first, own
<1>15. \/ k \in DOMAIN first /\ m = first[k]
       \/ \E l \in DOMAIN own : m = own[l]
  BY <1>11, <1>14, InConcat
<1>16. \E c \in d.have_real : (i # Server => c = i) /\ m = InputMsg(q.self, c, d.real[c])
  BY <1>12, <1>13, <1>15
<1> QED BY <1>8, <1>16

\* A game in which the input of a frame has been taken.
LEMMA GetsGame ==
  ASSUME NEW w \in Games, NEW i \in Peers, NEW p, p.self \in Frames, NEW b \in SUBSET Buttons
  PROVE  \E v \in Games : Gets(w, v, i, p, b)
<1>1. PICK f \in Frames : f = p.self
  OBVIOUS
<1>2. PICK v \in Games : Adds(w, v, i, f, b)
  BY InputGame
<1>3. Adds(w, v, i, p.self, b)
  BY <1>1, <1>2
<1> QED BY <1>3 DEF Gets

\* A peer that begins a frame takes the game on.
LEMMA BeginsMoves ==
  ASSUME NEW w \in Games, NEW v \in Games, NEW P, NEW Q, Sound(P), NEW i \in Peers,
         NEW ts, NEW tc, GameInv(w, P, ts, tc),
         \A j \in Peers : j # i => Q[j] = P[j],
         NEW p, p = P[i], NEW q, q = Q[i], Opens(i, p), NEW b \in SUBSET Buttons,
         Begins(i, p, b, q), Gets(w, v, i, p, b)
  PROVE  Moves(w, v, P, Q, i)
<1>1. /\ p \in Netplays(i) /\ PeerInv(i, p) /\ Knows(w, i, p) /\ w.joined[Server] = 0
  BY DEF Opens, PeerInv, GameInv, Knows
<1>2. /\ q.players = p.players /\ q.self = p.self /\ q.loads = p.loads
      /\ \A c \in Peers :
           q.read[c] = IF ~HaveLocal(p) /\ p.playing /\ c = i THEN p.self + 1 ELSE p.read[c]
  <2>1. Beginning(i, p, b, q)
    BY BeginsIs
  <2> QED BY <2>1 DEF Beginning
<1>3. p.self \in Nat /\ p.loads \in Nat
  <2>1. p.self \in Frames /\ p.loads \in 0..MaxLoads
    BY <1>1, PeerTypes
  <2>2. p.self \in Nat
    BY <2>1, FramesNat
  <2>3. p.loads \in Nat
    BY <2>1
  <2> QED BY <2>2, <2>3
<1>4. /\ Grows(w, v) /\ v.joined = w.joined /\ v.from = w.from
      /\ \A c \in Peers : c # i => v.made[c] = w.made[c]
  BY <1>1, GetsGrows
<1>5. ASSUME NEW g \in v.made[i] \ w.made[i], Settled(w, P, i, g)
      PROVE  FALSE
  <2>1. ~HaveLocal(p) /\ p.playing /\ g = p.self
    BY <1>1, <1>5, GetsGrows
  <2>2. p.self \notin w.made[i] /\ i \in p.players /\ w.joined[i] <= p.self
    BY <1>1, <2>1, NotTaken
  <2>3. i \in P[Server].players
    <3>1. CASE i = Server
      BY <2>2, <3>1
    <3>2. CASE i # Server
      <4>1. i \in Clients
        BY <3>2 DEF Peers
      <4>2. Follows(w, P, i, tc[i])
        BY <4>1 DEF GameInv
      <4> QED BY <2>2, <4>2 DEF Follows
    <3> QED BY <3>1, <3>2
  <2>4. w.joined[i] \in Nat
    BY GameTypes
  <2> QED BY <1>3, <1>5, <2>1, <2>2, <2>3, <2>4 DEF Settled
<1>6. P[Server].players = Q[Server].players /\ P[Server].loads = Q[Server].loads
  <2>1. Server \in Peers
    BY DEF Peers
  <2>2. CASE i = Server
    BY <1>2, <2>2
  <2>3. CASE i # Server
    BY <2>1, <2>3
  <2> QED BY <2>2, <2>3
<1>7. P[Server].read[Server] <= Q[Server].read[Server]
  <2>1. P[Server].read[Server] \in Nat
    BY ServerCounts
  <2>2. CASE i = Server
    <3>1. p.read[Server] <= p.self + 1
      BY <1>1, <2>2 DEF PeerInv, Serving
    <3>2. q.read[Server] = p.self + 1 \/ q.read[Server] = p.read[Server]
      BY <1>2, <2>2
    <3> QED BY <2>1, <2>2, <3>1, <3>2
  <2>3. CASE i # Server
    BY <2>1, <2>3, ClientsArePeers
  <2> QED BY <2>2, <2>3
<1>8. P[Server].loads \in Nat
  BY ServerCounts
<1> QED BY <1>1, <1>2, <1>3, <1>4, <1>5, <1>6, <1>7, <1>8 DEF Moves, Grows

\* What a peer sends that begins a frame: its own input, the server that of others as well.
SendsInput(i, p, q, x, y) ==
  \A c \in Clients :
    /\ \A k \in DOMAIN x[c] : c = i /\ ~HaveLocal(p) /\
         \E l \in DOMAIN CurInput(q, i, Server) : x[c][k] = CurInput(q, i, Server)[l]
    /\ \A k \in DOMAIN y[c] : i = Server /\ ~HaveLocal(p) /\
         \E l \in DOMAIN CurInput(q, i, c) : y[c][k] = CurInput(q, i, c)[l]

\* A peer that begins a frame goes on.
LEMMA BeginsAgrees ==
  ASSUME NEW w \in Games, NEW P, NEW Q, Sound(P), Sound(Q), NEW i \in Peers,
         NEW ts, NEW tc, GameInv(w, P, ts, tc), Mail(ts, tc),
         \A j \in Peers : j # i => Q[j] = P[j],
         NEW p, p = P[i], NEW q, q = Q[i], Opens(i, p), NEW b \in SUBSET Buttons,
         Begins(i, p, b, q),
         NEW x, NEW y, Mail(x, y), SendsInput(i, p, q, x, y),
         NEW us, NEW uc, Puts(ts, x, us), Puts(tc, y, uc)
  PROVE  \E v \in Games : Onward(w, v, P, Q, i) /\ GameInv(v, Q, us, uc)
<1>1. /\ p \in Netplays(i) /\ PeerInv(i, p) /\ Knows(w, i, p) /\ w.joined[Server] = 0
  BY DEF Opens, PeerInv, GameInv, Knows
<1>2. p.self \in Frames
  BY <1>1, PeerTypes
<1>3. PICK v \in Games : Gets(w, v, i, p, b)
  BY <1>2, GetsGame
<1>4. Moves(w, v, P, Q, i)
  BY <1>3, BeginsMoves
<1>5. Knows(v, i, q) /\ Certain(i, q) = Certain(i, p)
  BY <1>1, <1>3, BeginsKnows
<1>6. /\ q \in Netplays(i) /\ q.self = p.self /\ q.playing = p.playing /\ q.players = p.players
      /\ q.server = p.server /\ q.connected = p.connected /\ q.asked = p.asked
      /\ q.other = p.other
  <2>1. Beginning(i, p, b, q)
    BY BeginsIs
  <2> QED BY <2>1 DEF Beginning
<1>7. Agrees(v, Q, i)
  BY <1>4, <1>5, <1>6, AgreesStays
<1>8. ASSUME ~HaveLocal(p), NEW to, NEW k \in DOMAIN CurInput(q, i, to),
             NEW m, m = CurInput(q, i, to)[k]
      PROVE  Input(v, m) /\ m.frame = q.self /\ (i # Server => m.client = i)
  <2>1. /\ Has(i, q, p.self) /\ (p.playing => i \in At(i, q, p.self).have_real)
    <3>1. Beginning(i, p, b, q)
      BY BeginsIs
    <3> QED BY <1>8, <3>1 DEF Beginning
  <2>2. Heard(v, q)
    BY <1>5 DEF Knows
  <2> QED BY <1>6, <1>8, <2>1, <2>2, CurInputTrue
<1>9. Writes(v, P, Q, x)
  <2>1. ASSUME NEW c \in Clients, NEW k \in DOMAIN x[c]
        PROVE  /\ x[c][k].type = "input" /\ x[c][k].frame \in v.made[c]
               /\ x[c][k].input = v.real[c][x[c][k].frame]
    <3>1. c = i /\ ~HaveLocal(p)
          /\ \E l \in DOMAIN CurInput(q, i, Server) : x[c][k] = CurInput(q, i, Server)[l]
      BY DEF SendsInput
    <3>2. Input(v, x[c][k]) /\ x[c][k].client = c
      BY <1>8, <3>1, ClientsArePeers
    <3> QED BY <3>2 DEF Input
  <2> QED BY <2>1 DEF Writes
<1>10. Posts(v, Q, tc, y)
  <2>1. ASSUME NEW c \in Clients, NEW k \in DOMAIN y[c]
        PROVE  i = Server /\ ~HaveLocal(p) /\ Input(v, y[c][k]) /\ y[c][k].frame = p.self
    <3>1. i = Server /\ ~HaveLocal(p)
          /\ \E l \in DOMAIN CurInput(q, i, c) : y[c][k] = CurInput(q, i, c)[l]
      BY DEF SendsInput
    <3> QED BY <1>6, <1>8, <3>1
  <2>2. ASSUME i = Server, ~HaveLocal(p)
        PROVE  p.self < Q[Server].read[Server]
    <3>1. p.playing
      BY <1>1, <2>2 DEF PeerInv, Serving
    <3>2. q.read[Server] = p.self + 1
      <4>1. Beginning(i, p, b, q)
        BY BeginsIs
      <4>2. Server \in Peers
        BY DEF Peers
      <4> QED BY <2>2, <3>1, <4>1, <4>2 DEF Beginning
    <3>3. p.self \in Nat
      BY <1>2, FramesNat
    <3> QED BY <2>2, <3>2, <3>3
  <2>3. ASSUME NEW c \in Clients, NEW k \in DOMAIN y[c]
        PROVE  Tells(v, Q, c, y[c][k])
    BY <2>1, <2>2, <2>3 DEF Tells, Input
  <2>4. \A c \in Clients : \A m : \A l \in DOMAIN y[c] : InOrder(m, y[c][l])
    BY <2>1 DEF InOrder, Input
  <2> QED BY <2>3, <2>4 DEF Posts, ToClient
<1>11. GameInv(v, Q, us, uc)
  BY <1>4, <1>5, <1>6, <1>7, <1>9, <1>10, SendingAgrees
<1>12. Onward(w, v, P, Q, i)
  <2>1. p.other \in Nat
    BY <1>1, PeerTypes, FramesNat
  <2> QED BY <1>4, <1>5, <1>6, <2>1 DEF Onward
<1> QED BY <1>11, <1>12

\* Where a peer has started from is a number.
LEMMA CertainTypes ==
  ASSUME NEW i, NEW p \in Netplays(i)
  PROVE  Certain(i, p).load \in Int /\ p.other \in Int
<1>1. p.other \in Frames /\ p.core \in Cores
  BY PeerTypes
<1>2. p.other \in Int
  BY <1>1, FramesInt
<1>3. At(i, p, p.other).state \in Cores
  BY <1>2, RingPlace, DeltaTypes
<1>4. \A s \in Cores : s.load \in Int
  BY NetplayAssumption DEF Cores, Unsynced
<1> QED BY <1>1, <1>2, <1>3, <1>4 DEF Certain

\* Two steps, of which the first leaves the inputs and the players as they were, are one.
LEMMA OnwardTwice ==
  ASSUME NEW w, NEW v, NEW u, NEW P, NEW R, NEW Q, NEW i \in Peers, Sound(P), Sound(R), Sound(Q),
         Onward(w, v, P, R, i), v.made = w.made, v.joined = w.joined,
         R[i].self = P[i].self, R[Server].players = P[Server].players,
         Onward(v, u, R, Q, i)
  PROVE  Onward(w, u, P, Q, i)
<1>1. Moves(w, v, P, R, i) /\ Moves(v, u, R, Q, i)
  BY DEF Onward
<1>2. w \in Games /\ v \in Games /\ u \in Games
  BY <1>1 DEF Moves
<1>3. Server \in Peers
  BY ClientsArePeers
<1>4. \A j \in Peers : P[j] \in Netplays(j) /\ R[j] \in Netplays(j) /\ Q[j] \in Netplays(j)
  BY DEF Sound, PeerInv
<1>5. /\ P[Server].read[Server] \in Nat /\ R[Server].read[Server] \in Nat
      /\ Q[Server].read[Server] \in Nat
      /\ P[Server].loads \in Nat /\ R[Server].loads \in Nat /\ Q[Server].loads \in Nat
      /\ P[Server].players \subseteq Peers /\ Q[Server].players \subseteq Peers
  BY ServerCounts
<1>6. \A c \in Peers : u.joined[c] \in Nat
  BY <1>2, GameTypes
<1>7. \A g : Settled(w, P, i, g) => Settled(v, R, i, g)
  BY DEF Settled
<1>8. Moves(w, u, P, Q, i)
  <2>1. \A j \in Peers : j # i => Q[j] = P[j]
    BY <1>1 DEF Moves
  <2>2. P[i].self <= Q[i].self
    BY <1>1 DEF Moves
  <2>3. \A c \in Peers : /\ w.made[c] \subseteq u.made[c]
                         /\ c # i => u.made[c] = w.made[c]
                         /\ \A g \in w.made[c] : u.real[c][g] = w.real[c][g]
    BY <1>1 DEF Moves
  <2>4. \A g \in u.made[i] \ w.made[i] : Settled(w, P, i, g) => u.real[i][g] = Zero
    BY <1>1, <1>7 DEF Moves
  <2>5. /\ P[Server].players \subseteq Q[Server].players
        /\ \A c \in P[Server].players : u.joined[c] = w.joined[c]
    BY <1>1 DEF Moves
  <2>6. P[Server].read[Server] <= R[Server].read[Server]
        /\ R[Server].read[Server] <= Q[Server].read[Server]
        /\ P[Server].loads <= R[Server].loads /\ R[Server].loads <= Q[Server].loads
    BY <1>1 DEF Moves
  <2>7. \A c \in Q[Server].players \ P[Server].players : P[Server].read[Server] <= u.joined[c]
    <3>1. \A c \in Q[Server].players \ P[Server].players : R[Server].read[Server] <= u.joined[c]
      BY <1>1 DEF Moves
    <3> QED BY <1>5, <1>6, <2>6, <3>1
  <2>8. \A l \in 0..P[Server].loads : u.from[l] = w.from[l]
    <3>1. \A l \in 0..P[Server].loads : l \in 0..R[Server].loads
      BY <1>5, <2>6
    <3>2. /\ \A l \in 0..P[Server].loads : v.from[l] = w.from[l]
          /\ \A l \in 0..R[Server].loads : u.from[l] = v.from[l]
      BY <1>1 DEF Moves
    <3> QED BY <3>1, <3>2
  <2>9. u.joined[Server] = 0
    BY <1>1 DEF Moves
  <2>10. P[Server].loads <= Q[Server].loads /\ P[Server].read[Server] <= Q[Server].read[Server]
    BY <1>5, <2>6
  <2> QED BY <1>2, <2>1, <2>2, <2>3, <2>4, <2>5, <2>7, <2>8, <2>9, <2>10 DEF Moves
<1>9. PICK s : s = Certain(i, P[i])
  OBVIOUS
<1>10. PICK r : r = Certain(i, R[i])
  OBVIOUS
<1>11. PICK t : t = Certain(i, Q[i])
  OBVIOUS
<1>12. s.load \in Int /\ r.load \in Int /\ t.load \in Int
       /\ P[i].other \in Int /\ R[i].other \in Int /\ Q[i].other \in Int
  BY <1>4, <1>9, <1>10, <1>11, CertainTypes
<1>13. s.load < r.load \/ (s.load = r.load /\ (s.load = Unsynced \/ P[i].other <= R[i].other))
  BY <1>9, <1>10 DEF Onward
<1>14. r.load < t.load \/ (r.load = t.load /\ (r.load = Unsynced \/ R[i].other <= Q[i].other))
  BY <1>10, <1>11 DEF Onward
<1>15. s.load < t.load \/ (s.load = t.load /\ (s.load = Unsynced \/ P[i].other <= Q[i].other))
  BY <1>12, <1>13, <1>14
<1> QED BY <1>8, <1>9, <1>11, <1>15 DEF Onward

\* What is sent before the frame: the state, if it was asked for.
SendsBefore(o, p, tc, uc) ==
  IF SendsState(o) THEN SentTo(tc, Clients, SavestateMsg(p.run, p.core), uc) ELSE uc = tc

\* A peer that saves its state, and sends it if it was asked for, goes on.
LEMMA PreFrameAgrees ==
  ASSUME NEW w \in Games, NEW P, Sound(P), NEW i \in Peers,
         NEW ts, NEW tc, GameInv(w, P, ts, tc), Mail(ts, tc),
         ~P[i].polling, P[i].connected,
         NEW R, Sound(R), \A j \in Peers : j # i => R[j] = P[j],
         R[i] = netplay_sync_pre_frame(P[i]),
         NEW uc, SendsBefore(P[i], R[i], tc, uc)
  PROVE  \E v \in Games : /\ v.made = w.made /\ v.joined = w.joined
                          /\ Onward(w, v, P, R, i) /\ GameInv(v, R, ts, uc)
                          /\ R[i].self = P[i].self /\ R[Server].players = P[Server].players
<1>1. PICK p : p = P[i]
  OBVIOUS
<1>2. PICK r : r = R[i]
  OBVIOUS
<1>3. PICK s : s = Saved(p)
  OBVIOUS
<1>4. PeerInv(i, p) /\ p \in Netplays(i) /\ ~p.polling /\ p.connected
  BY <1>1 DEF Sound, PeerInv
<1>5. Knows(w, i, p) /\ w.joined[Server] = 0
  BY <1>1 DEF GameInv, Knows
<1>6. Knows(w, i, s) /\ Certain(i, s) = Certain(i, p)
  BY <1>3, <1>4, <1>5, SavedKnows
<1>7. PeerInv(i, s) /\ RingOnly(p, s)
  BY <1>3, <1>4, SavedStays
<1>8. CASE ~SendsState(p)
  <2>1. r = s
    BY <1>1, <1>2, <1>3, <1>8 DEF netplay_sync_pre_frame
  <2>2. /\ r.self = p.self /\ r.loads = p.loads /\ r.players = p.players /\ r.read = p.read
        /\ r.server = p.server /\ r.connected = p.connected /\ r.asked = p.asked
        /\ r.other = p.other
    BY <1>7, <2>1 DEF RingOnly
  <2>3. Moves(w, w, P, R, i)
    BY <1>1, <1>2, <1>5, <2>2, SameMoves
  <2>4. Knows(w, i, r) /\ Certain(i, r) = Certain(i, p)
    BY <1>6, <2>1
  <2>5. Agrees(w, R, i)
    BY <1>1, <1>2, <2>2, <2>3, <2>4, AgreesStays
  <2>6. PICK x : x = [c \in Clients |-> <<>>]
    OBVIOUS
  <2>7. Mail(x, x) /\ \A b \in Clients : x[b] = <<>> /\ DOMAIN x[b] = {}
    BY <2>6, NoMail
  <2>8. Puts(ts, x, ts) /\ Puts(tc, x, tc)
    <3>1. ASSUME NEW S, NEW a \in Seq(S)
          PROVE  a = a \o <<>>
      OBVIOUS
    <3>2. \A b \in Clients : ts[b] = ts[b] \o x[b] /\ tc[b] = tc[b] \o x[b]
      BY <2>7, <3>1 DEF Mail
    <3> QED BY <3>2 DEF Puts
  <2>9. Writes(w, P, R, x) /\ Posts(w, R, tc, x)
    BY <2>7 DEF Writes, Posts, ToClient
  <2>10. GameInv(w, R, ts, tc)
    BY <1>1, <1>2, <2>2, <2>3, <2>4, <2>5, <2>7, <2>8, <2>9, SendingAgrees
  <2>11. Onward(w, w, P, R, i)
    <3>1. p.other \in Int
      BY <1>4, CertainTypes
    <3> QED BY <1>1, <1>2, <2>2, <2>3, <2>4, <3>1 DEF Onward
  <2>12. uc = tc
    BY <1>1, <1>8 DEF SendsBefore
  <2>13. R[i].self = P[i].self /\ R[Server].players = P[Server].players
    BY <1>1, <1>2, <2>2, ClientsArePeers
  <2> QED BY <2>10, <2>11, <2>12, <2>13
<1>9. CASE SendsState(p)
  <2>1. i = Server
    <3>1. p.force_send
      BY <1>9 DEF SendsState
    <3> QED BY <1>4, <3>1 DEF PeerInv, Counted
  <2>2. p.loads < MaxLoads
    BY <1>9 DEF SendsState, MayLoad
  <2>3. PICK l : l = netplay_load_savestate(s)
    OBVIOUS
  <2>4. r = [l EXCEPT !.force_send = FALSE]
    BY <1>1, <1>2, <1>3, <1>9, <2>3 DEF netplay_sync_pre_frame
  <2>5. /\ s.self = p.self /\ s.loads = p.loads /\ s.players = p.players /\ s.read = p.read
        /\ s.server = p.server /\ s.connected = p.connected /\ s.asked = p.asked
        /\ s.polling = p.polling /\ s.force_rewind = p.force_rewind
    BY <1>7 DEF RingOnly
  <2>6. /\ l \in Netplays(Server) /\ Now(s, l) /\ l.loads = s.loads + 1
        /\ l.core = Core(s.loads + 1)
    BY <1>4, <1>7, <2>1, <2>2, <2>3, <2>5, LoadSavestateIs
  <2>7. Knows(w, Server, l) /\ s.read[Server] <= l.read[Server]
    BY <1>4, <1>6, <1>7, <2>1, <2>5, <2>6, NowKnows
  <2>8. /\ SameGame(l, r) /\ r.polling = l.polling /\ r.connected = l.connected
        /\ r.asked = l.asked
    BY <2>4, <2>6 DEF Netplays, SameGame
  <2>9. Knows(w, Server, r)
    BY <2>7, <2>8, SameIsTrue DEF Knows
  <2>10. /\ r.loads = p.loads + 1 /\ r.core = Core(p.loads + 1) /\ r.self = p.self
         /\ r.run = p.self /\ r.other = p.self /\ r.force_rewind = p.force_rewind
         /\ r.players = p.players /\ r.server = p.server /\ r.connected = p.connected
         /\ r.asked = p.asked /\ p.read[Server] <= r.read[Server]
    BY <2>5, <2>6, <2>7, <2>8 DEF SameGame, Now
  <2>11. ~p.force_rewind
    BY <1>4, <2>1 DEF PeerInv, Serving
  <2>12. Restarts(P[Server], R[Server])
    BY <1>1, <1>2, <2>1, <2>10, <2>11 DEF Restarts
  <2>13. PICK m : m = SavestateMsg(P[Server].self, Core(P[Server].loads + 1))
    OBVIOUS
  <2>14. SavestateMsg(r.run, r.core) = m
    BY <1>1, <2>1, <2>10, <2>13
  <2>15. SentTo(tc, Clients, m, uc)
    BY <1>1, <1>2, <1>9, <2>14 DEF SendsBefore
  <2>16. \A j \in Peers : j # Server => R[j] = P[j]
    BY <2>1
  <2>17. Knows(w, Server, R[Server])
    BY <1>2, <2>1, <2>9
  <2>18. \E v \in Games : /\ v.made = w.made /\ v.joined = w.joined
                          /\ Onward(w, v, P, R, Server) /\ GameInv(v, R, ts, uc)
    BY <2>12, <2>13, <2>15, <2>16, <2>17, ServerLoads
  <2>19. R[i].self = P[i].self /\ R[Server].players = P[Server].players
    BY <1>1, <1>2, <2>1, <2>10
  <2> QED BY <2>1, <2>18, <2>19
<1> QED BY <1>8, <1>9

\* What is sent of a frame does not depend on whether the peer polls.
LEMMA CurInputSame ==
  ASSUME NEW r, NEW q, q.ring = r.ring, q.self = r.self, q.players = r.players,
         q.playing = r.playing, NEW i, NEW to
  PROVE  CurInput(q, i, to) = CurInput(r, i, to)
BY DEF CurInput, Delta, Ptr

\* What is sent when a frame has begun, of which t is the state of the peer.
InputTo(i, p, t, to) == IF HaveLocal(p) THEN <<>> ELSE CurInput(t, i, to)

\* It is a message of either side.
LEMMA InputToTypes ==
  ASSUME NEW i \in Peers, NEW p, NEW t \in Netplays(i), NEW to
  PROVE  /\ InputTo(i, p, t, to) \in Seq(FromServer)
         /\ i # Server => InputTo(i, p, t, to) \in Seq(FromClient(i))
<1>1. /\ CurInput(t, i, to) \in Seq(FromServer)
      /\ i # Server => CurInput(t, i, to) \in Seq(FromClient(i))
  BY CurInputs, FromTypes, SeqWider
<1>2. <<>> \in Seq(FromServer) /\ <<>> \in Seq(FromClient(i))
  OBVIOUS
<1> QED BY <1>1, <1>2 DEF InputTo

\* A frame begins.
LEMMA FrameBeginsAgrees ==
  ASSUME IInv, IInv', NEW w \in Games, GameInv(w, peer, toServer, toClient),
         NEW i \in Peers, FrameBegins(i)
  PROVE  GoesOn(w, peer, peer', toServer', toClient')
<1>1. PICK P : P = peer
  OBVIOUS
<1>2. PICK Q : Q = peer'
  OBVIOUS
<1>3. PICK ts : ts = toServer
  OBVIOUS
<1>4. PICK tc : tc = toClient
  OBVIOUS
<1>5. PICK us : us = toServer'
  OBVIOUS
<1>6. PICK uc : uc = toClient'
  OBVIOUS
<1>7. PICK o : o = P[i]
  OBVIOUS
<1>8. PICK p : p = netplay_sync_pre_frame(o)
  OBVIOUS
<1>9. /\ Sound(P) /\ Sound(Q) /\ Mail(ts, tc) /\ P = [j \in Peers |-> P[j]]
      /\ ts = [b \in Clients |-> ts[b]] /\ tc = [b \in Clients |-> tc[b]]
      /\ GameInv(w, P, ts, tc)
  BY <1>1, <1>2, <1>3, <1>4, Setting
<1>10. ~o.polling /\ o.connected /\ o.self < MaxFrame
  BY <1>1, <1>7 DEF FrameBegins, Going
<1>11. PeerInv(i, o)
  BY <1>7, <1>9 DEF Sound
<1>12. /\ PeerInv(i, p) /\ ~p.polling /\ p.connected /\ p.self = o.self
       /\ Ready(p, p.run) => At(i, p, p.run).state = p.core
  BY <1>8, <1>10, <1>11, PreFrameStays
<1>13. CASE ~Ready(p, p.self)
  <2>1. Hangup(i) /\ toServer' = toServer /\ toClient' = toClient
    BY <1>1, <1>7, <1>8, <1>13 DEF FrameBegins
  <2> QED BY <2>1, HangupAgrees
<1>14. CASE Ready(p, p.self)
  <2>1. PICK m : m = SavestateMsg(p.run, p.core)
    OBVIOUS
  <2>2. PICK state : state = IF SendsState(o) THEN <<m>> ELSE <<>>
    OBVIOUS
  <2>3. PICK b \in IF p.self \in PressFrames /\ p.playing THEN Inputs ELSE {Zero} :
          LET q         == get_self_input_state(i, p, b)
              input(to) == IF HaveLocal(p) THEN <<>> ELSE CurInput(q, i, to)
          IN /\ peer' = [peer EXCEPT ![i] = [q EXCEPT !.polling = TRUE]]
             /\ IF i = Server
                THEN /\ toClient' = [c \in Clients |-> toClient[c] \o state \o input(c)]
                     /\ UNCHANGED toServer
                ELSE /\ toServer' = [toServer EXCEPT ![i] = @ \o input(Server)]
                     /\ UNCHANGED toClient
    BY <1>1, <1>7, <1>8, <1>14, <2>1, <2>2 DEF FrameBegins
  <2>4. b \in SUBSET Buttons
    BY <2>3 DEF Buttons, Zero
  <2>5. PICK r : r = get_self_input_state(i, p, b)
    OBVIOUS
  <2>6. PICK q : q = [r EXCEPT !.polling = TRUE]
    OBVIOUS
  <2>7. Opens(i, p)
    BY <1>10, <1>12, <1>14 DEF Opens
  <2>8. Begins(i, p, b, q)
    BY <2>5, <2>6 DEF Begins
  <2>9. r \in Netplays(i)
    <3>1. Took(i, p, r)
      BY <1>10, <1>12, <1>14, <2>4, <2>5, TakesInput DEF PeerInv
    <3> QED BY <3>1 DEF Took
  <2>10. /\ q.ring = r.ring /\ q.self = r.self /\ q.players = r.players /\ q.playing = r.playing
    BY <2>6, <2>9 DEF Netplays
  <2>11. q \in Netplays(i)
    BY <2>4, <2>7, <2>8, BeginsIs DEF Beginning
  <2>12. PICK Z : Z = [c \in Peers |-> InputTo(i, p, q, c)]
    OBVIOUS
  <2>13. /\ Q = [P EXCEPT ![i] = q]
         /\ IF i = Server
            THEN uc = [c \in Clients |-> tc[c] \o state \o Z[c]] /\ us = ts
            ELSE us = [ts EXCEPT ![i] = @ \o Z[Server]] /\ uc = tc
    <3>1. \A to : CurInput(q, i, to) = CurInput(r, i, to)
      BY <2>10, CurInputSame
    <3>2. \A c \in Peers : Z[c] = IF HaveLocal(p) THEN <<>> ELSE CurInput(r, i, c)
      BY <2>12, <3>1 DEF InputTo
    <3>3. Q = [P EXCEPT ![i] = q]
      BY <1>1, <1>2, <2>3, <2>5, <2>6
    <3>4. CASE i = Server
      <4>1. /\ uc = [c \in Clients |-> tc[c] \o state \o
                                       (IF HaveLocal(p) THEN <<>> ELSE CurInput(r, i, c))]
            /\ us = ts
        BY <1>3, <1>4, <1>5, <1>6, <2>3, <2>5, <3>4
      <4> QED BY <3>2, <3>3, <3>4, <4>1, ClientsArePeers
    <3>5. CASE i # Server
      <4>1. /\ us = [ts EXCEPT ![i] = @ \o (IF HaveLocal(p) THEN <<>> ELSE CurInput(r, i, Server))]
            /\ uc = tc
        BY <1>3, <1>4, <1>5, <1>6, <2>3, <2>5, <3>5
      <4> QED BY <3>2, <3>3, <3>5, <4>1, ClientsArePeers
    <3> QED BY <3>4, <3>5
  <2>14. PICK R : R = [P EXCEPT ![i] = p]
    OBVIOUS
  <2>15. /\ R[i] = p /\ \A j \in Peers : j # i => R[j] = P[j]
         /\ Q[i] = q /\ \A j \in Peers : j # i => Q[j] = R[j]
    BY <1>9, <2>13, <2>14
  <2>16. Sound(R)
    BY <1>9, <1>12, <2>15 DEF Sound
  <2>17. PICK mc : mc = [c \in Clients |-> tc[c] \o state]
    OBVIOUS
  <2>18. ASSUME NEW s \in Seq(FromServer)
         PROVE  s \o <<>> = s /\ Append(s, m) = s \o <<m>>
    OBVIOUS
  <2>19. SendsBefore(o, p, tc, mc)
    <3>1. CASE SendsState(o)
      <4>1. \A c \in Clients : mc[c] = Append(tc[c], m)
        BY <1>9, <2>2, <2>17, <2>18, <3>1 DEF Mail
      <4>2. mc = [c \in Clients |-> IF c \in Clients THEN Append(tc[c], m) ELSE tc[c]]
        BY <2>17, <4>1
      <4> QED BY <2>1, <3>1, <4>2 DEF SendsBefore, SentTo
    <3>2. CASE ~SendsState(o)
      <4>1. \A c \in Clients : mc[c] = tc[c]
        BY <1>9, <2>2, <2>17, <2>18, <3>2 DEF Mail
      <4>2. mc = tc
        BY <1>9, <2>17, <4>1
      <4> QED BY <3>2, <4>2 DEF SendsBefore
    <3> QED BY <3>1, <3>2
  <2>20. PICK v \in Games : /\ v.made = w.made /\ v.joined = w.joined
                            /\ Onward(w, v, P, R, i) /\ GameInv(v, R, ts, mc)
                            /\ R[i].self = P[i].self /\ R[Server].players = P[Server].players
    <3>1. ~P[i].polling /\ P[i].connected
      BY <1>7, <1>10
    <3>2. R[i] = netplay_sync_pre_frame(P[i])
      BY <1>7, <1>8, <2>15
    <3>3. SendsBefore(P[i], R[i], tc, mc)
      BY <1>7, <2>15, <2>19
    <3>4. Sound(P) /\ GameInv(w, P, ts, tc) /\ Mail(ts, tc)
      BY <1>9
    <3>5. \A j \in Peers : j # i => R[j] = P[j]
      BY <2>15
    <3> QED BY <2>16, <3>1, <3>2, <3>3, <3>4, <3>5, PreFrameAgrees
  <2>21. Mail(ts, mc)
    <3>1. ASSUME NEW c \in Clients PROVE mc[c] \in Seq(FromServer)
      <4>1. CASE SendsState(o)
        <5>1. m \in FromServer
          BY <1>12, <2>1, PeerTypes DEF PeerInv, SavestateMsg, FromServer
        <5>2. mc[c] = Append(tc[c], m) /\ tc[c] \in Seq(FromServer)
          BY <1>9, <2>2, <2>17, <2>18, <4>1 DEF Mail
        <5> QED BY <5>1, <5>2
      <4>2. CASE ~SendsState(o)
        BY <1>9, <2>2, <2>17, <2>18, <4>2 DEF Mail
      <4> QED BY <4>1, <4>2
    <3> QED BY <1>9, <3>1 DEF Mail
  <2>22. \E x, y : Mail(x, y) /\ SendsInput(i, p, q, x, y) /\ Puts(ts, x, us) /\ Puts(mc, y, uc)
    <3>1. ASSUME NEW c \in Peers, NEW k \in DOMAIN Z[c]
          PROVE  ~HaveLocal(p) /\ \E l \in DOMAIN CurInput(q, i, c) : Z[c][k] = CurInput(q, i, c)[l]
      <4>1. Z[c] = IF HaveLocal(p) THEN <<>> ELSE CurInput(q, i, c)
        BY <2>12 DEF InputTo
      <4>2. DOMAIN <<>> = {}
        OBVIOUS
      <4> QED BY <3>1, <4>1, <4>2
    <3>2. \A c \in Peers : /\ Z[c] \in Seq(FromServer)
                           /\ i # Server => Z[c] \in Seq(FromClient(i))
      BY <2>11, <2>12, InputToTypes
    <3>3. PICK n : n = [c \in Clients |-> <<>>]
      OBVIOUS
    <3>4. Mail(n, n) /\ \A c \in Clients : n[c] = <<>> /\ DOMAIN n[c] = {}
      BY <3>3, NoMail
    <3>5. ASSUME NEW S, NEW s \in Seq(S)
          PROVE  s = s \o <<>>
      OBVIOUS
    <3>6. CASE i = Server
      <4>1. PICK y : y = [c \in Clients |-> Z[c]]
        OBVIOUS
      <4>2. Mail(n, y)
        BY <3>2, <3>4, <4>1, ClientsArePeers DEF Mail
      <4>3. SendsInput(i, p, q, n, y)
        BY <3>1, <3>4, <3>6, <4>1, ClientsArePeers DEF SendsInput
      <4>4. Puts(ts, n, us)
        <5>1. \A c \in Clients : us[c] = ts[c] \o n[c]
          BY <1>9, <2>13, <3>4, <3>5, <3>6 DEF Mail
        <5> QED BY <5>1 DEF Puts
      <4>5. Puts(mc, y, uc)
        BY <2>13, <2>17, <3>6, <4>1 DEF Puts
      <4> QED BY <4>2, <4>3, <4>4, <4>5
    <3>7. CASE i # Server
      <4>1. i \in Clients
        BY <3>7 DEF Peers
      <4>2. PICK x : x = [c \in Clients |-> IF c = i THEN Z[Server] ELSE <<>>]
        OBVIOUS
      <4>3. Mail(x, n)
        <5>1. ASSUME NEW c \in Clients PROVE x[c] \in Seq(FromClient(c))
          BY <3>2, <3>4, <3>7, <4>2, ClientsArePeers DEF Mail
        <5> QED BY <3>4, <5>1 DEF Mail
      <4>4. SendsInput(i, p, q, x, n)
        <5>1. ASSUME NEW c \in Clients, NEW k \in DOMAIN x[c]
              PROVE  c = i /\ ~HaveLocal(p)
                     /\ \E l \in DOMAIN CurInput(q, i, Server) : x[c][k] = CurInput(q, i, Server)[l]
          <6>1. DOMAIN <<>> = {}
            OBVIOUS
          <6>2. c = i /\ x[c] = Z[Server]
            BY <4>2, <5>1, <6>1
          <6> QED BY <3>1, <5>1, <6>2, ClientsArePeers
        <5> QED BY <3>4, <5>1 DEF SendsInput
      <4>5. Puts(ts, x, us)
        <5>1. ASSUME NEW c \in Clients PROVE us[c] = ts[c] \o x[c]
          <6>1. us[c] = IF c = i THEN ts[c] \o Z[Server] ELSE ts[c]
            BY <1>9, <2>13, <3>7, <4>1
          <6>2. ts[c] \in Seq(FromClient(c))
            BY <1>9 DEF Mail
          <6> QED BY <3>5, <4>2, <6>1, <6>2
        <5> QED BY <5>1 DEF Puts
      <4>6. Puts(mc, n, uc)
        <5>1. ~SendsState(o)
          BY <1>11, <3>7 DEF PeerInv, Counted, SendsState
        <5>2. mc = tc
          BY <2>19, <5>1 DEF SendsBefore
        <5>3. \A c \in Clients : uc[c] = mc[c] \o n[c]
          BY <1>9, <2>13, <3>4, <3>5, <3>7, <5>2 DEF Mail
        <5> QED BY <5>3 DEF Puts
      <4> QED BY <4>3, <4>4, <4>5, <4>6
    <3> QED BY <3>6, <3>7
  <2>23. PICK x, y : Mail(x, y) /\ SendsInput(i, p, q, x, y) /\ Puts(ts, x, us) /\ Puts(mc, y, uc)
    BY <2>22
  <2>24. PICK u \in Games : Onward(v, u, R, Q, i) /\ GameInv(u, Q, us, uc)
    BY <1>9, <2>4, <2>7, <2>8, <2>15, <2>16, <2>20, <2>21, <2>23, BeginsAgrees
  <2>25. Onward(w, u, P, Q, i)
    BY <1>9, <2>16, <2>20, <2>24, OnwardTwice
  <2> QED BY <1>1, <1>2, <1>5, <1>6, <2>24, <2>25 DEF GoesOn
<1> QED BY <1>13, <1>14

-----------------------------------------------------------------------------
(* A frame ends. *)

\* The server alone is certain of all it has run.
Settles(i, a, r) ==
  /\ r \in Netplays(i) /\ r.ring = a.ring /\ r.core = a.core
  /\ r.playing = a.playing /\ r.players = a.players /\ r.self = a.self /\ r.run = a.run
  /\ r.other = a.self /\ r.server = a.server /\ r.read = a.read
  /\ r.force_rewind = a.force_rewind /\ r.connected = a.connected
  /\ r.asked = a.asked /\ r.loads = a.loads

\* The frame has been run, then those before, and no input is taken any more.
EndsVia(i, p, a, r, t) ==
  /\ Ran(i, p, a)
  /\ Alone(i, a) => Settles(i, a, r)
  /\ ~Alone(i, a) => Again(i, a, r)
  /\ t \in Netplays(i) /\ ~t.polling /\ SameGame(r, t)
  /\ t.connected = r.connected /\ t.asked = r.asked

\* That is how a frame ends.
LEMMA EndsAs ==
  ASSUME NEW i \in Peers, NEW p, PeerInv(i, p), p.polling,
         NEW q \in netplay_poll(i, p), NEW ask,
         NEW t, t = [Asking(Ended(i, q), ask) EXCEPT !.polling = FALSE]
  PROVE  \E a, r : EndsVia(i, p, a, r, t)
<1>1. p \in Netplays(i) /\ Counted(i, p)
  BY DEF PeerInv
<1>2. Polled(i, p, q) /\ Looked(p, At(i, p, p.run), At(i, q, p.run))
  BY <1>1, PollIs
<1>3. q.players = p.players
  BY <1>2 DEF Polled
<1>4. PICK stalled : stalled = Stalling(i, q)
  OBVIOUS
<1>5. stalled \in BOOLEAN /\ (Alone(i, p) => ~stalled)
  BY <1>3, <1>4 DEF Alone, Stalling
<1>6. PICK ran : ran = IF stalled THEN q
                       ELSE [q EXCEPT !.core = CoreRun(@, Delta(q, q.run).resolved)]
  OBVIOUS
<1>7. PICK a : a = Advanced(ran, stalled)
  OBVIOUS
<1>8. Ran(i, p, a)
  BY <1>2, <1>5, <1>6, <1>7, AdvancedIs
<1>9. /\ a \in Netplays(i) /\ a.players = p.players /\ a.other = p.other /\ a.server = p.server
      /\ a.read = p.read /\ a.force_rewind = p.force_rewind
      /\ (a.run = p.run \/ a.run = p.run + 1)
  BY <1>8 DEF Ran
<1>10. p.run \in Int /\ p.other \in Int /\ a.self \in Frames
  BY <1>1, <1>9, PeerTypes, FramesInt
<1>11. PICK r : r = IF Alone(i, a) THEN [a EXCEPT !.other = a.self] ELSE Replayed(i, a)
  OBVIOUS
<1>12. t = [Asking(r, ask) EXCEPT !.polling = FALSE]
  BY <1>4, <1>6, <1>7, <1>11 DEF Ended
<1>13. ASSUME Alone(i, a)
       PROVE  Settles(i, a, r)
  <2>1. r = [a EXCEPT !.other = a.self]
    BY <1>11, <1>13
  <2> QED BY <1>9, <1>10, <2>1 DEF Netplays, Settles
<1>14. ASSUME ~Alone(i, a)
       PROVE  Again(i, a, r)
  <2>1. Server \in a.players /\ a.other <= a.run + 1 /\ (~a.force_rewind => a.other <= a.run)
        /\ (\A c \in a.players : a.other <= a.read[c]) /\ (i # Server => a.other <= a.server)
    BY <1>1, <1>9, <1>10 DEF Counted
  <2>2. r = Replayed(i, a)
    BY <1>11, <1>14
  <2> QED BY <1>9, <1>14, <2>1, <2>2, ReplayedIs
<1>15. r \in Netplays(i)
  BY <1>13, <1>14 DEF Settles, Again
<1>16. t \in Netplays(i) /\ ~t.polling /\ SameGame(r, t) /\ t.connected = r.connected
       /\ t.asked = r.asked
  <2>1. PICK ss : ss = [c \in Clients |-> IF c \in ask THEN r.self ELSE r.stall_sent[c]]
    OBVIOUS
  <2>2. ss \in [Clients -> Frames]
    BY <1>15, <2>1 DEF Netplays
  <2>3. t = [r EXCEPT !.polling = FALSE, !.stall_sent = ss]
    BY <1>12, <2>1 DEF Asking
  <2> QED BY <1>15, <2>2, <2>3 DEF Netplays, SameGame
<1>17. EndsVia(i, p, a, r, t)
  BY <1>8, <1>13, <1>14, <1>16 DEF EndsVia
<1> QED BY <1>17

\* The state in which a peer has begun a frame that it has run, or that it is in.
Stands(i, p, f) == IF f < p.run THEN At(i, p, f).state ELSE p.core

\* Only what a peer has run changes, and what it is certain of.
Ending(i, p, t) ==
  /\ t \in Netplays(i) /\ ~t.polling /\ ~t.force_rewind
  /\ t.playing = p.playing /\ t.players = p.players /\ t.server = p.server /\ t.read = p.read
  /\ t.connected = p.connected /\ t.asked = p.asked /\ t.loads = p.loads
  /\ p.self <= t.self /\ p.other <= t.other /\ t.other <= t.run
  /\ SameInputs(i, p, t)

\* From what it was certain of, known inputs lead to what it is certain of now.
Leading(i, p, t) ==
  /\ Stands(i, t, p.other) = Certain(i, p)
  /\ \A f \in p.other..t.other - 1 :
       /\ Has(i, p, f)
       /\ Stands(i, t, f + 1) = CoreRun(Stands(i, t, f), Known(At(i, p, f)))

\* The peer keeps the invariant, and is certain of more.
LEMMA EndingIs ==
  ASSUME NEW i \in Peers, NEW p, PeerInv(i, p), p.polling,
         NEW a, NEW r, NEW t, EndsVia(i, p, a, r, t),
         p.other > p.run => t.run > p.run
  PROVE  Ending(i, p, t)
<1>1. p \in Netplays(i) /\ Counted(i, p) /\ (i = Server => Serving(p))
  BY DEF PeerInv
<1>2. Ran(i, p, a) /\ SameGame(r, t) /\ t \in Netplays(i) /\ ~t.polling
  BY DEF EndsVia
<1>3. /\ a \in Netplays(i) /\ a.playing = p.playing /\ a.players = p.players /\ a.other = p.other
      /\ a.server = p.server /\ a.read = p.read /\ a.force_rewind = p.force_rewind
      /\ a.connected = p.connected /\ a.asked = p.asked /\ a.loads = p.loads
      /\ (a.run = p.run \/ a.run = p.run + 1)
      /\ a.run <= a.self /\ (a.self = p.self \/ a.self = p.self + 1)
      /\ (Alone(i, p) => a.run = a.self)
      /\ SameInputs(i, p, a)
  BY <1>2 DEF Ran, SameInputs
<1>4. /\ p.self \in Int /\ p.run \in Int /\ p.other \in Int /\ a.self \in Int /\ a.run \in Int
      /\ p.other <= p.run + 1
  BY <1>1, <1>3, PeerTypes, FramesInt DEF Counted
<1>5. CASE Alone(i, a)
  <2>1. Settles(i, a, r)
    BY <1>5 DEF EndsVia
  <2>2. i = Server /\ p.players = {Server} /\ Alone(i, p)
    BY <1>3, <1>5 DEF Alone
  <2>3. p.other = p.self /\ ~p.force_rewind
    BY <1>1, <2>2 DEF Serving
  <2>4. /\ t.playing = p.playing /\ t.players = p.players /\ t.server = p.server
        /\ t.read = p.read /\ t.connected = p.connected /\ t.asked = p.asked
        /\ t.loads = p.loads /\ t.self = a.self /\ t.run = a.run /\ t.other = a.self
        /\ ~t.force_rewind /\ t.ring = a.ring
    BY <1>2, <1>3, <2>1, <2>3 DEF Settles, SameGame, EndsVia
  <2>5. SameInputs(i, p, t)
    BY <1>3, <2>4 DEF SameInputs
  <2>6. p.self <= t.self /\ p.other <= t.other /\ t.other <= t.run
    BY <1>3, <1>4, <2>2, <2>3, <2>4
  <2> QED BY <1>2, <2>4, <2>5, <2>6 DEF Ending
<1>6. CASE ~Alone(i, a)
  <2>1. Again(i, a, r)
    BY <1>6 DEF EndsVia
  <2>2. /\ t.playing = p.playing /\ t.players = p.players /\ t.server = p.server
        /\ t.read = p.read /\ t.connected = p.connected /\ t.asked = p.asked
        /\ t.loads = p.loads /\ t.self = a.self /\ t.run = a.run /\ t.other = r.other
        /\ ~t.force_rewind /\ t.ring = r.ring
    BY <1>2, <1>3, <2>1 DEF Again, SameGame, EndsVia
  <2>3. SameInputs(i, a, r)
    BY <2>1 DEF Again, SameInputs
  <2>4. SameInputs(i, p, t)
    BY <1>3, <2>2, <2>3 DEF SameInputs
  <2>5. PICK u : u \in Nat /\ u = netplay_update_unread_ptr(i, a)
                 /\ r.other = IF u <= a.run THEN u ELSE a.run
    BY <2>1 DEF Again
  <2>6. /\ (\E c \in p.players : u = p.read[c]) \/ (i # Server /\ u = p.server)
    BY <1>1, <1>3, <1>6, <2>5, UnreadIs DEF Counted
  <2>7. p.other <= u
    BY <1>1, <2>6 DEF Counted
  <2>8. p.self <= t.self /\ p.other <= t.other /\ t.other <= t.run
    BY <1>3, <1>4, <2>2, <2>5, <2>7
  <2> QED BY <1>2, <2>2, <2>4, <2>8 DEF Ending
<1> QED BY <1>5, <1>6

\* Known inputs have led there: the frames were run with them, those that were run before
\* their inputs came have been run again.
LEMMA LeadingIs ==
  ASSUME NEW i \in Peers, NEW p, PeerInv(i, p), Saves(i, p), p.polling,
         NEW a, NEW r, NEW t, EndsVia(i, p, a, r, t),
         p.other > p.run => t.run > p.run
  PROVE  Leading(i, p, t)
<1>1. p \in Netplays(i) /\ Counted(i, p) /\ (i = Server => Serving(p))
  BY DEF PeerInv
<1>2. Ran(i, p, a) /\ SameGame(r, t) /\ t \in Netplays(i)
  BY DEF EndsVia
<1>3. /\ a \in Netplays(i) /\ a.players = p.players /\ a.other = p.other
      /\ a.server = p.server /\ a.read = p.read /\ a.force_rewind = p.force_rewind
      /\ (a.run = p.run \/ a.run = p.run + 1)
      /\ a.run <= a.self /\ (a.self = p.self \/ a.self = p.self + 1)
      /\ (Alone(i, p) => a.run = a.self)
      /\ a.core = IF a.run = p.run THEN p.core ELSE CoreRun(p.core, At(i, a, p.run).resolved)
      /\ Looked(p, At(i, p, p.run), At(i, a, p.run))
      /\ HasRun(i, p) => Leads(i, p, a)
  BY <1>2 DEF Ran
<1>4. /\ p.self \in Int /\ p.run \in Int /\ p.other \in Int /\ a.self \in Int /\ a.run \in Int
      /\ p.other <= p.run + 1 /\ (~p.force_rewind => p.other <= p.run)
  BY <1>1, <1>3, PeerTypes, FramesInt DEF Counted
<1>5. \A f \in Int : /\ At(i, a, f).frame = At(i, p, f).frame
                     /\ At(i, a, f).state = At(i, p, f).state
                     /\ Known(At(i, a, f)) = Known(At(i, p, f))
  BY <1>2, PlaceIs DEF Ran, At, Known
<1>6. p.other <= p.run => /\ Certain(i, p) = At(i, p, p.other).state
                          /\ Has(i, p, p.run)
                          /\ ~p.force_rewind => At(i, p, p.run).state = p.core
  BY CertainIsHeld DEF Saves
<1>7. CASE Alone(i, a)
  <2>1. Settles(i, a, r)
    BY <1>7 DEF EndsVia
  <2>2. i = Server /\ p.players = {Server} /\ Alone(i, p)
    BY <1>3, <1>7 DEF Alone
  <2>3. p.other = p.self /\ p.run = p.self /\ ~p.force_rewind /\ p.self < p.read[Server]
    BY <1>1, <2>2 DEF Serving
  <2>4. t.run = a.run /\ t.other = a.run /\ t.ring = a.ring /\ t.core = a.core
    BY <1>2, <1>3, <2>1, <2>2 DEF Settles, SameGame
  <2>5. Certain(i, p) = p.core
    BY <1>6, <1>4, <2>3
  <2>6. CASE a.run = p.run
    <3>1. Stands(i, t, p.other) = Certain(i, p)
      BY <1>3, <1>4, <2>3, <2>4, <2>5, <2>6 DEF Stands
    <3>2. p.other..t.other - 1 = {}
      BY <1>4, <2>3, <2>4, <2>6
    <3> QED BY <3>1, <3>2 DEF Leading
  <2>7. CASE a.run = p.run + 1
    <3>1. At(i, t, p.run).state = p.core
      BY <1>4, <1>5, <1>6, <2>3, <2>4 DEF At
    <3>2. Stands(i, t, p.other) = p.core
      BY <1>4, <2>3, <2>4, <2>7, <3>1 DEF Stands
    <3>3. At(i, p, p.run).frame = p.run
      BY <1>4, <1>6, <2>3 DEF Has
    <3>4. At(i, a, p.run).resolved = Known(At(i, p, p.run))
      <4>1. \A c \in p.players : At(i, p, p.run).frame < p.read[c]
        BY <2>2, <2>3, <3>3
      <4> QED BY <1>3, <4>1 DEF Looked
    <3>5. Stands(i, t, p.run + 1) = CoreRun(p.core, Known(At(i, p, p.run)))
      BY <1>3, <1>4, <2>4, <2>7, <3>4 DEF Stands
    <3>6. ASSUME NEW f \in p.other..t.other - 1
          PROVE  /\ Has(i, p, f)
                 /\ Stands(i, t, f + 1) = CoreRun(Stands(i, t, f), Known(At(i, p, f)))
      <4>1. f = p.run /\ f = p.other
        BY <1>4, <2>3, <2>4, <2>7
      <4> QED BY <3>2, <3>3, <3>5, <4>1 DEF Has
    <3> QED BY <2>5, <3>2, <3>6 DEF Leading
  <2> QED BY <1>3, <2>6, <2>7
<1>8. CASE ~Alone(i, a) /\ p.other > p.run
  <2>1. Again(i, a, r)
    BY <1>8 DEF EndsVia
  <2>2. t.run = r.run /\ r.run = a.run /\ t.core = r.core /\ t.other = r.other
    BY <1>2, <2>1 DEF SameGame, Again
  <2>3. a.run = p.other /\ p.force_rewind
    BY <1>3, <1>4, <1>8, <2>2
  <2>4. r.other <= a.run
    <3>1. PICK u : u \in Nat /\ r.other = IF u <= a.run THEN u ELSE a.run
      BY <2>1 DEF Again
    <3> QED BY <1>4, <3>1
  <2>5. r.core = At(i, p, p.other).state
    <3>1. a.other >= a.run /\ a.force_rewind
      BY <1>3, <1>4, <2>3
    <3>2. r.core = At(i, a, a.other).state
      BY <2>1, <3>1 DEF Again
    <3> QED BY <1>3, <1>4, <1>5, <3>2
  <2>6. Certain(i, p) = At(i, p, p.other).state
    BY <2>3 DEF Certain
  <2>7. Stands(i, t, p.other) = Certain(i, p)
    BY <1>4, <2>2, <2>3, <2>5, <2>6 DEF Stands
  <2>8. p.other..t.other - 1 = {}
    <3>1. t.other \in Int
      BY <1>2, PeerTypes, FramesInt
    <3> QED BY <1>4, <2>2, <2>3, <2>4, <3>1
  <2> QED BY <2>7, <2>8 DEF Leading
<1>9. CASE ~Alone(i, a) /\ p.other <= p.run
  <2>1. Again(i, a, r)
    BY <1>9 DEF EndsVia
  <2>2. t.run = a.run /\ t.core = r.core /\ t.other = r.other /\ t.ring = r.ring
    BY <1>2, <2>1 DEF SameGame, Again
  <2>3. HasRun(i, p)
    BY <1>6, <1>9 DEF HasRun, Has
  <2>4. (\A f \in a.other..a.run - 1 : At(i, a, f).frame = f) /\ Linked(i, a)
    BY <1>3, <2>3 DEF Leads
  <2>5. /\ a.other < a.run => At(i, r, a.other).state = At(i, a, a.other).state
        /\ \A f \in a.other..a.run - 1 : Looked(a, At(i, a, f), At(i, r, f))
        /\ \A f \in a.other..a.run - 1 :
             CoreRun(At(i, r, f).state, At(i, r, f).resolved)
               = IF f + 1 = a.run THEN r.core ELSE At(i, r, f + 1).state
        /\ a.other >= a.run => r.core = IF a.force_rewind THEN At(i, a, a.other).state ELSE a.core
    BY <2>1, <2>4 DEF Again
  <2>6. Stands(i, t, p.other) = Certain(i, p)
    <3>1. CASE p.other < a.run
      <4>1. At(i, t, p.other).state = At(i, p, p.other).state
        BY <1>3, <1>4, <1>5, <2>2, <2>5, <3>1 DEF At
      <4> QED BY <1>6, <1>9, <2>2, <3>1, <4>1 DEF Stands
    <3>2. CASE ~(p.other < a.run)
      <4>1. a.run = p.run /\ p.other = p.run
        BY <1>3, <1>4, <1>9, <3>2
      <4>2. a.core = p.core
        BY <1>3, <4>1
      <4>3. r.core = IF p.force_rewind THEN At(i, p, p.other).state ELSE p.core
        BY <1>3, <1>4, <1>5, <2>5, <4>1, <4>2
      <4>4. r.core = At(i, p, p.other).state
        BY <1>6, <1>9, <4>1, <4>3
      <4> QED BY <1>4, <1>6, <1>9, <2>2, <4>1, <4>4 DEF Stands
    <3> QED BY <3>1, <3>2
  <2>7. PICK u : u \in Nat /\ u = netplay_update_unread_ptr(i, a)
                 /\ r.other = IF u <= a.run THEN u ELSE a.run
    BY <2>1 DEF Again
  <2>8. \A c \in a.players : u <= a.read[c]
    BY <1>1, <1>3, <1>9, <2>7, UnreadIs DEF Counted
  <2>9. ASSUME NEW f \in p.other..t.other - 1
        PROVE  /\ Has(i, p, f)
               /\ Stands(i, t, f + 1) = CoreRun(Stands(i, t, f), Known(At(i, p, f)))
    <3>1. f \in Int /\ f \in a.other..a.run - 1 /\ f < u /\ f < a.run
      BY <1>3, <1>4, <2>2, <2>7, <2>9
    <3>2. At(i, a, f).frame = f /\ At(i, p, f).frame = f
      BY <1>5, <2>4, <3>1
    <3>3. At(i, r, f).resolved = Known(At(i, p, f))
      <4>1. \A c \in a.players : At(i, a, f).frame < a.read[c]
        <5>1. ASSUME NEW c \in a.players PROVE f < a.read[c]
          <6>1. c \in Peers /\ a.read \in [Peers -> Counts]
            BY <1>3, <5>1, PeerTypes
          <6>2. a.read[c] \in Int
            BY <6>1, FramesInt
          <6> QED BY <2>7, <2>8, <3>1, <6>2
        <5> QED BY <3>2, <5>1
      <4> QED BY <1>5, <2>5, <3>1, <4>1 DEF Looked
    <3>4. Stands(i, t, f) = At(i, r, f).state
      BY <2>2, <3>1 DEF Stands, At
    <3>5. Stands(i, t, f + 1) = IF f + 1 = a.run THEN r.core ELSE At(i, r, f + 1).state
      BY <1>4, <2>2, <3>1 DEF Stands, At
    <3>6. CoreRun(At(i, r, f).state, At(i, r, f).resolved)
            = IF f + 1 = a.run THEN r.core ELSE At(i, r, f + 1).state
      BY <2>5, <3>1
    <3> QED BY <3>2, <3>3, <3>4, <3>5, <3>6 DEF Has
  <2> QED BY <2>6, <2>9 DEF Leading
<1> QED BY <1>4, <1>7, <1>8, <1>9

\* A peer that has ended a frame knows the game as before.
LEMMA EndingKnows ==
  ASSUME NEW w \in Games, NEW i \in Peers, NEW p \in Netplays(i), Knows(w, i, p),
         NEW t, Ending(i, p, t)
  PROVE  Knows(w, i, t)
<1>1. Heard(w, p) /\ Takes(w, i, p) /\ Reads(w, i, p)
  BY DEF Knows
<1>2. /\ t \in Netplays(i) /\ ~t.polling /\ ~t.force_rewind
      /\ t.playing = p.playing /\ t.players = p.players /\ t.read = p.read
      /\ p.self <= t.self /\ p.other <= t.other /\ SameInputs(i, p, t)
  BY DEF Ending
<1>3. \A f \in Int : /\ At(i, t, f).frame = At(i, p, f).frame
                     /\ At(i, t, f).have_local = At(i, p, f).have_local
                     /\ At(i, t, f).have_real = At(i, p, f).have_real
  BY <1>2, PlaceIs DEF SameInputs, At
<1>4. Keeping(i, p, t)
  BY <1>3 DEF Keeping, Has
<1>5. Heard(w, t)
  <2>1. Grows(w, w) /\ Gains(w, i, p, t)
    BY <1>2 DEF Grows, Gains, SameInputs
  <2> QED BY <1>1, <1>2, <2>1, HeardStays
<1>6. Takes(w, i, t)
  BY <1>1, <1>2, <1>4, TakesStays
<1>7. ASSUME NEW c \in t.players \ {i}
      PROVE  ReadsOf(w, w, i, p, t, c)
  <2>1. c \in Peers /\ p.read \in [Peers -> Counts]
    BY <1>2, <1>7, PeerTypes
  <2>2. p.read[c] \in Nat
    BY <2>1, FramesNat
  <2>3. \A g \in Nat : ~(p.read[c] <= g /\ g < p.read[c])
    BY <2>2
  <2>4. \A g \in Frames : ~(p.read[c] <= g /\ g < t.read[c])
    BY <1>2, <2>3, FramesNat
  <2>5. c \in p.players /\ p.read[c] <= t.read[c]
    BY <1>2, <1>7, <2>2
  <2> QED BY <2>4, <2>5 DEF ReadsOf
<1>8. Reads(w, i, t)
  BY <1>1, <1>2, <1>4, <1>7, ReadsStays
<1>9. Saves(i, t)
  BY <1>2 DEF Saves
<1> QED BY <1>5, <1>6, <1>8, <1>9 DEF Knows

\* The input of c has been taken for no frame before it joined, and for none if it does not
\* play.
LEMMA NotMade ==
  ASSUME NEW w \in Games, NEW P, Sound(P), NEW ts, NEW tc, GameInv(w, P, ts, tc),
         NEW c \in Peers, NEW f \in Nat, c \in P[Server].players => f < w.joined[c]
  PROVE  f \notin w.made[c]
<1>1. Takes(w, c, P[c])
  BY DEF GameInv
<1>2. w.joined[c] \in Nat
  BY GameTypes
<1>3. CASE c \in P[Server].players
  BY <1>1, <1>2, <1>3 DEF Takes
<1>4. CASE c \notin P[Server].players
  <2>1. c # Server
    BY <1>4, ServerCounts
  <2>2. c \in Clients
    BY <2>1 DEF Peers
  <2>3. P[c].players \subseteq P[Server].players
    BY <2>2 DEF GameInv, Follows
  <2> QED BY <1>1, <1>4, <2>3 DEF Takes
<1> QED BY <1>3, <1>4

\* The peer has read the frame of all that play, as far as it knows.
Covers(i, p, f) ==
  /\ Has(i, p, f) /\ p.other <= f
  /\ \A c \in p.players : f < p.read[c]
  /\ i # Server => f < p.server

\* Of a frame that it has read of all, a peer knows the input, which will not change.
LEMMA BoardIs ==
  ASSUME NEW w \in Games, NEW P, Sound(P), NEW ts, NEW tc, GameInv(w, P, ts, tc),
         NEW i \in Peers, NEW f \in Frames, Covers(i, P[i], f)
  PROVE  /\ Known(At(i, P[i], f)) = Board(w, f)
         /\ \A c \in Peers \ {i} : Settled(w, P, c, f)
<1>1. PICK p : p = P[i]
  OBVIOUS
<1>2. p \in Netplays(i)
  BY <1>1 DEF Sound, PeerInv
<1>3. f \in Nat /\ f \in Int
  BY FramesNat
<1>4. Heard(w, p) /\ Takes(w, i, p) /\ Reads(w, i, p)
  BY <1>1 DEF GameInv
<1>5. /\ Has(i, p, f) /\ p.other <= f /\ (\A c \in p.players : f < p.read[c])
      /\ i # Server => f < p.server
  BY <1>1 DEF Covers
<1>6. PICK d : d = At(i, p, f)
  OBVIOUS
<1>7. d.frame = f
  BY <1>5, <1>6 DEF Has
<1>8. \A c \in d.have_real : f \in w.made[c] /\ d.real[c] = w.real[c][f]
  <2>1. Place(i, f) \in 1..BufferSize(i) /\ DOMAIN p.ring = 1..BufferSize(i)
    BY <1>2, <1>3, PlaceIs, RingPlace
  <2> QED BY <1>4, <1>6, <1>7, <2>1 DEF Heard, At
<1>9. p.server \in Nat /\ \A c \in Peers : w.joined[c] \in Nat /\ p.read[c] \in Nat
  <2>1. p.read \in [Peers -> Counts] /\ p.server \in Counts
    BY <1>2, PeerTypes
  <2> QED BY <2>1, GameTypes, FramesNat
<1>10. ASSUME NEW c \in Peers, c \notin d.have_real, c # i
       PROVE  c \in P[Server].players => f < w.joined[c]
  <2>1. CASE c \in p.players
    <3>1. f < p.read[c]
      BY <1>5, <2>1
    <3>2. ~(w.joined[c] <= f)
      BY <1>4, <1>5, <1>6, <1>10, <2>1, <3>1 DEF Reads
    <3> QED BY <1>3, <1>9, <3>2
  <2>2. CASE c \notin p.players /\ c \in P[Server].players
    <3>1. i # Server
      BY <1>1, <2>2
    <3>2. i \in Clients
      BY <3>1 DEF Peers
    <3>3. p.server <= w.joined[c]
      BY <1>1, <2>2, <3>2 DEF GameInv, Follows
    <3>4. f < p.server
      BY <1>5, <3>1
    <3> QED BY <1>3, <1>9, <3>3, <3>4
  <2> QED BY <2>1, <2>2
<1>11. ASSUME NEW c \in Peers
       PROVE  (IF c \in d.have_real THEN d.real[c] ELSE Zero)
                = (IF f \in w.made[c] THEN w.real[c][f] ELSE Zero)
  <2>1. CASE c \in d.have_real
    BY <1>8, <2>1
  <2>2. CASE c \notin d.have_real /\ c = i
    <3>1. f \notin w.made[i]
      BY <1>4, <1>5, <1>6, <2>2 DEF Takes
    <3> QED BY <2>2, <3>1
  <2>3. CASE c \notin d.have_real /\ c # i
    <3>1. f \notin w.made[c]
      BY <1>3, <1>10, <2>3, NotMade
    <3> QED BY <2>3, <3>1
  <2> QED BY <2>1, <2>2, <2>3
<1>12. Known(d) = Board(w, f)
  BY <1>11 DEF Known, Board
<1>13. ASSUME NEW c \in Peers \ {i}
       PROVE  Settled(w, P, c, f)
  <2>1. CASE c \in d.have_real
    BY <1>8, <2>1 DEF Settled
  <2>2. CASE c \notin d.have_real
    BY <1>10, <1>13, <2>2 DEF Settled
  <2> QED BY <2>1, <2>2
<1> QED BY <1>1, <1>6, <1>12, <1>13

\* The inputs of one frame more.
LEMMA OfficialNext ==
  ASSUME NEW w, NEW a \in Nat, NEW b \in Nat, a <= b
  PROVE  Official(w, a, b + 1) = Append(Official(w, a, b), Board(w, b))
<1>1. PICK n : n = b - a
  OBVIOUS
<1>2. n \in Nat /\ b = a + n /\ b + 1 - a = n + 1
  BY <1>1
<1>3. PICK s : s = [k \in 1..n |-> Board(w, a + k - 1)]
  OBVIOUS
<1>4. Official(w, a, b) = s
  BY <1>1, <1>3 DEF Official
<1>5. PICK t : t = [k \in 1..n + 1 |-> Board(w, a + k - 1)]
  OBVIOUS
<1>6. Official(w, a, b + 1) = t
  BY <1>2, <1>5 DEF Official
<1>7. PICK S : S = { Board(w, a + k - 1) : k \in 1..n + 1 }
  OBVIOUS
<1>8. s \in Seq(S) /\ Len(s) = n
  BY <1>2, <1>3, <1>7
<1>9. Board(w, b) \in S
  <2>1. n + 1 \in 1..n + 1 /\ a + (n + 1) - 1 = b
    BY <1>2
  <2> QED BY <1>7, <2>1
<1>10. PICK x : x = Board(w, b)
  OBVIOUS
<1>11. PICK u : u = Append(s, x)
  OBVIOUS
<1>12. u \in Seq(S) /\ Len(u) = n + 1 /\ (\A k \in 1..n : u[k] = s[k]) /\ u[n + 1] = x
  BY <1>2, <1>8, <1>9, <1>10, <1>11, AppendProperties
<1>13. ASSUME NEW k \in 1..n + 1
       PROVE  u[k] = Board(w, a + k - 1)
  <2>1. CASE k \in 1..n
    BY <1>3, <1>12, <2>1
  <2>2. CASE k = n + 1
    <3>1. a + k - 1 = b
      BY <1>2, <2>2
    <3> QED BY <1>10, <1>12, <2>2, <3>1
  <2>3. k \in 1..n \/ k = n + 1
    BY <1>2
  <2> QED BY <2>1, <2>2, <2>3
<1>14. u = t
  <2>1. u = [k \in 1..n + 1 |-> u[k]]
    BY <1>2, <1>12
  <2> QED BY <1>5, <1>13, <2>1
<1> QED BY <1>4, <1>6, <1>10, <1>11, <1>14


\* Going from frame to frame with the inputs of the game, a peer stays in the game.
LEMMA StandsIs ==
  ASSUME NEW w, NEW i, NEW p, NEW t \in Netplays(i), Leading(i, p, t),
         p.other \in Nat, t.other \in Nat, p.other <= t.other, t.other <= t.run, ~t.force_rewind,
         \A f \in p.other..t.other - 1 : Known(At(i, p, f)) = Board(w, f)
  PROVE  /\ Certain(i, t).load = Certain(i, p).load
         /\ \A a \in Nat : a <= p.other /\ Certain(i, p).inputs = Official(w, a, p.other) =>
              Certain(i, t).inputs = Official(w, a, t.other)
<1>1. PICK l : l = Certain(i, p).load
  OBVIOUS
<1>2. t.run \in Nat
  BY PeerTypes, FramesNat
<1>3. \A f \in Nat : Stands(i, t, f) \in Cores
  <2>1. \A f \in Nat : At(i, t, f) \in Deltas
    BY RingPlace
  <2>2. t.core \in Cores
    BY PeerTypes
  <2> QED BY <2>1, <2>2, DeltaTypes DEF Stands
<1>4. \A s \in Cores : \A x : /\ CoreRun(s, x).load = s.load
                              /\ CoreRun(s, x).inputs = Append(s.inputs, x)
  BY DEF Cores, CoreRun
<1>5. ASSUME NEW f \in p.other..t.other - 1
      PROVE  /\ Stands(i, t, f + 1).load = Stands(i, t, f).load
             /\ Stands(i, t, f + 1).inputs = Append(Stands(i, t, f).inputs, Board(w, f))
  <2>1. f \in Nat
    OBVIOUS
  <2>2. Stands(i, t, f + 1) = CoreRun(Stands(i, t, f), Known(At(i, p, f)))
    BY <1>5 DEF Leading
  <2>3. Stands(i, t, f) \in Cores
    BY <1>3, <2>1
  <2> QED BY <1>4, <1>5, <2>2, <2>3
<1>6. Stands(i, t, p.other) = Certain(i, p)
  BY DEF Leading
<1>7. Certain(i, t) = Stands(i, t, t.other)
  BY <1>2 DEF Certain, Stands
<1>8. ASSUME NEW f \in p.other..t.other
      PROVE  Stands(i, t, f).load = l
  <2>1. PICK Bad : Bad = { g \in Nat : p.other <= g /\ g <= t.other /\ Stands(i, t, g).load # l }
    OBVIOUS
  <2>2. SUFFICES ASSUME Bad # {} PROVE FALSE
    BY <1>8, <2>1
  <2>3. PICK m \in Bad : \A n \in Bad : m <= n
    BY <2>1, <2>2, LeastNat
  <2>4. m \in Nat /\ p.other <= m /\ m <= t.other /\ Stands(i, t, m).load # l
    BY <2>1, <2>3
  <2>5. m # p.other
    BY <1>1, <1>6, <2>4
  <2>6. PICK n : n = m - 1
    OBVIOUS
  <2>7. n \in Nat /\ n \in p.other..t.other - 1 /\ m = n + 1 /\ n \notin Bad
    BY <2>3, <2>4, <2>5, <2>6
  <2>8. Stands(i, t, n).load = l
    BY <2>1, <2>7
  <2>9. Stands(i, t, m).load = l
    BY <1>5, <2>7, <2>8
  <2> QED BY <2>4, <2>9
<1>9. ASSUME NEW a \in Nat, a <= p.other, Certain(i, p).inputs = Official(w, a, p.other),
             NEW f \in p.other..t.other
      PROVE  Stands(i, t, f).inputs = Official(w, a, f)
  <2>1. PICK Bad : Bad = { g \in Nat : p.other <= g /\ g <= t.other
                                       /\ Stands(i, t, g).inputs # Official(w, a, g) }
    OBVIOUS
  <2>2. SUFFICES ASSUME Bad # {} PROVE FALSE
    BY <1>9, <2>1
  <2>3. PICK m \in Bad : \A n \in Bad : m <= n
    BY <2>1, <2>2, LeastNat
  <2>4. m \in Nat /\ p.other <= m /\ m <= t.other
        /\ Stands(i, t, m).inputs # Official(w, a, m)
    BY <2>1, <2>3
  <2>5. m # p.other
    BY <1>6, <1>9, <2>4
  <2>6. PICK n : n = m - 1
    OBVIOUS
  <2>7. n \in Nat /\ n \in p.other..t.other - 1 /\ m = n + 1 /\ n \notin Bad /\ a <= n
    BY <1>9, <2>3, <2>4, <2>5, <2>6
  <2>8. Stands(i, t, n).inputs = Official(w, a, n)
    BY <2>1, <2>7
  <2>9. Stands(i, t, m).inputs = Append(Official(w, a, n), Board(w, n))
    BY <1>5, <2>7, <2>8
  <2>10. Official(w, a, m) = Append(Official(w, a, n), Board(w, n))
    BY <2>7, OfficialNext
  <2> QED BY <2>4, <2>9, <2>10
<1>10. t.other \in p.other..t.other
  OBVIOUS
<1>11. Certain(i, t).load = Certain(i, p).load
  BY <1>1, <1>7, <1>8, <1>10
<1>12. ASSUME NEW a \in Nat, a <= p.other, Certain(i, p).inputs = Official(w, a, p.other)
       PROVE  Certain(i, t).inputs = Official(w, a, t.other)
  BY <1>7, <1>9, <1>10, <1>12
<1> QED BY <1>11, <1>12

\* What a peer has become certain of is the game.
LEMMA EndingCertain ==
  ASSUME NEW w \in Games, NEW P, NEW Q, Sound(P), Sound(Q), NEW i \in Peers,
         NEW ts, NEW tc, GameInv(w, P, ts, tc), Moves(w, w, P, Q, i),
         Ending(i, P[i], Q[i]), Leading(i, P[i], Q[i])
  PROVE  Agrees(w, Q, i) /\ Certain(i, Q[i]).load = Certain(i, P[i]).load
<1>1. PICK p : p = P[i]
  OBVIOUS
<1>2. PICK t : t = Q[i]
  OBVIOUS
<1>3. p \in Netplays(i) /\ t \in Netplays(i) /\ Counted(i, t)
  BY <1>1, <1>2 DEF Sound, PeerInv
<1>4. /\ ~t.force_rewind /\ t.players = p.players /\ t.server = p.server /\ t.read = p.read
      /\ t.loads = p.loads /\ p.other <= t.other /\ t.other <= t.run
  BY <1>1, <1>2 DEF Ending
<1>5. Leading(i, p, t)
  BY <1>1, <1>2
<1>6. /\ p.other \in Nat /\ t.other \in Nat /\ t.run \in Nat /\ t.self \in Nat /\ p.server \in Nat
      /\ t.other \in Frames /\ t.run <= t.self /\ p.players \subseteq Peers
      /\ \A c \in Peers : p.read[c] \in Nat
  <2>1. p.read \in [Peers -> Counts]
    BY <1>3, PeerTypes
  <2> QED BY <1>3, <2>1, PeerTypes, FramesNat DEF Counted
<1>7. ASSUME NEW f \in p.other..t.other - 1
      PROVE  f \in Frames /\ Covers(i, p, f)
  <2>1. f \in Nat /\ p.other <= f /\ f < t.other
    BY <1>6
  <2>2. f \in Frames
    BY <1>6, <2>1, NetplayAssumption DEF Frames
  <2>3. Has(i, p, f)
    BY <1>5, <1>7 DEF Leading
  <2>4. ASSUME NEW c \in p.players PROVE f < p.read[c]
    <3>1. t.other <= p.read[c]
      BY <1>3, <1>4 DEF Counted
    <3> QED BY <1>6, <2>1, <3>1
  <2>5. ASSUME i # Server PROVE f < p.server
    <3>1. t.other <= p.server
      BY <1>3, <1>4, <2>5 DEF Counted
    <3> QED BY <1>6, <2>1, <3>1
  <2> QED BY <2>1, <2>2, <2>3, <2>4, <2>5 DEF Covers
<1>8. ASSUME NEW f \in p.other..t.other - 1
      PROVE  /\ Known(At(i, p, f)) = Board(w, f)
             /\ \A c \in Peers \ {i} : Settled(w, P, c, f)
  <2>1. f \in Frames /\ Covers(i, P[i], f)
    BY <1>1, <1>7
  <2> QED BY <1>1, <2>1, BoardIs
<1>9. /\ Certain(i, t).load = Certain(i, p).load
      /\ \A a \in Nat : a <= p.other /\ Certain(i, p).inputs = Official(w, a, p.other) =>
           Certain(i, t).inputs = Official(w, a, t.other)
  <2>1. \A f \in p.other..t.other - 1 : Known(At(i, p, f)) = Board(w, f)
    BY <1>8
  <2> QED BY <1>3, <1>4, <1>5, <1>6, <2>1, StandsIs
<1>10. SUFFICES ASSUME Certain(i, p).load # Unsynced PROVE Agrees(w, Q, i)
  BY <1>1, <1>2, <1>9 DEF Agrees
<1>11. PICK l : l = Certain(i, p).load
  OBVIOUS
<1>12. PICK a : a = w.from[l]
  OBVIOUS
<1>13. /\ l \in 0..P[Server].loads /\ a <= p.other
       /\ Certain(i, p).inputs = Official(w, a, p.other)
       /\ \A c \in Peers : \A g \in a..p.other - 1 : Settled(w, P, c, g)
  BY <1>1, <1>10, <1>11, <1>12 DEF GameInv, Agrees
<1>14. l \in Nat /\ a \in Nat
  <2>1. l \in Nat
    BY <1>13, ServerCounts
  <2> QED BY <1>12, <2>1, GameTypes
<1>15. Certain(i, t).inputs = Official(w, a, t.other)
  BY <1>9, <1>13, <1>14
<1>16. l \in 0..Q[Server].loads
  <2>1. P[Server].loads <= Q[Server].loads
    BY DEF Moves
  <2> QED BY <1>13, <2>1, ServerCounts
<1>17. P[Server].read[Server] \in Nat /\ p.other <= P[Server].read[Server]
  BY <1>1, CertainIsSent
<1>18. Q[Server].players = P[Server].players
  <2>1. CASE i = Server
    BY <1>1, <1>2, <1>4, <2>1
  <2>2. CASE i # Server
    BY <2>2, ClientsArePeers DEF Moves
  <2> QED BY <2>1, <2>2
<1>19. ASSUME NEW c \in Peers, NEW g \in a..t.other - 1
       PROVE  Settled(w, Q, c, g)
  <2>1. g \in Nat
    BY <1>14
  <2>2. CASE g < p.other
    <3>1. g < P[Server].read[Server] /\ g \in a..p.other - 1
      BY <1>6, <1>14, <1>17, <2>1, <2>2
    <3>2. Settled(w, P, c, g)
      BY <1>13, <3>1
    <3> QED BY <2>1, <3>1, <3>2, SettledStays
  <2>3. CASE ~(g < p.other) /\ c = i
    <3>1. g < t.self
      BY <1>4, <1>6, <1>14, <2>1
    <3> QED BY <1>2, <2>3, <3>1 DEF Settled
  <2>4. CASE ~(g < p.other) /\ c # i
    <3>1. g \in p.other..t.other - 1
      BY <1>6, <1>14, <2>1, <2>4
    <3>2. Settled(w, P, c, g)
      BY <1>8, <2>4, <3>1
    <3>3. Q[c] = P[c]
      BY <2>4 DEF Moves
    <3> QED BY <1>18, <3>2, <3>3 DEF Settled
  <2> QED BY <2>2, <2>3, <2>4
<1>20. a <= t.other
  BY <1>4, <1>6, <1>13, <1>14
<1>21. Agrees(w, Q, i)
  <2>1. Certain(i, Q[i]).load = l /\ w.from[l] = a /\ Q[i].other = t.other
        /\ Certain(i, Q[i]).inputs = Official(w, a, t.other)
    BY <1>2, <1>9, <1>11, <1>12, <1>15
  <2> QED BY <1>16, <1>19, <1>20, <2>1 DEF Agrees
<1> QED BY <1>21

\* A peer that ends a frame, and asks nothing but to stall, goes on.
LEMMA EndingAgrees ==
  ASSUME NEW w \in Games, NEW P, NEW Q, Sound(P), Sound(Q), NEW i \in Peers,
         NEW ts, NEW tc, GameInv(w, P, ts, tc), Mail(ts, tc),
         \A j \in Peers : j # i => Q[j] = P[j],
         Ending(i, P[i], Q[i]), Leading(i, P[i], Q[i]),
         NEW x, NEW y, Mail(x, y), \A c \in Clients : DOMAIN x[c] = {},
         \A c \in Clients : \A k \in DOMAIN y[c] : y[c][k].type = "stall",
         NEW us, NEW uc, Puts(ts, x, us), Puts(tc, y, uc)
  PROVE  GoesOn(w, P, Q, us, uc)
<1>1. PICK p : p = P[i]
  OBVIOUS
<1>2. PICK t : t = Q[i]
  OBVIOUS
<1>3. /\ t.players = p.players /\ t.server = p.server /\ t.read = p.read
      /\ t.connected = p.connected /\ t.asked = p.asked /\ t.loads = p.loads
      /\ p.self <= t.self /\ p.other <= t.other
  BY <1>1, <1>2 DEF Ending
<1>4. p \in Netplays(i) /\ w.joined[Server] = 0 /\ Knows(w, i, p)
  BY <1>1 DEF Sound, PeerInv, GameInv, Knows
<1>5. p.loads \in Nat /\ p.read[Server] \in Nat
  <2>1. p.loads \in 0..MaxLoads /\ p.read \in [Peers -> Counts]
    BY <1>4, PeerTypes
  <2>2. p.loads \in Nat
    BY <2>1
  <2>3. p.read[Server] \in Counts
    BY <2>1, ClientsArePeers
  <2> QED BY <2>2, <2>3, FramesNat
<1>6. Moves(w, w, P, Q, i)
  <2>1. /\ P[i].self <= Q[i].self /\ P[i].loads <= Q[i].loads
        /\ i = Server => Q[i].players = P[i].players /\ P[i].read[Server] <= Q[i].read[Server]
    BY <1>1, <1>2, <1>3, <1>5
  <2> QED BY <1>4, <2>1, LaterMoves
<1>7. Knows(w, i, t)
  BY <1>1, <1>2, <1>4, EndingKnows
<1>8. Agrees(w, Q, i) /\ Certain(i, Q[i]).load = Certain(i, P[i]).load
  BY <1>6, EndingCertain
<1>9. Posts(w, Q, tc, y)
  BY DEF Posts, ToClient, Tells, InOrder
<1>10. Writes(w, P, Q, x)
  BY DEF Writes
<1>11. GameInv(w, Q, us, uc)
  <2>1. Knows(w, i, Q[i]) /\ Q[i].players = P[i].players /\ Q[i].server = P[i].server
        /\ Q[i].connected = P[i].connected /\ Q[i].asked = P[i].asked
    BY <1>1, <1>2, <1>3, <1>7
  <2> QED BY <1>6, <1>8, <1>9, <1>10, <2>1, SendingAgrees
<1>12. Onward(w, w, P, Q, i)
  BY <1>1, <1>2, <1>3, <1>6, <1>8 DEF Onward
<1> QED BY <1>11, <1>12 DEF GoesOn

\* In the frame in which a client loads a savestate that is ahead of it, it does not stall.
LoadsGoOn ==
  \A i \in Peers :
    peer[i].polling /\ peer[i].other > peer[i].run /\ ~peer'[i].polling /\ peer'[i].connected
      => peer'[i].run > peer[i].run

\* A peer that ends a frame goes on.
LEMMA FrameEndsAgrees ==
  ASSUME IInv, IInv', NEW w \in Games, GameInv(w, peer, toServer, toClient),
         LoadsGoOn, NEW i \in Peers, FrameEnds(i)
  PROVE  GoesOn(w, peer, peer', toServer', toClient')
<1>1. PICK P : P = peer
  OBVIOUS
<1>2. PICK Q : Q = peer'
  OBVIOUS
<1>3. PICK ts : ts = toServer
  OBVIOUS
<1>4. PICK tc : tc = toClient
  OBVIOUS
<1>5. PICK us : us = toServer'
  OBVIOUS
<1>6. PICK uc : uc = toClient'
  OBVIOUS
<1>7. PICK o : o = P[i]
  OBVIOUS
<1>8. /\ Sound(P) /\ Sound(Q) /\ Mail(ts, tc) /\ P = [j \in Peers |-> P[j]]
      /\ ts = [b \in Clients |-> ts[b]] /\ tc = [b \in Clients |-> tc[b]]
      /\ GameInv(w, P, ts, tc)
  BY <1>1, <1>2, <1>3, <1>4, Setting
<1>9. Mail(us, uc)
  <2>1. Mail(toServer, toClient)'
    BY FromIInv, PTL
  <2> QED BY <1>5, <1>6, <2>1 DEF Mail
<1>10. o.polling /\ o.connected
  BY <1>1, <1>7 DEF FrameEnds
<1>11. PeerInv(i, o) /\ Saves(i, o)
  BY <1>7, <1>8 DEF Sound, GameInv
<1>12. PICK q \in netplay_poll(i, o) :
         LET r   == Ended(i, q)
             ask == IF i = Server /\ ~Stalling(i, q) /\ ~Alone(i, r) THEN AskedToStall(r) ELSE {}
         IN /\ peer' = [peer EXCEPT ![i] = [Asking(r, ask) EXCEPT !.polling = FALSE]]
            /\ toClient' = [c \in Clients |->
                  IF c \in ask THEN Append(toClient[c], StallMsg(r.read[c] - r.self + 1))
                  ELSE toClient[c]]
            /\ UNCHANGED toServer
  BY <1>1, <1>7 DEF FrameEnds
<1>13. PICK r : r = Ended(i, q)
  OBVIOUS
<1>14. PICK ask : ask = IF i = Server /\ ~Stalling(i, q) /\ ~Alone(i, r) THEN AskedToStall(r) ELSE {}
  OBVIOUS
<1>15. PICK t : t = [Asking(Ended(i, q), ask) EXCEPT !.polling = FALSE]
  OBVIOUS
<1>16. /\ Q = [P EXCEPT ![i] = t]
       /\ uc = [c \in Clients |->
                  IF c \in ask THEN Append(tc[c], StallMsg(r.read[c] - r.self + 1)) ELSE tc[c]]
       /\ us = ts
  BY <1>1, <1>2, <1>3, <1>4, <1>5, <1>6, <1>12, <1>13, <1>14, <1>15
<1>17. Q[i] = t /\ \A j \in Peers : j # i => Q[j] = P[j]
  BY <1>8, <1>16
<1>18. PICK a, z : EndsVia(i, o, a, z, t)
  BY <1>10, <1>11, <1>15, EndsAs
<1>19. o.other > o.run => t.run > o.run
  <2>1. ~t.polling
    BY <1>18 DEF EndsVia
  <2>2. t.connected
    <3>1. z.connected = a.connected
      BY <1>18 DEF EndsVia, Settles, Again
    <3> QED BY <1>10, <1>18, <3>1 DEF EndsVia, Ran
  <2>3. peer[i] = o /\ peer'[i] = t
    BY <1>1, <1>2, <1>7, <1>17
  <2> QED BY <1>10, <2>1, <2>2, <2>3 DEF LoadsGoOn
<1>20. Ending(i, o, t) /\ Leading(i, o, t)
  BY <1>10, <1>11, <1>18, <1>19, EndingIs, LeadingIs
<1>21. PICK x : x = [c \in Clients |-> <<>>]
  OBVIOUS
<1>22. Mail(x, x) /\ \A c \in Clients : x[c] = <<>> /\ DOMAIN x[c] = {}
  BY <1>21, NoMail
<1>23. PICK y : y = [c \in Clients |-> IF c \in ask THEN <<StallMsg(r.read[c] - r.self + 1)>> ELSE <<>>]
  OBVIOUS
<1>24. ASSUME NEW c \in Clients
       PROVE  /\ y[c] \in Seq(FromServer) /\ uc[c] = tc[c] \o y[c]
              /\ \A k \in DOMAIN y[c] : y[c][k].type = "stall"
  <2>1. PICK m : m = StallMsg(r.read[c] - r.self + 1)
    OBVIOUS
  <2>2. PICK s : s = tc[c]
    OBVIOUS
  <2>3. s \in Seq(FromServer) /\ uc[c] \in Seq(FromServer)
    BY <1>8, <1>9, <2>2 DEF Mail
  <2>4. CASE c \in ask
    <3>1. uc[c] = Append(s, m) /\ y[c] = <<m>>
      BY <1>16, <1>23, <2>1, <2>2, <2>4
    <3>2. m \in FromServer
      <4>1. Append(s, m) \in Seq(FromServer)
        BY <2>3, <3>1
      <4>2. Len(s) + 1 \in DOMAIN Append(s, m) /\ Append(s, m)[Len(s) + 1] = m
        BY <2>3
      <4> QED BY <4>1, <4>2
    <3>3. Append(s, m) = s \o <<m>> /\ <<m>> \in Seq(FromServer)
          /\ DOMAIN <<m>> = {1} /\ <<m>>[1] = m
      BY <2>3, <3>2
    <3>4. m.type = "stall"
      BY <2>1 DEF StallMsg
    <3> QED BY <2>2, <3>1, <3>3, <3>4
  <2>5. CASE c \notin ask
    <3>1. uc[c] = s /\ y[c] = <<>>
      BY <1>16, <1>23, <2>2, <2>5
    <3>2. s \o <<>> = s /\ <<>> \in Seq(FromServer) /\ DOMAIN <<>> = {}
      BY <2>3
    <3> QED BY <2>2, <3>1, <3>2
  <2> QED BY <2>4, <2>5
<1>25. Mail(x, y) /\ Puts(tc, y, uc)
  BY <1>22, <1>24 DEF Mail, Puts
<1>26. Puts(ts, x, us)
  <2>1. ASSUME NEW S, NEW s \in Seq(S)
        PROVE  s = s \o <<>>
    OBVIOUS
  <2>2. \A c \in Clients : us[c] = ts[c] \o x[c]
    BY <1>8, <1>16, <1>22, <2>1 DEF Mail
  <2> QED BY <2>2 DEF Puts
<1>27. Ending(i, P[i], Q[i]) /\ Leading(i, P[i], Q[i])
  BY <1>7, <1>17, <1>20
<1>28. GoesOn(w, P, Q, us, uc)
  BY <1>8, <1>17, <1>22, <1>24, <1>25, <1>26, <1>27, EndingAgrees
<1> QED BY <1>1, <1>2, <1>5, <1>6, <1>28

-----------------------------------------------------------------------------
(* The game begins. *)

\* A peer at first: the server is in its first frame, of which the clients have nothing.
Opening(i, p) ==
  /\ p.playing = (i = Server) /\ p.players = {Server} /\ p.self = Start /\ p.run = Start
  /\ p.other = Start /\ p.server = Start /\ ~p.force_rewind /\ p.polling /\ ~p.asked
  /\ p.loads = 0 /\ p.read[Server] = IF i = Server THEN Start + 1 ELSE Start
  /\ p.core = Core(IF i = Server THEN 0 ELSE Unsynced)
  /\ DOMAIN p.ring = 1..BufferSize(i)
  /\ At(i, p, Start).frame = Start /\ At(i, p, Start).have_local /\ At(i, p, Start).state = p.core
  /\ At(i, p, Start).have_real = IF i = Server THEN {Server} ELSE {}
  /\ At(i, p, Start).real[Server] = Zero
  /\ \A k \in 1..BufferSize(i) : k # Place(i, Start) => p.ring[k].have_real = {}

\* Such a peer there is at each place.
LEMMA OpeningIs ==
  ASSUME Init, NEW i \in Peers
  PROVE  Opening(i, peer[i])
<1> DEFINE
      first == [Fresh(Start, Core(IF i = Server THEN 0 ELSE Unsynced)) EXCEPT
                     !.have_local = TRUE, !.have_real = IF i = Server THEN {Server} ELSE {}]
      empty == Fresh(Unused, Core(Unsynced))
      new ==
        [ playing     |-> i = Server,      players |-> {Server},
          self        |-> Start,           run     |-> Start,
          other       |-> Start,           server  |-> Start,
          read        |-> [c \in Peers |-> IF i = Server /\ c = i THEN Start + 1 ELSE Start],
          stall       |-> "none",          stall_frame |-> 0,
          stall_sent  |-> [c \in Clients |-> 0],
          latency     |-> 0,               timed   |-> FALSE,
          force_rewind |-> FALSE,          force_send |-> i = Server,
          asked       |-> FALSE,           outstanding |-> FALSE,
          ring        |-> [k \in 1..BufferSize(i) |->
                             IF k = (Start % BufferSize(i)) + 1 THEN first ELSE empty],
          core        |-> first.state,
          loads       |-> 0,
          polling     |-> TRUE,            connected |-> TRUE ]
<1>1. peer[i] = new
  BY DEF Init
<1>2. /\ first.frame = Start /\ first.have_local
      /\ first.have_real = IF i = Server THEN {Server} ELSE {}
      /\ first.state = Core(IF i = Server THEN 0 ELSE Unsynced)
      /\ first.real[Server] = Zero
  BY ClientsArePeers DEF Fresh
<1>3. empty.have_real = {}
  BY DEF Fresh
<1> HIDE DEF first, empty
<1>4. PICK p : p = new
  OBVIOUS
<1>5. PICK ring : ring = [k \in 1..BufferSize(i) |->
                             IF k = (Start % BufferSize(i)) + 1 THEN first ELSE empty]
  OBVIOUS
<1>6. /\ p.playing = (i = Server) /\ p.players = {Server} /\ p.self = Start /\ p.run = Start
      /\ p.other = Start /\ p.server = Start /\ ~p.force_rewind /\ p.polling /\ ~p.asked
      /\ p.loads = 0
      /\ p.read = [c \in Peers |-> IF i = Server /\ c = i THEN Start + 1 ELSE Start]
      /\ p.core = first.state /\ p.ring = ring
  BY <1>4, <1>5
<1> HIDE DEF new
<1>7. p.read[Server] = IF i = Server THEN Start + 1 ELSE Start
  BY <1>6, ClientsArePeers
<1>8. Start \in Int
  BY NetplayAssumption
<1>9. Place(i, Start) \in 1..BufferSize(i) /\ Place(i, Start) = (Start % BufferSize(i)) + 1
  BY <1>8, PlaceIs DEF Place
<1>10. At(i, p, Start) = first
  BY <1>5, <1>6, <1>9 DEF At
<1>11. \A k \in 1..BufferSize(i) : k # Place(i, Start) => p.ring[k] = empty
  BY <1>5, <1>6, <1>9
<1>12. DOMAIN p.ring = 1..BufferSize(i)
  BY <1>5, <1>6
<1>13. Opening(i, p)
  BY <1>2, <1>3, <1>6, <1>7, <1>10, <1>11, <1>12 DEF Opening
<1> QED BY <1>1, <1>4, <1>13

\* The game in which the server has taken its input of the first frame.
FirstGame ==
  [ made   |-> [c \in Peers |-> IF c = Server THEN {Start} ELSE {}],
    real   |-> [c \in Peers |-> [f \in Frames |-> Zero]],
    joined |-> [c \in Peers |-> 0],
    from   |-> [l \in Nat |-> Start] ]

\* What it is.
LEMMA FirstGameIs ==
  /\ FirstGame \in Games
  /\ \A c \in Peers : /\ FirstGame.made[c] = IF c = Server THEN {Start} ELSE {}
                      /\ FirstGame.joined[c] = 0
  /\ FirstGame.real[Server][Start] = Zero /\ FirstGame.from[0] = Start
<1>1. Start \in Frames /\ 0 \in Counts /\ Zero \in SUBSET Buttons /\ Server \in Peers
  BY NetplayAssumption, ClientsArePeers DEF Frames, Counts, Zero
<1>2. /\ [c \in Peers |-> IF c = Server THEN {Start} ELSE {}] \in [Peers -> SUBSET Frames]
      /\ [c \in Peers |-> [f \in Frames |-> Zero]] \in [Peers -> [Frames -> SUBSET Buttons]]
      /\ [c \in Peers |-> 0] \in [Peers -> Counts]
      /\ [l \in Nat |-> Start] \in [Nat -> Frames]
  BY <1>1
<1>3. FirstGame \in Games
  BY <1>2 DEF FirstGame, Games
<1> QED BY <1>1, <1>3 DEF FirstGame

\* A peer knows that game at first.
LEMMA OpeningKnows ==
  ASSUME NEW i \in Peers, NEW p, Opening(i, p)
  PROVE  Knows(FirstGame, i, p)
<1>1. PICK w : w = FirstGame
  OBVIOUS
<1>2. /\ \A c \in Peers : w.made[c] = (IF c = Server THEN {Start} ELSE {}) /\ w.joined[c] = 0
      /\ w.real[Server][Start] = Zero
  BY <1>1, FirstGameIs
<1>3. Start \in Nat /\ Server \in Peers
  BY NetplayAssumption, ClientsArePeers
<1>4. /\ p.playing = (i = Server) /\ p.players = {Server} /\ p.self = Start /\ p.run = Start
      /\ p.other = Start /\ ~p.force_rewind /\ p.polling
      /\ p.read[Server] = IF i = Server THEN Start + 1 ELSE Start
      /\ DOMAIN p.ring = 1..BufferSize(i)
      /\ Has(i, p, Start) /\ At(i, p, Start).have_local /\ At(i, p, Start).state = p.core
      /\ At(i, p, Start).have_real = (IF i = Server THEN {Server} ELSE {})
      /\ At(i, p, Start).real[Server] = Zero
      /\ \A k \in 1..BufferSize(i) : k # Place(i, Start) => p.ring[k].have_real = {}
  BY DEF Opening, Has
<1>5. Heard(w, p)
  <2>1. ASSUME NEW k \in DOMAIN p.ring, NEW c \in p.ring[k].have_real
        PROVE  p.ring[k].frame \in w.made[c] /\ p.ring[k].real[c] = w.real[c][p.ring[k].frame]
    <3>1. k = Place(i, Start) /\ p.ring[k] = At(i, p, Start)
      BY <1>4, <2>1 DEF At
    <3>2. c = Server
      BY <1>4, <2>1, <3>1
    <3> QED BY <1>2, <1>3, <1>4, <3>1, <3>2 DEF Has
  <2> QED BY <2>1 DEF Heard
<1>6. Takes(w, i, p)
  <2>1. i # Server => w.made[i] = {}
    BY <1>2
  <2>2. \A g \in w.made[i] : i = Server /\ g = Start
    BY <1>2
  <2>3. \A g \in Frames : ~(g < w.joined[i])
    <3>1. \A g \in Nat : ~(g < 0)
      OBVIOUS
    <3> QED BY <1>2, <3>1, FramesNat
  <2>4. w.joined[i] <= Start
    BY <1>2, <1>3
  <2>5. p.playing <=> i \in p.players
    BY <1>4
  <2>6. i \notin p.players => w.made[i] = {}
    BY <1>4, <2>1
  <2>7. \A g \in w.made[i] : w.joined[i] <= g /\ g <= p.self
    BY <1>3, <1>4, <2>2, <2>4
  <2>8. At(i, p, p.self).have_local
    BY <1>4
  <2>9. \A g \in w.made[i] : Has(i, p, g) /\ i \in At(i, p, g).have_real
    BY <1>4, <2>2
  <2> QED BY <2>3, <2>5, <2>6, <2>7, <2>8, <2>9 DEF Takes
<1>7. Reads(w, i, p)
  <2>1. ASSUME NEW c \in p.players \ {i}
        PROVE  /\ w.joined[c] <= p.read[c]
               /\ \A g \in Frames : ~(p.other <= g /\ g < p.read[c])
    <3>1. c = Server /\ p.read[c] = Start /\ p.other = Start
      BY <1>4, <2>1
    <3>2. \A g \in Nat : ~(Start <= g /\ g < Start)
      BY <1>3
    <3>3. w.joined[c] <= p.read[c]
      BY <1>2, <1>3, <3>1
    <3>4. \A g \in Frames : ~(Start <= g /\ g < Start)
      BY <3>2, FramesNat
    <3> QED BY <3>1, <3>3, <3>4
  <2> QED BY <2>1 DEF Reads
<1>8. Saves(i, p)
  BY <1>4 DEF Saves
<1> QED BY <1>1, <1>5, <1>6, <1>7, <1>8 DEF Knows

\* All peers are in one game at first.
LEMMA InitAgrees ==
  ASSUME Init
  PROVE  GameInv(FirstGame, peer, toServer, toClient)
<1>1. PICK w : w = FirstGame
  OBVIOUS
<1>2. PICK P : P = peer
  OBVIOUS
<1>3. /\ \A c \in Peers : w.made[c] = (IF c = Server THEN {Start} ELSE {}) /\ w.joined[c] = 0
      /\ w.real[Server][Start] = Zero /\ w.from[0] = Start
  BY <1>1, FirstGameIs
<1>4. \A i \in Peers : Opening(i, P[i])
  BY <1>2, OpeningIs
<1>5. Start \in Nat /\ Start \in Int /\ Server \in Peers
  BY NetplayAssumption, ClientsArePeers
<1>6. ASSUME NEW i \in Peers
      PROVE  Agrees(w, P, i)
  <2>1. PICK p : p = P[i]
    OBVIOUS
  <2>2. /\ p.other = Start /\ p.run = Start /\ ~p.force_rewind
        /\ p.core = Core(IF i = Server THEN 0 ELSE Unsynced)
    BY <1>4, <2>1 DEF Opening
  <2>3. Certain(i, p) = Core(IF i = Server THEN 0 ELSE Unsynced)
    BY <1>5, <2>2 DEF Certain
  <2>4. CASE i # Server
    <3>1. Certain(i, p).load = Unsynced
      BY <2>3, <2>4 DEF Core
    <3> QED BY <2>1, <3>1 DEF Agrees
  <2>5. CASE i = Server
    <3>1. Certain(i, p).load = 0 /\ Certain(i, p).inputs = <<>>
      BY <2>3, <2>5 DEF Core
    <3>2. Official(w, Start, Start) = <<>>
      BY <1>5, OfficialOfNone
    <3>3. Start..Start - 1 = {}
      BY <1>5
    <3>4. P[Server].loads = 0 /\ 0 \in 0..0
      BY <1>4, <1>5 DEF Opening
    <3>5. Start <= Start
      BY <1>5
    <3> QED BY <1>3, <2>1, <2>2, <3>1, <3>2, <3>3, <3>4, <3>5 DEF Agrees
  <2> QED BY <2>4, <2>5
<1>7. \A i \in Peers : Heard(w, P[i]) /\ Takes(w, i, P[i]) /\ Reads(w, i, P[i]) /\ Saves(i, P[i])
  BY <1>1, <1>4, OpeningKnows DEF Knows
<1>8. ASSUME NEW c \in Clients
      PROVE  /\ Follows(w, P, c, toClient[c])
             /\ ToServer(w, P, c, toServer[c]) /\ ToClient(w, P, c, toClient[c])
  <2>1. c \in Peers /\ c # Server
    BY ClientsArePeers, NetplayAssumption
  <2>2. /\ P[c].players = {Server} /\ P[c].server = Start
        /\ P[Server].players = {Server} /\ P[Server].read[Server] = Start + 1
    BY <1>4, <1>5, <2>1 DEF Opening
  <2>3. PICK m : m = InputMsg(Start, Server, Zero)
    OBVIOUS
  <2>4. toServer[c] = <<>> /\ toClient[c] = <<m>>
    BY <2>3 DEF Init
  <2>5. DOMAIN <<>> = {} /\ DOMAIN <<m>> = {1} /\ <<m>>[1] = m
    OBVIOUS
  <2>6. Follows(w, P, c, toClient[c])
    BY <1>5, <2>2 DEF Follows
  <2>7. ToServer(w, P, c, toServer[c])
    BY <2>1, <2>2, <2>4, <2>5 DEF ToServer
  <2>8. Tells(w, P, c, m)
    <3>1. m.type = "input" /\ m.frame = Start /\ m.client = Server /\ m.input = Zero
      BY <2>3 DEF InputMsg
    <3> QED BY <1>3, <1>5, <2>2, <3>1 DEF Tells
  <2>9. ToClient(w, P, c, toClient[c])
    <3>1. \A k, l \in {1} : ~(k < l)
      OBVIOUS
    <3> QED BY <2>4, <2>5, <2>8, <3>1 DEF ToClient
  <2> QED BY <2>6, <2>7, <2>9
<1>9. w.joined[Server] = 0
  BY <1>3, <1>5
<1> QED BY <1>1, <1>2, <1>6, <1>7, <1>8, <1>9 DEF GameInv

-----------------------------------------------------------------------------
(* The peers play one game. *)

\* Whatever happens, the peers go on in one game.
LEMMA NextAgrees ==
  ASSUME IInv, IInv', NEW w \in Games, GameInv(w, peer, toServer, toClient), LoadsGoOn, Next
  PROVE  GoesOn(w, peer, peer', toServer', toClient')
<1>1. ASSUME NEW i \in Peers, FrameBegins(i)
      PROVE  GoesOn(w, peer, peer', toServer', toClient')
  BY <1>1, FrameBeginsAgrees
<1>2. ASSUME NEW i \in Peers, FrameEnds(i)
      PROVE  GoesOn(w, peer, peer', toServer', toClient')
  BY <1>2, FrameEndsAgrees
<1>3. ASSUME NEW c \in Clients, ServerReceives(c)
      PROVE  GoesOn(w, peer, peer', toServer', toClient')
  BY <1>3, ServerReceivesInputAgrees, ServerReceivesPlayAgrees, ServerReceivesRequestAgrees
     DEF ServerReceives
<1>4. ASSUME NEW c \in Clients, ClientReceives(c)
      PROVE  GoesOn(w, peer, peer', toServer', toClient')
  BY <1>4, ClientReceivesInputAgrees, ClientReceivesModeAgrees, ClientReceivesSavestateAgrees,
     ClientReceivesStallAgrees DEF ClientReceives
<1>5. ASSUME NEW c \in Clients, AsksToPlay(c)
      PROVE  GoesOn(w, peer, peer', toServer', toClient')
  BY <1>5, AsksToPlayAgrees
<1>6. ASSUME NEW c \in Clients, RequestsSavestate(c)
      PROVE  GoesOn(w, peer, peer', toServer', toClient')
  BY <1>6, RequestsSavestateAgrees
<1>7. ASSUME HostLoads
      PROVE  GoesOn(w, peer, peer', toServer', toClient')
  BY <1>7, HostLoadsAgrees
<1> QED BY <1>1, <1>2, <1>3, <1>4, <1>5, <1>6, <1>7 DEF Next

\* The inputs up to a frame are those up to a later one, as far as they go.
LEMMA OfficialPrefix ==
  ASSUME NEW w, NEW a \in Nat, NEW b \in Nat, NEW c \in Nat, a <= b, b <= c
  PROVE  Game!IsPrefix(Official(w, a, b), Official(w, a, c))
<1>1. PICK m : m = b - a
  OBVIOUS
<1>2. PICK n : n = c - a
  OBVIOUS
<1>3. m \in Nat /\ n \in Nat /\ m <= n
  BY <1>1, <1>2
<1>4. PICK S : S = { Board(w, a + k - 1) : k \in 1..n }
  OBVIOUS
<1>5. PICK s : s = [k \in 1..m |-> Board(w, a + k - 1)]
  OBVIOUS
<1>6. PICK t : t = [k \in 1..n |-> Board(w, a + k - 1)]
  OBVIOUS
<1>7. Official(w, a, b) = s /\ Official(w, a, c) = t
  BY <1>1, <1>2, <1>5, <1>6 DEF Official
<1>8. s \in Seq(S) /\ Len(s) = m /\ t \in Seq(S) /\ Len(t) = n
  <2>1. \A k \in 1..m : k \in 1..n
    BY <1>3
  <2>2. s \in [1..m -> S] /\ t \in [1..n -> S]
    BY <1>4, <1>5, <1>6, <2>1
  <2> QED BY <1>3, <2>2
<1>9. SubSeq(s, 1, m) = [k \in 1..m |-> s[k]] /\ SubSeq(t, 1, m) = [k \in 1..m |-> t[k]]
  BY <1>3, <1>8
<1>10. \A k \in 1..m : s[k] = t[k]
  BY <1>3, <1>5, <1>6
<1>11. SubSeq(s, 1, m) = SubSeq(t, 1, m)
  BY <1>9, <1>10
<1> QED BY <1>3, <1>7, <1>8, <1>11 DEF Game!IsPrefix

\* Of two that play from the same savestate, one has played what the other has, or more.
LEMMA AllInOne ==
  ASSUME NEW v \in Games, NEW Q, Sound(Q), NEW us, NEW uc, GameInv(v, Q, us, uc),
         NEW i \in Peers, NEW j \in Peers
  PROVE  Game!OneGame(Certain(i, Q[i]), Certain(j, Q[j]))
<1>1. PICK s : s = Certain(i, Q[i])
  OBVIOUS
<1>2. PICK t : t = Certain(j, Q[j])
  OBVIOUS
<1>3. SUFFICES ASSUME s.load # Unsynced, s.load = t.load
               PROVE  Game!IsPrefix(s.inputs, t.inputs) \/ Game!IsPrefix(t.inputs, s.inputs)
  BY <1>1, <1>2 DEF Game!OneGame
<1>4. PICK a : a = v.from[s.load]
  OBVIOUS
<1>5. /\ s.load \in 0..Q[Server].loads
      /\ a <= Q[i].other /\ s.inputs = Official(v, a, Q[i].other)
      /\ a <= Q[j].other /\ t.inputs = Official(v, a, Q[j].other)
  BY <1>1, <1>2, <1>3, <1>4 DEF GameInv, Agrees
<1>6. s.load \in Nat
  BY <1>5, ServerCounts
<1>7. a \in Nat
  BY <1>4, <1>6, GameTypes
<1>8. PICK b : b = Q[i].other
  OBVIOUS
<1>9. PICK c : c = Q[j].other
  OBVIOUS
<1>10. b \in Nat /\ c \in Nat
  BY <1>8, <1>9, CertainIsSent
<1>11. s.inputs = Official(v, a, b) /\ t.inputs = Official(v, a, c) /\ a <= b /\ a <= c
  BY <1>5, <1>8, <1>9
<1>12. CASE b <= c
  <2>1. Game!IsPrefix(Official(v, a, b), Official(v, a, c))
    BY <1>7, <1>10, <1>11, <1>12, OfficialPrefix
  <2> QED BY <1>11, <2>1
<1>13. CASE c <= b
  <2>1. Game!IsPrefix(Official(v, a, c), Official(v, a, b))
    BY <1>7, <1>10, <1>11, <1>13, OfficialPrefix
  <2> QED BY <1>11, <2>1
<1> QED BY <1>10, <1>12, <1>13

\* What a peer was certain of before a step it is certain of after it, unless it has
\* started anew.
Furthers(s, t) ==
  \/ t.load > s.load
  \/ /\ t.load = s.load
     /\ s.load = Unsynced \/ Game!IsPrefix(s.inputs, t.inputs)

\* A step takes the peer further in its game.
LEMMA OnwardFurthers ==
  ASSUME NEW w \in Games, NEW v \in Games, NEW P, NEW Q, Sound(P), Sound(Q), NEW i \in Peers,
         NEW ts, NEW tc, GameInv(w, P, ts, tc), NEW us, NEW uc, GameInv(v, Q, us, uc),
         Onward(w, v, P, Q, i)
  PROVE  Furthers(Certain(i, P[i]), Certain(i, Q[i]))
<1>1. PICK s : s = Certain(i, P[i])
  OBVIOUS
<1>2. PICK t : t = Certain(i, Q[i])
  OBVIOUS
<1>3. Moves(w, v, P, Q, i)
  BY DEF Onward
<1>4. s.load \in Int /\ t.load \in Int
  BY <1>1, <1>2, CertainTypes DEF Sound, PeerInv
<1>5. s.load < t.load \/ (s.load = t.load /\ (s.load = Unsynced \/ P[i].other <= Q[i].other))
  BY <1>1, <1>2 DEF Onward
<1>6. CASE s.load = t.load /\ s.load # Unsynced
  <2>1. PICK l : l = s.load
    OBVIOUS
  <2>2. PICK a : a = w.from[l]
    OBVIOUS
  <2>3. PICK b : b = P[i].other
    OBVIOUS
  <2>4. PICK c : c = Q[i].other
    OBVIOUS
  <2>5. /\ l \in 0..P[Server].loads /\ a <= b /\ s.inputs = Official(w, a, b)
        /\ \A d \in Peers : \A g \in a..b - 1 : Settled(w, P, d, g)
    BY <1>1, <1>6, <2>1, <2>2, <2>3 DEF GameInv, Agrees
  <2>6. l \in Nat
    BY <2>5, ServerCounts
  <2>7. a \in Nat /\ v.from[l] = a
    BY <1>3, <2>2, <2>5, <2>6, GameTypes DEF Moves
  <2>8. b \in Nat /\ c \in Nat
    BY <2>3, <2>4, CertainIsSent
  <2>9. b <= c
    BY <1>4, <1>5, <1>6, <2>3, <2>4
  <2>10. t.inputs = Official(v, a, c)
    BY <1>2, <1>6, <2>1, <2>4, <2>7 DEF GameInv, Agrees
  <2>11. Official(v, a, b) = Official(w, a, b)
    BY <1>3, <2>5, <2>7, <2>8, OfficialStays
  <2>12. Game!IsPrefix(Official(v, a, b), Official(v, a, c))
    BY <2>5, <2>7, <2>8, <2>9, OfficialPrefix
  <2> QED BY <1>1, <1>2, <1>6, <2>5, <2>10, <2>11, <2>12 DEF Furthers
<1>7. CASE ~(s.load = t.load /\ s.load # Unsynced)
  BY <1>1, <1>2, <1>4, <1>5, <1>7 DEF Furthers
<1> QED BY <1>6, <1>7

\* What a peer has run with inputs that are certain is the state it will not go back behind.
LEMMA ConfirmedIs ==
  ASSUME IInv
  PROVE  \A i \in Peers : Confirmed(i) = Certain(i, peer[i])
<1>1. ASSUME NEW i \in Peers
      PROVE  Confirmed(i) = Certain(i, peer[i])
  <2>1. PICK p : p = peer[i]
    OBVIOUS
  <2>2. p \in Netplays(i)
    BY <2>1, FromIInv DEF Sound, PeerInv
  <2>3. p.other \in Int
    BY <2>2, PeerTypes, FramesInt
  <2>4. Delta(p, p.other) = At(i, p, p.other)
    BY <2>2, <2>3, RingPlace
  <2> QED BY <2>1, <2>4 DEF Confirmed, Certain
<1> QED BY <1>1

\* All peers are in one game.
InOneGame == IInv /\ \E w \in Games : GameInv(w, peer, toServer, toClient)

\* What the peers are certain of.
Seen == [i \in Peers |-> Confirmed(i)]

\* They stay in one game, and a step is one of the game that all play.
LEMMA OneGameStep ==
  ASSUME InOneGame, [Next]_vars, [LoadsGoOn]_vars
  PROVE  InOneGame' /\ [Game!Next]_Seen
<1>1. IInv /\ IInv'
  BY NextKeeps DEF InOneGame
<1>2. PICK w \in Games : GameInv(w, peer, toServer, toClient)
  BY DEF InOneGame
<1>3. PICK P : P = peer
  OBVIOUS
<1>4. PICK Q : Q = peer'
  OBVIOUS
<1>5. Sound(P) /\ Sound(Q) /\ GameInv(w, P, toServer, toClient)
  BY <1>1, <1>2, <1>3, <1>4, Setting
<1>6. \A i \in Peers : Confirmed(i) = Certain(i, P[i]) /\ Confirmed(i)' = Certain(i, Q[i])
  <2>1. \A i \in Peers : Confirmed(i) = Certain(i, peer[i])
    BY <1>1, ConfirmedIs
  <2>2. (\A i \in Peers : Confirmed(i) = Certain(i, peer[i]))'
    BY <1>1, ConfirmedIs, PTL
  <2>3. \A i \in Peers : Confirmed(i)' = Certain(i, peer'[i])
    BY <2>2
  <2> QED BY <1>3, <1>4, <2>1, <2>3
<1>7. CASE UNCHANGED vars
  <2>1. peer' = peer /\ toServer' = toServer /\ toClient' = toClient
    BY <1>7 DEF vars
  <2>2. InOneGame'
    BY <1>1, <1>2, <2>1 DEF InOneGame
  <2>3. \A i \in Peers : Confirmed(i)' = Confirmed(i)
    BY <1>3, <1>4, <1>6, <2>1
  <2>4. Seen' = Seen
    BY <2>3 DEF Seen
  <2> QED BY <2>2, <2>4
<1>8. CASE ~(UNCHANGED vars)
  <2>1. GoesOn(w, peer, peer', toServer', toClient')
    BY <1>1, <1>2, <1>8, NextAgrees
  <2>2. PICK v \in Games : \E i \in Peers : Onward(w, v, peer, peer', i)
                                            /\ GameInv(v, peer', toServer', toClient')
    BY <2>1 DEF GoesOn
  <2>3. InOneGame'
    BY <1>1, <2>2 DEF InOneGame
  <2>4. PICK i \in Peers : Onward(w, v, P, Q, i) /\ GameInv(v, Q, toServer', toClient')
    BY <1>3, <1>4, <2>2
  <2>5. Furthers(Certain(i, P[i]), Certain(i, Q[i]))
    <3>1. PICK ts : ts = toServer
      OBVIOUS
    <3>2. PICK tc : tc = toClient
      OBVIOUS
    <3>3. PICK us : us = toServer'
      OBVIOUS
    <3>4. PICK uc : uc = toClient'
      OBVIOUS
    <3>5. GameInv(w, P, ts, tc) /\ GameInv(v, Q, us, uc)
      BY <1>5, <2>4, <3>1, <3>2, <3>3, <3>4
    <3> QED BY <1>5, <2>4, <3>5, OnwardFurthers
  <2>6. ASSUME NEW j \in Peers, j # i
        PROVE  /\ Certain(j, Q[j]) = Certain(j, P[j])
               /\ Game!OneGame(Certain(i, Q[i]), Certain(j, P[j]))
    <3>1. Q[j] = P[j]
      BY <2>4, <2>6 DEF Onward, Moves
    <3>2. PICK us : us = toServer'
      OBVIOUS
    <3>3. PICK uc : uc = toClient'
      OBVIOUS
    <3>4. GameInv(v, Q, us, uc)
      BY <2>4, <3>2, <3>3
    <3>5. Game!OneGame(Certain(i, Q[i]), Certain(j, Q[j]))
      BY <1>5, <3>4, AllInOne
    <3> QED BY <3>1, <3>5
  <2>7. /\ \A j \in Peers : j # i =>
             Confirmed(j)' = Confirmed(j) /\ Game!OneGame(Confirmed(i)', Confirmed(j))
        /\ Furthers(Confirmed(i), Confirmed(i)')
    BY <1>6, <2>5, <2>6
  <2>8. /\ \A j \in Peers : Seen[j] = Confirmed(j) /\ Seen'[j] = Confirmed(j)'
    BY DEF Seen
  <2>9. Game!Confirm(i)
    BY <2>7, <2>8 DEF Game!Confirm, Furthers, Seen
  <2>10. Game!Next
    BY <2>9 DEF Game!Next
  <2> QED BY <2>3, <2>10
<1> QED BY <1>7, <1>8

\* All peers play one game, as long as a client does not stall in the frame in which it
\* loads a savestate that is ahead of it (netplay_frontend.c).
THEOREM OneGameForAll == Spec /\ [][LoadsGoOn]_vars => ImplementsLockstep
<1>1. Init => InOneGame
  <2>1. ASSUME Init PROVE InOneGame
    BY <2>1, InitHolds, InitAgrees, FirstGameIs DEF InOneGame
  <2> QED BY <2>1
<1>2. ASSUME Init PROVE Game!Init
  <2>1. IInv
    BY <1>2, InitHolds
  <2>2. ASSUME NEW i \in Peers
        PROVE  Confirmed(i) \in {Core(Unsynced), Core(0)}
    <3>1. Opening(i, peer[i])
      BY <1>2, OpeningIs
    <3>2. Start \in Int
      BY NetplayAssumption
    <3>3. Certain(i, peer[i]) = Core(IF i = Server THEN 0 ELSE Unsynced)
      BY <3>1, <3>2 DEF Opening, Certain
    <3> QED BY <2>1, <3>3, ConfirmedIs
  <2>3. [i \in Peers |-> Confirmed(i)] \in [Peers -> {Core(Unsynced), Core(0)}]
    BY <2>2
  <2> QED BY <2>3 DEF Game!Init, Core
<1>3. InOneGame /\ [Next]_vars /\ [LoadsGoOn]_vars => InOneGame' /\ [Game!Next]_Seen
  BY OneGameStep
<1> QED BY <1>1, <1>2, <1>3, PTL DEF Spec, ImplementsLockstep, Game!Spec, Seen
=============================================================================
