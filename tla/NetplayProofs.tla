-------------------------- MODULE NetplayProofs --------------------------
(***************************************************************************)
(* Netplay, proved for any clients, any sizes of the rings, any latency    *)
(* and any inputs: each frame that a peer may have to run again is still   *)
(* in its ring, with the state that the frame before it left.              *)
(***************************************************************************)
EXTENDS Netplay, NatLemmas, SequenceTheorems, FiniteSetTheorems

\* The place of a frame in the ring of a peer.
Place(i, f) == (f % BufferSize(i)) + 1

At(i, p, f) == p.ring[Place(i, f)]

\* The input of the frame to be run is there from every player.
Passed(i, p) ==
  /\ i # Server /\ p.run < p.server
  /\ \A c \in p.players : p.run < p.read[c]

\* The peer has begun the frame, or has the input of some player for it.
Reached(p, f) ==
  \/ f < p.self \/ (f = p.self /\ p.polling)
  \/ \E c \in p.players : f < p.read[c]

\* How the counts are ordered.  Once a savestate for a later frame has been loaded,
\* other is one ahead of run, until the frames from other on are run again.
Counted(i, p) ==
  /\ Server \in p.players
  /\ p.run <= p.self /\ p.other <= p.run + 1
  /\ ~p.force_rewind => p.other <= p.run
  /\ p.polling => p.self < MaxFrame
  /\ p.connected /\ ~p.polling => ~p.force_rewind
  /\ \A c \in p.players : p.other <= p.read[c]
  /\ i # Server => p.other <= p.server /\ p.server <= p.read[Server] /\ ~p.force_send

\* The server takes its own input once per frame, and alone never falls behind itself.
Serving(p) ==
  /\ ~p.force_rewind /\ p.playing
  /\ p.self <= p.read[Server] /\ p.read[Server] <= p.self + 1
  /\ p.polling => p.self < p.read[Server]
  /\ p.players = {Server} => p.run = p.self /\ p.other = p.self
  /\ \A k \in DOMAIN p.ring : p.ring[k].have_local => p.ring[k].frame < p.read[Server]

\* What has been reached and may be run again is in the ring.  One frame may be
\* missing, that of a savestate that came while the peer stalled; it is not run again,
\* as all its input is there.
Held(i, p) ==
  \A f \in Int : p.other <= f /\ Reached(p, f) =>
    At(i, p, f).frame = f \/ (f = p.run /\ Passed(i, p))

\* The state of each frame is what the one before has led to.
Linked(i, p) ==
  ~p.force_rewind =>
    \A f \in p.other..p.run - 1 :
      CoreRun(At(i, p, f).state, At(i, p, f).resolved)
        = IF f + 1 = p.run THEN p.core ELSE At(i, p, f + 1).state

\* The state has been saved in the frame that is being run.
Begun(i, p) ==
  p.polling /\ ~p.force_rewind /\ ~Passed(i, p) => At(i, p, p.run).state = p.core

PeerInv(i, p) ==
  /\ p \in Netplays(i)
  /\ Counted(i, p)
  /\ i = Server => Serving(p)
  /\ Held(i, p)
  /\ Linked(i, p)
  /\ Begun(i, p)

IInv == TypeOK /\ \A i \in Peers : PeerInv(i, peer[i])
-----------------------------------------------------------------------------
(* Types and places. *)

\* A ring has at least two places.
LEMMA BufferSizes == \A i : BufferSize(i) \in Nat /\ BufferSize(i) >= 2
BY NetplayAssumption DEF BufferSize

\* Each frame has its place in the ring.
LEMMA PlaceIs == \A i : \A f \in Int : Place(i, f) \in 1..BufferSize(i)
BY BufferSizes DEF Place

\* The ring of a peer is a function of places, and Delta looks a frame up in its place.
LEMMA RingPlace ==
  ASSUME NEW i, NEW p \in Netplays(i)
  PROVE  /\ p.ring \in [1..BufferSize(i) -> Deltas] /\ DOMAIN p.ring = 1..BufferSize(i)
         /\ \A f \in Int : Ptr(p, f) = Place(i, f) /\ Delta(p, f) = At(i, p, f)
                           /\ At(i, p, f) \in Deltas
<1>1. p.ring \in [1..BufferSize(i) -> Deltas]
  BY DEF Netplays
<1>2. Len(p.ring) = BufferSize(i)
  BY <1>1, BufferSizes
<1>4. QED
  BY <1>1, <1>2, PlaceIs DEF Delta, Ptr, Place, At

\* The sets that the fields of a peer are of.
LEMMA PeerTypes ==
  ASSUME NEW i, NEW p \in Netplays(i)
  PROVE  /\ p.self \in Frames /\ p.run \in Frames /\ p.other \in Frames /\ p.server \in Counts
         /\ p.players \in SUBSET Peers /\ p.read \in [Peers -> Counts]
         /\ p.core \in Cores /\ p.latency \in Nat /\ p.loads \in 0..MaxLoads
         /\ {p.playing, p.timed, p.force_rewind, p.force_send, p.asked, p.outstanding, p.polling,
             p.connected} \subseteq BOOLEAN
BY DEF Netplays

\* The sets that the fields of a delta frame are of.
LEMMA DeltaTypes ==
  ASSUME NEW d \in Deltas
  PROVE  /\ d.frame \in {Unused} \cup Frames /\ d.have_local \in BOOLEAN
         /\ d.have_real \in SUBSET Peers
         /\ d.real \in Boards /\ d.sim \in Boards /\ d.resolved \in Boards /\ d.state \in Cores
BY DEF Deltas

\* A place that has just been given to a frame is one of that frame and has no input.
LEMMA FreshIs ==
  ASSUME NEW f \in Frames, NEW s \in Cores
  PROVE  /\ Fresh(f, s) \in Deltas /\ Fresh(f, s).frame = f /\ Fresh(f, s).state = s /\ Fresh(f, s).have_local = FALSE
<1>1. [c \in Peers |-> Zero] \in Boards
  BY NetplayAssumption DEF Boards, Zero, Buttons
<1>2. QED
  BY <1>1 DEF Fresh, Deltas

\* Frames and counts are numbers, and an unused place has one as well.
LEMMA FramesInt == Frames \subseteq Int /\ Counts \subseteq Int /\ Frames \subseteq Counts /\ Unused \in Int
BY NetplayAssumption DEF Frames, Counts, Unused

\* What is in the ring and may be run again stays in it.
Keeps(i, p, q) ==
  \A g \in Int : p.other <= g /\ At(i, p, g).frame = g =>
    /\ At(i, q, g).frame = g
    /\ At(i, q, g).state = At(i, p, g).state
    /\ At(i, q, g).resolved = At(i, p, g).resolved

\* Nothing changes but the ring.
RingOnly(p, q) ==
  /\ q.playing = p.playing /\ q.players = p.players
  /\ q.self = p.self /\ q.run = p.run /\ q.other = p.other /\ q.server = p.server /\ q.read = p.read
  /\ q.stall = p.stall /\ q.stall_frame = p.stall_frame /\ q.stall_sent = p.stall_sent
  /\ q.latency = p.latency /\ q.timed = p.timed
  /\ q.force_rewind = p.force_rewind /\ q.force_send = p.force_send
  /\ q.asked = p.asked /\ q.outstanding = p.outstanding
  /\ q.core = p.core /\ q.loads = p.loads
  /\ q.polling = p.polling /\ q.connected = p.connected

\* Input taken is of a place that was not given away.
KeepsLocal(p, q) ==
  \A k \in DOMAIN p.ring : q.ring[k].have_local =>
    p.ring[k].have_local /\ p.ring[k].frame = q.ring[k].frame

\* netplay_delta_frame_ready makes the place that of the frame, and takes none
\* from a frame that may be run again.
LEMMA FrameReady ==
  ASSUME NEW i, NEW p \in Netplays(i), NEW f \in Frames, NEW q, q = netplay_delta_frame_ready(p, f)
  PROVE  /\ q \in Netplays(i)
         /\ RingOnly(p, q)
         /\ At(i, q, f).frame = f /\ At(i, q, f).state = At(i, p, f).state
         /\ KeepsLocal(p, q)
         /\ At(i, p, f).frame = f => q = p
         /\ Ready(p, f) => Keeps(i, p, q)
<1>1. PICK k : k = Place(i, f)
  OBVIOUS
<1>2. PICK d : d = Fresh(f, p.ring[k].state)
  OBVIOUS
<1>3. f \in Int /\ p.other \in Int
  BY FramesInt, PeerTypes
<1>4. k \in 1..BufferSize(i) /\ Ptr(p, f) = k /\ Delta(p, f) = p.ring[k] /\ p.ring[k] \in Deltas
      /\ At(i, p, f) = p.ring[k]
  BY <1>1, <1>3, RingPlace, PlaceIs DEF At
<1>5. d \in Deltas /\ d.frame = f /\ d.state = p.ring[k].state /\ d.have_local = FALSE
  BY <1>2, <1>4, DeltaTypes, FreshIs
<1>6. p.ring \in [1..BufferSize(i) -> Deltas]
  BY RingPlace
<1>7. q = IF p.ring[k].frame = f THEN p ELSE [p EXCEPT !.ring[k] = d]
  BY <1>2, <1>4 DEF netplay_delta_frame_ready
<1>8. q \in Netplays(i) /\ RingOnly(p, q)
      /\ q.ring = IF p.ring[k].frame = f THEN p.ring ELSE [p.ring EXCEPT ![k] = d]
  <2>1. [p EXCEPT !.ring[k] = d] \in Netplays(i) /\ RingOnly(p, [p EXCEPT !.ring[k] = d])
        /\ [p EXCEPT !.ring[k] = d].ring = [p.ring EXCEPT ![k] = d]
    BY <1>4, <1>5 DEF Netplays, RingOnly
  <2>2. QED
    BY <1>7, <2>1 DEF RingOnly
<1>9. At(i, q, f).frame = f /\ At(i, q, f).state = At(i, p, f).state
  BY <1>1, <1>4, <1>5, <1>6, <1>8 DEF At
<1>10. KeepsLocal(p, q)
  BY <1>4, <1>5, <1>6, <1>8 DEF KeepsLocal
<1>11. ASSUME Ready(p, f) PROVE Keeps(i, p, q)
  <2>1. p.ring[k].frame = f \/ p.ring[k].frame < p.other
    BY <1>4, <1>11 DEF Ready
  <2>2. p.ring[k].frame \in Int
    BY <1>4, DeltaTypes, FramesInt
  <2>3. ASSUME NEW g \in Int, p.other <= g, p.ring[Place(i, g)].frame = g
        PROVE  q.ring[Place(i, g)] = p.ring[Place(i, g)]
    <3>1. Place(i, g) \in 1..BufferSize(i)
      BY PlaceIs
    <3>2. p.ring[k].frame = f \/ k # Place(i, g)
      BY <1>3, <2>1, <2>2, <2>3
    <3>3. QED
      BY <1>4, <1>6, <1>8, <3>1, <3>2
  <2>4. QED
    BY <2>3 DEF Keeps, At
<1>12. QED
  BY <1>4, <1>7, <1>8, <1>9, <1>10, <1>11

\* A frame that has been run, or is being run, and whose input is not all there is in
\* the ring.
LEMMA RunIsHeld ==
  ASSUME NEW i, NEW p \in Netplays(i), Counted(i, p), Held(i, p), ~p.force_rewind,
         NEW f \in Int, p.other <= f, f < p.run \/ (f = p.run /\ p.polling /\ ~Passed(i, p))
  PROVE  At(i, p, f).frame = f
<1>1. p.run \in Int /\ p.self \in Int /\ p.run <= p.self
  BY PeerTypes, FramesInt DEF Counted
<1>2. Reached(p, f) /\ (f = p.run => ~Passed(i, p))
  BY <1>1 DEF Reached
<1>3. QED
  BY <1>2 DEF Held

\* A step that leaves run, other and the core alone.
Alike(i, p, q) ==
  /\ q \in Netplays(i)
  /\ q.run = p.run /\ q.other = p.other /\ q.core = p.core /\ q.polling = p.polling
  /\ p.force_rewind => q.force_rewind
  /\ Keeps(i, p, q)
  /\ Passed(i, p) => Passed(i, q)
  /\ \A f \in Int : p.other <= f /\ Reached(q, f) => Reached(p, f) \/ At(i, q, f).frame = f

\* The invariant of the ring looks at the frames from other on only.
LEMMA AlikeStays ==
  ASSUME NEW i, NEW p, NEW q, PeerInv(i, p), Alike(i, p, q)
  PROVE  Held(i, q) /\ Linked(i, q) /\ Begun(i, q)
<1>1. p \in Netplays(i) /\ Counted(i, p) /\ Held(i, p) /\ Linked(i, p) /\ Begun(i, p)
  BY DEF PeerInv
<1>2. p.run \in Int /\ p.other \in Int
  BY <1>1, PeerTypes, FramesInt
<1>3. q.run = p.run /\ q.other = p.other /\ q.core = p.core /\ q.polling = p.polling
      /\ (p.force_rewind => q.force_rewind) /\ Keeps(i, p, q) /\ (Passed(i, p) => Passed(i, q))
  BY DEF Alike
<1>4. Held(i, q)
  <2>1. SUFFICES ASSUME NEW f \in Int, p.other <= f, Reached(q, f), At(i, q, f).frame # f
                 PROVE  f = q.run /\ Passed(i, q)
    BY <1>3 DEF Held
  <2>2. Reached(p, f)
    BY <2>1 DEF Alike
  <2>3. At(i, p, f).frame # f
    BY <1>3, <2>1 DEF Keeps
  <2>4. QED
    BY <1>1, <1>3, <2>1, <2>2, <2>3 DEF Held
<1>5. Linked(i, q)
  <2>1. SUFFICES ASSUME ~p.force_rewind, NEW f \in p.other..p.run - 1
                 PROVE  CoreRun(At(i, q, f).state, At(i, q, f).resolved)
                          = IF f + 1 = p.run THEN p.core ELSE At(i, q, f + 1).state
    BY <1>3 DEF Linked
  <2>2. At(i, p, f).frame = f
    BY <1>1, <1>2, <2>1, RunIsHeld
  <2>3. At(i, q, f).state = At(i, p, f).state /\ At(i, q, f).resolved = At(i, p, f).resolved
    BY <1>2, <1>3, <2>2 DEF Keeps
  <2>4. f + 1 # p.run => At(i, q, f + 1).state = At(i, p, f + 1).state
    <3>1. SUFFICES ASSUME f + 1 # p.run PROVE At(i, q, f + 1).state = At(i, p, f + 1).state
      OBVIOUS
    <3>2. f + 1 \in Int /\ p.other <= f + 1 /\ f + 1 < p.run
      BY <1>2, <3>1
    <3>3. At(i, p, f + 1).frame = f + 1
      BY <1>1, <2>1, <3>2, RunIsHeld
    <3>4. QED
      BY <1>3, <3>2, <3>3 DEF Keeps
  <2>5. QED
    BY <1>1, <2>1, <2>3, <2>4 DEF Linked
<1>6. Begun(i, q)
  <2>1. SUFFICES ASSUME p.polling, ~p.force_rewind, ~Passed(i, p)
                 PROVE  At(i, q, p.run).state = p.core
    BY <1>3 DEF Begun
  <2>2. p.other <= p.run
    BY <1>1, <2>1 DEF Counted
  <2>3. At(i, p, p.run).frame = p.run
    BY <1>1, <1>2, <2>1, <2>2, RunIsHeld
  <2>4. QED
    BY <1>1, <1>2, <1>3, <2>1, <2>2, <2>3 DEF Keeps, Begun
<1>7. QED
  BY <1>4, <1>5, <1>6
-----------------------------------------------------------------------------
(* Messages that come. *)

\* Input that the server passes on is of some player for some frame.
LEMMA InputMessage ==
  ASSUME NEW m \in FromServer, m.type = "input"
  PROVE  m.frame \in Frames /\ m.client \in Peers /\ m.input \in SUBSET Buttons
BY DEF FromServer, InputOf

\* Input that a client sends is its own.
LEMMA ClientsInput ==
  ASSUME NEW c, NEW m \in FromClient(c), m.type = "input"
  PROVE  m.frame \in Frames /\ m.client = c /\ m.input \in SUBSET Buttons
BY DEF FromClient, InputOf

\* A change of mode is of some client.
LEMMA ModeMessage ==
  ASSUME NEW m \in FromServer, m.type = "mode"
  PROVE  m.frame \in Counts /\ m.client \in Clients
BY DEF FromServer, InputOf

\* A savestate has a frame and a state.
LEMMA SavestateMessage ==
  ASSUME NEW m \in FromServer, m.type = "savestate"
  PROVE  m.frame \in Frames /\ m.state \in Cores
BY DEF FromServer, InputOf

\* A request to stall has a number of frames.
LEMMA StallMessage ==
  ASSUME NEW m \in FromServer, m.type = "stall"
  PROVE  m.frames \in Nat
BY DEF FromServer, InputOf

\* A delta frame gets an input.
LEMMA Received ==
  ASSUME NEW d \in Deltas, NEW c \in Peers, NEW v \in SUBSET Buttons
  PROVE  /\ Given(d, c, v) \in Deltas /\ Given(d, c, v).frame = d.frame
         /\ Given(d, c, v).have_local = d.have_local
         /\ Given(d, c, v).state = d.state /\ Given(d, c, v).resolved = d.resolved
BY DEF Given, Deltas, Boards

\* The input that is next of a player is written into its frame.
LEMMA WrittenStays ==
  ASSUME NEW i \in Peers, NEW p, PeerInv(i, p), p.polling,
         NEW m, m.frame \in Frames, m.client \in p.players, m.input \in SUBSET Buttons,
         i = Server => m.client # Server,
         m.frame = p.read[m.client], Ready(p, m.frame),
         NEW s, s = p.server \/ (i # Server /\ m.client = Server /\ s = m.frame + 1)
  PROVE  PeerInv(i, [Written(p, m) EXCEPT !.server = s])
<1>1. p \in Netplays(i) /\ Counted(i, p)
  BY DEF PeerInv
<1>2. PICK f : f = m.frame
  OBVIOUS
<1>3. PICK c : c = m.client
  OBVIOUS
<1>4. f \in Frames /\ f \in Int /\ f + 1 \in Counts /\ c \in p.players /\ c \in Peers /\ f = p.read[c]
      /\ p.read \in [Peers -> Counts] /\ f + 1 \in Int
  BY <1>1, <1>2, <1>3, PeerTypes, FramesInt, NetplayAssumption DEF Frames, Counts
<1>5. PICK r : r = netplay_delta_frame_ready(p, f)
  OBVIOUS
<1>6. /\ r \in Netplays(i) /\ RingOnly(p, r) /\ At(i, r, f).frame = f
      /\ KeepsLocal(p, r) /\ Keeps(i, p, r)
  BY <1>1, <1>2, <1>4, <1>5, FrameReady
<1>7. PICK k : k = Place(i, f)
  OBVIOUS
<1>8. k \in 1..BufferSize(i) /\ Ptr(r, f) = k /\ r.ring[k] \in Deltas /\ r.ring[k] = At(i, r, f)
  BY <1>4, <1>6, <1>7, RingPlace, PlaceIs DEF At
<1>9. PICK e : e = Given(r.ring[k], c, m.input)
  OBVIOUS
<1>10. e \in Deltas /\ e.frame = f /\ e.have_local = r.ring[k].have_local
       /\ e.state = r.ring[k].state /\ e.resolved = r.ring[k].resolved
  BY <1>4, <1>6, <1>8, <1>9, Received
<1>11. PICK q : q = [Written(p, m) EXCEPT !.server = s]
  OBVIOUS
<1>12. r.read[c] = f /\ r.read = p.read
  BY <1>4, <1>6 DEF RingOnly
<1>13. /\ q \in Netplays(i)
       /\ q.ring = [r.ring EXCEPT ![k] = e] /\ q.read = [p.read EXCEPT ![c] = f + 1] /\ q.server = s
       /\ q.self = p.self /\ q.run = p.run /\ q.other = p.other /\ q.core = p.core
       /\ q.players = p.players /\ q.playing = p.playing /\ q.polling = p.polling
       /\ q.connected = p.connected /\ q.force_rewind = p.force_rewind /\ q.force_send = p.force_send
  <2>1. s \in Counts
    BY <1>1, <1>2, <1>4, PeerTypes
  <2>2. q = [r EXCEPT !.ring[k] = Given(r.ring[k], c, m.input), !.read[c] = r.read[c] + 1, !.server = s]
    BY <1>2, <1>3, <1>5, <1>8, <1>11 DEF Written
  <2>3. PICK t : t = [r EXCEPT !.ring[k] = e, !.read[c] = f + 1, !.server = s]
    OBVIOUS
  <2>4. q = t
    BY <1>9, <1>12, <2>2, <2>3
  <2>5. t \in Netplays(i)
    BY <1>4, <1>6, <1>8, <1>10, <2>1, <2>3 DEF Netplays
  <2>6. /\ t.ring = [r.ring EXCEPT ![k] = e] /\ t.read = [r.read EXCEPT ![c] = f + 1] /\ t.server = s
        /\ t.self = r.self /\ t.run = r.run /\ t.other = r.other /\ t.core = r.core
        /\ t.players = r.players /\ t.playing = r.playing /\ t.polling = r.polling
        /\ t.connected = r.connected /\ t.force_rewind = r.force_rewind /\ t.force_send = r.force_send
    BY <1>6, <2>3 DEF Netplays
  <2>7. QED
    BY <1>6, <1>12, <2>4, <2>5, <2>6 DEF RingOnly
<1>14. \A g \in Int : /\ At(i, q, g).frame = At(i, r, g).frame /\ At(i, q, g).state = At(i, r, g).state
                      /\ At(i, q, g).resolved = At(i, r, g).resolved
  <2>1. SUFFICES ASSUME NEW g \in Int
                 PROVE  /\ q.ring[Place(i, g)].frame = r.ring[Place(i, g)].frame
                        /\ q.ring[Place(i, g)].state = r.ring[Place(i, g)].state
                        /\ q.ring[Place(i, g)].resolved = r.ring[Place(i, g)].resolved
    BY DEF At
  <2>2. Place(i, g) \in 1..BufferSize(i) /\ r.ring \in [1..BufferSize(i) -> Deltas]
    BY <1>6, PlaceIs, RingPlace
  <2>3. QED
    BY <1>6, <1>8, <1>10, <1>13, <2>2
<1>15. \A b \in p.players : p.read[b] <= q.read[b] /\ q.read[b] \in Int /\ p.read[b] \in Int
  <2>1. SUFFICES ASSUME NEW b \in p.players
                 PROVE  p.read[b] <= q.read[b] /\ q.read[b] \in Int /\ p.read[b] \in Int
    OBVIOUS
  <2>2. b \in Peers
    BY <1>1, PeerTypes
  <2>3. p.read[b] \in Int
    BY <1>4, <2>2, FramesInt
  <2>4. q.read[b] = IF b = c THEN f + 1 ELSE p.read[b]
    BY <1>4, <1>13, <2>2
  <2>5. QED
    BY <1>4, <2>3, <2>4
<1>16. p.server \in Int /\ p.self \in Int /\ p.run \in Int /\ p.other \in Int /\ s \in Int
       /\ (i # Server => p.server <= s)
       /\ (s # p.server => i # Server /\ c = Server /\ s = f + 1)
  <2>1. p.server \in Int /\ p.self \in Int /\ p.run \in Int /\ p.other \in Int
    BY <1>1, PeerTypes, FramesInt
  <2>2. s # p.server => i # Server /\ c = Server /\ s = f + 1
    BY <1>2, <1>3
  <2>3. i # Server /\ c = Server => p.server <= f
    BY <1>1, <1>4 DEF Counted
  <2>4. QED
    BY <1>4, <2>1, <2>2, <2>3
<1>17. Counted(i, q)
  BY <1>1, <1>4, <1>13, <1>15, <1>16 DEF Counted
<1>18. i = Server => Serving(q)
  <2>1. SUFFICES ASSUME i = Server PROVE Serving(q)
    OBVIOUS
  <2>2. Serving(p) /\ c # Server
    BY <1>3, <2>1 DEF PeerInv
  <2>3. q.read[Server] = p.read[Server]
    BY <1>4, <1>13, <2>2 DEF Peers
  <2>4. DOMAIN p.ring = 1..BufferSize(i) /\ DOMAIN q.ring = 1..BufferSize(i) /\ DOMAIN r.ring = 1..BufferSize(i)
    BY <1>1, <1>6, <1>13, RingPlace
  <2>5. \A j \in DOMAIN q.ring : q.ring[j].have_local => p.ring[j].have_local /\ p.ring[j].frame = q.ring[j].frame
    <3>1. SUFFICES ASSUME NEW j \in 1..BufferSize(i), q.ring[j].have_local
                   PROVE  p.ring[j].have_local /\ p.ring[j].frame = q.ring[j].frame
      BY <2>4
    <3>2. q.ring[j] = IF j = k THEN e ELSE r.ring[j]
      BY <1>8, <1>13, <2>4
    <3>3. r.ring[j].have_local /\ q.ring[j].frame = r.ring[j].frame
      BY <1>6, <1>8, <1>10, <3>1, <3>2
    <3>4. QED
      BY <1>6, <2>4, <3>3 DEF KeepsLocal
  <2>6. QED
    BY <1>13, <2>2, <2>3, <2>4, <2>5 DEF Serving
<1>19. Alike(i, p, q)
  <2>1. Keeps(i, p, q)
    BY <1>6, <1>14 DEF Keeps
  <2>2. Passed(i, p) => Passed(i, q)
    BY <1>13, <1>15, <1>16 DEF Passed
  <2>3. ASSUME NEW g \in Int, Reached(q, g), ~Reached(p, g)
        PROVE  At(i, q, g).frame = g
    <3>1. PICK b \in p.players : g < q.read[b] /\ ~(g < p.read[b])
      BY <1>13, <2>3 DEF Reached
    <3>2. b = c /\ g = f
      BY <1>1, <1>4, <1>13, <1>15, <2>3, <3>1, PeerTypes
    <3>3. QED
      BY <1>4, <1>6, <1>14, <3>2
  <2>4. QED
    BY <1>13, <2>1, <2>2, <2>3 DEF Alike
<1>20. QED
  BY <1>11, <1>13, <1>17, <1>18, <1>19, AlikeStays DEF PeerInv

-----------------------------------------------------------------------------
(* Steps that leave the ring and the counts alone. *)

\* What is left of a peer may change: the invariant does not look at it.
LEMMA SameStays ==
  ASSUME NEW i, NEW p, PeerInv(i, p), NEW q \in Netplays(i),
         q.ring = p.ring, q.core = p.core, q.self = p.self, q.run = p.run, q.other = p.other,
         q.server = p.server, q.read = p.read, q.players = p.players, q.playing = p.playing,
         q.force_rewind = p.force_rewind, i # Server => q.force_send = p.force_send,
         (q.polling = p.polling /\ q.connected = p.connected) \/ (~q.polling /\ ~q.connected)
  PROVE  PeerInv(i, q)
<1>1. Counted(i, p) /\ Held(i, p) /\ Linked(i, p) /\ Begun(i, p) /\ (i = Server => Serving(p))
  BY DEF PeerInv
<1>2. Counted(i, q)
  BY <1>1 DEF Counted
<1>3. i = Server => Serving(q)
  BY <1>1 DEF Serving
<1>4. \A f : At(i, q, f) = At(i, p, f)
  BY DEF At
<1>5. Passed(i, q) <=> Passed(i, p)
  BY DEF Passed
<1>6. \A f : Reached(q, f) => Reached(p, f)
  BY DEF Reached
<1>7. Held(i, q)
  BY <1>1, <1>4, <1>5, <1>6 DEF Held
<1>8. Linked(i, q)
  BY <1>1, <1>4 DEF Linked
<1>9. Begun(i, q)
  BY <1>1, <1>4, <1>5 DEF Begun
<1>10. QED
  BY <1>2, <1>3, <1>7, <1>8, <1>9 DEF PeerInv

\* A peer that hangs up keeps the invariant.
LEMMA HangupStays ==
  ASSUME NEW i, NEW p, PeerInv(i, p)
  PROVE  PeerInv(i, [p EXCEPT !.connected = FALSE, !.polling = FALSE])
<1>1. PICK q : q = [p EXCEPT !.connected = FALSE, !.polling = FALSE]
  OBVIOUS
<1>2. p \in Netplays(i)
  BY DEF PeerInv
<1>3. q \in Netplays(i) /\ ~q.polling /\ ~q.connected
  BY <1>1, <1>2 DEF Netplays
<1>4. /\ q.ring = p.ring /\ q.core = p.core /\ q.self = p.self /\ q.run = p.run
      /\ q.other = p.other /\ q.server = p.server /\ q.read = p.read /\ q.players = p.players
      /\ q.playing = p.playing /\ q.force_rewind = p.force_rewind /\ q.force_send = p.force_send
  BY <1>1, <1>2 DEF Netplays
<1>5. QED
  BY <1>1, <1>3, <1>4, SameStays
-----------------------------------------------------------------------------
(* A frame begins. *)

\* The state is saved in the frame that is to be run.
LEMMA SavedStays ==
  ASSUME NEW i, NEW p, PeerInv(i, p), ~p.polling, p.connected
  PROVE  /\ PeerInv(i, Saved(p)) /\ RingOnly(p, Saved(p))
         /\ Ready(Saved(p), p.run) => At(i, Saved(p), p.run).state = p.core
<1>1. p \in Netplays(i) /\ Counted(i, p) /\ Held(i, p) /\ Linked(i, p) /\ (i = Server => Serving(p))
  BY DEF PeerInv
<1>2. CASE ~Ready(p, p.run)
  <2>1. Saved(p) = p
    BY <1>2 DEF Saved
  <2>2. QED
    BY <1>2, <2>1 DEF RingOnly
<1>3. CASE Ready(p, p.run)
  <2>1. PICK n : n = p.run
    OBVIOUS
  <2>2. n \in Frames /\ n \in Int /\ p.other \in Int /\ p.core \in Cores /\ ~p.force_rewind /\ p.other <= n
    BY <1>1, <2>1, PeerTypes, FramesInt DEF Counted
  <2>3. PICK r : r = netplay_delta_frame_ready(p, n)
    OBVIOUS
  <2>4. r \in Netplays(i) /\ RingOnly(p, r) /\ At(i, r, n).frame = n /\ KeepsLocal(p, r)
        /\ Keeps(i, p, r)
    BY <1>1, <1>3, <2>1, <2>2, <2>3, FrameReady
  <2>5. PICK k : k = Place(i, n)
    OBVIOUS
  <2>6. k \in 1..BufferSize(i) /\ Ptr(r, n) = k /\ r.ring[k] \in Deltas /\ r.ring[k] = At(i, r, n)
        /\ r.ring \in [1..BufferSize(i) -> Deltas] /\ p.ring \in [1..BufferSize(i) -> Deltas]
    BY <1>1, <2>2, <2>4, <2>5, RingPlace, PlaceIs DEF At
  <2>7. PICK e : e = [r.ring[k] EXCEPT !.state = p.core]
    OBVIOUS
  <2>8. e \in Deltas /\ e.frame = n /\ e.have_local = r.ring[k].have_local /\ e.state = p.core
        /\ e.resolved = r.ring[k].resolved
    BY <2>2, <2>4, <2>6, <2>7 DEF Deltas
  <2>9. PICK q : q = [r EXCEPT !.ring[k] = e]
    OBVIOUS
  <2>10. Saved(p) = q
    <3>1. r.core = p.core /\ r.run = n
      BY <2>1, <2>4 DEF RingOnly
    <3>2. Saved(p) = [r EXCEPT !.ring[k].state = p.core]
      BY <1>3, <2>1, <2>3, <2>6, <3>1 DEF Saved
    <3>3. QED
      BY <2>7, <2>9, <3>2
  <2>11. q \in Netplays(i) /\ q.ring = [r.ring EXCEPT ![k] = e] /\ RingOnly(r, q)
    BY <2>4, <2>6, <2>8, <2>9 DEF Netplays, RingOnly
  <2>12. RingOnly(p, q)
    BY <2>4, <2>11 DEF RingOnly
  <2>13. \A g \in Int : /\ At(i, q, g).frame = At(i, r, g).frame
                        /\ At(i, q, g).resolved = At(i, r, g).resolved
                        /\ At(i, r, g).frame # n => At(i, q, g).state = At(i, r, g).state
    <3>1. SUFFICES ASSUME NEW g \in Int
                   PROVE  /\ q.ring[Place(i, g)].frame = r.ring[Place(i, g)].frame
                          /\ q.ring[Place(i, g)].resolved = r.ring[Place(i, g)].resolved
                          /\ r.ring[Place(i, g)].frame # n =>
                               q.ring[Place(i, g)].state = r.ring[Place(i, g)].state
      BY DEF At
    <3>2. Place(i, g) \in 1..BufferSize(i)
      BY PlaceIs
    <3>3. QED
      BY <2>4, <2>6, <2>8, <2>11, <3>2
  <2>14. \A g \in Int : p.other <= g /\ At(i, p, g).frame = g =>
           At(i, q, g).frame = g /\ At(i, q, g).resolved = At(i, p, g).resolved
             /\ (g # n => At(i, q, g).state = At(i, p, g).state)
    BY <2>4, <2>13 DEF Keeps
  <2>15. At(i, q, n).state = p.core /\ At(i, q, n).frame = n
    BY <2>2, <2>4, <2>5, <2>6, <2>8, <2>11 DEF At
  <2>16. Counted(i, q)
    BY <1>1, <2>12 DEF Counted, RingOnly
  <2>17. i = Server => Serving(q)
    <3>1. SUFFICES ASSUME i = Server PROVE Serving(q)
      OBVIOUS
    <3>2. ASSUME NEW j \in DOMAIN q.ring, q.ring[j].have_local
          PROVE  q.ring[j].frame < p.read[Server]
      <4>1. j \in 1..BufferSize(i) /\ DOMAIN p.ring = 1..BufferSize(i)
        BY <2>6, <2>11
      <4>2. r.ring[j].have_local /\ q.ring[j].frame = r.ring[j].frame
        BY <2>4, <2>6, <2>8, <2>11, <3>2, <4>1
      <4>3. p.ring[j].have_local /\ p.ring[j].frame = q.ring[j].frame
        BY <2>4, <4>1, <4>2 DEF KeepsLocal
      <4>4. QED
        BY <1>1, <3>1, <4>1, <4>3 DEF Serving
    <3>3. QED
      BY <1>1, <2>12, <3>1, <3>2 DEF Serving, RingOnly
  <2>18. Held(i, q)
    <3>1. SUFFICES ASSUME NEW f \in Int, p.other <= f, Reached(q, f), At(i, q, f).frame # f
                   PROVE  f = q.run /\ Passed(i, q)
      BY <2>12 DEF Held, RingOnly
    <3>2. Reached(p, f)
      BY <2>12, <3>1 DEF Reached, RingOnly
    <3>3. At(i, p, f).frame # f
      BY <2>14, <3>1
    <3>4. f = p.run /\ Passed(i, p)
      BY <1>1, <3>1, <3>2, <3>3 DEF Held
    <3>5. QED
      BY <2>12, <3>4 DEF Passed, RingOnly
  <2>19. Linked(i, q)
    <3>1. q.run = n /\ q.other = p.other /\ q.core = p.core /\ p.run = n
      BY <2>1, <2>12 DEF RingOnly
    <3>2. SUFFICES ASSUME NEW f \in p.other..n - 1
                   PROVE  CoreRun(At(i, q, f).state, At(i, q, f).resolved)
                            = IF f + 1 = n THEN p.core ELSE At(i, q, f + 1).state
      BY <3>1 DEF Linked
    <3>3. At(i, p, f).frame = f
      BY <1>1, <2>2, <3>1, RunIsHeld
    <3>4. f # n /\ f \in Int /\ p.other <= f
      BY <2>2
    <3>5. At(i, q, f).state = At(i, p, f).state /\ At(i, q, f).resolved = At(i, p, f).resolved
      BY <2>14, <3>3, <3>4
    <3>6. ASSUME f + 1 # n PROVE At(i, q, f + 1).state = At(i, p, f + 1).state
      <4>1. f + 1 \in Int /\ p.other <= f + 1 /\ f + 1 < n
        BY <2>2, <3>6
      <4>2. At(i, p, f + 1).frame = f + 1
        BY <1>1, <2>2, <3>1, <4>1, RunIsHeld
      <4>3. QED
        BY <2>14, <3>6, <4>1, <4>2
    <3>7. CoreRun(At(i, p, f).state, At(i, p, f).resolved)
            = IF f + 1 = n THEN p.core ELSE At(i, p, f + 1).state
      BY <1>1, <2>2, <3>1, <3>2 DEF Linked
    <3>8. QED
      BY <3>5, <3>6, <3>7
  <2>20. Begun(i, q)
    BY <2>12 DEF Begun, RingOnly
  <2>21. QED
    BY <2>1, <2>10, <2>11, <2>12, <2>15, <2>16, <2>17, <2>18, <2>19, <2>20 DEF PeerInv
<1>4. QED
  BY <1>2, <1>3

\* The greater of two numbers.
LEMMA MaxOfTwo ==
  ASSUME NEW a \in Int, NEW b \in Int
  PROVE  Max({a, b}) = IF a >= b THEN a ELSE b
BY DEF Max

\* The lesser of two numbers.
LEMMA MinOfTwo ==
  ASSUME NEW a \in Int, NEW b \in Int
  PROVE  Min({a, b}) = IF a <= b THEN a ELSE b
BY DEF Min

\* A peer that makes a frame ready keeps the invariant.
LEMMA ReadyStays ==
  ASSUME NEW i, NEW p, PeerInv(i, p), NEW f \in Frames, Ready(p, f)
  PROVE  PeerInv(i, netplay_delta_frame_ready(p, f))
<1>1. p \in Netplays(i) /\ Counted(i, p) /\ (i = Server => Serving(p))
  BY DEF PeerInv
<1>2. PICK q : q = netplay_delta_frame_ready(p, f)
  OBVIOUS
<1>3. q \in Netplays(i) /\ RingOnly(p, q) /\ KeepsLocal(p, q) /\ Keeps(i, p, q)
  BY <1>1, <1>2, FrameReady
<1>4. Counted(i, q)
  BY <1>1, <1>3 DEF Counted, RingOnly
<1>5. i = Server => Serving(q)
  <2>1. DOMAIN p.ring = 1..BufferSize(i) /\ DOMAIN q.ring = 1..BufferSize(i)
    BY <1>1, <1>3, RingPlace
  <2>2. QED
    BY <1>1, <1>3, <2>1 DEF Serving, RingOnly, KeepsLocal
<1>6. Alike(i, p, q)
  <2>1. Reached(q, f) => Reached(p, f)
    BY <1>3 DEF Reached, RingOnly
  <2>2. (Passed(i, p) => Passed(i, q)) /\ \A g \in Int : Reached(q, g) => Reached(p, g)
    BY <1>3 DEF Passed, Reached, RingOnly
  <2>3. QED
    BY <1>3, <2>2 DEF Alike, RingOnly
<1>7. QED
  BY <1>2, <1>3, <1>4, <1>5, <1>6, AlikeStays DEF PeerInv

\* Nothing before the frame that the server is in counts any more.
LEMMA NowStays ==
  ASSUME NEW p, PeerInv(Server, p), ~p.polling, p.connected,
         NEW q \in Netplays(Server),
         q.self = p.self, q.run = p.self, q.other = p.self,
         \A c \in Peers : q.read[c] = p.read[c] \/ (p.read[c] <= p.self /\ q.read[c] = p.self),
         \A c \in p.players : p.self <= q.read[c],
         q.players = p.players, q.playing = p.playing, q.polling = p.polling,
         q.connected = p.connected, q.force_rewind = p.force_rewind,
         \A k \in 1..BufferSize(Server) : q.ring[k].frame = p.ring[k].frame
                                           /\ q.ring[k].have_local = p.ring[k].have_local
  PROVE  PeerInv(Server, q)
<1>1. p \in Netplays(Server) /\ Counted(Server, p) /\ Held(Server, p) /\ Serving(p)
  BY DEF PeerInv
<1>2. p.self \in Int /\ p.run \in Int /\ p.other \in Int /\ p.self \in Frames
      /\ p.players \in SUBSET Peers /\ p.read \in [Peers -> Counts]
      /\ ~p.force_rewind /\ p.other <= p.self
  <2>1. p.self \in Int /\ p.run \in Int /\ p.other \in Int /\ p.self \in Frames
        /\ p.players \in SUBSET Peers /\ p.read \in [Peers -> Counts]
    BY <1>1, PeerTypes, FramesInt
  <2>2. QED
    BY <1>1, <2>1 DEF Counted
<1>3. Server \in Peers /\ p.read[Server] \in Int
  BY <1>2, FramesInt DEF Peers
<1>4. Counted(Server, q)
  BY <1>1, <1>2 DEF Counted
<1>5. Serving(q)
  <2>1. DOMAIN p.ring = 1..BufferSize(Server) /\ DOMAIN q.ring = 1..BufferSize(Server)
    BY <1>1, RingPlace
  <2>2. p.read[Server] = q.read[Server]
    BY <1>1, <1>2, <1>3 DEF Serving
  <2>3. QED
    BY <1>1, <1>2, <2>1, <2>2 DEF Serving
<1>6. Held(Server, q)
  <2>1. SUFFICES ASSUME NEW f \in Int, p.self <= f, Reached(q, f)
                 PROVE  At(Server, q, f).frame = f
    BY DEF Held
  <2>2. PICK c \in p.players : f < q.read[c]
    BY <1>2, <2>1 DEF Reached
  <2>3. c \in Peers /\ p.read[c] \in Int
    BY <1>2, FramesInt
  <2>4. f < p.read[c]
    BY <1>2, <2>1, <2>2, <2>3
  <2>5. At(Server, p, f).frame = f
    BY <1>1, <1>2, <2>1, <2>2, <2>4 DEF Held, Reached, Passed
  <2>6. QED
    BY <2>5, PlaceIs DEF At
<1>7. Linked(Server, q)
  BY <1>2 DEF Linked
<1>8. Begun(Server, q)
  BY DEF Begun
<1>9. QED
  BY <1>4, <1>5, <1>6, <1>7, <1>8 DEF PeerInv

\* After netplay_force_future all counts are at the frame of the server itself.
LEMMA ForcedFuture ==
  ASSUME NEW p, PeerInv(Server, p), NEW q, q = netplay_force_future(p)
  PROVE  /\ q \in Netplays(Server)
         /\ q.self = p.self /\ q.run = p.self /\ q.other = p.self
         /\ \A c \in Peers : q.read[c] = p.read[c] \/ (p.read[c] <= p.self /\ q.read[c] = p.self)
         /\ \A c \in p.players : p.self <= q.read[c]
         /\ q.players = p.players /\ q.playing = p.playing /\ q.polling = p.polling
         /\ q.connected = p.connected /\ q.force_rewind = p.force_rewind
         /\ q.ring = p.ring /\ q.loads = p.loads /\ q.core = p.core
<1>1. p \in Netplays(Server) /\ Counted(Server, p) /\ Serving(p)
  BY DEF PeerInv
<1>2. p.self \in Int /\ p.other \in Int /\ p.self \in Frames /\ p.self \in Counts
      /\ p.players \in SUBSET Peers /\ p.read \in [Peers -> Counts] /\ p.run \in Int
  BY <1>1, PeerTypes, FramesInt
<1>3. Max({p.other, p.self}) = p.self
  BY <1>1, <1>2, MaxOfTwo DEF Counted, Serving
<1>4. PICK d : d = [c \in Peers |-> IF c \in p.players THEN Max({p.read[c], p.self}) ELSE p.read[c]]
  OBVIOUS
<1>5. /\ d \in [Peers -> Counts]
      /\ \A c \in Peers : d[c] = p.read[c] \/ (p.read[c] <= p.self /\ d[c] = p.self)
      /\ \A c \in p.players : p.self <= d[c]
  <2>1. \A c \in Peers : p.read[c] \in Counts /\ p.read[c] \in Int
    BY <1>2, FramesInt
  <2>2. \A c \in p.players : c \in Peers /\ Max({p.read[c], p.self}) =
                               IF p.read[c] >= p.self THEN p.read[c] ELSE p.self
    BY <1>2, <2>1, MaxOfTwo
  <2>3. QED
    BY <1>2, <1>4, <2>1, <2>2
<1>6. q = [p EXCEPT !.run = p.self, !.read = d, !.other = p.self]
  BY <1>3, <1>4 DEF netplay_force_future
<1>7. QED
  BY <1>1, <1>2, <1>5, <1>6 DEF Netplays

\* A core that has just been loaded is a core.
LEMMA CoreTypes ==
  ASSUME NEW n \in 0..MaxLoads
  PROVE  Core(n) \in Cores
BY EmptySeq DEF Core, Cores, Unsynced

\* A state is loaded that is sent then.
LEMMA LoadedStays ==
  ASSUME NEW p, PeerInv(Server, p), ~p.polling, p.connected, p.loads < MaxLoads,
         NEW q, q = netplay_load_savestate(p)
  PROVE  /\ PeerInv(Server, q) /\ q.self = p.self /\ q.run = p.self /\ ~q.polling /\ q.connected
         /\ q.core = Core(p.loads + 1) /\ q.core \in Cores
         /\ At(Server, q, q.run).state = q.core
<1>1. p \in Netplays(Server)
  BY DEF PeerInv
<1>2. PICK F : F = netplay_force_future(p)
  OBVIOUS
<1>3. /\ F \in Netplays(Server)
      /\ F.self = p.self /\ F.run = p.self /\ F.other = p.self
      /\ \A c \in Peers : F.read[c] = p.read[c] \/ (p.read[c] <= p.self /\ F.read[c] = p.self)
      /\ \A c \in p.players : p.self <= F.read[c]
      /\ F.players = p.players /\ F.playing = p.playing /\ F.polling = p.polling
      /\ F.connected = p.connected /\ F.force_rewind = p.force_rewind
      /\ F.ring = p.ring /\ F.loads = p.loads
  BY <1>2, ForcedFuture
<1>4. p.loads + 1 \in 0..MaxLoads /\ p.self \in Int /\ p.loads + 1 \in Int
  <2>1. MaxLoads \in Nat /\ p.loads \in 0..MaxLoads
    BY <1>1, PeerTypes, NetplayAssumption
  <2>2. p.self \in Int
    BY <1>1, PeerTypes, FramesInt
  <2>3. QED
    BY <2>1, <2>2
<1>5. PICK s : s = Core(p.loads + 1)
  OBVIOUS
<1>6. s \in Cores
  BY <1>4, <1>5, CoreTypes
<1>7. PICK k : k = Place(Server, p.self)
  OBVIOUS
<1>8. k \in 1..BufferSize(Server) /\ Ptr(F, F.run) = k /\ F.ring \in [1..BufferSize(Server) -> Deltas]
      /\ F.ring[k] \in Deltas
  BY <1>3, <1>4, <1>7, RingPlace, PlaceIs
<1>9. PICK e : e = [F.ring[k] EXCEPT !.state = s]
  OBVIOUS
<1>10. e \in Deltas /\ e.frame = F.ring[k].frame /\ e.have_local = F.ring[k].have_local /\ e.state = s
  BY <1>6, <1>8, <1>9 DEF Deltas
<1>11. q = [F EXCEPT !.loads = p.loads + 1, !.core = s, !.ring[k] = e]
  <2>1. q = [F EXCEPT !.loads = F.loads + 1, !.core = s, !.ring[k].state = s]
    BY <1>2, <1>5, <1>8 DEF netplay_load_savestate
  <2>2. QED
    BY <1>3, <1>9, <2>1
<1>12. /\ q \in Netplays(Server)
       /\ q.ring = [F.ring EXCEPT ![k] = e] /\ q.core = s /\ q.loads = p.loads + 1
       /\ q.self = F.self /\ q.run = F.run /\ q.other = F.other /\ q.read = F.read
       /\ q.players = F.players /\ q.playing = F.playing /\ q.polling = F.polling
       /\ q.connected = F.connected /\ q.force_rewind = F.force_rewind
  <2>1. F \in Netplays(Server)
    BY <1>3
  <2>2. [F.ring EXCEPT ![k] = e] \in [1..BufferSize(Server) -> Deltas]
    BY <1>8, <1>10
  <2>3. q = [F EXCEPT !.loads = p.loads + 1, !.core = s, !.ring = [F.ring EXCEPT ![k] = e]]
    BY <1>11
  <2>4. QED
    BY <1>4, <1>6, <2>1, <2>2, <2>3 DEF Netplays
<1>13. \A j \in 1..BufferSize(Server) : q.ring[j].frame = p.ring[j].frame
                                          /\ q.ring[j].have_local = p.ring[j].have_local
  BY <1>3, <1>8, <1>10, <1>12
<1>14. PeerInv(Server, q)
  <2>1. /\ q.self = p.self /\ q.run = p.self /\ q.other = p.self
        /\ \A c \in Peers : q.read[c] = p.read[c] \/ (p.read[c] <= p.self /\ q.read[c] = p.self)
        /\ \A c \in p.players : p.self <= q.read[c]
        /\ q.players = p.players /\ q.playing = p.playing /\ q.polling = p.polling
        /\ q.connected = p.connected /\ q.force_rewind = p.force_rewind
    BY <1>3, <1>12
  <2>2. q \in Netplays(Server)
    BY <1>12
  <2>3. QED
    BY <1>13, <2>1, <2>2, NowStays
<1>15. q.ring[k].state = s
  BY <1>8, <1>10, <1>12
<1>16. QED
  BY <1>3, <1>5, <1>6, <1>7, <1>12, <1>14, <1>15 DEF At

\* A server whose user loads a state keeps the invariant, whether the frame has
\* a place in the ring or not.
LEMMA HostLoadsStays ==
  ASSUME NEW p, PeerInv(Server, p), ~p.polling, p.connected, p.loads < MaxLoads,
         NEW F, F = netplay_force_future(p)
  PROVE  /\ Ready(F, F.self) =>
              LET q == netplay_load_savestate(netplay_delta_frame_ready(F, F.self))
              IN PeerInv(Server, q) /\ q.run \in Frames /\ q.core \in Cores
         /\ PeerInv(Server, [F EXCEPT !.loads = @ + 1, !.core = Core(F.loads + 1)])
<1>1. p \in Netplays(Server)
  BY DEF PeerInv
<1>2. /\ F \in Netplays(Server)
      /\ F.self = p.self /\ F.run = p.self /\ F.other = p.self
      /\ \A c \in Peers : F.read[c] = p.read[c] \/ (p.read[c] <= p.self /\ F.read[c] = p.self)
      /\ \A c \in p.players : p.self <= F.read[c]
      /\ F.players = p.players /\ F.playing = p.playing /\ F.polling = p.polling
      /\ F.connected = p.connected /\ F.force_rewind = p.force_rewind
      /\ F.ring = p.ring /\ F.loads = p.loads
  BY ForcedFuture
<1>3. p.self \in Frames /\ p.loads + 1 \in 0..MaxLoads
  <2>1. MaxLoads \in Nat /\ p.loads \in 0..MaxLoads
    BY <1>1, PeerTypes, NetplayAssumption
  <2>2. QED
    BY <1>1, <2>1, PeerTypes
<1>4. ASSUME Ready(F, F.self)
      PROVE  LET q == netplay_load_savestate(netplay_delta_frame_ready(F, F.self))
             IN PeerInv(Server, q) /\ q.run \in Frames /\ q.core \in Cores
  <2>1. PeerInv(Server, F)
    BY <1>2, NowStays
  <2>2. PICK r : r = netplay_delta_frame_ready(F, F.self)
    OBVIOUS
  <2>3. PeerInv(Server, r)
    BY <1>2, <1>3, <1>4, <2>1, <2>2, ReadyStays
  <2>4. ~r.polling /\ r.connected /\ r.loads < MaxLoads /\ r.self \in Frames
    <3>1. RingOnly(F, r)
      BY <1>2, <1>3, <2>2, FrameReady
    <3>2. MaxLoads \in Nat /\ p.loads \in 0..MaxLoads /\ F.loads = p.loads
      BY <1>1, <1>2, PeerTypes, NetplayAssumption
    <3>3. QED
      BY <1>2, <1>3, <3>1, <3>2 DEF RingOnly
  <2>5. PICK q : q = netplay_load_savestate(r)
    OBVIOUS
  <2>6. PeerInv(Server, q) /\ q.run = r.self /\ q.core \in Cores
    BY <2>3, <2>4, <2>5, LoadedStays
  <2>7. QED
    BY <2>2, <2>4, <2>5, <2>6
<1>5. PeerInv(Server, [F EXCEPT !.loads = @ + 1, !.core = Core(F.loads + 1)])
  <2>1. PICK s : s = Core(p.loads + 1)
    OBVIOUS
  <2>2. s \in Cores
    BY <1>3, <2>1, CoreTypes
  <2>3. PICK q : q = [F EXCEPT !.loads = p.loads + 1, !.core = s]
    OBVIOUS
  <2>4. /\ q \in Netplays(Server)
        /\ q.ring = F.ring
        /\ q.self = F.self /\ q.run = F.run /\ q.other = F.other /\ q.read = F.read
        /\ q.players = F.players /\ q.playing = F.playing /\ q.polling = F.polling
        /\ q.connected = F.connected /\ q.force_rewind = F.force_rewind
    BY <1>2, <1>3, <2>2, <2>3 DEF Netplays
  <2>5. PeerInv(Server, q)
    BY <1>2, <2>4, NowStays
  <2>6. QED
    BY <1>2, <2>1, <2>3, <2>5
<1>6. QED
  BY <1>4, <1>5

\* The frame before its input is taken: the state has been saved, and may have been
\* sent, in which case what is older is forgotten.
LEMMA PreFrameStays ==
  ASSUME NEW i \in Peers, NEW p, PeerInv(i, p), ~p.polling, p.connected,
         NEW q, q = netplay_sync_pre_frame(p)
  PROVE  /\ PeerInv(i, q) /\ ~q.polling /\ q.connected /\ q.self = p.self
         /\ Ready(q, q.run) => At(i, q, q.run).state = q.core
<1>1. PICK s : s = Saved(p)
  OBVIOUS
<1>2. PeerInv(i, s) /\ RingOnly(p, s) /\ (Ready(s, p.run) => At(i, s, p.run).state = p.core)
  BY <1>1, SavedStays
<1>3. CASE ~SendsState(p)
  <2>1. q = s
    BY <1>1, <1>3 DEF netplay_sync_pre_frame
  <2>2. QED
    BY <1>2, <2>1 DEF RingOnly
<1>4. CASE SendsState(p)
  <2>1. p.force_send /\ p.loads < MaxLoads
    BY <1>4 DEF SendsState, MayLoad
  <2>2. i = Server
    BY <2>1 DEF PeerInv, Counted
  <2>3. PICK l : l = netplay_load_savestate(s)
    OBVIOUS
  <2>4. ~s.polling /\ s.connected /\ s.loads < MaxLoads /\ s.self = p.self
    BY <1>2, <2>1 DEF RingOnly
  <2>5. /\ PeerInv(Server, l) /\ l.self = p.self /\ l.run = p.self /\ ~l.polling /\ l.connected
        /\ l.core = Core(s.loads + 1) /\ l.core \in Cores
        /\ At(Server, l, l.run).state = l.core
    BY <1>2, <2>2, <2>3, <2>4, LoadedStays
  <2>6. q = [l EXCEPT !.force_send = FALSE]
    BY <1>1, <1>4, <2>3 DEF netplay_sync_pre_frame
  <2>7. l \in Netplays(Server)
    BY <2>5 DEF PeerInv
  <2>8. /\ q \in Netplays(Server)
        /\ q.ring = l.ring /\ q.core = l.core /\ q.self = l.self /\ q.run = l.run
        /\ q.other = l.other /\ q.server = l.server /\ q.read = l.read /\ q.players = l.players
        /\ q.playing = l.playing /\ q.force_rewind = l.force_rewind
        /\ q.polling = l.polling /\ q.connected = l.connected
    BY <2>6, <2>7 DEF Netplays
  <2>9. PeerInv(Server, q)
    BY <2>5, <2>8, SameStays
  <2>10. At(Server, q, q.run).state = q.core
    BY <2>5, <2>8 DEF At
  <2>11. QED
    BY <2>2, <2>5, <2>8, <2>9, <2>10
<1>5. QED
  BY <1>3, <1>4

\* A delta frame whose local input is taken is one still.
LEMMA Taken ==
  ASSUME NEW d \in Deltas
  PROVE  /\ [d EXCEPT !.have_local = TRUE] \in Deltas
         /\ [d EXCEPT !.have_local = TRUE].frame = d.frame
         /\ [d EXCEPT !.have_local = TRUE].state = d.state
         /\ [d EXCEPT !.have_local = TRUE].resolved = d.resolved
BY DEF Deltas

\* The input of a frame has been taken.
Took(i, p, q) ==
  /\ q \in Netplays(i)
  /\ q.playing = p.playing /\ q.players = p.players
  /\ q.self = p.self /\ q.run = p.run /\ q.other = p.other /\ q.server = p.server
  /\ q.force_rewind = p.force_rewind /\ q.force_send = p.force_send /\ q.core = p.core
  /\ q.polling = p.polling /\ q.connected = p.connected
  /\ \/ q.read = p.read /\ (HaveLocal(p) \/ ~p.playing)
     \/ q.read = [p.read EXCEPT ![i] = p.self + 1]
  /\ Keeps(i, p, q)
  /\ At(i, q, p.self).frame = p.self /\ At(i, q, p.self).state = At(i, p, p.self).state
  /\ \A k \in 1..BufferSize(i) : q.ring[k].have_local =>
       \/ p.ring[k].have_local /\ p.ring[k].frame = q.ring[k].frame
       \/ q.ring[k].frame = p.self

\* get_self_input_state changes the place of the frame and what has been read of
\* the peer itself.
LEMMA TakesInput ==
  ASSUME NEW i \in Peers, NEW p \in Netplays(i), Ready(p, p.self), NEW v \in SUBSET Buttons,
         p.self < MaxFrame
  PROVE  Took(i, p, get_self_input_state(i, p, v))
<1>0. PICK q : q = get_self_input_state(i, p, v)
  OBVIOUS
<1>1. PICK f : f = p.self
  OBVIOUS
<1>2. f \in Frames /\ f \in Int /\ f + 1 \in Counts
  BY <1>1, PeerTypes, FramesInt, NetplayAssumption DEF Frames, Counts
<1>3. CASE HaveLocal(p)
  <2>1. q = p
    BY <1>0, <1>3 DEF get_self_input_state
  <2>2. At(i, p, f).frame = f
    BY <1>1, <1>2, <1>3, RingPlace DEF HaveLocal
  <2>3. QED
    BY <1>0, <1>1, <1>3, <2>1, <2>2 DEF Keeps, Took
<1>4. CASE ~HaveLocal(p)
  <2>1. PICK r : r = netplay_delta_frame_ready(p, f)
    OBVIOUS
  <2>2. /\ r \in Netplays(i) /\ RingOnly(p, r) /\ At(i, r, f).frame = f
        /\ At(i, r, f).state = At(i, p, f).state
        /\ KeepsLocal(p, r) /\ Keeps(i, p, r)
    BY <1>1, <1>2, <2>1, FrameReady
  <2>3. PICK k : k = Place(i, f)
    OBVIOUS
  <2>4. k \in 1..BufferSize(i) /\ Ptr(r, f) = k /\ r.ring[k] \in Deltas /\ r.ring[k] = At(i, r, f)
        /\ r.ring \in [1..BufferSize(i) -> Deltas] /\ p.ring \in [1..BufferSize(i) -> Deltas]
    BY <1>2, <2>2, <2>3, RingPlace, PlaceIs DEF At
  <2>5. PICK e : e = [IF p.playing THEN Given(r.ring[k], i, v) ELSE r.ring[k] EXCEPT !.have_local = TRUE]
    OBVIOUS
  <2>6. e \in Deltas /\ e.frame = f /\ e.state = r.ring[k].state /\ e.resolved = r.ring[k].resolved
    <3>1. PICK d : d = IF p.playing THEN Given(r.ring[k], i, v) ELSE r.ring[k]
      OBVIOUS
    <3>2. d \in Deltas /\ d.frame = f /\ d.state = r.ring[k].state /\ d.resolved = r.ring[k].resolved
      BY <2>2, <2>4, <3>1, Received
    <3>3. QED
      BY <2>5, <3>1, <3>2, Taken
  <2>7. PICK rd : rd = IF p.playing THEN [p.read EXCEPT ![i] = f + 1] ELSE p.read
    OBVIOUS
  <2>8. r.self = f /\ r.playing = p.playing /\ r.read = p.read
    BY <1>1, <2>2 DEF RingOnly
  <2>9. p.read \in [Peers -> Counts]
    BY PeerTypes
  <2>10. rd \in [Peers -> Counts]
    BY <1>2, <2>7, <2>9
  <2>11. PICK g : g = [r.ring EXCEPT ![k] = e]
    OBVIOUS
  <2>12. g \in [1..BufferSize(i) -> Deltas]
    BY <2>4, <2>6, <2>11
  <2>13. q = [r EXCEPT !.ring = g, !.read = rd]
    <3>1. CASE p.playing
      <4>1. q = [r EXCEPT !.ring[k] = [Given(r.ring[k], i, v) EXCEPT !.have_local = TRUE],
                          !.read[i] = f + 1]
        BY <1>0, <1>1, <1>4, <2>1, <2>4, <2>8, <3>1 DEF get_self_input_state
      <4>2. QED
        BY <2>5, <2>7, <2>8, <2>11, <3>1, <4>1
    <3>2. CASE ~p.playing
      <4>1. q = [r EXCEPT !.ring[k].have_local = TRUE]
        BY <1>0, <1>1, <1>4, <2>1, <2>4, <2>8, <3>2 DEF get_self_input_state
      <4>2. q = [r EXCEPT !.ring[k] = e]
        BY <2>5, <3>2, <4>1
      <4>3. r.read = rd
        BY <2>7, <2>8, <3>2
      <4>4. QED
        BY <2>2, <2>11, <4>2, <4>3 DEF Netplays
    <3>3. QED
      BY <3>1, <3>2
  <2>14. /\ q \in Netplays(i) /\ q.ring = g /\ q.read = rd
         /\ q.playing = r.playing /\ q.players = r.players
         /\ q.self = r.self /\ q.run = r.run /\ q.other = r.other /\ q.server = r.server
         /\ q.force_rewind = r.force_rewind /\ q.force_send = r.force_send /\ q.core = r.core
         /\ q.polling = r.polling /\ q.connected = r.connected
    BY <2>2, <2>10, <2>12, <2>13 DEF Netplays
  <2>15. \A j \in 1..BufferSize(i) : /\ q.ring[j].frame = r.ring[j].frame
                                     /\ q.ring[j].state = r.ring[j].state
                                     /\ q.ring[j].resolved = r.ring[j].resolved
                                     /\ j # k => q.ring[j] = r.ring[j]
    BY <2>2, <2>4, <2>6, <2>11, <2>14
  <2>16. Keeps(i, p, q)
    BY <2>2, <2>15, PlaceIs DEF Keeps, At
  <2>17. At(i, q, f).frame = f /\ At(i, q, f).state = At(i, p, f).state
    BY <2>2, <2>3, <2>4, <2>15 DEF At
  <2>18. ASSUME NEW j \in 1..BufferSize(i), q.ring[j].have_local
         PROVE  \/ p.ring[j].have_local /\ p.ring[j].frame = q.ring[j].frame
                \/ q.ring[j].frame = f
    <3>1. CASE j = k
      BY <2>2, <2>4, <2>15, <3>1
    <3>2. CASE j # k
      BY <2>2, <2>4, <2>15, <2>18, <3>2 DEF KeepsLocal
    <3>3. QED
      BY <3>1, <3>2
  <2>19. QED
    <3>1. /\ q.playing = p.playing /\ q.players = p.players
          /\ q.self = p.self /\ q.run = p.run /\ q.other = p.other /\ q.server = p.server
          /\ q.force_rewind = p.force_rewind /\ q.force_send = p.force_send /\ q.core = p.core
          /\ q.polling = p.polling /\ q.connected = p.connected
      BY <2>2, <2>14 DEF RingOnly
    <3>2. \/ q.read = p.read /\ (HaveLocal(p) \/ ~p.playing)
          \/ q.read = [p.read EXCEPT ![i] = p.self + 1]
      BY <1>1, <2>7, <2>14
    <3>3. Took(i, p, q)
      BY <1>1, <2>14, <2>16, <2>17, <2>18, <3>1, <3>2 DEF Took
    <3>4. QED
      BY <1>0, <3>3
<1>5. QED
  BY <1>3, <1>4

\* A peer that begins a frame keeps the invariant.
LEMMA FrameBegun ==
  ASSUME NEW i \in Peers, NEW p, PeerInv(i, p), ~p.polling, p.connected, p.self < MaxFrame,
         Ready(p, p.self), Ready(p, p.run) => At(i, p, p.run).state = p.core,
         NEW v \in SUBSET Buttons
  PROVE  PeerInv(i, [get_self_input_state(i, p, v) EXCEPT !.polling = TRUE])
<1>1. p \in Netplays(i) /\ Counted(i, p) /\ Held(i, p) /\ Linked(i, p) /\ (i = Server => Serving(p))
      /\ ~p.force_rewind
  BY DEF PeerInv, Counted
<1>2. PICK q : q = get_self_input_state(i, p, v)
  OBVIOUS
<1>3. PICK t : t = [q EXCEPT !.polling = TRUE]
  OBVIOUS
<1>4. Took(i, p, q)
  <2>1. p \in Netplays(i)
    BY <1>1
  <2>2. QED
    BY <1>2, <2>1, TakesInput
<1>5. /\ t \in Netplays(i) /\ t.polling /\ t.ring = q.ring /\ t.read = q.read
      /\ t.playing = q.playing /\ t.players = q.players
      /\ t.self = q.self /\ t.run = q.run /\ t.other = q.other /\ t.server = q.server
      /\ t.force_rewind = q.force_rewind /\ t.force_send = q.force_send /\ t.core = q.core
      /\ t.connected = q.connected
  <2>1. q \in Netplays(i)
    BY <1>4 DEF Took
  <2>2. QED
    BY <1>3, <2>1 DEF Netplays
<1>6. /\ t.playing = p.playing /\ t.players = p.players
      /\ t.self = p.self /\ t.run = p.run /\ t.other = p.other /\ t.server = p.server
      /\ ~t.force_rewind /\ t.force_send = p.force_send /\ t.core = p.core
      /\ t.connected
  BY <1>1, <1>4, <1>5 DEF Took
<1>7. \/ t.read = p.read /\ (HaveLocal(p) \/ ~p.playing)
      \/ t.read = [p.read EXCEPT ![i] = p.self + 1]
  BY <1>4, <1>5 DEF Took
<1>8. Keeps(i, p, t) /\ At(i, t, p.self).frame = p.self /\ At(i, t, p.self).state = At(i, p, p.self).state
  BY <1>4, <1>5 DEF Keeps, At, Took
<1>9. \A k \in 1..BufferSize(i) : t.ring[k].have_local =>
              \/ p.ring[k].have_local /\ p.ring[k].frame = t.ring[k].frame
              \/ t.ring[k].frame = p.self
  BY <1>4, <1>5 DEF Took
<1>10. p.self \in Int /\ p.run \in Int /\ p.other \in Int /\ p.server \in Int
       /\ p.players \in SUBSET Peers /\ p.read \in [Peers -> Counts]
  BY <1>1, PeerTypes, FramesInt
<1>11. p.run <= p.self /\ p.other <= p.run
  BY <1>1 DEF Counted
<1>12. \A c \in Peers : p.read[c] \in Int /\ (t.read[c] = p.read[c] \/ (c = i /\ t.read[c] = p.self + 1))
  BY <1>7, <1>10, FramesInt
<1>13. Counted(i, t)
  <2>1. \A c \in p.players : p.other <= t.read[c]
    BY <1>1, <1>10, <1>11, <1>12 DEF Counted
  <2>2. i # Server => t.read[Server] = p.read[Server]
    BY <1>12 DEF Peers
  <2>3. QED
    BY <1>1, <1>5, <1>6, <2>1, <2>2 DEF Counted
<1>14. i = Server => Serving(t)
  <2>1. SUFFICES ASSUME i = Server PROVE Serving(t)
    OBVIOUS
  <2>2. t.read[Server] = p.self + 1
    <3>1. CASE t.read = p.read /\ HaveLocal(p)
      <4>1. PICK k : k = Place(i, p.self)
        OBVIOUS
      <4>2. k \in DOMAIN p.ring /\ Delta(p, p.self) = p.ring[k]
        BY <1>1, <1>10, <4>1, RingPlace, PlaceIs DEF At
      <4>3. p.ring[k].have_local /\ p.ring[k].frame = p.self
        BY <3>1, <4>2 DEF HaveLocal
      <4>4. p.self < p.read[Server]
        BY <1>1, <2>1, <4>2, <4>3 DEF Serving
      <4>5. QED
        BY <1>1, <1>10, <1>12, <2>1, <3>1, <4>4 DEF Serving
    <3>2. CASE t.read = [p.read EXCEPT ![i] = p.self + 1]
      BY <1>10, <2>1, <3>2
    <3>3. QED
      BY <1>1, <1>7, <2>1, <3>1, <3>2 DEF Serving
  <2>3. DOMAIN p.ring = 1..BufferSize(i) /\ DOMAIN t.ring = 1..BufferSize(i)
    BY <1>1, <1>5, RingPlace
  <2>4. ASSUME NEW k \in DOMAIN t.ring, t.ring[k].have_local
        PROVE  t.ring[k].frame < p.self + 1
    <3>1. CASE t.ring[k].frame = p.self
      BY <1>10, <3>1
    <3>2. CASE p.ring[k].have_local /\ p.ring[k].frame = t.ring[k].frame
      <4>1. p.ring[k].frame < p.read[Server] /\ p.read[Server] <= p.self + 1
        BY <1>1, <2>1, <2>3, <3>2 DEF Serving
      <4>2. p.ring[k].frame \in Int /\ p.read[Server] \in Int
        BY <1>1, <1>12, <2>1, <2>3, RingPlace, DeltaTypes, FramesInt
      <4>3. QED
        BY <1>10, <3>2, <4>1, <4>2
    <3>3. QED
      BY <1>9, <2>3, <2>4, <3>1, <3>2
  <2>5. QED
    BY <1>1, <1>6, <1>10, <2>1, <2>2, <2>4 DEF Serving
<1>15. Passed(i, p) => Passed(i, t)
  BY <1>6, <1>10, <1>11, <1>12 DEF Passed
<1>16. Held(i, t)
  <2>1. SUFFICES ASSUME NEW f \in Int, p.other <= f, Reached(t, f), At(i, t, f).frame # f
                 PROVE  f = p.run /\ Passed(i, t)
    BY <1>6 DEF Held
  <2>2. f # p.self
    BY <1>8, <2>1
  <2>3. Reached(p, f)
    BY <1>6, <1>10, <1>12, <2>1, <2>2 DEF Reached
  <2>4. At(i, p, f).frame # f
    BY <1>8, <2>1 DEF Keeps
  <2>5. QED
    BY <1>1, <1>15, <2>1, <2>3, <2>4 DEF Held
<1>17. Linked(i, t)
  <2>1. SUFFICES ASSUME NEW f \in p.other..p.run - 1
                 PROVE  CoreRun(At(i, t, f).state, At(i, t, f).resolved)
                          = IF f + 1 = p.run THEN p.core ELSE At(i, t, f + 1).state
    BY <1>6 DEF Linked
  <2>2. f \in Int /\ p.other <= f /\ At(i, p, f).frame = f
    BY <1>1, <1>10, RunIsHeld
  <2>3. At(i, t, f).state = At(i, p, f).state /\ At(i, t, f).resolved = At(i, p, f).resolved
    BY <1>8, <2>2 DEF Keeps
  <2>4. ASSUME f + 1 # p.run PROVE At(i, t, f + 1).state = At(i, p, f + 1).state
    <3>1. f + 1 \in Int /\ p.other <= f + 1 /\ f + 1 < p.run
      BY <1>10, <2>4
    <3>2. At(i, p, f + 1).frame = f + 1
      BY <1>1, <3>1, RunIsHeld
    <3>3. QED
      BY <1>8, <3>1, <3>2 DEF Keeps
  <2>5. QED
    BY <1>1, <2>1, <2>3, <2>4 DEF Linked
<1>18. Begun(i, t)
  <2>1. SUFFICES ASSUME ~Passed(i, t) PROVE At(i, t, p.run).state = p.core
    BY <1>6 DEF Begun
  <2>2. CASE p.run = p.self
    BY <1>8, <2>2
  <2>3. CASE p.run # p.self
    <3>1. At(i, p, p.run).frame = p.run
      BY <1>1, <1>10, <1>11, <1>15, <2>1, <2>3 DEF Held, Reached
    <3>2. Ready(p, p.run)
      BY <1>1, <1>10, <3>1, RingPlace DEF Ready
    <3>3. QED
      BY <1>8, <1>10, <1>11, <3>1, <3>2 DEF Keeps
  <2>4. QED
    BY <2>2, <2>3
<1>19. QED
  BY <1>2, <1>3, <1>5, <1>13, <1>14, <1>16, <1>17, <1>18 DEF PeerInv

-----------------------------------------------------------------------------
(* A client is told who plays, and is given states. *)

\* A client that only gives away places of frames that are over keeps the invariant.
LEMMA RingStays ==
  ASSUME NEW i, i # Server, NEW p, PeerInv(i, p),
         NEW q \in Netplays(i), RingOnly(p, q), Keeps(i, p, q)
  PROVE  PeerInv(i, q)
<1>1. Counted(i, q)
  BY DEF PeerInv, Counted, RingOnly
<1>2. (Passed(i, p) => Passed(i, q)) /\ \A f \in Int : Reached(q, f) => Reached(p, f)
  BY DEF Passed, Reached, RingOnly
<1>3. Alike(i, p, q)
  BY <1>2 DEF Alike, RingOnly
<1>4. QED
  BY <1>1, <1>3, AlikeStays DEF PeerInv

\* What NETPLAY_CMD_MODE makes of a client, before it looks for its own frames.
Plays(i, p, c) == [Joined(p, c) EXCEPT !.playing = @ \/ c = i]

\* A client that hears of a new player keeps the invariant.
LEMMA JoinedStays ==
  ASSUME NEW i \in Peers, i # Server, NEW p, PeerInv(i, p), p.polling, NEW c \in Clients,
         NEW q, q = Plays(i, p, c)
  PROVE  PeerInv(i, q) /\ q.self = p.self /\ q.server = p.server
<1>1. p \in Netplays(i) /\ Counted(i, p)
  BY DEF PeerInv
<1>2. c \in Peers /\ c # Server
  BY NetplayAssumption DEF Peers
<1>3. p.server \in Counts /\ p.server \in Int /\ p.self \in Int /\ p.run \in Int /\ p.other \in Int
      /\ p.players \in SUBSET Peers /\ p.read \in [Peers -> Counts]
  BY <1>1, PeerTypes, FramesInt
<1>4. PICK n : n = (p.force_rewind \/ p.server < p.self)
  OBVIOUS
<1>5. q = [p EXCEPT !.players = @ \cup {c}, !.read[c] = p.server, !.force_rewind = n,
                    !.playing = @ \/ c = i]
  BY <1>4 DEF Joined, Plays
<1>6. n \in BOOLEAN
  BY <1>1, <1>4 DEF Netplays
<1>7. /\ q \in Netplays(i) /\ q.players = p.players \cup {c} /\ q.read = [p.read EXCEPT ![c] = p.server]
      /\ q.force_rewind = n
      /\ q.self = p.self /\ q.run = p.run /\ q.other = p.other /\ q.server = p.server
      /\ q.force_send = p.force_send /\ q.core = p.core
      /\ q.polling = p.polling /\ q.connected = p.connected /\ q.ring = p.ring
  <2>1. PICK rd : rd = [p.read EXCEPT ![c] = p.server]
    OBVIOUS
  <2>2. PICK ps : ps = p.players \cup {c}
    OBVIOUS
  <2>7. rd \in [Peers -> Counts] /\ ps \in SUBSET Peers /\ p \in Netplays(i)
    BY <1>1, <1>2, <1>3, <2>1, <2>2
  <2>3. PICK pl : pl = (p.playing \/ c = i)
    OBVIOUS
  <2>4. pl \in BOOLEAN
    BY <1>1, <2>3, PeerTypes
  <2>5. q = [p EXCEPT !.players = ps, !.read = rd, !.force_rewind = n, !.playing = pl]
    BY <1>5, <2>1, <2>2, <2>3
  <2>8. /\ q \in Netplays(i) /\ q.players = ps /\ q.read = rd /\ q.force_rewind = n
        /\ q.self = p.self /\ q.run = p.run /\ q.other = p.other /\ q.server = p.server
        /\ q.force_send = p.force_send /\ q.core = p.core
        /\ q.polling = p.polling /\ q.connected = p.connected /\ q.ring = p.ring
    BY <1>6, <2>4, <2>5, <2>7 DEF Netplays
  <2>6. QED
    BY <2>1, <2>2, <2>8
<1>8. \A a \in Peers : q.read[a] = IF a = c THEN p.server ELSE p.read[a]
  BY <1>3, <1>7
<1>9. Server \in p.players /\ Server \in Peers /\ p.server <= p.read[Server]
      /\ p.other <= p.server /\ p.read[Server] \in Int
  <2>1. Server \in Peers
    BY DEF Peers
  <2>2. QED
    BY <1>1, <1>3, <2>1, FramesInt DEF Counted
<1>10. Counted(i, q)
  <2>1. \A a \in q.players : p.other <= q.read[a]
    <3>1. SUFFICES ASSUME NEW a \in q.players PROVE p.other <= q.read[a]
      OBVIOUS
    <3>2. a \in Peers /\ (a \in p.players \/ a = c)
      BY <1>2, <1>3, <1>7
    <3>3. QED
      BY <1>1, <1>8, <1>9, <3>2 DEF Counted
  <2>2. ~n => ~p.force_rewind
    BY <1>4
  <2>3. q.read[Server] = p.read[Server]
    BY <1>2, <1>8, <1>9
  <2>4. QED
    BY <1>1, <1>7, <1>9, <2>1, <2>2, <2>3 DEF Counted
<1>11. Keeps(i, p, q)
  BY <1>7 DEF Keeps, At
<1>12. Passed(i, p) => Passed(i, q)
  <2>1. SUFFICES ASSUME Passed(i, p), NEW a \in q.players PROVE p.run < q.read[a]
    BY <1>7 DEF Passed
  <2>2. a \in Peers /\ (a \in p.players \/ a = c)
    BY <1>2, <1>3, <1>7
  <2>3. QED
    BY <1>8, <2>1, <2>2 DEF Passed
<1>13. ASSUME NEW f \in Int, Reached(q, f) PROVE Reached(p, f)
  <2>1. CASE f < p.self \/ (f = p.self /\ p.polling)
    BY <2>1 DEF Reached
  <2>2. CASE \E a \in q.players : f < q.read[a]
    <3>1. PICK a \in q.players : f < q.read[a]
      BY <2>2
    <3>2. CASE a = c
      <4>1. f < p.read[Server]
        BY <1>2, <1>3, <1>8, <1>9, <3>1, <3>2
      <4>2. QED
        BY <1>9, <4>1 DEF Reached
    <3>3. CASE a # c
      BY <1>3, <1>7, <1>8, <3>1, <3>3 DEF Reached
    <3>4. QED
      BY <3>2, <3>3
  <2>3. QED
    BY <1>7, <1>13, <2>1, <2>2 DEF Reached
<1>14. Alike(i, p, q)
  BY <1>4, <1>7, <1>11, <1>12, <1>13 DEF Alike
<1>15. QED
  BY <1>7, <1>10, <1>14, AlikeStays DEF PeerInv

\* A client that has taken no input for the frames it has begun keeps the invariant.
LEMMA GivesPastStays ==
  ASSUME NEW i \in Peers, i # Server, NEW p, PeerInv(i, p)
  PROVE  PeerInv(i, GivesPast(i, p))
<1>1. p \in Netplays(i)
  BY DEF PeerInv
<1>2. PICK past : past = p.server..p.self
  OBVIOUS
<1>3. PICK given : given = { k \in 1..BufferSize(i) : \E f \in past : Ptr(p, f) = k }
  OBVIOUS
<1>4. PICK g : g = [k \in 1..BufferSize(i) |->
                      IF k \in given THEN [Given(p.ring[k], i, Zero) EXCEPT !.have_local = TRUE]
                      ELSE p.ring[k]]
  OBVIOUS
<1>5. DOMAIN p.ring = 1..BufferSize(i) /\ p.ring \in [1..BufferSize(i) -> Deltas]
  BY <1>1, RingPlace
<1>6. GivesPast(i, p) = [p EXCEPT !.ring = g]
  BY <1>2, <1>3, <1>4, <1>5 DEF GivesPast
<1>7. ASSUME NEW k \in 1..BufferSize(i)
      PROVE  g[k] \in Deltas /\ g[k].frame = p.ring[k].frame /\ g[k].state = p.ring[k].state
             /\ g[k].resolved = p.ring[k].resolved
  <2>1. p.ring[k] \in Deltas /\ Zero \in SUBSET Buttons
    BY <1>5 DEF Zero
  <2>2. PICK d : d = Given(p.ring[k], i, Zero)
    OBVIOUS
  <2>3. d \in Deltas /\ d.frame = p.ring[k].frame /\ d.state = p.ring[k].state
        /\ d.resolved = p.ring[k].resolved
    BY <2>1, <2>2, Received
  <2>4. QED
    BY <1>4, <2>1, <2>2, <2>3, Taken
<1>8. g \in [1..BufferSize(i) -> Deltas]
  BY <1>4, <1>7
<1>9. PICK q : q = [p EXCEPT !.ring = g]
  OBVIOUS
<1>10. q \in Netplays(i) /\ q.ring = g /\ RingOnly(p, q)
  BY <1>1, <1>8, <1>9 DEF Netplays, RingOnly
<1>11. Keeps(i, p, q)
  BY <1>7, <1>10, PlaceIs DEF Keeps, At
<1>12. QED
  BY <1>6, <1>9, <1>10, <1>11, RingStays

\* A client that skips to the frame of its first input keeps the invariant.
LEMMA SkipsToFutureStays ==
  ASSUME NEW i \in Peers, i # Server, NEW p, PeerInv(i, p), NEW n, n = p.server
  PROVE  PeerInv(i, SkipsToFuture(p, n))
<1>1. p \in Netplays(i)
  BY DEF PeerInv
<1>2. PICK skipped : skipped = { Ptr(p, f) : f \in p.self..n - 1 }
  OBVIOUS
<1>3. PICK first : first = [k \in 1..BufferSize(i) |-> CHOOSE f \in p.self..n - 1 : Ptr(p, f) = k]
  OBVIOUS
<1>4. PICK g : g = [k \in 1..BufferSize(i) |->
                      IF k \notin skipped THEN p.ring[k]
                      ELSE [(IF p.ring[k].frame # Unused THEN p.ring[k]
                             ELSE Fresh(first[k], p.ring[k].state)) EXCEPT !.have_local = TRUE]]
  OBVIOUS
<1>5. DOMAIN p.ring = 1..BufferSize(i) /\ p.ring \in [1..BufferSize(i) -> Deltas]
  BY <1>1, RingPlace
<1>6. SkipsToFuture(p, n) = [p EXCEPT !.ring = g]
  <2>1. [p.ring EXCEPT ![1] = p.ring[1]] = p.ring
    BY <1>5
  <2>2. QED
    BY <1>2, <1>3, <1>4, <1>5 DEF SkipsToFuture
<1>7. ASSUME NEW k \in 1..BufferSize(i)
      PROVE  /\ g[k] \in Deltas
             /\ p.ring[k].frame # Unused =>
                  g[k].frame = p.ring[k].frame /\ g[k].state = p.ring[k].state
                    /\ g[k].resolved = p.ring[k].resolved
  <2>1. p.ring[k] \in Deltas
    BY <1>5
  <2>2. CASE k \notin skipped
    BY <1>4, <2>1, <2>2
  <2>3. CASE k \in skipped
    <3>1. PICK f \in p.self..n - 1 : Ptr(p, f) = k
      BY <1>2, <2>3
    <3>2. first[k] \in p.self..n - 1
      BY <1>3, <3>1
    <3>3. n \in Counts /\ p.self \in Frames
      BY <1>1, PeerTypes
    <3>4. first[k] \in Frames
      BY <3>2, <3>3, NetplayAssumption DEF Counts, Frames
    <3>5. PICK d : d = IF p.ring[k].frame # Unused THEN p.ring[k]
                       ELSE Fresh(first[k], p.ring[k].state)
      OBVIOUS
    <3>6. d \in Deltas
      BY <2>1, <3>4, <3>5, DeltaTypes, FreshIs
    <3>7. g[k] = [d EXCEPT !.have_local = TRUE]
      BY <1>4, <2>3, <3>5
    <3>8. QED
      BY <3>5, <3>6, <3>7, Taken
  <2>4. QED
    BY <2>2, <2>3
<1>8. g \in [1..BufferSize(i) -> Deltas]
  BY <1>4, <1>7
<1>9. PICK q : q = [p EXCEPT !.ring = g]
  OBVIOUS
<1>10. q \in Netplays(i) /\ q.ring = g /\ RingOnly(p, q)
  BY <1>1, <1>8, <1>9 DEF Netplays, RingOnly
<1>11. Keeps(i, p, q)
  <2>1. SUFFICES ASSUME NEW f \in Int, p.other <= f, p.ring[Place(i, f)].frame = f
                 PROVE  /\ g[Place(i, f)].frame = f
                        /\ g[Place(i, f)].state = p.ring[Place(i, f)].state
                        /\ g[Place(i, f)].resolved = p.ring[Place(i, f)].resolved
    BY <1>10 DEF Keeps, At
  <2>2. p.other \in Nat
    BY <1>1, PeerTypes, NetplayAssumption DEF Frames
  <2>3. f # Unused
    BY <2>1, <2>2 DEF Unused
  <2>4. QED
    BY <1>7, <2>1, <2>3, PlaceIs
<1>12. QED
  BY <1>6, <1>9, <1>10, <1>11, RingStays

\* A client that loads a savestate keeps the invariant.
LEMMA LoadsStays ==
  ASSUME NEW i \in Peers, i # Server, NEW p, PeerInv(i, p), p.polling,
         NEW m, m.frame = p.server, m.frame \in Frames, m.state \in Cores, Ready(p, m.frame)
  PROVE  PeerInv(i, Loads(p, m))
<1>1. p \in Netplays(i) /\ Counted(i, p) /\ Held(i, p)
  BY DEF PeerInv
<1>2. PICK f : f = m.frame
  OBVIOUS
<1>3. f \in Frames /\ f \in Int /\ f = p.server /\ f \in Counts
  BY <1>2, FramesInt
<1>4. p.self \in Int /\ p.run \in Int /\ p.other \in Int /\ p.self \in Frames /\ p.run \in Frames
      /\ p.players \in SUBSET Peers /\ p.read \in [Peers -> Counts]
  BY <1>1, PeerTypes, FramesInt
<1>5. PICK r : r = netplay_delta_frame_ready(p, f)
  OBVIOUS
<1>6. r \in Netplays(i) /\ RingOnly(p, r) /\ At(i, r, f).frame = f /\ Keeps(i, p, r)
  BY <1>1, <1>2, <1>3, <1>5, FrameReady
<1>7. PICK k : k = Place(i, f)
  OBVIOUS
<1>8. k \in 1..BufferSize(i) /\ Ptr(r, f) = k /\ r.ring \in [1..BufferSize(i) -> Deltas]
      /\ r.ring[k] \in Deltas
  BY <1>3, <1>6, <1>7, RingPlace, PlaceIs
<1>9. PICK e : e = [r.ring[k] EXCEPT !.state = m.state]
  OBVIOUS
<1>10. e \in Deltas /\ e.frame = r.ring[k].frame
  BY <1>8, <1>9 DEF Deltas
<1>11. PICK d : d = [c \in Peers |-> IF c \in p.players THEN Max({p.read[c], f}) ELSE p.read[c]]
  OBVIOUS
<1>12. /\ d \in [Peers -> Counts]
       /\ \A c \in p.players : f <= d[c] /\ p.read[c] \in Int
                               /\ d[c] = IF p.read[c] >= f THEN p.read[c] ELSE f
  <2>1. \A c \in Peers : p.read[c] \in Counts /\ p.read[c] \in Int
    BY <1>4, FramesInt
  <2>2. \A c \in p.players : c \in Peers /\ Max({p.read[c], f}) =
                               IF p.read[c] >= f THEN p.read[c] ELSE f
    BY <1>3, <1>4, <2>1, MaxOfTwo
  <2>3. QED
    BY <1>3, <1>4, <1>11, <2>1, <2>2
<1>13. PICK rn : rn = IF f > p.run THEN f - 1 ELSE p.run
  OBVIOUS
<1>14. PICK sf : sf = IF f > p.run /\ f > p.self THEN f - 1 ELSE p.self
  OBVIOUS
<1>15. rn \in Frames /\ sf \in Frames /\ rn \in Int /\ sf \in Int /\ rn <= sf /\ f <= rn + 1
       /\ (sf = p.self \/ sf = f - 1)
  BY <1>1, <1>3, <1>4, <1>13, <1>14, NetplayAssumption DEF Frames, Counted
<1>16. PICK q : q = Loads(p, m)
  OBVIOUS
<1>17. PICK g : g = [r.ring EXCEPT ![k] = e]
  OBVIOUS
<1>18. g \in [1..BufferSize(i) -> Deltas] /\ \A j \in 1..BufferSize(i) : g[j].frame = r.ring[j].frame
  BY <1>8, <1>10, <1>17
<1>19. q = [r EXCEPT !.ring = g, !.force_rewind = TRUE, !.run = rn, !.self = sf, !.read = d,
                     !.other = f, !.outstanding = FALSE]
  <2>1. r.run = p.run /\ r.self = p.self /\ r.read = p.read /\ r.players = p.players
    BY <1>6 DEF RingOnly
  <2>2. QED
    <3>1. q = [r EXCEPT !.ring[k].state = m.state, !.force_rewind = TRUE,
                        !.run = IF f > r.run THEN f - 1 ELSE r.run,
                        !.self = IF f > r.run /\ f > r.self THEN f - 1 ELSE r.self,
                        !.read = [c \in Peers |-> IF c \in r.players THEN Max({r.read[c], f})
                                                  ELSE r.read[c]],
                        !.other = f, !.outstanding = FALSE]
      BY <1>2, <1>5, <1>8, <1>16 DEF Loads
    <3>2. q = [r EXCEPT !.ring[k].state = m.state, !.force_rewind = TRUE, !.run = rn, !.self = sf,
                        !.read = d, !.other = f, !.outstanding = FALSE]
      BY <1>11, <1>13, <1>14, <2>1, <3>1
    <3>3. QED
      BY <1>9, <1>17, <3>2
<1>20. /\ q \in Netplays(i) /\ q.ring = g /\ q.force_rewind /\ q.run = rn /\ q.self = sf /\ q.read = d
       /\ q.other = f /\ q.players = r.players /\ q.server = r.server /\ q.polling = r.polling
       /\ q.connected = r.connected /\ q.force_send = r.force_send
  <2>1. r \in Netplays(i) /\ f \in Frames /\ rn \in Frames /\ sf \in Frames /\ d \in [Peers -> Counts]
        /\ g \in [1..BufferSize(i) -> Deltas]
    BY <1>3, <1>6, <1>12, <1>15, <1>18
  <2>2. QED
    BY <1>19, <2>1 DEF Netplays
<1>21. q.players = p.players /\ q.server = f /\ q.polling /\ q.connected = p.connected
       /\ q.force_send = p.force_send
  BY <1>3, <1>6, <1>20 DEF RingOnly
<1>22. Counted(i, q)
  <2>1. q.polling => sf < MaxFrame
    BY <1>1, <1>3, <1>4, <1>15, NetplayAssumption DEF Counted, Frames
  <2>2. Server \in p.players /\ f <= d[Server] /\ ~p.force_send
    BY <1>1, <1>12 DEF Counted
  <2>3. f <= f /\ f <= rn + 1 /\ rn <= sf
    BY <1>3, <1>15
  <2>4. QED
    BY <1>12, <1>20, <1>21, <2>1, <2>2, <2>3 DEF Counted
<1>23. Held(i, q)
  <2>1. SUFFICES ASSUME NEW h \in Int, f <= h, Reached(q, h)
                 PROVE  At(i, q, h).frame = h
    BY <1>20 DEF Held
  <2>2. Reached(p, h)
    <3>1. CASE h < sf \/ h = sf
      BY <1>3, <1>4, <1>15, <2>1, <3>1 DEF Reached
    <3>2. CASE \E c \in p.players : h < d[c]
      BY <1>3, <1>12, <2>1, <3>2 DEF Reached
    <3>3. QED
      BY <1>20, <1>21, <2>1, <3>1, <3>2 DEF Reached
  <2>3. p.other <= f
    BY <1>1, <1>3 DEF Counted
  <2>4. p.other <= h
    BY <1>3, <1>4, <2>1, <2>3
  <2>5. ~(h = p.run /\ Passed(i, p))
    BY <1>3, <1>4, <2>1 DEF Passed
  <2>6. At(i, p, h).frame = h
    BY <1>1, <2>2, <2>4, <2>5 DEF Held
  <2>7. At(i, r, h).frame = h
    BY <1>6, <2>4, <2>6 DEF Keeps
  <2>8. QED
    BY <1>18, <1>20, <2>7, PlaceIs DEF At
<1>24. QED
  BY <1>16, <1>20, <1>22, <1>23 DEF PeerInv, Linked, Begun

-----------------------------------------------------------------------------
(* A frame ends. *)

\* Any set of numbers with an element has a least one.
LEMMA MinIs ==
  ASSUME NEW S \in SUBSET Nat, S # {}
  PROVE  Min(S) \in S /\ \A n \in S : Min(S) <= n
BY LeastNat DEF Min

\* Frames and counts are natural numbers.
LEMMA FramesNat == Frames \subseteq Nat /\ Counts \subseteq Nat
BY NetplayAssumption DEF Frames, Counts

\* The frame whose input is not there yet is not behind other.
LEMMA UnreadIs ==
  ASSUME NEW i, NEW p \in Netplays(i), Server \in p.players,
         NEW u, u = netplay_update_unread_ptr(i, p)
  PROVE  /\ u \in Nat
         /\ ~Alone(i, p) =>
              /\ \A c \in p.players : u <= p.read[c]
              /\ i # Server => u <= p.server
              /\ (\E c \in p.players : u = p.read[c]) \/ (i # Server /\ u = p.server)
<1>1. p.self \in Nat /\ p.server \in Nat /\ p.players \in SUBSET Peers /\ p.read \in [Peers -> Nat]
  BY PeerTypes, FramesNat
<1>2. CASE Alone(i, p)
  BY <1>1, <1>2 DEF Alone, netplay_update_unread_ptr
<1>3. CASE ~Alone(i, p)
  <2>1. PICK S : S = { p.read[c] : c \in p.players } \cup IF i = Server THEN {} ELSE {p.server}
    OBVIOUS
  <2>2. u = Min(S)
    BY <1>3, <2>1 DEF Alone, netplay_update_unread_ptr
  <2>3. S \in SUBSET Nat /\ S # {}
    BY <1>1, <2>1
  <2>4. u \in S /\ \A n \in S : u <= n
    BY <2>2, <2>3, MinIs
  <2>5. QED
    BY <1>3, <2>1, <2>3, <2>4
<1>4. QED
  BY <1>2, <1>3

\* The input of a frame that is there, and nothing of those whose it is not.
Known(d) == [c \in Peers |-> IF c \in d.have_real THEN d.real[c] ELSE Zero]

\* A frame whose input there is from every player gets that.
Looked(p, d, e) == (\A c \in p.players : d.frame < p.read[c]) => e.resolved = Known(d)

\* What is known of a frame when its input has been looked for.
LEMMA ResolvedIs ==
  ASSUME NEW i, NEW p \in Netplays(i), NEW d \in Deltas, NEW resim \in BOOLEAN,
         NEW e, e = netplay_resolve_input(p, d, resim)
  PROVE  /\ e \in Deltas /\ e.frame = d.frame /\ e.have_local = d.have_local /\ e.state = d.state
         /\ e.have_real = d.have_real /\ e.real = d.real
         /\ Looked(p, d, e)
<1>1. p.players \in SUBSET Peers /\ p.read \in [Peers -> Counts]
  BY PeerTypes
<1>2. \A c \in Peers : Delta(p, p.read[c] - 1).real[c] \in SUBSET Buttons
  <2>1. SUFFICES ASSUME NEW c \in Peers PROVE Delta(p, p.read[c] - 1).real[c] \in SUBSET Buttons
    OBVIOUS
  <2>2. p.read[c] - 1 \in Int
    <3>1. p.read[c] \in Counts
      BY <1>1
    <3>2. p.read[c] \in Int
      BY <3>1, FramesInt
    <3>3. QED
      BY <3>2
  <2>3. Delta(p, p.read[c] - 1) \in Deltas
    BY <2>2, RingPlace
  <2>4. QED
    BY <2>3, DeltaTypes DEF Boards
<1>3. d.real \in Boards /\ d.sim \in Boards
  BY DeltaTypes
<1>4. PICK guess : guess = [c \in Peers |->
          IF resim THEN (d.sim[c] \cap Directions) \cup (Delta(p, p.read[c] - 1).real[c] \ Directions)
          ELSE Delta(p, p.read[c] - 1).real[c]]
  OBVIOUS
<1>5. guess \in [Peers -> SUBSET Buttons]
  BY <1>2, <1>3, <1>4 DEF Boards
<1>6. PICK guessed : guessed = { c \in p.players \ d.have_real :
                                   p.read[c] <= d.frame /\ c \in Delta(p, p.read[c] - 1).have_real }
  OBVIOUS
<1>7. e = [d EXCEPT !.sim      = [c \in Peers |-> IF c \in guessed THEN guess[c] ELSE @[c]],
                    !.resolved = [c \in Peers |-> IF c \in d.have_real THEN d.real[c]
                                                  ELSE IF c \in guessed THEN guess[c] ELSE Zero]]
  BY <1>4, <1>6 DEF netplay_resolve_input
<1>8. PICK sim : sim = [c \in Peers |-> IF c \in guessed THEN guess[c] ELSE d.sim[c]]
  OBVIOUS
<1>9. PICK res : res = [c \in Peers |-> IF c \in d.have_real THEN d.real[c]
                                        ELSE IF c \in guessed THEN guess[c] ELSE Zero]
  OBVIOUS
<1>10. sim \in Boards /\ res \in Boards
  BY <1>3, <1>5, <1>8, <1>9 DEF Boards, Zero
<1>11. e = [d EXCEPT !.sim = sim, !.resolved = res]
  BY <1>7, <1>8, <1>9
<1>12. e \in Deltas /\ e.frame = d.frame /\ e.have_local = d.have_local /\ e.state = d.state
       /\ e.have_real = d.have_real /\ e.real = d.real /\ e.resolved = res
  BY <1>10, <1>11 DEF Deltas
<1>13. Looked(p, d, e)
  <2>1. SUFFICES ASSUME \A c \in p.players : d.frame < p.read[c] PROVE res = Known(d)
    BY <1>12 DEF Looked
  <2>2. ASSUME NEW c \in guessed PROVE FALSE
    <3>1. c \in p.players /\ p.read[c] <= d.frame /\ d.frame < p.read[c]
      BY <1>6, <2>1, <2>2
    <3>2. p.read[c] \in Counts /\ d.frame \in {Unused} \cup Frames
      BY <1>1, <3>1, DeltaTypes
    <3>3. p.read[c] \in Int /\ d.frame \in Int
      BY <3>2, FramesInt
    <3>4. QED
      BY <3>1, <3>3
  <2>3. QED
    BY <1>9, <2>2 DEF Known
<1>14. QED
  BY <1>12, <1>13

\* Nothing changes but what is guessed of the frame to be run, and how long to wait.
Polled(i, p, q) ==
  /\ q \in Netplays(i)
  /\ q.playing = p.playing /\ q.players = p.players
  /\ q.self = p.self /\ q.run = p.run /\ q.other = p.other /\ q.server = p.server
  /\ q.read = p.read /\ q.stall_sent = p.stall_sent
  /\ q.force_rewind = p.force_rewind /\ q.force_send = p.force_send /\ q.core = p.core
  /\ q.polling = p.polling /\ q.connected = p.connected
  /\ q.asked = p.asked /\ q.loads = p.loads
  /\ \A k \in 1..BufferSize(i) :
       /\ q.ring[k].frame = p.ring[k].frame /\ q.ring[k].have_local = p.ring[k].have_local
       /\ q.ring[k].have_real = p.ring[k].have_real /\ q.ring[k].real = p.ring[k].real
       /\ q.ring[k].state = p.ring[k].state
       /\ k # Place(i, p.run) => q.ring[k].resolved = p.ring[k].resolved

\* How long to wait is a number, whatever is measured.
LEMMA LatencyIs ==
  ASSUME NEW i, NEW p \in Netplays(i), NEW n \in Latencies(i, p)
  PROVE  n \in Nat
<1>1. p.latency \in Nat /\ LatencyMin \in Nat /\ LatencyMax \in Nat
  BY PeerTypes, NetplayAssumption
<1>2. n = p.latency \/ n = p.latency + 1
        \/ (n = p.latency - 1 /\ (p.latency > LatencyMax \/ p.latency > LatencyMin))
  BY DEF Latencies
<1>3. QED
  BY <1>1, <1>2

Stalls == {"none", "fast", "spectator", "latency", "server"}

\* To stall, or to stop, touches nothing else.
LEMMA StallTypes ==
  ASSUME NEW i, NEW p \in Netplays(i), NEW s \in Stalls, NEW n \in 0..StallTime
  PROVE  Polled(i, p, [p EXCEPT !.stall = s, !.stall_frame = n])
<1>1. PICK q : q = [p EXCEPT !.stall = s, !.stall_frame = n]
  OBVIOUS
<1>2. /\ q \in Netplays(i) /\ q.ring = p.ring
      /\ q.playing = p.playing /\ q.players = p.players
      /\ q.self = p.self /\ q.run = p.run /\ q.other = p.other /\ q.server = p.server
      /\ q.read = p.read /\ q.stall_sent = p.stall_sent
      /\ q.force_rewind = p.force_rewind /\ q.force_send = p.force_send /\ q.core = p.core
      /\ q.polling = p.polling /\ q.connected = p.connected
      /\ q.asked = p.asked /\ q.loads = p.loads
  BY <1>1 DEF Netplays, Stalls
<1>3. QED
  BY <1>1, <1>2 DEF Polled

\* A peer whose stall ends is the same otherwise.
LEMMA UnstalledIs ==
  ASSUME NEW i, NEW p \in Netplays(i)
  PROVE  Polled(i, p, Unstalled(i, p)) /\ Unstalled(i, p).ring = p.ring
<1>1. PICK s : s = Unstalled(i, p).stall
  OBVIOUS
<1>2. PICK n : n = Unstalled(i, p).stall_frame
  OBVIOUS
<1>3. p.stall \in Stalls /\ p.stall_frame \in 0..StallTime
  BY DEF Netplays, Stalls
<1>4. s = p.stall \/ s = "none"
  BY <1>1 DEF Unstalled, Netplays
<1>5. n = p.stall_frame \/ (n = p.stall_frame - 1 /\ p.stall_frame # 0)
  BY <1>2 DEF Unstalled, Netplays
<1>6. Unstalled(i, p) = [p EXCEPT !.stall = s, !.stall_frame = n]
  BY <1>1, <1>2 DEF Unstalled, Netplays
<1>7. s \in Stalls /\ n \in 0..StallTime
  BY <1>3, <1>4, <1>5, NetplayAssumption DEF Stalls
<1>8. Polled(i, p, [p EXCEPT !.stall = s, !.stall_frame = n])
  BY <1>7, StallTypes
<1>10. Unstalled(i, p).ring = p.ring
  BY <1>6 DEF Netplays
<1>9. QED
  BY <1>6, <1>8, <1>10

\* A peer whose stall begins is the same otherwise.
LEMMA StalledIs ==
  ASSUME NEW i, NEW p \in Netplays(i)
  PROVE  Polled(i, p, Stalled(i, p)) /\ Stalled(i, p).ring = p.ring
<1>1. p.stall \in Stalls /\ p.stall_frame \in 0..StallTime
  BY DEF Netplays, Stalls
<1>2. PICK s \in Stalls : Stalled(i, p) = [p EXCEPT !.stall = s]
  BY <1>1 DEF Stalled, Stalls
<1>3. [p EXCEPT !.stall = s] = [p EXCEPT !.stall = s, !.stall_frame = p.stall_frame]
  BY DEF Netplays
<1>4. Polled(i, p, [p EXCEPT !.stall = s, !.stall_frame = p.stall_frame])
  BY <1>1, <1>2, StallTypes
<1>6. Stalled(i, p).ring = p.ring
  BY <1>2 DEF Netplays
<1>5. QED
  BY <1>2, <1>3, <1>4, <1>6

\* Two changes that leave the game alone are one.
LEMMA PolledTwice ==
  ASSUME NEW i, NEW p \in Netplays(i), NEW q, NEW r, Polled(i, p, q), Polled(i, q, r)
  PROVE  Polled(i, p, r)
BY DEF Polled

\* netplay_poll guesses and stalls, and leaves the game alone.
LEMMA PollIs ==
  ASSUME NEW i, NEW p \in Netplays(i), NEW q \in netplay_poll(i, p)
  PROVE  Polled(i, p, q) /\ Looked(p, At(i, p, p.run), At(i, q, p.run))
<1>1. PICK k : k = Place(i, p.run)
  OBVIOUS
<1>2. p.run \in Int
  BY PeerTypes, FramesInt
<1>3. k \in 1..BufferSize(i) /\ Ptr(p, p.run) = k /\ p.ring \in [1..BufferSize(i) -> Deltas]
      /\ p.ring[k] \in Deltas
  BY <1>1, <1>2, RingPlace, PlaceIs
<1>4. PICK e : e = netplay_resolve_input(p, p.ring[k], FALSE)
  OBVIOUS
<1>5. e \in Deltas /\ e.frame = p.ring[k].frame /\ e.have_local = p.ring[k].have_local
      /\ e.state = p.ring[k].state /\ e.have_real = p.ring[k].have_real
      /\ e.real = p.ring[k].real /\ Looked(p, p.ring[k], e)
  <2>1. PICK d : d = p.ring[k]
    OBVIOUS
  <2>2. PICK b \in BOOLEAN : b = FALSE
    OBVIOUS
  <2>3. d \in Deltas /\ e = netplay_resolve_input(p, d, b)
    BY <1>3, <1>4, <2>1, <2>2
  <2>4. e \in Deltas /\ e.frame = d.frame /\ e.have_local = d.have_local /\ e.state = d.state
        /\ e.have_real = d.have_real /\ e.real = d.real /\ Looked(p, d, e)
    BY <2>3, ResolvedIs
  <2>5. QED
    BY <2>1, <2>4
<1>6. PICK g : g = [p.ring EXCEPT ![k] = e]
  OBVIOUS
<1>7. g \in [1..BufferSize(i) -> Deltas]
      /\ \A j \in 1..BufferSize(i) :
           /\ g[j].frame = p.ring[j].frame /\ g[j].have_local = p.ring[j].have_local
           /\ g[j].have_real = p.ring[j].have_real /\ g[j].real = p.ring[j].real
           /\ g[j].state = p.ring[j].state
           /\ j # k => g[j].resolved = p.ring[j].resolved
  BY <1>3, <1>5, <1>6
<1>8. PICK a : a = [p EXCEPT !.ring = g]
  OBVIOUS
<1>9. a \in Netplays(i)
  BY <1>7, <1>8 DEF Netplays
<1>10. PICK n \in Latencies(i, a) : q = Stalled(i, Unstalled(i, [a EXCEPT !.latency = n]))
  BY <1>3, <1>4, <1>6, <1>8 DEF netplay_poll
<1>11. n \in Nat
  BY <1>9, <1>10, LatencyIs
<1>12. PICK b : b = [p EXCEPT !.ring = g, !.latency = n]
  OBVIOUS
<1>13. b = [a EXCEPT !.latency = n]
  BY <1>8, <1>12
<1>14. /\ b \in Netplays(i) /\ b.ring = g
       /\ b.playing = p.playing /\ b.players = p.players
       /\ b.self = p.self /\ b.run = p.run /\ b.other = p.other /\ b.server = p.server
       /\ b.read = p.read /\ b.stall_sent = p.stall_sent
       /\ b.force_rewind = p.force_rewind /\ b.force_send = p.force_send /\ b.core = p.core
       /\ b.polling = p.polling /\ b.connected = p.connected
       /\ b.asked = p.asked /\ b.loads = p.loads
  BY <1>7, <1>11, <1>12 DEF Netplays
<1>15. Polled(i, p, b)
  BY <1>1, <1>7, <1>14 DEF Polled
<1>16. PICK c : c = Unstalled(i, b)
  OBVIOUS
<1>17. Polled(i, b, c) /\ q = Stalled(i, c) /\ c.ring = g
  BY <1>10, <1>13, <1>14, <1>16, UnstalledIs
<1>18. c \in Netplays(i)
  BY <1>17 DEF Polled
<1>19. Polled(i, c, q) /\ q.ring = g
  BY <1>17, <1>18, StalledIs
<1>21. At(i, p, p.run) = p.ring[k] /\ At(i, q, p.run) = e
  BY <1>1, <1>3, <1>6, <1>19 DEF At
<1>20. QED
  BY <1>5, <1>14, <1>15, <1>17, <1>19, <1>21, PolledTwice

\* The frame to be run is in the ring, with its state.
HasRun(i, p) ==
  \/ ~Passed(i, p)
  \/ /\ At(i, p, p.run).frame = p.run
     /\ p.force_rewind \/ At(i, p, p.run).state = p.core

\* The frames that have been run are in the ring, and lead to what the core is.
Leads(i, p, q) == (\A f \in p.other..q.run - 1 : At(i, q, f).frame = f) /\ Linked(i, q)

\* The frame has been run, unless the peer stalls; the next one may begin.
Ran(i, p, q) ==
  /\ q \in Netplays(i)
  /\ q.playing = p.playing /\ q.players = p.players /\ q.other = p.other /\ q.server = p.server
  /\ q.read = p.read /\ q.force_rewind = p.force_rewind /\ q.force_send = p.force_send
  /\ q.polling = p.polling /\ q.connected = p.connected
  /\ q.run = p.run \/ q.run = p.run + 1
  /\ q.run <= q.self /\ (q.self = p.self \/ q.self = p.self + 1)
  /\ Alone(i, p) => q.run = q.self
  /\ q.asked = p.asked /\ q.loads = p.loads
  /\ \A k \in 1..BufferSize(i) :
       /\ q.ring[k].frame = p.ring[k].frame /\ q.ring[k].have_local = p.ring[k].have_local
       /\ q.ring[k].have_real = p.ring[k].have_real /\ q.ring[k].real = p.ring[k].real
       /\ q.ring[k].state = p.ring[k].state
  /\ q.core = IF q.run = p.run THEN p.core ELSE CoreRun(p.core, At(i, q, p.run).resolved)
  /\ Looked(p, At(i, p, p.run), At(i, q, p.run))
  /\ HasRun(i, p) => Leads(i, p, q)

\* netplay_post_frame goes to the next frame, unless the peer stalls.
LEMMA AdvancedIs ==
  ASSUME NEW i \in Peers, NEW p, PeerInv(i, p), p.polling, NEW q, Polled(i, p, q),
         Looked(p, At(i, p, p.run), At(i, q, p.run)),
         NEW stalled \in BOOLEAN, Alone(i, p) => ~stalled,
         NEW a, a = IF stalled THEN q ELSE [q EXCEPT !.core = CoreRun(@, Delta(q, q.run).resolved)]
  PROVE  Ran(i, p, Advanced(a, stalled))
<1>1. p \in Netplays(i) /\ Counted(i, p) /\ Held(i, p) /\ Linked(i, p) /\ Begun(i, p)
      /\ (i = Server => Serving(p))
  BY DEF PeerInv
<1>2. p.self \in Int /\ p.run \in Int /\ p.other \in Int /\ p.self \in Frames /\ p.run \in Frames
      /\ p.run <= p.self /\ p.self < MaxFrame /\ p.latency \in Nat
  BY <1>1, PeerTypes, FramesInt DEF Counted
<1>3. q \in Netplays(i)
  BY DEF Polled
<1>4. q.run = p.run /\ q.core = p.core /\ q.self = p.self /\ q.other = p.other
  BY DEF Polled
<1>5. Delta(q, q.run) = At(i, q, p.run) /\ At(i, q, p.run) \in Deltas /\ q.core \in Cores
      /\ q.latency \in Nat
  BY <1>2, <1>3, <1>4, RingPlace, PeerTypes
<1>6. PICK n : n = IF stalled THEN p.core ELSE CoreRun(p.core, At(i, q, p.run).resolved)
  OBVIOUS
<1>7. n \in Cores
  <2>1. p.core \in Cores /\ At(i, q, p.run).resolved \in Boards
    BY <1>4, <1>5, DeltaTypes
  <2>2. CoreRun(p.core, At(i, q, p.run).resolved) \in Cores
    BY <2>1 DEF CoreRun, Cores
  <2>3. QED
    BY <1>6, <2>1, <2>2
<1>8. PICK rn : rn = IF stalled THEN p.run ELSE p.run + 1
  OBVIOUS
<1>9. PICK sf : sf = IF (~stalled \/ q.stall = "latency") /\ p.self < rn + q.latency
                     THEN p.self + 1 ELSE p.self
  OBVIOUS
<1>10. PICK r : r = Advanced(a, stalled)
  OBVIOUS
<1>11. r = [q EXCEPT !.core = n, !.run = rn, !.self = sf]
  <2>1. a = [q EXCEPT !.core = n]
    BY <1>3, <1>4, <1>5, <1>6 DEF Netplays
  <2>2. a.run = p.run /\ a.self = p.self /\ a.stall = q.stall /\ a.latency = q.latency
    BY <1>3, <1>4, <2>1 DEF Netplays
  <2>3. QED
    BY <1>8, <1>9, <1>10, <2>1, <2>2 DEF Advanced
<1>12. rn \in Int /\ sf \in Int /\ rn \in Frames /\ sf \in Frames /\ rn <= sf
       /\ (rn = p.run \/ rn = p.run + 1) /\ (sf = p.self \/ sf = p.self + 1)
  BY <1>2, <1>5, <1>8, <1>9, NetplayAssumption DEF Frames
<1>13. /\ r \in Netplays(i) /\ r.core = n /\ r.run = rn /\ r.self = sf /\ r.ring = q.ring
       /\ r.playing = q.playing /\ r.players = q.players /\ r.other = q.other
       /\ r.server = q.server /\ r.read = q.read /\ r.force_rewind = q.force_rewind
       /\ r.force_send = q.force_send /\ r.polling = q.polling /\ r.connected = q.connected
       /\ r.asked = q.asked /\ r.loads = q.loads
  BY <1>3, <1>7, <1>11, <1>12 DEF Netplays
<1>14. Alone(i, p) => rn = sf
  <2>1. SUFFICES ASSUME Alone(i, p) PROVE rn = sf
    OBVIOUS
  <2>2. p.run = p.self
    BY <1>1, <2>1 DEF Serving, Alone
  <2>3. QED
    BY <1>2, <1>5, <1>8, <1>9, <2>1, <2>2
<1>15. ASSUME HasRun(i, p), NEW f \in p.other..p.run
       PROVE  f \in Int /\ At(i, p, f).frame = f /\ At(i, q, f).frame = f
              /\ At(i, q, f).state = At(i, p, f).state
              /\ (f # p.run => At(i, q, f).resolved = At(i, p, f).resolved)
  <2>1. f \in Int /\ p.other <= f /\ f <= p.run
    BY <1>2
  <2>2. Reached(p, f)
    BY <1>2, <2>1 DEF Reached
  <2>3. At(i, p, f).frame = f
    BY <1>1, <1>15, <2>1, <2>2 DEF Held, HasRun
  <2>4. f # p.run => Place(i, f) # Place(i, p.run)
    <3>1. p.other <= p.run
      BY <1>2, <2>1
    <3>2. Reached(p, p.run)
      BY <1>2 DEF Reached
    <3>3. At(i, p, p.run).frame = p.run
      BY <1>1, <1>2, <1>15, <3>1, <3>2 DEF Held, HasRun
    <3>4. QED
      BY <2>3, <3>3 DEF At
  <2>5. Place(i, f) \in 1..BufferSize(i)
    BY <2>1, PlaceIs
  <2>6. QED
    BY <2>1, <2>3, <2>4, <2>5 DEF Polled, At
<1>16. ASSUME HasRun(i, p), NEW f \in p.other..rn - 1
       PROVE  At(i, r, f).frame = f
  BY <1>2, <1>12, <1>13, <1>15, <1>16 DEF At
<1>17. ASSUME HasRun(i, p), ~p.force_rewind, NEW f \in p.other..rn - 1
       PROVE  CoreRun(At(i, r, f).state, At(i, r, f).resolved)
                = IF f + 1 = rn THEN n ELSE At(i, r, f + 1).state
  <2>1. \A g : At(i, r, g) = At(i, q, g)
    BY <1>13 DEF At
  <2>2. f \in p.other..p.run
    BY <1>2, <1>12
  <2>3. CASE f = p.run
    <3>1. ~stalled /\ rn = p.run + 1
      BY <1>2, <1>8, <1>17, <2>3
    <3>2. At(i, q, p.run).state = p.core
      BY <1>1, <1>15, <1>17, <2>2, <2>3 DEF Begun, HasRun
    <3>3. QED
      BY <1>6, <2>1, <2>3, <3>1, <3>2
  <2>4. CASE f # p.run
    <3>1. f \in p.other..p.run - 1 /\ f + 1 \in p.other..p.run
      BY <1>2, <2>2, <2>4
    <3>2. CoreRun(At(i, p, f).state, At(i, p, f).resolved)
            = IF f + 1 = p.run THEN p.core ELSE At(i, p, f + 1).state
      BY <1>1, <1>17, <3>1 DEF Linked
    <3>3. CoreRun(At(i, r, f).state, At(i, r, f).resolved)
            = IF f + 1 = p.run THEN p.core ELSE At(i, r, f + 1).state
      BY <1>15, <1>17, <2>1, <2>2, <2>4, <3>1, <3>2
    <3>4. CASE stalled
      BY <1>6, <1>8, <3>3, <3>4
    <3>5. CASE ~stalled
      <4>1. rn = p.run + 1 /\ f + 1 # rn
        BY <1>2, <1>8, <2>4, <3>1, <3>5
      <4>2. f + 1 = p.run => At(i, r, f + 1).state = p.core
        BY <1>1, <1>15, <1>17, <2>1, <3>1 DEF Begun, HasRun
      <4>3. QED
        BY <3>3, <4>1, <4>2
    <3>6. QED
      BY <3>4, <3>5
  <2>5. QED
    BY <2>3, <2>4
<1>18. HasRun(i, p) => Linked(i, r)
  BY <1>4, <1>13, <1>17 DEF Linked, Polled
<1>19. Ran(i, p, r)
  <2>1. /\ r.playing = p.playing /\ r.players = p.players /\ r.other = p.other /\ r.server = p.server
        /\ r.read = p.read /\ r.force_rewind = p.force_rewind /\ r.force_send = p.force_send
        /\ r.polling = p.polling /\ r.connected = p.connected
        /\ r.asked = p.asked /\ r.loads = p.loads
        /\ \A k \in 1..BufferSize(i) :
             /\ r.ring[k].frame = p.ring[k].frame /\ r.ring[k].have_local = p.ring[k].have_local
             /\ r.ring[k].have_real = p.ring[k].have_real /\ r.ring[k].real = p.ring[k].real
             /\ r.ring[k].state = p.ring[k].state
    BY <1>13 DEF Polled
  <2>3. At(i, r, p.run) = At(i, q, p.run)
    BY <1>13 DEF At
  <2>4. Looked(p, At(i, p, p.run), At(i, r, p.run))
    BY <2>3
  <2>5. r.core = IF r.run = p.run THEN p.core ELSE CoreRun(p.core, At(i, r, p.run).resolved)
    BY <1>2, <1>6, <1>8, <1>13, <2>3
  <2>2. QED
    BY <1>12, <1>13, <1>14, <1>16, <1>18, <2>1, <2>4, <2>5 DEF Ran, Leads
<1>20. QED
  BY <1>10, <1>19

\* A core that has run the frames from a on.
LEMMA RunFromIs ==
  ASSUME NEW s \in Cores, NEW lo \in Int, NEW hi \in Int, NEW X \in [lo..hi -> Deltas],
         NEW a \in Int, lo <= a, NEW f \in Int, a <= f, f <= hi + 1 \/ a = f
  PROVE  /\ RunFrom(s, X, a, f) \in Cores
         /\ f <= hi => CoreRun(RunFrom(s, X, a, f), X[f].resolved) = RunFrom(s, X, a, f + 1)
         /\ a = f => RunFrom(s, X, a, f) = s
<1>1. PICK n : n = f - a
  OBVIOUS
<1>2. n \in Nat
  BY <1>1
<1>3. PICK t : t = [k \in 1..n |-> X[a + k - 1].resolved]
  OBVIOUS
<1>4. t \in [1..n -> Boards]
  <2>1. \A k \in 1..n : a + k - 1 \in lo..hi
    BY <1>1
  <2>2. \A k \in 1..n : X[a + k - 1] \in Deltas
    BY <2>1
  <2>3. \A k \in 1..n : X[a + k - 1].resolved \in Boards
    BY <2>2, DeltaTypes
  <2>4. QED
    BY <1>3, <2>3
<1>5. t \in Seq(Boards) /\ Len(t) = n
  BY <1>2, <1>4
<1>6. s.inputs \in Seq(Boards) /\ s.load \in Unsynced..MaxLoads
      /\ s = [load |-> s.load, inputs |-> s.inputs]
  BY DEF Cores
<1>7. s.inputs \o t \in Seq(Boards)
  BY <1>5, <1>6, ConcatProperties
<1>8. RunFrom(s, X, a, f) = [s EXCEPT !.inputs = s.inputs \o t]
  BY <1>1, <1>3 DEF RunFrom
<1>9. RunFrom(s, X, a, f) = [load |-> s.load, inputs |-> s.inputs \o t]
  BY <1>6, <1>8
<1>10. RunFrom(s, X, a, f) \in Cores
  BY <1>6, <1>7, <1>9 DEF Cores
<1>11. ASSUME f <= hi
       PROVE  CoreRun(RunFrom(s, X, a, f), X[f].resolved) = RunFrom(s, X, a, f + 1)
  <2>1. PICK u : u = [k \in 1..n + 1 |-> X[a + k - 1].resolved]
    OBVIOUS
  <2>2. \A k \in 1..n : u[k] = t[k]
    BY <1>2, <1>3, <2>1
  <2>3. u[n + 1] = X[f].resolved
    <3>1. n + 1 \in 1..n + 1 /\ a + (n + 1) - 1 = f
      BY <1>1, <1>2
    <3>2. QED
      BY <2>1, <3>1
  <2>4. X[f].resolved \in Boards
    <3>1. f \in lo..hi
      BY <1>11
    <3>2. QED
      BY <3>1, DeltaTypes
  <2>5. u \in [1..n + 1 -> Boards]
    <3>1. \A k \in 1..n + 1 : u[k] \in Boards
      BY <1>2, <1>4, <2>2, <2>3, <2>4
    <3>2. QED
      BY <2>1, <3>1
  <2>6. u \in Seq(Boards) /\ Len(u) = n + 1
    BY <1>2, <2>5
  <2>7. PICK x : x = X[f].resolved
    OBVIOUS
  <2>8. Append(s.inputs \o t, x) = s.inputs \o u
    <3>1. PICK m : m = Len(s.inputs)
      OBVIOUS
    <3>10. m \in Nat
      BY <1>6, <3>1, LenProperties
    <3>11. Len(s.inputs \o t) = m + n
      BY <1>5, <1>6, <3>1, ConcatProperties
    <3>12. Len(s.inputs \o u) = m + (n + 1) /\ s.inputs \o u \in Seq(Boards)
      <4>1. s.inputs \in Seq(Boards) /\ u \in Seq(Boards)
        BY <1>6, <2>6
      <4>2. Len(s.inputs \o u) = Len(s.inputs) + Len(u) /\ s.inputs \o u \in Seq(Boards)
        BY <4>1, ConcatProperties
      <4>3. QED
        BY <2>6, <3>1, <4>2
    <3>13. m + (n + 1) = m + n + 1
      BY <1>2, <3>10
    <3>2. Len(s.inputs \o t) = m + n /\ Len(s.inputs \o u) = m + n + 1 /\ s.inputs \o u \in Seq(Boards)
      BY <3>11, <3>12, <3>13
    <3>3. PICK v : v = s.inputs \o t
      OBVIOUS
    <3>4. v \in Seq(Boards) /\ Len(v) = m + n /\ x \in Boards
      BY <1>7, <2>4, <2>7, <3>2, <3>3
    <3>5. /\ Append(v, x) \in Seq(Boards) /\ Len(Append(v, x)) = m + n + 1
          /\ \A j \in 1..m + n : Append(v, x)[j] = v[j]
          /\ Append(v, x)[m + n + 1] = x
      BY <1>2, <3>4, <3>10
    <3>6. \A j \in 1..m + n : v[j] = IF j <= m THEN s.inputs[j] ELSE t[j - m]
      BY <1>5, <1>6, <3>1, <3>3, ConcatProperties
    <3>7. \A j \in 1..m + n + 1 : (s.inputs \o u)[j] = IF j <= m THEN s.inputs[j] ELSE u[j - m]
      BY <1>6, <2>6, <3>1, <3>13, ConcatProperties
    <3>8. ASSUME NEW j \in 1..m + n + 1
          PROVE  Append(v, x)[j] = (s.inputs \o u)[j]
      <4>1. CASE j = m + n + 1
        <5>1. j - m = n + 1 /\ ~(j <= m)
          BY <1>2, <3>10, <4>1
        <5>2. QED
          BY <2>3, <2>7, <3>5, <3>7, <4>1, <5>1
      <4>2. CASE j # m + n + 1
        <5>1. j \in 1..m + n /\ (~(j <= m) => j - m \in 1..n)
          BY <1>2, <3>10, <4>2
        <5>2. QED
          BY <2>2, <3>5, <3>6, <3>7, <5>1
      <4>3. QED
        BY <4>1, <4>2
    <3>9. QED
      BY <3>2, <3>3, <3>5, <3>8, SeqEqual
  <2>9. RunFrom(s, X, a, f + 1) = [load |-> s.load, inputs |-> s.inputs \o u]
    <3>1. (f + 1) - a = n + 1
      BY <1>1
    <3>2. RunFrom(s, X, a, f + 1) = [s EXCEPT !.inputs = s.inputs \o u]
      BY <2>1, <3>1 DEF RunFrom
    <3>3. QED
      BY <1>6, <3>2
  <2>10. CoreRun(RunFrom(s, X, a, f), x) = [load |-> s.load, inputs |-> Append(s.inputs \o t, x)]
    <3>1. PICK v : v = s.inputs \o t
      OBVIOUS
    <3>2. RunFrom(s, X, a, f) = [load |-> s.load, inputs |-> v]
      BY <1>9, <3>1
    <3>3. PICK w : w = s.load
      OBVIOUS
    <3>4. PICK y : y = [load |-> w, inputs |-> v]
      OBVIOUS
    <3>5. CoreRun(y, x) = [y EXCEPT !.inputs = Append(y.inputs, x)]
      BY DEF CoreRun
    <3>6. CoreRun(y, x) = [load |-> w, inputs |-> Append(v, x)]
      BY <3>4, <3>5
    <3>7. QED
      BY <3>1, <3>2, <3>3, <3>4, <3>6
  <2>11. QED
    BY <2>7, <2>8, <2>9, <2>10
<1>12. ASSUME a = f PROVE RunFrom(s, X, a, f) = s
  <2>1. Len(t) = 0
    BY <1>1, <1>5, <1>12
  <2>2. t = <<>>
    BY <1>5, <2>1, EmptySeq
  <2>3. s.inputs \o t = s.inputs
    BY <1>6, <2>2, ConcatEmptySeq
  <2>4. QED
    BY <1>6, <1>9, <2>3
<1>13. QED
  BY <1>10, <1>11, <1>12

\* Of the frames that were not certain, those whose input turns out otherwise are run
\* again, and what is certain now will not be looked at again.
Again(i, p, r) ==
  /\ r \in Netplays(i) /\ ~r.force_rewind
  /\ r.playing = p.playing /\ r.players = p.players /\ r.self = p.self /\ r.run = p.run
  /\ r.server = p.server /\ r.read = p.read /\ r.force_send = p.force_send
  /\ r.polling = p.polling /\ r.connected = p.connected
  /\ \E u \in Nat :
       /\ u = netplay_update_unread_ptr(i, p)
       /\ r.other = IF u <= p.run THEN u ELSE p.run
  /\ r.asked = p.asked /\ r.loads = p.loads
  /\ \A k \in 1..BufferSize(i) :
       /\ r.ring[k].frame = p.ring[k].frame /\ r.ring[k].have_local = p.ring[k].have_local
       /\ r.ring[k].have_real = p.ring[k].have_real /\ r.ring[k].real = p.ring[k].real
  /\ p.other >= p.run => r.core = IF p.force_rewind THEN At(i, p, p.other).state ELSE p.core
  /\ (\A f \in p.other..p.run - 1 : At(i, p, f).frame = f) =>
       /\ p.other < p.run => At(i, r, p.other).state = At(i, p, p.other).state
       /\ \A f \in p.other..p.run - 1 : Looked(p, At(i, p, f), At(i, r, f))
  /\ (\A f \in p.other..p.run - 1 : At(i, p, f).frame = f) /\ Linked(i, p) =>
       \A f \in p.other..p.run - 1 :
         CoreRun(At(i, r, f).state, At(i, r, f).resolved)
           = IF f + 1 = p.run THEN r.core ELSE At(i, r, f + 1).state

\* Running again ends with the state that the inputs of the ring lead to, and
\* with these states saved in their frames.
LEMMA ReplayedIs ==
  ASSUME NEW i, NEW p \in Netplays(i), Server \in p.players, ~Alone(i, p),
         p.other <= p.run + 1, ~p.force_rewind => p.other <= p.run,
         \A c \in p.players : p.other <= p.read[c], i # Server => p.other <= p.server
  PROVE  Again(i, p, Replayed(i, p))
<1>1. PICK a : a = p.other
  OBVIOUS
<1>2. PICK n : n = p.run
  OBVIOUS
<1>3. a \in Nat /\ n \in Nat /\ n \in Frames /\ a \in Frames /\ p.core \in Cores
      /\ p.force_rewind \in BOOLEAN /\ p.timed \in BOOLEAN
  BY <1>1, <1>2, PeerTypes, FramesNat
<1>4. PICK X : X = Resolved(p)
  OBVIOUS
<1>5. ASSUME NEW f \in a..n - 1
      PROVE  /\ f \in Int /\ Ptr(p, f) = Place(i, f) /\ Delta(p, f) = At(i, p, f) /\ X[f] \in Deltas
             /\ X[f].frame = At(i, p, f).frame /\ X[f].have_local = At(i, p, f).have_local
             /\ X[f].state = At(i, p, f).state
             /\ X[f].have_real = At(i, p, f).have_real /\ X[f].real = At(i, p, f).real
             /\ Looked(p, At(i, p, f), X[f])
  <2>1. f \in Int
    BY <1>3
  <2>2. Ptr(p, f) = Place(i, f) /\ Delta(p, f) = At(i, p, f) /\ At(i, p, f) \in Deltas
    BY <2>1, RingPlace
  <2>3. PICK d : d = At(i, p, f)
    OBVIOUS
  <2>4. PICK b \in BOOLEAN : b = TRUE
    OBVIOUS
  <2>5. X[f] = netplay_resolve_input(p, d, b) /\ d \in Deltas
    BY <1>1, <1>2, <1>4, <2>2, <2>3, <2>4 DEF Resolved
  <2>6. X[f] \in Deltas /\ X[f].frame = d.frame /\ X[f].have_local = d.have_local
        /\ X[f].state = d.state /\ X[f].have_real = d.have_real /\ X[f].real = d.real
        /\ Looked(p, d, X[f])
    BY <2>5, ResolvedIs
  <2>7. QED
    BY <2>1, <2>2, <2>3, <2>6
<1>6. X \in [a..n - 1 -> Deltas]
  BY <1>1, <1>2, <1>4, <1>5 DEF Resolved
<1>7. PICK changed : changed = { f \in a..n - 1 : X[f].resolved # Delta(p, f).resolved }
  OBVIOUS
<1>8. PICK b : b = ReplayFrom(p, X)
  OBVIOUS
<1>34. b = CASE p.force_rewind \/ a >= n -> a
             [] ~p.force_rewind /\ changed # {} -> Min(changed)
             [] OTHER -> Max({a, n})
  <2>1. DOMAIN X = a..n - 1
    BY <1>6
  <2>2. QED
    BY <1>1, <1>2, <1>7, <1>8, <2>1 DEF ReplayFrom
<1>9. /\ b \in Int /\ a <= b
      /\ p.force_rewind => b = a
      /\ ~p.force_rewind => b <= n /\ \A f \in a..n - 1 : f < b => f \notin changed
  <2>1. CASE p.force_rewind
    BY <1>3, <1>34, <2>1
  <2>2. CASE ~p.force_rewind /\ a >= n
    <3>1. b = a /\ a <= n
      <4>1. b = a
        <5>1. changed = {}
          BY <1>3, <1>7, <2>2
        <5>2. QED
          BY <1>34, <2>2, <5>1
      <4>2. a <= n
        BY <1>1, <1>2, <2>2
      <4>3. QED
        BY <4>1, <4>2
    <3>2. QED
      BY <1>3, <2>2, <3>1
  <2>3. CASE ~p.force_rewind /\ ~(a >= n) /\ changed # {}
    <3>1. b = Min(changed)
      BY <1>34, <2>3
    <3>2. changed \in SUBSET Nat /\ changed \subseteq a..n - 1
      BY <1>3, <1>7
    <3>3. b \in changed /\ \A f \in changed : b <= f
      BY <2>3, <3>1, <3>2, MinIs
    <3>4. b \in Int /\ a <= b /\ b <= n
      BY <1>3, <3>2, <3>3
    <3>5. ASSUME NEW f \in a..n - 1, f < b PROVE f \notin changed
      BY <1>3, <3>3, <3>4, <3>5
    <3>6. QED
      BY <2>3, <3>4, <3>5
  <2>4. CASE ~p.force_rewind /\ ~(a >= n) /\ changed = {}
    <3>1. b = Max({a, n})
      BY <1>34, <2>4
    <3>2. b = n
      BY <1>3, <2>4, <3>1, MaxOfTwo
    <3>3. QED
      BY <1>3, <2>4, <3>2
  <2>5. QED
    BY <2>1, <2>2, <2>3, <2>4
<1>10. PICK s : s = Delta(p, b).state
  OBVIOUS
<1>11. s = At(i, p, b).state /\ s \in Cores
  <2>1. Delta(p, b) = At(i, p, b) /\ At(i, p, b) \in Deltas
    BY <1>9, RingPlace
  <2>2. QED
    BY <1>10, <2>1, DeltaTypes
<1>12. PICK again : again = (p.force_rewind \/ b < n)
  OBVIOUS
<1>13. PICK e : e = [f \in a..n - 1 |->
                       [X[f] EXCEPT !.state = IF f < b THEN @ ELSE RunFrom(s, X, b, f)]]
  OBVIOUS
<1>14. ASSUME NEW f \in a..n - 1
       PROVE  /\ e[f] \in Deltas /\ e[f].frame = At(i, p, f).frame
              /\ e[f].have_local = At(i, p, f).have_local
              /\ e[f].resolved = X[f].resolved
              /\ e[f].have_real = At(i, p, f).have_real /\ e[f].real = At(i, p, f).real
              /\ e[f].state = IF f >= b THEN RunFrom(s, X, b, f) ELSE At(i, p, f).state
  <2>1. f \in Int /\ X[f] \in Deltas /\ X[f].frame = At(i, p, f).frame
        /\ X[f].have_local = At(i, p, f).have_local /\ X[f].state = At(i, p, f).state
        /\ X[f].have_real = At(i, p, f).have_real /\ X[f].real = At(i, p, f).real
    BY <1>5
  <2>2. f >= b => RunFrom(s, X, b, f) \in Cores
    BY <1>3, <1>6, <1>9, <1>11, RunFromIs
  <2>3. PICK y : y = IF f >= b THEN RunFrom(s, X, b, f) ELSE At(i, p, f).state
    OBVIOUS
  <2>4. y \in Cores
    BY <2>1, <2>2, <2>3, DeltaTypes
  <2>5. e[f] = [X[f] EXCEPT !.state = y]
    BY <1>9, <1>13, <2>1, <2>3
  <2>6. QED
    BY <2>1, <2>3, <2>4, <2>5 DEF Deltas
<1>15. PICK F : F = [k \in 1..BufferSize(i) |-> CHOOSE f \in a..n - 1 : Ptr(p, f) = k]
  OBVIOUS
<1>16. PICK g : g = Rerun(p, X, b)
  OBVIOUS
<1>17. p.ring \in [1..BufferSize(i) -> Deltas] /\ DOMAIN p.ring = 1..BufferSize(i)
  BY RingPlace
<1>35. /\ g = [k \in 1..BufferSize(i) |-> g[k]]
       /\ \A k \in 1..BufferSize(i) :
            /\ (\A f \in a..n - 1 : Ptr(p, f) # k) => g[k] = p.ring[k]
            /\ (\E f \in a..n - 1 : Ptr(p, f) = k) => F[k] \in a..n - 1 /\ g[k] = e[F[k]]
  <2>1. DOMAIN X = a..n - 1
    BY <1>6
  <2>2. g = [k \in 1..BufferSize(i) |->
               IF \A f \in a..n - 1 : Ptr(p, f) # k THEN p.ring[k]
               ELSE [X[CHOOSE f \in a..n - 1 : Ptr(p, f) = k] EXCEPT
                      !.state = IF (CHOOSE f \in a..n - 1 : Ptr(p, f) = k) < b THEN @
                                ELSE RunFrom(s, X, b, CHOOSE f \in a..n - 1 : Ptr(p, f) = k)]]
    BY <1>10, <1>16, <1>17, <2>1 DEF Rerun
  <2>3. ASSUME NEW k \in 1..BufferSize(i), \E f \in a..n - 1 : Ptr(p, f) = k
        PROVE  F[k] \in a..n - 1 /\ g[k] = e[F[k]]
    <3>1. PICK h : h = CHOOSE f \in a..n - 1 : Ptr(p, f) = k
      OBVIOUS
    <3>2. h \in a..n - 1 /\ F[k] = h
      BY <1>15, <2>3, <3>1
    <3>3. e[h] = [X[h] EXCEPT !.state = IF h < b THEN @ ELSE RunFrom(s, X, b, h)]
      BY <1>13, <3>2
    <3>4. g[k] = [X[h] EXCEPT !.state = IF h < b THEN @ ELSE RunFrom(s, X, b, h)]
      BY <2>2, <2>3, <3>1
    <3>5. QED
      BY <3>2, <3>3, <3>4
  <2>4. QED
    BY <2>2, <2>3
<1>18. ASSUME NEW k \in 1..BufferSize(i), NEW f \in a..n - 1, Place(i, f) = k
       PROVE  F[k] \in a..n - 1 /\ Place(i, F[k]) = k /\ g[k] = e[F[k]]
  <2>1. Ptr(p, f) = k
    BY <1>5, <1>18
  <2>2. F[k] \in a..n - 1 /\ Ptr(p, F[k]) = k
    BY <1>15, <2>1
  <2>3. QED
    BY <1>5, <1>35, <2>1, <2>2
<1>19. ASSUME NEW k \in 1..BufferSize(i)
       PROVE  g[k] \in Deltas /\ g[k].frame = p.ring[k].frame
              /\ g[k].have_local = p.ring[k].have_local
              /\ g[k].have_real = p.ring[k].have_real /\ g[k].real = p.ring[k].real
  <2>1. CASE \A f \in a..n - 1 : Ptr(p, f) # k
    BY <1>17, <1>35, <2>1
  <2>2. CASE \E f \in a..n - 1 : Ptr(p, f) = k
    <3>1. PICK f \in a..n - 1 : Place(i, f) = k
      BY <1>5, <2>2
    <3>2. F[k] \in a..n - 1 /\ Place(i, F[k]) = k /\ g[k] = e[F[k]]
      BY <1>18, <3>1
    <3>3. QED
      BY <1>14, <3>2 DEF At
  <2>3. QED
    BY <2>1, <2>2
<1>20. g \in [1..BufferSize(i) -> Deltas]
  BY <1>19, <1>35
<1>21. PICK c : c = IF again THEN RunFrom(s, X, b, Max({b, n})) ELSE p.core
  OBVIOUS
<1>22. c \in Cores /\ (b < n => c = RunFrom(s, X, b, n))
  <2>1. Max({b, n}) = IF b >= n THEN b ELSE n
    BY <1>3, <1>9, MaxOfTwo
  <2>2. CASE b < n
    <3>1. c = RunFrom(s, X, b, n)
      <4>1. again
        BY <1>12, <2>2
      <4>2. Max({b, n}) = n
        BY <1>3, <1>9, <2>1, <2>2
      <4>3. QED
        BY <1>21, <4>1, <4>2
    <3>2. QED
      BY <1>3, <1>6, <1>9, <1>11, <2>2, <3>1, RunFromIs
  <2>3. CASE ~(b < n)
    <3>1. Max({b, n}) = b
      BY <1>3, <1>9, <2>1, <2>3
    <3>2. RunFrom(s, X, b, b) \in Cores
      BY <1>3, <1>6, <1>9, <1>11, RunFromIs
    <3>3. QED
      BY <1>3, <1>21, <2>3, <3>1, <3>2
  <2>4. QED
    BY <2>2, <2>3
<1>23. PICK u : u = netplay_update_unread_ptr(i, p)
  OBVIOUS
<1>24. u \in Nat /\ a <= u
  BY <1>1, <1>23, UnreadIs
<1>25. PICK o : o = IF again THEN Min({u, n}) ELSE Max({a, Min({u, n})})
  OBVIOUS
<1>26. o = (IF u <= n THEN u ELSE n) /\ o \in Frames
  <2>1. Min({u, n}) = IF u <= n THEN u ELSE n
    BY <1>3, <1>24, MinOfTwo
  <2>2. ~again => Max({a, Min({u, n})}) = Min({u, n})
    <3>1. SUFFICES ASSUME ~again PROVE Max({a, Min({u, n})}) = Min({u, n})
      OBVIOUS
    <3>2. a <= n
      BY <1>1, <1>2, <1>12, <3>1
    <3>3. PICK m : m = Min({u, n})
      OBVIOUS
    <3>4. m \in Int /\ a <= m
      BY <1>3, <1>24, <2>1, <3>2, <3>3
    <3>5. Max({a, m}) = IF a >= m THEN a ELSE m
      BY <1>3, <3>4, MaxOfTwo
    <3>6. QED
      BY <1>3, <3>3, <3>4, <3>5
  <2>3. o = IF u <= n THEN u ELSE n
    BY <1>25, <2>1, <2>2
  <2>4. QED
    BY <1>3, <1>24, <2>3, NetplayAssumption DEF Frames
<1>27. PICK tm : tm = (p.timed \/ b < n)
  OBVIOUS
<1>28. PICK r : r = Replayed(i, p)
  OBVIOUS
<1>29. r = [p EXCEPT !.ring = g, !.core = c, !.other = o, !.timed = tm, !.force_rewind = FALSE]
  BY <1>1, <1>2, <1>4, <1>8, <1>10, <1>12, <1>16, <1>21, <1>23, <1>25, <1>27, <1>28 DEF Replayed
<1>30. /\ r \in Netplays(i) /\ ~r.force_rewind /\ r.ring = g /\ r.core = c /\ r.other = o
       /\ r.playing = p.playing /\ r.players = p.players /\ r.self = p.self /\ r.run = p.run
       /\ r.server = p.server /\ r.read = p.read /\ r.force_send = p.force_send
       /\ r.polling = p.polling /\ r.connected = p.connected
       /\ r.asked = p.asked /\ r.loads = p.loads
  <2>1. tm \in BOOLEAN
    BY <1>3, <1>27
  <2>2. c \in Cores /\ o \in Frames /\ g \in [1..BufferSize(i) -> Deltas]
    BY <1>20, <1>22, <1>26
  <2>3. QED
    BY <1>29, <2>1, <2>2 DEF Netplays
<1>36. ASSUME \A f \in a..n - 1 : At(i, p, f).frame = f, NEW h \in a..n - 1
       PROVE  At(i, r, h) = e[h]
  <2>1. PICK k : k = Place(i, h)
    OBVIOUS
  <2>2. k \in 1..BufferSize(i) /\ h \in Int
    BY <1>5, <2>1, PlaceIs
  <2>3. F[k] \in a..n - 1 /\ Place(i, F[k]) = k /\ g[k] = e[F[k]]
    BY <1>18, <2>1, <2>2
  <2>4. At(i, p, h).frame = h /\ At(i, p, F[k]).frame = F[k]
    BY <1>36, <2>3
  <2>5. F[k] = h
    BY <2>1, <2>3, <2>4 DEF At
  <2>6. QED
    BY <1>30, <2>1, <2>3, <2>5 DEF At
<1>31. ASSUME \A f \in a..n - 1 : At(i, p, f).frame = f, Linked(i, p), NEW f \in a..n - 1
       PROVE  CoreRun(At(i, r, f).state, At(i, r, f).resolved)
                = IF f + 1 = n THEN r.core ELSE At(i, r, f + 1).state
  <2>1. \A h \in a..n - 1 : At(i, r, h) = e[h]
    BY <1>31, <1>36
  <2>2. f \in Int /\ f < n /\ a <= f /\ f + 1 \in Int /\ (f + 1 # n => f + 1 \in a..n - 1)
    BY <1>3
  <2>3. CASE f >= b
    <3>1. At(i, r, f).state = RunFrom(s, X, b, f) /\ At(i, r, f).resolved = X[f].resolved
      BY <1>14, <2>1, <2>3
    <3>2. CoreRun(RunFrom(s, X, b, f), X[f].resolved) = RunFrom(s, X, b, f + 1)
      BY <1>3, <1>6, <1>9, <1>11, <2>2, <2>3, RunFromIs
    <3>3. CASE f + 1 = n
      <4>1. b < n
        BY <1>3, <1>9, <2>2, <2>3
      <4>2. QED
        BY <1>22, <1>30, <3>1, <3>2, <3>3, <4>1
    <3>4. CASE f + 1 # n
      <4>1. f + 1 >= b
        BY <1>9, <2>2, <2>3
      <4>2. At(i, r, f + 1).state = RunFrom(s, X, b, f + 1)
        BY <1>14, <2>1, <2>2, <3>4, <4>1
      <4>3. QED
        BY <3>1, <3>2, <3>4, <4>2
    <3>5. QED
      BY <3>3, <3>4
  <2>4. CASE ~(f >= b)
    <3>1. ~p.force_rewind /\ b <= n /\ f \notin changed
      BY <1>3, <1>9, <2>2, <2>4
    <3>2. At(i, r, f).state = At(i, p, f).state /\ At(i, r, f).resolved = At(i, p, f).resolved
      BY <1>5, <1>7, <1>14, <2>1, <2>4, <3>1
    <3>3. CoreRun(At(i, p, f).state, At(i, p, f).resolved)
            = IF f + 1 = n THEN p.core ELSE At(i, p, f + 1).state
      BY <1>1, <1>2, <1>31, <3>1 DEF Linked
    <3>4. CASE f + 1 = n
      <4>1. ~again
        BY <1>3, <1>9, <1>12, <2>2, <2>4, <3>1, <3>4
      <4>2. QED
        BY <1>21, <1>30, <3>2, <3>3, <3>4, <4>1
    <3>5. CASE f + 1 # n
      <4>1. At(i, r, f + 1).state = At(i, p, f + 1).state
        <5>1. CASE f + 1 >= b
          <6>1. b = f + 1
            BY <1>9, <2>2, <2>4, <5>1
          <6>2. RunFrom(s, X, b, b) = s
            BY <1>6, <1>3, <1>9, <1>11, RunFromIs
          <6>3. QED
            BY <1>11, <1>14, <2>1, <2>2, <3>5, <5>1, <6>1, <6>2
        <5>2. CASE ~(f + 1 >= b)
          BY <1>14, <2>1, <2>2, <3>5, <5>2
        <5>3. QED
          BY <5>1, <5>2
      <4>2. QED
        BY <3>2, <3>3, <3>5, <4>1
    <3>6. QED
      BY <3>4, <3>5
  <2>5. QED
    BY <2>3, <2>4
<1>37. ASSUME a >= n
       PROVE  r.core = IF p.force_rewind THEN At(i, p, a).state ELSE p.core
  <2>1. b = a
    <3>1. changed = {}
      BY <1>3, <1>7, <1>37
    <3>2. QED
      BY <1>34, <1>37, <3>1
  <2>5. Max({b, n}) = a
    BY <1>3, <1>37, <2>1, MaxOfTwo
  <2>2. CASE p.force_rewind
    <3>1. again /\ Max({b, n}) = a
      BY <1>12, <2>2, <2>5
    <3>2. c = RunFrom(s, X, b, b)
      BY <1>21, <2>1, <3>1
    <3>3. RunFrom(s, X, b, b) = s
      BY <1>6, <1>3, <1>9, <1>11, RunFromIs
    <3>4. QED
      BY <1>11, <1>30, <2>1, <2>2, <3>2, <3>3
  <2>3. CASE ~p.force_rewind
    BY <1>3, <1>12, <1>21, <1>30, <1>37, <2>1, <2>3
  <2>4. QED
    BY <2>2, <2>3
<1>38. ASSUME \A f \in a..n - 1 : At(i, p, f).frame = f, a < n
       PROVE  At(i, r, a).state = At(i, p, a).state
  <2>1. a \in a..n - 1
    BY <1>3, <1>38
  <2>2. At(i, r, a) = e[a]
    BY <1>36, <1>38, <2>1
  <2>3. e[a].state = IF a >= b THEN RunFrom(s, X, b, a) ELSE At(i, p, a).state
    BY <1>14, <2>1
  <2>4. CASE a >= b
    <3>1. b = a
      BY <1>3, <1>9, <2>4
    <3>2. RunFrom(s, X, b, b) = s
      BY <1>6, <1>3, <1>9, <1>11, RunFromIs
    <3>3. QED
      BY <1>11, <2>2, <2>3, <2>4, <3>1, <3>2
  <2>5. QED
    BY <2>2, <2>3, <2>4
<1>39. ASSUME \A f \in a..n - 1 : At(i, p, f).frame = f, NEW f \in a..n - 1
       PROVE  Looked(p, At(i, p, f), At(i, r, f))
  <2>1. At(i, r, f).resolved = X[f].resolved
    BY <1>14, <1>36, <1>39
  <2>2. QED
    BY <1>5, <2>1 DEF Looked
<1>32. Again(i, p, r)
  <2>1. \A k \in 1..BufferSize(i) :
          /\ r.ring[k].frame = p.ring[k].frame /\ r.ring[k].have_local = p.ring[k].have_local
          /\ r.ring[k].have_real = p.ring[k].have_real /\ r.ring[k].real = p.ring[k].real
    BY <1>19, <1>30
  <2>2. \E v \in Nat : v = netplay_update_unread_ptr(i, p)
                       /\ r.other = IF v <= p.run THEN v ELSE p.run
    BY <1>2, <1>23, <1>24, <1>26, <1>30
  <2>3. QED
    BY <1>1, <1>2, <1>30, <1>31, <1>37, <1>38, <1>39, <2>1, <2>2 DEF Again
<1>33. QED
  BY <1>28, <1>32

\* A peer that ends a frame keeps the invariant.
LEMMA FrameEnded ==
  ASSUME NEW i \in Peers, NEW p, PeerInv(i, p), p.polling,
         NEW q \in netplay_poll(i, p), NEW ask
  PROVE  PeerInv(i, [Asking(Ended(i, q), ask) EXCEPT !.polling = FALSE])
<1>1. p \in Netplays(i) /\ Counted(i, p) /\ Held(i, p) /\ (i = Server => Serving(p))
  BY DEF PeerInv
<1>2. Polled(i, p, q) /\ Looked(p, At(i, p, p.run), At(i, q, p.run))
  BY <1>1, PollIs
<1>3. q.players = p.players
  BY <1>2 DEF Polled
<1>4. PICK stalled : stalled = Stalling(i, q)
  OBVIOUS
<1>5. stalled \in BOOLEAN /\ (Alone(i, p) => ~stalled)
  BY <1>3, <1>4 DEF Alone, Stalling
<1>6. PICK ran : ran = IF stalled THEN q
                       ELSE [q EXCEPT !.core = CoreRun(@, Delta(q, q.run).resolved)]
  OBVIOUS
<1>7. PICK a : a = Advanced(ran, stalled)
  OBVIOUS
<1>8. Ran(i, p, a)
  BY <1>2, <1>5, <1>6, <1>7, AdvancedIs
<1>9. /\ a \in Netplays(i)
      /\ a.playing = p.playing /\ a.players = p.players /\ a.other = p.other /\ a.server = p.server
      /\ a.read = p.read /\ a.force_rewind = p.force_rewind /\ a.force_send = p.force_send
      /\ a.polling = p.polling /\ a.connected = p.connected
      /\ (a.run = p.run \/ a.run = p.run + 1)
      /\ a.run <= a.self /\ (a.self = p.self \/ a.self = p.self + 1)
      /\ (Alone(i, p) => a.run = a.self)
  BY <1>8 DEF Ran
<1>10. /\ p.self \in Int /\ p.run \in Int /\ p.other \in Int /\ p.server \in Int
       /\ p.players \in SUBSET Peers /\ p.read \in [Peers -> Counts]
       /\ a.self \in Int /\ a.run \in Int /\ a.self \in Frames
  BY <1>1, <1>9, PeerTypes, FramesInt
<1>11. \A c \in p.players : c \in Peers /\ p.read[c] \in Int
  <2>1. \A c \in Peers : p.read[c] \in Counts
    BY <1>10
  <2>2. QED
    BY <1>10, <2>1, FramesInt
<1>12. PICK r : r = IF Alone(i, a) THEN [a EXCEPT !.other = a.self] ELSE Replayed(i, a)
  OBVIOUS
<1>13. PICK t : t = [Asking(r, ask) EXCEPT !.polling = FALSE]
  OBVIOUS
<1>14. t = [Asking(Ended(i, q), ask) EXCEPT !.polling = FALSE]
  BY <1>4, <1>6, <1>7, <1>12, <1>13 DEF Ended
<1>15. ASSUME r \in Netplays(i)
       PROVE  /\ t \in Netplays(i) /\ ~t.polling /\ t.ring = r.ring /\ t.core = r.core
              /\ t.playing = r.playing /\ t.players = r.players /\ t.self = r.self /\ t.run = r.run
              /\ t.other = r.other /\ t.server = r.server /\ t.read = r.read
              /\ t.force_rewind = r.force_rewind /\ t.force_send = r.force_send
              /\ t.connected = r.connected
  <2>1. PICK ss : ss = [c \in Clients |-> IF c \in ask THEN r.self ELSE r.stall_sent[c]]
    OBVIOUS
  <2>2. ss \in [Clients -> Frames]
    BY <1>15, <2>1 DEF Netplays
  <2>3. t = [r EXCEPT !.polling = FALSE, !.stall_sent = ss]
    BY <1>13, <2>1 DEF Asking
  <2>4. QED
    BY <1>15, <2>2, <2>3 DEF Netplays
<1>16. CASE Alone(i, a)
  <2>1. i = Server /\ p.players = {Server} /\ Alone(i, p) /\ Serving(p) /\ a.run = a.self
    BY <1>1, <1>9, <1>16 DEF Alone
  <2>2. r = [a EXCEPT !.other = a.self]
    BY <1>12, <1>16
  <2>3. /\ r \in Netplays(i) /\ r.ring = a.ring
        /\ r.playing = a.playing /\ r.players = a.players /\ r.self = a.self /\ r.run = a.run
        /\ r.other = a.self /\ r.server = a.server /\ r.read = a.read
        /\ r.force_rewind = a.force_rewind /\ r.force_send = a.force_send
        /\ r.connected = a.connected
    BY <1>9, <1>10, <2>2 DEF Netplays
  <2>4. /\ t \in Netplays(i) /\ ~t.polling /\ t.ring = a.ring
        /\ t.playing = p.playing /\ t.players = p.players /\ t.self = a.self /\ t.run = a.self
        /\ t.other = a.self /\ t.read = p.read
        /\ t.force_rewind = p.force_rewind /\ t.connected = p.connected
    BY <1>9, <1>15, <2>1, <2>3
  <2>5. Server \in p.players /\ p.read[Server] \in Int /\ p.self < p.read[Server]
        /\ p.read[Server] <= p.self + 1 /\ ~p.force_rewind /\ p.other <= p.run /\ p.run <= p.self
    BY <1>1, <1>11, <2>1 DEF Serving, Counted
  <2>6. Counted(i, t)
    BY <1>10, <1>9, <2>1, <2>4, <2>5 DEF Counted
  <2>7. \A k \in 1..BufferSize(i) : /\ t.ring[k].frame = p.ring[k].frame
                                    /\ t.ring[k].have_local = p.ring[k].have_local
    BY <1>8, <2>4 DEF Ran
  <2>8. Serving(t)
    <3>1. DOMAIN p.ring = 1..BufferSize(i) /\ DOMAIN t.ring = 1..BufferSize(i)
      BY <1>1, <2>4, RingPlace
    <3>2. QED
      BY <1>9, <1>10, <2>1, <2>4, <2>5, <2>7, <3>1 DEF Serving
  <2>9. Held(i, t)
    <3>1. SUFFICES ASSUME NEW f \in Int, a.self <= f, Reached(t, f)
                   PROVE  At(i, t, f).frame = f
      BY <2>4 DEF Held
    <3>2. Reached(p, f) /\ p.other <= f
      BY <1>9, <1>10, <2>4, <2>5, <3>1 DEF Reached
    <3>3. At(i, p, f).frame = f
      BY <1>1, <2>1, <3>2 DEF Held, Passed
    <3>4. QED
      BY <2>7, <3>3, PlaceIs DEF At
  <2>10. Linked(i, t) /\ Begun(i, t)
    BY <1>10, <2>4 DEF Linked, Begun
  <2>11. QED
    BY <1>14, <2>1, <2>4, <2>6, <2>8, <2>9, <2>10 DEF PeerInv
<1>17. CASE ~Alone(i, a)
  <2>1. r = Replayed(i, a)
    BY <1>12, <1>17
  <2>2. Again(i, a, r)
    <3>1. Server \in a.players /\ a.other <= a.run + 1 /\ (~a.force_rewind => a.other <= a.run)
          /\ (\A c \in a.players : a.other <= a.read[c]) /\ (i # Server => a.other <= a.server)
      BY <1>1, <1>9, <1>10 DEF Counted
    <3>2. QED
      BY <1>9, <1>17, <2>1, <3>1, ReplayedIs
  <2>3. PICK u : u \in Nat /\ u = netplay_update_unread_ptr(i, a)
                 /\ r.other = IF u <= a.run THEN u ELSE a.run
    BY <2>2 DEF Again
  <2>4. /\ \A c \in p.players : u <= p.read[c]
        /\ i # Server => u <= p.server
        /\ (\E c \in p.players : u = p.read[c]) \/ (i # Server /\ u = p.server)
    BY <1>1, <1>9, <1>17, <2>3, UnreadIs DEF Counted
  <2>5. /\ r \in Netplays(i) /\ ~r.force_rewind
        /\ r.playing = p.playing /\ r.players = p.players /\ r.self = a.self /\ r.run = a.run
        /\ r.server = p.server /\ r.read = p.read /\ r.force_send = p.force_send
        /\ r.connected = p.connected
    BY <1>9, <2>2 DEF Again
  <2>6. /\ t \in Netplays(i) /\ ~t.polling /\ ~t.force_rewind /\ t.ring = r.ring /\ t.core = r.core
        /\ t.playing = p.playing /\ t.players = p.players /\ t.self = a.self /\ t.run = a.run
        /\ t.other = r.other /\ t.server = p.server /\ t.read = p.read
        /\ t.force_send = p.force_send /\ t.connected = p.connected
    BY <1>15, <2>5
  <2>7. t.other \in Int /\ t.other <= a.run /\ t.other <= u
        /\ (a.run <= u => t.other = a.run) /\ (t.other = u \/ t.other = a.run)
    BY <1>10, <2>3, <2>6
  <2>8. p.other <= u
    BY <1>1, <2>4 DEF Counted
  <2>9. Passed(i, p) => p.run < u
    BY <2>4 DEF Passed
  <2>10. Counted(i, t)
    <3>1. \A c \in p.players : t.other <= p.read[c]
      BY <1>11, <2>3, <2>4, <2>7
    <3>2. i # Server => t.other <= p.server
      BY <1>10, <2>3, <2>4, <2>7
    <3>3. QED
      BY <1>1, <1>9, <1>10, <2>6, <2>7, <3>1, <3>2 DEF Counted
  <2>11. \A k \in 1..BufferSize(i) : /\ t.ring[k].frame = p.ring[k].frame
                                     /\ t.ring[k].have_local = p.ring[k].have_local
    BY <1>8, <2>2, <2>6 DEF Ran, Again
  <2>12. i = Server => Serving(t)
    <3>1. SUFFICES ASSUME i = Server PROVE Serving(t)
      OBVIOUS
    <3>2. DOMAIN p.ring = 1..BufferSize(i) /\ DOMAIN t.ring = 1..BufferSize(i)
      BY <1>1, <2>6, RingPlace
    <3>3. p.players # {Server}
      BY <1>9, <1>17, <3>1 DEF Alone
    <3>4. Server \in p.players /\ p.read[Server] \in Int /\ p.self < p.read[Server]
          /\ p.read[Server] <= p.self + 1 /\ p.playing
      BY <1>1, <1>11, <3>1 DEF Serving, Counted
    <3>5. QED
      BY <1>1, <1>9, <1>10, <2>6, <2>11, <3>1, <3>2, <3>3, <3>4 DEF Serving
  <2>13. Held(i, t)
    <3>1. SUFFICES ASSUME NEW f \in Int, t.other <= f, Reached(t, f), At(i, t, f).frame # f
                   PROVE  f = t.run /\ Passed(i, t)
      BY DEF Held
    <3>2. Reached(p, f)
      BY <1>9, <1>10, <2>6, <3>1 DEF Reached
    <3>3. CASE p.other <= f
      <4>1. At(i, p, f).frame # f
        BY <2>11, <3>1, PlaceIs DEF At
      <4>2. f = p.run /\ Passed(i, p)
        BY <1>1, <3>2, <3>3, <4>1 DEF Held
      <4>3. a.run = p.run
        BY <1>9, <1>10, <2>3, <2>7, <2>9, <3>1, <4>2
      <4>4. QED
        BY <2>6, <4>2, <4>3 DEF Passed
    <3>4. CASE ~(p.other <= f)
      <4>1. t.other = a.run /\ f = p.run /\ a.run = p.run /\ p.other = p.run + 1
        BY <1>1, <1>9, <1>10, <2>3, <2>7, <2>8, <3>1, <3>4 DEF Counted
      <4>2. i # Server
        BY <1>1, <1>10, <4>1 DEF Counted, Serving
      <4>3. \A c \in p.players : p.run < p.read[c]
        BY <1>1, <1>10, <1>11, <4>1 DEF Counted
      <4>4. p.run < p.server
        BY <1>1, <1>10, <4>1, <4>2 DEF Counted
      <4>5. QED
        BY <2>6, <4>1, <4>2, <4>3, <4>4 DEF Passed
    <3>5. QED
      BY <3>3, <3>4
  <2>14. Linked(i, t)
    <3>1. SUFFICES ASSUME NEW f \in t.other..a.run - 1
                   PROVE  CoreRun(At(i, t, f).state, At(i, t, f).resolved)
                            = IF f + 1 = a.run THEN t.core ELSE At(i, t, f + 1).state
      BY <2>6 DEF Linked
    <3>2. t.other = u /\ u < a.run
      BY <1>10, <2>3, <2>7, <3>1
    <3>3. ~Passed(i, p)
      BY <1>9, <1>10, <2>3, <2>9, <3>2
    <3>4. f \in a.other..a.run - 1
      BY <1>9, <1>10, <2>3, <2>8, <3>1, <3>2
    <3>8. HasRun(i, p)
      BY <3>3 DEF HasRun
    <3>5. (\A h \in a.other..a.run - 1 : At(i, a, h).frame = h) /\ Linked(i, a)
      <4>1. Leads(i, p, a)
        BY <1>8, <3>8 DEF Ran
      <4>2. a.other = p.other
        BY <1>9
      <4>3. QED
        BY <4>1, <4>2 DEF Leads
    <3>6. CoreRun(At(i, r, f).state, At(i, r, f).resolved)
            = IF f + 1 = a.run THEN r.core ELSE At(i, r, f + 1).state
      BY <2>2, <3>4, <3>5 DEF Again
    <3>7. QED
      BY <2>6, <3>6 DEF At
  <2>15. Begun(i, t)
    BY <2>6 DEF Begun
  <2>16. QED
    BY <1>14, <2>6, <2>10, <2>12, <2>13, <2>14, <2>15 DEF PeerInv
<1>18. QED
  BY <1>16, <1>17

-----------------------------------------------------------------------------
(* What is on its way. *)

\* Of finitely many numbers there is one of each rank.
LEMMA Ranked ==
  ASSUME NEW S \in SUBSET Nat, IsFiniteSet(S), NEW k \in 1..Cardinality(S)
  PROVE  \E c \in S : Cardinality({ b \in S : b <= c }) = k
<1> DEFINE upTo(c) == { b \in S : b <= c }
           N == Cardinality(S)
           rank == [c \in S |-> Cardinality(upTo(c))]
<1>1. N \in Nat
  BY FS_CardinalityType
<1>2. ASSUME NEW c \in S
      PROVE  IsFiniteSet(upTo(c)) /\ Cardinality(upTo(c)) \in 1..N
  <2>1. IsFiniteSet(upTo(c)) /\ Cardinality(upTo(c)) <= N
    <3>1. upTo(c) \in SUBSET S
      OBVIOUS
    <3>2. QED
      BY <3>1, FS_Subset
  <2>2. Cardinality(upTo(c)) \in Nat
    BY <2>1, FS_CardinalityType
  <2>3. Cardinality(upTo(c)) # 0
    <3>1. c \in upTo(c)
      OBVIOUS
    <3>2. upTo(c) # {}
      BY <3>1
    <3>3. QED
      BY <2>1, <3>2, FS_EmptySet
  <2>4. QED
    BY <1>1, <2>1, <2>2, <2>3
<1>3. ASSUME NEW c \in S, NEW d \in S, c < d
      PROVE  rank[c] # rank[d]
  <2>1. upTo(c) \in SUBSET upTo(d) /\ d \in upTo(d) /\ d \notin upTo(c)
    <3>1. c \in Nat /\ d \in Nat /\ d <= d /\ ~(d <= c)
      BY <1>3
    <3>2. \A b \in S : b <= c => b <= d
      BY <1>3, <3>1
    <3>3. QED
      BY <3>1, <3>2
  <2>2. upTo(c) # upTo(d)
    BY <2>1
  <2>3. Cardinality(upTo(d)) # Cardinality(upTo(c))
    BY <1>2, <2>1, <2>2, FS_Subset
  <2>4. QED
    BY <2>3
<1>4. rank \in [S -> 1..N]
  BY <1>2
<1>5. rank \in Injection(S, 1..N)
  <2>1. \A c, d \in S : c # d => rank[c] # rank[d]
    <3>1. SUFFICES ASSUME NEW c \in S, NEW d \in S, c # d PROVE rank[c] # rank[d]
      OBVIOUS
    <3>2. c < d \/ d < c
      BY <3>1
    <3>3. QED
      BY <1>3, <3>2
  <2>2. QED
    BY <1>4, <2>1 DEF Injection, IsInjective
<1>6. IsFiniteSet(1..N) /\ Cardinality(1..N) = N
  BY <1>1, FS_Interval
<1>7. rank \in Surjection(S, 1..N)
  BY <1>5, <1>6, FS_Injection
<1>8. PICK c \in S : rank[c] = k
  BY <1>7 DEF Surjection
<1>9. QED
  BY <1>8

\* The peers are finitely many numbers.
LEMMA PeersFinite == IsFiniteSet(Peers) /\ Peers \subseteq Nat
<1>1. IsFiniteSet(Clients) /\ Clients \subseteq Nat
  BY NetplayAssumption
<1>2. IsFiniteSet(Clients \cup {Server})
  BY <1>1, FS_AddElement
<1>3. Peers = Clients \cup {Server}
  BY DEF Peers
<1>4. QED
  BY <1>1, <1>2, <1>3 DEF Server

\* The input of a player is a message for either side.
LEMMA InputMsgs ==
  ASSUME NEW f \in Frames, NEW c \in Peers, NEW v \in SUBSET Buttons
  PROVE  InputMsg(f, c, v) \in InputOf({c}) /\ InputMsg(f, c, v) \in InputOf(Peers)
BY DEF InputMsg, InputOf

\* What is sent of a frame is of players: by a client, its own.
LEMMA CurInputs ==
  ASSUME NEW i \in Peers, NEW q \in Netplays(i), NEW to
  PROVE  /\ CurInput(q, i, to) \in Seq(InputOf(Peers))
         /\ i # Server => CurInput(q, i, to) \in Seq(InputOf({i}))
<1>1. PICK d : d = Delta(q, q.self)
  OBVIOUS
<1>2. PICK others : others = IF i = Server THEN (d.have_real \cap q.players) \ {Server, to} ELSE {}
  OBVIOUS
<1>3. q.self \in Frames /\ q.players \in SUBSET Peers /\ q.self \in Int
  BY PeerTypes, FramesInt
<1>4. d \in Deltas
  BY <1>1, <1>3, RingPlace
<1>5. \A c \in Peers : d.real[c] \in SUBSET Buttons
  BY <1>4 DEF Deltas, Boards
<1>6. others \in SUBSET Peers /\ others \in SUBSET Nat /\ IsFiniteSet(others) /\ (i # Server => others = {})
  <2>1. others \in SUBSET Peers /\ (i # Server => others = {})
    BY <1>2, <1>3
  <2>2. QED
    BY <2>1, PeersFinite, FS_Subset
<1>7. Cardinality(others) \in Nat /\ (i # Server => Cardinality(others) = 0)
  BY <1>6, FS_CardinalityType, FS_EmptySet
<1> DEFINE ranked(k) == CHOOSE c \in others : Cardinality({ b \in others : b <= c }) = k
           first == [k \in 1..Cardinality(others) |-> InputMsg(q.self, ranked(k), d.real[ranked(k)])]
           own == IF q.playing THEN <<InputMsg(q.self, i, d.real[i])>> ELSE <<>>
<1>8. ASSUME NEW k \in 1..Cardinality(others)
      PROVE  ranked(k) \in others
  <2>1. \E c \in others : Cardinality({ b \in others : b <= c }) = k
    BY <1>6, Ranked
  <2>2. QED
    BY <2>1
<1>9. CurInput(q, i, to) = first \o own
  BY <1>1, <1>2 DEF CurInput
<1> HIDE DEF ranked
<1>10. \A k \in 1..Cardinality(others) : InputMsg(q.self, ranked(k), d.real[ranked(k)]) \in InputOf(Peers)
  BY <1>3, <1>5, <1>6, <1>8, InputMsgs
<1>11. first \in Seq(InputOf(Peers))
  BY <1>7, <1>10
<1>12. InputMsg(q.self, i, d.real[i]) \in InputOf(Peers) /\ InputMsg(q.self, i, d.real[i]) \in InputOf({i})
  BY <1>3, <1>5, InputMsgs
<1>13. own \in Seq(InputOf(Peers)) /\ own \in Seq(InputOf({i}))
  <2>1. PICK m : m = InputMsg(q.self, i, d.real[i])
    OBVIOUS
  <2>2. m \in InputOf(Peers) /\ m \in InputOf({i})
    BY <1>12, <2>1
  <2>3. own = IF q.playing THEN <<m>> ELSE <<>>
    BY <2>1
  <2>4. <<m>> \in Seq(InputOf(Peers)) /\ <<m>> \in Seq(InputOf({i}))
    BY <2>2
  <2>5. << >> \in Seq(InputOf(Peers)) /\ << >> \in Seq(InputOf({i}))
    OBVIOUS
  <2> HIDE DEF own
  <2>6. CASE q.playing
    BY <2>3, <2>4, <2>6
  <2>7. CASE ~q.playing
    BY <2>3, <2>5, <2>7
  <2>8. QED
    BY <2>6, <2>7
<1>14. i # Server => first = << >>
  BY <1>7
<1> HIDE DEF first, own
<1>15. first \o own \in Seq(InputOf(Peers))
  BY <1>11, <1>13
<1>16. i # Server => first \o own \in Seq(InputOf({i}))
  BY <1>13, <1>14
<1>17. QED
  BY <1>9, <1>15, <1>16

\* Inputs are among what each side sends.
LEMMA FromTypes ==
  /\ \A c : InputOf({c}) \subseteq FromClient(c)
  /\ InputOf(Peers) \subseteq FromServer
BY DEF FromClient, FromServer

\* A sequence of elements of a set is one of any larger set.
LEMMA SeqWider ==
  ASSUME NEW S, NEW T, S \subseteq T, NEW s \in Seq(S)
  PROVE  s \in Seq(T)
OBVIOUS

\* What has been sent has a type.
Sent(s, c) ==
  /\ s = [b \in Clients |-> s[b]]
  /\ \A b \in Clients : s[b] \in Seq(FromClient(b))
  /\ c \in [Clients -> Seq(FromServer)]

\* What a client may send keeps the types of what is under way.
LEMMA SentToServer ==
  ASSUME NEW c, Sent(toServer, c), NEW i \in Clients, NEW s \in Seq(FromClient(i))
  PROVE  Sent([toServer EXCEPT ![i] = s], c)
BY DEF Sent

\* What the server may send keeps the types of what is under way.
LEMMA SentToClient ==
  ASSUME NEW s, Sent(s, toClient), NEW i \in Clients, NEW c \in Seq(FromServer)
  PROVE  Sent(s, [toClient EXCEPT ![i] = c])
BY DEF Sent

\* A step of one peer.
LEMMA StepStays ==
  ASSUME IInv, NEW i \in Peers, NEW q, PeerInv(i, q), peer' = [peer EXCEPT ![i] = q],
         Sent(toServer', toClient')
  PROVE  IInv'
<1>1. peer = [j \in Peers |-> peer[j]] /\ \A j \in Peers : PeerInv(j, peer[j])
  BY DEF IInv, TypeOK
<1>2. q \in Netplays(i)
  BY DEF PeerInv
<1>3. peer' = [j \in Peers |-> peer'[j]]
  BY <1>1, <1>2
<1>4. ASSUME NEW j \in Peers PROVE PeerInv(j, peer'[j])
  <2>1. peer'[j] = IF j = i THEN q ELSE peer[j]
    BY <1>1
  <2>2. QED
    BY <1>1, <2>1
<1>5. \A j \in Peers : peer'[j] \in Netplays(j) /\ Server \in peer'[j].players
  BY <1>4 DEF PeerInv, Counted
<1>6. TypeOK'
  BY <1>3, <1>5 DEF TypeOK, Sent
<1>7. \A j \in Peers : PeerInv(j, peer[j])'
  BY <1>4
<1>8. QED
  BY <1>6, <1>7 DEF IInv

\* The invariant, for each peer and for what is under way.
LEMMA PeersAre ==
  ASSUME IInv
  PROVE  Sent(toServer, toClient) /\ \A i \in Peers : PeerInv(i, peer[i]) /\ peer[i] \in Netplays(i)
BY DEF IInv, TypeOK, Sent, PeerInv

\* The clients are peers, and none of them is the server.
LEMMA ClientsArePeers ==
  Server \in Peers /\ \A c \in Clients : c \in Peers /\ c # Server
BY NetplayAssumption DEF Peers

\* A server that reads a message is polling, and what it reads is well typed.
LEMMA ServerTook ==
  ASSUME IInv, NEW c \in Clients, ServerTakes(c)
  PROVE  /\ PeerInv(Server, peer[Server]) /\ peer[Server].polling /\ peer[Server].connected
         /\ Head(toServer[c]) \in FromClient(c) /\ Fits(peer[Server], Head(toServer[c]))
         /\ Sent(toServer', toClient)
<1>1. Sent(toServer, toClient) /\ PeerInv(Server, peer[Server])
  BY PeersAre, ClientsArePeers
<1>2. toServer[c] \in Seq(FromClient(c)) /\ toServer[c] # <<>>
  BY <1>1 DEF Sent, ServerTakes
<1>3. Head(toServer[c]) \in FromClient(c) /\ Tail(toServer[c]) \in Seq(FromClient(c))
  BY <1>2, HeadTailProperties
<1>4. toServer' = [toServer EXCEPT ![c] = Tail(toServer[c])]
  BY DEF ServerTakes
<1>5. Sent(toServer', toClient)
  BY <1>1, <1>3, <1>4, SentToServer
<1>6. QED
  BY <1>1, <1>3, <1>5 DEF ServerTakes

\* A client that reads a message is polling, and what it reads is well typed.
LEMMA ClientTook ==
  ASSUME IInv, NEW i \in Clients, ClientTakes(i)
  PROVE  /\ PeerInv(i, peer[i]) /\ peer[i].polling /\ peer[i].connected
         /\ Head(toClient[i]) \in FromServer /\ Fits(peer[i], Head(toClient[i]))
         /\ Sent(toServer, toClient')
<1>1. Sent(toServer, toClient) /\ PeerInv(i, peer[i])
  BY PeersAre, ClientsArePeers
<1>2. toClient[i] \in Seq(FromServer) /\ toClient[i] # <<>>
  BY <1>1 DEF Sent, ClientTakes
<1>3. Head(toClient[i]) \in FromServer /\ Tail(toClient[i]) \in Seq(FromServer)
  BY <1>2, HeadTailProperties
<1>4. toClient' = [toClient EXCEPT ![i] = Tail(toClient[i])]
  BY DEF ClientTakes
<1>5. Sent(toServer, toClient')
  BY <1>1, <1>3, <1>4, SentToClient
<1>6. QED
  BY <1>1, <1>3, <1>5 DEF ClientTakes

\* Nothing of the peers changes.
LEMMA NoStep ==
  ASSUME IInv, peer' = peer, Sent(toServer', toClient')
  PROVE  IInv'
BY DEF IInv, TypeOK, Sent

\* Whoever hangs up.
LEMMA HangupStep ==
  ASSUME IInv, NEW i \in Peers, Hangup(i), Sent(toServer', toClient')
  PROVE  IInv'
<1>1. PICK q : q = [peer[i] EXCEPT !.connected = FALSE, !.polling = FALSE]
  OBVIOUS
<1>2. peer = [j \in Peers |-> peer[j]]
  BY DEF IInv, TypeOK
<1>3. peer' = [peer EXCEPT ![i] = q]
  BY <1>1, <1>2 DEF Hangup
<1>4. PeerInv(i, q)
  BY <1>1, PeersAre, HangupStays
<1>5. QED
  BY <1>3, <1>4, StepStays

\* Input that the server has passed on reaches a client.
LEMMA ClientReceivesInputStays ==
  ASSUME IInv, NEW i \in Clients, ClientReceivesInput(i)
  PROVE  IInv'
<1>1. PICK p : p = peer[i]
  OBVIOUS
<1>2. PICK m : m = Head(toClient[i])
  OBVIOUS
<1>3. ClientTakes(i) /\ m.type = "input" /\ toServer' = toServer
  BY <1>2 DEF ClientReceivesInput
<1>4. PeerInv(i, p) /\ p.polling /\ p.connected /\ m \in FromServer /\ Fits(p, m)
      /\ Sent(toServer', toClient')
  BY <1>1, <1>2, <1>3, ClientTook
<1>5. i \in Peers /\ i # Server
  BY ClientsArePeers
<1>6. CASE peer' = peer
  BY <1>4, <1>6, NoStep
<1>7. CASE Hangup(i)
  BY <1>4, <1>5, <1>7, HangupStep
<1>8. CASE /\ m.client \in p.players /\ m.frame = p.read[m.client]
           /\ peer' = [peer EXCEPT ![i] =
                [Written(p, m) EXCEPT !.server = IF m.client = Server THEN m.frame + 1 ELSE @]]
  <2>1. m.frame \in Frames /\ m.client \in Peers /\ m.input \in SUBSET Buttons
    BY <1>3, <1>4, InputMessage
  <2>2. Ready(p, m.frame)
    BY <1>3, <1>4, <1>8 DEF Fits
  <2>3. PICK s : s = IF m.client = Server THEN m.frame + 1 ELSE Written(p, m).server
    OBVIOUS
  <2>4. Written(p, m).server = p.server
    BY DEF Written, netplay_delta_frame_ready
  <2>5. PICK q : q = [Written(p, m) EXCEPT !.server = s]
    OBVIOUS
  <2>6. PeerInv(i, q)
    <3>1. s = p.server \/ (i # Server /\ m.client = Server /\ s = m.frame + 1)
      BY <1>5, <2>3, <2>4
    <3>2. QED
      BY <1>4, <1>5, <1>8, <2>1, <2>2, <2>5, <3>1, WrittenStays
  <2>7. peer' = [peer EXCEPT ![i] = q]
    BY <1>8, <2>3, <2>5
  <2>8. QED
    BY <1>4, <1>5, <2>6, <2>7, StepStays
<1>9. QED
  BY <1>1, <1>2, <1>6, <1>7, <1>8 DEF ClientReceivesInput

\* Input reaches the server, which passes it on.
LEMMA ServerReceivesInputStays ==
  ASSUME IInv, NEW c \in Clients, ServerReceivesInput(c)
  PROVE  IInv'
<1>1. PICK p : p = peer[Server]
  OBVIOUS
<1>2. PICK m : m = Head(toServer[c])
  OBVIOUS
<1>3. ServerTakes(c) /\ m.type = "input"
  BY <1>2 DEF ServerReceivesInput
<1>4. PeerInv(Server, p) /\ p.polling /\ p.connected /\ m \in FromClient(c) /\ Fits(p, m)
      /\ Sent(toServer', toClient)
  BY <1>1, <1>2, <1>3, ServerTook
<1>5. Server \in Peers /\ c # Server /\ c \in Peers
  BY ClientsArePeers
<1>6. m.frame \in Frames /\ m.client = c /\ m.input \in SUBSET Buttons
  BY <1>3, <1>4, ClientsInput
<1>7. CASE peer' = peer /\ toClient' = toClient
  BY <1>4, <1>7, NoStep
<1>8. CASE Hangup(Server) /\ toClient' = toClient
  BY <1>4, <1>5, <1>8, HangupStep
<1>9. CASE /\ c \in p.players /\ m.frame = p.read[c]
           /\ peer' = [peer EXCEPT ![Server] = Written(p, m)]
           /\ toClient' = [b \in Clients |->
                IF b # c /\ m.frame <= p.self THEN Append(toClient[b], m) ELSE toClient[b]]
  <2>1. Ready(p, m.frame)
    BY <1>3, <1>4, <1>6, <1>9 DEF Fits
  <2>2. PICK q : q = [Written(p, m) EXCEPT !.server = p.server]
    OBVIOUS
  <2>3. PeerInv(Server, q)
    BY <1>4, <1>5, <1>6, <1>9, <2>1, <2>2, WrittenStays
  <2>4. q = Written(p, m)
    <3>1. netplay_delta_frame_ready(p, m.frame) \in Netplays(Server)
          /\ netplay_delta_frame_ready(p, m.frame).server = p.server
      <4>1. p \in Netplays(Server)
        BY <1>4 DEF PeerInv
      <4>2. PICK r : r = netplay_delta_frame_ready(p, m.frame)
        OBVIOUS
      <4>3. r \in Netplays(Server) /\ RingOnly(p, r)
        BY <1>6, <4>1, <4>2, FrameReady
      <4>4. QED
        BY <4>2, <4>3 DEF RingOnly
    <3>2. QED
      BY <2>2, <3>1 DEF Written, Netplays
  <2>5. m \in FromServer
    <3>1. m \in InputOf({c})
      BY <1>3, <1>4 DEF FromClient
    <3>2. InputOf({c}) \subseteq InputOf(Peers)
      BY <1>5 DEF InputOf
    <3>3. QED
      BY <3>1, <3>2, FromTypes
  <2>6. Sent(toServer', toClient')
    <3>1. \A b \in Clients : toClient[b] \in Seq(FromServer) /\ Append(toClient[b], m) \in Seq(FromServer)
      BY <1>4, <2>5 DEF Sent
    <3>2. QED
      BY <1>4, <1>9, <3>1 DEF Sent
  <2>7. QED
    BY <1>5, <1>9, <2>3, <2>4, <2>6, StepStays
<1>10. QED
  BY <1>1, <1>2, <1>7, <1>8, <1>9 DEF ServerReceivesInput

\* A client that has asked to play becomes a player.
LEMMA ServerReceivesPlayStays ==
  ASSUME IInv, NEW c \in Clients, ServerReceivesPlay(c)
  PROVE  IInv'
<1>1. PICK p : p = peer[Server]
  OBVIOUS
<1>2. ServerTakes(c)
  BY DEF ServerReceivesPlay
<1>3. PeerInv(Server, p) /\ p.polling /\ p.connected /\ Sent(toServer', toClient)
  BY <1>1, <1>2, ServerTook
<1>4. p \in Netplays(Server) /\ Counted(Server, p) /\ Serving(p)
  BY <1>3 DEF PeerInv
<1>5. Server \in Peers /\ c # Server /\ c \in Peers
  BY ClientsArePeers
<1>6. PICK n : n = p.self + 1
  OBVIOUS
<1>7. /\ p.self \in Int /\ p.run \in Int /\ p.other \in Int /\ p.read \in [Peers -> Counts]
      /\ p.players \in SUBSET Peers /\ n \in Int /\ n \in Counts
  BY <1>4, <1>6, PeerTypes, FramesInt, NetplayAssumption DEF Frames, Counts
<1>8. PICK q : q = [p EXCEPT !.players = @ \cup {c}, !.read[c] = n]
  OBVIOUS
<1>9. /\ q \in Netplays(Server) /\ q.players = p.players \cup {c} /\ q.read = [p.read EXCEPT ![c] = n]
      /\ q.self = p.self /\ q.run = p.run /\ q.other = p.other /\ q.server = p.server
      /\ q.playing = p.playing /\ q.force_rewind = p.force_rewind /\ q.polling = p.polling
      /\ q.connected = p.connected /\ q.ring = p.ring /\ q.core = p.core
  BY <1>4, <1>5, <1>7, <1>8 DEF Netplays
<1>10. \A b \in p.players : b # c => q.read[b] = p.read[b]
  BY <1>7, <1>9
<1>11. q.read[c] = n /\ q.read[Server] = p.read[Server]
  BY <1>5, <1>7, <1>9
<1>12. p.other <= p.run /\ p.run <= p.self /\ ~p.force_rewind
  BY <1>4 DEF Counted, Serving
<1>13. Counted(Server, q)
  <2>1. \A b \in q.players : q.other <= q.read[b]
    BY <1>4, <1>6, <1>7, <1>9, <1>10, <1>11, <1>12 DEF Counted
  <2>2. QED
    BY <1>4, <1>9, <2>1 DEF Counted
<1>14. Serving(q)
  <2>1. q.players # {Server}
    BY <1>5, <1>9
  <2>2. QED
    BY <1>4, <1>9, <1>11, <2>1 DEF Serving
<1>15. Alike(Server, p, q)
  <2>1. Keeps(Server, p, q)
    BY <1>9 DEF Keeps, At
  <2>2. ASSUME NEW f \in Int, Reached(q, f) PROVE Reached(p, f)
    <3>1. CASE f < q.self \/ (f = q.self /\ q.polling)
      BY <1>9, <3>1 DEF Reached
    <3>2. CASE \E b \in q.players : f < q.read[b]
      <4>1. PICK b \in q.players : f < q.read[b]
        BY <3>2
      <4>2. CASE b = c
        <5>1. f <= p.self
          BY <1>6, <1>7, <1>11, <4>1, <4>2
        <5>2. f < p.self \/ f = p.self
          BY <1>7, <5>1
        <5>3. QED
          BY <1>3, <5>2 DEF Reached
      <4>3. CASE b # c
        BY <1>9, <1>10, <4>1, <4>3 DEF Reached
      <4>4. QED
        BY <4>2, <4>3
    <3>3. QED
      BY <2>2, <3>1, <3>2 DEF Reached
  <2>3. ~Passed(Server, p)
    BY DEF Passed
  <2>4. QED
    BY <1>9, <2>1, <2>2, <2>3 DEF Alike
<1>16. PeerInv(Server, q)
  <2>1. Held(Server, q) /\ Linked(Server, q) /\ Begun(Server, q)
    BY <1>3, <1>15, AlikeStays
  <2>2. QED
    BY <1>9, <1>13, <1>14, <2>1 DEF PeerInv
<1>17. peer = [j \in Peers |-> peer[j]]
  BY DEF IInv, TypeOK
<1>18. peer' = [peer EXCEPT ![Server] = q]
  <2>1. peer' = [peer EXCEPT ![Server].players = @ \cup {c}, ![Server].read[c] = n]
    BY <1>1, <1>6 DEF ServerReceivesPlay
  <2>2. QED
    BY <1>1, <1>5, <1>8, <1>17, <2>1
<1>19. Sent(toServer', toClient')
  <2>1. PICK m : m = ModeMsg(n, c)
    OBVIOUS
  <2>2. m \in FromServer
    BY <1>7, <2>1 DEF ModeMsg, FromServer
  <2>3. toClient' = [b \in Clients |-> Append(toClient[b], m)]
    BY <1>1, <1>6, <2>1 DEF ServerReceivesPlay
  <2>4. \A b \in Clients : toClient[b] \in Seq(FromServer) /\ Append(toClient[b], m) \in Seq(FromServer)
    BY <1>3, <2>2 DEF Sent
  <2>5. QED
    BY <1>3, <2>3, <2>4 DEF Sent
<1>20. QED
  BY <1>5, <1>16, <1>18, <1>19, StepStays

\* A client that has asked for a savestate will be sent one.
LEMMA ServerReceivesRequestStays ==
  ASSUME IInv, NEW c \in Clients, ServerReceivesRequest(c)
  PROVE  IInv'
<1>1. PICK p : p = peer[Server]
  OBVIOUS
<1>2. ServerTakes(c) /\ toClient' = toClient
  BY DEF ServerReceivesRequest
<1>3. PeerInv(Server, p) /\ Sent(toServer', toClient')
  BY <1>1, <1>2, ServerTook
<1>4. PICK q : q = [p EXCEPT !.force_send = TRUE]
  OBVIOUS
<1>5. p \in Netplays(Server)
  BY <1>3 DEF PeerInv
<1>6. /\ q \in Netplays(Server)
      /\ q.ring = p.ring /\ q.core = p.core /\ q.self = p.self /\ q.run = p.run /\ q.other = p.other
      /\ q.server = p.server /\ q.read = p.read /\ q.players = p.players /\ q.playing = p.playing
      /\ q.force_rewind = p.force_rewind /\ q.polling = p.polling /\ q.connected = p.connected
  BY <1>4, <1>5 DEF Netplays
<1>7. PeerInv(Server, q)
  BY <1>3, <1>6, SameStays
<1>8. peer' = [peer EXCEPT ![Server] = q]
  <2>1. peer = [j \in Peers |-> peer[j]]
    BY DEF IInv, TypeOK
  <2>2. QED
    BY <1>1, <1>4, <2>1, ClientsArePeers DEF ServerReceivesRequest
<1>9. QED
  BY <1>3, <1>7, <1>8, ClientsArePeers, StepStays

\* A client is told to stall.
LEMMA ClientReceivesStallStays ==
  ASSUME IInv, NEW i \in Clients, ClientReceivesStall(i)
  PROVE  IInv'
<1>1. PICK p : p = peer[i]
  OBVIOUS
<1>2. PICK m : m = Head(toClient[i])
  OBVIOUS
<1>3. ClientTakes(i) /\ m.type = "stall" /\ toServer' = toServer
  BY <1>2 DEF ClientReceivesStall
<1>4. PeerInv(i, p) /\ m \in FromServer /\ Sent(toServer', toClient')
  BY <1>1, <1>2, <1>3, ClientTook
<1>5. i \in Peers /\ i # Server
  BY ClientsArePeers
<1>6. CASE p.stall # "none"
  <2>1. peer' = peer
    BY <1>1, <1>6 DEF ClientReceivesStall
  <2>2. QED
    BY <1>4, <2>1, NoStep
<1>7. CASE p.stall = "none"
  <2>1. PICK n : n = Min({m.frames, StallTime})
    OBVIOUS
  <2>2. n \in 0..StallTime
    <3>1. m.frames \in Nat /\ StallTime \in Nat
      BY <1>3, <1>4, StallMessage, NetplayAssumption
    <3>2. n \in {m.frames, StallTime} /\ n <= StallTime
      <4>1. {m.frames, StallTime} \in SUBSET Nat /\ {m.frames, StallTime} # {}
        BY <3>1
      <4>2. QED
        BY <2>1, <4>1, MinIs
    <3>3. QED
      BY <3>1, <3>2
  <2>3. PICK q : q = [p EXCEPT !.stall = "server", !.stall_frame = n]
    OBVIOUS
  <2>4. p \in Netplays(i)
    BY <1>4 DEF PeerInv
  <2>5. /\ q \in Netplays(i)
        /\ q.ring = p.ring /\ q.core = p.core /\ q.self = p.self /\ q.run = p.run /\ q.other = p.other
        /\ q.server = p.server /\ q.read = p.read /\ q.players = p.players /\ q.playing = p.playing
        /\ q.force_rewind = p.force_rewind /\ q.polling = p.polling /\ q.connected = p.connected
        /\ q.force_send = p.force_send
    BY <2>2, <2>3, <2>4 DEF Netplays
  <2>6. PeerInv(i, q)
    BY <1>4, <2>5, SameStays
  <2>7. peer' = [peer EXCEPT ![i] = q]
    <3>1. peer = [j \in Peers |-> peer[j]]
      BY DEF IInv, TypeOK
    <3>2. peer' = [peer EXCEPT ![i].stall = "server", ![i].stall_frame = n]
      BY <1>1, <1>2, <1>7, <2>1 DEF ClientReceivesStall
    <3>3. QED
      BY <1>1, <1>5, <2>3, <3>1, <3>2
  <2>8. QED
    BY <1>4, <1>5, <2>6, <2>7, StepStays
<1>8. QED
  BY <1>6, <1>7

\* A client asks to play.
LEMMA AsksToPlayStays ==
  ASSUME IInv, NEW c \in Clients, AsksToPlay(c)
  PROVE  IInv'
<1>1. PICK p : p = peer[c]
  OBVIOUS
<1>2. PICK q : q = [p EXCEPT !.asked = TRUE]
  OBVIOUS
<1>3. c \in Peers
  BY ClientsArePeers
<1>4. p \in Netplays(c) /\ PeerInv(c, p) /\ Sent(toServer, toClient)
  BY <1>1, <1>3, PeersAre
<1>5. /\ q \in Netplays(c)
      /\ q.ring = p.ring /\ q.core = p.core /\ q.self = p.self /\ q.run = p.run /\ q.other = p.other
      /\ q.server = p.server /\ q.read = p.read /\ q.players = p.players /\ q.playing = p.playing
      /\ q.force_rewind = p.force_rewind /\ q.polling = p.polling /\ q.connected = p.connected
      /\ q.force_send = p.force_send
  BY <1>2, <1>4 DEF Netplays
<1>6. PeerInv(c, q)
  BY <1>4, <1>5, SameStays
<1>7. peer' = [peer EXCEPT ![c] = q]
  <2>1. peer = [j \in Peers |-> peer[j]]
    BY DEF IInv, TypeOK
  <2>2. QED
    BY <1>1, <1>2, <1>3, <2>1 DEF AsksToPlay
<1>8. Sent(toServer', toClient')
  <2>1. PICK s : s = Append(toServer[c], PlayMsg)
    OBVIOUS
  <2>2. PlayMsg \in FromClient(c)
    BY DEF PlayMsg, FromClient
  <2>3. toServer[c] \in Seq(FromClient(c))
    BY <1>4 DEF Sent
  <2>4. s \in Seq(FromClient(c))
    BY <2>1, <2>2, <2>3
  <2>5. toServer' = [toServer EXCEPT ![c] = s] /\ toClient' = toClient
    BY <1>4, <2>1 DEF Sent, AsksToPlay
  <2>6. QED
    BY <1>4, <2>4, <2>5, SentToServer
<1>9. QED
  BY <1>3, <1>6, <1>7, <1>8, StepStays

\* A client asks for a savestate.
LEMMA RequestsSavestateStays ==
  ASSUME IInv, NEW c \in Clients, RequestsSavestate(c)
  PROVE  IInv'
<1>1. PICK p : p = peer[c]
  OBVIOUS
<1>2. PICK q : q = [p EXCEPT !.outstanding = TRUE]
  OBVIOUS
<1>3. c \in Peers
  BY ClientsArePeers
<1>4. p \in Netplays(c) /\ PeerInv(c, p) /\ Sent(toServer, toClient)
  BY <1>1, <1>3, PeersAre
<1>5. /\ q \in Netplays(c)
      /\ q.ring = p.ring /\ q.core = p.core /\ q.self = p.self /\ q.run = p.run /\ q.other = p.other
      /\ q.server = p.server /\ q.read = p.read /\ q.players = p.players /\ q.playing = p.playing
      /\ q.force_rewind = p.force_rewind /\ q.polling = p.polling /\ q.connected = p.connected
      /\ q.force_send = p.force_send
  BY <1>2, <1>4 DEF Netplays
<1>6. PeerInv(c, q)
  BY <1>4, <1>5, SameStays
<1>7. peer' = [peer EXCEPT ![c] = q]
  <2>1. peer = [j \in Peers |-> peer[j]]
    BY DEF IInv, TypeOK
  <2>2. QED
    BY <1>1, <1>2, <1>3, <2>1 DEF RequestsSavestate
<1>8. Sent(toServer', toClient')
  <2>1. PICK s : s = Append(toServer[c], RequestMsg)
    OBVIOUS
  <2>2. RequestMsg \in FromClient(c)
    BY DEF RequestMsg, FromClient
  <2>3. toServer[c] \in Seq(FromClient(c))
    BY <1>4 DEF Sent
  <2>4. s \in Seq(FromClient(c))
    BY <2>1, <2>2, <2>3
  <2>5. toServer' = [toServer EXCEPT ![c] = s] /\ toClient' = toClient
    BY <1>4, <2>1 DEF Sent, RequestsSavestate
  <2>6. QED
    BY <1>4, <2>4, <2>5, SentToServer
<1>9. QED
  BY <1>3, <1>6, <1>7, <1>8, StepStays

\* A client hears that it, or another, plays from some frame on.
LEMMA ClientReceivesModeStays ==
  ASSUME IInv, NEW i \in Clients, ClientReceivesMode(i)
  PROVE  IInv'
<1>1. PICK p : p = peer[i]
  OBVIOUS
<1>2. PICK m : m = Head(toClient[i])
  OBVIOUS
<1>3. ClientTakes(i) /\ m.type = "mode"
  BY <1>2 DEF ClientReceivesMode
<1>4. PeerInv(i, p) /\ p.polling /\ m \in FromServer /\ Sent(toServer, toClient')
  BY <1>1, <1>2, <1>3, ClientTook
<1>5. i \in Peers /\ i # Server
  BY ClientsArePeers
<1>6. m.frame \in Counts /\ m.client \in Clients
  BY <1>3, <1>4, ModeMessage
<1>7. PICK j : j = m.client
  OBVIOUS
<1>8. PICK q : q = Plays(i, p, j)
  OBVIOUS
<1>9. j \in Clients
  BY <1>6, <1>7
<1>10. PeerInv(i, q) /\ q.self = p.self /\ q.server = p.server
  BY <1>4, <1>5, <1>8, <1>9, JoinedStays
<1>11. q = [Joined(peer[i], m.client) EXCEPT !.playing = @ \/ m.client = i]
  BY <1>1, <1>7, <1>8 DEF Plays
<1>12. CASE Hangup(i) /\ toServer' = toServer
  BY <1>4, <1>5, <1>12, HangupStep
<1>13. CASE peer' = [peer EXCEPT ![i] = q] /\ toServer' = toServer
  BY <1>4, <1>5, <1>10, <1>13, StepStays
<1>14. CASE /\ m.frame = q.server /\ m.frame <= q.self
            /\ peer' = [peer EXCEPT ![i] = GivesPast(i, q)]
            /\ toServer' = [toServer EXCEPT ![i] =
                @ \o [k \in 1..q.self - m.frame + 1 |-> InputMsg(m.frame + k - 1, i, Zero)]]
  <2>1. PICK s : s = [k \in 1..q.self - m.frame + 1 |-> InputMsg(m.frame + k - 1, i, Zero)]
    OBVIOUS
  <2>2. q.self \in Frames /\ q.self \in Nat /\ m.frame \in Nat /\ MaxFrame \in Nat /\ q.self <= MaxFrame
    <3>1. q \in Netplays(i)
      BY <1>10 DEF PeerInv
    <3>2. q.self \in Frames /\ m.frame \in Nat
      BY <1>6, <3>1, PeerTypes, FramesNat
    <3>3. MaxFrame \in Nat
      BY NetplayAssumption
    <3>4. QED
      BY <3>2, <3>3 DEF Frames
  <2>3. Zero \in SUBSET Buttons
    BY DEF Zero
  <2>4. ASSUME NEW k \in 1..q.self - m.frame + 1
        PROVE  InputMsg(m.frame + k - 1, i, Zero) \in InputOf({i})
    <3>1. m.frame + k - 1 \in Frames
      BY <1>14, <2>2 DEF Frames
    <3>2. QED
      BY <1>5, <2>3, <3>1, InputMsgs
  <2>5. q.self - m.frame + 1 \in Nat
    BY <1>14, <2>2
  <2>6. s \in Seq(InputOf({i}))
    <3>1. PICK n : n = q.self - m.frame + 1
      OBVIOUS
    <3>2. n \in Nat /\ s = [k \in 1..n |-> InputMsg(m.frame + k - 1, i, Zero)]
      BY <2>1, <2>5, <3>1
    <3>3. \A k \in 1..n : InputMsg(m.frame + k - 1, i, Zero) \in InputOf({i})
      BY <2>4, <3>1
    <3> DEFINE msg(k) == InputMsg(m.frame + k - 1, i, Zero)
    <3>4. s = [k \in 1..n |-> msg(k)] /\ \A k \in 1..n : msg(k) \in InputOf({i})
      BY <3>2, <3>3
    <3> HIDE DEF msg
    <3>5. n \in Nat
      BY <3>2
    <3>6. \A k \in 1..n : msg(k) \in InputOf({i})
      BY <3>4
    <3>7. PICK T : T = InputOf({i})
      OBVIOUS
    <3>8. [k \in 1..n |-> msg(k)] \in Seq(T)
      BY <3>5, <3>6, <3>7
    <3>9. QED
      BY <3>4, <3>7, <3>8
  <2>7. s \in Seq(FromClient(i))
    BY <2>6, FromTypes, SeqWider
  <2>8. toServer[i] \in Seq(FromClient(i)) /\ toServer = [c \in Clients |-> toServer[c]]
    BY <1>4 DEF Sent
  <2>9. PICK t : t = toServer[i] \o s
    OBVIOUS
  <2>10. t \in Seq(FromClient(i))
    BY <2>7, <2>8, <2>9, ConcatProperties
  <2>11. toServer' = [toServer EXCEPT ![i] = t]
    BY <1>14, <2>1, <2>8, <2>9
  <2>12. Sent(toServer', toClient')
    BY <1>4, <2>10, <2>11, SentToServer
  <2>13. PeerInv(i, GivesPast(i, q))
    BY <1>5, <1>10, GivesPastStays
  <2>14. QED
    BY <1>5, <1>14, <2>12, <2>13, StepStays
<1>15. CASE /\ m.frame = q.server /\ peer' = [peer EXCEPT ![i] = SkipsToFuture(q, m.frame)]
            /\ toServer' = toServer
  <2>1. PeerInv(i, SkipsToFuture(q, m.frame))
    BY <1>5, <1>10, <1>15, SkipsToFutureStays
  <2>2. QED
    BY <1>4, <1>5, <1>15, <2>1, StepStays
<1>16. QED
  <2>1. ClientReceivesMode(i)
    OBVIOUS
  <2>2. \/ m.frame # q.server /\ Hangup(i) /\ UNCHANGED toServer
        \/ /\ m.frame = q.server /\ m.client # i
           /\ peer' = [peer EXCEPT ![i] = q]
           /\ UNCHANGED toServer
        \/ /\ m.frame = q.server /\ m.client = i /\ m.frame <= q.self
           /\ peer' = [peer EXCEPT ![i] = GivesPast(i, q)]
           /\ toServer' = [toServer EXCEPT ![i] =
                @ \o [k \in 1..q.self - m.frame + 1 |-> InputMsg(m.frame + k - 1, i, Zero)]]
        \/ /\ m.frame = q.server /\ m.client = i /\ m.frame > q.self
           /\ peer' = [peer EXCEPT ![i] = SkipsToFuture(q, m.frame)]
           /\ UNCHANGED toServer
    BY <1>2, <1>11, <2>1 DEF ClientReceivesMode
  <2>3. QED
    BY <1>12, <1>13, <1>14, <1>15, <2>2

\* A savestate reaches a client.
LEMMA ClientReceivesSavestateStays ==
  ASSUME IInv, NEW i \in Clients, ClientReceivesSavestate(i)
  PROVE  IInv'
<1>1. PICK p : p = peer[i]
  OBVIOUS
<1>2. PICK m : m = Head(toClient[i])
  OBVIOUS
<1>3. ClientTakes(i) /\ m.type = "savestate" /\ toServer' = toServer
  BY <1>2 DEF ClientReceivesSavestate
<1>4. PeerInv(i, p) /\ p.polling /\ m \in FromServer /\ Fits(p, m) /\ Sent(toServer', toClient')
  BY <1>1, <1>2, <1>3, ClientTook
<1>5. i \in Peers /\ i # Server
  BY ClientsArePeers
<1>6. m.frame \in Frames /\ m.state \in Cores
  BY <1>3, <1>4, SavestateMessage
<1>7. CASE Hangup(i)
  BY <1>4, <1>5, <1>7, HangupStep
<1>8. CASE m.frame = p.server /\ peer' = [peer EXCEPT ![i] = Loads(p, m)]
  <2>1. Ready(p, m.frame)
    BY <1>3, <1>4, <1>8 DEF Fits
  <2>2. PeerInv(i, Loads(p, m))
    BY <1>4, <1>5, <1>6, <1>8, <2>1, LoadsStays
  <2>3. QED
    BY <1>4, <1>5, <1>8, <2>2, StepStays
<1>9. QED
  BY <1>1, <1>2, <1>7, <1>8 DEF ClientReceivesSavestate

\* The user of the server loads a state.
LEMMA HostLoadsKeeps ==
  ASSUME IInv, HostLoads
  PROVE  IInv'
<1>1. PICK p : p = peer[Server]
  OBVIOUS
<1>2. Server \in Peers
  BY ClientsArePeers
<1>3. PeerInv(Server, p) /\ ~p.polling /\ p.connected /\ p.loads < MaxLoads /\ Sent(toServer', toClient)
  BY <1>1, <1>2, PeersAre DEF HostLoads, Going, MayLoad
<1>4. PICK F : F = netplay_force_future(p)
  OBVIOUS
<1>5. PICK q : q = netplay_load_savestate(netplay_delta_frame_ready(F, F.self))
  OBVIOUS
<1>6. PICK r : r = [F EXCEPT !.loads = @ + 1, !.core = Core(F.loads + 1)]
  OBVIOUS
<1>7. /\ Ready(F, F.self) => PeerInv(Server, q) /\ q.run \in Frames /\ q.core \in Cores
      /\ PeerInv(Server, r)
  BY <1>3, <1>4, <1>5, <1>6, HostLoadsStays
<1>8. IF Ready(F, F.self)
      THEN /\ peer' = [peer EXCEPT ![Server] = q]
           /\ toClient' = [c \in Clients |-> Append(toClient[c], SavestateMsg(q.run, q.core))]
      ELSE peer' = [peer EXCEPT ![Server] = r] /\ toClient' = toClient
  BY <1>1, <1>4, <1>5, <1>6 DEF HostLoads
<1>9. CASE Ready(F, F.self)
  <2>1. PICK m : m = SavestateMsg(q.run, q.core)
    OBVIOUS
  <2>2. m \in FromServer
    BY <1>7, <1>9, <2>1 DEF SavestateMsg, FromServer
  <2>3. \A c \in Clients : toClient[c] \in Seq(FromServer) /\ Append(toClient[c], m) \in Seq(FromServer)
    BY <1>3, <2>2 DEF Sent
  <2>4. Sent(toServer', toClient')
    BY <1>3, <1>8, <1>9, <2>1, <2>3 DEF Sent
  <2>5. QED
    BY <1>2, <1>7, <1>8, <1>9, <2>4, StepStays
<1>10. CASE ~Ready(F, F.self)
  <2>1. Sent(toServer', toClient') /\ peer' = [peer EXCEPT ![Server] = r]
    BY <1>3, <1>8, <1>10
  <2>2. QED
    BY <1>2, <1>7, <2>1, StepStays
<1>11. QED
  BY <1>9, <1>10

\* A frame begins.
LEMMA FrameBeginsStays ==
  ASSUME IInv, NEW i \in Peers, FrameBegins(i)
  PROVE  IInv'
<1>1. PICK o : o = peer[i]
  OBVIOUS
<1>2. PICK p : p = netplay_sync_pre_frame(o)
  OBVIOUS
<1>3. PeerInv(i, o) /\ ~o.polling /\ o.connected /\ o.self < MaxFrame /\ Sent(toServer, toClient)
  BY <1>1, PeersAre DEF FrameBegins, Going
<1>4. /\ PeerInv(i, p) /\ ~p.polling /\ p.connected /\ p.self = o.self
      /\ Ready(p, p.run) => At(i, p, p.run).state = p.core
  BY <1>2, <1>3, PreFrameStays
<1>5. p \in Netplays(i)
  BY <1>4 DEF PeerInv
<1>6. CASE Hangup(i) /\ toServer' = toServer /\ toClient' = toClient
  BY <1>3, <1>6, HangupStep
<1>7. CASE Ready(p, p.self)
  <2>1. PICK state : state = IF SendsState(o) THEN <<SavestateMsg(p.run, p.core)>> ELSE <<>>
    OBVIOUS
  <2>2. PICK v \in IF p.self \in PressFrames /\ p.playing THEN Inputs ELSE {Zero} :
          LET q         == get_self_input_state(i, p, v)
              input(to) == IF HaveLocal(p) THEN <<>> ELSE CurInput(q, i, to)
          IN /\ peer' = [peer EXCEPT ![i] = [q EXCEPT !.polling = TRUE]]
             /\ IF i = Server
                THEN /\ toClient' = [c \in Clients |-> toClient[c] \o state \o input(c)]
                     /\ UNCHANGED toServer
                ELSE /\ toServer' = [toServer EXCEPT ![i] = @ \o input(Server)]
                     /\ UNCHANGED toClient
    BY <1>1, <1>2, <1>7, <2>1 DEF FrameBegins
  <2>3. v \in SUBSET Buttons
    BY <2>2 DEF Buttons, Zero
  <2>4. PICK q : q = get_self_input_state(i, p, v)
    OBVIOUS
  <2>5. q \in Netplays(i)
    <3>1. Took(i, p, q)
      BY <1>3, <1>4, <1>5, <1>7, <2>3, <2>4, TakesInput
    <3>2. QED
      BY <3>1 DEF Took
  <2>6. PICK t : t = [q EXCEPT !.polling = TRUE]
    OBVIOUS
  <2>7. PeerInv(i, t)
    BY <1>3, <1>4, <1>7, <2>3, <2>4, <2>6, FrameBegun
  <2> DEFINE input(to) == IF HaveLocal(p) THEN <<>> ELSE CurInput(q, i, to)
  <2>8. /\ peer' = [peer EXCEPT ![i] = t]
        /\ IF i = Server
           THEN /\ toClient' = [c \in Clients |-> toClient[c] \o state \o input(c)]
                /\ toServer' = toServer
           ELSE /\ toServer' = [toServer EXCEPT ![i] = @ \o input(Server)]
                /\ toClient' = toClient
    BY <2>2, <2>4, <2>6
  <2>9. ASSUME NEW to
        PROVE  /\ input(to) \in Seq(InputOf(Peers))
               /\ i # Server => input(to) \in Seq(InputOf({i}))
    <3>1. CurInput(q, i, to) \in Seq(InputOf(Peers)) /\ (i # Server => CurInput(q, i, to) \in Seq(InputOf({i})))
      BY <2>5, CurInputs
    <3>2. << >> \in Seq(InputOf(Peers)) /\ << >> \in Seq(InputOf({i}))
      OBVIOUS
    <3>3. QED
      BY <3>1, <3>2
  <2> HIDE DEF input
  <2>10. CASE i = Server
    <3>1. state \in Seq(FromServer)
      <4>1. PICK m : m = SavestateMsg(p.run, p.core)
        OBVIOUS
      <4>2. m \in FromServer
        BY <1>5, <4>1, PeerTypes DEF SavestateMsg, FromServer
      <4>3. <<m>> \in Seq(FromServer) /\ << >> \in Seq(FromServer)
        BY <4>2
      <4>4. state = IF SendsState(o) THEN <<m>> ELSE <<>>
        BY <2>1, <4>1
      <4>5. QED
        BY <4>3, <4>4
    <3>2. ASSUME NEW c \in Clients
          PROVE  toClient[c] \o state \o input(c) \in Seq(FromServer)
      <4>1. toClient[c] \in Seq(FromServer)
        BY <1>3 DEF Sent
      <4>2. input(c) \in Seq(FromServer)
        BY <2>9, FromTypes, SeqWider
      <4>3. toClient[c] \o state \in Seq(FromServer)
        BY <3>1, <4>1, ConcatProperties
      <4>4. QED
        BY <4>2, <4>3, ConcatProperties
    <3>3. toClient' = [c \in Clients |-> toClient[c] \o state \o input(c)] /\ toServer' = toServer
      BY <2>8, <2>10
    <3>4. toClient' \in [Clients -> Seq(FromServer)]
      BY <3>2, <3>3
    <3>5. Sent(toServer', toClient')
      BY <1>3, <3>3, <3>4 DEF Sent
    <3>6. QED
      BY <2>7, <2>8, <3>5, StepStays
  <2>11. CASE i # Server
    <3>1. i \in Clients
      BY <2>11 DEF Peers
    <3>2. PICK s : s = toServer[i] \o input(Server)
      OBVIOUS
    <3>3. input(Server) \in Seq(FromClient(i))
      BY <2>9, <2>11, FromTypes, SeqWider
    <3>4. toServer[i] \in Seq(FromClient(i))
      BY <1>3, <3>1 DEF Sent
    <3>5. s \in Seq(FromClient(i))
      BY <3>2, <3>3, <3>4, ConcatProperties
    <3>6. toServer' = [toServer EXCEPT ![i] = s] /\ toClient' = toClient
      BY <1>3, <2>8, <2>11, <3>1, <3>2 DEF Sent
    <3>7. Sent(toServer', toClient')
      BY <1>3, <3>1, <3>5, <3>6, SentToServer
    <3>8. QED
      BY <2>7, <2>8, <3>7, StepStays
  <2>12. QED
    BY <2>10, <2>11
<1>8. Ready(p, p.self) \/ (Hangup(i) /\ toServer' = toServer /\ toClient' = toClient)
  BY <1>1, <1>2 DEF FrameBegins
<1>9. QED
  BY <1>6, <1>7, <1>8

\* A frame ends.
LEMMA FrameEndsStays ==
  ASSUME IInv, NEW i \in Peers, FrameEnds(i)
  PROVE  IInv'
<1>1. PICK o : o = peer[i]
  OBVIOUS
<1>2. PeerInv(i, o) /\ o.polling /\ Sent(toServer, toClient)
  BY <1>1, PeersAre DEF FrameEnds
<1>3. PICK p \in netplay_poll(i, o) :
       LET r   == Ended(i, p)
           ask == IF i = Server /\ ~Stalling(i, p) /\ ~Alone(i, r) THEN AskedToStall(r) ELSE {}
       IN /\ peer' = [peer EXCEPT ![i] = [Asking(r, ask) EXCEPT !.polling = FALSE]]
          /\ toClient' = [c \in Clients |->
                IF c \in ask THEN Append(toClient[c], StallMsg(r.read[c] - r.self + 1))
                ELSE toClient[c]]
          /\ UNCHANGED toServer
  BY <1>1 DEF FrameEnds
<1>4. PICK r : r = Ended(i, p)
  OBVIOUS
<1>5. PICK ask : ask = IF i = Server /\ ~Stalling(i, p) /\ ~Alone(i, r) THEN AskedToStall(r) ELSE {}
  OBVIOUS
<1>6. PICK t : t = [Asking(r, ask) EXCEPT !.polling = FALSE]
  OBVIOUS
<1>7. /\ peer' = [peer EXCEPT ![i] = t]
      /\ toClient' = [c \in Clients |->
            IF c \in ask THEN Append(toClient[c], StallMsg(r.read[c] - r.self + 1))
            ELSE toClient[c]]
      /\ toServer' = toServer
  BY <1>3, <1>4, <1>5, <1>6
<1>8. PeerInv(i, t)
  BY <1>2, <1>3, <1>4, <1>6, FrameEnded
<1>9. ASSUME NEW c \in Clients, c \in ask
      PROVE  StallMsg(r.read[c] - r.self + 1) \in FromServer
  <2>1. ask = AskedToStall(r) /\ i = Server
    BY <1>5, <1>9
  <2>2. c \in r.players /\ r.self + Ahead < r.read[c]
    BY <1>9, <2>1 DEF AskedToStall
  <2>3. t \in Netplays(i)
    BY <1>8 DEF PeerInv
  <2>4. t.self = r.self /\ t.read = r.read
    BY <1>6 DEF Asking
  <2>5. r.self \in Nat /\ r.read \in [Peers -> Counts] /\ Counts \subseteq Nat
    BY <2>3, <2>4, PeerTypes, FramesNat
  <2>6. r.read[c] \in Nat /\ Ahead \in Nat
    BY <2>5, ClientsArePeers, NetplayAssumption
  <2>7. PICK n : n = r.read[c] - r.self + 1
    OBVIOUS
  <2>8. n \in Nat
    BY <2>2, <2>5, <2>6, <2>7
  <2>9. QED
    BY <2>7, <2>8 DEF StallMsg, FromServer
<1>10. ASSUME NEW c \in Clients
       PROVE  toClient'[c] \in Seq(FromServer)
  <2>1. toClient[c] \in Seq(FromServer)
    BY <1>2 DEF Sent
  <2>2. PICK m : m = StallMsg(r.read[c] - r.self + 1)
    OBVIOUS
  <2>3. c \in ask => m \in FromServer
    BY <1>9, <2>2
  <2>4. toClient'[c] = IF c \in ask THEN Append(toClient[c], m) ELSE toClient[c]
    BY <1>7, <2>2
  <2>5. m \in FromServer => Append(toClient[c], m) \in Seq(FromServer)
    BY <2>1
  <2>6. QED
    BY <2>1, <2>3, <2>4, <2>5
<1>11. toClient' \in [Clients -> Seq(FromServer)]
  BY <1>7, <1>10
<1>12. Sent(toServer', toClient')
  BY <1>2, <1>7, <1>11 DEF Sent
<1>13. QED
  BY <1>7, <1>8, <1>12, StepStays

-----------------------------------------------------------------------------
(* The invariant. *)

\* The invariant holds at first.
LEMMA InitHolds ==
  ASSUME Init
  PROVE  IInv
<1> DEFINE
      first(i) == [Fresh(Start, Core(IF i = Server THEN 0 ELSE Unsynced)) EXCEPT
                     !.have_local = TRUE, !.have_real = IF i = Server THEN {Server} ELSE {}]
      empty == Fresh(Unused, Core(Unsynced))
      new(i) ==
        [ playing     |-> i = Server,      players |-> {Server},
          self        |-> Start,           run     |-> Start,
          other       |-> Start,           server  |-> Start,
          read        |-> [c \in Peers |-> IF i = Server /\ c = i THEN Start + 1 ELSE Start],
          stall       |-> "none",          stall_frame |-> 0,
          stall_sent  |-> [c \in Clients |-> 0],
          latency     |-> 0,               timed   |-> FALSE,
          force_rewind |-> FALSE,          force_send |-> i = Server,
          asked       |-> FALSE,           outstanding |-> FALSE,
          ring        |-> [k \in 1..BufferSize(i) |->
                             IF k = (Start % BufferSize(i)) + 1 THEN first(i) ELSE empty],
          core        |-> first(i).state,
          loads       |-> 0,
          polling     |-> TRUE,            connected |-> TRUE ]
<1>1. peer = [i \in Peers |-> new(i)]
  BY DEF Init
<1>2. /\ toServer = [c \in Clients |-> <<>>]
      /\ toClient = [c \in Clients |-> <<InputMsg(Start, Server, Zero)>>]
  BY DEF Init
<1>3. /\ Start \in Frames /\ Start + 1 \in Counts /\ Start \in Counts /\ Start \in Int /\ Start < MaxFrame
      /\ 0 \in Frames /\ StallTime \in Nat /\ MaxLoads \in Nat /\ 0 \in 0..StallTime /\ 0 \in 0..MaxLoads
  BY NetplayAssumption DEF Frames, Counts
<1>4. Server \in Peers
  BY ClientsArePeers
<1>5. \A i : Core(IF i = Server THEN 0 ELSE Unsynced) \in Cores /\ Core(Unsynced) \in Cores
  <2>1. {0, Unsynced} \subseteq Unsynced..MaxLoads
    BY <1>3 DEF Unsynced
  <2>2. << >> \in Seq(Boards)
    OBVIOUS
  <2>3. \A n \in Unsynced..MaxLoads : Core(n) \in Cores
    BY <2>2 DEF Core, Cores
  <2>4. QED
    BY <2>1, <2>3
<1>6. [c \in Peers |-> Zero] \in Boards
  BY DEF Boards, Zero
<1>7. empty \in Deltas /\ empty.have_local = FALSE
  BY <1>5, <1>6 DEF Fresh, Deltas
<1>8. ASSUME NEW i \in Peers
      PROVE  first(i) \in Deltas /\ first(i).frame = Start
  <2>1. PICK s : s = Core(IF i = Server THEN 0 ELSE Unsynced)
    OBVIOUS
  <2>2. PICK h : h = IF i = Server THEN {Server} ELSE {}
    OBVIOUS
  <2>3. s \in Cores /\ h \in SUBSET Peers
    BY <1>4, <1>5, <2>1, <2>2
  <2>4. first(i) = [Fresh(Start, s) EXCEPT !.have_local = TRUE, !.have_real = h]
    BY <2>1, <2>2
  <2>5. QED
    BY <1>3, <1>6, <2>3, <2>4 DEF Fresh, Deltas
<1> HIDE DEF first, empty
<1>9. ASSUME NEW i \in Peers
      PROVE  PeerInv(i, new(i))
  <2>1. PICK p : p = new(i)
    OBVIOUS
  <2>2. PICK rd : rd = [c \in Peers |-> IF i = Server /\ c = i THEN Start + 1 ELSE Start]
    OBVIOUS
  <2>3. PICK ring : ring = [k \in 1..BufferSize(i) |->
                             IF k = (Start % BufferSize(i)) + 1 THEN first(i) ELSE empty]
    OBVIOUS
  <2>4. rd \in [Peers -> Counts] /\ ring \in [1..BufferSize(i) -> Deltas]
    BY <1>3, <1>7, <1>8, <2>2, <2>3
  <2>5. first(i).state \in Cores
    BY <1>8, DeltaTypes
  <2>6. [c \in Clients |-> 0] \in [Clients -> Frames] /\ {Server} \in SUBSET Peers /\ (i = Server) \in BOOLEAN
    BY <1>3, <1>4
  <2>7. p = [ playing     |-> i = Server,      players |-> {Server},
              self        |-> Start,           run     |-> Start,
              other       |-> Start,           server  |-> Start,
              read        |-> rd,
              stall       |-> "none",          stall_frame |-> 0,
              stall_sent  |-> [c \in Clients |-> 0],
              latency     |-> 0,               timed   |-> FALSE,
              force_rewind |-> FALSE,          force_send |-> i = Server,
              asked       |-> FALSE,           outstanding |-> FALSE,
              ring        |-> ring,
              core        |-> first(i).state,
              loads       |-> 0,
              polling     |-> TRUE,            connected |-> TRUE ]
    BY <2>1, <2>2, <2>3
  <2>8. p \in Netplays(i)
    BY <1>3, <2>4, <2>5, <2>6, <2>7 DEF Netplays
  <2> HIDE DEF new
  <2>9. /\ p.playing = (i = Server) /\ p.players = {Server} /\ p.self = Start /\ p.run = Start
        /\ p.other = Start /\ p.server = Start /\ p.read = rd /\ ~p.force_rewind
        /\ p.force_send = (i = Server) /\ p.ring = ring /\ p.core = first(i).state
        /\ p.polling /\ p.connected
    BY <2>7
  <2>10. rd[Server] = IF i = Server THEN Start + 1 ELSE Start
    BY <1>4, <2>2
  <2>11. Counted(i, p)
    <3>1. p.read[Server] \in Int /\ Start <= p.read[Server]
      BY <1>3, <2>9, <2>10
    <3>2. \A c \in p.players : p.other <= p.read[c]
      BY <2>9, <3>1
    <3>3. i # Server => p.other <= p.server /\ p.server <= p.read[Server] /\ ~p.force_send
      <4>1. p.other <= p.server /\ p.server <= p.read[Server]
        BY <1>3, <2>9, <3>1
      <4>2. i # Server => ~p.force_send
        BY <2>9
      <4>3. QED
        BY <4>1, <4>2
    <3>4. /\ Server \in p.players /\ p.run <= p.self /\ p.other <= p.run + 1 /\ p.other <= p.run
          /\ p.self < MaxFrame /\ p.polling
      BY <1>3, <2>9
    <3>5. QED
      BY <3>2, <3>3, <3>4 DEF Counted
  <2>12. At(i, p, Start) = first(i)
    <3>1. Place(i, Start) \in 1..BufferSize(i) /\ Place(i, Start) = (Start % BufferSize(i)) + 1
      BY <1>3, PlaceIs DEF Place
    <3>2. QED
      BY <2>3, <2>9, <3>1 DEF At
  <2>13. ASSUME i = Server PROVE Serving(p)
    <3>1. ASSUME NEW k \in DOMAIN p.ring, p.ring[k].have_local
          PROVE  p.ring[k].frame < p.read[Server]
      <4>1. k \in 1..BufferSize(i) /\ p.ring[k] = ring[k]
        BY <2>4, <2>9, <3>1
      <4>2. p.ring[k] = first(i)
        BY <1>7, <2>3, <3>1, <4>1
      <4>3. QED
        BY <1>3, <1>8, <2>9, <2>10, <2>13, <4>2
    <3>2. p.playing /\ ~p.force_rewind
      BY <2>9, <2>13
    <3>3. p.read[Server] = Start + 1 /\ p.self = Start /\ p.run = Start /\ p.other = Start
      BY <2>9, <2>10, <2>13
    <3>4. QED
      BY <1>3, <3>1, <3>2, <3>3 DEF Serving
  <2>14. Held(i, p)
    <3>1. SUFFICES ASSUME NEW f \in Int, Start <= f, Reached(p, f) PROVE f = Start
      BY <1>8, <2>9, <2>12 DEF Held
    <3>2. f < Start \/ f = Start \/ f < rd[Server]
      BY <2>9, <3>1 DEF Reached
    <3>3. QED
      BY <1>3, <2>10, <3>1, <3>2
  <2>15. Linked(i, p)
    <3>1. Start..Start - 1 = {}
      BY <1>3
    <3>2. QED
      BY <2>9, <3>1 DEF Linked
  <2>16. Begun(i, p)
    BY <2>9, <2>12 DEF Begun
  <2>17. PeerInv(i, p)
    BY <2>8, <2>11, <2>13, <2>14, <2>15, <2>16 DEF PeerInv
  <2>18. QED
    BY <2>1, <2>17
<1> HIDE DEF new
<1>10. \A i \in Peers : PeerInv(i, peer[i]) /\ peer[i] \in Netplays(i) /\ Server \in peer[i].players
  <2>1. \A i \in Peers : PeerInv(i, peer[i])
    BY <1>1, <1>9
  <2>2. QED
    BY <2>1 DEF PeerInv, Counted
<1>11. peer = [i \in Peers |-> peer[i]]
  <2>1. \A i \in Peers : new(i) \in Netplays(i)
    BY <1>9 DEF PeerInv
  <2>2. QED
    BY <1>1, <2>1
<1>12. Sent(toServer, toClient)
  <2>1. \A S : << >> \in Seq(S)
    BY EmptySeq
  <2>2. PICK m : m = InputMsg(Start, Server, Zero)
    OBVIOUS
  <2>3. m \in FromServer
    <3>1. Zero \in SUBSET Buttons
      BY DEF Zero
    <3>2. m \in InputOf(Peers)
      BY <1>3, <1>4, <2>2, <3>1, InputMsgs
    <3>3. QED
      BY <3>2, FromTypes
  <2>4. <<m>> \in Seq(FromServer)
    BY <2>3
  <2>5. toClient = [c \in Clients |-> <<m>>]
    BY <1>2, <2>2
  <2>6. QED
    BY <1>2, <2>1, <2>4, <2>5 DEF Sent
<1>13. QED
  BY <1>10, <1>11, <1>12 DEF IInv, TypeOK, Sent

\* IInv is inductive.
LEMMA NextKeeps ==
  ASSUME IInv, [Next]_vars
  PROVE  IInv'
<1>1. ASSUME NEW i \in Peers, FrameBegins(i) PROVE IInv'
  BY <1>1, FrameBeginsStays
<1>2. ASSUME NEW i \in Peers, FrameEnds(i) PROVE IInv'
  BY <1>2, FrameEndsStays
<1>3. ASSUME NEW c \in Clients, ServerReceives(c) PROVE IInv'
  BY <1>3, ServerReceivesInputStays, ServerReceivesPlayStays, ServerReceivesRequestStays DEF ServerReceives
<1>4. ASSUME NEW c \in Clients, ClientReceives(c) PROVE IInv'
  BY <1>4, ClientReceivesInputStays, ClientReceivesModeStays, ClientReceivesSavestateStays,
     ClientReceivesStallStays DEF ClientReceives
<1>5. ASSUME NEW c \in Clients, AsksToPlay(c) PROVE IInv'
  BY <1>5, AsksToPlayStays
<1>6. ASSUME NEW c \in Clients, RequestsSavestate(c) PROVE IInv'
  BY <1>6, RequestsSavestateStays
<1>7. ASSUME HostLoads PROVE IInv'
  BY <1>7, HostLoadsKeeps
<1>8. ASSUME UNCHANGED vars PROVE IInv'
  <2>1. peer' = peer /\ toServer' = toServer /\ toClient' = toClient
    BY <1>8 DEF vars
  <2>2. QED
    BY <2>1, PeersAre, NoStep
<1>9. QED
  BY <1>1, <1>2, <1>3, <1>4, <1>5, <1>6, <1>7, <1>8 DEF Next

\* The invariant holds in every game, whatever the peers press and in whatever order
\* what is sent arrives between the frames (netplay_frontend.c).
THEOREM Invariance == Spec => []IInv
<1>1. Init => IInv
  BY InitHolds
<1>2. IInv /\ [Next]_vars => IInv'
  BY NextKeeps
<1>3. QED
  BY <1>1, <1>2, PTL DEF Spec

\* netplay_t, its ring of delta frames and what the peers send keep their types: no
\* count passes the bound on the frames, no place lies outside the ring.
THEOREM TypeCorrect == Spec => []TypeOK
<1>1. IInv => TypeOK
  BY DEF IInv
<1>2. QED
  BY <1>1, Invariance, PTL

\* Each frame that a peer may have to run again (netplay_sync_input_post_frame) is
\* still in the ring, with the state that the frame before it left.
THEOREM AlwaysReplays == Spec => []ReplaysFromRing
<1>1. ASSUME IInv PROVE ReplaysFromRing
  <2>1. SUFFICES ASSUME NEW i \in Peers, NEW p, p = peer[i], ~p.force_rewind,
                        NEW f \in p.other..p.run - 1
                 PROVE  /\ Delta(p, f).frame = f
                        /\ CoreRun(Delta(p, f).state, Delta(p, f).resolved)
                             = IF f + 1 = p.run THEN p.core ELSE Delta(p, f + 1).state
    BY DEF ReplaysFromRing
  <2>2. PeerInv(i, p) /\ p \in Netplays(i)
    BY <1>1, <2>1, PeersAre
  <2>3. p.other \in Int /\ p.run \in Int
    BY <2>2, PeerTypes, FramesInt
  <2>4. f \in Int /\ f + 1 \in Int /\ p.other <= f /\ f < p.run
    BY <2>1, <2>3
  <2>5. Delta(p, f) = At(i, p, f) /\ Delta(p, f + 1) = At(i, p, f + 1)
    BY <2>2, <2>4, RingPlace
  <2>6. At(i, p, f).frame = f
    BY <2>1, <2>2, <2>4, RunIsHeld DEF PeerInv
  <2>7. CoreRun(At(i, p, f).state, At(i, p, f).resolved)
          = IF f + 1 = p.run THEN p.core ELSE At(i, p, f + 1).state
    BY <2>1, <2>2 DEF PeerInv, Linked
  <2>8. QED
    BY <2>5, <2>6, <2>7
<1>2. QED
  BY <1>1, Invariance, PTL
=============================================================================
