------------------------------ MODULE Netplay ------------------------------
(***************************************************************************)
(* network/netplay/netplay_frontend.c: the peers of a game exchange their  *)
(* inputs frame by frame.  A peer runs ahead of the others' inputs, which  *)
(* it guesses, and runs frames again when a guess was wrong.               *)
(*                                                                         *)
(* Of the names of the code, X_frame_count is X here; an index X_ptr into  *)
(* the ring of delta frames always goes with its X_frame_count, and is its *)
(* count modulo the size of the ring.  unread_frame_count is written       *)
(* before each use and is an operator.  Connections keep the order of what *)
(* is sent.  Every player has a device of its own.                         *)
(*                                                                         *)
(* A frame of the run loop is FrameBegins, any number of Receive actions,  *)
(* and FrameEnds: peers only meet in the messages, which come whenever     *)
(* they come.                                                              *)
(***************************************************************************)
EXTENDS Integers, Sequences, FiniteSetsExt

CONSTANTS
  Clients,       \* numbers from 1
  MaxStall,      \* NETPLAY_MAX_STALL_FRAMES
  Ahead,         \* 3, by how much a client is ahead that is asked to stall
  StallPause,    \* NETPLAY_MAX_REQ_STALL_FREQUENCY
  StallTime,     \* NETPLAY_MAX_REQ_STALL_TIME
  LatencyMin, LatencyMax,
  Inputs,        \* the inputs of a device, sets of buttons
  Directions,    \* the buttons that are not copied when a guess is repeated
  Start,         \* the frame at which the clients connect
  PressFrames,   \* bound: frames in which something is pressed
  JoinBefore,    \* bound: a client asks to play before this frame
  LoadBefore,    \* bound: the server sends savestates before this frame
  MaxLoads,      \* bound on the savestates that are sent
  MaxFrame       \* bound on the frames

Server   == 0
Peers    == {Server} \cup Clients
Zero     == {}
Unused   == -1
Unsynced == -1

ASSUME NetplayAssumption ==
  /\ Clients \subseteq Nat \ {Server} /\ IsFiniteSet(Clients)
  /\ Zero \in Inputs
  /\ {MaxStall, Ahead, StallPause, StallTime, LatencyMin, LatencyMax, MaxLoads} \subseteq Nat
  /\ MaxFrame \in Nat /\ Start \in 1..(MaxFrame - 1)

VARIABLES
  peer,      \* netplay_t and, within, the ring of delta frames
  toServer,  \* per client: what it has sent to the server
  toClient   \* per client: what the server has sent to it

vars == <<peer, toServer, toClient>>

\* A delta frame.  Its state is what it was when the frame began.
Fresh(f, state) ==
  [ frame     |-> f,      have_local |-> FALSE,
    have_real |-> {},     real       |-> [c \in Peers |-> Zero],
    sim       |-> [c \in Peers |-> Zero],
    resolved  |-> [c \in Peers |-> Zero],
    state     |-> state ]

\* What a core is that does the same with the same inputs: where it started
\* from, and the inputs since.
Core(load)         == [load |-> load, inputs |-> <<>>]
CoreRun(core, res) == [core EXCEPT !.inputs = Append(@, res)]

BufferSize(i) == IF i = Server THEN 2 * (MaxStall + 2) ELSE MaxStall + 2

Ptr(p, f)   == (f % Len(p.ring)) + 1
Delta(p, f) == p.ring[Ptr(p, f)]

InputMsg(f, c, v)     == [type |-> "input", frame |-> f, client |-> c, input |-> v]
SavestateMsg(f, core) == [type |-> "savestate", frame |-> f, state |-> core]
ModeMsg(f, c)         == [type |-> "mode", frame |-> f, client |-> c]
StallMsg(n)           == [type |-> "stall", frames |-> n]
PlayMsg               == [type |-> "play"]
RequestMsg            == [type |-> "request"]

\* The server has sent the sync, and its input of the frame it is in, to clients
\* that have come to be spectators of it.
Init ==
  LET first(i) == [Fresh(Start, Core(IF i = Server THEN 0 ELSE Unsynced)) EXCEPT
                     !.have_local = TRUE, !.have_real = IF i = Server THEN {Server} ELSE {}]
      new(i) ==
        [ playing     |-> i = Server,      players |-> {Server},
          self        |-> Start,           run     |-> Start,
          other       |-> Start,           server  |-> Start,
          read        |-> [c \in Peers |-> IF i = Server /\ c = i THEN Start + 1 ELSE Start],
          stall       |-> "none",          stall_frame |-> 0,
          stall_sent  |-> [c \in Clients |-> 0],
          latency     |-> 0,               timed   |-> FALSE,
          force_rewind |-> FALSE,          force_send |-> i = Server,
          asked       |-> FALSE,           outstanding |-> FALSE,
          ring        |-> [k \in 1..BufferSize(i) |->
                             IF k = (Start % BufferSize(i)) + 1 THEN first(i)
                             ELSE Fresh(Unused, Core(Unsynced))],
          core        |-> first(i).state,
          loads       |-> 0,
          polling     |-> TRUE,            connected |-> TRUE ]
  IN /\ peer = [i \in Peers |-> new(i)]
     /\ toServer = [c \in Clients |-> <<>>]
     /\ toClient = [c \in Clients |-> <<InputMsg(Start, Server, Zero)>>]
-----------------------------------------------------------------------------
(* The ring of delta frames. *)

\* netplay_delta_frame_ready says yes: the place has this frame already, or one
\* that is not needed any more.
Ready(p, f) == Delta(p, f).frame = f \/ Delta(p, f).frame < p.other

\* ... and what it does then.
netplay_delta_frame_ready(p, f) ==
  IF Delta(p, f).frame = f THEN p
  ELSE [p EXCEPT !.ring[Ptr(p, f)] = Fresh(f, @.state)]

\* The input of a player is there.
Given(d, c, v) == [d EXCEPT !.have_real = @ \cup {c}, !.real[c] = v]

\* The frame whose input is not there yet from every player.
netplay_update_unread_ptr(i, p) ==
  IF i = Server /\ p.players = {Server} THEN p.self
  ELSE Min({ p.read[c] : c \in p.players } \cup IF i = Server THEN {} ELSE {p.server})

\* Mutant: the input that came is used only when a frame is run again.
ResolveLatest(p, d, resim) ==
  LET last(c) == Delta(p, p.read[c] - 1).real[c]
      guess   == [c \in Peers |-> IF c \in p.players /\ p.read[c] <= d.frame THEN last(c) ELSE Zero]
  IN [d EXCEPT !.sim      = guess,
               !.resolved = [c \in Peers |-> IF resim /\ c \in d.have_real THEN d.real[c]
                                             ELSE guess[c]]]

\* The input of a delta frame: real if it is there, nothing if it is not to come,
\* else a guess, the last real one.  Repeating a guess keeps the directions.
netplay_resolve_input(p, d, resim) ==
  LET last(c)    == Delta(p, p.read[c] - 1)
      guessed(c) == /\ c \in p.players \ d.have_real
                    /\ p.read[c] <= d.frame
                    /\ c \in last(c).have_real
      guess(c)   == IF resim THEN (d.sim[c] \cap Directions) \cup (last(c).real[c] \ Directions)
                    ELSE last(c).real[c]
  IN [d EXCEPT !.sim      = [c \in Peers |-> IF guessed(c) THEN guess(c) ELSE @[c]],
               !.resolved = [c \in Peers |-> IF c \in d.have_real THEN d.real[c]
                                             ELSE IF guessed(c) THEN guess(c)
                                             ELSE Zero]]

\* All input up to now is ignored.  Only the server does it here.
netplay_force_future(p) ==
  [p EXCEPT !.run   = p.self,
            !.read  = [c \in Peers |-> IF c \in p.players THEN Max({@[c], p.self}) ELSE @[c]],
            !.other = Max({@, p.self})]

\* The state that is sent is called by a number of its own.
netplay_load_savestate(p) ==
  LET q == netplay_force_future(p)
  IN [q EXCEPT !.loads = @ + 1,
               !.core  = Core(p.loads + 1),
               !.ring[Ptr(q, q.run)].state = Core(p.loads + 1)]
-----------------------------------------------------------------------------
(* A frame begins. *)

\* netplay_hangup, after which this peer plays no more; the model ends there.
Hangup(i) == peer' = [peer EXCEPT ![i].connected = FALSE, ![i].polling = FALSE]

Going(i) == peer[i].connected /\ peer[i].self < MaxFrame

\* Mutant: a frame that is there already keeps its state.
SavedOnce(p) ==
  IF Ready(p, p.run) /\ Delta(p, p.run).frame # p.run
  THEN LET q == netplay_delta_frame_ready(p, p.run)
       IN [q EXCEPT !.ring[Ptr(q, q.run)].state = q.core]
  ELSE p

\* netplay_sync_pre_frame: the state is saved in the frame that is to be run, and
\* sent if it was asked for.
Saved(p) ==
  IF Ready(p, p.run)
  THEN LET q == netplay_delta_frame_ready(p, p.run)
       IN [q EXCEPT !.ring[Ptr(q, q.run)].state = q.core]
  ELSE p

MayLoad(p) == p.loads < MaxLoads /\ p.self < LoadBefore

SendsState(p) == Ready(p, p.run) /\ p.force_send /\ p.stall = "none" /\ MayLoad(p)

netplay_sync_pre_frame(p) ==
  IF SendsState(p)
  THEN [netplay_load_savestate(Saved(p)) EXCEPT !.force_send = FALSE]
  ELSE Saved(p)

\* The input of this frame has been taken.
HaveLocal(p) == Delta(p, p.self).frame = p.self /\ Delta(p, p.self).have_local

\* get_self_input_state, when the frame is ready: the input is taken once, unless
\* this peer only watches.
get_self_input_state(i, p, v) ==
  LET q == netplay_delta_frame_ready(p, p.self)
  IN IF HaveLocal(p) THEN p
     ELSE IF ~q.playing THEN [q EXCEPT !.ring[Ptr(q, q.self)].have_local = TRUE]
     ELSE [q EXCEPT !.ring[Ptr(q, q.self)] = [Given(@, i, v) EXCEPT !.have_local = TRUE],
                    !.read[i] = q.self + 1]

\* netplay_send_cur_input: the server adds what it has of the other players.
CurInput(p, i, to) ==
  LET d      == Delta(p, p.self)
      others == IF i = Server THEN (d.have_real \cap p.players) \ {Server, to} ELSE {}
  IN [k \in 1..Cardinality(others) |->
        LET c == CHOOSE c \in others : Cardinality({ b \in others : b <= c }) = k
        IN InputMsg(p.self, c, d.real[c])]
     \o IF p.playing THEN <<InputMsg(p.self, i, d.real[i])>> ELSE <<>>

FrameBegins(i) ==
  LET p     == netplay_sync_pre_frame(peer[i])
      state == IF SendsState(peer[i]) THEN <<SavestateMsg(p.run, p.core)>> ELSE <<>>
  IN /\ Going(i) /\ ~peer[i].polling
     /\ IF ~Ready(p, p.self)
        THEN Hangup(i) /\ UNCHANGED <<toServer, toClient>>
        ELSE \E v \in IF p.self \in PressFrames /\ p.playing THEN Inputs ELSE {Zero} :
          LET q         == get_self_input_state(i, p, v)
              input(to) == IF HaveLocal(p) THEN <<>> ELSE CurInput(q, i, to)
          IN /\ peer' = [peer EXCEPT ![i] = [q EXCEPT !.polling = TRUE]]
             /\ IF i = Server
                THEN /\ toClient' = [c \in Clients |-> toClient[c] \o state \o input(c)]
                     /\ UNCHANGED toServer
                ELSE /\ toServer' = [toServer EXCEPT ![i] = @ \o input(Server)]
                     /\ UNCHANGED toClient
-----------------------------------------------------------------------------
(* netplay_get_cmd *)

\* A message stays where it is until there is room in the ring for its frame.
Fits(p, m) ==
  /\ m.type = "input" /\ m.client \in p.players /\ m.frame = p.read[m.client] => Ready(p, m.frame)
  /\ m.type = "savestate" /\ m.frame = p.server => Ready(p, m.frame)

ServerTakes(c) ==
  /\ peer[Server].connected /\ peer[Server].polling
  /\ toServer[c] # <<>> /\ Fits(peer[Server], Head(toServer[c]))
  /\ toServer' = [toServer EXCEPT ![c] = Tail(@)]

ClientTakes(i) ==
  /\ peer[i].connected /\ peer[i].polling
  /\ toClient[i] # <<>> /\ Fits(peer[i], Head(toClient[i]))
  /\ toClient' = [toClient EXCEPT ![i] = Tail(@)]

\* An input that is in order is written into its frame.
Written(p, m) ==
  LET q == netplay_delta_frame_ready(p, m.frame)
  IN [q EXCEPT !.ring[Ptr(q, m.frame)] = Given(@, m.client, m.input),
               !.read[m.client] = @ + 1]

ClientReceivesInput(i) ==
  /\ ClientTakes(i) /\ Head(toClient[i]).type = "input"
  /\ LET p == peer[i]
         m == Head(toClient[i])
     IN \/ /\ m.client \in p.players /\ m.frame < p.read[m.client]
           /\ UNCHANGED peer
        \/ /\ m.client \in p.players /\ m.frame = p.read[m.client]
           /\ peer' = [peer EXCEPT ![i] =
                [Written(p, m) EXCEPT !.server = IF m.client = Server THEN m.frame + 1 ELSE @]]
        \/ /\ m.client \notin p.players \/ m.frame > p.read[m.client]
           /\ Hangup(i)
  /\ UNCHANGED toServer

\* The server sends on what is of a frame it has come to; what is of a later one
\* goes with its own input of that frame.
ServerReceivesInput(c) ==
  /\ ServerTakes(c) /\ Head(toServer[c]).type = "input"
  /\ LET p == peer[Server]
         m == Head(toServer[c])
     IN \/ /\ c \in p.players /\ m.frame < p.read[c]
           /\ UNCHANGED <<peer, toClient>>
        \/ /\ c \in p.players /\ m.frame = p.read[c]
           /\ peer' = [peer EXCEPT ![Server] = Written(p, m)]
           /\ toClient' = [b \in Clients |->
                IF b # c /\ m.frame <= p.self THEN Append(toClient[b], m) ELSE toClient[b]]
        \/ /\ c \notin p.players \/ m.frame > p.read[c]
           /\ Hangup(Server) /\ UNCHANGED toClient

\* Mutant: the client starts at the frame whose input has been sent.
ServerReceivesPlayNow(c) ==
  /\ ServerTakes(c) /\ Head(toServer[c]).type = "play"
  /\ LET frame == peer[Server].self
     IN /\ peer' = [peer EXCEPT ![Server].players = @ \cup {c}, ![Server].read[c] = frame]
        /\ toClient' = [b \in Clients |-> Append(toClient[b], ModeMsg(frame, c))]

\* netplay_handle_play_spectate: the client starts at the next frame.
ServerReceivesPlay(c) ==
  /\ ServerTakes(c) /\ Head(toServer[c]).type = "play"
  /\ LET frame == peer[Server].self + 1
     IN /\ peer' = [peer EXCEPT ![Server].players = @ \cup {c}, ![Server].read[c] = frame]
        /\ toClient' = [b \in Clients |-> Append(toClient[b], ModeMsg(frame, c))]

ServerReceivesRequest(c) ==
  /\ ServerTakes(c) /\ Head(toServer[c]).type = "request"
  /\ peer' = [peer EXCEPT ![Server].force_send = TRUE]
  /\ UNCHANGED toClient

\* NETPLAY_CMD_MODE: somebody plays from this frame on.
Joined(p, c) ==
  [p EXCEPT !.players = @ \cup {c}, !.read[c] = p.server,
            !.force_rewind = @ \/ p.server < p.self]

\* It is me, and frames I have begun: I send nothing for them.
GivesPast(i, p) ==
  LET past == p.server..p.self
  IN [p EXCEPT !.ring = [k \in DOMAIN @ |->
        IF \E f \in past : Ptr(p, f) = k
        THEN [Given(@[k], i, Zero) EXCEPT !.have_local = TRUE]
        ELSE @[k]]]

\* It is me, and frames to come: those before are not to be sent.
SkipsToFuture(p, frame) ==
  LET skipped == { Ptr(p, f) : f \in p.self..frame - 1 }
      used(k) == p.ring[k].frame # Unused
      f(k)    == CHOOSE g \in p.self..frame - 1 : Ptr(p, g) = k
  IN [p EXCEPT !.ring = [k \in DOMAIN @ |->
        IF k \notin skipped THEN @[k]
        ELSE [(IF used(k) THEN @[k] ELSE Fresh(f(k), @[k].state)) EXCEPT !.have_local = TRUE]]]

ClientReceivesMode(i) ==
  /\ ClientTakes(i) /\ Head(toClient[i]).type = "mode"
  /\ LET m == Head(toClient[i])
         p == [Joined(peer[i], m.client) EXCEPT !.playing = @ \/ m.client = i]
     IN \/ m.frame # p.server /\ Hangup(i) /\ UNCHANGED toServer
        \/ /\ m.frame = p.server /\ m.client # i
           /\ peer' = [peer EXCEPT ![i] = p]
           /\ UNCHANGED toServer
        \/ /\ m.frame = p.server /\ m.client = i /\ m.frame <= p.self
           /\ peer' = [peer EXCEPT ![i] = GivesPast(i, p)]
           /\ toServer' = [toServer EXCEPT ![i] =
                @ \o [k \in 1..p.self - m.frame + 1 |-> InputMsg(m.frame + k - 1, i, Zero)]]
        \/ /\ m.frame = p.server /\ m.client = i /\ m.frame > p.self
           /\ peer' = [peer EXCEPT ![i] = SkipsToFuture(p, m.frame)]
           /\ UNCHANGED toServer

\* NETPLAY_CMD_LOAD_SAVESTATE
Loads(p, m) ==
  LET q == netplay_delta_frame_ready(p, m.frame)
  IN [q EXCEPT !.ring[Ptr(q, m.frame)].state = m.state,
               !.force_rewind = TRUE,
               !.run   = IF m.frame > q.run THEN m.frame - 1 ELSE @,
               !.self  = IF m.frame > q.run /\ m.frame > q.self THEN m.frame - 1 ELSE @,
               !.read  = [c \in Peers |-> IF c \in q.players THEN Max({@[c], m.frame}) ELSE @[c]],
               !.other = m.frame,
               !.outstanding = FALSE]

ClientReceivesSavestate(i) ==
  /\ ClientTakes(i) /\ Head(toClient[i]).type = "savestate"
  /\ LET p == peer[i]
         m == Head(toClient[i])
     IN \/ m.frame # p.server /\ Hangup(i)
        \/ /\ m.frame = p.server
           /\ peer' = [peer EXCEPT ![i] = Loads(p, m)]
  /\ UNCHANGED toServer

ClientReceivesStall(i) ==
  /\ ClientTakes(i) /\ Head(toClient[i]).type = "stall"
  /\ peer' = IF peer[i].stall = "none"
             THEN [peer EXCEPT ![i].stall = "server",
                               ![i].stall_frame = Min({Head(toClient[i]).frames, StallTime})]
             ELSE peer
  /\ UNCHANGED toServer
-----------------------------------------------------------------------------
(* A frame ends. *)

\* How many frames of latency hide the network: how long it takes to run a frame
\* again, once that has been measured, is any time.
Latencies(i, p) ==
  LET ahead == p.run > netplay_update_unread_ptr(i, p)
  IN CASE ~p.timed -> {p.latency}
       [] p.timed /\ p.latency < LatencyMin -> {p.latency + 1}
       [] p.timed /\ p.latency > LatencyMax -> {p.latency - 1}
       [] OTHER -> {p.latency}
            \cup (IF ahead /\ p.latency < LatencyMax THEN {p.latency + 1} ELSE {})
            \cup (IF p.latency > LatencyMin THEN {p.latency - 1} ELSE {})

\* Mutant: one poll more than was asked for.
UnstalledLate(i, p) ==
  LET over == CASE p.stall = "server" -> p.stall_frame < 0
                [] p.stall = "fast"   -> netplay_update_unread_ptr(i, p) + MaxStall - 2 > p.self
                [] OTHER              -> p.stall # "none"
  IN [p EXCEPT !.stall       = IF over THEN "none" ELSE @,
               !.stall_frame = IF p.stall = "server" /\ ~over THEN @ - 1 ELSE @]

\* Mutant: it goes on only when the others are ahead.
UnstalledByAll(i, p) ==
  LET over == p.stall # "none" /\ netplay_update_unread_ptr(i, p) > p.self + MaxStall
  IN [p EXCEPT !.stall = IF over THEN "none" ELSE @]

Unstalled(i, p) ==
  LET unread == netplay_update_unread_ptr(i, p)
      over   == CASE p.stall = "fast"      -> unread + MaxStall - 2 > p.self
                  [] p.stall = "spectator" -> p.playing \/ unread > p.self
                  [] p.stall = "latency"   -> TRUE
                  [] p.stall = "server"    -> p.stall_frame = 0
                  [] OTHER                 -> FALSE
  IN [p EXCEPT !.stall       = IF over THEN "none" ELSE @,
               !.stall_frame = IF p.stall = "server" /\ ~over THEN @ - 1 ELSE @]

Stalled(i, p) ==
  LET unread == netplay_update_unread_ptr(i, p)
  IN [p EXCEPT !.stall =
        CASE @ # "none" -> @
          [] @ = "none" /\ ~p.playing /\ unread <= p.self -> "spectator"
          [] @ = "none" /\ p.playing /\ p.run + p.latency > p.self -> "latency"
          [] @ = "none" /\ (p.playing => p.run + p.latency <= p.self)
               /\ unread <= p.self - MaxStall -> "fast"
          [] OTHER -> "none"]

\* The rest of netplay_poll.
netplay_poll(i, p) ==
  LET q == [p EXCEPT !.ring[Ptr(p, p.run)] = netplay_resolve_input(p, @, FALSE)]
  IN { Stalled(i, Unstalled(i, [q EXCEPT !.latency = n])) : n \in Latencies(i, q) }

\* netplay_sync_input_post_frame: the frame has been run, unless the peer stalls.
Advanced(p, stalled) ==
  LET run == IF stalled THEN p.run ELSE p.run + 1
  IN [p EXCEPT !.run  = run,
               !.self = IF (~stalled \/ p.stall = "latency") /\ @ < run + p.latency
                        THEN @ + 1 ELSE @]

\* The frames that have been run, from the first that was not certain, with the input
\* there is now.
Resolved(p) ==
  [f \in p.other..p.run - 1 |-> netplay_resolve_input(p, Delta(p, f), TRUE)]

\* The first of them in which that changes something: from there they are run again.
ReplayFrom(p, resolved) ==
  LET changed == { f \in DOMAIN resolved : resolved[f].resolved # Delta(p, f).resolved }
  IN CASE p.force_rewind \/ p.other >= p.run -> p.other
       [] ~p.force_rewind /\ changed # {} -> Min(changed)
       [] OTHER -> Max({p.other, p.run})

\* What the core is after the frames from a to the one before f.
RunFrom(core, deltas, a, f) ==
  [core EXCEPT !.inputs = @ \o [k \in 1..f - a |-> deltas[a + k - 1].resolved]]

\* The ring when they have been: each frame has the state it then began with.
Rerun(p, resolved, replay) ==
  LET frame(k) == CHOOSE f \in DOMAIN resolved : Ptr(p, f) = k
  IN [k \in DOMAIN p.ring |->
        IF \A f \in DOMAIN resolved : Ptr(p, f) # k THEN p.ring[k]
        ELSE [resolved[frame(k)] EXCEPT
                !.state = IF frame(k) < replay THEN @
                          ELSE RunFrom(Delta(p, replay).state, resolved, replay, frame(k))]]

Replayed(i, p) ==
  LET unread   == netplay_update_unread_ptr(i, p)
      resolved == Resolved(p)
      replay   == ReplayFrom(p, resolved)
      again    == p.force_rewind \/ replay < p.run
  IN [p EXCEPT !.ring  = Rerun(p, resolved, replay),
               !.core  = IF again
                         THEN RunFrom(Delta(p, replay).state, resolved, replay, Max({replay, p.run}))
                         ELSE @,
               !.other = IF again THEN Min({unread, p.run})
                         ELSE Max({@, Min({unread, p.run})}),
               !.timed = @ \/ replay < p.run,
               !.force_rewind = FALSE]

\* Clients that are too far ahead are asked to stall, if not all are.
AskedToStall(p) ==
  LET unread == netplay_update_unread_ptr(Server, p)
  IN IF p.self + Ahead < unread THEN {}
     ELSE { c \in p.players \ {Server} :
              p.self + Ahead < p.read[c] /\ p.stall_sent[c] + StallPause < p.self }

Alone(i, p) == i = Server /\ p.players = {Server}

Stalling(i, p) == p.stall # "none" /\ ~Alone(i, p)

\* The frame is run, unless the peer stalls, and what was run before on guesses again.
Ended(i, p) ==
  LET ran == IF Stalling(i, p) THEN p
             ELSE [p EXCEPT !.core = CoreRun(@, Delta(p, p.run).resolved)]
      q   == Advanced(ran, Stalling(i, p))
  IN IF Alone(i, q) THEN [q EXCEPT !.other = q.self] ELSE Replayed(i, q)

Asking(p, ask) ==
  [p EXCEPT !.stall_sent = [c \in Clients |-> IF c \in ask THEN p.self ELSE @[c]]]

FrameEnds(i) ==
  /\ peer[i].connected /\ peer[i].polling
  /\ \E p \in netplay_poll(i, peer[i]) :
       LET r   == Ended(i, p)
           ask == IF i = Server /\ ~Stalling(i, p) /\ ~Alone(i, r) THEN AskedToStall(r) ELSE {}
       IN /\ peer' = [peer EXCEPT ![i] = [Asking(r, ask) EXCEPT !.polling = FALSE]]
          /\ toClient' = [c \in Clients |->
                IF c \in ask THEN Append(toClient[c], StallMsg(r.read[c] - r.self + 1))
                ELSE toClient[c]]
          /\ UNCHANGED toServer
-----------------------------------------------------------------------------
(* What else may happen. *)

\* netplay_cmd_mode, when the client has read that it is connected, or later.
AsksToPlay(c) ==
  /\ Going(c) /\ peer[c].polling /\ ~peer[c].asked /\ peer[c].self < JoinBefore
  /\ peer' = [peer EXCEPT ![c].asked = TRUE]
  /\ toServer' = [toServer EXCEPT ![c] = Append(@, PlayMsg)]
  /\ UNCHANGED toClient

\* netplay_cmd_request_savestate, when it has read that somebody has joined or that
\* the server has another checksum.
RequestsSavestate(c) ==
  /\ Going(c) /\ peer[c].polling /\ peer[c].playing /\ ~peer[c].outstanding
  /\ MayLoad(peer[Server])
  /\ peer' = [peer EXCEPT ![c].outstanding = TRUE]
  /\ toServer' = [toServer EXCEPT ![c] = Append(@, RequestMsg)]
  /\ UNCHANGED toClient

\* The user of the server loads a state.  It is not sent if the frame has no place in
\* the ring.
HostLoads ==
  /\ Going(Server) /\ ~peer[Server].polling
  /\ MayLoad(peer[Server])
  /\ LET p == netplay_force_future(peer[Server])
         q == netplay_load_savestate(netplay_delta_frame_ready(p, p.self))
     IN IF Ready(p, p.self)
        THEN /\ peer' = [peer EXCEPT ![Server] = q]
             /\ toClient' = [c \in Clients |-> Append(toClient[c], SavestateMsg(q.run, q.core))]
        ELSE /\ peer' = [peer EXCEPT ![Server] =
                           [p EXCEPT !.loads = @ + 1, !.core = Core(p.loads + 1)]]
             /\ UNCHANGED toClient
  /\ UNCHANGED toServer

ServerReceives(c) ==
  ServerReceivesInput(c) \/ ServerReceivesPlay(c) \/ ServerReceivesRequest(c)

ClientReceives(c) ==
  \/ ClientReceivesInput(c) \/ ClientReceivesMode(c) \/ ClientReceivesSavestate(c)
  \/ ClientReceivesStall(c)

Next ==
  \/ \E i \in Peers : FrameBegins(i) \/ FrameEnds(i)
  \/ \E c \in Clients : \/ ServerReceives(c) \/ ClientReceives(c)
                        \/ AsksToPlay(c) \/ RequestsSavestate(c)
  \/ HostLoads

Spec == Init /\ [][Next]_vars

\* The run loop goes on: a frame that has begun ends, another begins.  Each frame
\* netplay_poll_net_input reads what has come: what is sent is read in some frame.
FairSpec ==
  /\ Spec
  /\ \A i \in Peers : []<>(~peer[i].polling) /\ []<>(peer[i].polling \/ ~Going(i))
  /\ \A c \in Clients : SF_toServer(ServerTakes(c)) /\ SF_toClient(ClientTakes(c))
-----------------------------------------------------------------------------
Buttons == UNION Inputs
Boards  == [Peers -> SUBSET Buttons]    \* what is pressed on each device
Frames  == 0..MaxFrame
Counts  == 0..(MaxFrame + 1)            \* frames, and the one behind the last
Cores   == [load : Unsynced..MaxLoads, inputs : Seq(Boards)]

Deltas ==
  [ frame : {Unused} \cup Frames, have_local : BOOLEAN, have_real : SUBSET Peers,
    real : Boards, sim : Boards, resolved : Boards, state : Cores ]

Netplays(i) ==
  [ playing : BOOLEAN,       players : SUBSET Peers,
    self : Frames,           run : Frames,
    other : Frames,          server : Counts,
    read : [Peers -> Counts],
    stall : {"none", "fast", "spectator", "latency", "server"}, stall_frame : 0..StallTime,
    stall_sent : [Clients -> Frames],
    latency : Nat,           timed : BOOLEAN,
    force_rewind : BOOLEAN,  force_send : BOOLEAN,
    asked : BOOLEAN,         outstanding : BOOLEAN,
    ring : [1..BufferSize(i) -> Deltas],
    core : Cores,            loads : 0..MaxLoads,
    polling : BOOLEAN,       connected : BOOLEAN ]

InputOf(C) == [type : {"input"}, frame : Frames, client : C, input : SUBSET Buttons]

FromClient(c) == InputOf({c}) \cup [type : {"play", "request"}]

FromServer ==
  InputOf(Peers)
    \cup [type : {"savestate"}, frame : Frames, state : Cores]
    \cup [type : {"mode"}, frame : Counts, client : Clients]
    \cup [type : {"stall"}, frames : Nat]

TypeOK ==
  /\ peer = [i \in Peers |-> peer[i]]
  /\ \A i \in Peers : peer[i] \in Netplays(i) /\ Server \in peer[i].players
  /\ toServer = [c \in Clients |-> toServer[c]]
  /\ \A c \in Clients : toServer[c] \in Seq(FromClient(c))
  /\ toClient \in [Clients -> Seq(FromServer)]

\* No peer finds the place of its frame in the ring taken, gets a message out of
\* order or runs out of room: a game that the network does not end goes on.
NobodyHangsUp == \A i \in Peers : peer[i].connected

\* Each frame that a peer may have to run again is still in the ring, with the
\* state that the frame before it left: however a guess turns out, there is a
\* frame to go back to, and running from it gives what the peer is at.
ReplaysFromRing ==
  \A i \in Peers :
    LET p == peer[i]
        after(f) == CoreRun(Delta(p, f).state, Delta(p, f).resolved)
    IN ~p.force_rewind =>
         \A f \in p.other..p.run - 1 :
           /\ Delta(p, f).frame = f
           /\ after(f) = IF f + 1 = p.run THEN p.core ELSE Delta(p, f + 1).state

\* A state that was sent is loaded into the frame it was sent for: peers that have
\* run on from the same state have loaded it into the same frame.
LoadedIntoItsFrame ==
  LET ranOn       == { i \in Peers : peer[i].core.load # Unsynced /\ peer[i].core.inputs # <<>> }
      loadedAt(i) == peer[i].run - Len(peer[i].core.inputs)
  IN \A i, j \in ranOn :
       peer[i].core.load = peer[j].core.load => loadedAt(i) = loadedAt(j)

\* The players do not wait for each other for ever: whoever stalls goes on.
GameGoesOn == \A i \in Peers : <>(peer[i].self = MaxFrame)

\* What a peer has run with inputs that are certain.
Confirmed(i) ==
  LET p == peer[i] IN IF p.other < p.run \/ p.force_rewind THEN Delta(p, p.other).state ELSE p.core

Game == INSTANCE Lockstep WITH seen <- [i \in Peers |-> Confirmed(i)]

\* All play the same game: the states that a peer will not go back behind are the
\* same for all.
ImplementsLockstep == Game!Spec
=============================================================================
