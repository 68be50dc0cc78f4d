---------------------------- MODULE VideoThread ----------------------------
(***************************************************************************)
(* gfx/video_thread_wrapper.c: the video driver in a thread of its own.    *)
(* The main thread (the user) gives it commands, waits for their replies,  *)
(* and gives it frames, for which it waits for a limited time or not at    *)
(* all.                                                                    *)
(*                                                                         *)
(* thr->lock protects the commands and `updated`; it is held while a frame *)
(* is copied into the buffer.  The thread reads the buffer under           *)
(* thr->frame.lock, which is the lock of the texture of the menu.  Each    *)
(* condition variable has one thread that ever waits for it: the user      *)
(* cond_cmd, the thread cond_thread.  What a thread does under a lock is   *)
(* one step unless it is long, that is a copy or a rendering.              *)
(***************************************************************************)
EXTENDS Integers

CONSTANTS
  Calls,      \* commands without a rule of their own, "alive" among them
  MaxFrames   \* bound on the frames that are made

Commands == Calls \cup {"init", "free", "read_viewport", "custom"}

ASSUME VideoThreadAssumption ==
  /\ MaxFrames \in Nat
  /\ "none" \notin Commands

VARIABLES
  send_cmd, reply_cmd, cmd_data,  \* thr->cmd_data by its type
  updated,        \* frame.updated
  within_thread,  \* frame.within_thread
  alive,          \* thr->alive
  nonblock,
  driver_data,    \* the driver has been made
  buffer,         \* the frame in frame.buffer
  texture,        \* texture.enable and texture.frame_updated
  count,          \* the frames made so far
  upc, cmd,       \* where the user is, and the command it has given
  tpc, pkt, upd,  \* where the thread is, and what it has read
  asleep,         \* those in scond_wait
  ran, shown      \* what the driver was last told to do, and what it showed

command == <<send_cmd, reply_cmd, cmd_data>>
user    == <<upc, cmd>>
thread  == <<tpc, pkt, upd>>
driver  == <<ran, shown>>
frame   == <<updated, buffer, count>>
flags   == <<within_thread, alive, nonblock, driver_data>>
vars    == <<command, user, thread, driver, frame, flags, texture, asleep>>

TypeOK ==
  /\ {send_cmd, reply_cmd, cmd_data, cmd, pkt} \subseteq Commands \cup {"none"}
  /\ {updated, within_thread, alive, nonblock, driver_data, upd} \subseteq BOOLEAN
  /\ {buffer, count, shown} \subseteq 0..MaxFrames
  /\ texture \in [enable : BOOLEAN, frame_updated : BOOLEAN]
  /\ upc \in {"init", "ready", "wait_reply", "frame_wait", "copy", "menu_wait", "idle_wait",
              "freeing", "texture", "direct", "join", "freed", "failed"}
  /\ tpc \in {"wait", "handle", "viewport", "reply", "frame", "render", "finish", "quit",
              "gone"}
  /\ asleep \subseteq {"user", "thread"}
  /\ "user" \in asleep => upc \in {"wait_reply", "frame_wait", "menu_wait", "idle_wait"}
  /\ "thread" \in asleep => tpc = "wait"
  /\ ran \in [command : Commands \cup {"none"}, odd : BOOLEAN]

\* video_thread_init, when the thread has been created.
Init ==
  /\ send_cmd = "none" /\ reply_cmd = "none" /\ cmd_data = "none"
  /\ updated = FALSE /\ within_thread = FALSE /\ alive = TRUE /\ nonblock = FALSE
  /\ driver_data = FALSE
  /\ buffer = 0 /\ count = 0
  /\ texture = [enable |-> FALSE, frame_updated |-> FALSE]
  /\ upc = "init" /\ cmd = "none"
  /\ tpc = "wait" /\ pkt = "none" /\ upd = FALSE
  /\ asleep = {}
  /\ ran = [command |-> "none", odd |-> FALSE] /\ shown = 0

\* The user holds thr->lock from one step to the next only for the copy, the
\* user and the thread frame.lock for the texture and for a rendering.
LockFree      == upc # "copy"
FrameLockFree == upc # "texture" /\ tpc # "render"
-----------------------------------------------------------------------------
(* Commands. *)

video_thread_send_packet(c) ==
  /\ LockFree
  /\ cmd_data' = c /\ send_cmd' = c /\ reply_cmd' = "none"
  /\ cmd' = c /\ upc' = "wait_reply"
  /\ asleep' = asleep \ {"thread"}

\* The first command, given by video_thread_init.
SendInit ==
  /\ upc = "init"
  /\ video_thread_send_packet("init")
  /\ UNCHANGED <<thread, driver, frame, flags, texture>>

\* video_thread_set_shader, set_rotation, read_viewport, the poke and overlay
\* interfaces, video_thread_alive while the run loop is paused,
\* video_thread_texture_handle of a driver that is alive; video_thread_free.
Send(c) ==
  /\ upc = "ready"
  /\ c = "custom" => alive
  /\ video_thread_send_packet(c)
  /\ UNCHANGED <<thread, driver, frame, flags, texture>>

\* The reply is there, or the user goes to sleep.
video_thread_wait_reply ==
  /\ upc = "wait_reply" /\ "user" \notin asleep
  /\ IF reply_cmd = cmd
     THEN /\ cmd_data' = "none"
          /\ upc' = CASE cmd = "free" -> "join"
                      [] cmd = "init" /\ ~driver_data -> "failed"
                      [] OTHER -> "ready"
          /\ cmd' = "none"
          /\ UNCHANGED asleep
     ELSE asleep' = asleep \cup {"user"} /\ UNCHANGED <<cmd_data, upc, cmd>>
  /\ UNCHANGED <<send_cmd, reply_cmd, thread, driver, frame, flags, texture>>

\* Mutant: the thread is not waited for.
JoinAtOnce ==
  /\ upc = "join"
  /\ upc' = "freed"
  /\ UNCHANGED <<command, cmd, thread, driver, frame, flags, texture, asleep>>

\* sthread_join and the rest of video_thread_free.
Join ==
  /\ upc = "join" /\ tpc = "gone"
  /\ upc' = "freed"
  /\ UNCHANGED <<command, cmd, thread, driver, frame, flags, texture, asleep>>

\* video_thread_texture_handle of a driver that has said it is not alive: the
\* user calls the function itself.
CallsDirectly ==
  /\ upc = "ready" /\ ~alive
  /\ upc' = "direct"
  /\ UNCHANGED <<command, cmd, thread, driver, frame, flags, texture, asleep>>

DirectReturns ==
  /\ upc = "direct"
  /\ upc' = "ready"
  /\ UNCHANGED <<command, cmd, thread, driver, frame, flags, texture, asleep>>
-----------------------------------------------------------------------------
(* Frames and textures. *)

\* Mutant: the frame is copied without a look at `updated` after the wait.
TakeAlways == upc' = "copy"

\* What follows the wait, with thr->lock held: the frame is copied, or dropped.
TakeOrDrop == upc' = IF updated THEN "ready" ELSE "copy"

\* video_thread_frame, up to the first wait.
FrameBegins ==
  /\ upc = "ready" /\ LockFree /\ ~within_thread /\ count < MaxFrames
  /\ count' = count + 1
  /\ \/ TakeOrDrop /\ UNCHANGED asleep    \* nonblock, not updated, or it is late
     \/ ~nonblock /\ updated /\ upc' = "frame_wait" /\ asleep' = asleep \cup {"user"}
  /\ UNCHANGED <<command, cmd, thread, driver, updated, buffer, flags, texture>>

\* Mutant: when the time is over it is still on the list of those that wait.
TimeoutKeepsAsleep ==
  /\ upc = "frame_wait" /\ LockFree
  /\ \/ TakeOrDrop /\ UNCHANGED asleep
     \/ "user" \notin asleep /\ updated /\ asleep' = asleep \cup {"user"} /\ UNCHANGED upc
  /\ UNCHANGED <<command, cmd, thread, driver, frame, flags, texture>>

\* It was woken, or the time is over.
FrameWaits ==
  /\ upc = "frame_wait" /\ LockFree
  /\ \/ TakeOrDrop /\ asleep' = asleep \ {"user"}
     \/ "user" \notin asleep /\ updated /\ asleep' = asleep \cup {"user"} /\ UNCHANGED upc
  /\ UNCHANGED <<command, cmd, thread, driver, frame, flags, texture>>

\* The copy ends and thr->lock is released, by a wait for the frame to be shown
\* if the menu has a texture.
FrameCopied ==
  /\ upc = "copy"
  /\ buffer' = count /\ updated' = TRUE
  /\ IF texture.enable
     THEN upc' = "menu_wait" /\ asleep' = (asleep \ {"thread"}) \cup {"user"}
     ELSE upc' = "ready" /\ asleep' = asleep \ {"thread"}
  /\ UNCHANGED <<command, cmd, thread, driver, count, flags, texture>>

MenuWaits ==
  /\ upc = "menu_wait" /\ "user" \notin asleep
  /\ IF updated THEN asleep' = asleep \cup {"user"} /\ UNCHANGED upc
     ELSE upc' = "ready" /\ UNCHANGED asleep
  /\ UNCHANGED <<command, cmd, thread, driver, frame, flags, texture>>

\* video_thread_wait_idle, after which the caller frees what frames refer to.
video_thread_wait_idle ==
  /\ \/ upc = "ready"
     \/ upc = "idle_wait" /\ "user" \notin asleep
  /\ LockFree
  /\ IF updated THEN upc' = "idle_wait" /\ asleep' = asleep \cup {"user"}
     ELSE upc' = "freeing" /\ UNCHANGED asleep
  /\ UNCHANGED <<command, cmd, thread, driver, frame, flags, texture>>

ResourcesFreed ==
  /\ upc = "freeing"
  /\ upc' = "ready"
  /\ UNCHANGED <<command, cmd, thread, driver, frame, flags, texture, asleep>>

\* thread_set_texture_frame: frame.lock is held during the copy.
TextureBegins ==
  /\ upc = "ready" /\ FrameLockFree
  /\ upc' = "texture"
  /\ UNCHANGED <<command, cmd, thread, driver, frame, flags, texture, asleep>>

TextureCopied ==
  /\ upc = "texture"
  /\ texture' = [texture EXCEPT !.frame_updated = TRUE]
  /\ upc' = "ready"
  /\ UNCHANGED <<command, cmd, thread, driver, frame, flags, asleep>>

thread_set_texture_enable(state) ==
  /\ upc = "ready" /\ FrameLockFree
  /\ texture' = [texture EXCEPT !.enable = state]
  /\ UNCHANGED <<command, user, thread, driver, frame, flags, asleep>>

video_thread_set_nonblock_state(state) ==
  /\ upc = "ready"
  /\ nonblock' = state
  /\ UNCHANGED <<command, user, thread, driver, frame, within_thread, alive, driver_data,
                 texture, asleep>>
-----------------------------------------------------------------------------
(* video_thread_loop *)

\* Mutant: only a command ends the wait.
LoopWaitsForCommand ==
  /\ tpc = "wait" /\ "thread" \notin asleep /\ LockFree
  /\ IF send_cmd = "none"
     THEN asleep' = asleep \cup {"thread"} /\ UNCHANGED thread
     ELSE /\ upd' = updated /\ pkt' = cmd_data
          /\ tpc' = "handle"
          /\ UNCHANGED asleep
  /\ UNCHANGED <<command, user, driver, frame, flags, texture>>

LoopWaits ==
  /\ tpc = "wait" /\ "thread" \notin asleep /\ LockFree
  /\ IF send_cmd = "none" /\ ~updated
     THEN asleep' = asleep \cup {"thread"} /\ UNCHANGED thread
     ELSE /\ upd' = updated /\ pkt' = cmd_data
          /\ tpc' = "handle"
          /\ UNCHANGED asleep
  /\ UNCHANGED <<command, user, driver, frame, flags, texture>>

AfterPacket == IF upd THEN "frame" ELSE "wait"

\* video_thread_handle_packet, up to the reply.  The driver may fail to be made.
\* Of CMD_READ_VIEWPORT only the case that calls the driver goes a way of its own.
HandlePacket ==
  /\ tpc = "handle"
  /\ IF pkt = "none"
     THEN tpc' = AfterPacket /\ UNCHANGED <<ran, driver_data, within_thread>>
     ELSE /\ ran' = [command |-> pkt, odd |-> ~ran.odd]
          /\ driver_data' \in CASE pkt = "init" -> BOOLEAN
                                [] pkt = "free" -> {FALSE}
                                [] OTHER -> {driver_data}
          /\ \/ tpc' = "reply" /\ UNCHANGED within_thread
             \/ pkt = "read_viewport" /\ driver_data
                /\ tpc' = "viewport" /\ within_thread' = TRUE
  /\ UNCHANGED <<command, user, pkt, upd, shown, frame, alive, nonblock, texture, asleep>>

\* The driver reads the viewport; it calls video_thread_frame to render the last
\* frame again, which finds within_thread set and takes no lock.
ReadViewport ==
  /\ tpc = "viewport"
  /\ texture' = [texture EXCEPT !.frame_updated = FALSE]
  /\ within_thread' = FALSE
  /\ tpc' = "reply"
  /\ UNCHANGED <<command, user, pkt, upd, driver, frame, alive, nonblock, driver_data, asleep>>

\* Mutant: the command is not taken back.
ReplyKeepsSend ==
  /\ tpc = "reply" /\ LockFree
  /\ cmd_data' = pkt /\ reply_cmd' = pkt /\ UNCHANGED send_cmd
  /\ asleep' = asleep \ {"user"}
  /\ tpc' = IF pkt = "free" THEN "quit" ELSE AfterPacket
  /\ UNCHANGED <<user, pkt, upd, driver, frame, flags, texture>>

video_thread_reply ==
  /\ tpc = "reply" /\ LockFree
  /\ cmd_data' = pkt /\ reply_cmd' = pkt /\ send_cmd' = "none"
  /\ asleep' = asleep \ {"user"}
  /\ tpc' = IF pkt = "free" THEN "quit" ELSE AfterPacket
  /\ UNCHANGED <<user, pkt, upd, driver, frame, flags, texture>>

\* The thread has released thr->lock and returns.
LoopReturns ==
  /\ tpc = "quit"
  /\ tpc' = "gone"
  /\ UNCHANGED <<command, user, pkt, upd, driver, frame, flags, texture, asleep>>

\* Mutant: the next frame is let in as soon as this one is taken.
RenderBeginsClears ==
  /\ tpc = "frame" /\ FrameLockFree
  /\ tpc' = "render"
  /\ texture' = [texture EXCEPT !.frame_updated = FALSE]
  /\ updated' = FALSE
  /\ UNCHANGED <<command, user, pkt, upd, driver, buffer, count, flags, asleep>>

\* frame.lock is taken, thread_update_driver_state and driver->frame begin.
RenderBegins ==
  /\ tpc = "frame" /\ FrameLockFree
  /\ tpc' = "render"
  /\ texture' = [texture EXCEPT !.frame_updated = FALSE]
  /\ UNCHANGED <<command, user, pkt, upd, driver, frame, flags, asleep>>

\* Without a driver there is nothing to show it.
RenderEnds ==
  /\ tpc = "render"
  /\ shown' = buffer
  /\ tpc' = "finish"
  /\ UNCHANGED <<command, user, pkt, upd, ran, frame, flags, texture, asleep>>

\* Mutant: nobody is told.
FinishForgetsSignal ==
  /\ tpc = "finish" /\ LockFree
  /\ alive' \in IF driver_data THEN BOOLEAN ELSE {FALSE}
  /\ updated' = FALSE
  /\ asleep' = asleep
  /\ tpc' = "wait"
  /\ UNCHANGED <<command, user, pkt, upd, driver, buffer, count, within_thread, nonblock,
                 driver_data, texture>>

\* driver->frame may have returned false or the window may be closed.
FrameFinished ==
  /\ tpc = "finish" /\ LockFree
  /\ alive' \in IF driver_data THEN BOOLEAN ELSE {FALSE}
  /\ updated' = FALSE
  /\ asleep' = asleep \ {"user"}
  /\ tpc' = "wait"
  /\ UNCHANGED <<command, user, pkt, upd, driver, buffer, count, within_thread, nonblock,
                 driver_data, texture>>

-----------------------------------------------------------------------------
ThreadStep ==
  \/ LoopWaits \/ HandlePacket \/ ReadViewport \/ video_thread_reply \/ LoopReturns
  \/ RenderBegins \/ RenderEnds \/ FrameFinished

\* The user goes on with the call it is in.
UserGoesOn ==
  \/ SendInit \/ video_thread_wait_reply \/ Join \/ DirectReturns
  \/ FrameWaits \/ FrameCopied \/ MenuWaits
  \/ upc = "idle_wait" /\ video_thread_wait_idle
  \/ ResourcesFreed \/ TextureCopied

UserCalls ==
  \/ \E c \in Commands \ {"init"} : Send(c)
  \/ CallsDirectly \/ FrameBegins \/ TextureBegins
  \/ upc = "ready" /\ video_thread_wait_idle
  \/ \E state \in BOOLEAN :
       thread_set_texture_enable(state) \/ video_thread_set_nonblock_state(state)

Next == ThreadStep \/ UserGoesOn \/ UserCalls

Spec == Init /\ [][Next]_vars

\* Both threads are scheduled, and a wait with a time limit ends.  The thread gets
\* a lock that the user takes and releases again and again.
FairSpec == Spec /\ SF_vars(ThreadStep) /\ WF_vars(UserGoesOn)
-----------------------------------------------------------------------------
\* No buffer is written while the driver may read it: a frame is copied under
\* one lock and rendered under the other, and only `updated` keeps them apart;
\* and the texture of the menu is not written while it is uploaded, although
\* ReadViewport takes no lock.
NoTear ==
  /\ ~(upc = "copy" /\ tpc \in {"frame", "render"})
  /\ ~(upc = "texture" /\ tpc \in {"render", "viewport"})

\* "After this returns, it is safe to free GPU-backed resources, no frame can be
\* in-flight referencing them": until the user gives it something new to do the
\* thread does not render, and is not about to.
IdleIsIdle == upc = "freeing" => tpc \notin {"viewport", "frame", "render"} /\ ~updated

\* When its memory is freed the thread is gone and the driver freed, by it.
FreedAlone == upc = "freed" => tpc = "gone" /\ ~driver_data /\ ran.command = "free"

\* "Dispatch renderer->free to the video thread via video_thread_texture_handle
\* so it runs serialised with the video thread's frame rendering".
Serialised == upc = "direct" => tpc \notin {"viewport", "render"}

Service == INSTANCE VideoService WITH
  Free   <- "free",
  Frames <- 1..MaxFrames,
  phase  <- IF upc # "wait_reply" THEN "none"
            ELSE IF reply_cmd = cmd \/ tpc \in {"viewport", "reply"} THEN "served"
            ELSE "asked",
  slot   <- IF updated /\ tpc # "finish" THEN buffer ELSE 0,
  open   <- ran.command # "free"

\* Every command is run once, before its call returns; frames are shown in
\* order, at most once.
ImplementsService == Service!Spec

\* Every call comes back: no wake-up is lost, nothing waits for something that
\* is not to come.
CallsReturn == upc \notin {"ready", "freed", "failed"} ~> upc \in {"ready", "freed", "failed"}

\* A frame that was taken is shown, if the driver is not freed first.
FramesAreShown == \A f \in 1..MaxFrames : buffer = f ~> shown >= f \/ tpc = "gone"
-----------------------------------------------------------------------------
(* The invariant behind NoTear, IdleIsIdle, FreedAlone and ImplementsService. *)

\* While the user waits for a reply the command is in its place, and it is either
\* to be read or answered; otherwise there is none.
CommandsAgree ==
  IF upc = "wait_reply"
  THEN /\ cmd # "none" /\ cmd_data = cmd
       /\ \/ reply_cmd = "none" /\ send_cmd = cmd
          \/ reply_cmd = cmd /\ send_cmd = "none"
  ELSE send_cmd = "none" /\ cmd_data = "none"

\* What the thread has read is what the user waits for, unless it came for a frame;
\* once it has answered, there is no frame to come for with the old command.
PacketAgrees ==
  /\ tpc \in {"handle", "viewport", "reply"} /\ pkt # "none" =>
       upc = "wait_reply" /\ cmd = pkt /\ reply_cmd = "none" /\ upd = updated
  /\ tpc = "handle" /\ pkt = "none" => upd
  /\ tpc \in {"viewport", "reply"} => pkt # "none"
  /\ upc = "wait_reply" /\ reply_cmd = cmd /\ tpc = "wait" => ~updated

\* The frame stays from the moment the thread has read that it is there until it has
\* been shown; it is not there while it is copied, and when the user is idle.
FrameAgrees ==
  /\ tpc \in {"handle", "viewport", "reply"} /\ upd => updated
  /\ tpc \in {"frame", "render", "finish"} => updated
  /\ upc \in {"copy", "freeing"} => ~updated
  /\ ~(upc = "texture" /\ tpc = "render")

\* The thread ends by the command that frees the driver, and only by it.
EndAgrees ==
  /\ tpc \in {"viewport", "reply"} => ran.command = pkt /\ (pkt = "free" => ~driver_data)
  /\ tpc \in {"quit", "gone"} =>
       /\ ran.command = "free" /\ ~driver_data
       /\ \/ upc \in {"join", "freed"}
          \/ upc = "wait_reply" /\ cmd = "free" /\ reply_cmd = cmd
  /\ upc = "wait_reply" /\ cmd = "free" /\ reply_cmd = cmd => tpc \in {"quit", "gone"}
  /\ upc = "join" => tpc \in {"quit", "gone"}
  /\ upc = "freed" => tpc = "gone"
  /\ ran.command = "free" => \/ tpc = "reply" /\ pkt = "free"
                             \/ tpc \in {"quit", "gone"}

\* Frames are numbered as they are made, copied in that order and shown in it.
OrderAgrees ==
  /\ shown <= buffer /\ buffer <= count
  /\ upc \in {"frame_wait", "copy"} => buffer < count
  /\ updated /\ tpc # "finish" => shown < buffer

IInv == TypeOK /\ CommandsAgree /\ PacketAgrees /\ FrameAgrees /\ EndAgrees /\ OrderAgrees
=============================================================================
