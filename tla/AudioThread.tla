---------------------------- MODULE AudioThread ----------------------------
(***************************************************************************)
(* audio/audio_thread_wrapper.c: for a core that renders its sound in a    *)
(* callback, the audio driver lives in a thread of its own, which opens    *)
(* it, calls the core over and over and closes it.  The main thread, by    *)
(* audio_driver_init_internal, audio_driver_start, audio_driver_stop and   *)
(* audio_driver_deinit, creates that thread, stops it, lets it go on and   *)
(* joins it.  Both wait on the one condition variable `cond`.              *)
(*                                                                         *)
(* What a thread does under `lock`, up to the unlock or the scond_wait, is *)
(* one step; so is what it does between two such sections.                 *)
(***************************************************************************)
EXTENDS Integers, FiniteSets

CONSTANTS
  Main, Audio,  \* the threads
  StopsAgain    \* whether the frontend may stop a driver it has stopped, as
                \* the unloading of a core does from a menu that pauses it

ASSUME AudioAssumption == Main # Audio /\ StopsAgain \in BOOLEAN

VARIABLES
  created,      \* audio_st->context_audio_data is the audio_thread_t
  main,         \* where the main thread is in a call of the wrapper
  call,         \* the call it is in
  audio,        \* where the audio thread is
  asleep,       \* the threads in scond_wait on cond
  inited, alive, stopped, stopped_ack, is_paused,
  device        \* the wrapped driver

thr  == <<inited, alive, stopped, stopped_ack, is_paused>>
vars == <<created, main, call, audio, asleep, thr, device>>

TypeOK ==
  /\ created \in BOOLEAN
  /\ main \in {"idle", "init", "block", "unblock", "stop", "join"}
  /\ call \in {"none", "init", "alive", "stop", "start", "free"}
  /\ audio \in {"none", "open", "gate", "loop", "parked", "callback", "close", "dead", "join"}
  /\ asleep \subseteq {Main, Audio}
  /\ inited \in {0, 1, -1}
  /\ alive \in BOOLEAN /\ stopped \in BOOLEAN
  /\ stopped_ack \in BOOLEAN /\ is_paused \in BOOLEAN
  /\ device \in {"closed", "playing", "halted"}
  /\ inited = 0 => audio \in {"none", "open"}
  /\ Main \in asleep => main \in {"init", "block"}
  /\ Audio \in asleep => audio \in {"gate", "parked"}

Init ==
  /\ created = FALSE /\ main = "idle" /\ call = "none"
  /\ audio = "none" /\ asleep = {} /\ device = "closed"
  /\ inited = 0 /\ alive = FALSE
  /\ stopped = FALSE /\ stopped_ack = FALSE /\ is_paused = FALSE

\* The threads that may be asleep on cond after scond_signal.
Signalled == IF asleep = {} THEN {asleep} ELSE {asleep \ {t} : t \in asleep}

Signal == asleep' \in Signalled

\* Signals, and has t wait.
SignalAndWait(t) == \E s \in Signalled : asleep' = s \union {t}

Runs(t) == t \notin asleep
-----------------------------------------------------------------------------
(* The main thread. *)

\* audio_init_thread up to the wait for `inited`.
InitThread ==
  /\ main = "idle" /\ ~created
  /\ inited' = 0 /\ alive' = TRUE /\ stopped' = TRUE
  /\ stopped_ack' = FALSE /\ is_paused' = FALSE
  /\ audio' = "open" /\ main' = "init" /\ call' = "init"
  /\ UNCHANGED <<created, asleep, device>>

InitWaits ==
  /\ main = "init" /\ Runs(Main) /\ inited = 0
  /\ asleep' = asleep \union {Main}
  /\ UNCHANGED <<created, main, call, audio, thr, device>>

\* Mutant: a thread that is stopped is left so.
DismissStopped ==
  /\ alive' = FALSE
  /\ Signal
  /\ UNCHANGED <<inited, stopped, stopped_ack, is_paused, device>>

\* audio_thread_free up to the join.
Dismiss ==
  /\ stopped' = FALSE /\ alive' = FALSE
  /\ Signal
  /\ UNCHANGED <<inited, stopped_ack, is_paused, device>>

InitFails ==
  /\ main = "init" /\ Runs(Main) /\ inited < 0
  /\ Dismiss
  /\ main' = "join" /\ UNCHANGED <<created, call, audio>>

\* The rest of audio_driver_init_internal: audio_driver_start, or
\* audio_driver_deinit if the resampler fails.
InitReturns ==
  /\ main = "init" /\ Runs(Main) /\ inited > 0
  /\ created' = TRUE
  /\ \/ call' = "start" /\ main' = "unblock"
     \/ call' = "free"  /\ main' = "idle"
  /\ UNCHANGED <<audio, asleep, thr, device>>

\* Mutant: the acknowledgement of the last time is left.
BlockKeepsAck ==
  /\ stopped' = TRUE
  /\ \/ stopped_ack /\ Signal
     \/ ~stopped_ack /\ SignalAndWait(Main)
  /\ main' = "block"
  /\ UNCHANGED <<inited, alive, stopped_ack, is_paused>>

\* audio_thread_block, up to the wait for stopped_ack.
Block ==
  /\ stopped_ack' = FALSE /\ stopped' = TRUE
  /\ SignalAndWait(Main)
  /\ main' = "block"
  /\ UNCHANGED <<inited, alive, is_paused>>

\* audio_driver_stop: first audio_thread_alive, which blocks the thread
\* unless it has been stopped.
Stop ==
  /\ main = "idle" /\ created /\ call # "free"
  /\ StopsAgain \/ ~is_paused
  /\ call' = "alive"
  /\ \/ stopped /\ main' = "unblock" /\ UNCHANGED <<asleep, thr>>
     \/ ~stopped /\ Block
  /\ UNCHANGED <<created, audio, device>>

\* Woken, the main thread looks at stopped_ack; audio_thread_stop goes on.
Blocked ==
  /\ main = "block" /\ Runs(Main)
  /\ \/ ~stopped_ack /\ asleep' = asleep \union {Main} /\ UNCHANGED <<main, call, thr>>
     \/ /\ stopped_ack /\ call = "alive"
        /\ main' = "unblock" /\ UNCHANGED <<asleep, call, thr>>
     \/ /\ stopped_ack /\ call = "stop"
        /\ is_paused' = TRUE /\ main' = "idle" /\ call' = "none"
        /\ UNCHANGED <<asleep, inited, alive, stopped, stopped_ack>>
  /\ UNCHANGED <<created, audio, device>>

\* audio_driver_start up to audio_thread_unblock.
Start ==
  /\ main = "idle" /\ created /\ call # "free"
  /\ is_paused' = FALSE
  /\ main' = "unblock" /\ call' = "start"
  /\ UNCHANGED <<created, audio, asleep, inited, alive, stopped, stopped_ack, device>>

\* Mutant: the thread is not woken.
UnblockSilently ==
  /\ main = "unblock"
  /\ stopped' = FALSE
  /\ \/ call = "alive" /\ ~is_paused /\ main' = "stop" /\ call' = "stop"
     \/ /\ call = "start" \/ is_paused
        /\ main' = "idle" /\ call' = "none"
  /\ UNCHANGED <<created, audio, asleep, inited, alive, stopped_ack, is_paused, device>>

\* audio_thread_unblock, for audio_thread_start and audio_thread_alive; only
\* after an answer of TRUE does audio_driver_stop go on to audio_thread_stop.
Unblock ==
  /\ main = "unblock"
  /\ stopped' = FALSE
  /\ Signal
  /\ \/ call = "alive" /\ ~is_paused /\ main' = "stop" /\ call' = "stop"
     \/ /\ call = "start" \/ is_paused
        /\ main' = "idle" /\ call' = "none"
  /\ UNCHANGED <<created, audio, inited, alive, stopped_ack, is_paused, device>>

StopBlocks ==
  /\ main = "stop"
  /\ Block
  /\ UNCHANGED <<created, call, audio, device>>

\* audio_driver_deinit.
Free ==
  /\ main = "idle" /\ created
  /\ Dismiss
  /\ main' = "join" /\ call' = "free"
  /\ UNCHANGED <<created, audio>>

\* Mutant: the thread is not waited for.
FreeDetaches ==
  /\ main = "join"
  /\ created' = FALSE /\ main' = "idle" /\ call' = "none"
  /\ UNCHANGED <<audio, asleep, thr, device>>

\* sthread_join returns, and audio_thread_free frees the rest.
FreeJoins ==
  /\ main = "join" /\ audio = "dead"
  /\ created' = FALSE /\ main' = "idle" /\ call' = "none"
  /\ UNCHANGED <<audio, asleep, thr, device>>

\* audio_thread_write when the driver fails; both threads may write.
WriteFails ==
  /\ alive' = FALSE
  /\ Signal
  /\ UNCHANGED <<created, main, call, inited, stopped, stopped_ack, is_paused, device>>

\* audio_driver_menu_sample plays the sounds of the menu from the main thread.
\* (To write to a driver that the audio thread has closed is undefined.)
MenuWriteFails ==
  /\ main = "idle" /\ created /\ call # "free" /\ device # "closed"
  /\ WriteFails
  /\ UNCHANGED audio
-----------------------------------------------------------------------------
(* The audio thread: audio_thread_loop. *)

\* Mutant: `inited` stays 0 when the driver cannot be opened.
OpenInitsOrNot ==
  /\ audio = "open"
  /\ \/ inited' = 1 /\ device' = "playing" /\ audio' = "gate"
     \/ inited' = 0 /\ device' = "closed"  /\ audio' = "dead"
  /\ Signal
  /\ UNCHANGED <<created, main, call, alive, stopped, stopped_ack, is_paused>>

\* The driver is opened, or cannot be.
Open ==
  /\ audio = "open"
  /\ \/ inited' = 1  /\ device' = "playing" /\ audio' = "gate"
     \/ inited' = -1 /\ device' = "closed"  /\ audio' = "dead"
  /\ Signal
  /\ UNCHANGED <<created, main, call, alive, stopped, stopped_ack, is_paused>>

\* The thread waits until it is first started.
Gate ==
  /\ audio = "gate" /\ Runs(Audio)
  /\ \/ stopped  /\ asleep' = asleep \union {Audio} /\ UNCHANGED audio
     \/ ~stopped /\ audio' = "loop" /\ UNCHANGED asleep
  /\ UNCHANGED <<created, main, call, thr, device>>

Exit ==
  /\ audio = "loop" /\ ~alive
  /\ Signal
  /\ stopped_ack' = TRUE
  /\ audio' = "close"
  /\ UNCHANGED <<created, main, call, inited, alive, stopped, is_paused, device>>

\* driver->stop, and the first turn of the loop that waits.
Park ==
  /\ audio = "loop" /\ alive /\ stopped
  /\ device' = "halted" /\ stopped_ack' = TRUE
  /\ SignalAndWait(Audio)
  /\ audio' = "parked"
  /\ UNCHANGED <<created, main, call, inited, alive, stopped, is_paused>>

Render ==
  /\ audio = "loop" /\ alive /\ ~stopped
  /\ audio' = "callback"
  /\ UNCHANGED <<created, main, call, asleep, thr, device>>

\* Mutant: the acknowledgement stands before the loop.
StayParkedSilently ==
  /\ audio = "parked" /\ Runs(Audio) /\ stopped
  /\ asleep' = asleep \union {Audio}
  /\ UNCHANGED <<created, main, call, audio, thr, device>>

\* Woken while it is stopped, the thread acknowledges again.
StayParked ==
  /\ audio = "parked" /\ Runs(Audio) /\ stopped
  /\ stopped_ack' = TRUE
  /\ SignalAndWait(Audio)
  /\ UNCHANGED <<created, main, call, audio, inited, alive, stopped, is_paused, device>>

\* driver->start, and on to the callback.
Resume ==
  /\ audio = "parked" /\ Runs(Audio) /\ ~stopped
  /\ device' = "playing" /\ audio' = "callback"
  /\ UNCHANGED <<created, main, call, asleep, thr>>

\* audio_driver_callback: the core renders, writes and returns.
CallbackReturns ==
  /\ audio = "callback"
  /\ audio' = "loop"
  /\ \/ UNCHANGED <<created, main, call, asleep, thr, device>>
     \/ WriteFails

Close ==
  /\ audio = "close"
  /\ device' = "closed" /\ audio' = "dead"
  /\ UNCHANGED <<created, main, call, asleep, thr>>

\* A sound device has come or gone (audio/common/mmdevice_common.c sets
\* reinit_request): audio_driver_flush, in the callback, reinitialises the
\* driver, and audio_thread_free joins the thread it runs in.
CallbackReinits ==
  /\ audio = "callback"
  /\ Dismiss
  /\ audio' = "join"
  /\ UNCHANGED <<created, main, call>>
-----------------------------------------------------------------------------
\* What the main thread does in a call it has begun.
MainGoesOn ==
  \/ InitWaits \/ InitFails \/ InitReturns
  \/ Blocked \/ Unblock \/ StopBlocks \/ FreeJoins
  \/ call = "free" /\ Free

MainCalls == InitThread \/ Stop \/ Start \/ Free \/ MenuWriteFails

AudioStep ==
  \/ Open \/ Gate \/ Exit \/ Park \/ Render
  \/ StayParked \/ Resume \/ CallbackReturns \/ Close

Next == MainGoesOn \/ MainCalls \/ AudioStep

Spec == Init /\ [][Next]_vars

\* The critical sections are short, and the core's callback and the driver
\* return.  When and whether the frontend makes a call is left open.
Fairness == WF_vars(MainGoesOn) /\ WF_vars(AudioStep)

FairSpec == Spec /\ Fairness

\* The same with sound devices that come and go.
ReinitSpec ==
  Init /\ [][Next \/ CallbackReinits]_vars /\ Fairness
-----------------------------------------------------------------------------
Asleep == {"parked", "close", "dead"}

\* Which call the main thread may be in where it is.
CallsAgree ==
  /\ main = "idle" => call \in {"none", "free"}
  /\ main = "init" => call = "init" /\ ~created
  /\ main = "block" => call \in {"alive", "stop"} /\ created
  /\ main = "unblock" => call \in {"alive", "start"} /\ created
  /\ main = "stop" => call = "stop" /\ created

\* The thread opens the driver while audio_init_thread waits, and has closed it
\* once it is gone.
LifeAgrees ==
  /\ audio = "open" => main = "init" /\ inited = 0
  /\ inited < 0 => audio = "dead"
  /\ audio = "none" => ~created /\ main = "idle"
  /\ audio \in {"none", "dead"} => device = "closed"
  /\ ~created /\ main = "idle" => audio \in {"none", "dead"}

\* An acknowledgement that the main thread can see is the answer to its own
\* request, and as long as `stopped` stands the thread does not leave its loop.
AckAgrees ==
  /\ main = "block" => stopped
  /\ main = "block" /\ stopped_ack => audio \in Asleep

\* When the frontend does not stop twice, a driver is paused only when idle, and
\* what is paused or being asked about is stopped.
PauseAgrees ==
  ~StopsAgain =>
    /\ main \in {"block", "unblock", "stop"} => ~is_paused
    /\ main = "unblock" /\ call = "alive" => audio \in Asleep /\ stopped
    /\ main = "idle" /\ is_paused => audio \in Asleep
    /\ main = "idle" /\ is_paused /\ created => stopped
    /\ main = "idle" /\ created /\ call = "none" /\ stopped => is_paused
    /\ main = "init" => ~is_paused

IInv == TypeOK /\ CallsAgree /\ LifeAgrees /\ AckAgrees /\ PauseAgrees
-----------------------------------------------------------------------------
\* The handshake of audio_thread_block: from the time it returns to
\* audio_thread_unblock, and whenever a stop has been done, the audio thread
\* neither renders nor touches the driver: it is parked, or has left its loop.
StoppedSleeps ==
  (main = "unblock" /\ call = "alive") \/ (main = "idle" /\ is_paused) =>
    audio \in Asleep

\* audio_thread_free: once the main thread has freed the lock and the condition,
\* the audio thread is gone, has closed the driver, and nobody waits on either.
FreedIsGone ==
  ~created /\ main = "idle" =>
    audio \in {"none", "dead"} /\ device = "closed" /\ asleep = {}

\* "Signal in the loop instead" (audio_thread_loop): a stop that comes right
\* after a start, before the thread has run, returns all the same, once the
\* thread has been started and as long as it is alive.
StopReturnsOnceStarted ==
  (main = "block" /\ audio # "gate" /\ alive) ~> (main # "block" \/ ~alive)

\* The same wherever the thread is.
StopReturns ==
  (main = "block" /\ alive) ~> (main # "block" \/ ~alive)

\* audio_init_thread and audio_thread_free: the main thread always learns
\* whether the driver could be opened, and the thread is joined wherever it is,
\* before its start, parked, rendering, or gone because a write failed.
InitAndFreeReturn ==
  \A m \in {"init", "join"} : main = m ~> main # m

\* audio_thread_start: no wake-up is lost, the core is called again.
StartResumes ==
  (main = "idle" /\ created /\ ~stopped /\ alive) ~>
    (audio = "callback" \/ main # "idle" \/ ~alive)
=============================================================================
