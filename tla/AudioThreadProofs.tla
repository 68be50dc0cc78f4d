------------------------- MODULE AudioThreadProofs -------------------------
(***************************************************************************)
(* The handshake of audio/audio_thread_wrapper.c, proved.  IInv says which *)
(* call the main thread is in, how far the life of the audio thread has    *)
(* got, that an acknowledgement answers the request that is pending, and   *)
(* that a driver that was stopped stays so.                                *)
(***************************************************************************)
EXTENDS AudioThread, TLAPS

\* A scond_signal wakes nobody who is not asleep.
LEMMA SignalledWakes ==
  ASSUME NEW s \in Signalled PROVE s \subseteq asleep
BY DEF Signalled

\* Initially there is no thread.
LEMMA InitIInv == Init => IInv
<1> SUFFICES ASSUME Init PROVE IInv
  OBVIOUS
<1>1. TypeOK
  BY AudioAssumption DEF Init, TypeOK
<1>2. CallsAgree /\ LifeAgrees
  BY DEF Init, CallsAgree, LifeAgrees
<1>3. AckAgrees
  BY DEF Init, AckAgrees
<1>4. PauseAgrees
  BY DEF Init, PauseAgrees
<1>5. QED
  BY <1>1, <1>2, <1>3, <1>4 DEF IInv

\* No step of the main thread breaks the invariant.
LEMMA MainKeepsIInv ==
  ASSUME IInv, MainGoesOn \/ MainCalls
  PROVE  IInv'
<1> USE AudioAssumption, SignalledWakes
   DEF IInv, TypeOK, CallsAgree, LifeAgrees, AckAgrees, PauseAgrees, Asleep, Runs, thr
<1>1. CASE InitThread
  <2>1. TypeOK'
    BY <1>1 DEF InitThread
  <2>2. CallsAgree'
    BY <1>1 DEF InitThread
  <2>3. LifeAgrees'
    BY <1>1 DEF InitThread
  <2>4. AckAgrees'
    BY <1>1 DEF InitThread
  <2>5. PauseAgrees'
    BY <1>1 DEF InitThread
  <2>6. QED
    BY <2>1, <2>2, <2>3, <2>4, <2>5 DEF IInv
<1>2. CASE InitWaits
  BY <1>2 DEF InitWaits
<1>3. CASE InitFails
  BY <1>3 DEF InitFails, Dismiss, Signal
<1>4. CASE InitReturns
  BY <1>4 DEF InitReturns
<1>5. CASE Stop
  <2>1. TypeOK'
    BY <1>5 DEF Stop, Block, SignalAndWait
  <2>2. CallsAgree'
    BY <1>5 DEF Stop, Block, SignalAndWait
  <2>3. LifeAgrees'
    BY <1>5 DEF Stop, Block, SignalAndWait
  <2>4. AckAgrees'
    BY <1>5 DEF Stop, Block, SignalAndWait
  <2>5. PauseAgrees'
    BY <1>5 DEF Stop, Block, SignalAndWait
  <2>6. QED
    BY <2>1, <2>2, <2>3, <2>4, <2>5 DEF IInv
<1>6. CASE Blocked
  <2>1. TypeOK'
    BY <1>6 DEF Blocked
  <2>2. CallsAgree'
    BY <1>6 DEF Blocked
  <2>3. LifeAgrees'
    BY <1>6 DEF Blocked
  <2>4. AckAgrees'
    <3>1. CASE ~stopped_ack
      <4>1. UNCHANGED <<main, stopped, stopped_ack>>
        BY <1>6, <3>1 DEF Blocked
      <4>2. QED
        BY <3>1, <4>1
    <3>2. CASE stopped_ack
      BY <1>6, <3>2 DEF Blocked
    <3>3. QED
      BY <3>1, <3>2
  <2>5. PauseAgrees'
    <3>1. CASE ~stopped_ack
      BY <1>6, <3>1 DEF Blocked
    <3>2. CASE stopped_ack /\ call = "alive"
      BY <1>6, <3>2 DEF Blocked
    <3>3. CASE stopped_ack /\ call = "stop"
      BY <1>6, <3>3 DEF Blocked
    <3>4. QED
      BY <1>6, <3>1, <3>2, <3>3 DEF Blocked
  <2>6. QED
    BY <2>1, <2>2, <2>3, <2>4, <2>5 DEF IInv
<1>7. CASE Start
  BY <1>7, ZenonT(40) DEF Start
<1>8. CASE Unblock
  BY <1>8, ZenonT(40) DEF Unblock, Signal
<1>9. CASE StopBlocks
  BY <1>9 DEF StopBlocks, Block, SignalAndWait
<1>10. CASE Free
  BY <1>10 DEF Free, Dismiss, Signal
<1>11. CASE FreeJoins
  BY <1>11 DEF FreeJoins
<1>12. CASE MenuWriteFails
  BY <1>12 DEF MenuWriteFails, WriteFails, Signal
<1>13. QED
  BY <1>1, <1>2, <1>3, <1>4, <1>5, <1>6, <1>7, <1>8, <1>9, <1>10, <1>11, <1>12 DEF MainGoesOn, MainCalls

\* No step of the audio thread breaks the invariant.
LEMMA AudioKeepsIInv ==
  ASSUME IInv, AudioStep
  PROVE  IInv'
<1> USE AudioAssumption, SignalledWakes
   DEF IInv, TypeOK, CallsAgree, LifeAgrees, AckAgrees, PauseAgrees, Asleep, Runs, thr
<1>1. CASE Open
  BY <1>1 DEF Open, Signal
<1>2. CASE Gate
  BY <1>2 DEF Gate
<1>3. CASE Exit
  BY <1>3 DEF Exit, Signal
<1>4. CASE Park
  BY <1>4 DEF Park, SignalAndWait
<1>5. CASE Render
  BY <1>5 DEF Render
<1>6. CASE StayParked
  BY <1>6 DEF StayParked, SignalAndWait
<1>7. CASE Resume
  BY <1>7 DEF Resume
<1>8. CASE CallbackReturns
  <2>1. TypeOK'
    <3>1. CASE WriteFails
      BY <1>8, <3>1, ZenonT(40) DEF CallbackReturns, WriteFails, Signal
    <3>2. CASE UNCHANGED <<created, main, call, asleep, thr, device>>
      BY <1>8, <3>2 DEF CallbackReturns
    <3>3. QED
      BY <1>8, <3>1, <3>2 DEF CallbackReturns
  <2>2. CallsAgree'
    BY <1>8 DEF CallbackReturns, WriteFails, Signal
  <2>3. LifeAgrees'
    BY <1>8 DEF CallbackReturns, WriteFails, Signal
  <2>4. AckAgrees'
    BY <1>8 DEF CallbackReturns, WriteFails, Signal
  <2>5. PauseAgrees'
    BY <1>8 DEF CallbackReturns, WriteFails, Signal
  <2>6. QED
    BY <2>1, <2>2, <2>3, <2>4, <2>5 DEF IInv
<1>9. CASE Close
  BY <1>9 DEF Close
<1>10. QED
  BY <1>1, <1>2, <1>3, <1>4, <1>5, <1>6, <1>7, <1>8, <1>9 DEF AudioStep

\* IInv holds in every state.
THEOREM Invariance == Spec => []IInv
<1>1. IInv /\ [Next]_vars => IInv'
  <2> SUFFICES ASSUME IInv, [Next]_vars PROVE IInv'
    OBVIOUS
  <2>1. CASE Next
    BY <2>1, MainKeepsIInv, AudioKeepsIInv DEF Next
  <2>2. CASE UNCHANGED vars
    BY <2>2 DEF vars, thr, IInv, TypeOK, CallsAgree, LifeAgrees, AckAgrees,
                PauseAgrees, Asleep
  <2>3. QED
    BY <2>1, <2>2
<1>2. QED
  BY <1>1, InitIInv, PTL DEF Spec

\* Every variable of the wrapper keeps its type, and a thread is asleep on cond only
\* where the code waits, whether or not the driver opens and its writes succeed.
THEOREM TypeCorrect == Spec => []TypeOK
<1>1. IInv => TypeOK
  BY DEF IInv
<1>2. QED
  BY <1>1, Invariance, PTL

\* audio_thread_free frees the lock and the condition only when nobody uses them
\* any more and the driver is closed, whatever stops, starts and failures have
\* come before.
THEOREM FreedForGood == Spec => []FreedIsGone
<1>1. IInv => FreedIsGone
  BY DEF IInv, TypeOK, LifeAgrees, FreedIsGone
<1>2. QED
  BY <1>1, Invariance, PTL

\* As long as the frontend does not stop a driver it has stopped, the audio
\* thread does nothing from the return of audio_thread_block until it is told to
\* go on, however its wake-ups and acknowledgements interleave.
THEOREM StoppedForGood == ASSUME ~StopsAgain PROVE Spec => []StoppedSleeps
<1>1. IInv => StoppedSleeps
  BY DEF IInv, PauseAgrees, StoppedSleeps
<1>2. QED
  BY <1>1, Invariance, PTL
=============================================================================
