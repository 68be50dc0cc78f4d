-------------------------- MODULE VideoThreadProofs --------------------------
(***************************************************************************)
(* The threaded video driver of gfx/video_thread_wrapper.c, proved for any *)
(* commands and any number of frames.  IInv says what the command in its   *)
(* place, the packet the thread has read, the frame and the end of the     *)
(* thread have to do with where the two threads are.                       *)
(***************************************************************************)
EXTENDS VideoThread, TLAPS

\* The thread has been created and there is nothing to do.
LEMMA InitIInv == Init => IInv
<1> SUFFICES ASSUME Init PROVE IInv
  OBVIOUS
<1>1. TypeOK
  <2>1. ran \in [command : Commands \cup {"none"}, odd : BOOLEAN]
    BY DEF Init
  <2>2. texture \in [enable : BOOLEAN, frame_updated : BOOLEAN]
    BY DEF Init
  <2>3. {buffer, count, shown} \subseteq 0..MaxFrames
    BY VideoThreadAssumption DEF Init
  <2>4. QED
    BY <2>1, <2>2, <2>3 DEF Init, TypeOK
<1>2. CommandsAgree /\ PacketAgrees /\ FrameAgrees /\ EndAgrees
  BY VideoThreadAssumption DEF Init, CommandsAgree, PacketAgrees, FrameAgrees, EndAgrees
<1>3. OrderAgrees
  BY DEF Init, OrderAgrees
<1>4. QED
  BY <1>1, <1>2, <1>3 DEF IInv

\* No step of the thread breaks the invariant.
LEMMA ThreadKeepsIInv ==
  ASSUME IInv, ThreadStep
  PROVE  IInv'
<1> USE VideoThreadAssumption
   DEF Commands, IInv, command, user, thread, driver, frame, flags, vars
<1>1. CASE LoopWaits
  <2>1. TypeOK'
    <3>1. ({send_cmd, reply_cmd, cmd_data, cmd, pkt} \subseteq Commands \cup {"none"}
           /\ {updated, within_thread, alive, nonblock, driver_data, upd} \subseteq BOOLEAN)'
      BY <1>1 DEF LoopWaits, TypeOK
    <3>2. ({buffer, count, shown} \subseteq 0..MaxFrames
           /\ texture \in [enable : BOOLEAN, frame_updated : BOOLEAN])'
      BY <1>1 DEF LoopWaits, TypeOK
    <3>3. (ran \in [command : Commands \cup {"none"}, odd : BOOLEAN])'
      BY <1>1 DEF LoopWaits, TypeOK
    <3>4. (upc \in {"init", "ready", "wait_reply", "frame_wait", "copy", "menu_wait",
                      "idle_wait", "freeing", "texture", "direct", "join", "freed", "failed"}
           /\ tpc \in {"wait", "handle", "viewport", "reply", "frame", "render", "finish",
                         "quit", "gone"}
           /\ asleep \subseteq {"user", "thread"}
           /\ ("user" \in asleep =>
                 upc \in {"wait_reply", "frame_wait", "menu_wait", "idle_wait"})
           /\ ("thread" \in asleep => tpc = "wait"))'
      <4>1. CASE send_cmd = "none" /\ ~updated
        <5>1. asleep' = asleep \cup {"thread"} /\ tpc = "wait" /\ tpc' = tpc /\ upc' = upc
          BY <1>1, <4>1 DEF LoopWaits
        <5>2. QED
          BY <5>1 DEF TypeOK
      <4>2. CASE ~(send_cmd = "none" /\ ~updated)
        BY <1>1, <4>2 DEF LoopWaits, TypeOK
      <4>3. QED
        BY <4>1, <4>2
    <3>5. QED
      BY <3>1, <3>2, <3>3, <3>4 DEF TypeOK
  <2>2. CommandsAgree'
    BY <1>1 DEF LoopWaits, CommandsAgree
  <2>3. PacketAgrees'
    BY <1>1 DEF LoopWaits, CommandsAgree, PacketAgrees
  <2>4. FrameAgrees'
    BY <1>1 DEF LoopWaits, FrameAgrees
  <2>5. EndAgrees'
    BY <1>1 DEF LoopWaits, EndAgrees
  <2>6. OrderAgrees'
    BY <1>1 DEF LoopWaits, OrderAgrees
  <2>7. QED
    BY <2>1, <2>2, <2>3, <2>4, <2>5, <2>6
<1>2. CASE HandlePacket
  <2>1. TypeOK'
    <3>1. ({send_cmd, reply_cmd, cmd_data, cmd, pkt} \subseteq Commands \cup {"none"}
           /\ {updated, within_thread, alive, nonblock, driver_data, upd} \subseteq BOOLEAN)'
      BY <1>2 DEF HandlePacket, TypeOK
    <3>2. ({buffer, count, shown} \subseteq 0..MaxFrames
           /\ texture \in [enable : BOOLEAN, frame_updated : BOOLEAN])'
      BY <1>2 DEF HandlePacket, TypeOK
    <3>3. (ran \in [command : Commands \cup {"none"}, odd : BOOLEAN])'
      <4>1. CASE pkt = "none"
        BY <1>2, <4>1 DEF HandlePacket, TypeOK
      <4>2. CASE pkt # "none"
        <5>1. ran' = [command |-> pkt, odd |-> ~ran.odd]
          BY <1>2, <4>2 DEF HandlePacket
        <5>2. QED
          BY <5>1 DEF TypeOK
      <4>3. QED
        BY <4>1, <4>2
    <3>4. (upc \in {"init", "ready", "wait_reply", "frame_wait", "copy", "menu_wait",
                      "idle_wait", "freeing", "texture", "direct", "join", "freed", "failed"}
           /\ tpc \in {"wait", "handle", "viewport", "reply", "frame", "render", "finish",
                         "quit", "gone"}
           /\ asleep \subseteq {"user", "thread"}
           /\ ("user" \in asleep =>
                 upc \in {"wait_reply", "frame_wait", "menu_wait", "idle_wait"})
           /\ ("thread" \in asleep => tpc = "wait"))'
      BY <1>2 DEF HandlePacket, AfterPacket, TypeOK
    <3>5. QED
      BY <3>1, <3>2, <3>3, <3>4 DEF TypeOK
  <2>2. CommandsAgree'
    BY <1>2 DEF HandlePacket, CommandsAgree
  <2>3. PacketAgrees'
    BY <1>2 DEF HandlePacket, AfterPacket, PacketAgrees
  <2>4. FrameAgrees'
    BY <1>2 DEF HandlePacket, AfterPacket, FrameAgrees
  <2>5. EndAgrees'
    <3>1. CASE pkt = "none"
      BY <1>2, <3>1 DEF HandlePacket, AfterPacket, EndAgrees
    <3>2. CASE pkt # "none"
      <4>1. ran' = [command |-> pkt, odd |-> ~ran.odd]
        BY <1>2, <3>2 DEF HandlePacket
      <4>2. ran'.command = pkt
        BY <4>1
      <4>3. pkt = "free" => driver_data' \in {FALSE}
        BY <1>2, <3>2 DEF HandlePacket
      <4>4. QED
        BY <1>2, <3>2, <4>2, <4>3 DEF HandlePacket, EndAgrees
    <3>3. QED
      BY <3>1, <3>2
  <2>6. OrderAgrees'
    BY <1>2 DEF HandlePacket, OrderAgrees
  <2>7. QED
    BY <2>1, <2>2, <2>3, <2>4, <2>5, <2>6
<1>3. CASE ReadViewport
  <2>1. TypeOK'
    BY <1>3 DEF ReadViewport, TypeOK
  <2>2. CommandsAgree'
    BY <1>3 DEF ReadViewport, CommandsAgree
  <2>3. PacketAgrees'
    BY <1>3 DEF ReadViewport, PacketAgrees
  <2>4. FrameAgrees'
    BY <1>3 DEF ReadViewport, FrameAgrees
  <2>5. EndAgrees'
    BY <1>3 DEF ReadViewport, EndAgrees
  <2>6. OrderAgrees'
    BY <1>3 DEF ReadViewport, OrderAgrees
  <2>7. QED
    BY <2>1, <2>2, <2>3, <2>4, <2>5, <2>6
<1>4. CASE video_thread_reply
  <2>1. TypeOK'
    BY <1>4 DEF video_thread_reply, AfterPacket, TypeOK
  <2>2. CommandsAgree'
    BY <1>4 DEF video_thread_reply, CommandsAgree, PacketAgrees
  <2>3. PacketAgrees'
    BY <1>4 DEF video_thread_reply, AfterPacket, PacketAgrees
  <2>4. FrameAgrees'
    BY <1>4 DEF video_thread_reply, AfterPacket, FrameAgrees
  <2>5. EndAgrees'
    BY <1>4 DEF video_thread_reply, AfterPacket, PacketAgrees, EndAgrees
  <2>6. OrderAgrees'
    BY <1>4 DEF video_thread_reply, OrderAgrees
  <2>7. QED
    BY <2>1, <2>2, <2>3, <2>4, <2>5, <2>6
<1>5. CASE LoopReturns
  <2>1. TypeOK'
    BY <1>5 DEF LoopReturns, TypeOK
  <2>2. CommandsAgree'
    BY <1>5 DEF LoopReturns, CommandsAgree
  <2>3. PacketAgrees'
    BY <1>5 DEF LoopReturns, PacketAgrees
  <2>4. FrameAgrees'
    BY <1>5 DEF LoopReturns, FrameAgrees
  <2>5. EndAgrees'
    BY <1>5 DEF LoopReturns, EndAgrees
  <2>6. OrderAgrees'
    BY <1>5 DEF LoopReturns, OrderAgrees
  <2>7. QED
    BY <2>1, <2>2, <2>3, <2>4, <2>5, <2>6
<1>6. CASE RenderBegins
  <2>1. TypeOK'
    BY <1>6 DEF RenderBegins, TypeOK
  <2>2. CommandsAgree'
    BY <1>6 DEF RenderBegins, CommandsAgree
  <2>3. PacketAgrees'
    BY <1>6 DEF RenderBegins, PacketAgrees
  <2>4. FrameAgrees'
    BY <1>6 DEF RenderBegins, FrameLockFree, FrameAgrees
  <2>5. EndAgrees'
    BY <1>6 DEF RenderBegins, EndAgrees
  <2>6. OrderAgrees'
    BY <1>6 DEF RenderBegins, OrderAgrees
  <2>7. QED
    BY <2>1, <2>2, <2>3, <2>4, <2>5, <2>6
<1>7. CASE RenderEnds
  <2>1. TypeOK'
    BY <1>7 DEF RenderEnds, TypeOK
  <2>2. CommandsAgree'
    BY <1>7 DEF RenderEnds, CommandsAgree
  <2>3. PacketAgrees'
    BY <1>7 DEF RenderEnds, PacketAgrees
  <2>4. FrameAgrees'
    BY <1>7 DEF RenderEnds, FrameAgrees
  <2>5. EndAgrees'
    BY <1>7 DEF RenderEnds, EndAgrees
  <2>6. OrderAgrees'
    BY <1>7 DEF RenderEnds, TypeOK, OrderAgrees
  <2>7. QED
    BY <2>1, <2>2, <2>3, <2>4, <2>5, <2>6
<1>8. CASE FrameFinished
  <2>1. TypeOK'
    BY <1>8 DEF FrameFinished, TypeOK
  <2>2. CommandsAgree'
    BY <1>8 DEF FrameFinished, CommandsAgree
  <2>3. PacketAgrees'
    BY <1>8 DEF FrameFinished, PacketAgrees
  <2>4. FrameAgrees'
    BY <1>8 DEF FrameFinished, FrameAgrees
  <2>5. EndAgrees'
    BY <1>8 DEF FrameFinished, EndAgrees
  <2>6. OrderAgrees'
    BY <1>8 DEF FrameFinished, OrderAgrees
  <2>7. QED
    BY <2>1, <2>2, <2>3, <2>4, <2>5, <2>6
<1>9. QED
  BY <1>1, <1>2, <1>3, <1>4, <1>5, <1>6, <1>7, <1>8 DEF ThreadStep

\* No step of a call that the user is in breaks it.
LEMMA UserGoesOnKeepsIInv ==
  ASSUME IInv, UserGoesOn
  PROVE  IInv'
<1> USE VideoThreadAssumption
   DEF Commands, IInv, command, user, thread, driver, frame, flags, vars
<1>1. CASE SendInit
  <2>1. TypeOK'
    BY <1>1 DEF SendInit, video_thread_send_packet, TypeOK
  <2>2. CommandsAgree'
    BY <1>1 DEF SendInit, video_thread_send_packet, CommandsAgree
  <2>3. PacketAgrees'
    BY <1>1 DEF SendInit, video_thread_send_packet, PacketAgrees
  <2>4. FrameAgrees'
    BY <1>1 DEF SendInit, video_thread_send_packet, FrameAgrees
  <2>5. EndAgrees'
    BY <1>1 DEF SendInit, video_thread_send_packet, EndAgrees
  <2>6. OrderAgrees'
    BY <1>1 DEF SendInit, video_thread_send_packet, OrderAgrees
  <2>7. QED
    BY <2>1, <2>2, <2>3, <2>4, <2>5, <2>6
<1>2. CASE video_thread_wait_reply
  <2>1. TypeOK'
    BY <1>2 DEF video_thread_wait_reply, TypeOK
  <2>2. CommandsAgree'
    BY <1>2 DEF video_thread_wait_reply, CommandsAgree
  <2>3. PacketAgrees'
    BY <1>2 DEF video_thread_wait_reply, PacketAgrees
  <2>4. FrameAgrees'
    BY <1>2 DEF video_thread_wait_reply, FrameAgrees
  <2>5. EndAgrees'
    BY <1>2 DEF video_thread_wait_reply, EndAgrees
  <2>6. OrderAgrees'
    BY <1>2 DEF video_thread_wait_reply, OrderAgrees
  <2>7. QED
    BY <2>1, <2>2, <2>3, <2>4, <2>5, <2>6
<1>3. CASE Join
  <2>1. TypeOK'
    BY <1>3 DEF Join, TypeOK
  <2>2. CommandsAgree'
    BY <1>3 DEF Join, CommandsAgree
  <2>3. PacketAgrees'
    BY <1>3 DEF Join, PacketAgrees
  <2>4. FrameAgrees'
    BY <1>3 DEF Join, FrameAgrees
  <2>5. EndAgrees'
    BY <1>3 DEF Join, EndAgrees
  <2>6. OrderAgrees'
    BY <1>3 DEF Join, OrderAgrees
  <2>7. QED
    BY <2>1, <2>2, <2>3, <2>4, <2>5, <2>6
<1>4. CASE DirectReturns
  <2>1. TypeOK'
    BY <1>4 DEF DirectReturns, TypeOK
  <2>2. CommandsAgree'
    BY <1>4 DEF DirectReturns, CommandsAgree
  <2>3. PacketAgrees'
    BY <1>4 DEF DirectReturns, PacketAgrees
  <2>4. FrameAgrees'
    BY <1>4 DEF DirectReturns, FrameAgrees
  <2>5. EndAgrees'
    BY <1>4 DEF DirectReturns, EndAgrees
  <2>6. OrderAgrees'
    BY <1>4 DEF DirectReturns, OrderAgrees
  <2>7. QED
    BY <2>1, <2>2, <2>3, <2>4, <2>5, <2>6
<1>5. CASE FrameWaits
  <2>1. TypeOK'
    BY <1>5 DEF FrameWaits, TakeOrDrop, TypeOK
  <2>2. CommandsAgree'
    BY <1>5 DEF FrameWaits, TakeOrDrop, CommandsAgree
  <2>3. PacketAgrees'
    BY <1>5 DEF FrameWaits, TakeOrDrop, PacketAgrees
  <2>4. FrameAgrees'
    BY <1>5 DEF FrameWaits, TakeOrDrop, FrameAgrees
  <2>5. EndAgrees'
    BY <1>5 DEF FrameWaits, TakeOrDrop, EndAgrees
  <2>6. OrderAgrees'
    BY <1>5 DEF FrameWaits, OrderAgrees
  <2>7. QED
    BY <2>1, <2>2, <2>3, <2>4, <2>5, <2>6
<1>6. CASE FrameCopied
  <2>1. TypeOK'
    BY ZenonT(30), <1>6 DEF FrameCopied, TypeOK
  <2>2. CommandsAgree'
    BY <1>6 DEF FrameCopied, CommandsAgree
  <2>3. PacketAgrees'
    BY <1>6 DEF FrameCopied, PacketAgrees
  <2>4. FrameAgrees'
    BY <1>6 DEF FrameCopied, FrameAgrees
  <2>5. EndAgrees'
    BY <1>6 DEF FrameCopied, EndAgrees
  <2>6. OrderAgrees'
    BY <1>6 DEF FrameCopied, TypeOK, OrderAgrees
  <2>7. QED
    BY <2>1, <2>2, <2>3, <2>4, <2>5, <2>6
<1>7. CASE MenuWaits
  <2>1. TypeOK'
    BY ZenonT(30), <1>7 DEF MenuWaits, TypeOK
  <2>2. CommandsAgree'
    BY <1>7 DEF MenuWaits, CommandsAgree
  <2>3. PacketAgrees'
    BY <1>7 DEF MenuWaits, PacketAgrees
  <2>4. FrameAgrees'
    BY <1>7 DEF MenuWaits, FrameAgrees
  <2>5. EndAgrees'
    BY <1>7 DEF MenuWaits, EndAgrees
  <2>6. OrderAgrees'
    BY <1>7 DEF MenuWaits, OrderAgrees
  <2>7. QED
    BY <2>1, <2>2, <2>3, <2>4, <2>5, <2>6
<1>8. CASE ResourcesFreed
  <2>1. TypeOK'
    BY <1>8 DEF ResourcesFreed, TypeOK
  <2>2. CommandsAgree'
    BY <1>8 DEF ResourcesFreed, CommandsAgree
  <2>3. PacketAgrees'
    BY <1>8 DEF ResourcesFreed, PacketAgrees
  <2>4. FrameAgrees'
    BY <1>8 DEF ResourcesFreed, FrameAgrees
  <2>5. EndAgrees'
    BY <1>8 DEF ResourcesFreed, EndAgrees
  <2>6. OrderAgrees'
    BY <1>8 DEF ResourcesFreed, OrderAgrees
  <2>7. QED
    BY <2>1, <2>2, <2>3, <2>4, <2>5, <2>6
<1>9. CASE TextureCopied
  <2>1. TypeOK'
    BY <1>9 DEF TextureCopied, TypeOK
  <2>2. CommandsAgree'
    BY <1>9 DEF TextureCopied, CommandsAgree
  <2>3. PacketAgrees'
    BY <1>9 DEF TextureCopied, PacketAgrees
  <2>4. FrameAgrees'
    BY <1>9 DEF TextureCopied, FrameAgrees
  <2>5. EndAgrees'
    BY <1>9 DEF TextureCopied, EndAgrees
  <2>6. OrderAgrees'
    BY <1>9 DEF TextureCopied, OrderAgrees
  <2>7. QED
    BY <2>1, <2>2, <2>3, <2>4, <2>5, <2>6
<1>10. CASE upc = "idle_wait" /\ video_thread_wait_idle
  <2>1. TypeOK'
    BY ZenonT(30), <1>10 DEF video_thread_wait_idle, TypeOK
  <2>2. CommandsAgree'
    BY <1>10 DEF video_thread_wait_idle, CommandsAgree
  <2>3. PacketAgrees'
    BY <1>10 DEF video_thread_wait_idle, PacketAgrees
  <2>4. FrameAgrees'
    BY <1>10 DEF video_thread_wait_idle, FrameAgrees
  <2>5. EndAgrees'
    BY <1>10 DEF video_thread_wait_idle, EndAgrees
  <2>6. OrderAgrees'
    BY <1>10 DEF video_thread_wait_idle, OrderAgrees
  <2>7. QED
    BY <2>1, <2>2, <2>3, <2>4, <2>5, <2>6
<1>11. QED
  BY <1>1, <1>2, <1>3, <1>4, <1>5, <1>6, <1>7, <1>8, <1>9, <1>10 DEF UserGoesOn

\* No call that begins breaks it.
LEMMA UserCallsKeepsIInv ==
  ASSUME IInv, UserCalls
  PROVE  IInv'
<1> USE VideoThreadAssumption
   DEF Commands, IInv, command, user, thread, driver, frame, flags, vars
<1>1. CASE \E c \in Commands \ {"init"} : Send(c)
  <2>1. TypeOK'
    BY <1>1 DEF Send, video_thread_send_packet, TypeOK
  <2>2. CommandsAgree'
    BY <1>1 DEF Send, video_thread_send_packet, CommandsAgree
  <2>3. PacketAgrees'
    BY <1>1 DEF Send, video_thread_send_packet, PacketAgrees
  <2>4. FrameAgrees'
    BY <1>1 DEF Send, video_thread_send_packet, FrameAgrees
  <2>5. EndAgrees'
    BY <1>1 DEF Send, video_thread_send_packet, EndAgrees
  <2>6. OrderAgrees'
    BY <1>1 DEF Send, video_thread_send_packet, OrderAgrees
  <2>7. QED
    BY <2>1, <2>2, <2>3, <2>4, <2>5, <2>6
<1>2. CASE CallsDirectly
  <2>1. TypeOK'
    BY <1>2 DEF CallsDirectly, TypeOK
  <2>2. CommandsAgree'
    BY <1>2 DEF CallsDirectly, CommandsAgree
  <2>3. PacketAgrees'
    BY <1>2 DEF CallsDirectly, PacketAgrees
  <2>4. FrameAgrees'
    BY <1>2 DEF CallsDirectly, FrameAgrees
  <2>5. EndAgrees'
    BY <1>2 DEF CallsDirectly, EndAgrees
  <2>6. OrderAgrees'
    BY <1>2 DEF CallsDirectly, OrderAgrees
  <2>7. QED
    BY <2>1, <2>2, <2>3, <2>4, <2>5, <2>6
<1>3. CASE FrameBegins
  <2>1. TypeOK'
    <3>1. ({send_cmd, reply_cmd, cmd_data, cmd, pkt} \subseteq Commands \cup {"none"}
           /\ {updated, within_thread, alive, nonblock, driver_data, upd} \subseteq BOOLEAN)'
      BY <1>3 DEF FrameBegins, TypeOK
    <3>2. ({buffer, count, shown} \subseteq 0..MaxFrames
           /\ texture \in [enable : BOOLEAN, frame_updated : BOOLEAN])'
      BY <1>3 DEF FrameBegins, TypeOK
    <3>3. (ran \in [command : Commands \cup {"none"}, odd : BOOLEAN])'
      BY <1>3 DEF FrameBegins, TypeOK
    <3>4. (upc \in {"init", "ready", "wait_reply", "frame_wait", "copy", "menu_wait",
                      "idle_wait", "freeing", "texture", "direct", "join", "freed", "failed"}
           /\ tpc \in {"wait", "handle", "viewport", "reply", "frame", "render", "finish",
                         "quit", "gone"}
           /\ asleep \subseteq {"user", "thread"}
           /\ ("user" \in asleep =>
                 upc \in {"wait_reply", "frame_wait", "menu_wait", "idle_wait"})
           /\ ("thread" \in asleep => tpc = "wait"))'
      BY <1>3 DEF FrameBegins, TakeOrDrop, TypeOK
    <3>5. QED
      BY <3>1, <3>2, <3>3, <3>4 DEF TypeOK
  <2>2. CommandsAgree'
    BY <1>3 DEF FrameBegins, TakeOrDrop, CommandsAgree
  <2>3. PacketAgrees'
    BY <1>3 DEF FrameBegins, TakeOrDrop, PacketAgrees
  <2>4. FrameAgrees'
    BY <1>3 DEF FrameBegins, TakeOrDrop, FrameAgrees
  <2>5. EndAgrees'
    BY <1>3 DEF FrameBegins, TakeOrDrop, EndAgrees
  <2>6. OrderAgrees'
    BY <1>3 DEF FrameBegins, TypeOK, OrderAgrees
  <2>7. QED
    BY <2>1, <2>2, <2>3, <2>4, <2>5, <2>6
<1>4. CASE TextureBegins
  <2>1. TypeOK'
    BY <1>4 DEF TextureBegins, TypeOK
  <2>2. CommandsAgree'
    BY <1>4 DEF TextureBegins, CommandsAgree
  <2>3. PacketAgrees'
    BY <1>4 DEF TextureBegins, PacketAgrees
  <2>4. FrameAgrees'
    BY <1>4 DEF TextureBegins, FrameLockFree, FrameAgrees
  <2>5. EndAgrees'
    BY <1>4 DEF TextureBegins, EndAgrees
  <2>6. OrderAgrees'
    BY <1>4 DEF TextureBegins, OrderAgrees
  <2>7. QED
    BY <2>1, <2>2, <2>3, <2>4, <2>5, <2>6
<1>5. CASE upc = "ready" /\ video_thread_wait_idle
  <2>1. TypeOK'
    BY ZenonT(30), <1>5 DEF video_thread_wait_idle, TypeOK
  <2>2. CommandsAgree'
    BY <1>5 DEF video_thread_wait_idle, CommandsAgree
  <2>3. PacketAgrees'
    BY <1>5 DEF video_thread_wait_idle, PacketAgrees
  <2>4. FrameAgrees'
    BY <1>5 DEF video_thread_wait_idle, FrameAgrees
  <2>5. EndAgrees'
    BY <1>5 DEF video_thread_wait_idle, EndAgrees
  <2>6. OrderAgrees'
    BY <1>5 DEF video_thread_wait_idle, OrderAgrees
  <2>7. QED
    BY <2>1, <2>2, <2>3, <2>4, <2>5, <2>6
<1>6. CASE \E state \in BOOLEAN : thread_set_texture_enable(state)
  <2>1. TypeOK'
    BY <1>6 DEF thread_set_texture_enable, TypeOK
  <2>2. CommandsAgree'
    BY <1>6 DEF thread_set_texture_enable, CommandsAgree
  <2>3. PacketAgrees'
    BY <1>6 DEF thread_set_texture_enable, PacketAgrees
  <2>4. FrameAgrees'
    BY <1>6 DEF thread_set_texture_enable, FrameAgrees
  <2>5. EndAgrees'
    BY <1>6 DEF thread_set_texture_enable, EndAgrees
  <2>6. OrderAgrees'
    BY <1>6 DEF thread_set_texture_enable, OrderAgrees
  <2>7. QED
    BY <2>1, <2>2, <2>3, <2>4, <2>5, <2>6
<1>7. CASE \E state \in BOOLEAN : video_thread_set_nonblock_state(state)
  <2>1. TypeOK'
    BY <1>7 DEF video_thread_set_nonblock_state, TypeOK
  <2>2. CommandsAgree'
    BY <1>7 DEF video_thread_set_nonblock_state, CommandsAgree
  <2>3. PacketAgrees'
    BY <1>7 DEF video_thread_set_nonblock_state, PacketAgrees
  <2>4. FrameAgrees'
    BY <1>7 DEF video_thread_set_nonblock_state, FrameAgrees
  <2>5. EndAgrees'
    BY <1>7 DEF video_thread_set_nonblock_state, EndAgrees
  <2>6. OrderAgrees'
    BY <1>7 DEF video_thread_set_nonblock_state, OrderAgrees
  <2>7. QED
    BY <2>1, <2>2, <2>3, <2>4, <2>5, <2>6
<1>8. QED
  BY <1>1, <1>2, <1>3, <1>4, <1>5, <1>6, <1>7 DEF UserCalls

\* IInv holds at every moment.
THEOREM Invariance == Spec => []IInv
<1>1. IInv /\ [Next]_vars => IInv'
  <2> SUFFICES ASSUME IInv, [Next]_vars PROVE IInv'
    OBVIOUS
  <2>1. CASE ThreadStep
    BY <2>1, ThreadKeepsIInv
  <2>2. CASE UserGoesOn
    BY <2>2, UserGoesOnKeepsIInv
  <2>3. CASE UserCalls
    BY <2>3, UserCallsKeepsIInv
  <2>4. CASE UNCHANGED vars
    BY <2>4 DEF IInv, TypeOK, CommandsAgree, PacketAgrees, FrameAgrees, EndAgrees,
       OrderAgrees, vars, command, user, thread, driver, frame, flags
  <2>5. QED
    BY <2>1, <2>2, <2>3, <2>4 DEF Next
<1>2. QED
  BY <1>1, InitIInv, PTL DEF Spec

\* Every variable of the wrapper keeps its type, and only a thread that waits is
\* asleep, for every set of commands and number of frames.
THEOREM TypeCorrect == Spec => []TypeOK
<1>1. IInv => TypeOK
  BY DEF IInv
<1>2. QED
  BY <1>1, Invariance, PTL

\* video_thread_frame never writes the buffer that the thread reads, although the two
\* hold different locks, nor thread_set_texture_frame the texture that is uploaded.
THEOREM NeverTorn == Spec => []NoTear
<1>1. IInv => NoTear
  BY DEF IInv, PacketAgrees, FrameAgrees, NoTear
<1>2. QED
  BY <1>1, Invariance, PTL

\* After video_thread_wait_idle the thread renders nothing, and is not about to, until
\* the user has freed what it wanted to free.
THEOREM Idle == Spec => []IdleIsIdle
<1>1. IInv => IdleIsIdle
  BY DEF IInv, PacketAgrees, FrameAgrees, IdleIsIdle
<1>2. QED
  BY <1>1, Invariance, PTL

\* video_thread_free frees the locks only when the thread is gone and has freed the
\* driver itself.
THEOREM FreedByThread == Spec => []FreedAlone
<1>1. IInv => FreedAlone
  BY DEF IInv, EndAgrees, FreedAlone
<1>2. QED
  BY <1>1, Invariance, PTL
-----------------------------------------------------------------------------
(* The driver implements the service of VideoService: each of its steps is *)
(* one of the service, or changes nothing that the service has.            *)

\* The variables of the service, as VideoThread has them.
Phase == IF upc # "wait_reply" THEN "none"
         ELSE IF reply_cmd = cmd \/ tpc \in {"viewport", "reply"} THEN "served"
         ELSE "asked"
Slot  == IF updated /\ tpc # "finish" THEN buffer ELSE 0
Open  == ran.command # "free"

Same == UNCHANGED <<Phase, ran, Slot, shown, Open>>

\* What leaves the five alone is a step that the service does not see.
LEMMA SameStutters == Same => UNCHANGED Service!vars
BY DEF Same, Phase, Slot, Open, Service!vars

\* A service that has just begun.
LEMMA InitService == Init => Service!Init
BY VideoThreadAssumption DEF Init, Service!Init, Commands

\* The thread serves a command, shows a frame, or is not seen.
LEMMA ThreadServes ==
  ASSUME IInv, ThreadStep
  PROVE  [Service!Next]_Service!vars
<1> USE VideoThreadAssumption
   DEF Commands, IInv, command, user, thread, driver, frame, flags
<1>1. CASE LoopWaits
  <2>1. Same
    BY <1>1 DEF LoopWaits, Same, Phase, Slot, Open
  <2>2. QED
    BY <2>1, SameStutters
<1>2. CASE HandlePacket /\ pkt = "none"
  <2>1. Same
    BY <1>2 DEF HandlePacket, AfterPacket, Same, Phase, Slot, Open
  <2>2. QED
    BY <2>1, SameStutters
<1>3. CASE HandlePacket /\ pkt # "none"
  <2>1. Service!Serve
    BY <1>3 DEF HandlePacket, Service!Serve, TypeOK, PacketAgrees, EndAgrees
  <2>2. QED
    BY <2>1 DEF Service!Next
<1>4. CASE ReadViewport
  <2>1. Same
    BY <1>4 DEF ReadViewport, Same, Phase, Slot, Open
  <2>2. QED
    BY <2>1, SameStutters
<1>5. CASE video_thread_reply
  <2>1. Same
    BY <1>5 DEF video_thread_reply, AfterPacket, Same, Phase, Slot, Open, PacketAgrees
  <2>2. QED
    BY <2>1, SameStutters
<1>6. CASE LoopReturns
  <2>1. Same
    BY <1>6 DEF LoopReturns, Same, Phase, Slot, Open
  <2>2. QED
    BY <2>1, SameStutters
<1>7. CASE RenderBegins
  <2>1. Same
    BY <1>7 DEF RenderBegins, Same, Phase, Slot, Open
  <2>2. QED
    BY <2>1, SameStutters
<1>8. CASE RenderEnds
  <2>1. Service!Show
    BY <1>8 DEF RenderEnds, Service!Show, TypeOK, FrameAgrees, EndAgrees, OrderAgrees
  <2>2. QED
    BY <2>1 DEF Service!Next
<1>9. CASE FrameFinished
  <2>1. Same
    BY <1>9 DEF FrameFinished, Same, Phase, Slot, Open
  <2>2. QED
    BY <2>1, SameStutters
<1>10. QED
  BY <1>1, <1>2, <1>3, <1>4, <1>5, <1>6, <1>7, <1>8, <1>9 DEF ThreadStep

\* The user gets the first command in, a reply or a frame, or is not seen.
LEMMA UserIsServed ==
  ASSUME IInv, UserGoesOn
  PROVE  [Service!Next]_Service!vars
<1> USE VideoThreadAssumption
   DEF Commands, IInv, command, user, thread, driver, frame, flags
<1>1. CASE SendInit
  <2>1. Service!Ask
    BY <1>1 DEF SendInit, video_thread_send_packet, Service!Ask, PacketAgrees, EndAgrees
  <2>2. QED
    BY <2>1 DEF Service!Next
<1>2. CASE video_thread_wait_reply /\ reply_cmd = cmd
  <2>1. Service!Return
    BY <1>2 DEF video_thread_wait_reply, Service!Return
  <2>2. QED
    BY <2>1 DEF Service!Next
<1>3. CASE video_thread_wait_reply /\ reply_cmd # cmd
  <2>1. Same
    BY <1>3 DEF video_thread_wait_reply, Same, Phase, Slot, Open
  <2>2. QED
    BY <2>1, SameStutters
<1>4. CASE Join
  <2>1. Same
    BY <1>4 DEF Join, Same, Phase, Slot, Open
  <2>2. QED
    BY <2>1, SameStutters
<1>5. CASE DirectReturns
  <2>1. Same
    BY <1>5 DEF DirectReturns, Same, Phase, Slot, Open
  <2>2. QED
    BY <2>1, SameStutters
<1>6. CASE FrameWaits
  <2>1. Same
    BY <1>6 DEF FrameWaits, TakeOrDrop, Same, Phase, Slot, Open
  <2>2. QED
    BY <2>1, SameStutters
<1>7. CASE FrameCopied
  <2>1. Service!Submit
    BY <1>7 DEF FrameCopied, Service!Submit, TypeOK, PacketAgrees, FrameAgrees, EndAgrees,
       OrderAgrees
  <2>2. QED
    BY <2>1 DEF Service!Next
<1>8. CASE MenuWaits
  <2>1. Same
    BY <1>8 DEF MenuWaits, Same, Phase, Slot, Open
  <2>2. QED
    BY <2>1, SameStutters
<1>9. CASE ResourcesFreed
  <2>1. Same
    BY <1>9 DEF ResourcesFreed, Same, Phase, Slot, Open
  <2>2. QED
    BY <2>1, SameStutters
<1>10. CASE TextureCopied
  <2>1. Same
    BY <1>10 DEF TextureCopied, Same, Phase, Slot, Open
  <2>2. QED
    BY <2>1, SameStutters
<1>11. CASE upc = "idle_wait" /\ video_thread_wait_idle
  <2>1. Same
    BY <1>11 DEF video_thread_wait_idle, Same, Phase, Slot, Open
  <2>2. QED
    BY <2>1, SameStutters
<1>12. QED
  BY <1>1, <1>2, <1>3, <1>4, <1>5, <1>6, <1>7, <1>8, <1>9, <1>10, <1>11 DEF UserGoesOn

\* A new call asks for a command, or is not seen.
LEMMA UserAsks ==
  ASSUME IInv, UserCalls
  PROVE  [Service!Next]_Service!vars
<1> USE VideoThreadAssumption
   DEF Commands, IInv, command, user, thread, driver, frame, flags
<1>1. CASE \E c \in Commands \ {"init"} : Send(c)
  <2>1. Service!Ask
    BY <1>1 DEF Send, video_thread_send_packet, Service!Ask, PacketAgrees, EndAgrees
  <2>2. QED
    BY <2>1 DEF Service!Next
<1>2. CASE CallsDirectly
  <2>1. Same
    BY <1>2 DEF CallsDirectly, Same, Phase, Slot, Open
  <2>2. QED
    BY <2>1, SameStutters
<1>3. CASE FrameBegins
  <2>1. Same
    BY <1>3 DEF FrameBegins, TakeOrDrop, Same, Phase, Slot, Open
  <2>2. QED
    BY <2>1, SameStutters
<1>4. CASE TextureBegins
  <2>1. Same
    BY <1>4 DEF TextureBegins, Same, Phase, Slot, Open
  <2>2. QED
    BY <2>1, SameStutters
<1>5. CASE upc = "ready" /\ video_thread_wait_idle
  <2>1. Same
    BY <1>5 DEF video_thread_wait_idle, Same, Phase, Slot, Open
  <2>2. QED
    BY <2>1, SameStutters
<1>6. CASE \E state \in BOOLEAN : thread_set_texture_enable(state)
  <2>1. Same
    BY <1>6 DEF thread_set_texture_enable, Same, Phase, Slot, Open
  <2>2. QED
    BY <2>1, SameStutters
<1>7. CASE \E state \in BOOLEAN : video_thread_set_nonblock_state(state)
  <2>1. Same
    BY <1>7 DEF video_thread_set_nonblock_state, Same, Phase, Slot, Open
  <2>2. QED
    BY <2>1, SameStutters
<1>8. QED
  BY <1>1, <1>2, <1>3, <1>4, <1>5, <1>6, <1>7 DEF UserCalls

\* The threaded driver of gfx/video_thread_wrapper.c serves its one caller as
\* VideoService promises: a command is run once, before the call that gave it
\* returns, and the frames that are taken are shown once each, in order.
THEOREM Implements == Spec => ImplementsService
<1>1. IInv /\ [Next]_vars => [Service!Next]_Service!vars
  <2> SUFFICES ASSUME IInv, [Next]_vars PROVE [Service!Next]_Service!vars
    OBVIOUS
  <2>1. CASE ThreadStep
    BY <2>1, ThreadServes
  <2>2. CASE UserGoesOn
    BY <2>2, UserIsServed
  <2>3. CASE UserCalls
    BY <2>3, UserAsks
  <2>4. CASE UNCHANGED vars
    <3>1. Same
      BY <2>4 DEF vars, command, user, thread, driver, frame, flags, Same, Phase, Slot, Open
    <3>2. QED
      BY <3>1, SameStutters
  <2>5. QED
    BY <2>1, <2>2, <2>3, <2>4 DEF Next
<1>2. QED
  BY <1>1, InitService, Invariance, PTL DEF Spec, ImplementsService, Service!Spec
=============================================================================
