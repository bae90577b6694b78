------------------------- MODULE FrameOutputProofs --------------------------
(***************************************************************************)
(* Proofs about FrameOutput, for any number of buffers, of slots, of frames *)
(* and of slow waits: what goes to the panel is not written, is the newest  *)
(* frame, and never goes back to an older one.                              *)
(***************************************************************************)
EXTENDS FrameOutput, TLAPS

(* The settings whose pictures are sound: zero copy does not pin the first  *)
(* address and does not pan; the dblbuf mode waits for the pulse and has a  *)
(* slot to spare.  The other settings show torn or old frames.              *)
SoundSetting(m) ==
  /\ m.zeroCopy => m.noPin /\ ~m.pan
  /\ m.dblBuf /\ ~m.flipBuf /\ FbSlots > 1 /\ m.pan
       => m.panVsync /\ FbSlots > 2

SoundSettings == \A m \in Modes : SoundSetting(m)

-----------------------------------------------------------------------------
(* The inductive invariant.                                                 *)

(* The controller has and scans nothing but these places.                   *)
Shows(places) == {armed, scanned} \subseteq places \cup {None}

(* A panel that is not on scans nothing, one that is off has lost its layer.*)
PanelInv ==
  /\ ~zcOff
  /\ power # "on" => scanned = None
  /\ power = "off" => armed = None

(* Where the main thread is tells who writes, and what it has in its hands. *)
MainInv ==
  /\ SoundSetting(mode)
  /\ gpu # None => pc \in {"drawing", "post", "copy"} /\ gpu = back
  /\ pc = "drawing" => back # None /\ back # current /\ back \notin free
  /\ pc \notin {"idle", "drawing"} => current # None /\ current = back
  /\ current \notin free
  /\ copyTo # None => pc \in {"copying", "panning"}
  /\ pc = "copying" => copyTo = 0
  /\ pc = "panning" => copyTo = nextBuf /\ Copies
  /\ pc \in {"flip", "flipwait", "long", "display", "vsync"} => mode.zeroCopy
  /\ pc \in {"pan", "panning", "panwait"} => mode.pan
  /\ pc = "display" => osd # None

(* Zero copy: the controller is at the target or, from the time a frame is  *)
(* queued to the pulse that latches it, at a buffer nobody draws.  Once the *)
(* waits were switched off, only what is armed is known.                    *)
DirectInv ==
  mode.zeroCopy =>
    /\ gpu # None => pc \in {"drawing", "post"}
    /\ zcSync =>
       /\ pc \in {"idle", "drawing"} => Shows({current})
       /\ pc = "post" => Shows(Bufs \ {current})
       /\ pc \in {"flip", "flipwait", "long", "display", "vsync"}
            => Shows(Bufs)
       /\ pc \in {"flipwait", "vsync"} /\ pulsed => Shows({current})
    /\ pc \in {"idle", "flipwait", "vsync"} => armed \in {None, current}
    /\ pc \in {"copy", "copying"} => Shows({})
    /\ pc = "display" => osd = current

(* dblbuf: the controller is at the slot of the last pan, and gralloc's     *)
(* slot 0 is never shown; while the next slot is filled it is a third one.  *)
CopiesInv ==
  ~mode.zeroCopy /\ Copies =>
    /\ Shows(Slots \ {0})
    /\ pc \notin {"panwait", "panning"} => Shows({nextBuf})
    /\ pc = "panning" => Shows(Slots \ {0, nextBuf}) /\ nextBuf # 0
    /\ pc = "panwait" => armed \in {None, nextBuf} /\ nextBuf # 0
    /\ pc = "panwait" /\ pulsed => Shows({nextBuf})

(* The frame in the making is newer than all of memory; once drawn, copied  *)
(* and panned, it is in the target, in slot 0 and where the controller is.  *)
ContentInv ==
  /\ \A l \in Locations : mem[l] <= frame
  /\ pc \in {"drawing", "post"} /\ gpu = None => mem[back] = frame
  /\ pc \notin {"idle", "drawing", "post"} /\ gpu = None
       => mem[current] = frame
  /\ pc \in {"pan", "panning"} => mem[0] = frame
  /\ ~mode.flipBuf /\ pc \in {"panwait", "vsync"} /\ armed # None
       => mem[armed] = frame
  /\ ~mode.zeroCopy /\ ~mode.pan => Shows({})
  /\ ~mode.zeroCopy /\ mode.pan /\ ~Copies /\ ~(mode.flipBuf /\ FbSlots > 1)
       => Shows({0})

(* What the next pulse latches is not older than what is scanned.           *)
OrderInv ==
  /\ ArmedIsNewest
  /\ zcSync /\ ~mode.flipBuf /\ armed # None /\ scanned # None
       => mem[armed] >= mem[scanned]

IInv ==
  /\ TypeOK /\ PanelInv /\ MainInv /\ DirectInv /\ CopiesInv
  /\ ContentInv /\ OrderInv

USE FrameOutputConstants DEF FrameOutputConstants, Settings, Locations, Slots

(* CopySlot is a slot other than 0 and than the last one.                   *)
LEMMA Slot ==
  ASSUME FbSlots > 2, NEW n \in Slots
  PROVE  CopySlot(n) \in Slots \ {0, n}
<1>1. CASE n < FbSlots - 1
  <2>1. n % (FbSlots - 1) = n
    BY <1>1
  <2> QED BY <2>1, <1>1 DEF CopySlot
<1>2. CASE n = FbSlots - 1
  <2>1. n % (FbSlots - 1) = 0
    BY <1>2
  <2> QED BY <2>1, <1>2 DEF CopySlot
<1> QED BY <1>1, <1>2

-----------------------------------------------------------------------------
(* Each action keeps the invariant.                                         *)

LEMMA RenderKeeps ==
  ASSUME IInv, Render
  PROVE  IInv'
<1>1. /\ TypeOK' /\ PanelInv' /\ MainInv' /\ DirectInv'
     /\ CopiesInv' /\ ContentInv' /\ OrderInv'
  BY SMT
    DEF IInv, Render, TypeOK, PanelInv, MainInv, DirectInv, CopiesInv,
       ContentInv, OrderInv, Goes, zcVars, dispcVars, SoundSetting, Copies,
       Shows, ArmedIsNewest
<1> QED
  BY <1>1 DEF IInv

LEMMA GpuFinishesKeeps ==
  ASSUME IInv, GpuFinishes
  PROVE  IInv'
<1>1. TypeOK' /\ PanelInv' /\ MainInv' /\ DirectInv' /\ CopiesInv'
  BY SMT
    DEF IInv, GpuFinishes, TypeOK, PanelInv, MainInv, DirectInv, CopiesInv,
       frameVars, zcVars, dispcVars, SoundSetting, Copies, Shows
<1>2. ContentInv'
  BY SMT
    DEF IInv, GpuFinishes, TypeOK, MainInv, ContentInv, frameVars, zcVars,
       dispcVars, SoundSetting, Copies, Shows
<1>3. OrderInv'
  BY SMT
    DEF IInv, GpuFinishes, TypeOK, MainInv, DirectInv, CopiesInv, ContentInv,
       OrderInv, frameVars, zcVars, dispcVars, SoundSetting, Copies, Shows,
       ArmedIsNewest
<1> QED
  BY <1>1, <1>2, <1>3 DEF IInv

LEMMA QueueBufferKeeps ==
  ASSUME IInv, QueueBuffer
  PROVE  IInv'
<1>1. /\ TypeOK' /\ PanelInv' /\ MainInv'
     /\ CopiesInv' /\ ContentInv' /\ OrderInv'
  BY SMT
    DEF IInv, QueueBuffer, TypeOK, PanelInv, MainInv, CopiesInv, ContentInv,
       OrderInv, Goes, memVars, zcVars, dispcVars, SoundSetting, Copies,
       Shows, ArmedIsNewest
<1>2. DirectInv'
  BY SMT
    DEF IInv, QueueBuffer, TypeOK, MainInv, DirectInv, Goes, memVars, zcVars,
       dispcVars, SoundSetting, Copies, Shows
<1> QED
  BY <1>1, <1>2 DEF IInv

LEMMA PostByCopyKeeps ==
  ASSUME IInv, PostByCopy
  PROVE  IInv'
<1>1. TypeOK' /\ PanelInv' /\ MainInv' /\ CopiesInv' /\ OrderInv'
  BY SMT
    DEF IInv, PostByCopy, TypeOK, PanelInv, MainInv, CopiesInv, OrderInv,
       Goes, frameVars, memVars, zcVars, dispcVars, SoundSetting, Copies,
       Shows, ArmedIsNewest
<1>2. DirectInv'
  BY SMT
    DEF IInv, PostByCopy, TypeOK, PanelInv, DirectInv, Goes, frameVars,
       memVars, zcVars, dispcVars, Shows
<1>3. ContentInv'
  BY SMT
    DEF IInv, PostByCopy, TypeOK, MainInv, ContentInv, Goes, frameVars,
       memVars, zcVars, dispcVars, SoundSetting, Copies, Shows
<1> QED
  BY <1>1, <1>2, <1>3 DEF IInv

LEMMA PostDirectlyKeeps ==
  ASSUME IInv, PostDirectly
  PROVE  IInv'
<1>1. /\ TypeOK' /\ PanelInv' /\ MainInv'
     /\ DirectInv' /\ CopiesInv' /\ OrderInv'
  BY SMT
    DEF IInv, PostDirectly, TypeOK, PanelInv, MainInv, DirectInv, CopiesInv,
       OrderInv, GpuDone, Goes, frameVars, memVars, zcVars, dispcVars,
       SoundSetting, Copies, Shows, ArmedIsNewest
<1>2. ContentInv'
  BY SMT
    DEF IInv, PostDirectly, TypeOK, MainInv, ContentInv, GpuDone, Goes,
       frameVars, memVars, zcVars, dispcVars, SoundSetting, Copies, Shows
<1> QED
  BY <1>1, <1>2 DEF IInv

LEMMA PageFlipKeeps ==
  ASSUME IInv, PageFlip
  PROVE  IInv'
<1>1. TypeOK'
  <2>1. {zcOff, zcFlip, zcNoFlip, zcSync, pulsed}' \subseteq BOOLEAN
    BY Zenon
      DEF IInv, TypeOK, PageFlip, Goes, Answers, Arm, frameVars, memVars,
         zcVars
  <2> QED
    BY <2>1, SMT
      DEF IInv, PageFlip, TypeOK, Goes, Answers, Arm, frameVars, memVars,
         zcVars
<1>2. PanelInv' /\ MainInv' /\ DirectInv'
  BY SMT
    DEF IInv, PageFlip, TypeOK, PanelInv, MainInv, DirectInv, Goes, Answers,
       Arm, frameVars, memVars, zcVars, SoundSetting, Copies, Shows
<1>3. CopiesInv'
  BY SMT
    DEF IInv, PageFlip, TypeOK, MainInv, CopiesInv, Goes, Answers, Arm,
       frameVars, memVars, zcVars, SoundSetting, Copies, Shows
<1>4. ContentInv'
  BY SMT
    DEF IInv, PageFlip, TypeOK, MainInv, ContentInv, Goes, Answers, Arm,
       frameVars, memVars, zcVars, SoundSetting, Copies, Shows
<1>5. OrderInv'
  BY SMT
    DEF IInv, PageFlip, TypeOK, MainInv, ContentInv, OrderInv, Goes, Answers,
       Arm, frameVars, memVars, zcVars, SoundSetting, Copies, Shows,
       ArmedIsNewest
<1> QED
  BY <1>1, <1>2, <1>3, <1>4, <1>5 DEF IInv

LEMMA FlipLatchedKeeps ==
  ASSUME IInv, FlipLatched
  PROVE  IInv'
<1>1. TypeOK' /\ PanelInv' /\ MainInv' /\ DirectInv' /\ CopiesInv'
  BY SMT
    DEF IInv, FlipLatched, TypeOK, PanelInv, MainInv, DirectInv, CopiesInv,
       Goes, AfterPost, frameVars, memVars, zcVars, dispcVars, SoundSetting,
       Copies, Shows
<1>2. ContentInv'
  BY SMT
    DEF IInv, FlipLatched, TypeOK, MainInv, ContentInv, Goes, AfterPost,
       frameVars, memVars, zcVars, dispcVars, SoundSetting, Copies, Shows
<1>3. OrderInv'
  BY SMT
    DEF IInv, FlipLatched, TypeOK, MainInv, DirectInv, ContentInv, OrderInv,
       Goes, AfterPost, frameVars, memVars, zcVars, dispcVars, SoundSetting,
       Copies, Shows, ArmedIsNewest
<1> QED
  BY <1>1, <1>2, <1>3 DEF IInv

LEMMA FlipFailsKeeps ==
  ASSUME IInv, FlipFails
  PROVE  IInv'
<1>1. TypeOK'
  <2>1. {zcOff, zcFlip, zcNoFlip, zcSync, pulsed}' \subseteq BOOLEAN
    BY Zenon
      DEF IInv, TypeOK, FlipFails, Answers, frameVars, memVars, dispcVars
  <2> QED
    BY <2>1, SMT
      DEF IInv, FlipFails, TypeOK, Answers, frameVars, memVars, dispcVars
<1>2. /\ PanelInv' /\ MainInv' /\ DirectInv'
     /\ CopiesInv' /\ ContentInv' /\ OrderInv'
  BY SMT
    DEF IInv, FlipFails, TypeOK, PanelInv, MainInv, DirectInv, CopiesInv,
       ContentInv, OrderInv, Answers, frameVars, memVars, dispcVars,
       SoundSetting, Copies, Shows, ArmedIsNewest
<1> QED
  BY <1>1, <1>2 DEF IInv

LEMMA SetOverlayKeeps ==
  ASSUME IInv, SetOverlay
  PROVE  IInv'
<1>1. /\ TypeOK' /\ PanelInv' /\ MainInv'
     /\ CopiesInv' /\ ContentInv' /\ OrderInv'
  BY SMT
    DEF IInv, SetOverlay, TypeOK, PanelInv, MainInv, CopiesInv, ContentInv,
       OrderInv, Goes, Answers, Pinned, Presented, frameVars, memVars,
       dispcVars, SoundSetting, Copies, Shows, ArmedIsNewest
<1>2. DirectInv'
  BY SMT
    DEF IInv, SetOverlay, TypeOK, MainInv, DirectInv, Goes, Answers, Pinned,
       Presented, frameVars, memVars, dispcVars, SoundSetting, Copies, Shows
<1> QED
  BY <1>1, <1>2 DEF IInv

LEMMA OverlayRefusedKeeps ==
  ASSUME IInv, OverlayRefused
  PROVE  IInv'
<1>1. /\ TypeOK' /\ PanelInv' /\ MainInv'
     /\ CopiesInv' /\ ContentInv' /\ OrderInv'
  BY SMT
    DEF IInv, OverlayRefused, TypeOK, PanelInv, MainInv, CopiesInv,
       ContentInv, OrderInv, Answers, Pinned, frameVars, memVars, dispcVars,
       SoundSetting, Copies, Shows, ArmedIsNewest
<1>2. DirectInv'
  BY SMT
    DEF IInv, OverlayRefused, TypeOK, PanelInv, DirectInv, Answers, Pinned,
       frameVars, memVars, dispcVars, Shows
<1> QED
  BY <1>1, <1>2 DEF IInv

LEMMA DisplayOverlayKeeps ==
  ASSUME IInv, DisplayOverlay
  PROVE  IInv'
<1>1. TypeOK'
  <2>1. {zcOff, zcFlip, zcNoFlip, zcSync, pulsed}' \subseteq BOOLEAN
    BY Zenon
      DEF IInv, TypeOK, DisplayOverlay, Goes, Answers, Arm, frameVars,
         memVars, zcVars
  <2> QED
    BY <2>1, SMT
      DEF IInv, DisplayOverlay, TypeOK, Goes, Answers, Arm, frameVars,
         memVars, zcVars
<1>2. PanelInv' /\ MainInv' /\ DirectInv'
  BY SMT
    DEF IInv, DisplayOverlay, TypeOK, PanelInv, MainInv, DirectInv, Goes,
       Answers, Arm, frameVars, memVars, zcVars, SoundSetting, Copies, Shows
<1>3. CopiesInv'
  BY SMT
    DEF IInv, DisplayOverlay, TypeOK, MainInv, CopiesInv, Goes, Answers, Arm,
       frameVars, memVars, zcVars, SoundSetting, Copies, Shows
<1>4. ContentInv'
  BY SMT
    DEF IInv, DisplayOverlay, TypeOK, MainInv, DirectInv, ContentInv, Goes,
       Answers, Arm, frameVars, memVars, zcVars, SoundSetting, Copies, Shows
<1>5. OrderInv'
  BY SMT
    DEF IInv, DisplayOverlay, TypeOK, MainInv, DirectInv, ContentInv,
       OrderInv, Goes, Answers, Arm, frameVars, memVars, zcVars, SoundSetting,
       Copies, Shows, ArmedIsNewest
<1> QED
  BY <1>1, <1>2, <1>3, <1>4, <1>5 DEF IInv

LEMMA SkipWaitKeeps ==
  ASSUME IInv, SkipWait
  PROVE  IInv'
<1>1. TypeOK' /\ PanelInv' /\ MainInv' /\ DirectInv' /\ CopiesInv'
  BY SMT
    DEF IInv, SkipWait, TypeOK, PanelInv, MainInv, DirectInv, CopiesInv, Goes,
       AfterPost, WaitIsOff, frameVars, memVars, dispcVars, SoundSetting,
       Copies, Shows
<1>2. ContentInv'
  BY SMT
    DEF IInv, SkipWait, TypeOK, MainInv, ContentInv, Goes, AfterPost,
       WaitIsOff, frameVars, memVars, dispcVars, SoundSetting, Copies, Shows
<1>3. OrderInv'
  BY SMT
    DEF IInv, SkipWait, TypeOK, MainInv, ContentInv, OrderInv, Goes,
       AfterPost, WaitIsOff, frameVars, memVars, dispcVars, SoundSetting,
       Copies, Shows, ArmedIsNewest
<1> QED
  BY <1>1, <1>2, <1>3 DEF IInv

LEMMA PulseSeenKeeps ==
  ASSUME IInv, PulseSeen
  PROVE  IInv'
<1>1. TypeOK' /\ PanelInv' /\ MainInv' /\ DirectInv' /\ CopiesInv'
  BY SMT
    DEF IInv, PulseSeen, TypeOK, PanelInv, MainInv, DirectInv, CopiesInv,
       Goes, AfterPost, frameVars, memVars, dispcVars, SoundSetting, Copies,
       Shows
<1>2. ContentInv'
  BY SMT
    DEF IInv, PulseSeen, TypeOK, MainInv, ContentInv, Goes, AfterPost,
       frameVars, memVars, dispcVars, SoundSetting, Copies, Shows
<1>3. OrderInv'
  BY SMT
    DEF IInv, PulseSeen, TypeOK, MainInv, ContentInv, OrderInv, Goes,
       AfterPost, frameVars, memVars, dispcVars, SoundSetting, Copies, Shows,
       ArmedIsNewest
<1> QED
  BY <1>1, <1>2, <1>3 DEF IInv

LEMMA PulseMissedKeeps ==
  ASSUME IInv, PulseMissed
  PROVE  IInv'
<1>1. TypeOK' /\ PanelInv' /\ MainInv' /\ CopiesInv'
  BY SMT
    DEF IInv, PulseMissed, TypeOK, PanelInv, MainInv, CopiesInv, Goes,
       AfterPost, TooSlow, frameVars, memVars, dispcVars, SoundSetting,
       Copies, Shows
<1>2. DirectInv'
  BY SMT
    DEF IInv, PulseMissed, TypeOK, PanelInv, DirectInv, Goes, AfterPost,
       TooSlow, frameVars, memVars, dispcVars, Shows
<1>3. ContentInv'
  BY SMT
    DEF IInv, PulseMissed, TypeOK, MainInv, ContentInv, Goes, AfterPost,
       TooSlow, frameVars, memVars, dispcVars, SoundSetting, Copies, Shows
<1>4. OrderInv'
  BY SMT
    DEF IInv, PulseMissed, TypeOK, MainInv, ContentInv, OrderInv, Goes,
       AfterPost, TooSlow, frameVars, memVars, dispcVars, SoundSetting,
       Copies, Shows, ArmedIsNewest
<1> QED
  BY <1>1, <1>2, <1>3, <1>4 DEF IInv

LEMMA WaitUnsupportedKeeps ==
  ASSUME IInv, WaitUnsupported
  PROVE  IInv'
<1>1. TypeOK'
  <2>1. {zcOff, zcFlip, zcNoFlip, zcSync, pulsed}' \subseteq BOOLEAN
    BY Zenon
      DEF IInv, TypeOK, WaitUnsupported, Goes, AfterPost, frameVars, memVars,
         dispcVars
  <2> QED
    BY <2>1, SMT
      DEF IInv, WaitUnsupported, TypeOK, Goes, AfterPost, frameVars, memVars,
         dispcVars
<1>2. PanelInv' /\ MainInv' /\ DirectInv' /\ CopiesInv'
  BY SMT
    DEF IInv, WaitUnsupported, TypeOK, PanelInv, MainInv, DirectInv,
       CopiesInv, Goes, AfterPost, frameVars, memVars, dispcVars,
       SoundSetting, Copies, Shows
<1>3. ContentInv'
  BY SMT
    DEF IInv, WaitUnsupported, TypeOK, MainInv, ContentInv, Goes, AfterPost,
       frameVars, memVars, dispcVars, SoundSetting, Copies, Shows
<1>4. OrderInv'
  BY SMT
    DEF IInv, WaitUnsupported, TypeOK, MainInv, ContentInv, OrderInv, Goes,
       AfterPost, frameVars, memVars, dispcVars, SoundSetting, Copies, Shows,
       ArmedIsNewest
<1> QED
  BY <1>1, <1>2, <1>3, <1>4 DEF IInv

LEMMA StartPostCopyKeeps ==
  ASSUME IInv, StartPostCopy
  PROVE  IInv'
<1>1. /\ TypeOK' /\ PanelInv' /\ MainInv' /\ DirectInv'
     /\ CopiesInv' /\ ContentInv' /\ OrderInv'
  BY SMT
    DEF IInv, StartPostCopy, TypeOK, PanelInv, MainInv, DirectInv, CopiesInv,
       ContentInv, OrderInv, Goes, frameVars, zcVars, dispcVars, SoundSetting,
       Copies, Shows, ArmedIsNewest
<1> QED
  BY <1>1 DEF IInv

LEMMA EndPostCopyKeeps ==
  ASSUME IInv, EndPostCopy
  PROVE  IInv'
<1>1. TypeOK'
  <2>1. {zcOff, zcFlip, zcNoFlip, zcSync, pulsed}' \subseteq BOOLEAN
    BY Zenon
      DEF IInv, TypeOK, EndPostCopy, Goes, AfterPost, frameVars, zcVars,
         dispcVars
  <2> QED
    BY <2>1, SMT
      DEF IInv, EndPostCopy, TypeOK, MainInv, Goes, AfterPost, frameVars,
         zcVars, dispcVars, SoundSetting, Copies
<1>2. PanelInv' /\ MainInv' /\ DirectInv' /\ CopiesInv'
  BY SMT
    DEF IInv, EndPostCopy, TypeOK, PanelInv, MainInv, DirectInv, CopiesInv,
       Goes, AfterPost, frameVars, zcVars, dispcVars, SoundSetting, Copies,
       Shows
<1>3. ContentInv'
  BY SMT
    DEF IInv, EndPostCopy, TypeOK, MainInv, ContentInv, Goes, AfterPost,
       frameVars, zcVars, dispcVars, SoundSetting, Copies, Shows
<1>4. OrderInv'
  BY SMT
    DEF IInv, EndPostCopy, TypeOK, MainInv, DirectInv, CopiesInv, ContentInv,
       OrderInv, Goes, AfterPost, frameVars, zcVars, dispcVars, SoundSetting,
       Copies, Shows, ArmedIsNewest
<1> QED
  BY <1>1, <1>2, <1>3, <1>4 DEF IInv

LEMMA PanFlipKeeps ==
  ASSUME IInv, PanFlip
  PROVE  IInv'
<1>1. TypeOK'
  <2>1. {zcOff, zcFlip, zcNoFlip, zcSync, pulsed}' \subseteq BOOLEAN
    BY Zenon
      DEF IInv, TypeOK, PanFlip, Goes, AfterPan, Arm, frameVars, memVars,
         zcVars, Answers
  <2> QED
    BY <2>1, SMT
      DEF IInv, PanFlip, TypeOK, Goes, AfterPan, Arm, frameVars, memVars,
         zcVars, Answers
<1>2. PanelInv' /\ MainInv' /\ DirectInv' /\ CopiesInv' /\ OrderInv'
  BY SMT
    DEF IInv, PanFlip, TypeOK, PanelInv, MainInv, DirectInv, CopiesInv,
       OrderInv, Goes, AfterPan, Arm, frameVars, memVars, zcVars,
       SoundSetting, Copies, Shows, ArmedIsNewest, Answers
<1>3. ContentInv'
  BY SMT
    DEF IInv, PanFlip, TypeOK, MainInv, ContentInv, Goes, AfterPan, Arm,
       frameVars, memVars, zcVars, SoundSetting, Copies, Shows, Answers
<1> QED
  BY <1>1, <1>2, <1>3 DEF IInv

LEMMA PanCopyKeeps ==
  ASSUME IInv, PanCopy
  PROVE  IInv'
<1>1. TypeOK'
  <2>1. {zcOff, zcFlip, zcNoFlip, zcSync, pulsed}' \subseteq BOOLEAN
    BY Zenon
      DEF IInv, TypeOK, PanCopy, Copies, Goes, frameVars, zcVars, dispcVars
  <2> QED
    BY <2>1, Slot, SMT
      DEF IInv, PanCopy, TypeOK, MainInv, Copies, Goes, frameVars, zcVars,
         dispcVars, SoundSetting
<1>2. PanelInv' /\ MainInv' /\ DirectInv' /\ ContentInv' /\ OrderInv'
  BY Slot, SMT
    DEF IInv, PanCopy, TypeOK, PanelInv, MainInv, DirectInv, ContentInv,
       OrderInv, Copies, Goes, frameVars, zcVars, dispcVars, SoundSetting,
       Shows, ArmedIsNewest
<1>3. CopiesInv'
  BY Slot, SMT
    DEF IInv, PanCopy, TypeOK, MainInv, CopiesInv, Copies, Goes, frameVars,
       zcVars, dispcVars, SoundSetting, Shows
<1> QED
  BY <1>1, <1>2, <1>3 DEF IInv

LEMMA PanCopiedKeeps ==
  ASSUME IInv, PanCopied
  PROVE  IInv'
<1>1. TypeOK'
  <2>1. {zcOff, zcFlip, zcNoFlip, zcSync, pulsed}' \subseteq BOOLEAN
    BY Zenon
      DEF IInv, TypeOK, PanCopied, Goes, AfterPan, Arm, frameVars, zcVars,
         Answers
  <2> QED
    BY <2>1, Slot, SMT
      DEF IInv, PanCopied, TypeOK, MainInv, Goes, AfterPan, Arm, frameVars,
         zcVars, SoundSetting, Copies, Answers
<1>2. PanelInv' /\ MainInv'
  BY Slot, SMT
    DEF IInv, PanCopied, TypeOK, PanelInv, MainInv, Goes, AfterPan, Arm,
       frameVars, zcVars, SoundSetting, Copies, Answers
<1>3. DirectInv'
  BY Slot, SMT
    DEF IInv, PanCopied, TypeOK, MainInv, DirectInv, Goes, AfterPan, Arm,
       frameVars, zcVars, SoundSetting, Copies, Shows, Answers
<1>4. CopiesInv'
  BY Slot, SMT
    DEF IInv, PanCopied, TypeOK, MainInv, PanelInv, CopiesInv, Goes, AfterPan,
       Arm, frameVars, zcVars, SoundSetting, Copies, Shows, Answers
<1>5. ContentInv'
  BY Slot, SMT
    DEF IInv, PanCopied, TypeOK, MainInv, PanelInv, ContentInv, Goes,
       AfterPan, Arm, frameVars, zcVars, SoundSetting, Copies, Shows, Answers
<1>6. OrderInv'
  BY Slot, SMT
    DEF IInv, PanCopied, TypeOK, MainInv, ContentInv, CopiesInv, OrderInv,
       Goes, AfterPan, Arm, frameVars, zcVars, SoundSetting, Copies, Shows,
       ArmedIsNewest, Answers
<1> QED
  BY <1>1, <1>2, <1>3, <1>4, <1>5, <1>6 DEF IInv

LEMMA PanSingleKeeps ==
  ASSUME IInv, PanSingle
  PROVE  IInv'
<1>1. TypeOK'
  <2>1. {zcOff, zcFlip, zcNoFlip, zcSync, pulsed}' \subseteq BOOLEAN
    BY Zenon
      DEF IInv, TypeOK, PanSingle, Copies, Goes, AfterPan, Arm, FirstSlot,
         frameVars, memVars, zcVars, Answers
  <2> QED
    BY <2>1, SMT
      DEF IInv, PanSingle, TypeOK, Copies, Goes, AfterPan, Arm, FirstSlot,
         frameVars, memVars, zcVars, Answers
<1>2. PanelInv' /\ MainInv' /\ CopiesInv'
  BY SMT
    DEF IInv, PanSingle, TypeOK, PanelInv, MainInv, CopiesInv, Copies, Goes,
       AfterPan, Arm, FirstSlot, frameVars, memVars, zcVars, SoundSetting,
       Shows, Answers
<1>3. DirectInv'
  BY SMT
    DEF IInv, PanSingle, TypeOK, MainInv, DirectInv, Copies, Goes, AfterPan,
       Arm, FirstSlot, frameVars, memVars, zcVars, SoundSetting, Shows,
       Answers
<1>4. ContentInv'
  BY SMT
    DEF IInv, PanSingle, TypeOK, MainInv, ContentInv, Copies, Goes, AfterPan,
       Arm, FirstSlot, frameVars, memVars, zcVars, SoundSetting, Shows,
       Answers
<1>5. OrderInv'
  BY SMT
    DEF IInv, PanSingle, TypeOK, MainInv, ContentInv, OrderInv, Copies, Goes,
       AfterPan, Arm, FirstSlot, frameVars, memVars, zcVars, SoundSetting,
       Shows, ArmedIsNewest, Answers
<1> QED
  BY <1>1, <1>2, <1>3, <1>4, <1>5 DEF IInv

LEMMA PanLatchedKeeps ==
  ASSUME IInv, PanLatched
  PROVE  IInv'
<1>1. TypeOK' /\ PanelInv' /\ MainInv' /\ ContentInv'
  BY SMT
    DEF IInv, PanLatched, TypeOK, PanelInv, MainInv, ContentInv, Goes,
       frameVars, memVars, zcVars, dispcVars, SoundSetting, Copies, Shows
<1>2. DirectInv'
  BY SMT
    DEF IInv, PanLatched, TypeOK, MainInv, DirectInv, Goes, frameVars,
       memVars, zcVars, dispcVars, SoundSetting, Copies, Shows
<1>3. CopiesInv'
  BY SMT
    DEF IInv, PanLatched, TypeOK, PanelInv, CopiesInv, Goes, frameVars,
       memVars, zcVars, dispcVars, Copies, Shows
<1>4. OrderInv'
  BY SMT
    DEF IInv, PanLatched, TypeOK, MainInv, ContentInv, OrderInv, Goes,
       frameVars, memVars, zcVars, dispcVars, SoundSetting, Copies, Shows,
       ArmedIsNewest
<1> QED
  BY <1>1, <1>2, <1>3, <1>4 DEF IInv

LEMMA PulseKeeps ==
  ASSUME IInv, Pulse, UNCHANGED <<pc, frameVars, memVars, zcVars, nextBuf>>
  PROVE  IInv'
<1>1. /\ TypeOK' /\ PanelInv' /\ MainInv' /\ DirectInv'
     /\ CopiesInv' /\ ContentInv' /\ OrderInv'
  BY SMT
    DEF IInv, Pulse, frameVars, memVars, zcVars, TypeOK, PanelInv, MainInv,
       DirectInv, CopiesInv, ContentInv, OrderInv, SoundSetting, Copies,
       Shows, ArmedIsNewest
<1> QED
  BY <1>1 DEF IInv

LEMMA PanelOffKeeps ==
  ASSUME IInv, PanelOff, UNCHANGED <<pc, frameVars, memVars, zcVars, nextBuf>>
  PROVE  IInv'
<1>1. /\ TypeOK' /\ PanelInv' /\ MainInv' /\ DirectInv'
     /\ CopiesInv' /\ ContentInv' /\ OrderInv'
  BY SMT
    DEF IInv, PanelOff, frameVars, memVars, zcVars, TypeOK, PanelInv, MainInv,
       DirectInv, CopiesInv, ContentInv, OrderInv, SoundSetting, Copies,
       Shows, ArmedIsNewest
<1> QED
  BY <1>1 DEF IInv

LEMMA PanelStartsKeeps ==
  ASSUME IInv, PanelStarts,
         UNCHANGED <<pc, frameVars, memVars, zcVars, nextBuf>>
  PROVE  IInv'
<1>1. /\ TypeOK' /\ PanelInv' /\ MainInv' /\ DirectInv'
     /\ CopiesInv' /\ ContentInv' /\ OrderInv'
  BY SMT
    DEF IInv, PanelStarts, frameVars, memVars, zcVars, TypeOK, PanelInv,
       MainInv, DirectInv, CopiesInv, ContentInv, OrderInv, SoundSetting,
       Copies, Shows, ArmedIsNewest
<1> QED
  BY <1>1 DEF IInv

LEMMA PanelRunsKeeps ==
  ASSUME IInv, PanelRuns, UNCHANGED <<pc, frameVars, memVars, zcVars, nextBuf>>
  PROVE  IInv'
<1>1. /\ TypeOK' /\ PanelInv' /\ MainInv' /\ DirectInv'
     /\ CopiesInv' /\ ContentInv' /\ OrderInv'
  BY SMT
    DEF IInv, PanelRuns, frameVars, memVars, zcVars, TypeOK, PanelInv,
       MainInv, DirectInv, CopiesInv, ContentInv, OrderInv, SoundSetting,
       Copies, Shows, ArmedIsNewest
<1> QED
  BY <1>1 DEF IInv

LEMMA StutterKeeps ==
  ASSUME IInv, UNCHANGED vars
  PROVE  IInv'
BY SMT
  DEF IInv, vars, frameVars, memVars, zcVars, dispcVars, TypeOK, PanelInv,
     MainInv, DirectInv, CopiesInv, ContentInv, OrderInv, ArmedIsNewest,
     Shows, Copies

-----------------------------------------------------------------------------
LEMMA InvHolds ==
  ASSUME SoundSettings
  PROVE  Spec => []IInv
<1>1. ASSUME Init PROVE IInv
  <2> USE <1>1 DEF Init, DispcInit
  <2>1. TypeOK
    <3>1. {zcOff, zcFlip, zcNoFlip, zcSync, pulsed} \subseteq BOOLEAN
      BY Zenon
    <3> QED
      BY <3>1, SMT DEF TypeOK
  <2>2. PanelInv /\ DirectInv /\ CopiesInv /\ OrderInv
    BY SMT DEF PanelInv, DirectInv, CopiesInv, OrderInv, ArmedIsNewest, Shows
  <2>3. MainInv
    BY SMT DEF MainInv, SoundSettings
  <2>4. ContentInv
    BY SMT DEF ContentInv, Shows
  <2> QED
    BY <2>1, <2>2, <2>3, <2>4 DEF IInv
<1>2. ASSUME IInv, [Next]_vars PROVE IInv'
  BY <1>2, Zenon, StutterKeeps, RenderKeeps, GpuFinishesKeeps,
     QueueBufferKeeps, PostByCopyKeeps, PostDirectlyKeeps, PageFlipKeeps,
     FlipLatchedKeeps, FlipFailsKeeps, SetOverlayKeeps, OverlayRefusedKeeps,
     DisplayOverlayKeeps, SkipWaitKeeps, PulseSeenKeeps, PulseMissedKeeps,
     WaitUnsupportedKeeps, StartPostCopyKeeps, EndPostCopyKeeps,
     PanFlipKeeps, PanCopyKeeps, PanCopiedKeeps, PanSingleKeeps,
     PanLatchedKeeps, PulseKeeps, PanelOffKeeps, PanelStartsKeeps,
     PanelRunsKeeps
    DEF Next, SurfaceFlinger, OverlayPost, PanFramebuffer, Controller
<1> QED
  BY <1>1, <1>2, PTL DEF Spec

-----------------------------------------------------------------------------
(* Neither the GPU nor the memcpy is where the controller is.               *)
LEMMA NothingWritesThePicture ==
  ASSUME IInv
  PROVE  NeverTorn
<1>1. ASSUME zcSync, mode.zeroCopy PROVE scanned # gpu \/ gpu = None
  BY <1>1, SMT DEF IInv, TypeOK, MainInv, DirectInv, Shows
<1>2. ASSUME zcSync, mode.zeroCopy PROVE scanned # copyTo \/ copyTo = None
  BY <1>2, SMT DEF IInv, TypeOK, MainInv, DirectInv, Shows, SoundSetting
<1>3. ASSUME ~mode.zeroCopy, Copies PROVE scanned # gpu \/ gpu = None
  BY <1>3, SMT DEF IInv, TypeOK, CopiesInv, Shows
<1>4. ASSUME ~mode.zeroCopy, Copies PROVE scanned # copyTo \/ copyTo = None
  BY <1>4, SMT DEF IInv, TypeOK, MainInv, CopiesInv, Shows
<1> QED
  BY <1>1, <1>2, <1>3, <1>4 DEF NeverTorn, Written

(* Every write puts the newest frame over an older one.                     *)
LEMMA WritesAdvance ==
  ASSUME IInv, [Next]_vars, NEW l \in Locations
  PROVE  mem'[l] >= mem[l]
<1>1. CASE GpuFinishes
  BY <1>1, SMT DEF IInv, TypeOK, ContentInv, GpuFinishes
<1>2. CASE EndPostCopy
  BY <1>2, SMT DEF IInv, TypeOK, MainInv, ContentInv, EndPostCopy, Goes
<1>3. CASE PanCopied
  BY <1>3, SMT DEF IInv, TypeOK, MainInv, ContentInv, PanCopied, Goes
<1>4. CASE mem' = mem
  BY <1>4, SMT DEF IInv, TypeOK
<1> QED
  BY <1>1, <1>2, <1>3, <1>4
    DEF Next, SurfaceFlinger, OverlayPost, PanFramebuffer, Controller,
       Render, GpuFinishes, QueueBuffer, PostByCopy, PostDirectly,
       PageFlip, FlipLatched, FlipFails, SetOverlay, OverlayRefused,
       DisplayOverlay, SkipWait, PulseSeen, PulseMissed, WaitUnsupported,
       StartPostCopy, EndPostCopy, PanFlip, PanCopy, PanCopied, PanSingle,
       PanLatched, Pulse, PanelOff, PanelStarts, PanelRuns, vars, memVars

(* What is scanned changes when the panel stops or a pulse latches.         *)
LEMMA LatchedOnlyByPulse ==
  ASSUME [Next]_vars, scanned' # None
  PROVE  scanned' = scanned \/ (scanned' = armed /\ mem' = mem)
<1>1. CASE Controller
  BY <1>1, SMT
    DEF Controller, Pulse, PanelOff, PanelStarts, PanelRuns, memVars
<1>2. CASE UNCHANGED vars
  BY <1>2, SMT DEF vars, dispcVars
<1>3. CASE OverlayPost
  BY <1>3, SMT
    DEF OverlayPost, Arm, dispcVars, PostByCopy, PostDirectly, PageFlip,
       FlipLatched, FlipFails, SetOverlay, OverlayRefused, DisplayOverlay,
       SkipWait, PulseSeen, PulseMissed, WaitUnsupported
<1>4. CASE PanFramebuffer
  <2>1. CASE PanFlip
    BY <2>1, SMT DEF PanFlip, Arm
  <2>2. CASE PanCopy \/ PanLatched
    BY <2>2, SMT DEF PanCopy, PanLatched, dispcVars
  <2>3. CASE PanCopied \/ PanSingle
    BY <2>3, SMT DEF PanCopied, PanSingle, Arm
  <2> QED
    BY <1>4, <2>1, <2>2, <2>3 DEF PanFramebuffer
<1>5. CASE Render \/ QueueBuffer \/ StartPostCopy \/ EndPostCopy \/ GpuFinishes
  BY <1>5, SMT
    DEF dispcVars, Render, QueueBuffer, StartPostCopy, EndPostCopy,
       GpuFinishes
<1> QED
  BY <1>1, <1>2, <1>3, <1>4, <1>5 DEF Next, SurfaceFlinger

(* The picture never tears: neither the GPU nor a memcpy writes what goes   *)
(* to the panel (a1000_overlay_post, and a1000_panFramebuffer with dblbuf). *)
THEOREM PictureNeverTears ==
  ASSUME SoundSettings
  PROVE  Spec => []NeverTorn
BY NothingWritesThePicture, InvHolds, PTL

(* A frame posted and panned is the one the controller is pointed at.       *)
THEOREM NewestFrameIsArmed ==
  ASSUME SoundSettings
  PROVE  Spec => []ArmedIsNewest
<1>1. IInv => ArmedIsNewest
  BY DEF IInv, OrderInv
<1> QED
  BY <1>1, InvHolds, PTL

(* A later picture is never an older frame: buffers change hands only after *)
(* the pulse, and memory is written only with newer frames.                 *)
THEOREM PictureAdvances ==
  ASSUME SoundSettings
  PROVE  Spec => FramesAdvance
<1>1. ASSUME IInv, [Next]_vars, zcSync, ~mode.flipBuf,
             scanned # None, scanned' # None
      PROVE  mem'[scanned'] >= mem[scanned]
  <2>1. CASE scanned' = scanned
    BY <1>1, <2>1, WritesAdvance DEF IInv, TypeOK
  <2>2. CASE scanned' = armed /\ mem' = mem
    BY <1>1, <2>2 DEF IInv, OrderInv
  <2> QED
    BY <1>1, <2>1, <2>2, LatchedOnlyByPulse
<1> QED
  BY <1>1, InvHolds, PTL DEF Spec, FramesAdvance
=============================================================================
