------------------------------ MODULE HwcFrame -------------------------------
(***************************************************************************)
(* One frame of the panel, from INVALIDATE to the picture: which layers    *)
(* show, the work list HWComposer keeps from frame to frame, whom prepare  *)
(* lets the vendor's HWC take as an overlay, what OpenGL draws of the      *)
(* others, and the commit.  The device ships with force_gles off: a frame  *)
(* of one window may be an overlay, one of several is drawn.               *)
(*                                                                         *)
(* Layers are as large as the screen and opaque or not by their buffers.   *)
(* Daltonizing and the colour matrix are switched by a binder thread       *)
(* without a lock; its stores and the main thread's loads are taken in the *)
(* order of the code.  Every frame is redrawn as a whole (repaint_all).    *)
(***************************************************************************)
EXTENDS Integers, Sequences, FiniteSets, SequencesExt

CONSTANTS
  Layers,
  ZOrder,       \* the layers from back to front
  GpuOnly,      \* the layers setGeometry knows by name: wallpaper, camera, ...
  Buffers       \* the formats each layer's buffers may have, of Formats

VARIABLES
  lit,          \* isDisplayOn
  present,      \* layers of the drawing state that are not hidden
  format,       \* of the active buffer of each layer
  colours,      \* mDaltonize || mHasColorMatrix
  regionsDirty, \* mVisibleRegionsDirty
  listDirty,    \* mHwWorkListDirty
  repaint,      \* mRepaintEverything
  asked,        \* an INVALIDATE to come
  stack,        \* mVisibleLayersSortedByZ of the display
  list,         \* its hwLayers: HWC_SKIP_LAYER and compositionType
  fbComp, ovComp, \* hasFbComp, hasOvComp
  setter,       \* where a binder thread is in onTransact
  main,         \* where the main thread is
  drawn,        \* the layers in the buffer swapped, and whether with colours
  picture,      \* what the panel was given by the last frame
  listed, steady, broken  \* for the properties: the formats the list was made
                 \* for; no switch was under way since the frame began; a
                 \* call of it failed

frameVars == <<lit, present, format, colours, regionsDirty, listDirty, repaint,
               asked, stack, list, fbComp, ovComp, setter, main, drawn, picture,
               listed, steady, broken>>

Formats == {"rgba", "rgbx", "yuv"}

Entries == [skip : BOOLEAN, type : {"framebuffer", "overlay"}]

Nothing == [layers |-> {}, colours |-> FALSE]
NoPicture == [over |-> {}, drawn |-> Nothing, steady |-> FALSE, broken |-> TRUE]

TypeOK ==
  /\ {lit, colours, regionsDirty, listDirty, repaint, asked, fbComp, ovComp,
      steady, broken} \subseteq BOOLEAN
  /\ present \in SUBSET Layers /\ {format, listed} \subseteq [Layers -> Formats]
  /\ stack \in Seq(Layers) /\ list \in Seq(Entries)
  /\ setter \in {"idle", "invalidate", "repaint"}
  /\ main \in {"idle", "stacks", "list", "clear", "geometry", "prepare",
               "repaint", "compose", "post"}

HwcConstants == IsFiniteSet(Layers) /\ Buffers \in [Layers -> SUBSET Formats]

Opaque(f) == f # "rgba"

Init ==
  /\ lit = TRUE /\ present = {} /\ format \in {f \in [Layers -> Formats] : \A l \in Layers : f[l] \in Buffers[l]}
  /\ colours = FALSE /\ regionsDirty = FALSE /\ listDirty = FALSE
  /\ repaint = FALSE /\ asked = FALSE /\ stack = <<>> /\ list = <<>>
  /\ fbComp = TRUE /\ ovComp = FALSE /\ setter = "idle" /\ main = "idle"
  /\ drawn = Nothing /\ picture = NoPicture
  /\ listed = format /\ steady = TRUE /\ broken = FALSE

------------------------------------------------------------------------------
(* The binder thread.                                                       *)

screen == <<lit, present, format, regionsDirty, stack>>
work == <<list, listed, fbComp, ovComp, drawn, picture>>

Switch ==
  /\ setter = "idle"
  /\ setter' = "invalidate" /\ colours' = ~colours /\ steady' = FALSE
  /\ UNCHANGED <<screen, work, listDirty, repaint, asked, main, broken>>

InvalidateHwcGeometry ==
  /\ setter = "invalidate"
  /\ setter' = "repaint" /\ listDirty' = TRUE
  /\ UNCHANGED <<screen, work, colours, repaint, asked, main, steady, broken>>

RepaintEverything ==
  /\ setter = "repaint"
  /\ setter' = "idle" /\ repaint' = TRUE /\ asked' = TRUE
  /\ UNCHANGED <<screen, work, colours, listDirty, main, steady, broken>>

------------------------------------------------------------------------------
(* Messages of the main thread; a REFRESH once asked for may find others    *)
(* before it in the queue.                                                  *)

BetweenMessages == main \in {"idle", "stacks"}

SetPowerMode ==
  /\ BetweenMessages
  /\ lit' = ~lit /\ regionsDirty' = TRUE
  /\ IF lit' THEN repaint' = TRUE /\ asked' = TRUE ELSE UNCHANGED <<repaint, asked>>
  /\ picture' = NoPicture
  /\ UNCHANGED <<present, format, colours, listDirty, stack, list, fbComp, ovComp,
                 drawn, setter, main, listed, steady, broken>>

(* handleTransaction: one may show or hide a layer.                         *)
Transact(layers) ==
  /\ present' = layers /\ listDirty' = TRUE
  /\ regionsDirty' = (regionsDirty \/ layers # present)
  /\ UNCHANGED format

(* Broken variant: the new buffer is not looked at.                         *)
PageFlipBlind(l, f) ==
  /\ format' = [format EXCEPT ![l] = f]
  /\ UNCHANGED <<present, listDirty, regionsDirty>>

(* handlePageFlip: a buffer latched may have another format.                *)
PageFlip(l, f) ==
  /\ format' = [format EXCEPT ![l] = f]
  /\ regionsDirty' = (regionsDirty \/ Opaque(f) # Opaque(format[l]))
  /\ UNCHANGED <<present, listDirty>>

(* Where nothing is found, only a repaint asked for is a reason to refresh. *)
Invalidate ==
  /\ BetweenMessages
  /\ \/ /\ \E l \in Layers : \E layers \in {present, present \cup {l}, present \ {l}} :
             Transact(layers)
        /\ main' = "stacks"
     \/ /\ \E l \in present : \E f \in Buffers[l] : PageFlip(l, f)
        /\ main' = "stacks"
     \/ /\ asked /\ main' = IF repaint THEN "stacks" ELSE main
        /\ UNCHANGED <<present, format, listDirty, regionsDirty>>
  /\ asked' = FALSE /\ picture' = NoPicture
  /\ UNCHANGED <<lit, colours, repaint, stack, list, fbComp, ovComp, drawn,
                 setter, listed, steady, broken>>

Behind(l, o) ==
  \E i, j \in DOMAIN ZOrder : i < j /\ ZOrder[i] = l /\ ZOrder[j] = o

(* What is behind an opaque layer does not show.                            *)
Covered(l) == \E o \in present : Opaque(format[o]) /\ Behind(l, o)

Showing == IF lit THEN {l \in present : ~Covered(l)} ELSE {}

(* Layers in a row from back to front.                                      *)
Sorted(layers) ==
  {row \in [1 .. Cardinality(layers) -> layers] :
     /\ Range(row) = layers
     /\ \A i, j \in DOMAIN row : i < j => Behind(row[i], row[j])}

RebuildLayerStacks ==
  /\ main = "stacks"
  /\ main' = "list" /\ regionsDirty' = FALSE
  /\ listDirty' = (listDirty \/ regionsDirty)
  /\ stack' \in IF regionsDirty THEN Sorted(Showing) ELSE {stack}
  /\ drawn' = Nothing /\ picture' = NoPicture
  /\ steady' = (setter = "idle") /\ broken' = FALSE
  /\ UNCHANGED <<lit, present, format, colours, repaint, asked, list, listed,
                 fbComp, ovComp, setter>>

------------------------------------------------------------------------------
(* setUpHWComposer.                                                         *)

FindWork ==
  /\ main = "list"
  /\ main' = IF listDirty THEN "clear" ELSE "prepare"
  /\ UNCHANGED <<screen, work, colours, listDirty, repaint, asked, setter,
                 steady, broken>>

CreateWorkList ==
  /\ main = "clear"
  /\ main' = "geometry" /\ listDirty' = FALSE /\ list' = <<>> /\ listed' = format
  /\ UNCHANGED <<screen, fbComp, ovComp, drawn, picture, colours, repaint, asked,
                 setter, steady, broken>>

(* Broken variant: a video is told only by its name.                        *)
SkipsNamed(l) == l \in GpuOnly \/ colours
Skips(l) == l \in GpuOnly \/ format[l] = "yuv" \/ colours

(* Broken variant: the flag is cleared when the list is complete.           *)
SetGeometryFirst ==
  /\ main = "geometry"
  /\ IF Len(list) < Len(stack)
     THEN /\ list' = Append(list, [skip |-> Skips(stack[Len(list) + 1]),
                                   type |-> "framebuffer"])
          /\ UNCHANGED <<main, listDirty>>
     ELSE main' = "prepare" /\ listDirty' = FALSE /\ UNCHANGED list
  /\ UNCHANGED <<screen, fbComp, ovComp, drawn, picture, colours, repaint, asked,
                 setter, listed, steady, broken>>

(* One layer's setDefaultState and setGeometry.                             *)
SetGeometry ==
  /\ main = "geometry"
  /\ IF Len(list) < Len(stack)
     THEN /\ list' = Append(list, [skip |-> Skips(stack[Len(list) + 1]),
                                   type |-> "framebuffer"])
          /\ UNCHANGED main
     ELSE main' = "prepare" /\ UNCHANGED list
  /\ UNCHANGED <<screen, fbComp, ovComp, drawn, picture, colours, listDirty,
                 repaint, asked, setter, listed, steady, broken>>

(* What the vendor's HWC may make of the list: it leaves a layer with       *)
(* HWC_SKIP_LAYER as it finds it and chooses for the others.                *)
Chosen(entries, chosen) ==
  /\ Len(chosen) = Len(entries)
  /\ \A i \in DOMAIN entries : /\ chosen[i].skip = entries[i].skip
                               /\ entries[i].skip => chosen[i] = entries[i]

Count(entries) ==
  /\ fbComp' = \/ entries = <<>>
               \/ \E i \in DOMAIN entries : entries[i].type = "framebuffer"
  /\ ovComp' = \E i \in DOMAIN entries : entries[i].type = "overlay"

(* Broken variant: two layers are taken for one.                            *)
ForcedThree(entries) ==
  IF Len(entries) < 3 THEN entries
  ELSE [i \in DOMAIN entries |-> [entries[i] EXCEPT !.skip = TRUE]]

(* HWC_SKIP_LAYER of every layer of a list of two and more, for as long as  *)
(* the call lasts.                                                          *)
Forced(entries) ==
  IF Len(entries) < 2 THEN entries
  ELSE [i \in DOMAIN entries |-> [entries[i] EXCEPT !.skip = TRUE]]

(* Broken variant: no flag survives the call.                               *)
SettledBare(before, chosen) ==
  [i \in DOMAIN before |-> [skip |-> FALSE, type |-> chosen[i].type]]

(* The flags as they were, and what was skipped drawn.                      *)
Settled(before, chosen) ==
  [i \in DOMAIN before |->
     [skip |-> before[i].skip,
      type |-> IF before[i].skip THEN "framebuffer" ELSE chosen[i].type]]

Prepare ==
  /\ main = "prepare"
  /\ main' = "repaint"
  /\ \/ \E types \in [DOMAIN list -> {"framebuffer", "overlay"}] :
          LET forced == Forced(list)
              chosen == [i \in DOMAIN list |-> [skip |-> forced[i].skip, type |-> types[i]]]
          IN  /\ Chosen(forced, chosen)
              /\ list' = Settled(list, chosen) /\ Count(list')
              /\ UNCHANGED broken
     \/ broken' = TRUE /\ UNCHANGED <<list, fbComp, ovComp>>
  /\ UNCHANGED <<screen, drawn, picture, colours, listDirty, repaint, asked,
                 setter, listed, steady>>

------------------------------------------------------------------------------
(* doComposition.                                                           *)

TakeRepaint ==
  /\ main = "repaint"
  /\ main' = "compose" /\ repaint' = FALSE
  /\ UNCHANGED <<screen, work, colours, listDirty, asked, setter, steady, broken>>

Of(type) == {stack[i] : i \in {j \in DOMAIN stack \cap DOMAIN list : list[j].type = type}}

(* doComposeSurfaces: without a list every layer is drawn.                  *)
Drawn == IF list = <<>> THEN Range(stack) ELSE Of("framebuffer")

(* The buffer is swapped when something was drawn.  Failing to make the     *)
(* context current gives up, but not when colours are changed.              *)
DoComposition ==
  /\ main = "compose"
  /\ main' = "post"
  /\ \/ lit /\ fbComp /\ drawn' = [layers |-> Drawn, colours |-> colours]
        /\ UNCHANGED broken
     \/ lit /\ fbComp /\ broken' = TRUE
        /\ drawn' = IF colours THEN [layers |-> {}, colours |-> TRUE] ELSE drawn
     \/ ~(lit /\ fbComp) /\ UNCHANGED <<drawn, broken>>
  /\ UNCHANGED <<screen, list, fbComp, ovComp, picture, colours, listDirty, repaint,
                 asked, setter, listed, steady>>

(* commit gives the HWC its list; a frame it has no part in is panned to.   *)
Panned == fbComp /\ ~ovComp

PostFramebuffer ==
  /\ main = "post"
  /\ main' = "idle"
  /\ picture' = [over |-> Of("overlay"),
                 drawn |-> IF Panned \/ ovComp THEN drawn ELSE Nothing,
                 steady |-> steady, broken |-> broken]
  /\ UNCHANGED <<screen, list, fbComp, ovComp, drawn, colours, listDirty, repaint,
                 asked, setter, listed, steady, broken>>

Next == \/ Switch \/ InvalidateHwcGeometry \/ RepaintEverything
        \/ SetPowerMode \/ Invalidate \/ RebuildLayerStacks
        \/ FindWork \/ CreateWorkList \/ SetGeometry \/ Prepare
        \/ TakeRepaint \/ DoComposition \/ PostFramebuffer

Spec == Init /\ [][Next]_frameVars

------------------------------------------------------------------------------
(* A picture of which no call failed has every layer that shows: as the one *)
(* overlay, or drawn with all the others by OpenGL, for of two layers given *)
(* to the HWC one is lost; and never as an overlay when an overlay would    *)
(* spoil its buffer, by the name of the layer or as YUV.  Whatever          *)
(* transactions, formats and power modes came before, and although the list *)
(* and its flags are kept from frame to frame and the HWC chooses anew.     *)
(* Excepted is the buffer that became YUV after the list was made and has   *)
(* no alpha before or after, the case VideoIsDrawn is about.                *)
PictureIsWhole ==
  picture # NoPicture /\ lit /\ ~picture.broken =>
    \/ picture.over = {} /\ picture.drawn.layers = Showing
    \/ /\ picture.over = Showing /\ picture.drawn.layers = {}
       /\ Cardinality(picture.over) = 1 /\ picture.over \cap GpuOnly = {}
       /\ \A l \in picture.over : format[l] = "yuv" => listed[l] = "rgbx"

(* The comment of setGeometry on camera and video: the GPU composes such    *)
(* layers (Layer.cpp:715-720), whenever their buffers became YUV.           *)
VideoIsDrawn == \A l \in picture.over : format[l] # "yuv"

(* A frame that begins after a switch of the colours, and is over before    *)
(* the next, has the colours of the switch in every layer: none of them     *)
(* goes to the overlay, which knows nothing of colours, by a list from      *)
(* before the switch.                                                       *)
SwitchesTakeEffect ==
  picture.steady /\ ~picture.broken /\ steady =>
    /\ colours => picture.over = {}
    /\ picture.drawn.layers # {} => picture.drawn.colours = colours
==============================================================================
