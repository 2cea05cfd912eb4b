------------------------------ MODULE LottieHUD ------------------------------
(***************************************************************************)
(* LottieHUD and its page, LottieViewController: an animation over the key  *)
(* window, which takes no touches while the HUD is shown.                   *)
(*                                                                         *)
(* Everything runs on the main thread, but not at once: showing and         *)
(* clearing are blocks of the main queue, a fade lasts, an animation ends   *)
(* or is interrupted, a timer fires, and touches come in between.           *)
(***************************************************************************)
EXTENDS Naturals, Sequences

CONSTANTS
  Locals,        \* the HUDs that deleteAction creates, one per call
  MaxPending,    \* bound: blocks, timers, fades and callbacks pending at a touch
  KeyMayChange,  \* are there moments without a key window?
  Page           \* LottieViewController.hud

ASSUME HUDAssumption ==
  /\ Page \notin Locals
  /\ MaxPending \in Nat
  /\ KeyMayChange \in BOOLEAN

Huds == Locals \cup {Page}

VARIABLES
  isUserInteractionEnabled, \* of the key window
  keyWindow,    \* is there a key window?
  loopMode,     \* lottie.loopMode of each HUD
  animation,    \* what each lottie plays: a loop mode, or "none"
  maskView,     \* is the mask of each HUD in the window?
  alpha,        \* is it opaque, or becoming so?  A fade to transparent sets
                \* alpha as it starts, and shows it as it goes on
  mainQueue,    \* the blocks of createHUD and clearHUD
  fades,        \* how many fades to transparent each HUD has under way
  interrupted,  \* animations of each HUD removed, their completion to be called
  timers        \* scheduled timers of the page

vars == <<isUserInteractionEnabled, keyWindow, loopMode, animation, maskView,
          alpha, mainQueue, fades, interrupted, timers>>

windowVars == <<isUserInteractionEnabled, maskView, alpha, animation>>

Init ==
  /\ isUserInteractionEnabled = TRUE
  /\ keyWindow = TRUE
  /\ loopMode = [h \in Huds |-> "loop"]
  /\ animation = [h \in Huds |-> "none"]
  /\ maskView = [h \in Huds |-> FALSE]
  /\ alpha = [h \in Huds |-> FALSE]
  /\ mainQueue = <<>>
  /\ fades = [h \in Huds |-> 0]
  /\ interrupted = [h \in Huds |-> 0]
  /\ timers = 0

------------------------------------------------------------------------------
(* Touches.  The mask takes none itself: they reach the page unless the key *)
(* window is disabled.  One event can touch several buttons, so a second    *)
(* action may run before the block of the first one.                        *)

Touch ==
  /\ isUserInteractionEnabled
  /\ Len(mainQueue) < MaxPending
  /\ timers < MaxPending
  /\ \A h \in Huds : fades[h] + interrupted[h] < MaxPending

\* showHUD sets the mode now, which an animation that plays takes over, and
\* shows the HUD in a block of the main queue.
ShowHUD(h, mode) ==
  /\ loopMode' = [loopMode EXCEPT ![h] = mode]
  /\ animation' = [animation EXCEPT ![h] = IF @ = "none" THEN @ ELSE mode]
  /\ mainQueue' = Append(mainQueue, <<"create", h>>)
  /\ UNCHANGED <<isUserInteractionEnabled, maskView, alpha, keyWindow, fades,
                 interrupted>>

\* Mutant of ScheduleTimer: the timer is forgotten.
NoTimer == UNCHANGED timers

ScheduleTimer == timers' = timers + 1

AddAction ==
  /\ Touch
  /\ ShowHUD(Page, "loop")
  /\ ScheduleTimer

\* A new HUD, to which nobody keeps a reference.
DeleteAction(h) ==
  /\ Touch
  /\ ~maskView[h]
  /\ \A k \in DOMAIN mainQueue : mainQueue[k][2] # h
  /\ ShowHUD(h, "loop")
  /\ UNCHANGED timers

UpdateAction ==
  /\ Touch
  /\ ShowHUD(Page, "playOnce")
  /\ UNCHANGED timers

------------------------------------------------------------------------------
(* The main queue.                                                          *)

NextBlock(kind, h) ==
  /\ mainQueue # <<>>
  /\ Head(mainQueue) = <<kind, h>>
  /\ mainQueue' = Tail(mainQueue)

\* Removing an animation calls its completion block later, or not at all when
\* it was not displayed yet, or when its engine had paused it.
Interrupt(h) ==
  IF animation[h] = "none"
  THEN UNCHANGED interrupted
  ELSE \/ interrupted' = [interrupted EXCEPT ![h] = @ + 1]
       \/ UNCHANGED interrupted

\* Mutant of DisableWindow: the window keeps taking touches.
LeaveWindow == UNCHANGED isUserInteractionEnabled

DisableWindow == isUserInteractionEnabled' = FALSE

\* The block of createHUD.  Playing replaces the animation that plays.
CreateBlock(h) ==
  /\ NextBlock("create", h)
  /\ IF keyWindow
     THEN /\ DisableWindow
          /\ maskView' = [maskView EXCEPT ![h] = TRUE]
          /\ alpha' = [alpha EXCEPT ![h] = TRUE]
          /\ animation' = [animation EXCEPT ![h] = loopMode[h]]
          /\ Interrupt(h)
     ELSE UNCHANGED <<windowVars, interrupted>>
  /\ UNCHANGED <<keyWindow, loopMode, fades, timers>>

\* Mutant of FadeOut: the mask goes transparent, and no completion follows.
FadeOutOnly(h) ==
  /\ alpha' = [alpha EXCEPT ![h] = FALSE]
  /\ UNCHANGED fades

FadeOut(h) ==
  /\ alpha' = [alpha EXCEPT ![h] = FALSE]
  /\ fades' = [fades EXCEPT ![h] = @ + 1]

\* The block of clearHUD starts a fade, whether or not there is a mask.
ClearBlock(h) ==
  /\ NextBlock("clear", h)
  /\ FadeOut(h)
  /\ UNCHANGED <<isUserInteractionEnabled, maskView, animation, keyWindow,
                 loopMode, interrupted, timers>>

ClearHUD(h) == mainQueue' = Append(mainQueue, <<"clear", h>>)

------------------------------------------------------------------------------
(* What takes time.                                                         *)

\* An animation played to its end; its completion block clears the HUD.
AnimationEnds(h) ==
  /\ animation[h] = "playOnce"
  /\ animation' = [animation EXCEPT ![h] = "none"]
  /\ ClearHUD(h)
  /\ UNCHANGED <<isUserInteractionEnabled, maskView, alpha, keyWindow, loopMode,
                 fades, interrupted, timers>>

\* So does that of an animation that was removed before its end.
InterruptedCompletion(h) ==
  /\ interrupted[h] > 0
  /\ interrupted' = [interrupted EXCEPT ![h] = @ - 1]
  /\ ClearHUD(h)
  /\ UNCHANGED <<windowVars, keyWindow, loopMode, fades, timers>>

\* dismissHUD.  Whichever HUD of the page is shown by now is cleared.
TimerFires ==
  /\ timers > 0
  /\ timers' = timers - 1
  /\ ClearHUD(Page)
  /\ UNCHANGED <<windowVars, keyWindow, loopMode, fades, interrupted>>

\* Mutants of Release: the window stays disabled, or the animation goes on.
ReleaseDisabled(h) ==
  /\ maskView' = [maskView EXCEPT ![h] = FALSE]
  /\ animation' = [animation EXCEPT ![h] = "none"]
  /\ Interrupt(h)
  /\ UNCHANGED isUserInteractionEnabled

ReleasePlaying(h) ==
  /\ isUserInteractionEnabled' = TRUE
  /\ maskView' = [maskView EXCEPT ![h] = FALSE]
  /\ UNCHANGED <<animation, interrupted>>

\* The window takes touches again, the mask goes, the animation stops.
Release(h) ==
  /\ isUserInteractionEnabled' = TRUE
  /\ maskView' = [maskView EXCEPT ![h] = FALSE]
  /\ animation' = [animation EXCEPT ![h] = "none"]
  /\ Interrupt(h)

\* Without a key window the completion returns: the mask stays in the window,
\* transparent unless shown again, and so do its animation and the disabled flag.
FadeCompletion(h) ==
  IF keyWindow THEN Release(h) ELSE UNCHANGED <<windowVars, interrupted>>

\* Mutant of FadeUnderWay: the completion runs once more than fades end.
AlwaysUnderWay(h) == TRUE

FadeUnderWay(h) == fades[h] > 0

\* The completion of a fade that clearHUD started.
FadeEnds(h) ==
  /\ FadeUnderWay(h)
  /\ fades' = [fades EXCEPT ![h] = @ - 1]
  /\ FadeCompletion(h)
  /\ UNCHANGED <<alpha, keyWindow, loopMode, mainQueue, timers>>

\* Another scene, or none, has the key window.
KeyWindowChanges ==
  /\ KeyMayChange
  /\ keyWindow' = ~keyWindow
  /\ UNCHANGED <<windowVars, loopMode, mainQueue, fades, interrupted, timers>>

------------------------------------------------------------------------------

Touches == AddAction \/ UpdateAction \/ \E h \in Locals : DeleteAction(h)

MainQueue == \E h \in Huds : CreateBlock(h) \/ ClearBlock(h)

Next ==
  \/ Touches
  \/ MainQueue
  \/ \E h \in Huds : AnimationEnds(h) \/ InterruptedCompletion(h) \/ FadeEnds(h)
  \/ TimerFires
  \/ KeyWindowChanges

\* The main queue is served; animations, fades and timers end.  Nobody has to
\* touch anything.
Fairness ==
  /\ WF_vars(MainQueue)
  /\ \A h \in Huds : /\ WF_vars(AnimationEnds(h))
                     /\ WF_vars(InterruptedCompletion(h))
                     /\ WF_vars(FadeEnds(h))
  /\ WF_vars(TimerFires)

Spec == Init /\ [][Next]_vars

FairSpec == Spec /\ Fairness

------------------------------------------------------------------------------

Modes == {"loop", "playOnce"}
Blocks == {"create", "clear"} \X Huds

TypeOK ==
  /\ isUserInteractionEnabled \in BOOLEAN
  /\ keyWindow \in BOOLEAN
  /\ loopMode \in [Huds -> Modes]
  /\ animation \in [Huds -> Modes \cup {"none"}]
  /\ maskView \in [Huds -> BOOLEAN]
  /\ alpha \in [Huds -> BOOLEAN]
  /\ mainQueue \in Seq(Blocks)
  /\ fades \in [Huds -> Nat]
  /\ interrupted \in [Huds -> Nat]
  /\ timers \in Nat

\* A mask in the window that is opaque, or fades with its completion to come.
Seen(h) == maskView[h] /\ (alpha[h] \/ fades[h] > 0)

DisabledIsSeen == isUserInteractionEnabled \/ \E h \in Huds : Seen(h)

\* However shows and clears are interleaved, only one step turns a page into one
\* that looks usable and is not, a disabled window under transparent masks: the
\* end of a fade of clearHUD that finds no key window.
SeenUntilKeyless ==
  [][DisabledIsSeen =>
       \/ DisabledIsSeen'
       \/ ~keyWindow /\ \E h \in Huds : fades'[h] < fades[h]]_vars

\* Without the HUDs of deleteAction, no touch goes through a mask either
\* (maskView itself takes no touches).
MaskedIsDisabled == Locals = {} => (maskView[Page] => ~isUserInteractionEnabled)

\* No animation plays behind a mask that is gone.
AnimationIsMasked == \A h \in Huds : animation[h] # "none" => maskView[h]

ClearQueued == \E k \in DOMAIN mainQueue : mainQueue[k] = <<"clear", Page>>

\* Something is on its way that will clear the page's HUD.
Rescue ==
  \/ ClearQueued
  \/ fades[Page] > 0
  \/ interrupted[Page] > 0
  \/ animation[Page] = "playOnce"
  \/ timers > 0

\* The page's HUD is never shown without something that will clear it, whatever
\* shows, timers and interrupted animations came before (addAction's comment:
\* it disappears after eight seconds; updateAction's: it disappears by itself).
PageIsRescued == (~KeyMayChange /\ maskView[Page]) => Rescue

\* A show of the page's HUD still queued, in loop mode, has its timer to come,
\* or the block of its timer behind it.
QueuedShowIsTimed ==
  loopMode[Page] = "loop" =>
    \A k \in DOMAIN mainQueue : mainQueue[k] = <<"create", Page>> =>
      \/ timers > 0
      \/ \E j \in DOMAIN mainQueue : j > k /\ mainQueue[j] = <<"clear", Page>>

\* The inductive invariant behind PageIsRescued.
RescueInv ==
  /\ ~KeyMayChange => keyWindow
  /\ PageIsRescued
  /\ QueuedShowIsTimed

\* A page whose HUD is shown gets its touches back.
PageComesBack == ~isUserInteractionEnabled ~> isUserInteractionEnabled

==============================================================================
