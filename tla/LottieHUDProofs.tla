--------------------------- MODULE LottieHUDProofs ---------------------------
(***************************************************************************)
(* Theorems about LottieHUD, for any HUDs and however much is pending.      *)
(***************************************************************************)
EXTENDS LottieHUD, TLAPS

------------------------------------------------------------------------------
(* Facts about the main queue.                                              *)

\* What taking the first block leaves of a queue.
LEMMA TailBlocks ==
  ASSUME NEW S, NEW q \in Seq(S), q # <<>>
  PROVE  /\ Tail(q) \in Seq(S)
         /\ Len(q) >= 1
         /\ DOMAIN Tail(q) = 1 .. Len(q) - 1
         /\ \A k \in 1 .. Len(q) - 1 : Tail(q)[k] = q[k + 1]
         /\ Head(q) = q[1]
OBVIOUS

\* What adding a block leaves of a queue.
LEMMA AppendBlocks ==
  ASSUME NEW S, NEW q \in Seq(S), NEW x \in S
  PROVE  /\ Append(q, x) \in Seq(S)
         /\ DOMAIN Append(q, x) = 1 .. Len(q) + 1
         /\ DOMAIN q = 1 .. Len(q)
         /\ \A k \in DOMAIN q : Append(q, x)[k] = q[k]
         /\ Append(q, x)[Len(q) + 1] = x
OBVIOUS

\* Adding a block keeps the blocks of clearHUD that are queued for the page.
LEMMA AppendKeeps ==
  ASSUME TypeOK, NEW x \in Blocks, mainQueue' = Append(mainQueue, x)
  PROVE  /\ ClearQueued => ClearQueued'
         /\ x = <<"clear", Page>> => ClearQueued'
<1>1. /\ DOMAIN mainQueue' = 1 .. Len(mainQueue) + 1
      /\ DOMAIN mainQueue = 1 .. Len(mainQueue)
      /\ \A k \in DOMAIN mainQueue : mainQueue'[k] = mainQueue[k]
      /\ mainQueue'[Len(mainQueue) + 1] = x
      /\ Len(mainQueue) \in Nat
  BY AppendBlocks DEF TypeOK
<1>2. ClearQueued => ClearQueued'
  BY <1>1 DEF ClearQueued
<1>3. x = <<"clear", Page>> => ClearQueued'
  BY <1>1 DEF ClearQueued
<1> QED
  BY <1>2, <1>3

\* Clearing a HUD keeps those blocks, and is one when it is the page's HUD.
LEMMA ClearKeeps ==
  ASSUME TypeOK, NEW h \in Huds, ClearHUD(h)
  PROVE  /\ ClearQueued => ClearQueued'
         /\ h = Page => ClearQueued'
<1>1. <<"clear", h>> \in Blocks
  BY DEF Blocks
<1> QED
  BY <1>1, AppendKeeps DEF ClearHUD

------------------------------------------------------------------------------
(* Type correctness.                                                        *)

\* Interrupting an animation counts at most one more completion.
LEMMA InterruptType ==
  ASSUME TypeOK, NEW h \in Huds, Interrupt(h)
  PROVE  interrupted' \in [Huds -> Nat]
<1>1. interrupted \in [Huds -> Nat]
  BY DEF TypeOK
<1>2. [interrupted EXCEPT ![h] = @ + 1] \in [Huds -> Nat]
  BY <1>1
<1> QED
  BY <1>1, <1>2 DEF Interrupt

\* A touch of a button that shows a HUD keeps the types.
LEMMA ShowType ==
  ASSUME TypeOK, NEW h \in Huds, NEW mode \in Modes, ShowHUD(h, mode),
         timers' \in Nat
  PROVE  TypeOK'
<1>1. mainQueue' \in Seq(Blocks)
  <2>1. <<"create", h>> \in Blocks
    BY DEF Blocks
  <2> QED
    BY <2>1 DEF ShowHUD, TypeOK
<1>2. loopMode' \in [Huds -> Modes]
  BY DEF ShowHUD, TypeOK
<1>3. animation' \in [Huds -> Modes \cup {"none"}]
  BY DEF ShowHUD, TypeOK
<1> QED
  BY <1>1, <1>2, <1>3 DEF ShowHUD, TypeOK

\* Every count of blocks, fades, callbacks and timers stays a count: no
\* completion runs that was not pending (LottieHUD.createHUD, clearHUD).
THEOREM TypeCorrect == Spec => []TypeOK
<1> USE HUDAssumption DEF Huds, Modes
<1>1. Init => TypeOK
  <2>1. <<>> \in Seq(Blocks)
    OBVIOUS
  <2> QED
    BY <2>1 DEF Init, TypeOK
<1>2. TypeOK /\ [Next]_vars => TypeOK'
  <2> SUFFICES ASSUME TypeOK, [Next]_vars
               PROVE  TypeOK'
    OBVIOUS
  <2>1. CASE AddAction
    BY <2>1, ShowType DEF AddAction, ScheduleTimer, TypeOK
  <2>2. CASE UpdateAction
    BY <2>2, ShowType DEF UpdateAction, TypeOK
  <2>3. ASSUME NEW h \in Locals, DeleteAction(h)
        PROVE  TypeOK'
    BY <2>3, ShowType DEF DeleteAction, TypeOK
  <2>4. ASSUME NEW h \in Huds, CreateBlock(h)
        PROVE  TypeOK'
    <3>1. mainQueue' \in Seq(Blocks)
      BY <2>4, TailBlocks DEF CreateBlock, NextBlock, TypeOK
    <3>2. interrupted' \in [Huds -> Nat]
      BY <2>4, InterruptType DEF CreateBlock, TypeOK
    <3>3. /\ isUserInteractionEnabled' \in BOOLEAN
          /\ maskView' \in [Huds -> BOOLEAN]
          /\ alpha' \in [Huds -> BOOLEAN]
          /\ animation' \in [Huds -> Modes \cup {"none"}]
      BY <2>4 DEF CreateBlock, DisableWindow, TypeOK, windowVars
    <3> QED
      BY <2>4, <3>1, <3>2, <3>3 DEF CreateBlock, TypeOK
  <2>5. ASSUME NEW h \in Huds, ClearBlock(h)
        PROVE  TypeOK'
    <3>1. mainQueue' \in Seq(Blocks)
      BY <2>5, TailBlocks DEF ClearBlock, NextBlock, TypeOK
    <3>2. fades' \in [Huds -> Nat] /\ alpha' \in [Huds -> BOOLEAN]
      BY <2>5 DEF ClearBlock, FadeOut, TypeOK
    <3> QED
      BY <2>5, <3>1, <3>2 DEF ClearBlock, TypeOK
  <2>6. ASSUME NEW h \in Huds, ClearHUD(h)
        PROVE  mainQueue' \in Seq(Blocks)
    <3>1. <<"clear", h>> \in Blocks
      BY DEF Blocks
    <3> QED
      BY <2>6, <3>1 DEF ClearHUD, TypeOK
  <2>7. ASSUME NEW h \in Huds, AnimationEnds(h)
        PROVE  TypeOK'
    BY <2>6, <2>7 DEF AnimationEnds, TypeOK
  <2>8. ASSUME NEW h \in Huds, InterruptedCompletion(h)
        PROVE  TypeOK'
    <3>1. interrupted' \in [Huds -> Nat]
      BY <2>8 DEF InterruptedCompletion, TypeOK
    <3> QED
      BY <2>6, <2>8, <3>1 DEF InterruptedCompletion, TypeOK, windowVars
  <2>9. ASSUME NEW h \in Huds, FadeEnds(h)
        PROVE  TypeOK'
    <3>1. fades' \in [Huds -> Nat]
      BY <2>9 DEF FadeEnds, FadeUnderWay, TypeOK
    <3>2. interrupted' \in [Huds -> Nat]
      BY <2>9, InterruptType DEF FadeEnds, FadeCompletion, Release, TypeOK
    <3>3. /\ isUserInteractionEnabled' \in BOOLEAN
          /\ maskView' \in [Huds -> BOOLEAN]
          /\ alpha' \in [Huds -> BOOLEAN]
          /\ animation' \in [Huds -> Modes \cup {"none"}]
      BY <2>9 DEF FadeEnds, FadeCompletion, Release, TypeOK, windowVars
    <3> QED
      BY <2>9, <3>1, <3>2, <3>3 DEF FadeEnds, TypeOK
  <2>10. CASE TimerFires
    <3>1. timers' \in Nat
      BY <2>10 DEF TimerFires, TypeOK
    <3> QED
      BY <2>6, <2>10, <3>1 DEF TimerFires, TypeOK, windowVars
  <2>11. CASE KeyWindowChanges
    BY <2>11 DEF KeyWindowChanges, TypeOK, windowVars
  <2>12. CASE UNCHANGED vars
    BY <2>12 DEF vars, TypeOK
  <2> QED
    BY <2>1, <2>2, <2>3, <2>4, <2>5, <2>7, <2>8, <2>9, <2>10, <2>11, <2>12
       DEF Next, Touches, MainQueue
<1> QED
  BY <1>1, <1>2, PTL DEF Spec

------------------------------------------------------------------------------
(* What a step does to the page's HUD.                                      *)

\* Taking a block that is not a clear of the page leaves those queued.
LEMMA NextKeeps ==
  ASSUME TypeOK, NEW h \in Huds, NEW kind, NextBlock(kind, h),
         <<kind, h>> # <<"clear", Page>>
  PROVE  ClearQueued => ClearQueued'
<1>1. /\ Len(mainQueue) \in Nat \ {0}
      /\ DOMAIN mainQueue = 1 .. Len(mainQueue)
      /\ DOMAIN mainQueue' = 1 .. Len(mainQueue) - 1
      /\ \A k \in 1 .. Len(mainQueue) - 1 : mainQueue'[k] = mainQueue[k + 1]
      /\ mainQueue[1] = <<kind, h>>
  BY TailBlocks DEF NextBlock, TypeOK
<1>2. ASSUME NEW k \in DOMAIN mainQueue, mainQueue[k] = <<"clear", Page>>
      PROVE  k - 1 \in DOMAIN mainQueue' /\ mainQueue'[k - 1] = <<"clear", Page>>
  <2>1. k # 1
    BY <1>1, <1>2
  <2> QED
    BY <1>1, <1>2, <2>1
<1> QED
  BY <1>2 DEF ClearQueued

\* Taking any block keeps queued shows of the page timed.
LEMMA NextKeepsTimed ==
  ASSUME TypeOK, QueuedShowIsTimed, NEW h \in Huds, NEW kind, NextBlock(kind, h),
         UNCHANGED <<loopMode, timers>>
  PROVE  QueuedShowIsTimed'
<1>1. /\ Len(mainQueue) \in Nat \ {0}
      /\ DOMAIN mainQueue = 1 .. Len(mainQueue)
      /\ DOMAIN mainQueue' = 1 .. Len(mainQueue) - 1
      /\ \A k \in 1 .. Len(mainQueue) - 1 : mainQueue'[k] = mainQueue[k + 1]
  BY TailBlocks DEF NextBlock, TypeOK
<1> SUFFICES ASSUME loopMode[Page] = "loop", timers = 0,
                    NEW k \in DOMAIN mainQueue', mainQueue'[k] = <<"create", Page>>
             PROVE  \E j \in DOMAIN mainQueue' : j > k /\ mainQueue'[j] = <<"clear", Page>>
  BY DEF QueuedShowIsTimed, TypeOK
<1>2. k + 1 \in DOMAIN mainQueue /\ mainQueue[k + 1] = <<"create", Page>>
  BY <1>1
<1>3. PICK j \in DOMAIN mainQueue : j > k + 1 /\ mainQueue[j] = <<"clear", Page>>
  BY <1>2 DEF QueuedShowIsTimed
<1>4. j - 1 \in DOMAIN mainQueue' /\ j - 1 > k /\ mainQueue'[j - 1] = <<"clear", Page>>
  BY <1>1, <1>3
<1> QED
  BY <1>4

\* Adding a block that does not show the page's HUD keeps shows timed, if it
\* clears that HUD even when the last timer goes.
LEMMA AppendKeepsTimed ==
  ASSUME TypeOK, QueuedShowIsTimed, NEW x \in Blocks,
         mainQueue' = Append(mainQueue, x), x # <<"create", Page>>,
         loopMode'[Page] = loopMode[Page],
         timers' = timers \/ x = <<"clear", Page>>
  PROVE  QueuedShowIsTimed'
<1>1. /\ DOMAIN mainQueue' = 1 .. Len(mainQueue) + 1
      /\ DOMAIN mainQueue = 1 .. Len(mainQueue)
      /\ \A k \in DOMAIN mainQueue : mainQueue'[k] = mainQueue[k]
      /\ mainQueue'[Len(mainQueue) + 1] = x
      /\ Len(mainQueue) \in Nat
  BY AppendBlocks DEF TypeOK
<1> SUFFICES ASSUME loopMode[Page] = "loop",
                    NEW k \in DOMAIN mainQueue', mainQueue'[k] = <<"create", Page>>
             PROVE  \/ timers' > 0
                    \/ \E j \in DOMAIN mainQueue' :
                         j > k /\ mainQueue'[j] = <<"clear", Page>>
  BY DEF QueuedShowIsTimed
<1>2. k \in DOMAIN mainQueue /\ mainQueue[k] = <<"create", Page>>
  <2>1. k # Len(mainQueue) + 1
    BY <1>1
  <2>2. k \in DOMAIN mainQueue
    BY <1>1, <2>1
  <2> QED
    BY <1>1, <2>2
<1>3. CASE x = <<"clear", Page>>
  <2>1. /\ Len(mainQueue) + 1 \in DOMAIN mainQueue'
        /\ Len(mainQueue) + 1 > k
        /\ mainQueue'[Len(mainQueue) + 1] = <<"clear", Page>>
    BY <1>1, <1>2, <1>3
  <2> QED
    BY <2>1
<1>4. CASE timers' = timers
  <2>1. \/ timers > 0
        \/ \E j \in DOMAIN mainQueue : j > k /\ mainQueue[j] = <<"clear", Page>>
    BY <1>2 DEF QueuedShowIsTimed
  <2> QED
    BY <1>1, <1>4, <2>1
<1> QED
  BY <1>3, <1>4

\* A block that shows the page's HUD in loop mode leaves a timer, or its block.
LEMMA ShownIsTimed ==
  ASSUME TypeOK, QueuedShowIsTimed, NextBlock("create", Page),
         loopMode[Page] = "loop"
  PROVE  timers > 0 \/ ClearQueued'
<1>1. /\ Len(mainQueue) \in Nat \ {0}
      /\ DOMAIN mainQueue = 1 .. Len(mainQueue)
      /\ DOMAIN mainQueue' = 1 .. Len(mainQueue) - 1
      /\ \A k \in 1 .. Len(mainQueue) - 1 : mainQueue'[k] = mainQueue[k + 1]
      /\ mainQueue[1] = <<"create", Page>>
  BY TailBlocks DEF NextBlock, TypeOK
<1>2. \/ timers > 0
      \/ \E j \in DOMAIN mainQueue : j > 1 /\ mainQueue[j] = <<"clear", Page>>
  <2>1. 1 \in DOMAIN mainQueue
    BY <1>1
  <2> QED
    BY <1>1, <2>1 DEF QueuedShowIsTimed
<1>3. ASSUME NEW j \in DOMAIN mainQueue, j > 1, mainQueue[j] = <<"clear", Page>>
      PROVE  j - 1 \in DOMAIN mainQueue' /\ mainQueue'[j - 1] = <<"clear", Page>>
  BY <1>1, <1>3
<1> QED
  BY <1>2, <1>3 DEF ClearQueued

------------------------------------------------------------------------------
(* The page's HUD is never shown without something that will clear it.      *)

\* Queued shows stay timed in every step.
LEMMA TimedStep ==
  ASSUME TypeOK, QueuedShowIsTimed, [Next]_vars
  PROVE  QueuedShowIsTimed'
<1> USE HUDAssumption DEF Huds
<1>1. CASE AddAction
  <2>1. timers' > 0
    BY <1>1 DEF AddAction, ScheduleTimer, TypeOK
  <2> QED
    BY <2>1 DEF QueuedShowIsTimed
<1>2. CASE UpdateAction
  <2>1. loopMode'[Page] = "playOnce"
    BY <1>2 DEF UpdateAction, ShowHUD, TypeOK
  <2> QED
    BY <2>1 DEF QueuedShowIsTimed
<1>3. ASSUME NEW h \in Locals, DeleteAction(h)
      PROVE  QueuedShowIsTimed'
  <2>1. /\ <<"create", h>> \in Blocks
        /\ <<"create", h>> # <<"create", Page>>
        /\ loopMode'[Page] = loopMode[Page]
    BY <1>3 DEF DeleteAction, ShowHUD, Blocks, TypeOK
  <2> QED
    BY <1>3, <2>1, AppendKeepsTimed DEF DeleteAction, ShowHUD
<1>4. ASSUME NEW h \in Huds, CreateBlock(h) \/ ClearBlock(h)
      PROVE  QueuedShowIsTimed'
  BY <1>4, NextKeepsTimed DEF CreateBlock, ClearBlock
<1>5. ASSUME NEW h \in Huds, ClearHUD(h), loopMode' = loopMode,
             timers' = timers \/ h = Page
      PROVE  QueuedShowIsTimed'
  <2>1. <<"clear", h>> \in Blocks /\ <<"clear", h>> # <<"create", Page>>
    BY DEF Blocks
  <2> QED
    BY <1>5, <2>1, AppendKeepsTimed DEF ClearHUD
<1>6. ASSUME NEW h \in Huds, AnimationEnds(h) \/ InterruptedCompletion(h)
      PROVE  QueuedShowIsTimed'
  BY <1>5, <1>6 DEF AnimationEnds, InterruptedCompletion
<1>7. CASE TimerFires
  BY <1>5, <1>7 DEF TimerFires
<1>8. ASSUME NEW h \in Huds, FadeEnds(h)
      PROVE  QueuedShowIsTimed'
  BY <1>8 DEF FadeEnds, QueuedShowIsTimed
<1>9. CASE KeyWindowChanges
  BY <1>9 DEF KeyWindowChanges, QueuedShowIsTimed
<1>10. CASE UNCHANGED vars
  BY <1>10 DEF vars, QueuedShowIsTimed
<1> QED
  BY <1>1, <1>2, <1>3, <1>4, <1>6, <1>7, <1>8, <1>9, <1>10
     DEF Next, Touches, MainQueue

\* Without a moment without a key window, a step that shows the page's HUD, or
\* keeps it shown, leaves something that will clear it.
LEMMA RescueStep ==
  ASSUME TypeOK, RescueInv, [Next]_vars, ~KeyMayChange, maskView'[Page]
  PROVE  Rescue'
<1> USE HUDAssumption DEF Huds
<1>1. keyWindow /\ QueuedShowIsTimed /\ (maskView[Page] => Rescue)
  BY DEF RescueInv, PageIsRescued
<1>2. ASSUME NEW h \in Huds, NEW mode \in Modes, ShowHUD(h, mode),
             timers' \in {timers, timers + 1},
             h = Page /\ mode = "loop" => timers' = timers + 1
      PROVE  Rescue'
  <2>1. <<"create", h>> \in Blocks
    BY DEF Blocks
  <2>2. ClearQueued => ClearQueued'
    BY <1>2, <2>1, AppendKeeps DEF ShowHUD
  <2>3. timers > 0 => timers' > 0
    BY <1>2 DEF TypeOK
  <2>4. animation[Page] = "playOnce" => animation'[Page] = "playOnce" \/ timers' > 0
    BY <1>2 DEF ShowHUD, TypeOK, Modes
  <2> QED
    BY <1>1, <1>2, <2>2, <2>3, <2>4 DEF ShowHUD, Rescue
<1>3. CASE Touches
  BY <1>2, <1>3
     DEF Touches, AddAction, UpdateAction, DeleteAction, ScheduleTimer, Modes
<1>4. ASSUME CreateBlock(Page)
      PROVE  Rescue'
  <2>1. CASE loopMode[Page] = "playOnce"
    <3>1. animation'[Page] = "playOnce"
      BY <1>1, <1>4, <2>1 DEF CreateBlock, TypeOK
    <3> QED
      BY <3>1 DEF Rescue
  <2>2. CASE loopMode[Page] = "loop"
    <3>1. timers' = timers /\ NextBlock("create", Page)
      BY <1>4 DEF CreateBlock
    <3>2. timers > 0 \/ ClearQueued'
      BY <1>1, <2>2, <3>1, ShownIsTimed
    <3> QED
      BY <3>1, <3>2 DEF Rescue
  <2> QED
    BY <2>1, <2>2 DEF TypeOK, Modes
<1>5. ASSUME NEW h \in Locals, CreateBlock(h)
      PROVE  Rescue'
  <2>1. ClearQueued => ClearQueued'
    BY <1>5, NextKeeps DEF CreateBlock
  <2>2. /\ maskView'[Page] = maskView[Page]
        /\ animation'[Page] = animation[Page]
        /\ interrupted'[Page] = interrupted[Page]
        /\ fades' = fades
        /\ timers' = timers
    BY <1>1, <1>5 DEF CreateBlock, Interrupt, TypeOK
  <2> QED
    BY <1>1, <2>1, <2>2 DEF Rescue
<1>6. ASSUME ClearBlock(Page)
      PROVE  Rescue'
  <2>1. fades'[Page] > 0
    BY <1>6 DEF ClearBlock, FadeOut, TypeOK
  <2> QED
    BY <2>1 DEF Rescue
<1>7. ASSUME NEW h \in Locals, ClearBlock(h)
      PROVE  Rescue'
  <2>1. ClearQueued => ClearQueued'
    BY <1>7, NextKeeps DEF ClearBlock
  <2>2. fades'[Page] = fades[Page]
    BY <1>7 DEF ClearBlock, FadeOut, TypeOK
  <2> QED
    BY <1>1, <1>7, <2>1, <2>2 DEF ClearBlock, Rescue
<1>8. ASSUME AnimationEnds(Page) \/ InterruptedCompletion(Page) \/ TimerFires
      PROVE  Rescue'
  BY <1>8, ClearKeeps DEF AnimationEnds, InterruptedCompletion, TimerFires, Rescue
<1>9. ASSUME NEW h \in Locals, AnimationEnds(h) \/ InterruptedCompletion(h)
      PROVE  Rescue'
  <2>1. ClearQueued => ClearQueued'
    BY <1>9, ClearKeeps DEF AnimationEnds, InterruptedCompletion
  <2>2. /\ maskView' = maskView /\ fades' = fades /\ timers' = timers
        /\ animation'[Page] = animation[Page]
        /\ interrupted'[Page] = interrupted[Page]
    BY <1>9 DEF AnimationEnds, InterruptedCompletion, windowVars, TypeOK
  <2> QED
    BY <1>1, <2>1, <2>2 DEF Rescue
<1>10. ASSUME FadeEnds(Page)
       PROVE  FALSE
  BY <1>1, <1>10 DEF FadeEnds, FadeCompletion, Release, TypeOK
<1>11. ASSUME NEW h \in Locals, FadeEnds(h)
       PROVE  Rescue'
  <2>1. /\ maskView'[Page] = maskView[Page]
        /\ animation'[Page] = animation[Page]
        /\ interrupted'[Page] = interrupted[Page]
        /\ fades'[Page] = fades[Page]
        /\ timers' = timers
        /\ mainQueue' = mainQueue
    BY <1>1, <1>11 DEF FadeEnds, FadeCompletion, Release, Interrupt, TypeOK
  <2> QED
    BY <1>1, <2>1 DEF Rescue, ClearQueued
<1>12. CASE KeyWindowChanges
  BY <1>12 DEF KeyWindowChanges
<1>13. CASE UNCHANGED vars
  BY <1>1, <1>13 DEF vars, Rescue, ClearQueued
<1> QED
  BY <1>3, <1>4, <1>5, <1>6, <1>7, <1>8, <1>9, <1>10, <1>11, <1>12, <1>13
     DEF Next, MainQueue

\* However touches, timers, fades and interrupted animations are interleaved,
\* the page's HUD is never shown without something pending that will clear it
\* (LottieViewController.addAction and its timer, LottieHUD.clearHUD).
THEOREM RescueTheorem == Spec => []RescueInv
<1> USE HUDAssumption
<1>1. Init => RescueInv
  <2> SUFFICES ASSUME Init
               PROVE  RescueInv
    OBVIOUS
  <2>1. ~maskView[Page] /\ keyWindow /\ DOMAIN mainQueue = {}
    BY DEF Init, Huds
  <2> QED
    BY <2>1 DEF RescueInv, PageIsRescued, QueuedShowIsTimed
<1>2. TypeOK /\ RescueInv /\ [Next]_vars => RescueInv'
  <2> SUFFICES ASSUME TypeOK, RescueInv, [Next]_vars
               PROVE  RescueInv'
    OBVIOUS
  <2>1. ~KeyMayChange => keyWindow'
    BY DEF RescueInv, Next, Touches, MainQueue, AddAction, UpdateAction,
           DeleteAction, ShowHUD, CreateBlock, ClearBlock, AnimationEnds,
           InterruptedCompletion, FadeEnds, TimerFires, KeyWindowChanges, vars
  <2>2. PageIsRescued'
    BY RescueStep DEF PageIsRescued
  <2>3. QueuedShowIsTimed'
    BY TimedStep DEF RescueInv
  <2> QED
    BY <2>1, <2>2, <2>3 DEF RescueInv
<1> QED
  BY <1>1, <1>2, TypeCorrect, PTL DEF Spec

------------------------------------------------------------------------------
(* Masks and touches.                                                       *)

\* What a step may do to the window: show a mask and disable it, remove one
\* mask and enable it, or neither.
LEMMA WindowStep ==
  ASSUME TypeOK, [Next]_vars
  PROVE  \/ UNCHANGED <<isUserInteractionEnabled, maskView>>
         \/ \E h \in Huds : /\ ~isUserInteractionEnabled'
                            /\ maskView' = [maskView EXCEPT ![h] = TRUE]
         \/ \E h \in Huds : /\ isUserInteractionEnabled'
                            /\ maskView' = [maskView EXCEPT ![h] = FALSE]
<1>1. ASSUME NEW h \in Huds, CreateBlock(h)
      PROVE  \/ UNCHANGED <<isUserInteractionEnabled, maskView>>
             \/ /\ ~isUserInteractionEnabled'
                /\ maskView' = [maskView EXCEPT ![h] = TRUE]
  BY <1>1 DEF CreateBlock, DisableWindow, windowVars
<1>2. ASSUME NEW h \in Huds, FadeEnds(h)
      PROVE  \/ UNCHANGED <<isUserInteractionEnabled, maskView>>
             \/ /\ isUserInteractionEnabled'
                /\ maskView' = [maskView EXCEPT ![h] = FALSE]
  BY <1>2 DEF FadeEnds, FadeCompletion, Release, windowVars
<1> QED
  BY <1>1, <1>2
     DEF Next, Touches, MainQueue, AddAction, UpdateAction, DeleteAction, ShowHUD,
         ClearBlock, AnimationEnds, InterruptedCompletion, TimerFires,
         KeyWindowChanges, vars, windowVars

\* What a step may do to a mask the user sees while the window stays disabled:
\* nothing but end its fade, and that without a key window.
LEMMA SeenStep ==
  ASSUME TypeOK, [Next]_vars, ~isUserInteractionEnabled',
         NEW h \in Huds, Seen(h)
  PROVE  Seen(h)' \/ (~keyWindow /\ fades'[h] < fades[h])
<1>1. ASSUME NEW g \in Huds, CreateBlock(g)
      PROVE  Seen(h)'
  BY <1>1 DEF CreateBlock, Seen, windowVars, TypeOK
<1>2. ASSUME NEW g \in Huds, ClearBlock(g)
      PROVE  Seen(h)'
  BY <1>2 DEF ClearBlock, FadeOut, Seen, TypeOK
<1>3. ASSUME NEW g \in Huds, FadeEnds(g)
      PROVE  Seen(h)' \/ (~keyWindow /\ fades'[h] < fades[h])
  <2>1. ~keyWindow /\ UNCHANGED windowVars
    BY <1>3 DEF FadeEnds, FadeCompletion, Release
  <2>2. fades[g] > 0 /\ fades' = [fades EXCEPT ![g] = @ - 1]
    BY <1>3 DEF FadeEnds, FadeUnderWay
  <2>3. CASE g = h
    BY <2>1, <2>2, <2>3 DEF TypeOK
  <2>4. CASE g # h
    BY <2>1, <2>2, <2>4 DEF Seen, windowVars, TypeOK
  <2> QED
    BY <2>3, <2>4
<1>4. CASE UNCHANGED <<maskView, alpha, fades>>
  BY <1>4 DEF Seen
<1> QED
  BY <1>1, <1>2, <1>3, <1>4
     DEF Next, Touches, MainQueue, AddAction, UpdateAction, DeleteAction, ShowHUD,
         AnimationEnds, InterruptedCompletion, TimerFires, KeyWindowChanges,
         vars, windowVars

\* A step that disables the window shows a mask.
LEMMA DisableStep ==
  ASSUME TypeOK, [Next]_vars, isUserInteractionEnabled, ~isUserInteractionEnabled'
  PROVE  \E h \in Huds : Seen(h)'
<1>1. PICK h \in Huds : CreateBlock(h) /\ keyWindow
  BY DEF Next, Touches, MainQueue, AddAction, UpdateAction, DeleteAction, ShowHUD,
         CreateBlock, ClearBlock, AnimationEnds, InterruptedCompletion, FadeEnds,
         FadeCompletion, Release, TimerFires, KeyWindowChanges, vars, windowVars
<1>2. maskView'[h] /\ alpha'[h]
  BY <1>1 DEF CreateBlock, TypeOK
<1> QED
  BY <1>2 DEF Seen

\* A page turns into one that looks usable and is not only as a fade ends
\* without a key window, with any number of HUDs (createHUD, clearHUD).
THEOREM SeenTheorem == Spec => SeenUntilKeyless
<1>1. TypeOK /\ [Next]_vars =>
        [DisabledIsSeen =>
           \/ DisabledIsSeen'
           \/ ~keyWindow /\ \E h \in Huds : fades'[h] < fades[h]]_vars
  BY SeenStep, DisableStep DEF DisabledIsSeen
<1> QED
  BY <1>1, TypeCorrect, PTL DEF Spec, SeenUntilKeyless

\* So where some window is always key, a disabled window is always under a mask
\* that is opaque or whose fade will enable it.
THEOREM KeyedIsSeen == Spec => [](~KeyMayChange => DisabledIsSeen)
<1> DEFINE Inv == ~KeyMayChange => DisabledIsSeen
<1>1. Init => Inv
  BY DEF Init, DisabledIsSeen
<1>2. TypeOK /\ RescueInv /\ Inv /\ [Next]_vars => Inv'
  BY SeenStep, DisableStep DEF DisabledIsSeen, RescueInv
<1> QED
  BY <1>1, <1>2, TypeCorrect, RescueTheorem, PTL DEF Spec

\* Without HUDs of deleteAction no touch goes through a mask (maskView itself
\* takes no touches).
THEOREM TouchTheorem == Spec => []MaskedIsDisabled
<1>1. Init => MaskedIsDisabled
  BY DEF Init, MaskedIsDisabled, Huds
<1>2. TypeOK /\ MaskedIsDisabled /\ [Next]_vars => MaskedIsDisabled'
  <2> SUFFICES ASSUME TypeOK, MaskedIsDisabled, [Next]_vars, Locals = {}
               PROVE  maskView'[Page] => ~isUserInteractionEnabled'
    BY DEF MaskedIsDisabled
  <2>1. Huds = {Page}
    BY DEF Huds
  <2> QED
    BY <2>1, WindowStep DEF MaskedIsDisabled, TypeOK
<1> QED
  BY <1>1, <1>2, TypeCorrect, PTL DEF Spec

\* No animation plays without its mask: a mask goes only together with its
\* animation, and showing again changes the mode of an animation, never starts one.
THEOREM AnimationTheorem == Spec => []AnimationIsMasked
<1>1. Init => AnimationIsMasked
  BY DEF Init, AnimationIsMasked
<1>2. TypeOK /\ AnimationIsMasked /\ [Next]_vars => AnimationIsMasked'
  <2> SUFFICES ASSUME TypeOK, AnimationIsMasked, [Next]_vars
               PROVE  AnimationIsMasked'
    OBVIOUS
  <2> USE HUDAssumption DEF TypeOK, AnimationIsMasked
  <2>1. CASE \E h \in Huds, mode \in Modes : ShowHUD(h, mode)
    BY <2>1 DEF ShowHUD
  <2>2. CASE \E h \in Huds : CreateBlock(h)
    BY <2>2 DEF CreateBlock, windowVars
  <2>3. CASE \E h \in Huds : AnimationEnds(h)
    BY <2>3 DEF AnimationEnds
  <2>4. CASE \E h \in Huds : FadeEnds(h)
    BY <2>4 DEF FadeEnds, FadeCompletion, Release, windowVars
  <2>5. CASE UNCHANGED windowVars
    BY <2>5 DEF windowVars
  <2> QED
    BY <2>1, <2>2, <2>3, <2>4, <2>5
       DEF Next, Touches, MainQueue, AddAction, DeleteAction, UpdateAction, ClearBlock, InterruptedCompletion,
           TimerFires, KeyWindowChanges, Huds, Modes, vars, windowVars
<1> QED
  BY <1>1, <1>2, TypeCorrect, PTL DEF Spec
==============================================================================
