------------------------ MODULE RenderContextProofs ------------------------
(***************************************************************************)
(* The render context for any modes, sizes and number of changes: only     *)
(* whole frames are presented, no framebuffer outlives its scale, no config *)
(* is lost, and the numbers the renderer confirms belong together.          *)
(***************************************************************************)
EXTENDS RenderContext, TLAPS

-----------------------------------------------------------------------------
(* What the queue holds of a frame *)

Tasks   == {"back", "main"}
Kinds   == {"config", "back", "main", "screen"}
NoTask(q)      == \A n \in 1..Len(q) : q[n] \notin Tasks
OneTask(q, t)  == \E n \in 1..Len(q) :
                    q[n] = t /\ \A m \in (1..Len(q)) \ {n} : q[m] \notin Tasks
BothTasks(q)   == \E i, j \in 1..Len(q) :
                    /\ i < j /\ q[i] = "back" /\ q[j] = "main"
                    /\ \A m \in (1..Len(q)) \ {i, j} : q[m] \notin Tasks

\* A notice or a screen update behind the tasks changes nothing about them.
LEMMA AppendOther ==
  ASSUME NEW q \in Seq(Kinds), NEW a \in Kinds \ Tasks, NEW t \in Tasks
  PROVE  /\ NoTask(q) => NoTask(Append(q, a))
         /\ OneTask(q, t) => OneTask(Append(q, a), t)
         /\ BothTasks(q) => BothTasks(Append(q, a))
<1> DEFINE r == Append(q, a)
<1>1. /\ Len(r) = Len(q) + 1 /\ Len(q) \in Nat
      /\ \A n \in 1..Len(q) : r[n] = q[n]
      /\ r[Len(q) + 1] = a
  OBVIOUS
<1> HIDE DEF r
<1>2. NoTask(q) => NoTask(r)
  BY <1>1 DEF NoTask
<1>3. ASSUME OneTask(q, t) PROVE OneTask(r, t)
  <2>1. PICK n \in 1..Len(q) : q[n] = t /\ \A m \in (1..Len(q)) \ {n} : q[m] \notin Tasks
    BY <1>3 DEF OneTask
  <2>2. n \in 1..Len(r) /\ r[n] = t /\ \A m \in (1..Len(r)) \ {n} : r[m] \notin Tasks
    BY <1>1, <2>1
  <2> QED
    BY <2>2 DEF OneTask
<1>4. ASSUME BothTasks(q) PROVE BothTasks(r)
  <2>1. PICK i, j \in 1..Len(q) : /\ i < j /\ q[i] = "back" /\ q[j] = "main"
                                  /\ \A m \in (1..Len(q)) \ {i, j} : q[m] \notin Tasks
    BY <1>4 DEF BothTasks
  <2>2. /\ i \in 1..Len(r) /\ j \in 1..Len(r) /\ r[i] = "back" /\ r[j] = "main"
        /\ \A m \in (1..Len(r)) \ {i, j} : r[m] \notin Tasks
    BY <1>1, <2>1
  <2> QED
    BY <2>1, <2>2 DEF BothTasks
<1> QED
  BY <1>2, <1>3, <1>4 DEF r

\* The game adds its two tasks in order.
LEMMA AppendTask ==
  ASSUME NEW q \in Seq(Kinds)
  PROVE  /\ NoTask(q) => \A t \in Tasks : OneTask(Append(q, t), t)
         /\ OneTask(q, "back") => BothTasks(Append(q, "main"))
<1>1. ASSUME NEW t \in Tasks, NoTask(q) PROVE OneTask(Append(q, t), t)
  <2> DEFINE r == Append(q, t)
  <2>1. /\ Len(r) = Len(q) + 1 /\ Len(q) \in Nat
        /\ \A n \in 1..Len(q) : r[n] = q[n]
        /\ r[Len(q) + 1] = t
    BY DEF Tasks, Kinds
  <2> HIDE DEF r
  <2>2. /\ Len(q) + 1 \in 1..Len(r)
        /\ \A m \in (1..Len(r)) \ {Len(q) + 1} : r[m] \notin Tasks
    BY <1>1, <2>1 DEF NoTask
  <2>3. OneTask(r, t)
    BY <2>1, <2>2 DEF OneTask
  <2> QED
    BY <2>3 DEF r
<1>2. ASSUME OneTask(q, "back") PROVE BothTasks(Append(q, "main"))
  <2> DEFINE r == Append(q, "main")
  <2>1. /\ Len(r) = Len(q) + 1 /\ Len(q) \in Nat
        /\ \A n \in 1..Len(q) : r[n] = q[n]
        /\ r[Len(q) + 1] = "main"
    BY DEF Kinds
  <2> HIDE DEF r
  <2>2. PICK i \in 1..Len(q) : q[i] = "back" /\ \A m \in (1..Len(q)) \ {i} : q[m] \notin Tasks
    BY <1>2 DEF OneTask
  <2> DEFINE j == Len(q) + 1
  <2>3. /\ i \in 1..Len(r) /\ j \in 1..Len(r) /\ i < j /\ r[i] = "back" /\ r[j] = "main"
        /\ \A m \in (1..Len(r)) \ {i, j} : r[m] \notin Tasks
    BY <2>1, <2>2
  <2>4. BothTasks(r)
    BY <2>3 DEF BothTasks
  <2> QED
    BY <2>4 DEF r
<1> QED
  BY <1>1, <1>2

\* Taking what is no task leaves the tasks; taking a task leaves those behind it.
LEMMA TakeHead ==
  ASSUME NEW q \in Seq(Kinds), q # <<>>
  PROVE  /\ NoTask(q) => Head(q) \notin Tasks /\ NoTask(Tail(q))
         /\ \A t \in Tasks : OneTask(q, t) =>
              IF Head(q) \in Tasks THEN Head(q) = t /\ NoTask(Tail(q)) ELSE OneTask(Tail(q), t)
         /\ BothTasks(q) =>
              IF Head(q) \in Tasks THEN Head(q) = "back" /\ OneTask(Tail(q), "main")
              ELSE BothTasks(Tail(q))
<1> DEFINE r == Tail(q)
<1>1. /\ Len(q) \in Nat \ {0} /\ Len(r) = Len(q) - 1 /\ Head(q) = q[1]
      /\ \A n \in 1..Len(r) : r[n] = q[n + 1]
  OBVIOUS
<1> HIDE DEF r
<1>2. NoTask(q) => Head(q) \notin Tasks /\ NoTask(r)
  BY <1>1 DEF NoTask
<1>3. ASSUME NEW t \in Tasks, OneTask(q, t)
      PROVE  IF Head(q) \in Tasks THEN Head(q) = t /\ NoTask(r) ELSE OneTask(r, t)
  <2>1. PICK n \in 1..Len(q) : q[n] = t /\ \A m \in (1..Len(q)) \ {n} : q[m] \notin Tasks
    BY <1>3 DEF OneTask
  <2>2. CASE n = 1
    BY <1>1, <2>1, <2>2 DEF NoTask
  <2>3. CASE n > 1
    <3>1. n - 1 \in 1..Len(r) /\ r[n - 1] = t /\ q[1] \notin Tasks
      BY <1>1, <2>1, <2>3
    <3>2. \A m \in (1..Len(r)) \ {n - 1} : r[m] \notin Tasks
      BY <1>1, <2>1, <2>3
    <3> QED
      BY <1>1, <3>1, <3>2 DEF OneTask
  <2> QED
    BY <2>2, <2>3
<1>4. ASSUME BothTasks(q)
      PROVE  IF Head(q) \in Tasks THEN Head(q) = "back" /\ OneTask(r, "main") ELSE BothTasks(r)
  <2>1. PICK i, j \in 1..Len(q) : /\ i < j /\ q[i] = "back" /\ q[j] = "main"
                                  /\ \A m \in (1..Len(q)) \ {i, j} : q[m] \notin Tasks
    BY <1>4 DEF BothTasks
  <2>2. j - 1 \in 1..Len(r) /\ r[j - 1] = "main"
    BY <1>1, <2>1
  <2>3. CASE i = 1
    <3>1. \A m \in (1..Len(r)) \ {j - 1} : r[m] \notin Tasks
      BY <1>1, <2>1, <2>3
    <3> QED
      BY <1>1, <2>1, <2>2, <2>3, <3>1 DEF OneTask, Tasks
  <2>4. CASE i > 1
    <3>1. /\ i - 1 \in 1..Len(r) /\ i - 1 < j - 1 /\ r[i - 1] = "back" /\ q[1] \notin Tasks
      BY <1>1, <2>1, <2>4
    <3>2. \A m \in (1..Len(r)) \ {i - 1, j - 1} : r[m] \notin Tasks
      BY <1>1, <2>1, <2>4
    <3> QED
      BY <1>1, <2>2, <3>1, <3>2 DEF BothTasks
  <2> QED
    BY <2>3, <2>4
<1> QED
  BY <1>2, <1>3, <1>4 DEF r

-----------------------------------------------------------------------------
(* Types *)

\* RT64 is always asked for a whole-number scale.
LEMMA ScaleType ==
  ASSUME NEW c \in Configs
  PROVE  RenderScale(apply_user_config(c)) \in Nat \ {0}
<1>1. PICK m \in Modes : c = GraphicsConfig(m)
  BY DEF Configs
<1>2. m[1] \in 0..4
  BY ModesAssumption
<1>3. /\ c.res_option \in {"Auto", "Original", "Original2x", "Manual"}
      /\ c.resolution_multiplier \in Nat \ {0}
  BY <1>1, <1>2 DEF GraphicsConfig
<1>4. CASE c.res_option = "Auto"
  BY <1>4, SizesAssumption DEF RenderScale, apply_user_config, to_rt64
<1>5. CASE c.res_option = "Original"
  BY <1>5 DEF RenderScale, apply_user_config, to_rt64
<1>6. CASE c.res_option \in {"Original2x", "Manual"}
  BY <1>3, <1>6 DEF RenderScale, apply_user_config, to_rt64
<1> QED
  BY <1>3, <1>4, <1>5, <1>6

\* The types hold at the start.
LEMMA InitType == Init => TypeOK
<1> SUFFICES ASSUME Init PROVE TypeOK
  OBVIOUS
<1>1. config \in Configs /\ old_config \in Configs
  BY ModesAssumption DEF Init, Configs
<1>2. Empty \in Framebuffers /\ Waiting \in Numbers
  BY DEF Empty, Framebuffers, Waiting, Numbers
<1>3. <<>> \in Seq({"config", "back", "main", "screen"}) /\ 0 \in 0..MaxChanges
  BY ChangesAssumption
<1> QED
  BY <1>1, <1>2, <1>3 DEF Init, TypeOK

\* Every step keeps the types.
LEMMA TypeStep == TypeOK /\ [Next]_vars => TypeOK'
<1> SUFFICES ASSUME TypeOK, [Next]_vars PROVE TypeOK'
  OBVIOUS
<1> USE DEF TypeOK
<1>a. actions # <<>> => Tail(actions) \in Seq({"config", "back", "main", "screen"})
  OBVIOUS
<1>b. Empty \in Framebuffers /\ \A f \in Framebuffers : Discard(f) \in Framebuffers
  BY DEF Empty, Framebuffers, Discard
<1>c. \A c \in Configs : RenderScale(apply_user_config(c)) \in Nat
  BY ScaleType
<1>0. CASE UNCHANGED vars
  BY <1>0 DEF vars, settings, thread, frames, status
<1>1. ASSUME NEW mode \in Modes, SetGraphicsConfig(mode) PROVE TypeOK'
  BY <1>1, ChangesAssumption DEF SetGraphicsConfig, thread, frames, status, Configs
<1>2. CASE LoadScale \/ LoadWidth
  <2>1. read' \in Numbers
    BY <1>2 DEF LoadScale, LoadWidth, Waiting, Numbers
  <2> QED
    BY <1>2, <2>1 DEF LoadScale, LoadWidth, settings, thread, frames
<1>3. CASE LoadHeight
  <2>1. read' \in Numbers /\ label' \in Numbers
    BY <1>3 DEF LoadHeight, Waiting, Numbers
  <2> QED
    BY <1>3, <2>1 DEF LoadHeight, settings, thread, frames
<1>4. CASE SetVideoMode \/ SubmitBack \/ SubmitMain
  <2>1. actions' \in Seq({"config", "back", "main", "screen"})
    BY <1>4 DEF SetVideoMode, SubmitBack, SubmitMain
  <2>2. video' \in BOOLEAN /\ game' \in {"back", "main", "wait"}
    BY <1>4 DEF SetVideoMode, SubmitBack, SubmitMain
  <2> QED
    BY <1>4, <2>1, <2>2 DEF SetVideoMode, SubmitBack, SubmitMain, settings, thread, status
<1>5. CASE CreateRenderContext
  <2>1. scale' \in Nat
    BY <1>5, <1>c DEF CreateRenderContext
  <2> QED
    BY <1>5, <2>1 DEF CreateRenderContext, settings, frames, status
<1>6. ASSUME NEW task \in {"back", "main"}, SendDl(task) PROVE TypeOK'
  <2>1. scale' \in Nat
    BY <1>6, <1>c DEF SendDl
  <2>2. drawn' \in Framebuffers
    BY <1>6, <2>1 DEF SendDl, Framebuffers
  <2>3. presented' \in Framebuffers /\ instant' = instant
    BY <1>6, <2>2 DEF SendDl, enable_instant_present
  <2> QED
    BY <1>6, <1>a, <2>1, <2>2, <2>3 DEF SendDl, Takes, settings, status
<1>7. CASE Complete \/ QueueScreen
  BY <1>7, <1>b, SMTT(20) DEF Complete, QueueScreen, settings, frames, status
<1>8. CASE UpdateConfig
  <2>1. userConfig' \in {apply_user_config(c) : c \in Configs}
    BY <1>8 DEF UpdateConfig
  <2>2. drawn' \in Framebuffers /\ front' \in Framebuffers
    BY <1>8, <1>b DEF UpdateConfig
  <2> QED
    BY <1>8, <1>a, <2>1, <2>2 DEF UpdateConfig, Takes, settings, status
<1>9. CASE UpdateScreen
  BY <1>9, <1>a DEF UpdateScreen, Takes, settings, status
<1>10. CASE StoreScale \/ StoreWidth \/ StoreHeight
  <2>1. FramebufferSize[1] \in Nat /\ FramebufferSize[2] \in Nat
    BY SizesAssumption DEF FramebufferSize
  <2>2. FramebufferSize[1] * scale \in Nat /\ FramebufferSize[2] * scale \in Nat
    BY <2>1
  <2>3. effective' \in Numbers
    BY <1>10, <2>2 DEF StoreScale, StoreWidth, StoreHeight, Numbers
  <2> QED
    BY <1>10, <2>3 DEF StoreScale, StoreWidth, StoreHeight, settings, frames, status
<1> QED
  BY <1>0, <1>1, <1>2, <1>3, <1>4, <1>5, <1>6, <1>7, <1>8, <1>9, <1>10
     DEF Next, Refresh, Game, Gfx

\* Type correctness (TypeOK), for any modes, sizes and number of changes.
THEOREM RenderTypeCorrect == Spec => []TypeOK
BY InitType, TypeStep, PTL DEF Spec

-----------------------------------------------------------------------------
(* Whole frames *)

Fresh(f) == f.tasks = {} /\ ~f.discarded
Begun(f) == f.discarded \/ f.tasks = {"back"}
Whole(f) == f.discarded \/ f.tasks = {"back", "main"}

\* Where a frame is between the game, the queue and the framebuffer it is drawn in.
FrameInv ==
  \/ /\ game = "back" /\ gfx # "complete"
     /\ NoTask(actions) /\ Fresh(drawn)
  \/ /\ game = "main" /\ gfx # "complete"
     /\ \/ OneTask(actions, "back") /\ Fresh(drawn)
        \/ NoTask(actions) /\ Begun(drawn)
  \/ /\ game = "wait" /\ gfx # "complete"
     /\ \/ BothTasks(actions) /\ Fresh(drawn)
        \/ OneTask(actions, "main") /\ Begun(drawn)
  \/ /\ game = "wait" /\ gfx = "complete"
     /\ NoTask(actions) /\ Whole(drawn)

\* What the VI shows and what was presented is whole; RT64 presents at screen updates only.
ShownInv ==
  /\ ~instant
  /\ front = Empty \/ Whole(front)
  /\ presented = Empty \/ Whole(presented)

PInv == TypeOK /\ FrameInv /\ ShownInv

\* The invariant holds at the start.
LEMMA InitPInv == Init => PInv
<1> SUFFICES ASSUME Init PROVE PInv
  OBVIOUS
<1>1. Len(actions) = 0 /\ Fresh(drawn)
  BY DEF Init, Empty, Fresh
<1>2. NoTask(actions)
  BY <1>1 DEF NoTask
<1> QED
  BY <1>1, <1>2, InitType DEF Init, PInv, FrameInv, ShownInv

\* A config change leaves a framebuffer as far as it was, or marks it discarded.
LEMMA DiscardKeeps ==
  ASSUME NEW f \in Framebuffers
  PROVE  /\ Fresh(f) => Fresh(Discard(f))
         /\ Begun(f) => Begun(Discard(f))
         /\ f = Empty \/ Whole(f) => Discard(f) = Empty \/ Whole(Discard(f))
BY DEF Fresh, Begun, Whole, Discard, Empty, Framebuffers

\* Each action keeps the frame where it may be.
LEMMA PStep == PInv /\ [Next]_vars => PInv'
<1> SUFFICES ASSUME PInv, [Next]_vars PROVE PInv'
  OBVIOUS
<1>t. TypeOK /\ TypeOK'
  BY TypeStep DEF PInv
<1>q. actions \in Seq(Kinds)
  BY <1>t DEF TypeOK, Kinds
<1> SUFFICES FrameInv' /\ ShownInv'
  BY <1>t DEF PInv
<1>f. FrameInv /\ ShownInv
  BY DEF PInv
<1>0. CASE /\ UNCHANGED <<actions, drawn, front, presented, instant, game>>
           /\ (gfx' = gfx \/ (gfx # "complete" /\ gfx' # "complete"))
  BY <1>0, <1>f DEF FrameInv, ShownInv, NoTask, OneTask, BothTasks
<1>1. ASSUME NEW mode \in Modes, SetGraphicsConfig(mode) PROVE FrameInv' /\ ShownInv'
  <2>1. actions' = Append(actions, "config") /\ UNCHANGED <<game, gfx, drawn, front, presented, instant>>
    BY <1>1 DEF SetGraphicsConfig, thread, frames
  <2>2. "config" \in Kinds \ Tasks /\ {"back", "main"} = Tasks
    BY DEF Kinds, Tasks
  <2> QED
    BY <1>f, <1>q, <2>1, <2>2, AppendOther DEF FrameInv, ShownInv
<1>2. CASE SubmitBack
  <2>1. actions' = Append(actions, "back") /\ UNCHANGED <<gfx, drawn, front, presented, instant>>
        /\ game = "back" /\ game' = "main"
    BY <1>2 DEF SubmitBack, thread
  <2>2. NoTask(actions) /\ Fresh(drawn) /\ gfx # "complete"
    BY <1>f, <2>1 DEF FrameInv
  <2>3. OneTask(actions', "back")
    BY <1>q, <2>1, <2>2, AppendTask DEF Tasks
  <2> QED
    BY <1>f, <2>1, <2>2, <2>3 DEF FrameInv, ShownInv
<1>3. CASE SubmitMain
  <2>1. actions' = Append(actions, "main") /\ UNCHANGED <<gfx, drawn, front, presented, instant>>
        /\ game = "main" /\ game' = "wait"
    BY <1>3 DEF SubmitMain, thread
  <2>2. /\ gfx # "complete"
        /\ \/ OneTask(actions, "back") /\ Fresh(drawn)
           \/ NoTask(actions) /\ Begun(drawn)
    BY <1>f, <2>1 DEF FrameInv
  <2>3. OneTask(actions, "back") => BothTasks(actions')
    BY <1>q, <2>1, AppendTask
  <2>4. NoTask(actions) => OneTask(actions', "main")
    BY <1>q, <2>1, AppendTask DEF Tasks
  <2> QED
    BY <1>f, <2>1, <2>2, <2>3, <2>4 DEF FrameInv, ShownInv
<1>4. CASE SendDl("back")
  <2>1. /\ gfx = "idle" /\ actions # <<>> /\ Head(actions) = "back" /\ actions' = Tail(actions)
        /\ UNCHANGED <<game, front, presented, instant>> /\ gfx' = "idle"
        /\ drawn'.tasks = drawn.tasks \cup {"back"} /\ drawn'.discarded = drawn.discarded
    BY <1>4, <1>t, <1>f DEF SendDl, Takes, enable_instant_present, ShownInv, TypeOK, Framebuffers
  <2>2. /\ Head(actions) \in Tasks
        /\ \/ game = "main" /\ OneTask(actions, "back") /\ Fresh(drawn)
           \/ game = "wait" /\ BothTasks(actions) /\ Fresh(drawn)
    <3>1. ~NoTask(actions) /\ ~OneTask(actions, "main") /\ Head(actions) \in Tasks
      BY <1>q, <2>1, TakeHead DEF Tasks
    <3> QED
      BY <1>f, <2>1, <3>1 DEF FrameInv
  <2>3. Begun(drawn')
    BY <2>1, <2>2 DEF Fresh, Begun
  <2>4. /\ game = "main" => NoTask(actions')
        /\ game = "wait" => OneTask(actions', "main")
    BY <1>q, <2>1, <2>2, TakeHead DEF Tasks
  <2> QED
    BY <1>f, <2>1, <2>2, <2>3, <2>4 DEF FrameInv, ShownInv
<1>5. CASE SendDl("main")
  <2>1. /\ gfx = "idle" /\ actions # <<>> /\ Head(actions) = "main" /\ actions' = Tail(actions)
        /\ UNCHANGED <<game, front, presented, instant>> /\ gfx' = "complete"
        /\ drawn'.tasks = drawn.tasks \cup {"main"} /\ drawn'.discarded = drawn.discarded
    BY <1>5, <1>t, <1>f DEF SendDl, Takes, enable_instant_present, ShownInv, TypeOK, Framebuffers
  <2>2. game = "wait" /\ OneTask(actions, "main") /\ Begun(drawn)
    <3>1. ~NoTask(actions) /\ ~OneTask(actions, "back") /\ ~BothTasks(actions)
      BY <1>q, <2>1, TakeHead DEF Tasks
    <3> QED
      BY <1>f, <2>1, <3>1 DEF FrameInv
  <2>3. Whole(drawn')
    BY <2>1, <2>2 DEF Begun, Whole
  <2>4. NoTask(actions')
    BY <1>q, <2>1, <2>2, TakeHead DEF Tasks
  <2> QED
    BY <1>f, <2>1, <2>2, <2>3, <2>4 DEF FrameInv, ShownInv
<1>6. CASE Complete
  <2>1. /\ gfx = "complete" /\ gfx' = "swapped" /\ game' = "back" /\ front' = drawn
        /\ drawn' = Empty /\ UNCHANGED <<actions, presented, instant>>
    BY <1>6 DEF Complete
  <2>2. NoTask(actions) /\ Whole(drawn)
    BY <1>f, <2>1 DEF FrameInv
  <2> QED
    BY <1>f, <2>1, <2>2 DEF FrameInv, ShownInv, Fresh, Empty
<1>7. CASE QueueScreen
  <2>1. /\ gfx = "swapped" /\ gfx' = "idle" /\ actions' = Append(actions, "screen")
        /\ UNCHANGED <<game, drawn, front, presented, instant>>
    BY <1>7 DEF QueueScreen, frames
  <2>2. "screen" \in Kinds \ Tasks /\ {"back", "main"} = Tasks
    BY DEF Kinds, Tasks
  <2> QED
    BY <1>f, <1>q, <2>1, <2>2, AppendOther DEF FrameInv, ShownInv
<1>8. CASE UpdateConfig \/ UpdateScreen
  <2>1. /\ gfx = "idle" /\ actions # <<>> /\ Head(actions) \notin Tasks /\ actions' = Tail(actions)
        /\ gfx' # "complete" /\ UNCHANGED <<game, instant>>
    BY <1>8 DEF UpdateConfig, UpdateScreen, Takes, Tasks
  <2>2. /\ drawn' \in {drawn, Discard(drawn)} /\ front' \in {front, Discard(front)}
        /\ presented' \in {presented, front}
    BY <1>8 DEF UpdateConfig, UpdateScreen
  <2>3. /\ Fresh(drawn) => Fresh(drawn')
        /\ Begun(drawn) => Begun(drawn')
        /\ front' = Empty \/ Whole(front')
    BY <1>t, <1>f, <2>2, DiscardKeeps DEF TypeOK, ShownInv
  <2>4. /\ NoTask(actions) => NoTask(actions')
        /\ \A t \in Tasks : OneTask(actions, t) => OneTask(actions', t)
        /\ BothTasks(actions) => BothTasks(actions')
    BY <1>q, <2>1, TakeHead
  <2>5. ShownInv'
    BY <1>f, <2>1, <2>2, <2>3 DEF ShownInv
  <2> QED
    BY <1>f, <2>1, <2>3, <2>4, <2>5 DEF FrameInv, Tasks
<1>9. CASE Refresh \/ SetVideoMode \/ CreateRenderContext \/ StoreScale \/ StoreWidth \/ StoreHeight
  <2>1. /\ UNCHANGED <<actions, drawn, front, presented, instant, game>>
        /\ gfx' = gfx \/ (gfx # "complete" /\ gfx' # "complete")
    BY <1>9 DEF Refresh, LoadScale, LoadWidth, LoadHeight, SetVideoMode, CreateRenderContext,
                StoreScale, StoreWidth, StoreHeight, thread, frames
  <2> QED
    BY <1>0, <2>1
<1>10. CASE UNCHANGED vars
  BY <1>0, <1>10 DEF vars, thread, frames
<1> QED
  BY <1>1, <1>2, <1>3, <1>4, <1>5, <1>6, <1>7, <1>8, <1>9, <1>10 DEF Next, Game, Gfx

\* A half-built frame is never presented (PresentedIsWhole), whatever configs are
\* asked for while the game draws.
THEOREM OnlyWholeFrames == Spec => []PresentedIsWhole
<1>1. PInv => PresentedIsWhole
  BY DEF PInv, ShownInv, Whole, PresentedIsWhole
<1> QED
  BY <1>1, InitPInv, PStep, PTL DEF Spec

-----------------------------------------------------------------------------
(* Scales *)

\* RT64 has the config the graphics thread has dealt with, and everything that was
\* drawn was drawn at its scale; before the context exists nothing is drawn.
ScaleInv ==
  /\ userConfig = apply_user_config(old_config)
  /\ \A f \in {drawn, front} :
       /\ f.scale \in {0, RenderScale(userConfig)}
       /\ f.tasks = {} => f.scale = 0
  /\ ~app => gfx = "idle" /\ drawn = Empty /\ front = Empty

\* Configs that differ at all differ in what update_config compares.
LEMMA ConfigsDiffer ==
  ASSUME NEW c \in Configs, NEW d \in Configs, c # d
  PROVE  discard_fbs(c, d)
<1>1. /\ c = [res_option |-> c.res_option, resolution_multiplier |-> c.resolution_multiplier,
              ar_option |-> c.ar_option]
      /\ d = [res_option |-> d.res_option, resolution_multiplier |-> d.resolution_multiplier,
              ar_option |-> d.ar_option]
  BY DEF Configs, GraphicsConfig
<1> QED
  BY <1>1 DEF discard_fbs

\* Every step keeps a framebuffer's scale that of the applied config.
LEMMA ScaleStep == TypeOK /\ ScaleInv /\ [Next]_vars => ScaleInv'
<1> SUFFICES ASSUME TypeOK, ScaleInv, [Next]_vars PROVE ScaleInv'
  OBVIOUS
<1>0. CASE UNCHANGED <<userConfig, old_config, drawn, front, app>> /\ (app \/ gfx' = gfx)
  BY <1>0 DEF ScaleInv
<1>1. CASE CreateRenderContext
  BY <1>1 DEF CreateRenderContext, ScaleInv, Empty, frames
<1>2. ASSUME NEW task \in {"back", "main"}, SendDl(task) PROVE ScaleInv'
  <2>1. /\ app /\ app' = app /\ UNCHANGED <<userConfig, old_config, front>>
        /\ drawn'.scale = IF drawn.scale = 0 THEN RenderScale(userConfig) ELSE drawn.scale
        /\ drawn'.tasks # {}
    BY <1>2 DEF SendDl, Takes, TypeOK, Framebuffers
  <2> QED
    BY <2>1 DEF ScaleInv
<1>3. CASE Complete
  <2>1. /\ app /\ app' /\ UNCHANGED <<userConfig, old_config>>
        /\ front' = drawn /\ drawn' = Empty
    BY <1>3 DEF Complete, ScaleInv, TypeOK
  <2> QED
    BY <2>1 DEF ScaleInv, Empty
<1>4. CASE UpdateConfig
  <2>1. /\ app /\ app' /\ old_config' = config
    BY <1>4 DEF UpdateConfig, Takes
  <2>2. CASE old_config = config
    BY <1>4, <2>1, <2>2 DEF UpdateConfig, ScaleInv
  <2>3. CASE old_config # config
    <3>1. discard_fbs(old_config, config)
      BY <2>3, ConfigsDiffer DEF TypeOK
    <3>2. /\ userConfig' = apply_user_config(config)
          /\ drawn' = Discard(drawn) /\ front' = Discard(front)
      BY <1>4, <2>3, <3>1 DEF UpdateConfig
    <3>3. \A f \in {drawn', front'} : f.scale = 0
      BY <3>2 DEF Discard, Empty, ScaleInv
    <3> QED
      BY <2>1, <3>2, <3>3 DEF ScaleInv
  <2> QED
    BY <2>2, <2>3
<1>5. CASE \/ \E mode \in Modes : SetGraphicsConfig(mode)
           \/ Refresh \/ SetVideoMode \/ Game \/ UNCHANGED vars
  BY <1>0, <1>5 DEF SetGraphicsConfig, Refresh, LoadScale, LoadWidth, LoadHeight, SetVideoMode,
                    Game, SubmitBack, SubmitMain, vars, thread, frames
<1>6. CASE QueueScreen \/ UpdateScreen \/ StoreScale \/ StoreWidth \/ StoreHeight
  <2>1. UNCHANGED <<userConfig, old_config, drawn, front, app>> /\ app
    BY <1>6 DEF QueueScreen, UpdateScreen, Takes, StoreScale, StoreWidth, StoreHeight, frames,
                ScaleInv, TypeOK
  <2> QED
    BY <1>0, <2>1
<1> QED
  BY <1>1, <1>2, <1>3, <1>4, <1>5, <1>6 DEF Next, Gfx

\* No framebuffer outlives the scale it was drawn at (FramebuffersMatchConfig).
THEOREM NoStaleFramebuffer == Spec => []FramebuffersMatchConfig
<1>1. Init => ScaleInv
  BY DEF Init, ScaleInv, Empty
<1>2. TypeOK /\ ScaleInv => FramebuffersMatchConfig
  BY DEF ScaleInv, FramebuffersMatchConfig
<1> QED
  BY <1>1, <1>2, InitType, TypeStep, ScaleStep, PTL DEF Spec

-----------------------------------------------------------------------------
(* What the player asked for, and what the sheet says of it *)

\* A notice of a config is still queued for the graphics thread.
NoticePending == \E n \in 1..Len(actions) : actions[n] = "config"

\* A config that the graphics thread has not dealt with has its notice in the queue.
NoticeOwed == app /\ old_config # config => NoticePending

\* The renderer has the player's last config, or a notice of it is on its way.
ConfigIsApplied == app /\ ~NoticePending => userConfig = apply_user_config(config)

\* Between the three stores of an update the first ones are of the scale that the
\* renderer still has: it draws nothing until the update is over.
Confirmed ==
  /\ gfx \in {"width", "height"} => app /\ effective.scale = scale
  /\ gfx # "width" => effective.width \in {0, fbSize[1] * effective.scale}
  /\ gfx \notin {"width", "height"} => effective.height \in {0, fbSize[2] * effective.scale}
  /\ gfx = "scale" => app

\* Outside an update the atomics are of one scale: width and height are the game's
\* framebuffer at it, or zero, for which the sheet waits.
ConfirmedNumbersAgree ==
  gfx \in {"idle", "complete", "swapped"} =>
    /\ effective.width \in {0, fbSize[1] * effective.scale}
    /\ effective.height \in {0, fbSize[2] * effective.scale}

\* A notice in the queue stays in it when something is added.
LEMMA AppendKeepsNotice ==
  ASSUME NEW q \in Seq(Kinds), NEW a \in Kinds
  PROVE  /\ \A n \in 1..Len(q) : q[n] = "config" =>
              \E m \in 1..Len(Append(q, a)) : Append(q, a)[m] = "config"
         /\ a = "config" => \E m \in 1..Len(Append(q, a)) : Append(q, a)[m] = "config"
<1> DEFINE r == Append(q, a)
<1>1. /\ Len(r) = Len(q) + 1 /\ Len(q) \in Nat
      /\ \A n \in 1..Len(q) : r[n] = q[n]
      /\ r[Len(q) + 1] = a
  OBVIOUS
<1> HIDE DEF r
<1>2. \A n \in 1..Len(q) : q[n] = "config" => \E m \in 1..Len(r) : r[m] = "config"
  BY <1>1
<1>3. a = "config" => \E m \in 1..Len(r) : r[m] = "config"
  BY <1>1
<1> QED
  BY <1>2, <1>3 DEF r

\* Taking anything else leaves a notice in the queue.
LEMMA TailKeepsNotice ==
  ASSUME NEW q \in Seq(Kinds), q # <<>>, Head(q) # "config",
         NEW n \in 1..Len(q), q[n] = "config"
  PROVE  \E m \in 1..Len(Tail(q)) : Tail(q)[m] = "config"
<1> DEFINE r == Tail(q)
<1>1. /\ Len(q) \in Nat \ {0} /\ Len(r) = Len(q) - 1 /\ Head(q) = q[1]
      /\ \A m \in 1..Len(r) : r[m] = q[m + 1]
  OBVIOUS
<1> HIDE DEF r
<1>2. n # 1
  BY <1>1
<1>3. n - 1 \in 1..Len(r) /\ r[n - 1] = q[n]
  BY <1>1, <1>2
<1>4. \E m \in 1..Len(r) : r[m] = "config"
  BY <1>3
<1> QED
  BY <1>4 DEF r

\* No step loses a notice.
LEMMA NoticeStep == TypeOK /\ NoticeOwed /\ [Next]_vars => NoticeOwed'
<1> SUFFICES ASSUME TypeOK, NoticeOwed, [Next]_vars PROVE NoticeOwed'
  OBVIOUS
<1>q. actions \in Seq(Kinds)
  BY DEF TypeOK, Kinds
<1>1. CASE UNCHANGED <<config, old_config, app, actions>>
  BY <1>1 DEF NoticeOwed, NoticePending
<1>2. ASSUME NEW mode \in Modes, SetGraphicsConfig(mode) PROVE NoticeOwed'
  <2>1. actions' = Append(actions, "config") /\ "config" \in Kinds
    BY <1>2 DEF SetGraphicsConfig, Kinds
  <2>2. NoticePending'
    BY <1>q, <2>1, AppendKeepsNotice DEF NoticePending
  <2> QED
    BY <2>2 DEF NoticeOwed
<1>3. CASE Game \/ QueueScreen
  <2>1. \E a \in Kinds : actions' = Append(actions, a)
    BY <1>3 DEF Game, SubmitBack, SubmitMain, QueueScreen, Kinds
  <2>2. UNCHANGED <<config, old_config, app>>
    BY <1>3 DEF Game, SubmitBack, SubmitMain, QueueScreen, settings, thread
  <2>3. NoticePending => NoticePending'
    BY <1>q, <2>1, AppendKeepsNotice DEF NoticePending
  <2> QED
    BY <2>2, <2>3 DEF NoticeOwed
<1>4. CASE CreateRenderContext \/ UpdateConfig
  <2>1. old_config' = config /\ config' = config
    BY <1>4 DEF CreateRenderContext, UpdateConfig, settings
  <2> QED
    BY <2>1 DEF NoticeOwed
<1>5. CASE SendDl("back") \/ SendDl("main") \/ UpdateScreen
  <2>1. /\ actions # <<>> /\ Head(actions) # "config" /\ actions' = Tail(actions)
        /\ UNCHANGED <<config, old_config, app>>
    BY <1>5 DEF SendDl, UpdateScreen, Takes, settings
  <2>2. NoticePending => NoticePending'
    BY <1>q, <2>1, TailKeepsNotice DEF NoticePending
  <2> QED
    BY <2>1, <2>2 DEF NoticeOwed
<1>6. CASE Refresh \/ SetVideoMode \/ Complete \/ StoreScale \/ StoreWidth \/ StoreHeight
           \/ UNCHANGED vars
  <2>1. UNCHANGED <<config, old_config, app, actions>>
    BY <1>6 DEF Refresh, LoadScale, LoadWidth, LoadHeight, SetVideoMode, Complete, StoreScale,
                StoreWidth, StoreHeight, vars, settings, thread
  <2> QED
    BY <1>1, <2>1
<1> QED
  BY <1>2, <1>3, <1>4, <1>5, <1>6 DEF Next, Gfx

\* No config is lost on its way: once the queue holds no notice the renderer has the one
\* the player asked for last, however configs, frames and the context's creation follow
\* each other.  It is what LabelSettles rests on, without fairness.
THEOREM NoConfigIsLost == Spec => []ConfigIsApplied
<1>1. Init => ScaleInv /\ NoticeOwed
  BY DEF Init, ScaleInv, Empty, NoticeOwed
<1>2. ScaleInv /\ NoticeOwed => ConfigIsApplied
  BY DEF ScaleInv, NoticeOwed, ConfigIsApplied
<1> QED
  BY <1>1, <1>2, InitType, TypeStep, ScaleStep, NoticeStep, PTL DEF Spec

\* Every step keeps the confirmed numbers of one scale.
LEMMA ConfirmedStep == TypeOK /\ ScaleInv /\ Confirmed /\ [Next]_vars => Confirmed'
<1> SUFFICES ASSUME TypeOK, ScaleInv, Confirmed, [Next]_vars PROVE Confirmed'
  OBVIOUS
<1>1. CASE gfx' \notin {"scale", "width", "height"} /\ gfx \notin {"scale", "width", "height"}
           /\ effective' = effective
  BY <1>1 DEF Confirmed
<1>2. CASE UNCHANGED <<gfx, effective, scale, app>>
  BY <1>2 DEF Confirmed
<1>3. CASE UpdateScreen
  <2>1. gfx = "idle" /\ gfx' = "scale" /\ effective' = effective /\ app /\ app' = app
    BY <1>3 DEF UpdateScreen, Takes
  <2> QED
    BY <2>1 DEF Confirmed
<1>4. CASE StoreScale
  <2>1. /\ gfx = "scale" /\ gfx' = "width" /\ effective'.scale = scale /\ app
        /\ UNCHANGED <<scale, app>>
    BY <1>4 DEF StoreScale, Confirmed, TypeOK, Numbers
  <2> QED
    BY <2>1 DEF Confirmed
<1>5. CASE StoreWidth
  <2>1. /\ gfx = "width" /\ gfx' = "height" /\ effective.scale = scale /\ app
        /\ effective'.scale = effective.scale
        /\ effective'.width = FramebufferSize[1] * scale
        /\ UNCHANGED <<scale, app>>
    BY <1>5 DEF StoreWidth, Confirmed, TypeOK, Numbers
  <2>2. FramebufferSize[1] * scale \in {0, fbSize[1] * scale}
    BY SizesAssumption DEF FramebufferSize, TypeOK
  <2> QED
    BY <2>1, <2>2 DEF Confirmed
<1>6. CASE StoreHeight
  <2>1. /\ gfx = "height" /\ gfx' = "idle" /\ effective.scale = scale
        /\ effective'.scale = effective.scale /\ effective'.width = effective.width
        /\ effective'.height = FramebufferSize[2] * scale
    BY <1>6 DEF StoreHeight, Confirmed, TypeOK, Numbers
  <2>2. FramebufferSize[2] * scale \in {0, fbSize[2] * scale}
    BY SizesAssumption DEF FramebufferSize, TypeOK
  <2> QED
    BY <2>1, <2>2 DEF Confirmed
<1>7. CASE SendDl("back") \/ SendDl("main") \/ Complete \/ QueueScreen \/ UpdateConfig
  <2>1. /\ gfx' \notin {"scale", "width", "height"} /\ gfx \notin {"scale", "width", "height"}
        /\ effective' = effective
    BY <1>7 DEF SendDl, Complete, QueueScreen, UpdateConfig, Takes
  <2> QED
    BY <1>1, <2>1
<1>8. CASE CreateRenderContext
  <2>1. gfx = "idle" /\ gfx' = gfx /\ effective' = effective
    BY <1>8 DEF CreateRenderContext, ScaleInv
  <2> QED
    BY <1>1, <2>1
<1>9. CASE \/ \E mode \in Modes : SetGraphicsConfig(mode)
           \/ Refresh \/ SetVideoMode \/ Game \/ UNCHANGED vars
  <2>1. UNCHANGED <<gfx, effective, scale, app>>
    BY <1>9 DEF SetGraphicsConfig, Refresh, LoadScale, LoadWidth, LoadHeight, SetVideoMode,
                Game, SubmitBack, SubmitMain, vars, thread
  <2> QED
    BY <1>2, <2>1
<1> QED
  BY <1>3, <1>4, <1>5, <1>6, <1>7, <1>8, <1>9 DEF Next, Gfx

\* Between two updates the three atomics are of one scale, for any sizes and configs, so
\* the sheet can show two scales at once only if an update stores while it loads.
THEOREM ConfirmedNumbersBelongTogether == Spec => []ConfirmedNumbersAgree
<1>1. Init => ScaleInv /\ Confirmed
  BY DEF Init, ScaleInv, Empty, Confirmed, Waiting
<1>2. Confirmed => ConfirmedNumbersAgree
  BY DEF Confirmed, ConfirmedNumbersAgree
<1> QED
  BY <1>1, <1>2, InitType, TypeStep, ScaleStep, ConfirmedStep, PTL DEF Spec
=============================================================================
