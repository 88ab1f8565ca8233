---------------------------- MODULE RenderContext ----------------------------
(***************************************************************************)
(* The render context of the Original build (src/paper_rt64_context.cpp).  *)
(* The game draws each frame with two graphics tasks, the background and   *)
(* the main one; the runtime's graphics thread takes tasks, screen updates *)
(* and config changes from one queue and calls the context for each, which *)
(* drives RT64; the settings sheet asks for configs on the main thread and *)
(* shows, every half second, the scale and size that the renderer          *)
(* confirms in three atomics.                                              *)
(***************************************************************************)
EXTENDS Integers, Sequences

CONSTANTS
  Modes,        \* <<resolution_mode, aspect_mode>> the sheet asks for
  Saved,        \* those that may be saved when the app is launched
  WindowScale,  \* the whole-number scale RT64 picks for the window in Auto
  fbSize,       \* the VI's framebuffer once the game has set a video mode
  MaxChanges    \* bound: calls of PaperPad_SetGraphicsConfig

ASSUME ModesAssumption == Modes \subseteq (0..4) \X (0..1) /\ Saved \subseteq Modes
ASSUME SizesAssumption ==
  WindowScale \in Nat \ {0} /\ fbSize \in (Nat \ {0}) \X (Nat \ {0})
ASSUME ChangesAssumption == MaxChanges \in Nat

VARIABLES
  config,     \* the runtime's GraphicsConfig
  actions,    \* the runtime's action_queue
  old_config, \* the config the graphics thread has dealt with
  app,        \* app # nullptr
  userConfig, \* app->userConfig
  drawn,      \* the framebuffer the game draws into
  front,      \* the one the VI shows
  scale,      \* resolutionScale, of what RT64 drew last
  instant,    \* RT64 presents after every task
  gfx,        \* where the graphics thread is: idle, complete, or between the stores
  effective,  \* effective_scale_milli, effective_internal_width and _height
  video,      \* the game has set a video mode
  game,       \* where the game is in a frame: back, main, wait
  sheet,      \* where the sheet's refresh is: idle, width, height
  read,       \* what it has loaded
  label,      \* what the sheet shows, Waiting before the renderer has confirmed
  presented,  \* history: the framebuffer presented last
  changes     \* configs asked for

settings == <<config, changes>>
thread   == <<old_config, app, userConfig, scale, instant, gfx, effective>>
frames   == <<drawn, front, video, game, presented>>
status   == <<sheet, read, label>>
vars     == <<settings, actions, thread, frames, status>>

-----------------------------------------------------------------------------
(* Configs *)

\* PaperPad_SetGraphicsConfig
GraphicsConfig(mode) ==
  [res_option |-> <<"Auto", "Original", "Original2x", "Manual", "Manual">>[mode[1] + 1],
   resolution_multiplier |-> IF mode[1] > 0 THEN mode[1] ELSE 2,
   ar_option |-> IF mode[2] = 1 THEN "Expand" ELSE "Original"]

to_rt64(option) ==
  CASE option = "Original" -> "Original"
    [] option \in {"Original2x", "Manual"} -> "Manual"
    [] OTHER -> "WindowIntegerScale"

\* apply_user_config.  The projection is the original one whatever the player asks
\* for; Fill Screen only crops what is presented.  The options that the app leaves
\* alone have the same value in every config.
apply_user_config(c) ==
  [resolution |-> to_rt64(c.res_option),
   resolutionMultiplier |->
     IF c.res_option = "Original2x" THEN 2 ELSE c.resolution_multiplier,
   aspectRatio |-> "Original",
   fillActiveArea |-> c.ar_option = "Expand"]

\* RT64: the scale it renders at
RenderScale(user) ==
  CASE user.resolution = "Original" -> 1
    [] user.resolution = "Manual" -> user.resolutionMultiplier
    [] user.resolution = "WindowIntegerScale" -> WindowScale

\* Mutant of discard_fbs: the multiplier is forgotten.
DiscardOnOption(old, new) ==
  old.res_option # new.res_option \/ old.ar_option # new.ar_option

\* What update_config compares, of the options that the app changes
discard_fbs(old, new) ==
  \/ old.res_option # new.res_option
  \/ old.resolution_multiplier # new.resolution_multiplier
  \/ old.ar_option # new.ar_option

-----------------------------------------------------------------------------
(* The main thread *)

\* set_graphics_config stores the config and queues a notice for the graphics thread.
SetGraphicsConfig(mode) ==
  /\ changes < MaxChanges
  /\ changes' = changes + 1
  /\ config' = GraphicsConfig(mode)
  /\ actions' = Append(actions, "config")
  /\ UNCHANGED <<thread, frames, status>>

\* refreshResolutionStatus, on its timer and after a change:
\* PaperPad_GetEffectiveRenderState loads the three atomics one after the other.
Waiting == [scale |-> 0, width |-> 0, height |-> 0]

LoadScale ==
  /\ sheet = "idle"
  /\ read' = [Waiting EXCEPT !.scale = effective.scale]
  /\ sheet' = "width"
  /\ UNCHANGED <<settings, actions, thread, frames, label>>

LoadWidth ==
  /\ sheet = "width"
  /\ read' = [read EXCEPT !.width = effective.width]
  /\ sheet' = "height"
  /\ UNCHANGED <<settings, actions, thread, frames, label>>

LoadHeight ==
  /\ sheet = "height"
  /\ LET all == [read EXCEPT !.height = effective.height]
     IN  label' = IF 0 \in {all.scale, all.width, all.height} THEN Waiting ELSE all
  /\ read' = Waiting
  /\ sheet' = "idle"
  /\ UNCHANGED <<settings, actions, thread, frames>>

-----------------------------------------------------------------------------
(* The game *)

Empty == [tasks |-> {}, scale |-> 0, discarded |-> FALSE]

SetVideoMode ==
  /\ ~video
  /\ video' = TRUE
  /\ UNCHANGED <<settings, actions, thread, drawn, front, game, presented, status>>

SubmitBack ==
  /\ game = "back"
  /\ actions' = Append(actions, "back")
  /\ game' = "main"
  /\ UNCHANGED <<settings, thread, drawn, front, video, presented, status>>

SubmitMain ==
  /\ game = "main"
  /\ actions' = Append(actions, "main")
  /\ game' = "wait"
  /\ UNCHANGED <<settings, thread, drawn, front, video, presented, status>>

-----------------------------------------------------------------------------
(* The graphics thread *)

\* create_render_context.  A context whose setup fails is not valid, and the program
\* ends.
CreateRenderContext ==
  /\ ~app
  /\ app' = TRUE
  /\ old_config' = config
  /\ userConfig' = apply_user_config(config)
  /\ scale' = RenderScale(userConfig')
  /\ UNCHANGED <<settings, actions, instant, gfx, effective, frames, status>>

Takes(action) ==
  /\ app /\ gfx = "idle"
  /\ actions # <<>> /\ Head(actions) = action

\* Mutant of enable_instant_present: RT64 presents whatever a task has drawn.
EnableInstantPresent == instant' = TRUE

\* enable_instant_present, called for the first task, does nothing.
enable_instant_present == UNCHANGED instant

\* send_dl: RT64 draws a task, at the scale its config asks for.
SendDl(task) ==
  /\ Takes(task)
  /\ enable_instant_present
  /\ actions' = Tail(actions)
  /\ scale' = RenderScale(userConfig)
  /\ drawn' = [drawn EXCEPT !.tasks = @ \cup {task},
                            !.scale = IF @ = 0 THEN scale' ELSE @]
  /\ presented' = IF instant' THEN drawn' ELSE presented
  /\ gfx' = IF task = "main" THEN "complete" ELSE "idle"
  /\ UNCHANGED <<settings, old_config, app, userConfig, effective, front, video,
                 game, status>>

\* The main task is complete: the game swaps its framebuffers and may go on.
Complete ==
  /\ gfx = "complete"
  /\ front' = drawn
  /\ drawn' = Empty
  /\ game' = "back"
  /\ gfx' = "swapped"
  /\ UNCHANGED <<settings, actions, old_config, app, userConfig, scale, instant,
                 effective, video, presented, status>>

\* Only then, at the swap, is a screen update queued.
QueueScreen ==
  /\ gfx = "swapped"
  /\ actions' = Append(actions, "screen")
  /\ gfx' = "idle"
  /\ UNCHANGED <<settings, old_config, app, userConfig, scale, instant, effective,
                 frames, status>>

Discard(framebuffer) ==
  IF framebuffer.tasks = {} THEN framebuffer ELSE [Empty EXCEPT !.discarded = TRUE]

\* Mutant of UpdateConfig: only a change of the option counts as one.
UpdateOption ==
  /\ Takes("config")
  /\ actions' = Tail(actions)
  /\ old_config' = config
  /\ IF old_config.res_option = config.res_option
     THEN UNCHANGED <<userConfig, drawn, front>>
     ELSE /\ userConfig' = apply_user_config(config)
          /\ drawn' = Discard(drawn) /\ front' = Discard(front)
  /\ UNCHANGED <<settings, app, scale, instant, gfx, effective, video, game,
                 presented, status>>

\* The runtime calls update_config, which returns when nothing changed.
UpdateConfig ==
  /\ Takes("config")
  /\ actions' = Tail(actions)
  /\ old_config' = config
  /\ IF old_config = config
     THEN UNCHANGED <<userConfig, drawn, front>>
     ELSE /\ userConfig' = apply_user_config(config)
          /\ IF discard_fbs(old_config, config)
             THEN drawn' = Discard(drawn) /\ front' = Discard(front)
             ELSE UNCHANGED <<drawn, front>>
  /\ UNCHANGED <<settings, app, scale, instant, gfx, effective, video, game,
                 presented, status>>

\* update_screen presents, then stores the effective scale, width and height.
UpdateScreen ==
  /\ Takes("screen")
  /\ actions' = Tail(actions)
  /\ presented' = front
  /\ gfx' = "scale"
  /\ UNCHANGED <<settings, old_config, app, userConfig, scale, instant, effective,
                 drawn, front, video, game, status>>

StoreScale ==
  /\ gfx = "scale"
  /\ effective' = [effective EXCEPT !.scale = scale]
  /\ gfx' = "width"
  /\ UNCHANGED <<settings, actions, old_config, app, userConfig, scale, instant,
                 frames, status>>

FramebufferSize == IF video THEN fbSize ELSE <<0, 0>>

StoreWidth ==
  /\ gfx = "width"
  /\ effective' = [effective EXCEPT !.width = FramebufferSize[1] * scale]
  /\ gfx' = "height"
  /\ UNCHANGED <<settings, actions, old_config, app, userConfig, scale, instant,
                 frames, status>>

StoreHeight ==
  /\ gfx = "height"
  /\ effective' = [effective EXCEPT !.height = FramebufferSize[2] * scale]
  /\ gfx' = "idle"
  /\ UNCHANGED <<settings, actions, old_config, app, userConfig, scale, instant,
                 frames, status>>

-----------------------------------------------------------------------------
Init ==
  /\ config \in {GraphicsConfig(m) : m \in Saved}
  /\ actions = <<>>
  /\ old_config = config
  /\ app = FALSE
  /\ userConfig = apply_user_config(config)
  /\ drawn = Empty /\ front = Empty /\ presented = Empty
  /\ scale = 1 /\ instant = FALSE /\ gfx = "idle"
  /\ effective = Waiting
  /\ video = FALSE /\ game = "back"
  /\ sheet = "idle" /\ read = Waiting /\ label = Waiting
  /\ changes = 0

Game == SubmitBack \/ SubmitMain
Gfx ==
  \/ CreateRenderContext
  \/ SendDl("back") \/ SendDl("main") \/ Complete \/ QueueScreen
  \/ UpdateConfig
  \/ UpdateScreen \/ StoreScale \/ StoreWidth \/ StoreHeight
Refresh == LoadScale \/ LoadWidth \/ LoadHeight

Next ==
  \/ \E mode \in Modes : SetGraphicsConfig(mode)
  \/ Refresh
  \/ SetVideoMode \/ Game
  \/ Gfx

Spec == Init /\ [][Next]_vars

\* The game draws frames, the graphics thread takes its actions, and the sheet's
\* timer runs while it is open.
Fairness ==
  WF_vars(Game) /\ WF_vars(SetVideoMode) /\ WF_vars(Gfx) /\ WF_vars(Refresh)

FairSpec == Spec /\ Fairness

-----------------------------------------------------------------------------
(* Properties *)

Configs == {GraphicsConfig(m) : m \in Modes}
Numbers == [scale : Nat, width : Nat, height : Nat]
Framebuffers ==
  [tasks : SUBSET {"back", "main"}, scale : Nat, discarded : BOOLEAN]

TypeOK ==
  /\ config \in Configs /\ old_config \in Configs
  /\ userConfig \in {apply_user_config(c) : c \in Configs}
  /\ actions \in Seq({"config", "back", "main", "screen"})
  /\ app \in BOOLEAN /\ instant \in BOOLEAN /\ video \in BOOLEAN
  /\ drawn \in Framebuffers /\ front \in Framebuffers /\ presented \in Framebuffers
  /\ scale \in Nat
  /\ gfx \in {"idle", "complete", "swapped", "scale", "width", "height"}
  /\ effective \in Numbers /\ read \in Numbers /\ label \in Numbers
  /\ game \in {"back", "main", "wait"}
  /\ sheet \in {"idle", "width", "height"}
  /\ changes \in 0..MaxChanges

\* The player never sees a half-built frame (KNOWN-ISSUES.md, full/partial flashing):
\* what is presented has both tasks of its frame, unless a config change discarded
\* the framebuffers in the middle of it.
PresentedIsWhole ==
  presented = Empty \/ presented.discarded \/ presented.tasks = {"back", "main"}

\* No framebuffer drawn at another scale outlives a change: what the renderer draws
\* into and shows was all drawn at the scale its config asks for.
FramebuffersMatchConfig ==
  \A f \in {drawn, front} : f.scale \in {0, RenderScale(userConfig)}

\* The renderer-confirmed numbers of the sheet settle on what the player asked for,
\* although the three atomics are stored and loaded one by one and for a while may
\* come from two configs.
LabelSettles ==
  \A m \in Modes :
    LET s == RenderScale(apply_user_config(GraphicsConfig(m)))
    IN  <>[](config = GraphicsConfig(m)) =>
          <>[](label = [scale |-> s, width |-> fbSize[1] * s, height |-> fbSize[2] * s])
=============================================================================
