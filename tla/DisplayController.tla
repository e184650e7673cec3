-------------------------- MODULE DisplayController --------------------------
(***************************************************************************)
(* controllers/display_controller.cpp and the thread of the character      *)
(* frame buffer (Cfb) that it shares the screen with.                      *)
(*                                                                         *)
(* The controller's caller and the frame buffer's animation thread run     *)
(* concurrently: the thread calls animation_->Animate() on the object that *)
(* the controller owns, replaces and destroys.  An operation is entered by *)
(* an Op action and carried out by the steps of dpc.  Cfb is a library:    *)
(* its StopAnimation returns when the handler is not running and will not  *)
(* be called again, which is what lets the controller destroy the object   *)
(* right after it.                                                         *)
(***************************************************************************)
EXTENDS Integers

CONSTANTS
    Statuses,      \* status texts
    NoAnimation    \* animation_ is null

Kinds == 0..3      \* wave lines, dot path, particles, tapered wave

ASSUME DisplayAssumption == NoAnimation \notin Kinds

VARIABLES
    cfb,           \* whether the controller was given a frame buffer
    initialized,   \* is_initialized_
    animation,     \* animation_: the kind of the object, or NoAnimation
    current,       \* current_animation_index_
    inProgress,    \* is_animation_in_progress_
    statuses,      \* statuses_
    cfbOn,         \* the frame buffer's thread calls the handler
    inside,        \* is it inside Animate, and of an object that still lives?
    screen,        \* what was drawn last
    dpc, arg, text \* the operation being carried out

displayVars == <<cfb, initialized, animation, current, inProgress, statuses,
                 cfbOn, inside, screen, dpc, arg, text>>

(* Where an operation is: StartAnimation makes the object and runs it,      *)
(* StopAnimation stops the thread, waits for it and destroys the object,    *)
(* then the operation draws what it has to draw.                           *)
DisplayPC == {"idle", "make", "run", "stop", "join", "draw"}

(* What the operation draws once the animation is stopped.                 *)
Text == {"nothing", "line", "statuses"}

Screen == [shows : {"blank", "line", "statuses", "animation"},
           what  : SUBSET Statuses]
Blank  == [shows |-> "blank", what |-> {}]

DisplayInit ==
    /\ cfb \in BOOLEAN
    /\ initialized = FALSE
    /\ animation = NoAnimation /\ current = 0 /\ inProgress = FALSE
    /\ statuses = {}
    /\ cfbOn = FALSE /\ inside = "no"
    /\ screen = Blank
    /\ dpc = "idle" /\ arg = 0 /\ text = "nothing"

(* The fields an operation's entry leaves alone, whatever it starts.       *)
Untouched == UNCHANGED <<cfb, animation, current, inProgress, cfbOn, inside, screen>>

NoOp == UNCHANGED <<dpc, arg, text>>

(* StartAnimation: a negative index means the current one, and an unknown   *)
(* one changes nothing.                                                    *)
BeginStart(index) ==
    LET k == IF index < 0 THEN current ELSE index
    IN  IF k \in Kinds THEN dpc' = "make" /\ arg' = k /\ text' = text ELSE NoOp

BeginStop(what) == dpc' = "stop" /\ text' = what /\ arg' = arg

OpInitialize ==
    /\ dpc = "idle"
    /\ IF ~cfb \/ initialized
         THEN NoOp /\ UNCHANGED initialized
         ELSE initialized' = TRUE /\ BeginStart(0)
    /\ Untouched /\ UNCHANGED statuses

OpStartAnimation(index) ==
    /\ dpc = "idle"
    /\ IF initialized THEN BeginStart(index) ELSE NoOp
    /\ Untouched /\ UNCHANGED <<initialized, statuses>>

OpStopAnimation ==
    /\ dpc = "idle"
    /\ IF initialized THEN BeginStop("nothing") ELSE NoOp
    /\ Untouched /\ UNCHANGED <<initialized, statuses>>

OpPrintStringLine ==
    /\ dpc = "idle"
    /\ IF initialized THEN BeginStop("line") ELSE NoOp
    /\ Untouched /\ UNCHANGED <<initialized, statuses>>

(* UpdateStatuses: without statuses the animation is started again, also    *)
(* when it is already running; else it is stopped and the statuses drawn.   *)
BeginUpdate(s) ==
    /\ statuses' = s
    /\ IF s = {} THEN BeginStart(-1) ELSE BeginStop("statuses")

SetStatuses(s) ==
    /\ dpc = "idle"
    /\ IF initialized THEN BeginUpdate(s) ELSE NoOp /\ UNCHANGED statuses
    /\ Untouched /\ UNCHANGED initialized

OpAddStatus(s)    == SetStatuses(statuses \cup {s})
OpRemoveStatus(s) == SetStatuses(statuses \ {s})
OpClearStatuses   == SetStatuses({})

(* The thread inside Animate is left with a destroyed object when the       *)
(* unique_ptr that owned it is reassigned.                                 *)
Destroyed == IF inside = "live" THEN "dead" ELSE inside

MakeAnimation ==
    /\ dpc = "make"
    /\ animation' = arg
    /\ inside' = Destroyed
    /\ dpc' = "run"
    /\ UNCHANGED <<cfb, initialized, current, inProgress, statuses, cfbOn, screen,
                   arg, text>>

(* Mutant: the index of the animation to resume is not kept.               *)
RunAnimationForgetsIndex ==
    /\ dpc = "run"
    /\ cfbOn' = TRUE
    /\ inProgress' = TRUE
    /\ dpc' = "idle"
    /\ UNCHANGED <<cfb, initialized, animation, current, statuses, inside, screen,
                   arg, text>>

RunAnimation ==
    /\ dpc = "run"
    /\ cfbOn' = TRUE
    /\ inProgress' = TRUE
    /\ current' = arg
    /\ dpc' = "idle"
    /\ UNCHANGED <<cfb, initialized, animation, statuses, inside, screen, arg, text>>

NotInProgress ==
    /\ dpc = "stop" /\ ~inProgress
    /\ dpc' = "draw"
    /\ UNCHANGED <<cfb, initialized, animation, current, inProgress, statuses,
                   cfbOn, inside, screen, arg, text>>

(* Mutant: the thread is not told to stop.                                 *)
StopCfbForgotten ==
    /\ dpc = "stop" /\ inProgress
    /\ dpc' = "join"
    /\ UNCHANGED <<cfb, initialized, animation, current, inProgress, statuses,
                   cfbOn, inside, screen, arg, text>>

(* Cfb::StopAnimation tells the thread to stop and waits until it is out of *)
(* the handler.                                                            *)
StopCfb ==
    /\ dpc = "stop" /\ inProgress
    /\ cfbOn' = FALSE
    /\ dpc' = "join"
    /\ UNCHANGED <<cfb, initialized, animation, current, inProgress, statuses,
                   inside, screen, arg, text>>

(* Mutant: the thread is not waited for.                                   *)
ResetAnimationNoJoin ==
    /\ dpc = "join"
    /\ animation' = NoAnimation
    /\ inProgress' = FALSE
    /\ dpc' = "draw"
    /\ UNCHANGED <<cfb, initialized, current, statuses, cfbOn, inside, screen,
                   arg, text>>

ResetAnimation ==
    /\ dpc = "join" /\ inside = "no"
    /\ animation' = NoAnimation
    /\ inProgress' = FALSE
    /\ dpc' = "draw"
    /\ UNCHANGED <<cfb, initialized, current, statuses, cfbOn, inside, screen,
                   arg, text>>

Draw ==
    /\ dpc = "draw"
    /\ screen' = CASE text = "nothing"  -> screen
                   [] text = "line"     -> [shows |-> "line", what |-> {}]
                   [] text = "statuses" -> [shows |-> "statuses", what |-> statuses]
    /\ dpc' = "idle"
    /\ text' = "nothing"
    /\ UNCHANGED <<cfb, initialized, animation, current, inProgress, statuses,
                   cfbOn, inside, arg>>

DisplayStep ==
    \/ MakeAnimation \/ RunAnimation \/ NotInProgress \/ StopCfb
    \/ ResetAnimation \/ Draw

-----------------------------------------------------------------------------
(* The frame buffer's thread: one call of the handler.                     *)

BeginAnimate ==
    /\ cfbOn /\ inside = "no"
    /\ inside' = IF animation = NoAnimation THEN "dead" ELSE "live"
    /\ UNCHANGED <<cfb, initialized, animation, current, inProgress, statuses,
                   cfbOn, screen, dpc, arg, text>>

EndAnimate ==
    /\ inside # "no"
    /\ inside' = "no"
    /\ screen' = [shows |-> "animation", what |-> {}]
    /\ UNCHANGED <<cfb, initialized, animation, current, inProgress, statuses,
                   cfbOn, dpc, arg, text>>

CfbThread == BeginAnimate \/ EndAnimate

-----------------------------------------------------------------------------
(* The controller under any sequence of its public operations.             *)

(* -1 asks for the current animation, 4 is an index that does not exist.    *)
Operation ==
    \/ OpInitialize \/ OpStopAnimation \/ OpPrintStringLine \/ OpClearStatuses
    \/ \E index \in -1..4 : OpStartAnimation(index)
    \/ \E s \in Statuses : OpAddStatus(s) \/ OpRemoveStatus(s)

DisplayNext == Operation \/ DisplayStep \/ CfbThread

DisplaySpec == DisplayInit /\ [][DisplayNext]_displayVars

-----------------------------------------------------------------------------
(* Every field has its type.                                               *)
DisplayTypeOK ==
    /\ cfb \in BOOLEAN /\ initialized \in BOOLEAN
    /\ animation \in Kinds \cup {NoAnimation}
    /\ current \in Kinds /\ arg \in Kinds
    /\ inProgress \in BOOLEAN /\ cfbOn \in BOOLEAN
    /\ statuses \subseteq Statuses
    /\ inside \in {"no", "live", "dead"}
    /\ screen \in Screen
    /\ dpc \in DisplayPC /\ text \in Text

(* Whatever is called in whatever order, the frame buffer's thread has an   *)
(* animation object to call while it runs, and between operations the flag  *)
(* that decides whether StopAnimation does anything agrees with the thread  *)
(* and the object is the one current_animation_index_ names, so that a      *)
(* later StartAnimation() resumes the animation that was interrupted.       *)
AnimationConsistent ==
    /\ cfbOn => animation # NoAnimation
    /\ dpc = "idle" =>
         /\ inProgress <=> cfbOn
         /\ animation = IF inProgress THEN current ELSE NoAnimation
=============================================================================
