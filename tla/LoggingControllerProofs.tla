---------------------- MODULE LoggingControllerProofs ----------------------
(***************************************************************************)
(* What TLAPS proves of DisplayController and of LoggingController, for any *)
(* statuses and any number of updates: the animation, its flag and its     *)
(* thread agree whatever is called; in the composed system no destroyed    *)
(* animation is drawn, the status shown is the state of the log writer, and *)
(* every answer to a command is true.                                      *)
(***************************************************************************)
EXTENDS LoggingController, TLAPS

USE DisplayAssumption, LoggingAssumption

-----------------------------------------------------------------------------
(* The display under any sequence of operations.                           *)

(* What holds between the animation object, the flag and the thread at each *)
(* place of an operation.                                                  *)
ObjectFollowsFlag == animation = IF inProgress THEN current ELSE NoAnimation

DisplayInv ==
    /\ DisplayTypeOK
    /\ cfbOn => animation # NoAnimation
    /\ dpc # "join" => (inProgress <=> cfbOn)
    /\ dpc \in {"idle", "make", "stop", "draw"} => ObjectFollowsFlag
    /\ dpc = "run" => animation = arg
    /\ dpc = "join" => inProgress /\ ~cfbOn
    /\ dpc = "draw" => ~inProgress
    /\ inside # "no" => inProgress

(* A new display has no animation.                                         *)
LEMMA DisplayInitInv == DisplayInit => DisplayInv
<1> SUFFICES ASSUME DisplayInit PROVE DisplayInv
  OBVIOUS
<1>1. DisplayTypeOK
  <2>1. screen \in Screen /\ 0 \in Kinds
    BY DEF DisplayInit, Screen, Blank, Kinds
  <2> QED
    BY <2>1, Zenon DEF DisplayInit, DisplayTypeOK, DisplayPC, Text
<1> QED
  BY <1>1 DEF DisplayInit, DisplayInv, ObjectFollowsFlag

(* The operations begin with the animation as the last one left it.        *)
LEMMA OperationInv ==
    ASSUME DisplayInv, Operation PROVE DisplayInv'
<1> USE DEF DisplayInv, DisplayTypeOK, ObjectFollowsFlag, Untouched, NoOp, BeginStart,
            BeginStop, DisplayPC, Text, Kinds
<1>1. CASE OpInitialize
  BY <1>1 DEF OpInitialize
<1>2. CASE OpStopAnimation \/ OpPrintStringLine
  BY <1>2 DEF OpStopAnimation, OpPrintStringLine
<1>3. ASSUME NEW index \in -1..4, OpStartAnimation(index) PROVE DisplayInv'
  BY <1>3 DEF OpStartAnimation
<1>4. ASSUME NEW s \in SUBSET Statuses, SetStatuses(s) PROVE DisplayInv'
  BY <1>4 DEF SetStatuses, BeginUpdate
<1>5. CASE OpClearStatuses
  BY <1>4, <1>5 DEF OpClearStatuses
<1>6. ASSUME NEW s \in Statuses, OpAddStatus(s) \/ OpRemoveStatus(s)
      PROVE  DisplayInv'
  <2>1. statuses \cup {s} \in SUBSET Statuses /\ statuses \ {s} \in SUBSET Statuses
    OBVIOUS
  <2> QED
    BY <1>4, <1>6, <2>1 DEF OpAddStatus, OpRemoveStatus
<1> QED
  BY <1>1, <1>2, <1>3, <1>5, <1>6 DEF Operation

(* The steps of an operation and those of the frame buffer's thread.       *)
LEMMA DisplayStepInv ==
    ASSUME DisplayInv, DisplayStep \/ CfbThread PROVE DisplayInv'
<1> USE DEF DisplayInv, DisplayTypeOK, ObjectFollowsFlag, DisplayPC
<1>1. CASE MakeAnimation
  BY <1>1 DEF MakeAnimation, Destroyed
<1>2. CASE RunAnimation
  BY <1>2 DEF RunAnimation
<1>3. CASE NotInProgress
  BY <1>3 DEF NotInProgress
<1>7. CASE StopCfb
  BY <1>7 DEF StopCfb
<1>8. CASE ResetAnimation
  BY <1>8 DEF ResetAnimation
<1>4. CASE Draw
  <2>1. screen' \in Screen
    BY <1>4 DEF Draw, Text, Screen
  <2> QED
    BY <1>4, <2>1 DEF Draw, Text
<1>5. CASE BeginAnimate
  BY <1>5 DEF BeginAnimate
<1>6. CASE EndAnimate
  BY <1>6 DEF EndAnimate, Screen
<1> QED
  BY <1>1, <1>2, <1>3, <1>4, <1>5, <1>6, <1>7, <1>8 DEF DisplayStep, CfbThread

(* DisplayInv is inductive.                                                *)
LEMMA DisplayNextInv == DisplayInv /\ [DisplayNext]_displayVars => DisplayInv'
<1>1. DisplayInv /\ UNCHANGED displayVars => DisplayInv'
  BY DEF DisplayInv, DisplayTypeOK, ObjectFollowsFlag, displayVars
<1> QED
  BY OperationInv, DisplayStepInv, <1>1 DEF DisplayNext

(* For any sequence of calls the frame buffer's thread has an object to     *)
(* call, and the flag and the index tell the truth between them.           *)
THEOREM AnimationAlwaysConsistent == DisplaySpec => []AnimationConsistent
<1>1. DisplayInv => AnimationConsistent
  BY DEF DisplayInv, AnimationConsistent, ObjectFollowsFlag
<1> QED
  BY DisplayInitInv, DisplayNextInv, <1>1, PTL DEF DisplaySpec

-----------------------------------------------------------------------------
(* The composed system.                                                    *)

LoggingTypeOK ==
    /\ boot \in {"display", "com", "logging", "done"}
    /\ sd \in BOOLEAN /\ registered \in BOOLEAN /\ writer \in BOOLEAN
    /\ lpc \in LogPC /\ command \in Commands /\ reply \in BOOLEAN

(* The display serves one thread at a time: main until it is initialized,   *)
(* and the communication thread from then on.                              *)
OneCaller ==
    /\ boot = "display" => ~initialized /\ dpc = "idle"
    /\ boot \in {"display", "com"} => lpc = "idle" /\ ~writer /\ statuses = {}
    /\ boot \in {"logging", "done"} /\ lpc # "display" => dpc = "idle"

(* Where the communication thread is it knows the state of the writer.      *)
WriterKnown ==
    /\ lpc = "LogWriterStart" => command = "start"
    /\ lpc = "LogWriterStop" => command = "stop"
    /\ lpc = "AddStatus" => command = "start" /\ writer
    /\ lpc = "RemoveStatus" => command = "stop" /\ ~writer
    /\ lpc = "display" => (writer <=> command = "start")
    /\ AnswersTrue

(* The status is that of the writer, but for a status that is about to be   *)
(* added or removed.                                                       *)
StatusFollows ==
    /\ ~initialized => statuses = {} /\ ~inProgress /\ dpc = "idle"
    /\ statuses \subseteq {"log"}
    /\ initialized /\ lpc \in {"AddStatus", "RemoveStatus"} =>
         ("log" \in statuses <=> ~writer)
    /\ initialized /\ lpc \notin {"AddStatus", "RemoveStatus"} =>
         ("log" \in statuses <=> writer)

(* An animation is made only when none runs, and a status is drawn only     *)
(* when none runs any more.                                                *)
AnimationWaits ==
    /\ dpc \in {"make", "run"} => ~inProgress /\ statuses = {}
    /\ dpc \in {"stop", "join", "draw"} => text = "statuses" /\ statuses # {}
    /\ dpc = "idle" /\ initialized => (inProgress <=> statuses = {})
    /\ inside # "dead"

LogInv ==
    /\ LoggingTypeOK /\ DisplayInv
    /\ OneCaller /\ WriterKnown /\ StatusFollows /\ AnimationWaits
    /\ StatusVisible

(* Everything in the composed system that touches the display is one of its *)
(* operations.                                                             *)
LEMMA LogUsesDisplay == [LogNext]_systemVars => [DisplayNext]_displayVars
<1> SUFFICES ASSUME [LogNext]_systemVars PROVE DisplayNext \/ UNCHANGED displayVars
  OBVIOUS
<1>1. CASE \/ BootCom \/ BootLogging \/ (\E c \in Commands : Receive(c)) \/ Handler
           \/ LogWriterStart \/ LogWriterStop \/ StatusShown \/ UpdateSensors
  BY <1>1 DEF BootCom, BootLogging, Receive, Handler, LogWriterStart, LogWriterStop,
              StatusShown, UpdateSensors
<1>2. CASE BootDisplay \/ ShowStatus
  BY <1>2 DEF BootDisplay, ShowStatus, DisplayNext, Operation
<1>3. CASE DisplayStep \/ CfbThread
  BY <1>3 DEF DisplayNext
<1> QED
  BY <1>1, <1>2, <1>3 DEF LogNext, ComThread, systemVars

(* In the composed system too the animation, its flag and its thread agree. *)
LEMMA DisplayInvAlways == LogSpec => []DisplayInv
<1>1. LogInit => DisplayInv
  BY DisplayInitInv DEF LogInit
<1>2. DisplayInv /\ [LogNext]_systemVars => DisplayInv'
  BY LogUsesDisplay, DisplayNextInv
<1> QED
  BY <1>1, <1>2, PTL DEF LogSpec

(* The steps that do not touch the display.                                *)
Elsewhere ==
    \/ BootCom \/ BootLogging \/ (\E c \in Commands : Receive(c))
    \/ Handler \/ LogWriterStart \/ LogWriterStop \/ StatusShown \/ UpdateSensors

(* They leave the display and its statuses alone.                          *)
LEMMA ElsewhereKeeps == Elsewhere => UNCHANGED displayVars
  BY DEF Elsewhere, BootCom, BootLogging, Receive, Handler, LogWriterStart,
         LogWriterStop, StatusShown, UpdateSensors

(* A step of the system is one of those, or begins an operation of the      *)
(* display, or carries it on.                                              *)
LEMMA LogSteps ==
    [LogNext]_systemVars =>
      \/ BootDisplay \/ Elsewhere \/ ShowStatus
      \/ (DisplayStep \/ CfbThread) /\ UNCHANGED loggingVars
      \/ UNCHANGED systemVars
  BY DEF LogNext, ComThread, Elsewhere

(* The communication thread keeps its types.                               *)
LEMMA LoggingTypeStep ==
    ASSUME LoggingTypeOK, [LogNext]_systemVars PROVE LoggingTypeOK'
<1> USE DEF LoggingTypeOK, LogPC, Commands
<1>1. CASE BootDisplay
  BY <1>1 DEF BootDisplay
<1>2. CASE Elsewhere
  <2>1. CASE BootCom \/ BootLogging
    BY <2>1 DEF BootCom, BootLogging, Goto, Reply
  <2>2. CASE \E c \in Commands : Receive(c)
    BY <2>2 DEF Receive, Goto, Reply
  <2>3. CASE Handler
    BY <2>3 DEF Handler, Goto, Reply
  <2>4. CASE LogWriterStart
    BY <2>4 DEF LogWriterStart, Goto, Reply
  <2>5. CASE LogWriterStop
    BY <2>5 DEF LogWriterStop, Goto, Reply
  <2>6. CASE StatusShown \/ UpdateSensors
    BY <2>6 DEF StatusShown, UpdateSensors, Goto, Reply
  <2> QED
    BY <1>2, <2>1, <2>2, <2>3, <2>4, <2>5, <2>6 DEF Elsewhere
<1>3. CASE ShowStatus
  BY <1>3 DEF ShowStatus, Goto
<1>4. CASE UNCHANGED loggingVars
  BY <1>4 DEF loggingVars
<1> QED
  BY LogSteps, <1>1, <1>2, <1>3, <1>4 DEF systemVars

(* An operation of the display ends before the next one begins.            *)
LEMMA OneCallerStep ==
    ASSUME LogInv, [LogNext]_systemVars PROVE OneCaller'
<1> USE DEF LogInv, OneCaller, LoggingTypeOK
<1>1. CASE BootDisplay
  BY <1>1 DEF BootDisplay, OpInitialize
<1>2. CASE Elsewhere
  <2>1. CASE BootCom \/ BootLogging
    BY <2>1 DEF BootCom, BootLogging, Goto, Reply, displayVars
  <2>2. CASE \E c \in Commands : Receive(c)
    BY <2>2 DEF Receive, Goto, Reply, displayVars
  <2>3. CASE Handler
    BY <2>3 DEF Handler, Goto, Reply, displayVars
  <2>4. CASE LogWriterStart
    BY <2>4 DEF LogWriterStart, Goto, Reply, displayVars
  <2>5. CASE LogWriterStop
    BY <2>5 DEF LogWriterStop, Goto, Reply, displayVars
  <2>6. CASE StatusShown \/ UpdateSensors
    BY <2>6 DEF StatusShown, UpdateSensors, Goto, Reply, displayVars
  <2> QED
    BY <1>2, <2>1, <2>2, <2>3, <2>4, <2>5, <2>6 DEF Elsewhere
<1>3. CASE ShowStatus
  BY <1>3 DEF ShowStatus, Goto
<1>4. CASE DisplayStep /\ UNCHANGED loggingVars
  BY <1>4 DEF DisplayStep, MakeAnimation, RunAnimation, NotInProgress, StopCfb,
              ResetAnimation, Draw, loggingVars
<1>5. CASE CfbThread /\ UNCHANGED loggingVars
  BY <1>5 DEF CfbThread, BeginAnimate, EndAnimate, loggingVars
<1>6. CASE UNCHANGED systemVars
  BY <1>6 DEF systemVars, loggingVars, displayVars
<1> QED
  BY LogSteps, <1>1, <1>2, <1>3, <1>4, <1>5, <1>6

(* Between its steps nobody else starts or stops the writer.                *)
LEMMA WriterKnownStep ==
    ASSUME LogInv, [LogNext]_systemVars PROVE WriterKnown'
<1> USE DEF LogInv, WriterKnown, AnswersTrue, OneCaller, LoggingTypeOK
<1>1. CASE BootDisplay
  BY <1>1 DEF BootDisplay
<1>2. CASE Elsewhere
  <2>1. CASE BootCom \/ BootLogging \/ StatusShown \/ UpdateSensors
    BY <2>1 DEF BootCom, BootLogging, StatusShown, UpdateSensors, Reply
  <2>2. CASE \E c \in Commands : Receive(c)
    BY <2>2 DEF Receive, Goto, Reply
  <2>3. CASE Handler
    BY <2>3 DEF Handler, Goto, Reply, Commands
  <2>4. CASE LogWriterStart
    BY <2>4 DEF LogWriterStart, Goto, Reply
  <2>5. CASE LogWriterStop
    BY <2>5 DEF LogWriterStop, Goto, Reply
  <2> QED
    BY <1>2, <2>1, <2>2, <2>3, <2>4, <2>5 DEF Elsewhere
<1>3. CASE ShowStatus
  BY <1>3 DEF ShowStatus, Goto
<1>4. CASE UNCHANGED loggingVars
  BY <1>4 DEF loggingVars
<1> QED
  BY LogSteps, <1>1, <1>2, <1>3, <1>4 DEF systemVars

(* What the two operations of the communication thread begin.              *)
LEMMA ShowStatusBegins ==
    ASSUME LogInv, ShowStatus
    PROVE  /\ dpc = "idle" /\ lpc' = "display" /\ lpc \in {"AddStatus", "RemoveStatus"}
           /\ UNCHANGED <<initialized, inProgress, inside, screen, writer, boot>>
           /\ ~initialized => UNCHANGED <<dpc, text, statuses>>
           /\ initialized /\ lpc = "AddStatus" =>
                statuses' = {"log"} /\ dpc' = "stop" /\ text' = "statuses"
           /\ initialized /\ lpc = "RemoveStatus" =>
                statuses' = {} /\ dpc' = "make" /\ ~inProgress
<1> USE DEF LogInv
<1>1. /\ lpc \in {"AddStatus", "RemoveStatus"} /\ lpc' = "display" /\ dpc = "idle"
      /\ UNCHANGED <<initialized, inProgress, inside, screen, writer, boot>>
  BY DEF ShowStatus, Goto, OpAddStatus, OpRemoveStatus, SetStatuses, Untouched
<1>2. CASE ~initialized
  BY <1>1, <1>2 DEF ShowStatus, OpAddStatus, OpRemoveStatus, SetStatuses, NoOp
<1>3. CASE initialized /\ lpc = "AddStatus"
  <2>1. statuses = {}
    BY <1>3 DEF StatusFollows, WriterKnown
  <2> QED
    BY <1>1, <1>3, <2>1 DEF ShowStatus, OpAddStatus, SetStatuses, BeginUpdate, BeginStop
<1>4. CASE initialized /\ lpc = "RemoveStatus"
  <2>1. statuses = {"log"} /\ ~inProgress
    BY <1>1, <1>4 DEF StatusFollows, WriterKnown, AnimationWaits
  <2>2. SetStatuses({})
    BY <1>4, <2>1 DEF ShowStatus, OpRemoveStatus
  <2>3. current \in Kinds
    BY DEF DisplayInv, DisplayTypeOK
  <2> QED
    BY <1>1, <1>4, <2>1, <2>2, <2>3 DEF SetStatuses, BeginUpdate, BeginStart, Kinds
<1> QED
  BY <1>1, <1>2, <1>3, <1>4

(* The statuses follow the writer.                                         *)
LEMMA StatusFollowsStep ==
    ASSUME LogInv, [LogNext]_systemVars PROVE StatusFollows'
<1> USE DEF LogInv, StatusFollows
<1>1. CASE BootDisplay
  BY <1>1 DEF BootDisplay, OpInitialize, Untouched, NoOp, OneCaller
<1>2. CASE Elsewhere
  <2>1. CASE BootCom
    BY <2>1 DEF BootCom, displayVars
  <2>7. CASE BootLogging
    BY <2>7 DEF BootLogging, displayVars
  <2>2. CASE \E c \in Commands : Receive(c)
    BY <2>2 DEF Receive, Goto, Reply, displayVars,
                LoggingTypeOK, LogPC
  <2>3. CASE Handler
    <3>1. lpc = "handler" /\ lpc' \in {"idle", "LogWriterStart", "LogWriterStop"}
      BY <2>3 DEF Handler, Goto, Reply, LoggingTypeOK, Commands
    <3> QED
      BY <2>3, <3>1 DEF Handler, displayVars
  <2>4. CASE LogWriterStart
    BY <2>4 DEF LogWriterStart, Goto, Reply, displayVars,
                LoggingTypeOK, LogPC
  <2>5. CASE LogWriterStop
    BY <2>5 DEF LogWriterStop, Goto, Reply, displayVars,
                LoggingTypeOK, LogPC
  <2>6. CASE StatusShown
    BY <2>6 DEF StatusShown, Reply, displayVars
  <2>8. CASE UpdateSensors
    BY <2>8 DEF UpdateSensors, displayVars
  <2> QED
    BY <1>2, <2>1, <2>2, <2>3, <2>4, <2>5, <2>6, <2>7, <2>8 DEF Elsewhere
<1>3. CASE ShowStatus
  <2>1. /\ initialized' = initialized /\ inProgress' = inProgress /\ writer' = writer
        /\ lpc \in {"AddStatus", "RemoveStatus"} /\ lpc' = "display" /\ dpc = "idle"
    BY <1>3, ShowStatusBegins
  <2>2. CASE ~initialized
    <3>1. statuses' = statuses /\ dpc' = dpc
      BY <1>3, <2>2, ShowStatusBegins
    <3> QED
      BY <2>1, <2>2, <3>1
  <2>3. CASE initialized /\ lpc = "AddStatus"
    <3>1. statuses' = {"log"} /\ writer
      BY <1>3, <2>3, ShowStatusBegins DEF WriterKnown
    <3> QED
      BY <2>1, <2>3, <3>1
  <2>4. CASE initialized /\ lpc = "RemoveStatus"
    <3>1. statuses' = {} /\ ~writer
      BY <1>3, <2>4, ShowStatusBegins DEF WriterKnown
    <3> QED
      BY <2>1, <2>4, <3>1
  <2> QED
    BY <2>1, <2>2, <2>3, <2>4
<1>4. CASE DisplayStep /\ UNCHANGED loggingVars
  BY <1>4 DEF DisplayStep, MakeAnimation, RunAnimation, NotInProgress, StopCfb,
              ResetAnimation, Draw, loggingVars
<1>5. CASE CfbThread /\ UNCHANGED loggingVars
  <2>1. CASE BeginAnimate
    BY <1>5, <2>1 DEF BeginAnimate, loggingVars
  <2>2. CASE EndAnimate
    BY <1>5, <2>2 DEF EndAnimate, loggingVars
  <2> QED
    BY <1>5, <2>1, <2>2 DEF CfbThread
<1>6. CASE UNCHANGED systemVars
  BY <1>6 DEF systemVars, loggingVars, displayVars
<1> QED
  BY LogSteps, <1>1, <1>2, <1>3, <1>4, <1>5, <1>6

(* The animation is made, and the statuses are drawn, while no other runs.  *)
LEMMA AnimationWaitsStep ==
    ASSUME LogInv, [LogNext]_systemVars PROVE AnimationWaits'
<1> USE DEF LogInv, AnimationWaits
<1>1. CASE BootDisplay
  <2>1. /\ ~initialized /\ statuses = {} /\ ~inProgress /\ dpc = "idle"
        /\ statuses' = statuses /\ inProgress' = inProgress /\ inside' = inside
    BY <1>1 DEF BootDisplay, OpInitialize, Untouched, OneCaller, StatusFollows
  <2>2. \/ dpc' = dpc /\ initialized' = initialized
        \/ dpc' = "make"
    BY <1>1, <2>1 DEF BootDisplay, OpInitialize, NoOp, BeginStart, Kinds
  <2> QED
    BY <2>1, <2>2
<1>2. CASE Elsewhere
  BY <1>2, ElsewhereKeeps DEF displayVars
<1>3. CASE ShowStatus
  BY <1>3, ShowStatusBegins
<1>4. CASE MakeAnimation
  BY <1>4 DEF MakeAnimation, Destroyed, DisplayInv
<1>5. CASE RunAnimation
  BY <1>5 DEF RunAnimation
<1>6. CASE NotInProgress \/ StopCfb \/ ResetAnimation \/ Draw
  BY <1>6 DEF NotInProgress, StopCfb, ResetAnimation, Draw, DisplayInv
<1>7. CASE CfbThread
  BY <1>7 DEF CfbThread, BeginAnimate, EndAnimate, DisplayInv
<1>8. CASE UNCHANGED systemVars
  BY <1>8 DEF systemVars, displayVars
<1> QED
  BY LogSteps, <1>1, <1>2, <1>3, <1>4, <1>5, <1>6, <1>7, <1>8 DEF DisplayStep

(* Nothing is drawn over the statuses.                                     *)
LEMMA StatusVisibleStep ==
    ASSUME LogInv, [LogNext]_systemVars PROVE StatusVisible'
<1> USE DEF LogInv, StatusVisible
<1>1. CASE BootDisplay
  BY <1>1 DEF BootDisplay, OpInitialize, Untouched
<1>2. CASE Elsewhere
  BY <1>2, ElsewhereKeeps DEF displayVars
<1>3. CASE ShowStatus
  BY <1>3, ShowStatusBegins DEF StatusFollows
<1>4. CASE MakeAnimation \/ RunAnimation \/ NotInProgress \/ StopCfb \/ ResetAnimation
  BY <1>4 DEF MakeAnimation, RunAnimation, NotInProgress, StopCfb, ResetAnimation,
              AnimationWaits
<1>5. CASE Draw
  BY <1>5 DEF Draw, AnimationWaits
<1>6. CASE CfbThread
  BY <1>6 DEF CfbThread, BeginAnimate, EndAnimate, DisplayInv, AnimationWaits,
              StatusFollows
<1>7. CASE UNCHANGED systemVars
  BY <1>7 DEF systemVars, displayVars
<1> QED
  BY LogSteps, <1>1, <1>2, <1>3, <1>4, <1>5, <1>6, <1>7 DEF DisplayStep

(* LogInv is an inductive invariant of the composed system.                *)
THEOREM LogInvAlways == LogSpec => []LogInv
<1>1. LogInit => LogInv
  BY DisplayInitInv DEF LogInit, LogInv, DisplayInit, LoggingTypeOK, LogPC, Commands,
     OneCaller, WriterKnown, AnswersTrue, StatusFollows, AnimationWaits,
     StatusVisible
<1>2. LogInv /\ [LogNext]_systemVars => LogInv'
  BY LogUsesDisplay, DisplayNextInv, LoggingTypeStep, OneCallerStep, WriterKnownStep,
     StatusFollowsStep, AnimationWaitsStep, StatusVisibleStep DEF LogInv
<1> QED
  BY <1>1, <1>2, PTL DEF LogSpec

(* The frame buffer's thread never draws an object that was destroyed.     *)
THEOREM AnimationAlwaysAlive == LogSpec => []AnimationAlive
<1>1. LogInv => AnimationAlive
  BY DEF LogInv, AnimationWaits, AnimationAlive
<1> QED
  BY LogInvAlways, <1>1, PTL

(* Between commands the display shows the state of the log writer.         *)
THEOREM StatusAlwaysMatchesWriter == LogSpec => []StatusMatchesWriter
<1>1. LogInv => StatusMatchesWriter
  BY DEF LogInv, StatusFollows, AnimationWaits, StatusMatchesWriter
<1> QED
  BY LogInvAlways, <1>1, PTL

(* No late frame of the animation covers a status.                         *)
THEOREM StatusAlwaysVisible == LogSpec => []StatusVisible
<1>1. LogInv => StatusVisible
  BY DEF LogInv
<1> QED
  BY LogInvAlways, <1>1, PTL

(* A command that was answered with success has been carried out.          *)
THEOREM AnswersAlwaysTrue == LogSpec => []AnswersTrue
<1>1. LogInv => AnswersTrue
  BY DEF LogInv, WriterKnown
<1> QED
  BY LogInvAlways, <1>1, PTL
=============================================================================
