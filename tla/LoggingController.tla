-------------------------- MODULE LoggingController --------------------------
(***************************************************************************)
(* controllers/logging_controller.cpp in the program main.cpp builds: the  *)
(* CAN communication thread runs the LOGGING command handler, which starts *)
(* and stops the log writer and shows the "log" status on the display,     *)
(* while the frame buffer's thread animates the same display.              *)
(*                                                                         *)
(* The log writer, the CAN communication service and the configuration     *)
(* manager are libraries.  A writer operation succeeds or fails, and one   *)
(* that fails leaves the writer as it was.                                 *)
(***************************************************************************)
EXTENDS DisplayController

CONSTANT MaxVersion     \* bound: updates of the sensors configuration

ASSUME LoggingAssumption == "log" \in Statuses /\ MaxVersion \in Nat

VARIABLES
    boot,        \* how far main has come
    sd,          \* there is an SD card service
    registered,  \* the LOGGING handler is set
    version,     \* the sensors configuration the manager holds
    logger,      \* the configuration logger_ was made from
    logged,      \* the configuration the running log is written with
    writer,      \* log_writer_service_->IsRunning()
    lpc, command, reply    \* the communication thread

loggingVars == <<boot, sd, registered, version, logger, logged, writer, lpc,
                 command, reply>>
systemVars  == <<displayVars, loggingVars>>

Commands == {"start", "stop", "invalid"}
LogPC    == {"idle", "handler", "LogWriterStart", "LogWriterStop", "AddStatus",
             "RemoveStatus", "display"}

LogInit ==
    /\ DisplayInit
    /\ boot = "display"
    /\ sd \in BOOLEAN
    /\ registered = FALSE
    /\ version = 0 /\ logger = 0 /\ logged = 0
    /\ writer = FALSE
    /\ lpc = "idle" /\ command = "invalid" /\ reply = FALSE

-----------------------------------------------------------------------------
(* main: the display first, then the CAN communication service, and only    *)
(* then, if there is a card, the LoggingController that sets its handler.   *)

BootDisplay ==
    /\ boot = "display"
    /\ OpInitialize
    /\ boot' = "com"
    /\ UNCHANGED <<sd, registered, version, logger, logged, writer, lpc, command,
                   reply>>

BootCom ==
    /\ boot = "com" /\ dpc = "idle"
    /\ boot' = "logging"
    /\ UNCHANGED <<displayVars, sd, registered, version, logger, logged, writer,
                   lpc, command, reply>>

BootLogging ==
    /\ boot = "logging"
    /\ boot' = "done"
    /\ IF sd THEN registered' = TRUE /\ logger' = version
             ELSE UNCHANGED <<registered, logger>>
    /\ UNCHANGED <<displayVars, sd, version, logged, writer, lpc, command, reply>>

-----------------------------------------------------------------------------
(* The communication thread.                                               *)

Goto(l) == lpc' = l /\ reply' = reply
Reply(r) == lpc' = "idle" /\ reply' = r

(* A command for which no handler is set is refused.                       *)
Receive(c) ==
    /\ boot \in {"logging", "done"} /\ lpc = "idle"
    /\ command' = c
    /\ IF registered THEN Goto("handler") ELSE Reply(FALSE)
    /\ UNCHANGED <<displayVars, boot, sd, registered, version, logger, logged,
                   writer>>

Handler ==
    /\ lpc = "handler"
    /\ CASE command = "invalid" -> Reply(FALSE)
         [] command = "start"   -> Goto("LogWriterStart")
         [] command = "stop"    -> Goto("LogWriterStop")
    /\ UNCHANGED <<displayVars, boot, sd, registered, version, logger, logged,
                   writer, command>>

(* Mutant: the status is added although the writer did not start.          *)
LogWriterStartUnchecked ==
    /\ lpc = "LogWriterStart"
    /\ \/ writer /\ Reply(TRUE) /\ UNCHANGED <<writer, logged>>
       \/ ~writer /\ writer' \in BOOLEAN /\ logged' = logger /\ Goto("AddStatus")
    /\ UNCHANGED <<displayVars, boot, sd, registered, version, logger, command>>

LogWriterStart ==
    /\ lpc = "LogWriterStart"
    /\ \/ writer /\ Reply(TRUE) /\ UNCHANGED <<writer, logged>>
       \/ ~writer /\ Reply(FALSE) /\ UNCHANGED <<writer, logged>>
       \/ ~writer /\ writer' = TRUE /\ logged' = logger /\ Goto("AddStatus")
    /\ UNCHANGED <<displayVars, boot, sd, registered, version, logger, command>>

(* Mutant: no IsRunning check.                                             *)
LogWriterStopAlways ==
    /\ lpc = "LogWriterStop"
    /\ \/ Reply(FALSE) /\ UNCHANGED writer
       \/ writer' = FALSE /\ Goto("RemoveStatus")
    /\ UNCHANGED <<displayVars, boot, sd, registered, version, logger, logged,
                   command>>

(* Mutant: the status is removed although the writer did not stop.         *)
LogWriterStopUnchecked ==
    /\ lpc = "LogWriterStop"
    /\ \/ ~writer /\ Reply(TRUE) /\ UNCHANGED writer
       \/ writer /\ writer' \in BOOLEAN /\ Goto("RemoveStatus")
    /\ UNCHANGED <<displayVars, boot, sd, registered, version, logger, logged,
                   command>>

LogWriterStop ==
    /\ lpc = "LogWriterStop"
    /\ \/ ~writer /\ Reply(TRUE) /\ UNCHANGED writer
       \/ writer /\ Reply(FALSE) /\ UNCHANGED writer
       \/ writer /\ writer' = FALSE /\ Goto("RemoveStatus")
    /\ UNCHANGED <<displayVars, boot, sd, registered, version, logger, logged,
                   command>>

ShowStatus ==
    /\ \/ lpc = "AddStatus" /\ OpAddStatus("log")
       \/ lpc = "RemoveStatus" /\ OpRemoveStatus("log")
    /\ Goto("display")
    /\ UNCHANGED <<boot, sd, registered, version, logger, logged, writer, command>>

StatusShown ==
    /\ lpc = "display" /\ dpc = "idle"
    /\ Reply(TRUE)
    /\ UNCHANGED <<displayVars, boot, sd, registered, version, logger, logged,
                   writer, command>>

ComThread ==
    \/ Handler \/ LogWriterStart \/ LogWriterStop \/ ShowStatus \/ StatusShown

(* An HTTP request updates the sensors configuration.                      *)
UpdateSensors ==
    /\ boot = "done" /\ version < MaxVersion
    /\ version' = version + 1
    /\ UNCHANGED <<displayVars, boot, sd, registered, logger, logged, writer, lpc,
                   command, reply>>

LogNext ==
    \/ BootDisplay \/ BootCom \/ BootLogging
    \/ (\E c \in Commands : Receive(c)) \/ ComThread
    \/ UpdateSensors
    \/ (DisplayStep \/ CfbThread) /\ UNCHANGED loggingVars

(* Neither thread stops for good in the middle of its work.                *)
LogSpec ==
    /\ LogInit /\ [][LogNext]_systemVars
    /\ WF_systemVars(ComThread)
    /\ WF_systemVars(DisplayStep /\ UNCHANGED loggingVars)
    /\ WF_systemVars(EndAnimate /\ UNCHANGED loggingVars)

-----------------------------------------------------------------------------
(* Every variable has its type; the handler runs, and the log writer is     *)
(* used, only once the controller has been made.                           *)
LogTypeOK ==
    /\ DisplayTypeOK
    /\ boot \in {"display", "com", "logging", "done"}
    /\ sd \in BOOLEAN /\ registered \in BOOLEAN /\ writer \in BOOLEAN
    /\ version \in Nat /\ logger \in Nat /\ logged \in Nat
    /\ lpc \in LogPC /\ command \in Commands /\ reply \in BOOLEAN
    /\ lpc # "idle" \/ writer => registered

(* The frame buffer's thread never runs Animate of a null or destroyed      *)
(* object.  DisplayController alone does not ensure it (UpdateStatuses      *)
(* replaces a running animation when the last status goes twice): it holds  *)
(* because LoggingController removes a status only after it added it.       *)
AnimationAlive == inside # "dead"

(* Between commands the display tells the truth about the log writer: the   *)
(* "log" status is set exactly while it runs, and otherwise the animation   *)
(* that it interrupted is running again.                                   *)
StatusMatchesWriter ==
    lpc = "idle" /\ dpc = "idle" /\ initialized =>
      /\ "log" \in statuses <=> writer
      /\ inProgress <=> ~writer

(* A status that is set stays on the screen: no late frame of the animation *)
(* thread is drawn over it after UpdateStatuses has stopped the animation.  *)
StatusVisible ==
    dpc = "idle" /\ statuses # {} =>
      screen = [shows |-> "statuses", what |-> statuses]

(* An answer of success means that the writer is in the state that was      *)
(* asked for, as long as no other command is handled.                      *)
AnswersTrue == lpc = "idle" /\ reply => (writer <=> command = "start")

(* A command is always answered, although its handler waits for the display *)
(* and the display for the frame buffer's thread.                          *)
CommandsAnswered == lpc # "idle" ~> lpc = "idle"

(* What logging_controller.h says of logger_: it is recreated when the      *)
(* sensors configuration changes, so that a log that is started is written  *)
(* with the current configuration.                                         *)
LoggerFollowsConfiguration ==
    [][~writer /\ writer' => logged' = version]_systemVars
=============================================================================
