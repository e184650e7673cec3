-------------------------- MODULE CanbusScheduler --------------------------
(***************************************************************************)
(* The periodic CAN sender: CanbusSchedulerService                         *)
(* (domain/canbus_domain/services/canbus_scheduler_service.cpp) with the   *)
(* frame builder and the script processor its work handler calls.          *)
(*                                                                         *)
(* Two threads run here.  The control thread calls Start, Pause, Resume    *)
(* and Restart; the single thread of the work queue runs one handler at a  *)
(* time.  Each public call is a sequence of steps (pc, call, i, todo), so  *)
(* that the handler's own steps (wpc) interleave with them.                *)
(*                                                                         *)
(* The work queue is a library: Schedule makes a task pending, Cancel      *)
(* removes it from the pending ones and says whether its handler is still  *)
(* running, and a handler that asks for it is made pending again.  How     *)
(* long a pending task waits is left open.                                 *)
(***************************************************************************)
EXTENDS Integers, Sequences, FiniteSets

CONSTANTS
    Messages,     \* message configurations, named by their frame id
    Channels,     \* bus channels
    Chan,         \* the channel of each message
    Periodic,     \* messages with a send_interval_ms
    Scripted,     \* messages with a lua_script
    Configs,      \* the configurations the manager may hold: message sequences
    DbcSets,      \* the sets of messages the loaded DBC files may define
    NoTask,       \* no handler is running
    StartLimit,   \* bound: calls of Start (main.cpp makes one)
    MaxGen        \* bound: executions of Start, the ones inside Restart included

ASSUME ConstantsAssumption ==
    /\ Chan \in [Messages -> Channels]
    /\ Periodic \subseteq Messages
    /\ Scripted \subseteq Messages
    /\ Configs \subseteq Seq(Messages) /\ Configs # {}
    /\ DbcSets \subseteq SUBSET Messages /\ DbcSets # {}
    /\ StartLimit \in Nat
    /\ MaxGen \in Nat

(* A task is a CanbusTask with its work item; gen tells apart the tasks     *)
(* that different executions of Start create for the same message.         *)
Task == [msg : Messages, gen : Nat]

ASSUME NoTaskAssumption == NoTask \notin Task

VARIABLES
    config,      \* the configuration held by the CanbusConfigurationManager
    dbc,         \* the messages some channel's loaded DBC defines
    bus,         \* per channel: GetCanbus is null, the proxy is invalid or valid
    readings,    \* the epochs the values in the SensorReadingsFrame stem from
    epoch,       \* how often ClearReadings has run
    tasks,       \* work_queue_tasks_
    registered,  \* the tasks for whose scripts the sensor functions were registered
    pc, call, i, todo,         \* the control thread
    starts, gen,               \* calls and executions of Start so far
    pending,     \* tasks that are scheduled, waiting or queued
    running,     \* the task whose handler runs, or NoTask
    wpc,         \* where in ProcessCanbusWorkTask it is
    canceled,    \* Cancel was called on it during this run
    frame,       \* can_frame_data
    sent,        \* the last frame given to SendFrame
    phase        \* history: "off" from the end of a cancel loop to the next Schedule

envVars     == <<config, dbc, bus>>
controlVars == <<tasks, registered, pc, call, i, todo, starts, gen, phase>>
workVars    == <<running, wpc, frame, sent>>
vars == <<envVars, readings, epoch, controlVars, pending, canceled, workVars>>

BusState   == {"absent", "invalid", "valid"}
ControlPC  == {"idle", "create", "schedule", "sleep", "cancel",
               "clearTasks", "clearReadings", "get"}
Call       == {"none", "Start", "Restart", "Pause", "Resume"}
WorkPC     == {"idle", "check", "build", "process", "send", "return", "done"}

(* can_frame_data: whether it is empty, and the epochs of the readings its  *)
(* bytes were computed from.                                               *)
Frame      == [empty : BOOLEAN, from : SUBSET Nat]
EmptyFrame == [empty |-> TRUE, from |-> {}]

Init ==
    /\ config \in Configs
    /\ dbc \in DbcSets
    /\ bus \in [Channels -> BusState]
    /\ readings = {}
    /\ epoch = 0
    /\ tasks = << >>
    /\ registered = {}
    /\ pc = "idle" /\ call = "none" /\ i = 1 /\ todo = << >>
    /\ starts = 0 /\ gen = 0
    /\ pending = {}
    /\ running = NoTask /\ wpc = "idle" /\ canceled = FALSE
    /\ frame = EmptyFrame
    /\ sent = [msg |-> NoTask, from |-> {}, n |-> 0]
    /\ phase = "off"

-----------------------------------------------------------------------------
(* The control thread.                                                     *)

(* What a public call leaves alone at its entry.                           *)
EntryFrame ==
    UNCHANGED <<envVars, readings, epoch, registered, todo, gen, pending,
                canceled, workVars>>

Enter(c, l) ==
    /\ pc = "idle"
    /\ pc' = l
    /\ call' = c
    /\ i' = 1

Return == pc' = "idle" /\ call' = "none"

(* main.cpp starts the scheduler before anything else can call it.         *)

CallStart ==
    /\ starts < StartLimit
    /\ gen < MaxGen
    /\ Enter("Start", "get")
    /\ starts' = starts + 1
    /\ EntryFrame /\ UNCHANGED <<tasks, phase>>

CallPause ==
    /\ Enter("Pause", "cancel")
    /\ EntryFrame /\ UNCHANGED <<tasks, starts, phase>>

CallResume ==
    /\ Enter("Resume", "schedule")
    /\ phase' = "on"
    /\ EntryFrame /\ UNCHANGED <<tasks, starts>>

(* Mutant: tasks are destroyed without waiting for them.                   *)
CallRestartNoPause ==
    /\ starts > 0 /\ gen < MaxGen
    /\ Enter("Restart", "clearTasks")
    /\ EntryFrame /\ UNCHANGED <<tasks, starts, phase>>

(* Mutant: readings are cleared before Pause.                              *)
CallRestartReadingsFirst ==
    /\ starts > 0 /\ gen < MaxGen
    /\ Enter("Restart", "cancel")
    /\ readings' = {} /\ epoch' = epoch + 1
    /\ UNCHANGED <<envVars, registered, todo, gen, pending, canceled, workVars,
                   tasks, starts, phase>>

CallRestart ==
    /\ starts > 0 /\ gen < MaxGen
    /\ Enter("Restart", "cancel")
    /\ EntryFrame /\ UNCHANGED <<tasks, starts, phase>>

(* Start takes the manager's current configuration.                        *)
StartGet ==
    /\ pc = "get"
    /\ gen' = gen + 1
    /\ todo' = config
    /\ pc' = "create"
    /\ UNCHANGED <<envVars, readings, epoch, tasks, registered, call, i, starts,
                   phase, pending, canceled, workVars>>

(* CreateTask returns a task only for a message whose channel has a bus,    *)
(* whose loaded DBC defines it and which has a send interval.              *)
CanCreate(m) ==
    /\ bus[Chan[m]] # "absent"
    /\ m \in dbc
    /\ m \in Periodic

CreateTask ==
    /\ pc = "create" /\ todo # << >>
    /\ todo' = Tail(todo)
    /\ IF CanCreate(Head(todo))
         THEN LET task == [msg |-> Head(todo), gen |-> gen]
              IN  /\ tasks' = Append(tasks, task)
                  /\ registered' = registered \cup (IF task.msg \in Scripted THEN {task} ELSE {})
         ELSE UNCHANGED <<tasks, registered>>
    /\ UNCHANGED <<envVars, readings, epoch, pc, call, i, starts, gen, phase,
                   pending, canceled, workVars>>

AllCreated ==
    /\ pc = "create" /\ todo = << >>
    /\ pc' = "schedule"
    /\ i' = 1
    /\ phase' = "on"
    /\ UNCHANGED <<envVars, readings, epoch, tasks, registered, call, todo,
                   starts, gen, pending, canceled, workVars>>

(* The loop over Schedule in StartTasks and in Resume.                     *)
ScheduleTask ==
    /\ pc = "schedule" /\ i <= Len(tasks)
    /\ pending' = pending \cup {tasks[i]}
    /\ i' = i + 1
    /\ UNCHANGED <<envVars, readings, epoch, tasks, registered, pc, call, todo,
                   starts, gen, phase, canceled, workVars>>

(* StartTasks sleeps a millisecond before it returns; Resume does not.      *)
AllScheduled ==
    /\ pc = "schedule" /\ i > Len(tasks)
    /\ IF call = "Resume" THEN Return ELSE pc' = "sleep" /\ call' = call
    /\ UNCHANGED <<envVars, readings, epoch, tasks, registered, i, todo, starts,
                   gen, phase, pending, canceled, workVars>>

Awake ==
    /\ pc = "sleep"
    /\ Return
    /\ UNCHANGED <<envVars, readings, epoch, tasks, registered, i, todo, starts,
                   gen, phase, pending, canceled, workVars>>

(* Mutant: one Cancel per task, no loop.                                   *)
CancelBusyOnce ==
    /\ pc = "cancel" /\ i <= Len(tasks)
    /\ tasks[i] = running
    /\ pending' = pending \ {tasks[i]}
    /\ canceled' = TRUE
    /\ i' = i + 1
    /\ UNCHANGED <<envVars, readings, epoch, tasks, registered, pc, call, todo,
                   starts, gen, phase, workVars>>

(* One pass of `while(Cancel()) k_sleep`: the call cancels what is pending  *)
(* and returns true while the handler of this very task is running.        *)
CancelBusy ==
    /\ pc = "cancel" /\ i <= Len(tasks)
    /\ tasks[i] = running
    /\ pending' = pending \ {tasks[i]}
    /\ canceled' = TRUE
    /\ UNCHANGED <<envVars, readings, epoch, controlVars, workVars>>

(* Mutant: the loop waits for the task to come to rest by itself.          *)
CancelIdleWaits ==
    /\ pc = "cancel" /\ i <= Len(tasks)
    /\ tasks[i] \notin pending \cup {running}
    /\ i' = i + 1
    /\ UNCHANGED <<envVars, readings, epoch, tasks, registered, pc, call, todo,
                   starts, gen, phase, pending, canceled, workVars>>

CancelIdle ==
    /\ pc = "cancel" /\ i <= Len(tasks)
    /\ tasks[i] # running
    /\ pending' = pending \ {tasks[i]}
    /\ i' = i + 1
    /\ UNCHANGED <<envVars, readings, epoch, tasks, registered, pc, call, todo,
                   starts, gen, phase, canceled, workVars>>

AllCanceled ==
    /\ pc = "cancel" /\ i > Len(tasks)
    /\ IF call = "Restart" THEN pc' = "clearTasks" /\ call' = call ELSE Return
    /\ phase' = "off"
    /\ UNCHANGED <<envVars, readings, epoch, tasks, registered, i, todo, starts,
                   gen, pending, canceled, workVars>>

(* Mutant: the vector is not cleared.                                      *)
ClearTasksForgotten ==
    /\ pc = "clearTasks"
    /\ pc' = "clearReadings"
    /\ UNCHANGED <<envVars, readings, epoch, tasks, registered, call, i, todo,
                   starts, gen, phase, pending, canceled, workVars>>

(* Restart, after its Pause: destroy the tasks, clear the readings, Start.  *)
ClearTasks ==
    /\ pc = "clearTasks"
    /\ tasks' = << >>
    /\ pc' = "clearReadings"
    /\ UNCHANGED <<envVars, readings, epoch, registered, call, i, todo,
                   starts, gen, phase, pending, canceled, workVars>>

ClearReadings ==
    /\ pc = "clearReadings"
    /\ readings' = {}
    /\ epoch' = epoch + 1
    /\ pc' = "get"
    /\ UNCHANGED <<envVars, tasks, registered, call, i, todo, starts, gen,
                   phase, pending, canceled, workVars>>

Control ==
    \/ CallStart \/ CallPause \/ CallResume \/ CallRestart
    \/ StartGet \/ CreateTask \/ AllCreated
    \/ ScheduleTask \/ AllScheduled \/ Awake
    \/ CancelBusy \/ CancelIdle \/ AllCanceled
    \/ ClearTasks \/ ClearReadings

-----------------------------------------------------------------------------
(* The work queue thread: ProcessCanbusWorkTask.                           *)

Dispatch(t) ==
    /\ wpc = "idle" /\ t \in pending
    /\ running' = t
    /\ pending' = pending \ {t}
    /\ wpc' = "check"
    /\ UNCHANGED <<envVars, readings, epoch, controlVars, canceled, frame, sent>>

(* A handler that finds its bus invalid returns without rescheduling.      *)
CheckBus ==
    /\ wpc = "check"
    /\ wpc' = IF bus[Chan[running.msg]] = "valid" THEN "build" ELSE "done"
    /\ UNCHANGED <<envVars, readings, epoch, controlVars, pending, canceled,
                   running, frame, sent>>

(* CanFrameDbcBuilder::Build reads the channel's DBC again; without a       *)
(* definition it returns no bytes, and an absent reading counts as 0.      *)
Build ==
    /\ wpc = "build"
    /\ frame' = IF running.msg \in dbc
                  THEN [empty |-> FALSE, from |-> readings]
                  ELSE EmptyFrame
    /\ wpc' = "process"
    /\ UNCHANGED <<envVars, readings, epoch, controlVars, pending, canceled,
                   running, sent>>

(* ScriptProcessor::Process.  Without a usable script the frame is kept; a  *)
(* script may replace it or return nothing, update the shared readings from *)
(* what it was given, and raise an error.                                  *)
KeepFrame ==
    /\ wpc = "process"
    /\ wpc' = "send"
    /\ UNCHANGED <<envVars, readings, epoch, controlVars, pending, canceled,
                   running, frame, sent>>

ScriptReturns ==
    /\ wpc = "process" /\ running.msg \in Scripted
    /\ frame' \in {frame, [empty |-> FALSE, from |-> frame.from \cup readings]}
    /\ \/ readings' = readings \cup frame.from
       \/ UNCHANGED readings
    /\ wpc' = "send"
    /\ UNCHANGED <<envVars, epoch, controlVars, pending, canceled, running,
                   sent>>

(* Mutant: an exception ends the handler without rescheduling it.          *)
ScriptFailsStopsTask ==
    /\ wpc = "process" /\ running.msg \in Scripted
    /\ wpc' = "done"
    /\ UNCHANGED <<envVars, readings, epoch, controlVars, pending, canceled,
                   running, frame, sent>>

ScriptFails ==
    /\ wpc = "process" /\ running.msg \in Scripted
    /\ \/ readings' = readings \cup frame.from
       \/ UNCHANGED readings
    /\ wpc' = "return"
    /\ UNCHANGED <<envVars, epoch, controlVars, pending, canceled, running,
                   frame, sent>>

(* SendFrame is called for a frame with bytes only; it may throw, which the *)
(* handler swallows.                                                       *)
SendFrame ==
    /\ wpc = "send"
    /\ \/ /\ ~frame.empty
          /\ sent' = [msg |-> running.msg, from |-> frame.from, n |-> 1 - sent.n]
       \/ UNCHANGED sent
    /\ wpc' = "return"
    /\ UNCHANGED <<envVars, readings, epoch, controlVars, pending, canceled,
                   running, frame>>

(* The handler asks to be rescheduled after its interval.  If Cancel was    *)
(* called during this run the work queue may refuse.                       *)
Reschedule ==
    /\ wpc = "return"
    /\ \/ pending' = pending \cup {running}
       \/ canceled /\ UNCHANGED pending
    /\ wpc' = "done"
    /\ UNCHANGED <<envVars, readings, epoch, controlVars, canceled, running,
                   frame, sent>>

(* Mutant: the finished task is still recorded as running.                 *)
HandlerDoneKeepsTask ==
    /\ wpc = "done"
    /\ wpc' = "idle"
    /\ canceled' = FALSE
    /\ frame' = EmptyFrame
    /\ UNCHANGED <<envVars, readings, epoch, controlVars, pending, running, sent>>

HandlerDone ==
    /\ wpc = "done"
    /\ running' = NoTask
    /\ wpc' = "idle"
    /\ canceled' = FALSE
    /\ frame' = EmptyFrame
    /\ UNCHANGED <<envVars, readings, epoch, controlVars, pending, sent>>

HandlerStep ==
    \/ CheckBus \/ Build \/ KeepFrame \/ ScriptReturns \/ ScriptFails
    \/ SendFrame \/ Reschedule \/ HandlerDone

-----------------------------------------------------------------------------
(* The surroundings: other services write readings, replace configurations  *)
(* and lose or regain a bus.                                               *)

SensorUpdate ==
    /\ readings' = readings \cup {epoch}
    /\ UNCHANGED <<envVars, epoch, controlVars, pending, canceled, workVars>>

UpdateConfiguration ==
    /\ config' \in Configs
    /\ dbc' \in DbcSets
    /\ UNCHANGED <<bus, readings, epoch, controlVars, pending, canceled,
                   workVars>>

BusChange(c) ==
    /\ bus[c] # "absent"
    /\ bus' = [bus EXCEPT ![c] = IF @ = "valid" THEN "invalid" ELSE "valid"]
    /\ UNCHANGED <<config, dbc, readings, epoch, controlVars, pending, canceled,
                   workVars>>

Environment ==
    SensorUpdate \/ UpdateConfiguration \/ \E c \in Channels : BusChange(c)

Next == Control \/ HandlerStep \/ (\E t \in pending : Dispatch(t)) \/ Environment

Spec == Init /\ [][Next]_vars

(* Both threads keep running.  A pending task is eventually dispatched      *)
(* because its delay is finite and the queue is first in first out (SF: the *)
(* thread may be busy in between).  Pause polls every millisecond and a     *)
(* task rests for its whole send interval between two runs, so a poll       *)
(* eventually meets it at rest (SF on CancelIdle).                         *)
ControlStep ==
    \/ StartGet \/ CreateTask \/ AllCreated
    \/ ScheduleTask \/ AllScheduled \/ Awake
    \/ CancelBusy \/ AllCanceled \/ ClearTasks \/ ClearReadings

FairSpec ==
    /\ Spec
    /\ WF_vars(ControlStep)
    /\ SF_vars(CancelIdle)
    /\ WF_vars(HandlerStep)
    /\ \A t \in [msg : Messages, gen : 1..MaxGen] : SF_vars(Dispatch(t))

-----------------------------------------------------------------------------
(* Properties.                                                             *)

Live == {tasks[k] : k \in 1..Len(tasks)}

(* Every variable has its type; a handler is running exactly when the work  *)
(* thread is inside ProcessCanbusWorkTask.                                 *)
TypeOK ==
    /\ config \in Seq(Messages)
    /\ dbc \subseteq Messages
    /\ bus \in [Channels -> BusState]
    /\ readings \subseteq Nat /\ epoch \in Nat
    /\ tasks \in Seq(Task)
    /\ registered \subseteq Task
    /\ pc \in ControlPC /\ call \in Call /\ i \in Nat \ {0}
    /\ todo \in Seq(Messages)
    /\ starts \in Nat /\ gen \in Nat
    /\ pending \subseteq Task
    /\ running \in Task \cup {NoTask} /\ wpc \in WorkPC
    /\ (wpc = "idle") <=> (running = NoTask)
    /\ canceled \in BOOLEAN /\ phase \in {"off", "on"}
    /\ frame \in Frame
    /\ sent \in [msg : Messages \cup {NoTask}, from : SUBSET Nat, n : {0, 1}]

(* After Pause has returned, and inside Restart once its Pause has          *)
(* returned, no handler runs and none is scheduled until Start, Resume or   *)
(* the rest of Restart schedules one: Pause waits out the handler that was  *)
(* running, also one that reschedules itself after it was canceled.        *)
PauseQuiesces == phase = "off" => pending = {} /\ running = NoTask

(* While Pause works through the vector, the tasks it has passed stay at    *)
(* rest: none is revived by its own handler behind the loop's back.  Inside *)
(* Restart nothing is destroyed or cleared before that loop has ended.      *)
PauseProgress ==
    /\ pc = "cancel" =>
         \A k \in 1..Len(tasks) : k < i => tasks[k] \notin pending \cup {running}
    /\ pc \in {"clearTasks", "clearReadings"} => phase = "off"
    /\ pc = "schedule" => phase = "on"

(* The work queue never holds, and never runs the handler of, a task that   *)
(* Restart has destroyed: user data of a work item outlives its last use.   *)
NoDestroyedTask == pending \cup ({running} \ {NoTask}) \subseteq Live

(* A frame on its way to the bus, and the shared readings a script may      *)
(* write, never contain anything computed from readings that Restart has    *)
(* cleared.                                                                *)
NoClearedReadings ==
    /\ readings \subseteq {epoch}
    /\ wpc \in {"process", "send"} => frame.from \subseteq {epoch}

(* With the one Start that main makes, every message has at most one task   *)
(* however often the scheduler is paused, resumed and restarted: a message  *)
(* is never sent at twice its rate.                                        *)
OneTaskPerMessage ==
    \A j, k \in 1..Len(tasks) : tasks[j].msg = tasks[k].msg => j = k

(* InitializeScript never registers functions in a Lua state while the work *)
(* thread may be executing in that state, and a script that is called has   *)
(* had its sensor functions registered since the last Restart, whose        *)
(* configuration may have brought a new Lua state for it.                  *)
LuaStateExclusive ==
    wpc # "idle" =>
      /\ pc = "create" /\ todo # << >> => running.msg # Head(todo)
      /\ running.msg \in Scripted => running \in registered

(* A pending task is run, and a handler that got past the bus check is      *)
(* scheduled again whatever the builder, the script and the bus do with the *)
(* frame, unless someone is pausing the scheduler.                         *)
TaskKeepsRunning ==
    \A t \in [msg : Messages, gen : 1..MaxGen] :
      /\ t \in pending ~> (running = t \/ pc = "cancel")
      /\ (running = t /\ wpc = "build") ~> (t \in pending \/ pc = "cancel")

(* The scheduler implements the sender its callers rely on: see             *)
(* PausableSender.                                                         *)
Sender == INSTANCE PausableSender WITH NoMessage <- NoTask
ImplementsSender == Sender!SenderSpec

(* Every public call returns: in particular Pause does not poll forever for *)
(* a handler that keeps rescheduling itself.                               *)
CallsReturn == pc # "idle" ~> pc = "idle"
=============================================================================
