----------------------- MODULE CanbusSchedulerProofs -----------------------
(***************************************************************************)
(* What TLAPS proves of CanbusScheduler for all messages, channels,        *)
(* configurations and bounds: the types, that Pause waits for every        *)
(* handler, that no destroyed task is used, that cleared readings are      *)
(* gone, that a message has one task and a Lua state one user, and that    *)
(* the scheduler implements PausableSender.                                *)
(***************************************************************************)
EXTENDS CanbusScheduler, TLAPS

USE ConstantsAssumption, NoTaskAssumption

-----------------------------------------------------------------------------
(* Types.                                                                  *)

(* The scheduler starts with every variable in its type.                    *)
LEMMA InitTypeOK == Init => TypeOK
<1> SUFFICES ASSUME Init PROVE TypeOK
  OBVIOUS
<1>1. canceled \in BOOLEAN
  BY Zenon DEF Init
<1>2. frame \in Frame
  BY DEF Init, Frame, EmptyFrame
<1>3. sent \in [msg : Messages \cup {NoTask}, from : SUBSET Nat, n : {0, 1}]
  BY DEF Init
<1>4. config \in Seq(Messages) /\ dbc \subseteq Messages
  BY DEF Init
<1> QED
  BY <1>1, <1>2, <1>3, <1>4 DEF Init, TypeOK, ControlPC, Call, WorkPC

(* The control thread's steps keep the types.                              *)
LEMMA ControlTypeOK == TypeOK /\ Control => TypeOK'
<1> SUFFICES ASSUME TypeOK, Control PROVE TypeOK'
  OBVIOUS
<1> USE DEF TypeOK, envVars, workVars, controlVars, ControlPC, Call
<1>1. CASE CallStart
  BY <1>1 DEF CallStart, Enter, EntryFrame
<1>2. CASE CallPause
  BY <1>2 DEF CallPause, Enter, EntryFrame
<1>3. CASE CallResume
  BY <1>3 DEF CallResume, Enter, EntryFrame
<1>4. CASE CallRestart
  BY <1>4 DEF CallRestart, Enter, EntryFrame
<1>5. CASE StartGet
  BY <1>5 DEF StartGet
<1>6. CASE CreateTask
  <2>1. Head(todo) \in Messages /\ todo' \in Seq(Messages)
    BY <1>6 DEF CreateTask
  <2>2. [msg |-> Head(todo), gen |-> gen] \in Task
    BY <2>1 DEF Task
  <2>3. tasks' = Append(tasks, [msg |-> Head(todo), gen |-> gen]) \/ tasks' = tasks
    BY <1>6 DEF CreateTask
  <2>4. tasks' \in Seq(Task)
    <3> DEFINE new == [msg |-> Head(todo), gen |-> gen]
    <3> HIDE DEF new
    <3>1. Append(tasks, new) \in Seq(Task)
      BY <2>2 DEF new
    <3> QED
      BY <2>3, <3>1 DEF new
  <2>5. registered' \subseteq Task
    BY <1>6, <2>2 DEF CreateTask
  <2> QED
    BY <1>6, <2>1, <2>4, <2>5 DEF CreateTask
<1>7. CASE AllCreated
  BY <1>7 DEF AllCreated
<1>8. CASE ScheduleTask
  <2>1. tasks[i] \in Task
    BY <1>8 DEF ScheduleTask
  <2> QED
    BY <1>8, <2>1 DEF ScheduleTask
<1>9. CASE AllScheduled
  BY <1>9 DEF AllScheduled, Return
<1>10. CASE Awake
  BY <1>10 DEF Awake, Return
<1>11. CASE CancelBusy
  BY <1>11 DEF CancelBusy
<1>12. CASE CancelIdle
  BY <1>12 DEF CancelIdle
<1>13. CASE AllCanceled
  BY <1>13 DEF AllCanceled, Return
<1>14. CASE ClearTasks
  BY <1>14 DEF ClearTasks
<1>15. CASE ClearReadings
  BY <1>15 DEF ClearReadings
<1> QED
  BY <1>1, <1>2, <1>3, <1>4, <1>5, <1>6, <1>7, <1>8, <1>9, <1>10, <1>11,
     <1>12, <1>13, <1>14, <1>15 DEF Control

(* The work queue thread's steps keep the types.                           *)
LEMMA WorkTypeOK ==
    TypeOK /\ (HandlerStep \/ \E t \in pending : Dispatch(t)) => TypeOK'
<1> SUFFICES ASSUME TypeOK, HandlerStep \/ \E t \in pending : Dispatch(t)
             PROVE  TypeOK'
  OBVIOUS
<1> USE DEF TypeOK, envVars, controlVars, WorkPC
<1>1. CASE \E t \in pending : Dispatch(t)
  BY <1>1 DEF Dispatch
<1>2. CASE CheckBus \/ KeepFrame
  BY <1>2 DEF CheckBus, KeepFrame
<1>3. CASE Build
  BY <1>3 DEF Build, Frame, EmptyFrame
<1>4. CASE ScriptReturns
  <2>1. readings' \subseteq Nat
    BY <1>4 DEF ScriptReturns, Frame
  <2>2. [empty |-> FALSE, from |-> frame.from \cup readings] \in Frame
    BY DEF Frame
  <2>3. frame' \in Frame
    BY <1>4, <2>2 DEF ScriptReturns
  <2> QED
    BY <1>4, <2>1, <2>3 DEF ScriptReturns
<1>8. CASE ScriptFails
  <2>1. readings' \subseteq Nat
    BY <1>8 DEF ScriptFails, Frame
  <2> QED
    BY <1>8, <2>1 DEF ScriptFails
<1>5. CASE SendFrame
  <2>1. running \in Task
    BY <1>5 DEF SendFrame
  <2>2. sent' \in [msg : Messages \cup {NoTask}, from : SUBSET Nat, n : {0, 1}]
    BY <1>5, <2>1 DEF SendFrame, Task, Frame
  <2> QED
    BY <1>5, <2>2 DEF SendFrame
<1>6. CASE Reschedule
  <2>1. running \in Task
    BY <1>6 DEF Reschedule
  <2> QED
    BY <1>6, <2>1 DEF Reschedule
<1>7. CASE HandlerDone
  BY <1>7 DEF HandlerDone, EmptyFrame, Frame
<1> QED
  BY <1>1, <1>2, <1>3, <1>4, <1>5, <1>6, <1>7, <1>8 DEF HandlerStep

(* The bus, the sensors and the configuration keep the types.              *)
LEMMA EnvironmentTypeOK == TypeOK /\ Environment => TypeOK'
  BY DEF TypeOK, Environment, SensorUpdate, UpdateConfiguration, BusChange,
         controlVars, envVars, workVars, BusState

(* Every step of the two threads and of their surroundings keeps every     *)
(* variable of the scheduler in its type.                                  *)
THEOREM TypeCorrect == Spec => []TypeOK
<1>1. TypeOK /\ UNCHANGED vars => TypeOK'
  BY DEF TypeOK, vars, envVars, controlVars, workVars
<1> QED
  BY InitTypeOK, ControlTypeOK, WorkTypeOK, EnvironmentTypeOK, <1>1, PTL
     DEF Spec, Next

-----------------------------------------------------------------------------
(* Safety.  PauseQuiesces is not inductive: that the cancel loop ends in a  *)
(* quiet state rests on what it has established for the tasks it passed     *)
(* (PauseProgress), and on every scheduled task being in the vector the     *)
(* loop walks (NoDestroyedTask).                                           *)
IInv ==
    /\ TypeOK
    /\ PauseProgress
    /\ PauseQuiesces
    /\ NoDestroyedTask
    /\ NoClearedReadings

(* IInv holds before the first call.                                       *)
LEMMA InitIInv == Init => IInv
<1> SUFFICES ASSUME Init PROVE IInv
  OBVIOUS
<1>1. TypeOK
  BY InitTypeOK
<1> QED
  BY <1>1 DEF Init, IInv, PauseProgress, PauseQuiesces, NoDestroyedTask,
              NoClearedReadings, Live

(* What the steps do to the set of tasks in the vector.                    *)
LEMMA LiveFacts ==
    ASSUME TypeOK
    PROVE  /\ tasks' = tasks => Live' = Live
           /\ i <= Len(tasks) => tasks[i] \in Live
           /\ CreateTask => Live \subseteq Live'
           /\ \A t \in Live : \E k \in 1..Len(tasks) : t = tasks[k]
<1>1. i <= Len(tasks) => tasks[i] \in Live
  BY DEF Live, TypeOK
<1>2. CreateTask => Live \subseteq Live'
  <2> SUFFICES ASSUME CreateTask, NEW k \in 1..Len(tasks) PROVE tasks[k] \in Live'
    BY DEF Live
  <2>1. CASE tasks' = tasks
    BY <2>1 DEF Live
  <2>2. CASE tasks' # tasks
    <3> DEFINE new == [msg |-> Head(todo), gen |-> gen]
    <3>1. tasks' = Append(tasks, new)
      BY <2>2 DEF CreateTask
    <3> HIDE DEF new
    <3>2. k \in 1..Len(tasks') /\ tasks'[k] = tasks[k]
      BY <3>1 DEF TypeOK
    <3> QED
      BY <3>2 DEF Live
  <2> QED
    BY <2>1, <2>2
<1> QED
  BY <1>1, <1>2 DEF Live

(* Every scheduled or running task stays in the vector.                    *)
LEMMA NoDestroyedTaskStep == IInv /\ Next => NoDestroyedTask'
<1> SUFFICES ASSUME IInv, Next PROVE NoDestroyedTask'
  OBVIOUS
<1> USE LiveFacts DEF IInv, NoDestroyedTask
<1>1. CASE \/ CallStart \/ CallPause \/ CallResume \/ CallRestart \/ StartGet
           \/ AllCreated \/ AllScheduled \/ Awake \/ AllCanceled \/ ClearReadings
  BY <1>1 DEF CallStart, CallPause, CallResume, CallRestart, StartGet, AllCreated,
              AllScheduled, Awake, AllCanceled, ClearReadings, EntryFrame, workVars
<1>2. CASE CreateTask
  BY <1>2 DEF CreateTask, workVars
<1>3. CASE ScheduleTask
  BY <1>3 DEF ScheduleTask, workVars
<1>4. CASE CancelBusy \/ CancelIdle
  BY <1>4 DEF CancelBusy, CancelIdle, workVars, controlVars
<1>5. CASE ClearTasks
  BY <1>5 DEF ClearTasks, workVars, PauseProgress, PauseQuiesces
<1>6. CASE \E t \in pending : Dispatch(t)
  BY <1>6 DEF Dispatch, controlVars
<1>7. CASE HandlerStep
  BY <1>7 DEF HandlerStep, CheckBus, Build, KeepFrame, ScriptReturns, ScriptFails,
              SendFrame, Reschedule, HandlerDone, controlVars, TypeOK
<1>8. CASE Environment
  BY <1>8 DEF Environment, SensorUpdate, UpdateConfiguration, BusChange,
              controlVars, workVars
<1> QED
  BY <1>1, <1>2, <1>3, <1>4, <1>5, <1>6, <1>7, <1>8 DEF Next, Control

(* The tasks the cancel loop has passed stay at rest.                      *)
LEMMA PauseProgressStep == IInv /\ Next => PauseProgress'
<1> SUFFICES ASSUME IInv, Next PROVE PauseProgress'
  OBVIOUS
<1> USE DEF IInv, PauseProgress
<1>1. CASE CallStart \/ CallPause \/ CallResume \/ CallRestart
  BY <1>1 DEF CallStart, CallPause, CallResume, CallRestart, Enter, EntryFrame,
              TypeOK
<1>2. CASE \/ StartGet \/ AllCreated \/ AllScheduled \/ Awake \/ AllCanceled
           \/ CreateTask \/ ScheduleTask \/ ClearTasks \/ ClearReadings
  BY <1>2 DEF StartGet, AllCreated, AllScheduled, Awake, AllCanceled, CreateTask,
              ScheduleTask, ClearTasks, ClearReadings, Return
<1>3. CASE CancelBusy
  BY <1>3 DEF CancelBusy, controlVars, workVars
<1>4. CASE CancelIdle
  <2> SUFFICES ASSUME NEW k \in 1..Len(tasks), k < i + 1
               PROVE  tasks[k] \notin pending' \cup {running}
    BY <1>4 DEF CancelIdle, workVars
  <2>1. CASE k < i
    BY <1>4, <2>1 DEF CancelIdle
  <2>2. CASE k = i
    BY <1>4, <2>2 DEF CancelIdle
  <2> QED
    BY <2>1, <2>2 DEF TypeOK
<1>5. CASE \E t \in pending : Dispatch(t)
  BY <1>5 DEF Dispatch, controlVars
<1>6. CASE CheckBus \/ Build \/ KeepFrame \/ ScriptReturns \/ ScriptFails \/ SendFrame
  BY <1>6 DEF CheckBus, Build, KeepFrame, ScriptReturns, ScriptFails, SendFrame,
              controlVars
<1>7. CASE Reschedule
  BY <1>7 DEF Reschedule, controlVars
<1>8. CASE HandlerDone
  <2>1. \A k \in 1..Len(tasks) : tasks[k] # NoTask
    BY DEF TypeOK
  <2> QED
    BY <1>8, <2>1 DEF HandlerDone, controlVars
<1>9. CASE Environment
  BY <1>9 DEF Environment, SensorUpdate, UpdateConfiguration, BusChange,
              controlVars, workVars
<1> QED
  BY <1>1, <1>2, <1>3, <1>4, <1>5, <1>6, <1>7, <1>8, <1>9
     DEF Next, Control, HandlerStep

(* Only the end of the cancel loop switches the scheduler off, and then     *)
(* every task of the vector is at rest.                                    *)
LEMMA PauseQuiescesStep == IInv /\ Next => PauseQuiesces'
<1> SUFFICES ASSUME IInv, Next PROVE PauseQuiesces'
  OBVIOUS
<1> USE DEF IInv, PauseQuiesces
<1>1. CASE \/ CallStart \/ CallPause \/ CallResume \/ CallRestart \/ StartGet
           \/ CreateTask \/ AllCreated \/ AllScheduled \/ Awake \/ ClearTasks
           \/ ClearReadings
  BY <1>1 DEF CallStart, CallPause, CallResume, CallRestart, StartGet, CreateTask,
              AllCreated, AllScheduled, Awake, ClearTasks, ClearReadings,
              EntryFrame, workVars
<1>2. CASE ScheduleTask
  BY <1>2 DEF ScheduleTask, PauseProgress
<1>3. CASE CancelBusy \/ CancelIdle
  BY <1>3 DEF CancelBusy, CancelIdle, workVars, controlVars
<1>4. CASE AllCanceled
  <2>1. \A k \in 1..Len(tasks) : tasks[k] \notin pending \cup {running}
    BY <1>4 DEF AllCanceled, PauseProgress, TypeOK
  <2>2. \A t \in Live : t \notin pending \cup {running}
    BY <2>1, LiveFacts
  <2> QED
    BY <1>4, <2>2 DEF AllCanceled, NoDestroyedTask, workVars
<1>5. CASE \E t \in pending : Dispatch(t)
  BY <1>5 DEF Dispatch, controlVars
<1>6. CASE HandlerStep
  BY <1>6 DEF HandlerStep, CheckBus, Build, KeepFrame, ScriptReturns, ScriptFails,
              SendFrame, Reschedule, HandlerDone, controlVars, TypeOK
<1>7. CASE Environment
  BY <1>7 DEF Environment, SensorUpdate, UpdateConfiguration, BusChange,
              controlVars, workVars
<1> QED
  BY <1>1, <1>2, <1>3, <1>4, <1>5, <1>6, <1>7 DEF Next, Control

(* Readings are cleared only while no handler runs.                        *)
LEMMA NoClearedReadingsStep == IInv /\ Next => NoClearedReadings'
<1> SUFFICES ASSUME IInv, Next PROVE NoClearedReadings'
  OBVIOUS
<1> USE DEF IInv, NoClearedReadings
<1>1. CASE \/ CallStart \/ CallPause \/ CallResume \/ CallRestart \/ StartGet
           \/ CreateTask \/ AllCreated \/ ScheduleTask \/ AllScheduled \/ Awake
           \/ CancelBusy \/ CancelIdle \/ AllCanceled \/ ClearTasks
  BY <1>1 DEF CallStart, CallPause, CallResume, CallRestart, StartGet, CreateTask,
              AllCreated, ScheduleTask, AllScheduled, Awake, CancelBusy,
              CancelIdle, AllCanceled, ClearTasks, EntryFrame, workVars
<1>2. CASE ClearReadings
  BY <1>2 DEF ClearReadings, PauseProgress, PauseQuiesces, TypeOK, workVars
<1>3. CASE \E t \in pending : Dispatch(t)
  BY <1>3 DEF Dispatch
<1>4. CASE CheckBus \/ KeepFrame \/ SendFrame \/ Reschedule \/ HandlerDone
  BY <1>4 DEF CheckBus, KeepFrame, SendFrame, Reschedule, HandlerDone
<1>5. CASE Build
  BY <1>5 DEF Build, EmptyFrame
<1>6. CASE ScriptReturns
  BY <1>6 DEF ScriptReturns
<1>7. CASE ScriptFails
  BY <1>7 DEF ScriptFails
<1>8. CASE Environment
  BY <1>8 DEF Environment, SensorUpdate, UpdateConfiguration, BusChange, workVars
<1> QED
  BY <1>1, <1>2, <1>3, <1>4, <1>5, <1>6, <1>7, <1>8 DEF Next, Control, HandlerStep

(* IInv is an inductive invariant of the scheduler.                        *)
THEOREM Inductive == Spec => []IInv
<1>1. IInv /\ Next => IInv'
  BY ControlTypeOK, WorkTypeOK, EnvironmentTypeOK, PauseProgressStep,
     PauseQuiescesStep, NoDestroyedTaskStep, NoClearedReadingsStep DEF IInv, Next
<1>2. IInv /\ UNCHANGED vars => IInv'
  <2> SUFFICES ASSUME IInv, UNCHANGED vars PROVE IInv'
    OBVIOUS
  <2> USE DEF IInv, vars, envVars, controlVars, workVars
  <2>1. TypeOK'
    BY DEF TypeOK
  <2>2. PauseProgress' /\ PauseQuiesces' /\ NoClearedReadings'
    BY DEF PauseProgress, PauseQuiesces, NoClearedReadings
  <2>3. NoDestroyedTask'
    BY LiveFacts DEF NoDestroyedTask
  <2> QED
    BY <2>1, <2>2, <2>3
<1> QED
  BY InitIInv, <1>1, <1>2, PTL DEF Spec

(* Pause waits for every handler: once it has returned nothing runs and     *)
(* nothing is scheduled, for any number of tasks and any schedule of the    *)
(* two threads.                                                            *)
THEOREM PauseQuiescesAlways == Spec => []PauseQuiesces
<1>1. IInv => PauseQuiesces
  BY DEF IInv
<1> QED
  BY Inductive, <1>1, PTL

(* The work queue never uses a task that Restart has destroyed.            *)
THEOREM NoDestroyedTaskAlways == Spec => []NoDestroyedTask
<1>1. IInv => NoDestroyedTask
  BY DEF IInv
<1> QED
  BY Inductive, <1>1, PTL

(* Nothing computed from cleared readings reaches a frame or the readings.  *)
THEOREM NoClearedReadingsAlways == Spec => []NoClearedReadings
<1>1. IInv => NoClearedReadings
  BY DEF IInv
<1> QED
  BY Inductive, <1>1, PTL

-----------------------------------------------------------------------------
(* Creating tasks.  main calls Start once, and a configuration lists a      *)
(* message once.  While tasks are created none is scheduled: there are none *)
(* before the only call of Start, and Restart has come to the end of its    *)
(* cancel loop.                                                            *)
SingleStart == StartLimit <= 1

DistinctMessages ==
    \A c \in Configs : \A j, k \in 1..Len(c) : c[j] = c[k] => j = k

StartsOnce ==
    /\ starts = 0 =>
         /\ tasks = << >>
         /\ \/ pc \in {"idle", "cancel"} /\ call # "Restart"
            \/ pc = "schedule" /\ call = "Resume"
    /\ pc \in {"get", "create"} => pending = {} /\ running = NoTask
    /\ pc \in {"clearReadings", "get"} => tasks = << >>

(* What is still to be created is not there yet.                           *)
TodoDistinct ==
    /\ config \in Configs
    /\ pc = "create" =>
         /\ \A j, k \in 1..Len(todo) : todo[j] = todo[k] => j = k
         /\ \A j \in 1..Len(todo), k \in 1..Len(tasks) : tasks[k].msg # todo[j]

(* A task's Lua state has the sensor functions.                            *)
ScriptsRegistered ==
    \A k \in 1..Len(tasks) : tasks[k].msg \in Scripted => tasks[k] \in registered

(* The steps that leave the vector, its scripts and what is to be created.  *)
VectorSteps ==
    \/ CallStart \/ CallPause \/ CallResume \/ CallRestart
    \/ AllCreated \/ ScheduleTask \/ AllScheduled \/ Awake
    \/ CancelBusy \/ CancelIdle \/ AllCanceled \/ ClearReadings
    \/ HandlerStep \/ (\E t \in pending : Dispatch(t)) \/ Environment
    \/ UNCHANGED vars

(* They are all steps but the three that the lemmas below are about.       *)
LEMMA VectorKept ==
    ASSUME VectorSteps
    PROVE  /\ UNCHANGED <<tasks, registered, todo>>
           /\ pc' = "create" => pc = "create"
  BY DEF VectorSteps, CallStart, CallPause, CallResume, CallRestart, Enter, EntryFrame,
         AllCreated, ScheduleTask, AllScheduled, Awake, Return, CancelBusy, CancelIdle,
         AllCanceled, ClearReadings, HandlerStep, CheckBus, Build, KeepFrame,
         ScriptReturns, ScriptFails, SendFrame, Reschedule, HandlerDone, Dispatch,
         Environment, SensorUpdate, UpdateConfiguration, BusChange, controlVars, vars

(* The manager's configuration is one of those it may hold.                *)
LEMMA ConfigStep == config \in Configs /\ [Next]_vars => config' \in Configs
  BY DEF Next, Control, CallStart, CallPause, CallResume, CallRestart, EntryFrame,
         StartGet, CreateTask, AllCreated, ScheduleTask, AllScheduled, Awake,
         CancelBusy, CancelIdle, AllCanceled, ClearTasks, ClearReadings,
         HandlerStep, CheckBus, Build, KeepFrame, ScriptReturns, ScriptFails,
         SendFrame, Reschedule, HandlerDone, Dispatch, Environment, SensorUpdate,
         UpdateConfiguration, BusChange, envVars, vars

(* A step of the scheduler is one of those, or takes the configuration,     *)
(* creates a task or destroys them all.                                    *)
LEMMA StepKinds ==
    [Next]_vars => VectorSteps \/ StartGet \/ CreateTask \/ ClearTasks
  BY DEF VectorSteps, Next, Control

(* While tasks are created nothing is scheduled and nothing runs.          *)
LEMMA StartsOnceStep ==
    ASSUME SingleStart, IInv, StartsOnce, [Next]_vars PROVE StartsOnce'
<1> USE DEF IInv, TypeOK, StartsOnce
<1>1. CASE CallStart
  <2>1. starts = 0 /\ starts' = 1
    BY <1>1 DEF CallStart, SingleStart
  <2>2. tasks = << >> /\ Live = {}
    BY <2>1 DEF Live
  <2>3. pending = {} /\ running = NoTask
    BY <2>2 DEF NoDestroyedTask
  <2> QED
    BY <1>1, <2>1, <2>2, <2>3 DEF CallStart, Enter, EntryFrame, workVars
<1>2. CASE CallPause \/ CallResume \/ CallRestart
  BY <1>2 DEF CallPause, CallResume, CallRestart, Enter, EntryFrame
<1>3. CASE StartGet \/ CreateTask
  BY <1>3 DEF StartGet, CreateTask, workVars
<1>4. CASE AllCreated \/ AllScheduled \/ Awake
  BY <1>4 DEF AllCreated, AllScheduled, Awake, Return
<1>5. CASE ScheduleTask \/ CancelBusy \/ CancelIdle
  BY <1>5 DEF ScheduleTask, CancelBusy, CancelIdle, controlVars
<1>6. CASE AllCanceled \/ ClearTasks
  BY <1>6 DEF AllCanceled, ClearTasks, Return
<1>7. CASE ClearReadings
  BY <1>7 DEF ClearReadings, PauseProgress, PauseQuiesces, workVars
<1>8. CASE \E t \in pending : Dispatch(t)
  BY <1>8 DEF Dispatch, controlVars
<1>9. CASE HandlerStep
  BY <1>9 DEF HandlerStep, CheckBus, Build, KeepFrame, ScriptReturns, ScriptFails,
              SendFrame, Reschedule, HandlerDone, controlVars
<1>10. CASE Environment
  BY <1>10 DEF Environment, SensorUpdate, UpdateConfiguration, BusChange,
               controlVars, workVars
<1>11. CASE UNCHANGED vars
  BY <1>11 DEF vars, controlVars, workVars
<1> QED
  BY <1>1, <1>2, <1>3, <1>4, <1>5, <1>6, <1>7, <1>8, <1>9, <1>10, <1>11
     DEF Next, Control

(* What CreateTask does to the vector: nothing, or one more task for the    *)
(* head of what is to be created.                                          *)
LEMMA CreatedTask ==
    ASSUME TypeOK, CreateTask
    PROVE  /\ Len(todo) \in Nat \ {0} /\ Head(todo) = todo[1]
           /\ Len(todo') = Len(todo) - 1
           /\ \A j \in 1..Len(todo') : todo'[j] = todo[j + 1]
           /\ \/ tasks' = tasks
              \/ /\ Len(tasks') = Len(tasks) + 1
                 /\ \A k \in 1..Len(tasks) : tasks'[k] = tasks[k]
                 /\ tasks'[Len(tasks) + 1].msg = Head(todo)
                 /\ Head(todo) \in Scripted => tasks'[Len(tasks) + 1] \in registered'
                 /\ registered \subseteq registered'
<1> USE DEF TypeOK
<1>1. todo # << >> /\ todo \in Seq(Messages) /\ todo' = Tail(todo)
  BY DEF CreateTask
<1>2. Len(todo) \in Nat \ {0} /\ Head(todo) = todo[1]
  BY <1>1
<1>3. Len(todo') = Len(todo) - 1 /\ \A j \in 1..Len(todo') : todo'[j] = todo[j + 1]
  BY <1>1
<1> DEFINE new == [msg |-> Head(todo), gen |-> gen]
<1>4. CASE tasks' = Append(tasks, new)
            /\ registered' = registered \cup (IF new.msg \in Scripted THEN {new} ELSE {})
  <2>1. new.msg = Head(todo)
    OBVIOUS
  <2> HIDE DEF new
  <2>2. /\ Len(tasks') = Len(tasks) + 1 /\ tasks'[Len(tasks) + 1] = new
        /\ \A k \in 1..Len(tasks) : tasks'[k] = tasks[k]
    BY <1>4
  <2> QED
    BY <1>2, <1>3, <1>4, <2>1, <2>2
<1> QED
  BY <1>2, <1>3, <1>4 DEF CreateTask

(* A message is not created twice.                                         *)
LEMMA DistinctStep ==
    ASSUME DistinctMessages, IInv, StartsOnce, TodoDistinct, OneTaskPerMessage,
           [Next]_vars
    PROVE  TodoDistinct' /\ OneTaskPerMessage'
<1> USE DEF TodoDistinct, OneTaskPerMessage
<1>0. config' \in Configs /\ Len(tasks) \in Nat /\ Len(todo) \in Nat
  BY ConfigStep DEF IInv, TypeOK
<1>1. CASE VectorSteps
  BY <1>0, <1>1, VectorKept
<1>2. CASE StartGet
  <2>1. tasks = << >> /\ tasks' = << >> /\ todo' = config
    BY <1>2 DEF StartGet, StartsOnce
  <2> QED
    BY <1>0, <1>2, <2>1 DEF StartGet, DistinctMessages
<1>3. CASE CreateTask
  <2>1. /\ pc = "create" /\ Len(tasks) \in Nat /\ Len(todo) \in Nat \ {0}
        /\ Head(todo) = todo[1] /\ Len(todo') = Len(todo) - 1
        /\ \A j \in 1..Len(todo') : todo'[j] = todo[j + 1]
    BY <1>0, <1>3, CreatedTask DEF CreateTask, IInv
  <2>2. \A j \in 1..Len(todo') : j + 1 \in 1..Len(todo) /\ todo'[j] = todo[j + 1]
    <3> SUFFICES ASSUME NEW j \in 1..Len(todo') PROVE j + 1 \in 1..Len(todo)
      BY <2>1
    <3> QED
      BY <2>1
  <2>3. \A j, k \in 1..Len(todo') : todo'[j] = todo'[k] => j = k
    <3> SUFFICES ASSUME NEW j \in 1..Len(todo'), NEW k \in 1..Len(todo'),
                        todo'[j] = todo'[k]
                 PROVE  j = k
      OBVIOUS
    <3>1. j + 1 = k + 1
      BY <2>1, <2>2
    <3> QED
      BY <3>1
  <2>4. CASE tasks' = tasks
    BY <1>0, <2>1, <2>2, <2>3, <2>4
  <2>5. CASE tasks' # tasks
    <3>1. /\ Len(tasks') = Len(tasks) + 1 /\ tasks'[Len(tasks) + 1].msg = todo[1]
          /\ \A k \in 1..Len(tasks) : tasks'[k] = tasks[k]
      BY <1>3, <2>1, <2>5, CreatedTask DEF IInv
    <3>2. \A k \in 1..Len(tasks') : k \in 1..Len(tasks) \/ k = Len(tasks) + 1
      BY <2>1, <3>1
    <3>3. \A k \in 1..Len(tasks) : tasks'[k].msg # todo[1]
      BY <2>1, <3>1
    <3>4. \A j \in 1..Len(todo') : todo'[j] # todo[1]
      <4> SUFFICES ASSUME NEW j \in 1..Len(todo'), todo[j + 1] = todo[1] PROVE FALSE
        BY <2>2
      <4>1. j + 1 = 1
        BY <2>1, <2>2
      <4> QED
        BY <2>1, <4>1
    <3>5. \A j \in 1..Len(todo'), k \in 1..Len(tasks') : tasks'[k].msg # todo'[j]
      BY <2>1, <2>2, <3>1, <3>2, <3>4
    <3>6. OneTaskPerMessage'
      BY <3>1, <3>2, <3>3
    <3> QED
      BY <1>0, <2>3, <3>5, <3>6
  <2> QED
    BY <2>4, <2>5
<1>4. CASE ClearTasks
  BY <1>0, <1>4 DEF ClearTasks
<1> QED
  BY StepKinds, <1>1, <1>2, <1>3, <1>4

(* A task is created after its script's state got the sensor functions.     *)
LEMMA RegisteredStep ==
    ASSUME TypeOK, ScriptsRegistered, [Next]_vars PROVE ScriptsRegistered'
<1> USE DEF TypeOK, ScriptsRegistered
<1>1. CASE VectorSteps
  BY <1>1, VectorKept
<1>2. CASE StartGet \/ ClearTasks
  BY <1>2 DEF StartGet, ClearTasks
<1>3. CASE CreateTask
  <2>1. CASE tasks' = tasks
    BY <1>3, <2>1 DEF CreateTask
  <2>2. CASE tasks' # tasks
    <3>1. /\ Len(tasks') = Len(tasks) + 1 /\ tasks'[Len(tasks) + 1].msg = Head(todo)
          /\ \A k \in 1..Len(tasks) : tasks'[k] = tasks[k]
          /\ Head(todo) \in Scripted => tasks'[Len(tasks) + 1] \in registered'
          /\ registered \subseteq registered'
      BY <1>3, <2>2, CreatedTask
    <3>2. \A k \in 1..Len(tasks') : k \in 1..Len(tasks) \/ k = Len(tasks) + 1
      <4>1. Len(tasks) \in Nat
        OBVIOUS
      <4> QED
        BY <3>1, <4>1
    <3> QED
      BY <3>1, <3>2
  <2> QED
    BY <2>1, <2>2
<1> QED
  BY StepKinds, <1>1, <1>2, <1>3

(* Whoever creates tasks does so while none is scheduled.                  *)
LEMMA StartsOnceAlways == ASSUME SingleStart PROVE Spec => []StartsOnce
<1>1. Init => StartsOnce
  BY DEF Init, StartsOnce
<1>2. IInv /\ StartsOnce /\ [Next]_vars => StartsOnce'
  BY StartsOnceStep
<1> QED
  BY <1>1, <1>2, Inductive, PTL DEF Spec

(* A message has one task, however often the scheduler is restarted, if the *)
(* configurations list it once and Start is called once.                   *)
THEOREM OneTaskPerMessageAlways ==
    ASSUME SingleStart, DistinctMessages PROVE Spec => []OneTaskPerMessage
<1>1. Init => TodoDistinct /\ OneTaskPerMessage
  BY DEF Init, TodoDistinct, OneTaskPerMessage
<1>2. /\ IInv /\ StartsOnce /\ TodoDistinct /\ OneTaskPerMessage
      /\ [Next]_vars
      => TodoDistinct' /\ OneTaskPerMessage'
  BY DistinctStep
<1> QED
  BY <1>1, <1>2, Inductive, StartsOnceAlways, PTL DEF Spec

(* No Lua state is set up while a script may run in it, and none is used    *)
(* without its sensor functions, whatever the configurations list.         *)
THEOREM LuaStateExclusiveAlways ==
    ASSUME SingleStart PROVE Spec => []LuaStateExclusive
<1>1. Init => ScriptsRegistered
  BY DEF Init, ScriptsRegistered
<1>2. IInv /\ ScriptsRegistered /\ [Next]_vars => ScriptsRegistered'
  BY RegisteredStep DEF IInv
<1>3. IInv /\ StartsOnce /\ ScriptsRegistered => LuaStateExclusive
  <2> SUFFICES ASSUME IInv, StartsOnce, ScriptsRegistered, wpc # "idle"
               PROVE  LuaStateExclusive
    BY DEF LuaStateExclusive
  <2>1. running # NoTask
    BY DEF IInv, TypeOK
  <2>2. pc # "create"
    BY <2>1 DEF StartsOnce
  <2>3. running.msg \in Scripted => running \in registered
    BY <2>1 DEF IInv, NoDestroyedTask, Live, ScriptsRegistered
  <2> QED
    BY <2>2, <2>3 DEF LuaStateExclusive
<1> QED
  BY <1>1, <1>2, <1>3, Inductive, StartsOnceAlways, PTL DEF Spec

-----------------------------------------------------------------------------
(* Refinement.                                                             *)

(* Every step of the scheduler is a step of PausableSender or a stutter.    *)
LEMMA SenderStep ==
    IInv /\ [Next]_vars => [Sender!SenderNext]_(Sender!senderVars)
<1> SUFFICES ASSUME IInv, [Next]_vars
             PROVE  Sender!SenderNext \/ UNCHANGED <<phase, epoch, sent>>
  BY DEF Sender!senderVars
<1> USE DEF workVars, controlVars
<1>1. CASE UNCHANGED vars
  BY <1>1 DEF vars
<1>2. CASE CallStart \/ CallPause \/ CallRestart \/ StartGet \/ CreateTask
           \/ ScheduleTask \/ AllScheduled \/ Awake \/ CancelBusy \/ CancelIdle
           \/ ClearTasks
  BY <1>2 DEF CallStart, CallPause, CallRestart, StartGet, CreateTask, ScheduleTask,
              AllScheduled, Awake, CancelBusy, CancelIdle, ClearTasks, EntryFrame
<1>3. CASE CallResume \/ AllCreated
  BY <1>3 DEF CallResume, AllCreated, EntryFrame, Sender!SenderNext, Sender!TurnOn
<1>4. CASE AllCanceled
  BY <1>4 DEF AllCanceled, Sender!SenderNext, Sender!TurnOff
<1>5. CASE ClearReadings
  BY <1>5 DEF ClearReadings, IInv, PauseProgress, Sender!SenderNext, Sender!Reset
<1>6. CASE SendFrame
  <2>1. CASE UNCHANGED sent
    BY <1>6, <2>1 DEF SendFrame
  <2>2. CASE sent' = [msg |-> running.msg, from |-> frame.from, n |-> 1 - sent.n]
    <3>1. running \in Task /\ phase = "on"
      BY <1>6 DEF SendFrame, IInv, PauseQuiesces, TypeOK
    <3>2. running.msg \in Messages
      BY <3>1 DEF Task
    <3>3. frame.from \in SUBSET {epoch}
      BY <1>6 DEF SendFrame, IInv, NoClearedReadings
    <3> QED
      BY <1>6, <2>2, <3>1, <3>2, <3>3 DEF SendFrame, Sender!SenderNext, Sender!Send
  <2> QED
    BY <1>6, <2>1, <2>2 DEF SendFrame
<1>7. CASE CheckBus \/ Build \/ KeepFrame \/ ScriptReturns \/ ScriptFails
           \/ Reschedule \/ HandlerDone
  BY <1>7 DEF CheckBus, Build, KeepFrame, ScriptReturns, ScriptFails, Reschedule,
              HandlerDone
<1>8. CASE \E t \in pending : Dispatch(t)
  BY <1>8 DEF Dispatch
<1>9. CASE Environment
  BY <1>9 DEF Environment, SensorUpdate, UpdateConfiguration, BusChange
<1> QED
  BY <1>1, <1>2, <1>3, <1>4, <1>5, <1>6, <1>7, <1>8, <1>9
     DEF Next, Control, HandlerStep

(* The scheduler implements PausableSender: nothing is sent while it is     *)
(* off, readings are cleared only while it is off, and every frame sent     *)
(* stems from the current epoch of readings.                               *)
THEOREM SchedulerImplementsSender == Spec => ImplementsSender
<1>1. Init => Sender!SenderInit
  BY DEF Init, Sender!SenderInit
<1> QED
  BY <1>1, Inductive, SenderStep, PTL
     DEF Spec, ImplementsSender, Sender!SenderSpec
=============================================================================
