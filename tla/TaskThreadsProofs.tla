------------------------- MODULE TaskThreadsProofs -------------------------
(***************************************************************************)
(* Proofs about TaskThreads, for every set of queries and events and every *)
(* number of tasks.                                                        *)
(***************************************************************************)
EXTENDS TaskThreadsInv, TLAPS

-----------------------------------------------------------------------------
(* Types                                                                   *)

\* What the code makes is a task.
LEMMA TaskTypes ==
    /\ Post \in Task /\ GameShutdown \in Task /\ Terminator \in Task
    /\ \A q \in Queries : Callback(q) \in Task
    /\ \A e \in Events : Timer(e) \in Task
  BY DEF Post, GameShutdown, Terminator, Callback, Timer, Task

\* A task says what it runs.
LEMMA TaskKinds ==
    ASSUME NEW t \in Task
    PROVE  /\ t.kind = "callback" => t.of \in Queries
           /\ t.kind = "timer" => t.of \in Events
  BY DEF Post, GameShutdown, Terminator, Task

\* The bodies of the tasks of the game are sequences of calls.
LEMMA CallTypes ==
    <<>> \in Seq(Call) /\ <<"flush">> \in Seq(Call) /\ ShutdownCalls \in Seq(Call) /\ EndCalls \in Seq(Call)
  BY DEF Call, ShutdownCalls, EndCalls

\* A notification reaches a thread that waits.
LEMMA NotifyTypes ==
    /\ NotifyDispatcher => dispatcherWoken' \in BOOLEAN /\ (dispatcherWoken' <=> dispatcherPc = "wait")
    /\ NotifyDatabase => databaseWoken' \in BOOLEAN /\ (databaseWoken' <=> databasePc = "wait")
  BY Zenon DEF NotifyDispatcher, NotifyDatabase

\* What addTask does, and whether it notifies.
LEMMA AddTaskCases ==
    ASSUME NEW t, AddTask(t)
    PROVE  \/ /\ dispatcherState = "running" /\ taskList' = Append(taskList, t)
              /\ NotifyDispatcher \/ (taskList # <<>> /\ UNCHANGED dispatcherWoken)
           \/ dispatcherState # "running" /\ UNCHANGED <<taskList, dispatcherWoken>>
  BY DEF AddTask

\* addTask of the database thread either takes the query and wakes the thread, or
\* turns it away.
LEMMA AddQueryCases ==
    ASSUME NEW q, AddQuery(q)
    PROVE  \/ /\ databaseState = "running"
              /\ tasks' = Append(tasks, q) /\ accepted' = Append(accepted, q)
              /\ NotifyDatabase \/ (tasks # <<>> /\ UNCHANGED databaseWoken)
           \/ databaseState # "running" /\ UNCHANGED <<tasks, accepted, databaseWoken>>
  BY DEF AddQuery

\* A task that is handed over, or refused, leaves the dispatcher well-typed.
LEMMA AddTaskType ==
    ASSUME DispatcherTypeOK, NEW t \in Task, AddTask(t),
           UNCHANGED <<dispatcherState, batch, dispatcherPc, body>>
    PROVE  DispatcherTypeOK'
  <1>1. taskList' \in Seq(Task)
    <2>1. taskList \in Seq(Task) BY DEF DispatcherTypeOK
    <2>2. taskList' = taskList \/ taskList' = Append(taskList, t) BY AddTaskCases
    <2>. QED BY <2>1, <2>2
  <1>2. dispatcherWoken' \in BOOLEAN /\ (dispatcherWoken' => dispatcherPc = "wait")
    BY AddTaskCases, NotifyTypes DEF DispatcherTypeOK
  <1>. QED BY <1>1, <1>2 DEF DispatcherTypeOK

\* So does a task that goes on or returns.
LEMMA GoOnType ==
    ASSUME DispatcherTypeOK, dispatcherPc = "batch", NEW calls \in Seq(Call), GoOn(calls)
    PROVE  /\ batch' \in Seq(Task) /\ body' \in Seq(Call)
           /\ dispatcherPc' \in {"take", "batch"}
           /\ (dispatcherPc' = "batch" <=> batch' # <<>>)
           /\ (body' # <<>> => batch' # <<>>)
           /\ ~dispatcherWoken
  <1>0. batch \in Seq(Task) /\ batch # <<>> /\ ~dispatcherWoken BY DEF DispatcherTypeOK
  <1>1. CASE calls # <<>> BY <1>0, <1>1 DEF GoOn, DispatcherTypeOK
  <1>2. CASE calls = <<>>
    <2>1. Tail(batch) \in Seq(Task) BY <1>0
    <2>. QED BY <1>0, <1>2, <2>1 DEF GoOn, Delete
  <1>. QED BY <1>1, <1>2

\* Swapping the task list into the batch keeps the types,
LEMMA SwapType ==
    ASSUME DispatcherTypeOK, batch = <<>>, body = <<>>, Swap, UNCHANGED <<dispatcherState, body>>
    PROVE  DispatcherTypeOK'
  BY DEF DispatcherTypeOK, Swap

\* so does the return from a call,
LEMMA ReturnType ==
    ASSUME DispatcherTypeOK, NEW call, Calling(call)
    PROVE  Tail(body) \in Seq(Call) /\ dispatcherPc = "batch"
  BY DEF DispatcherTypeOK, Calling

\* A step of a task that hands nothing over.
LEMMA QuietStepType ==
    ASSUME DispatcherTypeOK, dispatcherPc = "batch", NEW calls \in Seq(Call), GoOn(calls),
           dispatcherState' \in ThreadState, UNCHANGED <<taskList, dispatcherWoken>>
    PROVE  DispatcherTypeOK'
  BY GoOnType DEF DispatcherTypeOK

\* A step of a task that returns from a call and hands a task over.
LEMMA LoudStepType ==
    ASSUME DispatcherTypeOK, dispatcherPc = "batch", NEW calls \in Seq(Call), GoOn(calls),
           NEW t \in Task, AddTask(t) \/ AddTerminator(t), UNCHANGED dispatcherState
    PROVE  DispatcherTypeOK'
  <1>1. taskList' \in Seq(Task)
    <2>1. taskList' = Append(taskList, t) \/ taskList' = taskList BY AddTaskCases DEF AddTerminator
    <2>2. taskList \in Seq(Task) BY DEF DispatcherTypeOK
    <2>. QED BY <2>1, <2>2
  <1>0. dispatcherPc # "wait" /\ dispatcherWoken \in BOOLEAN /\ ~dispatcherWoken BY DEF DispatcherTypeOK
  <1>2. dispatcherWoken' \in BOOLEAN /\ ~dispatcherWoken'
    BY <1>0, AddTaskCases, NotifyTypes DEF AddTerminator
  <1>. QED BY <1>1, <1>2, GoOnType DEF DispatcherTypeOK

\* and the answer of a query that is handed back to the dispatcher.
LEMMA HandBackType ==
    ASSUME DispatcherTypeOK, DatabaseTypeOK, NEW t \in Runners, held[t] # NoQuery, HandBack(t),
           UNCHANGED <<dispatcherState, batch, dispatcherPc, body>>
    PROVE  DispatcherTypeOK'
  <1>1. held[t] \in Queries BY DEF DatabaseTypeOK
  <1>2. CASE AddTask(Callback(held[t])) BY <1>1, <1>2, TaskTypes, AddTaskType
  <1>3. CASE UNCHANGED <<taskList, dispatcherWoken>> BY <1>3 DEF DispatcherTypeOK
  <1>. QED BY <1>2, <1>3 DEF HandBack

\* Every step keeps the types of the dispatcher's variables,
LEMMA DispatcherTypeStep == TypeOK /\ [Next]_vars => DispatcherTypeOK'
  <1>. SUFFICES ASSUME TypeOK, [Next]_vars PROVE DispatcherTypeOK'
    OBVIOUS
  <1>. USE DEF TypeOK
  <1>1. CASE PostTask BY <1>1, TaskTypes, AddTaskType DEF PostTask
  <1>2. CASE DatabaseThread
    <2>1. CASE UNCHANGED <<dispatcherVars, body>> BY <2>1 DEF dispatcherVars, DispatcherTypeOK
    <2>2. CASE /\ CompleteQuery /\ HandBack("database")
               /\ UNCHANGED <<dispatcherState, batch, dispatcherPc, body>>
      <3>1. held["database"] # NoQuery BY <2>2 DEF CompleteQuery, DatabaseTypeOK, Complete
      <3>. QED BY <2>2, <3>1, HandBackType DEF Runners
    <2>. QED BY <1>2, <2>1, <2>2 DEF DatabaseThread
  <1>3. CASE SchedulerThread
    <2>1. CASE UNCHANGED <<dispatcherVars, body>> BY <2>1 DEF dispatcherVars, DispatcherTypeOK
    <2>2. CASE \E e \in Events : /\ AddTask(Timer(e))
                                 /\ UNCHANGED <<dispatcherState, batch, dispatcherPc, body>>
      BY <2>2, TaskTypes, AddTaskType
    <2>. QED BY <1>3, <2>1, <2>2 DEF SchedulerThread
  <1>4. CASE \E e \in Events : Time(e) BY <1>4 DEF Time, dispatcherVars, DispatcherTypeOK
  <1>5. CASE /\ Take \/ Wake \/ End
             /\ UNCHANGED <<databaseVars, schedulerVars, body, gameVars>>
    <2>1. CASE Take BY <1>5, <2>1, SwapType DEF Take, DispatcherTypeOK
    <2>2. CASE Wake BY <1>5, <2>2, SwapType DEF Wake, DispatcherTypeOK
    <2>3. CASE End BY <1>5, <2>3 DEF End, DispatcherTypeOK
    <2>. QED BY <1>5, <2>1, <2>2, <2>3
  <1>6. CASE RunTask
    <2>1. CASE Skip BY <2>1, QuietStepType, CallTypes DEF Skip, Running, DispatcherTypeOK
    <2>2. CASE Save BY <2>2, QuietStepType, CallTypes DEF Save, Running, DispatcherTypeOK
    <2>3. CASE BeginShutdown BY <2>3, QuietStepType, CallTypes DEF BeginShutdown, Running, DispatcherTypeOK
    <2>4. CASE \E q \in Queries : Query(q)
      BY <2>4, QuietStepType, CallTypes DEF Query, Running, DispatcherTypeOK
    <2>5. CASE \E e \in Events : LuaAddEvent(e) \/ LuaStopEvent(e)
      BY <2>5, QuietStepType, CallTypes DEF LuaAddEvent, LuaStopEvent, Running, DispatcherTypeOK
    <2>6. CASE RunCallback BY <2>6, QuietStepType, CallTypes DEF RunCallback, Running, DispatcherTypeOK
    <2>7. CASE RunTimer BY <2>7, QuietStepType, CallTypes DEF RunTimer, Running, DispatcherTypeOK
    <2>8. CASE RunShutdown BY <2>8, QuietStepType, CallTypes DEF RunShutdown, Running, DispatcherTypeOK
    <2>9. CASE RunTerminator
      BY <2>9, QuietStepType, CallTypes DEF RunTerminator, Running, ThreadState, DispatcherTypeOK
    <2>10. CASE FlushPop \/ FlushRun BY <2>10 DEF FlushPop, FlushRun, dispatcherVars, DispatcherTypeOK
    <2>11. CASE FlushComplete
      <3>1. held["dispatcher"] # NoQuery
        BY <2>11, QueriesAssumption DEF FlushComplete, Complete, DatabaseTypeOK
      <3>. QED BY <2>11, <3>1, HandBackType DEF FlushComplete, Runners
    <2>12. CASE FlushEnd BY <2>12, ReturnType, QuietStepType DEF FlushEnd, Return, DispatcherTypeOK
    <2>13. CASE AddShutdown
      BY <2>13, ReturnType, LoudStepType, TaskTypes DEF AddShutdown, Return
    <2>14. CASE Stop
      BY <2>14, ReturnType, QuietStepType DEF Stop, Return, ThreadState, DispatcherTypeOK
    <2>15. CASE EndScheduler BY <2>15, ReturnType, QuietStepType DEF EndScheduler, Return, DispatcherTypeOK
    <2>16. CASE EndDatabase BY <2>16, ReturnType, QuietStepType DEF EndDatabase, Return, DispatcherTypeOK
    <2>17. CASE WakeForEnd BY <2>17, ReturnType, QuietStepType DEF WakeForEnd, Return, DispatcherTypeOK
    <2>18. CASE EndDispatcher
      BY <2>18, ReturnType, LoudStepType, TaskTypes DEF EndDispatcher, Return
    <2>19. CASE CloseLua BY <2>19, ReturnType, QuietStepType DEF CloseLua, Return, DispatcherTypeOK
    <2>. QED
      BY <1>6, <2>1, <2>2, <2>3, <2>4, <2>5, <2>6, <2>7, <2>8, <2>9, <2>10, <2>11, <2>12, <2>13,
         <2>14, <2>15, <2>16, <2>17, <2>18, <2>19 DEF RunTask
  <1>7. CASE UNCHANGED vars BY <1>7 DEF vars, dispatcherVars, DispatcherTypeOK
  <1>. QED BY <1>1, <1>2, <1>3, <1>4, <1>5, <1>6, <1>7 DEF Next, DispatcherThread

\* of the database thread's,
LEMMA DatabaseTypeStep == TypeOK /\ [Next]_vars => DatabaseTypeOK'
  <1>. SUFFICES ASSUME TypeOK, [Next]_vars PROVE DatabaseTypeOK'
    OBVIOUS
  <1>. USE DEF TypeOK
  <1>0. CASE UNCHANGED databaseVars BY <1>0 DEF databaseVars, DatabaseTypeOK
  <1>1. CASE CheckState \/ TakeQuery \/ WakeDatabase \/ RunQuery \/ CompleteQuery
    <2>1. CASE CheckState BY <2>1 DEF CheckState, DatabaseTypeOK
    <2>2. CASE TakeQuery
      <3>1. CASE Pop("database") /\ databasePc' = "run"
        BY <2>2, <3>1, QueriesAssumption DEF TakeQuery, Pop, DatabaseTypeOK, Runners
      <3>2. CASE tasks = <<>> /\ databasePc' = "wait" /\ UNCHANGED <<tasks, held>>
        BY <2>2, <3>2 DEF TakeQuery, DatabaseTypeOK
      <3>. QED BY <2>2, <3>1, <3>2 DEF TakeQuery
    <2>3. CASE WakeDatabase
      <3>1. CASE Pop("database") /\ databasePc' = "run"
        <4>1. held' \in [Runners -> Queries \cup {NoQuery}] /\ held'["database"] # NoQuery
          BY <3>1, QueriesAssumption DEF Pop, DatabaseTypeOK, Runners
        <4>2. tasks' \in Seq(Queries) BY <3>1 DEF Pop, DatabaseTypeOK
        <4>. QED BY <2>3, <3>1, <4>1, <4>2 DEF WakeDatabase, DatabaseTypeOK
      <3>2. CASE tasks = <<>> /\ databasePc' = "check" /\ UNCHANGED <<tasks, held>>
        BY <2>3, <3>2 DEF WakeDatabase, DatabaseTypeOK
      <3>. QED BY <2>3, <3>1, <3>2 DEF WakeDatabase
    <2>4. CASE RunQuery BY <2>4 DEF RunQuery, Execute, DatabaseTypeOK, Runners
    <2>5. CASE CompleteQuery BY <2>5 DEF CompleteQuery, Complete, DatabaseTypeOK, Runners
    <2>. QED BY <1>1, <2>1, <2>2, <2>3, <2>4, <2>5
  <1>2. CASE \E q \in Queries : Query(q)
    <2>1. PICK q \in Queries : Query(q) BY <1>2
    <2>2. tasks' \in Seq(Queries) /\ accepted' \in Seq(Queries)
      <3>1. \/ tasks' = Append(tasks, q) /\ accepted' = Append(accepted, q)
            \/ tasks' = tasks /\ accepted' = accepted
        BY <2>1, AddQueryCases DEF Query
      <3>2. tasks \in Seq(Queries) /\ accepted \in Seq(Queries) BY DEF DatabaseTypeOK
      <3>3. Append(tasks, q) \in Seq(Queries) BY <3>2
      <3>4. Append(accepted, q) \in Seq(Queries) BY <3>2
      <3>. QED BY <3>1, <3>2, <3>3, <3>4
    <2>3. databaseWoken' \in BOOLEAN /\ (databaseWoken' => databasePc = "wait")
      BY <2>1, AddQueryCases, NotifyTypes DEF Query, DatabaseTypeOK
    <2>. QED BY <2>1, <2>2, <2>3 DEF Query, DatabaseTypeOK
  <1>3. CASE FlushPop BY <1>3, QueriesAssumption DEF FlushPop, Pop, DatabaseTypeOK, Runners
  <1>4. CASE FlushRun BY <1>4 DEF FlushRun, Execute, DatabaseTypeOK, Runners
  <1>5. CASE FlushComplete BY <1>5 DEF FlushComplete, Complete, DatabaseTypeOK, Runners
  <1>6. CASE Stop BY <1>6 DEF Stop, DatabaseTypeOK, ThreadState
  <1>7. CASE EndDatabase BY <1>7 DEF EndDatabase, DatabaseTypeOK, ThreadState
  <1>8. CASE WakeForEnd BY <1>8 DEF WakeForEnd, NotifyDatabase, DatabaseTypeOK
  <1>. QED
    BY <1>0, <1>1, <1>2, <1>3, <1>4, <1>5, <1>6, <1>7, <1>8 DEF Next, DispatcherThread, RunTask,
       DatabaseThread, SchedulerThread, Time, PostTask, vars, databaseVars, Skip, Save, BeginShutdown,
       LuaAddEvent, LuaStopEvent, RunCallback, RunTimer, RunShutdown, RunTerminator, FlushEnd,
       AddShutdown, EndScheduler, EndDispatcher, CloseLua

SchedulerHandlers == [op : {"arm", "cancel", "due"}, event : Events] \cup {Handler("stop", NoEvent)}

\* What is posted to the scheduler is a handler.
LEMMA HandlerTypes ==
    /\ \A e \in Events, op \in {"arm", "cancel", "due"} : Handler(op, e) \in SchedulerHandlers
    /\ Handler("stop", NoEvent) \in SchedulerHandlers
    /\ \A h \in SchedulerHandlers : h.op # "stop" => h.event \in Events
  BY DEF Handler, SchedulerHandlers

\* of the scheduler's
LEMMA SchedulerTypeStep == TypeOK /\ [Next]_vars => SchedulerTypeOK'
  <1>. SUFFICES ASSUME TypeOK, [Next]_vars PROVE SchedulerTypeOK'
    OBVIOUS
  <1>. USE DEF TypeOK
  <1>0. CASE UNCHANGED schedulerVars BY <1>0 DEF schedulerVars, SchedulerTypeOK
  <1>1. CASE RunHandler
    <2>1. handlers' \in Seq(SchedulerHandlers) BY <1>1 DEF RunHandler, SchedulerTypeOK, SchedulerHandlers
    <2>2. Head(handlers) \in SchedulerHandlers
      BY <1>1 DEF RunHandler, SchedulerTypeOK, SchedulerHandlers
    <2>3. Head(handlers).op # "stop" => Head(handlers).event \in Events BY <2>2, HandlerTypes
    <2>4. timers' \subseteq Events BY <1>1, <2>3 DEF RunHandler, SchedulerTypeOK
    <2>5. schedulerEnded' \in BOOLEAN BY <1>1 DEF RunHandler, SchedulerTypeOK
    <2>. QED BY <1>1, <2>1, <2>4, <2>5 DEF RunHandler, SchedulerTypeOK, SchedulerHandlers
  <1>2. CASE \E e \in Events : HandOver(e)
    BY <1>2 DEF HandOver, SchedulerTypeOK
  <1>3. CASE \E e \in Events : Time(e)
    BY <1>3, HandlerTypes DEF Time, Expire, SchedulerTypeOK, SchedulerHandlers
  <1>4. CASE \E e \in Events : LuaAddEvent(e) \/ LuaStopEvent(e)
    <2>1. PICK e \in Events : LuaAddEvent(e) \/ LuaStopEvent(e) BY <1>4
    <2>2. handlers' \in Seq(SchedulerHandlers)
      BY <2>1, HandlerTypes
      DEF LuaAddEvent, LuaStopEvent, AddEvent, StopEvent, SchedulerTypeOK, SchedulerHandlers
    <2>. QED BY <2>1, <2>2 DEF LuaAddEvent, LuaStopEvent, SchedulerTypeOK, SchedulerHandlers
  <1>5. CASE Stop BY <1>5 DEF Stop, SchedulerTypeOK, ThreadState
  <1>6. CASE EndScheduler
    BY <1>6, HandlerTypes DEF EndScheduler, StopHandlers, SchedulerTypeOK, ThreadState, SchedulerHandlers
  <1>. QED
    BY <1>0, <1>1, <1>2, <1>3, <1>4, <1>5, <1>6 DEF Next, DispatcherThread, RunTask,
       DatabaseThread, SchedulerThread, PostTask, vars, schedulerVars, Skip, Query, Save, BeginShutdown,
       RunCallback, RunTimer, RunShutdown, RunTerminator, FlushPop, FlushRun, FlushComplete, FlushEnd,
       AddShutdown, EndDatabase, WakeForEnd, EndDispatcher, CloseLua

\* and of the game's.
LEMMA GameTypeStep == TypeOK /\ [Next]_vars => GameTypeOK'
  <1>. SUFFICES ASSUME TypeOK, [Next]_vars PROVE GameTypeOK'
    OBVIOUS
  <1>. USE DEF TypeOK
  <1>0. CASE UNCHANGED gameVars BY <1>0 DEF gameVars, GameTypeOK
  <1>1. CASE PostTask BY <1>1, PostsAssumption DEF PostTask, GameTypeOK
  <1>2. CASE \E e \in Events : LuaAddEvent(e) \/ LuaStopEvent(e)
    BY <1>2 DEF LuaAddEvent, LuaStopEvent, GameTypeOK
  <1>3. CASE BeginShutdown BY <1>3 DEF BeginShutdown, GameTypeOK
  <1>4. CASE RunCallback
    <2>1. Head(batch) \in Task BY <1>4 DEF RunCallback, Running, DispatcherTypeOK
    <2>2. Head(batch).of \in Queries BY <1>4, <2>1, TaskKinds DEF RunCallback, Running
    <2>. QED BY <1>4, <2>2 DEF RunCallback, GameTypeOK
  <1>5. CASE RunTimer BY <1>5 DEF RunTimer, DueFunctions, GameTypeOK
  <1>6. CASE CloseLua BY <1>6 DEF CloseLua, GameTypeOK
  <1>. QED
    BY <1>0, <1>1, <1>2, <1>3, <1>4, <1>5, <1>6 DEF Next, DispatcherThread, RunTask,
       DatabaseThread, SchedulerThread, Time, vars, gameVars, Skip, Query, Save,
       RunShutdown, RunTerminator, FlushPop, FlushRun, FlushComplete, FlushEnd,
       AddShutdown, Stop, EndScheduler, EndDatabase, WakeForEnd, EndDispatcher

\* The types hold when the server starts.
LEMMA TypeInit == Init => TypeOK
  <1>. SUFFICES ASSUME Init PROVE TypeOK
    OBVIOUS
  <1>0. \A S : <<>> \in Seq(S) OBVIOUS
  <1>1. DispatcherTypeOK
    <2>1. dispatcherWoken \in BOOLEAN /\ ~dispatcherWoken BY DEF Init, DispatcherInit
    <2>. QED BY <1>0, <2>1 DEF Init, DispatcherInit, DispatcherTypeOK, ThreadState
  <1>2. DatabaseTypeOK
    <2>1. databaseWoken \in BOOLEAN /\ ~databaseWoken BY DEF Init, DatabaseInit
    <2>2. held \in [Runners -> Queries \cup {NoQuery}] /\ held["database"] = NoQuery
      BY DEF Init, DatabaseInit, Runners
    <2>. QED BY <1>0, <2>1, <2>2 DEF Init, DatabaseInit, DatabaseTypeOK, ThreadState
  <1>3. SchedulerTypeOK BY <1>0 DEF Init, SchedulerInit, SchedulerTypeOK, ThreadState
  <1>4. GameTypeOK BY PostsAssumption DEF Init, GameTypeOK
  <1>. QED BY <1>1, <1>2, <1>3, <1>4 DEF TypeOK

\* The variables keep their types, whatever the three threads do and in whatever order.
THEOREM TypeCorrect == Spec => []TypeOK
  <1>1. TypeOK /\ [Next]_vars => TypeOK'
    BY DispatcherTypeStep, DatabaseTypeStep, SchedulerTypeStep, GameTypeStep DEF TypeOK
  <1>. QED BY <1>1, TypeInit, PTL DEF Spec

-----------------------------------------------------------------------------
(* Nobody sleeps over work                                                 *)

\* Adding a task wakes a dispatcher that waits for one.
LEMMA AddTaskWakes ==
    ASSUME TypeOK, NobodySleepsOverWork, NEW t, AddTask(t) \/ AddTerminator(t), UNCHANGED dispatcherPc
    PROVE  dispatcherPc' = "wait" /\ ~dispatcherWoken' => taskList' = <<>>
  BY AddTaskCases, NotifyTypes DEF NobodySleepsOverWork, AddTerminator

\* Adding a query wakes a database thread that waits for one.
LEMMA AddQueryWakes ==
    ASSUME TypeOK, NobodySleepsOverWork, NEW q, AddQuery(q), UNCHANGED databasePc
    PROVE  databasePc' = "wait" /\ ~databaseWoken' => tasks' = <<>>
  BY AddQueryCases, NotifyTypes DEF NobodySleepsOverWork

\* No step lets a thread sleep while there is work for it.
LEMMA WakeStep == TypeOK /\ NobodySleepsOverWork /\ [Next]_vars => NobodySleepsOverWork'
  <1>. SUFFICES ASSUME TypeOK, NobodySleepsOverWork, [Next]_vars PROVE NobodySleepsOverWork'
    OBVIOUS
  <1>. DEFINE DispatcherAwake == dispatcherPc = "wait" /\ ~dispatcherWoken => taskList = <<>>
              DatabaseAwake   == databasePc = "wait" /\ ~databaseWoken => tasks = <<>>
  <1>1. DispatcherAwake'
    <2>0. CASE UNCHANGED <<taskList, dispatcherPc, dispatcherWoken>> BY <2>0 DEF NobodySleepsOverWork
    <2>1. CASE \E t : AddTask(t) /\ UNCHANGED dispatcherPc BY <2>1, AddTaskWakes
    <2>2. CASE Take \/ Wake \/ End BY <2>2 DEF Take, Wake, End, Swap
    <2>3. CASE \E calls : GoOn(calls) /\ dispatcherPc = "batch"
      BY <2>3 DEF GoOn, Delete
    <2>. QED
      BY <2>0, <2>1, <2>2, <2>3 DEF Next, DispatcherThread, RunTask, Running, Calling, Return, HandBack,
         DatabaseThread, SchedulerThread, Time, PostTask, vars, dispatcherVars, Skip, Query, Save,
         BeginShutdown, LuaAddEvent, LuaStopEvent, RunCallback, RunTimer, RunShutdown, RunTerminator,
         FlushPop, FlushRun, FlushComplete, FlushEnd, AddShutdown, Stop, EndScheduler, EndDatabase,
         WakeForEnd, EndDispatcher, CloseLua
  <1>2. DatabaseAwake'
    <2>0. CASE UNCHANGED <<tasks, databasePc, databaseWoken>> BY <2>0 DEF NobodySleepsOverWork
    <2>1. CASE \E q : AddQuery(q) /\ UNCHANGED databasePc BY <2>1, AddQueryWakes
    <2>2. CASE CheckState \/ TakeQuery \/ WakeDatabase \/ RunQuery \/ CompleteQuery
      BY <2>2 DEF CheckState, TakeQuery, WakeDatabase, RunQuery, CompleteQuery
    <2>3. CASE FlushPop
      <3>1. tasks # <<>> BY <2>3 DEF FlushPop, Pop
      <3>2. databasePc' = "wait" => databaseWoken' BY <2>3, <3>1 DEF FlushPop, NobodySleepsOverWork
      <3>. QED BY <3>2
    <2>4. CASE WakeForEnd
      BY <2>4, NotifyTypes DEF WakeForEnd
    <2>. QED
      BY <2>0, <2>1, <2>2, <2>3, <2>4 DEF Next, DispatcherThread, RunTask,
         DatabaseThread, SchedulerThread, Time, PostTask, vars, databaseVars, Skip, Query, Save,
         BeginShutdown, LuaAddEvent, LuaStopEvent, RunCallback, RunTimer, RunShutdown, RunTerminator,
         FlushRun, FlushComplete, FlushEnd, AddShutdown, Stop, EndScheduler, EndDatabase,
         EndDispatcher, CloseLua
  <1>. QED BY <1>1, <1>2 DEF NobodySleepsOverWork

\* Whatever the threads do and in whatever order, a thread that sleeps has no work
\* or has been notified, although notify_one is called for an empty queue only.
THEOREM NobodyOversleeps == Spec => []NobodySleepsOverWork
  <1>1. Init => NobodySleepsOverWork
    BY DEF Init, DispatcherInit, DatabaseInit, NobodySleepsOverWork
  <1>. QED BY <1>1, WakeStep, TypeCorrect, PTL DEF Spec

-----------------------------------------------------------------------------
(* Stopped timer events                                                    *)

\* No step lets Lua know an event that was stopped or called before.
LEMMA TimersStep == TimersKnown /\ [Next]_vars => TimersKnown'
  <1>. SUFFICES ASSUME TimersKnown, [Next]_vars PROVE TimersKnown'
    OBVIOUS
  <1>. USE DEF TimersKnown, StoppedTimersStaySilent
  <1>0. CASE UNCHANGED <<timerEvents, stopped, called>> BY <1>0
  <1>1. CASE \E e \in Events : LuaAddEvent(e) BY <1>1 DEF LuaAddEvent
  <1>2. CASE \E e \in Events : LuaStopEvent(e) BY <1>2 DEF LuaStopEvent
  <1>3. CASE RunTimer BY <1>3 DEF RunTimer, DueFunctions
  <1>4. CASE CloseLua BY <1>4 DEF CloseLua
  <1>. QED
    BY <1>0, <1>1, <1>2, <1>3, <1>4 DEF Next, DispatcherThread, RunTask,
       DatabaseThread, SchedulerThread, Time, PostTask, vars, gameVars, Skip, Query, Save,
       BeginShutdown, RunCallback, RunShutdown, RunTerminator, FlushPop, FlushRun, FlushComplete,
       FlushEnd, AddShutdown, Stop, EndScheduler, EndDatabase, WakeForEnd, EndDispatcher

\* The function of a stopped timer event is not called, wherever the event was when the
\* script stopped it: waiting, due, in the dispatcher's queue or in its batch.
THEOREM StoppedIsSilent == Spec => []StoppedTimersStaySilent
  <1>1. Init => TimersKnown BY DEF Init, TimersKnown, StoppedTimersStaySilent
  <1>2. TimersKnown => StoppedTimersStaySilent BY DEF TimersKnown
  <1>. QED BY <1>1, <1>2, TimersStep, PTL DEF Spec

-----------------------------------------------------------------------------
(* Queries                                                                 *)

\* Queries are taken from the front of those accepted.
LEMMA Lengths ==
    ASSUME TypeOK, EachQueryOnce
    PROVE  /\ tasks \in Seq(Queries) /\ accepted \in Seq(Queries)
           /\ Len(tasks) \in Nat /\ Len(accepted) \in Nat
           /\ Taken \in Nat /\ Taken + Len(tasks) = Len(accepted)
           /\ held \in [Runners -> Queries \cup {NoQuery}]
  BY DEF TypeOK, DatabaseTypeOK, EachQueryOnce, QueriesStartInOrder, Taken

\* A query that is accepted is a new one,
LEMMA AcceptStep ==
    ASSUME TypeOK, EachQueryOnce, NEW q \in Queries, q \notin {accepted[i] : i \in DOMAIN accepted},
           AddQuery(q), UNCHANGED <<held, executed>>
    PROVE  EachQueryOnce'
  <1>1. CASE UNCHANGED <<tasks, accepted>>
    BY <1>1 DEF EachQueryOnce, QueriesStartInOrder, Taken
  <1>2. CASE tasks' = Append(tasks, q) /\ accepted' = Append(accepted, q)
    <2>1. /\ Len(tasks') = Len(tasks) + 1 /\ Len(accepted') = Len(accepted) + 1
          /\ Taken' = Taken
      BY <1>2, Lengths DEF Taken
    <2>2. \A i \in 1..Len(accepted) : accepted'[i] = accepted[i] /\ accepted[i] # q
      BY <1>2, Lengths
    <2>3. accepted'[Len(accepted) + 1] = q BY <1>2, Lengths
    <2>4. \A i \in 1..Len(tasks) : tasks'[i] = tasks[i] BY <1>2, Lengths
    <2>5. tasks'[Len(tasks) + 1] = q BY <1>2, Lengths
    <2>6. q \notin executed
      <3>1. \A i \in 1..Taken : i \in 1..Len(accepted) BY Lengths
      <3>. QED BY <2>2, <3>1 DEF EachQueryOnce
    <2>7. \A i, j \in 1..Len(accepted') : accepted'[i] = accepted'[j] => i = j
      <3>. SUFFICES ASSUME NEW i \in 1..Len(accepted'), NEW j \in 1..Len(accepted'), accepted'[i] = accepted'[j]
                    PROVE  i = j
        OBVIOUS
      <3>. DEFINE old == 1..Len(accepted)
      <3>1. /\ i \in old \/ i = Len(accepted) + 1
            /\ j \in old \/ j = Len(accepted) + 1
        BY <2>1, Lengths
      <3>2. CASE i \in old /\ j \in old BY <3>2, <2>2 DEF EachQueryOnce
      <3>3. CASE i \in old /\ j = Len(accepted) + 1 BY <3>3, <2>2, <2>3
      <3>4. CASE i = Len(accepted) + 1 /\ j \in old BY <3>4, <2>2, <2>3
      <3>. QED BY <3>1, <3>2, <3>3, <3>4
    <2>8. \A i \in 1..Len(tasks') : tasks'[i] = accepted'[Taken + i] /\ tasks'[i] \notin executed
      <3>. SUFFICES ASSUME NEW i \in 1..Len(tasks')
                    PROVE  tasks'[i] = accepted'[Taken + i] /\ tasks'[i] \notin executed
        OBVIOUS
      <3>1. CASE i = Len(tasks) + 1 BY <3>1, <2>3, <2>5, <2>6, Lengths
      <3>2. CASE i \in 1..Len(tasks)
        <4>1. Taken + i \in 1..Len(accepted) BY <3>2, Lengths
        <4>. QED BY <3>2, <4>1, <2>2, <2>4 DEF EachQueryOnce, QueriesStartInOrder
      <3>. QED BY <2>1, <3>1, <3>2, Lengths
    <2>9. \A i \in 1..Taken : i \in 1..Len(accepted) BY Lengths
    <2>10. UNCHANGED <<held, executed>> /\ Taken' = Taken BY <2>1
    <2>11. \A i \in 1..Taken : accepted'[i] = accepted[i] BY <2>2, <2>9
    <2>12. \A p \in executed : \E i \in 1..Taken : accepted'[i] = p BY <2>11 DEF EachQueryOnce
    <2>13. \A i \in 1..Taken : accepted'[i] \in executed \/ \E t \in Runners : held[t] = accepted'[i]
      BY <2>11 DEF EachQueryOnce, QueriesStartInOrder
    <2>14. \A t \in Runners : held[t] # NoQuery =>
              /\ \E i \in 1..Taken : accepted'[i] = held[t]
              /\ \A u \in Runners \ {t} : held[u] # held[t]
      BY <2>11 DEF EachQueryOnce, QueriesStartInOrder
    <2>15. Taken >= 0 BY DEF EachQueryOnce, QueriesStartInOrder
    <2>. QED BY <2>7, <2>8, <2>10, <2>12, <2>13, <2>14, <2>15 DEF EachQueryOnce, QueriesStartInOrder
  <1>. QED BY <1>1, <1>2, AddQueryCases

\* one that is taken is the first that waits,
LEMMA PopStep ==
    ASSUME TypeOK, EachQueryOnce, NEW t \in Runners, held[t] = NoQuery, Pop(t),
           UNCHANGED <<accepted, executed>>
    PROVE  EachQueryOnce'
  <1>1. /\ Len(tasks') = Len(tasks) - 1 /\ Len(tasks) >= 1
        /\ Taken' = Taken + 1
        /\ \A i \in 1..Len(tasks') : tasks'[i] = tasks[i + 1]
    BY Lengths DEF Pop, Taken
  <1>2. Head(tasks) = accepted[Taken + 1] /\ Head(tasks) \in Queries
    <2>1. 1 \in 1..Len(tasks) /\ Head(tasks) = tasks[1] BY <1>1, Lengths
    <2>2. tasks[1] = accepted[Taken + 1]
      BY <2>1 DEF EachQueryOnce, QueriesStartInOrder
    <2>3. tasks[1] \in Queries BY <2>1, Lengths
    <2>. QED BY <2>1, <2>2, <2>3
  <1>3. held' = [held EXCEPT ![t] = accepted[Taken + 1]] BY <1>2 DEF Pop
  <1>4. \A i \in 1..Taken : accepted[i] # accepted[Taken + 1]
    <2>1. Taken + 1 \in 1..Len(accepted) BY <1>1, Lengths
    <2>2. \A i \in 1..Taken : i \in 1..Len(accepted) /\ i # Taken + 1 BY Lengths
    <2>. QED BY <2>1, <2>2 DEF EachQueryOnce
  <1>5. \A i \in 1..Len(tasks') : tasks'[i] = accepted[Taken' + i] /\ tasks'[i] \notin executed
    <2>. SUFFICES ASSUME NEW i \in 1..Len(tasks')
                  PROVE  tasks'[i] = accepted[Taken' + i] /\ tasks'[i] \notin executed
      OBVIOUS
    <2>1. i + 1 \in 1..Len(tasks) BY <1>1, Lengths
    <2>2. tasks[i + 1] = accepted[Taken + (i + 1)] /\ tasks[i + 1] \notin executed
      BY <2>1 DEF EachQueryOnce, QueriesStartInOrder
    <2>3. Taken + (i + 1) = Taken' + i BY <1>1, Lengths
    <2>. QED BY <1>1, <2>2, <2>3
  <1>6. \A i \in 1..Taken' : accepted[i] \in executed \/ \E u \in Runners : held'[u] = accepted[i]
    <2>. SUFFICES ASSUME NEW i \in 1..Taken'
                  PROVE  accepted[i] \in executed \/ \E u \in Runners : held'[u] = accepted[i]
      OBVIOUS
    <2>1. CASE i = Taken + 1 BY <2>1, <1>3, Lengths
    <2>2. CASE i \in 1..Taken
      <3>1. accepted[i] \in Queries /\ accepted[i] # NoQuery
        BY <2>2, Lengths, QueriesAssumption
      <3>2. accepted[i] \in executed \/ \E u \in Runners : held[u] = accepted[i]
        BY <2>2 DEF EachQueryOnce, QueriesStartInOrder
      <3>3. \A u \in Runners : u # t => held'[u] = held[u] BY <1>3, Lengths
      <3>. QED BY <3>1, <3>2, <3>3
    <2>. QED BY <1>1, <2>1, <2>2, Lengths
  <1>7. \A u \in Runners : held'[u] # NoQuery =>
          /\ \E i \in 1..Taken' : accepted[i] = held'[u]
          /\ \A v \in Runners \ {u} : held'[v] # held'[u]
    <2>1. \A u \in Runners \ {t} : held'[u] = held[u] BY <1>3, Lengths
    <2>2. held'[t] = accepted[Taken + 1] BY <1>3, Lengths
    <2>3. \A u \in Runners : held[u] # NoQuery => \E i \in 1..Taken : accepted[i] = held[u]
      BY DEF EachQueryOnce, QueriesStartInOrder
    <2>4. \A u \in Runners \ {t} : held[u] # accepted[Taken + 1]
      BY <1>2, <1>4, <2>3, QueriesAssumption
    <2>5. \A u, v \in Runners : held[u] # NoQuery /\ u # v => held[v] # held[u]
      BY DEF EachQueryOnce, QueriesStartInOrder
    <2>6. \A u, v \in Runners : held'[u] # NoQuery /\ u # v => held'[v] # held'[u]
      BY <2>1, <2>2, <2>4, <2>5
    <2>7. Taken + 1 \in 1..Taken' /\ \A i \in 1..Taken : i \in 1..Taken' BY <1>1, Lengths
    <2>8. \A u \in Runners : held'[u] # NoQuery => \E i \in 1..Taken' : accepted[i] = held'[u]
      BY <2>1, <2>2, <2>3, <2>7
    <2>. QED BY <2>6, <2>8
  <1>8. \A q \in executed : \E i \in 1..Taken' : accepted[i] = q
    <2>1. \A i \in 1..Taken : i \in 1..Taken' BY <1>1, Lengths
    <2>. QED BY <2>1 DEF EachQueryOnce
  <1>9. Taken' >= 0 BY <1>1, Lengths
  <1>. QED BY <1>5, <1>6, <1>7, <1>8, <1>9 DEF EachQueryOnce, QueriesStartInOrder

\* one that runs is held by its thread,
LEMMA ExecuteStep ==
    ASSUME TypeOK, EachQueryOnce, NEW t \in Runners, Execute(t), UNCHANGED <<accepted, tasks, held>>
    PROVE  EachQueryOnce'
  <1>1. Taken' = Taken BY DEF Taken
  <1>2. PICK j \in 1..Taken : accepted[j] = held[t]
    BY DEF Execute, EachQueryOnce, QueriesStartInOrder
  <1>3. \A i \in 1..Len(tasks) : tasks[i] # held[t]
    <2>. SUFFICES ASSUME NEW i \in 1..Len(tasks), tasks[i] = held[t] PROVE FALSE
      OBVIOUS
    <2>1. tasks[i] = accepted[Taken + i] BY DEF EachQueryOnce, QueriesStartInOrder
    <2>2. Taken + i \in 1..Len(accepted) /\ j \in 1..Len(accepted) /\ j # Taken + i BY Lengths
    <2>. QED BY <1>2, <2>1, <2>2 DEF EachQueryOnce
  <1>. QED BY <1>1, <1>2, <1>3 DEF Execute, EachQueryOnce, QueriesStartInOrder

\* and one that is done is held no longer.
LEMMA CompleteStep ==
    ASSUME TypeOK, EachQueryOnce, NEW t \in Runners, Complete(t), UNCHANGED <<accepted, tasks, executed>>
    PROVE  EachQueryOnce'
  <1>1. Taken' = Taken BY DEF Taken
  <1>2. held'[t] = NoQuery /\ \A u \in Runners \ {t} : held'[u] = held[u] BY Lengths DEF Complete
  <1>3. \A i \in 1..Taken : accepted[i] \in executed \/ \E u \in Runners : held'[u] = accepted[i]
    BY <1>2 DEF Complete, EachQueryOnce, QueriesStartInOrder
  <1>4. \A u \in Runners : held'[u] # NoQuery =>
          /\ \E i \in 1..Taken : accepted[i] = held'[u]
          /\ \A v \in Runners \ {u} : held'[v] # held'[u]
    BY <1>2 DEF EachQueryOnce, QueriesStartInOrder
  <1>. QED BY <1>1, <1>3, <1>4 DEF EachQueryOnce, QueriesStartInOrder

\* So every query runs at most once, and they start in order.
LEMMA QueriesStep == TypeOK /\ EachQueryOnce /\ [Next]_vars => EachQueryOnce'
  <1>. SUFFICES ASSUME TypeOK, EachQueryOnce, [Next]_vars PROVE EachQueryOnce'
    OBVIOUS
  <1>0. CASE UNCHANGED <<tasks, accepted, held, executed>>
    BY <1>0 DEF EachQueryOnce, QueriesStartInOrder, Taken
  <1>1. CASE \E q \in Queries : Query(q) BY <1>1, AcceptStep DEF Query
  <1>2. CASE TakeQuery \/ WakeDatabase
    <2>1. held["database"] = NoQuery BY <1>2 DEF TakeQuery, WakeDatabase, TypeOK, DatabaseTypeOK
    <2>2. CASE Pop("database") BY <1>2, <2>1, <2>2, PopStep DEF TakeQuery, WakeDatabase, Runners
    <2>. QED BY <1>0, <1>2, <2>2 DEF TakeQuery, WakeDatabase
  <1>3. CASE FlushPop BY <1>3, PopStep DEF FlushPop, Runners
  <1>4. CASE RunQuery BY <1>4, ExecuteStep DEF RunQuery, Runners
  <1>5. CASE FlushRun BY <1>5, ExecuteStep DEF FlushRun, Runners
  <1>6. CASE CompleteQuery BY <1>6, CompleteStep DEF CompleteQuery, Runners
  <1>7. CASE FlushComplete BY <1>7, CompleteStep DEF FlushComplete, Runners
  <1>. QED
    BY <1>0, <1>1, <1>2, <1>3, <1>4, <1>5, <1>6, <1>7 DEF Next, DispatcherThread, RunTask,
       DatabaseThread, SchedulerThread, Time, PostTask, vars, databaseVars, CheckState, Skip, Save,
       BeginShutdown, LuaAddEvent, LuaStopEvent, RunCallback, RunTimer, RunShutdown, RunTerminator,
       FlushEnd, AddShutdown, Stop, EndScheduler, EndDatabase, WakeForEnd, EndDispatcher, CloseLua

\* Queries start in the order they were accepted and each is run once, although the
\* database thread and a dispatcher that flushes drain the same queue.
THEOREM QueriesInOrder == Spec => []QueriesStartInOrder
  <1>1. Init => EachQueryOnce
    BY DEF Init, DatabaseInit, EachQueryOnce, QueriesStartInOrder, Taken, Runners
  <1>2. EachQueryOnce => QueriesStartInOrder BY DEF EachQueryOnce
  <1>. QED BY <1>1, <1>2, QueriesStep, TypeCorrect, PTL DEF Spec

-----------------------------------------------------------------------------
(* Nothing is left behind by the shutdown: ShutdownInv is inductive. First *)
(* what is pending, and the calls                                          *)

\* What the dispatcher still has to run: its batch, then its task list.
LEMMA PendingType ==
    ASSUME TypeOK
    PROVE  /\ batch \in Seq(Task) /\ taskList \in Seq(Task)
           /\ Pending \in Seq(Task) /\ Len(Pending) \in Nat
           /\ Len(Pending) = Len(batch) + Len(taskList)
           /\ batch # <<>> => Len(Pending) >= 1 /\ Pending[1] = Head(batch)
  BY DEF TypeOK, DispatcherTypeOK, Pending

\* A task that is added comes last,
LEMMA AppendPending ==
    ASSUME TypeOK, NEW t \in Task, taskList' = Append(taskList, t), batch' = batch
    PROVE  /\ Len(Pending') = Len(Pending) + 1
           /\ Pending'[Len(Pending) + 1] = t
           /\ \A i \in 1..Len(Pending) : Pending'[i] = Pending[i]
  BY PendingType DEF Pending

\* the swap changes nothing,
LEMMA SwapPending ==
    ASSUME TypeOK, batch = <<>>, Swap
    PROVE  Pending' = Pending
  <1>1. \A s \in Seq(Task) : <<>> \o s = s /\ s \o <<>> = s OBVIOUS
  <1>. QED BY <1>1, PendingType DEF Pending, Swap

\* and a task that is done is the first to go.
LEMMA DeletePending ==
    ASSUME TypeOK, batch # <<>>, batch' = Tail(batch), taskList' = taskList
    PROVE  /\ Len(Pending') = Len(Pending) - 1
           /\ \A i \in 1..Len(Pending') : Pending'[i] = Pending[i + 1]
  <1>1. Len(Tail(batch)) = Len(batch) - 1 /\ Tail(batch) \in Seq(Task) BY PendingType
  <1>2. \A i \in 1..Len(Tail(batch)) : Tail(batch)[i] = batch[i + 1] BY PendingType
  <1>. QED BY <1>1, <1>2, PendingType DEF Pending

\* The tasks of the shutdown are no others'.
LEMMA KindsDiffer ==
    /\ Post # GameShutdown /\ Post # Terminator /\ GameShutdown # Terminator
    /\ \A q : Callback(q) # GameShutdown /\ Callback(q) # Terminator
    /\ \A e : Timer(e) # GameShutdown /\ Timer(e) # Terminator
    /\ \A t \in Task : t.kind = "shutdown" <=> t = GameShutdown
    /\ \A t \in Task : t.kind = "terminate" <=> t = Terminator
  BY DEF Post, GameShutdown, Terminator, Callback, Timer, Task

\* What is left of a body after each of its calls,
LEMMA Bodies ==
    /\ Tail(SaveBody) = <<>>
    /\ Tail(Stop1) = Stop2 /\ Tail(Stop2) = Stop3 /\ Tail(Stop3) = <<>>
    /\ Tail(End1) = End2 /\ Tail(End2) = End3 /\ Tail(End3) = End4 /\ Tail(End4) = End5
    /\ Tail(End5) = End6 /\ Tail(End6) = <<>>
  BY DEF SaveBody, Stop1, Stop2, Stop3, End1, End2, End3, End4, End5, End6, ShutdownCalls, EndCalls

\* which call comes next,
LEMMA BodyHeads ==
    /\ Head(SaveBody) = "flush"
    /\ Head(Stop1) = "flush" /\ Head(Stop2) = "addShutdown" /\ Head(Stop3) = "stop"
    /\ Head(End1) = "endScheduler" /\ Head(End2) = "endDatabase" /\ Head(End3) = "flush"
    /\ Head(End4) = "notifyDatabase" /\ Head(End5) = "endDispatcher" /\ Head(End6) = "closeLua"
  BY DEF SaveBody, Stop1, Stop2, Stop3, End1, End2, End3, End4, End5, End6, ShutdownCalls, EndCalls

\* and how many are left.
LEMMA BodyLengths ==
    /\ Len(SaveBody) = 1 /\ Len(Stop1) = 3 /\ Len(Stop2) = 2 /\ Len(Stop3) = 1
    /\ Len(End1) = 6 /\ Len(End2) = 5 /\ Len(End3) = 4 /\ Len(End4) = 3 /\ Len(End5) = 2 /\ Len(End6) = 1
    /\ Len(<<>>) = 0
  BY DEF SaveBody, Stop1, Stop2, Stop3, End1, End2, End3, End4, End5, End6, ShutdownCalls, EndCalls

\* The bodies are told apart by their length and their first call.
LEMMA BodiesDiffer ==
    /\ <<>> \notin StopBodies \cup EndBodies \cup {SaveBody}
    /\ SaveBody \notin StopBodies \cup EndBodies
    /\ StopBodies \cap EndBodies = {}
    /\ Stop3 # Stop1 /\ Stop3 # Stop2
    /\ {End1, End2} \cap {End3, End4, End5, End6} = {} /\ End3 \notin {End4, End5, End6}
    /\ End6 \notin {End1, End2, End3, End4, End5}
  <1>1. <<>> \notin StopBodies \cup EndBodies \cup {SaveBody} BY BodyLengths DEF StopBodies, EndBodies
  <1>2. SaveBody \notin StopBodies \cup EndBodies BY BodyHeads, BodyLengths DEF StopBodies, EndBodies
  <1>3. Stop1 \notin EndBodies BY BodyHeads, BodyLengths DEF EndBodies
  <1>4. Stop2 \notin EndBodies BY BodyHeads, BodyLengths DEF EndBodies
  <1>5. Stop3 \notin EndBodies BY BodyHeads, BodyLengths DEF EndBodies
  <1>6. Stop3 # Stop1 /\ Stop3 # Stop2 BY BodyHeads
  <1>7. {End1, End2} \cap {End3, End4, End5, End6} = {} BY BodyHeads
  <1>8. End3 \notin {End4, End5, End6} BY BodyHeads
  <1>9. End6 \notin {End1, End2, End3, End4, End5} BY BodyHeads
  <1>. QED BY <1>1, <1>2, <1>3, <1>4, <1>5, <1>6, <1>7, <1>8, <1>9 DEF StopBodies

\* Which body a call belongs to.
LEMMA CallOfBody ==
    ASSUME BodyFitsState, NEW call, Calling(call)
    PROVE  /\ call = "flush" => body \in {SaveBody, Stop1, End3}
           /\ call = "addShutdown" => body = Stop2
           /\ call = "stop" => body = Stop3
           /\ call = "endScheduler" => body = End1
           /\ call = "endDatabase" => body = End2
           /\ call = "notifyDatabase" => body = End4
           /\ call = "endDispatcher" => body = End5
           /\ call = "closeLua" => body = End6
  BY BodyHeads DEF BodyFitsState, Calling, StopBodies, EndBodies

-----------------------------------------------------------------------------
(* Steps that leave the task and what is pending alone                     *)

\* What most steps do to the queries: none comes back to an empty queue that was
\* closed, and the dispatcher takes one in flush only.
QueriesQuiet ==
    /\ databaseState' = databaseState /\ gameState' = gameState
    /\ databaseState = "terminated" /\ tasks = <<>> => tasks' = <<>>
    /\ held'["dispatcher"] # NoQuery => held["dispatcher"] # NoQuery \/ Calling("flush")

\* A step that leaves the dispatcher alone keeps the invariant.
LEMMA FrameStep ==
    ASSUME ShutdownInv, Pending' = Pending, UNCHANGED <<body, dispatcherState>>, QueriesQuiet,
           dispatcherPc' = "ended" => dispatcherState = "terminated"
    PROVE  ShutdownInv'
  <1>. USE DEF ShutdownInv, QueriesQuiet
  <1>1. BodyFitsState' BY DEF BodyFitsState
  <1>2. StatesFit' BY DEF StatesFit
  <1>3. OneShutdown' BY DEF OneShutdown
  <1>4. TerminatorIsLast' BY DEF TerminatorIsLast
  <1>5. FlushIsACall' BY DEF FlushIsACall, Calling
  <1>6. EndedIsEmpty' BY DEF EndedIsEmpty
  <1>. QED BY <1>1, <1>2, <1>3, <1>4, <1>5, <1>6

\* A task of another thread is handed over, or refused.
LEMMA OrdinaryTaskStep ==
    ASSUME TypeOK, ShutdownInv, NEW t \in Task, t # GameShutdown, t # Terminator, AddTask(t),
           UNCHANGED <<batch, dispatcherPc, body, dispatcherState>>, QueriesQuiet
    PROVE  ShutdownInv'
  <1>1. CASE taskList' = taskList
    <2>1. Pending' = Pending BY <1>1 DEF Pending
    <2>. QED BY <2>1, FrameStep DEF ShutdownInv, EndedIsEmpty
  <1>2. CASE dispatcherState = "running" /\ taskList' = Append(taskList, t)
    <2>. USE DEF ShutdownInv, QueriesQuiet
    <2>0. /\ Len(Pending') = Len(Pending) + 1 /\ Len(Pending) \in Nat
          /\ Pending'[Len(Pending) + 1] = t
          /\ \A i \in 1..Len(Pending) : Pending'[i] = Pending[i]
      BY <1>2, AppendPending, PendingType
    <2>1. BodyFitsState' BY <1>2 DEF BodyFitsState
    <2>2. StatesFit' BY DEF StatesFit
    <2>3. OneShutdown' BY <2>0 DEF OneShutdown
    <2>4. TerminatorIsLast' BY <1>2, <2>0 DEF TerminatorIsLast
    <2>5. FlushIsACall' BY DEF FlushIsACall, Calling
    <2>6. EndedIsEmpty' BY <1>2 DEF EndedIsEmpty
    <2>. QED BY <2>1, <2>2, <2>3, <2>4, <2>5, <2>6
  <1>. QED BY <1>1, <1>2, AddTaskCases

\* So does a query that is handed back.
LEMMA HandBackStep ==
    ASSUME TypeOK, ShutdownInv, NEW u \in Runners, held[u] # NoQuery, HandBack(u),
           UNCHANGED <<batch, dispatcherPc, body, dispatcherState>>, QueriesQuiet
    PROVE  ShutdownInv'
  <1>1. held[u] \in Queries BY DEF TypeOK, DatabaseTypeOK
  <1>2. CASE AddTask(Callback(held[u])) BY <1>1, <1>2, TaskTypes, KindsDiffer, OrdinaryTaskStep
  <1>3. CASE UNCHANGED taskList
    <2>1. Pending' = Pending BY <1>3 DEF Pending
    <2>. QED BY <2>1, FrameStep DEF ShutdownInv, EndedIsEmpty
  <1>. QED BY <1>2, <1>3 DEF HandBack

-----------------------------------------------------------------------------
(* Steps of the running task                                               *)

\* A task is deleted that was not in setGameState.
LEMMA DeleteStep ==
    ASSUME TypeOK, ShutdownInv, dispatcherPc = "batch", body \notin StopBodies, GoOn(<<>>),
           UNCHANGED <<taskList, dispatcherState>>, QueriesQuiet, held'["dispatcher"] = NoQuery
    PROVE  ShutdownInv'
  <1>. USE DEF ShutdownInv, QueriesQuiet
  <1>0. batch # <<>> /\ batch' = Tail(batch) /\ body' = <<>> /\ dispatcherPc' # "ended"
    BY DEF GoOn, Delete, TypeOK, DispatcherTypeOK
  <1>1. /\ Len(Pending') = Len(Pending) - 1 /\ Len(Pending) \in Nat
        /\ \A i \in 1..Len(Pending') : Pending'[i] = Pending[i + 1] /\ i + 1 \in 1..Len(Pending)
    BY <1>0, DeletePending, PendingType
  <1>2. BodyFitsState' BY <1>0, BodiesDiffer DEF BodyFitsState
  <1>3. StatesFit'
    <2>1. body' \notin EndBodies BY <1>0, BodiesDiffer
    <2>2. End3 \in EndBodies /\ End4 \in EndBodies /\ End5 \in EndBodies /\ End6 \in EndBodies BY DEF EndBodies
    <2>. QED BY <2>1, <2>2 DEF StatesFit
  <1>4. OneShutdown'
    <2>1. body # Stop3 BY DEF StopBodies
    <2>2. \A i \in 1..Len(Pending) : Pending[i] = GameShutdown => dispatcherState # "running"
      BY <2>1 DEF OneShutdown
    <2>3. \A i \in 1..Len(Pending') : Pending'[i] = GameShutdown => dispatcherState' # "running"
      BY <1>1, <2>2
    <2>4. ASSUME NEW i \in 1..Len(Pending'), NEW j \in 1..Len(Pending'),
                 Pending'[i] = GameShutdown, Pending'[j] = GameShutdown
          PROVE  i = j
      <3>1. i + 1 \in 1..Len(Pending) /\ j + 1 \in 1..Len(Pending) BY <1>1
      <3>2. Pending[i + 1] = GameShutdown /\ Pending[j + 1] = GameShutdown BY <1>1, <2>4
      <3>3. i + 1 = j + 1 BY <3>1, <3>2 DEF OneShutdown
      <3>. QED BY <3>3
    <2>. QED BY <2>3, <2>4 DEF OneShutdown
  <1>5. TerminatorIsLast'
    <2>. SUFFICES ASSUME NEW i \in 1..Len(Pending'), Pending'[i] = Terminator
                  PROVE  /\ i = Len(Pending')
                         /\ dispatcherState = "closing" /\ databaseState = "terminated" /\ tasks' = <<>>
                         /\ \A j \in 1..Len(Pending') : Pending'[j] # GameShutdown
      BY DEF TerminatorIsLast
    <2>1. Pending[i + 1] = Terminator /\ i + 1 \in 1..Len(Pending) BY <1>1
    <2>2. \A j \in 1..Len(Pending') : Pending'[j] # GameShutdown
      BY <1>1, <2>1 DEF TerminatorIsLast
    <2>. QED BY <1>1, <2>1, <2>2 DEF TerminatorIsLast
  <1>6. FlushIsACall' BY DEF FlushIsACall
  <1>7. EndedIsEmpty' BY <1>0, <1>1, PendingType DEF EndedIsEmpty
  <1>. QED BY <1>2, <1>3, <1>4, <1>5, <1>6, <1>7

\* A task that was started has not called anything yet.
LEMMA StartStep ==
    ASSUME TypeOK, ShutdownInv, NEW kind, Running(kind), GoOn(<<>>), UNCHANGED <<taskList, dispatcherState>>,
           QueriesQuiet, held' = held
    PROVE  ShutdownInv'
  <1>1. dispatcherPc = "batch" /\ body = <<>> BY DEF Running
  <1>2. body \notin StopBodies BY <1>1, BodiesDiffer
  <1>3. held["dispatcher"] = NoQuery BY <1>1 DEF ShutdownInv, FlushIsACall
  <1>. QED BY <1>1, <1>2, <1>3, DeleteStep

\* A task goes on: what is pending stays as it is.
LEMMA GoOnPending ==
    ASSUME NEW calls, calls # <<>>, GoOn(calls), UNCHANGED taskList
    PROVE  body' = calls /\ batch' = batch /\ dispatcherPc' = dispatcherPc /\ Pending' = Pending
  BY DEF GoOn, Pending

\* While the dispatcher runs a task it is not terminated, and the task is the
\* first that is pending.
LEMMA InsideATask ==
    ASSUME TypeOK, ShutdownInv, dispatcherPc = "batch"
    PROVE  /\ dispatcherState # "terminated" /\ Len(Pending) \in Nat /\ Len(Pending) >= 1
           /\ Pending[1] = Head(batch) /\ Head(batch) \in Task
  <1>1. batch # <<>> BY DEF TypeOK, DispatcherTypeOK
  <1>. QED BY <1>1, PendingType DEF ShutdownInv, EndedIsEmpty

\* Saving the game keeps the invariant of the shutdown.
LEMMA SaveStep ==
    ASSUME TypeOK, ShutdownInv, Save
    PROVE  ShutdownInv'
  <1>. USE DEF ShutdownInv
  <1>0. /\ dispatcherPc = "batch" /\ body = <<>> /\ body' = SaveBody /\ Pending' = Pending
        /\ dispatcherPc' = dispatcherPc
        /\ UNCHANGED <<dispatcherState, databaseState, gameState, tasks, held>>
    BY GoOnPending, BodyLengths DEF Save, Running, SaveBody, databaseVars, gameVars
  <1>1. body' \notin StopBodies \cup EndBodies BY <1>0, BodiesDiffer
  <1>2. body \notin StopBodies /\ body # Stop3 BY <1>0, BodiesDiffer DEF StopBodies
  <1>3. BodyFitsState' BY <1>0, <1>1 DEF BodyFitsState
  <1>4. StatesFit' BY <1>0, <1>1, <1>2 DEF StatesFit, EndBodies
  <1>5. OneShutdown' BY <1>0, <1>2 DEF OneShutdown
  <1>6. TerminatorIsLast'
    <2>1. body # End6 BY <1>0, BodiesDiffer DEF EndBodies
    <2>. QED BY <1>0, <2>1 DEF TerminatorIsLast
  <1>7. FlushIsACall' BY <1>0 DEF FlushIsACall
  <1>8. EndedIsEmpty' BY <1>0, InsideATask DEF EndedIsEmpty
  <1>. QED BY <1>3, <1>4, <1>5, <1>6, <1>7, <1>8

\* Asking for the shutdown keeps the invariant of the shutdown.
LEMMA BeginShutdownStep ==
    ASSUME TypeOK, ShutdownInv, BeginShutdown
    PROVE  ShutdownInv'
  <1>. USE DEF ShutdownInv
  <1>0. /\ dispatcherPc = "batch" /\ body = <<>> /\ body' = Stop1 /\ Pending' = Pending
        /\ dispatcherPc' = dispatcherPc /\ gameState = "normal" /\ gameState' = "shutdown"
        /\ UNCHANGED <<dispatcherState, databaseState, tasks, held>>
    <2>1. Stop1 # <<>> BY BodiesDiffer DEF StopBodies
    <2>2. GoOn(Stop1) /\ UNCHANGED taskList BY DEF BeginShutdown, Stop1
    <2>. QED BY <2>1, <2>2, GoOnPending DEF BeginShutdown, Running, databaseVars
  <1>1. body' \in StopBodies /\ body' \notin EndBodies BY <1>0, BodiesDiffer DEF StopBodies
  <1>2. body # Stop3 /\ dispatcherState = "running"
    BY <1>0, BodiesDiffer DEF StopBodies, StatesFit
  <1>3. BodyFitsState' BY <1>0, <1>1, <1>2 DEF BodyFitsState
  <1>4. StatesFit' BY <1>0, <1>1, <1>2 DEF StatesFit, EndBodies
  <1>5. OneShutdown' BY <1>0, <1>2 DEF OneShutdown
  <1>6. TerminatorIsLast' BY <1>0, <1>2 DEF TerminatorIsLast
  <1>7. FlushIsACall' BY <1>0 DEF FlushIsACall
  <1>8. EndedIsEmpty' BY <1>0, <1>2, InsideATask DEF EndedIsEmpty
  <1>. QED BY <1>3, <1>4, <1>5, <1>6, <1>7, <1>8

\* The game's shutdown task keeps the invariant of the shutdown.
LEMMA RunShutdownStep ==
    ASSUME TypeOK, ShutdownInv, RunShutdown
    PROVE  ShutdownInv'
  <1>. USE DEF ShutdownInv
  <1>0. /\ dispatcherPc = "batch" /\ body = <<>> /\ body' = End1 /\ Pending' = Pending
        /\ dispatcherPc' = dispatcherPc
        /\ UNCHANGED <<dispatcherState, databaseState, gameState, tasks, held>>
    BY GoOnPending, BodyLengths DEF RunShutdown, Running, End1, databaseVars, gameVars
  <1>1. Pending[1] = GameShutdown /\ 1 \in 1..Len(Pending)
    BY <1>0, InsideATask, KindsDiffer DEF RunShutdown, Running
  <1>2. body # Stop3 /\ body # End6 /\ body \notin StopBodies BY <1>0, BodiesDiffer DEF StopBodies, EndBodies
  <1>3. dispatcherState = "closing"
    BY <1>0, <1>1, <1>2, InsideATask DEF OneShutdown, TypeOK, DispatcherTypeOK, ThreadState
  <1>4. body' \in EndBodies /\ body' \notin StopBodies /\ body' \notin {End3, End4, End5, End6}
    BY <1>0, BodiesDiffer DEF EndBodies
  <1>5. BodyFitsState' BY <1>0, <1>1, <1>3, <1>4 DEF BodyFitsState
  <1>6. StatesFit' BY <1>0, <1>3, <1>4 DEF StatesFit
  <1>7. OneShutdown' BY <1>0, <1>2 DEF OneShutdown
  <1>8. TerminatorIsLast' BY <1>0, <1>1, <1>2 DEF TerminatorIsLast
  <1>9. FlushIsACall' BY <1>0 DEF FlushIsACall
  <1>10. EndedIsEmpty' BY <1>0, <1>3 DEF EndedIsEmpty
  <1>. QED BY <1>5, <1>6, <1>7, <1>8, <1>9, <1>10

\* The task goes on to the next call: what each call establishes for that.
LEMMA NextCallStep ==
    ASSUME TypeOK, ShutdownInv, dispatcherPc = "batch", NEW calls, GoOn(calls),
           calls \in EndBodies \ {End6}, body \in EndBodies \ {End6},
           UNCHANGED <<taskList, dispatcherState, gameState>>,
           databaseState' \in {databaseState, "terminated"},
           databaseState = "terminated" /\ tasks = <<>> => tasks' = <<>>,
           calls \in {End3, End4, End5, End6} => databaseState' = "terminated",
           calls \in {End4, End5, End6} => tasks' = <<>>,
           held'["dispatcher"] = NoQuery
    PROVE  ShutdownInv'
  <1>. USE DEF ShutdownInv
  <1>0. /\ calls # <<>> /\ body' = calls /\ Pending' = Pending /\ dispatcherPc' = dispatcherPc
    BY BodiesDiffer, GoOnPending
  <1>1. dispatcherState = "closing" /\ Pending[1] = GameShutdown BY DEF BodyFitsState
  <1>2. body' \notin StopBodies /\ body # Stop3 BY <1>0, BodiesDiffer DEF StopBodies
  <1>3. BodyFitsState' BY <1>0, <1>1, <1>2 DEF BodyFitsState
  <1>4. StatesFit' BY <1>0, <1>1, <1>2 DEF StatesFit
  <1>5. OneShutdown' BY <1>0, <1>1 DEF OneShutdown
  <1>6. TerminatorIsLast'
    <2>1. 1 \in 1..Len(Pending) BY InsideATask
    <2>. QED BY <1>0, <1>1, <2>1 DEF TerminatorIsLast
  <1>7. FlushIsACall' BY <1>0 DEF FlushIsACall
  <1>8. EndedIsEmpty' BY <1>0, <1>1 DEF EndedIsEmpty
  <1>. QED BY <1>3, <1>4, <1>5, <1>6, <1>7, <1>8

\* Outside of a flush the dispatcher holds no query.
LEMMA NoFlush ==
    ASSUME TypeOK, ShutdownInv, NEW call, Calling(call), call # "flush"
    PROVE  held["dispatcher"] = NoQuery
  BY DEF ShutdownInv, FlushIsACall, Calling

\* Stopping the scheduler's thread keeps the invariant of the shutdown.
LEMMA EndSchedulerStep ==
    ASSUME TypeOK, ShutdownInv, EndScheduler
    PROVE  ShutdownInv'
  <1>1. Calling("endScheduler") /\ dispatcherPc = "batch" BY DEF EndScheduler, Calling
  <1>2. body = End1 BY <1>1, CallOfBody DEF ShutdownInv
  <1>3. GoOn(End2) BY <1>2, Bodies DEF EndScheduler, Return
  <1>4. UNCHANGED <<taskList, dispatcherState, gameState, databaseState, tasks, held>>
    BY DEF EndScheduler, databaseVars, gameVars
  <1>5. End1 \in EndBodies /\ End2 \in EndBodies /\ End1 # End6 /\ End2 # End6 /\ End2 \notin {End3, End4, End5, End6}
    BY BodiesDiffer DEF EndBodies
  <1>. QED BY <1>1, <1>2, <1>3, <1>4, <1>5, NoFlush, NextCallStep

\* Stopping the database thread keeps the invariant of the shutdown.
LEMMA EndDatabaseStep ==
    ASSUME TypeOK, ShutdownInv, EndDatabase
    PROVE  ShutdownInv'
  <1>1. Calling("endDatabase") /\ dispatcherPc = "batch" BY DEF EndDatabase, Calling
  <1>2. body = End2 BY <1>1, CallOfBody DEF ShutdownInv
  <1>3. GoOn(End3) BY <1>2, Bodies DEF EndDatabase, Return
  <1>4. UNCHANGED <<taskList, dispatcherState, gameState, tasks, held>> /\ databaseState' = "terminated"
    BY DEF EndDatabase, gameVars
  <1>5. End2 \in EndBodies /\ End3 \in EndBodies /\ End2 # End6 /\ End3 # End6 /\ End3 \notin {End4, End5, End6}
    BY BodiesDiffer DEF EndBodies
  <1>. QED BY <1>1, <1>2, <1>3, <1>4, <1>5, NoFlush, NextCallStep

\* The wake-up that follows keeps the invariant of the shutdown.
LEMMA WakeForEndStep ==
    ASSUME TypeOK, ShutdownInv, WakeForEnd
    PROVE  ShutdownInv'
  <1>1. Calling("notifyDatabase") /\ dispatcherPc = "batch" BY DEF WakeForEnd, Calling
  <1>2. body = End4 BY <1>1, CallOfBody DEF ShutdownInv
  <1>3. GoOn(End5) BY <1>2, Bodies DEF WakeForEnd, Return
  <1>4. UNCHANGED <<taskList, dispatcherState, gameState, databaseState, tasks, held>>
    BY DEF WakeForEnd, gameVars
  <1>5. End4 \in EndBodies /\ End5 \in EndBodies /\ End4 # End6 /\ End5 # End6
    BY BodiesDiffer DEF EndBodies
  <1>6. databaseState = "terminated" /\ tasks = <<>> BY <1>2 DEF ShutdownInv, StatesFit
  <1>. QED BY <1>1, <1>2, <1>3, <1>4, <1>5, <1>6, NoFlush, NextCallStep

\* The end of a flush keeps the invariant of the shutdown.
LEMMA FlushEndStep ==
    ASSUME TypeOK, ShutdownInv, FlushEnd
    PROVE  ShutdownInv'
  <1>1. /\ Calling("flush") /\ dispatcherPc = "batch" /\ held["dispatcher"] = NoQuery /\ tasks = <<>>
        /\ GoOn(Tail(body))
        /\ UNCHANGED <<taskList, dispatcherState, gameState, databaseState, tasks, held>>
    BY DEF FlushEnd, Calling, Return, databaseVars, gameVars
  <1>2. CASE body = SaveBody
    BY <1>1, <1>2, Bodies, BodiesDiffer, DeleteStep DEF QueriesQuiet
  <1>3. CASE body = End3
    <2>1. GoOn(End4) BY <1>1, <1>3, Bodies
    <2>2. End3 \in EndBodies /\ End4 \in EndBodies /\ End3 # End6 /\ End4 # End6
      BY BodiesDiffer DEF EndBodies
    <2>3. databaseState = "terminated" BY <1>3 DEF ShutdownInv, StatesFit
    <2>. QED BY <1>1, <1>3, <2>1, <2>2, <2>3, NextCallStep
  <1>4. CASE body = Stop1
    <2>. USE DEF ShutdownInv
    <2>0. GoOn(Stop2) BY <1>1, <1>4, Bodies
    <2>1. body' = Stop2 /\ Pending' = Pending /\ dispatcherPc' = dispatcherPc
      BY <1>1, <2>0, GoOnPending, BodyLengths
    <2>2. body \in StopBodies /\ body # Stop3 /\ body' \in StopBodies /\ body' \notin EndBodies
      BY <1>4, <2>1, BodiesDiffer DEF StopBodies
    <2>3. dispatcherState = "running" /\ gameState = "shutdown" BY <2>2 DEF BodyFitsState
    <2>4. BodyFitsState' BY <1>1, <2>1, <2>2, <2>3 DEF BodyFitsState
    <2>5. StatesFit' BY <1>1, <2>1, <2>2, <2>3 DEF StatesFit, EndBodies
    <2>6. OneShutdown' BY <1>1, <2>1, <2>2, <2>3 DEF OneShutdown
    <2>7. TerminatorIsLast' BY <1>1, <2>1, <2>3 DEF TerminatorIsLast
    <2>8. FlushIsACall' BY <1>1, <2>1 DEF FlushIsACall
    <2>9. EndedIsEmpty' BY <1>1, <2>1, <2>3 DEF EndedIsEmpty
    <2>. QED BY <2>4, <2>5, <2>6, <2>7, <2>8, <2>9
  <1>. QED BY <1>1, <1>2, <1>3, <1>4, CallOfBody DEF ShutdownInv

\* Adding the shutdown task keeps the invariant of the shutdown.
LEMMA AddShutdownStep ==
    ASSUME TypeOK, ShutdownInv, AddShutdown
    PROVE  ShutdownInv'
  <1>. USE DEF ShutdownInv
  <1>1. /\ Calling("addShutdown") /\ dispatcherPc = "batch" /\ AddTask(GameShutdown) /\ GoOn(Tail(body))
        /\ UNCHANGED <<dispatcherState, gameState, databaseState, tasks, held>>
    BY DEF AddShutdown, Calling, Return, databaseVars, gameVars
  <1>2. body = Stop2 BY <1>1, CallOfBody
  <1>3. GoOn(Stop3) BY <1>1, <1>2, Bodies
  <1>4. body' = Stop3 /\ batch' = batch /\ dispatcherPc' = dispatcherPc
    <2>1. Stop3 # <<>> BY BodiesDiffer DEF StopBodies
    <2>. QED BY <1>3, <2>1 DEF GoOn
  <1>5. body \in StopBodies /\ body' \in StopBodies /\ body' \notin EndBodies /\ body # Stop3
    BY <1>2, <1>4, BodiesDiffer DEF StopBodies
  <1>6. dispatcherState = "running" /\ gameState = "shutdown" BY <1>5 DEF BodyFitsState
  <1>7. taskList' = Append(taskList, GameShutdown) BY <1>1, <1>6, AddTaskCases
  <1>8. /\ Len(Pending') = Len(Pending) + 1 /\ Len(Pending) \in Nat
        /\ Pending'[Len(Pending) + 1] = GameShutdown
        /\ \A i \in 1..Len(Pending) : Pending'[i] = Pending[i]
    BY <1>4, <1>7, TaskTypes, AppendPending, PendingType
  <1>9. BodyFitsState' BY <1>1, <1>4, <1>5, <1>6 DEF BodyFitsState
  <1>10. StatesFit' BY <1>1, <1>4, <1>5, <1>6 DEF StatesFit, EndBodies
  <1>11. OneShutdown'
    <2>1. \A i \in 1..Len(Pending) : Pending[i] # GameShutdown BY <1>5, <1>6 DEF OneShutdown
    <2>2. \A i \in 1..Len(Pending') : Pending'[i] = GameShutdown => i = Len(Pending) + 1
      BY <1>8, <2>1
    <2>. QED BY <1>4, <2>2 DEF OneShutdown
  <1>12. TerminatorIsLast' BY <1>6, <1>8, KindsDiffer DEF TerminatorIsLast
  <1>13. FlushIsACall' BY <1>1, NoFlush DEF FlushIsACall
  <1>14. EndedIsEmpty' BY <1>1, <1>4, <1>6 DEF EndedIsEmpty
  <1>. QED BY <1>9, <1>10, <1>11, <1>12, <1>13, <1>14

\* Closing the threads to new work keeps the invariant of the shutdown.
LEMMA StopStep ==
    ASSUME TypeOK, ShutdownInv, Stop
    PROVE  ShutdownInv'
  <1>. USE DEF ShutdownInv
  <1>1. /\ Calling("stop") /\ dispatcherPc = "batch" /\ GoOn(Tail(body))
        /\ dispatcherState' = "closing" /\ databaseState' = "closing"
        /\ UNCHANGED <<taskList, gameState, tasks, held>>
    BY DEF Stop, Calling, Return, gameVars
  <1>2. body = Stop3 BY <1>1, CallOfBody
  <1>3. GoOn(<<>>) BY <1>1, <1>2, Bodies
  <1>4. body' = <<>> /\ batch' = Tail(batch) /\ batch # <<>> /\ dispatcherPc' # "ended"
    BY <1>1, <1>3 DEF GoOn, Delete, TypeOK, DispatcherTypeOK
  <1>5. /\ Len(Pending') = Len(Pending) - 1 /\ Len(Pending) \in Nat
        /\ \A i \in 1..Len(Pending') : Pending'[i] = Pending[i + 1] /\ i + 1 \in 1..Len(Pending)
    BY <1>1, <1>4, DeletePending, PendingType
  <1>6. dispatcherState = "running" /\ gameState = "shutdown" BY <1>2 DEF BodyFitsState, StopBodies
  <1>7. body' \notin StopBodies \cup EndBodies BY <1>4, BodiesDiffer
  <1>8. BodyFitsState' BY <1>4, <1>7 DEF BodyFitsState
  <1>9. StatesFit' BY <1>1, <1>6, <1>7 DEF StatesFit, EndBodies
  <1>10. OneShutdown' BY <1>1, <1>5 DEF OneShutdown
  <1>11. TerminatorIsLast' BY <1>5, <1>6 DEF TerminatorIsLast
  <1>12. FlushIsACall' BY <1>1, NoFlush DEF FlushIsACall
  <1>13. EndedIsEmpty' BY <1>1, <1>4 DEF EndedIsEmpty
  <1>. QED BY <1>8, <1>9, <1>10, <1>11, <1>12, <1>13

\* Adding the dispatcher's last task keeps the invariant of the shutdown.
LEMMA EndDispatcherStep ==
    ASSUME TypeOK, ShutdownInv, EndDispatcher
    PROVE  ShutdownInv'
  <1>. USE DEF ShutdownInv
  <1>1. /\ Calling("endDispatcher") /\ dispatcherPc = "batch" /\ AddTerminator(Terminator) /\ GoOn(Tail(body))
        /\ UNCHANGED <<dispatcherState, gameState, databaseState, tasks, held>>
    BY DEF EndDispatcher, Calling, Return, databaseVars, gameVars
  <1>2. body = End5 BY <1>1, CallOfBody
  <1>3. GoOn(End6) BY <1>1, <1>2, Bodies
  <1>4. body' = End6 /\ batch' = batch /\ dispatcherPc' = dispatcherPc
    <2>1. End6 # <<>> BY BodiesDiffer DEF EndBodies
    <2>. QED BY <1>3, <2>1 DEF GoOn
  <1>5. body \in EndBodies /\ body' \in EndBodies /\ body' \notin StopBodies /\ body # End6
    BY <1>2, <1>4, BodiesDiffer DEF EndBodies
  <1>6. dispatcherState = "closing" /\ Pending[1] = GameShutdown BY <1>5 DEF BodyFitsState
  <1>7. databaseState = "terminated" /\ tasks = <<>> BY <1>2 DEF StatesFit
  <1>8. /\ Len(Pending') = Len(Pending) + 1 /\ Len(Pending) \in Nat /\ Len(Pending) >= 1
        /\ Pending'[Len(Pending) + 1] = Terminator
        /\ \A i \in 1..Len(Pending) : Pending'[i] = Pending[i]
    BY <1>1, <1>4, TaskTypes, AppendPending, PendingType, InsideATask DEF AddTerminator
  <1>9. BodyFitsState' BY <1>1, <1>4, <1>5, <1>6, <1>8 DEF BodyFitsState
  <1>10. StatesFit' BY <1>1, <1>5, <1>6, <1>7 DEF StatesFit
  <1>11. \A i \in 1..Len(Pending') : Pending'[i] = GameShutdown => i \in 1..Len(Pending) /\ Pending[i] = GameShutdown
    BY <1>8, KindsDiffer
  <1>12. OneShutdown' BY <1>1, <1>6, <1>11 DEF OneShutdown
  <1>13. \A i \in 1..Len(Pending) : Pending[i] = GameShutdown => i = 1
    BY <1>6, <1>8 DEF OneShutdown
  <1>14. \A i \in 1..Len(Pending) : Pending[i] # Terminator
    BY <1>5, <1>6, <1>8 DEF TerminatorIsLast
  <1>15. \A i \in 1..Len(Pending') : Pending'[i] = Terminator => i = Len(Pending')
    BY <1>8, <1>14
  <1>16. TerminatorIsLast' BY <1>1, <1>4, <1>6, <1>7, <1>11, <1>13, <1>15 DEF TerminatorIsLast
  <1>17. FlushIsACall' BY <1>1, NoFlush DEF FlushIsACall
  <1>18. EndedIsEmpty' BY <1>1, <1>4, <1>6 DEF EndedIsEmpty
  <1>. QED BY <1>9, <1>10, <1>12, <1>16, <1>17, <1>18

\* Closing the scripts keeps the invariant of the shutdown.
LEMMA CloseLuaStep ==
    ASSUME TypeOK, ShutdownInv, CloseLua
    PROVE  ShutdownInv'
  <1>1. /\ Calling("closeLua") /\ dispatcherPc = "batch" /\ GoOn(Tail(body))
        /\ UNCHANGED <<taskList, dispatcherState, gameState, databaseState, tasks, held>>
    BY DEF CloseLua, Calling, Return, databaseVars
  <1>2. body = End6 BY <1>1, CallOfBody DEF ShutdownInv
  <1>3. GoOn(<<>>) /\ body \notin StopBodies BY <1>1, <1>2, Bodies, BodiesDiffer DEF EndBodies
  <1>. QED BY <1>1, <1>3, NoFlush, DeleteStep DEF QueriesQuiet

\* The dispatcher's last task keeps the invariant of the shutdown.
LEMMA RunTerminatorStep ==
    ASSUME TypeOK, ShutdownInv, RunTerminator
    PROVE  ShutdownInv'
  <1>. USE DEF ShutdownInv
  <1>1. /\ dispatcherPc = "batch" /\ body = <<>> /\ GoOn(<<>>) /\ Head(batch).kind = "terminate"
        /\ dispatcherState' = "terminated"
        /\ UNCHANGED <<taskList, gameState, databaseState, tasks, held>>
    BY DEF RunTerminator, Running, databaseVars, gameVars
  <1>2. body' = <<>> /\ batch' = Tail(batch) /\ batch # <<>> /\ dispatcherPc' # "ended"
    BY <1>1 DEF GoOn, Delete, TypeOK, DispatcherTypeOK
  <1>3. Pending[1] = Terminator /\ 1 \in 1..Len(Pending) BY <1>1, InsideATask, KindsDiffer
  <1>4. Len(Pending) = 1 /\ dispatcherState = "closing" /\ databaseState = "terminated" /\ tasks = <<>>
    BY <1>3 DEF TerminatorIsLast
  <1>5. Pending' = <<>>
    <2>1. Len(Pending') = 0 BY <1>1, <1>2, <1>4, DeletePending
    <2>2. Pending' \in Seq(Task)
      BY <1>1, <1>2, PendingType DEF Pending
    <2>. QED BY <2>1, <2>2
  <1>6. body' \notin StopBodies \cup EndBodies BY <1>2, BodiesDiffer
  <1>7. BodyFitsState' BY <1>2, <1>6 DEF BodyFitsState
  <1>8. StatesFit' BY <1>1, <1>4, <1>6 DEF StatesFit, EndBodies
  <1>9. OneShutdown' /\ TerminatorIsLast' BY <1>5 DEF OneShutdown, TerminatorIsLast
  <1>10. FlushIsACall' BY <1>1 DEF FlushIsACall
  <1>11. EndedIsEmpty' BY <1>1, <1>2, <1>4, <1>5 DEF EndedIsEmpty
  <1>. QED BY <1>7, <1>8, <1>9, <1>10, <1>11

-----------------------------------------------------------------------------
(* The invariant                                                           *)

\* The invariant of the shutdown holds when the server starts.
LEMMA ShutdownInit == Init => ShutdownInv
  <1>. SUFFICES ASSUME Init PROVE ShutdownInv
    OBVIOUS
  <1>1. /\ Pending = <<>> /\ body = <<>> /\ dispatcherState = "running" /\ databaseState = "running"
        /\ gameState = "normal" /\ held["dispatcher"] = NoQuery /\ dispatcherPc = "take"
    BY DEF Init, DispatcherInit, DatabaseInit, Pending, Runners
  <1>2. body \notin StopBodies \cup EndBodies BY <1>1, BodiesDiffer
  <1>3. BodyFitsState BY <1>1, <1>2 DEF BodyFitsState
  <1>4. StatesFit BY <1>1, <1>2 DEF StatesFit, EndBodies
  <1>5. OneShutdown /\ TerminatorIsLast BY <1>1 DEF OneShutdown, TerminatorIsLast
  <1>6. FlushIsACall /\ EndedIsEmpty BY <1>1 DEF FlushIsACall, EndedIsEmpty
  <1>. QED BY <1>3, <1>4, <1>5, <1>6 DEF ShutdownInv

\* The database thread keeps the invariant of the shutdown.
LEMMA DatabaseThreadStep ==
    ASSUME TypeOK, ShutdownInv, DatabaseThread
    PROVE  ShutdownInv'
  <1>1. CASE /\ CheckState \/ TakeQuery \/ WakeDatabase \/ RunQuery
             /\ UNCHANGED <<dispatcherVars, schedulerVars, body, gameVars>>
    <2>1. Pending' = Pending /\ UNCHANGED <<body, dispatcherState, dispatcherPc, databaseState, gameState>>
      BY <1>1 DEF Pending, dispatcherVars, gameVars, CheckState, TakeQuery, WakeDatabase, RunQuery
    <2>2. (tasks = <<>> => tasks' = <<>>) /\ held'["dispatcher"] = held["dispatcher"]
      BY <1>1 DEF CheckState, TakeQuery, WakeDatabase, RunQuery, Pop, TypeOK, DatabaseTypeOK, Runners
    <2>. QED BY <2>1, <2>2, FrameStep DEF QueriesQuiet, ShutdownInv, EndedIsEmpty
  <1>2. CASE /\ CompleteQuery /\ HandBack("database")
             /\ UNCHANGED <<dispatcherState, batch, dispatcherPc, schedulerVars, body, gameVars>>
    <2>1. held["database"] # NoQuery BY <1>2 DEF CompleteQuery, TypeOK, DatabaseTypeOK
    <2>2. QueriesQuiet
      BY <1>2 DEF CompleteQuery, Complete, QueriesQuiet, TypeOK, DatabaseTypeOK, gameVars, Runners
    <2>. QED BY <1>2, <2>1, <2>2, HandBackStep DEF Runners
  <1>. QED BY <1>1, <1>2 DEF DatabaseThread

\* The scheduler's thread keeps the invariant of the shutdown.
LEMMA SchedulerThreadStep ==
    ASSUME TypeOK, ShutdownInv, SchedulerThread
    PROVE  ShutdownInv'
  <1>1. QueriesQuiet BY DEF SchedulerThread, QueriesQuiet, databaseVars, gameVars
  <1>2. CASE RunHandler /\ UNCHANGED <<dispatcherVars, body>>
    BY <1>1, <1>2, FrameStep DEF dispatcherVars, Pending, ShutdownInv, EndedIsEmpty
  <1>3. CASE \E e \in Events : AddTask(Timer(e)) /\ UNCHANGED <<dispatcherState, batch, dispatcherPc, body>>
    BY <1>1, <1>3, TaskTypes, KindsDiffer, OrdinaryTaskStep
  <1>. QED BY <1>2, <1>3 DEF SchedulerThread

\* A query that is flushed keeps the invariant of the shutdown.
LEMMA FlushSteps ==
    ASSUME TypeOK, ShutdownInv, FlushPop \/ FlushRun \/ FlushComplete
    PROVE  ShutdownInv'
  <1>1. CASE FlushPop \/ FlushRun
    <2>1. Pending' = Pending /\ UNCHANGED <<body, dispatcherState, dispatcherPc>> /\ Calling("flush")
      BY <1>1 DEF FlushPop, FlushRun, Pending, dispatcherVars
    <2>2. QueriesQuiet BY <1>1, <2>1 DEF FlushPop, FlushRun, Pop, QueriesQuiet, gameVars
    <2>. QED BY <2>1, <2>2, FrameStep DEF ShutdownInv, EndedIsEmpty
  <1>2. CASE FlushComplete
    <2>1. held["dispatcher"] # NoQuery
      BY <1>2, QueriesAssumption DEF FlushComplete, Complete, TypeOK, DatabaseTypeOK
    <2>2. QueriesQuiet BY <1>2 DEF FlushComplete, QueriesQuiet, gameVars
    <2>. QED BY <1>2, <2>1, <2>2, HandBackStep DEF FlushComplete, Runners
  <1>. QED BY <1>1, <1>2

\* Every other task keeps the invariant of the shutdown.
LEMMA OrdinaryTasksStep ==
    ASSUME TypeOK, ShutdownInv,
           \/ Skip \/ RunCallback \/ RunTimer \/ \E q \in Queries : Query(q)
           \/ \E e \in Events : LuaAddEvent(e) \/ LuaStopEvent(e)
    PROVE  ShutdownInv'
  <1>1. CASE Skip BY <1>1, StartStep DEF Skip, QueriesQuiet, databaseVars, gameVars
  <1>2. CASE RunCallback BY <1>2, StartStep DEF RunCallback, QueriesQuiet, databaseVars
  <1>3. CASE RunTimer BY <1>3, StartStep DEF RunTimer, QueriesQuiet, databaseVars
  <1>4. CASE \E q \in Queries : Query(q)
    <2>1. PICK q \in Queries : Query(q) BY <1>4
    <2>2. databaseState = "terminated" => tasks' = tasks BY <2>1, AddQueryCases DEF Query
    <2>. QED BY <2>1, <2>2, StartStep DEF Query, QueriesQuiet, gameVars
  <1>5. CASE \E e \in Events : LuaAddEvent(e) \/ LuaStopEvent(e)
    BY <1>5, StartStep DEF LuaAddEvent, LuaStopEvent, QueriesQuiet, databaseVars
  <1>. QED BY <1>1, <1>2, <1>3, <1>4, <1>5

\* The dispatcher's own loop keeps the invariant of the shutdown.
LEMMA TakeWakeEndStep ==
    ASSUME TypeOK, ShutdownInv, Take \/ Wake \/ End,
           UNCHANGED <<databaseVars, schedulerVars, body, gameVars>>
    PROVE  ShutdownInv'
  <1>1. QueriesQuiet BY DEF QueriesQuiet, databaseVars, gameVars
  <1>2. batch = <<>> BY DEF Take, Wake, End, TypeOK, DispatcherTypeOK
  <1>3. Pending' = Pending /\ dispatcherState' = dispatcherState
    <2>1. CASE Swap BY <1>2, <2>1, SwapPending DEF Take, Wake, End
    <2>2. CASE UNCHANGED <<taskList, batch>> BY <2>2 DEF Pending, Take, Wake, End
    <2>. QED BY <2>1, <2>2 DEF Take, Wake, End
  <1>4. dispatcherPc' = "ended" => dispatcherState = "terminated" BY DEF Take, Wake, End, Swap
  <1>. QED BY <1>1, <1>3, <1>4, FrameStep

\* So every step keeps it.
LEMMA ShutdownStep == TypeOK /\ ShutdownInv /\ [Next]_vars => ShutdownInv'
  <1>. SUFFICES ASSUME TypeOK, ShutdownInv, [Next]_vars PROVE ShutdownInv'
    OBVIOUS
  <1>1. CASE PostTask
    BY <1>1, TaskTypes, KindsDiffer, OrdinaryTaskStep DEF PostTask, QueriesQuiet, databaseVars
  <1>2. CASE DatabaseThread BY <1>2, DatabaseThreadStep
  <1>3. CASE SchedulerThread BY <1>3, SchedulerThreadStep
  <1>4. CASE (\E e \in Events : Time(e)) \/ UNCHANGED vars
    BY <1>4, FrameStep
    DEF Time, vars, QueriesQuiet, dispatcherVars, databaseVars, gameVars, Pending, ShutdownInv, EndedIsEmpty
  <1>5. CASE DispatcherThread
    BY <1>5, TakeWakeEndStep, OrdinaryTasksStep, FlushSteps, SaveStep, BeginShutdownStep,
       RunShutdownStep, RunTerminatorStep, FlushEndStep, AddShutdownStep, StopStep,
       EndSchedulerStep, EndDatabaseStep, WakeForEndStep, EndDispatcherStep, CloseLuaStep
    DEF DispatcherThread, RunTask
  <1>. QED BY <1>1, <1>2, <1>3, <1>4, <1>5 DEF Next

\* When the shutdown has ended the dispatcher, no task and no query that was accepted is
\* left, and the dispatcher holds none: whoever handed them over, and whenever.
THEOREM ShutdownLeavesNothing == Spec => []NothingLeftBehind
  <1>1. TypeOK /\ ShutdownInv => NothingLeftBehind
    <2>. SUFFICES ASSUME TypeOK, ShutdownInv, dispatcherPc = "ended"
                  PROVE  taskList = <<>> /\ tasks = <<>> /\ held["dispatcher"] = NoQuery
      BY DEF NothingLeftBehind
    <2>1. Pending = <<>> /\ body = <<>> /\ tasks = <<>> BY DEF ShutdownInv, EndedIsEmpty
    <2>2. Len(taskList) = 0 /\ taskList \in Seq(Task) BY <2>1, PendingType
    <2>. QED BY <2>1, <2>2 DEF ShutdownInv, FlushIsACall
  <1>. QED BY <1>1, ShutdownInit, ShutdownStep, TypeCorrect, PTL DEF Spec
=============================================================================
