---------------------------- MODULE TaskThreads ----------------------------
(***************************************************************************)
(* The threads of a world together: the dispatcher runs the tasks that     *)
(* the network, the scheduler and the database thread hand it; its tasks   *)
(* hand queries to the database thread and events to the scheduler; and    *)
(* one of them may begin the shutdown, which ends all three (game.cpp),    *)
(* and closes Lua, whose timer events (luascript.cpp) are scheduler events *)
(* that a script may stop.                                                 *)
(*                                                                         *)
(* A task is a sequence of calls; every call that takes a lock is a step   *)
(* of its own, and the other threads run in between.                       *)
(***************************************************************************)
EXTENDS Integers, Dispatcher, DatabaseTasks, Scheduler

CONSTANTS
    WithCallback,   \* queries that have a callback
    MaxPosts        \* bound: tasks of the network, signals and ticks

ASSUME PostsAssumption ==
    WithCallback \subseteq Queries /\ NoEvent \notin Events /\ MaxPosts \in Nat

VARIABLES
    body,           \* the calls the running task has still to make
    posted,         \* how many of those were handed over
    gameState,      \* "normal" or "shutdown"
    luaOpen,        \* the Lua state has not been closed
    timerEvents,    \* LuaEnvironment::timerEvents
    stopped,        \* events a script stopped (auxiliary)
    called,         \* events whose function was called (auxiliary)
    replied         \* queries whose callback was called (auxiliary)

gameVars == <<posted, gameState, luaOpen, timerEvents, stopped, called, replied>>
vars     == <<dispatcherVars, databaseVars, schedulerVars, body, gameVars>>

-----------------------------------------------------------------------------
(* Tasks and their calls                                                   *)

Callback(q)  == [kind |-> "callback", of |-> q]
Timer(e)     == [kind |-> "timer", of |-> e]
Post         == [kind |-> "post"]
GameShutdown == [kind |-> "shutdown"]
Terminator   == [kind |-> "terminate"]

\* Mutant: the threads are stopped first.
ShutdownCallsStopFirst == <<"flush", "stop", "addShutdown">>

\* Game::setGameState(GAME_STATE_SHUTDOWN), after the players were kicked.
ShutdownCalls == <<"flush", "addShutdown", "stop">>

\* Game::shutdown; DatabaseTasks::shutdown is the second to the fourth call.
EndCalls == <<"endScheduler", "endDatabase", "flush", "notifyDatabase", "endDispatcher", "closeLua">>

Running(kind) == dispatcherPc = "batch" /\ body = <<>> /\ Head(batch).kind = kind
Calling(call) == dispatcherPc = "batch" /\ body # <<>> /\ Head(body) = call

\* The running task goes on with calls; when none is left it is deleted.
GoOn(calls) ==
    /\ body' = calls
    /\ \/ calls # <<>> /\ UNCHANGED <<batch, dispatcherPc>>
       \/ calls = <<>> /\ Delete

Return == GoOn(Tail(body))

-----------------------------------------------------------------------------
Init ==
    /\ DispatcherInit /\ DatabaseInit /\ SchedulerInit
    /\ body = <<>>
    /\ posted = 0
    /\ gameState = "normal"
    /\ luaOpen = TRUE
    /\ timerEvents = {}
    /\ stopped = {}
    /\ called = {}
    /\ replied = {}

-----------------------------------------------------------------------------
(* What the other threads hand to the dispatcher                           *)

\* The network, a signal, or the heartbeat of the scheduler.
PostTask ==
    /\ posted < MaxPosts
    /\ posted' = posted + 1
    /\ AddTask(Post)
    /\ UNCHANGED <<dispatcherState, batch, dispatcherPc, databaseVars, schedulerVars, body,
                   gameState, luaOpen, timerEvents, stopped, called, replied>>

\* The callback of a query that thread t ran is handed over, if it has one.
HandBack(t) ==
    \/ held[t] \in WithCallback /\ AddTask(Callback(held[t]))
    \/ held[t] \notin WithCallback /\ UNCHANGED <<taskList, dispatcherWoken>>

DatabaseThread ==
    \/ /\ CheckState \/ TakeQuery \/ WakeDatabase \/ RunQuery
       /\ UNCHANGED <<dispatcherVars, schedulerVars, body, gameVars>>
    \/ /\ CompleteQuery
       /\ HandBack("database")
       /\ UNCHANGED <<dispatcherState, batch, dispatcherPc, schedulerVars, body, gameVars>>

SchedulerThread ==
    \/ RunHandler /\ UNCHANGED <<dispatcherVars, databaseVars, body, gameVars>>
    \/ \E e \in Events :
         /\ HandOver(e)
         /\ AddTask(Timer(e))
         /\ UNCHANGED <<dispatcherState, batch, dispatcherPc, databaseVars, body, gameVars>>

Time(e) == Expire(e) /\ UNCHANGED <<dispatcherVars, databaseVars, body, gameVars>>

-----------------------------------------------------------------------------
(* A task of the network does one of these, by some handler or script; so  *)
(* do callbacks and timer functions, for which the posts stand in.         *)

\* It expired, or does nothing that matters here.
Skip ==
    /\ Running("post")
    /\ GoOn(<<>>)
    /\ UNCHANGED <<dispatcherState, taskList, dispatcherWoken, databaseVars, schedulerVars, gameVars>>

Query(q) ==
    /\ Running("post")
    /\ q \notin {accepted[i] : i \in DOMAIN accepted}
    /\ AddQuery(q)
    /\ GoOn(<<>>)
    /\ UNCHANGED <<dispatcherState, taskList, dispatcherWoken, held, executed,
                   databaseState, databasePc, schedulerVars, gameVars>>

\* saveGameState, by a script or a signal
Save ==
    /\ Running("post")
    /\ GoOn(<<"flush">>)
    /\ UNCHANGED <<dispatcherState, taskList, dispatcherWoken, databaseVars, schedulerVars, gameVars>>

\* addEvent of a script
LuaAddEvent(e) ==
    /\ Running("post") /\ luaOpen
    /\ e \notin timerEvents \cup stopped \cup called
    /\ AddEvent(e)
    /\ timerEvents' = timerEvents \cup {e}
    /\ GoOn(<<>>)
    /\ UNCHANGED <<dispatcherState, taskList, dispatcherWoken, databaseVars, schedulerState,
                   timers, schedulerEnded, posted, gameState, luaOpen, stopped, called, replied>>

\* stopEvent of a script
LuaStopEvent(e) ==
    /\ Running("post") /\ luaOpen
    /\ e \in timerEvents
    /\ StopEvent(e)
    /\ timerEvents' = timerEvents \ {e}
    /\ stopped' = stopped \cup {e}
    /\ GoOn(<<>>)
    /\ UNCHANGED <<dispatcherState, taskList, dispatcherWoken, databaseVars, schedulerState,
                   timers, schedulerEnded, posted, gameState, luaOpen, called, replied>>

\* setGameState(GAME_STATE_SHUTDOWN), by a script or a signal; it cannot be undone.
BeginShutdown ==
    /\ Running("post") /\ gameState = "normal"
    /\ gameState' = "shutdown"
    /\ GoOn(ShutdownCalls)
    /\ UNCHANGED <<dispatcherState, taskList, dispatcherWoken, databaseVars, schedulerVars,
                   posted, luaOpen, timerEvents, stopped, called, replied>>

-----------------------------------------------------------------------------
(* Tasks of the server itself                                              *)

\* The callback of a query: a script's does nothing once Lua is closed.
RunCallback ==
    /\ Running("callback")
    /\ replied' = replied \cup {Head(batch).of}
    /\ GoOn(<<>>)
    /\ UNCHANGED <<dispatcherState, taskList, dispatcherWoken, databaseVars, schedulerVars,
                   posted, gameState, luaOpen, timerEvents, stopped, called>>

\* Mutant: the function is called without a look at timerEvents.
DueFunctionsUnchecked(e) == {e}

\* executeTimerEvent calls the function of an event it still knows.
DueFunctions(e) == {e} \cap timerEvents

RunTimer ==
    /\ Running("timer")
    /\ called' = called \cup DueFunctions(Head(batch).of)
    /\ timerEvents' = timerEvents \ {Head(batch).of}
    /\ GoOn(<<>>)
    /\ UNCHANGED <<dispatcherState, taskList, dispatcherWoken, databaseVars, schedulerVars,
                   posted, gameState, luaOpen, stopped, replied>>

RunShutdown ==
    /\ Running("shutdown")
    /\ GoOn(EndCalls)
    /\ UNCHANGED <<dispatcherState, taskList, dispatcherWoken, databaseVars, schedulerVars, gameVars>>

RunTerminator ==
    /\ Running("terminate")
    /\ dispatcherState' = "terminated"
    /\ GoOn(<<>>)
    /\ UNCHANGED <<taskList, dispatcherWoken, databaseVars, schedulerVars, gameVars>>

-----------------------------------------------------------------------------
(* Calls of saveGameState, setGameState and Game::shutdown                 *)

\* DatabaseTasks::flush: the dispatcher runs queries until none is left.
FlushPop ==
    /\ Calling("flush") /\ held["dispatcher"] = NoQuery
    /\ Pop("dispatcher")
    /\ UNCHANGED <<dispatcherVars, databaseState, executed, databasePc, databaseWoken, accepted,
                   schedulerVars, body, gameVars>>

FlushRun ==
    /\ Calling("flush")
    /\ Execute("dispatcher")
    /\ UNCHANGED <<dispatcherVars, databaseState, tasks, held, databasePc, databaseWoken, accepted,
                   schedulerVars, body, gameVars>>

FlushComplete ==
    /\ Calling("flush")
    /\ Complete("dispatcher")
    /\ HandBack("dispatcher")
    /\ UNCHANGED <<dispatcherState, batch, dispatcherPc, databaseState, tasks, executed, databasePc,
                   databaseWoken, accepted, schedulerVars, body, gameVars>>

FlushEnd ==
    /\ Calling("flush") /\ held["dispatcher"] = NoQuery /\ tasks = <<>>
    /\ Return
    /\ UNCHANGED <<dispatcherState, taskList, dispatcherWoken, databaseVars, schedulerVars, gameVars>>

AddShutdown ==
    /\ Calling("addShutdown")
    /\ AddTask(GameShutdown)
    /\ Return
    /\ UNCHANGED <<dispatcherState, databaseVars, schedulerVars, gameVars>>

\* Three stores to atomics, one right after the other.
Stop ==
    /\ Calling("stop")
    /\ schedulerState' = "closing" /\ databaseState' = "closing" /\ dispatcherState' = "closing"
    /\ Return
    /\ UNCHANGED <<taskList, dispatcherWoken, tasks, held, executed, databasePc, databaseWoken,
                   accepted, handlers, timers, schedulerEnded, gameVars>>

EndScheduler ==
    /\ Calling("endScheduler")
    /\ StopHandlers
    /\ Return
    /\ UNCHANGED <<dispatcherState, taskList, dispatcherWoken, databaseVars, timers,
                   schedulerEnded, gameVars>>

EndDatabase ==
    /\ Calling("endDatabase")
    /\ databaseState' = "terminated"
    /\ Return
    /\ UNCHANGED <<dispatcherState, taskList, dispatcherWoken, tasks, held, executed, databasePc,
                   databaseWoken, accepted, schedulerVars, gameVars>>

WakeForEnd ==
    /\ Calling("notifyDatabase")
    /\ NotifyDatabase
    /\ Return
    /\ UNCHANGED <<dispatcherState, taskList, dispatcherWoken, databaseState, tasks, held, executed,
                   databasePc, accepted, schedulerVars, gameVars>>

EndDispatcher ==
    /\ Calling("endDispatcher")
    /\ AddTerminator(Terminator)
    /\ Return
    /\ UNCHANGED <<dispatcherState, databaseVars, schedulerVars, gameVars>>

CloseLua ==
    /\ Calling("closeLua")
    /\ luaOpen' = FALSE
    /\ timerEvents' = {}
    /\ Return
    /\ UNCHANGED <<dispatcherState, taskList, dispatcherWoken, databaseVars, schedulerVars,
                   posted, gameState, stopped, called, replied>>

-----------------------------------------------------------------------------
RunTask ==
    \/ Skip \/ Save \/ BeginShutdown
    \/ \E q \in Queries : Query(q)
    \/ \E e \in Events : LuaAddEvent(e) \/ LuaStopEvent(e)
    \/ RunCallback \/ RunTimer \/ RunShutdown \/ RunTerminator
    \/ FlushPop \/ FlushRun \/ FlushComplete \/ FlushEnd
    \/ AddShutdown \/ Stop
    \/ EndScheduler \/ EndDatabase \/ WakeForEnd \/ EndDispatcher \/ CloseLua

DispatcherThread ==
    \/ /\ Take \/ Wake \/ End
       /\ UNCHANGED <<databaseVars, schedulerVars, body, gameVars>>
    \/ RunTask

Next ==
    \/ PostTask
    \/ DispatcherThread
    \/ DatabaseThread
    \/ SchedulerThread
    \/ \E e \in Events : Time(e)

Spec == Init /\ [][Next]_vars

\* A thread goes on, but it need not wake up when nobody notified it; a timer's
\* time comes.
Fairness ==
    /\ WF_vars(DispatcherThread /\ (dispatcherPc = "wait" => dispatcherWoken))
    /\ WF_vars(DatabaseThread /\ (databasePc = "wait" => databaseWoken))
    /\ WF_vars(SchedulerThread)
    /\ \A e \in Events : WF_vars(Time(e))

FairSpec == Spec /\ Fairness

-----------------------------------------------------------------------------
(* Properties                                                              *)

Task == [kind : {"callback"}, of : Queries] \cup [kind : {"timer"}, of : Events]
        \cup {Post, GameShutdown, Terminator}
Call == {"flush", "addShutdown", "stop", "endScheduler", "endDatabase", "notifyDatabase",
         "endDispatcher", "closeLua"}

DispatcherTypeOK ==
    /\ dispatcherState \in ThreadState
    /\ taskList \in Seq(Task) /\ batch \in Seq(Task)
    /\ dispatcherPc \in {"take", "wait", "batch", "ended"}
    /\ dispatcherWoken \in BOOLEAN /\ (dispatcherWoken => dispatcherPc = "wait")
    /\ (dispatcherPc = "batch" <=> batch # <<>>)
    /\ body \in Seq(Call) /\ (body # <<>> => batch # <<>>)

DatabaseTypeOK ==
    /\ databaseState \in ThreadState
    /\ tasks \in Seq(Queries) /\ accepted \in Seq(Queries)
    /\ held \in [Runners -> Queries \cup {NoQuery}]
    /\ executed \subseteq Queries
    /\ databasePc \in {"check", "take", "wait", "run", "ended"}
    /\ (databasePc = "run" <=> held["database"] # NoQuery)
    /\ databaseWoken \in BOOLEAN /\ (databaseWoken => databasePc = "wait")

SchedulerTypeOK ==
    /\ schedulerState \in ThreadState
    /\ handlers \in Seq([op : {"arm", "cancel", "due"}, event : Events] \cup {Handler("stop", NoEvent)})
    /\ timers \subseteq Events
    /\ schedulerEnded \in BOOLEAN

GameTypeOK ==
    /\ posted \in 0..MaxPosts
    /\ gameState \in {"normal", "shutdown"}
    /\ luaOpen \in BOOLEAN
    /\ timerEvents \subseteq Events /\ stopped \subseteq Events /\ called \subseteq Events
    /\ replied \subseteq Queries

\* Every variable keeps its type; a thread is notified only while it waits, the dispatcher
\* is inside a task exactly while it has taken one, and the database thread runs a query
\* exactly while it holds one.
TypeOK == DispatcherTypeOK /\ DatabaseTypeOK /\ SchedulerTypeOK /\ GameTypeOK

\* A thread that waits and was not notified has nothing to do: no task or query
\* is left behind by the two addTask, which notify only for an empty queue.
NobodySleepsOverWork ==
    /\ dispatcherPc = "wait" /\ ~dispatcherWoken => taskList = <<>>
    /\ databasePc = "wait" /\ ~databaseWoken => tasks = <<>>

\* How many of the accepted queries were taken off the queue.
Taken == Len(accepted) - Len(tasks)

\* Queries start in the order addTask took them, whichever thread takes them, and
\* each is run once: one may end before an older one only while the other thread
\* still runs that (flush and threadMain drain the same queue).
QueriesStartInOrder ==
    /\ Taken >= 0
    /\ \A i \in 1..Len(tasks) : tasks[i] = accepted[Taken + i] /\ tasks[i] \notin executed
    /\ \A i \in 1..Taken : accepted[i] \in executed \/ \E t \in Runners : held[t] = accepted[i]
    /\ \A t \in Runners : held[t] # NoQuery =>
          /\ \E i \in 1..Taken : accepted[i] = held[t]
          /\ \A u \in Runners \ {t} : held[u] # held[t]

\* When the dispatcher has ended, every task and every query that was accepted has been
\* taken and run, but for one that the database thread still runs.
NothingLeftBehind ==
    dispatcherPc = "ended" => taskList = <<>> /\ tasks = <<>> /\ held["dispatcher"] = NoQuery

\* The function of a timer event that a script stopped is not called, although the
\* event's task may be on its way to the dispatcher already.
StoppedTimersStaySilent == called \cap stopped = {}

Accepted(q) == \E i \in DOMAIN accepted : accepted[i] = q

\* A query that addTask took is run, shutdown or not: by the database thread, or by a
\* dispatcher that saves or shuts down.
AcceptedQueriesRun == \A q \in Queries : Accepted(q) ~> q \in executed

\* Its callback is called, unless the world shuts down: the answer crosses both queues.
AnswersComeBack ==
    \A q \in WithCallback : Accepted(q) ~> q \in replied \/ gameState = "shutdown"

\* The shutdown ends the scheduler and the dispatcher.
ShutdownEnds == gameState = "shutdown" ~> schedulerEnded /\ dispatcherPc = "ended"

\* "We block until all threads have joined": the shutdown ends the database thread.
DatabaseThreadJoins == gameState = "shutdown" ~> databasePc = "ended"

\* "The dispatchers are already stopped above, so no script can be running" (game.cpp):
\* no task of another thread is run once Lua is closed.
NothingRunsAfterLua == ~(Running("post") /\ ~luaOpen)
=============================================================================
