----------------------------- MODULE Dispatcher -----------------------------
(***************************************************************************)
(* g_dispatcher (tasks.cpp), the thread that runs the game.  Any thread    *)
(* hands it tasks; it takes all there are at once and runs them in order.  *)
(* What tasks.cpp does under taskLock is one step here.  An addTask and    *)
(* its notify_one are one step too: the wait may end at any time (Wake),   *)
(* which is all that a notification between the two could add.             *)
(***************************************************************************)
EXTENDS Sequences

VARIABLES
    dispatcherState,    \* threadState
    taskList,           \* tasks handed over
    batch,              \* tmpTaskList: tasks taken, the first one may be running
    dispatcherPc,       \* where threadMain is
    dispatcherWoken     \* its wait has been notified

dispatcherVars == <<dispatcherState, taskList, batch, dispatcherPc, dispatcherWoken>>

ThreadState == {"running", "closing", "terminated"}

DispatcherInit ==
    /\ dispatcherState = "running"
    /\ taskList = <<>>
    /\ batch = <<>>
    /\ dispatcherPc = "take"
    /\ dispatcherWoken = FALSE

\* notify_one reaches a thread that waits, and is lost on any other.
NotifyDispatcher == dispatcherWoken' = (dispatcherPc = "wait")

\* Mutant: a thread that is closing still takes tasks.
AddTaskWhileClosing(t) ==
    \/ /\ dispatcherState # "terminated"
       /\ taskList' = Append(taskList, t)
       /\ IF taskList = <<>> THEN NotifyDispatcher ELSE UNCHANGED dispatcherWoken
    \/ /\ dispatcherState = "terminated"
       /\ UNCHANGED <<taskList, dispatcherWoken>>

\* Mutant: whether to notify is asked after the task was pushed.
AddTaskUnnoticed(t) ==
    \/ /\ dispatcherState = "running"
       /\ taskList' = Append(taskList, t)
       /\ UNCHANGED dispatcherWoken
    \/ /\ dispatcherState # "running"
       /\ UNCHANGED <<taskList, dispatcherWoken>>

\* A thread that is not running deletes the task.
AddTask(t) ==
    \/ /\ dispatcherState = "running"
       /\ taskList' = Append(taskList, t)
       /\ IF taskList = <<>> THEN NotifyDispatcher ELSE UNCHANGED dispatcherWoken
    \/ /\ dispatcherState # "running"
       /\ UNCHANGED <<taskList, dispatcherWoken>>

\* The terminator is pushed whatever the state.
AddTerminator(t) ==
    /\ taskList' = Append(taskList, t)
    /\ NotifyDispatcher

\* tmpTaskList.swap(taskList)
Swap ==
    /\ batch' = taskList
    /\ taskList' = <<>>
    /\ dispatcherPc' = IF taskList = <<>> THEN "take" ELSE "batch"
    /\ dispatcherWoken' = FALSE

\* Only the dispatcher terminates itself: that the state is read before the
\* lock is taken makes no difference.
Take ==
    /\ dispatcherPc = "take" /\ dispatcherState # "terminated"
    /\ \/ taskList # <<>> /\ Swap
       \/ taskList = <<>> /\ dispatcherPc' = "wait" /\ UNCHANGED <<taskList, batch, dispatcherWoken>>
    /\ UNCHANGED dispatcherState

Wake ==
    /\ dispatcherPc = "wait"
    /\ Swap
    /\ UNCHANGED dispatcherState

End ==
    /\ dispatcherPc = "take" /\ dispatcherState = "terminated"
    /\ dispatcherPc' = "ended"
    /\ UNCHANGED <<dispatcherState, taskList, batch, dispatcherWoken>>

\* Mutant: only the first of the tasks that were taken is run before the next wait.
DeleteAndLeave ==
    /\ batch' = Tail(batch)
    /\ dispatcherPc' = "take"

\* The running task returned and is deleted.
Delete ==
    /\ batch' = Tail(batch)
    /\ dispatcherPc' = IF Tail(batch) = <<>> THEN "take" ELSE "batch"
=============================================================================
