--------------------------- MODULE DatabaseTasks ---------------------------
(***************************************************************************)
(* g_databaseTasks (databasetasks.cpp): queries run on a connection of     *)
(* their own, by its thread or, in flush, by the dispatcher.               *)
(***************************************************************************)
EXTENDS Sequences

CONSTANTS
    Queries,        \* the queries the program may hand over, each once
    NoQuery

ASSUME QueriesAssumption == NoQuery \notin Queries

VARIABLES
    databaseState,  \* threadState
    tasks,          \* queries handed over, not taken yet
    held,           \* the query each thread took and runs
    executed,       \* queries that were run
    databasePc,     \* where threadMain is
    databaseWoken,  \* its wait has been notified
    accepted        \* the queries addTask took, in order (auxiliary)

databaseVars == <<databaseState, tasks, held, executed, databasePc, databaseWoken, accepted>>

Runners == {"dispatcher", "database"}

DatabaseInit ==
    /\ databaseState = "running"
    /\ tasks = <<>>
    /\ held = [t \in Runners |-> NoQuery]
    /\ executed = {}
    /\ databasePc = "check"
    /\ databaseWoken = FALSE
    /\ accepted = <<>>

NotifyDatabase == databaseWoken' = (databasePc = "wait")

\* Mutant: whether to notify is asked after the query was pushed.
AddQueryUnnoticed(q) ==
    \/ /\ databaseState = "running"
       /\ tasks' = Append(tasks, q)
       /\ accepted' = Append(accepted, q)
       /\ UNCHANGED databaseWoken
    \/ /\ databaseState # "running"
       /\ UNCHANGED <<tasks, accepted, databaseWoken>>

\* addTask: dropped unless the thread is running.
AddQuery(q) ==
    \/ /\ databaseState = "running"
       /\ tasks' = Append(tasks, q)
       /\ accepted' = Append(accepted, q)
       /\ IF tasks = <<>> THEN NotifyDatabase ELSE UNCHANGED databaseWoken
    \/ /\ databaseState # "running"
       /\ UNCHANGED <<tasks, accepted, databaseWoken>>

\* Mutant: the thread runs the front of the queue before it takes it off.
PopLate(t) ==
    /\ tasks # <<>>
    /\ held' = [held EXCEPT ![t] = Head(tasks)]
    /\ tasks' = IF t = "database" THEN tasks ELSE Tail(tasks)

Pop(t) ==
    /\ tasks # <<>>
    /\ held' = [held EXCEPT ![t] = Head(tasks)]
    /\ tasks' = Tail(tasks)

\* runTask: the query, under the lock of the connection ...
Execute(t) ==
    /\ held[t] # NoQuery /\ held[t] \notin executed
    /\ executed' = executed \cup {held[t]}

\* ... and then the callback, which is handed to the dispatcher.
Complete(t) ==
    /\ held[t] \in executed
    /\ held' = [held EXCEPT ![t] = NoQuery]

-----------------------------------------------------------------------------
(* threadMain                                                              *)

\* The state is read without the lock.
CheckState ==
    /\ databasePc = "check"
    /\ databasePc' = IF databaseState = "terminated" THEN "ended" ELSE "take"
    /\ UNCHANGED <<databaseState, tasks, held, executed, databaseWoken, accepted>>

TakeQuery ==
    /\ databasePc = "take"
    /\ \/ Pop("database") /\ databasePc' = "run"
       \/ tasks = <<>> /\ databasePc' = "wait" /\ UNCHANGED <<tasks, held>>
    /\ UNCHANGED <<databaseState, executed, databaseWoken, accepted>>

WakeDatabase ==
    /\ databasePc = "wait"
    /\ \/ Pop("database") /\ databasePc' = "run"
       \/ tasks = <<>> /\ databasePc' = "check" /\ UNCHANGED <<tasks, held>>
    /\ databaseWoken' = FALSE
    /\ UNCHANGED <<databaseState, executed, accepted>>

RunQuery ==
    /\ databasePc = "run"
    /\ Execute("database")
    /\ UNCHANGED <<databaseState, tasks, held, databasePc, databaseWoken, accepted>>

CompleteQuery ==
    /\ databasePc = "run"
    /\ Complete("database")
    /\ databasePc' = "check"
    /\ UNCHANGED <<databaseState, tasks, executed, databaseWoken, accepted>>
=============================================================================
