--------------------------- MODULE TaskThreadsInv ---------------------------
(***************************************************************************)
(* The inductive invariants behind the properties of TaskThreads.          *)
(***************************************************************************)
EXTENDS TaskThreads

\* A timer event that Lua knows was neither stopped nor called.
TimersKnown == timerEvents \cap (stopped \cup called) = {} /\ StoppedTimersStaySilent

\* What two threads that drain one queue rely on: no query was accepted twice, and
\* only queries that were taken have been run.
EachQueryOnce ==
    /\ \A i, j \in 1..Len(accepted) : accepted[i] = accepted[j] => i = j
    /\ \A q \in executed : \E i \in 1..Taken : accepted[i] = q
    /\ QueriesStartInOrder

-----------------------------------------------------------------------------
(* The shutdown                                                            *)

\* All that the dispatcher has still to run, the running task first.
Pending == batch \o taskList

\* The calls a task may have before it, by the task that makes them.
SaveBody == <<"flush">>
Stop1 == ShutdownCalls
Stop2 == <<"addShutdown", "stop">>
Stop3 == <<"stop">>
End1 == EndCalls
End2 == <<"endDatabase", "flush", "notifyDatabase", "endDispatcher", "closeLua">>
End3 == <<"flush", "notifyDatabase", "endDispatcher", "closeLua">>
End4 == <<"notifyDatabase", "endDispatcher", "closeLua">>
End5 == <<"endDispatcher", "closeLua">>
End6 == <<"closeLua">>

StopBodies == {Stop1, Stop2, Stop3}
EndBodies  == {End1, End2, End3, End4, End5, End6}

\* setGameState runs while the dispatcher takes tasks, Game::shutdown once it does not.
BodyFitsState ==
    /\ body \in {<<>>, SaveBody} \cup StopBodies \cup EndBodies
    /\ body \in StopBodies => dispatcherState = "running" /\ gameState = "shutdown"
    /\ body \in EndBodies => dispatcherState = "closing" /\ Pending[1] = GameShutdown

\* The phases of the dispatcher and of the database thread.
StatesFit ==
    /\ dispatcherState = "running" =>
          /\ databaseState # "terminated"
          /\ gameState = "shutdown" => body \in StopBodies
    /\ gameState = "normal" => dispatcherState = "running"
    /\ body \in {End3, End4, End5, End6} => databaseState = "terminated"
    /\ body \in {End4, End5, End6} => tasks = <<>>

\* Game::shutdown is run at most once, ...
OneShutdown ==
    /\ \A i \in 1..Len(Pending) : Pending[i] = GameShutdown => dispatcherState # "running" \/ body = Stop3
    /\ \A i, j \in 1..Len(Pending) : Pending[i] = GameShutdown /\ Pending[j] = GameShutdown => i = j

\* ... so that one terminator is pushed, and stays behind every other task: by then the
\* queue of queries is empty for good.
TerminatorIsLast ==
    \A i \in 1..Len(Pending) : Pending[i] = Terminator =>
        /\ i = Len(Pending)
        /\ dispatcherState = "closing" /\ databaseState = "terminated" /\ tasks = <<>>
        /\ \A j \in 1..Len(Pending) : Pending[j] = GameShutdown => j = 1 /\ body = End6

FlushIsACall == held["dispatcher"] # NoQuery => body # <<>> /\ Head(body) = "flush"

EndedIsEmpty ==
    /\ dispatcherPc = "ended" => dispatcherState = "terminated"
    /\ dispatcherState = "terminated" =>
          Pending = <<>> /\ body = <<>> /\ tasks = <<>> /\ databaseState = "terminated"

ShutdownInv ==
    BodyFitsState /\ StatesFit /\ OneShutdown /\ TerminatorIsLast /\ FlushIsACall /\ EndedIsEmpty
=============================================================================
