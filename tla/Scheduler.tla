----------------------------- MODULE Scheduler -----------------------------
(***************************************************************************)
(* g_scheduler (scheduler.cpp): timers on an io_context of one thread.     *)
(* Whatever other threads ask for is a handler in its queue; a timer that  *)
(* is due queues one as well, and from then on cannot be cancelled.        *)
(***************************************************************************)
EXTENDS Sequences

CONSTANTS
    Events,         \* the events the program may add, each once
    NoEvent

VARIABLES
    schedulerState, \* threadState
    handlers,       \* the queue of the io_context
    timers,         \* eventIdTimerMap
    schedulerEnded  \* io_context.run() returned

schedulerVars == <<schedulerState, handlers, timers, schedulerEnded>>

Handler(op, e) == [op |-> op, event |-> e]

SchedulerInit ==
    /\ schedulerState = "running"
    /\ handlers = <<>>
    /\ timers = {}
    /\ schedulerEnded = FALSE

AddEvent(e)  == handlers' = Append(handlers, Handler("arm", e))
StopEvent(e) == handlers' = Append(handlers, Handler("cancel", e))

Due(e) == \E i \in DOMAIN handlers : handlers[i] = Handler("due", e)

\* The time of e has come.
Expire(e) ==
    /\ e \in timers /\ ~Due(e) /\ ~schedulerEnded
    /\ handlers' = Append(handlers, Handler("due", e))
    /\ UNCHANGED <<schedulerState, timers, schedulerEnded>>

\* The thread runs the first handler, unless that hands a task over.
RunHandler ==
    /\ handlers # <<>> /\ ~schedulerEnded
    /\ LET h == Head(handlers) IN
       \/ h.op = "arm"    /\ timers' = timers \cup {h.event} /\ UNCHANGED schedulerEnded
       \/ h.op = "cancel" /\ timers' = (IF Due(h.event) THEN timers ELSE timers \ {h.event})
                          /\ UNCHANGED schedulerEnded
       \/ h.op = "due"    /\ schedulerState = "terminated"
                          /\ timers' = timers \ {h.event} /\ UNCHANGED schedulerEnded
       \/ h.op = "stop"   /\ timers' = {} /\ schedulerEnded' = TRUE
    /\ handlers' = Tail(handlers)
    /\ UNCHANGED schedulerState

\* A timer that ran out: the event's task is due for the dispatcher.
HandOver(e) ==
    /\ handlers # <<>> /\ ~schedulerEnded
    /\ Head(handlers) = Handler("due", e) /\ schedulerState # "terminated"
    /\ timers' = timers \ {e}
    /\ handlers' = Tail(handlers)
    /\ UNCHANGED <<schedulerState, schedulerEnded>>

\* Scheduler::shutdown
StopHandlers ==
    /\ schedulerState' = "terminated"
    /\ handlers' = Append(handlers, Handler("stop", NoEvent))
=============================================================================
