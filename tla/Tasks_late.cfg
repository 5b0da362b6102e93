\* Does a task run after Lua was closed?
SPECIFICATION Spec
CONSTANTS
  Queries = {q1, q2}
  NoQuery = NoQuery
  Events = {e1}
  NoEvent = NoEvent
  WithCallback = {q1}
  MaxPosts = 2
\* The threads end with the shutdown, or sleep when no task comes any more.
CHECK_DEADLOCK FALSE
INVARIANT NothingRunsAfterLua
