\* Two queries, a save and a shutdown, with a timer event that a script may stop.
SPECIFICATION FairSpec
CONSTANTS
  Queries = {q1, q2}
  NoQuery = NoQuery
  Events = {e1}
  NoEvent = NoEvent
  WithCallback = {q1}
  MaxPosts = 5
\* The threads end with the shutdown, or sleep when no task comes any more.
CHECK_DEADLOCK FALSE
INVARIANTS
  TypeOK
  NobodySleepsOverWork
  QueriesStartInOrder
  NothingLeftBehind
  StoppedTimersStaySilent
PROPERTIES
  AcceptedQueriesRun
  AnswersComeBack
  ShutdownEnds
