SPECIFICATION Spec
CONSTANTS
  Threads = {s, t}
  Mutexes = {a}
  Classes = {"held", "mutex", "blocking-operation", "joinable-thread", "terminal-attempt", "other"}
  Unmarked = {}
  MaxNodes = 4
  schedule_limit = 8
SYMMETRY Symmetry
INVARIANT SchedulesLegal
INVARIANT Exhaustive
INVARIANT CounterexampleReplays
CHECK_DEADLOCK FALSE
