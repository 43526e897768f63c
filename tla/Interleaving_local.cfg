SPECIFICATION Spec
CONSTANTS
  Threads = {s, t}
  Mutexes = {a}
  Classes = {"held", "mutex", "blocking-operation", "joinable-thread", "terminal-attempt", "other"}
  Unmarked = {"blocking-operation", "joinable-thread", "terminal-attempt"}
  MaxNodes = 4
  schedule_limit = 8
SYMMETRY Symmetry
INVARIANT LocalOrderKept
CHECK_DEADLOCK FALSE
