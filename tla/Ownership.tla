----------------------------- MODULE Ownership -----------------------------
(***************************************************************************)
(* The shared classification of ownership transitions (src/ownership.c):   *)
(* what a release, a replacement or an exec means for a resource that was  *)
(* never seen, is live, or has been released.  Three constant rule tables, *)
(* each total over its states and events, and one lookup per question.     *)
(***************************************************************************)

States == {"never", "live", "released"}

Rule(from, event, to, value) ==
  [from |-> from, event |-> event, to |-> to, value |-> value]

release_rules ==
  { Rule("never",    "release", "never",    "stray"),
    Rule("live",     "release", "released", "ok"),
    Rule("released", "release", "released", "duplicate") }

replace_rules ==
  { Rule(s, "replace_null", "live", "new") : s \in States }
    \cup { Rule("never",    "replace_live", "never",    "bad"),
           Rule("live",     "replace_live", "live",     "ok"),
           Rule("released", "replace_live", "released", "bad") }

exec_rules ==
  { Rule("never",    "exec_close", "never",    FALSE),
    Rule("live",     "exec_close", "released", FALSE),
    Rule("released", "exec_close", "released", FALSE),
    Rule("never",    "exec_keep",  "never",    FALSE),
    Rule("live",     "exec_keep",  "live",     TRUE),
    Rule("released", "exec_keep",  "released", FALSE) }

\* p101_transition_rules_find: the row of the table for a state and an event.
RuleFor(rules, state, event) ==
  CHOOSE row \in rules : row.from = state /\ row.event = event

classify_release(state) == RuleFor(release_rules, state, "release").value

classify_replace(source_is_null, state) ==
  RuleFor(replace_rules, state,
          IF source_is_null THEN "replace_null" ELSE "replace_live").value

exec_inherits(state, close_on_exec) ==
  RuleFor(exec_rules, state,
          IF close_on_exec THEN "exec_close" ELSE "exec_keep").value
=============================================================================
