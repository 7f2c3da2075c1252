-------------------------- MODULE FunctionLifecycle --------------------------
(***************************************************************************)
(* The lifecycle of a Function as gascity/function-lifecycle.ts states it: *)
(* eight states and a table of the transitions the Factory allows.  The    *)
(* module is constant-level; the modules of the Gas City loop use its      *)
(* table both as the guard that assertFunctionTransition applies and as    *)
(* the yardstick for the state a Function record really goes through.      *)
(***************************************************************************)
FunctionState == {"proposed", "specified", "dispatched", "accepted",
                  "rejected", "monitored", "regressed", "retired"}

\* A record that is absent, or that was seeded without a state field.
NoState == "none"

StoredState == FunctionState \cup {NoState}

ALLOWED_FUNCTION_TRANSITIONS ==
  [ proposed   |-> {"specified", "retired"},
    specified  |-> {"dispatched", "retired"},
    dispatched |-> {"accepted", "rejected", "retired"},
    accepted   |-> {"monitored", "retired"},
    rejected   |-> {"retired"},
    monitored  |-> {"regressed", "retired"},
    regressed  |-> {"monitored", "retired"},
    retired    |-> {} ]

\* assertFunctionTransition(from, to): it throws unless this holds.  It is
\* given the state the caller believes the Function to be in, not the
\* stored one.
TransitionAllowed(from, to) == to \in ALLOWED_FUNCTION_TRANSITIONS[from]
=============================================================================
