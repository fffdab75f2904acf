--------------------------------- MODULE Gate ---------------------------------
(* What a verification run promises: every check that it is asked for is       *)
(* settled once, and it says "ready" only when all are settled and none failed. *)
EXTENDS Naturals, FiniteSets

CONSTANT Suites   \* the sets of checks that a run may be asked for

VARIABLES
  due,       \* checks still to be settled
  failures,  \* checks that have failed
  verdict    \* "idle", "none" (not yet), "ready", "failed" or "interrupted"

vars == <<due, failures, verdict>>

Init == due = {} /\ failures = {} /\ verdict = "idle"

Begin(S) ==
  /\ verdict # "none"
  /\ due' = S /\ failures' = {} /\ verdict' = "none"

Refuse ==
  /\ verdict # "none"
  /\ due' = {} /\ failures' = {} /\ verdict' = "failed"

Pass(c) ==
  /\ verdict = "none" /\ c \in due
  /\ due' = due \ {c}
  /\ UNCHANGED <<failures, verdict>>

(* A failure may end the run at once.                                          *)
Fail(c) ==
  /\ verdict = "none" /\ c \in due
  /\ due' = due \ {c}
  /\ failures' = failures \cup {c}
  /\ verdict' \in {"none", "failed"}

Decide ==
  /\ verdict = "none" /\ due = {}
  /\ verdict' = IF failures = {} THEN "ready" ELSE "failed"
  /\ UNCHANGED <<due, failures>>

GiveUp ==
  /\ verdict = "none"
  /\ verdict' = "interrupted"
  /\ UNCHANGED <<due, failures>>

Next ==
  \/ \E S \in Suites : Begin(S)
  \/ Refuse
  \/ \E c \in due : Pass(c) \/ Fail(c)
  \/ Decide
  \/ GiveUp

Spec == Init /\ [][Next]_vars
=============================================================================
