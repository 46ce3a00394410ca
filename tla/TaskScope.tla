----------------------------- MODULE TaskScope -----------------------------
(***************************************************************************)
(* What the session tree of pkg/session promises its users: structured     *)
(* concurrency.  A task opens its subtasks while it is open, ends only     *)
(* when none of them is open, and enters the outcome of each of them in    *)
(* its journal at most once, when the subtask has ended and not after it   *)
(* has ended itself.  Only an interruption of the whole process lets an    *)
(* outcome be entered before the end of the subtask.                       *)
(***************************************************************************)
CONSTANTS
  Task,      \* every task there may ever be
  Top,       \* the one that is open from the start
  ParentOf   \* the task that opens each other task

VARIABLES
  status,      \* of each task: new, open or ended
  journaled,   \* the tasks whose outcome their parent has in its journal
  interrupted  \* the process has been told to stop

vars == <<status, journaled, interrupted>>

Subtasks(t) == {u \in Task \ {Top} : ParentOf[u] = t}

Init ==
  /\ status = [t \in Task |-> IF t = Top THEN "open" ELSE "new"]
  /\ journaled = {}
  /\ interrupted = FALSE

(* Outcomes that t may enter in its journal now.                           *)
Reportable(t) ==
  {u \in Subtasks(t) \ journaled : status[u] = "ended" \/ interrupted}

Open(t) ==
  /\ t # Top /\ status[t] = "new" /\ status[ParentOf[t]] = "open"
  /\ status' = [status EXCEPT ![t] = "open"]
  /\ UNCHANGED <<journaled, interrupted>>

Journal(t, R) ==
  /\ status[t] = "open" /\ R \subseteq Reportable(t)
  /\ journaled' = journaled \cup R
  /\ UNCHANGED <<status, interrupted>>

End(t, R) ==
  /\ status[t] = "open" /\ R \subseteq Reportable(t)
  /\ \A u \in Subtasks(t) : status[u] # "open"
  /\ status' = [status EXCEPT ![t] = "ended"]
  /\ journaled' = journaled \cup R
  /\ UNCHANGED interrupted

Interrupt ==
  /\ ~interrupted /\ interrupted' = TRUE
  /\ UNCHANGED <<status, journaled>>

Next ==
  \/ \E t \in Task : Open(t)
  \/ \E t \in Task : \E R \in SUBSET Subtasks(t) : Journal(t, R) \/ End(t, R)
  \/ Interrupt

Spec == Init /\ [][Next]_vars

-----------------------------------------------------------------------------
(* No task is open under one that is not: whoever waits for a task has     *)
(* waited for everything it started.                                       *)
Nested ==
  \A t \in Task \ {Top} : status[t] = "open" => status[ParentOf[t]] = "open"
=============================================================================
