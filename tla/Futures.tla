------------------------------ MODULE Futures -------------------------------
(* What threads promise to a script: whoever gets the result of a task gets it after a run of
   the task has ended, and a task runs once, unless requests to start it have overlapped. *)
CONSTANTS Task, Run

VARIABLES
  begun,       \* of each task: its runs
  done,        \* of each task: its runs that have ended
  overlapped,  \* the tasks whose starts have overlapped
  got          \* the tasks whose result somebody has

vars == <<begun, done, overlapped, got>>

Init ==
  /\ begun = [t \in Task |-> {}]
  /\ done = [t \in Task |-> {}]
  /\ overlapped = {}
  /\ got = {}

Overlap(t) ==
  /\ overlapped' = overlapped \cup {t}
  /\ UNCHANGED <<begun, done, got>>

Begin(t, r) ==
  /\ begun[t] = {} \/ t \in overlapped
  /\ \A u \in Task : r \notin begun[u]
  /\ begun' = [begun EXCEPT ![t] = @ \cup {r}]
  /\ UNCHANGED <<done, overlapped, got>>

Finish(t, r) ==
  /\ r \in begun[t] \ done[t]
  /\ done' = [done EXCEPT ![t] = @ \cup {r}]
  /\ UNCHANGED <<begun, overlapped, got>>

Get(t) ==
  /\ done[t] # {}
  /\ got' = got \cup {t}
  /\ UNCHANGED <<begun, done, overlapped>>

Next == \E t \in Task : Overlap(t) \/ Get(t) \/ \E r \in Run : Begin(t, r) \/ Finish(t, r)

Spec == Init /\ [][Next]_vars

=============================================================================
