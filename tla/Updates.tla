------------------------------- MODULE Updates ------------------------------
(***************************************************************************)
(* In-place updates from several threads (evalOpAssignmentOperator and     *)
(* evalIndexOpAssignmentExpression of Evaluator.cpp, freeze and defrost of *)
(* builtin/Freeze.cpp): the places a program names, the objects they refer *)
(* to, and the two plain integers of an object, its value and its freeze   *)
(* counter.                                                                *)
(*                                                                         *)
(* `x += e` evaluates e, then looks x up and changes the object in place;  *)
(* `a[i] += e` looks the element up first, and holds its object while e    *)
(* runs.  `x = e` puts a clone in the place.  An argument is another name  *)
(* of the object.  Reading the integer and writing it are two steps of the *)
(* machine, and nothing locks.                                             *)
(***************************************************************************)
EXTENDS Integers, FiniteSets

CONSTANTS
  Place,      \* variables, arguments and slots of arrays
  Cell,       \* bound: the objects alive at the same time
  Thread,     \* the threads that run statements
  Width,      \* bound: the value of an Integer is 0 .. Width - 1 and wraps around
  MaxFrozen   \* bound: how far the freeze counter of an object is from zero

ASSUME ConstantAssumption ==
  /\ IsFiniteSet(Thread) /\ IsFiniteSet(Cell)
  /\ Width \in Nat \ {0} /\ MaxFrozen \in Nat

VARIABLES
  refers,   \* the object that each place refers to
  number,   \* Integer::value of each object
  frozen,   \* Object::frozen of each object
  pending,  \* what each thread is in the middle of
  due,      \* history: what the updates that finished make of the value and the counter
  raced     \* history: the objects whose integers two threads updated at the same time

vars == <<refers, number, frozen, pending, due, raced>>

\* Bound: races can drive a counter as far below zero as they like.
Counters == -MaxFrozen .. MaxFrozen

Fields == {"number", "frozen"}
Idle == [stage |-> "idle"]
Holding(c) == [stage |-> "holding", cell |-> c]
\* A thread that is about to read, and one that has read, the integer it changes.
Ready(c, field, amount) == [stage |-> "ready", cell |-> c, field |-> field, amount |-> amount]
HasRead(p, value) ==
  [stage |-> "read", cell |-> p.cell, field |-> p.field, amount |-> p.amount, value |-> value]

Updating(t, c, field) ==
  pending[t].stage \in {"ready", "read"} /\ pending[t].cell = c /\ pending[t].field = field

Named == {refers[q] : q \in Place}
Held(t) == IF pending[t].stage = "idle" THEN {} ELSE {pending[t].cell}

Init ==
  /\ refers \in [Place -> Cell]
  /\ number = [c \in Cell |-> 0]
  /\ frozen = [c \in Cell |-> 0]
  /\ pending = [t \in Thread |-> Idle]
  /\ due = [c \in Cell |-> [number |-> 0, frozen |-> 0]]
  /\ raced = {}

-----------------------------------------------------------------------------
\* `q = e` and `a[i] = e`, for an e that gives the object of place r: a clone,
\* which is not frozen, in memory that nothing refers to.
Assign(q, r, c) ==
  /\ c \notin Named \cup UNION {Held(t) : t \in Thread}
  /\ refers' = [refers EXCEPT ![q] = c]
  /\ number' = [number EXCEPT ![c] = number[refers[r]]]
  /\ frozen' = [frozen EXCEPT ![c] = 0]
  /\ due' = [due EXCEPT ![c] = [number |-> number[refers[r]], frozen |-> 0]]
  /\ raced' = raced \ {c}
  /\ UNCHANGED pending

\* An argument, a loop's element, or the element of a literal: another name.
Share(q, r) ==
  /\ refers' = [refers EXCEPT ![q] = refers[r]]
  /\ UNCHANGED <<number, frozen, pending, due, raced>>

Begin(t, c, field, amount) ==
  /\ pending' = [pending EXCEPT ![t] = Ready(c, field, amount)]
  /\ raced' = IF \E u \in Thread \ {t} : Updating(u, c, field) THEN raced \cup {c} ELSE raced
  /\ UNCHANGED <<refers, number, frozen, due>>

\* evalOpAssignmentOperator, with the value of the right side.
OpAssign(t, q, amount) ==
  /\ pending[t] = Idle
  /\ Begin(t, refers[q], "number", amount)

\* evalIndexOpAssignmentExpression: the element, then the right side, and then
\* the update of the element it had found.
HoldElement(t, q) ==
  /\ pending[t] = Idle
  /\ pending' = [pending EXCEPT ![t] = Holding(refers[q])]
  /\ UNCHANGED <<refers, number, frozen, due, raced>>

IndexOpAssign(t, amount) ==
  /\ pending[t].stage = "holding"
  /\ Begin(t, pending[t].cell, "number", amount)

freeze(t, q) ==
  /\ pending[t] = Idle
  /\ Begin(t, refers[q], "frozen", 1)

\* A mutant: the counter is decremented whatever it is.
MayDefrostAlways(c) == TRUE
MayDefrost(c) == frozen[c] > 0

defrost(t, q) ==
  /\ pending[t] = Idle
  /\ MayDefrost(refers[q])
  /\ Begin(t, refers[q], "frozen", -1)

Read(t) ==
  /\ pending[t].stage = "ready"
  /\ pending[t].field = "frozen" => frozen[pending[t].cell] + pending[t].amount \in Counters
  /\ LET p == pending[t]
     IN pending' = [pending EXCEPT ![t] =
          HasRead(p, IF p.field = "number" THEN number[p.cell] ELSE frozen[p.cell])]
  /\ UNCHANGED <<refers, number, frozen, due, raced>>

Wrapped(value) == value % Width

Write(t) ==
  /\ pending[t].stage = "read"
  /\ LET p == pending[t]
         c == p.cell
     IN IF p.field = "number"
        THEN /\ number' = [number EXCEPT ![c] = Wrapped(p.value + p.amount)]
             /\ due' = [due EXCEPT ![c].number = IF c \in raced THEN number'[c] ELSE (@ + p.amount) % Width]
             /\ UNCHANGED frozen
        ELSE /\ frozen' = [frozen EXCEPT ![c] = p.value + p.amount]
             /\ due' = [due EXCEPT ![c].frozen = IF c \in raced THEN frozen'[c] ELSE @ + p.amount]
             /\ UNCHANGED number
  /\ pending' = [pending EXCEPT ![t] = Idle]
  /\ UNCHANGED <<refers, raced>>

-----------------------------------------------------------------------------
\* A thread that is not in the middle of an update runs statements, within the
\* right side of an element's update too.
Next ==
  \/ /\ \E t \in Thread : pending[t].stage \in {"idle", "holding"}
     /\ \E q, r \in Place : Share(q, r) \/ \E c \in Cell : Assign(q, r, c)
  \/ \E t \in Thread :
       \/ \E q \in Place : \/ HoldElement(t, q) \/ freeze(t, q) \/ defrost(t, q)
                           \/ \E amount \in 1 .. Width - 1 : OpAssign(t, q, amount)
       \/ \E amount \in 1 .. Width - 1 : IndexOpAssign(t, amount)
       \/ Read(t) \/ Write(t)

Spec == Init /\ [][Next]_vars

-----------------------------------------------------------------------------
\* Objects, places and pending steps are as declared.  A counter can be negative:
\* two defrosts that race pass the test on the same value.
TypeOK ==
  /\ refers \in [Place -> Cell]
  /\ number \in [Cell -> 0 .. Width - 1]
  /\ frozen \in [Cell -> Counters]
  /\ pending \in [Thread ->
       {Idle} \cup [stage : {"holding"}, cell : Cell]
              \cup [stage : {"ready"}, cell : Cell, field : Fields, amount : Int]
              \cup [stage : {"read"}, cell : Cell, field : Fields, amount : Int, value : Int]]
  /\ due \in [Cell -> [number : 0 .. Width - 1, frozen : Counters]]
  /\ raced \subseteq Cell

\* The integers of an object that no two threads updated at the same time are
\* what the updates add up to, under every name of the object and whatever
\* the right side of an element's update did; its counter is not negative.
UpdatesAddUp ==
  \A c \in Cell \ raced :
    number[c] = due[c].number /\ frozen[c] = due[c].frozen /\ frozen[c] >= 0

=============================================================================
