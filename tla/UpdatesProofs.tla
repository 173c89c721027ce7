---------------------------- MODULE UpdatesProofs ---------------------------
(***************************************************************************)
(* For any number of places, objects and threads and any width: as long as *)
(* no two threads update an object at the same time, no update of it is    *)
(* lost and its freeze counter is not negative.                            *)
(*                                                                         *)
(* UpdatesAddUp is not inductive: what a thread has read may be old, and a *)
(* defrost that passed its test may find the counter at zero.  Neither can *)
(* happen to an object that is not raced, since two threads that update    *)
(* the same integer are always seen by the one that begins last.           *)
(***************************************************************************)
EXTENDS Updates, TLAPS

\* What a thread has read of an object is what the object still holds.
ReadIsCurrent ==
  \A t \in Thread :
    /\ pending[t].stage = "read"
    /\ pending[t].cell \notin raced
    => pending[t].value = IF pending[t].field = "number" THEN number[pending[t].cell]
                          ELSE frozen[pending[t].cell]

\* Two threads that update the same integer are a race.
RacesAreSeen ==
  \A t, u \in Thread : \A c \in Cell, field \in Fields :
    t # u /\ Updating(t, c, field) /\ Updating(u, c, field) => c \in raced

\* A change of the counter that is under way leaves it at zero or above.
DefrostsAreCovered ==
  \A t \in Thread :
    /\ pending[t].stage \in {"ready", "read"}
    /\ pending[t].field = "frozen"
    /\ pending[t].cell \notin raced
    => frozen[pending[t].cell] + pending[t].amount >= 0

\* What a thread is about to write to a counter is within the bound.
WritesAreBounded ==
  \A t \in Thread :
    pending[t].stage = "read" /\ pending[t].field = "frozen"
      => pending[t].value + pending[t].amount \in Counters

IInv ==
  /\ TypeOK
  /\ UpdatesAddUp
  /\ ReadIsCurrent
  /\ RacesAreSeen
  /\ DefrostsAreCovered
  /\ WritesAreBounded

Steps ==
  {Idle} \cup [stage : {"holding"}, cell : Cell]
         \cup [stage : {"ready"}, cell : Cell, field : Fields, amount : Int]
         \cup [stage : {"read"}, cell : Cell, field : Fields, amount : Int, value : Int]

-----------------------------------------------------------------------------
\* An Integer is within its width whatever is computed for it.
LEMMA WrappedInWidth == \A value \in Int : value % Width \in 0 .. Width - 1
  BY ConstantAssumption

\* The initial states.
LEMMA InitInv == Init => IInv
<1> SUFFICES ASSUME Init PROVE IInv
  OBVIOUS
<1>1. 0 \in 0 .. Width - 1 /\ 0 \in Counters
  BY ConstantAssumption DEF Counters
<1>2. TypeOK
  BY <1>1 DEF Init, TypeOK
<1>3. UpdatesAddUp
  BY DEF Init, UpdatesAddUp
<1>4. ReadIsCurrent /\ RacesAreSeen /\ DefrostsAreCovered /\ WritesAreBounded
  BY DEF Init, ReadIsCurrent, RacesAreSeen, DefrostsAreCovered, WritesAreBounded, Updating, Idle
<1> QED
  BY <1>2, <1>3, <1>4 DEF IInv

\* Steps that leave the objects and what threads are doing as they are.
LEMMA ShareInv == ASSUME IInv, NEW q \in Place, NEW r \in Place, Share(q, r) PROVE IInv'
<1>1. TypeOK'
  BY DEF IInv, TypeOK, Share
<1>2. (UpdatesAddUp /\ ReadIsCurrent /\ RacesAreSeen /\ DefrostsAreCovered /\ WritesAreBounded)'
  BY DEF IInv, Share, UpdatesAddUp, ReadIsCurrent, RacesAreSeen, DefrostsAreCovered,
         WritesAreBounded, Updating
<1> QED
  BY <1>1, <1>2 DEF IInv

\* A clone is in memory that no thread is updating.
LEMMA AssignInv ==
  ASSUME IInv, NEW q \in Place, NEW r \in Place, NEW c \in Cell, Assign(q, r, c) PROVE IInv'
<1>1. \A t \in Thread : pending[t].stage # "idle" => pending[t].cell # c
  BY DEF Assign, Held
<1>2. /\ \A d \in Cell \ {c} : number'[d] = number[d] /\ frozen'[d] = frozen[d] /\ due'[d] = due[d]
      /\ frozen'[c] = 0 /\ due'[c] = [number |-> number'[c], frozen |-> 0]
      /\ pending' = pending /\ raced' = raced \ {c}
  BY DEF IInv, TypeOK, Assign
<1>3. TypeOK'
  <2>1. 0 \in Counters /\ refers[r] \in Cell
    BY ConstantAssumption DEF Counters, IInv, TypeOK
  <2> QED
    BY <2>1 DEF IInv, TypeOK, Assign
<1>4. UpdatesAddUp'
  BY <1>2 DEF IInv, UpdatesAddUp
<1>5. \A t \in Thread : pending[t] \in Steps
  BY DEF IInv, TypeOK, Steps
<1>6. ReadIsCurrent' /\ DefrostsAreCovered' /\ WritesAreBounded'
  BY <1>1, <1>2, <1>5
     DEF IInv, ReadIsCurrent, DefrostsAreCovered, WritesAreBounded, Steps, Idle
<1>7. RacesAreSeen'
  BY <1>1, <1>2 DEF IInv, RacesAreSeen, Updating
<1> QED
  BY <1>3, <1>4, <1>6, <1>7 DEF IInv

\* A thread that updates nothing holds an element.
LEMMA HoldElementInv ==
  ASSUME IInv, NEW t \in Thread, NEW q \in Place, HoldElement(t, q) PROVE IInv'
<1>1. /\ pending'[t] = Holding(refers[q])
      /\ \A u \in Thread \ {t} : pending'[u] = pending[u]
      /\ UNCHANGED <<refers, number, frozen, due, raced>>
  BY DEF HoldElement, IInv, TypeOK
<1>2. TypeOK'
  BY DEF IInv, TypeOK, HoldElement, Holding
<1>3. (UpdatesAddUp /\ ReadIsCurrent /\ RacesAreSeen /\ DefrostsAreCovered /\ WritesAreBounded)'
  BY <1>1 DEF IInv, UpdatesAddUp, ReadIsCurrent, RacesAreSeen, DefrostsAreCovered,
         WritesAreBounded, Updating, Holding
<1> QED
  BY <1>2, <1>3 DEF IInv

\* A thread begins an update: the race, if there is one, is seen.
LEMMA BeginInv ==
  ASSUME IInv, NEW t \in Thread, NEW c \in Cell, NEW field \in Fields, NEW amount \in Int,
         Begin(t, c, field, amount),
         field = "frozen" /\ c \notin raced => frozen[c] + amount >= 0
  PROVE  IInv'
<1>1. /\ pending'[t] = Ready(c, field, amount)
      /\ \A u \in Thread \ {t} : pending'[u] = pending[u]
      /\ UNCHANGED <<refers, number, frozen, due>>
  BY DEF Begin, IInv, TypeOK
<1>2. /\ raced \subseteq raced' /\ raced' \subseteq raced \cup {c}
      /\ \A u \in Thread \ {t} : Updating(u, c, field) => c \in raced'
  BY DEF Begin
<1>3. TypeOK'
  BY <1>1, <1>2 DEF IInv, TypeOK, Begin, Ready
<1>4. UpdatesAddUp'
  BY <1>1, <1>2 DEF IInv, UpdatesAddUp
<1>5. ReadIsCurrent' /\ WritesAreBounded'
  BY <1>1, <1>2 DEF IInv, ReadIsCurrent, WritesAreBounded, Ready
<1>6. DefrostsAreCovered'
  BY <1>1, <1>2 DEF IInv, DefrostsAreCovered, Ready
<1>7. RacesAreSeen'
  BY <1>1, <1>2 DEF IInv, RacesAreSeen, Updating, Ready
<1> QED
  BY <1>3, <1>4, <1>5, <1>6, <1>7 DEF IInv

\* A thread reads: at that moment it has what the object holds.
LEMMA ReadInv == ASSUME IInv, NEW t \in Thread, Read(t) PROVE IInv'
<1> DEFINE p == pending[t]
           value == IF p.field = "number" THEN number[p.cell] ELSE frozen[p.cell]
<1>1. p \in [stage : {"ready"}, cell : Cell, field : Fields, amount : Int]
  BY DEF IInv, TypeOK, Read, Idle
<1>2. value \in Int
  BY <1>1, ConstantAssumption DEF IInv, TypeOK, Counters, Fields
<1>3. /\ pending'[t] = HasRead(p, value)
      /\ \A u \in Thread \ {t} : pending'[u] = pending[u]
      /\ UNCHANGED <<refers, number, frozen, due, raced>>
  BY DEF Read, IInv, TypeOK
<1>4. TypeOK'
  BY <1>1, <1>2 DEF IInv, TypeOK, Read, HasRead
<1>5. UpdatesAddUp'
  BY <1>3 DEF IInv, UpdatesAddUp
<1>6. ReadIsCurrent'
  BY <1>3 DEF IInv, ReadIsCurrent, HasRead
<1>7. WritesAreBounded'
  BY <1>1, <1>3 DEF IInv, WritesAreBounded, HasRead, Read, Fields
<1>8. DefrostsAreCovered'
  BY <1>1, <1>3 DEF IInv, DefrostsAreCovered, HasRead
<1>9. RacesAreSeen'
  BY <1>1, <1>3 DEF IInv, RacesAreSeen, Updating, HasRead
<1> QED
  BY <1>4, <1>5, <1>6, <1>7, <1>8, <1>9 DEF IInv

\* A thread writes: what it had read was current unless the object is raced, and
\* nobody else is updating the same integer of an object that is not.
LEMMA WriteInv == ASSUME IInv, NEW t \in Thread, Write(t) PROVE IInv'
<1> DEFINE p == pending[t]
           c == p.cell
<1>1. p \in [stage : {"read"}, cell : Cell, field : Fields, amount : Int, value : Int]
  BY DEF IInv, TypeOK, Write, Idle
<1>2. /\ pending'[t] = Idle
      /\ \A u \in Thread \ {t} : pending'[u] = pending[u]
      /\ UNCHANGED <<refers, raced>>
  BY DEF Write, IInv, TypeOK
<1>3. \A u \in Thread \ {t} : c \notin raced => ~Updating(u, c, p.field)
  BY <1>1 DEF IInv, RacesAreSeen, Updating
<1>4. c \notin raced => p.value = IF p.field = "number" THEN number[c] ELSE frozen[c]
  BY <1>1 DEF IInv, ReadIsCurrent
<1>5. RacesAreSeen'
  BY <1>2 DEF IInv, RacesAreSeen, Updating, Idle
<1>6. WritesAreBounded'
  BY <1>2 DEF IInv, WritesAreBounded, Idle
<1>7. CASE p.field = "number"
  <2>1. /\ number' = [number EXCEPT ![c] = (p.value + p.amount) % Width]
        /\ due' = [due EXCEPT ![c].number = IF c \in raced THEN number'[c] ELSE (@ + p.amount) % Width]
        /\ frozen' = frozen
    BY <1>7 DEF Write, Wrapped
  <2>2. /\ number'[c] = (p.value + p.amount) % Width
        /\ due'[c].frozen = due[c].frozen
        /\ due'[c].number = IF c \in raced THEN number'[c] ELSE (due[c].number + p.amount) % Width
        /\ \A d \in Cell \ {c} : number'[d] = number[d] /\ due'[d] = due[d]
    BY <1>1, <2>1 DEF IInv, TypeOK
  <2>3. (p.value + p.amount) % Width \in 0 .. Width - 1
    BY <1>1, WrappedInWidth
  <2>4. c \in Cell \ raced => due[c].number = number[c]
    BY DEF IInv, UpdatesAddUp
  <2>5. due'[c].number = number'[c]
    BY <1>1, <1>4, <1>7, <2>2, <2>4
  <2>6. number' \in [Cell -> 0 .. Width - 1]
    BY <1>1, <2>1, <2>3 DEF IInv, TypeOK
  <2>7. due' \in [Cell -> [number : 0 .. Width - 1, frozen : Counters]]
    <3>1. (IF c \in raced THEN number'[c] ELSE (due[c].number + p.amount) % Width) \in 0 .. Width - 1
      BY <1>1, <2>2, <2>3, <2>5
    <3> QED
      BY <1>1, <2>1, <3>1 DEF IInv, TypeOK
  <2>8. TypeOK'
    BY <1>1, <2>6, <2>7, <2>1 DEF IInv, TypeOK, Write
  <2>9. UpdatesAddUp'
    BY <1>1, <1>2, <2>1, <2>2, <2>5 DEF IInv, UpdatesAddUp
  <2>10. ReadIsCurrent'
    BY <1>2, <1>3, <1>7, <2>1, <2>2 DEF IInv, ReadIsCurrent, Updating, Idle, TypeOK
  <2>11. DefrostsAreCovered'
    BY <1>2, <2>1 DEF IInv, DefrostsAreCovered, Idle
  <2> QED
    BY <1>5, <1>6, <2>8, <2>9, <2>10, <2>11 DEF IInv
<1>8. CASE p.field = "frozen"
  <2>1. /\ frozen' = [frozen EXCEPT ![c] = p.value + p.amount]
        /\ due' = [due EXCEPT ![c].frozen = IF c \in raced THEN frozen'[c] ELSE @ + p.amount]
        /\ number' = number
    BY <1>8 DEF Write
  <2>2. /\ frozen'[c] = p.value + p.amount
        /\ due'[c].number = due[c].number
        /\ due'[c].frozen = IF c \in raced THEN frozen'[c] ELSE due[c].frozen + p.amount
        /\ \A d \in Cell \ {c} : frozen'[d] = frozen[d] /\ due'[d] = due[d]
    BY <1>1, <2>1 DEF IInv, TypeOK
  <2>3. p.value + p.amount \in Counters
    BY <1>1, <1>8 DEF IInv, WritesAreBounded
  <2>4. c \in Cell \ raced => due[c].frozen = frozen[c] /\ frozen[c] + p.amount >= 0
    BY <1>1, <1>8 DEF IInv, UpdatesAddUp, DefrostsAreCovered
  <2>5. due'[c].frozen = frozen'[c] /\ (c \notin raced => frozen'[c] >= 0)
    BY <1>1, <1>4, <1>8, <2>2, <2>4
  <2>6. frozen' \in [Cell -> Counters]
    BY <1>1, <2>1, <2>3 DEF IInv, TypeOK
  <2>7. due' \in [Cell -> [number : 0 .. Width - 1, frozen : Counters]]
    <3>1. (IF c \in raced THEN frozen'[c] ELSE due[c].frozen + p.amount) \in Counters
      BY <1>1, <2>2, <2>3, <2>5
    <3> QED
      BY <1>1, <2>1, <3>1 DEF IInv, TypeOK
  <2>8. TypeOK'
    BY <1>1, <2>6, <2>7, <2>1 DEF IInv, TypeOK, Write
  <2>9. UpdatesAddUp'
    BY <1>1, <1>2, <2>1, <2>2, <2>5 DEF IInv, UpdatesAddUp
  <2>10. ReadIsCurrent'
    BY <1>2, <1>3, <1>8, <2>1, <2>2 DEF IInv, ReadIsCurrent, Updating, Idle, TypeOK, Fields
  <2>11. DefrostsAreCovered'
    BY <1>2, <1>3, <1>8, <2>1, <2>2 DEF IInv, DefrostsAreCovered, Updating, Idle, TypeOK
  <2> QED
    BY <1>5, <1>6, <2>8, <2>9, <2>10, <2>11 DEF IInv
<1> QED
  BY <1>1, <1>7, <1>8 DEF Fields

\* Every step keeps the invariant.
LEMMA NextInv == IInv /\ [Next]_vars => IInv'
<1> SUFFICES ASSUME IInv, [Next]_vars PROVE IInv'
  OBVIOUS
<1>1. \A q \in Place : refers[q] \in Cell
  BY DEF IInv, TypeOK
<1>2. \A c \in Cell : frozen[c] \in Int
  BY ConstantAssumption DEF IInv, TypeOK, Counters
<1>3. CASE UNCHANGED vars
  BY <1>3 DEF vars, IInv, TypeOK, UpdatesAddUp, ReadIsCurrent, RacesAreSeen, DefrostsAreCovered,
              WritesAreBounded, Updating
<1>4. ASSUME NEW q \in Place, NEW r \in Place, Share(q, r) PROVE IInv'
  BY <1>4, ShareInv
<1>5. ASSUME NEW q \in Place, NEW r \in Place, NEW c \in Cell, Assign(q, r, c) PROVE IInv'
  BY <1>5, AssignInv
<1>6. ASSUME NEW t \in Thread, NEW q \in Place, HoldElement(t, q) PROVE IInv'
  BY <1>6, HoldElementInv
<1>7. ASSUME NEW t \in Thread, NEW q \in Place, freeze(t, q) PROVE IInv'
  <2>1. refers[q] \notin raced => frozen[refers[q]] + 1 >= 0
    BY <1>1, <1>2 DEF IInv, UpdatesAddUp
  <2> QED
    BY <1>1, <1>7, <2>1, BeginInv DEF freeze, Fields
<1>8. ASSUME NEW t \in Thread, NEW q \in Place, defrost(t, q) PROVE IInv'
  <2>1. frozen[refers[q]] + (-1) >= 0
    BY <1>1, <1>2, <1>8 DEF defrost, MayDefrost
  <2> QED
    BY <1>1, <1>8, <2>1, BeginInv DEF defrost, Fields
<1>9. ASSUME NEW t \in Thread, NEW q \in Place, NEW amount \in 1 .. Width - 1,
             OpAssign(t, q, amount)
      PROVE  IInv'
  BY <1>1, <1>9, BeginInv, ConstantAssumption DEF OpAssign, Fields
<1>10. ASSUME NEW t \in Thread, NEW amount \in 1 .. Width - 1, IndexOpAssign(t, amount)
       PROVE  IInv'
  <2>1. pending[t].cell \in Cell
    BY <1>10 DEF IndexOpAssign, IInv, TypeOK, Idle
  <2> QED
    BY <1>10, <2>1, BeginInv, ConstantAssumption DEF IndexOpAssign, Fields
<1>11. ASSUME NEW t \in Thread, Read(t) PROVE IInv'
  BY <1>11, ReadInv
<1>12. ASSUME NEW t \in Thread, Write(t) PROVE IInv'
  BY <1>12, WriteInv
<1> QED
  BY <1>3, <1>4, <1>5, <1>6, <1>7, <1>8, <1>9, <1>10, <1>11, <1>12 DEF Next

-----------------------------------------------------------------------------
\* The inductive invariant of the in-place updates (evalOpInteger, freeze and
\* defrost of the interpreter).
THEOREM Invariance == Spec => []IInv
<1>1. Init => IInv
  BY InitInv
<1>2. IInv /\ [Next]_vars => IInv'
  BY NextInv
<1> QED
  BY <1>1, <1>2, PTL DEF Spec

\* Integers keep their width, counters their bound and pending updates their
\* shape (Object.h, evalOpInteger).
THEOREM TypeCorrect == Spec => []TypeOK
<1>1. IInv => TypeOK
  BY DEF IInv
<1> QED
  BY <1>1, Invariance, PTL

\* No update by `+=`, freeze or defrost is lost, and no counter is negative, of
\* an object that no two threads have updated at the same time.
THEOREM NoUpdateIsLost == Spec => []UpdatesAddUp
<1>1. IInv => UpdatesAddUp
  BY DEF IInv
<1> QED
  BY <1>1, Invariance, PTL

=============================================================================
