-------------------------- MODULE EvaluatorProofs --------------------------
(***************************************************************************)
(* For any script, any number of objects and any depth of the stack: an    *)
(* error or exit with nothing to swallow it ends the program, a scope that *)
(* is left through its end has destructed what it alone referred to, and   *)
(* no destructor is called again.                                          *)
(*                                                                         *)
(* None of these is inductive.  DoomIsFinal says nothing of the frames a   *)
(* failure has still to pass, nor of one that is set aside while a         *)
(* destructor runs: Carried does.  ScopeCleansUp looks at a scope when it  *)
(* has been cleaned: Visited says of the variables looked at so far what   *)
(* it says of all of them.  DestructedStays needs that no constructor is   *)
(* running for an object that has been destructed.                         *)
(***************************************************************************)
EXTENDS Evaluator, TLAPS

Faults == {"none", "null pointer", "dangling"}

\* What a loop that asks waits for.
Awaited == {"operand", "element"}

\* Of the frames: who has an object, and what a frame that waits waits for.
ShapeOf(st) ==
  \A i \in DOMAIN st :
    /\ st[i].kind \in {"method", "construct", "destructor"} => st[i].obj \in Obj
    /\ st[i].mode = "asks" => /\ st[i].kind = "loop"
                              /\ i < Len(st) => st[i + 1].kind \in Awaited
    /\ st[i].mode = "cleans" =>
         /\ st[i].kind \in {"scope", "if", "loop", "call", "method", "construct"}
         /\ i < Len(st) => st[i + 1].kind = "destructor"
         /\ st[i].kind = "construct" => st[i].saved # Just("error")
    /\ st[i].kind = "destructor" => /\ st[i].mode = "runs"
                                    /\ i > 1
                                    /\ st[i - 1].mode = "cleans"

\* Only variables there are have still to be looked at.
VisitsOf(st) == \A i \in DOMAIN st : \A o \in Obj : st[i].visit[o] <= st[i].held[o]

\* There is a return statement among the frames from i + 1 to t of st.
ReturnAbove(st, i, t) == \E k \in i + 1..t : st[k].kind = "return"
TwoReturnsAbove(st, i, t) ==
  \E j, k \in i + 1..t : j # k /\ st[j].kind = "return" /\ st[k].kind = "return"

\* The failure v, which the t-th frame of st is about to pass on, ends the program.
Carried(st, t, v) ==
  /\ Failure(v)
  /\ \A i \in 1..t :
       /\ st[i].kind \notin {"try", "element"}
       /\ st[i].kind \in {"let", "operand", "construct"}
            => v = Just("error") /\ ~ReturnAbove(st, i, t)
       /\ st[i].kind = "destructor"
            => /\ v.returns = 0 \/ (v.returns = 1 /\ ~ReturnAbove(st, i, t))
               /\ ~TwoReturnsAbove(st, i, t)

\* What leaves the innermost frame.
Leaving(st, r) == IF st[Len(st)].mode = "cleans" THEN st[Len(st)].saved ELSE r

\* It is the value that leaves the program, or the innermost frame, or, while a
\* destructor runs, the frame that is cleaned.
DoomOf(st, r) ==
  \/ st = << >> /\ Failure(r)
  \/ /\ st # << >> /\ Carried(st, Len(st), Leaving(st, r))
     /\ st[Len(st)].mode = "asks" => r = Just("error")
  \/ \E d \in DOMAIN st : /\ d > 1 /\ st[d].kind = "destructor"
                          /\ Carried(st, d - 1, st[d - 1].saved)

\* Only one variable of the i-th frame refers to o, and nothing else does.
IsSole(st, kp, r, i, o) == st[i].held[o] = 1 /\ OnlyOne(st, kp, r, o)

\* An object that only one variable has referred to since its scope's end is that
\* variable's only, and if it has been looked at its destructor has been called.
SolesOf(st, kp, r) == \A i \in DOMAIN st : \A o \in st[i].sole : IsSole(st, kp, r, i, o)

VisitedOf(st, kp, r, lf) ==
  \A i \in DOMAIN st : \A o \in st[i].sole :
    IsSole(st, kp, r, i, o) /\ st[i].mode = "cleans" /\ st[i].visit[o] = 0
      => \/ lf[o] \notin {"alive", "destructing"}
         \/ i < Len(st) /\ st[i + 1].kind = "destructor" /\ st[i + 1].obj = o

\* Constructors run for objects under construction, each for its own.
ConstructionOf(st, lf) ==
  /\ \A i \in DOMAIN st :
       /\ st[i].kind = "construct" => lf[st[i].obj] = "constructing"
       /\ st[i].kind = "destructor" => lf[st[i].obj] \notin {"unborn", "constructing"}
  /\ \A i, j \in DOMAIN st :
       st[i].kind = "construct" /\ st[j].kind = "construct" /\ st[i].obj = st[j].obj => i = j

Shape == ShapeOf(stack)
Visits == VisitsOf(stack)
Doom == doomed => DoomOf(stack, result)
Soles == SolesOf(stack, kept, result)
Visited == VisitedOf(stack, kept, result, life)
Construction == ConstructionOf(stack, life)

IInv ==
  /\ TypeOK
  /\ Shape
  /\ Visits
  /\ Doom
  /\ Soles
  /\ Visited
  /\ Construction

-----------------------------------------------------------------------------
(* Frames and stacks. *)

\* f is g, but for its variables, its closures and the value it sets aside while it runs.
SameControl(f, g) ==
  /\ f.kind = g.kind /\ f.mode = g.mode /\ f.obj = g.obj
  /\ g.mode = "runs" \/ f.saved = g.saved

SameFrame(f, g) ==
  /\ SameControl(f, g)
  /\ f.held = g.held /\ f.visit = g.visit /\ f.sole = g.sole

\* f is g, but that it may have other variables, of which none has been looked at.
SameCounts(f, g) ==
  /\ SameControl(f, g) /\ f.sole = g.sole
  /\ \A o \in Obj : f.held[o] = 1 /\ g.held[o] = 1 => f.visit[o] = g.visit[o]

\* Frames that differ in what runs in them alone have the same variables.
LEMMA SameFrames ==
  ASSUME NEW f, NEW g, SameFrame(f, g)
  PROVE  SameControl(f, g) /\ SameCounts(f, g)
  BY DEF SameFrame, SameCounts

\* What the model makes of values are values.
LEMMA Values ==
  /\ Nothing \in Value
  /\ \A v \in Plain \cup Obj : Just(v) \in Value
  /\ \A r \in Value : Unwrapped(r) \in Value
<1>1. 0 \in 0..MaxReturns
  BY ConstantAssumption
<1>2. \A v \in Plain \cup Obj : Just(v) \in Value
  BY <1>1 DEF Just, Value
<1>3. Nothing \in Value
  BY <1>2 DEF Nothing, Plain
<1>4. \A r \in Value : Unwrapped(r) \in Value
  BY ConstantAssumption DEF Unwrapped, Value
<1> QED
  BY <1>2, <1>3, <1>4

\* No variables at all.
LEMMA EmptyType == Empty \in [Obj -> 0..MaxHeld]
  BY ConstantAssumption DEF Empty

\* No variables, none of them to be looked at.
LEMMA EmptyCounts == \A o \in Obj : Empty[o] <= Empty[o]
  BY DEF Empty

\* A new frame is a frame.
LEMMA NewFrames ==
  ASSUME NEW k \in Kinds, NEW outer \in Nat, NEW o \in Obj \cup {NoObj}
  PROVE  NewFrame(k, outer, o) \in Frame
  BY Values, EmptyType DEF NewFrame, Frame

\* The frames below the innermost.
LEMMA Lower ==
  ASSUME NEW n \in 0..Depth, stack \in Seq(Frame)
  PROVE  /\ SubSeq(stack, 1, n) \in Seq(Frame)
         /\ Len(SubSeq(stack, 1, n)) = n
         /\ \A i \in 1..n : SubSeq(stack, 1, n)[i] = stack[i]
  BY DEF Depth

\* The innermost frame.
LEMMA Tops ==
  ASSUME stack \in Seq(Frame), stack # << >>
  PROVE  Depth \in Nat /\ Depth > 0 /\ Top \in Frame /\ Top = stack[Depth]
  BY DEF Depth, Top

\* The innermost frame is replaced, and no other.
LEMMA Replaced ==
  ASSUME NEW f \in Frame, stack \in Seq(Frame), stack # << >>
  PROVE  /\ Append(Below, f) \in Seq(Frame)
         /\ Len(Append(Below, f)) = Depth
         /\ \A i \in 1..Depth - 1 : Append(Below, f)[i] = stack[i]
         /\ Append(Below, f)[Depth] = f
<1>1. Depth \in Nat /\ Depth > 0
  BY Tops
<1>2. Below \in Seq(Frame) /\ Len(Below) = Depth - 1 /\ \A i \in 1..Depth - 1 : Below[i] = stack[i]
  BY <1>1, Lower DEF Below
<1> QED
  BY <1>1, <1>2

\* A frame that goes on keeps its variables.
LEMMA ResumedFrames ==
  ASSUME NEW st \in Seq(Frame)
  PROVE  /\ Resumed(st) \in Seq(Frame)
         /\ Len(Resumed(st)) = Len(st)
         /\ \A i \in DOMAIN st : SameFrame(Resumed(st)[i], st[i])
<1>1. CASE st = << >> \/ st[Len(st)].mode # "runs"
  BY <1>1 DEF Resumed, SameFrame, SameControl
<1>2. CASE ~(st = << >> \/ st[Len(st)].mode # "runs")
  <2> DEFINE f == [st[Len(st)] EXCEPT !.saved = Nothing]
  <2>1. Len(st) \in DOMAIN st /\ st[Len(st)] \in Frame
    BY <1>2
  <2>2. f \in Frame /\ SameFrame(f, st[Len(st)])
    BY <1>2, <2>1, Values DEF Frame, SameFrame, SameControl
  <2>3. Resumed(st) = [st EXCEPT ![Len(st)] = f]
    BY <1>2 DEF Resumed
  <2> HIDE DEF f
  <2> QED
    BY <2>1, <2>2, <2>3 DEF SameFrame, SameControl
<1> QED
  BY <1>1, <1>2

\* So does one that sets a value aside while another frame runs.
LEMMA SuspendedFrames ==
  ASSUME stack \in Seq(Frame), stack # << >>, result \in Value
  PROVE  /\ Suspended \in Seq(Frame)
         /\ Len(Suspended) = Depth
         /\ \A i \in 1..Depth : SameFrame(Suspended[i], stack[i])
<1>1. CASE ~(Top.mode = "runs" /\ result.of \in Obj)
  BY <1>1 DEF Suspended, Depth, SameFrame, SameControl
<1>2. CASE Top.mode = "runs" /\ result.of \in Obj
  <2> DEFINE f == [Top EXCEPT !.saved = result]
  <2>1. f \in Frame /\ SameFrame(f, Top)
    BY <1>2, Tops DEF Frame, SameFrame, SameControl
  <2>2. Suspended = [stack EXCEPT ![Depth] = f]
    BY <1>2 DEF Suspended, Top
  <2> HIDE DEF f
  <2> QED
    BY <2>1, <2>2, Tops DEF SameFrame, SameControl, Depth
<1> QED
  BY <1>1, <1>2

\* A frame on top of the stack, which has been suspended or not.
LEMMA Pushed ==
  ASSUME NEW f \in Frame, stack \in Seq(Frame), stack # << >>, result \in Value,
         NEW s \in {Suspended, stack}
  PROVE  /\ Append(s, f) \in Seq(Frame)
         /\ Len(Append(s, f)) = Depth + 1
         /\ \A i \in 1..Depth : SameFrame(Append(s, f)[i], stack[i])
         /\ Append(s, f)[Depth + 1] = f
<1>1. s \in Seq(Frame) /\ Len(s) = Depth /\ \A i \in 1..Depth : SameFrame(s[i], stack[i])
  BY SuspendedFrames DEF Depth, SameFrame, SameControl
<1>2. Append(s, f) \in Seq(Frame) /\ Len(Append(s, f)) = Depth + 1 /\ Append(s, f)[Depth + 1] = f
  BY <1>1
<1>3. ASSUME NEW i \in 1..Depth PROVE SameFrame(Append(s, f)[i], stack[i])
  <2>1. Append(s, f)[i] = s[i]
    BY <1>1
  <2> QED
    BY <1>1, <2>1
<1> QED
  BY <1>2, <1>3

-----------------------------------------------------------------------------
(* What the end of every step does. *)

\* f is g, but for its history.
SettledFrame(f, g) ==
  /\ f.kind = g.kind /\ f.mode = g.mode /\ f.obj = g.obj /\ f.saved = g.saved
  /\ f.held = g.held /\ f.visit = g.visit /\ f.sole \subseteq g.sole

\* Nothing of an object that has been destructed, or freed, is alive again.
Stays(lf, before) ==
  \A o \in Obj : before[o] \in {"destructed", "freed"} => lf[o] \in {"destructed", "freed"}

\* The end of a step: who referred to nothing is freed or lost, and the rest keeps its type.
LEMMA SettleTypes ==
  ASSUME NEW st \in Seq(Frame), NEW r \in Value, NEW lf \in [Obj -> Lives],
         NEW kp \in [Obj -> 0..MaxHeld], fault \in Faults, Settle(st, r, lf, kp)
  PROVE  /\ stack' \in Seq(Frame) /\ Len(stack') = Len(st)
         /\ \A i \in 1..Len(st) : SettledFrame(stack'[i], st[i])
         /\ \A i \in 1..Len(st) : \A o \in stack'[i].sole : IsSole(st, kp, r, i, o)
         /\ result' = r /\ kept' = kp
         /\ life' \in [Obj -> Lives] /\ fault' \in Faults
<1> DEFINE F(i) == [st[i] EXCEPT !.sole = {o \in @ : st[i].held[o] = 1 /\ OnlyOne(st, kp, r, o)}]
<1>1. ASSUME NEW i \in 1..Len(st)
      PROVE  /\ F(i) \in Frame /\ SettledFrame(F(i), st[i])
             /\ \A o \in F(i).sole : IsSole(st, kp, r, i, o)
  <2>1. st[i] \in Frame
    OBVIOUS
  <2> DEFINE sole == {o \in st[i].sole : st[i].held[o] = 1 /\ OnlyOne(st, kp, r, o)}
  <2>2. F(i) = [st[i] EXCEPT !.sole = sole] /\ sole \in SUBSET Obj /\ sole \subseteq st[i].sole
    BY <2>1 DEF Frame
  <2>3. \A o \in sole : IsSole(st, kp, r, i, o)
    BY DEF IsSole
  <2> HIDE DEF sole, F
  <2> QED
    BY <2>1, <2>2, <2>3 DEF Frame, SettledFrame
<1>2. stack' = [i \in 1..Len(st) |-> F(i)]
  BY DEF Settle
<1> HIDE DEF F
<1>3. stack' \in Seq(Frame) /\ Len(stack') = Len(st) /\ \A i \in 1..Len(st) : stack'[i] = F(i)
  BY <1>1, <1>2
<1>4. life' \in [Obj -> Lives] /\ fault' \in Faults /\ result' = r /\ kept' = kp
  BY DEF Settle, Lives, Faults
<1> QED
  BY <1>1, <1>3, <1>4

\* Who refers to what does not depend on the history.
LEMMA SettledReferences ==
  ASSUME NEW st, NEW kp, NEW r, NEW o, NEW su, DOMAIN su = DOMAIN st,
         \A i \in DOMAIN st : SettledFrame(su[i], st[i])
  PROVE  /\ References(su, kp, r, o) = References(st, kp, r, o)
         /\ OnlyOne(su, kp, r, o) <=> OnlyOne(st, kp, r, o)
<1>1. \A i \in DOMAIN st : /\ su[i].kind = st[i].kind /\ su[i].obj = st[i].obj
                           /\ su[i].saved = st[i].saved /\ su[i].held = st[i].held
  BY DEF SettledFrame
<1>2. {{<<"variable", i, k>> : k \in 1..su[i].held[o]} : i \in DOMAIN su}
       = {{<<"variable", i, k>> : k \in 1..st[i].held[o]} : i \in DOMAIN st}
  BY <1>1
<1>3. {i \in DOMAIN su : su[i].obj = o /\ su[i].kind # "destructor"}
       = {i \in DOMAIN st : st[i].obj = o /\ st[i].kind # "destructor"}
  BY <1>1
<1>4. {i \in DOMAIN su : su[i].saved.of = o} = {i \in DOMAIN st : st[i].saved.of = o}
  BY <1>1
<1>5. {j \in {i \in DOMAIN su : su[i].obj = o /\ su[i].kind # "destructor"} : su[j].kind # "call"}
       = {j \in {i \in DOMAIN st : st[i].obj = o /\ st[i].kind # "destructor"} : st[j].kind # "call"}
  BY <1>1
<1>6. References(su, kp, r, o) = References(st, kp, r, o)
  BY <1>2, <1>3, <1>4, <1>5 DEF References
<1> QED
  BY <1>6 DEF OnlyOne

\* The state a step is about to leave, before it is settled.
Ready(st, r, lf, kp, d) ==
  /\ st \in Seq(Frame) /\ r \in Value /\ lf \in [Obj -> Lives] /\ kp \in [Obj -> 0..MaxHeld]
  /\ d \in BOOLEAN /\ (d => DoomOf(st, r))
  /\ ShapeOf(st) /\ VisitsOf(st)
  /\ VisitedOf(st, kp, r, lf) /\ ConstructionOf(st, lf)
  /\ Stays(lf, life)

\* What matters of the frames below t to a failure that passes them.
LEMMA CarriedSame ==
  ASSUME NEW st, NEW su, NEW t, NEW v, Carried(st, t, v),
         \A i \in 1..t : su[i].kind = st[i].kind, t \in Nat
  PROVE  Carried(su, t, v)
<1>1. \A i \in 1..t : ReturnAbove(su, i, t) => ReturnAbove(st, i, t)
  BY DEF ReturnAbove
<1>2. \A i \in 1..t : TwoReturnsAbove(su, i, t) => TwoReturnsAbove(st, i, t)
  BY DEF TwoReturnsAbove
<1> QED
  BY <1>1, <1>2 DEF Carried

\* Only what nothing refers to is freed or lost.
LEMMA SettleLives ==
  ASSUME NEW st, NEW r, NEW lf \in [Obj -> Lives], NEW kp, Settle(st, r, lf, kp), NEW o \in Obj
  PROVE  \/ life'[o] = lf[o]
         \/ /\ References(st, kp, r, o) = {}
            /\ life'[o] = "freed" \/ (life'[o] = "lost" /\ lf[o] \in {"alive", "destructing"})
            /\ lf[o] # "unborn"
  BY DEF Settle

\* A step that is about to leave a state of the invariant leaves one.
LEMMA SettleInv ==
  ASSUME NEW st, NEW r, NEW lf, NEW kp, fault \in Faults,
         Settle(st, r, lf, kp), Ready(st, r, lf, kp, doomed')
  PROVE  IInv' /\ Stays(life', life)
<1> USE DEF Ready
<1>0. /\ stack' \in Seq(Frame) /\ Len(stack') = Len(st)
      /\ \A i \in 1..Len(st) : SettledFrame(stack'[i], st[i])
      /\ \A i \in 1..Len(st) : \A o \in stack'[i].sole : IsSole(st, kp, r, i, o)
      /\ result' = r /\ kept' = kp
      /\ life' \in [Obj -> Lives] /\ fault' \in Faults
  BY SettleTypes
<1>1. TypeOK'
  BY <1>0 DEF TypeOK, Faults
<1>2. DOMAIN stack' = 1..Len(st) /\ DOMAIN st = 1..Len(st) /\ Len(st) \in Nat
  BY <1>0
<1>3. \A i \in 1..Len(st) :
        /\ stack'[i].kind = st[i].kind /\ stack'[i].mode = st[i].mode /\ stack'[i].obj = st[i].obj
        /\ stack'[i].saved = st[i].saved /\ stack'[i].held = st[i].held
        /\ stack'[i].visit = st[i].visit /\ stack'[i].sole \subseteq st[i].sole
  BY <1>0 DEF SettledFrame
<1>4. ASSUME NEW o PROVE OnlyOne(stack', kp, r, o) <=> OnlyOne(st, kp, r, o)
  BY <1>0, <1>2, SettledReferences
<1>5. \A i \in 1..Len(st), o \in Obj : IsSole(stack', kp, r, i, o) <=> IsSole(st, kp, r, i, o)
  BY <1>3, <1>4 DEF IsSole
<1>6. ASSUME NEW i \in 1..Len(st), NEW o \in stack'[i].sole PROVE o \in Obj /\ o \in st[i].sole
  <2>1. st[i] \in Frame
    OBVIOUS
  <2>2. st[i].sole \in SUBSET Obj
    BY <2>1 DEF Frame
  <2> QED
    BY <1>3, <2>2
<1>7. ASSUME NEW o \in Obj
       PROVE  life'[o] = lf[o] \/ life'[o] = "freed" \/ life'[o] = "lost"
  BY SettleLives
<1>8. Shape'
  <2> SUFFICES ShapeOf(stack')
    BY DEF Shape
  <2> SUFFICES ASSUME NEW i \in 1..Len(st)
               PROVE  ShapeOf(stack')!(i)
    BY <1>2 DEF ShapeOf
  <2>1. ShapeOf(st)!(i)
    BY <1>2 DEF ShapeOf
  <2>2. i < Len(st) => i + 1 \in 1..Len(st)
    BY <1>2
  <2>3. i > 1 => i - 1 \in 1..Len(st)
    BY <1>2
  <2> QED
    BY <2>1, <2>2, <2>3, <1>0, <1>2, <1>3
<1>9. Visits'
  BY <1>0, <1>2, <1>3 DEF Visits, VisitsOf
<1>10. Doom'
  <2> SUFFICES ASSUME doomed' PROVE DoomOf(stack', r)
    BY <1>0 DEF Doom
  <2>1. CASE st = << >> /\ Failure(r)
    BY <2>1, <1>0 DEF DoomOf
  <2>2. CASE /\ st # << >> /\ Carried(st, Len(st), Leaving(st, r))
             /\ st[Len(st)].mode = "asks" => r = Just("error")
    <3>1. Len(st) \in 1..Len(st) /\ stack' # << >>
      BY <2>2, <1>0
    <3>2. Leaving(stack', r) = Leaving(st, r)
      BY <3>1, <1>0, <1>3 DEF Leaving
    <3>3. Carried(stack', Len(st), Leaving(st, r))
      BY <2>2, <1>2, <1>3, CarriedSame
    <3> QED
      BY <2>2, <3>1, <3>2, <3>3, <1>0, <1>3 DEF DoomOf
  <2>3. ASSUME NEW d \in DOMAIN st, d > 1, st[d].kind = "destructor",
               Carried(st, d - 1, st[d - 1].saved)
        PROVE  DoomOf(stack', r)
    <3>1. d \in 1..Len(st) /\ d - 1 \in 1..Len(st) /\ d - 1 \in Nat
      BY <2>3, <1>2
    <3>2. Carried(stack', d - 1, st[d - 1].saved)
      BY <2>3, <3>1, <1>3, CarriedSame
    <3> QED
      BY <2>3, <3>1, <3>2, <1>2, <1>3 DEF DoomOf
  <2> QED
    BY <2>1, <2>2, <2>3 DEF DoomOf
<1>11. Soles'
  BY <1>0, <1>2, <1>5, <1>6 DEF Soles, SolesOf
<1>12. Visited'
  <2>1. ASSUME NEW i \in 1..Len(st), NEW o \in stack'[i].sole, IsSole(st, kp, r, i, o),
               st[i].mode = "cleans", st[i].visit[o] = 0
        PROVE  \/ life'[o] \notin {"alive", "destructing"}
               \/ i < Len(st) /\ st[i + 1].kind = "destructor" /\ st[i + 1].obj = o
    <3>1. o \in Obj /\ o \in st[i].sole
      BY <1>6
    <3>2. \/ lf[o] \notin {"alive", "destructing"}
          \/ i < Len(st) /\ st[i + 1].kind = "destructor" /\ st[i + 1].obj = o
      BY <2>1, <3>1, <1>2 DEF VisitedOf
    <3>3. life'[o] = lf[o] \/ life'[o] = "freed" \/ life'[o] = "lost"
      BY <3>1, <1>7
    <3> QED
      BY <3>2, <3>3
  <2> QED
    <3>1. Visited' = VisitedOf(stack', kp, r, life')
      BY <1>0 DEF Visited
    <3>2. ASSUME NEW i \in 1..Len(st), NEW o \in stack'[i].sole, IsSole(stack', kp, r, i, o),
                 stack'[i].mode = "cleans", stack'[i].visit[o] = 0
          PROVE  \/ life'[o] \notin {"alive", "destructing"}
                 \/ i < Len(stack') /\ stack'[i + 1].kind = "destructor" /\ stack'[i + 1].obj = o
      <4>1. i < Len(st) => i + 1 \in 1..Len(st)
        BY <1>2
      <4>2. IsSole(st, kp, r, i, o)
        BY <3>2, <1>5, <1>6
      <4>3. st[i].mode = "cleans" /\ st[i].visit[o] = 0
        BY <3>2, <1>3
      <4>4. \/ life'[o] \notin {"alive", "destructing"}
            \/ i < Len(st) /\ st[i + 1].kind = "destructor" /\ st[i + 1].obj = o
        BY <2>1, <4>2, <4>3
      <4> QED
        BY <4>1, <4>4, <1>0, <1>3
    <3> QED
      BY <3>1, <3>2, <1>2 DEF VisitedOf
<1>13. Construction'
  <2>1. ASSUME NEW i \in 1..Len(st), st[i].kind = "construct"
        PROVE  life'[st[i].obj] = "constructing"
    <3>1. st[i].obj \in Obj /\ lf[st[i].obj] = "constructing"
      BY <2>1, <1>2 DEF ShapeOf, ConstructionOf
    <3>2. <<"this", i, 0>> \in References(st, kp, r, st[i].obj)
      BY <2>1, <1>2 DEF References
    <3> QED
      BY <3>1, <3>2, SettleLives
  <2>2. ASSUME NEW i \in 1..Len(st), st[i].kind = "destructor"
        PROVE  life'[st[i].obj] \notin {"unborn", "constructing"}
    <3>1. st[i].obj \in Obj /\ lf[st[i].obj] \notin {"unborn", "constructing"}
      BY <2>2, <1>2 DEF ShapeOf, ConstructionOf
    <3>2. \/ life'[st[i].obj] = lf[st[i].obj]
          \/ life'[st[i].obj] = "freed"
          \/ life'[st[i].obj] = "lost"
      <4>1. lf \in [Obj -> Lives]
        BY DEF Ready
      <4>2. st[i].obj \in Obj
        BY <3>1
      <4> DEFINE o == st[i].obj
      <4> HIDE DEF o, Ready
      <4>3. life'[o] = lf[o] \/ life'[o] = "freed" \/ life'[o] = "lost"
        BY <4>1, <4>2, SettleLives DEF o
      <4> QED
        BY <4>3 DEF o
    <3> QED
      BY <3>1, <3>2
  <2> QED
    BY <2>1, <2>2, <1>2, <1>3 DEF Construction, ConstructionOf
<1>14. Stays(life', life)
  BY SettleLives DEF Stays
<1> QED
  BY <1>1, <1>8, <1>9, <1>10, <1>11, <1>12, <1>13, <1>14 DEF IInv

-----------------------------------------------------------------------------
(* A step changes the innermost frame, adds one or drops one.  Each part of *)
(* the invariant holds of the stack that remains if it holds of its top.    *)

\* The m frames of st are those of the stack, but the last.
Upto(st, m) ==
  /\ st \in Seq(Frame) /\ Len(st) = m /\ m \in 1..Depth + 1
  /\ \A i \in 1..m - 1 : SameControl(st[i], stack[i])

\* What is asked of the last one, f.
TopFits(f, m) ==
  /\ f.kind \in {"method", "construct", "destructor"} => f.obj \in Obj
  /\ f.mode = "asks" => f.kind = "loop"
  /\ f.mode = "cleans" =>
       /\ f.kind \in {"scope", "if", "loop", "call", "method", "construct"}
       /\ f.kind = "construct" => f.saved # Just("error")
  /\ f.kind = "destructor" => f.mode = "runs" /\ m > 1 /\ stack[m - 1].mode = "cleans"
  /\ m > 1 /\ stack[m - 1].mode = "asks" => f.kind \in Awaited
  /\ m > 1 /\ stack[m - 1].mode = "cleans" => f.kind = "destructor"

\* The stack and its depth.
LEMMA Lengths ==
  ASSUME stack \in Seq(Frame)
  PROVE  Depth \in Nat /\ Depth = Len(stack) /\ DOMAIN stack = 1..Depth
  BY DEF Depth

\* The stack after a step that changes the m-th frame.
LEMMA UptoLengths ==
  ASSUME stack \in Seq(Frame), NEW st, NEW m, Upto(st, m)
  PROVE  /\ Depth \in Nat /\ Depth = Len(stack) /\ DOMAIN stack = 1..Depth
         /\ m \in 1..Depth + 1 /\ DOMAIN st = 1..m /\ Len(st) = m
<1>1. Depth \in Nat /\ Depth = Len(stack) /\ DOMAIN stack = 1..Depth
  BY Lengths
<1>2. st \in Seq(Frame) /\ Len(st) = m /\ m \in 1..Depth + 1
  BY DEF Upto
<1>3. DOMAIN st = 1..m
  BY <1>2
<1> QED
  BY <1>1, <1>2, <1>3

\* If the innermost frame has the shape it must have, so has the stack.
LEMMA ShapeStep ==
  ASSUME TypeOK, Shape, NEW st, NEW m, Upto(st, m), TopFits(st[m], m)
  PROVE  ShapeOf(st)
<1>1. /\ Depth \in Nat /\ Depth = Len(stack) /\ DOMAIN stack = 1..Depth
      /\ m \in 1..Depth + 1 /\ DOMAIN st = 1..m /\ Len(st) = m
  BY UptoLengths DEF TypeOK
<1> SUFFICES ASSUME NEW i \in 1..m PROVE ShapeOf(st)!(i)
  BY <1>1 DEF ShapeOf
<1>2. CASE i = m
  <2>1. m > 1 => m - 1 \in 1..m - 1 /\ st[m - 1].mode = stack[m - 1].mode
    BY <1>1 DEF Upto, SameControl
  <2> QED
    BY <1>1, <1>2, <2>1 DEF TopFits
<1>3. CASE i < m
  <2>1. i \in 1..m - 1 /\ i \in 1..Depth /\ i + 1 \in 1..m
    BY <1>1, <1>3
  <2>2. ShapeOf(stack)!(i)
    BY <1>1, <2>1 DEF Shape, ShapeOf
  <2>3. SameControl(st[i], stack[i])
    BY <2>1 DEF Upto
  <2>4. i > 1 => i - 1 \in 1..m - 1 /\ st[i - 1].mode = stack[i - 1].mode
    BY <2>1, <1>1 DEF Upto, SameControl
  <2>5. CASE i + 1 < m
    <3>1. i + 1 \in 1..m - 1 /\ i < Depth /\ st[i + 1].kind = stack[i + 1].kind
      BY <2>1, <2>5, <1>1 DEF Upto, SameControl
    <3> QED
      BY <1>1, <2>1, <2>2, <2>3, <2>4, <3>1 DEF SameControl
  <2>6. CASE i + 1 = m
    <3>1. m > 1 /\ m - 1 = i
      BY <2>1, <2>6, <1>1
    <3>2. /\ stack[i].mode = "asks" => st[i + 1].kind \in Awaited
          /\ stack[i].mode = "cleans" => st[i + 1].kind = "destructor"
      BY <3>1, <2>6 DEF TopFits
    <3> QED
      BY <1>1, <2>1, <2>2, <2>3, <2>4, <3>2 DEF SameControl
  <2> QED
    BY <2>1, <2>5, <2>6, <1>1
<1> QED
  BY <1>1, <1>2, <1>3

\* A frame of the stack fits in its place.
LEMMA FrameFits ==
  ASSUME TypeOK, Shape, NEW m \in 1..Depth, NEW f, SameControl(f, stack[m])
  PROVE  TopFits(f, m)
<1>1. Depth \in Nat /\ DOMAIN stack = 1..Depth /\ Depth = Len(stack)
  BY Lengths DEF TypeOK
<1>2. ShapeOf(stack)!(m)
  BY <1>1 DEF Shape, ShapeOf
<1>3. m > 1 => /\ m - 1 \in 1..Depth /\ m - 1 < Len(stack) /\ (m - 1) + 1 = m
               /\ ShapeOf(stack)!(m - 1)
  BY <1>1 DEF Shape, ShapeOf
<1> QED
  BY <1>2, <1>3 DEF TopFits, SameControl

\* A failure that is set aside while a destructor runs stays so.
LEMMA DoomBelow ==
  ASSUME TypeOK, Shape, NEW st, NEW m, Upto(st, m), NEW r, NEW d \in 2..Depth, d <= m,
         stack[d].kind = "destructor", Carried(stack, d - 1, stack[d - 1].saved),
         st[d].kind = "destructor"
  PROVE  DoomOf(st, r)
<1>0. /\ Depth \in Nat /\ Depth = Len(stack) /\ DOMAIN stack = 1..Depth
      /\ m \in 1..Depth + 1 /\ DOMAIN st = 1..m
  BY UptoLengths DEF TypeOK
<1>1. d \in 1..m /\ d - 1 \in 1..m - 1 /\ d - 1 \in Nat
  BY <1>0
<1>2. stack[d - 1].mode = "cleans"
  BY <1>0, <1>1 DEF Shape, ShapeOf
<1>3. \A i \in 1..d - 1 : i \in 1..m - 1 /\ st[i].kind = stack[i].kind
  BY <1>0, <1>1 DEF Upto, SameControl
<1>4. st[d - 1].saved = stack[d - 1].saved
  BY <1>1, <1>2 DEF Upto, SameControl
<1>5. Carried(st, d - 1, st[d - 1].saved)
  BY <1>1, <1>3, <1>4, CarriedSame
<1>6. d \in DOMAIN st /\ d > 1
  BY <1>0, <1>1
<1> QED
  BY <1>5, <1>6 DEF DoomOf

\* An object in a variable and in flight has two references.
LEMMA InFlightIsShared ==
  ASSUME NEW st, NEW kp, NEW r, NEW i \in DOMAIN st, NEW o, IsSole(st, kp, r, i, o)
  PROVE  r.of # o
<1> SUFFICES ASSUME r.of = o PROVE FALSE
  OBVIOUS
<1>1. st[i].held[o] = 1 /\ OnlyOne(st, kp, r, o)
  BY DEF IsSole
<1>2. <<"variable", i, 1>> \in References(st, kp, r, o)
  BY <1>1 DEF References
<1>3. <<"result", 0, 0>> \in References(st, kp, r, o)
  BY DEF References
<1>4. <<"variable", i, 1>> # <<"result", 0, 0>>
  OBVIOUS
<1> QED
  BY <1>1, <1>2, <1>3, <1>4 DEF OnlyOne

\* Nothing becomes alive but an object in flight.
Born(lf, r) ==
  \A o \in Obj : lf[o] \in {"alive", "destructing"} => life[o] \in {"alive", "destructing"} \/ r.of = o

\* A step that leaves scopes under cleaning alone keeps what is known of their variables.
LEMMA VisitedStep ==
  ASSUME IInv, NEW st, NEW m, Upto(st, m), NEW kp, NEW r, NEW lf, Born(lf, r),
         \A i \in 1..m - 1 : SameCounts(st[i], stack[i]),
         m > 1 /\ stack[m - 1].mode = "cleans" => m <= Depth /\ SameControl(st[m], stack[m]),
         \A o \in st[m].sole :
           st[m].mode = "cleans" /\ st[m].visit[o] = 0 => lf[o] \notin {"alive", "destructing"}
  PROVE  VisitedOf(st, kp, r, lf)
<1>1. /\ stack \in Seq(Frame) /\ st \in Seq(Frame)
      /\ Depth \in Nat /\ Depth = Len(stack) /\ DOMAIN stack = 1..Depth
      /\ m \in 1..Depth + 1 /\ DOMAIN st = 1..m /\ Len(st) = m
  BY UptoLengths DEF IInv, TypeOK, Upto
<1> SUFFICES ASSUME NEW i \in 1..m, NEW o \in st[i].sole, IsSole(st, kp, r, i, o),
                    st[i].mode = "cleans", st[i].visit[o] = 0
             PROVE  \/ lf[o] \notin {"alive", "destructing"}
                    \/ i < m /\ st[i + 1].kind = "destructor" /\ st[i + 1].obj = o
  BY <1>1 DEF VisitedOf
<1>2. CASE i = m
  BY <1>2
<1>3. CASE i < m
  <2>1. i \in 1..m - 1 /\ i \in DOMAIN stack /\ i + 1 \in 1..m
    BY <1>1, <1>3
  <2>2. SameCounts(st[i], stack[i])
    BY <2>1
  <2>3. o \in stack[i].sole /\ stack[i].mode = "cleans"
    BY <2>2 DEF SameCounts, SameControl
  <2>4. stack[i] \in Frame
    BY <1>1, <2>1
  <2>5. o \in Obj
    BY <2>3, <2>4 DEF Frame
  <2>6. IsSole(stack, kept, result, i, o) /\ stack[i].visit[o] = 0
    <3>1. IsSole(stack, kept, result, i, o)
      BY <2>1, <2>3 DEF IInv, Soles, SolesOf
    <3> QED
      BY <2>2, <2>5, <3>1 DEF SameCounts, IsSole
  <2>7. \/ life[o] \notin {"alive", "destructing"}
        \/ i < Depth /\ stack[i + 1].kind = "destructor" /\ stack[i + 1].obj = o
    BY <1>1, <2>1, <2>3, <2>6 DEF IInv, Visited, VisitedOf
  <2>8. r.of # o
    BY <1>1, InFlightIsShared
  <2>9. CASE life[o] \notin {"alive", "destructing"}
    BY <2>5, <2>8, <2>9 DEF Born
  <2>10. CASE i < Depth /\ stack[i + 1].kind = "destructor" /\ stack[i + 1].obj = o
    <3>1. SameControl(st[i + 1], stack[i + 1])
      <4>1. CASE i + 1 < m
        <5>1. i + 1 \in 1..m - 1
          BY <1>1, <2>1, <4>1
        <5> QED
          BY <5>1 DEF SameCounts
      <4>2. CASE i + 1 = m
        <5>1. m > 1 /\ m - 1 = i
          BY <1>1, <2>1, <4>2
        <5> QED
          BY <5>1, <4>2, <2>3
      <4> QED
        BY <1>1, <2>1, <4>1, <4>2
    <3> QED
      BY <1>3, <2>10, <3>1 DEF SameControl
  <2> QED
    BY <2>7, <2>9, <2>10
<1> QED
  BY <1>1, <1>2, <1>3

\* Only what is not yet born comes under construction, and what is stays so.
Conceived(st, lf) ==
  /\ \A o \in Obj : lf[o] \in {"unborn", "constructing"} => life[o] \in {"unborn", "constructing"}
  /\ \A i \in DOMAIN st : st[i].kind = "construct" => lf[st[i].obj] = life[st[i].obj]

\* Nothing is born, made or destructed if the lives stay.
LEMMA SameLives ==
  ASSUME NEW r, NEW st
  PROVE  Born(life, r) /\ Conceived(st, life) /\ Stays(life, life)
  BY DEF Born, Conceived, Stays

\* Constructors and destructors below the innermost frame stay as they are.
LEMMA ConstructionStep ==
  ASSUME IInv, NEW st, NEW m, Upto(st, m), NEW lf, Conceived(st, lf),
         st[m].kind = "construct" => m <= Depth /\ SameControl(st[m], stack[m]),
         st[m].kind = "destructor" => \/ m <= Depth /\ SameControl(st[m], stack[m])
                                     \/ lf[st[m].obj] \notin {"unborn", "constructing"}
  PROVE  ConstructionOf(st, lf)
<1>1. /\ stack \in Seq(Frame) /\ st \in Seq(Frame)
      /\ Depth \in Nat /\ Depth = Len(stack) /\ DOMAIN stack = 1..Depth
      /\ m \in 1..Depth + 1 /\ DOMAIN st = 1..m /\ Len(st) = m
  BY UptoLengths DEF IInv, TypeOK, Upto
<1>2. ASSUME NEW i \in 1..m, i < m \/ (m <= Depth /\ SameControl(st[m], stack[m]))
      PROVE  i \in 1..Depth /\ st[i].kind = stack[i].kind /\ st[i].obj = stack[i].obj
  <2>1. CASE i = m
    BY <1>1, <1>2, <2>1 DEF SameControl
  <2>2. CASE i < m
    <3>1. i \in 1..m - 1 /\ i \in 1..Depth
      BY <1>1, <2>2
    <3> QED
      BY <3>1 DEF Upto, SameControl
  <2> QED
    BY <1>1, <2>1, <2>2
<1>3. ASSUME NEW i \in 1..m, st[i].kind = "construct"
      PROVE  lf[st[i].obj] = "constructing" /\ (i < m \/ (m <= Depth /\ SameControl(st[m], stack[m])))
  BY <1>1, <1>2, <1>3 DEF Conceived, IInv, Construction, ConstructionOf
<1>4. ASSUME NEW i \in 1..m, st[i].kind = "destructor"
      PROVE  lf[st[i].obj] \notin {"unborn", "constructing"}
  <2> SUFFICES ASSUME i < m \/ (m <= Depth /\ SameControl(st[m], stack[m]))
               PROVE  lf[st[i].obj] \notin {"unborn", "constructing"}
    BY <1>1, <1>4
  <2>1. stack[i].kind = "destructor" /\ st[i].obj = stack[i].obj /\ i \in 1..Depth
    BY <1>2, <1>4
  <2>2. stack[i].obj \in Obj /\ life[stack[i].obj] \notin {"unborn", "constructing"}
    BY <1>1, <2>1 DEF IInv, Construction, ConstructionOf, Shape, ShapeOf
  <2> QED
    BY <2>1, <2>2 DEF Conceived
<1>5. ASSUME NEW i \in 1..m, NEW j \in 1..m, st[i].kind = "construct", st[j].kind = "construct",
             st[i].obj = st[j].obj
      PROVE  i = j
  BY <1>1, <1>2, <1>3, <1>5 DEF IInv, Construction, ConstructionOf
<1> QED
  BY <1>1, <1>3, <1>4, <1>5 DEF ConstructionOf

\* The innermost frame is about to pass on a failure that ends the program.
Passing ==
  /\ Carried(stack, Depth, Leaving(stack, result))
  /\ Top.mode = "asks" => result = Just("error")

\* A failure that waits for a destructor still waits; another must be carried on.
LEMMA DoomStep ==
  ASSUME IInv, stack # << >>, doomed, NEW st, NEW m, Upto(st, m), NEW r,
         \A d \in 2..Depth : stack[d].kind = "destructor" => d <= m /\ st[d].kind = "destructor",
         Passing => DoomOf(st, r)
  PROVE  DoomOf(st, r)
<1>1. Depth \in Nat /\ Depth = Len(stack) /\ DOMAIN stack = 1..Depth /\ TypeOK /\ Shape
  BY Lengths DEF IInv, TypeOK
<1>2. CASE Passing
  BY <1>2
<1>3. ASSUME NEW d \in DOMAIN stack, d > 1, stack[d].kind = "destructor",
             Carried(stack, d - 1, stack[d - 1].saved)
      PROVE  DoomOf(st, r)
  <2>1. d \in 2..Depth
    BY <1>1, <1>3
  <2> QED
    BY <1>1, <1>3, <2>1, DoomBelow
<1> QED
  BY <1>1, <1>2, <1>3 DEF IInv, Doom, DoomOf, Passing, Top

\* A statement or an expression that runs no other script code.
LEMMA InPlaceInv ==
  ASSUME IInv, stack # << >>, Top.mode = "runs", ~Failure(result),
         NEW st \in Seq(Frame), Len(st) = Depth, \A i \in 1..Depth : SameControl(st[i], stack[i]),
         NEW r \in Value, NEW lf \in [Obj -> Lives], NEW kp \in [Obj -> 0..MaxHeld],
         VisitsOf(st), VisitedOf(st, kp, r, lf), Conceived(st, lf), Stays(lf, life),
         doomed' \in BOOLEAN, doomed' => doomed \/ Carried(stack, Depth, r),
         Settle(st, r, lf, kp)
  PROVE  IInv' /\ Stays(life', life)
<1>1. /\ Depth \in Nat /\ Depth = Len(stack) /\ DOMAIN stack = 1..Depth /\ TypeOK /\ Shape
      /\ Depth > 0 /\ Top = stack[Depth] /\ fault \in Faults
  BY Lengths, Tops DEF IInv, TypeOK, Faults
<1>2. Upto(st, Depth)
  BY <1>1 DEF Upto
<1>3. SameControl(st[Depth], stack[Depth])
  BY <1>1
<1>4. ShapeOf(st)
  BY <1>1, <1>2, <1>3, FrameFits, ShapeStep
<1>5. ConstructionOf(st, lf)
  BY <1>1, <1>2, <1>3, ConstructionStep
<1>6. ASSUME doomed' PROVE DoomOf(st, r)
  <2>1. CASE Carried(stack, Depth, r)
    <3>1. Carried(st, Depth, r)
      BY <2>1, <1>1, CarriedSame DEF SameControl
    <3>2. st # << >> /\ Len(st) = Depth /\ st[Len(st)].mode = "runs"
      BY <1>1, <1>3 DEF SameControl
    <3> QED
      BY <3>1, <3>2 DEF DoomOf, Leaving
  <2>2. CASE doomed
    <3>1. ~Passing
      BY <1>1 DEF Passing, Leaving, Carried
    <3>2. \A d \in 2..Depth : stack[d].kind = "destructor" => d <= Depth /\ st[d].kind = "destructor"
      BY <1>1 DEF SameControl
    <3> QED
      BY <2>2, <3>1, <3>2, <1>2, DoomStep
  <2> QED
    BY <1>6, <2>1, <2>2
<1>7. Ready(st, r, lf, kp, doomed')
  BY <1>4, <1>5, <1>6 DEF Ready
<1> QED
  BY <1>1, <1>7, SettleInv

\* A statement or an expression that runs script code begins.
LEMMA PushInv ==
  ASSUME IInv, stack # << >>, Top.mode # "cleans", ~Failure(result),
         NEW f \in Frame, f.kind # "destructor", f.sole = {}, f.visit = Empty,
         f.mode = "runs" \/ (f.mode = "asks" /\ f.kind = "loop"),
         Top.mode = "asks" => f.kind \in Awaited,
         f.kind \in {"method", "construct"} => f.obj \in Obj,
         NEW s \in {Suspended, stack}, NEW lf \in [Obj -> Lives], Born(lf, Nothing),
         ConstructionOf(Append(s, f), lf), Stays(lf, life),
         UNCHANGED doomed, Settle(Append(s, f), Nothing, lf, kept)
  PROVE  IInv' /\ Stays(life', life)
<1> DEFINE st == Append(s, f)
<1>1. /\ Depth \in Nat /\ Depth = Len(stack) /\ DOMAIN stack = 1..Depth /\ TypeOK /\ Shape
      /\ Depth > 0 /\ Top = stack[Depth] /\ fault \in Faults /\ stack \in Seq(Frame)
      /\ result \in Value /\ kept \in [Obj -> 0..MaxHeld] /\ doomed \in BOOLEAN
  BY Lengths, Tops DEF IInv, TypeOK, Faults
<1>2. /\ st \in Seq(Frame) /\ Len(st) = Depth + 1 /\ st[Depth + 1] = f
      /\ \A i \in 1..Depth : SameFrame(st[i], stack[i])
  BY <1>1, Pushed
<1> HIDE DEF st
<1>3. Upto(st, Depth + 1)
  BY <1>1, <1>2 DEF Upto, SameFrame
<1>4. ShapeOf(st)
  <2>1. TopFits(st[Depth + 1], Depth + 1)
    BY <1>1, <1>2 DEF TopFits
  <2> QED
    BY <1>1, <1>3, <2>1, ShapeStep
<1>5. VisitsOf(st)
  <2>1. ASSUME NEW i \in 1..Depth + 1, NEW o \in Obj PROVE st[i].visit[o] <= st[i].held[o]
    <3>1. CASE i \in 1..Depth
      BY <1>1, <1>2, <3>1 DEF IInv, Visits, VisitsOf, SameFrame
    <3>2. CASE i = Depth + 1
      BY <1>2, <3>2 DEF Frame, Empty
    <3> QED
      BY <1>1, <3>1, <3>2
  <2> QED
    BY <1>2, <2>1 DEF VisitsOf
<1>6. VisitedOf(st, kept, Nothing, lf)
  <2>1. \A i \in 1..(Depth + 1) - 1 : SameCounts(st[i], stack[i])
    BY <1>1, <1>2, SameFrames
  <2>2. ~(Depth + 1 > 1 /\ stack[(Depth + 1) - 1].mode = "cleans")
    BY <1>1
  <2>3. st[Depth + 1].sole = {}
    BY <1>2
  <2> QED
    BY <1>3, <2>1, <2>2, <2>3, VisitedStep
<1>7. ASSUME doomed' PROVE DoomOf(st, Nothing)
  <2>1. ~Passing
    BY <1>1 DEF Passing, Leaving, Carried
  <2>2. \A d \in 2..Depth : stack[d].kind = "destructor" => d <= Depth + 1 /\ st[d].kind = "destructor"
    BY <1>1, <1>2 DEF SameFrame, SameControl
  <2> QED
    BY <1>7, <2>1, <2>2, <1>3, DoomStep
<1>8. Ready(st, Nothing, lf, kept, doomed')
  BY <1>1, <1>2, <1>4, <1>5, <1>6, <1>7, Values DEF Ready, st
<1> QED
  BY <1>1, <1>8, SettleInv DEF st

\* The innermost frame is another: its body has ended, or what follows it begins.
LEMMA ReplaceInv ==
  ASSUME IInv, stack # << >>, Top.kind \notin {"destructor", "operand", "element"},
         NEW f \in Frame, f.kind # "destructor",
         f.kind \in {"method", "construct"} => f.kind = Top.kind /\ f.obj = Top.obj,
         f.mode = "asks" => f.kind = "loop",
         f.mode = "cleans" =>
           /\ f.kind \in {"scope", "if", "loop", "call", "method", "construct"}
           /\ f.kind = "construct" => f.saved # Just("error"),
         f.mode = "cleans" => \A o \in f.sole : f.visit[o] = 0 => life[o] \notin {"alive", "destructing"},
         \A o \in Obj : f.visit[o] <= f.held[o],
         NEW kp \in [Obj -> 0..MaxHeld],
         Passing => f.mode = "cleans" /\ f.kind = Top.kind /\ Carried(stack, Depth, f.saved),
         UNCHANGED doomed, Settle(Append(Below, f), Nothing, life, kp)
  PROVE  IInv' /\ Stays(life', life)
<1> DEFINE st == Append(Below, f)
<1>1. /\ Depth \in Nat /\ Depth = Len(stack) /\ DOMAIN stack = 1..Depth /\ TypeOK /\ Shape
      /\ Depth > 0 /\ Top = stack[Depth] /\ fault \in Faults /\ stack \in Seq(Frame)
      /\ life \in [Obj -> Lives] /\ doomed \in BOOLEAN
  BY Lengths, Tops DEF IInv, TypeOK, Faults
<1>2. /\ st \in Seq(Frame) /\ Len(st) = Depth /\ st[Depth] = f
      /\ \A i \in 1..Depth - 1 : st[i] = stack[i]
  BY <1>1, Replaced
<1> HIDE DEF st
<1>3. Upto(st, Depth)
  BY <1>1, <1>2 DEF Upto, SameControl
<1>4. Depth > 1 => stack[Depth - 1].mode = "runs"
  <2> SUFFICES ASSUME Depth > 1 PROVE stack[Depth - 1].mode = "runs"
    OBVIOUS
  <2>1. Depth - 1 \in 1..Depth /\ Depth - 1 < Len(stack) /\ (Depth - 1) + 1 = Depth
    BY <1>1
  <2>2. stack[Depth - 1] \in Frame
    BY <1>1, <2>1
  <2>3. stack[Depth - 1].mode \in {"runs", "asks", "cleans"}
    BY <2>2 DEF Frame
  <2>4. ShapeOf(stack)!(Depth - 1)
    BY <1>1, <2>1 DEF Shape, ShapeOf
  <2> QED
    BY <1>1, <2>1, <2>3, <2>4 DEF Awaited
<1>5. ShapeOf(st)
  <2>1. f.kind \in {"method", "construct"} => f.obj \in Obj
    BY <1>1 DEF Shape, ShapeOf
  <2>2. TopFits(st[Depth], Depth)
    BY <1>2, <1>4, <2>1 DEF TopFits
  <2> QED
    BY <1>1, <1>3, <2>2, ShapeStep
<1>6. VisitsOf(st)
  <2>1. ASSUME NEW i \in 1..Depth, NEW o \in Obj PROVE st[i].visit[o] <= st[i].held[o]
    <3>1. CASE i \in 1..Depth - 1
      BY <1>1, <1>2, <3>1 DEF IInv, Visits, VisitsOf
    <3>2. CASE i = Depth
      BY <1>2, <3>2
    <3> QED
      BY <1>1, <3>1, <3>2
  <2> QED
    BY <1>2, <2>1 DEF VisitsOf
<1>7. VisitedOf(st, kp, Nothing, life)
  <2>1. \A i \in 1..Depth - 1 : SameCounts(st[i], stack[i])
    BY <1>2 DEF SameCounts, SameControl
  <2>2. ~(Depth > 1 /\ stack[Depth - 1].mode = "cleans")
    BY <1>4
  <2>3. \A o \in st[Depth].sole :
          st[Depth].mode = "cleans" /\ st[Depth].visit[o] = 0 => life[o] \notin {"alive", "destructing"}
    BY <1>2
  <2>4. Born(life, Nothing)
    BY DEF Born
  <2> QED
    BY <1>3, <2>1, <2>2, <2>3, <2>4, VisitedStep
<1>8. ConstructionOf(st, life)
  <2>1. CASE f.kind \notin {"construct", "destructor"}
    BY <1>2, <1>3, <2>1, SameLives, ConstructionStep
  <2>2. CASE f.kind = "construct"
    <3>1. f.kind = stack[Depth].kind /\ f.obj = stack[Depth].obj
      BY <1>1, <2>2
    <3>2. ASSUME NEW i \in 1..Depth PROVE st[i].kind = stack[i].kind /\ st[i].obj = stack[i].obj
      <4>1. CASE i = Depth
        BY <1>2, <3>1, <4>1
      <4>2. CASE i \in 1..Depth - 1
        BY <1>2, <4>2
      <4> QED
        BY <1>1, <4>1, <4>2
    <3>3. ConstructionOf(stack, life)
      BY DEF IInv, Construction
    <3>4. DOMAIN st = 1..Depth
      BY <1>2
    <3> QED
      BY <1>1, <3>2, <3>3, <3>4 DEF ConstructionOf
  <2> QED
    BY <2>1, <2>2
<1>9. ASSUME doomed' PROVE DoomOf(st, Nothing)
  <2>1. \A d \in 2..Depth : stack[d].kind = "destructor" => d <= Depth /\ st[d].kind = "destructor"
    BY <1>1, <1>2
  <2>2. ASSUME Passing PROVE DoomOf(st, Nothing)
    <3>1. \A i \in 1..Depth : st[i].kind = stack[i].kind
      BY <1>1, <1>2, <2>2
    <3>2. Carried(st, Depth, f.saved)
      BY <1>1, <2>2, <3>1, CarriedSame
    <3> QED
      BY <1>1, <1>2, <2>2, <3>2 DEF DoomOf, Leaving
  <2> QED
    BY <1>9, <2>1, <2>2, <1>3, DoomStep
<1>10. Ready(st, Nothing, life, kp, doomed')
  BY <1>1, <1>2, <1>5, <1>6, <1>7, <1>8, <1>9, Values DEF Ready, Stays
<1> QED
  BY <1>1, <1>10, SettleInv DEF st

\* The innermost frame is left with r.
LEMMA PopInv ==
  ASSUME IInv, stack # << >>, Top.kind # "destructor",
         NEW st \in Seq(Frame), Len(st) = Depth - 1,
         \A i \in 1..Depth - 1 : SameControl(st[i], stack[i]),
         NEW r \in Value, NEW lf \in [Obj -> Lives], NEW kp \in [Obj -> 0..MaxHeld],
         VisitsOf(st), VisitedOf(st, kp, r, lf), Conceived(st, lf), Stays(lf, life),
         Passing => /\ Carried(stack, Depth - 1, r)
                    /\ Top.kind \in Awaited => r = Just("error"),
         UNCHANGED doomed, Settle(st, r, lf, kp)
  PROVE  IInv' /\ Stays(life', life)
<1>1. /\ Depth \in Nat /\ Depth = Len(stack) /\ DOMAIN stack = 1..Depth /\ TypeOK /\ Shape
      /\ Depth > 0 /\ Top = stack[Depth] /\ fault \in Faults /\ stack \in Seq(Frame)
      /\ doomed \in BOOLEAN
  BY Lengths, Tops DEF IInv, TypeOK, Faults
<1>2. ShapeOf(st) /\ ConstructionOf(st, lf) /\ (doomed => DoomOf(st, r))
  <2>1. CASE Depth = 1
    <3>1. st = << >> /\ DOMAIN st = {}
      BY <2>1
    <3>2. ShapeOf(st)
      BY <3>1 DEF ShapeOf
    <3>3. ConstructionOf(st, lf)
      BY <3>1 DEF ConstructionOf
    <3>4. ASSUME doomed PROVE Passing
      <4>1. \A d \in DOMAIN stack : ~(d > 1)
        BY <1>1, <2>1
      <4> QED
        BY <1>1, <3>4, <4>1 DEF IInv, Doom, DoomOf, Passing
    <3>5. doomed => Failure(r)
      BY <3>4 DEF Carried
    <3> QED
      BY <3>1, <3>2, <3>3, <3>5 DEF DoomOf
  <2>2. CASE Depth > 1
    <3> DEFINE m == Depth - 1
    <3>1. /\ m \in Nat /\ m > 0 /\ m \in 1..Depth /\ m + 1 = Depth /\ m < Len(stack)
          /\ m \in 1..Depth + 1 /\ m \in 1..m
      BY <1>1, <2>2
    <3>2. Len(st) = m /\ \A i \in 1..m : SameControl(st[i], stack[i])
      OBVIOUS
    <3> HIDE DEF m
    <3>3. \A i \in 1..m - 1 : i \in 1..m
      BY <3>1
    <3>4. Upto(st, m)
      BY <3>1, <3>2, <3>3 DEF Upto
    <3>5. SameControl(st[m], stack[m])
      BY <3>1, <3>2
    <3>6. ShapeOf(st)
      BY <1>1, <3>1, <3>4, <3>5, FrameFits, ShapeStep
    <3>7. ConstructionOf(st, lf)
      BY <3>1, <3>4, <3>5, ConstructionStep
    <3>8. ASSUME doomed PROVE DoomOf(st, r)
      <4>1. ShapeOf(stack)!(m)
        BY <1>1, <3>1 DEF Shape, ShapeOf
      <4>2. stack[m].mode # "cleans" /\ (stack[m].mode = "asks" => Top.kind \in Awaited)
        BY <1>1, <3>1, <4>1
      <4>3. ASSUME Passing PROVE DoomOf(st, r)
        <5>1. Carried(stack, m, r) /\ (Top.kind \in Awaited => r = Just("error"))
          BY <4>3 DEF m
        <5>2. Carried(st, m, r)
          BY <3>1, <3>2, <5>1, CarriedSame DEF SameControl
        <5> QED
          BY <3>1, <3>2, <3>5, <4>2, <5>1, <5>2 DEF DoomOf, Leaving, SameControl
      <4>4. ASSUME NEW d \in 2..Depth, stack[d].kind = "destructor"
            PROVE  d <= m /\ st[d].kind = "destructor"
        <5>1. d # Depth
          BY <1>1, <4>4
        <5>2. d \in 1..m
          BY <1>1, <3>1, <5>1
        <5> QED
          BY <3>1, <3>2, <4>4, <5>2 DEF SameControl
      <4> QED
        BY <3>4, <3>8, <4>3, <4>4, DoomStep
    <3> QED
      BY <3>6, <3>7, <3>8
  <2> QED
    BY <1>1, <2>1, <2>2
<1>3. Ready(st, r, lf, kp, doomed')
  BY <1>1, <1>2 DEF Ready
<1> QED
  BY <1>1, <1>3, SettleInv

-----------------------------------------------------------------------------
(* Statements and expressions that run no other script code. *)

\* The invariant has the types of the state.
LEMMA Frames ==
  ASSUME IInv
  PROVE  /\ stack \in Seq(Frame) /\ result \in Value /\ life \in [Obj -> Lives]
         /\ kept \in [Obj -> 0..MaxHeld] /\ fault \in Faults /\ doomed \in BOOLEAN
         /\ Depth \in Nat /\ Depth = Len(stack) /\ DOMAIN stack = 1..Depth
         /\ stack # << >> => Depth > 0 /\ Top = stack[Depth] /\ Top \in Frame
  BY Lengths, Tops DEF IInv, TypeOK, Faults

\* A statement is evaluated in a block.
LEMMA InBlocks ==
  ASSUME InBlock
  PROVE  Evaluating
  BY DEF Evaluating

\* Nothing is evaluated while a failure is passed on.
LEMMA Evaluations ==
  ASSUME Evaluating
  PROVE  stack # << >> /\ Top.mode = "runs" /\ ~Failure(result)
  BY DEF Evaluating, InBlock, In, EndsBlock, Failure, Nothing, Just

\* A failure that none of the first n frames swallows.
LEMMA DoomCarried ==
  ASSUME IInv, NEW n \in 0..Depth, NEW v \in {"error", "exit"}, IsDoom(n, v)
  PROVE  Carried(stack, n, Just(v))
<1>1. Just(v).returns = 0 /\ Just(v).of = v /\ Depth \in Nat
  BY Frames DEF Just
<1>2. ASSUME NEW i \in 1..n
      PROVE  /\ stack[i].kind \notin {"try", "element"}
             /\ stack[i].kind \in {"let", "operand", "construct"}
                  => Just(v) = Just("error") /\ ~ReturnAbove(stack, i, n)
             /\ stack[i].kind = "destructor" => ~TwoReturnsAbove(stack, i, n)
  <2>1. ~Swallows(i, v)
    BY DEF IsDoom
  <2>2. \A k \in i + 1..n : k \in i + 1..Depth
    BY <1>1
  <2> QED
    BY <2>1, <2>2 DEF Swallows, ReturnAbove, TwoReturnsAbove
<1> QED
  BY <1>1, <1>2 DEF Carried, Failure

\* What changes none of the frames' variables.
LEMMA SimpleInv ==
  ASSUME IInv, Evaluating,
         NEW st \in Seq(Frame), Len(st) = Depth, \A i \in 1..Depth : SameFrame(st[i], stack[i]),
         NEW r \in Value, NEW lf \in [Obj -> Lives], NEW kp \in [Obj -> 0..MaxHeld],
         Born(lf, r), Conceived(st, lf), Stays(lf, life),
         doomed' \in BOOLEAN, doomed' => doomed \/ Carried(stack, Depth, r),
         Settle(st, r, lf, kp)
  PROVE  IInv' /\ Stays(life', life)
<1>1. stack # << >> /\ Top.mode = "runs" /\ ~Failure(result)
  BY Evaluations
<1>2. Depth \in Nat /\ Depth > 0 /\ Top = stack[Depth] /\ DOMAIN st = 1..Depth /\ DOMAIN stack = 1..Depth
  BY <1>1, Frames
<1>3. Upto(st, Depth) /\ \A i \in 1..Depth : SameControl(st[i], stack[i])
  BY <1>2 DEF Upto, SameFrame
<1>4. VisitsOf(st)
  BY <1>2 DEF IInv, Visits, VisitsOf, SameFrame
<1>5. VisitedOf(st, kp, r, lf)
  <2>1. st[Depth].mode = "runs" /\ SameControl(st[Depth], stack[Depth])
    BY <1>1, <1>2, <1>3 DEF SameControl
  <2>2. \A i \in 1..Depth - 1 : SameCounts(st[i], stack[i])
    BY <1>2, SameFrames
  <2> QED
    BY <1>2, <1>3, <2>1, <2>2, VisitedStep
<1> QED
  BY <1>1, <1>3, <1>4, <1>5, InPlaceInv

\* What changes no frame at all.
LEMMA StackInv ==
  ASSUME IInv, Evaluating,
         NEW r \in Value, NEW lf \in [Obj -> Lives], NEW kp \in [Obj -> 0..MaxHeld],
         Born(lf, r), Conceived(stack, lf), Stays(lf, life),
         doomed' \in BOOLEAN, doomed' => doomed \/ Carried(stack, Depth, r),
         Settle(stack, r, lf, kp)
  PROVE  IInv' /\ Stays(life', life)
  BY Frames, SimpleInv DEF SameFrame, SameControl

\* An expression without objects keeps the invariant.
LEMMA EvaluateInv ==
  ASSUME IInv, NEW v \in {"value", "error", "exit"}, Evaluate(v)
  PROVE  IInv' /\ Stays(life', life)
<1>1. Just(v) \in Value
  BY Values DEF Plain
<1>2. doomed' \in BOOLEAN /\ (doomed' => doomed \/ Carried(stack, Depth, Just(v)))
  <2>1. Depth \in 0..Depth
    BY Frames
  <2> QED
    BY <2>1, Frames, DoomCarried DEF Evaluate
<1> QED
  BY <1>1, <1>2, Frames, SameLives, StackInv DEF Evaluate

\* break and continue keep the invariant.
LEMMA JumpInv ==
  ASSUME IInv, NEW v \in {"break", "continue"}, Jump(v)
  PROVE  IInv' /\ Stays(life', life)
<1>1. Just(v) \in Value /\ Evaluating
  BY Values, InBlocks DEF Plain, Jump
<1> QED
  BY <1>1, Frames, SameLives, StackInv DEF Jump

\* Reading a variable keeps the invariant.
LEMMA FetchInv ==
  ASSUME IInv, NEW o \in Obj, Fetch(o)
  PROVE  IInv' /\ Stays(life', life)
<1>1. Just(o) \in Value
  BY Values
<1> QED
  BY <1>1, Frames, SameLives, StackInv DEF Fetch

\* An object without a constructor keeps the invariant.
LEMMA MakeInv ==
  ASSUME IInv, NEW o \in Obj, Make(o)
  PROVE  IInv' /\ Stays(life', life)
<1> DEFINE lf == [life EXCEPT ![o] = "alive"]
<1>1. Just(o) \in Value /\ Just(o).of = o
  BY Values DEF Just
<1>2. lf \in [Obj -> Lives] /\ lf[o] = "alive" /\ \A p \in Obj \ {o} : lf[p] = life[p]
  BY Frames DEF Lives
<1>3. life[o] = "unborn"
  BY DEF Make
<1> HIDE DEF lf
<1>4. Born(lf, Just(o)) /\ Stays(lf, life)
  BY <1>1, <1>2, <1>3 DEF Born, Stays
<1>5. Conceived(stack, lf)
  <2>1. ASSUME NEW i \in DOMAIN stack, stack[i].kind = "construct"
        PROVE  stack[i].obj \in Obj \ {o}
    BY <1>3, <2>1 DEF IInv, Shape, ShapeOf, Construction, ConstructionOf
  <2> QED
    BY <1>2, <1>3, <2>1 DEF Conceived
<1>6. /\ Evaluating /\ doomed' = doomed
      /\ Settle(stack, Just(o), lf, kept)
  BY DEF Make, lf
<1> QED
  BY <1>1, <1>2, <1>4, <1>5, <1>6, Frames, StackInv

\* Storing an object in a closure or container, and forgetting it, keeps the invariant.
LEMMA KeepInv ==
  ASSUME IInv, NEW o \in Obj, Keep(o) \/ Forget(o)
  PROVE  IInv' /\ Stays(life', life)
<1>1. Just("value") \in Value
  BY Values DEF Plain
<1>2. CASE Keep(o)
  <2>1. [kept EXCEPT ![o] = @ + 1] \in [Obj -> 0..MaxHeld]
    BY <1>2, Frames, ConstantAssumption DEF Keep
  <2> QED
    BY <1>1, <1>2, <2>1, Frames, SameLives, StackInv DEF Keep
<1>3. CASE Forget(o)
  <2>1. [kept EXCEPT ![o] = @ - 1] \in [Obj -> 0..MaxHeld]
    BY <1>3, Frames, ConstantAssumption DEF Forget
  <2> QED
    BY <1>1, <1>3, <2>1, Frames, SameLives, StackInv DEF Forget
<1> QED
  BY <1>2, <1>3

\* A closure that captures the environment keeps the invariant.
LEMMA CaptureInv ==
  ASSUME IInv, Capture
  PROVE  IInv' /\ Stays(life', life)
<1> DEFINE F(i) == [stack[i] EXCEPT !.captured = @ \/ i \in Visible]
           st == [i \in DOMAIN stack |-> F(i)]
<1>1. ASSUME NEW i \in 1..Depth PROVE F(i) \in Frame /\ SameFrame(F(i), stack[i])
  <2>1. stack[i] \in Frame
    BY Frames
  <2> DEFINE c == stack[i].captured \/ i \in Visible
  <2>2. c \in BOOLEAN /\ F(i) = [stack[i] EXCEPT !.captured = c]
    BY <2>1 DEF Frame
  <2> HIDE DEF c, F
  <2> QED
    BY <2>1, <2>2 DEF Frame, SameFrame, SameControl
<1>2. Just("value") \in Value
  BY Values DEF Plain
<1>3. Evaluating /\ doomed' = doomed /\ Settle(st, Just("value"), life, kept)
  BY DEF Capture
<1> HIDE DEF F
<1>4. st \in Seq(Frame) /\ Len(st) = Depth /\ \A i \in 1..Depth : SameFrame(st[i], stack[i])
  BY <1>1, Frames
<1> HIDE DEF st
<1> QED
  BY <1>2, <1>3, <1>4, Frames, SameLives, SimpleInv

\* The count of the variables that refer to each object, with one of old's now new's.
Reassigned(count, old, new) ==
  [o \in Obj |-> count[o] + (IF o = new THEN 1 ELSE 0) - (IF o = old THEN 1 ELSE 0)]

\* One frame of a stack is changed.
LEMMA Updated ==
  ASSUME NEW st \in Seq(Frame), NEW j \in DOMAIN st, NEW f \in Frame
  PROVE  /\ [st EXCEPT ![j] = f] \in Seq(Frame) /\ Len([st EXCEPT ![j] = f]) = Len(st)
         /\ DOMAIN [st EXCEPT ![j] = f] = 1..Len(st) /\ [st EXCEPT ![j] = f][j] = f
         /\ \A i \in 1..Len(st) \ {j} : [st EXCEPT ![j] = f][i] = st[i]
  OBVIOUS

\* What an assignment may do to the variables of frame j, which may have been looked at.
Reassigns(j, old, new, held, visit) ==
  /\ old # new /\ (new \in Obj => stack[j].held[new] < MaxHeld)
  /\ held = Reassigned(stack[j].held, old, new)
  /\ \/ /\ visit = stack[j].visit
        /\ old \in Obj => stack[j].held[old] > stack[j].visit[old]
     \/ /\ visit = Reassigned(stack[j].visit, old, new)
        /\ old \in Obj => stack[j].visit[old] > 0

\* What is left to be looked at is among the variables, and so it was.
Recounts(j, held, visit) ==
  /\ held \in [Obj -> 0..MaxHeld] /\ visit \in [Obj -> 0..MaxHeld]
  /\ \A o \in Obj : visit[o] <= held[o]
  /\ \A o \in Obj : held[o] = 1 /\ stack[j].held[o] = 1 => visit[o] = stack[j].visit[o]

\* An assignment changes the count of two objects in one frame.
LEMMA AssignedCounts ==
  ASSUME IInv, NEW j \in DOMAIN stack, NEW old \in Obj \cup {NoObj}, NEW new \in Obj \cup {NoObj},
         NEW held, NEW visit, Reassigns(j, old, new, held, visit)
  PROVE  Recounts(j, held, visit)
<1>1. stack[j] \in Frame
  BY Frames
<1>2. stack[j].held \in [Obj -> 0..MaxHeld] /\ stack[j].visit \in [Obj -> 0..MaxHeld]
  BY <1>1 DEF Frame
<1>3. \A o \in Obj : stack[j].visit[o] <= stack[j].held[o]
  BY DEF IInv, Visits, VisitsOf
<1>4. ASSUME NEW o \in Obj
      PROVE  held[o] = stack[j].held[o] + (IF o = new THEN 1 ELSE 0) - (IF o = old THEN 1 ELSE 0)
  BY DEF Reassigns, Reassigned
<1>5. held = [o \in Obj |-> held[o]] /\ visit = [o \in Obj |-> visit[o]]
  BY <1>2 DEF Reassigns, Reassigned
<1>6. CASE /\ visit = stack[j].visit
           /\ old \in Obj => stack[j].held[old] > stack[j].visit[old]
  <2>1. ASSUME NEW o \in Obj PROVE held[o] \in 0..MaxHeld /\ visit[o] \in 0..MaxHeld /\ visit[o] <= held[o]
    BY <1>2, <1>3, <1>4, <1>6, ConstantAssumption DEF Reassigns
  <2> QED
    BY <1>5, <1>6, <2>1 DEF Recounts
<1>7. CASE /\ visit = Reassigned(stack[j].visit, old, new)
           /\ old \in Obj => stack[j].visit[old] > 0
  <2>1. ASSUME NEW o \in Obj
        PROVE  visit[o] = stack[j].visit[o] + (IF o = new THEN 1 ELSE 0) - (IF o = old THEN 1 ELSE 0)
    BY <1>7 DEF Reassigned
  <2>2. ASSUME NEW o \in Obj PROVE held[o] \in 0..MaxHeld /\ visit[o] \in 0..MaxHeld /\ visit[o] <= held[o]
    BY <1>2, <1>3, <1>4, <1>7, <2>1, ConstantAssumption DEF Reassigns
  <2>3. ASSUME NEW o \in Obj, held[o] = 1, stack[j].held[o] = 1 PROVE visit[o] = stack[j].visit[o]
    BY <1>2, <1>4, <2>1, <2>3 DEF Reassigns
  <2> QED
    BY <1>5, <2>2, <2>3 DEF Recounts
<1> QED
  BY <1>6, <1>7 DEF Reassigns

\* Frame j is f after it.
LEMMA AssignedFrame ==
  ASSUME IInv, NEW j \in DOMAIN stack, NEW old \in Obj \cup {NoObj}, NEW new \in Obj \cup {NoObj},
         NEW held, NEW visit, Reassigns(j, old, new, held, visit),
         NEW f \in Frame, f.held = held, f.visit = visit,
         SameControl(f, stack[j]), f.saved = stack[j].saved, f.sole = stack[j].sole,
         NEW r \in Value, Settle([stack EXCEPT ![j] = f], r, life, kept),
         Evaluating, UNCHANGED doomed
  PROVE  IInv' /\ Stays(life', life)
<1> DEFINE st == [stack EXCEPT ![j] = f]
<1>1. /\ stack \in Seq(Frame) /\ Depth \in Nat /\ Depth = Len(stack) /\ DOMAIN stack = 1..Depth
      /\ stack[j] \in Frame /\ kept \in [Obj -> 0..MaxHeld] /\ life \in [Obj -> Lives]
  BY Frames
<1>2. Recounts(j, held, visit)
  BY AssignedCounts
<1>3. \A o \in Obj : f.visit[o] <= f.held[o]
  BY <1>2 DEF Recounts
<1>4. \A o \in Obj : f.held[o] = 1 /\ stack[j].held[o] = 1 => f.visit[o] = stack[j].visit[o]
  BY <1>2 DEF Recounts
<1>5. /\ st \in Seq(Frame) /\ Len(st) = Depth /\ DOMAIN st = 1..Depth /\ st[j] = f
      /\ \A i \in 1..Depth \ {j} : st[i] = stack[i]
  BY <1>1, Updated
<1> HIDE DEF st
<1>6. \A i \in 1..Depth : SameControl(st[i], stack[i]) /\ st[i].sole = stack[i].sole
  BY <1>5 DEF SameControl
<1>7. VisitsOf(st)
  <2>1. ASSUME NEW i \in 1..Depth, NEW o \in Obj PROVE st[i].visit[o] <= st[i].held[o]
    BY <1>1, <1>3, <1>5 DEF IInv, Visits, VisitsOf
  <2> QED
    BY <1>5, <2>1 DEF VisitsOf
<1>8. VisitedOf(st, kept, r, life)
  <2>1. \A i \in 1..Depth - 1 : SameCounts(st[i], stack[i])
    <3> SUFFICES ASSUME NEW i \in 1..Depth - 1 PROVE SameCounts(st[i], stack[i])
      OBVIOUS
    <3>1. i \in 1..Depth
      BY <1>1
    <3>2. CASE i = j
      BY <3>1, <3>2, <1>4, <1>5, <1>6 DEF SameCounts
    <3>3. CASE i # j
      BY <3>1, <3>3, <1>5 DEF SameCounts, SameControl
    <3> QED
      BY <3>2, <3>3
  <2>2. stack # << >> /\ Depth > 0 /\ stack[Depth].mode = "runs"
    BY Frames, Evaluations
  <2>3. Upto(st, Depth) /\ SameControl(st[Depth], stack[Depth])
    BY <1>1, <1>5, <1>6, <2>2 DEF Upto
  <2>4. st[Depth].mode = "runs"
    BY <2>2, <2>3 DEF SameControl
  <2> QED
    BY <1>1, <2>1, <2>3, <2>4, SameLives, VisitedStep
<1>9. Settle(st, r, life, kept)
  BY DEF st
<1> QED
  BY <1>1, <1>5, <1>6, <1>7, <1>8, <1>9, Frames, Evaluations, SameLives, InPlaceInv

\* An assignment keeps the invariant.
LEMMA AssignInv ==
  ASSUME IInv, NEW j \in DOMAIN stack,
         NEW old \in Obj \cup {NoObj}, NEW new \in Obj \cup {NoObj}, Assign(j, old, new)
  PROVE  IInv' /\ Stays(life', life)
<1> DEFINE r == Just(IF new = NoObj THEN "value" ELSE new)
           held == Reassigned(stack[j].held, old, new)
           visit == Reassigned(stack[j].visit, old, new)
           seen == [stack[j] EXCEPT !.held = held]
           unseen == [seen EXCEPT !.visit = visit]
<1>0. (IF new = NoObj THEN "value" ELSE new) \in Plain \cup Obj
  BY DEF Plain
<1>1. stack[j] \in Frame /\ r \in Value
  BY <1>0, Frames, Values
<1>2. /\ Evaluating /\ UNCHANGED doomed
      /\ old # new /\ (new \in Obj => stack[j].held[new] < MaxHeld)
      /\ \/ /\ old \in Obj => stack[j].held[old] > stack[j].visit[old]
            /\ Settle([stack EXCEPT ![j] = seen], r, life, kept)
         \/ /\ old \in Obj => stack[j].visit[old] > 0
            /\ Settle([stack EXCEPT ![j] = unseen], r, life, kept)
  BY <1>1 DEF Assign, Reassigned, Frame
<1> HIDE DEF r
<1>3. CASE /\ old \in Obj => stack[j].held[old] > stack[j].visit[old]
           /\ Settle([stack EXCEPT ![j] = seen], r, life, kept)
  <2>1. Reassigns(j, old, new, held, stack[j].visit)
    BY <1>2, <1>3 DEF Reassigns
  <2>2. held \in [Obj -> 0..MaxHeld]
    BY <2>1, AssignedCounts DEF Recounts
  <2> HIDE DEF held
  <2>3. /\ seen \in Frame /\ seen.held = held /\ seen.visit = stack[j].visit
        /\ SameControl(seen, stack[j]) /\ seen.saved = stack[j].saved /\ seen.sole = stack[j].sole
    BY <1>1, <2>2 DEF Frame, SameControl
  <2> HIDE DEF seen
  <2> QED
    BY <1>1, <1>2, <1>3, <2>1, <2>3, AssignedFrame
<1>4. CASE /\ old \in Obj => stack[j].visit[old] > 0
           /\ Settle([stack EXCEPT ![j] = unseen], r, life, kept)
  <2>1. Reassigns(j, old, new, held, visit)
    BY <1>2, <1>4 DEF Reassigns
  <2>2. held \in [Obj -> 0..MaxHeld] /\ visit \in [Obj -> 0..MaxHeld]
    BY <2>1, AssignedCounts DEF Recounts
  <2> HIDE DEF held, visit
  <2>3. /\ unseen \in Frame /\ unseen.held = held /\ unseen.visit = visit
        /\ SameControl(unseen, stack[j]) /\ unseen.saved = stack[j].saved /\ unseen.sole = stack[j].sole
    BY <1>1, <2>2 DEF Frame, SameControl
  <2> HIDE DEF seen, unseen
  <2> QED
    BY <1>1, <1>2, <1>4, <2>1, <2>3, AssignedFrame
<1> QED
  BY <1>2, <1>3, <1>4

-----------------------------------------------------------------------------
(* Statements and expressions that run script code begin. *)

\* The scope of the innermost frame.
LEMMA Scopes ==
  ASSUME IInv, stack # << >>
  PROVE  ScopeOf(Depth) \in Nat
  BY Frames DEF ScopeOf, Frame

\* What is in a new frame.
LEMMA NewFrameFields ==
  ASSUME NEW k, NEW outer, NEW o
  PROVE  /\ NewFrame(k, outer, o).kind = k /\ NewFrame(k, outer, o).obj = o
         /\ NewFrame(k, outer, o).mode = IF k = "loop" THEN "asks" ELSE "runs"
         /\ NewFrame(k, outer, o).sole = {} /\ NewFrame(k, outer, o).visit = Empty
         /\ NewFrame(k, outer, o).held = Empty
  BY DEF NewFrame

\* A frame other than a constructor's.
LEMMA BeginInv ==
  ASSUME IInv, stack # << >>, Top.mode # "cleans", ~Failure(result),
         NEW f \in Frame, f.kind \notin {"construct", "destructor"}, f.sole = {}, f.visit = Empty,
         f.mode = "runs" \/ (f.mode = "asks" /\ f.kind = "loop"),
         Top.mode = "asks" => f.kind \in Awaited, f.kind = "method" => f.obj \in Obj,
         NEW s \in {Suspended, stack},
         UNCHANGED doomed, Settle(Append(s, f), Nothing, life, kept)
  PROVE  IInv' /\ Stays(life', life)
<1> DEFINE st == Append(s, f)
<1>1. /\ st \in Seq(Frame) /\ Len(st) = Depth + 1 /\ st[Depth + 1] = f
      /\ \A i \in 1..Depth : SameFrame(st[i], stack[i])
  BY Frames, Pushed
<1> HIDE DEF st
<1>2. Upto(st, Depth + 1)
  BY <1>1, Frames DEF Upto, SameFrame
<1>3. ConstructionOf(st, life)
  BY <1>1, <1>2, SameLives, ConstructionStep
<1>4. ConstructionOf(Append(s, f), life)
  BY <1>3 DEF st
<1> QED
  BY <1>4, Frames, SameLives, PushInv

\* Entering a block keeps the invariant.
LEMMA BeginBlockInv ==
  ASSUME IInv, NEW k \in {"scope", "if", "loop", "try"}, BeginBlock(k)
  PROVE  IInv' /\ Stays(life', life)
<1> DEFINE f == NewFrame(k, ScopeOf(Depth), NoObj)
<1>1. stack # << >> /\ Top.mode = "runs" /\ ~Failure(result)
  BY InBlocks, Evaluations DEF BeginBlock
<1>2. f \in Frame
  BY <1>1, Scopes, NewFrames DEF Kinds, Bodies
<1>3. /\ f.kind = k /\ f.mode = (IF k = "loop" THEN "asks" ELSE "runs")
      /\ f.sole = {} /\ f.visit = Empty
  BY NewFrameFields
<1>4. UNCHANGED doomed /\ Settle(Append(Suspended, f), Nothing, life, kept)
  BY DEF BeginBlock, Push
<1> HIDE DEF f
<1> QED
  BY <1>1, <1>2, <1>3, <1>4, BeginInv

\* Beginning a let, return or operand keeps the invariant.
LEMMA BeginContextInv ==
  ASSUME IInv, NEW k \in Contexts, BeginContext(k)
  PROVE  IInv' /\ Stays(life', life)
<1> DEFINE f == NewFrame(k, ScopeOf(Depth), NoObj)
<1>1. stack # << >> /\ Top.mode # "cleans" /\ ~Failure(result) /\ (Top.mode = "asks" => k \in Awaited)
  <2>1. CASE Evaluating
    BY <2>1, Evaluations
  <2>2. CASE InBlock
    BY <2>2, InBlocks, Evaluations
  <2>3. CASE k \in {"operand", "element"} /\ In("asks") /\ result = Nothing
    BY <2>3 DEF In, Nothing, Just, Failure, Awaited
  <2> QED
    BY <2>1, <2>2, <2>3 DEF BeginContext
<1>2. f \in Frame
  BY <1>1, Scopes, NewFrames DEF Kinds
<1>3. f.kind = k /\ f.mode = "runs" /\ f.sole = {} /\ f.visit = Empty
  BY NewFrameFields DEF Contexts
<1>4. UNCHANGED doomed /\ Settle(Append(Suspended, f), Nothing, life, kept)
  BY DEF BeginContext, Push
<1> HIDE DEF f
<1> QED
  BY <1>1, <1>2, <1>3, <1>4, BeginInv DEF Contexts

\* A call keeps the invariant.
LEMMA BeginCallInv ==
  ASSUME IInv, NEW j \in DOMAIN stack, NEW o \in Obj \cup {NoObj}, BeginCall(j, o)
  PROVE  IInv' /\ Stays(life', life)
<1> DEFINE held == [p \in Obj |-> IF p = o THEN 1 ELSE 0]
           g == NewFrame("call", j, o)
           f == [g EXCEPT !.held = held]
<1>1. stack # << >> /\ Top.mode = "runs" /\ ~Failure(result)
  BY Evaluations DEF BeginCall
<1>2. g \in Frame /\ g.kind = "call" /\ g.mode = "runs" /\ g.sole = {} /\ g.visit = Empty
  BY Frames, NewFrames, NewFrameFields DEF Kinds, Bodies
<1>3. held \in [Obj -> 0..MaxHeld]
  BY ConstantAssumption
<1>4. /\ UNCHANGED doomed
      /\ \/ Settle(Append(Suspended, f), Nothing, life, kept)
         \/ Settle(Append(stack, f), Nothing, life, kept)
  BY DEF BeginCall, Push
<1> HIDE DEF held, g
<1>5. f \in Frame /\ f.kind = "call" /\ f.mode = "runs" /\ f.sole = {} /\ f.visit = Empty
  BY <1>2, <1>3 DEF Frame
<1> HIDE DEF f
<1> QED
  BY <1>1, <1>4, <1>5, BeginInv

\* A call of a method keeps the invariant.
LEMMA BeginMethodInv ==
  ASSUME IInv, NEW o \in Obj, BeginMethod(o)
  PROVE  IInv' /\ Stays(life', life)
<1> DEFINE f == NewFrame("method", ScopeOf(Depth), o)
<1>1. stack # << >> /\ Top.mode = "runs" /\ ~Failure(result)
  BY Evaluations DEF BeginMethod
<1>2. f \in Frame
  BY <1>1, Scopes, NewFrames DEF Kinds, Bodies
<1>3. f.kind = "method" /\ f.mode = "runs" /\ f.sole = {} /\ f.visit = Empty /\ f.obj = o
  BY NewFrameFields
<1>4. UNCHANGED doomed /\ Settle(Append(Suspended, f), Nothing, life, kept)
  BY DEF BeginMethod, Push
<1> HIDE DEF f
<1> QED
  BY <1>1, <1>2, <1>3, <1>4, BeginInv

\* Beginning a construction keeps the invariant.
LEMMA BeginConstructInv ==
  ASSUME IInv, NEW o \in Obj, BeginConstruct(o)
  PROVE  IInv' /\ Stays(life', life)
<1> DEFINE f == NewFrame("construct", ScopeOf(Depth), o)
           lf == [life EXCEPT ![o] = "constructing"]
           st == Append(Suspended, f)
<1>1. stack # << >> /\ Top.mode = "runs" /\ ~Failure(result) /\ life[o] = "unborn"
  BY Evaluations DEF BeginConstruct
<1>2. f \in Frame
  BY <1>1, Scopes, NewFrames DEF Kinds, Bodies
<1>3. f.kind = "construct" /\ f.mode = "runs" /\ f.sole = {} /\ f.visit = Empty /\ f.obj = o
  BY NewFrameFields
<1>4. UNCHANGED doomed /\ Settle(st, Nothing, lf, kept)
  BY DEF BeginConstruct, Push
<1> HIDE DEF f
<1>5. /\ st \in Seq(Frame) /\ Len(st) = Depth + 1 /\ st[Depth + 1] = f
      /\ \A i \in 1..Depth : SameFrame(st[i], stack[i])
  BY <1>1, <1>2, Frames, Pushed
<1> HIDE DEF st
<1>6. lf \in [Obj -> Lives] /\ lf[o] = "constructing" /\ \A p \in Obj \ {o} : lf[p] = life[p]
  BY Frames DEF Lives
<1> HIDE DEF lf
<1>7. Born(lf, Nothing) /\ Stays(lf, life)
  BY <1>1, <1>6 DEF Born, Stays
<1>8. ConstructionOf(st, lf)
  <2>1. /\ Depth \in Nat /\ DOMAIN stack = 1..Depth /\ DOMAIN st = 1..Depth + 1
        /\ \A i \in 1..Depth : st[i].kind = stack[i].kind /\ st[i].obj = stack[i].obj
    BY <1>5, Frames DEF SameFrame, SameControl
  <2>2. ASSUME NEW i \in 1..Depth, stack[i].kind \in {"construct", "destructor"}
        PROVE  stack[i].obj \in Obj \ {o}
    BY <2>1, <2>2, <1>1 DEF IInv, Shape, ShapeOf, Construction, ConstructionOf
  <2>3. ASSUME NEW i \in 1..Depth + 1
        PROVE  /\ st[i].kind = "construct" => lf[st[i].obj] = "constructing"
               /\ st[i].kind = "destructor" => lf[st[i].obj] \notin {"unborn", "constructing"}
    <3>1. CASE i \in 1..Depth
      BY <2>1, <2>2, <1>6, <3>1 DEF IInv, Construction, ConstructionOf
    <3>2. CASE i = Depth + 1
      BY <1>3, <1>5, <1>6, <3>2
    <3> QED
      BY <2>1, <3>1, <3>2
  <2>4. ASSUME NEW i \in 1..Depth + 1, NEW j \in 1..Depth + 1, st[i].kind = "construct",
               st[j].kind = "construct", st[i].obj = st[j].obj
        PROVE  i = j
    <3>1. CASE i \in 1..Depth /\ j \in 1..Depth
      BY <2>1, <2>4, <3>1 DEF IInv, Construction, ConstructionOf
    <3>2. CASE i \in 1..Depth /\ j = Depth + 1
      BY <2>1, <2>2, <2>4, <1>3, <1>5, <3>2
    <3>3. CASE i = Depth + 1 /\ j \in 1..Depth
      BY <2>1, <2>2, <2>4, <1>3, <1>5, <3>3
    <3> QED
      BY <2>1, <3>1, <3>2, <3>3
  <2> QED
    BY <2>1, <2>3, <2>4 DEF ConstructionOf
<1>9. Settle(Append(Suspended, f), Nothing, lf, kept) /\ ConstructionOf(Append(Suspended, f), lf)
  BY <1>4, <1>8 DEF st
<1> QED
  BY <1>1, <1>2, <1>3, <1>4, <1>6, <1>7, <1>9, PushInv

-----------------------------------------------------------------------------
(* What frames make of a failure that is to end the program. *)

\* What n frames let pass, the m lowest of them let pass.
LEMMA CarriedBelow ==
  ASSUME NEW n \in Nat, NEW m \in 0..n, NEW v, Carried(stack, n, v)
  PROVE  Carried(stack, m, v)
<1>1. ASSUME NEW i \in 1..m
      PROVE  /\ i \in 1..n
             /\ ReturnAbove(stack, i, m) => ReturnAbove(stack, i, n)
             /\ TwoReturnsAbove(stack, i, m) => TwoReturnsAbove(stack, i, n)
  <2>1. i \in 1..n /\ \A k \in i + 1..m : k \in i + 1..n
    OBVIOUS
  <2> QED
    BY <2>1 DEF ReturnAbove, TwoReturnsAbove
<1> QED
  BY <1>1 DEF Carried

\* Where any failure passes, an error that no return wraps does.
LEMMA CarriedError ==
  ASSUME NEW n, NEW v, Carried(stack, n, v)
  PROVE  Carried(stack, n, Just("error"))
  BY DEF Carried, Just, Failure

\* So does the same failure with a return less around it.
LEMMA CarriedUnwrapped ==
  ASSUME NEW n, NEW v \in Value, Carried(stack, n, v)
  PROVE  Carried(stack, n, Unwrapped(v))
<1>1. /\ Unwrapped(v).of = v.of /\ v.returns \in Nat
      /\ Unwrapped(v).returns = IF v.returns > 0 THEN v.returns - 1 ELSE 0
  BY ConstantAssumption DEF Unwrapped, Value
<1>2. v = Just("error") => Unwrapped(v) = Just("error")
  BY DEF Unwrapped, Just
<1> QED
  BY <1>1, <1>2 DEF Carried, Failure

\* So does the same failure without its returns.
LEMMA CarriedPlain ==
  ASSUME NEW n, NEW v \in Value, Carried(stack, n, v)
  PROVE  Carried(stack, n, Just(v.of))
<1>1. Just(v.of).of = v.of /\ Just(v.of).returns = 0 /\ (v = Just("error") => Just(v.of) = Just("error"))
  BY DEF Just
<1> QED
  BY <1>1 DEF Carried, Failure

\* A return statement wraps a failure, and the frames below let it pass.
LEMMA CarriedReturn ==
  ASSUME IInv, stack # << >>, Top.kind = "return", NEW v \in Value, Carried(stack, Depth, v),
         NEW w, w.of = v.of, w.returns = v.returns + 1
  PROVE  Carried(stack, Depth - 1, w)
<1>1. Depth \in Nat /\ Depth > 0 /\ Top = stack[Depth] /\ v.returns \in Nat
  BY Frames, ConstantAssumption DEF Value
<1>2. ASSUME NEW i \in 1..Depth - 1
      PROVE  /\ stack[i].kind \notin {"try", "element"}
             /\ stack[i].kind \notin {"let", "operand", "construct"}
             /\ stack[i].kind = "destructor"
                  => /\ w.returns = 0 \/ (w.returns = 1 /\ ~ReturnAbove(stack, i, Depth - 1))
                     /\ ~TwoReturnsAbove(stack, i, Depth - 1)
  <2>1. i \in 1..Depth /\ Depth \in i + 1..Depth /\ \A k \in i + 1..Depth - 1 : k \in i + 1..Depth /\ k # Depth
    BY <1>1
  <2>2. ReturnAbove(stack, i, Depth)
    BY <1>1, <2>1 DEF ReturnAbove
  <2>3. TwoReturnsAbove(stack, i, Depth - 1) => TwoReturnsAbove(stack, i, Depth)
    BY <2>1 DEF TwoReturnsAbove
  <2>4. ReturnAbove(stack, i, Depth - 1) => TwoReturnsAbove(stack, i, Depth)
    BY <1>1, <2>1 DEF ReturnAbove, TwoReturnsAbove
  <2> QED
    BY <1>1, <2>1, <2>2, <2>3, <2>4 DEF Carried
<1> QED
  BY <1>2 DEF Carried, Failure

-----------------------------------------------------------------------------
(* Statements and expressions end. *)

\* What is left of the references of a frame that ends.
LEMMA LeftType ==
  ASSUME NEW kp \in [Obj -> 0..MaxHeld], NEW f \in Frame
  PROVE  LeftOf(kp, f) \in [Obj -> 0..MaxHeld]
<1>1. f.held \in [Obj -> 0..MaxHeld]
  BY DEF Frame
<1> QED
  BY <1>1, ConstantAssumption DEF LeftOf, Capped

\* The frames below the innermost keep their variables.
LEMMA BelowFrames ==
  ASSUME IInv, stack # << >>
  PROVE  /\ Resumed(Below) \in Seq(Frame) /\ Len(Resumed(Below)) = Depth - 1
         /\ DOMAIN Resumed(Below) = 1..Depth - 1
         /\ \A i \in 1..Depth - 1 : SameCounts(Resumed(Below)[i], stack[i])
         /\ VisitsOf(Resumed(Below))
<1>1. /\ Depth \in Nat /\ Depth > 0 /\ Below \in Seq(Frame) /\ Len(Below) = Depth - 1
      /\ \A i \in 1..Depth - 1 : Below[i] = stack[i]
  BY Frames, Lower DEF Below
<1>2. /\ Resumed(Below) \in Seq(Frame) /\ Len(Resumed(Below)) = Depth - 1
      /\ \A i \in 1..Depth - 1 : SameFrame(Resumed(Below)[i], Below[i])
  BY <1>1, ResumedFrames
<1>3. \A i \in 1..Depth - 1 : SameFrame(Resumed(Below)[i], stack[i])
  BY <1>1, <1>2
<1>4. DOMAIN Resumed(Below) = 1..Depth - 1
  BY <1>2
<1>5. VisitsOf(Resumed(Below))
  <2>1. \A i \in 1..Depth - 1 : i \in DOMAIN stack
    BY Frames
  <2> QED
    BY <1>3, <1>4, <2>1 DEF IInv, Visits, VisitsOf, SameFrame
<1> QED
  BY <1>2, <1>3, <1>4, <1>5, SameFrames

\* A failure that is being passed on is carried by the frames below.
LEMMA PassedOn ==
  ASSUME IInv, stack # << >>, Passing
  PROVE  Carried(stack, Depth - 1, Leaving(stack, result))
<1>1. Depth \in Nat /\ Depth - 1 \in 0..Depth
  BY Frames
<1> QED
  BY <1>1, CarriedBelow DEF Passing

\* The end of a frame: a failure is passed on and the frames below keep the invariant.
LEMMA EndInv ==
  ASSUME IInv, stack # << >>, Top.kind # "destructor",
         NEW st \in Seq(Frame), Len(st) = Depth - 1, VisitsOf(st),
         \A i \in 1..Depth - 1 : SameCounts(st[i], stack[i]),
         NEW r \in Value, NEW lf \in [Obj -> Lives], NEW kp \in [Obj -> 0..MaxHeld],
         Born(lf, r), Conceived(st, lf), Stays(lf, life),
         Passing => /\ Carried(stack, Depth - 1, r)
                    /\ Top.kind \in Awaited => r = Just("error"),
         UNCHANGED doomed, Settle(st, r, lf, kp)
  PROVE  IInv' /\ Stays(life', life)
<1>1. DOMAIN st = 1..Depth - 1
  OBVIOUS
<1>2. Depth \in Nat /\ Depth > 0 /\ DOMAIN stack = 1..Depth /\ Depth = Len(stack) /\ Top = stack[Depth]
  BY Frames
<1>3. \A i \in 1..Depth - 1 : SameControl(st[i], stack[i])
  BY DEF SameCounts
<1>5. VisitedOf(st, kp, r, lf)
  <2>1. CASE Depth = 1
    BY <1>1, <2>1 DEF VisitedOf
  <2>2. CASE Depth > 1
    <3> DEFINE m == Depth - 1
    <3>1. m \in 1..Depth + 1 /\ m \in 1..Depth - 1 /\ m < Len(stack) /\ m + 1 = Depth /\ m \in DOMAIN stack
      BY <1>2, <2>2
    <3>2. \A i \in 1..m - 1 : i \in 1..Depth - 1
      BY <1>2
    <3>3. Len(st) = m
      BY <1>1
    <3>4. SameControl(st[m], stack[m])
      BY <1>3, <3>1
    <3>5. ShapeOf(stack)!(m)
      BY <3>1 DEF IInv, Shape, ShapeOf
    <3> HIDE DEF m
    <3>6. Upto(st, m)
      BY <1>1, <1>3, <3>1, <3>2, <3>3 DEF Upto
    <3>7. st[m].mode # "cleans"
      BY <1>2, <3>1, <3>4, <3>5 DEF SameControl
    <3>8. \A i \in 1..m - 1 : SameCounts(st[i], stack[i])
      BY <3>2
    <3>9. m <= Depth /\ SameControl(st[m], stack[m])
      BY <3>1, <3>4, <1>2
    <3> QED
      BY <3>6, <3>7, <3>8, <3>9, VisitedStep
  <2> QED
    BY <1>2, <2>1, <2>2
<1> QED
  BY <1>3, <1>5, PopInv

\* The same, with nothing but the frame and what it had captured changed.
LEMMA PopsInv ==
  ASSUME IInv, stack # << >>, Top.kind # "destructor", NEW r \in Value,
         Passing => /\ Carried(stack, Depth - 1, r)
                    /\ Top.kind \in Awaited => r = Just("error"),
         UNCHANGED doomed, Pop(r)
  PROVE  IInv' /\ Stays(life', life)
<1>1. Left(Top) \in [Obj -> 0..MaxHeld]
  BY Frames, LeftType DEF Left
<1>2. Settle(Resumed(Below), r, life, Left(Top))
  BY DEF Pop
<1> QED
  BY <1>1, <1>2, Frames, BelowFrames, SameLives, EndInv

\* An error takes the place of any failure, and of anything else.
LEMMA PopErrorInv ==
  ASSUME IInv, stack # << >>, Top.kind # "destructor", UNCHANGED doomed, Pop(Just("error"))
  PROVE  IInv' /\ Stays(life', life)
<1>1. Just("error") \in Value
  BY Values DEF Plain
<1>2. Passing => Carried(stack, Depth - 1, Just("error"))
  BY PassedOn, CarriedError
<1> QED
  BY <1>1, <1>2, PopsInv

\* A step that changes no frame keeps the invariant.
LEMMA SameStackInv ==
  ASSUME IInv, UNCHANGED <<stack, result, life, kept, doomed>>, fault' \in Faults
  PROVE  IInv' /\ Stays(life', life)
<1>1. /\ stack' = stack /\ result' = result /\ life' = life /\ kept' = kept /\ UNCHANGED doomed
      /\ fault' \in {"none", "null pointer", "dangling"}
  BY DEF Faults
<1>2. TypeOK'
  BY <1>1 DEF IInv, TypeOK
<1>3. Shape' /\ Visits'
  BY <1>1 DEF IInv, Shape, Visits
<1>4. Doom'
  <2>1. ASSUME doomed' PROVE DoomOf(stack', result')
    <3>1. doomed
      BY <1>1, <2>1
    <3>2. DoomOf(stack, result)
      BY <3>1 DEF IInv, Doom
    <3> QED
      BY <1>1, <3>2
  <2> QED
    BY <2>1 DEF Doom
<1>5. Soles' /\ Visited' /\ Construction'
  BY <1>1 DEF IInv, Soles, Visited, Construction
<1>6. Stays(life', life)
  BY <1>1, SameLives
<1> QED
  BY <1>2, <1>3, <1>4, <1>5, <1>6 DEF IInv

\* The interpreter has run into undefined behaviour: it goes no further.
LEMMA CrashInv ==
  ASSUME IInv, Crash, UNCHANGED doomed
  PROVE  IInv' /\ Stays(life', life)
  BY SameStackInv DEF Crash, Faults

\* A body's value is set aside until its frame's objects are destructed.
LEMMA CleanInv ==
  ASSUME IInv, In("runs"), NEW r \in Value, Clean(r), UNCHANGED doomed,
         Top.kind \in {"scope", "if", "loop", "call", "method", "construct"},
         Top.kind = "construct" => r # Just("error"),
         Carried(stack, Depth, result) => Carried(stack, Depth, r)
  PROVE  IInv' /\ Stays(life', life)
<1> DEFINE sole == {o \in Obj : Top.held[o] = 1}
           f == [Top EXCEPT !.mode = "cleans", !.saved = r, !.visit = Top.held, !.sole = sole]
<1>1. stack # << >> /\ Top.mode = "runs" /\ Top \in Frame /\ Top = stack[Depth]
  BY Frames DEF In
<1>2. sole \in SUBSET Obj /\ \A o \in sole : Top.held[o] = 1
  OBVIOUS
<1>3. Top.held \in [Obj -> 0..MaxHeld]
  BY <1>1 DEF Frame
<1>4. UNCHANGED doomed /\ Settle(Append(Below, f), Nothing, life, kept)
  BY DEF Clean
<1> HIDE DEF sole
<1>5. /\ f \in Frame /\ f.kind = Top.kind /\ f.obj = Top.obj /\ f.mode = "cleans" /\ f.saved = r
      /\ f.visit = Top.held /\ f.held = Top.held /\ f.sole = sole
  BY <1>1, <1>2, <1>3 DEF Frame
<1> HIDE DEF f
<1>6. \A o \in f.sole : f.visit[o] # 0
  BY <1>2, <1>5
<1>7. \A o \in Obj : f.visit[o] <= f.held[o]
  BY <1>3, <1>5, ConstantAssumption
<1>8. Passing => Carried(stack, Depth, f.saved)
  BY <1>1, <1>5, Frames DEF Passing, Leaving
<1> QED
  BY <1>1, <1>4, <1>5, <1>6, <1>7, <1>8, Frames, ReplaceInv

\* The end of a body keeps the invariant.
LEMMA EndBodyInv ==
  ASSUME IInv, EndBody
  PROVE  IInv' /\ Stays(life', life)
<1>1. In("runs") /\ UNCHANGED doomed /\ Top.kind \in {"scope", "if", "loop", "call"}
  BY DEF EndBody
<1>2. CASE Crash
  BY <1>1, <1>2, CrashInv
<1>3. CASE Clean(result)
  BY <1>1, <1>3, Frames, CleanInv
<1>4. CASE Clean(Unwrapped(result)) /\ Top.kind = "call"
  <2>1. Unwrapped(result) \in Value
    BY Frames, Values
  <2>2. Carried(stack, Depth, result) => Carried(stack, Depth, Unwrapped(result))
    BY Frames, CarriedUnwrapped
  <2> QED
    BY <1>1, <1>4, <2>1, <2>2, CleanInv
<1> QED
  BY <1>2, <1>3, <1>4 DEF EndBody

\* The end of a method keeps the invariant.
LEMMA EndMethodInv ==
  ASSUME IInv, EndMethod
  PROVE  IInv' /\ Stays(life', life)
<1>1. In("runs") /\ stack # << >> /\ UNCHANGED doomed /\ Top.kind \in {"method", "construct"}
  BY DEF EndMethod, In
<1>2. CASE Crash
  BY <1>1, <1>2, CrashInv
<1>3. CASE Unwrapped(result) # Just("error") /\ Clean(Unwrapped(result))
  <2>1. Unwrapped(result) \in Value
    BY Frames, Values
  <2>2. Carried(stack, Depth, result) => Carried(stack, Depth, Unwrapped(result))
    BY Frames, CarriedUnwrapped
  <2> QED
    BY <1>1, <1>3, <2>1, <2>2, CleanInv
<1>4. CASE Pop(Just("error"))
  BY <1>1, <1>4, PopErrorInv
<1> QED
  BY <1>2, <1>3, <1>4 DEF EndMethod

\* What the innermost frame can pass on.
LEMMA Passes ==
  ASSUME IInv, stack # << >>, Passing
  PROVE  /\ Failure(Leaving(stack, result)) /\ Top.kind \notin {"try", "element"}
         /\ Top.kind \in {"let", "operand", "construct"} => Leaving(stack, result) = Just("error")
<1>1. Depth \in 1..Depth /\ Top = stack[Depth]
  BY Frames
<1> QED
  BY <1>1 DEF Passing, Carried

\* What leaves the innermost frame is what it has set aside, if it is cleaned.
LEMMA LeavingTop ==
  ASSUME IInv, stack # << >>
  PROVE  Leaving(stack, result) = IF Top.mode = "cleans" THEN Top.saved ELSE result
  BY Frames DEF Leaving

\* The shape of the innermost frame.
LEMMA ShapeOfTop ==
  ASSUME IInv, stack # << >>
  PROVE  /\ Top.kind \in {"method", "construct", "destructor"} => Top.obj \in Obj
         /\ Top.mode = "asks" => Top.kind = "loop"
         /\ Top.mode = "cleans" =>
              /\ Top.kind \in {"scope", "if", "loop", "call", "method", "construct"}
              /\ Top.kind = "construct" => Top.saved # Just("error")
         /\ Top.kind = "destructor" =>
              Top.mode = "runs" /\ Depth > 1 /\ stack[Depth - 1].mode = "cleans"
         /\ \A o \in Obj : Top.visit[o] <= Top.held[o]
<1>1. Depth \in DOMAIN stack /\ Top = stack[Depth]
  BY Frames
<1>2. ShapeOf(stack)!(Depth) /\ \A o \in Obj : Top.visit[o] <= Top.held[o]
  BY <1>1 DEF IInv, Shape, ShapeOf, Visits, VisitsOf
<1> QED
  BY <1>1, <1>2

\* A scope that is left through its end.
LEMMA LeaveInv ==
  ASSUME IInv, Leave
  PROVE  IInv' /\ Stays(life', life)
<1>1. stack # << >> /\ Top.mode = "cleans" /\ UNCHANGED doomed /\ Top \in Frame
  BY Frames DEF Leave, In
<1>2. Leaving(stack, result) = Top.saved /\ Top.saved \in Value
  BY <1>1, LeavingTop DEF Frame
<1>3. CASE Top.kind \in {"scope", "if", "call", "method", "loop"} /\ Pop(Top.saved)
  BY <1>1, <1>2, <1>3, PassedOn, PopsInv DEF Awaited
<1>4. CASE /\ Top.kind = "construct"
           /\ Settle(Resumed(Below), Just(Top.obj), [life EXCEPT ![Top.obj] = "alive"], Left(Top))
  <2> DEFINE lf == [life EXCEPT ![Top.obj] = "alive"]
             st == Resumed(Below)
  <2>1. Top.obj \in Obj /\ ~Passing
    BY <1>1, <1>2, <1>4, ShapeOfTop, Passes
  <2>2. lf \in [Obj -> Lives] /\ lf[Top.obj] = "alive" /\ \A o \in Obj \ {Top.obj} : lf[o] = life[o]
    BY <2>1, Frames DEF Lives
  <2>3. Just(Top.obj) \in Value /\ Just(Top.obj).of = Top.obj
    BY <2>1, Values DEF Just
  <2>4. Depth \in DOMAIN stack /\ Top = stack[Depth] /\ Depth \in Nat /\ DOMAIN stack = 1..Depth
    BY <1>1, Frames
  <2>5. life[Top.obj] = "constructing"
    BY <1>4, <2>4 DEF IInv, Construction, ConstructionOf
  <2> HIDE DEF lf, st
  <2>6. Born(lf, Just(Top.obj)) /\ Stays(lf, life)
    BY <2>2, <2>3, <2>5 DEF Born, Stays
  <2>7. DOMAIN st = 1..Depth - 1 /\ \A i \in 1..Depth - 1 : SameCounts(st[i], stack[i])
    BY <1>1, BelowFrames DEF st
  <2>8. ASSUME NEW i \in DOMAIN st, st[i].kind = "construct" PROVE st[i].obj \in Obj \ {Top.obj}
    <3>1. i \in 1..Depth /\ i # Depth /\ stack[i].kind = "construct" /\ stack[i].obj = st[i].obj
      BY <2>4, <2>7, <2>8 DEF SameCounts, SameControl
    <3> QED
      BY <3>1, <2>4, <1>4 DEF IInv, Shape, ShapeOf, Construction, ConstructionOf
  <2>9. Conceived(st, lf)
    BY <2>2, <2>5, <2>8 DEF Conceived
  <2>10. Settle(st, Just(Top.obj), lf, Left(Top))
    BY <1>4 DEF st, lf
  <2>11. Left(Top) \in [Obj -> 0..MaxHeld]
    BY <1>1, Frames, LeftType DEF Left
  <2>12. st \in Seq(Frame) /\ Len(st) = Depth - 1 /\ VisitsOf(st)
    BY <1>1, BelowFrames DEF st
  <2>13. Top.kind # "destructor"
    BY <1>4
  <2> QED
    BY <1>1, <2>1, <2>2, <2>3, <2>6, <2>7, <2>9, <2>10, <2>11, <2>12, <2>13, EndInv
<1>5. CASE Crash
  BY <1>1, <1>5, CrashInv
<1>6. CASE Top.kind = "loop" /\ Top.saved = Just("break") /\ Pop(Just("value"))
  <2>1. Just("value") \in Value /\ ~Failure(Top.saved)
    BY <1>6, Values DEF Plain, Just, Failure
  <2> QED
    BY <1>1, <1>2, <1>6, <2>1, Passes, PopsInv
<1>7. CASE /\ Top.kind = "loop" /\ ~EndsLoop(Top.saved)
           /\ Settle(Append(Below, [Top EXCEPT !.mode = "asks"]), Nothing, life, kept)
  <2> DEFINE f == [Top EXCEPT !.mode = "asks"]
  <2>1. ~Passing
    BY <1>1, <1>2, <1>7, Passes DEF EndsLoop, Failure
  <2>2. /\ f \in Frame /\ f.kind = "loop" /\ f.mode = "asks" /\ f.visit = Top.visit /\ f.held = Top.held
    BY <1>1, <1>7 DEF Frame
  <2>3. Settle(Append(Below, f), Nothing, life, kept) /\ Top.kind \notin {"destructor", "operand", "element"}
    BY <1>7
  <2>4. \A o \in Obj : f.visit[o] <= f.held[o]
    BY <1>1, <2>2, ShapeOfTop
  <2> HIDE DEF f
  <2> QED
    BY <1>1, <2>1, <2>2, <2>3, <2>4, Frames, ReplaceInv
<1> QED
  BY <1>3, <1>4, <1>5, <1>6, <1>7 DEF Leave

\* The condition or the iterator of a loop.
LEMMA AskInv ==
  ASSUME IInv, Ask
  PROVE  IInv' /\ Stays(life', life)
<1>1. stack # << >> /\ Top.mode = "asks" /\ UNCHANGED doomed /\ Top \in Frame
  BY Frames DEF Ask, In
<1>2. Top.kind = "loop"
  BY <1>1, ShapeOfTop
<1>3. result # Just("error") => ~Passing
  BY <1>1 DEF Passing
<1>4. CASE /\ result # Just("error")
           /\ Settle(Append(Below, [NewFrame("loop", Top.outer, NoObj) EXCEPT !.mode = "runs"]),
                     Nothing, life, Left(Top))
  <2> DEFINE g == NewFrame("loop", Top.outer, NoObj)
             f == [g EXCEPT !.mode = "runs"]
  <2>1. g \in Frame /\ g.kind = "loop" /\ g.visit = Empty /\ g.held = Empty
    BY <1>1, NewFrames, NewFrameFields DEF Frame, Kinds, Bodies
  <2>2. Settle(Append(Below, f), Nothing, life, Left(Top))
    BY <1>4
  <2> HIDE DEF g
  <2>3. f \in Frame /\ f.kind = "loop" /\ f.mode = "runs" /\ f.visit = Empty /\ f.held = Empty
    BY <2>1 DEF Frame
  <2>4. \A o \in Obj : f.visit[o] <= f.held[o]
    BY <2>3, EmptyCounts
  <2>5. Left(Top) \in [Obj -> 0..MaxHeld]
    BY <1>1, Frames, LeftType DEF Left
  <2> HIDE DEF f
  <2> QED
    BY <1>1, <1>2, <1>3, <1>4, <2>2, <2>3, <2>4, <2>5, ReplaceInv
<1>5. CASE result # Just("error") /\ Pop(Just("value"))
  <2>1. Just("value") \in Value
    BY Values DEF Plain
  <2> QED
    BY <1>1, <1>2, <1>3, <1>5, <2>1, PopsInv
<1>6. CASE Pop(Just("error"))
  BY <1>1, <1>2, <1>6, PopErrorInv
<1> QED
  BY <1>4, <1>5, <1>6 DEF Ask

\* The end of a try keeps the invariant.
LEMMA EndTryInv ==
  ASSUME IInv, EndTry
  PROVE  IInv' /\ Stays(life', life)
<1>1. stack # << >> /\ Top.kind = "try" /\ UNCHANGED doomed /\ Top \in Frame
  BY Frames DEF EndTry, In
<1>2. ~Passing
  BY <1>1, Passes
<1>3. CASE Crash
  BY <1>1, <1>3, CrashInv
<1>4. CASE Settle(Append(Below, NewFrame("except", Top.outer, NoObj)), Nothing, life, Left(Top))
  <2> DEFINE f == NewFrame("except", Top.outer, NoObj)
  <2>1. f \in Frame /\ f.kind = "except" /\ f.mode = "runs" /\ f.visit = Empty /\ f.held = Empty
    BY <1>1, NewFrames, NewFrameFields DEF Frame, Kinds, Bodies
  <2>2. Settle(Append(Below, f), Nothing, life, Left(Top))
    BY <1>4
  <2> HIDE DEF f
  <2>3. \A o \in Obj : f.visit[o] <= f.held[o]
    BY <2>1, EmptyCounts
  <2>4. Left(Top) \in [Obj -> 0..MaxHeld]
    BY <1>1, Frames, LeftType DEF Left
  <2> QED
    BY <1>1, <1>2, <2>1, <2>2, <2>3, <2>4, ReplaceInv
<1>5. CASE Pop(Just("value"))
  <2>1. Just("value") \in Value
    BY Values DEF Plain
  <2> QED
    BY <1>1, <1>2, <1>5, <2>1, PopsInv
<1> QED
  BY <1>3, <1>4, <1>5 DEF EndTry

\* The end of an except keeps the invariant.
LEMMA EndExceptInv ==
  ASSUME IInv, EndExcept
  PROVE  IInv' /\ Stays(life', life)
<1>1. stack # << >> /\ Top.kind = "except" /\ Top.mode = "runs" /\ UNCHANGED doomed /\ Pop(result)
  BY DEF EndExcept, In
<1>2. Leaving(stack, result) = result /\ result \in Value
  BY <1>1, Frames, LeavingTop
<1> QED
  BY <1>1, <1>2, PassedOn, PopsInv DEF Awaited

\* A variable or a container is given the object.
LEMMA EndLetInv ==
  ASSUME IInv, EndLet
  PROVE  IInv' /\ Stays(life', life)
<1> DEFINE o == result.of
           j == Top.outer
<1>1. /\ stack # << >> /\ Top.kind = "let" /\ Top.mode = "runs" /\ UNCHANGED doomed
      /\ Top \in Frame /\ result \in Value /\ kept \in [Obj -> 0..MaxHeld] /\ life \in [Obj -> Lives]
  BY Frames DEF EndLet, In
<1>2. Leaving(stack, result) = result
  BY <1>1, LeavingTop
<1>3. o \in Obj => ~Passing
  BY <1>1, <1>2, Passes, ConstantAssumption DEF Failure, Plain
<1>4. Just("value") \in Value
  BY Values DEF Plain
<1>5. CASE /\ o \in Obj /\ stack[j].held[o] < MaxHeld
           /\ Settle(Resumed([Below EXCEPT ![j].held[o] = @ + 1]), Just("value"), life, kept)
  <2> DEFINE b == [Below EXCEPT ![j].held[o] = @ + 1]
  <2>1. /\ Depth \in Nat /\ Depth > 0 /\ Below \in Seq(Frame) /\ Len(Below) = Depth - 1
        /\ DOMAIN Below = 1..Depth - 1 /\ DOMAIN stack = 1..Depth
        /\ \A i \in 1..Depth - 1 : Below[i] = stack[i] /\ stack[i] \in Frame
    <3>1. Depth \in Nat /\ Depth > 0 /\ Below \in Seq(Frame) /\ Len(Below) = Depth - 1
      BY <1>1, Frames, Lower DEF Below
    <3>2. \A i \in 1..Depth - 1 : Below[i] = stack[i]
      BY <1>1, Frames, Lower DEF Below
    <3> QED
      BY <3>1, <3>2, Frames
  <2>2. /\ b \in Seq(Frame) /\ Len(b) = Depth - 1
        /\ \A i \in 1..Depth - 1 : SameCounts(b[i], stack[i])
        /\ \A i \in 1..Depth - 1 : \A p \in Obj : b[i].visit[p] <= b[i].held[p]
    <3>1. \A i \in 1..Depth - 1 : \A p \in Obj : stack[i].visit[p] <= stack[i].held[p]
      BY <2>1 DEF IInv, Visits, VisitsOf
    <3>2. CASE j \notin 1..Depth - 1
      <4>1. b = Below
        BY <2>1, <3>2
      <4> QED
        BY <2>1, <3>1, <4>1 DEF SameCounts, SameControl
    <3>3. CASE j \in 1..Depth - 1
      <4> DEFINE held == [stack[j].held EXCEPT ![o] = @ + 1]
                 f == [stack[j] EXCEPT !.held = held]
      <4>1. stack[j] \in Frame /\ b = [Below EXCEPT ![j] = f] /\ j \in DOMAIN Below
        BY <2>1, <3>3
      <4>2. stack[j].held \in [Obj -> 0..MaxHeld] /\ stack[j].visit \in [Obj -> 0..MaxHeld]
        BY <4>1 DEF Frame
      <4>3. held \in [Obj -> 0..MaxHeld] /\ \A p \in Obj : stack[j].held[p] <= held[p]
        BY <1>5, <4>2, ConstantAssumption
      <4> HIDE DEF held
      <4>4. f \in Frame /\ f.held = held /\ f.visit = stack[j].visit /\ SameCounts(f, stack[j])
        BY <4>1, <4>3 DEF Frame, SameCounts, SameControl
      <4>5. ASSUME NEW p \in Obj PROVE f.visit[p] <= f.held[p]
        <5>1. /\ stack[j].visit[p] \in Int /\ stack[j].held[p] \in Int /\ held[p] \in Int
              /\ stack[j].visit[p] <= stack[j].held[p] /\ stack[j].held[p] <= held[p]
          BY <3>1, <3>3, <4>2, <4>3, ConstantAssumption
        <5> QED
          BY <4>4, <5>1
      <4> HIDE DEF f, b
      <4>6. /\ b \in Seq(Frame) /\ Len(b) = Depth - 1 /\ b[j] = f
            /\ \A i \in 1..(Depth - 1) \ {j} : b[i] = Below[i]
        BY <2>1, <4>1, <4>4, Updated
      <4> QED
        BY <2>1, <3>1, <4>4, <4>5, <4>6 DEF SameCounts, SameControl
    <3> QED
      BY <3>2, <3>3
  <2>3. Settle(Resumed(b), Just("value"), life, kept)
    BY <1>5
  <2> HIDE DEF b
  <2> DEFINE st == Resumed(b)
  <2>4. st \in Seq(Frame) /\ Len(st) = Depth - 1 /\ \A i \in 1..Depth - 1 : SameFrame(st[i], b[i])
    BY <2>2, ResumedFrames
  <2>5. Settle(st, Just("value"), life, kept)
    BY <2>3
  <2> HIDE DEF st
  <2>6. \A i \in 1..Depth - 1 : SameCounts(st[i], stack[i])
    BY <2>2, <2>4 DEF SameFrame, SameCounts, SameControl
  <2>7. VisitsOf(st)
    <3>1. DOMAIN st = 1..Depth - 1
      BY <2>4
    <3> QED
      BY <2>2, <2>4, <3>1 DEF VisitsOf, SameFrame
  <2> QED
    BY <1>1, <1>3, <1>4, <1>5, <2>4, <2>5, <2>6, <2>7, SameLives, EndInv
<1>6. CASE /\ o \in Obj /\ kept[o] < MaxHeld
           /\ Settle(Resumed(Below), Just("value"), life, [kept EXCEPT ![o] = @ + 1])
  <2>1. [kept EXCEPT ![o] = @ + 1] \in [Obj -> 0..MaxHeld]
    BY <1>1, <1>6, ConstantAssumption
  <2> QED
    BY <1>1, <1>3, <1>4, <1>6, <2>1, BelowFrames, SameLives, EndInv
<1>7. CASE result # Just("error") /\ Pop(Just("value"))
  BY <1>1, <1>2, <1>4, <1>7, Passes, PopsInv
<1>8. CASE Pop(Just("error"))
  BY <1>1, <1>8, PopErrorInv
<1> QED
  BY <1>5, <1>6, <1>7, <1>8 DEF EndLet

\* The end of a return statement keeps the invariant.
LEMMA EndReturnInv ==
  ASSUME IInv, EndReturn
  PROVE  IInv' /\ Stays(life', life)
<1> DEFINE r == [result EXCEPT !.returns = @ + 1]
<1>1. /\ stack # << >> /\ Top.kind = "return" /\ Top.mode = "runs" /\ UNCHANGED doomed /\ Pop(r)
      /\ result \in Value /\ result.returns < MaxReturns
  BY Frames DEF EndReturn, In
<1>2. r \in Value /\ r.of = result.of /\ r.returns = result.returns + 1
  BY <1>1, ConstantAssumption DEF Value
<1> HIDE DEF r
<1>3. Passing => Carried(stack, Depth - 1, r)
  BY <1>1, <1>2, LeavingTop, CarriedReturn DEF Passing
<1> QED
  BY <1>1, <1>2, <1>3, PopsInv DEF Awaited

\* The end of an operand keeps the invariant.
LEMMA EndOperandInv ==
  ASSUME IInv, EndOperand
  PROVE  IInv' /\ Stays(life', life)
<1>1. stack # << >> /\ Top.kind = "operand" /\ Top.mode = "runs" /\ UNCHANGED doomed
  BY DEF EndOperand, In
<1>2. CASE result # Just("error") /\ Pop(Just("value"))
  <2>1. ~Passing
    BY <1>1, <1>2, LeavingTop, Passes
  <2>2. Just("value") \in Value
    BY Values DEF Plain
  <2> QED
    BY <1>1, <1>2, <2>1, <2>2, PopsInv
<1>3. CASE Pop(Just("error"))
  BY <1>1, <1>3, PopErrorInv
<1> QED
  BY <1>2, <1>3 DEF EndOperand

\* The end of an element keeps the invariant.
LEMMA EndElementInv ==
  ASSUME IInv, EndElement
  PROVE  IInv' /\ Stays(life', life)
<1>1. stack # << >> /\ Top.kind = "element" /\ Top.mode = "runs" /\ UNCHANGED doomed
  BY DEF EndElement, In
<1>2. CASE Pop(Just("value"))
  <2>1. ~Passing
    BY <1>1, Passes
  <2>2. Just("value") \in Value
    BY Values DEF Plain
  <2> QED
    BY <1>1, <1>2, <2>1, <2>2, PopsInv
<1>3. CASE Pop(Just("error"))
  BY <1>1, <1>3, PopErrorInv
<1> QED
  BY <1>2, <1>3 DEF EndElement

\* The end of the program keeps the invariant.
LEMMA EndProgramInv ==
  ASSUME IInv, EndProgram
  PROVE  IInv' /\ Stays(life', life)
<1>1. /\ stack # << >> /\ Top.kind = "program" /\ Top.mode = "runs" /\ UNCHANGED doomed
      /\ Pop(Just(result.of)) /\ result \in Value
  BY Frames DEF EndProgram, In
<1>2. Just(result.of) \in Value
  BY <1>1, Values DEF Value
<1>3. Passing => Carried(stack, Depth - 1, Just(result.of))
  BY <1>1, LeavingTop, PassedOn, CarriedPlain
<1> QED
  BY <1>1, <1>2, <1>3, PopsInv DEF Awaited

-----------------------------------------------------------------------------
(* Destructors. *)

\* Looking at a variable at the end of its scope keeps the invariant.
LEMMA VisitInv ==
  ASSUME IInv, NEW o \in Obj, Visit(o)
  PROVE  IInv' /\ Stays(life', life)
<1> DEFINE visit == [Top.visit EXCEPT ![o] = @ - 1]
           f == [Top EXCEPT !.visit = visit]
           g == NewFrame("destructor", Depth, o)
           lf == [life EXCEPT ![o] = "destructing"]
<1>1. /\ stack # << >> /\ Top.mode = "cleans" /\ Top.visit[o] > 0 /\ UNCHANGED doomed
      /\ Top \in Frame /\ Top = stack[Depth] /\ Depth \in Nat /\ Depth > 0
      /\ DOMAIN stack = 1..Depth /\ Len(stack) = Depth /\ stack \in Seq(Frame)
      /\ life \in [Obj -> Lives] /\ kept \in [Obj -> 0..MaxHeld]
  BY Frames DEF Visit, In
<1>2. Top.visit \in [Obj -> 0..MaxHeld] /\ Top.held \in [Obj -> 0..MaxHeld]
  BY <1>1 DEF Frame
<1>3. /\ \A p \in Obj : Top.visit[p] <= Top.held[p]
      /\ Top.kind \in {"scope", "if", "loop", "call", "method", "construct"}
      /\ Top.kind = "construct" => Top.saved # Just("error")
  BY <1>1, ShapeOfTop
<1>4. /\ visit \in [Obj -> 0..MaxHeld] /\ \A p \in Obj : visit[p] <= Top.held[p]
      /\ \A p \in Obj \ {o} : visit[p] = Top.visit[p]
  BY <1>1, <1>2, <1>3, ConstantAssumption
<1>5. \/ /\ ~(OnlyOne(stack, kept, result, o) /\ HasDestructor(o))
         /\ Settle(Append(Below, f), Nothing, life, kept)
      \/ /\ HasDestructor(o)
         /\ Settle(Append(Append(Below, f), g), Nothing, lf, kept)
  BY <1>1 DEF Visit, Frame
<1> HIDE DEF visit
<1>6. /\ f \in Frame /\ f.kind = Top.kind /\ f.obj = Top.obj /\ f.mode = "cleans"
      /\ f.saved = Top.saved /\ f.visit = visit /\ f.held = Top.held /\ f.sole = Top.sole
  BY <1>1, <1>4 DEF Frame
<1> HIDE DEF f
<1>7. ASSUME NEW p \in f.sole, visit[p] = 0, p # o
      PROVE  p \in Obj /\ life[p] \notin {"alive", "destructing"}
  <2>1. p \in Obj /\ p \in stack[Depth].sole /\ Depth \in DOMAIN stack
    BY <1>1, <1>6, <1>7 DEF Frame
  <2>2. Top.visit[p] = 0
    BY <1>4, <1>7, <2>1
  <2>3. IsSole(stack, kept, result, Depth, p)
    BY <2>1 DEF IInv, Soles, SolesOf
  <2> QED
    BY <1>1, <2>1, <2>2, <2>3 DEF IInv, Visited, VisitedOf
<1>8. CASE /\ ~(OnlyOne(stack, kept, result, o) /\ HasDestructor(o))
           /\ Settle(Append(Below, f), Nothing, life, kept)
  <2>1. ASSUME o \in f.sole PROVE life[o] \notin {"alive", "destructing"}
    <3>1. o \in stack[Depth].sole /\ Depth \in DOMAIN stack
      BY <1>1, <1>6, <2>1
    <3>2. IsSole(stack, kept, result, Depth, o)
      BY <3>1 DEF IInv, Soles, SolesOf
    <3> QED
      BY <1>8, <3>2 DEF IsSole, HasDestructor
  <2>2. \A p \in f.sole : f.visit[p] = 0 => life[p] \notin {"alive", "destructing"}
    BY <1>6, <1>7, <2>1
  <2>3. Passing => Carried(stack, Depth, f.saved)
    BY <1>1, <1>6, LeavingTop DEF Passing
  <2> QED
    BY <1>1, <1>3, <1>4, <1>6, <1>8, <2>2, <2>3, ReplaceInv
<1>9. CASE HasDestructor(o) /\ Settle(Append(Append(Below, f), g), Nothing, lf, kept)
  <2> DEFINE b == Append(Below, f)
             st == Append(b, g)
  <2>1. g \in Frame
    BY <1>1, NewFrames DEF Kinds, Bodies
  <2>2. /\ g.kind = "destructor" /\ g.obj = o /\ g.mode = "runs" /\ g.sole = {}
        /\ g.visit = Empty /\ g.held = Empty
    BY NewFrameFields
  <2>3. /\ b \in Seq(Frame) /\ Len(b) = Depth /\ b[Depth] = f
        /\ \A i \in 1..Depth - 1 : b[i] = stack[i]
    BY <1>1, <1>6, Replaced
  <2> HIDE DEF b, g
  <2>4. /\ st \in Seq(Frame) /\ Len(st) = Depth + 1 /\ st[Depth + 1] = g
        /\ \A i \in 1..Depth : st[i] = b[i]
    BY <1>1, <2>1, <2>3
  <2>5. Settle(st, Nothing, lf, kept)
    BY <1>9 DEF b, g
  <2> HIDE DEF st
  <2>6. st[Depth] = f /\ DOMAIN st = 1..Depth + 1 /\ \A i \in 1..Depth - 1 : st[i] = stack[i]
    BY <1>1, <2>3, <2>4
  <2>7. SameControl(f, stack[Depth])
    BY <1>1, <1>6 DEF SameControl
  <2>8. ASSUME NEW i \in 1..Depth PROVE SameControl(st[i], stack[i])
    <3>1. CASE i = Depth
      BY <2>6, <2>7, <3>1
    <3>2. CASE i \in 1..Depth - 1
      BY <2>6, <3>2 DEF SameControl
    <3> QED
      BY <1>1, <3>1, <3>2
  <2>9. Upto(st, Depth + 1)
    BY <1>1, <2>4, <2>8 DEF Upto
  <2>10. ShapeOf(st)
    <3>1. TopFits(st[Depth + 1], Depth + 1)
      BY <1>1, <2>2, <2>4 DEF TopFits
    <3> QED
      BY <2>9, <3>1, ShapeStep DEF IInv
  <2>11. VisitsOf(st)
    <3>1. ASSUME NEW i \in 1..Depth + 1, NEW p \in Obj PROVE st[i].visit[p] <= st[i].held[p]
      <4>1. CASE i = Depth + 1
        BY <2>2, <2>4, <4>1, EmptyCounts
      <4>2. CASE i = Depth
        BY <1>4, <1>6, <2>6, <4>2
      <4>3. CASE i \in 1..Depth - 1
        BY <1>1, <2>6, <4>3 DEF IInv, Visits, VisitsOf
      <4> QED
        BY <1>1, <4>1, <4>2, <4>3
    <3> QED
      BY <2>6, <3>1 DEF VisitsOf
  <2>12. lf \in [Obj -> Lives] /\ lf[o] = "destructing" /\ \A p \in Obj \ {o} : lf[p] = life[p]
    BY <1>1 DEF Lives
  <2>13. life[o] \in {"alive", "destructing"}
    BY <1>9 DEF HasDestructor
  <2> HIDE DEF lf
  <2>14. Stays(lf, life)
    BY <2>12, <2>13 DEF Stays
  <2>15. ConstructionOf(st, lf)
    <3>1. ASSUME NEW i \in DOMAIN st, st[i].kind = "construct" PROVE st[i].obj \in Obj \ {o}
      <4>1. i \in 1..Depth
        BY <1>1, <2>2, <2>4, <2>6, <3>1
      <4>2. stack[i].kind = "construct" /\ stack[i].obj = st[i].obj /\ i \in DOMAIN stack
        BY <1>1, <2>8, <3>1, <4>1 DEF SameControl
      <4> QED
        BY <2>13, <4>2 DEF IInv, Shape, ShapeOf, Construction, ConstructionOf
    <3>2. Conceived(st, lf)
      BY <2>12, <3>1 DEF Conceived
    <3>3. /\ st[Depth + 1].kind # "construct"
          /\ lf[st[Depth + 1].obj] \notin {"unborn", "constructing"}
      BY <2>2, <2>4, <2>12
    <3> QED
      BY <2>9, <3>2, <3>3, ConstructionStep
  <2>16. VisitedOf(st, kept, Nothing, lf)
    <3> SUFFICES ASSUME NEW i \in 1..Depth + 1, NEW p \in st[i].sole,
                        st[i].mode = "cleans", st[i].visit[p] = 0
                 PROVE  \/ lf[p] \notin {"alive", "destructing"}
                        \/ i < Len(st) /\ st[i + 1].kind = "destructor" /\ st[i + 1].obj = p
      BY <2>6 DEF VisitedOf
    <3>1. CASE i = Depth + 1
      BY <2>2, <2>4, <3>1
    <3>2. CASE i = Depth
      <4>1. CASE p = o
        BY <1>1, <2>2, <2>4, <3>2, <4>1
      <4>2. CASE p # o
        BY <1>6, <1>7, <2>6, <2>12, <3>2, <4>2
      <4> QED
        BY <4>1, <4>2
    <3>3. CASE i \in 1..Depth - 1
      <4>1. i \in 1..Depth /\ i + 1 \in 1..Depth /\ i < Len(st) /\ stack[i] \in Frame
        BY <1>1, <2>4, <3>3
      <4>2. p \in stack[i].sole /\ stack[i].mode = "cleans" /\ stack[i].visit[p] = 0
        BY <2>6, <3>3
      <4>3. p \in Obj
        BY <4>1, <4>2 DEF Frame
      <4>4. IsSole(stack, kept, result, i, p)
        BY <1>1, <4>1, <4>2 DEF IInv, Soles, SolesOf
      <4>5. \/ life[p] \notin {"alive", "destructing"}
            \/ stack[i + 1].kind = "destructor" /\ stack[i + 1].obj = p
        BY <1>1, <4>1, <4>2, <4>4 DEF IInv, Visited, VisitedOf
      <4>6. SameControl(st[i + 1], stack[i + 1])
        BY <2>8, <4>1
      <4> QED
        BY <2>12, <2>13, <4>1, <4>3, <4>5, <4>6 DEF SameControl
    <3> QED
      BY <1>1, <3>1, <3>2, <3>3
  <2>17. ASSUME doomed PROVE DoomOf(st, Nothing)
    <3>1. ASSUME Passing PROVE DoomOf(st, Nothing)
      <4>1. Carried(stack, Depth, f.saved)
        BY <1>1, <1>6, <3>1, LeavingTop DEF Passing
      <4>2. Carried(st, Depth, st[Depth].saved)
        BY <1>1, <2>6, <2>8, <4>1, CarriedSame DEF SameControl
      <4>3. Depth + 1 \in DOMAIN st /\ Depth + 1 > 1 /\ (Depth + 1) - 1 = Depth
        BY <1>1, <2>6
      <4> QED
        BY <2>2, <2>4, <4>2, <4>3 DEF DoomOf
    <3>2. \A d \in 2..Depth : stack[d].kind = "destructor" => d <= Depth + 1 /\ st[d].kind = "destructor"
      BY <1>1, <2>8 DEF SameControl
    <3> QED
      BY <1>1, <2>9, <2>17, <3>1, <3>2, DoomStep
  <2>18. Ready(st, Nothing, lf, kept, doomed')
    BY <1>1, <2>4, <2>10, <2>11, <2>12, <2>14, <2>15, <2>16, <2>17, Values, Frames DEF Ready
  <2> QED
    BY <2>5, <2>18, Frames, SettleInv
<1> QED
  BY <1>5, <1>8, <1>9

\* The lives of all objects once the innermost frame, a destructor, has ended.
Done == [life EXCEPT ![Top.obj] = "destructed"]

\* The object of a destructor that ends has been destructed, and no other changes.
LEMMA DoneLives ==
  ASSUME IInv, stack # << >>, Top.kind = "destructor"
  PROVE  /\ Done \in [Obj -> Lives] /\ Top.obj \in Obj /\ Done[Top.obj] = "destructed"
         /\ \A o \in Obj \ {Top.obj} : Done[o] = life[o]
         /\ \A i \in 1..Depth : stack[i].kind = "construct" =>
              stack[i].obj \in Obj \ {Top.obj} /\ life[stack[i].obj] = "constructing"
         /\ Born(Done, Nothing) /\ Stays(Done, life)
<1>1. Top.obj \in Obj /\ Depth \in DOMAIN stack /\ DOMAIN stack = 1..Depth /\ Top = stack[Depth]
  BY Frames, ShapeOfTop
<1>2. /\ Done \in [Obj -> Lives] /\ Done[Top.obj] = "destructed"
      /\ \A o \in Obj \ {Top.obj} : Done[o] = life[o]
  BY <1>1, Frames DEF Done, Lives
<1>3. life[Top.obj] \notin {"unborn", "constructing"}
  BY <1>1 DEF IInv, Construction, ConstructionOf
<1>4. ASSUME NEW i \in 1..Depth, stack[i].kind = "construct"
      PROVE  stack[i].obj \in Obj \ {Top.obj} /\ life[stack[i].obj] = "constructing"
  BY <1>1, <1>3, <1>4 DEF IInv, Shape, ShapeOf, Construction, ConstructionOf
<1>5. Born(Done, Nothing) /\ Stays(Done, life)
  BY <1>1, <1>2 DEF Born, Stays
<1> QED
  BY <1>1, <1>2, <1>4, <1>5

\* A destructor that fails in no way: the scope goes on to its other objects.
LEMMA DestructorInv ==
  ASSUME IInv, stack # << >>, Top.kind = "destructor",
         Unwrapped(result) \notin {Just("error"), Just("exit")},
         UNCHANGED doomed, Settle(Below, Nothing, Done, Left(Top))
  PROVE  IInv' /\ Stays(life', life)
<1> DEFINE m == Depth - 1
<1>1. /\ Depth \in Nat /\ Depth > 1 /\ Top = stack[Depth] /\ Top \in Frame /\ Top.mode = "runs"
      /\ DOMAIN stack = 1..Depth /\ Len(stack) = Depth /\ stack[m].mode = "cleans"
  BY Frames, ShapeOfTop
<1>2. /\ m \in Nat /\ m > 0 /\ m \in 1..Depth /\ m \in 1..Depth + 1 /\ m + 1 = Depth /\ m < Depth
      /\ \A i \in 1..m : i \in 1..Depth
  BY <1>1
<1>3. /\ Below \in Seq(Frame) /\ Len(Below) = m /\ DOMAIN Below = 1..m
      /\ \A i \in 1..m : Below[i] = stack[i]
  <2>1. m \in 0..Depth
    BY <1>2
  <2>2. Below \in Seq(Frame) /\ Len(Below) = m /\ \A i \in 1..m : Below[i] = stack[i]
    BY <2>1, Frames, Lower DEF Below
  <2> QED
    BY <2>2
<1> HIDE DEF m
<1>4. \A i \in 1..m : SameControl(Below[i], stack[i])
  BY <1>3 DEF SameControl
<1>5. Upto(Below, m) /\ SameControl(Below[m], stack[m])
  <2>1. \A i \in 1..m - 1 : i \in 1..m
    BY <1>2
  <2> QED
    BY <1>2, <1>3, <1>4, <2>1 DEF Upto
<1>6. ShapeOf(Below)
  BY <1>2, <1>5, FrameFits, ShapeStep DEF IInv
<1>7. VisitsOf(Below)
  BY <1>1, <1>2, <1>3 DEF IInv, Visits, VisitsOf
<1>8. /\ Done \in [Obj -> Lives] /\ Top.obj \in Obj /\ Done[Top.obj] = "destructed"
      /\ \A o \in Obj \ {Top.obj} : Done[o] = life[o]
      /\ \A i \in 1..Depth : stack[i].kind = "construct" => stack[i].obj \in Obj \ {Top.obj}
      /\ Born(Done, Nothing) /\ Stays(Done, life)
  BY DoneLives
<1>9. ConstructionOf(Below, Done)
  <2>1. Conceived(Below, Done)
    BY <1>2, <1>3, <1>8 DEF Conceived
  <2> QED
    BY <1>2, <1>5, <2>1, ConstructionStep
<1>10. VisitedOf(Below, Left(Top), Nothing, Done)
  <2>1. ASSUME NEW o \in Below[m].sole, Below[m].visit[o] = 0
        PROVE  Done[o] \notin {"alive", "destructing"}
    <3>1. o \in stack[m].sole /\ stack[m].visit[o] = 0 /\ m \in DOMAIN stack /\ stack[m] \in Frame
      BY <1>1, <1>2, <1>3, <2>1, Frames
    <3>2. o \in Obj
      BY <3>1 DEF Frame
    <3>3. IsSole(stack, kept, result, m, o)
      BY <3>1 DEF IInv, Soles, SolesOf
    <3>4. life[o] \notin {"alive", "destructing"} \/ Top.obj = o
      BY <1>1, <1>2, <3>1, <3>3 DEF IInv, Visited, VisitedOf
    <3> QED
      BY <1>8, <3>2, <3>4
  <2>2. \A i \in 1..m - 1 : SameCounts(Below[i], stack[i])
    BY <1>2, <1>3 DEF SameCounts, SameControl
  <2> QED
    BY <1>2, <1>5, <1>8, <2>1, <2>2, VisitedStep
<1>11. ASSUME doomed PROVE DoomOf(Below, Nothing)
  <2>1. ~Passing
    <3> SUFFICES ASSUME Passing PROVE FALSE
      OBVIOUS
    <3>1. Carried(stack, Depth, result)
      BY <1>1, LeavingTop DEF Passing
    <3>2. Failure(result) /\ result.returns \in {0, 1}
      BY <1>1, <3>1 DEF Carried
    <3>3. Unwrapped(result) = Just(result.of)
      BY <3>2, Frames DEF Unwrapped, Just, Value
    <3> QED
      BY <3>2, <3>3 DEF Failure
  <2>2. PICK d \in DOMAIN stack : /\ d > 1 /\ stack[d].kind = "destructor"
                                  /\ Carried(stack, d - 1, stack[d - 1].saved)
    BY <1>11, <2>1 DEF IInv, Doom, DoomOf, Passing, Top, Depth
  <2>3. CASE d < Depth
    <3>1. d \in 2..Depth /\ d <= m /\ Below[d].kind = "destructor"
      BY <1>1, <1>2, <1>3, <2>2, <2>3
    <3> QED
      BY <1>5, <2>2, <3>1, DoomBelow DEF IInv
  <2>4. CASE d = Depth
    <3>1. Carried(stack, m, stack[m].saved)
      BY <2>2, <2>4 DEF m
    <3>2. Carried(Below, m, stack[m].saved)
      BY <1>2, <1>3, <3>1, CarriedSame
    <3>3. Below # << >> /\ Below[Len(Below)] = stack[m]
      BY <1>2, <1>3
    <3>4. Leaving(Below, Nothing) = stack[m].saved /\ stack[m].mode = "cleans"
      BY <1>1, <3>3 DEF Leaving, m
    <3> QED
      BY <1>3, <3>2, <3>3, <3>4 DEF DoomOf
  <2> QED
    BY <1>1, <2>2, <2>3, <2>4
<1>12. Left(Top) \in [Obj -> 0..MaxHeld]
  BY <1>1, Frames, LeftType DEF Left
<1>13. Ready(Below, Nothing, Done, Left(Top), doomed')
  BY <1>3, <1>6, <1>7, <1>8, <1>9, <1>10, <1>11, <1>12, Values, Frames DEF Ready
<1> QED
  BY <1>13, Frames, SettleInv

\* A destructor that fails: the scope is left at once, and what it was to evaluate to is lost.
LEMMA AbandonInv ==
  ASSUME IInv, stack # << >>, Top.kind = "destructor", NEW v \in {"error", "exit"},
         Abandon(Just(v), Done), doomed' = IsDoom(Depth - 1, v)
  PROVE  IInv' /\ Stays(life', life)
<1> DEFINE f == stack[Depth - 1]
           n == Depth - 2
           made == f.kind = "construct" /\ Just(v) = Just("exit")
           r == IF made THEN Just(f.obj) ELSE Just(v)
           lf == IF made THEN [Done EXCEPT ![f.obj] = "alive"] ELSE Done
           kp == LeftOf(Left(Top), f)
           st == Resumed(SubSeq(stack, 1, n))
<1>1. /\ Depth \in Nat /\ Depth > 1 /\ Top = stack[Depth] /\ Top \in Frame
      /\ DOMAIN stack = 1..Depth /\ Len(stack) = Depth /\ f.mode = "cleans"
      /\ stack \in Seq(Frame) /\ kept \in [Obj -> 0..MaxHeld]
  BY Frames, ShapeOfTop
<1>2. /\ n \in Nat /\ n \in 0..Depth /\ Depth - 1 \in 1..Depth /\ Depth - 1 \in 0..Depth - 1
      /\ Depth - 1 = n + 1 /\ f \in Frame /\ \A i \in 1..n : i \in 1..Depth /\ i # Depth - 1
  BY <1>1
<1>3. Settle(st, r, lf, kp)
  BY DEF Abandon
<1>4. st \in Seq(Frame) /\ Len(st) = n /\ DOMAIN st = 1..n /\ \A i \in 1..n : SameFrame(st[i], stack[i])
  <2> DEFINE b == SubSeq(stack, 1, n)
  <2>1. b \in Seq(Frame) /\ Len(b) = n /\ \A i \in 1..n : b[i] = stack[i]
    BY <1>1, <1>2, Lower
  <2> HIDE DEF b
  <2>2. Resumed(b) \in Seq(Frame) /\ Len(Resumed(b)) = n /\ \A i \in 1..n : SameFrame(Resumed(b)[i], b[i])
    BY <1>2, <2>1, ResumedFrames
  <2>3. Resumed(b) \in Seq(Frame) /\ Len(Resumed(b)) = n /\ \A i \in 1..n : SameFrame(Resumed(b)[i], stack[i])
    BY <2>1, <2>2
  <2> QED
    BY <2>3 DEF b
<1>5. kp \in [Obj -> 0..MaxHeld]
  BY <1>1, <1>2, LeftType DEF Left
<1>6. /\ f.kind \in {"scope", "if", "loop", "call", "method", "construct"}
      /\ f.kind = "construct" => /\ f.obj \in Obj \ {Top.obj}
                                 /\ life[f.obj] = "constructing"
                                 /\ \A i \in 1..n : stack[i].kind = "construct" => stack[i].obj # f.obj
  <2>1. f.kind \in {"scope", "if", "loop", "call", "method", "construct"}
    BY <1>1, <1>2 DEF IInv, Shape, ShapeOf
  <2>2. ASSUME f.kind = "construct"
        PROVE  /\ f.obj \in Obj \ {Top.obj} /\ life[f.obj] = "constructing"
               /\ \A i \in 1..n : stack[i].kind = "construct" => stack[i].obj # f.obj
    BY <1>1, <1>2, <2>2, DoneLives DEF IInv, Construction, ConstructionOf
  <2> QED
    BY <2>1, <2>2
<1>7. /\ Done \in [Obj -> Lives] /\ Top.obj \in Obj /\ Done[Top.obj] = "destructed"
      /\ \A o \in Obj \ {Top.obj} : Done[o] = life[o]
      /\ \A i \in 1..Depth : stack[i].kind = "construct" => stack[i].obj \in Obj \ {Top.obj}
      /\ Born(Done, Nothing) /\ Stays(Done, life)
  BY DoneLives
<1>8. /\ r \in Value /\ lf \in [Obj -> Lives] /\ Born(lf, r) /\ Stays(lf, life)
      /\ Conceived(st, lf)
  <2>1. CASE ~made
    <3>1. r = Just(v) /\ lf = Done /\ v \in Plain
      BY <2>1 DEF Plain
    <3>2. Just(v) \in Value /\ \A o \in Obj : Just(v).of # o /\ Nothing.of # o
      BY <3>1, Values, ConstantAssumption DEF Just, Nothing, Plain
    <3>3. Born(lf, r)
      BY <1>7, <3>1, <3>2 DEF Born
    <3>4. Conceived(st, lf)
      BY <1>2, <1>4, <1>7, <3>1 DEF Conceived, SameFrame, SameControl
    <3> QED
      BY <1>7, <3>1, <3>2, <3>3, <3>4
  <2>2. CASE made
    <3>1. r = Just(f.obj) /\ lf = [Done EXCEPT ![f.obj] = "alive"] /\ f.kind = "construct"
      BY <2>2
    <3>2. /\ f.obj \in Obj \ {Top.obj} /\ life[f.obj] = "constructing"
          /\ \A i \in 1..n : stack[i].kind = "construct" => stack[i].obj \in Obj \ {f.obj, Top.obj}
      BY <1>2, <1>6, <1>7, <3>1
    <3>3. /\ lf \in [Obj -> Lives] /\ lf[f.obj] = "alive" /\ lf[Top.obj] = "destructed"
          /\ \A o \in Obj \ {Top.obj, f.obj} : lf[o] = life[o]
      BY <1>7, <3>1, <3>2 DEF Lives
    <3>4. r \in Value /\ r.of = f.obj
      BY <3>1, <3>2, Values DEF Just
    <3> HIDE DEF r, lf, made
    <3>5. Born(lf, r) /\ Stays(lf, life)
      BY <1>7, <3>2, <3>3, <3>4 DEF Born, Stays
    <3>6. \A i \in DOMAIN st : st[i].kind = "construct" => st[i].obj \in Obj \ {f.obj, Top.obj}
      BY <1>4, <3>2 DEF SameFrame, SameControl
    <3>7. Conceived(st, lf)
      BY <3>2, <3>3, <3>6 DEF Conceived
    <3> QED
      BY <3>3, <3>4, <3>5, <3>7
  <2> QED
    BY <2>1, <2>2
<1>9. ASSUME doomed' PROVE r = Just(v) /\ Carried(stack, n, Just(v))
  <2>1. IsDoom(Depth - 1, v)
    BY <1>9
  <2>2. ~made
    <3> SUFFICES ASSUME made PROVE FALSE
      OBVIOUS
    <3>1. v = "exit"
      BY DEF Just
    <3>2. Swallows(Depth - 1, v)
      BY <3>1 DEF Swallows
    <3>3. Depth - 1 \in 1..Depth - 1
      BY <1>1
    <3> QED
      BY <2>1, <3>2, <3>3 DEF IsDoom
  <2>3. Carried(stack, Depth - 1, Just(v))
    BY <1>1, <2>1, DoomCarried
  <2>4. Depth - 1 \in Nat /\ n \in 0..Depth - 1
    BY <1>1
  <2> QED
    BY <2>2, <2>3, <2>4, CarriedBelow
<1>10. VisitsOf(st)
  BY <1>1, <1>2, <1>4 DEF IInv, Visits, VisitsOf, SameFrame
<1> HIDE DEF r, lf, kp, st, made
<1>11. /\ ShapeOf(st) /\ ConstructionOf(st, lf) /\ VisitedOf(st, kp, r, lf)
       /\ doomed' => DoomOf(st, r)
  <2>1. CASE n = 0
    <3>1. st = << >> /\ DOMAIN st = {}
      BY <1>4, <2>1
    <3>2. doomed' => Failure(r)
      BY <1>9 DEF Carried
    <3> QED
      BY <3>1, <3>2 DEF ShapeOf, ConstructionOf, VisitedOf, DoomOf
  <2>2. CASE n > 0
    <3>1. n \in 1..Depth /\ n \in 1..n /\ n \in 1..Depth + 1 /\ n < Len(stack) /\ n \in DOMAIN stack
      BY <1>1, <1>2, <2>2
    <3>2. \A i \in 1..n : SameControl(st[i], stack[i]) /\ SameCounts(st[i], stack[i])
      BY <1>4, SameFrames
    <3>3. \A i \in 1..n - 1 : i \in 1..n
      BY <1>2
    <3>4. Upto(st, n)
      BY <1>4, <3>1, <3>2, <3>3 DEF Upto
    <3>5. stack[n].mode \notin {"asks", "cleans"}
      <4>1. ShapeOf(stack)!(n)
        BY <3>1 DEF IInv, Shape, ShapeOf
      <4>2. stack[n + 1] = f
        BY <1>2
      <4> QED
        BY <1>6, <3>1, <4>1, <4>2 DEF Awaited
    <3>6. SameControl(st[n], stack[n])
      BY <3>1, <3>2
    <3> HIDE DEF n
    <3>7. ShapeOf(st)
      BY <3>1, <3>4, <3>6, FrameFits, ShapeStep DEF IInv
    <3>8. ConstructionOf(st, lf)
      BY <1>8, <3>1, <3>4, <3>6, ConstructionStep
    <3>9. VisitedOf(st, kp, r, lf)
      <4>1. st[n].mode # "cleans" /\ n <= Depth
        BY <1>1, <3>1, <3>5, <3>6 DEF SameControl
      <4>2. \A i \in 1..n - 1 : SameCounts(st[i], stack[i])
        BY <3>2, <3>3
      <4> QED
        BY <1>8, <3>4, <3>6, <4>1, <4>2, VisitedStep
    <3>10. ASSUME doomed' PROVE DoomOf(st, r)
      <4>1. r = Just(v) /\ Carried(stack, n, Just(v))
        BY <1>9, <3>10
      <4>2. Carried(st, n, Just(v))
        BY <1>2, <3>2, <4>1, CarriedSame DEF SameControl
      <4>3. st # << >> /\ Len(st) = n /\ st[n].mode \notin {"asks", "cleans"}
        BY <1>4, <3>1, <3>5, <3>6 DEF SameControl
      <4> QED
        BY <4>1, <4>2, <4>3 DEF DoomOf, Leaving
    <3> QED
      BY <3>7, <3>8, <3>9, <3>10
  <2>3. n = 0 \/ n > 0
    <3>1. Depth - 2 = 0 \/ Depth - 2 > 0
      BY <1>1
    <3> QED
      BY <3>1
  <2> QED
    BY <2>1, <2>2, <2>3
<1>12. Ready(st, r, lf, kp, doomed')
  <2>1. doomed' \in BOOLEAN
    BY DEF IsDoom
  <2> QED
    BY <1>4, <1>5, <1>8, <1>10, <1>11, <2>1 DEF Ready
<1> QED
  BY <1>3, <1>12, Frames, SettleInv

\* The end of a destructor keeps the invariant.
LEMMA EndDestructorInv ==
  ASSUME IInv, EndDestructor
  PROVE  IInv' /\ Stays(life', life)
<1>1. stack # << >> /\ Top.kind = "destructor" /\ Top.mode = "runs"
  BY DEF EndDestructor, In
<1>2. CASE Crash /\ UNCHANGED doomed
  BY <1>2, CrashInv
<1>3. CASE \E r \in {Unwrapped(result), Just("error")} :
             IF r \in {Just("error"), Just("exit")}
             THEN Abandon(r, Done) /\ doomed' = IsDoom(Depth - 1, r.of)
             ELSE Settle(Below, Nothing, Done, Left(Top)) /\ UNCHANGED doomed
  <2>1. PICK r \in {Unwrapped(result), Just("error")} :
             IF r \in {Just("error"), Just("exit")}
             THEN Abandon(r, Done) /\ doomed' = IsDoom(Depth - 1, r.of)
             ELSE Settle(Below, Nothing, Done, Left(Top)) /\ UNCHANGED doomed
    BY <1>3
  <2>2. CASE r \in {Just("error"), Just("exit")}
    <3>1. r.of \in {"error", "exit"} /\ r = Just(r.of)
      BY <2>2 DEF Just
    <3>2. Abandon(Just(r.of), Done) /\ doomed' = IsDoom(Depth - 1, r.of)
      BY <2>1, <2>2, <3>1
    <3> QED
      BY <1>1, <3>1, <3>2, AbandonInv
  <2>3. CASE r \notin {Just("error"), Just("exit")}
    BY <1>1, <2>1, <2>3, DestructorInv
  <2> QED
    BY <2>2, <2>3
<1> QED
  BY <1>2, <1>3 DEF EndDestructor, Done

-----------------------------------------------------------------------------
(* The invariant, and what follows from it. *)

\* A script starts in the invariant.
LEMMA InitInv ==
  ASSUME Init
  PROVE  IInv
<1> DEFINE f == NewFrame("program", 0, NoObj)
<1>1. f \in Frame
  BY NewFrames DEF Kinds, Bodies
<1>2. /\ f.kind = "program" /\ f.obj = NoObj /\ f.mode = "runs" /\ f.sole = {}
      /\ f.visit = Empty /\ f.held = Empty
  BY NewFrameFields
<1>3. /\ stack = <<f>> /\ result = Nothing /\ life = [o \in Obj |-> "unborn"] /\ kept = Empty
      /\ fault = "none" /\ doomed = FALSE
  BY DEF Init
<1> HIDE DEF f
<1>4. stack \in Seq(Frame) /\ Len(stack) = 1 /\ DOMAIN stack = {1} /\ stack[1] = f
  BY <1>1, <1>3
<1>5. TypeOK
  BY <1>3, <1>4, Values, EmptyType DEF TypeOK, Lives
<1>6. Shape
  BY <1>2, <1>4 DEF Shape, ShapeOf
<1>7. Visits
  BY <1>2, <1>4, EmptyCounts DEF Visits, VisitsOf
<1>8. Doom
  BY <1>3 DEF Doom
<1>9. Soles /\ Visited
  BY <1>2, <1>4 DEF Soles, SolesOf, Visited, VisitedOf
<1>10. Construction
  BY <1>2, <1>4 DEF Construction, ConstructionOf
<1> QED
  BY <1>5, <1>6, <1>7, <1>8, <1>9, <1>10 DEF IInv

\* Nothing that is not a step changes the invariant.
LEMMA StutterInv ==
  ASSUME IInv, UNCHANGED vars
  PROVE  IInv' /\ Stays(life', life)
  BY Frames, SameStackInv DEF vars

\* Every step keeps the invariant, and what has been destructed stays so.
LEMMA NextInv ==
  ASSUME IInv, [Next]_vars
  PROVE  IInv' /\ Stays(life', life)
<1>1. CASE Simple
  <2>1. CASE \E v \in {"value", "error", "exit"} : Evaluate(v)
    BY <2>1, EvaluateInv
  <2>2. CASE \E v \in {"break", "continue"} : Jump(v)
    BY <2>2, JumpInv
  <2>3. CASE \E o \in Obj : Fetch(o) \/ Make(o) \/ Keep(o) \/ Forget(o)
    BY <2>3, FetchInv, MakeInv, KeepInv
  <2>4. CASE \E j \in DOMAIN stack, old, new \in Obj \cup {NoObj} : Assign(j, old, new)
    BY <2>4, AssignInv
  <2>5. CASE Capture
    BY <2>5, CaptureInv
  <2> QED
    BY <1>1, <2>1, <2>2, <2>3, <2>4, <2>5 DEF Simple
<1>2. CASE Begin
  <2>1. CASE \E k \in {"scope", "if", "loop", "try"} : BeginBlock(k)
    BY <2>1, BeginBlockInv
  <2>2. CASE \E k \in Contexts : BeginContext(k)
    BY <2>2, BeginContextInv
  <2>3. CASE \E j \in DOMAIN stack, o \in Obj \cup {NoObj} : BeginCall(j, o)
    BY <2>3, BeginCallInv
  <2>4. CASE \E o \in Obj : BeginMethod(o) \/ BeginConstruct(o)
    BY <2>4, BeginMethodInv, BeginConstructInv
  <2> QED
    BY <1>2, <2>1, <2>2, <2>3, <2>4 DEF Begin
<1>3. CASE End
  BY <1>3, EndBodyInv, EndMethodInv, VisitInv, EndDestructorInv, LeaveInv, AskInv, EndTryInv,
     EndExceptInv, EndLetInv, EndReturnInv, EndOperandInv, EndElementInv,
     EndProgramInv DEF End
<1>4. CASE UNCHANGED vars
  BY <1>4, StutterInv
<1> QED
  BY <1>1, <1>2, <1>3, <1>4 DEF Next, Over

\* Every step of the evaluator, with what it releases, leads from a state of the invariant to one.
THEOREM Invariance == Spec => []IInv
<1>1. Init => IInv
  BY InitInv
<1>2. IInv /\ [Next]_vars => IInv'
  BY NextInv
<1> QED
  BY <1>1, <1>2, PTL DEF Spec

\* The evaluator's state has its type, whatever the script does: what evalStatements, the loops and
\* the calls wrap into return values and take out of them is a value, and the counts of references
\* that destructors depend on stay counts.
THEOREM TypeCorrect == Spec => []TypeOK
<1>1. IInv => TypeOK
  BY DEF IInv
<1> QED
  BY <1>1, Invariance, PTL

\* An error or an exit that no try, destructor or other frame on the stack makes less of ends the
\* program: evalStatements, the loops, the calls and the destructors all pass it on.
THEOREM DoomIsPassedOn == Spec => []DoomIsFinal
<1>1. ASSUME IInv PROVE DoomIsFinal
  <2> SUFFICES ASSUME doomed PROVE DoomIsFinal!2
    BY DEF DoomIsFinal
  <2>1. DoomOf(stack, result)
    BY <1>1 DEF IInv, Doom
  <2>2. CASE stack = << >> /\ Failure(result)
    BY <2>2
  <2>3. CASE stack # << >> /\ Carried(stack, Depth, Leaving(stack, result))
    BY <1>1, <2>3, LeavingTop DEF Carried
  <2>4. CASE \E d \in DOMAIN stack : stack[d].kind = "destructor"
    BY <2>4 DEF InDestructor
  <2> QED
    BY <2>1, <2>2, <2>3, <2>4 DEF DoomOf, Depth
<1> QED
  BY <1>1, Invariance, PTL

\* evalUserObjectDestructors, run by every scope that is left through its end, leaves no object
\* alive that only a variable of that scope refers to, whatever the destructors it runs do.
THEOREM ScopesCleanUp == Spec => []ScopeCleansUp
<1>1. ASSUME IInv PROVE ScopeCleansUp
  <2> SUFFICES ASSUME stack # << >>, Top.mode = "cleans", Top.visit = Empty, NEW o \in Top.sole
               PROVE  life[o] \notin {"alive", "destructing"}
    BY DEF ScopeCleansUp
  <2>1. /\ Top = stack[Depth] /\ Depth \in DOMAIN stack /\ Depth = Len(stack) /\ Depth \in Nat
        /\ Top \in Frame
    BY <1>1, Frames
  <2>2. o \in Obj /\ Top.visit[o] = 0
    BY <2>1 DEF Frame, Empty
  <2>3. IsSole(stack, kept, result, Depth, o)
    BY <1>1, <2>1 DEF IInv, Soles, SolesOf
  <2> QED
    BY <1>1, <2>1, <2>2, <2>3 DEF IInv, Visited, VisitedOf
<1> QED
  BY <1>1, Invariance, PTL

\* UserObject::evalAndResetDestructor takes the destructor away before anything else can happen to
\* the object: once it has run it runs no more, not even when its object is passed on by it.
THEOREM DestructorsRunOnce == Spec => DestructedStays
<1>1. ASSUME IInv, [Next]_vars
      PROVE  [\A o \in Obj : life[o] \in {"destructed", "freed"}
                => life'[o] \in {"destructed", "freed"}]_vars
  BY <1>1, NextInv DEF Stays
<1> QED
  BY <1>1, Invariance, PTL DEF Spec, DestructedStays

=============================================================================
