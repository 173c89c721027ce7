------------------------------ MODULE Evaluator -----------------------------
(***************************************************************************)
(* The recursive evaluator of Evaluator.cpp as a stack of frames: blocks,  *)
(* loops, calls, try statements and the expressions whose value is still   *)
(* awaited.  break, continue, return, errors and exit are all values that  *)
(* each C++ function on the stack passes on or swallows.                   *)
(*                                                                         *)
(* Objects of user types with a `destruct` function live in the variables  *)
(* of the frames' environments.  A scope that is left calls the destructor *)
(* of every object that one variable of it, and nothing else, refers to;   *)
(* the destructor is script code again, run while the value that leaves    *)
(* the scope is set aside.                                                 *)
(*                                                                         *)
(* The script is any script: where the evaluator looks at the next         *)
(* statement, the model takes any.                                         *)
(***************************************************************************)
EXTENDS Integers, Sequences

CONSTANTS
  Obj,         \* objects of user types with a destructor
  NoObj,       \* no object
  Construct,   \* the constructs that the script uses
  MaxDepth,    \* bound: frames on the stack
  MaxReturns,  \* bound: return values in return values
  MaxHeld      \* bound: variables of one environment, or other places, that hold an object

Bodies == {"program", "scope", "if", "loop", "call", "method", "construct", "try", "except",
           "destructor"}
Contexts == {"let", "return", "operand", "element"}
Kinds == Bodies \cup Contexts

(* What is not an object; "nothing" is the null pointer that an empty block evaluates to. *)
Plain == {"nothing", "value", "break", "continue", "error", "exit"}

ASSUME ConstantAssumption ==
  /\ NoObj \notin Obj /\ Obj \cap Plain = {}
  /\ Construct \subseteq Kinds
  /\ MaxDepth \in Nat /\ MaxReturns \in Nat /\ MaxHeld \in Nat \ {0}

VARIABLES
  stack,   \* the frames, the innermost last
  result,  \* what the innermost frame has last been given by a statement or an expression
  life,    \* of each object
  kept,    \* of each object: references that closures and containers hold
  fault,   \* the undefined behaviour the interpreter has run into, or "none"
  doomed   \* history: an error or exit is on its way, with nothing on the stack to swallow it

vars == <<stack, result, life, kept, fault, doomed>>

(* A value, under so many ReturnValues. *)
Value == [returns : 0..MaxReturns, of : Plain \cup Obj]

Just(v) == [returns |-> 0, of |-> v]
Nothing == Just("nothing")

(* A frame.  `held` counts the variables of its environment that refer to each object, `outer`
   is the frame of the enclosing environment, `captured` says that a closure keeps the
   environment.  `obj` is the object of a method, constructor or destructor, or the argument of
   a call.  A frame "runs" its body, where `saved` is the last statement's value while the next
   is evaluated; a loop "asks" whether to go on; a frame "cleans" when its objects are destructed:
   then `saved` is the value that will leave it, `visit` counts the variables not looked at yet
   and `sole`, history, is the objects that only one variable of it has referred to since. *)
Frame ==
  [kind : Kinds, mode : {"runs", "asks", "cleans"}, held : [Obj -> 0..MaxHeld], outer : Nat,
   captured : BOOLEAN, obj : Obj \cup {NoObj}, saved : Value, visit : [Obj -> 0..MaxHeld],
   sole : SUBSET Obj]

Lives == {"unborn", "constructing", "alive", "destructing", "destructed", "freed", "lost"}

TypeOK ==
  /\ stack \in Seq(Frame)
  /\ result \in Value
  /\ life \in [Obj -> Lives]
  /\ kept \in [Obj -> 0..MaxHeld]
  /\ fault \in {"none", "null pointer", "dangling"}
  /\ doomed \in BOOLEAN

Empty == [o \in Obj |-> 0]

NewFrame(k, outer, o) ==
  [kind |-> k, mode |-> IF k = "loop" THEN "asks" ELSE "runs", held |-> Empty, outer |-> outer,
   captured |-> FALSE, obj |-> o, saved |-> Nothing, visit |-> Empty, sole |-> {}]

Init ==
  /\ stack = <<NewFrame("program", 0, NoObj)>>
  /\ result = Nothing
  /\ life = [o \in Obj |-> "unborn"]
  /\ kept = Empty
  /\ fault = "none"
  /\ doomed = FALSE

-----------------------------------------------------------------------------
(* Environments and reference counts. *)

Depth == Len(stack)
Top == stack[Depth]
Below == SubSeq(stack, 1, Depth - 1)

(* A loop that asks has left its body's environment, which is only kept until it has asked. *)
HasScope(i) == stack[i].kind \notin {"try"} \cup Contexts /\ stack[i].mode # "asks"

(* The frame whose environment the i-th frame evaluates in, and the frames it can see. *)
ScopeOf(i) == IF HasScope(i) THEN i ELSE stack[i].outer

Visible ==
  LET seen[i \in 0..Depth] ==
        IF i = 0 THEN {} ELSE seen[stack[i].outer] \cup {k \in {i} : HasScope(k)}
  IN seen[Depth]

(* What refers to o: variables, values set aside, `this` and the object a method is bound to, the
   evaluated argument of a call, what is kept, and the value in flight.  shared_ptr::use_count is
   the number of them. *)
References(st, kp, r, o) ==
  LET argument == {i \in DOMAIN st : st[i].obj = o /\ st[i].kind # "destructor"}
      saved == {i \in DOMAIN st : st[i].saved.of = o}
      variables == UNION {{<<"variable", i, k>> : k \in 1..st[i].held[o]} : i \in DOMAIN st}
  IN variables
     \cup {<<"saved", i, 0>> : i \in saved}
     \cup {<<"this", i, 0>> : i \in argument}
     \cup {<<"bound", i, 0>> : i \in {j \in argument : st[j].kind # "call"}}
     \cup {<<"kept", 0, k>> : k \in 1..kp[o]}
     \cup {<<"result", 0, 0>> : x \in {y \in {r.of} : y = o}}

(* use_count is 1. *)
OnlyOne(st, kp, r, o) ==
  LET refs == References(st, kp, r, o) IN \E ref \in refs : refs = {ref}

(* What the innermost frame can name: variables and `this`, and what containers hold. *)
Reachable ==
  {o \in Obj : \/ kept[o] > 0
               \/ \E i \in Visible : \/ stack[i].held[o] > 0
                                     \/ stack[i].kind \in {"method", "construct"} /\ stack[i].obj = o}

(* Every step ends by releasing the objects that nothing refers to any more.  An object that
   still has its destructor then is lost: ~UserObject only counts it.  A destructor works on a
   raw pointer to its object. *)
Settle(st, r, lf, kp) ==
  LET released == {o \in Obj : lf[o] \notin {"unborn", "freed", "lost"} /\ References(st, kp, r, o) = {}} IN
    /\ stack' = [i \in DOMAIN st |-> [st[i] EXCEPT
                   !.sole = {o \in @ : st[i].held[o] = 1 /\ OnlyOne(st, kp, r, o)}]]
    /\ result' = r
    /\ kept' = kp
    /\ life' = [o \in Obj |-> IF o \notin released THEN lf[o]
                              ELSE IF lf[o] \in {"alive", "destructing"} THEN "lost" ELSE "freed"]
    /\ fault' = IF \E o \in released, i \in DOMAIN st : st[i].kind = "destructor" /\ st[i].obj = o
                THEN "dangling" ELSE fault

Crash ==
  /\ fault' = "null pointer"
  /\ UNCHANGED <<stack, result, life, kept>>

(* The last statement's value stays until the next statement, of which f is a part, has one. *)
Suspended ==
  IF Top.mode = "runs" /\ result.of \in Obj THEN [stack EXCEPT ![Depth].saved = result] ELSE stack

Push(f, lf) == Settle(Append(Suspended, f), Nothing, lf, kept)

Resumed(st) == IF st = << >> \/ st[Len(st)].mode # "runs" THEN st
               ELSE [st EXCEPT ![Len(st)].saved = Nothing]

Capped(n) == IF n <= MaxHeld THEN n ELSE MaxHeld

(* What is kept once frame f is gone: a closure may have captured its environment. *)
LeftOf(kp, f) == IF f.captured THEN [o \in Obj |-> Capped(kp[o] + f.held[o])] ELSE kp

Left(f) == LeftOf(kept, f)

Pop(r) == Settle(Resumed(Below), r, life, Left(Top))

-----------------------------------------------------------------------------
(* Where the evaluator is. *)

(* What ends the block it occurs in (evalStatements). *)
EndsBlock(r) == r.returns > 0 \/ r.of \in {"break", "continue", "error", "exit"}

In(mode) == fault = "none" /\ stack # << >> /\ Top.mode = mode

InBlock == In("runs") /\ Top.kind \in Bodies /\ ~EndsBlock(result)

(* About to evaluate a statement that is an expression, or an expression within one. *)
Evaluating == InBlock \/ (In("runs") /\ Top.kind \in Contexts /\ result = Nothing)

MayPush(k) == k \in Construct /\ Depth < MaxDepth

-----------------------------------------------------------------------------
(* Statements and expressions that run no other script code. *)

(* The i-th frame may make of an error or an exit less than the end of the program.  An element
   takes an error for a value.  Lets, operands and constructors only pass on an error, and not one
   that a return statement has wrapped; destructors one that has been wrapped once. *)
Swallows(i, v) ==
  LET returns == {k \in i + 1..Depth : stack[k].kind = "return"} IN
    \/ stack[i].kind \in {"try", "element"}
    \/ stack[i].kind \in {"let", "operand", "construct"} /\ (v = "exit" \/ returns # {})
    \/ stack[i].kind = "destructor" /\ \E j, k \in returns : j # k

(* None of the first n frames does. *)
IsDoom(n, v) == \A i \in 1..n : ~Swallows(i, v)

(* A literal, a builtin, exit(), or anything that turns out to be an error. *)
Evaluate(v) ==
  /\ Evaluating /\ v \in {"value", "error", "exit"}
  /\ Settle(stack, Just(v), life, kept)
  /\ doomed' = (doomed \/ (v # "value" /\ IsDoom(Depth, v)))

Jump(v) ==
  /\ InBlock /\ v \in {"break", "continue"} /\ "loop" \in Construct
  /\ Settle(stack, Just(v), life, kept)
  /\ UNCHANGED doomed

(* An identifier. *)
Fetch(o) ==
  /\ Evaluating /\ o \in Reachable
  /\ Settle(stack, Just(o), life, kept)
  /\ UNCHANGED doomed

(* An object of a type without a constructor. *)
Make(o) ==
  /\ Evaluating /\ life[o] = "unborn"
  /\ Settle(stack, Just(o), [life EXCEPT ![o] = "alive"], kept)
  /\ UNCHANGED doomed

(* A variable of frame j, which held `old` or something else, is assigned `new`, what the
   expression on the right has just given or a variable holds, or something else.  If frame j is
   being cleaned the variable may or may not have been looked at. *)
Assign(j, old, new) ==
  LET Reassigned(count) == [o \in Obj |-> count[o] + (IF o = new THEN 1 ELSE 0)
                                                   - (IF o = old THEN 1 ELSE 0)]
      AssignTo(f) == Settle([stack EXCEPT ![j] = f], Just(IF new = NoObj THEN "value" ELSE new),
                            life, kept)
      f == [stack[j] EXCEPT !.held = Reassigned(@)]
  IN
    /\ Evaluating /\ j \in Visible /\ old # new
    /\ new \in Obj => /\ new \in Reachable \/ result = Just(new)
                     /\ stack[j].held[new] < MaxHeld
    /\ \/ /\ old \in Obj => stack[j].held[old] > stack[j].visit[old]
          /\ AssignTo(f)
       \/ /\ stack[j].mode = "cleans" /\ (old \in Obj => stack[j].visit[old] > 0)
          /\ AssignTo([f EXCEPT !.visit = Reassigned(@)])
    /\ UNCHANGED doomed

(* A container or a property is given o, or loses it. *)
Keep(o) ==
  /\ Evaluating /\ (o \in Reachable \/ result = Just(o)) /\ kept[o] < MaxHeld
  /\ Settle(stack, Just("value"), life, [kept EXCEPT ![o] = @ + 1])
  /\ UNCHANGED doomed

Forget(o) ==
  /\ Evaluating /\ kept[o] > 0
  /\ Settle(stack, Just("value"), life, [kept EXCEPT ![o] = @ - 1])
  /\ UNCHANGED doomed

(* A function literal whose value outlives this scope and those around it. *)
Capture ==
  /\ Evaluating /\ Obj # {}
  /\ Settle([i \in DOMAIN stack |-> [stack[i] EXCEPT !.captured = @ \/ i \in Visible]],
            Just("value"), life, kept)
  /\ UNCHANGED doomed

-----------------------------------------------------------------------------
(* Statements and expressions that run script code begin. *)

BeginBlock(k) ==
  /\ MayPush(k)
  /\ \/ k \in {"scope", "try"} /\ InBlock
     \/ k \in {"if", "loop"} /\ Evaluating
  /\ Push(NewFrame(k, ScopeOf(Depth), NoObj), life)
  /\ UNCHANGED doomed

(* let x = ..., return ..., or an operand, an argument or a condition; an element is one of these
   that may be an error: the elements of an array literal, the values of a dictionary literal, what
   a member is taken of, and the arguments of the builtins that look at any object (address,
   is_frozen, freezer, lookup_hash, lookup_hashable, lookup_equal, type_str, internal_type_str, doc
   and the second of thread). *)
BeginContext(k) ==
  /\ MayPush(k)
  /\ \/ k \in {"let", "return"} /\ InBlock
     \/ k \in {"operand", "element"} /\ (Evaluating \/ (In("asks") /\ result = Nothing))
  /\ Push(NewFrame(k, ScopeOf(Depth), NoObj), life)
  /\ UNCHANGED doomed

(* A function sees the environment that it was defined in, a method that of its caller.  The
   argument is an object of a variable, or the one just made or fetched, or something else. *)
BeginCall(j, o) ==
  LET f == [NewFrame("call", j, o) EXCEPT !.held = [p \in Obj |-> IF p = o THEN 1 ELSE 0]]
  IN
    /\ MayPush("call") /\ Evaluating /\ HasScope(j)
    /\ \/ o \in Reachable \cup {NoObj} /\ Push(f, life)
       \/ o \in Obj /\ result = Just(o) /\ Settle(Append(stack, f), Nothing, life, kept)
    /\ UNCHANGED doomed

BeginMethod(o) ==
  /\ MayPush("method") /\ Evaluating /\ o \in Reachable
  /\ Push(NewFrame("method", ScopeOf(Depth), o), life)
  /\ UNCHANGED doomed

(* A type with a constructor; the object has no destructor yet. *)
BeginConstruct(o) ==
  /\ MayPush("construct") /\ Evaluating /\ life[o] = "unborn"
  /\ Push(NewFrame("construct", ScopeOf(Depth), o), [life EXCEPT ![o] = "constructing"])
  /\ UNCHANGED doomed

-----------------------------------------------------------------------------
(* They end. *)

(* Mutant: the value is taken out of a ReturnValue that it need not be in. *)
UnwrappedBlindly(r) == [r EXCEPT !.returns = @ - 1]

Unwrapped(r) == [r EXCEPT !.returns = IF @ > 0 THEN @ - 1 ELSE 0]

(* Mutant: a scope that a jump, a return or an error leaves is not cleaned. *)
CleanAtEndOnly(r) ==
  LET f == [Top EXCEPT !.mode = "cleans", !.saved = r,
                       !.visit = IF EndsBlock(r) THEN Empty ELSE Top.held,
                       !.sole = {o \in Obj : Top.held[o] = 1}]
  IN Settle(Append(Below, f), Nothing, life, kept)

(* A body has been evaluated to r: its frame's objects are next. *)
Clean(r) ==
  LET f == [Top EXCEPT !.mode = "cleans", !.saved = r, !.visit = Top.held,
                       !.sole = {o \in Obj : Top.held[o] = 1}]
  IN Settle(Append(Below, f), Nothing, life, kept)

(* An if or a call looks at the value of its body, a scope or a loop does not yet. *)
EndBody ==
  /\ In("runs") /\ Top.kind \in {"scope", "if", "loop", "call"}
  /\ \/ Top.kind \in {"if", "call"} /\ result = Nothing /\ Crash
     \/ Top.kind = "call" /\ result # Nothing /\ Clean(Unwrapped(result))
     \/ Top.kind = "if" /\ result # Nothing /\ Clean(result)
     \/ Top.kind \in {"scope", "loop"} /\ Clean(result)
  /\ UNCHANGED doomed

(* Methods and constructors check their return type, and do not clean up after an error. *)
EndMethod ==
  /\ In("runs") /\ Top.kind \in {"method", "construct"}
  /\ \/ result = Nothing /\ Crash
     \/ result # Nothing /\ Unwrapped(result) # Just("error") /\ Clean(Unwrapped(result))
     \/ result # Nothing /\ Pop(Just("error"))
  /\ UNCHANGED doomed

(* Mutant: the destructor is not reset once it has run. *)
HasDestructorForever(o) == life[o] \in {"alive", "destructing", "destructed"}

HasDestructor(o) == life[o] \in {"alive", "destructing"}

(* evalUserObjectDestructors looks at one more variable. *)
Visit(o) ==
  /\ In("cleans") /\ Top.visit[o] > 0
  /\ LET f == [Top EXCEPT !.visit[o] = @ - 1] IN
       IF OnlyOne(stack, kept, result, o) /\ HasDestructor(o)
       THEN Settle(Append(Append(Below, f), NewFrame("destructor", Depth, o)), Nothing,
                   [life EXCEPT ![o] = "destructing"], kept)
       ELSE Settle(Append(Below, f), Nothing, life, kept)
  /\ UNCHANGED doomed

(* The frame below the destructor is left at once with r, an error or an exit; as a constructor
   it makes nothing of an exit. *)
Abandon(r, lf) ==
  LET f == stack[Depth - 1]
      made == f.kind = "construct" /\ r = Just("exit")
  IN Settle(Resumed(SubSeq(stack, 1, Depth - 2)), IF made THEN Just(f.obj) ELSE r,
            IF made THEN [lf EXCEPT ![f.obj] = "alive"] ELSE lf, LeftOf(Left(Top), f))

(* A destructor ends; a return type that does not fit is an error.  An error or exit is what the
   scope being cleaned evaluates to, whatever it was going to be; the other objects of that
   scope are not looked at.  An exit may so take the place of an error, and be swallowed. *)
EndDestructor ==
  /\ In("runs") /\ Top.kind = "destructor"
  /\ \/ result = Nothing /\ Crash /\ UNCHANGED doomed
     \/ /\ result # Nothing
        /\ \E r \in {Unwrapped(result), Just("error")} :
             LET done == [life EXCEPT ![Top.obj] = "destructed"] IN
             IF r \in {Just("error"), Just("exit")}
             THEN Abandon(r, done) /\ doomed' = IsDoom(Depth - 1, r.of)
             ELSE Settle(Below, Nothing, done, Left(Top)) /\ UNCHANGED doomed

(* Mutant: exit in a loop's body goes on with the next iteration. *)
EndsLoopButExit(r) == r.returns > 0 \/ r.of = "error"

(* What a loop's body may evaluate to that ends the loop and what the loop is in. *)
EndsLoop(r) == r.returns > 0 \/ r.of \in {"error", "exit"}

(* A clean scope is left with the value set aside.  An object has its destructor once it has been
   constructed.  An iteration of a loop ends the loop or not. *)
Leave ==
  /\ In("cleans") /\ Top.visit = Empty
  /\ \/ Top.kind \in {"scope", "if", "call", "method"} /\ Pop(Top.saved)
     \/ /\ Top.kind = "construct"
        /\ Settle(Resumed(Below), Just(Top.obj), [life EXCEPT ![Top.obj] = "alive"], Left(Top))
     \/ Top.kind = "loop" /\ Top.saved = Nothing /\ Crash
     \/ Top.kind = "loop" /\ EndsLoop(Top.saved) /\ Pop(Top.saved)
     \/ Top.kind = "loop" /\ Top.saved = Just("break") /\ Pop(Just("value"))
     \/ /\ Top.kind = "loop" /\ Top.saved \notin {Nothing, Just("break")} /\ ~EndsLoop(Top.saved)
        /\ Settle(Append(Below, [Top EXCEPT !.mode = "asks"]), Nothing, life, kept)
  /\ UNCHANGED doomed

(* A loop's condition or its iterator; either may be an error. *)
Ask ==
  /\ In("asks")
  /\ \/ /\ result # Just("error")
        /\ Settle(Append(Below, [NewFrame("loop", Top.outer, NoObj) EXCEPT !.mode = "runs"]),
                  Nothing, life, Left(Top))
     \/ result # Just("error") /\ Pop(Just("value"))
     \/ Pop(Just("error"))
  /\ UNCHANGED doomed

(* try: the body shares the environment; everything but an error is dropped. *)
EndTry ==
  /\ In("runs") /\ Top.kind = "try"
  /\ \/ result = Nothing /\ Crash
     \/ /\ result = Just("error")
        /\ Settle(Append(Below, NewFrame("except", Top.outer, NoObj)), Nothing, life, Left(Top))
     \/ result \notin {Nothing, Just("error")} /\ Pop(Just("value"))
  /\ UNCHANGED doomed

EndExcept ==
  /\ In("runs") /\ Top.kind = "except"
  /\ Pop(result)
  /\ UNCHANGED doomed

(* let takes any value, and may fail; a variable holds the object, or the object in a return
   value is kept by it.  An error is the value of the let as well as of the variable. *)
EndLet ==
  /\ In("runs") /\ Top.kind = "let" /\ result # Nothing
  /\ LET o == result.of
         j == Top.outer
     IN \/ /\ result.returns = 0 /\ o \in Obj
           /\ stack[j].held[o] < MaxHeld
           /\ Settle(Resumed([Below EXCEPT ![j].held[o] = @ + 1]), Just("value"), life, kept)
        \/ /\ result.returns > 0 /\ o \in Obj
           /\ kept[o] < MaxHeld
           /\ Settle(Resumed(Below), Just("value"), life, [kept EXCEPT ![o] = @ + 1])
        \/ o \notin Obj /\ result # Just("error") /\ Pop(Just("value"))
        \/ Pop(Just("error"))
  /\ UNCHANGED doomed

EndReturn ==
  /\ In("runs") /\ Top.kind = "return" /\ result # Nothing /\ result.returns < MaxReturns
  /\ Pop([result EXCEPT !.returns = @ + 1])
  /\ UNCHANGED doomed

(* An operand that is an error is the value of the whole; else an operator gives a value or,
   of operands it has no meaning for, an error. *)
EndOperand ==
  /\ In("runs") /\ Top.kind = "operand" /\ result # Nothing
  /\ \/ result # Just("error") /\ Pop(Just("value"))
     \/ Pop(Just("error"))
  /\ UNCHANGED doomed

(* The whole has a value whatever the element is, an error or an exit too: a literal holds it, the
   member is the Error's own.  It may yet be an error for another reason. *)
EndElement ==
  /\ In("runs") /\ Top.kind = "element" /\ result # Nothing
  /\ Pop(Just("value")) \/ Pop(Just("error"))
  /\ UNCHANGED doomed

(* The program's value, out of all its return values.  Global objects are not destructed. *)
EndProgram ==
  /\ In("runs") /\ Top.kind = "program"
  /\ Pop(Just(result.of))
  /\ UNCHANGED doomed

Over == (stack = << >> \/ fault # "none") /\ UNCHANGED vars

-----------------------------------------------------------------------------
Simple ==
  \/ \E v \in {"value", "error", "exit"} : Evaluate(v)
  \/ \E v \in {"break", "continue"} : Jump(v)
  \/ \E o \in Obj : Fetch(o) \/ Make(o) \/ Keep(o) \/ Forget(o)
  \/ \E j \in DOMAIN stack, old, new \in Obj \cup {NoObj} : Assign(j, old, new)
  \/ Capture

Begin ==
  \/ \E k \in {"scope", "if", "loop", "try"} : BeginBlock(k)
  \/ \E k \in Contexts : BeginContext(k)
  \/ \E j \in DOMAIN stack, o \in Obj \cup {NoObj} : BeginCall(j, o)
  \/ \E o \in Obj : BeginMethod(o) \/ BeginConstruct(o)

End ==
  \/ EndBody \/ EndMethod \/ \E o \in Obj : Visit(o)
  \/ EndDestructor \/ Leave \/ Ask \/ EndTry \/ EndExcept \/ EndLet \/ EndReturn \/ EndOperand
  \/ EndElement \/ EndProgram

Next == Simple \/ Begin \/ End \/ Over

Spec == Init /\ [][Next]_vars

-----------------------------------------------------------------------------
(* Properties. *)

InDestructor == \E i \in DOMAIN stack : stack[i].kind = "destructor"

Failure(r) == r.of \in {"error", "exit"}

(* An error or exit that nothing on the stack can swallow ends the program: from then on only
   destructors run, no statement and no iteration of a loop begins. *)
DoomIsFinal ==
  doomed => \/ InDestructor
            \/ stack = << >> /\ Failure(result)
            \/ stack # << >> /\ Failure(IF Top.mode = "cleans" THEN Top.saved ELSE result)

(* A scope that is left through its end has destructed every object that one of its variables,
   and nothing else, has referred to since (evalUserObjectDestructors). *)
ScopeCleansUp ==
  stack # << >> /\ Top.mode = "cleans" /\ Top.visit = Empty =>
    \A o \in Top.sole : life[o] \notin {"alive", "destructing"}

(* A destructor that has ended is not called again (UserObject::evalAndResetDestructor). *)
DestructedStays ==
  [][\A o \in Obj : life[o] \in {"destructed", "freed"} => life'[o] \in {"destructed", "freed"}]_vars

=============================================================================
