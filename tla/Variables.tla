------------------------------ MODULE Variables -----------------------------
(***************************************************************************)
(* Variables and the objects they share (Environment::add, get and set,    *)
(* let, assignment and element assignment of Evaluator.cpp, push_back and  *)
(* pop_back of builtin/Array.cpp, typing::isCompatibleType).               *)
(*                                                                         *)
(* Scalars are cloned when they are stored in a variable or in a slot of   *)
(* an array; arrays are shared.  An argument, a loop's element, the element*)
(* of an array literal or of a slice and the argument of push_back are     *)
(* shared whatever they are.  Any statement, of this thread or another, may*)
(* run while the right side of an element assignment is evaluated.  An     *)
(* object dies with its last reference.  Values of scalars are left out:   *)
(* Updates has them, and Freezing the checks of the freeze counter.        *)
(***************************************************************************)
EXTENDS Integers, Sequences, FiniteSets

CONSTANTS
  Name,       \* the variables
  Inner,      \* those of an inner scope, which are bound again when it is entered again
  Parameter,  \* those of the inner scope that are bound to an argument or a loop's element
  Constant,   \* those that are declared const
  Declared,   \* the type that each variable's let, or the function, declares
  Cell,       \* bound: the objects alive at the same time
  MaxLength   \* bound: the length of an array

\* The types a variable is declared with, "none" for a let without a type.
Types == {"none", "any", "int", "[int]"}

ASSUME ConstantAssumption ==
  /\ Parameter \subseteq Inner /\ Inner \subseteq Name /\ Constant \subseteq Name \ Parameter
  /\ Declared \in [Name -> Types]
  /\ Cell \subseteq Nat \ {0}
  /\ MaxLength \in Nat

VARIABLES
  heap,     \* the objects
  store,    \* the cell that each variable refers to, 0 when it is not bound
  storing,  \* the element assignment that is under way, or NoStore
  fault     \* the undefined behaviour the interpreter has run into, or "none"

vars == <<heap, store, storing, fault>>

-----------------------------------------------------------------------------
\* An object: its type, the cells of its elements, Object::declaredType, and as
\* history whether it has been shared without a clone or changed as an array.
Object(type, items) == [type |-> type, items |-> items, declared |-> "none", history |-> {}]

Free == Object("Free", <<>>)

isValueAssigned(o) == o.type \in {"Integer", "String"}

Clone(o) == Object(o.type, o.items)

NoStore == [cell |-> 0, index |-> 0, shortened |-> FALSE]

ItemsOf(h, c) == {h[c].items[i] : i \in DOMAIN h[c].items}

\* What can still be reached.
Live(h, s, p) ==
  LET roots == ({s[n] : n \in Name} \cup {p.cell}) \ {0}
  IN roots \cup UNION {ItemsOf(h, c) : c \in roots}

\* The state after a step: shared_ptr destroys what nothing reaches.
Become(h, s, p) ==
  /\ heap' = [c \in Cell |-> IF c \in Live(h, s, p) THEN h[c] ELSE Free]
  /\ store' = s /\ storing' = p /\ fault' = fault

Bound == {n \in Name : store[n] # 0}
ObjectOf(n) == heap[store[n]]
Scalars == {c \in Cell : isValueAssigned(heap[c])}
FreeCells == {c \in Cell : heap[c] = Free}
Fresh == CHOOSE c \in FreeCells : TRUE

Mark(h, cells, mark) ==
  [c \in Cell |-> IF c \in cells THEN [h[c] EXCEPT !.history = @ \cup {mark}] ELSE h[c]]

-----------------------------------------------------------------------------
\* typing::isCompatibleType of a declared type and an object.
Fits(type, o) ==
  CASE type \in {"none", "any"} -> TRUE
    [] type = "int" -> o.type = "Integer"
    [] type = "[int]" -> o.type = "Array" /\ \A i \in DOMAIN o.items : heap[o.items[i]].type = "Integer"

\* typing::computeType of an object that a variable holds, and whether another
\* object has that type: its declared type comes first.
SameType(o, existing) ==
  \/ existing.declared # "none" /\ Fits(existing.declared, o)
  \/ /\ existing.declared = "none" /\ o.type = existing.type
     /\ \A i \in DOMAIN o.items : \E j \in DOMAIN existing.items :
          LET e == heap[existing.items[j]]
          IN IF e.declared # "none" THEN Fits(e.declared, heap[o.items[i]])
             ELSE heap[o.items[i]].type = e.type

\* A mutant: the object that the variable holds is not passed on.
CompatibleOfType(type, o, existing) == Fits(type, o)
\* A mutant: only `any` is looked at when a variable is assigned.
CompatibleOfAny(type, o, existing) == type # "any" \/ SameType(o, existing)
\* isCompatibleType with the object that exists.
Compatible(type, o, existing) == IF type = "any" THEN SameType(o, existing) ELSE Fits(type, o)

\* What an expression evaluates to: a new object, of a literal, or the object
\* that a variable or a slot refers to.  A literal array shares its element, and
\* so do a[range], slice, reversed and rotated: each makes a new array of some of
\* an array's elements, in an order and as often as its range says.
Literals == {Object("Integer", <<>>), Object("String", <<>>)}
Existing == {[cell |-> c, object |-> heap[c]] : c \in Live(heap, store, NoStore)}
Shared == Live(heap, store, NoStore) \cap Scalars
Slices == UNION {[1 .. m -> ItemsOf(heap, c)] : m \in 1 .. MaxLength, c \in Live(heap, store, NoStore)}
Results ==
  Existing \cup {[cell |-> 0, object |-> o] :
     o \in Literals \cup {Object("Array", items) : items \in Slices \cup {<<>>} \cup {<<c>> : c \in Shared}}}

\* A mutant: what is stored is the object itself.
StoredOfObject(v) == IF v.cell # 0 THEN [heap |-> heap, cell |-> v.cell]
                     ELSE [heap |-> [heap EXCEPT ![Fresh] = v.object], cell |-> Fresh]
\* What is stored for a value: a clone of a scalar, the array itself.
Stored(v) ==
  IF v.cell # 0 /\ ~isValueAssigned(v.object)
  THEN [heap |-> heap, cell |-> v.cell]
  ELSE [heap |-> Mark([heap EXCEPT ![Fresh] = Clone(v.object)],
                      {v.object.items[i] : i \in DOMAIN v.object.items}, "shared"),
        cell |-> Fresh]

Room == FreeCells # {}

-----------------------------------------------------------------------------
\* evalLetStatement: Environment::add refuses a name that is bound; the declared
\* type is set on the object, which for an array may be another variable's.
Let(n, v) ==
  /\ n \notin Bound \cup Parameter /\ Room
  /\ Fits(Declared[n], v.object)
  /\ LET s == Stored(v)
     IN Become([s.heap EXCEPT ![s.cell].declared = Declared[n]],
               [store EXCEPT ![n] = s.cell], storing)

\* evalAssignmentOperator and Environment::set.
Assign(n, v) ==
  /\ n \in Bound \ Constant /\ Room
  /\ Compatible(Declared[n], v.object, ObjectOf(n))
  /\ LET s == Stored(v) IN Become(s.heap, [store EXCEPT ![n] = s.cell], storing)

\* A call, a for loop or an iterator: the variable refers to the object itself.
Bind(n, v) ==
  /\ n \in Parameter \ Bound /\ v.cell # 0
  /\ Fits(Declared[n], v.object)
  /\ Become(Mark(heap, {v.cell}, "shared"), [store EXCEPT ![n] = v.cell], storing)

\* The inner scope ends.
Leave ==
  /\ Inner \cap Bound # {}
  /\ Become(heap, [n \in Name |-> IF n \in Inner THEN 0 ELSE store[n]], storing)

\* array_push_back: what is pushed is not cloned.
PushBack(n, c) ==
  /\ n \in Bound /\ ObjectOf(n).type = "Array"
  /\ Len(ObjectOf(n).items) < MaxLength
  /\ c \in Scalars
  /\ Become(Mark(Mark([heap EXCEPT ![store[n]].items = Append(@, c)], {c}, "shared"),
                 {store[n]}, "changed"), store, storing)

\* A store into the array that is under way finds it shorter.
Shorten(p, c) == IF p.cell = c THEN [p EXCEPT !.shortened = TRUE] ELSE p

\* array_pop_back: std::vector::pop_back of an empty array is undefined.
PopBack(n) ==
  /\ n \in Bound /\ ObjectOf(n).type = "Array"
  /\ LET items == ObjectOf(n).items
     IN IF items = <<>>
        THEN fault' = "pop of an empty array" /\ UNCHANGED <<heap, store, storing>>
        ELSE Become([heap EXCEPT ![store[n]].items = SubSeq(items, 1, Len(items) - 1)], store,
                    Shorten(storing, store[n]))

-----------------------------------------------------------------------------
\* updateArray: the index is checked, then the right side is evaluated, in
\* which anything may run, then the slot is written; frozen is not looked at.
\* A mutant: an index one past the end is accepted.
InsideOrNext(i, items) == i \in 1 .. Len(items) + 1
Inside(i, items) == i \in DOMAIN items

BeginStore(n, i) ==
  /\ storing = NoStore /\ n \in Bound /\ ObjectOf(n).type = "Array"
  /\ Inside(i, ObjectOf(n).items)
  /\ Become(heap, store, [cell |-> store[n], index |-> i, shortened |-> FALSE])

EndStore(v) ==
  /\ storing # NoStore /\ isValueAssigned(v.object) /\ Room
  /\ IF storing.index > Len(heap[storing.cell].items)
     THEN fault' = "store out of bounds" /\ UNCHANGED <<heap, store, storing>>
     ELSE LET s == Stored(v)
          IN Become(Mark([s.heap EXCEPT ![storing.cell].items[storing.index] = s.cell],
                         {storing.cell}, "changed"), store, NoStore)

-----------------------------------------------------------------------------
Init ==
  /\ heap = [c \in Cell |-> Free]
  /\ store = [n \in Name |-> 0]
  /\ storing = NoStore
  /\ fault = "none"

Next ==
  /\ fault = "none"
  /\ \/ \E n \in Name, v \in Results : Let(n, v) \/ Assign(n, v) \/ Bind(n, v)
     \/ Leave
     \/ \E n \in Name : PopBack(n) \/ \E c \in Shared : PushBack(n, c)
     \/ \E n \in Name, i \in 1 .. MaxLength + 1 : BeginStore(n, i)
     \/ \E v \in Results : EndStore(v)

Spec == Init /\ [][Next]_vars

-----------------------------------------------------------------------------
\* Who refers to an object: variables, and slots of arrays.
Referrers(c) ==
  {<<n, 0>> : n \in {m \in Name : store[m] = c}} \cup
  UNION {{<<d, i>> : i \in {j \in DOMAIN heap[d].items : heap[d].items[j] = c}} : d \in Cell}

\* Value semantics of scalars (let, `=` and `a[i] =` clone): an Integer or a
\* String that two variables or slots refer to has been an argument, a loop's
\* element, the element of a literal or of a slice, or the argument of push_back.
ScalarsAreOwned ==
  \A c \in Scalars : Cardinality(Referrers(c)) > 1 => "shared" \in heap[c].history

\* A variable holds what its declaration says, whatever statements, scopes and
\* threads did, unless it is an array that push_back or `a[i] =` has changed:
\* these look at no type.
FitsDeclaration ==
  \A n \in Bound : Fits(Declared[n], ObjectOf(n)) \/ "changed" \in ObjectOf(n).history

\* The object of an `any` variable that carries no declared type of its own pins
\* the type of the next one that is assigned.
AnyIsPinned ==
  [][\A n \in Bound :
       Declared[n] = "any" /\ ObjectOf(n).declared = "none" /\ store'[n] # 0
         => heap'[store'[n]].type = ObjectOf(n).type]_vars

\* `a[i] = e` writes outside the array only when e, or another thread, has
\* shortened the array after the index was checked.
StoresStayInside ==
  fault = "store out of bounds" => storing.shortened

=============================================================================
