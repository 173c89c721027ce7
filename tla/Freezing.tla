------------------------------ MODULE Freezing ------------------------------
(***************************************************************************)
(* Containers, their freeze counters, and the activities that walk over a  *)
(* container while script code runs: `for` loops, and the sorting builtins *)
(* called with a script comparator.                                        *)
(*                                                                         *)
(* Every luci object carries a counter `frozen` (Object.h).  freeze()      *)
(* increments it, defrost() decrements it while it is positive, and an     *)
(* ObjectFreezer (the result of freezer(), and a member of every container *)
(* iterator) increments it when constructed and decrements it when         *)
(* destroyed.  Some mutators refuse to work on a frozen object, the others *)
(* never look at the counter.                                              *)
(*                                                                         *)
(* One script runs (threads share nothing here): between any two steps of  *)
(* a loop or of a sort the body, or the comparator, may do anything else.  *)
(***************************************************************************)
EXTENDS Integers, Sequences, FiniteSets

CONSTANTS
  Obj,        \* the containers
  Kind,       \* their types, a function from Obj to Kinds
  Elem,       \* what arrays and strings hold, and what sets and dictionaries are keyed by
  Null,       \* an empty shared_ptr in an array's slot
  Freezer,    \* the variables that may hold the result of freezer()
  NoObj,      \* a variable of Freezer holds nothing
  MaxLen,     \* bound: an array or a string grows no longer
  MaxFrozen,  \* bound: freeze() is called up to this counter value
  MaxNest     \* bound: nesting of loops and sorts

Kinds == {"array", "string", "dictionary", "set"}
Sequential(o) == Kind[o] \in {"array", "string"}
Slot == Elem \cup {Null}

ASSUME ConstantAssumption ==
  /\ Kind \in [Obj -> Kinds]
  /\ IsFiniteSet(Freezer)
  /\ NoObj \notin Obj
  /\ Null \notin Elem
  /\ MaxLen \in Nat /\ MaxFrozen \in Nat /\ MaxNest \in Nat

VARIABLES
  slots,    \* contents of an array or a string
  keys,     \* keys of a dictionary or a set
  frozen,   \* Object::frozen, a plain int
  freezer,  \* the object each freezer variable holds frozen, or NoObj
  active,   \* the loops and sorts in progress, the innermost last
  fault,    \* the undefined behaviour the interpreter has run into, or "none"
  net,      \* history: calls of freeze less effective calls of defrost
  robbed    \* history: defrost() has taken a freeze that a freezer or loop held

vars == <<slots, keys, frozen, freezer, active, fault, net, robbed>>

Activities == {"for", "sort", "sorted", "is_sorted"}

(* An activity: `at` is the index of an ArrayIterator or StringIterator, `rest` the keys a
   DictionaryIterator or SetIterator has not returned yet.  `stale` says that the C++ iterator
   refers to storage that is gone.  The last three are history: the contents' size and keys
   when it began, and whether the object has been frozen ever since. *)
Activity ==
  [kind : Activities, obj : Obj, at : Nat, rest : SUBSET Elem, stale : BOOLEAN,
   size : Nat, nodes : SUBSET Elem, held : BOOLEAN]

TypeOK ==
  /\ slots \in [Obj -> Seq(Slot)]
  /\ keys \in [Obj -> SUBSET Elem]
  /\ frozen \in [Obj -> Int]
  /\ freezer \in [Freezer -> Obj \cup {NoObj}]
  /\ active \in Seq(Activity)
  /\ fault \in {"none", "dangling", "out of bounds", "null element", "misaligned"}
  /\ net \in [Obj -> Int]
  /\ robbed \in [Obj -> BOOLEAN]

(* A container starts as a literal of the program: any short contents. *)
Literals == UNION {[1..n -> Elem] : n \in 0..MaxLen}

Init ==
  /\ slots \in [Obj -> Literals]
  /\ keys \in [Obj -> SUBSET Elem]
  /\ \A o \in Obj : IF Sequential(o) THEN keys[o] = {} ELSE slots[o] = << >>
  /\ frozen = [o \in Obj |-> 0]
  /\ freezer = [f \in Freezer |-> NoObj]
  /\ active = << >>
  /\ fault = "none"
  /\ net = [o \in Obj |-> 0]
  /\ robbed = [o \in Obj |-> FALSE]

-----------------------------------------------------------------------------
(* Freeze counters. *)

(* The activities over o after its counter has become n: they are no longer held at 0. *)
Unheld(o, n) ==
  [i \in DOMAIN active |->
     [active[i] EXCEPT !.held = @ /\ ~(active[i].obj = o /\ n <= 0)]]

Freeze(o) ==
  /\ frozen[o] < MaxFrozen
  /\ frozen' = [frozen EXCEPT ![o] = @ + 1]
  /\ net' = [net EXCEPT ![o] = @ + 1]
  /\ UNCHANGED <<slots, keys, freezer, active, fault, robbed>>

Defrost(o) ==
  /\ frozen[o] > 0
  /\ frozen' = [frozen EXCEPT ![o] = @ - 1]
  /\ net' = [net EXCEPT ![o] = @ - 1]
  /\ robbed' = [robbed EXCEPT ![o] = @ \/ net[o] <= 0]
  /\ active' = Unheld(o, frozen[o] - 1)
  /\ UNCHANGED <<slots, keys, freezer, fault>>

(* let f = freezer(o), and f going out of scope. *)
MakeFreezer(f, o) ==
  /\ freezer[f] = NoObj
  /\ freezer' = [freezer EXCEPT ![f] = o]
  /\ frozen' = [frozen EXCEPT ![o] = @ + 1]
  /\ UNCHANGED <<slots, keys, active, fault, net, robbed>>

(* mutant: an ObjectFreezer without its destructor *)
DropFreezerKeepingCount(f) ==
  /\ freezer[f] # NoObj
  /\ freezer' = [freezer EXCEPT ![f] = NoObj]
  /\ UNCHANGED <<slots, keys, frozen, active, fault, net, robbed>>

DropFreezer(f) ==
  /\ freezer[f] # NoObj
  /\ LET o == freezer[f] IN
       /\ frozen' = [frozen EXCEPT ![o] = @ - 1]
       /\ active' = Unheld(o, frozen[o] - 1)
  /\ freezer' = [freezer EXCEPT ![f] = NoObj]
  /\ UNCHANGED <<slots, keys, fault, net, robbed>>

-----------------------------------------------------------------------------
(* for loops: iter_impl makes an iterator, which freezes its container; the loop asks isValid,
   takes next, runs the body, and drops the iterator however it ends. *)

Top == active[Len(active)]
Front(s) == SubSeq(s, 1, Len(s) - 1)

(* mutant: an iterator that stands before the first element *)
NewActivityBeforeFirst(k, o, held) ==
  [kind |-> k, obj |-> o, at |-> -1, stale |-> FALSE,
   rest |-> keys[o], size |-> Len(slots[o]), nodes |-> keys[o],
   held |-> held]

NewActivity(k, o, held) ==
  [kind |-> k, obj |-> o, at |-> 0, stale |-> FALSE,
   rest |-> keys[o], size |-> Len(slots[o]), nodes |-> keys[o],
   held |-> held]

(* mutant: iterators without a freezer member *)
BeginForUnfrozen(o) ==
  /\ Len(active) < MaxNest
  /\ active' = Append(active, NewActivity("for", o, frozen[o] > 0))
  /\ UNCHANGED <<slots, keys, frozen, freezer, fault, net, robbed>>

(* A container that somebody has robbed may be at -1, and a new iterator does not hold it. *)
BeginFor(o) ==
  /\ Len(active) < MaxNest
  /\ active' = Append(active, NewActivity("for", o, frozen[o] + 1 > 0))
  /\ frozen' = [frozen EXCEPT ![o] = @ + 1]
  /\ UNCHANGED <<slots, keys, freezer, fault, net, robbed>>

(* Array, string, dictionary and set iterators: an index against the size, or a node against
   end().  A stale node is never end(). *)
IsValid(a) == IF Sequential(a.obj) THEN a.at < Len(slots[a.obj]) ELSE a.stale \/ a.rest # {}

Looping == active # << >> /\ Top.kind = "for"

NextElement ==
  /\ Looping /\ IsValid(Top)
  /\ \/ /\ Sequential(Top.obj)
        /\ IF slots[Top.obj][Top.at + 1] = Null
           THEN fault' = "null element" /\ UNCHANGED active
           ELSE /\ active' = [active EXCEPT ![Len(active)].at = @ + 1]
                /\ UNCHANGED fault
     \/ /\ ~Sequential(Top.obj) /\ ~Top.stale
        /\ \E k \in Top.rest : active' = [active EXCEPT ![Len(active)].rest = @ \ {k}]
        /\ UNCHANGED fault
     \/ /\ ~Sequential(Top.obj) /\ Top.stale
        /\ fault' = "dangling"
        /\ UNCHANGED active
  /\ UNCHANGED <<slots, keys, frozen, freezer, net, robbed>>

(* The iterator is exhausted, or the body ended in break, return, exit or an error. *)
EndFor ==
  /\ Looping
  /\ LET o == Top.obj
     IN /\ active' = Front(Unheld(o, frozen[o] - 1))
        /\ frozen' = [frozen EXCEPT ![o] = @ - 1]
  /\ UNCHANGED <<slots, keys, freezer, fault, net, robbed>>

-----------------------------------------------------------------------------
(* Mutators.  Clear, PushBack, PopBack, Reverse and Rotate of an array, clear of a set and of a
   string return an Error and change nothing when the object is frozen; the others do not look.
   An is_sorted in progress walks the vector with C++ iterators: whatever moves, shortens or
   replaces the vector's storage leaves it stale. *)

(* mutant: an off-by-one in the test of the counter *)
MayMutateFrozenOnce(o) == frozen[o] <= 1

MayMutate(o) == frozen[o] <= 0

(* What becomes of the activities over o: `scans` is what an is_sorted can find. *)
Scanned(o, stale) ==
  [i \in DOMAIN active |->
     IF active[i].kind = "is_sorted" /\ active[i].obj = o
     THEN [active[i] EXCEPT !.stale = @ \/ stale] ELSE active[i]]

(* A loop whose node is freed keeps a pointer to it; one that is already at end() does not. *)
Dangle(o) ==
  [i \in DOMAIN active |->
     [active[i] EXCEPT !.stale = @ \/ (active[i].obj = o /\ active[i].rest # {})]]

(* push_back and append; the vector may or may not have to reallocate. *)
PushBack(o, e) ==
  /\ Kind[o] = "array" /\ MayMutate(o) /\ Len(slots[o]) < MaxLen
  /\ slots' = [slots EXCEPT ![o] = Append(@, e)]
  /\ \E moved \in BOOLEAN : active' = Scanned(o, moved)
  /\ UNCHANGED <<keys, frozen, freezer, fault, net, robbed>>

(* pop_back of an empty vector is undefined. *)
PopBack(o) ==
  /\ Kind[o] = "array" /\ MayMutate(o)
  /\ IF slots[o] = << >>
     THEN fault' = "out of bounds" /\ UNCHANGED <<slots, active>>
     ELSE /\ slots' = [slots EXCEPT ![o] = Front(@)]
          /\ active' = Scanned(o, TRUE)
          /\ UNCHANGED fault
  /\ UNCHANGED <<keys, frozen, freezer, net, robbed>>

(* clear: an array or a string gives its elements back, a set its nodes. *)
Clear(o) ==
  /\ MayMutate(o)
  /\ \/ /\ Sequential(o)
        /\ slots' = [slots EXCEPT ![o] = << >>]
        /\ active' = Scanned(o, TRUE)
        /\ UNCHANGED keys
     \/ /\ Kind[o] = "set"
        /\ keys' = [keys EXCEPT ![o] = {}]
        /\ active' = Dangle(o)
        /\ UNCHANGED slots
  /\ UNCHANGED <<frozen, freezer, fault, net, robbed>>

(* reverse: the array method refuses a frozen array; the builtin on a string does not look. *)
Reverse(o) ==
  /\ Sequential(o) /\ (Kind[o] = "array" => MayMutate(o))
  /\ slots' = [slots EXCEPT ![o] = [i \in 1..Len(@) |-> @[Len(@) + 1 - i]]]
  /\ UNCHANGED <<keys, frozen, freezer, active, fault, net, robbed>>

(* sort() and the comparators leave any order of the elements behind. *)
Orderings(n) == {p \in [1..n -> 1..n] : \A i, j \in 1..n : p[i] = p[j] => i = j}
Arranged(s, p) == [i \in 1..Len(p) |-> s[p[i]]]

(* rotate: array_rotate's cases fall through, so an array's storage is then rotated twice more
   as if it held doubles and complex numbers; shared_ptrs may end up torn in two. *)
Rotate(o) ==
  /\ Kind[o] = "array" /\ MayMutate(o)
  /\ \/ /\ \E p \in Orderings(Len(slots[o])) :
              slots' = [slots EXCEPT ![o] = Arranged(@, p)]
        /\ UNCHANGED fault
     \/ /\ slots[o] # << >>
        /\ fault' = "misaligned"
        /\ UNCHANGED slots
  /\ UNCHANGED <<keys, frozen, freezer, active, net, robbed>>

(* reserve may move the vector, frozen or not. *)
Reserve(o) ==
  /\ Kind[o] = "array"
  /\ active' = Scanned(o, TRUE)
  /\ UNCHANGED <<slots, keys, frozen, freezer, fault, net, robbed>>

(* o[i] = e on an array; e is never null. *)
UpdateArray(o, i, e) ==
  /\ Kind[o] = "array"
  /\ slots' = [slots EXCEPT ![o][i] = e]
  /\ UNCHANGED <<keys, frozen, freezer, active, fault, net, robbed>>

(* o[i] = t on a string, t a string: nothing happens if it is empty, a longer one lengthens o. *)
UpdateString(o, i, t) ==
  /\ Kind[o] = "string" /\ t # << >>
  /\ Len(slots[o]) + Len(t) - 1 <= MaxLen
  /\ slots' = [slots EXCEPT ![o] = SubSeq(@, 1, i - 1) \o t \o SubSeq(@, i + 1, Len(@))]
  /\ UNCHANGED <<keys, frozen, freezer, active, fault, net, robbed>>

(* The keys an iterator has still to return after new keys went in: it stays at its node, but a
   rehash can put any other node before or after it. *)
RestAfterInsert(rest, ks) ==
  IF rest = {} THEN {{}} ELSE {r \in SUBSET ks : r \cap rest # {}}

(* o.update(other) on a dictionary, ks the keys of other; o[k] = v. *)
Insert(o, ks) ==
  /\ Kind[o] = "dictionary"
  /\ keys' = [keys EXCEPT ![o] = @ \cup ks]
  /\ IF ks \subseteq keys[o]
     THEN UNCHANGED active
     ELSE \E r \in [DOMAIN active -> SUBSET Elem] :
            /\ \A i \in DOMAIN active :
                 IF active[i].obj = o /\ ~active[i].stale
                 THEN r[i] \in RestAfterInsert(active[i].rest, keys[o] \cup ks)
                 ELSE r[i] = active[i].rest
            /\ active' = [i \in DOMAIN active |-> [active[i] EXCEPT !.rest = r[i]]]
  /\ UNCHANGED <<slots, frozen, freezer, fault, net, robbed>>

UpdateDictionary(o, k) == Insert(o, {k})

(* clear of a dictionary does not look at the counter. *)
ClearDictionary(o) ==
  /\ Kind[o] = "dictionary"
  /\ keys' = [keys EXCEPT ![o] = {}]
  /\ active' = Dangle(o)
  /\ UNCHANGED <<slots, frozen, freezer, fault, net, robbed>>

-----------------------------------------------------------------------------
(* sort, sorted and is_sorted of an array.  Without a comparator they run in one step.  With
   one, script code runs between the comparisons, and nothing freezes the array meanwhile. *)

(* Comparing an empty slot dereferences a null pointer. *)
HasNull(o) == Len(slots[o]) > 1 /\ \E i \in DOMAIN slots[o] : slots[o][i] = Null

(* A sort of elements that cannot be compared returns false and changes nothing. *)
Sort(o) ==
  /\ Kind[o] = "array"
  /\ IF HasNull(o)
     THEN fault' = "null element" /\ UNCHANGED <<slots, active>>
     ELSE /\ \E p \in Orderings(Len(slots[o])) :
               slots' = [slots EXCEPT ![o] = Arranged(@, p)]
          /\ active' = Scanned(o, TRUE)
          /\ UNCHANGED fault
  /\ UNCHANGED <<keys, frozen, freezer, net, robbed>>

(* sorted moves the elements out of its argument into the array it returns. *)
Sorted(o) ==
  /\ Kind[o] = "array"
  /\ IF HasNull(o)
     THEN fault' = "null element" /\ UNCHANGED slots
     ELSE /\ slots' = [slots EXCEPT ![o] = [i \in DOMAIN @ |-> Null]]
          /\ UNCHANGED fault
  /\ UNCHANGED <<keys, frozen, freezer, active, net, robbed>>

BeginSort(k, o) ==
  /\ Kind[o] = "array" /\ k # "for" /\ Len(active) < MaxNest
  /\ active' = Append(active, NewActivity(k, o, frozen[o] > 0))
  /\ UNCHANGED <<slots, keys, frozen, freezer, fault, net, robbed>>

Sorting == active # << >> /\ Top.kind # "for"

(* Fetching two elements for the comparator: sort and sorted by the indices they began with,
   is_sorted through its vector iterators. *)
Compare ==
  /\ Sorting /\ Top.size > 1
  /\ \/ /\ Top.kind = "is_sorted" /\ Top.stale
        /\ fault' = "dangling"
     \/ /\ Top.kind # "is_sorted" /\ Len(slots[Top.obj]) < Top.size
        /\ fault' = "out of bounds"
     \/ /\ ~Top.stale /\ \E i \in 1..Top.size : i <= Len(slots[Top.obj]) /\ slots[Top.obj][i] = Null
        /\ fault' = "null element"
  /\ UNCHANGED <<slots, keys, frozen, freezer, active, net, robbed>>

(* The order is known: sort installs the first `size` elements in that order as the whole
   array, sorted moves them out; both read past the end of an array that has shrunk. *)
EndSort ==
  /\ Sorting
  /\ LET o == Top.obj
         n == Top.size
     IN \/ /\ Top.kind = "is_sorted"
           /\ active' = Front(active)
           /\ UNCHANGED <<slots, fault>>
        \/ /\ Top.kind # "is_sorted" /\ Len(slots[o]) < n
           /\ fault' = "out of bounds"
           /\ UNCHANGED <<slots, active>>
        \/ /\ Top.kind = "sort" /\ Len(slots[o]) >= n
           /\ \E p \in Orderings(n) : slots' = [slots EXCEPT ![o] = Arranged(@, p)]
           /\ active' = Front(Scanned(o, TRUE))
           /\ UNCHANGED fault
        \/ /\ Top.kind = "sorted" /\ Len(slots[o]) >= n
           /\ slots' = [slots EXCEPT ![o] =
                          [i \in DOMAIN @ |-> IF i <= n THEN Null ELSE @[i]]]
           /\ active' = Front(active)
           /\ UNCHANGED fault
  /\ UNCHANGED <<keys, frozen, freezer, net, robbed>>

(* The comparator returned something that is not a boolean: the exception is caught. *)
FailSort ==
  /\ Sorting
  /\ active' = Front(active)
  /\ UNCHANGED <<slots, keys, frozen, freezer, fault, net, robbed>>

-----------------------------------------------------------------------------
Count ==
  \/ \E o \in Obj : Freeze(o) \/ Defrost(o)
  \/ \E f \in Freezer : DropFreezer(f) \/ \E o \in Obj : MakeFreezer(f, o)

Mutate ==
  \E o \in Obj :
    \/ PopBack(o) \/ Clear(o) \/ Reverse(o) \/ Rotate(o) \/ Reserve(o) \/ ClearDictionary(o)
    \/ \E e \in Elem : PushBack(o, e) \/ UpdateDictionary(o, e)
    \/ \E ks \in SUBSET Elem : Insert(o, ks)
    \/ /\ Sequential(o)
       /\ \E i \in DOMAIN slots[o] : \/ \E e \in Elem : UpdateArray(o, i, e)
                                     \/ \E t \in Literals : UpdateString(o, i, t)
    \/ Sort(o) \/ Sorted(o)

Walk ==
  \/ \E o \in Obj : BeginFor(o) \/ \E k \in Activities : BeginSort(k, o)
  \/ NextElement \/ EndFor \/ Compare \/ EndSort \/ FailSort

(* Undefined behaviour ends what the model says about the program. *)
Faulted == fault # "none" /\ UNCHANGED vars

Next == (fault = "none" /\ (Count \/ Mutate \/ Walk)) \/ Faulted

Spec == Init /\ [][Next]_vars

-----------------------------------------------------------------------------
(* Properties. *)

ForOver(o) == {i \in DOMAIN active : active[i].kind = "for" /\ active[i].obj = o}
FreezersOf(o) == {f \in Freezer : freezer[f] = o}

(* The counter is exact: every freeze() not undone, every live freezer and every running loop
   over the object counts once, whatever the order they end in (Object.h, ObjectFreezer). *)
FreezeBalance ==
  \A o \in Obj :
    frozen[o] = net[o] + Cardinality(FreezersOf(o)) + Cardinality(ForOver(o))

(* A running loop keeps its container frozen unless the script has called defrost() more often
   than freeze() on it (the members `freezer` of the iterators). *)
LoopHoldsFreeze ==
  \A o \in Obj : ~robbed[o] => \A i \in ForOver(o) : active[i].held

Undisturbed(a) ==
  /\ Kind[a.obj] = "array" => Len(slots[a.obj]) = a.size /\ a.at <= a.size
  /\ Kind[a.obj] = "set" => /\ ~a.stale
                            /\ keys[a.obj] = a.nodes
                            /\ a.rest \subseteq a.nodes

(* While an object has stayed frozen since a loop or a sort of it began: an array still has
   the length the activity relies on, a set the nodes its iterator walks. *)
FrozenIsStable == \A i \in DOMAIN active : active[i].held => Undisturbed(active[i])

(* After freeze(o), frozen(o) is true (tests/freezing.luci). *)
FreezeTakesEffect ==
  [][\A o \in Obj : net'[o] = net[o] + 1 => frozen'[o] > 0]_vars

=============================================================================
