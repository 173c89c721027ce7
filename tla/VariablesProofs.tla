--------------------------- MODULE VariablesProofs --------------------------
(***************************************************************************)
(* For any number of variables, objects and threads: what is stored is     *)
(* owned, what a variable holds fits its declaration, an element store     *)
(* stays inside its array and an any is pinned to the type it first has.   *)
(*                                                                         *)
(* None of these is inductive: a store puts its value into a cell that is  *)
(* free, and it must be known that nothing refers to a free cell.  Rooted  *)
(* and ItemsSound say so of variables, of the store that is under way and  *)
(* of the slots of arrays.                                                 *)
(***************************************************************************)
EXTENDS Variables, FiniteSetTheorems, TLAPS

Objects ==
  [type : {"Free", "Integer", "String", "Array"}, items : Seq(Cell), declared : Types,
   history : SUBSET {"shared", "changed"}]

Stores == [cell : Cell \cup {0}, index : Nat, shortened : BOOLEAN]

TypesOf(h, s, p) ==
  /\ h \in [Cell -> Objects]
  /\ s \in [Name -> Cell \cup {0}]
  /\ p \in Stores

\* Variables refer to objects.
Rooted(h, s) == \A n \in Name : s[n] # 0 => h[s[n]].type # "Free"

\* Only arrays have elements, and these are scalars.
ItemsSound(h) ==
  \A c \in Cell : /\ h[c].type # "Array" => h[c].items = <<>>
                  /\ \A i \in DOMAIN h[c].items : isValueAssigned(h[h[c].items[i]])

\* The array of the store that is under way, and the index into it.
StoreInside(h, p) ==
  p # NoStore =>
    /\ p.cell \in Cell /\ h[p.cell].type = "Array" /\ p.index > 0
    /\ p.shortened \/ p.index <= Len(h[p.cell].items)

\* Fits, in a heap that is about to be.
FitsIn(h, type, o) ==
  /\ type = "int" => o.type = "Integer"
  /\ type = "[int]" => o.type = "Array" /\ \A i \in DOMAIN o.items : h[o.items[i]].type = "Integer"

DeclarationsFit(h, s) ==
  \A n \in Name : s[n] # 0 => FitsIn(h, Declared[n], h[s[n]]) \/ "changed" \in h[s[n]].history

ReferrersTo(h, s, c) ==
  {<<n, 0>> : n \in {m \in Name : s[m] = c}} \cup
  UNION {{<<d, i>> : i \in {j \in DOMAIN h[d].items : h[d].items[j] = c}} : d \in Cell}

Owned(h, s) ==
  \A c \in Cell :
    isValueAssigned(h[c]) /\ "shared" \notin h[c].history
      => \A q, r \in ReferrersTo(h, s, c) : q = r

Sound(h, s, p) ==
  /\ TypesOf(h, s, p)
  /\ Rooted(h, s)
  /\ ItemsSound(h)
  /\ StoreInside(h, p)
  /\ DeclarationsFit(h, s)
  /\ Owned(h, s)

Faults == {"none", "pop of an empty array", "store out of bounds"}

IInv ==
  /\ Sound(heap, store, storing)
  /\ fault \in Faults
  /\ StoresStayInside

-----------------------------------------------------------------------------
(* The end of every step. *)

\* A cell is a number, and not the one that stands for no cell.
LEMMA Cells == 0 \notin Cell /\ \A c \in Cell : c \in Nat
  BY ConstantAssumption

\* What is in a cell that is free.
LEMMA FreeObject == Free \in Objects /\ Free.type = "Free" /\ Free.items = <<>> /\ Free.history = {}
  BY DEF Free, Object, Objects, Types

\* Fits, of the heap there is.
LEMMA FitsMeans ==
  ASSUME NEW type \in Types, NEW o, Fits(type, o)
  PROVE  FitsIn(heap, type, o)
  BY DEF Fits, FitsIn, Types

\* And the other way round.
LEMMA FitsWhole ==
  ASSUME NEW type \in Types, NEW o, FitsIn(heap, type, o)
  PROVE  Fits(type, o)
  BY DEF Fits, FitsIn, Types

\* Nothing that is referred to is destroyed.
LEMMA BecomeSound ==
  ASSUME NEW h, NEW s, NEW p, Sound(h, s, p), Become(h, s, p)
  PROVE  /\ Sound(heap', store', storing')
         /\ \A n \in Name : s[n] # 0 => heap'[s[n]] = h[s[n]]
<1>1. /\ h \in [Cell -> Objects] /\ s \in [Name -> Cell \cup {0}] /\ p \in Stores
      /\ store' = s /\ storing' = p
  BY DEF Sound, TypesOf, Become
<1>2. heap' = [c \in Cell |-> IF c \in Live(h, s, p) THEN h[c] ELSE Free]
  BY DEF Become
<1>3. heap' \in [Cell -> Objects]
  BY <1>1, <1>2, FreeObject
<1>4. \A c \in Cell : heap'[c] = h[c] \/ (c \notin Live(h, s, p) /\ heap'[c] = Free)
  BY <1>2
<1> DEFINE roots == ({s[n] : n \in Name} \cup {p.cell}) \ {0}
<1>5. \A c \in roots : c \in Cell /\ c \in Live(h, s, p)
  BY <1>1 DEF Live, Stores
<1>6. ASSUME NEW c \in roots, NEW i \in DOMAIN h[c].items
      PROVE  h[c].items[i] \in Cell /\ h[c].items[i] \in Live(h, s, p)
  <2>1. c \in Cell
    BY <1>5
  <2>2. h[c] \in Objects
    BY <1>1, <2>1
  <2>3. h[c].items \in Seq(Cell)
    BY <2>2 DEF Objects
  <2>4. h[c].items[i] \in Cell
    BY <2>3
  <2>5. h[c].items[i] \in ItemsOf(h, c)
    BY DEF ItemsOf
  <2>6. ItemsOf(h, c) \in {ItemsOf(h, d) : d \in roots}
    OBVIOUS
  <2> QED
    BY <2>4, <2>5, <2>6 DEF Live
<1>7. \A c \in roots : heap'[c] = h[c]
  BY <1>2, <1>5
<1>8. \A c \in roots : \A i \in DOMAIN h[c].items : heap'[h[c].items[i]] = h[h[c].items[i]]
  BY <1>2, <1>6
<1>9. \A n \in Name : s[n] # 0 => s[n] \in roots
  OBVIOUS
<1>10. ASSUME NEW c \in Cell, heap'[c] = h[c], h[c].type = "Array", c \notin roots
       PROVE  heap'[c].items = <<>>
  <2> SUFFICES ASSUME c \in Live(h, s, p) PROVE FALSE
    BY <1>2, FreeObject
  <2>1. PICK d \in roots : c \in ItemsOf(h, d)
    BY <1>10 DEF Live
  <2>2. PICK i \in DOMAIN h[d].items : c = h[d].items[i]
    BY <2>1 DEF ItemsOf
  <2>3. d \in Cell
    BY <1>5
  <2>4. isValueAssigned(h[c])
    BY <2>2, <2>3 DEF Sound, ItemsSound
  <2> QED
    BY <1>10, <2>4 DEF isValueAssigned
<1> HIDE DEF roots
<1>11. TypesOf(heap', s, p)
  BY <1>1, <1>3 DEF TypesOf
<1>12. Rooted(heap', s)
  BY <1>7, <1>9 DEF Sound, Rooted
<1>13. ItemsSound(heap')
  <2> SUFFICES ASSUME NEW c \in Cell
               PROVE  /\ heap'[c].type # "Array" => heap'[c].items = <<>>
                      /\ \A i \in DOMAIN heap'[c].items : isValueAssigned(heap'[heap'[c].items[i]])
    BY DEF ItemsSound
  <2>1. /\ h[c].type # "Array" => h[c].items = <<>>
        /\ \A i \in DOMAIN h[c].items : isValueAssigned(h[h[c].items[i]])
    BY DEF Sound, ItemsSound
  <2>2. CASE heap'[c].items = <<>>
    BY <2>2
  <2>3. CASE c \in roots
    BY <1>7, <1>8, <2>1, <2>3
  <2>4. CASE heap'[c].items # <<>> /\ c \notin roots
    BY <1>4, <1>10, <2>1, <2>4, FreeObject
  <2> QED
    BY <2>2, <2>3, <2>4
<1>14. StoreInside(heap', p)
  <2> SUFFICES ASSUME p # NoStore PROVE StoreInside(heap', p)
    BY DEF StoreInside
  <2>1. StoreInside(h, p) /\ p.cell \in Cell
    BY DEF Sound, StoreInside
  <2>2. p.cell \in roots
    BY <2>1, Cells DEF roots
  <2> QED
    BY <1>7, <2>1, <2>2 DEF StoreInside
<1>15. DeclarationsFit(heap', s)
  <2> SUFFICES ASSUME NEW n \in Name, s[n] # 0
               PROVE  FitsIn(heap', Declared[n], heap'[s[n]]) \/ "changed" \in heap'[s[n]].history
    BY DEF DeclarationsFit
  <2>1. heap'[s[n]] = h[s[n]] /\ \A i \in DOMAIN h[s[n]].items : heap'[h[s[n]].items[i]] = h[h[s[n]].items[i]]
    BY <1>7, <1>8, <1>9
  <2>2. FitsIn(h, Declared[n], h[s[n]]) \/ "changed" \in h[s[n]].history
    BY DEF Sound, DeclarationsFit
  <2> QED
    BY <2>1, <2>2 DEF FitsIn
<1>16. Owned(heap', s)
  <2> SUFFICES ASSUME NEW c \in Cell, isValueAssigned(heap'[c]), "shared" \notin heap'[c].history
               PROVE  \A q, r \in ReferrersTo(heap', s, c) : q = r
    BY DEF Owned
  <2>1. heap'[c] = h[c]
    BY <1>4, FreeObject DEF isValueAssigned
  <2>2. \A d \in Cell : \A i \in DOMAIN heap'[d].items : heap'[d].items = h[d].items
    BY <1>4, FreeObject
  <2>3. ReferrersTo(heap', s, c) \subseteq ReferrersTo(h, s, c)
    BY <2>2 DEF ReferrersTo
  <2> QED
    BY <2>1, <2>3 DEF Sound, Owned
<1> QED
  BY <1>1, <1>7, <1>9, <1>11, <1>12, <1>13, <1>14, <1>15, <1>16 DEF Sound

\* Objects keep their type, and arrays their elements but for the last, unless they are
\* marked as changed.
Keeps(h) ==
  \A c \in Cell : heap[c].type # "Free" =>
    /\ h[c].type = heap[c].type
    /\ heap[c].history \subseteq h[c].history
    /\ \/ "changed" \in h[c].history
       \/ \A i \in DOMAIN h[c].items : i \in DOMAIN heap[c].items /\ h[c].items[i] = heap[c].items[i]

\* A variable that is given another object.
Rebound(h, s, n) ==
  /\ s[n] \in Cell /\ h[s[n]].type # "Free" /\ FitsIn(h, Declared[n], h[s[n]])
  /\ n \in Bound /\ Declared[n] = "any" /\ ObjectOf(n).declared = "none"
       => h[s[n]].type = ObjectOf(n).type

\* No more refer to the object than did, or one does.
FewReferrers(h, s, c) ==
  \/ "shared" \in h[c].history
  \/ heap[c].type = h[c].type /\ ReferrersTo(h, s, c) \subseteq ReferrersTo(heap, store, c)
  \/ \E q : ReferrersTo(h, s, c) \subseteq {q}

\* What AnyIsPinned says of the next state.
Pinned ==
  \A n \in Bound : Declared[n] = "any" /\ ObjectOf(n).declared = "none" /\ store'[n] # 0
    => heap'[store'[n]].type = ObjectOf(n).type

\* The end of every step: variables are rebound to what fits, and nobody else refers to a scalar.
LEMMA StepInv ==
  ASSUME IInv, fault = "none", NEW h, NEW s, NEW p, TypesOf(h, s, p),
         Keeps(h), ItemsSound(h), StoreInside(h, p),
         \A n \in Name : s[n] = store[n] \/ s[n] = 0 \/ Rebound(h, s, n),
         \A c \in Cell : isValueAssigned(h[c]) => FewReferrers(h, s, c),
         Become(h, s, p)
  PROVE  IInv' /\ Pinned
<1>1. /\ h \in [Cell -> Objects] /\ s \in [Name -> Cell \cup {0}]
      /\ heap \in [Cell -> Objects] /\ store \in [Name -> Cell \cup {0}]
  BY DEF TypesOf, IInv, Sound
<1>2. Rooted(heap, store) /\ ItemsSound(heap) /\ DeclarationsFit(heap, store) /\ Owned(heap, store)
  BY DEF IInv, Sound
<1>3. Rooted(h, s)
  <2> SUFFICES ASSUME NEW n \in Name, s[n] # 0 PROVE h[s[n]].type # "Free"
    BY DEF Rooted
  <2>1. s[n] \in Cell
    BY <1>1
  <2> QED
    BY <1>2, <2>1 DEF Rooted, Keeps, Rebound
<1>4. DeclarationsFit(h, s)
  <2> SUFFICES ASSUME NEW n \in Name, s[n] # 0, s[n] = store[n]
               PROVE  FitsIn(h, Declared[n], h[s[n]]) \/ "changed" \in h[s[n]].history
    BY DEF DeclarationsFit, Rebound
  <2> DEFINE c == s[n]
  <2>1. c \in Cell /\ heap[c].type # "Free" /\ heap[c] \in Objects
    BY <1>1, <1>2 DEF Rooted
  <2>2. FitsIn(heap, Declared[n], heap[c]) \/ "changed" \in heap[c].history
    BY <1>2 DEF DeclarationsFit
  <2>3. CASE "changed" \in h[c].history
    BY <2>3
  <2>4. CASE "changed" \notin h[c].history
    <3>1. /\ h[c].type = heap[c].type /\ FitsIn(heap, Declared[n], heap[c])
          /\ \A i \in DOMAIN h[c].items : i \in DOMAIN heap[c].items /\ h[c].items[i] = heap[c].items[i]
      BY <2>1, <2>2, <2>4 DEF Keeps
    <3>2. ASSUME NEW i \in DOMAIN heap[c].items PROVE h[heap[c].items[i]].type = heap[heap[c].items[i]].type
      <4>1. heap[c].items[i] \in Cell
        BY <2>1 DEF Objects
      <4>2. isValueAssigned(heap[heap[c].items[i]])
        BY <1>2, <2>1 DEF ItemsSound
      <4> QED
        BY <4>1, <4>2 DEF Keeps, isValueAssigned
    <3> QED
      BY <3>1, <3>2 DEF FitsIn
  <2> QED
    BY <2>3, <2>4
<1>5. Owned(h, s)
  <2> SUFFICES ASSUME NEW c \in Cell, isValueAssigned(h[c]), "shared" \notin h[c].history
               PROVE  \A q, r \in ReferrersTo(h, s, c) : q = r
    BY DEF Owned
  <2>1. CASE heap[c].type = h[c].type /\ ReferrersTo(h, s, c) \subseteq ReferrersTo(heap, store, c)
    <3>1. isValueAssigned(heap[c]) /\ "shared" \notin heap[c].history
      BY <2>1 DEF isValueAssigned, Keeps
    <3> QED
      BY <1>2, <2>1, <3>1 DEF Owned
  <2>2. CASE \E q : ReferrersTo(h, s, c) \subseteq {q}
    BY <2>2
  <2> QED
    BY <2>1, <2>2 DEF FewReferrers
<1>6. Sound(h, s, p)
  BY <1>3, <1>4, <1>5 DEF Sound
<1>7. Sound(heap', store', storing') /\ \A n \in Name : s[n] # 0 => heap'[s[n]] = h[s[n]]
  BY <1>6, BecomeSound
<1>8. fault' = "none" /\ store' = s
  BY DEF Become
<1>9. IInv'
  BY <1>7, <1>8 DEF IInv, Faults, StoresStayInside
<1>10. Pinned
  <2> SUFFICES ASSUME NEW n \in Bound, Declared[n] = "any", ObjectOf(n).declared = "none", s[n] # 0
               PROVE  h[s[n]].type = ObjectOf(n).type
    BY <1>7, <1>8 DEF Pinned, Bound
  <2>1. n \in Name /\ store[n] # 0 /\ store[n] \in Cell
    BY <1>1 DEF Bound
  <2>2. CASE s[n] = store[n]
    BY <1>2, <2>1, <2>2 DEF Rooted, Keeps, ObjectOf
  <2>3. CASE Rebound(h, s, n)
    BY <2>3 DEF Rebound
  <2> QED
    BY <2>1, <2>2, <2>3
<1> QED
  BY <1>9, <1>10

-----------------------------------------------------------------------------
(* What is stored. *)

\* The invariant has the types of the state.
LEMMA Typed ==
  ASSUME IInv
  PROVE  /\ heap \in [Cell -> Objects] /\ store \in [Name -> Cell \cup {0}] /\ storing \in Stores
         /\ \A c \in Cell : heap[c] \in Objects /\ heap[c].items \in Seq(Cell)
         /\ Rooted(heap, store) /\ ItemsSound(heap) /\ StoreInside(heap, storing)
  BY DEF IInv, Sound, TypesOf, Objects

\* What a variable or the store under way refers to, or an element of it, is an object.
LEMMA LiveCells ==
  ASSUME IInv, NEW c \in Live(heap, store, NoStore)
  PROVE  c \in Cell /\ heap[c].type # "Free"
<1> DEFINE roots == ({store[n] : n \in Name} \cup {NoStore.cell}) \ {0}
<1>1. ASSUME NEW d \in roots PROVE d \in Cell /\ heap[d].type # "Free"
  BY <1>1, Typed DEF Rooted, NoStore
<1>2. CASE c \in roots
  BY <1>1, <1>2
<1>3. CASE \E d \in roots : c \in ItemsOf(heap, d)
  <2>1. PICK d \in roots : c \in ItemsOf(heap, d)
    BY <1>3
  <2>2. PICK i \in DOMAIN heap[d].items : c = heap[d].items[i]
    BY <2>1 DEF ItemsOf
  <2>3. d \in Cell /\ heap[d].items \in Seq(Cell)
    BY <1>1, Typed
  <2>4. isValueAssigned(heap[c])
    BY <2>2, <2>3, Typed DEF ItemsSound
  <2> QED
    BY <2>2, <2>3, <2>4 DEF isValueAssigned
<1> QED
  BY <1>2, <1>3 DEF Live

\* A value: an object of the heap, or a new one of literals.
ResultFits(v) ==
  /\ v.object \in Objects /\ v.object.type # "Free"
  /\ v.cell # 0 => v.cell \in Cell /\ heap[v.cell] = v.object
  /\ v.object.type # "Array" => v.object.items = <<>>
  /\ \A i \in DOMAIN v.object.items :
       v.object.items[i] \in Cell /\ isValueAssigned(heap[v.object.items[i]])

\* A slice is of scalars: the elements of an array.
LEMMA SliceFits ==
  ASSUME IInv, NEW items \in Slices
  PROVE  /\ items \in Seq(Cell)
         /\ \A i \in DOMAIN items : items[i] \in Cell /\ isValueAssigned(heap[items[i]])
<1>1. PICK m \in 1 .. MaxLength, c \in Live(heap, store, NoStore) : items \in [1 .. m -> ItemsOf(heap, c)]
  BY DEF Slices
<1>2. c \in Cell
  BY LiveCells
<1>3. ASSUME NEW d \in ItemsOf(heap, c) PROVE d \in Cell /\ isValueAssigned(heap[d])
  <2>1. PICK i \in DOMAIN heap[c].items : d = heap[c].items[i]
    BY DEF ItemsOf
  <2> QED
    BY <1>2, <2>1, Typed DEF ItemsSound
<1>4. \A i \in 1 .. m : items[i] \in Cell /\ isValueAssigned(heap[items[i]])
  BY <1>1, <1>3
<1>5. m \in Nat /\ items \in [1 .. m -> Cell]
  BY <1>1, <1>4, ConstantAssumption
<1> QED
  BY <1>4, <1>5

\* What an expression evaluates to is an object, or fits a new cell.
LEMMA ResultsFit ==
  ASSUME IInv, NEW v \in Results
  PROVE  ResultFits(v)
<1>1. CASE v \in Existing
  <2>1. PICK c \in Live(heap, store, NoStore) : v = [cell |-> c, object |-> heap[c]]
    BY <1>1 DEF Existing
  <2>2. v.cell = c /\ v.object = heap[c] /\ c \in Cell /\ heap[c].type # "Free"
    BY <2>1, LiveCells
  <2>3. heap[c] \in Objects /\ heap[c].items \in Seq(Cell)
    BY <2>2, Typed
  <2>4. /\ heap[c].type # "Array" => heap[c].items = <<>>
        /\ \A i \in DOMAIN heap[c].items : isValueAssigned(heap[heap[c].items[i]])
    BY <2>2, Typed DEF ItemsSound
  <2>5. \A i \in DOMAIN heap[c].items : heap[c].items[i] \in Cell
    BY <2>3
  <2> QED
    BY <2>2, <2>3, <2>4, <2>5 DEF ResultFits
<1>2. ASSUME NEW o \in Literals, v = [cell |-> 0, object |-> o]
      PROVE  ResultFits(v)
  <2>1. v.cell = 0 /\ v.object = o
    BY <1>2
  <2>2. PICK type \in {"Integer", "String"} : o = Object(type, <<>>)
    BY DEF Literals
  <2>3. o.type = type /\ o.items = <<>> /\ o \in Objects
    BY <2>2 DEF Object, Objects, Types
  <2> QED
    BY <2>1, <2>3 DEF ResultFits
<1>3. ASSUME NEW items \in Slices \cup {<<>>} \cup {<<c>> : c \in Shared},
             v = [cell |-> 0, object |-> Object("Array", items)]
      PROVE  ResultFits(v)
  <2>1. v.cell = 0 /\ v.object = Object("Array", items)
    BY <1>3
  <2>2. items \in Seq(Cell) /\ \A i \in DOMAIN items : items[i] \in Cell /\ isValueAssigned(heap[items[i]])
    <3>1. CASE items = <<>>
      BY <3>1
    <3>2. ASSUME NEW c \in Shared, items = <<c>>
          PROVE  /\ items \in Seq(Cell)
                 /\ \A i \in DOMAIN items : items[i] \in Cell /\ isValueAssigned(heap[items[i]])
      <4>1. c \in Cell /\ isValueAssigned(heap[c])
        BY DEF Shared, Scalars
      <4>2. items \in Seq(Cell) /\ DOMAIN items = {1} /\ items[1] = c
        BY <3>2, <4>1
      <4> QED
        BY <4>1, <4>2
    <3>3. CASE items \in Slices
      BY <3>3, SliceFits
    <3> QED
      BY <3>1, <3>2, <3>3
  <2>3. /\ Object("Array", items).type = "Array" /\ Object("Array", items).items = items
        /\ Object("Array", items) \in Objects
    BY <2>2 DEF Object, Objects, Types
  <2> QED
    BY <2>1, <2>2, <2>3 DEF ResultFits
<1> QED
  BY <1>1, <1>2, <1>3 DEF Results

\* Marking changes the history of objects alone.
LEMMA Marked ==
  ASSUME NEW h \in [Cell -> Objects], NEW cells, NEW mark \in {"shared", "changed"}
  PROVE  /\ Mark(h, cells, mark) \in [Cell -> Objects]
         /\ \A c \in Cell :
              /\ Mark(h, cells, mark)[c].type = h[c].type
              /\ Mark(h, cells, mark)[c].items = h[c].items
              /\ Mark(h, cells, mark)[c].declared = h[c].declared
              /\ h[c].history \subseteq Mark(h, cells, mark)[c].history
              /\ c \in cells => mark \in Mark(h, cells, mark)[c].history
<1> SUFFICES ASSUME NEW c \in Cell
             PROVE  /\ Mark(h, cells, mark)[c] \in Objects
                    /\ Mark(h, cells, mark)[c].type = h[c].type
                    /\ Mark(h, cells, mark)[c].items = h[c].items
                    /\ Mark(h, cells, mark)[c].declared = h[c].declared
                    /\ h[c].history \subseteq Mark(h, cells, mark)[c].history
                    /\ c \in cells => mark \in Mark(h, cells, mark)[c].history
  BY DEF Mark
<1> DEFINE o == h[c]
           history == o.history \cup {mark}
<1>1. o \in Objects
  OBVIOUS
<1>2. Mark(h, cells, mark)[c] = IF c \in cells THEN [o EXCEPT !.history = history] ELSE o
  BY DEF Mark
<1>3. history \in SUBSET {"shared", "changed"} /\ mark \in history /\ o.history \subseteq history
  BY <1>1 DEF Objects
<1> HIDE DEF o, history
<1>4. /\ [o EXCEPT !.history = history] \in Objects
      /\ [o EXCEPT !.history = history].type = o.type
      /\ [o EXCEPT !.history = history].items = o.items
      /\ [o EXCEPT !.history = history].declared = o.declared
      /\ [o EXCEPT !.history = history].history = history
  BY <1>1, <1>3 DEF Objects
<1>5. /\ Mark(h, cells, mark)[c] \in Objects
      /\ Mark(h, cells, mark)[c].type = o.type
      /\ Mark(h, cells, mark)[c].items = o.items
      /\ Mark(h, cells, mark)[c].declared = o.declared
      /\ o.history \subseteq Mark(h, cells, mark)[c].history
      /\ c \in cells => mark \in Mark(h, cells, mark)[c].history
  BY <1>1, <1>2, <1>3, <1>4
<1> QED
  BY <1>5 DEF o

\* The object in cell d has another declared type.
LEMMA Declaring ==
  ASSUME NEW h \in [Cell -> Objects], NEW d \in Cell, NEW type \in Types
  PROVE  /\ [h EXCEPT ![d].declared = type] \in [Cell -> Objects]
         /\ \A c \in Cell : /\ [h EXCEPT ![d].declared = type][c].type = h[c].type
                            /\ [h EXCEPT ![d].declared = type][c].items = h[c].items
                            /\ [h EXCEPT ![d].declared = type][c].history = h[c].history
<1> DEFINE o == h[d]
           g == [o EXCEPT !.declared = type]
<1>1. o \in Objects
  OBVIOUS
<1>2. [h EXCEPT ![d].declared = type] = [h EXCEPT ![d] = g]
  OBVIOUS
<1> HIDE DEF o
<1>3. g \in Objects /\ g.type = o.type /\ g.items = o.items /\ g.history = o.history
  BY <1>1 DEF Objects
<1> HIDE DEF g
<1> QED
  BY <1>2, <1>3 DEF o

\* The object in cell d has other elements.
LEMMA Filling ==
  ASSUME NEW h \in [Cell -> Objects], NEW d \in Cell, NEW items \in Seq(Cell)
  PROVE  LET g == [h EXCEPT ![d].items = items] IN
         /\ g \in [Cell -> Objects]
         /\ g[d].type = h[d].type /\ g[d].items = items /\ g[d].history = h[d].history
         /\ \A c \in Cell \ {d} : g[c] = h[c]
<1> DEFINE o == h[d]
           g == [o EXCEPT !.items = items]
<1>1. o \in Objects
  OBVIOUS
<1>2. [h EXCEPT ![d].items = items] = [h EXCEPT ![d] = g]
  OBVIOUS
<1> HIDE DEF o
<1>3. g \in Objects /\ g.type = o.type /\ g.items = items /\ g.history = o.history
  BY <1>1 DEF Objects
<1> HIDE DEF g
<1> QED
  BY <1>2, <1>3 DEF o

\* A value v is in cell of the heap h, either as the array that it is or as a new object.
StoredIn(v, h, cell) ==
  /\ h \in [Cell -> Objects] /\ cell \in Cell
  /\ h[cell].type = v.object.type /\ h[cell].items = v.object.items
  /\ \A c \in Cell : /\ heap[c].history \subseteq h[c].history
                     /\ c # cell => h[c].type = heap[c].type /\ h[c].items = heap[c].items
  /\ \/ v.object.type = "Array" /\ heap[cell].type = "Array" /\ heap[cell].items = h[cell].items
     \/ /\ heap[cell].type = "Free"
        /\ \A i \in DOMAIN v.object.items : "shared" \in h[v.object.items[i]].history
  /\ v.object.type # "Array" => heap[cell].type = "Free"

\* What is stored is the object, or a clone in a cell that was free.
LEMMA Storing ==
  ASSUME IInv, NEW v, ResultFits(v), Room
  PROVE  StoredIn(v, Stored(v).heap, Stored(v).cell)
<1>1. heap \in [Cell -> Objects] /\ v.object \in Objects /\ v.object.type # "Free"
  BY Typed DEF ResultFits
<1>2. CASE v.cell # 0 /\ ~isValueAssigned(v.object)
  <2>1. Stored(v) = [heap |-> heap, cell |-> v.cell]
    BY <1>2 DEF Stored
  <2>2. v.cell \in Cell /\ heap[v.cell] = v.object /\ v.object.type = "Array"
    BY <1>1, <1>2 DEF ResultFits, isValueAssigned, Objects
  <2> QED
    BY <1>1, <2>1, <2>2 DEF StoredIn
<1>3. CASE ~(v.cell # 0 /\ ~isValueAssigned(v.object))
  <2> DEFINE o == Clone(v.object)
             h == [heap EXCEPT ![Fresh] = o]
             cells == {v.object.items[i] : i \in DOMAIN v.object.items}
  <2>1. Fresh \in Cell /\ heap[Fresh] = Free
    <3>1. Fresh \in FreeCells
      BY DEF Room, Fresh
    <3> QED
      BY <3>1 DEF FreeCells
  <2>2. Stored(v) = [heap |-> Mark(h, cells, "shared"), cell |-> Fresh]
    BY <1>3 DEF Stored
  <2>3. o \in Objects /\ o.type = v.object.type /\ o.items = v.object.items
    BY <1>1 DEF Clone, Object, Objects, Types
  <2> HIDE DEF o
  <2>4. h \in [Cell -> Objects] /\ h[Fresh] = o /\ \A c \in Cell \ {Fresh} : h[c] = heap[c]
    BY <1>1, <2>1, <2>3
  <2> HIDE DEF h
  <2> DEFINE g == Mark(h, cells, "shared")
  <2>5. /\ g \in [Cell -> Objects]
        /\ \A c \in Cell : /\ g[c].type = h[c].type /\ g[c].items = h[c].items
                           /\ h[c].history \subseteq g[c].history
                           /\ c \in cells => "shared" \in g[c].history
    BY <2>4, Marked
  <2>6. Stored(v).heap = g /\ Stored(v).cell = Fresh
    BY <2>2
  <2> HIDE DEF g
  <2>7. \A c \in Cell : heap[c].history \subseteq g[c].history
    <3> SUFFICES ASSUME NEW c \in Cell PROVE heap[c].history \subseteq g[c].history
      OBVIOUS
    <3>1. CASE c = Fresh
      BY <2>1, <3>1, FreeObject
    <3>2. CASE c # Fresh
      BY <2>4, <2>5, <3>2
    <3> QED
      BY <3>1, <3>2
  <2>8. \A c \in Cell \ {Fresh} : g[c].type = heap[c].type /\ g[c].items = heap[c].items
    BY <2>4, <2>5
  <2>9. g[Fresh].type = v.object.type /\ g[Fresh].items = v.object.items
    BY <2>1, <2>3, <2>4, <2>5
  <2>10. \A i \in DOMAIN v.object.items : "shared" \in g[v.object.items[i]].history
    BY <2>5 DEF ResultFits
  <2> QED
    BY <2>1, <2>5, <2>6, <2>7, <2>8, <2>9, <2>10, FreeObject DEF StoredIn
<1> QED
  BY <1>2, <1>3

\* Who refers to c: variables, and slots of arrays.
LEMMA ReferrersMean ==
  ASSUME NEW h, NEW s, NEW c, NEW q
  PROVE  q \in ReferrersTo(h, s, c) <=>
           \/ \E m \in Name : s[m] = c /\ q = <<m, 0>>
           \/ \E d \in Cell : \E i \in DOMAIN h[d].items : h[d].items[i] = c /\ q = <<d, i>>
  BY DEF ReferrersTo

\* No more refer to c than did.
LEMMA FewerReferrers ==
  ASSUME NEW h, NEW s, NEW c \in Cell, heap[c].type = h[c].type,
         \A m \in Name : s[m] = c => store[m] = c,
         \A d \in Cell : \A i \in DOMAIN h[d].items :
           h[d].items[i] = c => i \in DOMAIN heap[d].items /\ heap[d].items[i] = c
  PROVE  FewReferrers(h, s, c)
<1>1. ASSUME NEW q \in ReferrersTo(h, s, c) PROVE q \in ReferrersTo(heap, store, c)
  BY <1>1, ReferrersMean
<1> QED
  BY <1>1 DEF FewReferrers

-----------------------------------------------------------------------------
(* Steps. *)

\* A variable is given what is stored for v, with or without a declared type.
LEMMA PutInv ==
  ASSUME IInv, fault = "none", NEW v, ResultFits(v), NEW h, NEW cell, StoredIn(v, h, cell),
         NEW n \in Name, FitsIn(heap, Declared[n], v.object),
         n \in Bound /\ Declared[n] = "any" /\ ObjectOf(n).declared = "none"
           => v.object.type = ObjectOf(n).type,
         NEW g \in [Cell -> Objects],
         \A c \in Cell : g[c].type = h[c].type /\ g[c].items = h[c].items /\ g[c].history = h[c].history,
         Become(g, [store EXCEPT ![n] = cell], storing)
  PROVE  IInv' /\ Pinned
<1> DEFINE s == [store EXCEPT ![n] = cell]
<1>1. /\ heap \in [Cell -> Objects] /\ store \in [Name -> Cell \cup {0}] /\ storing \in Stores
      /\ Rooted(heap, store) /\ ItemsSound(heap) /\ StoreInside(heap, storing)
  BY Typed
<1>2. cell \in Cell /\ g[cell].type = v.object.type /\ g[cell].items = v.object.items
  BY DEF StoredIn
<1>3. \A c \in Cell : /\ heap[c].history \subseteq g[c].history
                      /\ c # cell => g[c].type = heap[c].type /\ g[c].items = heap[c].items
  BY DEF StoredIn
<1>4. \/ v.object.type = "Array" /\ heap[cell].type = "Array" /\ heap[cell].items = g[cell].items
      \/ /\ heap[cell].type = "Free"
         /\ \A i \in DOMAIN v.object.items : "shared" \in g[v.object.items[i]].history
  BY DEF StoredIn, ResultFits
<1>5. v.object.type # "Array" => heap[cell].type = "Free"
  BY DEF StoredIn
<1>6. \A c \in Cell : isValueAssigned(heap[c]) => c # cell /\ g[c].type = heap[c].type
  BY <1>3, <1>4 DEF isValueAssigned
<1>7. \A c \in Cell : heap[c].type = "Array" => g[c].type = "Array" /\ g[c].items = heap[c].items
  BY <1>2, <1>3, <1>4
<1>8. /\ s \in [Name -> Cell \cup {0}] /\ s[n] = cell /\ \A m \in Name \ {n} : s[m] = store[m]
  BY <1>1, <1>2
<1>9. Become(g, s, storing)
  OBVIOUS
<1> HIDE DEF s
<1>10. TypesOf(g, s, storing)
  BY <1>1, <1>8 DEF TypesOf
<1>11. Keeps(g)
  BY <1>2, <1>3, <1>4 DEF Keeps
<1>12. \A c \in Cell \ {cell} : \A i \in DOMAIN heap[c].items :
         heap[c].items[i] \in Cell /\ isValueAssigned(heap[heap[c].items[i]])
  BY Typed DEF ItemsSound
<1>13. ItemsSound(g)
  <2> SUFFICES ASSUME NEW c \in Cell
               PROVE  /\ g[c].type # "Array" => g[c].items = <<>>
                      /\ \A i \in DOMAIN g[c].items : isValueAssigned(g[g[c].items[i]])
    BY DEF ItemsSound
  <2>1. CASE c = cell
    BY <1>2, <1>6, <2>1 DEF ResultFits, isValueAssigned
  <2>2. CASE c # cell
    BY <1>1, <1>3, <1>6, <1>12, <2>2 DEF ItemsSound, isValueAssigned
  <2> QED
    BY <2>1, <2>2
<1>14. StoreInside(g, storing)
  BY <1>1, <1>7 DEF StoreInside
<1>15. Rebound(g, s, n)
  <2>1. FitsIn(g, Declared[n], g[cell])
    BY <1>2, <1>6 DEF FitsIn, ResultFits
  <2> QED
    BY <1>2, <1>8, <2>1 DEF Rebound, ResultFits
<1>16. ASSUME NEW c \in Cell, isValueAssigned(g[c]) PROVE FewReferrers(g, s, c)
  <2>1. CASE c = cell
    <3>1. heap[cell].type = "Free"
      BY <1>2, <1>5, <1>16, <2>1 DEF isValueAssigned
    <3>2. ASSUME NEW m \in Name, s[m] = cell PROVE m = n
      BY <1>1, <1>2, <1>8, <3>1, <3>2, Cells DEF Rooted
    <3>3. ASSUME NEW d \in Cell, NEW i \in DOMAIN g[d].items PROVE g[d].items[i] # cell
      <4>1. CASE d = cell
        BY <1>2, <3>1, <3>3, <4>1 DEF ResultFits, isValueAssigned
      <4>2. CASE d # cell
        BY <1>3, <1>12, <3>1, <3>3, <4>2 DEF isValueAssigned
      <4> QED
        BY <4>1, <4>2
    <3>4. \A q : q \in ReferrersTo(g, s, c) => q = <<n, 0>>
      BY <2>1, <3>2, <3>3, ReferrersMean
    <3>5. ReferrersTo(g, s, c) \subseteq {<<n, 0>>}
      BY <3>4
    <3> QED
      BY <3>5 DEF FewReferrers
  <2>2. CASE c # cell /\ "shared" \notin g[c].history
    <3>1. heap[c].type = g[c].type /\ \A m \in Name : s[m] = c => store[m] = c
      BY <1>3, <1>8, <2>2
    <3>2. ASSUME NEW d \in Cell, NEW i \in DOMAIN g[d].items, g[d].items[i] = c
          PROVE  i \in DOMAIN heap[d].items /\ heap[d].items[i] = c
      BY <1>2, <1>3, <1>4, <2>2, <3>2
    <3> QED
      BY <3>1, <3>2, FewerReferrers
  <2> QED
    BY <2>1, <2>2 DEF FewReferrers
<1>17. \A m \in Name : s[m] = store[m] \/ s[m] = 0 \/ Rebound(g, s, m)
  BY <1>8, <1>15
<1> QED
  BY <1>9, <1>10, <1>11, <1>13, <1>14, <1>16, <1>17, StepInv

\* let keeps the invariant.
LEMMA LetInv ==
  ASSUME IInv, fault = "none", NEW n \in Name, NEW v \in Results, Let(n, v)
  PROVE  IInv' /\ Pinned
<1> DEFINE h == Stored(v).heap
           cell == Stored(v).cell
           g == [h EXCEPT ![cell].declared = Declared[n]]
<1>1. ResultFits(v) /\ StoredIn(v, h, cell)
  BY ResultsFit, Storing DEF Let
<1>2. Declared[n] \in Types
  BY ConstantAssumption
<1>3. FitsIn(heap, Declared[n], v.object) /\ n \notin Bound
  BY <1>2, FitsMeans DEF Let
<1>4. Become(g, [store EXCEPT ![n] = cell], storing)
  BY DEF Let
<1> HIDE DEF h, cell
<1>5. /\ g \in [Cell -> Objects]
      /\ \A c \in Cell : g[c].type = h[c].type /\ g[c].items = h[c].items /\ g[c].history = h[c].history
  BY <1>1, <1>2, Declaring DEF StoredIn
<1> HIDE DEF g
<1> QED
  BY <1>1, <1>3, <1>4, <1>5, PutInv

\* An assignment keeps the invariant.
LEMMA AssignInv ==
  ASSUME IInv, fault = "none", NEW n \in Name, NEW v \in Results, Assign(n, v)
  PROVE  IInv' /\ Pinned
<1> DEFINE h == Stored(v).heap
           cell == Stored(v).cell
<1>1. ResultFits(v) /\ StoredIn(v, h, cell)
  BY ResultsFit, Storing DEF Assign
<1>2. Declared[n] \in Types
  BY ConstantAssumption
<1>3. Compatible(Declared[n], v.object, ObjectOf(n))
  BY DEF Assign
<1>4. FitsIn(heap, Declared[n], v.object)
  BY <1>2, <1>3, FitsMeans DEF Compatible, FitsIn
<1>5. Declared[n] = "any" /\ ObjectOf(n).declared = "none" => v.object.type = ObjectOf(n).type
  BY <1>3 DEF Compatible, SameType
<1>6. Become(h, [store EXCEPT ![n] = cell], storing)
  BY DEF Assign
<1> HIDE DEF h, cell
<1>7. h \in [Cell -> Objects]
  BY <1>1 DEF StoredIn
<1> QED
  BY <1>1, <1>4, <1>5, <1>6, <1>7, PutInv

\* The objects and their elements are the same, of one more it is known that it is shared.
SameHeap(h) ==
  /\ h \in [Cell -> Objects]
  /\ \A c \in Cell : h[c].type = heap[c].type /\ h[c].items = heap[c].items
                     /\ heap[c].history \subseteq h[c].history

\* A step that changes no object keeps the invariant.
LEMMA SameHeapInv ==
  ASSUME IInv, fault = "none", NEW h, SameHeap(h), NEW s \in [Name -> Cell \cup {0}],
         NEW p \in Stores, StoreInside(heap, p),
         \A n \in Name : s[n] = store[n] \/ s[n] = 0 \/ Rebound(h, s, n),
         \A c \in Cell : "shared" \in h[c].history \/ \A m \in Name : s[m] = c => store[m] = c,
         Become(h, s, p)
  PROVE  IInv' /\ Pinned
<1>1. TypesOf(h, s, p)
  BY DEF TypesOf, SameHeap
<1>2. Keeps(h)
  BY DEF Keeps, SameHeap
<1>3. ItemsSound(h)
  <2>1. ASSUME NEW c \in Cell, NEW i \in DOMAIN heap[c].items
        PROVE  heap[c].items[i] \in Cell /\ isValueAssigned(heap[heap[c].items[i]])
    BY Typed DEF ItemsSound
  <2>2. ASSUME NEW c \in Cell
        PROVE  /\ h[c].type # "Array" => h[c].items = <<>>
               /\ \A i \in DOMAIN h[c].items : isValueAssigned(h[h[c].items[i]])
    <3>1. h[c].type = heap[c].type /\ h[c].items = heap[c].items
      BY DEF SameHeap
    <3>2. \A i \in DOMAIN heap[c].items : isValueAssigned(h[heap[c].items[i]])
      BY <2>1 DEF SameHeap, isValueAssigned
    <3>3. heap[c].type # "Array" => heap[c].items = <<>>
      BY Typed DEF ItemsSound
    <3> QED
      BY <3>1, <3>2, <3>3
  <2> QED
    BY <2>2 DEF ItemsSound
<1>4. StoreInside(h, p)
  BY DEF StoreInside, SameHeap
<1>5. ASSUME NEW c \in Cell PROVE FewReferrers(h, s, c)
  <2>1. CASE "shared" \in h[c].history
    BY <2>1 DEF FewReferrers
  <2>2. CASE \A m \in Name : s[m] = c => store[m] = c
    BY <2>2, FewerReferrers DEF SameHeap
  <2> QED
    BY <2>1, <2>2
<1> QED
  BY <1>1, <1>2, <1>3, <1>4, <1>5, StepInv

\* Binding a parameter or a loop's variable keeps the invariant.
LEMMA BindInv ==
  ASSUME IInv, fault = "none", NEW n \in Name, NEW v \in Results, Bind(n, v)
  PROVE  IInv' /\ Pinned
<1> DEFINE h == Mark(heap, {v.cell}, "shared")
           s == [store EXCEPT ![n] = v.cell]
<1>1. /\ ResultFits(v) /\ v.cell \in Cell /\ heap[v.cell] = v.object /\ n \notin Bound
      /\ v.object.type # "Free"
  BY ResultsFit DEF Bind, ResultFits
<1>2. FitsIn(heap, Declared[n], v.object)
  BY ConstantAssumption, FitsMeans DEF Bind
<1>3. /\ h \in [Cell -> Objects]
      /\ \A c \in Cell : /\ h[c].type = heap[c].type /\ h[c].items = heap[c].items
                         /\ heap[c].history \subseteq h[c].history
                         /\ c \in {v.cell} => "shared" \in h[c].history
  BY Typed, Marked
<1>4. Become(h, s, storing)
  BY DEF Bind
<1> HIDE DEF h
<1>5. s \in [Name -> Cell \cup {0}] /\ s[n] = v.cell /\ \A m \in Name \ {n} : s[m] = store[m]
  BY <1>1, Typed
<1> HIDE DEF s
<1>6. FitsIn(h, Declared[n], h[v.cell])
  <2>1. \A i \in DOMAIN v.object.items : v.object.items[i] \in Cell
    BY <1>1 DEF ResultFits
  <2> QED
    BY <1>1, <1>2, <1>3, <2>1 DEF FitsIn
<1>7. Rebound(h, s, n)
  BY <1>1, <1>3, <1>5, <1>6 DEF Rebound
<1>8. SameHeap(h)
  BY <1>3 DEF SameHeap
<1>9. \A c \in Cell : "shared" \in h[c].history \/ \A m \in Name : s[m] = c => store[m] = c
  BY <1>3, <1>5
<1>10. \A m \in Name : s[m] = store[m] \/ s[m] = 0 \/ Rebound(h, s, m)
  BY <1>5, <1>7
<1> QED
  BY <1>4, <1>5, <1>8, <1>9, <1>10, Typed, SameHeapInv

\* The end of the inner scope keeps the invariant.
LEMMA LeaveInv ==
  ASSUME IInv, fault = "none", Leave
  PROVE  IInv' /\ Pinned
<1> DEFINE s == [n \in Name |-> IF n \in Inner THEN 0 ELSE store[n]]
<1>1. s \in [Name -> Cell \cup {0}] /\ \A n \in Name : s[n] = store[n] \/ s[n] = 0
  BY Typed
<1>2. Become(heap, s, storing)
  BY DEF Leave
<1> HIDE DEF s
<1>3. SameHeap(heap)
  BY Typed DEF SameHeap
<1>4. \A c \in Cell : \A m \in Name : s[m] = c => store[m] = c
  BY <1>1, Cells
<1> QED
  BY <1>1, <1>2, <1>3, <1>4, Typed, SameHeapInv

\* Checking the index of an element assignment keeps the invariant.
LEMMA BeginStoreInv ==
  ASSUME IInv, fault = "none", NEW n \in Name, NEW i \in 1..MaxLength + 1, BeginStore(n, i)
  PROVE  IInv' /\ Pinned
<1> DEFINE p == [cell |-> store[n], index |-> i, shortened |-> FALSE]
<1>1. /\ store[n] \in Cell /\ heap[store[n]].type = "Array" /\ i \in DOMAIN heap[store[n]].items
  BY Typed DEF BeginStore, Bound, ObjectOf, Inside
<1>2. Become(heap, store, p)
  BY DEF BeginStore
<1>3. i \in Nat /\ i > 0 /\ i <= Len(heap[store[n]].items)
  BY <1>1, Typed
<1>4. p \in Stores /\ StoreInside(heap, p)
  BY <1>1, <1>3 DEF Stores, StoreInside
<1> HIDE DEF p
<1>5. SameHeap(heap)
  BY Typed DEF SameHeap
<1> QED
  BY <1>2, <1>4, <1>5, Typed, SameHeapInv

\* A slot more or less of the array in cell d, or another element in one.
LEMMA ArrayInv ==
  ASSUME IInv, fault = "none", NEW d \in Cell, heap[d].type = "Array",
         NEW g \in [Cell -> Objects],
         \A c \in Cell : /\ g[c].type = heap[c].type /\ heap[c].history \subseteq g[c].history
                         /\ c # d => g[c].items = heap[c].items,
         \A i \in DOMAIN g[d].items :
           \/ i \in DOMAIN heap[d].items /\ g[d].items[i] = heap[d].items[i]
           \/ /\ "changed" \in g[d].history /\ isValueAssigned(heap[g[d].items[i]])
              /\ "shared" \in g[g[d].items[i]].history,
         NEW p \in Stores, StoreInside(g, p), Become(g, store, p)
  PROVE  IInv' /\ Pinned
<1>1. TypesOf(g, store, p)
  BY Typed DEF TypesOf
<1>2. Keeps(g)
  <2> SUFFICES ASSUME NEW c \in Cell
               PROVE  \/ "changed" \in g[c].history
                      \/ \A i \in DOMAIN g[c].items :
                           i \in DOMAIN heap[c].items /\ g[c].items[i] = heap[c].items[i]
    BY DEF Keeps
  <2>1. CASE c = d
    BY <2>1
  <2>2. CASE c # d
    BY <2>2
  <2> QED
    BY <2>1, <2>2
<1>3. ASSUME NEW c \in Cell, NEW i \in DOMAIN heap[c].items
      PROVE  heap[c].items[i] \in Cell /\ isValueAssigned(heap[heap[c].items[i]])
  BY Typed DEF ItemsSound
<1>4. ASSUME NEW i \in DOMAIN g[d].items
      PROVE  g[d].items[i] \in Cell /\ isValueAssigned(heap[g[d].items[i]])
  <2>1. g[d] \in Objects
    OBVIOUS
  <2>2. g[d].items[i] \in Cell
    BY <2>1 DEF Objects
  <2> QED
    BY <1>3, <2>2
<1>5. ItemsSound(g)
  <2>1. ASSUME NEW c \in Cell
        PROVE  /\ g[c].type # "Array" => g[c].items = <<>>
               /\ \A i \in DOMAIN g[c].items : isValueAssigned(g[g[c].items[i]])
    <3>1. CASE c = d
      BY <1>4, <3>1 DEF isValueAssigned
    <3>2. CASE c # d
      BY <1>3, <3>2, Typed DEF ItemsSound, isValueAssigned
    <3> QED
      BY <3>1, <3>2
  <2> QED
    BY <2>1 DEF ItemsSound
<1>6. ASSUME NEW c \in Cell PROVE FewReferrers(g, store, c)
  <2>1. CASE "shared" \in g[c].history
    BY <2>1 DEF FewReferrers
  <2>2. CASE "shared" \notin g[c].history
    <3>1. ASSUME NEW e \in Cell, NEW i \in DOMAIN g[e].items, g[e].items[i] = c
          PROVE  i \in DOMAIN heap[e].items /\ heap[e].items[i] = c
      <4>1. CASE e = d
        BY <2>2, <3>1, <4>1
      <4>2. CASE e # d
        BY <3>1, <4>2
      <4> QED
        BY <4>1, <4>2
    <3> QED
      BY <3>1, FewerReferrers
  <2> QED
    BY <2>1, <2>2
<1> QED
  BY <1>1, <1>2, <1>5, <1>6, StepInv

\* push_back keeps the invariant.
LEMMA PushBackInv ==
  ASSUME IInv, fault = "none", NEW n \in Name, NEW c \in Shared, PushBack(n, c)
  PROVE  IInv' /\ Pinned
<1> DEFINE d == store[n]
           items == Append(heap[d].items, c)
           h == [heap EXCEPT ![d].items = items]
           m == Mark(h, {c}, "shared")
           g == Mark(m, {d}, "changed")
<1>1. d \in Cell /\ heap[d].type = "Array" /\ heap[d].items \in Seq(Cell)
  BY Typed DEF PushBack, Bound, ObjectOf
<1>2. c \in Cell /\ isValueAssigned(heap[c]) /\ c # d
  BY <1>1 DEF Shared, Scalars, isValueAssigned
<1>3. /\ items \in Seq(Cell) /\ Len(items) = Len(heap[d].items) + 1
      /\ \A i \in DOMAIN items : \/ i \in DOMAIN heap[d].items /\ items[i] = heap[d].items[i]
                                 \/ items[i] = c
  BY <1>1, <1>2
<1>4. Become(g, store, storing)
  BY DEF PushBack
<1> HIDE DEF items
<1>5. /\ h \in [Cell -> Objects]
      /\ h[d].type = heap[d].type /\ h[d].items = items /\ h[d].history = heap[d].history
      /\ \A e \in Cell \ {d} : h[e] = heap[e]
  BY <1>1, <1>3, Typed, Filling
<1> HIDE DEF h
<1>6. /\ m \in [Cell -> Objects] /\ "shared" \in m[c].history
      /\ \A e \in Cell : /\ m[e].type = h[e].type /\ m[e].items = h[e].items
                         /\ h[e].history \subseteq m[e].history
  BY <1>2, <1>5, Marked
<1> HIDE DEF m
<1>7. /\ g \in [Cell -> Objects] /\ "changed" \in g[d].history
      /\ \A e \in Cell : /\ g[e].type = m[e].type /\ g[e].items = m[e].items
                         /\ m[e].history \subseteq g[e].history
  BY <1>1, <1>6, Marked
<1> HIDE DEF g
<1>8. ASSUME NEW e \in Cell
      PROVE  /\ g[e].type = heap[e].type /\ heap[e].history \subseteq g[e].history
             /\ e # d => g[e].items = heap[e].items
  <2>1. CASE e = d
    BY <1>5, <1>6, <1>7, <2>1
  <2>2. CASE e # d
    BY <1>5, <1>6, <1>7, <2>2
  <2> QED
    BY <2>1, <2>2
<1>9. g[d].items = items /\ "shared" \in g[c].history
  BY <1>1, <1>2, <1>5, <1>6, <1>7
<1>10. \A i \in DOMAIN g[d].items :
          \/ i \in DOMAIN heap[d].items /\ g[d].items[i] = heap[d].items[i]
          \/ /\ "changed" \in g[d].history /\ isValueAssigned(heap[g[d].items[i]])
             /\ "shared" \in g[g[d].items[i]].history
  BY <1>2, <1>3, <1>7, <1>9
<1>11. StoreInside(g, storing)
  <2> SUFFICES ASSUME storing # NoStore PROVE StoreInside(g, storing)
    BY DEF StoreInside
  <2>1. storing.cell \in Cell /\ heap[storing.cell].items \in Seq(Cell) /\ storing.index \in Nat
    BY Typed DEF StoreInside, Stores
  <2>2. Len(heap[storing.cell].items) <= Len(g[storing.cell].items)
    <3>1. Len(heap[storing.cell].items) \in Nat
      BY <2>1
    <3>2. CASE storing.cell = d
      <4>1. g[storing.cell].items = items /\ heap[storing.cell].items = heap[d].items
        BY <1>9, <3>2
      <4> QED
        BY <1>3, <3>1, <4>1
    <3>3. CASE storing.cell # d
      <4>1. g[storing.cell].items = heap[storing.cell].items
        BY <1>8, <2>1, <3>3
      <4> QED
        BY <3>1, <4>1
    <3> QED
      BY <3>2, <3>3
  <2>3. g[storing.cell].items \in Seq(Cell)
    BY <1>3, <1>8, <1>9, <2>1
  <2> QED
    BY <1>8, <2>1, <2>2, <2>3, Typed DEF StoreInside
<1> HIDE DEF d
<1> QED
  BY <1>1, <1>4, <1>7, <1>8, <1>10, <1>11, Typed, ArrayInv

\* The interpreter has run into undefined behaviour: it goes no further.
LEMMA FaultInv ==
  ASSUME IInv, UNCHANGED <<heap, store, storing>>, fault' \in Faults,
         fault' = "store out of bounds" => storing.shortened
  PROVE  IInv' /\ Pinned
<1>1. heap' = heap /\ store' = store /\ storing' = storing
  OBVIOUS
<1>2. IInv'
  BY <1>1 DEF IInv, StoresStayInside
<1>3. Pinned
  BY <1>1 DEF Pinned, ObjectOf
<1> QED
  BY <1>2, <1>3

\* pop_back keeps the invariant.
LEMMA PopBackInv ==
  ASSUME IInv, fault = "none", NEW n \in Name, PopBack(n)
  PROVE  IInv' /\ Pinned
<1> DEFINE d == store[n]
           items == SubSeq(heap[d].items, 1, Len(heap[d].items) - 1)
           g == [heap EXCEPT ![d].items = items]
           p == Shorten(storing, d)
<1>1. d \in Cell /\ heap[d].type = "Array" /\ heap[d].items \in Seq(Cell)
  BY Typed DEF PopBack, Bound, ObjectOf
<1>2. CASE fault' = "pop of an empty array" /\ UNCHANGED <<heap, store, storing>>
  BY <1>2, FaultInv DEF Faults
<1>3. CASE heap[d].items # <<>> /\ Become(g, store, p)
  <2>1. /\ items \in Seq(Cell)
        /\ \A i \in DOMAIN items : i \in DOMAIN heap[d].items /\ items[i] = heap[d].items[i]
    BY <1>1, <1>3
  <2> HIDE DEF items
  <2>2. /\ g \in [Cell -> Objects]
        /\ g[d].type = heap[d].type /\ g[d].items = items /\ g[d].history = heap[d].history
        /\ \A e \in Cell \ {d} : g[e] = heap[e]
    BY <1>1, <2>1, Typed, Filling
  <2> HIDE DEF g
  <2>3. ASSUME NEW e \in Cell
        PROVE  /\ g[e].type = heap[e].type /\ heap[e].history \subseteq g[e].history
               /\ e # d => g[e].items = heap[e].items
    BY <2>2
  <2>4. p \in Stores /\ p.cell = storing.cell /\ p.index = storing.index
    BY Typed DEF Shorten, Stores
  <2>5. /\ storing.cell = d => p.shortened
        /\ storing.cell # d => p = storing
    BY Typed DEF Shorten, Stores
  <2>6. StoreInside(g, p)
    <3>1. CASE storing.cell = d
      <4>1. storing # NoStore
        BY <1>1, <3>1, Cells DEF NoStore
      <4> QED
        BY <1>1, <2>2, <2>4, <2>5, <3>1, <4>1, Typed DEF StoreInside
    <3>2. CASE storing.cell # d
      BY <2>2, <2>5, <3>2, Typed DEF StoreInside
    <3> QED
      BY <3>1, <3>2
  <2> HIDE DEF p, d
  <2> QED
    BY <1>1, <1>3, <2>1, <2>2, <2>3, <2>4, <2>6, ArrayInv
<1> QED
  BY <1>1, <1>2, <1>3 DEF PopBack, ObjectOf

\* A scalar is stored: a new object in a slot of the array of the store that is under way.
LEMMA EndStoreInv ==
  ASSUME IInv, fault = "none", NEW v \in Results, EndStore(v)
  PROVE  IInv' /\ Pinned
<1> DEFINE d == storing.cell
           x == storing.index
           h == Stored(v).heap
           cell == Stored(v).cell
           items == [h[d].items EXCEPT ![x] = cell]
           m == [h EXCEPT ![d].items = items]
           g == Mark(m, {d}, "changed")
<1>1. /\ storing # NoStore /\ isValueAssigned(v.object) /\ Room
      /\ d \in Cell /\ heap[d].type = "Array" /\ x > 0 /\ x \in Nat
      /\ storing.shortened \/ x <= Len(heap[d].items)
  BY Typed DEF EndStore, StoreInside, Stores
<1>2. CASE x > Len(heap[d].items) /\ fault' = "store out of bounds" /\ UNCHANGED <<heap, store, storing>>
  <2>1. Len(heap[d].items) \in Nat
    BY <1>1, Typed
  <2>2. ~(x <= Len(heap[d].items))
    <3>1. x \in Nat /\ x > Len(heap[d].items)
      BY <1>1, <1>2
    <3> HIDE DEF x, d
    <3> QED
      BY <2>1, <3>1
  <2>3. storing.shortened
    BY <1>1, <2>2, Zenon
  <2> QED
    BY <1>2, <2>3, FaultInv DEF Faults
<1>3. CASE ~(x > Len(heap[d].items)) /\ Become(g, store, NoStore)
  <2>1. ResultFits(v) /\ StoredIn(v, h, cell)
    BY <1>1, ResultsFit, Storing
  <2> HIDE DEF h, cell
  <2>2. /\ h \in [Cell -> Objects] /\ cell \in Cell /\ heap[cell].type = "Free"
        /\ h[cell].type = v.object.type /\ h[cell].items = <<>> /\ isValueAssigned(h[cell])
        /\ \A c \in Cell : /\ heap[c].history \subseteq h[c].history
                           /\ c # cell => h[c].type = heap[c].type /\ h[c].items = heap[c].items
    BY <1>1, <2>1 DEF StoredIn, ResultFits, isValueAssigned
  <2>3. d # cell /\ h[d].type = "Array" /\ h[d].items = heap[d].items /\ h[d].items \in Seq(Cell)
    BY <1>1, <2>2, Typed
  <2>4. x \in DOMAIN h[d].items
    BY <1>1, <1>3, <2>3
  <2>5. /\ items \in Seq(Cell) /\ DOMAIN items = DOMAIN heap[d].items /\ items[x] = cell
        /\ \A i \in DOMAIN items : i # x => items[i] = heap[d].items[i]
    BY <2>2, <2>3, <2>4
  <2> HIDE DEF items
  <2>6. /\ m \in [Cell -> Objects]
        /\ m[d].type = h[d].type /\ m[d].items = items /\ m[d].history = h[d].history
        /\ \A e \in Cell \ {d} : m[e] = h[e]
    BY <1>1, <2>2, <2>5, Filling
  <2> HIDE DEF m
  <2>7. /\ g \in [Cell -> Objects] /\ "changed" \in g[d].history
        /\ \A e \in Cell : /\ g[e].type = m[e].type /\ g[e].items = m[e].items
                           /\ m[e].history \subseteq g[e].history
    BY <1>1, <2>6, Marked
  <2> HIDE DEF g
  <2>8. ASSUME NEW e \in Cell \ {d}
        PROVE  g[e].type = h[e].type /\ g[e].items = h[e].items /\ h[e].history \subseteq g[e].history
    BY <2>6, <2>7
  <2>9. g[d].type = "Array" /\ g[d].items = items /\ h[d].history \subseteq g[d].history
    BY <1>1, <2>3, <2>6, <2>7
  <2>10. g[cell].type = v.object.type /\ isValueAssigned(g[cell]) /\ g[cell].items = <<>>
    BY <2>2, <2>3, <2>8 DEF isValueAssigned
  <2>11. ASSUME NEW c \in Cell, c # cell
         PROVE  /\ g[c].type = heap[c].type /\ heap[c].history \subseteq g[c].history
                /\ c # d => g[c].items = heap[c].items
    <3>1. CASE c = d
      BY <1>1, <2>2, <2>9, <3>1
    <3>2. CASE c # d
      BY <2>2, <2>8, <2>11, <3>2
    <3> QED
      BY <3>1, <3>2
  <2>12. ASSUME NEW c \in Cell, NEW i \in DOMAIN heap[c].items
         PROVE  /\ heap[c].items[i] \in Cell /\ isValueAssigned(heap[heap[c].items[i]])
                /\ heap[c].items[i] # cell
    <3>1. heap[c].items[i] \in Cell /\ isValueAssigned(heap[heap[c].items[i]])
      BY Typed DEF ItemsSound
    <3> QED
      BY <2>2, <3>1 DEF isValueAssigned
  <2>13. TypesOf(g, store, NoStore)
    BY <2>7, Typed DEF TypesOf, NoStore, Stores
  <2>14. Keeps(g)
    <3> SUFFICES ASSUME NEW c \in Cell, heap[c].type # "Free"
                 PROVE  /\ g[c].type = heap[c].type /\ heap[c].history \subseteq g[c].history
                        /\ c # d => g[c].items = heap[c].items
      BY <2>7 DEF Keeps
    <3> QED
      BY <2>2, <2>11
  <2>15. ItemsSound(g)
    <3> SUFFICES ASSUME NEW c \in Cell
                 PROVE  /\ g[c].type # "Array" => g[c].items = <<>>
                        /\ \A i \in DOMAIN g[c].items : isValueAssigned(g[g[c].items[i]])
      BY DEF ItemsSound
    <3>1. \A e \in Cell : isValueAssigned(heap[e]) => isValueAssigned(g[e])
      BY <2>2, <2>11 DEF isValueAssigned
    <3>2. CASE c = cell
      BY <2>10, <3>2
    <3>3. CASE c = d
      BY <2>5, <2>9, <2>10, <2>12, <3>1, <3>3
    <3>4. CASE c # cell /\ c # d
      BY <2>11, <2>12, <3>1, <3>4, Typed DEF ItemsSound
    <3> QED
      BY <3>2, <3>3, <3>4
  <2>16. StoreInside(g, NoStore)
    BY DEF StoreInside
  <2>17. ASSUME NEW c \in Cell, isValueAssigned(g[c]) PROVE FewReferrers(g, store, c)
    <3>1. CASE c = cell
      <4>1. \A n \in Name : store[n] # cell
        BY <2>2, Typed, Cells DEF Rooted
      <4>2. ASSUME NEW e \in Cell, NEW i \in DOMAIN g[e].items, g[e].items[i] = cell
            PROVE  <<e, i>> = <<d, x>>
        <5>1. CASE e = cell
          BY <2>10, <4>2, <5>1
        <5>2. CASE e = d
          BY <2>5, <2>9, <2>12, <4>2, <5>2
        <5>3. CASE e # cell /\ e # d
          BY <2>11, <2>12, <4>2, <5>3
        <5> QED
          BY <5>1, <5>2, <5>3
      <4>3. \A q : q \in ReferrersTo(g, store, c) => q = <<d, x>>
        BY <3>1, <4>1, <4>2, ReferrersMean
      <4>4. ReferrersTo(g, store, c) \subseteq {<<d, x>>}
        BY <4>3
      <4> QED
        BY <4>4 DEF FewReferrers
    <3>2. CASE c # cell
      <4>1. ASSUME NEW e \in Cell, NEW i \in DOMAIN g[e].items, g[e].items[i] = c
            PROVE  i \in DOMAIN heap[e].items /\ heap[e].items[i] = c
        <5>1. CASE e = cell
          BY <2>10, <4>1, <5>1
        <5>2. CASE e = d
          BY <2>5, <2>9, <3>2, <4>1, <5>2
        <5>3. CASE e # cell /\ e # d
          BY <2>11, <4>1, <5>3
        <5> QED
          BY <5>1, <5>2, <5>3
      <4>2. heap[c].type = g[c].type
        BY <2>11, <3>2
      <4> QED
        BY <4>1, <4>2, FewerReferrers
    <3> QED
      BY <3>1, <3>2
  <2> QED
    BY <1>3, <2>13, <2>14, <2>15, <2>16, <2>17, StepInv
<1> QED
  BY <1>2, <1>3 DEF EndStore

-----------------------------------------------------------------------------
(* The invariant, and what follows from it. *)

\* A program starts in the invariant.
LEMMA InitInv ==
  ASSUME Init
  PROVE  IInv
<1>1. /\ heap = [c \in Cell |-> Free] /\ store = [n \in Name |-> 0] /\ storing = NoStore
      /\ fault = "none"
  BY DEF Init
<1>2. TypesOf(heap, store, storing)
  BY <1>1, FreeObject DEF TypesOf, NoStore, Stores
<1>3. Rooted(heap, store) /\ ItemsSound(heap) /\ StoreInside(heap, storing)
  BY <1>1, FreeObject DEF Rooted, ItemsSound, StoreInside
<1>4. DeclarationsFit(heap, store) /\ Owned(heap, store)
  BY <1>1, FreeObject DEF DeclarationsFit, Owned, isValueAssigned
<1> QED
  BY <1>1, <1>2, <1>3, <1>4 DEF IInv, Sound, Faults, StoresStayInside

\* Every step keeps the invariant.
LEMMA NextInv ==
  ASSUME IInv, [Next]_vars
  PROVE  IInv' /\ Pinned
<1>1. CASE UNCHANGED vars
  <2>1. fault' = fault /\ UNCHANGED <<heap, store, storing>>
    BY <1>1 DEF vars
  <2> QED
    BY <2>1, FaultInv DEF IInv, StoresStayInside
<1>2. CASE Next
  BY <1>2, LetInv, AssignInv, BindInv, LeaveInv, PopBackInv, PushBackInv, BeginStoreInv,
     EndStoreInv DEF Next
<1> QED
  BY <1>1, <1>2

\* Every statement, of any thread, leads from a state of the invariant to one.
THEOREM Invariance == Spec => []IInv
<1>1. Init => IInv
  BY InitInv
<1>2. IInv /\ [Next]_vars => IInv'
  BY NextInv
<1> QED
  BY <1>1, <1>2, PTL DEF Spec

\* let, `=` and `a[i] =` clone scalars: two variables or slots refer to the same one only when it
\* has been an argument, a loop's element, an element of a literal or of a slice or the argument of
\* push_back.
THEOREM ScalarsOwned == Spec => []ScalarsAreOwned
<1>1. ASSUME IInv PROVE ScalarsAreOwned
  <2> SUFFICES ASSUME NEW c \in Scalars, "shared" \notin heap[c].history
               PROVE  ~(Cardinality(Referrers(c)) > 1)
    BY DEF ScalarsAreOwned
  <2>1. c \in Cell /\ isValueAssigned(heap[c])
    BY DEF Scalars
  <2>2. \A q, r \in Referrers(c) : q = r
    BY <1>1, <2>1 DEF IInv, Sound, Owned, ReferrersTo, Referrers
  <2>3. CASE Referrers(c) = {}
    BY <2>3, FS_EmptySet
  <2>4. CASE Referrers(c) # {}
    <3>1. PICK q : Referrers(c) = {q}
      BY <2>2, <2>4
    <3>2. Cardinality({q}) = 1
      BY FS_Singleton
    <3> QED
      BY <3>1, <3>2
  <2> QED
    BY <2>3, <2>4
<1> QED
  BY <1>1, Invariance, PTL

\* isCompatibleType in evalLetStatement, Environment::set and the calls: whatever runs between, a
\* variable holds what it is declared to, or an array that push_back or `a[i] =` has changed.
THEOREM VariablesFit == Spec => []FitsDeclaration
<1>1. ASSUME IInv PROVE FitsDeclaration
  <2> SUFFICES ASSUME NEW n \in Bound
               PROVE  Fits(Declared[n], ObjectOf(n)) \/ "changed" \in ObjectOf(n).history
    BY DEF FitsDeclaration
  <2>1. n \in Name /\ store[n] # 0 /\ Declared[n] \in Types
    BY ConstantAssumption DEF Bound
  <2> QED
    BY <1>1, <2>1, FitsWhole DEF IInv, Sound, DeclarationsFit, ObjectOf
<1> QED
  BY <1>1, Invariance, PTL

\* updateArray checks the index before the right side is evaluated: the slot is there when it is
\* written unless the array has been shortened since.
THEOREM StoresInside == Spec => []StoresStayInside
<1>1. IInv => StoresStayInside
  BY DEF IInv
<1> QED
  BY <1>1, Invariance, PTL

\* isCompatibleType of an any variable looks at the object that it holds: without a declared type
\* of its own that object gives the type of the next.
THEOREM AnyPinned == Spec => AnyIsPinned
<1>1. ASSUME IInv, [Next]_vars
      PROVE  [\A n \in Bound :
                Declared[n] = "any" /\ ObjectOf(n).declared = "none" /\ store'[n] # 0
                  => heap'[store'[n]].type = ObjectOf(n).type]_vars
  BY <1>1, NextInv DEF Pinned
<1> QED
  BY <1>1, Invariance, PTL DEF Spec, AnyIsPinned

=============================================================================
