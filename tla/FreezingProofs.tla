--------------------------- MODULE FreezingProofs ---------------------------
(* Theorems about Freezing: its type invariant, and the three invariants its runs check. *)
EXTENDS Freezing, FiniteSetTheorems, SequenceTheorems, TLAPS

-----------------------------------------------------------------------------
(* The inductive invariant. *)

(* An object nobody has robbed has been frozen at least as often as defrosted. *)
NetOfUnrobbed == \A o \in Obj : ~robbed[o] => net[o] >= 0

(* What an activity calls held is frozen. *)
HeldIsFrozen == \A i \in DOMAIN active : active[i].held => frozen[active[i].obj] > 0

(* Activities nest: whatever held when an inner one began, the inner one began frozen. *)
Nested ==
  \A i, j \in DOMAIN active :
    i < j /\ active[i].obj = active[j].obj /\ active[i].held => active[j].held

(* Only arrays are sorted. *)
SortsArrays == \A i \in DOMAIN active : active[i].kind # "for" => Kind[active[i].obj] = "array"

IInv ==
  /\ TypeOK /\ FreezeBalance /\ NetOfUnrobbed /\ LoopHoldsFreeze
  /\ HeldIsFrozen /\ Nested /\ SortsArrays /\ FrozenIsStable

-----------------------------------------------------------------------------
(* Sequences. *)

(* A function over 1..n is a sequence of length n. *)
LEMMA FunctionIsSeq ==
  ASSUME NEW S, NEW n \in Nat, NEW f \in [1..n -> S]
  PROVE  f \in Seq(S) /\ Len(f) = n /\ DOMAIN f = 1..n
BY SeqDef

(* All but the last element. *)
LEMMA FrontProperties ==
  ASSUME NEW S, NEW q \in Seq(S), q # << >>
  PROVE  /\ Front(q) \in Seq(S)
         /\ Len(Front(q)) = Len(q) - 1
         /\ DOMAIN Front(q) = 1..(Len(q) - 1)
         /\ \A i \in 1..(Len(q) - 1) : Front(q)[i] = q[i]
<1>1. Len(q) \in Nat /\ Len(q) > 0
  BY EmptySeq, LenProperties
<1>2. \A i \in 1..(Len(q) - 1) : q[i] \in S
  BY <1>1, ElementOfSeq
<1>3. /\ SubSeq(q, 1, Len(q) - 1) \in Seq(S)
      /\ Len(SubSeq(q, 1, Len(q) - 1)) = IF 1 <= Len(q) - 1 THEN Len(q) - 1 - 1 + 1 ELSE 0
      /\ \A i \in 1..(Len(q) - 1 - 1 + 1) : SubSeq(q, 1, Len(q) - 1)[i] = q[1 + i - 1]
  <2>1. 1 \in Int /\ Len(q) - 1 \in Int
    BY <1>1
  <2> QED
    BY <2>1, <1>2, SubSeqProperties
<1> DEFINE F == SubSeq(q, 1, Len(q) - 1)
           n == Len(q)
<1>4. n \in Nat /\ n > 0 /\ Len(F) = (IF 1 <= n - 1 THEN n - 1 - 1 + 1 ELSE 0)
  BY <1>1, <1>3
<1>5. F \in Seq(S) /\ \A i \in 1..(n - 1) : F[i] = q[i]
  BY <1>1, <1>3
<1>6. Front(q) = F
  BY DEF Front
<1> HIDE DEF F, n
<1>7. Len(F) = n - 1
  BY <1>4
<1>8. DOMAIN F = 1..(n - 1)
  BY <1>5, <1>7, LenProperties
<1> QED
  BY <1>5, <1>6, <1>7, <1>8 DEF n

-----------------------------------------------------------------------------
(* The activities that the operators on `active` return. *)

(* What a mutator may not change of an activity: it writes only `rest` and `stale`. *)
SameWalk(x, y) ==
  /\ x.kind = y.kind /\ x.obj = y.obj /\ x.at = y.at
  /\ x.size = y.size /\ x.nodes = y.nodes /\ x.held = y.held

(* Rewriting each activity on its own leaves a sequence of activities of the same length. *)
LEMMA UnheldProperties ==
  ASSUME active \in Seq(Activity), NEW o, NEW n \in Int
  PROVE  /\ Unheld(o, n) \in Seq(Activity)
         /\ Len(Unheld(o, n)) = Len(active)
         /\ DOMAIN Unheld(o, n) = 1..Len(active)
         /\ \A i \in 1..Len(active) :
              /\ Unheld(o, n)[i] = [active[i] EXCEPT !.held = Unheld(o, n)[i].held]
              /\ Unheld(o, n)[i].held = (active[i].held /\ ~(active[i].obj = o /\ n <= 0))
<1>1. Len(active) \in Nat /\ DOMAIN active = 1..Len(active)
  BY LenProperties
<1>2. \A i \in 1..Len(active) : active[i] \in Activity
  BY ElementOfSeq
<1>3. \A i \in 1..Len(active) :
        [active[i] EXCEPT !.held = @ /\ ~(active[i].obj = o /\ n <= 0)] \in Activity
  BY <1>2 DEF Activity
<1>4. Unheld(o, n) \in [1..Len(active) -> Activity]
  BY <1>1, <1>3 DEF Unheld
<1>5. \A i \in 1..Len(active) :
        Unheld(o, n)[i] = [active[i] EXCEPT !.held = @ /\ ~(active[i].obj = o /\ n <= 0)]
  BY <1>1 DEF Unheld
<1>6. \A i \in 1..Len(active) :
        Unheld(o, n)[i].held = (active[i].held /\ ~(active[i].obj = o /\ n <= 0))
  BY <1>2, <1>5 DEF Activity
<1>7. \A i \in 1..Len(active) :
        Unheld(o, n)[i] = [active[i] EXCEPT !.held = Unheld(o, n)[i].held]
  BY <1>2, <1>5, <1>6 DEF Activity
<1> QED
  BY <1>1, <1>4, <1>6, <1>7, FunctionIsSeq

\* What a mutator does to the iterators over an object leaves their walk as it is.
LEMMA ScannedProperties ==
  ASSUME active \in Seq(Activity), NEW o, NEW stale \in BOOLEAN
  PROVE  /\ Scanned(o, stale) \in Seq(Activity)
         /\ Len(Scanned(o, stale)) = Len(active)
         /\ DOMAIN Scanned(o, stale) = 1..Len(active)
         /\ \A i \in 1..Len(active) :
              /\ SameWalk(Scanned(o, stale)[i], active[i])
              /\ active[i].obj # o => Scanned(o, stale)[i] = active[i]
<1>1. Len(active) \in Nat /\ DOMAIN active = 1..Len(active)
  BY LenProperties
<1>2. \A i \in 1..Len(active) : active[i] \in Activity
  BY ElementOfSeq
<1>3. \A i \in 1..Len(active) : [active[i] EXCEPT !.stale = @ \/ stale] \in Activity
  BY <1>2 DEF Activity
<1>4. Scanned(o, stale) \in [1..Len(active) -> Activity]
  BY <1>1, <1>2, <1>3 DEF Scanned
<1>5. \A i \in 1..Len(active) :
        \/ Scanned(o, stale)[i] = active[i]
        \/ active[i].obj = o /\ Scanned(o, stale)[i] = [active[i] EXCEPT !.stale = @ \/ stale]
  BY <1>1 DEF Scanned
<1>6. \A i \in 1..Len(active) : SameWalk(Scanned(o, stale)[i], active[i])
  BY <1>2, <1>5 DEF Activity, SameWalk
<1> QED
  BY <1>1, <1>4, <1>5, <1>6, FunctionIsSeq

\* So does an iterator that is made to dangle.
LEMMA DangleProperties ==
  ASSUME active \in Seq(Activity), NEW o
  PROVE  /\ Dangle(o) \in Seq(Activity)
         /\ Len(Dangle(o)) = Len(active)
         /\ DOMAIN Dangle(o) = 1..Len(active)
         /\ \A i \in 1..Len(active) :
              /\ SameWalk(Dangle(o)[i], active[i])
              /\ active[i].obj # o => Dangle(o)[i] = active[i]
<1>1. Len(active) \in Nat /\ DOMAIN active = 1..Len(active)
  BY LenProperties
<1>2. \A i \in 1..Len(active) : active[i] \in Activity
  BY ElementOfSeq
<1> DEFINE lost(i) == active[i].obj = o /\ active[i].rest # {}
<1>3. \A i \in 1..Len(active) : [active[i] EXCEPT !.stale = @ \/ lost(i)] \in Activity
  BY <1>2 DEF Activity
<1>4. Dangle(o) \in [1..Len(active) -> Activity]
  BY <1>1, <1>3 DEF Dangle
<1>5. \A i \in 1..Len(active) : Dangle(o)[i] = [active[i] EXCEPT !.stale = @ \/ lost(i)]
  BY <1>1 DEF Dangle
<1>6. \A i \in 1..Len(active) : SameWalk(Dangle(o)[i], active[i])
  BY <1>2, <1>5 DEF Activity, SameWalk
<1>7. \A i \in 1..Len(active) : active[i].obj # o => Dangle(o)[i] = active[i]
  BY <1>2, <1>5 DEF Activity
<1> QED
  BY <1>1, <1>4, <1>6, <1>7, FunctionIsSeq

\* A sequence in another order.
LEMMA ArrangedProperties ==
  ASSUME NEW S, NEW q \in Seq(S), NEW n \in 0..Len(q), NEW p \in Orderings(n)
  PROVE  Arranged(q, p) \in Seq(S) /\ Len(Arranged(q, p)) = n
<1>1. p \in [1..n -> 1..n] /\ n \in Nat
  BY LenProperties DEF Orderings
<1>2. Len(p) = n
  BY <1>1, FunctionIsSeq
<1>3. \A i \in 1..n : q[p[i]] \in S
  BY <1>1, ElementOfSeq, LenProperties
<1>4. Arranged(q, p) \in [1..n -> S]
  BY <1>2, <1>3 DEF Arranged
<1> QED
  BY <1>1, <1>4, FunctionIsSeq

-----------------------------------------------------------------------------
(* Mutators. *)

(* No counter and no activity's hold changes. *)
Quiet ==
  /\ frozen' = frozen /\ freezer' = freezer /\ net' = net /\ robbed' = robbed
  /\ active' \in Seq(Activity) /\ Len(active') = Len(active)
  /\ \A i \in 1..Len(active) : SameWalk(active'[i], active[i])

TypedContents ==
  /\ slots' \in [Obj -> Seq(Slot)]
  /\ keys' \in [Obj -> SUBSET Elem]
  /\ fault' \in {"none", "dangling", "out of bounds", "null element", "misaligned"}

(* A frozen array keeps its length; a frozen set its keys, and its loops their place. *)
Kept ==
  \A o \in Obj :
    frozen[o] > 0 =>
      /\ Kind[o] = "array" => Len(slots'[o]) = Len(slots[o])
      /\ Kind[o] = "set" =>
           /\ keys'[o] = keys[o]
           /\ \A i \in 1..Len(active) : active[i].obj = o => active'[i] = active[i]

(* The activities are left alone, or rewritten for one object that is not a set. *)
LEMMA StillQuiet ==
  ASSUME TypeOK, UNCHANGED <<frozen, freezer, net, robbed, active>>
  PROVE  Quiet /\ \A i \in 1..Len(active) : active'[i] = active[i]
BY DEF TypeOK, Quiet, SameWalk

\* Neither touches counters, freezers or what activities hold.
LEMMA ScannedQuiet ==
  ASSUME TypeOK, UNCHANGED <<frozen, freezer, net, robbed>>, NEW o,
         NEW stale \in BOOLEAN, active' = Scanned(o, stale)
  PROVE  Quiet /\ \A i \in 1..Len(active) : active[i].obj # o => active'[i] = active[i]
BY ScannedProperties DEF TypeOK, Quiet

LEMMA DangleQuiet ==
  ASSUME TypeOK, UNCHANGED <<frozen, freezer, net, robbed>>, NEW o, active' = Dangle(o)
  PROVE  Quiet /\ \A i \in 1..Len(active) : active[i].obj # o => active'[i] = active[i]
BY DangleProperties DEF TypeOK, Quiet

(* Rewriting one object's slots. *)
LEMMA OneSlots ==
  ASSUME TypeOK, NEW o \in Obj, NEW q \in Seq(Slot), slots' = [slots EXCEPT ![o] = q]
  PROVE  /\ slots' \in [Obj -> Seq(Slot)] /\ slots'[o] = q
         /\ \A x \in Obj \ {o} : slots'[x] = slots[x]
BY DEF TypeOK

(* A mutator that heeds the counter, and changes nothing of other objects. *)
LEMMA GuardedKept ==
  ASSUME TypeOK, NEW o \in Obj, frozen[o] <= 0,
         \A x \in Obj \ {o} : slots'[x] = slots[x] /\ keys'[x] = keys[x],
         \A i \in 1..Len(active) : active[i].obj # o => active'[i] = active[i]
  PROVE  Kept
<1> SUFFICES ASSUME NEW x \in Obj, frozen[x] > 0
             PROVE  /\ Len(slots'[x]) = Len(slots[x])
                    /\ keys'[x] = keys[x]
                    /\ \A i \in 1..Len(active) : active[i].obj = x => active'[i] = active[i]
  BY Zenon DEF Kept
<1>1. frozen[o] \in Int /\ frozen[x] \in Int
  BY DEF TypeOK
<1>2. x # o
  BY <1>1
<1> QED
  BY <1>2, Zenon

(* A mutator that does not heed it keeps the array's length and is not one of a set. *)
LEMMA UnguardedKept ==
  ASSUME NEW o \in Obj, Kind[o] # "set",
         Kind[o] = "array" => Len(slots'[o]) = Len(slots[o]),
         \A x \in Obj \ {o} : slots'[x] = slots[x] /\ keys'[x] = keys[x],
         \A i \in 1..Len(active) : active[i].obj # o => active'[i] = active[i]
  PROVE  Kept
<1> SUFFICES ASSUME NEW x \in Obj
             PROVE  /\ Kind[x] = "array" => Len(slots'[x]) = Len(slots[x])
                    /\ Kind[x] = "set" =>
                         /\ keys'[x] = keys[x]
                         /\ \A i \in 1..Len(active) :
                              active[i].obj = x => active'[i] = active[i]
  BY Zenon DEF Kept
<1>1. CASE x = o
  BY <1>1
<1>2. CASE x # o
  BY <1>2, Zenon
<1> QED
  BY <1>1, <1>2

LEMMA PushBackStep ==
  ASSUME TypeOK, NEW o \in Obj, NEW e \in Elem, PushBack(o, e)
  PROVE  Quiet /\ TypedContents /\ Kept
<1>1. slots[o] \in Seq(Slot) /\ e \in Slot
  BY DEF TypeOK, Slot
<1>2. Append(slots[o], e) \in Seq(Slot)
  BY <1>1, AppendProperties
<1>3. PICK moved \in BOOLEAN : active' = Scanned(o, moved)
  BY DEF PushBack
<1>4. Quiet /\ \A i \in 1..Len(active) : active[i].obj # o => active'[i] = active[i]
  BY <1>3, ScannedQuiet DEF PushBack
<1>5. slots' = [slots EXCEPT ![o] = Append(slots[o], e)]
  BY DEF PushBack
<1>6. /\ slots' \in [Obj -> Seq(Slot)]
      /\ \A x \in Obj \ {o} : slots'[x] = slots[x]
  BY <1>2, <1>5, OneSlots
<1>7. TypedContents
  BY <1>6 DEF PushBack, TypedContents, TypeOK
<1>8. Kept
  BY <1>4, <1>6, GuardedKept DEF PushBack, MayMutate
<1> QED
  BY <1>4, <1>7, <1>8

LEMMA PopBackStep ==
  ASSUME TypeOK, NEW o \in Obj, PopBack(o)
  PROVE  Quiet /\ TypedContents /\ Kept
<1>1. slots[o] \in Seq(Slot)
  BY DEF TypeOK
<1>2. CASE slots[o] = << >>
  <2>1. UNCHANGED <<slots, keys, frozen, freezer, active, net, robbed>> /\ fault' = "out of bounds"
    BY <1>2 DEF PopBack
  <2> QED
    BY <2>1, StillQuiet, GuardedKept DEF TypedContents, TypeOK, PopBack, MayMutate
<1>3. CASE slots[o] # << >>
  <2>1. /\ slots' = [slots EXCEPT ![o] = Front(slots[o])] /\ active' = Scanned(o, TRUE)
        /\ UNCHANGED <<keys, frozen, freezer, fault, net, robbed>>
        /\ frozen[o] <= 0
    BY <1>3 DEF PopBack, MayMutate
  <2>2. Front(slots[o]) \in Seq(Slot)
    BY <1>1, <1>3, FrontProperties
  <2>3. slots' \in [Obj -> Seq(Slot)] /\ \A x \in Obj \ {o} : slots'[x] = slots[x]
    BY <2>1, <2>2, OneSlots
  <2>4. Quiet /\ \A i \in 1..Len(active) : active[i].obj # o => active'[i] = active[i]
    BY <2>1, ScannedQuiet
  <2> QED
    BY <2>1, <2>3, <2>4, GuardedKept DEF TypedContents, TypeOK
<1> QED
  BY <1>2, <1>3

LEMMA ClearStep ==
  ASSUME TypeOK, NEW o \in Obj, Clear(o)
  PROVE  Quiet /\ TypedContents /\ Kept
<1>1. CASE /\ slots' = [slots EXCEPT ![o] = << >>] /\ active' = Scanned(o, TRUE)
           /\ UNCHANGED keys
  <2>1. slots' \in [Obj -> Seq(Slot)] /\ \A x \in Obj \ {o} : slots'[x] = slots[x]
    BY <1>1, OneSlots, EmptySeq
  <2>2. Quiet /\ \A i \in 1..Len(active) : active[i].obj # o => active'[i] = active[i]
    BY <1>1, ScannedQuiet DEF Clear
  <2>3. TypedContents
    BY <1>1, <2>1 DEF Clear, TypedContents, TypeOK
  <2>4. Kept
    BY <1>1, <2>1, <2>2, GuardedKept DEF Clear, MayMutate
  <2> QED
    BY <2>2, <2>3, <2>4
<1>2. CASE keys' = [keys EXCEPT ![o] = {}] /\ active' = Dangle(o) /\ UNCHANGED slots
  <2>1. Quiet /\ \A i \in 1..Len(active) : active[i].obj # o => active'[i] = active[i]
    BY <1>2, DangleQuiet DEF Clear
  <2>2. TypedContents /\ \A x \in Obj \ {o} : keys'[x] = keys[x]
    BY <1>2 DEF Clear, TypedContents, TypeOK
  <2>3. Kept
    BY <1>2, <2>1, <2>2, GuardedKept DEF Clear, MayMutate
  <2> QED
    BY <2>1, <2>2, <2>3
<1> QED
  BY <1>1, <1>2 DEF Clear

(* Steps that rewrite o's slots only: the length is kept, or the object is not frozen. *)
LEMMA RewriteStep ==
  ASSUME TypeOK, NEW o \in Obj, Sequential(o), NEW q \in Seq(Slot),
         slots' = [slots EXCEPT ![o] = q],
         Kind[o] = "array" => Len(q) = Len(slots[o]),
         UNCHANGED <<keys, frozen, freezer, fault, net, robbed>>,
         active' = active \/ active' = Scanned(o, TRUE)
  PROVE  Quiet /\ TypedContents /\ Kept
<1>1. /\ slots' \in [Obj -> Seq(Slot)] /\ slots'[o] = q
      /\ \A x \in Obj \ {o} : slots'[x] = slots[x]
  BY OneSlots
<1>2. Quiet /\ \A i \in 1..Len(active) : active[i].obj # o => active'[i] = active[i]
  BY StillQuiet, ScannedQuiet
<1>3. Kind[o] # "set"
  BY DEF Sequential
<1>4. Kept
  BY <1>1, <1>2, <1>3, UnguardedKept
<1> QED
  BY <1>1, <1>2, <1>4 DEF TypedContents, TypeOK

(* Steps that leave the contents and the activities alone. *)
LEMMA IdleStep ==
  ASSUME TypeOK, UNCHANGED <<slots, keys, frozen, freezer, active, net, robbed>>,
         fault' \in {"none", "dangling", "out of bounds", "null element", "misaligned"}
  PROVE  Quiet /\ TypedContents /\ Kept
BY StillQuiet DEF TypedContents, Kept, TypeOK

LEMMA ReverseStep ==
  ASSUME TypeOK, NEW o \in Obj, Reverse(o)
  PROVE  Quiet /\ TypedContents /\ Kept
<1> DEFINE q == slots[o]
           r == [i \in 1..Len(q) |-> q[Len(q) + 1 - i]]
<1>1. q \in Seq(Slot) /\ Len(q) \in Nat
  BY LenProperties DEF TypeOK
<1>2. \A i \in 1..Len(q) : Len(q) + 1 - i \in 1..Len(q)
  BY <1>1
<1>3. r \in [1..Len(q) -> Slot]
  BY <1>1, <1>2, ElementOfSeq
<1>4. r \in Seq(Slot) /\ Len(r) = Len(q)
  BY <1>1, <1>3, FunctionIsSeq
<1>5. slots' = [slots EXCEPT ![o] = r]
  BY DEF Reverse
<1> HIDE DEF r
<1> QED
  BY <1>4, <1>5, RewriteStep DEF Reverse

LEMMA ArrangeStep ==
  ASSUME TypeOK, NEW o \in Obj, Kind[o] = "array",
         NEW p \in Orderings(Len(slots[o])),
         slots' = [slots EXCEPT ![o] = Arranged(slots[o], p)],
         UNCHANGED <<keys, frozen, freezer, fault, net, robbed>>,
         active' = active \/ active' = Scanned(o, TRUE)
  PROVE  Quiet /\ TypedContents /\ Kept
<1>1. slots[o] \in Seq(Slot) /\ Len(slots[o]) \in Nat
  BY LenProperties DEF TypeOK
<1>2. Arranged(slots[o], p) \in Seq(Slot) /\ Len(Arranged(slots[o], p)) = Len(slots[o])
  BY <1>1, ArrangedProperties
<1> QED
  BY <1>2, RewriteStep DEF Sequential

LEMMA RotateStep ==
  ASSUME TypeOK, NEW o \in Obj, Rotate(o)
  PROVE  Quiet /\ TypedContents /\ Kept
<1>1. CASE /\ \E p \in Orderings(Len(slots[o])) :
                slots' = [slots EXCEPT ![o] = Arranged(slots[o], p)]
           /\ UNCHANGED fault
  BY <1>1, ArrangeStep DEF Rotate
<1>2. CASE fault' = "misaligned" /\ UNCHANGED slots
  BY <1>2, IdleStep DEF Rotate
<1> QED
  BY <1>1, <1>2 DEF Rotate

LEMMA ReserveStep ==
  ASSUME TypeOK, NEW o \in Obj, Reserve(o)
  PROVE  Quiet /\ TypedContents /\ Kept
<1>1. Quiet /\ \A i \in 1..Len(active) : active[i].obj # o => active'[i] = active[i]
  BY ScannedQuiet DEF Reserve
<1>2. Kept
  BY <1>1, UnguardedKept DEF Reserve
<1> QED
  BY <1>1, <1>2 DEF Reserve, TypedContents, TypeOK

LEMMA UpdateArrayStep ==
  ASSUME TypeOK, NEW o \in Obj, NEW i \in DOMAIN slots[o], NEW e \in Elem, UpdateArray(o, i, e)
  PROVE  Quiet /\ TypedContents /\ Kept
<1>1. slots[o] \in Seq(Slot) /\ e \in Slot /\ i \in 1..Len(slots[o])
  BY LenProperties DEF TypeOK, Slot
<1>2. /\ [slots[o] EXCEPT ![i] = e] \in Seq(Slot)
      /\ Len([slots[o] EXCEPT ![i] = e]) = Len(slots[o])
  BY <1>1, ExceptSeq
<1>3. slots' = [slots EXCEPT ![o] = [slots[o] EXCEPT ![i] = e]]
  BY DEF UpdateArray
<1> QED
  BY <1>2, <1>3, RewriteStep DEF UpdateArray, Sequential

LEMMA UpdateStringStep ==
  ASSUME TypeOK, NEW o \in Obj, NEW i \in DOMAIN slots[o], NEW t \in Literals,
         UpdateString(o, i, t)
  PROVE  Quiet /\ TypedContents /\ Kept
<1> DEFINE q == slots[o]
           before == SubSeq(q, 1, i - 1)
           after == SubSeq(q, i + 1, Len(q))
<1>1. q \in Seq(Slot) /\ Len(q) \in Nat /\ i \in 1..Len(q)
  BY LenProperties DEF TypeOK
<1>2. \A j \in 1..Len(q) : q[j] \in Slot
  BY <1>1, ElementOfSeq
<1>3. before \in Seq(Slot)
  <2>1. \A j \in 1..(i - 1) : q[j] \in Slot
    BY <1>1, <1>2
  <2> QED
    BY <2>1, <1>1, SubSeqProperties
<1>4. after \in Seq(Slot)
  <2>1. \A j \in (i + 1)..Len(q) : q[j] \in Slot
    BY <1>1, <1>2
  <2> QED
    BY <2>1, <1>1, SubSeqProperties
<1>5. t \in Seq(Slot)
  <2>1. PICK n \in 0..MaxLen : t \in [1..n -> Elem]
    BY DEF Literals
  <2>2. t \in [1..n -> Slot] /\ n \in Nat
    BY <2>1, ConstantAssumption DEF Slot
  <2> QED
    BY <2>2, FunctionIsSeq
<1>6. (before \o t) \o after \in Seq(Slot)
  BY <1>3, <1>4, <1>5, ConcatProperties
<1>7. slots' = [slots EXCEPT ![o] = (before \o t) \o after]
  BY DEF UpdateString
<1> HIDE DEF before, after
<1> QED
  BY <1>6, <1>7, RewriteStep DEF UpdateString, Sequential

LEMMA InsertStep ==
  ASSUME TypeOK, NEW o \in Obj, NEW ks \in SUBSET Elem, Insert(o, ks)
  PROVE  Quiet /\ TypedContents /\ Kept
<1>1. TypedContents
  BY DEF Insert, TypedContents, TypeOK
<1>2. Quiet /\ \A i \in 1..Len(active) : active[i].obj # o => active'[i] = active[i]
  <2>1. CASE UNCHANGED active
    BY <2>1, StillQuiet DEF Insert
  <2>2. CASE ~UNCHANGED active
    <3>1. PICK r \in [DOMAIN active -> SUBSET Elem] :
            /\ \A i \in DOMAIN active : active[i].obj # o => r[i] = active[i].rest
            /\ active' = [i \in DOMAIN active |-> [active[i] EXCEPT !.rest = r[i]]]
      BY <2>2 DEF Insert
    <3>2. Len(active) \in Nat /\ DOMAIN active = 1..Len(active)
      BY LenProperties DEF TypeOK
    <3>3. \A i \in 1..Len(active) : active[i] \in Activity
      BY ElementOfSeq DEF TypeOK
    <3>4. \A i \in 1..Len(active) : active'[i] = [active[i] EXCEPT !.rest = r[i]]
      BY <3>1, <3>2
    <3>5. \A i \in 1..Len(active) : active'[i] \in Activity /\ SameWalk(active'[i], active[i])
      BY <3>1, <3>2, <3>3, <3>4 DEF Activity, SameWalk
    <3>6. active' \in [1..Len(active) -> Activity]
      BY <3>1, <3>2, <3>4, <3>5
    <3>7. active' \in Seq(Activity) /\ Len(active') = Len(active)
      BY <3>2, <3>6, FunctionIsSeq
    <3>8. \A i \in 1..Len(active) : active[i].obj # o => active'[i] = active[i]
      BY <3>1, <3>2, <3>3, <3>4 DEF Activity
    <3> QED
      BY <3>5, <3>7, <3>8 DEF Insert, Quiet
  <2> QED
    BY <2>1, <2>2
<1>3. Kind[o] # "set" /\ Kind[o] # "array" /\ \A x \in Obj \ {o} : keys'[x] = keys[x]
  BY DEF Insert, TypeOK
<1>4. Kept
  BY <1>2, <1>3, UnguardedKept DEF Insert
<1> QED
  BY <1>1, <1>2, <1>4

LEMMA ClearDictionaryStep ==
  ASSUME TypeOK, NEW o \in Obj, ClearDictionary(o)
  PROVE  Quiet /\ TypedContents /\ Kept
<1>1. TypedContents
  BY DEF ClearDictionary, TypedContents, TypeOK
<1>2. Quiet /\ \A i \in 1..Len(active) : active[i].obj # o => active'[i] = active[i]
  BY DangleQuiet DEF ClearDictionary
<1>3. Kind[o] # "set" /\ Kind[o] # "array" /\ \A x \in Obj \ {o} : keys'[x] = keys[x]
  BY DEF ClearDictionary, TypeOK
<1>4. Kept
  BY <1>2, <1>3, UnguardedKept DEF ClearDictionary
<1> QED
  BY <1>1, <1>2, <1>4

LEMMA SortStep ==
  ASSUME TypeOK, NEW o \in Obj, Sort(o)
  PROVE  Quiet /\ TypedContents /\ Kept
<1>1. CASE HasNull(o)
  BY <1>1, IdleStep DEF Sort
<1>2. CASE ~HasNull(o)
  BY <1>2, ArrangeStep DEF Sort
<1> QED
  BY <1>1, <1>2

LEMMA SortedStep ==
  ASSUME TypeOK, NEW o \in Obj, Sorted(o)
  PROVE  Quiet /\ TypedContents /\ Kept
<1>1. CASE HasNull(o)
  BY <1>1, IdleStep DEF Sorted
<1>2. CASE ~HasNull(o)
  <2> DEFINE r == [i \in DOMAIN slots[o] |-> Null]
  <2>1. slots[o] \in Seq(Slot) /\ Len(slots[o]) \in Nat /\ DOMAIN slots[o] = 1..Len(slots[o])
    BY LenProperties DEF TypeOK
  <2>2. r \in [1..Len(slots[o]) -> Slot]
    BY <2>1 DEF Slot
  <2>3. r \in Seq(Slot) /\ Len(r) = Len(slots[o])
    BY <2>1, <2>2, FunctionIsSeq
  <2>4. slots' = [slots EXCEPT ![o] = r]
    BY <1>2 DEF Sorted
  <2> HIDE DEF r
  <2> QED
    BY <1>2, <2>3, <2>4, RewriteStep DEF Sorted, Sequential
<1> QED
  BY <1>1, <1>2

(* Every mutator. *)
LEMMA MutateStep ==
  ASSUME TypeOK, Mutate
  PROVE  Quiet /\ TypedContents /\ Kept
BY PushBackStep, PopBackStep, ClearStep, ReverseStep, RotateStep, ReserveStep, UpdateArrayStep,
   UpdateStringStep, InsertStep, ClearDictionaryStep, SortStep, SortedStep
   DEF Mutate, UpdateDictionary

-----------------------------------------------------------------------------
(* Counting the freezers of an object and the loops over it. *)

\* The counter and its history.
LEMMA CounterTypes ==
  ASSUME TypeOK, NEW o \in Obj
  PROVE  /\ frozen[o] \in Int /\ net[o] \in Int /\ robbed[o] \in BOOLEAN
         /\ frozen \in [Obj -> Int] /\ net \in [Obj -> Int] /\ robbed \in [Obj -> BOOLEAN]
<1>1. frozen \in [Obj -> Int]
  BY DEF TypeOK
<1>2. net \in [Obj -> Int]
  BY DEF TypeOK
<1>3. robbed \in [Obj -> BOOLEAN]
  BY DEF TypeOK
<1> QED
  BY <1>1, <1>2, <1>3

\* The activities in progress.
LEMMA ActiveIsSeq ==
  ASSUME TypeOK
  PROVE  active \in Seq(Activity) /\ Len(active) \in Nat /\ DOMAIN active = 1..Len(active)
<1>1. active \in Seq(Activity)
  BY DEF TypeOK
<1> QED
  BY <1>1, LenProperties

\* One of them.
LEMMA ActivityTypes ==
  ASSUME TypeOK, NEW i \in DOMAIN active
  PROVE  active[i] \in Activity /\ active[i].obj \in Obj /\ active[i].held \in BOOLEAN
<1>1. active[i] \in Activity
  BY ActiveIsSeq, ElementOfSeq
<1> QED
  BY <1>1 DEF Activity

\* There are finitely many loops and freezers of an object.
LEMMA CountsAreNat ==
  ASSUME TypeOK, NEW o \in Obj
  PROVE  /\ IsFiniteSet(ForOver(o)) /\ Cardinality(ForOver(o)) \in Nat
         /\ IsFiniteSet(FreezersOf(o)) /\ Cardinality(FreezersOf(o)) \in Nat
<1>1. Len(active) \in Nat /\ DOMAIN active = 1..Len(active)
  BY LenProperties DEF TypeOK
<1>2. IsFiniteSet(1..Len(active))
  BY <1>1, FS_Interval
<1>3. IsFiniteSet(ForOver(o))
  <2>1. ForOver(o) \subseteq 1..Len(active)
    BY <1>1 DEF ForOver
  <2> QED
    BY <1>2, <2>1, FS_Subset
<1>4. IsFiniteSet(FreezersOf(o))
  <2>1. FreezersOf(o) \subseteq Freezer
    BY DEF FreezersOf
  <2> QED
    BY <2>1, FS_Subset, ConstantAssumption
<1> QED
  BY <1>3, <1>4, FS_CardinalityType

(* A loop over o makes the number of loops over it positive. *)
LEMMA LoopCounts ==
  ASSUME TypeOK, NEW o \in Obj, NEW i \in ForOver(o)
  PROVE  Cardinality(ForOver(o)) > 0
<1>1. Cardinality(ForOver(o)) # 0
  BY CountsAreNat, FS_EmptySet
<1> QED
  BY <1>1, CountsAreNat

-----------------------------------------------------------------------------
(* The invariants about counters survive whatever leaves counters and holds alone. *)

HoldInv ==
  FreezeBalance /\ NetOfUnrobbed /\ LoopHoldsFreeze /\ HeldIsFrozen /\ Nested /\ SortsArrays

SameHold(x, y) == x.kind = y.kind /\ x.obj = y.obj /\ x.held = y.held

\* A step that leaves counters, freezers and holds alone keeps what is known of them.
LEMMA HoldInvKept ==
  ASSUME TypeOK, HoldInv, UNCHANGED <<frozen, freezer, net, robbed>>,
         active' \in Seq(Activity), Len(active') = Len(active),
         \A i \in 1..Len(active) : SameHold(active'[i], active[i])
  PROVE  HoldInv'
<1>1. DOMAIN active = 1..Len(active) /\ DOMAIN active' = 1..Len(active)
  BY LenProperties DEF TypeOK
<1>2. \A o \in Obj : ForOver(o)' = ForOver(o)
  BY <1>1 DEF ForOver, SameHold
<1>3. \A o \in Obj : FreezersOf(o)' = FreezersOf(o)
  BY DEF FreezersOf
<1>4. FreezeBalance'
  BY <1>2, <1>3 DEF HoldInv, FreezeBalance
<1>5. NetOfUnrobbed'
  BY DEF HoldInv, NetOfUnrobbed
<1>6. LoopHoldsFreeze'
  <2> SUFFICES ASSUME NEW o \in Obj, ~robbed[o], NEW i \in ForOver(o)'
               PROVE  active'[i].held
    BY DEF LoopHoldsFreeze
  <2>1. i \in ForOver(o) /\ i \in 1..Len(active)
    BY <1>1, <1>2 DEF ForOver
  <2> QED
    BY <2>1 DEF HoldInv, LoopHoldsFreeze, SameHold
<1>7. HeldIsFrozen'
  BY <1>1 DEF HoldInv, HeldIsFrozen, SameHold
<1>8. Nested'
  BY <1>1 DEF HoldInv, Nested, SameHold
<1>9. SortsArrays'
  BY <1>1 DEF HoldInv, SortsArrays, SameHold
<1> QED
  BY <1>4, <1>5, <1>6, <1>7, <1>8, <1>9 DEF HoldInv

(* Mutators preserve the whole invariant. *)
LEMMA MutateInv ==
  ASSUME IInv, Mutate
  PROVE  IInv'
<1>1. Quiet /\ TypedContents /\ Kept
  BY MutateStep DEF IInv
<1>2. TypeOK'
  BY <1>1 DEF IInv, TypeOK, Quiet, TypedContents
<1>3. HoldInv'
  BY <1>1, HoldInvKept DEF IInv, HoldInv, Quiet, SameWalk, SameHold
<1>4. FrozenIsStable'
  <2> SUFFICES ASSUME NEW i \in DOMAIN active', active'[i].held
               PROVE  Undisturbed(active[i])'
    BY DEF FrozenIsStable
  <2>1. i \in 1..Len(active) /\ i \in DOMAIN active /\ active[i] \in Activity
    BY <1>1, LenProperties, ElementOfSeq DEF IInv, TypeOK, Quiet
  <2>2. SameWalk(active'[i], active[i])
    BY <1>1, <2>1 DEF Quiet
  <2>3. active[i].held /\ active[i].obj \in Obj /\ active'[i].obj = active[i].obj
    BY <2>1, <2>2 DEF SameWalk, Activity
  <2>4. frozen[active[i].obj] > 0
    BY <2>1, <2>3 DEF IInv, HeldIsFrozen
  <2>5. Undisturbed(active[i])
    BY <2>1, <2>3 DEF IInv, FrozenIsStable
  <2>6. CASE Kind[active[i].obj] = "array"
    <3>1. Len(slots'[active[i].obj]) = Len(slots[active[i].obj])
      BY <1>1, <2>3, <2>4, <2>6 DEF Kept
    <3> QED
      BY <2>2, <2>5, <2>6, <3>1 DEF SameWalk, Undisturbed
  <2>7. CASE Kind[active[i].obj] = "set"
    <3>1. keys'[active[i].obj] = keys[active[i].obj] /\ active'[i] = active[i]
      BY <1>1, <2>1, <2>3, <2>4, <2>7 DEF Kept
    <3> QED
      BY <2>5, <2>7, <3>1 DEF Undisturbed
  <2>8. CASE Kind[active[i].obj] \notin {"array", "set"}
    BY <2>3, <2>8 DEF Undisturbed
  <2> QED
    BY <2>6, <2>7, <2>8
<1> QED
  BY <1>2, <1>3, <1>4 DEF IInv, HoldInv

-----------------------------------------------------------------------------
(* Steps that thaw: the counter of o goes down by one. *)

(* The activities after that: the same walks, and those still held are over frozen objects. *)
LEMMA ThawedActivities ==
  ASSUME IInv, NEW o \in Obj
  PROVE  /\ Unheld(o, frozen[o] - 1) \in Seq(Activity)
         /\ Len(Unheld(o, frozen[o] - 1)) = Len(active)
         /\ \A i \in 1..Len(active) :
              LET u == Unheld(o, frozen[o] - 1)[i] IN
              /\ u.kind = active[i].kind /\ u.obj = active[i].obj
              /\ u.held = (active[i].held /\ ~(active[i].obj = o /\ frozen[o] - 1 <= 0))
              /\ u.held => Undisturbed(u) /\ [frozen EXCEPT ![o] = @ - 1][u.obj] > 0
<1> DEFINE U == Unheld(o, frozen[o] - 1)
<1> USE DEF IInv
<1>1. active \in Seq(Activity) /\ frozen[o] - 1 \in Int /\ frozen \in [Obj -> Int]
  BY CounterTypes, ActiveIsSeq
<1>2. /\ U \in Seq(Activity) /\ Len(U) = Len(active)
      /\ \A i \in 1..Len(active) :
           /\ U[i] = [active[i] EXCEPT !.held = U[i].held]
           /\ U[i].held = (active[i].held /\ ~(active[i].obj = o /\ frozen[o] - 1 <= 0))
  BY <1>1, UnheldProperties
<1> HIDE DEF U
<1>3. ASSUME NEW i \in 1..Len(active)
      PROVE  /\ U[i].kind = active[i].kind /\ U[i].obj = active[i].obj
             /\ U[i].held => Undisturbed(U[i]) /\ [frozen EXCEPT ![o] = @ - 1][U[i].obj] > 0
  <2>1. active[i] \in Activity /\ i \in DOMAIN active
    BY <1>1, ElementOfSeq, LenProperties
  <2>2. U[i] = [active[i] EXCEPT !.held = U[i].held]
    BY <1>2
  <2>3. /\ U[i].kind = active[i].kind /\ U[i].obj = active[i].obj /\ U[i].at = active[i].at
        /\ U[i].rest = active[i].rest /\ U[i].stale = active[i].stale
        /\ U[i].size = active[i].size /\ U[i].nodes = active[i].nodes
    BY <2>1, <2>2 DEF Activity
  <2>4. ASSUME U[i].held
        PROVE  Undisturbed(U[i]) /\ [frozen EXCEPT ![o] = @ - 1][U[i].obj] > 0
    <3>1. active[i].held /\ ~(active[i].obj = o /\ frozen[o] - 1 <= 0)
      BY <1>2, <2>4
    <3>2. Undisturbed(active[i]) /\ frozen[active[i].obj] > 0 /\ active[i].obj \in Obj
      BY <2>1, <3>1 DEF IInv, FrozenIsStable, HeldIsFrozen, Activity
    <3>3. Undisturbed(U[i])
      BY <2>3, <3>2 DEF Undisturbed
    <3>4. [frozen EXCEPT ![o] = @ - 1][active[i].obj] > 0
      BY <1>1, <3>1, <3>2
    <3> QED
      BY <2>3, <3>3, <3>4
  <2> QED
    BY <2>3, <2>4
<1> QED
  BY <1>2, <1>3 DEF U

(* An inner activity is held if an outer one over the same object is, before and after. *)
LEMMA ThawedNested ==
  ASSUME IInv, NEW o \in Obj, NEW i \in 1..Len(active), NEW j \in 1..Len(active), i < j,
         active[i].obj = active[j].obj, Unheld(o, frozen[o] - 1)[i].held
  PROVE  Unheld(o, frozen[o] - 1)[j].held
<1>1. i \in DOMAIN active /\ j \in DOMAIN active
  BY LenProperties DEF IInv, TypeOK
<1>2. active[i].held /\ ~(active[i].obj = o /\ frozen[o] - 1 <= 0)
  BY ThawedActivities
<1>3. active[j].held
  BY <1>1, <1>2 DEF IInv, Nested
<1> QED
  BY <1>2, <1>3, ThawedActivities

(* While nobody has robbed o, a loop over o counts in its counter. *)
LEMMA UnrobbedCounts ==
  ASSUME IInv, NEW o \in Obj, ~robbed[o]
  PROVE  frozen[o] >= Cardinality(FreezersOf(o)) + Cardinality(ForOver(o))
<1>1. /\ Cardinality(ForOver(o)) \in Nat /\ Cardinality(FreezersOf(o)) \in Nat
      /\ net[o] \in Int /\ frozen[o] \in Int
  BY CountsAreNat DEF IInv, TypeOK
<1>2. net[o] >= 0 /\ frozen[o] = net[o] + Cardinality(FreezersOf(o)) + Cardinality(ForOver(o))
  BY DEF IInv, NetOfUnrobbed, FreezeBalance
<1> QED
  BY <1>1, <1>2

(* What thawing o preserves, whoever does it; a loop over o stays held if o stays frozen. *)
LEMMA ThawStep ==
  ASSUME IInv, NEW o \in Obj, frozen' = [frozen EXCEPT ![o] = @ - 1],
         active' = Unheld(o, frozen[o] - 1), UNCHANGED <<slots, keys>>
  PROVE  /\ active' \in Seq(Activity) /\ frozen' \in [Obj -> Int]
         /\ \A x \in Obj : ForOver(x)' = ForOver(x)
         /\ \A x \in Obj : \A i \in ForOver(x) :
              active[i].held /\ (x # o \/ frozen[o] > 1) => active'[i].held
         /\ HeldIsFrozen' /\ FrozenIsStable' /\ Nested' /\ SortsArrays'
<1>1. TypeOK
  BY DEF IInv
<1>2. /\ active' \in Seq(Activity) /\ Len(active') = Len(active)
      /\ \A i \in 1..Len(active) :
           /\ active'[i].kind = active[i].kind /\ active'[i].obj = active[i].obj
           /\ active'[i].held = (active[i].held /\ ~(active[i].obj = o /\ frozen[o] - 1 <= 0))
           /\ active'[i].held => Undisturbed(active'[i]) /\ frozen'[active'[i].obj] > 0
  BY ThawedActivities
<1>3. DOMAIN active' = 1..Len(active) /\ DOMAIN active = 1..Len(active)
  BY <1>1, <1>2, LenProperties, ActiveIsSeq
<1>4. frozen[o] \in Int /\ frozen \in [Obj -> Int]
  BY <1>1, CounterTypes
<1>5. frozen' \in [Obj -> Int]
  BY <1>4
<1>6. \A x \in Obj : ForOver(x)' = ForOver(x)
  BY <1>2, <1>3 DEF ForOver
<1>7. \A x \in Obj : \A i \in ForOver(x) :
        active[i].held /\ (x # o \/ frozen[o] > 1) => active'[i].held
  <2> SUFFICES ASSUME NEW x \in Obj, NEW i \in ForOver(x), active[i].held, x # o \/ frozen[o] > 1
               PROVE  active'[i].held
    OBVIOUS
  <2>1. i \in 1..Len(active) /\ active[i].obj = x
    BY <1>3 DEF ForOver
  <2>2. ~(active[i].obj = o /\ frozen[o] - 1 <= 0)
    BY <1>4, <2>1
  <2> QED
    BY <1>2, <2>1, <2>2
<1>8. HeldIsFrozen'
  BY <1>2, <1>3 DEF HeldIsFrozen
<1>9. FrozenIsStable'
  <2>1. \A i \in 1..Len(active) : Undisturbed(active'[i]) => Undisturbed(active[i])'
    BY DEF Undisturbed
  <2> QED
    BY <1>2, <1>3, <2>1 DEF FrozenIsStable
<1>10. Nested'
  BY <1>2, <1>3, ThawedNested DEF Nested
<1>11. SortsArrays'
  BY <1>2, <1>3 DEF IInv, SortsArrays
<1> QED
  BY <1>2, <1>5, <1>6, <1>7, <1>8, <1>9, <1>10, <1>11

LEMMA DefrostInv ==
  ASSUME IInv, NEW o \in Obj, Defrost(o)
  PROVE  IInv'
<1>1. /\ TypeOK /\ FreezeBalance /\ NetOfUnrobbed /\ LoopHoldsFreeze
  BY DEF IInv
<1>2. /\ frozen' = [frozen EXCEPT ![o] = @ - 1] /\ net' = [net EXCEPT ![o] = @ - 1]
      /\ robbed' = [robbed EXCEPT ![o] = @ \/ net[o] <= 0]
      /\ active' = Unheld(o, frozen[o] - 1) /\ UNCHANGED <<slots, keys, freezer, fault>>
  BY DEF Defrost
<1>3. /\ active' \in Seq(Activity) /\ frozen' \in [Obj -> Int]
      /\ \A x \in Obj : ForOver(x)' = ForOver(x)
      /\ \A x \in Obj : \A i \in ForOver(x) :
           active[i].held /\ (x # o \/ frozen[o] > 1) => active'[i].held
      /\ HeldIsFrozen' /\ FrozenIsStable' /\ Nested' /\ SortsArrays'
  BY <1>2, ThawStep
<1>4. \A x \in Obj :
        /\ net[x] \in Int /\ frozen[x] \in Int /\ robbed[x] \in BOOLEAN
        /\ net'[x] = IF x = o THEN net[x] - 1 ELSE net[x]
        /\ frozen'[x] = IF x = o THEN frozen[x] - 1 ELSE frozen[x]
        /\ ~robbed'[x] => ~robbed[x] /\ (x = o => net[x] > 0)
  <2> SUFFICES ASSUME NEW x \in Obj
               PROVE  /\ net'[x] = IF x = o THEN net[x] - 1 ELSE net[x]
                      /\ frozen'[x] = IF x = o THEN frozen[x] - 1 ELSE frozen[x]
                      /\ ~robbed'[x] => ~robbed[x] /\ (x = o => net[x] > 0)
    BY <1>1, CounterTypes
  <2>1. /\ net[x] \in Int /\ frozen \in [Obj -> Int] /\ net \in [Obj -> Int]
        /\ robbed \in [Obj -> BOOLEAN]
    BY <1>1, CounterTypes
  <2>2. net'[x] = IF x = o THEN net[x] - 1 ELSE net[x]
    BY <1>2, <2>1
  <2>3. frozen'[x] = IF x = o THEN frozen[x] - 1 ELSE frozen[x]
    BY <1>2, <2>1
  <2>4. robbed'[x] = IF x = o THEN robbed[x] \/ net[x] <= 0 ELSE robbed[x]
    BY <1>2, <2>1
  <2>5. ~robbed'[x] => ~robbed[x] /\ (x = o => ~(net[x] <= 0))
    BY <2>4, Zenon
  <2>6. ~(net[x] <= 0) => net[x] > 0
    BY <2>1
  <2> QED
    BY <2>2, <2>3, <2>5, <2>6
<1>5. TypeOK'
  <2>1. net' \in [Obj -> Int]
    BY <1>1, <1>2, CounterTypes
  <2>2. robbed' \in [Obj -> BOOLEAN]
    BY <1>1, <1>2, CounterTypes
  <2> QED
    BY <1>1, <1>2, <1>3, <2>1, <2>2 DEF TypeOK
<1>6. FreezeBalance'
  <2> SUFFICES ASSUME NEW x \in Obj
               PROVE  frozen'[x] = net'[x] + Cardinality(FreezersOf(x)) + Cardinality(ForOver(x))
    BY <1>2, <1>3 DEF FreezeBalance, FreezersOf
  <2>1. Cardinality(FreezersOf(x)) \in Nat /\ Cardinality(ForOver(x)) \in Nat
    BY <1>1, CountsAreNat
  <2>2. frozen[x] = net[x] + Cardinality(FreezersOf(x)) + Cardinality(ForOver(x))
    BY <1>1 DEF FreezeBalance
  <2> QED
    BY <1>4, <2>1, <2>2
<1>7. NetOfUnrobbed'
  BY <1>1, <1>4 DEF NetOfUnrobbed
<1>8. LoopHoldsFreeze'
  <2> SUFFICES ASSUME NEW x \in Obj, ~robbed'[x], NEW i \in ForOver(x)
               PROVE  active'[i].held
    BY <1>3 DEF LoopHoldsFreeze
  <2>1. active[i].held
    BY <1>1, <1>4 DEF LoopHoldsFreeze
  <2>2. x = o => frozen[o] > 1
    <3> SUFFICES ASSUME x = o
                 PROVE  frozen[o] > 1
      OBVIOUS
    <3>1. net[o] > 0 /\ frozen[o] = net[o] + Cardinality(FreezersOf(o)) + Cardinality(ForOver(o))
      BY <1>1, <1>4 DEF FreezeBalance
    <3>2. Cardinality(ForOver(o)) > 0
      BY <1>1, LoopCounts
    <3>3. Cardinality(FreezersOf(o)) \in Nat /\ Cardinality(ForOver(o)) \in Nat
      BY <1>1, CountsAreNat
    <3> QED
      BY <1>4, <3>1, <3>2, <3>3
  <2> QED
    BY <1>3, <2>1, <2>2
<1> QED
  BY <1>3, <1>5, <1>6, <1>7, <1>8 DEF IInv

LEMMA DropFreezerInv ==
  ASSUME IInv, NEW f \in Freezer, DropFreezer(f)
  PROVE  IInv'
<1>1. /\ TypeOK /\ FreezeBalance /\ NetOfUnrobbed /\ LoopHoldsFreeze
  BY DEF IInv
<1>2. PICK o \in Obj :
        /\ freezer[f] = o /\ f \in FreezersOf(o)
        /\ frozen' = [frozen EXCEPT ![o] = @ - 1] /\ active' = Unheld(o, frozen[o] - 1)
        /\ freezer' = [freezer EXCEPT ![f] = NoObj]
        /\ UNCHANGED <<slots, keys, fault, net, robbed>>
  <2>1. freezer[f] \in Obj
    BY <1>1 DEF DropFreezer, TypeOK
  <2> QED
    BY <2>1 DEF DropFreezer, FreezersOf
<1>3. /\ active' \in Seq(Activity) /\ frozen' \in [Obj -> Int]
      /\ \A x \in Obj : ForOver(x)' = ForOver(x)
      /\ \A x \in Obj : \A i \in ForOver(x) :
           active[i].held /\ (x # o \/ frozen[o] > 1) => active'[i].held
      /\ HeldIsFrozen' /\ FrozenIsStable' /\ Nested' /\ SortsArrays'
  BY <1>2, ThawStep
<1>4. \A x \in Obj :
        /\ net[x] \in Int /\ frozen[x] \in Int
        /\ frozen'[x] = IF x = o THEN frozen[x] - 1 ELSE frozen[x]
  BY <1>1, <1>2, CounterTypes
<1>5. freezer \in [Freezer -> Obj \cup {NoObj}] /\ freezer' \in [Freezer -> Obj \cup {NoObj}]
  BY <1>1, <1>2 DEF TypeOK
<1>6. TypeOK'
  BY <1>1, <1>2, <1>3, <1>5 DEF TypeOK
<1>7. FreezersOf(o)' = FreezersOf(o) \ {f} /\ \A x \in Obj \ {o} : FreezersOf(x)' = FreezersOf(x)
  BY <1>2, <1>5, ConstantAssumption DEF FreezersOf
<1>8. /\ Cardinality(FreezersOf(o)') = Cardinality(FreezersOf(o)) - 1
      /\ Cardinality(FreezersOf(o)) > 0
  <2>1. IsFiniteSet(FreezersOf(o)) /\ Cardinality(FreezersOf(o)) \in Nat
    BY <1>1, CountsAreNat
  <2>2. Cardinality(FreezersOf(o)) # 0
    BY <1>2, <2>1, FS_EmptySet
  <2>3. Cardinality(FreezersOf(o) \ {f}) = Cardinality(FreezersOf(o)) - 1
    BY <1>2, <2>1, FS_RemoveElement
  <2> QED
    BY <1>7, <2>1, <2>2, <2>3
<1>9. FreezeBalance'
  <2> SUFFICES ASSUME NEW x \in Obj
               PROVE  frozen'[x] = net[x] + Cardinality(FreezersOf(x)') + Cardinality(ForOver(x))
    BY <1>2, <1>3 DEF FreezeBalance
  <2>1. Cardinality(FreezersOf(x)) \in Nat /\ Cardinality(ForOver(x)) \in Nat
    BY <1>1, CountsAreNat
  <2>2. frozen[x] = net[x] + Cardinality(FreezersOf(x)) + Cardinality(ForOver(x))
    BY <1>1 DEF FreezeBalance
  <2>3. CASE x = o
    BY <1>4, <1>8, <2>1, <2>2, <2>3
  <2>4. CASE x # o
    BY <1>4, <1>7, <2>1, <2>2, <2>4
  <2> QED
    BY <2>3, <2>4
<1>10. NetOfUnrobbed'
  BY <1>1, <1>2 DEF NetOfUnrobbed
<1>11. LoopHoldsFreeze'
  <2> SUFFICES ASSUME NEW x \in Obj, ~robbed[x], NEW i \in ForOver(x)
               PROVE  active'[i].held
    BY <1>2, <1>3 DEF LoopHoldsFreeze
  <2>1. active[i].held
    BY <1>1 DEF LoopHoldsFreeze
  <2>2. x = o => frozen[o] > 1
    <3> SUFFICES ASSUME x = o
                 PROVE  frozen[o] > 1
      OBVIOUS
    <3>1. frozen[o] >= Cardinality(FreezersOf(o)) + Cardinality(ForOver(o))
      BY UnrobbedCounts
    <3>2. Cardinality(ForOver(o)) > 0
      BY <1>1, LoopCounts
    <3>3. Cardinality(FreezersOf(o)) \in Nat /\ Cardinality(ForOver(o)) \in Nat
      BY <1>1, CountsAreNat
    <3> QED
      BY <1>4, <1>8, <3>1, <3>2, <3>3
  <2> QED
    BY <1>3, <2>1, <2>2
<1> QED
  BY <1>3, <1>6, <1>9, <1>10, <1>11 DEF IInv

-----------------------------------------------------------------------------
(* Steps that freeze. *)

LEMMA FreezeInv ==
  ASSUME IInv, NEW o \in Obj, Freeze(o)
  PROVE  IInv'
<1>1. /\ TypeOK /\ FreezeBalance /\ NetOfUnrobbed /\ LoopHoldsFreeze
      /\ HeldIsFrozen /\ Nested /\ SortsArrays /\ FrozenIsStable
  BY DEF IInv
<1>2. /\ frozen' = [frozen EXCEPT ![o] = @ + 1] /\ net' = [net EXCEPT ![o] = @ + 1]
      /\ UNCHANGED <<slots, keys, freezer, active, fault, robbed>>
  BY DEF Freeze
<1>3. /\ frozen \in [Obj -> Int] /\ net \in [Obj -> Int]
      /\ \A x \in Obj : frozen[x] \in Int /\ net[x] \in Int
  BY <1>1, CounterTypes
<1>4. frozen' \in [Obj -> Int] /\ net' \in [Obj -> Int]
  BY <1>2, <1>3
<1>5. \A x \in Obj : /\ net'[x] = IF x = o THEN net[x] + 1 ELSE net[x]
                     /\ frozen'[x] = IF x = o THEN frozen[x] + 1 ELSE frozen[x]
  BY <1>2, <1>3
<1>6. TypeOK'
  BY <1>1, <1>2, <1>4 DEF TypeOK
<1>7. FreezeBalance'
  <2> SUFFICES ASSUME NEW x \in Obj
               PROVE  frozen'[x] = net'[x] + Cardinality(FreezersOf(x)) + Cardinality(ForOver(x))
    BY <1>2 DEF FreezeBalance, FreezersOf, ForOver
  <2>1. Cardinality(FreezersOf(x)) \in Nat /\ Cardinality(ForOver(x)) \in Nat
    BY <1>1, CountsAreNat
  <2>2. frozen[x] = net[x] + Cardinality(FreezersOf(x)) + Cardinality(ForOver(x))
    BY <1>1 DEF FreezeBalance
  <2> QED
    BY <1>3, <1>5, <2>1, <2>2
<1>8. NetOfUnrobbed'
  <2> SUFFICES ASSUME NEW x \in Obj, ~robbed[x]
               PROVE  net'[x] >= 0
    BY <1>2 DEF NetOfUnrobbed
  <2>1. net[x] >= 0
    BY <1>1 DEF NetOfUnrobbed
  <2> QED
    BY <1>3, <1>5, <2>1
<1>9. LoopHoldsFreeze'
  BY <1>1, <1>2 DEF LoopHoldsFreeze, ForOver
<1>10. HeldIsFrozen'
  <2> SUFFICES ASSUME NEW i \in DOMAIN active, active[i].held
               PROVE  frozen'[active[i].obj] > 0
    BY <1>2 DEF HeldIsFrozen
  <2>1. frozen[active[i].obj] > 0
    BY <1>1 DEF HeldIsFrozen
  <2>2. active[i].obj \in Obj
    BY <1>1, ActivityTypes
  <2> QED
    BY <1>3, <1>5, <2>1, <2>2
<1>11. Nested' /\ SortsArrays' /\ FrozenIsStable'
  BY <1>1, <1>2 DEF Nested, SortsArrays, FrozenIsStable, Undisturbed
<1> QED
  BY <1>6, <1>7, <1>8, <1>9, <1>10, <1>11 DEF IInv

LEMMA MakeFreezerInv ==
  ASSUME IInv, NEW f \in Freezer, NEW o \in Obj, MakeFreezer(f, o)
  PROVE  IInv'
<1>1. /\ TypeOK /\ FreezeBalance /\ NetOfUnrobbed /\ LoopHoldsFreeze
      /\ HeldIsFrozen /\ Nested /\ SortsArrays /\ FrozenIsStable
  BY DEF IInv
<1>2. /\ freezer[f] = NoObj /\ freezer' = [freezer EXCEPT ![f] = o]
      /\ frozen' = [frozen EXCEPT ![o] = @ + 1]
      /\ UNCHANGED <<slots, keys, active, fault, net, robbed>>
  BY DEF MakeFreezer
<1>3. /\ frozen \in [Obj -> Int] /\ \A x \in Obj : frozen[x] \in Int /\ net[x] \in Int
  BY <1>1, CounterTypes
<1>4. frozen' \in [Obj -> Int]
  BY <1>2, <1>3
<1>5. \A x \in Obj : frozen'[x] = IF x = o THEN frozen[x] + 1 ELSE frozen[x]
  BY <1>2, <1>3
<1>6. freezer \in [Freezer -> Obj \cup {NoObj}] /\ freezer' \in [Freezer -> Obj \cup {NoObj}]
  BY <1>1, <1>2 DEF TypeOK
<1>7. TypeOK'
  BY <1>1, <1>2, <1>4, <1>6 DEF TypeOK
<1>8. FreezersOf(o)' = FreezersOf(o) \cup {f} /\ \A x \in Obj \ {o} : FreezersOf(x)' = FreezersOf(x)
  BY <1>2, <1>6, ConstantAssumption DEF FreezersOf
<1>9. Cardinality(FreezersOf(o)') = Cardinality(FreezersOf(o)) + 1
  <2>1. IsFiniteSet(FreezersOf(o)) /\ f \notin FreezersOf(o)
    BY <1>1, <1>2, CountsAreNat, ConstantAssumption DEF FreezersOf
  <2>2. Cardinality(FreezersOf(o) \cup {f}) = Cardinality(FreezersOf(o)) + 1
    BY <2>1, FS_AddElement
  <2> QED
    BY <1>8, <2>2
<1>10. FreezeBalance'
  <2> SUFFICES ASSUME NEW x \in Obj
               PROVE  frozen'[x] = net[x] + Cardinality(FreezersOf(x)') + Cardinality(ForOver(x))
    BY <1>2 DEF FreezeBalance, ForOver
  <2>1. Cardinality(FreezersOf(x)) \in Nat /\ Cardinality(ForOver(x)) \in Nat
    BY <1>1, CountsAreNat
  <2>2. frozen[x] = net[x] + Cardinality(FreezersOf(x)) + Cardinality(ForOver(x))
    BY <1>1 DEF FreezeBalance
  <2>3. CASE x = o
    BY <1>3, <1>5, <1>9, <2>1, <2>2, <2>3
  <2>4. CASE x # o
    BY <1>3, <1>5, <1>8, <2>1, <2>2, <2>4
  <2> QED
    BY <2>3, <2>4
<1>11. NetOfUnrobbed' /\ LoopHoldsFreeze'
  BY <1>1, <1>2 DEF NetOfUnrobbed, LoopHoldsFreeze, ForOver
<1>12. HeldIsFrozen'
  <2> SUFFICES ASSUME NEW i \in DOMAIN active, active[i].held
               PROVE  frozen'[active[i].obj] > 0
    BY <1>2 DEF HeldIsFrozen
  <2>1. frozen[active[i].obj] > 0
    BY <1>1 DEF HeldIsFrozen
  <2>2. active[i].obj \in Obj
    BY <1>1, ActivityTypes
  <2> QED
    BY <1>3, <1>5, <2>1, <2>2
<1>13. Nested' /\ SortsArrays' /\ FrozenIsStable'
  BY <1>1, <1>2 DEF Nested, SortsArrays, FrozenIsStable, Undisturbed
<1> QED
  BY <1>7, <1>10, <1>11, <1>12, <1>13 DEF IInv

(* Entering a new activity over o: it is the innermost one. *)
LEMMA Entered ==
  ASSUME TypeOK, NEW k \in Activities, NEW o \in Obj, NEW held \in BOOLEAN,
         active' = Append(active, NewActivity(k, o, held))
  PROVE  /\ active' \in Seq(Activity) /\ DOMAIN active' = 1..(Len(active) + 1)
         /\ \A i \in 1..Len(active) : active'[i] = active[i]
         /\ active'[Len(active) + 1] = NewActivity(k, o, held)
<1>1. active \in Seq(Activity) /\ Len(active) \in Nat
  BY ActiveIsSeq
<1>2. Len(slots[o]) \in Nat /\ keys[o] \in SUBSET Elem
  BY LenProperties DEF TypeOK
<1>3. NewActivity(k, o, held) \in Activity
  BY <1>2 DEF NewActivity, Activity
<1>4. /\ active' \in Seq(Activity) /\ Len(active') = Len(active) + 1
      /\ \A i \in 1..Len(active) : active'[i] = active[i]
      /\ active'[Len(active) + 1] = NewActivity(k, o, held)
  BY <1>1, <1>3, AppendProperties
<1> QED
  BY <1>1, <1>4, LenProperties

(* The inner activity is held exactly when its object is frozen as it begins. *)
LEMMA EnteredHolds ==
  ASSUME IInv, NEW k \in Activities, NEW o \in Obj, NEW held \in BOOLEAN,
         active' = Append(active, NewActivity(k, o, held)),
         UNCHANGED <<slots, keys>>,
         held <=> frozen'[o] > 0, k # "for" => Kind[o] = "array",
         \A x \in Obj : frozen[x] > 0 => frozen'[x] > 0
  PROVE  HeldIsFrozen' /\ Nested' /\ SortsArrays' /\ FrozenIsStable'
<1> DEFINE n == Len(active) + 1
           new == NewActivity(k, o, held)
<1>1. TypeOK /\ HeldIsFrozen /\ Nested /\ SortsArrays /\ FrozenIsStable
  BY DEF IInv
<1>2. /\ DOMAIN active' = 1..n /\ active'[n] = new
      /\ \A i \in 1..Len(active) : active'[i] = active[i]
  BY <1>1, Entered
<1>3. Len(active) \in Nat /\ DOMAIN active = 1..Len(active)
  BY <1>1, ActiveIsSeq
<1>4. /\ new.kind = k /\ new.obj = o /\ new.held = held /\ new.stale = FALSE /\ new.rest = keys[o]
      /\ new.at = 0 /\ new.size = Len(slots[o]) /\ new.nodes = keys[o]
  BY DEF NewActivity
<1> HIDE DEF new
<1>5. \A i \in DOMAIN active' : i = n \/ (i \in DOMAIN active /\ active'[i] = active[i])
  BY <1>2, <1>3
<1>6. HeldIsFrozen'
  <2> SUFFICES ASSUME NEW i \in DOMAIN active', active'[i].held
               PROVE  frozen'[active'[i].obj] > 0
    BY DEF HeldIsFrozen
  <2>1. CASE i = n
    BY <1>2, <1>4, <2>1
  <2>2. CASE i \in DOMAIN active /\ active'[i] = active[i]
    BY <1>1, <2>2, ActivityTypes DEF HeldIsFrozen
  <2> QED
    BY <1>5, <2>1, <2>2
<1>7. Nested'
  <2> SUFFICES ASSUME NEW i \in DOMAIN active', NEW j \in DOMAIN active', i < j,
                      active'[i].obj = active'[j].obj, active'[i].held
               PROVE  active'[j].held
    BY DEF Nested
  <2>1. i \in DOMAIN active /\ active'[i] = active[i]
    BY <1>2, <1>3
  <2>2. CASE j = n
    <3>1. active[i].obj = o /\ frozen[o] > 0
      BY <1>1, <1>2, <1>4, <2>1, <2>2 DEF HeldIsFrozen
    <3> QED
      BY <1>2, <1>4, <2>2, <3>1
  <2>3. CASE j \in DOMAIN active /\ active'[j] = active[j]
    BY <1>1, <2>1, <2>3 DEF Nested
  <2> QED
    BY <1>5, <2>2, <2>3
<1>8. FrozenIsStable'
  <2> SUFFICES ASSUME NEW i \in DOMAIN active', active'[i].held
               PROVE  Undisturbed(active[i])'
    BY DEF FrozenIsStable
  <2>1. CASE i = n
    <3>1. Len(slots[o]) \in Nat
      BY <1>1, LenProperties DEF TypeOK
    <3> QED
      BY <1>2, <1>4, <2>1, <3>1 DEF Undisturbed
  <2>2. CASE i \in DOMAIN active /\ active'[i] = active[i]
    BY <1>1, <2>2 DEF FrozenIsStable, Undisturbed
  <2> QED
    BY <1>5, <2>1, <2>2
<1>9. SortsArrays'
  BY <1>1, <1>2, <1>4, <1>5 DEF SortsArrays
<1> QED
  BY <1>6, <1>7, <1>8, <1>9

LEMMA BeginForInv ==
  ASSUME IInv, NEW o \in Obj, BeginFor(o)
  PROVE  IInv'
<1> DEFINE n == Len(active) + 1
           held == frozen[o] + 1 > 0
<1>1. /\ TypeOK /\ FreezeBalance /\ NetOfUnrobbed /\ LoopHoldsFreeze
      /\ HeldIsFrozen /\ Nested /\ SortsArrays /\ FrozenIsStable
  BY DEF IInv
<1>2. /\ active' = Append(active, NewActivity("for", o, held))
      /\ frozen' = [frozen EXCEPT ![o] = @ + 1]
      /\ UNCHANGED <<slots, keys, freezer, fault, net, robbed>>
  BY DEF BeginFor
<1>3. /\ frozen \in [Obj -> Int] /\ \A x \in Obj : frozen[x] \in Int /\ net[x] \in Int
  BY <1>1, CounterTypes
<1>4. frozen' \in [Obj -> Int]
  BY <1>2, <1>3
<1>5. \A x \in Obj : frozen'[x] = IF x = o THEN frozen[x] + 1 ELSE frozen[x]
  BY <1>2, <1>3
<1>6. held \in BOOLEAN /\ (held <=> frozen'[o] > 0)
  BY <1>5
<1>7. Len(active) \in Nat /\ DOMAIN active = 1..Len(active) /\ "for" \in Activities
  BY <1>1, ActiveIsSeq DEF Activities
<1> HIDE DEF held
<1>8. /\ active' \in Seq(Activity) /\ DOMAIN active' = 1..n
      /\ \A i \in 1..Len(active) : active'[i] = active[i]
      /\ active'[n] = NewActivity("for", o, held)
  BY <1>1, <1>2, <1>6, <1>7, Entered
<1>9. active'[n].kind = "for" /\ active'[n].obj = o /\ active'[n].held = held
  BY <1>8 DEF NewActivity
<1>10. TypeOK'
  BY <1>1, <1>2, <1>4, <1>8 DEF TypeOK
<1>11. ForOver(o)' = ForOver(o) \cup {n} /\ \A x \in Obj \ {o} : ForOver(x)' = ForOver(x)
  BY <1>7, <1>8, <1>9 DEF ForOver
<1>12. Cardinality(ForOver(o)') = Cardinality(ForOver(o)) + 1
  <2>1. IsFiniteSet(ForOver(o)) /\ n \notin ForOver(o)
    <3>1. n \notin DOMAIN active
      BY <1>7
    <3> QED
      BY <1>1, <3>1, CountsAreNat DEF ForOver
  <2>2. Cardinality(ForOver(o) \cup {n}) = Cardinality(ForOver(o)) + 1
    BY <2>1, FS_AddElement
  <2> QED
    BY <1>11, <2>2
<1>13. FreezeBalance'
  <2> SUFFICES ASSUME NEW x \in Obj
               PROVE  frozen'[x] = net[x] + Cardinality(FreezersOf(x)) + Cardinality(ForOver(x)')
    BY <1>2 DEF FreezeBalance, FreezersOf
  <2>1. Cardinality(FreezersOf(x)) \in Nat /\ Cardinality(ForOver(x)) \in Nat
    BY <1>1, CountsAreNat
  <2>2. frozen[x] = net[x] + Cardinality(FreezersOf(x)) + Cardinality(ForOver(x))
    BY <1>1 DEF FreezeBalance
  <2>3. CASE x = o
    BY <1>3, <1>5, <1>12, <2>1, <2>2, <2>3
  <2>4. CASE x # o
    BY <1>3, <1>5, <1>11, <2>1, <2>2, <2>4
  <2> QED
    BY <2>3, <2>4
<1>14. NetOfUnrobbed'
  BY <1>1, <1>2 DEF NetOfUnrobbed
<1>15. LoopHoldsFreeze'
  <2> SUFFICES ASSUME NEW x \in Obj, ~robbed[x], NEW i \in ForOver(x)'
               PROVE  active'[i].held
    BY <1>2 DEF LoopHoldsFreeze
  <2>1. CASE i = n
    <3>1. x = o
      BY <1>9, <2>1 DEF ForOver
    <3>2. frozen[o] >= Cardinality(FreezersOf(o)) + Cardinality(ForOver(o))
      BY <3>1, UnrobbedCounts
    <3>3. Cardinality(FreezersOf(o)) \in Nat /\ Cardinality(ForOver(o)) \in Nat
      BY <1>1, CountsAreNat
    <3>4. held
      BY <1>3, <3>2, <3>3 DEF held
    <3> QED
      BY <1>9, <2>1, <3>4
  <2>2. CASE i # n
    <3>1. i \in ForOver(x) /\ i \in 1..Len(active)
      BY <1>7, <1>8, <2>2 DEF ForOver
    <3> QED
      BY <1>1, <1>8, <3>1 DEF LoopHoldsFreeze
  <2> QED
    BY <2>1, <2>2
<1>16. HeldIsFrozen' /\ Nested' /\ SortsArrays' /\ FrozenIsStable'
  <2>1. \A x \in Obj : frozen[x] > 0 => frozen'[x] > 0
    BY <1>3, <1>5
  <2> QED
    BY <1>2, <1>6, <1>7, <2>1, EnteredHolds
<1> QED
  BY <1>10, <1>13, <1>14, <1>15, <1>16 DEF IInv

LEMMA BeginSortInv ==
  ASSUME IInv, NEW k \in Activities, NEW o \in Obj, BeginSort(k, o)
  PROVE  IInv'
<1> DEFINE n == Len(active) + 1
           held == frozen[o] > 0
<1>1. /\ TypeOK /\ FreezeBalance /\ NetOfUnrobbed /\ LoopHoldsFreeze
  BY DEF IInv
<1>2. /\ active' = Append(active, NewActivity(k, o, held)) /\ k # "for" /\ Kind[o] = "array"
      /\ UNCHANGED <<slots, keys, frozen, freezer, fault, net, robbed>>
  BY DEF BeginSort
<1>3. Len(active) \in Nat /\ DOMAIN active = 1..Len(active)
  BY <1>1, ActiveIsSeq
<1>4. held \in BOOLEAN /\ (held <=> frozen'[o] > 0)
  BY <1>2
<1> HIDE DEF held
<1>5. /\ active' \in Seq(Activity) /\ DOMAIN active' = 1..n
      /\ \A i \in 1..Len(active) : active'[i] = active[i]
      /\ active'[n] = NewActivity(k, o, held)
  BY <1>1, <1>2, <1>4, Entered
<1>6. \A x \in Obj : ForOver(x)' = ForOver(x)
  <2>1. active'[n].kind # "for"
    BY <1>2, <1>5 DEF NewActivity
  <2> QED
    BY <1>3, <1>5, <2>1 DEF ForOver
<1>7. TypeOK'
  BY <1>1, <1>2, <1>5 DEF TypeOK
<1>8. FreezeBalance' /\ NetOfUnrobbed'
  BY <1>1, <1>2, <1>6 DEF FreezeBalance, FreezersOf, NetOfUnrobbed
<1>9. LoopHoldsFreeze'
  <2> SUFFICES ASSUME NEW x \in Obj, ~robbed[x], NEW i \in ForOver(x)
               PROVE  active'[i].held
    BY <1>2, <1>6 DEF LoopHoldsFreeze
  <2>1. i \in 1..Len(active) /\ active[i].held
    BY <1>1, <1>3 DEF LoopHoldsFreeze, ForOver
  <2> QED
    BY <1>5, <2>1
<1>10. HeldIsFrozen' /\ Nested' /\ SortsArrays' /\ FrozenIsStable'
  BY <1>2, <1>4, EnteredHolds
<1> QED
  BY <1>7, <1>8, <1>9, <1>10 DEF IInv

-----------------------------------------------------------------------------
(* Steps of the innermost activity. *)

\* The innermost activity.
LEMMA InnermostType ==
  ASSUME TypeOK, active # << >>
  PROVE  /\ Len(active) \in DOMAIN active /\ Top \in Activity /\ Top.obj \in Obj
         /\ Len(active) > 0
<1>1. Len(active) \in Nat /\ DOMAIN active = 1..Len(active) /\ Len(active) > 0
  BY ActiveIsSeq, EmptySeq
<1> QED
  BY <1>1, ActivityTypes DEF Top

(* Leaving the innermost activity: what the others say is what `rest` says of them. *)
LEMMA LeftNested ==
  ASSUME IInv, active # << >>, NEW rest \in Seq(Activity), Len(rest) = Len(active),
         active' = Front(rest), UNCHANGED keys, frozen' \in [Obj -> Int],
         \A i \in 1..Len(active) :
           /\ rest[i].kind = active[i].kind /\ rest[i].obj = active[i].obj
           /\ rest[i].held => frozen'[rest[i].obj] > 0 /\ Undisturbed(rest[i])
           /\ \A j \in 1..Len(active) :
                i < j /\ rest[i].obj = rest[j].obj /\ rest[i].held => rest[j].held,
         \A o \in Obj : Kind[o] = "array" => Len(slots'[o]) = Len(slots[o])
                      \/ \A i \in 1..(Len(active) - 1) : rest[i].obj = o => ~rest[i].held
  PROVE  /\ active' \in Seq(Activity) /\ DOMAIN active' = 1..(Len(active) - 1)
         /\ \A i \in 1..(Len(active) - 1) : active'[i] = rest[i]
         /\ HeldIsFrozen' /\ Nested' /\ SortsArrays' /\ FrozenIsStable'
<1>1. TypeOK /\ Len(active) \in Nat /\ Len(active) > 0
  BY InnermostType, ActiveIsSeq DEF IInv
<1>2. rest # << >>
  BY <1>1, EmptySeq
<1>3. /\ active' \in Seq(Activity) /\ DOMAIN active' = 1..(Len(active) - 1)
      /\ \A i \in 1..(Len(active) - 1) : active'[i] = rest[i]
  <2>1. /\ Front(rest) \in Seq(Activity) /\ DOMAIN Front(rest) = 1..(Len(rest) - 1)
        /\ \A i \in 1..(Len(rest) - 1) : Front(rest)[i] = rest[i]
    BY <1>2, FrontProperties
  <2> QED
    BY <2>1
<1>4. \A i \in 1..(Len(active) - 1) : i \in 1..Len(active)
  BY <1>1
<1>5. HeldIsFrozen'
  BY <1>3, <1>4 DEF HeldIsFrozen
<1>6. Nested'
  <2> SUFFICES ASSUME NEW i \in DOMAIN active', NEW j \in DOMAIN active', i < j,
                      active'[i].obj = active'[j].obj, active'[i].held
               PROVE  active'[j].held
    BY DEF Nested
  <2>1. /\ i \in 1..Len(active) /\ j \in 1..Len(active)
        /\ active'[i] = rest[i] /\ active'[j] = rest[j]
    BY <1>3, <1>4
  <2> QED
    BY <2>1
<1>7. FrozenIsStable'
  <2> SUFFICES ASSUME NEW i \in DOMAIN active', active'[i].held
               PROVE  Undisturbed(active[i])'
    BY DEF FrozenIsStable
  <2>1. active'[i] = rest[i] /\ Undisturbed(rest[i]) /\ i \in 1..(Len(active) - 1)
    BY <1>3, <1>4
  <2>2. rest[i].obj \in Obj
    BY <1>1, <1>4, <2>1, ActivityTypes, ActiveIsSeq
  <2>3. Kind[rest[i].obj] = "array" => Len(slots'[rest[i].obj]) = Len(slots[rest[i].obj])
    BY <2>1, <2>2
  <2> QED
    BY <2>1, <2>3 DEF Undisturbed
<1>8. SortsArrays'
  <2> SUFFICES ASSUME NEW i \in DOMAIN active', active'[i].kind # "for"
               PROVE  Kind[active'[i].obj] = "array"
    BY DEF SortsArrays
  <2>1. i \in DOMAIN active /\ i \in 1..Len(active) /\ active'[i] = rest[i]
    BY <1>1, <1>3, <1>4, ActiveIsSeq
  <2>2. active[i].kind # "for" /\ active'[i].obj = active[i].obj
    BY <2>1
  <2> QED
    BY <2>1, <2>2 DEF IInv, SortsArrays
<1> QED
  BY <1>3, <1>5, <1>6, <1>7, <1>8

LEMMA EndForInv ==
  ASSUME IInv, EndFor
  PROVE  IInv'
<1>1. /\ TypeOK /\ FreezeBalance /\ NetOfUnrobbed /\ LoopHoldsFreeze
  BY DEF IInv
<1>2. PICK o \in Obj :
        /\ o = Top.obj /\ Top.kind = "for" /\ active # << >>
        /\ active' = Front(Unheld(o, frozen[o] - 1)) /\ frozen' = [frozen EXCEPT ![o] = @ - 1]
        /\ UNCHANGED <<slots, keys, freezer, fault, net, robbed>>
  BY <1>1, InnermostType DEF EndFor, Looping
<1>n. PICK n : n = Len(active)
  OBVIOUS
<1> DEFINE U == Unheld(o, frozen[o] - 1)
<1>3. /\ o \in Obj /\ n \in DOMAIN active /\ n \in Nat /\ n > 0 /\ DOMAIN active = 1..n
      /\ n \in ForOver(o)
  BY <1>1, <1>2, <1>n, InnermostType, ActiveIsSeq DEF ForOver, Top
<1>4. /\ frozen \in [Obj -> Int] /\ \A x \in Obj : frozen[x] \in Int /\ net[x] \in Int
  BY <1>1, <1>3, CounterTypes
<1>5. frozen' \in [Obj -> Int]
  BY <1>2, <1>3, <1>4
<1>6. \A x \in Obj : frozen'[x] = IF x = o THEN frozen[x] - 1 ELSE frozen[x]
  BY <1>2, <1>3, <1>4
<1>7. /\ U \in Seq(Activity) /\ Len(U) = n
      /\ \A i \in 1..n :
           /\ U[i].kind = active[i].kind /\ U[i].obj = active[i].obj
           /\ U[i].held = (active[i].held /\ ~(active[i].obj = o /\ frozen[o] - 1 <= 0))
           /\ U[i].held => Undisturbed(U[i]) /\ frozen'[U[i].obj] > 0
  BY <1>2, <1>3, <1>n, ThawedActivities
<1>8. \A i, j \in 1..n : i < j /\ U[i].obj = U[j].obj /\ U[i].held => U[j].held
  BY <1>3, <1>7, <1>n, ThawedNested
<1> HIDE DEF U
<1>9. /\ active' \in Seq(Activity) /\ DOMAIN active' = 1..(n - 1)
      /\ \A i \in 1..(n - 1) : active'[i] = U[i]
      /\ HeldIsFrozen' /\ Nested' /\ SortsArrays' /\ FrozenIsStable'
  <2>1. active' = Front(U)
    BY <1>2 DEF U
  <2>2. \A i \in 1..Len(active) :
          /\ U[i].kind = active[i].kind /\ U[i].obj = active[i].obj
          /\ U[i].held => frozen'[U[i].obj] > 0 /\ Undisturbed(U[i])
          /\ \A j \in 1..Len(active) :
               i < j /\ U[i].obj = U[j].obj /\ U[i].held => U[j].held
    BY <1>7, <1>8, <1>n
  <2>3. U \in Seq(Activity) /\ Len(U) = Len(active)
    BY <1>7, <1>n
  <2>4. /\ active' \in Seq(Activity) /\ DOMAIN active' = 1..(Len(active) - 1)
        /\ \A i \in 1..(Len(active) - 1) : active'[i] = U[i]
        /\ HeldIsFrozen' /\ Nested' /\ SortsArrays' /\ FrozenIsStable'
    BY <1>2, <1>5, <2>1, <2>2, <2>3, LeftNested
  <2> QED
    BY <1>n, <2>4
<1>10. TypeOK'
  BY <1>1, <1>2, <1>5, <1>9 DEF TypeOK
<1>11. ForOver(o)' = ForOver(o) \ {n} /\ \A x \in Obj \ {o} : ForOver(x)' = ForOver(x)
  <2>1. \A i : i \in DOMAIN active' <=> i \in DOMAIN active /\ i # n
    BY <1>3, <1>9
  <2>2. \A i \in DOMAIN active' : active'[i].kind = active[i].kind /\ active'[i].obj = active[i].obj
    BY <1>3, <1>7, <1>9
  <2>3. \A x, i : i \in ForOver(x)' <=> i \in ForOver(x) /\ i # n
    BY <2>1, <2>2 DEF ForOver
  <2>4. \A x \in Obj \ {o} : n \notin ForOver(x)
    BY <1>3 DEF ForOver
  <2> QED
    BY <2>3, <2>4
<1>12. Cardinality(ForOver(o)') = Cardinality(ForOver(o)) - 1
  <2>1. IsFiniteSet(ForOver(o))
    BY <1>1, <1>3, CountsAreNat
  <2>2. Cardinality(ForOver(o) \ {n}) = Cardinality(ForOver(o)) - 1
    BY <1>3, <2>1, FS_RemoveElement
  <2> QED
    BY <1>11, <2>2
<1>13. FreezeBalance'
  <2> SUFFICES ASSUME NEW x \in Obj
               PROVE  frozen'[x] = net[x] + Cardinality(FreezersOf(x)) + Cardinality(ForOver(x)')
    BY <1>2 DEF FreezeBalance, FreezersOf
  <2>1. Cardinality(FreezersOf(x)) \in Nat /\ Cardinality(ForOver(x)) \in Nat
    BY <1>1, CountsAreNat
  <2>2. frozen[x] = net[x] + Cardinality(FreezersOf(x)) + Cardinality(ForOver(x))
    BY <1>1 DEF FreezeBalance
  <2>3. CASE x = o
    BY <1>3, <1>4, <1>6, <1>12, <2>1, <2>2, <2>3
  <2>4. CASE x # o
    BY <1>4, <1>6, <1>11, <2>1, <2>2, <2>4
  <2> QED
    BY <2>3, <2>4
<1>14. NetOfUnrobbed'
  BY <1>1, <1>2 DEF NetOfUnrobbed
<1>15. LoopHoldsFreeze'
  <2> SUFFICES ASSUME NEW x \in Obj, ~robbed[x], NEW i \in ForOver(x)'
               PROVE  active'[i].held
    BY <1>2 DEF LoopHoldsFreeze
  <2>1. i \in ForOver(x) /\ i \in 1..n /\ active'[i] = U[i]
    <3>1. i \in DOMAIN active'
      BY DEF ForOver
    <3>2. i \in ForOver(x)
      BY <1>11
    <3> QED
      BY <1>3, <1>9, <3>1, <3>2
  <2>2. active[i].held /\ active[i].obj = x
    BY <1>1, <2>1 DEF LoopHoldsFreeze, ForOver
  <2>3. x = o => frozen[o] > 1
    <3> SUFFICES ASSUME x = o
                 PROVE  frozen[o] > 1
      OBVIOUS
    <3>1. frozen[o] >= Cardinality(FreezersOf(o)) + Cardinality(ForOver(o))
      BY UnrobbedCounts
    <3>2. Cardinality(ForOver(o) \ {n}) # 0
      <4>1. IsFiniteSet(ForOver(o) \ {n})
        BY <1>1, <1>3, CountsAreNat, FS_RemoveElement
      <4>2. i \in ForOver(o) \ {n}
        BY <1>11
      <4> QED
        BY <4>1, <4>2, FS_EmptySet
    <3>3. Cardinality(FreezersOf(o)) \in Nat /\ Cardinality(ForOver(o)) \in Nat
      BY <1>1, CountsAreNat
    <3>4. Cardinality(ForOver(o)) > 0
      BY <1>1, <1>3, LoopCounts
    <3> QED
      BY <1>3, <1>4, <1>11, <1>12, <3>1, <3>2, <3>3, <3>4
  <2>4. ~(active[i].obj = o /\ frozen[o] - 1 <= 0)
    BY <1>3, <1>4, <2>2, <2>3
  <2> QED
    BY <1>7, <2>1, <2>2, <2>4
<1> QED
  BY <1>9, <1>10, <1>13, <1>14, <1>15 DEF IInv

LEMMA NextElementInv ==
  ASSUME IInv, NextElement
  PROVE  IInv'
<1> DEFINE n == Len(active)
<1>1. TypeOK /\ HoldInv /\ FrozenIsStable
  BY DEF IInv, HoldInv
<1>2. /\ active # << >> /\ IsValid(Top) /\ UNCHANGED <<slots, keys, frozen, freezer, net, robbed>>
  BY DEF NextElement, Looping
<1>3. /\ n \in DOMAIN active /\ Top \in Activity /\ Top.obj \in Obj /\ active[n] = Top
      /\ active \in Seq(Activity) /\ n \in Nat /\ DOMAIN active = 1..n
  BY <1>1, <1>2, InnermostType, ActiveIsSeq DEF Top
<1>4. CASE fault' \in {"null element", "dangling"} /\ UNCHANGED active
  <2>1. TypeOK'
    BY <1>1, <1>2, <1>4 DEF TypeOK
  <2> QED
    BY <1>1, <1>2, <1>4, <2>1 DEF IInv, FreezeBalance, NetOfUnrobbed, LoopHoldsFreeze, HeldIsFrozen,
       Nested, SortsArrays, FrozenIsStable, Undisturbed, ForOver, FreezersOf
<1>5. ASSUME NEW next \in Activity, active' = [active EXCEPT ![n] = next], UNCHANGED fault,
             SameHold(next, Top), Top.held => Undisturbed(next)
      PROVE  IInv'
  <2>1. /\ active' \in Seq(Activity) /\ Len(active') = n
        /\ \A i \in 1..n : active'[i] = IF i = n THEN next ELSE active[i]
    BY <1>3, <1>5, ExceptSeq
  <2>2. TypeOK'
    BY <1>1, <1>2, <1>5, <2>1 DEF TypeOK
  <2>3. \A i \in 1..n : SameHold(active'[i], active[i])
    BY <1>3, <1>5, <2>1 DEF SameHold
  <2>4. HoldInv'
    BY <1>1, <1>2, <2>1, <2>3, HoldInvKept
  <2>5. FrozenIsStable'
    <3> SUFFICES ASSUME NEW i \in DOMAIN active', active'[i].held
                 PROVE  Undisturbed(active[i])'
      BY DEF FrozenIsStable
    <3>1. i \in 1..n
      BY <2>1, LenProperties
    <3>2. active[i].held
      BY <2>3, <3>1 DEF SameHold
    <3>3. Undisturbed(active'[i])
      BY <1>1, <1>3, <1>5, <2>1, <3>1, <3>2 DEF FrozenIsStable
    <3> QED
      BY <1>2, <3>3 DEF Undisturbed
  <2> QED
    BY <2>2, <2>4, <2>5 DEF IInv, HoldInv
<1>6. CASE /\ Sequential(Top.obj) /\ UNCHANGED fault
           /\ active' = [active EXCEPT ![Len(active)].at = @ + 1]
  <2> DEFINE next == [Top EXCEPT !.at = @ + 1]
  <2>1. next \in Activity /\ SameHold(next, Top) /\ next.obj = Top.obj /\ next.at = Top.at + 1
        /\ next.size = Top.size
    <3>1. Top.at \in Nat
      BY <1>3 DEF Activity
    <3>2. Top.at + 1 \in Nat /\ next = [Top EXCEPT !.at = Top.at + 1]
      BY <3>1
    <3> HIDE DEF next
    <3>3. next \in Activity
      BY <1>3, <3>2 DEF Activity
    <3>4. next.obj = Top.obj /\ next.at = Top.at + 1 /\ next.size = Top.size
      BY <1>3, <3>2 DEF Activity
    <3>5. next.kind = Top.kind /\ next.held = Top.held
      BY <1>3, <3>2 DEF Activity
    <3> QED
      BY <3>3, <3>4, <3>5 DEF SameHold
  <2>2. active' = [active EXCEPT ![n] = next]
    BY <1>3, <1>6 DEF Top
  <2>3. Top.held => Undisturbed(next)
    <3> SUFFICES ASSUME Top.held
                 PROVE  Undisturbed(next)
      OBVIOUS
    <3>1. Undisturbed(Top)
      BY <1>1, <1>3 DEF FrozenIsStable
    <3>2. Top.at < Len(slots[Top.obj]) /\ Kind[Top.obj] # "set"
      BY <1>2, <1>6 DEF IsValid, Sequential
    <3>3. Len(slots[Top.obj]) \in Nat /\ Top.at \in Nat
      BY <1>1, <1>3, LenProperties DEF TypeOK, Activity
    <3> QED
      BY <2>1, <3>1, <3>2, <3>3 DEF Undisturbed
  <2> HIDE DEF next
  <2> QED
    BY <1>5, <1>6, <2>1, <2>2, <2>3
<1>7. CASE /\ ~Sequential(Top.obj) /\ UNCHANGED fault
           /\ \E k \in Top.rest : active' = [active EXCEPT ![Len(active)].rest = @ \ {k}]
  <2>1. PICK k \in Top.rest : active' = [active EXCEPT ![Len(active)].rest = @ \ {k}]
    BY <1>7
  <2> DEFINE next == [Top EXCEPT !.rest = @ \ {k}]
  <2>2. /\ next \in Activity /\ SameHold(next, Top) /\ next.obj = Top.obj
        /\ next.rest = Top.rest \ {k} /\ next.nodes = Top.nodes /\ next.stale = Top.stale
    BY <1>3 DEF Activity, SameHold
  <2>3. active' = [active EXCEPT ![n] = next]
    BY <1>3, <2>1 DEF Top
  <2>4. Top.held => Undisturbed(next)
    <3> SUFFICES ASSUME Top.held
                 PROVE  Undisturbed(next)
      OBVIOUS
    <3>1. Undisturbed(Top)
      BY <1>1, <1>3 DEF FrozenIsStable
    <3>2. Kind[Top.obj] # "array"
      BY <1>7 DEF Sequential
    <3> QED
      BY <2>2, <3>1, <3>2 DEF Undisturbed
  <2> HIDE DEF next
  <2> QED
    BY <1>5, <1>7, <2>2, <2>3, <2>4
<1> QED
  BY <1>4, <1>6, <1>7 DEF NextElement

LEMMA CompareInv ==
  ASSUME IInv, Compare
  PROVE  IInv'
<1>1. /\ UNCHANGED <<slots, keys, frozen, freezer, active, net, robbed>>
      /\ fault' \in {"dangling", "out of bounds", "null element"}
  BY DEF Compare
<1>2. TypeOK'
  BY <1>1 DEF IInv, TypeOK
<1> QED
  BY <1>1, <1>2 DEF IInv, FreezeBalance, NetOfUnrobbed, LoopHoldsFreeze, HeldIsFrozen,
     Nested, SortsArrays, FrozenIsStable, Undisturbed, ForOver, FreezersOf

(* A sort that ends, or fails, leaves the loops and the counters as they are. *)
LEMMA LeftSort ==
  ASSUME IInv, Sorting, NEW rest \in Seq(Activity), Len(rest) = Len(active),
         active' = Front(rest), UNCHANGED <<keys, frozen, freezer, net, robbed>>,
         slots' \in [Obj -> Seq(Slot)], fault' = fault,
         \A i \in 1..Len(active) :
           /\ SameWalk(rest[i], active[i])
           /\ Kind[active[i].obj] = "set" => rest[i] = active[i],
         \A o \in Obj : Kind[o] = "array" => Len(slots'[o]) = Len(slots[o])
                      \/ \A i \in 1..(Len(active) - 1) : active[i].obj = o => ~active[i].held
  PROVE  IInv'
<1>1. /\ TypeOK /\ FreezeBalance /\ NetOfUnrobbed /\ LoopHoldsFreeze
      /\ HeldIsFrozen /\ Nested /\ SortsArrays /\ FrozenIsStable
  BY DEF IInv
<1>2. PICK n : n = Len(active)
  OBVIOUS
<1>3. /\ active # << >> /\ n \in Nat /\ n > 0 /\ DOMAIN active = 1..n /\ active[n].kind # "for"
      /\ frozen' \in [Obj -> Int]
  BY <1>1, <1>2, InnermostType, ActiveIsSeq, CounterTypes DEF Sorting, Top, TypeOK
<1>4. ASSUME NEW i \in 1..n
      PROVE  /\ rest[i].kind = active[i].kind /\ rest[i].obj = active[i].obj
             /\ rest[i].held = active[i].held
             /\ rest[i].held => frozen'[rest[i].obj] > 0 /\ Undisturbed(rest[i])
  <2>1. SameWalk(rest[i], active[i])
    BY <1>2, <1>4
  <2>2. ASSUME active[i].held PROVE frozen[active[i].obj] > 0 /\ Undisturbed(active[i])
    BY <1>1, <1>3, <1>4, <2>2 DEF HeldIsFrozen, FrozenIsStable
  <2>3. ASSUME Undisturbed(active[i]) PROVE Undisturbed(rest[i])
    BY <1>2, <1>4, <2>1, <2>3 DEF Undisturbed, SameWalk
  <2> QED
    BY <2>1, <2>2, <2>3 DEF SameWalk
<1>5. \A i, j \in 1..n : i < j /\ rest[i].obj = rest[j].obj /\ rest[i].held => rest[j].held
  BY <1>1, <1>3, <1>4 DEF Nested
<1>6. \A i \in 1..(n - 1) : rest[i].obj = active[i].obj /\ rest[i].held = active[i].held
  BY <1>3, <1>4
<1>7. /\ active' \in Seq(Activity) /\ DOMAIN active' = 1..(n - 1)
      /\ \A i \in 1..(n - 1) : active'[i] = rest[i]
      /\ HeldIsFrozen' /\ Nested' /\ SortsArrays' /\ FrozenIsStable'
  <2>1. \A o \in Obj : Kind[o] = "array" => Len(slots'[o]) = Len(slots[o])
                      \/ \A i \in 1..(Len(active) - 1) : rest[i].obj = o => ~rest[i].held
    BY <1>2, <1>6
  <2>2. \A i \in 1..Len(active) :
          /\ rest[i].kind = active[i].kind /\ rest[i].obj = active[i].obj
          /\ rest[i].held => frozen'[rest[i].obj] > 0 /\ Undisturbed(rest[i])
          /\ \A j \in 1..Len(active) :
               i < j /\ rest[i].obj = rest[j].obj /\ rest[i].held => rest[j].held
    BY <1>2, <1>4, <1>5
  <2>3. /\ active' \in Seq(Activity) /\ DOMAIN active' = 1..(Len(active) - 1)
        /\ \A i \in 1..(Len(active) - 1) : active'[i] = rest[i]
        /\ HeldIsFrozen' /\ Nested' /\ SortsArrays' /\ FrozenIsStable'
    BY <1>3, <2>1, <2>2, LeftNested
  <2> QED
    BY <1>2, <2>3
<1>8. \A x \in Obj : ForOver(x)' = ForOver(x)
  <2>1. \A i : i \in DOMAIN active' <=> i \in DOMAIN active /\ i # n
    BY <1>3, <1>7
  <2>2. \A i \in DOMAIN active' : active'[i].kind = active[i].kind /\ active'[i].obj = active[i].obj
    BY <1>3, <1>4, <1>7
  <2> SUFFICES ASSUME NEW x \in Obj
               PROVE  ForOver(x)' = ForOver(x)
    OBVIOUS
  <2>3. \A i : i \in ForOver(x)' <=> i \in ForOver(x) /\ i # n
    BY <2>1, <2>2 DEF ForOver
  <2>4. n \notin ForOver(x)
    BY <1>3 DEF ForOver
  <2>5. \A i : i \in ForOver(x)' <=> i \in ForOver(x)
    BY <2>3, <2>4
  <2> QED
    BY <2>5
<1>9. TypeOK'
  BY <1>1, <1>7 DEF TypeOK
<1>10. FreezeBalance' /\ NetOfUnrobbed'
  BY <1>1, <1>8 DEF FreezeBalance, FreezersOf, NetOfUnrobbed
<1>11. LoopHoldsFreeze'
  <2> SUFFICES ASSUME NEW x \in Obj, ~robbed[x], NEW i \in ForOver(x)'
               PROVE  active'[i].held
    BY DEF LoopHoldsFreeze
  <2>1. i \in DOMAIN active' /\ i \in ForOver(x)
    BY <1>8 DEF ForOver
  <2>2. active'[i].held = active[i].held
    BY <1>6, <1>7, <2>1
  <2> QED
    BY <1>1, <2>1, <2>2 DEF LoopHoldsFreeze
<1> QED
  BY <1>7, <1>9, <1>10, <1>11 DEF IInv

LEMMA FailSortInv ==
  ASSUME IInv, FailSort
  PROVE  IInv'
<1>1. active \in Seq(Activity) /\ slots' \in [Obj -> Seq(Slot)]
  BY DEF IInv, TypeOK, FailSort
<1> QED
  BY <1>1, LeftSort DEF FailSort, SameWalk

LEMMA EndSortInv ==
  ASSUME IInv, EndSort
  PROVE  IInv'
<1>1. /\ TypeOK /\ Nested /\ SortsArrays /\ FrozenIsStable
  BY DEF IInv
<1>2. PICK o \in Obj, n \in Nat :
        /\ o = Top.obj /\ n = Top.size /\ Sorting
        /\ Kind[o] = "array"
        /\ UNCHANGED <<keys, frozen, freezer, net, robbed>>
  <2>1. active # << >> /\ Top.kind # "for"
    BY DEF EndSort, Sorting
  <2>2. Top.obj \in Obj /\ Top.size \in Nat
    BY <1>1, <2>1, InnermostType DEF Activity
  <2>3. Kind[Top.obj] = "array"
    BY <1>1, <2>1, InnermostType DEF SortsArrays, Top
  <2> QED
    BY <2>2, <2>3 DEF EndSort
<1>3. /\ slots \in [Obj -> Seq(Slot)] /\ slots[o] \in Seq(Slot) /\ Len(slots[o]) \in Nat
      /\ active \in Seq(Activity)
  BY <1>1, LenProperties DEF TypeOK
<1>4. CASE active' = Front(active) /\ UNCHANGED <<slots, fault>>
  BY <1>2, <1>3, <1>4, LeftSort DEF SameWalk
<1>5. CASE fault' = "out of bounds" /\ UNCHANGED <<slots, active>>
  <2>1. TypeOK'
    BY <1>1, <1>2, <1>5 DEF TypeOK
  <2> QED
    BY <1>2, <1>5, <2>1 DEF IInv, FreezeBalance, NetOfUnrobbed, LoopHoldsFreeze, HeldIsFrozen,
       Nested, SortsArrays, FrozenIsStable, Undisturbed, ForOver, FreezersOf
<1>6. CASE /\ Len(slots[o]) >= n
           /\ \E p \in Orderings(n) : slots' = [slots EXCEPT ![o] = Arranged(@, p)]
           /\ active' = Front(Scanned(o, TRUE)) /\ UNCHANGED fault
  <2>1. PICK p \in Orderings(n) : slots' = [slots EXCEPT ![o] = Arranged(slots[o], p)]
    BY <1>6
  <2>2. Arranged(slots[o], p) \in Seq(Slot) /\ Len(Arranged(slots[o], p)) = n
    <3>1. n \in 0..Len(slots[o])
      BY <1>2, <1>3, <1>6
    <3> QED
      BY <1>3, <3>1, ArrangedProperties
  <2>3. /\ slots' \in [Obj -> Seq(Slot)] /\ slots'[o] = Arranged(slots[o], p)
        /\ \A x \in Obj \ {o} : slots'[x] = slots[x]
    BY <1>1, <2>1, <2>2, OneSlots
  <2>4. /\ Scanned(o, TRUE) \in Seq(Activity) /\ Len(Scanned(o, TRUE)) = Len(active)
        /\ \A i \in 1..Len(active) :
             /\ SameWalk(Scanned(o, TRUE)[i], active[i])
             /\ active[i].obj # o => Scanned(o, TRUE)[i] = active[i]
    BY <1>3, ScannedProperties
  <2>5. \A i \in 1..Len(active) : Kind[active[i].obj] = "set" => Scanned(o, TRUE)[i] = active[i]
    BY <1>2, <2>4
  <2>6. ASSUME NEW i \in 1..(Len(active) - 1), active[i].obj = o, active[i].held
        PROVE  Len(slots[o]) = n
    <3>1. /\ Len(active) \in DOMAIN active /\ DOMAIN active = 1..Len(active)
          /\ Len(active) \in Nat
      BY <1>1, <1>2, InnermostType, ActiveIsSeq DEF Sorting
    <3>2. i \in DOMAIN active /\ i < Len(active)
      BY <3>1
    <3>3. active[Len(active)].held
      BY <1>1, <1>2, <2>6, <3>1, <3>2 DEF Nested, Top
    <3> QED
      BY <1>1, <1>2, <3>1, <3>3 DEF FrozenIsStable, Undisturbed, Top
  <2>7. \A x \in Obj : Kind[x] = "array" => Len(slots'[x]) = Len(slots[x])
                      \/ \A i \in 1..(Len(active) - 1) : active[i].obj = x => ~active[i].held
    BY <2>2, <2>3, <2>6
  <2> QED
    BY <1>2, <1>6, <2>3, <2>4, <2>5, <2>7, LeftSort
<1>7. CASE /\ slots' = [slots EXCEPT ![o] = [i \in DOMAIN @ |-> IF i <= n THEN Null ELSE @[i]]]
           /\ active' = Front(active) /\ UNCHANGED fault
  <2> DEFINE left == [i \in DOMAIN slots[o] |-> IF i <= n THEN Null ELSE slots[o][i]]
  <2>1. left \in [1..Len(slots[o]) -> Slot]
    BY <1>3, LenProperties, ElementOfSeq DEF Slot
  <2>2. left \in Seq(Slot) /\ Len(left) = Len(slots[o])
    BY <1>3, <2>1, FunctionIsSeq
  <2>3. slots' = [slots EXCEPT ![o] = left]
    BY <1>7
  <2> HIDE DEF left
  <2>4. /\ slots' \in [Obj -> Seq(Slot)] /\ slots'[o] = left
        /\ \A x \in Obj \ {o} : slots'[x] = slots[x]
    BY <1>1, <2>2, <2>3, OneSlots
  <2>5. \A x \in Obj : Len(slots'[x]) = Len(slots[x])
    BY <2>2, <2>4
  <2> QED
    BY <1>2, <1>3, <1>7, <2>4, <2>5, LeftSort DEF SameWalk
<1> QED
  BY <1>2, <1>4, <1>5, <1>6, <1>7 DEF EndSort

-----------------------------------------------------------------------------
(* The theorems. *)

LEMMA InitInv == Init => IInv
<1> SUFFICES ASSUME Init
             PROVE  IInv
  OBVIOUS
<1>1. active = << >> /\ DOMAIN active = {} /\ active \in Seq(Activity)
  BY EmptySeq, LenProperties DEF Init
<1>2. slots \in [Obj -> Seq(Slot)]
  <2>1. \A q \in Literals : q \in Seq(Slot)
    <3> SUFFICES ASSUME NEW n \in 0..MaxLen, NEW q \in [1..n -> Elem]
                 PROVE  q \in Seq(Slot)
      BY DEF Literals
    <3>1. n \in Nat /\ q \in [1..n -> Slot]
      BY ConstantAssumption DEF Slot
    <3> QED
      BY <3>1, FunctionIsSeq
  <2> QED
    BY <2>1 DEF Init
<1>3. TypeOK
  BY <1>1, <1>2 DEF Init, TypeOK
<1>4. FreezeBalance
  <2> SUFFICES ASSUME NEW o \in Obj
               PROVE  frozen[o] = net[o] + Cardinality(FreezersOf(o)) + Cardinality(ForOver(o))
    BY DEF FreezeBalance
  <2>1. ForOver(o) = {} /\ FreezersOf(o) = {}
    BY <1>1, ConstantAssumption DEF ForOver, FreezersOf, Init
  <2>2. Cardinality({}) = 0
    BY FS_EmptySet
  <2> QED
    BY <2>1, <2>2 DEF Init
<1>5. NetOfUnrobbed
  BY DEF Init, NetOfUnrobbed
<1>6. LoopHoldsFreeze /\ HeldIsFrozen /\ Nested /\ SortsArrays /\ FrozenIsStable
  BY <1>1 DEF LoopHoldsFreeze, ForOver, HeldIsFrozen, Nested, SortsArrays, FrozenIsStable
<1> QED
  BY <1>3, <1>4, <1>5, <1>6 DEF IInv

LEMMA NextInv == IInv /\ [Next]_vars => IInv'
<1> SUFFICES ASSUME IInv, [Next]_vars
             PROVE  IInv'
  OBVIOUS
<1>1. CASE Count
  BY <1>1, FreezeInv, DefrostInv, MakeFreezerInv, DropFreezerInv DEF Count
<1>2. CASE Mutate
  BY <1>2, MutateInv
<1>3. CASE Walk
  <2>1. CASE \E o \in Obj : BeginFor(o)
    BY <2>1, BeginForInv
  <2>2. CASE \E o \in Obj, k \in Activities : BeginSort(k, o)
    BY <2>2, BeginSortInv
  <2>3. CASE NextElement \/ EndFor \/ Compare \/ EndSort \/ FailSort
    BY <2>3, NextElementInv, EndForInv, CompareInv, EndSortInv, FailSortInv
  <2> QED
    BY <1>3, <2>1, <2>2, <2>3 DEF Walk
<1>4. CASE UNCHANGED vars
  BY <1>4 DEF vars, IInv, TypeOK, FreezeBalance, NetOfUnrobbed, LoopHoldsFreeze, HeldIsFrozen,
     Nested, SortsArrays, FrozenIsStable, Undisturbed, ForOver, FreezersOf
<1> QED
  BY <1>1, <1>2, <1>3, <1>4 DEF Next, Faulted

(* Every state of the program satisfies the inductive invariant. *)
THEOREM Invariance == Spec => []IInv
BY InitInv, NextInv, PTL DEF Spec

(* The variables of Freezing keep their types. *)
THEOREM TypeCorrect == Spec => []TypeOK
<1>1. IInv => TypeOK
  BY DEF IInv
<1> QED
  BY <1>1, Invariance, PTL

(* Object::frozen counts the undone freezes, the live freezers and the running loops exactly. *)
THEOREM CounterIsExact == Spec => []FreezeBalance
<1>1. IInv => FreezeBalance
  BY DEF IInv
<1> QED
  BY <1>1, Invariance, PTL

(* A loop keeps what it walks over frozen, if defrost() is not called more often than freeze(). *)
THEOREM LoopsHoldTheirFreeze == Spec => []LoopHoldsFreeze
<1>1. IInv => LoopHoldsFreeze
  BY DEF IInv
<1> QED
  BY <1>1, Invariance, PTL

(* While an array or a set stays frozen, the iterators and sorts over it stay valid. *)
THEOREM FrozenStaysStable == Spec => []FrozenIsStable
<1>1. IInv => FrozenIsStable
  BY DEF IInv
<1> QED
  BY <1>1, Invariance, PTL

=============================================================================
