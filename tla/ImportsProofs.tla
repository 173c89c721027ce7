---------------------------- MODULE ImportsProofs ---------------------------
(***************************************************************************)
(* For any programs, any modules they make and any depth of files: while   *)
(* its code runs, and after it has failed, a module is in no environment;  *)
(* an environment loads a path that goes through no built-in module at     *)
(* most once, run_once runs a file once, and what such a path names in the *)
(* session it names for good.                                              *)
(*                                                                         *)
(* The first is not inductive: a module number is used again after its     *)
(* module is destroyed, and what a step destroys is what nothing reaches.  *)
(* The invariant adds that what is free holds nothing and is held by       *)
(* nothing, that what the files that run refer to is there, and that no    *)
(* two of these files have the same module.                                *)
(*                                                                         *)
(* The rest builds on it, from the definition of Closed on.  The reason is *)
(* the shape of the modules.  Some modules are shared: those of the        *)
(* program, and what was imported into them or under the name of a built-  *)
(* in module.  Any other module is held in one place, so that the modules  *)
(* of the session, and those of each file that runs, are a tree, and the   *)
(* trees have nothing in common.  A path without the name of a built-in    *)
(* module stays in the tree it begins in.  A statement changes the tree of *)
(* the file it is in, so what a file that waits below has found out before *)
(* still holds when the code it waits for ends; and a module that replaces *)
(* one that was only defined has the same modules under the same names.    *)
(*                                                                         *)
(* Which modules are shared depends on the past, not on the state alone:   *)
(* the invariant says that there is such a set.                            *)
(***************************************************************************)
EXTENDS Imports, WellFoundedInduction, TLAPS

\* What a name can be, and the files that run.

Objects == {Nothing, Value} \cup {ModuleObject(m) : m \in Module}

Frames ==
  [kind : {"import", "define", "function", "run", "run_once"}, env : Environment,
   rest : Seq(Statements), into : Environment, name : Name \cup {""}, path : Path, old : Environment]

\* The environment of the session, or of the i-th file.
EnvAt(fs, i) == IF i = 0 THEN 0 ELSE fs[i].env

\* The file has a module of its own.
OfModule(f) == f.kind \in {"import", "define", "function"}

TypesOf(held, states, fs, counts) ==
  /\ held \in [Environment -> [Name -> Objects]]
  /\ states \in [Module -> {"free", "Unknown", "Defined", "Loaded"}]
  /\ fs \in Seq(Frames)
  /\ counts \in [Environment -> [Path -> 0..2]]

\* What is not there holds nothing, and nothing refers to it.
There(states, e) == e = 0 \/ states[e] # "free"
FreeIsEmpty(held, states, counts) ==
  \A m \in Module : states[m] = "free" => held[m] = Empty /\ counts[m] = Never
HeldAreThere(held, states) ==
  \A e \in Environment, n \in Name, m \in Module : held[e][n] = ModuleObject(m) => states[m] # "free"
RootsAreThere(states, fs) ==
  /\ \A m \in DOMAIN Provided : states[m] # "free"
  /\ \A i \in DOMAIN fs : There(states, fs[i].env) /\ There(states, fs[i].into) /\ There(states, fs[i].old)

\* The environment of a file that runs is in no other.
Unheld(held, fs) ==
  \A i \in DOMAIN fs : \A e \in Environment, n \in Name : held[e][n] # ModuleObject(fs[i].env)

\* A module that runs is new: no file below is in its environment.
Nested(fs) ==
  /\ \A i \in DOMAIN fs : ~OfModule(fs[i]) => fs[i].env = EnvAt(fs, i - 1)
  /\ \A j \in DOMAIN fs : OfModule(fs[j]) =>
       \A i \in 0 .. j - 1 : \A k \in j .. Len(fs) : EnvAt(fs, k) # EnvAt(fs, i)
  /\ \A i \in DOMAIN fs : fs[i].env \notin DOMAIN Provided
  /\ \A i \in DOMAIN fs : OfModule(fs[i]) => fs[i].name \in Name

Basic(held, states, fs, counts) ==
  /\ TypesOf(held, states, fs, counts)
  /\ FreeIsEmpty(held, states, counts)
  /\ HeldAreThere(held, states)
  /\ RootsAreThere(states, fs)
  /\ Unheld(held, fs)
  /\ Nested(fs)

-----------------------------------------------------------------------------
\* A set of numbers has a least one.
LEMMA Smallest ==
  ASSUME NEW S, S \subseteq Nat, S # {}
  PROVE  \E n \in S : \A m \in S : n <= m
<1>1. PICK n \in S : \A m \in S : ~(<<m, n>> \in OpToRel(<, Nat))
  <2> HIDE DEF OpToRel
  <2> QED
    BY NatLessThanWellFounded, WFMin
<1>2. ASSUME NEW m \in Nat, NEW k \in Nat, m < k PROVE <<m, k>> \in OpToRel(<, Nat)
  BY <1>2, Zenon DEF OpToRel
<1>3. \A m \in S : ~(m < n)
  <2> HIDE DEF OpToRel
  <2> QED
    BY <1>1, <1>2
<1>4. \A m \in S : n <= m
  BY <1>3
<1> QED
  BY <1>4

\* Induction over the naturals up to n, of what a set says.
LEMMA UpTo ==
  ASSUME NEW n \in Nat, NEW S, 1 \in S,
         ASSUME NEW i \in 1 .. n - 1, i \in S PROVE i + 1 \in S
  PROVE  1 .. n \subseteq S
<1> DEFINE T == {i \in 1 .. n : i \notin S}
<1>1. SUFFICES ASSUME T # {} PROVE FALSE
  OBVIOUS
<1>2. PICK i \in 1 .. n : i \notin S /\ \A j \in 1 .. n : j \notin S => i <= j
  <2>1. T \subseteq Nat
    OBVIOUS
  <2>2. \E i \in T : \A j \in T : i <= j
    <3> HIDE DEF T
    <3> QED
      BY <1>1, <2>1, Smallest
  <2> QED
    BY <2>2
<1>3. i # 1
  BY <1>2
<1>3a. i - 1 \in 1 .. n - 1 /\ ~(i <= i - 1) /\ i - 1 \in 1 .. n /\ (i - 1) + 1 = i
  <2> QED
    BY <1>2, <1>3, i \in 1 .. n
<1>4. i - 1 \in S
  BY <1>2, <1>3a
<1>5. (i - 1) + 1 \in S
  BY <1>3a, <1>4
<1> QED
  BY <1>2, <1>3a, <1>5

\* Modules are never the session.
LEMMA Numbers ==
  /\ Module \subseteq Environment /\ 0 \in Environment /\ 0 \notin Module
  /\ \A e \in Environment : e = 0 \/ e \in Module
  /\ DOMAIN Provided \subseteq Module
<1>1. MaxModule \in Nat /\ DOMAIN Provided \subseteq Module
  BY ConstantAssumption
<1> QED
  BY <1>1 DEF Module, Environment

\* The three kinds of objects differ, and a module object tells its module.
LEMMA Kinds ==
  /\ Nothing # Value
  /\ \A m : ModuleObject(m) # Nothing /\ ModuleObject(m) # Value
  /\ \A m, k : ModuleObject(m) = ModuleObject(k) => m = k
  /\ Nothing \in Objects /\ Value \in Objects /\ \A m \in Module : ModuleObject(m) \in Objects
  /\ \A o \in Objects : o = Nothing \/ o = Value \/ \E m \in Module : o = ModuleObject(m)
  /\ Empty \in [Name -> Objects]
  /\ \A n \in Name : Empty[n] = Nothing
<1>1. Nothing # Value
  BY DEF Nothing, Value
<1>2. ASSUME NEW m PROVE ModuleObject(m) # Nothing /\ ModuleObject(m) # Value
  BY DEF Nothing, Value, ModuleObject
<1>3. ASSUME NEW m, NEW k, ModuleObject(m) = ModuleObject(k) PROVE m = k
  BY <1>3 DEF ModuleObject
<1>4. /\ Nothing \in Objects /\ Value \in Objects /\ \A m \in Module : ModuleObject(m) \in Objects
      /\ \A o \in Objects : o = Nothing \/ o = Value \/ \E m \in Module : o = ModuleObject(m)
  BY DEF Objects
<1>5. Empty \in [Name -> Objects] /\ \A n \in Name : Empty[n] = Nothing
  BY <1>4 DEF Empty
<1> QED
  BY <1>1, <1>2, <1>3, <1>4, <1>5

-----------------------------------------------------------------------------
\* What a step leaves is what the session, the built-in modules and the files that run reach.

\* Facts about what is reached.
LEMMA ReachedSound ==
  ASSUME NEW held, NEW states, NEW roots \in SUBSET Environment,
         states \in [Module -> {"free", "Unknown", "Defined", "Loaded"}],
         HeldAreThere(held, states),
         \A e \in roots : There(states, e)
  PROVE  LET live == Reached(held, states, roots)
         IN /\ roots \subseteq live
            /\ live \subseteq Environment
            /\ \A e \in live, n \in Name, m \in Module : held[e][n] = ModuleObject(m) => m \in live
            /\ \A e \in live : There(states, e)
<1> DEFINE others == {m \in Module : states[m] # "free"} \ roots
           sets == {roots \cup some : some \in SUBSET others}
           closed == {set \in sets : \A e \in set : Held(held, e) \subseteq set}
           live == {e \in Environment : \A set \in closed : e \in set}
<1>1. live = Reached(held, states, roots)
  BY DEF Reached
<1>2. ASSUME NEW set \in sets
      PROVE  roots \subseteq set /\ set \subseteq Environment /\ \A e \in set : There(states, e)
  BY Numbers DEF There
<1>3. roots \cup others \in closed
  <2>1. roots \cup others \in sets
    OBVIOUS
  <2>2. ASSUME NEW e \in roots \cup others, NEW m \in Held(held, e)
        PROVE  m \in roots \cup others
    BY Numbers DEF Held, HeldAreThere
  <2> QED
    BY <2>1, <2>2
<1>4. ASSUME NEW e \in live, NEW n \in Name, NEW m \in Module, held[e][n] = ModuleObject(m)
      PROVE  m \in live
  BY <1>4, Numbers DEF Held
<1>5. roots \subseteq live
  BY <1>2
<1>6. \A e \in live : There(states, e)
  BY <1>2, <1>3
<1> HIDE DEF live
<1> QED
  BY <1>1, <1>4, <1>5, <1>6 DEF live

\* What these environments keep.
Keeps(live, held, states, fs, counts) ==
  /\ live \subseteq Environment /\ 0 \in live /\ DOMAIN Provided \subseteq live
  /\ \A i \in DOMAIN fs : fs[i].env \in live /\ fs[i].into \in live /\ fs[i].old \in live
  /\ \A e \in live, n \in Name, m \in Module : held[e][n] = ModuleObject(m) => m \in live
  /\ \A m \in Module : m \in live => states[m] # "free"
  /\ store' = [e \in Environment |-> IF e \in live THEN held[e] ELSE Empty]
  /\ state' = [m \in Module |-> IF m \in live THEN states[m] ELSE "free"]
  /\ loads' = [e \in Environment |-> IF e \in live THEN counts[e] ELSE Never]
  /\ stack' = fs

\* What the session, the built-in modules and the running files refer to.
LEMMA RootsOf ==
  ASSUME NEW fs, fs \in Seq(Frames)
  PROVE  /\ Roots(fs) \subseteq Environment /\ 0 \in Roots(fs) /\ DOMAIN Provided \subseteq Roots(fs)
         /\ \A i \in DOMAIN fs : /\ fs[i].env \in Roots(fs) /\ fs[i].into \in Roots(fs)
                                 /\ fs[i].old \in Roots(fs)
         /\ \A e \in Roots(fs) : \/ e = 0
                                 \/ e \in DOMAIN Provided
                                 \/ \E i \in DOMAIN fs : e \in {fs[i].env, fs[i].into, fs[i].old}
<1>1. \A i \in DOMAIN fs : /\ fs[i].env \in Environment /\ fs[i].into \in Environment
                           /\ fs[i].old \in Environment
  <2>1. \A i \in DOMAIN fs : fs[i] \in Frames
    OBVIOUS
  <2> QED
    BY <2>1 DEF Frames
<1>2. \A e : e \in Roots(fs) <=>
               \/ e = 0
               \/ e \in DOMAIN Provided
               \/ \E i \in DOMAIN fs : e \in {fs[i].env, fs[i].into, fs[i].old}
  <2> DEFINE of(i) == {fs[i].env, fs[i].into, fs[i].old}
  <2>1. ASSUME NEW e
        PROVE  e \in UNION {of(i) : i \in DOMAIN fs} <=> \E i \in DOMAIN fs : e \in of(i)
    <3> HIDE DEF of
    <3> QED
      OBVIOUS
  <2> QED
    BY <2>1 DEF Roots
<1> QED
  BY <1>1, <1>2, Numbers

\* A statement that ends keeps what is reached as it is and destroys the rest.
LEMMA BecomeKeeps ==
  ASSUME NEW held, NEW states, NEW fs, NEW r, NEW counts,
         Basic(held, states, fs, counts), Become(held, states, fs, r, counts)
  PROVE  \E live : Keeps(live, held, states, fs, counts)
<1> DEFINE live == Reached(held, states, Roots(fs))
<1>1. /\ fs \in Seq(Frames) /\ states \in [Module -> {"free", "Unknown", "Defined", "Loaded"}]
      /\ HeldAreThere(held, states)
  BY DEF Basic, TypesOf
<1>2. \A e \in Roots(fs) : There(states, e)
  BY <1>1, RootsOf DEF Basic, RootsAreThere, There
<1>3. /\ Roots(fs) \subseteq live
      /\ live \subseteq Environment
      /\ \A e \in live, n \in Name, m \in Module : held[e][n] = ModuleObject(m) => m \in live
      /\ \A e \in live : There(states, e)
  BY <1>1, <1>2, RootsOf, ReachedSound
<1>4. /\ store' = [e \in Environment |-> IF e \in live THEN held[e] ELSE Empty]
      /\ state' = [m \in Module |-> IF m \in live THEN states[m] ELSE "free"]
      /\ loads' = [e \in Environment |-> IF e \in live THEN counts[e] ELSE Never]
      /\ stack' = fs
  BY DEF Become
<1> HIDE DEF live
<1>5. \A m \in Module : m \in live => states[m] # "free"
  BY <1>3, Numbers DEF There
<1>6. /\ 0 \in live /\ DOMAIN Provided \subseteq live
      /\ \A i \in DOMAIN fs : fs[i].env \in live /\ fs[i].into \in live /\ fs[i].old \in live
  BY <1>1, <1>3, RootsOf
<1> QED
  BY <1>3, <1>4, <1>5, <1>6 DEF Keeps

\* Destroying what nothing reaches keeps the invariant.
LEMMA KeepsBasic ==
  ASSUME NEW held, NEW states, NEW fs, NEW counts, NEW live,
         Basic(held, states, fs, counts), Keeps(live, held, states, fs, counts)
  PROVE  Basic(store', state', stack', loads')
<1> USE DEF Keeps
<1>1. TypesOf(store', state', stack', loads')
  <2>1. Never \in [Path -> 0..2]
    BY DEF Never
  <2> QED
    BY <2>1, Kinds DEF Basic, TypesOf
<1>2. FreeIsEmpty(store', state', loads')
  BY Numbers DEF FreeIsEmpty
<1>3. HeldAreThere(store', state')
  BY Numbers, Kinds DEF HeldAreThere
<1>4. RootsAreThere(state', stack')
  BY Numbers DEF RootsAreThere, There, Basic
<1>5. Unheld(store', stack')
  BY Numbers, Kinds DEF Unheld, Basic
<1>6. Nested(stack')
  BY DEF Basic
<1> QED
  BY <1>1, <1>2, <1>3, <1>4, <1>5, <1>6 DEF Basic

-----------------------------------------------------------------------------
\* Files begin, go on and end.

\* The file on top ends.
Popped(fs) == SubSeq(fs, 1, Len(fs) - 1)

\* A file that ends leaves the files below it as they are.
LEMMA PopMeans ==
  ASSUME NEW fs \in Seq(Frames), fs # <<>>
  PROVE  /\ Popped(fs) \in Seq(Frames) /\ Len(Popped(fs)) = Len(fs) - 1
         /\ Len(fs) \in Nat \ {0} /\ DOMAIN fs = 1 .. Len(fs) /\ DOMAIN Popped(fs) = 1 .. Len(fs) - 1
         /\ \A i \in 1 .. Len(fs) - 1 : Popped(fs)[i] = fs[i] /\ i \in DOMAIN fs
         /\ \A i \in 0 .. Len(fs) - 1 : EnvAt(Popped(fs), i) = EnvAt(fs, i)
         /\ EnvironmentOf(Popped(fs)) = EnvAt(fs, Len(fs) - 1)
<1>1. Len(fs) \in Nat \ {0} /\ DOMAIN fs = 1 .. Len(fs)
  OBVIOUS
<1>2. Popped(fs) \in Seq(Frames) /\ Len(Popped(fs)) = Len(fs) - 1
      /\ \A i \in 1 .. Len(fs) - 1 : Popped(fs)[i] = fs[i]
  BY <1>1 DEF Popped
<1>3. DOMAIN Popped(fs) = 1 .. Len(fs) - 1
  BY <1>2
<1>4. \A i \in 1 .. Len(fs) - 1 : i \in DOMAIN fs
  BY <1>1
<1>5. \A i \in 0 .. Len(fs) - 1 : EnvAt(Popped(fs), i) = EnvAt(fs, i)
  <2>1. \A i \in 0 .. Len(fs) - 1 : i = 0 \/ i \in 1 .. Len(fs) - 1
    BY <1>1
  <2> QED
    BY <1>2, <2>1 DEF EnvAt
<1>6. EnvironmentOf(Popped(fs)) = EnvAt(fs, Len(fs) - 1)
  <2>1. CASE Len(fs) = 1
    BY <1>2, <2>1 DEF EnvironmentOf, EnvAt
  <2>2. CASE Len(fs) # 1
    <3>1. Len(fs) - 1 \in 1 .. Len(fs) - 1 /\ Popped(fs) # <<>>
      BY <1>1, <1>2, <2>2
    <3> QED
      BY <1>1, <1>2, <3>1 DEF EnvironmentOf, EnvAt
  <2> QED
    BY <2>1, <2>2
<1> QED
  BY <1>1, <1>2, <1>3, <1>4, <1>5, <1>6

\* But for the statements that are left, the files are the same.
SameFrames(gs, fs) ==
  /\ gs \in Seq(Frames) /\ Len(gs) = Len(fs)
  /\ \A i \in DOMAIN fs :
       /\ gs[i].kind = fs[i].kind /\ gs[i].env = fs[i].env /\ gs[i].into = fs[i].into
       /\ gs[i].name = fs[i].name /\ gs[i].path = fs[i].path /\ gs[i].old = fs[i].old

\* Taking a statement from a file changes nothing else of the files.
LEMMA Consumed ==
  ASSUME stack \in Seq(Frames), stack = <<>> \/ Top.rest # <<>>
  PROVE  SameFrames(Stack, stack)
<1>1. CASE stack = <<>>
  BY <1>1 DEF Stack, SameFrames
<1>2. CASE stack # <<>>
  <2>1. Len(stack) \in Nat \ {0} /\ Top \in Frames
    BY <1>2 DEF Top
  <2>2. Below \in Seq(Frames) /\ Len(Below) = Len(stack) - 1
        /\ \A i \in 1 .. Len(stack) - 1 : Below[i] = stack[i]
    BY <1>2, PopMeans DEF Below, Popped
  <2> DEFINE f == [Top EXCEPT !.rest = Tail(Top.rest)]
  <2>3. Tail(Top.rest) \in Seq(Statements)
    <3>1. Top.rest \in Seq(Statements) /\ Top.rest # <<>>
      BY <1>2, <2>1 DEF Frames
    <3> QED
      BY <3>1
  <2>4. /\ f \in Frames /\ f.kind = Top.kind /\ f.env = Top.env /\ f.into = Top.into
        /\ f.name = Top.name /\ f.path = Top.path /\ f.old = Top.old
    <3> DEFINE t == Top
    <3>1. t \in Frames
      BY <2>1
    <3> HIDE DEF t
    <3> QED
      BY <2>3, <3>1 DEF t, Frames
  <2>5. Stack = Append(Below, f)
    BY <1>2 DEF Stack
  <2> HIDE DEF f
  <2>6. Stack \in Seq(Frames) /\ Len(Stack) = Len(stack) /\ Stack[Len(stack)] = f
        /\ \A i \in 1 .. Len(stack) - 1 : Stack[i] = stack[i]
    BY <2>1, <2>2, <2>4, <2>5
  <2>7. DOMAIN stack = 1 .. Len(stack)
    OBVIOUS
  <2>8. ASSUME NEW i \in 1 .. Len(stack), i # Len(stack)
        PROVE  i \in 1 .. Len(stack) - 1
    BY <2>1, <2>8
  <2> QED
    BY <2>4, <2>6, <2>7, <2>8 DEF SameFrames, Top
<1> QED
  BY <1>1, <1>2

\* Files that differ in their statements alone run in the same environments.
LEMMA SameEnvAt ==
  ASSUME NEW fs \in Seq(Frames), NEW gs, SameFrames(gs, fs)
  PROVE  /\ DOMAIN gs = DOMAIN fs /\ DOMAIN fs = 1 .. Len(fs)
         /\ \A i \in 0 .. Len(fs) : EnvAt(gs, i) = EnvAt(fs, i)
BY DEF SameFrames, EnvAt

\* The invariant does not depend on which statements are left.
LEMMA BasicSame ==
  ASSUME NEW held, NEW states, NEW fs, NEW gs, NEW counts,
         Basic(held, states, fs, counts), SameFrames(gs, fs)
  PROVE  Basic(held, states, gs, counts)
<1>1. fs \in Seq(Frames) /\ gs \in Seq(Frames) /\ Len(gs) = Len(fs)
  BY DEF Basic, TypesOf, SameFrames
<1>2. DOMAIN gs = DOMAIN fs /\ \A i \in 0 .. Len(fs) : EnvAt(gs, i) = EnvAt(fs, i)
  BY <1>1, SameEnvAt
<1>3. TypesOf(held, states, gs, counts)
  BY <1>1 DEF Basic, TypesOf
<1>4. RootsAreThere(states, gs) /\ Unheld(held, gs)
  BY <1>1, <1>2 DEF Basic, RootsAreThere, Unheld, SameFrames
<1>5. Nested(gs)
  <2>1. \A i \in DOMAIN fs : i - 1 \in 0 .. Len(fs) /\ i \in DOMAIN gs
    BY <1>1, <1>2
  <2>2. \A i \in DOMAIN fs : OfModule(gs[i]) = OfModule(fs[i]) /\ gs[i].env = fs[i].env
    BY DEF SameFrames, OfModule
  <2>3. ASSUME NEW i \in DOMAIN gs, ~OfModule(gs[i]) PROVE gs[i].env = EnvAt(gs, i - 1)
    BY <2>1, <2>2, <2>3, <1>2 DEF Basic, Nested
  <2>4. ASSUME NEW j \in DOMAIN gs, OfModule(gs[j]), NEW i \in 0 .. j - 1, NEW k \in j .. Len(gs)
        PROVE  EnvAt(gs, k) # EnvAt(gs, i)
    <3>1. j \in DOMAIN fs /\ OfModule(fs[j]) /\ k \in j .. Len(fs)
      BY <1>1, <1>2, <2>2, <2>4
    <3>2. EnvAt(fs, k) # EnvAt(fs, i)
      BY <3>1 DEF Basic, Nested
    <3>3. i \in 0 .. Len(fs) /\ k \in 0 .. Len(fs)
      BY <1>1, <3>1
    <3> QED
      BY <1>2, <3>2, <3>3
  <2>5. \A i \in DOMAIN gs : gs[i].env \notin DOMAIN Provided
    BY <1>2, <2>2 DEF Basic, Nested
  <2>6. \A i \in DOMAIN gs : OfModule(gs[i]) => gs[i].name \in Name
    BY <1>2, <2>2 DEF Basic, Nested, SameFrames
  <2> QED
    BY <2>3, <2>4, <2>5, <2>6 DEF Nested
<1> QED
  BY <1>3, <1>4, <1>5 DEF Basic

\* The invariant holds of the files below.
LEMMA BasicPop ==
  ASSUME NEW held, NEW states, NEW fs, NEW counts, Basic(held, states, fs, counts), fs # <<>>
  PROVE  Basic(held, states, Popped(fs), counts)
<1> DEFINE gs == Popped(fs)
           n == Len(fs)
<1>1. fs \in Seq(Frames)
  BY DEF Basic, TypesOf
<1>2. /\ gs \in Seq(Frames) /\ Len(gs) = n - 1 /\ n \in Nat \ {0}
      /\ DOMAIN fs = 1 .. n /\ DOMAIN gs = 1 .. n - 1
      /\ \A i \in 1 .. n - 1 : gs[i] = fs[i] /\ i \in DOMAIN fs
      /\ \A i \in 0 .. n - 1 : EnvAt(gs, i) = EnvAt(fs, i)
  BY <1>1, PopMeans
<1> HIDE DEF gs, n
<1>3. TypesOf(held, states, gs, counts)
  BY <1>2 DEF Basic, TypesOf
<1>4. RootsAreThere(states, gs) /\ Unheld(held, gs)
  BY <1>2 DEF Basic, RootsAreThere, Unheld
<1>5. Nested(gs)
  <2>1. ASSUME NEW i \in 1 .. n - 1, ~OfModule(gs[i]) PROVE gs[i].env = EnvAt(gs, i - 1)
    <3>1. i \in DOMAIN fs /\ gs[i] = fs[i] /\ i - 1 \in 0 .. n - 1
      BY <1>2
    <3> QED
      BY <1>2, <2>1, <3>1 DEF Basic, Nested
  <2>2. ASSUME NEW j \in 1 .. n - 1, OfModule(gs[j]), NEW i \in 0 .. j - 1, NEW k \in j .. n - 1
        PROVE  EnvAt(gs, k) # EnvAt(gs, i)
    <3>1. j \in DOMAIN fs /\ OfModule(fs[j]) /\ k \in j .. Len(fs)
      BY <1>2, <2>2 DEF n
    <3>2. EnvAt(fs, k) # EnvAt(fs, i)
      BY <3>1 DEF Basic, Nested
    <3>3. i \in 0 .. n - 1 /\ k \in 0 .. n - 1
      BY <1>2, <3>1
    <3> QED
      BY <1>2, <3>2, <3>3
  <2>3. \A i \in 1 .. n - 1 : /\ gs[i].env \notin DOMAIN Provided
                              /\ OfModule(gs[i]) => gs[i].name \in Name
    BY <1>2 DEF Basic, Nested
  <2> QED
    BY <1>2, <2>1, <2>2, <2>3 DEF Nested
<1>6. Basic(held, states, gs, counts)
  BY <1>3, <1>4, <1>5 DEF Basic
<1> QED
  BY <1>6 DEF gs

\* A file begins to run.
Fresh(held, states, fs, f) ==
  /\ f.env \in Module /\ f.env \notin DOMAIN Provided /\ f.name \in Name
  /\ \A e \in Environment, n \in Name : held[e][n] # ModuleObject(f.env)
  /\ \A i \in DOMAIN fs : fs[i].env # f.env

\* A file that starts comes on top of the files that run.
LEMMA PushMeans ==
  ASSUME NEW fs \in Seq(Frames), NEW f \in Frames
  PROVE  /\ Append(fs, f) \in Seq(Frames) /\ Len(Append(fs, f)) = Len(fs) + 1 /\ Len(fs) \in Nat
         /\ DOMAIN fs = 1 .. Len(fs) /\ DOMAIN Append(fs, f) = 1 .. Len(fs) + 1
         /\ Append(fs, f)[Len(fs) + 1] = f
         /\ \A i \in 1 .. Len(fs) : Append(fs, f)[i] = fs[i]
         /\ \A i \in 0 .. Len(fs) : EnvAt(Append(fs, f), i) = EnvAt(fs, i)
         /\ EnvAt(Append(fs, f), Len(fs) + 1) = f.env
<1>1. /\ Append(fs, f) \in Seq(Frames) /\ Len(Append(fs, f)) = Len(fs) + 1 /\ Len(fs) \in Nat
      /\ DOMAIN fs = 1 .. Len(fs) /\ DOMAIN Append(fs, f) = 1 .. Len(fs) + 1
      /\ Append(fs, f)[Len(fs) + 1] = f
      /\ \A i \in 1 .. Len(fs) : Append(fs, f)[i] = fs[i]
  OBVIOUS
<1>2. \A i \in 0 .. Len(fs) : i = 0 \/ i \in 1 .. Len(fs)
  BY <1>1
<1>3. Len(fs) + 1 # 0
  BY <1>1
<1> QED
  BY <1>1, <1>2, <1>3 DEF EnvAt

\* A file may start in a module that is new or in the environment it is started from.
LEMMA BasicPush ==
  ASSUME NEW held, NEW states, NEW fs, NEW counts, Basic(held, states, fs, counts),
         NEW f \in Frames, There(states, f.env), There(states, f.into), There(states, f.old),
         \/ OfModule(f) /\ Fresh(held, states, fs, f)
         \/ ~OfModule(f) /\ f.env = EnvAt(fs, Len(fs))
  PROVE  Basic(held, states, Append(fs, f), counts)
<1> DEFINE gs == Append(fs, f)
           n == Len(fs)
<1>1. fs \in Seq(Frames)
  BY DEF Basic, TypesOf
<1>2. /\ gs \in Seq(Frames) /\ Len(gs) = n + 1 /\ n \in Nat
      /\ DOMAIN fs = 1 .. n /\ DOMAIN gs = 1 .. n + 1
      /\ gs[n + 1] = f
      /\ \A i \in 1 .. n : gs[i] = fs[i]
      /\ \A i \in 0 .. n : EnvAt(gs, i) = EnvAt(fs, i)
      /\ EnvAt(gs, n + 1) = f.env
  BY <1>1, PushMeans
<1>3. f.env = EnvAt(fs, n) => f.env = 0 \/ \E i \in DOMAIN fs : fs[i].env = f.env
  <2>1. n = 0 \/ n \in 1 .. n
    BY <1>2
  <2> QED
    BY <1>2, <2>1 DEF EnvAt
<1> HIDE DEF gs, n
<1>4. \A i \in 1 .. n + 1 : i \in 1 .. n \/ i = n + 1
  BY <1>2
<1>5. TypesOf(held, states, gs, counts)
  BY <1>2 DEF Basic, TypesOf
<1>6. RootsAreThere(states, gs)
  BY <1>2, <1>4 DEF Basic, RootsAreThere
<1>7. \A e \in Environment, k \in Name : held[e][k] # ModuleObject(f.env)
  <2>1. CASE OfModule(f)
    BY <2>1 DEF Fresh
  <2>2. CASE ~OfModule(f) /\ f.env = EnvAt(fs, n)
    <3>1. CASE f.env = 0
      <4>1. \A e \in Environment, k \in Name : held[e][k] \in Objects
        BY DEF Basic, TypesOf
      <4> QED
        BY <3>1, <4>1, Kinds, Numbers
    <3>2. CASE \E i \in DOMAIN fs : fs[i].env = f.env
      BY <3>2 DEF Basic, Unheld
    <3> QED
      BY <1>3, <2>2, <3>1, <3>2
  <2> QED
    BY <2>1, <2>2 DEF n
<1>8. Unheld(held, gs)
  BY <1>2, <1>4, <1>7 DEF Basic, Unheld
<1>9. Nested(gs)
  <2>1. ASSUME NEW i \in 1 .. n + 1, ~OfModule(gs[i]) PROVE gs[i].env = EnvAt(gs, i - 1)
    <3>1. CASE i = n + 1
      <4>1. gs[i] = f /\ EnvAt(gs, i - 1) = EnvAt(fs, n)
        <5>1. i - 1 = n /\ n \in 0 .. n
          BY <1>2, <3>1
        <5> QED
          BY <1>2, <3>1, <5>1
      <4> QED
        BY <2>1, <4>1 DEF n
    <3>2. CASE i \in 1 .. n
      <4>1. i \in DOMAIN fs /\ gs[i] = fs[i] /\ i - 1 \in 0 .. n
        BY <1>2, <3>2
      <4> QED
        BY <1>2, <2>1, <4>1 DEF Basic, Nested
    <3> QED
      BY <1>4, <3>1, <3>2
  <2>2. ASSUME NEW j \in 1 .. n + 1, OfModule(gs[j]), NEW i \in 0 .. j - 1, NEW k \in j .. n + 1
        PROVE  EnvAt(gs, k) # EnvAt(gs, i)
    <3>1. i \in 0 .. n
      BY <1>2
    <3>2. CASE k \in 1 .. n
      <4>1. j \in DOMAIN fs /\ k \in j .. Len(fs) /\ gs[j] = fs[j] /\ k \in 0 .. n
        BY <1>2, <3>2 DEF n
      <4>2. EnvAt(fs, k) # EnvAt(fs, i)
        BY <2>2, <4>1 DEF Basic, Nested
      <4> QED
        BY <1>2, <3>1, <4>1, <4>2
    <3>3. CASE k = n + 1 /\ j = n + 1
      <4>1. OfModule(f) /\ Fresh(held, states, fs, f)
        BY <1>2, <2>2, <3>3
      <4>2. i = 0 \/ i \in DOMAIN fs
        BY <1>2, <3>1
      <4>3. f.env # EnvAt(fs, i)
        BY <4>1, <4>2, Numbers DEF Fresh, EnvAt
      <4> QED
        BY <1>2, <3>1, <3>3, <4>3
    <3>4. CASE k = n + 1 /\ j \in 1 .. n
      <4>1. j \in DOMAIN fs /\ n \in j .. Len(fs) /\ gs[j] = fs[j] /\ n \in 0 .. n
        BY <1>2, <3>4 DEF n
      <4>2. EnvAt(fs, n) # EnvAt(fs, i)
        BY <2>2, <4>1 DEF Basic, Nested
      <4>3. CASE OfModule(f)
        <5>1. i = 0 \/ i \in DOMAIN fs
          BY <1>2, <3>1
        <5>2. f.env # EnvAt(fs, i)
          BY <4>3, <5>1, Numbers DEF Fresh, EnvAt
        <5> QED
          BY <1>2, <3>1, <3>4, <5>2
      <4>4. CASE f.env = EnvAt(fs, n)
        BY <1>2, <3>1, <3>4, <4>2, <4>4
      <4> QED
        BY <4>3, <4>4 DEF n
    <3> QED
      BY <1>2, <3>2, <3>3, <3>4
  <2>3. f.env \notin DOMAIN Provided
    <3>1. CASE OfModule(f)
      BY <3>1 DEF Fresh
    <3>2. CASE f.env = 0
      BY <3>2, Numbers
    <3>3. CASE \E i \in DOMAIN fs : fs[i].env = f.env
      BY <3>3 DEF Basic, Nested
    <3> QED
      BY <1>3, <3>1, <3>2, <3>3 DEF n
  <2>4. \A i \in 1 .. n + 1 : gs[i].env \notin DOMAIN Provided
    BY <1>2, <1>4, <2>3 DEF Basic, Nested
  <2>5. OfModule(f) => f.name \in Name
    BY DEF Fresh
  <2>6. \A i \in 1 .. n + 1 : OfModule(gs[i]) => gs[i].name \in Name
    BY <1>2, <1>4, <2>5 DEF Basic, Nested
  <2> QED
    BY <1>2, <2>1, <2>2, <2>4, <2>6 DEF Nested
<1>10. Basic(held, states, gs, counts)
  BY <1>5, <1>6, <1>8, <1>9 DEF Basic
<1> QED
  BY <1>10 DEF gs

\* Names are given, and modules made: nothing is destroyed, and what is in an
\* environment now is no module that runs.
LEMMA BasicChange ==
  ASSUME NEW held, NEW states, NEW fs, NEW counts, NEW held2, NEW states2, NEW counts2,
         Basic(held, states, fs, counts), TypesOf(held2, states2, fs, counts2),
         \A m \in Module : states2[m] = "free" =>
            states[m] = "free" /\ held2[m] = held[m] /\ counts2[m] = counts[m],
         \A e \in Environment, n \in Name, m \in Module : held2[e][n] = ModuleObject(m) =>
            \/ held[e][n] = ModuleObject(m)
            \/ states2[m] # "free" /\ \A i \in DOMAIN fs : fs[i].env # m
  PROVE  Basic(held2, states2, fs, counts2)
<1>1. FreeIsEmpty(held2, states2, counts2)
  BY DEF Basic, FreeIsEmpty
<1>2. HeldAreThere(held2, states2)
  BY DEF Basic, HeldAreThere
<1>3. RootsAreThere(states2, fs)
  <2>1. \A e \in Environment : There(states, e) => There(states2, e)
    BY Numbers DEF There
  <2>2. \A i \in DOMAIN fs : fs[i].env \in Environment /\ fs[i].into \in Environment /\ fs[i].old \in Environment
    <3>1. \A i \in DOMAIN fs : fs[i] \in Frames
      BY DEF TypesOf
    <3> QED
      BY <3>1 DEF Frames
  <2> QED
    BY <2>1, <2>2, Numbers DEF Basic, RootsAreThere
<1>4. Unheld(held2, fs)
  <2>1. SUFFICES ASSUME NEW i \in DOMAIN fs, NEW e \in Environment, NEW n \in Name,
                        held2[e][n] = ModuleObject(fs[i].env)
                 PROVE  FALSE
    BY DEF Unheld
  <2>2. held2[e][n] \in Objects
    BY DEF TypesOf
  <2>3. PICK m \in Module : m = fs[i].env
    BY <2>1, <2>2, Kinds
  <2> QED
    BY <2>1, <2>3 DEF Basic, Unheld
<1> QED
  BY <1>1, <1>2, <1>3, <1>4 DEF Basic

\* The environment of the statement.
LEMMA CurrentIsThere ==
  ASSUME NEW fs, NEW states, fs \in Seq(Frames), RootsAreThere(states, fs)
  PROVE  /\ EnvironmentOf(fs) \in Environment /\ There(states, EnvironmentOf(fs))
         /\ EnvironmentOf(fs) = EnvAt(fs, Len(fs))
<1>1. CASE fs = <<>>
  BY <1>1, Numbers DEF EnvironmentOf, There, EnvAt
<1>2. CASE fs # <<>>
  <2>1. Len(fs) \in DOMAIN fs /\ Len(fs) # 0 /\ fs[Len(fs)] \in Frames
    BY <1>2
  <2> QED
    BY <1>2, <2>1 DEF EnvironmentOf, EnvAt, RootsAreThere, Frames
<1> QED
  BY <1>1, <1>2

-----------------------------------------------------------------------------
\* The way to a submodule.

\* A path has a first and a last name.
LEMMA Paths ==
  ASSUME NEW path \in Path
  PROVE  /\ Len(path) \in Nat \ {0} /\ path \in Seq(Name)
         /\ \A i \in 1 .. Len(path) : path[i] \in Name
<1>1. path \in Seq(Name) /\ path # <<>>
  BY ConstantAssumption
<1> QED
  BY <1>1

\* Each environment on the way is there, or is a module that is made.
LEMMA WayFacts ==
  ASSUME Basic(store, state, stack, loads), NEW path \in Path, NEW k \in 1 .. Len(path),
         NEW at \in Ways(path, k)
  PROVE  /\ at[1] = Current
         /\ \A i \in 1 .. k : at[i] \in Environment /\ path[i] \in Name
         /\ \A i \in 1 .. k - 1 :
              /\ i \in 1 .. k /\ i + 1 \in 1 .. k /\ at[i + 1] \in Module
              /\ \/ store[at[i]][path[i]] = ModuleObject(at[i + 1]) /\ state[at[i + 1]] # "free"
                 \/ store[at[i]][path[i]] = Nothing /\ state[at[i + 1]] = "free"
<1>1. at \in [1 .. k -> Environment] /\ Way(path, k, at)
  BY DEF Ways
<1>2. k \in Nat /\ Len(path) \in Nat /\ k <= Len(path)
  BY Paths
<1>3. \A i \in 1 .. k : at[i] \in Environment /\ path[i] \in Name
  BY <1>1, <1>2, Paths
<1>4. ASSUME NEW i \in 1 .. k - 1
      PROVE  /\ i \in 1 .. k /\ i + 1 \in 1 .. k /\ at[i + 1] \in Module
             /\ \/ store[at[i]][path[i]] = ModuleObject(at[i + 1]) /\ state[at[i + 1]] # "free"
                \/ store[at[i]][path[i]] = Nothing /\ state[at[i + 1]] = "free"
  <2>1. i \in 1 .. k /\ i + 1 \in 1 .. k
    BY <1>2
  <2>2. CASE store[at[i]][path[i]] = ModuleObject(at[i + 1])
    <3>1. store[at[i]][path[i]] \in Objects
      BY <1>3, <2>1 DEF Basic, TypesOf
    <3>2. at[i + 1] \in Module
      BY <2>2, <3>1, Kinds
    <3>3. at[i] \in Environment /\ path[i] \in Name
      BY <1>3, <2>1
    <3>4. state[at[i + 1]] # "free"
      BY <2>2, <3>2, <3>3 DEF Basic, HeldAreThere
    <3> QED
      BY <2>1, <2>2, <3>2, <3>4
  <2>3. CASE store[at[i]][path[i]] = Nothing /\ New(at[i + 1], {at[j] : j \in 1 .. i})
    BY <2>1, <2>3 DEF New
  <2> QED
    BY <1>1, <2>2, <2>3 DEF Way
<1> QED
  BY <1>1, <1>3, <1>4 DEF Way

\* What is made on the way was free, and is defined then.
LEMMA MadeOnTheWay ==
  ASSUME Basic(store, state, stack, loads), NEW path \in Path, NEW at \in Ways(path, Len(path))
  PROVE  /\ MadeAt(path, at) \subseteq 1 .. Len(path) - 1
         /\ \A i \in MadeAt(path, at) : state[at[i + 1]] = "free" /\ at[i + 1] \in Module
         /\ \A i \in 1 .. Len(path) - 1 : i \notin MadeAt(path, at) =>
               store[at[i]][path[i]] = ModuleObject(at[i + 1])
         /\ \A m \in Module : \/ StateWith(path, at)[m] = state[m]
                              \/ /\ StateWith(path, at)[m] = "Defined" /\ state[m] = "free"
                                 /\ \E i \in MadeAt(path, at) : at[i + 1] = m
         /\ \A i \in MadeAt(path, at) : StateWith(path, at)[at[i + 1]] = "Defined"
         /\ \A e \in Environment, n \in Name :
              \/ StoreWith(path, at)[e][n] = store[e][n]
              \/ \E i \in MadeAt(path, at) : /\ at[i] = e /\ path[i] = n
                                             /\ StoreWith(path, at)[e][n] = ModuleObject(at[i + 1])
         /\ StoreWith(path, at) \in [Environment -> [Name -> Objects]]
         /\ StateWith(path, at) \in [Module -> {"free", "Unknown", "Defined", "Loaded"}]
<1>0. Len(path) \in 1 .. Len(path)
  BY Paths
<1>1. MadeAt(path, at) \subseteq 1 .. Len(path) - 1
  BY DEF MadeAt
<1>2. \A i \in MadeAt(path, at) : state[at[i + 1]] = "free" /\ at[i + 1] \in Module
  BY <1>0, <1>1, WayFacts, Kinds DEF MadeAt
<1>3. \A i \in 1 .. Len(path) - 1 : i \notin MadeAt(path, at) =>
               store[at[i]][path[i]] = ModuleObject(at[i + 1])
  BY <1>0, WayFacts DEF MadeAt
<1>4. \A m \in Module : \/ StateWith(path, at)[m] = state[m]
                        \/ /\ StateWith(path, at)[m] = "Defined" /\ state[m] = "free"
                           /\ \E i \in MadeAt(path, at) : at[i + 1] = m
  BY <1>2 DEF StateWith
<1>5. \A i \in MadeAt(path, at) : StateWith(path, at)[at[i + 1]] = "Defined"
  BY <1>2 DEF StateWith
<1>6. ASSUME NEW e \in Environment, NEW n \in Name
      PROVE  \/ StoreWith(path, at)[e][n] = store[e][n]
             \/ \E i \in MadeAt(path, at) : /\ at[i] = e /\ path[i] = n
                                            /\ StoreWith(path, at)[e][n] = ModuleObject(at[i + 1])
  <2> DEFINE c == CHOOSE i \in MadeAt(path, at) : at[i] = e /\ path[i] = n
  <2>1. CASE \E i \in MadeAt(path, at) : at[i] = e /\ path[i] = n
    <3>1. c \in MadeAt(path, at) /\ at[c] = e /\ path[c] = n
      BY <2>1
    <3>2. StoreWith(path, at)[e][n] = ModuleObject(at[1 + c])
      BY <2>1 DEF StoreWith
    <3>3. 1 + c = c + 1
      <4>1. c \in 1 .. Len(path) - 1
        BY <1>1, <3>1
      <4> HIDE DEF c
      <4> QED
        BY <4>1
    <3> QED
      BY <3>1, <3>2, <3>3
  <2>2. CASE ~ \E i \in MadeAt(path, at) : at[i] = e /\ path[i] = n
    BY <2>2 DEF StoreWith
  <2> QED
    BY <2>1, <2>2
<1>7. StoreWith(path, at) \in [Environment -> [Name -> Objects]]
  <2>1. \A e \in Environment, n \in Name : store[e][n] \in Objects
    BY DEF Basic, TypesOf
  <2>2. ASSUME NEW e \in Environment, NEW n \in Name
        PROVE  StoreWith(path, at)[e][n] \in Objects
    <3>1. CASE StoreWith(path, at)[e][n] = store[e][n]
      BY <2>1, <3>1
    <3>2. CASE \E i \in MadeAt(path, at) : StoreWith(path, at)[e][n] = ModuleObject(at[i + 1])
      BY <1>2, <3>2, Kinds
    <3> QED
      BY <1>6, <3>1, <3>2
  <2>3. /\ StoreWith(path, at) = [e \in Environment |-> [n \in Name |-> StoreWith(path, at)[e][n]]]
    BY DEF StoreWith
  <2> DEFINE h == StoreWith(path, at)
  <2> HIDE DEF h
  <2> QED
    BY <2>2, <2>3 DEF h
<1>8. StateWith(path, at) \in [Module -> {"free", "Unknown", "Defined", "Loaded"}]
  BY DEF StateWith, Basic, TypesOf
<1> QED
  BY <1>1, <1>2, <1>3, <1>4, <1>5, <1>6, <1>7, <1>8

\* If what a statement leaves satisfies the invariant, so does the next state.
LEMMA BecomeBasic ==
  ASSUME NEW held, NEW states, NEW fs, NEW r, NEW counts,
         Basic(held, states, fs, counts), Become(held, states, fs, r, counts)
  PROVE  Basic(store', state', stack', loads')
BY BecomeKeeps, KeepsBasic

\* A name may be given a value, or a module that is there and that no file is running.
LEMMA BasicAdd ==
  ASSUME NEW held, NEW states, NEW fs, NEW counts, Basic(held, states, fs, counts),
         NEW env \in Environment, There(states, env), NEW n \in Name, NEW o \in Objects,
         \A m \in Module : o = ModuleObject(m) =>
            states[m] # "free" /\ \A i \in DOMAIN fs : fs[i].env # m
  PROVE  Basic(add(held, env, n, o), states, fs, counts)
<1> DEFINE new == add(held, env, n, o)
<1>1. held \in [Environment -> [Name -> Objects]]
  BY DEF Basic, TypesOf
<1>2. new \in [Environment -> [Name -> Objects]]
  BY <1>1 DEF add
<1>3. \A e \in Environment, k \in Name : new[e][k] = held[e][k] \/ new[e][k] = o
  BY <1>1 DEF add
<1>4. \A e \in Environment : e # env => new[e] = held[e]
  BY <1>1 DEF add
<1>5. \A m \in Module : states[m] = "free" => new[m] = held[m]
  BY <1>4, Numbers DEF There
<1> HIDE DEF new
<1>6. TypesOf(new, states, fs, counts)
  BY <1>2 DEF Basic, TypesOf
<1>7. \A e \in Environment, k \in Name, m \in Module : new[e][k] = ModuleObject(m) =>
         \/ held[e][k] = ModuleObject(m)
         \/ states[m] # "free" /\ \A i \in DOMAIN fs : fs[i].env # m
  BY <1>3
<1>8. Basic(new, states, fs, counts)
  BY <1>5, <1>6, <1>7, BasicChange
<1> QED
  BY <1>8 DEF new

\* A module that is there may change its state.
LEMMA BasicState ==
  ASSUME NEW held, NEW states, NEW fs, NEW counts, Basic(held, states, fs, counts),
         NEW m \in Module, NEW s \in {"Unknown", "Defined", "Loaded"}
  PROVE  Basic(held, [states EXCEPT ![m] = s], fs, counts)
<1> DEFINE new == [states EXCEPT ![m] = s]
<1>1. states \in [Module -> {"free", "Unknown", "Defined", "Loaded"}]
  BY DEF Basic, TypesOf
<1>2. new \in [Module -> {"free", "Unknown", "Defined", "Loaded"}]
      /\ \A k \in Module : new[k] = "free" => states[k] = "free"
  BY <1>1
<1> HIDE DEF new
<1>3. TypesOf(held, new, fs, counts)
  BY <1>2 DEF Basic, TypesOf
<1>4. Basic(held, new, fs, counts)
  BY <1>2, <1>3, BasicChange
<1> QED
  BY <1>4 DEF new

\* An environment that is there may count a load.
LEMMA BasicCount ==
  ASSUME NEW held, NEW states, NEW fs, Basic(held, states, fs, loads),
         NEW env \in Environment, There(states, env), NEW path \in Path
  PROVE  Basic(held, states, fs, Counted(env, path))
<1> DEFINE new == Counted(env, path)
<1>1. loads \in [Environment -> [Path -> 0..2]]
  BY DEF Basic, TypesOf
<1>2. new \in [Environment -> [Path -> 0..2]] /\ \A e \in Environment : e # env => new[e] = loads[e]
  BY <1>1 DEF Counted
<1>3. \A m \in Module : states[m] = "free" => new[m] = loads[m]
  BY <1>2, Numbers DEF There
<1> HIDE DEF new
<1>4. TypesOf(held, states, fs, new)
  BY <1>2 DEF Basic, TypesOf
<1>5. Basic(held, states, fs, new)
  BY <1>3, <1>4, BasicChange
<1> QED
  BY <1>5 DEF new

\* The way is there, in the environments in which its modules have been made.
LEMMA BasicWay ==
  ASSUME Basic(store, state, stack, loads), NEW path \in Path, NEW at \in Ways(path, Len(path))
  PROVE  /\ Basic(StoreWith(path, at), StateWith(path, at), stack, loads)
         /\ \A i \in 1 .. Len(path) : There(StateWith(path, at), at[i]) /\ at[i] \in Environment
<1> DEFINE held == StoreWith(path, at)
           states == StateWith(path, at)
           made == MadeAt(path, at)
<1>1. /\ made \subseteq 1 .. Len(path) - 1
      /\ \A i \in made : state[at[i + 1]] = "free" /\ at[i + 1] \in Module
      /\ \A i \in 1 .. Len(path) - 1 : i \notin made => store[at[i]][path[i]] = ModuleObject(at[i + 1])
      /\ \A m \in Module : \/ states[m] = state[m]
                           \/ states[m] = "Defined" /\ state[m] = "free" /\ \E i \in made : at[i + 1] = m
      /\ \A i \in made : states[at[i + 1]] = "Defined"
      /\ \A e \in Environment, n \in Name :
           \/ held[e][n] = store[e][n]
           \/ \E i \in made : at[i] = e /\ path[i] = n /\ held[e][n] = ModuleObject(at[i + 1])
      /\ held \in [Environment -> [Name -> Objects]]
      /\ states \in [Module -> {"free", "Unknown", "Defined", "Loaded"}]
  BY MadeOnTheWay
<1>2. Len(path) \in 1 .. Len(path) /\ Len(path) \in Nat
  BY Paths
<1>3. /\ at[1] = Current
      /\ \A i \in 1 .. Len(path) : at[i] \in Environment /\ path[i] \in Name
      /\ \A i \in 1 .. Len(path) - 1 :
           /\ i \in 1 .. Len(path) /\ i + 1 \in 1 .. Len(path) /\ at[i + 1] \in Module
           /\ \/ store[at[i]][path[i]] = ModuleObject(at[i + 1]) /\ state[at[i + 1]] # "free"
              \/ store[at[i]][path[i]] = Nothing /\ state[at[i + 1]] = "free"
  BY <1>2, WayFacts
<1>4. Current \in Environment /\ There(state, Current)
  BY CurrentIsThere DEF Basic, TypesOf, Current
<1> HIDE DEF held, states, made
<1>5. \A m \in Module : states[m] = "free" => state[m] = "free"
  BY <1>1
<1>6. ASSUME NEW i \in 1 .. Len(path) PROVE There(states, at[i])
  <2>1. CASE i = 1
    BY <1>3, <1>4, <1>5, <2>1, Numbers DEF There
  <2>2. CASE i # 1
    <3>1. i - 1 \in 1 .. Len(path) - 1 /\ (i - 1) + 1 = i
      BY <1>2, <2>2
    <3>2. at[i] \in Module
      BY <1>3, <3>1
    <3>3. CASE i - 1 \in made
      BY <1>1, <3>1, <3>3 DEF There
    <3>4. CASE i - 1 \notin made
      <4>1. store[at[i - 1]][path[i - 1]] = ModuleObject(at[i])
        BY <1>1, <3>1, <3>4
      <4>2. at[i - 1] \in Environment /\ path[i - 1] \in Name
        BY <1>3, <3>1
      <4>3. state[at[i]] # "free"
        BY <3>2, <4>1, <4>2 DEF Basic, HeldAreThere
      <4> QED
        BY <1>5, <3>2, <4>3 DEF There
    <3> QED
      BY <3>3, <3>4
  <2> QED
    BY <2>1, <2>2
<1>7. ASSUME NEW m \in Module, states[m] = "free" PROVE held[m] = store[m]
  <2>1. ASSUME NEW n \in Name PROVE held[m][n] = store[m][n]
    <3>1. \A i \in made : at[i] # m
      <4>1. SUFFICES ASSUME NEW i \in made, at[i] = m PROVE FALSE
        OBVIOUS
      <4>2. There(states, m)
        BY <1>1, <1>3, <1>6, <4>1
      <4> QED
        BY <1>7, <4>2, Numbers DEF There
    <3> QED
      BY <1>1, <3>1, Numbers
  <2>2. held[m] \in [Name -> Objects] /\ store[m] \in [Name -> Objects]
    BY <1>1, Numbers DEF Basic, TypesOf
  <2> QED
    BY <2>1, <2>2
<1>8. ASSUME NEW e \in Environment, NEW n \in Name, NEW m \in Module, held[e][n] = ModuleObject(m)
      PROVE  \/ store[e][n] = ModuleObject(m)
             \/ states[m] # "free" /\ \A i \in DOMAIN stack : stack[i].env # m
  <2>1. CASE held[e][n] = store[e][n]
    BY <1>8, <2>1
  <2>2. ASSUME NEW i \in made, held[e][n] = ModuleObject(at[i + 1])
        PROVE  states[m] # "free" /\ \A j \in DOMAIN stack : stack[j].env # m
    <3>1. m = at[i + 1]
      BY <1>8, <2>2, Kinds
    <3>2. states[m] # "free" /\ state[m] = "free"
      BY <1>1, <3>1
    <3> QED
      BY <3>2, Numbers DEF Basic, RootsAreThere, There
  <2> QED
    BY <1>1, <2>1, <2>2
<1>9. TypesOf(held, states, stack, loads)
  BY <1>1 DEF Basic, TypesOf
<1>10. Basic(held, states, stack, loads)
  BY <1>5, <1>7, <1>8, <1>9, BasicChange
<1> QED
  BY <1>3, <1>6, <1>10 DEF held, states

-----------------------------------------------------------------------------
\* The statements.

\* There is a statement to execute.
Able == stack = <<>> \/ Top.rest # <<>>

\* The statement that is executed is taken from its file.
LEMMA StackBasic ==
  ASSUME NEW held, NEW states, Basic(held, states, stack, loads), Able
  PROVE  /\ Basic(held, states, Stack, loads) /\ SameFrames(Stack, stack)
         /\ stack \in Seq(Frames) /\ Stack \in Seq(Frames) /\ DOMAIN Stack = DOMAIN stack
         /\ \A i \in DOMAIN stack : Stack[i].env = stack[i].env
         /\ EnvAt(Stack, Len(Stack)) = Current
<1>1. stack \in Seq(Frames)
  BY DEF Basic, TypesOf
<1>2. SameFrames(Stack, stack)
  BY <1>1, Consumed DEF Able
<1>3. Basic(held, states, Stack, loads)
  BY <1>2, BasicSame
<1>4. /\ DOMAIN Stack = DOMAIN stack /\ Stack \in Seq(Frames)
      /\ \A i \in DOMAIN stack : Stack[i].env = stack[i].env
  BY <1>1, <1>2, SameEnvAt DEF SameFrames
<1>5. EnvAt(Stack, Len(Stack)) = Current
  <2>1. Len(Stack) = Len(stack) /\ Len(stack) \in 0 .. Len(stack)
    BY <1>1, <1>2 DEF SameFrames
  <2>2. EnvAt(Stack, Len(Stack)) = EnvAt(stack, Len(stack))
    BY <1>1, <1>2, <2>1, SameEnvAt
  <2>3. RootsAreThere(states, stack)
    BY DEF Basic
  <2> QED
    BY <1>1, <2>2, <2>3, CurrentIsThere DEF Current
<1> QED
  BY <1>1, <1>2, <1>3, <1>4, <1>5

\* The end of the process changes no module.
LEMMA DieBasic ==
  ASSUME Basic(store, state, stack, loads), NEW how, Die(how)
  PROVE  Basic(store', state', stack', loads')
BY DEF Die

\* The code of a file that is there.
LEMMA CodeOf ==
  ASSUME files \in Programs, NEW path \in Path, files[path] # Missing
  PROVE  files[path] \in Seq(Statements)
<1>1. files \in [Path -> Seq(Statements) \cup {Missing}]
  BY ConstantAssumption
<1> QED
  BY <1>1

\* The file that runs next.
RunsNext(held, states, f) ==
  /\ f \in Frames /\ Basic(held, states, stack, loads)
  /\ There(states, f.env) /\ There(states, f.into) /\ There(states, f.old)
  /\ \/ OfModule(f) /\ Fresh(held, states, stack, f)
     \/ ~OfModule(f) /\ f.env = Current
  /\ Runs(held, states, f)

\* The file that starts satisfies the invariant on top of the others.
LEMMA RunsPush ==
  ASSUME Able, NEW held, NEW states, NEW f, RunsNext(held, states, f)
  PROVE  Basic(held, states, Append(Stack, f), loads)
<1>1. f \in Frames /\ Basic(held, states, stack, loads)
  BY DEF RunsNext
<1>2. /\ Basic(held, states, Stack, loads)
      /\ DOMAIN Stack = DOMAIN stack
      /\ \A i \in DOMAIN stack : Stack[i].env = stack[i].env
      /\ EnvAt(Stack, Len(Stack)) = Current
  BY <1>1, StackBasic
<1>3. Fresh(held, states, stack, f) => Fresh(held, states, Stack, f)
  BY <1>2 DEF Fresh
<1> QED
  BY <1>1, <1>2, <1>3, BasicPush DEF RunsNext

\* run_impl keeps the invariant.
LEMMA RunsBasic ==
  ASSUME Basic(store, state, stack, loads), Able,
         NEW held, NEW states, NEW f, RunsNext(held, states, f)
  PROVE  Basic(store', state', stack', loads')
<1>1. CASE Die("stack overflow")
  BY <1>1, DieBasic
<1>2. CASE Become(held, states, Append(Stack, f), "none", loads)
  BY <1>2, RunsPush, BecomeBasic
<1> QED
  BY <1>1, <1>2 DEF Runs, RunsNext

\* A statement that has only a result keeps the invariant.
LEMMA YieldsBasic ==
  ASSUME Basic(store, state, stack, loads), Able, NEW r, Yields(r)
  PROVE  Basic(store', state', stack', loads')
<1>1. Become(store, state, Stack, r, loads)
  BY DEF Yields
<1> QED
  BY <1>1, StackBasic, BecomeBasic

\* The environment of the innermost file is there.
LEMMA Here ==
  ASSUME Basic(store, state, stack, loads)
  PROVE  Current \in Environment /\ There(state, Current) /\ Current = EnvAt(stack, Len(stack))
BY CurrentIsThere DEF Basic, TypesOf, Current

\* let keeps the invariant.
LEMMA LetBasic ==
  ASSUME Basic(store, state, stack, loads), Able, NEW n \in Name, Let(n)
  PROVE  Basic(store', state', stack', loads')
<1>1. CASE Yields("error")
  BY <1>1, YieldsBasic
<1>2. CASE Become(add(store, Current, n, Value), state, Stack, "object", loads)
  <2>1. Basic(store, state, Stack, loads)
    BY StackBasic
  <2>2. Basic(add(store, Current, n, Value), state, Stack, loads)
    BY <2>1, Here, Kinds, BasicAdd
  <2> QED
    BY <1>2, <2>2, BecomeBasic
<1> QED
  BY <1>1, <1>2 DEF Let

\* The file of a new module.
StartsFile(held, states, m, f, kind, into, name, path, old) ==
  /\ m \in Module /\ state[m] = "free"
  /\ f.kind = kind /\ f.env = m /\ f.into = into /\ f.name = name /\ f.path = path /\ f.old = old
  /\ RunsNext(held, [states EXCEPT ![m] = "Unknown"], f)

\* An import that runs code does so in a module that was free, and that is not on the way.
LEMMA StartsMeans ==
  ASSUME files \in Programs, Basic(store, state, stack, loads), Able,
         NEW path \in Path, NEW at \in Ways(path, Len(path)),
         files[path] # Missing, NEW kind \in {"import", "define"},
         NEW old \in Environment, There(StateWith(path, at), old),
         Starts(kind, path, at, old)
  PROVE  \E m, f : StartsFile(StoreWith(path, at), StateWith(path, at), m, f,
                              kind, at[Len(path)], path[Len(path)], path, old)
<1> DEFINE held == StoreWith(path, at)
           states == StateWith(path, at)
<1>1. PICK m \in Module :
        /\ New(m, {at[i] : i \in DOMAIN at})
        /\ Runs(held, [states EXCEPT ![m] = "Unknown"],
                Frame(kind, m, files[path], at[Len(path)], path[Len(path)], path, old))
  BY DEF Starts
<1> DEFINE new == [states EXCEPT ![m] = "Unknown"]
           f == Frame(kind, m, files[path], at[Len(path)], path[Len(path)], path, old)
<1>2. Len(path) \in 1 .. Len(path) /\ Len(path) \in Nat /\ path[Len(path)] \in Name
  BY Paths
<1>3. /\ Basic(held, states, stack, loads)
      /\ There(states, at[Len(path)]) /\ at[Len(path)] \in Environment
  BY <1>2, BasicWay
<1>4. m \in Environment
  BY Numbers
<1>5. /\ f \in Frames /\ f.kind = kind /\ f.env = m /\ f.into = at[Len(path)]
      /\ f.name = path[Len(path)] /\ f.path = path /\ f.old = old
  <2> DEFINE into == at[Len(path)]
             name == path[Len(path)]
  <2>1. /\ kind \in {"import", "define", "function", "run", "run_once"} /\ name \in Name \cup {""}
        /\ into \in Environment
    BY <1>2, <1>3
  <2>2. f = Frame(kind, m, files[path], into, name, path, old)
    OBVIOUS
  <2> HIDE DEF into, name, f
  <2>3. /\ f \in Frames /\ f.kind = kind /\ f.env = m /\ f.into = into
        /\ f.name = name /\ f.path = path /\ f.old = old
    <3> DEFINE code == files[path]
    <3>1. code \in Seq(Statements)
      BY CodeOf
    <3>2. f = Frame(kind, m, code, into, name, path, old)
      BY <2>2
    <3> HIDE DEF code
    <3> QED
      BY <1>4, <2>1, <3>1, <3>2 DEF Frame, Frames
  <2> QED
    BY <2>3 DEF into, name
<1>6. Basic(held, new, stack, loads)
  BY <1>3, BasicState
<1>7. \A e \in Environment : There(states, e) => There(new, e)
  <2>1. states \in [Module -> {"free", "Unknown", "Defined", "Loaded"}]
    BY <1>3 DEF Basic, TypesOf
  <2> HIDE DEF states
  <2> QED
    BY <2>1, Numbers DEF There
<1>8. There(new, m)
  <2>1. states \in [Module -> {"free", "Unknown", "Defined", "Loaded"}]
    BY <1>3 DEF Basic, TypesOf
  <2> HIDE DEF states
  <2> QED
    BY <2>1 DEF There
<1>9. state[m] = "free" /\ \A i \in DOMAIN at : at[i] # m
  BY <1>1 DEF New
<1>10. m \notin DOMAIN Provided /\ \A i \in DOMAIN stack : stack[i].env # m
  BY <1>9, Numbers DEF Basic, RootsAreThere, There
<1>11. ASSUME NEW e \in Environment, NEW n \in Name PROVE held[e][n] # ModuleObject(m)
  <2>1. CASE held[e][n] = store[e][n]
    BY <1>9, <2>1 DEF Basic, HeldAreThere
  <2>2. ASSUME NEW i \in MadeAt(path, at), held[e][n] = ModuleObject(at[i + 1])
        PROVE  held[e][n] # ModuleObject(m)
    <3>1. i \in 1 .. Len(path) - 1
      BY MadeOnTheWay
    <3>2. i + 1 \in 1 .. Len(path)
      BY <1>2, <3>1
    <3>3. at \in [1 .. Len(path) -> Environment]
      BY DEF Ways
    <3>4. at[i + 1] # m
      BY <1>9, <3>2, <3>3
    <3> QED
      BY <2>2, <3>4, Kinds
  <2> QED
    BY <2>1, <2>2, MadeOnTheWay
<1>12. OfModule(f) /\ Fresh(held, new, stack, f)
  BY <1>2, <1>5, <1>10, <1>11 DEF OfModule, Fresh
<1>13. There(new, f.env) /\ There(new, f.into) /\ There(new, f.old) /\ Runs(held, new, f)
  BY <1>1, <1>3, <1>5, <1>7, <1>8
<1>14. RunsNext(held, new, f)
  <2> HIDE DEF held, states, new, f
  <2> QED
    BY <1>5, <1>6, <1>12, <1>13 DEF RunsNext
<1>15. StartsFile(held, states, m, f, kind, at[Len(path)], path[Len(path)], path, old)
  <2>1. RunsNext(held, [states EXCEPT ![m] = "Unknown"], f)
    BY <1>14
  <2> HIDE DEF held, states, new, f
  <2> QED
    BY <1>5, <1>9, <2>1 DEF StartsFile
<1> QED
  BY <1>15

\* An import that runs code keeps the invariant.
LEMMA StartsBasic ==
  ASSUME files \in Programs, Basic(store, state, stack, loads), Able,
         NEW path \in Path, NEW at \in Ways(path, Len(path)),
         files[path] # Missing, NEW kind \in {"import", "define"},
         NEW old \in Environment, There(StateWith(path, at), old),
         Starts(kind, path, at, old)
  PROVE  Basic(store', state', stack', loads')
<1>1. PICK m, f : StartsFile(StoreWith(path, at), StateWith(path, at), m, f,
                             kind, at[Len(path)], path[Len(path)], path, old)
  BY StartsMeans
<1> QED
  BY <1>1, RunsBasic DEF StartsFile

\* What a path of built-in modules names is there, and does not run.
LEMMA BuiltinIsThere ==
  ASSUME Basic(store, state, stack, loads), NEW path \in Path, path[1] \in Builtin,
         NEW m \in BuiltinAt(path)
  PROVE  m \in Module /\ state[m] # "free" /\ \A j \in DOMAIN stack : stack[j].env # m
<1>1. PICK at \in [DOMAIN path -> Module] : Descends(path, at) /\ m = at[Len(path)]
  BY DEF BuiltinAt
<1>2. /\ Len(path) \in Nat \ {0} /\ DOMAIN path = 1 .. Len(path)
      /\ \A i \in 1 .. Len(path) : path[i] \in Name
  <2>1. path \in Seq(Name) /\ Len(path) \in Nat \ {0}
    BY Paths
  <2> QED
    BY <2>1, Paths
<1> DEFINE S == {i \in 1 .. Len(path) :
                   state[at[i]] # "free" /\ \A j \in DOMAIN stack : stack[j].env # at[i]}
<1>3. 1 \in S
  <2>1. at[1] \in DOMAIN Provided
    <3>1. BuiltinModule \in [Builtin -> DOMAIN Provided]
      BY ConstantAssumption
    <3> QED
      BY <1>1, <3>1 DEF Descends
  <2>2. 1 \in 1 .. Len(path)
    BY <1>2
  <2> QED
    BY <2>1, <2>2 DEF Basic, RootsAreThere, Nested
<1>4. ASSUME NEW i \in 1 .. Len(path) - 1, i \in S PROVE i + 1 \in S
  <2>1. /\ i + 1 \in 2 .. Len(path) /\ i + 1 \in 1 .. Len(path) /\ (i + 1) - 1 = i /\ i \in 1 .. Len(path)
    BY <1>2
  <2>2. /\ at[i + 1] \in Module /\ at[i] \in Environment /\ path[i + 1] \in Name
    BY <1>1, <1>2, <2>1, Numbers
  <2>3. CASE at[i + 1] = at[i]
    BY <1>4, <2>1, <2>3
  <2>4. CASE store[at[i]][path[i + 1]] = ModuleObject(at[i + 1])
    BY <2>1, <2>2, <2>4 DEF Basic, HeldAreThere, Unheld
  <2>5. \/ store[at[(i + 1) - 1]][path[i + 1]] = Nothing /\ at[i + 1] = at[(i + 1) - 1]
        \/ store[at[(i + 1) - 1]][path[i + 1]] = ModuleObject(at[i + 1])
    BY <1>1, <2>1 DEF Descends
  <2> QED
    BY <2>1, <2>3, <2>4, <2>5
<1> HIDE DEF S
<1>5. 1 .. Len(path) \subseteq S
  BY <1>2, <1>3, <1>4, UpTo
<1>6. Len(path) \in 1 .. Len(path)
  BY <1>2
<1> QED
  BY <1>1, <1>2, <1>5, <1>6 DEF S

\* A built-in module is entered.
EntersShared(held, states, path, at, m) ==
  /\ m \in BuiltinAt(path) /\ m \in Module
  /\ Basic(held, states, stack, loads)
  /\ LET new == [states EXCEPT ![m] = "Loaded"]
         after == add(held, at[Len(path)], path[Len(path)], ModuleObject(m))
     IN /\ Basic(held, new, stack, loads) /\ Basic(held, new, Stack, loads)
        /\ There(new, at[Len(path)])
        /\ Basic(after, new, Stack, loads)
        /\ Die("null pointer") \/ Become(after, new, Stack, "object", loads)

\* A built-in module that is imported is there, and no file is running it.
LEMMA EntersBuiltinMeans ==
  ASSUME Basic(store, state, stack, loads), Able,
         NEW path \in Path, NEW at \in Ways(path, Len(path)),
         path[1] \in Builtin, EntersBuiltin(path, at)
  PROVE  \E m : EntersShared(StoreWith(path, at), StateWith(path, at), path, at, m)
<1> DEFINE held == StoreWith(path, at)
           states == StateWith(path, at)
           into == at[Len(path)]
           name == path[Len(path)]
<1>1. PICK m \in BuiltinAt(path) :
        IF state[m] = "Unknown" THEN Die("null pointer")
        ELSE Become(add(held, into, name, ModuleObject(m)), [states EXCEPT ![m] = "Loaded"],
                    Stack, "object", loads)
  BY DEF EntersBuiltin
<1>2. m \in Module /\ state[m] # "free" /\ \A j \in DOMAIN stack : stack[j].env # m
  BY BuiltinIsThere
<1>3. Len(path) \in 1 .. Len(path) /\ name \in Name
  BY Paths
<1>4. Basic(held, states, stack, loads) /\ There(states, into) /\ into \in Environment
  BY <1>3, BasicWay
<1> DEFINE new == [states EXCEPT ![m] = "Loaded"]
<1>5. new[m] # "free" /\ There(new, into)
  <2>1. states \in [Module -> {"free", "Unknown", "Defined", "Loaded"}]
    BY <1>4 DEF Basic, TypesOf
  <2> HIDE DEF states
  <2> QED
    BY <1>2, <1>4, <2>1 DEF There
<1> HIDE DEF held, states, into, name
<1>6. Basic(held, new, stack, loads)
  BY <1>2, <1>4, BasicState
<1> HIDE DEF new
<1>7. /\ Basic(held, new, Stack, loads) /\ DOMAIN Stack = DOMAIN stack
      /\ \A i \in DOMAIN stack : Stack[i].env = stack[i].env
  BY <1>6, StackBasic
<1>8. ModuleObject(m) \in Objects
  BY <1>2, Kinds
<1>9. \A k \in Module : ModuleObject(m) = ModuleObject(k) =>
         new[k] # "free" /\ \A i \in DOMAIN Stack : Stack[i].env # k
  BY <1>2, <1>5, <1>7, Kinds
<1>10. Basic(add(held, into, name, ModuleObject(m)), new, Stack, loads)
  BY <1>3, <1>4, <1>5, <1>7, <1>8, <1>9, BasicAdd
<1>11. Die("null pointer") \/ Become(add(held, into, name, ModuleObject(m)), new, Stack, "object", loads)
  BY <1>1 DEF new
<1> QED
  BY <1>2, <1>4, <1>5, <1>6, <1>7, <1>10, <1>11 DEF EntersShared, new, into, name, held, states

\* The import of a built-in module keeps the invariant.
LEMMA EntersBuiltinBasic ==
  ASSUME Basic(store, state, stack, loads), Able,
         NEW path \in Path, NEW at \in Ways(path, Len(path)),
         path[1] \in Builtin, EntersBuiltin(path, at)
  PROVE  Basic(store', state', stack', loads')
<1>1. PICK m : EntersShared(StoreWith(path, at), StateWith(path, at), path, at, m)
  BY EntersBuiltinMeans
<1>2. CASE Die("null pointer")
  BY <1>2, DieBasic
<1> QED
  BY <1>1, <1>2, BecomeBasic DEF EntersShared

\* The end of the way: each case of what the last name is keeps the invariant.
LEMMA EntersBasic ==
  ASSUME files \in Programs, Basic(store, state, stack, loads), Able,
         NEW path \in Path, NEW at \in Ways(path, Len(path)), Exists(path), Enters(path, at)
  PROVE  Basic(store', state', stack', loads')
<1> DEFINE held == StoreWith(path, at)
           states == StateWith(path, at)
           there == held[at[Len(path)]][path[Len(path)]]
           Stops(r) == Become(held, states, Stack, r, loads)
<1>1. ASSUME NEW r, Stops(r) PROVE Basic(store', state', stack', loads')
  <2>1. Basic(held, states, Stack, loads)
    BY BasicWay, StackBasic
  <2> QED
    BY <1>1, <2>1, BecomeBasic
<1>2. CASE path[1] \in Builtin /\ EntersBuiltin(path, at)
  BY <1>2, EntersBuiltinBasic
<1>3. CASE path[1] \notin Builtin /\ Starts("import", path, at, 0)
  BY <1>3, StartsBasic, Numbers DEF Exists, There
<1>4. ASSUME NEW m \in Module, states[m] = "Defined", path[1] \notin Builtin, Starts("define", path, at, m)
      PROVE  Basic(store', state', stack', loads')
  BY <1>4, StartsBasic, Numbers DEF Exists, There
<1>5. \/ Stops("error") \/ Stops("object")
      \/ path[1] \in Builtin /\ EntersBuiltin(path, at)
      \/ path[1] \notin Builtin /\ Starts("import", path, at, 0)
      \/ \E m \in Module : /\ states[m] = "Defined" /\ path[1] \notin Builtin
                           /\ Starts("define", path, at, m)
  BY DEF Enters
<1> HIDE DEF Stops, states
<1> QED
  BY <1>1, <1>2, <1>3, <1>4, <1>5

\* evalImportStatement, up to where code is run, keeps the invariant.
LEMMA ImportBasic ==
  ASSUME files \in Programs, Basic(store, state, stack, loads), Able, NEW path \in Path, Import(path)
  PROVE  Basic(store', state', stack', loads')
<1>1. CASE Yields("error")
  BY <1>1, YieldsBasic
<1>2. CASE Exists(path) /\ \E at \in Ways(path, Len(path)) : Enters(path, at)
  BY <1>2, EntersBasic
<1> QED
  BY <1>1, <1>2 DEF Import

\* The function import runs the file in a module that was free.
LEMMA LetImportMeans ==
  ASSUME files \in Programs, Basic(store, state, stack, loads), Able,
         NEW n \in Name, NEW path \in Path, files[path] # Missing, NEW m \in Module, New(m, {}),
         Runs(store, [state EXCEPT ![m] = "Unknown"],
              Frame("function", m, files[path], Current, n, path, 0))
  PROVE  \E f : StartsFile(store, state, m, f, "function", Current, n, path, 0)
<1> DEFINE new == [state EXCEPT ![m] = "Unknown"]
           code == files[path]
           f == Frame("function", m, code, Current, n, path, 0)
<1>1. state[m] = "free" /\ m \in Environment
  BY Numbers DEF New
<1>2. Basic(store, new, stack, loads)
  BY BasicState
<1>3. state \in [Module -> {"free", "Unknown", "Defined", "Loaded"}]
  BY DEF Basic, TypesOf
<1>4. code \in Seq(Statements)
  BY CodeOf
<1>5. Runs(store, new, f)
  OBVIOUS
<1> HIDE DEF code
<1>6. /\ f \in Frames /\ f.kind = "function" /\ f.env = m /\ f.into = Current /\ f.old = 0
      /\ f.name = n /\ f.path = path
  BY <1>1, <1>4, Here, Numbers DEF Frame, Frames
<1>7. There(new, m) /\ There(new, Current) /\ There(new, 0)
  BY <1>3, Here DEF There
<1>8. OfModule(f) /\ Fresh(store, new, stack, f)
  <2>1. m \notin DOMAIN Provided /\ \A i \in DOMAIN stack : stack[i].env # m
    BY <1>1, Numbers DEF Basic, RootsAreThere, There
  <2>2. \A e \in Environment, k \in Name : store[e][k] # ModuleObject(m)
    BY <1>1 DEF Basic, HeldAreThere
  <2> QED
    BY <1>6, <2>1, <2>2 DEF OfModule, Fresh
<1>9. RunsNext(store, new, f)
  <2> HIDE DEF new, f
  <2> QED
    BY <1>2, <1>5, <1>6, <1>7, <1>8 DEF RunsNext
<1>10. StartsFile(store, state, m, f, "function", Current, n, path, 0)
  <2> HIDE DEF f
  <2> QED
    BY <1>1, <1>6, <1>9 DEF StartsFile
<1> QED
  BY <1>10
\* The function import keeps the invariant.
LEMMA LetImportBasic ==
  ASSUME files \in Programs, Basic(store, state, stack, loads), Able,
         NEW n \in Name, NEW path \in Path, LetImport(n, path)
  PROVE  Basic(store', state', stack', loads')
<1>1. CASE Become(add(store, Current, n, Value), state, Stack, "error", loads)
  <2>1. Basic(store, state, Stack, loads)
    BY StackBasic
  <2>2. Basic(add(store, Current, n, Value), state, Stack, loads)
    BY <2>1, Here, Kinds, BasicAdd
  <2> QED
    BY <1>1, <2>2, BecomeBasic
<1>2. ASSUME files[path] # Missing, NEW m \in Module, New(m, {}),
             Runs(store, [state EXCEPT ![m] = "Unknown"],
                  Frame("function", m, files[path], Current, n, path, 0))
      PROVE  Basic(store', state', stack', loads')
  <2>1. PICK f : StartsFile(store, state, m, f, "function", Current, n, path, 0)
    BY <1>2, LetImportMeans
  <2> QED
    BY <2>1, RunsBasic DEF StartsFile
<1> QED
  BY <1>1, <1>2 DEF LetImport

\* run and run_once run the file in the environment of the call.
LEMMA RunMeans ==
  ASSUME files \in Programs, Basic(store, state, stack, loads), Able,
         NEW path \in Path, files[path] # Missing, NEW kind \in {"run", "run_once"},
         Runs(store, state, Frame(kind, Current, files[path], Current, "", path, 0))
  PROVE  \E f : /\ RunsNext(store, state, f)
                /\ f.kind = kind /\ f.env = Current /\ f.into = Current /\ f.old = 0
<1> DEFINE code == files[path]
           f == Frame(kind, Current, code, Current, "", path, 0)
<1>1. code \in Seq(Statements)
  BY CodeOf
<1>2. Runs(store, state, f)
  OBVIOUS
<1> HIDE DEF code
<1>3. f \in Frames /\ f.kind = kind /\ f.env = Current /\ f.into = Current /\ f.old = 0
  BY <1>1, Here, Numbers DEF Frame, Frames
<1>4. There(state, f.env) /\ There(state, f.into) /\ There(state, f.old) /\ ~OfModule(f)
  BY <1>3, Here DEF There, OfModule
<1>5. RunsNext(store, state, f)
  <2> HIDE DEF f
  <2> QED
    BY <1>2, <1>3, <1>4 DEF RunsNext
<1> QED
  BY <1>3, <1>5

\* A file that run or run_once starts keeps the invariant.
LEMMA RunFrame ==
  ASSUME files \in Programs, Basic(store, state, stack, loads), Able,
         NEW path \in Path, files[path] # Missing, NEW kind \in {"run", "run_once"},
         Runs(store, state, Frame(kind, Current, files[path], Current, "", path, 0))
  PROVE  Basic(store', state', stack', loads')
BY RunMeans, RunsBasic

\* run keeps the invariant.
LEMMA RunBasic ==
  ASSUME files \in Programs, Basic(store, state, stack, loads), Able, NEW path \in Path, Run(path)
  PROVE  Basic(store', state', stack', loads')
<1>1. CASE Yields("error")
  BY <1>1, YieldsBasic
<1>2. CASE files[path] # Missing
           /\ Runs(store, state, Frame("run", Current, files[path], Current, "", path, 0))
  BY <1>2, RunFrame
<1> QED
  BY <1>1, <1>2 DEF Run

\* run_once keeps the invariant.
LEMMA RunOnceBasic ==
  ASSUME files \in Programs, Basic(store, state, stack, loads), Able, NEW path \in Path, RunOnce(path)
  PROVE  Basic(store', state', stack', loads')
<1>1. CASE Die("exception")
  BY <1>1, DieBasic
<1>2. CASE Yields("object")
  BY <1>2, YieldsBasic
<1>3. CASE files[path] # Missing
           /\ Runs(store, state, Frame("run_once", Current, files[path], Current, "", path, 0))
  BY <1>3, RunFrame
<1> QED
  BY <1>1, <1>2, <1>3 DEF RunOnce

-----------------------------------------------------------------------------
\* The ends of files.

\* What the innermost file refers to is there, and no other file has its module.
LEMMA TopIs ==
  ASSUME Basic(store, state, stack, loads), stack # <<>>
  PROVE  /\ Top \in Frames /\ Len(stack) \in DOMAIN stack /\ Top = stack[Len(stack)]
         /\ There(state, Top.env) /\ There(state, Top.into) /\ There(state, Top.old)
         /\ Top.env \in Environment /\ Top.into \in Environment /\ Top.old \in Environment
         /\ Top.path \in Path
         /\ Below = Popped(stack) /\ Basic(store, state, Below, loads)
         /\ OfModule(Top) => /\ Top.env \in Module /\ Top.name \in Name
                             /\ \A i \in DOMAIN Below : Below[i].env # Top.env
<1>1. stack \in Seq(Frames) /\ stack # <<>>
  BY DEF Basic, TypesOf
<1>2. Top \in Frames /\ Len(stack) \in DOMAIN stack /\ Top = stack[Len(stack)]
  BY <1>1 DEF Top
<1>3. There(state, Top.env) /\ There(state, Top.into) /\ There(state, Top.old)
  BY <1>2 DEF Basic, RootsAreThere
<1>4. /\ Top.env \in Environment /\ Top.into \in Environment /\ Top.old \in Environment
      /\ Top.path \in Path
  BY <1>2 DEF Frames
<1>5. Below = Popped(stack) /\ Basic(store, state, Below, loads)
  BY BasicPop DEF Below, Popped
<1>6. ASSUME OfModule(Top)
      PROVE  Top.env \in Module /\ \A i \in DOMAIN Below : Below[i].env # Top.env
  <2> DEFINE n == Len(stack)
  <2>1. /\ n \in Nat \ {0} /\ DOMAIN stack = 1 .. n /\ DOMAIN Popped(stack) = 1 .. n - 1
        /\ \A i \in 1 .. n - 1 : Popped(stack)[i] = stack[i]
    BY <1>1, PopMeans
  <2> HIDE DEF n
  <2>2. n \in DOMAIN stack /\ Len(stack) = n /\ stack[n] = Top
    BY <1>2 DEF n
  <2>3. \A i \in 0 .. n - 1 : EnvAt(stack, n) # EnvAt(stack, i)
    <3>1. n \in n .. Len(stack)
      BY <2>1, <2>2
    <3> QED
      BY <1>6, <2>2, <3>1 DEF Basic, Nested
  <2>4. EnvAt(stack, n) = Top.env
    BY <2>1, <2>2 DEF EnvAt
  <2>5. Top.env # 0
    <3>1. 0 \in 0 .. n - 1
      BY <2>1
    <3> QED
      BY <2>3, <2>4, <3>1 DEF EnvAt
  <2>6. ASSUME NEW i \in 1 .. n - 1 PROVE stack[i].env # Top.env
    <3>1. i \in 0 .. n - 1 /\ i # 0
      BY <2>1
    <3> QED
      BY <2>3, <2>4, <3>1 DEF EnvAt
  <2> QED
    BY <1>4, <1>5, <2>1, <2>5, <2>6, Numbers
<1>7. OfModule(Top) => Top.name \in Name
  BY <1>2 DEF Basic, Nested
<1> QED
  BY <1>2, <1>3, <1>4, <1>5, <1>6, <1>7

\* A module is entered after its code has run.
LEMMA EnteredBasic ==
  ASSUME Basic(store, state, stack, loads), stack # <<>>, OfModule(Top), NEW n \in Name
  PROVE  /\ Basic(add(store, Top.into, n, ModuleObject(Top.env)), state, Below, loads)
         /\ ModuleObject(Top.env) \in Objects
         /\ \A m \in Module : ModuleObject(Top.env) = ModuleObject(m) =>
               state[m] # "free" /\ \A i \in DOMAIN Below : Below[i].env # m
<1> DEFINE env == Top.env
           into == Top.into
<1>1. /\ env \in Module /\ \A i \in DOMAIN Below : Below[i].env # env
      /\ There(state, env) /\ There(state, into) /\ into \in Environment
      /\ Basic(store, state, Below, loads)
  BY TopIs
<1> HIDE DEF env, into
<1>2. state[env] # "free" /\ ModuleObject(env) \in Objects
  BY <1>1, Numbers, Kinds DEF There
<1>3. \A m \in Module : ModuleObject(env) = ModuleObject(m) =>
         state[m] # "free" /\ \A i \in DOMAIN Below : Below[i].env # m
  BY <1>1, <1>2, Kinds
<1>4. Basic(add(store, into, n, ModuleObject(env)), state, Below, loads)
  BY <1>1, <1>2, <1>3, BasicAdd
<1> QED
  BY <1>2, <1>3, <1>4 DEF env, into

\* After it has run, it is loaded, and it counts where it was imported.
LEMMA LoadedBasic ==
  ASSUME NEW held, Basic(held, state, Below, loads), NEW m \in Module, NEW path \in Path
  PROVE  Basic(held, [state EXCEPT ![m] = "Loaded"], Below, Counted(EnvironmentOf(Below), path))
<1> DEFINE new == [state EXCEPT ![m] = "Loaded"]
<1>1. Basic(held, new, Below, loads)
  BY BasicState
<1> HIDE DEF new
<1>2. EnvironmentOf(Below) \in Environment /\ There(new, EnvironmentOf(Below))
  BY <1>1, CurrentIsThere DEF Basic, TypesOf
<1>3. Basic(held, new, Below, Counted(EnvironmentOf(Below), path))
  BY <1>1, <1>2, BasicCount
<1> QED
  BY <1>3 DEF new

\* The end of an imported file keeps the invariant.
LEMMA EndImportBasic ==
  ASSUME Basic(store, state, stack, loads), EndImport
  PROVE  Basic(store', state', stack', loads')
<1>0. stack # <<>> /\ OfModule(Top)
  BY DEF EndImport, Ends, OfModule
<1>1. stack # <<>> /\ OfModule(Top) /\ Top.name \in Name
  BY <1>0, TopIs
<1>2. CASE Die("null pointer")
  BY <1>2, DieBasic
<1>3. CASE Become(store, state, Below, "error", loads)
  BY <1>1, <1>3, TopIs, BecomeBasic
<1>4. CASE Become(add(store, Top.into, Top.name, ModuleObject(Top.env)),
                  [state EXCEPT ![Top.env] = "Loaded"], Below, "object",
                  Counted(EnvironmentOf(Below), Top.path))
  <2>1. Basic(add(store, Top.into, Top.name, ModuleObject(Top.env)), state, Below, loads)
    BY <1>1, EnteredBasic
  <2>2. Top.env \in Module /\ Top.path \in Path
    BY <1>1, TopIs
  <2>3. Basic(add(store, Top.into, Top.name, ModuleObject(Top.env)),
              [state EXCEPT ![Top.env] = "Loaded"], Below, Counted(EnvironmentOf(Below), Top.path))
    BY <2>1, <2>2, LoadedBasic
  <2> QED
    BY <1>4, <2>3, BecomeBasic
<1> QED
  BY <1>2, <1>3, <1>4 DEF EndImport

\* What the environments hold when a module has taken over what was there.
TakenOver ==
  [store EXCEPT ![Top.env] = Merged(store[Top.env], store[Top.old]),
                ![Top.into][Top.name] = ModuleObject(Top.env)]

\* A module that takes over what another holds, and its name, keeps the invariant.
LEMMA TakenOverBasic ==
  ASSUME Basic(store, state, stack, loads), stack # <<>>, OfModule(Top)
  PROVE  /\ Basic(TakenOver, state, Below, loads)
         /\ TakenOver[Top.into][Top.name] = ModuleObject(Top.env)
         /\ \A e \in Environment, n \in Name :
              e # Top.env /\ ~(e = Top.into /\ n = Top.name) => TakenOver[e][n] = store[e][n]
         /\ Top.into # Top.env => \A n \in Name :
              TakenOver[Top.env][n] = IF store[Top.old][n] # Nothing THEN store[Top.old][n] ELSE store[Top.env][n]
<1> DEFINE env == Top.env
           into == Top.into
           name == Top.name
           old == Top.old
           merged == Merged(store[env], store[old])
           held == TakenOver
           half == [store EXCEPT ![env] = merged]
<1>1. /\ env \in Module /\ \A i \in DOMAIN Below : Below[i].env # env
      /\ There(state, env) /\ There(state, into) /\ into \in Environment
      /\ old \in Environment /\ name \in Name
      /\ Basic(store, state, Below, loads)
  BY TopIs
<1>2. store \in [Environment -> [Name -> Objects]] /\ env \in Environment
  BY <1>1, Numbers DEF Basic, TypesOf
<1>3. /\ merged \in [Name -> Objects]
      /\ \A n \in Name : merged[n] = IF store[old][n] # Nothing THEN store[old][n] ELSE store[env][n]
  BY <1>1, <1>2 DEF Merged
<1>4. state[env] # "free" /\ ModuleObject(env) \in Objects
  BY <1>1, Numbers, Kinds DEF There
<1>5. half \in [Environment -> [Name -> Objects]]
      /\ half[env] = merged /\ \A e \in Environment : e # env => half[e] = store[e]
  <2> HIDE DEF merged, env
  <2> QED
    BY <1>2, <1>3
<1>6. held = [half EXCEPT ![into][name] = ModuleObject(env)]
  BY DEF TakenOver
<1> HIDE DEF half, env, into, name, old, merged, held
<1>7. /\ held \in [Environment -> [Name -> Objects]]
      /\ \A e \in Environment, n \in Name : held[e][n] = half[e][n] \/ held[e][n] = ModuleObject(env)
      /\ \A e \in Environment : e # into => held[e] = half[e]
      /\ \A e \in Environment, n \in Name : ~(e = into /\ n = name) => held[e][n] = half[e][n]
      /\ held[into][name] = ModuleObject(env)
  BY <1>1, <1>4, <1>5, <1>6
<1>8. \A e \in Environment, n \in Name : half[e][n] = store[e][n] \/ half[e][n] = store[old][n]
  BY <1>3, <1>5
<1>9. \A m \in Module : state[m] = "free" => held[m] = store[m]
  BY <1>1, <1>4, <1>5, <1>7, Numbers DEF There
<1>10. ASSUME NEW e \in Environment, NEW n \in Name, NEW m \in Module, held[e][n] = ModuleObject(m)
       PROVE  \/ store[e][n] = ModuleObject(m)
              \/ state[m] # "free" /\ \A i \in DOMAIN Below : Below[i].env # m
  <2>1. CASE held[e][n] = ModuleObject(env)
    BY <1>1, <1>4, <1>10, <2>1, Kinds
  <2>2. CASE store[old][n] = ModuleObject(m)
    BY <1>1, <2>2 DEF Basic, HeldAreThere, Unheld
  <2>3. CASE held[e][n] = half[e][n]
    BY <1>8, <1>10, <2>2, <2>3
  <2> QED
    BY <1>7, <2>1, <2>3
<1>11. TypesOf(held, state, Below, loads)
  BY <1>1, <1>7 DEF Basic, TypesOf
<1>12. Basic(held, state, Below, loads)
  BY <1>1, <1>9, <1>10, <1>11, BasicChange
<1>13. \A e \in Environment, n \in Name : e # env /\ ~(e = into /\ n = name) => held[e][n] = store[e][n]
  BY <1>5, <1>7
<1>14. into # env => \A n \in Name :
         held[env][n] = IF store[old][n] # Nothing THEN store[old][n] ELSE store[env][n]
  BY <1>2, <1>3, <1>5, <1>7
<1> QED
  BY <1>7, <1>12, <1>13, <1>14 DEF env, into, name, old, held

\* The end of a file whose module was only defined before keeps the invariant.
LEMMA EndDefineBasic ==
  ASSUME Basic(store, state, stack, loads), EndDefine
  PROVE  Basic(store', state', stack', loads')
<1>1. stack # <<>> /\ OfModule(Top)
  BY DEF EndDefine, Ends, OfModule
<1>2. CASE Become(store, state, Below, "error", loads)
  BY <1>1, <1>2, TopIs, BecomeBasic
<1>3. CASE Become(TakenOver, [state EXCEPT ![Top.env] = "Loaded"], Below, "object",
                  Counted(EnvironmentOf(Below), Top.path))
  <2>1. Basic(TakenOver, [state EXCEPT ![Top.env] = "Loaded"], Below, Counted(EnvironmentOf(Below), Top.path))
    BY <1>1, TopIs, TakenOverBasic, LoadedBasic
  <2> QED
    BY <1>3, <2>1, BecomeBasic
<1> QED
  BY <1>2, <1>3 DEF EndDefine, TakenOver

\* The end of a file that the function import runs keeps the invariant.
LEMMA EndFunctionBasic ==
  ASSUME Basic(store, state, stack, loads), EndFunction
  PROVE  Basic(store', state', stack', loads')
<1>0. stack # <<>> /\ OfModule(Top)
  BY DEF EndFunction, Ends, OfModule
<1>1. stack # <<>> /\ OfModule(Top) /\ Top.name \in Name
  BY <1>0, TopIs
<1>2. CASE Die("null pointer")
  BY <1>2, DieBasic
<1>3. ASSUME NEW o, o = Value \/ o = ModuleObject(Top.env), NEW r,
             Become(add(store, Top.into, Top.name, o), state, Below, r, loads)
      PROVE  Basic(store', state', stack', loads')
  <2>1. CASE o = Value
    <3>1. Basic(add(store, Top.into, Top.name, Value), state, Below, loads)
      BY <1>1, TopIs, Kinds, BasicAdd
    <3> QED
      BY <1>3, <2>1, <3>1, BecomeBasic
  <2>2. CASE o = ModuleObject(Top.env)
    <3>1. Basic(add(store, Top.into, Top.name, ModuleObject(Top.env)), state, Below, loads)
      BY <1>1, EnteredBasic
    <3> QED
      BY <1>3, <2>2, <3>1, BecomeBasic
  <2> QED
    BY <1>3, <2>1, <2>2
<1> QED
  BY <1>2, <1>3 DEF EndFunction

\* The end of a file that run or run_once runs keeps the invariant.
LEMMA EndRunBasic ==
  ASSUME Basic(store, state, stack, loads), EndRun
  PROVE  Basic(store', state', stack', loads')
<1>1. stack # <<>>
  BY DEF EndRun, Ends
<1>2. CASE Die("null pointer")
  BY <1>2, DieBasic
<1>3. CASE Become(store, state, Below, Outcome, loads)
  BY <1>1, <1>3, TopIs, BecomeBasic
<1> QED
  BY <1>2, <1>3 DEF EndRun

-----------------------------------------------------------------------------
\* The invariant: what the modules and the files that run are, and what run_once has run.

Results == {"none", "object", "error", "exit"}

Once == [path \in Path |-> IF path \in registry THEN 1 ELSE 0]

IInv ==
  /\ files \in Programs
  /\ result \in Results
  /\ registry \subseteq Path
  /\ onces = Once
  /\ Basic(store, state, stack, loads)

\* A session starts in the invariant.
LEMMA InitIInv == Init => IInv
<1> SUFFICES ASSUME Init PROVE IInv
  OBVIOUS
<1>1. \A m \in DOMAIN Provided :
         Provided[m] \in [Name -> {Nothing, Value} \cup {ModuleObject(k) : k \in DOMAIN Provided}]
  BY ConstantAssumption
<1>2. stack = <<>> /\ DOMAIN stack = {} /\ stack \in Seq(Frames) /\ Len(stack) = 0
  BY DEF Init
<1>3. \A e \in Environment : e \notin DOMAIN Provided => store[e] = Empty
  BY DEF Init
<1>4. \A e \in DOMAIN Provided : store[e] = Provided[e]
  BY Numbers DEF Init
<1>5. \A e \in Environment, n \in Name : store[e][n] \in Objects
  <2>1. ASSUME NEW e \in DOMAIN Provided, NEW n \in Name PROVE Provided[e][n] \in Objects
    <3>1. Provided[e][n] \in {Nothing, Value} \cup {ModuleObject(k) : k \in DOMAIN Provided}
      BY <1>1
    <3> QED
      BY <3>1, Kinds, Numbers
  <2> QED
    BY <1>3, <1>4, <2>1, Kinds
<1>6. TypesOf(store, state, stack, loads)
  <2>1. store \in [Environment -> [Name -> Objects]]
    <3>1. \A e \in Environment : store[e] = [n \in Name |-> store[e][n]]
      BY <1>1, <1>3, <1>4 DEF Empty
    <3>2. store = [e \in Environment |-> store[e]]
      BY DEF Init
    <3>3. ASSUME NEW e \in Environment PROVE store[e] \in [Name -> Objects]
      BY <1>5, <3>1
    <3> QED
      BY <3>2, <3>3
  <2> QED
    BY <1>2, <2>1 DEF Init, TypesOf, Never
<1>7. FreeIsEmpty(store, state, loads)
  BY <1>3, Numbers DEF Init, FreeIsEmpty
<1>8. HeldAreThere(store, state)
  <2>1. SUFFICES ASSUME NEW e \in Environment, NEW n \in Name, NEW m \in Module,
                        store[e][n] = ModuleObject(m)
                 PROVE  state[m] # "free"
    BY DEF HeldAreThere
  <2>2. e \in DOMAIN Provided /\ Provided[e][n] = ModuleObject(m)
    BY <1>3, <1>4, <2>1, Kinds
  <2>3. m \in DOMAIN Provided
    <3>1. Provided[e][n] \in {Nothing, Value} \cup {ModuleObject(k) : k \in DOMAIN Provided}
      BY <1>1, <2>2
    <3> QED
      BY <2>2, <3>1, Kinds
  <2> QED
    BY <2>3 DEF Init
<1>9. RootsAreThere(state, stack) /\ Unheld(store, stack)
  BY <1>2, Numbers DEF Init, RootsAreThere, Unheld
<1>10. Nested(stack)
  BY <1>2 DEF Nested
<1> QED
  BY <1>6, <1>7, <1>8, <1>9, <1>10 DEF Init, IInv, Basic, Once, Never, Results

\* Every statement keeps the modules and files of the invariant.
LEMMA ExecuteBasic ==
  ASSUME IInv, Able, NEW s \in Statements, Execute(s)
  PROVE  Basic(store', state', stack', loads')
<1>1. files \in Programs /\ Basic(store, state, stack, loads)
  BY DEF IInv
<1>2. CASE s.op = "let"
  <2>1. s.name \in Name /\ Let(s.name)
    BY <1>2 DEF Statements, Execute
  <2> QED
    BY <1>1, <2>1, LetBasic
<1>3. CASE s.op \in {"fail", "exit"}
  <2>1. \E r : Yields(r)
    BY <1>3 DEF Execute
  <2> QED
    BY <1>1, <2>1, YieldsBasic
<1>4. CASE s.op = "import"
  <2>1. s.path \in Path /\ Import(s.path)
    BY <1>4 DEF Statements, Execute
  <2> QED
    BY <1>1, <2>1, ImportBasic
<1>5. CASE s.op = "let import"
  <2>1. s.name \in Name /\ s.path \in Path /\ LetImport(s.name, s.path)
    BY <1>5 DEF Statements, Execute
  <2> QED
    BY <1>1, <2>1, LetImportBasic
<1>6. CASE s.op = "run"
  <2>1. s.path \in Path /\ Run(s.path)
    BY <1>6 DEF Statements, Execute
  <2> QED
    BY <1>1, <2>1, RunBasic
<1>7. CASE s.op = "run_once"
  <2>1. s.path \in Path /\ RunOnce(s.path)
    BY <1>7 DEF Statements, Execute
  <2> QED
    BY <1>1, <2>1, RunOnceBasic
<1>8. s.op \in {"let", "fail", "exit", "import", "let import", "run", "run_once"}
  BY DEF Statements
<1> QED
  BY <1>2, <1>3, <1>4, <1>5, <1>6, <1>7, <1>8

\* The files stay, and a result is one.
LEMMA RestOfBecome ==
  ASSUME NEW held, NEW states, NEW fs, NEW r \in Results, NEW counts,
         Become(held, states, fs, r, counts)
  PROVE  files' = files /\ result' \in Results
BY DEF Become, Results

\* run_impl changes no file, and its result is one of the results.
LEMMA RestOfRuns ==
  ASSUME result \in Results, NEW held, NEW states, NEW f, Runs(held, states, f)
  PROVE  files' = files /\ result' \in Results
<1>1. CASE Die("stack overflow")
  BY <1>1 DEF Die
<1>2. CASE Become(held, states, Append(Stack, f), "none", loads)
  BY <1>2, RestOfBecome DEF Results
<1> QED
  BY <1>1, <1>2 DEF Runs

\* Nor does the import statement.
LEMMA RestOfImport ==
  ASSUME result \in Results, NEW path, Import(path)
  PROVE  files' = files /\ result' \in Results
<1>0. "error" \in Results /\ "object" \in Results
  BY DEF Results
<1>1. CASE Yields("error")
  BY <1>0, <1>1, RestOfBecome DEF Yields
<1>2. ASSUME NEW at, Enters(path, at) PROVE files' = files /\ result' \in Results
  <2>1. ASSUME NEW kind, NEW old, Starts(kind, path, at, old) PROVE files' = files /\ result' \in Results
    BY <2>1, RestOfRuns DEF Starts
  <2>2. CASE EntersBuiltin(path, at)
    BY <1>0, <2>2, RestOfBecome DEF EntersBuiltin, Die
  <2>3. CASE \E r \in {"error", "object"} : Become(StoreWith(path, at), StateWith(path, at), Stack, r, loads)
    BY <1>0, <2>3, RestOfBecome
  <2>4. \/ \E r \in {"error", "object"} : Become(StoreWith(path, at), StateWith(path, at), Stack, r, loads)
        \/ EntersBuiltin(path, at)
        \/ \E kind, old : Starts(kind, path, at, old)
    BY <1>2 DEF Enters
  <2> QED
    BY <2>1, <2>2, <2>3, <2>4
<1> QED
  BY <1>1, <1>2 DEF Import

\* What statements and the ends of files do besides.
Rest ==
  /\ files' = files /\ result' \in Results
  /\ \/ UNCHANGED <<registry, onces>>
     \/ \E path \in Path : path \notin registry /\ registry' = registry \cup {path}
                           /\ onces' = [onces EXCEPT ![path] = IF @ < 2 THEN @ + 1 ELSE @]

\* Every statement keeps the rest of the invariant.
LEMMA ExecuteRest ==
  ASSUME IInv, NEW s \in Statements, Execute(s)
  PROVE  Rest
<1>0. result \in Results /\ "error" \in Results /\ "object" \in Results /\ "exit" \in Results
  BY DEF IInv, Results
<1>1. ASSUME NEW r \in Results, Yields(r) PROVE files' = files /\ result' \in Results
  BY <1>1, RestOfBecome DEF Yields
<1>2. CASE s.op = "let"
  BY <1>0, <1>1, <1>2, RestOfBecome DEF Execute, Rest, Let, Yields
<1>3. CASE s.op \in {"fail", "exit"}
  <2>1. \E r \in Results : Yields(r)
    BY <1>0, <1>3 DEF Execute
  <2> QED
    BY <1>1, <2>1 DEF Rest, Yields
<1>4. CASE s.op = "import"
  <2>1. Import(s.path)
    BY <1>4 DEF Execute
  <2> QED
    BY <1>0, <2>1, RestOfImport DEF Rest, Import
<1>5. CASE s.op = "let import"
  <2>1. LetImport(s.name, s.path)
    BY <1>5 DEF Execute
  <2> QED
    BY <1>0, <2>1, RestOfBecome, RestOfRuns DEF Rest, LetImport
<1>6. CASE s.op = "run"
  <2>1. Run(s.path)
    BY <1>6 DEF Execute
  <2> QED
    BY <1>0, <1>1, <2>1, RestOfRuns DEF Rest, Run
<1>7. CASE s.op = "run_once"
  <2>1. s.path \in Path /\ RunOnce(s.path)
    BY <1>7 DEF Statements, Execute
  <2>2. CASE Die("exception") /\ UNCHANGED <<registry, onces>>
    BY <1>0, <2>2 DEF Rest, Die
  <2>3. CASE Yields("object")
    BY <1>0, <1>1, <2>3 DEF Rest, Yields
  <2>4. CASE /\ s.path \notin registry /\ registry' = registry \cup {s.path}
             /\ onces' = [onces EXCEPT ![s.path] = IF @ < 2 THEN @ + 1 ELSE @]
             /\ Runs(store, state, Frame("run_once", Current, files[s.path], Current, "", s.path, 0))
    BY <1>0, <2>1, <2>4, RestOfRuns DEF Rest
  <2> QED
    BY <2>1, <2>2, <2>3, <2>4 DEF RunOnce
<1>8. s.op \in {"let", "fail", "exit", "import", "let import", "run", "run_once"}
  BY DEF Statements
<1> QED
  BY <1>2, <1>3, <1>4, <1>5, <1>6, <1>7, <1>8

\* So does the end of every file.
LEMMA EndRest ==
  ASSUME IInv, EndImport \/ EndDefine \/ EndFunction \/ EndRun
  PROVE  Rest
<1>0. result \in Results /\ "error" \in Results /\ "object" \in Results
  BY DEF IInv, Results
<1>1. ASSUME NEW how, Die(how) PROVE files' = files /\ result' \in Results
  BY <1>0, <1>1 DEF Die
<1>2. UNCHANGED <<registry, onces>>
  BY DEF EndImport, EndDefine, EndFunction, EndRun
<1>3. CASE EndImport
  BY <1>0, <1>1, <1>2, <1>3, RestOfBecome DEF EndImport, Rest
<1>4. CASE EndDefine
  BY <1>0, <1>2, <1>4, RestOfBecome DEF EndDefine, Rest
<1>5. CASE EndFunction
  BY <1>0, <1>1, <1>2, <1>5, RestOfBecome DEF EndFunction, Rest
<1>6. CASE EndRun
  <2>1. Outcome \in Results \/ Outcome = "null"
    BY <1>0 DEF Outcome
  <2> QED
    BY <1>1, <1>2, <1>6, <2>1, RestOfBecome DEF EndRun, Rest
<1> QED
  BY <1>3, <1>4, <1>5, <1>6

\* Every step keeps the invariant.
LEMMA NextIInv == IInv /\ [Next]_vars => IInv'
<1> SUFFICES ASSUME IInv, [Next]_vars PROVE IInv'
  OBVIOUS
<1>1. CASE UNCHANGED vars
  BY <1>1 DEF vars, IInv, Once
<1>2. ASSUME Rest, Basic(store', state', stack', loads') PROVE IInv'
  <2>1. files' \in Programs /\ result' \in Results /\ Basic(store, state, stack, loads)'
    BY <1>2 DEF Rest, IInv
  <2>2. registry' \subseteq Path /\ onces' = Once'
    <3>1. CASE UNCHANGED <<registry, onces>>
      BY <3>1 DEF IInv, Once
    <3>2. ASSUME NEW path \in Path, path \notin registry, registry' = registry \cup {path},
                 onces' = [onces EXCEPT ![path] = IF @ < 2 THEN @ + 1 ELSE @]
          PROVE  registry' \subseteq Path /\ onces' = Once'
      <4>1. onces = Once /\ onces[path] = 0
        BY <3>2 DEF IInv, Once
      <4>2. onces' = [onces EXCEPT ![path] = 1]
        BY <3>2, <4>1
      <4>3. onces' = [q \in Path |-> IF q \in registry \cup {path} THEN 1 ELSE 0]
        BY <4>1, <4>2 DEF Once
      <4> QED
        BY <3>2, <4>3 DEF IInv, Once
    <3> QED
      BY <1>2, <3>1, <3>2 DEF Rest
  <2> QED
    BY <2>1, <2>2 DEF IInv
<1>3. ASSUME NEW s \in Statement, stack = <<>>, Execute(s) PROVE IInv'
  <2>1. s \in Statements /\ Able
    BY <1>3, ConstantAssumption DEF Able
  <2> QED
    BY <1>2, <1>3, <2>1, ExecuteBasic, ExecuteRest
<1>4. CASE stack # <<>> /\ ~Ends /\ Execute(Head(Top.rest))
  <2>1. Top.rest \in Seq(Statements) /\ Top.rest # <<>>
    BY <1>4, TopIs DEF IInv, Frames, Ends
  <2>2. Head(Top.rest) \in Statements /\ Able
    BY <2>1 DEF Able
  <2> QED
    BY <1>2, <1>4, <2>2, ExecuteBasic, ExecuteRest
<1>5. CASE EndImport \/ EndDefine \/ EndFunction \/ EndRun
  <2>1. Basic(store', state', stack', loads')
    BY <1>5, EndImportBasic, EndDefineBasic, EndFunctionBasic, EndRunBasic DEF IInv
  <2> QED
    BY <1>2, <1>5, <2>1, EndRest
<1> QED
  BY <1>1, <1>3, <1>4, <1>5 DEF Next

\* What the modules that there are, hold, and the files that run, refer to, is there.
THEOREM Invariance == Spec => []IInv
BY InitIInv, NextIInv, PTL DEF Spec

\* While its code runs, and after it has failed, a module is in no environment: the
\* import statement and the function import enter it when the code has ended well.
THEOREM NoHalf == Spec => []NoHalfModules
<1>1. IInv => NoHalfModules
  BY DEF IInv, Basic, Unheld, NoHalfModules, Held
<1> QED
  BY <1>1, Invariance, PTL

-----------------------------------------------------------------------------
\* What a set of environments holds, but for the shared modules, is in it.
Closed(held, sh, S) ==
  \A x \in S, n \in Name, m \in Module : held[x][n] = ModuleObject(m) /\ m \notin sh => m \in S

\* The tree under an environment.
Under(held, sh, r) ==
  {e \in Environment : \A S \in SUBSET Environment : r \in S /\ Closed(held, sh, S) => e \in S}

\* A module is shared if it is held under the name of a built-in module or by a
\* shared one; another one is in a single place.
Rule(held, sh) ==
  \A e \in Environment, n \in Name, m \in Module : held[e][n] = ModuleObject(m) =>
     (m \in sh <=> e \in sh \/ n \in Builtin)
Single(held, sh) ==
  \A e1 \in Environment, e2 \in Environment, n1 \in Name, n2 \in Name, m \in Module :
     held[e1][n1] = ModuleObject(m) /\ held[e2][n2] = ModuleObject(m) /\ m \notin sh => e1 = e2 /\ n1 = n2

Tree(held, states, fs, sh) ==
  /\ sh \subseteq Module /\ DOMAIN Provided \subseteq sh
  /\ \A m \in sh : states[m] # "free"
  /\ \A i \in DOMAIN fs : fs[i].env \notin sh
  /\ Rule(held, sh) /\ Single(held, sh)

\* Nothing holds the environment.
Free(held, r) == \A e \in Environment, n \in Name : held[e][n] # ModuleObject(r)

-----------------------------------------------------------------------------
\* The tree under an environment is the smallest closed set that has it.
LEMMA UnderIs ==
  ASSUME NEW held, NEW sh, NEW r \in Environment
  PROVE  /\ Under(held, sh, r) \subseteq Environment /\ r \in Under(held, sh, r)
         /\ \A S \in SUBSET Environment : r \in S /\ Closed(held, sh, S) => Under(held, sh, r) \subseteq S
         /\ \A x \in Under(held, sh, r), n \in Name, m \in Module :
               held[x][n] = ModuleObject(m) /\ m \notin sh => m \in Under(held, sh, r)
<1>1. /\ Under(held, sh, r) \subseteq Environment /\ r \in Under(held, sh, r)
      /\ \A S \in SUBSET Environment : r \in S /\ Closed(held, sh, S) => Under(held, sh, r) \subseteq S
  BY DEF Under
<1>2. ASSUME NEW x \in Under(held, sh, r), NEW n \in Name, NEW m \in Module,
             held[x][n] = ModuleObject(m), m \notin sh
      PROVE  m \in Under(held, sh, r)
  <2>1. SUFFICES ASSUME NEW S \in SUBSET Environment, r \in S, Closed(held, sh, S) PROVE m \in S
    BY Numbers DEF Under
  <2>2. x \in S
    BY <1>1, <2>1
  <2> QED
    BY <1>2, <2>1, <2>2 DEF Closed
<1> QED
  BY <1>1, <1>2

\* No shared module is in the tree of one that is not.
LEMMA UnderNotShared ==
  ASSUME NEW held, NEW sh, NEW r \in Environment, r \notin sh
  PROVE  \A e \in Under(held, sh, r) : e \notin sh
<1> DEFINE S == Environment \ sh
<1>1. S \in SUBSET Environment /\ r \in S /\ Closed(held, sh, S)
  BY Numbers DEF Closed
<1> QED
  BY <1>1, UnderIs

\* Who holds what is in the tree is in it.
LEMMA Upwards ==
  ASSUME NEW held, NEW sh, NEW r \in Environment, Free(held, r), Single(held, sh),
         NEW x \in Environment, NEW n \in Name, NEW m \in Module, held[x][n] = ModuleObject(m),
         m \notin sh, m \in Under(held, sh, r)
  PROVE  x \in Under(held, sh, r)
<1> DEFINE S == Under(held, sh, r) \ {m}
<1>1. SUFFICES ASSUME x \notin Under(held, sh, r) PROVE FALSE
  OBVIOUS
<1>2. r # m
  BY DEF Free
<1>3. S \in SUBSET Environment /\ r \in S
  BY <1>2, UnderIs
<1>4. Closed(held, sh, S)
  <2>1. SUFFICES ASSUME NEW y \in S, NEW k \in Name, NEW p \in Module,
                        held[y][k] = ModuleObject(p), p \notin sh
                 PROVE  p \in S
    BY DEF Closed
  <2>2. p \in Under(held, sh, r) /\ y \in Environment
    BY <1>3, <2>1, UnderIs
  <2>3. p # m
    BY <1>1, <2>1, <2>2 DEF Single
  <2> QED
    BY <2>2, <2>3
<1>5. Under(held, sh, r) \subseteq S
  <2> HIDE DEF S
  <2> QED
    BY <1>3, <1>4, UnderIs
<1> QED
  BY <1>5

\* The trees of two environments that nothing holds have nothing in common.
LEMMA Disjoint ==
  ASSUME NEW held, NEW sh, NEW r1 \in Environment, NEW r2 \in Environment, r1 # r2,
         Free(held, r1), Free(held, r2), Single(held, sh)
  PROVE  \A e \in Under(held, sh, r1) : e \notin Under(held, sh, r2)
<1>1. r1 \notin Under(held, sh, r2)
  <2> DEFINE S == Environment \ {r1}
  <2>1. S \in SUBSET Environment /\ r2 \in S /\ Closed(held, sh, S)
    BY Numbers DEF Closed, Free
  <2>2. Under(held, sh, r2) \subseteq S
    <3> HIDE DEF S
    <3> QED
      BY <2>1, UnderIs
  <2> QED
    BY <2>2
<1> DEFINE S == Environment \ Under(held, sh, r2)
<1>2. S \in SUBSET Environment /\ r1 \in S
  BY <1>1
<1>3. Closed(held, sh, S)
  <2>1. SUFFICES ASSUME NEW x \in S, NEW n \in Name, NEW m \in Module,
                        held[x][n] = ModuleObject(m), m \notin sh
                 PROVE  m \in S
    BY DEF Closed
  <2>2. m \notin Under(held, sh, r2)
    BY <2>1, Upwards
  <2> QED
    BY <2>2, Numbers
<1>4. Under(held, sh, r1) \subseteq S
  <2> HIDE DEF S
  <2> QED
    BY <1>2, <1>3, UnderIs
<1> QED
  BY <1>4

\* In a tree, no module holds itself.
LEMMA NoCycle ==
  ASSUME NEW held, NEW sh, NEW r \in Environment, Free(held, r), Single(held, sh),
         NEW x \in Under(held, sh, r), NEW n \in Name, NEW m \in Module,
         held[x][n] = ModuleObject(m), m \notin sh
  PROVE  x # m
<1> DEFINE S == Under(held, sh, r) \ {m}
<1>1. SUFFICES ASSUME x = m PROVE FALSE
  OBVIOUS
<1>2. x \in Environment
  BY UnderIs
<1>3. r # m
  BY <1>2 DEF Free
<1>4. S \in SUBSET Environment /\ r \in S
  BY <1>3, UnderIs
<1>5. Closed(held, sh, S)
  <2>1. SUFFICES ASSUME NEW y \in S, NEW k \in Name, NEW p \in Module,
                        held[y][k] = ModuleObject(p), p \notin sh
                 PROVE  p \in S
    BY DEF Closed
  <2>2. p \in Under(held, sh, r) /\ y \in Environment
    BY <1>4, <2>1, UnderIs
  <2>3. p # m
    BY <1>1, <1>2, <2>1, <2>2 DEF Single
  <2> QED
    BY <2>2, <2>3
<1>6. Under(held, sh, r) \subseteq S
  <2> HIDE DEF S
  <2> QED
    BY <1>4, <1>5, UnderIs
<1> QED
  BY <1>1, <1>6

-----------------------------------------------------------------------------
\* Where a path leads from an environment, and what it names there.

Led(held, r, path, at) ==
  /\ at \in [1 .. Len(path) -> Environment] /\ at[1] = r
  /\ \A i \in 1 .. Len(path) - 1 : held[at[i]][path[i]] = ModuleObject(at[i + 1])
Names(held, r, path, o) == \E at : Led(held, r, path, at) /\ o = held[at[Len(path)]][path[Len(path)]]

\* What is not imported again.
SettledIn(states, o) == o = Value \/ \E m \in Module : o = ModuleObject(m) /\ states[m] # "Defined"

\* Where a path leads: each module is held by the one before.
LEMMA LedIs ==
  ASSUME NEW held, held \in [Environment -> [Name -> Objects]],
         NEW path \in Path, NEW r, NEW at, Led(held, r, path, at)
  PROVE  /\ Len(path) \in 1 .. Len(path) /\ 1 \in 1 .. Len(path) /\ Len(path) \in Nat /\ at[1] = r
         /\ \A i \in 1 .. Len(path) : at[i] \in Environment /\ path[i] \in Name
         /\ \A i \in 1 .. Len(path) - 1 :
              /\ i \in 1 .. Len(path) /\ i + 1 \in 1 .. Len(path) /\ at[i + 1] \in Module
              /\ held[at[i]][path[i]] = ModuleObject(at[i + 1])
<1>1. Len(path) \in 1 .. Len(path) /\ 1 \in 1 .. Len(path) /\ Len(path) \in Nat
  BY Paths
<1>2. \A i \in 1 .. Len(path) : at[i] \in Environment /\ path[i] \in Name
  BY Paths DEF Led
<1>3. \A i \in 1 .. Len(path) - 1 : i \in 1 .. Len(path) /\ i + 1 \in 1 .. Len(path)
  BY <1>1
<1>4. ASSUME NEW i \in 1 .. Len(path) - 1
      PROVE  held[at[i]][path[i]] = ModuleObject(at[i + 1]) /\ at[i + 1] \in Module
  <2>1. held[at[i]][path[i]] = ModuleObject(at[i + 1])
    BY DEF Led
  <2>2. held[at[i]][path[i]] \in Objects
    BY <1>2, <1>3
  <2> QED
    BY <2>1, <2>2, Kinds
<1> QED
  BY <1>1, <1>2, <1>3, <1>4 DEF Led

\* There is one way.
LEMMA LedOnce ==
  ASSUME NEW held, held \in [Environment -> [Name -> Objects]],
         NEW path \in Path, NEW r, NEW at, NEW bt, Led(held, r, path, at), Led(held, r, path, bt)
  PROVE  \A i \in 1 .. Len(path) : at[i] = bt[i]
<1> DEFINE S == {i \in 1 .. Len(path) : at[i] = bt[i]}
<1>1. 1 \in S
  BY LedIs
<1>2. ASSUME NEW i \in 1 .. Len(path) - 1, i \in S PROVE i + 1 \in S
  <2>1. /\ i + 1 \in 1 .. Len(path)
        /\ held[at[i]][path[i]] = ModuleObject(at[i + 1]) /\ held[bt[i]][path[i]] = ModuleObject(bt[i + 1])
    BY LedIs
  <2> QED
    BY <1>2, <2>1, Kinds
<1> HIDE DEF S
<1>3. 1 .. Len(path) \subseteq S
  BY <1>1, <1>2, LedIs, UpTo
<1> QED
  BY <1>3 DEF S

\* The way stays in the tree, until it goes into a shared module.
LEMMA LedUnder ==
  ASSUME NEW held, held \in [Environment -> [Name -> Objects]], NEW sh, Rule(held, sh),
         NEW path \in Path, NEW r \in Environment, NEW at, Led(held, r, path, at)
  PROVE  /\ \A i \in 1 .. Len(path) : at[i] \in sh \/ at[i] \in Under(held, sh, r)
         /\ \A i \in 1 .. Len(path) : (\E j \in 1 .. i - 1 : path[j] \in Builtin) => at[i] \in sh
<1> DEFINE S == {i \in 1 .. Len(path) :
                   /\ at[i] \in sh \/ at[i] \in Under(held, sh, r)
                   /\ (\E j \in 1 .. i - 1 : path[j] \in Builtin) => at[i] \in sh}
<1>1. 1 \in S
  BY LedIs, UnderIs
<1>2. ASSUME NEW i \in 1 .. Len(path) - 1, i \in S PROVE i + 1 \in S
  <2>1. /\ i \in 1 .. Len(path) /\ i + 1 \in 1 .. Len(path) /\ at[i + 1] \in Module
        /\ held[at[i]][path[i]] = ModuleObject(at[i + 1]) /\ at[i] \in Environment /\ path[i] \in Name
    BY LedIs
  <2>2. at[i + 1] \in sh <=> at[i] \in sh \/ path[i] \in Builtin
    BY <2>1 DEF Rule
  <2>3. at[i] \in sh \/ at[i] \in Under(held, sh, r)
    BY <1>2
  <2>4. at[i + 1] \in sh \/ at[i + 1] \in Under(held, sh, r)
    <3> DEFINE x == at[i]
               m == at[i + 1]
               n == path[i]
    <3>1. held[x][n] = ModuleObject(m) /\ n \in Name /\ m \in Module /\ (x \in sh => m \in sh)
          /\ (x \in sh \/ x \in Under(held, sh, r))
      BY <2>1, <2>2, <2>3
    <3> HIDE DEF x, m, n
    <3>2. m \in sh \/ m \in Under(held, sh, r)
      BY <3>1, UnderIs
    <3> QED
      BY <3>2 DEF m
  <2>5. ASSUME NEW j \in 1 .. (i + 1) - 1, path[j] \in Builtin PROVE at[i + 1] \in sh
    <3>1. j = i \/ j \in 1 .. i - 1
      OBVIOUS
    <3> QED
      BY <1>2, <2>2, <2>5, <3>1
  <2> QED
    BY <2>1, <2>4, <2>5
<1> HIDE DEF S
<1>3. 1 .. Len(path) \subseteq S
  BY <1>1, <1>2, LedIs, UpTo
<1> QED
  BY <1>3 DEF S

\* An own path has no name of a built-in module.
LEMMA OwnPath ==
  ASSUME NEW path \in Own
  PROVE  path \in Path /\ \A i \in 1 .. Len(path) : path[i] \notin Builtin
<1>1. path \in Path /\ \A i \in DOMAIN path : path[i] \notin Builtin
  BY DEF Own
<1>2. path \in Seq(Name)
  BY <1>1, Paths
<1> QED
  BY <1>1, <1>2

\* A path of one's own stays in the tree.
LEMMA LedOwn ==
  ASSUME NEW held, held \in [Environment -> [Name -> Objects]], NEW sh, Rule(held, sh),
         NEW path \in Own, NEW r \in Environment, r \notin sh, NEW at, Led(held, r, path, at)
  PROVE  \A i \in 1 .. Len(path) : at[i] \notin sh /\ at[i] \in Under(held, sh, r)
<1> DEFINE S == {i \in 1 .. Len(path) : at[i] \notin sh}
<1>0. path \in Path
  BY OwnPath
<1>1. 1 \in S
  BY <1>0, LedIs
<1>2. ASSUME NEW i \in 1 .. Len(path) - 1, i \in S PROVE i + 1 \in S
  <2>1. /\ i \in 1 .. Len(path) /\ i + 1 \in 1 .. Len(path) /\ at[i + 1] \in Module
        /\ held[at[i]][path[i]] = ModuleObject(at[i + 1]) /\ at[i] \in Environment /\ path[i] \in Name
    BY <1>0, LedIs
  <2>2. path[i] \notin Builtin
    BY <2>1, OwnPath
  <2> QED
    BY <1>2, <2>1, <2>2 DEF Rule
<1> HIDE DEF S
<1>3. 1 .. Len(path) \subseteq S
  BY <1>0, <1>1, <1>2, LedIs, UpTo
<1>4. \A i \in 1 .. Len(path) : at[i] \in sh \/ at[i] \in Under(held, sh, r)
  BY <1>0, LedUnder
<1> QED
  BY <1>3, <1>4 DEF S

-----------------------------------------------------------------------------
\* The invariant's parts.

\* Where the module of a file that runs from the environment r goes when it ends.
Placed(held, sh, f, r) ==
  /\ f.kind \in {"import", "define"} =>
       /\ f.name = f.path[Len(f.path)]
       /\ f.into \in sh \/ f.into \in Under(held, sh, r)
       /\ f.path \notin Own => f.into \in sh \/ f.name \in Builtin
       /\ f.path \notin Own /\ f.kind = "define" => f.old \in sh
  /\ f.kind \notin {"import", "define"} => f.into = r
  /\ f.kind # "define" => f.old = 0

\* Until it ends, nothing that is settled has its name, and its code has not been loaded.
OwnFrame(f) == f.kind \in {"import", "define"} /\ f.path \in Own
Waiting(held, states, counts, f, r) ==
  OwnFrame(f) =>
     /\ \E at : Led(held, r, f.path, at) /\ at[Len(f.path)] = f.into
     /\ f.kind = "import" => held[f.into][f.name] = Nothing
     /\ f.kind = "define" => /\ f.old \in Module /\ held[f.into][f.name] = ModuleObject(f.old)
                             /\ states[f.old] = "Defined"
     /\ counts[r][f.path] = 0

Open(held, states, fs, counts, sh) ==
  \A i \in DOMAIN fs : /\ Placed(held, sh, fs[i], EnvAt(fs, i - 1))
                       /\ Waiting(held, states, counts, fs[i], EnvAt(fs, i - 1))

\* What has been loaded is named.
Leads(held, states, r, path) == \E o \in Objects : Names(held, r, path, o) /\ SettledIn(states, o)
Loads(held, states, fs, counts) ==
  /\ \A e \in Environment, path \in Own : counts[e][path] <= 1
  /\ \A i \in 0 .. Len(fs), path \in Own :
       counts[EnvAt(fs, i)][path] # 0 => Leads(held, states, EnvAt(fs, i), path)

Strong(held, states, fs, counts, sh) ==
  /\ Tree(held, states, fs, sh)
  /\ Open(held, states, fs, counts, sh)
  /\ Loads(held, states, fs, counts)

\* What a path names in one environment, it names in the other ones too.
Stays(held, states, held2, states2, r) ==
  \A path \in Own, o \in Objects :
     Names(held, r, path, o) /\ SettledIn(states, o) => Names(held2, r, path, o) /\ SettledIn(states2, o)

-----------------------------------------------------------------------------
\* The environment of a running file, and the session, is the root of a tree.
LEMMA RootIs ==
  ASSUME NEW held, NEW states, NEW fs, NEW counts, NEW sh,
         Basic(held, states, fs, counts), Tree(held, states, fs, sh), NEW i \in 0 .. Len(fs)
  PROVE  /\ EnvAt(fs, i) \in Environment /\ EnvAt(fs, i) \notin sh /\ Free(held, EnvAt(fs, i))
         /\ There(states, EnvAt(fs, i))
<1>1. fs \in Seq(Frames) /\ held \in [Environment -> [Name -> Objects]]
  BY DEF Basic, TypesOf
<1>2. CASE i = 0
  <2>1. \A e \in Environment, n \in Name : held[e][n] # ModuleObject(0)
    <3>1. \A e \in Environment, n \in Name : held[e][n] \in Objects
      BY <1>1
    <3> QED
      BY <3>1, Kinds, Numbers
  <2> QED
    BY <1>2, <2>1, Numbers DEF EnvAt, Free, There, Tree
<1>3. CASE i # 0
  <2>1. i \in DOMAIN fs /\ fs[i] \in Frames
    BY <1>1, <1>3
  <2> QED
    BY <1>3, <2>1 DEF EnvAt, Free, Tree, Basic, Unheld, RootsAreThere, Frames
<1> QED
  BY <1>2, <1>3

\* The i-th file runs from the environment of the one below.
LEMMA RootOf ==
  ASSUME NEW fs \in Seq(Frames), NEW i \in DOMAIN fs
  PROVE  i - 1 \in 0 .. Len(fs) /\ fs[i].env = EnvAt(fs, i) /\ i \in 0 .. Len(fs)
         /\ fs[i] \in Frames /\ Len(fs) \in 0 .. Len(fs)
<1>1. i \in 1 .. Len(fs) /\ Len(fs) \in Nat
  OBVIOUS
<1> QED
  BY <1>1 DEF EnvAt

\* The environments in which something can change are those of no file that waits below.
LEMMA Elsewhere ==
  ASSUME NEW held, NEW states, NEW fs, NEW counts, NEW sh,
         Basic(held, states, fs, counts), Strong(held, states, fs, counts, sh),
         NEW i \in DOMAIN fs, OwnFrame(fs[i])
  PROVE  /\ fs[i].into \in Environment /\ There(states, fs[i].into) /\ fs[i].into \notin sh
         /\ fs[i].into \notin Under(held, sh, EnvAt(fs, Len(fs)))
         /\ fs[i].into \in Under(held, sh, EnvAt(fs, i - 1))
         /\ fs[i].name \in Name /\ fs[i].name \notin Builtin
         /\ EnvAt(fs, i - 1) # EnvAt(fs, Len(fs))
<1> DEFINE f == fs[i]
           r == EnvAt(fs, i - 1)
           top == EnvAt(fs, Len(fs))
<1>1. fs \in Seq(Frames) /\ held \in [Environment -> [Name -> Objects]]
  BY DEF Basic, TypesOf
<1>2. i - 1 \in 0 .. Len(fs) /\ f \in Frames /\ Len(fs) \in 0 .. Len(fs) /\ i \in 1 .. Len(fs)
  BY <1>1, RootOf
<1>3. r \in Environment /\ r \notin sh /\ Free(held, r) /\ top \in Environment /\ Free(held, top)
  BY <1>2, RootIs DEF Strong
<1>4. r # top
  <2>1. OfModule(f)
    BY DEF OwnFrame, OfModule
  <2>2. i - 1 \in 0 .. i - 1 /\ Len(fs) \in i .. Len(fs)
    BY <1>2
  <2> QED
    BY <1>2, <2>1, <2>2 DEF Basic, Nested
<1>5. PICK at : Led(held, r, f.path, at) /\ at[Len(f.path)] = f.into
  BY DEF Strong, Open, Waiting
<1>6. f.path \in Own /\ f.path \in Path
  BY OwnPath DEF OwnFrame
<1>7. Rule(held, sh) /\ Single(held, sh)
  BY DEF Strong, Tree
<1>8. Len(f.path) \in 1 .. Len(f.path) /\ f.path[Len(f.path)] \in Name
  BY <1>1, <1>5, <1>6, LedIs
<1>9. f.into \notin sh /\ f.into \in Under(held, sh, r)
  <2> HIDE DEF r, f
  <2> QED
    BY <1>1, <1>3, <1>5, <1>6, <1>7, <1>8, LedOwn
<1>10. f.into \notin Under(held, sh, top)
  <2> HIDE DEF r, f, top
  <2> QED
    BY <1>3, <1>4, <1>7, <1>9, Disjoint
<1>11. f.into \in Environment /\ There(states, f.into)
  BY <1>2 DEF Basic, RootsAreThere, Frames
<1>12. f.name \in Name /\ f.name \notin Builtin
  <2>1. f.name = f.path[Len(f.path)]
    BY DEF Strong, Open, Placed, OwnFrame
  <2> QED
    BY <1>6, <1>8, <2>1, OwnPath
<1> QED
  BY <1>4, <1>9, <1>10, <1>11, <1>12

-----------------------------------------------------------------------------
\* What a step keeps.

\* A path that begins in what is kept leads where it led.
LEMMA LedKept ==
  ASSUME NEW held, held \in [Environment -> [Name -> Objects]], NEW held2, NEW live,
         \A e \in live, n \in Name, m \in Module : held[e][n] = ModuleObject(m) => m \in live,
         \A e \in live : held2[e] = held[e],
         NEW path \in Path, NEW r \in live, NEW at, Led(held, r, path, at)
  PROVE  Led(held2, r, path, at) /\ \A i \in 1 .. Len(path) : at[i] \in live
<1> DEFINE S == {i \in 1 .. Len(path) : at[i] \in live}
<1>1. 1 \in S
  BY LedIs
<1>2. ASSUME NEW i \in 1 .. Len(path) - 1, i \in S PROVE i + 1 \in S
  <2>1. /\ i \in 1 .. Len(path) /\ i + 1 \in 1 .. Len(path) /\ at[i + 1] \in Module
        /\ held[at[i]][path[i]] = ModuleObject(at[i + 1]) /\ at[i] \in Environment /\ path[i] \in Name
    BY LedIs
  <2> QED
    BY <1>2, <2>1
<1> HIDE DEF S
<1>3. 1 .. Len(path) \subseteq S
  BY <1>1, <1>2, LedIs, UpTo
<1>4. \A i \in 1 .. Len(path) : at[i] \in live
  BY <1>3 DEF S
<1>5. \A i \in 1 .. Len(path) - 1 : i \in 1 .. Len(path) /\ held[at[i]][path[i]] = ModuleObject(at[i + 1])
  BY LedIs
<1> QED
  BY <1>4, <1>5 DEF Led

\* Destroying what nothing reaches keeps the trees, and what paths name.
LEMMA StrongKeeps ==
  ASSUME NEW held, NEW states, NEW fs, NEW counts, NEW live, NEW sh,
         Basic(held, states, fs, counts), Strong(held, states, fs, counts, sh),
         Keeps(live, held, states, fs, counts)
  PROVE  /\ Strong(store', state', stack', loads', sh \cap live)
         /\ Stays(held, states, store', state', 0)
<1> DEFINE keep == sh \cap live
<1>1. /\ live \subseteq Environment /\ 0 \in live /\ DOMAIN Provided \subseteq live
      /\ \A e \in live, n \in Name, m \in Module : held[e][n] = ModuleObject(m) => m \in live
      /\ \A e \in live : store'[e] = held[e] /\ loads'[e] = counts[e]
      /\ \A e \in Environment : e \notin live => store'[e] = Empty /\ loads'[e] = Never
      /\ \A m \in Module : m \in live => state'[m] = states[m]
      /\ stack' = fs
  BY DEF Keeps
<1>2. /\ held \in [Environment -> [Name -> Objects]] /\ fs \in Seq(Frames)
      /\ counts \in [Environment -> [Path -> 0..2]]
  BY DEF Basic, TypesOf
<1>3. \A i \in 0 .. Len(fs) : EnvAt(fs, i) \in live
  <2>1. \A i \in 0 .. Len(fs) : i = 0 \/ i \in DOMAIN fs
    BY <1>2
  <2> QED
    BY <1>1, <2>1 DEF Keeps, EnvAt
<1>4. \A i \in DOMAIN fs : fs[i].into \in live /\ fs[i].old \in live
  BY DEF Keeps
<1>5. Tree(store', state', fs, keep)
  <2>1. Rule(store', keep)
    BY <1>1, Kinds DEF Rule, Strong, Tree
  <2>2. Single(store', keep)
    BY <1>1, Kinds DEF Single, Strong, Tree
  <2> QED
    BY <1>1, <2>1, <2>2 DEF Strong, Tree
<1>6. ASSUME NEW r \in live, NEW path \in Path, NEW at, Led(held, r, path, at)
      PROVE  /\ Led(store', r, path, at) /\ at[Len(path)] \in live
             /\ store'[at[Len(path)]] = held[at[Len(path)]]
  <2>1. Led(store', r, path, at) /\ \A i \in 1 .. Len(path) : at[i] \in live
    BY <1>1, <1>2, <1>6, LedKept
  <2>2. Len(path) \in 1 .. Len(path)
    BY Paths
  <2> QED
    BY <1>1, <2>1, <2>2
<1>7. ASSUME NEW o \in Objects, SettledIn(states, o), NEW e \in live, NEW n \in Name, o = held[e][n]
      PROVE  SettledIn(state', o)
  BY <1>1, <1>7 DEF SettledIn
<1>8. ASSUME NEW r \in live PROVE Stays(held, states, store', state', r)
  <2>1. SUFFICES ASSUME NEW path \in Own, NEW o \in Objects, Names(held, r, path, o), SettledIn(states, o)
                 PROVE  Names(store', r, path, o) /\ SettledIn(state', o)
    BY DEF Stays
  <2>2. PICK at : Led(held, r, path, at) /\ o = held[at[Len(path)]][path[Len(path)]]
    BY <2>1 DEF Names
  <2>3. path \in Path /\ path[Len(path)] \in Name
    BY OwnPath, Paths, <1>2, <2>2, LedIs
  <2>4. /\ Led(store', r, path, at) /\ at[Len(path)] \in live
        /\ store'[at[Len(path)]] = held[at[Len(path)]]
    BY <1>6, <2>2, <2>3
  <2>5. SettledIn(state', o)
    BY <1>7, <2>1, <2>2, <2>3, <2>4
  <2> QED
    BY <2>2, <2>4, <2>5 DEF Names
<1>9. ASSUME NEW r \in live, NEW e \in live, e \in Under(held, sh, r)
      PROVE  e \in Under(store', keep, r)
  <2> DEFINE S == Under(store', keep, r) \cap live
  <2>1. r \in Environment
    BY <1>1
  <2>2. S \in SUBSET Environment /\ r \in S
    BY <1>1, <2>1, UnderIs
  <2>3. Closed(held, sh, S)
    <3>1. SUFFICES ASSUME NEW x \in S, NEW n \in Name, NEW m \in Module,
                          held[x][n] = ModuleObject(m), m \notin sh
                   PROVE  m \in S
      BY DEF Closed
    <3>2. m \in live /\ store'[x][n] = ModuleObject(m) /\ m \notin keep
      BY <1>1, <3>1
    <3>3. x \in Under(store', keep, r)
      OBVIOUS
    <3>4. m \in Under(store', keep, r)
      <4> HIDE DEF keep, S
      <4> QED
        BY <2>1, <3>2, <3>3, UnderIs
    <3> QED
      BY <3>2, <3>4
  <2> HIDE DEF S
  <2>4. Under(held, sh, r) \subseteq S
    BY <2>1, <2>2, <2>3, UnderIs
  <2> QED
    BY <1>9, <2>4 DEF S
<1> HIDE DEF keep
<1>10. ASSUME NEW i \in DOMAIN fs
       PROVE  /\ Placed(store', keep, fs[i], EnvAt(fs, i - 1))
              /\ Waiting(store', state', loads', fs[i], EnvAt(fs, i - 1))
  <2> DEFINE r == EnvAt(fs, i - 1)
             f == fs[i]
  <2>1. r \in live /\ f.into \in live /\ f.old \in live
    BY <1>2, <1>3, <1>4, RootOf
  <2>2. Placed(held, sh, f, r) /\ Waiting(held, states, counts, f, r)
    BY DEF Strong, Open
  <2> HIDE DEF r, f
  <2>3. Placed(store', keep, f, r)
    BY <1>9, <2>1, <2>2 DEF Placed, keep
  <2>4. ASSUME OwnFrame(f)
        PROVE  /\ \E at : Led(store', r, f.path, at) /\ at[Len(f.path)] = f.into
               /\ f.kind = "import" => store'[f.into][f.name] = Nothing
               /\ f.kind = "define" => /\ f.old \in Module /\ store'[f.into][f.name] = ModuleObject(f.old)
                                       /\ state'[f.old] = "Defined"
               /\ loads'[r][f.path] = 0
    <3>1. f.path \in Path
      BY <2>4, OwnPath DEF OwnFrame
    <3> QED
      BY <1>1, <1>6, <2>1, <2>2, <2>4, <3>1 DEF Waiting
  <2>5. Waiting(store', state', loads', f, r)
    BY <2>4 DEF Waiting
  <2> QED
    BY <2>3, <2>5 DEF f, r
<1>11. Loads(store', state', fs, loads')
  <2>1. ASSUME NEW e \in Environment, NEW path \in Own PROVE loads'[e][path] <= 1
    <3>1. path \in Path /\ Never[path] = 0
      BY OwnPath DEF Never
    <3> QED
      BY <1>1, <3>1 DEF Strong, Loads
  <2>2. ASSUME NEW i \in 0 .. Len(fs), NEW path \in Own, loads'[EnvAt(fs, i)][path] # 0
        PROVE  Leads(store', state', EnvAt(fs, i), path)
    <3>1. EnvAt(fs, i) \in live
      BY <1>3
    <3>2. counts[EnvAt(fs, i)][path] # 0
      BY <1>1, <2>2, <3>1
    <3>3. PICK o \in Objects : Names(held, EnvAt(fs, i), path, o) /\ SettledIn(states, o)
      BY <3>2 DEF Strong, Loads, Leads
    <3> QED
      BY <1>8, <3>1, <3>3 DEF Stays, Leads
  <2> QED
    BY <2>1, <2>2 DEF Loads
<1>12. Strong(store', state', stack', loads', keep) /\ Stays(held, states, store', state', 0)
  BY <1>1, <1>5, <1>8, <1>10, <1>11 DEF Strong, Open
<1> QED
  BY <1>12 DEF keep

-----------------------------------------------------------------------------
\* Files begin, go on and end.

\* The trees do not depend on which statements are left.
LEMMA StrongSame ==
  ASSUME NEW held, NEW states, NEW fs, NEW gs, NEW counts, NEW sh, fs \in Seq(Frames),
         Strong(held, states, fs, counts, sh), SameFrames(gs, fs)
  PROVE  Strong(held, states, gs, counts, sh)
<1>1. /\ DOMAIN gs = DOMAIN fs /\ DOMAIN fs = 1 .. Len(fs) /\ Len(gs) = Len(fs)
      /\ \A i \in 0 .. Len(fs) : EnvAt(gs, i) = EnvAt(fs, i)
  BY SameEnvAt DEF SameFrames
<1>2. Tree(held, states, gs, sh)
  BY <1>1 DEF Strong, Tree, SameFrames
<1>3. ASSUME NEW i \in DOMAIN gs
      PROVE  /\ Placed(held, sh, gs[i], EnvAt(gs, i - 1))
             /\ Waiting(held, states, counts, gs[i], EnvAt(gs, i - 1))
  <2>1. i \in DOMAIN fs /\ EnvAt(gs, i - 1) = EnvAt(fs, i - 1)
    BY <1>1, RootOf
  <2>2. /\ gs[i].kind = fs[i].kind /\ gs[i].into = fs[i].into
        /\ gs[i].name = fs[i].name /\ gs[i].path = fs[i].path /\ gs[i].old = fs[i].old
    BY <2>1 DEF SameFrames
  <2>3. /\ Placed(held, sh, fs[i], EnvAt(fs, i - 1))
        /\ Waiting(held, states, counts, fs[i], EnvAt(fs, i - 1))
    BY <2>1 DEF Strong, Open
  <2>4. Placed(held, sh, gs[i], EnvAt(gs, i - 1))
    BY <2>1, <2>2, <2>3 DEF Placed
  <2>5. Waiting(held, states, counts, gs[i], EnvAt(gs, i - 1))
    BY <2>1, <2>2, <2>3 DEF Waiting, OwnFrame
  <2> QED
    BY <2>4, <2>5
<1>4. Loads(held, states, gs, counts)
  BY <1>1 DEF Strong, Loads
<1> QED
  BY <1>2, <1>3, <1>4 DEF Strong, Open

\* When a file ends, the files below have their trees.
LEMMA StrongPop ==
  ASSUME NEW held, NEW states, NEW fs \in Seq(Frames), NEW counts, NEW sh,
         Strong(held, states, fs, counts, sh), fs # <<>>
  PROVE  Strong(held, states, Popped(fs), counts, sh)
<1> DEFINE gs == Popped(fs)
           n == Len(fs)
<1>1. /\ Len(gs) = n - 1 /\ n \in Nat \ {0}
      /\ DOMAIN fs = 1 .. n /\ DOMAIN gs = 1 .. n - 1
      /\ \A i \in 1 .. n - 1 : gs[i] = fs[i] /\ i \in DOMAIN fs
      /\ \A i \in 0 .. n - 1 : EnvAt(gs, i) = EnvAt(fs, i)
  BY PopMeans
<1> HIDE DEF gs, n
<1>2. Tree(held, states, gs, sh)
  BY <1>1 DEF Strong, Tree
<1>3. ASSUME NEW i \in DOMAIN gs
      PROVE  /\ Placed(held, sh, gs[i], EnvAt(gs, i - 1))
             /\ Waiting(held, states, counts, gs[i], EnvAt(gs, i - 1))
  <2>1. i \in DOMAIN fs /\ gs[i] = fs[i] /\ i - 1 \in 0 .. n - 1
    BY <1>1
  <2> QED
    BY <1>1, <2>1 DEF Strong, Open
<1>4. Loads(held, states, gs, counts)
  <2>1. 0 .. n - 1 \subseteq 0 .. n
    BY <1>1
  <2> QED
    BY <1>1, <2>1 DEF Strong, Loads, n
<1>5. Strong(held, states, gs, counts, sh)
  BY <1>2, <1>3, <1>4 DEF Strong, Open
<1> QED
  BY <1>5 DEF gs

\* A file may start in a module of its own, or in the environment it is started from.
LEMMA StrongPush ==
  ASSUME NEW held, NEW states, NEW fs \in Seq(Frames), NEW counts, NEW sh,
         Strong(held, states, fs, counts, sh), NEW f \in Frames,
         Placed(held, sh, f, EnvAt(fs, Len(fs))),
         Waiting(held, states, counts, f, EnvAt(fs, Len(fs))),
         f.env \notin sh, f.env = EnvAt(fs, Len(fs)) \/ counts[f.env] = Never
  PROVE  Strong(held, states, Append(fs, f), counts, sh)
<1> DEFINE gs == Append(fs, f)
           n == Len(fs)
<1>1. /\ Len(gs) = n + 1 /\ n \in Nat
      /\ DOMAIN fs = 1 .. n /\ DOMAIN gs = 1 .. n + 1 /\ gs[n + 1] = f
      /\ \A i \in 1 .. n : gs[i] = fs[i]
      /\ \A i \in 0 .. n : EnvAt(gs, i) = EnvAt(fs, i)
      /\ EnvAt(gs, n + 1) = f.env
  BY PushMeans
<1> HIDE DEF gs, n
<1>2. \A i \in 1 .. n + 1 : i \in 1 .. n \/ i = n + 1
  BY <1>1
<1>3. Tree(held, states, gs, sh)
  BY <1>1, <1>2 DEF Strong, Tree
<1>4. ASSUME NEW i \in DOMAIN gs
      PROVE  /\ Placed(held, sh, gs[i], EnvAt(gs, i - 1))
             /\ Waiting(held, states, counts, gs[i], EnvAt(gs, i - 1))
  <2>1. CASE i \in 1 .. n
    <3>1. i \in DOMAIN fs /\ gs[i] = fs[i] /\ i - 1 \in 0 .. n
      BY <1>1, <2>1
    <3> QED
      BY <1>1, <3>1 DEF Strong, Open
  <2>2. CASE i = n + 1
    <3>1. gs[i] = f /\ i - 1 = n /\ n \in 0 .. n
      BY <1>1, <2>2
    <3> QED
      BY <1>1, <3>1 DEF n
  <2> QED
    BY <1>1, <1>2, <2>1, <2>2
<1>5. Loads(held, states, gs, counts)
  <2>1. ASSUME NEW i \in 0 .. n + 1, NEW path \in Own, counts[EnvAt(gs, i)][path] # 0
        PROVE  Leads(held, states, EnvAt(gs, i), path)
    <3>1. CASE i \in 0 .. n
      BY <1>1, <2>1, <3>1 DEF Strong, Loads, n
    <3>2. CASE i = n + 1
      <4>1. CASE f.env = EnvAt(fs, n)
        <5>1. n \in 0 .. n
          BY <1>1
        <5> QED
          BY <1>1, <2>1, <3>2, <4>1, <5>1 DEF Strong, Loads, n
      <4>2. CASE counts[f.env] = Never
        <5>1. path \in Path
          BY OwnPath
        <5> QED
          BY <1>1, <2>1, <3>2, <4>2, <5>1 DEF Never
      <4> QED
        BY <4>1, <4>2 DEF n
    <3> QED
      BY <1>1, <3>1, <3>2
  <2> QED
    BY <1>1, <2>1 DEF Strong, Loads
<1>6. Strong(held, states, gs, counts, sh)
  BY <1>3, <1>4, <1>5 DEF Strong, Open
<1> QED
  BY <1>6 DEF gs

\* A path has been loaded from the environment of the file on top.
LEMMA StrongCount ==
  ASSUME NEW held, NEW states, NEW fs, NEW sh,
         Basic(held, states, fs, loads), Strong(held, states, fs, loads, sh),
         NEW path \in Path,
         path \in Own => /\ loads[EnvironmentOf(fs)][path] = 0
                         /\ Leads(held, states, EnvironmentOf(fs), path)
  PROVE  Strong(held, states, fs, Counted(EnvironmentOf(fs), path), sh)
<1> DEFINE new == Counted(EnvironmentOf(fs), path)
           env == EnvironmentOf(fs)
<1>1. loads \in [Environment -> [Path -> 0..2]] /\ fs \in Seq(Frames)
  BY DEF Basic, TypesOf
<1>2. env \in Environment /\ env = EnvAt(fs, Len(fs))
  BY <1>1, CurrentIsThere DEF Basic
<1>3. /\ \A e \in Environment, q \in Path : e # env \/ q # path => new[e][q] = loads[e][q]
      /\ path \in Own => new[env][path] = 1
  BY <1>1, <1>2 DEF Counted
<1> HIDE DEF new, env
<1>4. ASSUME NEW i \in DOMAIN fs
      PROVE  /\ Placed(held, sh, fs[i], EnvAt(fs, i - 1))
             /\ Waiting(held, states, new, fs[i], EnvAt(fs, i - 1))
  <2> DEFINE f == fs[i]
             r == EnvAt(fs, i - 1)
  <2>1. Placed(held, sh, f, r) /\ Waiting(held, states, loads, f, r)
    BY DEF Strong, Open
  <2>2. OwnFrame(f) => r # env /\ r \in Environment /\ f.path \in Path
    <3>1. OwnFrame(f) => r # env
      BY <1>2, Elsewhere
    <3>2. r \in Environment
      BY <1>1, RootOf, RootIs DEF Strong
    <3> QED
      BY <3>1, <3>2, OwnPath DEF OwnFrame
  <2> HIDE DEF f, r
  <2>3. Waiting(held, states, new, f, r)
    BY <1>3, <2>1, <2>2 DEF Waiting
  <2> QED
    BY <2>1, <2>3 DEF f, r
<1>5. Loads(held, states, fs, new)
  <2>1. ASSUME NEW e \in Environment, NEW q \in Own PROVE new[e][q] <= 1
    <3>1. q \in Path /\ loads[e][q] <= 1
      BY OwnPath DEF Strong, Loads
    <3> QED
      BY <1>3, <3>1
  <2>2. ASSUME NEW i \in 0 .. Len(fs), NEW q \in Own, new[EnvAt(fs, i)][q] # 0
        PROVE  Leads(held, states, EnvAt(fs, i), q)
    <3>1. q \in Path /\ EnvAt(fs, i) \in Environment
      BY OwnPath, RootIs DEF Strong
    <3>2. CASE EnvAt(fs, i) = env /\ q = path
      BY <3>2 DEF env
    <3>3. CASE EnvAt(fs, i) # env \/ q # path
      <4>1. loads[EnvAt(fs, i)][q] # 0
        BY <1>3, <2>2, <3>1, <3>3
      <4> QED
        BY <4>1 DEF Strong, Loads
    <3> QED
      BY <3>2, <3>3
  <2> QED
    BY <2>1, <2>2 DEF Loads
<1>6. Strong(held, states, fs, new, sh)
  BY <1>4, <1>5 DEF Strong, Open
<1> QED
  BY <1>6 DEF new

-----------------------------------------------------------------------------
\* What changes: names are given, and what shared modules hold is changed.

Changes(held, states, fs, sh, held2, states2, sh2) ==
  /\ sh \subseteq sh2 /\ sh2 \subseteq Module
  /\ \A m \in sh2 : states2[m] # "free"
  /\ \A i \in DOMAIN fs : fs[i].env \notin sh2
  /\ \A m \in sh2 : m \notin sh => Free(held, m)
  /\ Rule(held2, sh2) /\ Single(held2, sh2)
  /\ \A e \in Environment, n \in Name : held2[e][n] # held[e][n] =>
        /\ held[e][n] = Nothing \/ e \in sh \/ n \in Builtin
        /\ \A i \in DOMAIN fs : OwnFrame(fs[i]) => ~(e = fs[i].into /\ n = fs[i].name)
  /\ \A m \in Module : states2[m] # states[m] =>
        /\ m \in sh \/ Free(held, m)
        /\ states2[m] = "Defined" => states[m] = "free"

\* A change in the tree of the innermost file keeps what other files have found.
LEMMA StrongChange ==
  ASSUME NEW held, NEW states, NEW fs, NEW counts, NEW sh, NEW held2, NEW states2, NEW sh2,
         Basic(held, states, fs, counts), Strong(held, states, fs, counts, sh),
         Basic(held2, states2, fs, counts), Changes(held, states, fs, sh, held2, states2, sh2)
  PROVE  /\ Strong(held2, states2, fs, counts, sh2)
         /\ Stays(held, states, held2, states2, 0)
<1>1. /\ held \in [Environment -> [Name -> Objects]] /\ fs \in Seq(Frames)
      /\ held2 \in [Environment -> [Name -> Objects]]
  BY DEF Basic, TypesOf
<1>2. Rule(held, sh) /\ Single(held, sh) /\ sh \subseteq Module
  BY DEF Strong, Tree
<1>3. Tree(held2, states2, fs, sh2)
  BY DEF Changes, Tree, Strong
<1>4. ASSUME NEW e \in Environment, NEW n \in Name, held[e][n] # Nothing, e \notin sh, n \notin Builtin
      PROVE  held2[e][n] = held[e][n]
  BY <1>4 DEF Changes
<1>5. ASSUME NEW r \in Environment, r \notin sh, NEW path \in Own, NEW at, Led(held, r, path, at)
      PROVE  /\ Led(held2, r, path, at) /\ at[Len(path)] \in Environment /\ at[Len(path)] \notin sh
             /\ path[Len(path)] \in Name /\ path[Len(path)] \notin Builtin
  <2>1. path \in Path /\ \A i \in 1 .. Len(path) : path[i] \notin Builtin
    BY OwnPath
  <2>2. /\ Len(path) \in 1 .. Len(path)
        /\ \A i \in 1 .. Len(path) : at[i] \in Environment /\ path[i] \in Name
        /\ \A i \in 1 .. Len(path) - 1 : i \in 1 .. Len(path) /\ held[at[i]][path[i]] = ModuleObject(at[i + 1])
    BY <1>1, <1>5, <2>1, LedIs
  <2>3. \A i \in 1 .. Len(path) : at[i] \notin sh
    BY <1>1, <1>2, <1>5, LedOwn
  <2>4. ASSUME NEW i \in 1 .. Len(path) - 1 PROVE held2[at[i]][path[i]] = ModuleObject(at[i + 1])
    BY <1>4, <2>1, <2>2, <2>3, Kinds
  <2> QED
    BY <1>5, <2>1, <2>2, <2>3, <2>4 DEF Led
<1>6. ASSUME NEW o \in Objects, SettledIn(states, o), NEW e \in Environment, NEW n \in Name, o = held[e][n]
      PROVE  SettledIn(states2, o)
  <2>1. CASE o = Value
    BY <2>1 DEF SettledIn
  <2>2. ASSUME NEW m \in Module, o = ModuleObject(m), states[m] # "Defined" PROVE SettledIn(states2, o)
    <3>1. states[m] # "free"
      BY <1>6, <2>2 DEF Basic, HeldAreThere
    <3>2. states2[m] # "Defined"
      BY <2>2, <3>1 DEF Changes
    <3> QED
      BY <2>2, <3>2 DEF SettledIn
  <2> QED
    BY <1>6, <2>1, <2>2 DEF SettledIn
<1>7. ASSUME NEW r \in Environment, r \notin sh PROVE Stays(held, states, held2, states2, r)
  <2>1. SUFFICES ASSUME NEW path \in Own, NEW o \in Objects, Names(held, r, path, o), SettledIn(states, o)
                 PROVE  Names(held2, r, path, o) /\ SettledIn(states2, o)
    BY DEF Stays
  <2>2. PICK at : Led(held, r, path, at) /\ o = held[at[Len(path)]][path[Len(path)]]
    BY <2>1 DEF Names
  <2>3. /\ Led(held2, r, path, at) /\ at[Len(path)] \in Environment /\ at[Len(path)] \notin sh
        /\ path[Len(path)] \in Name /\ path[Len(path)] \notin Builtin
    BY <1>5, <1>7, <2>2
  <2>4. o # Nothing
    BY <2>1, Kinds DEF SettledIn
  <2>5. held2[at[Len(path)]][path[Len(path)]] = o
    BY <1>4, <2>2, <2>3, <2>4
  <2>6. SettledIn(states2, o)
    BY <1>6, <2>1, <2>2, <2>3
  <2> QED
    BY <2>3, <2>5, <2>6 DEF Names
<1>8. ASSUME NEW r \in Environment, r \notin sh, Free(held, r), NEW e \in Under(held, sh, r)
      PROVE  e \in Under(held2, sh2, r)
  <2> DEFINE S == Under(held2, sh2, r) \cup (Environment \ Under(held, sh, r))
  <2>1. S \in SUBSET Environment /\ r \in S
    BY UnderIs
  <2>2. Closed(held, sh, S)
    <3>1. SUFFICES ASSUME NEW x \in S, NEW n \in Name, NEW m \in Module,
                          held[x][n] = ModuleObject(m), m \notin sh, m \in Under(held, sh, r)
                   PROVE  m \in Under(held2, sh2, r)
      BY Numbers DEF Closed
    <3>2. x \in Environment
      BY <2>1
    <3>3. x \in Under(held, sh, r)
      BY <1>2, <1>8, <3>1, <3>2, Upwards
    <3>4. x \in Under(held2, sh2, r)
      BY <3>3
    <3>5. x \notin sh /\ n \notin Builtin
      BY <1>2, <3>1, <3>2 DEF Rule
    <3>6. held2[x][n] = ModuleObject(m)
      BY <1>4, <3>1, <3>2, <3>5, Kinds
    <3>7. m \notin sh2
      BY <3>1, <3>2 DEF Changes, Free
    <3> HIDE DEF S
    <3> QED
      BY <3>4, <3>6, <3>7, UnderIs
  <2> HIDE DEF S
  <2>3. Under(held, sh, r) \subseteq S
    BY <2>1, <2>2, UnderIs
  <2> QED
    BY <2>3 DEF S
<1>9. ASSUME NEW i \in DOMAIN fs
      PROVE  /\ Placed(held2, sh2, fs[i], EnvAt(fs, i - 1))
             /\ Waiting(held2, states2, counts, fs[i], EnvAt(fs, i - 1))
  <2> DEFINE f == fs[i]
             r == EnvAt(fs, i - 1)
  <2>1. r \in Environment /\ r \notin sh /\ Free(held, r)
    BY <1>1, RootOf, RootIs DEF Strong
  <2>2. Placed(held, sh, f, r) /\ Waiting(held, states, counts, f, r)
    BY DEF Strong, Open
  <2>3. sh \subseteq sh2
    BY DEF Changes
  <2>4. OwnFrame(f) => /\ f.into \in Environment /\ f.into \notin sh
                       /\ f.name \in Name /\ f.name \notin Builtin
                       /\ held2[f.into][f.name] = held[f.into][f.name]
    <3>1. OwnFrame(f) => /\ f.into \in Environment /\ f.into \notin sh
                         /\ f.name \in Name /\ f.name \notin Builtin
      BY Elsewhere
    <3> QED
      BY <3>1 DEF Changes
  <2> HIDE DEF f, r
  <2>5. Placed(held2, sh2, f, r)
    BY <1>8, <2>1, <2>2, <2>3 DEF Placed
  <2>6. ASSUME OwnFrame(f)
        PROVE  /\ \E at : Led(held2, r, f.path, at) /\ at[Len(f.path)] = f.into
               /\ f.kind = "import" => held2[f.into][f.name] = Nothing
               /\ f.kind = "define" => /\ f.old \in Module /\ held2[f.into][f.name] = ModuleObject(f.old)
                                       /\ states2[f.old] = "Defined"
               /\ counts[r][f.path] = 0
    <3>1. f.path \in Own
      BY <2>6 DEF OwnFrame
    <3>2. \E at : Led(held2, r, f.path, at) /\ at[Len(f.path)] = f.into
      BY <1>5, <2>1, <2>2, <2>6, <3>1 DEF Waiting
    <3>3. ASSUME f.kind = "define" PROVE states2[f.old] = "Defined"
      <4>1. f.old \in Module /\ held[f.into][f.name] = ModuleObject(f.old) /\ states[f.old] = "Defined"
        BY <2>2, <2>6, <3>3 DEF Waiting
      <4>2. f.old \notin sh
        BY <1>2, <2>4, <2>6, <4>1 DEF Rule
      <4>3. ~Free(held, f.old)
        BY <2>4, <2>6, <4>1 DEF Free
      <4> QED
        BY <4>1, <4>2, <4>3 DEF Changes
    <3> QED
      BY <2>2, <2>4, <2>6, <3>2, <3>3 DEF Waiting
  <2>7. Waiting(held2, states2, counts, f, r)
    BY <2>6 DEF Waiting
  <2> QED
    BY <2>5, <2>7 DEF f, r
<1>10. Loads(held2, states2, fs, counts)
  <2>1. ASSUME NEW i \in 0 .. Len(fs), NEW path \in Own, counts[EnvAt(fs, i)][path] # 0
        PROVE  Leads(held2, states2, EnvAt(fs, i), path)
    <3>1. EnvAt(fs, i) \in Environment /\ EnvAt(fs, i) \notin sh
      BY RootIs DEF Strong
    <3>2. Leads(held, states, EnvAt(fs, i), path)
      BY <2>1 DEF Strong, Loads
    <3> QED
      BY <1>7, <3>1, <3>2 DEF Leads, Stays
  <2> QED
    BY <2>1 DEF Strong, Loads
<1>11. 0 \in Environment /\ 0 \notin sh
  BY <1>2, Numbers
<1> QED
  BY <1>3, <1>7, <1>9, <1>10, <1>11 DEF Strong, Open

\* A module that has run is entered in a shared place: what is under it becomes shared.
LEMMA StrongShare ==
  ASSUME NEW held, NEW states, NEW fs, NEW counts, NEW sh,
         Basic(held, states, fs, counts), Strong(held, states, fs, counts, sh),
         NEW env \in Module, env \notin sh, states[env] # "free", Free(held, env),
         \A i \in DOMAIN fs : fs[i].env # env
  PROVE  \E sh2 : /\ Strong(held, states, fs, counts, sh2) /\ sh \subseteq sh2 /\ env \in sh2
                  /\ \A i \in 0 .. Len(fs) : \A e \in Under(held, sh, EnvAt(fs, i)) :
                       e \in Under(held, sh2, EnvAt(fs, i))
<1> DEFINE sh2 == sh \cup Under(held, sh, env)
<1>1. /\ held \in [Environment -> [Name -> Objects]] /\ fs \in Seq(Frames)
  BY DEF Basic, TypesOf
<1>2. /\ sh \subseteq Module /\ DOMAIN Provided \subseteq sh /\ \A m \in sh : states[m] # "free"
      /\ Rule(held, sh) /\ Single(held, sh) /\ env \in Environment
  BY Numbers DEF Strong, Tree
<1>3. ASSUME NEW i \in 0 .. Len(fs) PROVE EnvAt(fs, i) # env
  <2>1. i = 0 \/ i \in DOMAIN fs
    BY <1>1
  <2> QED
    BY <2>1, Numbers DEF EnvAt
<1>4. ASSUME NEW i \in 0 .. Len(fs)
      PROVE  /\ EnvAt(fs, i) \in Environment /\ EnvAt(fs, i) \notin sh /\ Free(held, EnvAt(fs, i))
             /\ \A e \in Under(held, sh, EnvAt(fs, i)) : e \notin sh2
  <2> DEFINE r == EnvAt(fs, i)
  <2>1. r \in Environment /\ r \notin sh /\ Free(held, r) /\ r # env
    BY <1>3, RootIs DEF Strong
  <2> HIDE DEF r
  <2>2. \A e \in Under(held, sh, r) : e \notin Under(held, sh, env)
    BY <1>2, <2>1, Disjoint
  <2>3. \A e \in Under(held, sh, r) : e \notin sh
    BY <2>1, UnderNotShared
  <2> QED
    BY <2>1, <2>2, <2>3 DEF r
<1>5. ASSUME NEW x \in Environment, NEW n \in Name, NEW m \in Module, held[x][n] = ModuleObject(m)
      PROVE  m \in sh2 <=> x \in sh2 \/ n \in Builtin
  <2>1. ASSUME m \in Under(held, sh, env), m \notin sh PROVE x \in Under(held, sh, env)
    BY <1>2, <1>5, <2>1, Upwards
  <2>2. ASSUME x \in Under(held, sh, env), m \notin sh PROVE m \in Under(held, sh, env)
    BY <1>2, <1>5, <2>2, UnderIs
  <2>3. m \in sh <=> x \in sh \/ n \in Builtin
    BY <1>2, <1>5 DEF Rule
  <2> QED
    BY <2>1, <2>2, <2>3
<1>6. Tree(held, states, fs, sh2)
  <2>1. sh2 \subseteq Module
    <3> DEFINE S == Environment \ {0}
    <3>1. S \in SUBSET Environment /\ env \in S /\ Closed(held, sh, S)
      BY Numbers DEF Closed
    <3>2. Under(held, sh, env) \subseteq S
      <4> HIDE DEF S
      <4> QED
        BY <1>2, <3>1, UnderIs
    <3> QED
      BY <1>2, <3>2, Numbers
  <2>2. ASSUME NEW m \in sh2 PROVE states[m] # "free"
    <3> DEFINE S == {e \in Environment : There(states, e)}
    <3>1. S \in SUBSET Environment /\ env \in S /\ Closed(held, sh, S)
      BY <1>2, Numbers DEF Closed, There, Basic, HeldAreThere
    <3>2. Under(held, sh, env) \subseteq S
      <4> HIDE DEF S
      <4> QED
        BY <1>2, <3>1, UnderIs
    <3> QED
      BY <1>2, <2>1, <3>2, Numbers DEF There
  <2>3. ASSUME NEW i \in DOMAIN fs PROVE fs[i].env \notin sh2
    <3>1. i \in 0 .. Len(fs) /\ fs[i].env = EnvAt(fs, i)
      BY <1>1, RootOf
    <3> QED
      BY <1>4, <3>1, UnderIs
  <2>4. Rule(held, sh2) /\ Single(held, sh2)
    BY <1>2, <1>5 DEF Rule, Single
  <2> QED
    BY <1>2, <2>1, <2>2, <2>3, <2>4 DEF Tree
<1>7. ASSUME NEW i \in 0 .. Len(fs), NEW e \in Under(held, sh, EnvAt(fs, i))
      PROVE  e \in Under(held, sh2, EnvAt(fs, i))
  <2> DEFINE r == EnvAt(fs, i)
             S == Under(held, sh, r) \cap Under(held, sh2, r)
  <2>1. /\ r \in Environment /\ \A x \in Under(held, sh, r) : x \notin sh2
    BY <1>4
  <2> HIDE DEF r
  <2>2. S \in SUBSET Environment /\ r \in S
    BY <2>1, UnderIs
  <2>3. Closed(held, sh, S)
    <3>1. SUFFICES ASSUME NEW x \in S, NEW n \in Name, NEW m \in Module,
                          held[x][n] = ModuleObject(m), m \notin sh
                   PROVE  m \in S
      BY DEF Closed
    <3>2. m \in Under(held, sh, r)
      <4>1. x \in Under(held, sh, r)
        OBVIOUS
      <4> HIDE DEF S
      <4> QED
        BY <2>1, <3>1, <4>1, UnderIs
    <3>3. m \notin sh2
      BY <2>1, <3>2
    <3>4. m \in Under(held, sh2, r)
      <4>1. x \in Under(held, sh2, r)
        OBVIOUS
      <4> HIDE DEF S, sh2
      <4> QED
        BY <2>1, <3>1, <3>3, <4>1, UnderIs
    <3> QED
      BY <3>2, <3>4
  <2>4. Under(held, sh, r) \subseteq S
    <3> HIDE DEF S
    <3> QED
      BY <2>1, <2>2, <2>3, UnderIs
  <2>5. e \in Under(held, sh, r)
    BY <1>7 DEF r
  <2>6. e \in Under(held, sh2, r)
    BY <2>4, <2>5
  <2> QED
    BY <2>6 DEF r
<1>8. ASSUME NEW i \in DOMAIN fs
      PROVE  Placed(held, sh2, fs[i], EnvAt(fs, i - 1))
  <2> DEFINE f == fs[i]
             r == EnvAt(fs, i - 1)
  <2>1. i - 1 \in 0 .. Len(fs)
    BY <1>1, RootOf
  <2>2. \A e \in Under(held, sh, r) : e \in Under(held, sh2, r)
    BY <1>7, <2>1
  <2>3. Placed(held, sh, f, r)
    BY DEF Strong, Open
  <2>4. sh \subseteq sh2
    OBVIOUS
  <2> HIDE DEF r, f, sh2
  <2>5. Placed(held, sh2, f, r)
    BY <2>2, <2>3, <2>4 DEF Placed
  <2> QED
    BY <2>5 DEF f, r
<1>9. sh \subseteq sh2 /\ env \in sh2
  BY <1>2, UnderIs
<1> HIDE DEF sh2
<1>10. Strong(held, states, fs, counts, sh2)
  BY <1>6, <1>8 DEF Strong, Open
<1> QED
  BY <1>7, <1>9, <1>10

-----------------------------------------------------------------------------
\* The way to a submodule.

\* What is made on the way is not there already, and there is no other like it.
LEMMA MadeOnce ==
  ASSUME Basic(store, state, stack, loads), NEW path \in Path, NEW at \in Ways(path, Len(path)),
         NEW k \in MadeAt(path, at), NEW i \in 1 .. Len(path), at[i] = at[k + 1]
  PROVE  i = k + 1
<1>1. Len(path) \in Nat /\ Len(path) \in 1 .. Len(path)
  BY Paths
<1>2. \A j \in MadeAt(path, at) : j \in 1 .. Len(path) - 1 /\ \A p \in 1 .. j : at[p] # at[j + 1]
  <2>1. SUFFICES ASSUME NEW j \in MadeAt(path, at), NEW p \in 1 .. j
                 PROVE  j \in 1 .. Len(path) - 1 /\ at[p] # at[j + 1]
    BY DEF MadeAt
  <2>2. j \in 1 .. Len(path) - 1 /\ store[at[j]][path[j]] = Nothing
    BY DEF MadeAt
  <2>3. New(at[j + 1], {at[q] : q \in 1 .. j})
    BY <2>2, Kinds DEF Ways, Way
  <2> QED
    BY <2>2, <2>3 DEF New
<1>3. k \in 1 .. Len(path) - 1
  BY <1>2
<1>4. ~(i <= k)
  <2>1. i <= k => i \in 1 .. k
    BY <1>1, <1>3
  <2> QED
    BY <1>2, <2>1
<1>5. ~(k + 1 < i)
  <2>1. SUFFICES ASSUME k + 1 < i PROVE FALSE
    OBVIOUS
  <2>2. i - 1 \in 1 .. Len(path) - 1 /\ k + 1 \in 1 .. i - 1 /\ (i - 1) + 1 = i
    BY <1>1, <1>3, <2>1
  <2>3. i - 1 \notin MadeAt(path, at)
    BY <1>2, <2>2
  <2>4. store[at[i - 1]][path[i - 1]] = ModuleObject(at[i])
    BY <2>2, <2>3, MadeOnTheWay
  <2>5. at[i - 1] \in Environment /\ path[i - 1] \in Name /\ at[i] \in Module
    <3>1. /\ \A j \in 1 .. Len(path) : at[j] \in Environment /\ path[j] \in Name
          /\ \A j \in 1 .. Len(path) - 1 : j \in 1 .. Len(path) /\ at[j + 1] \in Module
      BY <1>1, WayFacts
    <3> QED
      BY <2>2, <3>1
  <2>6. state[at[i]] # "free"
    BY <2>4, <2>5 DEF Basic, HeldAreThere
  <2>7. state[at[k + 1]] = "free"
    BY MadeOnTheWay
  <2> QED
    BY <2>6, <2>7
<1> QED
  BY <1>1, <1>3, <1>4, <1>5

\* Making modules on the way to a submodule is such a change.
LEMMA StrongWay ==
  ASSUME Basic(store, state, stack, loads), NEW sh, Strong(store, state, stack, loads, sh),
         NEW path \in Path, NEW at \in Ways(path, Len(path))
  PROVE  \E sh2 : /\ sh \subseteq sh2
                  /\ Strong(StoreWith(path, at), StateWith(path, at), stack, loads, sh2)
                  /\ Stays(store, state, StoreWith(path, at), StateWith(path, at), 0)
<1> DEFINE held == StoreWith(path, at)
           states == StateWith(path, at)
           made == MadeAt(path, at)
           Goes(i) == \E j \in 1 .. i : at[j] \in sh \/ path[j] \in Builtin
           sh2 == sh \cup {m \in Module : \E i \in made : at[i + 1] = m /\ Goes(i)}
<1>1. Basic(held, states, stack, loads)
  BY BasicWay
<1>2. /\ made \subseteq 1 .. Len(path) - 1
      /\ \A i \in made : state[at[i + 1]] = "free" /\ at[i + 1] \in Module
      /\ \A i \in 1 .. Len(path) - 1 : i \notin made => store[at[i]][path[i]] = ModuleObject(at[i + 1])
      /\ \A m \in Module : \/ states[m] = state[m]
                           \/ states[m] = "Defined" /\ state[m] = "free" /\ \E i \in made : at[i + 1] = m
      /\ \A i \in made : states[at[i + 1]] = "Defined"
      /\ \A e \in Environment, n \in Name :
           \/ held[e][n] = store[e][n]
           \/ \E i \in made : at[i] = e /\ path[i] = n /\ held[e][n] = ModuleObject(at[i + 1])
      /\ \A i \in made : store[at[i]][path[i]] = Nothing
  BY MadeOnTheWay DEF MadeAt
<1>3. Len(path) \in 1 .. Len(path) /\ Len(path) \in Nat
  BY Paths
<1>4. /\ at[1] = Current
      /\ \A i \in 1 .. Len(path) : at[i] \in Environment /\ path[i] \in Name
      /\ \A i \in 1 .. Len(path) - 1 :
           i \in 1 .. Len(path) /\ i + 1 \in 1 .. Len(path) /\ at[i + 1] \in Module
  BY <1>3, WayFacts
<1>5. \A k \in made, i \in 1 .. Len(path) : at[i] = at[k + 1] => i = k + 1
  BY MadeOnce
<1>6. /\ sh \subseteq Module /\ \A m \in sh : state[m] # "free"
      /\ Rule(store, sh) /\ Single(store, sh)
  BY DEF Strong, Tree
<1>7. \A m \in Module : state[m] = "free" => Free(store, m) /\ m \notin sh /\ \A n \in Name : store[m][n] = Nothing
  BY <1>6, Kinds DEF Basic, HeldAreThere, FreeIsEmpty, Free
<1>8. /\ Current \in Environment /\ Current \notin sh /\ There(state, Current)
      /\ Current = EnvAt(stack, Len(stack))
  <2>1. Current = EnvAt(stack, Len(stack)) /\ Len(stack) \in 0 .. Len(stack)
    BY Here DEF Basic, TypesOf
  <2> QED
    BY <2>1, RootIs DEF Strong
<1>9. 1 \in 1 .. Len(path)
  BY <1>3
<1> HIDE DEF held, states, made
<1>10. \A m \in Module : m \in sh2 /\ m \notin sh => state[m] = "free" /\ states[m] = "Defined"
  BY <1>2
<1>11. sh \subseteq sh2 /\ sh2 \subseteq Module
  BY <1>6
\* The way goes into shared modules and stays there.
<1>12. ASSUME NEW i \in made, Goes(i) PROVE at[i] \in sh2 \/ path[i] \in Builtin
  <2> DEFINE S == {k \in 1 .. Len(path) :
                     (\E j \in 1 .. k - 1 : at[j] \in sh \/ path[j] \in Builtin) => at[k] \in sh2}
  <2>1. 1 \in S
    BY <1>9
  <2>2. ASSUME NEW k \in 1 .. Len(path) - 1, k \in S PROVE k + 1 \in S
    <3>1. SUFFICES ASSUME NEW j \in 1 .. (k + 1) - 1, at[j] \in sh \/ path[j] \in Builtin
                   PROVE  at[k + 1] \in sh2
      BY <1>4
    <3>2. k \in 1 .. Len(path) /\ at[k + 1] \in Module /\ at[k] \in Environment /\ path[k] \in Name
      BY <1>4
    <3>3. CASE k \in made
      <4>1. j \in 1 .. k
        OBVIOUS
      <4>2. Goes(k)
        BY <3>1, <4>1
      <4> QED
        BY <3>2, <3>3, <4>2
    <3>4. CASE k \notin made
      <4>1. store[at[k]][path[k]] = ModuleObject(at[k + 1])
        BY <1>2, <3>4
      <4>2. at[k] \in sh \/ path[k] \in Builtin
        <5>1. CASE j = k
          BY <3>1, <5>1
        <5>2. CASE j # k
          <6>1. j \in 1 .. k - 1
            BY <5>2
          <6>2. at[k] \in sh2
            BY <2>2, <3>1, <6>1
          <6>3. at[k] \in Module => state[at[k]] # "free"
            BY <1>7, <3>2, <4>1, Kinds
          <6> HIDE DEF sh2
          <6> QED
            BY <1>10, <1>11, <6>2, <6>3
        <5> QED
          BY <5>1, <5>2
      <4>3. at[k + 1] \in sh
        BY <1>6, <3>2, <4>1, <4>2 DEF Rule
      <4> QED
        BY <1>11, <4>3
    <3> QED
      BY <3>3, <3>4
  <2> HIDE DEF S
  <2>3. 1 .. Len(path) \subseteq S
    BY <1>3, <2>1, <2>2, UpTo
  <2>4. i \in S /\ i \in Nat
    BY <1>2, <1>4, <2>3
  <2>5. PICK j \in 1 .. i : at[j] \in sh \/ path[j] \in Builtin
    BY <1>12
  <2>6. CASE j = i
    BY <2>5, <2>6
  <2>7. CASE j # i
    <3>1. j \in 1 .. i - 1
      BY <2>4, <2>7
    <3> QED
      BY <2>4, <2>5, <3>1 DEF S
  <2> QED
    BY <2>6, <2>7
<1>13. ASSUME NEW i \in made PROVE at[i + 1] \in sh2 <=> at[i] \in sh2 \/ path[i] \in Builtin
  <2>1. i \in 1 .. Len(path) - 1 /\ i \in 1 .. Len(path) /\ i + 1 \in 1 .. Len(path) /\ at[i + 1] \in Module
    BY <1>2, <1>4
  <2>2. at[i + 1] \notin sh
    BY <1>2, <1>7
  <2>3. ASSUME NEW k \in made, at[k + 1] = at[i + 1] PROVE k = i
    <3>1. i + 1 = k + 1 /\ k \in 1 .. Len(path) - 1
      BY <1>2, <1>5, <2>1, <2>3
    <3> QED
      BY <2>1, <3>1
  <2>4. at[i + 1] \in sh2 <=> Goes(i)
    BY <2>1, <2>2, <2>3
  <2>5. ASSUME at[i] \in sh2 PROVE Goes(i)
    <3>1. CASE at[i] \in sh
      <4>1. i \in 1 .. i
        BY <2>1
      <4> QED
        BY <3>1, <4>1
    <3>2. CASE \E k \in made : at[k + 1] = at[i] /\ Goes(k)
      <4>1. PICK k \in made : at[k + 1] = at[i] /\ Goes(k)
        BY <3>2
      <4>2. i = k + 1 /\ k \in 1 .. Len(path) - 1
        BY <1>2, <1>5, <2>1, <4>1
      <4>3. 1 .. k \subseteq 1 .. i
        BY <4>2
      <4> QED
        BY <4>1, <4>3
    <3> QED
      BY <2>5, <3>1, <3>2
  <2>6. ASSUME path[i] \in Builtin PROVE Goes(i)
    <3>1. i \in 1 .. i
      BY <2>1
    <3> QED
      BY <2>6, <3>1
  <2> HIDE DEF Goes, sh2
  <2> QED
    BY <1>12, <2>4, <2>5, <2>6
<1>14. ASSUME NEW e \in Environment, NEW n \in Name, NEW m \in Module, held[e][n] = ModuleObject(m)
       PROVE  \/ store[e][n] = ModuleObject(m)
              \/ \E i \in made : at[i] = e /\ path[i] = n /\ at[i + 1] = m
  BY <1>2, <1>14, Kinds
<1>15. Rule(held, sh2)
  <2>1. SUFFICES ASSUME NEW e \in Environment, NEW n \in Name, NEW m \in Module, held[e][n] = ModuleObject(m)
                 PROVE  m \in sh2 <=> e \in sh2 \/ n \in Builtin
    BY DEF Rule
  <2>2. CASE store[e][n] = ModuleObject(m)
    <3>1. state[m] # "free" /\ (e \in Module => state[e] # "free")
      BY <1>7, <2>2, Kinds DEF Free
    <3>2. (m \in sh2 <=> m \in sh) /\ (e \in sh2 <=> e \in sh)
      <4> HIDE DEF sh2
      <4> QED
        BY <1>10, <1>11, <3>1
    <3>3. m \in sh <=> e \in sh \/ n \in Builtin
      BY <1>6, <2>2 DEF Rule
    <3> QED
      BY <3>2, <3>3
  <2>3. CASE \E i \in made : at[i] = e /\ path[i] = n /\ at[i + 1] = m
    <3> HIDE DEF sh2
    <3> QED
      BY <1>13, <2>3
  <2> QED
    BY <1>14, <2>1, <2>2, <2>3
<1>16. Single(held, sh2)
  <2>1. SUFFICES ASSUME NEW e1 \in Environment, NEW e2 \in Environment, NEW n1 \in Name, NEW n2 \in Name,
                        NEW m \in Module, held[e1][n1] = ModuleObject(m), held[e2][n2] = ModuleObject(m),
                        m \notin sh2
                 PROVE  e1 = e2 /\ n1 = n2
    BY DEF Single
  <2>2. CASE store[e1][n1] = ModuleObject(m) /\ store[e2][n2] = ModuleObject(m)
    BY <1>6, <1>11, <2>1, <2>2 DEF Single
  <2>3. ASSUME NEW e \in Environment, NEW n \in Name, store[e][n] = ModuleObject(m),
               NEW i \in made, at[i + 1] = m
        PROVE  FALSE
    BY <1>2, <1>7, <2>3 DEF Free
  <2>4. ASSUME NEW i \in made, at[i] = e1, path[i] = n1, at[i + 1] = m,
               NEW k \in made, at[k] = e2, path[k] = n2, at[k + 1] = m
        PROVE  e1 = e2 /\ n1 = n2
    <3>1. i \in 1 .. Len(path) - 1 /\ k \in 1 .. Len(path) - 1 /\ i + 1 \in 1 .. Len(path)
      BY <1>2, <1>4
    <3>2. i + 1 = k + 1
      BY <1>5, <2>4, <3>1
    <3>3. i = k
      BY <3>1, <3>2
    <3> QED
      BY <2>4, <3>3
  <2> HIDE DEF sh2
  <2> QED
    BY <1>14, <2>1, <2>2, <2>3, <2>4
\* No file that waits below waits for what is made here.
<1>17. ASSUME NEW i \in 1 .. Len(path), NEW k \in DOMAIN stack, OwnFrame(stack[k])
       PROVE  at[i] # stack[k].into
  <2> DEFINE S == {j \in 1 .. Len(path) :
                     \/ at[j] \in Module /\ state[at[j]] = "free"
                     \/ at[j] \in sh \/ at[j] \in Under(store, sh, Current)}
  <2>1. 1 \in S
    BY <1>4, <1>8, <1>9, UnderIs
  <2>2. ASSUME NEW j \in 1 .. Len(path) - 1, j \in S PROVE j + 1 \in S
    <3>1. /\ j \in 1 .. Len(path) /\ j + 1 \in 1 .. Len(path) /\ at[j + 1] \in Module
          /\ at[j] \in Environment /\ path[j] \in Name
      BY <1>4
    <3>2. CASE j \in made
      BY <1>2, <3>1, <3>2
    <3>3. CASE j \notin made
      <4>1. store[at[j]][path[j]] = ModuleObject(at[j + 1])
        BY <1>2, <3>3
      <4>2. at[j] \in sh \/ at[j] \in Under(store, sh, Current)
        BY <1>7, <2>2, <3>1, <4>1, Kinds
      <4> DEFINE x == at[j]
                 m == at[j + 1]
                 n == path[j]
      <4>3. store[x][n] = ModuleObject(m) /\ x \in Environment /\ n \in Name /\ m \in Module
            /\ (x \in sh \/ x \in Under(store, sh, Current))
        BY <3>1, <4>1, <4>2
      <4> HIDE DEF x, m, n
      <4>4. m \in sh \/ m \in Under(store, sh, Current)
        BY <1>6, <1>8, <4>3, UnderIs DEF Rule
      <4> QED
        BY <3>1, <4>4 DEF m
    <3> QED
      BY <3>2, <3>3
  <2> HIDE DEF S
  <2>3. 1 .. Len(path) \subseteq S
    BY <1>3, <2>1, <2>2, UpTo
  <2>4. \/ at[i] \in Module /\ state[at[i]] = "free"
        \/ at[i] \in sh \/ at[i] \in Under(store, sh, Current)
    BY <2>3 DEF S
  <2>5. /\ There(state, stack[k].into) /\ stack[k].into \notin sh
        /\ stack[k].into \notin Under(store, sh, Current)
    BY <1>8, <1>17, Elsewhere
  <2> QED
    BY <2>4, <2>5, Numbers DEF There
<1>18. Changes(store, state, stack, sh, held, states, sh2)
  <2>1. \A m \in sh2 : states[m] # "free"
    <3>1. \A m \in sh : states[m] # "free"
      BY <1>2, <1>6
    <3> HIDE DEF sh2
    <3> QED
      BY <1>10, <1>11, <3>1
  <2>2. \A k \in DOMAIN stack : stack[k].env \notin sh2
    <3>1. \A k \in DOMAIN stack : stack[k].env \notin sh /\ There(state, stack[k].env)
      BY DEF Strong, Tree, Basic, RootsAreThere
    <3> HIDE DEF sh2
    <3> QED
      BY <1>10, <1>11, <3>1, Numbers DEF There
  <2>3. \A m \in sh2 : m \notin sh => Free(store, m)
    <3> HIDE DEF sh2
    <3> QED
      BY <1>7, <1>10, <1>11
  <2>4. ASSUME NEW e \in Environment, NEW n \in Name, held[e][n] # store[e][n]
        PROVE  /\ store[e][n] = Nothing
               /\ \A k \in DOMAIN stack : OwnFrame(stack[k]) => ~(e = stack[k].into /\ n = stack[k].name)
    BY <1>2, <1>4, <1>17, <2>4
  <2>5. ASSUME NEW m \in Module, states[m] # state[m]
        PROVE  Free(store, m) /\ (states[m] = "Defined" => state[m] = "free")
    BY <1>2, <1>7, <2>5
  <2> HIDE DEF sh2
  <2> QED
    BY <1>11, <1>15, <1>16, <2>1, <2>2, <2>3, <2>4, <2>5 DEF Changes
<1> HIDE DEF sh2
<1>19. /\ Strong(held, states, stack, loads, sh2)
       /\ Stays(store, state, held, states, 0)
  BY <1>1, <1>18, StrongChange
<1> QED
  BY <1>11, <1>19 DEF held, states

\* Where one module is made, all that follow are.
LEMMA MadeFrom ==
  ASSUME Basic(store, state, stack, loads), NEW path \in Path, NEW at \in Ways(path, Len(path)),
         NEW i \in MadeAt(path, at), NEW c \in MadeAt(path, at), at[c] = at[i]
  PROVE  ~(i < c)
<1>1. Len(path) \in Nat /\ Len(path) \in 1 .. Len(path) /\ Len(path) - 1 \in Nat
  BY Paths
<1>2. MadeAt(path, at) \subseteq 1 .. Len(path) - 1
  BY MadeOnTheWay
<1>3. SUFFICES ASSUME i < c PROVE FALSE
  OBVIOUS
<1> DEFINE S == {k \in 1 .. Len(path) - 1 : i <= k => k \in MadeAt(path, at)}
<1>4. 1 \in S
  <2>1. 1 \in 1 .. Len(path) - 1 /\ i \in Nat /\ 1 <= i
    BY <1>1, <1>2, i \in MadeAt(path, at), 1 <= Len(path) - 1
  <2> QED
    BY <2>1
<1>5. ASSUME NEW k \in 1 .. (Len(path) - 1) - 1, k \in S PROVE k + 1 \in S
  <2>1. k \in 1 .. Len(path) - 1 /\ k + 1 \in 1 .. Len(path) - 1 /\ k + 1 \in 1 .. Len(path)
    BY <1>1
  <2>2. CASE k \in MadeAt(path, at)
    <3>1. state[at[k + 1]] = "free" /\ at[k + 1] \in Module
      BY <2>2, MadeOnTheWay
    <3>2. path[k + 1] \in Name
      BY <2>1, Paths
    <3>3. store[at[k + 1]] = Empty
      BY <3>1 DEF Basic, FreeIsEmpty
    <3> QED
      BY <2>1, <3>2, <3>3 DEF MadeAt, Empty
  <2>3. CASE k \notin MadeAt(path, at)
    <3>1. ~(i <= k) /\ i \in Nat
      BY <1>2, <1>5, <2>3
    <3>2. i <= k + 1 => i = k + 1
      BY <2>1, <3>1
    <3> QED
      BY <2>1, <3>2
  <2> QED
    BY <2>2, <2>3
<1> HIDE DEF S
<1>6. 1 .. Len(path) - 1 \subseteq S
  BY <1>1, <1>4, <1>5, UpTo
<1>7. i \in 1 .. Len(path) - 1 /\ c \in 1 .. Len(path) - 1
  BY <1>2
<1>8. /\ c - 1 \in 1 .. Len(path) - 1 /\ (c - 1) + 1 = c /\ i <= c - 1 /\ i \in 1 .. Len(path)
  BY <1>1, <1>3, <1>7
<1>9. c - 1 \in MadeAt(path, at)
  BY <1>6, <1>8 DEF S
<1>10. i = (c - 1) + 1
  BY <1>8, <1>9, MadeOnce
<1> QED
  BY <1>3, <1>7, <1>10

\* The way is the one that the path leads.
LEMMA WayLeads ==
  ASSUME Basic(store, state, stack, loads), NEW path \in Path, NEW at \in Ways(path, Len(path))
  PROVE  Led(StoreWith(path, at), Current, path, at)
<1>1. /\ \A i \in 1 .. Len(path) : at[i] \in Environment /\ path[i] \in Name
      /\ \A i \in 1 .. Len(path) - 1 : i \in 1 .. Len(path)
      /\ at[1] = Current
  BY Paths, WayFacts
<1>2. ASSUME NEW i \in 1 .. Len(path) - 1
      PROVE  StoreWith(path, at)[at[i]][path[i]] = ModuleObject(at[i + 1])
  <2>1. CASE i \in MadeAt(path, at)
    <3> DEFINE c == CHOOSE j \in MadeAt(path, at) : at[j] = at[i] /\ path[j] = path[i]
    <3>1. c \in MadeAt(path, at) /\ at[c] = at[i] /\ path[c] = path[i]
      BY <2>1
    <3>2. StoreWith(path, at)[at[i]][path[i]] = ModuleObject(at[1 + c])
      BY <1>1, <2>1 DEF StoreWith
    <3> HIDE DEF c
    <3>3. i = c
      <4>1. c \in 1 .. Len(path) - 1
        BY <3>1, MadeOnTheWay
      <4>2. ~(i < c) /\ ~(c < i)
        BY <2>1, <3>1, MadeFrom
      <4> QED
        BY <4>1, <4>2
    <3>4. 1 + i = i + 1
      OBVIOUS
    <3> QED
      BY <3>2, <3>3, <3>4
  <2>2. CASE i \notin MadeAt(path, at)
    <3>1. store[at[i]][path[i]] = ModuleObject(at[i + 1])
      BY <2>2, MadeOnTheWay
    <3>2. \A j \in MadeAt(path, at) : ~(at[j] = at[i] /\ path[j] = path[i])
      BY <3>1, Kinds DEF MadeAt
    <3> QED
      BY <1>1, <3>1, <3>2 DEF StoreWith
  <2> QED
    BY <2>1, <2>2
<1> QED
  BY <1>1, <1>2 DEF Led, Ways

-----------------------------------------------------------------------------
\* The statements.

\* What a step does.
Done ==
  /\ \E sh : Strong(store', state', stack', loads', sh)
  /\ Stays(store, state, store', state', 0)

\* What stays in each of two steps stays in both.
LEMMA StaysOn ==
  ASSUME NEW h1, NEW s1, NEW h2, NEW s2, NEW h3, NEW s3, NEW r,
         Stays(h1, s1, h2, s2, r), Stays(h2, s2, h3, s3, r)
  PROVE  Stays(h1, s1, h3, s3, r)
BY DEF Stays

\* If a statement leaves trees, and what paths name, so does the next state.
LEMMA BecomeDone ==
  ASSUME NEW held, NEW states, NEW fs, NEW r, NEW counts, NEW sh,
         Basic(held, states, fs, counts), Strong(held, states, fs, counts, sh),
         Stays(store, state, held, states, 0), Become(held, states, fs, r, counts)
  PROVE  Done
<1>1. PICK live : Keeps(live, held, states, fs, counts)
  BY BecomeKeeps
<1>2. /\ Strong(store', state', stack', loads', sh \cap live)
      /\ Stays(held, states, store', state', 0)
  BY <1>1, StrongKeeps
<1> QED
  BY <1>2, StaysOn DEF Done

\* The end of the process changes no module.
LEMMA DieDone ==
  ASSUME NEW sh, Strong(store, state, stack, loads, sh), NEW how, Die(how)
  PROVE  Done
<1>1. store' = store /\ state' = state /\ stack' = stack /\ loads' = loads
  BY DEF Die
<1>2. Stays(store, state, store, state, 0)
  BY DEF Stays
<1> QED
  BY <1>1, <1>2 DEF Done

\* Taking the statement from its file keeps the trees.
LEMMA StackStrong ==
  ASSUME NEW held, NEW states, NEW sh, Basic(held, states, stack, loads), Able,
         Strong(held, states, stack, loads, sh)
  PROVE  Strong(held, states, Stack, loads, sh)
BY StackBasic, StrongSame

\* A statement that has only a result keeps the trees.
LEMMA YieldsDone ==
  ASSUME Basic(store, state, stack, loads), Able, NEW sh, Strong(store, state, stack, loads, sh),
         NEW r, Yields(r)
  PROVE  Done
<1>1. Become(store, state, Stack, r, loads)
  BY DEF Yields
<1>2. Stays(store, state, store, state, 0)
  BY DEF Stays
<1> QED
  BY <1>1, <1>2, StackBasic, StackStrong, BecomeDone

\* A file that starts keeps the trees, given what it waits for.
LEMMA RunsDone ==
  ASSUME Able, NEW sh, Strong(store, state, stack, loads, sh),
         NEW held, NEW states, NEW f, RunsNext(held, states, f),
         NEW sh2, Strong(held, states, stack, loads, sh2), Stays(store, state, held, states, 0),
         Placed(held, sh2, f, Current), Waiting(held, states, loads, f, Current),
         f.env \notin sh2, f.env = Current \/ loads[f.env] = Never
  PROVE  Done
<1>1. CASE Die("stack overflow")
  BY <1>1, DieDone
<1>2. CASE Become(held, states, Append(Stack, f), "none", loads)
  <2>1. Basic(held, states, stack, loads) /\ f \in Frames
    BY DEF RunsNext
  <2>2. Strong(held, states, Stack, loads, sh2) /\ EnvAt(Stack, Len(Stack)) = Current
        /\ Stack \in Seq(Frames)
    BY <2>1, StackBasic, StackStrong
  <2>3. Strong(held, states, Append(Stack, f), loads, sh2)
    BY <2>1, <2>2, StrongPush
  <2> QED
    BY <1>2, <2>3, RunsPush, BecomeDone
<1> QED
  BY <1>1, <1>2 DEF Runs, RunsNext

\* A name is given in an environment of the file on top, or in a shared one.
LEMMA StrongAdd ==
  ASSUME NEW held, NEW states, NEW fs, NEW counts, NEW sh,
         Basic(held, states, fs, counts), Strong(held, states, fs, counts, sh),
         NEW env \in Environment, env \in sh \/ env \in Under(held, sh, EnvAt(fs, Len(fs))),
         NEW n \in Name, NEW o \in Objects, Basic(add(held, env, n, o), states, fs, counts),
         \A m \in Module : o = ModuleObject(m) =>
            /\ m \in sh <=> env \in sh \/ n \in Builtin
            /\ m \notin sh => Free(held, m)
  PROVE  /\ Strong(add(held, env, n, o), states, fs, counts, sh)
         /\ Stays(held, states, add(held, env, n, o), states, 0)
<1> DEFINE new == add(held, env, n, o)
<1>1. held \in [Environment -> [Name -> Objects]]
  BY DEF Basic, TypesOf
<1>2. \A e \in Environment, k \in Name :
         \/ new[e][k] = held[e][k]
         \/ e = env /\ k = n /\ held[e][k] = Nothing /\ new[e][k] = o
  BY <1>1 DEF add
<1> HIDE DEF new
<1>3. /\ Rule(held, sh) /\ Single(held, sh) /\ sh \subseteq Module /\ \A m \in sh : states[m] # "free"
      /\ \A i \in DOMAIN fs : fs[i].env \notin sh
  BY DEF Strong, Tree
<1>4. Rule(new, sh)
  BY <1>2, <1>3 DEF Rule
<1>5. Single(new, sh)
  <2>1. SUFFICES ASSUME NEW e1 \in Environment, NEW e2 \in Environment, NEW n1 \in Name, NEW n2 \in Name,
                        NEW m \in Module, new[e1][n1] = ModuleObject(m), new[e2][n2] = ModuleObject(m),
                        m \notin sh
                 PROVE  e1 = e2 /\ n1 = n2
    BY DEF Single
  <2>2. CASE o = ModuleObject(m)
    <3>1. Free(held, m)
      BY <2>1, <2>2
    <3> QED
      BY <1>2, <2>1, <3>1 DEF Free
  <2>3. CASE o # ModuleObject(m)
    <3>1. held[e1][n1] = ModuleObject(m) /\ held[e2][n2] = ModuleObject(m)
      BY <1>2, <2>1, <2>3
    <3> QED
      BY <1>3, <2>1, <3>1 DEF Single
  <2> QED
    BY <2>2, <2>3
<1>6. ASSUME NEW e \in Environment, NEW k \in Name, new[e][k] # held[e][k]
      PROVE  /\ held[e][k] = Nothing
             /\ \A i \in DOMAIN fs : OwnFrame(fs[i]) => ~(e = fs[i].into /\ k = fs[i].name)
  <2>1. e = env /\ held[e][k] = Nothing
    BY <1>2, <1>6
  <2>2. \A i \in DOMAIN fs : OwnFrame(fs[i]) => fs[i].into # env
    BY Elsewhere
  <2> QED
    BY <2>1, <2>2
<1>7. Changes(held, states, fs, sh, new, states, sh)
  BY <1>3, <1>4, <1>5, <1>6 DEF Changes
<1>8. Basic(new, states, fs, counts)
  BY DEF new
<1>9. Strong(new, states, fs, counts, sh) /\ Stays(held, states, new, states, 0)
  BY <1>7, <1>8, StrongChange
<1> QED
  BY <1>9 DEF new

\* A module that is shared, or that nothing holds, may become Unknown or Loaded.
LEMMA StrongState ==
  ASSUME NEW held, NEW states, NEW fs, NEW counts, NEW sh,
         Basic(held, states, fs, counts), Strong(held, states, fs, counts, sh),
         NEW m \in Module, NEW s \in {"Unknown", "Loaded"}, m \in sh \/ Free(held, m)
  PROVE  /\ Strong(held, [states EXCEPT ![m] = s], fs, counts, sh)
         /\ Stays(held, states, held, [states EXCEPT ![m] = s], 0)
<1> DEFINE new == [states EXCEPT ![m] = s]
<1>1. states \in [Module -> {"free", "Unknown", "Defined", "Loaded"}]
  BY DEF Basic, TypesOf
<1>2. \A k \in Module : new[k] = states[k] \/ (k = m /\ new[k] = s)
  BY <1>1
<1>3. Basic(held, new, fs, counts)
  <2>1. s \in {"Unknown", "Defined", "Loaded"}
    OBVIOUS
  <2> QED
    BY <2>1, BasicState
<1> HIDE DEF new
<1>4. /\ Rule(held, sh) /\ Single(held, sh) /\ sh \subseteq Module /\ \A k \in sh : states[k] # "free"
      /\ \A i \in DOMAIN fs : fs[i].env \notin sh
  BY DEF Strong, Tree
<1>5. \A k \in sh : new[k] # "free"
  BY <1>2, <1>4
<1>6. Changes(held, states, fs, sh, held, new, sh)
  BY <1>2, <1>4, <1>5 DEF Changes
<1>7. Strong(held, new, fs, counts, sh) /\ Stays(held, states, held, new, 0)
  BY <1>3, <1>6, StrongChange
<1> QED
  BY <1>7 DEF new

\* The environment of the innermost file is the root of its tree.
LEMMA CurrentIs ==
  ASSUME NEW held, NEW states, NEW fs, NEW counts, NEW sh,
         Basic(held, states, fs, counts), Strong(held, states, fs, counts, sh)
  PROVE  LET env == EnvAt(fs, Len(fs))
         IN /\ env \in Environment /\ env \notin sh /\ There(states, env) /\ Free(held, env)
            /\ env \in Under(held, sh, env)
<1>1. Len(fs) \in 0 .. Len(fs)
  BY DEF Basic, TypesOf
<1> QED
  BY <1>1, RootIs, UnderIs DEF Strong

\* A name that is nothing may be given a value.
LEMMA LetDone ==
  ASSUME Basic(store, state, stack, loads), Able, NEW sh, Strong(store, state, stack, loads, sh),
         NEW n \in Name, NEW r, Become(add(store, Current, n, Value), state, Stack, r, loads)
  PROVE  Done
<1>1. /\ Basic(store, state, Stack, loads) /\ Strong(store, state, Stack, loads, sh)
      /\ EnvAt(Stack, Len(Stack)) = Current
  BY StackBasic, StackStrong
<1>2. /\ Current \in Environment /\ There(state, Current) /\ Current \in Under(store, sh, Current)
  BY <1>1, CurrentIs
<1>3. /\ Basic(add(store, Current, n, Value), state, Stack, loads)
      /\ Value \in Objects /\ \A m \in Module : Value # ModuleObject(m)
  BY <1>1, <1>2, Kinds, BasicAdd
<1>4. /\ Strong(add(store, Current, n, Value), state, Stack, loads, sh)
      /\ Stays(store, state, add(store, Current, n, Value), state, 0)
  BY <1>1, <1>2, <1>3, StrongAdd
<1> QED
  BY <1>3, <1>4, BecomeDone

\* A file is run for an import: it waits.
LEMMA StartsDone ==
  ASSUME files \in Programs, Basic(store, state, stack, loads), Able,
         NEW sh, Strong(store, state, stack, loads, sh),
         NEW path \in Path, NEW at \in Ways(path, Len(path)), files[path] # Missing,
         NEW kind \in {"import", "define"}, NEW old \in Environment, There(StateWith(path, at), old),
         Starts(kind, path, at, old),
         kind = "import" => old = 0 /\ StoreWith(path, at)[at[Len(path)]][path[Len(path)]] = Nothing,
         kind = "define" => /\ StoreWith(path, at)[at[Len(path)]][path[Len(path)]] = ModuleObject(old)
                            /\ StateWith(path, at)[old] = "Defined" /\ old \in Module
  PROVE  Done
<1> DEFINE held == StoreWith(path, at)
           states == StateWith(path, at)
           into == at[Len(path)]
           name == path[Len(path)]
<1>1. PICK m, f : StartsFile(held, states, m, f, kind, into, name, path, old)
  BY StartsMeans
<1> DEFINE new == [states EXCEPT ![m] = "Unknown"]
<1>2. /\ m \in Module /\ state[m] = "free"
      /\ f.kind = kind /\ f.env = m /\ f.into = into /\ f.name = name /\ f.path = path /\ f.old = old
      /\ RunsNext(held, new, f)
  BY <1>1 DEF StartsFile
<1>3. PICK sh2 : /\ Strong(held, states, stack, loads, sh2) /\ Stays(store, state, held, states, 0)
  BY StrongWay
<1>4. Basic(held, states, stack, loads)
  BY BasicWay
<1>5. Led(held, Current, path, at)
  BY WayLeads
<1>6. /\ kind = "import" => old = 0 /\ held[into][name] = Nothing
      /\ kind = "define" => held[into][name] = ModuleObject(old) /\ states[old] = "Defined" /\ old \in Module
  OBVIOUS
<1>7. Free(held, m) /\ Basic(held, new, stack, loads)
  BY <1>2 DEF RunsNext, OfModule, Fresh, Free
<1>8. states[m] = "free"
  <2>1. \A i \in MadeAt(path, at) : at[i + 1] # m
    <3>1. \A i \in 1 .. Len(path) - 1 :
             held[at[i]][path[i]] = ModuleObject(at[i + 1]) /\ at[i] \in Environment /\ path[i] \in Name
      <4>1. held \in [Environment -> [Name -> Objects]]
        BY <1>4 DEF Basic, TypesOf
      <4> HIDE DEF held
      <4> QED
        BY <1>5, <4>1, LedIs
    <3>2. \A i \in MadeAt(path, at) : i \in 1 .. Len(path) - 1
      BY MadeOnTheWay
    <3> HIDE DEF held
    <3> QED
      BY <1>7, <3>1, <3>2 DEF Free
  <2> QED
    BY <1>2, <2>1, MadeOnTheWay
<1>9. /\ held \in [Environment -> [Name -> Objects]]
      /\ states \in [Module -> {"free", "Unknown", "Defined", "Loaded"}]
      /\ stack \in Seq(Frames)
  BY <1>4 DEF Basic, TypesOf
<1>10. Len(path) \in 1 .. Len(path) /\ Len(path) \in Nat /\ name \in Name /\ into \in Environment
  BY <1>5, <1>9, LedIs
<1>11. Current = EnvAt(stack, Len(stack)) /\ Len(stack) \in 0 .. Len(stack)
  BY <1>9, Here
<1> HIDE DEF held, states, into, name
<1>12. /\ Rule(held, sh2) /\ \A k \in sh2 : states[k] # "free"
       /\ Current \in Environment /\ Current \notin sh2
  <2>1. Rule(held, sh2) /\ \A k \in sh2 : states[k] # "free"
    BY <1>3 DEF Strong, Tree
  <2> QED
    BY <1>3, <1>4, <1>11, <2>1, CurrentIs
<1>13. /\ Strong(held, new, stack, loads, sh2) /\ Stays(held, states, held, new, 0)
  <2>1. "Unknown" \in {"Unknown", "Loaded"}
    OBVIOUS
  <2> QED
    BY <1>2, <1>3, <1>4, <1>7, <2>1, StrongState
<1>14. Stays(store, state, held, new, 0)
  BY <1>3, <1>13, StaysOn
<1>15. m \notin sh2 /\ loads[m] = Never
  BY <1>2, <1>8, <1>12 DEF Basic, FreeIsEmpty
<1>16. path \notin Own => into \in sh2 \/ name \in Builtin
  <2>1. SUFFICES ASSUME path \notin Own, name \notin Builtin PROVE into \in sh2
    OBVIOUS
  <2>2. path \in Seq(Name)
    BY Paths
  <2>3. PICK j \in 1 .. Len(path) : path[j] \in Builtin
    BY <2>1, <2>2 DEF Own
  <2>4. j # Len(path)
    BY <2>1, <2>3 DEF name
  <2>5. j \in 1 .. Len(path) - 1
    BY <1>10, <2>4
  <2> QED
    BY <1>5, <1>9, <1>10, <1>12, <2>3, <2>5, LedUnder DEF into
<1>17. Placed(held, sh2, f, Current)
  <2>1. into \in sh2 \/ into \in Under(held, sh2, Current)
    BY <1>5, <1>9, <1>10, <1>12, LedUnder DEF into
  <2>2. path \notin Own /\ kind = "define" => old \in sh2
    BY <1>6, <1>10, <1>12, <1>16 DEF Rule
  <2> QED
    BY <1>2, <1>6, <1>16, <2>1, <2>2 DEF Placed, name
<1>18. ASSUME path \in Own PROVE loads[Current][path] = 0
  <2>1. SUFFICES ASSUME loads[Current][path] # 0 PROVE FALSE
    OBVIOUS
  <2>2. PICK o \in Objects : Names(held, Current, path, o) /\ SettledIn(states, o)
    BY <1>3, <1>11, <1>18, <2>1 DEF Strong, Loads, Leads
  <2>3. PICK bt : Led(held, Current, path, bt) /\ o = held[bt[Len(path)]][path[Len(path)]]
    BY <2>2 DEF Names
  <2>4. bt[Len(path)] = at[Len(path)]
    BY <1>5, <1>9, <1>10, <2>3, LedOnce
  <2>5. o = held[into][name]
    BY <2>3, <2>4 DEF into, name
  <2> QED
    BY <1>6, <2>2, <2>5, Kinds DEF SettledIn
<1>19. Waiting(held, new, loads, f, Current)
  <2>1. \E bt : Led(held, Current, path, bt) /\ bt[Len(path)] = into
    BY <1>5 DEF into
  <2>2. kind = "define" => new[old] = "Defined"
    BY <1>6, <1>8, <1>9
  <2> HIDE DEF new
  <2> QED
    BY <1>2, <1>6, <1>18, <2>1, <2>2 DEF Waiting, OwnFrame
<1> HIDE DEF new
<1> QED
  BY <1>2, <1>13, <1>14, <1>15, <1>17, <1>19, RunsDone

\* What a path that begins with the name of a built-in module names is shared.
LEMMA BuiltinIsShared ==
  ASSUME Basic(store, state, stack, loads), NEW sh, Strong(store, state, stack, loads, sh),
         NEW path \in Path, path[1] \in Builtin, NEW m \in BuiltinAt(path)
  PROVE  m \in sh /\ m \in Module
<1>1. Len(path) \in Nat \ {0} /\ path \in Seq(Name) /\ \A i \in 1 .. Len(path) : path[i] \in Name
  BY Paths
<1>2. DOMAIN path = 1 .. Len(path)
  BY <1>1
<1>3. PICK at \in [1 .. Len(path) -> Module] : Descends(path, at) /\ m = at[Len(path)]
  BY <1>2 DEF BuiltinAt
<1>4. Rule(store, sh) /\ DOMAIN Provided \subseteq sh
  BY DEF Strong, Tree
<1> DEFINE S == {i \in 1 .. Len(path) : at[i] \in sh}
<1>5. 1 \in S
  <2>1. BuiltinModule \in [Builtin -> DOMAIN Provided]
    BY ConstantAssumption
  <2>2. at[1] = BuiltinModule[path[1]]
    BY <1>3 DEF Descends
  <2> QED
    BY <1>1, <1>4, <2>1, <2>2
<1>6. ASSUME NEW i \in 1 .. Len(path) - 1, i \in S PROVE i + 1 \in S
  <2>1. i \in 1 .. Len(path) /\ i + 1 \in 1 .. Len(path) /\ i + 1 \in 2 .. Len(path) /\ (i + 1) - 1 = i
    BY <1>1
  <2>2. \/ at[i + 1] = at[i]
        \/ store[at[i]][path[i + 1]] = ModuleObject(at[i + 1])
    BY <1>3, <2>1 DEF Descends
  <2>3. at[i + 1] \in Module /\ at[i] \in Environment /\ path[i + 1] \in Name
    BY <1>1, <1>3, <2>1, Numbers
  <2>4. at[i] \in sh
    BY <1>6
  <2>5. at[i + 1] \in sh
    BY <1>4, <2>2, <2>3, <2>4 DEF Rule
  <2> QED
    BY <2>1, <2>5
<1> HIDE DEF S
<1>7. 1 .. Len(path) \subseteq S /\ Len(path) \in 1 .. Len(path)
  <2>1. Len(path) \in Nat /\ Len(path) \in 1 .. Len(path)
    BY <1>1
  <2>2. 1 .. Len(path) \subseteq S
    BY <1>5, <1>6, <2>1, UpTo
  <2> QED
    BY <2>1, <2>2
<1>8. at[Len(path)] \in sh /\ at[Len(path)] \in Module
  BY <1>3, <1>7 DEF S
<1> QED
  BY <1>3, <1>8

\* The import of a built-in module enters a shared module under a shared name.
LEMMA EntersBuiltinDone ==
  ASSUME Basic(store, state, stack, loads), Able, NEW sh, Strong(store, state, stack, loads, sh),
         NEW path \in Path, NEW at \in Ways(path, Len(path)),
         path[1] \in Builtin, EntersBuiltin(path, at)
  PROVE  Done
<1> DEFINE held == StoreWith(path, at)
           states == StateWith(path, at)
           into == at[Len(path)]
           name == path[Len(path)]
<1>1. PICK m : EntersShared(held, states, path, at, m)
  BY EntersBuiltinMeans
<1> DEFINE new == [states EXCEPT ![m] = "Loaded"]
           after == add(held, into, name, ModuleObject(m))
<1>2. /\ m \in BuiltinAt(path) /\ m \in Module
      /\ Basic(held, states, stack, loads) /\ Basic(held, new, stack, loads) /\ Basic(held, new, Stack, loads)
      /\ Basic(after, new, Stack, loads)
      /\ Die("null pointer") \/ Become(after, new, Stack, "object", loads)
  BY <1>1 DEF EntersShared
<1>3. m \in sh
  BY <1>2, BuiltinIsShared
<1>4. PICK sh2 : /\ sh \subseteq sh2
                 /\ Strong(held, states, stack, loads, sh2) /\ Stays(store, state, held, states, 0)
  BY StrongWay
<1>5. Led(held, Current, path, at)
  BY WayLeads
<1>6. held \in [Environment -> [Name -> Objects]] /\ stack \in Seq(Frames)
  BY <1>2 DEF Basic, TypesOf
<1> HIDE DEF held, states
<1>7. Len(path) \in 1 .. Len(path) /\ Len(path) \in Nat /\ name \in Name /\ into \in Environment
  BY <1>5, <1>6, LedIs
<1>8. Strong(held, new, stack, loads, sh2) /\ Stays(held, states, held, new, 0)
  <2>1. "Loaded" \in {"Unknown", "Loaded"} /\ m \in sh2
    BY <1>3, <1>4
  <2> QED
    BY <1>2, <1>4, <2>1, StrongState
<1> HIDE DEF new
<1>9. Strong(held, new, Stack, loads, sh2) /\ EnvAt(Stack, Len(Stack)) = Current
  BY <1>2, <1>8, StackBasic, StackStrong
<1>10. Rule(held, sh2) /\ Current \in Environment
  BY <1>2, <1>9, CurrentIs DEF Strong, Tree
<1> HIDE DEF into, name
<1>11. into \in sh2 \/ into \in Under(held, sh2, Current)
  BY <1>5, <1>6, <1>7, <1>10, LedUnder DEF into
<1>12. into \in sh2 \/ name \in Builtin
  <2>1. CASE Len(path) = 1
    BY <2>1 DEF name
  <2>2. CASE Len(path) # 1
    <3>1. \A k \in Nat : k \in 1 .. k /\ k # 1 => 1 \in 1 .. k - 1
      OBVIOUS
    <3>2. 1 \in 1 .. Len(path) - 1
      BY <1>7, <2>2, <3>1
    <3> QED
      BY <1>5, <1>6, <1>7, <1>10, <3>2, LedUnder DEF into
  <2> QED
    BY <2>1, <2>2
<1>13. /\ ModuleObject(m) \in Objects
       /\ \A k \in Module : ModuleObject(m) = ModuleObject(k) =>
            (k \in sh2 <=> into \in sh2 \/ name \in Builtin) /\ (k \notin sh2 => Free(held, k))
  BY <1>2, <1>3, <1>4, <1>12, Kinds
<1>14. Strong(after, new, Stack, loads, sh2) /\ Stays(held, new, after, new, 0)
  BY <1>2, <1>7, <1>9, <1>11, <1>13, StrongAdd
<1>15. Stays(store, state, after, new, 0)
  <2>1. Stays(store, state, held, new, 0)
    BY <1>4, <1>8, StaysOn
  <2> QED
    BY <1>14, <2>1, StaysOn
<1> HIDE DEF after
<1>16. CASE Die("null pointer")
  BY <1>16, DieDone
<1>17. CASE Become(after, new, Stack, "object", loads)
  BY <1>2, <1>14, <1>15, <1>17, BecomeDone
<1> QED
  BY <1>2, <1>16, <1>17

\* The end of the way: each case of what the last name is.
LEMMA EntersDone ==
  ASSUME files \in Programs, Basic(store, state, stack, loads), Able,
         NEW sh, Strong(store, state, stack, loads, sh),
         NEW path \in Path, NEW at \in Ways(path, Len(path)), Exists(path), Enters(path, at)
  PROVE  Done
<1> DEFINE held == StoreWith(path, at)
           states == StateWith(path, at)
           there == held[at[Len(path)]][path[Len(path)]]
           Stops(r) == Become(held, states, Stack, r, loads)
<1>1. ASSUME NEW r, Stops(r) PROVE Done
  <2>1. PICK sh2 : /\ Strong(held, states, stack, loads, sh2) /\ Stays(store, state, held, states, 0)
    BY StrongWay
  <2>2. Basic(held, states, stack, loads)
    BY BasicWay
  <2> HIDE DEF held, states
  <2>3. Basic(held, states, Stack, loads) /\ Strong(held, states, Stack, loads, sh2)
    BY <2>1, <2>2, StackBasic, StackStrong
  <2> QED
    BY <1>1, <2>1, <2>3, BecomeDone
<1>2. CASE path[1] \in Builtin /\ EntersBuiltin(path, at)
  BY <1>2, EntersBuiltinDone
<1>3. CASE path[1] \notin Builtin /\ there = Nothing /\ Starts("import", path, at, 0)
  <2>1. files[path] # Missing /\ "import" \in {"import", "define"} /\ "import" # "define"
        /\ 0 \in Environment /\ There(states, 0)
    BY <1>3, Numbers DEF Exists, There
  <2> QED
    BY <1>3, <2>1, StartsDone
<1>4. ASSUME NEW m \in Module, there = ModuleObject(m), states[m] = "Defined", path[1] \notin Builtin,
             Starts("define", path, at, m)
      PROVE  Done
  <2>1. files[path] # Missing /\ "define" \in {"import", "define"} /\ "import" # "define"
        /\ m \in Environment /\ There(states, m)
    BY <1>4, Numbers DEF Exists, There
  <2> QED
    BY <1>4, <2>1, StartsDone
<1>5. \/ Stops("error") \/ Stops("object")
      \/ path[1] \in Builtin /\ EntersBuiltin(path, at)
      \/ path[1] \notin Builtin /\ there = Nothing /\ Starts("import", path, at, 0)
      \/ \E m \in Module : /\ there = ModuleObject(m) /\ states[m] = "Defined" /\ path[1] \notin Builtin
                           /\ Starts("define", path, at, m)
  BY DEF Enters
<1> HIDE DEF Stops, states, there
<1> QED
  BY <1>1, <1>2, <1>3, <1>4, <1>5

\* evalImportStatement, up to where code is run.
LEMMA ImportDone ==
  ASSUME files \in Programs, Basic(store, state, stack, loads), Able,
         NEW sh, Strong(store, state, stack, loads, sh), NEW path \in Path, Import(path)
  PROVE  Done
<1>1. CASE Yields("error")
  BY <1>1, YieldsDone
<1>2. CASE Exists(path) /\ \E at \in Ways(path, Len(path)) : Enters(path, at)
  BY <1>2, EntersDone
<1> QED
  BY <1>1, <1>2 DEF Import

\* The function import.
LEMMA LetImportDone ==
  ASSUME files \in Programs, Basic(store, state, stack, loads), Able,
         NEW sh, Strong(store, state, stack, loads, sh),
         NEW n \in Name, NEW path \in Path, LetImport(n, path)
  PROVE  Done
<1>1. CASE Become(add(store, Current, n, Value), state, Stack, "error", loads)
  BY <1>1, LetDone
<1>2. ASSUME files[path] # Missing, NEW m \in Module, New(m, {}),
             Runs(store, [state EXCEPT ![m] = "Unknown"],
                  Frame("function", m, files[path], Current, n, path, 0))
      PROVE  Done
  <2> DEFINE new == [state EXCEPT ![m] = "Unknown"]
  <2>1. PICK f : StartsFile(store, state, m, f, "function", Current, n, path, 0)
    BY <1>2, LetImportMeans
  <2>2. /\ state[m] = "free" /\ f.kind = "function" /\ f.env = m /\ f.into = Current /\ f.old = 0
        /\ RunsNext(store, new, f)
    BY <2>1 DEF StartsFile
  <2>3. Free(store, m)
    BY <2>2 DEF RunsNext, OfModule, Fresh, Free
  <2>4. Strong(store, new, stack, loads, sh) /\ Stays(store, state, store, new, 0)
    <3>1. "Unknown" \in {"Unknown", "Loaded"}
      OBVIOUS
    <3> QED
      BY <2>3, <3>1, StrongState
  <2>5. m \notin sh /\ loads[m] = Never
    BY <2>2 DEF Strong, Tree, Basic, FreeIsEmpty
  <2> HIDE DEF new
  <2>6. Placed(store, sh, f, Current) /\ Waiting(store, new, loads, f, Current)
    BY <2>2 DEF Placed, Waiting, OwnFrame
  <2> QED
    BY <2>2, <2>4, <2>5, <2>6, RunsDone
<1> QED
  BY <1>1, <1>2 DEF LetImport

\* A file that run or run_once starts.
LEMMA RunFrameDone ==
  ASSUME files \in Programs, Basic(store, state, stack, loads), Able,
         NEW sh, Strong(store, state, stack, loads, sh),
         NEW path \in Path, files[path] # Missing, NEW kind \in {"run", "run_once"},
         Runs(store, state, Frame(kind, Current, files[path], Current, "", path, 0))
  PROVE  Done
<1>1. PICK f : /\ RunsNext(store, state, f)
               /\ f.kind = kind /\ f.env = Current /\ f.into = Current /\ f.old = 0
  BY RunMeans
<1>2. Current = EnvAt(stack, Len(stack))
  BY Here
<1>3. Current \notin sh
  BY <1>2, CurrentIs
<1>4. Placed(store, sh, f, Current) /\ Waiting(store, state, loads, f, Current)
  BY <1>1 DEF Placed, Waiting, OwnFrame
<1>5. Stays(store, state, store, state, 0)
  BY DEF Stays
<1> QED
  BY <1>1, <1>3, <1>4, <1>5, RunsDone

\* The function run.
LEMMA RunDone ==
  ASSUME files \in Programs, Basic(store, state, stack, loads), Able,
         NEW sh, Strong(store, state, stack, loads, sh), NEW path \in Path, Run(path)
  PROVE  Done
<1>1. CASE Yields("error")
  BY <1>1, YieldsDone
<1>2. CASE files[path] # Missing /\ Runs(store, state, Frame("run", Current, files[path], Current, "", path, 0))
  <2>1. "run" \in {"run", "run_once"}
    OBVIOUS
  <2> QED
    BY <1>2, <2>1, RunFrameDone
<1> QED
  BY <1>1, <1>2 DEF Run

\* The function run_once.
LEMMA RunOnceDone ==
  ASSUME files \in Programs, Basic(store, state, stack, loads), Able,
         NEW sh, Strong(store, state, stack, loads, sh), NEW path \in Path, RunOnce(path)
  PROVE  Done
<1>1. CASE Yields("object")
  BY <1>1, YieldsDone
<1>2. CASE files[path] # Missing
           /\ Runs(store, state, Frame("run_once", Current, files[path], Current, "", path, 0))
  <2>1. "run_once" \in {"run", "run_once"}
    OBVIOUS
  <2> QED
    BY <1>2, <2>1, RunFrameDone
<1>3. CASE Die("exception")
  BY <1>3, DieDone
<1> QED
  BY <1>1, <1>2, <1>3 DEF RunOnce

-----------------------------------------------------------------------------
\* The ends of files.

\* A module that has run is entered: in the tree of the file below, or as a shared one.
LEMMA StrongEnter ==
  ASSUME NEW held, NEW states, NEW fs, NEW counts, NEW sh,
         Basic(held, states, fs, counts), Strong(held, states, fs, counts, sh),
         NEW env \in Module, env \notin sh, states[env] # "free", Free(held, env),
         \A i \in DOMAIN fs : fs[i].env # env,
         NEW into \in Environment, into \in sh \/ into \in Under(held, sh, EnvAt(fs, Len(fs))),
         NEW n \in Name, Basic(add(held, into, n, ModuleObject(env)), states, fs, counts)
  PROVE  /\ \E sh2 : Strong(add(held, into, n, ModuleObject(env)), states, fs, counts, sh2)
         /\ Stays(held, states, add(held, into, n, ModuleObject(env)), states, 0)
<1>1. ModuleObject(env) \in Objects /\ \A k \in Module : ModuleObject(env) = ModuleObject(k) => k = env
  BY Kinds
<1>2. CASE into \notin sh /\ n \notin Builtin
  BY <1>1, <1>2, StrongAdd
<1>3. CASE into \in sh \/ n \in Builtin
  <2>1. PICK sh2 : /\ Strong(held, states, fs, counts, sh2) /\ sh \subseteq sh2 /\ env \in sh2
                   /\ \A i \in 0 .. Len(fs) : \A e \in Under(held, sh, EnvAt(fs, i)) :
                        e \in Under(held, sh2, EnvAt(fs, i))
    BY StrongShare
  <2>2. Len(fs) \in 0 .. Len(fs)
    BY DEF Basic, TypesOf
  <2>3. into \in sh2 \/ into \in Under(held, sh2, EnvAt(fs, Len(fs)))
    BY <2>1, <2>2
  <2>4. into \in sh2 \/ n \in Builtin
    BY <1>3, <2>1
  <2> QED
    BY <1>1, <2>1, <2>3, <2>4, StrongAdd
<1> QED
  BY <1>2, <1>3

\* What is known when the file on top ends.
LEMMA Ended ==
  ASSUME Basic(store, state, stack, loads), NEW sh, Strong(store, state, stack, loads, sh), stack # <<>>
  PROVE  /\ Basic(store, state, Below, loads) /\ Strong(store, state, Below, loads, sh)
         /\ EnvironmentOf(Below) = EnvAt(Below, Len(Below))
         /\ EnvironmentOf(Below) \in Environment /\ EnvironmentOf(Below) \notin sh
         /\ Free(store, EnvironmentOf(Below))
         /\ Placed(store, sh, Top, EnvironmentOf(Below))
         /\ Waiting(store, state, loads, Top, EnvironmentOf(Below))
         /\ Top.env \notin sh
         /\ OfModule(Top) => /\ Top.env \in Module /\ Top.name \in Name /\ state[Top.env] # "free"
                             /\ Free(store, Top.env) /\ EnvironmentOf(Below) # Top.env
                             /\ \A i \in DOMAIN Below : Below[i].env # Top.env
<1>1. /\ Len(stack) \in DOMAIN stack /\ Top = stack[Len(stack)]
      /\ Below = Popped(stack) /\ Basic(store, state, Below, loads)
      /\ There(state, Top.env)
      /\ OfModule(Top) => /\ Top.env \in Module /\ Top.name \in Name
                          /\ \A i \in DOMAIN Below : Below[i].env # Top.env
  BY TopIs
<1>2. stack \in Seq(Frames) /\ Below \in Seq(Frames)
  BY <1>1 DEF Basic, TypesOf
<1>3. Strong(store, state, Below, loads, sh)
  BY <1>1, <1>2, StrongPop
<1>4. EnvironmentOf(Below) = EnvAt(stack, Len(stack) - 1)
  BY <1>1, <1>2, PopMeans
<1>5. /\ EnvironmentOf(Below) \in Environment /\ EnvironmentOf(Below) = EnvAt(Below, Len(Below))
  BY <1>1, <1>2, CurrentIsThere DEF Basic
<1>6. EnvironmentOf(Below) \notin sh /\ Free(store, EnvironmentOf(Below))
  BY <1>1, <1>3, <1>5, CurrentIs
<1>7. /\ Placed(store, sh, Top, EnvironmentOf(Below))
      /\ Waiting(store, state, loads, Top, EnvironmentOf(Below)) /\ Top.env \notin sh
  BY <1>1, <1>4 DEF Strong, Open, Tree
<1>8. Free(store, Top.env)
  BY <1>1 DEF Basic, Unheld, Free
<1>9. OfModule(Top) => EnvironmentOf(Below) # Top.env /\ state[Top.env] # "free"
  <2>1. SUFFICES ASSUME OfModule(Top) PROVE EnvironmentOf(Below) # Top.env /\ state[Top.env] # "free"
    OBVIOUS
  <2>2. Top.env \in Module /\ Top.env # 0
    BY <1>1, <2>1, Numbers
  <2>3. EnvAt(stack, Len(stack)) = Top.env /\ Len(stack) \in Nat \ {0}
    BY <1>1, <1>2 DEF EnvAt
  <2>4. Len(stack) - 1 \in 0 .. Len(stack) - 1 /\ Len(stack) \in Len(stack) .. Len(stack)
    BY <2>3
  <2>5. EnvAt(stack, Len(stack)) # EnvAt(stack, Len(stack) - 1)
    BY <1>1, <2>1, <2>4 DEF Basic, Nested
  <2> QED
    BY <1>1, <1>4, <2>2, <2>3, <2>5 DEF There
<1> QED
  BY <1>1, <1>3, <1>5, <1>6, <1>7, <1>8, <1>9

\* The end of an imported file: its path still leads where it led, and its name is nothing.
LEMMA EndImportDone ==
  ASSUME Basic(store, state, stack, loads), NEW sh, Strong(store, state, stack, loads, sh), EndImport
  PROVE  Done
<1> DEFINE root == EnvironmentOf(Below)
           into == Top.into
           name == Top.name
           env == Top.env
           held == add(store, into, name, ModuleObject(env))
           new == [state EXCEPT ![env] = "Loaded"]
           counts == Counted(root, Top.path)
<1>1. stack # <<>> /\ Top.kind = "import" /\ OfModule(Top)
  BY DEF EndImport, Ends, OfModule
<1>2. /\ Basic(store, state, Below, loads) /\ Strong(store, state, Below, loads, sh)
      /\ root = EnvAt(Below, Len(Below)) /\ root \in Environment
      /\ Placed(store, sh, Top, root) /\ Waiting(store, state, loads, Top, root)
      /\ env \notin sh /\ env \in Module /\ name \in Name /\ state[env] # "free" /\ Free(store, env)
      /\ \A i \in DOMAIN Below : Below[i].env # env
  BY <1>1, Ended
<1>3. into \in Environment /\ Top.path \in Path
  BY <1>1, TopIs
<1>4. CASE Die("null pointer")
  BY <1>4, DieDone
<1>5. CASE Become(store, state, Below, "error", loads)
  <2>1. Stays(store, state, store, state, 0)
    BY DEF Stays
  <2> QED
    BY <1>2, <1>5, <2>1, BecomeDone
<1>6. CASE Become(held, new, Below, "object", counts)
  <2>1. Basic(held, state, Below, loads)
    BY <1>1, <1>2, EnteredBasic
  <2>2. Basic(held, new, Below, counts)
    BY <1>2, <1>3, <2>1, LoadedBasic
  <2>3. Basic(store, new, Below, loads) /\ Basic(held, new, Below, loads)
    <3>1. "Loaded" \in {"Unknown", "Defined", "Loaded"}
      OBVIOUS
    <3> HIDE DEF held
    <3> QED
      BY <1>2, <2>1, <3>1, BasicState
  <2>4. Strong(store, new, Below, loads, sh) /\ Stays(store, state, store, new, 0)
    <3>1. "Loaded" \in {"Unknown", "Loaded"}
      OBVIOUS
    <3> QED
      BY <1>2, <3>1, StrongState
  <2>5. new[env] = "Loaded"
    <3>1. state \in [Module -> {"free", "Unknown", "Defined", "Loaded"}]
      BY <1>2 DEF Basic, TypesOf
    <3> QED
      BY <1>2, <3>1
  <2>6. into \in sh \/ into \in Under(store, sh, root)
    BY <1>1, <1>2 DEF Placed
  <2>7. store \in [Environment -> [Name -> Objects]] /\ held \in [Environment -> [Name -> Objects]]
    BY <1>2, <2>1 DEF Basic, TypesOf
  <2>8. /\ \A e \in Environment, n \in Name : store[e][n] # Nothing => held[e][n] = store[e][n]
        /\ store[into][name] = Nothing => held[into][name] = ModuleObject(env)
    <3> HIDE DEF into, name, env
    <3> QED
      BY <1>2, <1>3, <2>7 DEF add
  <2> HIDE DEF held, new, counts, root, into, name, env
  <2>9. /\ \E sh2 : Strong(held, new, Below, loads, sh2)
        /\ Stays(store, new, held, new, 0)
    <3>1. Basic(add(store, into, name, ModuleObject(env)), new, Below, loads)
      BY <2>3 DEF held
    <3>2. new[env] # "free"
      BY <2>5
    <3>3. into \in sh \/ into \in Under(store, sh, EnvAt(Below, Len(Below)))
      BY <1>2, <2>6
    <3>4. /\ \E sh2 : Strong(add(store, into, name, ModuleObject(env)), new, Below, loads, sh2)
          /\ Stays(store, new, add(store, into, name, ModuleObject(env)), new, 0)
      BY <1>2, <1>3, <2>3, <2>4, <3>1, <3>2, <3>3, StrongEnter
    <3> QED
      BY <3>4 DEF held
  <2>10. PICK sh2 : Strong(held, new, Below, loads, sh2)
    BY <2>9
  <2>11. ASSUME Top.path \in Own
         PROVE  loads[root][Top.path] = 0 /\ Leads(held, new, root, Top.path)
    <3>1. OwnFrame(Top)
      BY <1>1, <2>11 DEF OwnFrame
    <3>2. /\ \E at : Led(store, root, Top.path, at) /\ at[Len(Top.path)] = into
          /\ store[into][name] = Nothing /\ loads[root][Top.path] = 0
      BY <1>1, <1>2, <3>1 DEF Waiting, into, name
    <3>3. PICK at : Led(store, root, Top.path, at) /\ at[Len(Top.path)] = into
      BY <3>2
    <3>4. \A i \in 1 .. Len(Top.path) - 1 : /\ at[i] \in Environment /\ Top.path[i] \in Name
                                            /\ store[at[i]][Top.path[i]] = ModuleObject(at[i + 1])
      BY <1>3, <2>7, <3>3, LedIs
    <3>5. Led(held, root, Top.path, at)
      BY <2>8, <3>3, <3>4, Kinds DEF Led
    <3>6. held[into][name] = ModuleObject(env) /\ name = Top.path[Len(Top.path)]
      <4>1. name = Top.path[Len(Top.path)]
        BY <1>1, <1>2 DEF Placed, name
      <4> QED
        BY <2>8, <3>2, <4>1
    <3>7. Names(held, root, Top.path, ModuleObject(env))
      BY <3>3, <3>5, <3>6 DEF Names
    <3>8. SettledIn(new, ModuleObject(env)) /\ ModuleObject(env) \in Objects
      BY <1>2, <2>5, Kinds DEF SettledIn
    <3> QED
      BY <3>2, <3>7, <3>8 DEF Leads
  <2>12. Strong(held, new, Below, counts, sh2)
    BY <1>3, <2>3, <2>10, <2>11, StrongCount DEF counts, root
  <2>13. Stays(store, state, held, new, 0)
    BY <2>4, <2>9, StaysOn
  <2> QED
    BY <1>6, <2>2, <2>12, <2>13, BecomeDone
<1>7. Die("null pointer") \/ Become(store, state, Below, "error", loads)
      \/ Become(held, new, Below, "object", counts)
  BY DEF EndImport
<1> QED
  BY <1>4, <1>5, <1>6, <1>7

\* The end of a file that the function import runs.
LEMMA EndFunctionDone ==
  ASSUME Basic(store, state, stack, loads), NEW sh, Strong(store, state, stack, loads, sh), EndFunction
  PROVE  Done
<1> DEFINE root == EnvironmentOf(Below)
           into == Top.into
           name == Top.name
           env == Top.env
           held(o) == add(store, into, name, o)
<1>1. stack # <<>> /\ Top.kind = "function" /\ OfModule(Top)
  BY DEF EndFunction, Ends, OfModule
<1>2. /\ Basic(store, state, Below, loads) /\ Strong(store, state, Below, loads, sh)
      /\ root = EnvAt(Below, Len(Below)) /\ root \in Environment
      /\ Placed(store, sh, Top, root)
      /\ env \notin sh /\ env \in Module /\ name \in Name /\ state[env] # "free" /\ Free(store, env)
      /\ \A i \in DOMAIN Below : Below[i].env # env
  BY <1>1, Ended
<1>3. into = root /\ into \in Under(store, sh, root) /\ There(state, into) /\ into \in Environment
  <2>1. into = root
    BY <1>1, <1>2 DEF Placed
  <2>2. There(state, into)
    BY <1>1, TopIs
  <2> QED
    BY <1>2, <2>1, <2>2, UnderIs
<1>4. CASE Die("null pointer")
  BY <1>4, DieDone
<1>5. ASSUME NEW r, Become(held(Value), state, Below, r, loads) PROVE Done
  <2>1. /\ Basic(held(Value), state, Below, loads)
        /\ Value \in Objects /\ \A m \in Module : Value # ModuleObject(m)
    BY <1>2, <1>3, Kinds, BasicAdd
  <2> HIDE DEF into, name, root
  <2>2. Strong(held(Value), state, Below, loads, sh) /\ Stays(store, state, held(Value), state, 0)
    BY <1>2, <1>3, <2>1, StrongAdd
  <2> HIDE DEF held
  <2> QED
    BY <1>5, <2>1, <2>2, BecomeDone
<1>6. ASSUME NEW r, Become(held(ModuleObject(env)), state, Below, r, loads) PROVE Done
  <2>1. Basic(held(ModuleObject(env)), state, Below, loads)
    BY <1>1, <1>2, EnteredBasic
  <2> HIDE DEF into, name, root, env
  <2>2. /\ \E sh2 : Strong(held(ModuleObject(env)), state, Below, loads, sh2)
        /\ Stays(store, state, held(ModuleObject(env)), state, 0)
    BY <1>2, <1>3, <2>1, StrongEnter
  <2> HIDE DEF held
  <2> QED
    BY <1>6, <2>1, <2>2, BecomeDone
<1>7. \/ Die("null pointer")
      \/ \E r : Become(held(Value), state, Below, r, loads)
      \/ \E r : Become(held(ModuleObject(env)), state, Below, r, loads)
  <2> HIDE DEF into, name, root, env
  <2> QED
    BY DEF EndFunction, into, name, env
<1> HIDE DEF held
<1> QED
  BY <1>4, <1>5, <1>6, <1>7

\* The end of a file that run or run_once runs.
LEMMA EndRunDone ==
  ASSUME Basic(store, state, stack, loads), NEW sh, Strong(store, state, stack, loads, sh), EndRun
  PROVE  Done
<1>1. stack # <<>>
  BY DEF EndRun, Ends
<1>2. Basic(store, state, Below, loads) /\ Strong(store, state, Below, loads, sh)
  BY <1>1, Ended
<1>3. Stays(store, state, store, state, 0)
  BY DEF Stays
<1>4. CASE Die("null pointer")
  BY <1>4, DieDone
<1>5. CASE Become(store, state, Below, Outcome, loads)
  BY <1>2, <1>3, <1>5, BecomeDone
<1> QED
  BY <1>4, <1>5 DEF EndRun

-----------------------------------------------------------------------------
\* A module that has run takes the place of one that was only defined.

Replaceable(held, states, fs, sh, into, name, old, env) ==
  /\ env \in Module /\ env \notin sh /\ Free(held, env) /\ states[env] = "Loaded"
  /\ \A i \in DOMAIN fs : fs[i].env # env
  /\ into \in Environment /\ into \notin sh /\ into \in Under(held, sh, EnvAt(fs, Len(fs)))
  /\ name \in Name /\ name \notin Builtin
  /\ old \in Module /\ held[into][name] = ModuleObject(old) /\ states[old] = "Defined"

Replaced(held, held3, into, name, old, env) ==
  /\ held3 \in [Environment -> [Name -> Objects]]
  /\ \A e \in Environment, n \in Name :
       e # env /\ e # old /\ ~(e = into /\ n = name) => held3[e][n] = held[e][n]
  /\ held3[into][name] = ModuleObject(env)
  /\ \A n \in Name : held3[old][n] = Nothing
  /\ \A n \in Name : held3[env][n] = IF held[old][n] # Nothing THEN held[old][n] ELSE held[env][n]

\* The module that is replaced is in the tree of the innermost file, and no file runs it.
LEMMA ReplaceableMeans ==
  ASSUME NEW held, NEW states, NEW fs, NEW counts, NEW sh,
         Basic(held, states, fs, counts), Strong(held, states, fs, counts, sh),
         NEW into, NEW name, NEW old, NEW env, Replaceable(held, states, fs, sh, into, name, old, env)
  PROVE  /\ env \in Environment /\ old \in Environment /\ old # env /\ into # old /\ into # env
         /\ old \notin sh /\ old \in Under(held, sh, EnvAt(fs, Len(fs))) /\ ~Free(held, old)
         /\ \A i \in 0 .. Len(fs) : EnvAt(fs, i) # env /\ EnvAt(fs, i) # old
<1> DEFINE top == EnvAt(fs, Len(fs))
<1>1. /\ top \in Environment /\ top \notin sh /\ Free(held, top) /\ top \in Under(held, sh, top)
  BY CurrentIs
<1>2. /\ Rule(held, sh) /\ Single(held, sh) /\ fs \in Seq(Frames)
  BY DEF Strong, Tree, Basic, TypesOf
<1>3. /\ env \in Module /\ env \in Environment /\ env \notin sh /\ Free(held, env) /\ old \in Module
      /\ old \in Environment /\ into \in Environment /\ into \notin sh /\ into \in Under(held, sh, top)
      /\ name \in Name /\ name \notin Builtin /\ held[into][name] = ModuleObject(old)
      /\ \A i \in DOMAIN fs : fs[i].env # env
  BY Numbers DEF Replaceable
<1>4. \A i \in 0 .. Len(fs) : EnvAt(fs, i) # env
  <2>1. SUFFICES ASSUME NEW i \in 0 .. Len(fs) PROVE EnvAt(fs, i) # env
    OBVIOUS
  <2>2. i = 0 \/ i \in DOMAIN fs
    BY <1>2
  <2> QED
    BY <1>3, <2>2, Numbers DEF EnvAt
<1>5. top # env
  BY <1>2, <1>4
<1> HIDE DEF top
<1>6. old \notin sh /\ ~Free(held, old) /\ old # env
  BY <1>2, <1>3 DEF Rule, Free
<1>7. old \in Under(held, sh, top)
  BY <1>1, <1>3, <1>6, UnderIs
<1>8. into # old
  BY <1>1, <1>2, <1>3, <1>6, NoCycle
<1>9. into # env
  <2>1. env \in Under(held, sh, env)
    BY <1>3, UnderIs
  <2> QED
    BY <1>1, <1>2, <1>3, <1>5, <2>1, Disjoint
<1>10. \A i \in 0 .. Len(fs) : EnvAt(fs, i) # old
  BY <1>6, RootIs DEF Strong
<1> QED
  BY <1>3, <1>4, <1>6, <1>7, <1>8, <1>9, <1>10 DEF top

\* The other trees are as they were.
LEMMA OtherTrees ==
  ASSUME NEW held, NEW states, NEW fs, NEW counts, NEW sh,
         Basic(held, states, fs, counts), Strong(held, states, fs, counts, sh),
         NEW into, NEW name, NEW old, NEW env, Replaceable(held, states, fs, sh, into, name, old, env),
         NEW held3, Replaced(held, held3, into, name, old, env),
         NEW i \in 0 .. Len(fs), EnvAt(fs, i) # EnvAt(fs, Len(fs)), NEW e \in Under(held, sh, EnvAt(fs, i))
  PROVE  /\ e \in Under(held3, sh, EnvAt(fs, i)) /\ e \notin Under(held, sh, EnvAt(fs, Len(fs)))
         /\ e # into /\ e # old /\ e # env /\ \A n \in Name : held3[e][n] = held[e][n]
<1> DEFINE top == EnvAt(fs, Len(fs))
           r == EnvAt(fs, i)
<1>1. top \in Environment /\ Free(held, top)
  BY CurrentIs
<1>2. r \in Environment /\ Free(held, r) /\ r # top
  BY RootIs DEF Strong
<1>3. Single(held, sh)
  BY DEF Strong, Tree
<1>4. /\ env \in Environment /\ into \in Under(held, sh, top) /\ old \in Under(held, sh, top)
      /\ Free(held, env) /\ r # env
  BY ReplaceableMeans DEF Replaceable
<1>5. e \in Under(held, sh, r)
  OBVIOUS
<1> HIDE DEF top, r
<1>6. ASSUME NEW x \in Under(held, sh, r)
      PROVE  /\ x \in Environment /\ x \notin Under(held, sh, top) /\ x # into /\ x # old /\ x # env
             /\ \A n \in Name : held3[x][n] = held[x][n]
  <2>1. x \notin Under(held, sh, top)
    BY <1>1, <1>2, <1>3, Disjoint
  <2>2. x # env
    <3>1. env \in Under(held, sh, env)
      BY <1>4, UnderIs
    <3> QED
      BY <1>2, <1>3, <1>4, <3>1, Disjoint
  <2>3. x \in Environment
    BY <1>2, UnderIs
  <2> QED
    BY <1>4, <2>1, <2>2, <2>3 DEF Replaced
<1> DEFINE S == Under(held3, sh, r) \cup (Environment \ Under(held, sh, r))
<1>7. S \in SUBSET Environment /\ r \in S
  BY <1>2, UnderIs
<1>8. Closed(held, sh, S)
  <2>1. SUFFICES ASSUME NEW x \in S, NEW n \in Name, NEW m \in Module,
                        held[x][n] = ModuleObject(m), m \notin sh, m \in Under(held, sh, r)
                 PROVE  m \in Under(held3, sh, r)
    BY Numbers DEF Closed
  <2>2. x \in Environment
    BY <1>7
  <2>3. x \in Under(held, sh, r)
    BY <1>2, <1>3, <2>1, <2>2, Upwards
  <2>4. x \in Under(held3, sh, r)
    BY <2>3
  <2>5. held3[x][n] = ModuleObject(m)
    BY <1>6, <2>1, <2>3
  <2> HIDE DEF S
  <2> QED
    BY <1>2, <2>1, <2>4, <2>5, UnderIs
<1>9. Under(held, sh, r) \subseteq S
  <2> HIDE DEF S
  <2> QED
    BY <1>2, <1>7, <1>8, UnderIs
<1>10. e \in Under(held3, sh, r)
  BY <1>5, <1>9
<1> QED
  BY <1>5, <1>6, <1>10 DEF r, top

\* Where a path leads afterwards.
Swapped(at, n, old, env) == [i \in 1 .. n |-> IF at[i] = old THEN env ELSE at[i]]

\* A path that led through the module that is replaced leads through the other one.
LEMMA ReplacedLed ==
  ASSUME NEW held, held \in [Environment -> [Name -> Objects]], NEW sh, Single(held, sh),
         NEW into \in Environment, NEW name \in Name, NEW old \in Module, NEW env \in Module,
         held[into][name] = ModuleObject(old), old \notin sh, into # old, into # env, old # env,
         Free(held, env), NEW held3, Replaced(held, held3, into, name, old, env),
         NEW path \in Path, NEW r \in Environment, r # env, r # old,
         NEW at, Led(held, r, path, at)
  PROVE  Led(held3, r, path, Swapped(at, Len(path), old, env))
<1> DEFINE bt == Swapped(at, Len(path), old, env)
<1>1. /\ Len(path) \in 1 .. Len(path) /\ 1 \in 1 .. Len(path) /\ at[1] = r
      /\ \A i \in 1 .. Len(path) : at[i] \in Environment /\ path[i] \in Name
      /\ \A i \in 1 .. Len(path) - 1 :
           /\ i \in 1 .. Len(path) /\ i + 1 \in 1 .. Len(path) /\ at[i + 1] \in Module
           /\ held[at[i]][path[i]] = ModuleObject(at[i + 1])
  BY LedIs
<1>2. env \in Environment /\ old \in Environment
  BY Numbers
<1>3. /\ bt \in [1 .. Len(path) -> Environment]
      /\ \A i \in 1 .. Len(path) : bt[i] = IF at[i] = old THEN env ELSE at[i]
  BY <1>1, <1>2 DEF Swapped
<1> HIDE DEF bt
<1>4. ASSUME NEW i \in 1 .. Len(path) - 1 PROVE held3[bt[i]][path[i]] = ModuleObject(bt[i + 1])
  <2> DEFINE x == at[i]
             n == path[i]
             m == at[i + 1]
  <2>1. /\ x \in Environment /\ n \in Name /\ m \in Module /\ held[x][n] = ModuleObject(m)
        /\ bt[i] = (IF x = old THEN env ELSE x) /\ bt[i + 1] = IF m = old THEN env ELSE m
    BY <1>1, <1>3
  <2>2. x # env
    <3>1. CASE i = 1
      BY <1>1, <3>1
    <3>2. CASE i # 1
      <4>1. i - 1 \in 1 .. Len(path) - 1 /\ (i - 1) + 1 = i
        BY <3>2
      <4>2. held[at[i - 1]][path[i - 1]] = ModuleObject(x) /\ at[i - 1] \in Environment /\ path[i - 1] \in Name
        BY <1>1, <4>1
      <4> QED
        BY <4>2 DEF Free
    <3> QED
      BY <3>1, <3>2
  <2> HIDE DEF x, n, m
  <2>3. m = old => x = into /\ n = name
    BY <2>1 DEF Single
  <2>4. CASE x = old
    <3>1. m # old
      BY <2>3, <2>4
    <3>2. held3[env][n] = ModuleObject(m)
      BY <2>1, <2>4, Kinds DEF Replaced
    <3> QED
      BY <2>1, <2>4, <3>1, <3>2 DEF n
  <2>5. CASE x # old /\ x = into /\ n = name
    <3>1. m = old
      BY <2>1, <2>5, Kinds
    <3>2. held3[x][n] = ModuleObject(env)
      BY <2>5 DEF Replaced
    <3> QED
      BY <2>1, <2>5, <3>1, <3>2 DEF n
  <2>6. CASE x # old /\ ~(x = into /\ n = name)
    <3>1. m # old
      BY <2>3, <2>6
    <3>2. held3[x][n] = ModuleObject(m)
      BY <2>1, <2>2, <2>6 DEF Replaced
    <3> QED
      BY <2>1, <2>6, <3>1, <3>2 DEF n
  <2> QED
    BY <2>4, <2>5, <2>6
<1>5. bt[1] = r
  BY <1>1, <1>3
<1>6. Led(held3, r, path, bt)
  BY <1>3, <1>4, <1>5 DEF Led
<1> QED
  BY <1>6 DEF bt

\* So a path names what it named, but for the module that was only defined.
LEMMA ReplacedStays ==
  ASSUME NEW held, NEW states, NEW fs, NEW counts, NEW sh,
         Basic(held, states, fs, counts), Strong(held, states, fs, counts, sh),
         NEW into, NEW name, NEW old, NEW env, Replaceable(held, states, fs, sh, into, name, old, env),
         NEW held3, Replaced(held, held3, into, name, old, env), NEW i \in 0 .. Len(fs)
  PROVE  Stays(held, states, held3, states, EnvAt(fs, i))
<1> DEFINE r == EnvAt(fs, i)
<1>1. r \in Environment /\ held \in [Environment -> [Name -> Objects]] /\ Single(held, sh)
  BY RootIs DEF Strong, Tree, Basic, TypesOf
<1>2. /\ env \in Environment /\ old \in Environment /\ old # env /\ into # old /\ into # env
      /\ old \notin sh /\ r # env /\ r # old
  BY ReplaceableMeans
<1>3. /\ into \in Environment /\ name \in Name /\ old \in Module /\ env \in Module /\ Free(held, env)
      /\ held[into][name] = ModuleObject(old) /\ states[old] = "Defined"
  BY DEF Replaceable
<1> HIDE DEF r
<1>4. ASSUME NEW path \in Own, NEW o \in Objects, Names(held, r, path, o), SettledIn(states, o)
      PROVE  Names(held3, r, path, o)
  <2>1. PICK at : Led(held, r, path, at) /\ o = held[at[Len(path)]][path[Len(path)]]
    BY <1>4 DEF Names
  <2>2. path \in Path
    BY OwnPath
  <2> DEFINE bt == Swapped(at, Len(path), old, env)
  <2>3. Led(held3, r, path, bt)
    BY <1>1, <1>2, <1>3, <2>1, <2>2, ReplacedLed
  <2> DEFINE x == at[Len(path)]
             n == path[Len(path)]
  <2>4. Len(path) \in 1 .. Len(path) /\ x \in Environment /\ n \in Name
    BY <1>1, <2>1, <2>2, LedIs
  <2>5. bt[Len(path)] = IF x = old THEN env ELSE x
    BY <2>4 DEF Swapped
  <2>6. x # env
    <3>1. CASE Len(path) = 1
      BY <1>2, <2>1, <3>1 DEF Led
    <3>2. CASE Len(path) # 1
      <4>1. Len(path) - 1 \in 1 .. Len(path) - 1 /\ (Len(path) - 1) + 1 = Len(path)
        <5>1. \A k \in Nat : k \in 1 .. k /\ k # 1 => k - 1 \in 1 .. k - 1 /\ (k - 1) + 1 = k
          OBVIOUS
        <5>2. Len(path) \in Nat
          BY <2>2, Paths
        <5> QED
          BY <2>4, <3>2, <5>1, <5>2
      <4>2. /\ held[at[Len(path) - 1]][path[Len(path) - 1]] = ModuleObject(x)
            /\ at[Len(path) - 1] \in Environment /\ path[Len(path) - 1] \in Name
        <5>1. \A k \in 1 .. Len(path) - 1 :
                /\ held[at[k]][path[k]] = ModuleObject(at[k + 1])
                /\ at[k] \in Environment /\ path[k] \in Name
          BY <1>1, <2>1, <2>2, LedIs
        <5> QED
          BY <4>1, <5>1
      <4> QED
        BY <1>3, <4>2 DEF Free
    <3> QED
      BY <3>1, <3>2
  <2>7. o = held[x][n] /\ o # Nothing /\ o # ModuleObject(old)
    BY <1>3, <1>4, <2>1, Kinds DEF SettledIn
  <2> HIDE DEF bt, x, n
  <2>8. held3[bt[Len(path)]][n] = o
    <3>1. CASE x = old
      <4>1. bt[Len(path)] = env /\ held[old][n] = o /\ o # Nothing
        BY <2>5, <2>7, <3>1
      <4>2. held3[env][n] = IF held[old][n] # Nothing THEN held[old][n] ELSE held[env][n]
        BY <2>4 DEF Replaced
      <4> QED
        BY <4>1, <4>2
    <3>2. CASE x # old
      <4>1. ~(x = into /\ n = name)
        BY <1>3, <2>7
      <4> QED
        BY <2>4, <2>5, <2>6, <2>7, <3>2, <4>1 DEF Replaced
    <3> QED
      BY <3>1, <3>2
  <2> QED
    BY <2>3, <2>8 DEF Names, n
<1>5. Stays(held, states, held3, states, r)
  BY <1>4 DEF Stays
<1> QED
  BY <1>5 DEF r

\* A file that runs in a module of its own does not run from that module.
LEMMA NotTheTop ==
  ASSUME NEW held, NEW states, NEW fs, NEW counts, Basic(held, states, fs, counts),
         NEW i \in DOMAIN fs, OfModule(fs[i])
  PROVE  EnvAt(fs, i - 1) # EnvAt(fs, Len(fs))
<1>1. i \in 1 .. Len(fs) /\ Len(fs) \in Nat
  BY DEF Basic, TypesOf
<1>2. i - 1 \in 0 .. i - 1 /\ Len(fs) \in i .. Len(fs)
  BY <1>1
<1> QED
  BY <1>2 DEF Basic, Nested

\* Once its contents are elsewhere, each module is in one place again.
LEMMA ReplacedTree ==
  ASSUME NEW held, NEW states, NEW fs, NEW counts, NEW sh,
         Basic(held, states, fs, counts), Strong(held, states, fs, counts, sh),
         NEW into, NEW name, NEW old, NEW env, Replaceable(held, states, fs, sh, into, name, old, env),
         NEW held3, Replaced(held, held3, into, name, old, env)
  PROVE  Tree(held3, states, fs, sh)
<1>1. /\ env \in Module /\ env \notin sh /\ Free(held, env) /\ into \notin sh /\ name \notin Builtin
      /\ into \in Environment /\ name \in Name
  BY DEF Replaceable
<1>2. env \in Environment /\ old \in Environment /\ old # env /\ into # old /\ into # env /\ old \notin sh
  BY ReplaceableMeans
<1>3. Rule(held, sh) /\ Single(held, sh)
  BY DEF Strong, Tree
<1>4. ASSUME NEW e \in Environment, NEW n \in Name, NEW m \in Module, held3[e][n] = ModuleObject(m),
             ~(m = env /\ e = into /\ n = name)
      PROVE  /\ m # env
             /\ \/ e = env /\ held[old][n] = ModuleObject(m)
                \/ e # old /\ held[e][n] = ModuleObject(m)
  <2>1. CASE e = old
    BY <1>4, <2>1, Kinds DEF Replaced
  <2>2. CASE e = env
    <3>1. held[old][n] = ModuleObject(m) \/ held[env][n] = ModuleObject(m)
      BY <1>4, <2>2 DEF Replaced
    <3> QED
      BY <1>1, <1>2, <2>2, <3>1 DEF Free
  <2>3. CASE e # old /\ e # env
    <3>1. ~(e = into /\ n = name)
      BY <1>4, <2>3, Kinds DEF Replaced
    <3>2. held[e][n] = ModuleObject(m)
      BY <1>4, <2>3, <3>1 DEF Replaced
    <3> QED
      BY <1>1, <2>3, <3>2 DEF Free
  <2> QED
    BY <2>1, <2>2, <2>3
<1>5. Rule(held3, sh)
  <2>1. SUFFICES ASSUME NEW e \in Environment, NEW n \in Name, NEW m \in Module, held3[e][n] = ModuleObject(m)
                 PROVE  m \in sh <=> e \in sh \/ n \in Builtin
    BY DEF Rule
  <2>2. CASE m = env /\ e = into /\ n = name
    BY <1>1, <2>2
  <2>3. CASE ~(m = env /\ e = into /\ n = name)
    BY <1>1, <1>2, <1>3, <1>4, <2>1, <2>3 DEF Rule
  <2> QED
    BY <2>2, <2>3
<1>6. Single(held3, sh)
  <2>1. SUFFICES ASSUME NEW e1 \in Environment, NEW e2 \in Environment, NEW n1 \in Name, NEW n2 \in Name,
                        NEW m \in Module, held3[e1][n1] = ModuleObject(m), held3[e2][n2] = ModuleObject(m),
                        m \notin sh
                 PROVE  e1 = e2 /\ n1 = n2
    BY DEF Single
  <2>2. CASE m = env
    BY <1>4, <2>1, <2>2
  <2>3. CASE m # env
    <3>1. \/ e1 = env /\ held[old][n1] = ModuleObject(m)
          \/ e1 # old /\ held[e1][n1] = ModuleObject(m)
      BY <1>4, <2>1, <2>3
    <3>2. \/ e2 = env /\ held[old][n2] = ModuleObject(m)
          \/ e2 # old /\ held[e2][n2] = ModuleObject(m)
      BY <1>4, <2>1, <2>3
    <3> QED
      BY <1>2, <1>3, <2>1, <3>1, <3>2 DEF Single
  <2> QED
    BY <2>2, <2>3
<1> QED
  BY <1>5, <1>6 DEF Strong, Tree

\* Replacing a module that was only defined keeps the trees.
LEMMA ReplacedStrong ==
  ASSUME NEW held, NEW states, NEW fs, NEW counts, NEW sh,
         Basic(held, states, fs, counts), Strong(held, states, fs, counts, sh),
         NEW into, NEW name, NEW old, NEW env, Replaceable(held, states, fs, sh, into, name, old, env),
         NEW held3, Replaced(held, held3, into, name, old, env)
  PROVE  Strong(held3, states, fs, counts, sh)
<1>1. Tree(held3, states, fs, sh)
  BY ReplacedTree
<1>2. /\ held \in [Environment -> [Name -> Objects]] /\ fs \in Seq(Frames) /\ Rule(held, sh)
  BY DEF Basic, TypesOf, Strong, Tree
<1>3. ASSUME NEW i \in DOMAIN fs
      PROVE  /\ Placed(held3, sh, fs[i], EnvAt(fs, i - 1))
             /\ Waiting(held3, states, counts, fs[i], EnvAt(fs, i - 1))
  <2> DEFINE f == fs[i]
             r == EnvAt(fs, i - 1)
  <2>1. i - 1 \in 0 .. Len(fs) /\ r \in Environment /\ r \notin sh
    BY <1>2, RootOf, RootIs DEF Strong
  <2>2. Placed(held, sh, f, r) /\ Waiting(held, states, counts, f, r)
    BY DEF Strong, Open
  <2>3. f.kind \in {"import", "define"} => r # EnvAt(fs, Len(fs))
    BY NotTheTop DEF OfModule
  <2>4. r # EnvAt(fs, Len(fs)) => \A e \in Under(held, sh, r) :
           e \in Under(held3, sh, r) /\ \A n \in Name : held3[e][n] = held[e][n]
    BY <2>1, OtherTrees
  <2>5. OwnFrame(f) => f.into \in Under(held, sh, r) /\ f.name \in Name
    BY Elsewhere
  <2> HIDE DEF f, r
  <2>6. Placed(held3, sh, f, r)
    BY <2>2, <2>3, <2>4 DEF Placed
  <2>7. ASSUME OwnFrame(f)
        PROVE  /\ \E at : Led(held3, r, f.path, at) /\ at[Len(f.path)] = f.into
               /\ held3[f.into][f.name] = held[f.into][f.name]
    <3>1. f.path \in Own /\ f.path \in Path /\ f.kind \in {"import", "define"}
      BY <2>7, OwnPath DEF OwnFrame
    <3>2. PICK at : Led(held, r, f.path, at) /\ at[Len(f.path)] = f.into
      BY <2>2, <2>7 DEF Waiting
    <3>3. \A j \in 1 .. Len(f.path) : at[j] \in Under(held, sh, r)
      BY <1>2, <2>1, <3>1, <3>2, LedOwn
    <3>4. \A j \in 1 .. Len(f.path) - 1 : /\ j \in 1 .. Len(f.path) /\ f.path[j] \in Name
                                          /\ held[at[j]][f.path[j]] = ModuleObject(at[j + 1])
      BY <1>2, <3>1, <3>2, LedIs
    <3>5. Led(held3, r, f.path, at)
      BY <2>3, <2>4, <3>1, <3>2, <3>3, <3>4 DEF Led
    <3> QED
      BY <2>3, <2>4, <2>5, <2>7, <3>1, <3>2, <3>5
  <2>8. Waiting(held3, states, counts, f, r)
    BY <2>2, <2>7 DEF Waiting
  <2> QED
    BY <2>6, <2>8 DEF f, r
<1>4. Loads(held3, states, fs, counts)
  <2>1. ASSUME NEW i \in 0 .. Len(fs), NEW path \in Own, counts[EnvAt(fs, i)][path] # 0
        PROVE  Leads(held3, states, EnvAt(fs, i), path)
    <3>1. Stays(held, states, held3, states, EnvAt(fs, i))
      BY ReplacedStays
    <3>2. Leads(held, states, EnvAt(fs, i), path)
      BY <2>1 DEF Strong, Loads
    <3> QED
      BY <3>1, <3>2 DEF Leads, Stays
  <2> QED
    BY <2>1 DEF Strong, Loads
<1> QED
  BY <1>1, <1>3, <1>4 DEF Strong, Open

\* Nothing refers to the one that was only defined.
LEMMA OldIsNoRoot ==
  ASSUME NEW held, NEW states, NEW fs, NEW counts, NEW sh,
         Basic(held, states, fs, counts), Strong(held, states, fs, counts, sh),
         NEW into, NEW name, NEW old, NEW env, Replaceable(held, states, fs, sh, into, name, old, env)
  PROVE  old \notin Roots(fs)
<1> DEFINE top == EnvAt(fs, Len(fs))
<1>1. /\ old \in Module /\ old # 0 /\ held[into][name] = ModuleObject(old)
      /\ into \in Environment /\ name \in Name /\ into \in Under(held, sh, top)
  BY Numbers DEF Replaceable
<1>2. /\ old \notin sh /\ old \in Under(held, sh, top)
      /\ \A i \in 0 .. Len(fs) : EnvAt(fs, i) # old
  BY ReplaceableMeans
<1>3. /\ DOMAIN Provided \subseteq sh /\ Single(held, sh) /\ Rule(held, sh) /\ fs \in Seq(Frames)
  BY DEF Strong, Tree, Basic, TypesOf
<1>4. top \in Environment /\ top \notin sh
  BY CurrentIs
<1>5. Free(held, top)
  BY CurrentIs
<1>6. ASSUME NEW i \in DOMAIN fs PROVE fs[i].env # old /\ fs[i].into # old /\ fs[i].old # old
  <2> DEFINE f == fs[i]
             r == EnvAt(fs, i - 1)
  <2>1. /\ i - 1 \in 0 .. Len(fs) /\ i \in 0 .. Len(fs) /\ f.env = EnvAt(fs, i)
        /\ r \in Environment /\ r \notin sh /\ Free(held, r)
    BY <1>3, RootOf, RootIs DEF Strong
  <2>2. f.env # old /\ r # old
    BY <1>2, <2>1
  <2>3. Placed(held, sh, f, r) /\ Waiting(held, states, counts, f, r)
    BY DEF Strong, Open
  <2>4. f.kind \in {"import", "define"} => r # top
    BY NotTheTop DEF OfModule
  <2>5. OwnFrame(f) => f.into \notin Under(held, sh, top) /\ f.into \in Environment /\ f.name \in Name
    BY Elsewhere
  <2> HIDE DEF f, r, top
  <2>6. f.into # old
    <3>1. CASE f.kind \in {"import", "define"}
      <4>1. f.into \in sh \/ f.into \in Under(held, sh, r)
        BY <2>3, <3>1 DEF Placed
      <4>2. \A e \in Under(held, sh, r) : e \notin Under(held, sh, top)
        BY <1>3, <1>4, <1>5, <2>1, <2>4, <3>1, Disjoint
      <4> QED
        BY <1>2, <4>1, <4>2
    <3>2. CASE f.kind \notin {"import", "define"}
      BY <2>2, <2>3, <3>2 DEF Placed
    <3> QED
      BY <3>1, <3>2
  <2>7. f.old # old
    <3>1. CASE f.kind # "define"
      BY <1>1, <2>3, <3>1 DEF Placed
    <3>2. CASE f.kind = "define" /\ OwnFrame(f)
      <4>1. held[f.into][f.name] = ModuleObject(f.old)
        BY <2>3, <3>2 DEF Waiting
      <4>2. SUFFICES ASSUME f.old = old PROVE FALSE
        OBVIOUS
      <4>3. f.into = into
        BY <1>1, <1>2, <1>3, <2>5, <3>2, <4>1, <4>2 DEF Single
      <4> QED
        BY <1>1, <2>5, <3>2, <4>3
    <3>3. CASE f.kind = "define" /\ ~OwnFrame(f)
      <4>1. f.old \in sh
        BY <2>3, <3>3 DEF Placed, OwnFrame
      <4> QED
        BY <1>2, <4>1
    <3> QED
      BY <3>1, <3>2, <3>3
  <2> QED
    BY <2>2, <2>6, <2>7 DEF f
<1>7. \A e \in Roots(fs) : \/ e = 0
                           \/ e \in DOMAIN Provided
                           \/ \E i \in DOMAIN fs : e \in {fs[i].env, fs[i].into, fs[i].old}
  BY <1>3, RootsOf
<1> QED
  BY <1>1, <1>2, <1>3, <1>6, <1>7

\* So it is not reached.
LEMMA BecomeLeaves ==
  ASSUME NEW held, NEW states, NEW fs, NEW r, NEW counts,
         Basic(held, states, fs, counts), Become(held, states, fs, r, counts),
         NEW old \in Module, old \notin Roots(fs),
         \A e \in Environment, n \in Name : e # old => held[e][n] # ModuleObject(old)
  PROVE  \E live : Keeps(live, held, states, fs, counts) /\ old \notin live
<1> DEFINE live == Reached(held, states, Roots(fs))
           roots == Roots(fs)
           others == {m \in Module : states[m] # "free"} \ roots
           sets == {roots \cup some : some \in SUBSET others}
           closed == {set \in sets : \A e \in set : Held(held, e) \subseteq set}
           without == roots \cup (others \ {old})
<1>1. /\ fs \in Seq(Frames) /\ states \in [Module -> {"free", "Unknown", "Defined", "Loaded"}]
      /\ HeldAreThere(held, states)
  BY DEF Basic, TypesOf
<1>2. \A e \in Roots(fs) : There(states, e)
  BY <1>1, RootsOf DEF Basic, RootsAreThere, There
<1>3. /\ Roots(fs) \subseteq live
      /\ live \subseteq Environment
      /\ \A e \in live, n \in Name, m \in Module : held[e][n] = ModuleObject(m) => m \in live
      /\ \A e \in live : There(states, e)
  BY <1>1, <1>2, RootsOf, ReachedSound
<1>4. /\ store' = [e \in Environment |-> IF e \in live THEN held[e] ELSE Empty]
      /\ state' = [m \in Module |-> IF m \in live THEN states[m] ELSE "free"]
      /\ loads' = [e \in Environment |-> IF e \in live THEN counts[e] ELSE Never]
      /\ stack' = fs
  BY DEF Become
<1>5. old \notin live
  <2>1. roots \subseteq Environment /\ old \notin roots
    BY <1>1, RootsOf
  <2>2. without \in sets
    OBVIOUS
  <2>3. ASSUME NEW e \in without, NEW m \in Held(held, e) PROVE m \in without
    <3>1. e \in Environment /\ e # old
      BY <2>1, <2>3, Numbers
    <3>2. m \in Module /\ \E n \in Name : held[e][n] = ModuleObject(m)
      BY DEF Held
    <3>3. states[m] # "free" /\ m # old
      BY <1>1, <3>1, <3>2 DEF HeldAreThere
    <3> QED
      BY <3>2, <3>3
  <2>4. without \in closed
    BY <2>2, <2>3
  <2>5. old \notin without
    BY <2>1
  <2>6. live = {e \in Environment : \A set \in closed : e \in set}
    BY DEF Reached
  <2> HIDE DEF closed, without, live
  <2> QED
    BY <2>4, <2>5, <2>6
<1> HIDE DEF live
<1>6. \A m \in Module : m \in live => states[m] # "free"
  BY <1>3, Numbers DEF There
<1>7. /\ 0 \in live /\ DOMAIN Provided \subseteq live
      /\ \A i \in DOMAIN fs : fs[i].env \in live /\ fs[i].into \in live /\ fs[i].old \in live
  BY <1>1, <1>3, RootsOf
<1> QED
  BY <1>3, <1>4, <1>5, <1>6, <1>7 DEF Keeps

\* A module that is emptied satisfies the invariant.
LEMMA BasicEmptied ==
  ASSUME NEW held, NEW states, NEW fs, NEW counts, Basic(held, states, fs, counts),
         NEW old \in Module, states[old] # "free"
  PROVE  Basic([held EXCEPT ![old] = Empty], states, fs, counts)
<1> DEFINE new == [held EXCEPT ![old] = Empty]
<1>1. held \in [Environment -> [Name -> Objects]] /\ old \in Environment
  BY Numbers DEF Basic, TypesOf
<1>2. /\ new \in [Environment -> [Name -> Objects]]
      /\ \A e \in Environment : e # old => new[e] = held[e]
      /\ \A n \in Name : new[old][n] = Nothing
  BY <1>1, Kinds
<1> HIDE DEF new
<1>3. TypesOf(new, states, fs, counts)
  BY <1>2 DEF Basic, TypesOf
<1>4. \A m \in Module : states[m] = "free" => new[m] = held[m]
  BY <1>2, Numbers
<1>5. \A e \in Environment, n \in Name, m \in Module : new[e][n] = ModuleObject(m) => held[e][n] = ModuleObject(m)
  BY <1>2, Kinds
<1>6. Basic(new, states, fs, counts)
  BY <1>3, <1>4, <1>5, BasicChange
<1> QED
  BY <1>6 DEF new

\* The import of a path of one's own: the module that was only defined is destroyed.
LEMMA DefinesOwn ==
  ASSUME Basic(store, state, stack, loads), NEW sh, Strong(store, state, stack, loads, sh),
         stack # <<>>, Top.kind = "define", Top.path \in Own,
         Become(TakenOver, [state EXCEPT ![Top.env] = "Loaded"], Below, "object",
                Counted(EnvironmentOf(Below), Top.path))
  PROVE  Done
<1> DEFINE root == EnvironmentOf(Below)
           into == Top.into
           name == Top.name
           env == Top.env
           old == Top.old
           held == [TakenOver EXCEPT ![old] = Empty]
           new == [state EXCEPT ![env] = "Loaded"]
           counts == Counted(root, Top.path)
<1>1. OfModule(Top) /\ OwnFrame(Top)
  BY DEF OfModule, OwnFrame
<1>2. /\ Basic(store, state, Below, loads) /\ Strong(store, state, Below, loads, sh)
      /\ root = EnvAt(Below, Len(Below)) /\ root \in Environment /\ root \notin sh
      /\ Placed(store, sh, Top, root) /\ Waiting(store, state, loads, Top, root)
      /\ env \notin sh /\ env \in Module /\ name \in Name /\ state[env] # "free" /\ Free(store, env)
      /\ root # env /\ \A i \in DOMAIN Below : Below[i].env # env
  BY <1>1, Ended
<1>3. into \in Environment /\ Top.path \in Path
  BY TopIs
<1>4. /\ \E at : Led(store, root, Top.path, at) /\ at[Len(Top.path)] = into
      /\ old \in Module /\ store[into][name] = ModuleObject(old) /\ state[old] = "Defined"
      /\ loads[root][Top.path] = 0
  BY <1>1, <1>2 DEF Waiting
<1>5. /\ into \notin sh /\ into \in Under(store, sh, root) /\ name \notin Builtin
      /\ name = Top.path[Len(Top.path)]
  <2>1. Len(stack) \in DOMAIN stack /\ Top = stack[Len(stack)] /\ Below = Popped(stack)
    BY TopIs
  <2>2. EnvAt(stack, Len(stack) - 1) = root
    BY <2>1, PopMeans DEF Basic, TypesOf
  <2>3. into \notin sh /\ into \in Under(store, sh, root) /\ name \notin Builtin
    BY <1>1, <2>1, <2>2, Elsewhere
  <2> QED
    BY <1>2, <2>3 DEF Placed
<1>6. state \in [Module -> {"free", "Unknown", "Defined", "Loaded"}]
      /\ store \in [Environment -> [Name -> Objects]]
  BY DEF Basic, TypesOf
<1>7. old # env
  BY <1>2, <1>3, <1>4 DEF Free
<1>8. new[env] = "Loaded" /\ new[old] = "Defined"
  <2> HIDE DEF env, old
  <2> QED
    BY <1>2, <1>4, <1>6, <1>7
<1>9. /\ Basic(store, new, Below, loads) /\ Strong(store, new, Below, loads, sh)
      /\ Stays(store, state, store, new, 0)
  <2>1. "Loaded" \in {"Unknown", "Loaded"} /\ "Loaded" \in {"Unknown", "Defined", "Loaded"}
    OBVIOUS
  <2> HIDE DEF env
  <2> QED
    BY <1>2, <2>1, StrongState, BasicState
<1>10. /\ Basic(TakenOver, state, Below, loads) /\ TakenOver[into][name] = ModuleObject(env)
       /\ \A e \in Environment, n \in Name :
            e # env /\ ~(e = into /\ n = name) => TakenOver[e][n] = store[e][n]
       /\ into # env => \A n \in Name :
            TakenOver[env][n] = IF store[old][n] # Nothing THEN store[old][n] ELSE store[env][n]
  BY <1>1, TakenOverBasic
<1> HIDE DEF new, into, name, env, old
<1>11. Basic(TakenOver, new, Below, loads) /\ Basic(TakenOver, new, Below, counts)
  <2>1. "Loaded" \in {"Unknown", "Defined", "Loaded"}
    OBVIOUS
  <2>2. Basic(TakenOver, new, Below, loads)
    BY <1>2, <1>10, <2>1, BasicState DEF new
  <2> QED
    BY <1>2, <1>3, <1>10, <2>2, LoadedBasic DEF new
<1>12. Basic(held, new, Below, loads) /\ Basic(held, new, Below, counts)
  BY <1>4, <1>8, <1>11, BasicEmptied
<1>13. TakenOver \in [Environment -> [Name -> Objects]] /\ held \in [Environment -> [Name -> Objects]]
  BY <1>11, <1>12 DEF Basic, TypesOf
<1>14. Replaceable(store, new, Below, sh, into, name, old, env)
  BY <1>2, <1>3, <1>4, <1>5, <1>8 DEF Replaceable
<1>15. env \in Environment /\ old \in Environment /\ into # old /\ into # env /\ old \notin sh
       /\ \A i \in 0 .. Len(Below) : EnvAt(Below, i) # env /\ EnvAt(Below, i) # old
  BY <1>9, <1>14, ReplaceableMeans
<1>16. /\ \A e \in Environment : e # old => held[e] = TakenOver[e]
       /\ \A n \in Name : held[old][n] = Nothing
  BY <1>13, <1>15, Kinds
<1> HIDE DEF held
<1>17. Replaced(store, held, into, name, old, env)
  BY <1>3, <1>7, <1>10, <1>13, <1>15, <1>16 DEF Replaced
<1>18. Strong(held, new, Below, loads, sh)
  BY <1>9, <1>14, <1>17, ReplacedStrong
<1>19. Stays(store, state, held, new, 0)
  <2>1. 0 \in 0 .. Len(Below) /\ EnvAt(Below, 0) = 0
    BY <1>2 DEF Basic, TypesOf, EnvAt
  <2>2. Stays(store, new, held, new, 0)
    BY <1>9, <1>14, <1>17, <2>1, ReplacedStays
  <2> QED
    BY <1>9, <2>2, StaysOn
<1>20. Leads(held, new, root, Top.path)
  <2>1. PICK at : Led(store, root, Top.path, at) /\ at[Len(Top.path)] = into
    BY <1>4
  <2> DEFINE bt == Swapped(at, Len(Top.path), old, env)
  <2>2. root # old /\ Single(store, sh)
    <3>1. Len(Below) \in 0 .. Len(Below)
      BY <1>2 DEF Basic, TypesOf
    <3> QED
      BY <1>2, <1>15, <3>1 DEF Strong, Tree
  <2>3. Led(held, root, Top.path, bt)
    BY <1>2, <1>3, <1>4, <1>6, <1>7, <1>15, <1>17, <2>1, <2>2, ReplacedLed
  <2>4. Len(Top.path) \in 1 .. Len(Top.path)
    BY <1>3, <1>6, <2>1, LedIs
  <2>5. bt[Len(Top.path)] = into
    BY <1>15, <2>1, <2>4 DEF Swapped
  <2> HIDE DEF bt, root
  <2>6. Names(held, root, Top.path, ModuleObject(env))
    BY <1>5, <1>17, <2>3, <2>5 DEF Names, Replaced
  <2>7. SettledIn(new, ModuleObject(env)) /\ ModuleObject(env) \in Objects
    BY <1>2, <1>8, Kinds DEF SettledIn
  <2> QED
    BY <2>6, <2>7 DEF Leads
<1>21. Strong(held, new, Below, counts, sh)
  BY <1>3, <1>4, <1>12, <1>18, <1>20, StrongCount
<1>22. PICK live : Keeps(live, TakenOver, new, Below, counts) /\ old \notin live
  <2>1. old \notin Roots(Below)
    BY <1>9, <1>14, OldIsNoRoot
  <2>2. ASSUME NEW e \in Environment, NEW n \in Name, e # old, TakenOver[e][n] = ModuleObject(old)
        PROVE  FALSE
    <3>1. ~(e = into /\ n = name)
      BY <1>7, <1>10, <2>2, Kinds
    <3>2. CASE e # env
      <4>1. store[e][n] = ModuleObject(old)
        BY <1>10, <2>2, <3>1, <3>2
      <4>2. Single(store, sh)
        BY <1>2 DEF Strong, Tree
      <4> QED
        BY <1>2, <1>3, <1>4, <1>15, <3>1, <4>1, <4>2 DEF Single
    <3>3. CASE e = env
      <4>1. store[old][n] = ModuleObject(old) \/ store[env][n] = ModuleObject(old)
        BY <1>10, <1>15, <2>2, <3>3
      <4>2. Single(store, sh)
        BY <1>2 DEF Strong, Tree
      <4>3. env = into \/ old = into
        BY <1>2, <1>3, <1>4, <1>15, <4>1, <4>2 DEF Single
      <4> QED
        BY <1>15, <4>3
    <3> QED
      BY <3>2, <3>3
  <2>3. Become(TakenOver, new, Below, "object", counts)
    BY DEF new, env
  <2> QED
    BY <1>4, <1>11, <2>1, <2>2, <2>3, BecomeLeaves
<1>23. Keeps(live, held, new, Below, counts)
  <2>1. live \subseteq Environment /\ \A e \in live : held[e] = TakenOver[e]
    BY <1>16, <1>22 DEF Keeps
  <2>2. [e \in Environment |-> IF e \in live THEN TakenOver[e] ELSE Empty]
        = [e \in Environment |-> IF e \in live THEN held[e] ELSE Empty]
    BY <2>1
  <2> QED
    BY <1>22, <2>1, <2>2 DEF Keeps
<1>24. /\ Strong(store', state', stack', loads', sh \cap live)
       /\ Stays(held, new, store', state', 0)
  BY <1>12, <1>21, <1>23, StrongKeeps
<1> QED
  BY <1>19, <1>24, StaysOn DEF Done

\* Another one: the module is shared from now on.
LEMMA DefinesShared ==
  ASSUME Basic(store, state, stack, loads), NEW sh, Strong(store, state, stack, loads, sh),
         stack # <<>>, Top.kind = "define", Top.path \notin Own,
         Become(TakenOver, [state EXCEPT ![Top.env] = "Loaded"], Below, "object",
                Counted(EnvironmentOf(Below), Top.path))
  PROVE  Done
<1> DEFINE root == EnvironmentOf(Below)
           into == Top.into
           name == Top.name
           env == Top.env
           old == Top.old
           new == [state EXCEPT ![env] = "Loaded"]
           counts == Counted(root, Top.path)
<1>1. OfModule(Top)
  BY DEF OfModule
<1>2. /\ Basic(store, state, Below, loads) /\ Strong(store, state, Below, loads, sh)
      /\ root = EnvAt(Below, Len(Below)) /\ root \in Environment
      /\ Placed(store, sh, Top, root)
      /\ env \notin sh /\ env \in Module /\ name \in Name /\ state[env] # "free" /\ Free(store, env)
      /\ \A i \in DOMAIN Below : Below[i].env # env
  BY <1>1, Ended
<1>3. into \in Environment /\ Top.path \in Path /\ old \in Environment /\ env \in Environment
  BY TopIs
<1>4. (into \in sh \/ name \in Builtin) /\ old \in sh
  BY <1>2 DEF Placed
<1>5. state \in [Module -> {"free", "Unknown", "Defined", "Loaded"}]
  BY DEF Basic, TypesOf
<1>6. new[env] = "Loaded"
  <2> HIDE DEF env
  <2> QED
    BY <1>2, <1>5
<1>7. /\ Basic(store, new, Below, loads) /\ Strong(store, new, Below, loads, sh)
      /\ Stays(store, state, store, new, 0)
  <2>1. "Loaded" \in {"Unknown", "Loaded"} /\ "Loaded" \in {"Unknown", "Defined", "Loaded"}
    OBVIOUS
  <2> HIDE DEF env
  <2> QED
    BY <1>2, <2>1, StrongState, BasicState
<1>8. /\ Basic(TakenOver, state, Below, loads) /\ TakenOver[into][name] = ModuleObject(env)
      /\ \A e \in Environment, n \in Name :
           e # env /\ ~(e = into /\ n = name) => TakenOver[e][n] = store[e][n]
      /\ into # env => \A n \in Name :
           TakenOver[env][n] = IF store[old][n] # Nothing THEN store[old][n] ELSE store[env][n]
  BY <1>1, TakenOverBasic
<1> HIDE DEF new, into, name, env, old
<1>9. Basic(TakenOver, new, Below, loads) /\ Basic(TakenOver, new, Below, counts)
  <2>1. "Loaded" \in {"Unknown", "Defined", "Loaded"}
    OBVIOUS
  <2>2. Basic(TakenOver, new, Below, loads)
    BY <1>2, <1>8, <2>1, BasicState DEF new
  <2> QED
    BY <1>2, <1>3, <1>8, <2>2, LoadedBasic DEF new
<1>10. PICK sh2 : Strong(store, new, Below, loads, sh2) /\ sh \subseteq sh2 /\ env \in sh2
  BY <1>2, <1>6, <1>7, StrongShare
<1>11. /\ Rule(store, sh2) /\ Single(store, sh2) /\ sh2 \subseteq Module /\ \A m \in sh2 : new[m] # "free"
       /\ \A i \in DOMAIN Below : Below[i].env \notin sh2
  BY <1>10 DEF Strong, Tree
<1>12. into # env
  <2>1. into \in sh \/ into \in Under(store, sh, root)
    BY <1>2 DEF Placed, into
  <2>2. root # env /\ Free(store, root)
    BY <1>1, Ended DEF env
  <2>3. Single(store, sh) /\ env \in Under(store, sh, env)
    BY <1>2, <1>3, UnderIs DEF Strong, Tree
  <2> HIDE DEF root
  <2> QED
    BY <1>2, <1>3, <2>1, <2>2, <2>3, Disjoint
<1>13. ASSUME NEW e \in Environment, NEW n \in Name, NEW m \in Module, TakenOver[e][n] = ModuleObject(m)
       PROVE  \/ store[e][n] = ModuleObject(m)
              \/ e = into /\ n = name /\ m = env
              \/ e = env /\ store[old][n] = ModuleObject(m)
  <2>1. CASE e = into /\ n = name
    BY <1>8, <1>13, <2>1, Kinds
  <2>2. CASE e = env
    BY <1>8, <1>12, <1>13, <2>2
  <2>3. CASE e # env /\ ~(e = into /\ n = name)
    BY <1>8, <1>13, <2>3
  <2> QED
    BY <2>1, <2>2, <2>3
<1>14. Rule(TakenOver, sh2)
  <2>1. SUFFICES ASSUME NEW e \in Environment, NEW n \in Name, NEW m \in Module,
                        TakenOver[e][n] = ModuleObject(m)
                 PROVE  m \in sh2 <=> e \in sh2 \/ n \in Builtin
    BY DEF Rule
  <2>2. CASE store[e][n] = ModuleObject(m)
    BY <1>11, <2>2 DEF Rule
  <2>3. CASE e = into /\ n = name /\ m = env
    BY <1>4, <1>10, <2>3
  <2>4. CASE e = env /\ store[old][n] = ModuleObject(m)
    BY <1>3, <1>4, <1>10, <1>11, <2>4 DEF Rule
  <2> QED
    BY <1>13, <2>1, <2>2, <2>3, <2>4
<1>15. Single(TakenOver, sh2)
  <2>1. SUFFICES ASSUME NEW e1 \in Environment, NEW e2 \in Environment, NEW n1 \in Name, NEW n2 \in Name,
                        NEW m \in Module, TakenOver[e1][n1] = ModuleObject(m),
                        TakenOver[e2][n2] = ModuleObject(m), m \notin sh2
                 PROVE  e1 = e2 /\ n1 = n2
    BY DEF Single
  <2>2. ASSUME NEW e \in Environment, NEW n \in Name, TakenOver[e][n] = ModuleObject(m)
        PROVE  store[e][n] = ModuleObject(m)
    <3>1. m # env
      BY <1>10, <2>1
    <3>2. e # env
      BY <1>10, <1>14, <2>1, <2>2 DEF Rule
    <3> QED
      BY <1>13, <2>2, <3>1, <3>2
  <2> QED
    BY <1>11, <2>1, <2>2 DEF Single
<1>16. Changes(store, new, Below, sh2, TakenOver, new, sh2)
  <2>1. ASSUME NEW e \in Environment, NEW n \in Name, TakenOver[e][n] # store[e][n]
        PROVE  /\ store[e][n] = Nothing \/ e \in sh2 \/ n \in Builtin
               /\ \A i \in DOMAIN Below : OwnFrame(Below[i]) => ~(e = Below[i].into /\ n = Below[i].name)
    <3>1. e = env \/ (e = into /\ n = name)
      BY <1>8, <2>1
    <3>2. e \in sh2 \/ n \in Builtin
      BY <1>4, <1>10, <3>1
    <3>3. \A i \in DOMAIN Below : OwnFrame(Below[i]) => Below[i].into \notin sh2 /\ Below[i].name \notin Builtin
      BY <1>7, <1>10, Elsewhere
    <3> QED
      BY <3>2, <3>3
  <2> QED
    BY <1>11, <1>14, <1>15, <2>1 DEF Changes
<1>17. Strong(TakenOver, new, Below, loads, sh2) /\ Stays(store, new, TakenOver, new, 0)
  BY <1>7, <1>9, <1>10, <1>16, StrongChange
<1>18. Strong(TakenOver, new, Below, counts, sh2)
  BY <1>3, <1>9, <1>17, StrongCount
<1>19. Stays(store, state, TakenOver, new, 0)
  BY <1>7, <1>17, StaysOn
<1>20. Become(TakenOver, new, Below, "object", counts)
  BY DEF new, env
<1> QED
  BY <1>9, <1>18, <1>19, <1>20, BecomeDone

\* The end of a file whose module was only defined before.
LEMMA EndDefineDone ==
  ASSUME Basic(store, state, stack, loads), NEW sh, Strong(store, state, stack, loads, sh), EndDefine
  PROVE  Done
<1>1. stack # <<>> /\ Top.kind = "define"
  BY DEF EndDefine, Ends
<1>2. CASE Become(store, state, Below, "error", loads)
  <2>1. Basic(store, state, Below, loads) /\ Strong(store, state, Below, loads, sh)
    BY <1>1, Ended
  <2>2. Stays(store, state, store, state, 0)
    BY DEF Stays
  <2> QED
    BY <1>2, <2>1, <2>2, BecomeDone
<1>3. CASE Become(TakenOver, [state EXCEPT ![Top.env] = "Loaded"], Below, "object",
                  Counted(EnvironmentOf(Below), Top.path))
  BY <1>1, <1>3, DefinesOwn, DefinesShared
<1> QED
  BY <1>2, <1>3 DEF EndDefine, TakenOver

-----------------------------------------------------------------------------
\* The inductive invariant, and what it says.

SInv == IInv /\ \E sh : Strong(store, state, stack, loads, sh)

\* In the beginning only the modules of the program are shared.
LEMMA InitSInv == Init => SInv
<1> SUFFICES ASSUME Init PROVE SInv
  OBVIOUS
<1>1. IInv /\ Basic(store, state, stack, loads)
  BY InitIInv DEF IInv
<1> DEFINE sh == DOMAIN Provided
<1>2. stack = <<>> /\ DOMAIN stack = {} /\ Len(stack) = 0
  BY DEF Init
<1>3. \A m \in DOMAIN Provided :
         Provided[m] \in [Name -> {Nothing, Value} \cup {ModuleObject(k) : k \in DOMAIN Provided}]
  BY ConstantAssumption
<1>4. ASSUME NEW e \in Environment, NEW n \in Name, NEW m \in Module, store[e][n] = ModuleObject(m)
      PROVE  e \in sh /\ m \in sh
  <2>1. \/ e \in DOMAIN Provided /\ store[e] = Provided[e]
        \/ store[e] = Empty
    BY DEF Init
  <2>2. e \in DOMAIN Provided /\ Provided[e][n] = ModuleObject(m)
    BY <1>4, <2>1, Kinds
  <2>3. Provided[e][n] \in {Nothing, Value} \cup {ModuleObject(k) : k \in DOMAIN Provided}
    BY <1>3, <2>2
  <2> QED
    BY <2>2, <2>3, Kinds
<1>5. Rule(store, sh) /\ Single(store, sh)
  <2> HIDE DEF sh
  <2> QED
    BY <1>4 DEF Rule, Single
<1>6. Tree(store, state, stack, sh)
  BY <1>2, <1>5, Numbers DEF Init, Tree
<1>7. Open(store, state, stack, loads, sh)
  BY <1>2 DEF Open
<1>8. ASSUME NEW e \in Environment, NEW path \in Own PROVE loads[e][path] = 0
  BY OwnPath DEF Init, Never
<1>9. Loads(store, state, stack, loads)
  <2>1. \A i \in 0 .. Len(stack) : EnvAt(stack, i) \in Environment
    BY <1>2, Numbers DEF EnvAt
  <2> QED
    BY <1>8, <2>1 DEF Loads
<1> HIDE DEF sh
<1> QED
  BY <1>1, <1>6, <1>7, <1>9 DEF Strong, SInv

\* Every statement.
LEMMA ExecuteDone ==
  ASSUME IInv, Able, NEW sh, Strong(store, state, stack, loads, sh), NEW s \in Statements, Execute(s)
  PROVE  Done
<1>1. files \in Programs /\ Basic(store, state, stack, loads)
  BY DEF IInv
<1>2. CASE s.op = "let"
  <2>1. s.name \in Name /\ Let(s.name)
    BY <1>2 DEF Statements, Execute
  <2> QED
    BY <1>1, <2>1, LetDone, YieldsDone DEF Let
<1>3. CASE s.op \in {"fail", "exit"}
  <2>1. \E r : Yields(r)
    BY <1>3 DEF Execute
  <2> QED
    BY <1>1, <2>1, YieldsDone
<1>4. CASE s.op = "import"
  <2>1. s.path \in Path /\ Import(s.path)
    BY <1>4 DEF Statements, Execute
  <2> QED
    BY <1>1, <2>1, ImportDone
<1>5. CASE s.op = "let import"
  <2>1. s.name \in Name /\ s.path \in Path /\ LetImport(s.name, s.path)
    BY <1>5 DEF Statements, Execute
  <2> QED
    BY <1>1, <2>1, LetImportDone
<1>6. CASE s.op = "run"
  <2>1. s.path \in Path /\ Run(s.path)
    BY <1>6 DEF Statements, Execute
  <2> QED
    BY <1>1, <2>1, RunDone
<1>7. CASE s.op = "run_once"
  <2>1. s.path \in Path /\ RunOnce(s.path)
    BY <1>7 DEF Statements, Execute
  <2> QED
    BY <1>1, <2>1, RunOnceDone
<1>8. s.op \in {"let", "fail", "exit", "import", "let import", "run", "run_once"}
  BY DEF Statements
<1> QED
  BY <1>2, <1>3, <1>4, <1>5, <1>6, <1>7, <1>8

\* Every step.
LEMMA NextDone ==
  ASSUME SInv, Next
  PROVE  Done
<1>1. IInv /\ Basic(store, state, stack, loads)
  BY DEF SInv, IInv
<1>2. PICK sh : Strong(store, state, stack, loads, sh)
  BY DEF SInv
<1>3. ASSUME NEW s \in Statement, stack = <<>>, Execute(s) PROVE Done
  <2>1. s \in Statements /\ Able
    BY <1>3, ConstantAssumption DEF Able
  <2> QED
    BY <1>1, <1>2, <1>3, <2>1, ExecuteDone
<1>4. CASE stack # <<>> /\ ~Ends /\ Execute(Head(Top.rest))
  <2>1. Top.rest \in Seq(Statements) /\ Top.rest # <<>>
    BY <1>1, <1>4, TopIs DEF Frames, Ends
  <2>2. Head(Top.rest) \in Statements /\ Able
    BY <2>1 DEF Able
  <2> QED
    BY <1>1, <1>2, <1>4, <2>2, ExecuteDone
<1>5. CASE EndImport \/ EndDefine \/ EndFunction \/ EndRun
  BY <1>1, <1>2, <1>5, EndImportDone, EndDefineDone, EndFunctionDone, EndRunDone
<1> QED
  BY <1>3, <1>4, <1>5 DEF Next

\* Every step keeps the invariant.
LEMMA NextSInv == SInv /\ [Next]_vars => SInv'
<1> SUFFICES ASSUME SInv, [Next]_vars PROVE SInv'
  OBVIOUS
<1>1. IInv'
  BY NextIInv DEF SInv
<1>2. \E sh : Strong(store', state', stack', loads', sh)
  <2>1. CASE Next
    BY <2>1, NextDone DEF Done
  <2>2. CASE UNCHANGED vars
    BY <2>2 DEF vars, SInv
  <2> QED
    BY <2>1, <2>2
<1> QED
  BY <1>1, <1>2 DEF SInv

\* The modules of a file that runs, but for the shared ones, are a tree, apart from the
\* trees of other files; what a file that waits has found out still holds; and what
\* an environment has loaded is there.
THEOREM SharedOrSingle == Spec => []SInv
BY InitSInv, NextSInv, PTL DEF Spec

\* An environment loads a path once: an import of what is there is no load, and what
\* was loaded stays.  run_once enters a file in its registry before it runs it.
THEOREM RunsOnce == Spec => []CodeRunsOnce
<1>1. SInv => CodeRunsOnce
  <2>1. SUFFICES ASSUME SInv PROVE CodeRunsOnce
    OBVIOUS
  <2>2. \A e \in Environment, path \in Own : loads[e][path] <= 1
    BY <2>1 DEF SInv, Strong, Loads
  <2>3. \A path \in Path : onces[path] <= 1
    BY <2>1 DEF SInv, IInv, Once
  <2> QED
    BY <2>2, <2>3 DEF CodeRunsOnce
<1> QED
  BY <1>1, SharedOrSingle, PTL

\* What a path names in the session, it names there.
LEMMA NamedIs ==
  ASSUME NEW path \in Path, NEW o
  PROVE  /\ Named(path, o) <=> Names(store, 0, path, o)
         /\ Named(path, o)' <=> Names(store', 0, path, o)
<1>1. DOMAIN path = 1 .. Len(path)
  BY Paths
<1> QED
  BY <1>1 DEF Named, Names, Led

\* No import takes a value or a loaded module from the session: one that fails adds
\* nothing, and one that replaces a module that was only defined keeps what is in it.
THEOREM NamesStay == Spec => BindingsStay
<1> DEFINE Stay == \A path \in Own, o \in {Value} \cup {ModuleObject(m) : m \in Module} :
                     Named(path, o) /\ Settled(o) => Named(path, o)'
<1>1. SInv /\ [Next]_vars => [Stay]_vars
  <2>1. SUFFICES ASSUME SInv, Next PROVE Stay
    OBVIOUS
  <2>2. Stays(store, state, store', state', 0)
    BY <2>1, NextDone DEF Done
  <2>3. SUFFICES ASSUME NEW path \in Own, NEW o \in {Value} \cup {ModuleObject(m) : m \in Module},
                        Named(path, o), Settled(o)
                 PROVE  Named(path, o)'
    OBVIOUS
  <2>4. path \in Path /\ o \in Objects
    BY OwnPath, Kinds
  <2>5. SettledIn(state, o)
    BY <2>3 DEF Settled, SettledIn
  <2>6. Names(store, 0, path, o)
    BY <2>3, <2>4, NamedIs
  <2>7. Names(store', 0, path, o)
    BY <2>2, <2>4, <2>5, <2>6 DEF Stays
  <2> QED
    BY <2>4, <2>7, NamedIs
<1> QED
  BY <1>1, SharedOrSingle, PTL DEF Spec, BindingsStay

=============================================================================
