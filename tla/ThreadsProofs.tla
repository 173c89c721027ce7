---------------------------- MODULE ThreadsProofs ---------------------------
(* Theorems about Threads: type correctness, join() as a barrier, the life of a Thread object
   that is not detached, and that threads keep the promise of Futures. *)
EXTENDS Threads, TLAPS

(* A value is there once a run has returned, and not before. *)
ValueFromRun ==
  /\ \A n \in returned : runs[n] # None /\ value[runs[n]] # "empty"
  /\ \A t \in Thread : value[t] # "empty" => \E n \in returned : runs[n] = t

(* An actor inside start() reaches the object, and the thread it has made runs on that. *)
StartersReach ==
  \A a \in Actor :
    /\ starting[a] # None => starting[a] \in refs[a]
    /\ launched[a] # None => starting[a] # None /\ runs[launched[a]] = starting[a]

(* As long as no two starts of an object have overlapped, one actor at a time is inside its
   start(), that one has found no handle, and a thread that runs on the object is in the handle
   or about to be stored there. *)
OneStarter ==
  \A t \in Thread \ raced :
    /\ \A a, b \in Actor : starting[a] = t /\ starting[b] = t => a = b
    /\ \A a \in Actor : starting[a] = t => handle[t] = None
    /\ \A n \in Native :
         runs[n] = t => handle[t] = n \/ \E a \in Actor : starting[a] = t /\ launched[a] = n

(* Only a thread that runs has variables. *)
IdleReachesNothing == \A n \in Native : ~Running(n) => refs[n] = {}

JoinableIsAlive == \A t \in Thread : handle[t] # None /\ handle[t] \notin released => Alive(t)

IInv ==
  /\ TypeOK /\ JoinedHasValue /\ ValueFromRun /\ StartersReach /\ OneStarter
  /\ IdleReachesNothing /\ JoinableIsAlive

-----------------------------------------------------------------------------
(* The invariant. *)

\* The first state satisfies it.
LEMMA InitInv == Init => IInv
BY ConstantAssumption DEF Init, IInv, TypeOK, JoinedHasValue, ValueFromRun, StartersReach,
   OneStarter, IdleReachesNothing, JoinableIsAlive, Actor, Outcomes

(* What a step leaves of the invariant when it changes neither objects nor threads nor who is
   inside start(). *)
LEMMA SameThreads ==
  ASSUME IInv, TypeOK',
         UNCHANGED <<refs, objects, threads, starting, launched>>,
         raced \subseteq raced', detached \subseteq detached'
  PROVE  IInv'
<1>1. JoinedHasValue' /\ ValueFromRun' /\ StartersReach' /\ IdleReachesNothing' /\ JoinableIsAlive'
  BY DEF IInv, JoinedHasValue, ValueFromRun, StartersReach, IdleReachesNothing, JoinableIsAlive,
     Running, Alive, objects, threads
<1>2. OneStarter'
  BY DEF IInv, OneStarter, objects, threads
<1> QED
  BY <1>1, <1>2 DEF IInv

(* A crash changes `process` only. *)
LEMMA CrashInv ==
  ASSUME IInv, NEW how \in {"ended", "terminated", "undefined"}, Crash(how)
  PROVE  IInv'
<1>1. TypeOK'
  BY DEF Crash, IInv, TypeOK, objects, threads, history
<1> QED
  BY <1>1, SameThreads DEF Crash, history

\* A stuttering step keeps it.
LEMMA StutterInv ==
  ASSUME IInv, UNCHANGED vars
  PROVE  IInv'
<1>1. TypeOK'
  BY DEF vars, IInv, TypeOK, objects, threads, history
<1> QED
  BY <1>1, SameThreads DEF vars, history

(* When references change without being fatal, what is joinable is still reached. *)
LEMMA NotFatal ==
  ASSUME IInv, NEW r, ~Fatal(r), NEW t \in Thread, handle[t] # None, handle[t] \notin released
  PROVE  \E a \in Actor : t \in r[a]
BY DEF Fatal, Destroyed, IInv, JoinableIsAlive

(* A new object has no handle, no value and no thread. *)
LEMMA CreateInv ==
  ASSUME IInv, NEW a \in Actor, NEW t \in Thread, Create(a, t)
  PROVE  IInv'
<1>1. /\ refs' = [refs EXCEPT ![a] = @ \cup {t}] /\ created' = created \cup {t}
      /\ UNCHANGED <<handle, value, runs, returned, released, starting, launched, waiting,
                     process, detached, raced, got>>
  BY DEF Create, threads, history
<1>2. TypeOK'
  BY <1>1 DEF IInv, TypeOK
<1>3. \A b \in Actor : refs[b] \subseteq refs'[b] /\ (b # a => refs'[b] = refs[b])
  BY <1>1 DEF IInv, TypeOK
<1>4. JoinedHasValue' /\ ValueFromRun' /\ OneStarter'
  <2>1. JoinedHasValue' /\ ValueFromRun'
    BY <1>1 DEF IInv, JoinedHasValue, ValueFromRun
  <2>2. OneStarter'
    BY <1>1 DEF IInv, OneStarter
  <2> QED
    BY <2>1, <2>2
<1>5. StartersReach' /\ JoinableIsAlive'
  BY <1>1, <1>3 DEF IInv, StartersReach, JoinableIsAlive, Alive
<1>6. IdleReachesNothing'
  <2> SUFFICES ASSUME NEW n \in Native, ~Running(n)
               PROVE  refs'[n] = {}
    BY <1>1 DEF IdleReachesNothing, Running
  <2>1. a # n
    BY ConstantAssumption DEF Create, Active
  <2> QED
    BY <1>3, <2>1 DEF IInv, IdleReachesNothing, Actor
<1> QED
  BY <1>2, <1>4, <1>5, <1>6 DEF IInv

(* Dropping a variable destroys no object whose std::thread is joinable. *)
LEMMA DropInv ==
  ASSUME IInv, NEW a \in Actor, NEW t \in Thread, Drop(a, t)
  PROVE  IInv'
<1> DEFINE r == [refs EXCEPT ![a] = @ \ {t}]
<1>1. CASE Fatal(r)
  BY <1>1, CrashInv DEF Drop
<1>2. CASE ~Fatal(r)
  <2>1. refs' = r /\ UNCHANGED <<created, handle, value, runs, returned, released, starting,
                                 launched, waiting, process, detached, raced, got>>
    BY <1>2 DEF Drop, objects, threads, history
  <2>2. TypeOK'
    BY <2>1 DEF IInv, TypeOK
  <2>3. \A b \in Actor : refs'[b] \subseteq refs[b] /\ (b # a => refs'[b] = refs[b])
    BY <2>1 DEF IInv, TypeOK
  <2>4. JoinableIsAlive'
    <3> SUFFICES ASSUME NEW u \in Thread, handle[u] # None, handle[u] \notin released
                 PROVE  \E b \in Actor : u \in refs'[b]
      BY <2>1 DEF JoinableIsAlive, Alive
    <3> QED
      BY <1>2, <2>1, NotFatal
  <2>5. JoinedHasValue' /\ ValueFromRun'
    BY <2>1 DEF IInv, JoinedHasValue, ValueFromRun
  <2>6. OneStarter'
    BY <2>1 DEF IInv, OneStarter
  <2>7. StartersReach'
    <3>1. starting[a] = None
      BY DEF Drop, Reaches, Active
    <3> QED
      BY <2>1, <2>3, <3>1 DEF IInv, StartersReach
  <2>8. IdleReachesNothing'
    BY <2>1, <2>3 DEF IInv, IdleReachesNothing, Running, Actor
  <2> QED
    BY <2>2, <2>4, <2>5, <2>6, <2>7, <2>8 DEF IInv
<1> QED
  BY <1>1, <1>2

(* An actor enters start() of an object without a handle; one that finds another there makes the
   object raced. *)
LEMMA StartInv ==
  ASSUME IInv, NEW a \in Actor, NEW t \in Thread, Start(a, t)
  PROVE  IInv'
<1>1. CASE handle[t] # None
  BY <1>1, CrashInv DEF Start
<1>2. CASE handle[t] = None
  <2>1. /\ starting' = [starting EXCEPT ![a] = t]
        /\ raced' = IF \E b \in Actor : starting[b] = t THEN raced \cup {t} ELSE raced
        /\ UNCHANGED <<refs, created, handle, value, runs, returned, released, launched, waiting,
                       process, detached, got>>
    BY <1>2 DEF Start, objects, threads
  <2>2. TypeOK'
    BY <2>1 DEF IInv, TypeOK
  <2>3. /\ starting'[a] = t /\ \A b \in Actor \ {a} : starting'[b] = starting[b]
        /\ starting[a] = None /\ t \in refs[a] /\ raced \subseteq raced' /\ t # None
    BY <2>1, ConstantAssumption DEF Start, Reaches, Active, IInv, TypeOK
  <2>4. JoinedHasValue' /\ ValueFromRun' /\ IdleReachesNothing' /\ JoinableIsAlive'
    BY <2>1 DEF IInv, JoinedHasValue, ValueFromRun, IdleReachesNothing, JoinableIsAlive, Running, Alive
  <2>5. StartersReach'
    BY <2>1, <2>3 DEF IInv, StartersReach
  <2>6. OneStarter'
    <3> SUFFICES ASSUME NEW u \in Thread, u \notin raced'
                 PROVE  /\ \A b, c \in Actor : starting'[b] = u /\ starting'[c] = u => b = c
                        /\ \A b \in Actor : starting'[b] = u => handle[u] = None
                        /\ \A n \in Native :
                             runs[n] = u => \/ handle[u] = n
                                            \/ \E b \in Actor : starting'[b] = u /\ launched[b] = n
      BY <2>1 DEF OneStarter
    <3>1. /\ \A b, c \in Actor : starting[b] = u /\ starting[c] = u => b = c
          /\ \A b \in Actor : starting[b] = u => handle[u] = None
          /\ \A n \in Native :
               runs[n] = u => handle[u] = n \/ \E b \in Actor : starting[b] = u /\ launched[b] = n
      BY <2>3 DEF IInv, OneStarter
    <3>2. u = t => \A b \in Actor : starting[b] # t
      BY <2>1
    <3>3. \A b \in Actor : starting[b] = u => b # a
      BY <2>3, ConstantAssumption
    <3>4. \A b \in Actor : starting[b] = u => starting'[b] = u
      BY <2>3, <3>3
    <3>5. ASSUME NEW b \in Actor, NEW c \in Actor, starting'[b] = u, starting'[c] = u
          PROVE  b = c
      BY <2>3, <3>1, <3>2, <3>5
    <3>6. ASSUME NEW b \in Actor, starting'[b] = u
          PROVE  handle[u] = None
      BY <1>2, <2>3, <3>1, <3>6
    <3> QED
      BY <3>1, <3>4, <3>5, <3>6
  <2> QED
    BY <2>2, <2>4, <2>5, <2>6 DEF IInv
<1> QED
  BY <1>1, <1>2

(* The new native thread runs on the object, on behalf of the actor inside start(). *)
LEMMA LaunchInv ==
  ASSUME IInv, NEW a \in Actor, Launch(a)
  PROVE  IInv'
<1>1. CASE Unused = {}
  BY <1>1, CrashInv DEF Launch
<1>2. CASE Unused # {}
  <2>1. PICK n \in Unused :
          /\ runs' = [runs EXCEPT ![n] = starting[a]]
          /\ launched' = [launched EXCEPT ![a] = n]
          /\ \E reached \in SUBSET refs[a] : refs' = [refs EXCEPT ![n] = reached]
          /\ UNCHANGED <<created, handle, value, returned, released, starting, waiting, process,
                         detached, raced, got>>
    BY <1>2 DEF Launch, objects, history
  <2>2. PICK reached \in SUBSET refs[a] : refs' = [refs EXCEPT ![n] = reached]
    BY <2>1
  <2>3. /\ n \in Native /\ n \in Actor /\ runs[n] = None /\ n # None
        /\ starting[a] \in Thread /\ starting[a] # None /\ launched[a] = None
        /\ refs[a] \subseteq Thread
    BY ConstantAssumption DEF Unused, Actor, Launch, IInv, TypeOK
  <2>4. TypeOK'
    BY <2>1, <2>2, <2>3 DEF IInv, TypeOK
  <2>5. /\ runs'[n] = starting[a] /\ \A m \in Native \ {n} : runs'[m] = runs[m]
        /\ launched'[a] = n /\ \A b \in Actor \ {a} : launched'[b] = launched[b]
        /\ refs'[n] = reached /\ \A b \in Actor \ {n} : refs'[b] = refs[b]
    BY <2>1, <2>2, <2>3 DEF IInv, TypeOK
  <2>6. n \notin returned /\ ~Running(n) /\ refs[n] = {} /\ a # n
    <3>1. n \notin returned /\ ~Running(n) /\ refs[n] = {}
      BY <2>3 DEF IInv, ValueFromRun, Running, IdleReachesNothing
    <3>2. refs[a] # {}
      BY <2>3 DEF IInv, StartersReach
    <3> QED
      BY <3>1, <3>2
  <2>7. JoinedHasValue'
    <3> SUFFICES ASSUME NEW m \in released \ detached
                 PROVE  m \in returned /\ value[runs'[m]] # "empty"
      BY <2>1 DEF JoinedHasValue
    <3>1. m \in returned /\ value[runs[m]] # "empty" /\ m \in Native
      BY DEF IInv, JoinedHasValue, TypeOK
    <3> QED
      BY <2>5, <2>6, <3>1
  <2>8. ValueFromRun'
    <3>1. ASSUME NEW m \in returned
          PROVE  runs'[m] # None /\ value[runs'[m]] # "empty"
      BY <2>5, <2>6 DEF IInv, TypeOK, ValueFromRun
    <3>2. ASSUME NEW t \in Thread, value[t] # "empty"
          PROVE  \E m \in returned : runs'[m] = t
      <4>1. PICK m \in returned : runs[m] = t
        BY <3>2 DEF IInv, ValueFromRun
      <4>2. m \in Native /\ m # n
        BY <2>6, <4>1 DEF IInv, TypeOK
      <4> QED
        BY <2>5, <4>1, <4>2
    <3> QED
      BY <2>1, <3>1, <3>2 DEF ValueFromRun
  <2>9. StartersReach'
    <3> SUFFICES ASSUME NEW b \in Actor
                 PROVE  /\ starting[b] # None => starting[b] \in refs'[b]
                        /\ launched'[b] # None =>
                             starting[b] # None /\ runs'[launched'[b]] = starting[b]
      BY <2>1 DEF StartersReach
    <3>1. starting[b] # None => starting[b] \in refs[b] /\ b # n
      BY <2>6 DEF IInv, StartersReach
    <3>2. CASE b = a
      BY <2>3, <2>5, <2>6, <3>1, <3>2
    <3>3. CASE b # a
      <4>1. launched[b] # None => /\ starting[b] # None /\ runs[launched[b]] = starting[b]
                                  /\ launched[b] \in Native
        BY DEF IInv, TypeOK, StartersReach
      <4>2. launched[b] # None => launched[b] # n
        BY <2>3, <4>1
      <4> QED
        BY <2>5, <3>1, <3>3, <4>1, <4>2
    <3> QED
      BY <3>2, <3>3
  <2>10. OneStarter'
    <3> SUFFICES ASSUME NEW t \in Thread \ raced, NEW m \in Native, runs'[m] = t
                 PROVE  handle[t] = m \/ \E b \in Actor : starting[b] = t /\ launched'[b] = m
      BY <2>1 DEF IInv, OneStarter
    <3>1. CASE m = n
      BY <2>5, <3>1
    <3>2. CASE m # n
      <4>1. runs[m] = t
        BY <2>5, <3>2
      <4>2. handle[t] = m \/ \E b \in Actor : starting[b] = t /\ launched[b] = m
        BY <4>1 DEF IInv, OneStarter
      <4>3. ASSUME NEW b \in Actor, launched[b] = m
            PROVE  b # a
        BY <2>3, <4>3, ConstantAssumption
      <4> QED
        BY <2>5, <4>2, <4>3
    <3> QED
      BY <3>1, <3>2
  <2>11. IdleReachesNothing'
    <3> SUFFICES ASSUME NEW m \in Native, ~Running(m)'
                 PROVE  refs'[m] = {}
      BY DEF IdleReachesNothing
    <3>1. m # n
      BY <2>1, <2>3, <2>5, <2>6 DEF Running
    <3>2. ~Running(m)
      BY <2>1, <2>5, <3>1 DEF Running
    <3> QED
      BY <2>5, <3>1, <3>2 DEF IInv, IdleReachesNothing, Actor
  <2>12. JoinableIsAlive'
    <3> SUFFICES ASSUME NEW t \in Thread, handle[t] # None, handle[t] \notin released
                 PROVE  \E b \in Actor : t \in refs'[b]
      BY <2>1 DEF JoinableIsAlive, Alive
    <3>1. PICK b \in Actor : t \in refs[b]
      BY DEF IInv, JoinableIsAlive, Alive
    <3>2. b # n
      BY <2>6, <3>1
    <3> QED
      BY <2>5, <3>1, <3>2
  <2> QED
    BY <2>4, <2>7, <2>8, <2>9, <2>10, <2>11, <2>12 DEF IInv
<1> QED
  BY <1>1, <1>2

(* The handle takes the new std::thread, and the actor leaves start(). *)
LEMMA StoreInv ==
  ASSUME IInv, NEW a \in Actor, Store(a)
  PROVE  IInv'
<1>1. CASE Crash("terminated")
  BY <1>1, CrashInv
<1>2. CASE ~Crash("terminated")
  <2> DEFINE t == starting[a]
             n == launched[a]
  <2>1. /\ handle' = [handle EXCEPT ![t] = n]
        /\ starting' = [starting EXCEPT ![a] = None]
        /\ launched' = [launched EXCEPT ![a] = None]
        /\ UNCHANGED <<refs, created, value, runs, returned, released, waiting, process,
                       detached, raced, got>>
    BY <1>2 DEF Store, threads, history
  <2>2. /\ n \in Native /\ n # None /\ t \in Thread /\ t # None /\ t \in refs[a] /\ runs[n] = t
    BY DEF Store, IInv, TypeOK, StartersReach
  <2>3. TypeOK'
    BY <2>1, <2>2 DEF IInv, TypeOK
  <2>4. /\ handle'[t] = n /\ \A u \in Thread \ {t} : handle'[u] = handle[u]
        /\ starting'[a] = None /\ launched'[a] = None
        /\ \A b \in Actor \ {a} : starting'[b] = starting[b] /\ launched'[b] = launched[b]
    BY <2>1, <2>2 DEF IInv, TypeOK
  <2>5. JoinedHasValue' /\ ValueFromRun' /\ IdleReachesNothing'
    BY <2>1 DEF IInv, JoinedHasValue, ValueFromRun, IdleReachesNothing, Running
  <2>6. StartersReach'
    BY <2>1, <2>4 DEF IInv, StartersReach
  <2>7. JoinableIsAlive'
    BY <2>1, <2>2, <2>4 DEF IInv, JoinableIsAlive, Alive
  <2>8. OneStarter'
    <3> SUFFICES ASSUME NEW u \in Thread \ raced
                 PROVE  /\ \A b, c \in Actor : starting'[b] = u /\ starting'[c] = u => b = c
                        /\ \A b \in Actor : starting'[b] = u => handle'[u] = None
                        /\ \A m \in Native :
                             runs[m] = u => \/ handle'[u] = m
                                            \/ \E b \in Actor : starting'[b] = u /\ launched'[b] = m
      BY <2>1 DEF OneStarter
    <3>1. /\ \A b, c \in Actor : starting[b] = u /\ starting[c] = u => b = c
          /\ \A b \in Actor : starting[b] = u => handle[u] = None
          /\ \A m \in Native :
               runs[m] = u => handle[u] = m \/ \E b \in Actor : starting[b] = u /\ launched[b] = m
      BY DEF IInv, OneStarter
    <3>2. \A b \in Actor : starting'[b] = u => b # a /\ starting[b] = u
      BY <2>4, ConstantAssumption
    <3>3. ASSUME NEW b \in Actor, starting'[b] = u
          PROVE  handle'[u] = None
      BY <2>4, <3>1, <3>2, <3>3
    <3>4. ASSUME NEW m \in Native, runs[m] = u
          PROVE  handle'[u] = m \/ \E b \in Actor : starting'[b] = u /\ launched'[b] = m
      <4>1. CASE u = t
        <5>1. handle[u] = None
          BY <3>1, <4>1
        <5>2. PICK b \in Actor : starting[b] = u /\ launched[b] = m
          BY <3>1, <3>4, <5>1, ConstantAssumption
        <5>3. b = a
          BY <3>1, <4>1, <5>2
        <5> QED
          BY <2>4, <4>1, <5>2, <5>3
      <4>2. CASE u # t
        BY <2>4, <3>1, <3>4, <4>2
      <4> QED
        BY <4>1, <4>2
    <3> QED
      BY <3>1, <3>2, <3>3, <3>4
  <2> QED
    BY <2>3, <2>5, <2>6, <2>7, <2>8 DEF IInv
<1> QED
  BY <1>1, <1>2

(* A thread that returns has no variables left, and leaves a value. *)
LEMMA ReturnInv ==
  ASSUME IInv, NEW n \in Native, Return(n)
  PROVE  IInv'
<1> DEFINE t == runs[n]
           r == [refs EXCEPT ![n] = {}]
<1>1. CASE Crash("terminated") \/ Crash("undefined")
  BY <1>1, CrashInv
<1>2. CASE ~(Crash("terminated") \/ Crash("undefined"))
  <2>1. /\ ~Fatal(r) /\ refs' = r /\ returned' = returned \cup {n}
        /\ \E outcome \in Outcomes : value' = [value EXCEPT ![t] = outcome]
        /\ UNCHANGED <<created, handle, runs, released, starting, launched, waiting, process,
                       detached, raced, got>>
    BY <1>2 DEF Return, history
  <2>2. PICK outcome \in Outcomes : value' = [value EXCEPT ![t] = outcome]
    BY <2>1
  <2>3. n \in Actor /\ t \in Thread /\ t # None /\ starting[n] = None /\ outcome # "empty"
    BY ConstantAssumption DEF Return, Active, Running, Actor, IInv, TypeOK, Outcomes
  <2>4. TypeOK'
    BY <2>1, <2>2, <2>3 DEF IInv, TypeOK
  <2>5. /\ value'[t] = outcome /\ \A u \in Thread \ {t} : value'[u] = value[u]
        /\ refs'[n] = {} /\ \A b \in Actor \ {n} : refs'[b] = refs[b]
    BY <2>1, <2>2, <2>3 DEF IInv, TypeOK
  <2>6. JoinedHasValue'
    <3> SUFFICES ASSUME NEW m \in released \ detached
                 PROVE  m \in returned' /\ value'[runs[m]] # "empty"
      BY <2>1 DEF JoinedHasValue
    <3>1. /\ m \in returned /\ value[runs[m]] # "empty" /\ m \in Native
          /\ runs[m] \in Thread
      BY DEF IInv, JoinedHasValue, ValueFromRun, TypeOK
    <3> QED
      BY <2>1, <2>3, <2>5, <3>1
  <2>7. ValueFromRun'
    <3>1. ASSUME NEW m \in returned'
          PROVE  runs[m] # None /\ value'[runs[m]] # "empty"
      <4>1. CASE m = n
        BY <2>3, <2>5, <4>1
      <4>2. CASE m # n
        <5>1. m \in returned /\ m \in Native
          BY <2>1, <4>2 DEF IInv, TypeOK
        <5>2. runs[m] # None /\ value[runs[m]] # "empty" /\ runs[m] \in Thread
          BY <5>1 DEF IInv, TypeOK, ValueFromRun
        <5> QED
          BY <2>3, <2>5, <5>2
      <4> QED
        BY <4>1, <4>2
    <3>2. ASSUME NEW u \in Thread, value'[u] # "empty"
          PROVE  \E m \in returned' : runs[m] = u
      <4>1. CASE u = t
        BY <2>1, <4>1
      <4>2. CASE u # t
        BY <2>1, <2>5, <3>2, <4>2 DEF IInv, ValueFromRun
      <4> QED
        BY <4>1, <4>2
    <3> QED
      BY <2>1, <3>1, <3>2 DEF ValueFromRun
  <2>8. StartersReach'
    BY <2>1, <2>3, <2>5 DEF IInv, StartersReach
  <2>9. OneStarter'
    BY <2>1 DEF IInv, OneStarter
  <2>10. IdleReachesNothing'
    BY <2>1, <2>5 DEF IInv, IdleReachesNothing, Running, Actor
  <2>11. JoinableIsAlive'
    <3> SUFFICES ASSUME NEW u \in Thread, handle[u] # None, handle[u] \notin released
                 PROVE  \E b \in Actor : u \in refs'[b]
      BY <2>1 DEF JoinableIsAlive, Alive
    <3> QED
      BY <2>1, NotFatal
  <2> QED
    BY <2>4, <2>6, <2>7, <2>8, <2>9, <2>10, <2>11 DEF IInv
<1> QED
  BY <1>1, <1>2

(* A caller of join() blocks, and nothing else changes. *)
LEMMA JoinInv ==
  ASSUME IInv, NEW a \in Actor, NEW t \in Thread, Join(a, t)
  PROVE  IInv'
<1>1. CASE UNCHANGED vars
  BY <1>1, StutterInv
<1>2. CASE Crash("terminated") \/ Crash("undefined")
  BY <1>2, CrashInv
<1>3. CASE /\ waiting' = [waiting EXCEPT ![a] = handle[t]]
           /\ UNCHANGED <<refs, objects, threads, starting, launched, process, history>>
  <2>1. TypeOK'
    BY <1>3 DEF IInv, TypeOK, objects, threads, history
  <2> QED
    BY <1>3, <2>1, SameThreads DEF history
<1> QED
  BY <1>1, <1>2, <1>3 DEF Join

(* More native threads are released, and each of them has returned or is detached. *)
LEMMA ReleaseInv ==
  ASSUME IInv, NEW n \in Native, TypeOK', released' = released \cup {n},
         n \in returned \/ n \in detached', detached \subseteq detached',
         UNCHANGED <<refs, objects, runs, returned, starting, launched, raced>>
  PROVE  IInv'
<1>1. JoinedHasValue'
  <2> SUFFICES ASSUME NEW m \in released' \ detached'
               PROVE  m \in returned /\ value[runs[m]] # "empty"
    BY DEF JoinedHasValue, objects
  <2>1. m \in released \ detached \/ m \in returned
    OBVIOUS
  <2> QED
    BY <2>1 DEF IInv, JoinedHasValue, ValueFromRun
<1>2. ValueFromRun' /\ StartersReach' /\ IdleReachesNothing'
  BY DEF IInv, ValueFromRun, StartersReach, IdleReachesNothing, Running, objects
<1>3. OneStarter'
  BY DEF IInv, OneStarter, objects
<1>4. JoinableIsAlive'
  BY DEF IInv, JoinableIsAlive, Alive, objects
<1> QED
  BY <1>1, <1>2, <1>3, <1>4 DEF IInv

(* The end of a join releases a thread that has returned. *)
LEMMA JoinEndInv ==
  ASSUME IInv, NEW a \in Actor, JoinEnd(a)
  PROVE  IInv'
<1>1. waiting[a] \in Native /\ waiting[a] \in returned
  BY DEF JoinEnd, IInv, TypeOK
<1>2. TypeOK'
  BY <1>1 DEF JoinEnd, IInv, TypeOK, objects, history
<1> QED
  BY <1>1, <1>2, ReleaseInv DEF JoinEnd, history

(* detach() releases a thread and marks it. *)
LEMMA DetachInv ==
  ASSUME IInv, NEW a \in Actor, NEW t \in Thread, Detach(a, t)
  PROVE  IInv'
<1>1. CASE UNCHANGED vars
  BY <1>1, StutterInv
<1>2. CASE Crash("terminated") \/ Crash("undefined")
  BY <1>2, CrashInv
<1>3. CASE /\ handle[t] \notin released \cup {None}
           /\ released' = released \cup {handle[t]}
           /\ detached' = detached \cup {handle[t]}
           /\ UNCHANGED <<refs, objects, runs, returned, starting, launched, waiting, process,
                          raced, got>>
  <2>1. handle[t] \in Native
    BY <1>3 DEF IInv, TypeOK
  <2>2. TypeOK'
    BY <1>3, <2>1 DEF IInv, TypeOK, objects
  <2> QED
    BY <1>3, <2>1, <2>2, ReleaseInv
<1> QED
  BY <1>1, <1>2, <1>3 DEF Detach

(* value() is only recorded in the history. *)
LEMMA ValueInv ==
  ASSUME IInv, NEW a \in Actor, NEW t \in Thread, Value(a, t)
  PROVE  IInv'
<1>1. CASE Crash("undefined")
  BY <1>1, CrashInv
<1>2. CASE /\ got' = got \cup {t}
           /\ UNCHANGED <<refs, objects, threads, starting, launched, waiting, process, detached,
                          raced>>
  <2>1. TypeOK'
    BY <1>2 DEF IInv, TypeOK, objects, threads
  <2> QED
    BY <1>2, <2>1, SameThreads
<1> QED
  BY <1>1, <1>2 DEF Value

\* The end of the program is a crash to the threads.
LEMMA EndInv ==
  ASSUME IInv, End
  PROVE  IInv'
BY CrashInv DEF End

\* Every step keeps the invariant.
LEMMA NextInv == IInv /\ [Next]_vars => IInv'
BY CreateInv, DropInv, StartInv, LaunchInv, StoreInv, ReturnInv, JoinInv, JoinEndInv, DetachInv,
   ValueInv, EndInv, StutterInv DEF Next, Call, Over

(* Every state of the program satisfies the inductive invariant. *)
THEOREM Invariance == Spec => []IInv
BY InitInv, NextInv, PTL DEF Spec

(* The variables of Threads keep their types. *)
THEOREM TypeCorrect == Spec => []TypeOK
<1>1. IInv => TypeOK
  BY DEF IInv
<1> QED
  BY <1>1, Invariance, PTL

(* After join() the function has returned and its value is there (Thread::join). *)
THEOREM JoinIsBarrier == Spec => []JoinedHasValue
<1>1. IInv => JoinedHasValue
  BY DEF IInv
<1> QED
  BY <1>1, Invariance, PTL

(* A thread that outlives its Thread object was detached, or its std::thread was lost to
   overlapping starts (Thread::run, Thread::start, ~Thread). *)
THEOREM OnlyDetachedOutlive == Spec => []RunningIsAlive
<1>1. IInv => RunningIsAlive
  <2> SUFFICES ASSUME IInv, NEW n \in Native, Running(n), n \notin detached, runs[n] \notin raced
               PROVE  Alive(runs[n])
    BY DEF RunningIsAlive
  <2>1. runs[n] \in Thread /\ n \notin released /\ n # None
    BY ConstantAssumption DEF IInv, TypeOK, Running, JoinedHasValue
  <2>2. CASE handle[runs[n]] = n
    BY <2>1, <2>2 DEF IInv, JoinableIsAlive
  <2>3. CASE \E a \in Actor : starting[a] = runs[n]
    BY <2>1, <2>3, ConstantAssumption DEF IInv, StartersReach, Alive
  <2> QED
    BY <2>1, <2>2, <2>3 DEF IInv, OneStarter
<1> QED
  BY <1>1, Invariance, PTL

(* One native thread runs on an object whose starts have not overlapped. *)
LEMMA OneRun ==
  ASSUME IInv, NEW t \in Thread \ raced, NEW m \in Native, NEW n \in Native,
         runs[m] = t, runs[n] = t
  PROVE  m = n
BY ConstantAssumption DEF IInv, OneStarter

(* A thread's return value is written once, unless two starts overlapped: nothing else gets past
   the test of Thread::start. *)
THEOREM WrittenOnce == Spec => ValueWrittenOnce
<1>1. IInv /\ [Next]_vars =>
        [\A t \in Thread : value[t] # "empty" => value'[t] = value[t] \/ t \in raced]_vars
  <2> SUFFICES ASSUME IInv, Next, NEW t \in Thread, value[t] # "empty", t \notin raced
               PROVE  value'[t] = value[t]
    OBVIOUS
  <2>1. CASE \E n \in Native : Return(n)
    <3>1. PICK n \in Native : Return(n)
      BY <2>1
    <3>2. PICK m \in returned : runs[m] = t
      BY DEF IInv, ValueFromRun
    <3>3. n \notin returned /\ m \in Native
      BY <3>1, ConstantAssumption DEF Return, Active, Running, IInv, TypeOK
    <3>4. runs[n] # t
      BY <3>2, <3>3, OneRun
    <3> QED
      BY <3>1, <3>4 DEF Return, Crash, objects, IInv, TypeOK
  <2>2. CASE ~\E n \in Native : Return(n)
    BY <2>2 DEF Next, Call, Create, Drop, Start, Launch, Store, Join, JoinEnd, Detach, Value, End,
       Over, Crash, objects, vars
  <2> QED
    BY <2>1, <2>2
<1> QED
  BY <1>1, Invariance, PTL DEF Spec, ValueWrittenOnce

-----------------------------------------------------------------------------
(* Threads implements Futures. *)

\* The initial states correspond.
LEMMA PromiseInit == Init => Promise!Init
BY ConstantAssumption DEF Init, Promise!Init, begun, done

\* The runs of a task are those of the native threads.
LEMMA RunsUnchanged ==
  ASSUME UNCHANGED <<runs, returned>>
  PROVE  UNCHANGED <<begun, done>>
BY DEF begun, done

(* A start() that finds another one under way on the object is an overlap. *)
LEMMA StartStep ==
  ASSUME IInv, NEW a \in Actor, NEW t \in Thread, Start(a, t)
  PROVE  Promise!Overlap(t) \/ UNCHANGED <<begun, done, raced, got>>
<1>1. UNCHANGED <<begun, done, got>> /\ (raced' = raced \/ raced' = raced \cup {t})
  BY RunsUnchanged DEF Start, Crash, threads, history
<1> QED
  BY <1>1 DEF Promise!Overlap

(* A new native thread begins a run of the task, the first one or one of several starts. *)
LEMMA LaunchStep ==
  ASSUME IInv, NEW a \in Actor, Launch(a)
  PROVE  \/ \E t \in Thread, n \in Native : Promise!Begin(t, n)
         \/ UNCHANGED <<begun, done, raced, got>>
<1>1. CASE Unused = {}
  BY <1>1, RunsUnchanged DEF Launch, Crash, threads, history
<1>2. CASE Unused # {}
  <2> DEFINE t == starting[a]
  <2>1. PICK n \in Unused :
          runs' = [runs EXCEPT ![n] = t] /\ UNCHANGED <<returned, raced, got>>
    BY <1>2 DEF Launch, history
  <2>2. /\ n \in Native /\ runs[n] = None /\ t \in Thread /\ n \notin returned
        /\ launched[a] = None
    BY <2>1 DEF Unused, Launch, IInv, TypeOK, ValueFromRun
  <2>3. begun[t] = {} \/ t \in raced
    <3> SUFFICES ASSUME t \notin raced, NEW m \in Native, runs[m] = t
                 PROVE  FALSE
      BY <2>2 DEF begun
    <3>1. handle[t] = None
      BY <2>2 DEF IInv, OneStarter
    <3>2. PICK b \in Actor : starting[b] = t /\ launched[b] = m
      BY <2>2, <3>1, ConstantAssumption DEF IInv, OneStarter
    <3>3. b = a
      BY <2>2, <3>2 DEF IInv, OneStarter
    <3> QED
      BY <2>2, <3>2, <3>3, ConstantAssumption
  <2>4. \A u \in Thread : n \notin begun[u]
    BY <2>2, ConstantAssumption DEF begun
  <2>5. runs'[n] = t /\ \A m \in Native \ {n} : runs'[m] = runs[m]
    BY <2>1, <2>2 DEF IInv, TypeOK
  <2>6. begun' = [begun EXCEPT ![t] = @ \cup {n}]
    <3>1. ASSUME NEW u \in Thread
          PROVE  {m \in Native : runs'[m] = u} =
                   IF u = t THEN {m \in Native : runs[m] = u} \cup {n}
                            ELSE {m \in Native : runs[m] = u}
      BY <2>2, <2>5, ConstantAssumption
    <3> QED
      BY <2>2, <3>1 DEF begun
  <2>7. done' = done
    <3>1. ASSUME NEW u \in Thread
          PROVE  {m \in returned : runs'[m] = u} = {m \in returned : runs[m] = u}
      BY <2>2, <2>5 DEF IInv, TypeOK
    <3> QED
      BY <2>1, <3>1 DEF done
  <2> QED
    BY <2>1, <2>2, <2>3, <2>4, <2>6, <2>7 DEF Promise!Begin
<1> QED
  BY <1>1, <1>2

(* The return of run() ends a run of the task, or crashes. *)
LEMMA ReturnStep ==
  ASSUME IInv, NEW n \in Native, Return(n)
  PROVE  (\E t \in Thread : Promise!Finish(t, n)) \/ UNCHANGED <<begun, done, raced, got>>
<1>1. CASE Crash("terminated") \/ Crash("undefined")
  BY <1>1, RunsUnchanged DEF Crash, threads, history
<1>2. CASE ~(Crash("terminated") \/ Crash("undefined"))
  <2> DEFINE t == runs[n]
  <2>1. returned' = returned \cup {n} /\ UNCHANGED <<runs, raced, got>>
    BY <1>2 DEF Return, history
  <2>2. t \in Thread /\ n \notin returned
    BY ConstantAssumption DEF Return, Active, Running, IInv, TypeOK
  <2>3. n \in begun[t] \ done[t]
    BY <2>2 DEF begun, done
  <2>4. begun' = begun
    BY <2>1 DEF begun
  <2>5. done' = [done EXCEPT ![t] = @ \cup {n}]
    <3>1. ASSUME NEW u \in Thread
          PROVE  {m \in returned' : runs[m] = u} =
                   IF u = t THEN {m \in returned : runs[m] = u} \cup {n}
                            ELSE {m \in returned : runs[m] = u}
      BY <2>1
    <3> QED
      BY <2>1, <2>2, <3>1 DEF done
  <2> QED
    BY <2>1, <2>2, <2>3, <2>4, <2>5 DEF Promise!Finish
<1> QED
  BY <1>1, <1>2

(* value() gets the result of a task that has ended, or crashes. *)
LEMMA ValueStep ==
  ASSUME IInv, NEW a \in Actor, NEW t \in Thread, Value(a, t)
  PROVE  Promise!Get(t) \/ UNCHANGED <<begun, done, raced, got>>
<1>1. CASE Crash("undefined")
  BY <1>1, RunsUnchanged DEF Crash, threads, history
<1>2. CASE value[t] # "empty" /\ got' = got \cup {t} /\ UNCHANGED <<runs, returned, raced>>
  <2>1. done[t] # {}
    BY <1>2 DEF IInv, ValueFromRun, done
  <2> QED
    BY <1>2, <2>1, RunsUnchanged DEF Promise!Get
<1> QED
  BY <1>1, <1>2 DEF Value, threads

(* Every other step leaves the promise alone. *)
LEMMA OtherSteps ==
  ASSUME NEW a \in Actor, NEW t \in Thread,
         \/ Create(a, t) \/ Drop(a, t) \/ Join(a, t) \/ Detach(a, t)
         \/ Store(a) \/ JoinEnd(a) \/ End \/ UNCHANGED vars
  PROVE  UNCHANGED <<begun, done, raced, got>>
<1>1. UNCHANGED <<runs, returned, raced, got>>
  BY DEF Create, Drop, Join, Detach, Store, JoinEnd, End, Crash, vars, threads, history
<1> QED
  BY <1>1, RunsUnchanged

\* Every step is one of the promise, or none.
LEMMA PromiseStep == IInv /\ [Next]_vars => [Promise!Next]_<<begun, done, raced, got>>
<1> SUFFICES ASSUME IInv, [Next]_vars
             PROVE  Promise!Next \/ UNCHANGED <<begun, done, raced, got>>
  OBVIOUS
<1>1. CASE \E a \in Actor, t \in Thread : Call(a, t)
  <2>1. PICK a \in Actor, t \in Thread : Call(a, t)
    BY <1>1
  <2> QED
    BY <2>1, StartStep, ValueStep, OtherSteps DEF Call, Promise!Next
<1>2. CASE \E a \in Actor : Launch(a)
  BY <1>2, LaunchStep DEF Promise!Next
<1>3. CASE \E n \in Native : Return(n)
  BY <1>3, ReturnStep DEF Promise!Next
<1>4. CASE \E a \in Actor : Store(a) \/ JoinEnd(a)
  BY <1>4, RunsUnchanged DEF Store, JoinEnd, Crash, threads, history
<1>5. CASE End \/ Over \/ UNCHANGED vars
  BY <1>5, RunsUnchanged DEF End, Over, Crash, vars, threads, history
<1> QED
  BY <1>1, <1>2, <1>3, <1>4, <1>5 DEF Next

(* A thread's result is had only after a run of its function has returned, and the function runs
   once unless two starts overlapped: Threads implements Futures. *)
THEOREM KeepsPromise == Spec => PromiseKept
<1>1. Init => Promise!Init
  BY PromiseInit
<1>2. IInv /\ [Next]_vars => [Promise!Next]_(Promise!vars)
  BY PromiseStep DEF Promise!vars
<1> QED
  BY <1>1, <1>2, Invariance, PTL DEF Spec, PromiseKept, Promise!Spec

=============================================================================
