------------------------------- MODULE Threads ------------------------------
(***************************************************************************)
(* Thread objects (builtin/Thread.cpp): start, join, detach, value, and    *)
(* the native threads that Thread::run executes on.                        *)
(*                                                                         *)
(* The main program and every running native thread are actors: each can   *)
(* call the methods of the Thread objects that its variables reach, at any *)
(* time and in any order.  Nothing in the interpreter locks: start() tests *)
(* the handle, makes a std::thread and stores it in three steps, and two   *)
(* actors can be inside it at once.  A native thread works on a raw        *)
(* pointer to its Thread object; the object is destroyed with the last     *)
(* variable that reaches it.                                               *)
(***************************************************************************)
EXTENDS Naturals, FiniteSets

CONSTANTS
  Thread,  \* Thread objects the program may create
  Native,  \* bound: the threads the operating system has to give
  Main,    \* the main program
  None     \* no object, or no native thread

ASSUME ConstantAssumption ==
  Main \notin Native /\ None \notin Native /\ None \notin Thread

Actor == Native \cup {Main}

VARIABLES
  refs,      \* the Thread objects that each actor's variables reach
  created,   \* the objects made so far
  handle,    \* Thread::thread of each object: the native thread of its std::thread, or None
  runs,      \* the object whose run() each native thread executes, None until it is made
  returned,  \* the native threads whose run() has returned
  released,  \* the native threads that have been joined or detached: their std::thread is empty
  starting,  \* the object whose start() each actor is in, or None
  launched,  \* the native thread that start() has made and not stored yet, or None
  value,     \* Thread::functionReturnValue: "empty", or the outcome of the function
  waiting,   \* the native thread each actor is joining, or None
  process,   \* "live", "ended" normally, "terminated" by std::terminate or an uncaught C++
             \* exception, or in "undefined" behaviour
  detached,  \* history: the native threads that detach() has released
  raced,     \* history: the objects on which two calls of start() have overlapped
  got        \* history: the objects whose value() somebody has called with success

objects == <<created, handle, value>>
threads == <<runs, returned, released>>
history == <<detached, raced, got>>
vars == <<refs, objects, threads, starting, launched, waiting, process, history>>

Outcomes == {"object", "error", "exit"}

TypeOK ==
  /\ refs \in [Actor -> SUBSET Thread]
  /\ created \subseteq Thread
  /\ handle \in [Thread -> Native \cup {None}]
  /\ runs \in [Native -> Thread \cup {None}]
  /\ returned \subseteq Native /\ released \subseteq Native
  /\ starting \in [Actor -> Thread \cup {None}]
  /\ launched \in [Actor -> Native \cup {None}]
  /\ value \in [Thread -> Outcomes \cup {"empty"}]
  /\ waiting \in [Actor -> Native \cup {None}]
  /\ process \in {"live", "ended", "terminated", "undefined"}
  /\ detached \subseteq Native /\ raced \subseteq Thread /\ got \subseteq Thread

Init ==
  /\ refs = [a \in Actor |-> {}]
  /\ created = {}
  /\ handle = [t \in Thread |-> None]
  /\ runs = [n \in Native |-> None]
  /\ returned = {} /\ released = {}
  /\ starting = [a \in Actor |-> None]
  /\ launched = [a \in Actor |-> None]
  /\ value = [t \in Thread |-> "empty"]
  /\ waiting = [a \in Actor |-> None]
  /\ process = "live"
  /\ detached = {} /\ raced = {} /\ got = {}

Running(n) == runs[n] # None /\ n \notin returned

(* An actor that can take its next step, and an object it can name. *)
Active(a) ==
  /\ process = "live" /\ waiting[a] = None /\ starting[a] = None
  /\ a = Main \/ (a \in Native /\ Running(a))

Reaches(a, t) == Active(a) /\ t \in refs[a]

Alive(t) == \E a \in Actor : t \in refs[a]

(* The objects nobody reaches any more once each actor reaches what r says. *)
Destroyed(r) == {t \in Thread : Alive(t) /\ \A a \in Actor : t \notin r[a]}

(* ~Thread destroys the std::thread, and std::terminate follows if that is joinable. *)
FatalNever(r) == FALSE  \* mutant: ~Thread leaves the native thread running

Fatal(r) == \E t \in Destroyed(r) : handle[t] # None /\ handle[t] \notin released

Crash(how) ==
  /\ process' = how
  /\ UNCHANGED <<refs, objects, threads, starting, launched, waiting, history>>

-----------------------------------------------------------------------------
(* threading::thread(f, x) makes an object; it does not start it. *)
Create(a, t) ==
  /\ Active(a) /\ t \notin created
  /\ created' = created \cup {t}
  /\ refs' = [refs EXCEPT ![a] = @ \cup {t}]
  /\ UNCHANGED <<handle, value, threads, starting, launched, waiting, process, history>>

(* A variable goes out of scope or is assigned to: an actor lets go of an object. *)
Drop(a, t) ==
  /\ Reaches(a, t)
  /\ LET r == [refs EXCEPT ![a] = @ \ {t}] IN
       IF Fatal(r)
       THEN Crash("terminated")
       ELSE /\ refs' = r
            /\ UNCHANGED <<objects, threads, starting, launched, waiting, process, history>>

(* Thread::start, its test: an object with a handle throws. *)
StartUntested(a, t) ==  \* mutant: start() without its test for an earlier start()
  /\ Reaches(a, t)
  /\ starting' = [starting EXCEPT ![a] = t]
  /\ UNCHANGED <<refs, objects, threads, launched, waiting, process, history>>

Start(a, t) ==
  /\ Reaches(a, t)
  /\ \/ /\ handle[t] = None
        /\ starting' = [starting EXCEPT ![a] = t]
        /\ raced' = IF \E b \in Actor : starting[b] = t THEN raced \cup {t} ELSE raced
        /\ UNCHANGED <<refs, objects, threads, launched, waiting, process, detached, got>>
     \/ handle[t] # None /\ Crash("terminated")

(* mutant: a thread's variables take in the thread that starts it, the main program too *)
LaunchReachingStarter(a) ==
  /\ process = "live" /\ starting[a] # None /\ launched[a] = None
  /\ \E n \in Native :
       /\ runs[n] = None
       /\ runs' = [runs EXCEPT ![n] = starting[a]]
       /\ launched' = [launched EXCEPT ![a] = n]
       /\ refs' = [refs EXCEPT ![n] = refs[a] \cup {a}]
  /\ UNCHANGED <<objects, returned, released, starting, waiting, process, history>>

Unused == {n \in Native : runs[n] = None}

(* Thread::start, new std::thread: the native thread begins to run, and sees what the
   function's environment and its argument reach.  The constructor throws when the operating
   system has no thread left. *)
Launch(a) ==
  /\ process = "live" /\ starting[a] # None /\ launched[a] = None
  /\ IF Unused = {}
     THEN Crash("terminated")
     ELSE LET n == CHOOSE n \in Unused : TRUE IN
            /\ runs' = [runs EXCEPT ![n] = starting[a]]
            /\ launched' = [launched EXCEPT ![a] = n]
            /\ \E reached \in SUBSET refs[a] : refs' = [refs EXCEPT ![n] = reached]
            /\ UNCHANGED <<objects, returned, released, starting, waiting, process, history>>

(* Thread::start, reset: the std::thread is stored in the handle and the one that was there is
   destroyed, which terminates the process if that is joinable.  Two resets at once may both
   find the null that start() tested for, and the std::thread stored first is lost. *)
Store(a) ==
  /\ process = "live" /\ launched[a] # None
  /\ \E old \in {None, handle[starting[a]]} :
       IF old # None /\ old \notin released
       THEN Crash("terminated")
       ELSE /\ handle' = [handle EXCEPT ![starting[a]] = launched[a]]
            /\ starting' = [starting EXCEPT ![a] = None]
            /\ launched' = [launched EXCEPT ![a] = None]
            /\ UNCHANGED <<refs, created, value, threads, waiting, process, history>>

(* Thread::run returns.  The function's environment goes first, then the return value is
   written through the raw pointer, with no regard for another thread that writes it too. *)
Return(n) ==
  /\ Active(n)
  /\ LET t == runs[n]
         r == [refs EXCEPT ![n] = {}]
         writers == {m \in Native : Running(m) /\ runs[m] = t}
     IN \/ Fatal(r) /\ Crash("terminated")
        \/ /\ ~Fatal(r) /\ ((\A a \in Actor : t \notin r[a]) \/ writers # {n})
           /\ Crash("undefined")
        \/ /\ ~Fatal(r) /\ \E a \in Actor : t \in r[a]
           /\ refs' = r
           /\ returned' = returned \cup {n}
           /\ \E outcome \in Outcomes : value' = [value EXCEPT ![t] = outcome]
           /\ UNCHANGED <<created, handle, runs, released, starting, launched, waiting, process,
                          history>>

(* Thread::join, up to the point where the caller blocks.  Joining an object without a handle
   returns at once; std::thread throws if it has been released, or is the caller's own, and two
   joins of one thread at a time are undefined.  A thread that joins the one which joins it may
   be told so, or not. *)
Join(a, t) ==
  /\ Reaches(a, t)
  /\ LET n == handle[t]
         joiners == {b \in Actor : waiting[b] = n}
     IN \/ n = None /\ UNCHANGED vars
        \/ /\ n \notin released \cup {None, a} /\ joiners = {}
           /\ waiting' = [waiting EXCEPT ![a] = n]
           /\ UNCHANGED <<refs, objects, threads, starting, launched, process, history>>
        \/ n \notin released \cup {None} /\ (n = a \/ waiting[n] = a) /\ Crash("terminated")
        \/ n \notin released \cup {None} /\ joiners # {} /\ Crash("undefined")
        \/ n \in released /\ Crash("terminated")

(* mutant: join() that does not wait *)
JoinEndAtOnce(a) ==
  /\ process = "live" /\ waiting[a] # None
  /\ released' = released \cup {waiting[a]}
  /\ waiting' = [waiting EXCEPT ![a] = None]
  /\ UNCHANGED <<refs, objects, runs, returned, starting, launched, process, history>>

(* mutant: join() that goes on waiting when the function failed *)
JoinEndOfObject(a) ==
  /\ process = "live" /\ waiting[a] # None /\ value[runs[waiting[a]]] = "object"
  /\ released' = released \cup {waiting[a]}
  /\ waiting' = [waiting EXCEPT ![a] = None]
  /\ UNCHANGED <<refs, objects, runs, returned, starting, launched, process, history>>

(* Thread::join returns to its caller. *)
JoinEnd(a) ==
  /\ process = "live" /\ waiting[a] \in returned
  /\ released' = released \cup {waiting[a]}
  /\ waiting' = [waiting EXCEPT ![a] = None]
  /\ UNCHANGED <<refs, objects, runs, returned, starting, launched, process, history>>

(* Thread::detach. *)
Detach(a, t) ==
  /\ Reaches(a, t)
  /\ LET n == handle[t]
         joiners == {b \in Actor : waiting[b] = n}
     IN \/ n = None /\ UNCHANGED vars
        \/ /\ n \notin released \cup {None} /\ joiners = {}
           /\ released' = released \cup {n}
           /\ detached' = detached \cup {n}
           /\ UNCHANGED <<refs, objects, runs, returned, starting, launched, waiting, process,
                          raced, got>>
        \/ n \notin released \cup {None} /\ joiners # {} /\ Crash("undefined")
        \/ n \in released /\ Crash("terminated")

(* mutant: a default result before the function has returned *)
ValueAtAnyTime(a, t) ==
  /\ Reaches(a, t)
  /\ got' = got \cup {t}
  /\ UNCHANGED <<refs, objects, threads, starting, launched, waiting, process, detached, raced>>

(* thread_value returns the member, which is a null pointer until a run has returned; reading
   it while a thread may write it is a data race. *)
Value(a, t) ==
  /\ Reaches(a, t)
  /\ \/ /\ value[t] # "empty"
        /\ got' = got \cup {t}
        /\ UNCHANGED <<refs, objects, threads, starting, launched, waiting, process, detached,
                       raced>>
     \/ /\ value[t] = "empty" \/ \E n \in Native : Running(n) /\ runs[n] = t
        /\ Crash("undefined")

(* The main program ends: its environment is destroyed, then the process exits, whatever
   threads are still running; those use the interpreter's tables while these are cleared. *)
End ==
  /\ Active(Main)
  /\ LET r == [refs EXCEPT ![Main] = {}] IN
       \/ Fatal(r) /\ Crash("terminated")
       \/ ~Fatal(r) /\ Crash("ended")
       \/ ~Fatal(r) /\ (\E n \in Native : Running(n)) /\ Crash("undefined")

Over == process # "live" /\ UNCHANGED vars

Call(a, t) == Create(a, t) \/ Drop(a, t) \/ Start(a, t) \/ Join(a, t) \/ Detach(a, t) \/ Value(a, t)

Next ==
  \/ \E a \in Actor, t \in Thread : Call(a, t)
  \/ \E a \in Actor : Launch(a) \/ Store(a) \/ JoinEnd(a)
  \/ \E n \in Native : Return(n)
  \/ End
  \/ Over

Spec == Init /\ [][Next]_vars

(* Functions that threads run do return, and the operating system runs every thread. *)
Fairness ==
  /\ \A n \in Native : WF_vars(Return(n))
  /\ \A a \in Actor : WF_vars(Launch(a)) /\ WF_vars(Store(a)) /\ WF_vars(JoinEnd(a))

FairSpec == Spec /\ Fairness

-----------------------------------------------------------------------------
(* Properties. *)

(* join() is a barrier: a thread released by join() and not by detach() has returned, and a
   return value is there to be read (Thread::join, thread_value). *)
JoinedHasValue ==
  \A n \in released \ detached : n \in returned /\ value[runs[n]] # "empty"

(* A native thread works on an object that has been destroyed only if it was detached, or two
   calls of start() overlapped and its std::thread was lost. *)
RunningIsAlive ==
  process = "live" =>
    \A n \in Native : Running(n) /\ ~Alive(runs[n]) => n \in detached \/ runs[n] \in raced

(* A return value is written a second time only if two calls of start() on the object have
   overlapped: nothing but overlapping starts gets past the test of Thread::start. *)
ValueWrittenOnce ==
  [][\A t \in Thread : value[t] # "empty" => value'[t] = value[t] \/ t \in raced]_vars

(* Each thread is a task whose result is had after a run of it, and which runs once unless two
   calls of start() have overlapped. *)
begun == [t \in Thread |-> {n \in Native : runs[n] = t}]
done == [t \in Thread |-> {n \in returned : runs[n] = t}]

Promise == INSTANCE Futures WITH Task <- Thread, Run <- Native, overlapped <- raced
PromiseKept == Promise!Spec

(* The native threads that an actor waits for, through any number of joins. *)
Awaited(a) ==
  LET hop[k \in Nat] == IF k = 0 THEN {waiting[a]} \ {None}
                        ELSE hop[k - 1] \cup ({waiting[b] : b \in hop[k - 1]} \ {None})
  IN hop[Cardinality(Native)]

(* A join() returns, unless threads wait for each other or the process is over. *)
JoinReturns ==
  \A a \in Actor, n \in Native :
    waiting[a] = n ~> \/ waiting[a] # n
                      \/ process # "live"
                      \/ \E b \in Awaited(a) : b \in Awaited(b)

=============================================================================
