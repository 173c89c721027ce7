------------------------------- MODULE Imports ------------------------------
(***************************************************************************)
(* Modules: the import statement, and the functions import, run and        *)
(* run_once (Evaluator.cpp), from the statements of an interactive session *)
(* and of the files they load (Interp.cpp).                                *)
(*                                                                         *)
(* A module object is its environment.  An import of a::b makes a module a *)
(* that is only defined, to hold b; when a itself is imported its code     *)
(* runs in a new module, which then takes over what the other one holds.   *)
(* A module is entered in the environment that imports it after its code   *)
(* has run, and nowhere else.  Only the built-in modules are shared.       *)
(***************************************************************************)
EXTENDS Naturals, Sequences

CONSTANTS
  Name,       \* names of modules and variables
  Builtin,    \* the names of the built-in modules
  BuiltinModule,  \* the module that each of them is
  Provided,   \* what is in the environments of these modules, and of theirs
  Path,       \* the paths that are imported: sequences of names
  Statement,  \* the statements of an interactive session
  Programs,   \* what the files contain: functions from paths to the code, or Missing
  Missing,    \* a file that does not exist
  MaxModule,  \* bound: the modules alive at the same time
  MaxDepth    \* bound: the files that are being run at the same time

\* A module's number, where 0 is the session.
Module == 1 .. MaxModule
Environment == 0 .. MaxModule

\* What a name can be: nothing, an object that is not a module, or a module.
Nothing == [kind |-> "nothing"]
Value == [kind |-> "value"]
ModuleObject(m) == [kind |-> "module", module |-> m]

\* The statements there are.
Statements ==
  [op : {"let"}, name : Name] \cup [op : {"fail", "exit"}] \cup
  [op : {"import", "run", "run_once"}, path : Path] \cup [op : {"let import"}, name : Name, path : Path]

ASSUME ConstantAssumption ==
  /\ Builtin \subseteq Name /\ "" \notin Name
  /\ Path \subseteq Seq(Name) \ {<<>>}
  /\ Statement \subseteq Statements
  /\ Missing \notin Seq(Statements)
  /\ Programs \subseteq [Path -> Seq(Statements) \cup {Missing}]
  /\ BuiltinModule \in [Builtin -> DOMAIN Provided] /\ DOMAIN Provided \subseteq Module
  /\ \A m \in DOMAIN Provided :
       Provided[m] \in [Name -> {Nothing, Value} \cup {ModuleObject(k) : k \in DOMAIN Provided}]
  /\ MaxModule \in Nat /\ MaxDepth \in Nat

VARIABLES
  files,     \* the files
  store,     \* Environment::store: what each name is in each environment
  state,     \* Module::state, or "free"
  stack,     \* the files that are being run, the innermost last
  registry,  \* run_onceRegistry
  result,    \* what the last statement evaluated to: "object", "error" or "exit", or "none" before it
  fault,     \* how the process has died, or "none"
  loads,     \* history: how often each environment has loaded a path
  onces      \* history: how often run_once has run a file

vars == <<files, store, state, stack, registry, result, fault, loads, onces>>

Empty == [n \in Name |-> Nothing]
Never == [q \in Path |-> 0]

-----------------------------------------------------------------------------
\* A file that runs: the environment it runs in, the statements that are left,
\* where its module goes when it ends, and the module that is there already.
Frame(kind, env, rest, into, name, path, old) ==
  [kind |-> kind, env |-> env, rest |-> rest, into |-> into, name |-> name, path |-> path, old |-> old]

Top == stack[Len(stack)]
Below == SubSeq(stack, 1, Len(stack) - 1)
EnvironmentOf(frames) == IF frames = <<>> THEN 0 ELSE frames[Len(frames)].env
Current == EnvironmentOf(stack)

\* A file ends after its last statement, or after one that fails or exits.
Ends == stack # <<>> /\ (Top.rest = <<>> \/ result \in {"error", "exit"})

Held(held, env) == {m \in Module : \E n \in Name : held[env][n] = ModuleObject(m)}

\* What these environments reach: the smallest set that has them and all that it holds.
Reached(held, states, roots) ==
  LET others == {m \in Module : states[m] # "free"} \ roots
      sets == {roots \cup some : some \in SUBSET others}
      closed == {set \in sets : \A e \in set : Held(held, e) \subseteq set}
  IN {e \in Environment : \A set \in closed : e \in set}

\* The session, the built-in modules and what running files refer to.
Roots(frames) ==
  {0} \cup DOMAIN Provided
      \cup UNION {{frames[i].env, frames[i].into, frames[i].old} : i \in DOMAIN frames}

\* A statement ends with this result in these environments: modules that nothing
\* reaches are destroyed, and an exit of the session ends the process.
Become(held, states, frames, r, counts) ==
  \E live \in {Reached(held, states, Roots(frames))} :
     /\ store' = [e \in Environment |-> IF e \in live THEN held[e] ELSE Empty]
     /\ state' = [m \in Module |-> IF m \in live THEN states[m] ELSE "free"]
     /\ loads' = [e \in Environment |-> IF e \in live THEN counts[e] ELSE Never]
     /\ stack' = frames
     /\ result' = IF frames = <<>> THEN "none" ELSE r
     /\ fault' = IF frames = <<>> /\ r = "exit" THEN "exited" ELSE fault
     /\ UNCHANGED files

\* The interpreter dies: a null pointer, an exception that nothing catches, or
\* the end of the C++ stack.
Die(how) ==
  fault' = how /\ UNCHANGED <<files, store, state, stack, result, loads>>

\* The statement has been taken from the file it is in.
Stack == IF stack = <<>> THEN <<>> ELSE Append(Below, [Top EXCEPT !.rest = Tail(@)])

Yields(r) == Become(store, state, Stack, r, loads) /\ UNCHANGED <<registry, onces>>

\* Environment::add
add(held, env, n, object) == [held EXCEPT ![env][n] = IF @ = Nothing THEN object ELSE @]

\* A mutant: the module has its name before its code runs.
RunsNamed(held, states, frame) ==
  IF Len(stack) = MaxDepth THEN Die("stack overflow")
  ELSE Become(IF frame.name = "" THEN held ELSE add(held, frame.into, frame.name, ModuleObject(frame.env)),
              states, Append(Stack, frame), "none", loads)
\* builtin::run_impl: a file that does not parse is one that fails.
Runs(held, states, frame) ==
  IF Len(stack) = MaxDepth THEN Die("stack overflow")
  ELSE Become(held, states, Append(Stack, frame), "none", loads)

-----------------------------------------------------------------------------
Let(n) ==
  IF store[Current][n] # Nothing THEN Yields("error")
  ELSE Become(add(store, Current, n, Value), state, Stack, "object", loads) /\ UNCHANGED <<registry, onces>>

\* A new module: the lowest that is free, but for some.
New(m, others) ==
  LET free == {k \in Module : state[k] = "free"} \ others
  IN m \in free /\ \A k \in free : m <= k

\* The way to a submodule: at[i] is the environment in which the i-th name of the
\* path is looked up, for the first k names.  A module that is not there is made.
Way(path, k, at) ==
  /\ at[1] = Current
  /\ \A i \in 1 .. k - 1 :
       \/ store[at[i]][path[i]] = ModuleObject(at[i + 1])
       \/ store[at[i]][path[i]] = Nothing /\ New(at[i + 1], {at[j] : j \in 1 .. i})
Ways(path, k) == {at \in [1 .. k -> Environment] : Way(path, k, at)}

\* A name on the way is no module's.
Blocked(path) ==
  \E k \in 1 .. Len(path) - 1 : \E at \in Ways(path, k) : store[at[k]][path[k]] = Value

\* The modules that are made on the way are only defined.
MadeAt(path, at) == {i \in 1 .. Len(path) - 1 : store[at[i]][path[i]] = Nothing}
StoreWith(path, at) ==
  [e \in Environment |-> [n \in Name |->
     IF \E i \in MadeAt(path, at) : at[i] = e /\ path[i] = n
     THEN ModuleObject(at[1 + CHOOSE i \in MadeAt(path, at) : at[i] = e /\ path[i] = n])
     ELSE store[e][n]]]
StateWith(path, at) ==
  [m \in Module |-> IF \E i \in MadeAt(path, at) : at[i + 1] = m THEN "Defined" ELSE state[m]]

\* The built-in module that a path names: a name it does not have is skipped.
Descends(path, at) ==
  /\ at[1] = BuiltinModule[path[1]]
  /\ \A i \in 2 .. Len(path) :
       \/ store[at[i - 1]][path[i]] = Nothing /\ at[i] = at[i - 1]
       \/ store[at[i - 1]][path[i]] = ModuleObject(at[i])
BuiltinAt(path) ==
  {m \in Module : \E at \in [DOMAIN path -> Module] : Descends(path, at) /\ m = at[Len(path)]}

\* What is imported is there.
Exists(path) == IF path[1] \in Builtin THEN BuiltinAt(path) # {} ELSE files[path] # Missing

\* The code of the file runs in a new module.
Starts(kind, path, at, old) ==
  \E m \in Module :
    /\ New(m, {at[i] : i \in DOMAIN at})
    /\ Runs(StoreWith(path, at), [StateWith(path, at) EXCEPT ![m] = "Unknown"],
            Frame(kind, m, files[path], at[Len(path)], path[Len(path)], path, old))

\* A built-in module is entered as it is.  Below it there may be a module that the
\* function import has made: as if it had to be run, but without a file.
EntersBuiltin(path, at) ==
  \E m \in BuiltinAt(path) :
    IF state[m] = "Unknown" THEN Die("null pointer")
    ELSE Become(add(StoreWith(path, at), at[Len(path)], path[Len(path)], ModuleObject(m)),
                [StateWith(path, at) EXCEPT ![m] = "Loaded"], Stack, "object", loads)

\* At the end of the way: what the last name is decides.
Enters(path, at) ==
  LET held == StoreWith(path, at)
      states == StateWith(path, at)
      there == held[at[Len(path)]][path[Len(path)]]
      Stops(r) == Become(held, states, Stack, r, loads)
  IN \/ there = Value /\ Stops("error")
     \/ there = Nothing /\ IF path[1] \in Builtin THEN EntersBuiltin(path, at)
                           ELSE Starts("import", path, at, 0)
     \/ \E m \in Module :
          /\ there = ModuleObject(m)
          /\ \/ states[m] = "Unknown" /\ Stops("error")
             \/ states[m] = "Loaded" /\ Stops("object")
             \/ states[m] = "Defined" /\ IF path[1] \in Builtin THEN Stops("error")
                                         ELSE Starts("define", path, at, m)

\* evalImportStatement, up to where code is run.
Import(path) ==
  /\ \/ ~Exists(path) /\ Yields("error")
     \/ Exists(path) /\ Blocked(path) /\ Yields("error")
     \/ Exists(path) /\ \E at \in Ways(path, Len(path)) : Enters(path, at)
  /\ UNCHANGED <<registry, onces>>

-----------------------------------------------------------------------------
\* The function import: the file is run in an environment of its own, and let
\* gives the module, which stays in state Unknown, or the error a name.
LetImport(n, path) ==
  /\ \/ /\ files[path] = Missing
        /\ Become(add(store, Current, n, Value), state, Stack, "error", loads)
     \/ /\ files[path] # Missing
        /\ \E m \in Module :
             /\ New(m, {})
             /\ Runs(store, [state EXCEPT ![m] = "Unknown"],
                     Frame("function", m, files[path], Current, n, path, 0))
  /\ UNCHANGED <<registry, onces>>

\* The function run: the file is run in the environment of the call.
Run(path) ==
  /\ UNCHANGED <<registry, onces>>
  /\ IF files[path] = Missing THEN Yields("error")
     ELSE Runs(store, state, Frame("run", Current, files[path], Current, "", path, 0))

\* run_once: std::filesystem::canonical throws when there is no such file; the file
\* is entered in the registry before it is read and run.
RunOnce(path) ==
  CASE files[path] = Missing -> Die("exception") /\ UNCHANGED <<registry, onces>>
    [] path \in registry -> Yields("object")
    [] OTHER -> /\ registry' = registry \cup {path}
                /\ onces' = [onces EXCEPT ![path] = IF @ < 2 THEN @ + 1 ELSE @]
                /\ Runs(store, state, Frame("run_once", Current, files[path], Current, "", path, 0))

-----------------------------------------------------------------------------
Execute(s) ==
  CASE s.op = "let" -> Let(s.name)
    [] s.op = "fail" -> Yields("error")
    [] s.op = "exit" -> Yields("exit")
    [] s.op = "import" -> Import(s.path)
    [] s.op = "let import" -> LetImport(s.name, s.path)
    [] s.op = "run" -> Run(s.path)
    [] s.op = "run_once" -> RunOnce(s.path)

-----------------------------------------------------------------------------
\* A file that has no statement evaluates to a null pointer.
Outcome == IF result = "none" THEN "null" ELSE result

\* What a submodule's module holds beside modules, or what the code defines under
\* the name of a submodule, makes the import of the module fail.
Conflict(own, others) ==
  \E n \in Name : others[n].kind = "value" \/ (others[n].kind = "module" /\ own[n].kind = "value")

\* A mutant: the submodules that were there are forgotten.
MergedOwn(own, others) == own
Merged(own, others) == [n \in Name |-> IF others[n] # Nothing THEN others[n] ELSE own[n]]

Counted(env, path) == [loads EXCEPT ![env][path] = IF @ < 2 THEN @ + 1 ELSE @]

EndImport ==
  /\ Ends /\ Top.kind = "import"
  /\ CASE Outcome = "null" -> Die("null pointer")
       [] Outcome = "error" -> Become(store, state, Below, "error", loads)
       [] OTHER -> Become(add(store, Top.into, Top.name, ModuleObject(Top.env)),
                          [state EXCEPT ![Top.env] = "Loaded"], Below, "object",
                          Counted(EnvironmentOf(Below), Top.path))
  /\ UNCHANGED <<registry, onces>>

\* The module that was only defined is replaced.
EndDefine ==
  /\ Ends /\ Top.kind = "define"
  /\ LET others == store[Top.old]
         own == store[Top.env]
     IN IF Outcome \in {"null", "error"} \/ Conflict(own, others)
        THEN Become(store, state, Below, "error", loads)
        ELSE Become([store EXCEPT ![Top.env] = Merged(own, others),
                                  ![Top.into][Top.name] = ModuleObject(Top.env)],
                    [state EXCEPT ![Top.env] = "Loaded"], Below, "object",
                    Counted(EnvironmentOf(Below), Top.path))
  /\ UNCHANGED <<registry, onces>>

EndFunction ==
  /\ Ends /\ Top.kind = "function"
  /\ IF Outcome = "null" THEN Die("null pointer")
     ELSE LET object == IF Outcome = "error" THEN Value ELSE ModuleObject(Top.env)
              new == store[Top.into][Top.name] = Nothing
          IN Become(add(store, Top.into, Top.name, object), state, Below,
                    IF new /\ Outcome # "error" THEN "object" ELSE "error", loads)
  /\ UNCHANGED <<registry, onces>>

EndRun ==
  /\ Ends /\ Top.kind \in {"run", "run_once"}
  /\ IF Outcome = "null" THEN Die("null pointer") ELSE Become(store, state, Below, Outcome, loads)
  /\ UNCHANGED <<registry, onces>>

-----------------------------------------------------------------------------
Init ==
  /\ files \in Programs
  /\ store = [e \in Environment |-> IF e \in DOMAIN Provided THEN Provided[e] ELSE Empty]
  /\ state = [m \in Module |-> IF m \in DOMAIN Provided THEN "Loaded" ELSE "free"]
  /\ stack = <<>> /\ registry = {} /\ result = "none" /\ fault = "none"
  /\ loads = [e \in Environment |-> Never]
  /\ onces = Never

Next ==
  /\ fault = "none"
  /\ \/ stack = <<>> /\ \E s \in Statement : Execute(s)
     \/ stack # <<>> /\ ~Ends /\ Execute(Head(Top.rest))
     \/ EndImport \/ EndDefine \/ EndFunction \/ EndRun

Spec == Init /\ [][Next]_vars

-----------------------------------------------------------------------------
\* What a path names in the session, following modules.
Named(path, o) ==
  \E at \in [DOMAIN path -> Environment] :
    /\ at[1] = 0
    /\ \A i \in 1 .. Len(path) - 1 : store[at[i]][path[i]] = ModuleObject(at[i + 1])
    /\ o = store[at[Len(path)]][path[Len(path)]]
Settled(o) == o = Value \/ \E m \in Module : o = ModuleObject(m) /\ state[m] # "Defined"

\* The paths that do not go through built-in modules, which all importers share.
Own == {path \in Path : \A i \in DOMAIN path : path[i] \notin Builtin}

\* What a path of the session names, it names for good: no import that fails,
\* succeeds, or replaces a module that was only defined on the way to a
\* submodule takes a value or a loaded module away.
BindingsStay ==
  [][\A path \in Own, o \in {Value} \cup {ModuleObject(m) : m \in Module} :
       Named(path, o) /\ Settled(o) => Named(path, o)']_vars

\* While its code runs, and after it has failed, a module is in no environment:
\* a program never sees half a module, and modules that import each other never
\* find each other.
NoHalfModules ==
  \A i \in DOMAIN stack : stack[i].kind \in {"import", "define", "function"} =>
    \A e \in Environment : stack[i].env \notin Held(store, e)

\* An environment loads a path once, also when the module of which it is a
\* submodule is loaded later; run_once runs a file once in the life of the
\* program, also when the file runs itself.
CodeRunsOnce ==
  /\ \A e \in Environment, path \in Own : loads[e][path] <= 1
  /\ \A path \in Path : onces[path] <= 1

=============================================================================
