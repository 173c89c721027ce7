------------------------------ MODULE MCImports -----------------------------
(* Imports on a small instance: the files a, b and a::b, and a built-in      *)
(* module os with a submodule c.                                             *)
EXTENDS Imports, TLC

import(path) == [op |-> "import", path |-> path]
let(name) == [op |-> "let", name |-> name]
letImport(name, path) == [op |-> "let import", name |-> name, path |-> path]
run(path) == [op |-> "run", path |-> path]
runOnce(path) == [op |-> "run_once", path |-> path]
fail == [op |-> "fail"]
exit == [op |-> "exit"]

A == <<"a">>
B == <<"b">>
AB == <<"a", "b">>
OS == <<"os">>
C == <<"os", "c">>
D == <<"os", "b">>

MCPath == {A, B, AB, OS, C, D}

\* The modules 1 and 2 are os and os::c.
MCBuiltinModule == "os" :> 1
MCProvided == 1 :> [n \in Name |-> IF n = "c" THEN ModuleObject(2) ELSE Nothing] @@ 2 :> Empty

MCStatement ==
  {import(path) : path \in MCPath} \cup
  {let("b"), letImport("a", A), run(A), runOnce(A), runOnce(B)}

Files(a, b, ab) ==
  [path \in MCPath |-> CASE path = A -> a [] path = B -> b [] path = AB -> ab [] OTHER -> Missing]

MCPrograms ==
  { Files(<<import(B), import(C)>>, <<let("a")>>, <<let("a")>>),
    Files(<<import(B)>>, <<import(A)>>, <<let("a")>>),
    Files(<<let("b"), let("a")>>, <<exit>>, <<import(B)>>),
    Files(<<runOnce(A), import(AB), run(B)>>, <<>>, <<let("b")>>),
    Files(<<import(D), runOnce(B)>>, <<let("c"), runOnce(A)>>, <<fail>>),
    Files(<<>>, Missing, <<let("c")>>),
    Files(<<let("c")>>, <<fail>>, <<let("b")>>) }

=============================================================================
