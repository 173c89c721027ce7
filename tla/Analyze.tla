------------------------------- MODULE Analyze -------------------------------
(***************************************************************************)
(* The removal of unreachable code from a syntax tree, the first pass of   *)
(* the static analysis of src/interp/Analyze.cpp.  Its other pass, the     *)
(* types of the let statements, is in module Typing.                       *)
(***************************************************************************)
EXTENDS Ast

\* A mutant: what leaves the block is removed as well.
BeforeLeaving(statements) == SelectSeq(statements, LAMBDA s : s.type \notin
                                         {"BreakStatement", "ContinueStatement", "ReturnStatement"})

\* The statements of a block up to the first that leaves it.
Leaves == {"BreakStatement", "ContinueStatement", "ReturnStatement"}
UpToLeaving(statements) ==
  LET leaving == {i \in DOMAIN statements : statements[i].type \in Leaves}
  IN IF leaving = {} THEN statements
     ELSE SubSeq(statements, 1, CHOOSE i \in leaving : \A j \in leaving : i <= j)

\* The children of an expression whose statements are visited one by one, so
\* that nothing is removed from the list itself.
VisitedBlocks(expression) ==
  CASE expression.type \in {"WhileExpression", "FunctionLiteral"} -> {2}
    [] expression.type = "IfExpression"                           -> {2, 3}
    [] expression.type = "ForExpression"                          -> {4}
    [] OTHER                                                      -> {}

RECURSIVE removeUnreachableCode(_)
Visited(statements) == [i \in DOMAIN statements |-> removeUnreachableCode(statements[i])]

removeUnreachableCode(node) ==
  CASE node.type = "BlockStatement" ->
         [node EXCEPT !.children = Visited(UpToLeaving(@))]
    [] node.type \in {"ScopeStatement", "Program"} ->
         [node EXCEPT !.children = Visited(@)]
    [] node.type = "ExpressionStatement" ->
         [node EXCEPT !.children[1].children =
            [i \in DOMAIN @ |-> IF i \in VisitedBlocks(node.children[1])
                                  THEN [@[i] EXCEPT !.children = Visited(@)] ELSE @[i]]]
    [] node.type = "LetStatement" /\ node.children[3].type = "FunctionLiteral" ->
         [node EXCEPT !.children[3].children[2] = removeUnreachableCode(@)]
    [] OTHER -> node

\* The statements that the removal visits under a node, after what it removes.
RECURSIVE VisitedUnder(_)
VisitedUnder(node) ==
  LET Under(statements) == UNION {VisitedUnder(statements[i]) : i \in DOMAIN statements}
  IN {node} \cup
     CASE node.type = "BlockStatement" -> Under(UpToLeaving(node.children))
       [] node.type \in {"ScopeStatement", "Program"} -> Under(node.children)
       [] node.type = "ExpressionStatement" ->
            UNION {Under(node.children[1].children[i].children) :
                     i \in VisitedBlocks(node.children[1])}
       [] node.type = "LetStatement" /\ node.children[3].type = "FunctionLiteral" ->
            VisitedUnder(node.children[3].children[2])
       [] OTHER -> {}

\* It follows the alternative of every if that is a statement, which is null
\* when the if has no else.
RemovalCrashes(program) ==
  \E node \in VisitedUnder(program) :
     /\ node.type = "ExpressionStatement"
     /\ \/ node.children[1] = Nil
        \/ node.children[1].type = "IfExpression" /\ node.children[1].children[3] = Nil
=============================================================================
