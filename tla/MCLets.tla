------------------------------- MODULE MCLets -------------------------------
EXTENDS Lets

Id(n)  == Node("Identifier", n, <<>>)
Num(n) == Node("IntegerLiteral", n, <<>>)
Dbl(n) == Node("DoubleLiteral", n, <<>>)
Str(n) == Node("StringLiteral", n, <<>>)
Bool   == Node("BooleanLiteral", "TRUE", <<>>)
Nul    == Node("NullLiteral", "NULL", <<>>)
Arr(c) == Node("ArrayLiteral", "", c)
Dct(c) == Node("DictLiteral", "", c)
SetLit(c) == Node("SetLiteral", "", c)
Rng(l, u, s) == Node("RangeLiteral", "", <<Num(ToString(l)), Num(ToString(u)), Num(ToString(s))>>)
Infix(o, a, b)  == Node("InfixExpression", o, <<a, b>>)
Prefix(o, a)    == Node("PrefixExpression", o, <<a>>)
Index(a, b)     == Node("IndexExpression", "", <<a, b>>)
Call(f, c)      == Node("CallExpression", "", <<f>> \o c)
Expr(e)         == Node("ExpressionStatement", "", <<e>>)
Let(n, t, e)    == Node("LetStatement", "", <<Id(n), t, e>>)
Block(c)        == Node("BlockStatement", "", c)
If(a, b, c)     == Node("IfExpression", "", <<a, b, c>>)
Return(e)       == Node("ReturnStatement", "", <<e>>)
Arg(n, t)       == Node("Argument", n, <<t>>)
Fn(t, body, c)  == Node("FunctionLiteral", "", <<t, Block(body)>> \o c)
Frozen(e)       == Call(Freeze, <<e>>)
NotANumber      == Infix("/", Dbl("0"), Dbl("0"))

x == Id("x")
IntT == Named("int")
Functions == {
  Fn(Nil, <<Expr(Infix("+", x, Num("1")))>>, <<Arg("x", IntT)>>),
  Fn(IntT, <<Return(Str("a"))>>, <<Arg("x", Nil)>>),
  Fn(Nil, <<Expr(If(Infix("==", x, Num("1")), Block(<<Return(Str("a"))>>), Block(<<Return(x)>>))),
            Expr(Arr(<<x>>))>>, <<Arg("x", IntT)>>),
  Fn(Nil, <<Let("y", Nil, Infix("**", x, x)), Expr(If(Bool, Block(<<Return(Id("y"))>>), Nil)), Expr(Nul)>>,
     <<Arg("x", IntT)>>),
  Fn(Nil, <<>>, <<>>),
  Fn(Nil, <<Let("y", Nil, x)>>, <<Arg("x", TypeChoice(<<IntT, Named("str")>>))>>) }

First ==
  {Num("1"), Num("3"), Dbl("1"), Str("a"), Bool, Nul, Prefix("-", Num("2")),
   Arr(<<>>), Arr(<<Num("1"), Num("2")>>), Arr(<<Num("1"), Str("b"), Num("3")>>),
   Arr(<<Arr(<<Dbl("1")>>), Nul>>), Arr(<<Arr(<<Num("1")>>), Arr(<<Str("a"), Num("1"), Num("1")>>)>>),
   Dct(<<Num("1"), Str("a")>>), Dct(<<Num("1"), Num("2")>>), Dct(<<Str("a"), Num("1"), Num("2"), Nul, Num("2"), Bool>>),
   Dct(<<Num("1"), Dct(<<Num("1"), Nul>>)>>),
   SetLit(<<Num("1"), Num("2")>>), Frozen(Arr(<<Num("1"), Num("2")>>)), Frozen(SetLit(<<Num("2"), Num("1")>>)),
   Frozen(Dct(<<Num("1"), Num("2")>>)), Frozen(Arr(<<Frozen(SetLit(<<Num("1"), Num("2")>>))>>)),
   Arr(<<Prefix("-", Num("1")), Nul>>), Rng(0, 3, 2),
   Dbl("0"), NotANumber, Arr(<<NotANumber>>), Arr(<<Id("undefined"), Num("1")>>)}
  \cup Functions

Second ==
  {Let("b", Nil, e) : e \in
     {Num("1"), Dbl("1"), Dbl("0"), NotANumber, Str("a"), Nul, Arr(<<Num("1"), Num("2")>>), Arr(<<Num("1"), Str("b")>>),
      SetLit(<<Num("2"), Num("1")>>), Dct(<<Num("1"), Num("2")>>), Dct(<<Num("2"), Num("3"), Num("1"), Nul>>),
      Dct(<<Num("1"), Num("3")>>), Frozen(Arr(<<Num("1"), Num("2")>>)), Frozen(Dct(<<Num("1"), Num("2")>>)),
      Frozen(SetLit(<<Num("1"), Num("2")>>)), Frozen(SetLit(<<Num("1")>>)),
      Frozen(Arr(<<Frozen(SetLit(<<Num("2"), Num("1")>>))>>)),
      Id("a"), Arr(<<Id("a"), Num("1")>>), Rng(1, 1, 0)}}
  \cup {Let("b", TypeArray(Named("double")), Arr(<<Id("a")>>)),
        Let("b", TypeArray(TypeChoice(<<IntT, Named("str")>>)), Arr(<<Id("a"), Num("1")>>)),
        Let("b", TypeChoice(<<IntT, TypeArray(TypeAll), TypeDictionary(IntT, TypeAll)>>), Id("a")),
        Let("b", Node("TypeFunction", "", <<IntT, IntT>>), Id("a")),
        Let("b", Node("TypeFunction", "", <<TypeSet(IntT), IntT>>), Id("a"))}

Third ==
  {Infix(o, Id("a"), Id("b")) : o \in {"+", "/", "%", "==", "<", "&&"}}
  \cup {Index(Id("a"), Id("b")), Index(Id("b"), Num("1")),
        Call(Id("a"), <<Id("b")>>), Call(Id("a"), <<>>),
        Arr(<<Id("a"), Id("b")>>), SetLit(<<Id("a"), Id("b")>>),
        Infix("==", Infix("-", Id("a"), Num("1")), Infix("**", Id("b"), Num("3")))}

LeastNumber == Infix("-", Prefix("-", Num(ToString(Greatest))), Num("1"))
AllNumbers == {Num(ToString(n)) : n \in 0 .. Greatest} \cup {Prefix("-", Num(ToString(n))) : n \in 1 .. Greatest}
           \cup {LeastNumber}

\* The same object twice in a set is left out, and so is NaN in a set.
MCPrograms ==
  {p \in {<<Let("a", Nil, e), s, Let("c", Nil, t)>> : e \in First, s \in Second, t \in Third} :
     p[3].children[3].type = "SetLiteral" =>
       p[2].children[3] # Id("a") /\ NotANumber \notin {p[1].children[3], p[2].children[3]}}
  \cup {<<Let("a", Nil, e), Let("a", Nil, Prefix("!", Id("a"))), Let("c", Nil, Id("d"))>> : e \in First}
  \cup {<<Let("a", Nil, e), Let("b", Nil, f)>> : e, f \in AllNumbers}
  \cup {<<Let("a", Nil, Rng(l, u, s))>> : l, u \in Least .. Greatest, s \in {0, 1, 2, 3, 7}}
=============================================================================
