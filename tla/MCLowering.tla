----------------------------- MODULE MCLowering ------------------------------
(* Small Cookfiles for Lowering: families of texts, one set of lines for each  *)
(* position.                                                                    *)
EXTENDS Lowering

IdIn     == Dotted(<< "in" >>)
IdStem   == Dotted(<< "in", "stem" >>)
IdOut    == Dotted(<< "out" >>)
IdOut2   == Dotted(<< "out_2" >>)
IdLib    == Dotted(<< "lib" >>)
IdLibStem == Dotted(<< "lib", "stem" >>)
IdLibIn  == Ident("", << "lib" >>, "in")
IdSub    == Dotted(<< "sub", "gen" >>)
IdSubStem == Dotted(<< "sub", "gen", "stem" >>)
IdCC     == Dotted(<< "CC" >>)
IdVarCC  == Dotted(<< "var", "CC" >>)
IdProbe  == Ident("cc:", << "ver" >>, "-")
IdArg    == Dotted(<< "arg" >>)

Ver == [pre |-> "cc:", seg |-> << "ver" >>]
Src == Name(<< "src" >>)
N(s) == Name(<< s >>)

Line(kind, at0) == [Blank EXCEPT !.k = kind, !.col0 = at0]
Top(kind, n)   == [Line(kind, TRUE) EXCEPT !.name = n]
HeadOn(n, ds)   == [Top("recipe", n) EXCEPT !.deps = ds]
ChoreOf(n, ps)  == [Top("chore", n) EXCEPT !.params = ps]

Sh(is)      == [Nobody EXCEPT !.k = "shell", !.ids = is]
ShBare(is)  == [Sh(is) EXCEPT !.quoted = FALSE]
LuaOf(fr, vs) == [Nobody EXCEPT !.k = "lua", !.free = fr, !.vars = vs]
Pat(is)     == [lua |-> FALSE, ids |-> is]
Expr        == [lua |-> TRUE, ids |-> << >>]

Globs(in, ex) == [Line("gatherGlobs", FALSE) EXCEPT !.inc = in, !.exc = ex]
Key(n, in)    == [Line("gatherKey", FALSE) EXCEPT !.name = n, !.inc = in]
Ref(n)        == [Line("gatherRef", FALSE) EXCEPT !.name = n]
Seal(ks, in, ex) == [Line("seal", FALSE) EXCEPT !.deps = ks, !.inc = in, !.exc = ex]
CookL(os, b, t) == [Line("cook", FALSE) EXCEPT !.outs = os, !.body = b, !.tail = t]
TestL(b)      == [Line("test", FALSE) EXCEPT !.body = b]
Cmd(is)       == [Line("shell", FALSE) EXCEPT !.body = Sh(is)]
More(in, ex)  == [Line("quoted", FALSE) EXCEPT !.inc = in, !.exc = ex, !.outs = << Pat(<< >>) >>]

Own     == CookL(<< Pat(<< IdStem >>) >>, Sh({IdIn, IdOut, IdCC}), "")
ByDep   == CookL(<< Pat(<< IdLibStem, IdVarCC >>) >>, Sh({IdIn, IdOut}), "local")
One     == CookL(<< Pat(<< >>) >>, Sh({IdIn, IdLib, IdOut}), "")
Plain   == CookL(<< Pat(<< IdCC >>) >>, LuaOf({}, {N("CC")}), "pinned")
Two     == CookL(<< Pat(<< >>), Pat(<< IdCC >>) >>, Sh({IdOut2, IdProbe, IdCC}), "")
TwoAsOne == CookL(<< Pat(<< >>), Pat(<< IdCC >>) >>, Sh({IdOut}), "")
Each2   == CookL(<< Pat(<< IdStem >>), Pat(<< IdStem, IdCC >>) >>, Sh({IdIn, IdOut2}), "nondet")
ByExpr  == CookL(<< Expr >>, Sh({IdIn, IdProbe}), "")
Joined  == CookL(<< Pat(<< IdIn >>) >>, Sh({IdLibIn, IdCC}), "")
Foreign == CookL(<< Pat(<< >>) >>, Sh({IdSub}), "")
BySub   == CookL(<< Pat(<< IdSubStem >>) >>, Sh({IdCC}), "")
InSub   == CookL(<< Pat(<< >>) >>, Sh({IdSubStem}), "")
OnLua   == CookL(<< Pat(<< IdStem >>) >>, LuaOf({"input"}, {}), "")

BodyLinesOf ==
  { Seal({Ver}, << >>, << >>), Seal({}, << "a" >>, << >>), More(<< "b" >>, << >>),
    Globs(<< "a" >>, << >>), Key(Ver, << "b" >>), Key(Src, << >>), Ref(N("lib")),
    Own, ByDep, One, Plain, Two, TwoAsOne, Each2, ByExpr, Joined, Foreign, BySub, InSub, OnLua,
    TestL(Sh({IdIn, IdLib})), TestL(Sh({IdCC})), TestL(LuaOf({"inputs"}, {})),
    Line("call", FALSE), Blank }

LibText == << Top("import", N("sub")), Top("files", Src), More(<< "a" >>, << "!b" >>),
              Top("recipe", N("lib")), Globs(<< "a" >>, << "!b" >>), Own >>

Sources ==
  { Globs(<< "a" >>, << >>), Key(Ver, << "b" >>), Key(Src, << >>), Ref(N("lib")),
    Seal({}, << "a" >>, << >>), Own, Blank }
RecipeTexts ==
  { LibText \o << HeadOn(N("app"), {}), a, b, c >> :
      a \in Sources, b \in BodyLinesOf, c \in BodyLinesOf }

ChoreLinesOf ==
  { Cmd({IdLib, IdCC}), Cmd({IdArg, IdProbe}), Line("luaLine", FALSE), Line("luaBlock", FALSE),
    Seal({Ver}, << >>, << >>), Ref(N("lib")), Key(Src, << >>), Line("test", FALSE), Own,
    Line("call", FALSE), Blank, Line("removed", FALSE), Line("call", TRUE) }
Arg(s, kind) == [name |-> N(s), arity |-> kind]
ParamLists == UNION {[1 .. n -> [name : {N("arg"), N("lib")},
                                  arity : {"required", "default", "plus", "star"}]] : n \in 0 .. 2}
HeaderTexts ==
  { << [ChoreOf(n, ps) EXCEPT !.k = kind], Cmd({IdArg}) >> :
      kind \in {"recipe", "chore"}, n \in {N("go"), Name(<< "go", "on" >>)}, ps \in ParamLists }
ChoreTexts ==
  { LibText \o << ChoreOf(N("go"), ps), a, b, c >> :
      ps \in {<< >>, << Arg("arg", "required"), Arg("lib", "star") >>}, a \in ChoreLinesOf, b \in ChoreLinesOf,
      c \in {Cmd({IdArg}), Line("luaLine", FALSE), Blank, Line("call", TRUE)} }

Named(kind, t) == [Top(kind, N("x")) EXCEPT !.tail = t]
TopLinesOf ==
  { Top("config", NoName), Named("config", ""), Line("bare", FALSE), Named("use", "m"),
    Named("use", "n"), Named("use", "up"), Line("arrows", FALSE), Named("import", ""), Named("import", "up"), Line("register", TRUE), Line("call", TRUE),
    Named("recipe", ""), Named("chore", ""), Named("probe", ""), Named("files", ""),
    Named("tools", ""), [Line("names", FALSE) EXCEPT !.inc = << "cc" >>], More(<< "a" >>, << >>),
    Line("produce", FALSE), [Line("covers", FALSE) EXCEPT !.inc = << "a" >>],
    Seal({Ver}, << "a" >>, << "!b" >>), Line("luaBlock", FALSE), TestL(Sh({})) }
TopTexts == { << a, b, c, d >> : a \in {l \in TopLinesOf : l.col0}, b \in TopLinesOf, c \in TopLinesOf,
                d \in {Line("produce", FALSE), Named("use", "m")} }

MCDrafts == {RecipeTexts, ChoreTexts, HeaderTexts, TopTexts}
MCImported == [a \in {N("sub"), N("x")} |-> IF a = N("sub") THEN {<< "gen" >>} ELSE {}]
=============================================================================
