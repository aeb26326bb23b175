---------------------------- MODULE MCConfigRead ----------------------------
(***************************************************************************)
(* Small configuration files: blocks in each other and after each other,   *)
(* all kinds of lines in them, and options of the server.                  *)
(***************************************************************************)
EXTENDS ConfigRead

A(t) == [c |-> "alpha", t |-> t]
D(t) == [c |-> "digit", t |-> t]
P(t) == [c |-> t, t |-> t]
Dot  == [c |-> "dot", t |-> "."]
Underscore == [c |-> "dot", t |-> "_"]
EOL  == <<P("\n")>>
Q(s) == <<P("\"")>> \o s \o <<P("\"")>>
S(t) == Q(<<A(t)>>)
If(name, field, op, right) ==
  <<P("$"), A(name), P("[")>> \o S(field) \o <<P("]")>> \o op \o right \o <<P("{")>> \o EOL
EQ == <<P("="), P("=")>>
NE == <<P("!"), P("=")>>
Else == <<A("else")>>
a == A("a")
Is == P("=")
Set(l) == <<a, Is>> \o l \o EOL
Adds(l) == <<a, P("+"), Is>> \o l \o EOL
L(cost, texts) == {[text |-> t, cost |-> cost] : t \in texts}

Url(op) == If("HTTP", "url", op, S("x"))
End == <<P("}")>> \o EOL
Blocks == L(1,
  {Url(EQ), Url(NE), End, End \o Else \o Url(EQ)})

Simple == L(2,
  {End \o Else \o <<P("{")>> \o EOL, Set(S("s")), Adds(S("t")),
   <<A("global"), P("{")>> \o EOL})

Array(l) == <<P("(")>> \o l \o <<P(")")>>
Mask(bits) == Q(<<D("10"), P("/"), D(bits)>>)

\* The right side holds what the key of a block in this block would have.
Colliding == If("HTTP", "url", EQ, Q(<<A("x"), P("/"), A("HTTPurl"), P("="), P("="), A("x")>>)) \o End

Exotic == L(4,
  {Colliding, Adds(<<D("1")>>), Set(<<D("2"), P("+"), D("1")>>) \o Adds(S("s")), Set(<<A("zz")>>), Adds(<<A("zz")>>), Set(Array(<<D("1"), P(","), A("zz")>>)),
   Else \o <<P("{")>> \o EOL,
   Set(Array(<<>>)) \o Adds(S("t")),
   Set(Array(S("x") \o <<P(",")>>)) \o Adds(Array(S("x"))),
   Set(S("s") \o <<P("+"), D("1")>>) \o Set(<<a>>),
   Set(S("s")) \o <<A("c"), Is>> \o Array(<<a, P(","), a>>) \o EOL,
   <<A("c"), Is>> \o Array(S("k") \o <<Is, P(">")>> \o S("x") \o <<P(","), D("1")>>) \o EOL,
   Set(Array(<<Is>>)), Set(Array(S("x") \o EOL \o S("y") \o EOL)),
   Set(<<A("env"), Dot, A("HOME")>>), Set(<<A("env"), Dot, A("NO")>>),
   <<A("env"), Dot, A("b"), Is, D("1")>> \o EOL,
   <<A("env"), Dot, A("b"), P("+"), Is, D("1")>> \o EOL,
   Set(<<D("1"), P("+")>> \o Array(<<>>)), Set(<<D("99")>>),
   <<A("include"), P(" ")>> \o S("f") \o EOL, <<A("include"), P(" "), A("zz")>> \o EOL,
   <<A("include"), Underscore, A("shell"), P(" "), D("1")>> \o EOL,
   <<A("include"), P(" ")>> \o Array(<<>>) \o EOL,
   <<P("#"), A("x")>> \o EOL, EOL \o <<P("#")>> \o EOL \o <<P(" "), P(",")>> \o EOL,
   <<P("!")>>, <<P("\""), A("x")>>, <<a>>, <<a, Is, D("1")>>, <<P(")")>> \o EOL, <<a, P("~")>>,
   Set(Q(<<A("x"), P("\\"), P("\""), A("y")>>)),
   If("HTTP", "host", EQ, S("x")), If("HTTP", "host", <<Is, P("~")>>, S("x")),
   If("HTTP", "url", <<P("!"), P("~")>>, S("x")), If("HTTP", "no", EQ, S("x")),
   If("HTTP", "url", EQ, <<D("1")>>), If("HTTP", "url", <<Is>>, S("x")), If("HTTP", "url", <<P("!")>>, S("x")),
   If("SERVER", "socket", EQ, Q(<<P(":"), D("80")>>)),
   If("HTTP", "remoteip", EQ, Mask("08")) \o End \o Else \o <<P("{")>> \o EOL,
   If("HTTP", "remoteip", NE, Mask("08")) \o End \o Else \o <<P("{")>> \o EOL,
   If("HTTP", "remoteip", EQ, Mask("99")), <<P("$"), D("1")>>})

Dash == [c |-> "dot", t |-> "-"]
Option(name, right) == <<A("server"), Dot>> \o name \o <<Is>> \o right \o EOL
M(name) == Q(<<A("mod"), Underscore, A(name)>>)
ModuleList(l) == Option(<<A("modules")>>, Array(l))
Uploads(l) == Option(<<A("upload"), Dash, A("dirs")>>, Array(l))
Upload(key, dir) == S(key) \o <<Is, P(">")>> \o S(dir)
Bind(right) == Option(<<A("bind")>>, right)
Chrooted(dir) == Option(<<A("chroot")>>, S(dir))
StatCache(e) == Option(<<A("stat"), Underscore, A("cache"), Underscore, A("engine")>>, S(e))
DocRoot == Option(<<A("document"), Dash, A("root")>>, S("x"))

\* config_parse returns only from a file with an error.
Bad == <<P("]")>> \o EOL

ServerOptions == L(5,
  {Bind(S("x")) \o Url(EQ) \o Bind(S("y")) \o Bad,
   Uploads(Upload("k", "tmp")) \o Url(EQ) \o Uploads(Upload("k", "srv")) \o Bad,
   Bind(S("x")) \o Set(S("s")) \o Adds(S("t")) \o Bad,
   Chrooted("srv"), Chrooted("srv") \o Uploads(S("tmp")), Chrooted("f"),
   ModuleList(M("auth")), ModuleList(Q(<<>>)),
   ModuleList(M("staticfile") \o <<P(",")>> \o M("indexfile")),
   ModuleList(S("x") \o <<P(","), D("1")>>), Option(<<A("modules")>>, S("x")),
   Bind(S("x")) \o Option(<<A("errorlog")>>, S("f")), Bind(<<D("1")>>),
   StatCache("disable"), StatCache("x"), DocRoot})

MCLines == Blocks \cup Simple \cup Exotic \cup ServerOptions
MCDirectories == {<<"srv">>, <<"srv", "/", "tmp">>, <<"/", "var", "/", "temp">>}
MCOtherFiles == {<<"f">>}
MCCwds == {<<"w">>}
MCEnv == (<<"HOME">> :> <<"h">>)
MCNumberOf == [d \in {"1", "2", "10", "80", "08", "99"} |->
  CASE d = "1" -> 1 [] d = "2" -> 2 [] d = "10" -> 10 [] d = "80" -> 80 [] d = "08" -> 8 [] d = "99" -> 99]
=============================================================================
