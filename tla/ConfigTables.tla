---------------------------- MODULE ConfigTables ----------------------------
(***************************************************************************)
(* The tables of configparser.c, which lemon.c made from configparser.y:   *)
(* the names of the symbols, the rules of the grammar, and the packed      *)
(* tables that tell the parser what to do in a state.  A table of the code *)
(* begins with entry 0, a sequence with 1: Entry(t, i) is t[i] of the      *)
(* code.                                                                   *)
(***************************************************************************)
EXTENDS Integers, Sequences

Entry(t, i) == t[i + 1]

YYNSTATE == 68
YYNRULE  == 43
YYNOCODE == 50
YYERRORSYMBOL     == 26
YY_NO_ACTION      == YYNSTATE + YYNRULE + 2
YY_ACCEPT_ACTION  == YYNSTATE + YYNRULE + 1
YY_ERROR_ACTION   == YYNSTATE + YYNRULE
YY_SHIFT_USE_DFLT  == -2
YY_REDUCE_USE_DFLT == -38

\* What to do, for all states and symbols together.
yy_action == <<
  2, 3, 4, 5, 14, 15, 112, 1, 7, 46, 68, 16, 103, 17, 21, 47, 16, 42, 11, 21, 18, 39, 41, 9,
  10, 12, 47, 41, 93, 63, 13, 47, 11, 64, 59, 61, 29, 28, 38, 59, 61, 31, 26, 23, 35, 16, 20, 8,
  21, 36, 16, 20, 108, 21, 32, 33, 41, 20, 45, 102, 47, 41, 44, 67, 48, 47, 95, 52, 59, 61, 29, 28,
  34, 59, 61, 43, 26, 23, 35, 21, 53, 24, 25, 27, 30, 49, 29, 50, 6, 29, 50, 65, 26, 23, 51, 26,
  23, 60, 66, 29, 50, 94, 94, 94, 94, 26, 23, 62, 94, 94, 21, 94, 24, 25, 27, 29, 19, 29, 37, 29,
  40, 26, 23, 26, 23, 26, 23, 55, 56, 57, 58, 29, 54, 22, 94, 94, 94, 26, 23, 26, 23>>

\* The symbol each entry of yy_action is for.
yy_lookahead == <<
  29, 30, 31, 32, 33, 34, 27, 28, 45, 38, 0, 1, 13, 42, 4, 16, 1, 46, 47, 4, 2, 3, 12, 38,
  39, 13, 16, 12, 15, 14, 28, 16, 47, 48, 24, 25, 35, 36, 37, 24, 25, 40, 41, 42, 43, 1, 5, 15,
  4, 11, 1, 5, 11, 4, 9, 10, 12, 5, 14, 13, 16, 12, 28, 14, 17, 16, 13, 19, 24, 25, 35, 36,
  37, 24, 25, 13, 41, 42, 43, 4, 44, 6, 7, 8, 9, 18, 35, 36, 1, 35, 36, 13, 41, 42, 43, 41,
  42, 43, 28, 35, 36, 49, 15, 49, 49, 41, 42, 43, 49, 49, 4, 49, 6, 7, 8, 35, 36, 35, 36, 35,
  36, 41, 42, 41, 42, 41, 42, 20, 21, 22, 23, 35, 36, 35, 49, 49, 49, 41, 42, 41, 42>>

\* Where the entries of a state begin, for a terminal.
yy_shift_ofst == <<
  -2, 10, -2, -2, -2, 87, 13, 32, -1, -2, -2, 12, -2, 15, -2, -2, -2, 18, 106, 52, 106, -2, -2, -2,
  -2, -2, -2, 75, 41, -2, -2, 45, -2, 106, -2, 38, 106, 52, -2, 106, 52, 53, 62, -2, 44, -2, -2, 47,
  67, 106, 52, 48, 107, 106, 46, -2, -2, -2, -2, 106, -2, 106, -2, -2, 78, -2, 49, -2>>

\* Where they begin for a nonterminal.
yy_reduce_ofst == <<
  -21, -29, -38, -38, -38, -37, -38, -38, -15, -38, -38, -38, 2, -29, -38, -38, -38, -38, 80, -38, 98, -38, -38, -38,
  -38, -38, -38, 1, -38, -38, -38, -38, -38, 35, -38, -38, 82, -38, -38, 84, -38, -38, -38, 34, -29, -38, -38, -38,
  -38, 51, -38, -38, 36, 96, -38, -38, -38, -38, -38, 54, -38, 64, -38, -38, -38, 70, -29, -38>>

\* What a state does with every other symbol.
yy_default == <<
  70, 111, 69, 71, 72, 111, 73, 111, 111, 97, 98, 111, 70, 111, 74, 75, 76, 111, 111, 77, 111, 79, 80, 82,
  83, 84, 85, 111, 91, 81, 86, 111, 87, 89, 88, 111, 111, 92, 90, 111, 78, 111, 111, 70, 111, 96, 99, 111,
  111, 111, 108, 111, 111, 111, 111, 104, 105, 106, 107, 111, 109, 111, 110, 100, 111, 70, 111, 101>>

yyTokenName == <<
  "$", "EOL", "ASSIGN", "APPEND", "LKEY", "PLUS", "STRING", "INTEGER",
  "LPARAN", "RPARAN", "COMMA", "ARRAY_ASSIGN", "GLOBAL", "LCURLY",
  "RCURLY", "ELSE", "DOLLAR", "SRVVARNAME", "LBRACKET", "RBRACKET", "EQ",
  "MATCH", "NE", "NOMATCH", "INCLUDE", "INCLUDE_SHELL", "error", "input",
  "metalines", "metaline", "varline", "global", "condlines", "include",
  "include_shell", "value", "expression", "aelement", "condline",
  "cond_else", "aelements", "array", "key", "stringop", "cond", "eols",
  "globalstart", "context", "context_else">>

\* The number of a symbol.
Symbol == [n \in {yyTokenName[i] : i \in DOMAIN yyTokenName} |->
             (CHOOSE i \in DOMAIN yyTokenName : yyTokenName[i] = n) - 1]

\* The rules as the grammar has them: the left side, then the right side.
yyRuleName == <<
  <<"input", "metalines">>, <<"metalines", "metalines", "metaline">>,
  <<"metalines">>, <<"metaline", "varline">>, <<"metaline", "global">>,
  <<"metaline", "condlines", "EOL">>, <<"metaline", "include">>,
  <<"metaline", "include_shell">>, <<"metaline", "EOL">>,
  <<"varline", "key", "ASSIGN", "expression">>,
  <<"varline", "key", "APPEND", "expression">>, <<"key", "LKEY">>,
  <<"expression", "expression", "PLUS", "value">>,
  <<"expression", "value">>, <<"value", "key">>, <<"value", "STRING">>,
  <<"value", "INTEGER">>, <<"value", "array">>,
  <<"array", "LPARAN", "RPARAN">>,
  <<"array", "LPARAN", "aelements", "RPARAN">>,
  <<"aelements", "aelements", "COMMA", "aelement">>,
  <<"aelements", "aelements", "COMMA">>, <<"aelements", "aelement">>,
  <<"aelement", "expression">>,
  <<"aelement", "stringop", "ARRAY_ASSIGN", "expression">>,
  <<"eols", "EOL">>, <<"eols">>, <<"globalstart", "GLOBAL">>,
  <<"global", "globalstart", "LCURLY", "metalines", "RCURLY">>,
  <<"condlines", "condlines", "eols", "ELSE", "condline">>,
  <<"condlines", "condlines", "eols", "ELSE", "cond_else">>,
  <<"condlines", "condline">>,
  <<"condline", "context", "LCURLY", "metalines", "RCURLY">>,
  <<"cond_else", "context_else", "LCURLY", "metalines", "RCURLY">>,
  <<"context", "DOLLAR", "SRVVARNAME", "LBRACKET", "stringop", "RBRACKET", "cond", "expression">>,
  <<"context_else">>, <<"cond", "EQ">>, <<"cond", "MATCH">>,
  <<"cond", "NE">>, <<"cond", "NOMATCH">>, <<"stringop", "expression">>,
  <<"include", "INCLUDE", "stringop">>,
  <<"include_shell", "INCLUDE_SHELL", "stringop">>>>

\* The rules as the parser has them: the left side and the length of the right.
yyRuleInfo == <<
  <<27, 1>>, <<28, 2>>, <<28, 0>>, <<29, 1>>, <<29, 1>>, <<29, 2>>,
  <<29, 1>>, <<29, 1>>, <<29, 1>>, <<30, 3>>, <<30, 3>>, <<42, 1>>,
  <<36, 3>>, <<36, 1>>, <<35, 1>>, <<35, 1>>, <<35, 1>>, <<35, 1>>,
  <<41, 2>>, <<41, 3>>, <<40, 3>>, <<40, 2>>, <<40, 1>>, <<37, 1>>,
  <<37, 3>>, <<45, 1>>, <<45, 0>>, <<46, 1>>, <<31, 4>>, <<32, 4>>,
  <<32, 4>>, <<32, 1>>, <<38, 4>>, <<39, 4>>, <<47, 7>>, <<48, 0>>,
  <<44, 1>>, <<44, 1>>, <<44, 1>>, <<44, 1>>, <<43, 1>>, <<33, 2>>,
  <<34, 2>>>>

\* yyRuleInfo[yyruleno]: the left side, and how many symbols to pop.
RuleInfo(r) == Entry(yyRuleInfo, r)

\* yy_find_shift_action and yy_find_reduce_action in the state on top of the
\* stack, for a symbol that is one.
Packed(state, la, ofst, dflt) ==
  LET i == Entry(ofst, state) + la
  IN  IF /\ Entry(ofst, state) # dflt
         /\ i \in 0 .. Len(yy_action) - 1
         /\ Entry(yy_lookahead, i) = la
      THEN Entry(yy_action, i) ELSE Entry(yy_default, state)

ShiftAction(state, la)  == Packed(state, la, yy_shift_ofst, YY_SHIFT_USE_DFLT)
ReduceAction(state, nt) == Packed(state, nt, yy_reduce_ofst, YY_REDUCE_USE_DFLT)

-----------------------------------------------------------------------------
(***************************************************************************)
(* What holds of these tables; TLC evaluates it.                           *)
(***************************************************************************)
States  == 0 .. YYNSTATE - 1
Tokens  == {yyTokenName[i] : i \in 1 .. YYERRORSYMBOL}
Symbols == DOMAIN Symbol \ {"error"}

\* The state that follows state q when the symbol n gets on the stack.
Target(q, n) == IF n < YYERRORSYMBOL THEN ShiftAction(q, n) ELSE ReduceAction(q, n)

\* The steps of the automaton.
Follows(p) == Target(p[1], Symbol[p[2]])
Edges == {[from |-> p[1], on |-> p[2], to |-> Follows(p)] :
            p \in {u \in States \X Symbols : Follows(u) \in States}}

\* The states that can be k places below state s on a stack.
MaxRule  == 7
Prior(t) == {e.from : e \in {f \in Edges : f.to = t}}
Below[k \in 0 .. MaxRule] ==
  [s \in States |-> IF k = 0 THEN {s} ELSE UNION {Prior(t) : t \in Below[k - 1][s]}]

Rule(r)   == yyRuleName[r + 1]
Length(r) == Len(Rule(r)) - 1

\* The rules a state is reduced by, for some token.
Reduces(s) ==
  {r \in 0 .. YYNRULE - 1 : YYNSTATE + r \in {ShiftAction(s, Symbol[X]) : X \in Tokens}}

\* Where state s is on top, the right side of rule r is: what is on it with each
\* state is what the rule has there, the bottom is not among it, and the state below
\* knows what to do with the left side.
OnTop(r, s) ==
  /\ \A k \in 0 .. Length(r) - 1 : \A q \in Below[k][s] :
       q # 0 /\ \A e \in Edges : e.to = q => e.on = Rule(r)[Length(r) + 1 - k]
  /\ \A q \in Below[Length(r)][s] :
       Target(q, Symbol[Rule(r)[1]]) \in States \cup {YY_ACCEPT_ACTION}

\* The symbols of a block that is open, and of one that can have an else; the
\* operator of a condition; and the states between a $ and the operator.
Openers    == {"context", "context_else", "globalstart"}
Conditions == {"condlines", "condline", "cond_else"}
Operators  == {"EQ", "MATCH", "NE", "NOMATCH", "cond"}
Leading[k \in 0 .. 12] ==
  IF k = 0 THEN {e.to : e \in {f \in Edges : f.on = "DOLLAR"}}
  ELSE LET some == Leading[k - 1]
       IN  some \cup {e.to : e \in {f \in Edges : f.from \in some /\ f.on \notin Operators}}
LeftSide == Leading[12]

ASSUME SymbolsNumbered ==
  /\ \A X \in Tokens : X \in Symbols /\ Symbol[X] \in 0 .. YYERRORSYMBOL - 1
  /\ \A X \in Symbols : Entry(yyTokenName, Symbol[X]) = X
  /\ \A X \in Symbols \ Tokens : Symbol[X] \in YYERRORSYMBOL + 1 .. YYNOCODE

ASSUME BelowUnfolds ==
  \A s \in States :
    /\ Below[0][s] = {s}
    /\ \A k \in 1 .. MaxRule : Below[k][s] = UNION {Prior(t) : t \in Below[k - 1][s]}

\* No state can shift the error symbol, so that a syntax error clears the stack.
ASSUME NoErrorRule == \A s \in States : ShiftAction(s, YYERRORSYMBOL) >= YYNSTATE

\* The packed tables do what the grammar says: a state that is to be reduced by a
\* rule for some token is reached with the right side of that rule only.
ASSUME TablesFitGrammar ==
  /\ \A r \in 0 .. YYNRULE - 1 :
       /\ Rule(r) \in Seq(Symbols) /\ Length(r) \in 0 .. MaxRule
       /\ Rule(r)[1] \in Symbols \ Tokens
       /\ RuleInfo(r) = <<Symbol[Rule(r)[1]], Length(r)>>
  /\ \A s \in States : \A r \in Reduces(s) : OnTop(r, s)
  /\ \A s \in States, X \in Tokens : ShiftAction(s, Symbol[X]) \in 0 .. YY_ERROR_ACTION

\* Where the symbols of blocks, parentheses and conditions are in the rules: a rule
\* that has the opener of a block in it has its end as well, and so on.
ASSUME RulesNest ==
  \A r \in 0 .. YYNRULE - 1 :
    /\ Rule(r)[1] = "input" => r = 0
    /\ Rule(r)[1] \in Openers <=> r \in {27, 34, 35}
    /\ Rule(r)[1] \in Conditions <=> r \in 29 .. 33
    /\ \A k \in 1 .. Length(r) + 1 :
         /\ Rule(r)[k] \in Openers /\ k > 1 => r \in {28, 32, 33} /\ k = 2
         /\ Rule(r)[k] \in {"LPARAN", "RPARAN"} => r \in {18, 19} /\ k > 1
         /\ Rule(r)[k] = "DOLLAR" => r = 34 /\ k = 2
         /\ Rule(r)[k] \in Operators => r \in 36 .. 39 \/ (r = 34 /\ k = 7)

\* The parser accepts above the bottom of the stack only, and at the end of the
\* input; the state 0 is nowhere else on the stack.
ASSUME AcceptsAtEnd ==
  /\ \A e \in Edges : e.to # 0
  /\ \A q \in States : \A X \in Symbols \ Tokens :
       ReduceAction(q, Symbol[X]) = YY_ACCEPT_ACTION => q = 0 /\ X = "input"
  /\ \A q \in States : \A X \in Tokens : ShiftAction(q, Symbol[X]) = YYNSTATE => X = "$"

\* An else block that is complete is reduced with its condition at once, and no
\* condition begins in the left side of another.
ASSUME StatesOfConditions ==
  \A e \in Edges :
    /\ e.on = "cond_else" => \A X \in Tokens :
         ShiftAction(e.to, Symbol[X]) \in {YYNSTATE + 30, YY_ERROR_ACTION}
    /\ e.on = "DOLLAR" => e.from \notin LeftSide /\ e.to \in LeftSide
    /\ e.from \in LeftSide /\ e.on \notin Operators => e.to \in LeftSide
=============================================================================
