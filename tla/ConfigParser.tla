---------------------------- MODULE ConfigParser ----------------------------
(***************************************************************************)
(* The parser of the configuration, configparser.c: the driver that lemon  *)
(* wrote, with its stack and its packed tables, and the actions that       *)
(* configparser.y runs when it reduces by a rule.  A call of configparser  *)
(* is one step for every decision it takes about the token it was given:   *)
(* shift it, reduce by a rule, or give up.                                 *)
(*                                                                         *)
(* Every minor is a value of ConfigContext: a buffer for a token, a key or *)
(* an operand, data for an expression, the place of a context for a block, *)
(* the operator for a condition.                                           *)
(***************************************************************************)
EXTENDS ConfigTables, ConfigContext, FiniteSets

CONSTANTS
  YYSTACKDEPTH,  \* 100 in the code
  OutOfRange     \* pieces of digits that are too much for strtol

ASSUME StackAssumption == YYSTACKDEPTH \in Nat \ {0}

VARIABLES
  yystack,     \* sequence of [stateno, major, minor]
  yymajor,     \* the token configparser works on, "none" when it has returned
  yyminor,     \* its text
  overflowed,  \* the stack has been too small once
  ctx,         \* config_t
  stopped      \* "no", "exit" after exit(-1), "fault" after undefined behaviour

parserVars == <<yystack, yymajor, yyminor, overflowed, ctx, stopped>>

Nothing == Data("none", <<>>, <<>>)
ConfigAt(d) == Data("config", <<>>, d)

ParserInit ==
  /\ yystack = <<>> /\ yymajor = "none" /\ yyminor = Nothing /\ overflowed = FALSE
  /\ \E cwd \in Cwds : ctx = FirstContext(cwd)
  /\ stopped = "no"

-----------------------------------------------------------------------------
(***************************************************************************)
(* The driver.                                                             *)
(***************************************************************************)
Busy   == yymajor # "none" /\ stopped = "no"
Top    == Last(yystack)
Action == ShiftAction(Top.stateno, Symbol[yymajor])

\* configparser is called with a token.  After the parser has accepted, it
\* ignores the end of the input.
Call(major, minor) ==
  /\ yymajor = "none" /\ stopped = "no"
  /\ IF yystack = <<>> /\ major = "$"
     THEN UNCHANGED <<yystack, yymajor, yyminor>>
     ELSE /\ yymajor' = major /\ yyminor' = Buffer(minor)
          /\ yystack' = IF yystack = <<>> THEN <<[stateno |-> 0, major |-> "$", minor |-> Nothing]>>
                        ELSE yystack
  /\ UNCHANGED <<overflowed, ctx, stopped>>

\* yy_shift: a stack that is full is given up, and nobody is told.
Push(stack, stateno, major, minor) ==
  IF Len(stack) = YYSTACKDEPTH
  THEN yystack' = <<>> /\ overflowed' = TRUE
  ELSE /\ yystack' = Append(stack, [stateno |-> stateno, major |-> major, minor |-> minor])
       /\ UNCHANGED overflowed

Shift ==
  /\ Busy /\ Action < YYNSTATE
  /\ Push(yystack, Action, yymajor, yyminor)
  /\ yymajor' = "none" /\ yyminor' = Nothing
  /\ UNCHANGED <<ctx, stopped>>

\* Faulty variant: neither the token nor the stack is given up.
SyntaxError_Spins ==
  /\ Busy /\ Action = YY_ERROR_ACTION
  /\ ctx' = Failed(ctx)
  /\ UNCHANGED <<yystack, yymajor, yyminor, overflowed, stopped>>

\* The error symbol is nowhere expected: the stack is cleared, the parse failed.
SyntaxError ==
  /\ Busy /\ Action = YY_ERROR_ACTION
  /\ yystack' = <<>>
  /\ yymajor' = "none" /\ yyminor' = Nothing
  /\ ctx' = Failed(ctx)
  /\ UNCHANGED <<overflowed, stopped>>

Reducing(r) == Busy /\ Action = YYNSTATE + r

\* yymsp[k].minor
Msp(k) == yystack[Len(yystack) + k].minor

\* The stack below the right side of a rule.
Rest(r) == SubSeq(yystack, 1, Len(yystack) - RuleInfo(r)[2])

\* The end of yy_reduce: the right side of the rule is replaced by its left
\* side; input ::= metalines is accepted.
Becomes(r, minor) ==
  LET lhs  == RuleInfo(r)[1]
      rest == Rest(r)
      act  == ReduceAction(Last(rest).stateno, lhs)
  IN  /\ IF act < YYNSTATE THEN Push(rest, act, Entry(yyTokenName, lhs), minor)
         ELSE /\ yystack' = IF act = YY_ACCEPT_ACTION THEN <<>> ELSE rest
              /\ UNCHANGED overflowed
      /\ IF yystack' = <<>> THEN yymajor' = "none" /\ yyminor' = Nothing
         ELSE UNCHANGED <<yymajor, yyminor>>
      /\ UNCHANGED stopped

-----------------------------------------------------------------------------
(***************************************************************************)
(* Rules without an action, and rules that pass on what they got.          *)
(***************************************************************************)
Structure ==
  \E r \in 0 .. 8 \cup {25, 26} : Reducing(r) /\ Becomes(r, Nothing) /\ UNCHANGED ctx

PassOn ==
  /\ \/ \E r \in {13, 23, 31} : Reducing(r) /\ Becomes(r, Msp(0))
     \/ \E r \in {19, 21} : Reducing(r) /\ Becomes(r, Msp(-1))
  /\ UNCHANGED ctx

(***************************************************************************)
(* Variables.                                                              *)
(***************************************************************************)
Variables == DOMAIN ctx.dcs[ctx.current].value

\* A variable that was not there.  data_array_init does not set is_index_key: an
\* array may get a number for its name.
PutNew(c, name, du) ==
  Put(c, name, du)
    \cup IF du.type = "array" THEN UNION {Put(c, number, du) : number \in NextNumber(c)} ELSE {}

\* varline ::= key ASSIGN expression.
Assign ==
  /\ Reducing(9)
  /\ LET name == Msp(-2).value
     IN  IF ~ctx.ok THEN UNCHANGED ctx
         ELSE IF IsEnv(name) \/ name \in Variables THEN ctx' = Failed(ctx)
         ELSE ctx' \in PutNew(ctx, name, Msp(0))
  /\ Becomes(9, Nothing)

\* varline ::= key APPEND expression.  What was there before is taken out, also
\* when the values do not fit.
AppendTo ==
  /\ Reducing(10)
  /\ LET name == Msp(-2).value
         old  == GetVariable(ctx, name)
         sum  == Merge(old, Msp(0))
     IN  IF ~ctx.ok THEN UNCHANGED ctx
         ELSE IF IsEnv(name) THEN ctx' = Failed(ctx)
         ELSE IF IsNull(old) THEN ctx' \in PutNew(ctx, name, Msp(0))
         ELSE IF IsNull(sum) THEN \E c \in Without(ctx, name) : ctx' = Failed(c)
         ELSE ctx' \in Put(ctx, name, sum)
  /\ Becomes(10, Nothing)

\* key ::= LKEY.
Key ==
  /\ Reducing(11)
  /\ LET name == Msp(0).value
     IN  Becomes(11, Buffer(IF Has(name, ".") THEN name ELSE <<"var", ".">> \o name))
  /\ UNCHANGED ctx

(***************************************************************************)
(* Expressions.                                                            *)
(***************************************************************************)

\* expression ::= expression PLUS value.
Plus ==
  /\ Reducing(12)
  /\ LET sum == IF ctx.ok THEN Merge(Msp(-2), Msp(0)) ELSE NULL
     IN  /\ ctx' = IF IsNull(sum) THEN Failed(ctx) ELSE ctx
         /\ Becomes(12, sum)

\* Faulty variant: an unknown variable is no failure.
KnownValue_Quiet(found) == TRUE

KnownValue(found) == ~IsNull(found)

\* value ::= key: a variable of the environment, or of the configuration.
Variable ==
  /\ Reducing(14)
  /\ LET name == Msp(0).value
         found == IF ~ctx.ok THEN NULL
                  ELSE IF ~IsEnv(name) THEN GetVariable(ctx, name)
                  ELSE IF SubSeq(name, 3, Len(name)) \in DOMAIN Env
                       THEN StringData(Env[SubSeq(name, 3, Len(name))]) ELSE NULL
     IN  /\ ctx' = IF KnownValue(found) THEN ctx ELSE Failed(ctx)
         /\ Becomes(14, found)

Literal ==
  \/ Reducing(15) /\ Becomes(15, StringData(Msp(0).value)) /\ UNCHANGED ctx
  \/ Reducing(17) /\ Becomes(17, ArrayData(Msp(0).value)) /\ UNCHANGED ctx
  \/ Reducing(18) /\ Becomes(18, ArrayData(<<>>)) /\ UNCHANGED ctx

\* value ::= INTEGER.
Number ==
  /\ Reducing(16)
  /\ LET digits == Msp(0).value[1]
     IN  /\ ctx' = IF digits \in OutOfRange THEN Failed(ctx) ELSE ctx
         /\ Becomes(16, IntegerData(NumberOf[digits]))

\* aelements ::= aelements COMMA aelement.  A copy of a variable has the name
\* of the variable for its key.
NextElement ==
  /\ Reducing(20)
  /\ IF ~ctx.ok THEN UNCHANGED ctx /\ Becomes(20, NULL)
     ELSE IF Fits(Msp(-2).value, Msp(0))
          THEN UNCHANGED ctx /\ Becomes(20, ArrayData(Append(Msp(-2).value, Msp(0))))
          ELSE ctx' = Failed(ctx) /\ Becomes(20, Msp(-2))

\* aelements ::= aelement.
FirstElement ==
  /\ Reducing(22)
  /\ Becomes(22, IF ctx.ok THEN ArrayData(<<Msp(0)>>) ELSE NULL)
  /\ UNCHANGED ctx

\* aelement ::= stringop ARRAY_ASSIGN expression.
NamedElement ==
  /\ Reducing(24)
  /\ Becomes(24, IF ctx.ok THEN Data(Msp(0).type, Msp(-2).value, Msp(0).value) ELSE NULL)
  /\ UNCHANGED ctx

\* stringop ::= expression.  The expression is freed even if there is none, see
\* Undefined.
StringOp ==
  /\ Reducing(40)
  /\ LET op == Msp(0)
     IN  /\ op.type # "null"
         /\ IF ctx.ok /\ op.type \in {"string", "integer"}
            THEN /\ UNCHANGED ctx
                 /\ Becomes(40, Buffer(IF op.type = "string" THEN op.value ELSE <<ToString(op.value)>>))
            ELSE ctx' = Failed(ctx) /\ Becomes(40, NULL)

\* include and include_shell: config_parse_file and config_parse_cmd have no
\* body, and their answer is undefined.
Include ==
  \E r \in {41, 42} :
    /\ Reducing(r) /\ Becomes(r, Nothing)
    /\ UNCHANGED ctx \/ ctx' = Failed(ctx)

-----------------------------------------------------------------------------
(***************************************************************************)
(* Blocks.                                                                 *)
(***************************************************************************)

\* globalstart ::= GLOBAL.  It is asserted that the context is found.
OpenGlobal ==
  /\ Reducing(27) /\ ~InGlobal(ctx) /\ Global \in Shown(ctx)
  /\ Becomes(27, Nothing)
  /\ ctx' = Entered(ctx, Global)

\* global ::= globalstart LCURLY metalines RCURLY.
CloseGlobal ==
  /\ Reducing(28) /\ Becomes(28, Nothing)
  /\ ctx' = Pop(ctx)

Operator ==
  \E r \in 36 .. 39 :
    /\ Reducing(r)
    /\ Becomes(r, Data("cond", <<>>, <<"==", "=~", "!=", "!~">>[r - 35]))
    /\ UNCHANGED ctx

\* The condition that rule 34 has read.
Comp == <<Msp(-5).value[1], Msp(-3).value>>
Cond == Msp(-1).value
Rvalue == Msp(0).value
Same == Keyed(ctx, CondKey(ctx, Comp, Cond, Rvalue))
OpensCondition ==
  ctx.ok /\ Msp(0).type = "string" /\ (Same # {} \/ ~Refused(Comp, Cond, Rvalue))

\* context ::= DOLLAR SRVVARNAME LBRACKET stringop RBRACKET cond expression.
\* A condition that is there already is entered again.
OpenCondition ==
  /\ Reducing(34)
  /\ \/ /\ OpensCondition /\ ~InGlobal(ctx)
        /\ IF Same # {}
           THEN \E d \in Same :
                  ctx' = [Entered(ctx, d) EXCEPT
                            !.straight = @ /\ ctx.dcs[d].key = CondKey(ctx, Comp, Cond, Rvalue)]
           ELSE ctx' \in PushNew(ctx, Context(CondKey(ctx, Comp, Cond, Rvalue), Cond,
                                              Kept(Comp, Cond, Rvalue)))
     \/ /\ OpensCondition /\ Same = {} /\ Normalizes(Comp, Cond, Rvalue)
        /\ ctx' = Failed(ctx)
     \/ ~OpensCondition /\ ctx' = Failed(ctx)
  /\ Becomes(34, Nothing)

\* context_else ::=.  If there is a context with its key, the new one is freed, and
\* used all the same: see Undefined.
OpenElse ==
  /\ Reducing(35)
  /\ IF ctx.ok
     THEN /\ ~InGlobal(ctx) /\ Keyed(ctx, ElseKey(ctx)) = {}
          /\ ctx' \in PushNew(ctx, Context(ElseKey(ctx), "else", <<>>))
     ELSE UNCHANGED ctx
  /\ Becomes(35, Nothing)

Closed(c) == Pop(c)

\* condline and cond_else ::= ... LCURLY metalines RCURLY.
CloseBlock ==
  \E r \in {32, 33} :
    /\ Reducing(r)
    /\ IF ctx.ok THEN ctx' = Closed(ctx) /\ Becomes(r, ConfigAt(ctx.current))
       ELSE UNCHANGED ctx /\ Becomes(r, NULL)

\* Faulty variant: the order of the two is not looked at.
Unreachable_Unordered(c, a, b) == c.dcs[a].cond = "else"

\* b cannot be the else of a.
Unreachable(c, a, b) ==
  c.dcs[a].context_ndx >= c.dcs[b].context_ndx \/ c.dcs[a].cond = "else"

Linked(c, a, b) == [c EXCEPT !.dcs[b].prev = a, !.dcs[a].next = b]

\* condlines ::= condlines eols ELSE condline.
ElseCondition ==
  /\ Reducing(29)
  /\ LET a == Msp(-3).value
         b == Msp(0).value
     IN  IF ~ctx.ok THEN UNCHANGED ctx /\ Becomes(29, NULL)
         ELSE /\ ctx' = Linked([ctx EXCEPT !.ok = ~Unreachable(ctx, a, b)], a, b)
              /\ Becomes(29, ConfigAt(b))

All == ToSet(ctx.all_configs)

\* A context gets another key: it leaves all_configs and comes back.
Renamed(c, b, key) ==
  [c EXCEPT !.all_configs = Append(Extracted(@, b), b), !.dcs[b].key = key]

\* condlines ::= condlines eols ELSE cond_else.  It is asserted that what is taken
\* out of all_configs is the block; what is found there afterwards may be wrong.
ElseBlock ==
  /\ Reducing(30)
  /\ LET a == Msp(-3).value
         b == Msp(0).value
         key  == OppositeKey(ctx.dcs[a])
         same == {d \in All \ {b} : KeyText(ctx.dcs[d].key) = KeyText(key)}
     IN  IF ~ctx.ok THEN UNCHANGED ctx /\ Becomes(30, NULL)
         ELSE IF Unreachable(ctx, a, b) THEN ctx' = Failed(ctx) /\ Becomes(30, NULL)
         ELSE /\ Keyed(ctx, ctx.dcs[b].key) = {b}
              /\ \/ /\ \E c \in Resorted(Renamed(ctx, b, key), TRUE) : ctx' = Linked(c, a, b)
                    /\ Becomes(30, ConfigAt(b))
                 \/ \E d \in same :
                      /\ ctx' = Failed([ctx EXCEPT !.all_configs = Extracted(@, b)])
                      /\ Becomes(30, ConfigAt(d))

-----------------------------------------------------------------------------
(***************************************************************************)
(* Ways out.                                                               *)
(***************************************************************************)

\* configparser_push ends the program.
ExitInGlobal ==
  /\ InGlobal(ctx)
  /\ \/ Reducing(27)
     \/ Reducing(34) /\ OpensCondition
     \/ Reducing(35) /\ ctx.ok
  /\ stopped' = "exit"
  /\ UNCHANGED <<yystack, yymajor, yyminor, overflowed, ctx>>

Children(d) == Cardinality({e \in DOMAIN ctx.dcs : ctx.dcs[e].parent = d})
Freed == {"value", "expression", "aelement"}   \* symbols whose data is freed with them
FreesArray == \E i \in DOMAIN yystack : yystack[i].major \in Freed /\ yystack[i].minor.type = "array"

\* An array whose index is wrong is searched: the search may end nowhere.
Damaged == \E d \in DOMAIN ctx.dcs : ctx.dcs[d].lost # {}

\* What the reduction by a rule does without a definition, or asserts in vain: it
\* takes memory from vector_realloc; it uses or frees the key of an array, which
\* data_array_init leaves as it is; it takes an element out of an array at a place
\* that was never set; it searches an index that this made wrong; it goes on with
\* a context, or frees an expression, that is not there.
Undefined(r) ==
  CASE r = 27 -> MustGrow(Len(ctx.configs_stack)) \/ ctx.lost # {}
    [] r = 34 -> /\ OpensCondition
                 /\ \/ MustGrow(Len(ctx.configs_stack)) \/ ctx.lost # {}
                    \/ Same = {} /\ MustGrow(Children(ctx.current))
    [] r = 35 -> /\ ctx.ok
                 /\ \/ MustGrow(Len(ctx.configs_stack)) \/ MustGrow(Children(ctx.current))
                    \/ ctx.lost # {} \/ Keyed(ctx, ElseKey(ctx)) # {}
    [] r = 9  -> ctx.ok /\ (Msp(0).type = "array" \/ Damaged)
    [] r \in {20, 22, 24} -> ctx.ok /\ Msp(0).type = "array"
    [] r = 10 -> /\ ctx.ok
                 /\ \/ Msp(-2).value \in Variables \/ Damaged
                    \/ "array" \in {Msp(0).type, GetVariable(ctx, Msp(-2).value).type}
    [] r = 12 -> ctx.ok /\ "array" \in {Msp(-2).type, Msp(0).type}
    [] r = 14 -> ctx.ok /\ (GetVariable(ctx, Msp(0).value).type = "array" \/ Damaged)
    [] r = 30 -> ctx.ok
    [] r = 40 -> Msp(0).type \in {"null", "array"}

Crash ==
  /\ \/ \E r \in {9, 10, 12, 14, 20, 22, 24, 27, 30, 34, 35, 40} : Reducing(r) /\ Undefined(r)
     \/ Busy /\ Action = YY_ERROR_ACTION /\ FreesArray
  /\ stopped' = "fault"
  /\ UNCHANGED <<yystack, yymajor, yyminor, overflowed, ctx>>

ParserStep ==
  \/ Shift \/ SyntaxError
  \/ Structure \/ PassOn
  \/ Assign \/ AppendTo \/ Key
  \/ Plus \/ Variable \/ Literal \/ Number
  \/ NextElement \/ FirstElement \/ NamedElement \/ StringOp \/ Include
  \/ OpenGlobal \/ CloseGlobal \/ Operator \/ OpenCondition \/ OpenElse
  \/ CloseBlock \/ ElseCondition \/ ElseBlock
  \/ ExitInGlobal \/ Crash
=============================================================================
