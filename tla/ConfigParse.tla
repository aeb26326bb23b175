----------------------------- MODULE ConfigParse -----------------------------
(***************************************************************************)
(* Reading the configuration file: config_parse of mconfigfile.c, which    *)
(* asks the tokenizer for one token after the other and hands them to the  *)
(* parser as long as the parser has no complaint.                          *)
(***************************************************************************)
EXTENDS Tokenizer, ConfigParser

CONSTANTS
  Lines,   \* what the next lines of the file may be: [text |-> pieces, cost |-> n]
  Budget   \* bound of the model: the cost of all lines of a file

ASSUME LinesAssumption == \A l \in Lines : l.text \in Seq([c : STRING, t : STRING])

VARIABLES
  budget,  \* what is left of it
  ret      \* what config_parse returns: "none" yet, 0 or -1

vars == <<tokenizerVars, parserVars, budget, ret>>

Init == TokenizerInit /\ ParserInit /\ budget = Budget /\ ret = "none"

Idle == yymajor = "none" /\ ret = "none" /\ stopped = "no"

\* The next line of the file, or its end.
ReadLine ==
  /\ Idle
  /\ \/ \E l \in Lines : l.cost <= budget /\ Line(l.text) /\ budget' = budget - l.cost
     \/ Close /\ UNCHANGED budget
  /\ UNCHANGED <<parserVars, ret>>

\* In config_tokenizer.
Tokenize == Idle /\ TokenizerStep /\ UNCHANGED <<parserVars, budget, ret>>

\* The token goes to the parser.  At the end of the file the tokenizer returns
\* as it does with a token: the parser is told of the end again and again.
Feed ==
  /\ Idle /\ ctx.ok /\ Returns
  /\ Call(IF tid = "none" THEN "$" ELSE tid, token)
  /\ Taken
  /\ UNCHANGED <<budget, ret>>

\* In configparser.
Parse == ParserStep /\ UNCHANGED <<tokenizerVars, budget, ret>>

\* After a failure of the parser there is one more token; it is thrown away, and
\* nobody is told of the failure.
Return ==
  /\ Idle
  /\ \/ tid = "error" /\ ret' = "-1" /\ UNCHANGED tokenizerVars
     \/ ~ctx.ok /\ Returns /\ ret' = "0" /\ Taken
  /\ UNCHANGED <<parserVars, budget>>

Next == ReadLine \/ Tokenize \/ Feed \/ Parse \/ Return

Spec == Init /\ [][Next]_vars

-----------------------------------------------------------------------------
(***************************************************************************)
(* Properties.                                                             *)
(***************************************************************************)
DataTypes == {"string", "integer", "array", "null"}
TypesOf(major) ==
  CASE major \in {"value", "expression", "aelement"} -> DataTypes
    [] major \in {"array", "aelements"} -> {"array", "null"}
    [] major = "key" -> {"buffer"}
    [] major = "stringop" -> {"buffer", "null"}
    [] major \in {"condlines", "condline", "cond_else"} -> {"config", "null"}
    [] major = "cond" -> {"cond"}
    [] Symbol[major] \in 1 .. YYERRORSYMBOL - 1 -> {"buffer"}
    [] OTHER -> {"none"}

\* The modes of the tokenizer, the stack of the parser with the member of the
\* union its symbols use, and the contexts have their types.
TypeOK ==
  /\ in_key \in BOOLEAN /\ in_brace \in Int /\ in_cond \in BOOLEAN
  /\ tid \in DOMAIN Symbol \cup {"none", "error"}
  /\ Len(yystack) <= YYSTACKDEPTH
  /\ \A i \in DOMAIN yystack :
       /\ yystack[i].stateno \in 0 .. YYNSTATE - 1
       /\ yystack[i].minor.type \in TypesOf(yystack[i].major)
  /\ yymajor \in DOMAIN Symbol \cup {"none"}
  /\ ctx.ok \in BOOLEAN /\ ctx.current \in DOMAIN ctx.dcs
  /\ stopped \in {"no", "exit", "fault"} /\ ret \in {"none", "0", "-1"}

Sound == ctx.ok /\ ~overflowed /\ stopped = "no"
Count(majors) == Cardinality({i \in DOMAIN yystack : yystack[i].major \in majors})

Open == Append(ctx.configs_stack, ctx.current)
InElse(d) == \E i \in DOMAIN ctx.dcs[d].key : ctx.dcs[d].key[i].comp[1] = "else_tmp_token"

\* A reduction finds what its action takes without a look: the right side of its
\* rule is on top of the stack (the packed tables and the grammar agree), and
\* nothing on the stack is NULL as long as ctx->ok.
StackFitsRule ==
  /\ ctx.ok => \A i \in DOMAIN yystack : ~IsNull(yystack[i].minor)
  /\ Busy =>
       LET act == Action
       IN
       /\ act # YY_NO_ACTION
       /\ \A r \in 0 .. YYNRULE - 1 : act = YYNSTATE + r =>
            LET rule == yyRuleName[r + 1]
                n    == Len(rule) - 1
            IN  /\ RuleInfo(r) = <<Symbol[rule[1]], n>>
                /\ Len(yystack) > n
                /\ [i \in 1 .. n |-> yystack[Len(yystack) - n + i].major] = Tail(rule)

\* Tokenizer, parser and context stack agree on where they are: configs_stack
\* has an entry for every block that is open in the parser; between two tokens
\* the tokenizer counts the parentheses that are open, and looks for the operator
\* of a condition exactly while the parser waits for it.
ModesAgree ==
  Sound =>
    /\ Len(ctx.configs_stack) = Count(Openers)
    /\ yymajor = "none" /\ tid = "none" =>
         /\ in_brace = Count({"LPARAN"}) - Count({"RPARAN"})
         /\ in_cond <=> \E i \in DOMAIN yystack : yystack[i].major = "DOLLAR"
              /\ \A j \in i .. Len(yystack) : yystack[j].major \notin Operators

\* context_ndx identifies a context, and the text of its key does, although the key
\* is given anew when an else block is joined to its condition.
Distinct ==
  /\ \A d, e \in All : d # e => ctx.dcs[d].context_ndx # ctx.dcs[e].context_ndx
  /\ \A d, e \in Shown(ctx) : d # e => KeyText(ctx.dcs[d].key) # KeyText(ctx.dcs[e].key)

\* What a context depends on, the block it lies in and the condition it is the
\* else of, was there before it: no condition depends on itself.
DependsOnEarlier ==
  \A d \in All : \A e \in {ctx.dcs[d].parent, ctx.dcs[d].prev} \ {NONE} :
    ctx.dcs[e].context_ndx < ctx.dcs[d].context_ndx

\* A block that is open lies in the block around it, if no else is around it.
LiesInItsBlock ==
  \A i \in 1 .. Len(Open) - 1 :
    Open[i + 1] = Global \/ InElse(Open[i + 1]) \/ ctx.dcs[Open[i + 1]].parent = Open[i]

\* The contexts form a tree that can be evaluated in the order of context_ndx,
\* whatever keys collide and whatever becomes of the index of all_configs.  As
\* long as neither happens, a block is only entered from the one it lies in.
ContextsFormTree ==
  /\ ctx.ok => Distinct /\ DependsOnEarlier
  /\ Sound /\ ctx.straight => LiesInItsBlock

Extends(new, old) ==
  IF new.type = "integer" \/ old.type = "integer" THEN TRUE ELSE IsPrefix(old.value, new.value)

\* A variable of a context whose index is in order keeps its content, unless the
\* file is refused: other lines only add to it, and no line takes it out of the
\* context.  A line that makes the index wrong hides variables, but destroys none.
ContentKept ==
  [][ctx'.ok => \A d \in DOMAIN ctx.dcs : ctx.dcs[d].lost = {} =>
       \A name \in DOMAIN ctx.dcs[d].value : \E new \in Elements(ctx'.dcs[d]) :
         new.key = name /\ Extends(new, ctx.dcs[d].value[name])]_vars

\* config_skip_comment asserts that it stands at a #: what is skipped in one go
\* is a comment.
SkipsOnlyComments ==
  [][Len(rest) - Len(rest') > 1 /\ tid' = "none" => At(0) = "#"]_vars

\* The parser is done with every token after finitely many steps.
TokenDigested == yymajor # "none" ~> (yymajor = "none" \/ stopped # "no")
=============================================================================
