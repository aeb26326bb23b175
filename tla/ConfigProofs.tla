---------------------------- MODULE ConfigProofs ----------------------------
(***************************************************************************)
(* Proofs about the reading of the configuration, for files of any length  *)
(* and any depth of the parser's stack.                                    *)
(*                                                                         *)
(* The first part is about the parser: its stack is a path through the     *)
(* automaton of the packed tables, so that what TLC evaluates of these     *)
(* tables (ConfigTables) says what is on the stack when a rule is reduced. *)
(*                                                                         *)
(* The second part is about the contexts: they form a tree, and tokenizer, *)
(* parser and configs_stack agree on where in it they are.  What is open   *)
(* is the sequence Open, configs_stack with the current context.  Each     *)
(* place of the parser's stack lies in one of the contexts that are open;  *)
(* how many openers of blocks are above it says in which.                  *)
(*                                                                         *)
(* The third part is about the values: what the tokenizer reads, what the  *)
(* stack and the contexts hold (DataInv), that a variable keeps what it    *)
(* was given, and what config_read makes of that, the options of the       *)
(* server and the list of modules (OptionsInv).                            *)
(***************************************************************************)
EXTENDS ConfigRead, SequenceTheorems, SetFacts

\* A sequence, of whatever there is in it.
IsSeq(s) == s \in Seq(ToSet(s))

-----------------------------------------------------------------------------
(***************************************************************************)
(* Sequences.                                                              *)
(***************************************************************************)
LEMMA AnySeq ==
  ASSUME NEW S, NEW s \in Seq(S)
  PROVE  IsSeq(s)
<1>1. s \in [1 .. Len(s) -> S] /\ Len(s) \in Nat
  BY LenProperties
<1>2. s \in [1 .. Len(s) -> ToSet(s)]
  BY <1>1 DEF ToSet
<1> QED
  BY <1>1, <1>2 DEF IsSeq

LEMMA SeqFacts ==
  ASSUME NEW s, IsSeq(s)
  PROVE  /\ Len(s) \in Nat /\ DOMAIN s = 1 .. Len(s)
         /\ s # <<>> <=> Len(s) >= 1
         /\ s # <<>> => Last(s) = s[Len(s)] /\ Len(s) \in DOMAIN s
<1>1. Len(s) \in Nat /\ DOMAIN s = 1 .. Len(s)
  BY LenProperties DEF IsSeq
<1>2. s # <<>> <=> Len(s) >= 1
  <2>1. CASE s = <<>>
    BY <2>1, EmptySeq
  <2>2. CASE Len(s) = 0
    BY <2>2, <1>1 DEF IsSeq
  <2> QED
    BY <1>1, <2>1, <2>2
<1> QED
  BY <1>1, <1>2 DEF Last

LEMMA AppendFacts ==
  ASSUME NEW s, IsSeq(s), NEW e
  PROVE  /\ IsSeq(Append(s, e)) /\ Append(s, e) # <<>>
         /\ Len(Append(s, e)) = Len(s) + 1
         /\ DOMAIN Append(s, e) = 1 .. Len(s) + 1
         /\ \A i \in 1 .. Len(s) : Append(s, e)[i] = s[i]
         /\ Append(s, e)[Len(s) + 1] = e
         /\ Last(Append(s, e)) = e
         /\ ToSet(Append(s, e)) = ToSet(s) \cup {e}
<1> DEFINE S == ToSet(s) \cup {e}
<1>1. s \in Seq(S) /\ e \in S
  <2>1. s \in [1 .. Len(s) -> ToSet(s)] /\ Len(s) \in Nat
    BY LenProperties DEF IsSeq
  <2>2. s \in [1 .. Len(s) -> S]
    BY <2>1
  <2> QED
    BY <2>1, <2>2
<1> HIDE DEF S
<1>2. /\ Append(s, e) \in Seq(S)
      /\ Append(s, e) # <<>>
      /\ Len(Append(s, e)) = Len(s) + 1
      /\ \A i \in 1 .. Len(s) : Append(s, e)[i] = s[i]
      /\ Append(s, e)[Len(s) + 1] = e
  BY <1>1, AppendProperties
<1>3. DOMAIN Append(s, e) = 1 .. Len(s) + 1 /\ IsSeq(Append(s, e))
  BY <1>2, LenProperties, AnySeq
<1>4. Last(Append(s, e)) = e
  BY <1>2 DEF Last
<1>5. ToSet(Append(s, e)) = ToSet(s) \cup {e}
  <2>1. DOMAIN s = 1 .. Len(s) /\ Len(s) \in Nat
    BY SeqFacts
  <2>2. \A i \in 1 .. Len(s) + 1 : i \in 1 .. Len(s) \/ i = Len(s) + 1
    BY <2>1
  <2>3. ASSUME NEW x PROVE x \in ToSet(Append(s, e)) <=> x \in ToSet(s) \cup {e}
    <3>1. x \in ToSet(Append(s, e)) <=> \E i \in 1 .. Len(s) + 1 : x = Append(s, e)[i]
      BY <1>3 DEF ToSet
    <3>2. x \in ToSet(s) <=> \E i \in 1 .. Len(s) : x = s[i]
      BY <2>1 DEF ToSet
    <3>3. \A i \in 1 .. Len(s) : i \in 1 .. Len(s) + 1
      BY <2>1
    <3>4. Len(s) + 1 \in 1 .. Len(s) + 1
      BY <2>1
    <3> QED
      BY <3>1, <3>2, <3>3, <3>4, <2>2, <1>2
  <2> QED
    BY <2>3
<1> QED
  BY <1>2, <1>3, <1>4, <1>5

LEMMA PrefixFacts ==
  ASSUME NEW s, IsSeq(s), NEW m \in 0 .. Len(s)
  PROVE  /\ IsSeq(SubSeq(s, 1, m))
         /\ Len(SubSeq(s, 1, m)) = m /\ DOMAIN SubSeq(s, 1, m) = 1 .. m
         /\ \A i \in 1 .. m : SubSeq(s, 1, m)[i] = s[i]
<1>1. Len(s) \in Nat /\ DOMAIN s = 1 .. Len(s) /\ m \in Nat /\ m <= Len(s)
  BY SeqFacts
<1>2. \A i \in 1 .. m : s[i] \in ToSet(s)
  BY <1>1 DEF ToSet
<1>3. /\ SubSeq(s, 1, m) \in Seq(ToSet(s))
      /\ Len(SubSeq(s, 1, m)) = IF 1 <= m THEN m - 1 + 1 ELSE 0
      /\ \A i \in 1 .. m - 1 + 1 : SubSeq(s, 1, m)[i] = s[1 + i - 1]
  BY <1>1, <1>2, SubSeqProperties
<1>4. Len(SubSeq(s, 1, m)) = m
  BY <1>1, <1>3
<1>5. \A i \in 1 .. m : SubSeq(s, 1, m)[i] = s[i]
  BY <1>1, <1>3
<1> QED
  BY <1>3, <1>4, <1>5, AnySeq, LenProperties

-----------------------------------------------------------------------------
(***************************************************************************)
(* The stack of the parser is a path through its automaton.                *)
(***************************************************************************)
Step(a, b) == [from |-> a.stateno, on |-> b.major, to |-> b.stateno]

Route(stack) ==
  /\ IsSeq(stack)
  /\ \A i \in DOMAIN stack : stack[i].stateno \in States
  /\ stack # <<>> => stack[1].stateno = 0
  /\ \A i \in 1 .. Len(stack) - 1 : Step(stack[i], stack[i + 1]) \in Edges

LEMMA EdgeFacts ==
  /\ \A e \in Edges : e.from \in States /\ e.to \in States /\ e.on \in Symbols
  /\ \A q \in States, X \in Symbols : Target(q, Symbol[X]) \in States =>
       [from |-> q, on |-> X, to |-> Target(q, Symbol[X])] \in Edges
<1>1. ASSUME NEW e \in Edges
      PROVE  e.from \in States /\ e.to \in States /\ e.on \in Symbols
  <2>1. PICK p \in States \X Symbols :
          e = [from |-> p[1], on |-> p[2], to |-> Follows(p)] /\ Follows(p) \in States
    BY DEF Edges
  <2> QED
    BY <2>1
<1>2. ASSUME NEW q \in States, NEW X \in Symbols, Target(q, Symbol[X]) \in States
      PROVE  [from |-> q, on |-> X, to |-> Target(q, Symbol[X])] \in Edges
  <2>1. <<q, X>> \in States \X Symbols /\ Follows(<<q, X>>) = Target(q, Symbol[X])
    BY DEF Follows
  <2> QED
    BY <2>1, <1>2 DEF Edges
<1> QED
  BY <1>1, <1>2

\* Where a rule is to be reduced, its right side is on top of the stack.
LEMMA HandleOnTop ==
  ASSUME NEW stack, Route(stack), stack # <<>>, NEW r \in Reduces(Last(stack).stateno)
  PROVE  /\ Len(stack) > Length(r)
         /\ \A k \in 0 .. Length(r) - 1 :
              stack[Len(stack) - k].major = Rule(r)[Length(r) + 1 - k]
         /\ Target(stack[Len(stack) - Length(r)].stateno, Symbol[Rule(r)[1]])
              \in States \cup {YY_ACCEPT_ACTION}
<1> DEFINE s == Last(stack).stateno
           n == Length(r)
           L == Len(stack)
           At0(k) == k < L /\ stack[L - k].stateno \in Below[k][s]
           Missed == {k \in 0 .. n : ~At0(k)}
<1>1. L \in Nat /\ L >= 1 /\ DOMAIN stack = 1 .. L /\ s = stack[L].stateno /\ s \in States
  BY SeqFacts DEF Route
<1>2. r \in 0 .. YYNRULE - 1 /\ n \in 0 .. MaxRule /\ MaxRule \in Nat /\ OnTop(r, s)
  BY <1>1, TablesFitGrammar DEF Reduces, MaxRule
<1>3. At0(0)
  BY <1>1, BelowUnfolds
<1>4. ASSUME NEW k \in 0 .. n - 1, At0(k)
      PROVE  /\ At0(k + 1)
             /\ stack[L - k].major = Rule(r)[n + 1 - k]
  <2> DEFINE q == stack[L - k].stateno
             i == L - k - 1
  <2>1. k \in Nat /\ k < L /\ q \in Below[k][s] /\ n \in Nat
    BY <1>1, <1>2, <1>4
  <2>2. q # 0 /\ \A e \in Edges : e.to = q => e.on = Rule(r)[n + 1 - k]
    BY <2>1, <1>2 DEF OnTop
  <2>3. stack[1].stateno = 0
    BY <1>1, SeqFacts DEF Route
  <2>4. L - k # 1
    BY <2>2, <2>3
  <2>5. i \in 1 .. L - 1 /\ i + 1 = L - k /\ k + 1 < L /\ L - (k + 1) = i
    <3>1. k \in Nat /\ k < L
      BY <2>1
    <3>2. L \in Nat
      BY <1>1
    <3> HIDE DEF L, q
    <3> QED
      BY <3>1, <3>2, <2>4
  <2>6. Step(stack[i], stack[i + 1]) \in Edges
    BY <2>5 DEF Route
  <2>7. Step(stack[i], stack[L - k]) \in Edges
    BY <2>5, <2>6
  <2>8. stack[L - k].major = Rule(r)[n + 1 - k]
    BY <2>2, <2>7 DEF Step
  <2>9. stack[i].stateno \in Prior(q)
    <3>1. Step(stack[i], stack[L - k]).to = q /\ Step(stack[i], stack[L - k]).from = stack[i].stateno
      BY DEF Step
    <3> HIDE DEF q
    <3> QED
      BY <2>7, <3>1 DEF Prior
  <2>10. Below[k + 1][s] = UNION {Prior(t) : t \in Below[k][s]}
    <3>1. k + 1 \in 1 .. MaxRule /\ (k + 1) - 1 = k
      BY <1>2, <2>1
    <3>2. Below[k + 1][s] = UNION {Prior(t) : t \in Below[(k + 1) - 1][s]}
      BY <3>1, <1>1, BelowUnfolds
    <3> QED
      BY <3>1, <3>2
  <2>11. stack[i].stateno \in Below[k + 1][s]
    BY <2>1, <2>9, <2>10
  <2> QED
    BY <2>5, <2>8, <2>11
<1>5. Missed = {}
  <2> SUFFICES ASSUME Missed # {} PROVE FALSE
    OBVIOUS
  <2>1. Missed \in SUBSET Nat
    OBVIOUS
  <2>2. PICK m \in Missed : \A k \in Missed : m <= k
    BY <2>1, LeastExists
  <2>3. m \in 0 .. n /\ ~At0(m) /\ n \in Nat
    BY <2>2, <1>2
  <2> HIDE DEF At0
  <2>4. m # 0
    BY <2>3, <1>3
  <2>5. m - 1 \in 0 .. n - 1 /\ m - 1 \in 0 .. n /\ (m - 1) + 1 = m /\ ~(m <= m - 1)
    BY <2>3, <2>4
  <2>6. At0(m - 1)
    BY <2>2, <2>5
  <2> QED
    BY <2>3, <2>5, <2>6, <1>4
<1>6. \A k \in 0 .. n : At0(k)
  BY <1>5
<1>7. n < L /\ stack[L - n].stateno \in Below[n][s]
  BY <1>6, <1>2
<1>8. \A k \in 0 .. n - 1 : stack[L - k].major = Rule(r)[n + 1 - k]
  <2> TAKE k \in 0 .. n - 1
  <2>1. k \in 0 .. n
    BY <1>2
  <2> QED
    BY <2>1, <1>6, <1>4
<1>9. Target(stack[L - n].stateno, Symbol[Rule(r)[1]]) \in States \cup {YY_ACCEPT_ACTION}
  BY <1>7, <1>2 DEF OnTop
<1> QED
  BY <1>1, <1>2, <1>7, <1>8, <1>9

\* A shorter stack is one, and so is a stack with one more step.
LEMMA PathPrefix ==
  ASSUME NEW stack, Route(stack), NEW m \in 1 .. Len(stack)
  PROVE  /\ Route(SubSeq(stack, 1, m)) /\ SubSeq(stack, 1, m) # <<>>
         /\ Last(SubSeq(stack, 1, m)) = stack[m]
<1>1. Len(stack) \in Nat /\ DOMAIN stack = 1 .. Len(stack)
  BY SeqFacts DEF Route
<1> DEFINE t == SubSeq(stack, 1, m)
<1>2. /\ IsSeq(t) /\ Len(t) = m /\ DOMAIN t = 1 .. m
      /\ \A i \in 1 .. m : t[i] = stack[i]
  BY <1>1, PrefixFacts DEF Route
<1> HIDE DEF t
<1>3. t # <<>> /\ Last(t) = stack[m]
  BY <1>1, <1>2, SeqFacts
<1>4. t[1] = stack[1] /\ stack # <<>>
  BY <1>1, <1>2, SeqFacts DEF Route
<1>5. \A i \in 1 .. Len(t) - 1 : t[i] = stack[i] /\ t[i + 1] = stack[i + 1] /\ i \in 1 .. Len(stack) - 1
  BY <1>1, <1>2
<1>6. \A i \in DOMAIN t : i \in DOMAIN stack /\ t[i] = stack[i]
  BY <1>1, <1>2
<1> QED
  BY <1>2, <1>3, <1>4, <1>5, <1>6 DEF Route, t

LEMMA PathAppend ==
  ASSUME NEW stack, Route(stack), stack # <<>>,
         NEW e, e.stateno \in States, Step(Last(stack), e) \in Edges
  PROVE  Route(Append(stack, e))
<1> DEFINE t == Append(stack, e)
           L == Len(stack)
<1>1. L \in Nat /\ L >= 1 /\ DOMAIN stack = 1 .. L /\ Last(stack) = stack[L]
  BY SeqFacts DEF Route
<1>2. /\ IsSeq(t) /\ t # <<>> /\ Len(t) = L + 1 /\ DOMAIN t = 1 .. L + 1
      /\ \A i \in 1 .. L : t[i] = stack[i]
      /\ t[L + 1] = e
  BY AppendFacts DEF Route
<1> HIDE DEF t
<1>3. \A i \in DOMAIN t : t[i].stateno \in States
  BY <1>1, <1>2 DEF Route
<1>4. t[1].stateno = 0
  BY <1>1, <1>2 DEF Route
<1>5. ASSUME NEW i \in 1 .. Len(t) - 1 PROVE Step(t[i], t[i + 1]) \in Edges
  <2>1. CASE i = L
    BY <2>1, <1>1, <1>2
  <2>2. CASE i # L
    <3>0. i \in 1 .. (L + 1) - 1
      BY <1>2
    <3>1. L \in Nat
      BY <1>1
    <3>2. i \in 1 .. L - 1 /\ i \in 1 .. L /\ i + 1 \in 1 .. L
      BY <3>0, <2>2, <3>1
    <3> QED
      BY <3>2, <1>2 DEF Route
  <2> QED
    BY <2>1, <2>2
<1> QED
  BY <1>2, <1>3, <1>4, <1>5 DEF Route, t

LEMMA EmptyRoute == Route(<<>>)
<1>1. IsSeq(<<>>) /\ Len(<<>>) = 0 /\ DOMAIN <<>> = {}
  <2>1. <<>> \in Seq({}) /\ Len(<<>>) = 0
    BY EmptySeq
  <2>2. IsSeq(<<>>)
    BY <2>1, AnySeq
  <2>3. DOMAIN <<>> = 1 .. 0
    BY <2>1, LenProperties
  <2> QED
    BY <2>1, <2>2, <2>3
<1> QED
  BY <1>1 DEF Route

-----------------------------------------------------------------------------
(***************************************************************************)
(* The invariant of the parser.                                            *)
(***************************************************************************)
TokensTyped ==
  /\ tid \in Tokens \cup {"none", "error"}
  /\ yymajor \in Tokens \cup {"none"}

\* The members of config_t.
Members == {"ok", "current", "configs_stack", "all_configs", "lost", "straight", "dcs"}
ConfigShape(c) == DOMAIN c = Members /\ c.ok \in BOOLEAN

NoNull(stack) == \A i \in DOMAIN stack : ~IsNull(stack[i].minor)

StackInv ==
  /\ TokensTyped
  /\ Route(yystack)
  /\ yymajor # "none" => yystack # <<>>
  /\ ~IsNull(yyminor)
  /\ ConfigShape(ctx)
  /\ ctx.ok => NoNull(yystack)

LEMMA TokenNames ==
  {"$", "EOL", "ASSIGN", "APPEND", "LKEY", "PLUS", "STRING", "INTEGER", "LPARAN", "RPARAN",
   "COMMA", "ARRAY_ASSIGN", "GLOBAL", "LCURLY", "RCURLY", "ELSE", "DOLLAR", "SRVVARNAME",
   "LBRACKET", "RBRACKET", "EQ", "MATCH", "NE", "NOMATCH", "INCLUDE", "INCLUDE_SHELL"}
    \subseteq Tokens
<1>1. /\ yyTokenName[1] = "$" /\ yyTokenName[2] = "EOL" /\ yyTokenName[3] = "ASSIGN"
      /\ yyTokenName[4] = "APPEND" /\ yyTokenName[5] = "LKEY" /\ yyTokenName[6] = "PLUS"
      /\ yyTokenName[7] = "STRING" /\ yyTokenName[8] = "INTEGER" /\ yyTokenName[9] = "LPARAN"
      /\ yyTokenName[10] = "RPARAN" /\ yyTokenName[11] = "COMMA"
      /\ yyTokenName[12] = "ARRAY_ASSIGN" /\ yyTokenName[13] = "GLOBAL"
  BY DEF yyTokenName
<1>2. /\ yyTokenName[14] = "LCURLY" /\ yyTokenName[15] = "RCURLY" /\ yyTokenName[16] = "ELSE"
      /\ yyTokenName[17] = "DOLLAR" /\ yyTokenName[18] = "SRVVARNAME"
      /\ yyTokenName[19] = "LBRACKET" /\ yyTokenName[20] = "RBRACKET" /\ yyTokenName[21] = "EQ"
      /\ yyTokenName[22] = "MATCH" /\ yyTokenName[23] = "NE" /\ yyTokenName[24] = "NOMATCH"
      /\ yyTokenName[25] = "INCLUDE" /\ yyTokenName[26] = "INCLUDE_SHELL"
  BY DEF yyTokenName
<1>3. \A i \in 1 .. 26 : yyTokenName[i] \in Tokens
  BY DEF Tokens, YYERRORSYMBOL
<1> QED
  BY <1>1, <1>2, <1>3

LEMMA SymbolFacts ==
  /\ Tokens \subseteq Symbols
  /\ \A q, X : X \in Tokens => Target(q, Symbol[X]) = ShiftAction(q, Symbol[X])
  /\ \A q, X : X \in Symbols \ Tokens => Target(q, Symbol[X]) = ReduceAction(q, Symbol[X])
<1>1. \A X \in Tokens : X \in Symbols /\ Symbol[X] < YYERRORSYMBOL
  BY SymbolsNumbered DEF YYERRORSYMBOL
<1>2. \A X \in Symbols \ Tokens : ~(Symbol[X] < YYERRORSYMBOL)
  BY SymbolsNumbered DEF YYERRORSYMBOL, YYNOCODE
<1> QED
  BY <1>1, <1>2 DEF Target

\* What is pushed on a stack is a step of the automaton, or the stack is given up.
LEMMA PushRoute ==
  ASSUME NEW stack, Route(stack), stack # <<>>, NEW X \in Symbols, NEW t \in States, NEW minor,
         t = Target(Last(stack).stateno, Symbol[X]), Push(stack, t, X, minor)
  PROVE  /\ \/ yystack' = <<>>
            \/ yystack' = Append(stack, [stateno |-> t, major |-> X, minor |-> minor])
         /\ Route(yystack')
<1> DEFINE e == [stateno |-> t, major |-> X, minor |-> minor]
<1>1. yystack' = <<>> \/ yystack' = Append(stack, e)
  BY DEF Push
<1>2. Last(stack).stateno \in States
  BY SeqFacts DEF Route
<1>3. Step(Last(stack), e) \in Edges
  BY <1>2, EdgeFacts DEF Step
<1>4. Route(Append(stack, e))
  BY <1>3, PathAppend
<1> QED
  BY <1>1, <1>4, EmptyRoute

LEMMA ReducingFacts ==
  ASSUME StackInv, NEW r \in 0 .. YYNRULE - 1, Reducing(r)
  PROVE  /\ yystack # <<>> /\ yymajor \in Tokens /\ r \in Reduces(Top.stateno)
         /\ Length(r) \in 0 .. MaxRule /\ Len(yystack) \in Nat
         /\ Len(yystack) > Length(r)
         /\ RuleInfo(r) = <<Symbol[Rule(r)[1]], Length(r)>>
         /\ Rule(r)[1] \in Symbols \ Tokens
<1>1. yymajor \in Tokens /\ yystack # <<>>
  BY DEF StackInv, TokensTyped, Reducing, Busy
<1>2. ShiftAction(Top.stateno, Symbol[yymajor]) = YYNSTATE + r
  BY DEF Reducing, Action
<1>3. r \in Reduces(Top.stateno)
  BY <1>1, <1>2 DEF Reduces
<1>4. Len(yystack) > Length(r)
  BY <1>1, <1>3, HandleOnTop DEF StackInv, Top
<1>5. Len(yystack) \in Nat
  BY SeqFacts DEF StackInv, Route
<1> QED
  BY <1>1, <1>3, <1>4, <1>5, TablesFitGrammar

\* A reduction puts the left side of its rule in the place of the right side.
LEMMA Reduced ==
  ASSUME StackInv, NEW r \in 0 .. YYNRULE - 1, Reducing(r), NEW minor, Becomes(r, minor)
  PROVE  /\ Route(Rest(r)) /\ Rest(r) # <<>>
         /\ \/ yystack' = <<>>
            \/ \E t \in States :
                 yystack' = Append(Rest(r), [stateno |-> t, major |-> Rule(r)[1], minor |-> minor])
         /\ Route(yystack')
         /\ yymajor' \in Tokens \cup {"none"} /\ (yymajor' # "none" => yystack' # <<>>)
         /\ ~IsNull(yyminor')
         /\ stopped' = stopped
<1> DEFINE n == Length(r)
           m == Len(yystack) - n
           lhs == Rule(r)[1]
           act == ReduceAction(Last(Rest(r)).stateno, Symbol[lhs])
<1>1. /\ yystack # <<>> /\ yymajor \in Tokens /\ r \in Reduces(Last(yystack).stateno)
      /\ RuleInfo(r) = <<Symbol[lhs], n>> /\ lhs \in Symbols \ Tokens
  BY ReducingFacts DEF Top
<1>2. m \in 1 .. Len(yystack)
  <2>1. n \in Nat /\ Len(yystack) \in Nat /\ Len(yystack) > n
    BY ReducingFacts DEF MaxRule
  <2> QED
    BY <2>1
<1>3. Rest(r) = SubSeq(yystack, 1, m)
  <2>1. RuleInfo(r)[2] = n
    BY <1>1
  <2> QED
    BY <2>1 DEF Rest
<1>4. Route(Rest(r)) /\ Rest(r) # <<>> /\ Last(Rest(r)) = yystack[m]
  BY <1>2, <1>3, PathPrefix DEF StackInv
<1>5. Target(yystack[m].stateno, Symbol[lhs]) \in States \cup {YY_ACCEPT_ACTION}
  BY <1>1, HandleOnTop DEF StackInv
<1>6. act = Target(Last(Rest(r)).stateno, Symbol[lhs]) /\ act \in States \cup {YY_ACCEPT_ACTION}
  BY <1>1, <1>4, <1>5, SymbolFacts
<1>7. Entry(yyTokenName, Symbol[lhs]) = lhs
  BY <1>1, SymbolsNumbered
<1>8. /\ IF act < YYNSTATE THEN Push(Rest(r), act, lhs, minor)
         ELSE /\ yystack' = IF act = YY_ACCEPT_ACTION THEN <<>> ELSE Rest(r)
              /\ UNCHANGED overflowed
      /\ IF yystack' = <<>> THEN yymajor' = "none" /\ yyminor' = Nothing
         ELSE UNCHANGED <<yymajor, yyminor>>
      /\ UNCHANGED stopped
  <2>1. RuleInfo(r)[1] = Symbol[lhs]
    BY <1>1
  <2> QED
    BY <2>1, <1>7 DEF Becomes
<1> HIDE DEF act
<1>11. ~IsNull(yyminor')
  <2>1. ~IsNull(Nothing)
    BY DEF Nothing, IsNull, Data
  <2> QED
    BY <1>8, <2>1 DEF StackInv
<1>9. CASE act < YYNSTATE
  <2>1. act \in States
    BY <1>6, <1>9 DEF YY_ACCEPT_ACTION, YYNSTATE, YYNRULE
  <2>2. /\ \/ yystack' = <<>>
           \/ yystack' = Append(Rest(r), [stateno |-> act, major |-> lhs, minor |-> minor])
        /\ Route(yystack')
    BY <1>1, <1>4, <1>6, <1>8, <1>9, <2>1, PushRoute
  <2> QED
    BY <1>1, <1>4, <1>8, <1>11, <2>1, <2>2
<1>10. CASE ~(act < YYNSTATE)
  <2>1. act = YY_ACCEPT_ACTION
    BY <1>6, <1>10 DEF States, YYNSTATE
  <2>2. yystack' = <<>>
    BY <2>1, <1>8, <1>10
  <2> QED
    BY <1>1, <1>4, <1>8, <1>11, <2>2, EmptyRoute
<1> QED
  BY <1>9, <1>10

LEMMA NoNullAppend ==
  ASSUME NEW b, Route(b), NoNull(b), NEW e, ~IsNull(e.minor)
  PROVE  NoNull(Append(b, e))
<1>1. Len(b) \in Nat
  BY SeqFacts DEF Route
<1>2. DOMAIN b = 1 .. Len(b)
  BY SeqFacts DEF Route
<1>3. /\ DOMAIN Append(b, e) = 1 .. Len(b) + 1
      /\ \A i \in 1 .. Len(b) : Append(b, e)[i] = b[i]
      /\ Append(b, e)[Len(b) + 1] = e
  BY AppendFacts DEF Route
<1>4. \A i \in 1 .. Len(b) + 1 : i \in 1 .. Len(b) \/ i = Len(b) + 1
  BY <1>1
<1> QED
  BY <1>2, <1>3, <1>4 DEF NoNull

LEMMA NoNullEmpty == NoNull(<<>>)
<1>1. DOMAIN <<>> = {}
  BY EmptyRoute, SeqFacts, EmptySeq DEF Route
<1> QED
  BY <1>1 DEF NoNull

\* What a rule takes from the stack.
LEMMA MspFacts ==
  ASSUME StackInv, NEW r \in 0 .. YYNRULE - 1, Reducing(r), NEW k \in Int, -Length(r) < k, k <= 0
  PROVE  /\ Len(yystack) + k \in DOMAIN yystack
         /\ yystack[Len(yystack) + k].major = Rule(r)[Length(r) + 1 + k]
         /\ ctx.ok => ~IsNull(Msp(k))
<1>1. Len(yystack) \in Nat /\ Length(r) \in Nat /\ Len(yystack) > Length(r)
  BY ReducingFacts DEF MaxRule
<1>2. Len(yystack) + k \in 1 .. Len(yystack)
  BY <1>1
<1>3. DOMAIN yystack = 1 .. Len(yystack)
  BY SeqFacts DEF StackInv, Route
<1>4. yystack # <<>> /\ r \in Reduces(Last(yystack).stateno)
  BY ReducingFacts DEF Top
<1>5. \A j \in 0 .. Length(r) - 1 :
        yystack[Len(yystack) - j].major = Rule(r)[Length(r) + 1 - j]
  BY <1>4, HandleOnTop DEF StackInv
<1>6. PICK j \in 0 .. Length(r) - 1 : j = -k
  BY <1>1
<1>7. Len(yystack) - j = Len(yystack) + k /\ Length(r) + 1 - j = Length(r) + 1 + k
  BY <1>1, <1>6
<1>8. yystack[Len(yystack) + k].major = Rule(r)[Length(r) + 1 + k]
  BY <1>5, <1>7
<1> QED
  BY <1>2, <1>3, <1>8 DEF StackInv, NoNull, Msp

\* A reduction keeps the invariant when it leaves the context whole, and puts NULL
\* on the stack only together with a failure.
LEMMA ReductionInv ==
  ASSUME StackInv, NEW r \in 0 .. YYNRULE - 1, Reducing(r), NEW minor, Becomes(r, minor),
         tid' = tid, ConfigShape(ctx'), ctx'.ok => ctx.ok /\ ~IsNull(minor)
  PROVE  StackInv'
<1>1. /\ Route(Rest(r)) /\ Rest(r) # <<>> /\ Route(yystack')
      /\ \/ yystack' = <<>>
         \/ \E t \in States :
              yystack' = Append(Rest(r), [stateno |-> t, major |-> Rule(r)[1], minor |-> minor])
      /\ yymajor' \in Tokens \cup {"none"} /\ (yymajor' # "none" => yystack' # <<>>)
      /\ ~IsNull(yyminor')
  BY Reduced
<1>2. ASSUME ctx'.ok PROVE NoNull(yystack')
  <2>1. NoNull(yystack) /\ ~IsNull(minor)
    BY <1>2 DEF StackInv
  <2>2. CASE yystack' = <<>>
    BY <2>2, NoNullEmpty
  <2>3. ASSUME NEW t \in States,
               yystack' = Append(Rest(r), [stateno |-> t, major |-> Rule(r)[1], minor |-> minor])
        PROVE  NoNull(yystack')
    <3>1. NoNull(Rest(r))
      <4> DEFINE m == Len(yystack) - Length(r)
      <4>1. Length(r) \in Nat /\ Len(yystack) \in Nat /\ Len(yystack) > Length(r)
        BY ReducingFacts DEF MaxRule
      <4>2. m \in 0 .. Len(yystack)
        BY <4>1
      <4>3. RuleInfo(r)[2] = Length(r)
        BY ReducingFacts
      <4>4. Rest(r) = SubSeq(yystack, 1, m)
        BY <4>3 DEF Rest
      <4> HIDE DEF m
      <4>5. DOMAIN Rest(r) = 1 .. m /\ \A i \in 1 .. m : Rest(r)[i] = yystack[i]
        BY <4>2, <4>4, PrefixFacts DEF StackInv, Route
      <4>6. DOMAIN yystack = 1 .. Len(yystack)
        BY SeqFacts DEF StackInv, Route
      <4>7. \A i \in 1 .. m : i \in 1 .. Len(yystack)
        BY <4>1, <4>2
      <4> QED
        BY <4>5, <4>6, <4>7, <2>1 DEF NoNull
    <3> DEFINE e == [stateno |-> t, major |-> Rule(r)[1], minor |-> minor]
    <3>2. ~IsNull(e.minor)
      BY <2>1
    <3> HIDE DEF e
    <3>3. NoNull(Append(Rest(r), e))
      BY <1>1, <3>1, <3>2, NoNullAppend
    <3> QED
      BY <2>3, <3>3 DEF e
  <2> QED
    BY <1>1, <2>2, <2>3
<1>3. tid' \in Tokens \cup {"none", "error"}
  BY DEF StackInv, TokensTyped
<1> QED
  BY <1>1, <1>2, <1>3 DEF StackInv, TokensTyped

-----------------------------------------------------------------------------
(***************************************************************************)
(* What the operations on the contexts keep.                               *)
(***************************************************************************)
Holds(c, ok, current, configs_stack, all_configs, dcs) ==
  /\ DOMAIN c = Members
  /\ c.ok = ok /\ c.current = current /\ c.configs_stack = configs_stack
  /\ c.all_configs = all_configs /\ c.dcs = dcs

LEMMA HoldsShape ==
  ASSUME NEW c, NEW ok \in BOOLEAN, NEW cu, NEW cs, NEW ac, NEW d, Holds(c, ok, cu, cs, ac, d)
  PROVE  ConfigShape(c) /\ c.ok = ok
BY DEF Holds, ConfigShape

LEMMA Changed ==
  ASSUME NEW c, DOMAIN c = Members
  PROVE  /\ \A v : Holds([c EXCEPT !.ok = v], v, c.current, c.configs_stack, c.all_configs, c.dcs)
         /\ \A v : Holds([c EXCEPT !.current = v], c.ok, v, c.configs_stack, c.all_configs, c.dcs)
         /\ \A v : Holds([c EXCEPT !.configs_stack = v], c.ok, c.current, v, c.all_configs, c.dcs)
         /\ \A v : Holds([c EXCEPT !.all_configs = v], c.ok, c.current, c.configs_stack, v, c.dcs)
         /\ \A v : Holds([c EXCEPT !.dcs = v], c.ok, c.current, c.configs_stack, c.all_configs, v)
         /\ \A v : Holds([c EXCEPT !.lost = v], c.ok, c.current, c.configs_stack, c.all_configs, c.dcs)
         /\ \A v : Holds([c EXCEPT !.straight = v], c.ok, c.current, c.configs_stack, c.all_configs, c.dcs)
<1>1. ASSUME NEW v
      PROVE  Holds([c EXCEPT !.ok = v], v, c.current, c.configs_stack, c.all_configs, c.dcs)
  BY DEF Holds, Members
<1>2. ASSUME NEW v
      PROVE  Holds([c EXCEPT !.current = v], c.ok, v, c.configs_stack, c.all_configs, c.dcs)
  BY DEF Holds, Members
<1>3. ASSUME NEW v
      PROVE  Holds([c EXCEPT !.configs_stack = v], c.ok, c.current, v, c.all_configs, c.dcs)
  BY DEF Holds, Members
<1>4. ASSUME NEW v
      PROVE  Holds([c EXCEPT !.all_configs = v], c.ok, c.current, c.configs_stack, v, c.dcs)
  BY DEF Holds, Members
<1>5. ASSUME NEW v
      PROVE  Holds([c EXCEPT !.dcs = v], c.ok, c.current, c.configs_stack, c.all_configs, v)
  BY DEF Holds, Members
<1>6. ASSUME NEW v
      PROVE  Holds([c EXCEPT !.lost = v], c.ok, c.current, c.configs_stack, c.all_configs, c.dcs)
  BY DEF Holds, Members
<1>7. ASSUME NEW v
      PROVE  Holds([c EXCEPT !.straight = v], c.ok, c.current, c.configs_stack, c.all_configs, c.dcs)
  BY DEF Holds, Members
<1> QED
  BY <1>1, <1>2, <1>3, <1>4, <1>5, <1>6, <1>7

LEMMA FailedFacts ==
  ASSUME NEW c, ConfigShape(c)
  PROVE  /\ Holds(Failed(c), FALSE, c.current, c.configs_stack, c.all_configs, c.dcs)
         /\ ConfigShape(Failed(c)) /\ ~Failed(c).ok
<1>1. Holds(Failed(c), FALSE, c.current, c.configs_stack, c.all_configs, c.dcs)
  BY Changed DEF Failed, ConfigShape
<1> QED
  BY <1>1, HoldsShape DEF Holds

\* A new index of all_configs leaves the rest as it is.  If the index may be wrong, it
\* misses some contexts, and of the others the text of each key differs.
LEMMA ResortedFacts ==
  ASSUME NEW c, ConfigShape(c), NEW harm, NEW e \in Resorted(c, harm)
  PROVE  /\ Holds(e, c.ok, c.current, c.configs_stack, c.all_configs, c.dcs)
         /\ ~harm => e.lost = {}
         /\ harm => \A d, f \in ToSet(c.all_configs) \ e.lost :
                      KeyText(c.dcs[d].key) = KeyText(c.dcs[f].key) => d = f
<1> DEFINE text(d) == KeyText(c.dcs[d].key)
           lost == IF harm THEN Hides(ToSet(c.all_configs), text) ELSE {{}}
<1>1. PICK l \in lost : e = [c EXCEPT !.lost = l, !.straight = c.straight /\ l = {}]
  BY DEF Resorted
<1>2. PICK f : f = [c EXCEPT !.lost = l]
  OBVIOUS
<1>3. Holds(f, c.ok, c.current, c.configs_stack, c.all_configs, c.dcs) /\ f.lost = l
  BY <1>2, Changed DEF ConfigShape, Members
<1>4. e = [f EXCEPT !.straight = c.straight /\ l = {}]
  BY <1>1, <1>2
<1>5. Holds(e, c.ok, c.current, c.configs_stack, c.all_configs, c.dcs) /\ e.lost = l
  <2>1. Holds(e, f.ok, f.current, f.configs_stack, f.all_configs, f.dcs)
    BY <1>3, <1>4, Changed DEF Holds
  <2>2. e.lost = l
    BY <1>1, <1>3 DEF ConfigShape, Members
  <2> QED
    BY <1>3, <2>1, <2>2 DEF Holds
<1>6. harm => l \in Hides(ToSet(c.all_configs), text)
  OBVIOUS
<1>7. harm => \A d, g \in ToSet(c.all_configs) \ l : text(d) = text(g) => d = g
  BY <1>6 DEF Hides
<1> QED
  BY <1>5, <1>7

LEMMA VariableOps ==
  ASSUME NEW c, ConfigShape(c), NEW name, NEW du
  PROVE  \A e \in Put(c, name, du) \cup Without(c, name) : ConfigShape(e) /\ e.ok = c.ok
<1>1. ASSUME NEW S, NEW harm, NEW e \in Reindexed(c, S, harm)
      PROVE  ConfigShape(e) /\ e.ok = c.ok
  <2>1. PICK l : e = [c EXCEPT !.dcs[c.current].value = Indexed(S \ l), !.dcs[c.current].lost = l]
    BY <1>1 DEF Reindexed
  <2> DEFINE ix == Indexed(S \ l)
             dcs == [c.dcs EXCEPT ![c.current].value = ix]
  <2>2. PICK f : f = [c EXCEPT !.dcs = dcs]
    OBVIOUS
  <2>3. Holds(f, c.ok, c.current, c.configs_stack, c.all_configs, dcs)
    BY <2>2, Changed DEF ConfigShape
  <2>4. e = [f EXCEPT !.dcs = [f.dcs EXCEPT ![c.current].lost = l]]
    BY <2>1, <2>2
  <2> HIDE DEF ix, dcs
  <2>5. Holds([f EXCEPT !.dcs = [f.dcs EXCEPT ![c.current].lost = l]],
              f.ok, f.current, f.configs_stack, f.all_configs, [f.dcs EXCEPT ![c.current].lost = l])
    BY <2>3, Changed DEF Holds
  <2> QED
    BY <2>3, <2>4, <2>5 DEF Holds, ConfigShape
<1>2. \A e \in Put(c, name, du) : \E S, harm : e \in Reindexed(c, S, harm)
  BY DEF Put
<1>3. \A e \in Without(c, name) : \E S, harm : e \in Reindexed(c, S, harm)
  BY DEF Without
<1> QED
  BY <1>1, <1>2, <1>3

LEMMA BlockOps ==
  ASSUME NEW c, ConfigShape(c)
  PROVE  /\ \A d : Holds(Entered(c, d),
                     c.ok, d, Append(c.configs_stack, c.current), c.all_configs, c.dcs)
         /\ \A dc : \A e \in PushNew(c, dc) : Holds(e,
              c.ok, Len(c.dcs) + 1, Append(c.configs_stack, c.current),
              Append(c.all_configs, Len(c.dcs) + 1),
              Append(c.dcs, [dc EXCEPT !.context_ndx = Len(c.all_configs), !.parent = c.current]))
         /\ Holds(Pop(c), c.ok, Last(c.configs_stack), Front(c.configs_stack), c.all_configs, c.dcs)
         /\ \A a, b : Holds(Linked(c, a, b), c.ok, c.current, c.configs_stack, c.all_configs,
                     [[c.dcs EXCEPT ![b].prev = a] EXCEPT ![a].next = b])
         /\ \A b, key : Holds(Renamed(c, b, key), c.ok, c.current, c.configs_stack,
                     Append(Extracted(c.all_configs, b), b), [c.dcs EXCEPT ![b].key = key])
<1>0. DOMAIN c = Members
  BY DEF ConfigShape
<1>1. ASSUME NEW e, DOMAIN e = Members, NEW d
      PROVE  Holds(Entered(e, d), e.ok, d, Append(e.configs_stack, e.current), e.all_configs, e.dcs)
  <2>1. Entered(e, d) =
          [[e EXCEPT !.configs_stack = Append(e.configs_stack, e.current)] EXCEPT !.current = d]
    BY DEF Entered
  <2>2. PICK f : f = [e EXCEPT !.configs_stack = Append(e.configs_stack, e.current)]
    OBVIOUS
  <2>3. Holds(f, e.ok, e.current, Append(e.configs_stack, e.current), e.all_configs, e.dcs)
    BY <1>1, <2>2, Changed
  <2>4. Holds([f EXCEPT !.current = d], f.ok, d, f.configs_stack, f.all_configs, f.dcs)
    BY <2>3, Changed DEF Holds
  <2> QED
    BY <2>1, <2>2, <2>3, <2>4 DEF Holds
<1>2. ASSUME NEW dc, NEW g \in PushNew(c, dc)
      PROVE  Holds(g,
              c.ok, Len(c.dcs) + 1, Append(c.configs_stack, c.current),
              Append(c.all_configs, Len(c.dcs) + 1),
              Append(c.dcs, [dc EXCEPT !.context_ndx = Len(c.all_configs), !.parent = c.current]))
  <2> DEFINE d == Len(c.dcs) + 1
             dcs == Append(c.dcs, [dc EXCEPT !.context_ndx = Len(c.all_configs), !.parent = c.current])
             ac == Append(c.all_configs, d)
  <2>1. \E h \in Resorted([[c EXCEPT !.dcs = dcs] EXCEPT !.all_configs = ac], c.lost # {}) :
          g = Entered(h, d)
    BY <1>2 DEF PushNew
  <2> HIDE DEF d, dcs, ac
  <2>2. PICK f : f = [c EXCEPT !.dcs = dcs]
    OBVIOUS
  <2>3. Holds(f, c.ok, c.current, c.configs_stack, c.all_configs, dcs)
    BY <1>0, <2>2, Changed
  <2>4. PICK e : e = [f EXCEPT !.all_configs = ac]
    OBVIOUS
  <2>5. Holds(e, f.ok, f.current, f.configs_stack, ac, f.dcs)
    BY <2>3, <2>4, Changed DEF Holds
  <2>6. PICK h \in Resorted(e, c.lost # {}) : g = Entered(h, d)
    BY <2>1, <2>2, <2>4
  <2>7. ConfigShape(e)
    BY <2>3, <2>5 DEF Holds, ConfigShape
  <2>8. Holds(h, e.ok, e.current, e.configs_stack, e.all_configs, e.dcs)
    BY <2>7, ResortedFacts
  <2>9. Holds(Entered(h, d), h.ok, d, Append(h.configs_stack, h.current), h.all_configs, h.dcs)
    BY <1>1, <2>8 DEF Holds
  <2> QED
    BY <2>3, <2>5, <2>6, <2>8, <2>9 DEF Holds, d, dcs, ac
<1>3. Holds(Pop(c), c.ok, Last(c.configs_stack), Front(c.configs_stack), c.all_configs, c.dcs)
  <2>1. Pop(c) = [[c EXCEPT !.current = Last(c.configs_stack)]
                     EXCEPT !.configs_stack = Front(c.configs_stack)]
    BY <1>0 DEF Pop, Members
  <2>2. PICK f : f = [c EXCEPT !.current = Last(c.configs_stack)]
    OBVIOUS
  <2>3. Holds(f, c.ok, Last(c.configs_stack), c.configs_stack, c.all_configs, c.dcs)
    BY <1>0, <2>2, Changed
  <2>4. Holds([f EXCEPT !.configs_stack = Front(c.configs_stack)],
              f.ok, f.current, Front(c.configs_stack), f.all_configs, f.dcs)
    BY <2>3, Changed DEF Holds
  <2> QED
    BY <2>1, <2>2, <2>3, <2>4 DEF Holds
<1>4. ASSUME NEW a, NEW b
      PROVE  Holds(Linked(c, a, b), c.ok, c.current, c.configs_stack, c.all_configs,
                     [[c.dcs EXCEPT ![b].prev = a] EXCEPT ![a].next = b])
  <2>1. PICK f : f = [c EXCEPT !.dcs = [c.dcs EXCEPT ![b].prev = a]]
    OBVIOUS
  <2>2. Holds(f, c.ok, c.current, c.configs_stack, c.all_configs, [c.dcs EXCEPT ![b].prev = a])
    BY <1>0, <2>1, Changed
  <2>3. Linked(c, a, b) = [f EXCEPT !.dcs = [f.dcs EXCEPT ![a].next = b]]
    BY <2>1 DEF Linked
  <2>4. Holds([f EXCEPT !.dcs = [f.dcs EXCEPT ![a].next = b]],
              f.ok, f.current, f.configs_stack, f.all_configs, [f.dcs EXCEPT ![a].next = b])
    BY <2>2, Changed DEF Holds
  <2> QED
    BY <2>2, <2>3, <2>4 DEF Holds
<1>5. ASSUME NEW b, NEW key
      PROVE  Holds(Renamed(c, b, key), c.ok, c.current, c.configs_stack,
                     Append(Extracted(c.all_configs, b), b), [c.dcs EXCEPT ![b].key = key])
  <2>1. PICK f : f = [c EXCEPT !.all_configs = Append(Extracted(c.all_configs, b), b)]
    OBVIOUS
  <2>2. Holds(f, c.ok, c.current, c.configs_stack, Append(Extracted(c.all_configs, b), b), c.dcs)
    BY <1>0, <2>1, Changed
  <2>3. Renamed(c, b, key) = [f EXCEPT !.dcs = [f.dcs EXCEPT ![b].key = key]]
    BY <2>1 DEF Renamed
  <2>4. Holds([f EXCEPT !.dcs = [f.dcs EXCEPT ![b].key = key]],
              f.ok, f.current, f.configs_stack, f.all_configs, [f.dcs EXCEPT ![b].key = key])
    BY <2>2, Changed DEF Holds
  <2> QED
    BY <2>2, <2>3, <2>4 DEF Holds
<1> QED
  BY <1>0, <1>1, <1>2, <1>3, <1>4, <1>5, Zenon

\* Going into a context changes neither the contexts nor their values.
LEMMA EnteredOps ==
  ASSUME NEW c, ConfigShape(c), NEW d, NEW e, e = Entered(c, d)
  PROVE  e.ok = c.ok /\ e.dcs = c.dcs /\ e.all_configs = c.all_configs
<1>1. Holds(e, c.ok, d, Append(c.configs_stack, c.current), c.all_configs, c.dcs)
  BY BlockOps, Zenon
<1> QED
  BY <1>1 DEF Holds

-----------------------------------------------------------------------------
(***************************************************************************)
(* The steps of the parser keep its invariant.                             *)
(***************************************************************************)
LEMMA Lengths ==
  /\ \A r \in {11, 13, 14, 15, 16, 17, 22, 23, 40} : Length(r) = 1
  /\ \A r \in {12, 19, 20} : Length(r) = 3
  /\ Length(21) = 2
<1>1. \A r \in 0 .. YYNRULE - 1 : RuleInfo(r)[2] = Length(r)
  BY TablesFitGrammar
<1>2. /\ RuleInfo(11)[2] = 1 /\ RuleInfo(13)[2] = 1 /\ RuleInfo(14)[2] = 1
      /\ RuleInfo(15)[2] = 1 /\ RuleInfo(16)[2] = 1 /\ RuleInfo(17)[2] = 1
      /\ RuleInfo(22)[2] = 1 /\ RuleInfo(23)[2] = 1 /\ RuleInfo(40)[2] = 1
  BY DEF RuleInfo, Entry, yyRuleInfo
<1>3. /\ RuleInfo(12)[2] = 3 /\ RuleInfo(19)[2] = 3 /\ RuleInfo(20)[2] = 3
      /\ RuleInfo(21)[2] = 2
  BY DEF RuleInfo, Entry, yyRuleInfo
<1> QED
  BY <1>1, <1>2, <1>3 DEF YYNRULE

LEMMA DataFacts ==
  /\ \A t, k, v : IsNull(Data(t, k, v)) <=> t = "null"
  /\ ~IsNull(Nothing) /\ IsNull(NULL)
  /\ \A v : ~IsNull(StringData(v)) /\ ~IsNull(IntegerData(v)) /\ ~IsNull(ArrayData(v))
  /\ \A v : ~IsNull(Buffer(v)) /\ ~IsNull(ConfigAt(v))
BY DEF IsNull, Data, Nothing, NULL, StringData, IntegerData, ArrayData, Buffer, ConfigAt

LEMMA ShiftInv ==
  ASSUME StackInv, Shift, tid' = tid
  PROVE  StackInv'
<1>1. yymajor \in Tokens /\ yystack # <<>> /\ Route(yystack)
  BY DEF StackInv, TokensTyped, Shift, Busy
<1>2. Action \in 0 .. YY_ERROR_ACTION /\ Action < YYNSTATE
  <2>1. Top.stateno \in States
    BY <1>1, SeqFacts DEF Route, Top
  <2> QED
    BY <1>1, <2>1, TablesFitGrammar DEF Action, Shift
<1>3. Action \in States
  BY <1>2 DEF States, YYNSTATE, YY_ERROR_ACTION
<1>4. Action = Target(Last(yystack).stateno, Symbol[yymajor]) /\ yymajor \in Symbols
  BY <1>1, SymbolFacts DEF Action, Top
<1> DEFINE e == [stateno |-> Action, major |-> yymajor, minor |-> yyminor]
<1>5. Route(yystack') /\ (yystack' = <<>> \/ yystack' = Append(yystack, e))
  BY <1>1, <1>3, <1>4, PushRoute DEF Shift
<1>6. ctx' = ctx /\ yymajor' = "none" /\ yyminor' = Nothing
  BY DEF Shift
<1>7. ~IsNull(e.minor)
  BY DEF StackInv
<1> HIDE DEF e
<1>8. ctx.ok => NoNull(yystack')
  BY <1>1, <1>5, <1>7, NoNullAppend, NoNullEmpty DEF StackInv
<1> QED
  BY <1>5, <1>6, <1>8, DataFacts DEF StackInv, TokensTyped

LEMMA SyntaxErrorInv ==
  ASSUME StackInv, SyntaxError, tid' = tid
  PROVE  StackInv'
<1>1. yystack' = <<>> /\ yymajor' = "none" /\ yyminor' = Nothing /\ ctx' = Failed(ctx)
  BY DEF SyntaxError
<1>2. ConfigShape(ctx') /\ ~ctx'.ok
  BY <1>1, FailedFacts DEF StackInv
<1> QED
  BY <1>1, <1>2, EmptyRoute, DataFacts DEF StackInv, TokensTyped

\* The reductions, one after the other: what matters is what they push, and
\* whether they fail.
LEMMA ExpressionInv ==
  ASSUME StackInv, tid' = tid,
         \/ Structure \/ PassOn \/ Assign \/ AppendTo \/ Key \/ Plus \/ Variable
         \/ Literal \/ Number \/ NextElement \/ FirstElement \/ NamedElement \/ StringOp
         \/ Include
  PROVE  StackInv'
<1>0. /\ ConfigShape(ctx) /\ (ctx.ok => NoNull(yystack))
      /\ ConfigShape(Failed(ctx)) /\ ~Failed(ctx).ok
  BY FailedFacts DEF StackInv
<1>r. 0 .. 42 = 0 .. YYNRULE - 1
  BY DEF YYNRULE
<1>1. CASE Structure
  <2>1. PICK r \in 0 .. 8 \cup {25, 26} : Reducing(r) /\ Becomes(r, Nothing) /\ ctx' = ctx
    BY <1>1 DEF Structure
  <2>2. r \in 0 .. YYNRULE - 1
    BY DEF YYNRULE
  <2> QED
    BY <2>1, <2>2, <1>0, DataFacts, ReductionInv
<1>2. CASE PassOn
  <2>1. \/ \E r \in {13, 23, 31} : Reducing(r) /\ Becomes(r, Msp(0)) /\ ctx' = ctx
        \/ \E r \in {19, 21} : Reducing(r) /\ Becomes(r, Msp(-1)) /\ ctx' = ctx
    BY <1>2 DEF PassOn
  <2>2. ASSUME NEW r \in {13, 23, 31}, Reducing(r), Becomes(r, Msp(0)), ctx' = ctx
        PROVE  StackInv'
    <3>1. r \in 0 .. YYNRULE - 1
      BY DEF YYNRULE
    <3>2. Length(r) = 1
      <4>1. Length(31) = 1
        BY TablesFitGrammar DEF RuleInfo, Entry, yyRuleInfo, YYNRULE
      <4> QED
        BY <4>1, Lengths
    <3>3. ctx.ok => ~IsNull(Msp(0))
      BY <3>1, <3>2, <2>2, MspFacts
    <3> QED
      BY <3>1, <3>3, <2>2, <1>0, ReductionInv
  <2>3. ASSUME NEW r \in {19, 21}, Reducing(r), Becomes(r, Msp(-1)), ctx' = ctx
        PROVE  StackInv'
    <3>1. r \in 0 .. YYNRULE - 1
      BY DEF YYNRULE
    <3>2. Length(r) \in {2, 3}
      BY Lengths
    <3>3. ctx.ok => ~IsNull(Msp(-1))
      BY <3>1, <3>2, <2>3, MspFacts
    <3> QED
      BY <3>1, <3>3, <2>3, <1>0, ReductionInv
  <2> QED
    BY <2>1, <2>2, <2>3
<1>3. CASE Assign
  <2>1. Reducing(9) /\ Becomes(9, Nothing)
    BY <1>3 DEF Assign
  <2>2. \/ ctx' = ctx \/ ctx' = Failed(ctx)
        \/ \E name, du : ctx' \in Put(ctx, name, du)
    BY <1>3 DEF Assign, PutNew
  <2>3. ConfigShape(ctx') /\ (ctx'.ok => ctx.ok)
    BY <2>2, <1>0, VariableOps
  <2>4. 9 \in 0 .. YYNRULE - 1
    BY DEF YYNRULE
  <2> QED
    BY <2>1, <2>3, <2>4, DataFacts, ReductionInv
<1>4. CASE AppendTo
  <2>1. Reducing(10) /\ Becomes(10, Nothing)
    BY <1>4 DEF AppendTo
  <2>2. \/ ctx' = ctx \/ ctx' = Failed(ctx)
        \/ \E name, du : ctx' \in Put(ctx, name, du)
        \/ \E name : \E c \in Without(ctx, name) : ctx' = Failed(c)
    <3> DEFINE name == Msp(-2).value
               old == GetVariable(ctx, name)
               sum == Merge(old, Msp(0))
    <3>1. IF ~ctx.ok THEN UNCHANGED ctx
          ELSE IF IsEnv(name) THEN ctx' = Failed(ctx)
          ELSE IF IsNull(old) THEN \E n, du : ctx' \in Put(ctx, n, du)
          ELSE IF IsNull(sum) THEN \E c \in Without(ctx, name) : ctx' = Failed(c)
          ELSE ctx' \in Put(ctx, name, sum)
      BY <1>4 DEF AppendTo, PutNew
    <3> HIDE DEF name, old, sum
    <3> QED
      BY <3>1
  <2>3. ConfigShape(ctx') /\ (ctx'.ok => ctx.ok)
    <3>1. ASSUME NEW name, NEW c \in Without(ctx, name), ctx' = Failed(c)
          PROVE  ConfigShape(ctx') /\ ~ctx'.ok
      <4>1. ConfigShape(c)
        BY <1>0, <3>1, VariableOps
      <4> QED
        BY <3>1, <4>1, FailedFacts
    <3>2. ASSUME NEW name, NEW du, ctx' \in Put(ctx, name, du)
          PROVE  ConfigShape(ctx') /\ (ctx'.ok => ctx.ok)
      BY <3>2, <1>0, VariableOps
    <3> QED
      BY <2>2, <3>1, <3>2, <1>0
  <2>4. 10 \in 0 .. YYNRULE - 1
    BY DEF YYNRULE
  <2> QED
    BY <2>1, <2>3, <2>4, DataFacts, ReductionInv
<1>5. CASE Key
  <2>1. Reducing(11) /\ ctx' = ctx /\ \E v : Becomes(11, Buffer(v))
    BY <1>5 DEF Key
  <2>2. 11 \in 0 .. YYNRULE - 1
    BY DEF YYNRULE
  <2> QED
    BY <2>1, <2>2, <1>0, DataFacts, ReductionInv
<1>6. CASE Plus
  <2>1. Reducing(12) /\ \E sum : Becomes(12, sum) /\ ctx' = IF IsNull(sum) THEN Failed(ctx) ELSE ctx
    BY <1>6 DEF Plus
  <2>2. 12 \in 0 .. YYNRULE - 1
    BY DEF YYNRULE
  <2>3. PICK sum : Becomes(12, sum) /\ ctx' = IF IsNull(sum) THEN Failed(ctx) ELSE ctx
    BY <2>1
  <2>4. ConfigShape(ctx') /\ (ctx'.ok => ctx.ok /\ ~IsNull(sum))
    BY <2>3, <1>0
  <2> QED
    BY <2>1, <2>2, <2>3, <2>4, ReductionInv
<1>7. CASE Variable
  <2>1. Reducing(14) /\ \E found : Becomes(14, found) /\ ctx' = IF ~IsNull(found) THEN ctx ELSE Failed(ctx)
    BY <1>7 DEF Variable, KnownValue
  <2>2. 14 \in 0 .. YYNRULE - 1
    BY DEF YYNRULE
  <2>3. PICK found : Becomes(14, found) /\ ctx' = IF ~IsNull(found) THEN ctx ELSE Failed(ctx)
    BY <2>1
  <2>4. ConfigShape(ctx') /\ (ctx'.ok => ctx.ok /\ ~IsNull(found))
    BY <2>3, <1>0
  <2> QED
    BY <2>1, <2>2, <2>3, <2>4, ReductionInv
<1>8. CASE Literal
  <2>1. /\ ctx' = ctx
        /\ \E r \in {15, 17, 18} : Reducing(r) /\
             \E v : Becomes(r, StringData(v)) \/ Becomes(r, ArrayData(v))
    BY <1>8 DEF Literal
  <2>2. 15 \in 0 .. YYNRULE - 1 /\ 17 \in 0 .. YYNRULE - 1 /\ 18 \in 0 .. YYNRULE - 1
    BY DEF YYNRULE
  <2> QED
    BY <2>1, <2>2, <1>0, DataFacts, ReductionInv
<1>9. CASE Number
  <2>1. /\ Reducing(16) /\ ctx' \in {ctx, Failed(ctx)}
        /\ \E v : Becomes(16, IntegerData(v))
    BY <1>9 DEF Number
  <2>2. 16 \in 0 .. YYNRULE - 1
    BY DEF YYNRULE
  <2>3. ConfigShape(ctx') /\ (ctx'.ok => ctx.ok)
    BY <2>1, <1>0
  <2> QED
    BY <2>1, <2>2, <2>3, DataFacts, ReductionInv
<1>10. CASE NextElement
  <2>1. /\ Reducing(20)
        /\ \/ ~ctx.ok /\ ctx' = ctx /\ Becomes(20, NULL)
           \/ ctx' = ctx /\ \E v : Becomes(20, ArrayData(v))
           \/ ctx' = Failed(ctx) /\ Becomes(20, Msp(-2))
    BY <1>10 DEF NextElement
  <2>2. 20 \in 0 .. YYNRULE - 1
    BY DEF YYNRULE
  <2>3. CASE ~ctx.ok /\ ctx' = ctx /\ Becomes(20, NULL)
    BY <2>1, <2>2, <2>3, <1>0, ReductionInv
  <2>4. CASE ctx' = ctx /\ \E v : Becomes(20, ArrayData(v))
    BY <2>1, <2>2, <2>4, <1>0, DataFacts, ReductionInv
  <2>5. CASE ctx' = Failed(ctx) /\ Becomes(20, Msp(-2))
    BY <2>1, <2>2, <2>5, <1>0, ReductionInv
  <2> QED
    BY <2>1, <2>3, <2>4, <2>5
<1>11. CASE FirstElement
  <2>1. /\ Reducing(22) /\ ctx' = ctx
        /\ \/ ctx.ok /\ \E v : Becomes(22, ArrayData(v))
           \/ ~ctx.ok /\ Becomes(22, NULL)
    BY <1>11 DEF FirstElement
  <2>2. 22 \in 0 .. YYNRULE - 1
    BY DEF YYNRULE
  <2> QED
    BY <2>1, <2>2, <1>0, DataFacts, ReductionInv
<1>12. CASE NamedElement
  <2>1. /\ Reducing(24) /\ ctx' = ctx
        /\ \/ ctx.ok /\ Becomes(24, Data(Msp(0).type, Msp(-2).value, Msp(0).value))
           \/ ~ctx.ok /\ Becomes(24, NULL)
    BY <1>12 DEF NamedElement
  <2>2. 24 \in 0 .. YYNRULE - 1
    BY DEF YYNRULE
  <2>3. ctx.ok => ~IsNull(Msp(0))
    <3>1. Length(24) = 3
      BY TablesFitGrammar DEF RuleInfo, Entry, yyRuleInfo, YYNRULE
    <3> QED
      BY <3>1, <2>1, <2>2, MspFacts
  <2>4. ctx.ok => ~IsNull(Data(Msp(0).type, Msp(-2).value, Msp(0).value))
    BY <2>3, DataFacts DEF IsNull
  <2> QED
    BY <2>1, <2>2, <2>4, <1>0, ReductionInv
<1>13. CASE StringOp
  <2>1. /\ Reducing(40)
        /\ \/ ctx' = ctx /\ \E v : Becomes(40, Buffer(v))
           \/ ctx' = Failed(ctx) /\ Becomes(40, NULL)
    BY <1>13 DEF StringOp
  <2>2. 40 \in 0 .. YYNRULE - 1
    BY DEF YYNRULE
  <2> QED
    BY <2>1, <2>2, <1>0, DataFacts, ReductionInv
<1>14. CASE Include
  <2>1. PICK r \in {41, 42} : /\ Reducing(r) /\ Becomes(r, Nothing)
                              /\ ctx' = ctx \/ ctx' = Failed(ctx)
    BY <1>14 DEF Include
  <2>2. r \in 0 .. YYNRULE - 1
    BY DEF YYNRULE
  <2>3. ConfigShape(ctx') /\ (ctx'.ok => ctx.ok)
    BY <2>1, <1>0
  <2> QED
    BY <2>1, <2>2, <2>3, DataFacts, ReductionInv
<1> QED
  BY <1>1, <1>2, <1>3, <1>4, <1>5, <1>6, <1>7, <1>8, <1>9, <1>10, <1>11, <1>12, <1>13, <1>14

LEMMA BlockInv ==
  ASSUME StackInv, tid' = tid,
         \/ OpenGlobal \/ CloseGlobal \/ Operator \/ OpenCondition \/ OpenElse
         \/ CloseBlock \/ ElseCondition \/ ElseBlock
  PROVE  StackInv'
<1>0. /\ ConfigShape(ctx) /\ (ctx.ok => NoNull(yystack)) /\ ctx.ok \in BOOLEAN
      /\ ConfigShape(Failed(ctx)) /\ ~Failed(ctx).ok
  BY FailedFacts DEF StackInv, ConfigShape
<1>b. /\ \A d : ConfigShape(Entered(ctx, d)) /\ Entered(ctx, d).ok = ctx.ok
      /\ \A dc : \A e \in PushNew(ctx, dc) : ConfigShape(e) /\ e.ok = ctx.ok
      /\ ConfigShape(Pop(ctx)) /\ Pop(ctx).ok = ctx.ok
  <2>1. ASSUME NEW d PROVE ConfigShape(Entered(ctx, d)) /\ Entered(ctx, d).ok = ctx.ok
    <3>1. Holds(Entered(ctx, d),
                ctx.ok, d, Append(ctx.configs_stack, ctx.current), ctx.all_configs, ctx.dcs)
      BY <1>0, BlockOps, Zenon
    <3> QED
      BY <3>1, <1>0, HoldsShape
  <2>2. ASSUME NEW dc, NEW e \in PushNew(ctx, dc) PROVE ConfigShape(e) /\ e.ok = ctx.ok
    <3>1. \E cu, cs, ac, d : Holds(e, ctx.ok, cu, cs, ac, d)
      BY <1>0, BlockOps, Zenon
    <3> QED
      BY <3>1, <1>0, HoldsShape
  <2>3. ConfigShape(Pop(ctx)) /\ Pop(ctx).ok = ctx.ok
    <3>1. \E cu, cs, ac, d : Holds(Pop(ctx), ctx.ok, cu, cs, ac, d)
      BY <1>0, BlockOps, Zenon
    <3> QED
      BY <3>1, <1>0, HoldsShape
  <2> QED
    BY <2>1, <2>2, <2>3
<1>l. ASSUME NEW c, ConfigShape(c), NEW a, NEW b, NEW key
      PROVE  /\ ConfigShape(Linked(c, a, b)) /\ Linked(c, a, b).ok = c.ok
             /\ ConfigShape(Renamed(c, b, key)) /\ Renamed(c, b, key).ok = c.ok
  <2>1. c.ok \in BOOLEAN
    BY <1>l DEF ConfigShape
  <2>2. \E cu, cs, ac, d : Holds(Linked(c, a, b), c.ok, cu, cs, ac, d)
    BY <1>l, BlockOps, Zenon
  <2>3. \E cu, cs, ac, d : Holds(Renamed(c, b, key), c.ok, cu, cs, ac, d)
    BY <1>l, BlockOps, Zenon
  <2> QED
    BY <2>1, <2>2, <2>3, HoldsShape
<1>1. CASE OpenGlobal
  <2>1. Reducing(27) /\ Becomes(27, Nothing) /\ ctx' = Entered(ctx, Global)
    BY <1>1 DEF OpenGlobal
  <2>2. 27 \in 0 .. YYNRULE - 1
    BY DEF YYNRULE
  <2> QED
    BY <2>1, <2>2, <1>b, DataFacts, ReductionInv
<1>2. CASE CloseGlobal
  <2>1. Reducing(28) /\ Becomes(28, Nothing) /\ ctx' = Pop(ctx)
    BY <1>2 DEF CloseGlobal
  <2>2. 28 \in 0 .. YYNRULE - 1
    BY DEF YYNRULE
  <2> QED
    BY <2>1, <2>2, <1>b, DataFacts, ReductionInv
<1>3. CASE Operator
  <2>1. PICK r \in 36 .. 39 : Reducing(r) /\ ctx' = ctx /\ \E v : Becomes(r, Data("cond", <<>>, v))
    BY <1>3 DEF Operator
  <2>2. r \in 0 .. YYNRULE - 1
    BY DEF YYNRULE
  <2> QED
    BY <2>1, <2>2, <1>0, DataFacts, ReductionInv
<1>4. CASE OpenCondition
  <2>1. /\ Reducing(34) /\ Becomes(34, Nothing)
        /\ \/ \E d, v : ctx' = [Entered(ctx, d) EXCEPT !.straight = v]
           \/ \E dc : ctx' \in PushNew(ctx, dc)
           \/ ctx' = Failed(ctx)
    <3>1. ASSUME NEW d, NEW v, ctx' = [Entered(ctx, d) EXCEPT !.straight = Entered(ctx, d).straight /\ v]
          PROVE  \E f, w : ctx' = [Entered(ctx, f) EXCEPT !.straight = w]
      BY <3>1
    <3> QED
      BY <1>4, <3>1 DEF OpenCondition
  <2>2. 34 \in 0 .. YYNRULE - 1
    BY DEF YYNRULE
  <2>3. ConfigShape(ctx') /\ (ctx'.ok => ctx.ok)
    <3>1. ASSUME NEW c, ConfigShape(c), NEW v
          PROVE  ConfigShape([c EXCEPT !.straight = v]) /\ [c EXCEPT !.straight = v].ok = c.ok
      BY <3>1, Changed DEF ConfigShape, Holds
    <3>2. ASSUME NEW d, NEW v, ctx' = [Entered(ctx, d) EXCEPT !.straight = v]
          PROVE  ConfigShape(ctx') /\ (ctx'.ok => ctx.ok)
      BY <3>1, <3>2, <1>b
    <3> QED
      BY <2>1, <1>b, <1>0, <3>2
  <2> QED
    BY <2>1, <2>2, <2>3, DataFacts, ReductionInv
<1>5. CASE OpenElse
  <2>1. /\ Reducing(35) /\ Becomes(35, Nothing)
        /\ (\E dc : ctx' \in PushNew(ctx, dc)) \/ ctx' = ctx
    BY <1>5 DEF OpenElse
  <2>2. 35 \in 0 .. YYNRULE - 1
    BY DEF YYNRULE
  <2>3. ConfigShape(ctx') /\ (ctx'.ok => ctx.ok)
    BY <2>1, <1>b, <1>0
  <2> QED
    BY <2>1, <2>2, <2>3, DataFacts, ReductionInv
<1>6. CASE CloseBlock
  <2>1. PICK r \in {32, 33} :
          /\ Reducing(r)
          /\ \/ ctx.ok /\ ctx' = Pop(ctx) /\ \E v : Becomes(r, ConfigAt(v))
             \/ ~ctx.ok /\ ctx' = ctx /\ Becomes(r, NULL)
    BY <1>6 DEF CloseBlock, Closed
  <2>2. r \in 0 .. YYNRULE - 1
    BY DEF YYNRULE
  <2> QED
    BY <2>1, <2>2, <1>b, <1>0, DataFacts, ReductionInv
<1>7. CASE ElseCondition
  <2> DEFINE a == Msp(-3).value
             b == Msp(0).value
             c == [ctx EXCEPT !.ok = ~Unreachable(ctx, a, b)]
  <2>1. /\ Reducing(29)
        /\ \/ ~ctx.ok /\ ctx' = ctx /\ Becomes(29, NULL)
           \/ ctx.ok /\ ctx' = Linked(c, a, b) /\ Becomes(29, ConfigAt(b))
    BY <1>7 DEF ElseCondition
  <2>2. 29 \in 0 .. YYNRULE - 1
    BY DEF YYNRULE
  <2>3. ConfigShape(c)
    <3>1. Unreachable(ctx, a, b) \in BOOLEAN
      BY DEF Unreachable
    <3>2. Holds(c, ~Unreachable(ctx, a, b), ctx.current, ctx.configs_stack, ctx.all_configs, ctx.dcs)
      BY <1>0, Changed DEF ConfigShape
    <3> QED
      BY <3>1, <3>2, HoldsShape
  <2> HIDE DEF a, b, c
  <2>4. ConfigShape(Linked(c, a, b))
    BY <2>3, <1>l
  <2>5. CASE ~ctx.ok /\ ctx' = ctx /\ Becomes(29, NULL)
    BY <2>1, <2>2, <2>5, <1>0, ReductionInv
  <2>6. CASE ctx.ok /\ ctx' = Linked(c, a, b) /\ Becomes(29, ConfigAt(b))
    BY <2>1, <2>2, <2>4, <2>6, DataFacts, ReductionInv
  <2> QED
    BY <2>1, <2>5, <2>6
<1>8. CASE ElseBlock
  <2>1. /\ Reducing(30)
        /\ \/ ~ctx.ok /\ ctx' = ctx /\ Becomes(30, NULL)
           \/ ctx' = Failed(ctx) /\ Becomes(30, NULL)
           \/ /\ ctx.ok
              /\ \E a, b, key : \E c \in Resorted(Renamed(ctx, b, key), TRUE) :
                   ctx' = Linked(c, a, b) /\ Becomes(30, ConfigAt(b))
           \/ \E b, d : /\ ctx' = Failed([ctx EXCEPT !.all_configs = Extracted(ctx.all_configs, b)])
                        /\ Becomes(30, ConfigAt(d))
    <3> DEFINE a == Msp(-3).value
               b == Msp(0).value
               key == OppositeKey(ctx.dcs[a])
    <3>1. /\ Reducing(30)
          /\ IF ~ctx.ok THEN ctx' = ctx /\ Becomes(30, NULL)
             ELSE IF Unreachable(ctx, a, b) THEN ctx' = Failed(ctx) /\ Becomes(30, NULL)
             ELSE \/ /\ \E c \in Resorted(Renamed(ctx, b, key), TRUE) : ctx' = Linked(c, a, b)
                     /\ Becomes(30, ConfigAt(b))
                  \/ \E d : /\ ctx' = Failed([ctx EXCEPT !.all_configs = Extracted(ctx.all_configs, b)])
                            /\ Becomes(30, ConfigAt(d))
      BY <1>8 DEF ElseBlock
    <3> HIDE DEF a, b, key
    <3> QED
      BY <3>1
  <2>2. 30 \in 0 .. YYNRULE - 1
    BY DEF YYNRULE
  <2>3. CASE ~ctx.ok /\ ctx' = ctx /\ Becomes(30, NULL)
    BY <2>1, <2>2, <2>3, <1>0, ReductionInv
  <2>4. CASE ctx' = Failed(ctx) /\ Becomes(30, NULL)
    BY <2>1, <2>2, <2>4, <1>0, ReductionInv
  <2>5. ASSUME ctx.ok, NEW a, NEW b, NEW key, NEW c \in Resorted(Renamed(ctx, b, key), TRUE),
               ctx' = Linked(c, a, b), Becomes(30, ConfigAt(b))
        PROVE  StackInv'
    <3> DEFINE f == Renamed(ctx, b, key)
    <3>1. ConfigShape(c)
      <4>1. ConfigShape(f)
        BY <1>0, <1>l
      <4> HIDE DEF f
      <4> QED
        BY <2>5, <4>1, ResortedFacts DEF Holds, ConfigShape, f
    <3>2. ConfigShape(ctx')
      BY <2>5, <3>1, <1>l
    <3> QED
      BY <2>1, <2>2, <2>5, <3>2, DataFacts, ReductionInv
  <2>6. ASSUME NEW b, NEW d,
               ctx' = Failed([ctx EXCEPT !.all_configs = Extracted(ctx.all_configs, b)]),
               Becomes(30, ConfigAt(d))
        PROVE  StackInv'
    <3>1. ConfigShape([ctx EXCEPT !.all_configs = Extracted(ctx.all_configs, b)])
      BY <1>0, Changed, HoldsShape DEF ConfigShape
    <3>2. ConfigShape(ctx') /\ ~ctx'.ok
      BY <2>6, <3>1, FailedFacts
    <3> QED
      BY <2>1, <2>2, <2>6, <3>2, ReductionInv
  <2> QED
    BY <2>1, <2>3, <2>4, <2>5, <2>6
<1> QED
  BY <1>1, <1>2, <1>3, <1>4, <1>5, <1>6, <1>7, <1>8

\* Nothing of the parser changes.
LEMMA ParserStands ==
  ASSUME StackInv, UNCHANGED <<yystack, yymajor, yyminor, ctx>>,
         tid' \in Tokens \cup {"none", "error"}
  PROVE  StackInv'
BY DEF StackInv, TokensTyped

LEMMA ParseInv ==
  ASSUME StackInv, ParserStep, tid' = tid
  PROVE  StackInv'
<1>1. CASE ExitInGlobal \/ Crash
  <2>1. UNCHANGED <<yystack, yymajor, yyminor, ctx>>
    BY <1>1 DEF ExitInGlobal, Crash
  <2> QED
    BY <2>1, ParserStands DEF StackInv, TokensTyped
<1> QED
  BY <1>1, ShiftInv, SyntaxErrorInv, ExpressionInv, BlockInv DEF ParserStep

\* The tokenizer finds tokens of the grammar.
LEMMA TokenizerInv ==
  ASSUME TokenizerStep, tid \in Tokens \cup {"none", "error"}
  PROVE  tid' \in Tokens \cup {"none", "error"}
<1>0. ASSUME NEW n, NEW id, Found(id, n), id \in Tokens PROVE tid' \in Tokens
  BY <1>0 DEF Found
<1>1. CASE Error \/ \E n : Skipped(n)
  BY <1>1 DEF Error, Skipped
<1>2. CASE Equals
  BY <1>0, <1>1, <1>2, TokenNames DEF Equals
<1>3. CASE Exclamation
  BY <1>0, <1>1, <1>3, TokenNames DEF Exclamation
<1>4. CASE Blank \/ Comment
  BY <1>1, <1>4 DEF Blank, Comment
<1>5. CASE Newline
  BY <1>1, <1>5, TokenNames DEF Newline
<1>6. CASE Comma
  BY <1>0, <1>1, <1>6, TokenNames, Zenon DEF Comma
<1>7. CASE Quote
  BY <1>1, <1>7, TokenNames, Zenon DEF Quote
<1>8. CASE Parenthesis
  BY <1>0, <1>8, TokenNames DEF Parenthesis
<1>9. CASE Dollar
  BY <1>0, <1>9, TokenNames DEF Dollar
<1>10. CASE PlusSign
  BY <1>0, <1>10, TokenNames DEF PlusSign
<1>11. CASE Bracket
  BY <1>0, <1>11, TokenNames, Zenon DEF Bracket
<1>12. CASE ConditionName
  BY <1>0, <1>1, <1>12, TokenNames DEF ConditionName
<1>13. CASE Digits
  BY <1>0, <1>13, TokenNames DEF Digits, tokenizerVars
<1>14. CASE Name
  <2>1. \A w \in DOMAIN Keyword : Keyword[w] \in Tokens
    BY TokenNames, Zenon DEF Keyword
  <2> QED
    BY <1>0, <1>1, <1>14, <2>1, TokenNames DEF Name
<1> QED
  BY <1>2, <1>3, <1>4, <1>5, <1>6, <1>7, <1>8, <1>9, <1>10, <1>11, <1>12, <1>13, <1>14
     DEF TokenizerStep

-----------------------------------------------------------------------------
(***************************************************************************)
(* The invariant holds for every file, whatever is done with it.           *)
(***************************************************************************)
LEMMA InitStackInv ==
  ASSUME ReadInit
  PROVE  StackInv
<1>1. /\ tid = "none" /\ yymajor = "none" /\ yystack = <<>> /\ yyminor = Nothing
      /\ \E cwd : ctx = FirstContext(cwd)
  BY DEF ReadInit, Init, TokenizerInit, ParserInit
<1>2. ConfigShape(ctx)
  <2>1. \A cwd : ConfigShape(FirstContext(cwd))
    BY DEF ConfigShape, FirstContext, Members
  <2> QED
    BY <1>1, <2>1
<1> QED
  BY <1>1, <1>2, EmptyRoute, NoNullEmpty, DataFacts DEF StackInv, TokensTyped

\* A new stack holds the state 0, and nothing else.
LEMMA BottomRoute ==
  ASSUME NEW e, e.stateno = 0, ~IsNull(e.minor)
  PROVE  Route(<<e>>) /\ <<e>> # <<>> /\ NoNull(<<e>>)
<1>1. <<e>> \in Seq({e}) /\ Len(<<e>>) = 1 /\ <<e>>[1] = e
  OBVIOUS
<1>2. IsSeq(<<e>>) /\ DOMAIN <<e>> = 1 .. 1 /\ <<e>> # <<>>
  BY <1>1, AnySeq, LenProperties
<1>3. \A i \in 1 .. 1 : i = 1
  OBVIOUS
<1>4. 1 .. Len(<<e>>) - 1 = {}
  BY <1>1
<1>5. 0 \in States
  BY DEF States, YYNSTATE
<1> QED
  BY <1>1, <1>2, <1>3, <1>4, <1>5 DEF Route, NoNull

LEMMA FeedInv ==
  ASSUME StackInv, Feed
  PROVE  StackInv'
<1> DEFINE e == [stateno |-> 0, major |-> "$", minor |-> Nothing]
<1>1. /\ tid' \in Tokens \cup {"none", "error"}
      /\ tid # "error"
  BY DEF Feed, Taken, Returns, StackInv, TokensTyped
<1>2. PICK major : major = IF tid = "none" THEN "$" ELSE tid
  OBVIOUS
<1>3. major \in Tokens
  BY <1>1, <1>2, TokenNames DEF StackInv, TokensTyped
<1>4. /\ ctx' = ctx
      /\ \/ UNCHANGED <<yystack, yymajor, yyminor>>
         \/ /\ yymajor' = major /\ yyminor' = Buffer(token)
            /\ yystack' = IF yystack = <<>> THEN <<e>> ELSE yystack
  BY <1>2 DEF Feed, Call
<1>5. CASE UNCHANGED <<yystack, yymajor, yyminor>>
  BY <1>1, <1>4, <1>5, ParserStands
<1>6. CASE /\ yymajor' = major /\ yyminor' = Buffer(token)
           /\ yystack' = IF yystack = <<>> THEN <<e>> ELSE yystack
  <2>1. e.stateno = 0 /\ ~IsNull(e.minor)
    BY DataFacts
  <2> HIDE DEF e
  <2>2. Route(yystack') /\ yystack' # <<>> /\ (ctx.ok => NoNull(yystack'))
    BY <1>6, <2>1, BottomRoute DEF StackInv
  <2> QED
    BY <1>1, <1>3, <1>4, <1>6, <2>2, DataFacts DEF StackInv, TokensTyped
<1> QED
  BY <1>4, <1>5, <1>6

LEMMA NextInv ==
  ASSUME StackInv, Next
  PROVE  StackInv'
<1>1. CASE ReadLine
  BY <1>1, ParserStands DEF ReadLine, Line, Close, parserVars, StackInv, TokensTyped
<1>2. CASE Tokenize
  BY <1>2, ParserStands, TokenizerInv DEF Tokenize, parserVars, StackInv, TokensTyped
<1>3. CASE Feed
  BY <1>3, FeedInv
<1>4. CASE Parse
  BY <1>4, ParseInv DEF Parse, tokenizerVars
<1>5. CASE Return
  BY <1>5, ParserStands DEF Return, Taken, tokenizerVars, parserVars, StackInv, TokensTyped
<1> QED
  BY <1>1, <1>2, <1>3, <1>4, <1>5 DEF Next

LEMMA ReadNextInv ==
  ASSUME StackInv, [ReadNext]_allVars
  PROVE  StackInv'
<1>1. CASE UNCHANGED vars
  BY <1>1, ParserStands DEF vars, tokenizerVars, parserVars, StackInv, TokensTyped
<1>2. CASE StreamSize
  BY <1>2, ParserStands DEF StreamSize, parserVars, StackInv, TokensTyped
<1>3. CASE Parsing
  BY <1>3, NextInv DEF Parsing
<1> QED
  BY <1>1, <1>2, <1>3
     DEF ReadNext, allVars, OptionsKept, StreamOpen, StreamMap, StreamClose, InsertContext,
         InsertFault, Engine, Modules, Chroot, CheckTempdir, DocumentRoot

LEMMA Invariance == ReadSpec => []StackInv
<1>1. ReadInit => StackInv
  BY InitStackInv
<1>2. StackInv /\ [ReadNext]_allVars => StackInv'
  BY ReadNextInv
<1> QED
  BY <1>1, <1>2, PTL DEF ReadSpec

LEMMA FitsRule ==
  ASSUME StackInv
  PROVE  StackFitsRule
<1>1. ctx.ok => \A i \in DOMAIN yystack : ~IsNull(yystack[i].minor)
  BY DEF StackInv, NoNull
<1>2. ASSUME Busy PROVE Action # YY_NO_ACTION
  <2>1. yymajor \in Tokens /\ yystack # <<>> /\ Route(yystack)
    BY <1>2 DEF StackInv, TokensTyped, Busy
  <2>2. Top.stateno \in States
    BY <2>1, SeqFacts DEF Route, Top
  <2>3. Action \in 0 .. YY_ERROR_ACTION
    BY <2>1, <2>2, TablesFitGrammar DEF Action
  <2> QED
    BY <2>3 DEF YY_ERROR_ACTION, YY_NO_ACTION, YYNSTATE, YYNRULE
<1>3. ASSUME Busy, NEW r \in 0 .. YYNRULE - 1, Action = YYNSTATE + r
      PROVE  LET rule == yyRuleName[r + 1]
                 n    == Len(rule) - 1
             IN  /\ RuleInfo(r) = <<Symbol[rule[1]], n>>
                 /\ Len(yystack) > n
                 /\ [i \in 1 .. n |-> yystack[Len(yystack) - n + i].major] = Tail(rule)
  <2> DEFINE rule == Rule(r)
             n == Length(r)
             L == Len(yystack)
  <2>1. Reducing(r)
    BY <1>3 DEF Reducing
  <2>2. RuleInfo(r) = <<Symbol[rule[1]], n>> /\ L > n /\ L \in Nat /\ n \in Nat
    BY <2>1, ReducingFacts DEF MaxRule
  <2>3. rule \in Seq(Symbols) /\ n = Len(rule) - 1
    BY TablesFitGrammar DEF Length
  <2>4. rule # <<>>
    BY <2>2, <2>3, EmptySeq
  <2>5. /\ Tail(rule) \in Seq(Symbols) /\ Len(Tail(rule)) = Len(rule) - 1
        /\ \A i \in 1 .. Len(Tail(rule)) : Tail(rule)[i] = rule[i + 1]
    BY <2>3, <2>4, HeadTailProperties
  <2> HIDE DEF n, L
  <2>6. ASSUME NEW i \in 1 .. n PROVE yystack[L - n + i].major = rule[i + 1]
    <3>1. i \in Int /\ n \in Nat /\ L \in Nat /\ 1 <= i /\ i <= n
      BY <2>2
    <3>2. PICK k \in Int : k = i - n
      BY <3>1
    <3>3. -n < k /\ k <= 0 /\ L + k = L - n + i /\ n + 1 + k = i + 1
      BY <3>1, <3>2
    <3>4. yystack[L + k].major = rule[n + 1 + k]
      BY <2>1, <3>3, MspFacts DEF n, L
    <3> QED
      BY <3>3, <3>4
  <2>7. Tail(rule) = [i \in 1 .. n |-> rule[i + 1]]
    <3>1. Tail(rule) \in [1 .. Len(Tail(rule)) -> Symbols]
      BY <2>5, LenProperties
    <3> QED
      BY <2>3, <2>5, <3>1
  <2>8. [i \in 1 .. n |-> yystack[L - n + i].major] = Tail(rule)
    BY <2>6, <2>7
  <2> QED
    BY <2>2, <2>8 DEF Rule, Length, n, L
<1> QED
  BY <1>1, <1>2, <1>3 DEF StackFitsRule

\* The packed tables and the stack agree with the grammar: a reduction by a rule
\* (yy_reduce) always finds the right side of the rule on the stack, the driver
\* never meets an entry without an action, and the actions of the grammar are
\* handed no NULL as long as ctx->ok; for files of any length, with any lines, and a
\* stack of any depth.
THEOREM StackCorrect == ReadSpec => []StackFitsRule
<1>1. StackInv => StackFitsRule
  BY FitsRule
<1> QED
  BY <1>1, Invariance, PTL

-----------------------------------------------------------------------------
(***************************************************************************)
(* What is held of the file.                                               *)
(***************************************************************************)
StreamInv ==
  /\ stream \in [fd : BOOLEAN, content : BOOLEAN]
  /\ rd \notin {"fstat", "map"} => ~stream.fd
  /\ rd \in {"open", "fstat", "map"} => ~stream.content
  /\ rd \notin {"open", "fstat", "map", "parse"} => stream = NoStream

LEMMA StreamRecord ==
  ASSUME NEW s \in [fd : BOOLEAN, content : BOOLEAN], ~s.content
  PROVE  [s EXCEPT !.fd = FALSE] = NoStream
<1>1. PICK f \in BOOLEAN, c \in BOOLEAN : s = [fd |-> f, content |-> c]
  OBVIOUS
<1>2. c = FALSE
  BY <1>1
<1>3. [s EXCEPT !.fd = c] = [fd |-> c, content |-> c]
  BY <1>1
<1> QED
  BY <1>2, <1>3, Zenon DEF NoStream

LEMMA StreamNext ==
  ASSUME StreamInv, [ReadNext]_allVars
  PROVE  StreamInv'
<1> USE DEF StreamInv, NoStream, Goto, Returned
<1>1. CASE StreamOpen
  BY <1>1 DEF StreamOpen
<1>2. CASE StreamSize
  <2>1. rd = "fstat" /\ ~stream.content
    BY <1>2 DEF StreamSize
  <2>2. \/ rd' = "map" /\ stream' = stream
        \/ rd' \in {"parse", "ended"} /\ stream' = [stream EXCEPT !.fd = FALSE]
    BY <1>2 DEF StreamSize, Emptied
  <2>3. [stream EXCEPT !.fd = FALSE] = NoStream
    BY <2>1, StreamRecord
  <2>4. \/ rd' = "map" /\ stream' = stream
        \/ rd' \in {"parse", "ended"} /\ stream' = NoStream
    <3> HIDE DEF NoStream
    <3> QED
      BY <2>2, <2>3
  <2>5. CASE rd' = "map" /\ stream' = stream
    BY <2>1, <2>5
  <2>6. CASE rd' \in {"parse", "ended"} /\ stream' = NoStream
    BY <2>6
  <2> HIDE DEF StreamInv, NoStream
  <2> QED
    BY <2>4, <2>5, <2>6
<1>3. CASE StreamMap
  <2>1. \/ rd' = "parse" /\ stream' = [fd |-> FALSE, content |-> TRUE]
        \/ rd' = "ended" /\ stream' = NoStream
    BY <1>3 DEF StreamMap
  <2>2. CASE rd' = "parse" /\ stream' = [fd |-> FALSE, content |-> TRUE]
    <3>1. \A f, c \in BOOLEAN : /\ [fd |-> f, content |-> c] \in [fd : BOOLEAN, content : BOOLEAN]
                               /\ [fd |-> f, content |-> c].fd = f
      OBVIOUS
    <3>2. stream' \in [fd : BOOLEAN, content : BOOLEAN] /\ stream'.fd = FALSE
      BY <2>2, <3>1
    <3> QED
      BY <2>2, <3>2
  <2>3. CASE rd' = "ended" /\ stream' = NoStream
    BY <2>3
  <2> HIDE DEF StreamInv, NoStream
  <2> QED
    BY <2>1, <2>2, <2>3
<1>4. CASE StreamClose
  BY <1>4 DEF StreamClose
<1>5. CASE InsertContext \/ InsertFault
  BY <1>5 DEF InsertContext, InsertFault
<1>6. CASE Engine \/ Modules \/ Chroot \/ CheckTempdir \/ DocumentRoot
  BY <1>6 DEF Engine, Modules, Chroot, CheckTempdir, DocumentRoot
<1>7. CASE Parsing \/ UNCHANGED allVars
  BY <1>7 DEF Parsing, allVars, readVars
<1> QED
  BY <1>1, <1>2, <1>3, <1>4, <1>5, <1>6, <1>7 DEF ReadNext

\* stream_open and stream_close leave no descriptor and no memory behind, on every
\* path through config_read and config_set_defaults.
THEOREM StreamCorrect == ReadSpec => []StreamReleased
<1>1. ReadInit => StreamInv
  BY DEF ReadInit, StreamInv, NoStream
<1>2. StreamInv /\ [ReadNext]_allVars => StreamInv'
  BY StreamNext
<1>3. StreamInv => StreamReleased
  BY DEF StreamInv, StreamReleased, Over, NoStream
<1> QED
  BY <1>1, <1>2, <1>3, PTL DEF ReadSpec

-----------------------------------------------------------------------------
(***************************************************************************)
(* Sequences.                                                              *)
(***************************************************************************)
LEMMA SameSeq ==
  ASSUME NEW s, IsSeq(s), NEW t, IsSeq(t), Len(s) = Len(t), \A i \in 1 .. Len(s) : s[i] = t[i]
  PROVE  s = t
<1>1. /\ s \in [1 .. Len(s) -> ToSet(s)] /\ t \in [1 .. Len(t) -> ToSet(t)]
  BY LenProperties DEF IsSeq
<1> QED
  BY <1>1

LEMMA FrontFacts ==
  ASSUME NEW s, IsSeq(s), s # <<>>
  PROVE  /\ IsSeq(Front(s)) /\ Len(Front(s)) = Len(s) - 1
         /\ DOMAIN Front(s) = 1 .. Len(s) - 1
         /\ \A i \in 1 .. Len(s) - 1 : Front(s)[i] = s[i]
<1>1. Len(s) \in Nat /\ Len(s) >= 1
  BY SeqFacts
<1>2. Len(s) - 1 \in 0 .. Len(s)
  BY <1>1
<1> QED
  BY <1>2, PrefixFacts DEF Front

LEMMA FrontAppend ==
  ASSUME NEW s, IsSeq(s), NEW e
  PROVE  Front(Append(s, e)) = s
<1> DEFINE t == Append(s, e)
<1>1. /\ IsSeq(t) /\ t # <<>> /\ Len(t) = Len(s) + 1 /\ Len(s) \in Nat
      /\ \A i \in 1 .. Len(s) : t[i] = s[i]
  BY AppendFacts, SeqFacts
<1> HIDE DEF t
<1>2. Len(t) - 1 = Len(s)
  BY <1>1
<1>3. /\ IsSeq(Front(t)) /\ Len(Front(t)) = Len(s)
      /\ \A i \in 1 .. Len(s) : Front(t)[i] = t[i]
  BY <1>1, <1>2, FrontFacts
<1>4. Front(t) = s
  BY <1>1, <1>3, SameSeq
<1> QED
  BY <1>4 DEF t

LEMMA AppendFront ==
  ASSUME NEW s, IsSeq(s), s # <<>>
  PROVE  s = Append(Front(s), Last(s))
<1> DEFINE f == Front(s)
           t == Append(f, Last(s))
<1>0. Len(s) \in Nat /\ Len(s) >= 1 /\ Last(s) = s[Len(s)]
  BY SeqFacts
<1>1. /\ IsSeq(f) /\ Len(f) = Len(s) - 1
      /\ \A i \in 1 .. Len(s) - 1 : f[i] = s[i]
  BY FrontFacts
<1> HIDE DEF f
<1>2. /\ IsSeq(t) /\ Len(t) = Len(f) + 1
      /\ \A i \in 1 .. Len(f) : t[i] = f[i]
      /\ t[Len(f) + 1] = Last(s)
  BY <1>1, AppendFacts
<1> HIDE DEF t
<1>3. Len(t) = Len(s)
  BY <1>0, <1>1, <1>2
<1>4. ASSUME NEW i \in 1 .. Len(s) PROVE t[i] = s[i]
  <2>1. CASE i = Len(s)
    <3>1. Len(f) + 1 = Len(s)
      BY <1>0, <1>1
    <3> QED
      BY <2>1, <3>1, <1>0, <1>2
  <2>2. CASE i # Len(s)
    <3>1. i \in 1 .. Len(s) - 1
      BY <2>2, <1>0
    <3> QED
      BY <3>1, <1>1, <1>2
  <2> QED
    BY <2>1, <2>2
<1> QED
  BY <1>2, <1>3, <1>4, SameSeq DEF t, f

-----------------------------------------------------------------------------
(***************************************************************************)
(* How many symbols of a kind the stack has above a place, and what that   *)
(* becomes when something is pushed or the right side of a rule goes.      *)
(***************************************************************************)
Marked(st, S, i) == {j \in i + 1 .. Len(st) : st[j].major \in S}
Marks(st, S, i) == Cardinality(Marked(st, S, i))

LEMMA MarksNat ==
  ASSUME NEW st, IsSeq(st), NEW S, NEW i \in Nat
  PROVE  IsFiniteSet(Marked(st, S, i)) /\ Marks(st, S, i) \in Nat
<1>1. Len(st) \in Nat
  BY SeqFacts
<1>2. IsFiniteSet(i + 1 .. Len(st))
  BY <1>1, FS_Interval
<1>3. IsFiniteSet(Marked(st, S, i))
  BY <1>2, FS_Subset DEF Marked
<1> QED
  BY <1>3, FS_CardinalityType DEF Marks

LEMMA MarksNone ==
  ASSUME NEW st, NEW S, NEW i, \A j \in i + 1 .. Len(st) : st[j].major \notin S
  PROVE  Marks(st, S, i) = 0
<1>1. Marked(st, S, i) = {}
  BY DEF Marked
<1> QED
  BY <1>1, FS_EmptySet DEF Marks

LEMMA MarksAppend ==
  ASSUME NEW st, IsSeq(st), NEW e, NEW S, NEW i \in 0 .. Len(st)
  PROVE  /\ e.major \in S => Marks(Append(st, e), S, i) = Marks(st, S, i) + 1
         /\ e.major \notin S => Marks(Append(st, e), S, i) = Marks(st, S, i)
<1> DEFINE t == Append(st, e)
           n == Len(st)
<1>1. n \in Nat /\ Len(t) = n + 1 /\ t[n + 1] = e /\ \A j \in 1 .. n : t[j] = st[j]
  BY SeqFacts, AppendFacts
<1> HIDE DEF t, n
<1>2. i \in Nat /\ i <= n
  BY <1>1 DEF n
<1>3. /\ \A j \in i + 1 .. n + 1 : j \in i + 1 .. n \/ j = n + 1
      /\ \A j \in i + 1 .. n : j \in i + 1 .. n + 1 /\ j \in 1 .. n
      /\ n + 1 \in i + 1 .. n + 1 /\ n + 1 \notin i + 1 .. n
  BY <1>1, <1>2
<1>4. e.major \in S => Marked(t, S, i) = Marked(st, S, i) \cup {n + 1}
  BY <1>1, <1>3 DEF Marked, n
<1>5. e.major \notin S => Marked(t, S, i) = Marked(st, S, i)
  BY <1>1, <1>3 DEF Marked, n
<1>6. n + 1 \notin Marked(st, S, i)
  BY <1>3 DEF Marked, n
<1>7. IsFiniteSet(Marked(st, S, i))
  BY <1>2, MarksNat
<1> QED
  BY <1>4, <1>5, <1>6, <1>7, FS_AddElement DEF Marks, t

\* Nothing of the kind is in what goes.
LEMMA MarksCut ==
  ASSUME NEW st, IsSeq(st), NEW S, NEW m \in 0 .. Len(st), NEW i \in 0 .. m,
         \A j \in m + 1 .. Len(st) : st[j].major \notin S
  PROVE  Marks(SubSeq(st, 1, m), S, i) = Marks(st, S, i)
<1> DEFINE t == SubSeq(st, 1, m)
           n == Len(st)
<1>1. n \in Nat /\ Len(t) = m /\ \A j \in 1 .. m : t[j] = st[j]
  BY SeqFacts, PrefixFacts
<1> HIDE DEF t, n
<1>2. i \in Nat /\ i <= m /\ m \in Nat /\ m <= n
  BY <1>1 DEF n
<1>3. /\ \A j \in i + 1 .. n : j \in i + 1 .. m \/ j \in m + 1 .. n
      /\ \A j \in i + 1 .. m : j \in i + 1 .. n /\ j \in 1 .. m
  BY <1>1, <1>2
<1>4. Marked(t, S, i) = Marked(st, S, i)
  BY <1>1, <1>3 DEF Marked, n
<1> QED
  BY <1>4 DEF Marks, t

\* One of the kind is in what goes.
LEMMA MarksCutOne ==
  ASSUME NEW st, IsSeq(st), NEW S, NEW m \in 0 .. Len(st), NEW i \in 0 .. m,
         NEW k \in m + 1 .. Len(st), st[k].major \in S,
         \A j \in m + 1 .. Len(st) : j # k => st[j].major \notin S
  PROVE  Marks(st, S, i) = Marks(SubSeq(st, 1, m), S, i) + 1
<1> DEFINE t == SubSeq(st, 1, m)
           n == Len(st)
<1>1. n \in Nat /\ Len(t) = m /\ IsSeq(t) /\ \A j \in 1 .. m : t[j] = st[j]
  BY SeqFacts, PrefixFacts
<1> HIDE DEF t, n
<1>2. i \in Nat /\ i <= m /\ m \in Nat /\ m <= n /\ k \in m + 1 .. n
  BY <1>1 DEF n
<1>3. /\ \A j \in i + 1 .. n : j \in i + 1 .. m \/ j \in m + 1 .. n
      /\ \A j \in i + 1 .. m : j \in i + 1 .. n /\ j \in 1 .. m
      /\ k \in i + 1 .. n /\ k \notin i + 1 .. m
  BY <1>1, <1>2
<1>4. Marked(st, S, i) = Marked(t, S, i) \cup {k}
  BY <1>1, <1>3 DEF Marked, n
<1>5. k \notin Marked(t, S, i) /\ IsFiniteSet(Marked(t, S, i)) /\ Marks(t, S, i) \in Nat
  BY <1>1, <1>2, <1>3, MarksNat DEF Marked
<1> QED
  BY <1>4, <1>5, FS_AddElement DEF Marks, t

-----------------------------------------------------------------------------
(***************************************************************************)
(* The contexts.                                                           *)
(***************************************************************************)
ContextMembers ==
  {"key", "cond", "string", "context_ndx", "parent", "prev", "next", "value", "lost"}

\* A context has its place for its number, and comes after what it depends on.
ContextFits(dcs, d) ==
  /\ DOMAIN dcs[d] = ContextMembers
  /\ dcs[d].context_ndx = d - 1
  /\ dcs[d].parent \in 0 .. d - 1 /\ dcs[d].prev \in 0 .. d - 1
  /\ d # Global => dcs[d].parent # NONE

\* Of the contexts that the index of all_configs leads to, each has a text of its own.
TextsFit(c) == \A d, e \in Shown(c) : KeyText(c.dcs[d].key) = KeyText(c.dcs[e].key) => d = e

ContextsFit(c) ==
  /\ IsSeq(c.dcs) /\ IsSeq(c.all_configs) /\ IsSeq(c.configs_stack)
  /\ Len(c.all_configs) = Len(c.dcs) /\ ToSet(c.all_configs) = DOMAIN c.dcs
  /\ \A d \in DOMAIN c.dcs : ContextFits(c.dcs, d)
  /\ TextsFit(c)
  /\ c.current \in DOMAIN c.dcs /\ ToSet(c.configs_stack) \subseteq DOMAIN c.dcs

LEMMA SeqFrom ==
  ASSUME NEW n \in Nat, NEW S, NEW s \in [1 .. n -> S]
  PROVE  s \in Seq(S) /\ Len(s) = n
OBVIOUS

With(dcs, x, f, v) == [dcs EXCEPT ![x] = [dcs[x] EXCEPT ![f] = v]]

LEMMA FieldSet ==
  ASSUME NEW dcs, IsSeq(dcs), NEW x \in DOMAIN dcs, NEW f \in ContextMembers, NEW v, NEW dcs2,
         \A d \in DOMAIN dcs : DOMAIN dcs[d] = ContextMembers,
         dcs2 = With(dcs, x, f, v)
  PROVE  /\ IsSeq(dcs2) /\ DOMAIN dcs2 = DOMAIN dcs /\ Len(dcs2) = Len(dcs)
         /\ \A d \in DOMAIN dcs : DOMAIN dcs2[d] = ContextMembers
         /\ \A d \in DOMAIN dcs, g \in ContextMembers : d # x \/ g # f => dcs2[d][g] = dcs[d][g]
         /\ dcs2[x][f] = v
<1>1. /\ DOMAIN dcs2 = DOMAIN dcs
      /\ dcs2[x] = [dcs[x] EXCEPT ![f] = v]
      /\ \A d \in DOMAIN dcs : d # x => dcs2[d] = dcs[d]
  BY DEF With
<1>2. DOMAIN dcs[x] = ContextMembers
  OBVIOUS
<1>3. /\ DOMAIN dcs2[x] = ContextMembers /\ dcs2[x][f] = v
      /\ \A g \in ContextMembers : g # f => dcs2[x][g] = dcs[x][g]
  BY <1>1, <1>2
<1>4. IsSeq(dcs2) /\ Len(dcs2) = Len(dcs)
  <2>1. Len(dcs) \in Nat /\ DOMAIN dcs = 1 .. Len(dcs)
    BY SeqFacts
  <2>2. dcs2 \in [1 .. Len(dcs) -> ToSet(dcs2)]
    BY <1>1, <2>1 DEF ToSet, With
  <2>3. dcs2 \in Seq(ToSet(dcs2)) /\ Len(dcs2) = Len(dcs)
    BY ONLY <2>1, <2>2, SeqFrom
  <2> QED
    BY <2>3 DEF IsSeq
<1> QED
  BY <1>1, <1>3, <1>4

\* The context changes in what the tree does not depend on.
LEMMA TreeKept ==
  ASSUME NEW c, ContextsFit(c), NEW e, IsSeq(e.dcs), DOMAIN e.dcs = DOMAIN c.dcs,
         Len(e.dcs) = Len(c.dcs), e.lost = c.lost,
         e.current = c.current, e.configs_stack = c.configs_stack, e.all_configs = c.all_configs,
         \A d \in DOMAIN c.dcs :
           /\ DOMAIN e.dcs[d] = ContextMembers
           /\ e.dcs[d].key = c.dcs[d].key
           /\ e.dcs[d].context_ndx = c.dcs[d].context_ndx /\ e.dcs[d].parent = c.dcs[d].parent
           /\ e.dcs[d].prev \in 0 .. d - 1
  PROVE  ContextsFit(e)
<1>1. \A d \in DOMAIN c.dcs : ContextFits(e.dcs, d)
  BY DEF ContextsFit, ContextFits
<1>2. TextsFit(e)
  <2>1. Shown(e) = Shown(c) /\ \A d \in Shown(c) : e.dcs[d].key = c.dcs[d].key
    BY DEF Shown, ContextsFit
  <2> QED
    BY <2>1 DEF TextsFit, ContextsFit
<1> QED
  BY <1>1, <1>2 DEF ContextsFit

LEMMA DcsFacts ==
  ASSUME NEW c, ContextsFit(c)
  PROVE  /\ Len(c.dcs) \in Nat /\ DOMAIN c.dcs = 1 .. Len(c.dcs) /\ Len(c.configs_stack) \in Nat
         /\ \A d \in DOMAIN c.dcs : DOMAIN c.dcs[d] = ContextMembers
         /\ c.current \in DOMAIN c.dcs /\ Global \in DOMAIN c.dcs
<1>1. /\ Len(c.dcs) \in Nat /\ DOMAIN c.dcs = 1 .. Len(c.dcs) /\ Len(c.configs_stack) \in Nat
      /\ c.current \in DOMAIN c.dcs
  BY SeqFacts DEF ContextsFit
<1>2. Global \in DOMAIN c.dcs
  BY <1>1 DEF Global
<1> QED
  BY <1>1, <1>2 DEF ContextsFit, ContextFits

\* Another context is entered, or the current one left.
LEMMA TreeEntered ==
  ASSUME NEW c, ContextsFit(c), NEW d \in DOMAIN c.dcs,
         NEW e, e.current = d, e.configs_stack = Append(c.configs_stack, c.current),
         e.all_configs = c.all_configs, e.dcs = c.dcs, e.lost = c.lost
  PROVE  ContextsFit(e) /\ Len(e.configs_stack) = Len(c.configs_stack) + 1
<1>1. /\ IsSeq(e.configs_stack) /\ Len(e.configs_stack) = Len(c.configs_stack) + 1
      /\ ToSet(e.configs_stack) = ToSet(c.configs_stack) \cup {c.current}
  BY AppendFacts DEF ContextsFit
<1>2. TextsFit(e)
  BY DEF TextsFit, ContextsFit, Shown
<1> QED
  BY <1>1, <1>2 DEF ContextsFit

LEMMA TreePopped ==
  ASSUME NEW c, ContextsFit(c), Len(c.configs_stack) >= 1,
         NEW e, e.current = Last(c.configs_stack), e.configs_stack = Front(c.configs_stack),
         e.all_configs = c.all_configs, e.dcs = c.dcs, e.lost = c.lost
  PROVE  ContextsFit(e) /\ Len(e.configs_stack) = Len(c.configs_stack) - 1
<1> DEFINE s == c.configs_stack
           f == Front(s)
<1>1. IsSeq(s) /\ s # <<>> /\ Len(s) \in Nat /\ DOMAIN s = 1 .. Len(s) /\ Last(s) \in ToSet(s)
  BY SeqFacts DEF ContextsFit, ToSet
<1>2. /\ IsSeq(f) /\ Len(f) = Len(s) - 1 /\ DOMAIN f = 1 .. Len(s) - 1
      /\ \A i \in 1 .. Len(s) - 1 : f[i] = s[i]
  BY <1>1, FrontFacts
<1> HIDE DEF f
<1>3. ToSet(f) \subseteq ToSet(s)
  BY <1>1, <1>2 DEF ToSet
<1>4. TextsFit(e)
  BY DEF TextsFit, ContextsFit, Shown
<1>5. e.configs_stack = f
  BY DEF f
<1> QED
  BY <1>1, <1>2, <1>3, <1>4, <1>5 DEF ContextsFit

\* A context that is new is the last one.
GoesOn(c, x, n, e) ==
  /\ DOMAIN x = ContextMembers /\ x.context_ndx = Len(c.all_configs)
  /\ x.parent = c.current /\ x.prev = NONE
  /\ n = Len(c.dcs) + 1 /\ e.current = n /\ e.configs_stack = Append(c.configs_stack, c.current)
  /\ e.all_configs = Append(c.all_configs, n) /\ e.dcs = Append(c.dcs, x)

\* It does not take a text that the index leads to already.
LEMMA NewText ==
  ASSUME NEW c, ContextsFit(c), NEW x, NEW n, NEW e, GoesOn(c, x, n, e),
         c.lost = {}, e.lost = {}, Keyed(c, x.key) = {}
  PROVE  TextsFit(e)
<1> DEFINE N == Len(c.dcs)
<1>1. N \in Nat /\ DOMAIN c.dcs = 1 .. N /\ n = N + 1 /\ IsSeq(c.dcs) /\ IsSeq(c.all_configs)
      /\ ToSet(c.all_configs) = 1 .. N
  BY DcsFacts DEF GoesOn, ContextsFit
<1>2. e.dcs[n] = x /\ \A d \in 1 .. N : e.dcs[d] = c.dcs[d]
  BY <1>1, AppendFacts DEF GoesOn
<1>3. Shown(c) = 1 .. N /\ Shown(e) = (1 .. N) \cup {n}
  BY <1>1, AppendFacts DEF GoesOn, Shown
<1> HIDE DEF N
<1>4. \A d \in 1 .. N : KeyText(e.dcs[d].key) # KeyText(e.dcs[n].key)
  BY <1>2, <1>3 DEF Keyed
<1>5. \A d, f \in 1 .. N : KeyText(e.dcs[d].key) = KeyText(e.dcs[f].key) => d = f
  BY <1>2, <1>3 DEF TextsFit, ContextsFit
<1> QED
  BY <1>3, <1>4, <1>5, Zenon DEF TextsFit

LEMMA TreeNew ==
  ASSUME NEW c, ContextsFit(c), NEW x, NEW n, NEW e, GoesOn(c, x, n, e), TextsFit(e)
  PROVE  /\ ContextsFit(e) /\ Len(e.configs_stack) = Len(c.configs_stack) + 1
         /\ DOMAIN e.dcs = DOMAIN c.dcs \cup {n}
<1> DEFINE N == Len(c.dcs)
<1>0. /\ DOMAIN x = ContextMembers /\ x.context_ndx = Len(c.all_configs)
      /\ x.parent = c.current /\ x.prev = NONE
      /\ n = N + 1 /\ e.current = n /\ e.configs_stack = Append(c.configs_stack, c.current)
      /\ e.all_configs = Append(c.all_configs, n) /\ e.dcs = Append(c.dcs, x)
  BY DEF GoesOn
<1>1. N \in Nat /\ DOMAIN c.dcs = 1 .. N /\ c.current \in 1 .. N
  BY DcsFacts
<1>a. IsSeq(c.dcs) /\ IsSeq(c.all_configs) /\ IsSeq(c.configs_stack)
  BY DEF ContextsFit
<1>2. n = N + 1 /\ n # Global /\ n \in Nat /\ n > 1
  BY ONLY <1>0, <1>1 DEF Global
<1>3. /\ IsSeq(e.dcs) /\ Len(e.dcs) = N + 1 /\ DOMAIN e.dcs = 1 .. N + 1
      /\ \A d \in 1 .. N : e.dcs[d] = c.dcs[d]
      /\ e.dcs[N + 1] = x
  BY ONLY <1>0, <1>a, AppendFacts
<1>4. /\ IsSeq(e.all_configs) /\ Len(e.all_configs) = Len(c.all_configs) + 1
      /\ ToSet(e.all_configs) = ToSet(c.all_configs) \cup {n}
      /\ IsSeq(e.configs_stack) /\ Len(e.configs_stack) = Len(c.configs_stack) + 1
      /\ ToSet(e.configs_stack) = ToSet(c.configs_stack) \cup {c.current}
  BY ONLY <1>0, <1>a, AppendFacts
<1>5. /\ Len(c.all_configs) = N /\ ToSet(c.all_configs) = DOMAIN c.dcs
      /\ ToSet(c.configs_stack) \subseteq DOMAIN c.dcs
  BY DEF ContextsFit
<1> HIDE DEF N
<1>6. 1 .. N + 1 = (1 .. N) \cup {n} /\ n \notin 1 .. N
  <2>1. \A i : i \in 1 .. N + 1 <=> i \in 1 .. N \/ i = n
    BY ONLY <1>1, <1>2
  <2>2. n \notin 1 .. N
    BY ONLY <1>1, <1>2
  <2> QED
    BY ONLY <2>1, <2>2
<1>7. ASSUME NEW d \in 1 .. N PROVE ContextFits(e.dcs, d)
  <2>1. ContextFits(c.dcs, d)
    BY <1>1 DEF ContextsFit
  <2> QED
    BY ONLY <2>1, <1>3, d \in 1 .. N DEF ContextFits
<1>8. ContextFits(e.dcs, n)
  <2>1. x.context_ndx = n - 1 /\ x.parent \in 0 .. n - 1 /\ x.prev \in 0 .. n - 1 /\ x.parent # NONE
    BY ONLY <1>0, <1>1, <1>2, <1>5 DEF NONE
  <2>2. e.dcs[n] = x
    BY ONLY <1>2, <1>3
  <2> QED
    BY ONLY <1>0, <2>1, <2>2 DEF ContextFits
<1>9. \A d \in DOMAIN e.dcs : ContextFits(e.dcs, d)
  BY ONLY <1>3, <1>6, <1>7, <1>8
<1>10. Len(e.all_configs) = Len(e.dcs) /\ ToSet(e.all_configs) = DOMAIN e.dcs
  BY ONLY <1>1, <1>3, <1>4, <1>5, <1>6
<1>11. e.current \in DOMAIN e.dcs /\ ToSet(e.configs_stack) \subseteq DOMAIN e.dcs
  BY ONLY <1>0, <1>1, <1>3, <1>4, <1>5, <1>6
<1>12. TextsFit(e)
  OBVIOUS
<1> QED
  BY ONLY <1>1, <1>3, <1>4, <1>6, <1>9, <1>10, <1>11, <1>12 DEF ContextsFit

\* array_extract_element, and the element comes back.
LEMMA ListKept ==
  ASSUME NEW s, IsSeq(s), NEW b \in ToSet(s), NEW t, t = Append(Extracted(s, b), b)
  PROVE  IsSeq(t) /\ Len(t) = Len(s) /\ ToSet(t) = ToSet(s)
<1> DEFINE n == Len(s)
           i == CHOOSE j \in DOMAIN s : s[j] = b
           u == [s EXCEPT ![i] = Last(s)]
<1>1. n \in Nat /\ n >= 1 /\ DOMAIN s = 1 .. n /\ Last(s) = s[n] /\ i \in 1 .. n /\ s[i] = b
  <2>1. \E j \in DOMAIN s : s[j] = b
    BY DEF ToSet
  <2>2. i \in DOMAIN s /\ s[i] = b
    BY <2>1
  <2>3. n \in Nat /\ DOMAIN s = 1 .. n
    BY SeqFacts
  <2>4. n >= 1
    BY <2>2, <2>3
  <2> QED
    BY <2>2, <2>3, <2>4, SeqFacts
<1>2. Extracted(s, b) = Front(u)
  BY DEF Extracted
<1> HIDE DEF i
<1>3. u \in Seq(ToSet(s)) /\ Len(u) = n /\ \A j \in 1 .. n : u[j] = IF j = i THEN s[n] ELSE s[j]
  <2>1. s \in Seq(ToSet(s)) /\ i \in 1 .. Len(s) /\ Last(s) \in ToSet(s)
    BY <1>1 DEF IsSeq, ToSet
  <2> QED
    BY <1>1, <2>1, ExceptSeq
<1> HIDE DEF u, n
<1>4. IsSeq(u) /\ u # <<>>
  <2>1. IsSeq(u)
    BY <1>3, AnySeq
  <2> QED
    BY <1>1, <1>3, <2>1, SeqFacts
<1> DEFINE f == Front(u)
<1>5. IsSeq(f) /\ Len(f) = n - 1 /\ DOMAIN f = 1 .. n - 1 /\ \A j \in 1 .. n - 1 : f[j] = u[j]
  BY <1>3, <1>4, FrontFacts
<1> HIDE DEF f
<1>6. t = Append(f, b)
  BY <1>2 DEF f
<1>7. IsSeq(t) /\ Len(t) = Len(f) + 1 /\ ToSet(t) = ToSet(f) \cup {b}
  BY <1>5, <1>6, AppendFacts
<1>8. Len(t) = n
  BY <1>1, <1>5, <1>7
<1>9. ASSUME NEW y \in ToSet(t) PROVE y \in ToSet(s)
  <2>1. CASE y = b
    BY <2>1
  <2>2. CASE y # b
    <3>0. y \in ToSet(f)
      BY ONLY <2>2, <1>7, <1>9
    <3>1. PICK j \in 1 .. n - 1 : y = u[j]
      BY ONLY <3>0, <1>5 DEF ToSet
    <3>2. j \in 1 .. n /\ n \in 1 .. n
      BY <1>1
    <3> QED
      BY <3>1, <3>2, <1>1, <1>3 DEF ToSet
  <2> QED
    BY <2>1, <2>2
<1>10. ASSUME NEW y \in ToSet(s) PROVE y \in ToSet(t)
  <2>1. PICK j \in 1 .. n : y = s[j]
    BY <1>1 DEF ToSet
  <2>2. CASE y = b
    BY <2>2, <1>7
  <2>3. CASE y # b
    <3>1. j # i
      BY <2>1, <2>3, <1>1
    <3>2. CASE j = n
      <4>1. i \in 1 .. n - 1 /\ u[i] = s[n]
        BY <3>1, <3>2, <1>1, <1>3
      <4>2. y \in ToSet(f)
        BY <4>1, <3>2, <2>1, <1>5 DEF ToSet
      <4> QED
        BY <4>2, <1>7
    <3>3. CASE j # n
      <4>1. j \in 1 .. n - 1
        BY <3>3, <1>1
      <4>2. u[j] = s[j]
        BY <3>1, <1>3
      <4>3. y \in ToSet(f)
        BY <4>1, <4>2, <2>1, <1>5 DEF ToSet
      <4> QED
        BY <4>3, <1>7
    <3> QED
      BY <3>2, <3>3
  <2> QED
    BY <2>2, <2>3
<1> QED
  BY <1>7, <1>8, <1>9, <1>10 DEF n

-----------------------------------------------------------------------------
(***************************************************************************)
(* The invariant, and what a reduction does to the stack.                  *)
(***************************************************************************)
StackFits ==
  /\ Len(yystack) <= YYSTACKDEPTH
  /\ yystack # <<>> => yystack[1].major = "$"

\* A condition on the stack is one of the contexts D.
MinorsFit(st, D) ==
  \A i \in 1 .. Len(st) : st[i].major \in Conditions => st[i].minor.value \in D

\* There are n blocks open: those on the stack, and what a full stack left behind.
BlocksCounted(st, over, n) == Marks(st, Openers, 0) <= n /\ (over \/ n = Marks(st, Openers, 0))

TreeFits ==
  /\ ContextsFit(ctx)
  /\ MinorsFit(yystack, DOMAIN ctx.dcs)
  /\ BlocksCounted(yystack, overflowed, Len(ctx.configs_stack))

TreeInv == StackFits /\ (ctx.ok => TreeFits)

LEMMA RuleFacts ==
  /\ \A r \in 0 .. YYNRULE - 1 :
       /\ r \notin {28, 32, 33} => \A k \in 2 .. Length(r) + 1 : Rule(r)[k] \notin Openers
       /\ r \in {28, 32, 33} =>
            /\ Length(r) = 4 /\ Rule(r)[2] \in Openers
            /\ \A k \in 3 .. Length(r) + 1 : Rule(r)[k] \notin Openers
       /\ Rule(r)[1] \in Openers <=> r \in {27, 34, 35}
       /\ Rule(r)[1] \in Conditions <=> r \in 29 .. 33
       /\ Rule(r)[1] = "cond_else" <=> r = 33
       /\ r = 0 \/ Rule(r)[1] # "input"
  /\ Rule(28)[2] = "globalstart" /\ Rule(32)[2] = "context" /\ Rule(33)[2] = "context_else"
  /\ Rule(34)[1] = "context" /\ Rule(35)[1] = "context_else" /\ Rule(27)[1] = "globalstart"
  /\ \A r \in {0, 31, 32, 33} : Length(r) \in {1, 4}
  /\ Length(0) = 1 /\ Length(31) = 1 /\ Length(29) = 4 /\ Length(30) = 4
  /\ Rule(31)[2] = "condline"
  /\ Rule(29)[2] = "condlines" /\ Rule(29)[5] = "condline"
  /\ Rule(30)[2] = "condlines" /\ Rule(30)[5] = "cond_else"
<1>1. /\ Rule(28) = <<"global", "globalstart", "LCURLY", "metalines", "RCURLY">>
      /\ Rule(32) = <<"condline", "context", "LCURLY", "metalines", "RCURLY">>
      /\ Rule(33) = <<"cond_else", "context_else", "LCURLY", "metalines", "RCURLY">>
  BY DEF Rule, yyRuleName
<1>2. /\ Rule(29) = <<"condlines", "condlines", "eols", "ELSE", "condline">>
      /\ Rule(30) = <<"condlines", "condlines", "eols", "ELSE", "cond_else">>
      /\ Rule(31) = <<"condlines", "condline">>
      /\ Rule(0) = <<"input", "metalines">>
      /\ Rule(27)[1] = "globalstart" /\ Rule(34)[1] = "context" /\ Rule(35)[1] = "context_else"
  BY DEF Rule, yyRuleName
<1>3. /\ Length(28) = 4 /\ Length(32) = 4 /\ Length(33) = 4
      /\ Length(29) = 4 /\ Length(30) = 4 /\ Length(31) = 1 /\ Length(0) = 1
  BY <1>1, <1>2 DEF Length
<1>4. \A r \in 0 .. YYNRULE - 1 :
        /\ Rule(r)[1] \in Openers <=> r \in {27, 34, 35}
        /\ Rule(r)[1] \in Conditions <=> r \in 29 .. 33
        /\ Rule(r)[1] = "input" => r = 0
        /\ Length(r) \in 0 .. MaxRule
  BY RulesNest, TablesFitGrammar
<1>5. ASSUME NEW r \in 0 .. YYNRULE - 1, NEW k \in 2 .. Length(r) + 1, Rule(r)[k] \in Openers
      PROVE  r \in {28, 32, 33} /\ k = 2
  <2>1. k \in 1 .. Length(r) + 1 /\ k > 1
    BY <1>4 DEF MaxRule
  <2> QED
    BY <1>5, <2>1, RulesNest
<1>6. ASSUME NEW r \in 0 .. YYNRULE - 1 PROVE Rule(r)[1] = "cond_else" <=> r = 33
  <2>1. Rule(33)[1] = "cond_else" /\ Rule(32)[1] = "condline" /\ Rule(31)[1] = "condlines"
        /\ Rule(30)[1] = "condlines" /\ Rule(29)[1] = "condlines"
    BY <1>1, <1>2
  <2>2. Rule(r)[1] = "cond_else" => r \in 29 .. 33
    BY <1>4 DEF Conditions
  <2>3. r \in 29 .. 33 => r \in {29, 30, 31, 32, 33}
    OBVIOUS
  <2> QED
    BY <2>1, <2>2, <2>3
<1>7. /\ Rule(28)[2] \in Openers /\ Rule(28)[2] = "globalstart"
      /\ Rule(32)[2] = "context" /\ Rule(33)[2] = "context_else"
  BY <1>1 DEF Openers
<1>8. Rule(32)[2] \in Openers /\ Rule(33)[2] \in Openers
  BY <1>7 DEF Openers
<1>9. ASSUME NEW r \in {28, 32, 33}, NEW k \in 3 .. Length(r) + 1 PROVE Rule(r)[k] \notin Openers
  <2>1. r \in 0 .. YYNRULE - 1
    BY DEF YYNRULE
  <2>2. k \in 2 .. Length(r) + 1 /\ k # 2
    BY <1>3
  <2> QED
    BY <1>5, <2>1, <2>2
<1> QED
  BY <1>1, <1>2, <1>3, <1>4, <1>5, <1>6, <1>7, <1>8, <1>9

\* The right side of the rule, as it is on the stack.
LEMMA Handle ==
  ASSUME StackInv, NEW r \in 0 .. YYNRULE - 1, Reducing(r),
         NEW m, m = Len(yystack) - Length(r)
  PROVE  /\ IsSeq(yystack) /\ m \in 1 .. Len(yystack) /\ Rest(r) = SubSeq(yystack, 1, m)
         /\ Len(yystack) = m + Length(r) /\ Length(r) \in Nat /\ Len(yystack) \in Nat
         /\ \A j \in m + 1 .. Len(yystack) :
              j - m + 1 \in 2 .. Length(r) + 1 /\ yystack[j].major = Rule(r)[j - m + 1]
<1>1. Length(r) \in Nat /\ Len(yystack) \in Nat /\ Len(yystack) > Length(r)
  BY ReducingFacts DEF MaxRule
<1>2. m \in 1 .. Len(yystack) /\ Len(yystack) = m + Length(r)
  BY <1>1
<1>3. RuleInfo(r)[2] = Length(r)
  BY ReducingFacts
<1>4. ASSUME NEW j \in m + 1 .. Len(yystack)
      PROVE  j - m + 1 \in 2 .. Length(r) + 1 /\ yystack[j].major = Rule(r)[j - m + 1]
  <2>1. PICK k \in Int : k = j - Len(yystack)
    BY <1>1, <1>2
  <2>0. PICK a \in Nat, n \in Nat : a = Length(r) /\ n = Len(yystack)
    BY <1>1
  <2>1a. m \in 1 .. n /\ n = m + a /\ j \in m + 1 .. n /\ k = j - n
    BY <1>2, <2>0, <2>1
  <2>1b. /\ -a < k /\ k <= 0 /\ n + k = j /\ a + 1 + k = j - m + 1
         /\ j - m + 1 \in 2 .. a + 1
    BY ONLY <2>1a, a \in Nat, n \in Nat, k \in Int
  <2>2. /\ -Length(r) < k /\ k <= 0 /\ Len(yystack) + k = j /\ Length(r) + 1 + k = j - m + 1
        /\ j - m + 1 \in 2 .. Length(r) + 1
    BY <2>0, <2>1b
  <2>3. yystack[Len(yystack) + k].major = Rule(r)[Length(r) + 1 + k]
    BY <2>2, MspFacts
  <2> QED
    BY <2>2, <2>3
<1> QED
  BY <1>1, <1>2, <1>3, <1>4 DEF Rest, StackInv, Route

\* How a reduction ends: the left side is on the stack, the stack was too small for the
\* left side of an empty rule, or the input is accepted.
Grown(r, minor) ==
  /\ \E t \in States :
       yystack' = Append(Rest(r), [stateno |-> t, major |-> Rule(r)[1], minor |-> minor])
  /\ overflowed' = overflowed /\ yymajor' = yymajor
GivenUp(r)  == yystack' = <<>> /\ overflowed' /\ Length(r) = 0 /\ yymajor' = "none"
InputEnds(r) ==
  yystack' = <<>> /\ overflowed' = overflowed /\ r = 0 /\ Len(yystack) = 2 /\ yymajor' = "none"

LEMMA Outcome ==
  ASSUME StackInv, StackFits, NEW r \in 0 .. YYNRULE - 1, Reducing(r), NEW minor, Becomes(r, minor)
  PROVE  /\ Grown(r, minor) \/ GivenUp(r) \/ InputEnds(r)
         /\ StackFits'
<1> DEFINE m == Len(yystack) - Length(r)
           lhs == Rule(r)[1]
           q == Last(Rest(r)).stateno
           act == ReduceAction(q, Symbol[lhs])
           L == Len(yystack)
<1>1. /\ yystack # <<>> /\ r \in Reduces(Last(yystack).stateno)
      /\ RuleInfo(r) = <<Symbol[lhs], Length(r)>> /\ lhs \in Symbols \ Tokens
  BY ReducingFacts DEF Top
<1>2. IsSeq(yystack) /\ m \in 1 .. L /\ L \in Nat /\ Rest(r) = SubSeq(yystack, 1, m) /\ L = m + Length(r)
      /\ Length(r) \in Nat
  BY Handle
<1>3. Route(Rest(r)) /\ Rest(r) # <<>> /\ Last(Rest(r)) = yystack[m]
  BY <1>2, PathPrefix DEF StackInv
<1>4. /\ IsSeq(Rest(r)) /\ Len(Rest(r)) = m /\ \A i \in 1 .. m : Rest(r)[i] = yystack[i]
  <2>1. m \in 0 .. L
    BY <1>2
  <2> QED
    BY <1>2, <2>1, PrefixFacts
<1>5. Target(yystack[m].stateno, Symbol[lhs]) \in States \cup {YY_ACCEPT_ACTION}
  BY <1>1, HandleOnTop DEF StackInv
<1>6. act \in States \cup {YY_ACCEPT_ACTION} /\ q \in States
  <2>1. q \in States
    BY <1>3, SeqFacts DEF Route
  <2> QED
    BY <1>1, <1>3, <1>5, <2>1, SymbolFacts
<1>7. Entry(yyTokenName, Symbol[lhs]) = lhs
  BY <1>1, SymbolsNumbered
<1>8. /\ IF act < YYNSTATE THEN Push(Rest(r), act, lhs, minor)
         ELSE /\ yystack' = IF act = YY_ACCEPT_ACTION THEN <<>> ELSE Rest(r)
              /\ overflowed' = overflowed
      /\ IF yystack' = <<>> THEN yymajor' = "none" ELSE yymajor' = yymajor
  <2>1. RuleInfo(r)[1] = Symbol[lhs]
    BY <1>1
  <2> QED
    BY <2>1, <1>7 DEF Becomes
<1>9. yystack[1].major = "$" /\ L <= YYSTACKDEPTH /\ YYSTACKDEPTH \in Nat \ {0}
  BY <1>1, StackAssumption DEF StackFits
<1>10. Len(<<>>) = 0
  OBVIOUS
<1>11. yystack' = <<>> => StackFits'
  BY <1>9, <1>10 DEF StackFits
<1> HIDE DEF act, m, q, L
<1>12. CASE act < YYNSTATE
  <2>1. act \in States
    BY <1>6, <1>12 DEF YY_ACCEPT_ACTION, YYNSTATE, YYNRULE
  <2> DEFINE e == [stateno |-> act, major |-> lhs, minor |-> minor]
  <2>2. IF m = YYSTACKDEPTH THEN yystack' = <<>> /\ overflowed' = TRUE
        ELSE yystack' = Append(Rest(r), e) /\ overflowed' = overflowed
    BY <1>4, <1>8, <1>12 DEF Push
  <2>3. CASE m = YYSTACKDEPTH
    <3>1. Length(r) = 0
      BY <1>2, <1>9, <2>3
    <3>2. GivenUp(r)
      BY <2>2, <2>3, <3>1, <1>8 DEF GivenUp
    <3> QED
      BY <2>2, <2>3, <3>2, <1>11
  <2>4. CASE m # YYSTACKDEPTH
    <3>1. m + 1 <= YYSTACKDEPTH /\ m \in Nat /\ 1 \in 1 .. m
      BY <1>2, <1>9, <2>4
    <3> HIDE DEF e
    <3>2. /\ yystack' # <<>> /\ Len(yystack') = m + 1
          /\ \A i \in 1 .. m : yystack'[i] = Rest(r)[i]
      BY <2>2, <2>4, <1>4, AppendFacts
    <3>3. StackFits'
      <4>1. yystack'[1] = yystack[1]
        BY <3>1, <3>2, <1>4
      <4> QED
        BY <3>1, <3>2, <4>1, <1>9 DEF StackFits
    <3>4. Grown(r, minor)
      BY <2>1, <2>2, <2>4, <3>2, <1>8 DEF Grown, e
    <3> QED
      BY <3>3, <3>4
  <2> QED
    BY <2>3, <2>4
<1>13. CASE ~(act < YYNSTATE)
  <2>1. act = YY_ACCEPT_ACTION
    BY <1>6, <1>13 DEF States, YYNSTATE
  <2>2. yystack' = <<>> /\ overflowed' = overflowed /\ yymajor' = "none"
    BY <2>1, <1>8, <1>13
  <2>3. q = 0 /\ lhs = "input"
    BY <2>1, <1>1, <1>6, AcceptsAtEnd DEF act
  <2>4. r = 0 /\ Length(r) = 1
    BY <2>3, RuleFacts
  <2>5. m = 1
    <3> SUFFICES ASSUME m # 1 PROVE FALSE
      OBVIOUS
    <3>1. PICK i \in 1 .. L - 1 : i + 1 = m
      <4>1. m - 1 \in 1 .. L - 1 /\ (m - 1) + 1 = m
        BY <1>2
      <4> QED
        BY <4>1
    <3>2. Step(yystack[i], yystack[i + 1]) \in Edges
      BY <3>1 DEF StackInv, Route, L
    <3>3. Step(yystack[i], yystack[i + 1]).to = yystack[m].stateno
      BY <3>1 DEF Step
    <3>4. yystack[m].stateno = 0
      BY <2>3, <1>3 DEF q
    <3> QED
      BY <3>2, <3>3, <3>4, AcceptsAtEnd
  <2>6. L = 2
    BY <2>4, <2>5, <1>2
  <2> QED
    BY <2>2, <2>4, <2>6, <1>11 DEF InputEnds, L
<1> QED
  BY <1>12, <1>13

LEMMA NoMarks == Marks(<<>>, Openers, 0) = 0 /\ \A D : MinorsFit(<<>>, D)
<1>1. Len(<<>>) = 0 /\ 1 .. 0 = {}
  OBVIOUS
<1>2. Marks(<<>>, Openers, 0) = 0
  BY <1>1, MarksNone
<1> QED
  BY <1>1, <1>2 DEF MinorsFit

\* What is below the right side of a rule; the right side has the opener of a block if
\* the rule ends one.
LEMMA RestFacts ==
  ASSUME StackInv, NEW r \in 0 .. YYNRULE - 1, Reducing(r)
  PROVE  /\ IsSeq(Rest(r)) /\ Marks(Rest(r), Openers, 0) \in Nat
         /\ r \in {28, 32, 33} => Marks(yystack, Openers, 0) = Marks(Rest(r), Openers, 0) + 1
         /\ r \notin {28, 32, 33} => Marks(yystack, Openers, 0) = Marks(Rest(r), Openers, 0)
         /\ \A D : MinorsFit(yystack, D) => MinorsFit(Rest(r), D)
<1>0. PICK m : m = Len(yystack) - Length(r)
  OBVIOUS
<1>1. /\ IsSeq(yystack) /\ m \in 1 .. Len(yystack) /\ Rest(r) = SubSeq(yystack, 1, m)
      /\ Len(yystack) \in Nat /\ Len(yystack) = m + Length(r)
      /\ \A j \in m + 1 .. Len(yystack) :
           j - m + 1 \in 2 .. Length(r) + 1 /\ yystack[j].major = Rule(r)[j - m + 1]
  BY <1>0, Handle
<1>2. m \in 0 .. Len(yystack) /\ 0 \in 0 .. m
  BY <1>1
<1>3. /\ IsSeq(Rest(r)) /\ Len(Rest(r)) = m /\ \A i \in 1 .. m : Rest(r)[i] = yystack[i]
  BY <1>1, <1>2, PrefixFacts
<1>4. Marks(Rest(r), Openers, 0) \in Nat
  BY <1>3, MarksNat
<1>5. ASSUME r \notin {28, 32, 33} PROVE Marks(yystack, Openers, 0) = Marks(Rest(r), Openers, 0)
  <2>1. \A k \in 2 .. Length(r) + 1 : Rule(r)[k] \notin Openers
    BY <1>5, RuleFacts
  <2>2. \A j \in m + 1 .. Len(yystack) : yystack[j].major \notin Openers
    BY <1>1, <2>1
  <2> QED
    BY <1>1, <1>2, <2>2, MarksCut
<1>6. ASSUME r \in {28, 32, 33} PROVE Marks(yystack, Openers, 0) = Marks(Rest(r), Openers, 0) + 1
  <2>1. /\ Length(r) = 4 /\ Rule(r)[2] \in Openers
        /\ \A k \in 3 .. Length(r) + 1 : Rule(r)[k] \notin Openers
    BY <1>6, RuleFacts
  <2>2. PICK k \in m + 1 .. Len(yystack) : k = m + 1 /\ k - m + 1 = 2
    BY <1>1, <2>1
  <2>3. ASSUME NEW j \in m + 1 .. Len(yystack), j # k PROVE yystack[j].major \notin Openers
    <3>1. j - m + 1 \in 3 .. Length(r) + 1
      BY <1>1, <2>1, <2>2, <2>3
    <3> QED
      BY <1>1, <2>1, <3>1
  <2>4. yystack[k].major \in Openers
    BY <1>1, <2>1, <2>2
  <2>5. IsSeq(yystack) /\ m \in 0 .. Len(yystack) /\ 0 \in 0 .. m
    BY <1>1, <1>2
  <2>6. Marks(yystack, Openers, 0) = Marks(SubSeq(yystack, 1, m), Openers, 0) + 1
    BY ONLY <2>3, <2>4, <2>5, MarksCutOne
  <2> QED
    BY <1>1, <2>6
<1>7. \A i \in 1 .. m : i \in 1 .. Len(yystack)
  BY <1>1
<1>8. ASSUME NEW D, MinorsFit(yystack, D) PROVE MinorsFit(Rest(r), D)
  BY <1>3, <1>7, <1>8 DEF MinorsFit
<1> QED
  BY <1>3, <1>4, <1>5, <1>6, <1>8

\* What is pushed.
LEMMA MinorsPush ==
  ASSUME NEW st, IsSeq(st), NEW D, MinorsFit(st, D), NEW e, e.major \in Conditions => e.minor.value \in D
  PROVE  MinorsFit(Append(st, e), D)
<1>1. /\ Len(st) \in Nat /\ Len(Append(st, e)) = Len(st) + 1 /\ Append(st, e)[Len(st) + 1] = e
      /\ \A i \in 1 .. Len(st) : Append(st, e)[i] = st[i]
  BY SeqFacts, AppendFacts
<1>2. \A i \in 1 .. Len(st) + 1 : i \in 1 .. Len(st) \/ i = Len(st) + 1
  BY <1>1
<1> QED
  BY <1>1, <1>2 DEF MinorsFit

\* A reduction keeps the tree if it makes as many contexts current, or leaves as many,
\* as its rule begins or ends blocks.
LEMMA ReducedTree ==
  ASSUME StackInv, TreeInv, NEW r \in 0 .. YYNRULE - 1, Reducing(r), NEW minor, Becomes(r, minor),
         NEW n2, n2 = Len(ctx.configs_stack)',
         ctx'.ok => /\ ctx.ok /\ ContextsFit(ctx') /\ DOMAIN ctx.dcs \subseteq DOMAIN ctx'.dcs
                    /\ r \in 29 .. 33 => minor.value \in DOMAIN ctx'.dcs
                    /\ r \in {27, 34, 35} => n2 = Len(ctx.configs_stack) + 1
                    /\ r \in {28, 32, 33} => n2 = Len(ctx.configs_stack) - 1
                    /\ r \notin {27, 28, 32, 33, 34, 35} => n2 = Len(ctx.configs_stack)
  PROVE  TreeInv'
<1>1. StackFits /\ StackFits' /\ (Grown(r, minor) \/ GivenUp(r) \/ InputEnds(r))
  BY Outcome DEF TreeInv
<1>2. ASSUME ctx'.ok PROVE TreeFits'
  <2>1. PICK n, D, D2 : n = Len(ctx.configs_stack) /\ D = DOMAIN ctx.dcs /\ D2 = DOMAIN ctx'.dcs
    OBVIOUS
  <2>2. /\ ContextsFit(ctx') /\ D \subseteq D2 /\ (r \in 29 .. 33 => minor.value \in D2)
        /\ r \in {27, 34, 35} => n2 = n + 1
        /\ r \in {28, 32, 33} => n2 = n - 1
        /\ r \notin {27, 28, 32, 33, 34, 35} => n2 = n
    BY <1>2, <2>1
  <2>3. /\ ContextsFit(ctx) /\ MinorsFit(yystack, D) /\ BlocksCounted(yystack, overflowed, n) /\ n \in Nat
    BY <1>2, <2>1, DcsFacts DEF TreeInv, TreeFits
  <2>4. n2 \in Nat
    BY <2>2, DcsFacts
  <2>5. MinorsFit(yystack, D2)
    BY <2>2, <2>3 DEF MinorsFit
  <2>6. PICK k : k = Marks(Rest(r), Openers, 0)
    OBVIOUS
  <2>7. /\ IsSeq(Rest(r)) /\ k \in Nat /\ MinorsFit(Rest(r), D2)
        /\ r \in {28, 32, 33} => Marks(yystack, Openers, 0) = k + 1
        /\ r \notin {28, 32, 33} => Marks(yystack, Openers, 0) = k
    BY <2>5, <2>6, RestFacts
  <2>8. CASE Grown(r, minor)
    <3>1. PICK t \in States :
            yystack' = Append(Rest(r), [stateno |-> t, major |-> Rule(r)[1], minor |-> minor])
      BY <2>8 DEF Grown
    <3> DEFINE e0 == [stateno |-> t, major |-> Rule(r)[1], minor |-> minor]
    <3>a. PICK e : e = e0
      OBVIOUS
    <3>2. e.major = Rule(r)[1] /\ e.minor = minor
      BY <3>a
    <3>3. yystack' = Append(Rest(r), e) /\ overflowed' = overflowed
      BY <2>8, <3>1, <3>a DEF Grown
    <3>4. MinorsFit(yystack', D2)
      <4>1. e.major \in Conditions => e.minor.value \in D2
        BY <2>2, <3>2, RuleFacts
      <4> QED
        BY <2>7, <3>3, <4>1, MinorsPush
    <3>5. /\ e.major \in Openers => Marks(yystack', Openers, 0) = k + 1
          /\ e.major \notin Openers => Marks(yystack', Openers, 0) = k
      <4>1. 0 \in 0 .. Len(Rest(r))
        BY <2>7, SeqFacts
      <4> QED
        BY <2>6, <2>7, <3>3, <4>1, MarksAppend
    <3>6. e.major \in Openers <=> r \in {27, 34, 35}
      BY <3>2, RuleFacts
    <3>7. BlocksCounted(yystack', overflowed', n2)
      BY <2>2, <2>3, <2>7, <3>3, <3>5, <3>6 DEF BlocksCounted
    <3> QED
      BY <2>1, <2>2, <3>4, <3>7 DEF TreeFits
  <2>9. CASE GivenUp(r)
    <3>1. yystack' = <<>> /\ overflowed'
      BY <2>9 DEF GivenUp
    <3>2. MinorsFit(yystack', D2) /\ BlocksCounted(yystack', overflowed', n2)
      BY <2>4, <3>1, NoMarks DEF BlocksCounted
    <3> QED
      BY <2>1, <2>2, <3>2 DEF TreeFits
  <2>10. CASE InputEnds(r)
    <3>1. yystack' = <<>> /\ overflowed' = overflowed /\ r = 0 /\ Len(yystack) = 2
      BY <2>10 DEF InputEnds
    <3>2. Marks(yystack, Openers, 0) = 0
      <4>1. Length(r) = 1 /\ yystack # <<>> /\ yystack[1].major = "$"
        BY <1>1, <3>1, RuleFacts, ReducingFacts DEF StackFits
      <4>2. Rest(r) = SubSeq(yystack, 1, 1) /\ IsSeq(yystack) /\ 1 \in 0 .. Len(yystack)
        <5>1. PICK m : m = Len(yystack) - Length(r)
          OBVIOUS
        <5>2. IsSeq(yystack) /\ m \in 1 .. Len(yystack) /\ Rest(r) = SubSeq(yystack, 1, m)
          BY <5>1, Handle
        <5>3. m = 1
          BY <3>1, <4>1, <5>1
        <5> QED
          BY <5>2, <5>3
      <4>3. Len(Rest(r)) = 1 /\ Rest(r)[1].major = "$"
        BY <4>1, <4>2, PrefixFacts
      <4>4. \A j \in 0 + 1 .. Len(Rest(r)) : Rest(r)[j].major \notin Openers
        BY <4>3 DEF Openers
      <4> QED
        BY <2>6, <2>7, <3>1, <4>4, MarksNone
    <3>3. MinorsFit(yystack', D2) /\ BlocksCounted(yystack', overflowed', n2)
      BY <2>2, <2>3, <3>1, <3>2, NoMarks DEF BlocksCounted
    <3> QED
      BY <2>1, <2>2, <3>3 DEF TreeFits
  <2> QED
    BY <1>1, <2>8, <2>9, <2>10
<1> QED
  BY <1>1, <1>2 DEF TreeInv

-----------------------------------------------------------------------------
(***************************************************************************)
(* What the operations on the contexts do to the tree.                     *)
(***************************************************************************)
\* Nothing but a new index of all_configs has to do with what is lost of it.
LEMMA LostKept ==
  ASSUME NEW c, ConfigShape(c)
  PROVE  /\ \A d : Entered(c, d).lost = c.lost
         /\ \A d, v : [Entered(c, d) EXCEPT !.straight = v].lost = c.lost
         /\ Pop(c).lost = c.lost
         /\ \A a, b : Linked(c, a, b).lost = c.lost
         /\ \A v : [c EXCEPT !.ok = v].lost = c.lost
<1>1. DOMAIN c = Members /\ "lost" \in Members
  BY DEF ConfigShape, Members
<1>2. \A v : [c EXCEPT !.ok = v].lost = c.lost
  BY <1>1
<1>3. \A d : Entered(c, d).lost = c.lost /\ DOMAIN Entered(c, d) = Members
  BY <1>1 DEF Entered
<1>4. ASSUME NEW d, NEW v PROVE [Entered(c, d) EXCEPT !.straight = v].lost = c.lost
  <2>1. PICK e : e = Entered(c, d)
    OBVIOUS
  <2>2. e.lost = c.lost /\ DOMAIN e = Members
    BY <1>3, <2>1
  <2>3. [e EXCEPT !.straight = v].lost = c.lost
    BY <1>1, <2>2
  <2> QED
    BY <2>1, <2>3
<1>5. Pop(c).lost = c.lost
  BY <1>1 DEF Pop
<1>6. \A a, b : Linked(c, a, b).lost = c.lost
  BY <1>1 DEF Linked
<1> QED
  BY <1>2, <1>3, <1>4, <1>5, <1>6

\* The elements of the current context are these now.
Reset(dcs, x, v, l) == [[dcs EXCEPT ![x].value = v] EXCEPT ![x].lost = l]

LEMMA ReindexedFacts ==
  ASSUME NEW c, ConfigShape(c), NEW S, NEW harm, NEW e \in Reindexed(c, S, harm)
  PROVE  \E l :
           /\ harm => l \subseteq S /\ \A x, y \in S \ l : x.key = y.key => x = y
           /\ ~harm => l = {}
           /\ Holds(e, c.ok, c.current, c.configs_stack, c.all_configs,
                    Reset(c.dcs, c.current, Indexed(S \ l), l))
           /\ e.lost = c.lost /\ e.straight = c.straight
<1> DEFINE lost == IF harm THEN Hides(S, LAMBDA x : x.key) ELSE {{}}
<1>1. PICK l \in lost : e = [c EXCEPT !.dcs[c.current].value = Indexed(S \ l), !.dcs[c.current].lost = l]
  BY DEF Reindexed
<1> DEFINE ix == Indexed(S \ l)
           dcs == [c.dcs EXCEPT ![c.current].value = ix]
<1>2. PICK f : f = [c EXCEPT !.dcs = dcs]
  OBVIOUS
<1>3. Holds(f, c.ok, c.current, c.configs_stack, c.all_configs, dcs)
  BY <1>2, Changed DEF ConfigShape
<1>4. PICK dcs2 : dcs2 = [f.dcs EXCEPT ![c.current].lost = l]
  OBVIOUS
<1>5. e = [f EXCEPT !.dcs = dcs2]
  BY <1>1, <1>2, <1>4
<1>6. dcs2 = Reset(c.dcs, c.current, ix, l)
  BY <1>3, <1>4 DEF Reset, Holds
<1>7. /\ harm => l \subseteq S /\ \A x, y \in S \ l : x.key = y.key => x = y
      /\ ~harm => l = {}
  BY DEF Hides
<1> HIDE DEF ix, dcs, lost
<1>8. Holds(e, f.ok, f.current, f.configs_stack, f.all_configs, dcs2)
  BY <1>3, <1>5, Changed DEF Holds
<1>9. f.lost = c.lost /\ f.straight = c.straight
  BY <1>2 DEF ConfigShape, Members
<1>10. e.lost = f.lost /\ e.straight = f.straight
  BY <1>3, <1>5 DEF Holds, Members
<1>11. Holds(e, c.ok, c.current, c.configs_stack, c.all_configs, dcs2)
  BY <1>3, <1>8 DEF Holds
<1> QED
  BY <1>6, <1>7, <1>9, <1>10, <1>11 DEF ix

LEMMA ResetFacts ==
  ASSUME NEW dcs, IsSeq(dcs), NEW x \in DOMAIN dcs, \A d \in DOMAIN dcs : DOMAIN dcs[d] = ContextMembers,
         NEW v, NEW l, NEW u, u = Reset(dcs, x, v, l)
  PROVE  /\ IsSeq(u) /\ DOMAIN u = DOMAIN dcs /\ Len(u) = Len(dcs)
         /\ \A d \in DOMAIN dcs : DOMAIN u[d] = ContextMembers
         /\ \A d \in DOMAIN dcs, g \in ContextMembers : d # x \/ g \notin {"value", "lost"} => u[d][g] = dcs[d][g]
         /\ \A d \in DOMAIN dcs : d # x => u[d] = dcs[d]
         /\ u[x].value = v /\ u[x].lost = l
<1>1. PICK f \in ContextMembers, g \in ContextMembers : f = "value" /\ g = "lost"
  BY DEF ContextMembers
<1>2. PICK t : t = With(dcs, x, f, v)
  OBVIOUS
<1>3. PICK w : w = With(t, x, g, l)
  OBVIOUS
<1>4. u = w
  BY <1>1, <1>2, <1>3 DEF With, Reset
<1>5. /\ IsSeq(t) /\ DOMAIN t = DOMAIN dcs /\ Len(t) = Len(dcs)
      /\ \A d \in DOMAIN dcs : DOMAIN t[d] = ContextMembers
      /\ \A d \in DOMAIN dcs, h \in ContextMembers : d # x \/ h # f => t[d][h] = dcs[d][h]
      /\ t[x][f] = v
  BY <1>2, FieldSet
<1>6. IsSeq(t) /\ x \in DOMAIN t /\ \A d \in DOMAIN t : DOMAIN t[d] = ContextMembers
  BY <1>5
<1>7. /\ IsSeq(w) /\ DOMAIN w = DOMAIN t /\ Len(w) = Len(t)
      /\ \A d \in DOMAIN t : DOMAIN w[d] = ContextMembers
      /\ \A d \in DOMAIN t, h \in ContextMembers : d # x \/ h # g => w[d][h] = t[d][h]
      /\ w[x][g] = l
  BY ONLY <1>3, <1>6, g \in ContextMembers, FieldSet
<1>8. \A d \in DOMAIN dcs : d # x => w[d] = dcs[d]
  BY <1>2, <1>3 DEF With
<1>9. \A d \in DOMAIN dcs, h \in ContextMembers : d # x \/ h \notin {"value", "lost"} => w[d][h] = dcs[d][h]
  BY <1>1, <1>5, <1>7
<1>10. w[x].value = v /\ w[x].lost = l
  <2>1. w[x][f] = t[x][f]
    BY <1>1, <1>7, <1>6
  <2> QED
    BY <2>1, <1>1, <1>5, <1>7
<1> QED
  BY <1>4, <1>5, <1>7, <1>8, <1>9, <1>10

\* The tree is the same, whatever the elements are.
SameAs(e, c) ==
  /\ e.ok = c.ok /\ ContextsFit(e) /\ DOMAIN e.dcs = DOMAIN c.dcs /\ e.configs_stack = c.configs_stack

LEMMA ReindexedTree ==
  ASSUME NEW c, ConfigShape(c), ContextsFit(c), NEW S, NEW harm, NEW e \in Reindexed(c, S, harm)
  PROVE  SameAs(e, c)
<1>1. PICK l : /\ Holds(e, c.ok, c.current, c.configs_stack, c.all_configs,
                        Reset(c.dcs, c.current, Indexed(S \ l), l))
               /\ e.lost = c.lost
  BY ReindexedFacts
<1>2. PICK v : v = Indexed(S \ l)
  OBVIOUS
<1>3. /\ IsSeq(c.dcs) /\ c.current \in DOMAIN c.dcs
      /\ \A d \in DOMAIN c.dcs : DOMAIN c.dcs[d] = ContextMembers
  BY DcsFacts DEF ContextsFit
<1>4. /\ e.ok = c.ok /\ e.current = c.current /\ e.configs_stack = c.configs_stack
      /\ e.all_configs = c.all_configs /\ e.dcs = Reset(c.dcs, c.current, v, l) /\ e.lost = c.lost
  BY <1>1, <1>2 DEF Holds
<1>5. /\ IsSeq(e.dcs) /\ DOMAIN e.dcs = DOMAIN c.dcs /\ Len(e.dcs) = Len(c.dcs)
      /\ \A d \in DOMAIN c.dcs : DOMAIN e.dcs[d] = ContextMembers
      /\ \A d \in DOMAIN c.dcs, g \in ContextMembers :
           d # c.current \/ g \notin {"value", "lost"} => e.dcs[d][g] = c.dcs[d][g]
  <2>1. PICK s, x, u : s = c.dcs /\ x = c.current /\ u = e.dcs
    OBVIOUS
  <2>2. /\ IsSeq(u) /\ DOMAIN u = DOMAIN s /\ Len(u) = Len(s)
        /\ \A d \in DOMAIN s : DOMAIN u[d] = ContextMembers
        /\ \A d \in DOMAIN s, g \in ContextMembers : d # x \/ g \notin {"value", "lost"} => u[d][g] = s[d][g]
    <3>1. IsSeq(s) /\ x \in DOMAIN s /\ (\A d \in DOMAIN s : DOMAIN s[d] = ContextMembers) /\ u = Reset(s, x, v, l)
      BY <1>3, <1>4, <2>1
    <3> QED
      BY ONLY <3>1, ResetFacts
  <2> QED
    BY <2>1, <2>2
<1>6. \A d \in DOMAIN c.dcs :
        /\ e.dcs[d].key = c.dcs[d].key /\ e.dcs[d].context_ndx = c.dcs[d].context_ndx
        /\ e.dcs[d].parent = c.dcs[d].parent /\ e.dcs[d].prev = c.dcs[d].prev
  BY <1>5 DEF ContextMembers
<1>7. \A d \in DOMAIN c.dcs : c.dcs[d].prev \in 0 .. d - 1
  BY DEF ContextsFit, ContextFits
<1>8. ContextsFit(e)
  BY <1>4, <1>5, <1>6, <1>7, TreeKept
<1> QED
  BY <1>4, <1>5, <1>8 DEF SameAs

LEMMA PutTree ==
  ASSUME NEW c, ConfigShape(c), ContextsFit(c), NEW name, NEW du
  PROVE  \A e \in Put(c, name, du) : SameAs(e, c)
<1>1. \A e \in Put(c, name, du) : \E S, harm : e \in Reindexed(c, S, harm)
  BY DEF Put
<1> QED
  BY <1>1, ReindexedTree

-----------------------------------------------------------------------------
(***************************************************************************)
(* The reductions.                                                         *)
(***************************************************************************)

\* A rule without blocks that changes no more than a variable.
LEMMA SameTree ==
  ASSUME StackInv, TreeInv, NEW r \in (0 .. 26) \cup (36 .. 42), Reducing(r), NEW minor, Becomes(r, minor),
         \/ ctx' = ctx \/ ~ctx'.ok
         \/ \E name, du : ctx' \in Put(ctx, name, du)
  PROVE  TreeInv'
<1>1. r \in 0 .. YYNRULE - 1 /\ r \notin {27, 28, 32, 33, 34, 35} /\ r \notin 29 .. 33
  BY DEF YYNRULE
<1>2. PICK n2 : n2 = Len(ctx.configs_stack)'
  OBVIOUS
<1>3. ASSUME ctx'.ok
      PROVE  /\ ctx.ok /\ ContextsFit(ctx') /\ DOMAIN ctx.dcs \subseteq DOMAIN ctx'.dcs
             /\ n2 = Len(ctx.configs_stack)
  <2>1. ConfigShape(ctx)
    BY DEF StackInv
  <2>2. CASE ctx' = ctx
    BY <1>2, <1>3, <2>2 DEF TreeInv, TreeFits
  <2>3. ASSUME NEW name, NEW du, ctx' \in Put(ctx, name, du)
        PROVE  /\ ctx.ok /\ ContextsFit(ctx') /\ DOMAIN ctx.dcs \subseteq DOMAIN ctx'.dcs
               /\ n2 = Len(ctx.configs_stack)
    <3>1. ctx.ok
      BY <1>3, <2>1, <2>3, VariableOps
    <3>2. ContextsFit(ctx)
      BY <3>1 DEF TreeInv, TreeFits
    <3>3. SameAs(ctx', ctx)
      BY <2>1, <2>3, <3>2, PutTree
    <3> QED
      BY <1>2, <3>1, <3>3 DEF SameAs
  <2> QED
    BY <1>3, <2>2, <2>3
<1> QED
  BY <1>1, <1>2, <1>3, ReducedTree

\* The block at the end of the right side of a rule, and the one at its beginning.
LEMMA JoinedBlocks ==
  ASSUME StackInv, TreeFits, NEW r \in {29, 30, 31}, Reducing(r)
  PROVE  Msp(0).value \in DOMAIN ctx.dcs /\ (r # 31 => Msp(-3).value \in DOMAIN ctx.dcs)
<1>1. r \in 0 .. YYNRULE - 1
  BY DEF YYNRULE
<1>2. /\ Length(31) = 1 /\ Rule(31)[2] \in Conditions
      /\ Length(29) = 4 /\ Rule(29)[2] \in Conditions /\ Rule(29)[5] \in Conditions
      /\ Length(30) = 4 /\ Rule(30)[2] \in Conditions /\ Rule(30)[5] \in Conditions
  BY RuleFacts DEF Conditions
<1>3. ASSUME NEW k \in Int, -Length(r) < k, k <= 0, Rule(r)[Length(r) + 1 + k] \in Conditions
      PROVE  Msp(k).value \in DOMAIN ctx.dcs
  <2>1. PICK i : i = Len(yystack) + k
    OBVIOUS
  <2>2. i \in 1 .. Len(yystack) /\ yystack[i].major \in Conditions
    <3>1. DOMAIN yystack = 1 .. Len(yystack)
      BY SeqFacts DEF StackInv, Route
    <3> QED
      BY <1>1, <1>3, <2>1, <3>1, MspFacts
  <2>3. Msp(k) = yystack[i].minor
    BY <2>1 DEF Msp
  <2> QED
    BY <2>2, <2>3 DEF TreeFits, MinorsFit
<1>4. PICK k \in Int : k = -3
  OBVIOUS
<1>5. PICK l \in Int : l = 0
  OBVIOUS
<1>6. -Length(r) < l /\ l <= 0 /\ Rule(r)[Length(r) + 1 + l] \in Conditions
  <2>1. r = 31 => Length(r) + 1 + l = 2
    BY <1>2, <1>5
  <2>2. r # 31 => Length(r) + 1 + l = 5
    BY <1>2, <1>5
  <2>3. -Length(r) < l /\ l <= 0
    BY <1>2, <1>5
  <2> QED
    BY <1>2, <2>1, <2>2, <2>3
<1>7. r # 31 => -Length(r) < k /\ k <= 0 /\ Rule(r)[Length(r) + 1 + k] \in Conditions
  <2>1. r # 31 => Length(r) + 1 + k = 2 /\ -Length(r) < k /\ k <= 0
    BY <1>2, <1>4
  <2> QED
    BY <1>2, <2>1
<1>8. Msp(l).value \in DOMAIN ctx.dcs /\ (r # 31 => Msp(k).value \in DOMAIN ctx.dcs)
  BY <1>3, <1>6, <1>7
<1> QED
  BY <1>4, <1>5, <1>8

LEMMA PassOnTree ==
  ASSUME StackInv, TreeInv, PassOn
  PROVE  TreeInv'
<1>1. \/ Reducing(31) /\ Becomes(31, Msp(0)) /\ ctx' = ctx
      \/ \E r \in {13, 19, 21, 23} : \E minor : Reducing(r) /\ Becomes(r, minor) /\ ctx' = ctx
  BY DEF PassOn
<1>2. CASE Reducing(31) /\ Becomes(31, Msp(0)) /\ ctx' = ctx
  <2>1. PICK r \in 0 .. YYNRULE - 1 : r = 31 /\ r \in {29, 30, 31} /\ r \notin {27, 28, 32, 33, 34, 35}
    BY DEF YYNRULE
  <2>2. PICK n2 : n2 = Len(ctx.configs_stack)'
    OBVIOUS
  <2>3. Reducing(r) /\ Becomes(r, Msp(0))
    BY <1>2, <2>1
  <2>4. ASSUME ctx'.ok
        PROVE  /\ ctx.ok /\ ContextsFit(ctx') /\ DOMAIN ctx.dcs \subseteq DOMAIN ctx'.dcs
               /\ Msp(0).value \in DOMAIN ctx'.dcs /\ n2 = Len(ctx.configs_stack)
    <3>1. ctx.ok /\ TreeFits /\ ContextsFit(ctx)
      BY <1>2, <2>4 DEF TreeInv, TreeFits
    <3>2. Msp(0).value \in DOMAIN ctx.dcs
      BY <2>1, <2>3, <3>1, JoinedBlocks
    <3> QED
      BY <1>2, <2>2, <3>1, <3>2
  <2> QED
    BY <2>1, <2>2, <2>3, <2>4, ReducedTree
<1>3. CASE \E r \in {13, 19, 21, 23} : \E minor : Reducing(r) /\ Becomes(r, minor) /\ ctx' = ctx
  <2>1. PICK r \in {13, 19, 21, 23} : \E minor : Reducing(r) /\ Becomes(r, minor) /\ ctx' = ctx
    BY <1>3
  <2>2. r \in (0 .. 26) \cup (36 .. 42)
    OBVIOUS
  <2> QED
    BY <2>1, <2>2, SameTree
<1> QED
  BY <1>1, <1>2, <1>3

LEMMA ExpressionTree ==
  ASSUME StackInv, TreeInv,
         \/ Structure \/ Assign \/ AppendTo \/ Key \/ Plus \/ Variable
         \/ Literal \/ Number \/ NextElement \/ FirstElement \/ NamedElement \/ StringOp
         \/ Include \/ Operator
  PROVE  TreeInv'
<1>0. ConfigShape(ctx) /\ ~Failed(ctx).ok
  BY FailedFacts DEF StackInv
<1>r. 0 .. 8 \subseteq (0 .. 26) \cup (36 .. 42) /\ 36 .. 39 \subseteq (0 .. 26) \cup (36 .. 42)
  OBVIOUS
<1>1. CASE Structure
  <2>1. PICK r \in 0 .. 8 \cup {25, 26} : Reducing(r) /\ Becomes(r, Nothing) /\ ctx' = ctx
    BY <1>1 DEF Structure
  <2>2. r \in (0 .. 26) \cup (36 .. 42)
    OBVIOUS
  <2> QED
    BY <2>1, <2>2, SameTree
<1>2. CASE Assign
  <2>1. /\ Reducing(9) /\ Becomes(9, Nothing)
        /\ \/ ctx' = ctx \/ ctx' = Failed(ctx)
           \/ \E name, du : ctx' \in Put(ctx, name, du)
    BY <1>2 DEF Assign, PutNew
  <2>2. 9 \in (0 .. 26) \cup (36 .. 42)
    OBVIOUS
  <2> QED
    BY <2>1, <2>2, <1>0, SameTree
<1>3. CASE AppendTo
  <2>1. /\ Reducing(10) /\ Becomes(10, Nothing)
        /\ \/ ctx' = ctx \/ ctx' = Failed(ctx)
           \/ \E name, du : ctx' \in Put(ctx, name, du)
           \/ \E name : \E c \in Without(ctx, name) : ctx' = Failed(c)
    <3> DEFINE name == Msp(-2).value
               old == GetVariable(ctx, name)
               sum == Merge(old, Msp(0))
    <3>1. /\ Reducing(10) /\ Becomes(10, Nothing)
          /\ IF ~ctx.ok THEN UNCHANGED ctx
             ELSE IF IsEnv(name) THEN ctx' = Failed(ctx)
             ELSE IF IsNull(old) THEN \E n, du : ctx' \in Put(ctx, n, du)
             ELSE IF IsNull(sum) THEN \E c \in Without(ctx, name) : ctx' = Failed(c)
             ELSE ctx' \in Put(ctx, name, sum)
      BY <1>3 DEF AppendTo, PutNew
    <3> HIDE DEF name, old, sum
    <3> QED
      BY <3>1
  <2>2. ASSUME NEW name, NEW c \in Without(ctx, name) PROVE ~Failed(c).ok
    BY <1>0, VariableOps, FailedFacts
  <2>3. 10 \in (0 .. 26) \cup (36 .. 42)
    OBVIOUS
  <2> QED
    BY <2>1, <2>2, <2>3, <1>0, SameTree
<1>4. ASSUME Key \/ Literal \/ FirstElement \/ NamedElement \/ Operator
      PROVE  TreeInv'
  <2>1. \/ \E minor : Reducing(11) /\ Becomes(11, minor) /\ ctx' = ctx
        \/ \E r \in {15, 17, 18} : \E minor : Reducing(r) /\ Becomes(r, minor) /\ ctx' = ctx
        \/ \E minor : Reducing(22) /\ Becomes(22, minor) /\ ctx' = ctx
        \/ \E minor : Reducing(24) /\ Becomes(24, minor) /\ ctx' = ctx
        \/ \E r \in 36 .. 39 : \E minor : Reducing(r) /\ Becomes(r, minor) /\ ctx' = ctx
    <3>1. CASE Key
      BY <3>1 DEF Key
    <3>2. CASE Literal
      BY <3>2 DEF Literal
    <3>3. CASE FirstElement
      BY <3>3 DEF FirstElement
    <3>4. CASE NamedElement
      BY <3>4 DEF NamedElement
    <3>5. CASE Operator
      BY <3>5 DEF Operator
    <3> QED
      BY <1>4, <3>1, <3>2, <3>3, <3>4, <3>5
  <2>2. PICK r \in {11, 15, 17, 18, 22, 24} \cup (36 .. 39) :
          \E minor : Reducing(r) /\ Becomes(r, minor) /\ ctx' = ctx
    BY <2>1
  <2>3. r \in (0 .. 26) \cup (36 .. 42)
    OBVIOUS
  <2> QED
    BY <2>2, <2>3, SameTree
<1>5. ASSUME Plus \/ Variable \/ Number \/ NextElement \/ StringOp \/ Include
      PROVE  TreeInv'
  <2>1. \/ \E minor : Reducing(12) /\ Becomes(12, minor) /\ ctx' \in {ctx, Failed(ctx)}
        \/ \E minor : Reducing(14) /\ Becomes(14, minor) /\ ctx' \in {ctx, Failed(ctx)}
        \/ \E minor : Reducing(16) /\ Becomes(16, minor) /\ ctx' \in {ctx, Failed(ctx)}
        \/ \E minor : Reducing(20) /\ Becomes(20, minor) /\ ctx' \in {ctx, Failed(ctx)}
        \/ \E minor : Reducing(40) /\ Becomes(40, minor) /\ ctx' \in {ctx, Failed(ctx)}
        \/ \E r \in {41, 42} : \E minor : Reducing(r) /\ Becomes(r, minor) /\ ctx' \in {ctx, Failed(ctx)}
    <3>1. CASE Plus
      BY <3>1 DEF Plus
    <3>2. CASE Variable
      BY <3>2 DEF Variable
    <3>3. CASE Number
      BY <3>3 DEF Number
    <3>4. CASE NextElement
      BY <3>4 DEF NextElement
    <3>5. CASE StringOp
      BY <3>5 DEF StringOp
    <3>6. CASE Include
      BY <3>6 DEF Include
    <3> QED
      BY <1>5, <3>1, <3>2, <3>3, <3>4, <3>5, <3>6
  <2>2. PICK r \in {12, 14, 16, 20, 40, 41, 42} :
          \E minor : Reducing(r) /\ Becomes(r, minor) /\ ctx' \in {ctx, Failed(ctx)}
    BY <2>1
  <2>3. r \in (0 .. 26) \cup (36 .. 42)
    OBVIOUS
  <2> QED
    BY <2>2, <2>3, <1>0, SameTree
<1> QED
  BY <1>1, <1>2, <1>3, <1>4, <1>5


-----------------------------------------------------------------------------
(***************************************************************************)
(* A block is opened.                                                      *)
(***************************************************************************)
LEMMA OpenGlobalTree ==
  ASSUME StackInv, TreeInv, OpenGlobal
  PROVE  TreeInv'
<1>1. Reducing(27) /\ Becomes(27, Nothing) /\ ctx' = Entered(ctx, Global)
  BY DEF OpenGlobal
<1>2. ConfigShape(ctx)
  BY DEF StackInv
<1>3. /\ Holds(ctx', ctx.ok, Global, Append(ctx.configs_stack, ctx.current), ctx.all_configs, ctx.dcs)
      /\ ctx'.lost = ctx.lost
  BY <1>1, <1>2, BlockOps, LostKept, Zenon
<1>4. PICK r \in 0 .. YYNRULE - 1 : r = 27
  BY DEF YYNRULE
<1>5. Reducing(r) /\ Becomes(r, Nothing)
  BY <1>1, <1>4
<1>6. PICK n2 : n2 = Len(ctx.configs_stack)'
  OBVIOUS
<1>7. ASSUME ctx'.ok
      PROVE  /\ ctx.ok /\ ContextsFit(ctx') /\ DOMAIN ctx.dcs \subseteq DOMAIN ctx'.dcs
             /\ n2 = Len(ctx.configs_stack) + 1
  <2>1. ctx.ok /\ ContextsFit(ctx)
    BY <1>3, <1>7 DEF Holds, TreeInv, TreeFits
  <2>2. Global \in DOMAIN ctx.dcs
    BY <2>1, DcsFacts
  <2> QED
    BY <1>3, <1>6, <2>1, <2>2, TreeEntered DEF Holds
<1> QED
  BY <1>4, <1>5, <1>6, <1>7, ReducedTree

Numbered(dc, n, q) == [dc EXCEPT !.context_ndx = n, !.parent = q]

LEMMA NewContext ==
  ASSUME NEW key, NEW cond, NEW string, NEW n, NEW q,
         NEW x, x = Numbered(Context(key, cond, string), n, q)
  PROVE  /\ DOMAIN x = ContextMembers /\ x.key = key
         /\ x.context_ndx = n /\ x.parent = q /\ x.prev = NONE
<1>1. DOMAIN x = ContextMembers
  BY DEF Numbered, Context, ContextMembers
<1> QED
  BY <1>1 DEF Numbered, Context

\* What the index of all_configs leads to when a new context is there.
LEMMA PushedLost ==
  ASSUME NEW c, ConfigShape(c), NEW dc, NEW g \in PushNew(c, dc)
  PROVE  /\ c.lost = {} => g.lost = {}
         /\ c.lost # {} => TextsFit(g)
<1> DEFINE d == Len(c.dcs) + 1
           dcs == Append(c.dcs, [dc EXCEPT !.context_ndx = Len(c.all_configs), !.parent = c.current])
           ac == Append(c.all_configs, d)
<1>1. \E h \in Resorted([[c EXCEPT !.dcs = dcs] EXCEPT !.all_configs = ac], c.lost # {}) :
        g = Entered(h, d)
  BY DEF PushNew
<1> HIDE DEF d, dcs, ac
<1>2. PICK e : e = [[c EXCEPT !.dcs = dcs] EXCEPT !.all_configs = ac]
  OBVIOUS
<1>3. ConfigShape(e)
  <2>1. PICK f : f = [c EXCEPT !.dcs = dcs]
    OBVIOUS
  <2>2. Holds(f, c.ok, c.current, c.configs_stack, c.all_configs, dcs)
    BY <2>1, Changed DEF ConfigShape
  <2>3. Holds(e, f.ok, f.current, f.configs_stack, ac, f.dcs)
    BY <1>2, <2>1, <2>2, Changed DEF Holds
  <2> QED
    BY <2>2, <2>3 DEF Holds, ConfigShape
<1>4. PICK h \in Resorted(e, c.lost # {}) : g = Entered(h, d)
  BY <1>1, <1>2
<1>5. /\ Holds(h, e.ok, e.current, e.configs_stack, e.all_configs, e.dcs)
      /\ c.lost = {} => h.lost = {}
      /\ c.lost # {} => \A i, j \in ToSet(e.all_configs) \ h.lost :
           KeyText(e.dcs[i].key) = KeyText(e.dcs[j].key) => i = j
  BY <1>3, <1>4, ResortedFacts
<1>6. ConfigShape(h)
  BY <1>3, <1>5 DEF Holds, ConfigShape
<1>7. g.lost = h.lost /\ g.dcs = h.dcs /\ g.all_configs = h.all_configs
  BY <1>4, <1>6, LostKept, EnteredOps
<1> QED
  BY <1>5, <1>7 DEF Holds, TextsFit, Shown

\* A block that was not there: a context for it.
LEMMA PushedTree ==
  ASSUME StackInv, TreeInv, NEW r \in {34, 35}, Reducing(r), NEW minor, Becomes(r, minor), ctx.ok,
         NEW key, Keyed(ctx, key) = {}, NEW cond, NEW string,
         ctx' \in PushNew(ctx, Context(key, cond, string))
  PROVE  TreeInv'
<1> DEFINE n == Len(ctx.dcs) + 1
           x == Numbered(Context(key, cond, string), Len(ctx.all_configs), ctx.current)
<1>0. ConfigShape(ctx)
  BY DEF StackInv
<1>1. Holds(ctx', ctx.ok, n, Append(ctx.configs_stack, ctx.current),
            Append(ctx.all_configs, n), Append(ctx.dcs, x))
  BY <1>0, BlockOps, Zenon DEF Numbered
<1>2. /\ DOMAIN x = ContextMembers /\ x.key = key
      /\ x.context_ndx = Len(ctx.all_configs) /\ x.parent = ctx.current /\ x.prev = NONE
  <2>1. PICK a, q, y : /\ a = Len(ctx.all_configs) /\ q = ctx.current
                       /\ y = Numbered(Context(key, cond, string), a, q)
    OBVIOUS
  <2>2. y = x
    BY <2>1
  <2>3. /\ DOMAIN y = ContextMembers /\ y.key = key
        /\ y.context_ndx = a /\ y.parent = q /\ y.prev = NONE
    BY ONLY <2>1, NewContext
  <2> HIDE DEF x
  <2> QED
    BY ONLY <2>1, <2>2, <2>3
<1>3. ContextsFit(ctx)
  BY DEF TreeInv, TreeFits
<1>4. /\ ctx.lost = {} => ctx'.lost = {}
      /\ ctx.lost # {} => TextsFit(ctx')
  BY <1>0, PushedLost
<1>n. n = Len(ctx.dcs) + 1
  OBVIOUS
<1> HIDE DEF n, x
<1>5. /\ ContextsFit(ctx') /\ Len(ctx'.configs_stack) = Len(ctx.configs_stack) + 1
      /\ DOMAIN ctx.dcs \subseteq DOMAIN ctx'.dcs
  <2>1. PICK c, e, y, m : c = ctx /\ e = ctx' /\ y = x /\ m = n
    OBVIOUS
  <2>2. GoesOn(c, y, m, e) /\ ContextsFit(c)
    BY <1>1, <1>2, <1>3, <1>n, <2>1 DEF Holds, GoesOn
  <2>3. TextsFit(e)
    <3>1. CASE c.lost # {}
      BY <1>4, <2>1, <3>1
    <3>2. CASE c.lost = {}
      <4>1. e.lost = {} /\ Keyed(c, y.key) = {}
        BY <1>2, <1>4, <2>1, <3>2
      <4> QED
        BY <2>2, <3>2, <4>1, NewText
    <3> QED
      BY <3>1, <3>2
  <2>4. /\ ContextsFit(e) /\ Len(e.configs_stack) = Len(c.configs_stack) + 1
        /\ DOMAIN e.dcs = DOMAIN c.dcs \cup {m}
    BY ONLY <2>2, <2>3, TreeNew
  <2> QED
    BY <2>1, <2>4
<1>6. PICK n2 : n2 = Len(ctx.configs_stack)'
  OBVIOUS
<1>7. r \in 0 .. YYNRULE - 1 /\ n2 = Len(ctx.configs_stack) + 1
  BY <1>5, <1>6 DEF YYNRULE
<1> QED
  BY <1>5, <1>6, <1>7, ReducedTree

LEMMA OpenConditionTree ==
  ASSUME StackInv, TreeInv, OpenCondition
  PROVE  TreeInv'
<1> DEFINE key == CondKey(ctx, Comp, Cond, Rvalue)
           string == Kept(Comp, Cond, Rvalue)
           dc == Context(key, Cond, string)
<1>1. /\ Reducing(34) /\ Becomes(34, Nothing)
      /\ \/ /\ ctx.ok
            /\ \/ \E d \in Same : \E v : ctx' = [Entered(ctx, d) EXCEPT !.straight = v]
               \/ Same = {} /\ ctx' \in PushNew(ctx, dc)
         \/ ctx' = Failed(ctx)
  BY DEF OpenCondition, OpensCondition
<1>2. Same = Keyed(ctx, key)
  BY DEF Same
<1>0. ConfigShape(ctx)
  BY DEF StackInv
<1> HIDE DEF key, dc, string
<1>3. PICK r \in {34, 35} : r = 34
  OBVIOUS
<1>4. r \in 0 .. YYNRULE - 1 /\ Reducing(r) /\ Becomes(r, Nothing)
  BY <1>1, <1>3 DEF YYNRULE
<1>5. PICK n2 : n2 = Len(ctx.configs_stack)'
  OBVIOUS
<1>6. CASE ctx' = Failed(ctx)
  <2>1. ~ctx'.ok
    BY <1>0, <1>6, FailedFacts
  <2> QED
    BY <1>4, <1>5, <2>1, ReducedTree
<1>7. ASSUME ctx.ok, NEW d \in Same, NEW v, ctx' = [Entered(ctx, d) EXCEPT !.straight = v]
      PROVE  TreeInv'
  <2>1. ContextsFit(ctx)
    BY <1>7 DEF TreeInv, TreeFits
  <2>2. d \in DOMAIN ctx.dcs
    BY <1>2, <1>7, <2>1 DEF Keyed, Shown, ContextsFit
  <2>3. PICK e : e = Entered(ctx, d)
    OBVIOUS
  <2>4. Holds(e, ctx.ok, d, Append(ctx.configs_stack, ctx.current), ctx.all_configs, ctx.dcs)
    BY <1>0, <2>3, BlockOps, Zenon
  <2>5. Holds(ctx', e.ok, e.current, e.configs_stack, e.all_configs, e.dcs)
    <3>1. PICK g : g = [e EXCEPT !.straight = v]
      OBVIOUS
    <3>2. DOMAIN e = Members
      BY <2>4 DEF Holds
    <3>3. Holds(g, e.ok, e.current, e.configs_stack, e.all_configs, e.dcs)
      BY ONLY <3>1, <3>2, Changed
    <3>4. g = ctx'
      BY <1>7, <2>3, <3>1
    <3> QED
      BY <3>3, <3>4
  <2>6. ctx'.lost = ctx.lost
    BY <1>0, <1>7, LostKept
  <2>7. /\ ctx'.current = d /\ ctx'.configs_stack = Append(ctx.configs_stack, ctx.current)
        /\ ctx'.all_configs = ctx.all_configs /\ ctx'.dcs = ctx.dcs
    BY <2>4, <2>5 DEF Holds
  <2>8. ContextsFit(ctx') /\ Len(ctx'.configs_stack) = Len(ctx.configs_stack) + 1
    BY <2>1, <2>2, <2>6, <2>7, TreeEntered
  <2>9. n2 = Len(ctx.configs_stack) + 1
    BY <1>5, <2>8
  <2> QED
    BY <1>3, <1>4, <1>5, <1>7, <2>7, <2>8, <2>9, ReducedTree
<1>8. CASE ctx.ok /\ Same = {} /\ ctx' \in PushNew(ctx, dc)
  <2>1. PICK cond : cond = Cond
    OBVIOUS
  <2>2. ctx' \in PushNew(ctx, Context(key, cond, string))
    BY <1>8, <2>1 DEF dc
  <2> QED
    BY <1>2, <1>4, <1>8, <2>2, PushedTree
<1> QED
  BY <1>1, <1>6, <1>7, <1>8

LEMMA OpenElseTree ==
  ASSUME StackInv, TreeInv, OpenElse
  PROVE  TreeInv'
<1>0. PICK r \in {34, 35} : r = 35
  OBVIOUS
<1>1. PICK key, cond, string : key = ElseKey(ctx) /\ cond = "else" /\ string = <<>>
  OBVIOUS
<1>2. /\ Reducing(r) /\ Becomes(r, Nothing) /\ r \in 0 .. YYNRULE - 1
      /\ IF ctx.ok THEN Keyed(ctx, key) = {} /\ ctx' \in PushNew(ctx, Context(key, cond, string))
         ELSE ctx' = ctx
  BY <1>0, <1>1 DEF OpenElse, YYNRULE
<1>3. CASE ~ctx.ok
  <2>1. PICK n2 : n2 = Len(ctx.configs_stack)'
    OBVIOUS
  <2>2. ~ctx'.ok
    BY <1>2, <1>3
  <2> QED
    BY <1>2, <2>1, <2>2, ReducedTree
<1>4. CASE ctx.ok
  BY <1>2, <1>4, PushedTree
<1> QED
  BY <1>3, <1>4

-----------------------------------------------------------------------------
(***************************************************************************)
(* A block is closed.                                                      *)
(***************************************************************************)
LEMMA ClosedTree ==
  ASSUME StackInv, TreeInv, NEW r \in {28, 32, 33}, Reducing(r), NEW minor, Becomes(r, minor),
         ctx'.ok => ctx.ok /\ ctx' = Pop(ctx) /\ (r # 28 => minor.value = ctx.current)
  PROVE  TreeInv'
<1>1. PICK n2 : n2 = Len(ctx.configs_stack)'
  OBVIOUS
<1>2. r \in 0 .. YYNRULE - 1 /\ ConfigShape(ctx)
  BY DEF YYNRULE, StackInv
<1>3. ASSUME ctx'.ok
      PROVE  /\ ctx.ok /\ ContextsFit(ctx') /\ DOMAIN ctx.dcs \subseteq DOMAIN ctx'.dcs
             /\ r # 28 => minor.value \in DOMAIN ctx'.dcs
             /\ n2 = Len(ctx.configs_stack) - 1
  <2>1. ctx.ok /\ ctx' = Pop(ctx) /\ (r # 28 => minor.value = ctx.current)
    BY <1>3
  <2>2. ContextsFit(ctx) /\ BlocksCounted(yystack, overflowed, Len(ctx.configs_stack))
    BY <2>1 DEF TreeInv, TreeFits
  <2>3. PICK k \in Nat : Marks(yystack, Openers, 0) = k + 1
    BY <1>2, RestFacts
  <2>4. Len(ctx.configs_stack) >= 1
    <3>1. PICK n \in Nat : n = Len(ctx.configs_stack)
      BY <2>2, DcsFacts
    <3>2. k + 1 <= n
      BY <2>2, <2>3, <3>1 DEF BlocksCounted
    <3> QED
      BY <3>1, <3>2
  <2>5. /\ Holds(ctx', ctx.ok, Last(ctx.configs_stack), Front(ctx.configs_stack), ctx.all_configs, ctx.dcs)
        /\ ctx'.lost = ctx.lost
    BY <1>2, <2>1, BlockOps, LostKept, Zenon
  <2>6. ContextsFit(ctx') /\ Len(ctx'.configs_stack) = Len(ctx.configs_stack) - 1
    BY <2>2, <2>4, <2>5, TreePopped DEF Holds
  <2>7. ctx.current \in DOMAIN ctx.dcs
    BY <2>2, DcsFacts
  <2> QED
    BY <1>1, <2>1, <2>5, <2>6, <2>7 DEF Holds
<1> QED
  BY <1>1, <1>2, <1>3, ReducedTree

LEMMA CloseTree ==
  ASSUME StackInv, TreeInv, CloseGlobal \/ CloseBlock
  PROVE  TreeInv'
<1>1. Pop(ctx).ok = ctx.ok
  BY BlockOps, Zenon DEF StackInv, Holds
<1>2. CASE CloseGlobal
  <2>1. Reducing(28) /\ Becomes(28, Nothing) /\ ctx' = Pop(ctx)
    BY <1>2 DEF CloseGlobal
  <2>2. PICK r \in {28, 32, 33} : r = 28
    OBVIOUS
  <2>3. /\ Reducing(r) /\ Becomes(r, Nothing)
        /\ ctx'.ok => ctx.ok /\ ctx' = Pop(ctx) /\ (r # 28 => Nothing.value = ctx.current)
    BY ONLY <1>1, <2>1, <2>2
  <2> QED
    BY <2>3, ClosedTree
<1>3. CASE CloseBlock
  <2>1. PICK r \in {32, 33} :
          /\ Reducing(r)
          /\ IF ctx.ok THEN ctx' = Pop(ctx) /\ Becomes(r, ConfigAt(ctx.current))
             ELSE ctx' = ctx /\ Becomes(r, NULL)
    BY <1>3 DEF CloseBlock, Closed
  <2>2. r \in {28, 32, 33}
    OBVIOUS
  <2>3. ConfigAt(ctx.current).value = ctx.current
    BY DEF ConfigAt, Data
  <2>4. CASE ctx.ok
    BY <2>1, <2>2, <2>3, <2>4, ClosedTree
  <2>5. CASE ~ctx.ok
    <3>1. ~ctx'.ok /\ Becomes(r, NULL)
      BY <2>1, <2>5
    <3> QED
      BY <2>1, <2>2, <3>1, ClosedTree
  <2> QED
    BY <2>4, <2>5
<1> QED
  BY <1>2, <1>3

-----------------------------------------------------------------------------
(***************************************************************************)
(* A block is joined to the condition before it.                           *)
(***************************************************************************)
LEMMA LinkedTree ==
  ASSUME NEW c, ConfigShape(c), ContextsFit(c), NEW a \in DOMAIN c.dcs, NEW b \in DOMAIN c.dcs,
         c.dcs[a].context_ndx < c.dcs[b].context_ndx, NEW e, e = Linked(c, a, b)
  PROVE  SameAs(e, c)
<1>1. Holds(e, c.ok, c.current, c.configs_stack, c.all_configs,
            [[c.dcs EXCEPT ![b].prev = a] EXCEPT ![a].next = b])
  BY BlockOps, Zenon
<1>0. e.lost = c.lost
  BY LostKept
<1>2. PICK s : s = c.dcs
  OBVIOUS
<1>3. PICK f \in ContextMembers, g \in ContextMembers : f = "prev" /\ g = "next"
  BY DEF ContextMembers
<1>4. PICK t : t = With(s, b, f, a)
  OBVIOUS
<1>5. PICK u : u = With(t, a, g, b)
  OBVIOUS
<1>6. u = e.dcs
  <2>1. t = [c.dcs EXCEPT ![b].prev = a]
    BY <1>2, <1>3, <1>4 DEF With
  <2>2. u = [t EXCEPT ![a].next = b]
    BY <1>3, <1>5 DEF With
  <2> QED
    BY <1>1, <2>1, <2>2 DEF Holds
<1>7. IsSeq(s) /\ a \in DOMAIN s /\ b \in DOMAIN s /\ \A d \in DOMAIN s : DOMAIN s[d] = ContextMembers
  BY <1>2, DcsFacts DEF ContextsFit
<1>8. /\ IsSeq(t) /\ DOMAIN t = DOMAIN s /\ Len(t) = Len(s)
      /\ \A d \in DOMAIN s : DOMAIN t[d] = ContextMembers
      /\ \A d \in DOMAIN s, h \in ContextMembers : d # b \/ h # f => t[d][h] = s[d][h]
      /\ t[b][f] = a
  BY ONLY <1>4, <1>7, f \in ContextMembers, FieldSet
<1>9. IsSeq(t) /\ a \in DOMAIN t /\ \A d \in DOMAIN t : DOMAIN t[d] = ContextMembers
  BY <1>7, <1>8
<1>10. /\ IsSeq(u) /\ DOMAIN u = DOMAIN t /\ Len(u) = Len(t)
       /\ \A d \in DOMAIN t : DOMAIN u[d] = ContextMembers
       /\ \A d \in DOMAIN t, h \in ContextMembers : d # a \/ h # g => u[d][h] = t[d][h]
  BY ONLY <1>5, <1>9, g \in ContextMembers, FieldSet
<1>11. ASSUME NEW d \in DOMAIN s, NEW h \in ContextMembers \ {"prev", "next"}
       PROVE  u[d][h] = s[d][h]
  BY <1>3, <1>8, <1>10
<1>12. \A d \in DOMAIN s :
         /\ u[d].key = s[d].key
         /\ u[d].context_ndx = s[d].context_ndx /\ u[d].parent = s[d].parent
  BY <1>11 DEF ContextMembers
<1>13. a \in 0 .. b - 1
  <2>1. c.dcs[a].context_ndx = a - 1 /\ c.dcs[b].context_ndx = b - 1
    BY DEF ContextsFit, ContextFits
  <2>2. a \in Nat /\ b \in Nat
    BY DcsFacts
  <2> QED
    BY <2>1, <2>2
<1>14. ASSUME NEW d \in DOMAIN s PROVE u[d].prev \in 0 .. d - 1
  <2>1. u[d].prev = t[d].prev
    BY <1>3, <1>8, <1>10
  <2>2. d = b => t[d].prev = a
    BY <1>3, <1>8
  <2>3. d # b => t[d].prev = s[d].prev
    BY <1>3, <1>8
  <2>4. s[d].prev \in 0 .. d - 1
    BY <1>2 DEF ContextsFit, ContextFits
  <2> QED
    BY <1>13, <2>1, <2>2, <2>3, <2>4
<1>15. /\ IsSeq(e.dcs) /\ DOMAIN e.dcs = DOMAIN c.dcs /\ Len(e.dcs) = Len(c.dcs)
       /\ \A d \in DOMAIN c.dcs :
            /\ DOMAIN e.dcs[d] = ContextMembers
            /\ e.dcs[d].key = c.dcs[d].key
            /\ e.dcs[d].context_ndx = c.dcs[d].context_ndx /\ e.dcs[d].parent = c.dcs[d].parent
            /\ e.dcs[d].prev \in 0 .. d - 1
  BY <1>2, <1>6, <1>8, <1>10, <1>12, <1>14
<1>16. /\ e.current = c.current /\ e.configs_stack = c.configs_stack
       /\ e.all_configs = c.all_configs /\ e.ok = c.ok /\ e.lost = c.lost
  BY <1>0, <1>1 DEF Holds
<1>17. ContextsFit(c)
  OBVIOUS
<1>18. ContextsFit(e)
  BY ONLY <1>15, <1>16, <1>17, TreeKept
<1> QED
  BY <1>15, <1>16, <1>18 DEF SameAs

\* What can be the else of a condition comes after it.
LEMMA Reachable ==
  ASSUME NEW c, ContextsFit(c), NEW a \in DOMAIN c.dcs, NEW b \in DOMAIN c.dcs, ~Unreachable(c, a, b)
  PROVE  c.dcs[a].context_ndx < c.dcs[b].context_ndx
<1>1. ~(c.dcs[a].context_ndx >= c.dcs[b].context_ndx)
  BY DEF Unreachable
<1>2. c.dcs[a].context_ndx = a - 1 /\ c.dcs[b].context_ndx = b - 1 /\ a \in Nat /\ b \in Nat
  BY DcsFacts DEF ContextsFit, ContextFits
<1> QED
  BY <1>1, <1>2

LEMMA ElseConditionTree ==
  ASSUME StackInv, TreeInv, ElseCondition
  PROVE  TreeInv'
<1>0. PICK a, b : a = Msp(-3).value /\ b = Msp(0).value
  OBVIOUS
<1>1. PICK r \in 0 .. YYNRULE - 1 : r = 29 /\ r \in {29, 30, 31} /\ r \notin {27, 28, 32, 33, 34, 35}
  BY DEF YYNRULE
<1> DEFINE ok == ~Unreachable(ctx, a, b)
<1>2. PICK c : c = [ctx EXCEPT !.ok = ok]
  OBVIOUS
<1>3. /\ Reducing(r)
      /\ IF ~ctx.ok THEN ctx' = ctx /\ Becomes(r, NULL)
         ELSE ctx' = Linked(c, a, b) /\ Becomes(r, ConfigAt(b))
  BY <1>0, <1>1, <1>2 DEF ElseCondition
<1>4. PICK n2 : n2 = Len(ctx.configs_stack)'
  OBVIOUS
<1>5. CASE ~ctx.ok
  <2>1. Becomes(r, NULL) /\ ~ctx'.ok
    BY <1>3, <1>5
  <2> QED
    BY <1>1, <1>3, <1>4, <2>1, ReducedTree
<1>6. CASE ctx.ok
  <2>1. ctx' = Linked(c, a, b) /\ Becomes(r, ConfigAt(b)) /\ ConfigAt(b).value = b
    BY <1>3, <1>6 DEF ConfigAt, Data
  <2>2. /\ Holds(c, ok, ctx.current, ctx.configs_stack, ctx.all_configs, ctx.dcs)
        /\ c.lost = ctx.lost /\ ok \in BOOLEAN
    <3>1. ConfigShape(ctx)
      BY DEF StackInv
    <3> HIDE DEF ok
    <3>2. Holds(c, ok, ctx.current, ctx.configs_stack, ctx.all_configs, ctx.dcs) /\ c.lost = ctx.lost
      BY <1>2, <3>1, Changed, LostKept DEF ConfigShape
    <3>3. ok \in BOOLEAN
      BY DEF ok, Unreachable
    <3> QED
      BY <3>2, <3>3
  <2>3. TreeFits /\ ContextsFit(ctx)
    BY <1>6 DEF TreeInv, TreeFits
  <2>4. a \in DOMAIN ctx.dcs /\ b \in DOMAIN ctx.dcs
    BY <1>0, <1>1, <1>3, <2>3, JoinedBlocks
  <2>5. ok => ctx.dcs[a].context_ndx < ctx.dcs[b].context_ndx
    BY <2>3, <2>4, Reachable
  <2> HIDE DEF ok
  <2>6. ConfigShape(c) /\ ContextsFit(c) /\ c.dcs = ctx.dcs /\ c.ok = ok
    BY <2>2, <2>3 DEF Holds, ConfigShape, ContextsFit, TextsFit, Shown
  <2>7. ctx'.ok = c.ok
    <3>1. Holds(ctx', c.ok, c.current, c.configs_stack, c.all_configs,
                [[c.dcs EXCEPT ![b].prev = a] EXCEPT ![a].next = b])
      BY <2>1, <2>6, BlockOps, Zenon
    <3> QED
      BY <3>1 DEF Holds
  <2>8. ASSUME ctx'.ok
        PROVE  /\ ContextsFit(ctx') /\ DOMAIN ctx'.dcs = DOMAIN ctx.dcs
               /\ n2 = Len(ctx.configs_stack)
    <3>1. SameAs(ctx', c)
      BY <2>1, <2>4, <2>5, <2>6, <2>7, <2>8, LinkedTree
    <3> QED
      BY <1>4, <2>2, <2>6, <3>1 DEF SameAs, Holds
  <2> QED
    BY <1>1, <1>3, <1>4, <1>6, <2>1, <2>4, <2>8, ReducedTree
<1> QED
  BY <1>5, <1>6

\* A context gets another key, and the index of all_configs is put right or not.
LEMMA RenamedTree ==
  ASSUME NEW c, ConfigShape(c), ContextsFit(c), NEW b \in DOMAIN c.dcs, NEW key,
         NEW e \in Resorted(Renamed(c, b, key), TRUE)
  PROVE  SameAs(e, c) /\ ConfigShape(e) /\ \A d \in DOMAIN c.dcs : e.dcs[d].context_ndx = c.dcs[d].context_ndx
<1>0. PICK g : g = Renamed(c, b, key)
  OBVIOUS
<1>1. Holds(g, c.ok, c.current, c.configs_stack,
            Append(Extracted(c.all_configs, b), b), [c.dcs EXCEPT ![b].key = key])
  BY <1>0, BlockOps, Zenon
<1>2. ConfigShape(g)
  BY <1>1 DEF Holds, ConfigShape
<1>3. /\ Holds(e, g.ok, g.current, g.configs_stack, g.all_configs, g.dcs)
      /\ \A d, f \in ToSet(g.all_configs) \ e.lost : KeyText(g.dcs[d].key) = KeyText(g.dcs[f].key) => d = f
  <2>1. e \in Resorted(g, TRUE)
    BY <1>0
  <2> QED
    BY ONLY <1>2, <2>1, ResortedFacts
<1>4. TextsFit(e)
  BY <1>3 DEF Holds, TextsFit, Shown
<1>a. PICK f \in ContextMembers : f = "key"
  BY DEF ContextMembers
<1>b. PICK s, t : s = c.dcs /\ t = e.dcs
  OBVIOUS
<1>5. s = c.dcs /\ t = e.dcs /\ f = "key"
  BY <1>a, <1>b
<1>6. t = With(s, b, f, key)
  BY <1>1, <1>3, <1>5 DEF With, Holds
<1>7. IsSeq(s) /\ b \in DOMAIN s /\ \A d \in DOMAIN s : DOMAIN s[d] = ContextMembers
  BY <1>5, DcsFacts DEF ContextsFit
<1>8. /\ IsSeq(t) /\ DOMAIN t = DOMAIN s /\ Len(t) = Len(s)
      /\ \A d \in DOMAIN s : DOMAIN t[d] = ContextMembers
      /\ \A d \in DOMAIN s, h \in ContextMembers : d # b \/ h # f => t[d][h] = s[d][h]
  BY ONLY <1>6, <1>7, f \in ContextMembers, FieldSet
<1>9. \A d \in DOMAIN s :
        t[d].context_ndx = s[d].context_ndx /\ t[d].parent = s[d].parent /\ t[d].prev = s[d].prev
  BY <1>5, <1>8 DEF ContextMembers
<1>10. IsSeq(e.all_configs) /\ Len(e.all_configs) = Len(c.all_configs) /\ ToSet(e.all_configs) = ToSet(c.all_configs)
  <2>1. IsSeq(c.all_configs) /\ b \in ToSet(c.all_configs)
    BY DEF ContextsFit
  <2>2. e.all_configs = Append(Extracted(c.all_configs, b), b)
    BY <1>1, <1>3 DEF Holds
  <2> QED
    BY <2>1, <2>2, ListKept
<1>11. /\ e.current = c.current /\ e.configs_stack = c.configs_stack /\ e.ok = c.ok /\ DOMAIN e = Members
  BY <1>1, <1>3 DEF Holds
<1>12. \A d \in DOMAIN s : ContextFits(t, d)
  <2>1. \A d \in DOMAIN s : ContextFits(s, d)
    BY <1>5 DEF ContextsFit
  <2> QED
    BY <1>8, <1>9, <2>1 DEF ContextFits
<1>13. ContextsFit(e)
  <2>1. /\ ToSet(c.all_configs) = DOMAIN s /\ Len(c.all_configs) = Len(s) /\ IsSeq(c.configs_stack)
        /\ c.current \in DOMAIN s /\ ToSet(c.configs_stack) \subseteq DOMAIN s
    BY <1>5 DEF ContextsFit
  <2> QED
    BY <1>4, <1>5, <1>8, <1>10, <1>11, <1>12, <2>1 DEF ContextsFit
<1>14. ConfigShape(e)
  BY <1>11 DEF ConfigShape
<1> QED
  BY <1>5, <1>8, <1>9, <1>11, <1>13, <1>14 DEF SameAs

LEMMA ElseBlockTree ==
  ASSUME StackInv, TreeInv, ElseBlock
  PROVE  TreeInv'
<1>0. PICK a, b, key : a = Msp(-3).value /\ b = Msp(0).value /\ key = OppositeKey(ctx.dcs[a])
  OBVIOUS
<1>1. PICK r \in 0 .. YYNRULE - 1 : r = 30 /\ r \in {29, 30, 31} /\ r \notin {27, 28, 32, 33, 34, 35}
  BY DEF YYNRULE
<1>2. PICK f : f = [ctx EXCEPT !.all_configs = Extracted(ctx.all_configs, b)]
  OBVIOUS
<1>3. /\ Reducing(r)
      /\ \/ ~ctx.ok /\ ctx' = ctx /\ Becomes(r, NULL)
         \/ ctx' = Failed(ctx) /\ Becomes(r, NULL)
         \/ /\ ctx.ok /\ ~Unreachable(ctx, a, b)
            /\ \E c \in Resorted(Renamed(ctx, b, key), TRUE) : ctx' = Linked(c, a, b)
            /\ Becomes(r, ConfigAt(b))
         \/ \E d : ctx' = Failed(f) /\ Becomes(r, ConfigAt(d))
  <2>1. /\ Reducing(r)
        /\ IF ~ctx.ok THEN ctx' = ctx /\ Becomes(r, NULL)
           ELSE IF Unreachable(ctx, a, b) THEN ctx' = Failed(ctx) /\ Becomes(r, NULL)
           ELSE \/ /\ \E c \in Resorted(Renamed(ctx, b, key), TRUE) : ctx' = Linked(c, a, b)
                   /\ Becomes(r, ConfigAt(b))
                \/ \E d : ctx' = Failed(f) /\ Becomes(r, ConfigAt(d))
    BY <1>0, <1>1, <1>2 DEF ElseBlock
  <2> QED
    BY <2>1
<1>4. ConfigShape(ctx) /\ ConfigShape(f)
  BY <1>2, Changed DEF StackInv, ConfigShape, Holds
<1>5. PICK n2 : n2 = Len(ctx.configs_stack)'
  OBVIOUS
<1>6. ASSUME ~ctx'.ok, NEW minor, Becomes(r, minor) PROVE TreeInv'
  BY <1>3, <1>5, <1>6, ReducedTree
<1>7. ASSUME ctx.ok, ~Unreachable(ctx, a, b), NEW c \in Resorted(Renamed(ctx, b, key), TRUE),
             ctx' = Linked(c, a, b), Becomes(r, ConfigAt(b))
      PROVE  TreeInv'
  <2>1. TreeFits /\ ContextsFit(ctx)
    BY <1>7 DEF TreeInv, TreeFits
  <2>2. a \in DOMAIN ctx.dcs /\ b \in DOMAIN ctx.dcs
    BY <1>0, <1>1, <1>3, <2>1, JoinedBlocks
  <2>3. ctx.dcs[a].context_ndx < ctx.dcs[b].context_ndx
    BY <1>7, <2>1, <2>2, Reachable
  <2>4. SameAs(c, ctx) /\ ConfigShape(c) /\ \A d \in DOMAIN ctx.dcs : c.dcs[d].context_ndx = ctx.dcs[d].context_ndx
    BY <1>4, <1>7, <2>1, <2>2, RenamedTree
  <2>5. SameAs(ctx', c)
    <3>1. ContextsFit(c) /\ ConfigShape(c) /\ a \in DOMAIN c.dcs /\ b \in DOMAIN c.dcs
      BY <2>2, <2>4 DEF SameAs
    <3>2. c.dcs[a].context_ndx < c.dcs[b].context_ndx
      BY <2>2, <2>3, <2>4
    <3> QED
      BY ONLY <1>7, <3>1, <3>2, LinkedTree
  <2>6. ConfigAt(b).value = b
    BY DEF ConfigAt, Data
  <2>7. /\ ContextsFit(ctx') /\ DOMAIN ctx'.dcs = DOMAIN ctx.dcs /\ n2 = Len(ctx.configs_stack)
    BY <1>5, <2>4, <2>5 DEF SameAs
  <2> QED
    BY <1>1, <1>3, <1>5, <1>7, <2>2, <2>6, <2>7, ReducedTree
<1> QED
  BY <1>3, <1>4, <1>6, <1>7, FailedFacts

-----------------------------------------------------------------------------
(***************************************************************************)
(* The other steps.                                                        *)
(***************************************************************************)
LEMMA BlockSymbols == Tokens \cap (Openers \cup Conditions) = {}
<1>1. /\ Rule(27)[1] = "globalstart" /\ Rule(34)[1] = "context" /\ Rule(35)[1] = "context_else"
      /\ Rule(31)[1] = "condlines" /\ Rule(32)[1] = "condline" /\ Rule(33)[1] = "cond_else"
  BY DEF Rule, yyRuleName
<1>2. \A r \in {27, 31, 32, 33, 34, 35} : r \in 0 .. YYNRULE - 1
  BY DEF YYNRULE
<1>3. \A r \in {27, 31, 32, 33, 34, 35} : Rule(r)[1] \notin Tokens
  BY <1>2, TablesFitGrammar
<1> QED
  BY <1>1, <1>3 DEF Openers, Conditions

LEMMA ShiftTree ==
  ASSUME StackInv, TreeInv, Shift
  PROVE  TreeInv'
<1> DEFINE e == [stateno |-> Action, major |-> yymajor, minor |-> yyminor]
<1>1. /\ ctx' = ctx
      /\ IF Len(yystack) = YYSTACKDEPTH THEN yystack' = <<>> /\ overflowed' = TRUE
         ELSE yystack' = Append(yystack, e) /\ overflowed' = overflowed
  BY DEF Shift, Push
<1>2. e.major = yymajor /\ yymajor \in Tokens /\ yystack # <<>> /\ IsSeq(yystack)
  BY DEF StackInv, TokensTyped, Shift, Busy, Route
<1>3. e.major \notin Openers /\ e.major \notin Conditions
  BY <1>2, BlockSymbols
<1> HIDE DEF e
<1>5. StackFits /\ Len(yystack) \in Nat /\ Len(yystack) >= 1 /\ YYSTACKDEPTH \in Nat
  BY <1>2, SeqFacts, StackAssumption DEF TreeInv
<1>6. CASE Len(yystack) = YYSTACKDEPTH
  <2>1. yystack' = <<>> /\ overflowed' /\ Len(<<>>) = 0
    BY <1>1, <1>6
  <2>2. StackFits'
    BY <1>5, <2>1 DEF StackFits
  <2>3. ASSUME ctx.ok PROVE TreeFits'
    <3>1. PICK n, D : n = Len(ctx.configs_stack) /\ D = DOMAIN ctx.dcs
      OBVIOUS
    <3>2. ContextsFit(ctx) /\ n \in Nat
      BY <2>3, <3>1, DcsFacts DEF TreeInv, TreeFits
    <3>3. MinorsFit(yystack', D) /\ BlocksCounted(yystack', overflowed', n)
      BY <2>1, <3>2, NoMarks DEF BlocksCounted
    <3> QED
      BY <1>1, <3>1, <3>2, <3>3 DEF TreeFits
  <2> QED
    BY <1>1, <2>2, <2>3 DEF TreeInv
<1>7. CASE Len(yystack) # YYSTACKDEPTH
  <2>1. yystack' = Append(yystack, e) /\ overflowed' = overflowed
    BY <1>1, <1>7
  <2>2. /\ yystack' # <<>> /\ Len(yystack') = Len(yystack) + 1
        /\ \A i \in 1 .. Len(yystack) : yystack'[i] = yystack[i]
    BY <1>2, <2>1, AppendFacts
  <2>3. StackFits'
    <3>1. 1 \in 1 .. Len(yystack) /\ Len(yystack) + 1 <= YYSTACKDEPTH
      BY <1>5, <1>7 DEF StackFits
    <3> QED
      BY <1>2, <1>5, <2>2, <3>1 DEF StackFits
  <2>4. ASSUME ctx.ok PROVE TreeFits'
    <3>1. PICK n, D : n = Len(ctx.configs_stack) /\ D = DOMAIN ctx.dcs
      OBVIOUS
    <3>2. ContextsFit(ctx) /\ MinorsFit(yystack, D) /\ BlocksCounted(yystack, overflowed, n)
      BY <2>4, <3>1 DEF TreeInv, TreeFits
    <3>3. MinorsFit(yystack', D)
      BY <1>2, <1>3, <2>1, <3>2, MinorsPush
    <3>4. Marks(yystack', Openers, 0) = Marks(yystack, Openers, 0)
      <4>1. 0 \in 0 .. Len(yystack)
        BY <1>5
      <4> QED
        BY <1>2, <1>3, <2>1, <4>1, MarksAppend
    <3>5. BlocksCounted(yystack', overflowed', n)
      BY <2>1, <3>2, <3>4 DEF BlocksCounted
    <3> QED
      BY <1>1, <3>1, <3>2, <3>3, <3>5 DEF TreeFits
  <2> QED
    BY <1>1, <2>3, <2>4 DEF TreeInv
<1> QED
  BY <1>6, <1>7

LEMMA SyntaxErrorTree ==
  ASSUME StackInv, TreeInv, SyntaxError
  PROVE  TreeInv'
<1>1. yystack' = <<>> /\ ctx' = Failed(ctx) /\ Len(<<>>) = 0 /\ 0 <= YYSTACKDEPTH
  BY StackAssumption DEF SyntaxError
<1>2. ~ctx'.ok
  BY <1>1, FailedFacts DEF StackInv
<1> QED
  BY <1>1, <1>2 DEF TreeInv, StackFits

\* Nothing the tree depends on changes.
LEMMA TreeStands ==
  ASSUME TreeInv, UNCHANGED <<yystack, overflowed, ctx>>
  PROVE  TreeInv'
BY DEF TreeInv, TreeFits, StackFits

LEMMA ParserTree ==
  ASSUME StackInv, TreeInv, ParserStep
  PROVE  TreeInv'
<1>1. CASE ExitInGlobal \/ Crash
  BY <1>1, TreeStands DEF ExitInGlobal, Crash
<1> QED
  BY <1>1, ShiftTree, SyntaxErrorTree, PassOnTree, ExpressionTree, OpenGlobalTree, OpenConditionTree,
     OpenElseTree, CloseTree, ElseConditionTree, ElseBlockTree DEF ParserStep

\* The parser begins with the bottom of its stack.
LEMMA FeedTree ==
  ASSUME TreeInv, Feed
  PROVE  TreeInv'
<1> DEFINE e0 == [stateno |-> 0, major |-> "$", minor |-> Nothing]
<1>0. PICK e : e = e0
  OBVIOUS
<1>1. /\ UNCHANGED <<overflowed, ctx>>
      /\ yystack' = yystack \/ (yystack = <<>> /\ yystack' = <<e>>)
  BY <1>0 DEF Feed, Call
<1>a. e.major = "$"
  BY <1>0
<1>2. CASE yystack' = yystack
  BY <1>1, <1>2, TreeStands
<1>3. CASE yystack = <<>> /\ yystack' = <<e>>
  <2>1. Len(<<e>>) = 1 /\ <<e>>[1] = e /\ 1 .. Len(<<e>>) = {1}
    OBVIOUS
  <2>2. StackFits'
    BY <1>3, <1>a, <2>1, StackAssumption DEF StackFits
  <2>3. ASSUME ctx.ok PROVE TreeFits'
    <3>1. PICK n, D : n = Len(ctx.configs_stack) /\ D = DOMAIN ctx.dcs
      OBVIOUS
    <3>2. ContextsFit(ctx) /\ BlocksCounted(yystack, overflowed, n)
      BY <2>3, <3>1 DEF TreeInv, TreeFits
    <3>3. MinorsFit(<<e>>, D)
      BY <1>a, <2>1 DEF MinorsFit, Conditions
    <3>4. Marks(<<e>>, Openers, 0) = 0
      <4>1. \A j \in 0 + 1 .. Len(<<e>>) : <<e>>[j].major \notin Openers
        BY <1>a, <2>1 DEF Openers
      <4> QED
        BY <4>1, MarksNone
    <3>5. BlocksCounted(<<e>>, overflowed, n)
      BY <1>3, <3>2, <3>4, NoMarks DEF BlocksCounted
    <3> QED
      BY <1>1, <1>3, <3>1, <3>2, <3>3, <3>5 DEF TreeFits
  <2> QED
    BY <1>1, <2>2, <2>3 DEF TreeInv
<1> QED
  BY <1>1, <1>2, <1>3

LEMMA TreeNext ==
  ASSUME StackInv, TreeInv, [ReadNext]_allVars
  PROVE  TreeInv'
<1>1. ASSUME Next PROVE TreeInv'
  <2>1. CASE ReadLine \/ Tokenize \/ Return
    BY <2>1, TreeStands DEF ReadLine, Tokenize, Return, parserVars
  <2>2. CASE Feed
    BY <2>2, FeedTree
  <2>3. CASE Parse
    BY <2>3, ParserTree DEF Parse
  <2> QED
    BY <1>1, <2>1, <2>2, <2>3 DEF Next
<1>2. CASE UNCHANGED vars
  BY <1>2, TreeStands DEF vars, parserVars
<1>3. CASE StreamSize
  BY <1>3, TreeStands DEF StreamSize, parserVars
<1>4. CASE Parsing
  BY <1>1, <1>4 DEF Parsing
<1> QED
  BY <1>2, <1>3, <1>4
     DEF ReadNext, allVars, OptionsKept, StreamOpen, StreamMap, StreamClose, InsertContext,
         InsertFault, Engine, Modules, Chroot, CheckTempdir, DocumentRoot

-----------------------------------------------------------------------------
(***************************************************************************)
(* The invariant holds for every file, and the contexts form a tree.       *)
(***************************************************************************)
LEMMA InitTree ==
  ASSUME ReadInit
  PROVE  TreeInv
<1>1. yystack = <<>> /\ \E cwd \in Cwds : ctx = FirstContext(cwd)
  BY DEF ReadInit, Init, ParserInit
<1>a. PICK cwd \in Cwds : ctx = FirstContext(cwd)
  BY <1>1
<1> DEFINE pid  == Data("integer", <<"var", ".", "PID">>, Pid)
           with == {pid} \cup IF cwd = <<>> THEN {} ELSE {Data("string", <<"var", ".", "CWD">>, cwd)}
<1>b. PICK v : v = Indexed(with)
  OBVIOUS
<1> HIDE DEF pid, with
<1>2. /\ ctx.dcs = <<[Context(<<>>, "unset", <<>>) EXCEPT !.value = v]>>
      /\ ctx.all_configs = <<Global>> /\ ctx.configs_stack = <<>> /\ ctx.current = Global
  BY <1>a, <1>b DEF FirstContext, pid, with
<1>3. PICK dc : dc = [Context(<<>>, "unset", <<>>) EXCEPT !.value = v]
  OBVIOUS
<1>4. DOMAIN dc = ContextMembers /\ dc.context_ndx = 0 /\ dc.parent = NONE /\ dc.prev = NONE
  BY <1>3 DEF Context, ContextMembers
<1>5. ctx.dcs = <<dc>>
  BY <1>2, <1>3
<1>6. \A x : <<x>> \in Seq({x}) /\ Len(<<x>>) = 1 /\ <<x>>[1] = x /\ DOMAIN <<x>> = {1} /\ <<x>> # <<>>
  OBVIOUS
<1>7. \A x : IsSeq(<<x>>) /\ ToSet(<<x>>) = {x}
  BY <1>6, AnySeq DEF ToSet
<1>8. IsSeq(<<>>) /\ Len(<<>>) = 0 /\ DOMAIN <<>> = {} /\ ToSet(<<>>) = {}
  <2>1. IsSeq(<<>>) /\ Len(<<>>) = 0 /\ DOMAIN <<>> = {}
    BY EmptyRoute, SeqFacts DEF Route
  <2> QED
    BY <2>1 DEF ToSet
<1>9. StackFits
  BY <1>1, <1>8, StackAssumption DEF StackFits
<1>10. ContextFits(ctx.dcs, 1)
  BY <1>4, <1>5, <1>6 DEF ContextFits, NONE, Global
<1>11. TextsFit(ctx)
  BY <1>2, <1>7 DEF TextsFit, Shown
<1>12. ContextsFit(ctx)
  <2>1. DOMAIN ctx.dcs = {1} /\ ToSet(ctx.all_configs) = {1}
    BY <1>2, <1>5, <1>6, <1>7 DEF Global
  <2> QED
    BY <1>2, <1>5, <1>6, <1>7, <1>8, <1>10, <1>11, <2>1 DEF ContextsFit, Global
<1>13. MinorsFit(yystack, DOMAIN ctx.dcs) /\ BlocksCounted(yystack, overflowed, Len(ctx.configs_stack))
  BY <1>1, <1>2, <1>8, NoMarks DEF BlocksCounted
<1> QED
  BY <1>9, <1>12, <1>13 DEF TreeInv, TreeFits

LEMMA TreeInvariance == ReadSpec => [](StackInv /\ TreeInv)
<1>1. ReadInit => StackInv /\ TreeInv
  BY InitStackInv, InitTree
<1>2. StackInv /\ TreeInv /\ [ReadNext]_allVars => StackInv' /\ TreeInv'
  BY ReadNextInv, TreeNext
<1> QED
  BY <1>1, <1>2, PTL DEF ReadSpec

LEMMA TreeHolds ==
  ASSUME TreeInv, ctx.ok
  PROVE  Distinct /\ DependsOnEarlier
<1>1. /\ ContextsFit(ctx) /\ All = DOMAIN ctx.dcs /\ DOMAIN ctx.dcs = 1 .. Len(ctx.dcs)
      /\ Len(ctx.dcs) \in Nat
      /\ \A d \in DOMAIN ctx.dcs : ContextFits(ctx.dcs, d)
  <2>1. ContextsFit(ctx)
    BY DEF TreeInv, TreeFits
  <2> QED
    BY <2>1, DcsFacts DEF ContextsFit, All
<1>2. Distinct
  <2>1. ASSUME NEW d \in All, NEW e \in All, d # e
        PROVE  ctx.dcs[d].context_ndx # ctx.dcs[e].context_ndx
    <3>1. ctx.dcs[d].context_ndx = d - 1 /\ ctx.dcs[e].context_ndx = e - 1 /\ d \in Nat /\ e \in Nat
      BY <1>1 DEF ContextFits
    <3> QED
      BY <2>1, <3>1
  <2>2. ASSUME NEW d \in Shown(ctx), NEW e \in Shown(ctx), d # e
        PROVE  KeyText(ctx.dcs[d].key) # KeyText(ctx.dcs[e].key)
    BY <1>1, <2>2 DEF ContextsFit, TextsFit
  <2> QED
    BY <2>1, <2>2 DEF Distinct
<1>3. DependsOnEarlier
  <2> SUFFICES ASSUME NEW d \in All, NEW e \in {ctx.dcs[d].parent, ctx.dcs[d].prev} \ {NONE}
               PROVE  ctx.dcs[e].context_ndx < ctx.dcs[d].context_ndx
    BY DEF DependsOnEarlier
  <2>1. d \in 1 .. Len(ctx.dcs) /\ ctx.dcs[d].context_ndx = d - 1 /\ e \in 0 .. d - 1 /\ e # 0
    BY <1>1 DEF ContextFits, NONE
  <2>2. e \in 1 .. Len(ctx.dcs) /\ e < d /\ e \in Nat /\ d \in Nat
    BY <1>1, <2>1
  <2>3. ctx.dcs[e].context_ndx = e - 1
    BY <1>1, <2>2 DEF ContextFits
  <2> QED
    BY <2>1, <2>2, <2>3
<1> QED
  BY <1>2, <1>3

\* Whatever the file says, whatever keys collide and whatever becomes of the index of
\* all_configs: context_ndx identifies a context, the index leads to one context for a
\* text, and what a context depends on was there before it, unless the file is refused
\* (configparser_push, configparser_pop and the joining of else blocks in configparser.y,
\* array_extract_element in marray.c).
THEOREM TreeCorrect == ReadSpec => [](ctx.ok => Distinct /\ DependsOnEarlier)
<1>1. StackInv /\ TreeInv => (ctx.ok => Distinct /\ DependsOnEarlier)
  BY TreeHolds
<1> QED
  BY <1>1, TreeInvariance, PTL

-----------------------------------------------------------------------------
(***************************************************************************)
(* The modes of the tokenizer.  It is ahead of the parser by one token at  *)
(* most, the one that is pending: in_brace and in_cond say where the       *)
(* parser will be when it has shifted that.                                *)
(***************************************************************************)
Bit(b) == IF b THEN 1 ELSE 0
Comparisons == {"EQ", "MATCH", "NE", "NOMATCH"}

Pending == IF yymajor = "none" THEN tid ELSE yymajor

\* The parentheses that are open on the stack.
Opened(st) == Marks(st, {"LPARAN"}, 0) - Marks(st, {"RPARAN"}, 0)

\* The place of a $ on the stack whose operator is not there yet.
WaitsAt(st, i) == st[i].major = "DOLLAR" /\ \A j \in i .. Len(st) : st[j].major \notin Operators
Waits(st) == \E i \in DOMAIN st : WaitsAt(st, i)

BraceFits(st, t, b) == b = Opened(st) + Bit(t = "LPARAN") - Bit(t = "RPARAN")
CondFits(st, t, c)  == c <=> (t = "DOLLAR" \/ (Waits(st) /\ t \notin Comparisons))

\* The stack has not been given up, and there is more to parse.
Unbroken == ret = "none" /\ ~overflowed /\ (ctx.ok \/ yystack # <<>>)

\* config_parse has returned: the tokenizer or the parser has failed.
ReturnFits == ret # "none" => yymajor = "none" /\ (tid = "error" \/ ~ctx.ok)

ModesInv ==
  /\ in_brace \in Int /\ in_cond \in BOOLEAN
  /\ yymajor # "none" => tid = "none"
  /\ ReturnFits
  /\ Unbroken => BraceFits(yystack, Pending, in_brace) /\ CondFits(yystack, Pending, in_cond)

\* How the modes change with a token that is found.
FollowsToken(t, b, c) ==
  /\ in_brace' = b + Bit(t = "LPARAN") - Bit(t = "RPARAN")
  /\ t = "DOLLAR" => in_cond' = TRUE
  /\ t \in Comparisons => in_cond' = FALSE
  /\ t \notin Comparisons \cup {"DOLLAR"} => in_cond' = c

LEMMA TokenizerModes ==
  ASSUME TokenizerStep, tid = "none", in_brace \in Int, in_cond \in BOOLEAN
  PROVE  FollowsToken(tid', in_brace, in_cond) /\ in_brace' \in Int /\ in_cond' \in BOOLEAN
<1>0. ASSUME NEW n, NEW id, Found(id, n), Plain,
             id \notin Comparisons \cup {"LPARAN", "RPARAN", "DOLLAR"}
      PROVE  FollowsToken(tid', in_brace, in_cond) /\ in_brace' \in Int /\ in_cond' \in BOOLEAN
  BY <1>0 DEF Found, Plain, FollowsToken, Bit
<1>1. ASSUME Error \/ \E n : Skipped(n)
      PROVE  FollowsToken(tid', in_brace, in_cond) /\ in_brace' \in Int /\ in_cond' \in BOOLEAN
  BY <1>1 DEF Error, Skipped, Plain, FollowsToken, Bit, Comparisons
<1>2. ASSUME NEW n, NEW id, Found(id, n), Compared, id \in Comparisons
      PROVE  FollowsToken(tid', in_brace, in_cond) /\ in_brace' \in Int /\ in_cond' \in BOOLEAN
  <2>1. tid' = id /\ in_cond' = FALSE /\ in_brace' = in_brace
    BY <1>2 DEF Found, Compared
  <2>2. id # "LPARAN" /\ id # "RPARAN" /\ id # "DOLLAR"
    BY <1>2 DEF Comparisons
  <2>3. in_brace' = in_brace + Bit(tid' = "LPARAN") - Bit(tid' = "RPARAN")
    BY <2>1, <2>2 DEF Bit
  <2> QED
    BY <1>2, <2>1, <2>2, <2>3 DEF FollowsToken
<1>3. CASE Equals
  <2>1. {"EQ", "MATCH"} \subseteq Comparisons
        /\ {"ARRAY_ASSIGN", "ASSIGN"} \cap (Comparisons \cup {"LPARAN", "RPARAN", "DOLLAR"}) = {}
    BY DEF Comparisons
  <2> QED
    BY <1>0, <1>1, <1>2, <1>3, <2>1 DEF Equals
<1>4. CASE Exclamation
  <2>1. {"NE", "NOMATCH"} \subseteq Comparisons
    BY DEF Comparisons
  <2> QED
    BY <1>1, <1>2, <1>4, <2>1 DEF Exclamation
<1>5. CASE Blank \/ Comment
  BY <1>1, <1>5 DEF Blank, Comment
<1>6. CASE Newline
  <2>1. CASE in_brace = 0
    BY <1>6, <2>1 DEF Newline, FollowsToken, Bit, Comparisons
  <2>2. CASE in_brace # 0
    BY <1>1, <1>6, <2>2 DEF Newline
  <2> QED
    BY <2>1, <2>2
<1>7. CASE Comma
  <2>1. "COMMA" \notin Comparisons \cup {"LPARAN", "RPARAN", "DOLLAR"}
    BY DEF Comparisons
  <2> QED
    BY <1>0, <1>1, <1>7, <2>1, Zenon DEF Comma
<1>8. CASE Quote
  <2>1. CASE At(Closing) = "NUL"
    BY <1>1, <1>8, <2>1, Zenon DEF Quote
  <2>2. CASE At(Closing) # "NUL"
    <3>1. tid' = "STRING" /\ Plain
      BY <1>8, <2>2, Zenon DEF Quote
    <3> QED
      BY <3>1 DEF Plain, FollowsToken, Bit, Comparisons
  <2> QED
    BY <2>1, <2>2
<1>9. CASE Parenthesis
  BY <1>9 DEF Parenthesis, Found, Depth, FollowsToken, Bit, Comparisons
<1>10. CASE Dollar
  BY <1>10 DEF Dollar, Found, FollowsToken, Bit, Comparisons
<1>11. CASE PlusSign
  BY <1>0, <1>11 DEF PlusSign, Comparisons
<1>12. CASE Bracket
  BY <1>0, <1>12, Zenon DEF Bracket, Comparisons
<1>13. CASE ConditionName
  <2>1. "SRVVARNAME" \notin Comparisons \cup {"LPARAN", "RPARAN", "DOLLAR"}
    BY DEF Comparisons
  <2> QED
    BY <1>0, <1>1, <1>13, <2>1 DEF ConditionName
<1>14. CASE Digits
  <2>1. CASE UNCHANGED tokenizerVars
    BY <2>1 DEF tokenizerVars, FollowsToken, Bit, Comparisons
  <2>2. CASE ~UNCHANGED tokenizerVars
    BY <1>0, <1>14, <2>2 DEF Digits, Comparisons
  <2> QED
    BY <2>1, <2>2
<1>15. CASE Name
  <2>1. \A w \in DOMAIN Keyword : Keyword[w] \in {"INCLUDE", "INCLUDE_SHELL", "GLOBAL", "ELSE"}
    BY Zenon DEF Keyword
  <2>2. {"INCLUDE", "INCLUDE_SHELL", "GLOBAL", "ELSE", "LKEY"}
          \cap (Comparisons \cup {"LPARAN", "RPARAN", "DOLLAR"}) = {}
    BY DEF Comparisons
  <2> QED
    BY <1>0, <1>1, <1>15, <2>1, <2>2 DEF Name
<1> QED
  BY <1>3, <1>4, <1>5, <1>6, <1>7, <1>8, <1>9, <1>10, <1>11, <1>12, <1>13, <1>14, <1>15
     DEF TokenizerStep

\* Where parentheses and conditions are in the rules.
LEMMA ModeRules ==
  /\ \A r \in 0 .. YYNRULE - 1 :
       /\ r \notin {18, 19} => \A k \in 1 .. Length(r) + 1 : Rule(r)[k] \notin {"LPARAN", "RPARAN"}
       /\ Rule(r)[1] \notin {"LPARAN", "RPARAN", "DOLLAR"}
       /\ r # 34 => \A k \in 1 .. Length(r) + 1 : Rule(r)[k] # "DOLLAR"
       /\ r \notin 34 .. 39 => \A k \in 1 .. Length(r) + 1 : Rule(r)[k] \notin Operators
  /\ Rule(18) = <<"array", "LPARAN", "RPARAN">> /\ Length(18) = 2
  /\ Rule(19) = <<"array", "LPARAN", "aelements", "RPARAN">> /\ Length(19) = 3
  /\ Length(34) = 7 /\ Rule(34)[2] = "DOLLAR" /\ Rule(34)[7] = "cond" /\ Rule(34)[1] = "context"
  /\ \A k \in 3 .. 8 : Rule(34)[k] # "DOLLAR"
  /\ \A k \in {8} : Rule(34)[k] \notin Operators
  /\ Rule(35)[1] = "context_else" /\ Length(35) = 0
  /\ \A r \in 36 .. 39 : Length(r) = 1 /\ Rule(r)[1] = "cond" /\ Rule(r)[2] \in Operators
<1>1. /\ Rule(18) = <<"array", "LPARAN", "RPARAN">>
      /\ Rule(19) = <<"array", "LPARAN", "aelements", "RPARAN">>
      /\ Rule(34) = <<"context", "DOLLAR", "SRVVARNAME", "LBRACKET", "stringop", "RBRACKET",
                      "cond", "expression">>
      /\ Rule(35) = <<"context_else">> /\ Rule(36) = <<"cond", "EQ">> /\ Rule(37) = <<"cond", "MATCH">>
      /\ Rule(38) = <<"cond", "NE">> /\ Rule(39) = <<"cond", "NOMATCH">>
  BY DEF Rule, yyRuleName
<1>2. /\ Length(18) = 2 /\ Length(19) = 3 /\ Length(34) = 7 /\ Length(35) = 0
      /\ Length(36) = 1 /\ Length(37) = 1 /\ Length(38) = 1 /\ Length(39) = 1
  BY <1>1 DEF Length
<1>3. \A r \in 36 .. 39 : r \in {36, 37, 38, 39}
  OBVIOUS
<1>4. \A r \in 36 .. 39 : Length(r) = 1 /\ Rule(r)[1] = "cond" /\ Rule(r)[2] \in Operators
  BY <1>1, <1>2, <1>3 DEF Operators
<1>5. \A k \in 3 .. 8 : k \in {3, 4, 5, 6, 7, 8}
  OBVIOUS
<1>6. (\A k \in 3 .. 8 : Rule(34)[k] # "DOLLAR") /\ Rule(34)[8] \notin Operators
  BY <1>1, <1>5 DEF Operators
<1>7. ASSUME NEW r \in 0 .. YYNRULE - 1
      PROVE  /\ r \notin {18, 19} => \A k \in 1 .. Length(r) + 1 : Rule(r)[k] \notin {"LPARAN", "RPARAN"}
             /\ Rule(r)[1] \notin {"LPARAN", "RPARAN", "DOLLAR"}
             /\ r # 34 => \A k \in 1 .. Length(r) + 1 : Rule(r)[k] # "DOLLAR"
             /\ r \notin 34 .. 39 => \A k \in 1 .. Length(r) + 1 : Rule(r)[k] \notin Operators
  <2>1. Length(r) \in Nat /\ 1 \in 1 .. Length(r) + 1
    BY TablesFitGrammar DEF MaxRule
  <2> QED
    BY <2>1, RulesNest
<1> QED
  BY <1>1, <1>2, <1>4, <1>6, <1>7

-----------------------------------------------------------------------------
(***************************************************************************)
(* What pushing a symbol and taking some away does to the parentheses and  *)
(* to the condition that waits.                                            *)
(***************************************************************************)
LEMMA OpenedAppend ==
  ASSUME NEW st, IsSeq(st), NEW e
  PROVE  Opened(Append(st, e)) = Opened(st) + Bit(e.major = "LPARAN") - Bit(e.major = "RPARAN")
<1>1. 0 \in 0 .. Len(st)
  BY SeqFacts
<1>2. \A S : Marks(st, S, 0) \in Nat
  BY MarksNat
<1>3. ASSUME NEW X PROVE Marks(Append(st, e), {X}, 0) = Marks(st, {X}, 0) + Bit(e.major = X)
  <2>1. CASE e.major = X
    <3>1. Marks(Append(st, e), {X}, 0) = Marks(st, {X}, 0) + 1
      BY <1>1, <2>1, MarksAppend
    <3> QED
      BY <2>1, <3>1 DEF Bit
  <2>2. CASE e.major # X
    <3>1. Marks(Append(st, e), {X}, 0) = Marks(st, {X}, 0)
      BY <1>1, <2>2, MarksAppend
    <3>2. Marks(st, {X}, 0) \in Nat
      BY <1>2
    <3> QED
      BY <2>2, <3>1, <3>2 DEF Bit
  <2> QED
    BY <2>1, <2>2
<1>4. PICK a \in Nat, b \in Nat : a = Marks(st, {"LPARAN"}, 0) /\ b = Marks(st, {"RPARAN"}, 0)
  BY <1>2
<1>5. PICK x \in {0, 1}, y \in {0, 1} : x = Bit(e.major = "LPARAN") /\ y = Bit(e.major = "RPARAN")
  BY DEF Bit
<1>6. Opened(Append(st, e)) = (a + x) - (b + y) /\ Opened(st) = a - b
  BY <1>3, <1>4, <1>5 DEF Opened
<1>7. (a + x) - (b + y) = (a - b) + x - y
  OBVIOUS
<1> QED
  BY <1>5, <1>6, <1>7

LEMMA OpenedCut ==
  ASSUME NEW st, IsSeq(st), NEW m \in 0 .. Len(st),
         \A j \in m + 1 .. Len(st) : st[j].major \notin {"LPARAN", "RPARAN"}
  PROVE  Opened(SubSeq(st, 1, m)) = Opened(st)
<1>1. 0 \in 0 .. m
  OBVIOUS
<1>2. \A X \in {"LPARAN", "RPARAN"} : Marks(SubSeq(st, 1, m), {X}, 0) = Marks(st, {X}, 0)
  BY <1>1, MarksCut
<1> QED
  BY <1>2 DEF Opened

\* A pair of parentheses is in what goes.
LEMMA OpenedCutPair ==
  ASSUME NEW st, IsSeq(st), NEW m \in 0 .. Len(st), m + 2 <= Len(st),
         st[m + 1].major = "LPARAN", st[Len(st)].major = "RPARAN",
         \A j \in m + 2 .. Len(st) - 1 : st[j].major \notin {"LPARAN", "RPARAN"}
  PROVE  Opened(SubSeq(st, 1, m)) = Opened(st)
<1>0. PICK n \in Nat : n = Len(st)
  BY SeqFacts
<1>1. /\ 0 \in 0 .. m /\ m + 1 \in m + 1 .. n /\ n \in m + 1 .. n /\ m + 1 # n
      /\ \A j \in m + 1 .. n : j = m + 1 \/ j = n \/ j \in m + 2 .. n - 1
  BY <1>0
<1>2. Marks(st, {"LPARAN"}, 0) = Marks(SubSeq(st, 1, m), {"LPARAN"}, 0) + 1
  <2>1. \A j \in m + 1 .. Len(st) : j # m + 1 => st[j].major \notin {"LPARAN"}
    BY <1>0, <1>1
  <2> QED
    BY <1>0, <1>1, <2>1, MarksCutOne
<1>3. Marks(st, {"RPARAN"}, 0) = Marks(SubSeq(st, 1, m), {"RPARAN"}, 0) + 1
  <2>1. PICK S : S = {"RPARAN"}
    OBVIOUS
  <2>2. \A j \in m + 1 .. Len(st) : j # n => st[j].major \notin S
    BY <1>0, <1>1, <2>1
  <2>3. n \in m + 1 .. Len(st) /\ st[n].major \in S /\ 0 \in 0 .. m
    BY <1>0, <1>1, <2>1
  <2>4. Marks(st, S, 0) = Marks(SubSeq(st, 1, m), S, 0) + 1
    <3>1. IsSeq(st) /\ m \in 0 .. Len(st)
      OBVIOUS
    <3> QED
      BY ONLY <2>2, <2>3, <3>1, MarksCutOne
  <2> QED
    BY <2>1, <2>4
<1>4. IsSeq(SubSeq(st, 1, m)) /\ \A S : Marks(SubSeq(st, 1, m), S, 0) \in Nat
  BY PrefixFacts, MarksNat
<1> QED
  BY <1>2, <1>3, <1>4 DEF Opened

LEMMA WaitsAppend ==
  ASSUME NEW st, IsSeq(st), NEW e
  PROVE  /\ e.major = "DOLLAR" => Waits(Append(st, e))
         /\ e.major \in Operators => ~Waits(Append(st, e))
         /\ e.major \notin Operators \cup {"DOLLAR"} => (Waits(Append(st, e)) <=> Waits(st))
<1> DEFINE t == Append(st, e)
           n == Len(st)
<1>1. /\ n \in Nat /\ DOMAIN st = 1 .. n /\ DOMAIN t = 1 .. n + 1 /\ Len(t) = n + 1
      /\ t[n + 1] = e /\ \A j \in 1 .. n : t[j] = st[j]
  BY SeqFacts, AppendFacts
<1> HIDE DEF t, n
<1>2. CASE e.major = "DOLLAR"
  <2>1. \A j \in n + 1 .. n + 1 : j = n + 1
    BY <1>1
  <2>2. n + 1 \in 1 .. n + 1
    BY <1>1
  <2>3. WaitsAt(t, n + 1)
    BY <1>1, <1>2, <2>1 DEF WaitsAt, Operators
  <2> QED
    BY <1>1, <1>2, <2>2, <2>3 DEF Waits, Operators, t
<1>3. CASE e.major \in Operators
  <2>1. \A i \in 1 .. n + 1 : n + 1 \in i .. n + 1
    BY <1>1
  <2>2. \A i \in 1 .. n + 1 : ~WaitsAt(t, i)
    BY <1>1, <1>3, <2>1 DEF WaitsAt
  <2> QED
    BY <1>1, <1>3, <2>2 DEF Waits, Operators, t
<1>4. CASE e.major \notin Operators \cup {"DOLLAR"}
  <2>1. ASSUME NEW i \in 1 .. n PROVE WaitsAt(t, i) <=> WaitsAt(st, i)
    <3>1. /\ \A j \in i .. n : j \in i .. n + 1 /\ j \in 1 .. n
          /\ \A j \in i .. n + 1 : j \in i .. n \/ j = n + 1
      BY <1>1
    <3> QED
      BY <1>1, <1>4, <3>1 DEF WaitsAt, n
  <2>2. ~WaitsAt(t, n + 1)
    BY <1>1, <1>4 DEF WaitsAt
  <2>3. \A i \in 1 .. n + 1 : i \in 1 .. n \/ i = n + 1
    BY <1>1
  <2>4. \A i \in 1 .. n : i \in 1 .. n + 1
    BY <1>1
  <2>5. Waits(t) <=> Waits(st)
    BY <1>1, <2>1, <2>2, <2>3, <2>4 DEF Waits
  <2> QED
    BY <1>4, <2>5 DEF t
<1> QED
  BY <1>2, <1>3, <1>4

LEMMA WaitsCut ==
  ASSUME NEW st, IsSeq(st), NEW m \in 0 .. Len(st),
         \A j \in m + 1 .. Len(st) : st[j].major \notin Operators \cup {"DOLLAR"}
  PROVE  Waits(SubSeq(st, 1, m)) <=> Waits(st)
<1> DEFINE t == SubSeq(st, 1, m)
           n == Len(st)
<1>1. /\ n \in Nat /\ DOMAIN st = 1 .. n /\ DOMAIN t = 1 .. m /\ Len(t) = m
      /\ \A j \in 1 .. m : t[j] = st[j]
  BY SeqFacts, PrefixFacts
<1> HIDE DEF t, n
<1>2. m \in Nat /\ m <= n
  BY <1>1 DEF n
<1>3. ASSUME NEW i \in 1 .. m PROVE WaitsAt(t, i) <=> WaitsAt(st, i)
  <2>1. /\ \A j \in i .. m : j \in i .. n /\ j \in 1 .. m
        /\ \A j \in i .. n : j \in i .. m \/ j \in m + 1 .. n
        /\ i \in 1 .. m
    BY <1>1, <1>2
  <2>2. t[i] = st[i]
    BY <1>1
  <2>3. WaitsAt(t, i) => WaitsAt(st, i)
    BY <1>1, <2>1, <2>2 DEF WaitsAt, n
  <2>4. WaitsAt(st, i) => WaitsAt(t, i)
    BY <1>1, <2>1, <2>2 DEF WaitsAt, n
  <2> QED
    BY <2>3, <2>4
<1>4. /\ \A i \in 1 .. n : i \in 1 .. m \/ i \in m + 1 .. n
      /\ \A i \in 1 .. m : i \in 1 .. n
  BY <1>1, <1>2
<1>5. \A i \in m + 1 .. n : ~WaitsAt(st, i)
  BY DEF WaitsAt, n
<1> QED
  BY <1>1, <1>3, <1>4, <1>5 DEF Waits, t

\* An operator is in the stack above every $: no condition waits.
LEMMA NoWait ==
  ASSUME NEW st, IsSeq(st), NEW k \in DOMAIN st, st[k].major \in Operators,
         \A i \in k + 1 .. Len(st) : st[i].major # "DOLLAR"
  PROVE  ~Waits(st)
<1>1. Len(st) \in Nat /\ DOMAIN st = 1 .. Len(st)
  BY SeqFacts
<1>2. \A i \in DOMAIN st : k \in i .. Len(st) \/ i \in k + 1 .. Len(st)
  BY <1>1
<1> QED
  BY <1>2 DEF Waits, WaitsAt

\* While a condition waits, the parser is in its left side.
LEMMA WaitsInLeftSide ==
  ASSUME NEW st, Route(st), st # <<>> => st[1].major = "$", Waits(st)
  PROVE  Last(st).stateno \in LeftSide
<1>1. PICK i \in DOMAIN st : WaitsAt(st, i)
  BY DEF Waits
<1> DEFINE n == Len(st)
           Missed == {j \in i .. n : st[j].stateno \notin LeftSide}
<1>2. n \in Nat /\ DOMAIN st = 1 .. n /\ i \in 1 .. n /\ st # <<>> /\ Last(st) = st[n]
  BY SeqFacts DEF Route
<1>3. i # 1
  BY <1>1, <1>2 DEF WaitsAt
<1>4. \A j \in 2 .. n : Step(st[j - 1], st[j]) \in Edges
  <2>1. ASSUME NEW j \in 2 .. n PROVE Step(st[j - 1], st[j]) \in Edges
    <3>1. j - 1 \in 1 .. n - 1 /\ (j - 1) + 1 = j
      BY <1>2
    <3>2. Step(st[j - 1], st[(j - 1) + 1]) \in Edges
      BY <3>1 DEF Route, n
    <3> QED
      BY <3>1, <3>2
  <2> QED
    BY <2>1
<1> HIDE DEF n
<1>5. Missed = {}
  <2> SUFFICES ASSUME Missed # {} PROVE FALSE
    OBVIOUS
  <2>1. Missed \in SUBSET Nat
    BY <1>2
  <2>2. PICK j \in Missed : \A l \in Missed : j <= l
    BY <2>1, LeastExists
  <2>3. j \in 2 .. n /\ i \in Nat /\ j \in i .. n
    BY <1>2, <1>3
  <2>4. Step(st[j - 1], st[j]) \in Edges
    BY <1>4, <2>3
  <2> DEFINE e == Step(st[j - 1], st[j])
  <2>5. e.from = st[j - 1].stateno /\ e.on = st[j].major /\ e.to = st[j].stateno
    BY DEF Step
  <2>6. e.to \notin LeftSide
    BY <2>5
  <2> HIDE DEF e
  <2>7. CASE j = i
    <3>1. e.on = "DOLLAR"
      BY <1>1, <2>5, <2>7 DEF WaitsAt
    <3> QED
      BY <2>4, <2>6, <3>1, StatesOfConditions DEF e
  <2>8. CASE j # i
    <3>1. j - 1 \in i .. n /\ ~(j <= j - 1)
      BY <1>2, <2>3, <2>8
    <3>2. j - 1 \notin Missed
      BY <2>2, <3>1
    <3>3. e.from \in LeftSide
      BY <2>5, <3>1, <3>2
    <3>4. e.on \notin Operators
      BY <1>1, <2>3, <2>5 DEF WaitsAt, n
    <3> QED
      BY <2>4, <2>6, <3>3, <3>4, StatesOfConditions DEF e
  <2> QED
    BY <2>7, <2>8
<1>6. n \in i .. n
  BY <1>2
<1> QED
  BY <1>2, <1>5, <1>6

-----------------------------------------------------------------------------
(***************************************************************************)
(* A reduction takes parentheses in pairs, and a condition whose operator  *)
(* is there as a whole.                                                    *)
(***************************************************************************)
LEMMA RestOpened ==
  ASSUME StackInv, NEW r \in 0 .. YYNRULE - 1, Reducing(r)
  PROVE  Opened(Rest(r)) = Opened(yystack)
<1>0. PICK m : m = Len(yystack) - Length(r)
  OBVIOUS
<1>1. /\ IsSeq(yystack) /\ m \in 1 .. Len(yystack) /\ Rest(r) = SubSeq(yystack, 1, m)
      /\ Len(yystack) = m + Length(r) /\ Len(yystack) \in Nat /\ Length(r) \in Nat
      /\ \A j \in m + 1 .. Len(yystack) :
           j - m + 1 \in 2 .. Length(r) + 1 /\ yystack[j].major = Rule(r)[j - m + 1]
  BY <1>0, Handle
<1>2. m \in 0 .. Len(yystack) /\ m \in Nat
  BY <1>1
<1>3. CASE r \notin {18, 19}
  <2>1. \A k \in 1 .. Length(r) + 1 : Rule(r)[k] \notin {"LPARAN", "RPARAN"}
    BY <1>3, ModeRules
  <2>2. \A k \in 2 .. Length(r) + 1 : k \in 1 .. Length(r) + 1
    BY <1>1
  <2>3. \A j \in m + 1 .. Len(yystack) : yystack[j].major \notin {"LPARAN", "RPARAN"}
    BY <1>1, <2>1, <2>2
  <2> QED
    BY <1>1, <1>2, <2>3, OpenedCut
<1>4. CASE r \in {18, 19}
  <2>1. /\ Length(r) \in {2, 3} /\ Rule(r)[2] = "LPARAN" /\ Rule(r)[Length(r) + 1] = "RPARAN"
        /\ Length(r) = 3 => Rule(r)[3] = "aelements"
    BY <1>4, ModeRules
  <2>2. m + 1 \in m + 1 .. Len(yystack) /\ Len(yystack) \in m + 1 .. Len(yystack)
        /\ m + 1 - m + 1 = 2 /\ Len(yystack) - m + 1 = Length(r) + 1 /\ m + 2 <= Len(yystack)
    BY <1>1, <1>2, <2>1
  <2>3. yystack[m + 1].major = "LPARAN" /\ yystack[Len(yystack)].major = "RPARAN"
    BY <1>1, <2>1, <2>2
  <2>4. ASSUME NEW j \in m + 2 .. Len(yystack) - 1
        PROVE  yystack[j].major \notin {"LPARAN", "RPARAN"}
    <3>1. j \in m + 1 .. Len(yystack) /\ j - m + 1 = 3 /\ Length(r) = 3
      BY <1>1, <1>2, <2>1
    <3> QED
      BY <1>1, <2>1, <3>1
  <2> QED
    BY <1>1, <1>2, <2>2, <2>3, <2>4, OpenedCutPair
<1> QED
  BY <1>3, <1>4

LEMMA RestWaits ==
  ASSUME StackInv, StackFits, NEW r \in 0 .. YYNRULE - 1, Reducing(r)
  PROVE  /\ r \in 36 .. 39 => ~Waits(yystack)
         /\ r = 34 => ~Waits(yystack) /\ ~Waits(Rest(r))
         /\ r \notin 36 .. 39 => (Waits(Rest(r)) <=> Waits(yystack))
<1>0. PICK m : m = Len(yystack) - Length(r)
  OBVIOUS
<1>1. /\ IsSeq(yystack) /\ m \in 1 .. Len(yystack) /\ Rest(r) = SubSeq(yystack, 1, m)
      /\ Len(yystack) = m + Length(r) /\ Len(yystack) \in Nat /\ Length(r) \in Nat
      /\ \A j \in m + 1 .. Len(yystack) :
           j - m + 1 \in 2 .. Length(r) + 1 /\ yystack[j].major = Rule(r)[j - m + 1]
  BY <1>0, Handle
<1>2. m \in 0 .. Len(yystack) /\ m \in Nat /\ DOMAIN yystack = 1 .. Len(yystack)
  BY <1>1, SeqFacts
<1>3. CASE r \in 36 .. 39
  <2>1. Length(r) = 1 /\ Rule(r)[2] \in Operators
    BY <1>3, ModeRules
  <2>2. /\ m + 1 \in m + 1 .. Len(yystack) /\ m + 1 - m + 1 = 2
        /\ m + 1 \in DOMAIN yystack /\ m + 1 + 1 .. Len(yystack) = {}
    BY <1>1, <1>2, <2>1
  <2>3. yystack[m + 1].major \in Operators
    <3>1. yystack[m + 1].major = Rule(r)[m + 1 - m + 1]
      BY <1>1, <2>2
    <3> QED
      BY <2>1, <2>2, <3>1
  <2> QED
    BY <1>1, <1>3, <2>2, <2>3, NoWait
<1>4. CASE r = 34
  <2>1. Length(r) = 7 /\ Rule(r)[2] = "DOLLAR" /\ Rule(r)[7] \in Operators /\ Rule(r)[8] # "DOLLAR"
    BY <1>4, ModeRules DEF Operators
  <2>2. /\ m + 6 \in m + 1 .. Len(yystack) /\ m + 6 - m + 1 = 7
        /\ m + 1 \in m + 1 .. Len(yystack) /\ m + 1 - m + 1 = 2
        /\ m + 6 \in DOMAIN yystack
        /\ \A i \in m + 6 + 1 .. Len(yystack) : i \in m + 1 .. Len(yystack) /\ i - m + 1 = 8
    BY <1>1, <1>2, <2>1
  <2>3. yystack[m + 6].major \in Operators /\ yystack[m + 1].major = "DOLLAR"
    BY <1>1, <2>1, <2>2
  <2>4. \A i \in m + 6 + 1 .. Len(yystack) : yystack[i].major # "DOLLAR"
    BY <1>1, <2>1, <2>2
  <2>5. ~Waits(yystack)
    BY <1>1, <2>2, <2>3, <2>4, NoWait
  <2>6. ~Waits(Rest(r))
    <3> SUFFICES ASSUME Waits(Rest(r)) PROVE FALSE
      OBVIOUS
    <3>1. /\ IsSeq(Rest(r)) /\ Len(Rest(r)) = m /\ \A i \in 1 .. m : Rest(r)[i] = yystack[i]
      BY <1>1, <1>2, PrefixFacts
    <3>2. Route(Rest(r))
      <4>1. Route(yystack)
        BY DEF StackInv
      <4> QED
        BY <1>1, <4>1, PathPrefix
    <3>3. 1 \in 1 .. m /\ m \in 1 .. m /\ Rest(r) # <<>> /\ yystack # <<>> /\ Last(Rest(r)) = Rest(r)[m]
      <4>1. m >= 1 /\ Len(yystack) >= 1 /\ 1 \in 1 .. m /\ m \in 1 .. m
        BY <1>1
      <4>2. Rest(r) # <<>> /\ yystack # <<>>
        BY <1>1, <3>1, <4>1, SeqFacts
      <4> QED
        BY <3>1, <4>1, <4>2, SeqFacts
    <3>4. Rest(r)[1].major = "$"
      BY <3>1, <3>3 DEF StackFits
    <3>5. yystack[m].stateno \in LeftSide
      BY <3>1, <3>2, <3>3, <3>4, WaitsInLeftSide
    <3>6. m \in 1 .. Len(yystack) - 1
      BY <1>1, <2>1
    <3>7. Step(yystack[m], yystack[m + 1]) \in Edges
      BY <3>6 DEF StackInv, Route
    <3>8. /\ Step(yystack[m], yystack[m + 1]).on = "DOLLAR"
          /\ Step(yystack[m], yystack[m + 1]).from = yystack[m].stateno
      BY <2>3 DEF Step
    <3> QED
      BY <3>5, <3>7, <3>8, StatesOfConditions
  <2>7. r \notin 36 .. 39
    BY <1>4
  <2> QED
    BY <2>5, <2>6, <2>7
<1>5. CASE r \notin 34 .. 39 \/ r = 35
  <2>1. \A k \in 2 .. Length(r) + 1 : Rule(r)[k] \notin Operators \cup {"DOLLAR"}
    <3>1. CASE r = 35
      <4>1. 2 .. Length(r) + 1 = {}
        BY <3>1, ModeRules
      <4> QED
        BY <4>1
    <3>2. CASE r \notin 34 .. 39
      <4>1. r # 34 /\ \A k \in 2 .. Length(r) + 1 : k \in 1 .. Length(r) + 1
        BY <1>1, <3>2
      <4> QED
        BY <3>2, <4>1, ModeRules
    <3> QED
      BY <1>5, <3>1, <3>2
  <2>2. \A j \in m + 1 .. Len(yystack) : yystack[j].major \notin Operators \cup {"DOLLAR"}
    BY <1>1, <2>1
  <2>3. Waits(Rest(r)) <=> Waits(yystack)
    BY <1>1, <1>2, <2>2, WaitsCut
  <2>4. r # 34 /\ r \notin 36 .. 39
    BY <1>5
  <2> QED
    BY <2>3, <2>4
<1>6. r \in 36 .. 39 \/ r = 34 \/ r \notin 34 .. 39 \/ r = 35
  OBVIOUS
<1> QED
  BY <1>3, <1>4, <1>5, <1>6

\* The parser accepts nothing but the end of the input.
SameModes ==
  /\ overflowed' = overflowed
  /\ Opened(yystack') = Opened(yystack) /\ (Waits(yystack') <=> Waits(yystack))
  /\ yymajor' = yymajor \/ (yymajor' = "none" /\ yymajor = "$")

LEMMA EmptyModes == Opened(<<>>) = 0 /\ ~Waits(<<>>)
<1>1. Len(<<>>) = 0 /\ DOMAIN <<>> = {} /\ 0 + 1 .. 0 = {}
  OBVIOUS
<1>2. \A S : Marks(<<>>, S, 0) = 0
  BY <1>1, MarksNone
<1> QED
  BY <1>1, <1>2 DEF Opened, Waits

\* On the bottom of the stack there is no parenthesis and no condition.
LEMMA BottomModes ==
  ASSUME NEW st, IsSeq(st), Len(st) = 1, st[1].major = "$"
  PROVE  Opened(st) = 0 /\ ~Waits(st)
<1>1. DOMAIN st = 1 .. 1 /\ \A j \in 0 + 1 .. Len(st) : j = 1
  BY SeqFacts
<1>2. \A X \in {"LPARAN", "RPARAN"} : Marks(st, {X}, 0) = 0
  <2>1. ASSUME NEW X \in {"LPARAN", "RPARAN"} PROVE \A j \in 0 + 1 .. Len(st) : st[j].major \notin {X}
    BY <1>1
  <2> QED
    BY <2>1, MarksNone
<1>3. ~Waits(st)
  BY <1>1 DEF Waits, WaitsAt
<1> QED
  BY <1>2, <1>3 DEF Opened

LEMMA ReducedModes ==
  ASSUME StackInv, StackFits, NEW r \in 0 .. YYNRULE - 1, Reducing(r), NEW minor, Becomes(r, minor)
  PROVE  overflowed' \/ SameModes
<1>1. Grown(r, minor) \/ GivenUp(r) \/ InputEnds(r)
  BY Outcome
<1>2. PICK m : m = Len(yystack) - Length(r)
  OBVIOUS
<1>3. /\ IsSeq(yystack) /\ m \in 1 .. Len(yystack) /\ Rest(r) = SubSeq(yystack, 1, m)
      /\ m \in 0 .. Len(yystack) /\ yystack # <<>>
  BY <1>2, Handle, SeqFacts
<1>4. /\ IsSeq(Rest(r)) /\ Len(Rest(r)) = m /\ \A i \in 1 .. m : Rest(r)[i] = yystack[i]
  BY <1>3, PrefixFacts
<1>5. Opened(Rest(r)) = Opened(yystack)
  BY RestOpened
<1>6. CASE GivenUp(r)
  BY <1>6 DEF GivenUp
<1>7. CASE InputEnds(r)
  <2>1. yystack' = <<>> /\ overflowed' = overflowed /\ r = 0 /\ Len(yystack) = 2 /\ yymajor' = "none"
    BY <1>7 DEF InputEnds
  <2>2. m = 1 /\ Length(0) = 1
    BY <1>2, <2>1, RuleFacts
  <2>3. Rest(r)[1].major = "$"
    BY <1>3, <1>4, <2>2 DEF StackFits
  <2>4. Opened(Rest(r)) = 0 /\ ~Waits(Rest(r))
    BY <1>4, <2>2, <2>3, BottomModes
  <2>5. Waits(Rest(r)) <=> Waits(yystack)
    BY <2>1, RestWaits
  <2>6. yymajor = "$"
    <3>1. yymajor \in Tokens
      BY ReducingFacts
    <3>2. ShiftAction(Top.stateno, Symbol[yymajor]) = YYNSTATE
      BY <2>1 DEF Reducing, Action, YYNSTATE
    <3>3. Top.stateno \in States
      BY <1>3, SeqFacts DEF StackInv, Route, Top
    <3> QED
      BY <3>1, <3>2, <3>3, AcceptsAtEnd
  <2> QED
    BY <1>5, <2>1, <2>4, <2>5, <2>6, EmptyModes DEF SameModes
<1>8. CASE Grown(r, minor)
  <2>1. PICK t \in States :
          yystack' = Append(Rest(r), [stateno |-> t, major |-> Rule(r)[1], minor |-> minor])
    BY <1>8 DEF Grown
  <2>2. overflowed' = overflowed /\ yymajor' = yymajor
    BY <1>8 DEF Grown
  <2> DEFINE e == [stateno |-> t, major |-> Rule(r)[1], minor |-> minor]
  <2>3. e.major = Rule(r)[1] /\ yystack' = Append(Rest(r), e)
    BY <2>1
  <2> HIDE DEF e
  <2>4. e.major # "LPARAN" /\ e.major # "RPARAN" /\ e.major # "DOLLAR"
    BY <2>3, ModeRules
  <2>5. Opened(yystack') = Opened(yystack)
    <3>1. Opened(Append(Rest(r), e)) = Opened(Rest(r)) + Bit(e.major = "LPARAN") - Bit(e.major = "RPARAN")
      BY <1>4, OpenedAppend
    <3>2. Opened(yystack) \in Int
      BY <1>3, MarksNat DEF Opened
    <3> QED
      BY <1>5, <2>3, <2>4, <3>1, <3>2 DEF Bit
  <2>6. Waits(yystack') <=> Waits(yystack)
    <3>1. CASE r \in 36 .. 39
      <4>1. e.major \in Operators
        BY <2>3, <3>1, ModeRules DEF Operators
      <4> QED
        BY <1>4, <2>3, <3>1, <4>1, RestWaits, WaitsAppend
    <3>2. CASE r \notin 36 .. 39
      <4>1. e.major \notin Operators
        <5>1. CASE r \in {34, 35}
          BY <2>3, <5>1, ModeRules DEF Operators
        <5>2. CASE r \notin {34, 35}
          <6>1. r \notin 34 .. 39
            BY <3>2, <5>2
          <6>2. 1 \in 1 .. Length(r) + 1
            BY TablesFitGrammar DEF MaxRule
          <6> QED
            BY <2>3, <6>1, <6>2, ModeRules
        <5> QED
          BY <5>1, <5>2
      <4> QED
        BY <1>4, <2>3, <2>4, <3>2, <4>1, RestWaits, WaitsAppend
    <3> QED
      BY <3>1, <3>2
  <2> QED
    BY <2>2, <2>5, <2>6 DEF SameModes
<1> QED
  BY <1>1, <1>6, <1>7, <1>8

-----------------------------------------------------------------------------
(***************************************************************************)
(* The steps: the tokenizer finds a token, the parser takes it, shifts it  *)
(* and reduces.                                                            *)
(***************************************************************************)

\* Every step of the parser is one of these.
LEMMA ParserSteps ==
  ASSUME ParserStep
  PROVE  \/ Shift \/ SyntaxError
         \/ UNCHANGED <<yystack, yymajor, overflowed, ctx>>
         \/ \E r \in 0 .. YYNRULE - 1 : Reducing(r) /\ \E minor : Becomes(r, minor)
<1> USE DEF YYNRULE
<1>1. CASE Structure \/ PassOn \/ Include
  BY <1>1 DEF Structure, PassOn, Include
<1>2. CASE Assign \/ AppendTo \/ Key \/ Plus \/ Variable \/ Literal \/ Number
  BY <1>2 DEF Assign, AppendTo, Key, Plus, Variable, Literal, Number
<1>3. CASE NextElement \/ FirstElement \/ NamedElement \/ StringOp
  BY <1>3 DEF NextElement, FirstElement, NamedElement, StringOp
<1>4. CASE OpenGlobal \/ CloseGlobal \/ Operator \/ OpenCondition \/ OpenElse
  BY <1>4 DEF OpenGlobal, CloseGlobal, Operator, OpenCondition, OpenElse
<1>5. CASE CloseBlock \/ ElseCondition
  BY <1>5 DEF CloseBlock, ElseCondition
<1>a. CASE ElseBlock
  <2>1. Reducing(30) /\ \E minor : Becomes(30, minor)
    BY <1>a DEF ElseBlock
  <2> QED
    BY <2>1
<1>6. CASE ExitInGlobal \/ Crash
  BY <1>6 DEF ExitInGlobal, Crash
<1> QED
  BY <1>1, <1>2, <1>3, <1>4, <1>5, <1>a, <1>6 DEF ParserStep

LEMMA ComparisonFacts ==
  /\ Comparisons \subseteq Operators
  /\ \A t \in Tokens : t \in Operators <=> t \in Comparisons
  /\ {"LPARAN", "RPARAN", "DOLLAR", "$", "none"} \cap Comparisons = {}
<1>1. "cond" \notin Tokens
  <2>1. Rule(36)[1] = "cond" /\ 36 \in 0 .. YYNRULE - 1
    BY DEF Rule, yyRuleName, YYNRULE
  <2> QED
    BY <2>1, TablesFitGrammar
<1> QED
  BY <1>1 DEF Comparisons, Operators

\* The modes fit as before when stack and token mean what they meant.
LEMMA ModesStand ==
  ASSUME ModesInv, UNCHANGED <<in_brace, in_cond>>,
         yymajor' # "none" => tid' = "none", ReturnFits',
         Unbroken' => /\ Unbroken
                      /\ Opened(yystack') = Opened(yystack) /\ (Waits(yystack') <=> Waits(yystack))
                      /\ \/ Pending' = Pending
                         \/ {Pending, Pending'} \subseteq {"none", "$", "error"}
  PROVE  ModesInv'
<1>1. /\ "none" \notin Comparisons /\ "$" \notin Comparisons /\ "error" \notin Comparisons
  BY DEF Comparisons
<1>2. ASSUME Unbroken'
      PROVE  BraceFits(yystack', Pending', in_brace') /\ CondFits(yystack', Pending', in_cond')
  <2>1. BraceFits(yystack, Pending, in_brace) /\ CondFits(yystack, Pending, in_cond)
    BY <1>2 DEF ModesInv
  <2>2. CASE Pending' = Pending
    BY <1>2, <2>1, <2>2 DEF BraceFits, CondFits
  <2>3. CASE {Pending, Pending'} \subseteq {"none", "$", "error"}
    <3>1. /\ Pending \notin {"LPARAN", "RPARAN", "DOLLAR"} /\ Pending \notin Comparisons
          /\ Pending' \notin {"LPARAN", "RPARAN", "DOLLAR"} /\ Pending' \notin Comparisons
      BY <1>1, <2>3
    <3>2. in_brace' = in_brace /\ in_cond' = in_cond
      OBVIOUS
    <3> QED
      BY <1>2, <2>1, <3>1, <3>2 DEF BraceFits, CondFits, Bit
  <2> QED
    BY <1>2, <2>2, <2>3
<1> QED
  BY <1>2 DEF ModesInv

LEMMA TokenizeModes ==
  ASSUME StackInv, ModesInv, Tokenize
  PROVE  ModesInv'
<1>1. /\ yymajor = "none" /\ tid = "none" /\ TokenizerStep /\ UNCHANGED <<parserVars, ret>>
      /\ ret = "none"
  BY Zenon DEF Tokenize, Idle, TokenizerStep, Equals, Exclamation, Blank, Newline, Comma, Quote,
         Parenthesis, Dollar, PlusSign, Bracket, Comment, ConditionName, Digits, Name, Reading
<1>2. yystack' = yystack /\ overflowed' = overflowed /\ ctx' = ctx /\ yymajor' = "none"
      /\ ret' = "none" /\ ret = "none"
  BY <1>1 DEF parserVars
<1>3. in_brace \in Int /\ in_cond \in BOOLEAN
  BY DEF ModesInv
<1>4. FollowsToken(tid', in_brace, in_cond) /\ in_brace' \in Int /\ in_cond' \in BOOLEAN
  BY <1>1, <1>3, TokenizerModes
<1>5. Pending = "none" /\ Pending' = tid'
  BY <1>1, <1>2 DEF Pending
<1>6. ASSUME Unbroken'
      PROVE  BraceFits(yystack', Pending', in_brace') /\ CondFits(yystack', Pending', in_cond')
  <2>1. BraceFits(yystack, "none", in_brace) /\ CondFits(yystack, "none", in_cond)
    BY <1>2, <1>5, <1>6 DEF ModesInv, Unbroken
  <2>2. in_brace = Opened(yystack)
    <3>1. Opened(yystack) \in Int
      BY MarksNat DEF Opened, StackInv, Route
    <3> QED
      BY <2>1, <3>1 DEF BraceFits, Bit
  <2>3. in_cond <=> Waits(yystack)
    BY <2>1, ComparisonFacts DEF CondFits
  <2>4. BraceFits(yystack, tid', in_brace')
    BY <1>4, <2>2 DEF BraceFits, FollowsToken
  <2>5. CondFits(yystack, tid', in_cond')
    <3>1. CASE tid' = "DOLLAR"
      BY <1>4, <3>1 DEF CondFits, FollowsToken
    <3>2. CASE tid' \in Comparisons
      <4>1. tid' # "DOLLAR"
        BY <3>2, ComparisonFacts
      <4> QED
        BY <1>4, <3>2, <4>1 DEF CondFits, FollowsToken
    <3>3. CASE tid' \notin Comparisons \cup {"DOLLAR"}
      BY <1>4, <2>3, <3>3 DEF CondFits, FollowsToken
    <3> QED
      BY <3>1, <3>2, <3>3
  <2> QED
    BY <1>2, <1>5, <2>4, <2>5
<1> QED
  BY <1>2, <1>4, <1>6 DEF ModesInv, ReturnFits

LEMMA FeedModes ==
  ASSUME ModesInv, Feed
  PROVE  ModesInv'
<1> DEFINE e == [stateno |-> 0, major |-> "$", minor |-> Nothing]
<1>1. /\ yymajor = "none" /\ ctx.ok /\ tid' = "none" /\ UNCHANGED <<in_brace, in_cond, overflowed, ctx>>
      /\ ret = "none" /\ ret' = ret
  BY DEF Feed, Idle, Call, Taken
<1>2. \/ yymajor' = "none" /\ yystack' = yystack /\ tid \in {"none", "$"}
      \/ /\ yymajor' = IF tid = "none" THEN "$" ELSE tid
         /\ yystack' = yystack \/ (yystack = <<>> /\ yystack' = <<e>>)
  BY <1>1 DEF Feed, Call
<1>3. e.major = "$"
  OBVIOUS
<1> HIDE DEF e
<1>4. Opened(yystack') = Opened(yystack) /\ (Waits(yystack') <=> Waits(yystack))
  <2>1. CASE yystack = <<>> /\ yystack' = <<e>>
    <3>1. <<e>> \in Seq({e}) /\ Len(<<e>>) = 1 /\ <<e>>[1] = e
      OBVIOUS
    <3>2. IsSeq(<<e>>)
      BY <3>1, AnySeq
    <3> QED
      BY <1>3, <2>1, <3>1, <3>2, BottomModes, EmptyModes
  <2> QED
    BY <1>2, <2>1
<1>5. \/ Pending' = Pending
      \/ {Pending, Pending'} \subseteq {"none", "$", "error"}
  BY <1>1, <1>2 DEF Pending
<1>6. Unbroken' => Unbroken
  BY <1>1 DEF Unbroken
<1> QED
  BY <1>1, <1>4, <1>5, <1>6, ModesStand DEF ReturnFits

LEMMA ShiftModes ==
  ASSUME StackInv, StackFits, ModesInv, Shift, UNCHANGED <<tokenizerVars, ret>>
  PROVE  ModesInv'
<1> DEFINE e == [stateno |-> Action, major |-> yymajor, minor |-> yyminor]
<1>1. /\ yymajor' = "none" /\ yymajor \in Tokens /\ yymajor # "none" /\ IsSeq(yystack) /\ yystack # <<>>
      /\ UNCHANGED <<in_brace, in_cond>> /\ tid' = tid /\ tid = "none"
      /\ ret' = "none" /\ ret = "none"
      /\ overflowed' \/ (overflowed' = overflowed /\ yystack' = Append(yystack, e))
  BY DEF Shift, Push, Busy, StackInv, TokensTyped, Route, tokenizerVars, ModesInv, ReturnFits
<1>2. e.major = yymajor
  OBVIOUS
<1> HIDE DEF e
<1>3. Pending = yymajor /\ Pending' = "none"
  BY <1>1 DEF Pending
<1>4. ASSUME Unbroken'
      PROVE  BraceFits(yystack', "none", in_brace) /\ CondFits(yystack', "none", in_cond)
  <2>1. overflowed' = overflowed /\ yystack' = Append(yystack, e) /\ Unbroken
    BY <1>1, <1>4 DEF Unbroken
  <2>2. BraceFits(yystack, yymajor, in_brace) /\ CondFits(yystack, yymajor, in_cond)
    BY <1>3, <2>1 DEF ModesInv
  <2>3. BraceFits(yystack', "none", in_brace)
    <3>1. in_brace = Opened(yystack')
      BY <1>1, <1>2, <2>1, <2>2, OpenedAppend DEF BraceFits
    <3> QED
      BY <3>1 DEF BraceFits, Bit, ModesInv
  <2>4. in_cond <=> Waits(yystack')
    <3>1. CASE yymajor = "DOLLAR"
      BY <1>1, <1>2, <2>1, <2>2, <3>1, WaitsAppend DEF CondFits
    <3>2. CASE yymajor \in Comparisons
      <4>1. yymajor \in Operators /\ yymajor # "DOLLAR"
        BY <3>2, ComparisonFacts
      <4> QED
        BY <1>1, <1>2, <2>1, <2>2, <3>2, <4>1, WaitsAppend DEF CondFits
    <3>3. CASE yymajor \notin Comparisons \cup {"DOLLAR"}
      <4>1. yymajor \notin Operators \cup {"DOLLAR"}
        BY <1>1, <3>3, ComparisonFacts
      <4> QED
        BY <1>1, <1>2, <2>1, <2>2, <3>3, <4>1, WaitsAppend DEF CondFits
    <3> QED
      BY <3>1, <3>2, <3>3
  <2> QED
    BY <2>3, <2>4, ComparisonFacts DEF CondFits
<1> QED
  BY <1>1, <1>3, <1>4 DEF ModesInv, ReturnFits

LEMMA ParseModes ==
  ASSUME StackInv, StackFits, ModesInv, ParserStep, UNCHANGED <<tokenizerVars, ret>>
  PROVE  ModesInv'
<1>0. UNCHANGED <<in_brace, in_cond, tid, ret>> /\ (Busy => ret = "none")
  BY DEF tokenizerVars, Busy, ModesInv, ReturnFits
<1>1. CASE Shift
  BY <1>1, ShiftModes
<1>2. CASE SyntaxError
  <2>1. yystack' = <<>> /\ yymajor' = "none" /\ ~ctx'.ok
    BY <1>2, FailedFacts DEF SyntaxError, StackInv
  <2>2. ~Unbroken'
    BY <2>1 DEF Unbroken
  <2> QED
    BY <1>0, <1>2, <2>1, <2>2, ModesStand DEF SyntaxError, ReturnFits
<1>3. CASE UNCHANGED <<yystack, yymajor, overflowed, ctx>>
  BY <1>0, <1>3, ModesStand DEF ModesInv, Unbroken, Pending, ReturnFits
<1>4. ASSUME NEW r \in 0 .. YYNRULE - 1, Reducing(r), NEW minor, Becomes(r, minor)
      PROVE  ModesInv'
  <2>1. yymajor # "none" /\ yystack # <<>> /\ tid = "none" /\ tid' = "none"
        /\ ret = "none" /\ ret' = "none"
    BY <1>0, <1>4 DEF Reducing, Busy, StackInv, ModesInv
  <2>2. overflowed' \/ SameModes
    BY <1>4, ReducedModes
  <2>3. CASE overflowed'
    BY <1>0, <2>1, <2>3, ModesStand DEF Unbroken, ReturnFits
  <2>4. CASE SameModes
    <3>1. Unbroken' => Unbroken
      BY <2>1, <2>4 DEF Unbroken, SameModes
    <3>2. \/ Pending' = Pending
          \/ {Pending, Pending'} \subseteq {"none", "$", "error"}
      BY <2>1, <2>4 DEF Pending, SameModes
    <3> QED
      BY <1>0, <2>1, <2>4, <3>1, <3>2, ModesStand DEF SameModes, ReturnFits
  <2> QED
    BY <2>2, <2>3, <2>4
<1> QED
  BY <1>1, <1>2, <1>3, <1>4, ParserSteps

LEMMA ModesNext ==
  ASSUME StackInv, TreeInv, ModesInv, [ReadNext]_allVars
  PROVE  ModesInv'
<1>0. ASSUME UNCHANGED <<in_brace, in_cond, tid, yystack, yymajor, overflowed, ctx, ret>>
      PROVE  ModesInv'
  BY <1>0, ModesStand DEF ModesInv, Unbroken, Pending, ReturnFits
<1>1. ASSUME Next PROVE ModesInv'
  <2>1. CASE ReadLine
    BY <1>0, <2>1 DEF ReadLine, Line, Close, parserVars
  <2>2. CASE Tokenize
    BY <2>2, TokenizeModes
  <2>3. CASE Feed
    BY <2>3, FeedModes
  <2>4. CASE Parse
    BY <2>4, ParseModes DEF Parse, TreeInv
  <2>5. CASE Return
    <3>1. /\ ret' # "none" /\ yymajor = "none" /\ yymajor' = "none"
          /\ UNCHANGED <<in_brace, in_cond>>
          /\ tid' = "error" \/ ~ctx'.ok
      BY <2>5 DEF Return, Idle, Taken, parserVars, tokenizerVars
    <3> QED
      BY <3>1, ModesStand DEF ReturnFits, Unbroken
  <2> QED
    BY <1>1, <2>1, <2>2, <2>3, <2>4, <2>5 DEF Next
<1>2. CASE UNCHANGED vars
  BY <1>0, <1>2 DEF vars, parserVars, tokenizerVars
<1>3. CASE StreamSize
  BY <1>0, <1>3 DEF StreamSize, parserVars, tokenizerVars
<1>4. CASE Parsing
  BY <1>1, <1>4 DEF Parsing
<1> QED
  BY <1>2, <1>3, <1>4
     DEF ReadNext, allVars, OptionsKept, StreamOpen, StreamMap, StreamClose, InsertContext,
         InsertFault, Engine, Modules, Chroot, CheckTempdir, DocumentRoot

-----------------------------------------------------------------------------
(***************************************************************************)
(* Tokenizer, parser and configs_stack agree, for every file.              *)
(***************************************************************************)
LEMMA ModesInvariance == ReadSpec => [](StackInv /\ TreeInv /\ ModesInv)
<1>1. ReadInit => StackInv /\ TreeInv /\ ModesInv
  <2> SUFFICES ASSUME ReadInit PROVE ModesInv
    BY InitStackInv, InitTree
  <2>1. /\ in_brace = 0 /\ in_cond = FALSE /\ tid = "none" /\ yymajor = "none" /\ ret = "none"
        /\ yystack = <<>>
    BY DEF ReadInit, Init, TokenizerInit, ParserInit
  <2>2. Pending = "none"
    BY <2>1 DEF Pending
  <2>3. BraceFits(<<>>, "none", 0)
    BY EmptyModes DEF BraceFits, Bit
  <2>4. CondFits(<<>>, "none", FALSE)
    BY EmptyModes DEF CondFits
  <2>5. in_brace \in Int /\ ReturnFits
    BY <2>1 DEF ReturnFits
  <2>6. in_cond \in BOOLEAN
    BY <2>1
  <2> QED
    BY <2>1, <2>2, <2>3, <2>4, <2>5, <2>6 DEF ModesInv
<1>2. StackInv /\ TreeInv /\ ModesInv /\ [ReadNext]_allVars => StackInv' /\ TreeInv' /\ ModesInv'
  BY ReadNextInv, TreeNext, ModesNext
<1> QED
  BY <1>1, <1>2, PTL DEF ReadSpec

\* The number of symbols on the whole stack.
LEMMA CountMarks ==
  ASSUME StackInv, NEW S
  PROVE  Count(S) = Marks(yystack, S, 0)
<1>1. DOMAIN yystack = 0 + 1 .. Len(yystack)
  BY SeqFacts DEF StackInv, Route
<1> QED
  BY <1>1 DEF Count, Marks, Marked

LEMMA ModesHold ==
  ASSUME StackInv, TreeInv, ModesInv
  PROVE  ModesAgree
<1> SUFFICES ASSUME Sound PROVE /\ Len(ctx.configs_stack) = Count(Openers)
                                /\ yymajor = "none" /\ tid = "none" =>
                                     /\ in_brace = Count({"LPARAN"}) - Count({"RPARAN"})
                                     /\ in_cond <=> Waits(yystack)
  BY DEF ModesAgree, Waits, WaitsAt
<1>1. ctx.ok /\ ~overflowed
  BY DEF Sound
<1>2. Len(ctx.configs_stack) = Count(Openers)
  <2>1. BlocksCounted(yystack, overflowed, Len(ctx.configs_stack))
    BY <1>1 DEF TreeInv, TreeFits
  <2>2. Count(Openers) = Marks(yystack, Openers, 0)
    BY CountMarks
  <2> QED
    BY <1>1, <2>1, <2>2 DEF BlocksCounted
<1>3. ASSUME yymajor = "none", tid = "none"
      PROVE  /\ in_brace = Count({"LPARAN"}) - Count({"RPARAN"})
             /\ in_cond <=> Waits(yystack)
  <2>1. Unbroken /\ Pending = "none"
    BY <1>1, <1>3 DEF Unbroken, Pending, ModesInv, ReturnFits
  <2>2. BraceFits(yystack, "none", in_brace) /\ CondFits(yystack, "none", in_cond)
    BY <2>1 DEF ModesInv
  <2>3. Opened(yystack) \in Int
    BY MarksNat DEF Opened, StackInv, Route
  <2>4. in_brace = Opened(yystack)
    BY <2>2, <2>3 DEF BraceFits, Bit
  <2>5. in_cond <=> Waits(yystack)
    BY <2>2, ComparisonFacts DEF CondFits
  <2> QED
    BY <2>4, <2>5, CountMarks DEF Opened
<1> QED
  BY <1>2, <1>3

\* As long as no failure is known, there is an entry of configs_stack for every block
\* that is open in the parser, the tokenizer counts the parentheses that are open on its
\* stack, and it looks for the operator of a condition exactly while the parser waits
\* for it.
THEOREM ModesCorrect == ReadSpec => []ModesAgree
<1>1. StackInv /\ TreeInv /\ ModesInv => ModesAgree
  BY ModesHold
<1> QED
  BY <1>1, ModesInvariance, PTL

-----------------------------------------------------------------------------
(***************************************************************************)
(* Sequences that are put together.                                        *)
(***************************************************************************)
\* Two sequences, one behind the other.
LEMMA ConcatFacts ==
  ASSUME NEW s, IsSeq(s), NEW t, IsSeq(t)
  PROVE  /\ IsSeq(s \o t) /\ Len(s \o t) = Len(s) + Len(t)
         /\ DOMAIN (s \o t) = 1 .. Len(s) + Len(t)
         /\ \A i \in 1 .. Len(s) : (s \o t)[i] = s[i]
         /\ \A i \in 1 .. Len(t) : (s \o t)[Len(s) + i] = t[i]
         /\ ToSet(s \o t) = ToSet(s) \cup ToSet(t)
<1> DEFINE S == ToSet(s) \cup ToSet(t)
<1>1. s \in Seq(S) /\ t \in Seq(S) /\ Len(s) \in Nat /\ Len(t) \in Nat
  <2>1. s \in [1 .. Len(s) -> ToSet(s)] /\ Len(s) \in Nat
    BY LenProperties DEF IsSeq
  <2>2. t \in [1 .. Len(t) -> ToSet(t)] /\ Len(t) \in Nat
    BY LenProperties DEF IsSeq
  <2>3. s \in [1 .. Len(s) -> S] /\ t \in [1 .. Len(t) -> S]
    BY <2>1, <2>2
  <2> QED
    BY <2>1, <2>2, <2>3
<1> HIDE DEF S
<1>2. /\ s \o t \in Seq(S) /\ Len(s \o t) = Len(s) + Len(t)
      /\ \A i \in 1 .. Len(s) + Len(t) : (s \o t)[i] = IF i <= Len(s) THEN s[i] ELSE t[i - Len(s)]
  BY <1>1, ConcatProperties
<1>3. IsSeq(s \o t) /\ DOMAIN (s \o t) = 1 .. Len(s) + Len(t)
  BY <1>2, AnySeq, LenProperties
<1>4. \A i \in 1 .. Len(s) : (s \o t)[i] = s[i]
  BY <1>1, <1>2
<1>5. \A i \in 1 .. Len(t) : (s \o t)[Len(s) + i] = t[i]
  <2>1. \A i \in 1 .. Len(t) : Len(s) + i \in 1 .. Len(s) + Len(t) /\ ~(Len(s) + i <= Len(s))
                               /\ Len(s) + i - Len(s) = i
    BY <1>1
  <2> QED
    BY <1>2, <2>1
<1>6. ToSet(s \o t) = ToSet(s) \cup ToSet(t)
  <2>1. DOMAIN s = 1 .. Len(s) /\ DOMAIN t = 1 .. Len(t)
    BY SeqFacts
  <2>2. \A i \in 1 .. Len(s) + Len(t) : i \in 1 .. Len(s) \/ \E j \in 1 .. Len(t) : i = Len(s) + j
    <3> TAKE i \in 1 .. Len(s) + Len(t)
    <3>1. i \in 1 .. Len(s) \/ (i - Len(s) \in 1 .. Len(t) /\ i = Len(s) + (i - Len(s)))
      BY <1>1
    <3> QED
      BY <3>1
  <2>3. /\ \A i \in 1 .. Len(s) : i \in 1 .. Len(s) + Len(t)
        /\ \A i \in 1 .. Len(t) : Len(s) + i \in 1 .. Len(s) + Len(t)
    BY <1>1
  <2>4. ToSet(s \o t) \subseteq ToSet(s) \cup ToSet(t)
    <3> SUFFICES ASSUME NEW x \in ToSet(s \o t) PROVE x \in ToSet(s) \cup ToSet(t)
      OBVIOUS
    <3>1. PICK i \in 1 .. Len(s) + Len(t) : x = (s \o t)[i]
      BY <1>3 DEF ToSet
    <3>2. CASE i \in 1 .. Len(s)
      BY <3>1, <3>2, <2>1, <1>4 DEF ToSet
    <3>3. ASSUME NEW j \in 1 .. Len(t), i = Len(s) + j PROVE x \in ToSet(t)
      BY <3>1, <3>3, <2>1, <1>5 DEF ToSet
    <3> QED
      BY <2>2, <3>2, <3>3
  <2>5. ToSet(s) \subseteq ToSet(s \o t)
    BY <1>3, <1>4, <2>1, <2>3 DEF ToSet
  <2>6. ToSet(t) \subseteq ToSet(s \o t)
    BY <1>3, <1>5, <2>1, <2>3 DEF ToSet
  <2> QED
    BY <2>4, <2>5, <2>6
<1> QED
  BY <1>2, <1>3, <1>4, <1>5, <1>6

LEMMA ShortSeqs ==
  ASSUME NEW a, NEW b, NEW c
  PROVE  /\ IsSeq(<<>>) /\ IsSeq(<<a>>) /\ IsSeq(<<a, b>>) /\ IsSeq(<<a, b, c>>)
         /\ ToSet(<<a>>) = {a} /\ <<a>> # <<>>
<1>1. <<>> \in Seq({a}) /\ <<a>> \in Seq({a}) /\ <<a, b>> \in Seq({a, b}) /\ <<a, b, c>> \in Seq({a, b, c})
  OBVIOUS
<1>2. ToSet(<<a>>) = {a}
  <2>1. DOMAIN <<a>> = {1} /\ <<a>>[1] = a
    OBVIOUS
  <2> QED
    BY <2>1 DEF ToSet
<1> QED
  BY <1>1, <1>2, AnySeq

-----------------------------------------------------------------------------
(***************************************************************************)
(* The values of variables: texts, numbers, and lists of such.             *)
(***************************************************************************)
ElementFits(e) ==
  /\ e = Data(e.type, e.key, e.value) /\ IsSeq(e.key)
  /\ e.type = "string" => IsSeq(e.value)

ListFits(a) == IsSeq(a) /\ \A i \in DOMAIN a : ElementFits(a[i])

DataFits(du) ==
  /\ du = Data(du.type, du.key, du.value) /\ IsSeq(du.key)
  /\ du.type \in {"string", "buffer"} => IsSeq(du.value)
  /\ du.type = "array" => ListFits(du.value)

ValueTypes == {"string", "integer", "array"}
ValueFits(du) == DataFits(du) /\ du.type \in ValueTypes

LEMMA DataParts ==
  ASSUME NEW t, NEW k, NEW v
  PROVE  /\ Data(t, k, v).type = t /\ Data(t, k, v).key = k /\ Data(t, k, v).value = v
         /\ \A x : [Data(t, k, v) EXCEPT !.value = x] = Data(t, k, x)
         /\ \A x : [Data(t, k, v) EXCEPT !.key = x] = Data(t, x, v)
<1>1. Data(t, k, v).type = t /\ Data(t, k, v).key = k /\ Data(t, k, v).value = v
  BY DEF Data
<1>2. ASSUME NEW x PROVE [Data(t, k, v) EXCEPT !.value = x] = Data(t, k, x)
  BY DEF Data
<1>3. ASSUME NEW x PROVE [Data(t, k, v) EXCEPT !.key = x] = Data(t, x, v)
  BY DEF Data
<1> QED
  BY <1>1, <1>2, <1>3

LEMMA ValueIsElement ==
  ASSUME NEW du, DataFits(du)
  PROVE  ElementFits(du)
BY DEF DataFits, ElementFits

LEMMA MadeFits ==
  ASSUME NEW k, IsSeq(k), NEW v
  PROVE  /\ IsSeq(v) => DataFits(Data("string", k, v)) /\ DataFits(Data("buffer", k, v))
         /\ ListFits(v) => DataFits(Data("array", k, v))
         /\ DataFits(Data("integer", k, v)) /\ DataFits(Data("config", k, v))
         /\ DataFits(Data("cond", k, v)) /\ DataFits(Data("none", k, v)) /\ DataFits(Data("null", k, v))
<1>1. ASSUME NEW t, t \in {"string", "buffer"} => IsSeq(v), t = "array" => ListFits(v)
      PROVE  DataFits(Data(t, k, v))
  <2>1. PICK du : du = Data(t, k, v)
    OBVIOUS
  <2>2. du.type = t /\ du.key = k /\ du.value = v
    BY <2>1, DataParts
  <2>3. DataFits(du)
    BY <1>1, <2>1, <2>2 DEF DataFits
  <2> QED
    BY <2>1, <2>3
<1> QED
  BY <1>1

LEMMA ListAppend ==
  ASSUME NEW a, ListFits(a), NEW e, ElementFits(e)
  PROVE  ListFits(Append(a, e))
<1>1. /\ IsSeq(Append(a, e)) /\ DOMAIN Append(a, e) = 1 .. Len(a) + 1
      /\ \A i \in 1 .. Len(a) : Append(a, e)[i] = a[i]
      /\ Append(a, e)[Len(a) + 1] = e
  BY AppendFacts DEF ListFits
<1>2. Len(a) \in Nat /\ DOMAIN a = 1 .. Len(a)
  BY SeqFacts DEF ListFits
<1>3. \A i \in 1 .. Len(a) + 1 : i \in 1 .. Len(a) \/ i = Len(a) + 1
  BY <1>2
<1> QED
  BY <1>1, <1>2, <1>3 DEF ListFits

LEMMA ListConcat ==
  ASSUME NEW a, ListFits(a), NEW b, ListFits(b)
  PROVE  ListFits(a \o b)
<1>1. /\ IsSeq(a \o b) /\ ToSet(a \o b) = ToSet(a) \cup ToSet(b)
  BY ConcatFacts DEF ListFits
<1>2. \A x \in ToSet(a) \cup ToSet(b) : ElementFits(x)
  BY DEF ListFits, ToSet
<1>3. \A i \in DOMAIN (a \o b) : (a \o b)[i] \in ToSet(a \o b)
  BY DEF ToSet
<1> QED
  BY <1>1, <1>2, <1>3 DEF ListFits

LEMMA ShortLists ==
  /\ ListFits(<<>>)
  /\ \A e : ElementFits(e) => ListFits(<<e>>)
<1>1. ListFits(<<>>)
  <2>1. IsSeq(<<>>)
    BY ShortSeqs
  <2>2. DOMAIN <<>> = {}
    OBVIOUS
  <2> QED
    BY <2>1, <2>2 DEF ListFits
<1>2. ASSUME NEW e, ElementFits(e) PROVE ListFits(<<e>>)
  <2>1. IsSeq(<<e>>)
    BY ShortSeqs
  <2>2. DOMAIN <<e>> = {1} /\ <<e>>[1] = e
    OBVIOUS
  <2>3. \A i \in DOMAIN <<e>> : ElementFits(<<e>>[i])
    BY <2>2, <1>2
  <2> QED
    BY <2>1, <2>3 DEF ListFits
<1> QED
  BY <1>1, <1>2

\* What comes of a sum extends its first part, or is a number in front of a text.
LEMMA MergeFits ==
  ASSUME NEW op1, ValueFits(op1), NEW op2, ValueFits(op2),
         NEW sum, sum = Merge(op1, op2), ~IsNull(sum)
  PROVE  /\ ValueFits(sum)
         /\ sum.type = op1.type \/ op1.type = "integer"
         /\ op1.type # "integer" => \E w : IsSeq(op1.value) /\ IsSeq(w) /\ sum.value = op1.value \o w
<1> DEFINE types == <<op1.type, op2.type>>
<1>0. /\ op1 = Data(op1.type, op1.key, op1.value) /\ IsSeq(op1.key)
      /\ op1.type = "string" => IsSeq(op1.value)
      /\ op2.type = "string" => IsSeq(op2.value)
      /\ op1.type = "array" => ListFits(op1.value)
      /\ op2.type = "array" => ListFits(op2.value)
  BY DEF ValueFits, DataFits
<1>1. ASSUME NEW w, sum = [op1 EXCEPT !.value = w]
      PROVE  sum = Data(op1.type, op1.key, w) /\ sum.type = op1.type /\ sum.value = w
  BY <1>0, <1>1, DataParts
<1>2. IsSeq(<<ToString(op2.value)>>) /\ IsSeq(<<ToString(op1.value)>>) /\ IsSeq(<<>>)
  BY ShortSeqs
<1>3. CASE types = <<"string", "string">>
  <2>1. sum = [op1 EXCEPT !.value = op1.value \o op2.value] /\ op1.type = "string" /\ op2.type = "string"
    BY <1>3 DEF Merge
  <2>2. sum = Data("string", op1.key, op1.value \o op2.value) /\ IsSeq(op1.value \o op2.value)
    BY <2>1, <1>0, <1>1, ConcatFacts
  <2>3. ValueFits(sum)
    BY <2>2, <1>0, MadeFits, DataParts DEF ValueFits, ValueTypes
  <2>4. sum.type = op1.type /\ sum.value = op1.value \o op2.value /\ IsSeq(op1.value) /\ IsSeq(op2.value)
    BY <2>1, <1>0, <1>1
  <2> QED
    BY <2>3, <2>4
<1>4. CASE types = <<"string", "integer">>
  <2>1. /\ sum = [op1 EXCEPT !.value = op1.value \o <<ToString(op2.value)>>] /\ op1.type = "string"
    BY <1>4 DEF Merge
  <2>2. /\ sum = Data("string", op1.key, op1.value \o <<ToString(op2.value)>>)
        /\ IsSeq(op1.value \o <<ToString(op2.value)>>)
    BY <2>1, <1>0, <1>1, <1>2, ConcatFacts
  <2>3. ValueFits(sum)
    BY <2>2, <1>0, MadeFits, DataParts DEF ValueFits, ValueTypes
  <2>4. sum.type = op1.type /\ sum.value = op1.value \o <<ToString(op2.value)>> /\ IsSeq(op1.value)
    BY <2>1, <1>0, <1>1
  <2> QED
    BY <2>3, <2>4, <1>2
<1>5. CASE types = <<"integer", "string">>
  <2>1. /\ sum = StringData(<<ToString(op1.value)>> \o op2.value) /\ op1.type = "integer" /\ op2.type = "string"
    BY <1>5 DEF Merge
  <2>2. IsSeq(<<ToString(op1.value)>> \o op2.value)
    BY <2>1, <1>0, <1>2, ConcatFacts
  <2> QED
    BY <2>1, <2>2, <1>2, MadeFits, DataParts DEF ValueFits, ValueTypes, StringData
<1>6. CASE types = <<"integer", "integer">>
  <2>1. /\ sum = [op1 EXCEPT !.value = op1.value + op2.value] /\ op1.type = "integer"
    BY <1>6 DEF Merge
  <2>2. sum = Data("integer", op1.key, op1.value + op2.value)
    BY <2>1, <1>1
  <2> QED
    BY <2>1, <2>2, <1>0, MadeFits, DataParts DEF ValueFits, ValueTypes
<1>7. CASE types = <<"array", "array">> /\ \A i \in DOMAIN op2.value : Fits(op1.value, op2.value[i])
  <2>1. sum = [op1 EXCEPT !.value = op1.value \o op2.value] /\ op1.type = "array" /\ op2.type = "array"
    BY <1>7 DEF Merge
  <2>2. sum = Data("array", op1.key, op1.value \o op2.value) /\ ListFits(op1.value \o op2.value)
    BY <2>1, <1>0, <1>1, ListConcat
  <2>3. IsSeq(op1.value) /\ IsSeq(op2.value)
    BY <2>1, <1>0 DEF ListFits
  <2>4. ValueFits(sum)
    BY <2>2, <1>0, MadeFits, DataParts DEF ValueFits, ValueTypes
  <2>5. sum.type = op1.type /\ sum.value = op1.value \o op2.value
    BY <2>1, <1>1
  <2> QED
    BY <2>3, <2>4, <2>5
<1>8. CASE /\ types # <<"string", "string">> /\ types # <<"string", "integer">> /\ types # <<"integer", "string">>
           /\ types # <<"integer", "integer">>
           /\ ~(types = <<"array", "array">> /\ \A i \in DOMAIN op2.value : Fits(op1.value, op2.value[i]))
  <2>1. sum = NULL
    BY <1>8 DEF Merge
  <2> QED
    BY <2>1, DataFacts
<1> QED
  BY <1>3, <1>4, <1>5, <1>6, <1>7, <1>8

\* Each context is below one that was there before it.
Nested(dcs) ==
  /\ Len(dcs) \in Nat /\ DOMAIN dcs = 1 .. Len(dcs)
  /\ \A d \in DOMAIN dcs : dcs[d].parent \in 0 .. d - 1

\* What is found is a variable of the current context, or else of another, or it
\* is NULL.
LEMMA FoundVariable ==
  ASSUME NEW c, Nested(c.dcs), c.current \in DOMAIN c.dcs, NEW name
  PROVE  /\ name \in DOMAIN c.dcs[c.current].value => GetVariable(c, name) = c.dcs[c.current].value[name]
         /\ \/ GetVariable(c, name) = NULL
            \/ \E d \in DOMAIN c.dcs : /\ name \in DOMAIN c.dcs[d].value
                                       /\ GetVariable(c, name) = c.dcs[d].value[name]
<1> DEFINE N == Len(c.dcs)
           There(d) == name \in DOMAIN c.dcs[d].value
           It(d) == c.dcs[d].value[name]
           Up(d) == c.dcs[d].parent
           Body(g, d) == IF d = NONE THEN NULL ELSE IF There(d) THEN It(d) ELSE g[Up(d)]
           Is(n, g) == g = [d \in 0 .. n |-> Body(g, d)]
           X == {n \in 0 .. N : \E g : Is(n, g)}
           F == CHOOSE g : Is(N, g)
           Good(du) == du = NULL \/ \E d \in DOMAIN c.dcs : There(d) /\ du = It(d)
<1>1. N \in Nat /\ DOMAIN c.dcs = 1 .. N /\ \A d \in 1 .. N : Up(d) \in 0 .. d - 1
  BY DEF Nested
<1>2. GetVariable(c, name) = IF There(c.current) THEN It(c.current) ELSE F[Up(c.current)]
  BY DEF GetVariable
<1> HIDE DEF N, There, It, Up
<1>3. 0 \in X
  <2> DEFINE g == [d \in 0 .. 0 |-> NULL]
  <2>1. g = [d \in 0 .. 0 |-> Body(g, d)]
    BY DEF NONE
  <2> QED
    BY <2>1, <1>1
<1>4. ASSUME NEW n \in 0 .. N - 1, n \in X PROVE n + 1 \in X
  <2>1. PICK g : Is(n, g)
    BY <1>4
  <2> DEFINE h == [d \in 0 .. n + 1 |-> Body(g, d)]
  <2>2. ASSUME NEW d \in 0 .. n + 1 PROVE Body(g, d) = Body(h, d)
    <3>1. CASE d = NONE \/ There(d)
      BY <3>1
    <3>2. CASE d # NONE /\ ~There(d)
      <4> DEFINE p == Up(d)
      <4>0. d \in 1 .. N
        BY <3>2, <1>1 DEF NONE
      <4>1. p \in 0 .. d - 1
        BY <4>0, <1>1
      <4>2. p \in 0 .. n /\ p \in 0 .. n + 1
        BY <4>1
      <4> HIDE DEF p
      <4>3. g[p] = Body(g, p) /\ h[p] = Body(g, p)
        BY <4>2, <2>1
      <4> QED
        BY <3>2, <4>3 DEF p
    <3> QED
      BY <3>1, <3>2
  <2>3. h = [d \in 0 .. n + 1 |-> Body(h, d)]
    <3>1. h = [d \in 0 .. n + 1 |-> Body(g, d)]
      OBVIOUS
    <3> HIDE DEF h
    <3> QED
      BY <3>1, <2>2
  <2>4. n + 1 \in 0 .. N
    BY <1>1
  <2> QED
    BY <2>3, <2>4
<1>5. N \in X
  <2>1. \A n \in 0 .. N : n \in X
    <3> HIDE DEF X
    <3> QED
      BY <1>1, <1>3, <1>4, InductionUpTo
  <2>2. N \in 0 .. N
    BY <1>1
  <2> HIDE DEF X
  <2> QED
    BY <2>1, <2>2
<1>6. Is(N, F)
  BY <1>5
<1> HIDE DEF F
<1> DEFINE E == {n \in 0 .. N : \A d \in 0 .. n : Good(F[d])}
<1>7. 0 \in E
  BY <1>1, <1>6 DEF NONE
<1>8. ASSUME NEW n \in 0 .. N - 1, n \in E PROVE n + 1 \in E
  <2>1. n + 1 \in 1 .. N /\ n + 1 \in 0 .. N
    BY <1>1
  <2>2. Up(n + 1) \in 0 .. n
    BY <2>1, <1>1
  <2>3. Good(F[Up(n + 1)])
    BY <2>2, <1>8
  <2>4. F[n + 1] = Body(F, n + 1)
    BY <2>1, <1>6
  <2>5. Good(Body(F, n + 1))
    BY <2>1, <2>3, <1>1 DEF NONE
  <2>6. \A d \in 0 .. n + 1 : d \in 0 .. n \/ d = n + 1
    BY <2>1
  <2> HIDE DEF Good, Body
  <2> QED
    BY <2>1, <2>4, <2>5, <2>6, <1>8
<1>9. \A n \in 0 .. N : n \in E
  <2> HIDE DEF E
  <2> QED
    BY <1>1, <1>7, <1>8, InductionUpTo
<1>10. \A d \in 0 .. N : Good(F[d])
  <2>1. \A d \in 0 .. N : d \in 0 .. d
    OBVIOUS
  <2> HIDE DEF Good
  <2> QED
    BY <1>9, <2>1
<1>11. Up(c.current) \in 0 .. N
  BY <1>1
<1> QED
  BY <1>2, <1>10, <1>11 DEF There, It

\* What the lists of contexts are, whatever happened.
ListsFit(c) ==
  /\ IsSeq(c.dcs) /\ IsSeq(c.all_configs) /\ ToSet(c.all_configs) \subseteq DOMAIN c.dcs
  /\ \A d \in DOMAIN c.dcs : DOMAIN c.dcs[d] = ContextMembers

\* The variables of a context are what their names say; those that are lost are values too.
AllFit(S) == \A x \in S : ValueFits(x)
ElementsFit(dc) ==
  /\ \A n \in DOMAIN dc.value : ValueFits(dc.value[n]) /\ dc.value[n].key = n
  /\ AllFit(dc.lost)
VariablesFit(dcs) == \A d \in DOMAIN dcs : ElementsFit(dcs[d])

\* The variables of these contexts are in those.
ValuesIn(dcs, dcs2) ==
  \A d \in DOMAIN dcs : d \in DOMAIN dcs2 /\ dcs2[d].value = dcs[d].value /\ dcs2[d].lost = dcs[d].lost

LEMMA ValuesSame ==
  ASSUME NEW dcs, NEW dcs2, ValuesIn(dcs, dcs2), DOMAIN dcs2 = DOMAIN dcs, VariablesFit(dcs)
  PROVE  VariablesFit(dcs2)
BY DEF ValuesIn, VariablesFit, ElementsFit

LEMMA FittingElements ==
  ASSUME NEW dc, ElementsFit(dc)
  PROVE  AllFit(Elements(dc)) /\ \A n \in DOMAIN dc.value : dc.value[n] \in Elements(dc)
BY DEF ElementsFit, AllFit, Elements

\* An index that is made anew.
OneOfEach(S) == \A x, y \in S : x.key = y.key => x = y

LEMMA IndexedFacts ==
  ASSUME NEW S, NEW v, v = Indexed(S)
  PROVE  /\ \A n \in DOMAIN v : v[n] \in S /\ v[n].key = n
         /\ OneOfEach(S) => \A x \in S : x.key \in DOMAIN v /\ v[x.key] = x
<1>1. DOMAIN v = {x.key : x \in S} /\ \A n \in DOMAIN v : v[n] = CHOOSE x \in S : x.key = n
  BY DEF Indexed
<1>2. ASSUME NEW n \in DOMAIN v PROVE v[n] \in S /\ v[n].key = n
  <2>1. \E x \in S : x.key = n
    BY <1>1
  <2> QED
    BY <1>1, <2>1
<1> QED
  BY <1>1, <1>2 DEF OneOfEach

\* The elements of the current context are these, whatever their index leads to.
LEMMA ReindexedData ==
  ASSUME NEW c, ConfigShape(c), ListsFit(c), VariablesFit(c.dcs), c.current \in DOMAIN c.dcs,
         NEW S, AllFit(S), NEW harm, NEW e \in Reindexed(c, S, harm)
  PROVE  /\ ListsFit(e) /\ VariablesFit(e.dcs)
         /\ DOMAIN e.dcs = DOMAIN c.dcs
         /\ \A d \in DOMAIN c.dcs : d # c.current => e.dcs[d] = c.dcs[d]
         /\ harm \/ OneOfEach(S) => S \subseteq Elements(e.dcs[c.current])
<1>1. PICK l : /\ harm => l \subseteq S /\ \A x, y \in S \ l : x.key = y.key => x = y
               /\ ~harm => l = {}
               /\ Holds(e, c.ok, c.current, c.configs_stack, c.all_configs,
                        Reset(c.dcs, c.current, Indexed(S \ l), l))
  BY ReindexedFacts
<1>2. PICK v, u : v = Indexed(S \ l) /\ u = Reset(c.dcs, c.current, v, l)
  OBVIOUS
<1>3. l \subseteq S /\ (harm \/ OneOfEach(S) => OneOfEach(S \ l))
  BY <1>1 DEF OneOfEach
<1>4. e.dcs = u /\ e.all_configs = c.all_configs
  BY <1>1, <1>2 DEF Holds
<1>5. /\ IsSeq(u) /\ DOMAIN u = DOMAIN c.dcs
      /\ \A d \in DOMAIN c.dcs : DOMAIN u[d] = ContextMembers
      /\ \A d \in DOMAIN c.dcs : d # c.current => u[d] = c.dcs[d]
      /\ u[c.current].value = v /\ u[c.current].lost = l
  <2>1. IsSeq(c.dcs) /\ \A d \in DOMAIN c.dcs : DOMAIN c.dcs[d] = ContextMembers
    BY DEF ListsFit
  <2> QED
    BY ONLY <1>2, <2>1, c.current \in DOMAIN c.dcs, ResetFacts
<1>6. /\ \A n \in DOMAIN v : v[n] \in S \ l /\ v[n].key = n
      /\ OneOfEach(S \ l) => \A x \in S \ l : x.key \in DOMAIN v /\ v[x.key] = x
  BY <1>2, IndexedFacts
<1>7. ElementsFit(u[c.current])
  BY <1>3, <1>5, <1>6 DEF ElementsFit, AllFit
<1>8. ListsFit(e)
  BY <1>4, <1>5 DEF ListsFit
<1>9. VariablesFit(e.dcs)
  BY <1>4, <1>5, <1>7 DEF VariablesFit
<1>10. harm \/ OneOfEach(S) => S \subseteq Elements(u[c.current])
  BY <1>3, <1>5, <1>6 DEF Elements
<1> QED
  BY <1>4, <1>5, <1>8, <1>9, <1>10

\* A value that is joined to another.
LEMMA JoinedFits ==
  ASSUME NEW dst, ValueFits(dst), NEW src, ValueFits(src), src.type = dst.type
  PROVE  ValueFits(JoinedTo(dst, src))
<1>1. CASE dst.type # "string"
  BY <1>1 DEF JoinedTo
<1>2. CASE dst.type = "string"
  <2>1. PICK nl, colon : JoinedTo(dst, src) =
          [dst EXCEPT !.value = IF dst.value = <<>> THEN src.value
                                ELSE dst.value \o <<nl>> \o src.key \o <<colon>> \o src.value]
    BY <1>2, Zenon DEF JoinedTo
  <2>2. PICK a, b, k : a = dst.value /\ b = src.value /\ k = src.key
    OBVIOUS
  <2>3. IsSeq(a) /\ IsSeq(b) /\ IsSeq(k) /\ dst = Data("string", dst.key, a) /\ IsSeq(dst.key)
    BY <1>2, <2>2 DEF ValueFits, DataFits
  <2>4. IsSeq(a \o <<nl>> \o k \o <<colon>> \o b)
    <3>1. IsSeq(<<nl>>) /\ IsSeq(<<colon>>)
      BY ShortSeqs
    <3>2. PICK p : p = a \o <<nl>>
      OBVIOUS
    <3>3. PICK q : q = p \o k
      OBVIOUS
    <3>4. PICK r : r = q \o <<colon>>
      OBVIOUS
    <3>5. IsSeq(p)
      BY ONLY <2>3, <3>1, <3>2, ConcatFacts
    <3>6. IsSeq(q)
      BY ONLY <2>3, <3>3, <3>5, ConcatFacts
    <3>7. IsSeq(r)
      BY ONLY <3>1, <3>4, <3>6, ConcatFacts
    <3>8. IsSeq(r \o b)
      BY ONLY <2>3, <3>7, ConcatFacts
    <3> QED
      BY <3>2, <3>3, <3>4, <3>8
  <2>5. PICK w : w = (IF a = <<>> THEN b ELSE a \o <<nl>> \o k \o <<colon>> \o b)
    OBVIOUS
  <2>6. JoinedTo(dst, src) = Data("string", dst.key, w)
    <3>1. JoinedTo(dst, src) = [dst EXCEPT !.value = w]
      BY ONLY <2>1, <2>2, <2>5
    <3>2. PICK key : key = dst.key
      OBVIOUS
    <3>3. dst = Data("string", key, a)
      BY <2>3, <3>2
    <3>4. [dst EXCEPT !.value = w] = Data("string", key, w)
      BY ONLY <3>3, DataParts
    <3> QED
      BY <3>1, <3>2, <3>4
  <2>7. IsSeq(w)
    BY <2>3, <2>4, <2>5
  <2> QED
    BY <2>3, <2>6, <2>7, MadeFits, DataParts DEF ValueFits, ValueTypes
<1> QED
  BY <1>1, <1>2

\* A variable gets a value.  When the index was in order, the others are there still.
LEMMA PutFacts ==
  ASSUME NEW c, ConfigShape(c), ListsFit(c), VariablesFit(c.dcs), c.current \in DOMAIN c.dcs,
         NEW name, IsSeq(name), NEW du, ValueFits(du), NEW e \in Put(c, name, du)
  PROVE  /\ ListsFit(e) /\ VariablesFit(e.dcs)
         /\ DOMAIN e.dcs = DOMAIN c.dcs
         /\ \A d \in DOMAIN c.dcs : d # c.current => e.dcs[d] = c.dcs[d]
         /\ c.dcs[c.current].lost = {} =>
              /\ \A n \in DOMAIN c.dcs[c.current].value :
                   n # name => c.dcs[c.current].value[n] \in Elements(e.dcs[c.current])
              /\ Data(du.type, name, du.value) \in Elements(e.dcs[c.current])
<1> DEFINE rest0 == Others(c, name)
           new == Data(du.type, name, du.value)
           moved == Held(c, name) # {} /\ Cardinality(rest0) > 1
           harm == moved \/ IndexLost(c)
           twins == {x \in rest0 : x.key = name /\ x.type = du.type /\ moved}
<1>1. [du EXCEPT !.key = name] = new
  BY DataParts DEF ValueFits, DataFits
<1>2. e \in Reindexed(c, rest0 \cup {new}, harm) \/
      \E x \in twins : e \in Reindexed(c, (rest0 \ {x}) \cup {JoinedTo(x, new)}, TRUE)
  BY <1>1 DEF Put
<1>3. ValueFits(new) /\ new.type = du.type /\ new.key = name
  <2>1. new.type = du.type /\ new.value = du.value /\ new.key = name
    BY DataParts
  <2>2. new = Data(new.type, new.key, new.value)
    BY <2>1
  <2> HIDE DEF new
  <2> QED
    BY <2>1, <2>2 DEF ValueFits, DataFits
<1>4. PICK dc : dc = c.dcs[c.current]
  OBVIOUS
<1>5. /\ rest0 = Elements(dc) \ Held(c, name)
      /\ Held(c, name) = IF name \in DOMAIN dc.value THEN {dc.value[name]} ELSE {}
  BY <1>4 DEF Others, Held
<1>6. ElementsFit(dc) /\ AllFit(rest0)
  <2>1. ElementsFit(dc)
    BY <1>4 DEF VariablesFit
  <2> QED
    BY <1>5, <2>1, FittingElements DEF AllFit
<1>7. ASSUME dc.lost = {}
      PROVE  /\ rest0 = {dc.value[n] : n \in DOMAIN dc.value \ {name}}
             /\ \A x \in rest0 : x.key # name
             /\ OneOfEach(rest0 \cup {new})
  <2>1. Elements(dc) = {dc.value[n] : n \in DOMAIN dc.value}
    BY <1>7 DEF Elements
  <2>2. \A n \in DOMAIN dc.value : dc.value[n].key = n
    BY <1>6 DEF ElementsFit
  <2> HIDE DEF rest0, new
  <2>3. rest0 = {dc.value[n] : n \in DOMAIN dc.value \ {name}}
    BY <1>5, <2>1, <2>2
  <2> QED
    BY <1>3, <2>2, <2>3 DEF OneOfEach
<1> HIDE DEF rest0, new, moved, harm
<1>8. CASE e \in Reindexed(c, rest0 \cup {new}, harm)
  <2>1. AllFit(rest0 \cup {new})
    BY <1>3, <1>6 DEF AllFit
  <2>2. /\ ListsFit(e) /\ VariablesFit(e.dcs)
        /\ DOMAIN e.dcs = DOMAIN c.dcs
        /\ \A d \in DOMAIN c.dcs : d # c.current => e.dcs[d] = c.dcs[d]
        /\ harm \/ OneOfEach(rest0 \cup {new}) => rest0 \cup {new} \subseteq Elements(e.dcs[c.current])
    BY <1>8, <2>1, ReindexedData
  <2>3. ASSUME dc.lost = {}
        PROVE  /\ \A n \in DOMAIN dc.value : n # name => dc.value[n] \in Elements(e.dcs[c.current])
               /\ new \in Elements(e.dcs[c.current])
    BY <1>7, <2>2, <2>3
  <2> QED
    BY <1>4, <2>2, <2>3 DEF new
<1>9. ASSUME NEW x \in twins, e \in Reindexed(c, (rest0 \ {x}) \cup {JoinedTo(x, new)}, TRUE)
      PROVE  /\ ListsFit(e) /\ VariablesFit(e.dcs)
             /\ DOMAIN e.dcs = DOMAIN c.dcs
             /\ \A d \in DOMAIN c.dcs : d # c.current => e.dcs[d] = c.dcs[d]
             /\ dc.lost # {}
  <2>1. x \in rest0 /\ x.type = du.type /\ x.key = name
    OBVIOUS
  <2>2. AllFit((rest0 \ {x}) \cup {JoinedTo(x, new)})
    BY <1>3, <1>6, <2>1, JoinedFits DEF AllFit
  <2>3. dc.lost # {}
    BY <1>7, <2>1
  <2>4. PICK S, h : S = (rest0 \ {x}) \cup {JoinedTo(x, new)} /\ h = TRUE
    OBVIOUS
  <2>5. AllFit(S) /\ e \in Reindexed(c, S, h)
    BY <1>9, <2>2, <2>4
  <2>6. /\ ListsFit(e) /\ VariablesFit(e.dcs)
        /\ DOMAIN e.dcs = DOMAIN c.dcs
        /\ \A d \in DOMAIN c.dcs : d # c.current => e.dcs[d] = c.dcs[d]
    BY <2>5, ReindexedData
  <2> QED
    BY <2>3, <2>6
<1> QED
  BY <1>2, <1>4, <1>8, <1>9

\* A variable is taken out.
LEMMA WithoutFacts ==
  ASSUME NEW c, ConfigShape(c), ListsFit(c), VariablesFit(c.dcs), c.current \in DOMAIN c.dcs,
         NEW name, NEW e \in Without(c, name)
  PROVE  ListsFit(e) /\ VariablesFit(e.dcs)
<1>1. PICK harm : e \in Reindexed(c, Others(c, name), harm)
  BY DEF Without
<1>2. AllFit(Others(c, name))
  BY FittingElements DEF VariablesFit, Others, AllFit
<1> QED
  BY <1>1, <1>2, ReindexedData

-----------------------------------------------------------------------------
(***************************************************************************)
(* What the tokenizer takes of a line: texts and what is left.             *)
(***************************************************************************)
LEMMA CutFacts ==
  ASSUME NEW s, IsSeq(s), NEW m \in Nat \ {0}, NEW n \in 0 .. Len(s)
  PROVE  IsSeq(SubSeq(s, m, n))
<1>1. Len(s) \in Nat /\ DOMAIN s = 1 .. Len(s)
  BY SeqFacts
<1>2. \A i \in m .. n : s[i] \in ToSet(s)
  BY <1>1 DEF ToSet
<1>3. SubSeq(s, m, n) \in Seq(ToSet(s))
  BY <1>1, <1>2, SubSeqProperties
<1> QED
  BY <1>3, AnySeq

LEMMA AtEnd ==
  ASSUME IsSeq(rest)
  PROVE  /\ Len(rest) \in Nat /\ At(Len(rest)) = "NUL" /\ At(Len(rest) + 1) = "NUL"
         /\ \A i \in Int : At(i) # "NUL" => i \in 0 .. Len(rest) - 1
<1>1. Len(rest) \in Nat /\ DOMAIN rest = 1 .. Len(rest)
  BY SeqFacts
<1>2. Len(rest) + 1 \notin 1 .. Len(rest) /\ Len(rest) + 1 + 1 \notin 1 .. Len(rest)
  BY <1>1
<1>3. \A i \in Int : i + 1 \in 1 .. Len(rest) => i \in 0 .. Len(rest) - 1
  BY <1>1
<1> QED
  BY <1>1, <1>2, <1>3 DEF At

\* The first place from i on that is in Q.
LEMMA FirstOf ==
  ASSUME NEW i \in Nat, NEW N \in Nat, i <= N, NEW Q, N \in Q
  PROVE  \E j \in i .. N : j \in Q /\ \A k \in i .. j - 1 : k \notin Q
<1> DEFINE S == {j \in i .. N : j \in Q}
<1>1. S \in SUBSET Nat /\ S # {}
  OBVIOUS
<1>2. PICK j \in S : \A k \in S : j <= k
  <2> HIDE DEF S
  <2> QED
    BY <1>1, LeastExists
<1>3. \A k \in i .. j - 1 : k \notin Q
  BY <1>2
<1> QED
  BY <1>2, <1>3

LEMMA NextFacts ==
  ASSUME IsSeq(rest), NEW i \in 0 .. Len(rest), NEW S
  PROVE  /\ NextIn(i, S) \in i .. Len(rest)
         /\ "NUL" \notin S => NextNot(i, S) \in i .. Len(rest)
<1>1. Len(rest) \in Nat /\ At(Len(rest)) = "NUL" /\ i \in Nat /\ i <= Len(rest)
  BY AtEnd
<1>2. NextIn(i, S) \in i .. Len(rest)
  <2> DEFINE Q == {j \in i .. Len(rest) : At(j) \in S \cup {"NUL"}}
  <2>1. Len(rest) \in Q
    BY <1>1
  <2>2. \E j \in i .. Len(rest) : j \in Q /\ \A k \in i .. j - 1 : k \notin Q
    <3> HIDE DEF Q
    <3> QED
      BY <1>1, <2>1, FirstOf
  <2>3. PICK j \in i .. Len(rest) : j \in Q /\ \A k \in i .. j - 1 : k \notin Q
    BY <2>2
  <2>4. \A k \in i .. j - 1 : k \in i .. Len(rest)
    BY <1>1
  <2>5. \E jj \in i .. Len(rest) :
          At(jj) \in S \cup {"NUL"} /\ \A k \in i .. jj - 1 : At(k) \notin S \cup {"NUL"}
    BY <2>3, <2>4
  <2> QED
    BY <2>5 DEF NextIn
<1>3. ASSUME "NUL" \notin S PROVE NextNot(i, S) \in i .. Len(rest)
  <2> DEFINE Q == {j \in i .. Len(rest) : At(j) \notin S}
  <2>1. Len(rest) \in Q
    BY <1>1, <1>3
  <2>2. \E j \in i .. Len(rest) : j \in Q /\ \A k \in i .. j - 1 : k \notin Q
    <3> HIDE DEF Q
    <3> QED
      BY <1>1, <2>1, FirstOf
  <2>3. PICK j \in i .. Len(rest) : j \in Q /\ \A k \in i .. j - 1 : k \notin Q
    BY <2>2
  <2>4. \A k \in i .. j - 1 : k \in i .. Len(rest)
    BY <1>1
  <2>5. \E jj \in i .. Len(rest) : At(jj) \notin S /\ \A k \in i .. jj - 1 : At(k) \in S
    BY <2>3, <2>4
  <2> QED
    BY <2>5 DEF NextNot
<1> QED
  BY <1>2, <1>3

LEMMA CommentFacts ==
  ASSUME IsSeq(rest), NEW i \in 0 .. Len(rest)
  PROVE  /\ AfterComment(i) \in Nat
         /\ i < Len(rest) => AfterComment(i) \in i + 1 .. Len(rest)
<1>1. Len(rest) \in Nat
  BY AtEnd
<1>2. CASE i < Len(rest)
  <2>1. i + 1 \in 0 .. Len(rest)
    BY <1>1, <1>2
  <2>2. NextIn(i + 1, Newlines) \in i + 1 .. Len(rest)
    BY <2>1, NextFacts
  <2>3. AfterComment(i) = NextIn(i + 1, Newlines)
    BY <1>2 DEF AfterComment
  <2>4. AfterComment(i) \in i + 1 .. Len(rest)
    BY <2>2, <2>3
  <2> QED
    BY <2>4, <1>1
<1>3. CASE ~(i < Len(rest))
  <2>1. AfterComment(i) = i + 1
    BY <1>3 DEF AfterComment
  <2> QED
    BY <1>3, <2>1
<1> QED
  BY <1>2, <1>3

LEMMA LinesFacts ==
  ASSUME IsSeq(rest)
  PROVE  AfterLines \in 0 .. Len(rest)
<1> DEFINE N == Len(rest)
           Body(g, i) == CASE At(i) \in Newlines \cup Blanks -> g[i + 1]
                           [] At(i) = "#" -> g[AfterComment(i)]
                           [] OTHER -> i
           F == CHOOSE g : g = [i \in 0 .. N |-> Body(g, i)]
           Stop == {i \in 0 .. N : At(i) \notin Newlines \cup Blanks \cup {"#"}}
           to == [i \in 0 .. N |-> IF At(i) \in Newlines \cup Blanks THEN i + 1 ELSE AfterComment(i)]
<1>1. N \in Nat /\ At(N) = "NUL" /\ \A i \in Int : At(i) # "NUL" => i \in 0 .. N - 1
  BY AtEnd
<1>2. AfterLines = F[0]
  BY DEF AfterLines
<1>3. "#" \notin Newlines \cup Blanks /\ "NUL" \notin Newlines \cup Blanks \cup {"#"}
  BY DEF Newlines, Blanks
<1>4. \A i \in (0 .. N) \ Stop : to[i] \in i + 1 .. N
  <2> TAKE i \in (0 .. N) \ Stop
  <2>1. i < N
    BY <1>1, <1>3
  <2>2. to[i] = i + 1 \/ to[i] = AfterComment(i)
    OBVIOUS
  <2>3. AfterComment(i) \in i + 1 .. N
    BY <2>1, CommentFacts
  <2> HIDE DEF to, Stop
  <2> QED
    BY <1>1, <2>1, <2>2, <2>3
<1>5. \A g : (g = [i \in 0 .. N |-> Body(g, i)]) <=> IsJump(g, 0, N, Stop, to)
  <2> TAKE g
  <2>1. ASSUME NEW i \in 0 .. N PROVE Body(g, i) = IF i \in Stop THEN i ELSE g[to[i]]
    <3>1. CASE At(i) \in Newlines \cup Blanks
      BY <3>1, <1>3
    <3>2. CASE At(i) = "#"
      BY <3>2, <1>3
    <3>3. CASE At(i) \notin Newlines \cup Blanks \cup {"#"}
      BY <3>3
    <3> QED
      BY <3>1, <3>2, <3>3
  <2> HIDE DEF Body, Stop, to
  <2>2. [i \in 0 .. N |-> Body(g, i)] = [i \in 0 .. N |-> IF i \in Stop THEN i ELSE g[to[i]]]
    BY <2>1
  <2> QED
    BY <2>2 DEF IsJump
<1> HIDE DEF Stop, to, Body
<1>6. /\ \E g : IsJump(g, 0, N, Stop, to)
      /\ \A g : IsJump(g, 0, N, Stop, to) => \A i \in 0 .. N : g[i] \in i .. N
  <2> HIDE DEF N
  <2>1. 0 \in Nat /\ 0 <= N
    BY <1>1
  <2> QED
    BY <1>1, <1>4, <2>1, JumpExists
<1>7. F = [i \in 0 .. N |-> Body(F, i)]
  BY <1>5, <1>6
<1>8. IsJump(F, 0, N, Stop, to)
  <2> HIDE DEF F
  <2> QED
    BY <1>5, <1>7
<1>9. F[0] \in 0 .. N
  <2> HIDE DEF F
  <2> QED
    BY <1>1, <1>6, <1>8
<1> QED
  BY <1>2, <1>9

LEMMA ClosingFacts ==
  ASSUME IsSeq(rest)
  PROVE  Closing \in 1 .. Len(rest) + 1
<1> DEFINE N == Len(rest) + 1
           Body(g, i) == CASE At(i) = "\\" /\ At(i + 1) = "\"" -> g[i + 2]
                           [] At(i) \in {"\"", "NUL"} -> i
                           [] OTHER -> g[i + 1]
           F == CHOOSE g : g = [i \in 1 .. N |-> Body(g, i)]
           Ends == {"\"", "NUL"}
           Stop == {i \in 1 .. N : At(i) \in Ends}
           to == [i \in 1 .. N |-> IF At(i) = "\\" /\ At(i + 1) = "\"" THEN i + 2 ELSE i + 1]
<1>1. N \in Nat /\ 1 <= N /\ At(N) = "NUL" /\ \A i \in Int : At(i) # "NUL" => i \in 0 .. N - 2
  <2>1. Len(rest) - 1 = N - 2 /\ N \in Nat /\ 1 <= N
    BY AtEnd
  <2> QED
    BY <2>1, AtEnd
<1>2. Closing = F[1]
  BY DEF Closing
<1>4. \A i \in (1 .. N) \ Stop : to[i] \in i + 1 .. N
  <2> TAKE i \in (1 .. N) \ Stop
  <2>1. i <= N - 2
    <3>0. "NUL" \in Ends
      BY Zenon
    <3> HIDE DEF Ends, N, to
    <3>1. i \in Int /\ At(i) # "NUL"
      BY <3>0
    <3>2. i \in 0 .. N - 2
      BY <1>1, <3>1
    <3> QED
      BY <3>2, <1>1
  <2>2. to[i] = i + 1 \/ to[i] = i + 2
    BY Zenon
  <2> HIDE DEF to, Stop
  <2> QED
    BY <1>1, <2>1, <2>2
<1>5. \A g : (g = [i \in 1 .. N |-> Body(g, i)]) <=> IsJump(g, 1, N, Stop, to)
  <2> TAKE g
  <2>1. ASSUME NEW i \in 1 .. N PROVE Body(g, i) = IF i \in Stop THEN i ELSE g[to[i]]
    <3>1. CASE At(i) = "\\" /\ At(i + 1) = "\""
      BY <3>1, Zenon
    <3>2. CASE At(i) \in {"\"", "NUL"}
      BY <3>2, Zenon
    <3>3. CASE At(i) \notin {"\"", "NUL"} /\ ~(At(i) = "\\" /\ At(i + 1) = "\"")
      BY <3>3, Zenon
    <3> QED
      BY <3>1, <3>2, <3>3, Zenon
  <2> HIDE DEF Body, Stop, to
  <2>2. [i \in 1 .. N |-> Body(g, i)] = [i \in 1 .. N |-> IF i \in Stop THEN i ELSE g[to[i]]]
    BY <2>1
  <2> QED
    BY <2>2 DEF IsJump
<1> HIDE DEF Stop, to, Body
<1>6. /\ \E g : IsJump(g, 1, N, Stop, to)
      /\ \A g : IsJump(g, 1, N, Stop, to) => \A i \in 1 .. N : g[i] \in i .. N
  <2> HIDE DEF N
  <2> QED
    BY <1>1, <1>4, JumpExists
<1>7. F = [i \in 1 .. N |-> Body(F, i)]
  BY <1>5, <1>6
<1>8. IsJump(F, 1, N, Stop, to)
  <2> HIDE DEF F
  <2> QED
    BY <1>5, <1>7
<1>9. F[1] \in 1 .. N
  <2> HIDE DEF F, N
  <2> QED
    BY <1>1, <1>6, <1>8
<1> QED
  BY <1>2, <1>9

LEMMA UnescapedFacts ==
  ASSUME NEW inner, IsSeq(inner)
  PROVE  IsSeq(Unescaped(inner))
<1> DEFINE N == Len(inner)
           T == {inner[i].t : i \in 1 .. N}
           f == [x \in (1 .. N) \X Seq(T) |->
                  IF Escapes(inner, x[1]) THEN x[2] ELSE Append(x[2], inner[x[1]].t)]
           Body(g, i) == IF i = 0 THEN <<>>
                         ELSE IF Escapes(inner, i) THEN g[i - 1]
                         ELSE Append(g[i - 1], inner[i].t)
           F == CHOOSE g : g = [i \in 0 .. N |-> Body(g, i)]
<1>1. N \in Nat
  BY SeqFacts
<1>2. Unescaped(inner) = F[N]
  BY DEF Unescaped
<1> HIDE DEF N
<1>3. f \in [(1 .. N) \X Seq(T) -> Seq(T)] /\ <<>> \in Seq(T)
  <2>1. ASSUME NEW x \in (1 .. N) \X Seq(T)
        PROVE  (IF Escapes(inner, x[1]) THEN x[2] ELSE Append(x[2], inner[x[1]].t)) \in Seq(T)
    <3>1. inner[x[1]].t \in T /\ x[2] \in Seq(T)
      OBVIOUS
    <3> HIDE DEF T
    <3> QED
      BY <3>1, AppendProperties
  <2> HIDE DEF T
  <2> QED
    BY <2>1
<1>4. PICK g \in [0 .. N -> Seq(T)] : IsRecursion(g, N, <<>>, f)
  <2> HIDE DEF f, T
  <2> QED
    BY <1>1, <1>3, RecursionExists
<1>5. \A i \in 0 .. N : (IF i = 0 THEN <<>> ELSE f[<<i, g[i - 1]>>]) = Body(g, i)
  <2> TAKE i \in 0 .. N
  <2>1. CASE i = 0
    BY <2>1
  <2>2. CASE i # 0
    <3>1. i \in 1 .. N /\ i - 1 \in 0 .. N
      BY <2>2, <1>1
    <3>2. <<i, g[i - 1]>> \in (1 .. N) \X Seq(T)
      <4> HIDE DEF T
      <4> QED
        BY <3>1
    <3> QED
      BY <2>2, <3>2
  <2> QED
    BY <2>1, <2>2
<1>6. g = [i \in 0 .. N |-> Body(g, i)]
  <2> HIDE DEF Body, f
  <2> QED
    BY <1>4, <1>5, Zenon DEF IsRecursion
<1>7. F = [i \in 0 .. N |-> Body(F, i)]
  BY <1>6, Zenon
<1> HIDE DEF F
<1> DEFINE E == {n \in 0 .. N : F[n] \in Seq(T)}
<1>8. 0 \in E
  BY <1>1, <1>7
<1>9. ASSUME NEW n \in 0 .. N - 1, n \in E PROVE n + 1 \in E
  <2>1. n + 1 \in 1 .. N /\ n + 1 - 1 = n /\ n + 1 \in 0 .. N /\ n + 1 # 0
    BY <1>1
  <2>2. inner[n + 1].t \in T
    BY <2>1
  <2>3. F[n] \in Seq(T)
    BY <1>9
  <2>4. F[n + 1] = F[n] \/ F[n + 1] = Append(F[n], inner[n + 1].t)
    <3>1. Body(F, n + 1) = F[n] \/ Body(F, n + 1) = Append(F[n], inner[n + 1].t)
      BY <2>1
    <3> HIDE DEF Body
    <3> QED
      BY <1>7, <2>1, <3>1
  <2> HIDE DEF T
  <2>5. F[n + 1] \in Seq(T)
    <3>1. PICK s, t : s = F[n] /\ t = inner[n + 1].t
      OBVIOUS
    <3>2. Append(s, t) \in Seq(T)
      BY <2>2, <2>3, <3>1, AppendProperties
    <3> QED
      BY ONLY <2>3, <2>4, <3>1, <3>2
  <2> QED
    BY <2>1, <2>5
<1>10. \A n \in 0 .. N : n \in E
  <2> HIDE DEF E
  <2> QED
    BY <1>1, <1>8, <1>9, InductionUpTo
<1>11. F[N] \in Seq(T)
  BY <1>10, <1>1
<1> HIDE DEF T
<1> QED
  BY <1>2, <1>11, AnySeq

\* The text that is read, and the token.
TextFits == IsSeq(rest) /\ IsSeq(token)

LEMMA MovedFits ==
  ASSUME TextFits, NEW n \in Nat, Moved(n)
  PROVE  IsSeq(rest')
<1>1. n + 1 \in Nat \ {0} /\ Len(rest) \in 0 .. Len(rest)
  BY SeqFacts DEF TextFits
<1> QED
  BY <1>1, CutFacts DEF TextFits, Moved

LEMMA FoundFits ==
  ASSUME TextFits, NEW n \in Nat, NEW id, Found(id, n)
  PROVE  TextFits'
<1>1. IsSeq(Text(0, n))
  <2> DEFINE T == {rest[0 + k].t : k \in 1 .. n - 0}
  <2>1. Text(0, n) = [k \in 1 .. n |-> rest[0 + k].t]
    BY DEF Text
  <2>2. Text(0, n) \in [1 .. n -> T]
    BY <2>1
  <2> HIDE DEF T
  <2>3. Text(0, n) \in Seq(T)
    BY <2>2
  <2> QED
    BY <2>3, AnySeq
<1> QED
  BY <1>1, MovedFits DEF Found, TextFits

LEMMA TokenizerFits ==
  ASSUME TextFits, TokenizerStep
  PROVE  TextFits'
<1>0. 0 \in Nat /\ 1 \in Nat /\ 2 \in Nat /\ 0 \in 0 .. Len(rest) /\ Len(rest) \in Nat
  BY SeqFacts DEF TextFits
<1>a. AfterComment(0) \in Nat /\ AfterLines \in Nat
  <2>1. AfterLines \in 0 .. Len(rest)
    BY LinesFacts DEF TextFits
  <2> QED
    BY <1>0, <2>1, CommentFacts DEF TextFits
<1>b. NextNot(0, Word) \in Nat /\ NextNot(0, {"alpha"}) \in Nat
  <2>1. NextNot(0, Word) \in 0 .. Len(rest) /\ NextNot(0, {"alpha"}) \in 0 .. Len(rest)
    BY <1>0, NextFacts DEF TextFits, Word
  <2> QED
    BY <2>1
<1>c. ASSUME NEW n \in Nat, Skipped(n) PROVE TextFits'
  BY <1>c, MovedFits DEF Skipped, TextFits
<1>1. CASE Error
  BY <1>1 DEF Error, TextFits
<1>2. CASE Equals
  BY <1>0, <1>1, <1>2, FoundFits DEF Equals
<1>3. CASE Exclamation
  BY <1>0, <1>1, <1>3, FoundFits DEF Exclamation
<1>4. CASE Blank \/ Comment
  BY <1>0, <1>a, <1>c, <1>4 DEF Blank, Comment
<1>5. CASE Newline
  <2>1. IsSeq(<<"EOL">>)
    BY ShortSeqs
  <2>2. \/ Moved(AfterLines) /\ token' = <<"EOL">>
        \/ Skipped(AfterComment(0))
    BY <1>5 DEF Newline
  <2> QED
    BY <2>1, <2>2, <1>a, <1>c, MovedFits DEF TextFits
<1>6. CASE Comma
  BY <1>0, <1>c, <1>6, FoundFits, Zenon DEF Comma
<1>7. CASE Quote
  <2>1. Error \/ (Moved(Closing + 1) /\ token' = Unescaped(SubSeq(rest, 2, Closing)) /\ At(Closing) # "NUL")
    BY <1>7, Zenon DEF Quote
  <2>2. Closing \in 1 .. Len(rest) + 1
    BY ClosingFacts DEF TextFits
  <2>3. Closing + 1 \in Nat
    BY <2>2
  <2>4. ASSUME At(Closing) # "NUL" PROVE IsSeq(Unescaped(SubSeq(rest, 2, Closing)))
    <3>1. Closing \in 0 .. Len(rest) - 1
      BY <2>2, <2>4, AtEnd DEF TextFits
    <3>2. Closing \in 0 .. Len(rest)
      BY <3>1, <1>0
    <3>3. 2 \in Nat \ {0}
      OBVIOUS
    <3>4. IsSeq(SubSeq(rest, 2, Closing))
      BY <3>2, <3>3, CutFacts DEF TextFits
    <3> QED
      BY <3>4, UnescapedFacts
  <2> QED
    BY <1>1, <2>1, <2>3, <2>4, MovedFits DEF TextFits
<1>8. CASE Parenthesis
  BY <1>0, <1>8, FoundFits DEF Parenthesis
<1>9. CASE Dollar
  BY <1>0, <1>9, FoundFits DEF Dollar
<1>10. CASE PlusSign
  BY <1>0, <1>10, FoundFits DEF PlusSign
<1>11. CASE Bracket
  BY <1>0, <1>11, FoundFits, Zenon DEF Bracket
<1>12. CASE ConditionName
  BY <1>b, <1>1, <1>12, FoundFits DEF ConditionName
<1>13. CASE Digits
  <2>1. Found("INTEGER", 1) \/ UNCHANGED <<rest, token>>
    BY <1>13 DEF Digits, tokenizerVars
  <2> QED
    BY <1>0, <2>1, FoundFits DEF TextFits
<1>14. CASE Name
  <2> DEFINE n == NextNot(0, Word)
             w == Text(0, n)
  <2>1. Error \/ Found(IF w \in DOMAIN Keyword THEN Keyword[w] ELSE "LKEY", n)
    BY <1>14 DEF Name
  <2> QED
    BY <1>b, <1>1, <2>1, FoundFits
<1> QED
  BY <1>2, <1>3, <1>4, <1>5, <1>6, <1>7, <1>8, <1>9, <1>10, <1>11, <1>12, <1>13, <1>14
     DEF TokenizerStep

LEMMA LineFits ==
  ASSUME TextFits, ReadLine
  PROVE  TextFits'
<1>1. CASE UNCHANGED <<rest, token>>
  BY <1>1 DEF TextFits
<1>2. ASSUME NEW l \in Lines, Line(l.text) PROVE TextFits'
  <2>1. IsSeq(l.text)
    BY AnySeq, LinesAssumption
  <2>2. rest' = rest \o l.text /\ token' = token
    BY <1>2 DEF Line
  <2> QED
    BY <2>1, <2>2, ConcatFacts DEF TextFits
<1> QED
  BY <1>1, <1>2 DEF ReadLine, Close

-----------------------------------------------------------------------------
(***************************************************************************)
(* What the stack and the contexts hold, and what a reduction makes of it. *)
(***************************************************************************)
\* What a symbol has on the stack: the text of a token, a value, a list.
BufferMajors == (Tokens \ {"$"}) \cup {"key", "stringop"}
ValueMajors  == {"value", "expression", "aelement"}
ListMajors   == {"array", "aelements"}
MinorFits(major, du) ==
  /\ DataFits(du)
  /\ major \in BufferMajors => du.type = "buffer"
  /\ major \in ValueMajors => du.type \in ValueTypes
  /\ major \in ListMajors => du.type = "array"

DataInv ==
  /\ TextFits
  /\ ListsFit(ctx) /\ VariablesFit(ctx.dcs)
  /\ DataFits(yyminor) /\ (yymajor # "none" => yyminor.type = "buffer")
  /\ ctx.ok => \A i \in DOMAIN yystack : MinorFits(yystack[i].major, yystack[i].minor)

\* The variables of these contexts are in those, with what they held.
ValuesExtend(dcs, dcs2) ==
  \A d \in DOMAIN dcs :
    /\ d \in DOMAIN dcs2
    /\ dcs[d].lost = {} =>
         \A name \in DOMAIN dcs[d].value :
           \E new \in Elements(dcs2[d]) : new.key = name /\ Extends(new, dcs[d].value[name])

LEMMA ExtendsItself ==
  ASSUME NEW du, ValueFits(du)
  PROVE  Extends(du, du)
<1>1. CASE du.type = "integer"
  BY <1>1 DEF Extends
<1>2. CASE du.type # "integer"
  <2>1. IsSeq(du.value)
    BY <1>2 DEF ValueFits, ValueTypes, DataFits, ListFits
  <2> QED
    BY <1>2, <2>1, SeqFacts DEF Extends, IsPrefix
<1> QED
  BY <1>1, <1>2

LEMMA ExtendsWith ==
  ASSUME NEW new, NEW old, NEW w, IsSeq(old.value), IsSeq(w), new.value = old.value \o w
  PROVE  Extends(new, old)
<1> DEFINE s == old.value
           t == new.value
           n == Len(s)
<1>1. /\ IsSeq(t) /\ Len(t) = Len(s) + Len(w) /\ DOMAIN t = 1 .. Len(s) + Len(w)
      /\ \A i \in 1 .. Len(s) : t[i] = s[i]
  BY ConcatFacts
<1>2. n \in Nat /\ Len(w) \in Nat /\ n <= Len(t) /\ n \in 0 .. n /\ n \in 0 .. Len(t)
  BY <1>1, SeqFacts
<1> HIDE DEF s, t, n
<1>3. /\ IsSeq(SubSeq(s, 1, n)) /\ DOMAIN SubSeq(s, 1, n) = 1 .. n
      /\ \A i \in 1 .. n : SubSeq(s, 1, n)[i] = s[i]
  BY <1>2, PrefixFacts DEF s, n
<1>4. /\ IsSeq(SubSeq(t, 1, n)) /\ DOMAIN SubSeq(t, 1, n) = 1 .. n
      /\ \A i \in 1 .. n : SubSeq(t, 1, n)[i] = t[i]
  BY <1>1, <1>2, PrefixFacts DEF t
<1>5. SubSeq(s, 1, n) = SubSeq(t, 1, n)
  <2> DEFINE u == SubSeq(s, 1, n)
             v == SubSeq(t, 1, n)
  <2>1. \A i \in 1 .. n : u[i] = v[i]
    BY <1>1, <1>3, <1>4 DEF s, t, n
  <2>2. Len(u) = n /\ Len(v) = n
    BY <1>1, <1>2, PrefixFacts DEF s, t, n
  <2>3. IsSeq(u) /\ IsSeq(v)
    BY <1>3, <1>4
  <2> HIDE DEF u, v
  <2> QED
    BY <2>1, <2>2, <2>3, SameSeq DEF u, v
<1> QED
  BY <1>2, <1>5 DEF Extends, IsPrefix, s, t, n

LEMMA ValuesExtendIn ==
  ASSUME NEW dcs, NEW dcs2, VariablesFit(dcs), ValuesIn(dcs, dcs2)
  PROVE  ValuesExtend(dcs, dcs2)
<1>1. ASSUME NEW d \in DOMAIN dcs, NEW name \in DOMAIN dcs[d].value
      PROVE  \E new \in Elements(dcs2[d]) : new.key = name /\ Extends(new, dcs[d].value[name])
  <2>1. PICK old : old = dcs[d].value[name]
    OBVIOUS
  <2>2. ValueFits(old) /\ old.key = name
    BY <2>1 DEF VariablesFit, ElementsFit
  <2>3. old \in Elements(dcs2[d])
    BY <2>1 DEF ValuesIn, Elements
  <2>4. Extends(old, old)
    BY <2>2, ExtendsItself
  <2> QED
    BY <2>1, <2>2, <2>3, <2>4
<1> QED
  BY <1>1 DEF ValuesIn, ValuesExtend

\* What a step of the parser makes of the configuration.
CtxFits ==
  /\ ListsFit(ctx') /\ VariablesFit(ctx'.dcs)
  /\ ctx'.ok => ValuesExtend(ctx.dcs, ctx'.dcs)

LEMMA CtxSame ==
  ASSUME StackInv, DataInv, ctx' = ctx \/ ctx' = Failed(ctx)
  PROVE  CtxFits
<1>1. ListsFit(ctx) /\ VariablesFit(ctx.dcs) /\ ConfigShape(ctx)
  BY DEF DataInv, StackInv
<1>2. ctx'.dcs = ctx.dcs /\ ctx'.all_configs = ctx.all_configs
  BY <1>1, FailedFacts DEF Holds
<1>3. ValuesExtend(ctx.dcs, ctx'.dcs)
  BY <1>1, <1>2, ValuesExtendIn DEF ValuesIn
<1> QED
  BY <1>1, <1>2, <1>3 DEF CtxFits, ListsFit

LEMMA CtxSameValues ==
  ASSUME DataInv, ListsFit(ctx'), DOMAIN ctx'.dcs = DOMAIN ctx.dcs, ValuesIn(ctx.dcs, ctx'.dcs)
  PROVE  CtxFits
BY ValuesSame, ValuesExtendIn DEF DataInv, CtxFits

\* A reduction keeps the invariant when what it pushes is what its left side stands for.
LEMMA DataReduced ==
  ASSUME StackInv, DataInv, NEW r \in 0 .. YYNRULE - 1, Reducing(r), NEW minor, Becomes(r, minor),
         ctx'.ok => ctx.ok /\ MinorFits(Rule(r)[1], minor), CtxFits, TextFits'
  PROVE  DataInv'
<1>1. /\ Route(Rest(r)) /\ Rest(r) # <<>> 
      /\ \/ yystack' = <<>>
         \/ \E t \in States :
              yystack' = Append(Rest(r), [stateno |-> t, major |-> Rule(r)[1], minor |-> minor])
  BY Reduced
<1>2. DataFits(yyminor') /\ (yymajor' # "none" => yyminor'.type = "buffer")
  <2>1. \/ yymajor' = "none" /\ yyminor' = Nothing
        \/ yymajor' = yymajor /\ yyminor' = yyminor
    BY DEF Becomes
  <2>2. DataFits(Nothing)
    BY MadeFits, ShortSeqs DEF Nothing
  <2> QED
    BY <2>1, <2>2 DEF DataInv
<1>3. ASSUME ctx'.ok
      PROVE  \A i \in DOMAIN yystack' : MinorFits(yystack'[i].major, yystack'[i].minor)
  <2>1. CASE yystack' = <<>>
    <3>1. DOMAIN yystack' = {}
      BY <2>1
    <3> QED
      BY <3>1
  <2>2. ASSUME NEW e, e.major = Rule(r)[1], e.minor = minor, yystack' = Append(Rest(r), e),
               NEW i \in DOMAIN yystack'
        PROVE  MinorFits(yystack'[i].major, yystack'[i].minor)
    <3> DEFINE m == Len(yystack) - Length(r)
               s == Rest(r)
    <3>1. Length(r) \in Nat /\ Len(yystack) \in Nat /\ Len(yystack) > Length(r)
          /\ RuleInfo(r)[2] = Length(r)
      BY ReducingFacts DEF MaxRule
    <3>2. m \in 0 .. Len(yystack)
      BY <3>1
    <3>3. s = SubSeq(yystack, 1, m)
      BY <3>1 DEF Rest
    <3> HIDE DEF m, s
    <3>4. /\ IsSeq(s) /\ Len(s) = m /\ DOMAIN s = 1 .. m
          /\ \A j \in 1 .. m : s[j] = yystack[j]
      BY <3>2, <3>3, PrefixFacts DEF StackInv, Route
    <3>5. DOMAIN yystack = 1 .. Len(yystack)
      BY SeqFacts DEF StackInv, Route
    <3>6. \A j \in 1 .. m : MinorFits(s[j].major, s[j].minor)
      <4>1. \A j \in 1 .. m : j \in 1 .. Len(yystack)
        BY <3>1, <3>2
      <4> QED
        BY <1>3, <3>4, <3>5, <4>1 DEF DataInv
    <3>7. /\ DOMAIN yystack' = 1 .. m + 1 /\ yystack'[m + 1] = e
          /\ \A j \in 1 .. m : yystack'[j] = s[j]
      BY <2>2, <3>4, AppendFacts DEF s
    <3>8. i \in 1 .. m \/ i = m + 1
      BY <3>1, <3>2, <3>7
    <3> QED
      BY <1>3, <2>2, <3>6, <3>7, <3>8
  <2> QED
    BY <1>1, <2>1, <2>2
<1> QED
  BY <1>2, <1>3 DEF DataInv, CtxFits

\* The rules whose left side holds something, and those of a variable.
LEMMA ValueRules ==
  /\ Rule(9) = <<"varline", "key", "ASSIGN", "expression">> /\ Length(9) = 3
  /\ Rule(10) = <<"varline", "key", "APPEND", "expression">> /\ Length(10) = 3
  /\ Rule(11) = <<"key", "LKEY">> /\ Length(11) = 1
  /\ Rule(12) = <<"expression", "expression", "PLUS", "value">> /\ Length(12) = 3
  /\ Rule(13) = <<"expression", "value">> /\ Length(13) = 1
  /\ Rule(14) = <<"value", "key">> /\ Length(14) = 1
  /\ Rule(15) = <<"value", "STRING">> /\ Length(15) = 1
  /\ Rule(16) = <<"value", "INTEGER">> /\ Length(16) = 1
  /\ Rule(17) = <<"value", "array">> /\ Length(17) = 1
  /\ Rule(18) = <<"array", "LPARAN", "RPARAN">> /\ Length(18) = 2
  /\ Rule(19) = <<"array", "LPARAN", "aelements", "RPARAN">> /\ Length(19) = 3
  /\ Rule(20) = <<"aelements", "aelements", "COMMA", "aelement">> /\ Length(20) = 3
  /\ Rule(21) = <<"aelements", "aelements", "COMMA">> /\ Length(21) = 2
  /\ Rule(22) = <<"aelements", "aelement">> /\ Length(22) = 1
  /\ Rule(23) = <<"aelement", "expression">> /\ Length(23) = 1
  /\ Rule(24) = <<"aelement", "stringop", "ARRAY_ASSIGN", "expression">> /\ Length(24) = 3
  /\ Rule(40) = <<"stringop", "expression">> /\ Length(40) = 1
<1>1. /\ Rule(9) = <<"varline", "key", "ASSIGN", "expression">>
      /\ Rule(10) = <<"varline", "key", "APPEND", "expression">>
      /\ Rule(11) = <<"key", "LKEY">>
      /\ Rule(12) = <<"expression", "expression", "PLUS", "value">>
  BY DEF Rule, yyRuleName
<1>2. /\ Rule(13) = <<"expression", "value">>
      /\ Rule(14) = <<"value", "key">>
      /\ Rule(15) = <<"value", "STRING">>
      /\ Rule(16) = <<"value", "INTEGER">>
  BY DEF Rule, yyRuleName
<1>3. /\ Rule(17) = <<"value", "array">>
      /\ Rule(18) = <<"array", "LPARAN", "RPARAN">>
      /\ Rule(19) = <<"array", "LPARAN", "aelements", "RPARAN">>
      /\ Rule(20) = <<"aelements", "aelements", "COMMA", "aelement">>
  BY DEF Rule, yyRuleName
<1>4. /\ Rule(21) = <<"aelements", "aelements", "COMMA">>
      /\ Rule(22) = <<"aelements", "aelement">>
      /\ Rule(23) = <<"aelement", "expression">>
      /\ Rule(24) = <<"aelement", "stringop", "ARRAY_ASSIGN", "expression">>
  BY DEF Rule, yyRuleName
<1>5. /\ Rule(40) = <<"stringop", "expression">>
  BY DEF Rule, yyRuleName
<1> QED
  BY <1>1, <1>2, <1>3, <1>4, <1>5 DEF Length

\* The rules whose left side holds nothing of that kind.
OtherRules == {0, 1, 2, 3, 4, 5, 6, 7, 8, 9, 10, 25, 26, 27, 28, 29, 30, 31, 32, 33, 34, 35, 36, 37, 38, 39, 41, 42}
LEMMA OtherLeftSides ==
  \A r \in OtherRules : Rule(r)[1] \notin {"key", "stringop"} \cup ValueMajors \cup ListMajors
<1>1. /\ Rule(0)[1] = "input"
      /\ Rule(1)[1] = "metalines"
      /\ Rule(2)[1] = "metalines"
      /\ Rule(3)[1] = "metaline"
      /\ Rule(4)[1] = "metaline"
      /\ Rule(5)[1] = "metaline"
      /\ Rule(6)[1] = "metaline"
  BY DEF Rule, yyRuleName
<1>2. /\ Rule(7)[1] = "metaline"
      /\ Rule(8)[1] = "metaline"
      /\ Rule(9)[1] = "varline"
      /\ Rule(10)[1] = "varline"
      /\ Rule(25)[1] = "eols"
      /\ Rule(26)[1] = "eols"
      /\ Rule(27)[1] = "globalstart"
  BY DEF Rule, yyRuleName
<1>3. /\ Rule(28)[1] = "global"
      /\ Rule(29)[1] = "condlines"
      /\ Rule(30)[1] = "condlines"
      /\ Rule(31)[1] = "condlines"
      /\ Rule(32)[1] = "condline"
      /\ Rule(33)[1] = "cond_else"
      /\ Rule(34)[1] = "context"
  BY DEF Rule, yyRuleName
<1>4. /\ Rule(35)[1] = "context_else"
      /\ Rule(36)[1] = "cond"
      /\ Rule(37)[1] = "cond"
      /\ Rule(38)[1] = "cond"
      /\ Rule(39)[1] = "cond"
      /\ Rule(41)[1] = "include"
      /\ Rule(42)[1] = "include_shell"
  BY DEF Rule, yyRuleName
<1> QED
  BY <1>1, <1>2, <1>3, <1>4 DEF OtherRules, ValueMajors, ListMajors

LEMMA MspFits ==
  ASSUME StackInv, DataInv, ctx.ok, NEW r \in 0 .. YYNRULE - 1, Reducing(r),
         NEW k \in Int, -Length(r) < k, k <= 0
  PROVE  MinorFits(Rule(r)[Length(r) + 1 + k], Msp(k))
BY MspFacts DEF DataInv, Msp

LEMMA LeftSideFits ==
  ASSUME NEW r \in 0 .. YYNRULE - 1, NEW du, DataFits(du),
         Rule(r)[1] \in {"key", "stringop"} => du.type = "buffer",
         Rule(r)[1] \in ValueMajors => du.type \in ValueTypes,
         Rule(r)[1] \in ListMajors => du.type = "array"
  PROVE  MinorFits(Rule(r)[1], du)
BY TablesFitGrammar DEF MinorFits, BufferMajors

\* A reduction that pushes nothing of value.
LEMMA OtherReduced ==
  ASSUME StackInv, DataInv, NEW r \in OtherRules, Reducing(r), NEW minor, Becomes(r, minor),
         ctx'.ok => ctx.ok /\ DataFits(minor), CtxFits, TextFits'
  PROVE  DataInv'
<1>1. r \in 0 .. YYNRULE - 1
  BY DEF OtherRules, YYNRULE
<1>2. Rule(r)[1] \notin {"key", "stringop"} \cup ValueMajors \cup ListMajors
  BY OtherLeftSides
<1>3. ctx'.ok => MinorFits(Rule(r)[1], minor)
  BY <1>1, <1>2, LeftSideFits
<1> QED
  BY <1>1, <1>3, DataReduced

LEMMA MajorKinds ==
  /\ {"LKEY", "STRING", "INTEGER", "key", "stringop"} \subseteq BufferMajors
  /\ {"value", "expression", "aelement"} \subseteq ValueMajors
  /\ {"array", "aelements"} \subseteq ListMajors
BY TokenNames DEF BufferMajors, ValueMajors, ListMajors

\* What is kept of the right side of a rule.
LEMMA RightSides ==
  ASSUME StackInv, DataInv, ctx.ok
  PROVE  /\ \A r \in {9, 10, 24} : Reducing(r) => Msp(-2).type = "buffer" /\ DataFits(Msp(-2))
         /\ \A r \in {9, 10, 12, 13, 20, 22, 23, 24, 40} : Reducing(r) => ValueFits(Msp(0))
         /\ \A r \in {11, 14, 15, 16} : Reducing(r) => Msp(0).type = "buffer" /\ DataFits(Msp(0))
         /\ Reducing(12) => ValueFits(Msp(-2))
         /\ Reducing(17) => Msp(0).type = "array" /\ DataFits(Msp(0))
         /\ \A r \in {19, 21} : Reducing(r) => Msp(-1).type = "array" /\ DataFits(Msp(-1))
         /\ Reducing(20) => Msp(-2).type = "array" /\ DataFits(Msp(-2))
<1>r. 9 .. 40 \subseteq 0 .. YYNRULE - 1
  BY DEF YYNRULE
<1>1. ASSUME NEW r \in {9, 10, 24}, Reducing(r)
      PROVE  Msp(-2).type = "buffer" /\ DataFits(Msp(-2))
  <2>1. Length(r) = 3 /\ Rule(r)[2] \in {"key", "stringop"} /\ r \in 9 .. 40
    BY ValueRules
  <2>2. MinorFits(Rule(r)[3 + 1 + (-2)], Msp(-2))
    BY <1>1, <1>r, <2>1, MspFits
  <2> QED
    BY <2>1, <2>2, MajorKinds DEF MinorFits
<1>2. ASSUME NEW r \in {9, 10, 12, 13, 20, 22, 23, 24, 40}, Reducing(r)
      PROVE  ValueFits(Msp(0))
  <2>1. Length(r) \in {1, 3} /\ Rule(r)[Length(r) + 1] \in ValueMajors /\ r \in 9 .. 40
    <3>1. CASE r \in {9, 10, 12, 20, 24}
      BY <3>1, ValueRules DEF ValueMajors
    <3>2. CASE r \in {13, 22, 23, 40}
      BY <3>2, ValueRules DEF ValueMajors
    <3> QED
      BY <3>1, <3>2
  <2>2. MinorFits(Rule(r)[Length(r) + 1 + 0], Msp(0))
    BY <1>2, <1>r, <2>1, MspFits
  <2>3. Length(r) + 1 + 0 = Length(r) + 1
    BY <2>1
  <2> QED
    BY <2>1, <2>2, <2>3 DEF MinorFits, ValueFits
<1>3. ASSUME NEW r \in {11, 14, 15, 16}, Reducing(r)
      PROVE  Msp(0).type = "buffer" /\ DataFits(Msp(0))
  <2>1. Length(r) = 1 /\ Rule(r)[2] \in {"LKEY", "STRING", "INTEGER", "key"} /\ r \in 9 .. 40
    BY ValueRules
  <2>2. MinorFits(Rule(r)[1 + 1 + 0], Msp(0))
    BY <1>3, <1>r, <2>1, MspFits
  <2> QED
    BY <2>1, <2>2, MajorKinds DEF MinorFits
<1>4. ASSUME Reducing(12) PROVE ValueFits(Msp(-2))
  <2>1. Length(12) = 3 /\ Rule(12)[2] = "expression" /\ 12 \in 9 .. 40
    BY ValueRules
  <2>2. MinorFits(Rule(12)[3 + 1 + (-2)], Msp(-2))
    BY <1>4, <1>r, <2>1, MspFits
  <2> QED
    BY <2>1, <2>2, MajorKinds DEF MinorFits, ValueFits
<1>5. ASSUME Reducing(17) PROVE Msp(0).type = "array" /\ DataFits(Msp(0))
  <2>1. Length(17) = 1 /\ Rule(17)[2] = "array" /\ 17 \in 9 .. 40
    BY ValueRules
  <2>2. MinorFits(Rule(17)[1 + 1 + 0], Msp(0))
    BY <1>5, <1>r, <2>1, MspFits
  <2> QED
    BY <2>1, <2>2, MajorKinds DEF MinorFits
<1>6. ASSUME NEW r \in {19, 21}, Reducing(r) PROVE Msp(-1).type = "array" /\ DataFits(Msp(-1))
  <2>1. Length(r) \in {2, 3} /\ Rule(r)[Length(r)] = "aelements" /\ r \in 9 .. 40
    <3>1. CASE r = 19
      BY <3>1, ValueRules
    <3>2. CASE r = 21
      BY <3>2, ValueRules
    <3> QED
      BY <3>1, <3>2
  <2>2. MinorFits(Rule(r)[Length(r) + 1 + (-1)], Msp(-1))
    BY <1>6, <1>r, <2>1, MspFits
  <2>3. Length(r) + 1 + (-1) = Length(r)
    BY <2>1
  <2> QED
    BY <2>1, <2>2, <2>3, MajorKinds DEF MinorFits
<1>7. ASSUME Reducing(20) PROVE Msp(-2).type = "array" /\ DataFits(Msp(-2))
  <2>1. Length(20) = 3 /\ Rule(20)[2] = "aelements" /\ 20 \in 9 .. 40
    BY ValueRules
  <2>2. MinorFits(Rule(20)[3 + 1 + (-2)], Msp(-2))
    BY <1>7, <1>r, <2>1, MspFits
  <2> QED
    BY <2>1, <2>2, MajorKinds DEF MinorFits
<1> QED
  BY <1>1, <1>2, <1>3, <1>4, <1>5, <1>6, <1>7

\* A member of a context other than its variables gets a value.
LEMMA OtherField ==
  ASSUME NEW dcs, IsSeq(dcs), \A d \in DOMAIN dcs : DOMAIN dcs[d] = ContextMembers,
         NEW x, NEW f \in ContextMembers \ {"value", "lost"}, NEW v, NEW dcs2, dcs2 = With(dcs, x, f, v)
  PROVE  /\ IsSeq(dcs2) /\ DOMAIN dcs2 = DOMAIN dcs
         /\ \A d \in DOMAIN dcs : DOMAIN dcs2[d] = ContextMembers
         /\ ValuesIn(dcs, dcs2)
<1>1. CASE x \in DOMAIN dcs
  <2>1. /\ IsSeq(dcs2) /\ DOMAIN dcs2 = DOMAIN dcs
        /\ \A d \in DOMAIN dcs : DOMAIN dcs2[d] = ContextMembers
        /\ \A d \in DOMAIN dcs, g \in ContextMembers : d # x \/ g # f => dcs2[d][g] = dcs[d][g]
    BY <1>1, FieldSet
  <2>2. "value" \in ContextMembers /\ "value" # f /\ "lost" \in ContextMembers /\ "lost" # f
    BY DEF ContextMembers
  <2>3. \A d \in DOMAIN dcs : dcs2[d]["value"] = dcs[d]["value"] /\ dcs2[d]["lost"] = dcs[d]["lost"]
    BY <2>1, <2>2
  <2> QED
    BY <2>1, <2>3 DEF ValuesIn
<1>2. CASE x \notin DOMAIN dcs
  <2>1. dcs2 = dcs
    <3>1. IsSeq(dcs) /\ dcs = [d \in DOMAIN dcs |-> dcs[d]]
      BY LenProperties DEF IsSeq
    <3> QED
      BY <1>2, <3>1 DEF With
  <2> QED
    BY <2>1 DEF ValuesIn
<1> QED
  BY <1>1, <1>2

LEMMA ExtractedFacts ==
  ASSUME NEW s, IsSeq(s), s # <<>>, NEW b
  PROVE  IsSeq(Extracted(s, b)) /\ ToSet(Extracted(s, b)) \subseteq ToSet(s)
<1> DEFINE i == CHOOSE j \in DOMAIN s : s[j] = b
           u == [s EXCEPT ![i] = Last(s)]
           n == Len(s)
<1>1. n \in Nat /\ n >= 1 /\ DOMAIN s = 1 .. n /\ Last(s) = s[n] /\ n \in DOMAIN s
  BY SeqFacts
<1>2. Extracted(s, b) = Front(u)
  BY DEF Extracted
<1> HIDE DEF i
<1>3. DOMAIN u = 1 .. n /\ \A j \in 1 .. n : u[j] \in ToSet(s)
  BY <1>1 DEF ToSet
<1>4. u \in [1 .. n -> ToSet(s)]
  BY <1>3
<1> HIDE DEF u
<1>5. IsSeq(u) /\ Len(u) = n /\ ToSet(u) \subseteq ToSet(s)
  <2>1. u \in Seq(ToSet(s)) /\ Len(u) = n
    BY ONLY <1>1, <1>4, SeqFrom
  <2>2. ToSet(u) \subseteq ToSet(s)
    BY <1>3 DEF ToSet
  <2> QED
    BY <2>1, <2>2, AnySeq
<1>6. Front(u) = SubSeq(u, 1, n - 1) /\ n - 1 \in 0 .. Len(u)
  BY <1>1, <1>5 DEF Front
<1>7. /\ IsSeq(Front(u)) /\ DOMAIN Front(u) = 1 .. n - 1
      /\ \A j \in 1 .. n - 1 : Front(u)[j] = u[j]
  BY <1>5, <1>6, PrefixFacts
<1>8. \A j \in 1 .. n - 1 : j \in 1 .. n
  BY <1>1
<1>9. ToSet(Front(u)) \subseteq ToSet(s)
  BY <1>3, <1>7, <1>8 DEF ToSet
<1> QED
  BY <1>2, <1>7, <1>9

\* As long as nothing failed, the tree says what the lists are.
LEMMA TreeLists ==
  ASSUME TreeInv, ctx.ok
  PROVE  /\ ListsFit(ctx) /\ Nested(ctx.dcs) /\ ctx.current \in DOMAIN ctx.dcs
         /\ ctx.all_configs # <<>>
<1>1. ContextsFit(ctx)
  BY DEF TreeInv, TreeFits
<1>2. Len(ctx.dcs) \in Nat /\ DOMAIN ctx.dcs = 1 .. Len(ctx.dcs) /\ ctx.current \in DOMAIN ctx.dcs
  BY <1>1, DcsFacts
<1>3. ListsFit(ctx) /\ Nested(ctx.dcs)
  BY <1>1, <1>2 DEF ContextsFit, ContextFits, ListsFit, Nested
<1>4. ctx.all_configs # <<>>
  <2>1. ctx.current \in ToSet(ctx.all_configs)
    BY <1>1, <1>2 DEF ContextsFit
  <2>2. DOMAIN ctx.all_configs # {}
    BY <2>1 DEF ToSet
  <2> QED
    BY <2>2
<1> QED
  BY <1>2, <1>3, <1>4

LEMMA TreeListsNext ==
  ASSUME TreeInv', ctx'.ok
  PROVE  ListsFit(ctx')
<1>1. ContextsFit(ctx')
  BY DEF TreeInv, TreeFits
<1> QED
  BY <1>1 DEF ContextsFit, ContextFits, ListsFit

\* The operations on blocks leave the variables alone.
LEMMA BlocksKeepValues ==
  ASSUME StackInv, DataInv, TreeInv'
  PROVE  /\ \A d : ctx' = Entered(ctx, d) => CtxFits
         /\ ctx' = Pop(ctx) => CtxFits
         /\ \A key, cond, string : ctx.ok /\ ctx' \in PushNew(ctx, Context(key, cond, string)) => CtxFits
<1>0. ConfigShape(ctx) /\ ListsFit(ctx) /\ VariablesFit(ctx.dcs)
  BY DEF StackInv, DataInv
<1>1. ASSUME ctx'.dcs = ctx.dcs, ctx'.all_configs = ctx.all_configs PROVE CtxFits
  BY <1>0, <1>1, CtxSameValues DEF ListsFit, ValuesIn
<1>2. ASSUME NEW key, NEW cond, NEW string, ctx.ok, ctx' \in PushNew(ctx, Context(key, cond, string))
      PROVE  CtxFits
  <2> DEFINE x == Numbered(Context(key, cond, string), Len(ctx.all_configs), ctx.current)
             n == Len(ctx.dcs)
  <2>1. ctx'.ok /\ ctx'.dcs = Append(ctx.dcs, x)
    <3>1. Holds(ctx', ctx.ok, n + 1, Append(ctx.configs_stack, ctx.current),
                Append(ctx.all_configs, n + 1), Append(ctx.dcs, x))
      BY <1>0, <1>2, BlockOps, Zenon DEF Numbered
    <3> QED
      BY <1>2, <3>1 DEF Holds
  <2>2. ListsFit(ctx')
    BY <2>1, TreeListsNext
  <2>3. x.value = << >> /\ x.lost = {}
    BY DEF Numbered, Context
  <2> HIDE DEF x
  <2>4. /\ DOMAIN ctx'.dcs = 1 .. n + 1 /\ ctx'.dcs[n + 1] = x
        /\ \A d \in 1 .. n : ctx'.dcs[d] = ctx.dcs[d]
        /\ n \in Nat /\ DOMAIN ctx.dcs = 1 .. n
    BY <1>0, <2>1, AppendFacts, SeqFacts DEF ListsFit
  <2>5. \A d \in 1 .. n + 1 : d \in 1 .. n \/ d = n + 1
    BY <2>4
  <2>6. \A d \in 1 .. n : d \in 1 .. n + 1
    BY <2>4
  <2>7. ElementsFit(x)
    <3>1. DOMAIN x.value = {}
      BY <2>3
    <3> QED
      BY <2>3, <3>1 DEF ElementsFit, AllFit
  <2>8. VariablesFit(ctx'.dcs)
    BY <1>0, <2>4, <2>5, <2>7 DEF VariablesFit
  <2>9. ValuesIn(ctx.dcs, ctx'.dcs)
    BY <2>4, <2>6 DEF ValuesIn
  <2> QED
    BY <1>0, <2>2, <2>8, <2>9, ValuesExtendIn DEF CtxFits
<1>3. ASSUME NEW d, ctx' = Entered(ctx, d) PROVE CtxFits
  <2>1. ctx'.dcs = ctx.dcs /\ ctx'.all_configs = ctx.all_configs
    BY ONLY <1>0, <1>3, EnteredOps
  <2> QED
    BY ONLY <2>1, <1>1
<1>4. ASSUME ctx' = Pop(ctx) PROVE CtxFits
  BY <1>0, <1>1, <1>4, BlockOps, Zenon DEF Holds
<1> QED
  BY <1>2, <1>3, <1>4

\* So does the joining of blocks.
LEMMA LinksKeepValues ==
  ASSUME NEW c, ConfigShape(c), ListsFit(c), NEW a, NEW b, NEW e, e = Linked(c, a, b)
  PROVE  ListsFit(e) /\ DOMAIN e.dcs = DOMAIN c.dcs /\ ValuesIn(c.dcs, e.dcs)
<1>1. PICK dcs2 : dcs2 = With(c.dcs, b, "prev", a)
  OBVIOUS
<1>2. PICK dcs3 : dcs3 = With(dcs2, a, "next", b)
  OBVIOUS
<1>3. e.dcs = dcs3 /\ e.all_configs = c.all_configs
  <2>1. Holds(e, c.ok, c.current, c.configs_stack, c.all_configs,
              [[c.dcs EXCEPT ![b].prev = a] EXCEPT ![a].next = b])
    BY BlockOps, Zenon
  <2>2. dcs2 = [c.dcs EXCEPT ![b].prev = a]
    BY <1>1 DEF With
  <2>3. dcs3 = [dcs2 EXCEPT ![a].next = b]
    BY <1>2 DEF With
  <2> QED
    BY <2>1, <2>2, <2>3 DEF Holds
<1>4. {"prev", "next"} \subseteq ContextMembers \ {"value", "lost"}
  BY DEF ContextMembers
<1>5. /\ IsSeq(dcs2) /\ DOMAIN dcs2 = DOMAIN c.dcs
      /\ \A d \in DOMAIN c.dcs : DOMAIN dcs2[d] = ContextMembers
      /\ ValuesIn(c.dcs, dcs2)
  BY <1>1, <1>4, OtherField DEF ListsFit
<1>6. /\ IsSeq(dcs3) /\ DOMAIN dcs3 = DOMAIN dcs2
      /\ \A d \in DOMAIN dcs2 : DOMAIN dcs3[d] = ContextMembers
      /\ ValuesIn(dcs2, dcs3)
  BY <1>2, <1>4, <1>5, OtherField
<1> QED
  BY <1>3, <1>5, <1>6 DEF ListsFit, ValuesIn

LEMMA RenamingKeepsValues ==
  ASSUME NEW c, ConfigShape(c), ListsFit(c), NEW b \in DOMAIN c.dcs, c.all_configs # <<>>,
         NEW key, NEW f \in Resorted(Renamed(c, b, key), TRUE)
  PROVE  ConfigShape(f) /\ ListsFit(f) /\ DOMAIN f.dcs = DOMAIN c.dcs /\ ValuesIn(c.dcs, f.dcs)
<1>1. PICK dcs2, e : dcs2 = With(c.dcs, b, "key", key) /\ e = Renamed(c, b, key)
  OBVIOUS
<1>2. Holds(e, c.ok, c.current, c.configs_stack, Append(Extracted(c.all_configs, b), b), dcs2)
  BY <1>1, BlockOps, Zenon DEF With
<1>3. "key" \in ContextMembers \ {"value", "lost"}
  BY DEF ContextMembers
<1>4. /\ IsSeq(dcs2) /\ DOMAIN dcs2 = DOMAIN c.dcs
      /\ \A d \in DOMAIN c.dcs : DOMAIN dcs2[d] = ContextMembers
      /\ ValuesIn(c.dcs, dcs2)
  BY <1>1, <1>3, OtherField DEF ListsFit
<1>5. IsSeq(Extracted(c.all_configs, b)) /\ ToSet(Extracted(c.all_configs, b)) \subseteq DOMAIN c.dcs
  BY ExtractedFacts DEF ListsFit
<1>6. /\ IsSeq(Append(Extracted(c.all_configs, b), b))
      /\ ToSet(Append(Extracted(c.all_configs, b), b)) \subseteq DOMAIN c.dcs
  BY <1>5, AppendFacts
<1>7. ConfigShape(e) /\ e.ok = c.ok
  BY <1>2, HoldsShape DEF ConfigShape
<1>8. Holds(f, e.ok, e.current, e.configs_stack, e.all_configs, e.dcs)
  <2>1. PICK harm : harm = TRUE
    OBVIOUS
  <2>2. f \in Resorted(e, harm)
    BY <1>1, <2>1
  <2> QED
    BY ONLY <1>7, <2>2, ResortedFacts
<1>9. f.dcs = dcs2 /\ f.all_configs = Append(Extracted(c.all_configs, b), b)
  BY <1>2, <1>8 DEF Holds
<1>10. ConfigShape(f)
  BY <1>7, <1>8 DEF Holds, ConfigShape
<1> QED
  BY <1>4, <1>6, <1>9, <1>10 DEF ListsFit

LEMMA PlainMinors ==
  /\ DataFits(Nothing) /\ DataFits(NULL)
  /\ \A d : DataFits(ConfigAt(d)) /\ DataFits(Data("cond", <<>>, d)) /\ DataFits(IntegerData(d))
  /\ \A s : IsSeq(s) => DataFits(StringData(s)) /\ DataFits(Buffer(s))
  /\ \A a : ListFits(a) => DataFits(ArrayData(a))
<1>1. IsSeq(<<>>)
  BY ShortSeqs
<1> QED
  BY <1>1, MadeFits DEF Nothing, NULL, ConfigAt, IntegerData, StringData, Buffer, ArrayData

\* The rules about the structure of the file, and the blocks.
LEMMA StructureData ==
  ASSUME StackInv, DataInv, TreeInv', TextFits',
         \/ Structure \/ Include \/ Operator \/ OpenGlobal \/ CloseGlobal \/ OpenCondition
         \/ OpenElse \/ CloseBlock
  PROVE  DataInv' /\ CtxFits
<1>0. ConfigShape(ctx) /\ (ctx'.ok \/ TRUE) /\ ~Failed(ctx).ok
  BY FailedFacts DEF StackInv
<1>1. ASSUME NEW r \in OtherRules, Reducing(r), NEW minor, Becomes(r, minor),
             ctx'.ok => ctx.ok /\ DataFits(minor), CtxFits
      PROVE  DataInv' /\ CtxFits
  BY <1>1, OtherReduced
<1>2. ASSUME NEW r \in OtherRules, Reducing(r), NEW minor, Becomes(r, minor), DataFits(minor) \/ ~ctx.ok,
             ctx' = ctx \/ ctx' = Failed(ctx)
      PROVE  DataInv' /\ CtxFits
  BY <1>0, <1>1, <1>2, CtxSame
<1>3. ASSUME NEW r \in OtherRules, Reducing(r), NEW minor, Becomes(r, minor), DataFits(minor),
             \/ \E d : ctx' = Entered(ctx, d)
             \/ \E d, v : ctx' = [Entered(ctx, d) EXCEPT !.straight = v]
             \/ ctx' = Pop(ctx)
             \/ ctx.ok /\ \E key, cond, string : ctx' \in PushNew(ctx, Context(key, cond, string))
      PROVE  DataInv' /\ CtxFits
  <2>1. ASSUME NEW d, NEW v, ctx' = [Entered(ctx, d) EXCEPT !.straight = v]
        PROVE  CtxFits /\ ctx'.ok = ctx.ok
    <3>0. PICK f : f = Entered(ctx, d)
      OBVIOUS
    <3>1. ctx'.ok = ctx.ok /\ ctx'.dcs = ctx.dcs /\ ctx'.all_configs = ctx.all_configs
      <4>1. PICK g : g = [f EXCEPT !.straight = v]
        OBVIOUS
      <4>2. g.ok = ctx.ok /\ g.dcs = ctx.dcs /\ g.all_configs = ctx.all_configs
        <5>1. Holds(f, ctx.ok, d, Append(ctx.configs_stack, ctx.current), ctx.all_configs, ctx.dcs)
          BY <1>0, <3>0, BlockOps, Zenon
        <5>2. DOMAIN f = Members
          BY <5>1 DEF Holds
        <5>3. Holds(g, f.ok, f.current, f.configs_stack, f.all_configs, f.dcs)
          BY ONLY <4>1, <5>2, Changed
        <5> QED
          BY <5>1, <5>3 DEF Holds
      <4>3. ctx' = g
        BY <2>1, <3>0, <4>1
      <4> QED
        BY <4>2, <4>3
    <3>2. CtxFits
      BY <3>1, CtxSameValues DEF DataInv, ListsFit, ValuesIn
    <3> QED
      BY <3>1, <3>2
  <2>2. CtxFits
    BY <1>3, <2>1, BlocksKeepValues
  <2>3. ctx'.ok => ctx.ok
    <3>1. ASSUME NEW d, ctx' = Entered(ctx, d) PROVE ctx'.ok = ctx.ok
      BY <1>0, <3>1, EnteredOps
    <3>2. ASSUME ctx' = Pop(ctx) PROVE ctx'.ok = ctx.ok
      BY <1>0, <3>2, BlockOps, Zenon DEF Holds
    <3> QED
      BY <1>3, <2>1, <3>1, <3>2
  <2> QED
    BY <1>1, <1>3, <2>2, <2>3
<1>4. CASE Structure
  <2>1. PICK r \in OtherRules : Reducing(r) /\ Becomes(r, Nothing) /\ ctx' = ctx
    BY <1>4 DEF Structure, OtherRules
  <2> QED
    BY <1>2, <2>1, PlainMinors
<1>5. CASE Include
  <2>1. PICK r \in OtherRules : Reducing(r) /\ Becomes(r, Nothing) /\ (ctx' = ctx \/ ctx' = Failed(ctx))
    BY <1>5 DEF Include, OtherRules
  <2> QED
    BY <1>2, <2>1, PlainMinors
<1>6. CASE Operator
  <2>1. PICK r \in 36 .. 39 : /\ Reducing(r) /\ Becomes(r, Data("cond", <<>>, <<"==", "=~", "!=", "!~">>[r - 35]))
                              /\ ctx' = ctx
    BY <1>6 DEF Operator
  <2>2. r \in OtherRules
    BY DEF OtherRules
  <2> QED
    BY <1>2, <2>1, <2>2, PlainMinors
<1>7. CASE OpenGlobal
  <2>1. Reducing(27) /\ Becomes(27, Nothing) /\ ctx' = Entered(ctx, Global) /\ 27 \in OtherRules
    BY <1>7 DEF OpenGlobal, OtherRules
  <2> QED
    BY <1>3, <2>1, PlainMinors
<1>8. CASE CloseGlobal
  <2>1. Reducing(28) /\ Becomes(28, Nothing) /\ ctx' = Pop(ctx) /\ 28 \in OtherRules
    BY <1>8 DEF CloseGlobal, OtherRules
  <2> QED
    BY <1>3, <2>1, PlainMinors
<1>9. CASE OpenCondition
  <2>1. Reducing(34) /\ Becomes(34, Nothing) /\ 34 \in OtherRules
    BY <1>9 DEF OpenCondition, OtherRules
  <2>2. CASE ctx' = Failed(ctx)
    BY <1>2, <2>1, <2>2, PlainMinors
  <2>3. ASSUME OpensCondition, NEW d \in Same, NEW v, ctx' = [Entered(ctx, d) EXCEPT !.straight = v]
        PROVE  DataInv' /\ CtxFits
    BY <1>3, <2>1, <2>3, PlainMinors
  <2>4. CASE OpensCondition /\ ctx' \in PushNew(ctx, Context(CondKey(ctx, Comp, Cond, Rvalue), Cond,
                                                             Kept(Comp, Cond, Rvalue)))
    <3>1. PICK key, cond, string : ctx' \in PushNew(ctx, Context(key, cond, string))
      BY <2>4
    <3>2. ctx.ok
      BY <2>4 DEF OpensCondition
    <3> QED
      BY <1>3, <2>1, <3>1, <3>2, PlainMinors
  <2>5. \/ ctx' = Failed(ctx)
        \/ OpensCondition /\ \E d \in Same : \E v : ctx' = [Entered(ctx, d) EXCEPT !.straight = v]
        \/ OpensCondition /\ ctx' \in PushNew(ctx, Context(CondKey(ctx, Comp, Cond, Rvalue), Cond,
                                                           Kept(Comp, Cond, Rvalue)))
    <3>1. ASSUME NEW d \in Same,
                 ctx' = [Entered(ctx, d) EXCEPT !.straight =
                           @ /\ ctx.dcs[d].key = CondKey(ctx, Comp, Cond, Rvalue)]
          PROVE  \E v : ctx' = [Entered(ctx, d) EXCEPT !.straight = v]
      BY <3>1
    <3> QED
      BY <1>9, <3>1 DEF OpenCondition
  <2> QED
    BY <2>2, <2>3, <2>4, <2>5
<1>10. CASE OpenElse
  <2>1. /\ Reducing(35) /\ Becomes(35, Nothing) /\ 35 \in OtherRules
        /\ \/ ctx.ok /\ \E key, cond, string : ctx' \in PushNew(ctx, Context(key, cond, string))
           \/ ctx' = ctx
    BY <1>10 DEF OpenElse, OtherRules
  <2> QED
    BY <1>2, <1>3, <2>1, PlainMinors
<1>11. CASE CloseBlock
  <2>1. PICK r \in {32, 33} : /\ Reducing(r)
                              /\ IF ctx.ok THEN ctx' = Pop(ctx) /\ Becomes(r, ConfigAt(ctx.current))
                                 ELSE ctx' = ctx /\ Becomes(r, NULL)
    BY <1>11 DEF CloseBlock, Closed
  <2>2. r \in OtherRules
    BY DEF OtherRules
  <2>3. CASE ctx.ok
    BY <1>3, <2>1, <2>2, <2>3, PlainMinors
  <2>4. CASE ~ctx.ok
    BY <1>2, <2>1, <2>2, <2>4
  <2> QED
    BY <2>3, <2>4
<1> QED
  BY <1>4, <1>5, <1>6, <1>7, <1>8, <1>9, <1>10, <1>11

LEMMA JoinedData ==
  ASSUME StackInv, DataInv, TreeInv, TreeInv', TextFits', ElseCondition \/ ElseBlock
  PROVE  DataInv' /\ CtxFits
<1>0. ConfigShape(ctx) /\ ListsFit(ctx) /\ ~Failed(ctx).ok
  BY FailedFacts DEF StackInv, DataInv
<1>s. CtxFits \/ ~(ctx' = ctx \/ ctx' = Failed(ctx))
  BY CtxSame
<1>r. 29 \in OtherRules /\ 30 \in OtherRules
  BY DEF OtherRules
<1>1. CASE ElseCondition
  <2>1. PICK a, b, c :
          /\ Reducing(29)
          /\ c = [ctx EXCEPT !.ok = ~Unreachable(ctx, a, b)]
          /\ IF ~ctx.ok THEN ctx' = ctx /\ Becomes(29, NULL)
             ELSE ctx' = Linked(c, a, b) /\ Becomes(29, ConfigAt(b))
    BY <1>1 DEF ElseCondition
  <2>2. CASE ~ctx.ok
    BY <1>0, <1>s, <1>r, <2>1, <2>2, OtherReduced
  <2>3. CASE ctx.ok
    <3>1. Holds(c, ~Unreachable(ctx, a, b), ctx.current, ctx.configs_stack, ctx.all_configs, ctx.dcs)
      BY <1>0, <2>1, Changed DEF ConfigShape
    <3>2. ConfigShape(c)
      <4>1. Unreachable(ctx, a, b) \in BOOLEAN
        BY DEF Unreachable
      <4> QED
        BY <3>1, <4>1, HoldsShape
    <3>3. ListsFit(c) /\ c.dcs = ctx.dcs
      BY <1>0, <3>1 DEF Holds, ListsFit
    <3>4. ListsFit(ctx') /\ DOMAIN ctx'.dcs = DOMAIN ctx.dcs /\ ValuesIn(ctx.dcs, ctx'.dcs)
      <4>1. ctx' = Linked(c, a, b)
        BY <2>1, <2>3
      <4>2. ListsFit(ctx') /\ DOMAIN ctx'.dcs = DOMAIN c.dcs /\ ValuesIn(c.dcs, ctx'.dcs)
        BY <3>2, <3>3, <4>1, LinksKeepValues
      <4> QED
        BY <3>3, <4>2
    <3>5. CtxFits
      BY <3>4, CtxSameValues
    <3> QED
      BY <1>r, <2>1, <2>3, <3>5, PlainMinors, OtherReduced
  <2> QED
    BY <2>2, <2>3
<1>2. CASE ElseBlock
  <2>0. PICK a, b, key : a = Msp(-3).value /\ b = Msp(0).value /\ key = OppositeKey(ctx.dcs[a])
    OBVIOUS
  <2>1. /\ Reducing(30)
        /\ \/ ~ctx.ok /\ ctx' = ctx /\ Becomes(30, NULL)
           \/ ctx' = Failed(ctx) /\ Becomes(30, NULL)
           \/ /\ ctx.ok /\ \E c \in Resorted(Renamed(ctx, b, key), TRUE) : ctx' = Linked(c, a, b)
              /\ Becomes(30, ConfigAt(b))
           \/ /\ ctx.ok /\ ctx' = Failed([ctx EXCEPT !.all_configs = Extracted(ctx.all_configs, b)])
              /\ \E d : Becomes(30, ConfigAt(d))
    BY <1>2, <2>0 DEF ElseBlock
  <2>2. CASE Becomes(30, NULL) /\ ((~ctx.ok /\ ctx' = ctx) \/ ctx' = Failed(ctx))
    BY <1>0, <1>s, <1>r, <2>1, <2>2, OtherReduced
  <2>3. ASSUME ctx.ok, NEW c \in Resorted(Renamed(ctx, b, key), TRUE), ctx' = Linked(c, a, b),
               Becomes(30, ConfigAt(b))
        PROVE  DataInv' /\ CtxFits
    <3>1. b \in DOMAIN ctx.dcs
      <4>1. TreeFits
        BY <2>3 DEF TreeInv
      <4>2. PICK r \in {29, 30, 31} : r = 30
        OBVIOUS
      <4>3. Reducing(r)
        BY <2>1, <4>2
      <4> QED
        BY <2>0, <4>1, <4>3, JoinedBlocks
    <3>3. ctx.all_configs # <<>>
      BY <2>3, TreeLists
    <3>4. ConfigShape(c) /\ ListsFit(c) /\ DOMAIN c.dcs = DOMAIN ctx.dcs /\ ValuesIn(ctx.dcs, c.dcs)
      BY <1>0, <2>3, <3>1, <3>3, RenamingKeepsValues
    <3>5. ListsFit(ctx') /\ DOMAIN ctx'.dcs = DOMAIN c.dcs /\ ValuesIn(c.dcs, ctx'.dcs)
      BY <2>3, <3>4, LinksKeepValues
    <3>6. ValuesIn(ctx.dcs, ctx'.dcs)
      BY <3>4, <3>5 DEF ValuesIn
    <3>7. CtxFits
      BY <3>4, <3>5, <3>6, CtxSameValues
    <3> QED
      BY <1>r, <2>1, <2>3, <3>7, PlainMinors, OtherReduced
  <2>4. ASSUME NEW other, ctx.ok, Becomes(30, ConfigAt(other)),
               ctx' = Failed([ctx EXCEPT !.all_configs = Extracted(ctx.all_configs, b)])
        PROVE  DataInv' /\ CtxFits
    <3>1. PICK c : c = [ctx EXCEPT !.all_configs = Extracted(ctx.all_configs, b)]
      OBVIOUS
    <3>2. Holds(c, ctx.ok, ctx.current, ctx.configs_stack, Extracted(ctx.all_configs, b), ctx.dcs)
      BY <1>0, <3>1, Changed DEF ConfigShape
    <3>3. ConfigShape(c)
      BY <1>0, <3>2, HoldsShape DEF ConfigShape
    <3>4. ctx'.dcs = ctx.dcs /\ ctx'.all_configs = Extracted(ctx.all_configs, b) /\ ~ctx'.ok
      BY <2>4, <3>1, <3>2, <3>3, FailedFacts DEF Holds
    <3>5. ctx.all_configs # <<>>
      BY <2>4, TreeLists
    <3>6. ListsFit(ctx')
      BY <1>0, <3>4, <3>5, ExtractedFacts DEF ListsFit
    <3>7. CtxFits
      BY <3>4, <3>6, CtxSameValues DEF ValuesIn
    <3> QED
      BY <1>r, <2>1, <2>4, <3>4, <3>7, OtherReduced
  <2> QED
    BY <2>1, <2>2, <2>3, <2>4
<1> QED
  BY <1>1, <1>2

LEMMA LeftSideKinds ==
  ASSUME NEW du, DataFits(du)
  PROVE  /\ \A r \in {11, 40} : du.type = "buffer" => MinorFits(Rule(r)[1], du)
         /\ \A r \in 12 .. 17 \cup {23, 24} : du.type \in ValueTypes => MinorFits(Rule(r)[1], du)
         /\ \A r \in 18 .. 22 : du.type = "array" => MinorFits(Rule(r)[1], du)
<1>r. 9 .. 40 \subseteq 0 .. YYNRULE - 1
  BY DEF YYNRULE
<1>1. ASSUME NEW r \in {11, 40}, du.type = "buffer" PROVE MinorFits(Rule(r)[1], du)
  <2>1. Rule(r)[1] \in {"key", "stringop"} /\ r \in 9 .. 40
    BY ValueRules
  <2> QED
    BY <1>1, <1>r, <2>1, LeftSideFits DEF ValueMajors, ListMajors
<1>2. ASSUME NEW r \in 12 .. 17 \cup {23, 24}, du.type \in ValueTypes PROVE MinorFits(Rule(r)[1], du)
  <2>1. r \in {12, 13, 14, 15, 16, 17, 23, 24} /\ r \in 9 .. 40
    OBVIOUS
  <2>2. Rule(r)[1] \in ValueMajors
    BY <2>1, ValueRules DEF ValueMajors
  <2> QED
    BY <1>2, <1>r, <2>1, <2>2, LeftSideFits DEF ValueMajors, ListMajors
<1>3. ASSUME NEW r \in 18 .. 22, du.type = "array" PROVE MinorFits(Rule(r)[1], du)
  <2>1. r \in {18, 19, 20, 21, 22} /\ r \in 9 .. 40
    OBVIOUS
  <2>2. Rule(r)[1] \in ListMajors
    BY <2>1, ValueRules DEF ListMajors
  <2> QED
    BY <1>3, <1>r, <2>1, <2>2, LeftSideFits DEF ValueMajors, ListMajors
<1> QED
  BY <1>1, <1>2, <1>3

\* The content of the current context.
Content(c) == c.dcs[c.current].value

\* A value gets more.
ValueGrown(old, du) == old.type = "integer" \/ \E w : IsSeq(old.value) /\ IsSeq(w) /\ du.value = old.value \o w

LEMMA PutExtends ==
  ASSUME StackInv, DataInv, TreeInv, ctx.ok, NEW name, IsSeq(name), NEW du, ValueFits(du),
         ctx' \in Put(ctx, name, du),
         name \in Variables => ValueGrown(Content(ctx)[name], du)
  PROVE  CtxFits /\ ctx'.ok = ctx.ok
<1> DEFINE cu == ctx.current
<1>1. ConfigShape(ctx) /\ ListsFit(ctx) /\ VariablesFit(ctx.dcs) /\ cu \in DOMAIN ctx.dcs
  BY TreeLists DEF StackInv, DataInv
<1>p. ctx'.ok = ctx.ok
  BY <1>1, VariableOps
<1>2. PICK e : e = ctx'
  OBVIOUS
<1>3. PICK new : new = Data(du.type, name, du.value)
  OBVIOUS
<1>4. /\ ListsFit(e) /\ VariablesFit(e.dcs)
      /\ DOMAIN e.dcs = DOMAIN ctx.dcs
      /\ \A d \in DOMAIN ctx.dcs : d # cu => e.dcs[d] = ctx.dcs[d]
      /\ ctx.dcs[cu].lost = {} =>
           /\ \A n \in DOMAIN ctx.dcs[cu].value :
                n # name => ctx.dcs[cu].value[n] \in Elements(e.dcs[cu])
           /\ new \in Elements(e.dcs[cu])
  BY <1>1, <1>2, <1>3, PutFacts
<1>5. ASSUME name \in DOMAIN ctx.dcs[cu].value
      PROVE  new.key = name /\ Extends(new, ctx.dcs[cu].value[name])
  <2>1. PICK old : old = ctx.dcs[cu].value[name]
    OBVIOUS
  <2>2. ValueGrown(old, du) /\ new.type = du.type /\ new.value = du.value /\ new.key = name
    BY <1>3, <1>5, <2>1, DataParts DEF Variables, Content
  <2>3. Extends(new, old)
    <3>1. CASE old.type = "integer"
      BY ONLY <3>1 DEF Extends
    <3>2. CASE \E w : IsSeq(old.value) /\ IsSeq(w) /\ new.value = old.value \o w
      BY ONLY <3>2, ExtendsWith
    <3> QED
      BY ONLY <2>2, <3>1, <3>2 DEF ValueGrown
  <2> QED
    BY ONLY <2>1, <2>2, <2>3
<1>6. ASSUME NEW d \in DOMAIN ctx.dcs, ctx.dcs[d].lost = {}, NEW n \in DOMAIN ctx.dcs[d].value
      PROVE  \E x \in Elements(e.dcs[d]) : x.key = n /\ Extends(x, ctx.dcs[d].value[n])
  <2>1. PICK old : old = ctx.dcs[d].value[n]
    OBVIOUS
  <2>2. ValueFits(old) /\ old.key = n
    BY <1>1, <2>1 DEF VariablesFit, ElementsFit
  <2>3. Extends(old, old)
    BY <2>2, ExtendsItself
  <2>4. CASE d = cu /\ n = name
    BY <1>4, <1>5, <1>6, <2>4
  <2>5. CASE d = cu /\ n # name
    BY <1>4, <1>6, <2>1, <2>2, <2>3, <2>5
  <2>6. CASE d # cu
    <3>1. old \in Elements(e.dcs[d])
      BY <1>4, <2>1, <2>6 DEF Elements
    <3> QED
      BY <2>1, <2>2, <2>3, <3>1
  <2> QED
    BY <2>4, <2>5, <2>6
<1>7. ValuesExtend(ctx.dcs, e.dcs)
  BY <1>4, <1>6 DEF ValuesExtend
<1> QED
  BY <1>p, <1>2, <1>4, <1>7 DEF CtxFits

\* A variable that was not there, also when it gets a number for its name.
LEMMA PutNewExtends ==
  ASSUME StackInv, DataInv, TreeInv, ctx.ok, NEW name, IsSeq(name), NEW du, ValueFits(du),
         ctx' \in PutNew(ctx, name, du), name \notin Variables
  PROVE  CtxFits /\ ctx'.ok = ctx.ok
<1>1. VariablesFit(ctx.dcs) /\ ctx.current \in DOMAIN ctx.dcs
  BY TreeLists DEF DataInv
<1>2. ASSUME NEW number \in NextNumber(ctx) PROVE IsSeq(number) /\ number \notin Variables
  <2>1. PICK dc : dc = ctx.dcs[ctx.current]
    OBVIOUS
  <2>2. \E n : number = <<n>>
    BY <1>2 DEF NextNumber
  <2>3. \A x \in Elements(dc) : x.key # number
    BY <1>2, <2>1 DEF NextNumber
  <2>4. \A n \in DOMAIN dc.value : dc.value[n].key = n /\ dc.value[n] \in Elements(dc)
    BY <1>1, <2>1 DEF VariablesFit, ElementsFit, Elements
  <2>5. number \notin DOMAIN dc.value
    BY <2>3, <2>4
  <2> QED
    BY <2>1, <2>2, <2>5, ShortSeqs DEF Variables
<1>3. \/ ctx' \in Put(ctx, name, du)
      \/ \E number \in NextNumber(ctx) : ctx' \in Put(ctx, number, du)
  BY DEF PutNew
<1> QED
  BY <1>2, <1>3, PutExtends

LEMMA VariableData ==
  ASSUME StackInv, DataInv, TreeInv, TextFits', Assign \/ AppendTo
  PROVE  DataInv' /\ CtxFits
<1>0. ConfigShape(ctx) /\ ListsFit(ctx) /\ VariablesFit(ctx.dcs) /\ ~Failed(ctx).ok /\ DataFits(Nothing)
  BY FailedFacts, PlainMinors DEF StackInv, DataInv
<1>s. ctx' = ctx \/ ctx' = Failed(ctx) => CtxFits
  BY CtxSame
<1>r. 9 \in OtherRules /\ 10 \in OtherRules
  BY DEF OtherRules
<1>1. CASE Assign
  <2>1. PICK name :
          /\ name = Msp(-2).value /\ Reducing(9) /\ Becomes(9, Nothing)
          /\ \/ ctx' = ctx \/ ctx' = Failed(ctx)
             \/ ctx.ok /\ name \notin Variables /\ ctx' \in PutNew(ctx, name, Msp(0))
    BY <1>1 DEF Assign
  <2>2. CASE ctx' = ctx \/ ctx' = Failed(ctx)
    BY <1>0, <1>s, <1>r, <2>1, <2>2, OtherReduced
  <2>3. CASE ctx.ok /\ name \notin Variables /\ ctx' \in PutNew(ctx, name, Msp(0))
    <3>1. ValueFits(Msp(0)) /\ IsSeq(name)
      BY <2>1, <2>3, RightSides DEF DataFits
    <3>2. CtxFits
      BY <2>3, <3>1, PutNewExtends
    <3> QED
      BY <1>0, <1>r, <2>1, <2>3, <3>2, OtherReduced
  <2> QED
    BY <2>1, <2>2, <2>3
<1>2. CASE AppendTo
  <2>1. PICK name, old, sum :
          /\ name = Msp(-2).value /\ Reducing(10) /\ Becomes(10, Nothing)
          /\ old = GetVariable(ctx, name) /\ sum = Merge(old, Msp(0))
          /\ IF ~ctx.ok THEN ctx' = ctx
             ELSE IF IsEnv(name) THEN ctx' = Failed(ctx)
             ELSE IF IsNull(old) THEN ctx' \in PutNew(ctx, name, Msp(0))
             ELSE IF IsNull(sum) THEN \E c \in Without(ctx, name) : ctx' = Failed(c)
             ELSE ctx' \in Put(ctx, name, sum)
    BY <1>2 DEF AppendTo
  <2>2. CASE ctx' = ctx \/ ctx' = Failed(ctx)
    BY <1>0, <1>s, <1>r, <2>1, <2>2, OtherReduced
  <2>3. ASSUME ctx.ok
        PROVE  /\ ValueFits(Msp(0)) /\ IsSeq(name) /\ ctx.current \in DOMAIN ctx.dcs
               /\ name \in Variables => old = ctx.dcs[ctx.current].value[name]
               /\ IsNull(old) \/ ValueFits(old)
    <3>1. ValueFits(Msp(0)) /\ IsSeq(name)
      BY <2>1, <2>3, RightSides DEF DataFits
    <3>2. Nested(ctx.dcs) /\ ctx.current \in DOMAIN ctx.dcs
      BY <2>3, TreeLists
    <3>3. /\ name \in Variables => old = ctx.dcs[ctx.current].value[name]
          /\ \/ old = NULL
             \/ \E d \in DOMAIN ctx.dcs : /\ name \in DOMAIN ctx.dcs[d].value
                                          /\ old = ctx.dcs[d].value[name]
      BY <2>1, <3>2, FoundVariable DEF Variables
    <3>4. IsNull(old) \/ ValueFits(old)
      BY <1>0, <3>3, DataFacts DEF VariablesFit, ElementsFit
    <3> QED
      BY <3>1, <3>2, <3>3, <3>4
  <2>4. CASE ctx.ok /\ IsNull(old) /\ ctx' \in PutNew(ctx, name, Msp(0))
    <3>1. name \notin Variables
      <4> SUFFICES ASSUME name \in Variables PROVE FALSE
        OBVIOUS
      <4>1. ValueFits(old)
        BY <1>0, <2>3, <2>4 DEF VariablesFit, ElementsFit, Variables
      <4> QED
        BY <2>4, <4>1 DEF ValueFits, ValueTypes, IsNull
    <3>2. CtxFits
      BY <2>3, <2>4, <3>1, PutNewExtends
    <3> QED
      BY <1>0, <1>r, <2>1, <2>4, <3>2, OtherReduced
  <2>5. CASE ctx.ok /\ ~IsNull(old) /\ ~IsNull(sum) /\ ctx' \in Put(ctx, name, sum)
    <3>1. /\ ValueFits(sum)
          /\ old.type # "integer" => \E w : IsSeq(old.value) /\ IsSeq(w) /\ sum.value = old.value \o w
      <4>1. PICK op2 : op2 = Msp(0)
        OBVIOUS
      <4>2. ValueFits(old) /\ ValueFits(op2) /\ sum = Merge(old, op2) /\ ~IsNull(sum)
        BY <2>1, <2>3, <2>5, <4>1
      <4> QED
        BY ONLY <4>2, MergeFits
    <3>2. CtxFits
      <4>1. name \in Variables => ValueGrown(Content(ctx)[name], sum)
        BY <2>3, <2>5, <3>1 DEF ValueGrown, Content
      <4> QED
        BY <2>3, <2>5, <3>1, <4>1, PutExtends, Zenon
    <3> QED
      BY <1>0, <1>r, <2>1, <2>5, <3>2, OtherReduced
  <2>6. ASSUME ctx.ok, NEW c \in Without(ctx, name), ctx' = Failed(c)
        PROVE  DataInv' /\ CtxFits
    <3>1. ConfigShape(c) /\ ListsFit(c) /\ VariablesFit(c.dcs)
      BY <1>0, <2>3, <2>6, VariableOps, WithoutFacts
    <3>2. ctx'.dcs = c.dcs /\ ctx'.all_configs = c.all_configs /\ ~ctx'.ok
      BY <2>6, <3>1, FailedFacts DEF Holds
    <3>3. CtxFits
      BY <3>1, <3>2 DEF CtxFits, ListsFit
    <3> QED
      BY <1>r, <2>1, <3>2, <3>3, OtherReduced
  <2> QED
    BY <2>1, <2>2, <2>4, <2>5, <2>6
<1> QED
  BY <1>1, <1>2

\* A reduction of an expression leaves the configuration as it is, or fails.
LEMMA ExpressionReduced ==
  ASSUME StackInv, DataInv, TextFits', NEW r \in 11 .. 40, Reducing(r), NEW minor, Becomes(r, minor),
         ctx' = ctx \/ ctx' = Failed(ctx),
         ctx'.ok => ctx.ok /\ MinorFits(Rule(r)[1], minor)
  PROVE  DataInv' /\ CtxFits
<1>1. r \in 0 .. YYNRULE - 1
  BY DEF YYNRULE
<1> QED
  BY <1>1, CtxSame, DataReduced

LEMMA PassedData ==
  ASSUME StackInv, DataInv, TextFits', PassOn
  PROVE  DataInv' /\ CtxFits
<1>1. /\ ctx' = ctx
      /\ \/ \E r \in {13, 23, 31} : Reducing(r) /\ Becomes(r, Msp(0))
         \/ \E r \in {19, 21} : Reducing(r) /\ Becomes(r, Msp(-1))
  BY DEF PassOn
<1>2. ASSUME NEW r \in {13, 23}, Reducing(r), Becomes(r, Msp(0)) PROVE DataInv' /\ CtxFits
  <2>1. ctx.ok => MinorFits(Rule(r)[1], Msp(0))
    BY <1>2, RightSides, LeftSideKinds DEF ValueFits
  <2> QED
    BY <1>1, <1>2, <2>1, ExpressionReduced
<1>3. ASSUME Reducing(31), Becomes(31, Msp(0)) PROVE DataInv' /\ CtxFits
  <2>1. 31 \in 0 .. YYNRULE - 1 /\ 31 \in OtherRules /\ Length(31) = 1
    BY RuleFacts DEF YYNRULE, OtherRules
  <2>2. ctx.ok => DataFits(Msp(0))
    BY <1>3, <2>1, MspFits DEF MinorFits
  <2> QED
    BY <1>1, <1>3, <2>1, <2>2, CtxSame, OtherReduced
<1>4. ASSUME NEW r \in {19, 21}, Reducing(r), Becomes(r, Msp(-1)) PROVE DataInv' /\ CtxFits
  <2>1. ctx.ok => MinorFits(Rule(r)[1], Msp(-1))
    BY <1>4, RightSides, LeftSideKinds
  <2> QED
    BY <1>1, <1>4, <2>1, ExpressionReduced
<1> QED
  BY <1>1, <1>2, <1>3, <1>4

LEMMA ValueData ==
  ASSUME StackInv, DataInv, TreeInv, TextFits', Key \/ Plus \/ Variable \/ Literal \/ Number
  PROVE  DataInv' /\ CtxFits
<1>0. ~Failed(ctx).ok
  BY FailedFacts DEF StackInv
<1>1. CASE Key
  <2>1. PICK name, du :
          /\ name = Msp(0).value /\ Reducing(11) /\ Becomes(11, du) /\ ctx' = ctx
          /\ du = Buffer(IF Has(name, ".") THEN name ELSE <<"var", ".">> \o name)
    BY <1>1 DEF Key
  <2>2. ASSUME ctx.ok PROVE MinorFits(Rule(11)[1], du)
    <3>1. IsSeq(name)
      BY <2>1, <2>2, RightSides DEF DataFits
    <3>2. IsSeq(<<"var", ".">> \o name)
      BY <3>1, ShortSeqs, ConcatFacts
    <3>3. DataFits(du) /\ du.type = "buffer"
      BY <2>1, <3>1, <3>2, PlainMinors, DataParts DEF Buffer
    <3> QED
      BY <3>3, LeftSideKinds
  <2> QED
    BY <2>1, <2>2, ExpressionReduced
<1>2. CASE Plus
  <2>1. PICK sum :
          /\ Reducing(12) /\ Becomes(12, sum)
          /\ sum = IF ctx.ok THEN Merge(Msp(-2), Msp(0)) ELSE NULL
          /\ ctx' = IF IsNull(sum) THEN Failed(ctx) ELSE ctx
    BY <1>2 DEF Plus
  <2>2. ASSUME ctx'.ok PROVE ctx.ok /\ MinorFits(Rule(12)[1], sum)
    <3>1. ctx.ok /\ ~IsNull(sum)
      BY <1>0, <2>1, <2>2
    <3>2. PICK op1, op2 : op1 = Msp(-2) /\ op2 = Msp(0)
      OBVIOUS
    <3>3. ValueFits(op1) /\ ValueFits(op2) /\ sum = Merge(op1, op2) /\ ~IsNull(sum)
      BY <2>1, <3>1, <3>2, RightSides
    <3>4. ValueFits(sum)
      BY ONLY <3>3, MergeFits
    <3> QED
      BY <3>1, <3>4, LeftSideKinds DEF ValueFits
  <2> QED
    BY <2>1, <2>2, ExpressionReduced
<1>3. CASE Variable
  <2>1. PICK name, found :
          /\ name = Msp(0).value /\ Reducing(14) /\ Becomes(14, found)
          /\ found = IF ~ctx.ok THEN NULL
                     ELSE IF ~IsEnv(name) THEN GetVariable(ctx, name)
                     ELSE IF SubSeq(name, 3, Len(name)) \in DOMAIN Env
                          THEN StringData(Env[SubSeq(name, 3, Len(name))]) ELSE NULL
          /\ ctx' = IF KnownValue(found) THEN ctx ELSE Failed(ctx)
    BY <1>3 DEF Variable
  <2>2. ASSUME ctx'.ok PROVE ctx.ok /\ MinorFits(Rule(14)[1], found)
    <3>1. ctx.ok /\ ~IsNull(found)
      BY <1>0, <2>1, <2>2 DEF KnownValue
    <3>2. CASE found = GetVariable(ctx, name)
      <4>1. Nested(ctx.dcs) /\ ctx.current \in DOMAIN ctx.dcs /\ VariablesFit(ctx.dcs)
        BY <3>1, TreeLists DEF DataInv
      <4>2. \E d \in DOMAIN ctx.dcs : name \in DOMAIN ctx.dcs[d].value /\ found = ctx.dcs[d].value[name]
        BY <3>1, <3>2, <4>1, FoundVariable, DataFacts
      <4>3. ValueFits(found)
        BY <4>1, <4>2 DEF VariablesFit, ElementsFit
      <4> QED
        BY <3>1, <4>3, LeftSideKinds DEF ValueFits
    <3>3. ASSUME NEW n \in DOMAIN Env, found = StringData(Env[n]) PROVE MinorFits(Rule(14)[1], found)
      <4>1. IsSeq(Env[n])
        BY EnvAssumption, AnySeq
      <4>2. DataFits(found) /\ found.type = "string"
        BY <3>3, <4>1, PlainMinors, DataParts DEF StringData
      <4> QED
        BY <4>2, LeftSideKinds DEF ValueTypes
    <3> QED
      BY <2>1, <3>1, <3>2, <3>3, DataFacts
  <2> QED
    BY <2>1, <2>2, ExpressionReduced
<1>4. CASE Literal
  <2>1. CASE Reducing(15) /\ Becomes(15, StringData(Msp(0).value)) /\ ctx' = ctx
    <3>1. ASSUME ctx.ok PROVE MinorFits(Rule(15)[1], StringData(Msp(0).value))
      <4>1. IsSeq(Msp(0).value)
        BY <2>1, <3>1, RightSides DEF DataFits
      <4>2. DataFits(StringData(Msp(0).value)) /\ StringData(Msp(0).value).type = "string"
        BY <4>1, PlainMinors, DataParts DEF StringData
      <4> QED
        BY <4>2, LeftSideKinds DEF ValueTypes
    <3> QED
      BY <2>1, <3>1, ExpressionReduced
  <2>2. ASSUME NEW r \in {17, 18}, Reducing(r), NEW a, Becomes(r, ArrayData(a)), ctx' = ctx,
               ctx.ok => ListFits(a)
        PROVE  DataInv' /\ CtxFits
    <3>1. ASSUME ctx.ok PROVE MinorFits(Rule(r)[1], ArrayData(a))
      <4>1. DataFits(ArrayData(a)) /\ ArrayData(a).type = "array"
        BY <2>2, <3>1, PlainMinors, DataParts DEF ArrayData
      <4> QED
        BY <4>1, LeftSideKinds DEF ValueTypes
    <3> QED
      BY <2>2, <3>1, ExpressionReduced
  <2>3. CASE Reducing(17) /\ Becomes(17, ArrayData(Msp(0).value)) /\ ctx' = ctx
    <3>1. ctx.ok => ListFits(Msp(0).value)
      BY <2>3, RightSides DEF DataFits
    <3> QED
      BY <2>2, <2>3, <3>1
  <2>4. CASE Reducing(18) /\ Becomes(18, ArrayData(<<>>)) /\ ctx' = ctx
    BY <2>2, <2>4, ShortLists
  <2> QED
    BY <1>4, <2>1, <2>3, <2>4 DEF Literal
<1>5. CASE Number
  <2>1. PICK n : Reducing(16) /\ Becomes(16, IntegerData(n)) /\ (ctx' = ctx \/ ctx' = Failed(ctx))
    BY <1>5 DEF Number
  <2>2. DataFits(IntegerData(n)) /\ IntegerData(n).type = "integer"
    BY PlainMinors, DataParts DEF IntegerData
  <2>3. MinorFits(Rule(16)[1], IntegerData(n))
    BY <2>2, LeftSideKinds DEF ValueTypes
  <2> QED
    BY <1>0, <2>1, <2>3, ExpressionReduced
<1> QED
  BY <1>1, <1>2, <1>3, <1>4, <1>5

LEMMA ElementData ==
  ASSUME StackInv, DataInv, TextFits', NextElement \/ FirstElement \/ NamedElement \/ StringOp
  PROVE  DataInv' /\ CtxFits
<1>0. ~Failed(ctx).ok
  BY FailedFacts DEF StackInv
<1>1. CASE NextElement
  <2>1. CASE ~ctx.ok /\ ctx' = ctx /\ Reducing(20) /\ Becomes(20, NULL)
    BY <2>1, ExpressionReduced
  <2>2. CASE ctx' = Failed(ctx) /\ Reducing(20) /\ Becomes(20, Msp(-2))
    BY <1>0, <2>2, ExpressionReduced
  <2>3. CASE ctx.ok /\ ctx' = ctx /\ Reducing(20) /\ Becomes(20, ArrayData(Append(Msp(-2).value, Msp(0))))
    <3>1. ListFits(Append(Msp(-2).value, Msp(0)))
      <4>1. PICK a, e : a = Msp(-2).value /\ e = Msp(0)
        OBVIOUS
      <4>2. ListFits(a) /\ DataFits(e)
        BY <2>3, <4>1, RightSides DEF ValueFits, DataFits
      <4>3. ListFits(Append(a, e))
        BY ONLY <4>2, ValueIsElement, ListAppend
      <4> QED
        BY <4>1, <4>3
    <3>2. PICK b : b = Append(Msp(-2).value, Msp(0))
      OBVIOUS
    <3>3. DataFits(ArrayData(b)) /\ ArrayData(b).type = "array"
      BY <3>1, <3>2, PlainMinors, DataParts DEF ArrayData
    <3>4. MinorFits(Rule(20)[1], ArrayData(b))
      BY <3>3, LeftSideKinds
    <3> QED
      BY <2>3, <3>2, <3>4, ExpressionReduced
  <2> QED
    BY <1>1, <2>1, <2>2, <2>3 DEF NextElement
<1>2. CASE FirstElement
  <2>1. PICK e : e = Msp(0)
    OBVIOUS
  <2>2. /\ Reducing(22) /\ ctx' = ctx
        /\ Becomes(22, IF ctx.ok THEN ArrayData(<<e>>) ELSE NULL)
    BY <1>2, <2>1 DEF FirstElement
  <2>3. ASSUME ctx.ok PROVE MinorFits(Rule(22)[1], ArrayData(<<e>>))
    <3>1. ListFits(<<e>>)
      BY <2>1, <2>2, <2>3, RightSides, ValueIsElement, ShortLists DEF ValueFits
    <3>2. DataFits(ArrayData(<<e>>)) /\ ArrayData(<<e>>).type = "array"
      BY <3>1, PlainMinors, DataParts DEF ArrayData
    <3> QED
      BY <3>2, LeftSideKinds
  <2> QED
    BY <2>2, <2>3, ExpressionReduced
<1>3. CASE NamedElement
  <2>1. PICK op, du : op = Msp(-2) /\ du = Msp(0)
    OBVIOUS
  <2>2. PICK e : e = Data(du.type, op.value, du.value)
    OBVIOUS
  <2>3. /\ Reducing(24) /\ ctx' = ctx
        /\ Becomes(24, IF ctx.ok THEN e ELSE NULL)
    BY <1>3, <2>1, <2>2 DEF NamedElement
  <2>4. ASSUME ctx.ok PROVE MinorFits(Rule(24)[1], e)
    <3>1. DataFits(op) /\ op.type = "buffer" /\ ValueFits(du)
      BY <2>1, <2>3, <2>4, RightSides
    <3>2. IsSeq(op.value)
      BY <3>1 DEF DataFits
    <3>3. e.type = du.type /\ e.key = op.value /\ e.value = du.value
      BY <2>2, DataParts
    <3>4. ValueFits(e)
      BY <2>2, <3>1, <3>2, <3>3 DEF ValueFits, DataFits
    <3> QED
      BY <3>4, LeftSideKinds DEF ValueFits
  <2> QED
    BY <2>3, <2>4, ExpressionReduced
<1>4. CASE StringOp
  <2>1. PICK op, s : op = Msp(0) /\ s = IF op.type = "string" THEN op.value ELSE <<ToString(op.value)>>
    OBVIOUS
  <2>2. /\ Reducing(40)
        /\ IF ctx.ok /\ op.type \in {"string", "integer"}
           THEN ctx' = ctx /\ Becomes(40, Buffer(s))
           ELSE ctx' = Failed(ctx) /\ Becomes(40, NULL)
    BY <1>4, <2>1 DEF StringOp
  <2>3. ASSUME ctx.ok PROVE MinorFits(Rule(40)[1], Buffer(s))
    <3>1. ValueFits(op)
      BY <2>1, <2>2, <2>3, RightSides
    <3>2. IsSeq(<<ToString(op.value)>>)
      BY ShortSeqs
    <3>3. IsSeq(s)
      BY <2>1, <3>1, <3>2 DEF ValueFits, DataFits
    <3>4. DataFits(Buffer(s)) /\ Buffer(s).type = "buffer"
      BY <3>3, PlainMinors, DataParts DEF Buffer
    <3> QED
      BY <3>4, LeftSideKinds
  <2> QED
    BY <1>0, <2>2, <2>3, ExpressionReduced
<1> QED
  BY <1>1, <1>2, <1>3, <1>4

LEMMA TokenKinds == Tokens \cap (ValueMajors \cup ListMajors \cup {"key", "stringop"}) = {}
<1>1. /\ Rule(14)[1] = "value" /\ Rule(12)[1] = "expression" /\ Rule(24)[1] = "aelement"
      /\ Rule(19)[1] = "array" /\ Rule(20)[1] = "aelements" /\ Rule(11)[1] = "key" /\ Rule(40)[1] = "stringop"
  BY ValueRules
<1>2. \A r \in {11, 12, 14, 19, 20, 24, 40} : r \in 0 .. YYNRULE - 1
  BY DEF YYNRULE
<1>3. \A r \in {11, 12, 14, 19, 20, 24, 40} : Rule(r)[1] \notin Tokens
  BY <1>2, TablesFitGrammar
<1> QED
  BY <1>1, <1>3 DEF ValueMajors, ListMajors

-----------------------------------------------------------------------------
(***************************************************************************)
(* The values fit for every file, and a variable keeps its content.        *)
(***************************************************************************)
\* What the steps without a reduction do.
LEMMA DriverData ==
  ASSUME StackInv, DataInv, TextFits', Shift \/ SyntaxError \/ ExitInGlobal \/ Crash
  PROVE  DataInv' /\ CtxFits
<1>0. DataFits(Nothing) /\ \A i \in DOMAIN <<>> : FALSE
  BY PlainMinors
<1>1. CASE Shift
  <2> DEFINE e == [stateno |-> Action, major |-> yymajor, minor |-> yyminor]
  <2>1. /\ ctx' = ctx /\ yymajor' = "none" /\ yyminor' = Nothing /\ yymajor # "none"
        /\ yystack' = <<>> \/ yystack' = Append(yystack, e)
    BY <1>1 DEF Shift, Push, Busy
  <2>2. e.major = yymajor /\ e.minor = yyminor
    OBVIOUS
  <2> HIDE DEF e
  <2>3. CtxFits
    BY <2>1, CtxSame
  <2>4. MinorFits(yymajor, yyminor)
    <3>1. yymajor \in Tokens
      BY <2>1 DEF StackInv, TokensTyped
    <3> QED
      BY <2>1, <3>1, TokenKinds DEF MinorFits, DataInv
  <2>5. ASSUME ctx.ok, NEW i \in DOMAIN yystack'
        PROVE  MinorFits(yystack'[i].major, yystack'[i].minor)
    <3>1. yystack' = Append(yystack, e)
      BY <1>0, <2>1, <2>5
    <3>2. IsSeq(yystack) /\ Len(yystack) \in Nat /\ DOMAIN yystack = 1 .. Len(yystack)
      BY SeqFacts DEF StackInv, Route
    <3>3. /\ DOMAIN yystack' = 1 .. Len(yystack) + 1 /\ yystack'[Len(yystack) + 1] = e
          /\ \A j \in 1 .. Len(yystack) : yystack'[j] = yystack[j]
      BY <3>1, <3>2, AppendFacts
    <3>4. i \in 1 .. Len(yystack) \/ i = Len(yystack) + 1
      BY <3>2, <3>3
    <3> QED
      BY <2>2, <2>4, <2>5, <3>2, <3>3, <3>4 DEF DataInv
  <2> QED
    BY <1>0, <2>1, <2>3, <2>5 DEF DataInv, CtxFits
<1>2. CASE SyntaxError
  <2>1. ctx' = Failed(ctx) /\ yymajor' = "none" /\ yyminor' = Nothing /\ ~ctx'.ok
    BY <1>2, FailedFacts DEF SyntaxError, StackInv
  <2>2. CtxFits
    BY <2>1, CtxSame
  <2> QED
    BY <1>0, <2>1, <2>2 DEF DataInv, CtxFits
<1>3. CASE ExitInGlobal \/ Crash
  <2>1. UNCHANGED <<yystack, yymajor, yyminor, ctx>>
    BY <1>3 DEF ExitInGlobal, Crash
  <2> QED
    BY <2>1, CtxSame DEF DataInv, CtxFits
<1> QED
  BY <1>1, <1>2, <1>3

LEMMA ParserData ==
  ASSUME StackInv, TreeInv, DataInv, TextFits', ParserStep
  PROVE  DataInv' /\ CtxFits
<1>1. TreeInv'
  BY ParserTree
<1> QED
  BY <1>1, DriverData, StructureData, JoinedData, VariableData, PassedData, ValueData, ElementData
     DEF ParserStep

\* A token is handed to the parser.
LEMMA FeedData ==
  ASSUME DataInv, StackInv, Feed
  PROVE  DataInv' /\ ctx' = ctx
<1> DEFINE e == [stateno |-> 0, major |-> "$", minor |-> Nothing]
<1>1. /\ ctx' = ctx /\ rest' = rest /\ token' = <<>>
      /\ \/ UNCHANGED <<yystack, yymajor, yyminor>>
         \/ /\ yyminor' = Buffer(token)
            /\ yystack' = yystack \/ yystack' = <<e>>
  BY DEF Feed, Call, Taken
<1>2. TextFits'
  <2>1. IsSeq(<<>>)
    BY ShortSeqs
  <2> QED
    BY <1>1, <2>1 DEF DataInv, TextFits
<1>3. DataFits(Buffer(token)) /\ Buffer(token).type = "buffer"
  BY PlainMinors, DataParts DEF Buffer, DataInv, TextFits
<1>4. MinorFits("$", Nothing)
  <2>1. DataFits(Nothing)
    BY MadeFits, ShortSeqs DEF Nothing
  <2> QED
    BY <2>1, TokenKinds, TokenNames DEF MinorFits, BufferMajors
<1>5. e.major = "$" /\ e.minor = Nothing /\ DOMAIN <<e>> = {1} /\ <<e>>[1] = e
  OBVIOUS
<1> HIDE DEF e
<1>6. ASSUME ctx.ok, NEW i \in DOMAIN yystack'
      PROVE  MinorFits(yystack'[i].major, yystack'[i].minor)
  <2>1. CASE yystack' = yystack
    BY <1>6, <2>1 DEF DataInv
  <2>2. CASE yystack' = <<e>>
    BY <1>4, <1>5, <1>6, <2>2
  <2> QED
    BY <1>1, <2>1, <2>2
<1> QED
  BY <1>1, <1>2, <1>3, <1>6 DEF DataInv

\* The parser is not at work.
LEMMA DataStands ==
  ASSUME DataInv, TextFits', UNCHANGED <<yystack, yymajor, yyminor, ctx>>
  PROVE  DataInv'
BY DEF DataInv

\* ContentKept for one step of the program.
DataKept == ctx'.ok => ValuesExtend(ctx.dcs, ctx'.dcs)

LEMMA DataNext ==
  ASSUME StackInv, TreeInv, DataInv, [ReadNext]_allVars
  PROVE  DataInv' /\ DataKept
<1>0. ASSUME ctx' = ctx PROVE DataKept
  BY <1>0, ValuesExtendIn DEF DataKept, DataInv, ValuesIn
<1>1. ASSUME Next PROVE DataInv' /\ DataKept
  <2>1. CASE ReadLine
    BY <1>0, <2>1, LineFits, DataStands DEF ReadLine, parserVars, DataInv
  <2>2. CASE Tokenize
    BY <1>0, <2>2, TokenizerFits, DataStands DEF Tokenize, parserVars, DataInv
  <2>3. CASE Feed
    BY <1>0, <2>3, FeedData
  <2>4. CASE Parse
    <3>1. TextFits'
      BY <2>4 DEF Parse, tokenizerVars, DataInv, TextFits
    <3> QED
      BY <2>4, <3>1, ParserData DEF Parse, CtxFits, DataKept
  <2>5. CASE Return
    <3>1. TextFits' /\ UNCHANGED parserVars
      <4>1. IsSeq(<<>>)
        BY ShortSeqs
      <4> QED
        BY <2>5, <4>1 DEF Return, Taken, tokenizerVars, DataInv, TextFits
    <3> QED
      BY <1>0, <3>1, DataStands DEF parserVars
  <2> QED
    BY <1>1, <2>1, <2>2, <2>3, <2>4, <2>5 DEF Next
<1>2. CASE UNCHANGED <<rest, token, parserVars>>
  <2>1. TextFits' /\ UNCHANGED parserVars
    BY <1>2 DEF DataInv, TextFits
  <2> QED
    BY <1>0, <2>1, DataStands DEF parserVars
<1>3. CASE UNCHANGED vars
  BY <1>2, <1>3 DEF vars, tokenizerVars
<1>4. CASE StreamSize
  BY <1>2, <1>4 DEF StreamSize
<1>5. CASE Parsing
  BY <1>1, <1>5 DEF Parsing
<1> QED
  BY <1>3, <1>4, <1>5
     DEF ReadNext, allVars, OptionsKept, StreamOpen, StreamMap, StreamClose, InsertContext,
         InsertFault, Engine, Modules, Chroot, CheckTempdir, DocumentRoot

LEMMA InitData ==
  ASSUME ReadInit
  PROVE  DataInv
<1>1. PICK cwd \in Cwds : /\ ctx = FirstContext(cwd)
                          /\ yystack = <<>> /\ yymajor = "none" /\ yyminor = Nothing
                          /\ rest = <<>> /\ token = <<>>
  BY DEF ReadInit, Init, ParserInit, TokenizerInit
<1> DEFINE pid  == Data("integer", <<"var", ".", "PID">>, Pid)
           dir  == Data("string", <<"var", ".", "CWD">>, cwd)
           with == {pid} \cup IF cwd = <<>> THEN {} ELSE {dir}
<1>2. PICK v : v = Indexed(with)
  OBVIOUS
<1>3. AllFit(with)
  <2>1. IsSeq(cwd)
    BY CwdsAssumption, AnySeq
  <2>2. PICK k, l : k = <<"var", ".", "PID">> /\ l = <<"var", ".", "CWD">>
    OBVIOUS
  <2>3. IsSeq(k) /\ IsSeq(l)
    BY <2>2, ShortSeqs
  <2>4. ValueFits(Data("integer", k, Pid)) /\ ValueFits(Data("string", l, cwd))
    BY ONLY <2>1, <2>3, MadeFits, DataParts DEF ValueFits, ValueTypes
  <2>5. ValueFits(pid) /\ ValueFits(dir)
    BY <2>2, <2>4
  <2> HIDE DEF pid, dir
  <2> QED
    BY <2>5 DEF AllFit
<1> HIDE DEF with
<1>4. /\ ctx.dcs = <<[Context(<<>>, "unset", <<>>) EXCEPT !.value = v]>>
      /\ ctx.all_configs = <<Global>>
  BY <1>1, <1>2 DEF FirstContext, with
<1>5. PICK dc : dc = [Context(<<>>, "unset", <<>>) EXCEPT !.value = v]
  OBVIOUS
<1>6. DOMAIN dc = ContextMembers /\ dc.value = v /\ dc.lost = {}
  BY <1>5 DEF Context, ContextMembers
<1>7. ElementsFit(dc)
  <2>1. \A n \in DOMAIN v : v[n] \in with /\ v[n].key = n
    BY <1>2, IndexedFacts
  <2> QED
    BY <1>3, <1>6, <2>1 DEF ElementsFit, AllFit
<1>8. ctx.dcs = <<dc>>
  BY <1>4, <1>5
<1>9. DOMAIN <<dc>> = {1} /\ <<dc>>[1] = dc /\ DOMAIN << >> = {} /\ Global = 1
  BY DEF Global
<1>10. /\ IsSeq(<<dc>>) /\ IsSeq(<<Global>>) /\ ToSet(<<Global>>) = {Global} /\ IsSeq(<<>>)
  BY ShortSeqs
<1>11. ListsFit(ctx) /\ VariablesFit(ctx.dcs)
  BY <1>4, <1>6, <1>7, <1>8, <1>9, <1>10 DEF ListsFit, VariablesFit
<1>12. DataFits(Nothing)
  BY <1>10, MadeFits DEF Nothing
<1> QED
  BY <1>1, <1>9, <1>10, <1>11, <1>12 DEF DataInv, TextFits

LEMMA DataInvariance == ReadSpec => [](StackInv /\ TreeInv /\ DataInv)
<1>1. ReadInit => StackInv /\ TreeInv /\ DataInv
  BY InitStackInv, InitTree, InitData
<1>2. StackInv /\ TreeInv /\ DataInv /\ [ReadNext]_allVars => StackInv' /\ TreeInv' /\ DataInv'
  BY ReadNextInv, TreeNext, DataNext
<1> QED
  BY <1>1, <1>2, PTL DEF ReadSpec

\* A variable of a context whose index is in order keeps its content, whatever the file
\* says: what a line puts into a context (the actions of varline in configparser.y) only
\* adds to what is there, and no line takes a variable out of the context, as long as the
\* file is not refused.  That a line may hide variables, when array_extract_element works
\* with positions that were never set (marray.c:191-212), does not destroy them.
THEOREM ContentKeptCorrect == ReadSpec => ContentKept
<1> DEFINE Kept1 == \A d \in DOMAIN ctx.dcs : ctx.dcs[d].lost = {} =>
                     \A name \in DOMAIN ctx.dcs[d].value : \E new \in Elements(ctx'.dcs[d]) :
                       new.key = name /\ Extends(new, ctx.dcs[d].value[name])
<1>1. StackInv /\ TreeInv /\ DataInv /\ [ReadNext]_allVars => [ctx'.ok => Kept1]_vars
  BY DataNext DEF DataKept, ValuesExtend
<1> QED
  BY <1>1, DataInvariance, PTL DEF ReadSpec, ContentKept

-----------------------------------------------------------------------------
(***************************************************************************)
(* The lists of strings that config_insert makes of the values.            *)
(***************************************************************************)
StringFits(e) == e = Data("string", e.key, e.value) /\ IsSeq(e.key) /\ IsSeq(e.value)
StringsFit(a) == IsSeq(a) /\ \A i \in DOMAIN a : StringFits(a[i])

\* A key is there once.
UniqueKeys(a) == \A i, j \in DOMAIN a : a[i].key = a[j].key /\ a[i].key # <<>> => i = j

\* The text v is in the list, if only as a part of an element.
Covers(a, v) == \E du \in ToSet(a) : Within(v, du.value)

\* The content of an element that was joined to another.
Joined(v) == "\r\n" \in ToSet(v)

\* An element of r is one of a, or one of b, or two that were joined.
ComesFrom(r, a, b) ==
  \A i \in DOMAIN r : \/ \E k \in DOMAIN a : a[k].value = r[i].value
                      \/ \E k \in DOMAIN b : b[k].value = r[i].value
                      \/ Joined(r[i].value)

LEMMA WithinConcat ==
  ASSUME NEW v, IsSeq(v), NEW t, IsSeq(t), NEW u, IsSeq(u)
  PROVE  /\ Within(v, t) => Within(v, t \o u)
         /\ Within(v, u \o v)
         /\ Within(v, v)
<1>0. /\ Len(v) \in Nat /\ DOMAIN v = 1 .. Len(v) /\ Len(t) \in Nat /\ Len(u) \in Nat
  BY SeqFacts
<1>1. ASSUME Within(v, t) PROVE Within(v, t \o u)
  <2>1. PICK i \in 0 .. Len(t) - Len(v) : \A k \in DOMAIN v : t[i + k] = v[k]
    BY <1>1 DEF Within
  <2>2. Len(t \o u) = Len(t) + Len(u) /\ \A k \in 1 .. Len(t) : (t \o u)[k] = t[k]
    BY ConcatFacts
  <2>3. i \in 0 .. Len(t \o u) - Len(v)
    BY <1>0, <2>2
  <2>4. \A k \in DOMAIN v : i + k \in 1 .. Len(t)
    BY <1>0
  <2> QED
    BY <2>1, <2>2, <2>3, <2>4 DEF Within
<1>2. Within(v, u \o v)
  <2>1. Len(u \o v) = Len(u) + Len(v) /\ \A k \in 1 .. Len(v) : (u \o v)[Len(u) + k] = v[k]
    BY ConcatFacts
  <2>2. Len(u) \in 0 .. Len(u \o v) - Len(v)
    BY <1>0, <2>1
  <2> QED
    BY <1>0, <2>1, <2>2 DEF Within
<1>3. Within(v, v)
  <2>1. 0 \in 0 .. Len(v) - Len(v) /\ \A k \in DOMAIN v : 0 + k = k
    BY <1>0
  <2> QED
    BY <2>1 DEF Within
<1> QED
  BY <1>1, <1>2, <1>3

\* What joins two elements with the same key.
LEMMA JoinedFacts ==
  ASSUME NEW u, IsSeq(u), NEW k, IsSeq(k), NEW w, IsSeq(w), NEW r,
         r = IF u = <<>> THEN w ELSE u \o <<"\r\n">> \o k \o <<": ">> \o w
  PROVE  /\ IsSeq(r) /\ (r = w \/ Joined(r))
         /\ Within(w, r) /\ \A v : IsSeq(v) /\ Within(v, u) => Within(v, r)
<1> DEFINE nl == <<"\r\n">>
           colon == <<": ">>
<1>0. /\ IsSeq(nl) /\ IsSeq(colon) /\ ToSet(nl) = {"\r\n"}
  BY ShortSeqs, Zenon
<1>1. r = IF u = <<>> THEN w ELSE (((u \o nl) \o k) \o colon) \o w
  BY Zenon
<1>a. "\r\n" \in ToSet(nl)
  BY <1>0, Zenon
<1> HIDE DEF nl, colon
<1>2. CASE u = <<>>
  <2>1. r = w
    BY <1>1, <1>2
  <2>2. ASSUME NEW v, IsSeq(v), Within(v, u) PROVE Within(v, r)
    <3>1. Len(u) = 0 /\ DOMAIN v = 1 .. Len(v) /\ Len(v) \in Nat /\ Len(w) \in Nat
      BY <1>2, <2>2, SeqFacts
    <3>2. Len(v) = 0
      BY <2>2, <3>1 DEF Within
    <3>3. 0 \in 0 .. Len(r) - Len(v) /\ DOMAIN v = {}
      BY <2>1, <3>1, <3>2
    <3> QED
      BY <3>3, Zenon DEF Within
  <2> QED
    BY <2>1, <2>2, WithinConcat, Zenon
<1>3. CASE u # <<>>
  <2>1. IsSeq(u \o nl) /\ "\r\n" \in ToSet(u \o nl)
    BY <1>0, <1>a, ConcatFacts, Zenon
  <2> DEFINE x == u \o nl
             y == x \o k
             z == y \o colon
  <2>2. IsSeq(x) /\ "\r\n" \in ToSet(x)
    BY <2>1, Zenon
  <2>v. ASSUME NEW v, IsSeq(v), Within(v, u) PROVE Within(v, x)
    BY <2>v, <1>0, WithinConcat, Zenon
  <2>5. r = z \o w
    BY <1>1, <1>3, Zenon
  <2> HIDE DEF x
  <2>3. IsSeq(y) /\ "\r\n" \in ToSet(y)
    BY <2>2, ConcatFacts, Zenon
  <2>w. ASSUME NEW v, IsSeq(v), Within(v, u) PROVE Within(v, y)
    BY <2>w, <2>v, <2>2, WithinConcat, Zenon
  <2> HIDE DEF y
  <2>4. IsSeq(z) /\ "\r\n" \in ToSet(z)
    BY <1>0, <2>3, ConcatFacts, Zenon
  <2>x. ASSUME NEW v, IsSeq(v), Within(v, u) PROVE Within(v, z)
    BY <1>0, <2>x, <2>w, <2>3, WithinConcat, Zenon
  <2> HIDE DEF z
  <2>6. IsSeq(r) /\ "\r\n" \in ToSet(r)
    <3>1. IsSeq(z \o w) /\ ToSet(z \o w) = ToSet(z) \cup ToSet(w)
      BY <2>4, ConcatFacts, Zenon
    <3> QED
      BY <2>4, <2>5, <3>1, Zenon
  <2>7. Within(w, r) /\ \A v : IsSeq(v) /\ Within(v, u) => Within(v, r)
    BY <2>4, <2>5, <2>x, WithinConcat, Zenon
  <2> QED
    BY <2>6, <2>7, Zenon DEF Joined
<1> QED
  BY <1>2, <1>3, Zenon

\* One element is put into the list.
LEMMA InsertUniqueFacts ==
  ASSUME NEW a, StringsFit(a), UniqueKeys(a), NEW e, StringFits(e), NEW r, r = InsertUnique(a, e)
  PROVE  /\ StringsFit(r) /\ UniqueKeys(r)
         /\ Covers(r, e.value) /\ \A v : IsSeq(v) /\ Covers(a, v) => Covers(r, v)
         /\ ComesFrom(r, a, <<e>>)
<1>0. /\ IsSeq(a) /\ Len(a) \in Nat /\ DOMAIN a = 1 .. Len(a)
      /\ \A i \in DOMAIN a : StringFits(a[i])
      /\ <<e>>[1] = e /\ DOMAIN <<e>> = {1}
  BY SeqFacts DEF StringsFit
<1>1. CASE Fits(a, e)
  <2>1. r = Append(a, e)
    BY <1>1 DEF InsertUnique
  <2>2. /\ IsSeq(r) /\ DOMAIN r = 1 .. Len(a) + 1
        /\ \A i \in 1 .. Len(a) : r[i] = a[i]
        /\ r[Len(a) + 1] = e /\ ToSet(r) = ToSet(a) \cup {e}
    BY <1>0, <2>1, AppendFacts
  <2>3. \A i \in 1 .. Len(a) + 1 : i \in 1 .. Len(a) \/ i = Len(a) + 1
    BY <1>0
  <2>4. StringsFit(r)
    BY <1>0, <2>2, <2>3 DEF StringsFit
  <2>5. UniqueKeys(r)
    <3> SUFFICES ASSUME NEW i \in DOMAIN r, NEW j \in DOMAIN r, r[i].key = r[j].key, r[i].key # <<>>
                 PROVE  i = j
      BY DEF UniqueKeys
    <3>1. CASE i \in 1 .. Len(a) /\ j \in 1 .. Len(a)
      BY <1>0, <2>2, <3>1 DEF UniqueKeys
    <3>2. CASE i = Len(a) + 1 /\ j = Len(a) + 1
      BY <3>2
    <3>3. CASE i \in 1 .. Len(a) /\ j = Len(a) + 1
      BY <1>0, <1>1, <2>2, <3>3 DEF Fits, HasKey
    <3>4. CASE i = Len(a) + 1 /\ j \in 1 .. Len(a)
      BY <1>0, <1>1, <2>2, <3>4 DEF Fits, HasKey
    <3> QED
      BY <2>2, <2>3, <3>1, <3>2, <3>3, <3>4
  <2>6. Within(e.value, e.value)
    BY WithinConcat DEF StringFits
  <2>7. Covers(r, e.value) /\ \A v : Covers(a, v) => Covers(r, v)
    BY <2>2, <2>6 DEF Covers
  <2>8. ComesFrom(r, a, <<e>>)
    BY <1>0, <2>2, <2>3 DEF ComesFrom
  <2> QED
    BY <2>4, <2>5, <2>7, <2>8
<1>2. CASE ~Fits(a, e)
  <2> DEFINE Sum(u) == IF u = <<>> THEN e.value ELSE u \o <<"\r\n">> \o e.key \o <<": ">> \o e.value
             f(i) == IF a[i].key # e.key THEN a[i] ELSE [a[i] EXCEPT !.value = Sum(a[i].value)]
  <2>1. r = [i \in DOMAIN a |-> f(i)]
    BY <1>2, Zenon DEF InsertUnique
  <2>2. \A u : IsSeq(u) => /\ IsSeq(Sum(u)) /\ (Sum(u) = e.value \/ Joined(Sum(u)))
                           /\ Within(e.value, Sum(u))
                           /\ \A v : IsSeq(v) /\ Within(v, u) => Within(v, Sum(u))
    <3> TAKE u
    <3> HAVE IsSeq(u)
    <3>1. Sum(u) = IF u = <<>> THEN e.value ELSE u \o <<"\r\n">> \o e.key \o <<": ">> \o e.value
      OBVIOUS
    <3>2. IsSeq(e.key) /\ IsSeq(e.value)
      BY DEF StringFits
    <3> HIDE DEF Sum
    <3> QED
      BY ONLY <3>1, <3>2, IsSeq(u), JoinedFacts, Zenon
  <2> HIDE DEF Sum
  <2>3. ASSUME NEW i \in DOMAIN a
        PROVE  /\ StringFits(r[i]) /\ r[i].key = a[i].key
               /\ r[i].value = a[i].value \/ r[i].value = e.value \/ Joined(r[i].value)
               /\ \A v : IsSeq(v) /\ Within(v, a[i].value) => Within(v, r[i].value)
               /\ a[i].key = e.key => Within(e.value, r[i].value)
    <3>1. r[i] = f(i) /\ StringFits(a[i])
      BY <1>0, <2>1
    <3>2. CASE a[i].key # e.key
      BY <3>1, <3>2
    <3>3. CASE a[i].key = e.key
      <4> DEFINE w == Sum(a[i].value)
      <4>1. r[i] = [a[i] EXCEPT !.value = w]
        BY <3>1, <3>3
      <4> HIDE DEF w
      <4>2. r[i] = Data("string", a[i].key, w)
        <5>1. PICK k, v : a[i] = Data("string", k, v) /\ k = a[i].key
          BY <3>1 DEF StringFits
        <5>2. r[i] = [Data("string", k, v) EXCEPT !.value = w]
          BY <4>1, <5>1
        <5> QED
          BY <5>1, <5>2, DataParts
      <4>3. r[i].key = a[i].key /\ r[i].value = w
        BY <4>2, DataParts
      <4>4. IsSeq(a[i].value) /\ IsSeq(a[i].key)
        BY <3>1 DEF StringFits
      <4>5. /\ IsSeq(w) /\ (w = e.value \/ Joined(w)) /\ Within(e.value, w)
            /\ \A v : IsSeq(v) /\ Within(v, a[i].value) => Within(v, w)
        BY <2>2, <4>4 DEF w
      <4>6. StringFits(r[i])
        BY <4>2, <4>3, <4>4, <4>5 DEF StringFits
      <4> QED
        BY <4>3, <4>5, <4>6
    <3> QED
      BY <3>2, <3>3
  <2>4. DOMAIN r = DOMAIN a
    BY <2>1
  <2>5. IsSeq(r)
    <3>1. r \in [1 .. Len(a) -> {r[i] : i \in 1 .. Len(a)}]
      BY <1>0, <2>1
    <3>2. r \in Seq({r[i] : i \in 1 .. Len(a)})
      BY <1>0, <3>1
    <3> QED
      BY <3>2, AnySeq
  <2>6. StringsFit(r)
    BY <2>3, <2>4, <2>5 DEF StringsFit
  <2>7. UniqueKeys(r)
    BY <2>3, <2>4 DEF UniqueKeys
  <2>8. Covers(r, e.value)
    <3>1. PICK i \in DOMAIN a : a[i].key = e.key
      BY <1>2 DEF Fits, HasKey
    <3>2. Within(e.value, r[i].value) /\ r[i] \in ToSet(r)
      BY <2>3, <2>4, <3>1 DEF ToSet
    <3> QED
      BY <3>2 DEF Covers
  <2>9. ASSUME NEW v, IsSeq(v), Covers(a, v) PROVE Covers(r, v)
    <3>1. PICK i \in DOMAIN a : Within(v, a[i].value)
      BY <2>9 DEF Covers, ToSet
    <3>2. Within(v, r[i].value) /\ r[i] \in ToSet(r)
      BY <2>3, <2>4, <2>9, <3>1 DEF ToSet
    <3> QED
      BY <3>2 DEF Covers
  <2>10. ComesFrom(r, a, <<e>>)
    BY <1>0, <2>3, <2>4 DEF ComesFrom
  <2> QED
    BY <2>6, <2>7, <2>8, <2>9, <2>10
<1> QED
  BY <1>1, <1>2

\* InsertAll goes through the elements one by one.
LEMMA InsertSteps ==
  ASSUME NEW a, NEW b, Len(b) \in Nat
  PROVE  \E F : /\ F = [i \in 0 .. Len(b) |-> IF i = 0 THEN a ELSE InsertUnique(F[i - 1], b[i])]
                /\ InsertAll(a, b) = F[Len(b)]
<1> DEFINE N == Len(b)
           Body(g, i) == IF i = 0 THEN a ELSE InsertUnique(g[i - 1], b[i])
           Is(n, g) == g = [i \in 0 .. n |-> Body(g, i)]
           X == {n \in 0 .. N : \E g : Is(n, g)}
           F == CHOOSE g : Is(N, g)
<1>1. N \in Nat
  OBVIOUS
<1>2. InsertAll(a, b) = F[N]
  BY DEF InsertAll
<1> HIDE DEF N
<1>3. 0 \in X
  <2> DEFINE g == [i \in 0 .. 0 |-> a]
  <2>1. Is(0, g)
    OBVIOUS
  <2> HIDE DEF g, Is
  <2> QED
    BY <2>1, <1>1
<1>4. ASSUME NEW n \in 0 .. N - 1, n \in X PROVE n + 1 \in X
  <2>1. PICK g : Is(n, g)
    BY <1>4
  <2> DEFINE h == [i \in 0 .. n + 1 |-> Body(g, i)]
  <2>2. ASSUME NEW i \in 0 .. n + 1 PROVE Body(g, i) = Body(h, i)
    <3>1. CASE i = 0
      BY <3>1
    <3>2. CASE i # 0
      <4>1. i - 1 \in 0 .. n /\ i - 1 \in 0 .. n + 1
        BY <3>2
      <4>2. g[i - 1] = Body(g, i - 1) /\ h[i - 1] = Body(g, i - 1)
        BY <4>1, <2>1
      <4> QED
        BY <3>2, <4>2
    <3> QED
      BY <3>1, <3>2
  <2>3. h = [i \in 0 .. n + 1 |-> Body(h, i)]
    <3>1. h = [i \in 0 .. n + 1 |-> Body(g, i)]
      OBVIOUS
    <3> HIDE DEF h
    <3> QED
      BY <3>1, <2>2
  <2>4. n + 1 \in 0 .. N
    BY <1>1
  <2> QED
    BY <2>3, <2>4
<1>5. N \in X
  <2>1. \A n \in 0 .. N : n \in X
    <3> HIDE DEF X
    <3> QED
      BY <1>1, <1>3, <1>4, InductionUpTo
  <2> HIDE DEF X
  <2> QED
    BY <2>1, <1>1
<1>6. Is(N, F)
  BY <1>5
<1> QED
  BY <1>2, <1>6 DEF N

\* A list is put into another: nothing is lost, and no key is there twice.
LEMMA InsertAllFacts ==
  ASSUME NEW a, StringsFit(a), UniqueKeys(a), NEW b, StringsFit(b), NEW r, r = InsertAll(a, b)
  PROVE  /\ StringsFit(r) /\ UniqueKeys(r)
         /\ \A v : IsSeq(v) /\ Covers(a, v) => Covers(r, v)
         /\ \A du \in ToSet(b) : Covers(r, du.value)
         /\ ComesFrom(r, a, b)
<1>0. Len(b) \in Nat /\ DOMAIN b = 1 .. Len(b) /\ \A k \in DOMAIN b : StringFits(b[k])
  BY SeqFacts DEF StringsFit
<1>1. PICK F : /\ F = [i \in 0 .. Len(b) |-> IF i = 0 THEN a ELSE InsertUnique(F[i - 1], b[i])]
               /\ r = F[Len(b)]
  BY <1>0, InsertSteps
<1>2. F[0] = a /\ \A i \in 1 .. Len(b) : F[i] = InsertUnique(F[i - 1], b[i])
  <2>1. \A i \in 1 .. Len(b) : i \in 0 .. Len(b) /\ i # 0
    BY <1>0
  <2>2. 0 \in 0 .. Len(b)
    BY <1>0
  <2> QED
    BY <1>1, <2>1, <2>2
<1> DEFINE N == Len(b)
           Good(n) == /\ StringsFit(F[n]) /\ UniqueKeys(F[n])
                      /\ \A v : IsSeq(v) /\ Covers(a, v) => Covers(F[n], v)
                      /\ \A k \in 1 .. n : Covers(F[n], b[k].value)
                      /\ ComesFrom(F[n], a, b)
           E == {n \in 0 .. N : Good(n)}
<1>3. 0 \in E
  <2>1. ComesFrom(a, a, b)
    BY DEF ComesFrom
  <2> QED
    BY <1>0, <1>2, <2>1
<1>4. ASSUME NEW n \in 0 .. N - 1, n \in E PROVE n + 1 \in E
  <2>1. n + 1 \in 1 .. N /\ n + 1 - 1 = n /\ n + 1 \in 0 .. N
    BY <1>0
  <2>2. PICK s, t, e : s = F[n] /\ t = F[n + 1] /\ e = b[n + 1]
    OBVIOUS
  <2>3. t = InsertUnique(s, e) /\ StringFits(e)
    BY <1>0, <1>2, <2>1, <2>2
  <2>4. /\ StringsFit(s) /\ UniqueKeys(s)
        /\ \A v : IsSeq(v) /\ Covers(a, v) => Covers(s, v)
        /\ \A k \in 1 .. n : Covers(s, b[k].value)
        /\ ComesFrom(s, a, b)
    BY <1>4, <2>2
  <2>5. /\ StringsFit(t) /\ UniqueKeys(t)
        /\ Covers(t, e.value) /\ \A v : IsSeq(v) /\ Covers(s, v) => Covers(t, v)
        /\ ComesFrom(t, s, <<e>>)
    BY ONLY <2>3, <2>4, InsertUniqueFacts
  <2>6. \A k \in 1 .. n + 1 : Covers(t, b[k].value)
    <3> TAKE k \in 1 .. n + 1
    <3>1. k \in 1 .. n \/ k = n + 1
      BY <2>1
    <3>2. k \in DOMAIN b
      BY <1>0, <2>1
    <3>3. IsSeq(b[k].value)
      BY <1>0, <3>2 DEF StringFits
    <3> QED
      BY <2>2, <2>4, <2>5, <3>1, <3>3
  <2>7. ComesFrom(t, a, b)
    <3>1. <<e>>[1] = e /\ DOMAIN <<e>> = {1} /\ n + 1 \in DOMAIN b
      BY <1>0, <2>1
    <3> QED
      BY <2>2, <2>4, <2>5, <3>1 DEF ComesFrom
  <2>8. Good(n + 1)
    BY <2>2, <2>4, <2>5, <2>6, <2>7
  <2> QED
    BY <2>1, <2>8
<1>5. \A n \in 0 .. N : n \in E
  <2> HIDE DEF E, N
  <2>1. N \in Nat
    BY <1>0 DEF N
  <2> QED
    BY <2>1, <1>3, <1>4, InductionUpTo
<1>6. Good(N)
  BY <1>5, <1>0
<1> QED
  BY <1>0, <1>1, <1>6 DEF ToSet

\* Nothing is joined when no key is there twice.
LEMMA InsertFresh ==
  ASSUME NEW a, IsSeq(a), NEW b, IsSeq(b), UniqueKeys(a \o b)
  PROVE  InsertAll(a, b) = a \o b
<1> DEFINE c == a \o b
           N == Len(b)
<1>0. /\ Len(b) \in Nat /\ Len(a) \in Nat /\ IsSeq(c) /\ Len(c) = Len(a) + Len(b)
      /\ DOMAIN c = 1 .. Len(a) + Len(b)
      /\ \A i \in 1 .. Len(a) : c[i] = a[i]
      /\ \A i \in 1 .. Len(b) : c[Len(a) + i] = b[i]
  BY ConcatFacts, SeqFacts
<1>u. UniqueKeys(c)
  OBVIOUS
<1>1. PICK F : /\ F = [i \in 0 .. Len(b) |-> IF i = 0 THEN a ELSE InsertUnique(F[i - 1], b[i])]
               /\ InsertAll(a, b) = F[Len(b)]
  BY <1>0, InsertSteps
<1> HIDE DEF c
<1>2. F[0] = a /\ \A i \in 1 .. Len(b) : F[i] = InsertUnique(F[i - 1], b[i])
  <2>1. \A i \in 1 .. Len(b) : i \in 0 .. Len(b) /\ i # 0
    BY <1>0
  <2>2. 0 \in 0 .. Len(b)
    BY <1>0
  <2> QED
    BY <1>1, <2>1, <2>2
<1> DEFINE Good(n) == F[n] = SubSeq(c, 1, Len(a) + n)
           E == {n \in 0 .. N : Good(n)}
<1>3. 0 \in E
  <2>1. Len(a) + 0 = Len(a) /\ Len(a) \in 0 .. Len(c)
    BY <1>0
  <2>2. SubSeq(c, 1, Len(a)) = a
    <3>1. /\ IsSeq(SubSeq(c, 1, Len(a))) /\ Len(SubSeq(c, 1, Len(a))) = Len(a)
          /\ \A i \in 1 .. Len(a) : SubSeq(c, 1, Len(a))[i] = c[i]
      BY <1>0, <2>1, PrefixFacts
    <3> QED
      BY <1>0, <3>1, SameSeq
  <2> QED
    BY <1>0, <1>2, <2>1, <2>2
<1>4. ASSUME NEW n \in 0 .. N - 1, n \in E PROVE n + 1 \in E
  <2>1. n + 1 \in 1 .. N /\ n + 1 - 1 = n /\ n + 1 \in 0 .. N
    BY <1>0
  <2>2. PICK m : m = Len(a) + n
    OBVIOUS
  <2>3. /\ m \in 0 .. Len(c) /\ m + 1 \in 1 .. Len(c) /\ m + 1 \in 0 .. Len(c)
        /\ Len(a) + (n + 1) = m + 1 /\ c[m + 1] = b[n + 1] /\ m \in Nat
    <3>1. c[Len(a) + (n + 1)] = b[n + 1]
      BY <1>0, <2>1
    <3>2. Len(a) + (n + 1) = m + 1
      BY <1>0, <2>1, <2>2
    <3> QED
      BY <1>0, <2>1, <2>2, <3>1, <3>2
  <2>4. PICK s, e : s = SubSeq(c, 1, m) /\ e = c[m + 1]
    OBVIOUS
  <2>5. /\ IsSeq(s) /\ Len(s) = m /\ DOMAIN s = 1 .. m /\ \A i \in 1 .. m : s[i] = c[i]
    BY <1>0, <2>3, <2>4, PrefixFacts
  <2>6. Fits(s, e)
    <3> SUFFICES ASSUME e.key # <<>>, NEW i \in 1 .. m, c[i].key = e.key PROVE FALSE
      BY <2>5 DEF Fits, HasKey
    <3>1. i \in DOMAIN c /\ m + 1 \in DOMAIN c /\ i # m + 1
      BY <1>0, <2>3
    <3> QED
      BY <1>u, <2>4, <3>1 DEF UniqueKeys
  <2>7. F[n + 1] = Append(s, e)
    <3>1. F[n] = s
      BY <1>4, <2>2, <2>4
    <3>2. F[n + 1] = InsertUnique(s, e)
      <4>1. F[n + 1] = InsertUnique(F[n + 1 - 1], b[n + 1])
        BY <1>2, <2>1
      <4>2. F[n + 1 - 1] = s
        BY <2>1, <3>1
      <4>3. b[n + 1] = e
        BY <2>3, <2>4
      <4> QED
        BY <4>1, <4>2, <4>3
    <3> QED
      BY <2>6, <3>2 DEF InsertUnique
  <2>8. Append(s, e) = SubSeq(c, 1, m + 1)
    <3> DEFINE p == Append(s, e)
               q == SubSeq(c, 1, m + 1)
    <3>1. IsSeq(p) /\ Len(p) = m + 1 /\ (\A i \in 1 .. m : p[i] = s[i]) /\ p[m + 1] = e
      BY <2>5, AppendFacts
    <3>2. IsSeq(q) /\ Len(q) = m + 1 /\ \A i \in 1 .. m + 1 : q[i] = c[i]
      BY <1>0, <2>3, PrefixFacts
    <3> HIDE DEF p, q
    <3>3. \A i \in 1 .. m + 1 : i \in 1 .. m \/ i = m + 1
      BY <2>3
    <3>4. \A i \in 1 .. Len(p) : p[i] = q[i]
      BY <2>4, <2>5, <3>1, <3>2, <3>3
    <3> QED
      BY <3>1, <3>2, <3>4, SameSeq DEF p, q
  <2> QED
    BY <2>1, <2>3, <2>7, <2>8
<1>5. \A n \in 0 .. N : n \in E
  <2> HIDE DEF E, N
  <2>1. N \in Nat
    BY <1>0 DEF N
  <2> QED
    BY <2>1, <1>3, <1>4, InductionUpTo
<1>6. F[N] = SubSeq(c, 1, Len(c))
  BY <1>5, <1>0
<1>7. SubSeq(c, 1, Len(c)) = c
  <2>1. Len(c) \in 0 .. Len(c)
    BY <1>0
  <2>2. /\ IsSeq(SubSeq(c, 1, Len(c))) /\ Len(SubSeq(c, 1, Len(c))) = Len(c)
        /\ \A i \in 1 .. Len(c) : SubSeq(c, 1, Len(c))[i] = c[i]
    BY <1>0, <2>1, PrefixFacts
  <2> QED
    BY <1>0, <2>2, SameSeq
<1> QED
  BY <1>1, <1>6, <1>7 DEF c

\* The first place that is looked for.
LEMMA FirstPlace ==
  ASSUME NEW I \in SUBSET Nat, I # {}
  PROVE  Min(I) \in I /\ \A i \in I : Min(I) <= i
<1>1. \E j \in I : \A i \in I : j <= i
  BY LeastExists
<1> QED
  BY <1>1 DEF Min

\* What is taken of a list are strings.
LEMMA StringsFacts ==
  ASSUME NEW b, ListFits(b)
  PROVE  StringsFit(Strings(b)) /\ ToSet(Strings(b)) \subseteq ToSet(b)
<1> DEFINE c == Append(b, NULL)
           I == {i \in 1 .. Len(c) : c[i].type # "string"}
           m == SelectInSeq(c, LAMBDA du : du.type # "string") - 1
<1>0. /\ IsSeq(b) /\ Len(b) \in Nat /\ DOMAIN b = 1 .. Len(b)
      /\ \A i \in 1 .. Len(b) : ElementFits(b[i])
  BY SeqFacts DEF ListFits
<1>1. Len(c) = Len(b) + 1 /\ c[Len(b) + 1] = NULL /\ \A i \in 1 .. Len(b) : c[i] = b[i]
  BY <1>0, AppendFacts
<1>2. Strings(b) = SubSeq(b, 1, m)
  BY DEF Strings
<1>3. SelectInSeq(c, LAMBDA du : du.type # "string") = IF I # {} THEN Min(I) ELSE 0
  BY DEF SelectInSeq
<1> HIDE DEF c
<1>4. Len(b) + 1 \in I
  BY <1>0, <1>1 DEF NULL, Data
<1>5. I \in SUBSET Nat
  OBVIOUS
<1>6. Min(I) \in I /\ \A i \in I : Min(I) <= i
  <2> HIDE DEF I
  <2> QED
    BY <1>4, <1>5, FirstPlace
<1>7. m = Min(I) - 1
  BY <1>3, <1>4
<1> HIDE DEF m
<1>8. m \in 0 .. Len(b) /\ \A i \in 1 .. m : i \in 1 .. Len(b) /\ i \notin I
  <2>1. PICK j : j = Min(I)
    OBVIOUS
  <2>2. j \in 1 .. Len(b) + 1 /\ m = j - 1
    BY <1>1, <1>6, <1>7, <2>1
  <2>3. \A i \in I : j <= i
    BY <1>6, <2>1
  <2> HIDE DEF I
  <2> QED
    BY <1>0, <2>2, <2>3
<1>9. \A i \in 1 .. m : b[i].type = "string"
  BY <1>0, <1>1, <1>8
<1>10. \A i \in 1 .. m : StringFits(b[i])
  BY <1>0, <1>8, <1>9 DEF ElementFits, StringFits
<1>11. /\ IsSeq(SubSeq(b, 1, m)) /\ DOMAIN SubSeq(b, 1, m) = 1 .. m
       /\ \A i \in 1 .. m : SubSeq(b, 1, m)[i] = b[i]
  BY <1>0, <1>8, PrefixFacts
<1> QED
  BY <1>0, <1>2, <1>8, <1>10, <1>11 DEF StringsFit, ToSet

-----------------------------------------------------------------------------
(***************************************************************************)
(* The options of one context.                                             *)
(***************************************************************************)
Targets == {cv[j][3] : j \in DOMAIN cv}

\* An option has been taken from the values of a context.
Done(values, old, new, j) ==
  LET key == cv[j][1]
      to  == cv[j][3]
  IN  IF key \notin DOMAIN values THEN new[to] = old[to]
      ELSE IF cv[j][2] = "string" THEN values[key].type = "string" /\ new[to] = values[key].value
      ELSE /\ values[key].type = "array" /\ Strings(values[key].value) = values[key].value
           /\ new[to] = InsertAll(old[to], values[key].value)

ReadShape(r) == DOMAIN r = {"conf", "ret"} /\ DOMAIN r.conf = Targets

LEMMA OptionTable ==
  /\ Len(cv) = 7 /\ DOMAIN cv = 1 .. 7
  /\ \A j \in 1 .. 7 : cv[j][2] \in {"string", "array"} /\ cv[j][3] \in Targets
  /\ \A i, j \in 1 .. 7 : cv[i][3] = cv[j][3] => i = j
  /\ cv[3][3] = "changeroot" /\ cv[3][2] = "string"
  /\ cv[4][1] = Server(<<"modules">>) /\ cv[4][2] = "array" /\ cv[4][3] = "modules"
  /\ cv[6][3] = "stat_cache"
  /\ cv[7][2] = "array" /\ cv[7][3] = "upload_tempdirs"
<1> DEFINE s1 == Server(<<"bind">>)
           s2 == Server(<<"errorlog">>)
           s3 == Server(<<"chroot">>)
           s4 == Server(<<"modules">>)
           s5 == Server(<<"event", "-", "handler">>)
           s6 == Server(<<"stat", "_", "cache", "_", "engine">>)
           s7 == Server(<<"upload", "-", "dirs">>)
<1>1. cv = << <<s1, "string", "bindhost">>, <<s2, "string", "errorlog_file">>, <<s3, "string", "changeroot">>,
              <<s4, "array", "modules">>, <<s5, "string", "event_handler">>, <<s6, "string", "stat_cache">>,
              <<s7, "array", "upload_tempdirs">> >>
  BY DEF cv
<1> HIDE DEF s1, s2, s3, s4, s5, s6, s7
<1>2. Len(cv) = 7 /\ DOMAIN cv = 1 .. 7
  BY <1>1
<1>3. /\ cv[1] = <<s1, "string", "bindhost">> /\ cv[2] = <<s2, "string", "errorlog_file">>
      /\ cv[3] = <<s3, "string", "changeroot">> /\ cv[4] = <<s4, "array", "modules">>
      /\ cv[5] = <<s5, "string", "event_handler">> /\ cv[6] = <<s6, "string", "stat_cache">>
      /\ cv[7] = <<s7, "array", "upload_tempdirs">>
  BY <1>1
<1>4. \A j \in 1 .. 7 : j = 1 \/ j = 2 \/ j = 3 \/ j = 4 \/ j = 5 \/ j = 6 \/ j = 7
  OBVIOUS
<1>5. \A j \in 1 .. 7 : cv[j][2] \in {"string", "array"} /\ cv[j][3] \in Targets
  <2>1. \A j \in 1 .. 7 : cv[j][3] \in Targets
    BY <1>2 DEF Targets
  <2> QED
    BY <1>3, <1>4, <2>1
<1>6. \A i, j \in 1 .. 7 : cv[i][3] = cv[j][3] => i = j
  BY <1>3, <1>4
<1> QED
  BY <1>2, <1>3, <1>5, <1>6 DEF s4

LEMMA Taken1Facts ==
  ASSUME NEW values, NEW r, ReadShape(r), NEW j \in 1 .. 7, NEW q, q = Taken1(values, r, cv[j])
  PROVE  /\ ReadShape(q)
         /\ q.ret = "0" => /\ r.ret = "0"
                           /\ Done(values, r.conf, q.conf, j)
                           /\ \A i \in 1 .. 7 \ {j} : q.conf[cv[i][3]] = r.conf[cv[i][3]]
<1> DEFINE key == cv[j][1]
           to  == cv[j][3]
           du  == values[key]
<1>0. /\ to \in Targets /\ \A i \in 1 .. 7 \ {j} : cv[i][3] \in Targets /\ cv[i][3] # to
  BY OptionTable
<1>1. q = IF r.ret # "0" \/ key \notin DOMAIN values THEN r
          ELSE IF cv[j][2] = "string"
          THEN IF du.type = "string" THEN [r EXCEPT !.conf[to] = du.value] ELSE [r EXCEPT !.ret = "-1"]
          ELSE IF du.type # "array" THEN [r EXCEPT !.ret = "fault"]
          ELSE [conf |-> [r.conf EXCEPT ![to] = InsertAll(@, Strings(du.value))],
                ret  |-> IF Strings(du.value) = du.value THEN "0" ELSE "-1"]
  BY DEF Taken1
<1>d. Done(values, r.conf, q.conf, j) <=>
        IF key \notin DOMAIN values THEN q.conf[to] = r.conf[to]
        ELSE IF cv[j][2] = "string" THEN du.type = "string" /\ q.conf[to] = du.value
        ELSE /\ du.type = "array" /\ Strings(du.value) = du.value
             /\ q.conf[to] = InsertAll(r.conf[to], du.value)
  BY DEF Done
<1> HIDE DEF key, to, du
<1>2. ASSUME NEW x, q.conf = [r.conf EXCEPT ![to] = x], DOMAIN q = {"conf", "ret"}
      PROVE  /\ ReadShape(q) /\ q.conf[to] = x
             /\ \A i \in 1 .. 7 \ {j} : q.conf[cv[i][3]] = r.conf[cv[i][3]]
  BY <1>0, <1>2 DEF ReadShape
<1>3. CASE r.ret # "0" \/ key \notin DOMAIN values
  BY <1>1, <1>d, <1>3
<1>4. CASE r.ret = "0" /\ key \in DOMAIN values /\ cv[j][2] = "string"
  <2>1. CASE du.type = "string"
    <3>1. q = [r EXCEPT !.conf[to] = du.value]
      BY <1>1, <1>4, <2>1
    <3>2. q = [r EXCEPT !.conf = [r.conf EXCEPT ![to] = du.value]]
      BY <3>1
    <3>3. q.conf = [r.conf EXCEPT ![to] = du.value] /\ DOMAIN q = {"conf", "ret"} /\ q.ret = r.ret
      BY <3>2 DEF ReadShape
    <3> QED
      BY <1>2, <1>4, <1>d, <2>1, <3>3
  <2>2. CASE du.type # "string"
    <3>1. q = [r EXCEPT !.ret = "-1"]
      BY <1>1, <1>4, <2>2
    <3> QED
      BY <3>1 DEF ReadShape
  <2> QED
    BY <2>1, <2>2
<1>5. CASE r.ret = "0" /\ key \in DOMAIN values /\ cv[j][2] # "string"
  <2>1. CASE du.type # "array"
    <3>1. q = [r EXCEPT !.ret = "fault"]
      BY <1>1, <1>5, <2>1
    <3> QED
      BY <3>1 DEF ReadShape
  <2>2. CASE du.type = "array"
    <3> DEFINE s == Strings(du.value)
    <3>1. q = [conf |-> [r.conf EXCEPT ![to] = InsertAll(@, s)], ret  |-> IF s = du.value THEN "0" ELSE "-1"]
      BY <1>1, <1>5, <2>2
    <3> HIDE DEF s
    <3>2. /\ q.conf = [r.conf EXCEPT ![to] = InsertAll(r.conf[to], s)]
          /\ DOMAIN q = {"conf", "ret"} /\ (q.ret = "0" => s = du.value)
      BY <3>1
    <3>3. /\ ReadShape(q) /\ q.conf[to] = InsertAll(r.conf[to], s)
          /\ \A i \in 1 .. 7 \ {j} : q.conf[cv[i][3]] = r.conf[cv[i][3]]
      BY <1>2, <3>2
    <3>4. q.ret = "0" => /\ Strings(du.value) = du.value
                         /\ q.conf[to] = InsertAll(r.conf[to], du.value)
      BY <3>2, <3>3 DEF s
    <3> QED
      BY <1>5, <1>d, <2>2, <3>3, <3>4
  <2> QED
    BY <2>1, <2>2
<1> QED
  BY <1>3, <1>4, <1>5

\* The options are taken one after the other.
LEMMA ValueSteps ==
  ASSUME NEW values, NEW conf
  PROVE  \E F : /\ F = [j \in 0 .. 7 |-> IF j = 0 THEN [conf |-> conf, ret |-> "0"]
                                          ELSE Taken1(values, F[j - 1], cv[j])]
                /\ Values(values, conf) = F[7]
<1> DEFINE N == 7
           Body(g, j) == IF j = 0 THEN [conf |-> conf, ret |-> "0"] ELSE Taken1(values, g[j - 1], cv[j])
           Is(n, g) == g = [j \in 0 .. n |-> Body(g, j)]
           X == {n \in 0 .. N : \E g : Is(n, g)}
           F == CHOOSE g : Is(N, g)
<1>1. N \in Nat
  OBVIOUS
<1>2. Values(values, conf) = F[N]
  BY OptionTable DEF Values
<1> HIDE DEF N
<1>3. 0 \in X
  <2> DEFINE g == [j \in 0 .. 0 |-> [conf |-> conf, ret |-> "0"]]
  <2>1. Is(0, g)
    OBVIOUS
  <2> HIDE DEF g, Is
  <2> QED
    BY <2>1, <1>1
<1>4. ASSUME NEW n \in 0 .. N - 1, n \in X PROVE n + 1 \in X
  <2>1. PICK g : Is(n, g)
    BY <1>4
  <2> DEFINE h == [i \in 0 .. n + 1 |-> Body(g, i)]
  <2>2. ASSUME NEW i \in 0 .. n + 1 PROVE Body(g, i) = Body(h, i)
    <3>1. CASE i = 0
      BY <3>1
    <3>2. CASE i # 0
      <4>1. i - 1 \in 0 .. n /\ i - 1 \in 0 .. n + 1
        BY <3>2
      <4>2. g[i - 1] = Body(g, i - 1) /\ h[i - 1] = Body(g, i - 1)
        BY <4>1, <2>1
      <4> QED
        BY <3>2, <4>2
    <3> QED
      BY <3>1, <3>2
  <2>3. h = [i \in 0 .. n + 1 |-> Body(h, i)]
    <3>1. h = [i \in 0 .. n + 1 |-> Body(g, i)]
      OBVIOUS
    <3> HIDE DEF h
    <3> QED
      BY <3>1, <2>2
  <2>4. n + 1 \in 0 .. N
    BY <1>1
  <2> QED
    BY <2>3, <2>4
<1>5. N \in X
  <2>1. \A n \in 0 .. N : n \in X
    <3> HIDE DEF X
    <3> QED
      BY <1>1, <1>3, <1>4, InductionUpTo
  <2> HIDE DEF X
  <2> QED
    BY <2>1, <1>1
<1>6. Is(N, F)
  BY <1>5
<1> QED
  BY <1>2, <1>6 DEF N

\* A context has been taken.
LEMMA ValuesFacts ==
  ASSUME NEW values, NEW conf, DOMAIN conf = Targets, NEW r, r = Values(values, conf)
  PROVE  ReadShape(r) /\ (r.ret = "0" => \A j \in 1 .. 7 : Done(values, conf, r.conf, j))
<1>1. PICK F : /\ F = [j \in 0 .. 7 |-> IF j = 0 THEN [conf |-> conf, ret |-> "0"]
                                         ELSE Taken1(values, F[j - 1], cv[j])]
               /\ r = F[7]
  BY ValueSteps
<1>2. F[0] = [conf |-> conf, ret |-> "0"] /\ \A j \in 1 .. 7 : F[j] = Taken1(values, F[j - 1], cv[j])
  <2>1. \A j \in 1 .. 7 : j \in 0 .. 7 /\ j # 0
    OBVIOUS
  <2> QED
    BY <1>1, <2>1
<1> DEFINE Good(n) ==
             /\ ReadShape(F[n])
             /\ F[n].ret = "0" => /\ \A j \in 1 .. n : Done(values, conf, F[n].conf, j)
                                  /\ \A j \in n + 1 .. 7 : F[n].conf[cv[j][3]] = conf[cv[j][3]]
           E == {n \in 0 .. 7 : Good(n)}
<1>3. 0 \in E
  <2>1. DOMAIN F[0] = {"conf", "ret"} /\ F[0].conf = conf
    BY <1>2
  <2> QED
    BY <2>1 DEF ReadShape
<1>4. ASSUME NEW n \in 0 .. 7 - 1, n \in E PROVE n + 1 \in E
  <2>1. n + 1 \in 1 .. 7 /\ n + 1 - 1 = n /\ n + 1 \in 0 .. 7
    OBVIOUS
  <2>2. PICK s, t : s = F[n] /\ t = F[n + 1]
    OBVIOUS
  <2>3. t = Taken1(values, s, cv[n + 1])
    BY <1>2, <2>1, <2>2
  <2>4. /\ ReadShape(s)
        /\ s.ret = "0" => /\ \A j \in 1 .. n : Done(values, conf, s.conf, j)
                          /\ \A j \in n + 1 .. 7 : s.conf[cv[j][3]] = conf[cv[j][3]]
    BY <1>4, <2>2
  <2>5. /\ ReadShape(t)
        /\ t.ret = "0" => /\ s.ret = "0"
                          /\ Done(values, s.conf, t.conf, n + 1)
                          /\ \A i \in 1 .. 7 \ {n + 1} : t.conf[cv[i][3]] = s.conf[cv[i][3]]
    BY ONLY <2>1, <2>3, <2>4, Taken1Facts
  <2>6. ASSUME t.ret = "0", NEW j \in 1 .. n + 1 PROVE Done(values, conf, t.conf, j)
    <3>1. CASE j = n + 1
      <4>1. s.conf[cv[n + 1][3]] = conf[cv[n + 1][3]]
        BY <2>1, <2>4, <2>5, <2>6
      <4> QED
        BY <2>5, <2>6, <3>1, <4>1 DEF Done
    <3>2. CASE j # n + 1
      <4>1. j \in 1 .. n /\ j \in 1 .. 7 \ {n + 1}
        BY <3>2
      <4>2. t.conf[cv[j][3]] = s.conf[cv[j][3]] /\ Done(values, conf, s.conf, j)
        BY <2>4, <2>5, <2>6, <4>1
      <4> QED
        BY <4>2 DEF Done
    <3> QED
      BY <3>1, <3>2
  <2>7. ASSUME t.ret = "0", NEW j \in n + 1 + 1 .. 7 PROVE t.conf[cv[j][3]] = conf[cv[j][3]]
    <3>1. j \in 1 .. 7 \ {n + 1} /\ j \in n + 1 .. 7
      OBVIOUS
    <3> QED
      BY <2>4, <2>5, <2>7, <3>1
  <2>8. Good(n + 1)
    BY <2>2, <2>5, <2>6, <2>7
  <2> HIDE DEF Good
  <2> QED
    BY <2>1, <2>8
<1>5. \A n \in 0 .. 7 : n \in E
  <2> HIDE DEF E
  <2> QED
    BY <1>3, <1>4, InductionUpTo
<1>6. Good(7)
  BY <1>5
<1> QED
  BY <1>1, <1>6

-----------------------------------------------------------------------------
(***************************************************************************)
(* The list of modules.                                                    *)
(***************************************************************************)
Index   == Mod(<<"indexfile">>)
Listing == Mod(<<"dirlisting">>)
Static  == Mod(<<"staticfile">>)
Auth    == Mod(<<"auth">>)
AuthnFile == Mod(<<"authn", "_", "file">>)

NoKeys(a) == IsSeq(a) /\ \A i \in DOMAIN a : a[i].key = <<>>

LEMMA ModuleNames ==
  /\ Index # Static /\ Auth \notin {Index, Listing, Static}
  /\ ~Joined(Index) /\ ~Joined(Static)
<1> DEFINE u == "_"
           p == <<"mod", u>>
           nl == "\r\n"
<1>u. nl # u /\ nl \notin {"mod", "indexfile", "staticfile"}
  BY Zenon
<1>p. \A x : Mod(<<x>>) = p \o <<x>>
  BY Zenon DEF Mod
<1>n. \A v : Joined(v) <=> nl \in ToSet(v)
  BY DEF Joined
<1> HIDE DEF u, nl
<1>1. /\ IsSeq(p) /\ Len(p) = 2 /\ ToSet(p) = {"mod", u}
  <2>1. IsSeq(p)
    BY ShortSeqs
  <2>2. Len(p) = 2 /\ p[1] = "mod" /\ p[2] = u
    OBVIOUS
  <2> HIDE DEF p
  <2>3. DOMAIN p = 1 .. 2
    BY <2>1, <2>2, SeqFacts
  <2>4. ToSet(p) = {p[i] : i \in {1, 2}}
    BY <2>3 DEF ToSet
  <2> QED
    BY <2>1, <2>2, <2>4
<1> HIDE DEF p
<1>3. ASSUME NEW x PROVE Mod(<<x>>)[3] = x /\ ToSet(Mod(<<x>>)) = {"mod", u, x}
  <2>1. IsSeq(<<x>>) /\ ToSet(<<x>>) = {x}
    BY ShortSeqs
  <2>2. Len(<<x>>) = 1 /\ <<x>>[1] = x
    OBVIOUS
  <2>3. PICK t : t = <<x>>
    OBVIOUS
  <2>a. IsSeq(p) /\ IsSeq(t)
    BY <1>1, <2>1, <2>3
  <2>4. Mod(<<x>>) = p \o t
    BY <1>p, <2>3
  <2>5. 1 \in 1 .. Len(t) /\ IsSeq(t)
    BY <2>1, <2>2, <2>3
  <2>6. (p \o t)[Len(p) + 1] = t[1] /\ ToSet(p \o t) = ToSet(p) \cup ToSet(t)
    <3>1. /\ \A i \in 1 .. Len(t) : (p \o t)[Len(p) + i] = t[i]
          /\ ToSet(p \o t) = ToSet(p) \cup ToSet(t)
      BY ONLY <2>a, ConcatFacts
    <3> QED
      BY ONLY <2>5, <3>1
  <2>7. Len(p) + 1 = 3 /\ t[1] = x /\ ToSet(t) = {x}
    <3>1. Len(p) + 1 = 3
      BY <1>1
    <3> QED
      BY <2>1, <2>2, <2>3, <3>1
  <2>8. (p \o t)[3] = x /\ ToSet(p \o t) = {"mod", u, x}
    BY <1>1, <2>6, <2>7
  <2> QED
    BY <2>4, <2>8
<1>4. /\ Index[3] = "indexfile" /\ Listing[3] = "dirlisting" /\ Static[3] = "staticfile" /\ Auth[3] = "auth"
  BY <1>3 DEF Index, Listing, Static, Auth
<1>5. ToSet(Index) = {"mod", u, "indexfile"} /\ ToSet(Static) = {"mod", u, "staticfile"}
  BY <1>3 DEF Index, Static
<1> QED
  BY <1>4, <1>5, <1>n, <1>u

LEMMA LoadsConcat ==
  ASSUME NEW s, IsSeq(s), NEW t, IsSeq(t), NEW m
  PROVE  Loads(s \o t, m) <=> Loads(s, m) \/ Loads(t, m)
<1>1. ToSet(s \o t) = ToSet(s) \cup ToSet(t)
  BY ConcatFacts
<1>2. \A a : Loads(a, m) <=> \E e \in ToSet(a) : e.value = m
  BY DEF Loads, ToSet
<1> HIDE DEF Loads
<1> QED
  BY <1>1, <1>2

LEMMA UniqueConcat ==
  ASSUME NEW a, IsSeq(a), UniqueKeys(a), NEW b, NoKeys(b)
  PROVE  UniqueKeys(a \o b) /\ UniqueKeys(b \o a)
<1>0. /\ IsSeq(b) /\ Len(a) \in Nat /\ DOMAIN a = 1 .. Len(a) /\ Len(b) \in Nat /\ DOMAIN b = 1 .. Len(b)
  BY SeqFacts DEF NoKeys
<1>1. /\ DOMAIN (a \o b) = 1 .. Len(a) + Len(b) /\ DOMAIN (b \o a) = 1 .. Len(b) + Len(a)
      /\ \A i \in 1 .. Len(a) : (a \o b)[i] = a[i]
      /\ \A i \in 1 .. Len(b) : (a \o b)[Len(a) + i] = b[i]
      /\ \A i \in 1 .. Len(b) : (b \o a)[i] = b[i]
      /\ \A i \in 1 .. Len(a) : (b \o a)[Len(b) + i] = a[i]
  BY <1>0, ConcatFacts
<1>2. PICK c, d : c = a \o b /\ d = b \o a
  OBVIOUS
<1>3. \A i \in DOMAIN c : c[i].key # <<>> => i \in DOMAIN a /\ c[i] = a[i]
  <2> SUFFICES ASSUME NEW i \in 1 .. Len(a) + Len(b), i \notin 1 .. Len(a) PROVE c[i].key = <<>>
    BY <1>0, <1>1, <1>2
  <2>1. i - Len(a) \in 1 .. Len(b) /\ i = Len(a) + (i - Len(a))
    BY <1>0
  <2> QED
    BY <1>0, <1>1, <1>2, <2>1 DEF NoKeys
<1>4. \A i \in DOMAIN d : d[i].key # <<>> =>
        \E k \in DOMAIN a : i = Len(b) + k /\ d[i] = a[k]
  <2> SUFFICES ASSUME NEW i \in 1 .. Len(b) + Len(a), d[i].key # <<>>
               PROVE  \E k \in DOMAIN a : i = Len(b) + k /\ d[i] = a[k]
    BY <1>1, <1>2
  <2>1. i \notin 1 .. Len(b)
    BY <1>0, <1>1, <1>2 DEF NoKeys
  <2>2. i - Len(b) \in 1 .. Len(a) /\ i = Len(b) + (i - Len(b))
    BY <1>0, <2>1
  <2> QED
    BY <1>0, <1>1, <1>2, <2>2
<1>5. UniqueKeys(c)
  BY <1>3 DEF UniqueKeys
<1>6. UniqueKeys(d)
  <2> SUFFICES ASSUME NEW i \in DOMAIN d, NEW j \in DOMAIN d, d[i].key = d[j].key, d[i].key # <<>>
               PROVE  i = j
    BY DEF UniqueKeys
  <2>1. PICK k \in DOMAIN a : i = Len(b) + k /\ d[i] = a[k]
    BY <1>4
  <2>2. PICK l \in DOMAIN a : j = Len(b) + l /\ d[j] = a[l]
    BY <1>4
  <2> QED
    BY <2>1, <2>2 DEF UniqueKeys
<1> QED
  BY <1>2, <1>5, <1>6

LEMMA MissingFacts ==
  ASSUME NEW a, NEW x
  PROVE  /\ NoKeys(Missing(a, x)) /\ IsSeq(Missing(a, x))
         /\ \A m : Loads(Missing(a, x), m) <=> ~Loads(a, x) /\ m = x
<1> DEFINE e == StringData(x)
<1>1. e.key = <<>> /\ e.value = x
  BY DataParts DEF StringData
<1>2. Missing(a, x) = IF Loads(a, x) THEN <<>> ELSE <<e>>
  BY DEF Missing
<1> HIDE DEF e
<1>3. /\ IsSeq(<<>>) /\ IsSeq(<<e>>) /\ DOMAIN <<>> = {} /\ DOMAIN <<e>> = {1} /\ <<e>>[1] = e
  <2>1. IsSeq(<<>>) /\ IsSeq(<<e>>)
    BY ShortSeqs
  <2> QED
    BY <2>1
<1>4. CASE Loads(a, x)
  BY <1>2, <1>3, <1>4 DEF NoKeys, Loads
<1>5. CASE ~Loads(a, x)
  <2>1. Missing(a, x) = <<e>>
    BY <1>2, <1>5
  <2>2. NoKeys(<<e>>) /\ \A m : Loads(<<e>>, m) <=> m = x
    BY <1>1, <1>3 DEF NoKeys, Loads
  <2> QED
    BY <1>3, <1>5, <2>1, <2>2
<1> QED
  BY <1>4, <1>5

LEMMA NoKeysConcat ==
  ASSUME NEW a, NoKeys(a), NEW b, NoKeys(b)
  PROVE  NoKeys(a \o b)
<1>1. ToSet(a \o b) = ToSet(a) \cup ToSet(b) /\ IsSeq(a \o b)
  BY ConcatFacts DEF NoKeys
<1>2. \A c : (\A i \in DOMAIN c : c[i].key = <<>>) <=> \A e \in ToSet(c) : e.key = <<>>
  BY DEF ToSet
<1> QED
  BY <1>1, <1>2 DEF NoKeys

\* The place of a module in the list.
PlaceIn(a, m) == SelectInSeq(a, LAMBDA du : du.value = m)

LEMMA FirstOfTwo ==
  ASSUME NEW a, IsSeq(a), NEW m, NEW n, m # n, Loads(a, n), a # <<>>, a[1].value = m
  PROVE  PlaceIn(a, m) < PlaceIn(a, n)
<1> DEFINE I(v) == {i \in 1 .. Len(a) : a[i].value = v}
<1>1. Len(a) \in Nat /\ Len(a) >= 1 /\ DOMAIN a = 1 .. Len(a)
  BY SeqFacts
<1>2. \A v : PlaceIn(a, v) = IF I(v) # {} THEN Min(I(v)) ELSE 0
  BY DEF PlaceIn, SelectInSeq
<1>3. 1 \in I(m) /\ 1 \notin I(n) /\ I(n) # {}
  BY <1>1 DEF Loads
<1>4. I(m) \in SUBSET Nat /\ I(n) \in SUBSET Nat
  OBVIOUS
<1>5. \A i \in I(n) : i \in Nat /\ i >= 1
  OBVIOUS
<1> HIDE DEF I
<1>6. Min(I(m)) <= 1 /\ Min(I(n)) \in I(n) /\ Min(I(m)) \in Nat
  <2>1. \A J \in SUBSET Nat : J # {} => Min(J) \in J /\ \A i \in J : Min(J) <= i
    BY FirstPlace
  <2> QED
    BY <1>3, <1>4, <2>1
<1>7. Min(I(n)) >= 1 /\ Min(I(n)) # 1 /\ Min(I(n)) \in Nat
  BY <1>3, <1>5, <1>6
<1>8. Min(I(m)) < Min(I(n))
  <2>1. PICK x, y : x = Min(I(m)) /\ y = Min(I(n))
    OBVIOUS
  <2> QED
    BY <1>6, <1>7, <2>1
<1> QED
  BY <1>2, <1>3, <1>8

\* The modules that are always loaded are added.
LEMMA CompletedFacts ==
  ASSUME NEW a, IsSeq(a), UniqueKeys(a), NEW r, r = Completed(a)
  PROVE  /\ IsSeq(r) /\ ToSet(a) \subseteq ToSet(r)
         /\ Loads(r, Index) /\ Loads(r, Listing) /\ Loads(r, Static)
         /\ Loads(r, Auth) => Loads(r, AuthnFile)
         /\ ~Loads(a, Index) => PlaceIn(r, Index) < PlaceIn(r, Static)
<1> DEFINE first == Missing(a, Index)
           l1 == Missing(a, Listing)
           l2 == Missing(a, Static)
           l3 == IF Loads(a, Auth) THEN Missing(a, AuthnFile) ELSE <<>>
           l12 == l1 \o l2
           last == l12 \o l3
           b == a \o last
           c == first \o b
<1>1. r = InsertAll(first, b)
  BY Zenon DEF Completed, Index, Listing, Static, Auth, AuthnFile
<1>2. /\ NoKeys(first) /\ NoKeys(l1) /\ NoKeys(l2) /\ NoKeys(l3)
      /\ \A m : Loads(first, m) <=> ~Loads(a, Index) /\ m = Index
      /\ \A m : Loads(l1, m) <=> ~Loads(a, Listing) /\ m = Listing
      /\ \A m : Loads(l2, m) <=> ~Loads(a, Static) /\ m = Static
      /\ \A m : Loads(l3, m) <=> Loads(a, Auth) /\ ~Loads(a, AuthnFile) /\ m = AuthnFile
  <2>1. NoKeys(<<>>) /\ \A m : ~Loads(<<>>, m)
    <3>1. IsSeq(<<>>)
      BY ShortSeqs
    <3>2. DOMAIN <<>> = {}
      OBVIOUS
    <3> QED
      BY <3>1, <3>2 DEF NoKeys, Loads
  <2> QED
    BY <2>1, MissingFacts
<1>3. ~Loads(a, Index) => first = <<StringData(Index)>>
  BY DEF Missing
<1> HIDE DEF first, l1, l2, l3
<1>4. NoKeys(l12) /\ \A m : Loads(l12, m) <=> Loads(l1, m) \/ Loads(l2, m)
  BY <1>2, NoKeysConcat, LoadsConcat DEF NoKeys
<1> HIDE DEF l12
<1>5. NoKeys(last) /\ \A m : Loads(last, m) <=> Loads(l12, m) \/ Loads(l3, m)
  BY <1>2, <1>4, NoKeysConcat, LoadsConcat DEF NoKeys
<1> HIDE DEF last
<1>6. /\ IsSeq(b) /\ UniqueKeys(b) /\ ToSet(b) = ToSet(a) \cup ToSet(last)
      /\ \A m : Loads(b, m) <=> Loads(a, m) \/ Loads(last, m)
  BY <1>5, UniqueConcat, LoadsConcat, ConcatFacts DEF NoKeys
<1> HIDE DEF b
<1>7. /\ IsSeq(c) /\ UniqueKeys(c) /\ ToSet(c) = ToSet(first) \cup ToSet(b)
      /\ \A m : Loads(c, m) <=> Loads(first, m) \/ Loads(b, m)
  BY <1>2, <1>6, UniqueConcat, LoadsConcat, ConcatFacts DEF NoKeys
<1>8. r = c
  BY <1>1, <1>2, <1>6, <1>7, InsertFresh DEF NoKeys
<1>9. \A m : Loads(r, m) <=> \/ Loads(a, m) \/ m \in {Index, Listing, Static}
                             \/ Loads(a, Auth) /\ m = AuthnFile
  BY <1>2, <1>4, <1>5, <1>6, <1>7, <1>8
<1>10. ASSUME ~Loads(a, Index) PROVE PlaceIn(r, Index) < PlaceIn(r, Static)
  <2> DEFINE e == StringData(Index)
  <2>1. e.value = Index
    BY DataParts DEF StringData
  <2>2. first = <<e>>
    BY <1>3, <1>10
  <2> HIDE DEF e
  <2>3. Len(<<e>>) = 1 /\ <<e>>[1] = e /\ IsSeq(<<e>>)
    BY ShortSeqs
  <2>4. c[1] = e /\ Len(c) = 1 + Len(b) /\ Len(b) \in Nat
    BY <1>6, <2>2, <2>3, ConcatFacts, SeqFacts
  <2>5. c # <<>>
    BY <1>7, <2>4, SeqFacts
  <2> HIDE DEF c
  <2> QED
    BY <1>7, <1>8, <1>9, <2>1, <2>4, <2>5, ModuleNames, FirstOfTwo
<1> QED
  BY <1>6, <1>7, <1>8, <1>9, <1>10, ModuleNames

-----------------------------------------------------------------------------
(***************************************************************************)
(* The options of the contexts 1 .. n, as config_insert takes them: x is   *)
(* ctx, conf is srvconf, and used is touched.                              *)
(***************************************************************************)
ContentOf(x, i) == x.dcs[x.all_configs[i]].value
ValueIn(x, i, key) == ContentOf(x, i)[key].value

SetBy(x, i, key) == key \in DOMAIN ContentOf(x, i)
SetUpTo(x, n, key) == {i \in 1 .. n : SetBy(x, i, key)}

Option(x, n, conf, used, j) ==
  LET key == cv[j][1]
      to  == conf[cv[j][3]]
      S   == SetUpTo(x, n, key)
  IN  /\ S # {} => key \in used
      /\ IF cv[j][2] = "string"
         THEN (S = {} /\ to = <<>>) \/ \E i \in S : to = ValueIn(x, i, key) /\ \A k \in S : k <= i
         ELSE \A i \in S : /\ StringsFit(ValueIn(x, i, key))
                           /\ \A e \in ToSet(ValueIn(x, i, key)) : Covers(to, e.value)

Options(x, n, conf, used) == DOMAIN conf = Targets /\ \A j \in 1 .. 7 : Option(x, n, conf, used, j)

Lists(conf) ==
  \A j \in 1 .. 7 : cv[j][2] = "array" => StringsFit(conf[cv[j][3]]) /\ UniqueKeys(conf[cv[j][3]])

\* A module of the list was named in one of the contexts, or it was joined to another.
Named(x, n, a) ==
  \A k \in DOMAIN a :
    \/ Joined(a[k].value)
    \/ \E i \in SetUpTo(x, n, Server(<<"modules">>)) :
         \E e \in ToSet(ValueIn(x, i, Server(<<"modules">>))) : e.value = a[k].value

\* The options that stand in a context.
KeysUsed(values) == {cv[j][1] : j \in {k \in DOMAIN cv : cv[k][1] \in DOMAIN values}}

LEMMA InsertOptions ==
  ASSUME NEW x, ListsFit(x), VariablesFit(x.dcs), NEW n \in DOMAIN x.all_configs,
         NEW conf, NEW used, Options(x, n - 1, conf, used), Lists(conf), Named(x, n - 1, conf.modules),
         NEW values, values = ContentOf(x, n), NEW r, r = Values(values, conf), r.ret = "0",
         NEW used2, used2 = used \cup KeysUsed(values)
  PROVE  Options(x, n, r.conf, used2) /\ Lists(r.conf) /\ Named(x, n, r.conf.modules)
<1>0. n \in Nat \ {0} /\ x.all_configs[n] \in DOMAIN x.dcs
  BY SeqFacts DEF ListsFit, ToSet
<1>1. DOMAIN r.conf = Targets /\ \A j \in 1 .. 7 : Done(values, conf, r.conf, j)
  BY ValuesFacts DEF Options, ReadShape
<1>2. \A key \in DOMAIN values : ValueFits(values[key])
  BY <1>0 DEF VariablesFit, ElementsFit, ContentOf
<1>3. ASSUME NEW key
      PROVE  /\ key \in DOMAIN values => /\ SetUpTo(x, n, key) = SetUpTo(x, n - 1, key) \cup {n}
                                         /\ ValueIn(x, n, key) = values[key].value
             /\ key \notin DOMAIN values => SetUpTo(x, n, key) = SetUpTo(x, n - 1, key)
             /\ \A i \in SetUpTo(x, n - 1, key) : i <= n
  <2>1. SetBy(x, n, key) <=> key \in DOMAIN values
    BY DEF SetBy
  <2>2. 1 .. n = (1 .. n - 1) \cup {n}
    BY <1>0
  <2>3. \A i \in 1 .. n - 1 : i <= n
    BY <1>0
  <2> QED
    BY <2>1, <2>2, <2>3 DEF SetUpTo, ValueIn
\* The lists.
<1>4. ASSUME NEW j \in 1 .. 7, cv[j][2] = "array", cv[j][1] \in DOMAIN values
      PROVE  LET b == values[cv[j][1]].value
                 a == conf[cv[j][3]]
                 c == r.conf[cv[j][3]]
             IN  /\ StringsFit(b) /\ StringsFit(c) /\ UniqueKeys(c) /\ ComesFrom(c, a, b)
                 /\ \A v : IsSeq(v) /\ Covers(a, v) => Covers(c, v)
                 /\ \A du \in ToSet(b) : Covers(c, du.value)
  <2>1. PICK a, b, c, du : /\ du = values[cv[j][1]] /\ b = du.value
                           /\ a = conf[cv[j][3]] /\ c = r.conf[cv[j][3]]
    OBVIOUS
  <2>2. du.type = "array" /\ Strings(b) = b /\ c = InsertAll(a, b)
    BY <1>1, <1>4, <2>1 DEF Done
  <2>3. ListFits(b)
    BY <1>2, <1>4, <2>1, <2>2 DEF ValueFits, DataFits
  <2>4. StringsFit(b)
    BY <2>2, <2>3, StringsFacts
  <2>5. StringsFit(a) /\ UniqueKeys(a)
    BY <1>4, <2>1 DEF Lists
  <2>6. /\ StringsFit(c) /\ UniqueKeys(c) /\ ComesFrom(c, a, b)
        /\ \A v : IsSeq(v) /\ Covers(a, v) => Covers(c, v)
        /\ \A d \in ToSet(b) : Covers(c, d.value)
    BY ONLY <2>2, <2>4, <2>5, InsertAllFacts
  <2> QED
    BY <2>1, <2>4, <2>6
<1>5. ASSUME NEW j \in 1 .. 7, cv[j][1] \notin DOMAIN values PROVE r.conf[cv[j][3]] = conf[cv[j][3]]
  BY <1>1, <1>5 DEF Done
<1>6. ASSUME NEW j \in 1 .. 7 PROVE Option(x, n, r.conf, used2, j)
  <2> DEFINE key == cv[j][1]
             to == conf[cv[j][3]]
             to2 == r.conf[cv[j][3]]
             S == SetUpTo(x, n - 1, key)
             S2 == SetUpTo(x, n, key)
  <2>1. /\ S # {} => key \in used
        /\ IF cv[j][2] = "string"
           THEN (S = {} /\ to = <<>>) \/ \E i \in S : to = ValueIn(x, i, key) /\ \A k \in S : k <= i
           ELSE \A i \in S : /\ StringsFit(ValueIn(x, i, key))
                             /\ \A e \in ToSet(ValueIn(x, i, key)) : Covers(to, e.value)
    BY DEF Options, Option
  <2>2. Option(x, n, r.conf, used2, j) <=>
          /\ S2 # {} => key \in used2
          /\ IF cv[j][2] = "string"
             THEN (S2 = {} /\ to2 = <<>>) \/ \E i \in S2 : to2 = ValueIn(x, i, key) /\ \A k \in S2 : k <= i
             ELSE \A i \in S2 : /\ StringsFit(ValueIn(x, i, key))
                                /\ \A e \in ToSet(ValueIn(x, i, key)) : Covers(to2, e.value)
    BY DEF Option
  <2>3. /\ key \in DOMAIN values => S2 = S \cup {n} /\ ValueIn(x, n, key) = values[key].value
        /\ key \notin DOMAIN values => S2 = S
        /\ \A i \in S : i <= n
    BY <1>3
  <2>4. key \in DOMAIN values => key \in used2
    BY OptionTable DEF KeysUsed
  <2> HIDE DEF S, S2
  <2>5. CASE key \notin DOMAIN values
    <3>1. to2 = to /\ S2 = S
      BY <1>5, <2>3, <2>5
    <3> QED
      BY <2>1, <2>2, <3>1
  <2>6. CASE key \in DOMAIN values /\ cv[j][2] = "string"
    <3>1. to2 = ValueIn(x, n, key) /\ n \in S2 /\ \A k \in S2 : k <= n
      <4>1. to2 = values[key].value
        BY <1>1, <2>6 DEF Done
      <4>2. n <= n
        BY <1>0
      <4> HIDE DEF key, to, to2
      <4> QED
        BY <2>3, <2>6, <4>1, <4>2
    <3> HIDE DEF key, to, to2
    <3> QED
      BY <2>2, <2>4, <2>6, <3>1
  <2>7. CASE key \in DOMAIN values /\ cv[j][2] # "string"
    <3>1. cv[j][2] = "array"
      BY <2>7, OptionTable
    <3>2. PICK b : b = values[key].value
      OBVIOUS
    <3>3. /\ StringsFit(b)
          /\ \A v : IsSeq(v) /\ Covers(to, v) => Covers(to2, v)
          /\ \A du \in ToSet(b) : Covers(to2, du.value)
      BY <1>4, <2>7, <3>1, <3>2
    <3> HIDE DEF key, to, to2
    <3>4. ASSUME NEW i \in S2
          PROVE  /\ StringsFit(ValueIn(x, i, key))
                 /\ \A e \in ToSet(ValueIn(x, i, key)) : Covers(to2, e.value)
      <4>1. CASE i \in S
        <5>1. /\ StringsFit(ValueIn(x, i, key))
              /\ \A e \in ToSet(ValueIn(x, i, key)) : Covers(to, e.value)
          BY <2>1, <2>7, <4>1
        <5>2. \A e \in ToSet(ValueIn(x, i, key)) : IsSeq(e.value)
          BY <5>1 DEF StringsFit, StringFits, ToSet
        <5> QED
          BY <3>3, <5>1, <5>2
      <4>2. CASE i = n
        BY <2>3, <2>7, <3>2, <3>3, <4>2
      <4> QED
        BY <2>3, <2>7, <4>1, <4>2
    <3> QED
      BY <2>2, <2>4, <2>7, <3>4
  <2> QED
    BY <2>5, <2>6, <2>7
<1>7. Lists(r.conf)
  BY <1>4, <1>5 DEF Lists
<1>8. Named(x, n, r.conf.modules)
  <2> DEFINE key == Server(<<"modules">>)
  <2>1. 4 \in 1 .. 7 /\ cv[4][1] = key /\ cv[4][2] = "array" /\ cv[4][3] = "modules"
    BY OptionTable
  <2> HIDE DEF key
  <2>2. PICK a, c : a = conf.modules /\ c = r.conf.modules
    OBVIOUS
  <2>3. a = conf[cv[4][3]] /\ c = r.conf[cv[4][3]]
    BY <2>1, <2>2
  <2>4. ASSUME NEW k \in DOMAIN a
        PROVE  \/ Joined(a[k].value)
               \/ \E i \in SetUpTo(x, n, key) : \E e \in ToSet(ValueIn(x, i, key)) : e.value = a[k].value
    <3>1. \/ Joined(a[k].value)
          \/ \E i \in SetUpTo(x, n - 1, key) : \E e \in ToSet(ValueIn(x, i, key)) : e.value = a[k].value
      BY <2>2 DEF Named, key
    <3>2. SetUpTo(x, n - 1, key) \subseteq SetUpTo(x, n, key)
      BY <1>3
    <3> QED
      BY <3>1, <3>2
  <2>5. ASSUME NEW k \in DOMAIN c
        PROVE  \/ Joined(c[k].value)
               \/ \E i \in SetUpTo(x, n, key) : \E e \in ToSet(ValueIn(x, i, key)) : e.value = c[k].value
    <3>1. CASE key \notin DOMAIN values
      <4>1. c = a
        BY <1>5, <2>1, <2>3, <3>1
      <4> QED
        BY <2>4, <2>5, <4>1
    <3>2. CASE key \in DOMAIN values
      <4>1. PICK b : b = values[key].value
        OBVIOUS
      <4>2. ComesFrom(c, a, b)
        BY <1>4, <2>1, <2>3, <3>2, <4>1
      <4>3. SetUpTo(x, n, key) = SetUpTo(x, n - 1, key) \cup {n} /\ ValueIn(x, n, key) = b
        BY <1>3, <3>2, <4>1
      <4>4. ASSUME NEW l \in DOMAIN a, a[l].value = c[k].value
            PROVE  \/ Joined(c[k].value)
                   \/ \E i \in SetUpTo(x, n, key) : \E e \in ToSet(ValueIn(x, i, key)) : e.value = c[k].value
        BY <2>4, <4>4
      <4>5. ASSUME NEW l \in DOMAIN b, b[l].value = c[k].value
            PROVE  \E i \in SetUpTo(x, n, key) : \E e \in ToSet(ValueIn(x, i, key)) : e.value = c[k].value
        <5>1. b[l] \in ToSet(ValueIn(x, n, key)) /\ n \in SetUpTo(x, n, key)
          BY <4>3 DEF ToSet
        <5> QED
          BY <4>5, <5>1
      <4> QED
        BY <2>5, <4>2, <4>4, <4>5 DEF ComesFrom
    <3> QED
      BY <3>1, <3>2
  <2> QED
    BY <2>2, <2>5 DEF Named, key
<1> QED
  BY <1>1, <1>6, <1>7, <1>8 DEF Options

-----------------------------------------------------------------------------
(***************************************************************************)
(* The options after the modules were completed, and with the defaults.    *)
(***************************************************************************)
ModulesKey == Server(<<"modules">>)

\* The contexts 1 .. n name neither of the modules whose order counts.
Unnamed(x, n) ==
  \A i \in SetUpTo(x, n, ModulesKey) : \A e \in ToSet(ValueIn(x, i, ModulesKey)) : e.value \notin {Index, Static}

Complete(x, n, a) ==
  /\ Loads(a, Index) /\ Loads(a, Listing) /\ Loads(a, Static)
  /\ Loads(a, Auth) => Loads(a, AuthnFile)
  /\ Unnamed(x, n) => PlaceIn(a, Index) < PlaceIn(a, Static)

Replaced(conf, m, b, conf2) == conf2 = [conf EXCEPT ![m] = b]

\* One option gets another value, which covers what the old one does.
LEMMA OneOptionSet ==
  ASSUME NEW x, NEW n, NEW conf, NEW used, Options(x, n, conf, used),
         NEW j \in 1 .. 7, NEW m, cv[j][2] = "array", cv[j][3] = m,
         NEW b, ToSet(conf[m]) \subseteq ToSet(b), NEW conf2, Replaced(conf, m, b, conf2)
  PROVE  /\ Options(x, n, conf2, used) /\ conf2[m] = b
         /\ \A i \in 1 .. 7 \ {j} : conf2[cv[i][3]] = conf[cv[i][3]]
<1>1. DOMAIN conf = Targets /\ m \in Targets /\ \A i \in 1 .. 7 \ {j} : cv[i][3] # m /\ cv[i][3] \in Targets
  BY OptionTable DEF Options
<1>2. /\ DOMAIN conf2 = Targets /\ conf2[m] = b
      /\ \A i \in 1 .. 7 \ {j} : conf2[cv[i][3]] = conf[cv[i][3]]
  BY <1>1 DEF Replaced
<1>3. ASSUME NEW i \in 1 .. 7 PROVE Option(x, n, conf2, used, i)
  <2>1. Option(x, n, conf, used, i)
    BY DEF Options
  <2>2. CASE i # j
    <3>1. conf2[cv[i][3]] = conf[cv[i][3]]
      BY <1>2, <2>2
    <3> QED
      BY <2>1, <3>1 DEF Option
  <2>3. CASE i = j
    <3>1. \A v : Covers(conf[m], v) => Covers(conf2[m], v)
      BY <1>2 DEF Covers
    <3>2. cv[j][2] # "string"
      OBVIOUS
    <3> QED
      BY <2>1, <2>3, <3>1, <3>2 DEF Option
  <2> QED
    BY <2>2, <2>3
<1> QED
  BY <1>2, <1>3 DEF Options

LEMMA ModulesOptions ==
  ASSUME NEW x, NEW n, NEW conf, NEW used, Options(x, n, conf, used), Lists(conf), Named(x, n, conf.modules),
         NEW conf2, conf2 = [conf EXCEPT !.modules = Completed(@)]
  PROVE  /\ Options(x, n, conf2, used) /\ Complete(x, n, conf2.modules)
         /\ IsSeq(conf2.upload_tempdirs)
<1>1. /\ 4 \in 1 .. 7 /\ cv[4][2] = "array" /\ cv[4][3] = "modules"
      /\ 7 \in 1 .. 7 \ {4} /\ cv[7][2] = "array" /\ cv[7][3] = "upload_tempdirs"
  BY OptionTable
<1>2. PICK a, r : a = conf.modules /\ r = Completed(a)
  OBVIOUS
<1>3. IsSeq(a) /\ UniqueKeys(a)
  BY <1>1, <1>2 DEF Lists, StringsFit
<1>4. /\ IsSeq(r) /\ ToSet(a) \subseteq ToSet(r)
      /\ Loads(r, Index) /\ Loads(r, Listing) /\ Loads(r, Static)
      /\ Loads(r, Auth) => Loads(r, AuthnFile)
      /\ ~Loads(a, Index) => PlaceIn(r, Index) < PlaceIn(r, Static)
  BY <1>2, <1>3, CompletedFacts
<1>5. conf2 = [conf EXCEPT !["modules"] = r]
  BY <1>2
<1>6. /\ Options(x, n, conf2, used) /\ conf2["modules"] = r
      /\ \A i \in 1 .. 7 \ {4} : conf2[cv[i][3]] = conf[cv[i][3]]
  <2>1. PICK j, m : j = 4 /\ m = "modules"
    OBVIOUS
  <2>2. /\ j \in 1 .. 7 /\ cv[j][2] = "array" /\ cv[j][3] = m
        /\ ToSet(conf[m]) \subseteq ToSet(r) /\ Replaced(conf, m, r, conf2)
    BY <1>1, <1>2, <1>4, <1>5, <2>1 DEF Replaced
  <2>3. /\ Options(x, n, conf2, used) /\ conf2[m] = r
        /\ \A i \in 1 .. 7 \ {j} : conf2[cv[i][3]] = conf[cv[i][3]]
    BY ONLY <2>2, Options(x, n, conf, used), OneOptionSet
  <2> QED
    BY <2>1, <2>3
<1>7. IsSeq(conf2.upload_tempdirs)
  <2>1. conf2[cv[7][3]] = conf[cv[7][3]]
    BY <1>1, <1>6
  <2>2. IsSeq(conf[cv[7][3]])
    BY <1>1 DEF Lists, StringsFit
  <2> QED
    BY <1>1, <2>1, <2>2
<1>8. ASSUME Unnamed(x, n) PROVE ~Loads(a, Index)
  <2>1. SUFFICES ASSUME NEW k \in DOMAIN a, a[k].value = Index PROVE FALSE
    BY DEF Loads
  <2>2. \E i \in SetUpTo(x, n, ModulesKey) : \E e \in ToSet(ValueIn(x, i, ModulesKey)) : e.value = Index
    BY <1>2, <2>1, ModuleNames DEF Named, ModulesKey
  <2> QED
    BY <1>8, <2>2 DEF Unnamed
<1> QED
  BY <1>4, <1>6, <1>7, <1>8 DEF Complete

LEMMA ChrootOptions ==
  ASSUME NEW x, NEW n, NEW conf, NEW used, Options(x, n, conf, used), Complete(x, n, conf.modules),
         IsSeq(conf.upload_tempdirs), NEW e,
         NEW conf2, conf2 = IF conf.upload_tempdirs # <<>> THEN conf
                            ELSE [conf EXCEPT !.upload_tempdirs = <<e>>]
  PROVE  /\ Options(x, n, conf2, used) /\ Complete(x, n, conf2.modules)
         /\ IsSeq(conf2.upload_tempdirs)
<1>1. CASE conf.upload_tempdirs # <<>>
  BY <1>1
<1>2. CASE conf.upload_tempdirs = <<>>
  <2>1. /\ 7 \in 1 .. 7 /\ cv[7][2] = "array" /\ cv[7][3] = "upload_tempdirs"
        /\ 4 \in 1 .. 7 \ {7} /\ cv[4][3] = "modules"
    BY OptionTable
  <2>2. PICK b : b = <<e>>
    OBVIOUS
  <2>3. IsSeq(b)
    BY <2>2, ShortSeqs
  <2>4. ToSet(<<>>) = {}
    <3>1. DOMAIN <<>> = {}
      OBVIOUS
    <3> QED
      BY <3>1 DEF ToSet
  <2>5. conf2 = [conf EXCEPT !["upload_tempdirs"] = b]
    BY <1>2, <2>2
  <2>p. PICK j, m : j = 7 /\ m = "upload_tempdirs"
    OBVIOUS
  <2>6. /\ j \in 1 .. 7 /\ cv[j][2] = "array" /\ cv[j][3] = m
        /\ ToSet(conf[m]) \subseteq ToSet(b) /\ Replaced(conf, m, b, conf2)
    BY <1>2, <2>1, <2>4, <2>5, <2>p DEF Replaced
  <2>7. /\ Options(x, n, conf2, used) /\ conf2[m] = b
        /\ \A i \in 1 .. 7 \ {j} : conf2[cv[i][3]] = conf[cv[i][3]]
    BY ONLY <2>6, Options(x, n, conf, used), OneOptionSet
  <2>8. conf2.modules = conf.modules /\ conf2.upload_tempdirs = b
    BY <2>1, <2>7, <2>p
  <2> QED
    BY <2>3, <2>7, <2>8
<1> QED
  BY <1>1, <1>2

\* The directories 1 .. n for uploads are there.
DirsThere(conf, n) ==
  \A i \in DOMAIN conf.upload_tempdirs :
    i <= n => Under(conf.changeroot, conf.upload_tempdirs[i].value) \in Directories

-----------------------------------------------------------------------------
(***************************************************************************)
(* The invariant of config_read.                                           *)
(***************************************************************************)
OptionsInv ==
  /\ rd \in {"open", "fstat", "map", "parse"} =>
       /\ next = 1 /\ storage = 0 /\ retval = "none"
       /\ DOMAIN srvconf = Targets /\ \A m \in Targets : srvconf[m] = <<>>
  /\ rd = "insert" =>
       /\ next \in Nat \ {0} /\ storage = next - 1 /\ retval = "none"
       /\ Options(ctx, next - 1, srvconf, touched) /\ Lists(srvconf) /\ Named(ctx, next - 1, srvconf.modules)
  /\ rd \in {"engine", "modules"} /\ retval = "none" =>
       /\ next = 1 /\ storage = Len(ctx.all_configs)
       /\ Options(ctx, storage, srvconf, touched) /\ Lists(srvconf) /\ Named(ctx, storage, srvconf.modules)
  /\ Accepted =>
       /\ next \in Nat \ {0} /\ storage = Len(ctx.all_configs)
       /\ Options(ctx, storage, srvconf, touched) /\ Complete(ctx, storage, srvconf.modules)
       /\ IsSeq(srvconf.upload_tempdirs)
       /\ rd = "chroot" => next = 1
       /\ rd = "tempdirs" => DirsThere(srvconf, next - 1)
       /\ rd = "document_root" => DirsThere(srvconf, Len(srvconf.upload_tempdirs))

\* Before the first context.
LEMMA NoOptions ==
  ASSUME NEW x, NEW conf, DOMAIN conf = Targets, \A m \in Targets : conf[m] = <<>>, NEW used
  PROVE  Options(x, 0, conf, used) /\ Lists(conf) /\ Named(x, 0, conf.modules)
<1>0. IsSeq(<<>>)
  BY ShortSeqs
<1>1. DOMAIN <<>> = {} /\ IsSeq(<<>>)
  BY <1>0
<1>2. \A key : SetUpTo(x, 0, key) = {}
  BY DEF SetUpTo
<1>3. \A j \in 1 .. 7 : conf[cv[j][3]] = <<>>
  BY OptionTable
<1>4. Options(x, 0, conf, used)
  BY <1>2, <1>3 DEF Options, Option
<1>5. StringsFit(<<>>) /\ UniqueKeys(<<>>)
  BY <1>1 DEF StringsFit, UniqueKeys
<1>6. Lists(conf)
  BY <1>3, <1>5 DEF Lists
<1>7. conf.modules = <<>>
  <2>1. 4 \in 1 .. 7 /\ cv[4][3] = "modules"
    BY OptionTable
  <2>2. conf["modules"] = <<>>
    BY <1>3, <2>1
  <2> QED
    BY <2>2
<1> QED
  BY <1>1, <1>4, <1>6, <1>7 DEF Named

LEMMA InsertStep ==
  ASSUME DataInv, OptionsInv, InsertContext
  PROVE  OptionsInv'
<1>1. PICK values, r :
        values = ContentOf(ctx, next) /\ r = Values(values, srvconf)
  OBVIOUS
<1>2. /\ rd = "insert" /\ next <= Len(ctx.all_configs) /\ storage' = storage + 1
      /\ touched' = touched \cup KeysUsed(values)
      /\ srvconf' = r.conf /\ ctx' = ctx
      /\ \/ rd' = "ended"
         \/ r.ret = "0" /\ retval' = "none" /\ MoreContexts /\ next' = next + 1 /\ rd' = "insert"
         \/ r.ret = "0" /\ retval' = "none" /\ ~MoreContexts /\ next' = 1 /\ rd' = "engine"
         \/ retval' = "-1" /\ rd' = "engine"
  BY <1>1 DEF InsertContext, Returned, ContentOf, KeysUsed, vars, parserVars
<1>3. /\ next \in Nat \ {0} /\ storage = next - 1
      /\ Options(ctx, next - 1, srvconf, touched) /\ Lists(srvconf) /\ Named(ctx, next - 1, srvconf.modules)
  BY <1>2 DEF OptionsInv
<1>4. Len(ctx.all_configs) \in Nat /\ DOMAIN ctx.all_configs = 1 .. Len(ctx.all_configs)
  BY SeqFacts DEF DataInv, ListsFit
<1>5. r.ret = "0" => /\ Options(ctx, next, srvconf', touched') /\ Lists(srvconf')
                     /\ Named(ctx, next, srvconf'.modules)
  <2>1. next \in DOMAIN ctx.all_configs
    BY <1>2, <1>3, <1>4
  <2>2. ListsFit(ctx) /\ VariablesFit(ctx.dcs)
    BY DEF DataInv
  <2>3. PICK n, x, used : n = next /\ x = ctx /\ used = touched'
    OBVIOUS
  <2>4. ASSUME r.ret = "0"
        PROVE  Options(x, n, r.conf, used) /\ Lists(r.conf) /\ Named(x, n, r.conf.modules)
    <3>1. /\ ListsFit(x) /\ VariablesFit(x.dcs) /\ n \in DOMAIN x.all_configs
          /\ Options(x, n - 1, srvconf, touched) /\ Lists(srvconf) /\ Named(x, n - 1, srvconf.modules)
          /\ values = ContentOf(x, n)
          /\ used = touched \cup KeysUsed(values)
      BY <1>1, <1>2, <1>3, <2>1, <2>2, <2>3
    <3> QED
      BY <1>1, <2>4, <3>1, InsertOptions
  <2> QED
    BY <1>2, <2>3, <2>4
<1>6. CASE rd' = "ended"
  BY <1>6 DEF OptionsInv, Accepted
<1>7. CASE r.ret = "0" /\ retval' = "none" /\ MoreContexts /\ next' = next + 1 /\ rd' = "insert"
  <2>1. next' - 1 = next /\ storage' = next' - 1 /\ next' \in Nat \ {0}
    BY <1>2, <1>3, <1>7
  <2> QED
    BY <1>2, <1>5, <1>7, <2>1 DEF OptionsInv, Accepted
<1>8. CASE r.ret = "0" /\ retval' = "none" /\ ~MoreContexts /\ next' = 1 /\ rd' = "engine"
  <2>1. storage' = next /\ next = Len(ctx.all_configs)
    BY <1>2, <1>3, <1>4, <1>8 DEF MoreContexts
  <2> QED
    BY <1>2, <1>5, <1>8, <2>1 DEF OptionsInv, Accepted
<1>9. CASE retval' = "-1" /\ rd' = "engine"
  BY <1>9 DEF OptionsInv, Accepted
<1> QED
  BY <1>2, <1>6, <1>7, <1>8, <1>9

LEMMA DefaultsStep ==
  ASSUME OptionsInv, Chroot \/ CheckTempdir \/ DocumentRoot
  PROVE  OptionsInv'
<1>0. /\ next \in Nat \ {0} /\ storage = Len(ctx.all_configs)
      /\ Options(ctx, storage, srvconf, touched) /\ Complete(ctx, storage, srvconf.modules)
      /\ IsSeq(srvconf.upload_tempdirs)
      /\ rd = "chroot" => next = 1
      /\ rd = "tempdirs" => DirsThere(srvconf, next - 1)
  BY DEF OptionsInv, Accepted, Chroot, CheckTempdir, DocumentRoot
<1>1. /\ Len(srvconf.upload_tempdirs) \in Nat
      /\ DOMAIN srvconf.upload_tempdirs = 1 .. Len(srvconf.upload_tempdirs)
  BY <1>0, SeqFacts
<1>2. ctx' = ctx /\ storage' = storage /\ touched' = touched
  BY DEF Chroot, CheckTempdir, DocumentRoot, vars, parserVars
<1>3. CASE rd' = "ended"
  BY <1>3 DEF OptionsInv, Accepted
<1>4. CASE Chroot /\ rd' = "tempdirs"
  <2>1. /\ next' = next /\ rd = "chroot"
        /\ srvconf' = IF srvconf.upload_tempdirs # <<>> THEN srvconf
                      ELSE [srvconf EXCEPT !.upload_tempdirs = <<StringData(TempDir)>>]
    BY <1>4 DEF Chroot, Returned, Goto
  <2>2. /\ Options(ctx, storage, srvconf', touched) /\ Complete(ctx, storage, srvconf'.modules)
        /\ IsSeq(srvconf'.upload_tempdirs)
    BY <1>0, <2>1, ChrootOptions
  <2>3. DirsThere(srvconf', 0)
    <3>1. \A i \in DOMAIN srvconf'.upload_tempdirs : i \in Nat \ {0}
      BY <2>2, SeqFacts
    <3>2. \A i \in DOMAIN srvconf'.upload_tempdirs : ~(i <= 0)
      BY <3>1
    <3> QED
      BY <3>2 DEF DirsThere
  <2>4. next' - 1 = 0 /\ next' \in Nat \ {0}
    BY <1>0, <2>1
  <2> QED
    BY <1>0, <1>2, <1>4, <2>2, <2>3, <2>4 DEF OptionsInv, Accepted
<1>5. CASE CheckTempdir /\ rd' = "tempdirs"
  <2>1. /\ rd = "tempdirs" /\ next <= Len(srvconf.upload_tempdirs) /\ Path(next) \in Directories
        /\ next' = next + 1 /\ srvconf' = srvconf
    BY <1>5 DEF CheckTempdir, Returned
  <2>2. DirsThere(srvconf, next)
    <3>1. ASSUME NEW i \in DOMAIN srvconf.upload_tempdirs, i <= next
          PROVE  Under(srvconf.changeroot, srvconf.upload_tempdirs[i].value) \in Directories
      <4>1. i <= next - 1 \/ i = next
        BY <1>0, <1>1, <3>1
      <4> QED
        BY <1>0, <2>1, <3>1, <4>1 DEF DirsThere, Path
    <3> QED
      BY <3>1 DEF DirsThere
  <2>3. next' - 1 = next /\ next' \in Nat \ {0}
    BY <1>0, <2>1
  <2> QED
    BY <1>0, <1>2, <1>5, <2>1, <2>2, <2>3 DEF OptionsInv, Accepted
<1>6. CASE DocumentRoot
  <2>1. /\ rd = "tempdirs" /\ next > Len(srvconf.upload_tempdirs) /\ rd' = "document_root"
        /\ next' = next /\ srvconf' = srvconf
    BY <1>6 DEF DocumentRoot
  <2>2. DirsThere(srvconf, Len(srvconf.upload_tempdirs))
    <3>1. \A i \in DOMAIN srvconf.upload_tempdirs : i <= next - 1
      BY <1>0, <1>1, <2>1
    <3> QED
      BY <1>0, <2>1, <3>1 DEF DirsThere
  <2> QED
    BY <1>0, <1>2, <2>1, <2>2 DEF OptionsInv, Accepted
<1>7. Chroot => rd' \in {"ended", "tempdirs"}
  BY DEF Chroot, Returned, Goto
<1>8. CheckTempdir => rd' \in {"ended", "tempdirs"}
  BY DEF CheckTempdir, Returned
<1> QED
  BY <1>3, <1>4, <1>5, <1>6, <1>7, <1>8

LEMMA OptionsNext ==
  ASSUME DataInv, OptionsInv, [ReadNext]_allVars
  PROVE  OptionsInv'
<1>1. CASE UNCHANGED <<ctx, rd, next, srvconf, touched, storage, retval>>
  BY <1>1 DEF OptionsInv, Accepted
<1>2. CASE rd' = "ended"
  BY <1>2 DEF OptionsInv, Accepted
<1>3. ASSUME rd \in {"open", "fstat", "map", "parse"}, rd' \in {"open", "fstat", "map", "parse"},
             UNCHANGED <<next, srvconf, storage, retval>>
      PROVE  OptionsInv'
  BY <1>3 DEF OptionsInv, Accepted
<1>4. CASE StreamOpen
  BY <1>2, <1>3, <1>4 DEF StreamOpen, Returned, Goto, OptionsKept
<1>5. CASE StreamSize
  BY <1>2, <1>3, <1>5 DEF StreamSize, Returned, Goto
<1>6. CASE StreamMap
  BY <1>2, <1>3, <1>6 DEF StreamMap, Returned, Goto, OptionsKept
<1>7. CASE Parsing
  BY <1>3, <1>7 DEF Parsing, readVars
<1>8. CASE StreamClose
  <2>1. /\ rd = "parse" /\ next' = next /\ srvconf' = srvconf /\ touched' = touched /\ storage' = storage
        /\ \/ rd' = "ended"
           \/ rd' = "insert" /\ retval' = retval
    BY <1>8 DEF StreamClose, Returned, Goto, OptionsKept
  <2>2. /\ next = 1 /\ storage = 0 /\ retval = "none"
        /\ DOMAIN srvconf = Targets /\ \A m \in Targets : srvconf[m] = <<>>
    BY <2>1 DEF OptionsInv
  <2>3. Options(ctx', 0, srvconf', touched') /\ Lists(srvconf') /\ Named(ctx', 0, srvconf'.modules)
    BY <2>1, <2>2, NoOptions
  <2>4. next' \in Nat \ {0} /\ next' - 1 = 0 /\ storage' = 0
    BY <2>1, <2>2
  <2> QED
    BY <1>2, <2>1, <2>2, <2>3, <2>4 DEF OptionsInv, Accepted
<1>9. CASE InsertContext
  BY <1>9, InsertStep
<1>10. CASE Engine
  <2>1. /\ rd = "engine" /\ UNCHANGED <<ctx, next, srvconf, touched, storage>>
        /\ \/ rd' = "ended"
           \/ rd' = "modules" /\ retval' = retval
    BY <1>10 DEF Engine, Returned, Goto, vars, parserVars
  <2> QED
    BY <1>2, <2>1 DEF OptionsInv, Accepted
<1>11. CASE Modules
  <2>1. /\ rd = "modules" /\ UNCHANGED <<ctx, next, touched, storage>>
        /\ srvconf' = [srvconf EXCEPT !.modules = Completed(@)]
        /\ \/ rd' = "ended"
           \/ rd' = "chroot" /\ retval = "none"
    BY <1>11 DEF Modules, Returned, Goto, vars, parserVars
  <2>2. ASSUME rd' = "chroot" /\ retval = "none" PROVE OptionsInv'
    <3>1. /\ next = 1 /\ storage = Len(ctx.all_configs)
          /\ Options(ctx, storage, srvconf, touched) /\ Lists(srvconf) /\ Named(ctx, storage, srvconf.modules)
      BY <2>1, <2>2 DEF OptionsInv
    <3>2. /\ Options(ctx, storage, srvconf', touched) /\ Complete(ctx, storage, srvconf'.modules)
          /\ IsSeq(srvconf'.upload_tempdirs)
      BY <2>1, <3>1, ModulesOptions
    <3>3. next' \in Nat \ {0} /\ next' = 1
      BY <2>1, <3>1
    <3> QED
      BY <2>1, <2>2, <3>1, <3>2, <3>3 DEF OptionsInv, Accepted
  <2> QED
    BY <1>2, <2>1, <2>2
<1>12. CASE Chroot \/ CheckTempdir \/ DocumentRoot
  BY <1>12, DefaultsStep
<1>14. CASE InsertFault
  BY <1>2, <1>14 DEF InsertFault, Returned
<1>13. CASE UNCHANGED allVars
  BY <1>1, <1>13 DEF allVars, readVars, vars, parserVars
<1> QED
  BY <1>4, <1>5, <1>6, <1>7, <1>8, <1>9, <1>10, <1>11, <1>12, <1>13, <1>14 DEF ReadNext

LEMMA InitOptions ==
  ASSUME ReadInit
  PROVE  OptionsInv
<1>1. rd = "open" /\ next = 1 /\ storage = 0 /\ retval = "none" /\ srvconf = [m \in Targets |-> <<>>]
  BY DEF ReadInit, Targets
<1> QED
  BY <1>1 DEF OptionsInv, Accepted

LEMMA OptionsInvariance == ReadSpec => [](DataInv /\ OptionsInv)
<1>1. ReadInit => OptionsInv
  BY InitOptions
<1>2. StackInv /\ TreeInv /\ DataInv /\ OptionsInv /\ [ReadNext]_allVars => OptionsInv'
  BY OptionsNext
<1> QED
  BY <1>1, <1>2, DataInvariance, PTL DEF ReadSpec

LEMMA SettingFacts ==
  ASSUME DataInv
  PROVE  /\ Len(ctx.all_configs) \in Nat
         /\ \A key : FoundIn(key) = SetUpTo(ctx, Len(ctx.all_configs), key)
         /\ \A key : ~Hidden(key) => Setting(key) = FoundIn(key)
         /\ \A i, key : ValueAt(i, key) = ValueIn(ctx, i, key)
<1>1. Len(ctx.all_configs) \in Nat /\ DOMAIN ctx.all_configs = 1 .. Len(ctx.all_configs)
  BY SeqFacts DEF DataInv, ListsFit
<1>2. ASSUME NEW key, ~Hidden(key) PROVE Setting(key) = FoundIn(key)
  <2>1. ASSUME NEW i \in DOMAIN ctx.all_configs
        PROVE  (\E x \in Elements(ctx.dcs[ctx.all_configs[i]]) : x.key = key)
                 <=> key \in DOMAIN ctx.dcs[ctx.all_configs[i]].value
    <3>1. PICK dc : dc = ctx.dcs[ctx.all_configs[i]]
      OBVIOUS
    <3>2. ElementsFit(dc)
      BY <3>1 DEF DataInv, ListsFit, VariablesFit, ToSet
    <3>3. \A x \in dc.lost : x.key # key
      BY <1>2, <3>1 DEF Hidden
    <3>4. (\E x \in Elements(dc) : x.key = key) <=> key \in DOMAIN dc.value
      BY <3>2, <3>3 DEF Elements, ElementsFit
    <3> QED
      BY <3>1, <3>4
  <2> QED
    BY <2>1 DEF Setting, FoundIn
<1> QED
  BY <1>1, <1>2 DEF FoundIn, SetUpTo, SetBy, ValueAt, ValueIn, ContentOf

\* A server goes on with what the file says: config_insert has made an entry of
\* config_storage for every context and has used every option that stands in one, unless
\* the index of a context does not lead to it any more (marray.c:191-212); a string
\* has the value of the last context that sets it, a list has the elements of all of them;
\* and config_set_defaults has found every directory for uploads below the root to be.
THEOREM OptionsCorrect == ReadSpec => []OptionsTaken
<1>1. DataInv /\ OptionsInv => OptionsTaken
  <2> SUFFICES ASSUME DataInv, OptionsInv PROVE OptionsTaken
    OBVIOUS
  <2>1. Accepted => storage = Len(ctx.all_configs) /\ Options(ctx, storage, srvconf, touched)
    BY DEF OptionsInv
  <2>2. ASSUME rd = "document_root", NEW du \in ToSet(srvconf.upload_tempdirs)
        PROVE  Under(srvconf.changeroot, du.value) \in Directories
    <3>1. IsSeq(srvconf.upload_tempdirs) /\ DirsThere(srvconf, Len(srvconf.upload_tempdirs))
      BY <2>2 DEF OptionsInv, Accepted
    <3>2. /\ Len(srvconf.upload_tempdirs) \in Nat
          /\ DOMAIN srvconf.upload_tempdirs = 1 .. Len(srvconf.upload_tempdirs)
      BY <3>1, SeqFacts
    <3>3. PICK i \in DOMAIN srvconf.upload_tempdirs : du = srvconf.upload_tempdirs[i]
      BY <2>2 DEF ToSet
    <3>4. i <= Len(srvconf.upload_tempdirs)
      BY <3>2
    <3> QED
      BY <3>1, <3>3, <3>4 DEF DirsThere
  <2>3. ASSUME Accepted, NEW j \in DOMAIN cv, ~Hidden(cv[j][1])
        PROVE  LET key == cv[j][1]
                   to  == srvconf[cv[j][3]]
               IN  /\ Setting(key) # {} => key \in touched
                   /\ IF cv[j][2] = "string"
                      THEN \/ Setting(key) = {} /\ to = <<>>
                           \/ \E i \in Setting(key) : to = ValueAt(i, key) /\ \A k \in Setting(key) : k <= i
                      ELSE \A i \in Setting(key) : \A e \in ToSet(ValueAt(i, key)) :
                             \E du \in ToSet(to) : Within(e.value, du.value)
    <3>1. j \in 1 .. 7
      BY <2>3, OptionTable
    <3>2. Option(ctx, Len(ctx.all_configs), srvconf, touched, j)
      BY <2>1, <2>3, <3>1 DEF Options
    <3>3. /\ Setting(cv[j][1]) = SetUpTo(ctx, Len(ctx.all_configs), cv[j][1])
          /\ \A i : ValueAt(i, cv[j][1]) = ValueIn(ctx, i, cv[j][1])
      BY <2>3, SettingFacts
    <3> QED
      BY <3>2, <3>3 DEF Option, Covers
  <2> QED
    BY <2>1, <2>2, <2>3 DEF OptionsTaken
<1> QED
  BY <1>1, OptionsInvariance, PTL

\* The modules every server needs are in the list that config_insert completes, and unless
\* the file names one of the two, mod_indexfile stands before mod_staticfile.
THEOREM ModulesCompleteCorrect == ReadSpec => []ModulesComplete
<1>1. DataInv /\ OptionsInv => ModulesComplete
  <2> SUFFICES ASSUME DataInv, OptionsInv, Accepted PROVE ModulesComplete
    BY Zenon DEF ModulesComplete
  <2>1. storage = Len(ctx.all_configs) /\ Complete(ctx, storage, srvconf.modules)
    BY DEF OptionsInv
  <2> DEFINE named == UNION {ToSet(ValueAt(i, ModulesKey)) : i \in FoundIn(ModulesKey)}
  <2>2. {du.value : du \in named} \cap {Index, Static} = {} => Unnamed(ctx, storage)
    <3>1. /\ FoundIn(ModulesKey) = SetUpTo(ctx, storage, ModulesKey)
          /\ \A i : ValueAt(i, ModulesKey) = ValueIn(ctx, i, ModulesKey)
      BY <2>1, SettingFacts
    <3>2. ASSUME NEW i \in SetUpTo(ctx, storage, ModulesKey), NEW e \in ToSet(ValueIn(ctx, i, ModulesKey))
          PROVE  e \in named
      BY <3>1, <3>2
    <3> HIDE DEF named
    <3> QED
      BY <3>2 DEF Unnamed
  <2>3. \A m : Place(m) = PlaceIn(srvconf.modules, m)
    BY DEF Place, PlaceIn
  <2> HIDE DEF named
  <2>4. /\ Loads(srvconf.modules, Index) /\ Loads(srvconf.modules, Listing) /\ Loads(srvconf.modules, Static)
        /\ Loads(srvconf.modules, Auth) => Loads(srvconf.modules, AuthnFile)
        /\ {du.value : du \in named} \cap {Index, Static} = {} => Place(Index) < Place(Static)
    BY <2>1, <2>2, <2>3 DEF Complete
  <2> QED
    BY <2>4, Zenon DEF ModulesComplete, named, ModulesKey, Index, Listing, Static, Auth, AuthnFile
<1> QED
  BY <1>1, OptionsInvariance, PTL

=============================================================================
