---------------------------- MODULE ConfigContext ----------------------------
(***************************************************************************)
(* What the actions of configparser.y work on: config_t, the contexts of   *)
(* the configuration, and the values of its variables.                     *)
(*                                                                         *)
(* A text is a sequence of pieces, the runs of letters, of digits or of    *)
(* one other character it is made of, so that "env.HOME" is                *)
(* <<"env", ".", "HOME">>; a letter stands for both its cases, which no    *)
(* comparison of keys tells apart.  A value is a record of its type, its   *)
(* key (<<>> for none, and for one that only counts the elements of an     *)
(* array) and its content.                                                 *)
(*                                                                         *)
(* array_extract_element of marray.c works with positions that are never   *)
(* set.  Where that does not end the program, the index of the array may   *)
(* lead to some elements no more: they are lost, until the index happens   *)
(* to be mended.  The variables of a context are those that are found, as  *)
(* a function of their names, and the set of those that are lost; of       *)
(* all_configs it is the sequence of its data[], where the last element    *)
(* comes into the hole, and the set of the contexts that are lost.         *)
(*                                                                         *)
(* A context is its place in dcs, which only grows; the first is "global". *)
(* The key of a context is the path of conditions that leads to it; what   *)
(* is compared is its text, in which two paths may be the same.  The       *)
(* vector children of a context is left out: it is the inverse of parent,  *)
(* and nothing but the printing reads it.                                  *)
(***************************************************************************)
EXTENDS Integers, Sequences, SequencesExt, FiniteSets, TLC

CONSTANTS
  Env,      \* the environment: [names -> texts]
  NumberOf, \* what strtol makes of a piece of digits: [pieces -> Int]
  Pid,      \* the process
  Cwds,     \* the working directories it may have; <<>> if getcwd fails
  MaxLost   \* bound of the model: how many elements of an array are lost at a time

ASSUME EnvAssumption == \A n \in DOMAIN Env : Env[n] \in Seq(STRING)
ASSUME CwdsAssumption == Cwds \subseteq Seq(STRING)

NONE == 0          \* no context
Global == 1        \* the context "global"

Data(t, k, v) == [type |-> t, key |-> k, value |-> v]
StringData(s)  == Data("string", <<>>, s)
IntegerData(n) == Data("integer", <<>>, n)
ArrayData(a)   == Data("array", <<>>, a)
Buffer(s)      == Data("buffer", <<>>, s)
NULL           == Data("null", <<>>, <<>>)
IsNull(du)     == du.type = "null"

Context(key, cond, string) ==
  [key |-> key, cond |-> cond, string |-> string, context_ndx |-> 0,
   parent |-> NONE, prev |-> NONE, next |-> NONE, value |-> << >>, lost |-> {}]

\* What is found under the keys of some elements, and all elements of an array.
Indexed(S) == [n \in {x.key : x \in S} |-> CHOOSE x \in S : x.key = n]
Elements(dc) == {dc.value[n] : n \in DOMAIN dc.value} \cup dc.lost

\* config_t after config_read made the global context.  That straight is TRUE
\* means that so far the index of all_configs was always in order, and every
\* condition that was entered again had the path it was looked up with.
FirstContext(cwd) ==
  LET pid  == Data("integer", <<"var", ".", "PID">>, Pid)
      vars == {pid} \cup IF cwd = <<>> THEN {} ELSE {Data("string", <<"var", ".", "CWD">>, cwd)}
  IN  [ok |-> TRUE, current |-> Global, configs_stack |-> <<>>, all_configs |-> <<Global>>,
       lost |-> {}, straight |-> TRUE,
       dcs |-> <<[Context(<<>>, "unset", <<>>) EXCEPT !.value = Indexed(vars)]>>]

Failed(c) == [c EXCEPT !.ok = FALSE]

-----------------------------------------------------------------------------
(***************************************************************************)
(* Contexts.                                                               *)
(***************************************************************************)

\* The pieces of a text as one string.
Flat(t) ==
  LET upto[i \in 0 .. Len(t)] == IF i = 0 THEN "" ELSE upto[i - 1] \o t[i]
  IN  upto[Len(t)]

\* The key as it is in the code: the parts of the path, one behind the other.
KeyText(key) ==
  LET part(p) == "/" \o p.comp[1] \o Flat(p.comp[2]) \o p.op \o Flat(p.string)
      upto[i \in 0 .. Len(key)] == IF i = 0 THEN "global" ELSE upto[i - 1] \o part(key[i])
  IN  upto[Len(key)]

\* What array_get_element finds in all_configs: one context, or none.
Shown(c) == ToSet(c.all_configs) \ c.lost
Keyed(c, key) == {d \in Shown(c) : KeyText(c.dcs[d].key) = KeyText(key)}

\* Conditions inside global { } end the program.
InGlobal(c) == c.configs_stack # <<>> /\ c.dcs[c.current].context_ndx = 0

Entered(c, d) == [c EXCEPT !.configs_stack = Append(@, c.current), !.current = d]

\* What an index may lead to no more once it is wrong: such a part of S that of the
\* rest, with these keys, each is the only one that has its key.
Hides(S, KeyOf(_)) ==
  {l \in SUBSET S : Cardinality(l) <= MaxLost /\ \A x, y \in S \ l : KeyOf(x) = KeyOf(y) => x = y}

\* What becomes of all_configs when it changes: its index leads to all of it or,
\* where a position was never set, misses some.
Resorted(c, harm) ==
  LET lost == IF harm THEN Hides(ToSet(c.all_configs), LAMBDA d : KeyText(c.dcs[d].key)) ELSE {{}}
  IN  {[c EXCEPT !.lost = l, !.straight = @ /\ l = {}] : l \in lost}

\* configparser_push of a context that is new.
PushNew(c, dc) ==
  LET d == Len(c.dcs) + 1
      e == [c EXCEPT
              !.dcs = Append(@, [dc EXCEPT !.context_ndx = Len(c.all_configs), !.parent = c.current]),
              !.all_configs = Append(@, d)]
  IN  {Entered(f, d) : f \in Resorted(e, c.lost # {})}

\* configparser_pop.
Pop(c) == [c EXCEPT !.current = Last(c.configs_stack), !.configs_stack = Front(@)]

\* array_extract_element of all_configs.
Extracted(s, d) ==
  LET i == CHOOSE j \in DOMAIN s : s[j] = d
  IN  Front([s EXCEPT ![i] = Last(s)])

\* vector_realloc has no body: what a vector gets for memory is whatever the
\* register holds.  The stack grows with its first push, and with every 16th.
MustGrow(used) == used % 16 = 0

-----------------------------------------------------------------------------
(***************************************************************************)
(* Values.                                                                 *)
(***************************************************************************)

\* configparser_get_variable: a copy of the variable in the current context, or
\* else in the nearest one around it that has it, or NULL.
GetVariable(c, name) ==
  LET seen[d \in 0 .. Len(c.dcs)] ==
        IF d = NONE THEN NULL
        ELSE IF name \in DOMAIN c.dcs[d].value THEN c.dcs[d].value[name]
        ELSE seen[c.dcs[d].parent]
      dc == c.dcs[c.current]
  IN  IF name \in DOMAIN dc.value THEN dc.value[name] ELSE seen[dc.parent]

IsEnv(name) == Len(name) > 1 /\ name[1] = "env" /\ name[2] = "."

HasKey(a, key) == \E i \in DOMAIN a : a[i].key = key
Fits(a, du)    == du.key = <<>> \/ ~HasKey(a, du.key)

\* Faulty variant: the second value is what comes out.
Merge_Second(op1, op2) == IF op1.type = op2.type THEN [op1 EXCEPT !.value = op2.value] ELSE NULL

\* configparser_merge_data: the result has the key of op1, or it is NULL.
Merge(op1, op2) ==
  LET types == <<op1.type, op2.type>>
  IN  CASE types = <<"string", "string">>   -> [op1 EXCEPT !.value = @ \o op2.value]
        [] types = <<"string", "integer">>  -> [op1 EXCEPT !.value = @ \o <<ToString(op2.value)>>]
        [] types = <<"integer", "string">>  -> StringData(<<ToString(op1.value)>> \o op2.value)
        [] types = <<"integer", "integer">> -> [op1 EXCEPT !.value = @ + op2.value]
        [] types = <<"array", "array">> /\ \A i \in DOMAIN op2.value : Fits(op1.value, op2.value[i])
             -> [op1 EXCEPT !.value = @ \o op2.value]
        [] OTHER -> NULL

\* The elements of the current context are these now: its index leads to all of
\* them or, where a position was never set, misses some.
Reindexed(c, S, harm) ==
  {[c EXCEPT !.dcs[c.current].value = Indexed(S \ l), !.dcs[c.current].lost = l] :
     l \in IF harm THEN Hides(S, LAMBDA x : x.key) ELSE {{}}}

\* data_string_insert_dup: the text of src is put behind that of dst.  Values of
\* the other types stay as they are.
JoinedTo(dst, src) ==
  IF dst.type # "string" THEN dst
  ELSE [dst EXCEPT !.value = IF @ = <<>> THEN src.value ELSE @ \o <<"\r\n">> \o src.key \o <<": ">> \o src.value]

Has(s, piece) == piece \in ToSet(s)

\* What the current context has under the name, and its other elements.
Held(c, name) ==
  LET dc == c.dcs[c.current] IN IF name \in DOMAIN dc.value THEN {dc.value[name]} ELSE {}
Others(c, name) == Elements(c.dcs[c.current]) \ Held(c, name)
IndexLost(c) == c.dcs[c.current].lost # {}

\* The variable name of the current context gets the value du; the one it has is
\* taken out before.  With two elements more the index can come out wrong, and then
\* an element with that name which was lost may turn up, and is joined.
Put(c, name, du) ==
  LET new   == [du EXCEPT !.key = name]
      rest  == Others(c, name)
      moved == Held(c, name) # {} /\ Cardinality(rest) > 1
      twins == {x \in rest : x.key = name /\ x.type = du.type /\ moved}
  IN  Reindexed(c, rest \cup {new}, moved \/ IndexLost(c))
        \cup UNION {Reindexed(c, (rest \ {x}) \cup {JoinedTo(x, new)}, TRUE) : x \in twins}

\* The variable name is taken out of the current context.
Without(c, name) ==
  Reindexed(c, Others(c, name), IndexLost(c) \/ (Held(c, name) # {} /\ Others(c, name) # {}))

\* The name that array_find_or_insert gives to an element for want of a key: it
\* counts them, and no other name is a number.
NextNumber(c) ==
  LET elements == Elements(c.dcs[c.current])
      given    == {x \in elements : ~Has(x.key, ".")}
  IN  {<<ToString(Cardinality(given))>>} \ {x.key : x \in elements}

-----------------------------------------------------------------------------
(***************************************************************************)
(* Conditions.                                                             *)
(***************************************************************************)

\* What can be compared, as the name and the field in brackets.
RemoteIp == {<<"HTTP", <<"remoteip">>>>, <<"HTTP", <<"remote", "-", "ip">>>>}
HttpHost == {<<"HTTP", <<"host">>>>}
ServerSocket == {<<"SERVER", <<"socket">>>>}
OtherComps ==
  {<<"HTTP", f>> : f \in {<<"url">>, <<"referer">>, <<"useragent">>, <<"user", "-", "agent">>,
     <<"language">>, <<"cookie">>, <<"querystring">>, <<"query", "-", "string">>,
     <<"request", "-", "method">>, <<"scheme">>}}
Comps == RemoteIp \cup HttpHost \cup ServerSocket \cup OtherComps

Exact == {"==", "!="}
Opposite == [op \in {"==", "!=", "=~", "!~"} |->
  CASE op = "==" -> "!=" [] op = "!=" -> "==" [] op = "=~" -> "!~" [] op = "!~" -> "=~"]

Before(s, piece) == SubSeq(s, 1, SelectInSeq(s, LAMBDA p : p = piece) - 1)
After(s, piece)  == SubSeq(s, SelectInSeq(s, LAMBDA p : p = piece) + 1, Len(s))

\* A mask of so many bits behind the slash: strtoul takes zeros before it.
MaskFits(s) ==
  LET bits == After(s, "/")
  IN  /\ Len(bits) = 1 /\ bits[1] \in DOMAIN NumberOf
      /\ NumberOf[bits[1]] \in 1 .. (IF Has(s, ":") THEN 128 ELSE 32)

IsPath(s) == s # <<>> /\ s[1] = "/"

\* http_request_host_normalize has no body: its answer is undefined.  It is
\* asked for an address or a host that is compared for equality, and for a
\* socket that is not only a port.
Normalizes(comp, op, s) ==
  \/ comp \in RemoteIp /\ op \in Exact /\ (Has(s, "/") => ~IsPath(s) /\ MaskFits(s))
  \/ comp \in HttpHost /\ op \in Exact
  \/ comp \in ServerSocket /\ (s = <<>> \/ s[1] # ":") /\ (Len(s) > 1 => SubSeq(s, 1, 2) # <<"[", "]">>)

\* The right side is refused, whatever the answer.
Refused(comp, op, s) ==
  \/ comp \notin Comps
  \/ comp \in RemoteIp /\ op \in Exact /\ Has(s, "/") /\ ~IsPath(s) /\ ~MaskFits(s)
  \/ op \notin Exact    \* built without PCRE, as the Makefile does

\* The right side that is kept: the mask of an address is written anew.
Kept(comp, op, s) ==
  IF comp \in RemoteIp /\ op \in Exact /\ Has(s, "/") /\ ~IsPath(s)
  THEN Before(s, "/") \o <<"/", ToString(NumberOf[After(s, "/")[1]])>> ELSE s

\* The key of a context for a condition in the current context.
CondKey(c, comp, op, s) ==
  Append(c.dcs[c.current].key, [comp |-> comp, op |-> op, string |-> s])
ElseKey(c) ==
  Append(c.dcs[c.current].key, [comp |-> <<"else_tmp_token", <<>>>>, op |-> "", string |-> <<>>])

\* The key of an else block: that of the condition before it, with the operator
\* turned into its opposite.  The place of the operator is counted from the end
\* of the key with the length of the right side as it was kept: when that is
\* shorter than it was written, a character behind is overwritten.
OppositeKey(a) ==
  LET last  == Last(a.key)
      late  == Len(Flat(last.string)) - Len(Flat(a.string))
      right == last.op \o Flat(last.string)
      char  == SubSeq(Opposite[a.cond], 1, 1)
  IN  Append(Front(a.key),
        IF late = 0 THEN [last EXCEPT !.op = Opposite[a.cond]]
        ELSE [last EXCEPT !.op = "",
                !.string = <<SubSeq(right, 1, late), char, SubSeq(right, late + 2, Len(right))>>])
=============================================================================
