------------------------------ MODULE Tokenizer ------------------------------
(***************************************************************************)
(* The tokenizer of the configuration, config_tokenizer of mconfigfile.c.  *)
(* The text is a sequence of pieces [c, t]: c tells what the code tells    *)
(* apart ("alpha" and "digit" for a run of them, "dot" for one of . _ -,   *)
(* otherwise the character itself) and t is how it reads.  Only what is    *)
(* not read yet is kept, in rest.  The file is chosen line by line as the  *)
(* tokenizer reaches it, until it is closed: more of it must be known as   *)
(* soon as the tokenizer looks behind what there is.                       *)
(*                                                                         *)
(* A step is one round of the loop over the characters; tid is set when a  *)
(* token is complete, and the call returns.                                *)
(***************************************************************************)
EXTENDS Integers, Sequences, SequencesExt

VARIABLES
  rest,      \* the text that is not read yet
  closed,    \* no more text follows
  in_key, in_brace, in_cond,
  tid,       \* the token that is complete, "none", or "error" for -1
  token      \* its text

tokenizerVars == <<rest, closed, in_key, in_brace, in_cond, tid, token>>

TokenizerInit ==
  /\ rest = <<>> /\ closed = FALSE
  /\ in_key = TRUE /\ in_brace = 0 /\ in_cond = FALSE
  /\ tid = "none" /\ token = <<>>

\* The class of the i-th piece from here; the text ends with a NUL.
At(i) == IF i + 1 \in DOMAIN rest THEN rest[i + 1].c ELSE "NUL"

\* The text from piece i to the one before j.
Text(i, j) == [k \in 1 .. j - i |-> rest[i + k].t]

Newlines == {"\n", "\r"}
Blanks   == {" ", "\t"}

\* The first piece from i on of a class in S, or the end.
NextIn(i, S) ==
  CHOOSE j \in i .. Len(rest) :
    /\ At(j) \in S \cup {"NUL"}
    /\ \A k \in i .. j - 1 : At(k) \notin S \cup {"NUL"}

\* The first piece from i on of a class not in S.
NextNot(i, S) ==
  CHOOSE j \in i .. Len(rest) : At(j) \notin S /\ \A k \in i .. j - 1 : At(k) \in S

\* config_skip_comment, from i on: it takes whatever is there for a #.
AfterComment(i) == IF i < Len(rest) THEN NextIn(i + 1, Newlines) ELSE i + 1

\* The lines that follow an end of line and hold nothing: blanks and comments.
AfterLines ==
  LET from[i \in 0 .. Len(rest)] ==
        CASE At(i) \in Newlines \cup Blanks -> from[i + 1]
          [] At(i) = "#" -> from[AfterComment(i)]
          [] OTHER -> i
  IN  from[0]

\* The quote that ends a string, or the end: a quote behind a backslash does not.
Closing ==
  LET from[i \in 1 .. Len(rest) + 1] ==
        CASE At(i) = "\\" /\ At(i + 1) = "\"" -> from[i + 2]
          [] At(i) \in {"\"", "NUL"} -> i
          [] OTHER -> from[i + 1]
  IN  from[1]

Word  == {"alpha", "digit", "dot"}
Signs == {"=", "!", "+"}

\* How far a round looks.
Reach ==
  CASE At(0) \in Signs -> 1
    [] At(0) \in Newlines -> IF in_brace = 0 THEN AfterLines ELSE AfterComment(0)
    [] At(0) = "\"" -> Closing
    [] At(0) = "#" -> AfterComment(0)
    [] At(0) \in Word -> NextNot(0, Word)
    [] OTHER -> 0

Known == closed \/ Reach < Len(rest)

\* Another line of the file, or its end.
Line(l) ==
  /\ ~closed /\ ~Known /\ tid = "none"
  /\ rest' = rest \o l
  /\ UNCHANGED <<closed, in_key, in_brace, in_cond, tid, token>>

Close ==
  /\ ~closed /\ ~Known /\ tid = "none"
  /\ closed' = TRUE
  /\ UNCHANGED <<rest, in_key, in_brace, in_cond, tid, token>>

-----------------------------------------------------------------------------
Reading == tid = "none" /\ Known /\ rest # <<>>

Moved(n) == rest' = SubSeq(rest, n + 1, Len(rest)) /\ UNCHANGED closed

\* A token of n pieces.
Found(id, n) == tid' = id /\ token' = Text(0, n) /\ Moved(n)

Error == tid' = "error" /\ UNCHANGED <<rest, closed, token, in_key, in_brace, in_cond>>

Plain == UNCHANGED <<in_key, in_brace, in_cond>>

\* Nothing is found in a round.
Skipped(n) == Moved(n) /\ UNCHANGED <<tid, token>> /\ Plain

\* A comparison ends the left side of a condition.
Compared == in_cond' = FALSE /\ in_key' = TRUE /\ UNCHANGED in_brace

Equals ==
  /\ Reading /\ At(0) = "="
  /\ CASE in_brace # 0 /\ At(1) = ">" -> Found("ARRAY_ASSIGN", 2) /\ Plain
       [] in_brace = 0 /\ in_cond /\ At(1) = "=" -> Found("EQ", 2) /\ Compared
       [] in_brace = 0 /\ in_cond /\ At(1) = "~" -> Found("MATCH", 2) /\ Compared
       [] in_brace = 0 /\ ~in_cond /\ in_key -> Found("ASSIGN", 1) /\ Plain
       [] OTHER -> Error

Exclamation ==
  /\ Reading /\ At(0) = "!"
  /\ CASE in_cond /\ At(1) = "=" -> Found("NE", 2) /\ Compared
       [] in_cond /\ At(1) = "~" -> Found("NOMATCH", 2) /\ Compared
       [] OTHER -> Error

Blank == Reading /\ At(0) \in Blanks /\ Skipped(1)

\* The end of a line is a token, but not inside parentheses: there the code
\* calls config_skip_comment, which skips the line that follows.
Newline ==
  /\ Reading /\ At(0) \in Newlines
  /\ IF in_brace = 0
     THEN /\ Moved(AfterLines) /\ tid' = "EOL" /\ token' = <<"EOL">>
          /\ in_key' = TRUE /\ UNCHANGED <<in_brace, in_cond>>
     ELSE Skipped(AfterComment(0))

Comma ==
  /\ Reading /\ At(0) = ","
  /\ IF in_brace > 0 THEN Found("COMMA", 1) /\ Plain ELSE Skipped(1)

Escapes(inner, i) == i < Len(inner) /\ inner[i].c = "\\" /\ inner[i + 1].c = "\""

\* The text between two quotes, without the backslash before one in it.
Unescaped(inner) ==
  LET upto[i \in 0 .. Len(inner)] ==
        IF i = 0 THEN <<>>
        ELSE IF Escapes(inner, i) THEN upto[i - 1]
        ELSE Append(upto[i - 1], inner[i].t)
  IN  upto[Len(inner)]

\* A string.
Quote ==
  /\ Reading /\ At(0) = "\""
  /\ IF At(Closing) = "NUL" THEN Error
     ELSE /\ Moved(Closing + 1) /\ Plain
          /\ tid' = "STRING" /\ token' = Unescaped(SubSeq(rest, 2, Closing))

\* Faulty variant: a parenthesis is left open.
Depth_Grows(c) == IF c = "(" THEN in_brace + 1 ELSE in_brace

Depth(c) == IF c = "(" THEN in_brace + 1 ELSE in_brace - 1

Parenthesis ==
  /\ Reading /\ At(0) \in {"(", ")"}
  /\ Found(IF At(0) = "(" THEN "LPARAN" ELSE "RPARAN", 1)
  /\ in_brace' = Depth(At(0)) /\ UNCHANGED <<in_key, in_cond>>

Dollar ==
  /\ Reading /\ At(0) = "$"
  /\ Found("DOLLAR", 1)
  /\ in_cond' = TRUE /\ in_key' = FALSE /\ UNCHANGED in_brace

PlusSign ==
  /\ Reading /\ At(0) = "+"
  /\ IF At(1) = "=" THEN Found("APPEND", 2) ELSE Found("PLUS", 1)
  /\ Plain

Bracket ==
  /\ Reading /\ At(0) \in {"{", "}", "[", "]"}
  /\ Found(CASE At(0) = "{" -> "LCURLY" [] At(0) = "}" -> "RCURLY"
             [] At(0) = "[" -> "LBRACKET" [] At(0) = "]" -> "RBRACKET", 1)
  /\ Plain

Comment == Reading /\ At(0) = "#" /\ Skipped(AfterComment(0))

Other == Word \cup {">", "~", "\\", "/", ":"}

\* In a condition only the name of what is compared.
ConditionName ==
  /\ Reading /\ At(0) \in Other /\ in_cond
  /\ LET n == NextNot(0, {"alpha"})
     IN  IF n > 0 /\ At(n) # "NUL" THEN Found("SRVVARNAME", n) /\ Plain ELSE Error

\* At the end of the text nothing is read of a number, and the loop goes round
\* for ever.
Digits ==
  /\ Reading /\ At(0) = "digit" /\ ~in_cond
  /\ IF At(1) # "NUL" THEN Found("INTEGER", 1) /\ Plain
     ELSE UNCHANGED tokenizerVars

Keyword == [w \in {<<"include">>, <<"include", "_", "shell">>, <<"global">>, <<"else">>} |->
  CASE w = <<"include">> -> "INCLUDE" [] w = <<"include", "_", "shell">> -> "INCLUDE_SHELL"
    [] w = <<"global">> -> "GLOBAL"   [] w = <<"else">> -> "ELSE"]

Name ==
  /\ Reading /\ At(0) \in Other \ {"digit"} /\ ~in_cond
  /\ LET n == NextNot(0, Word)
         w == Text(0, n)
     IN  IF n > 0 /\ At(n) # "NUL"
         THEN Found(IF w \in DOMAIN Keyword THEN Keyword[w] ELSE "LKEY", n) /\ Plain
         ELSE Error

TokenizerStep ==
  \/ Equals \/ Exclamation \/ Blank \/ Newline \/ Comma \/ Quote \/ Parenthesis \/ Dollar
  \/ PlusSign \/ Bracket \/ Comment \/ ConditionName \/ Digits \/ Name

\* The call returns 1, with a token or at the end of the text.
Returns == tid \notin {"none", "error"} \/ (tid = "none" /\ Known /\ rest = <<>>)

Taken == tid' = "none" /\ token' = <<>> /\ UNCHANGED <<rest, closed, in_key, in_brace, in_cond>>
=============================================================================
