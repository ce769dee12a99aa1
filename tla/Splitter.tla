------------------------------ MODULE Splitter ------------------------------
(***************************************************************************)
(* migration.SplitStatements: a lexer that walks over a file line by line  *)
(* and cuts it at semicolons, against what PostgreSQL takes for the end of *)
(* a statement.                                                            *)
(*                                                                         *)
(* Source: internal/migration/statement.go                                 *)
(*                                                                         *)
(* A text is a sequence of characters, of which only those count that the  *)
(* lexer tells apart.  The statements are sequences of positions in the    *)
(* text instead of copies of it, so that it can be seen what of the text   *)
(* they are.                                                               *)
(***************************************************************************)
EXTENDS Integers, Sequences, FiniteSets, SequencesExt, FiniteSetsExt

CONSTANTS
  Chunks,     \* what texts are put together from
  MaxChunks   \* bound: of how many

Newline == "\n"
Blanks == {" ", Newline}
Chars == {"a", "'", "\"", "-", "/", "*", ";", "$"} \cup Blanks

ASSUME ChunksAssumption == Chunks \subseteq Seq(Chars) /\ MaxChunks \in Nat

VARIABLES
  text,       \* the file
  chunks      \* how many chunks it has

splitterVars == <<text, chunks>>

-----------------------------------------------------------------------------
(***************************************************************************)
(* The lexer.                                                              *)
(***************************************************************************)

\* strings.Split(sqlContent, "\n"): a line ends before a line break, and the last
\* one at the end of the text.
Breaks(t) == {i \in 1..Len(t) + 1 : i <= Len(t) => t[i] = Newline}
LineEnd(t, first) == Min({i \in Breaks(t) : first <= i}) - 1

\* strings.TrimSpace of positions first..last of the text
BlankBetween(t, first, last) == \A i \in first..last : t[i] \in Blanks
Trimmed(t, positions) ==
  LET solid == {k \in DOMAIN positions : positions[k] <= Len(t) /\ t[positions[k]] \notin Blanks}
  IN  IF solid = {} THEN <<>> ELSE SubSeq(positions, Min(solid), Max(solid))

\* strings.HasPrefix(trimmed, "--")
StartsComment(t, line) ==
  \E i \in line.first..line.last - 1 :
    /\ t[i] = "-" /\ t[i + 1] = "-"
    /\ BlankBetween(t, line.first, i - 1)

LexerInit ==
  [single |-> FALSE, double |-> FALSE, block |-> FALSE,  \* the three flags
   code |-> FALSE,       \* hasCode
   start |-> 1,          \* startLine
   sql |-> <<>>,         \* currentSQL
   stmts |-> <<>>,       \* the statements: positions and line number
   next |-> 1]           \* i

\* Take characters n of them, from position i on, into currentSQL.
Take(s, i, n) ==
  [s EXCEPT !.sql = @ \o [k \in 1..n |-> i + k - 1], !.next = i + n]

\* The characters at i and i+1 of the line are a and b.
Pair(t, line, i, a, b) == t[i] = a /\ i < line.last /\ t[i + 1] = b

\* A statement without any text is not one.
Emit(t, s) ==
  LET positions == Trimmed(t, s.sql)
  IN  IF positions = <<>> THEN s
      ELSE [s EXCEPT !.stmts = Append(@, [sql |-> positions, line |-> s.start])]

MutCut(t, line, lineNo, s, i) ==
  LET e == Emit(t, Take(s, i, 1))
  IN  [e EXCEPT !.sql = <<>>, !.code = FALSE]

\* A semicolon outside quotes and comments
Cut(t, line, lineNo, s, i) ==
  LET e == Emit(t, Take(s, i, 1))
  IN  [e EXCEPT !.sql = <<>>, !.code = FALSE,
                !.start = IF BlankBetween(t, i + 1, line.last) THEN @ ELSE lineNo]

\* One turn of the inner loop, at position i.
Lex(t, line, lineNo, s, i) ==
  LET quoted == s.single \/ s.double
  IN  CASE s.block /\ Pair(t, line, i, "*", "/") -> [Take(s, i, 2) EXCEPT !.block = FALSE]
        [] s.block /\ ~Pair(t, line, i, "*", "/") -> Take(s, i, 1)
        [] ~s.block /\ ~quoted /\ Pair(t, line, i, "-", "-") -> Take(s, i, line.last - i + 1)
        [] ~s.block /\ ~quoted /\ Pair(t, line, i, "/", "*") ->
             [Take(s, i, 2) EXCEPT !.block = TRUE]
        [] ~s.block /\ t[i] = "'" /\ ~s.double ->
             [Take(s, i, 1) EXCEPT !.single = ~@, !.code = TRUE]
        [] ~s.block /\ t[i] = "\"" /\ ~s.single ->
             [Take(s, i, 1) EXCEPT !.double = ~@, !.code = TRUE]
        [] ~s.block /\ t[i] = ";" /\ ~quoted -> Cut(t, line, lineNo, s, i)
        [] OTHER -> [Take(s, i, 1) EXCEPT !.code = @ \/ t[i] \notin Blanks]

\* The loop's i may have gone past a position.
Turn(t, line, lineNo, s, i) == IF s.next = i THEN Lex(t, line, lineNo, s, i) ELSE s

MutLeading(t, line, s) ==
  BlankBetween(t, line.first, line.last) \/ StartsComment(t, line)

\* Blank lines and comment lines before a statement are left out.
Leading(t, line, s) ==
  /\ ~s.code /\ ~s.block /\ ~s.single /\ ~s.double
  /\ BlankBetween(t, line.first, line.last) \/ StartsComment(t, line)

\* What the inner loop starts with: where a statement may start on this line.
Begun(t, line, lineNo, s) ==
  [s EXCEPT !.start = IF s.code \/ BlankBetween(t, line.first, line.last) THEN @ ELSE lineNo]

\* The inner loop.
Lexed(t, line, lineNo, s) ==
  LET after[n \in 0..line.last - line.first + 1] ==
        IF n = 0 THEN s ELSE Turn(t, line, lineNo, after[n - 1], line.first + n - 1)
  IN  after[line.last - line.first + 1]

\* On to the next line
Past(s, line) == [s EXCEPT !.next = line.last + 2]

\* One turn of the outer loop, for the line that starts at s.next.
LexLine(t, lineNo, s) ==
  LET line == [first |-> s.next, last |-> LineEnd(t, s.next)]
      end == Lexed(t, line, lineNo, Begun(t, line, lineNo, s))
  IN  IF Leading(t, line, s) THEN Past(s, line)
      ELSE IF end.sql = <<>> THEN Past(end, line) ELSE Take(end, line.last + 1, 1)

SplitStatements(t) ==
  LET after[lineNo \in 0..Cardinality(Breaks(t))] ==
        IF lineNo = 0 THEN LexerInit ELSE LexLine(t, lineNo, after[lineNo - 1])
  IN  Emit(t, after[Cardinality(Breaks(t))]).stmts

-----------------------------------------------------------------------------
SplitterInit ==
  /\ text = <<>>
  /\ chunks = 0

\* Whoever writes the file
Write(chunk) ==
  /\ chunks < MaxChunks
  /\ text' = text \o chunk
  /\ chunks' = chunks + 1

SplitterNext == \E chunk \in Chunks : Write(chunk)

SplitterSpec == SplitterInit /\ [][SplitterNext]_splitterVars

-----------------------------------------------------------------------------
(***************************************************************************)
(* PostgreSQL's lexical structure, position by position: what the          *)
(* character belongs to, what comes after it, how deep comments are nested *)
(* and whether the token has a second character.  Of dollar quotes there   *)
(* is the one with an empty tag.                                           *)
(***************************************************************************)

Two(t, i, a, b) == i < Len(t) /\ t[i] = a /\ t[i + 1] = b

Is(in, after, depth, second) ==
  [in |-> in, after |-> after, depth |-> depth, second |-> second]

\* Character i in code; dollar: a $ is not part of a name here.
ReadsCode(t, i, dollar) ==
  CASE t[i] = "'" -> Is("quote", "'", 0, FALSE)
    [] t[i] = "\"" -> Is("quote", "\"", 0, FALSE)
    [] Two(t, i, "-", "-") -> Is("comment", "line", 0, TRUE)
    [] Two(t, i, "/", "*") -> Is("comment", "block", 1, TRUE)
    [] Two(t, i, "$", "$") /\ dollar -> Is("quote", "$", 0, TRUE)
    [] OTHER -> Is("code", "code", 0, FALSE)

\* ... in a comment
ReadsBlock(t, i, depth) ==
  CASE Two(t, i, "/", "*") -> Is("comment", "block", depth + 1, TRUE)
    [] Two(t, i, "*", "/") /\ depth > 1 -> Is("comment", "block", depth - 1, TRUE)
    [] Two(t, i, "*", "/") /\ depth = 1 -> Is("comment", "code", 0, TRUE)
    [] OTHER -> Is("comment", "block", depth, FALSE)

\* ... after what was read last
Reads(t, i, last) ==
  LET q == last.after
  IN  CASE last.second -> [last EXCEPT !.second = FALSE]
        [] ~last.second /\ q = "code" ->
             ReadsCode(t, i, i = 1 \/ t[i - 1] \notin {"a", "$"} \/ last.in # "code")
        [] ~last.second /\ q = "block" -> ReadsBlock(t, i, last.depth)
        [] ~last.second /\ q = "line" ->
             Is("comment", IF t[i] = Newline THEN "code" ELSE "line", 0, FALSE)
        [] ~last.second /\ q = "$" ->
             IF Two(t, i, "$", "$") THEN Is("quote", "code", 0, TRUE)
             ELSE Is("quote", "$", 0, FALSE)
        [] OTHER -> Is("quote", IF t[i] = q THEN "code" ELSE q, 0, FALSE)

Reading(t) ==
  LET read[i \in 0..Len(t)] ==
        IF i = 0 THEN Is("code", "code", 0, FALSE) ELSE Reads(t, i, read[i - 1])
  IN  read

\* The positions of the text that mean something to the server.
Solid(t, read) ==
  {i \in DOMAIN t : read[i].in = "quote" \/ (read[i].in = "code" /\ t[i] \notin Blanks)}

\* The positions that end a statement.
Ends(t, read) == {i \in DOMAIN t : read[i].in = "code" /\ t[i] = ";"}

\* A statement ends between positions i and j.
EndsBetween(t, read, i, j) == \E e \in Ends(t, read) : i <= e /\ e < j

\* No quote and no comment is left open, and what the lexer does not know does
\* not occur: comments in comments, and quotes, comments or semicolons in dollar
\* quotes.
Plain(t, read) ==
  /\ read[Len(t)].after \in {"code", "line"}
  /\ \A i \in DOMAIN t :
       /\ read[i].depth <= 1
       /\ read[i].in = "quote" /\ "$" \in {read[i].after, t[i]} =>
            t[i] \in {"a", "$"} \cup Blanks

-----------------------------------------------------------------------------
(***************************************************************************)
(* What holds.                                                             *)
(***************************************************************************)

\* What is sent are the statements of the file.  No position that means something to
\* the server is lost; two of them are in one statement exactly if none ends between
\* them, and else in statements of the same order; each statement has its positions
\* in their order, with everything between them (quoted line breaks and comments
\* included).  What is sent besides is a comment.
SplitsAsServerReads ==
  LET read == Reading(text)
      solid == Solid(text, read)
      stmts == SplitStatements(text)
      Of(k) == ToSet(stmts[k].sql)
  IN  Plain(text, read) =>
        /\ \A i \in solid : \E k \in DOMAIN stmts : i \in Of(k)
        /\ \A k, l \in DOMAIN stmts :
             \A i \in Of(k) \cap solid, j \in Of(l) \cap solid :
               i <= j => IF EndsBetween(text, read, i, j) THEN k < l ELSE k = l
        /\ \A k \in DOMAIN stmts :
             /\ \A m, n \in DOMAIN stmts[k].sql : m < n => stmts[k].sql[m] < stmts[k].sql[n]
             /\ \A i, j \in Of(k) \cap solid : i..j \subseteq Of(k)

\* The line that an error message names is the one on which the statement
\* starts, comments and blank lines before it aside.
LineOf(t, i) == 1 + Cardinality({j \in 1..i - 1 : t[j] = Newline})

LinesAreRight ==
  LET read == Reading(text)
      solid == Solid(text, read)
  IN  Plain(text, read) =>
        \A stmt \in ToSet(SplitStatements(text)) :
          LET of == ToSet(stmt.sql) \cap solid
          IN  of # {} => stmt.line = LineOf(text, Min(of))
=============================================================================
