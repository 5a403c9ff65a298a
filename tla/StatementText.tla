---------------------------- MODULE StatementText ----------------------------
(***************************************************************************)
(* How the plugin reads the SQL text of a query, and what it adds to it:   *)
(* the lexical scanner, statement splitter and classifiers at the end of   *)
(* src/src/driver/helpers.rs and in src/src/common.rs, the pagination      *)
(* clause and the affected-rows SELECT.                                    *)
(*                                                                         *)
(* A text is a sequence of tokens: keywords, marks that open and close     *)
(* literals, quoted names and comments, parentheses, ";" and line ends.    *)
(* INSERT stands for UPDATE, DELETE and MERGE, EXEC for EXECUTE, UNION for *)
(* the other set operators, CREATE for what begins the creation or change  *)
(* of a procedure, function, trigger or view, DROP for the words that      *)
(* begin all other statements, "x" for any other word.  Quoted names in    *)
(* double quotes are scanned like literals.                                *)
(***************************************************************************)
EXTENDS Naturals, Sequences, SequencesExt

Words == {"SELECT", "VALUES", "INSERT", "EXEC", "WITH", "INTO", "OUTPUT", "TOP", "ORDER",
          "BY", "OFFSET", "ROWS", "UNION", "CREATE", "DROP", "x"}

Marks == {";", "(", ")", "'", "[", "]", "--", "/*", "*/", "\n"}

\* Tokens that the plugin appends: the sort expression of an unordered page,
\* the numbers of its clause, and the SELECT of the affected rows.
Added == {"(SELECT NULL)", "count", "sentinel"}
-----------------------------------------------------------------------------
(* The scanner.                                                            *)

\* In a literal, name or comment the mode is the token that opened it.
Opens == {"'", "[", "--", "/*"}
Closer == [open \in {"'", "["} |-> IF open = "[" THEN "]" ELSE open]

\* Mutant: a doubled bracket ends the name.
ScanDoubled(s, c, next) ==
    IF s.skip THEN [s EXCEPT !.skip = FALSE]
    ELSE IF s.mode = "code"
    THEN IF c \in Opens THEN [s EXCEPT !.mode = c, !.depth = 1]
         ELSE [s EXCEPT !.code = IF c = "\n" THEN @ ELSE Append(@, c)]
    ELSE IF s.mode \in DOMAIN Closer /\ c = Closer[s.mode]
    THEN IF next = c /\ c = "'" THEN [s EXCEPT !.skip = TRUE] ELSE [s EXCEPT !.mode = "code"]
    ELSE IF <<s.mode, c>> \in {<<"--", "\n">>, <<"/*", "*/">>} /\ s.depth = 1
    THEN [s EXCEPT !.mode = "code"]
    ELSE IF s.mode = "/*" /\ c \in {"/*", "*/"}
    THEN [s EXCEPT !.depth = IF c = "/*" THEN @ + 1 ELSE @ - 1]
    ELSE s

\* One turn of the loop of code_mask.  A doubled closing mark is part of the
\* literal or name; comments nest.
Scan(s, c, next) ==
    IF s.skip THEN [s EXCEPT !.skip = FALSE]
    ELSE IF s.mode = "code"
    THEN IF c \in Opens THEN [s EXCEPT !.mode = c, !.depth = 1]
         ELSE [s EXCEPT !.code = IF c = "\n" THEN @ ELSE Append(@, c)]
    ELSE IF s.mode \in DOMAIN Closer /\ c = Closer[s.mode]
    THEN IF next = c THEN [s EXCEPT !.skip = TRUE] ELSE [s EXCEPT !.mode = "code"]
    ELSE IF <<s.mode, c>> \in {<<"--", "\n">>, <<"/*", "*/">>} /\ s.depth = 1
    THEN [s EXCEPT !.mode = "code"]
    ELSE IF s.mode = "/*" /\ c \in {"/*", "*/"}
    THEN [s EXCEPT !.depth = IF c = "/*" THEN @ + 1 ELSE @ - 1]
    ELSE s

\* The token behind the i-th.
Ahead(q, i) == IF i < Len(q) THEN q[i + 1] ELSE ""

\* The scanner before the loop and after each turn.
Scans(q) ==
    LET at[i \in 0..Len(q)] ==
            IF i = 0 THEN [mode |-> "code", depth |-> 0, skip |-> FALSE, code |-> <<>>]
            ELSE Scan(at[i - 1], q[i], Ahead(q, i))
    IN  at

Scanned(q) == Scans(q)[Len(q)]

\* code_mask: what is left when literals, quoted names and comments are blanked.
Code(q) == Scanned(q).code

\* The scan ends outside every literal, quoted name and block comment.
Closed(q) == Scanned(q).mode \in {"code", "--"}

\* A stray ")" does not lower the depth of parentheses below zero.
Nest(depth, c) ==
    CASE c = "(" -> depth + 1
      [] c = ")" /\ depth > 0 -> depth - 1
      [] OTHER -> depth

\* The depth before the first token and behind each.
Depths(code) ==
    LET at[i \in 0..Len(code)] == IF i = 0 THEN 0 ELSE Nest(at[i - 1], code[i])
    IN  at

\* No parenthesis is left open.
Balanced(q) == Depths(Code(q))[Len(Code(q))] = 0

\* The statements so far, with the one in progress unless it is empty.
Pushed(s) == IF s.current = <<>> THEN s.done ELSE Append(s.done, s.current)

\* One turn of the loop of top_level_statements: a semicolon outside
\* parentheses ends the statement.
Split(s, c, depth) ==
    IF c = ";" /\ depth = 0 THEN [done |-> Pushed(s), current |-> <<>>]
    ELSE [s EXCEPT !.current = Append(@, c)]

Splits(code) ==
    LET depth == Depths(code)
        at[i \in 0..Len(code)] ==
            IF i = 0 THEN [done |-> <<>>, current |-> <<>>]
            ELSE Split(at[i - 1], code[i], depth[i - 1])
    IN  at

\* top_level_statements
Statements(code) == Pushed(Splits(code)[Len(code)])

\* One turn of the loop of top_level_words: the words outside parentheses.
PickWord(words, c, depth) == IF depth = 0 /\ c \in Words THEN Append(words, c) ELSE words

Picks(statement) ==
    LET depth == Depths(statement)
        at[i \in 0..Len(statement)] ==
            IF i = 0 THEN <<>> ELSE PickWord(at[i - 1], statement[i], depth[i - 1])
    IN  at

\* top_level_words
TopWords(statement) == Picks(statement)[Len(statement)]
-----------------------------------------------------------------------------
(* The classifiers.                                                        *)

\* Position of the word that says what a statement does, or 0.
OperationAt(words) ==
    IF words = <<>> THEN 0
    ELSE IF words[1] # "WITH" THEN 1
    ELSE LET at == {i \in 2..Len(words) : words[i] \in {"SELECT", "VALUES", "EXEC", "INSERT"}}
         IN  IF at = {} THEN 0 ELSE Min(at)

Operation(words) == IF OperationAt(words) = 0 THEN "none" ELSE words[OperationAt(words)]

\* The words after it.
Rest(words) == SubSeq(words, OperationAt(words) + 1, Len(words))

HasInto(words) == "INTO" \in Range(Rest(words))

\* select_has_top_level_row_limit: TOP, or OFFSET ... ROWS after ORDER BY
HasRowLimit(words) ==
    LET r == Rest(words)
        orders == {i \in 1..(Len(r) - 1) : r[i] = "ORDER" /\ r[i + 1] = "BY"}
    IN  \/ "TOP" \in Range(r)
        \/ /\ orders # {}
           /\ \E i, j \in (Min(orders) + 2)..Len(r) : i < j /\ r[i] = "OFFSET" /\ r[j] = "ROWS"

\* statement_returns_result_set; of the keywords that returns_result_set of
\* common.rs accepts only WITH is in the model.
StatementReturns(words) ==
    CASE Operation(words) = "SELECT" -> ~HasInto(words)
      [] Operation(words) \in {"VALUES", "EXEC"} -> TRUE
      [] Operation(words) = "INSERT" -> "OUTPUT" \in Range(Rest(words))
      [] OTHER -> FALSE

WordsOf(q) == [i \in 1..Len(Statements(Code(q))) |-> TopWords(Statements(Code(q))[i])]

\* query_returns_result_set
ReturnsResultSet(q) == \E i \in DOMAIN WordsOf(q) : StatementReturns(WordsOf(q)[i])

\* query_can_be_paginated
CanBePaginated(q) ==
    /\ Len(WordsOf(q)) = 1
    /\ LET words == WordsOf(q)[1]
       IN  \/ Operation(words) = "VALUES"
           \/ (Operation(words) = "SELECT" /\ ~HasInto(words) /\ ~HasRowLimit(words))

\* query_reports_affected_rows: the last statement is DML or SELECT INTO
ReportsAffectedRows(q) ==
    /\ WordsOf(q) # <<>>
    /\ LET words == Last(WordsOf(q))
       IN  \/ Operation(words) = "INSERT"
           \/ (Operation(words) = "SELECT" /\ HasInto(words))
-----------------------------------------------------------------------------
(* What is added to the text.                                              *)

PageClause == <<"OFFSET", "count", "ROWS", "count">>
UnorderedSort == <<"ORDER", "BY", "(SELECT NULL)">>

\* The text without its last tokens in S.
TrimmedEnd(q, S) ==
    SubSeq(q, 1, IF \E i \in 1..Len(q) : q[i] \notin S
                 THEN CHOOSE i \in 1..Len(q) : q[i] \notin S /\ \A j \in (i + 1)..Len(q) : q[j] \in S
                 ELSE 0)

\* contains_top_level_order_by
HasOrderBy(q) ==
    LET words == TopWords(Code(q))
    IN  \E i \in 1..(Len(words) - 1) : words[i] = "ORDER" /\ words[i + 1] = "BY"

\* The text to which the clause is added: line ends, then semicolons, then
\* line ends are trimmed.
Normalized(q) == TrimmedEnd(TrimmedEnd(TrimmedEnd(q, {"\n"}), {";"}), {"\n"})

\* build_paginated_query
Paginated(q) ==
    Normalized(q) \o (IF HasOrderBy(Normalized(q)) THEN <<>> ELSE UnorderedSort) \o PageClause

\* Mutant: on the same line.
WrappedInline(q) == q \o <<";", "sentinel">>

\* wrap_dml_with_rowcount
Wrapped(q) == q \o <<"\n", ";", "sentinel">>
=============================================================================
