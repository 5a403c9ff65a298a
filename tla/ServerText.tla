----------------------------- MODULE ServerText -----------------------------
(***************************************************************************)
(* How SQL Server reads a text of StatementText, stated by what a lexeme   *)
(* and what a statement is: the reference that the plugin's scanner, its   *)
(* classification and its additions are compared with.                     *)
(***************************************************************************)
EXTENDS StatementText

\* Number of tokens t among the first i of p.
Count(p, t, i) == Cardinality({j \in 1..i : p[j] = t})

\* Length of the run of mark m at the end of p, its first token left out.
Run(p, m) == Len(p) - Max({1} \cup {j \in 2..Len(p) : p[j] # m})

\* p is one lexeme of a text in which it is followed by next.
IsLexeme(p, next) ==
    LET n == Len(p)
        Quoted(open, close) ==
            p[1] = open /\ n > 1 /\ Run(p, close) % 2 = 1 /\ next # close
        Open(i) == Count(p, "/*", i) - Count(p, "*/", i)
    IN  \/ n = 1 /\ p[1] \notin {"'", "[", "--", "/*"}
        \/ Quoted("'", "'")
        \/ Quoted("[", "]")
        \/ p[1] = "--" /\ Count(p, "\n", n) = 1 /\ p[n] = "\n"
        \/ p[1] = "/*" /\ n > 1 /\ Open(n) = 0 /\ \A i \in 1..(n - 1) : Open(i) > 0

\* The text is cut into lexemes from the left: start is where the one in
\* progress begins, code what SQL Server acts upon so far.
Cut(s, q, i) ==
    LET p == SubSeq(q, s.start, i)
    IN  IF ~IsLexeme(p, Ahead(q, i)) THEN s
        ELSE [start |-> i + 1,
              code  |-> IF Len(p) > 1 \/ p[1] = "\n" THEN s.code ELSE Append(s.code, p[1])]

Cuts(q) ==
    LET at[i \in 0..Len(q)] ==
            IF i = 0 THEN [start |-> 1, code |-> <<>>] ELSE Cut(at[i - 1], q, i)
    IN  at

\* The tokens that SQL Server acts upon; a text that ends inside a lexeme ends
\* there.
ServerCode(q) == Cuts(q)[Len(q)].code

\* The text ends inside a literal, a quoted name or a block comment.
EndsInside(q) == LET start == Cuts(q)[Len(q)].start IN start <= Len(q) /\ q[start] # "--"
-----------------------------------------------------------------------------
(* Statements.                                                             *)

\* Parentheses that are open behind the first i tokens.
Level(code, i) == Count(code, "(", i) - Count(code, ")", i)

\* A batch that creates a module has one statement: what follows is its body.
CreatesModule(code) == code # <<>> /\ code[1] = "CREATE"

\* A statement needs no semicolon before it: these words begin one, unless the
\* statement in progress takes them as a part of itself.
Beginnings == {"SELECT", "INSERT", "EXEC", "CREATE", "DROP"}

\* What a statement takes behind word c, when it took those of taken before.
TakenAfter(c, taken) ==
    CASE c = "INSERT" -> {"SELECT", "EXEC"}
      [] c = "UNION" -> {"SELECT"}
      [] c \in {"SELECT", "EXEC", "VALUES"} -> {}
      [] OTHER -> taken

TakenFirst(c) == IF c = "WITH" THEN {"SELECT", "INSERT"} ELSE TakenAfter(c, {})

\* The statements ended so far, the one in progress, and what it takes.
Unread == [done |-> <<>>, current |-> <<>>, taken |-> {}]
Ended(s) == IF s.current = <<>> THEN s.done ELSE Append(s.done, s.current)
Begun(s, c) == [done |-> Ended(s), current |-> <<c>>, taken |-> TakenFirst(c)]

ReadToken(s, c, level) ==
    IF level # 0 THEN [s EXCEPT !.current = Append(@, c)]
    ELSE IF c = ";" THEN [done |-> Ended(s), current |-> <<>>, taken |-> {}]
    ELSE IF s.current = <<>> \/ c \in Beginnings \ s.taken THEN Begun(s, c)
    ELSE [s EXCEPT !.current = Append(@, c), !.taken = TakenAfter(c, @)]

Reads(code) ==
    LET at[i \in 0..Len(code)] ==
            IF i = 0 THEN Unread ELSE ReadToken(at[i - 1], code[i], Level(code, i - 1))
    IN  at

ServerStatements(code) ==
    IF CreatesModule(code) THEN <<code>> ELSE Ended(Reads(code)[Len(code)])

\* ORDER BY outside parentheses.
HasSort(statement) ==
    \E i \in 1..(Len(statement) - 1) :
        statement[i] = "ORDER" /\ statement[i + 1] = "BY" /\ Level(statement, i) = 0

\* Parentheses match, and stand within a statement.
Matched(code) ==
    /\ Level(code, Len(code)) = 0
    /\ \A i \in 1..Len(code) : Level(code, i) >= 0
    /\ \A i \in 1..Len(code) : code[i] = ";" => Level(code, i) = 0

\* What SQL Server refuses for its lexemes, parentheses and keywords, which is
\* not all that it refuses: also a page clause that does not sort, and a module
\* that is not alone in its batch.
Refused(q) ==
    LET code == ServerCode(q)
    IN  \/ EndsInside(q)
        \/ ~Matched(code)
        \/ \E i \in 1..Len(code) : code[i] = "ORDER" /\ (i = Len(code) \/ code[i + 1] # "BY")
        \/ \E i \in 2..Len(code) : code[i] = "CREATE"
        \/ \E i \in DOMAIN ServerStatements(code) :
              LET statement == ServerStatements(code)[i]
              IN  "count" \in Range(statement)
                    /\ (statement[1] = "ORDER" \/ ~HasSort(statement))

\* How SQL Server reads a text with the page clause: as one statement that ends
\* with it, in an order of its own or none; as one that does not have it, when a
\* comment swallows the clause; or as something else, several statements.
PageRead(q) ==
    LET code == ServerCode(q)
        parts == ServerStatements(code)
    IN  IF CreatesModule(code) \/ Len(parts) # 1 THEN "other"
        ELSE IF IsSuffix(UnorderedSort \o PageClause, parts[1]) THEN "unsorted"
        ELSE IF IsSuffix(PageClause, parts[1]) THEN "sorted"
        ELSE "whole"
=============================================================================
