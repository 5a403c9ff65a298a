--------------------------- MODULE QueryExecution ---------------------------
(***************************************************************************)
(* One execute_query or execute_query_batch call on its session:           *)
(* execute_on_connection, run_query_collecting and                         *)
(* finish_result_bearing_dml of src/src/driver/mod.rs, the batch loop of   *)
(* src/src/driver/ops.rs, the server's answers, and a host that follows    *)
(* has_more from page to page.                                             *)
(*                                                                         *)
(* The paginated query reads a table of Total rows, 1..Total in the order  *)
(* that its ORDER BY gives, which is taken to tell all rows apart; without *)
(* one every page may come in another order.  Other answers are whatever   *)
(* result sets the statements may produce.                                 *)
(***************************************************************************)
EXTENDS ServerText

CONSTANTS Batches,       \* what hosts ask for: each a sequence of texts
          MaxAnswered,   \* tokens of a batch that the server answers with rows
          MaxSets,       \* result sets of an answer, at most
          MaxSetRows,    \* rows of a result set, at most
          Total,         \* rows of the table that is paged through
          Orders,        \* orders in which the table may be read without ORDER BY
          PageSizes,     \* values of limit
          MaxRows,       \* MAX_RESULT_ROWS
          U32Max,        \* u32::MAX
          NoLimit        \* limit is absent

ASSUME QueryAssumption ==
    /\ Batches \subseteq Seq(Seq(Words \cup Marks))
    /\ {MaxAnswered, MaxSets, MaxSetRows, Total, MaxRows, U32Max} \subseteq Nat
    /\ PageSizes \subseteq Nat
    /\ Total <= U32Max
    /\ Orders \subseteq [1..Total -> 1..Total]
    /\ \A order \in Orders : \A i, j \in 1..Total : order[i] = order[j] => i = j
    /\ NoLimit \notin Nat

VARIABLES
    batch,      \* texts that are still to be executed
    limit,      \* page size of the request, or NoLimit
    page,       \* page of the request
    stage,      \* where execute_on_connection is
    plan,       \* how it executes the current text
    text,       \* the current text
    sent,       \* what it sent to the server
    stream,     \* result sets the server has not delivered yet
    results,    \* result sets collected so far
    retained,   \* rows counted against the ceiling
    outcomes,   \* one outcome for each text executed
    seen,       \* rows of the pages of the current text that the host has got,
                \* if the server reads the page clause (history)
    answer      \* the whole answer to the current text (history)

requestVars == <<batch, limit, page, seen>>
vars == <<batch, limit, page, stage, plan, text, sent, stream, results, retained, outcomes,
          seen, answer>>

Pieces(b) == FoldLeft(LAMBDA n, t : n + Len(t), 0, b)

Failure(cause) == [ok |-> FALSE, cause |-> cause]

\* A successful outcome: the rows of the first result set, the further sets,
\* and the flags of QueryResult and Pagination.
Success(first, more, truncated, hasMore, affected) ==
    [ok |-> TRUE, first |-> first, more |-> more, truncated |-> truncated,
     hasMore |-> hasMore, affected |-> affected]

\* execute_query has one text, execute_query_batch any number.
Init ==
    /\ batch \in Batches
    /\ limit \in PageSizes \cup {NoLimit}
    /\ page = 1
    /\ stage = "ready" /\ plan = "none" /\ text = <<>> /\ sent = <<>>
    /\ stream = <<>> /\ results = <<>> /\ retained = 0
    /\ outcomes = <<>> /\ seen = <<>> /\ answer = <<>>
-----------------------------------------------------------------------------
(* Sending a text.                                                         *)

AtMost(n, max) == IF n > max THEN max ELSE n

\* Mutant: the lookahead row counts as part of the page.
OffsetByFetch(n) == AtMost(AtMost(page - 1, U32Max) * (n + 1), U32Max)

\* The offset of build_paginated_query, in saturating u32 arithmetic.
Offset(n) == AtMost((IF page = 0 THEN 0 ELSE page - 1) * n, U32Max)
Fetch(n) == AtMost(n + 1, U32Max)

\* What the classifiers and builders make of each text that is asked for.
Reading ==
    [q \in UNION {Range(b) : b \in Batches} |->
        [returns |-> ReturnsResultSet(q), affects |-> ReportsAffectedRows(q),
         pageable |-> CanBePaginated(q), wrapped |-> Wrapped(q), paginated |-> Paginated(q)]]

PlanOf(q) ==
    CASE Reading[q].affects -> "dml"
      [] ~Reading[q].affects /\ ~Reading[q].returns -> "plain"
      [] OTHER -> IF limit # NoLimit /\ Reading[q].pageable THEN "page" ELSE "rows"

TextFor(q) ==
    CASE PlanOf(q) = "dml" -> Reading[q].wrapped
      [] PlanOf(q) = "page" -> Reading[q].paginated
      [] OTHER -> q

\* What the server makes of each text that it may be sent.
Served ==
    [q \in UNION {UNION {{t, Wrapped(t), Paginated(t)} : t \in Range(b)} : b \in Batches} |->
        [refused |-> Refused(q), module |-> CreatesModule(ServerCode(q)),
         page |-> PageRead(q), statements |-> ServerStatements(ServerCode(q))]]

Rows(a, b) == [i \in 1..(IF b < a THEN 0 ELSE b - a + 1) |-> a + i - 1]
Set(name, rows) == [name |-> name, rows |-> rows]

\* Result sets that a statement may produce by itself.
OwnSets ==
    LET sets == {Set("rows", Rows(1, n)) : n \in 0..MaxSetRows}
    IN  IF Pieces(batch) > MaxAnswered THEN {<<>>}
        ELSE UNION {[1..n -> sets] : n \in 0..MaxSets}

InOrder == [i \in 1..Total |-> i]
InSomeOrder(rows) == {<<Set("rows", [i \in DOMAIN rows |-> order[rows[i]]])>> : order \in Orders}

\* The rows of the table that a page clause asks for.
Requested == Rows(Offset(limit) + 1, AtMost(Offset(limit) + Fetch(limit), Total))

PageAnswers(read) ==
    CASE read = "sorted" -> {<<Set("rows", Requested)>>}
      [] read = "unsorted" -> InSomeOrder(Requested)
      [] read = "whole" -> InSomeOrder(InOrder)
      [] read = "other" -> OwnSets

\* A module that is created answers with nothing.  The affected-rows SELECT
\* follows whatever DML produced.
Answers(q) ==
    CASE Served[TextFor(q)].module -> {<<>>}
      [] ~Served[TextFor(q)].module /\ PlanOf(q) = "dml" ->
            {Append(s, Set("count", <<a>>)) : s \in OwnSets, a \in 0..1}
      [] ~Served[TextFor(q)].module /\ PlanOf(q) = "page" -> PageAnswers(Served[TextFor(q)].page)
      [] OTHER -> OwnSets

\* close_query, before a text is sent and after reading stopped early
CloseQuery(s) == <<>>

Answered(outcome) ==
    /\ outcomes' = Append(outcomes, outcome)
    /\ stage' = "ready"

\* execute_on_connection up to client.execute.  A session whose previous
\* stream is still open refuses the text.
Send ==
    /\ stage = "ready" /\ batch # <<>>
    /\ text' = Head(batch) /\ batch' = Tail(batch)
    /\ plan' = PlanOf(Head(batch)) /\ sent' = TextFor(Head(batch))
    /\ results' = <<>> /\ retained' = 0
    /\ IF CloseQuery(stream) # <<>> /\ PlanOf(Head(batch)) # "plain"
       THEN Answered(Failure("open stream")) /\ answer' = <<>> /\ UNCHANGED stream
       ELSE IF Served[TextFor(Head(batch))].refused
       THEN Answered(Failure("server")) /\ answer' = <<>> /\ stream' = <<>>
       ELSE \E a \in Answers(Head(batch)) :
                /\ answer' = a /\ stream' = a
                /\ stage' = "next" /\ UNCHANGED outcomes
    /\ seen' = IF page = 1 THEN <<>> ELSE seen
    /\ UNCHANGED <<limit, page>>

\* simple_query: nothing that it returns is kept.
RunPlain ==
    /\ stage = "next" /\ plan = "plain"
    /\ stream' = <<>>
    /\ Answered(Success(<<>>, <<>>, FALSE, FALSE, 0))
    /\ UNCHANGED <<requestVars, plan, text, sent, results, retained, answer>>

\* An error of the server or of a cell's conversion; the rest of the stream
\* stays where it is.
Fail ==
    /\ stage \in {"next", "rows"}
    /\ Answered(Failure("server"))
    /\ UNCHANGED <<requestVars, plan, text, sent, stream, results, retained, answer>>
-----------------------------------------------------------------------------
(* Collecting the answer.                                                  *)

\* Mutant: reading always stops at the ceiling.
StopAlways == "stop"

\* OverflowPolicy of the plan
Policy == IF plan = "dml" THEN "drain" ELSE "stop"

OpenSet ==
    /\ stage = "next" /\ plan # "plain" /\ stream # <<>>
    /\ results' = Append(results, [name |-> Head(stream).name, rows |-> <<>>, cut |-> FALSE])
    /\ stage' = "rows"
    /\ UNCHANGED <<requestVars, plan, text, sent, stream, retained, outcomes, answer>>

Current == Last(results)
Update(r) == results' = Append(Front(results), r)

\* Mutant: each result set has a ceiling of its own.
FullPerSet == Len(Current.rows) >= MaxRows /\ Current.name # "count"

\* The ceiling is for all result sets, the affected-rows one excepted.
Full == retained >= MaxRows /\ Current.name # "count"

RowPending == stage = "rows" /\ Head(stream).rows # <<>>
Consumed == [stream EXCEPT ![1].rows = Tail(@)]

RetainRow ==
    /\ RowPending /\ ~Full
    /\ Update([Current EXCEPT !.rows = Append(@, Head(Head(stream).rows))])
    /\ retained' = IF Current.name = "count" THEN retained ELSE retained + 1
    /\ stream' = Consumed
    /\ UNCHANGED <<requestVars, stage, plan, text, sent, outcomes, answer>>

\* A row over the ceiling: the stream is cancelled, or read on without
\* keeping rows.
DropRow ==
    /\ RowPending /\ Full
    /\ Update([Current EXCEPT !.cut = TRUE])
    /\ IF Policy = "stop" THEN stage' = "next" /\ stream' = CloseQuery(stream)
       ELSE stream' = Consumed /\ UNCHANGED stage
    /\ UNCHANGED <<requestVars, plan, text, sent, retained, outcomes, answer>>

\* Mutant: a set without rows is never ended.
EndRows ==
    /\ stage = "rows" /\ Head(stream).rows = <<>> /\ Current.rows # <<>>
    /\ stage' = "next" /\ stream' = Tail(stream)
    /\ UNCHANGED <<requestVars, plan, text, sent, results, retained, outcomes, answer>>

EndSet ==
    /\ stage = "rows" /\ Head(stream).rows = <<>>
    /\ stage' = "next" /\ stream' = Tail(stream)
    /\ UNCHANGED <<requestVars, plan, text, sent, results, retained, outcomes, answer>>

\* Mutant: the flag of the first set is not raised for the others.
FirstTruncated == results # <<>> /\ results[1].cut

Truncated == \E i \in DOMAIN results : results[i].cut
RowsOf(i) == IF i \in DOMAIN results THEN results[i].rows ELSE <<>>
Further(n) == [i \in 1..(IF n > 1 THEN n - 1 ELSE 0) |-> results[i + 1].rows]

\* finish_result_bearing_dml, and what execute_on_connection drops of a
\* statement that returns no result set itself.
DmlOutcome ==
    LET n == Len(results) - 1
    IN  IF results = <<>> \/ Current.name # "count" \/ Current.rows = <<>>
        THEN Failure("no affected rows")
        ELSE Success(IF n = 0 \/ ~Reading[text].returns THEN <<>> ELSE RowsOf(1), Further(n),
                     Truncated /\ n > 0, FALSE, Head(Current.rows))

PageOutcome ==
    Success(SubSeq(RowsOf(1), 1, AtMost(Len(RowsOf(1)), limit)), Further(Len(results)),
            Truncated \/ Len(RowsOf(1)) > limit, Truncated \/ Len(RowsOf(1)) > limit, 0)

RowsOutcome == Success(RowsOf(1), Further(Len(results)), Truncated, FALSE, 0)

\* The server reads the page clause.
Paged == plan = "page" /\ Served[sent].page \in {"sorted", "unsorted"}

Finish ==
    /\ stage = "next" /\ plan # "plain" /\ stream = <<>>
    /\ Answered(CASE plan = "dml"  -> DmlOutcome
                  [] plan = "page" -> PageOutcome
                  [] plan = "rows" -> RowsOutcome)
    /\ seen' = IF Paged THEN seen \o PageOutcome.first ELSE seen
    /\ UNCHANGED <<batch, limit, page, plan, text, sent, stream, results, retained, answer>>

\* The host asks for the next page of a single query, up to the last number.
NextPage ==
    /\ stage = "ready" /\ batch = <<>> /\ Len(outcomes) = 1 /\ plan = "page"
    /\ outcomes[1].ok /\ outcomes[1].hasMore
    /\ page < U32Max
    /\ batch' = <<text>> /\ page' = page + 1 /\ outcomes' = <<>>
    /\ UNCHANGED <<limit, seen, stage, plan, text, sent, stream, results, retained, answer>>

Collect == OpenSet \/ RetainRow \/ DropRow \/ EndSet \/ Finish

Next == Send \/ RunPlain \/ Fail \/ Collect \/ NextPage

\* The session's task runs on, whether the server answers or the call times
\* out, and the host keeps asking.
Spec == Init /\ [][Next]_vars
FairSpec == Spec /\ WF_vars(Send \/ RunPlain \/ Collect) /\ WF_vars(NextPage)
-----------------------------------------------------------------------------
(* Properties.                                                             *)

\* A text was sent and nothing of its answer was read.
Sent == plan # "none" /\ results = <<>>

\* The scanner that decides how a text is executed sees the tokens that the
\* server will act upon, and no others: not the words in literals, quoted
\* names and comments, whatever is doubled, nested or left open (code_mask).
ScannerReadsAsServer == Sent => Code(text) = ServerCode(text)

\* The SELECT of the affected rows that is appended to DML is a statement of
\* its own for the server, after all the statements of the text, also when the
\* text ends in a comment or a terminator (wrap_dml_with_rowcount).
SentinelIsOwnStatement ==
    plan = "dml" =>
        Served[sent].statements = Append(Served[text].statements, <<"sentinel">>)

\* The page clause ends the one statement of the text, which sorts exactly once.
ClauseEndsStatement ==
    LET statement == Served[text].statements[1]
    IN  Served[sent].statements =
            <<statement \o (IF HasSort(statement) THEN <<>> ELSE UnorderedSort) \o PageClause>>

OneStatement == Len(Served[text].statements) = 1

\* A paginated text that is one statement for the server is still one with the
\* page clause at its end, provided that what is left of it when it is trimmed
\* ends in neither a line comment nor a terminator (build_paginated_query).
PageClauseApplies ==
    plan = "page" /\ OneStatement /\ Scanned(Normalized(text)).mode = "code"
         /\ Last(Code(Normalized(text))) # ";" => ClauseEndsStatement

\* What the plugin adds to a text that the server accepts is read by the server
\* as it is meant, wherever comments, literals and terminators stand: the
\* SELECT of the affected rows as a statement, the page clause as part of the
\* statement (helpers.rs:73-81, 374-390).  A text that creates a module owns its
\* batch (helpers.rs:358-360), unless there is a semicolon in it: behind one,
\* DML that ends the body gets that SELECT into the module.  For what is paged
\* see PagedRequestIsPaged.
AdditionsAreRead ==
    Sent /\ ~Served[text].refused =>
        IF Served[text].module
        THEN ";" \notin Range(ServerCode(text)) => sent = text
        ELSE SentinelIsOwnStatement /\ PageClauseApplies

\* Every text that is paged is one statement for the server, and the page clause
\* ends it (README.md:193-200).  Not so when the text ends in a comment, nor for
\* statements with no semicolon between them.
PagedRequestIsPaged ==
    Sent /\ ~Served[text].refused /\ plan = "page" => OneStatement /\ ClauseEndsStatement

\* The rows of a sequence of result sets, each as its place: set and row.
Places(sets) == UNION {{i} \X DOMAIN sets[i] : i \in DOMAIN sets}
RowsIn(sets) == Cardinality(Places(sets))
OutcomeRows(o) == IF o.ok THEN RowsIn(<<o.first>> \o o.more) ELSE 0

\* The collected sets that count against the ceiling.
Counted == [i \in DOMAIN results |-> IF results[i].name = "count" THEN <<>> ELSE results[i].rows]

\* One statement never makes the plugin keep more than MAX_RESULT_ROWS rows,
\* however they are spread over result sets, neither while they are collected
\* nor in the outcome; the affected-rows set is not counted.
Ceiling ==
    /\ RowsIn(Counted) <= MaxRows
    /\ \A i \in DOMAIN outcomes : OutcomeRows(outcomes[i]) <= MaxRows

\* The result sets that a statement with result sets produced itself.
OwnAnswer ==
    LET n == IF plan = "dml" THEN Len(answer) - 1 ELSE Len(answer)
    IN  [i \in 1..n |-> answer[i].rows]

\* The outcome of a statement that returns result sets holds a prefix of every
\* set the server produced up to where reading stopped, in their order; unless
\* truncated is set it holds all of them completely.  DML reports the server's
\* count, and the set that carried it is not part of the outcome.
NothingLostUnmarked ==
    stage = "ready" /\ outcomes # <<>> /\ Last(outcomes).ok /\ plan # "plain"
                    /\ Reading[text].returns =>
        LET o == Last(outcomes)
            kept == IF OwnAnswer = <<>> /\ o.first = <<>> THEN o.more ELSE <<o.first>> \o o.more
        IN  /\ Len(kept) <= Len(OwnAnswer)
            /\ \A i \in DOMAIN kept : IsPrefix(kept[i], OwnAnswer[i])
            /\ ~o.truncated => kept = OwnAnswer
            /\ plan = "dml" => o.affected = Head(Last(answer).rows)

\* A statement fails only if the server or the conversion of one of its rows
\* failed: never because the statement before it in the batch left its stream
\* open, nor because the affected-rows set was lost to the ceiling, but it may
\* when the server took that SELECT for a part of a module.
OwnFaultsOnly ==
    stage = "ready" /\ outcomes # <<>> /\ ~Last(outcomes).ok =>
        \/ Last(outcomes).cause = "server"
        \/ Last(outcomes).cause = "no affected rows" /\ Served[sent].module

\* A host that follows has_more with pages of a size that the ceiling allows
\* gets as many rows as the query has and is told so; those of a query that
\* sorts are its rows in order, each once.  Without ORDER BY rows may repeat
\* (README.md:212-217).
PagesTile ==
    Paged /\ limit \in 1..MaxRows =>
        /\ Served[sent].page = "sorted" => seen = Rows(1, Len(seen))
        /\ stage = "ready" /\ outcomes # <<>> /\ Last(outcomes).ok =>
               (Last(outcomes).hasMore <=> Len(seen) < Total)

\* A page of no rows always has more behind it, and so may one whose clause the
\* server does not read.
Endless == plan = "page" /\ (limit = 0 \/ ~Paged)

\* Every other request comes to an end: each text of the batch gets its outcome
\* and the pages of a query run out, unless the host was told of a failure.
PagingEnds ==
    [](~Endless) =>
        <>[](/\ stage = "ready" /\ batch = <<>>
             /\ Len(outcomes) = 1 /\ outcomes[1].ok => ~outcomes[1].hasMore)
=============================================================================
