------------------------------- MODULE RowEdits -------------------------------
(***************************************************************************)
(* insert_record, update_record, delete_record and the BLOB reads of        *)
(* src/src/driver/ops.rs and blob.rs with the statements that              *)
(* src/src/driver/helpers.rs builds for them: values and keys bound by     *)
(* position, raw expressions, IDENTITY_INSERT around an insert, and the    *)
(* affected-rows count.                                                    *)
(*                                                                         *)
(* One request on its session; meanwhile others                            *)
(* change rows and the table's definition.  The host names rows and values *)
(* by what it was shown of them.                                           *)
(***************************************************************************)
EXTENDS CellValues, FiniteSets, SequencesExt

CONSTANTS Cells,       \* cells of the data column, by its type
          Displayed,   \* cells of any column, by its type
          KeyValues,   \* values of the two key columns, which are bigint
          MaxTableRows,
          BlobLimits,  \* values of max_blob_size; NoBlobLimit: a save to a file
          NoBlobLimit

ASSUME EditAssumption ==
    /\ KeyValues \subseteq (-I64Max - 1)..I64Max /\ MaxTableRows \in Nat
    /\ BlobLimits \subseteq Nat /\ NoBlobLimit \notin Nat
    /\ \A t \in DOMAIN Displayed : \A c \in Displayed[t] : IsCell(t, c)
    /\ \A t \in DOMAIN Cells : \A c \in Cells[t] : IsCell(t, c)

VARIABLES
    type,      \* type of the data column
    rows,      \* the table: a set of rows, each a function from columns to cells
    identity,  \* the IDENTITY column of the table, or "none"
    session,   \* [on, discard]: IDENTITY_INSERT, and whether it is not reused
    stage,     \* where the request is
    intent,    \* what the host wants done, in the server's terms (history)
    request,   \* the request as the host sent it
    probed,    \* what it learned of the table: the identity column, the data type
    statement, \* the statement it built
    answer     \* [result, count, bytes] of the request

table == <<type, rows, identity>>
vars == <<type, rows, identity, session, stage, intent, request, probed, statement, answer>>

\* The columns of the table in the order in which the plugin sorts them.
Columns == <<"data", "key1", "key2">>
KeyColumns == {"key1", "key2"}

\* What sequence s has at the positions of P, in their order; the place of i
\* among them is that of s[i] in the result.
Place(P, i) == Cardinality(P \cap 1..i)
At(s, P) == [k \in 1..Cardinality(P) |-> s[CHOOSE i \in P : Place(P, i) = k]]

Sorted(S) == At(Columns, {i \in DOMAIN Columns : Columns[i] \in S})

TypeOf(column) == IF column = "data" THEN type ELSE "bigint"
KeyCell(n) == <<"bigint", n>>
KeyOf(row) == [c \in KeyColumns |-> row[c]]
Keys == [KeyColumns -> {KeyCell(n) : n \in KeyValues}]
DataCells == Cells[type] \cup {Null}
TableRows == {[data |-> d, key1 |-> k["key1"], key2 |-> k["key2"]] : d \in DataCells, k \in Keys}

\* No two rows have the same key.
Unique(S) == \A r, s \in S : KeyOf(r) = KeyOf(s) => r = s

NoAnswer == [result |-> "none", count |-> 0, bytes |-> <<>>]
Refusal == [NoAnswer EXCEPT !.result = "refused"]
Error(cause) == [NoAnswer EXCEPT !.result = cause]

Init ==
    /\ type \in DOMAIN Cells
    /\ rows = {} /\ identity = "none"
    /\ session = [on |-> FALSE, discard |-> FALSE]
    /\ stage = "idle" /\ intent = <<>> /\ request = <<>> /\ probed = "none" /\ statement = <<>>
    /\ answer = NoAnswer
-----------------------------------------------------------------------------
(* Requests.                                                               *)

\* A cell as the host sends it back, or as an expression that the user wrote.
Wire(cell, how) ==
    IF cell = Null THEN Null ELSE IF how = "raw" THEN <<"raw", cell>> ELSE Shown(cell)

\* pk_map: the key of a row as it was shown, or nothing.
PkMap(key, S) == [c \in S |-> Shown(key[c])]

\* What the host wants done: [kind, key, cell, how], the parts of an insert
\* that are given, the limit of a preview.
Intents ==
    [kind : {"insert"}, key : Keys, cell : DataCells, how : {"shown", "raw"},
     given : SUBSET Range(Columns), limit : {NoBlobLimit}]
      \cup [kind : {"update"}, key : Keys, cell : DataCells \cup {<<"raw", Blank>>},
            how : {"shown", "raw"}, given : {{}, KeyColumns}, limit : {NoBlobLimit}]
      \cup [kind : {"delete"}, key : Keys, cell : {Null}, how : {"shown"},
            given : {{}, KeyColumns}, limit : {NoBlobLimit}]
      \cup [kind : {"fetch"}, key : Keys, cell : {Null}, how : {"shown"},
            given : {{}, KeyColumns}, limit : BlobLimits \cup {NoBlobLimit}]

\* The request that the host sends for it.
RequestFor(i) ==
    CASE i.kind = "insert" ->
           [kind |-> i.kind, data |-> [c \in i.given |-> IF c = "data" THEN Wire(i.cell, i.how)
                                                         ELSE Shown(i.key[c])]]
      [] i.kind = "update" ->
           [kind |-> i.kind, keys |-> PkMap(i.key, i.given),
            value |-> IF i.cell[1] = "raw" THEN i.cell ELSE Wire(i.cell, i.how)]
      [] i.kind = "delete" -> [kind |-> i.kind, keys |-> PkMap(i.key, i.given)]
      [] i.kind = "fetch"  -> [kind |-> i.kind, keys |-> PkMap(i.key, i.given), limit |-> i.limit]

\* A request comes for a session that was reset.
Ask ==
    /\ stage = "idle"
    /\ \E i \in Intents : intent' = i /\ request' = RequestFor(i)
    /\ stage' = "asked"
    /\ UNCHANGED <<table, session, probed, statement, answer>>

Answer(a) == stage' = "answered" /\ answer' = a
-----------------------------------------------------------------------------
(* What the server is asked before: detect_identity_column, get_columns.   *)

Probe ==
    /\ stage = "asked"
    /\ CASE request.kind = "insert" ->
              IF request.data = <<>> THEN Answer(Refusal) /\ UNCHANGED probed
              ELSE probed' = identity /\ stage' = "ready" /\ UNCHANGED answer
         [] request.kind = "fetch" ->
              IF type # "binary" THEN Answer(Refusal) /\ UNCHANGED probed
              ELSE probed' = type /\ stage' = "ready" /\ UNCHANGED answer
         [] OTHER -> stage' = "ready" /\ UNCHANGED <<probed, answer>>
    /\ UNCHANGED <<table, session, intent, request, statement>>
-----------------------------------------------------------------------------
(* Building the statement.  An expression is <<"marker", n>> for @Pn or    *)
(* <<"raw", cell>>.                                                        *)

Marker(n) == <<"marker", n>>

\* Mutant: a raw value uses up a marker.
MarkersByColumn(data, columns) ==
    [i \in 1..Len(columns) |->
        IF IsRaw(data[columns[i]]) THEN <<"raw", Expression(data[columns[i]])>> ELSE Marker(i)]

BoundPositions(data, columns) == {i \in DOMAIN columns : ~IsRaw(data[columns[i]])}

\* The value expressions of insert_record: raw values consume no marker.
ValueExpressions(data, columns) ==
    [i \in 1..Len(columns) |->
        IF IsRaw(data[columns[i]]) THEN <<"raw", Expression(data[columns[i]])>>
        ELSE Marker(Place(BoundPositions(data, columns), i))]

\* Parameters in the order of their markers.
BoundValues(data, columns) ==
    LET bound == At(columns, BoundPositions(data, columns))
    IN  [i \in 1..Len(bound) |-> Bind(data[bound[i]])]

\* Mutant: the keys are bound in the order of the map, not of the clause.
KeysOfMap(keys) == LET s == Reverse(Sorted(DOMAIN keys)) IN [i \in 1..Len(s) |-> Bind(keys[s[i]])]

BoundKeys(keys) == LET s == Sorted(DOMAIN keys) IN [i \in 1..Len(s) |-> Bind(keys[s[i]])]

\* build_pk_where_clause: the condition on each key column.
WhereClause(keys, first) ==
    LET s == Sorted(DOMAIN keys)
    IN  {<<s[i], Marker(first + i - 1)>> : i \in 1..Len(s)}

\* Mutant: without the CATCH block.
BatchUncaught(identityInsert) ==
    IF identityInsert THEN [try |-> <<"on", "edit", "count", "off">>, catch |-> <<>>]
    ELSE [try |-> <<"edit", "count">>, catch |-> <<>>]

\* build_insert_sql_with_expressions, wrap_dml_with_rowcount: the statements
\* of the batch, "edit" for the DML itself.
Batch(identityInsert) ==
    IF identityInsert THEN [try |-> <<"on", "edit", "count", "off">>, catch |-> <<"off">>]
    ELSE [try |-> <<"edit", "count">>, catch |-> <<>>]

InsertStatement(data) ==
    LET columns == Sorted(DOMAIN data)
    IN  [columns |-> columns, expressions |-> ValueExpressions(data, columns), where |-> {},
         params |-> BoundValues(data, columns), batch |-> Batch(probed \in DOMAIN data)]

UpdateStatement(keys, value) ==
    LET params == IF IsRaw(value) THEN <<>> ELSE <<Bind(value)>>
    IN  [columns |-> <<"data">>,
         expressions |-> <<IF IsRaw(value) THEN <<"raw", Expression(value)>> ELSE Marker(1)>>,
         where |-> WhereClause(keys, Len(params) + 1), params |-> params \o BoundKeys(keys),
         batch |-> Batch(FALSE)]

DeleteStatement(keys) ==
    [columns |-> <<>>, expressions |-> <<>>, where |-> WhereClause(keys, 1),
     params |-> BoundKeys(keys), batch |-> Batch(FALSE)]

\* Mutant: the limit's marker is forgotten.
FetchUnshifted(keys, limit) ==
    [columns |-> <<>>, expressions |-> <<>>, where |-> WhereClause(keys, 1),
     params |-> (IF limit = NoBlobLimit THEN <<>> ELSE <<<<"bigint", limit>>>>) \o BoundKeys(keys),
     batch |-> [try |-> <<>>, catch |-> <<>>]]

\* fetch_blob_bytes: a limit is the first parameter.
FetchStatement(keys, limit) ==
    LET params == IF limit = NoBlobLimit THEN <<>> ELSE <<<<"bigint", limit>>>>
    IN  [columns |-> <<>>, expressions |-> <<>>, where |-> WhereClause(keys, Len(params) + 1),
         params |-> params \o BoundKeys(keys), batch |-> [try |-> <<>>, catch |-> <<>>]]

Build ==
    /\ stage = "ready"
    /\ LET built == CASE request.kind = "insert" -> InsertStatement(request.data)
                      [] request.kind = "update" -> UpdateStatement(request.keys, request.value)
                      [] request.kind = "delete" -> DeleteStatement(request.keys)
                      [] request.kind = "fetch"  -> FetchStatement(request.keys, request.limit)
       IN  IF \/ request.kind # "insert" /\ built.where = {}
              \/ Refused \in Range(built.params)
              \/ <<"raw", Refused>> \in Range(built.expressions)
           THEN Answer(Refusal) /\ UNCHANGED statement
           ELSE statement' = built /\ stage' = "built" /\ UNCHANGED answer
    /\ UNCHANGED <<table, session, intent, request, probed>>
-----------------------------------------------------------------------------
(* The server executes it.                                                 *)

Evaluated(expression) ==
    IF expression[1] = "raw" THEN expression[2]
    ELSE IF expression[2] \in DOMAIN statement.params THEN statement.params[expression[2]]
    ELSE <<"error", "no such parameter">>

\* Value of the i-th expression in its column.
ValueAt(i) ==
    LET value == Evaluated(statement.expressions[i])
    IN  IF value[1] = "error" THEN value ELSE Convert(value, TypeOf(statement.columns[i]))

\* Values of the WHERE clause; nothing equals NULL.
Sought(condition) ==
    LET value == Evaluated(condition[2])
    IN  IF value[1] = "error" THEN value ELSE Convert(value, TypeOf(condition[1]))

Wrong == {v \in {ValueAt(i) : i \in DOMAIN statement.expressions}
                  \cup {Sought(w) : w \in statement.where} : v[1] = "error"}

Hit == {r \in rows : \A w \in statement.where : r[w[1]] = Sought(w) /\ Sought(w) # Null}

Assigned(row) ==
    [c \in DOMAIN row |->
        IF c \in Range(statement.columns)
        THEN ValueAt(CHOOSE i \in DOMAIN statement.columns : statement.columns[i] = c) ELSE row[c]]

\* New tables that the DML may leave; none when it fails.
Edited(on) ==
    CASE Wrong # {} -> {}
      [] Wrong = {} /\ request.kind = "delete" -> {rows \ Hit}
      [] Wrong = {} /\ request.kind = "update" -> {(rows \ Hit) \cup {Assigned(r) : r \in Hit}}
      [] Wrong = {} /\ request.kind = "insert" ->
            LET given == Range(statement.columns)
                blank == [data |-> Null, key1 |-> Null, key2 |-> Null]
                news == IF identity \in given THEN IF on THEN {Assigned(blank)} ELSE {}
                        ELSE IF identity = "none" THEN {Assigned(blank)}
                        ELSE IF on THEN {}
                        ELSE {[Assigned(blank) EXCEPT ![identity] = KeyCell(n)] : n \in KeyValues}
            IN  {rows \cup {r} : r \in {n \in news : /\ \A c \in KeyColumns : n[c] # Null
                                                     /\ \A s \in rows : KeyOf(s) # KeyOf(n)}}

\* The rows a DML statement reports are those it removed or assigned.
Touched(after) == IF request.kind = "insert" THEN Cardinality(after \ rows) ELSE Cardinality(Hit)

\* One statement of the batch on st = [rows, on, rowcount, counted, failed,
\* denied]: a constraint, a trigger or a missing permission denies the DML.
Step(st, s) ==
    CASE s = "on"    -> {IF identity = "none" THEN [st EXCEPT !.failed = TRUE]
                         ELSE [st EXCEPT !.on = TRUE, !.rowcount = 0]}
      [] s = "off"   -> {IF identity = "none" THEN [st EXCEPT !.failed = TRUE]
                         ELSE [st EXCEPT !.on = FALSE, !.rowcount = 0]}
      [] s = "count" -> {[st EXCEPT !.counted = st.rowcount]}
      [] s = "edit"  -> IF st.denied \/ Edited(st.on) = {} THEN {[st EXCEPT !.failed = TRUE]}
                        ELSE {[st EXCEPT !.rows = t, !.rowcount = Touched(t)] : t \in Edited(st.on)}

\* What a sequence of statements may lead to; it ends at the first that fails.
Steps(states, block) ==
    FoldLeft(LAMBDA S, s : UNION {IF st.failed THEN {st} ELSE Step(st, s) : st \in S},
             states, block)

Start(denied) ==
    [rows |-> rows, on |-> session.on, rowcount |-> 0, counted |-> 0, failed |-> FALSE,
     denied |-> denied]

\* How the whole batch may end, its CATCH block included, which throws again.
Ends(denied) ==
    UNION {IF ~st.failed THEN {st}
           ELSE {[e EXCEPT !.failed = TRUE] : e \in Steps({[st EXCEPT !.failed = FALSE]}, statement.batch.catch)}
             : st \in Steps({Start(denied)}, statement.batch.try)}

Execute ==
    /\ stage = "built" /\ request.kind # "fetch"
    /\ \E denied \in BOOLEAN : \E st \in Ends(denied) :
         /\ rows' = st.rows /\ session' = [session EXCEPT !.on = st.on]
         /\ Answer(IF ~st.failed THEN [NoAnswer EXCEPT !.result = "ok", !.count = st.counted]
                   ELSE IF <<"error", "no such parameter">> \in Wrong THEN Error("unbound")
                   ELSE IF denied THEN Error("denied") ELSE Error("server"))
    /\ UNCHANGED <<type, identity, intent, request, probed, statement>>

\* The call times out or the connection breaks after any of the statements:
\* the session is not used again.
Cancelled ==
    /\ stage = "built" /\ request.kind # "fetch"
    /\ \E n \in 0..Len(statement.batch.try) :
         \E st \in Steps({Start(FALSE)}, SubSeq(statement.batch.try, 1, n)) :
             /\ rows' = st.rows
             /\ session' = [on |-> st.on, discard |-> TRUE]
    /\ Answer(Error("lost"))
    /\ UNCHANGED <<type, identity, intent, request, probed, statement>>

\* The bytes of a BLOB, or why there are none: ensure_preview_size.
Fetched(row) ==
    LET bytes == row["data"][2]
    IN  IF row["data"] = Null THEN Error("null")
        ELSE IF request.limit # NoBlobLimit /\ Len(bytes) > request.limit THEN Error("too large")
        ELSE [NoAnswer EXCEPT !.result = "ok", !.bytes = bytes]

Fetch ==
    /\ stage = "built" /\ request.kind = "fetch"
    /\ \/ Answer(Error("denied"))
       \/ Wrong # {} /\ Answer(Error("unbound"))
       \/ Wrong = {} /\ Hit = {} /\ Answer(Error("not found"))
       \/ Wrong = {} /\ \E r \in Hit : Answer(Fetched(r))
    /\ UNCHANGED <<table, session, intent, request, probed, statement>>
-----------------------------------------------------------------------------
(* Others.                                                                 *)

\* Another client inserts or deletes a row.
Elsewhere ==
    /\ stage # "answered"
    /\ \E r \in TableRows :
         rows' = IF r \in rows THEN rows \ {r} ELSE rows \cup {r}
    /\ Unique(rows') /\ Cardinality(rows') <= MaxTableRows
    /\ UNCHANGED <<type, identity, session, stage, intent, request, probed, statement, answer>>

\* The table gets or loses its IDENTITY property.
Redefine ==
    /\ stage # "answered"
    /\ identity' = IF identity = "none" THEN "key1" ELSE "none"
    /\ UNCHANGED <<type, rows, session, stage, intent, request, probed, statement, answer>>

Edit == Execute \/ Cancelled \/ Fetch
Next == Ask \/ Probe \/ Build \/ Edit \/ Elsewhere \/ Redefine

Spec == Init /\ [][Next]_vars
-----------------------------------------------------------------------------
(* Properties.                                                             *)

\* A cell that was shown comes back as the cell it was, or is refused: big
\* integers, numbers that the host's doubles change, ticks of a datetime,
\* bytes.  Not so a text that looks like the BLOB notation.
ShownCellsBindBack ==
    stage = "idle" => \A t \in DOMAIN Displayed : \A c \in Displayed[t] : BindsBack(t, c)

Target == {r \in rows : KeyOf(r) = intent.key}

\* The table once the update or delete of the intent is done.
Wanted ==
    (rows \ Target) \cup (IF intent.kind = "update" THEN {[r EXCEPT !["data"] = intent.cell] : r \in Target}
                          ELSE {})

\* A step in which the server's part of a request of these kinds ends.
Settles(kinds) == stage = "built" /\ stage' = "answered" /\ intent.kind \in kinds

Misread == intent.how = "shown" /\ LooksLikeBlob(intent.cell)

\* An update or delete of a row by the key that the host was shown changes that
\* row, as it is then, and no other; it sets the value that was shown or
\* written, and reports how many rows it changed.  When it is cut off it has
\* done this or nothing; when the server denies it, the host is told and nothing
\* is changed; it fails for no other reason (ops.rs:478-554).
EditsAreExact ==
    [][Settles({"update", "delete"}) /\ ~Misread =>
           /\ rows' \in {rows, Wanted}
           /\ ~session'.discard => answer'.result \in {"ok", "denied"}
           /\ answer'.result = "denied" => rows' = rows
           /\ answer'.result = "ok" => /\ rows' = Wanted
                                       /\ answer'.count = Cardinality(Target)]_vars

\* The row that an insert adds holds the given values in their columns, also
\* when some are raw expressions or NULL; one row is reported.  An insert that
\* fails adds nothing, and never for want of a parameter.
InsertsAsGiven ==
    [][Settles({"insert"}) /\ ~Misread =>
           /\ answer'.result # "unbound"
           /\ rows' # rows =>
                 \E r \in rows' : /\ rows' \ {r} = rows
                                  /\ \A c \in intent.given \cap KeyColumns : r[c] = intent.key[c]
                                  /\ r["data"] = IF "data" \in intent.given THEN intent.cell ELSE Null
           /\ answer'.result = "ok" => rows' # rows /\ answer'.count = 1
           /\ answer'.result \in {"server", "denied"} => rows' = rows]_vars

\* A session that goes back to the pool after an insert does not have
\* IDENTITY_INSERT on, whatever became of the insert and of the table.
IdentityInsertCleared == stage = "answered" /\ ~session.discard => ~session.on

\* A preview or an export that the server does not deny is the value of the row
\* that the host named, as it is when the server reads it; a preview above the
\* limit is refused.
FetchesTheValue ==
    [][Settles({"fetch"}) /\ answer'.result # "denied" =>
           /\ answer'.result = "not found" <=> Target = {}
           /\ \A r \in Target :
                 IF r["data"] = Null THEN answer'.result = "null"
                 ELSE IF intent.limit # NoBlobLimit /\ Len(r["data"][2]) > intent.limit
                 THEN answer'.result = "too large"
                 ELSE answer'.result = "ok" /\ answer'.bytes = r["data"][2]]_vars
=============================================================================
