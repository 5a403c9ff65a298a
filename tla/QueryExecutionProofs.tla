------------------------ MODULE QueryExecutionProofs ------------------------
(***************************************************************************)
(* Proofs about QueryExecution, for any texts, result sets, ceiling, table,*)
(* orders and page sizes: what is collected is a faithful part of the      *)
(* answer and never more than the ceiling, and pages tile the table; the   *)
(* scanner sees the tokens that the server acts upon, and what is added to *)
(* a text that the server accepts becomes the statement, or the part of    *)
(* one, that it is meant to be.                                            *)
(***************************************************************************)
EXTENDS QueryExecution, FiniteSetTheorems, SequenceTheorems, TLAPS

Texts == Seq(Words \cup Marks)
Sets == [name : {"rows", "count"}, rows : Seq(Nat)]
Kept == [name : {"rows", "count"}, rows : Seq(Nat), cut : BOOLEAN]
Outcomes ==
    [ok : {FALSE}, cause : {"server", "no affected rows", "open stream"}]
      \cup [ok : {TRUE}, first : Seq(Nat), more : Seq(Seq(Nat)), truncated : BOOLEAN,
            hasMore : BOOLEAN, affected : Nat]

TypeInv ==
    /\ batch \in Seq(Texts) /\ text \in Texts
    /\ limit \in PageSizes \cup {NoLimit}
    /\ page \in Nat
    /\ stage \in {"ready", "next", "rows"}
    /\ plan \in {"none", "dml", "plain", "page", "rows"}
    /\ stage # "ready" => plan # "none"
    /\ plan = "page" => limit # NoLimit
    /\ answer \in Seq(Sets) /\ stream \in Seq(Sets)
    /\ results \in Seq(Kept) /\ retained \in Nat
    /\ outcomes \in Seq(Outcomes)
    /\ seen \in Seq(Nat)
-----------------------------------------------------------------------------
(* The text that is executed.                                              *)

Asked == UNION {Range(b) : b \in Batches}

\* The current text is one that was asked for and is executed by its own plan.
Planned ==
    /\ \A i \in 1..Len(batch) : batch[i] \in Asked
    /\ plan # "none" => text \in Asked /\ plan = PlanOf(text) /\ sent = TextFor(text)

LEMMA SamePlan == ASSUME NEW q, limit' = limit PROVE PlanOf(q)' = PlanOf(q)
BY DEF PlanOf

LEMMA SameText == ASSUME NEW q, limit' = limit PROVE TextFor(q)' = TextFor(q)
BY DEF PlanOf, TextFor

LEMMA PlannedInit == Init => Planned
<1>. SUFFICES ASSUME Init PROVE Planned
  OBVIOUS
<1>1. batch \in Batches /\ batch \in Seq(Seq(Words \cup Marks)) /\ plan = "none"
  BY QueryAssumption DEF Init
<1>2. \A i \in 1..Len(batch) : batch[i] \in Range(batch)
  BY <1>1 DEF Range
<1>. QED
  BY <1>1, <1>2 DEF Planned, Asked

LEMMA PlannedNext == ASSUME TypeInv, Planned, [Next]_vars PROVE Planned'
<1>1. ASSUME Send PROVE Planned'
  <2>1. batch \in Seq(Texts) /\ batch # <<>>
    BY <1>1 DEF Send, TypeInv
  <2>2. /\ text' = Head(batch) /\ batch' = Tail(batch) /\ limit' = limit
        /\ plan' = PlanOf(Head(batch)) /\ sent' = TextFor(Head(batch))
    BY <1>1 DEF Send
  <2>3. Head(batch) = batch[1] /\ 1 \in 1..Len(batch)
    BY <2>1
  <2>4. Len(batch') = Len(batch) - 1 /\ \A i \in 1..(Len(batch) - 1) : batch'[i] = batch[i + 1]
    BY <2>1, <2>2
  <2>5. \A i \in 1..(Len(batch) - 1) : i + 1 \in 1..Len(batch)
    BY <2>1
  <2>6. PICK h : h = Head(batch) /\ text' = h
    BY <2>2
  <2>7. PlanOf(h)' = PlanOf(h) /\ TextFor(h)' = TextFor(h)
    BY <2>2, SamePlan, SameText
  <2>8. plan' = PlanOf(text)' /\ sent' = TextFor(text)'
    BY <2>2, <2>6, <2>7
  <2>. QED
    BY <2>2, <2>3, <2>4, <2>5, <2>8 DEF Planned
<1>2. ASSUME NextPage PROVE Planned'
  <2>1. /\ batch' = <<text>> /\ plan = "page"
        /\ UNCHANGED <<limit, plan, text, sent>>
    BY <1>2 DEF NextPage
  <2>2. Len(batch') = 1 /\ batch'[1] = text
    BY <2>1
  <2>3. PlanOf(text)' = PlanOf(text) /\ TextFor(text)' = TextFor(text)
    BY <2>1 DEF PlanOf, TextFor
  <2>. QED
    BY <2>1, <2>2, <2>3 DEF Planned
<1>3. ASSUME RunPlain \/ Fail \/ Collect \/ UNCHANGED vars PROVE Planned'
  <2>1. UNCHANGED <<batch, limit, plan, text, sent>>
    BY <1>3 DEF RunPlain, Fail, Collect, OpenSet, RetainRow, DropRow, EndSet, Finish,
                requestVars, vars
  <2>2. PlanOf(text)' = PlanOf(text) /\ TextFor(text)' = TextFor(text)
    BY <2>1 DEF PlanOf, TextFor
  <2>. QED
    BY <2>1, <2>2 DEF Planned
<1>. QED
  BY <1>1, <1>2, <1>3 DEF Next
-----------------------------------------------------------------------------
(* The operators of the model.                                             *)

LEMMA LastReplaced ==
    ASSUME NEW S, NEW s \in Seq(S), s # <<>>, NEW r \in S
    PROVE  LET t == Append(Front(s), r)
           IN  /\ t \in Seq(S) /\ Len(t) = Len(s) /\ t # <<>>
               /\ t[Len(s)] = r
               /\ \A i \in 1..(Len(s) - 1) : t[i] = s[i]
<1>. DEFINE n == Len(s)
            f == Front(s)
            t == Append(f, r)
<1>1. n \in Nat \ {0}
  OBVIOUS
<1>2. f \in Seq(S) /\ Len(f) = n - 1 /\ \A i \in 1..(n - 1) : f[i] = s[i]
  <2>1. 1 \in Int /\ n - 1 \in Int /\ \A i \in 1..(n - 1) : s[i] \in S
    BY <1>1
  <2>2. f = SubSeq(s, 1, n - 1)
    BY DEF Front
  <2>. HIDE DEF f, n
  <2>3. /\ SubSeq(s, 1, n - 1) \in Seq(S)
        /\ Len(SubSeq(s, 1, n - 1)) = IF 1 <= n - 1 THEN n - 1 - 1 + 1 ELSE 0
        /\ \A i \in 1..(n - 1 - 1 + 1) : SubSeq(s, 1, n - 1)[i] = s[1 + i - 1]
    BY <2>1, SubSeqProperties
  <2>. QED
    BY <1>1, <2>2, <2>3
<1>. HIDE DEF f
<1>3. t \in Seq(S) /\ Len(t) = n /\ t[n] = r /\ \A i \in 1..(n - 1) : t[i] = f[i]
  BY <1>1, <1>2
<1>4. t # <<>>
  BY <1>1, <1>3
<1>. QED
  BY <1>2, <1>3, <1>4 DEF f

LEMMA CurrentType ==
    ASSUME results \in Seq(Kept), results # <<>>
    PROVE  Current \in Kept /\ Current = results[Len(results)]
BY DEF Current, Last

LEMMA SetExcept ==
    ASSUME NEW r \in Sets, NEW x
    PROVE  [r EXCEPT !.rows = x] = [name |-> r.name, rows |-> x]
BY DEF Sets

LEMMA ConsumedType ==
    ASSUME stream \in Seq(Sets), stream # <<>>, Head(stream).rows # <<>>
    PROVE  /\ Consumed \in Seq(Sets) /\ Len(Consumed) = Len(stream)
           /\ Head(stream) = stream[1] /\ stream[1] \in Sets
           /\ Consumed[1] = [name |-> stream[1].name, rows |-> Tail(stream[1].rows)]
           /\ \A i \in 2..Len(stream) : Consumed[i] = stream[i]
<1>1. Head(stream) = stream[1] /\ stream[1] \in Sets /\ 1 \in DOMAIN stream
  OBVIOUS
<1>2. Tail(stream[1].rows) \in Seq(Nat)
  BY <1>1 DEF Sets
<1>3. [stream[1] EXCEPT !.rows = Tail(@)] = [name |-> stream[1].name, rows |-> Tail(stream[1].rows)]
  BY <1>1, SetExcept
<1>4. [name |-> stream[1].name, rows |-> Tail(stream[1].rows)] \in Sets
  BY <1>1, <1>2 DEF Sets
<1> QED
  BY <1>1, <1>3, <1>4 DEF Consumed

LEMMA RowsType ==
    ASSUME NEW a \in Nat, NEW b \in Nat
    PROVE  /\ Rows(a, b) \in Seq(Int) /\ Len(Rows(a, b)) = IF b < a THEN 0 ELSE b - a + 1
           /\ Rows(a, b) \in Seq(Nat)
           /\ \A i \in 1..Len(Rows(a, b)) : Rows(a, b)[i] = a + i - 1
BY DEF Rows

LEMMA PlanRange ==
    ASSUME NEW q
    PROVE  /\ PlanOf(q) \in {"dml", "plain", "page", "rows"}
           /\ PlanOf(q) = "page" => limit # NoLimit
BY DEF PlanOf

\* What the classifiers make of a text decides how it is executed.
LEMMA PlanReads ==
    ASSUME NEW q \in Asked
    PROVE  /\ PlanOf(q) = "dml" => TextFor(q) = Wrapped(q)
           /\ PlanOf(q) = "page" => TextFor(q) = Paginated(q) /\ CanBePaginated(q)
<1>1. /\ Reading[q].wrapped = Wrapped(q) /\ Reading[q].paginated = Paginated(q)
      /\ Reading[q].pageable = CanBePaginated(q)
  BY DEF Reading, Asked
<1>. QED
  BY <1>1 DEF PlanOf, TextFor

\* How the server reads what is sent for a text.
LEMMA WhatIsServed ==
    ASSUME NEW q \in Asked
    PROVE  LET x == Served[TextFor(q)]
           IN  /\ x.refused = Refused(TextFor(q))
               /\ x.module = CreatesModule(ServerCode(TextFor(q)))
               /\ x.statements = ServerStatements(ServerCode(TextFor(q)))
               /\ x.page \in {"sorted", "unsorted", "whole", "other"}
               /\ x.module => x.page = "other"
<1>1. /\ Reading[q].wrapped = Wrapped(q) /\ Reading[q].paginated = Paginated(q)
  BY DEF Reading, Asked
<1>2. PICK t : t = TextFor(q)
  OBVIOUS
<1>3. t \in {q, Wrapped(q), Paginated(q)}
  BY <1>1, <1>2 DEF TextFor
<1>4. t \in UNION {UNION {{u, Wrapped(u), Paginated(u)} : u \in Range(b)} : b \in Batches}
  BY <1>3 DEF Asked
<1>5. Served[t] = [refused |-> Refused(t), module |-> CreatesModule(ServerCode(t)),
                   page |-> PageRead(t), statements |-> ServerStatements(ServerCode(t))]
  BY <1>4 DEF Served
<1>6. /\ PageRead(t) \in {"sorted", "unsorted", "whole", "other"}
      /\ CreatesModule(ServerCode(t)) => PageRead(t) = "other"
  BY DEF PageRead
<1>. QED
  BY <1>2, <1>5, <1>6

\* The sets a statement produces itself.
LEMMA OwnSetsType ==
    ASSUME NEW s \in OwnSets
    PROVE  s \in Seq(Sets) /\ \A i \in DOMAIN s : s[i].name = "rows"
<1>. DEFINE sets == {Set("rows", Rows(1, n)) : n \in 0..MaxSetRows}
<1>1. \A x \in sets : x \in Sets /\ x.name = "rows"
  <2>1. ASSUME NEW n \in 0..MaxSetRows
        PROVE  Set("rows", Rows(1, n)) \in Sets /\ Set("rows", Rows(1, n)).name = "rows"
    <3>1. n \in Nat
      BY QueryAssumption
    <3>2. Rows(1, n) \in Seq(Nat)
      BY <3>1, RowsType
    <3>. QED
      BY <3>2 DEF Set, Sets
  <2>. QED
    BY <2>1
<1>2. s = <<>> \/ \E n \in 0..MaxSets : s \in [1..n -> sets]
  BY DEF OwnSets
<1>. HIDE DEF sets
<1>3. CASE s = <<>>
  BY <1>3
<1>4. ASSUME NEW n \in 0..MaxSets, s \in [1..n -> sets] PROVE s \in Seq(Sets) /\ \A i \in DOMAIN s : s[i].name = "rows"
  <2>1. \A i \in 1..n : s[i] \in Sets /\ s[i].name = "rows"
    BY <1>1, <1>4
  <2>2. n \in Nat
    BY <1>4, QueryAssumption
  <2>. QED
    BY <1>4, <2>1, <2>2
<1>. QED
  BY <1>2, <1>3, <1>4

\* What the server answers with, by the plan, how it reads the text (x), and the
\* rows r that a page clause asks for.
AnswerShape(a, p, x, r) ==
    /\ a \in Seq(Sets)
    /\ \A i \in 1..Len(a) : a[i].name = IF p = "dml" /\ i = Len(a) THEN "count" ELSE "rows"
    /\ p = "dml" => IF x.module THEN a = <<>> ELSE Len(a) > 0 /\ Len(a[Len(a)].rows) = 1
    /\ p = "page" /\ x.page \in {"sorted", "unsorted"} =>
          Len(a) = 1 /\ Len(a[1].rows) = Len(r)
    /\ p = "page" /\ x.page = "sorted" => a[1].rows = r

LEMMA OffsetType ==
    ASSUME TypeInv, NEW n \in PageSizes
    PROVE  n \in Nat /\ Offset(n) \in Nat /\ Fetch(n) \in Nat
<1>1. n \in Nat /\ U32Max \in Nat /\ page \in Nat
  BY QueryAssumption DEF TypeInv
<1>2. (IF page = 0 THEN 0 ELSE page - 1) \in Nat
  BY <1>1
<1>3. (IF page = 0 THEN 0 ELSE page - 1) * n \in Nat
  BY <1>1, <1>2
<1>. QED
  BY <1>1, <1>3 DEF Offset, Fetch, AtMost

\* A page is rows of the table.
LEMMA RequestedType ==
    ASSUME TypeInv, limit # NoLimit
    PROVE  /\ Requested = Rows(Offset(limit) + 1, AtMost(Offset(limit) + Fetch(limit), Total))
           /\ Requested \in Seq(Nat)
           /\ \A i \in 1..Len(Requested) : Requested[i] \in 1..Total
<1>1. limit \in PageSizes
  BY DEF TypeInv
<1>. DEFINE l == Offset(limit)
            e == AtMost(l + Fetch(limit), Total)
<1>2. l \in Nat /\ Fetch(limit) \in Nat /\ Total \in Nat
  BY <1>1, OffsetType, QueryAssumption
<1>. HIDE DEF l
<1>3. e \in Nat /\ e <= Total /\ l + 1 \in Nat
  BY <1>2 DEF AtMost
<1>4. Requested = Rows(l + 1, e)
  BY DEF Requested, l, e
<1>. HIDE DEF e
<1>5. /\ Rows(l + 1, e) \in Seq(Nat) /\ Len(Rows(l + 1, e)) = IF e < l + 1 THEN 0 ELSE e - (l + 1) + 1
      /\ \A i \in 1..Len(Rows(l + 1, e)) : Rows(l + 1, e)[i] = l + 1 + i - 1
  BY <1>3, RowsType
<1>6. ASSUME NEW i \in 1..Len(Rows(l + 1, e)) PROVE Rows(l + 1, e)[i] \in 1..Total
  <2>1. i \in Nat /\ i >= 1 /\ e >= l + 1 /\ i <= e - (l + 1) + 1
    BY <1>2, <1>3, <1>5
  <2>2. Rows(l + 1, e)[i] = l + 1 + i - 1
    BY <1>5
  <2>. QED
    BY <1>2, <1>3, <2>1, <2>2
<1>. QED
  BY <1>4, <1>5, <1>6 DEF l, e

\* A page is asked for by the request alone.
LEMMA RequestedStill ==
    ASSUME limit' = limit, page' = page
    PROVE  Requested' = Requested
BY DEF Requested, Offset, Fetch

\* Rows of the table in some order are the answer of one set.
LEMMA SomeOrder ==
    ASSUME NEW rows \in Seq(Nat), \A i \in 1..Len(rows) : rows[i] \in 1..Total,
           NEW a \in InSomeOrder(rows)
    PROVE  a \in Seq(Sets) /\ Len(a) = 1 /\ a[1].name = "rows" /\ Len(a[1].rows) = Len(rows)
<1>1. PICK order \in Orders : a = <<Set("rows", [i \in DOMAIN rows |-> order[rows[i]]])>>
  BY DEF InSomeOrder
<1>. DEFINE t == [i \in DOMAIN rows |-> order[rows[i]]]
<1>2. DOMAIN rows = 1..Len(rows) /\ Len(rows) \in Nat
  OBVIOUS
<1>3. order \in [1..Total -> 1..Total] /\ Total \in Nat
  BY QueryAssumption
<1>4. \A i \in 1..Len(rows) : order[rows[i]] \in Nat
  BY <1>3
<1>5. t \in Seq(Nat) /\ Len(t) = Len(rows)
  BY <1>2, <1>4
<1>. HIDE DEF t
<1>6. Set("rows", t) \in Sets /\ Set("rows", t).name = "rows" /\ Set("rows", t).rows = t
  BY <1>5 DEF Set, Sets
<1>. QED
  BY <1>1, <1>5, <1>6 DEF t

LEMMA PageShape ==
    ASSUME TypeInv, NEW q \in Asked, PlanOf(q) = "page", ~Served[TextFor(q)].module,
           NEW a \in Answers(q)
    PROVE  AnswerShape(a, "page", Served[TextFor(q)], Requested)
<1>1. a \in PageAnswers(Served[TextFor(q)].page)
  BY DEF Answers
<1>2. limit # NoLimit
  BY PlanRange
<1>3. /\ Requested \in Seq(Nat)
      /\ \A i \in 1..Len(Requested) : Requested[i] \in 1..Total
  BY <1>2, RequestedType
<1>4. PICK read \in {"sorted", "unsorted", "whole", "other"} : read = Served[TextFor(q)].page
  BY WhatIsServed
<1>5. CASE read = "sorted"
  <2>1. a = <<Set("rows", Requested)>>
    BY <1>1, <1>4, <1>5 DEF PageAnswers
  <2>2. PICK r \in Seq(Nat) : r = Requested
    BY <1>3
  <2>3. Set("rows", r) \in Sets /\ Set("rows", r).name = "rows" /\ Set("rows", r).rows = r
    BY <2>2 DEF Set, Sets
  <2>4. a \in Seq(Sets) /\ Len(a) = 1 /\ a[1] = Set("rows", r)
    BY <2>1, <2>2, <2>3
  <2>. QED
    BY <2>2, <2>3, <2>4 DEF AnswerShape
<1>6. CASE read = "unsorted"
  <2>1. a \in InSomeOrder(Requested)
    BY <1>1, <1>4, <1>6 DEF PageAnswers
  <2>2. a \in Seq(Sets) /\ Len(a) = 1 /\ a[1].name = "rows" /\ Len(a[1].rows) = Len(Requested)
    BY <2>1, <1>3, SomeOrder
  <2>. QED
    BY <1>4, <1>6, <2>2 DEF AnswerShape
<1>7. CASE read = "whole"
  <2>1. a \in InSomeOrder(InOrder)
    BY <1>1, <1>4, <1>7 DEF PageAnswers
  <2>2. InOrder \in Seq(Nat) /\ \A i \in 1..Len(InOrder) : InOrder[i] \in 1..Total
    BY QueryAssumption DEF InOrder
  <2>3. a \in Seq(Sets) /\ Len(a) = 1 /\ a[1].name = "rows"
    BY <2>1, <2>2, SomeOrder
  <2>. QED
    BY <1>4, <1>7, <2>3 DEF AnswerShape
<1>8. CASE read = "other"
  <2>1. a \in OwnSets
    BY <1>1, <1>4, <1>8 DEF PageAnswers
  <2>. QED
    BY <1>4, <1>8, <2>1, OwnSetsType DEF AnswerShape
<1>. QED
  BY <1>5, <1>6, <1>7, <1>8

LEMMA AnswersShape ==
    ASSUME TypeInv, NEW q \in Asked, NEW a \in Answers(q)
    PROVE  AnswerShape(a, PlanOf(q), Served[TextFor(q)], Requested)
<1>1. PlanOf(q) \in {"dml", "plain", "page", "rows"} /\ (PlanOf(q) = "page" => limit # NoLimit)
  BY PlanRange
<1>0. CASE Served[TextFor(q)].module
  <2>1. a = <<>>
    BY <1>0 DEF Answers
  <2>2. Served[TextFor(q)].page = "other"
    BY <1>0, WhatIsServed
  <2>. QED
    BY <1>0, <2>1, <2>2 DEF AnswerShape
<1>2. CASE PlanOf(q) = "dml" /\ ~Served[TextFor(q)].module
  <2>1. PICK s \in OwnSets, c \in 0..1 : a = Append(s, Set("count", <<c>>))
    BY <1>2 DEF Answers
  <2>2. s \in Seq(Sets) /\ \A i \in 1..Len(s) : s[i].name = "rows"
    BY OwnSetsType
  <2>. DEFINE x == Set("count", <<c>>)
  <2>3. x \in Sets /\ x.name = "count" /\ Len(x.rows) = 1
    BY DEF Set, Sets
  <2>. HIDE DEF x
  <2>4. a \in Seq(Sets) /\ Len(a) = Len(s) + 1 /\ a[Len(a)] = x
        /\ \A i \in 1..Len(s) : a[i] = s[i]
    BY <2>1, <2>2, <2>3, AppendProperties DEF x
  <2>5. Len(s) \in Nat
    BY <2>2
  <2>6. \A i \in 1..Len(a) : i = Len(a) \/ i \in 1..Len(s)
    BY <2>4, <2>5
  <2>. QED
    BY <1>2, <2>2, <2>3, <2>4, <2>5, <2>6 DEF AnswerShape
<1>3. CASE PlanOf(q) = "page" /\ ~Served[TextFor(q)].module
  BY <1>3, PageShape
<1>4. CASE PlanOf(q) \in {"plain", "rows"} /\ ~Served[TextFor(q)].module
  <2>1. a \in OwnSets
    BY <1>4 DEF Answers
  <2>. QED
    BY <1>4, <2>1, OwnSetsType DEF AnswerShape
<1>. QED
  BY <1>0, <1>1, <1>2, <1>3, <1>4
-----------------------------------------------------------------------------
(* Outcomes.                                                               *)

\* One result set after another, as an outcome lists them.
LEMMA FurtherFacts ==
    ASSUME results \in Seq(Kept), NEW n \in Nat, n <= Len(results)
    PROVE  /\ Further(n) \in Seq(Seq(Nat))
           /\ Len(Further(n)) = IF n > 1 THEN n - 1 ELSE 0
           /\ \A i \in 1..Len(Further(n)) : Further(n)[i] = results[i + 1].rows
<1>. DEFINE m == IF n > 1 THEN n - 1 ELSE 0
<1>1. m \in Nat /\ \A i \in 1..m : results[i + 1] \in Kept
  OBVIOUS
<1>2. \A i \in 1..m : results[i + 1].rows \in Seq(Nat)
  BY <1>1 DEF Kept
<1>3. Further(n) = [i \in 1..m |-> results[i + 1].rows]
  BY DEF Further
<1>. HIDE DEF m
<1>4. Further(n) \in Seq(Seq(Nat)) /\ Len(Further(n)) = m
  BY <1>1, <1>2, <1>3
<1>. QED
  BY <1>3, <1>4 DEF m

LEMMA RowsOfType ==
    ASSUME results \in Seq(Kept)
    PROVE  /\ RowsOf(1) \in Seq(Nat)
           /\ results # <<>> => RowsOf(1) = results[1].rows
           /\ results = <<>> => RowsOf(1) = <<>>
<1>1. CASE results = <<>>
  BY <1>1 DEF RowsOf
<1>2. CASE results # <<>>
  <2>1. 1 \in DOMAIN results /\ results[1] \in Kept
    BY <1>2
  <2>. QED
    BY <1>2, <2>1 DEF RowsOf, Kept
<1>. QED
  BY <1>1, <1>2

LEMMA TruncatedType == Truncated \in BOOLEAN
BY DEF Truncated

LEMMA PageRows ==
    ASSUME TypeInv, limit # NoLimit
    PROVE  LET r == SubSeq(RowsOf(1), 1, AtMost(Len(RowsOf(1)), limit))
           IN  /\ limit \in Nat
               /\ r \in Seq(Nat) /\ Len(r) = AtMost(Len(RowsOf(1)), limit)
               /\ \A i \in 1..Len(r) : r[i] = RowsOf(1)[i]
<1>. DEFINE s == RowsOf(1)
            n == AtMost(Len(s), limit)
<1>1. limit \in Nat
  BY QueryAssumption DEF TypeInv
<1>2. s \in Seq(Nat)
  BY RowsOfType DEF TypeInv
<1>. HIDE DEF s
<1>3. n \in Nat /\ n <= Len(s)
  BY <1>1, <1>2 DEF AtMost
<1>. HIDE DEF n
<1>4. 1 \in Int /\ n \in Int /\ \A i \in 1..n : s[i] \in Nat
  BY <1>2, <1>3
<1>5. /\ SubSeq(s, 1, n) \in Seq(Nat)
      /\ Len(SubSeq(s, 1, n)) = IF 1 <= n THEN n - 1 + 1 ELSE 0
      /\ \A i \in 1..(n - 1 + 1) : SubSeq(s, 1, n)[i] = s[1 + i - 1]
  BY <1>4, SubSeqProperties
<1>. QED
  BY <1>1, <1>3, <1>5 DEF s, n

LEMMA SuccessType ==
    ASSUME NEW f \in Seq(Nat), NEW m \in Seq(Seq(Nat)), NEW t \in BOOLEAN, NEW h \in BOOLEAN,
           NEW n \in Nat
    PROVE  Success(f, m, t, h, n) \in Outcomes /\ Success(f, m, t, h, n).ok
BY DEF Success, Outcomes

LEMMA FailureType ==
    ASSUME NEW c \in {"server", "no affected rows", "open stream"}
    PROVE  /\ Failure(c) \in Outcomes /\ ~Failure(c).ok
           /\ Failure(c).cause = c
BY DEF Failure, Outcomes

LEMMA DmlOutcomeType ==
    ASSUME TypeInv
    PROVE  DmlOutcome \in Outcomes
<1>. DEFINE n == Len(results) - 1
<1>1. CASE results = <<>> \/ Current.name # "count" \/ Current.rows = <<>>
  <2>1. DmlOutcome = Failure("no affected rows")
    BY <1>1 DEF DmlOutcome
  <2>. QED
    BY <2>1, FailureType
<1>2. CASE ~(results = <<>> \/ Current.name # "count" \/ Current.rows = <<>>)
  <2>1. DmlOutcome = Success(IF n = 0 \/ ~Reading[text].returns THEN <<>> ELSE RowsOf(1), Further(n),
                             Truncated /\ n > 0, FALSE, Head(Current.rows))
    BY <1>2 DEF DmlOutcome
  <2>2. results \in Seq(Kept) /\ n \in Nat /\ n <= Len(results)
    BY <1>2 DEF TypeInv
  <2>3. Further(n) \in Seq(Seq(Nat))
    BY <2>2, FurtherFacts
  <2>4. Current.rows \in Seq(Nat) /\ Current.rows # <<>>
    BY <1>2, <2>2, CurrentType DEF Kept
  <2>5. (IF n = 0 \/ ~Reading[text].returns THEN <<>> ELSE RowsOf(1)) \in Seq(Nat)
    BY <2>2, RowsOfType
  <2>6. Head(Current.rows) \in Nat
    BY <2>4
  <2>. QED
    BY <2>1, <2>3, <2>5, <2>6, SuccessType
<1>. QED
  BY <1>1, <1>2

LEMMA PageOutcomeType ==
    ASSUME TypeInv, limit # NoLimit
    PROVE  /\ PageOutcome \in Outcomes /\ PageOutcome.ok
           /\ PageOutcome.first = SubSeq(RowsOf(1), 1, AtMost(Len(RowsOf(1)), limit))
           /\ PageOutcome.more = Further(Len(results))
           /\ PageOutcome.truncated = (Truncated \/ Len(RowsOf(1)) > limit)
           /\ PageOutcome.hasMore = (Truncated \/ Len(RowsOf(1)) > limit)
<1>1. Len(results) \in Nat /\ Further(Len(results)) \in Seq(Seq(Nat))
  BY FurtherFacts DEF TypeInv
<1>2. SubSeq(RowsOf(1), 1, AtMost(Len(RowsOf(1)), limit)) \in Seq(Nat)
  BY PageRows
<1>3. PageOutcome \in Outcomes /\ PageOutcome.ok
  BY <1>1, <1>2, SuccessType DEF PageOutcome
<1>. QED
  BY <1>3 DEF PageOutcome, Success

LEMMA RowsOutcomeType ==
    ASSUME TypeInv
    PROVE  /\ RowsOutcome \in Outcomes /\ RowsOutcome.ok
           /\ RowsOutcome.first = RowsOf(1)
           /\ RowsOutcome.more = Further(Len(results))
           /\ RowsOutcome.truncated = Truncated
<1>1. Len(results) \in Nat /\ Further(Len(results)) \in Seq(Seq(Nat))
  BY FurtherFacts DEF TypeInv
<1>2. RowsOf(1) \in Seq(Nat)
  BY RowsOfType DEF TypeInv
<1>3. RowsOutcome \in Outcomes /\ RowsOutcome.ok
  BY <1>1, <1>2, SuccessType, TruncatedType DEF RowsOutcome
<1>. QED
  BY <1>3 DEF RowsOutcome, Success
-----------------------------------------------------------------------------
(* Type correctness.                                                       *)

LEMMA AnsweredType ==
    ASSUME TypeInv, NEW o \in Outcomes, Answered(o)
    PROVE  /\ outcomes' \in Seq(Outcomes) /\ stage' \in {"ready", "next", "rows"}
           /\ stage' = "ready" /\ outcomes' # <<>> /\ Last(outcomes') = o
           /\ Len(outcomes') = Len(outcomes) + 1
           /\ \A i \in 1..Len(outcomes) : outcomes'[i] = outcomes[i]
           /\ outcomes'[Len(outcomes) + 1] = o
BY DEF Answered, TypeInv, Last

LEMMA InitType == Init => TypeInv
<1>. SUFFICES ASSUME Init PROVE TypeInv
  OBVIOUS
<1>1. batch \in Seq(Texts) /\ <<>> \in Texts
  BY QueryAssumption DEF Init, Texts
<1>. QED
  BY <1>1 DEF Init, TypeInv

LEMMA SendType ==
    ASSUME TypeInv, Planned, Send
    PROVE  /\ TypeInv'
           /\ stage = "ready" /\ batch # <<>>
           /\ text' = Head(batch) /\ batch' = Tail(batch) /\ plan' = PlanOf(Head(batch))
           /\ plan' \in {"dml", "plain", "page", "rows"}
           /\ plan' = "page" => limit # NoLimit
           /\ results' = <<>> /\ retained' = 0
           /\ seen' = IF page = 1 THEN <<>> ELSE seen
           /\ UNCHANGED <<limit, page>>
           /\ \/ Failure("server") \in Outcomes /\ Answered(Failure("server"))
              \/ /\ stage' = "next" /\ UNCHANGED outcomes
                 /\ stream' = answer' /\ AnswerShape(answer', plan', Served[sent'], Requested)
<1>1. /\ stage = "ready" /\ batch # <<>>
      /\ text' = Head(batch) /\ batch' = Tail(batch) /\ plan' = PlanOf(Head(batch))
      /\ sent' = TextFor(Head(batch))
      /\ results' = <<>> /\ retained' = 0
      /\ seen' = IF page = 1 THEN <<>> ELSE seen
      /\ UNCHANGED <<limit, page>>
  BY DEF Send
<1>2. PICK h \in Asked : h = Head(batch)
  <2>1. 1 \in 1..Len(batch) /\ Head(batch) = batch[1]
    BY <1>1 DEF TypeInv
  <2>. QED
    BY <2>1 DEF Planned
<1>3. \/ Answered(Failure("server")) /\ answer' = <<>> /\ stream' = <<>>
      \/ \E a \in Answers(h) :
             /\ answer' = a /\ stream' = a
             /\ stage' = "next" /\ UNCHANGED outcomes
  BY <1>2 DEF Send, CloseQuery
<1>4. PlanOf(h) \in {"dml", "plain", "page", "rows"} /\ (PlanOf(h) = "page" => limit # NoLimit)
  BY PlanRange
<1>5. text' \in Texts /\ batch' \in Seq(Texts) /\ seen' \in Seq(Nat)
  BY <1>1 DEF TypeInv
<1>6. CASE Answered(Failure("server")) /\ answer' = <<>> /\ stream' = <<>>
  <2>1. Failure("server") \in Outcomes
    BY FailureType
  <2>2. outcomes' \in Seq(Outcomes) /\ stage' = "ready"
    BY <1>6, <2>1, AnsweredType
  <2>3. TypeInv'
    BY <1>1, <1>2, <1>4, <1>5, <1>6, <2>2 DEF TypeInv
  <2>. QED
    BY <1>1, <1>2, <1>4, <1>6, <2>1, <2>3
<1>7. ASSUME NEW a \in Answers(h), answer' = a, stream' = a, stage' = "next", UNCHANGED outcomes
      PROVE  TypeInv' /\ AnswerShape(answer', plan', Served[sent'], Requested)
  <2>1. AnswerShape(a, PlanOf(h), Served[TextFor(h)], Requested)
    BY AnswersShape
  <2>2. AnswerShape(answer', plan', Served[sent'], Requested)
    BY <1>1, <1>2, <1>7, <2>1
  <2>3. a \in Seq(Sets)
    BY <2>1 DEF AnswerShape
  <2>4. TypeInv'
    BY <1>1, <1>2, <1>4, <1>5, <1>7, <2>3 DEF TypeInv
  <2>. QED
    BY <2>2, <2>4
<1>. QED
  BY <1>1, <1>2, <1>3, <1>4, <1>6, <1>7

\* A step that only reads keeps the request.
Kindred == UNCHANGED <<batch, limit, page, seen, plan, text, sent, answer>>

LEMMA OpenSetType ==
    ASSUME TypeInv, OpenSet
    PROVE  /\ TypeInv' /\ Kindred
           /\ stage = "next" /\ plan # "plain" /\ stream # <<>> /\ stage' = "rows"
           /\ results' = Append(results, [name |-> stream[1].name, rows |-> <<>>, cut |-> FALSE])
           /\ UNCHANGED <<stream, retained, outcomes>>
<1>1. stream[1] \in Sets /\ Head(stream) = stream[1]
  BY DEF OpenSet, TypeInv
<1>. DEFINE r == [name |-> stream[1].name, rows |-> <<>>, cut |-> FALSE]
<1>2. r \in Kept
  BY <1>1 DEF Sets, Kept
<1>3. results' = Append(results, r)
  BY <1>1 DEF OpenSet
<1>. HIDE DEF r
<1>4. results' \in Seq(Kept)
  BY <1>2, <1>3 DEF TypeInv
<1>. QED
  BY <1>1, <1>3, <1>4 DEF r, OpenSet, TypeInv, requestVars, Kindred

LEMMA KeptExcept ==
    ASSUME NEW r \in Kept, NEW x
    PROVE  /\ [r EXCEPT !.rows = x] = [name |-> r.name, rows |-> x, cut |-> r.cut]
           /\ [r EXCEPT !.cut = x] = [name |-> r.name, rows |-> r.rows, cut |-> x]
BY DEF Kept

LEMMA RetainRowType ==
    ASSUME TypeInv, RetainRow, results # <<>>, stream # <<>>
    PROVE  LET n == Len(results)
               row == Head(stream[1].rows)
           IN  /\ TypeInv' /\ Kindred
               /\ stage = "rows" /\ stage' = "rows" /\ ~Full
               /\ stream[1] \in Sets /\ stream[1].rows # <<>> /\ row \in Nat
               /\ Current = results[n] /\ results[n] \in Kept
               /\ Len(results') = n /\ \A i \in 1..(n - 1) : results'[i] = results[i]
               /\ results'[n] = [name |-> results[n].name, cut |-> results[n].cut,
                                 rows |-> Append(results[n].rows, row)]
               /\ retained' = IF results[n].name = "count" THEN retained ELSE retained + 1
               /\ stream' = Consumed /\ UNCHANGED outcomes
<1>. DEFINE n == Len(results)
            row == Head(stream[1].rows)
            r == [name |-> results[n].name, rows |-> Append(results[n].rows, row),
                  cut |-> results[n].cut]
<1>1. stage = "rows" /\ Head(stream).rows # <<>> /\ ~Full
  BY DEF RetainRow, RowPending
<1>2. stream' \in Seq(Sets) /\ stream[1] \in Sets /\ Head(stream) = stream[1] /\ stream' = Consumed
  BY <1>1, ConsumedType DEF RetainRow, TypeInv
<1>3. row \in Nat
  BY <1>1, <1>2 DEF Sets
<1>4. Current = results[n] /\ results[n] \in Kept
  BY CurrentType DEF TypeInv
<1>. HIDE DEF row
<1>5. [Current EXCEPT !.rows = Append(@, row)] = r
  BY <1>4, KeptExcept
<1>6. results' = Append(Front(results), r)
  BY <1>2, <1>5 DEF RetainRow, Update, row
<1>7. r \in Kept
  BY <1>3, <1>4 DEF Kept
<1>. HIDE DEF r
<1>8. results' \in Seq(Kept) /\ Len(results') = n /\ results'[n] = r
      /\ \A i \in 1..(n - 1) : results'[i] = results[i]
  BY <1>6, <1>7, LastReplaced DEF TypeInv
<1>9. /\ retained' = IF results[n].name = "count" THEN retained ELSE retained + 1
      /\ stage' = stage /\ Kindred /\ UNCHANGED outcomes
  BY <1>4 DEF RetainRow, requestVars, Kindred
<1>10. TypeInv'
  BY <1>2, <1>8, <1>9 DEF TypeInv, Kindred
<1>. QED
  BY <1>1, <1>2, <1>3, <1>4, <1>8, <1>9, <1>10 DEF r, row

LEMMA DropRowType ==
    ASSUME TypeInv, DropRow, results # <<>>, stream # <<>>
    PROVE  LET n == Len(results)
           IN  /\ TypeInv' /\ Kindred
               /\ stage = "rows" /\ Full
               /\ stream[1] \in Sets /\ stream[1].rows # <<>>
               /\ Current = results[n] /\ results[n] \in Kept
               /\ Len(results') = n /\ \A i \in 1..(n - 1) : results'[i] = results[i]
               /\ results'[n] = [name |-> results[n].name, rows |-> results[n].rows, cut |-> TRUE]
               /\ UNCHANGED <<retained, outcomes>>
               /\ \/ plan # "dml" /\ stage' = "next" /\ stream' = <<>>
                  \/ plan = "dml" /\ stage' = "rows" /\ stream' = Consumed
<1>. DEFINE n == Len(results)
            r == [name |-> results[n].name, rows |-> results[n].rows, cut |-> TRUE]
<1>1. stage = "rows" /\ Head(stream).rows # <<>> /\ Full
  BY DEF DropRow, RowPending
<1>2. Consumed \in Seq(Sets) /\ stream[1] \in Sets /\ Head(stream) = stream[1]
  BY <1>1, ConsumedType DEF TypeInv
<1>4. Current = results[n] /\ results[n] \in Kept
  BY CurrentType DEF TypeInv
<1>6. results' = Append(Front(results), r)
  BY <1>4, KeptExcept DEF DropRow, Update
<1>7. r \in Kept
  BY <1>4 DEF Kept
<1>. HIDE DEF r
<1>8. results' \in Seq(Kept) /\ Len(results') = n /\ results'[n] = r
      /\ \A i \in 1..(n - 1) : results'[i] = results[i]
  BY <1>6, <1>7, LastReplaced DEF TypeInv
<1>9. /\ \/ plan # "dml" /\ stage' = "next" /\ stream' = <<>>
         \/ plan = "dml" /\ stage' = "rows" /\ stream' = Consumed
      /\ Kindred /\ UNCHANGED <<retained, outcomes>>
  BY <1>1 DEF DropRow, requestVars, Kindred, Policy, CloseQuery
<1>10. stream' \in Seq(Sets) /\ stage' \in {"next", "rows"}
  <2>1. CASE plan = "dml"
    <3>1. stream' = Consumed /\ stage' = "rows"
      BY <1>9, <2>1
    <3>. QED
      BY <1>2, <3>1
  <2>2. CASE plan # "dml"
    <3>1. stream' = <<>> /\ stage' = "next"
      BY <1>9, <2>2
    <3>. QED
      BY <3>1
  <2>. QED
    BY <2>1, <2>2
<1>11. TypeInv'
  BY <1>1, <1>8, <1>9, <1>10 DEF TypeInv, Kindred
<1>. QED
  BY <1>1, <1>2, <1>4, <1>8, <1>9, <1>11 DEF r

LEMMA EndSetType ==
    ASSUME TypeInv, EndSet, stream # <<>>
    PROVE  /\ TypeInv' /\ Kindred
           /\ stage = "rows" /\ stage' = "next"
           /\ stream[1] \in Sets /\ stream[1].rows = <<>> /\ stream' = Tail(stream)
           /\ UNCHANGED <<results, retained, outcomes>>
BY DEF EndSet, TypeInv, requestVars, Kindred

\* The outcome of the answer that was collected.
Collected ==
    CASE plan = "dml"  -> DmlOutcome
      [] plan = "page" -> PageOutcome
      [] plan = "rows" -> RowsOutcome

LEMMA CollectedType ==
    ASSUME TypeInv, plan \in {"dml", "page", "rows"}
    PROVE  /\ Collected \in Outcomes
           /\ plan = "dml" => Collected = DmlOutcome
           /\ plan = "page" => Collected = PageOutcome
           /\ plan = "rows" => Collected = RowsOutcome
<1>1. CASE plan = "dml"
  BY <1>1, DmlOutcomeType DEF Collected
<1>2. CASE plan = "page"
  BY <1>2, PageOutcomeType DEF Collected, TypeInv
<1>3. CASE plan = "rows"
  BY <1>3, RowsOutcomeType DEF Collected
<1>. QED
  BY <1>1, <1>2, <1>3

LEMMA FinishType ==
    ASSUME TypeInv, Finish
    PROVE  /\ TypeInv'
           /\ stage = "next" /\ plan \in {"dml", "page", "rows"} /\ stream = <<>>
           /\ stage' = "ready" /\ Collected \in Outcomes /\ Answered(Collected)
           /\ seen' = IF Paged THEN seen \o PageOutcome.first ELSE seen
           /\ UNCHANGED <<batch, limit, page, plan, text, sent, stream, results, retained, answer>>
<1>1. stage = "next" /\ plan \in {"dml", "page", "rows"} /\ stream = <<>>
  BY DEF Finish, TypeInv
<1>2. Collected \in Outcomes
  BY <1>1, CollectedType
<1>3. /\ Answered(Collected)
      /\ seen' = IF Paged THEN seen \o PageOutcome.first ELSE seen
      /\ UNCHANGED <<batch, limit, page, plan, text, sent, stream, results, retained, answer>>
  BY DEF Finish, Collected
<1>4. outcomes' \in Seq(Outcomes) /\ stage' = "ready"
  BY <1>2, <1>3, AnsweredType
<1>5. seen' \in Seq(Nat)
  <2>1. CASE Paged
    <3>1. PageOutcome.first \in Seq(Nat)
      BY <2>1, PageOutcomeType, PageRows DEF TypeInv, Paged
    <3>. QED
      BY <2>1, <1>3, <3>1 DEF TypeInv
  <2>2. CASE ~Paged
    BY <1>3, <2>2 DEF TypeInv
  <2>. QED
    BY <2>1, <2>2
<1>6. TypeInv'
  BY <1>3, <1>4, <1>5 DEF TypeInv
<1>. QED
  BY <1>1, <1>2, <1>3, <1>4, <1>6

LEMMA FailType ==
    ASSUME TypeInv, Fail
    PROVE  /\ TypeInv'
           /\ stage # "ready" /\ stage' = "ready"
           /\ Failure("server") \in Outcomes /\ Answered(Failure("server"))
           /\ UNCHANGED <<batch, limit, page, seen, plan, text, sent, stream, results, retained, answer>>
<1>1. Failure("server") \in Outcomes /\ Answered(Failure("server"))
  BY FailureType DEF Fail
<1>2. outcomes' \in Seq(Outcomes) /\ stage' = "ready"
  BY <1>1, AnsweredType
<1>. QED
  BY <1>1, <1>2 DEF Fail, TypeInv, requestVars

PlainOutcome == Success(<<>>, <<>>, FALSE, FALSE, 0)

LEMMA RunPlainType ==
    ASSUME TypeInv, RunPlain
    PROVE  /\ TypeInv'
           /\ stage = "next" /\ plan = "plain" /\ stage' = "ready"
           /\ Answered(PlainOutcome) /\ PlainOutcome \in Outcomes
           /\ UNCHANGED <<batch, limit, page, seen, plan, text, sent, results, retained, answer>>
<1>1. PlainOutcome \in Outcomes
  <2>1. <<>> \in Seq(Nat) /\ <<>> \in Seq(Seq(Nat)) /\ 0 \in Nat
    OBVIOUS
  <2>. QED
    BY <2>1, SuccessType DEF PlainOutcome
<1>2. Answered(PlainOutcome)
  BY DEF RunPlain, PlainOutcome
<1>3. outcomes' \in Seq(Outcomes) /\ stage' = "ready"
  BY <1>1, <1>2, AnsweredType
<1>. QED
  BY <1>1, <1>2, <1>3 DEF RunPlain, TypeInv, requestVars

LEMMA NextPageType ==
    ASSUME TypeInv, NextPage
    PROVE  /\ TypeInv'
           /\ stage = "ready" /\ batch = <<>> /\ plan = "page"
           /\ Len(outcomes) = 1 /\ outcomes # <<>> /\ Last(outcomes).ok /\ Last(outcomes).hasMore
           /\ batch' = <<text>> /\ page' = page + 1 /\ outcomes' = <<>>
           /\ UNCHANGED <<limit, seen, stage, plan, text, sent, stream, results, retained, answer>>
<1>1. page' \in Nat
  BY DEF NextPage, TypeInv
<1>2. Len(outcomes) = 1 /\ outcomes # <<>> /\ outcomes[1] = Last(outcomes)
  <2>1. Len(outcomes) = 1
    BY DEF NextPage
  <2>3. outcomes # <<>>
    BY <2>1
  <2>. QED
    BY <2>1, <2>3 DEF Last
<1>. QED
  BY <1>1, <1>2 DEF NextPage, TypeInv

LEMMA TypeInvNext == ASSUME TypeInv, Planned, [Next]_vars, stage = "rows" => results # <<>> /\ stream # <<>>
                     PROVE  TypeInv'
<1>1. CASE Send
  BY <1>1, SendType
<1>2. CASE RunPlain
  BY <1>2, RunPlainType
<1>3. CASE Fail
  BY <1>3, FailType
<1>4. CASE OpenSet
  BY <1>4, OpenSetType
<1>5. CASE RetainRow
  BY <1>5, RetainRowType DEF RetainRow, RowPending
<1>6. CASE DropRow
  BY <1>6, DropRowType DEF DropRow, RowPending
<1>7. CASE EndSet
  BY <1>7, EndSetType DEF EndSet
<1>8. CASE Finish
  BY <1>8, FinishType
<1>9. CASE NextPage
  BY <1>9, NextPageType
<1>10. CASE UNCHANGED vars
  BY <1>10 DEF vars, TypeInv
<1>. QED
  BY <1>1, <1>2, <1>3, <1>4, <1>5, <1>6, <1>7, <1>8, <1>9, <1>10 DEF Next, Collect
-----------------------------------------------------------------------------
(* What is collected is a faithful part of the answer.                     *)

Starts(s, t) == Len(s) <= Len(t) /\ \A i \in 1..Len(s) : s[i] = t[i]

\* A set that is left unfinished when c rows are retained: rows were left out
\* only for the ceiling, and never of the set that carries the count.
CutFor(r, a, c) == Len(r.rows) < Len(a.rows) /\ r.name # "count" /\ c >= MaxRows

\* A collected set r of the answered set a.
Faithful(r, a, c) ==
    /\ r.name = a.name /\ Starts(r.rows, a.rows)
    /\ IF r.cut THEN CutFor(r, a, c) ELSE Len(r.rows) = Len(a.rows)

\* The set r that is being read, with the rows of x still to come.
ReadUpTo(r, x, a, c) ==
    /\ r.name = a.name /\ x.name = a.name /\ Starts(r.rows, a.rows)
    /\ IF r.cut THEN CutFor(r, a, c)
       ELSE /\ Len(r.rows) + Len(x.rows) = Len(a.rows)
            /\ \A j \in 1..Len(x.rows) : x.rows[j] = a.rows[Len(r.rows) + j]

CollectedUpTo(n) == \A i \in 1..n : Faithful(results[i], answer[i], retained)

\* Between two sets, all of the answer is still known.
Whole ==
    /\ Len(results) + Len(stream) = Len(answer)
    /\ CollectedUpTo(Len(results))
    /\ \A i \in 1..Len(stream) : stream[i] = answer[Len(results) + i]

\* Reading stopped at the ceiling.
Stopped ==
    /\ plan # "dml" /\ stream = <<>> /\ results # <<>> /\ Len(results) <= Len(answer)
    /\ results[Len(results)].cut
    /\ CollectedUpTo(Len(results))

WithinSet ==
    /\ results # <<>> /\ stream # <<>>
    /\ Len(results) + Len(stream) = Len(answer) + 1
    /\ CollectedUpTo(Len(results) - 1)
    /\ ReadUpTo(results[Len(results)], stream[1], answer[Len(results)], retained)
    /\ \A i \in 2..Len(stream) : stream[i] = answer[Len(results) + i - 1]

Shaped == AnswerShape(answer, plan, Served[sent], Requested)

Progress ==
    /\ stage # "ready" => Shaped
    /\ stage = "next" /\ plan # "plain" => Whole \/ Stopped
    /\ stage = "rows" => plan # "plain" /\ WithinSet

LEMMA FaithfulStill ==
    ASSUME NEW r, NEW a, NEW c \in Nat, NEW d \in Nat, c <= d, Faithful(r, a, c)
    PROVE  Faithful(r, a, d)
BY QueryAssumption DEF Faithful, CutFor

LEMMA ShapedStill == ASSUME Shaped, Kindred PROVE Shaped'
<1>1. Requested' = Requested
  BY RequestedStill DEF Kindred
<1>. QED
  BY <1>1 DEF Shaped, AnswerShape, Kindred

\* A set is opened with nothing read of it.
LEMMA ReadsNothing ==
    ASSUME NEW x \in Sets, NEW c
    PROVE  ReadUpTo([name |-> x.name, rows |-> <<>>, cut |-> FALSE], x, x, c)
<1>1. x.rows \in Seq(Nat)
  BY DEF Sets
<1>. QED
  BY <1>1 DEF ReadUpTo, Starts

\* One row more is read of a set.
LEMMA ReadsOneMore ==
    ASSUME NEW r \in Kept, NEW x \in Sets, NEW a \in Sets, NEW c, NEW d,
           ReadUpTo(r, x, a, c), ~r.cut, x.rows # <<>>
    PROVE  ReadUpTo([name |-> r.name, cut |-> r.cut, rows |-> Append(r.rows, Head(x.rows))],
                 [name |-> x.name, rows |-> Tail(x.rows)], a, d)
<1>1. r.rows \in Seq(Nat) /\ x.rows \in Seq(Nat) /\ a.rows \in Seq(Nat)
  BY DEF Kept, Sets
<1>. DEFINE s == Append(r.rows, Head(x.rows))
            t == Tail(x.rows)
            m == Len(r.rows)
            k == Len(x.rows)
<1>2. m \in Nat /\ k \in Nat \ {0} /\ m + k = Len(a.rows)
  <2>1. m \in Nat /\ k \in Nat \ {0}
    BY <1>1
  <2>2. m + k = Len(a.rows)
    BY DEF ReadUpTo
  <2>. QED
    BY <2>1, <2>2
<1>3. /\ \A i \in 1..m : r.rows[i] = a.rows[i]
      /\ \A j \in 1..k : x.rows[j] = a.rows[m + j]
  BY DEF ReadUpTo, Starts
<1>4. Len(s) = m + 1 /\ s[m + 1] = x.rows[1] /\ \A i \in 1..m : s[i] = r.rows[i]
  BY <1>1
<1>5. Len(t) = k - 1 /\ \A j \in 1..(k - 1) : t[j] = x.rows[j + 1]
  BY <1>1
<1>. HIDE DEF s, t, m, k
<1>6. x.rows[1] = a.rows[m + 1]
  BY <1>2, <1>3
<1>7. Starts(s, a.rows)
  <2>1. \A i \in 1..(m + 1) : i = m + 1 \/ i \in 1..m
    BY <1>2
  <2>2. \A i \in 1..Len(s) : s[i] = a.rows[i]
    BY <1>3, <1>4, <1>6, <2>1
  <2>. QED
    BY <1>2, <1>4, <2>2 DEF Starts
<1>8. \A j \in 1..Len(t) : t[j] = a.rows[Len(s) + j]
  <2>. SUFFICES ASSUME NEW j \in 1..(k - 1) PROVE t[j] = a.rows[Len(s) + j]
    BY <1>5
  <2>1. j + 1 \in 1..k /\ m + (j + 1) = Len(s) + j
    BY <1>2, <1>4
  <2>. QED
    BY <1>3, <1>5, <2>1
<1>9. Len(s) + Len(t) = Len(a.rows)
  <2>1. (m + 1) + (k - 1) = m + k
    BY <1>2
  <2>. QED
    BY <1>2, <1>4, <1>5, <2>1
<1>. QED
  BY <1>7, <1>8, <1>9 DEF ReadUpTo, s, t

\* A row is passed over because the set is cut at the ceiling.
LEMMA ReadsNoMore ==
    ASSUME NEW r \in Kept, NEW x \in Sets, NEW a \in Sets, NEW c \in Nat,
           ReadUpTo(r, x, a, c), x.rows # <<>>, c >= MaxRows, r.name # "count"
    PROVE  LET s == [name |-> r.name, rows |-> r.rows, cut |-> TRUE]
           IN  /\ ReadUpTo(s, [name |-> x.name, rows |-> Tail(x.rows)], a, c)
               /\ Faithful(s, a, c)
<1>1. r.rows \in Seq(Nat) /\ x.rows \in Seq(Nat) /\ a.rows \in Seq(Nat)
  BY DEF Kept, Sets
<1>2. Len(r.rows) \in Nat /\ Len(x.rows) \in Nat \ {0} /\ Len(a.rows) \in Nat
  BY <1>1
<1>3. CutFor(r, a, c)
  <2>1. CASE r.cut
    BY <2>1 DEF ReadUpTo
  <2>2. CASE ~r.cut
    <3>1. Len(r.rows) + Len(x.rows) = Len(a.rows)
      BY <2>2 DEF ReadUpTo
    <3>2. Len(r.rows) < Len(a.rows)
      <4>. DEFINE m == Len(r.rows)
                  k == Len(x.rows)
                  l == Len(a.rows)
      <4>1. m \in Nat /\ k \in Nat \ {0} /\ l \in Nat /\ m + k = l
        BY <1>2, <3>1
      <4>. HIDE DEF m, k, l
      <4>2. m < l
        BY <4>1
      <4>. QED
        BY <4>2 DEF m, l
    <3>. QED
      BY <3>2 DEF CutFor
  <2>. QED
    BY <2>1, <2>2
<1>. QED
  BY <1>3 DEF ReadUpTo, Faithful, CutFor

\* A set whose rows are all read is collected.
LEMMA ReadsAll ==
    ASSUME NEW r \in Kept, NEW x \in Sets, NEW a \in Sets, NEW c,
           ReadUpTo(r, x, a, c), x.rows = <<>>
    PROVE  Faithful(r, a, c)
<1>1. Len(x.rows) = 0 /\ Len(r.rows) \in Nat
  BY DEF Kept
<1>. QED
  BY <1>1 DEF ReadUpTo, Faithful

LEMMA ProgressSend ==
    ASSUME TypeInv, Planned, Send
    PROVE  Progress'
<1>1. TypeInv' /\ results' = <<>> /\ UNCHANGED <<page, limit>>
  BY SendType
<1>2. CASE Answered(Failure("server"))
  BY <1>2 DEF Answered, Progress
<1>3. CASE /\ stage' = "next" /\ stream' = answer'
           /\ AnswerShape(answer', plan', Served[sent'], Requested)
  <2>1. Shaped'
    <3>1. Requested' = Requested
      BY <1>1, RequestedStill
    <3>. QED
      BY <1>3, <3>1 DEF Shaped
  <2>2. Whole'
    BY <1>1, <1>3 DEF Whole, CollectedUpTo, TypeInv
  <2>. QED
    BY <1>3, <2>1, <2>2 DEF Progress
<1>. QED
  BY <1>2, <1>3, SendType

LEMMA ProgressOpen ==
    ASSUME TypeInv, Progress, OpenSet
    PROVE  Progress'
<1>. DEFINE n == Len(results)
            r == [name |-> stream[1].name, rows |-> <<>>, cut |-> FALSE]
<1>1. /\ stage = "next" /\ plan # "plain" /\ stream # <<>> /\ stage' = "rows"
      /\ results' = Append(results, r) /\ Kindred
      /\ UNCHANGED <<stream, retained>>
  BY OpenSetType
<1>2. Whole /\ Shaped'
  BY <1>1, ShapedStill DEF Progress, Stopped
<1>3. n \in Nat /\ Len(stream) \in Nat /\ stream[1] = answer[n + 1] /\ stream[1] \in Sets
  BY <1>1, <1>2 DEF Whole, TypeInv
<1>4. ReadUpTo(r, stream[1], answer[n + 1], retained)
  BY <1>3, ReadsNothing
<1>11. r \in Kept
  BY <1>3 DEF Kept, Sets
<1>. HIDE DEF r
<1>5. Len(results') = n + 1 /\ results'[n + 1] = r /\ (\A i \in 1..n : results'[i] = results[i])
      /\ results' # <<>>
  <2>1. results \in Seq(Kept) /\ results' = Append(results, r)
    BY <1>1 DEF TypeInv
  <2>2. Len(results') = n + 1 /\ results'[n + 1] = r /\ \A i \in 1..n : results'[i] = results[i]
    BY <1>11, <2>1, AppendProperties
  <2>3. results' # <<>>
    BY <1>11, <2>1, AppendProperties
  <2>. QED
    BY <2>2, <2>3
<1>6. \A i \in 2..Len(stream) : stream[i] = answer[n + i]
  BY <1>2, <1>3 DEF Whole
<1>7. \A i \in 1..n : Faithful(results'[i], answer[i], retained)
  BY <1>2, <1>5 DEF Whole, CollectedUpTo
<1>8. n + Len(stream) = Len(answer)
  BY <1>2 DEF Whole
<1>. HIDE DEF n
<1>9. answer' = answer /\ stream' = stream /\ retained' = retained /\ plan' = plan
  BY <1>1 DEF Kindred
<1>10. WithinSet'
  <2>1. n + 1 - 1 = n /\ \A i \in 2..Len(stream) : n + i = n + 1 + i - 1
    BY <1>3
  <2>4. Len(results') - 1 = n
    BY <1>3, <1>5
  <2>2. CollectedUpTo(Len(results) - 1)'
    BY <1>7, <1>9, <2>4 DEF CollectedUpTo
  <2>3. Len(results') + Len(stream) = Len(answer) + 1
    BY <1>3, <1>5, <1>8
  <2>. QED
    BY <1>1, <1>4, <1>5, <1>6, <1>9, <2>1, <2>2, <2>3 DEF WithinSet
<1>. QED
  BY <1>1, <1>2, <1>9, <1>10 DEF Progress

\* Within a set, the set that is read and the answered set exist.
LEMMA WithinFacts ==
    ASSUME TypeInv, WithinSet
    PROVE  LET n == Len(results)
           IN  /\ results # <<>> /\ stream # <<>>
               /\ n \in Nat \ {0} /\ Len(stream) \in Nat \ {0}
               /\ n \in 1..Len(answer)
               /\ results[n] \in Kept /\ stream[1] \in Sets /\ answer[n] \in Sets
               /\ Current = results[n]
<1>1. results \in Seq(Kept) /\ stream \in Seq(Sets) /\ answer \in Seq(Sets)
      /\ results # <<>> /\ stream # <<>>
  BY DEF TypeInv, WithinSet
<1>2. /\ Len(results) \in Nat \ {0} /\ Len(stream) \in Nat \ {0} /\ Len(answer) \in Nat
      /\ results[Len(results)] \in Kept /\ stream[1] \in Sets
  BY <1>1
<1>3. Len(results) + Len(stream) = Len(answer) + 1
  BY DEF WithinSet
<1>4. Len(results) \in 1..Len(answer)
  BY <1>2, <1>3
<1>5. answer[Len(results)] \in Sets
  BY <1>1, <1>4
<1>. QED
  BY <1>1, <1>2, <1>4, <1>5, CurrentType

LEMMA ProgressRetain ==
    ASSUME TypeInv, Progress, RetainRow
    PROVE  Progress'
<1>. DEFINE n == Len(results)
            r == results[n]
            x == stream[1]
            a == answer[n]
            s == [name |-> r.name, cut |-> r.cut, rows |-> Append(r.rows, Head(x.rows))]
            y == [name |-> x.name, rows |-> Tail(x.rows)]
<1>1. stage = "rows" /\ WithinSet /\ plan # "plain"
  BY DEF RetainRow, RowPending, Progress
<1>2. /\ results # <<>> /\ stream # <<>> /\ n \in Nat \ {0} /\ Len(stream) \in Nat \ {0}
      /\ r \in Kept /\ x \in Sets /\ a \in Sets /\ Current = r
  BY <1>1, WithinFacts
<1>3. /\ Kindred /\ stage' = "rows" /\ ~Full /\ x.rows # <<>>
      /\ Len(results') = n /\ (\A i \in 1..(n - 1) : results'[i] = results[i])
      /\ results'[n] = s
      /\ retained' = IF r.name = "count" THEN retained ELSE retained + 1
      /\ stream' = Consumed
  BY <1>2, RetainRowType
<1>4. /\ Len(Consumed) = Len(stream) /\ Consumed[1] = y
      /\ \A i \in 2..Len(stream) : Consumed[i] = stream[i]
  <2>1. Head(stream) = x
    BY <1>2 DEF TypeInv
  <2>. QED
    BY <1>2, <1>3, <2>1, ConsumedType DEF TypeInv
<1>5. ReadUpTo(r, x, a, retained)
  BY <1>1 DEF WithinSet
<1>6. ~r.cut
  BY <1>2, <1>3, <1>5 DEF ReadUpTo, CutFor, Full
<1>7. ReadUpTo(s, y, a, retained')
  BY <1>2, <1>3, <1>5, <1>6, ReadsOneMore
<1>8. retained \in Nat /\ retained' \in Nat /\ retained <= retained'
  BY <1>3 DEF TypeInv
<1>9. \A i \in 1..(n - 1) : Faithful(results'[i], answer[i], retained')
  <2>1. \A i \in 1..(n - 1) : Faithful(results[i], answer[i], retained)
    BY <1>1 DEF WithinSet, CollectedUpTo
  <2>2. \A i \in 1..(n - 1) : Faithful(results[i], answer[i], retained')
    BY <1>8, <2>1, FaithfulStill
  <2>. QED
    BY <1>3, <2>2
<1>10. /\ n + Len(stream) = Len(answer) + 1
       /\ \A i \in 2..Len(stream) : stream[i] = answer[n + i - 1]
  BY <1>1 DEF WithinSet
<1>11. answer' = answer /\ plan' = plan
  BY <1>3 DEF Kindred
<1>. HIDE DEF n, s, y
<1>12. WithinSet'
  <2>1. results' # <<>> /\ stream' # <<>>
    <3>1. TypeInv'
      BY <1>2, RetainRowType
    <3>. QED
      BY <1>2, <1>3, <1>4, <3>1 DEF TypeInv
  <2>2. CollectedUpTo(Len(results) - 1)'
    BY <1>3, <1>9, <1>11 DEF CollectedUpTo
  <2>3. ReadUpTo(results[Len(results)], stream[1], answer[Len(results)], retained)'
    BY <1>3, <1>4, <1>7, <1>11 DEF ReadUpTo
  <2>. QED
    BY <1>3, <1>4, <1>10, <1>11, <2>1, <2>2, <2>3 DEF WithinSet
<1>13. Shaped'
  BY <1>1, <1>3, ShapedStill DEF Progress
<1>. QED
  BY <1>1, <1>3, <1>11, <1>12, <1>13 DEF Progress

LEMMA ProgressDrop ==
    ASSUME TypeInv, Progress, DropRow
    PROVE  Progress'
<1>. DEFINE n == Len(results)
            r == results[n]
            x == stream[1]
            a == answer[n]
            s == [name |-> r.name, rows |-> r.rows, cut |-> TRUE]
            y == [name |-> x.name, rows |-> Tail(x.rows)]
<1>1. stage = "rows" /\ WithinSet /\ plan # "plain"
  BY DEF DropRow, RowPending, Progress
<1>2. /\ results # <<>> /\ stream # <<>> /\ n \in Nat \ {0} /\ Len(stream) \in Nat \ {0}
      /\ n \in 1..Len(answer)
      /\ r \in Kept /\ x \in Sets /\ a \in Sets /\ Current = r
  BY <1>1, WithinFacts
<1>3. /\ Kindred /\ Full /\ x.rows # <<>> /\ TypeInv'
      /\ Len(results') = n /\ (\A i \in 1..(n - 1) : results'[i] = results[i])
      /\ results'[n] = s /\ retained' = retained
      /\ \/ plan # "dml" /\ stage' = "next" /\ stream' = <<>>
         \/ plan = "dml" /\ stage' = "rows" /\ stream' = Consumed
  BY <1>2, DropRowType
<1>4. /\ Len(Consumed) = Len(stream) /\ Consumed[1] = y
      /\ \A i \in 2..Len(stream) : Consumed[i] = stream[i]
  <2>1. Head(stream) = x
    BY <1>2 DEF TypeInv
  <2>. QED
    BY <1>2, <1>3, <2>1, ConsumedType DEF TypeInv
<1>5. ReadUpTo(s, y, a, retained) /\ Faithful(s, a, retained)
  <2>1. ReadUpTo(r, x, a, retained)
    BY <1>1 DEF WithinSet
  <2>2. retained \in Nat /\ retained >= MaxRows /\ r.name # "count"
    BY <1>2, <1>3 DEF Full, TypeInv
  <2>. QED
    BY <1>2, <1>3, <2>1, <2>2, ReadsNoMore
<1>6. \A i \in 1..(n - 1) : Faithful(results'[i], answer[i], retained)
  BY <1>1, <1>3 DEF WithinSet, CollectedUpTo
<1>7. /\ n + Len(stream) = Len(answer) + 1
      /\ \A i \in 2..Len(stream) : stream[i] = answer[n + i - 1]
  BY <1>1 DEF WithinSet
<1>8. answer' = answer /\ plan' = plan
  BY <1>3 DEF Kindred
<1>9. Shaped'
  BY <1>1, <1>3, ShapedStill DEF Progress
<1>10. results' # <<>>
  BY <1>2, <1>3 DEF TypeInv
<1>. HIDE DEF n, s, y
<1>11. CASE plan # "dml"
  <2>1. stage' = "next" /\ stream' = <<>>
    BY <1>3, <1>11
  <2>2. n <= Len(answer)
    BY <1>2
  <2>3. CollectedUpTo(Len(results))'
    <3>1. \A i \in 1..n : i = n \/ i \in 1..(n - 1)
      BY <1>2
    <3>2. \A i \in 1..n : Faithful(results'[i], answer[i], retained)
      BY <1>3, <1>5, <1>6, <3>1
    <3>. QED
      BY <1>3, <1>8, <3>2 DEF CollectedUpTo
  <2>4. results'[n].cut
    BY <1>3 DEF s
  <2>5. Stopped'
    BY <1>3, <1>8, <1>10, <1>11, <2>1, <2>2, <2>3, <2>4 DEF Stopped
  <2>. QED
    BY <1>9, <2>1, <2>5 DEF Progress
<1>12. CASE plan = "dml"
  <2>1. stage' = "rows" /\ stream' = Consumed
    BY <1>3, <1>12
  <2>2. CollectedUpTo(Len(results) - 1)'
    BY <1>3, <1>6, <1>8 DEF CollectedUpTo
  <2>3. ReadUpTo(results[Len(results)], stream[1], answer[Len(results)], retained)'
    BY <1>3, <1>4, <1>5, <1>8, <2>1 DEF ReadUpTo
  <2>4. stream' # <<>>
    BY <1>2, <1>3, <1>4, <2>1 DEF TypeInv
  <2>5. WithinSet'
    BY <1>3, <1>4, <1>7, <1>8, <1>10, <2>1, <2>2, <2>3, <2>4 DEF WithinSet
  <2>. QED
    BY <1>1, <1>8, <1>9, <2>1, <2>5 DEF Progress
<1>. QED
  BY <1>11, <1>12

LEMMA ProgressEnd ==
    ASSUME TypeInv, Progress, EndSet
    PROVE  Progress'
<1>. DEFINE n == Len(results)
<1>1. stage = "rows" /\ WithinSet /\ plan # "plain"
  BY DEF EndSet, Progress
<1>2. /\ results # <<>> /\ stream # <<>> /\ n \in Nat \ {0} /\ Len(stream) \in Nat \ {0}
      /\ results[n] \in Kept /\ stream[1] \in Sets /\ answer[n] \in Sets
  BY <1>1, WithinFacts
<1>3. /\ Kindred /\ stage' = "next" /\ stream[1].rows = <<>> /\ stream' = Tail(stream)
      /\ UNCHANGED <<results, retained>>
  BY <1>2, EndSetType
<1>4. Faithful(results[n], answer[n], retained)
  BY <1>1, <1>2, <1>3, ReadsAll DEF WithinSet
<1>5. Len(stream') = Len(stream) - 1 /\ \A i \in 1..(Len(stream) - 1) : stream'[i] = stream[i + 1]
  BY <1>2, <1>3 DEF TypeInv
<1>6. /\ n + Len(stream) = Len(answer) + 1
      /\ \A i \in 2..Len(stream) : stream[i] = answer[n + i - 1]
      /\ \A i \in 1..(n - 1) : Faithful(results[i], answer[i], retained)
  BY <1>1 DEF WithinSet, CollectedUpTo
<1>. HIDE DEF n
<1>7. \A i \in 1..n : Faithful(results[i], answer[i], retained)
  <2>1. \A i \in 1..n : i = n \/ i \in 1..(n - 1)
    BY <1>2
  <2>. QED
    BY <1>4, <1>6, <2>1
<1>8. \A i \in 1..Len(stream') : stream'[i] = answer[n + i]
  <2>. SUFFICES ASSUME NEW i \in 1..(Len(stream) - 1) PROVE stream'[i] = answer[n + i]
    BY <1>5
  <2>1. i + 1 \in 2..Len(stream) /\ n + (i + 1) - 1 = n + i
    BY <1>2
  <2>. QED
    BY <1>5, <1>6, <2>1
<1>9. n + Len(stream') = Len(answer)
  <2>1. Len(answer) \in Nat
    BY DEF TypeInv
  <2>. QED
    BY <1>2, <1>5, <1>6, <2>1
<1>10. answer' = answer /\ results' = results /\ retained' = retained
  BY <1>3 DEF Kindred
<1>11. Whole'
  <2>1. CollectedUpTo(Len(results))'
    BY <1>7, <1>10 DEF CollectedUpTo, n
  <2>. QED
    BY <1>8, <1>9, <1>10, <2>1 DEF Whole, n
<1>12. Shaped'
  BY <1>1, <1>3, ShapedStill DEF Progress
<1>. QED
  BY <1>3, <1>11, <1>12 DEF Progress

\* What is collected stays a faithful part of the answer in every step.
LEMMA ProgressNext == ASSUME TypeInv, Planned, Progress, [Next]_vars PROVE Progress'
<1>1. CASE RunPlain \/ Fail \/ Finish
  BY <1>1, RunPlainType, FailType, FinishType DEF Progress
<1>2. CASE NextPage
  BY <1>2, NextPageType DEF Progress
<1>3. CASE UNCHANGED vars
  <2>1. Kindred /\ UNCHANGED <<stage, results, stream, retained>>
    BY <1>3 DEF vars, Kindred
  <2>2. stage # "ready" => Shaped'
    BY <2>1, ShapedStill DEF Progress
  <2>. QED
    BY <2>1, <2>2 DEF Progress, Whole, Stopped, WithinSet, CollectedUpTo, Kindred
<1>. QED
  BY <1>1, <1>2, <1>3, ProgressSend, ProgressOpen, ProgressRetain, ProgressDrop, ProgressEnd
     DEF Next, Collect
-----------------------------------------------------------------------------
(* The ceiling.                                                            *)

Counting ==
    /\ IsFiniteSet(Places(Counted))
    /\ retained = RowsIn(Counted)
    /\ retained <= MaxRows

LEMMA PlaceIn ==
    ASSUME NEW sets, NEW p
    PROVE  p \in Places(sets) <=> \E i \in DOMAIN sets : \E j \in DOMAIN sets[i] : p = <<i, j>>
BY DEF Places

LEMMA NoPlaces ==
    ASSUME NEW sets, \A i \in DOMAIN sets : DOMAIN sets[i] = {}
    PROVE  Places(sets) = {}
BY PlaceIn

LEMMA CountedType ==
    ASSUME TypeInv
    PROVE  /\ Counted \in Seq(Seq(Nat)) /\ DOMAIN Counted = 1..Len(results)
           /\ \A i \in 1..Len(results) :
                  /\ results[i].rows \in Seq(Nat)
                  /\ results[i].name # "count" => Counted[i] = results[i].rows
                  /\ results[i].name = "count" => Counted[i] = <<>>
<1>1. results \in Seq(Kept) /\ DOMAIN results = 1..Len(results) /\ Len(results) \in Nat
  BY DEF TypeInv
<1>2. \A i \in 1..Len(results) : results[i] \in Kept
  BY <1>1
<1>3. \A i \in 1..Len(results) : results[i].rows \in Seq(Nat)
  BY <1>2 DEF Kept
<1>4. DOMAIN Counted = 1..Len(results)
      /\ \A i \in 1..Len(results) : Counted[i] = IF results[i].name = "count" THEN <<>> ELSE results[i].rows
  BY <1>1 DEF Counted
<1>5. \A i \in 1..Len(results) : Counted[i] \in Seq(Nat)
  <2>. SUFFICES ASSUME NEW i \in 1..Len(results) PROVE Counted[i] \in Seq(Nat)
    OBVIOUS
  <2>1. <<>> \in Seq(Nat) /\ results[i].rows \in Seq(Nat)
    BY <1>3
  <2>2. Counted[i] = <<>> \/ Counted[i] = results[i].rows
    BY <1>4
  <2>. QED
    BY <2>1, <2>2
<1>6. Counted = [i \in 1..Len(results) |-> Counted[i]]
  BY <1>1 DEF Counted
<1>7. Counted \in Seq(Seq(Nat))
  BY <1>1, <1>5, <1>6
<1>. QED
  BY <1>3, <1>4, <1>7

\* Counted sets that are the same rows count alike.
LEMMA CountingStill ==
    ASSUME Counting, retained' = retained, Places(Counted)' = Places(Counted)
    PROVE  Counting'
BY DEF Counting, RowsIn

LEMMA CountingSend ==
    ASSUME TypeInv, Planned, Send
    PROVE  Counting'
<1>1. TypeInv' /\ results' = <<>> /\ retained' = 0
  BY SendType
<1>2. DOMAIN Counted' = {}
  BY <1>1 DEF Counted
<1>3. Places(Counted') = {}
  BY <1>2, NoPlaces
<1>4. IsFiniteSet(Places(Counted')) /\ RowsIn(Counted') = 0
  BY <1>3, FS_EmptySet DEF RowsIn
<1>. QED
  BY <1>1, <1>4, QueryAssumption DEF Counting

LEMMA CountingOpen ==
    ASSUME TypeInv, Counting, OpenSet
    PROVE  Counting'
<1>. DEFINE n == Len(results)
            r == [name |-> stream[1].name, rows |-> <<>>, cut |-> FALSE]
<1>1. TypeInv' /\ results' = Append(results, r) /\ retained' = retained
  BY OpenSetType
<1>2. r \in Kept /\ r.rows = <<>>
  <2>1. stream[1] \in Sets
    BY OpenSetType DEF TypeInv
  <2>. QED
    BY <2>1 DEF Sets, Kept
<1>. HIDE DEF r
<1>3. n \in Nat /\ Len(results') = n + 1 /\ results'[n + 1] = r /\ \A i \in 1..n : results'[i] = results[i]
  BY <1>1, <1>2, AppendProperties DEF TypeInv
<1>. HIDE DEF n
<1>4. /\ DOMAIN Counted = 1..n /\ DOMAIN Counted' = 1..(n + 1)
      /\ \A i \in 1..n : Counted'[i] = Counted[i]
      /\ Counted'[n + 1] = <<>>
  <2>1. DOMAIN results = 1..n /\ DOMAIN results' = 1..(n + 1)
    BY <1>1, <1>3 DEF TypeInv, n
  <2>. QED
    BY <1>2, <1>3, <2>1 DEF Counted
<1>5. Places(Counted') = Places(Counted)
  <2>1. ASSUME NEW p \in Places(Counted') PROVE p \in Places(Counted)
    <3>0. PICK i \in DOMAIN Counted' : \E j \in DOMAIN Counted'[i] : p = <<i, j>>
      BY <2>1, PlaceIn
    <3>1. i \in 1..(n + 1) /\ \E j \in DOMAIN Counted'[i] : p = <<i, j>>
      BY <1>4, <3>0
    <3>2. i # n + 1
      BY <1>4, <3>1
    <3>3. i \in 1..n
      BY <1>3, <3>1, <3>2
    <3>. QED
      BY <1>4, <3>1, <3>3, PlaceIn
  <2>2. ASSUME NEW p \in Places(Counted) PROVE p \in Places(Counted')
    <3>0. PICK i \in DOMAIN Counted : \E j \in DOMAIN Counted[i] : p = <<i, j>>
      BY <2>2, PlaceIn
    <3>1. i \in 1..n /\ \E j \in DOMAIN Counted[i] : p = <<i, j>>
      BY <1>4, <3>0
    <3>2. i \in 1..(n + 1)
      BY <1>3, <3>1
    <3>. QED
      BY <1>4, <3>1, <3>2, PlaceIn
  <2>. QED
    BY <2>1, <2>2
<1>. QED
  BY <1>1, <1>5, CountingStill

LEMMA CountingRetain ==
    ASSUME TypeInv, Counting, RetainRow, results # <<>>, stream # <<>>
    PROVE  Counting'
<1>. DEFINE n == Len(results)
            r == results[n]
            m == Len(r.rows)
<1>1. /\ TypeInv' /\ ~Full /\ Current = r /\ r \in Kept /\ Head(stream[1].rows) \in Nat
      /\ Len(results') = n /\ (\A i \in 1..(n - 1) : results'[i] = results[i])
      /\ results'[n] = [name |-> r.name, cut |-> r.cut, rows |-> Append(r.rows, Head(stream[1].rows))]
      /\ retained' = IF r.name = "count" THEN retained ELSE retained + 1
  BY RetainRowType, SMTT(30)
<1>2. n \in Nat \ {0} /\ r.rows \in Seq(Nat) /\ m \in Nat
  BY <1>1 DEF TypeInv, Kept
<1>3. /\ DOMAIN Counted = 1..n /\ DOMAIN Counted' = 1..n
      /\ \A i \in 1..(n - 1) : Counted'[i] = Counted[i]
      /\ r.name = "count" => Counted'[n] = Counted[n]
      /\ r.name # "count" => DOMAIN Counted[n] = 1..m /\ DOMAIN Counted'[n] = 1..(m + 1)
  <2>1. DOMAIN results = 1..n /\ DOMAIN results' = 1..n
    BY <1>1 DEF TypeInv
  <2>2. DOMAIN r.rows = 1..m /\ DOMAIN results'[n].rows = 1..(m + 1) /\ results'[n].name = r.name
    BY <1>1, <1>2
  <2>. HIDE DEF m, n
  <2>. QED
    BY <1>1, <1>2, <2>1, <2>2 DEF Counted
<1>. HIDE DEF m, n, r
<1>4. CASE r.name = "count"
  <2>1. \A i \in 1..n : Counted'[i] = Counted[i]
    <3>1. \A i \in 1..n : i = n \/ i \in 1..(n - 1)
      BY <1>2
    <3>. QED
      BY <1>3, <1>4, <3>1
  <2>2. Places(Counted') = Places(Counted)
    BY <1>3, <2>1 DEF Places
  <2>. QED
    BY <1>1, <1>4, <2>2, CountingStill
<1>5. CASE r.name # "count"
  <2>. DEFINE q == <<n, m + 1>>
  <2>1. Places(Counted') = Places(Counted) \cup {q}
    <3>1. ASSUME NEW p \in Places(Counted') PROVE p \in Places(Counted) \cup {q}
      <4>0. PICK i \in DOMAIN Counted' : \E j \in DOMAIN Counted'[i] : p = <<i, j>>
        BY <3>1, PlaceIn
      <4>1. i \in 1..n /\ \E j \in DOMAIN Counted'[i] : p = <<i, j>>
        BY <1>3, <4>0
      <4>2. PICK j \in DOMAIN Counted'[i] : p = <<i, j>>
        BY <4>1
      <4>3. CASE i = n
        <5>1. j \in 1..m \/ j = m + 1
          BY <1>2, <1>3, <1>5, <4>2, <4>3
        <5>. QED
          BY <1>3, <1>5, <4>2, <4>3, <5>1, PlaceIn
      <4>4. CASE i # n
        <5>1. i \in 1..(n - 1)
          BY <1>2, <4>1, <4>4
        <5>. QED
          BY <1>3, <4>2, <5>1, PlaceIn
      <4>. QED
        BY <4>3, <4>4
    <3>2. ASSUME NEW p \in Places(Counted) PROVE p \in Places(Counted')
      <4>0. PICK i \in DOMAIN Counted : \E j \in DOMAIN Counted[i] : p = <<i, j>>
        BY <3>2, PlaceIn
      <4>1. i \in 1..n /\ \E j \in DOMAIN Counted[i] : p = <<i, j>>
        BY <1>3, <4>0
      <4>2. PICK j \in DOMAIN Counted[i] : p = <<i, j>>
        BY <4>1
      <4>3. CASE i = n
        <5>1. j \in 1..(m + 1)
          BY <1>2, <1>3, <1>5, <4>2, <4>3
        <5>. QED
          BY <1>3, <1>5, <4>2, <4>3, <5>1, PlaceIn
      <4>4. CASE i # n
        <5>1. i \in 1..(n - 1)
          BY <1>2, <4>1, <4>4
        <5>. QED
          BY <1>3, <4>2, <5>1, PlaceIn
      <4>. QED
        BY <4>3, <4>4
    <3>3. q \in Places(Counted')
      <4>1. n \in 1..n /\ m + 1 \in 1..(m + 1)
        BY <1>2
      <4>. QED
        BY <1>3, <1>5, <4>1, PlaceIn
    <3>. QED
      BY <3>1, <3>2, <3>3
  <2>2. q \notin Places(Counted)
    <3>. SUFFICES ASSUME q \in Places(Counted) PROVE FALSE
      OBVIOUS
    <3>0. PICK i \in DOMAIN Counted : \E j \in DOMAIN Counted[i] : q = <<i, j>>
      BY PlaceIn
    <3>1. i \in 1..n /\ \E j \in DOMAIN Counted[i] : q = <<i, j>>
      BY <1>3, <3>0
    <3>2. PICK j \in DOMAIN Counted[i] : q = <<i, j>>
      BY <3>1
    <3>3. i = n /\ j = m + 1
      BY <3>2
    <3>4. DOMAIN Counted[n] = 1..m
      BY <1>3, <1>5
    <3>5. m + 1 \in 1..m
      BY <3>2, <3>3, <3>4
    <3>. QED
      BY <1>2, <3>5
  <2>. HIDE DEF q
  <2>3. IsFiniteSet(Places(Counted')) /\ RowsIn(Counted') = RowsIn(Counted) + 1
    <3>1. IsFiniteSet(Places(Counted)) /\ RowsIn(Counted) = Cardinality(Places(Counted))
      BY DEF Counting, RowsIn
    <3>2. ASSUME NEW S, IsFiniteSet(S), q \notin S
          PROVE  IsFiniteSet(S \cup {q}) /\ Cardinality(S \cup {q}) = Cardinality(S) + 1
      BY ONLY <3>2, FS_AddElement
    <3>3. /\ IsFiniteSet(Places(Counted) \cup {q})
          /\ Cardinality(Places(Counted) \cup {q}) = Cardinality(Places(Counted)) + 1
      BY <2>2, <3>1, <3>2
    <3>4. IsFiniteSet(Places(Counted')) /\ Cardinality(Places(Counted')) = RowsIn(Counted) + 1
      BY <2>1, <3>1, <3>3
    <3>. QED
      BY <3>4 DEF RowsIn
  <2>4. retained \in Nat /\ MaxRows \in Nat
    BY QueryAssumption DEF TypeInv
  <2>5. retained < MaxRows
    <3>1. Current = r /\ ~Full
      BY <1>1
    <3>. QED
      BY <1>5, <2>4, <3>1 DEF Full
  <2>. QED
    BY <1>1, <1>5, <2>3, <2>4, <2>5 DEF Counting
<1>. QED
  BY <1>4, <1>5

LEMMA CountingDrop ==
    ASSUME TypeInv, Counting, DropRow, results # <<>>, stream # <<>>
    PROVE  Counting'
<1>. DEFINE n == Len(results)
            r == results[n]
<1>1. /\ TypeInv' /\ Len(results') = n /\ (\A i \in 1..(n - 1) : results'[i] = results[i])
      /\ results'[n] = [name |-> r.name, rows |-> r.rows, cut |-> TRUE]
      /\ retained' = retained
  BY DropRowType
<1>2. n \in Nat \ {0}
  BY DEF TypeInv
<1>3. DOMAIN results = 1..n /\ DOMAIN results' = 1..n
  BY <1>1 DEF TypeInv
<1>. HIDE DEF n
<1>4. \A i \in 1..n : results'[i].name = results[i].name /\ results'[i].rows = results[i].rows
  <2>1. \A i \in 1..n : i = n \/ i \in 1..(n - 1)
    BY <1>2
  <2>. QED
    BY <1>1, <2>1
<1>5. Counted' = Counted
  BY <1>3, <1>4 DEF Counted
<1>. QED
  BY <1>1, <1>5, CountingStill

LEMMA CountingNext ==
    ASSUME TypeInv, Planned, Progress, Counting, [Next]_vars
    PROVE  Counting'
<1>1. CASE RunPlain \/ Fail \/ Finish \/ NextPage \/ EndSet \/ UNCHANGED vars
  <2>1. results' = results /\ retained' = retained
    BY <1>1 DEF RunPlain, Fail, Finish, NextPage, EndSet, vars
  <2>2. Counted' = Counted
    BY <2>1 DEF Counted
  <2>. QED
    BY <2>1, <2>2, CountingStill
<1>2. CASE RetainRow \/ DropRow
  <2>1. results # <<>> /\ stream # <<>>
    BY <1>2 DEF RetainRow, DropRow, RowPending, Progress, WithinSet
  <2>. QED
    BY <1>2, <2>1, CountingRetain, CountingDrop
<1>. QED
  BY <1>1, <1>2, CountingSend, CountingOpen DEF Next, Collect

LEMMA CurrentRows ==
    ASSUME TypeInv, results # <<>>
    PROVE  /\ Len(results) \in Nat \ {0} /\ Current = results[Len(results)]
           /\ Current \in Kept /\ Current.rows \in Seq(Nat)
           /\ \A i \in 1..Len(results) : results[i] \in Kept /\ results[i].rows \in Seq(Nat)
<1>1. /\ Len(results) \in Nat \ {0} /\ results \in Seq(Kept)
      /\ \A i \in 1..Len(results) : results[i] \in Kept
  BY DEF TypeInv
<1>2. Current = results[Len(results)] /\ Current \in Kept
  BY <1>1, CurrentType
<1>. QED
  BY <1>1, <1>2 DEF Kept

\* When reading is over, what was collected is a faithful part of the answer,
\* all of it unless a set was cut; the set with the count was never cut;
\* a module that is created answers with nothing.
LEMMA AllRead ==
    ASSUME TypeInv, Progress, stage = "next", stream = <<>>, plan \in {"dml", "page", "rows"}
    PROVE  LET n == Len(results)
           IN  /\ Shaped /\ n \in Nat /\ Len(answer) \in Nat /\ n <= Len(answer)
               /\ CollectedUpTo(n)
               /\ \A i \in 1..n : results[i].name = answer[i].name
               /\ ~Truncated => n = Len(answer)
               /\ plan # "dml" => \A i \in 1..n : results[i].name # "count"
               /\ plan = "dml" /\ Served[sent].module => results = <<>>
               /\ plan = "dml" /\ ~Served[sent].module =>
                     /\ n = Len(answer) /\ results # <<>> /\ Current.name = "count"
                     /\ ~Current.cut /\ Len(Current.rows) = 1
                     /\ \A i \in 1..(n - 1) : results[i].name # "count"
<1>. DEFINE n == Len(results)
<1>1. Shaped /\ (Whole \/ Stopped)
  BY DEF Progress
<1>2. n \in Nat /\ Len(answer) \in Nat
  BY DEF TypeInv
<1>3. Whole => n = Len(answer)
  BY <1>2 DEF Whole
<1>4. n <= Len(answer) /\ CollectedUpTo(n)
  BY <1>1, <1>2, <1>3 DEF Whole, Stopped
<1>5. \A i \in 1..n : results[i].name = answer[i].name
  BY <1>4 DEF CollectedUpTo, Faithful
<1>6. ~Truncated => n = Len(answer)
  <2>1. Stopped => Truncated
    <3>. SUFFICES ASSUME Stopped PROVE Truncated
      OBVIOUS
    <3>1. n \in DOMAIN results /\ results[n].cut
      BY DEF Stopped, TypeInv
    <3>. QED
      BY <3>1 DEF Truncated
  <2>. QED
    BY <1>1, <1>3, <2>1
<1>7. \A i \in 1..Len(answer) : answer[i].name = IF plan = "dml" /\ i = Len(answer) THEN "count" ELSE "rows"
  BY <1>1 DEF Shaped, AnswerShape
<1>. HIDE DEF n
<1>8. ASSUME NEW i \in 1..n, plan # "dml" \/ i # Len(answer) PROVE results[i].name # "count"
  <2>1. i \in 1..Len(answer)
    BY <1>2, <1>4
  <2>. QED
    BY <1>5, <1>7, <1>8, <2>1
<1>10. ASSUME plan = "dml", Served[sent].module PROVE results = <<>>
  <2>1. Whole /\ answer = <<>>
    BY <1>1, <1>10 DEF Stopped, Shaped, AnswerShape
  <2>2. Len(results) = 0
    BY <1>2, <1>3, <2>1 DEF n
  <2>. QED
    BY <2>2 DEF TypeInv
<1>9. ASSUME plan = "dml", ~Served[sent].module
      PROVE  /\ n = Len(answer) /\ results # <<>> /\ Current.name = "count"
             /\ ~Current.cut /\ Len(Current.rows) = 1
             /\ \A i \in 1..(n - 1) : results[i].name # "count"
  <2>1. n = Len(answer) /\ n > 0 /\ Len(answer[n].rows) = 1
    BY <1>1, <1>3, <1>9 DEF Stopped, Shaped, AnswerShape
  <2>2. results # <<>>
    BY <2>1 DEF n
  <2>3. Current = results[n]
    BY <2>2, CurrentRows DEF n
  <2>4. n \in 1..n
    BY <1>2, <2>1
  <2>5. results[n].name = "count" /\ Faithful(results[n], answer[n], retained)
    BY <1>4, <1>5, <1>7, <1>9, <2>1, <2>4 DEF CollectedUpTo
  <2>6. ~results[n].cut /\ Len(results[n].rows) = 1
    BY <2>1, <2>5 DEF Faithful, CutFor
  <2>7. \A i \in 1..(n - 1) : i \in 1..n /\ i # Len(answer)
    BY <1>2, <2>1
  <2>. QED
    BY <1>8, <2>1, <2>2, <2>3, <2>5, <2>6, <2>7
<1>. QED
  BY <1>1, <1>2, <1>4, <1>5, <1>6, <1>8, <1>9, <1>10 DEF n

\* The result sets of an outcome, one after another.
LEMMA SetsOfOutcome ==
    ASSUME TypeInv, NEW f \in Seq(Nat), NEW n \in Nat, n <= Len(results)
    PROVE  LET s == <<f>> \o Further(n)
           IN  /\ s \in Seq(Seq(Nat)) /\ s[1] = f
               /\ Len(s) = IF n > 1 THEN n ELSE 1
               /\ \A i \in 2..Len(s) : s[i] = results[i].rows
<1>. DEFINE g == Further(n)
            s == <<f>> \o g
<1>1. /\ g \in Seq(Seq(Nat)) /\ Len(g) = IF n > 1 THEN n - 1 ELSE 0
      /\ \A i \in 1..Len(g) : g[i] = results[i + 1].rows
  BY FurtherFacts DEF TypeInv
<1>. HIDE DEF g
<1>2. <<f>> \in Seq(Seq(Nat)) /\ Len(<<f>>) = 1 /\ <<f>>[1] = f
  OBVIOUS
<1>3. /\ s \in Seq(Seq(Nat)) /\ Len(s) = Len(g) + 1 /\ s[1] = f
      /\ \A i \in 1..Len(g) : s[i + 1] = g[i]
  <2>1. s \in Seq(Seq(Nat)) /\ Len(s) = 1 + Len(g)
    BY <1>1, <1>2
  <2>2. s[1] = f
    BY <1>1, <1>2
  <2>3. \A i \in 1..Len(g) : s[i + 1] = g[i]
    BY <1>1, <1>2
  <2>. QED
    BY <1>1, <2>1, <2>2, <2>3
<1>. HIDE DEF s
<1>4. \A i \in 2..Len(s) : s[i] = results[i].rows
  <2>. SUFFICES ASSUME NEW i \in 2..Len(s) PROVE s[i] = results[i].rows
    OBVIOUS
  <2>1. i - 1 \in 1..Len(g) /\ (i - 1) + 1 = i
    BY <1>1, <1>3
  <2>. QED
    BY <1>1, <1>3, <2>1
<1>5. Len(s) = IF n > 1 THEN n ELSE 1
  BY <1>1, <1>3
<1>. QED
  BY <1>3, <1>4, <1>5 DEF s, g

\* The rows of the first n collected sets do not exceed what was counted.
LEMMA RowsWithin ==
    ASSUME TypeInv, Counting, NEW n \in Nat, n <= Len(results),
           \A i \in 1..n : results[i].name # "count",
           NEW f \in Seq(Nat), f = <<>> \/ (n > 0 /\ Len(f) <= Len(results[1].rows))
    PROVE  RowsIn(<<f>> \o Further(n)) <= MaxRows
<1>. DEFINE s == <<f>> \o Further(n)
<1>1. /\ s \in Seq(Seq(Nat)) /\ s[1] = f /\ Len(s) = IF n > 1 THEN n ELSE 1
      /\ \A i \in 2..Len(s) : s[i] = results[i].rows
  BY SetsOfOutcome
<1>. HIDE DEF s
<1>2. /\ DOMAIN Counted = 1..Len(results) /\ Len(results) \in Nat
      /\ \A i \in 1..n : Counted[i] = results[i].rows /\ results[i].rows \in Seq(Nat)
  <2>1. Len(results) \in Nat /\ \A i \in 1..n : i \in 1..Len(results)
    BY DEF TypeInv
  <2>. QED
    BY <2>1, CountedType
<1>3. Places(s) \subseteq Places(Counted)
  <2>. SUFFICES ASSUME NEW p \in Places(s) PROVE p \in Places(Counted)
    OBVIOUS
  <2>1. PICK i \in DOMAIN s : \E j \in DOMAIN s[i] : p = <<i, j>>
    BY PlaceIn
  <2>2. PICK j \in DOMAIN s[i] : p = <<i, j>>
    BY <2>1
  <2>3. i \in 1..Len(s) /\ Len(s) \in Nat
    BY <1>1, <2>1
  <2>4. CASE i = 1
    <3>1. j \in 1..Len(f)
      BY <1>1, <2>2, <2>4
    <3>2. n > 0 /\ Len(f) <= Len(results[1].rows) /\ 1 \in 1..n
      BY <3>1
    <3>3. j \in DOMAIN results[1].rows
      <4>1. results[1].rows \in Seq(Nat)
        BY <1>2, <3>2
      <4>. QED
        BY <3>1, <3>2, <4>1
    <3>4. 1 \in DOMAIN Counted /\ j \in DOMAIN Counted[1]
      BY <1>2, <3>2, <3>3
    <3>. QED
      BY <2>2, <2>4, <3>4, PlaceIn
  <2>5. CASE i # 1
    <3>3. i \in 2..Len(s)
      BY <2>3, <2>5
    <3>4. n > 1 /\ Len(s) = n
      BY <1>1, <2>3, <3>3
    <3>1. i \in 2..Len(s) /\ i \in 1..n /\ i \in 1..Len(results)
      BY <1>2, <3>3, <3>4
    <3>2. j \in DOMAIN Counted[i]
      BY <1>1, <1>2, <2>2, <3>1
    <3>. QED
      BY <1>2, <2>2, <3>1, <3>2, PlaceIn
  <2>. QED
    BY <2>4, <2>5
<1>4. Cardinality(Places(s)) <= Cardinality(Places(Counted)) /\ Cardinality(Places(s)) \in Nat
  BY <1>3, FS_Subset, FS_CardinalityType DEF Counting
<1>5. Cardinality(Places(Counted)) = retained /\ retained \in Nat /\ retained <= MaxRows /\ MaxRows \in Nat
  BY QueryAssumption DEF Counting, RowsIn, TypeInv
<1>. QED
  BY <1>4, <1>5 DEF RowsIn, s

\* DML always finds its affected rows, unless its text creates a module.
LEMMA DmlSucceeds ==
    ASSUME TypeInv, Progress, stage = "next", stream = <<>>, plan = "dml",
           ~Served[sent].module
    PROVE  LET n == Len(results) - 1
           IN  /\ DmlOutcome.ok
               /\ DmlOutcome.first = IF n = 0 \/ ~Reading[text].returns THEN <<>> ELSE RowsOf(1)
               /\ DmlOutcome.more = Further(n)
               /\ DmlOutcome.truncated = (Truncated /\ n > 0)
               /\ DmlOutcome.affected = Current.rows[1]
<1>. DEFINE n == Len(results) - 1
            f == IF n = 0 \/ ~Reading[text].returns THEN <<>> ELSE RowsOf(1)
<1>1. results # <<>> /\ Current.name = "count" /\ Len(Current.rows) = 1
  BY AllRead
<1>2. Current.rows # <<>> /\ Head(Current.rows) = Current.rows[1]
  <2>1. Current.rows \in Seq(Nat)
    BY <1>1, CurrentRows
  <2>. QED
    BY <1>1, <2>1
<1>3. DmlOutcome = Success(f, Further(n), Truncated /\ n > 0, FALSE, Head(Current.rows))
  BY <1>1, <1>2 DEF DmlOutcome
<1>. HIDE DEF f, n
<1>4. /\ DmlOutcome.ok /\ DmlOutcome.first = f /\ DmlOutcome.more = Further(n)
      /\ DmlOutcome.truncated = (Truncated /\ n > 0)
      /\ DmlOutcome.affected = Head(Current.rows)
  BY <1>3 DEF Success
<1>. QED
  BY <1>2, <1>4 DEF f, n

LEMMA ModuleFails ==
    ASSUME TypeInv, Progress, stage = "next", stream = <<>>, plan = "dml", Served[sent].module
    PROVE  Collected = Failure("no affected rows")
<1>1. results = <<>>
  BY AllRead
<1>2. DmlOutcome = Failure("no affected rows")
  BY <1>1 DEF DmlOutcome
<1>. QED
  BY <1>2, CollectedType

\* An outcome that may be reported.
Reportable(o) == OutcomeRows(o) <= MaxRows

LEMMA FailureReportable == ASSUME NEW c PROVE Reportable(Failure(c))
BY QueryAssumption DEF Reportable, OutcomeRows, Failure

LEMMA CollectedReportable ==
    ASSUME TypeInv, Progress, Counting, stage = "next", stream = <<>>, plan \in {"dml", "page", "rows"}
    PROVE  Reportable(Collected)
<1>1. RowsOf(1) \in Seq(Nat) /\ Len(results) \in Nat /\ <<>> \in Seq(Nat)
  BY RowsOfType DEF TypeInv
<1>2. RowsOf(1) = <<>> \/ (Len(results) > 0 /\ RowsOf(1) = results[1].rows)
  <2>1. CASE results = <<>>
    BY <2>1, RowsOfType DEF TypeInv
  <2>2. CASE results # <<>>
    BY <2>2, RowsOfType DEF TypeInv
  <2>. QED
    BY <2>1, <2>2
<1>3. CASE plan = "rows"
  <2>1. /\ Collected.ok /\ Collected.first = RowsOf(1) /\ Collected.more = Further(Len(results))
    BY <1>3, CollectedType, RowsOutcomeType
  <2>2. \A i \in 1..Len(results) : results[i].name # "count"
    BY <1>3, AllRead
  <2>3. RowsOf(1) = <<>> \/ (Len(results) > 0 /\ Len(RowsOf(1)) <= Len(results[1].rows))
    BY <1>1, <1>2
  <2>4. RowsIn(<<RowsOf(1)>> \o Further(Len(results))) <= MaxRows
    BY <1>1, <2>2, <2>3, RowsWithin
  <2>. QED
    BY <2>1, <2>4 DEF Reportable, OutcomeRows
<1>4. CASE plan = "page"
  <2>. DEFINE f == SubSeq(RowsOf(1), 1, AtMost(Len(RowsOf(1)), limit))
  <2>1. /\ Collected.ok /\ Collected.first = f /\ Collected.more = Further(Len(results))
        /\ limit # NoLimit
    BY <1>4, CollectedType, PageOutcomeType DEF TypeInv
  <2>2. \A i \in 1..Len(results) : results[i].name # "count"
    BY <1>4, AllRead
  <2>3. f \in Seq(Nat) /\ Len(f) <= Len(RowsOf(1))
    BY <1>1, <2>1, PageRows DEF AtMost
  <2>. HIDE DEF f
  <2>4. f = <<>> \/ (Len(results) > 0 /\ Len(f) <= Len(results[1].rows))
    <3>1. CASE RowsOf(1) = <<>>
      <4>1. Len(f) = 0
        BY <2>3, <3>1
      <4>. QED
        BY <2>3, <4>1
    <3>2. CASE RowsOf(1) # <<>>
      BY <1>2, <2>3, <3>2
    <3>. QED
      BY <3>1, <3>2
  <2>5. RowsIn(<<f>> \o Further(Len(results))) <= MaxRows
    BY <1>1, <2>2, <2>3, <2>4, RowsWithin
  <2>. QED
    BY <2>1, <2>5 DEF Reportable, OutcomeRows
<1>6. CASE plan = "dml" /\ Served[sent].module
  <2>1. Collected = Failure("no affected rows")
    BY <1>6, ModuleFails
  <2>. QED
    BY <2>1, FailureReportable
<1>5. CASE plan = "dml" /\ ~Served[sent].module
  <2>. DEFINE n == Len(results) - 1
              f == IF n = 0 \/ ~Reading[text].returns THEN <<>> ELSE RowsOf(1)
  <2>1. Collected.ok /\ Collected.first = f /\ Collected.more = Further(n)
    BY <1>5, CollectedType, DmlSucceeds
  <2>2. results # <<>> /\ \A i \in 1..n : results[i].name # "count"
    BY <1>5, AllRead
  <2>7. Len(results) \in Nat \ {0}
    BY <2>2, CurrentRows
  <2>3. n \in Nat /\ n <= Len(results)
    BY <2>7
  <2>4. f \in Seq(Nat)
    BY <1>1
  <2>5. f = <<>> \/ (n > 0 /\ Len(f) <= Len(results[1].rows))
    <3>1. CASE f = <<>>
      BY <3>1
    <3>2. CASE f # <<>>
      <4>1. n # 0 /\ f = RowsOf(1)
        BY <3>2
      <4>2. RowsOf(1) # <<>>
        BY <3>2, <4>1
      <4>3. f = results[1].rows
        BY <1>2, <4>1, <4>2
      <4>4. n > 0
        <5>1. \A k \in Nat : k = 0 \/ k > 0
          OBVIOUS
        <5>. QED
          BY <2>3, <4>1, <5>1
      <4>5. results[1].rows \in Seq(Nat)
        BY <2>4, <4>3
      <4>. QED
        BY <4>3, <4>4, <4>5
    <3>. QED
      BY <3>1, <3>2
  <2>. HIDE DEF f, n
  <2>6. RowsIn(<<f>> \o Further(n)) <= MaxRows
    BY <2>2, <2>3, <2>4, <2>5, RowsWithin
  <2>. QED
    BY <2>1, <2>6 DEF Reportable, OutcomeRows
<1>. QED
  BY <1>3, <1>4, <1>5, <1>6

LEMMA PlainReportable == Reportable(PlainOutcome)
<1>1. PlainOutcome.ok /\ PlainOutcome.first = <<>> /\ PlainOutcome.more = <<>>
  BY DEF PlainOutcome, Success
<1>. DEFINE s == << <<>> >> \o <<>>
<1>2. DOMAIN s = {1} /\ s[1] = <<>>
  OBVIOUS
<1>. HIDE DEF s
<1>3. DOMAIN s[1] = {}
  BY <1>2
<1>4. Places(s) = {}
  BY <1>2, <1>3, NoPlaces
<1>5. RowsIn(s) = 0
  BY <1>4, FS_EmptySet DEF RowsIn
<1>. QED
  BY <1>1, <1>5, QueryAssumption DEF Reportable, OutcomeRows, s

AllReportable == \A i \in 1..Len(outcomes) : Reportable(outcomes[i])

LEMMA AnsweredReportable ==
    ASSUME TypeInv, AllReportable, NEW o \in Outcomes, Answered(o), Reportable(o)
    PROVE  AllReportable'
<1>1. /\ Len(outcomes) \in Nat /\ Len(outcomes') = Len(outcomes) + 1
      /\ \A i \in 1..Len(outcomes) : outcomes'[i] = outcomes[i]
      /\ outcomes'[Len(outcomes) + 1] = o
  BY AnsweredType DEF TypeInv
<1>2. \A i \in 1..(Len(outcomes) + 1) : i = Len(outcomes) + 1 \/ i \in 1..Len(outcomes)
  BY <1>1
<1>3. \A i \in 1..(Len(outcomes) + 1) : Reportable(outcomes'[i])
  BY <1>1, <1>2 DEF AllReportable
<1>. QED
  BY <1>1, <1>3 DEF AllReportable, Reportable, OutcomeRows, RowsIn, Places

LEMMA ReportableNext ==
    ASSUME TypeInv, Planned, Progress, Counting, AllReportable, [Next]_vars
    PROVE  AllReportable'
<1>1. ASSUME UNCHANGED outcomes PROVE AllReportable'
  BY <1>1 DEF AllReportable, Reportable, OutcomeRows, RowsIn, Places
<1>2. CASE OpenSet \/ RetainRow \/ DropRow \/ EndSet \/ UNCHANGED vars
  BY <1>1, <1>2 DEF OpenSet, RetainRow, DropRow, EndSet, vars
<1>3. CASE Send
  BY <1>1, <1>3, SendType, FailureReportable, AnsweredReportable
<1>4. CASE RunPlain
  BY <1>4, RunPlainType, PlainReportable, AnsweredReportable
<1>5. CASE Fail
  BY <1>5, FailType, FailureReportable, AnsweredReportable
<1>6. CASE Finish
  BY <1>6, FinishType, CollectedReportable, AnsweredReportable
<1>7. CASE NextPage
  <2>1. outcomes' = <<>>
    BY <1>7, NextPageType
  <2>. QED
    BY <2>1 DEF AllReportable
<1>. QED
  BY <1>2, <1>3, <1>4, <1>5, <1>6, <1>7 DEF Next, Collect

\* What is collected fails only for the module that took the SELECT of the
\* affected rows.
LEMMA CollectedFails ==
    ASSUME TypeInv, Progress, stage = "next", stream = <<>>, plan \in {"dml", "page", "rows"},
           ~Collected.ok
    PROVE  Collected.cause = "no affected rows" /\ Served[sent].module
<1>1. CASE plan = "rows"
  BY <1>1, CollectedType, RowsOutcomeType
<1>2. CASE plan = "page"
  BY <1>2, CollectedType, PageOutcomeType DEF TypeInv
<1>3. CASE plan = "dml" /\ ~Served[sent].module
  BY <1>3, CollectedType, DmlSucceeds
<1>4. CASE plan = "dml" /\ Served[sent].module
  BY <1>4, ModuleFails, FailureType
<1>. QED
  BY <1>1, <1>2, <1>3, <1>4

LEMMA OwnFaultsNext ==
    ASSUME TypeInv, Planned, Progress, OwnFaultsOnly, [Next]_vars
    PROVE  OwnFaultsOnly'
<1>1. CASE OpenSet \/ RetainRow \/ DropRow \/ EndSet
  <2>1. stage' # "ready"
    BY <1>1 DEF OpenSet, RetainRow, DropRow, EndSet, RowPending
  <2>. QED
    BY <2>1 DEF OwnFaultsOnly
<1>2. ASSUME Failure("server") \in Outcomes, Answered(Failure("server")) PROVE OwnFaultsOnly'
  <2>1. Last(outcomes').cause = "server"
    BY <1>2, AnsweredType, FailureType
  <2>. QED
    BY <2>1 DEF OwnFaultsOnly
<1>3. CASE Send
  <2>1. CASE stage' = "next"
    BY <2>1 DEF OwnFaultsOnly
  <2>. QED
    BY <1>2, <1>3, <2>1, SendType
<1>4. CASE RunPlain
  <2>1. Last(outcomes').ok
    BY <1>4, RunPlainType, AnsweredType DEF PlainOutcome, Success
  <2>. QED
    BY <2>1 DEF OwnFaultsOnly
<1>5. CASE Fail
  BY <1>2, <1>5, FailType
<1>6. CASE Finish
  <2>1. /\ stage = "next" /\ plan \in {"dml", "page", "rows"} /\ stream = <<>>
        /\ Collected \in Outcomes /\ Answered(Collected) /\ sent' = sent
    BY <1>6, FinishType
  <2>2. Last(outcomes') = Collected
    BY <2>1, AnsweredType
  <2>3. ~Collected.ok => Collected.cause = "no affected rows" /\ Served[sent].module
    BY <2>1, CollectedFails
  <2>. QED
    BY <2>1, <2>2, <2>3 DEF OwnFaultsOnly
<1>7. CASE NextPage
  <2>1. outcomes' = <<>>
    BY <1>7, NextPageType
  <2>. QED
    BY <2>1 DEF OwnFaultsOnly
<1>8. CASE UNCHANGED vars
  BY <1>8 DEF vars, OwnFaultsOnly
<1>. QED
  BY <1>1, <1>3, <1>4, <1>5, <1>6, <1>7, <1>8 DEF Next, Collect
-----------------------------------------------------------------------------
(* Nothing is lost without a mark.                                         *)

LEMMA PrefixOf ==
    ASSUME NEW S, NEW s \in Seq(S), NEW t \in Seq(S), Starts(s, t)
    PROVE  IsPrefix(s, t)
<1>. DEFINE n == Len(s)
            u == SubSeq(s, 1, n)
            v == SubSeq(t, 1, n)
<1>1. n \in Nat /\ n <= Len(t) /\ Len(t) \in Nat /\ \A i \in 1..n : s[i] = t[i]
  BY DEF Starts
<1>. HIDE DEF n
<1>2. 1 \in Int /\ n \in Int /\ (\A i \in 1..n : s[i] \in S) /\ (\A i \in 1..n : t[i] \in S)
  BY <1>1 DEF n
<1>3. u \in Seq(S) /\ Len(u) = (IF 1 <= n THEN n - 1 + 1 ELSE 0)
      /\ \A i \in 1..(n - 1 + 1) : u[i] = s[1 + i - 1]
  BY <1>2, SubSeqProperties
<1>4. v \in Seq(S) /\ Len(v) = (IF 1 <= n THEN n - 1 + 1 ELSE 0)
      /\ \A i \in 1..(n - 1 + 1) : v[i] = t[1 + i - 1]
  BY <1>2, SubSeqProperties
<1>. HIDE DEF u, v
<1>5. Len(u) = Len(v) /\ \A i \in 1..Len(u) : u[i] = v[i]
  <2>1. Len(u) = n /\ Len(v) = n
    BY <1>1, <1>3, <1>4
  <2>. SUFFICES ASSUME NEW i \in 1..n PROVE u[i] = v[i]
    BY <2>1
  <2>2. i \in 1..(n - 1 + 1) /\ 1 + i - 1 = i
    BY <1>1
  <2>. QED
    BY <1>1, <1>3, <1>4, <2>2
<1>6. u = v
  BY <1>3, <1>4, <1>5, SeqEqual
<1>. QED
  BY <1>1, <1>6 DEF IsPrefix, n, u, v

LEMMA StartsAll ==
    ASSUME NEW S, NEW s \in Seq(S), NEW t \in Seq(S), Starts(s, t), Len(s) = Len(t)
    PROVE  s = t
BY SeqEqual DEF Starts

LEMMA StartsOf ==
    ASSUME NEW s \in Seq(Nat), NEW t \in Seq(Nat), NEW u \in Seq(Nat), Starts(s, t), Starts(t, u)
    PROVE  Starts(s, u)
<1>1. /\ Len(s) \in Nat /\ Len(t) \in Nat /\ Len(u) \in Nat /\ Len(s) <= Len(t) /\ Len(t) <= Len(u)
      /\ (\A i \in 1..Len(s) : s[i] = t[i]) /\ (\A i \in 1..Len(t) : t[i] = u[i])
  BY DEF Starts
<1>2. \A i \in 1..Len(s) : i \in 1..Len(t)
  BY <1>1
<1>3. \A i \in 1..Len(s) : s[i] = u[i]
  BY <1>1, <1>2
<1>4. Len(s) <= Len(u)
  BY <1>1
<1>. QED
  BY <1>3, <1>4 DEF Starts

LEMMA OwnAnswerType ==
    ASSUME TypeInv, plan = "dml" => Len(answer) > 0
    PROVE  LET n == IF plan = "dml" THEN Len(answer) - 1 ELSE Len(answer)
           IN  /\ n \in Nat /\ OwnAnswer \in Seq(Seq(Nat)) /\ Len(OwnAnswer) = n
               /\ \A i \in 1..n : OwnAnswer[i] = answer[i].rows /\ answer[i] \in Sets
                                  /\ answer[i].rows \in Seq(Nat)
<1>. DEFINE n == IF plan = "dml" THEN Len(answer) - 1 ELSE Len(answer)
<1>1. n \in Nat /\ \A i \in 1..n : answer[i] \in Sets
  BY DEF TypeInv
<1>2. \A i \in 1..n : answer[i].rows \in Seq(Nat)
  BY <1>1 DEF Sets
<1>3. OwnAnswer = [i \in 1..n |-> answer[i].rows]
  BY DEF OwnAnswer
<1>. HIDE DEF n
<1>4. OwnAnswer \in Seq(Seq(Nat)) /\ Len(OwnAnswer) = n
  BY <1>1, <1>2, <1>3
<1>. QED
  BY <1>1, <1>2, <1>3, <1>4 DEF n

\* The outcome of the first m of k answered sets, with f in place of the first.
Assembled(f, m) == IF OwnAnswer = <<>> /\ f = <<>> THEN Further(m) ELSE <<f>> \o Further(m)

LEMMA AssembledPart ==
    ASSUME TypeInv, plan = "dml" => Len(answer) > 0,
           NEW m \in Nat, m <= Len(results), m <= Len(OwnAnswer), CollectedUpTo(m),
           m = 0 => OwnAnswer = <<>>,
           NEW f \in Seq(Nat), m = 0 => f = <<>>, m > 0 => Starts(f, results[1].rows)
    PROVE  LET kept == Assembled(f, m)
           IN  /\ Len(kept) <= Len(OwnAnswer)
               /\ \A i \in DOMAIN kept : IsPrefix(kept[i], OwnAnswer[i])
               /\ m = Len(OwnAnswer) /\ ~Truncated /\ (m > 0 => Len(f) = Len(results[1].rows)) =>
                      kept = OwnAnswer
<1>. DEFINE k == Len(OwnAnswer)
            kept == Assembled(f, m)
<1>1. /\ k \in Nat /\ OwnAnswer \in Seq(Seq(Nat))
      /\ \A i \in 1..k : OwnAnswer[i] = answer[i].rows /\ answer[i].rows \in Seq(Nat)
  BY OwnAnswerType
<1>2. CASE m = 0
  <2>1. Len(Further(m)) = 0 /\ Further(m) \in Seq(Seq(Nat))
    BY <1>2, FurtherFacts DEF TypeInv
  <2>2. Further(m) = <<>>
    BY <2>1
  <2>3. kept = <<>>
    BY <1>2, <2>2 DEF Assembled
  <2>. HIDE DEF kept
  <2>4. Len(kept) = 0 /\ DOMAIN kept = {} /\ kept = OwnAnswer
    BY <1>2, <2>3
  <2>. QED
    BY <1>1, <2>4 DEF kept
<1>3. CASE m > 0
  <2>. DEFINE s == <<f>> \o Further(m)
  <2>1. /\ s \in Seq(Seq(Nat)) /\ s[1] = f /\ Len(s) = m
        /\ \A i \in 2..m : s[i] = results[i].rows
    <3>1. Len(s) = IF m > 1 THEN m ELSE 1
      BY SetsOfOutcome
    <3>2. Len(s) = m
      BY <1>3, <3>1
    <3>3. s \in Seq(Seq(Nat)) /\ s[1] = f /\ \A i \in 2..Len(s) : s[i] = results[i].rows
      BY SetsOfOutcome
    <3>. QED
      BY ONLY <3>2, <3>3
  <2>2. OwnAnswer # <<>>
    BY <1>1, <1>3
  <2>3. kept = s
    BY <2>2 DEF Assembled
  <2>. HIDE DEF s, kept, k
  <2>4. \A i \in 1..m : /\ i \in 1..k /\ i \in 1..Len(results)
                        /\ results[i].rows \in Seq(Nat)
                        /\ Starts(results[i].rows, OwnAnswer[i])
                        /\ ~Truncated => Len(results[i].rows) = Len(OwnAnswer[i])
    <3>. SUFFICES ASSUME NEW i \in 1..m
                  PROVE  /\ i \in 1..k /\ i \in 1..Len(results)
                         /\ results[i].rows \in Seq(Nat)
                         /\ Starts(results[i].rows, OwnAnswer[i])
                         /\ ~Truncated => Len(results[i].rows) = Len(OwnAnswer[i])
      OBVIOUS
    <3>1. i \in 1..k /\ i \in 1..Len(results) /\ i \in DOMAIN results
      BY <1>1, <1>3 DEF TypeInv, k
    <3>2. OwnAnswer[i] = answer[i].rows
      BY <1>1, <3>1
    <3>3. Faithful(results[i], answer[i], retained)
      BY DEF CollectedUpTo
    <3>4. ~Truncated => ~results[i].cut
      BY <3>1 DEF Truncated
    <3>5. results[i].rows \in Seq(Nat)
      BY <3>1, CountedType
    <3>. QED
      BY <3>1, <3>2, <3>3, <3>4, <3>5 DEF Faithful
  <2>5. ASSUME NEW i \in 1..m
        PROVE  /\ Starts(s[i], OwnAnswer[i])
               /\ ~Truncated /\ Len(f) = Len(results[1].rows) => Len(s[i]) = Len(OwnAnswer[i])
    <3>1. CASE i = 1
      <4>1. results[1].rows \in Seq(Nat) /\ Starts(results[1].rows, OwnAnswer[1]) /\ OwnAnswer[1] \in Seq(Nat)
            /\ (~Truncated => Len(results[1].rows) = Len(OwnAnswer[1]))
        BY <1>1, <2>4, <3>1 DEF k
      <4>2. Starts(f, OwnAnswer[1])
        BY <1>3, <4>1, StartsOf
      <4>. QED
        BY <2>1, <3>1, <4>1, <4>2
    <3>2. CASE i # 1
      <4>1. i \in 2..m
        BY <3>2
      <4>. QED
        BY <2>1, <2>4, <4>1
    <3>. QED
      BY <3>1, <3>2
  <2>6. DOMAIN s = 1..m /\ \A i \in 1..m : s[i] \in Seq(Nat) /\ OwnAnswer[i] \in Seq(Nat)
    BY <1>1, <2>1, <2>4 DEF k
  <2>7. \A i \in DOMAIN s : IsPrefix(s[i], OwnAnswer[i])
    BY <2>5, <2>6, PrefixOf
  <2>8. ASSUME m = k, ~Truncated, Len(f) = Len(results[1].rows)
        PROVE  s = OwnAnswer
    <3>1. \A i \in 1..m : s[i] = OwnAnswer[i]
      BY <2>5, <2>6, <2>8, StartsAll
    <3>2. Len(s) = Len(OwnAnswer)
      BY <2>1, <2>8 DEF k
    <3>. QED
      BY <1>1, <2>1, <3>1, <3>2, SeqEqual
  <2>. QED
    BY <1>3, <2>1, <2>3, <2>7, <2>8 DEF kept, k
<1>. QED
  BY <1>2, <1>3

\* What the outcome of the current text must say of its answer.
Accounted(o) ==
    LET kept == IF OwnAnswer = <<>> /\ o.first = <<>> THEN o.more ELSE <<o.first>> \o o.more
    IN  /\ Len(kept) <= Len(OwnAnswer)
        /\ \A i \in DOMAIN kept : IsPrefix(kept[i], OwnAnswer[i])
        /\ ~o.truncated => kept = OwnAnswer
        /\ plan = "dml" => o.affected = Head(Last(answer).rows)

LEMMA CollectedAccounted ==
    ASSUME TypeInv, Progress, stage = "next", stream = <<>>, plan \in {"dml", "page", "rows"},
           Reading[text].returns, plan = "dml" => ~Served[sent].module
    PROVE  Accounted(Collected)
<1>. DEFINE n == Len(results)
            m == IF plan = "dml" THEN n - 1 ELSE n
            o == Collected
<1>1. /\ Shaped /\ n \in Nat /\ Len(answer) \in Nat /\ n <= Len(answer) /\ CollectedUpTo(n)
      /\ ~Truncated => n = Len(answer)
      /\ plan = "dml" => n = Len(answer) /\ results # <<>> /\ Len(Current.rows) = 1
  BY AllRead
<1>2. plan = "dml" => Len(answer) > 0 /\ n > 0 /\ Len(answer[Len(answer)].rows) = 1
  BY <1>1 DEF Shaped, AnswerShape
<1>3. Len(OwnAnswer) = (IF plan = "dml" THEN Len(answer) - 1 ELSE Len(answer))
      /\ OwnAnswer \in Seq(Seq(Nat))
  BY <1>2, OwnAnswerType
<1>4. /\ m \in Nat /\ m <= n /\ m <= Len(OwnAnswer) /\ CollectedUpTo(m)
      /\ ~Truncated => m = Len(OwnAnswer)
  <2>1. m \in Nat /\ m <= n /\ m <= Len(OwnAnswer) /\ (~Truncated => m = Len(OwnAnswer))
    BY <1>1, <1>2, <1>3
  <2>2. \A i \in 1..m : i \in 1..n
    BY <1>1, <2>1
  <2>3. CollectedUpTo(m)
    BY <1>1, <2>2 DEF CollectedUpTo
  <2>. QED
    BY <2>1, <2>3
<1>5. m = 0 => OwnAnswer = <<>>
  <2>. SUFFICES ASSUME m = 0 PROVE OwnAnswer = <<>>
    OBVIOUS
  <2>1. m = Len(OwnAnswer)
    <3>1. CASE plan = "dml"
      BY <1>1, <1>3, <3>1
    <3>2. CASE plan # "dml"
      <4>1. DOMAIN results = {}
        BY <3>2 DEF TypeInv
      <4>2. ~Truncated
        BY <4>1 DEF Truncated
      <4>. QED
        BY <1>4, <4>2
    <3>. QED
      BY <3>1, <3>2
  <2>2. Len(OwnAnswer) = 0 /\ OwnAnswer \in Seq(Seq(Nat))
    BY <1>3, <2>1
  <2>. HIDE DEF m
  <2>. QED
    BY <2>2
<1>6. RowsOf(1) \in Seq(Nat) /\ (n > 0 => RowsOf(1) = results[1].rows) /\ (n = 0 => RowsOf(1) = <<>>)
  <2>1. n > 0 => results # <<>>
    BY DEF TypeInv
  <2>2. n = 0 => results = <<>>
    BY DEF TypeInv
  <2>. QED
    BY <2>1, <2>2, RowsOfType DEF TypeInv
<1>. HIDE DEF n, m
\* Every plan has an outcome that is put together from m sets.
<1>7. ASSUME o.more = Further(m), o.first \in Seq(Nat), m = 0 => o.first = <<>>,
             m > 0 => Starts(o.first, results[1].rows),
             ~o.truncated => m = Len(OwnAnswer) /\ (m > 0 => ~Truncated /\ Len(o.first) = Len(results[1].rows)),
             plan = "dml" => o.affected = Head(Last(answer).rows)
      PROVE  Accounted(o)
  <2>. DEFINE kept == Assembled(o.first, m)
  <2>1. m <= Len(results)
    BY <1>4 DEF n
  <2>2. /\ Len(kept) <= Len(OwnAnswer)
        /\ \A i \in DOMAIN kept : IsPrefix(kept[i], OwnAnswer[i])
        /\ m = Len(OwnAnswer) /\ ~Truncated /\ (m > 0 => Len(o.first) = Len(results[1].rows)) =>
               kept = OwnAnswer
    BY <1>2, <1>4, <1>5, <1>7, <2>1, AssembledPart
  <2>3. kept = IF OwnAnswer = <<>> /\ o.first = <<>> THEN o.more ELSE <<o.first>> \o o.more
    BY <1>7 DEF Assembled
  <2>4. ~o.truncated => kept = OwnAnswer
    <3>. SUFFICES ASSUME ~o.truncated PROVE kept = OwnAnswer
      OBVIOUS
    <3>1. CASE m > 0
      BY <1>7, <2>2, <3>1
    <3>2. CASE ~(m > 0)
      <4>1. m = 0
        BY <1>4, <3>2
      <4>2. Further(m) = <<>>
        <5>1. Further(m) \in Seq(Seq(Nat)) /\ Len(Further(m)) = 0
          BY <2>1, <4>1, FurtherFacts DEF TypeInv
        <5>. QED
          BY <5>1
      <4>. QED
        BY <1>5, <1>7, <4>1, <4>2 DEF Assembled
    <3>. QED
      BY <3>1, <3>2
  <2>. HIDE DEF kept
  <2>. QED
    BY <1>7, <2>2, <2>3, <2>4 DEF Accounted
<1>8. Starts(RowsOf(1), RowsOf(1))
  BY <1>6 DEF Starts
<1>9. CASE plan = "rows"
  <2>1. o.more = Further(n) /\ o.first = RowsOf(1) /\ o.truncated = Truncated /\ m = n
    BY <1>9, CollectedType, RowsOutcomeType DEF n, m
  <2>. QED
    BY <1>4, <1>6, <1>7, <1>8, <1>9, <2>1
<1>10. CASE plan = "page"
  <2>. DEFINE f == SubSeq(RowsOf(1), 1, AtMost(Len(RowsOf(1)), limit))
  <2>1. /\ o.more = Further(n) /\ o.first = f /\ m = n
        /\ o.truncated = (Truncated \/ Len(RowsOf(1)) > limit) /\ limit # NoLimit
    BY <1>10, CollectedType, PageOutcomeType DEF n, m, TypeInv
  <2>2. /\ limit \in Nat /\ f \in Seq(Nat) /\ Len(f) = AtMost(Len(RowsOf(1)), limit)
        /\ \A i \in 1..Len(f) : f[i] = RowsOf(1)[i]
    BY <2>1, PageRows
  <2>. HIDE DEF f
  <2>3. Len(RowsOf(1)) \in Nat
    BY <1>6
  <2>4. Len(f) <= Len(RowsOf(1)) /\ (~(Len(RowsOf(1)) > limit) => Len(f) = Len(RowsOf(1)))
    BY <2>2, <2>3 DEF AtMost
  <2>5. Starts(f, RowsOf(1))
    BY <2>2, <2>4 DEF Starts
  <2>6. m = 0 => f = <<>>
    BY <1>6, <2>1, <2>2, <2>4
  <2>7. m > 0 => Starts(f, results[1].rows)
    BY <1>6, <2>1, <2>5
  <2>8. ~o.truncated => m = Len(OwnAnswer) /\ (m > 0 => ~Truncated /\ Len(f) = Len(results[1].rows))
    BY <1>4, <1>6, <2>1, <2>4
  <2>. QED
    BY <1>7, <1>10, <2>1, <2>2, <2>6, <2>7, <2>8
<1>11. CASE plan = "dml"
  <2>1. /\ o.more = Further(m) /\ o.first = (IF m = 0 THEN <<>> ELSE RowsOf(1))
        /\ o.truncated = (Truncated /\ m > 0) /\ o.affected = Current.rows[1]
    BY <1>11, CollectedType, DmlSucceeds DEF n, m
  <2>2. m = Len(OwnAnswer) /\ n = Len(answer) /\ n > 0 /\ (m > 0 => n > 0)
    BY <1>1, <1>2, <1>3, <1>11 DEF m
  <2>3. Current.rows[1] = Head(Last(answer).rows)
    <3>1. results # <<>> /\ Current = results[n] /\ Len(Current.rows) = 1
      BY <1>1, <1>11, CurrentRows DEF n
    <3>2. n \in 1..n
      BY <1>1, <2>2
    <3>3. Faithful(results[n], answer[n], retained)
      BY <1>1, <3>2 DEF CollectedUpTo
    <3>4. 1 \in 1..Len(Current.rows)
      BY <3>1
    <3>5. Current.rows[1] = answer[n].rows[1]
      BY <3>1, <3>3, <3>4 DEF Faithful, Starts
    <3>6. Last(answer) = answer[n] /\ answer[n] \in Sets
      BY <1>1, <2>2 DEF Last, TypeInv
    <3>7. Head(answer[n].rows) = answer[n].rows[1]
      BY <1>2, <1>11, <2>2, <3>6 DEF Sets
    <3>. QED
      BY <3>5, <3>6, <3>7
  <2>4. m > 0 => o.first = results[1].rows
    BY <1>6, <2>1, <2>2
  <2>5. o.first \in Seq(Nat)
    <3>1. <<>> \in Seq(Nat)
      OBVIOUS
    <3>. QED
      BY <1>6, <2>1, <3>1
  <2>6. m > 0 => Starts(o.first, results[1].rows)
    BY <1>6, <1>8, <2>1, <2>2, <2>4
  <2>7. ~o.truncated => m = Len(OwnAnswer) /\ (m > 0 => ~Truncated /\ Len(o.first) = Len(results[1].rows))
    BY <2>1, <2>2, <2>4
  <2>. QED
    BY <1>7, <2>1, <2>3, <2>5, <2>6, <2>7
<1>. QED
  BY <1>9, <1>10, <1>11

LEMMA NothingLostNext ==
    ASSUME TypeInv, Planned, Progress, NothingLostUnmarked, [Next]_vars
    PROVE  NothingLostUnmarked'
<1>8. CASE Send
  <2>1. stage' # "ready" \/ ~Last(outcomes').ok
    BY <1>8, SendType, AnsweredType, FailureType
  <2>. QED
    BY <2>1 DEF NothingLostUnmarked
<1>1. CASE OpenSet \/ RetainRow
  <2>1. stage' # "ready"
    BY <1>1 DEF OpenSet, RetainRow, RowPending
  <2>. QED
    BY <2>1 DEF NothingLostUnmarked
<1>2. CASE DropRow \/ EndSet
  <2>1. stage' # "ready"
    BY <1>2 DEF DropRow, EndSet, RowPending
  <2>. QED
    BY <2>1 DEF NothingLostUnmarked
<1>3. CASE RunPlain
  <2>1. plan' = "plain"
    BY <1>3, RunPlainType
  <2>. QED
    BY <2>1 DEF NothingLostUnmarked
<1>4. CASE Fail
  <2>1. ~Last(outcomes').ok
    BY <1>4, FailType, AnsweredType, FailureType
  <2>. QED
    BY <2>1 DEF NothingLostUnmarked
<1>5. CASE Finish
  <2>1. /\ stage = "next" /\ plan \in {"dml", "page", "rows"} /\ stream = <<>>
        /\ Collected \in Outcomes /\ Answered(Collected) /\ UNCHANGED <<plan, text, answer>>
    BY <1>5, FinishType
  <2>2. Last(outcomes') = Collected
    BY <2>1, AnsweredType
  <2>3. Reading[text].returns /\ Collected.ok => Accounted(Collected)
    BY <2>1, CollectedAccounted, ModuleFails, FailureType
  <2>4. OwnAnswer' = OwnAnswer
    BY <2>1 DEF OwnAnswer
  <2>. QED
    BY <2>1, <2>2, <2>3, <2>4 DEF NothingLostUnmarked, Accounted
<1>6. CASE NextPage
  <2>1. outcomes' = <<>>
    BY <1>6, NextPageType
  <2>. QED
    BY <2>1 DEF NothingLostUnmarked
<1>7. CASE UNCHANGED vars
  <2>1. /\ OwnAnswer' = OwnAnswer /\ text' = text /\ plan' = plan /\ outcomes' = outcomes
        /\ stage' = stage /\ answer' = answer
    BY <1>7 DEF vars, OwnAnswer
  <2>. QED
    BY <2>1 DEF NothingLostUnmarked
<1>. QED
  BY <1>1, <1>2, <1>3, <1>4, <1>5, <1>6, <1>7, <1>8 DEF Next, Collect
-----------------------------------------------------------------------------
(* The pages of a query.                                                   *)

\* A size of pages that the ceiling allows.
Sized == limit \in 1..MaxRows

SeenInOrder ==
    Paged /\ Sized /\ Served[sent].page = "sorted" => \A i \in 1..Len(seen) : seen[i] = i

\* The only set of a page is what is counted.
PageCounted == stage # "ready" /\ Paged => retained = Len(RowsOf(1))

\* Only the text that was paged is asked for again.
Request ==
    /\ page > 0
    /\ page > 1 => plan = "page" /\ (batch = <<>> \/ (batch = <<text>> /\ stage = "ready"))

\* A page is asked for when the pages before it were full.
Reached ==
    Paged /\ Sized =>
        /\ stage # "ready" /\ page = 1 => seen = <<>>
        /\ page > 1 /\ (stage # "ready" \/ batch # <<>>) =>
               Len(seen) = (page - 1) * limit /\ Len(seen) < Total

Reported ==
    Paged /\ Sized /\ stage = "ready" /\ outcomes # <<>> /\ Last(outcomes).ok =>
        /\ Last(outcomes).hasMore <=> Len(seen) < Total
        /\ Last(outcomes).hasMore => Len(seen) = page * limit

Paging == SeenInOrder /\ PageCounted /\ Request /\ Reached /\ Reported

LEMMA PagedStill == ASSUME UNCHANGED <<plan, sent>> PROVE Paged' = Paged
BY DEF Paged

LEMMA PagesTimes ==
    ASSUME NEW p \in Nat, NEW n \in Nat \ {0}
    PROVE  p <= p * n /\ p * n \in Nat /\ (p + 1 - 1) * n = p * n /\ (1 - 1) * n = 0
<1>1. n - 1 \in Nat /\ n = (n - 1) + 1
  OBVIOUS
<1>2. p * (n - 1) \in Nat
  BY <1>1
<1>3. p * n = p * (n - 1) + p
  OBVIOUS
<1>4. p + 1 - 1 = p /\ 1 - 1 = 0 /\ 0 * n = 0
  OBVIOUS
<1>. QED
  BY <1>2, <1>3, <1>4

\* The last row and the number of rows of the answer after the first l rows.
PageEnd(l, n) == AtMost(l + Fetch(n), Total)
PageLength(l, n) == IF PageEnd(l, n) < l + 1 THEN 0 ELSE PageEnd(l, n) - (l + 1) + 1

\* The lookahead row tells whether there is a further page, when r rows of the
\* answer were collected.
LEMMA Lookahead ==
    ASSUME NEW n \in Nat \ {0}, NEW l \in Nat, NEW r \in Nat, n <= MaxRows, l <= Total
    PROVE  LET k == PageLength(l, n)
           IN  /\ r < k /\ r >= MaxRows => l + AtMost(r, n) < Total /\ AtMost(r, n) = n
               /\ r = k => /\ r > n <=> l + AtMost(r, n) < Total
                           /\ r > n => AtMost(r, n) = n
<1>. DEFINE k == PageLength(l, n)
            u == PageEnd(l, n)
            most == U32Max
            t == Total
            max == MaxRows
<1>. SUFFICES /\ r < k /\ r >= max => l + AtMost(r, n) < t /\ AtMost(r, n) = n
              /\ r = k => /\ r > n <=> l + AtMost(r, n) < t
                          /\ r > n => AtMost(r, n) = n
  OBVIOUS
<1>0. most \in Nat /\ t \in Nat /\ max \in Nat /\ t <= most /\ n <= max /\ l <= t
  BY QueryAssumption
<1>1. AtMost(r, n) = IF r > n THEN n ELSE r
  BY DEF AtMost
<1>2. /\ u = IF l + Fetch(n) > t THEN t ELSE l + Fetch(n)
      /\ k = IF u < l + 1 THEN 0 ELSE u - (l + 1) + 1
      /\ Fetch(n) = IF n + 1 > most THEN most ELSE n + 1
  BY DEF PageEnd, PageLength, AtMost, Fetch
<1>. HIDE DEF k, u, most, t, max
<1>3. CASE n + 1 > most
  <2>1. u = IF l + most > t THEN t ELSE l + most
    BY <1>2, <1>3
  <2>2. u = t
    BY <1>0, <2>1
  <2>3. k = t - l /\ k <= n
    BY <1>0, <1>2, <1>3, <2>2
  <2>. QED
    BY <1>0, <1>1, <2>3
<1>4. CASE ~(n + 1 > most)
  <2>1. u = IF l + (n + 1) > t THEN t ELSE l + (n + 1)
    BY <1>2, <1>4
  <2>2. CASE l + (n + 1) > t
    <3>1. k = t - l /\ k <= n
      BY <1>0, <1>2, <2>1, <2>2
    <3>. QED
      BY <1>0, <1>1, <3>1
  <2>3. CASE ~(l + (n + 1) > t)
    <3>1. k = n + 1
      BY <1>0, <1>2, <2>1, <2>3
    <3>. QED
      BY <1>0, <1>1, <2>3, <3>1
  <2>. QED
    BY <2>2, <2>3
<1>. QED
  BY <1>3, <1>4

\* The offset that is sent is the number of rows that the host has.
LEMMA OffsetReached ==
    ASSUME TypeInv, Paging, stage # "ready", Paged, Sized
    PROVE  /\ limit \in Nat \ {0} /\ limit <= MaxRows
           /\ Len(seen) \in Nat /\ Len(seen) <= Total
           /\ Len(seen) = (page - 1) * limit
           /\ Offset(limit) = Len(seen)
<1>1. limit \in Nat \ {0} /\ limit <= MaxRows
  BY QueryAssumption DEF Sized
<1>2. Total \in Nat /\ U32Max \in Nat /\ Total <= U32Max
  BY QueryAssumption
<1>3. page \in Nat \ {0} /\ Len(seen) \in Nat
  BY DEF TypeInv, Paging, Request
<1>4. Len(seen) = (page - 1) * limit /\ Len(seen) <= Total
  <2>1. CASE page = 1
    <3>1. seen = <<>>
      BY <2>1 DEF Paging, Reached
    <3>2. (page - 1) * limit = 0
      BY <1>1, <2>1, PagesTimes
    <3>. QED
      BY <1>2, <3>1, <3>2
  <2>2. CASE page > 1
    BY <1>2, <1>3, <2>2 DEF Paging, Reached
  <2>. QED
    BY <1>3, <2>1, <2>2
<1>5. Offset(limit) = AtMost((page - 1) * limit, U32Max)
  BY <1>3 DEF Offset
<1>6. Offset(limit) = AtMost(Len(seen), U32Max)
  BY <1>4, <1>5
<1>7. Len(seen) <= U32Max
  BY <1>2, <1>3, <1>4
<1>8. Offset(limit) = Len(seen)
  BY <1>2, <1>3, <1>6, <1>7 DEF AtMost
<1>. QED
  BY <1>1, <1>3, <1>4, <1>8

LEMMA PagingSend ==
    ASSUME TypeInv, Planned, Paging, Send
    PROVE  Paging'
<1>1. /\ stage = "ready" /\ batch # <<>>
      /\ text' = Head(batch) /\ batch' = Tail(batch) /\ plan' = PlanOf(Head(batch))
      /\ results' = <<>> /\ retained' = 0
      /\ seen' = (IF page = 1 THEN <<>> ELSE seen)
      /\ UNCHANGED <<limit, page>>
  BY SendType
<1>2. page \in Nat \ {0}
  BY DEF TypeInv, Paging, Request
<1>3. PageCounted'
  <2>1. RowsOf(1)' = <<>>
    BY <1>1 DEF RowsOf
  <2>. QED
    BY <1>1, <2>1 DEF PageCounted
<1>4. Reported'
  <2>1. stage' # "ready" \/ ~Last(outcomes').ok
    BY SendType, AnsweredType, FailureType
  <2>. QED
    BY <2>1 DEF Reported
<1>5. CASE page = 1
  <2>1. seen' = <<>> /\ page' = 1
    BY <1>1, <1>5
  <2>. QED
    BY <1>3, <1>4, <2>1 DEF Paging, SeenInOrder, Request, Reached
<1>6. CASE page # 1
  <2>1. page > 1
    BY <1>2, <1>6
  <2>2. plan = "page" /\ batch = <<text>> /\ plan = PlanOf(text) /\ sent = TextFor(text)
    BY <1>1, <2>1 DEF Paging, Request, Planned
  <2>3. Head(batch) = text /\ Tail(batch) = <<>>
    BY <2>2
  <2>4. sent' = TextFor(text)
    BY <2>3 DEF Send
  <2>5. UNCHANGED <<plan, sent, seen, limit, page>> /\ batch' = <<>>
    BY <1>1, <1>6, <2>2, <2>3, <2>4
  <2>6. (Paged' = Paged) /\ (Sized' = Sized)
    BY <2>5, PagedStill DEF Sized
  <2>7. SeenInOrder' /\ Request'
    BY <2>2, <2>5, <2>6 DEF Paging, SeenInOrder, Request
  <2>8. Paged /\ Sized => Len(seen) = (page - 1) * limit /\ Len(seen) < Total
    BY <1>1, <2>1 DEF Paging, Reached
  <2>9. Reached'
    BY <1>6, <2>5, <2>6, <2>8 DEF Reached
  <2>. QED
    BY <1>3, <1>4, <2>7, <2>9 DEF Paging
<1>. QED
  BY <1>5, <1>6

\* A step that reads a row or ends a set.
LEMMA PagingRead ==
    ASSUME TypeInv, Paging, Kindred, stage # "ready", stage' # "ready", PageCounted'
    PROVE  Paging'
<1>1. UNCHANGED <<batch, limit, page, seen, plan, text, sent>>
  BY DEF Kindred
<1>2. (Paged' = Paged) /\ (Sized' = Sized)
  BY <1>1, PagedStill DEF Sized
<1>. QED
  BY <1>1, <1>2 DEF Paging, SeenInOrder, Request, Reached, Reported

LEMMA PageCountedOpen ==
    ASSUME TypeInv, Progress, Paging, OpenSet
    PROVE  PageCounted'
<1>. SUFFICES ASSUME Paged' PROVE retained' = Len(RowsOf(1)')
  BY DEF PageCounted
<1>. DEFINE r == [name |-> stream[1].name, rows |-> <<>>, cut |-> FALSE]
<1>1. /\ TypeInv' /\ Paged /\ stage = "next" /\ stream # <<>>
      /\ results' = Append(results, r) /\ retained' = retained
  BY OpenSetType, PagedStill DEF Kindred
<1>2. Whole /\ Len(answer) = 1
  BY <1>1 DEF Progress, Stopped, Shaped, AnswerShape, Paged
<1>3. results = <<>>
  <2>1. Len(results) \in Nat /\ Len(stream) \in Nat \ {0}
    BY <1>1 DEF TypeInv
  <2>2. Len(results) + Len(stream) = 1
    BY <1>2 DEF Whole
  <2>3. Len(results) = 0
    BY <2>1, <2>2
  <2>. QED
    BY <2>3 DEF TypeInv
<1>4. retained = 0
  <2>1. RowsOf(1) = <<>>
    BY <1>3 DEF RowsOf
  <2>. QED
    BY <1>1, <2>1 DEF Paging, PageCounted
<1>5. results' = <<r>>
  BY <1>1, <1>3
<1>6. RowsOf(1)' = <<>>
  BY <1>5 DEF RowsOf
<1>. QED
  BY <1>1, <1>4, <1>6

LEMMA PageCountedRow ==
    ASSUME TypeInv, Progress, Paging, RetainRow \/ DropRow
    PROVE  PageCounted'
<1>. SUFFICES ASSUME Paged' PROVE retained' = Len(RowsOf(1)')
  BY DEF PageCounted
<1>1. stage = "rows" /\ WithinSet /\ Shaped /\ Paged
  BY PagedStill DEF RetainRow, DropRow, RowPending, Progress, requestVars
<1>2. Len(results) \in 1..Len(answer) /\ results # <<>> /\ stream # <<>> /\ results[Len(results)] \in Kept
  BY <1>1, WithinFacts
<1>3. Len(answer) = 1 /\ answer[1].name # "count"
  <2>1. Len(answer) = 1 /\ 1 \in 1..Len(answer)
    BY <1>1 DEF Shaped, AnswerShape, Paged
  <2>. QED
    BY <1>1, <2>1 DEF Shaped, AnswerShape, Paged
<1>4. Len(results) = 1 /\ results[1] \in Kept
  <2>1. Len(results) \in 1..1
    BY <1>2, <1>3
  <2>2. Len(results) = 1
    BY <2>1
  <2>. QED
    BY <1>2, <2>2
<1>5. results[1].name # "count"
  BY <1>1, <1>3, <1>4 DEF WithinSet, ReadUpTo
<1>6. retained = Len(results[1].rows) /\ results[1].rows \in Seq(Nat)
  <2>1. RowsOf(1) = results[1].rows
    BY <1>2, RowsOfType DEF TypeInv
  <2>. QED
    BY <1>1, <1>4, <2>1 DEF Paging, PageCounted, Kept
<1>7. CASE RetainRow
  <2>1. /\ TypeInv' /\ Len(results') = 1 /\ Head(stream[1].rows) \in Nat
        /\ results'[1].rows = Append(results[1].rows, Head(stream[1].rows))
        /\ retained' = retained + 1
    BY <1>2, <1>4, <1>5, <1>7, RetainRowType
  <2>2. RowsOf(1)' = Append(results[1].rows, Head(stream[1].rows))
    <3>1. 1 \in DOMAIN results'
      BY <2>1 DEF TypeInv
    <3>. QED
      BY <2>1, <3>1 DEF RowsOf
  <2>3. Len(Append(results[1].rows, Head(stream[1].rows))) = Len(results[1].rows) + 1
    BY <1>6, <2>1, AppendProperties
  <2>. QED
    BY <1>6, <2>1, <2>2, <2>3
<1>8. CASE DropRow
  <2>1. TypeInv' /\ Len(results') = 1 /\ results'[1].rows = results[1].rows /\ retained' = retained
    BY <1>2, <1>4, <1>8, DropRowType
  <2>2. RowsOf(1)' = results[1].rows
    <3>1. 1 \in DOMAIN results'
      BY <2>1 DEF TypeInv
    <3>. QED
      BY <2>1, <3>1 DEF RowsOf
  <2>. QED
    BY <1>6, <2>1, <2>2
<1>. QED
  BY <1>7, <1>8

\* The page that is collected: as many rows as are next, the next ones of a
\* query that sorts, and whether there are more.
LEMMA PageCollected ==
    ASSUME TypeInv, Progress, Paging, stage = "next", stream = <<>>, Paged, Sized
    PROVE  LET f == PageOutcome.first
           IN  /\ f \in Seq(Nat)
               /\ Served[sent].page = "sorted" => \A i \in 1..Len(f) : f[i] = Len(seen) + i
               /\ PageOutcome.hasMore <=> Len(seen) + Len(f) < Total
               /\ PageOutcome.hasMore => Len(f) = limit
<1>. DEFINE f == PageOutcome.first
            l == Len(seen)
            n == limit
            u == AtMost(l + AtMost(n + 1, U32Max), Total)
            a == answer[1].rows
            r == RowsOf(1)
<1>0. plan = "page" /\ Served[sent].page \in {"sorted", "unsorted"}
  BY DEF Paged
<1>1. n \in Nat \ {0} /\ n <= MaxRows /\ l \in Nat /\ l <= Total /\ Offset(n) = l /\ n # NoLimit
  BY <1>0, OffsetReached DEF TypeInv
<1>2. Total \in Nat /\ U32Max \in Nat /\ MaxRows \in Nat /\ Total <= U32Max
  BY QueryAssumption
<1>3. /\ Shaped /\ Len(results) \in Nat /\ Len(results) <= Len(answer) /\ CollectedUpTo(Len(results))
      /\ ~Truncated => Len(results) = Len(answer)
  BY <1>0, AllRead
<1>14. Requested = Rows(l + 1, u)
  BY <1>1, RequestedType DEF Fetch
<1>4. /\ Len(answer) = 1 /\ answer[1] \in Sets /\ Len(a) = Len(Rows(l + 1, u))
      /\ Served[sent].page = "sorted" => a = Rows(l + 1, u)
  BY <1>0, <1>3, <1>14 DEF Shaped, AnswerShape
<1>5. u \in Nat
  BY <1>1, <1>2 DEF AtMost
<1>6. /\ a \in Seq(Nat) /\ Len(a) = (IF u < l + 1 THEN 0 ELSE u - (l + 1) + 1)
      /\ Served[sent].page = "sorted" => \A i \in 1..Len(a) : a[i] = l + i
  <2>1. l + 1 \in Nat
    BY <1>1
  <2>2. /\ a \in Seq(Nat) /\ Len(a) = (IF u < l + 1 THEN 0 ELSE u - (l + 1) + 1)
        /\ Served[sent].page = "sorted" => \A i \in 1..Len(a) : a[i] = l + 1 + i - 1
    <3>1. PICK k \in Nat, v \in Nat : k = l + 1 /\ v = u
      BY <1>5, <2>1
    <3>2. /\ Len(Rows(k, v)) = IF v < k THEN 0 ELSE v - k + 1
          /\ \A i \in 1..Len(Rows(k, v)) : Rows(k, v)[i] = k + i - 1
      BY RowsType
    <3>3. a \in Seq(Nat)
      BY <1>4 DEF Sets
    <3>. HIDE DEF a, u, l
    <3>. QED
      BY <1>4, <3>1, <3>2, <3>3
  <2>. HIDE DEF a
  <2>3. Len(a) \in Nat /\ \A i \in 1..Len(a) : l + 1 + i - 1 = l + i
    BY <1>1, <2>2
  <2>. QED
    BY <2>2, <2>3
<1>7. Len(results) = 1
  <2>1. Len(results) = 0 => ~Truncated
    BY DEF Truncated, TypeInv
  <2>2. CASE Len(results) = 0
    BY <1>3, <1>4, <2>1, <2>2
  <2>3. CASE Len(results) # 0
    <3>1. Len(results) \in Nat /\ Len(results) <= 1
      BY <1>3, <1>4
    <3>2. \A i \in Nat : i # 0 /\ i <= 1 => i = 1
      OBVIOUS
    <3>. QED
      BY <2>3, <3>1, <3>2
  <2>. QED
    BY <2>2, <2>3
<1>8. r = results[1].rows /\ r \in Seq(Nat) /\ results[1] \in Kept /\ Truncated = results[1].cut
  <2>2. results \in Seq(Kept)
    BY DEF TypeInv
  <2>3. DOMAIN results = 1..1
    BY <1>7, <2>2
  <2>4. results[1] \in Kept
    BY <1>7, <2>2
  <2>1. results # <<>> /\ DOMAIN results = {1} /\ results[1] \in Kept
    BY <1>7, <2>3, <2>4
  <2>. QED
    BY <2>1, RowsOfType DEF TypeInv, Truncated, Kept
<1>9. /\ Starts(r, a)
      /\ IF Truncated THEN Len(r) < Len(a) /\ Len(r) >= MaxRows ELSE Len(r) = Len(a)
  <2>1. Faithful(results[1], answer[1], retained)
    BY <1>3, <1>7 DEF CollectedUpTo
  <2>2. retained = Len(r)
    BY DEF Paging, PageCounted
  <2>. QED
    BY <1>8, <2>1, <2>2 DEF Faithful, CutFor
<1>10. /\ f \in Seq(Nat) /\ Len(f) = AtMost(Len(r), n) /\ \A i \in 1..Len(f) : f[i] = r[i]
       /\ PageOutcome.hasMore = (Truncated \/ Len(r) > n)
  BY <1>0, <1>1, PageRows, PageOutcomeType
<1>. HIDE DEF f, r, a, l, n
<1>11. Len(r) \in Nat /\ Len(a) \in Nat /\ Truncated \in BOOLEAN
  BY <1>6, <1>8, TruncatedType
<1>12. /\ Truncated \/ Len(r) > n <=> l + AtMost(Len(r), n) < Total
       /\ Truncated \/ Len(r) > n => AtMost(Len(r), n) = n
  <2>. DEFINE m == Len(r)
  <2>1. Len(a) = PageLength(l, n)
    BY <1>6 DEF PageLength, PageEnd, Fetch
  <2>2. m \in Nat /\ (IF Truncated THEN m < PageLength(l, n) /\ m >= MaxRows ELSE m = PageLength(l, n))
    BY <1>9, <1>11, <2>1
  <2>. HIDE DEF m, u
  <2>3. /\ m < PageLength(l, n) /\ m >= MaxRows => l + AtMost(m, n) < Total /\ AtMost(m, n) = n
        /\ m = PageLength(l, n) => /\ m > n <=> l + AtMost(m, n) < Total
                                   /\ m > n => AtMost(m, n) = n
    BY <1>1, <2>2, Lookahead
  <2>4. CASE Truncated
    BY <2>2, <2>3, <2>4 DEF m
  <2>5. CASE ~Truncated
    BY <2>2, <2>3, <2>5 DEF m
  <2>. QED
    BY <2>4, <2>5
<1>13. Served[sent].page = "sorted" => \A i \in 1..Len(f) : f[i] = l + i
  <2>. SUFFICES ASSUME Served[sent].page = "sorted", NEW i \in 1..Len(f) PROVE f[i] = l + i
    OBVIOUS
  <2>1. Len(f) <= Len(r) /\ Len(r) <= Len(a)
    BY <1>1, <1>9, <1>10, <1>11 DEF AtMost, Starts
  <2>2. i \in 1..Len(r) /\ i \in 1..Len(a)
    BY <1>11, <2>1
  <2>. QED
    BY <1>6, <1>9, <1>10, <2>2 DEF Starts
<1>. QED
  BY <1>10, <1>12, <1>13 DEF f, l, n

LEMMA PagingFinish ==
    ASSUME TypeInv, Progress, Paging, Finish
    PROVE  Paging'
<1>1. /\ TypeInv' /\ stage = "next" /\ plan \in {"dml", "page", "rows"} /\ stream = <<>>
      /\ stage' = "ready" /\ Collected \in Outcomes /\ Answered(Collected)
      /\ seen' = (IF Paged THEN seen \o PageOutcome.first ELSE seen)
      /\ UNCHANGED <<batch, limit, page, plan, text, sent>>
  BY FinishType
<1>2. page \in Nat \ {0} /\ (page > 1 => batch = <<>>)
  BY <1>1 DEF Paging, Request, TypeInv
<1>3. (Paged' = Paged) /\ (Sized' = Sized)
  BY <1>1, PagedStill DEF Sized
<1>4. PageCounted' /\ Request' /\ Reached'
  BY <1>1, <1>2, <1>3 DEF Paging, PageCounted, Request, Reached
<1>5. CASE Paged /\ Sized
  <2>. DEFINE f == PageOutcome.first
              l == Len(seen)
  <2>1. /\ f \in Seq(Nat)
        /\ Served[sent].page = "sorted" => \A i \in 1..Len(f) : f[i] = l + i
        /\ PageOutcome.hasMore <=> l + Len(f) < Total
        /\ PageOutcome.hasMore => Len(f) = limit
    BY <1>1, <1>5, PageCollected
  <2>2. limit \in Nat \ {0} /\ l \in Nat /\ l = (page - 1) * limit
    BY <1>1, <1>5, OffsetReached
  <2>3. /\ seen' = seen \o f /\ Len(seen') = l + Len(f)
        /\ \A i \in 1..l : seen'[i] = seen[i]
        /\ \A i \in (l + 1)..(l + Len(f)) : seen'[i] = f[i - l]
    <3>1. seen' = seen \o f /\ seen \in Seq(Nat)
      BY <1>1, <1>5 DEF TypeInv
    <3>. HIDE DEF f
    <3>. QED
      BY <2>1, <3>1, ConcatProperties
  <2>. HIDE DEF f, l
  <2>4. Len(f) \in Nat
    BY <2>1
  <2>5. SeenInOrder'
    <3>. SUFFICES ASSUME Served[sent].page = "sorted", NEW i \in 1..(l + Len(f)) PROVE seen'[i] = i
      BY <1>1, <2>3 DEF SeenInOrder
    <3>1. CASE i \in 1..l
      BY <1>5, <2>3, <3>1 DEF Paging, SeenInOrder, l
    <3>2. CASE i \notin 1..l
      <4>1. i \in (l + 1)..(l + Len(f)) /\ i - l \in 1..Len(f) /\ l + (i - l) = i
        BY <2>2, <2>4, <3>2
      <4>. QED
        BY <2>1, <2>3, <4>1
    <3>. QED
      BY <3>1, <3>2
  <2>6. Reported'
    <3>1. Last(outcomes') = PageOutcome
      BY <1>1, <1>5, AnsweredType, CollectedType DEF Paged
    <3>2. (page - 1) * limit + limit = page * limit
      <4>1. (page - 1) * limit = page * limit - limit /\ page * limit \in Nat
        BY <1>2, <2>2
      <4>. QED
        BY <2>2, <4>1
    <3>3. PageOutcome.hasMore => Len(seen') = page * limit
      BY <2>1, <2>2, <2>3, <3>2
    <3>4. PageOutcome.hasMore <=> Len(seen') < Total
      BY <2>1, <2>3
    <3>. QED
      BY <1>1, <3>1, <3>3, <3>4 DEF Reported
  <2>. QED
    BY <1>4, <2>5, <2>6 DEF Paging
<1>6. CASE ~(Paged /\ Sized)
  <2>1. SeenInOrder' /\ Reported'
    BY <1>3, <1>6 DEF SeenInOrder, Reported
  <2>. QED
    BY <1>4, <2>1 DEF Paging
<1>. QED
  BY <1>5, <1>6

LEMMA PagingFailOrPlain ==
    ASSUME TypeInv, Paging, Fail \/ RunPlain
    PROVE  Paging'
<1>1. /\ stage # "ready" /\ stage' = "ready"
      /\ UNCHANGED <<batch, limit, page, seen, plan, text, sent>>
      /\ plan' = "plain" \/ ~Last(outcomes').ok
  <2>1. CASE Fail
    BY <2>1, FailType, AnsweredType, FailureType
  <2>2. CASE RunPlain
    BY <2>2, RunPlainType
  <2>. QED
    BY <2>1, <2>2
<1>2. (Paged' = Paged) /\ (Sized' = Sized) /\ (Paged => plan = "page")
  BY <1>1, PagedStill DEF Sized, Paged
<1>3. page > 1 => batch = <<>>
  BY <1>1 DEF Paging, Request
<1>. QED
  BY <1>1, <1>2, <1>3 DEF Paging, SeenInOrder, PageCounted, Request, Reached, Reported

LEMMA PagingNextPage ==
    ASSUME TypeInv, Paging, NextPage
    PROVE  Paging'
<1>1. /\ stage = "ready" /\ batch = <<>> /\ plan = "page"
      /\ outcomes # <<>> /\ Last(outcomes).ok /\ Last(outcomes).hasMore
      /\ batch' = <<text>> /\ page' = page + 1 /\ outcomes' = <<>>
      /\ UNCHANGED <<limit, seen, stage, plan, text, sent>>
  BY NextPageType
<1>2. (Paged' = Paged) /\ (Sized' = Sized)
  BY <1>1, PagedStill DEF Sized
<1>3. page \in Nat \ {0} /\ page' > 1 /\ page' # 1
  BY <1>1 DEF TypeInv, Paging, Request
<1>4. SeenInOrder' /\ PageCounted' /\ Reported'
  BY <1>1, <1>2 DEF Paging, SeenInOrder, PageCounted, Reported
<1>5. Request'
  BY <1>1, <1>3 DEF Request
<1>6. ASSUME Paged, Sized PROVE Len(seen') = (page' - 1) * limit' /\ Len(seen') < Total
  <2>1. Len(seen) < Total /\ Len(seen) = page * limit
    BY <1>1, <1>6 DEF Paging, Reported
  <2>2. limit \in Nat \ {0}
    BY <1>6, QueryAssumption DEF Sized
  <2>3. PICK p \in Nat, n \in Nat \ {0} : p = page /\ n = limit
    BY <1>3, <2>2
  <2>4. page' - 1 = p /\ limit' = n /\ seen' = seen
    BY <1>1, <2>3
  <2>5. Len(seen) = p * n
    BY <2>1, <2>3, Zenon
  <2>6. Len(seen') = (page' - 1) * limit'
    BY <2>4, <2>5, Zenon
  <2>. QED
    BY <2>1, <2>4, <2>6
<1>7. Reached'
  BY <1>1, <1>2, <1>3, <1>6 DEF Reached
<1>. QED
  BY <1>4, <1>5, <1>7 DEF Paging

LEMMA PagingNext ==
    ASSUME TypeInv, Planned, Progress, Paging, [Next]_vars
    PROVE  Paging'
<1>1. CASE OpenSet
  <2>1. Kindred /\ stage # "ready" /\ stage' # "ready"
    BY <1>1, OpenSetType
  <2>. QED
    BY <1>1, <2>1, PageCountedOpen, PagingRead
<1>2. CASE RetainRow \/ DropRow
  <2>1. stage = "rows" /\ results # <<>> /\ stream # <<>>
    BY <1>2 DEF RetainRow, DropRow, RowPending, Progress, WithinSet
  <2>2. Kindred /\ stage' # "ready"
    BY <1>2, <2>1, RetainRowType, DropRowType
  <2>. QED
    BY <1>2, <2>1, <2>2, PageCountedRow, PagingRead
<1>3. CASE EndSet
  <2>1. stream # <<>>
    BY <1>3 DEF EndSet, Progress, WithinSet
  <2>2. Kindred /\ stage = "rows" /\ stage' = "next" /\ UNCHANGED <<results, retained>>
    BY <1>3, <2>1, EndSetType
  <2>3. PageCounted'
    BY <2>2, PagedStill DEF Kindred, Paging, PageCounted, RowsOf
  <2>. QED
    BY <2>2, <2>3, PagingRead
<1>4. CASE UNCHANGED vars
  <2>1. (Paged' = Paged) /\ (Sized' = Sized) /\ UNCHANGED <<batch, limit, page, seen, plan, text, sent, stage, outcomes>>
    BY <1>4, PagedStill DEF vars, Sized
  <2>2. PageCounted'
    BY <1>4, <2>1 DEF vars, Paging, PageCounted, RowsOf
  <2>. QED
    BY <2>1, <2>2 DEF Paging, SeenInOrder, Request, Reached, Reported
<1>. QED
  BY <1>1, <1>2, <1>3, <1>4, PagingSend, PagingFinish, PagingFailOrPlain, PagingNextPage
     DEF Next, Collect
-----------------------------------------------------------------------------
(* Loops and sequences.                                                     *)

\* Induction over the naturals, for a set: were m the least number outside
\* of T, then 0..m would be least among the intervals that end outside.
LEMMA Induction ==
    ASSUME NEW T, 0 \in T, \A n \in Nat : n \in T => n + 1 \in T
    PROVE  \A n \in Nat : n \in T
<1>. SUFFICES ASSUME NEW m \in Nat, m \notin T PROVE FALSE
  OBVIOUS
<1>. DEFINE S == 0..m
            R == StrictSubsetOrdering(S)
            F == {0..n : n \in {k \in 0..m : k \notin T}}
<1>1. IsFiniteSet(S)
  BY FS_Interval
<1>1a. FiniteSubsetsOf(S) = SUBSET S
  BY <1>1, FS_FiniteSubsetsOfFinite
<1>2. IsWellFoundedOn(R, SUBSET S)
  BY <1>1a, FS_StrictSubsetOrderingWellFounded
<1>3. F \subseteq SUBSET S /\ F # {}
  OBVIOUS
<1>4. \E x \in F : \A y \in F : <<y, x>> \notin R
  <2>. HIDE DEF F, R, S
  <2>. QED
    BY <1>2, <1>3, WFMin
<1>5. PICK n \in 0..m : n \notin T /\ \A k \in 0..m : k \notin T => <<0..k, 0..n>> \notin R
  <2>. HIDE DEF R, S
  <2>. QED
    BY <1>4
<1>6. n # 0 /\ n - 1 \in 0..m
  BY <1>5
<1>7. n - 1 \notin T
  BY <1>5, <1>6
<1>8. <<0..(n - 1), 0..n>> \in R
  <2>1. n \in 0..n /\ n \notin 0..(n - 1)
    BY <1>6
  <2>. QED
    BY <1>6, <2>1 DEF StrictSubsetOrdering
<1>. QED
  BY <1>5, <1>6, <1>7, <1>8

Loops(f, n, first, step) == f[0] = first /\ \A i \in 1..n : f[i] = step[i][f[i - 1]]

\* A loop of n turns has a state before it and after each turn.
LEMMA Turns ==
    ASSUME NEW X, NEW n \in Nat, NEW first \in X, NEW step \in [1..n -> [X -> X]]
    PROVE  \E f \in [0..n -> X] : Loops(f, n, first, step)
<1>. DEFINE Turn(f, i) == IF i = 0 THEN first ELSE step[i][f[i - 1]]
            T == {k \in Nat : k <= n => \E f \in [0..k -> X] : \A i \in 0..k : f[i] = Turn(f, i)}
<1>1. 0 \in T
  <2>1. [i \in 0..0 |-> first] \in [0..0 -> X]
    OBVIOUS
  <2>2. \A i \in 0..0 : [j \in 0..0 |-> first][i] = Turn([j \in 0..0 |-> first], i)
    OBVIOUS
  <2>. QED
    BY <2>1, <2>2
<1>2. ASSUME NEW k \in Nat, k \in T PROVE k + 1 \in T
  <2>. SUFFICES ASSUME k + 1 <= n
       PROVE  \E f \in [0..(k + 1) -> X] : \A i \in 0..(k + 1) : f[i] = Turn(f, i)
    OBVIOUS
  <2>1. PICK g \in [0..k -> X] : \A i \in 0..k : g[i] = Turn(g, i)
    BY <1>2
  <2>. DEFINE f == [i \in 0..(k + 1) |-> IF i = k + 1 THEN step[k + 1][g[k]] ELSE g[i]]
  <2>2. k + 1 \in 1..n /\ g[k] \in X
    OBVIOUS
  <2>3. step[k + 1][g[k]] \in X
    BY <2>2
  <2>4. \A i \in 0..(k + 1) : i = k + 1 \/ i \in 0..k
    OBVIOUS
  <2>5. f \in [0..(k + 1) -> X]
    BY <2>3, <2>4
  <2>6. \A i \in 0..k : f[i] = g[i]
    OBVIOUS
  <2>7. f[k + 1] = Turn(f, k + 1)
    <3>1. k + 1 # 0 /\ (k + 1) - 1 = k /\ k \in 0..k /\ k + 1 \in 0..(k + 1)
      OBVIOUS
    <3>2. f[k] = g[k] /\ f[k + 1] = step[k + 1][g[k]]
      BY <2>6, <3>1
    <3>. HIDE DEF f
    <3>. QED
      BY <3>1, <3>2
  <2>8. \A i \in 0..k : f[i] = Turn(f, i)
    <3>1. TAKE i \in 0..k
    <3>2. CASE i = 0
      BY <2>1, <2>6, <3>2
    <3>3. CASE i # 0
      <4>1. i - 1 \in 0..k
        BY <3>3
      <4>. QED
        BY <2>1, <2>6, <4>1
    <3>. QED
      BY <3>2, <3>3
  <2>. HIDE DEF f, Turn
  <2>. QED
    BY <2>4, <2>5, <2>7, <2>8
<1>3. n \in T
  <2>. HIDE DEF T
  <2>. QED
    BY <1>1, <1>2, Induction
<1>4. PICK f \in [0..n -> X] : \A i \in 0..n : f[i] = Turn(f, i)
  BY <1>3
<1>5. f[0] = first
  <2>1. 0 \in 0..n
    OBVIOUS
  <2>. QED
    BY <1>4, <2>1
<1>6. \A i \in 1..n : i \in 0..n /\ i # 0
  OBVIOUS
<1>7. \A i \in 1..n : f[i] = step[i][f[i - 1]]
  BY <1>4, <1>6
<1>. QED
  BY <1>5, <1>7 DEF Loops

\* Loops that begin alike and go on alike are alike.
Alike(f, g, n) == f[0] = g[0] /\ \A i \in 1..n : f[i - 1] = g[i - 1] => f[i] = g[i]

LEMMA SameTurns ==
    ASSUME NEW n \in Nat, NEW f, NEW g, Alike(f, g, n)
    PROVE  \A i \in 0..n : f[i] = g[i]
<1>. DEFINE T == {k \in Nat : k <= n => f[k] = g[k]}
<1>1. 0 \in T
  BY DEF Alike
<1>2. ASSUME NEW k \in Nat, k \in T PROVE k + 1 \in T
  <2>1. k + 1 \in Nat /\ (k + 1) - 1 = k
    OBVIOUS
  <2>2. ASSUME k + 1 <= n PROVE f[k + 1] = g[k + 1]
    <3>1. k + 1 \in 1..n /\ f[k] = g[k]
      BY <1>2, <2>2
    <3>. QED
      BY <2>1, <3>1 DEF Alike
  <2>. QED
    BY <2>1, <2>2
<1>3. \A k \in Nat : k \in T
  <2>. HIDE DEF T
  <2>. QED
    BY <1>1, <1>2, Induction
<1>. QED
  BY <1>3
-----------------------------------------------------------------------------
(* The loops.                                                              *)

Tokens == Words \cup Marks \cup Added
Modes == {"code"} \cup Opens
ScanStates == [mode : Modes, depth : Int, skip : BOOLEAN, code : Seq(Tokens)]
Start == [mode |-> "code", depth |-> 0, skip |-> FALSE, code |-> <<>>]

LEMMA ScanTyped ==
    ASSUME NEW s \in ScanStates, NEW c \in Tokens, NEW next
    PROVE  Scan(s, c, next) \in ScanStates
<1>1. s.depth + 1 \in Int /\ s.depth - 1 \in Int /\ Append(s.code, c) \in Seq(Tokens)
  BY DEF ScanStates
<1>2. ASSUME s.skip PROVE Scan(s, c, next) \in ScanStates
  BY <1>2 DEF Scan, ScanStates
<1>3. ASSUME ~s.skip, s.mode = "code" PROVE Scan(s, c, next) \in ScanStates
  <2>1. CASE c \in Opens
    <3>1. PICK t : t = [s EXCEPT !.mode = c]
      OBVIOUS
    <3>2. t \in ScanStates
      BY <2>1, <3>1 DEF ScanStates, Modes
    <3>3. Scan(s, c, next) = [t EXCEPT !.depth = 1]
      BY <1>3, <2>1, <3>1 DEF Scan, ScanStates
    <3>. QED
      BY <3>2, <3>3 DEF ScanStates
  <2>2. CASE c \notin Opens
    <3>1. PICK code \in Seq(Tokens) : code = IF c = "\n" THEN s.code ELSE Append(s.code, c)
      BY <1>1 DEF ScanStates
    <3>2. Scan(s, c, next) = [s EXCEPT !.code = code]
      BY <1>3, <2>2, <3>1 DEF Scan
    <3>. QED
      BY <3>2 DEF ScanStates
  <2>. QED
    BY <2>1, <2>2
<1>4. ASSUME ~s.skip, s.mode # "code" PROVE Scan(s, c, next) \in ScanStates
  <2>1. PICK up \in Int, down \in Int : up = s.depth + 1 /\ down = s.depth - 1
    BY <1>1
  <2>2. Scan(s, c, next) \in {[s EXCEPT !.skip = TRUE], [s EXCEPT !.mode = "code"],
                              [s EXCEPT !.depth = up], [s EXCEPT !.depth = down], s}
    BY <1>4, <2>1 DEF Scan
  <2>3. /\ [s EXCEPT !.skip = TRUE] \in ScanStates
        /\ [s EXCEPT !.mode = "code"] \in ScanStates
        /\ [s EXCEPT !.depth = up] \in ScanStates
        /\ [s EXCEPT !.depth = down] \in ScanStates
    BY DEF ScanStates, Modes
  <2>. QED
    BY ONLY <2>2, <2>3, s \in ScanStates
<1>. QED
  BY <1>2, <1>3, <1>4

LEMMA ScansRun ==
    ASSUME NEW q \in Seq(Tokens)
    PROVE  /\ Scans(q) \in [0..Len(q) -> ScanStates]
           /\ Scans(q)[0] = Start
           /\ \A i \in 1..Len(q) : Scans(q)[i] = Scan(Scans(q)[i - 1], q[i], Ahead(q, i))
<1>. DEFINE n == Len(q)
            step == [i \in 1..n |-> [s \in ScanStates |-> Scan(s, q[i], Ahead(q, i))]]
<1>1. n \in Nat /\ \A i \in 1..n : q[i] \in Tokens
  OBVIOUS
<1>2. Start \in ScanStates
  BY DEF Start, ScanStates, Modes
<1>3. step \in [1..n -> [ScanStates -> ScanStates]]
  BY <1>1, ScanTyped
<1>4. PICK f \in [0..n -> ScanStates] : Loops(f, n, Start, step)
  <2>1. n \in Nat
    OBVIOUS
  <2>. HIDE DEF n, step
  <2>. QED
    BY ONLY <2>1, <1>2, <1>3, Turns
<1>5. f[0] = Start /\ \A i \in 1..n : f[i] = Scan(f[i - 1], q[i], Ahead(q, i))
  <2>1. f[0] = Start
    BY <1>4 DEF Loops
  <2>2. ASSUME NEW i \in 1..n PROVE f[i] = Scan(f[i - 1], q[i], Ahead(q, i))
    <3>1. f[i - 1] \in ScanStates
      BY <1>1
    <3>2. f[i] = step[i][f[i - 1]]
      BY <1>4 DEF Loops
    <3>. QED
      BY <3>1, <3>2
  <2>. QED
    BY <2>1, <2>2
<1>. HIDE DEF step
<1>6. f = [i \in 0..n |-> IF i = 0 THEN Start ELSE Scan(f[i - 1], q[i], Ahead(q, i))]
  <2>1. \A i \in 0..n : i = 0 \/ i \in 1..n
    BY <1>1
  <2>. QED
    BY <1>5, <2>1
<1>7. PICK g : g = Scans(q)
  OBVIOUS
<1>8. g = [i \in 0..n |-> IF i = 0 THEN Start ELSE Scan(g[i - 1], q[i], Ahead(q, i))]
  <2>1. g = CHOOSE at : at = [i \in 0..Len(q) |->
                       IF i = 0 THEN Start ELSE Scan(at[i - 1], q[i], Ahead(q, i))]
    BY <1>7 DEF Scans, Start
  <2>. QED
    BY <1>6, <2>1, Zenon
<1>9. \A i \in 0..n : f[i] = g[i]
  <2>1. f[0] = g[0]
    BY <1>1, <1>5, <1>8
  <2>2. \A i \in 1..n : g[i] = Scan(g[i - 1], q[i], Ahead(q, i))
    BY <1>1, <1>8
  <2>3. \A i \in 1..n : f[i - 1] = g[i - 1] => f[i] = g[i]
    BY <1>5, <2>2
  <2>4. Alike(f, g, n)
    BY <2>1, <2>3 DEF Alike
  <2>. QED
    BY <1>1, <2>4, SameTurns
<1>10. g = f
  <2>1. DOMAIN g = 0..n
    BY <1>8
  <2>. QED
    BY <1>8, <1>9, <2>1
<1>. QED
  BY <1>5, <1>7, <1>10

LEMMA DepthsRun ==
    ASSUME NEW code \in Seq(Tokens)
    PROVE  /\ Depths(code) \in [0..Len(code) -> Nat]
           /\ Depths(code)[0] = 0
           /\ \A i \in 1..Len(code) : Depths(code)[i] = Nest(Depths(code)[i - 1], code[i])
<1>. DEFINE n == Len(code)
            step == [i \in 1..n |-> [s \in Nat |-> Nest(s, code[i])]]
<1>1. n \in Nat /\ \A i \in 1..n : code[i] \in Tokens
  OBVIOUS
<1>2. 0 \in Nat
  OBVIOUS
<1>3. step \in [1..n -> [Nat -> Nat]]
  BY DEF Nest
<1>4. PICK f \in [0..n -> Nat] : Loops(f, n, 0, step)
  <2>1. n \in Nat
    OBVIOUS
  <2>. HIDE DEF n, step
  <2>. QED
    BY ONLY <2>1, <1>2, <1>3, Turns
<1>5. f[0] = 0 /\ \A i \in 1..n : f[i] = Nest(f[i - 1], code[i])
  <2>1. f[0] = 0
    BY <1>4 DEF Loops
  <2>2. ASSUME NEW i \in 1..n PROVE f[i] = Nest(f[i - 1], code[i])
    <3>1. f[i - 1] \in Nat
      BY <1>1
    <3>2. f[i] = step[i][f[i - 1]]
      BY <1>4 DEF Loops
    <3>. QED
      BY <3>1, <3>2
  <2>. QED
    BY <2>1, <2>2
<1>. HIDE DEF step
<1>6. f = [i \in 0..n |-> IF i = 0 THEN 0 ELSE Nest(f[i - 1], code[i])]
  <2>1. \A i \in 0..n : i = 0 \/ i \in 1..n
    BY <1>1
  <2>. QED
    BY <1>5, <2>1
<1>7. PICK g : g = Depths(code)
  OBVIOUS
<1>8. g = [i \in 0..n |-> IF i = 0 THEN 0 ELSE Nest(g[i - 1], code[i])]
  <2>1. g = CHOOSE at : at = [i \in 0..Len(code) |->
                       IF i = 0 THEN 0 ELSE Nest(at[i - 1], code[i])]
    BY <1>7 DEF Depths
  <2>. QED
    BY <1>6, <2>1, Zenon
<1>9. \A i \in 0..n : f[i] = g[i]
  <2>1. f[0] = g[0]
    BY <1>1, <1>5, <1>8
  <2>2. \A i \in 1..n : g[i] = Nest(g[i - 1], code[i])
    BY <1>1, <1>8
  <2>3. Alike(f, g, n)
    BY <1>5, <2>1, <2>2 DEF Alike
  <2>. QED
    BY <1>1, <2>3, SameTurns
<1>10. g = f
  <2>1. DOMAIN g = 0..n
    BY <1>8
  <2>. QED
    BY <1>8, <1>9, <2>1
<1>. QED
  BY <1>5, <1>7, <1>10

ReadStates == [done : Seq(Seq(Tokens)), current : Seq(Tokens), taken : SUBSET Tokens]

LEMMA TakenTyped ==
    ASSUME NEW c, NEW taken \in SUBSET Tokens
    PROVE  TakenAfter(c, taken) \in SUBSET Tokens /\ TakenFirst(c) \in SUBSET Tokens
<1>1. {"SELECT", "INSERT", "EXEC"} \in SUBSET Tokens
  BY DEF Tokens, Words
<1>2. \A u \in SUBSET Tokens : TakenAfter(c, u) \in SUBSET Tokens
  <2>. SUFFICES ASSUME NEW u \in SUBSET Tokens PROVE TakenAfter(c, u) \in SUBSET Tokens
    OBVIOUS
  <2>1. CASE c = "INSERT"
    BY <1>1, <2>1 DEF TakenAfter
  <2>2. CASE c = "UNION"
    BY <1>1, <2>2 DEF TakenAfter
  <2>3. CASE c \in {"SELECT", "EXEC", "VALUES"}
    BY <2>3 DEF TakenAfter
  <2>4. CASE c \notin {"INSERT", "UNION", "SELECT", "EXEC", "VALUES"}
    BY <2>4 DEF TakenAfter
  <2>. QED
    BY <2>1, <2>2, <2>3, <2>4
<1>3. TakenFirst(c) \in SUBSET Tokens
  <2>1. {} \in SUBSET Tokens
    OBVIOUS
  <2>2. TakenAfter(c, {}) \in SUBSET Tokens
    BY <1>2, <2>1
  <2>. QED
    BY <1>1, <2>2 DEF TakenFirst
<1>. QED
  BY <1>2, <1>3

\* The server's reader puts a token to the statement in progress, or ends that
\* statement and begins another.
LEMMA TokenRead ==
    ASSUME NEW s \in ReadStates, NEW c \in Tokens, NEW level
    PROVE  LET t == ReadToken(s, c, level)
           IN  /\ Ended(s) \in Seq(Seq(Tokens)) /\ t \in ReadStates
               /\ c = ";" /\ level = 0 => t.done = Ended(s) /\ t.current = <<>>
               /\ ~(c = ";" /\ level = 0) =>
                     \/ t.done = s.done /\ t.current = Append(s.current, c)
                     \/ /\ s.current # <<>> /\ c \in Beginnings
                        /\ t.done = Append(s.done, s.current) /\ t.current = <<c>>
<1>. SUFFICES ASSUME NEW t, t = ReadToken(s, c, level)
     PROVE  /\ Ended(s) \in Seq(Seq(Tokens)) /\ t \in ReadStates
            /\ c = ";" /\ level = 0 => t.done = Ended(s) /\ t.current = <<>>
            /\ ~(c = ";" /\ level = 0) =>
                  \/ t.done = s.done /\ t.current = Append(s.current, c)
                  \/ /\ s.current # <<>> /\ c \in Beginnings
                     /\ t.done = Append(s.done, s.current) /\ t.current = <<c>>
  OBVIOUS
<1>1. s.done \in Seq(Seq(Tokens)) /\ s.current \in Seq(Tokens) /\ s.taken \in SUBSET Tokens
  BY DEF ReadStates
<1>2. PICK ended \in Seq(Seq(Tokens)) : ended = Ended(s)
  <2>1. Append(s.done, s.current) \in Seq(Seq(Tokens))
    BY <1>1, AppendProperties
  <2>. QED
    BY <1>1, <2>1 DEF Ended
<1>3. PICK longer \in Seq(Tokens) : longer = Append(s.current, c)
  BY <1>1, AppendProperties
<1>4. PICK one \in Seq(Tokens) : one = <<c>> /\ one = Append(<<>>, c)
  <2>1. <<c>> \in Seq(Tokens) /\ Append(<<>>, c) = <<c>>
    OBVIOUS
  <2>. QED
    BY <2>1
<1>5. PICK after \in SUBSET Tokens, first \in SUBSET Tokens :
         after = TakenAfter(c, s.taken) /\ first = TakenFirst(c)
  BY <1>1, TakenTyped
<1>6. s = [done |-> s.done, current |-> s.current, taken |-> s.taken]
  BY DEF ReadStates
<1>7. CASE level # 0
  <2>1. t = [done |-> s.done, current |-> longer, taken |-> s.taken]
    BY <1>3, <1>7 DEF ReadToken, ReadStates
  <2>2. t \in ReadStates /\ t.done = s.done /\ t.current = longer
    BY <1>1, <2>1 DEF ReadStates
  <2>. QED
    BY <1>2, <1>3, <1>7, <2>2, Zenon
<1>8. CASE level = 0 /\ c = ";"
  <2>1. t = [done |-> ended, current |-> <<>>, taken |-> {}]
    BY <1>2, <1>8 DEF ReadToken
  <2>2. <<>> \in Seq(Tokens)
    OBVIOUS
  <2>3. t \in ReadStates /\ t.done = ended /\ t.current = <<>>
    BY <2>1, <2>2 DEF ReadStates
  <2>. QED
    BY <1>2, <1>8, <2>3, Zenon
<1>9. CASE level = 0 /\ c # ";" /\ (s.current = <<>> \/ c \in Beginnings \ s.taken)
  <2>1. t = [done |-> ended, current |-> one, taken |-> first]
    BY <1>2, <1>4, <1>5, <1>9 DEF ReadToken, Begun
  <2>2. t \in ReadStates /\ t.done = ended /\ t.current = one
    BY <2>1 DEF ReadStates
  <2>3. CASE s.current = <<>>
    <3>1. ended = s.done /\ one = Append(s.current, c)
      BY <1>2, <1>4, <2>3 DEF Ended
    <3>. QED
      BY <1>2, <1>9, <2>2, <3>1
  <2>4. CASE s.current # <<>>
    <3>1. ended = Append(s.done, s.current) /\ c \in Beginnings
      BY <1>2, <1>9, <2>4 DEF Ended
    <3>. QED
      BY <1>2, <1>4, <1>9, <2>2, <2>4, <3>1
  <2>. QED
    BY <2>3, <2>4
<1>10. CASE level = 0 /\ c # ";" /\ ~(s.current = <<>> \/ c \in Beginnings \ s.taken)
  <2>1. t = [done |-> s.done, current |-> longer, taken |-> after]
    BY <1>3, <1>5, <1>10 DEF ReadToken, ReadStates
  <2>2. t \in ReadStates /\ t.done = s.done /\ t.current = longer
    BY <1>1, <2>1 DEF ReadStates
  <2>. QED
    BY <1>2, <1>3, <1>10, <2>2, Zenon
<1>. QED
  BY <1>7, <1>8, <1>9, <1>10

LEMMA ReadFields ==
    ASSUME NEW s, NEW d, NEW c, NEW u, s = [done |-> d, current |-> c, taken |-> u]
    PROVE  s.done = d /\ s.current = c /\ s.taken = u
OBVIOUS

LEMMA ReadsRun ==
    ASSUME NEW code \in Seq(Tokens)
    PROVE  /\ Reads(code) \in [0..Len(code) -> ReadStates]
           /\ Reads(code)[0] = Unread
           /\ \A i \in 1..Len(code) : Reads(code)[i] = ReadToken(Reads(code)[i - 1], code[i], Level(code, i - 1))
<1>. DEFINE n == Len(code)
            step == [i \in 1..n |-> [s \in ReadStates |-> ReadToken(s, code[i], Level(code, i - 1))]]
<1>1. n \in Nat /\ \A i \in 1..n : code[i] \in Tokens
  OBVIOUS
<1>2. Unread \in ReadStates
  BY DEF Unread, ReadStates
<1>3. step \in [1..n -> [ReadStates -> ReadStates]]
  BY <1>1, TokenRead
<1>4. PICK f \in [0..n -> ReadStates] : Loops(f, n, Unread, step)
  <2>1. n \in Nat
    OBVIOUS
  <2>. HIDE DEF n, step
  <2>. QED
    BY ONLY <2>1, <1>2, <1>3, Turns
<1>5. f[0] = Unread /\ \A i \in 1..n : f[i] = ReadToken(f[i - 1], code[i], Level(code, i - 1))
  <2>1. f[0] = Unread
    BY <1>4 DEF Loops
  <2>2. ASSUME NEW i \in 1..n PROVE f[i] = ReadToken(f[i - 1], code[i], Level(code, i - 1))
    <3>1. f[i - 1] \in ReadStates
      BY <1>1
    <3>2. f[i] = step[i][f[i - 1]]
      BY <1>4 DEF Loops
    <3>. QED
      BY <3>1, <3>2
  <2>. QED
    BY <2>1, <2>2
<1>. HIDE DEF step
<1>6. f = [i \in 0..n |-> IF i = 0 THEN Unread ELSE ReadToken(f[i - 1], code[i], Level(code, i - 1))]
  <2>1. \A i \in 0..n : i = 0 \/ i \in 1..n
    BY <1>1
  <2>. QED
    BY <1>5, <2>1
<1>7. PICK g : g = Reads(code)
  OBVIOUS
<1>8. g = [i \in 0..n |-> IF i = 0 THEN Unread ELSE ReadToken(g[i - 1], code[i], Level(code, i - 1))]
  <2>1. g = CHOOSE at : at = [i \in 0..Len(code) |->
                       IF i = 0 THEN Unread ELSE ReadToken(at[i - 1], code[i], Level(code, i - 1))]
    BY <1>7 DEF Reads
  <2>. QED
    BY <1>6, <2>1, Zenon
<1>9. \A i \in 0..n : f[i] = g[i]
  <2>1. f[0] = g[0]
    BY <1>1, <1>5, <1>8
  <2>2. \A i \in 1..n : g[i] = ReadToken(g[i - 1], code[i], Level(code, i - 1))
    BY <1>1, <1>8
  <2>3. Alike(f, g, n)
    BY <1>5, <2>1, <2>2 DEF Alike
  <2>. QED
    BY <1>1, <2>3, SameTurns
<1>10. g = f
  <2>1. DOMAIN g = 0..n
    BY <1>8
  <2>. QED
    BY <1>8, <1>9, <2>1
<1>. QED
  BY <1>5, <1>7, <1>10

LEMMA PicksRun ==
    ASSUME NEW code \in Seq(Tokens)
    PROVE  /\ Picks(code) \in [0..Len(code) -> Seq(Words)]
           /\ Picks(code)[0] = <<>>
           /\ \A i \in 1..Len(code) : Picks(code)[i] = PickWord(Picks(code)[i - 1], code[i], Depths(code)[i - 1])
<1>. DEFINE n == Len(code)
            step == [i \in 1..n |-> [s \in Seq(Words) |-> PickWord(s, code[i], Depths(code)[i - 1])]]
<1>1. n \in Nat /\ \A i \in 1..n : code[i] \in Tokens
  OBVIOUS
<1>2. <<>> \in Seq(Words)
  OBVIOUS
<1>3. step \in [1..n -> [Seq(Words) -> Seq(Words)]]
  BY DEF PickWord
<1>4. PICK f \in [0..n -> Seq(Words)] : Loops(f, n, <<>>, step)
  <2>1. n \in Nat
    OBVIOUS
  <2>. HIDE DEF n, step
  <2>. QED
    BY ONLY <2>1, <1>2, <1>3, Turns
<1>5. f[0] = <<>> /\ \A i \in 1..n : f[i] = PickWord(f[i - 1], code[i], Depths(code)[i - 1])
  <2>1. f[0] = <<>>
    BY <1>4 DEF Loops
  <2>2. ASSUME NEW i \in 1..n PROVE f[i] = PickWord(f[i - 1], code[i], Depths(code)[i - 1])
    <3>1. f[i - 1] \in Seq(Words)
      BY <1>1
    <3>2. f[i] = step[i][f[i - 1]]
      BY <1>4 DEF Loops
    <3>. QED
      BY <3>1, <3>2
  <2>. QED
    BY <2>1, <2>2
<1>. HIDE DEF step
<1>6. f = [i \in 0..n |-> IF i = 0 THEN <<>> ELSE PickWord(f[i - 1], code[i], Depths(code)[i - 1])]
  <2>1. \A i \in 0..n : i = 0 \/ i \in 1..n
    BY <1>1
  <2>. QED
    BY <1>5, <2>1
<1>7. PICK g : g = Picks(code)
  OBVIOUS
<1>8. g = [i \in 0..n |-> IF i = 0 THEN <<>> ELSE PickWord(g[i - 1], code[i], Depths(code)[i - 1])]
  <2>1. g = CHOOSE at : at = [i \in 0..Len(code) |->
                       IF i = 0 THEN <<>> ELSE PickWord(at[i - 1], code[i], Depths(code)[i - 1])]
    BY <1>7 DEF Picks
  <2>. QED
    BY <1>6, <2>1, Zenon
<1>9. \A i \in 0..n : f[i] = g[i]
  <2>1. f[0] = g[0]
    BY <1>1, <1>5, <1>8
  <2>2. \A i \in 1..n : g[i] = PickWord(g[i - 1], code[i], Depths(code)[i - 1])
    BY <1>1, <1>8
  <2>3. Alike(f, g, n)
    BY <1>5, <2>1, <2>2 DEF Alike
  <2>. QED
    BY <1>1, <2>3, SameTurns
<1>10. g = f
  <2>1. DOMAIN g = 0..n
    BY <1>8
  <2>. QED
    BY <1>8, <1>9, <2>1
<1>. QED
  BY <1>5, <1>7, <1>10

SplitStates == [done : Seq(Seq(Tokens)), current : Seq(Tokens)]
Unsplit == [done |-> <<>>, current |-> <<>>]

\* A token ends the statement in progress or joins it.
LEMMA SplitJoins ==
    ASSUME NEW s \in SplitStates, NEW c, NEW depth
    PROVE  /\ \/ c = ";" /\ depth = 0 /\ Split(s, c, depth) = [done |-> Pushed(s), current |-> <<>>]
              \/ Split(s, c, depth) = [s EXCEPT !.current = Append(s.current, c)]
           /\ c # ";" => Split(s, c, depth) = [s EXCEPT !.current = Append(s.current, c)]
BY Zenon DEF Split

LEMMA SplitTyped ==
    ASSUME NEW s \in SplitStates, NEW c \in Tokens, NEW depth
    PROVE  Split(s, c, depth) \in SplitStates
<1>1. Pushed(s) \in Seq(Seq(Tokens))
  BY DEF Pushed, SplitStates
<1>2. [done |-> Pushed(s), current |-> <<>>] \in SplitStates
  BY <1>1 DEF SplitStates
<1>3. [s EXCEPT !.current = Append(s.current, c)] \in SplitStates
  <2>1. PICK e \in Seq(Tokens) : e = Append(s.current, c)
    BY AppendProperties DEF SplitStates
  <2>2. [s EXCEPT !.current = e] \in SplitStates
    BY DEF SplitStates
  <2>. QED
    BY <2>1, <2>2
<1>. QED
  BY <1>2, <1>3, SplitJoins, Zenon

LEMMA SplitsRun ==
    ASSUME NEW code \in Seq(Tokens)
    PROVE  /\ Splits(code) \in [0..Len(code) -> SplitStates]
           /\ Splits(code)[0] = Unsplit
           /\ \A i \in 1..Len(code) : Splits(code)[i] = Split(Splits(code)[i - 1], code[i], Depths(code)[i - 1])
<1>. DEFINE n == Len(code)
            step == [i \in 1..n |-> [s \in SplitStates |-> Split(s, code[i], Depths(code)[i - 1])]]
<1>1. n \in Nat /\ \A i \in 1..n : code[i] \in Tokens
  OBVIOUS
<1>2. Unsplit \in SplitStates
  BY DEF Unsplit, SplitStates
<1>3. step \in [1..n -> [SplitStates -> SplitStates]]
  <2>1. ASSUME NEW i \in 1..n, NEW u \in SplitStates
        PROVE  Split(u, code[i], Depths(code)[i - 1]) \in SplitStates
    BY <1>1, SplitTyped
  <2>. QED
    BY <2>1
<1>4. PICK f \in [0..n -> SplitStates] : Loops(f, n, Unsplit, step)
  <2>1. n \in Nat
    OBVIOUS
  <2>. HIDE DEF n, step
  <2>. QED
    BY ONLY <2>1, <1>2, <1>3, Turns
<1>5. f[0] = Unsplit /\ \A i \in 1..n : f[i] = Split(f[i - 1], code[i], Depths(code)[i - 1])
  <2>1. f[0] = Unsplit
    BY <1>4 DEF Loops
  <2>2. ASSUME NEW i \in 1..n PROVE f[i] = Split(f[i - 1], code[i], Depths(code)[i - 1])
    <3>1. f[i - 1] \in SplitStates
      BY <1>1
    <3>2. f[i] = step[i][f[i - 1]]
      BY <1>4 DEF Loops
    <3>. QED
      BY <3>1, <3>2
  <2>. QED
    BY <2>1, <2>2
<1>. HIDE DEF step
<1>6. f = [i \in 0..n |-> IF i = 0 THEN Unsplit ELSE Split(f[i - 1], code[i], Depths(code)[i - 1])]
  <2>1. \A i \in 0..n : i = 0 \/ i \in 1..n
    BY <1>1
  <2>. QED
    BY <1>5, <2>1
<1>7. PICK g : g = Splits(code)
  OBVIOUS
<1>8. g = [i \in 0..n |-> IF i = 0 THEN Unsplit ELSE Split(g[i - 1], code[i], Depths(code)[i - 1])]
  <2>1. g = CHOOSE at : at = [i \in 0..Len(code) |->
                       IF i = 0 THEN Unsplit ELSE Split(at[i - 1], code[i], Depths(code)[i - 1])]
    BY <1>7 DEF Splits, Unsplit
  <2>. QED
    BY <1>6, <2>1, Zenon
<1>9. \A i \in 0..n : f[i] = g[i]
  <2>1. f[0] = g[0]
    BY <1>1, <1>5, <1>8
  <2>2. \A i \in 1..n : g[i] = Split(g[i - 1], code[i], Depths(code)[i - 1])
    BY <1>1, <1>8
  <2>3. Alike(f, g, n)
    BY <1>5, <2>1, <2>2 DEF Alike
  <2>. QED
    BY <1>1, <2>3, SameTurns
<1>10. g = f
  <2>1. DOMAIN g = 0..n
    BY <1>8
  <2>. QED
    BY <1>8, <1>9, <2>1
<1>. QED
  BY <1>5, <1>7, <1>10

CutStates == [start : Nat \ {0}, code : Seq(Tokens)]
Uncut == [start |-> 1, code |-> <<>>]

\* A lexeme has a token.
LEMMA LexemeHasToken ==
    ASSUME NEW p \in Seq(Tokens), NEW next, IsLexeme(p, next)
    PROVE  Len(p) >= 1
<1>1. CASE Len(p) = 0
  <2>1. {j \in 1..0 : p[j] = "\n"} = {}
    OBVIOUS
  <2>2. Count(p, "\n", 0) = 0
    BY <2>1, FS_EmptySet DEF Count
  <2>. QED
    BY <1>1, <2>2 DEF IsLexeme
<1>. QED
  BY <1>1

LEMMA CutTyped ==
    ASSUME NEW q \in Seq(Tokens), NEW i \in 1..Len(q), NEW s \in CutStates
    PROVE  Cut(s, q, i) \in CutStates
<1>1. PICK p : p = SubSeq(q, s.start, i)
  OBVIOUS
<1>2. p \in Seq(Tokens)
  <2>1. s.start \in Nat \ {0} /\ \A j \in s.start..i : q[j] \in Tokens
    BY DEF CutStates
  <2>2. s.start \in Int /\ i \in Int
    BY <2>1
  <2>3. SubSeq(q, s.start, i) \in Seq(Tokens)
    BY <2>1, <2>2, SubSeqProperties
  <2>. QED
    BY <1>1, <2>3
<1>3. CASE ~IsLexeme(p, Ahead(q, i))
  BY <1>1, <1>3 DEF Cut
<1>4. CASE IsLexeme(p, Ahead(q, i))
  <2>1. p[1] \in Tokens
    BY <1>2, <1>4, LexemeHasToken
  <2>2. PICK code \in Seq(Tokens) :
           code = IF Len(p) > 1 \/ p[1] = "\n" THEN s.code ELSE Append(s.code, p[1])
    <3>1. s.code \in Seq(Tokens) /\ Append(s.code, p[1]) \in Seq(Tokens)
      BY <2>1 DEF CutStates
    <3>. QED
      BY <2>1, <3>1
  <2>3. Cut(s, q, i) = [start |-> i + 1, code |-> code]
    BY <1>1, <1>4, <2>2 DEF Cut
  <2>. QED
    BY <2>3 DEF CutStates
<1>. QED
  BY <1>3, <1>4

LEMMA CutsRun ==
    ASSUME NEW q \in Seq(Tokens)
    PROVE  /\ Cuts(q) \in [0..Len(q) -> CutStates]
           /\ Cuts(q)[0] = Uncut
           /\ \A i \in 1..Len(q) : Cuts(q)[i] = Cut(Cuts(q)[i - 1], q, i)
<1>. DEFINE n == Len(q)
            step == [i \in 1..n |-> [s \in CutStates |-> Cut(s, q, i)]]
<1>1. n \in Nat /\ \A i \in 1..n : q[i] \in Tokens
  OBVIOUS
<1>2. Uncut \in CutStates
  BY DEF Uncut, CutStates
<1>3. step \in [1..n -> [CutStates -> CutStates]]
  BY <1>1, CutTyped
<1>4. PICK f \in [0..n -> CutStates] : Loops(f, n, Uncut, step)
  <2>1. n \in Nat
    OBVIOUS
  <2>. HIDE DEF n, step
  <2>. QED
    BY ONLY <2>1, <1>2, <1>3, Turns
<1>5. f[0] = Uncut /\ \A i \in 1..n : f[i] = Cut(f[i - 1], q, i)
  <2>1. f[0] = Uncut
    BY <1>4 DEF Loops
  <2>2. ASSUME NEW i \in 1..n PROVE f[i] = Cut(f[i - 1], q, i)
    <3>1. f[i - 1] \in CutStates
      BY <1>1
    <3>2. f[i] = step[i][f[i - 1]]
      BY <1>4 DEF Loops
    <3>. QED
      BY <3>1, <3>2
  <2>. QED
    BY <2>1, <2>2
<1>. HIDE DEF step
<1>6. f = [i \in 0..n |-> IF i = 0 THEN Uncut ELSE Cut(f[i - 1], q, i)]
  <2>1. \A i \in 0..n : i = 0 \/ i \in 1..n
    BY <1>1
  <2>. QED
    BY <1>5, <2>1
<1>7. PICK g : g = Cuts(q)
  OBVIOUS
<1>8. g = [i \in 0..n |-> IF i = 0 THEN Uncut ELSE Cut(g[i - 1], q, i)]
  <2>1. g = CHOOSE at : at = [i \in 0..Len(q) |->
                       IF i = 0 THEN Uncut ELSE Cut(at[i - 1], q, i)]
    BY <1>7 DEF Cuts, Uncut
  <2>. QED
    BY <1>6, <2>1, Zenon
<1>9. \A i \in 0..n : f[i] = g[i]
  <2>1. f[0] = g[0]
    BY <1>1, <1>5, <1>8
  <2>2. \A i \in 1..n : g[i] = Cut(g[i - 1], q, i)
    BY <1>1, <1>8
  <2>3. Alike(f, g, n)
    BY <1>5, <2>1, <2>2 DEF Alike
  <2>. QED
    BY <1>1, <2>3, SameTurns
<1>10. g = f
  <2>1. DOMAIN g = 0..n
    BY <1>8
  <2>. QED
    BY <1>8, <1>9, <2>1
<1>. QED
  BY <1>5, <1>7, <1>10

-----------------------------------------------------------------------------
(* The scanner reads as the server does.                                   *)

LEMMA SetOfPositions ==
    ASSUME NEW k \in Nat, NEW S \in SUBSET (1..k), S # {}
    PROVE  \E m \in S : \A y \in S : m >= y
<1>. DEFINE T == {n \in Nat : \A U \in SUBSET (1..n) :
                                 U # {} => \E x \in U : \A y \in U : x >= y}
<1>1. 0 \in T
  <2>1. 1..0 = {}
    OBVIOUS
  <2>. QED
    BY <2>1
<1>2. ASSUME NEW n \in Nat, n \in T PROVE n + 1 \in T
  <2>. SUFFICES ASSUME NEW U \in SUBSET (1..(n + 1)), U # {}
       PROVE  \E x \in U : \A y \in U : x >= y
    OBVIOUS
  <2>1. CASE n + 1 \in U
    BY <2>1
  <2>2. CASE n + 1 \notin U
    <3>1. \A x \in 1..(n + 1) : x # n + 1 => x \in 1..n
      OBVIOUS
    <3>. QED
      BY <1>2, <2>2, <3>1
  <2>. QED
    BY <2>1, <2>2
<1>3. k \in T
  <2>. HIDE DEF T
  <2>. QED
    BY <1>1, <1>2, Induction
<1>. QED
  BY <1>3

LEMMA MaxIs ==
    ASSUME NEW S \in SUBSET Int, NEW m \in S, \A y \in S : m >= y
    PROVE  Max(S) = m
<1>1. Max(S) \in S /\ \A y \in S : Max(S) >= y
  BY DEF Max
<1>2. Max(S) \in Int /\ m \in Int /\ m >= Max(S) /\ Max(S) >= m
  BY <1>1
<1>. QED
  BY <1>2

\* A run of marks grows with each one and ends at anything else.
LEMMA RunBegins ==
    ASSUME NEW p \in Seq(Tokens), Len(p) = 1, NEW m
    PROVE  Run(p, m) = 0
<1>1. {1} \cup {j \in 2..Len(p) : p[j] # m} = {1}
  OBVIOUS
<1>2. Max({1}) = 1
  <2>1. {1} \in SUBSET Int /\ 1 \in {1} /\ \A y \in {1} : 1 >= y
    OBVIOUS
  <2>. QED
    BY <2>1, MaxIs
<1>. QED
  BY <1>1, <1>2 DEF Run

LEMMA RunGrows ==
    ASSUME NEW p \in Seq(Tokens), NEW c \in Tokens, NEW m, Len(p) >= 1
    PROVE  /\ Run(p, m) \in Nat
           /\ Run(Append(p, c), m) = IF c = m THEN Run(p, m) + 1 ELSE 0
<1>. DEFINE Breaks(r) == {1} \cup {j \in 2..Len(r) : r[j] # m}
<1>2. ASSUME Len(p) >= 1
      PROVE  Run(p, m) \in Nat /\ Run(Append(p, c), m) = IF c = m THEN Run(p, m) + 1 ELSE 0
  <2>1. PICK n \in Nat : n = Len(p)
    OBVIOUS
  <2>2. Breaks(p) \in SUBSET (1..n) /\ Breaks(p) # {}
    BY <1>2, <2>1
  <2>. HIDE DEF Breaks
  <2>3. PICK b \in Breaks(p) : \A y \in Breaks(p) : b >= y
    BY <2>2, SetOfPositions
  <2>4. b \in 1..n
    BY <2>2, <2>3
  <2>5. Max(Breaks(p)) = b
    <3>1. Breaks(p) \in SUBSET Int
      BY <2>2
    <3>. QED
      BY <2>3, <3>1, MaxIs
  <2>6. Run(p, m) = n - b
    BY <2>1, <2>5 DEF Run, Breaks
  <2>7. PICK r : r = Append(p, c)
    OBVIOUS
  <2>8. Len(r) = n + 1 /\ r[n + 1] = c /\ \A j \in 1..n : r[j] = p[j]
    BY <2>1, <2>7
  <2>8a. Run(r, m) = (n + 1) - Max(Breaks(r))
    BY <2>8 DEF Run, Breaks
  <2>9. CASE c = m
    <3>1. Breaks(r) = Breaks(p)
      BY <2>1, <2>8, <2>9 DEF Breaks
    <3>2. Run(r, m) = (n + 1) - b
      BY <2>5, <2>8a, <3>1
    <3>. QED
      BY <2>4, <2>6, <2>7, <2>9, <3>2
  <2>10. CASE c # m
    <3>1. Breaks(r) = Breaks(p) \cup {n + 1}
      BY <1>2, <2>1, <2>8, <2>10 DEF Breaks
    <3>2. Breaks(r) \in SUBSET Int /\ n + 1 \in Breaks(r) /\ \A y \in Breaks(r) : n + 1 >= y
      BY <2>2, <3>1
    <3>3. Max(Breaks(r)) = n + 1
      BY <3>2, MaxIs
    <3>4. Run(r, m) = 0
      BY <2>8a, <3>3
    <3>. QED
      BY <2>4, <2>6, <2>7, <2>10, <3>4
  <2>. QED
    BY <2>9, <2>10
<1>. QED
  BY <1>2

LEMMA CountGrows ==
    ASSUME NEW p \in Seq(Tokens), NEW c \in Tokens, NEW t
    PROVE  /\ \A j \in 0..Len(p) : /\ Count(p, t, j) \in Nat
                                   /\ Count(Append(p, c), t, j) = Count(p, t, j)
           /\ Count(Append(p, c), t, Len(p) + 1) =
                 Count(p, t, Len(p)) + (IF c = t THEN 1 ELSE 0)
           /\ Count(p, t, 0) = 0
<1>. DEFINE Found(r, j) == {x \in 1..j : r[x] = t}
<1>1. PICK n \in Nat : n = Len(p)
  OBVIOUS
<1>2. PICK r : r = Append(p, c)
  OBVIOUS
<1>3. Len(r) = n + 1 /\ r[n + 1] = c /\ \A j \in 1..n : r[j] = p[j]
  BY <1>1, <1>2
<1>4. ASSUME NEW j \in 0..n
      PROVE  IsFiniteSet(Found(p, j)) /\ Found(r, j) = Found(p, j)
  <2>1. IsFiniteSet(1..j)
    BY FS_Interval
  <2>2. Found(p, j) \subseteq 1..j
    OBVIOUS
  <2>3. Found(r, j) = Found(p, j)
    BY <1>3
  <2>. HIDE DEF Found
  <2>. QED
    BY <2>1, <2>2, <2>3, FS_Subset
<1>4a. n \in 0..n
  OBVIOUS
<1>5. \A j \in 0..n : Count(p, t, j) \in Nat /\ Count(r, t, j) = Count(p, t, j)
  <2>1. TAKE j \in 0..n
  <2>2. IsFiniteSet(Found(p, j)) /\ Found(r, j) = Found(p, j)
    BY <1>4
  <2>3. Count(p, t, j) = Cardinality(Found(p, j)) /\ Count(r, t, j) = Cardinality(Found(r, j))
    BY DEF Count
  <2>. HIDE DEF Found
  <2>. QED
    BY <2>2, <2>3, FS_CardinalityType
<1>6. Count(r, t, n + 1) = Count(r, t, n) + (IF c = t THEN 1 ELSE 0)
  <2>1. IsFiniteSet(Found(r, n))
    <3>. HIDE DEF Found
    <3>. QED
      BY <1>4, <1>4a
  <2>2. Count(r, t, n) = Cardinality(Found(r, n)) /\ Count(r, t, n + 1) = Cardinality(Found(r, n + 1))
    BY DEF Count
  <2>3. CASE c = t
    <3>1. Found(r, n + 1) = Found(r, n) \cup {n + 1} /\ n + 1 \notin Found(r, n)
      BY <1>3, <2>3
    <3>. HIDE DEF Found
    <3>2. Cardinality(Found(r, n) \cup {n + 1}) = Cardinality(Found(r, n)) + 1
      BY <2>1, <3>1, FS_AddElement
    <3>. QED
      BY <2>2, <2>3, <3>1, <3>2
  <2>4. CASE c # t
    <3>1. Found(r, n + 1) = Found(r, n)
      BY <1>3, <2>4
    <3>2. Cardinality(Found(r, n)) \in Nat
      BY <2>1, FS_CardinalityType
    <3>. HIDE DEF Found
    <3>. QED
      BY <2>2, <2>4, <3>1, <3>2
  <2>. QED
    BY <2>3, <2>4
<1>7. Count(p, t, 0) = 0
  <2>1. Found(p, 0) = {}
    OBVIOUS
  <2>. QED
    BY <2>1, FS_EmptySet DEF Count
<1>. QED
  BY <1>1, <1>2, <1>5, <1>6, <1>7, <1>4a

\* How deep the comment p is nested behind its first j tokens.
Nesting(p, j) == Count(p, "/*", j) - Count(p, "*/", j)

\* IsLexeme by the first token.
LEMMA LexemeByKind ==
    ASSUME NEW p \in Seq(Tokens), NEW next
    PROVE  /\ p[1] \notin Opens => (IsLexeme(p, next) <=> Len(p) = 1)
           /\ p[1] \in DOMAIN Closer =>
                (IsLexeme(p, next) <=>
                    /\ Len(p) > 1
                    /\ Run(p, Closer[p[1]]) % 2 = 1
                    /\ next # Closer[p[1]])
           /\ p[1] = "--" =>
                (IsLexeme(p, next) <=> Count(p, "\n", Len(p)) = 1 /\ p[Len(p)] = "\n")
           /\ p[1] = "/*" =>
                (IsLexeme(p, next) <=>
                    /\ Len(p) > 1
                    /\ Nesting(p, Len(p)) = 0
                    /\ \A j \in 1..(Len(p) - 1) : Nesting(p, j) > 0)
<1>1. CASE p[1] \notin Opens
  BY <1>1 DEF IsLexeme, Opens, Closer
<1>2. CASE p[1] = "'"
  BY <1>2 DEF IsLexeme, Opens, Closer
<1>3. CASE p[1] = "["
  BY <1>3 DEF IsLexeme, Opens, Closer
<1>4. CASE p[1] = "--"
  BY <1>4 DEF IsLexeme, Opens, Closer
<1>5. CASE p[1] = "/*"
  BY <1>5 DEF IsLexeme, Opens, Closer, Nesting
<1>. QED
  BY <1>1, <1>2, <1>3, <1>4, <1>5 DEF Opens

\* The scanner has read p, the beginning of a lexeme that has not ended.
Inside(p, next, s) ==
    /\ Len(p) >= 1 /\ p[1] \in Opens /\ s.mode = p[1]
    /\ p[1] \in DOMAIN Closer =>
          /\ (s.skip <=> Run(p, Closer[p[1]]) % 2 = 1)
          /\ s.skip => next = Closer[p[1]]
    /\ p[1] = "--" =>
          /\ ~s.skip /\ s.depth = 1
          /\ Count(p, "\n", Len(p)) = 0
    /\ p[1] = "/*" =>
          /\ ~s.skip /\ s.depth = Nesting(p, Len(p))
          /\ \A j \in 1..Len(p) : Nesting(p, j) > 0

Outside(s) == s.mode = "code" /\ ~s.skip

\* A token that opens nothing is a lexeme of its own.
LEMMA TokenScanned ==
    ASSUME NEW s \in ScanStates, NEW c \in Tokens \ Opens, NEW next, Outside(s)
    PROVE  /\ IsLexeme(<<c>>, next)
           /\ Outside(Scan(s, c, next))
           /\ Scan(s, c, next).code = IF c = "\n" THEN s.code ELSE Append(s.code, c)
<1>1. IsLexeme(<<c>>, next)
  <2>1. <<c>> \in Seq(Tokens) /\ <<c>>[1] = c /\ Len(<<c>>) = 1
    OBVIOUS
  <2>. QED
    BY <2>1, LexemeByKind
<1>2. PICK code : code = IF c = "\n" THEN s.code ELSE Append(s.code, c)
  OBVIOUS
<1>3. Scan(s, c, next) = [s EXCEPT !.code = code]
  BY <1>2 DEF Scan, Outside
<1>. QED
  BY <1>1, <1>2, <1>3 DEF Outside, ScanStates

\* A token that opens something begins a lexeme.
LEMMA LexemeOpened ==
    ASSUME NEW s \in ScanStates, NEW c \in Opens, NEW next, Outside(s)
    PROVE  /\ ~IsLexeme(<<c>>, next)
           /\ Inside(<<c>>, next, Scan(s, c, next))
           /\ Scan(s, c, next).code = s.code
<1>1. c \in Tokens /\ c # "\n" /\ c # "*/"
  BY DEF Opens, Tokens, Marks
<1>2. PICK p : p = <<c>>
  OBVIOUS
<1>3. p \in Seq(Tokens) /\ p[1] = c /\ Len(p) = 1
  BY <1>1, <1>2
<1>4. /\ Scan(s, c, next).mode = c /\ ~Scan(s, c, next).skip
      /\ Scan(s, c, next).depth = 1 /\ Scan(s, c, next).code = s.code
  <2>1. PICK t : t = [s EXCEPT !.mode = c]
    OBVIOUS
  <2>2. Scan(s, c, next) = [t EXCEPT !.depth = 1]
    BY <2>1 DEF Scan, Outside, ScanStates
  <2>. QED
    BY <2>1, <2>2 DEF Outside, ScanStates
<1>5. Run(p, Closer[c]) = 0
  BY <1>3, RunBegins
<1>6. \A t : Count(p, t, 1) = IF c = t THEN 1 ELSE 0
  <2>1. TAKE t
  <2>2. PICK e \in Seq(Tokens) : Len(e) = 0 /\ Append(e, c) = p
    <3>1. <<>> \in Seq(Tokens) /\ Len(<<>>) = 0 /\ Append(<<>>, c) = p
      BY <1>2
    <3>. QED
      BY <3>1
  <2>3. /\ Count(Append(e, c), t, Len(e) + 1) = Count(e, t, Len(e)) + (IF c = t THEN 1 ELSE 0)
        /\ Count(e, t, 0) = 0
    BY <1>1, CountGrows
  <2>. QED
    BY <2>2, <2>3
<1>7. c = "/*" => Nesting(p, 1) = 1
  BY <1>6 DEF Nesting
<1>8. ~IsLexeme(p, next)
  <2>1. CASE c \in DOMAIN Closer
    <3>1. p[1] \in DOMAIN Closer
      BY <1>3, <2>1
    <3>2. IsLexeme(p, next) => Len(p) > 1
      BY <1>3, <3>1, LexemeByKind
    <3>. QED
      BY <1>3, <3>2
  <2>2. CASE c = "--"
    <3>1. IsLexeme(p, next) => p[1] = "\n"
      BY <1>3, <2>2, LexemeByKind
    <3>. QED
      BY <1>3, <2>2, <3>1
  <2>3. CASE c = "/*"
    BY <1>3, <2>3, LexemeByKind
  <2>. QED
    BY <2>1, <2>2, <2>3 DEF Opens, Closer
<1>9. Inside(p, next, Scan(s, c, next))
  <2>1. c = "--" => Count(p, "\n", 1) = 0
    BY <1>1, <1>6
  <2>2. c = "/*" => \A j \in 1..1 : Nesting(p, j) > 0
    BY <1>7
  <2>. QED
    BY <1>3, <1>4, <1>5, <1>7, <2>1, <2>2 DEF Inside
<1>. QED
  BY <1>2, <1>4, <1>8, <1>9

\* What the scanner makes of the next token, and what the server makes of it.
Follows(p, c, next, s) ==
    /\ Scan(s, c, next).code = s.code
    /\ IsLexeme(Append(p, c), next) => Outside(Scan(s, c, next))
    /\ ~IsLexeme(Append(p, c), next) => Inside(Append(p, c), next, Scan(s, c, next))

LEMMA Grown ==
    ASSUME NEW p \in Seq(Tokens), NEW c \in Tokens, Len(p) >= 1
    PROVE  /\ Append(p, c) \in Seq(Tokens) /\ Len(Append(p, c)) = Len(p) + 1
           /\ Append(p, c)[1] = p[1] /\ Append(p, c)[Len(p) + 1] = c
OBVIOUS

LEMMA QuotedFollows ==
    ASSUME NEW p \in Seq(Tokens), NEW c \in Tokens, NEW next, NEW s \in ScanStates,
           Inside(p, c, s), p[1] \in DOMAIN Closer
    PROVE  Follows(p, c, next, s)
<1>. DEFINE t == Scan(s, c, next)
<1>1. PICK m : m = Closer[p[1]]
  OBVIOUS
<1>2. PICK n \in Nat : n = Len(p)
  OBVIOUS
<1>3. PICK r : r = Append(p, c)
  OBVIOUS
<1>4. /\ n >= 1 /\ p[1] \in Opens /\ s.mode = p[1] /\ s.mode # "code" /\ p[1] # "--" /\ p[1] # "/*"
      /\ (s.skip <=> Run(p, m) % 2 = 1)
      /\ s.skip => c = m
  BY <1>1, <1>2 DEF Inside, Opens, Closer
<1>5. r \in Seq(Tokens) /\ Len(r) = n + 1 /\ r[1] = p[1]
  BY <1>2, <1>3, <1>4, Grown
<1>6. Run(p, m) \in Nat /\ Run(r, m) = IF c = m THEN Run(p, m) + 1 ELSE 0
  BY <1>2, <1>3, <1>4, RunGrows
<1>7. IsLexeme(r, next) <=> Run(r, m) % 2 = 1 /\ next # m
  <2>1. n + 1 > 1
    BY <1>4
  <2>. QED
    BY <1>1, <1>5, <2>1, LexemeByKind
<1>8. CASE s.skip
  <2>1. t = [s EXCEPT !.skip = FALSE]
    BY <1>8 DEF Scan
  <2>2. t.mode = s.mode /\ ~t.skip /\ t.code = s.code
    BY <2>1 DEF ScanStates
  <2>3. Run(r, m) % 2 = 0
    BY <1>4, <1>6, <1>8
  <2>. HIDE DEF t
  <2>4. ~IsLexeme(r, next)
    BY <1>7, <2>3
  <2>5. Inside(r, next, t)
    BY <1>1, <1>4, <1>5, <2>2, <2>3 DEF Inside
  <2>. QED
    BY <1>3, <2>2, <2>4, <2>5 DEF Follows, t
<1>9. CASE ~s.skip /\ c # m
  <2>1. t = s
    BY <1>1, <1>4, <1>9 DEF Scan
  <2>2. Run(r, m) % 2 = 0
    BY <1>6, <1>9
  <2>. HIDE DEF t
  <2>3. ~IsLexeme(r, next)
    BY <1>7, <2>2
  <2>4. Inside(r, next, t)
    BY <1>1, <1>4, <1>5, <1>9, <2>1, <2>2 DEF Inside
  <2>. QED
    BY <1>3, <2>1, <2>3, <2>4 DEF Follows, t
<1>10. CASE ~s.skip /\ c = m /\ next = m
  <2>1. t = [s EXCEPT !.skip = TRUE]
    BY <1>1, <1>4, <1>10 DEF Scan
  <2>2. t.mode = s.mode /\ t.skip = TRUE /\ t.code = s.code
    BY <2>1 DEF ScanStates
  <2>3. Run(r, m) % 2 = 1
    BY <1>4, <1>6, <1>10
  <2>. HIDE DEF t
  <2>4. ~IsLexeme(r, next)
    BY <1>7, <1>10
  <2>5. Inside(r, next, t)
    BY <1>1, <1>4, <1>5, <1>10, <2>2, <2>3 DEF Inside
  <2>. QED
    BY <1>3, <2>2, <2>4, <2>5 DEF Follows, t
<1>11. CASE ~s.skip /\ c = m /\ next # m
  <2>1. t = [s EXCEPT !.mode = "code"]
    BY <1>1, <1>4, <1>11 DEF Scan
  <2>2. t.mode = "code" /\ t.skip = s.skip /\ t.code = s.code
    BY <2>1 DEF ScanStates
  <2>3. Run(r, m) % 2 = 1
    BY <1>4, <1>6, <1>11
  <2>. HIDE DEF t
  <2>4. IsLexeme(r, next)
    BY <1>7, <1>11, <2>3
  <2>. QED
    BY <1>3, <1>11, <2>2, <2>4 DEF Follows, Outside, t
<1>. QED
  BY <1>8, <1>9, <1>10, <1>11

LEMMA LineFollows ==
    ASSUME NEW p \in Seq(Tokens), NEW c \in Tokens, NEW next, NEW s \in ScanStates,
           Inside(p, c, s), p[1] = "--"
    PROVE  Follows(p, c, next, s)
<1>. DEFINE t == Scan(s, c, next)
<1>2. PICK n \in Nat : n = Len(p)
  OBVIOUS
<1>3. PICK r : r = Append(p, c)
  OBVIOUS
<1>4. n >= 1 /\ s.mode = "--" /\ ~s.skip /\ s.depth = 1 /\ Count(p, "\n", n) = 0
  BY <1>2 DEF Inside
<1>5. r \in Seq(Tokens) /\ Len(r) = n + 1 /\ r[1] = "--" /\ r[n + 1] = c
  BY <1>2, <1>3, <1>4, Grown
<1>6. Count(r, "\n", n + 1) = IF c = "\n" THEN 1 ELSE 0
  <2>1. Count(r, "\n", n + 1) = Count(p, "\n", n) + (IF c = "\n" THEN 1 ELSE 0)
    BY <1>2, <1>3, CountGrows
  <2>. QED
    BY <1>4, <2>1
<1>7. IsLexeme(r, next) <=> c = "\n"
  BY <1>5, <1>6, LexemeByKind
<1>8. CASE c = "\n"
  <2>1. t = [s EXCEPT !.mode = "code"]
    BY <1>4, <1>8 DEF Scan, Closer
  <2>2. t.mode = "code" /\ t.skip = s.skip /\ t.code = s.code
    BY <2>1 DEF ScanStates
  <2>. HIDE DEF t
  <2>. QED
    BY <1>3, <1>4, <1>7, <1>8, <2>2 DEF Follows, Outside, t
<1>9. CASE c # "\n"
  <2>1. t = s
    BY <1>4, <1>9 DEF Scan, Closer
  <2>. HIDE DEF t
  <2>2. Inside(r, next, t)
    <3>1. "--" \in Opens /\ "--" \notin DOMAIN Closer /\ "--" # "/*"
      BY DEF Opens, Closer
    <3>. QED
      BY <1>4, <1>5, <1>6, <1>9, <2>1, <3>1 DEF Inside
  <2>. QED
    BY <1>3, <1>7, <1>9, <2>1, <2>2 DEF Follows, t
<1>. QED
  BY <1>8, <1>9

LEMMA CommentFollows ==
    ASSUME NEW p \in Seq(Tokens), NEW c \in Tokens, NEW next, NEW s \in ScanStates,
           Inside(p, c, s), p[1] = "/*"
    PROVE  Follows(p, c, next, s)
<1>. DEFINE t == Scan(s, c, next)
<1>2. PICK n \in Nat : n = Len(p)
  OBVIOUS
<1>3. PICK r : r = Append(p, c)
  OBVIOUS
<1>4. /\ n >= 1 /\ s.mode = "/*" /\ ~s.skip /\ s.depth = Nesting(p, n)
      /\ \A j \in 1..n : Nesting(p, j) > 0
  BY <1>2 DEF Inside
<1>5. r \in Seq(Tokens) /\ Len(r) = n + 1 /\ r[1] = "/*" /\ r[n + 1] = c
  BY <1>2, <1>3, <1>4, Grown
<1>6. /\ \A j \in 1..n : Nesting(r, j) = Nesting(p, j)
      /\ Nesting(p, n) \in Int
      /\ Nesting(r, n + 1) = CASE c = "/*" -> Nesting(p, n) + 1
                               [] c = "*/" -> Nesting(p, n) - 1
                               [] OTHER -> Nesting(p, n)
  <2>1. \A j \in 1..n : j \in 0..n
    OBVIOUS
  <2>2. \A x : /\ \A j \in 0..n : Count(p, x, j) \in Nat /\ Count(r, x, j) = Count(p, x, j)
               /\ Count(r, x, n + 1) = Count(p, x, n) + (IF c = x THEN 1 ELSE 0)
    BY <1>2, <1>3, CountGrows
  <2>3. n \in 0..n
    OBVIOUS
  <2>4. Count(p, "/*", n) \in Nat /\ Count(p, "*/", n) \in Nat
    BY <2>2, <2>3
  <2>5. \A j \in 1..n : Nesting(r, j) = Nesting(p, j)
    BY <2>1, <2>2 DEF Nesting
  <2>6. /\ Count(r, "/*", n + 1) = Count(p, "/*", n) + (IF c = "/*" THEN 1 ELSE 0)
        /\ Count(r, "*/", n + 1) = Count(p, "*/", n) + (IF c = "*/" THEN 1 ELSE 0)
    BY <2>2
  <2>. QED
    BY <2>4, <2>5, <2>6 DEF Nesting
<1>7. \A j \in 1..n : Nesting(r, j) > 0
  BY <1>4, <1>6
<1>8. IsLexeme(r, next) <=> Nesting(r, n + 1) = 0
  <2>1. n + 1 > 1 /\ (n + 1) - 1 = n
    BY <1>4
  <2>. QED
    BY <1>5, <1>7, <2>1, LexemeByKind
<1>9. Nesting(p, n) \in Nat \ {0}
  BY <1>4, <1>6
<1>10. CASE Nesting(r, n + 1) = 0
  <2>1. c = "*/" /\ s.depth = 1
    BY <1>4, <1>6, <1>9, <1>10
  <2>2. t = [s EXCEPT !.mode = "code"]
    BY <1>4, <2>1 DEF Scan, Closer
  <2>3. t.mode = "code" /\ t.skip = s.skip /\ t.code = s.code
    BY <2>2 DEF ScanStates
  <2>. HIDE DEF t
  <2>. QED
    BY <1>3, <1>4, <1>8, <1>10, <2>3 DEF Follows, Outside, t
<1>11. CASE Nesting(r, n + 1) # 0
  <2>1. ~(c = "*/" /\ s.depth = 1)
    BY <1>4, <1>6, <1>9, <1>11
  <2>2. t = IF c \in {"/*", "*/"}
            THEN [s EXCEPT !.depth = IF c = "/*" THEN s.depth + 1 ELSE s.depth - 1]
            ELSE s
    BY <1>4, <2>1 DEF Scan, Closer
  <2>3. /\ t.mode = "/*" /\ ~t.skip /\ t.code = s.code
        /\ t.depth = CASE c = "/*" -> s.depth + 1
                       [] c = "*/" -> s.depth - 1
                       [] OTHER -> s.depth
    BY <1>4, <2>2 DEF ScanStates
  <2>. HIDE DEF t
  <2>4. t.depth = Nesting(r, n + 1)
    BY <1>4, <1>6, <2>3
  <2>5. Nesting(r, n + 1) > 0
    BY <1>6, <1>9, <1>11
  <2>6. \A j \in 1..(n + 1) : Nesting(r, j) > 0
    <3>1. \A j \in 1..(n + 1) : j \in 1..n \/ j = n + 1
      OBVIOUS
    <3>. QED
      BY <1>7, <2>5, <3>1
  <2>7. "/*" \in Opens /\ "/*" \notin DOMAIN Closer /\ "--" # "/*"
    BY DEF Opens, Closer
  <2>8. Inside(r, next, t)
    BY <1>4, <1>5, <2>3, <2>4, <2>6, <2>7 DEF Inside
  <2>. QED
    BY <1>3, <1>8, <1>11, <2>3, <2>8 DEF Follows, t
<1>. QED
  BY <1>10, <1>11

\* The scanner s and the server u have read the text q as far as its i-th token.
ReadAlike(q, i, s, u) ==
    /\ s.code = u.code
    /\ \/ u.start = i + 1 /\ Outside(s)
       \/ u.start \in 1..i /\ Inside(SubSeq(q, u.start, i), Ahead(q, i), s)

LEMMA ReadsOn ==
    ASSUME NEW q \in Seq(Tokens), NEW i \in 1..Len(q),
           NEW s \in ScanStates, NEW u \in CutStates, ReadAlike(q, i - 1, s, u)
    PROVE  ReadAlike(q, i, Scan(s, q[i], Ahead(q, i)), Cut(u, q, i))
<1>1. PICK c \in Tokens : c = q[i]
  OBVIOUS
<1>2. PICK next : next = Ahead(q, i)
  OBVIOUS
<1>3. PICK t : t = Scan(s, c, next)
  OBVIOUS
<1>4. PICK p : p = SubSeq(q, u.start, i)
  OBVIOUS
<1>5. PICK v : v = Cut(u, q, i)
  OBVIOUS
<1>6. v = IF ~IsLexeme(p, next) THEN u
          ELSE [start |-> i + 1,
                code  |-> IF Len(p) > 1 \/ p[1] = "\n" THEN u.code ELSE Append(u.code, p[1])]
  BY <1>2, <1>4, <1>5 DEF Cut
<1>7. s.code = u.code
  BY DEF ReadAlike
<1>8. CASE u.start = (i - 1) + 1 /\ Outside(s)
  <2>1. u.start = i
    BY <1>8
  <2>3. p \in Seq(Tokens) /\ Len(p) = 1 /\ p[1] = c
    <3>1. i \in Int /\ \A j \in i..i : q[j] \in Tokens
      OBVIOUS
    <3>2. p = SubSeq(q, i, i)
      BY <1>4, <2>1
    <3>3. p \in Seq(Tokens) /\ Len(p) = 1
      BY <3>1, <3>2, SubSeqProperties
    <3>4. p[1] = q[(i + 1) - 1]
      BY <3>1, <3>2, SubSeqProperties
    <3>. QED
      BY <1>1, <3>3, <3>4
  <2>2. p = <<c>>
    BY <2>3
  <2>4. CASE c \in Opens
    <3>1. ~IsLexeme(p, next) /\ Inside(p, next, t) /\ t.code = s.code
      BY <1>3, <1>8, <2>2, <2>4, LexemeOpened
    <3>2. v = u
      BY <1>6, <3>1
    <3>3. ReadAlike(q, i, t, v)
      <4>1. t.code = v.code /\ v.start \in 1..i
        BY <1>7, <2>1, <3>1, <3>2
      <4>2. Inside(SubSeq(q, v.start, i), Ahead(q, i), t)
        BY <1>2, <1>4, <3>1, <3>2, Zenon
      <4>. QED
        BY <4>1, <4>2 DEF ReadAlike
    <3>. QED
      BY <1>1, <1>2, <1>3, <1>5, <3>3
  <2>5. CASE c \notin Opens
    <3>1. /\ IsLexeme(p, next) /\ Outside(t)
          /\ t.code = IF c = "\n" THEN s.code ELSE Append(s.code, c)
      BY <1>3, <1>8, <2>2, <2>5, TokenScanned
    <3>2. v.start = i + 1 /\ v.code = t.code
      BY <1>6, <1>7, <2>3, <3>1
    <3>3. ReadAlike(q, i, t, v)
      BY <3>1, <3>2 DEF ReadAlike
    <3>. QED
      BY <1>1, <1>2, <1>3, <1>5, <3>3
  <2>. QED
    BY <2>4, <2>5
<1>9. CASE u.start \in 1..(i - 1) /\ Inside(SubSeq(q, u.start, i - 1), Ahead(q, i - 1), s)
  <2>1. PICK a \in 1..(i - 1) : a = u.start
    BY <1>9
  <2>2. PICK r : r = SubSeq(q, a, i - 1)
    OBVIOUS
  <2>3. r \in Seq(Tokens) /\ Len(r) >= 1 /\ p = Append(r, c)
    BY <1>1, <1>4, <2>1, <2>2
  <2>4. Ahead(q, i - 1) = c
    <3>1. i - 1 < Len(q) /\ (i - 1) + 1 = i
      OBVIOUS
    <3>2. Ahead(q, i - 1) = q[(i - 1) + 1]
      BY <3>1 DEF Ahead
    <3>. QED
      BY <1>1, <3>1, <3>2
  <2>5. Inside(r, c, s)
    BY <1>9, <2>1, <2>2, <2>4
  <2>6. Follows(r, c, next, s)
    <3>1. r[1] \in Opens
      BY <2>5 DEF Inside
    <3>2. r[1] \in DOMAIN Closer \/ r[1] = "--" \/ r[1] = "/*"
      BY <3>1 DEF Opens, Closer
    <3>. QED
      BY <1>1, <2>3, <2>5, <3>2, QuotedFollows, LineFollows, CommentFollows
  <2>7. /\ t.code = s.code
        /\ IsLexeme(p, next) => Outside(t)
        /\ ~IsLexeme(p, next) => Inside(p, next, t)
    BY <1>3, <2>3, <2>6 DEF Follows
  <2>8. Len(p) > 1
    BY <2>3
  <2>9. CASE IsLexeme(p, next)
    <3>1. v.start = i + 1 /\ v.code = u.code
      BY <1>6, <2>8, <2>9
    <3>2. ReadAlike(q, i, t, v)
      BY <1>7, <2>7, <2>9, <3>1 DEF ReadAlike
    <3>. QED
      BY <1>1, <1>2, <1>3, <1>5, <3>2
  <2>10. CASE ~IsLexeme(p, next)
    <3>1. v = u
      BY <1>6, <2>10
    <3>2. u.start \in 1..i
      BY <2>1
    <3>3. ReadAlike(q, i, t, v)
      <4>1. t.code = v.code /\ v.start \in 1..i
        BY <1>7, <2>7, <3>1, <3>2
      <4>2. Inside(SubSeq(q, v.start, i), Ahead(q, i), t)
        BY <1>2, <1>4, <2>7, <2>10, <3>1, Zenon
      <4>. QED
        BY <4>1, <4>2 DEF ReadAlike
    <3>. QED
      BY <1>1, <1>2, <1>3, <1>5, <3>3
  <2>. QED
    BY <2>9, <2>10
<1>. QED
  BY <1>8, <1>9 DEF ReadAlike

\* Scanner and server read alike to the end of any text.
LEMMA ReadToTheEnd ==
    ASSUME NEW q \in Seq(Tokens)
    PROVE  /\ Cuts(q)[Len(q)] \in CutStates
           /\ ReadAlike(q, Len(q), Scanned(q), Cuts(q)[Len(q)])
<1>. DEFINE n == Len(q)
            T == {k \in Nat : k <= n => ReadAlike(q, k, Scans(q)[k], Cuts(q)[k])}
<1>1. n \in Nat
  OBVIOUS
<1>2. /\ Scans(q) \in [0..n -> ScanStates] /\ Scans(q)[0] = Start
      /\ \A i \in 1..n : Scans(q)[i] = Scan(Scans(q)[i - 1], q[i], Ahead(q, i))
  BY ScansRun
<1>3. /\ Cuts(q) \in [0..n -> CutStates] /\ Cuts(q)[0] = Uncut
      /\ \A i \in 1..n : Cuts(q)[i] = Cut(Cuts(q)[i - 1], q, i)
  BY CutsRun
<1>4. 0 \in T
  <2>1. ReadAlike(q, 0, Start, Uncut)
    BY DEF ReadAlike, Outside, Start, Uncut
  <2>. QED
    BY <1>2, <1>3, <2>1
<1>5. ASSUME NEW k \in Nat, k \in T PROVE k + 1 \in T
  <2>1. ASSUME k + 1 <= n PROVE ReadAlike(q, k + 1, Scans(q)[k + 1], Cuts(q)[k + 1])
    <3>1. k + 1 \in 1..n /\ k \in 0..n /\ (k + 1) - 1 = k
      BY <1>1, <2>1
    <3>2. ReadAlike(q, k, Scans(q)[k], Cuts(q)[k])
      BY <1>5, <3>1
    <3>3. Scans(q)[k] \in ScanStates /\ Cuts(q)[k] \in CutStates
      BY <1>2, <1>3, <3>1
    <3>4. PICK i \in 1..n : i = k + 1 /\ i - 1 = k
      BY <3>1
    <3>5. /\ Scans(q)[i] = Scan(Scans(q)[k], q[i], Ahead(q, i))
          /\ Cuts(q)[i] = Cut(Cuts(q)[k], q, i)
      BY <1>2, <1>3, <3>4
    <3>6. ReadAlike(q, i - 1, Scans(q)[k], Cuts(q)[k])
      BY <3>2, <3>4
    <3>7. ReadAlike(q, i, Scan(Scans(q)[k], q[i], Ahead(q, i)), Cut(Cuts(q)[k], q, i))
      BY <3>3, <3>6, ReadsOn
    <3>. QED
      BY <3>4, <3>5, <3>7
  <2>. QED
    BY <2>1
<1>6. n \in T
  <2>. HIDE DEF T, n
  <2>. QED
    BY <1>1, <1>4, <1>5, Induction
<1>. QED
  BY <1>1, <1>3, <1>6 DEF Scanned

\* Whatever the text: the tokens outside of literals, quoted names and
\* comments that the scanner finds are those the server acts upon.
LEMMA ScannerIsServer ==
    ASSUME NEW q \in Seq(Tokens)
    PROVE  Code(q) = ServerCode(q)
BY ReadToTheEnd DEF ReadAlike, Code, ServerCode

-----------------------------------------------------------------------------
(* Texts that are added to.                                                *)

LEMMA FrontAndLast ==
    ASSUME NEW S, NEW e \in Seq(S), Len(e) # 0
    PROVE  \E f \in Seq(S), x \in S : /\ e = Append(f, x) /\ Len(f) = Len(e) - 1
                                      /\ x = e[Len(e)]
<1>1. PICK n \in Nat : Len(e) = n + 1
  <2>1. Len(e) - 1 \in Nat /\ Len(e) = (Len(e) - 1) + 1
    OBVIOUS
  <2>. QED
    BY <2>1
<1>2. PICK f : f = SubSeq(e, 1, n)
  OBVIOUS
<1>3. f \in Seq(S) /\ Len(f) = n /\ \A i \in 1..n : f[i] = e[i]
  <2>1. 1 \in Int /\ n \in Int /\ \A i \in 1..n : e[i] \in S
    BY <1>1
  <2>2. f \in Seq(S) /\ Len(f) = IF 1 <= n THEN n - 1 + 1 ELSE 0
    BY <1>2, <2>1, SubSeqProperties
  <2>3. \A i \in 1..(n - 1 + 1) : f[i] = e[1 + i - 1]
    BY <1>2, <2>1, SubSeqProperties
  <2>. QED
    BY <2>2, <2>3
<1>4. PICK x \in S : x = e[n + 1]
  BY <1>1
<1>5. PICK g \in Seq(S) : g = Append(f, x)
  BY <1>3, AppendProperties
<1>6. Len(g) = n + 1 /\ g[n + 1] = x /\ \A i \in 1..n : g[i] = f[i]
  BY <1>3, <1>5, AppendProperties
<1>7. Len(g) = Len(e) /\ \A i \in 1..Len(e) : g[i] = e[i]
  BY <1>1, <1>3, <1>4, <1>6
<1>8. e = g
  BY <1>7, SeqEqual
<1>. QED
  BY <1>1, <1>3, <1>4, <1>5, <1>8

\* A set that holds the empty sequence and, with a sequence, those that are
\* one token longer, holds them all.
LEMMA BySteps ==
    ASSUME NEW S, NEW T, <<>> \in T,
           \A e \in Seq(S) : e \in T => \A x \in S : Append(e, x) \in T
    PROVE  \A e \in Seq(S) : e \in T
<1>. DEFINE K == {n \in Nat : \A e \in Seq(S) : Len(e) = n => e \in T}
<1>1. 0 \in K
  <2>1. \A e \in Seq(S) : Len(e) = 0 => e = <<>>
    OBVIOUS
  <2>. QED
    BY <2>1
<1>2. ASSUME NEW n \in Nat, n \in K PROVE n + 1 \in K
  <2>. SUFFICES ASSUME NEW e \in Seq(S), Len(e) = n + 1 PROVE e \in T
    OBVIOUS
  <2>1. PICK f \in Seq(S), x \in S : e = Append(f, x) /\ Len(f) = n
    <3>1. Len(e) # 0 /\ Len(e) - 1 = n
      OBVIOUS
    <3>. QED
      BY <3>1, FrontAndLast
  <2>2. f \in T
    BY <1>2, <2>1
  <2>. QED
    BY <2>1, <2>2
<1>3. \A n \in Nat : n \in K
  <2>. HIDE DEF K
  <2>. QED
    BY <1>1, <1>2, Induction
<1>. QED
  BY <1>3

LEMMA AppendedLast ==
    ASSUME NEW S, NEW q \in Seq(S), NEW e \in Seq(S), NEW x \in S
    PROVE  /\ q \o e \in Seq(S) /\ q \o Append(e, x) = Append(q \o e, x)
           /\ q \o <<>> = q
<1>1. PICK r \in Seq(S) : r = q \o e
  BY ConcatProperties
<1>2. Len(r) = Len(q) + Len(e) /\ \A i \in 1..Len(r) : r[i] = IF i <= Len(q) THEN q[i] ELSE e[i - Len(q)]
  BY <1>1, ConcatProperties
<1>3. PICK f \in Seq(S) : f = Append(e, x)
  BY AppendProperties
<1>4. Len(f) = Len(e) + 1 /\ f[Len(e) + 1] = x /\ \A i \in 1..Len(e) : f[i] = e[i]
  BY <1>3, AppendProperties
<1>5. PICK a \in Seq(S) : a = q \o f
  BY ConcatProperties
<1>6. Len(a) = Len(q) + Len(f) /\ \A i \in 1..Len(a) : a[i] = IF i <= Len(q) THEN q[i] ELSE f[i - Len(q)]
  BY <1>5, ConcatProperties
<1>6a. Len(q) \in Nat /\ Len(e) \in Nat
  OBVIOUS
<1>7. PICK b \in Seq(S) : b = Append(r, x)
  BY AppendProperties
<1>8. Len(b) = Len(r) + 1 /\ b[Len(r) + 1] = x /\ \A i \in 1..Len(r) : b[i] = r[i]
  BY <1>7, AppendProperties
<1>9. Len(a) = Len(b) /\ \A i \in 1..Len(a) : a[i] = b[i]
  <2>1. Len(a) = Len(b) /\ Len(a) = Len(q) + Len(e) + 1
    BY <1>2, <1>4, <1>6, <1>8
  <2>2. ASSUME NEW i \in 1..Len(a) PROVE a[i] = b[i]
    <3>1. CASE i <= Len(q)
      <4>1. i \in 1..Len(r)
        BY <1>2, <1>6a, <3>1
      <4>. QED
        BY <1>2, <1>6, <1>8, <3>1, <4>1
    <3>2. CASE Len(q) < i /\ i <= Len(q) + Len(e)
      <4>1. i - Len(q) \in 1..Len(e) /\ i \in 1..Len(r)
        BY <1>2, <1>6a, <3>2
      <4>2. ~(i <= Len(q))
        BY <1>6a, <3>2
      <4>. QED
        BY <1>2, <1>4, <1>6, <1>8, <4>1, <4>2
    <3>3. CASE i = Len(q) + Len(e) + 1
      <4>1. i - Len(q) = Len(e) + 1 /\ ~(i <= Len(q)) /\ i = Len(r) + 1
        BY <1>2, <1>6a, <3>3
      <4>. QED
        BY <1>4, <1>6, <1>8, <4>1
    <3>. QED
      BY <1>6a, <2>1, <3>1, <3>2, <3>3
  <2>. QED
    BY <2>1, <2>2
<1>10. a = b
  BY <1>9, SeqEqual
<1>11. q \o <<>> = q
  BY ConcatEmptySeq
<1>. QED
  BY <1>1, <1>3, <1>5, <1>7, <1>10, <1>11

\* A token changes the scan of what precedes it only when it doubles a mark
\* that closes a literal or a name.
LEMMA ScannedGrows ==
    ASSUME NEW q \in Seq(Tokens), NEW x \in Tokens, x \notin {"'", "]"}
    PROVE  Scanned(Append(q, x)) = Scan(Scanned(q), x, "")
<1>. DEFINE n == Len(q)
<1>1. PICK a \in Seq(Tokens) : a = Append(q, x)
  BY AppendProperties
<1>2. n \in Nat /\ Len(a) = n + 1 /\ a[n + 1] = x /\ \A i \in 1..n : a[i] = q[i]
  BY <1>1, AppendProperties
<1>3. \A i \in 1..n : i < n => Ahead(a, i) = Ahead(q, i)
  <2>1. TAKE i \in 1..n
  <2>2. HAVE i < n
  <2>3. i + 1 \in 1..n /\ i < Len(q) /\ i < Len(a)
    BY <1>2, <2>2
  <2>. QED
    BY <1>2, <2>3 DEF Ahead
<1>4. ASSUME NEW s \in ScanStates, NEW c \in Tokens
      PROVE  Scan(s, c, x) = Scan(s, c, "")
  <2>1. s.mode \in DOMAIN Closer => Closer[s.mode] \in {"'", "]"}
    BY DEF Closer
  <2>2. c = "" => FALSE
    BY DEF Tokens, Words, Marks, Added
  <2>. QED
    BY <2>1, <2>2 DEF Scan
<1>5. /\ Scans(q) \in [0..n -> ScanStates] /\ Scans(q)[0] = Start
      /\ \A i \in 1..n : Scans(q)[i] = Scan(Scans(q)[i - 1], q[i], Ahead(q, i))
  BY ScansRun
<1>6. /\ Scans(a)[0] = Start
      /\ \A i \in 1..(n + 1) : Scans(a)[i] = Scan(Scans(a)[i - 1], a[i], Ahead(a, i))
  BY <1>2, ScansRun
<1>7. Alike(Scans(q), Scans(a), n)
  <2>1. ASSUME NEW i \in 1..n, Scans(q)[i - 1] = Scans(a)[i - 1]
        PROVE  Scans(q)[i] = Scans(a)[i]
    <3>1. /\ Scans(q)[i] = Scan(Scans(q)[i - 1], q[i], Ahead(q, i))
          /\ Scans(a)[i] = Scan(Scans(q)[i - 1], q[i], Ahead(a, i))
      <4>1. i \in 1..(n + 1)
        BY <1>2
      <4>. QED
        BY <1>2, <1>5, <1>6, <2>1, <4>1
    <3>2. CASE i < n
      BY <1>3, <3>1, <3>2
    <3>3. CASE i = n
      <4>1. ~(i < Len(q)) /\ i < Len(a) /\ i + 1 = n + 1
        BY <1>2, <3>3
      <4>1a. Ahead(q, i) = "" /\ Ahead(a, i) = x
        BY <1>2, <4>1 DEF Ahead
      <4>2. Scans(q)[i - 1] \in ScanStates /\ q[i] \in Tokens
        <5>1. i - 1 \in 0..n
          BY <1>2
        <5>. QED
          BY <1>5, <5>1
      <4>. QED
        BY <1>4, <3>1, <4>1a, <4>2
    <3>. QED
      BY <1>2, <3>2, <3>3
  <2>. QED
    BY <1>5, <1>6, <2>1 DEF Alike
<1>8. Scans(q)[n] = Scans(a)[n]
  BY <1>2, <1>7, SameTurns
<1>9. Scans(a)[n + 1] = Scan(Scans(a)[n], x, "")
  <2>1. ~(n + 1 < Len(a))
    BY <1>2
  <2>1a. Ahead(a, n + 1) = ""
    BY <2>1 DEF Ahead
  <2>2. n + 1 \in 1..(n + 1) /\ (n + 1) - 1 = n
    BY <1>2
  <2>. QED
    BY <1>2, <1>6, <2>1a, <2>2
<1>. QED
  BY <1>1, <1>2, <1>8, <1>9 DEF Scanned

\* At its end a text is inside of a lexeme or outside of all.
LEMMA ScannedEnds ==
    ASSUME NEW q \in Seq(Tokens)
    PROVE  /\ Scanned(q) \in ScanStates
           /\ ~Scanned(q).skip
           /\ Scanned(q).mode = "--" => Scanned(q).depth = 1
<1>1. PICK u \in CutStates : ReadAlike(q, Len(q), Scanned(q), u)
  BY ReadToTheEnd
<1>2. Scanned(q) \in ScanStates
  BY ScansRun DEF Scanned
<1>3. CASE Outside(Scanned(q))
  BY <1>2, <1>3 DEF Outside
<1>4. CASE Inside(SubSeq(q, u.start, Len(q)), Ahead(q, Len(q)), Scanned(q))
  <2>1. PICK p, s : p = SubSeq(q, u.start, Len(q)) /\ s = Scanned(q)
    OBVIOUS
  <2>2. Ahead(q, Len(q)) = ""
    <3>1. ~(Len(q) < Len(q))
      OBVIOUS
    <3>. QED
      BY <3>1 DEF Ahead
  <2>3. Inside(p, "", s)
    BY <1>4, <2>1, <2>2
  <2>4. p[1] \in DOMAIN Closer => ~s.skip
    BY <2>3 DEF Inside, Closer
  <2>5. p[1] \notin DOMAIN Closer => ~s.skip
    BY <2>3 DEF Inside, Closer, Opens
  <2>6. s.mode = "--" => s.depth = 1
    BY <2>3 DEF Inside
  <2>. QED
    BY <1>2, <2>1, <2>4, <2>5, <2>6
<1>. QED
  BY <1>1, <1>3, <1>4 DEF ReadAlike

\* Outside of lexemes a token that opens nothing is read as it is.
LEMMA CodeGrows ==
    ASSUME NEW q \in Seq(Tokens), Scanned(q).mode = "code",
           NEW x \in Tokens, x \notin Opens, x # "]"
    PROVE  /\ Scanned(Append(q, x)).mode = "code"
           /\ Code(Append(q, x)) = IF x = "\n" THEN Code(q) ELSE Append(Code(q), x)
<1>1. PICK s \in ScanStates : s = Scanned(q)
  BY ScannedEnds
<1>2. Scanned(Append(q, x)) = Scan(s, x, "")
  BY <1>1, ScannedGrows DEF Opens
<1>3. Outside(s)
  BY <1>1, ScannedEnds DEF Outside
<1>4. /\ Outside(Scan(s, x, ""))
      /\ Scan(s, x, "").code = IF x = "\n" THEN s.code ELSE Append(s.code, x)
  BY <1>3, TokenScanned
<1>. QED
  BY <1>1, <1>2, <1>4 DEF Code, Outside

LEMMA CodeTyped ==
    ASSUME NEW q \in Seq(Tokens)
    PROVE  Code(q) \in Seq(Tokens)
BY ScannedEnds DEF Code, ScanStates

\* Tokens that are read wherever they stand outside of lexemes.
Plain == Tokens \ (Opens \cup {"]", "\n"})

LEMMA CodeOfAddition ==
    ASSUME NEW q \in Seq(Tokens), Scanned(q).mode = "code", NEW e \in Seq(Plain)
    PROVE  Scanned(q \o e).mode = "code" /\ Code(q \o e) = Code(q) \o e
<1>. DEFINE T == {f \in Seq(Plain) :
                     Scanned(q \o f).mode = "code" /\ Code(q \o f) = Code(q) \o f}
<1>1. <<>> \in T
  <2>1. Code(q) \in Seq(Tokens)
    BY CodeTyped
  <2>2. q \o <<>> = q /\ Code(q) \o <<>> = Code(q)
    BY <2>1, ConcatEmptySeq
  <2>3. <<>> \in Seq(Plain)
    OBVIOUS
  <2>4. Scanned(q \o <<>>).mode = "code" /\ Code(q \o <<>>) = Code(q) \o <<>>
    BY <2>2, Zenon
  <2>. QED
    BY <2>3, <2>4, Zenon
<1>2. ASSUME NEW f \in Seq(Plain), f \in T, NEW x \in Plain PROVE Append(f, x) \in T
  <2>1. f \in Seq(Tokens) /\ x \in Tokens /\ x \notin Opens /\ x # "]" /\ x # "\n"
    BY DEF Plain
  <2>2. q \o f \in Seq(Tokens) /\ q \o Append(f, x) = Append(q \o f, x)
    BY <2>1, AppendedLast
  <2>3. Code(q) \o Append(f, x) = Append(Code(q) \o f, x)
    BY <2>1, AppendedLast, CodeTyped
  <2>4. /\ Scanned(Append(q \o f, x)).mode = "code"
        /\ Code(Append(q \o f, x)) = Append(Code(q \o f), x)
    BY <1>2, <2>1, <2>2, CodeGrows
  <2>5. Append(f, x) \in Seq(Plain)
    BY AppendProperties
  <2>. QED
    BY <1>2, <2>2, <2>3, <2>4, <2>5
<1>3. \A f \in Seq(Plain) : f \in T
  <2>. HIDE DEF T
  <2>. QED
    BY <1>1, <1>2, BySteps
<1>. QED
  BY <1>3

LEMMA Single == ASSUME NEW S, NEW x \in S PROVE <<x>> \in Seq(S) /\ <<x>> # <<>> /\ Append(<<>>, x) = <<x>>
OBVIOUS

LEMMA Triple ==
    ASSUME NEW S, NEW q \in Seq(S), NEW x \in S, NEW y \in S, NEW z \in S
    PROVE  q \o <<x, y, z>> = Append(Append(Append(q, x), y), z)
<1>. DEFINE n == Len(q)
            t == <<x, y, z>>
<1>1. t \in Seq(S) /\ Len(t) = 3 /\ t[1] = x /\ t[2] = y /\ t[3] = z
  OBVIOUS
<1>2. PICK a \in Seq(S), b \in Seq(S), c \in Seq(S) :
         a = Append(q, x) /\ b = Append(a, y) /\ c = Append(b, z)
  BY AppendProperties
<1>. HIDE DEF t
<1>3. PICK w \in Seq(S) : w = q \o t
  BY <1>1, ConcatProperties
<1>4. Len(w) = n + 3 /\ \A i \in 1..(n + 3) : w[i] = IF i <= n THEN q[i] ELSE t[i - n]
  <2>1. Len(w) = Len(q) + Len(t)
    BY <1>1, <1>3, ConcatProperties
  <2>2. \A i \in 1..(Len(q) + Len(t)) : w[i] = IF i <= Len(q) THEN q[i] ELSE t[i - Len(q)]
    BY <1>1, <1>3, ConcatProperties
  <2>. QED
    BY <1>1, <2>1, <2>2
<1>5. n \in Nat /\ Len(a) = n + 1 /\ a[n + 1] = x /\ \A i \in 1..n : a[i] = q[i]
  BY <1>2, AppendProperties
<1>6. Len(b) = n + 2 /\ b[n + 2] = y /\ \A i \in 1..(n + 1) : b[i] = a[i]
  <2>1. Len(b) = Len(a) + 1 /\ b[Len(a) + 1] = y /\ \A i \in 1..Len(a) : b[i] = a[i]
    BY <1>2, AppendProperties
  <2>2. Len(a) + 1 = n + 2
    BY <1>5
  <2>. QED
    BY <1>5, <2>1, <2>2
<1>7. Len(c) = n + 3 /\ c[n + 3] = z /\ \A i \in 1..(n + 2) : c[i] = b[i]
  <2>1. Len(c) = Len(b) + 1 /\ c[Len(b) + 1] = z /\ \A i \in 1..Len(b) : c[i] = b[i]
    BY <1>2, AppendProperties
  <2>2. Len(b) + 1 = n + 3
    BY <1>5, <1>6
  <2>. QED
    BY <1>6, <2>1, <2>2
<1>8. ASSUME NEW i \in 1..(n + 3) PROVE c[i] = w[i]
  <2>. HIDE DEF n
  <2>1. CASE i <= n
    <3>1. i \in 1..n /\ i \in 1..(n + 1) /\ i \in 1..(n + 2)
      BY <1>5, <2>1
    <3>. QED
      BY <1>4, <1>5, <1>6, <1>7, <2>1, <3>1
  <2>2. CASE i = n + 1
    <3>1. i \in 1..(n + 1) /\ i \in 1..(n + 2) /\ ~(i <= n) /\ i - n = 1
      BY <1>5, <2>2
    <3>. QED
      BY <1>1, <1>4, <1>5, <1>6, <1>7, <2>2, <3>1
  <2>3. CASE i = n + 2
    <3>1. i \in 1..(n + 2) /\ ~(i <= n) /\ i - n = 2
      BY <1>5, <2>3
    <3>. QED
      BY <1>1, <1>4, <1>6, <1>7, <2>3, <3>1
  <2>4. CASE i = n + 3
    <3>1. ~(i <= n) /\ i - n = 3
      BY <1>5, <2>4
    <3>. QED
      BY <1>1, <1>4, <1>7, <2>4, <3>1
  <2>. QED
    BY <1>5, <2>1, <2>2, <2>3, <2>4
<1>9. Len(c) = Len(w) /\ \A i \in 1..Len(c) : c[i] = w[i]
  BY <1>4, <1>7, <1>8
<1>. QED
  BY <1>2, <1>3, <1>9, SeqEqual DEF t

\* The SELECT of the affected rows is read behind whatever the text is.
LEMMA CodeOfWrapped ==
    ASSUME NEW q \in Seq(Tokens), Closed(q)
    PROVE  Code(Wrapped(q)) = Append(Append(Code(q), ";"), "sentinel")
<1>1. "\n" \in Tokens /\ ";" \in Tokens /\ "sentinel" \in Tokens
  BY DEF Tokens, Words, Marks, Added
<1>2. PICK a \in Seq(Tokens) : a = Append(q, "\n")
  BY <1>1, AppendProperties
<1>3. PICK b \in Seq(Tokens) : b = Append(a, ";")
  BY <1>1, AppendProperties
<1>4. Wrapped(q) = Append(b, "sentinel")
  <2>1. PICK x \in Tokens, y \in Tokens, z \in Tokens : x = "\n" /\ y = ";" /\ z = "sentinel"
    BY <1>1
  <2>2. q \o <<x, y, z>> = Append(Append(Append(q, x), y), z)
    BY Triple
  <2>. QED
    BY <1>2, <1>3, <2>1, <2>2, Zenon DEF Wrapped
<1>5. Scanned(a).mode = "code" /\ Code(a) = Code(q)
  <2>1. PICK s \in ScanStates : s = Scanned(q)
    BY ScannedEnds
  <2>2. CASE s.mode = "code"
    BY <1>1, <1>2, <2>1, <2>2, CodeGrows DEF Opens
  <2>3. CASE s.mode = "--"
    <3>1. s.depth = 1 /\ ~s.skip
      BY <2>1, <2>3, ScannedEnds
    <3>2. Scanned(a) = Scan(s, "\n", "")
      BY <1>1, <1>2, <2>1, ScannedGrows
    <3>3. Scan(s, "\n", "") = [s EXCEPT !.mode = "code"]
      BY <2>3, <3>1 DEF Scan, Closer
    <3>. QED
      BY <2>1, <3>2, <3>3 DEF Code, ScanStates
  <2>. QED
    BY <2>1, <2>2, <2>3 DEF Closed
<1>6. Scanned(b).mode = "code" /\ Code(b) = Append(Code(q), ";")
  <2>1. ";" \notin Opens /\ ";" # "]" /\ ";" # "\n"
    BY DEF Opens
  <2>2. /\ Scanned(Append(a, ";")).mode = "code"
        /\ Code(Append(a, ";")) = IF ";" = "\n" THEN Code(a) ELSE Append(Code(a), ";")
    BY <1>1, <1>5, <2>1, CodeGrows
  <2>. QED
    BY <1>3, <1>5, <2>1, <2>2
<1>. QED
  <2>1. "sentinel" \notin Opens /\ "sentinel" # "]" /\ "sentinel" # "\n"
    BY DEF Opens
  <2>2. Code(Append(b, "sentinel")) =
            IF "sentinel" = "\n" THEN Code(b) ELSE Append(Code(b), "sentinel")
    BY <1>1, <1>6, <2>1, CodeGrows
  <2>. QED
    BY <1>4, <1>6, <2>1, <2>2
-----------------------------------------------------------------------------
(* Statements and words of a text that is added to.                        *)

LEMMA SeqWithin ==
    ASSUME NEW B, NEW A \in SUBSET B, NEW f \in Seq(A)
    PROVE  f \in Seq(B)
OBVIOUS

LEMMA TripleIn ==
    ASSUME NEW S, NEW x \in S, NEW y \in S, NEW z \in S
    PROVE  <<x, y, z>> \in Seq(S)
OBVIOUS

LEMMA TokenAppended ==
    ASSUME NEW q \in Seq(Tokens), NEW e \in Seq(Tokens), NEW x \in Tokens
    PROVE  q \o Append(e, x) = Append(q \o e, x)
BY AppendedLast

LEMMA TokensAssociative ==
    ASSUME NEW p \in Seq(Tokens), NEW q \in Seq(Tokens), NEW r \in Seq(Tokens)
    PROVE  (p \o q) \o r = p \o (q \o r)
BY ConcatAssociative

\* Line ends and semicolons behind a text that ends outside of lexemes: only
\* the semicolons are read.
LEMMA CodeOfTail ==
    ASSUME NEW q \in Seq(Tokens), Scanned(q).mode = "code", NEW e \in Seq({";", "\n"})
    PROVE  \E z \in Seq({";"}) : Code(q \o e) = Code(q) \o z
<1>0. Code(q) \in Seq(Tokens)
  BY CodeTyped
<1>. DEFINE T == {f \in Seq({";", "\n"}) :
                     /\ Scanned(q \o f).mode = "code"
                     /\ \E z \in Seq({";"}) : Code(q \o f) = Code(q) \o z}
<1>1. <<>> \in T
  <2>1. q \o <<>> = q /\ Code(q) \o <<>> = Code(q)
    BY <1>0, ConcatEmptySeq
  <2>2. <<>> \in Seq({";", "\n"}) /\ <<>> \in Seq({";"})
    BY EmptySeq
  <2>3. Scanned(q \o <<>>).mode = "code" /\ Code(q \o <<>>) = Code(q) \o <<>>
    BY <2>1, Zenon
  <2>. QED
    BY <2>2, <2>3, Zenon
<1>2. ASSUME NEW f \in Seq({";", "\n"}), f \in T, NEW x \in {";", "\n"}
      PROVE  Append(f, x) \in T
  <2>1. x \in Tokens /\ x \notin Opens /\ x # "]" /\ f \in Seq(Tokens)
    <3>1. x \in Tokens /\ x \notin Opens /\ x # "]" /\ {";", "\n"} \in SUBSET Tokens
      BY DEF Tokens, Marks, Opens
    <3>. QED
      BY <3>1, SeqWithin
  <2>2. PICK d \in Seq(Tokens) : d = q \o f
    BY <2>1, ConcatProperties
  <2>3. q \o Append(f, x) = Append(d, x)
    <3>1. q \o Append(f, x) = Append(q \o f, x)
      BY <2>1, TokenAppended
    <3>. QED
      BY <2>2, <3>1, Zenon
  <2>4. PICK z \in Seq({";"}) : Code(d) = Code(q) \o z
    BY <1>2, <2>2
  <2>5. Scanned(d).mode = "code"
    BY <1>2, <2>2
  <2>6. /\ Scanned(Append(d, x)).mode = "code"
        /\ Code(Append(d, x)) = IF x = "\n" THEN Code(d) ELSE Append(Code(d), x)
    BY <2>1, <2>5, CodeGrows
  <2>7. \E y \in Seq({";"}) : Code(Append(d, x)) = Code(q) \o y
    <3>1. CASE x = "\n"
      BY <2>4, <2>6, <3>1
    <3>2. CASE x = ";"
      <4>1. z \in Seq(Tokens) /\ Append(z, x) \in Seq({";"})
        <5>1. {";"} \in SUBSET Tokens
          BY DEF Tokens, Marks
        <5>. QED
          BY <3>2, <5>1, SeqWithin, AppendProperties
      <4>2. Code(q) \o Append(z, x) = Append(Code(q) \o z, x)
        BY <1>0, <2>1, <4>1, TokenAppended
      <4>3. Code(Append(d, x)) = Append(Code(d), x)
        BY <2>6, <3>2
      <4>. QED
        BY <2>4, <4>1, <4>2, <4>3, Zenon
    <3>. QED
      BY <3>1, <3>2
  <2>8. Append(f, x) \in Seq({";", "\n"})
    BY AppendProperties
  <2>. QED
    BY <2>3, <2>6, <2>7, <2>8, Zenon
<1>3. \A f \in Seq({";", "\n"}) : f \in T
  <2>. HIDE DEF T
  <2>. QED
    BY <1>1, <1>2, BySteps
<1>. QED
  BY <1>3

LEMMA OneIsSome == ASSUME NEW s, Len(s) = 1 PROVE s # <<>>
OBVIOUS

LEMMA OnlyOne ==
    ASSUME NEW S, NEW d \in Seq(S), NEW x \in S, Len(Append(d, x)) = 1
    PROVE  d = <<>> /\ Append(d, x) = <<x>> /\ Append(d, x)[1] = x
<1>1. Len(d) = 0
  BY AppendProperties
<1>2. d = <<>>
  BY <1>1
<1>. QED
  BY <1>2, Single

LEMMA OnlyStatement ==
    ASSUME NEW d \in Seq(Seq(Tokens)), NEW x \in Seq(Tokens), Len(Append(d, x)) = 1
    PROVE  d = <<>> /\ Append(d, x) = <<x>>
BY OnlyOne

LEMMA Longer ==
    ASSUME NEW S, NEW d \in Seq(S), d # <<>>, NEW e \in Seq(S)
    PROVE  d \o e # <<>>
BY ConcatEqualIffEmpty

\* A text without its last tokens in S.
LEMMA TrimmedPart ==
    ASSUME NEW q \in Seq(Tokens), NEW S
    PROVE  /\ TrimmedEnd(q, S) \in Seq(Tokens)
           /\ \E e \in Seq(S) : q = TrimmedEnd(q, S) \o e
<1>. DEFINE n == Len(q)
            Ends(m) == q[m] \notin S /\ \A j \in (m + 1)..n : q[j] \in S
            m == IF \E i \in 1..n : q[i] \notin S THEN CHOOSE i \in 1..n : Ends(i) ELSE 0
<1>1. n \in Nat
  OBVIOUS
<1>2. m \in 0..n /\ \A j \in (m + 1)..n : q[j] \in S
  <2>1. CASE \E i \in 1..n : q[i] \notin S
    <3>1. {i \in 1..n : q[i] \notin S} \in SUBSET (1..n) /\ {i \in 1..n : q[i] \notin S} # {}
      BY <2>1
    <3>2. PICK x \in {i \in 1..n : q[i] \notin S} : \A y \in {i \in 1..n : q[i] \notin S} : x >= y
      BY <1>1, <3>1, SetOfPositions
    <3>3. \A j \in (x + 1)..n : j \in 1..n /\ ~(x >= j)
      BY <1>1
    <3>4. x \in 1..n /\ Ends(x)
      BY <3>2, <3>3
    <3>. HIDE DEF Ends
    <3>5. m \in 1..n /\ Ends(m)
      BY <2>1, <3>4
    <3>. QED
      BY <1>1, <3>5 DEF Ends
  <2>2. CASE ~\E i \in 1..n : q[i] \notin S
    <3>1. m = 0
      BY <2>2
    <3>. HIDE DEF m
    <3>. QED
      BY <1>1, <2>2, <3>1
  <2>. QED
    BY <2>1, <2>2
<1>3. TrimmedEnd(q, S) = SubSeq(q, 1, m)
  BY Zenon DEF TrimmedEnd
<1>. HIDE DEF m
<1>4. PICK e : e = SubSeq(q, m + 1, n)
  OBVIOUS
<1>5. e \in Seq(S)
  <2>1. m + 1 \in Int /\ n \in Int
    BY <1>1, <1>2
  <2>. QED
    BY <1>2, <1>4, <2>1, SubSeqProperties
<1>6. SubSeq(q, 1, m) \in Seq(Tokens)
  <2>1. 1 \in Int /\ m \in Int /\ \A j \in 1..m : q[j] \in Tokens
    BY <1>1, <1>2
  <2>. QED
    BY <2>1, SubSeqProperties
<1>7. SubSeq(q, 1, m) \o SubSeq(q, m + 1, n) = SubSeq(q, 1, n)
  <2>1. /\ 1 \in 1..(Len(q) + 1) /\ m \in (1 - 1)..Len(q) /\ n \in m..Len(q)
    BY <1>1, <1>2
  <2>. HIDE DEF n
  <2>. QED
    BY <2>1, ConcatAdjacentSubSeq
<1>8. SubSeq(q, 1, n) = q
  BY SubSeqFull
<1>. QED
  BY <1>3, <1>4, <1>5, <1>6, <1>7, <1>8

\* What build_paginated_query trims are line ends and semicolons.
LEMMA NormalizedPart ==
    ASSUME NEW q \in Seq(Tokens)
    PROVE  /\ Normalized(q) \in Seq(Tokens)
           /\ \E e \in Seq({";", "\n"}) : q = Normalized(q) \o e
<1>1. PICK a \in Seq(Tokens) : a = TrimmedEnd(q, {"\n"})
  BY TrimmedPart
<1>2. PICK b \in Seq(Tokens) : b = TrimmedEnd(a, {";"})
  BY TrimmedPart
<1>3. PICK c \in Seq(Tokens) : c = TrimmedEnd(b, {"\n"})
  BY TrimmedPart
<1>4. Normalized(q) = c
  BY <1>1, <1>2, <1>3 DEF Normalized
<1>5. PICK x \in Seq({"\n"}) : q = a \o x
  <2>1. \E x \in Seq({"\n"}) : q = TrimmedEnd(q, {"\n"}) \o x
    BY TrimmedPart
  <2>. QED
    BY <1>1, <2>1, Zenon
<1>5a. PICK y \in Seq({";"}) : a = b \o y
  <2>1. \E y \in Seq({";"}) : a = TrimmedEnd(a, {";"}) \o y
    BY TrimmedPart
  <2>. QED
    BY <1>2, <2>1, Zenon
<1>5b. PICK z \in Seq({"\n"}) : b = c \o z
  BY <1>3, TrimmedPart
<1>. DEFINE S == {";", "\n"}
<1>6. x \in Seq(S) /\ y \in Seq(S) /\ z \in Seq(S)
  <2>1. {"\n"} \in SUBSET S /\ {";"} \in SUBSET S
    OBVIOUS
  <2>. HIDE DEF S
  <2>. QED
    BY <2>1, SeqWithin
<1>7. S \in SUBSET Tokens
  BY DEF Tokens, Marks
<1>. HIDE DEF S
<1>8. x \in Seq(Tokens) /\ y \in Seq(Tokens) /\ z \in Seq(Tokens)
  BY <1>6, <1>7, SeqWithin
<1>9. PICK f : f = z \o y
  OBVIOUS
<1>10. PICK e : e = f \o x
  OBVIOUS
<1>11. f \in Seq(S) /\ f \in Seq(Tokens)
  BY <1>6, <1>7, <1>9, ConcatProperties, SeqWithin
<1>12. e \in Seq(S)
  BY <1>6, <1>10, <1>11, ConcatProperties
<1>13. a = c \o f
  <2>1. (c \o z) \o y = c \o (z \o y)
    BY <1>8, TokensAssociative
  <2>. QED
    BY <1>5a, <1>5b, <1>9, <2>1, Zenon
<1>14. q = c \o e
  <2>1. (c \o f) \o x = c \o (f \o x)
    <3>1. f \in Seq(Tokens) /\ x \in Seq(Tokens)
      BY <1>8, <1>11
    <3>. QED
      BY <3>1, TokensAssociative
  <2>. QED
    BY <1>5, <1>10, <1>13, <2>1, Zenon
<1>. QED
  BY <1>4, <1>12, <1>14 DEF S

\* What the plugin and the server have read when a text ends: the depth of its
\* parentheses for either, and the statements for the server.
Depth(code) == Depths(code)[Len(code)]
Deep(code) == Level(code, Len(code))
Parsed(code) == Reads(code)[Len(code)]

LEMMA EndsTyped ==
    ASSUME NEW code \in Seq(Tokens)
    PROVE  Depth(code) \in Nat /\ TopWords(code) \in Seq(Words)
<1>1. Len(code) \in 0..Len(code)
  OBVIOUS
<1>. QED
  BY <1>1, DepthsRun, PicksRun DEF Depth, TopWords

LEMMA EndsGrow ==
    ASSUME NEW code \in Seq(Tokens), NEW x \in Tokens
    PROVE  /\ Depth(Append(code, x)) = Nest(Depth(code), x)
           /\ TopWords(Append(code, x)) = PickWord(TopWords(code), x, Depth(code))
<1>. DEFINE n == Len(code)
<1>1. PICK d \in Seq(Tokens) : d = Append(code, x)
  BY AppendProperties
<1>2. n \in Nat /\ Len(d) = n + 1 /\ d[n + 1] = x /\ \A i \in 1..n : d[i] = code[i]
  BY <1>1, AppendProperties
<1>3. \A i \in 1..n : i \in 1..(n + 1)
  BY <1>2
<1>4. n + 1 \in 1..(n + 1) /\ (n + 1) - 1 = n /\ n \in 0..n
  BY <1>2
<1>5. PICK D, E : D = Depths(code) /\ E = Depths(d)
  OBVIOUS
<1>6. /\ D[0] = 0 /\ \A i \in 1..n : D[i] = Nest(D[i - 1], code[i])
      /\ E[0] = 0 /\ \A i \in 1..(n + 1) : E[i] = Nest(E[i - 1], d[i])
  BY <1>2, <1>5, DepthsRun
<1>7. \A i \in 0..n : D[i] = E[i]
  <2>1. Alike(D, E, n)
    BY <1>2, <1>3, <1>6 DEF Alike
  <2>. QED
    BY <1>2, <2>1, SameTurns
<1>8. Depth(d) = Nest(Depth(code), x)
  BY <1>2, <1>4, <1>5, <1>6, <1>7 DEF Depth
<1>9. \A i \in 1..n : D[i - 1] = E[i - 1]
  <2>1. \A i \in 1..n : i - 1 \in 0..n
    BY <1>2
  <2>. QED
    BY <1>7, <2>1
<1>10. TopWords(d) = PickWord(TopWords(code), x, Depth(code))
  <2>1. PICK A, B : A = Picks(code) /\ B = Picks(d)
    OBVIOUS
  <2>2. /\ A[0] = <<>> /\ \A i \in 1..n : A[i] = PickWord(A[i - 1], code[i], D[i - 1])
        /\ B[0] = <<>> /\ \A i \in 1..(n + 1) : B[i] = PickWord(B[i - 1], d[i], E[i - 1])
    BY <1>2, <1>5, <2>1, PicksRun
  <2>3. Alike(A, B, n)
    BY <1>2, <1>3, <1>9, <2>2 DEF Alike
  <2>4. A[n] = B[n]
    BY <1>2, <1>4, <2>3, SameTurns
  <2>5. B[n + 1] = PickWord(B[n], x, D[n])
    BY <1>2, <1>4, <1>7, <2>2
  <2>. QED
    BY <1>2, <1>5, <2>1, <2>4, <2>5 DEF TopWords, Depth
<1>. QED
  BY <1>1, <1>8, <1>10

LEMMA LevelGrows ==
    ASSUME NEW code \in Seq(Tokens), NEW x \in Tokens
    PROVE  /\ \A j \in 0..Len(code) : Level(code, j) \in Int /\ Level(Append(code, x), j) = Level(code, j)
           /\ Deep(code) \in Int
           /\ Deep(Append(code, x)) =
                 Deep(code) + (IF x = "(" THEN 1 ELSE 0) - (IF x = ")" THEN 1 ELSE 0)
           /\ Level(code, 0) = 0
<1>1. PICK n \in Nat : n = Len(code)
  OBVIOUS
<1>2. PICK d \in Seq(Tokens) : d = Append(code, x)
  BY AppendProperties
<1>3. Len(d) = n + 1
  BY <1>1, <1>2, AppendProperties
<1>4. \A y : /\ \A j \in 0..n : Count(code, y, j) \in Nat /\ Count(d, y, j) = Count(code, y, j)
             /\ Count(d, y, n + 1) = Count(code, y, n) + (IF x = y THEN 1 ELSE 0)
             /\ Count(code, y, 0) = 0
  <2>1. TAKE y
  <2>2. /\ \A j \in 0..Len(code) : /\ Count(code, y, j) \in Nat
                                  /\ Count(Append(code, x), y, j) = Count(code, y, j)
        /\ Count(Append(code, x), y, Len(code) + 1) =
              Count(code, y, Len(code)) + (IF x = y THEN 1 ELSE 0)
        /\ Count(code, y, 0) = 0
    BY CountGrows, Zenon
  <2>. QED
    BY <1>1, <1>2, <2>2, Zenon
<1>5. PICK k \in Nat, l \in Nat : k = Count(code, "(", n) /\ l = Count(code, ")", n)
  <2>1. n \in 0..n
    OBVIOUS
  <2>. QED
    BY <1>4, <2>1
<1>6. \A j \in 0..n : Level(code, j) \in Int /\ Level(d, j) = Level(code, j)
  BY <1>4 DEF Level
<1>7. n \in 0..n
  OBVIOUS
<1>8. Deep(code) = Level(code, n) /\ Deep(d) = Level(d, n + 1)
  BY <1>1, <1>3 DEF Deep
<1>9. Level(d, n + 1) = Level(code, n) + (IF x = "(" THEN 1 ELSE 0) - (IF x = ")" THEN 1 ELSE 0)
  <2>1. /\ Count(d, "(", n + 1) = k + (IF x = "(" THEN 1 ELSE 0)
        /\ Count(d, ")", n + 1) = l + (IF x = ")" THEN 1 ELSE 0)
    BY <1>4, <1>5
  <2>2. /\ Level(d, n + 1) = (k + (IF x = "(" THEN 1 ELSE 0)) - (l + (IF x = ")" THEN 1 ELSE 0))
        /\ Level(code, n) = k - l
    BY <1>5, <2>1 DEF Level
  <2>3. CASE x = "("
    BY <2>2, <2>3
  <2>4. CASE x = ")"
    BY <2>2, <2>4
  <2>5. CASE x # "(" /\ x # ")"
    BY <2>2, <2>5
  <2>. QED
    BY <2>3, <2>4, <2>5
<1>10. Level(code, 0) = 0
  BY <1>4 DEF Level
<1>. QED
  BY <1>1, <1>2, <1>6, <1>7, <1>8, <1>9, <1>10

LEMMA NothingTurns ==
    ASSUME NEW code \in Seq(Tokens), NEW x \in Tokens, x \notin {"(", ")"}
    PROVE  Deep(Append(code, x)) = Deep(code)
<1>1. PICK k \in Int : k = Deep(code)
  BY LevelGrows
<1>2. Deep(Append(code, x)) = k + (IF x = "(" THEN 1 ELSE 0) - (IF x = ")" THEN 1 ELSE 0)
  BY <1>1, LevelGrows
<1>3. (IF x = "(" THEN 1 ELSE 0) = 0 /\ (IF x = ")" THEN 1 ELSE 0) = 0
  OBVIOUS
<1>4. k + 0 - 0 = k
  OBVIOUS
<1>. QED
  BY <1>1, <1>2, <1>3, <1>4

LEMMA ParsedGrows ==
    ASSUME NEW code \in Seq(Tokens), NEW x \in Tokens
    PROVE  /\ Parsed(code) \in ReadStates
           /\ Parsed(Append(code, x)) = ReadToken(Parsed(code), x, Deep(code))
<1>1. PICK n \in Nat : n = Len(code)
  OBVIOUS
<1>2. PICK d \in Seq(Tokens) : d = Append(code, x)
  BY AppendProperties
<1>3. Len(d) = n + 1 /\ d[n + 1] = x /\ \A i \in 1..n : d[i] = code[i]
  BY <1>1, <1>2, AppendProperties
<1>4. \A i \in 1..n : i \in 1..(n + 1) /\ i - 1 \in 0..n
  OBVIOUS
<1>5. n + 1 \in 1..(n + 1) /\ (n + 1) - 1 = n /\ n \in 0..n
  OBVIOUS
<1>6. PICK A, B : A = Reads(code) /\ B = Reads(d)
  OBVIOUS
<1>7. /\ A[0] = Unread /\ \A i \in 1..n : A[i] = ReadToken(A[i - 1], code[i], Level(code, i - 1))
      /\ A \in [0..n -> ReadStates]
  BY <1>1, <1>6, ReadsRun
<1>8. B[0] = Unread /\ \A i \in 1..(n + 1) : B[i] = ReadToken(B[i - 1], d[i], Level(d, i - 1))
  BY <1>3, <1>6, ReadsRun
<1>9. \A j \in 0..n : Level(d, j) = Level(code, j)
  BY <1>1, <1>2, LevelGrows
<1>10. Alike(A, B, n)
  BY <1>3, <1>4, <1>7, <1>8, <1>9 DEF Alike
<1>11. A[n] = B[n]
  BY <1>5, <1>10, SameTurns
<1>12. B[n + 1] = ReadToken(B[n], x, Level(code, n))
  BY <1>3, <1>5, <1>8, <1>9
<1>13. Parsed(d) = B[n + 1] /\ Parsed(code) = A[n] /\ Deep(code) = Level(code, n)
  BY <1>1, <1>3, <1>6 DEF Parsed, Deep
<1>. QED
  BY <1>2, <1>5, <1>7, <1>11, <1>12, <1>13

LEMMA CodeBegins ==
    ASSUME NEW code \in Seq(Tokens), code # <<>>
    PROVE  Len(code) \in Nat /\ Len(code) # 0 /\ 1 \in 1..Len(code) /\ Len(code) \in 1..Len(code)
<1>1. Len(code) \in Nat /\ Len(code) # 0
  BY EmptySeq
<1>. QED
  BY <1>1

LEMMA FirstOfTwo ==
    ASSUME NEW code \in Seq(Tokens), NEW x \in Tokens, NEW y \in Tokens
    PROVE  /\ Append(Append(code, x), y) # <<>>
           /\ code = <<>> => Append(Append(code, x), y)[1] = x
           /\ code # <<>> => Append(Append(code, x), y)[1] = code[1]
<1>0. PICK a, b : a = Append(code, x) /\ b = Append(a, y)
  OBVIOUS
<1>1. a \in Seq(Tokens) /\ a # <<>> /\ b # <<>> /\ \A i \in 1..Len(a) : b[i] = a[i]
  BY <1>0, AppendProperties
<1>2. b[1] = a[1]
  BY <1>1, CodeBegins
<1>3. CASE code = <<>>
  <2>1. Append(<<>>, x) = <<x>> /\ <<x>>[1] = x
    OBVIOUS
  <2>. QED
    BY <1>0, <1>1, <1>2, <1>3, <2>1, Zenon
<1>4. CASE code # <<>>
  <2>1. a[1] = code[1]
    BY <1>0, <1>4, CodeBegins, AppendProperties
  <2>. QED
    BY <1>0, <1>1, <1>2, <1>4, <2>1, Zenon
<1>. QED
  BY <1>3, <1>4

LEMMA IndexWithin ==
    ASSUME NEW m \in Nat, NEW n \in Nat, m <= n
    PROVE  \A i \in 1..m : i \in 1..n
OBVIOUS

LEMMA IndexNext == ASSUME NEW m \in Nat, NEW i \in 1..(m - 1) PROVE i \in 1..m /\ i + 1 \in 1..m
OBVIOUS

LEMMA EmptyIsNotOne == Len(<<>>) # 1
BY EmptySeq

LEMMA NothingParsed == Parsed(<<>>) = Unread /\ Deep(<<>>) = 0 /\ Depth(<<>>) = 0 /\ TopWords(<<>>) = <<>>
<1>1. <<>> \in Seq(Tokens) /\ Len(<<>>) = 0
  BY EmptySeq
<1>2. Level(<<>>, 0) = 0
  <2>1. ";" \in Tokens
    BY DEF Tokens, Marks
  <2>. QED
    BY <1>1, <2>1, LevelGrows
<1>. QED
  BY <1>1, <1>2, ReadsRun, DepthsRun, PicksRun DEF Parsed, Deep, Depth, TopWords

LEMMA NeverEmpty ==
    ASSUME NEW S, NEW f \in Seq(S), NEW e \in S
    PROVE  Append(f, e) # <<>>
BY AppendProperties

LEMMA EndedFields ==
    ASSUME NEW s, NEW t, t = [done |-> Ended(s), current |-> <<>>, taken |-> {}]
    PROVE  t.done = Ended(s) /\ t.current = <<>>
OBVIOUS

\* A semicolon outside parentheses ends the statement in progress.
LEMMA SemicolonRead ==
    ASSUME NEW s
    PROVE  ReadToken(s, ";", 0).done = Ended(s) /\ ReadToken(s, ";", 0).current = <<>>
<1>1. ReadToken(s, ";", 0) = [done |-> Ended(s), current |-> <<>>, taken |-> {}]
  BY Zenon DEF ReadToken
<1>. QED
  BY <1>1, EndedFields, Zenon

\* Another token joins the statement in progress, if none ended before.
LEMMA TokenJoins ==
    ASSUME NEW s \in ReadStates, NEW c \in Tokens, NEW level,
           ~(c = ";" /\ level = 0), ReadToken(s, c, level).done = <<>>
    PROVE  /\ ReadToken(s, c, level).done = s.done
           /\ ReadToken(s, c, level).current = Append(s.current, c)
<1>. DEFINE t == ReadToken(s, c, level)
<1>1. \/ t.done = s.done /\ t.current = Append(s.current, c)
      \/ t.done = Append(s.done, s.current)
  BY TokenRead, Zenon
<1>2. Append(s.done, s.current) # <<>>
  <2>1. s.done \in Seq(Seq(Tokens)) /\ s.current \in Seq(Tokens)
    BY Zenon DEF ReadStates
  <2>. QED
    BY <2>1, NeverEmpty, Zenon
<1>. QED
  BY <1>1, <1>2, Zenon

\* Behind a text that leaves no parenthesis open, a semicolon begins a
\* statement.
LEMMA BatchEnd ==
    ASSUME NEW code \in Seq(Tokens), Deep(code) = 0, ~CreatesModule(code), NEW x \in Tokens, x # ";"
    PROVE  ServerStatements(Append(Append(code, ";"), x)) = Append(ServerStatements(code), <<x>>)
<1>1. ";" \in Tokens
  BY DEF Tokens, Marks
<1>2. PICK a \in Seq(Tokens) : a = Append(code, ";")
  BY <1>1, AppendProperties
<1>3. PICK b \in Seq(Tokens) : b = Append(a, x)
  BY AppendProperties
<1>4. PICK s \in ReadStates : s = Parsed(code)
  BY <1>1, ParsedGrows
<1>5. PICK t \in ReadStates : t = Parsed(a)
  BY <1>1, ParsedGrows
<1>6. t.done = Ended(s) /\ t.current = <<>>
  <2>1. t = ReadToken(s, ";", 0)
    BY <1>1, <1>2, <1>4, <1>5, ParsedGrows
  <2>. QED
    BY <2>1, SemicolonRead, Zenon
<1>7. Deep(a) = 0
  BY <1>1, <1>2, NothingTurns
<1>8. Ended(t) = Ended(s)
  BY <1>6 DEF Ended
<1>9. PICK one : one = <<x>> /\ one # <<>>
  BY Single
<1>10. Parsed(b) = [done |-> Ended(s), current |-> one, taken |-> TakenFirst(x)]
  <2>1. Parsed(b) = ReadToken(t, x, 0)
    BY <1>3, <1>5, <1>7, ParsedGrows
  <2>2. ReadToken(t, x, 0) = Begun(t, x)
    BY <1>6 DEF ReadToken
  <2>. QED
    BY <1>8, <1>9, <2>1, <2>2 DEF Begun
<1>11. Ended(Parsed(b)) = Append(Ended(s), one)
  <2>1. PICK v : v = Parsed(b)
    OBVIOUS
  <2>2. v.done = Ended(s) /\ v.current = one
    BY <1>10, <2>1, ReadFields, Zenon
  <2>. QED
    BY <1>9, <2>1, <2>2 DEF Ended
<1>12. ~CreatesModule(b)
  <2>1. PICK y \in Tokens : y = ";"
    BY <1>1
  <2>2. a = Append(code, y)
    BY <1>2, <2>1
  <2>3. b # <<>> /\ (code = <<>> => b[1] = y) /\ (code # <<>> => b[1] = code[1])
    <3>1. /\ Append(Append(code, y), x) # <<>>
          /\ code = <<>> => Append(Append(code, y), x)[1] = y
          /\ code # <<>> => Append(Append(code, y), x)[1] = code[1]
      BY FirstOfTwo, Zenon
    <3>. QED
      BY <1>3, <2>2, <3>1, Zenon
  <2>. QED
    BY <2>1, <2>3 DEF CreatesModule
<1>13. ServerStatements(b) = Ended(Parsed(b)) /\ ServerStatements(code) = Ended(s)
  BY <1>4, <1>12 DEF ServerStatements, Parsed
<1>. QED
  BY <1>2, <1>3, <1>9, <1>11, <1>13, Zenon

\* Tokens that end nothing and begin nothing, in and outside of parentheses.
Quiet == Plain \ ({";", "(", ")"} \cup Beginnings)

LEMMA QuietPart == Quiet \in SUBSET Plain /\ Quiet \in SUBSET Tokens
BY DEF Quiet, Plain

\* They go to the statement in progress.
LEMMA QuietRead ==
    ASSUME NEW code \in Seq(Tokens), Parsed(code).current # <<>>, NEW e \in Seq(Quiet)
    PROVE  /\ Parsed(code \o e).done = Parsed(code).done
           /\ Parsed(code \o e).current = Parsed(code).current \o e
<1>1. PICK s \in ReadStates : s = Parsed(code)
  <2>1. ";" \in Tokens
    BY DEF Tokens, Marks
  <2>. QED
    BY <2>1, ParsedGrows
<1>2. PICK u \in Seq(Tokens) : u = s.current /\ u # <<>>
  BY <1>1 DEF ReadStates
<1>. DEFINE T == {f \in Seq(Quiet) : /\ Parsed(code \o f).done = s.done
                                     /\ Parsed(code \o f).current = u \o f
                                     /\ u \o f # <<>>}
<1>3. <<>> \in T
  <2>1. code \o <<>> = code /\ u \o <<>> = u
    BY ConcatEmptySeq
  <2>2. <<>> \in Seq(Quiet)
    BY EmptySeq
  <2>3. Parsed(code \o <<>>).done = s.done /\ Parsed(code \o <<>>).current = u \o <<>> /\ u \o <<>> # <<>>
    BY <1>1, <1>2, <2>1, Zenon
  <2>. QED
    BY <2>2, <2>3, Zenon
<1>4. ASSUME NEW f \in Seq(Quiet), f \in T, NEW x \in Quiet
      PROVE  Append(f, x) \in T
  <2>0. f \in Seq(Tokens) /\ x \in Tokens
    BY QuietPart, SeqWithin
  <2>1. PICK d \in Seq(Tokens) : d = code \o f
    BY <2>0, ConcatProperties
  <2>2. PICK r \in Seq(Tokens) : r = u \o f
    BY <2>0, ConcatProperties
  <2>3. code \o Append(f, x) = Append(d, x) /\ u \o Append(f, x) = Append(r, x)
    <3>1. code \o Append(f, x) = Append(code \o f, x)
      BY <2>0, TokenAppended
    <3>2. u \o Append(f, x) = Append(u \o f, x)
      BY <2>0, TokenAppended
    <3>. QED
      BY <2>1, <2>2, <3>1, <3>2, Zenon
  <2>4. PICK t \in ReadStates : t = Parsed(d)
    BY <2>0, ParsedGrows
  <2>5. t.done = s.done /\ t.current = r /\ r # <<>>
    BY <1>4, <2>1, <2>2, <2>4
  <2>6. PICK v : v = Parsed(Append(d, x))
    OBVIOUS
  <2>7. v.done = t.done /\ v.current = Append(t.current, x)
    <3>1. v = ReadToken(t, x, Deep(d))
      BY <2>0, <2>4, <2>6, ParsedGrows
    <3>2. x # ";" /\ x \notin Beginnings
      BY DEF Quiet
    <3>. QED
      BY <2>0, <3>1, <3>2, TokenRead
  <2>8. Append(r, x) # <<>>
    BY <2>0, AppendProperties
  <2>9. Append(f, x) \in Seq(Quiet)
    BY AppendProperties
  <2>. QED
    BY <2>3, <2>5, <2>6, <2>7, <2>8, <2>9, Zenon
<1>5. \A f \in Seq(Quiet) : f \in T
  <2>. HIDE DEF T
  <2>. QED
    BY <1>3, <1>4, BySteps
<1>. QED
  BY <1>1, <1>2, <1>5

\* Semicolons behind a text that leaves no parenthesis open end what has ended.
LEMMA SemicolonsRead ==
    ASSUME NEW code \in Seq(Tokens), NEW z \in Seq({";"})
    PROVE  /\ Deep(code \o z) = Deep(code)
           /\ Deep(code) = 0 => Ended(Parsed(code \o z)) = Ended(Parsed(code))
<1>. DEFINE T == {f \in Seq({";"}) :
                     /\ Deep(code \o f) = Deep(code)
                     /\ Deep(code) = 0 => Ended(Parsed(code \o f)) = Ended(Parsed(code))}
<1>1. <<>> \in T
  <2>1. code \o <<>> = code
    BY ConcatEmptySeq
  <2>2. <<>> \in Seq({";"})
    BY EmptySeq
  <2>3. Deep(code \o <<>>) = Deep(code) /\ Ended(Parsed(code \o <<>>)) = Ended(Parsed(code))
    BY <2>1, Zenon
  <2>. QED
    BY <2>2, <2>3, Zenon
<1>2. ASSUME NEW f \in Seq({";"}), f \in T, NEW x \in {";"} PROVE Append(f, x) \in T
  <2>1. x = ";" /\ x \in Tokens /\ f \in Seq(Tokens)
    <3>1. x = ";" /\ x \in Tokens /\ {";"} \in SUBSET Tokens
      BY DEF Tokens, Marks
    <3>. QED
      BY <3>1, SeqWithin
  <2>2. PICK d \in Seq(Tokens) : d = code \o f
    BY <2>1, ConcatProperties
  <2>3. code \o Append(f, x) = Append(d, x)
    <3>1. code \o Append(f, x) = Append(code \o f, x)
      BY <2>1, TokenAppended
    <3>. QED
      BY <2>2, <3>1, Zenon
  <2>4. PICK g \in Seq(Tokens) : g = Append(d, x)
    BY <2>1, AppendProperties
  <2>5. Deep(g) = Deep(code)
    <3>1. Deep(g) = Deep(d)
      BY <2>1, <2>4, NothingTurns
    <3>2. Deep(d) = Deep(code)
      BY <1>2, <2>2
    <3>. QED
      BY <3>1, <3>2
  <2>6. ASSUME Deep(code) = 0 PROVE Ended(Parsed(g)) = Ended(Parsed(code))
    <3>1. Ended(Parsed(d)) = Ended(Parsed(code)) /\ Deep(d) = 0
      BY <1>2, <2>2, <2>6
    <3>2. PICK s \in ReadStates : s = Parsed(d)
      BY <2>1, ParsedGrows
    <3>3. PICK t : t = Parsed(g)
      OBVIOUS
    <3>4. t = ReadToken(s, ";", 0)
      BY <2>1, <2>4, <3>1, <3>2, <3>3, ParsedGrows
    <3>5. t.done = Ended(s) /\ t.current = <<>>
      BY <2>1, <3>4, TokenRead
    <3>6. Ended(t) = Ended(s)
      BY <3>5 DEF Ended
    <3>. QED
      BY <3>1, <3>2, <3>3, <3>6
  <2>8. Append(f, x) \in Seq({";"})
    BY AppendProperties
  <2>9. g = code \o Append(f, x)
    BY <2>3, <2>4
  <2>. QED
    BY <2>5, <2>6, <2>8, <2>9, Zenon
<1>3. \A f \in Seq({";"}) : f \in T
  <2>. HIDE DEF T
  <2>. QED
    BY <1>1, <1>2, BySteps
<1>. QED
  BY <1>3

\* A text that does not end with a terminator ends in a statement.
LEMMA LastOpens ==
    ASSUME NEW code \in Seq(Tokens), code # <<>>, code[Len(code)] # ";"
    PROVE  Parsed(code).current # <<>>
<1>1. PICK f \in Seq(Tokens), x \in Tokens : code = Append(f, x) /\ x = code[Len(code)]
  <2>1. Len(code) # 0
    BY CodeBegins
  <2>. QED
    BY <2>1, FrontAndLast
<1>2. PICK s \in ReadStates, t \in ReadStates : s = Parsed(f) /\ t = Parsed(code)
  BY <1>1, ParsedGrows
<1>3. PICK u \in Seq(Tokens) : u = s.current
  BY DEF ReadStates
<1>4. t.current = Append(u, x) \/ t.current = <<x>>
  <2>1. t = ReadToken(s, x, Deep(f)) /\ x # ";"
    BY <1>1, <1>2, ParsedGrows
  <2>. QED
    BY <1>3, <2>1, TokenRead
<1>5. Append(u, x) # <<>> /\ <<x>> # <<>>
  BY AppendProperties, Single
<1>. QED
  BY <1>2, <1>4, <1>5

\* What precedes a token is not changed by what follows it.
LEMMA LevelOfPart ==
    ASSUME NEW d \in Seq(Tokens), NEW z \in Seq(Tokens)
    PROVE  /\ Len(d) \in Nat /\ Len(d) <= Len(d \o z)
           /\ \A i \in 1..Len(d) : (d \o z)[i] = d[i] /\ Level(d \o z, i) = Level(d, i)
<1>1. PICK c : c = d \o z
  OBVIOUS
<1>2. Len(c) = Len(d) + Len(z) /\ \A i \in 1..Len(d) : c[i] = d[i]
  BY <1>1, ConcatProperties
<1>3. ASSUME NEW i \in 1..Len(d) PROVE Level(c, i) = Level(d, i)
  <2>1. \A j \in 1..i : c[j] = d[j]
    BY <1>2
  <2>2. /\ {j \in 1..i : c[j] = "("} = {j \in 1..i : d[j] = "("}
        /\ {j \in 1..i : c[j] = ")"} = {j \in 1..i : d[j] = ")"}
    BY <2>1
  <2>. QED
    BY <2>2, Zenon DEF Level, Count
<1>. QED
  BY <1>1, <1>2, <1>3

\* Parentheses never close before they open.
Opened(code) == \A i \in 1..Len(code) : Level(code, i) >= 0

LEMMA OpenedPart ==
    ASSUME NEW f \in Seq(Tokens), NEW x \in Tokens, Opened(Append(f, x))
    PROVE  Opened(f) /\ Deep(Append(f, x)) >= 0
<1>1. PICK n \in Nat : n = Len(f)
  OBVIOUS
<1>2. PICK g : g = Append(f, x)
  OBVIOUS
<1>3. Len(g) = n + 1
  BY <1>1, <1>2, AppendProperties
<1>4. \A i \in 1..n : i \in 0..n /\ i \in 1..(n + 1)
  OBVIOUS
<1>5. \A i \in 0..n : Level(g, i) = Level(f, i)
  BY <1>1, <1>2, LevelGrows
<1>6. \A i \in 1..(n + 1) : Level(g, i) >= 0
  BY <1>2, <1>3 DEF Opened
<1>7. n + 1 \in 1..(n + 1)
  OBVIOUS
<1>. QED
  BY <1>1, <1>2, <1>3, <1>4, <1>5, <1>6, <1>7 DEF Opened, Deep

\* Then the plugin counts them as the server does.
LEMMA DepthIsLevel ==
    ASSUME NEW code \in Seq(Tokens), Opened(code)
    PROVE  Depth(code) = Deep(code)
<1>. DEFINE T == {f \in Seq(Tokens) : Opened(f) => Depth(f) = Deep(f)}
<1>1. <<>> \in T
  BY NothingParsed, EmptySeq
<1>2. ASSUME NEW f \in Seq(Tokens), f \in T, NEW x \in Tokens PROVE Append(f, x) \in T
  <2>1. Append(f, x) \in Seq(Tokens)
    BY AppendProperties
  <2>2. ASSUME Opened(Append(f, x)) PROVE Depth(Append(f, x)) = Deep(Append(f, x))
    <3>1. Depth(f) = Deep(f) /\ Deep(Append(f, x)) >= 0
      BY <1>2, <2>2, OpenedPart
    <3>2. Deep(f) \in Int /\ Depth(f) \in Nat
      BY LevelGrows, EndsTyped
    <3>3. Deep(Append(f, x)) = Deep(f) + (IF x = "(" THEN 1 ELSE 0) - (IF x = ")" THEN 1 ELSE 0)
      BY LevelGrows
    <3>4. Depth(Append(f, x)) = Nest(Depth(f), x)
      BY EndsGrow
    <3>. QED
      BY <3>1, <3>2, <3>3, <3>4 DEF Nest
  <2>. QED
    BY <2>1, <2>2
<1>3. \A f \in Seq(Tokens) : f \in T
  <2>. HIDE DEF T
  <2>. QED
    BY <1>1, <1>2, BySteps
<1>. QED
  BY <1>3

\* A code or a list of words in which ORDER comes last, and one that sorts.
OpenOrder(code) == code # <<>> /\ code[Len(code)] = "ORDER" /\ Deep(code) = 0
EndsInOrder(words) == words # <<>> /\ words[Len(words)] = "ORDER"
SortedBy(words) == \E i \in 1..(Len(words) - 1) : words[i] = "ORDER" /\ words[i + 1] = "BY"

LEMMA SortGrows ==
    ASSUME NEW f \in Seq(Tokens), NEW x \in Tokens
    PROVE  /\ HasSort(Append(f, x)) <=> HasSort(f) \/ (OpenOrder(f) /\ x = "BY")
           /\ OpenOrder(Append(f, x)) <=> x = "ORDER" /\ Deep(f) = 0
<1>1. PICK n \in Nat : n = Len(f)
  OBVIOUS
<1>2. PICK g \in Seq(Tokens) : g = Append(f, x)
  BY AppendProperties
<1>3. Len(g) = n + 1 /\ g[n + 1] = x /\ \A i \in 1..n : g[i] = f[i]
  BY <1>1, <1>2, AppendProperties
<1>4. \A i \in 0..n : Level(g, i) = Level(f, i)
  BY <1>1, <1>2, LevelGrows
<1>5. Deep(f) \in Int /\ Deep(g) = Deep(f) + (IF x = "(" THEN 1 ELSE 0) - (IF x = ")" THEN 1 ELSE 0)
  BY <1>2, LevelGrows
<1>6. HasSort(g) <=> \E i \in 1..n : g[i] = "ORDER" /\ g[i + 1] = "BY" /\ Level(g, i) = 0
  <2>1. Len(g) - 1 = n
    BY <1>3
  <2>. QED
    BY <2>1 DEF HasSort
<1>7. ASSUME HasSort(f) PROVE HasSort(g)
  <2>1. PICK i \in 1..(n - 1) : f[i] = "ORDER" /\ f[i + 1] = "BY" /\ Level(f, i) = 0
    BY <1>1, <1>7 DEF HasSort
  <2>2. i \in 1..n /\ i + 1 \in 1..n /\ i \in 0..n
    OBVIOUS
  <2>. QED
    BY <1>3, <1>4, <1>6, <2>1, <2>2
<1>8. ASSUME OpenOrder(f), x = "BY" PROVE HasSort(g)
  <2>1. n # 0 /\ f[n] = "ORDER" /\ Level(f, n) = 0
    BY <1>1, <1>8 DEF OpenOrder, Deep
  <2>2. n \in 1..n /\ n \in 0..n
    BY <2>1
  <2>. QED
    BY <1>3, <1>4, <1>6, <1>8, <2>1, <2>2
<1>9. ASSUME HasSort(g), ~HasSort(f) PROVE OpenOrder(f) /\ x = "BY"
  <2>1. PICK i \in 1..n : g[i] = "ORDER" /\ g[i + 1] = "BY" /\ Level(g, i) = 0
    BY <1>6, <1>9
  <2>2. i = n
    <3>1. ASSUME i # n PROVE FALSE
      <4>1. i \in 1..(n - 1) /\ i + 1 \in 1..n /\ i \in 0..n
        BY <3>1
      <4>2. f[i] = "ORDER" /\ f[i + 1] = "BY" /\ Level(f, i) = 0
        BY <1>3, <1>4, <2>1, <4>1
      <4>. QED
        BY <1>1, <1>9, <4>1, <4>2 DEF HasSort
    <3>. QED
      BY <3>1
  <2>3. n \in 1..n /\ n \in 0..n /\ f # <<>>
    BY <1>1, <2>2
  <2>. QED
    BY <1>1, <1>3, <1>4, <2>1, <2>2, <2>3 DEF OpenOrder, Deep
<1>10. OpenOrder(g) <=> x = "ORDER" /\ Deep(f) = 0
  <2>1. g # <<>>
    BY <1>3
  <2>. QED
    BY <1>3, <1>5, <2>1 DEF OpenOrder
<1>. QED
  BY <1>2, <1>7, <1>8, <1>9, <1>10

LEMMA WordsGrow ==
    ASSUME NEW w \in Seq(Words), NEW x \in Words
    PROVE  /\ SortedBy(Append(w, x)) <=> SortedBy(w) \/ (EndsInOrder(w) /\ x = "BY")
           /\ EndsInOrder(Append(w, x)) <=> x = "ORDER"
<1>1. PICK n \in Nat : n = Len(w)
  OBVIOUS
<1>2. PICK g \in Seq(Words) : g = Append(w, x)
  BY AppendProperties
<1>3. Len(g) = n + 1 /\ g[n + 1] = x /\ \A i \in 1..n : g[i] = w[i]
  BY <1>1, <1>2, AppendProperties
<1>4. SortedBy(g) <=> \E i \in 1..n : g[i] = "ORDER" /\ g[i + 1] = "BY"
  <2>1. Len(g) - 1 = n
    BY <1>3
  <2>. QED
    BY <2>1 DEF SortedBy
<1>5. ASSUME SortedBy(w) PROVE SortedBy(g)
  <2>1. PICK i \in 1..(n - 1) : w[i] = "ORDER" /\ w[i + 1] = "BY"
    BY <1>1, <1>5 DEF SortedBy
  <2>2. i \in 1..n /\ i + 1 \in 1..n
    OBVIOUS
  <2>. QED
    BY <1>3, <1>4, <2>1, <2>2
<1>6. ASSUME EndsInOrder(w), x = "BY" PROVE SortedBy(g)
  <2>1. n # 0 /\ w[n] = "ORDER"
    BY <1>1, <1>6 DEF EndsInOrder
  <2>2. n \in 1..n
    BY <2>1
  <2>. QED
    BY <1>3, <1>4, <1>6, <2>1, <2>2
<1>7. ASSUME SortedBy(g), ~SortedBy(w) PROVE EndsInOrder(w) /\ x = "BY"
  <2>1. PICK i \in 1..n : g[i] = "ORDER" /\ g[i + 1] = "BY"
    BY <1>4, <1>7
  <2>2. i = n
    <3>1. ASSUME i # n PROVE FALSE
      <4>1. i \in 1..(n - 1) /\ i + 1 \in 1..n
        BY <3>1
      <4>2. w[i] = "ORDER" /\ w[i + 1] = "BY"
        BY <1>3, <2>1, <4>1
      <4>. QED
        BY <1>1, <1>7, <4>1, <4>2 DEF SortedBy
    <3>. QED
      BY <3>1
  <2>3. n \in 1..n /\ w # <<>>
    BY <1>1, <2>2
  <2>. QED
    BY <1>1, <1>3, <2>1, <2>2, <2>3 DEF EndsInOrder
<1>8. EndsInOrder(g) <=> x = "ORDER"
  <2>1. g # <<>>
    BY <1>3
  <2>. QED
    BY <1>3, <2>1 DEF EndsInOrder
<1>. QED
  BY <1>2, <1>5, <1>6, <1>7, <1>8

\* No ORDER is without BY.
OrdersBy(code) == \A i \in 1..(Len(code) - 1) : code[i] = "ORDER" => code[i + 1] = "BY"

LEMMA OrdersPart ==
    ASSUME NEW f \in Seq(Tokens), NEW x \in Tokens, OrdersBy(Append(f, x))
    PROVE  OrdersBy(f) /\ (OpenOrder(f) => x = "BY")
<1>1. PICK n \in Nat : n = Len(f)
  OBVIOUS
<1>2. PICK g \in Seq(Tokens) : g = Append(f, x)
  BY AppendProperties
<1>3. Len(g) = n + 1 /\ g[n + 1] = x /\ \A i \in 1..n : g[i] = f[i]
  BY <1>1, <1>2, AppendProperties
<1>4. \A i \in 1..n : g[i] = "ORDER" => g[i + 1] = "BY"
  <2>1. Len(g) - 1 = n
    BY <1>3
  <2>. QED
    BY <1>2, <2>1 DEF OrdersBy
<1>5. OrdersBy(f)
  <2>1. ASSUME NEW i \in 1..(n - 1), f[i] = "ORDER" PROVE f[i + 1] = "BY"
    <3>1. i \in 1..n /\ i + 1 \in 1..n
      OBVIOUS
    <3>. QED
      BY <1>3, <1>4, <2>1, <3>1
  <2>. QED
    BY <1>1, <2>1 DEF OrdersBy
<1>6. ASSUME OpenOrder(f) PROVE x = "BY"
  <2>1. n # 0 /\ f[n] = "ORDER"
    BY <1>1, <1>6 DEF OpenOrder
  <2>2. n \in 1..n
    BY <2>1
  <2>. QED
    BY <1>3, <1>4, <2>1, <2>2
<1>. QED
  BY <1>5, <1>6

\* The plugin finds ORDER BY among the words outside parentheses just when the
\* server finds it there, in a code that the server accepts so far.
LEMMA WordsSort ==
    ASSUME NEW code \in Seq(Tokens), Opened(code), OrdersBy(code)
    PROVE  SortedBy(TopWords(code)) <=> HasSort(code)
<1>. DEFINE T == {f \in Seq(Tokens) :
                     Opened(f) /\ OrdersBy(f) =>
                         /\ SortedBy(TopWords(f)) <=> HasSort(f)
                         /\ EndsInOrder(TopWords(f)) <=> OpenOrder(f)}
<1>1. <<>> \in T
  <2>1. TopWords(<<>>) = <<>> /\ <<>> \in Seq(Tokens) /\ Len(<<>>) = 0
    BY NothingParsed, EmptySeq
  <2>2. ~SortedBy(<<>>) /\ ~HasSort(<<>>) /\ ~EndsInOrder(<<>>) /\ ~OpenOrder(<<>>)
    BY <2>1 DEF SortedBy, HasSort, EndsInOrder, OpenOrder
  <2>. QED
    BY <2>1, <2>2
<1>2. ASSUME NEW f \in Seq(Tokens), f \in T, NEW x \in Tokens PROVE Append(f, x) \in T
  <2>1. PICK g \in Seq(Tokens) : g = Append(f, x)
    BY AppendProperties
  <2>. SUFFICES ASSUME Opened(g), OrdersBy(g)
       PROVE  /\ SortedBy(TopWords(g)) <=> HasSort(g)
              /\ EndsInOrder(TopWords(g)) <=> OpenOrder(g)
    BY <2>1
  <2>2. Opened(f) /\ OrdersBy(f) /\ (OpenOrder(f) => x = "BY")
    BY <2>1, OpenedPart, OrdersPart
  <2>3. PICK w \in Seq(Words) : w = TopWords(f)
    BY EndsTyped
  <2>4. (SortedBy(w) <=> HasSort(f)) /\ (EndsInOrder(w) <=> OpenOrder(f))
    BY <1>2, <2>2, <2>3
  <2>5. Depth(f) = Deep(f)
    BY <2>2, DepthIsLevel
  <2>6. /\ HasSort(g) <=> HasSort(f) \/ (OpenOrder(f) /\ x = "BY")
        /\ OpenOrder(g) <=> x = "ORDER" /\ Deep(f) = 0
    BY <2>1, SortGrows
  <2>7. TopWords(g) = PickWord(w, x, Deep(f))
    BY <2>1, <2>3, <2>5, EndsGrow
  <2>8. CASE Deep(f) = 0 /\ x \in Words
    <3>1. TopWords(g) = Append(w, x)
      BY <2>7, <2>8 DEF PickWord
    <3>2. /\ SortedBy(TopWords(g)) <=> SortedBy(w) \/ (EndsInOrder(w) /\ x = "BY")
          /\ EndsInOrder(TopWords(g)) <=> x = "ORDER"
      BY <2>8, <3>1, WordsGrow
    <3>. QED
      BY <2>4, <2>6, <2>8, <3>2
  <2>9. CASE ~(Deep(f) = 0 /\ x \in Words)
    <3>1. TopWords(g) = w
      BY <2>7, <2>9 DEF PickWord
    <3>2. ~OpenOrder(f)
      <4>1. OpenOrder(f) => Deep(f) = 0 /\ x \in Words
        BY <2>2 DEF OpenOrder, Words
      <4>. QED
        BY <2>9, <4>1
    <3>3. ~OpenOrder(g)
      <4>1. "ORDER" \in Words
        BY DEF Words
      <4>. QED
        BY <2>6, <2>9, <4>1
    <3>. QED
      BY <2>4, <2>6, <3>1, <3>2, <3>3
  <2>. QED
    BY <2>8, <2>9
<1>3. \A f \in Seq(Tokens) : f \in T
  <2>. HIDE DEF T
  <2>. QED
    BY <1>1, <1>2, BySteps
<1>. QED
  BY <1>3

LEMMA EndedEmpty ==
    ASSUME NEW s \in ReadStates, Ended(s) = <<>>
    PROVE  s.done = <<>> /\ s.current = <<>>
<1>1. s.done \in Seq(Seq(Tokens)) /\ s.current \in Seq(Tokens)
  BY DEF ReadStates
<1>2. Append(s.done, s.current) # <<>>
  BY <1>1, AppendProperties
<1>. QED
  BY <1>2 DEF Ended

\* The first statement of a text sorts just when the text does so far.
LEMMA FirstSorts ==
    ASSUME NEW code \in Seq(Tokens), Parsed(code).done = <<>>
    PROVE  HasSort(Parsed(code).current) <=> HasSort(code)
<1>. DEFINE T == {f \in Seq(Tokens) :
                     Parsed(f).done = <<>> =>
                         /\ HasSort(Parsed(f).current) <=> HasSort(f)
                         /\ OpenOrder(Parsed(f).current) <=> OpenOrder(f)
                         /\ Deep(Parsed(f).current) = Deep(f)}
<1>1. <<>> \in T
  <2>1. <<>> \in Seq(Tokens) /\ Parsed(<<>>).current = <<>>
    BY NothingParsed, EmptySeq DEF Unread
  <2>. QED
    BY <2>1
<1>2. ASSUME NEW f \in Seq(Tokens), f \in T, NEW x \in Tokens PROVE Append(f, x) \in T
  <2>1. PICK g \in Seq(Tokens) : g = Append(f, x)
    BY AppendProperties
  <2>2. PICK s \in ReadStates, t \in ReadStates : s = Parsed(f) /\ t = Parsed(g)
    BY <2>1, ParsedGrows
  <2>. SUFFICES ASSUME t.done = <<>>
       PROVE  /\ HasSort(t.current) <=> HasSort(g)
              /\ OpenOrder(t.current) <=> OpenOrder(g)
              /\ Deep(t.current) = Deep(g)
    BY <2>1, <2>2
  <2>3. PICK c \in Seq(Tokens) : c = s.current
    BY DEF ReadStates
  <2>4. s.done \in Seq(Seq(Tokens)) /\ s.current \in Seq(Tokens)
    BY DEF ReadStates
  <2>5. t = ReadToken(s, x, Deep(f))
    BY <2>1, <2>2, ParsedGrows
  <2>6. /\ HasSort(g) <=> HasSort(f) \/ (OpenOrder(f) /\ x = "BY")
        /\ OpenOrder(g) <=> x = "ORDER" /\ Deep(f) = 0
        /\ Deep(f) \in Int
        /\ Deep(g) = Deep(f) + (IF x = "(" THEN 1 ELSE 0) - (IF x = ")" THEN 1 ELSE 0)
    BY <2>1, SortGrows, LevelGrows
  <2>7. CASE x = ";" /\ Deep(f) = 0
    <3>1. t.done = Ended(s) /\ t.current = <<>>
      BY <2>5, <2>7, SemicolonRead, Zenon
    <3>2. s.done = <<>> /\ s.current = <<>>
      BY <3>1, EndedEmpty
    <3>3. /\ HasSort(<<>>) <=> HasSort(f)
          /\ OpenOrder(<<>>) <=> OpenOrder(f)
      BY <1>2, <2>2, <3>2
    <3>4. ~OpenOrder(<<>>) /\ Deep(<<>>) = 0
      BY NothingParsed DEF OpenOrder
    <3>5. Deep(g) = Deep(f)
      BY <2>1, <2>7, NothingTurns
    <3>6. (HasSort(g) <=> HasSort(f)) /\ ~OpenOrder(g)
      BY <2>6, <2>7
    <3>7. ~OpenOrder(f)
      BY <3>3, <3>4
    <3>. QED
      BY <2>7, <3>1, <3>3, <3>4, <3>5, <3>6, <3>7
  <2>8. CASE ~(x = ";" /\ Deep(f) = 0)
    <3>1. t.done = s.done /\ t.current = Append(c, x)
      <4>1. ReadToken(s, x, Deep(f)).done = <<>>
        BY <2>5, Zenon
      <4>2. /\ ReadToken(s, x, Deep(f)).done = s.done
            /\ ReadToken(s, x, Deep(f)).current = Append(s.current, x)
        BY <2>8, <4>1, TokenJoins, Zenon
      <4>. QED
        BY <2>3, <2>5, <4>2, Zenon
    <3>2. /\ HasSort(c) <=> HasSort(f)
          /\ OpenOrder(c) <=> OpenOrder(f)
          /\ Deep(c) = Deep(f)
      BY <1>2, <2>2, <2>3, <3>1
    <3>3. /\ HasSort(Append(c, x)) <=> HasSort(c) \/ (OpenOrder(c) /\ x = "BY")
          /\ OpenOrder(Append(c, x)) <=> x = "ORDER" /\ Deep(c) = 0
          /\ Deep(Append(c, x)) = Deep(c) + (IF x = "(" THEN 1 ELSE 0) - (IF x = ")" THEN 1 ELSE 0)
      BY SortGrows, LevelGrows
    <3>. QED
      BY <2>6, <3>1, <3>2, <3>3
  <2>. QED
    BY <2>7, <2>8
<1>3. \A f \in Seq(Tokens) : f \in T
  <2>. HIDE DEF T
  <2>. QED
    BY <1>1, <1>2, BySteps
<1>. QED
  BY <1>3

\* What the server does not refuse ends where the scanner leaves all lexemes
\* but a line comment.
LEMMA EndsOutside ==
    ASSUME NEW q \in Seq(Tokens), ~EndsInside(q)
    PROVE  Closed(q)
<1>1. PICK s, u : s = Scanned(q) /\ u = Cuts(q)[Len(q)]
  OBVIOUS
<1>2. u \in CutStates /\ ReadAlike(q, Len(q), s, u)
  BY <1>1, ReadToTheEnd
<1>3. CASE u.start = Len(q) + 1 /\ Outside(s)
  BY <1>1, <1>3 DEF Outside, Closed
<1>4. CASE u.start \in 1..Len(q) /\ Inside(SubSeq(q, u.start, Len(q)), Ahead(q, Len(q)), s)
  <2>1. PICK a \in 1..Len(q) : a = u.start
    BY <1>4
  <2>2. q[a] = "--"
    BY <1>1, <2>1 DEF EndsInside
  <2>3. SubSeq(q, a, Len(q))[1] = q[a]
    BY <2>1
  <2>4. s.mode = "--"
    BY <1>4, <2>1, <2>2, <2>3 DEF Inside
  <2>. QED
    BY <1>1, <2>4 DEF Closed
<1>. QED
  BY <1>2, <1>3, <1>4 DEF ReadAlike

LEMMA WordMarks ==
    ASSUME NEW q \in Texts
    PROVE  q \in Seq(Tokens)
<1>1. Words \cup Marks \in SUBSET Tokens
  BY DEF Tokens
<1>. QED
  BY <1>1, SeqWithin DEF Texts

\* The SELECT of the affected rows is the last statement for the server.
LEMMA SentinelRead ==
    ASSUME NEW q \in Seq(Tokens), ~Refused(q), ~CreatesModule(ServerCode(q))
    PROVE  ServerStatements(ServerCode(Wrapped(q))) =
              Append(ServerStatements(ServerCode(q)), <<"sentinel">>)
<1>1. "\n" \in Tokens /\ ";" \in Tokens /\ "sentinel" \in Tokens /\ "sentinel" # ";"
  BY DEF Tokens, Marks, Added
<1>2. Wrapped(q) \in Seq(Tokens)
  <2>1. <<"\n", ";", "sentinel">> \in Seq(Tokens)
    BY <1>1, TripleIn
  <2>. QED
    BY <2>1, ConcatProperties DEF Wrapped
<1>3. ServerCode(Wrapped(q)) = Code(Wrapped(q)) /\ ServerCode(q) = Code(q)
  BY <1>2, ScannerIsServer
<1>4. Code(Wrapped(q)) = Append(Append(Code(q), ";"), "sentinel")
  BY EndsOutside, CodeOfWrapped DEF Refused
<1>5. PICK c \in Seq(Tokens), x \in Tokens : c = Code(q) /\ x = "sentinel"
  BY <1>1, CodeTyped
<1>6. Deep(c) = 0
  BY <1>3, <1>5 DEF Refused, Matched, Deep
<1>7. ServerStatements(Append(Append(c, ";"), x)) = Append(ServerStatements(c), <<x>>)
  BY <1>1, <1>3, <1>5, <1>6, BatchEnd
<1>. QED
  BY <1>3, <1>4, <1>5, <1>7, Zenon

LEMMA FourIn ==
    ASSUME NEW S, NEW x \in S, NEW y \in S, NEW z \in S
    PROVE  <<x, y, z, y>> \in Seq(S) /\ <<x, y, z, y>> # <<>>
OBVIOUS

\* The clause that is added to q.
Clause(q) == (IF HasOrderBy(q) THEN <<>> ELSE UnorderedSort) \o PageClause

LEMMA ClauseTyped ==
    ASSUME NEW q
    PROVE  /\ Clause(q) \in Seq(Quiet) /\ Clause(q) # <<>>
           /\ PageClause \in Seq(Tokens)
           /\ (IF HasOrderBy(q) THEN <<>> ELSE UnorderedSort) \in Seq(Tokens)
<1>. DEFINE S == Quiet
<1>1. {"OFFSET", "count", "ROWS", "ORDER", "BY", "(SELECT NULL)"} \in SUBSET S
  BY DEF Quiet, Plain, Tokens, Words, Added, Opens, Beginnings
<1>2. S \in SUBSET Tokens
  BY QuietPart
<1>. HIDE DEF S
<1>3. PageClause \in Seq(S) /\ PageClause # <<>>
  <2>1. "OFFSET" \in S /\ "count" \in S /\ "ROWS" \in S
    BY <1>1
  <2>. QED
    BY <2>1, FourIn DEF PageClause
<1>4. UnorderedSort \in Seq(S) /\ <<>> \in Seq(S)
  <2>1. "ORDER" \in S /\ "BY" \in S /\ "(SELECT NULL)" \in S
    BY <1>1
  <2>. QED
    BY <2>1, TripleIn, EmptySeq DEF UnorderedSort
<1>5. PICK f \in Seq(S) : f = IF HasOrderBy(q) THEN <<>> ELSE UnorderedSort
  BY <1>4
<1>6. f \o PageClause \in Seq(S) /\ f \o PageClause # <<>>
  BY <1>3, ConcatProperties, ConcatEqualIffEmpty
<1>7. f \in Seq(Tokens) /\ PageClause \in Seq(Tokens)
  BY <1>2, <1>3, SeqWithin
<1>. QED
  BY <1>5, <1>6, <1>7 DEF Clause, S

\* The only statement of a text goes on in what is added behind it.
LEMMA StatementGrows ==
    ASSUME NEW d \in Seq(Tokens), NEW z \in Seq({";"}), Deep(d) = 0, ~CreatesModule(d \o z),
           Len(ServerStatements(d \o z)) = 1, d[Len(d)] # ";",
           NEW e \in Seq(Quiet), e # <<>>
    PROVE  /\ Parsed(d).done = <<>> /\ Parsed(d).current \in Seq(Tokens)
           /\ ServerStatements(d \o z) = <<Parsed(d).current>>
           /\ ServerStatements(d \o e) = <<Parsed(d).current \o e>>
<1>1. z \in Seq(Tokens) /\ e \in Seq(Tokens)
  <2>1. {";"} \in SUBSET Tokens
    BY DEF Tokens, Marks
  <2>. QED
    BY <2>1, QuietPart, SeqWithin
<1>2. PICK s \in ReadStates : s = Parsed(d)
  <2>1. ";" \in Tokens
    BY DEF Tokens, Marks
  <2>. QED
    BY <2>1, ParsedGrows
<1>3. PICK c \in Seq(Tokens), f \in Seq(Seq(Tokens)) : c = s.current /\ f = s.done
  BY DEF ReadStates
<1>4. ServerStatements(d \o z) = Ended(s) /\ Len(Ended(s)) = 1
  <2>1. ServerStatements(d \o z) = Ended(Parsed(d \o z))
    BY DEF ServerStatements, Parsed
  <2>2. Ended(Parsed(d \o z)) = Ended(s)
    BY <1>2, SemicolonsRead
  <2>. QED
    BY <2>1, <2>2, Zenon
<1>5. d # <<>>
  <2>1. ASSUME d = <<>> PROVE FALSE
    <3>1. s = Unread
      BY <1>2, <2>1, NothingParsed
    <3>2. Ended(Unread) = <<>>
      BY DEF Ended, Unread
    <3>3. Len(<<>>) = 1
      BY <1>4, <3>1, <3>2, Zenon
    <3>. QED
      BY <3>3, EmptyIsNotOne, Zenon
  <2>. QED
    BY <2>1
<1>6. c # <<>>
  BY <1>2, <1>3, <1>5, LastOpens
<1>7. Ended(s) = Append(f, c)
  BY <1>3, <1>6 DEF Ended
<1>8. f = <<>> /\ Append(f, c) = <<c>>
  <2>1. Len(Append(f, c)) = 1
    BY <1>4, <1>7, Zenon
  <2>. QED
    BY <2>1, OnlyStatement
<1>9. PICK v \in Seq(Tokens) : v = c \o e
  BY <1>1, ConcatProperties
<1>10. PICK t : t = Parsed(d \o e)
  OBVIOUS
<1>11. t.done = <<>> /\ t.current = v /\ v # <<>>
  <2>1. t.done = s.done /\ t.current = s.current \o e
    BY <1>2, <1>3, <1>6, <1>10, QuietRead
  <2>2. c \o e # <<>>
    BY <1>1, <1>6, Longer
  <2>. QED
    BY <1>3, <1>8, <1>9, <2>1, <2>2, Zenon
<1>12. Ended(t) = <<v>>
  <2>1. Ended(t) = Append(<<>>, v)
    BY <1>11 DEF Ended
  <2>2. Append(<<>>, v) = <<v>>
    BY Single
  <2>. QED
    BY <2>1, <2>2, Zenon
<1>13. ~CreatesModule(d \o e)
  <2>1. 1 \in 1..Len(d)
    BY <1>5, CodeBegins
  <2>2. (d \o e)[1] = d[1] /\ (d \o z)[1] = d[1]
    BY <1>1, <2>1, LevelOfPart
  <2>3. d \o z # <<>>
    BY <1>1, <1>5, Longer
  <2>. QED
    BY <2>2, <2>3 DEF CreatesModule
<1>14. ServerStatements(d \o e) = Ended(t)
  BY <1>10, <1>13 DEF ServerStatements, Parsed
<1>15. /\ s.done = <<>> /\ s.current \in Seq(Tokens)
       /\ ServerStatements(d \o z) = <<s.current>>
       /\ ServerStatements(d \o e) = <<s.current \o e>>
  BY <1>3, <1>4, <1>7, <1>8, <1>9, <1>12, <1>14, Zenon
<1>. QED
  BY <1>2, <1>15, Zenon

\* What the server accepts opens parentheses before it closes them, and sorts
\* where the plugin finds ORDER BY, also without the terminators at its end.
LEMMA AcceptedSorts ==
    ASSUME NEW d \in Seq(Tokens), NEW z \in Seq({";"}), Matched(d \o z),
           \A i \in 1..Len(d \o z) :
               (d \o z)[i] = "ORDER" => i # Len(d \o z) /\ (d \o z)[i + 1] = "BY"
    PROVE  Deep(d) = 0 /\ (SortedBy(TopWords(d)) <=> HasSort(d))
<1>1. z \in Seq(Tokens)
  <2>1. {";"} \in SUBSET Tokens
    BY DEF Tokens, Marks
  <2>. QED
    BY <2>1, SeqWithin
<1>2. PICK c : c = d \o z
  OBVIOUS
<1>3. /\ Len(d) \in Nat /\ Len(d) <= Len(c)
      /\ \A i \in 1..Len(d) : c[i] = d[i] /\ Level(c, i) = Level(d, i)
  BY <1>1, <1>2, LevelOfPart
<1>4. \A i \in 1..Len(d) : i \in 1..Len(c)
  <2>1. c \in Seq(Tokens)
    BY <1>1, <1>2, ConcatProperties
  <2>2. Len(c) \in Nat
    BY <2>1, LenProperties
  <2>. QED
    BY <1>3, <2>2, IndexWithin, Zenon
<1>5. Opened(d)
  BY <1>2, <1>3, <1>4 DEF Matched, Opened
<1>6. OrdersBy(d)
  <2>1. ASSUME NEW i \in 1..(Len(d) - 1), d[i] = "ORDER" PROVE d[i + 1] = "BY"
    <3>1. i \in 1..Len(d) /\ i + 1 \in 1..Len(d)
      BY <1>3, IndexNext, Zenon
    <3>. QED
      BY <1>2, <1>3, <1>4, <2>1, <3>1
  <2>. QED
    BY <2>1 DEF OrdersBy
<1>7. Deep(d) = 0
  <2>1. Deep(c) = 0
    BY <1>2 DEF Matched, Deep
  <2>. QED
    BY <1>2, <2>1, SemicolonsRead
<1>. QED
  BY <1>5, <1>6, <1>7, WordsSort

\* The page clause ends the one statement of the text, which sorts once.
LEMMA ClauseRead ==
    ASSUME NEW q \in Seq(Tokens), ~Refused(q), ~CreatesModule(ServerCode(q)),
           Len(ServerStatements(ServerCode(q))) = 1,
           Scanned(Normalized(q)).mode = "code", Last(Code(Normalized(q))) # ";"
    PROVE  LET statement == ServerStatements(ServerCode(q))[1]
           IN  ServerStatements(ServerCode(Paginated(q))) =
                  <<statement \o (IF HasSort(statement) THEN <<>> ELSE UnorderedSort) \o PageClause>>
<1>1. PICK b \in Seq(Tokens) : b = Normalized(q)
  BY NormalizedPart
<1>2. PICK d \in Seq(Tokens) : d = Code(b)
  BY CodeTyped
<1>3. PICK z \in Seq({";"}) : Code(q) = d \o z
  <2>1. PICK t \in Seq({";", "\n"}) : q = b \o t
    BY <1>1, NormalizedPart
  <2>2. \E z \in Seq({";"}) : Code(b \o t) = Code(b) \o z
    BY <1>1, CodeOfTail
  <2>. QED
    BY <1>2, <2>1, <2>2
<1>4. ServerCode(q) = d \o z
  BY <1>3, ScannerIsServer
<1>5. Deep(d) = 0 /\ (SortedBy(TopWords(d)) <=> HasSort(d))
  <2>1. Matched(d \o z)
    BY <1>4, Zenon DEF Refused
  <2>2. \A i \in 1..Len(d \o z) :
            (d \o z)[i] = "ORDER" => i # Len(d \o z) /\ (d \o z)[i + 1] = "BY"
    BY <1>4, Zenon DEF Refused
  <2>. QED
    BY <2>1, <2>2, AcceptedSorts
<1>6. PICK e \in Seq(Quiet) : e = Clause(b) /\ e # <<>>
  BY ClauseTyped
<1>7. PICK st \in Seq(Tokens) :
         /\ st = Parsed(d).current
         /\ ServerStatements(ServerCode(q)) = <<st>>
         /\ ServerStatements(d \o e) = <<st \o e>>
         /\ HasSort(st) <=> HasSort(d)
  <2>1. ~CreatesModule(d \o z) /\ Len(ServerStatements(d \o z)) = 1 /\ d[Len(d)] # ";"
    BY <1>1, <1>2, <1>4 DEF Last
  <2>2. /\ Parsed(d).done = <<>> /\ Parsed(d).current \in Seq(Tokens)
        /\ ServerStatements(d \o z) = <<Parsed(d).current>>
        /\ ServerStatements(d \o e) = <<Parsed(d).current \o e>>
    BY <1>5, <1>6, <2>1, StatementGrows
  <2>3. HasSort(Parsed(d).current) <=> HasSort(d)
    BY <2>2, FirstSorts
  <2>. QED
    BY <1>4, <2>2, <2>3
<1>8. HasOrderBy(b) <=> HasSort(st)
  BY <1>2, <1>5, <1>7 DEF HasOrderBy, SortedBy
<1>9. PICK f \in Seq(Tokens) : f = IF HasOrderBy(b) THEN <<>> ELSE UnorderedSort
  BY ClauseTyped
<1>10. e = f \o PageClause /\ PageClause \in Seq(Tokens)
  BY <1>6, <1>9, ClauseTyped DEF Clause
<1>11. Paginated(q) = b \o e
  <2>1. PICK g \in Seq(Tokens) : g = PageClause
    BY <1>10
  <2>2. Paginated(q) = (b \o f) \o g
    BY <1>1, <1>9, <2>1, Zenon DEF Paginated
  <2>3. e = f \o g
    BY <1>10, <2>1, Zenon
  <2>4. (b \o f) \o g = b \o (f \o g)
    BY TokensAssociative
  <2>. QED
    BY <2>2, <2>3, <2>4, Zenon
<1>12. ServerCode(Paginated(q)) = d \o e
  <2>1. e \in Seq(Plain) /\ e \in Seq(Tokens)
    BY QuietPart, SeqWithin
  <2>2. Code(b \o e) = d \o e
    BY <1>1, <1>2, <2>1, CodeOfAddition
  <2>3. b \o e \in Seq(Tokens)
    BY <2>1, ConcatProperties
  <2>4. ServerCode(b \o e) = Code(b \o e)
    BY <2>3, ScannerIsServer
  <2>. QED
    BY <1>11, <2>2, <2>4, Zenon
<1>13. st \o e = (st \o f) \o PageClause
  <2>1. (st \o f) \o PageClause = st \o (f \o PageClause)
    BY <1>10, TokensAssociative
  <2>. QED
    BY <1>10, <2>1, Zenon
<1>14. f = IF HasSort(st) THEN <<>> ELSE UnorderedSort
  BY <1>8, <1>9, Zenon
<1>15. ServerStatements(ServerCode(q))[1] = st
  <2>1. <<st>>[1] = st
    OBVIOUS
  <2>. QED
    BY <1>7, <2>1, Zenon
<1>. QED
  BY <1>7, <1>12, <1>13, <1>14, <1>15, Zenon

-----------------------------------------------------------------------------
(* Texts that create modules.                                               *)

LEMMA PartGrows ==
    ASSUME NEW code \in Seq(Tokens), NEW i \in 1..Len(code)
    PROVE  /\ SubSeq(code, 1, i - 1) \in Seq(Tokens)
           /\ Append(SubSeq(code, 1, i - 1), code[i]) = SubSeq(code, 1, i)
OBVIOUS

LEMMA WholePart ==
    ASSUME NEW code \in Seq(Tokens)
    PROVE  SubSeq(code, 1, Len(code)) = code /\ SubSeq(code, 1, 0) = <<>>
OBVIOUS

Unbroken(code) == \A i \in 1..Len(code) : code[i] # ";"

LEMMA UnbrokenSplit ==
    ASSUME NEW code, Unbroken(code), NEW i \in 1..Len(code), NEW s \in SplitStates, NEW depth
    PROVE  Split(s, code[i], depth) = [s EXCEPT !.current = Append(s.current, code[i])]
BY SplitJoins, Zenon DEF Unbroken

\* A text without semicolons is one statement for the plugin.
LEMMA OneWithoutSemicolons ==
    ASSUME NEW code \in Seq(Tokens), code # <<>>, Unbroken(code)
    PROVE  Statements(code) = <<code>>
<1>. DEFINE n == Len(code)
            State(i) == [done |-> <<>>, current |-> SubSeq(code, 1, i)]
            g == [i \in 0..n |-> State(i)]
<1>1. n \in Nat /\ \A i \in 1..n : i \in 0..n /\ i - 1 \in 0..n
  OBVIOUS
<1>2. PICK f : f = Splits(code)
  OBVIOUS
<1>3. f[0] = g[0]
  <2>1. SubSeq(code, 1, 0) = <<>> /\ 0 \in 0..n
    BY <1>1
  <2>. QED
    BY <1>2, <2>1, SplitsRun DEF Unsplit
<1>4. ASSUME NEW i \in 1..n, f[i - 1] = g[i - 1] PROVE f[i] = g[i]
  <2>1. PICK s \in SplitStates : s = State(i - 1)
    <3>1. PICK p \in Seq(Tokens) : p = SubSeq(code, 1, i - 1)
      BY PartGrows
    <3>2. [done |-> <<>>, current |-> p] \in SplitStates
      BY DEF SplitStates
    <3>. QED
      BY <3>1, <3>2, Zenon
  <2>2. f[i] = Split(f[i - 1], code[i], Depths(code)[i - 1])
    BY <1>2, SplitsRun
  <2>3. f[i - 1] = s
    BY <1>1, <1>4, <2>1
  <2>5. f[i] = [s EXCEPT !.current = Append(s.current, code[i])]
    <3>1. PICK d : d = Depths(code)[i - 1]
      OBVIOUS
    <3>2. Split(s, code[i], d) = [s EXCEPT !.current = Append(s.current, code[i])]
      BY UnbrokenSplit, Zenon
    <3>. QED
      BY <2>2, <2>3, <3>1, <3>2
  <2>6. [s EXCEPT !.current = Append(s.current, code[i])] = State(i)
    <3>1. s.current = SubSeq(code, 1, i - 1)
      BY <2>1
    <3>2. PICK p : p = SubSeq(code, 1, i) /\ p = Append(s.current, code[i])
      BY <3>1, PartGrows
    <3>3. [s EXCEPT !.current = p] = [done |-> <<>>, current |-> p]
      BY <2>1
    <3>. QED
      BY <3>2, <3>3, Zenon
  <2>. QED
    BY <1>1, <2>5, <2>6
<1>5. f[n] = State(n)
  <2>1. Alike(f, g, n)
    <3>. HIDE DEF g
    <3>. QED
      BY <1>3, <1>4 DEF Alike
  <2>2. n \in 0..n
    BY <1>1
  <2>3. f[n] = g[n]
    <3>. HIDE DEF g, n
    <3>. QED
      BY <1>1, <2>1, <2>2, SameTurns
  <2>. QED
    BY <2>2, <2>3
<1>6. State(n) = [done |-> <<>>, current |-> code]
  BY WholePart
<1>7. PICK s : s = f[n] /\ s.done = <<>> /\ s.current = code
  BY <1>5, <1>6
<1>8. Append(<<>>, code) = <<code>>
  OBVIOUS
<1>. QED
  BY <1>2, <1>7, <1>8, Zenon DEF Statements, Pushed

LEMMA WordPicked ==
    ASSUME NEW w \in Seq(Words), NEW c, NEW depth, w # <<>>
    PROVE  PickWord(w, c, depth) # <<>> /\ PickWord(w, c, depth)[1] = w[1]
<1>1. CASE c \in Words
  <2>1. Append(w, c) # <<>> /\ Append(w, c)[1] = w[1]
    <3>1. 1 \in 1..Len(w)
      BY EmptySeq
    <3>. QED
      BY <1>1, <3>1, AppendProperties
  <2>. QED
    BY <2>1 DEF PickWord
<1>2. CASE c \notin Words
  BY <1>2 DEF PickWord
<1>. QED
  BY <1>1, <1>2

\* The first token, if it is a word, is the first word.
LEMMA FirstWord ==
    ASSUME NEW code \in Seq(Tokens), code # <<>>, code[1] \in Words
    PROVE  TopWords(code) # <<>> /\ TopWords(code)[1] = code[1]
<1>. DEFINE n == Len(code)
            Begins(w) == w # <<>> /\ w[1] = code[1]
            T == {k \in Nat : k < n => Begins(Picks(code)[k + 1])}
<1>1. n \in Nat /\ n # 0 /\ 1 \in 1..n
  BY CodeBegins
<1>2. 0 \in T
  <2>1. Picks(code)[1] = PickWord(<<>>, code[1], 0)
    BY <1>1, PicksRun, DepthsRun
  <2>2. PickWord(<<>>, code[1], 0) = <<code[1]>>
    BY DEF PickWord
  <2>. QED
    BY <2>1, <2>2
<1>3. ASSUME NEW k \in Nat, k \in T PROVE k + 1 \in T
  <2>. SUFFICES ASSUME k + 1 < n PROVE Begins(Picks(code)[k + 2])
    OBVIOUS
  <2>1. k + 1 \in 0..n /\ k + 2 \in 1..n /\ (k + 2) - 1 = k + 1 /\ k < n
    BY <1>1
  <2>2. PICK w \in Seq(Words) : w = Picks(code)[k + 1]
    BY <2>1, PicksRun
  <2>3. Begins(w)
    BY <1>3, <2>1, <2>2
  <2>4. Picks(code)[k + 2] = PickWord(w, code[k + 2], Depths(code)[k + 1])
    BY <2>1, <2>2, PicksRun
  <2>. QED
    BY <2>3, <2>4, WordPicked
<1>4. n - 1 \in T
  <2>1. n - 1 \in Nat
    BY <1>1
  <2>. HIDE DEF T
  <2>. QED
    BY <1>2, <1>3, <2>1, Induction
<1>5. n - 1 < n /\ (n - 1) + 1 = n
  BY <1>1
<1>. QED
  BY <1>4, <1>5 DEF TopWords

\* A text that creates a module is sent as it is, when no semicolon is in it.
LEMMA ModuleAlone ==
    ASSUME NEW q \in Asked, q \in Seq(Tokens), CreatesModule(ServerCode(q)),
           Unbroken(ServerCode(q))
    PROVE  TextFor(q) = q
<1>1. PICK code \in Seq(Tokens) : code = Code(q) /\ code = ServerCode(q)
  BY CodeTyped, ScannerIsServer
<1>2. code # <<>> /\ code[1] = "CREATE" /\ Unbroken(code)
  BY <1>1, Zenon DEF CreatesModule
<1>3. Statements(code) = <<code>>
  BY <1>2, OneWithoutSemicolons
<1>4. PICK words : words = TopWords(code)
  OBVIOUS
<1>5. words # <<>> /\ words[1] = "CREATE"
  BY <1>2, <1>4, FirstWord DEF Words
<1>6. WordsOf(q) = <<words>>
  <2>1. WordsOf(q) = [i \in 1..Len(<<code>>) |-> TopWords(<<code>>[i])]
    BY <1>1, <1>3, Zenon DEF WordsOf
  <2>2. Len(<<code>>) = 1 /\ <<code>>[1] = code
    OBVIOUS
  <2>. QED
    BY <1>4, <2>1, <2>2
<1>7. Operation(words) = "CREATE"
  <2>1. OperationAt(words) = 1
    BY <1>5, Zenon DEF OperationAt
  <2>. QED
    BY <1>5, <2>1 DEF Operation
<1>8. ~ReportsAffectedRows(q)
  <2>1. Last(<<words>>) = words
    BY DEF Last
  <2>. QED
    BY <1>6, <1>7, <2>1 DEF ReportsAffectedRows
<1>9. ~ReturnsResultSet(q)
  <2>1. ~StatementReturns(words)
    BY <1>7 DEF StatementReturns
  <2>2. \A i \in DOMAIN WordsOf(q) : WordsOf(q)[i] = words
    BY <1>6
  <2>. QED
    BY <2>1, <2>2 DEF ReturnsResultSet
<1>10. Reading[q].returns = ReturnsResultSet(q) /\ Reading[q].affects = ReportsAffectedRows(q)
  BY DEF Reading, Asked
<1>. QED
  BY <1>8, <1>9, <1>10 DEF PlanOf, TextFor
-----------------------------------------------------------------------------
(* All texts.                                                               *)

LEMMA ServedAs ==
    ASSUME NEW q \in Asked, NEW t \in {q, Wrapped(q), Paginated(q)}
    PROVE  /\ Served[t].refused = Refused(t)
           /\ Served[t].module = CreatesModule(ServerCode(t))
           /\ Served[t].statements = ServerStatements(ServerCode(t))
<1>1. t \in UNION {UNION {{u, Wrapped(u), Paginated(u)} : u \in Range(b)} : b \in Batches}
  BY DEF Asked
<1>2. Served[t] = [refused |-> Refused(t), module |-> CreatesModule(ServerCode(t)),
                   page |-> PageRead(t), statements |-> ServerStatements(ServerCode(t))]
  BY <1>1 DEF Served
<1>. QED
  BY <1>2

\* For any text that was asked for.
LEMMA TextsRead ==
    ASSUME TypeInv, Planned
    PROVE  ScannerReadsAsServer /\ AdditionsAreRead
<1>1. text \in Seq(Tokens)
  BY WordMarks DEF TypeInv
<1>2. ScannerReadsAsServer
  BY <1>1, ScannerIsServer DEF ScannerReadsAsServer
<1>3. ASSUME Sent, ~Served[text].refused, ~Served[text].module
      PROVE  SentinelIsOwnStatement /\ PageClauseApplies
  <2>1. text \in Asked /\ plan = PlanOf(text) /\ sent = TextFor(text)
    BY <1>3 DEF Sent, Planned
  <2>2. ~Refused(text) /\ ~CreatesModule(ServerCode(text))
    BY <1>3, <2>1, ServedAs
  <2>3. Served[text].statements = ServerStatements(ServerCode(text))
    BY <2>1, ServedAs
  <2>4. ASSUME plan = "dml"
        PROVE  Served[sent].statements = Append(Served[text].statements, <<"sentinel">>)
    <3>1. sent = Wrapped(text)
      BY <2>1, <2>4, PlanReads
    <3>2. Served[Wrapped(text)].statements = ServerStatements(ServerCode(Wrapped(text)))
      BY <2>1, ServedAs
    <3>3. ServerStatements(ServerCode(Wrapped(text))) =
             Append(ServerStatements(ServerCode(text)), <<"sentinel">>)
      BY <1>1, <2>2, SentinelRead
    <3>. QED
      BY <2>3, <3>1, <3>2, <3>3, Zenon
  <2>5. ASSUME plan = "page", OneStatement, Scanned(Normalized(text)).mode = "code",
               Last(Code(Normalized(text))) # ";"
        PROVE  ClauseEndsStatement
    <3>1. sent = Paginated(text)
      BY <2>1, <2>5, PlanReads
    <3>2. Served[Paginated(text)].statements = ServerStatements(ServerCode(Paginated(text)))
      BY <2>1, ServedAs
    <3>3. Len(ServerStatements(ServerCode(text))) = 1
      BY <2>3, <2>5, Zenon DEF OneStatement
    <3>4. PICK st : st = ServerStatements(ServerCode(text))[1]
      OBVIOUS
    <3>5. ServerStatements(ServerCode(Paginated(text))) =
             <<st \o (IF HasSort(st) THEN <<>> ELSE UnorderedSort) \o PageClause>>
      BY <1>1, <2>2, <2>5, <3>3, <3>4, ClauseRead
    <3>. QED
      BY <2>3, <3>1, <3>2, <3>4, <3>5, Zenon DEF ClauseEndsStatement
  <2>. QED
    BY <2>4, <2>5 DEF SentinelIsOwnStatement, PageClauseApplies
<1>4. ASSUME Sent, Served[text].module, ";" \notin Range(ServerCode(text))
      PROVE  sent = text
  <2>1. text \in Asked /\ sent = TextFor(text)
    BY <1>4 DEF Sent, Planned
  <2>2. CreatesModule(ServerCode(text))
    BY <1>4, <2>1, ServedAs
  <2>3. Unbroken(ServerCode(text))
    <3>1. ServerCode(text) \in Seq(Tokens)
      BY <1>1, CodeTyped, ScannerIsServer
    <3>2. DOMAIN ServerCode(text) = 1..Len(ServerCode(text))
      BY <3>1
    <3>. QED
      BY <1>4, <3>2, Zenon DEF Range, Unbroken
  <2>. QED
    BY <1>1, <2>1, <2>2, <2>3, ModuleAlone
<1>. QED
  BY <1>2, <1>3, <1>4, Zenon DEF AdditionsAreRead
-----------------------------------------------------------------------------
(* The theorems.                                                           *)

\* The inductive invariant.
IInv ==
    /\ TypeInv
    /\ Progress
    /\ Counting
    /\ AllReportable
    /\ OwnFaultsOnly
    /\ NothingLostUnmarked
    /\ Paging
    /\ Planned

LEMMA InitIInv == Init => IInv
<1>. SUFFICES ASSUME Init PROVE IInv
  OBVIOUS
<1>1. /\ page = 1 /\ stage = "ready" /\ plan = "none" /\ results = <<>> /\ retained = 0
      /\ outcomes = <<>> /\ seen = <<>>
  BY DEF Init
<1>2. TypeInv
  BY InitType
<1>3. Progress /\ AllReportable /\ OwnFaultsOnly /\ NothingLostUnmarked
  BY <1>1 DEF Progress, AllReportable, OwnFaultsOnly, NothingLostUnmarked
<1>4. Paging
  <2>1. ~Paged
    BY <1>1 DEF Paged
  <2>. QED
    BY <1>1, <2>1 DEF Paging, SeenInOrder, PageCounted, Request, Reached, Reported
<1>5. Counting
  <2>1. DOMAIN Counted = {}
    BY <1>1 DEF Counted
  <2>2. Places(Counted) = {}
    BY <2>1, NoPlaces
  <2>. QED
    BY <1>1, <2>2, FS_EmptySet, QueryAssumption DEF Counting, RowsIn
<1>. QED
  BY <1>2, <1>3, <1>4, <1>5, PlannedInit DEF IInv

LEMMA NextIInv == IInv /\ [Next]_vars => IInv'
<1>. SUFFICES ASSUME IInv, [Next]_vars PROVE IInv'
  OBVIOUS
<1>1. /\ TypeInv /\ Progress /\ Counting /\ AllReportable /\ OwnFaultsOnly
      /\ NothingLostUnmarked /\ Paging /\ Planned
  BY DEF IInv
<1>2. stage = "rows" => results # <<>> /\ stream # <<>>
  BY <1>1 DEF Progress, WithinSet
<1>. QED
  BY <1>1, <1>2, TypeInvNext, ProgressNext, CountingNext, ReportableNext, OwnFaultsNext, NothingLostNext,
     PagingNext, PlannedNext
     DEF IInv

\* Type correctness: requests, answers, collected sets and outcomes stay of
\* their kinds whatever the server answers and the host asks for next.
THEOREM TypeCorrect == Spec => []TypeInv
<1>1. IInv => TypeInv
  BY DEF IInv
<1>. QED
  BY <1>1, InitIInv, NextIInv, PTL DEF Spec

\* No statement makes the plugin keep more than MAX_RESULT_ROWS rows, however
\* they are spread over result sets (collect of run_query_collecting).
THEOREM CeilingKept == Spec => []Ceiling
<1>1. IInv => Ceiling
  <2>. SUFFICES ASSUME IInv PROVE Ceiling
    OBVIOUS
  <2>1. RowsIn(Counted) <= MaxRows
    BY DEF IInv, Counting
  <2>2. DOMAIN outcomes = 1..Len(outcomes)
    BY DEF IInv, TypeInv
  <2>. QED
    BY <2>1, <2>2 DEF Ceiling, IInv, AllReportable, Reportable
<1>. QED
  BY <1>1, InitIInv, NextIInv, PTL DEF Spec

\* No statement fails for what the plugin did: the stream of the statement
\* before it, or the set with the affected rows lost to the ceiling
\* (finish_result_bearing_dml and the drain policy of its plan).  Only a text
\* that the server takes for a module fails for want of that set.
THEOREM OnlyOwnFaults == Spec => []OwnFaultsOnly
<1>1. IInv => OwnFaultsOnly
  BY DEF IInv
<1>. QED
  BY <1>1, InitIInv, NextIInv, PTL DEF Spec

\* An outcome holds a prefix of every set that the server produced up to where
\* reading stopped, and all of them unless it is marked as truncated
\* (run_query_collecting with either overflow policy).
THEOREM NothingLost == Spec => []NothingLostUnmarked
<1>1. IInv => NothingLostUnmarked
  BY DEF IInv
<1>. QED
  BY <1>1, InitIInv, NextIInv, PTL DEF Spec

\* A host that follows has_more is told that there is more just as long as it
\* has fewer rows than the query, and gets those of a query that sorts in
\* order, each once: for any table, any orders in which an unsorted one is read,
\* any limit from 1 to the ceiling, and with the saturating offsets of
\* build_paginated_query.
THEOREM PagesTileTheTable == Spec => []PagesTile
<1>1. IInv => PagesTile
  <2>. SUFFICES ASSUME IInv, Paged, Sized PROVE
           /\ Served[sent].page = "sorted" => seen = Rows(1, Len(seen))
           /\ stage = "ready" /\ outcomes # <<>> /\ Last(outcomes).ok =>
                  (Last(outcomes).hasMore <=> Len(seen) < Total)
    BY DEF PagesTile, Sized
  <2>1. ASSUME Served[sent].page = "sorted" PROVE seen = Rows(1, Len(seen))
    <3>1. seen \in Seq(Nat) /\ Len(seen) \in Nat /\ \A i \in 1..Len(seen) : seen[i] = i
      BY <2>1 DEF IInv, TypeInv, Paging, SeenInOrder
    <3>2. PICK r : r = Rows(1, Len(seen))
      OBVIOUS
    <3>3. /\ r \in Seq(Nat) /\ Len(r) = (IF Len(seen) < 1 THEN 0 ELSE Len(seen) - 1 + 1)
          /\ \A i \in 1..Len(r) : r[i] = 1 + i - 1
      BY <3>1, <3>2, RowsType
    <3>4. Len(r) = Len(seen) /\ \A i \in 1..Len(seen) : r[i] = i
      <4>1. Len(r) = Len(seen)
        BY <3>1, <3>3
      <4>2. \A i \in 1..Len(seen) : 1 + i - 1 = i
        BY <3>1
      <4>. QED
        BY <3>3, <4>1, <4>2
    <3>5. seen = r
      BY <3>1, <3>3, <3>4, SeqEqual
    <3>. QED
      BY <3>2, <3>5
  <2>. QED
    BY <2>1 DEF IInv, Paging, Reported
<1>. QED
  BY <1>1, InitIInv, NextIInv, PTL DEF Spec

\* Whatever the texts are, doubled marks, nested comments and literals left
\* open included, the scanner sees the tokens that the server acts upon and no
\* others (code_mask).
THEOREM ScannerReads == Spec => []ScannerReadsAsServer
<1>1. IInv => ScannerReadsAsServer
  BY TextsRead DEF IInv
<1>. QED
  BY <1>1, InitIInv, NextIInv, PTL DEF Spec

\* In any text that the server accepts, unless it creates a module: the SELECT
\* of the affected rows is a statement of its own, behind those that the server
\* finds, with or without semicolons between them; and the page clause ends a
\* text of one statement, which sorts exactly once, if what it is added to ends
\* in neither a line comment nor a terminator (wrap_dml_with_rowcount,
\* build_paginated_query and contains_top_level_order_by).  A text that creates a
\* module is sent as it is, unless a semicolon is in it.
THEOREM AdditionsRead == Spec => []AdditionsAreRead
<1>1. IInv => AdditionsAreRead
  BY TextsRead DEF IInv
<1>. QED
  BY <1>1, InitIInv, NextIInv, PTL DEF Spec
=============================================================================
