--------------------------- MODULE RowEditsProofs ---------------------------
(***************************************************************************)
(* Of the table and of any request on it: what is shown of a cell           *)
(* identifies it, a batch of statements ends in one of the ways the plugin  *)
(* allows for, and a request edits, adds or fetches exactly what it names,  *)
(* whatever others do to the table meanwhile.                               *)
(***************************************************************************)
EXTENDS RowEdits, FiniteSetTheorems, TLAPS

\* The milliseconds shown of a datetime convert back to its ticks.
LEMMA TicksSurvive ==
    ASSUME NEW t \in Nat
    PROVE  (Milliseconds(t) * 3 + 5) \div 10 = t
<1>1. PICK m \in Int : m = (t * 10 + 1) \div 3 /\ 3 * m <= 10 * t + 1 /\ 10 * t + 1 < 3 * m + 3
  OBVIOUS
<1>2. 10 * t <= m * 3 + 5 /\ m * 3 + 5 < 10 * t + 10
  BY <1>1
<1> QED
  BY <1>1, <1>2 DEF Milliseconds

\* Integers: as numbers while doubles are exact, as strings beyond.
LEMMA IntegersSurvive ==
    ASSUME NEW n \in (-I64Max - 1)..I64Max
    PROVE  Convert(Bind(Shown(<<"bigint", n>>)), "bigint") = <<"bigint", n>>
<1> USE CellAssumption
<1>1. CASE n \in (-JsMax)..JsMax
  <2>1. Shown(<<"bigint", n>>) = <<"number", 2 * n>>
    BY <1>1 DEF Shown, Host, Extract, I64ToJson, Double
  <2>2. Bind(<<"number", 2 * n>>) = <<"bigint", n>>
    BY DEF Bind, BindNumber
  <2> QED
    BY <2>1, <2>2 DEF Convert
<1>2. CASE n \notin (-JsMax)..JsMax
  <2>1. Shown(<<"bigint", n>>) = <<"string", <<"integer", n>>>>
    BY <1>2 DEF Shown, Host, Extract, I64ToJson
  <2>2. Bind(<<"string", <<"integer", n>>>>) = <<"text", <<"integer", n>>>>
    BY DEF Bind
  <2> QED
    BY <2>1, <2>2 DEF Convert
<1> QED
  BY <1>1, <1>2

\* Floats: an integral one may come back as an integer, or be refused.
LEMMA FloatsSurvive ==
    ASSUME NEW h \in Int, Double(h) = h
    PROVE  LET back == Bind(Shown(<<"float", h>>))
           IN  back = Refused \/ Convert(back, "float") = <<"float", h>>
<1> USE CellAssumption
<1>1. Shown(<<"float", h>>) = <<"number", h>>
  BY DEF Shown, Host, Extract
<1>2. Bind(<<"number", h>>) = BindNumber(h)
  BY DEF Bind
<1>3. \/ BindNumber(h) = Refused
      \/ BindNumber(h) = <<"float", h>>
      \/ BindNumber(h) = <<"bigint", h \div 2>> /\ h % 2 # 1
  BY DEF BindNumber
<1>4. h % 2 # 1 => 2 * (h \div 2) = h
  OBVIOUS
<1> QED
  BY <1>1, <1>2, <1>3, <1>4 DEF Convert

\* A cell of any type that was shown comes back as what it was, or is refused.
LEMMA CellsSurvive ==
    ASSUME NEW t, NEW c, IsCell(t, c)
    PROVE  BindsBack(t, c)
<1> DEFINE v == c[2]
<1>0. c = <<t, v>>
  BY DEF IsCell
<1>1. CASE t = "bigint"
  BY <1>0, <1>1, IntegersSurvive DEF IsCell, BindsBack
<1>2. CASE t = "float"
  BY <1>0, <1>2, FloatsSurvive DEF IsCell, BindsBack
<1>3. CASE t = "datetime"
  <2>1. v \in Nat /\ Shown(c) = <<"string", <<"time", Milliseconds(v)>>>>
    BY <1>0, <1>3 DEF IsCell, Shown, Host, Extract
  <2>2. Bind(Shown(c)) = <<"text", <<"time", Milliseconds(v)>>>>
    BY <2>1 DEF Bind
  <2>3. Convert(Bind(Shown(c)), t) = <<"datetime", (Milliseconds(v) * 3 + 5) \div 10>>
    BY <1>3, <2>2 DEF Convert
  <2> QED
    BY <1>0, <1>3, <2>1, <2>3, TicksSurvive DEF BindsBack
<1>4. CASE t = "bit"
  <2>1. Shown(c) = <<"bool", v>>
    BY <1>0, <1>4 DEF Shown, Host, Extract
  <2>2. Bind(Shown(c)) = <<"bit", v>>
    BY <2>1 DEF Bind
  <2> QED
    BY <1>0, <1>4, <2>2 DEF BindsBack, Convert
<1>5. CASE t = "decimal"
  <2>1. Shown(c) = <<"string", <<"decimal", v>>>>
    BY <1>0, <1>5 DEF Shown, Host, Extract
  <2>2. Bind(Shown(c)) = <<"text", <<"decimal", v>>>>
    BY <2>1 DEF Bind
  <2> QED
    BY <1>0, <1>5, <2>2 DEF BindsBack, Convert
<1>6. CASE t = "binary"
  <2>1. Shown(c) = <<"string", <<"blob", <<Len(v), v>>>>>>
    BY <1>0, <1>6 DEF Shown, Host, Extract, BlobWire
  <2>2. Bind(Shown(c)) = <<"binary", v>>
    BY <2>1 DEF Bind, DecodeBlob
  <2> QED
    BY <1>0, <1>6, <2>2 DEF BindsBack, Convert
<1>7. CASE t = "text"
  <2>1. SUFFICES ASSUME v[1] # "blob" PROVE BindsBack(t, c)
    BY <1>0, <1>7 DEF BindsBack, LooksLikeBlob
  <2>2. Shown(c) = <<"string", v>>
    BY <1>0, <1>7 DEF Shown, Host, Extract
  <2>3. Bind(Shown(c)) = <<"text", v>>
    BY <2>1, <2>2 DEF Bind
  <2> QED
    BY <1>0, <1>7, <2>3 DEF BindsBack, Convert
<1> QED
  BY <1>1, <1>2, <1>3, <1>4, <1>5, <1>6, <1>7 DEF IsCell

\* No cell of any column is changed by being shown and sent back, for every
\* width of integers and every set of cells (extract_value_as,
\* value_to_sql_param).
THEOREM ShownCellsAlwaysBindBack == Spec => []ShownCellsBindBack
<1>1. ShownCellsBindBack
  BY CellsSurvive, EditAssumption DEF ShownCellsBindBack
<1>2. Init => ShownCellsBindBack
  BY <1>1
<1>3. ShownCellsBindBack /\ [Next]_vars => ShownCellsBindBack'
  BY CellsSurvive, EditAssumption DEF ShownCellsBindBack
<1> QED
  BY <1>2, <1>3, PTL DEF Spec

-----------------------------------------------------------------------------
(* What the statements of a batch do, one after the other.                  *)

\* One statement on each of the states it may find.
After(S, s) == UNION {IF st.failed THEN {st} ELSE Step(st, s) : st \in S}

\* The statements of S, of a batch of at most four, in their order.
OnlyOf(states, block, S) ==
    LET one   == IF 1 \in S THEN After(states, block[1]) ELSE states
        two   == IF 2 \in S THEN After(one, block[2]) ELSE one
        three == IF 3 \in S THEN After(two, block[3]) ELSE two
    IN  IF 4 \in S THEN After(three, block[4]) ELSE three

LEMMA Greatest ==
    ASSUME NEW S, NEW m \in S, S \subseteq 1..4, \A x \in S : m >= x
    PROVE  Max(S) = m
<1>1. Max(S) \in S /\ \A y \in S : Max(S) >= y
  BY DEF Max
<1>2. Max(S) \in 1..4 /\ m \in 1..4 /\ Max(S) >= m /\ m >= Max(S)
  BY <1>1
<1> QED
  BY <1>2

LEMMA OnlyOfUnfolds ==
    ASSUME NEW states, NEW block, NEW S \in SUBSET (1..4), S # {}
    PROVE  OnlyOf(states, block, S) =
             After(OnlyOf(states, block, S \ {Max(S)}), block[Max(S)])
<1>0. \A x \in S : x \in {1, 2, 3, 4}
  OBVIOUS
<1>1. CASE 4 \in S
  <2>1. Max(S) = 4
    <3>1. 4 \in S /\ S \subseteq 1..4 /\ \A x \in S : 4 >= x
      BY <1>0, <1>1
    <3> QED
      BY <3>1, Greatest
  <2> QED
    BY <1>1, <2>1 DEF OnlyOf
<1>2. CASE 4 \notin S /\ 3 \in S
  <2>1. Max(S) = 3
    <3>1. 3 \in S /\ S \subseteq 1..4 /\ \A x \in S : 3 >= x
      BY <1>0, <1>2
    <3> QED
      BY <3>1, Greatest
  <2> QED
    BY <1>2, <2>1 DEF OnlyOf
<1>3. CASE 4 \notin S /\ 3 \notin S /\ 2 \in S
  <2>1. Max(S) = 2
    <3>1. 2 \in S /\ S \subseteq 1..4 /\ \A x \in S : 2 >= x
      BY <1>0, <1>3
    <3> QED
      BY <3>1, Greatest
  <2> QED
    BY <1>3, <2>1 DEF OnlyOf
<1>4. CASE 4 \notin S /\ 3 \notin S /\ 2 \notin S
  <2>1. 1 \in S
    BY <1>0, <1>4
  <2>2. Max(S) = 1
    <3>1. 1 \in S /\ S \subseteq 1..4 /\ \A x \in S : 1 >= x
      BY <1>0, <1>4, <2>1
    <3> QED
      BY <3>1, Greatest
  <2> QED
    BY <1>4, <2>1, <2>2 DEF OnlyOf
<1> QED
  BY <1>1, <1>2, <1>3, <1>4

\* H[k]: the states that the first k of n statements lead to, H[n] in the end.
Traced(states, block, n, H) ==
    /\ H[0] = states
    /\ \A k \in 1..n : H[k] = After(H[k - 1], block[k])
    /\ Steps(states, block) = H[n]

\* A batch unfolds: what comes of its first k statements is what the k-th
\* makes of what came of the others.
LEMMA StepsUnfold ==
    ASSUME NEW states, NEW block, NEW n \in 0..4, DOMAIN block = 1..n
    PROVE  \E H : Traced(states, block, n, H)
<1>. DEFINE G == [S \in SUBSET DOMAIN block |-> OnlyOf(states, block, S)]
            h == CHOOSE f : f = [S \in SUBSET DOMAIN block |->
                     IF S = {} THEN states ELSE After(f[S \ {Max(S)}], block[Max(S)])]
<1>1. G = [S \in SUBSET DOMAIN block |->
             IF S = {} THEN states ELSE After(G[S \ {Max(S)}], block[Max(S)])]
  <2>1. OnlyOf(states, block, {}) = states
    BY DEF OnlyOf
  <2>2. ASSUME NEW S \in SUBSET DOMAIN block, S # {}
        PROVE  OnlyOf(states, block, S) = After(G[S \ {Max(S)}], block[Max(S)])
    <3>1. S \in SUBSET (1..4)
      OBVIOUS
    <3>2. OnlyOf(states, block, S) =
             After(OnlyOf(states, block, S \ {Max(S)}), block[Max(S)])
      BY <2>2, <3>1, OnlyOfUnfolds
    <3> QED
      BY <3>2
  <2>3. ASSUME NEW S \in SUBSET DOMAIN block
        PROVE  OnlyOf(states, block, S) =
                 IF S = {} THEN states ELSE After(G[S \ {Max(S)}], block[Max(S)])
    <3>. HIDE DEF G
    <3> QED
      BY <2>1, <2>2
  <2> QED
    BY <2>3
<1>2. h = [S \in SUBSET DOMAIN block |->
             IF S = {} THEN states ELSE After(h[S \ {Max(S)}], block[Max(S)])]
  <2>. HIDE DEF G
  <2> QED
    BY <1>1, Zenon
<1>3. Steps(states, block) = h[DOMAIN block]
  BY DEF Steps, FoldLeft, MapThenFoldSet, After
<1>. HIDE DEF h, G
<1>. DEFINE H == [k \in 0..n |-> h[1..k]]
<1>4. H[0] = states
  <2>1. 1..0 = {} /\ {} \in SUBSET DOMAIN block
    OBVIOUS
  <2> QED
    BY <1>2, <2>1
<1>5. ASSUME NEW k \in 1..n PROVE H[k] = After(H[k - 1], block[k])
  <2>1. 1..k \in SUBSET DOMAIN block /\ 1..k # {} /\ k \in 1..k
    OBVIOUS
  <2>2. 1..k \subseteq 1..4 /\ \A x \in 1..k : k >= x
    OBVIOUS
  <2>3. Max(1..k) = k
    BY <2>1, <2>2, Greatest
  <2>4. (1..k) \ {k} = 1..(k - 1)
    OBVIOUS
  <2>5. h[1..k] = After(h[1..(k - 1)], block[k])
    BY <1>2, <2>1, <2>3, <2>4
  <2>6. k \in 0..n /\ k - 1 \in 0..n
    OBVIOUS
  <2> QED
    BY <2>5, <2>6
<1> QED
  <2>1. H[n] = h[DOMAIN block]
    OBVIOUS
  <2>. HIDE DEF H
  <2> QED
    BY <1>3, <1>4, <1>5, <2>1 DEF Traced

\* A state of a batch on the server.
IsState(st) ==
    /\ st = [rows |-> st.rows, on |-> st.on, rowcount |-> st.rowcount,
             counted |-> st.counted, failed |-> st.failed, denied |-> st.denied]
    /\ st.on \in BOOLEAN /\ st.failed \in BOOLEAN /\ st.denied \in BOOLEAN

\* Whatever ran: IDENTITY_INSERT is on only for a table with the property, and
\* the table is as it was or as the DML left it.
Sound(st) ==
    /\ IsState(st)
    /\ st.on => identity # "none"
    /\ st.rows = rows \/ \E o \in BOOLEAN : st.rows \in Edited(o)

LEMMA SwitchedOn ==
    ASSUME NEW st, IsState(st), NEW e \in Step(st, "on")
    PROVE  /\ IsState(e) /\ e.rows = st.rows /\ e.counted = st.counted /\ e.denied = st.denied
           /\ identity = "none" => e.failed /\ e.on = st.on
           /\ identity # "none" => e.failed = st.failed /\ e.on
BY DEF IsState, Step

LEMMA SwitchedOff ==
    ASSUME NEW st, IsState(st), NEW e \in Step(st, "off")
    PROVE  /\ IsState(e) /\ e.rows = st.rows /\ e.counted = st.counted /\ e.denied = st.denied
           /\ identity = "none" => e.failed /\ e.on = st.on
           /\ identity # "none" => e.failed = st.failed /\ ~e.on
BY DEF IsState, Step

LEMMA CountTaken ==
    ASSUME NEW st, IsState(st), NEW e \in Step(st, "count")
    PROVE  /\ IsState(e) /\ e.rows = st.rows /\ e.counted = st.rowcount
           /\ e.failed = st.failed /\ e.on = st.on /\ e.denied = st.denied
BY DEF IsState, Step

LEMMA EditDone ==
    ASSUME NEW st, IsState(st), ~st.failed, NEW e \in Step(st, "edit")
    PROVE  /\ IsState(e) /\ e.on = st.on /\ e.counted = st.counted /\ e.denied = st.denied
           /\ IF e.failed THEN (st.denied \/ Edited(st.on) = {}) /\ e.rows = st.rows
              ELSE e.rows \in Edited(st.on) /\ e.rowcount = Touched(e.rows)
<1>1. CASE st.denied \/ Edited(st.on) = {}
  BY <1>1 DEF IsState, Step
<1>2. CASE ~(st.denied \/ Edited(st.on) = {})
  <2>1. PICK t \in Edited(st.on) : e = [st EXCEPT !.rows = t, !.rowcount = Touched(t)]
    BY <1>2 DEF Step
  <2> QED
    BY <2>1 DEF IsState
<1> QED
  BY <1>1, <1>2

\* One more statement keeps a state sound, whether it runs or not.
LEMMA AfterSound ==
    ASSUME NEW S, \A st \in S : Sound(st), NEW s \in {"on", "edit", "count", "off"}
    PROVE  \A e \in After(S, s) : Sound(e)
<1>. SUFFICES ASSUME NEW e \in After(S, s) PROVE Sound(e)
  OBVIOUS
<1>1. PICK st \in S : e \in IF st.failed THEN {st} ELSE Step(st, s)
  BY DEF After
<1>2. CASE st.failed
  BY <1>1, <1>2
<1>3. CASE ~st.failed /\ s = "on"
  BY <1>1, <1>3, SwitchedOn DEF Sound
<1>4. CASE ~st.failed /\ s = "off"
  BY <1>1, <1>4, SwitchedOff DEF Sound
<1>5. CASE ~st.failed /\ s = "count"
  BY <1>1, <1>5, CountTaken DEF Sound
<1>6. CASE ~st.failed /\ s = "edit"
  <2>1. IsState(st) /\ st.on \in BOOLEAN
    BY DEF Sound, IsState
  <2>2. /\ IsState(e) /\ e.on = st.on
        /\ IF e.failed THEN (st.denied \/ Edited(st.on) = {}) /\ e.rows = st.rows
           ELSE e.rows \in Edited(st.on) /\ e.rowcount = Touched(e.rows)
    BY <1>1, <1>6, <2>1, EditDone
  <2> QED
    BY <2>1, <2>2 DEF Sound
<1> QED
  BY <1>2, <1>3, <1>4, <1>5, <1>6

LEMMA StepsSound ==
    ASSUME NEW S, \A st \in S : Sound(st), NEW block, NEW n \in 0..4, DOMAIN block = 1..n,
           \A k \in 1..n : block[k] \in {"on", "edit", "count", "off"}
    PROVE  \A e \in Steps(S, block) : Sound(e)
<1>0. PICK H : Traced(S, block, n, H)
  BY StepsUnfold
<1>1. /\ H[0] = S
      /\ \A k \in 1..n : H[k] = After(H[k - 1], block[k])
      /\ Steps(S, block) = H[n]
  BY <1>0 DEF Traced
<1>. DEFINE P(k) == k <= n => \A e \in H[k] : Sound(e)
<1>2. P(0)
  BY <1>1
<1>3. ASSUME NEW k \in 0..3, P(k) PROVE P(k + 1)
  <2>. SUFFICES ASSUME k + 1 <= n PROVE \A e \in H[k + 1] : Sound(e)
    OBVIOUS
  <2>1. k + 1 \in 1..n /\ (k + 1) - 1 = k /\ k <= n
    OBVIOUS
  <2>2. H[k + 1] = After(H[k], block[k + 1])
    BY <1>1, <2>1
  <2>3. \A e \in H[k] : Sound(e)
    BY <1>3, <2>1
  <2>4. block[k + 1] \in {"on", "edit", "count", "off"}
    BY <2>1
  <2> QED
    BY <2>2, <2>3, <2>4, AfterSound
<1>. HIDE DEF P
<1>4. P(1) /\ P(2) /\ P(3) /\ P(4)
  <2>1. P(1)
    BY <1>2, <1>3
  <2>2. P(2)
    BY <2>1, <1>3
  <2>3. P(3)
    BY <2>2, <1>3
  <2>4. P(4)
    BY <2>3, <1>3
  <2> QED
    BY <2>1, <2>2, <2>3, <2>4
<1>5. P(n)
  <2>1. n \in {0, 1, 2, 3, 4}
    OBVIOUS
  <2> QED
    BY <1>2, <1>4, <2>1
<1> QED
  BY <1>1, <1>5 DEF P

\* What a block may lead to, for the four blocks there are.
LEMMA EmptyBlock ==
    ASSUME NEW S
    PROVE  Steps(S, <<>>) = S
<1>1. 0 \in 0..4 /\ DOMAIN <<>> = 1..0
  OBVIOUS
<1>2. PICK H : Traced(S, <<>>, 0, H)
  BY <1>1, StepsUnfold
<1> QED
  BY <1>2 DEF Traced

LEMMA CatchBlock ==
    ASSUME NEW S
    PROVE  Steps(S, <<"off">>) = After(S, "off")
<1>. DEFINE block == <<"off">>
<1>1. 1 \in 0..4 /\ DOMAIN block = 1..1
  OBVIOUS
<1>2. block[1] = "off"
  OBVIOUS
<1>. HIDE DEF block
<1>3. PICK H : Traced(S, block, 1, H)
  BY <1>1, StepsUnfold
<1>4. H[0] = S /\ H[1] = After(H[1 - 1], block[1]) /\ Steps(S, block) = H[1]
  BY <1>3 DEF Traced
<1>5. Steps(S, block) = After(S, "off")
  BY <1>2, <1>4
<1> QED
  BY <1>5 DEF block

LEMMA PlainBlock ==
    ASSUME NEW S
    PROVE  Steps(S, <<"edit", "count">>) = After(After(S, "edit"), "count")
<1>. DEFINE block == <<"edit", "count">>
<1>1. 2 \in 0..4 /\ DOMAIN block = 1..2
  OBVIOUS
<1>2. block[1] = "edit" /\ block[2] = "count"
  OBVIOUS
<1>. HIDE DEF block
<1>3. PICK H : Traced(S, block, 2, H)
  BY <1>1, StepsUnfold
<1>4. /\ H[0] = S /\ Steps(S, block) = H[2]
      /\ H[1] = After(H[1 - 1], block[1]) /\ H[2] = After(H[2 - 1], block[2])
  BY <1>3 DEF Traced
<1>5. Steps(S, block) = After(After(S, "edit"), "count")
  BY <1>2, <1>4
<1> QED
  BY <1>5 DEF block

LEMMA IdentityBlock ==
    ASSUME NEW S
    PROVE  Steps(S, <<"on", "edit", "count", "off">>) =
             After(After(After(After(S, "on"), "edit"), "count"), "off")
<1>. DEFINE block == <<"on", "edit", "count", "off">>
<1>1. 4 \in 0..4 /\ DOMAIN block = 1..4
  OBVIOUS
<1>2. block[1] = "on" /\ block[2] = "edit" /\ block[3] = "count" /\ block[4] = "off"
  OBVIOUS
<1>. HIDE DEF block
<1>3. PICK H : Traced(S, block, 4, H)
  BY <1>1, StepsUnfold
<1>4. /\ H[0] = S /\ Steps(S, block) = H[4]
      /\ H[1] = After(H[1 - 1], block[1]) /\ H[2] = After(H[2 - 1], block[2])
      /\ H[3] = After(H[3 - 1], block[3]) /\ H[4] = After(H[4 - 1], block[4])
  BY <1>3 DEF Traced
<1>5. Steps(S, block) = After(After(After(After(S, "on"), "edit"), "count"), "off")
  BY <1>2, <1>4
<1> QED
  BY <1>5 DEF block

LEMMA AfterOne ==
    ASSUME NEW S, NEW s, NEW e \in After(S, s)
    PROVE  \E st \in S : IF st.failed THEN e = st ELSE e \in Step(st, s)
BY DEF After

LEMMA CaughtOff ==
    ASSUME NEW b, ~b.failed, NEW c \in Steps({b}, <<"off">>)
    PROVE  c \in Step(b, "off")
<1>1. c \in After({b}, "off")
  BY CatchBlock
<1> QED
  BY <1>1, AfterOne

\* A state that the DML failed in, or one that it left and counted.
Fails(e, on) == e.failed /\ e.rows = rows /\ (e.denied \/ Edited(on) = {})
Succeeds(e, on) == ~e.failed /\ e.rows \in Edited(on) /\ e.counted = Touched(e.rows)

LEMMA EditThenCount ==
    ASSUME NEW S, NEW on \in BOOLEAN, NEW d \in BOOLEAN,
           \A st \in S : IsState(st) /\ ~st.failed /\ st.on = on /\ st.rows = rows /\ st.denied = d,
           NEW e \in After(After(S, "edit"), "count")
    PROVE  IsState(e) /\ e.on = on /\ e.denied = d /\ (Fails(e, on) \/ Succeeds(e, on))
<1>1. PICK m \in After(S, "edit") : IF m.failed THEN e = m ELSE e \in Step(m, "count")
  BY AfterOne
<1>2. PICK st \in S : IF st.failed THEN m = st ELSE m \in Step(st, "edit")
  BY AfterOne
<1>3. /\ IsState(st) /\ ~st.failed /\ st.on = on /\ st.rows = rows /\ st.denied = d
      /\ m \in Step(st, "edit")
  BY <1>2
<1>4. /\ IsState(m) /\ m.on = on /\ m.counted = st.counted /\ m.denied = d
      /\ IF m.failed THEN (d \/ Edited(on) = {}) /\ m.rows = rows
         ELSE m.rows \in Edited(on) /\ m.rowcount = Touched(m.rows)
  BY <1>3, EditDone
<1>5. CASE m.failed
  BY <1>1, <1>4, <1>5 DEF Fails
<1>6. CASE ~m.failed
  <2>1. /\ IsState(e) /\ e.rows = m.rows /\ e.counted = m.rowcount
        /\ e.failed = m.failed /\ e.on = m.on /\ e.denied = m.denied
    BY <1>1, <1>4, <1>6, CountTaken
  <2> QED
    BY <1>4, <1>6, <2>1 DEF Succeeds
<1> QED
  BY <1>5, <1>6

\* How a whole batch may end: with IDENTITY_INSERT off, and either failed with
\* the table as it was or with the table edited and its rows counted.
LEMMA HowItEnds ==
    ASSUME session.on = FALSE, NEW identityInsert \in BOOLEAN,
           statement.batch = Batch(identityInsert), NEW d \in BOOLEAN, NEW e \in Ends(d)
    PROVE  /\ IsState(e) /\ ~e.on
           /\ \/ e.failed /\ e.rows = rows /\ (identityInsert \/ d \/ Edited(FALSE) = {})
              \/ Succeeds(e, identityInsert)
<1>0. PICK begin : begin = Start(d)
  OBVIOUS
<1>1. /\ IsState(begin) /\ ~begin.failed /\ begin.on = FALSE /\ begin.rows = rows
      /\ begin.denied = d
  BY <1>0 DEF Start, IsState
<1>2. PICK st \in Steps({begin}, statement.batch.try) :
         IF ~st.failed THEN e = st
         ELSE \E c \in Steps({[st EXCEPT !.failed = FALSE]}, statement.batch.catch) :
                 e = [c EXCEPT !.failed = TRUE]
  BY <1>0 DEF Ends
<1>3. CASE ~identityInsert
  <2>1. statement.batch.try = <<"edit", "count">> /\ statement.batch.catch = <<>>
    BY <1>3 DEF Batch
  <2>2. st \in After(After({begin}, "edit"), "count")
    BY <2>1, PlainBlock
  <2>3. IsState(st) /\ st.on = FALSE /\ st.denied = d /\ (Fails(st, FALSE) \/ Succeeds(st, FALSE))
    BY <1>1, <2>2, EditThenCount
  <2>4. CASE ~st.failed
    BY <1>2, <1>3, <2>3, <2>4 DEF Fails
  <2>5. CASE st.failed
    <3>1. Steps({[st EXCEPT !.failed = FALSE]}, statement.batch.catch) = {[st EXCEPT !.failed = FALSE]}
      BY <2>1, EmptyBlock
    <3>2. e = [[st EXCEPT !.failed = FALSE] EXCEPT !.failed = TRUE]
      BY <1>2, <2>5, <3>1
    <3> QED
      BY <2>3, <2>5, <3>2 DEF IsState, Fails, Succeeds
  <2> QED
    BY <2>4, <2>5
<1>4. CASE identityInsert
  <2>1. statement.batch.try = <<"on", "edit", "count", "off">> /\ statement.batch.catch = <<"off">>
    BY <1>4 DEF Batch
  <2>2. st \in After(After(After(After({begin}, "on"), "edit"), "count"), "off")
    BY <2>1, IdentityBlock
  <2>3. PICK q \in After(After(After({begin}, "on"), "edit"), "count") :
           IF q.failed THEN st = q ELSE st \in Step(q, "off")
    BY <2>2, AfterOne
  <2>4. \A o \in After({begin}, "on") :
           /\ IsState(o) /\ o.rows = rows /\ o.denied = d
           /\ identity = "none" => o.failed /\ o.on = FALSE
           /\ identity # "none" => ~o.failed /\ o.on
    <3>. SUFFICES ASSUME NEW o \in After({begin}, "on")
         PROVE  /\ IsState(o) /\ o.rows = rows /\ o.denied = d
                /\ identity = "none" => o.failed /\ o.on = FALSE
                /\ identity # "none" => ~o.failed /\ o.on
      OBVIOUS
    <3>1. o \in Step(begin, "on")
      BY <1>1, AfterOne
    <3> QED
      BY <1>1, <3>1, SwitchedOn
  <2>5. CASE identity = "none"
    <3>1. PICK r \in After(After({begin}, "on"), "edit") : IF r.failed THEN q = r ELSE q \in Step(r, "count")
      BY AfterOne
    <3>2. PICK o \in After({begin}, "on") : IF o.failed THEN r = o ELSE r \in Step(o, "edit")
      BY AfterOne
    <3>3. IsState(o) /\ o.rows = rows /\ o.failed /\ o.on = FALSE
      BY <2>4, <2>5
    <3>4. st = o
      BY <2>3, <3>1, <3>2, <3>3
    <3>5. PICK c \in Steps({[o EXCEPT !.failed = FALSE]}, <<"off">>) : e = [c EXCEPT !.failed = TRUE]
      BY <1>2, <2>1, <3>3, <3>4
    <3>6. PICK b : b = [o EXCEPT !.failed = FALSE]
      OBVIOUS
    <3>7. IsState(b) /\ b.rows = rows /\ b.on = FALSE /\ ~b.failed
      BY <3>3, <3>6 DEF IsState
    <3>8. c \in Step(b, "off")
      BY <3>5, <3>6, <3>7, CaughtOff
    <3>9. IsState(c) /\ c.rows = rows /\ c.on = FALSE
      BY <2>5, <3>7, <3>8, SwitchedOff
    <3> QED
      BY <1>4, <3>5, <3>9 DEF IsState
  <2>6. CASE identity # "none"
    <3>1. \A o \in After({begin}, "on") :
             IsState(o) /\ ~o.failed /\ o.on = TRUE /\ o.rows = rows /\ o.denied = d
      BY <2>4, <2>6 DEF IsState
    <3>2. IsState(q) /\ q.on = TRUE /\ (Fails(q, TRUE) \/ Succeeds(q, TRUE))
      BY <3>1, EditThenCount
    <3>3. CASE q.failed
      <4>1. st = q /\ q.rows = rows
        BY <2>3, <3>2, <3>3 DEF Fails, Succeeds
      <4>2. PICK c \in Steps({[q EXCEPT !.failed = FALSE]}, <<"off">>) : e = [c EXCEPT !.failed = TRUE]
        BY <1>2, <2>1, <3>3, <4>1
      <4>3. PICK b : b = [q EXCEPT !.failed = FALSE]
        OBVIOUS
      <4>4. IsState(b) /\ b.rows = rows /\ ~b.failed
        BY <3>2, <4>1, <4>3 DEF IsState
      <4>5. c \in Step(b, "off")
        BY <4>2, <4>3, <4>4, CaughtOff
      <4>6. IsState(c) /\ c.rows = rows /\ ~c.on
        BY <2>6, <4>4, <4>5, SwitchedOff
      <4> QED
        BY <1>4, <4>2, <4>6 DEF IsState
    <3>4. CASE ~q.failed
      <4>1. /\ IsState(st) /\ st.rows = q.rows /\ st.counted = q.counted
            /\ st.failed = q.failed /\ ~st.on
        BY <2>3, <2>6, <3>2, <3>4, SwitchedOff
      <4>2. e = st
        BY <1>2, <3>4, <4>1
      <4> QED
        BY <1>4, <3>2, <3>4, <4>1, <4>2 DEF Fails, Succeeds
    <3> QED
      BY <3>3, <3>4
  <2> QED
    BY <2>5, <2>6
<1> QED
  BY <1>3, <1>4

\* A batch that is cut off leaves the table as it was or edited.
LEMMA WhenCut ==
    ASSUME session.on = FALSE, NEW identityInsert \in BOOLEAN,
           statement.batch = Batch(identityInsert),
           NEW n \in 0..Len(statement.batch.try),
           NEW e \in Steps({Start(FALSE)}, SubSeq(statement.batch.try, 1, n))
    PROVE  e.on \in BOOLEAN /\ (e.rows = rows \/ \E o \in BOOLEAN : e.rows \in Edited(o))
<1>. DEFINE try == statement.batch.try
<1>1. Sound(Start(FALSE))
  BY DEF Start, Sound, IsState
<1>2. /\ try \in Seq({"on", "edit", "count", "off"}) /\ Len(try) \in 0..4
      /\ \A k \in 1..Len(try) : try[k] \in {"on", "edit", "count", "off"}
  <2>1. CASE identityInsert
    <3>1. try = <<"on", "edit", "count", "off">>
      BY <2>1 DEF Batch
    <3>. HIDE DEF try
    <3>2. Len(try) = 4 /\ try[1] = "on" /\ try[2] = "edit" /\ try[3] = "count" /\ try[4] = "off"
      BY <3>1
    <3>3. \A k \in 1..4 : k \in {1, 2, 3, 4}
      OBVIOUS
    <3> QED
      BY <3>1, <3>2, <3>3
  <2>2. CASE ~identityInsert
    <3>1. try = <<"edit", "count">>
      BY <2>2 DEF Batch
    <3>. HIDE DEF try
    <3>2. Len(try) = 2 /\ try[1] = "edit" /\ try[2] = "count"
      BY <3>1
    <3>3. \A k \in 1..2 : k \in {1, 2}
      OBVIOUS
    <3> QED
      BY <3>1, <3>2, <3>3
  <2> QED
    BY <2>1, <2>2
<1>3. /\ n \in 0..4 /\ DOMAIN SubSeq(try, 1, n) = 1..n
      /\ \A k \in 1..n : SubSeq(try, 1, n)[k] \in {"on", "edit", "count", "off"}
  <2>. HIDE DEF try
  <2>1. n \in 0..Len(try)
    BY DEF try
  <2> QED
    BY <1>2, <2>1
<1>4. \A c \in Steps({Start(FALSE)}, SubSeq(try, 1, n)) : Sound(c)
  <2>1. \A st \in {Start(FALSE)} : Sound(st)
    BY <1>1
  <2>. HIDE DEF try
  <2> QED
    BY <1>3, <2>1, StepsSound
<1> QED
  BY <1>4 DEF Sound, IsState
-----------------------------------------------------------------------------
(* The columns that a request names, in the plugin's order.                 *)

Positions(P, n) == n \in Nat /\ P \in SUBSET (1..n)

LEMMA Places ==
    ASSUME NEW n, NEW P, Positions(P, n)
    PROVE  /\ IsFiniteSet(P) /\ Cardinality(P) \in Nat
           /\ \A i \in P : Place(P, i) \in 1..Cardinality(P)
           /\ \A i, j \in P : Place(P, i) = Place(P, j) => i = j
           /\ \A k \in 1..Cardinality(P) : \E i \in P : Place(P, i) = k
<1>0. n \in Nat /\ P \in SUBSET (1..n)
  BY DEF Positions
<1>1. IsFiniteSet(P) /\ Cardinality(P) \in Nat
  <2>1. IsFiniteSet(1..n)
    BY <1>0, FS_Interval
  <2> QED
    BY <1>0, <2>1, FS_Subset, FS_CardinalityType
<1>2. ASSUME NEW i \in P
      PROVE  /\ IsFiniteSet(P \cap 1..i) /\ Place(P, i) \in 1..Cardinality(P)
  <2>1. P \cap 1..i \in SUBSET P /\ i \in P \cap 1..i
    BY <1>0
  <2>2. /\ IsFiniteSet(P \cap 1..i)
        /\ Cardinality(P \cap 1..i) <= Cardinality(P)
    BY <1>1, <2>1, FS_Subset
  <2>3. Cardinality(P \cap 1..i) \in Nat /\ Cardinality(P \cap 1..i) # 0
    BY <2>1, <2>2, FS_CardinalityType, FS_EmptySet
  <2> QED
    BY <1>1, <2>2, <2>3 DEF Place
<1>3. ASSUME NEW i \in P, NEW j \in P, i < j
      PROVE  Place(P, i) # Place(P, j)
  <2>1. P \cap 1..i \in SUBSET (P \cap 1..j)
    BY <1>0, <1>3
  <2>2. j \in P \cap 1..j /\ j \notin P \cap 1..i
    BY <1>0, <1>3
  <2> QED
    BY <1>2, <2>1, <2>2, FS_Subset DEF Place
<1>4. \A i, j \in P : Place(P, i) = Place(P, j) => i = j
  <2>1. \A i, j \in P : i < j \/ j < i \/ i = j
    BY <1>0
  <2> QED
    BY <1>3, <2>1
<1>5. \A k \in 1..Cardinality(P) : \E i \in P : Place(P, i) = k
  <2>. DEFINE T == 1..Cardinality(P)
              f == [i \in P |-> Place(P, i)]
  <2>1. f \in Injection(P, T)
    BY <1>2, <1>4 DEF Injection, IsInjective
  <2>2. IsFiniteSet(T) /\ Cardinality(T) = Cardinality(P)
    <3>1. /\ IsFiniteSet(T)
          /\ Cardinality(T) = IF 1 > Cardinality(P) THEN 0 ELSE Cardinality(P) - 1 + 1
      BY <1>1, FS_Interval
    <3> QED
      BY <1>1, <3>1
  <2>3. f \in Surjection(P, T)
    <3>. HIDE DEF f, T
    <3> QED
      BY <2>1, <2>2, FS_Injection
  <2> QED
    BY <2>3 DEF Surjection
<1> QED
  BY <1>1, <1>2, <1>4, <1>5

\* What At selects: the elements at those positions, each at its place.
LEMMA Selected ==
    ASSUME NEW n, NEW P, Positions(P, n), NEW s
    PROVE  /\ Cardinality(P) \in Nat
           /\ DOMAIN At(s, P) = 1..Cardinality(P) /\ Len(At(s, P)) = Cardinality(P)
           /\ \A i \in P : Place(P, i) \in 1..Cardinality(P) /\ At(s, P)[Place(P, i)] = s[i]
           /\ \A k \in 1..Cardinality(P) : \E i \in P : Place(P, i) = k /\ At(s, P)[k] = s[i]
<1>. DEFINE a == At(s, P)
            T == {s[i] : i \in P}
<1>1. /\ IsFiniteSet(P) /\ Cardinality(P) \in Nat
      /\ \A i \in P : Place(P, i) \in 1..Cardinality(P)
      /\ \A i, j \in P : Place(P, i) = Place(P, j) => i = j
      /\ \A k \in 1..Cardinality(P) : \E i \in P : Place(P, i) = k
  BY Places
<1>2. a = [k \in 1..Cardinality(P) |-> s[CHOOSE i \in P : Place(P, i) = k]]
  BY DEF At
<1>. HIDE DEF a
<1>3. \A i \in P : (CHOOSE j \in P : Place(P, j) = Place(P, i)) = i
  BY <1>1
<1>4. \A i \in P : a[Place(P, i)] = s[i]
  BY <1>1, <1>2, <1>3
<1>5. \A k \in 1..Cardinality(P) : \E i \in P : Place(P, i) = k /\ a[k] = s[i]
  BY <1>1, <1>4
<1>6. a \in [1..Cardinality(P) -> T]
  BY <1>2, <1>5
<1>7. a \in Seq(T) /\ Len(a) = Cardinality(P)
  BY <1>1, <1>6
<1> QED
  BY <1>1, <1>4, <1>5, <1>6, <1>7 DEF a

LEMMA SortedColumns ==
    ASSUME NEW S \in SUBSET {"data", "key1", "key2"}
    PROVE  /\ DOMAIN Sorted(S) = 1..Len(Sorted(S)) /\ Len(Sorted(S)) \in 0..3
           /\ \A k \in 1..Len(Sorted(S)) : Sorted(S)[k] \in S
           /\ \A c \in S : \E k \in 1..Len(Sorted(S)) : Sorted(S)[k] = c
<1>. DEFINE P == {i \in DOMAIN Columns : Columns[i] \in S}
<1>1. /\ DOMAIN Columns = 1..3 /\ Columns[1] = "data" /\ Columns[2] = "key1"
      /\ Columns[3] = "key2"
  BY DEF Columns
<1>2. P \in SUBSET (1..3) /\ \A i \in P : Columns[i] \in S
  BY <1>1
<1>3. \A c \in S : \E i \in P : Columns[i] = c
  <2>1. \A c \in S : c = Columns[1] \/ c = Columns[2] \/ c = Columns[3]
    BY <1>1
  <2> QED
    BY <1>1, <2>1
<1>4. Sorted(S) = At(Columns, P)
  BY DEF Sorted
<1>. HIDE DEF P
<1>5. /\ Cardinality(P) \in Nat
      /\ DOMAIN At(Columns, P) = 1..Cardinality(P) /\ Len(At(Columns, P)) = Cardinality(P)
      /\ \A i \in P : Place(P, i) \in 1..Cardinality(P) /\ At(Columns, P)[Place(P, i)] = Columns[i]
      /\ \A k \in 1..Cardinality(P) : \E i \in P : At(Columns, P)[k] = Columns[i]
  <2>1. Positions(P, 3)
    BY <1>2 DEF Positions
  <2>2. ASSUME NEW s
        PROVE  /\ Cardinality(P) \in Nat
               /\ DOMAIN At(s, P) = 1..Cardinality(P) /\ Len(At(s, P)) = Cardinality(P)
               /\ \A i \in P : Place(P, i) \in 1..Cardinality(P) /\ At(s, P)[Place(P, i)] = s[i]
               /\ \A k \in 1..Cardinality(P) : \E i \in P : At(s, P)[k] = s[i]
    BY ONLY <2>1, Selected
  <2> QED
    BY ONLY <2>2
<1>6. Cardinality(P) <= 3
  <2>1. 1 \in Int /\ 3 \in Int /\ ~(1 > 3) /\ 3 - 1 + 1 = 3
    OBVIOUS
  <2>2. IsFiniteSet(1..3) /\ Cardinality(1..3) = 3
    BY <2>1, FS_Interval
  <2> QED
    BY <1>2, <2>2, FS_Subset
<1>7. DOMAIN Sorted(S) = 1..Len(Sorted(S)) /\ Len(Sorted(S)) = Cardinality(P)
  BY <1>4, <1>5
<1>8. ASSUME NEW k \in 1..Cardinality(P) PROVE Sorted(S)[k] \in S
  BY <1>2, <1>4, <1>5
<1>9. ASSUME NEW c \in S PROVE \E k \in 1..Cardinality(P) : Sorted(S)[k] = c
  <2>1. PICK i \in P : Columns[i] = c
    BY <1>3
  <2>2. Place(P, i) \in 1..Cardinality(P) /\ Sorted(S)[Place(P, i)] = c
    BY <1>4, <1>5, <2>1
  <2> QED
    BY <2>2
<1>10. Cardinality(P) \in 0..3
  BY <1>5, <1>6
<1> QED
  BY <1>7, <1>8, <1>9, <1>10

LEMMA SortedKeys == Sorted(KeyColumns) = <<"key1", "key2">>
<1>. DEFINE P == {i \in DOMAIN Columns : Columns[i] \in KeyColumns}
<1>1. P = {2, 3} /\ Columns[2] = "key1" /\ Columns[3] = "key2"
  BY DEF Columns, KeyColumns
<1>2. Cardinality({2}) = 1 /\ Cardinality({2, 3}) = 2
  <2>1. IsFiniteSet({2}) /\ Cardinality({2}) = 1
    BY FS_Singleton
  <2>2. Cardinality({2} \cup {3}) = 2
    BY <2>1, FS_AddElement
  <2>3. {2} \cup {3} = {2, 3}
    OBVIOUS
  <2> QED
    BY <2>1, <2>2, <2>3
<1>3. Place(P, 2) = 1 /\ Place(P, 3) = 2
  <2>1. P \cap 1..2 = {2} /\ P \cap 1..3 = {2, 3}
    BY <1>1
  <2> QED
    BY <1>2, <2>1 DEF Place
<1>4. P \in SUBSET (1..3) /\ 2 \in P /\ 3 \in P
  BY <1>1
<1>5. Cardinality(P) = 2
  BY <1>1, <1>2
<1>. HIDE DEF P
<1>6. /\ DOMAIN At(Columns, P) = 1..2 /\ Len(At(Columns, P)) = 2
      /\ At(Columns, P)[1] = "key1" /\ At(Columns, P)[2] = "key2"
  <2>1. Positions(P, 3)
    BY <1>4 DEF Positions
  <2>2. /\ DOMAIN At(Columns, P) = 1..Cardinality(P) /\ Len(At(Columns, P)) = Cardinality(P)
        /\ \A i \in P : At(Columns, P)[Place(P, i)] = Columns[i]
    BY <2>1, Selected
  <2> QED
    BY <1>1, <1>3, <1>4, <1>5, <2>2
<1>7. At(Columns, P) = <<"key1", "key2">>
  <2>1. At(Columns, P) = [k \in 1..2 |-> At(Columns, P)[k]]
    BY <1>6 DEF At
  <2> QED
    BY <1>6, <2>1
<1> QED
  BY <1>7 DEF Sorted, P

LEMMA SortedNone == Sorted({}) = <<>>
<1>1. /\ DOMAIN Sorted({}) = 1..Len(Sorted({})) /\ Len(Sorted({})) \in 0..3
      /\ \A k \in 1..Len(Sorted({})) : FALSE
  BY SortedColumns
<1>2. Len(Sorted({})) = 0
  BY <1>1
<1>3. Sorted({}) = [k \in 1..0 |-> Sorted({})[k]]
  BY <1>1, <1>2 DEF Sorted, At
<1> QED
  BY <1>3
-----------------------------------------------------------------------------
(* What the server makes of what was bound.                                 *)

\* A cell that was shown, is bound and is converted to its column's type.
LEMMA CellsBack ==
    ASSUME NEW t, NEW c, IsCell(t, c), ~LooksLikeBlob(c), Bind(Shown(c)) # Refused
    PROVE  /\ c[1] = t /\ c # Null
           /\ ~IsRaw(Shown(c)) /\ Bind(Shown(c))[1] # "error"
           /\ Convert(Bind(Shown(c)), t) = c
<1>1. c[1] = t /\ t \in {"bit", "bigint", "float", "decimal", "text", "binary", "datetime"}
  BY DEF IsCell
<1>2. c # Null
  BY <1>1 DEF Null
<1>3. Shown(c)[1] \in {"bool", "number", "string"}
  BY <1>1 DEF Shown, Host, Extract, I64ToJson
<1>4. Convert(Bind(Shown(c)), t) = c
  BY CellsSurvive DEF BindsBack
<1>5. Bind(Shown(c))[1] # "error"
  <2>1. SUFFICES ASSUME Bind(Shown(c))[1] = "error" PROVE FALSE
    OBVIOUS
  <2>2. Convert(Bind(Shown(c)), t) = ConversionError
    BY <1>1, <2>1 DEF Convert
  <2> QED
    BY <1>1, <1>4, <2>2 DEF ConversionError
<1> QED
  BY <1>1, <1>2, <1>3, <1>4, <1>5 DEF IsRaw

LEMMA KeysBack ==
    ASSUME NEW key \in Keys, NEW c \in KeyColumns
    PROVE  /\ key[c][1] = "bigint" /\ key[c] # Null
           /\ ~IsRaw(Shown(key[c])) /\ Bind(Shown(key[c]))[1] # "error"
           /\ Convert(Bind(Shown(key[c])), "bigint") = key[c]
<1>1. PICK n \in KeyValues : key[c] = <<"bigint", n>>
  BY DEF Keys, KeyCell
<1>2. n \in (-I64Max - 1)..I64Max
  BY EditAssumption
<1>3. Convert(Bind(Shown(key[c])), "bigint") = key[c]
  BY <1>1, <1>2, IntegersSurvive
<1>4. Shown(key[c])[1] \in {"number", "string"}
  BY <1>1 DEF Shown, Host, Extract, I64ToJson
<1>5. Bind(Shown(key[c]))[1] # "error"
  <2>1. SUFFICES ASSUME Bind(Shown(key[c]))[1] = "error" PROVE FALSE
    OBVIOUS
  <2>2. Convert(Bind(Shown(key[c])), "bigint") = ConversionError
    BY <2>1 DEF Convert
  <2> QED
    BY <1>1, <1>3, <2>2 DEF ConversionError
<1> QED
  BY <1>1, <1>3, <1>4, <1>5 DEF IsRaw, Null

-----------------------------------------------------------------------------
(* From the intent to the statement.                                        *)

\* What the host can want of a table whose data column is of type t.
Proper(i, t) ==
    /\ i.kind \in {"insert", "update", "delete", "fetch"}
    /\ i.key \in Keys /\ i.given \in SUBSET {"data", "key1", "key2"}
    /\ i.kind # "insert" => i.given \in {{}, KeyColumns}
    /\ i.how \in {"shown", "raw"}
    /\ \/ i.cell = Null \/ IsCell(t, i.cell)
       \/ i.kind = "update" /\ i.cell = <<"raw", Blank>>

LEMMA IntentsProper ==
    ASSUME type \in DOMAIN Cells, NEW i \in Intents
    PROVE  Proper(i, type)
<1>1. \A c \in DataCells : c = Null \/ IsCell(type, c)
  BY EditAssumption DEF DataCells
<1>2. Range(Columns) \subseteq {"data", "key1", "key2"} /\ KeyColumns \subseteq {"data", "key1", "key2"}
  <2>1. DOMAIN Columns = 1..3 /\ Columns[1] = "data" /\ Columns[2] = "key1" /\ Columns[3] = "key2"
    BY DEF Columns
  <2>2. \A k \in 1..3 : k \in {1, 2, 3}
    OBVIOUS
  <2> QED
    BY <2>1, <2>2 DEF Range, KeyColumns
<1>. DEFINE D == DataCells
            R == Range(Columns)
<1>. HIDE DEF D, R
<1>3. \/ i \in [kind : {"insert"}, key : Keys, cell : D, how : {"shown", "raw"},
                given : SUBSET R, limit : {NoBlobLimit}]
      \/ i \in [kind : {"update"}, key : Keys, cell : D \cup {<<"raw", Blank>>},
                how : {"shown", "raw"}, given : {{}, KeyColumns}, limit : {NoBlobLimit}]
      \/ i \in [kind : {"delete"}, key : Keys, cell : {Null}, how : {"shown"},
                given : {{}, KeyColumns}, limit : {NoBlobLimit}]
      \/ i \in [kind : {"fetch"}, key : Keys, cell : {Null}, how : {"shown"},
                given : {{}, KeyColumns}, limit : BlobLimits \cup {NoBlobLimit}]
  BY DEF Intents, D, R
<1>4. \/ i.kind = "insert" /\ i.key \in Keys /\ i.cell \in D /\ i.how \in {"shown", "raw"}
         /\ i.given \in SUBSET R
      \/ i.kind = "update" /\ i.key \in Keys /\ i.cell \in D \cup {<<"raw", Blank>>}
         /\ i.how \in {"shown", "raw"} /\ i.given \in {{}, KeyColumns}
      \/ i.kind \in {"delete", "fetch"} /\ i.key \in Keys /\ i.cell = Null /\ i.how = "shown"
         /\ i.given \in {{}, KeyColumns}
  BY <1>3
<1> QED
  BY <1>1, <1>2, <1>4 DEF Proper, D, R

LEMMA RequestIs ==
    ASSUME NEW i, NEW t, Proper(i, t)
    PROVE  /\ RequestFor(i).kind = i.kind
           /\ i.kind = "insert" =>
                RequestFor(i).data = [c \in i.given |-> IF c = "data" THEN Wire(i.cell, i.how)
                                                        ELSE Shown(i.key[c])]
           /\ i.kind # "insert" => RequestFor(i).keys = PkMap(i.key, i.given)
           /\ i.kind = "update" =>
                RequestFor(i).value = IF i.cell[1] = "raw" THEN i.cell ELSE Wire(i.cell, i.how)
           /\ i.kind = "fetch" => RequestFor(i).limit = i.limit
BY DEF Proper, RequestFor

\* The conditions on the key and what is bound for them, after the parameters
\* of prefix.
LEMMA KeysBound ==
    ASSUME NEW key \in Keys, NEW keys, keys = PkMap(key, KeyColumns), NEW p \in Nat
    PROVE  /\ WhereClause(keys, p + 1) = {<<"key1", Marker(p + 1)>>, <<"key2", Marker(p + 2)>>}
           /\ BoundKeys(keys) = <<Bind(Shown(key["key1"])), Bind(Shown(key["key2"]))>>
<1>1. DOMAIN keys = KeyColumns /\ keys["key1"] = Shown(key["key1"]) /\ keys["key2"] = Shown(key["key2"])
  BY DEF PkMap, KeyColumns
<1>. DEFINE w == Sorted(DOMAIN keys)
<1>2. w = <<"key1", "key2">>
  BY <1>1, SortedKeys
<1>. HIDE DEF w
<1>3. Len(w) = 2 /\ w[1] = "key1" /\ w[2] = "key2"
  BY <1>2
<1>4. {<<w[i], Marker(p + 1 + i - 1)>> : i \in 1..Len(w)} =
        {<<"key1", Marker(p + 1)>>, <<"key2", Marker(p + 2)>>}
  <2>1. \A i \in 1..2 : i \in {1, 2}
    OBVIOUS
  <2>2. p + 1 + 1 - 1 = p + 1 /\ p + 1 + 2 - 1 = p + 2
    OBVIOUS
  <2> QED
    BY <1>3, <2>1, <2>2
<1>5. [i \in 1..Len(w) |-> Bind(keys[w[i]])] =
        <<Bind(Shown(key["key1"])), Bind(Shown(key["key2"]))>>
  BY <1>1, <1>3
<1> QED
  BY <1>4, <1>5 DEF WhereClause, BoundKeys, w

LEMMA NoKeys ==
    ASSUME NEW key, NEW keys, keys = PkMap(key, {}), NEW p
    PROVE  WhereClause(keys, p) = {}
<1>1. DOMAIN keys = {}
  BY DEF PkMap
<1>2. Len(Sorted({})) = 0
  BY SortedNone
<1> QED
  BY <1>1, <1>2 DEF WhereClause

\* The statement finds the rows that have the key, and nothing about the key
\* is wrong.
LEMMA FindsTheKey ==
    ASSUME NEW key \in Keys, NEW p \in Nat,
           statement.where = {<<"key1", Marker(p + 1)>>, <<"key2", Marker(p + 2)>>},
           p + 1 \in DOMAIN statement.params, p + 2 \in DOMAIN statement.params,
           statement.params[p + 1] = Bind(Shown(key["key1"])),
           statement.params[p + 2] = Bind(Shown(key["key2"]))
    PROVE  /\ \A w \in statement.where : Sought(w)[1] # "error"
           /\ Hit = {r \in rows : KeyOf(r) = key}
<1>. DEFINE one == <<"key1", Marker(p + 1)>>
            two == <<"key2", Marker(p + 2)>>
<1>1. Sought(one) = key["key1"]
  <2>1. Evaluated(Marker(p + 1)) = Bind(Shown(key["key1"]))
    BY DEF Evaluated, Marker
  <2>2. TypeOf("key1") = "bigint" /\ "key1" \in KeyColumns
    BY DEF TypeOf, KeyColumns
  <2>3. one[1] = "key1" /\ one[2] = Marker(p + 1)
    OBVIOUS
  <2>. HIDE DEF one
  <2> QED
    BY <2>1, <2>2, <2>3, KeysBack DEF Sought
<1>2. Sought(two) = key["key2"]
  <2>1. Evaluated(Marker(p + 2)) = Bind(Shown(key["key2"]))
    BY DEF Evaluated, Marker
  <2>2. TypeOf("key2") = "bigint" /\ "key2" \in KeyColumns
    BY DEF TypeOf, KeyColumns
  <2>3. two[1] = "key2" /\ two[2] = Marker(p + 2)
    OBVIOUS
  <2>. HIDE DEF two
  <2> QED
    BY <2>1, <2>2, <2>3, KeysBack DEF Sought
<1>3. /\ key["key1"][1] = "bigint" /\ key["key1"] # Null
      /\ key["key2"][1] = "bigint" /\ key["key2"] # Null
  BY KeysBack DEF KeyColumns
<1>4. one[1] = "key1" /\ two[1] = "key2" /\ statement.where = {one, two}
  OBVIOUS
<1>. HIDE DEF one, two
<1>5. \A w \in statement.where : Sought(w)[1] # "error"
  BY <1>1, <1>2, <1>3, <1>4
<1>6. Hit = {r \in rows : r["key1"] = key["key1"] /\ r["key2"] = key["key2"]}
  BY <1>1, <1>2, <1>3, <1>4 DEF Hit
<1>7. \A r : KeyOf(r) = key <=> r["key1"] = key["key1"] /\ r["key2"] = key["key2"]
  <2>1. key = [c \in KeyColumns |-> key[c]]
    BY DEF Keys
  <2> QED
    BY <2>1 DEF KeyOf, KeyColumns
<1> QED
  BY <1>5, <1>6, <1>7

-----------------------------------------------------------------------------
(* The invariant.                                                           *)

IsRow(r) == r = [data |-> r["data"], key1 |-> r["key1"], key2 |-> r["key2"]]

Typed ==
    /\ type \in DOMAIN Cells /\ identity \in {"none", "key1"}
    /\ session \in [on : BOOLEAN, discard : BOOLEAN]
    /\ stage \in {"idle", "asked", "ready", "built", "answered"}

\* The table's rows are told apart by their keys.
Keyed == Unique(rows) /\ \A r \in rows : IsRow(r)

\* Until it is executed the request says what is wanted, and leaves the session
\* as a reset left it.
Faithful ==
    /\ stage # "answered" => session.on = FALSE /\ session.discard = FALSE
    /\ stage \in {"asked", "ready", "built"} =>
          Proper(intent, type) /\ request = RequestFor(intent)

\* A statement that was built says what the request says, and all that it
\* binds can be bound.
Translated ==
    stage = "built" =>
        /\ request.kind = "insert" => statement = InsertStatement(request.data)
        /\ request.kind = "update" => statement = UpdateStatement(request.keys, request.value)
        /\ request.kind = "delete" => statement = DeleteStatement(request.keys)
        /\ request.kind = "fetch" => statement = FetchStatement(request.keys, request.limit)
        /\ request.kind # "insert" => statement.where # {}
        /\ Refused \notin Range(statement.params)
        /\ <<"raw", Refused>> \notin Range(statement.expressions)

IInv == Typed /\ Keyed /\ Faithful /\ Translated /\ IdentityInsertCleared

\* What the host sends for a cell arrives in its column as that cell, whether
\* as an expression or bound, unless it is refused.
LEMMA WireArrives ==
    ASSUME NEW t, NEW cell, cell = Null \/ IsCell(t, cell),
           NEW how \in {"shown", "raw"}, ~(how = "shown" /\ LooksLikeBlob(cell))
    PROVE  LET v == Wire(cell, how)
           IN  /\ IsRaw(v) => \/ Expression(v) = Refused
                              \/ Expression(v)[1] # "error" /\ Convert(Expression(v), t) = cell
               /\ ~IsRaw(v) => \/ Bind(v) = Refused
                               \/ Bind(v)[1] # "error" /\ Convert(Bind(v), t) = cell
<1>. DEFINE v == Wire(cell, how)
<1>1. CASE cell = Null
  <2>1. v = Null /\ IsRaw(v) /\ Expression(v) = Null
    BY <1>1 DEF Wire, IsRaw, Expression, Null
  <2>2. Null[1] = "null" /\ Convert(Null, t) = Null
    BY DEF Null, Convert
  <2> QED
    BY <1>1, <2>1, <2>2
<1>2. CASE IsCell(t, cell) /\ cell # Null /\ how = "raw"
  <2>1. v = <<"raw", cell>> /\ IsRaw(v)
    BY <1>2 DEF Wire, IsRaw
  <2>2. Expression(v) = Refused \/ Expression(v) = cell
    BY <2>1 DEF Expression
  <2>3. cell[1] = t /\ t # "error" /\ Convert(cell, t) = cell
    BY <1>2 DEF IsCell, Convert
  <2> QED
    BY <2>1, <2>2, <2>3
<1>3. CASE IsCell(t, cell) /\ cell # Null /\ how = "shown"
  <2>1. v = Shown(cell)
    BY <1>3 DEF Wire
  <2>2. cell[1] = t /\ t \in {"bit", "bigint", "float", "decimal", "text", "binary", "datetime"}
    BY <1>3 DEF IsCell
  <2>3. Shown(cell)[1] \in {"bool", "number", "string"}
    BY <2>2 DEF Shown, Host, Extract, I64ToJson
  <2>4. ~IsRaw(v)
    BY <2>1, <2>3 DEF IsRaw
  <2>5. \/ Bind(v) = Refused
        \/ Bind(v)[1] # "error" /\ Convert(Bind(v), t) = cell
    BY <1>3, <2>1, CellsBack
  <2> QED
    BY <2>4, <2>5
<1> QED
  BY <1>1, <1>2, <1>3

LEMMA ParamsSplit ==
    ASSUME NEW x, NEW a, NEW b
    PROVE  /\ Len(<<>> \o <<a, b>>) = 2 /\ DOMAIN (<<>> \o <<a, b>>) = 1..2
           /\ (<<>> \o <<a, b>>)[1] = a /\ (<<>> \o <<a, b>>)[2] = b
           /\ Len(<<x>> \o <<a, b>>) = 3 /\ DOMAIN (<<x>> \o <<a, b>>) = 1..3
           /\ (<<x>> \o <<a, b>>)[1] = x
           /\ (<<x>> \o <<a, b>>)[2] = a /\ (<<x>> \o <<a, b>>)[3] = b
OBVIOUS

\* A statement for a row names its whole key.
LEMMA NamesTheKey ==
    ASSUME IInv, stage = "built", intent.kind # "insert"
    PROVE  /\ intent.key \in Keys /\ request.kind = intent.kind
           /\ request.keys = PkMap(intent.key, KeyColumns)
<1>1. Proper(intent, type) /\ request = RequestFor(intent)
  BY DEF IInv, Faithful
<1>2. /\ intent.key \in Keys /\ request.kind = intent.kind
      /\ request.keys = PkMap(intent.key, intent.given)
      /\ intent.given \in {{}, KeyColumns}
  BY <1>1, RequestIs DEF Proper
<1>3. ASSUME intent.given = {} PROVE statement.where = {}
  <2>1. \A p : WhereClause(request.keys, p) = {}
    BY <1>2, <1>3, NoKeys
  <2>2. \/ statement = UpdateStatement(request.keys, request.value)
        \/ statement = DeleteStatement(request.keys)
        \/ statement = FetchStatement(request.keys, request.limit)
    BY <1>1, <1>2 DEF IInv, Translated, Proper
  <2>3. CASE statement = UpdateStatement(request.keys, request.value)
    BY <2>1, <2>3 DEF UpdateStatement
  <2>4. CASE statement = DeleteStatement(request.keys)
    BY <2>1, <2>4 DEF DeleteStatement
  <2>5. CASE statement = FetchStatement(request.keys, request.limit)
    BY <2>1, <2>5 DEF FetchStatement
  <2> QED
    BY <2>2, <2>3, <2>4, <2>5
<1>4. statement.where # {}
  BY <1>2 DEF IInv, Translated
<1> QED
  BY <1>2, <1>3, <1>4

\* The target of the intent is the row that the statement finds.
LEMMA DeleteFinds ==
    ASSUME IInv, stage = "built", intent.kind = "delete"
    PROVE  /\ Hit = Target /\ Wrong = {} /\ statement.batch = Batch(FALSE)
           /\ \A o : Edited(o) = {rows \ Target}
<1>1. /\ intent.key \in Keys /\ request.kind = "delete"
      /\ request.keys = PkMap(intent.key, KeyColumns)
  BY NamesTheKey
<1>2. statement = DeleteStatement(request.keys)
  BY <1>1 DEF IInv, Translated
<1>. DEFINE a == Bind(Shown(intent.key["key1"]))
            b == Bind(Shown(intent.key["key2"]))
<1>3. /\ WhereClause(request.keys, 0 + 1) = {<<"key1", Marker(0 + 1)>>, <<"key2", Marker(0 + 2)>>}
      /\ BoundKeys(request.keys) = <<a, b>>
  <2>1. 0 \in Nat
    OBVIOUS
  <2> QED
    BY <1>1, <2>1, KeysBound
<1>4. /\ statement.where = {<<"key1", Marker(0 + 1)>>, <<"key2", Marker(0 + 2)>>}
      /\ statement.params = <<a, b>> /\ statement.expressions = <<>>
      /\ statement.batch = Batch(FALSE)
  BY <1>2, <1>3 DEF DeleteStatement
<1>. HIDE DEF a, b
<1>5. /\ 0 + 1 \in DOMAIN statement.params /\ 0 + 2 \in DOMAIN statement.params
      /\ statement.params[0 + 1] = a /\ statement.params[0 + 2] = b
  BY <1>4
<1>6. /\ \A w \in statement.where : Sought(w)[1] # "error"
      /\ Hit = {r \in rows : KeyOf(r) = intent.key}
  <2>1. 0 \in Nat
    OBVIOUS
  <2> QED
    BY <1>1, <1>4, <1>5, <2>1, FindsTheKey DEF a, b
<1>7. Wrong = {}
  <2>1. DOMAIN statement.expressions = {}
    BY <1>4
  <2> QED
    BY <1>6, <2>1 DEF Wrong
<1>8. Hit = Target
  BY <1>6 DEF Target
<1> QED
  BY <1>1, <1>4, <1>7, <1>8 DEF Edited

LEMMA FetchFinds ==
    ASSUME IInv, stage = "built", intent.kind = "fetch"
    PROVE  /\ Hit = Target /\ Wrong = {} /\ request.limit = intent.limit
<1>1. /\ intent.key \in Keys /\ request.kind = "fetch"
      /\ request.keys = PkMap(intent.key, KeyColumns)
  BY NamesTheKey
<1>2. request.limit = intent.limit
  BY <1>1, RequestIs DEF IInv, Faithful
<1>3. statement = FetchStatement(request.keys, request.limit)
  BY <1>1 DEF IInv, Translated
<1>. DEFINE a == Bind(Shown(intent.key["key1"]))
            b == Bind(Shown(intent.key["key2"]))
            prefix == IF request.limit = NoBlobLimit THEN <<>> ELSE <<<<"bigint", request.limit>>>>
            p == Len(prefix)
<1>4. p \in Nat /\ \/ p = 0 /\ prefix = <<>>
                   \/ p = 1 /\ \E x : prefix = <<x>>
  OBVIOUS
<1>5. /\ statement.where = WhereClause(request.keys, p + 1)
      /\ statement.params = prefix \o BoundKeys(request.keys) /\ statement.expressions = <<>>
  BY <1>3 DEF FetchStatement
<1>. HIDE DEF prefix, p
<1>6. /\ statement.where = {<<"key1", Marker(p + 1)>>, <<"key2", Marker(p + 2)>>}
      /\ statement.params = prefix \o <<a, b>>
  BY <1>1, <1>4, <1>5, KeysBound
<1>. HIDE DEF a, b
<1>7. /\ p + 1 \in DOMAIN statement.params /\ p + 2 \in DOMAIN statement.params
      /\ statement.params[p + 1] = a /\ statement.params[p + 2] = b
  <2>1. CASE p = 0 /\ prefix = <<>>
    BY <1>6, <2>1, ParamsSplit
  <2>2. CASE p = 1 /\ \E x : prefix = <<x>>
    <3>1. PICK x : prefix = <<x>>
      BY <2>2
    <3> QED
      BY <1>6, <2>2, <3>1, ParamsSplit
  <2> QED
    BY <1>4, <2>1, <2>2
<1>8. /\ \A w \in statement.where : Sought(w)[1] # "error"
      /\ Hit = {r \in rows : KeyOf(r) = intent.key}
  BY <1>1, <1>4, <1>6, <1>7, FindsTheKey DEF a, b
<1>9. Wrong = {}
  <2>1. DOMAIN statement.expressions = {}
    BY <1>5
  <2> QED
    BY <1>8, <2>1 DEF Wrong
<1> QED
  BY <1>2, <1>8, <1>9 DEF Target

LEMMA UpdateFinds ==
    ASSUME IInv, stage = "built", intent.kind = "update", ~Misread
    PROVE  /\ Hit = Target /\ Wrong = {} /\ statement.batch = Batch(FALSE)
           /\ \A o : Edited(o) = {(rows \ Target) \cup
                                    {[r EXCEPT !["data"] = intent.cell] : r \in Target}}
<1>1. /\ intent.key \in Keys /\ request.kind = "update"
      /\ request.keys = PkMap(intent.key, KeyColumns)
  BY NamesTheKey
<1>2. /\ Proper(intent, type)
      /\ request.value = IF intent.cell[1] = "raw" THEN intent.cell ELSE Wire(intent.cell, intent.how)
  BY <1>1, RequestIs DEF IInv, Faithful
<1>3. /\ statement = UpdateStatement(request.keys, request.value)
      /\ Refused \notin Range(statement.params)
      /\ <<"raw", Refused>> \notin Range(statement.expressions)
  BY <1>1 DEF IInv, Translated
<1>. DEFINE a == Bind(Shown(intent.key["key1"]))
            b == Bind(Shown(intent.key["key2"]))
            v == request.value
            e == IF IsRaw(v) THEN <<"raw", Expression(v)>> ELSE Marker(1)
            prefix == IF IsRaw(v) THEN <<>> ELSE <<Bind(v)>>
            p == Len(prefix)
<1>4. p \in Nat /\ \/ IsRaw(v) /\ p = 0 /\ prefix = <<>>
                   \/ ~IsRaw(v) /\ p = 1 /\ prefix = <<Bind(v)>>
  OBVIOUS
<1>5. /\ statement.where = WhereClause(request.keys, p + 1)
      /\ statement.params = prefix \o BoundKeys(request.keys)
      /\ statement.expressions = <<e>> /\ statement.columns = <<"data">>
      /\ statement.batch = Batch(FALSE)
  BY <1>3 DEF UpdateStatement
<1>. HIDE DEF prefix, p, e
<1>6. /\ statement.where = {<<"key1", Marker(p + 1)>>, <<"key2", Marker(p + 2)>>}
      /\ statement.params = prefix \o <<a, b>>
  BY <1>1, <1>4, <1>5, KeysBound
<1>. HIDE DEF a, b
<1>7. /\ p + 1 \in DOMAIN statement.params /\ p + 2 \in DOMAIN statement.params
      /\ statement.params[p + 1] = a /\ statement.params[p + 2] = b
      /\ ~IsRaw(v) => 1 \in DOMAIN statement.params /\ statement.params[1] = Bind(v)
  <2>. HIDE DEF v
  <2>1. CASE IsRaw(v) /\ p = 0 /\ prefix = <<>>
    BY <1>6, <2>1, ParamsSplit
  <2>2. CASE ~IsRaw(v) /\ p = 1 /\ prefix = <<Bind(v)>>
    BY <1>6, <2>2, ParamsSplit
  <2> QED
    BY <1>4, <2>1, <2>2
<1>8. /\ \A w \in statement.where : Sought(w)[1] # "error"
      /\ Hit = {r \in rows : KeyOf(r) = intent.key}
  BY <1>1, <1>4, <1>6, <1>7, FindsTheKey DEF a, b
<1>9. IsRaw(v) => Expression(v) # Refused
  <2>1. e = <<"raw", Expression(v)>> => e \in Range(statement.expressions)
    BY <1>5 DEF Range
  <2> QED
    BY <1>3, <2>1 DEF e
<1>10. ~IsRaw(v) => Bind(v) # Refused
  BY <1>3, <1>7 DEF Range
<1>11. v = Wire(intent.cell, intent.how) /\ (intent.cell = Null \/ IsCell(type, intent.cell))
  <2>1. CASE intent.cell = <<"raw", Blank>>
    <3>1. v = <<"raw", Blank>> /\ IsRaw(v) /\ Expression(v) = Refused
      BY <1>2, <2>1 DEF IsRaw, Expression
    <3> QED
      BY <1>9, <3>1
  <2>2. CASE intent.cell = Null \/ IsCell(type, intent.cell)
    <3>1. intent.cell[1] # "raw"
      BY <2>2 DEF Null, IsCell
    <3> QED
      BY <1>2, <2>2, <3>1
  <2> QED
    BY <1>2, <2>1, <2>2 DEF Proper
<1>12. ValueAt(1) = intent.cell /\ intent.cell[1] # "error"
  <2>1. intent.how \in {"shown", "raw"} /\ ~(intent.how = "shown" /\ LooksLikeBlob(intent.cell))
    BY <1>2 DEF Proper, Misread
  <2>2. /\ IsRaw(v) => Expression(v)[1] # "error" /\ Convert(Expression(v), type) = intent.cell
        /\ ~IsRaw(v) => Bind(v)[1] # "error" /\ Convert(Bind(v), type) = intent.cell
    BY <1>9, <1>10, <1>11, <2>1, WireArrives
  <2>3. statement.expressions[1] = e /\ statement.columns[1] = "data" /\ TypeOf("data") = type
    BY <1>5 DEF TypeOf
  <2>4. Evaluated(e) = IF IsRaw(v) THEN Expression(v) ELSE Bind(v)
    BY <1>7 DEF Evaluated, e, Marker
  <2>5. ValueAt(1) = intent.cell
    BY <2>2, <2>3, <2>4 DEF ValueAt
  <2>6. intent.cell[1] # "error"
    BY <1>11 DEF Null, IsCell
  <2> QED
    BY <2>5, <2>6
<1>13. Wrong = {}
  <2>1. DOMAIN statement.expressions = {1}
    BY <1>5
  <2> QED
    BY <1>8, <1>12, <2>1 DEF Wrong
<1>14. \A r : Assigned(r) = [r EXCEPT !["data"] = intent.cell]
  <2>1. /\ Range(statement.columns) = {"data"}
        /\ DOMAIN statement.columns = {1} /\ statement.columns[1] = "data"
    BY <1>5 DEF Range
  <2>2. (CHOOSE i \in DOMAIN statement.columns : statement.columns[i] = "data") = 1
    BY <2>1
  <2> QED
    BY <1>12, <2>1, <2>2 DEF Assigned
<1>15. Hit = Target
  BY <1>8 DEF Target
<1> QED
  BY <1>1, <1>5, <1>13, <1>14, <1>15 DEF Edited

\* The row that an insert adds.
AddedRow(r) ==
    /\ IsRow(r) /\ \A s \in rows : KeyOf(s) # KeyOf(r)
    /\ \A c \in {"data", "key1", "key2"} :
          c \in Range(statement.columns) =>
             \E i \in DOMAIN statement.columns : statement.columns[i] = c /\ r[c] = ValueAt(i)
    /\ "data" \notin Range(statement.columns) => r["data"] = Null

LEMMA InsertAdds ==
    ASSUME request.kind = "insert", identity \in {"none", "key1"},
           NEW o \in BOOLEAN, NEW t \in Edited(o)
    PROVE  \E r : AddedRow(r) /\ t = rows \cup {r} /\ r \notin rows
<1>. DEFINE given == Range(statement.columns)
            blank == [data |-> Null, key1 |-> Null, key2 |-> Null]
            new == Assigned(blank)
            news == IF identity \in given THEN IF o THEN {new} ELSE {}
                    ELSE IF identity = "none" THEN {new}
                    ELSE IF o THEN {}
                    ELSE {[new EXCEPT ![identity] = KeyCell(n)] : n \in KeyValues}
<1>1. Wrong = {}
  BY DEF Edited
<1>2. t \in {rows \cup {r} : r \in {n \in news : /\ \A c \in KeyColumns : n[c] # Null
                                                 /\ \A s \in rows : KeyOf(s) # KeyOf(n)}}
  BY <1>1 DEF Edited
<1>3. new = [c \in {"data", "key1", "key2"} |->
               IF c \in given
               THEN ValueAt(CHOOSE i \in DOMAIN statement.columns : statement.columns[i] = c)
               ELSE Null]
  BY DEF Assigned
<1>. HIDE DEF new
<1>4. PICK r \in news : t = rows \cup {r} /\ \A s \in rows : KeyOf(s) # KeyOf(r)
  <2>. HIDE DEF news
  <2> QED
    BY <1>2
<1>5. \/ r = new
      \/ /\ "key1" \notin given
         /\ \E n \in KeyValues : r = [new EXCEPT !["key1"] = KeyCell(n)]
  BY <1>4
<1>. HIDE DEF news
<1>6. /\ r["data"] = new["data"] /\ r["key2"] = new["key2"] /\ IsRow(r)
      /\ r["key1"] = new["key1"] \/ "key1" \notin given
  <2>1. CASE r = new
    BY <1>3, <2>1 DEF IsRow
  <2>2. CASE "key1" \notin given /\ \E n \in KeyValues : r = [new EXCEPT !["key1"] = KeyCell(n)]
    BY <1>3, <2>2 DEF IsRow
  <2> QED
    BY <1>5, <2>1, <2>2
<1>7. ASSUME NEW c \in {"data", "key1", "key2"}, c \in given
      PROVE  \E i \in DOMAIN statement.columns : statement.columns[i] = c /\ r[c] = ValueAt(i)
  <2>1. r[c] = new[c]
    BY <1>6, <1>7
  <2>2. new[c] = ValueAt(CHOOSE i \in DOMAIN statement.columns : statement.columns[i] = c)
    BY <1>3, <1>7
  <2>3. \E i \in DOMAIN statement.columns : statement.columns[i] = c
    BY <1>7 DEF Range
  <2> QED
    BY <2>1, <2>2, <2>3
<1>8. "data" \notin given => r["data"] = Null
  BY <1>3, <1>6
<1> QED
  BY <1>4, <1>6, <1>7, <1>8 DEF AddedRow

\* Every expression of an insert has the value that was given for its column.
LEMMA InsertValues ==
    ASSUME IInv, stage = "built", intent.kind = "insert", ~Misread
    PROVE  /\ Wrong = {} /\ Range(statement.columns) = intent.given
           /\ \A i \in DOMAIN statement.columns :
                ValueAt(i) = IF statement.columns[i] = "data" THEN intent.cell
                             ELSE intent.key[statement.columns[i]]
<1>. DEFINE data == request.data
            columns == Sorted(intent.given)
            P == BoundPositions(data, columns)
            bound == At(columns, P)
<1>1. /\ Proper(intent, type) /\ request.kind = "insert"
      /\ data = [c \in intent.given |-> IF c = "data" THEN Wire(intent.cell, intent.how)
                                        ELSE Shown(intent.key[c])]
  BY RequestIs DEF IInv, Faithful
<1>2. /\ statement = InsertStatement(data)
      /\ Refused \notin Range(statement.params)
      /\ <<"raw", Refused>> \notin Range(statement.expressions)
  BY <1>1 DEF IInv, Translated
<1>. HIDE DEF data
<1>3. /\ intent.given \in SUBSET {"data", "key1", "key2"} /\ intent.key \in Keys
      /\ intent.cell = Null \/ IsCell(type, intent.cell)
      /\ intent.how \in {"shown", "raw"} /\ ~(intent.how = "shown" /\ LooksLikeBlob(intent.cell))
  BY DEF Misread, Proper, IInv, Faithful
<1>4. /\ statement.columns = columns /\ statement.where = {}
      /\ statement.expressions = ValueExpressions(data, columns)
      /\ statement.params = BoundValues(data, columns)
  BY <1>1, <1>2 DEF InsertStatement
<1>5. /\ DOMAIN columns = 1..Len(columns) /\ Len(columns) \in Nat
      /\ \A i \in DOMAIN columns : columns[i] \in intent.given
      /\ \A c \in intent.given : \E k \in 1..Len(columns) : columns[k] = c
  BY <1>3, SortedColumns
<1>. HIDE DEF columns
<1>6. DOMAIN columns = 1..Len(columns) /\ \A i \in DOMAIN columns : columns[i] \in intent.given
  BY <1>5
<1>7. P \in SUBSET (1..Len(columns)) /\ P = {i \in DOMAIN columns : ~IsRaw(data[columns[i]])}
  BY <1>6 DEF BoundPositions
<1>8. statement.params = [k \in 1..Len(bound) |-> Bind(data[bound[k]])]
  BY <1>4 DEF BoundValues
<1>9. statement.expressions = [i \in 1..Len(columns) |->
           IF IsRaw(data[columns[i]]) THEN <<"raw", Expression(data[columns[i]])>>
           ELSE Marker(Place(P, i))]
  BY <1>4 DEF ValueExpressions
<1>. HIDE DEF P
<1>10. /\ Len(bound) = Cardinality(P) /\ Cardinality(P) \in Nat
       /\ \A i \in P : Place(P, i) \in 1..Cardinality(P) /\ bound[Place(P, i)] = columns[i]
  <2>1. Positions(P, Len(columns))
    BY <1>5, <1>7 DEF Positions
  <2> QED
    BY <2>1, Selected
<1>. HIDE DEF bound
<1>11. ASSUME NEW i \in DOMAIN columns
       PROVE  LET v == IF columns[i] = "data" THEN intent.cell ELSE intent.key[columns[i]]
              IN  ValueAt(i) = v /\ v[1] # "error"
  <2>. DEFINE c == columns[i]
              e == statement.expressions[i]
              w == data[c]
              v == IF c = "data" THEN intent.cell ELSE intent.key[c]
  <2>1. c \in intent.given /\ i \in 1..Len(columns)
    BY <1>6
  <2>2. w = IF c = "data" THEN Wire(intent.cell, intent.how) ELSE Shown(intent.key[c])
    BY <1>1, <2>1
  <2>3. IsRaw(w) => e = <<"raw", Expression(w)>> /\ Expression(w) # Refused
    <3>1. IsRaw(w) => e = <<"raw", Expression(w)>>
      BY <1>9, <2>1
    <3>2. e \in Range(statement.expressions)
      BY <1>9, <2>1 DEF Range
    <3> QED
      BY <1>2, <3>1, <3>2
  <2>4. ~IsRaw(w) => Evaluated(e) = Bind(w) /\ Bind(w) # Refused
    <3>. SUFFICES ASSUME ~IsRaw(w) PROVE Evaluated(e) = Bind(w) /\ Bind(w) # Refused
      OBVIOUS
    <3>1. i \in P
      BY <1>7, <2>1
    <3>2. /\ Place(P, i) \in DOMAIN statement.params
          /\ statement.params[Place(P, i)] = Bind(w)
      BY <1>8, <1>10, <3>1
    <3>3. e = <<"marker", Place(P, i)>>
      BY <1>9, <2>1 DEF Marker
    <3>4. Bind(w) # Refused
      BY <1>2, <3>2 DEF Range
    <3>. HIDE DEF w, e
    <3> QED
      BY <3>2, <3>3, <3>4 DEF Evaluated
  <2>5. Evaluated(e) = IF IsRaw(w) THEN Expression(w) ELSE Bind(w)
    <3>. HIDE DEF w, e
    <3>1. CASE IsRaw(w)
      <4>1. e[1] = "raw" /\ e[2] = Expression(w)
        BY <2>3, <3>1
      <4>2. Evaluated(e) = e[2]
        BY <4>1 DEF Evaluated
      <4> QED
        BY <3>1, <4>1, <4>2
    <3> QED
      BY <2>4, <3>1
  <2>6. /\ Evaluated(e)[1] # "error" /\ Convert(Evaluated(e), TypeOf(c)) = v
        /\ v[1] # "error"
    <3>1. CASE c = "data"
      <4>1. /\ IsRaw(w) => \/ Expression(w) = Refused
                           \/ Expression(w)[1] # "error" /\ Convert(Expression(w), type) = intent.cell
            /\ ~IsRaw(w) => \/ Bind(w) = Refused
                            \/ Bind(w)[1] # "error" /\ Convert(Bind(w), type) = intent.cell
        BY <1>3, <2>2, <3>1, WireArrives
      <4>2. intent.cell[1] # "error"
        BY <1>3 DEF Null, IsCell
      <4>3. TypeOf(c) = type /\ v = intent.cell
        BY <3>1 DEF TypeOf
      <4>. HIDE DEF w, e, v, c
      <4> QED
        BY <2>3, <2>4, <2>5, <4>1, <4>2, <4>3
    <3>2. CASE c # "data"
      <4>1. c \in KeyColumns
        BY <1>3, <2>1, <3>2 DEF KeyColumns
      <4>2. /\ intent.key[c][1] = "bigint" /\ ~IsRaw(Shown(intent.key[c]))
            /\ Bind(Shown(intent.key[c]))[1] # "error"
            /\ Convert(Bind(Shown(intent.key[c])), "bigint") = intent.key[c]
        BY <1>3, <4>1, KeysBack
      <4>3. w = Shown(intent.key[c]) /\ TypeOf(c) = "bigint" /\ v = intent.key[c]
        BY <2>2, <3>2 DEF TypeOf
      <4>. HIDE DEF w, e, v, c
      <4> QED
        BY <2>5, <4>2, <4>3
    <3> QED
      BY <3>1, <3>2
  <2>7. ValueAt(i) = v
    <3>1. ValueAt(i) = IF Evaluated(e)[1] = "error" THEN Evaluated(e) ELSE Convert(Evaluated(e), TypeOf(c))
      BY <1>4 DEF ValueAt
    <3>. HIDE DEF e, v, c
    <3> QED
      BY <2>6, <3>1
  <2> QED
    BY <2>6, <2>7
<1>12. Wrong = {}
  <2>1. DOMAIN statement.expressions = DOMAIN columns
    BY <1>6, <1>9
  <2>2. \A i \in DOMAIN statement.expressions : ValueAt(i)[1] # "error"
    BY <1>11, <2>1
  <2> QED
    BY <1>4, <2>2 DEF Wrong
<1>13. Range(statement.columns) = intent.given
  BY <1>4, <1>5, <1>6 DEF Range
<1> QED
  BY <1>4, <1>11, <1>12, <1>13

-----------------------------------------------------------------------------
(* The invariant holds.                                                     *)

\* However a request edits the table, its rows stay apart.
LEMMA EditedKeyed ==
    ASSUME IInv, stage = "built", request.kind # "fetch", NEW o \in BOOLEAN, NEW t \in Edited(o)
    PROVE  Unique(t) /\ \A r \in t : IsRow(r)
<1>1. /\ Unique(rows) /\ \A r \in rows : IsRow(r)
      /\ identity \in {"none", "key1"}
  BY DEF IInv, Keyed, Typed
<1>2. request.kind \in {"insert", "update", "delete"}
  BY RequestIs DEF IInv, Faithful, Proper
<1>3. CASE request.kind = "insert"
  <2>1. PICK r : AddedRow(r) /\ t = rows \cup {r} /\ r \notin rows
    BY <1>1, <1>3, InsertAdds
  <2> QED
    BY <1>1, <2>1 DEF AddedRow, Unique
<1>4. CASE request.kind = "delete"
  <2>1. t = rows \ Hit
    BY <1>4 DEF Edited
  <2> QED
    BY <1>1, <2>1 DEF Unique
<1>5. CASE request.kind = "update"
  <2>1. statement.columns = <<"data">>
    BY <1>5 DEF IInv, Translated, UpdateStatement
  <2>2. Range(statement.columns) = {"data"}
    BY <2>1 DEF Range
  <2>3. t = (rows \ Hit) \cup {Assigned(r) : r \in Hit}
    BY <1>5 DEF Edited
  <2>4. Hit \subseteq rows
    BY DEF Hit
  <2>5. ASSUME NEW r \in rows
        PROVE  KeyOf(Assigned(r)) = KeyOf(r) /\ IsRow(Assigned(r))
    <3>1. DOMAIN r = {"data", "key1", "key2"}
      BY <1>1 DEF IsRow
    <3>2. /\ DOMAIN Assigned(r) = {"data", "key1", "key2"}
          /\ Assigned(r)["key1"] = r["key1"] /\ Assigned(r)["key2"] = r["key2"]
      BY <2>2, <3>1 DEF Assigned
    <3>3. Assigned(r) = [c \in {"data", "key1", "key2"} |-> Assigned(r)[c]]
      BY <3>1 DEF Assigned
    <3>4. KeyOf(Assigned(r)) = KeyOf(r)
      BY <3>2 DEF KeyOf, KeyColumns
    <3>5. IsRow(Assigned(r))
      BY <3>3 DEF IsRow
    <3> QED
      BY <3>4, <3>5
  <2>6. \A x \in t : \E r \in rows : /\ KeyOf(x) = KeyOf(r) /\ IsRow(x)
                                     /\ \/ r \in Hit /\ x = Assigned(r)
                                        \/ r \notin Hit /\ x = r
    BY <1>1, <2>3, <2>4, <2>5
  <2>7. \A x, y \in t : KeyOf(x) = KeyOf(y) => x = y
    <3>. SUFFICES ASSUME NEW x \in t, NEW y \in t, KeyOf(x) = KeyOf(y) PROVE x = y
      OBVIOUS
    <3>1. PICK r \in rows : /\ KeyOf(x) = KeyOf(r)
                            /\ \/ r \in Hit /\ x = Assigned(r)
                               \/ r \notin Hit /\ x = r
      BY <2>6
    <3>2. PICK s \in rows : /\ KeyOf(y) = KeyOf(s)
                            /\ \/ s \in Hit /\ y = Assigned(s)
                               \/ s \notin Hit /\ y = s
      BY <2>6
    <3>3. r = s
      BY <1>1, <3>1, <3>2 DEF Unique
    <3> QED
      BY <3>1, <3>2, <3>3
  <2> QED
    BY <2>6, <2>7 DEF Unique
<1> QED
  BY <1>2, <1>3, <1>4, <1>5

\* The batch of a request that edits is one of the two there are.
LEMMA BatchIs ==
    ASSUME IInv, stage = "built", request.kind # "fetch"
    PROVE  \E b \in BOOLEAN : statement.batch = Batch(b)
<1>1. request.kind \in {"insert", "update", "delete"}
  BY RequestIs DEF IInv, Faithful, Proper
<1>2. CASE request.kind = "insert"
  <2>1. statement.batch = Batch(probed \in DOMAIN request.data)
    BY <1>2 DEF IInv, Translated, InsertStatement
  <2>2. CASE probed \in DOMAIN request.data
    <3>1. statement.batch = Batch(TRUE)
      BY <2>1, <2>2 DEF Batch
    <3> QED
      BY <3>1, Zenon
  <2>3. CASE probed \notin DOMAIN request.data
    <3>1. statement.batch = Batch(FALSE)
      BY <2>1, <2>3 DEF Batch
    <3> QED
      BY <3>1, Zenon
  <2> QED
    BY <2>2, <2>3
<1>3. CASE request.kind \in {"update", "delete"}
  <2>1. statement.batch = Batch(FALSE)
    <3>1. CASE request.kind = "update"
      <4>1. statement = UpdateStatement(request.keys, request.value)
        BY <3>1 DEF IInv, Translated
      <4> QED
        BY <4>1 DEF UpdateStatement
    <3>2. CASE request.kind = "delete"
      <4>1. statement = DeleteStatement(request.keys)
        BY <3>2 DEF IInv, Translated
      <4> QED
        BY <4>1 DEF DeleteStatement
    <3> QED
      BY <1>3, <3>1, <3>2
  <2> QED
    BY <2>1, Zenon
<1> QED
  BY <1>1, <1>2, <1>3

LEMMA InitIInv == Init => IInv
BY DEF Init, IInv, Typed, Keyed, Unique, Faithful, Translated, IdentityInsertCleared

LEMMA AskIInv == IInv /\ Ask => IInv'
<1>. SUFFICES ASSUME IInv, Ask PROVE IInv'
  OBVIOUS
<1>1. PICK i \in Intents : intent' = i /\ request' = RequestFor(i)
  BY DEF Ask
<1>2. /\ stage = "idle" /\ stage' = "asked" /\ type' = type /\ rows' = rows
      /\ identity' = identity /\ session' = session
  BY DEF Ask, table
<1>3. Proper(intent', type)
  BY <1>1, IntentsProper DEF IInv, Typed
<1>4. Keyed'
  BY <1>2 DEF IInv, Keyed, Unique
<1> QED
  BY <1>1, <1>2, <1>3, <1>4 DEF IInv, Typed, Faithful, Translated, IdentityInsertCleared

LEMMA ProbeIInv == IInv /\ Probe => IInv'
<1>. SUFFICES ASSUME IInv, Probe PROVE IInv'
  OBVIOUS
<1>1. /\ stage = "asked" /\ type' = type /\ rows' = rows /\ identity' = identity
      /\ session' = session /\ intent' = intent /\ request' = request
  BY DEF Probe, table
<1>2. stage' \in {"ready", "answered"}
  BY <1>1 DEF Probe, Answer
<1>3. Keyed'
  BY <1>1 DEF IInv, Keyed, Unique
<1> QED
  BY <1>1, <1>2, <1>3 DEF IInv, Typed, Faithful, Translated, IdentityInsertCleared

LEMMA BuildIInv == IInv /\ Build => IInv'
<1>. SUFFICES ASSUME IInv, Build PROVE IInv'
  OBVIOUS
<1>. DEFINE built == CASE request.kind = "insert" -> InsertStatement(request.data)
                       [] request.kind = "update" -> UpdateStatement(request.keys, request.value)
                       [] request.kind = "delete" -> DeleteStatement(request.keys)
                       [] request.kind = "fetch"  -> FetchStatement(request.keys, request.limit)
            bad == \/ request.kind # "insert" /\ built.where = {}
                   \/ Refused \in Range(built.params)
                   \/ <<"raw", Refused>> \in Range(built.expressions)
<1>1. /\ stage = "ready" /\ type' = type /\ rows' = rows /\ identity' = identity
      /\ session' = session /\ intent' = intent /\ request' = request /\ probed' = probed
  BY DEF Build, table
<1>2. \/ stage' = "answered"
      \/ ~bad /\ statement' = built /\ stage' = "built"
  BY DEF Build, Answer
<1>3. Keyed'
  BY <1>1 DEF IInv, Keyed, Unique
<1>4. Typed' /\ Faithful' /\ IdentityInsertCleared'
  BY <1>1, <1>2 DEF IInv, Typed, Faithful, IdentityInsertCleared
<1>5. Translated'
  <2>1. CASE stage' = "answered"
    BY <2>1 DEF Translated
  <2>2. CASE ~bad /\ statement' = built /\ stage' = "built"
    <3>. HIDE DEF built
    <3>1. /\ request.kind # "insert" => statement'.where # {}
          /\ Refused \notin Range(statement'.params)
          /\ <<"raw", Refused>> \notin Range(statement'.expressions)
      BY <2>2
    <3>2. /\ request.kind = "insert" => built = InsertStatement(request.data)
          /\ request.kind = "update" => built = UpdateStatement(request.keys, request.value)
          /\ request.kind = "delete" => built = DeleteStatement(request.keys)
          /\ request.kind = "fetch" => built = FetchStatement(request.keys, request.limit)
      BY DEF built
    <3>3. InsertStatement(request.data)' = InsertStatement(request.data)
      BY <1>1 DEF InsertStatement
    <3> QED
      BY <1>1, <2>2, <3>1, <3>2, <3>3 DEF Translated
  <2> QED
    BY <1>2, <2>1, <2>2
<1> QED
  BY <1>3, <1>4, <1>5 DEF IInv

LEMMA ExecuteIInv == IInv /\ Execute => IInv'
<1>. SUFFICES ASSUME IInv, Execute PROVE IInv'
  OBVIOUS
<1>1. /\ stage = "built" /\ request.kind # "fetch" /\ stage' = "answered"
      /\ type' = type /\ identity' = identity
  BY DEF Execute, Answer
<1>2a. PICK d \in BOOLEAN :
          \E e \in Ends(d) : rows' = e.rows /\ session' = [session EXCEPT !.on = e.on]
  BY DEF Execute
<1>2. PICK e \in Ends(d) : rows' = e.rows /\ session' = [session EXCEPT !.on = e.on]
  BY <1>2a
<1>3. session.on = FALSE /\ session \in [on : BOOLEAN, discard : BOOLEAN]
  BY <1>1 DEF IInv, Faithful, Typed
<1>4. PICK b \in BOOLEAN : statement.batch = Batch(b)
  BY <1>1, BatchIs
<1>5. /\ IsState(e) /\ ~e.on
      /\ \/ e.rows = rows
         \/ e.rows \in Edited(b)
  BY <1>3, <1>4, HowItEnds DEF Succeeds
<1>6. e.on = FALSE /\ session' \in [on : BOOLEAN, discard : BOOLEAN] /\ session'.on = FALSE
  BY <1>2, <1>3, <1>5 DEF IsState
<1>7. Keyed'
  <2>1. CASE e.rows = rows
    BY <1>2, <2>1 DEF IInv, Keyed, Unique
  <2>2. CASE e.rows \in Edited(b)
    BY <1>1, <1>2, <2>2, EditedKeyed DEF Keyed, Unique
  <2> QED
    BY <1>5, <2>1, <2>2
<1> QED
  BY <1>1, <1>6, <1>7 DEF IInv, Typed, Faithful, Translated, IdentityInsertCleared

LEMMA CancelledIInv == IInv /\ Cancelled => IInv'
<1>. SUFFICES ASSUME IInv, Cancelled PROVE IInv'
  OBVIOUS
<1>1. /\ stage = "built" /\ request.kind # "fetch" /\ stage' = "answered"
      /\ type' = type /\ identity' = identity
  BY DEF Cancelled, Answer
<1>2. PICK n \in 0..Len(statement.batch.try) :
         \E e \in Steps({Start(FALSE)}, SubSeq(statement.batch.try, 1, n)) :
             rows' = e.rows /\ session' = [on |-> e.on, discard |-> TRUE]
  BY DEF Cancelled
<1>3. PICK e \in Steps({Start(FALSE)}, SubSeq(statement.batch.try, 1, n)) :
         rows' = e.rows /\ session' = [on |-> e.on, discard |-> TRUE]
  BY <1>2
<1>4. session.on = FALSE
  BY <1>1 DEF IInv, Faithful
<1>5. PICK b \in BOOLEAN : statement.batch = Batch(b)
  BY <1>1, BatchIs
<1>6. e.on \in BOOLEAN /\ (e.rows = rows \/ \E o \in BOOLEAN : e.rows \in Edited(o))
  BY <1>4, <1>5, WhenCut
<1>7. Keyed'
  <2>1. CASE e.rows = rows
    BY <1>3, <2>1 DEF IInv, Keyed, Unique
  <2>2. CASE \E o \in BOOLEAN : e.rows \in Edited(o)
    BY <1>1, <1>3, <2>2, EditedKeyed DEF Keyed, Unique
  <2> QED
    BY <1>6, <2>1, <2>2
<1> QED
  BY <1>1, <1>3, <1>6, <1>7 DEF IInv, Typed, Faithful, Translated, IdentityInsertCleared

LEMMA FetchIInv == IInv /\ Fetch => IInv'
<1>. SUFFICES ASSUME IInv, Fetch PROVE IInv'
  OBVIOUS
<1>1. /\ stage = "built" /\ type' = type /\ rows' = rows /\ identity' = identity
      /\ session' = session
  BY DEF Fetch, table
<1>2. stage' = "answered"
  BY DEF Fetch, Answer
<1>3. Keyed'
  BY <1>1 DEF IInv, Keyed, Unique
<1> QED
  BY <1>1, <1>2, <1>3 DEF IInv, Typed, Faithful, Translated, IdentityInsertCleared

\* What others do leaves the request and its statement alone.
LEMMA OthersIInv == IInv /\ (Elsewhere \/ Redefine) => IInv'
<1>. SUFFICES ASSUME IInv, Elsewhere \/ Redefine PROVE IInv'
  OBVIOUS
<1>1. /\ stage # "answered" /\ stage' = stage /\ type' = type /\ session' = session
      /\ intent' = intent /\ request' = request /\ probed' = probed /\ statement' = statement
  BY DEF Elsewhere, Redefine
<1>2. identity' \in {"none", "key1"}
  BY DEF Elsewhere, Redefine, IInv, Typed
<1>3. Keyed'
  <2>1. CASE Elsewhere
    <3>1. PICK r \in TableRows : rows' = IF r \in rows THEN rows \ {r} ELSE rows \cup {r}
      BY <2>1 DEF Elsewhere
    <3>2. IsRow(r)
      BY DEF TableRows, IsRow
    <3>3. Unique(rows')
      BY <2>1 DEF Elsewhere
    <3> QED
      BY <3>1, <3>2, <3>3 DEF IInv, Keyed, Unique
  <2>2. CASE Redefine
    BY <2>2 DEF Redefine, IInv, Keyed, Unique
  <2> QED
    BY <2>1, <2>2
<1>4. Translated'
  BY <1>1 DEF IInv, Translated, InsertStatement
<1> QED
  BY <1>1, <1>2, <1>3, <1>4 DEF IInv, Typed, Faithful, IdentityInsertCleared

LEMMA NextIInv == IInv /\ [Next]_vars => IInv'
<1>. SUFFICES ASSUME IInv, [Next]_vars PROVE IInv'
  OBVIOUS
<1>1. CASE UNCHANGED vars
  <2>1. Keyed'
    BY <1>1 DEF vars, IInv, Keyed, Unique
  <2>2. Translated'
    BY <1>1 DEF vars, IInv, Translated, InsertStatement
  <2> QED
    BY <1>1, <2>1, <2>2 DEF vars, IInv, Typed, Faithful, IdentityInsertCleared
<1> QED
  BY <1>1, AskIInv, ProbeIInv, BuildIInv, ExecuteIInv, CancelledIInv, FetchIInv, OthersIInv
     DEF Next, Edit

LEMMA Invariant == Spec => []IInv
BY InitIInv, NextIInv, PTL DEF Spec

\* Whatever became of the insert and of the table, a session that is used
\* again does not have IDENTITY_INSERT on (build_insert_sql_with_expressions).
THEOREM IdentityInsertAlwaysCleared == Spec => []IdentityInsertCleared
<1>1. IInv => IdentityInsertCleared
  BY DEF IInv
<1> QED
  BY <1>1, Invariant, PTL

-----------------------------------------------------------------------------
(* What a request comes to.                                                 *)

\* A request is settled by its execution, by being cut off or by a fetch.
LEMMA Settled ==
    ASSUME IInv, [Next]_vars, NEW kinds, Settles(kinds)
    PROVE  /\ stage = "built" /\ intent.kind \in kinds /\ request.kind = intent.kind
           /\ Execute \/ Cancelled \/ Fetch
<1>1. stage = "built" /\ stage' = "answered" /\ intent.kind \in kinds
  BY DEF Settles
<1>2. request.kind = intent.kind
  BY <1>1, RequestIs DEF IInv, Faithful
<1>3. Execute \/ Cancelled \/ Fetch
  BY <1>1 DEF Next, Edit, Ask, Probe, Build, Elsewhere, Redefine, vars
<1> QED
  BY <1>1, <1>2, <1>3

\* What became of the table, for the kinds of request that edit it.
LEMMA Outcome ==
    ASSUME IInv, stage = "built", request.kind # "fetch", Execute \/ Cancelled
    PROVE  \/ /\ Cancelled /\ answer'.result = "lost" /\ session'.discard
              /\ rows' = rows \/ \E o \in BOOLEAN : rows' \in Edited(o)
           \/ /\ Execute /\ answer'.result = "ok"
              /\ \E o \in BOOLEAN : rows' \in Edited(o) /\ answer'.count = Touched(rows')
           \/ /\ Execute /\ rows' = rows
              /\ answer'.result \in {"unbound", "server", "denied"}
              /\ answer'.result = "unbound" => Wrong # {}
              /\ statement.batch = Batch(FALSE) /\ answer'.result # "denied" =>
                     Edited(FALSE) = {} \/ Wrong # {}
<1>1. PICK b \in BOOLEAN : statement.batch = Batch(b)
  BY BatchIs
<1>2. session.on = FALSE
  BY DEF IInv, Faithful
<1>3. CASE Cancelled
  <2>1. PICK n \in 0..Len(statement.batch.try) :
           \E e \in Steps({Start(FALSE)}, SubSeq(statement.batch.try, 1, n)) :
               rows' = e.rows /\ session' = [on |-> e.on, discard |-> TRUE]
    BY <1>3 DEF Cancelled
  <2>2. PICK e \in Steps({Start(FALSE)}, SubSeq(statement.batch.try, 1, n)) :
           rows' = e.rows /\ session' = [on |-> e.on, discard |-> TRUE]
    BY <2>1
  <2>3. e.rows = rows \/ \E o \in BOOLEAN : e.rows \in Edited(o)
    BY <1>1, <1>2, WhenCut
  <2>4. answer'.result = "lost"
    BY <1>3 DEF Cancelled, Answer, Error, NoAnswer
  <2> QED
    BY <1>3, <2>2, <2>3, <2>4
<1>4. CASE Execute
  <2>1a. PICK d \in BOOLEAN : \E e \in Ends(d) :
           /\ rows' = e.rows
           /\ answer' = IF ~e.failed THEN [NoAnswer EXCEPT !.result = "ok", !.count = e.counted]
                        ELSE IF <<"error", "no such parameter">> \in Wrong THEN Error("unbound")
                        ELSE IF d THEN Error("denied") ELSE Error("server")
    BY <1>4 DEF Execute, Answer
  <2>1. PICK e \in Ends(d) :
           /\ rows' = e.rows
           /\ answer' = IF ~e.failed THEN [NoAnswer EXCEPT !.result = "ok", !.count = e.counted]
                        ELSE IF <<"error", "no such parameter">> \in Wrong THEN Error("unbound")
                        ELSE IF d THEN Error("denied") ELSE Error("server")
    BY <2>1a
  <2>2. /\ IsState(e)
        /\ \/ e.failed /\ e.rows = rows /\ (b \/ d \/ Edited(FALSE) = {})
           \/ Succeeds(e, b)
    BY <1>1, <1>2, HowItEnds
  <2>3. CASE Succeeds(e, b)
    <3>1. answer'.result = "ok" /\ answer'.count = e.counted
      BY <2>1, <2>3 DEF Succeeds, NoAnswer
    <3> QED
      BY <1>4, <2>1, <2>3, <3>1 DEF Succeeds
  <2>4. CASE e.failed /\ e.rows = rows /\ (b \/ d \/ Edited(FALSE) = {})
    <3>1. answer'.result = IF <<"error", "no such parameter">> \in Wrong THEN "unbound"
                           ELSE IF d THEN "denied" ELSE "server"
      BY <2>1, <2>4 DEF Error, NoAnswer
    <3>2. statement.batch = Batch(FALSE) /\ answer'.result # "denied" => Edited(FALSE) = {} \/ Wrong # {}
      <4>1. Batch(TRUE) # Batch(FALSE)
        BY DEF Batch
      <4> QED
        BY <1>1, <2>4, <3>1, <4>1
    <3> QED
      BY <1>4, <2>1, <2>4, <3>1, <3>2
  <2> QED
    BY <2>2, <2>3, <2>4
<1> QED
  BY <1>3, <1>4

\* An update or delete of a row that the host was shown changes that row, as
\* it is then, and no other, and counts it; one that the server denies changes
\* nothing (build_pk_where_clause, update_record, delete_record).
THEOREM ExactlyTheRow == Spec => EditsAreExact
<1>1. ASSUME IInv, [Next]_vars, Settles({"update", "delete"}), ~Misread
      PROVE  /\ rows' \in {rows, Wanted}
             /\ ~session'.discard => answer'.result \in {"ok", "denied"}
             /\ answer'.result = "denied" => rows' = rows
             /\ answer'.result = "ok" => /\ rows' = Wanted
                                         /\ answer'.count = Cardinality(Target)
  <2>1. /\ stage = "built" /\ intent.kind \in {"update", "delete"}
        /\ request.kind = intent.kind
        /\ Execute \/ Cancelled \/ Fetch
    BY <1>1, Settled
  <2>2. Execute \/ Cancelled
    BY <2>1 DEF Fetch
  <2>3. /\ Hit = Target /\ Wrong = {} /\ statement.batch = Batch(FALSE)
        /\ \A o : Edited(o) = {Wanted}
    <3>1. CASE intent.kind = "update"
      BY <1>1, <2>1, <3>1, UpdateFinds DEF Wanted
    <3>2. CASE intent.kind = "delete"
      <4>1. Wanted = (rows \ Target) \cup {}
        BY <3>2 DEF Wanted
      <4> QED
        BY <1>1, <2>1, <3>2, <4>1, DeleteFinds
    <3> QED
      BY <2>1, <3>1, <3>2
  <2>4. \A t : request.kind # "insert" => Touched(t) = Cardinality(Target)
    BY <2>3 DEF Touched
  <2>5. \/ /\ session'.discard /\ answer'.result = "lost"
           /\ rows' = rows \/ \E o \in BOOLEAN : rows' \in Edited(o)
        \/ /\ answer'.result = "ok"
           /\ \E o \in BOOLEAN : rows' \in Edited(o) /\ answer'.count = Touched(rows')
        \/ /\ rows' = rows /\ answer'.result \in {"unbound", "server", "denied"}
           /\ statement.batch = Batch(FALSE) /\ answer'.result # "denied" =>
                  Edited(FALSE) = {} \/ Wrong # {}
    <3>1. request.kind # "fetch"
      BY <2>1
    <3> QED
      BY <1>1, <2>1, <2>2, <3>1, Outcome
  <2>6. /\ Edited(FALSE) # {}
        /\ (\E o \in BOOLEAN : rows' \in Edited(o)) => rows' = Wanted
    BY <2>3
  <2> QED
    BY <2>1, <2>3, <2>4, <2>5, <2>6
<1> QED
  BY <1>1, Invariant, PTL DEF Spec, EditsAreExact

\* The row that an insert adds holds what was given, and an insert adds one row
\* or none (ValueExpressions and BoundValues agree about the markers).
THEOREM ExactlyTheValues == Spec => InsertsAsGiven
<1>1. ASSUME IInv, [Next]_vars, Settles({"insert"}), ~Misread
      PROVE  /\ answer'.result # "unbound"
             /\ rows' # rows =>
                  \E r \in rows' :
                     /\ rows' \ {r} = rows
                     /\ \A c \in intent.given \cap KeyColumns : r[c] = intent.key[c]
                     /\ r["data"] = IF "data" \in intent.given THEN intent.cell ELSE Null
             /\ answer'.result = "ok" => rows' # rows /\ answer'.count = 1
             /\ answer'.result \in {"server", "denied"} => rows' = rows
  <2>1. /\ stage = "built" /\ intent.kind = "insert" /\ request.kind = "insert"
        /\ Execute \/ Cancelled \/ Fetch
    BY <1>1, Settled
  <2>2. Execute \/ Cancelled
    BY <2>1 DEF Fetch
  <2>3. /\ Wrong = {} /\ Range(statement.columns) = intent.given
        /\ \A i \in DOMAIN statement.columns :
             ValueAt(i) = IF statement.columns[i] = "data" THEN intent.cell
                          ELSE intent.key[statement.columns[i]]
    BY <1>1, <2>1, InsertValues
  <2>4. intent.given \in SUBSET {"data", "key1", "key2"} /\ identity \in {"none", "key1"}
    BY <1>1, <2>1 DEF IInv, Faithful, Typed, Proper
  <2>5. ASSUME NEW o \in BOOLEAN, NEW t \in Edited(o)
        PROVE  /\ t # rows /\ Touched(t) = 1
               /\ \E r \in t :
                     /\ t \ {r} = rows
                     /\ \A c \in intent.given \cap KeyColumns : r[c] = intent.key[c]
                     /\ r["data"] = IF "data" \in intent.given THEN intent.cell ELSE Null
    <3>1. PICK r : AddedRow(r) /\ t = rows \cup {r} /\ r \notin rows
      BY <2>1, <2>4, InsertAdds
    <3>2. t \ rows = {r} /\ t \ {r} = rows /\ r \in t /\ t # rows
      BY <3>1
    <3>3. Touched(t) = 1
      <4>1. Cardinality({r}) = 1
        BY FS_Singleton
      <4> QED
        BY <2>1, <3>2, <4>1 DEF Touched
    <3>4. ASSUME NEW c \in intent.given
          PROVE  r[c] = IF c = "data" THEN intent.cell ELSE intent.key[c]
      <4>1. \E i \in DOMAIN statement.columns : statement.columns[i] = c /\ r[c] = ValueAt(i)
        BY <2>3, <2>4, <3>1 DEF AddedRow
      <4> QED
        BY <2>3, <4>1
    <3>5. \A c \in intent.given \cap KeyColumns : r[c] = intent.key[c]
      BY <3>4 DEF KeyColumns
    <3>6. r["data"] = IF "data" \in intent.given THEN intent.cell ELSE Null
      BY <2>3, <3>1, <3>4 DEF AddedRow
    <3> QED
      BY <3>2, <3>3, <3>5, <3>6
  <2>6. \/ /\ answer'.result = "lost"
           /\ rows' = rows \/ \E o \in BOOLEAN : rows' \in Edited(o)
        \/ /\ answer'.result = "ok"
           /\ \E o \in BOOLEAN : rows' \in Edited(o) /\ answer'.count = Touched(rows')
        \/ /\ rows' = rows
           /\ answer'.result \in {"unbound", "server", "denied"}
           /\ answer'.result = "unbound" => Wrong # {}
    <3>1. request.kind # "fetch"
      BY <2>1
    <3> QED
      BY <1>1, <2>1, <2>2, <3>1, Outcome
  <2>7. CASE rows' = rows /\ answer'.result \in {"lost", "server", "denied"}
    BY <2>7
  <2>8. CASE answer'.result = "lost" /\ \E o \in BOOLEAN : rows' \in Edited(o)
    BY <2>5, <2>8
  <2>9. CASE /\ answer'.result = "ok"
             /\ \E o \in BOOLEAN : rows' \in Edited(o) /\ answer'.count = Touched(rows')
    BY <2>5, <2>9
  <2> QED
    BY <2>3, <2>6, <2>7, <2>8, <2>9
<1> QED
  BY <1>1, Invariant, PTL DEF Spec, InsertsAsGiven

\* A preview or an export that the server does not deny is the value of the one
\* row with the key, as it is when the server reads it (fetch_blob_bytes, ensure_preview_size).
THEOREM ExactlyTheBytes == Spec => FetchesTheValue
<1>1. ASSUME IInv, [Next]_vars, Settles({"fetch"}), answer'.result # "denied"
      PROVE  /\ answer'.result = "not found" <=> Target = {}
             /\ \A r \in Target :
                   IF r["data"] = Null THEN answer'.result = "null"
                   ELSE IF intent.limit # NoBlobLimit /\ Len(r["data"][2]) > intent.limit
                   THEN answer'.result = "too large"
                   ELSE answer'.result = "ok" /\ answer'.bytes = r["data"][2]
  <2>1. /\ stage = "built" /\ intent.kind = "fetch" /\ request.kind = "fetch"
        /\ Execute \/ Cancelled \/ Fetch
    BY <1>1, Settled
  <2>2. Fetch
    BY <2>1 DEF Execute, Cancelled
  <2>3. Hit = Target /\ Wrong = {} /\ request.limit = intent.limit
    BY <1>1, <2>1, FetchFinds
  <2>4. CASE Target = {}
    <3>1. answer' # Error("denied")
      BY <1>1 DEF Error, NoAnswer
    <3>2. answer'.result = "not found"
      BY <2>2, <2>3, <2>4, <3>1 DEF Fetch, Answer, Error, NoAnswer
    <3> QED
      BY <2>4, <3>2
  <2>5. CASE Target # {}
    <3>0. answer' # Error("denied")
      BY <1>1 DEF Error, NoAnswer
    <3>1. PICK r \in Target : answer' = Fetched(r)
      BY <2>2, <2>3, <2>5, <3>0 DEF Fetch, Answer
    <3>2. \A s \in Target : s = r
      BY <1>1 DEF IInv, Keyed, Unique, Target
    <3>3. IF r["data"] = Null THEN answer'.result = "null"
          ELSE IF intent.limit # NoBlobLimit /\ Len(r["data"][2]) > intent.limit
          THEN answer'.result = "too large"
          ELSE answer'.result = "ok" /\ answer'.bytes = r["data"][2]
      BY <2>3, <3>1 DEF Fetched, Error, NoAnswer
    <3> QED
      BY <2>5, <3>2, <3>3
  <2> QED
    BY <2>4, <2>5
<1> QED
  BY <1>1, Invariant, PTL DEF Spec, FetchesTheValue
=============================================================================
