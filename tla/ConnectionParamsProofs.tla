----------------------- MODULE ConnectionParamsProofs -----------------------
(***************************************************************************)
(* Proofs about ConnectionParams, for any pairs, objects and number of     *)
(* them: the resolution is idempotent when the connection string's values  *)
(* have no outer blanks, so its three calls agree.                         *)
(***************************************************************************)
EXTENDS ConnectionParams, FiniteSetTheorems, TLAPS

\* A request or a resolved one: a function on the fields.
IsObject(r) == r = [f \in Fields |-> r[f]]

LEMMA ObjectShape ==
    ASSUME NEW r \in Objects
    PROVE  IsObject(r)
BY DEF IsObject, Objects, Fields

Shaped ==
    /\ IsObject(request) /\ IsObject(params)
    /\ params.string = request.string

\* What a resolution returned, of some object with the same string.
FromResolution ==
    stage \in {"received", "keyed"} =>
        \E q : /\ IsObject(q) /\ q.string = request.string
               /\ params = Resolve(q) /\ params # Bad

Inv == Shaped /\ FromResolution

\* A text field after a resolution is a fixed point of reconcile_string.
LEMMA TextFixed ==
    ASSUME NEW d, NEW g, NEW field, g # None => Trim(g) = g,
           ReconcileText(d, g, field) # Bad
    PROVE  ReconcileText(ReconcileText(d, g, field), g, field) = ReconcileText(d, g, field)
<1>1. CASE g = None
  BY <1>1 DEF ReconcileText, NonEmpty
<1>2. CASE g # None
  <2>1. ReconcileText(d, g, field) = g
    BY <1>2 DEF ReconcileText
  <2>2. ~(NonEmpty(g) # None /\ ~Same(Trim(g), g, field))
    BY <1>2 DEF Same
  <2>. QED
    BY <1>2, <2>1, <2>2 DEF ReconcileText
<1>. QED
  BY <1>1, <1>2

\* So are the others, of theirs.
LEMMA ValueFixed ==
    ASSUME NEW d, NEW g, ReconcileValue(d, g) # Bad
    PROVE  ReconcileValue(ReconcileValue(d, g), g) = ReconcileValue(d, g)
BY DEF ReconcileValue

LEMMA DatabaseFixed ==
    ASSUME NEW d, NEW g, g # None => Trim(g) = g, ReconcileDatabase(d, g) # Bad
    PROVE  ReconcileDatabase(ReconcileDatabase(d, g), g) = ReconcileDatabase(d, g)
BY DEF ReconcileDatabase

LEMMA FlagFixed ==
    ASSUME NEW d, NEW g, ReconcileFlag(d, g) # Bad
    PROVE  ReconcileFlag(ReconcileFlag(d, g), g) = ReconcileFlag(d, g)
BY DEF ReconcileFlag

\* The object that resolve_connection_params starts from.
Started(r) == IF r.extra = TRUE THEN [r EXCEPT !.integrated = TRUE] ELSE r

LEMMA StartedShape ==
    ASSUME NEW r, IsObject(r)
    PROVE  /\ IsObject(Started(r))
           /\ Started(r).string = r.string /\ Started(r).extra = r.extra
           /\ Started(r).ssl_mode = r.ssl_mode
           /\ r.extra = TRUE => Started(r).integrated = TRUE
BY DEF IsObject, Started, Fields

\* Merging leaves the rest of an object alone.
LEMMA MergeShape ==
    ASSUME NEW d, NEW p, IsObject(d)
    PROVE  /\ IsObject(Merge(d, p))
           /\ Merge(d, p).string = d.string /\ Merge(d, p).extra = d.extra
           /\ Merge(d, p).host = ReconcileText(d.host, p["host"], "host")
           /\ Merge(d, p).username = ReconcileText(d.username, p["username"], "username")
           /\ Merge(d, p).password = ReconcileText(d.password, p["password"], "password")
           /\ Merge(d, p).ssl_ca = ReconcileText(d.ssl_ca, p["ssl_ca"], "ssl_ca")
           /\ Merge(d, p).port = ReconcileValue(d.port, p["port"])
           /\ Merge(d, p).ssl_mode = ReconcileValue(d.ssl_mode, p["ssl_mode"])
           /\ Merge(d, p).database = ReconcileDatabase(d.database, p["database"])
           /\ Merge(d, p).integrated = ReconcileFlag(d.integrated, p["integrated"])
BY DEF IsObject, Merge, Fields

\* Two objects with the same fields are the same object.
LEMMA Extensional ==
    ASSUME NEW a, NEW b, IsObject(a), IsObject(b), \A f \in Fields : a[f] = b[f]
    PROVE  a = b
<1>1. [f \in Fields |-> a[f]] = [f \in Fields |-> b[f]]
  OBVIOUS
<1>. QED
  BY <1>1 DEF IsObject

LEMMA Idempotent ==
    ASSUME NEW q, IsObject(q), Tidy(q), Resolve(q) # Bad
    PROVE  /\ IsObject(Resolve(q)) /\ Resolve(q).string = q.string
           /\ Resolve(Resolve(q)) = Resolve(q)
<1>. DEFINE d == Started(q)
            r == Resolve(q)
            p == Parse(q.string)
<1>1. /\ IsObject(d) /\ d.string = q.string /\ d.extra = q.extra /\ d.ssl_mode = q.ssl_mode
      /\ q.extra = TRUE => d.integrated = TRUE
  BY StartedShape
<1>2. q.ssl_mode # Bad /\ q.extra # Bad
  BY DEF Resolve
<1>3. CASE q.string.form = "none"
  <2>1. r = Alone(d) /\ r # Bad
    BY <1>2, <1>3 DEF Resolve, Started
  <2>2. r = d
    BY <2>1 DEF Alone
  <2>3. Started(r) = r
    <3>1. IsObject(Started(r)) /\ IsObject(r)
      BY <1>1, <2>2, StartedShape
    <3>2. \A f \in Fields : Started(r)[f] = r[f]
      BY <1>1, <2>2 DEF Started, IsObject, Fields
    <3>. QED
      BY <3>1, <3>2, Extensional
  <2>4. Resolve(r) = Alone(Started(r))
    BY <1>1, <1>2, <1>3, <2>2 DEF Resolve, Started
  <2>. QED
    BY <1>1, <2>1, <2>2, <2>3, <2>4
<1>4. CASE q.string.form # "none"
  <2>. DEFINE m == Merge(d, p)
  <2>1. p # Bad /\ r = Checked(m) /\ r # Bad
    BY <1>2, <1>4 DEF Resolve, Started
  <2>2. r = m /\ \A f \in SharedFields \cup {"database", "integrated"} : m[f] # Bad
    BY <2>1 DEF Checked, Alone
  <2>. HIDE DEF d, p
  <2>3. /\ IsObject(m) /\ m.string = d.string /\ m.extra = d.extra
        /\ m.host = ReconcileText(d.host, p["host"], "host")
        /\ m.username = ReconcileText(d.username, p["username"], "username")
        /\ m.password = ReconcileText(d.password, p["password"], "password")
        /\ m.ssl_ca = ReconcileText(d.ssl_ca, p["ssl_ca"], "ssl_ca")
        /\ m.port = ReconcileValue(d.port, p["port"])
        /\ m.ssl_mode = ReconcileValue(d.ssl_mode, p["ssl_mode"])
        /\ m.database = ReconcileDatabase(d.database, p["database"])
        /\ m.integrated = ReconcileFlag(d.integrated, p["integrated"])
    BY <1>1, MergeShape
  <2>4. \A f \in TextFields \cup {"host", "database"} : p[f] # None => Trim(p[f]) = p[f]
    BY <1>4, <2>1 DEF Tidy, p
  <2>6. /\ IsObject(Started(m)) /\ Started(m).string = q.string /\ Started(m).extra = q.extra
        /\ Started(m).ssl_mode = m.ssl_mode
        /\ q.extra = TRUE => Started(m).integrated = TRUE
        /\ q.extra # TRUE => Started(m) = m
        /\ \A f \in Fields \ {"integrated"} : Started(m)[f] = m[f]
    BY <1>1, <2>3, StartedShape DEF Started, IsObject
  <2>. DEFINE n == Merge(Started(m), p)
  <2>7. /\ IsObject(n) /\ n.string = m.string /\ n.extra = m.extra
        /\ n.host = ReconcileText(m.host, p["host"], "host")
        /\ n.username = ReconcileText(m.username, p["username"], "username")
        /\ n.password = ReconcileText(m.password, p["password"], "password")
        /\ n.ssl_ca = ReconcileText(m.ssl_ca, p["ssl_ca"], "ssl_ca")
        /\ n.port = ReconcileValue(m.port, p["port"])
        /\ n.ssl_mode = ReconcileValue(m.ssl_mode, p["ssl_mode"])
        /\ n.database = ReconcileDatabase(m.database, p["database"])
        /\ n.integrated = ReconcileFlag(Started(m).integrated, p["integrated"])
    BY <1>1, <2>3, <2>6, MergeShape DEF Fields
  <2>. HIDE DEF n
  <2>8. n.integrated = m.integrated
    <3>1. m.integrated # Bad
      BY <2>2
    <3>2. CASE q.extra = TRUE
      <4>1. d.integrated = Started(m).integrated
        BY <1>1, <2>6, <3>2
      <4>. QED
        BY <2>3, <2>7, <4>1
    <3>3. CASE q.extra # TRUE
      <4>1. Started(m).integrated = m.integrated
        BY <2>6, <3>3
      <4>. QED
        BY <2>3, <2>7, <3>1, <4>1, FlagFixed
    <3>. QED
      BY <3>2, <3>3
  <2>9. n.host = m.host
    BY <2>2, <2>3, <2>4, <2>7, TextFixed DEF SharedFields
  <2>10. n.username = m.username /\ n.password = m.password /\ n.ssl_ca = m.ssl_ca
    BY <2>2, <2>3, <2>4, <2>7, TextFixed DEF SharedFields, TextFields
  <2>11. n.port = m.port /\ n.ssl_mode = m.ssl_mode
    BY <2>2, <2>3, <2>7, ValueFixed DEF SharedFields
  <2>12. n.database = m.database
    BY <2>2, <2>3, <2>4, <2>7, DatabaseFixed
  <2>13. n = m
    BY <2>3, <2>7, <2>8, <2>9, <2>10, <2>11, <2>12, Extensional DEF Fields
  <2>14. Resolve(m) = Checked(Merge(Started(m), p))
    <3>1. m.ssl_mode # Bad /\ m.extra # Bad /\ m.string = q.string
      BY <1>1, <1>2, <2>2, <2>3 DEF SharedFields
    <3>. QED
      BY <1>4, <2>1, <3>1 DEF Resolve, Started, p
  <2>. QED
    BY <1>1, <2>1, <2>2, <2>3, <2>13, <2>14 DEF n
<1>. QED
  BY <1>3, <1>4

\* A resolution yields an object with the same connection string.
LEMMA ResolveShape ==
    ASSUME NEW q, IsObject(q), Resolve(q) # Bad
    PROVE  IsObject(Resolve(q)) /\ Resolve(q).string = q.string
<1>1. IsObject(Started(q)) /\ Started(q).string = q.string
  BY StartedShape
<1>2. Resolve(q) = Started(q) \/ Resolve(q) = Merge(Started(q), Parse(q.string))
  BY DEF Resolve, Started, Checked, Alone
<1>. QED
  BY <1>1, <1>2, MergeShape

LEMMA InitInv == Init => Inv
<1>. SUFFICES ASSUME Init PROVE Inv
  OBVIOUS
<1>1. PICK n \in 0..MaxGiven, form \in {"none", "keywords", "url", "foreign"} :
         \E d \in Discrete[MaxGiven - n], p \in [1..n -> Pairs] :
             request = [d EXCEPT !.string = [form |-> form, pairs |-> p]]
  BY DEF Init
<1>2. PICK d \in Discrete[MaxGiven - n] : \E s : request = [d EXCEPT !.string = s]
  BY <1>1
<1>3. d = [f \in Fields |-> d[f]]
  BY ParamsAssumption, ObjectShape DEF IsObject
<1>4. IsObject(request)
  BY <1>2, <1>3 DEF IsObject, Fields
<1>. QED
  BY <1>4 DEF Init, Inv, Shaped, FromResolution

\* A resolution step keeps the invariant, whichever stage it starts from.
LEMMA ResolvedInv ==
    ASSUME Inv, NEW from, NEW next, Resolved(from, next), UNCHANGED request,
           next \in {"received", "keyed"}
    PROVE  Inv'
<1>1. CASE Resolve(params) = Bad
  BY <1>1 DEF Inv, Shaped, FromResolution, Resolved
<1>2. CASE Resolve(params) # Bad
  <2>1. params' = Resolve(params)
    BY <1>2 DEF Resolved
  <2>2. Shaped'
    BY <1>2, <2>1, ResolveShape DEF Inv, Shaped, IsObject
  <2>3. FromResolution'
    BY <1>2, <2>1 DEF Inv, Shaped, FromResolution
  <2>. QED
    BY <2>2, <2>3 DEF Inv
<1>. QED
  BY <1>1, <1>2

LEMMA NextInv == Inv /\ [Next]_vars => Inv'
<1>. SUFFICES ASSUME Inv, [Next]_vars PROVE Inv'
  OBVIOUS
<1>1. CASE ConnParams
  BY <1>1, ResolvedInv DEF ConnParams
<1>2. CASE GetPool
  BY <1>2, ResolvedInv DEF GetPool
<1>3. CASE BuildConfig
  BY <1>3 DEF BuildConfig, Inv, Shaped, FromResolution, IsObject
<1>4. CASE UNCHANGED vars
  BY <1>4 DEF vars, Inv, Shaped, FromResolution, IsObject
<1>. QED
  BY <1>1, <1>2, <1>3, <1>4 DEF Next, Done

LEMMA InvCanonical == Inv => CanonicalIfTidy
<1>. SUFFICES ASSUME Inv, Tidy(request), stage \in {"received", "keyed"}
     PROVE  Resolve(params) = params
  BY DEF CanonicalIfTidy, Canonical
<1>1. PICK q : IsObject(q) /\ q.string = request.string /\ params = Resolve(q) /\ params # Bad
  BY DEF Inv, FromResolution
<1>2. Tidy(q)
  BY <1>1 DEF Tidy
<1>. QED
  BY <1>1, <1>2, Idempotent

\* Whatever the host sends: parameters that conn_params accepted are resolved
\* to themselves by get_sqlserver_pool and build_config, as long as no value
\* of the connection string has outer blanks.
THEOREM ResolutionIsCanonical == Spec => []CanonicalIfTidy
<1>1. Spec => []Inv
  BY InitInv, NextInv, PTL DEF Spec
<1>. QED
  BY <1>1, InvCanonical, PTL
-----------------------------------------------------------------------------
(* Parsing in closed form.  Whatever the order of the keywords, the fold   *)
(* of ApplyKeyword over them is a function of the set of pairs.            *)

\* Induction over the naturals, for a set: the least number outside of T
\* would be a least of the intervals that end outside of T.
LEMMA Induction ==
    ASSUME NEW T, 0 \in T, \A n \in Nat : n \in T => n + 1 \in T
    PROVE  \A n \in Nat : n \in T
<1>. SUFFICES ASSUME NEW m \in Nat, m \notin T PROVE FALSE
  OBVIOUS
<1>. DEFINE S == 0..m
            R == StrictSubsetOrdering(S)
            F == {0..n : n \in {k \in 0..m : k \notin T}}
<1>1. IsFiniteSet(S)
  BY FS_Interval
<1>1a. FiniteSubsetsOf(S) = SUBSET S
  BY <1>1, FS_FiniteSubsetsOfFinite
<1>2. IsWellFoundedOn(R, SUBSET S)
  BY <1>1a, FS_StrictSubsetOrderingWellFounded
<1>3. F \subseteq SUBSET S /\ F # {}
  OBVIOUS
<1>4. \E x \in F : \A y \in F : <<y, x>> \notin R
  <2>. HIDE DEF F, R, S
  <2>. QED
    BY <1>2, <1>3, WFMin
<1>5. PICK n \in 0..m : n \notin T /\ \A k \in 0..m : k \notin T => <<0..k, 0..n>> \notin R
  <2>. HIDE DEF R, S
  <2>. QED
    BY <1>4
<1>6. n # 0 /\ n - 1 \in 0..m
  BY <1>5
<1>7. n - 1 \notin T
  BY <1>5, <1>6
<1>8. <<0..(n - 1), 0..n>> \in R
  <2>1. n \in 0..n /\ n \notin 0..(n - 1)
    BY <1>6
  <2>. QED
    BY <1>6, <2>1 DEF StrictSubsetOrdering
<1>. QED
  BY <1>5, <1>6, <1>7, <1>8

\* A set of positions has a last one, and the others come before it.
LEMMA LastPosition ==
    ASSUME NEW k \in Nat, NEW S \in SUBSET (1..(k + 1)), S # {}
    PROVE  Max(S) \in S /\ S \ {Max(S)} \subseteq 1..k
<1>. DEFINE T == {n \in Nat : \A U \in SUBSET (1..n) :
                                 U # {} => \E x \in U : \A y \in U : x >= y}
<1>1. 0 \in T
  <2>1. 1..0 = {}
    OBVIOUS
  <2>. QED
    BY <2>1
<1>2. ASSUME NEW n \in Nat, n \in T PROVE n + 1 \in T
  <2>. SUFFICES ASSUME NEW U \in SUBSET (1..(n + 1)), U # {}
       PROVE  \E x \in U : \A y \in U : x >= y
    OBVIOUS
  <2>1. CASE n + 1 \in U
    BY <2>1
  <2>2. CASE n + 1 \notin U
    <3>1. \A x \in 1..(n + 1) : x # n + 1 => x \in 1..n
      OBVIOUS
    <3>. QED
      BY <1>2, <2>2, <3>1
  <2>. QED
    BY <2>1, <2>2
<1>3. k + 1 \in T
  <2>. HIDE DEF T
  <2>. QED
    BY <1>1, <1>2, Induction
<1>4. Max(S) \in S /\ \A y \in S : Max(S) >= y
  BY <1>3 DEF Max
<1>5. \A x \in 1..(k + 1), y \in 1..(k + 1) : y >= x /\ x # y => x \in 1..k
  OBVIOUS
<1>. QED
  BY <1>4, <1>5

\* FoldLeft is a function of the positions, the last one applied last.
LEMMA FoldUnfolds ==
    ASSUME NEW s, NEW G,
           G = [S \in SUBSET DOMAIN s |->
                  IF S = {} THEN Unset ELSE ApplyKeyword(G[S \ {Max(S)}], s[Max(S)])]
    PROVE  \E H : /\ H = [S \in SUBSET DOMAIN s |->
                            IF S = {} THEN Unset ELSE ApplyKeyword(H[S \ {Max(S)}], s[Max(S)])]
                  /\ FoldLeft(ApplyKeyword, Unset, s) = H[DOMAIN s]
<1>. DEFINE H == CHOOSE h : h = [S \in SUBSET DOMAIN s |->
                     IF S = {} THEN Unset ELSE ApplyKeyword(h[S \ {Max(S)}], s[Max(S)])]
<1>1. H = [S \in SUBSET DOMAIN s |->
             IF S = {} THEN Unset ELSE ApplyKeyword(H[S \ {Max(S)}], s[Max(S)])]
  BY Zenon
<1>2. FoldLeft(ApplyKeyword, Unset, s) = H[DOMAIN s]
  BY DEF FoldLeft, MapThenFoldSet
<1>. HIDE DEF H
<1>. QED
  BY <1>1, <1>2

\* Every function that satisfies the equation of the fold is the fold.
LEMMA FoldIs ==
    ASSUME NEW n \in Nat, NEW s, DOMAIN s = 1..n, NEW G,
           G = [S \in SUBSET DOMAIN s |->
                  IF S = {} THEN Unset ELSE ApplyKeyword(G[S \ {Max(S)}], s[Max(S)])]
    PROVE  FoldLeft(ApplyKeyword, Unset, s) = G[DOMAIN s]
<1>1. PICK H : /\ H = [S \in SUBSET DOMAIN s |->
                         IF S = {} THEN Unset ELSE ApplyKeyword(H[S \ {Max(S)}], s[Max(S)])]
               /\ FoldLeft(ApplyKeyword, Unset, s) = H[DOMAIN s]
  BY FoldUnfolds
<1>. DEFINE T == {k \in Nat : \A S \in SUBSET DOMAIN s : S \subseteq 1..k => H[S] = G[S]}
<1>2. 0 \in T
  <2>1. 1..0 = {}
    OBVIOUS
  <2>. QED
    BY <1>1, <2>1
<1>3. ASSUME NEW k \in Nat, k \in T PROVE k + 1 \in T
  <2>. SUFFICES ASSUME NEW S \in SUBSET DOMAIN s, S \subseteq 1..(k + 1)
       PROVE  H[S] = G[S]
    <3>1. k + 1 \in Nat
      OBVIOUS
    <3>. QED
      BY <3>1, Zenon DEF T
  <2>. HIDE DEF T
  <2>1. CASE S = {}
    BY <1>1, <2>1
  <2>2. CASE S # {}
    <3>1. S \ {Max(S)} \subseteq 1..k /\ S \ {Max(S)} \in SUBSET DOMAIN s
      BY <2>2, LastPosition
    <3>2. H[S \ {Max(S)}] = G[S \ {Max(S)}]
      BY <1>3, <3>1 DEF T
    <3>. QED
      BY <1>1, <2>2, <3>2
  <2>. QED
    BY <2>1, <2>2
<1>4. n \in T
  <2>. HIDE DEF T
  <2>. QED
    BY <1>2, <1>3, Induction
<1>. QED
  BY <1>1, <1>4

\* No pair of P is malformed, and no two of them differ about a field.
Consistent(P) ==
    /\ \A p \in P : Assigns(p) # Bad
    /\ \A p, q \in P : \A a \in Assigns(p), b \in Assigns(q) : a[1] = b[1] => a[2] = b[2]

\* The value that the pairs of P give to field f, None if there is none.
Given(P, f) ==
    IF \E p \in P : \E a \in Assigns(p) : a[1] = f
    THEN CHOOSE v : \E p \in P : \E a \in Assigns(p) : a[1] = f /\ a[2] = v
    ELSE None

\* What the pairs of P come to.
Gathered(P) == IF Consistent(P) THEN [f \in ParsedFields |-> Given(P, f)] ELSE Bad

\* What a pair that is not malformed assigns, by its keyword.
LEMMA AssignsByKey ==
    ASSUME NEW p, Assigns(p) # Bad
    PROVE  /\ p.value # Bad
           /\ p.key \in HostKeys =>
                /\ p.port # Bad
                /\ Assigns(p) = {<<"host", p.value>>}
                                  \cup (IF p.port = None THEN {} ELSE {<<"port", p.port>>})
           /\ p.key \in {"authentication", "client option"} => Assigns(p) = {}
           /\ p.key \in ParsedFields => Assigns(p) = {<<p.key, p.value>>}
           /\ p.key \in HostKeys \cup {"authentication", "client option"} \cup ParsedFields
<1>1. p.value # Bad
  BY DEF Assigns
<1>2. CASE p.key \in HostKeys
  BY <1>1, <1>2 DEF Assigns, HostKeys, ParsedFields, SharedFields, TextFields
<1>3. CASE p.key \in {"authentication", "client option"}
  BY <1>1, <1>3 DEF Assigns, HostKeys, ParsedFields, SharedFields, TextFields
<1>4. CASE p.key \in ParsedFields
  BY <1>1, <1>4 DEF Assigns, HostKeys, ParsedFields, SharedFields, TextFields
<1>5. CASE p.key \notin HostKeys \cup {"authentication", "client option"} \cup ParsedFields
  BY <1>1, <1>5 DEF Assigns
<1>. QED
  BY <1>1, <1>2, <1>3, <1>4, <1>5

LEMMA PairTyped ==
    ASSUME NEW p \in Pairs
    PROVE  /\ p.key \in ParsedFields => p.value = Bad \/ p.value \in KeywordValues(p.key)
           /\ p.key \in HostKeys => /\ p.value = Bad \/ p.value \in Texts
                                    /\ p.port \in Nat \cup {None, Bad}
BY ParamsAssumption

LEMMA NoneIsNoValue ==
    /\ None \notin Texts /\ None \notin Nat /\ None # Bad
    /\ None \notin Logins
    /\ \A f \in ParsedFields : None \notin KeywordValues(f)
BY ParamsAssumption DEF KeywordValues, Modes

\* A pair that is not malformed sets fields, each once and to a value of its
\* type.
LEMMA AssignsTyped ==
    ASSUME NEW p \in Pairs, Assigns(p) # Bad
    PROVE  /\ \A a \in Assigns(p) : /\ a[1] \in ParsedFields /\ a[2] \in KeywordValues(a[1])
                                    /\ a[2] # None
           /\ \A a, b \in Assigns(p) : a[1] = b[1] => a = b
<1>1. p.value # Bad
  BY AssignsByKey
<1>2. CASE p.key \in HostKeys
  <2>1. p.value \in Texts /\ p.port \in Nat \cup {None}
    BY <1>1, <1>2, PairTyped, AssignsByKey
  <2>2. Assigns(p) = {<<"host", p.value>>}
                       \cup (IF p.port = None THEN {} ELSE {<<"port", p.port>>})
    BY <1>2, AssignsByKey
  <2>3. \A a \in Assigns(p) : \/ a = <<"host", p.value>>
                              \/ p.port # None /\ a = <<"port", p.port>>
    BY <2>2
  <2>4. p.value # None /\ p.value \in KeywordValues("host")
    BY <2>1, NoneIsNoValue DEF KeywordValues, TextFields
  <2>5. p.port # None => p.port \in KeywordValues("port")
    BY <2>1 DEF KeywordValues
  <2>. QED
    BY <2>3, <2>4, <2>5 DEF ParsedFields, SharedFields
<1>3. CASE p.key \in {"authentication", "client option"}
  BY <1>3, AssignsByKey
<1>4. CASE p.key \in ParsedFields
  <2>1. Assigns(p) = {<<p.key, p.value>>}
    BY <1>4, AssignsByKey
  <2>2. p.value \in KeywordValues(p.key)
    BY <1>1, <1>4, PairTyped
  <2>3. None \notin KeywordValues(p.key)
    BY <1>4, NoneIsNoValue
  <2>. QED
    BY <1>4, <2>1, <2>2, <2>3
<1>. QED
  BY <1>2, <1>3, <1>4, AssignsByKey

\* The one value that consistent pairs give to a field.
LEMMA GivenIs ==
    ASSUME NEW P, Consistent(P), NEW p \in P, NEW a \in Assigns(p)
    PROVE  Given(P, a[1]) = a[2]
BY DEF Given, Consistent

LEMMA GivenTyped ==
    ASSUME NEW P \in SUBSET Pairs, Consistent(P), NEW f \in ParsedFields
    PROVE  \/ Given(P, f) = None /\ \A p \in P : \A a \in Assigns(p) : a[1] # f
           \/ /\ Given(P, f) # None /\ Given(P, f) \in KeywordValues(f)
              /\ \E p \in P : \E a \in Assigns(p) : a[1] = f /\ a[2] = Given(P, f)
<1>1. CASE \E p \in P : \E a \in Assigns(p) : a[1] = f
  <2>1. PICK p \in P : \E a \in Assigns(p) : a[1] = f
    BY <1>1
  <2>1a. PICK a \in Assigns(p) : a[1] = f
    BY <2>1
  <2>2. Given(P, f) = a[2]
    BY <2>1a, GivenIs
  <2>3. a[2] # None /\ a[2] \in KeywordValues(f)
    BY <2>1a, AssignsTyped DEF Consistent
  <2>. QED
    BY <2>1a, <2>2, <2>3
<1>2. CASE ~\E p \in P : \E a \in Assigns(p) : a[1] = f
  BY <1>2 DEF Given
<1>. QED
  BY <1>1, <1>2

\* A function on the parsed fields with values of their types is a result.
LEMMA ParsedMember ==
    ASSUME NEW g, g = [f \in ParsedFields |-> g[f]],
           \A f \in ParsedFields : g[f] = None \/ g[f] \in KeywordValues(f)
    PROVE  g \in Parsed /\ g # Bad
<1>1. /\ g.host \in Texts \cup {None} /\ g.username \in Texts \cup {None}
      /\ g.password \in Texts \cup {None} /\ g.ssl_ca \in Texts \cup {None}
      /\ g.database \in Texts \cup {None}
  BY DEF KeywordValues, ParsedFields, SharedFields, TextFields
<1>2. /\ g.port \in Nat \cup {None} /\ g.ssl_mode \in Modes \cup {None}
      /\ g.encrypt \in {"disabled", "enabled", "strict"} \cup {None}
      /\ g.trust \in BOOLEAN \cup {None} /\ g.integrated \in BOOLEAN \cup {None}
  BY DEF KeywordValues, ParsedFields, SharedFields, TextFields
<1>3. g = [f \in {"host", "port", "username", "password", "ssl_ca", "database", "ssl_mode",
                  "trust", "encrypt", "integrated"} |-> g[f]]
  <2>1. ParsedFields = {"host", "port", "username", "password", "ssl_ca", "database",
                        "ssl_mode", "trust", "encrypt", "integrated"}
    BY DEF ParsedFields, SharedFields, TextFields
  <2>. QED
    BY <2>1
<1>4. g \in Parsed
  BY <1>1, <1>2, <1>3 DEF Parsed
<1>. QED
  BY <1>4, ParamsAssumption

LEMMA GatheredTyped ==
    ASSUME NEW P \in SUBSET Pairs, Consistent(P)
    PROVE  /\ Gathered(P) \in Parsed /\ Gathered(P) # Bad
           /\ Gathered(P) = [f \in ParsedFields |-> Given(P, f)]
<1>1. Gathered(P) = [f \in ParsedFields |-> Given(P, f)]
  BY DEF Gathered
<1>2. \A f \in ParsedFields : /\ Gathered(P)[f] = Given(P, f)
                              /\ Given(P, f) = None \/ Given(P, f) \in KeywordValues(f)
  BY <1>1, GivenTyped
<1>. QED
  BY <1>1, <1>2, ParsedMember

\* Adding one more pair to what was gathered gathers it too.
LEMMA GatherOne ==
    ASSUME NEW P \in SUBSET Pairs, NEW p \in Pairs
    PROVE  Add(Gathered(P), Assigns(p)) = Gathered(P \cup {p})
<1>. DEFINE g == Gathered(P)
            Q == P \cup {p}
            new == Assigns(p)
<1>1. CASE ~Consistent(P)
  <2>1. g = Bad /\ ~Consistent(Q)
    BY <1>1 DEF Gathered, Consistent
  <2>. QED
    BY <2>1 DEF Add, Gathered
<1>2. CASE Consistent(P) /\ new = Bad
  <2>1. ~Consistent(Q)
    BY <1>2 DEF Consistent
  <2>. QED
    BY <1>2, <2>1 DEF Add, Gathered
<1>3. CASE Consistent(P) /\ new # Bad
  <2>1. g # Bad /\ g = [f \in ParsedFields |-> Given(P, f)]
    BY <1>3, GatheredTyped
  <2>2. /\ \A a \in new : a[1] \in ParsedFields /\ a[2] # None
        /\ \A a, b \in new : a[1] = b[1] => a = b
    BY <1>3, AssignsTyped
  <2>. HIDE DEF g
  <2>3. CASE \E a \in new : g[a[1]] \notin {None, a[2]}
    <3>1. PICK a \in new : g[a[1]] \notin {None, a[2]}
      BY <2>3
    <3>2. a[1] \in ParsedFields /\ Given(P, a[1]) \notin {None, a[2]}
      BY <2>1, <2>2, <3>1
    <3>3. PICK q \in P : \E b \in Assigns(q) : b[1] = a[1] /\ b[2] # a[2]
      BY <1>3, <3>2, GivenTyped
    <3>4. ~Consistent(Q)
      BY <3>3 DEF Consistent
    <3>. QED
      BY <2>3, <3>4 DEF Add, Gathered, g
  <2>4. CASE ~\E a \in new : g[a[1]] \notin {None, a[2]}
    <3>1. \A a \in new : Given(P, a[1]) \in {None, a[2]}
      BY <2>1, <2>2, <2>4
    <3>2. ASSUME NEW q \in P, NEW b \in Assigns(q), NEW a \in new, a[1] = b[1]
          PROVE  a[2] = b[2]
      <4>1. Given(P, b[1]) = b[2]
        BY <1>3, GivenIs
      <4>2. b[2] # None
        BY <1>3, AssignsTyped DEF Consistent
      <4>. QED
        BY <3>1, <3>2, <4>1, <4>2
    <3>3. Consistent(Q)
      <4>1. \A q \in Q : Assigns(q) # Bad
        BY <1>3 DEF Consistent
      <4>2. ASSUME NEW q \in Q, NEW r \in Q, NEW a \in Assigns(q), NEW b \in Assigns(r),
                   a[1] = b[1]
            PROVE  a[2] = b[2]
        <5>1. CASE q \in P /\ r \in P
          BY <1>3, <4>2, <5>1 DEF Consistent
        <5>2. CASE q \in P /\ r = p
          BY <3>2, <4>2, <5>2
        <5>3. CASE q = p /\ r \in P
          BY <3>2, <4>2, <5>3
        <5>4. CASE q = p /\ r = p
          BY <2>2, <4>2, <5>4
        <5>. QED
          BY <5>1, <5>2, <5>3, <5>4
      <4>. QED
        BY <4>1, <4>2 DEF Consistent
    <3>4. Gathered(Q) = [f \in ParsedFields |-> Given(Q, f)]
      BY <3>3 DEF Gathered
    <3>5. ASSUME NEW f \in ParsedFields
          PROVE  (IF \E a \in new : a[1] = f THEN (CHOOSE a \in new : a[1] = f)[2] ELSE g[f])
                   = Given(Q, f)
      <4>1. CASE \E a \in new : a[1] = f
        <5>. DEFINE c == CHOOSE a \in new : a[1] = f
        <5>1. c \in new /\ c[1] = f
          BY <4>1
        <5>2. Given(Q, c[1]) = c[2]
          BY <3>3, <5>1, GivenIs
        <5>. QED
          BY <4>1, <5>1, <5>2
      <4>2. CASE ~\E a \in new : a[1] = f
        <5>1. g[f] = Given(P, f)
          BY <2>1
        <5>2. CASE Given(P, f) = None
          <6>1. \A q \in Q : \A a \in Assigns(q) : a[1] # f
            BY <1>3, <4>2, <5>2, GivenTyped
          <6>2. Given(Q, f) = None
            BY <6>1 DEF Given
          <6>. QED
            BY <4>2, <5>1, <5>2, <6>2
        <5>3. CASE Given(P, f) # None
          <6>1. PICK q \in P : \E a \in Assigns(q) : a[1] = f /\ a[2] = Given(P, f)
            BY <1>3, <5>3, GivenTyped
          <6>2. Given(Q, f) = Given(P, f)
            BY <3>3, <6>1, GivenIs
          <6>. QED
            BY <4>2, <5>1, <6>2
        <5>. QED
          BY <5>2, <5>3
      <4>. QED
        BY <4>1, <4>2
    <3>6. Add(g, new) = [f \in ParsedFields |->
              IF \E a \in new : a[1] = f THEN (CHOOSE a \in new : a[1] = f)[2] ELSE g[f]]
      BY <1>3, <2>1, <2>4 DEF Add
    <3>7. Add(g, new) = [f \in ParsedFields |-> Given(Q, f)]
      BY <3>5, <3>6
    <3>. QED
      BY <3>4, <3>7 DEF g
  <2>. QED
    BY <2>3, <2>4
<1>. QED
  BY <1>1, <1>2, <1>3

\* Folding the keywords gathers the set of them.
LEMMA FoldGathers ==
    ASSUME NEW s \in Seq(Pairs)
    PROVE  FoldLeft(ApplyKeyword, Unset, s) = Gathered(Range(s))
<1>. DEFINE PairsAt(S) == {s[i] : i \in S}
            G == [S \in SUBSET DOMAIN s |-> Gathered(PairsAt(S))]
<1>1. PICK n \in Nat : DOMAIN s = 1..n /\ s \in [1..n -> Pairs]
  OBVIOUS
<1>2. \A S \in SUBSET DOMAIN s : PairsAt(S) \in SUBSET Pairs
  BY <1>1
<1>3. Gathered({}) = Unset
  BY DEF Gathered, Consistent, Given, Unset
<1>4. ASSUME NEW S \in SUBSET DOMAIN s
      PROVE  G[S] = IF S = {} THEN Unset ELSE ApplyKeyword(G[S \ {Max(S)}], s[Max(S)])
  <2>1. CASE S = {}
    <3>1. PairsAt(S) = {}
      BY <2>1
    <3>. QED
      BY <1>3, <2>1, <3>1
  <2>2. CASE S # {}
    <3>1. Max(S) \in S
      <4>1. S \in SUBSET (1..(n + 1))
        BY <1>1
      <4>. QED
        BY <2>2, <4>1, LastPosition
    <3>. DEFINE R == S \ {Max(S)}
                m == Max(S)
    <3>2. PairsAt(S) = PairsAt(R) \cup {s[m]}
      BY <3>1
    <3>3. s[m] \in Pairs /\ PairsAt(R) \in SUBSET Pairs /\ R \in SUBSET DOMAIN s
      BY <1>1, <1>2, <3>1
    <3>. HIDE DEF PairsAt, R, m
    <3>4. Add(Gathered(PairsAt(R)), Assigns(s[m])) = Gathered(PairsAt(S))
      BY <3>2, <3>3, GatherOne
    <3>5. ApplyKeyword(Gathered(PairsAt(R)), s[m]) = Gathered(PairsAt(S))
      BY <3>4 DEF ApplyKeyword
    <3>6. G[S] = Gathered(PairsAt(S)) /\ G[R] = Gathered(PairsAt(R))
      BY <3>3
    <3>. QED
      BY <2>2, <3>5, <3>6 DEF R, m
  <2>. QED
    BY <2>1, <2>2
<1>5. G = [S \in SUBSET DOMAIN s |->
             IF S = {} THEN Unset ELSE ApplyKeyword(G[S \ {Max(S)}], s[Max(S)])]
  <2>1. G = [S \in SUBSET DOMAIN s |-> G[S]]
    OBVIOUS
  <2>. HIDE DEF G
  <2>. QED
    BY <1>4, <2>1
<1>6. FoldLeft(ApplyKeyword, Unset, s) = G[DOMAIN s]
  <2>. HIDE DEF G
  <2>. QED
    BY <1>1, <1>5, FoldIs
<1>7. PairsAt(DOMAIN s) = Range(s)
  BY DEF Range
<1>. QED
  BY <1>6, <1>7

\* What an accepted string says: every pair's value is the parsed one, except
\* that the TLS keywords may decide a mode that no pair names.
LEMMA ParseAccepts ==
    ASSUME NEW s \in Strings, Parse(s) # Bad
    PROVE  LET P == Range(s.pairs)
               p == Parse(s)
               mode == TlsFromKeywords(Given(P, "encrypt"), Given(P, "trust"))
           IN  /\ P \in SUBSET Pairs /\ Consistent(P)
               /\ \A f \in ParsedFields \ {"ssl_mode"} : p[f] = Given(P, f)
               /\ mode # Bad
               /\ mode = None => p["ssl_mode"] = Given(P, "ssl_mode")
               /\ mode # None => p["ssl_mode"] = mode /\ Given(P, "ssl_mode") \in {None, mode}
               /\ p \in Parsed
<1>. DEFINE P == Range(s.pairs)
            g == Gathered(P)
            mode == TlsFromKeywords(Given(P, "encrypt"), Given(P, "trust"))
<1>1. s.pairs \in Seq(Pairs)
  BY DEF Strings
<1>2. P \in SUBSET Pairs
  BY <1>1 DEF Range
<1>3. Parse(s) = FinishTls(g)
  BY <1>1, FoldGathers DEF Parse
<1>4. g # Bad
  BY <1>3 DEF FinishTls
<1>5. Consistent(P)
  BY <1>4 DEF Gathered
<1>6. g \in Parsed /\ g = [f \in ParsedFields |-> Given(P, f)]
  BY <1>2, <1>5, GatheredTyped
<1>7. {"encrypt", "trust", "ssl_mode"} \subseteq ParsedFields
  BY DEF ParsedFields, SharedFields
<1>8. g["encrypt"] = Given(P, "encrypt") /\ g["trust"] = Given(P, "trust")
      /\ g["ssl_mode"] = Given(P, "ssl_mode")
  BY <1>6, <1>7
<1>. HIDE DEF P, g
<1>9. Parse(s) = IF mode = None THEN g
                 ELSE Add(g, IF mode = Bad THEN Bad ELSE {<<"ssl_mode", mode>>})
  BY <1>3, <1>4, <1>8 DEF FinishTls
<1>10. CASE mode = None
  <2>1. Parse(s) = g
    BY <1>9, <1>10
  <2>2. mode # Bad
    BY <1>10, ParamsAssumption
  <2>3. \A f \in ParsedFields \ {"ssl_mode"} : g[f] = Given(P, f)
    BY <1>6
  <2>. QED
    BY <1>2, <1>5, <1>6, <1>8, <1>10, <2>1, <2>2, <2>3 DEF P
<1>11. CASE mode # None
  <2>. DEFINE new == {<<"ssl_mode", mode>>}
              a0 == <<"ssl_mode", mode>>
  <2>1. mode # Bad
    BY <1>9, <1>11 DEF Add
  <2>2. Parse(s) = Add(g, new)
    BY <1>9, <1>11, <2>1
  <2>3. new # Bad /\ ~\E a \in new : g[a[1]] \notin {None, a[2]}
    BY <2>2 DEF Add
  <2>4. Given(P, "ssl_mode") \in {None, mode}
    BY <1>8, <2>3
  <2>5. Parse(s) = [f \in ParsedFields |->
            IF \E a \in new : a[1] = f THEN (CHOOSE a \in new : a[1] = f)[2] ELSE g[f]]
    BY <1>4, <2>2, <2>3 DEF Add
  <2>6. \A f \in ParsedFields \ {"ssl_mode"} : Parse(s)[f] = Given(P, f)
    BY <1>6, <2>5
  <2>7. Parse(s)["ssl_mode"] = mode
    <3>1. \E a \in new : a[1] = "ssl_mode"
      OBVIOUS
    <3>2. (CHOOSE a \in new : a[1] = "ssl_mode") = a0
      OBVIOUS
    <3>. QED
      BY <1>7, <2>5, <3>1, <3>2
  <2>8. mode \in Modes
    BY <1>11, <2>1 DEF TlsFromKeywords, Modes
  <2>9. Parse(s) \in Parsed
    <3>. DEFINE p == Parse(s)
    <3>1. p = [f \in ParsedFields |-> p[f]]
      BY <2>5
    <3>2. \A f \in ParsedFields : p[f] = None \/ p[f] \in KeywordValues(f)
      <4>1. \A f \in ParsedFields \ {"ssl_mode"} : p[f] = None \/ p[f] \in KeywordValues(f)
        BY <1>2, <1>5, <2>6, GivenTyped
      <4>2. p["ssl_mode"] \in KeywordValues("ssl_mode")
        BY <2>7, <2>8 DEF KeywordValues
      <4>. QED
        BY <4>1, <4>2
    <3>. QED
      BY <3>1, <3>2, ParsedMember
  <2>. QED
    BY <1>2, <1>5, <1>11, <2>1, <2>4, <2>6, <2>7, <2>9 DEF P
<1>. QED
  BY <1>10, <1>11

\* The keywords in the reverse order parse to the same.
LEMMA ParseReversed ==
    ASSUME NEW s \in Strings
    PROVE  /\ [s EXCEPT !.pairs = Reverse(@)] \in Strings
           /\ Parse([s EXCEPT !.pairs = Reverse(@)]) = Parse(s)
<1>. DEFINE q == s.pairs
            t == [s EXCEPT !.pairs = Reverse(@)]
<1>1. q \in Seq(Pairs)
  BY DEF Strings
<1>2. t.form = s.form /\ t.pairs = Reverse(q)
  BY DEF Strings
<1>3. Reverse(q) \in Seq(Pairs) /\ Range(Reverse(q)) = Range(q) /\ (Reverse(q) = <<>>) = (q = <<>>)
  <2>1. PICK n \in Nat : Len(q) = n /\ DOMAIN q = 1..n /\ q \in [1..n -> Pairs]
    BY <1>1
  <2>2. Reverse(q) = [i \in 1..n |-> q[(n - i) + 1]]
    BY <2>1 DEF Reverse
  <2>3. \A i \in 1..n : (n - i) + 1 \in 1..n /\ (n - ((n - i) + 1)) + 1 = i
    BY <2>1
  <2>4. DOMAIN Reverse(q) = 1..n /\ \A i \in 1..n : Reverse(q)[i] = q[(n - i) + 1]
    BY <2>2
  <2>5. Reverse(q) \in [1..n -> Pairs]
    BY <2>1, <2>2, <2>3
  <2>6. Range(Reverse(q)) = Range(q)
    <3>1. Range(Reverse(q)) \subseteq Range(q)
      BY <2>1, <2>3, <2>4 DEF Range
    <3>2. ASSUME NEW i \in 1..n PROVE q[i] \in Range(Reverse(q))
      <4>1. Reverse(q)[(n - i) + 1] = q[i]
        BY <2>3, <2>4
      <4>. QED
        BY <2>3, <2>4, <4>1 DEF Range
    <3>. QED
      BY <2>1, <3>1, <3>2 DEF Range
  <2>7. Reverse(q) \in Seq(Pairs) /\ Len(Reverse(q)) = n
    BY <2>1, <2>5
  <2>. QED
    BY <1>1, <2>1, <2>6, <2>7
<1>4. t \in Strings
  BY <1>3 DEF Strings
<1>5. Parse(t) = Parse(s)
  BY <1>1, <1>2, <1>3, FoldGathers DEF Parse
<1>. QED
  BY <1>4, <1>5
-----------------------------------------------------------------------------
(* What a resolution that is not refused returns, field by field.          *)

\* What the connection string says of field f, None if nothing.
Told(s, f) == IF s.form = "none" THEN None ELSE Parse(s)[f]

\* r is q with each field that the string names as the string says, which q
\* does not contradict, and the others as they were.
Reconciled(q, r) ==
    /\ r.string = q.string /\ r.extra = q.extra
    /\ q.string.form # "none" => Parse(q.string) # Bad
    /\ \A f \in TextFields \cup {"host"} :
          IF Told(q.string, f) = None THEN r[f] \in {q[f], NonEmpty(q[f])}
          ELSE /\ r[f] = Told(q.string, f)
               /\ NonEmpty(q[f]) # None => Same(Trim(q[f]), Told(q.string, f), f)
    /\ \A f \in {"port", "ssl_mode"} :
          IF Told(q.string, f) = None THEN r[f] = q[f]
          ELSE r[f] = Told(q.string, f) /\ q[f] \in {None, r[f]}
    /\ IF Told(q.string, "database") = None THEN r.database = q.database
       ELSE /\ r.database = Told(q.string, "database")
            /\ Blank(q.database) \/ Trim(q.database) = r.database
    /\ Told(q.string, "integrated") \in {None, r.integrated}
    /\ Told(q.string, "integrated") = None => r.integrated = (q.integrated \/ q.extra = TRUE)
    /\ r.integrated => NonEmpty(r.username) = None /\ NonEmpty(r.password) = None

LEMMA ObjectMember ==
    ASSUME NEW r, IsObject(r),
           \A f \in TextFields \cup {"host"} : r[f] \in Texts \cup {None},
           r.port \in Nat \cup {None}, r.database \in Texts,
           r.ssl_mode \in Modes \cup {None, Bad}, r.integrated \in BOOLEAN,
           r.extra \in BOOLEAN \cup {None, Bad}, r.string \in Strings \cup {None}
    PROVE  r \in Objects
<1>1. /\ r.host \in Texts \cup {None} /\ r.username \in Texts \cup {None}
      /\ r.password \in Texts \cup {None} /\ r.ssl_ca \in Texts \cup {None}
  BY DEF TextFields
<1>. QED
  BY <1>1 DEF IsObject, Objects, Fields

LEMMA ObjectTyped ==
    ASSUME NEW r \in Objects
    PROVE  /\ IsObject(r) /\ r # Bad
           /\ \A f \in TextFields \cup {"host"} : r[f] \in Texts \cup {None}
           /\ r.port \in Nat \cup {None} /\ r.database \in Texts
           /\ r.ssl_mode \in Modes \cup {None, Bad} /\ r.integrated \in BOOLEAN
           /\ r.extra \in BOOLEAN \cup {None, Bad} /\ r.string \in Strings \cup {None}
<1>1. r # Bad
  BY ParamsAssumption
<1>2. IsObject(r)
  BY ObjectShape
<1>. QED
  BY <1>1, <1>2 DEF Objects, TextFields

LEMMA ParsedTyped ==
    ASSUME NEW p \in Parsed
    PROVE  /\ p # Bad
           /\ \A f \in TextFields \cup {"host", "database"} : p[f] \in Texts \cup {None}
           /\ p["port"] \in Nat \cup {None} /\ p["ssl_mode"] \in Modes \cup {None}
           /\ p["integrated"] \in BOOLEAN \cup {None}
<1>1. p # Bad
  BY ParamsAssumption
<1>. QED
  BY <1>1 DEF Parsed, TextFields

\* Neither None nor Bad is a value.
LEMMA Apart ==
    \A x \in {None, Bad} : /\ x \notin Texts /\ x \notin Nat /\ x \notin BOOLEAN
                           /\ x \notin Modes
BY ParamsAssumption

\* The object a resolution starts from.
LEMMA StartedTyped ==
    ASSUME NEW q \in Objects
    PROVE  /\ Started(q) \in Objects
           /\ \A f \in Fields \ {"integrated"} : Started(q)[f] = q[f]
           /\ Started(q).integrated = (q.integrated \/ q.extra = TRUE)
<1>. DEFINE d == Started(q)
<1>1. IsObject(q) /\ q.integrated \in BOOLEAN
  BY ObjectTyped
<1>2. IsObject(d) /\ \A f \in Fields \ {"integrated"} : d[f] = q[f]
  BY <1>1, StartedShape DEF Started, IsObject
<1>3. d.integrated = (q.integrated \/ q.extra = TRUE) /\ d.integrated \in BOOLEAN
  BY <1>1 DEF Started, IsObject, Fields
<1>4. d \in Objects
  <2>1. \A f \in TextFields \cup {"host", "port", "database", "ssl_mode", "extra", "string"} :
           d[f] = q[f]
    BY <1>2 DEF Fields, TextFields
  <2>. HIDE DEF d
  <2>. QED
    BY <1>2, <1>3, <2>1, ObjectTyped, ObjectMember
<1>. QED
  BY <1>2, <1>3, <1>4

\* A resolution that is not refused is the start merged with the parse.
LEMMA ResolveCases ==
    ASSUME NEW q, Resolve(q) # Bad
    PROVE  LET d == Started(q)
               r == Resolve(q)
           IN  /\ q.ssl_mode # Bad /\ q.extra # Bad
               /\ ~(r.integrated /\ (NonEmpty(r.username) # None \/ NonEmpty(r.password) # None))
               /\ \/ q.string.form = "none" /\ r = d
                  \/ /\ q.string.form # "none" /\ Parse(q.string) # Bad
                     /\ r = Merge(d, Parse(q.string))
                     /\ \A f \in SharedFields \cup {"database", "integrated"} : r[f] # Bad
<1>. DEFINE d == Started(q)
            r == Resolve(q)
<1>1. q.ssl_mode # Bad /\ q.extra # Bad
  BY DEF Resolve
<1>2. CASE q.string.form = "none"
  <2>1. r = Alone(d) /\ r # Bad
    BY <1>1, <1>2 DEF Resolve, Started
  <2>. QED
    BY <1>1, <1>2, <2>1 DEF Alone
<1>3. CASE q.string.form # "none"
  <2>1. Parse(q.string) # Bad /\ r = Checked(Merge(d, Parse(q.string))) /\ r # Bad
    BY <1>1, <1>3 DEF Resolve, Started
  <2>. HIDE DEF d, r
  <2>. QED
    BY <1>1, <1>3, <2>1 DEF Checked, Alone, d, r
<1>. QED
  BY <1>2, <1>3

\* It is an object again, reconciled with the one it was made of.
LEMMA ResolveReconciles ==
    ASSUME NEW q \in Objects, q.string \in Strings, Resolve(q) # Bad
    PROVE  Resolve(q) \in Objects /\ Reconciled(q, Resolve(q))
<1>. DEFINE d == Started(q)
            r == Resolve(q)
            p == Parse(q.string)
<1>1. /\ d \in Objects /\ \A f \in Fields \ {"integrated"} : d[f] = q[f]
      /\ d.integrated = (q.integrated \/ q.extra = TRUE)
  BY StartedTyped
<1>2. r.integrated => NonEmpty(r.username) = None /\ NonEmpty(r.password) = None
  BY ResolveCases
<1>3. CASE q.string.form = "none"
  <2>1. r = d
    BY <1>3, ResolveCases
  <2>. QED
    BY <1>1, <1>2, <1>3, <2>1 DEF Reconciled, Told, Fields, TextFields
<1>4. CASE q.string.form # "none"
  <2>1. /\ p # Bad /\ r = Merge(d, p)
        /\ \A f \in SharedFields \cup {"database", "integrated"} : r[f] # Bad
    BY <1>4, ResolveCases
  <2>2. p \in Parsed
    BY <2>1, ParseAccepts
  <2>. HIDE DEF d, r, p
  <2>3. /\ IsObject(r) /\ r.string = d.string /\ r.extra = d.extra
        /\ r.host = ReconcileText(d.host, p["host"], "host")
        /\ r.username = ReconcileText(d.username, p["username"], "username")
        /\ r.password = ReconcileText(d.password, p["password"], "password")
        /\ r.ssl_ca = ReconcileText(d.ssl_ca, p["ssl_ca"], "ssl_ca")
        /\ r.port = ReconcileValue(d.port, p["port"])
        /\ r.ssl_mode = ReconcileValue(d.ssl_mode, p["ssl_mode"])
        /\ r.database = ReconcileDatabase(d.database, p["database"])
        /\ r.integrated = ReconcileFlag(d.integrated, p["integrated"])
    BY <1>1, <2>1, ObjectTyped, MergeShape
  <2>4. \A f \in TextFields \cup {"host"} :
           r[f] # Bad /\ r[f] = ReconcileText(d[f], p[f], f) /\ d[f] = q[f]
    BY <1>1, <2>1, <2>3 DEF TextFields, SharedFields, Fields
  <2>5. ASSUME NEW f \in TextFields \cup {"host"}
        PROVE  /\ r[f] \in Texts \cup {None}
               /\ IF p[f] = None THEN r[f] \in {q[f], NonEmpty(q[f])}
                  ELSE r[f] = p[f] /\ (NonEmpty(q[f]) # None => Same(Trim(q[f]), p[f], f))
    <3>1. p[f] \in Texts \cup {None} /\ q[f] \in Texts \cup {None}
      BY <2>2, ParsedTyped, ObjectTyped
    <3>. QED
      BY <2>4, <3>1 DEF ReconcileText, NonEmpty
  <2>6. \A f \in {"port", "ssl_mode"} :
           IF p[f] = None THEN r[f] = q[f] ELSE r[f] = p[f] /\ q[f] \in {None, p[f]}
    <3>1. r.port # Bad /\ r.ssl_mode # Bad /\ d.port = q.port /\ d.ssl_mode = q.ssl_mode
      BY <1>1, <2>1 DEF SharedFields, Fields
    <3>. QED
      BY <2>3, <3>1 DEF ReconcileValue
  <2>7. IF p["database"] = None THEN r.database = q.database
        ELSE r.database = p["database"] /\ (Blank(q.database) \/ Trim(q.database) = p["database"])
    <3>1. r.database # Bad /\ d.database = q.database
      BY <1>1, <2>1 DEF Fields
    <3>. QED
      BY <2>3, <3>1 DEF ReconcileDatabase
  <2>8. r.integrated = IF p["integrated"] = None THEN d.integrated ELSE p["integrated"]
    <3>1. r.integrated # Bad
      BY <2>1
    <3>. QED
      BY <2>3, <3>1 DEF ReconcileFlag
  <2>9. r \in Objects
    <3>1. r.port \in Nat \cup {None} /\ r.ssl_mode \in Modes \cup {None, Bad}
      BY <2>2, <2>6, ParsedTyped, ObjectTyped
    <3>2. r.database \in Texts /\ r.integrated \in BOOLEAN
      BY <1>1, <2>2, <2>7, <2>8, ParsedTyped, ObjectTyped
    <3>3. r.extra \in BOOLEAN \cup {None, Bad} /\ r.string \in Strings \cup {None}
      BY <1>1, <2>3, ObjectTyped
    <3>4. \A f \in TextFields \cup {"host"} : r[f] \in Texts \cup {None}
      BY <2>5
    <3>. QED
      BY <2>3, <3>1, <3>2, <3>3, <3>4, ObjectMember
  <2>10. \A f : Told(q.string, f) = p[f]
    BY <1>4 DEF Told, p
  <2>11. r.string = q.string /\ r.extra = q.extra
    BY <1>1, <2>3 DEF Fields
  <2>12. Reconciled(q, r)
    BY <1>1, <1>2, <2>1, <2>5, <2>6, <2>7, <2>8, <2>10, <2>11 DEF Reconciled, p, r
  <2>. QED
    BY <2>9, <2>12 DEF r
<1>. QED
  BY <1>3, <1>4

\* Reconciling again keeps what the first resolution was reconciled with.
LEMMA ReconciledAgain ==
    ASSUME NEW q \in Objects, NEW r \in Objects, NEW s \in Objects,
           Reconciled(q, r), Reconciled(r, s)
    PROVE  Reconciled(q, s)
<1>1. r.string = q.string /\ r.extra = q.extra /\ s.string = q.string /\ s.extra = q.extra
  BY DEF Reconciled
<1>. DEFINE T(f) == Told(q.string, f)
<1>2. \A f : Told(r.string, f) = T(f)
  BY <1>1
<1>. HIDE DEF T
<1>3. ASSUME NEW f \in TextFields \cup {"host"}
      PROVE  IF T(f) = None THEN s[f] \in {q[f], NonEmpty(q[f])}
             ELSE s[f] = T(f) /\ (NonEmpty(q[f]) # None => Same(Trim(q[f]), T(f), f))
  <2>1. CASE T(f) = None
    <3>1. r[f] \in {q[f], NonEmpty(q[f])} /\ s[f] \in {r[f], NonEmpty(r[f])}
      BY <1>2, <2>1 DEF Reconciled, T
    <3>. QED
      BY <2>1, <3>1 DEF NonEmpty
  <2>2. CASE T(f) # None
    BY <1>2, <2>2 DEF Reconciled, T
  <2>. QED
    BY <2>1, <2>2
<1>4. ASSUME NEW f \in {"port", "ssl_mode"}
      PROVE  IF T(f) = None THEN s[f] = q[f] ELSE s[f] = T(f) /\ q[f] \in {None, s[f]}
  BY <1>2 DEF Reconciled, T
<1>5. IF T("database") = None THEN s.database = q.database
      ELSE s.database = T("database") /\ (Blank(q.database) \/ Trim(q.database) = s.database)
  BY <1>2 DEF Reconciled, T
<1>6. /\ T("integrated") \in {None, s.integrated}
      /\ T("integrated") = None => s.integrated = (q.integrated \/ q.extra = TRUE)
  <2>1. q.integrated \in BOOLEAN /\ r.integrated \in BOOLEAN
    BY ObjectTyped
  <2>2. T("integrated") \in {None, s.integrated}
    BY <1>2 DEF Reconciled, T
  <2>3. ASSUME T("integrated") = None
        PROVE  s.integrated = (q.integrated \/ q.extra = TRUE)
    <3>1. s.integrated = (r.integrated \/ r.extra = TRUE)
      BY <1>2, <2>3 DEF Reconciled, T
    <3>2. r.integrated = (q.integrated \/ q.extra = TRUE)
      BY <2>3 DEF Reconciled, T
    <3>. QED
      BY <1>1, <2>1, <3>1, <3>2
  <2>. QED
    BY <2>2, <2>3
<1>7. /\ s.integrated => NonEmpty(s.username) = None /\ NonEmpty(s.password) = None
      /\ q.string.form # "none" => Parse(q.string) # Bad
  BY DEF Reconciled
<1>. QED
  BY <1>1, <1>3, <1>4, <1>5, <1>6, <1>7 DEF Reconciled, T
-----------------------------------------------------------------------------
(* The inductive invariant.                                                *)

TypeInv ==
    /\ request \in Objects /\ params \in Objects
    /\ request.string \in Strings /\ params.string = request.string
    /\ stage \in {"sent", "received", "keyed", "built", "refused"}

\* Without a connection string there is no pair.
StringGiven == request.string.form = "none" => request.string.pairs = <<>>

\* The parameters are those of the request until it is resolved, and after
\* that reconciled with the request; so is what the driver is configured from.
FollowsRequest ==
    /\ stage = "sent" => params = request
    /\ stage \in {"received", "keyed"} => Reconciled(request, params)
    /\ stage = "built" =>
         \E r \in Objects : Reconciled(request, r) /\ config = ConfigOf(r) /\ config # Bad

IInv == TypeInv /\ StringGiven /\ FollowsRequest

LEMMA InitIInv == Init => IInv
<1>. SUFFICES ASSUME Init PROVE IInv
  OBVIOUS
<1>1. PICK n \in 0..MaxGiven, form \in {"none", "keywords", "url", "foreign"} :
         \E d \in Discrete[MaxGiven - n], p \in [1..n -> Pairs] :
             /\ form \in {"none", "foreign"} => n = 0
             /\ request = [d EXCEPT !.string = [form |-> form, pairs |-> p]]
  BY DEF Init
<1>2. PICK d \in Discrete[MaxGiven - n] : \E p \in [1..n -> Pairs] :
         request = [d EXCEPT !.string = [form |-> form, pairs |-> p]]
  BY <1>1
<1>3. PICK p \in [1..n -> Pairs] : request = [d EXCEPT !.string = [form |-> form, pairs |-> p]]
  BY <1>2
<1>4. n \in Nat /\ MaxGiven - n \in 0..MaxGiven
  BY ParamsAssumption
<1>5. d \in Objects
  BY <1>4, ParamsAssumption
<1>. DEFINE s == [form |-> form, pairs |-> p]
<1>6. p \in Seq(Pairs) /\ s \in Strings
  BY <1>4 DEF Strings
<1>7. n = 0 => p = <<>>
  BY <1>4
<1>8. s.form = form /\ s.pairs = p
  OBVIOUS
<1>9. request = [d EXCEPT !.string = s] /\ s \in Strings
  BY <1>3, <1>6
<1>. HIDE DEF s
<1>10. request.string = s /\ request \in Objects
  BY <1>5, <1>9 DEF Objects
<1>11. StringGiven
  BY <1>1, <1>7, <1>8, <1>10 DEF StringGiven
<1>. QED
  BY <1>9, <1>10, <1>11 DEF Init, IInv, TypeInv, FollowsRequest

\* A resolution step, by what it was resolved from.
LEMMA ResolvedIInv ==
    ASSUME IInv, NEW from, NEW next, Resolved(from, next), UNCHANGED <<request, config>>,
           \/ from = "sent" /\ next = "received"
           \/ from = "received" /\ next = "keyed"
    PROVE  IInv'
<1>1. stage = from
  BY DEF Resolved
<1>2. CASE Resolve(params) = Bad
  BY <1>2 DEF Resolved, IInv, TypeInv, StringGiven, FollowsRequest
<1>3. CASE Resolve(params) # Bad
  <2>1. params' = Resolve(params) /\ stage' = next
    BY <1>3 DEF Resolved
  <2>2. params \in Objects /\ params.string \in Strings /\ request \in Objects
    BY DEF IInv, TypeInv
  <2>3. Resolve(params) \in Objects /\ Reconciled(params, Resolve(params))
    BY <1>3, <2>2, ResolveReconciles
  <2>4. Resolve(params).string = request.string
    BY <2>3 DEF Reconciled, IInv, TypeInv
  <2>5. Reconciled(request, Resolve(params))
    <3>1. CASE from = "sent"
      BY <1>1, <2>3, <3>1 DEF IInv, FollowsRequest
    <3>2. CASE from = "received"
      <4>1. Reconciled(request, params)
        BY <1>1, <3>2 DEF IInv, FollowsRequest
      <4>. QED
        BY <2>2, <2>3, <4>1, ReconciledAgain
    <3>. QED
      BY <3>1, <3>2
  <2>6. TypeInv' /\ StringGiven'
    BY <2>1, <2>3, <2>4 DEF IInv, TypeInv, StringGiven
  <2>7. Reconciled(request', params')
    BY <2>1, <2>5
  <2>8. FollowsRequest'
    BY <2>1, <2>7 DEF FollowsRequest
  <2>. QED
    BY <2>6, <2>8 DEF IInv
<1>. QED
  BY <1>2, <1>3

LEMMA BuildIInv == IInv /\ BuildConfig => IInv'
<1>. SUFFICES ASSUME IInv, BuildConfig PROVE IInv'
  OBVIOUS
<1>. DEFINE r == Resolve(params)
            c == IF r = Bad THEN Bad ELSE ConfigOf(r)
<1>1. stage = "keyed" /\ UNCHANGED <<request, params>>
  BY DEF BuildConfig
<1>2. \/ c = Bad /\ stage' = "refused"
      \/ c # Bad /\ stage' = "built" /\ config' = c
  BY DEF BuildConfig
<1>. HIDE DEF c, r
<1>3. TypeInv' /\ StringGiven'
  BY <1>1, <1>2 DEF IInv, TypeInv, StringGiven
<1>4. CASE c = Bad /\ stage' = "refused"
  BY <1>3, <1>4 DEF IInv, FollowsRequest
<1>5. CASE c # Bad /\ stage' = "built" /\ config' = c
  <2>1. params \in Objects /\ params.string \in Strings /\ request \in Objects
        /\ Reconciled(request, params)
    BY <1>1 DEF IInv, TypeInv, FollowsRequest
  <2>2. r # Bad /\ c = ConfigOf(r)
    BY <1>5 DEF c
  <2>3. r \in Objects /\ Reconciled(params, r)
    BY <2>1, <2>2, ResolveReconciles DEF r
  <2>4. Reconciled(request, r)
    BY <2>1, <2>3, ReconciledAgain
  <2>5. r \in Objects /\ Reconciled(request', r) /\ config' = ConfigOf(r) /\ config' # Bad
    BY <1>1, <1>5, <2>2, <2>3, <2>4
  <2>6. FollowsRequest'
    BY <1>5, <2>5 DEF FollowsRequest
  <2>. QED
    BY <1>3, <2>6 DEF IInv
<1>. QED
  BY <1>2, <1>4, <1>5

LEMMA NextIInv == IInv /\ [Next]_vars => IInv'
<1>. SUFFICES ASSUME IInv, [Next]_vars PROVE IInv'
  OBVIOUS
<1>1. CASE ConnParams
  BY <1>1, ResolvedIInv DEF ConnParams
<1>2. CASE GetPool
  BY <1>2, ResolvedIInv DEF GetPool
<1>3. CASE BuildConfig
  BY <1>3, BuildIInv
<1>4. CASE UNCHANGED vars
  <2>1. request' = request /\ params' = params /\ stage' = stage /\ config' = config
    BY <1>4 DEF vars
  <2>2. TypeInv' /\ StringGiven'
    BY <2>1 DEF IInv, TypeInv, StringGiven
  <2>3. FollowsRequest'
    BY <2>1 DEF IInv, FollowsRequest
  <2>. QED
    BY <2>2, <2>3 DEF IInv
<1>. QED
  BY <1>1, <1>2, <1>3, <1>4 DEF Next, Done
-----------------------------------------------------------------------------
(* Nothing is chosen silently.                                             *)

\* Every pair of an accepted string is heard.
LEMMA Heard ==
    ASSUME NEW s \in Strings, s.form = "none" => s.pairs = <<>>,
           s.form # "none" => Parse(s) # Bad, NEW p \in Range(s.pairs)
    PROVE  /\ p \in Pairs /\ p.value # Bad /\ s.form # "none"
           /\ p.key \in ParsedFields => /\ Told(s, p.key) = p.value /\ p.value # None
                                        /\ p.value \in KeywordValues(p.key)
           /\ p.key \in HostKeys => /\ Told(s, "host") = p.value /\ p.value # None
                                    /\ p.value \in Texts
                                    /\ p.port # None => Told(s, "port") = p.port
<1>. DEFINE P == Range(s.pairs)
            mode == TlsFromKeywords(Given(P, "encrypt"), Given(P, "trust"))
<1>1. s.form # "none"
  BY DEF Range
<1>2. /\ P \in SUBSET Pairs /\ Consistent(P)
      /\ \A f \in ParsedFields \ {"ssl_mode"} : Parse(s)[f] = Given(P, f)
      /\ mode = None => Parse(s)["ssl_mode"] = Given(P, "ssl_mode")
      /\ mode # None => Parse(s)["ssl_mode"] = mode /\ Given(P, "ssl_mode") \in {None, mode}
  BY <1>1, ParseAccepts
<1>3. p \in P
  OBVIOUS
<1>. HIDE DEF P, mode
<1>4. p \in Pairs /\ Assigns(p) # Bad
  BY <1>2, <1>3 DEF Consistent
<1>5. \A a \in Assigns(p) : a[1] \in ParsedFields /\ a[2] # None /\ a[2] \in KeywordValues(a[1])
  BY <1>4, AssignsTyped
<1>6. \A a \in Assigns(p) : Told(s, a[1]) = a[2]
  <2>1. \A a \in Assigns(p) : Given(P, a[1]) = a[2]
    BY <1>2, <1>3, GivenIs
  <2>2. \A f : Told(s, f) = Parse(s)[f]
    BY <1>1 DEF Told
  <2>3. \A a \in Assigns(p) : a[1] = "ssl_mode" => Parse(s)["ssl_mode"] = a[2]
    BY <1>2, <1>5, <2>1
  <2>. QED
    BY <1>2, <1>5, <2>1, <2>2, <2>3
<1>7. p.value # Bad
  BY <1>4, AssignsByKey
<1>8. ASSUME p.key \in ParsedFields
      PROVE  /\ Told(s, p.key) = p.value /\ p.value # None
             /\ p.value \in KeywordValues(p.key)
  <2>1. <<p.key, p.value>> \in Assigns(p)
    BY <1>4, <1>8, AssignsByKey
  <2>. QED
    BY <1>5, <1>6, <2>1
<1>9. ASSUME p.key \in HostKeys
      PROVE  /\ Told(s, "host") = p.value /\ p.value # None
             /\ p.value \in Texts
             /\ p.port # None => Told(s, "port") = p.port
  <2>1. /\ <<"host", p.value>> \in Assigns(p)
        /\ p.port # None => <<"port", p.port>> \in Assigns(p)
    BY <1>4, <1>9, AssignsByKey
  <2>2. p.value \in Texts
    BY <1>4, <1>7, <1>9, PairTyped
  <2>. QED
    BY <1>5, <1>6, <2>1, <2>2
<1>. QED
  BY <1>1, <1>4, <1>7, <1>8, <1>9

LEMMA HeardHost ==
    ASSUME NEW s \in Strings, s.form = "none" => s.pairs = <<>>,
           s.form # "none" => Parse(s) # Bad, NEW p \in Range(s.pairs), p.key \in HostKeys
    PROVE  /\ Told(s, "host") = p.value /\ p.value # None /\ p.value \in Texts
           /\ p.port # None => Told(s, "port") = p.port
BY Heard

LEMMA TextParts ==
    ASSUME NEW w, NEW u, NEW p
    PROVE  Text(w, u, p).word = w /\ Text(w, u, p).upper = u /\ Text(w, u, p).padded = p
BY DEF Text

LEMMA TextExcept ==
    ASSUME NEW t \in Texts, NEW x
    PROVE  /\ [t EXCEPT !.upper = x] = Text(t.word, x, t.padded)
           /\ [t EXCEPT !.padded = x] = Text(t.word, t.upper, x)
BY DEF Texts, Text

\* A text differs from its trimmed form in the blanks only.
LEMMA TrimText ==
    ASSUME NEW t \in Texts
    PROVE  /\ Trim(t) \in Texts /\ Trim(t) = Text(t.word, t.upper, FALSE)
           /\ Trim(t).word = t.word /\ Trim(Trim(t)) = Trim(t)
           /\ [t EXCEPT !.upper = FALSE] = Text(t.word, FALSE, t.padded)
           /\ [Trim(t) EXCEPT !.upper = FALSE] = Text(t.word, FALSE, FALSE)
<1>1. t = Text(t.word, t.upper, t.padded) /\ t.word \in STRING /\ t.upper \in BOOLEAN
  BY DEF Texts, Text
<1>. PICK x : x = FALSE
  OBVIOUS
<1>2. \A a \in Texts : Trim(a) = Text(a.word, a.upper, x)
  BY TextExcept DEF Trim
<1>3. Text(t.word, t.upper, x) \in Texts
  <2>1. x \in BOOLEAN
    OBVIOUS
  <2>. QED
    BY <1>1, <2>1 DEF Texts, Text
<1>4. /\ Trim(t) \in Texts /\ Trim(t).word = t.word /\ Trim(t).upper = t.upper
      /\ Trim(t).padded = x
  BY <1>2, <1>3, TextParts
<1>5. Trim(Trim(t)) = Text(t.word, t.upper, x)
  BY <1>2, <1>4
<1>6. [t EXCEPT !.upper = x] = Text(t.word, x, t.padded)
  BY TextExcept
<1>7. [Trim(t) EXCEPT !.upper = x] = Text(t.word, x, x)
  <2>1. PICK u \in Texts : u = Trim(t)
    BY <1>4
  <2>2. [u EXCEPT !.upper = x] = Text(u.word, x, u.padded)
    BY TextExcept
  <2>3. u.word = t.word /\ u.padded = x
    BY <1>4, <2>1
  <2>. QED
    BY <2>1, <2>2, <2>3
<1>. QED
  BY <1>2, <1>4, <1>5, <1>6, <1>7

LEMMA SameTrimmed ==
    ASSUME NEW a \in Texts, NEW b \in Texts, NEW field, Same(Trim(a), b, field)
    PROVE  Same(Trim(a), Trim(b), field) /\ (field # "host" => Trim(a) = b /\ Trim(a) = Trim(b))
<1>1. Trim(a) \in Texts /\ Trim(b) \in Texts
  BY TrimText
<1>2. CASE field = "host"
  <2>1. Text(a.word, FALSE, FALSE) = Text(b.word, FALSE, b.padded)
    <3>1. [Trim(a) EXCEPT !.upper = FALSE] = [b EXCEPT !.upper = FALSE]
      BY <1>2 DEF Same
    <3>2. [Trim(a) EXCEPT !.upper = FALSE] = Text(a.word, FALSE, FALSE)
      BY TrimText
    <3>. QED
      BY <3>1, <3>2, TrimText
  <2>2. a.word = b.word
    BY <2>1 DEF Text
  <2>3. /\ [Trim(a) EXCEPT !.upper = FALSE] = Text(a.word, FALSE, FALSE)
        /\ [Trim(b) EXCEPT !.upper = FALSE] = Text(b.word, FALSE, FALSE)
    BY TrimText
  <2>. QED
    BY <1>2, <2>2, <2>3 DEF Same
<1>3. CASE field # "host"
  <2>1. Trim(a) = b
    BY <1>3 DEF Same
  <2>2. Trim(Trim(a)) = Trim(a)
    BY TrimText
  <2>. QED
    BY <1>3, <2>1, <2>2 DEF Same
<1>. QED
  BY <1>2, <1>3

\* A text that the request or its string names is the one of the result.
LEMMA TextKept ==
    ASSUME NEW q \in Objects, q.string \in Strings,
           q.string.form = "none" => q.string.pairs = <<>>, NEW r \in Objects,
           Reconciled(q, r), NEW f \in {"host", "username", "password"},
           NEW t \in AskedText(q, f)
    PROVE  r[f] \in Texts /\ Same(t, Trim(r[f]), f) /\ r[f] # None
           /\ (f # "host" => ~Blank(r[f]) /\ t = Trim(r[f]))
<1>1. PICK u \in Asked(q, f) : u \notin {None, Bad} /\ ~Blank(u) /\ t = Trim(u)
  BY DEF AskedText
<1>2. \/ \E p \in Range(q.string.pairs) :
            (p.key = f \/ (f = "host" /\ p.key \in HostKeys)) /\ u = p.value
      \/ u = q[f]
  BY <1>1 DEF Asked, PairsOf
<1>3. /\ f \in TextFields \cup {"host"} /\ f \in ParsedFields /\ KeywordValues(f) = Texts
  BY DEF TextFields, ParsedFields, SharedFields, KeywordValues
<1>4. q[f] \in Texts \cup {None} /\ r[f] \in Texts \cup {None}
  BY <1>3, ObjectTyped
<1>5. /\ Told(q.string, f) = None => r[f] \in {q[f], NonEmpty(q[f])}
      /\ Told(q.string, f) # None => /\ r[f] = Told(q.string, f)
                                     /\ NonEmpty(q[f]) # None =>
                                          Same(Trim(q[f]), Told(q.string, f), f)
  BY <1>3 DEF Reconciled
<1>6. u \in Texts /\ r[f] \in Texts /\ (r[f] = u \/ Same(Trim(u), r[f], f))
  <2>1. CASE u = q[f]
    <3>1. u \in Texts /\ NonEmpty(q[f]) = u /\ u # None
      BY <1>1, <1>4, <2>1, NoneIsNoValue DEF NonEmpty
    <3>. QED
      BY <1>4, <1>5, <2>1, <3>1
  <2>2. CASE \E p \in Range(q.string.pairs) :
               (p.key = f \/ (f = "host" /\ p.key \in HostKeys)) /\ u = p.value
    <3>1. PICK p \in Range(q.string.pairs) :
             (p.key = f \/ (f = "host" /\ p.key \in HostKeys)) /\ u = p.value
      BY <2>2
    <3>2. q.string.form # "none" => Parse(q.string) # Bad
      BY DEF Reconciled
    <3>3. CASE p.key = f
      <4>1. Told(q.string, f) = u /\ u # None /\ u \in Texts
        BY <1>3, <3>1, <3>2, <3>3, Heard
      <4>. QED
        BY <1>5, <4>1
    <3>4. CASE p.key # f
      <4>1. f = "host" /\ p.key \in HostKeys
        BY <3>1, <3>4
      <4>2. Told(q.string, f) = u /\ u # None /\ u \in Texts
        BY <3>1, <3>2, <4>1, HeardHost
      <4>. QED
        BY <1>5, <4>2
    <3>. QED
      BY <3>3, <3>4
  <2>. QED
    BY <1>2, <2>1, <2>2
<1>7. CASE r[f] = u
  BY <1>1, <1>6, <1>7, NoneIsNoValue DEF Same
<1>8. CASE Same(Trim(u), r[f], f)
  <2>1. Same(Trim(u), Trim(r[f]), f) /\ (f # "host" => Trim(u) = r[f] /\ Trim(u) = Trim(r[f]))
    BY <1>6, <1>8, SameTrimmed
  <2>2. Trim(u).word = u.word
    BY <1>6, TrimText
  <2>. QED
    BY <1>1, <1>6, <2>1, <2>2, NoneIsNoValue DEF Blank
<1>. QED
  BY <1>6, <1>7, <1>8

\* The configuration that parameters r make, field by field.
EncryptionOf(mode) ==
    IF mode = "disable" THEN "off"
    ELSE IF mode \in {"require", "verify-full"} THEN "required" ELSE "on"

LEMMA ConfigFields ==
    ASSUME NEW r, ConfigOf(r) # Bad
    PROVE  /\ ConfigOf(r).host = Else(r.host, DefaultHost)
           /\ ConfigOf(r).port = Else(r.port, DefaultPort)
           /\ ConfigOf(r).database = r.database
           /\ ~r.integrated =>
                 ConfigOf(r).auth = [username |-> Else(r.username, DefaultUser),
                                     password |-> Else(r.password, NoText)]
           /\ ConfigOf(r).encryption = EncryptionOf(r.ssl_mode)
           /\ r.ssl_mode = "verify-full" => (ConfigOf(r).trust => TrustAll)
<1>. DEFINE host == Else(r.host, DefaultHost)
            port == Else(r.port, DefaultPort)
            auth == IF r.integrated THEN None
                    ELSE [username |-> Else(r.username, DefaultUser),
                          password |-> Else(r.password, NoText)]
            encryption == CASE r.ssl_mode = "disable" -> "off"
                            [] r.ssl_mode \in {"require", "verify-full"} -> "required"
                            [] OTHER -> "on"
            trust == TrustAll \/ r.ssl_mode \notin {"disable", "verify-full"}
            c == ConfigOf(r)
            unsupported == \/ r.ssl_ca # None /\ r.ssl_ca # NoText
                           \/ r.ssl_mode = "verify-ca"
<1>1. c = IF unsupported THEN Bad
          ELSE [host |-> host, port |-> port, database |-> r.database, auth |-> auth,
                encryption |-> encryption, trust |-> trust]
  BY DEF ConfigOf
<1>2. c # Bad
  OBVIOUS
<1>3. ~r.integrated =>
         auth = [username |-> Else(r.username, DefaultUser),
                 password |-> Else(r.password, NoText)]
  OBVIOUS
<1>4. encryption = EncryptionOf(r.ssl_mode)
  BY DEF EncryptionOf
<1>5. r.ssl_mode = "verify-full" => (trust => TrustAll)
  OBVIOUS
<1>. HIDE DEF host, port, auth, encryption, trust, c, unsupported
<1>6. /\ c.host = host /\ c.port = port /\ c.database = r.database /\ c.auth = auth
      /\ c.encryption = encryption /\ c.trust = trust
  BY <1>1, <1>2
<1>. QED
  BY <1>3, <1>4, <1>5, <1>6, Zenon DEF host, port, c

\* Without integrated authentication the configuration has a user's.
LEMMA AuthGiven ==
    ASSUME NEW r \in Objects, ConfigOf(r) # Bad, ~r.integrated
    PROVE  /\ ConfigOf(r).auth # None
           /\ ConfigOf(r).auth["username"] = Else(r.username, DefaultUser)
           /\ ConfigOf(r).auth["password"] = Else(r.password, NoText)
<1>. DEFINE c == ConfigOf(r)
            u == Else(r.username, DefaultUser)
            w == Else(r.password, NoText)
<1>1. c.auth = [username |-> u, password |-> w]
  BY ConfigFields
<1>2. r.username \in Texts \cup {None} /\ r.password \in Texts \cup {None}
  BY ObjectTyped DEF TextFields
<1>3. u \in Texts \cup {DefaultUser} /\ w \in Texts \cup {NoText}
  BY <1>2 DEF Else
<1>. HIDE DEF u, w, c
<1>4. [username |-> u, password |-> w] \in Logins
  BY <1>3 DEF Logins
<1>5. c.auth # None /\ c.auth["username"] = u /\ c.auth["password"] = w
  BY <1>1, <1>4, NoneIsNoValue
<1>. QED
  BY <1>5 DEF u, w, c

LEMMA Built ==
    ASSUME IInv, stage = "built"
    PROVE  /\ request \in Objects /\ request.string \in Strings
           /\ request.string.form = "none" => request.string.pairs = <<>>
           /\ \E r \in Objects : Reconciled(request, r) /\ config = ConfigOf(r) /\ config # Bad
BY DEF IInv, TypeInv, StringGiven, FollowsRequest

LEMMA NothingChosen == IInv => NothingChosenSilently
<1>. SUFFICES ASSUME IInv, stage = "built"
     PROVE  /\ \A t \in AskedText(request, "host") : Same(t, Trim(config.host), "host")
            /\ Asked(request, "port") \subseteq {config.port}
            /\ AskedText(request, "database") \subseteq {Trim(config.database)}
            /\ \A f \in {"username", "password"} :
                  AskedText(request, f) \subseteq
                      (IF config.auth = None THEN {} ELSE {Trim(config.auth[f])})
            /\ FALSE \in {p.value : p \in {q \in PairsOf(request) : q.key = "integrated"}}
                  => config.auth # None
  BY DEF NothingChosenSilently
<1>1. /\ request \in Objects /\ request.string \in Strings
      /\ request.string.form = "none" => request.string.pairs = <<>>
  BY Built
<1>2. PICK r \in Objects : Reconciled(request, r) /\ config = ConfigOf(r) /\ config # Bad
  BY Built
<1>. DEFINE s == request.string
<1>3. s.form # "none" => Parse(s) # Bad
  BY <1>2 DEF Reconciled
<1>4. /\ config.host = Else(r.host, DefaultHost)
      /\ config.port = Else(r.port, DefaultPort) /\ config.database = r.database
  <2>1. ConfigOf(r) # Bad
    BY <1>2
  <2>2. /\ ConfigOf(r).host = Else(r.host, DefaultHost)
        /\ ConfigOf(r).port = Else(r.port, DefaultPort) /\ ConfigOf(r).database = r.database
    BY <2>1, ConfigFields
  <2>. QED
    BY <1>2, <2>2
<1>5. ASSUME NEW t \in AskedText(request, "host") PROVE Same(t, Trim(config.host), "host")
  <2>1. r["host"] \in Texts /\ Same(t, Trim(r["host"]), "host") /\ r["host"] # None
    BY <1>1, <1>2, TextKept
  <2>. QED
    BY <1>4, <2>1 DEF Else
<1>6. ASSUME NEW v \in Asked(request, "port") PROVE v = config.port
  <2>1. /\ Told(s, "port") = None => r.port = request.port
        /\ Told(s, "port") # None => r.port = Told(s, "port") /\ request.port \in {None, r.port}
    BY <1>2 DEF Reconciled
  <2>2. \/ \E p \in Range(s.pairs) : p.key = "port" /\ v = p.value
        \/ \E p \in Range(s.pairs) : p.key \in HostKeys /\ v = p.port /\ v # None
        \/ v = request.port /\ v # None
    BY DEF Asked, PairsOf
  <2>3. r.port = v /\ v # None
    <3>1. CASE \E p \in Range(s.pairs) : p.key = "port" /\ v = p.value
      <4>1. "port" \in ParsedFields
        BY DEF ParsedFields, SharedFields
      <4>2. Told(s, "port") = v /\ v # None
        BY <1>1, <1>3, <3>1, <4>1, Heard
      <4>. QED
        BY <2>1, <4>2
    <3>2. CASE \E p \in Range(s.pairs) : p.key \in HostKeys /\ v = p.port /\ v # None
      <4>1. PICK p \in Range(s.pairs) : p.key \in HostKeys /\ v = p.port /\ v # None
        BY <3>2
      <4>2. Told(s, "port") = p.port
        BY <1>1, <1>3, <4>1, HeardHost
      <4>. QED
        BY <2>1, <4>1, <4>2
    <3>3. CASE v = request.port /\ v # None
      BY <2>1, <3>3
    <3>. QED
      BY <2>2, <3>1, <3>2, <3>3
  <2>. QED
    BY <1>4, <2>3 DEF Else
<1>7. ASSUME NEW t \in AskedText(request, "database") PROVE t = Trim(config.database)
  <2>1. PICK u \in Asked(request, "database") : u \notin {None, Bad} /\ ~Blank(u) /\ t = Trim(u)
    BY DEF AskedText
  <2>2. /\ Told(s, "database") = None => r.database = request.database
        /\ Told(s, "database") # None =>
             /\ r.database = Told(s, "database")
             /\ Blank(request.database) \/ Trim(request.database) = r.database
    BY <1>2 DEF Reconciled
  <2>3. \/ \E p \in Range(s.pairs) : p.key = "database" /\ u = p.value
        \/ u = request.database
    BY DEF Asked, PairsOf
  <2>4. CASE \E p \in Range(s.pairs) : p.key = "database" /\ u = p.value
    <3>1. "database" \in ParsedFields
      BY DEF ParsedFields
    <3>2. Told(s, "database") = u
      BY <1>1, <1>3, <2>4, <3>1, Heard
    <3>. QED
      BY <1>4, <2>1, <2>2, <3>2
  <2>5. CASE u = request.database
    <3>1. u \in Texts
      BY <1>1, <2>5, ObjectTyped
    <3>2. r.database = u \/ Trim(u) = r.database
      BY <2>1, <2>2, <2>5
    <3>3. Trim(Trim(u)) = Trim(u)
      BY <3>1, TrimText
    <3>. QED
      BY <1>4, <2>1, <3>2, <3>3
  <2>. QED
    BY <2>3, <2>4, <2>5
<1>8. ASSUME NEW f \in {"username", "password"}, NEW t \in AskedText(request, f)
      PROVE  config.auth # None /\ t = Trim(config.auth[f])
  <2>1. r[f] \in Texts /\ r[f] # None /\ ~Blank(r[f]) /\ t = Trim(r[f])
    BY <1>1, <1>2, TextKept
  <2>2. NonEmpty(r[f]) # None
    BY <2>1 DEF NonEmpty
  <2>3. ~r.integrated
    BY <1>2, <2>2 DEF Reconciled
  <2>4. config.auth # None /\ config.auth[f] = r[f]
    BY <1>2, <2>1, <2>3, AuthGiven DEF Else
  <2>. QED
    BY <2>1, <2>4
<1>9. ASSUME NEW p \in PairsOf(request), p.key = "integrated", p.value = FALSE
      PROVE  config.auth # None
  <2>1. "integrated" \in ParsedFields
    BY DEF ParsedFields
  <2>2. Told(s, "integrated") = FALSE /\ p.value # None
    BY <1>1, <1>3, <1>9, <2>1, Heard DEF PairsOf
  <2>3. r.integrated = FALSE
    BY <1>2, <1>9, <2>2 DEF Reconciled
  <2>. QED
    BY <1>2, <2>3, AuthGiven
<1>10. FALSE \in {p.value : p \in {q \in PairsOf(request) : q.key = "integrated"}}
          => config.auth # None
  BY <1>9
<1>. QED
  BY <1>5, <1>6, <1>7, <1>8, <1>10
-----------------------------------------------------------------------------
(* The TLS policy.                                                         *)

LEMMA TlsKept == IInv => TlsAsAsked
<1>. DEFINE modes == Asked(request, "ssl_mode")
            encrypt == Asked(request, "encrypt")
            trust == Asked(request, "trust")
            on == encrypt \cap {"enabled", "strict"} # {}
            verified == \/ "verify-full" \in modes
                        \/ "strict" \in encrypt
                        \/ on /\ TRUE \notin trust
                        \/ FALSE \in trust /\ "disabled" \notin encrypt
<1>. SUFFICES ASSUME IInv, stage = "built"
     PROVE  /\ verified => config.encryption = "required" /\ (config.trust => TrustAll)
            /\ on \/ modes \cap (Modes \ {"disable"}) # {} => config.encryption # "off"
  BY DEF TlsAsAsked
<1>1. /\ request \in Objects /\ request.string \in Strings
      /\ request.string.form = "none" => request.string.pairs = <<>>
  BY Built
<1>2. PICK r \in Objects : Reconciled(request, r) /\ config = ConfigOf(r) /\ config # Bad
  BY Built
<1>. DEFINE s == request.string
            P == Range(s.pairs)
            mode == TlsFromKeywords(Given(P, "encrypt"), Given(P, "trust"))
<1>3. s.form # "none" => Parse(s) # Bad
  BY <1>2 DEF Reconciled
<1>4. /\ {"encrypt", "trust", "ssl_mode"} \subseteq ParsedFields
      /\ {"encrypt", "trust"} \cap Fields = {}
  BY DEF ParsedFields, SharedFields, TextFields, Fields
<1>5. \A v \in modes : v \in Modes => r.ssl_mode = v
  <2>1. ASSUME NEW p \in P, p.key = "ssl_mode" PROVE Told(s, "ssl_mode") = p.value /\ p.value # None
    BY <1>1, <1>3, <1>4, <2>1, Heard
  <2>2. /\ Told(s, "ssl_mode") = None => r.ssl_mode = request.ssl_mode
        /\ Told(s, "ssl_mode") # None =>
             r.ssl_mode = Told(s, "ssl_mode") /\ request.ssl_mode \in {None, r.ssl_mode}
    BY <1>2 DEF Reconciled
  <2>3. \A v \in modes : \/ \E p \in P : p.key = "ssl_mode" /\ v = p.value
                         \/ v = request.ssl_mode /\ v # None
    BY DEF Asked, PairsOf
  <2>. QED
    BY <2>1, <2>2, <2>3
<1>6. /\ encrypt = {p.value : p \in {q \in P : q.key = "encrypt"}}
      /\ trust = {p.value : p \in {q \in P : q.key = "trust"}}
  <2>1. request = [f \in Fields |-> request[f]]
    BY <1>1, ObjectTyped DEF IsObject
  <2>2. DOMAIN request = Fields
    BY <2>1
  <2>. QED
    BY <1>4, <2>2 DEF Asked, PairsOf
<1>7. ASSUME P # {}
      PROVE  /\ s.form # "none" /\ mode # Bad
             /\ mode # None => r.ssl_mode = mode
             /\ \A v \in encrypt : Given(P, "encrypt") = v
             /\ \A v \in trust : Given(P, "trust") = v
             /\ Given(P, "encrypt") # None => Given(P, "encrypt") \in encrypt
             /\ Given(P, "trust") # None => Given(P, "trust") \in trust
             /\ Given(P, "encrypt") \in {"disabled", "enabled", "strict"} \cup {None}
             /\ Given(P, "trust") \in BOOLEAN \cup {None}
  <2>1. s.form # "none"
    BY <1>1, <1>7 DEF Range
  <2>2. /\ P \in SUBSET Pairs /\ Consistent(P) /\ mode # Bad
        /\ mode # None => Parse(s)["ssl_mode"] = mode
        /\ \A f \in ParsedFields \ {"ssl_mode"} : Parse(s)[f] = Given(P, f)
    BY <1>1, <1>3, <2>1, ParseAccepts
  <2>3. \A f : Told(s, f) = Parse(s)[f]
    BY <2>1 DEF Told
  <2>4. mode # None => r.ssl_mode = mode
    BY <1>2, <2>2, <2>3 DEF Reconciled
  <2>5. ASSUME NEW p \in P, p.key \in {"encrypt", "trust"} PROVE Given(P, p.key) = p.value
    <3>1. p.key \in ParsedFields \ {"ssl_mode"} /\ Told(s, p.key) = p.value
      BY <1>1, <1>3, <1>4, <2>5, Heard
    <3>. QED
      BY <2>2, <2>3, <3>1
  <2>6. ASSUME NEW f \in {"encrypt", "trust"}, Given(P, f) # None
        PROVE  \E p \in P : p.key = f /\ p.value = Given(P, f)
    <3>1. PICK p \in P : \E a \in Assigns(p) : a[1] = f /\ a[2] = Given(P, f)
      BY <1>4, <2>2, <2>6, GivenTyped
    <3>2. Assigns(p) # Bad
      BY <2>2 DEF Consistent
    <3>3. CASE p.key \in HostKeys
      <4>1. Assigns(p) \subseteq {<<"host", p.value>>, <<"port", p.port>>}
        BY <3>2, <3>3, AssignsByKey
      <4>2. \A a \in Assigns(p) : a[1] \in {"host", "port"}
        BY <4>1
      <4>. QED
        BY <3>1, <4>2
    <3>4. CASE p.key \in {"authentication", "client option"}
      BY <3>1, <3>2, <3>4, AssignsByKey
    <3>5. CASE p.key \in ParsedFields
      <4>1. Assigns(p) = {<<p.key, p.value>>}
        BY <3>2, <3>5, AssignsByKey
      <4>. QED
        BY <3>1, <4>1
    <3>. QED
      BY <3>2, <3>3, <3>4, <3>5, AssignsByKey
  <2>7. /\ Given(P, "encrypt") \in {"disabled", "enabled", "strict"} \cup {None}
        /\ Given(P, "trust") \in BOOLEAN \cup {None}
    BY <1>4, <2>2, GivenTyped DEF KeywordValues
  <2>. QED
    BY <1>6, <2>1, <2>2, <2>4, <2>5, <2>6, <2>7
<1>8. verified => r.ssl_mode = "verify-full"
  <2>1. CASE "verify-full" \in modes
    BY <1>5, <2>1 DEF Modes
  <2>2. CASE "strict" \in encrypt
    <3>1. P # {}
      BY <1>6, <2>2
    <3>2. Given(P, "encrypt") = "strict"
      BY <1>7, <2>2, <3>1
    <3>3. mode = "verify-full"
      BY <1>7, <3>1, <3>2 DEF TlsFromKeywords
    <3>. QED
      BY <1>7, <3>1, <3>3, ParamsAssumption DEF Modes
  <2>3. CASE on /\ TRUE \notin trust
    <3>1. P # {}
      BY <1>6, <2>3
    <3>2. Given(P, "encrypt") \in {"enabled", "strict"} /\ Given(P, "trust") # TRUE
      <4>1. Given(P, "encrypt") \in {"enabled", "strict"}
        BY <1>7, <2>3, <3>1
      <4>2. Given(P, "trust") # TRUE
        BY <1>7, <2>3, <3>1, NoneIsNoValue, ParamsAssumption
      <4>. QED
        BY <4>1, <4>2
    <3>3. mode = "verify-full"
      BY <1>7, <3>1, <3>2 DEF TlsFromKeywords
    <3>. QED
      BY <1>7, <3>1, <3>3, ParamsAssumption DEF Modes
  <2>4. CASE FALSE \in trust /\ "disabled" \notin encrypt
    <3>1. P # {}
      BY <1>6, <2>4
    <3>2. Given(P, "trust") = FALSE
      BY <1>7, <2>4, <3>1
    <3>3. Given(P, "encrypt") \in {"enabled", "strict", None}
      BY <1>7, <2>4, <3>1, ParamsAssumption
    <3>4. None \notin {FALSE, "enabled", "strict", "disabled"}
      BY ParamsAssumption
    <3>5. mode = "verify-full"
      BY <1>7, <3>1, <3>2, <3>3, <3>4 DEF TlsFromKeywords
    <3>. QED
      BY <1>7, <3>1, <3>5, ParamsAssumption DEF Modes
  <2>. QED
    BY <2>1, <2>2, <2>3, <2>4
<1>9. on => r.ssl_mode \in {"require", "verify-full"}
  <2>. SUFFICES ASSUME on PROVE r.ssl_mode \in {"require", "verify-full"}
    OBVIOUS
  <2>1. P # {}
    BY <1>6
  <2>2. Given(P, "encrypt") \in {"enabled", "strict"}
    BY <1>7, <2>1
  <2>3. mode \in {"require", "verify-full"}
    BY <1>7, <2>1, <2>2 DEF TlsFromKeywords
  <2>. QED
    BY <1>7, <2>1, <2>3, ParamsAssumption DEF Modes
<1>10. /\ config.encryption = EncryptionOf(r.ssl_mode)
       /\ r.ssl_mode = "verify-full" => (config.trust => TrustAll)
  BY <1>2, ConfigFields
<1>11. verified => config.encryption = "required" /\ (config.trust => TrustAll)
  BY <1>8, <1>10 DEF EncryptionOf
<1>12. on \/ modes \cap (Modes \ {"disable"}) # {} => config.encryption # "off"
  <2>1. on \/ modes \cap (Modes \ {"disable"}) # {} => r.ssl_mode # "disable"
    BY <1>5, <1>9
  <2>. HIDE DEF on, modes
  <2>. QED
    BY <1>10, <2>1 DEF EncryptionOf
<1>. QED
  BY <1>11, <1>12
-----------------------------------------------------------------------------
(* The order of the keywords decides nothing.                              *)

\* The object r with connection string s.
WithString(r, s) == [r EXCEPT !.string = s]

LEMMA WithStringShape ==
    ASSUME NEW r, NEW s, IsObject(r)
    PROVE  /\ IsObject(WithString(r, s)) /\ WithString(r, s).string = s
           /\ \A f \in Fields \ {"string"} : WithString(r, s)[f] = r[f]
BY DEF IsObject, WithString, Fields

\* Merging reads and writes other fields than the string.
LEMMA MergeCommutes ==
    ASSUME NEW d, NEW s, NEW p, IsObject(d)
    PROVE  Merge(WithString(d, s), p) = WithString(Merge(d, p), s)
<1>. DEFINE e == WithString(d, s)
            a == Merge(e, p)
            b == WithString(Merge(d, p), s)
<1>1. IsObject(e) /\ e.string = s /\ \A f \in Fields \ {"string"} : e[f] = d[f]
  BY WithStringShape
<1>2. IsObject(Merge(d, p)) /\ IsObject(a) /\ IsObject(b)
  BY <1>1, MergeShape, WithStringShape
<1>3. b.string = s /\ \A f \in Fields \ {"string"} : b[f] = Merge(d, p)[f]
  BY <1>2, WithStringShape
<1>4. /\ e.host = d.host /\ e.username = d.username /\ e.password = d.password
      /\ e.ssl_ca = d.ssl_ca /\ e.port = d.port /\ e.ssl_mode = d.ssl_mode
      /\ e.database = d.database /\ e.integrated = d.integrated /\ e.extra = d.extra
  BY <1>1 DEF Fields
<1>. HIDE DEF e, b
<1>5. a.string = s /\ \A f \in Fields \ {"string"} : a[f] = Merge(d, p)[f]
  BY <1>1, <1>4, MergeShape DEF Fields
<1>6. \A f \in Fields : a[f] = b[f]
  BY <1>3, <1>5 DEF Fields
<1>7. a = b
  <2>. HIDE DEF a
  <2>. QED
    BY <1>2, <1>6, Extensional
<1>. QED
  BY <1>7 DEF e, b

LEMMA StartedCommutes ==
    ASSUME NEW r, NEW s, IsObject(r)
    PROVE  Started(WithString(r, s)) = WithString(Started(r), s)
<1>. DEFINE a == Started(WithString(r, s))
            b == WithString(Started(r), s)
<1>1. /\ IsObject(WithString(r, s)) /\ WithString(r, s).string = s
      /\ \A f \in Fields \ {"string"} : WithString(r, s)[f] = r[f]
  BY WithStringShape
<1>2. IsObject(Started(r)) /\ IsObject(a) /\ IsObject(b)
  BY <1>1, StartedShape, WithStringShape
<1>3. WithString(r, s).extra = r.extra
  BY <1>1 DEF Fields
<1>4. CASE r.extra = TRUE
  BY <1>3, <1>4 DEF Started, WithString, IsObject, Fields
<1>5. CASE r.extra # TRUE
  BY <1>3, <1>5 DEF Started
<1>. QED
  BY <1>4, <1>5

\* With a string that parses alike an accepted object is accepted alike.
LEMMA ResolveCommutes ==
    ASSUME NEW r, NEW s, IsObject(r), s.form = r.string.form, Parse(s) = Parse(r.string),
           Resolve(r) # Bad
    PROVE  Resolve(WithString(r, s)) = WithString(Resolve(r), s)
<1>. DEFINE q == WithString(r, s)
            d == Started(r)
            p == Parse(s)
            m == Merge(d, p)
<1>1. IsObject(d) /\ Started(q) = WithString(d, s)
  BY StartedCommutes, StartedShape
<1>2. q.string = s /\ q.ssl_mode = r.ssl_mode /\ q.extra = r.extra
  <2>1. q.string = s /\ \A f \in Fields \ {"string"} : q[f] = r[f]
    BY WithStringShape
  <2>. QED
    BY <2>1 DEF Fields
<1>3. r.ssl_mode # Bad /\ r.extra # Bad
  BY ResolveCases
<1>4. ASSUME NEW e, IsObject(e), Alone(e) # Bad
      PROVE  Alone(e) = e /\ Alone(WithString(e, s)) = WithString(e, s)
  <2>1. \A f \in Fields \ {"string"} : WithString(e, s)[f] = e[f]
    BY <1>4, WithStringShape
  <2>2. /\ WithString(e, s).integrated = e.integrated
        /\ WithString(e, s).username = e.username /\ WithString(e, s).password = e.password
    BY <2>1 DEF Fields
  <2>. QED
    BY <1>4, <2>2 DEF Alone
<1>5. CASE s.form = "none"
  <2>1. Resolve(r) = Alone(d)
    BY <1>3, <1>5 DEF Resolve, Started
  <2>2. Resolve(q) = Alone(Started(q))
    <3>. HIDE DEF q
    <3>. QED
      BY <1>2, <1>3, <1>5 DEF Resolve, Started
  <2>. HIDE DEF d, q
  <2>. QED
    BY <1>1, <1>4, <2>1, <2>2 DEF q
<1>6. CASE s.form # "none"
  <2>1. p # Bad /\ Resolve(r) = Checked(m)
    BY <1>3, <1>6, ResolveCases DEF Resolve, Started
  <2>2. Resolve(q) = Checked(Merge(Started(q), p))
    <3>. HIDE DEF q
    <3>. QED
      BY <1>2, <1>3, <1>6, <2>1 DEF Resolve, Started
  <2>. HIDE DEF d, q, p
  <2>3. Merge(Started(q), p) = WithString(m, s) /\ IsObject(m)
    BY <1>1, MergeCommutes, MergeShape
  <2>. HIDE DEF m
  <2>4. \A f \in SharedFields \cup {"database", "integrated"} : WithString(m, s)[f] = m[f]
    BY <2>3, WithStringShape DEF SharedFields, TextFields, Fields
  <2>5. Alone(m) # Bad /\ Checked(m) = Alone(m) /\ Checked(WithString(m, s)) = Alone(WithString(m, s))
    BY <2>1, <2>4 DEF Checked
  <2>. QED
    BY <1>4, <2>1, <2>2, <2>3, <2>5 DEF q
<1>. QED
  BY <1>5, <1>6

LEMMA OrderDecidesNothing == IInv => OrderIrrelevant
<1>. SUFFICES ASSUME IInv, stage = "sent"
     PROVE  LET a == Resolve(request)
                b == Resolve(Reversed(request))
            IN  IF a = Bad THEN b = Bad ELSE b # Bad /\ b = Reversed(a)
  BY DEF OrderIrrelevant
<1>. DEFINE s == [request.string EXCEPT !.pairs = Reverse(@)]
            a == Resolve(request)
<1>1. request \in Objects /\ request.string \in Strings /\ IsObject(request)
  BY ObjectShape DEF IInv, TypeInv
<1>2. s \in Strings /\ Parse(s) = Parse(request.string)
  BY <1>1, ParseReversed
<1>3. s.form = request.string.form
  BY <1>1 DEF Strings
<1>4. Reversed(request) = WithString(request, s)
  BY <1>1 DEF Reversed, WithString, IsObject, Fields
<1>. HIDE DEF s
<1>5. ASSUME NEW r, IsObject(r), NEW z \in Strings, r \in Objects, r.string \in Strings,
             z.form = r.string.form, Parse(z) = Parse(r.string), Resolve(r) # Bad
      PROVE  /\ Resolve(WithString(r, z)) = WithString(Resolve(r), z)
             /\ Resolve(WithString(r, z)) # Bad
  <2>1. Resolve(WithString(r, z)) = WithString(Resolve(r), z)
    BY <1>5, ResolveCommutes
  <2>2. Resolve(r) \in Objects
    BY <1>5, ResolveReconciles
  <2>3. \A x \in Objects : WithString(x, z) \in Objects
    BY DEF WithString, Objects
  <2>4. WithString(Resolve(r), z) \in Objects
    BY <2>2, <2>3
  <2>. QED
    BY <2>1, <2>4, ParamsAssumption
<1>6. CASE a # Bad
  <2>1. a \in Objects /\ a.string = request.string
    BY <1>1, <1>6, ResolveReconciles DEF Reconciled
  <2>2. \A x \in Objects : x.string = request.string => Reversed(x) = WithString(x, s)
    BY DEF Reversed, WithString, Objects, s
  <2>3. Resolve(WithString(request, s)) = WithString(a, s)
        /\ Resolve(WithString(request, s)) # Bad
    BY <1>1, <1>2, <1>3, <1>5, <1>6
  <2>4. Reversed(a) = WithString(a, s)
    <3>. HIDE DEF a
    <3>. QED
      BY <2>1, <2>2
  <2>. QED
    BY <1>4, <1>6, <2>3, <2>4
<1>7. CASE a = Bad
  <2>. DEFINE q == WithString(request, s)
  <2>. SUFFICES ASSUME Resolve(q) # Bad PROVE FALSE
    BY <1>4, <1>7
  <2>1. IsObject(q) /\ q.string = s /\ \A f \in Fields \ {"string"} : q[f] = request[f]
    BY <1>1, WithStringShape
  <2>2. q \in Objects
    BY <1>1, <1>2 DEF WithString, Objects
  <2>3. WithString(q, request.string) = request
    <3>. HIDE DEF q
    <3>1. IsObject(WithString(q, request.string))
          /\ \A f \in Fields : WithString(q, request.string)[f] = request[f]
      BY <2>1, WithStringShape DEF Fields
    <3>. QED
      BY <1>1, <3>1, Extensional
  <2>. HIDE DEF q, a
  <2>4. Resolve(WithString(q, request.string)) # Bad
    BY <1>1, <1>2, <1>3, <1>5, <2>1, <2>2
  <2>. QED
    BY <1>7, <2>3, <2>4 DEF a
<1>. QED
  BY <1>6, <1>7
-----------------------------------------------------------------------------
(* The theorems.                                                           *)

LEMMA Invariance == Spec => []IInv
BY InitIInv, NextIInv, PTL DEF Spec

\* The request and its parameters are objects of the source's types in every
\* state, for any pairs and objects of those types.
THEOREM TypeCorrect == Spec => []TypeInv
<1>1. IInv => TypeInv
  BY DEF IInv
<1>. QED
  BY <1>1, Invariance, PTL

\* For connection strings of any length and any discrete fields: a configuration
\* that is built has every host, port, database, user and password that some
\* source supplied.
THEOREM NothingIsDropped == Spec => []NothingChosenSilently
BY Invariance, NothingChosen, PTL

\* The TLS policy of the driver is no weaker than any keyword or field of the
\* request asked for, whatever else the request says.
THEOREM TlsIsKept == Spec => []TlsAsAsked
BY Invariance, TlsKept, PTL

\* The keywords in the reverse order are accepted or refused alike, with the
\* same result; parsing is a function of the set of pairs (FoldGathers).
THEOREM KeywordOrderIrrelevant == Spec => []OrderIrrelevant
BY Invariance, OrderDecidesNothing, PTL
=============================================================================
