--------------------------- MODULE CatalogProofs ---------------------------
(* What the plugin makes of the version of any server, what its edits make  *)
(* of any table, and what its snapshots tell of any catalog.                *)
EXTENDS Catalog, SequenceTheorems, FiniteSetTheorems, TLAPS

(* Once the foreign keys are asked for, the version is the server's own, or *)
(* what the banner made of it, or the default.                              *)
VersionTold ==
    request.step = "keys" =>
        \/ request.version = major
        \/ request.version = BannerMajor(major)
        \/ request.source = "default" /\ request.version = DefaultMajor

(* A request has its nine fields.                                           *)
Shaped(r) ==
    r = [kind |-> r.kind, step |-> r.step, tables |-> r.tables, columns |-> r.columns,
         keys |-> r.keys, version |-> r.version, source |-> r.source, total |-> r.total,
         entries |-> r.entries]

IInv ==
    /\ major \in Majors
    /\ Shaped(request)
    /\ VersionTold

(* The invariant holds before the first request, and no step breaks it: the *)
(* version is set together with the step to the foreign keys, and the       *)
(* server keeps its own.                                                    *)
LEMMA VersionKept == Spec => []IInv
<1>1. ASSUME Init PROVE IInv
    BY <1>1 DEF Init, IInv, NoRequest, VersionTold, Shaped
<1>2. ASSUME IInv, [Next]_vars PROVE IInv'
    <2>1. ASSUME NEW kind \in Kinds, Begin(kind) PROVE IInv'
        BY <1>2, <2>1 DEF Begin, IInv, VersionTold, Shaped, Kinds, Snapshots
    <2>2. CASE ReadTables
        BY <1>2, <2>2 DEF ReadTables, IInv, VersionTold, Shaped
    <2>3. CASE ReadColumns
        BY <1>2, <2>3 DEF ReadColumns, IInv, VersionTold, Shaped
    <2>4. CASE ReadFails
        BY <1>2, <2>4 DEF ReadFails, IInv, VersionTold, Shaped
    <2>5. CASE ProbeVersion
        BY <1>2, <2>5 DEF ProbeVersion, IInv, VersionTold, Shaped
    <2>6. CASE ReadBanner
        BY <1>2, <2>6 DEF ReadBanner, IInv, VersionTold, Shaped
    <2>7. CASE ReadKeys
        BY <1>2, <2>7 DEF ReadKeys, IInv, VersionTold, Shaped
    <2>8. CASE UNCHANGED <<major, request>>
        BY <1>2, <2>8 DEF IInv, VersionTold, BannerMajor
    <2>9. CASE Editing
        <3>1. UNCHANGED <<major, request>>
            BY <2>9 DEF Editing, OpenColumn, AlterColumn, CreateTable, AddColumn, Start,
                        AddForeignKey, DropForeignKey, RunStatement, StatementFails
        <3>2. QED BY <3>1, <2>8
    <2>10. CASE OtherClient
        BY <2>10, <2>8 DEF OtherClient
    <2>11. CASE UNCHANGED vars
        BY <2>11, <2>8 DEF vars
    <2>12. QED
        BY <1>2, <2>1, <2>2, <2>3, <2>4, <2>5, <2>6, <2>7, <2>9, <2>10, <2>11
           DEF Next, Reading
<1>3. QED BY <1>1, <1>2, PTL DEF Spec

(* Whatever versions there are: a version the server told, as a property or *)
(* in its banner, selects an aggregate the server has.                      *)
THEOREM ToldVersionsSuffice == Spec => []DialectUnderstood
<1>1. ASSUME IInv PROVE DialectUnderstood
    <2>1. SUFFICES ASSUME request.step = "keys",
                          request.source # "default" \/ major >= DefaultMajor,
                          SupportsStringAgg(request.version)
                   PROVE  major >= 14
        BY DEF DialectUnderstood, Understood
    <2>2. CASE request.version = major
        BY <2>1, <2>2 DEF SupportsStringAgg
    <2>3. CASE major >= DefaultMajor
        BY <2>3 DEF DefaultMajor
    <2>4. CASE request.version = BannerMajor(major)
        <3>1. major \in Nat /\ major >= 10
            BY <1>1, CatalogAssumption DEF IInv
        <3>2. CASE major \in KnownMajors
            BY <2>1, <2>4, <3>2 DEF SupportsStringAgg, BannerMajor
        <3>3. CASE major \notin KnownMajors
            BY <3>1, <3>3 DEF KnownMajors
        <3>4. QED BY <3>2, <3>3
    <2>5. QED BY <1>1, <2>1, <2>2, <2>3, <2>4 DEF IInv, VersionTold
<1>2. QED BY <1>1, VersionKept, PTL

----------------------------------------------------------------------------
(* The column of an edit, statement after statement.                        *)

KeepsDefault(new) == edit.old.default_value = new.default_value

(* What an alteration runs: a rename, another type, the old default away,   *)
(* the new one in; each of them only if it is needed.                       *)
Needed(n, new) ==
    CASE n = 1 -> edit.old.name # new.name
      [] n = 2 -> ~(edit.old.data_type = new.data_type /\ edit.old.is_nullable = new.is_nullable)
      [] n = 3 -> ~KeepsDefault(new)
      [] n = 4 -> ~KeepsDefault(new) /\ HasDefault(new)

Statement(n, new) ==
    CASE n = 1 -> [op |-> "rename", from |-> edit.old.name, to |-> new.name]
      [] n = 2 -> [op |-> "retype", column |-> new.name, type |-> new.data_type,
                   nullable |-> new.is_nullable]
      [] n = 3 -> [op |-> "drop_default", column |-> new.name]
      [] n = 4 -> [op |-> "add_default", column |-> new.name, text |-> new.default_value]

Part(n, new) == IF Needed(n, new) THEN <<Statement(n, new)>> ELSE <<>>

(* What is left to run after the first n parts.                             *)
Left(n, new) ==
    CASE n = 0 -> Part(1, new) \o (Part(2, new) \o (Part(3, new) \o Part(4, new)))
      [] n = 1 -> Part(2, new) \o (Part(3, new) \o Part(4, new))
      [] n = 2 -> Part(3, new) \o Part(4, new)
      [] n = 3 -> Part(4, new)
      [] n = 4 -> <<>>

(* The column, and its table, after the first n parts.                      *)
ColumnAfter(n, new) ==
    LET was == edit.seen.columns[edit.column]
    IN  [name |-> IF n < 1 THEN was.name ELSE new.name,
         type |-> IF n < 2 THEN was.type ELSE new.data_type,
         nullable |-> IF n < 2 THEN was.nullable ELSE new.is_nullable,
         identity |-> was.identity, pk |-> was.pk,
         default |-> IF n < 3 \/ KeepsDefault(new) THEN was.default
                     ELSE IF n = 3 THEN None ELSE DefaultOf("plugin", edit.table, new)]
TableAfter(n, new) == [edit.seen EXCEPT !.columns[edit.column] = ColumnAfter(n, new)]

(* After a rename no other column has the new name.                         *)
NameIsOwn(new) ==
    \A j \in DOMAIN edit.seen.columns :
        edit.seen.columns[j].name = new.name => j = edit.column

----------------------------------------------------------------------------
(* The invariant of an edit.                                                *)

Steps == {"idle", "open", "refused", "running", "done", "failed"}

EditShape ==
    edit = [step |-> edit.step, table |-> edit.table, reads |-> edit.reads,
            column |-> edit.column, old |-> edit.old, seen |-> edit.seen,
            asked |-> edit.asked, todo |-> edit.todo, disturbed |-> edit.disturbed]

(* Tables are sound until the one edit begins to change them.               *)
CatalogInv ==
    /\ ~edit.disturbed => DOMAIN catalog = Tables
    /\ edit.step = "idle" => \A t \in Tables : catalog[t] = None \/ Sound(catalog[t])

EditInv ==
    /\ EditShape
    /\ edit.step \in Steps
    /\ edit.disturbed \in BOOLEAN
    /\ edit.step = "idle" => ~edit.disturbed /\ edit.column = 0 /\ edit.reads = {}
    /\ edit.step # "idle" => edit.table \in Tables /\ edit.table \in edit.reads
    /\ edit.step = "open" => edit.column # 0
    /\ edit.column # 0 =>
          /\ Sound(edit.seen)
          /\ edit.column \in DOMAIN edit.seen.columns
          /\ edit.old = TableColumn(edit.seen.columns[edit.column])

(* The user is shown the table as it is.                                    *)
Opened == edit.step = "open" /\ ~edit.disturbed => catalog[edit.table] = edit.seen

(* An alteration: the table is the one after so many of its statements.     *)
Altering ==
    edit.step \in {"running", "done", "failed"} /\ edit.column # 0 /\ ~edit.disturbed =>
        \E new \in NewColumns : \E n \in 0..4 :
            /\ ~Unsupported(edit.old, new)
            /\ edit.asked = TableAfter(4, new)
            /\ catalog[edit.table] = TableAfter(n, new)
            /\ n >= 1 => NameIsOwn(new)
            /\ edit.step # "failed" => edit.todo = Left(n, new)
            /\ edit.step = "done" => edit.todo = <<>>

(* One statement: it gives the table the form the user asked for.           *)
Leads(s) ==
    CASE s.op = "create" ->
           edit.asked = [columns |-> [i \in DOMAIN s.columns |-> ColumnFrom(edit.table, s.columns[i])],
                         keys |-> {}]
      [] s.op = "add_column" ->
           /\ edit.seen # None
           /\ edit.asked = [edit.seen EXCEPT !.columns = Append(@, ColumnFrom(edit.table, s.column))]
      [] s.op = "add_key" ->
           /\ edit.seen # None /\ edit.seen \in TableRecords
           /\ s.ref_table \in edit.reads /\ s.ref_table \in Tables
           /\ Sound(catalog[s.ref_table])
           /\ edit.asked = [edit.seen EXCEPT !.keys = @ \cup
                 {[name |-> s.name, ref |-> s.ref_table,
                   columns |-> SetToSeq(Named(edit.seen, s.column)),
                   refs |-> SetToSeq(Named(catalog[s.ref_table], s.ref_column)),
                   update |-> s.on_update, delete |-> s.on_delete]}]
      [] s.op = "drop_key" ->
           /\ edit.seen # None /\ Sound(edit.seen)
           /\ edit.asked = [edit.seen EXCEPT !.keys = {key \in @ : key.name # s.name}]
      [] OTHER -> FALSE

Adding ==
    edit.step \in {"running", "done", "failed"} /\ edit.column = 0 /\ ~edit.disturbed =>
        /\ edit.step = "running" =>
              catalog[edit.table] = edit.seen /\ \E s : edit.todo = <<s>> /\ Leads(s)
        /\ edit.step = "done" => edit.todo = <<>> /\ catalog[edit.table] = edit.asked
        /\ edit.step = "failed" => catalog[edit.table] = edit.seen

EditorInv == CatalogInv /\ EditInv /\ Opened /\ Altering /\ Adding

----------------------------------------------------------------------------
(* The statements of an alteration.                                         *)

(* A type that is read back from sys.columns is the declared one.           *)
LEMMA TypesReadBack == ASSUME NEW ty \in Types PROVE DataType(SysType(ty)) = ty
<1>1. CASE ty \in [base : Exact, arg : [1..2 -> Nat]]
    <2>1. /\ ty.base \in Exact /\ ty = [base |-> ty.base, arg |-> ty.arg]
          /\ ty.arg = <<ty.arg[1], ty.arg[2]>>
        BY <1>1
    <2>2. QED BY <2>1 DEF DataType, SysType, Exact, ByteSized, WideSized, Scaled
<1>2. CASE ty \in [base : OneArg, arg : [1..1 -> Nat]]
    <2>1. /\ ty.base \in OneArg /\ ty = [base |-> ty.base, arg |-> ty.arg]
          /\ ty.arg = <<ty.arg[1]>> /\ ty.arg[1] \in Nat
        BY <1>2
    <2>2. CASE ty.base \in ByteSized
        <3>1. /\ ty.base \notin WideSized /\ ty.base \notin Exact /\ ty.base \notin Scaled
              /\ ty.base \notin Pointers
              /\ ty.base \notin {"xml", "sysname", "text", "ntext", "image"}
            BY <2>2 DEF Exact, ByteSized, WideSized, Scaled, Pointers
        <3>2. CASE ty.arg[1] = Whole
            BY <2>1, <2>2, <3>1, <3>2 DEF DataType, SysType
        <3>3. CASE ty.arg[1] # Whole
            <4>1. ty.arg # <<Whole>>
                BY <2>1, <3>3
            <4>2. SysType(ty).name = ty.base /\ SysType(ty).max_length = ty.arg[1]
                BY <2>1, <2>2, <3>1, <4>1 DEF SysType
            <4>3. SysType(ty).max_length # -1
                BY <2>1, <4>2
            <4>4. DataType(SysType(ty)) = [base |-> ty.base, arg |-> <<ty.arg[1]>>]
                <5> DEFINE sys == SysType(ty)
                <5>1. sys.name \in ByteSized /\ sys.name \notin WideSized
                      /\ sys.name \notin Exact /\ sys.name \notin Scaled /\ sys.name # "float"
                    BY <2>2, <3>1, <4>2 DEF ByteSized
                <5>2. sys.name = ty.base /\ sys.max_length = ty.arg[1] /\ sys.max_length # -1
                    BY <4>2, <4>3
                <5> HIDE DEF sys
                <5>3. DataType(sys) = [base |-> sys.name, arg |-> <<sys.max_length>>]
                    BY <5>1, <5>2 DEF DataType
                <5>4. QED BY <5>2, <5>3 DEF sys
            <4>5. QED BY <2>1, <4>4
        <3>4. QED BY <3>2, <3>3
    <2>3. CASE ty.base \in WideSized
        <3>1. /\ ty.base \notin ByteSized /\ ty.base \notin Exact /\ ty.base \notin Scaled
              /\ ty.base \notin Pointers
              /\ ty.base \notin {"xml", "sysname", "text", "ntext", "image"}
            BY <2>3 DEF Exact, ByteSized, WideSized, Scaled, Pointers
        <3>2. CASE ty.arg[1] = Whole
            BY <2>1, <2>3, <3>1, <3>2 DEF DataType, SysType
        <3>3. CASE ty.arg[1] # Whole
            <4>1. ty.arg # <<Whole>>
                BY <2>1, <3>3
            <4>2. SysType(ty).name = ty.base /\ SysType(ty).max_length = 2 * ty.arg[1]
                BY <2>1, <2>3, <3>1, <4>1 DEF SysType
            <4>3. SysType(ty).max_length # -1 /\ (2 * ty.arg[1]) \div 2 = ty.arg[1]
                BY <2>1, <4>2
            <4>4. DataType(SysType(ty)) = [base |-> ty.base, arg |-> <<ty.arg[1]>>]
                <5> DEFINE sys == SysType(ty)
                <5>1. sys.name \notin ByteSized /\ sys.name \in WideSized
                      /\ sys.name \notin Exact /\ sys.name \notin Scaled /\ sys.name # "float"
                    BY <2>3, <3>1, <4>2 DEF WideSized
                <5>2. /\ sys.name = ty.base /\ sys.max_length \div 2 = ty.arg[1]
                      /\ sys.max_length # -1
                    BY <4>2, <4>3
                <5> HIDE DEF sys
                <5>3. DataType(sys) = [base |-> sys.name, arg |-> <<sys.max_length \div 2>>]
                    BY <5>1, <5>2 DEF DataType
                <5>4. QED BY <5>2, <5>3 DEF sys
            <4>5. QED BY <2>1, <4>4
        <3>4. QED BY <3>2, <3>3
    <2>4. CASE ty.base \in Scaled
        <3>1. ty.base \notin ByteSized /\ ty.base \notin Exact /\ ty.base \notin WideSized
            BY <2>4 DEF Exact, ByteSized, WideSized, Scaled
        <3>2. QED BY <2>1, <2>4, <3>1 DEF DataType, SysType
    <2>5. CASE ty.base = "float"
        <3>1. /\ ty.base \notin ByteSized /\ ty.base \notin Exact
              /\ ty.base \notin WideSized /\ ty.base \notin Scaled
            BY <2>5 DEF Exact, ByteSized, WideSized, Scaled
        <3>2. QED BY <2>1, <2>5, <3>1 DEF DataType, SysType
    <2>6. QED BY <2>1, <2>2, <2>3, <2>4, <2>5 DEF OneArg
<1>3. CASE ty \in [base : STRING \ (Exact \cup OneArg), arg : {<<>>}]
    <2>1. /\ ty = [base |-> ty.base, arg |-> <<>>] /\ ty.base # "float"
          /\ ty.base \notin ByteSized /\ ty.base \notin Exact
          /\ ty.base \notin WideSized /\ ty.base \notin Scaled
        BY <1>3 DEF OneArg
    <2>2. QED BY <2>1 DEF DataType, SysType
<1>4. QED BY <1>1, <1>2, <1>3 DEF Types

LEMMA LeftByParts ==
    ASSUME NEW new
    PROVE  /\ AlterColumnSql(edit.old, new) = Left(0, new)
           /\ \A n \in 0..3 :
                 Left(n, new) = IF Needed(n + 1, new)
                                THEN <<Statement(n + 1, new)>> \o Left(n + 1, new)
                                ELSE Left(n + 1, new)
           /\ \A n \in 0..4 : Left(n, new) \in Seq({Statement(m, new) : m \in 1..4})
<1> DEFINE S == {Statement(m, new) : m \in 1..4}
<1>1. \A m \in 1..4 : Part(m, new) \in Seq(S)
    <2>1. TAKE m \in 1..4
    <2>2. Statement(m, new) \in S
        OBVIOUS
    <2>3. <<Statement(m, new)>> \in Seq(S) /\ <<>> \in Seq(S)
        BY <2>2
    <2>4. QED BY <2>3 DEF Part
<1>2. /\ Part(1, new) \in Seq(S) /\ Part(2, new) \in Seq(S)
      /\ Part(3, new) \in Seq(S) /\ Part(4, new) \in Seq(S)
    BY <1>1
<1> HIDE DEF S
<1>3. /\ Part(3, new) \o Part(4, new) \in Seq(S)
      /\ Part(2, new) \o (Part(3, new) \o Part(4, new)) \in Seq(S)
      /\ Part(1, new) \o (Part(2, new) \o (Part(3, new) \o Part(4, new))) \in Seq(S)
      /\ <<>> \in Seq(S)
    <2>1. \A p, q \in Seq(S) : p \o q \in Seq(S)
        BY ConcatProperties
    <2>2. Part(3, new) \o Part(4, new) \in Seq(S)
        BY <1>2, <2>1
    <2>3. Part(2, new) \o (Part(3, new) \o Part(4, new)) \in Seq(S)
        BY <1>2, <2>1, <2>2
    <2>4. <<>> \in Seq(S)
        BY EmptySeq
    <2>5. Part(1, new) \o (Part(2, new) \o (Part(3, new) \o Part(4, new))) \in Seq(S)
        <3>1. PICK r \in Seq(S) : r = Part(2, new) \o (Part(3, new) \o Part(4, new))
            BY <2>3
        <3>2. QED BY <1>2, <2>1, <3>1
    <2>6. QED BY <2>2, <2>3, <2>4, <2>5
<1>4. \A n \in 0..4 : Left(n, new) \in Seq(S)
    BY <1>2, <1>3 DEF Left
<1>5. ASSUME NEW n \in 0..3 PROVE Left(n, new) = Part(n + 1, new) \o Left(n + 1, new)
    <2>1. Part(4, new) \o <<>> = Part(4, new)
        BY <1>2, ConcatEmptySeq
    <2>2. n = 0 \/ n = 1 \/ n = 2 \/ n = 3
        OBVIOUS
    <2>3. CASE n = 0
        <3>1. Left(0, new) = Part(1, new) \o Left(1, new)
            BY DEF Left
        <3>2. n + 1 = 1
            BY <2>3
        <3>3. QED BY <2>3, <3>1, <3>2
    <2>4. CASE n = 1
        <3>1. Left(1, new) = Part(2, new) \o Left(2, new)
            BY DEF Left
        <3>2. n + 1 = 2
            BY <2>4
        <3>3. QED BY <2>4, <3>1, <3>2
    <2>5. CASE n = 2
        <3>1. Left(2, new) = Part(3, new) \o Left(3, new)
            BY DEF Left
        <3>2. n + 1 = 3
            BY <2>5
        <3>3. QED BY <2>5, <3>1, <3>2
    <2>6. CASE n = 3
        <3>1. Left(3, new) = Part(4, new) /\ Left(4, new) = <<>>
            BY DEF Left
        <3>2. n + 1 = 4
            BY <2>6
        <3>3. QED BY <2>1, <2>6, <3>1, <3>2
    <2>7. QED BY <2>2, <2>3, <2>4, <2>5, <2>6
<1>6. ASSUME NEW n \in 0..3
      PROVE  Left(n, new) = IF Needed(n + 1, new)
                            THEN <<Statement(n + 1, new)>> \o Left(n + 1, new)
                            ELSE Left(n + 1, new)
    <2>1. <<>> \o Left(n + 1, new) = Left(n + 1, new)
        BY <1>4, ConcatEmptySeq
    <2>2. QED BY <1>5, <2>1 DEF Part
<1>7. AlterColumnSql(edit.old, new) = Left(0, new)
    <2>1. RenameSql(edit.old, new) = Part(1, new)
        BY DEF RenameSql, Part, Needed, Statement
    <2>2. RetypeSql(edit.old, new) = Part(2, new)
        BY DEF RetypeSql, Part, Needed, Statement
    <2>3. DefaultSql(edit.old, new) = Part(3, new) \o Part(4, new)
        <3>1. CASE KeepsDefault(new)
            <4>1. DefaultSql(edit.old, new) = <<>>
                BY <3>1 DEF DefaultSql, DefaultSqlFor, KeepsDefault
            <4>2. Part(3, new) = <<>> /\ Part(4, new) = <<>>
                BY <3>1 DEF Part, Needed
            <4>3. <<>> \o <<>> = <<>>
                OBVIOUS
            <4>4. QED BY <4>1, <4>2, <4>3
        <3>2. CASE ~KeepsDefault(new)
            BY <3>2 DEF DefaultSql, DefaultSqlFor, KeepsDefault, Part, Needed, Statement
        <3>3. QED BY <3>1, <3>2
    <2>4. (Part(1, new) \o Part(2, new)) \o (Part(3, new) \o Part(4, new))
            = Part(1, new) \o (Part(2, new) \o (Part(3, new) \o Part(4, new)))
        <3>1. \A p, q, r \in Seq(S) : (p \o q) \o r = p \o (q \o r)
            BY ConcatAssociative
        <3>2. PICK r \in Seq(S) : r = Part(3, new) \o Part(4, new)
            BY <1>3
        <3>3. PICK p \in Seq(S) : p = Part(1, new)
            BY <1>2
        <3>4. PICK q \in Seq(S) : q = Part(2, new)
            BY <1>2
        <3>5. QED BY <3>1, <3>2, <3>3, <3>4
    <2>5. QED BY <2>1, <2>2, <2>3, <2>4 DEF AlterColumnSql, Left
<1>8. QED BY <1>4, <1>6, <1>7 DEF S

(* The editor alters the column it opened.                                  *)
Alters(new) == EditInv /\ edit.column # 0 /\ new \in NewColumns

LEMMA OpenedColumn ==
    ASSUME NEW new, Alters(new)
    PROVE  /\ edit.table \in Tables /\ Sound(edit.seen)
           /\ edit.column \in DOMAIN edit.seen.columns
           /\ DOMAIN edit.seen.columns = 1..Len(edit.seen.columns)
           /\ edit.seen = [columns |-> edit.seen.columns, keys |-> edit.seen.keys]
           /\ edit.seen.columns[edit.column] \in Columns
           /\ new \in ColumnDefinitions
           /\ edit.old = TableColumn(edit.seen.columns[edit.column])
<1>1. /\ edit.step # "idle" /\ edit.table \in Tables /\ Sound(edit.seen)
      /\ edit.column \in DOMAIN edit.seen.columns
      /\ edit.old = TableColumn(edit.seen.columns[edit.column])
    BY DEF Alters, EditInv
<1>2. edit.seen \in [columns : Seq(Columns), keys : SUBSET Keys]
    BY <1>1 DEF Sound, TableRecords
<1>3. /\ edit.seen = [columns |-> edit.seen.columns, keys |-> edit.seen.keys]
      /\ edit.seen.columns \in Seq(Columns)
    BY <1>2
<1>4. /\ DOMAIN edit.seen.columns = 1..Len(edit.seen.columns)
      /\ \A i \in DOMAIN edit.seen.columns : edit.seen.columns[i] \in Columns
    BY <1>3
<1>5. new \in ColumnDefinitions
    BY CatalogAssumption DEF Alters
<1>6. QED BY <1>1, <1>3, <1>4, <1>5

LEMMA TablesAfter ==
    ASSUME NEW new, Alters(new), NEW n \in 0..4
    PROVE  /\ ColumnAfter(n, new) \in Columns
           /\ TableAfter(n, new) =
                 [columns |-> [edit.seen.columns EXCEPT ![edit.column] = ColumnAfter(n, new)],
                  keys |-> edit.seen.keys]
           /\ TableAfter(n, new) \in TableRecords /\ TableAfter(n, new) # None
           /\ DOMAIN TableAfter(n, new).columns = DOMAIN edit.seen.columns
           /\ \A j \in DOMAIN edit.seen.columns :
                 TableAfter(n, new).columns[j] =
                    IF j = edit.column THEN ColumnAfter(n, new) ELSE edit.seen.columns[j]
<1> DEFINE was == edit.seen.columns[edit.column]
<1>1. DefaultOf("plugin", edit.table, new) \in Defaults \cup {None}
    <2>1. CASE ~HasDefault(new)
        BY <2>1 DEF DefaultOf
    <2>2. CASE HasDefault(new)
        <3>1. new.default_value \in DefaultTexts /\ new.name \in Names /\ edit.table \in Tables
            BY <2>2, OpenedColumn DEF HasDefault, ColumnDefinitions
        <3>2. Stored(new.default_value) \in DefaultTexts
            BY <3>1 DEF Stored, DefaultTexts
        <3>3. QED BY <2>2, <3>1, <3>2 DEF DefaultOf, Defaults
    <2>3. QED BY <2>1, <2>2
<1>2. was \in Columns /\ new \in ColumnDefinitions
    BY OpenedColumn
<1>3. ColumnAfter(n, new) \in Columns
    <2>1. /\ was.name \in Names /\ was.type \in Types /\ was.nullable \in BOOLEAN
          /\ was.identity \in BOOLEAN /\ was.pk \in BOOLEAN
          /\ was.default \in Defaults \cup {None}
        BY <1>2 DEF Columns
    <2>2. new.name \in Names /\ new.data_type \in Types /\ new.is_nullable \in BOOLEAN
        BY <1>2 DEF ColumnDefinitions
    <2>3. ColumnAfter(n, new).default \in Defaults \cup {None}
        BY <1>1, <2>1 DEF ColumnAfter
    <2> HIDE DEF was
    <2>4. QED BY <2>1, <2>2, <2>3 DEF ColumnAfter, Columns, was
<1>4. /\ edit.seen = [columns |-> edit.seen.columns, keys |-> edit.seen.keys]
      /\ edit.column \in DOMAIN edit.seen.columns /\ Sound(edit.seen)
    BY OpenedColumn
<1>5. TableAfter(n, new) =
         [columns |-> [edit.seen.columns EXCEPT ![edit.column] = ColumnAfter(n, new)],
          keys |-> edit.seen.keys]
    BY <1>4 DEF TableAfter
<1>6. edit.seen.columns \in Seq(Columns) /\ edit.seen.keys \in SUBSET Keys
    BY <1>4 DEF Sound, TableRecords
<1>7. [edit.seen.columns EXCEPT ![edit.column] = ColumnAfter(n, new)] \in Seq(Columns)
    BY <1>3, <1>4, <1>6
<1>8. TableAfter(n, new) \in TableRecords
    BY <1>5, <1>6, <1>7 DEF TableRecords
<1>9. TableAfter(n, new) # None
    BY <1>8, CatalogAssumption
<1>10. TableAfter(n, new).columns = [edit.seen.columns EXCEPT ![edit.column] = ColumnAfter(n, new)]
    BY <1>5
<1>11. QED BY <1>3, <1>4, <1>5, <1>8, <1>9, <1>10

(* Whatever was run, the next statement finds the column by its name.       *)
LEMMA StatementFinds ==
    ASSUME NEW new, Alters(new), NEW n \in 0..4, n >= 1 => NameIsOwn(new)
    PROVE  Named(TableAfter(n, new), IF n < 1 THEN edit.old.name ELSE new.name) = {edit.column}
<1>1. edit.column \in DOMAIN edit.seen.columns /\ Sound(edit.seen)
      /\ edit.old.name = edit.seen.columns[edit.column].name
    BY OpenedColumn DEF TableColumn
<1>2. ColumnAfter(n, new).name = IF n < 1 THEN edit.old.name ELSE new.name
    BY <1>1 DEF ColumnAfter
<1>3. QED BY <1>1, <1>2, TablesAfter DEF Named, NameIsOwn, Sound

(* A statement that is not needed would not have changed the column.        *)
LEMMA NotNeeded ==
    ASSUME NEW new, Alters(new), NEW n \in 0..3, ~Needed(n + 1, new)
    PROVE  /\ TableAfter(n + 1, new) = TableAfter(n, new)
           /\ n = 0 => NameIsOwn(new)
<1> DEFINE was == edit.seen.columns[edit.column]
<1>1. /\ was \in Columns /\ edit.old = TableColumn(was)
      /\ Sound(edit.seen) /\ edit.column \in DOMAIN edit.seen.columns
    BY OpenedColumn
<1>2. /\ edit.old.name = was.name
      /\ edit.old.is_nullable = was.nullable
      /\ edit.old.data_type = DataType(SysType(was.type))
    BY <1>1 DEF TableColumn
<1>3. edit.old.data_type = was.type
    BY <1>1, <1>2, TypesReadBack DEF Columns
<1>4. n \in {0, 1, 2, 3}
    OBVIOUS
<1>5. ColumnAfter(n + 1, new) = ColumnAfter(n, new)
    <2>1. CASE n = 0
        <3>1. was.name = new.name
            BY <1>2, <2>1 DEF Needed
        <3> HIDE DEF was
        <3>2. QED BY <2>1, <3>1 DEF ColumnAfter, was
    <2>2. CASE n = 1
        <3>1. was.type = new.data_type /\ was.nullable = new.is_nullable
            BY <1>2, <1>3, <2>2 DEF Needed
        <3>2. QED BY <2>2, <3>1 DEF ColumnAfter
    <2>3. CASE n = 2
        <3>1. KeepsDefault(new)
            BY <2>3 DEF Needed
        <3>2. QED BY <2>3, <3>1 DEF ColumnAfter
    <2>4. CASE n = 3
        <3>1. KeepsDefault(new) \/ ~HasDefault(new)
            BY <2>4 DEF Needed
        <3>2. KeepsDefault(new) \/ DefaultOf("plugin", edit.table, new) = None
            BY <3>1 DEF DefaultOf
        <3>3. QED BY <2>4, <3>2 DEF ColumnAfter
    <2>5. QED BY <1>4, <2>1, <2>2, <2>3, <2>4
<1>6. ASSUME n = 0 PROVE NameIsOwn(new)
    <2>1. was.name = new.name
        BY <1>2, <1>6 DEF Needed
    <2>2. QED BY <1>1, <2>1 DEF NameIsOwn, Sound
<1>7. QED BY <1>5, <1>6 DEF TableAfter

LEMMA ResultsOf ==
    ASSUME NEW c, NEW t, c[t] # None, NEW s
    PROVE  /\ s.op = "rename" => Results(c, t, s) = RenameResults(c, t, s)
           /\ s.op = "retype" => Results(c, t, s) = RetypeResults(c, t, s)
           /\ s.op = "drop_default" => Results(c, t, s) = DropDefaultResults(c, t, s)
           /\ s.op = "add_default" => Results(c, t, s) = AddDefaultResults(c, t, s)
<1>1. CASE s.op = "rename"
    BY <1>1 DEF Results
<1>2. CASE s.op = "retype"
    BY <1>2 DEF Results
<1>3. CASE s.op = "drop_default"
    BY <1>3 DEF Results
<1>4. CASE s.op = "add_default"
    BY <1>4 DEF Results
<1>5. QED BY <1>1, <1>2, <1>3, <1>4

(* What one part makes of the column.                                       *)
LEMMA ColumnSteps ==
    ASSUME NEW new
    PROVE  /\ [ColumnAfter(0, new) EXCEPT !.name = new.name] = ColumnAfter(1, new)
           /\ ~KeepsDefault(new) =>
                 /\ [ColumnAfter(2, new) EXCEPT !.default = None] = ColumnAfter(3, new)
                 /\ [ColumnAfter(3, new) EXCEPT !.default = DefaultOf("plugin", edit.table, new)]
                        = ColumnAfter(4, new)
<1> DEFINE was == edit.seen.columns[edit.column]
           dflt == DefaultOf("plugin", edit.table, new)
<1> HIDE DEF was, dflt
<1>1. [ColumnAfter(0, new) EXCEPT !.name = new.name] = ColumnAfter(1, new)
    BY DEF ColumnAfter, was
<1>2. ASSUME ~KeepsDefault(new)
      PROVE  [ColumnAfter(2, new) EXCEPT !.default = None] = ColumnAfter(3, new)
    BY <1>2 DEF ColumnAfter, was
<1>3. ASSUME ~KeepsDefault(new)
      PROVE  [ColumnAfter(3, new) EXCEPT !.default = dflt] = ColumnAfter(4, new)
    BY <1>3 DEF ColumnAfter, was, dflt
<1>4. QED BY <1>1, <1>2, <1>3 DEF dflt

(* A statement that is needed leaves the table that the next one is for.    *)
LEMMA RunsPart ==
    ASSUME NEW new, Alters(new), NEW n \in 0..3, Needed(n + 1, new), n >= 1 => NameIsOwn(new),
           NEW c, edit.table \in DOMAIN c, c[edit.table] = TableAfter(n, new),
           NEW d \in Results(c, edit.table, Statement(n + 1, new))
    PROVE  d[edit.table] = TableAfter(n + 1, new) /\ NameIsOwn(new) /\ DOMAIN d = DOMAIN c
<1> DEFINE t == edit.table
           i == edit.column
           before == TableAfter(n, new)
           s == Statement(n + 1, new)
<1>1. n \in 0..4 /\ n + 1 \in 0..4 /\ n \in {0, 1, 2, 3}
    OBVIOUS
<1>2. /\ before = [columns |-> [edit.seen.columns EXCEPT ![i] = ColumnAfter(n, new)],
                   keys |-> edit.seen.keys]
      /\ before # None /\ c[t] = before
      /\ before.columns[i] = ColumnAfter(n, new)
      /\ i \in DOMAIN before.columns /\ DOMAIN before.columns = DOMAIN edit.seen.columns
      /\ \A j \in DOMAIN edit.seen.columns \ {i} : before.columns[j] = edit.seen.columns[j]
    <2>1. i \in DOMAIN edit.seen.columns
        BY OpenedColumn
    <2>2. QED BY <1>1, <2>1, TablesAfter
<1>3. TableAfter(n + 1, new) =
         [columns |-> [edit.seen.columns EXCEPT ![i] = ColumnAfter(n + 1, new)],
          keys |-> edit.seen.keys]
    BY <1>1, TablesAfter
<1>4. Named(before, IF n < 1 THEN edit.old.name ELSE new.name) = {i}
    BY <1>1, StatementFinds
<1>11. c[t] # None /\ before.columns[i] = ColumnAfter(n, new)
    BY <1>2
<1> HIDE DEF before
<1>5. TableAfter(n + 1, new) = [before EXCEPT !.columns[i] = ColumnAfter(n + 1, new)]
    BY <1>2, <1>3
<1>6. CASE n = 0
    <2>1. s = [op |-> "rename", from |-> edit.old.name, to |-> new.name]
        BY <1>6 DEF Statement
    <2>2. d \in RenameResults(c, t, s)
        <3>1. s.op = "rename"
            BY <2>1
        <3> HIDE DEF s
        <3>2. Results(c, t, s) = RenameResults(c, t, s)
            BY <1>11, <3>1, ResultsOf
        <3>3. QED BY <3>2 DEF s
    <2>3. /\ d = [c EXCEPT ![t].columns[i].name = new.name]
          /\ Named(before, new.name) = {}
        <3>1. PICK j \in Named(c[t], s.from) :
                 Named(c[t], s.to) = {} /\ d = [c EXCEPT ![t].columns[j].name = s.to]
            BY <2>2 DEF RenameResults
        <3>2. s.from = edit.old.name /\ s.to = new.name
            BY <2>1
        <3>3. j = i
            BY <1>2, <1>4, <1>6, <3>1, <3>2
        <3>4. QED BY <1>2, <3>1, <3>2, <3>3
    <2>4. [before.columns[i] EXCEPT !.name = new.name] = ColumnAfter(n + 1, new)
        BY <1>6, <1>11, ColumnSteps
    <2>5. d[t] = [before EXCEPT !.columns[i].name = new.name] /\ DOMAIN d = DOMAIN c
        BY <1>2, <2>3
    <2>6. NameIsOwn(new)
        BY <1>2, <2>3 DEF NameIsOwn, Named
    <2>7. QED BY <1>2, <1>5, <2>4, <2>5, <2>6
<1>7. CASE n = 1
    <2>1. s = [op |-> "retype", column |-> new.name, type |-> new.data_type,
               nullable |-> new.is_nullable]
        BY <1>7 DEF Statement
    <2>2. d \in RetypeResults(c, t, s)
        <3>1. s.op = "retype"
            BY <2>1
        <3> HIDE DEF s
        <3>2. Results(c, t, s) = RetypeResults(c, t, s)
            BY <1>11, <3>1, ResultsOf
        <3>3. QED BY <3>2 DEF s
    <2>3. d = [c EXCEPT ![t].columns[i].type = new.data_type,
                        ![t].columns[i].nullable = new.is_nullable]
        <3>1. PICK j \in Named(c[t], s.column) :
                 d = [c EXCEPT ![t].columns[j].type = s.type,
                               ![t].columns[j].nullable = s.nullable]
            BY <2>2 DEF RetypeResults
        <3>2. s.column = new.name /\ s.type = new.data_type /\ s.nullable = new.is_nullable
            BY <2>1
        <3>3. j = i
            BY <1>2, <1>4, <1>7, <3>1, <3>2
        <3>4. QED BY <3>1, <3>2, <3>3
    <2>4. [before.columns[i] EXCEPT !.type = new.data_type, !.nullable = new.is_nullable]
             = ColumnAfter(n + 1, new)
        <3> DEFINE was == edit.seen.columns[edit.column]
        <3>1. before.columns[i] =
                 [name |-> new.name, type |-> was.type, nullable |-> was.nullable,
                  identity |-> was.identity, pk |-> was.pk, default |-> was.default]
            BY <1>7, <1>11 DEF ColumnAfter
        <3>2. ColumnAfter(n + 1, new) =
                 [name |-> new.name, type |-> new.data_type, nullable |-> new.is_nullable,
                  identity |-> was.identity, pk |-> was.pk, default |-> was.default]
            BY <1>7 DEF ColumnAfter
        <3> HIDE DEF was
        <3>3. PICK col : col = before.columns[i]
            OBVIOUS
        <3>4. [col EXCEPT !.type = new.data_type, !.nullable = new.is_nullable]
                 = ColumnAfter(n + 1, new)
            <4>1. col = [name |-> new.name, type |-> was.type, nullable |-> was.nullable,
                         identity |-> was.identity, pk |-> was.pk, default |-> was.default]
                BY <3>1, <3>3
            <4>2. [col EXCEPT !.type = new.data_type, !.nullable = new.is_nullable] =
                     [name |-> new.name, type |-> new.data_type, nullable |-> new.is_nullable,
                      identity |-> was.identity, pk |-> was.pk, default |-> was.default]
                <5>1. PICK typed : typed = [col EXCEPT !.type = new.data_type]
                    OBVIOUS
                <5>2. typed = [name |-> new.name, type |-> new.data_type,
                               nullable |-> was.nullable, identity |-> was.identity,
                               pk |-> was.pk, default |-> was.default]
                    BY ONLY <4>1, <5>1
                <5>3. [typed EXCEPT !.nullable = new.is_nullable] =
                         [name |-> new.name, type |-> new.data_type,
                          nullable |-> new.is_nullable, identity |-> was.identity,
                          pk |-> was.pk, default |-> was.default]
                    BY ONLY <5>2
                <5>4. [col EXCEPT !.type = new.data_type, !.nullable = new.is_nullable]
                         = [typed EXCEPT !.nullable = new.is_nullable]
                    BY ONLY <5>1
                <5>5. QED BY ONLY <5>3, <5>4
            <4>3. QED BY <3>2, <4>2
        <3>5. QED BY <3>3, <3>4
    <2>5. /\ d[t] = [before EXCEPT !.columns[i].type = new.data_type,
                                   !.columns[i].nullable = new.is_nullable]
          /\ DOMAIN d = DOMAIN c
        BY <1>2, <2>3
    <2>6. DOMAIN before.columns = DOMAIN edit.seen.columns /\ i \in DOMAIN before.columns
        BY <1>2
    <2>7. [before EXCEPT !.columns[i].type = new.data_type,
                         !.columns[i].nullable = new.is_nullable]
             = [before EXCEPT !.columns[i] =
                   [before.columns[i] EXCEPT !.type = new.data_type,
                                             !.nullable = new.is_nullable]]
        BY <1>2, <2>6
    <2>8. d[t] = TableAfter(n + 1, new)
        BY <1>5, <2>4, <2>5, <2>7
    <2>9. QED BY <1>7, <2>5, <2>8
<1>8. CASE n = 2
    <2>1. s = [op |-> "drop_default", column |-> new.name] /\ ~KeepsDefault(new)
        BY <1>8 DEF Statement, Needed
    <2>2. d \in DropDefaultResults(c, t, s)
        <3>1. s.op = "drop_default"
            BY <2>1
        <3> HIDE DEF s
        <3>2. Results(c, t, s) = DropDefaultResults(c, t, s)
            BY <1>11, <3>1, ResultsOf
        <3>3. QED BY <3>2 DEF s
    <2>3. d = [c EXCEPT ![t].columns = [j \in DOMAIN @ |->
                  IF @[j].name = new.name THEN [@[j] EXCEPT !.default = None] ELSE @[j]]]
        BY <2>1, <2>2 DEF DropDefaultResults
    <2>4. /\ d[t] = [before EXCEPT !.columns = [j \in DOMAIN @ |->
                  IF @[j].name = new.name THEN [@[j] EXCEPT !.default = None] ELSE @[j]]]
          /\ DOMAIN d = DOMAIN c
        BY <1>2, <2>3
    <2>5. [before.columns[i] EXCEPT !.default = None] = ColumnAfter(n + 1, new)
        BY <1>8, <1>11, <2>1, ColumnSteps
    <2>6. \A j \in DOMAIN before.columns : before.columns[j].name = new.name <=> j = i
        BY <1>4, <1>8 DEF Named
    <2>7. [j \in DOMAIN before.columns |->
              IF before.columns[j].name = new.name
              THEN [before.columns[j] EXCEPT !.default = None] ELSE before.columns[j]]
          = [before.columns EXCEPT ![i] = ColumnAfter(n + 1, new)]
        BY <1>2, <2>5, <2>6
    <2>8. QED BY <1>5, <1>8, <2>4, <2>7
<1>9. CASE n = 3
    <2>1. /\ s = [op |-> "add_default", column |-> new.name, text |-> new.default_value]
          /\ ~KeepsDefault(new) /\ HasDefault(new)
        BY <1>9 DEF Statement, Needed
    <2>2. d \in AddDefaultResults(c, t, s)
        <3>1. s.op = "add_default"
            BY <2>1
        <3> HIDE DEF s
        <3>2. Results(c, t, s) = AddDefaultResults(c, t, s)
            BY <1>11, <3>1, ResultsOf
        <3>3. QED BY <3>2 DEF s
    <2>3. d = [c EXCEPT ![t].columns[i].default =
                  [by |-> "plugin", table |-> t, column |-> new.name,
                   text |-> Stored(new.default_value)]]
        <3>1. PICK j \in Named(c[t], s.column) :
                 d = [c EXCEPT ![t].columns[j].default =
                        [by |-> "plugin", table |-> t, column |-> s.column,
                         text |-> Stored(s.text)]]
            BY <2>2 DEF AddDefaultResults
        <3>2. s.column = new.name /\ s.text = new.default_value
            BY <2>1
        <3>3. j = i
            BY <1>2, <1>4, <1>9, <3>1, <3>2
        <3>4. QED BY <3>1, <3>2, <3>3
    <2>4. d = [c EXCEPT ![t].columns[i].default = DefaultOf("plugin", t, new)]
        BY <2>1, <2>3 DEF DefaultOf
    <2>5. [before.columns[i] EXCEPT !.default = DefaultOf("plugin", t, new)]
             = ColumnAfter(n + 1, new)
        BY <1>9, <1>11, <2>1, ColumnSteps
    <2>6. /\ d[t] = [before EXCEPT !.columns[i].default = DefaultOf("plugin", t, new)]
          /\ DOMAIN d = DOMAIN c
        BY <1>2, <2>4
    <2>7. QED BY <1>2, <1>5, <1>9, <2>5, <2>6
<1>10. QED BY <1>1, <1>6, <1>7, <1>8, <1>9

----------------------------------------------------------------------------
(* The steps of an alteration.                                              *)

LEMMA SameEdit ==
    ASSUME edit'.old = edit.old, edit'.seen = edit.seen, edit'.column = edit.column,
           edit'.table = edit.table, NEW new
    PROVE  /\ \A n \in 0..4 : TableAfter(n, new)' = TableAfter(n, new)
           /\ \A n \in 0..4 : Left(n, new)' = Left(n, new)
           /\ NameIsOwn(new)' = NameIsOwn(new)
<1>1. KeepsDefault(new)' = KeepsDefault(new)
    BY DEF KeepsDefault
<1>2. \A n \in 1..4 : Needed(n, new)' = Needed(n, new) /\ Statement(n, new)' = Statement(n, new)
    BY <1>1 DEF Needed, Statement
<1>3. \A n \in 1..4 : Part(n, new)' = Part(n, new)
    BY <1>2 DEF Part
<1>4. \A n \in 0..4 : Left(n, new)' = Left(n, new)
    <2>1. /\ Part(1, new)' = Part(1, new) /\ Part(2, new)' = Part(2, new)
          /\ Part(3, new)' = Part(3, new) /\ Part(4, new)' = Part(4, new)
        BY <1>3
    <2>2. QED BY <2>1 DEF Left
<1>5. \A n \in 0..4 : ColumnAfter(n, new)' = ColumnAfter(n, new)
    BY <1>1 DEF ColumnAfter
<1>6. \A n \in 0..4 : TableAfter(n, new)' = TableAfter(n, new)
    BY <1>5 DEF TableAfter
<1>7. NameIsOwn(new)' = NameIsOwn(new)
    BY DEF NameIsOwn
<1>8. QED BY <1>4, <1>6, <1>7

(* How far an alteration has come.                                          *)
Reached(n, new) ==
    /\ catalog[edit.table] = TableAfter(n, new)
    /\ n >= 1 => NameIsOwn(new)
    /\ edit.todo = Left(n, new)

(* The first statement is always one that is needed, for the table as it is. *)
LEMMA AlterationRuns ==
    ASSUME EditorInv, RunStatement, edit.column # 0, ~edit.disturbed
    PROVE  Altering' /\ DOMAIN catalog' = Tables
<1>1. /\ edit.step = "running" /\ edit.todo # <<>>
      /\ catalog' \in Results(catalog, edit.table, Head(edit.todo))
      /\ edit' = [edit EXCEPT !.todo = Tail(@),
                              !.step = IF Len(edit.todo) = 1 THEN "done" ELSE "running"]
    BY DEF RunStatement
<1>2. EditInv /\ EditShape /\ Altering /\ DOMAIN catalog = Tables
    BY DEF EditorInv, CatalogInv, EditInv
<1>3. PICK new \in NewColumns : \E n \in 0..4 :
         ~Unsupported(edit.old, new) /\ edit.asked = TableAfter(4, new) /\ Reached(n, new)
    BY <1>1, <1>2 DEF Altering, Reached
<1>4. PICK n \in 0..4 : Reached(n, new)
    BY <1>3
<1>5. ~Unsupported(edit.old, new) /\ edit.asked = TableAfter(4, new)
    BY <1>3
<1>6. Alters(new) /\ edit.table \in DOMAIN catalog
    BY <1>2, <1>3, OpenedColumn DEF Alters
<1>7. /\ edit'.old = edit.old /\ edit'.seen = edit.seen /\ edit'.column = edit.column
      /\ edit'.table = edit.table /\ edit'.asked = edit.asked
      /\ edit'.todo = Tail(edit.todo)
      /\ edit'.step = IF Len(edit.todo) = 1 THEN "done" ELSE "running"
    BY <1>1, <1>2 DEF EditShape
<1>8. ASSUME NEW m \in 0..3, Reached(m, new), ~Needed(m + 1, new)
      PROVE  Reached(m + 1, new)
    <2>1. Left(m, new) = Left(m + 1, new)
        BY <1>8, LeftByParts
    <2>2. TableAfter(m + 1, new) = TableAfter(m, new) /\ (m = 0 => NameIsOwn(new))
        BY <1>6, <1>8, NotNeeded
    <2>3. QED BY <1>8, <2>1, <2>2 DEF Reached
<1>9. ASSUME NEW m \in 0..3, Reached(m, new), Needed(m + 1, new)
      PROVE  Altering' /\ DOMAIN catalog' = Tables
    <2> DEFINE s == Statement(m + 1, new)
               rest == Left(m + 1, new)
    <2>1. /\ edit.todo = <<s>> \o rest /\ rest \in Seq({Statement(k, new) : k \in 1..4})
        <3>1. m + 1 \in 0..4
            OBVIOUS
        <3>2. QED BY <1>9, <3>1, LeftByParts DEF Reached
    <2>2. Head(edit.todo) = s /\ Tail(edit.todo) = rest /\ (Len(edit.todo) = 1 <=> rest = <<>>)
        <3> DEFINE S == {Statement(k, new) : k \in 1..4}
        <3>1. s \in S
            OBVIOUS
        <3> HIDE DEF S, s, rest
        <3>2. rest \in Seq(S)
            BY <2>1 DEF S
        <3>3. Head(<<s>> \o rest) = s /\ Tail(<<s>> \o rest) = rest
            BY <3>1, <3>2
        <3>4. Len(<<s>> \o rest) = 1 + Len(rest) /\ (Len(rest) = 0 <=> rest = <<>>)
            BY <3>1, <3>2
        <3>5. QED BY <2>1, <3>2, <3>3, <3>4
    <2>3. /\ catalog'[edit.table] = TableAfter(m + 1, new) /\ NameIsOwn(new)
          /\ DOMAIN catalog' = Tables
        BY <1>1, <1>2, <1>4, <1>6, <1>9, <2>2, RunsPart DEF Reached
    <2>4. m + 1 \in 0..4 /\ 4 \in 0..4
        OBVIOUS
    <2>5. /\ TableAfter(m + 1, new)' = TableAfter(m + 1, new)
          /\ TableAfter(4, new)' = TableAfter(4, new)
          /\ Left(m + 1, new)' = Left(m + 1, new)
          /\ NameIsOwn(new)'
        BY <1>7, <2>3, <2>4, SameEdit
    <2>6. /\ ~Unsupported(edit'.old, new)
          /\ edit'.asked = TableAfter(4, new)'
          /\ catalog'[edit'.table] = TableAfter(m + 1, new)'
          /\ edit'.todo = Left(m + 1, new)'
          /\ edit'.step = "done" => edit'.todo = <<>>
        BY <1>5, <1>7, <2>2, <2>3, <2>5
    <2>7. QED BY <1>3, <2>3, <2>4, <2>5, <2>6 DEF Altering
<1>10. ~Reached(4, new)
    BY <1>1 DEF Reached, Left
<1> DEFINE Goal == Altering' /\ DOMAIN catalog' = Tables
<1>11. \A m \in 0..3 : Reached(m, new) => Goal \/ Reached(m + 1, new)
    BY <1>8, <1>9
<1> HIDE DEF Goal
<1>12. /\ Reached(0, new) => Goal \/ Reached(1, new)
       /\ Reached(1, new) => Goal \/ Reached(2, new)
       /\ Reached(2, new) => Goal \/ Reached(3, new)
       /\ Reached(3, new) => Goal \/ Reached(4, new)
    BY <1>11
<1>13. n = 0 \/ n = 1 \/ n = 2 \/ n = 3 \/ n = 4
    OBVIOUS
<1>14. QED BY <1>4, <1>10, <1>12, <1>13 DEF Goal

(* What the editor asks for is what all the statements together make.       *)
LEMMA AlterationBegins ==
    ASSUME NEW new, Alters(new)
    PROVE  TableAfter(0, new) = edit.seen /\ Asked(edit.seen, edit.column, new) = TableAfter(4, new)
<1> DEFINE i == edit.column
           was == edit.seen.columns[i]
           columns == edit.seen.columns
<1>1. /\ was \in Columns /\ i \in DOMAIN columns
      /\ edit.seen = [columns |-> columns, keys |-> edit.seen.keys]
      /\ columns = [j \in DOMAIN columns |-> columns[j]]
    <2>1. columns \in Seq(Columns)
        BY OpenedColumn DEF Sound, TableRecords
    <2>2. columns = [j \in DOMAIN columns |-> columns[j]]
        BY <2>1
    <2>3. QED BY <2>2, OpenedColumn
<1>2. was = [name |-> was.name, type |-> was.type, nullable |-> was.nullable,
             identity |-> was.identity, pk |-> was.pk, default |-> was.default]
    BY <1>1 DEF Columns
<1>3. TableAfter(0, new) = edit.seen
    <2>1. ColumnAfter(0, new) = was
        BY <1>2 DEF ColumnAfter
    <2>2. QED BY <1>1, <2>1 DEF TableAfter
<1>4. Asked(edit.seen, i, new) = TableAfter(4, new)
    <2> DEFINE dflt == IF KeepsDefault(new) THEN was.default
                       ELSE DefaultOf("plugin", edit.table, new)
    <2> HIDE DEF dflt
    <2>1. Asked(edit.seen, i, new) =
             [edit.seen EXCEPT !.columns[i] =
                [was EXCEPT !.name = new.name, !.type = new.data_type,
                            !.nullable = new.is_nullable, !.default = dflt]]
        BY <1>1 DEF Asked, dflt, KeepsDefault
    <2>2. PICK col : col = was
        OBVIOUS
    <2>3. [col EXCEPT !.name = new.name, !.type = new.data_type,
                      !.nullable = new.is_nullable, !.default = dflt]
             = [name |-> new.name, type |-> new.data_type, nullable |-> new.is_nullable,
                identity |-> was.identity, pk |-> was.pk, default |-> dflt]
        <3>1. col = [name |-> was.name, type |-> was.type, nullable |-> was.nullable,
                     identity |-> was.identity, pk |-> was.pk, default |-> was.default]
            BY <1>2, <2>2
        <3> HIDE DEF was
        <3>2. PICK a : a = [col EXCEPT !.name = new.name]
            OBVIOUS
        <3>3. a = [name |-> new.name, type |-> was.type, nullable |-> was.nullable,
                   identity |-> was.identity, pk |-> was.pk, default |-> was.default]
            BY ONLY <3>1, <3>2
        <3>4. PICK b : b = [a EXCEPT !.type = new.data_type]
            OBVIOUS
        <3>5. b = [name |-> new.name, type |-> new.data_type, nullable |-> was.nullable,
                   identity |-> was.identity, pk |-> was.pk, default |-> was.default]
            BY ONLY <3>3, <3>4
        <3>6. PICK c : c = [b EXCEPT !.nullable = new.is_nullable]
            OBVIOUS
        <3>7. c = [name |-> new.name, type |-> new.data_type, nullable |-> new.is_nullable,
                   identity |-> was.identity, pk |-> was.pk, default |-> was.default]
            BY ONLY <3>5, <3>6
        <3>8. [c EXCEPT !.default = dflt] =
                  [name |-> new.name, type |-> new.data_type, nullable |-> new.is_nullable,
                   identity |-> was.identity, pk |-> was.pk, default |-> dflt]
            BY ONLY <3>7
        <3>9. [col EXCEPT !.name = new.name, !.type = new.data_type,
                          !.nullable = new.is_nullable, !.default = dflt]
                 = [c EXCEPT !.default = dflt]
            BY ONLY <3>2, <3>4, <3>6
        <3>10. QED BY ONLY <3>8, <3>9
    <2>4. ColumnAfter(4, new) =
             [name |-> new.name, type |-> new.data_type, nullable |-> new.is_nullable,
              identity |-> was.identity, pk |-> was.pk, default |-> dflt]
        BY DEF ColumnAfter, dflt
    <2>5. QED BY <2>1, <2>2, <2>3, <2>4 DEF TableAfter
<1>5. QED BY <1>3, <1>4

(* An edit of one statement either leaves the table or makes of it what was *)
(* asked for.                                                               *)
LEMMA AdditionRuns ==
    ASSUME EditorInv, RunStatement, edit.column = 0, ~edit.disturbed
    PROVE  Adding' /\ DOMAIN catalog' = Tables
<1>1. /\ edit.step = "running" /\ edit.todo # <<>>
      /\ catalog' \in Results(catalog, edit.table, Head(edit.todo))
      /\ edit' = [edit EXCEPT !.todo = Tail(@),
                              !.step = IF Len(edit.todo) = 1 THEN "done" ELSE "running"]
    BY DEF RunStatement
<1>2. EditInv /\ EditShape /\ Adding /\ DOMAIN catalog = Tables /\ edit.table \in Tables
    BY <1>1 DEF EditorInv, CatalogInv, EditInv
<1>3. catalog[edit.table] = edit.seen
    BY <1>1, <1>2 DEF Adding
<1>4. PICK s : edit.todo = <<s>> /\ Leads(s)
    BY <1>1, <1>2 DEF Adding
<1>5. Head(edit.todo) = s /\ Tail(edit.todo) = <<>> /\ Len(edit.todo) = 1
    BY <1>4
<1>6. /\ edit'.table = edit.table /\ edit'.asked = edit.asked /\ edit'.column = edit.column
      /\ edit'.todo = <<>> /\ edit'.step = "done"
    BY <1>1, <1>2, <1>5 DEF EditShape
<1> DEFINE t == edit.table
<1>7. catalog' \in Results(catalog, t, s) /\ t \in DOMAIN catalog
    BY <1>1, <1>2, <1>5
<1>8. catalog'[t] = edit.asked /\ DOMAIN catalog' = Tables
    <2>1. CASE s.op = "create"
        <3>1. catalog' \in CreateResults(catalog, t, s)
            BY <1>7, <2>1 DEF Results
        <3>2. catalog' = [catalog EXCEPT ![t] =
                 [columns |-> [i \in DOMAIN s.columns |-> ColumnFrom(t, s.columns[i])],
                  keys |-> {}]]
            BY <3>1 DEF CreateResults
        <3>3. QED BY <1>2, <1>4, <1>7, <2>1, <3>2 DEF Leads
    <2>2. CASE s.op = "add_column"
        <3>1. /\ edit.seen # None
              /\ edit.asked = [edit.seen EXCEPT !.columns = Append(@, ColumnFrom(t, s.column))]
            BY <1>4, <2>2 DEF Leads
        <3>2. catalog' \in AddColumnResults(catalog, t, s)
            BY <1>3, <1>7, <2>2, <3>1 DEF Results
        <3>3. catalog' = [catalog EXCEPT ![t].columns = Append(@, ColumnFrom(t, s.column))]
            BY <3>2 DEF AddColumnResults
        <3>4. QED BY <1>2, <1>3, <1>7, <3>1, <3>3
    <2>3. CASE s.op = "add_key"
        <3> DEFINE other == catalog[s.ref_table]
                   froms == Named(edit.seen, s.column)
                   refs == Named(other, s.ref_column)
                   key(tos) == [name |-> s.name, ref |-> s.ref_table, columns |-> SetToSeq(froms),
                                refs |-> SetToSeq(tos), update |-> s.on_update,
                                delete |-> s.on_delete]
        <3>1. /\ edit.seen # None /\ Sound(other)
              /\ edit.asked = [edit.seen EXCEPT !.keys = @ \cup {key(refs)}]
            BY <1>4, <2>3 DEF Leads
        <3>2. catalog' \in AddKeyResults(catalog, t, s)
            BY <1>3, <1>7, <2>3, <3>1 DEF Results
        <3>3. other # None
            BY <3>1, CatalogAssumption DEF Sound
        <3>4. PICK tos : tos = {j \in refs : other.columns[j].pk}
            OBVIOUS
        <3>5. tos # {} /\ catalog' = [catalog EXCEPT ![t].keys = @ \cup {key(tos)}]
            BY <1>3, <3>2, <3>3, <3>4 DEF AddKeyResults
        <3>6. tos = refs
            BY <3>1, <3>4, <3>5 DEF Named, Sound
        <3> HIDE DEF key
        <3>7. QED BY <1>2, <1>3, <1>7, <3>1, <3>5, <3>6
    <2>4. CASE s.op = "drop_key"
        <3>1. /\ edit.seen # None /\ Sound(edit.seen)
              /\ edit.asked = [edit.seen EXCEPT !.keys = {key \in @ : key.name # s.name}]
            BY <1>4, <2>4 DEF Leads
        <3>2. catalog' \in DropKeyResults(catalog, t, s)
            BY <1>3, <1>7, <2>4, <3>1 DEF Results
        <3>3. PICK key \in edit.seen.keys :
                 key.name = s.name /\ catalog' = [catalog EXCEPT ![t].keys = @ \ {key}]
            BY <1>3, <3>2 DEF DropKeyResults
        <3>4. edit.seen.keys \ {key} = {k \in edit.seen.keys : k.name # s.name}
            BY <3>1, <3>3 DEF Sound
        <3>5. QED BY <1>2, <1>3, <1>7, <3>1, <3>3, <3>4
    <2>5. QED BY <1>4, <2>1, <2>2, <2>3, <2>4 DEF Leads
<1>9. QED BY <1>6, <1>8 DEF Adding

----------------------------------------------------------------------------
(* The invariant of an edit holds in every state.                           *)

LEMMA InitEditor == Init => EditorInv
<1> SUFFICES ASSUME Init PROVE EditorInv
    OBVIOUS
<1>1. edit = NoEdit /\ catalog \in FirstTables
    BY DEF Init
<1>2. /\ edit.step = "idle" /\ edit.column = 0 /\ edit.reads = {} /\ edit.disturbed = FALSE
      /\ EditShape
    BY <1>1 DEF NoEdit, EditShape
<1>3. CatalogInv
    BY <1>1, <1>2, CatalogAssumption DEF CatalogInv, SoundCatalog, Present
<1>4. EditInv
    BY <1>2 DEF EditInv, Steps
<1>5. QED BY <1>2, <1>3, <1>4 DEF EditorInv, Opened, Altering, Adding

(* Without the catalog and the edit nothing of it changes.                  *)
LEMMA EditorStill ==
    ASSUME EditorInv, UNCHANGED <<catalog, edit>> PROVE EditorInv'
<1>1. CatalogInv' /\ EditInv' /\ Opened'
    BY DEF EditorInv, CatalogInv, EditInv, EditShape, Opened
<1>2. Altering'
    <2>1. \A new : /\ \A n \in 0..4 : TableAfter(n, new)' = TableAfter(n, new)
                   /\ \A n \in 0..4 : Left(n, new)' = Left(n, new)
                   /\ NameIsOwn(new)' = NameIsOwn(new)
        BY SameEdit
    <2>2. QED BY <2>1 DEF EditorInv, Altering
<1>3. Adding'
    BY DEF EditorInv, Adding, Leads
<1>4. QED BY <1>1, <1>2, <1>3 DEF EditorInv

LEMMA EditorOpens ==
    ASSUME EditorInv, NEW t \in Present(catalog), NEW i \in DOMAIN catalog[t].columns,
           OpenColumn(t, i)
    PROVE  EditorInv'
<1>1. /\ edit.step = "idle" /\ catalog' = catalog
      /\ edit' = [edit EXCEPT !.step = "open", !.table = t, !.reads = {t}, !.column = i,
                              !.old = TableColumn(catalog[t].columns[i]), !.seen = catalog[t]]
    BY DEF OpenColumn
<1>2. CatalogInv /\ EditInv /\ EditShape /\ edit.disturbed = FALSE
    BY <1>1 DEF EditorInv, EditInv
<1>3. t \in Tables /\ catalog[t] # None
    BY DEF Present
<1>4. /\ edit'.step = "open" /\ edit'.table = t /\ edit'.reads = {t} /\ edit'.column = i
      /\ edit'.old = TableColumn(catalog[t].columns[i]) /\ edit'.seen = catalog[t]
      /\ edit'.disturbed = FALSE /\ EditShape'
    BY <1>1, <1>2 DEF EditShape
<1>5. Sound(catalog[t])
    BY <1>1, <1>2, <1>3 DEF CatalogInv
<1>6. i # 0
    <2>1. catalog[t].columns \in Seq(Columns)
        BY <1>5 DEF Sound, TableRecords
    <2>2. DOMAIN catalog[t].columns = 1..Len(catalog[t].columns)
        BY <2>1
    <2>3. QED BY <2>2
<1>7. CatalogInv' /\ EditInv' /\ Opened'
    BY <1>1, <1>2, <1>3, <1>4, <1>5, <1>6 DEF CatalogInv, EditInv, Opened, Steps
<1>8. QED BY <1>4, <1>7 DEF EditorInv, Altering, Adding

LEMMA EditorAlters ==
    ASSUME EditorInv, NEW new \in NewColumns, AlterColumn(new)
    PROVE  EditorInv'
<1>1. /\ edit.step = "open" /\ catalog' = catalog
      /\ edit' = IF Unsupported(edit.old, new) THEN [edit EXCEPT !.step = "refused"]
                 ELSE [edit EXCEPT !.step = IF AlterColumnSql(edit.old, new) = <<>>
                                            THEN "done" ELSE "running",
                                   !.todo = AlterColumnSql(edit.old, new),
                                   !.asked = Asked(edit.seen, edit.column, new)]
    BY DEF AlterColumn
<1>2. CatalogInv /\ EditInv /\ EditShape /\ Opened /\ edit.column # 0
    BY <1>1 DEF EditorInv, EditInv
<1>3. /\ edit'.table = edit.table /\ edit'.reads = edit.reads /\ edit'.column = edit.column
      /\ edit'.old = edit.old /\ edit'.seen = edit.seen /\ edit'.disturbed = edit.disturbed
      /\ edit'.step \in {"refused", "done", "running"} /\ EditShape'
    BY <1>1, <1>2 DEF EditShape
<1>4. CatalogInv' /\ EditInv' /\ Opened' /\ Adding'
    BY <1>1, <1>2, <1>3 DEF CatalogInv, EditInv, Opened, Adding, Steps
<1>5. Altering'
    <2>1. SUFFICES ASSUME edit'.step \in {"running", "done", "failed"}, ~edit.disturbed
                   PROVE  Altering'
        BY <1>3 DEF Altering
    <2>2. ~Unsupported(edit.old, new)
        BY <1>1, <1>2, <2>1 DEF EditShape
    <2>3. /\ edit'.todo = AlterColumnSql(edit.old, new)
          /\ edit'.asked = Asked(edit.seen, edit.column, new)
          /\ edit'.step = "done" => edit'.todo = <<>>
        BY <1>1, <1>2, <2>2 DEF EditShape
    <2>4. Alters(new) /\ catalog[edit.table] = edit.seen
        BY <1>1, <1>2, <2>1 DEF Alters, Opened
    <2>5. /\ edit'.asked = TableAfter(4, new) /\ edit'.todo = Left(0, new)
          /\ catalog'[edit'.table] = TableAfter(0, new)
        BY <1>1, <1>3, <2>3, <2>4, AlterationBegins, LeftByParts
    <2>6. 0 \in 0..4 /\ 4 \in 0..4
        OBVIOUS
    <2>7. /\ TableAfter(0, new)' = TableAfter(0, new) /\ TableAfter(4, new)' = TableAfter(4, new)
          /\ Left(0, new)' = Left(0, new)
        BY <1>3, <2>6, SameEdit
    <2>8. /\ ~Unsupported(edit'.old, new) /\ edit'.asked = TableAfter(4, new)'
          /\ catalog'[edit'.table] = TableAfter(0, new)' /\ (0 >= 1 => NameIsOwn(new)')
          /\ edit'.todo = Left(0, new)'
        BY <1>3, <2>2, <2>5, <2>7
    <2>9. QED BY <2>3, <2>6, <2>8 DEF Altering
<1>6. QED BY <1>4, <1>5 DEF EditorInv

(* An edit that adds or drops begins with the statement for it.             *)
LEMMA EditorStarts ==
    ASSUME EditorInv, NEW t \in Tables, NEW other, NEW s, NEW asked, Start(t, other, s, asked),
           edit'.asked = asked /\ edit'.seen = catalog[t] /\ edit'.table = t
              /\ edit'.reads = {t, other} /\ catalog' = catalog => Leads(s)'
    PROVE  EditorInv'
<1>1. /\ edit.step = "idle" /\ catalog' = catalog
      /\ edit' = [edit EXCEPT !.step = "running", !.table = t, !.reads = {t, other},
                              !.seen = catalog[t], !.todo = <<s>>, !.asked = asked]
    BY DEF Start
<1>2. CatalogInv /\ EditInv /\ EditShape /\ edit.column = 0 /\ edit.disturbed = FALSE
    BY <1>1 DEF EditorInv, EditInv
<1>3. /\ edit'.step = "running" /\ edit'.table = t /\ edit'.reads = {t, other}
      /\ edit'.column = 0 /\ edit'.seen = catalog[t] /\ edit'.todo = <<s>>
      /\ edit'.asked = asked /\ edit'.disturbed = FALSE /\ EditShape'
    BY <1>1, <1>2 DEF EditShape
<1>4. CatalogInv' /\ EditInv' /\ Opened' /\ Altering'
    BY <1>1, <1>2, <1>3 DEF CatalogInv, EditInv, Opened, Altering, Steps
<1>5. Adding'
    <2>1. Leads(s)'
        BY <1>1, <1>3
    <2>2. QED BY <1>1, <1>3, <2>1 DEF Adding
<1>6. QED BY <1>4, <1>5 DEF EditorInv

LEMMA SoundWhileIdle ==
    ASSUME EditorInv, edit.step = "idle", NEW t \in Tables, catalog[t] # None
    PROVE  Sound(catalog[t]) /\ catalog[t] \in TableRecords
BY DEF EditorInv, CatalogInv, Sound

LEMMA EditorAdds ==
    ASSUME EditorInv, NEW t \in Tables,
           \/ \E def \in NewColumns : CreateTable(t, <<def>>) \/ AddColumn(t, def)
           \/ \E def \in NewKeys : AddForeignKey(t, def) \/ DropForeignKey(t, def.name)
    PROVE  EditorInv'
<1>1. ASSUME NEW def \in NewColumns, CreateTable(t, <<def>>) PROVE EditorInv'
    <2> DEFINE s == [op |-> "create", columns |-> <<def>>]
               asked == [columns |-> [i \in DOMAIN <<def>> |-> ColumnFrom(t, <<def>>[i])],
                         keys |-> {}]
    <2>1. Start(t, t, s, asked)
        BY <1>1 DEF CreateTable
    <2>2. edit'.asked = asked /\ edit'.table = t => Leads(s)'
        BY DEF Leads
    <2> HIDE DEF s, asked
    <2>3. QED BY <2>1, <2>2, EditorStarts
<1>2. ASSUME NEW def \in NewColumns, AddColumn(t, def) PROVE EditorInv'
    <2> DEFINE s == [op |-> "add_column", column |-> def]
               asked == [catalog[t] EXCEPT !.columns = Append(@, ColumnFrom(t, def))]
    <2>1. Start(t, t, s, asked) /\ catalog[t] # None
        BY <1>2 DEF AddColumn
    <2>2. edit'.asked = asked /\ edit'.seen = catalog[t] /\ edit'.table = t => Leads(s)'
        BY <2>1 DEF Leads
    <2> HIDE DEF s, asked
    <2>3. QED BY <2>1, <2>2, EditorStarts
<1>3. ASSUME NEW def \in NewKeys, AddForeignKey(t, def) PROVE EditorInv'
    <2> DEFINE s == AddKeySql(def)
               asked == [catalog[t] EXCEPT !.keys = @ \cup {AskedKey(t, def)}]
    <2>1. /\ catalog[t] # None /\ catalog[def.ref_table] # None
          /\ ~BadAction(def.on_update) /\ ~BadAction(def.on_delete)
          /\ Start(t, def.ref_table, s, asked)
        BY <1>3 DEF AddForeignKey
    <2>2. def.ref_table \in Tables
        BY CatalogAssumption DEF KeyDefinitions
    <2>3. /\ catalog[t] \in TableRecords
          /\ Sound(catalog[def.ref_table])
        BY <2>1, <2>2, SoundWhileIdle DEF Start
    <2>4. /\ Rule(def.on_update) = ActionSql(def.on_update)
          /\ Rule(def.on_delete) = ActionSql(def.on_delete)
        <3>1. None \notin Actions /\ "NO ACTION" \in Actions
            BY CatalogAssumption DEF Actions
        <3>2. "" \notin Actions
            BY DEF Actions
        <3>3. QED BY <2>1, <3>1, <3>2 DEF Rule, ActionSql, BadAction, NoAction
    <2>5. /\ s.op = "add_key" /\ s.name = def.name /\ s.column = def.column
          /\ s.ref_table = def.ref_table /\ s.ref_column = def.ref_column
          /\ s.on_update = ActionSql(def.on_update) /\ s.on_delete = ActionSql(def.on_delete)
        BY DEF AddKeySql
    <2>6. AskedKey(t, def) =
             [name |-> s.name, ref |-> s.ref_table,
              columns |-> SetToSeq(Named(catalog[t], s.column)),
              refs |-> SetToSeq(Named(catalog[s.ref_table], s.ref_column)),
              update |-> s.on_update, delete |-> s.on_delete]
        BY <2>4, <2>5 DEF AskedKey
    <2>7. s' = s
        BY DEF AddKeySql, ActionSql
    <2> HIDE DEF s
    <2>8. edit'.asked = asked /\ edit'.seen = catalog[t] /\ edit'.table = t
             /\ edit'.reads = {t, def.ref_table} /\ catalog' = catalog => Leads(s)'
        BY <2>1, <2>2, <2>3, <2>5, <2>6, <2>7 DEF Leads
    <2> HIDE DEF asked
    <2>9. QED BY <2>1, <2>7, <2>8, EditorStarts
<1>4. ASSUME NEW def \in NewKeys, DropForeignKey(t, def.name) PROVE EditorInv'
    <2> DEFINE s == [op |-> "drop_key", name |-> def.name]
               asked == [catalog[t] EXCEPT !.keys = {key \in @ : key.name # def.name}]
    <2>1. Start(t, t, s, asked) /\ catalog[t] # None
        BY <1>4 DEF DropForeignKey
    <2>2. Sound(catalog[t])
        BY <2>1, SoundWhileIdle DEF Start
    <2>3. edit'.asked = asked /\ edit'.seen = catalog[t] => Leads(s)'
        BY <2>1, <2>2 DEF Leads
    <2> HIDE DEF s, asked
    <2>4. QED BY <2>1, <2>3, EditorStarts
<1>5. QED BY <1>1, <1>2, <1>3, <1>4

(* The next statement runs.                                                 *)
LEMMA EditorRuns ==
    ASSUME EditorInv, RunStatement PROVE EditorInv'
<1>1. /\ edit.step = "running"
      /\ edit' = [edit EXCEPT !.todo = Tail(@),
                              !.step = IF Len(edit.todo) = 1 THEN "done" ELSE "running"]
    BY DEF RunStatement
<1>2. EditInv /\ EditShape
    BY DEF EditorInv, EditInv
<1>3. /\ edit'.table = edit.table /\ edit'.reads = edit.reads /\ edit'.column = edit.column
      /\ edit'.old = edit.old /\ edit'.seen = edit.seen /\ edit'.disturbed = edit.disturbed
      /\ edit'.step \in {"done", "running"} /\ EditShape'
    BY <1>1, <1>2 DEF EditShape
<1>4. EditInv' /\ Opened'
    BY <1>1, <1>2, <1>3 DEF EditInv, Opened, Steps
<1>5. CASE edit.disturbed
    BY <1>3, <1>4, <1>5 DEF EditorInv, CatalogInv, Altering, Adding
<1>6. CASE ~edit.disturbed /\ edit.column # 0
    <2>1. Altering' /\ DOMAIN catalog' = Tables
        BY <1>6, AlterationRuns
    <2>2. QED BY <1>3, <1>4, <1>6, <2>1 DEF EditorInv, CatalogInv, Adding
<1>7. CASE ~edit.disturbed /\ edit.column = 0
    <2>1. Adding' /\ DOMAIN catalog' = Tables
        BY <1>7, AdditionRuns
    <2>2. QED BY <1>3, <1>4, <1>7, <2>1 DEF EditorInv, CatalogInv, Altering
<1>8. QED BY <1>5, <1>6, <1>7

(* The server refuses it: the table stays as far as it came.                *)
LEMMA EditorFails ==
    ASSUME EditorInv, StatementFails PROVE EditorInv'
<1>1. /\ edit.step = "running" /\ catalog' = catalog
      /\ edit' = [edit EXCEPT !.step = "failed", !.todo = <<>>]
    BY DEF StatementFails
<1>2. EditInv /\ EditShape
    BY DEF EditorInv, EditInv
<1>3. /\ edit'.table = edit.table /\ edit'.reads = edit.reads /\ edit'.column = edit.column
      /\ edit'.old = edit.old /\ edit'.seen = edit.seen /\ edit'.disturbed = edit.disturbed
      /\ edit'.asked = edit.asked /\ edit'.step = "failed" /\ EditShape'
    BY <1>1, <1>2 DEF EditShape
<1>4. EditInv' /\ Opened' /\ CatalogInv'
    BY <1>1, <1>2, <1>3 DEF EditorInv, CatalogInv, EditInv, Opened, Steps
<1>5. Altering'
    <2>1. \A new : /\ \A n \in 0..4 : TableAfter(n, new)' = TableAfter(n, new)
                   /\ NameIsOwn(new)' = NameIsOwn(new)
        BY <1>3, SameEdit
    <2>2. 4 \in 0..4
        OBVIOUS
    <2>3. QED BY <1>1, <1>3, <2>1, <2>2 DEF EditorInv, Altering
<1>6. Adding'
    BY <1>1, <1>3 DEF EditorInv, Adding
<1>7. QED BY <1>4, <1>5, <1>6 DEF EditorInv

(* Another client changes a table: one the edit reads disturbs it, any      *)
(* other one is nothing to it.                                              *)
LEMMA EditorOthers ==
    ASSUME EditorInv, OtherClient PROVE EditorInv'
<1>1. PICK t \in Tables, shape \in Shapes \cup {None} :
         /\ catalog' = [catalog EXCEPT ![t] = shape]
         /\ edit' = [edit EXCEPT !.disturbed = @ \/ t \in edit.reads]
    BY DEF OtherClient
<1>2. CatalogInv /\ EditInv /\ EditShape
    BY DEF EditorInv, EditInv
<1>3. /\ edit'.step = edit.step /\ edit'.table = edit.table /\ edit'.reads = edit.reads
      /\ edit'.column = edit.column /\ edit'.old = edit.old /\ edit'.seen = edit.seen
      /\ edit'.asked = edit.asked /\ edit'.todo = edit.todo /\ EditShape'
      /\ edit'.disturbed = (edit.disturbed \/ t \in edit.reads)
    BY <1>1, <1>2 DEF EditShape
<1>4. EditInv'
    <2>1. edit'.disturbed \in BOOLEAN
        BY <1>3
    <2>2. edit.step = "idle" => ~edit'.disturbed
        BY <1>2, <1>3 DEF EditInv
    <2>3. QED BY <1>2, <1>3, <2>1, <2>2 DEF EditInv
<1>5. CatalogInv'
    <2>1. DOMAIN catalog' = DOMAIN catalog
        BY <1>1
    <2>2. ~edit'.disturbed => ~edit.disturbed
        BY <1>3
    <2>3. ASSUME edit'.step = "idle" PROVE \A u \in Tables : catalog'[u] = None \/ Sound(catalog'[u])
        <3>1. edit.step = "idle" /\ DOMAIN catalog = Tables
            BY <1>2, <1>3, <2>3 DEF CatalogInv, EditInv
        <3>2. shape = None \/ Sound(shape)
            BY CatalogAssumption
        <3>3. QED BY <1>1, <1>2, <3>1, <3>2 DEF CatalogInv
    <2>4. QED BY <1>2, <2>1, <2>2, <2>3 DEF CatalogInv
<1>6. CASE edit.disturbed \/ t \in edit.reads
    BY <1>3, <1>4, <1>5, <1>6 DEF EditorInv, Opened, Altering, Adding
<1>7. CASE ~edit.disturbed /\ t \notin edit.reads
    <2>1. /\ ~edit'.disturbed /\ DOMAIN catalog = Tables
          /\ \A u \in edit.reads : u \in Tables => catalog'[u] = catalog[u]
        BY <1>1, <1>2, <1>3, <1>7 DEF CatalogInv
    <2>2. edit.step # "idle" => catalog'[edit.table] = catalog[edit.table]
        BY <1>2, <2>1 DEF EditInv
    <2>3. Opened'
        BY <1>3, <1>7, <2>2 DEF EditorInv, Opened
    <2>4. Altering'
        <3>1. \A new : /\ \A n \in 0..4 : TableAfter(n, new)' = TableAfter(n, new)
                       /\ \A n \in 0..4 : Left(n, new)' = Left(n, new)
                       /\ NameIsOwn(new)' = NameIsOwn(new)
            BY <1>3, SameEdit
        <3>2. 4 \in 0..4
            OBVIOUS
        <3>3. QED BY <1>3, <1>7, <2>2, <3>1, <3>2 DEF EditorInv, Altering
    <2>5. ASSUME NEW s, Leads(s) PROVE Leads(s)'
        BY <1>3, <2>1, <2>5 DEF Leads
    <2>6. Adding'
        BY <1>3, <1>7, <2>2, <2>5 DEF EditorInv, Adding
    <2>7. QED BY <1>4, <1>5, <2>3, <2>4, <2>6 DEF EditorInv
<1>8. QED BY <1>6, <1>7

LEMMA EditorKept == Spec => []EditorInv
<1>1. ASSUME EditorInv, [Next]_vars PROVE EditorInv'
    <2>1. CASE Reading
        <3>1. UNCHANGED <<catalog, edit>>
            BY <2>1 DEF Reading, Begin, ReadTables, ReadColumns, ReadFails, ProbeVersion,
                        ReadBanner, ReadKeys
        <3>2. QED BY <1>1, <3>1, EditorStill
    <2>2. CASE Editing
        <3>1. ASSUME NEW t \in Present(catalog), NEW i \in DOMAIN catalog[t].columns,
                     OpenColumn(t, i)
              PROVE  EditorInv'
            BY <1>1, <3>1, EditorOpens
        <3>2. ASSUME NEW new \in Offered("open", NewColumns), AlterColumn(new) PROVE EditorInv'
            BY <1>1, <3>2, EditorAlters DEF Offered
        <3>3. ASSUME NEW t \in Tables, NEW def \in Offered("idle", NewColumns),
                     CreateTable(t, <<def>>) \/ AddColumn(t, def)
              PROVE  EditorInv'
            BY <1>1, <3>3, EditorAdds DEF Offered
        <3>4. ASSUME NEW t \in Tables, NEW def \in Offered("idle", NewKeys),
                     AddForeignKey(t, def) \/ DropForeignKey(t, def.name)
              PROVE  EditorInv'
            BY <1>1, <3>4, EditorAdds DEF Offered
        <3>5. QED
            BY <1>1, <2>2, <3>1, <3>2, <3>3, <3>4, EditorRuns, EditorFails DEF Editing
    <2>3. CASE OtherClient
        BY <1>1, <2>3, EditorOthers
    <2>4. CASE UNCHANGED vars
        BY <1>1, <2>4, EditorStill DEF vars
    <2>5. QED BY <1>1, <2>1, <2>2, <2>3, <2>4 DEF Next
<1>2. QED BY <1>1, InitEditor, PTL DEF Spec

(* After the last statement that is needed the table is the one that was    *)
(* asked for.                                                               *)
LEMMA NothingLeft ==
    ASSUME NEW new, Alters(new), NEW n \in 0..4, Left(n, new) = <<>>
    PROVE  TableAfter(n, new) = TableAfter(4, new)
<1>1. ASSUME NEW m \in 0..3, Left(m, new) = <<>>
      PROVE  Left(m + 1, new) = <<>> /\ TableAfter(m, new) = TableAfter(m + 1, new)
    <2>1. ~Needed(m + 1, new)
        <3> DEFINE rest == Left(m + 1, new)
                   S == {Statement(k, new) : k \in 1..4}
        <3>1. m + 1 \in 0..4
            OBVIOUS
        <3>2. rest \in Seq(S)
            BY <3>1, LeftByParts
        <3>3. Needed(m + 1, new) => <<>> = <<Statement(m + 1, new)>> \o rest
            BY <1>1, LeftByParts
        <3>4. Statement(m + 1, new) \in S
            OBVIOUS
        <3> HIDE DEF rest, S
        <3>5. <<Statement(m + 1, new)>> \o rest # <<>>
            BY <3>2, <3>4
        <3>6. QED BY <3>3, <3>5
    <2>2. QED BY <1>1, <2>1, LeftByParts, NotNeeded
<1>2. /\ Left(0, new) = <<>> => Left(1, new) = <<>> /\ TableAfter(0, new) = TableAfter(1, new)
      /\ Left(1, new) = <<>> => Left(2, new) = <<>> /\ TableAfter(1, new) = TableAfter(2, new)
      /\ Left(2, new) = <<>> => Left(3, new) = <<>> /\ TableAfter(2, new) = TableAfter(3, new)
      /\ Left(3, new) = <<>> => Left(4, new) = <<>> /\ TableAfter(3, new) = TableAfter(4, new)
    BY <1>1
<1>3. n = 0 \/ n = 1 \/ n = 2 \/ n = 3 \/ n = 4
    OBVIOUS
<1>4. QED BY <1>2, <1>3

(* Whatever tables there are, whatever an editor asks for and whichever     *)
(* statement the server refuses: unless another client changes the table    *)
(* meanwhile, an edit that went through has made the table the user asked   *)
(* for, of a column with its old type, its old default and everything else  *)
(* that was left alone; and one that stopped half way has touched nothing   *)
(* but its column, each attribute of which is the old or the asked one, or  *)
(* a default that is gone (ddl/mod.rs:4-66, ops.rs:590-690).                *)
THEOREM EditsAlwaysAsAsked == Spec => []EditsAsAsked
<1>1. ASSUME EditorInv PROVE EditsAsAsked
    <2> DEFINE now == catalog[edit.table]
    <2>1. SUFFICES ASSUME edit.step \in {"running", "done", "failed"}, ~edit.disturbed
                   PROVE  EditsAsAsked
        BY DEF EditsAsAsked
    <2>2. CASE edit.column = 0
        BY <1>1, <2>1, <2>2 DEF EditorInv, Adding, EditsAsAsked
    <2>3. CASE edit.column # 0
        <3>1. PICK new \in NewColumns : \E n \in 0..4 :
                 /\ edit.asked = TableAfter(4, new) /\ now = TableAfter(n, new)
                 /\ edit.step = "done" => Left(n, new) = <<>>
            BY <1>1, <2>1, <2>3 DEF EditorInv, Altering
        <3>2. PICK n \in 0..4 :
                 /\ edit.asked = TableAfter(4, new) /\ now = TableAfter(n, new)
                 /\ edit.step = "done" => Left(n, new) = <<>>
            BY <3>1
        <3>3. Alters(new)
            BY <1>1, <2>3 DEF Alters, EditorInv
        <3>4. edit.step = "done" => now = edit.asked
            BY <3>2, <3>3, NothingLeft
        <3> DEFINE was == edit.seen.columns[edit.column]
        <3>5. 4 \in 0..4 /\ edit.column \in DOMAIN edit.seen.columns
            BY <3>3, OpenedColumn
        <3>6. /\ now.keys = edit.seen.keys
              /\ now.columns[edit.column] = ColumnAfter(n, new)
              /\ edit.asked.columns[edit.column] = ColumnAfter(4, new)
              /\ \A i \in DOMAIN edit.seen.columns \ {edit.column} :
                    now.columns[i] = edit.seen.columns[i]
            BY <3>2, <3>3, <3>5, TablesAfter
        <3>7. LET col == ColumnAfter(n, new)
                  last == ColumnAfter(4, new)
              IN  /\ <<col.type, col.nullable>> \in
                        {<<was.type, was.nullable>>, <<last.type, last.nullable>>}
                  /\ col.name \in {was.name, last.name}
                  /\ col.default \in {was.default, last.default, None}
            <4> DEFINE dflt == DefaultOf("plugin", edit.table, new)
            <4>1. n = 0 \/ n = 1 \/ n = 2 \/ n = 3 \/ n = 4
                OBVIOUS
            <4> HIDE DEF was, dflt
            <4>2. QED BY <4>1 DEF ColumnAfter, was, dflt
        <3>8. QED BY <2>3, <3>4, <3>6, <3>7 DEF EditsAsAsked
    <2>4. QED BY <2>2, <2>3
<1>2. QED BY <1>1, EditorKept, PTL

----------------------------------------------------------------------------
(* Sequences of sequences, and names in order.                              *)

\* Induction over the naturals, for a set: were n the least number outside
\* of T, then 0..n would be least among the intervals that end outside.
LEMMA SetInduction ==
    ASSUME NEW T, 0 \in T, \A n \in Nat : n \in T => n + 1 \in T
    PROVE  \A n \in Nat : n \in T
<1> SUFFICES ASSUME NEW m \in Nat, m \notin T PROVE FALSE
    OBVIOUS
<1> DEFINE S == 0..m
           R == StrictSubsetOrdering(S)
           F == {0..n : n \in {k \in 0..m : k \notin T}}
<1>1. IsFiniteSet(S)
    BY FS_Interval
<1>2. FiniteSubsetsOf(S) = SUBSET S
    BY <1>1, FS_FiniteSubsetsOfFinite
<1>3. IsWellFoundedOn(R, SUBSET S)
    BY <1>1, <1>2, FS_StrictSubsetOrderingWellFounded
<1>4. F \subseteq SUBSET S /\ F # {}
    OBVIOUS
<1>5. \E x \in F : \A y \in F : <<y, x>> \notin R
    <2> HIDE DEF F, R, S
    <2> QED BY <1>3, <1>4, WFMin
<1>6. PICK n \in 0..m : n \notin T /\ \A k \in 0..m : k \notin T => <<0..k, 0..n>> \notin R
    <2> HIDE DEF R, S
    <2> QED BY <1>5
<1>7. n # 0 /\ n - 1 \in 0..m
    BY <1>6
<1>8. n - 1 \notin T
    BY <1>6, <1>7
<1>9. <<0..(n - 1), 0..n>> \in R
    <2>1. n \in 0..n /\ n \notin 0..(n - 1)
        BY <1>7
    <2>2. QED BY <1>7, <2>1 DEF StrictSubsetOrdering
<1>10. QED BY <1>6, <1>7, <1>8, <1>9

(* Names in order: each one once.                                           *)
LEMMA OrderedNames ==
    ASSUME NEW S \in SUBSET Nat, IsFiniteSet(S)
    PROVE  /\ Cardinality(S) \in Nat
           /\ Ordered(S) \in [1..Cardinality(S) -> S]
           /\ \A x \in S : \E i \in 1..Cardinality(S) : Ordered(S)[i] = x
           /\ \A i, j \in 1..Cardinality(S) : Ordered(S)[i] = Ordered(S)[j] => i = j
<1> DEFINE upto(x) == {m \in S : m <= x}
           N == Cardinality(S)
           rank == [x \in S |-> Cardinality(upto(x))]
<1>1. N \in Nat
    BY FS_CardinalityType
<1>2. \A x \in S : /\ IsFiniteSet(upto(x)) /\ Cardinality(upto(x)) \in 1..N
    <2>1. TAKE x \in S
    <2>2. upto(x) \in SUBSET S /\ x \in upto(x)
        OBVIOUS
    <2>3. IsFiniteSet(upto(x)) /\ Cardinality(upto(x)) <= N
        BY <2>2, FS_Subset
    <2>4. Cardinality(upto(x)) \in Nat /\ Cardinality(upto(x)) # 0
        BY <2>2, <2>3, FS_CardinalityType, FS_EmptySet
    <2>5. QED BY <1>1, <2>3, <2>4
<1>3. \A x, y \in S : rank[x] = rank[y] => x = y
    <2>1. ASSUME NEW x \in S, NEW y \in S, x < y PROVE rank[x] # rank[y]
        <3>1. upto(x) \in SUBSET upto(y) /\ y \in upto(y) /\ y \notin upto(x)
            <4>1. x \in Int /\ y \in Int /\ S \subseteq Int
                OBVIOUS
            <4>2. ASSUME NEW m \in S, m <= x PROVE m <= y
                BY <2>1, <4>1, <4>2
            <4>3. y <= y /\ ~(y <= x)
                BY <2>1, <4>1
            <4>4. QED BY <4>2, <4>3
        <3>2. Cardinality(upto(x)) # Cardinality(upto(y))
            BY <1>2, <3>1, FS_Subset
        <3>3. QED BY <3>2
    <2>2. \A x, y \in S : x = y \/ x < y \/ y < x
        OBVIOUS
    <2> HIDE DEF rank
    <2>3. QED BY <2>1, <2>2
<1>4. IsFiniteSet(1..N) /\ Cardinality(1..N) = N
    BY <1>1, FS_Interval
<1>5. rank \in Injection(S, 1..N)
    BY <1>2, <1>3 DEF Injection, IsInjective
<1>6. rank \in Surjection(S, 1..N)
    <2> HIDE DEF rank, N
    <2> QED BY <1>4, <1>5, FS_Injection DEF N
<1>7. \A i \in 1..N : \E x \in S : rank[x] = i
    BY <1>6 DEF Surjection
<1>8. \A i \in 1..N : Ordered(S)[i] = CHOOSE x \in S : Cardinality(upto(x)) = i
    BY DEF Ordered
<1>9. \A i \in 1..N : Ordered(S)[i] \in S /\ rank[Ordered(S)[i]] = i
    <2>1. TAKE i \in 1..N
    <2>2. \E x \in S : Cardinality(upto(x)) = i
        BY <1>7
    <2>3. QED BY <1>8, <2>2
<1>10. Ordered(S) \in [1..N -> S]
    BY <1>9 DEF Ordered
<1> HIDE DEF rank
<1>11. ASSUME NEW x \in S PROVE \E i \in 1..N : Ordered(S)[i] = x
    <2>1. rank[x] \in 1..N
        BY <1>2 DEF rank
    <2>2. rank[Ordered(S)[rank[x]]] = rank[x] /\ Ordered(S)[rank[x]] \in S
        BY <1>9, <2>1
    <2>3. QED BY <1>3, <2>1, <2>2
<1>12. QED BY <1>1, <1>9, <1>10, <1>11

(* FlattenSeq puts its sequences one after the other: the k-th of them      *)
(* begins where the first k - 1 end, and every position is in one of them.  *)
Flat(s, at) ==
    /\ at \in [1..Len(s) -> Nat]
    /\ \A k \in 1..Len(s) :
          /\ at[k] + Len(s[k]) <= Len(FlattenSeq(s))
          /\ \A i \in 1..Len(s[k]) : FlattenSeq(s)[at[k] + i] = s[k][i]
    /\ \A n \in 1..Len(FlattenSeq(s)) :
          \E k \in 1..Len(s) : n - at[k] \in 1..Len(s[k])

LEMMA FlattenSteps ==
    ASSUME NEW X, NEW s \in Seq(Seq(X)), Len(s) # 0
    PROVE  \E f \in [1..Len(s) -> Seq(X)] :
              /\ FlattenSeq(s) = f[Len(s)]
              /\ f[1] = s[1]
              /\ \A i \in 2..Len(s) : f[i] = f[i-1] \o s[i]
<1> DEFINE N == Len(s)
           body(f, i) == IF i = 1 THEN s[i] ELSE f[i-1] \o s[i]
           T == {n \in Nat : n <= N => \E g \in [1..n -> Seq(X)] :
                                          \A i \in 1..n : g[i] = body(g, i)}
<1>1. 0 \in T
    <2>1. [i \in 1..0 |-> <<>>] \in [1..0 -> Seq(X)] /\ 1..0 = {}
        OBVIOUS
    <2>2. QED BY <2>1
<1>2. ASSUME NEW n \in Nat, n \in T PROVE n + 1 \in T
    <2>1. SUFFICES ASSUME n + 1 <= N
                   PROVE  \E h \in [1..(n + 1) -> Seq(X)] : \A i \in 1..(n + 1) : h[i] = body(h, i)
        OBVIOUS
    <2>2. PICK g \in [1..n -> Seq(X)] : \A i \in 1..n : g[i] = body(g, i)
        <3>1. n <= N
            BY <2>1
        <3>2. QED BY <1>2, <3>1
    <2>3. s[n + 1] \in Seq(X)
        BY <2>1
    <2> DEFINE next == body(g, n + 1)
               h == [i \in 1..(n + 1) |-> IF i = n + 1 THEN next ELSE g[i]]
    <2>4. next \in Seq(X)
        <3>1. CASE n = 0
            BY <2>3, <3>1
        <3>2. CASE n # 0
            <4>1. g[n] \in Seq(X) /\ (n + 1) - 1 = n
                BY <3>2
            <4>2. g[n] \o s[n + 1] \in Seq(X)
                BY <2>3, <4>1
            <4>3. QED BY <3>2, <4>1, <4>2
        <3>3. QED BY <3>1, <3>2
    <2> HIDE DEF next
    <2>5. h \in [1..(n + 1) -> Seq(X)]
        BY <2>4
    <2>6. ASSUME NEW i \in 1..(n + 1) PROVE h[i] = body(h, i)
        <3>1. CASE i = n + 1
            <4>1. h[i] = next
                BY <3>1
            <4>2. i # 1 => h[i - 1] = g[i - 1]
                BY <3>1
            <4>3. QED BY <3>1, <4>1, <4>2 DEF next
        <3>2. CASE i # n + 1
            <4>1. h[i] = g[i] /\ i \in 1..n
                BY <3>2
            <4>2. i # 1 => h[i - 1] = g[i - 1]
                BY <3>2
            <4>3. QED BY <2>2, <4>1, <4>2
        <3>3. QED BY <3>1, <3>2
    <2>7. QED
        <3> HIDE DEF h
        <3> QED BY <2>5, <2>6
<1>3. N \in Nat /\ N \in T
    <2>1. N \in Nat
        OBVIOUS
    <2> HIDE DEF T, N
    <2>2. QED BY <1>1, <1>2, <2>1, SetInduction
<1>4. PICK g \in [1..N -> Seq(X)] : \A i \in 1..N : g[i] = body(g, i)
    BY <1>3
<1> DEFINE f == CHOOSE h : h = [i \in 1..N |-> body(h, i)]
<1>5. f = [i \in 1..N |-> body(f, i)]
    <2>1. g = [i \in 1..N |-> body(g, i)]
        BY <1>4
    <2>2. QED BY <2>1
<1>6. FlattenSeq(s) = f[N]
    BY DEF FlattenSeq
<1> HIDE DEF f
<1>7. \A i \in 1..N : f[i] = body(f, i)
    BY <1>5
<1>8. \A i \in 1..N : f[i] \in Seq(X)
    <2> DEFINE U == {n \in Nat : n \in 1..N => f[n] \in Seq(X)}
    <2>1. 0 \in U
        OBVIOUS
    <2>2. ASSUME NEW n \in Nat, n \in U PROVE n + 1 \in U
        <3>1. SUFFICES ASSUME n + 1 \in 1..N PROVE f[n + 1] \in Seq(X)
            OBVIOUS
        <3>2. s[n + 1] \in Seq(X) /\ f[n + 1] = body(f, n + 1)
            BY <1>7, <3>1
        <3>3. CASE n = 0
            BY <3>2, <3>3
        <3>4. CASE n # 0
            <4>1. f[n] \in Seq(X) /\ (n + 1) - 1 = n /\ n + 1 # 1
                BY <2>2, <3>1, <3>4
            <4>2. QED BY <3>2, <4>1
        <3>5. QED BY <3>3, <3>4
    <2>3. \A n \in Nat : n \in U
        <3> HIDE DEF U
        <3> QED BY <2>1, <2>2, SetInduction
    <2>4. QED BY <2>3
<1>9. f \in [1..N -> Seq(X)]
    BY <1>5, <1>8
<1>10. f[1] = s[1]
    <2>1. 1 \in 1..N
        BY <1>3
    <2>2. QED BY <1>7, <2>1
<1>11. \A i \in 2..N : f[i] = f[i-1] \o s[i]
    <2>1. \A i \in 2..N : i \in 1..N /\ i # 1
        OBVIOUS
    <2>2. QED BY <1>7, <2>1
<1>12. QED BY <1>6, <1>9, <1>10, <1>11

LEMMA Concatenated ==
    ASSUME NEW X, NEW s \in Seq(X), NEW t \in Seq(X)
    PROVE  /\ s \o t \in Seq(X)
           /\ Len(s) \in Nat /\ Len(t) \in Nat
           /\ Len(s \o t) = Len(s) + Len(t)
           /\ \A i \in 1..Len(s) : (s \o t)[i] = s[i]
           /\ \A i \in 1..Len(t) : (s \o t)[Len(s) + i] = t[i]
<1>1. Len(s) \in Nat /\ Len(t) \in Nat /\ s \o t \in Seq(X) /\ Len(s \o t) = Len(s) + Len(t)
    OBVIOUS
<1>2. ASSUME NEW i \in 1..Len(s) PROVE (s \o t)[i] = s[i]
    OBVIOUS
<1>3. ASSUME NEW i \in 1..Len(t) PROVE (s \o t)[Len(s) + i] = t[i]
    <2>1. Len(s) + i \in 1..(Len(s) + Len(t)) /\ Len(s) + i > Len(s) /\ (Len(s) + i) - Len(s) = i
        BY <1>1
    <2>2. QED BY <1>1, <2>1
<1>4. QED BY <1>1, <1>2, <1>3

LEMMA Flattened ==
    ASSUME NEW X, NEW s \in Seq(Seq(X))
    PROVE  FlattenSeq(s) \in Seq(X) /\ \E at : Flat(s, at)
<1>1. CASE Len(s) = 0
    <2>1. s = <<>> /\ FlattenSeq(s) = <<>>
        BY <1>1 DEF FlattenSeq
    <2>2. Len(<<>>) = 0 /\ 1..0 = {} /\ <<>> \in [1..0 -> Nat] /\ <<>> \in Seq(X)
        OBVIOUS
    <2>3. Flat(s, <<>>)
        BY <2>1, <2>2 DEF Flat
    <2>4. QED BY <2>1, <2>2, <2>3
<1>2. CASE Len(s) # 0
    <2> DEFINE N == Len(s)
    <2>1. PICK f \in [1..N -> Seq(X)] :
             /\ FlattenSeq(s) = f[N]
             /\ f[1] = s[1]
             /\ \A i \in 2..N : f[i] = f[i-1] \o s[i]
        BY <1>2, FlattenSteps
    <2>2. N \in Nat \ {0} /\ \A k \in 1..N : s[k] \in Seq(X) /\ f[k] \in Seq(X)
        <3>1. N \in Nat \ {0} /\ \A k \in 1..N : s[k] \in Seq(X)
            BY <1>2
        <3> HIDE DEF N
        <3>2. QED BY <3>1
    <2> HIDE DEF N
    <2> DEFINE at == [k \in 1..N |-> IF k = 1 THEN 0 ELSE Len(f[k - 1])]
               Within(n) == \A k \in 1..n :
                               /\ at[k] + Len(s[k]) <= Len(f[n])
                               /\ \A i \in 1..Len(s[k]) : f[n][at[k] + i] = s[k][i]
               Covered(n) == \A m \in 1..Len(f[n]) : \E k \in 1..n : m - at[k] \in 1..Len(s[k])
               T == {n \in Nat : n \in 1..N => Within(n) /\ Covered(n)}
    <2>3. at \in [1..N -> Nat]
        <3>1. \A k \in 1..N : k # 1 => k - 1 \in 1..N
            BY <2>2
        <3>2. QED BY <2>2, <3>1
    <2>4. at[1] = 0 /\ \A k \in 1..N : k # 1 => at[k] = Len(f[k - 1])
        BY <2>2
    <2> HIDE DEF at
    <2>5. 0 \in T
        OBVIOUS
    <2>6. ASSUME NEW n \in Nat, n \in T PROVE n + 1 \in T
        <3>1. SUFFICES ASSUME n + 1 \in 1..N PROVE Within(n + 1) /\ Covered(n + 1)
            OBVIOUS
        <3>2. CASE n = 0
            <4>1. /\ at[1] = 0 /\ f[1] = s[1] /\ n + 1 = 1 /\ 1 \in 1..N
                  /\ s[1] \in Seq(X) /\ Len(s[1]) \in Nat
                BY <2>1, <2>2, <2>4, <3>1, <3>2
            <4>2. QED BY <4>1
        <3>3. CASE n # 0
            <4>1. n \in 1..N /\ n + 1 \in 2..N /\ (n + 1) - 1 = n /\ n + 1 # 1
                BY <2>2, <3>1, <3>3
            <4>2. Within(n) /\ Covered(n)
                BY <2>6, <4>1
            <4> DEFINE F == f[n]
                       B == s[n + 1]
            <4>3. F \in Seq(X) /\ B \in Seq(X) /\ f[n + 1] = F \o B /\ at[n + 1] = Len(F)
                BY <2>1, <2>2, <2>4, <3>1, <4>1
            <4>4. Len(F) \in Nat /\ Len(B) \in Nat
                BY <4>3
            <4>5. /\ Len(F \o B) = Len(F) + Len(B)
                  /\ \A i \in 1..Len(F) : (F \o B)[i] = F[i]
                  /\ \A i \in 1..Len(B) : (F \o B)[Len(F) + i] = B[i]
                <5> HIDE DEF F, B
                <5> QED BY <4>3, Concatenated
            <4>6. ASSUME NEW k \in 1..(n + 1)
                  PROVE  /\ at[k] + Len(s[k]) <= Len(f[n + 1])
                         /\ \A i \in 1..Len(s[k]) : f[n + 1][at[k] + i] = s[k][i]
                <5>1. CASE k = n + 1
                    <6>1. /\ s[k] = B /\ at[k] = Len(F) /\ f[n + 1] = F \o B
                          /\ Len(F \o B) = Len(F) + Len(B)
                        BY <4>3, <4>5, <5>1
                    <6> HIDE DEF F, B
                    <6>2. at[k] + Len(s[k]) <= Len(f[n + 1])
                        BY <4>4, <6>1
                    <6>3. \A i \in 1..Len(B) : (F \o B)[Len(F) + i] = B[i]
                        BY <4>5
                    <6>4. QED BY <6>1, <6>2, <6>3
                <5>2. CASE k # n + 1
                    <6>1. k \in 1..n /\ k \in 1..N
                        BY <2>2, <3>1, <4>1, <5>2
                    <6>2. at[k] \in Nat /\ s[k] \in Seq(X) /\ Len(s[k]) \in Nat
                        BY <2>2, <2>3, <6>1
                    <6>3. /\ at[k] + Len(s[k]) <= Len(F)
                          /\ \A i \in 1..Len(s[k]) : F[at[k] + i] = s[k][i]
                        BY <4>2, <6>1
                    <6> HIDE DEF F, B
                    <6>4. \A i \in 1..Len(s[k]) : at[k] + i \in 1..Len(F)
                        BY <4>4, <6>2, <6>3
                    <6>5. at[k] + Len(s[k]) <= Len(F) + Len(B)
                        BY <4>4, <6>2, <6>3
                    <6>6. QED BY <4>3, <4>5, <6>3, <6>4, <6>5
                <5>3. QED BY <5>1, <5>2
            <4>7. ASSUME NEW m \in 1..Len(f[n + 1])
                  PROVE  \E k \in 1..(n + 1) : m - at[k] \in 1..Len(s[k])
                <5>1. m \in 1..(Len(F) + Len(B))
                    BY <4>3, <4>5
                <5>2. CASE m <= Len(F)
                    <6>1. m \in 1..Len(f[n])
                        BY <4>4, <5>1, <5>2
                    <6>2. PICK k \in 1..n : m - at[k] \in 1..Len(s[k])
                        BY <4>2, <6>1
                    <6>3. k \in 1..(n + 1)
                        OBVIOUS
                    <6>4. QED BY <6>2, <6>3
                <5>3. CASE m > Len(F)
                    <6> HIDE DEF F, B
                    <6>1. m - Len(F) \in 1..Len(B)
                        BY <4>4, <5>1, <5>3
                    <6>2. m - at[n + 1] \in 1..Len(s[n + 1])
                        BY <4>3, <6>1 DEF B
                    <6>3. n + 1 \in 1..(n + 1)
                        OBVIOUS
                    <6>4. QED BY <6>2, <6>3
                <5>4. QED
                    <6> HIDE DEF F, B
                    <6> QED BY <4>4, <5>1, <5>2, <5>3
            <4>8. QED BY <4>6, <4>7
        <3>4. QED BY <3>2, <3>3
    <2>7. \A n \in Nat : n \in T
        <3> HIDE DEF T
        <3> QED BY <2>5, <2>6, SetInduction
    <2>8. N \in Nat /\ N \in 1..N
        BY <2>2
    <2>9. Within(N) /\ Covered(N)
        BY <2>7, <2>8
    <2>10. Flat(s, at)
        BY <2>1, <2>3, <2>9 DEF Flat, N
    <2>11. QED BY <2>1, <2>2, <2>8, <2>10
<1>3. QED BY <1>1, <1>2

(* A sequence of sequences of one element each.                             *)
LEMMA FlattenedOnes ==
    ASSUME NEW X, NEW s \in Seq(Seq(X)), \A k \in 1..Len(s) : Len(s[k]) = 1
    PROVE  Len(FlattenSeq(s)) = Len(s) /\ \A k \in 1..Len(s) : FlattenSeq(s)[k] = s[k][1]
<1>1. CASE Len(s) = 0
    BY <1>1 DEF FlattenSeq
<1>2. CASE Len(s) # 0
    <2> DEFINE N == Len(s)
    <2>1. PICK f \in [1..N -> Seq(X)] :
             /\ FlattenSeq(s) = f[N]
             /\ f[1] = s[1]
             /\ \A i \in 2..N : f[i] = f[i-1] \o s[i]
        BY <1>2, FlattenSteps
    <2>2. /\ N \in Nat \ {0}
          /\ \A k \in 1..N : s[k] \in Seq(X) /\ f[k] \in Seq(X) /\ Len(s[k]) = 1
        <3>1. N \in Nat \ {0} /\ \A k \in 1..N : s[k] \in Seq(X) /\ Len(s[k]) = 1
            BY <1>2
        <3> HIDE DEF N
        <3>2. QED BY <3>1
    <2> HIDE DEF N
    <2> DEFINE T == {n \in Nat : n \in 1..N => Len(f[n]) = n /\ \A k \in 1..n : f[n][k] = s[k][1]}
    <2>3. 0 \in T
        OBVIOUS
    <2>4. ASSUME NEW n \in Nat, n \in T PROVE n + 1 \in T
        <3>1. SUFFICES ASSUME n + 1 \in 1..N
                       PROVE  Len(f[n+1]) = n + 1 /\ \A k \in 1..(n + 1) : f[n+1][k] = s[k][1]
            OBVIOUS
        <3>2. CASE n = 0
            <4>1. f[1] = s[1] /\ n + 1 = 1 /\ Len(s[1]) = 1
                BY <2>1, <2>2, <3>1, <3>2
            <4>2. \A k \in 1..1 : k = 1
                OBVIOUS
            <4> HIDE DEF T
            <4>3. QED BY <4>1, <4>2
        <3>3. CASE n # 0
            <4>1. n \in 1..N /\ n + 1 \in 2..N /\ (n + 1) - 1 = n
                BY <2>2, <3>1, <3>3
            <4>2. Len(f[n]) = n /\ \A k \in 1..n : f[n][k] = s[k][1]
                BY <2>4, <4>1
            <4>3. f[n+1] = f[n] \o s[n+1] /\ f[n] \in Seq(X) /\ s[n+1] \in Seq(X) /\ Len(s[n+1]) = 1
                BY <2>1, <2>2, <3>1, <4>1
            <4>4. /\ Len(f[n+1]) = n + 1
                  /\ \A k \in 1..n : f[n+1][k] = f[n][k]
                  /\ f[n+1][n+1] = s[n+1][1]
                <5> DEFINE F == f[n]
                           B == s[n + 1]
                <5>1. F \in Seq(X) /\ B \in Seq(X) /\ Len(F) = n /\ Len(B) = 1 /\ 1 \in 1..1
                    BY <4>2, <4>3
                <5> HIDE DEF F, B
                <5>2. F \in Seq(X) /\ B \in Seq(X)
                    BY <5>1
                <5>3. /\ Len(F \o B) = Len(F) + Len(B)
                      /\ \A i \in 1..Len(F) : (F \o B)[i] = F[i]
                      /\ \A i \in 1..Len(B) : (F \o B)[Len(F) + i] = B[i]
                    BY ONLY <5>2, Concatenated
                <5>4. /\ Len(F \o B) = n + 1 /\ \A k \in 1..n : (F \o B)[k] = F[k]
                      /\ (F \o B)[n + 1] = B[1]
                    BY <5>1, <5>3
                <5>5. QED BY <4>3, <5>4 DEF F, B
            <4>5. ASSUME NEW k \in 1..(n + 1) PROVE f[n+1][k] = s[k][1]
                <5>1. k = n + 1 \/ k \in 1..n
                    OBVIOUS
                <5>2. QED BY <4>2, <4>4, <5>1
            <4>6. QED BY <4>4, <4>5
        <3>4. QED BY <3>2, <3>3
    <2>5. \A n \in Nat : n \in T
        <3> HIDE DEF T
        <3> QED BY <2>3, <2>4, SetInduction
    <2>6. N \in Nat /\ N \in 1..N
        BY <2>2
    <2>7. Len(f[N]) = N /\ \A k \in 1..N : f[N][k] = s[k][1]
        BY <2>5, <2>6
    <2>8. QED BY <2>1, <2>7 DEF N
<1>3. QED BY <1>1, <1>2

----------------------------------------------------------------------------
(* What the queries answer of a catalog the server can have.                *)

LEMMA CapacitiesRead ==
    ASSUME NEW ty \in Types, ty.base \notin Uncounted
    PROVE  CharacterLength(ty.base, SysType(ty).max_length) = Capacity(ty)
<1>0. ty.base \notin {"text", "ntext", "image", "sysname"}
    BY DEF Uncounted, Pointers
<1>1. CASE ty \in [base : Exact, arg : [1..2 -> Nat]]
    <2>1. /\ ty.base \in Exact /\ ty.base # "xml"
          /\ ty.base \notin ByteSized /\ ty.base \notin WideSized
        BY <1>1 DEF Exact, ByteSized, WideSized
    <2>2. SysType(ty).max_length = 8
        BY <1>0, <2>1 DEF SysType, Pointers
    <2>3. QED BY <1>0, <2>1, <2>2 DEF CharacterLength, Capacity
<1>2. CASE ty \in [base : OneArg, arg : [1..1 -> Nat]]
    <2>1. ty.arg = <<ty.arg[1]>> /\ ty.arg[1] \in Nat /\ ty.base \in OneArg
        BY <1>2
    <2>2. CASE ty.base \in ByteSized
        <3>1. /\ ty.base \notin WideSized
              /\ ty.base \notin Pointers
              /\ ty.base \notin {"xml", "sysname", "text", "ntext", "image"}
            BY <2>2 DEF ByteSized, WideSized, Pointers
        <3>2. CASE ty.arg = <<Whole>>
            <4>1. SysType(ty).max_length = -1
                BY <2>2, <3>1, <3>2 DEF SysType
            <4>2. QED BY <3>1, <3>2, <4>1 DEF CharacterLength, Capacity
        <3>3. CASE ty.arg # <<Whole>>
            <4>1. SysType(ty).max_length = ty.arg[1]
                BY <2>2, <3>1, <3>3 DEF SysType
            <4>2. Capacity(ty) = ty.arg[1]
                BY <2>2, <3>1, <3>3 DEF Capacity
            <4>3. ASSUME NEW size \in Nat PROVE CharacterLength(ty.base, size) = size
                BY <2>2, <3>1 DEF CharacterLength
            <4>4. CharacterLength(ty.base, ty.arg[1]) = ty.arg[1]
                BY <2>1, <4>3
            <4>5. QED BY <4>1, <4>2, <4>4
        <3>4. QED BY <3>2, <3>3
    <2>3. CASE ty.base \in WideSized
        <3>1. /\ ty.base \notin ByteSized
              /\ ty.base \notin Pointers
              /\ ty.base \notin {"xml", "sysname", "text", "ntext", "image"}
            BY <2>3 DEF ByteSized, WideSized, Pointers
        <3>2. CASE ty.arg = <<Whole>>
            <4>1. SysType(ty).max_length = -1
                BY <2>3, <3>1, <3>2 DEF SysType
            <4>2. QED BY <3>1, <3>2, <4>1 DEF CharacterLength, Capacity
        <3>3. CASE ty.arg # <<Whole>>
            <4>1. SysType(ty).max_length = 2 * ty.arg[1]
                BY <2>3, <3>1, <3>3 DEF SysType
            <4>2. 2 * ty.arg[1] >= 0 /\ (2 * ty.arg[1]) \div 2 = ty.arg[1]
                BY <2>1
            <4>3. Capacity(ty) = ty.arg[1]
                BY <2>3, <3>1, <3>3 DEF Capacity
            <4>4. ASSUME NEW size \in Nat PROVE CharacterLength(ty.base, size) = size \div 2
                BY <2>3, <3>1 DEF CharacterLength
            <4>5. 2 * ty.arg[1] \in Nat
                BY <2>1
            <4>6. CharacterLength(ty.base, 2 * ty.arg[1]) = (2 * ty.arg[1]) \div 2
                BY <4>4, <4>5
            <4>7. QED BY <4>1, <4>2, <4>3, <4>6
        <3>4. QED BY <3>2, <3>3
    <2>4. CASE ty.base \notin ByteSized /\ ty.base \notin WideSized
        <3>1. ty.base # "xml"
            BY <2>1, <2>4 DEF OneArg, Scaled
        <3>2. SysType(ty).max_length = 8
            BY <1>0, <2>4, <3>1 DEF SysType, Pointers
        <3>3. QED BY <1>0, <2>4, <3>1, <3>2 DEF CharacterLength, Capacity
    <2>5. QED BY <2>2, <2>3, <2>4
<1>3. CASE ty \in [base : STRING \ (Exact \cup OneArg), arg : {<<>>}]
    <2>1. ty.base \notin ByteSized /\ ty.base \notin WideSized
        BY <1>3 DEF OneArg
    <2>2. CASE ty.base = "xml"
        <3>1. SysType(ty).max_length = -1
            BY <2>1, <2>2 DEF SysType, Pointers
        <3>2. QED BY <2>1, <2>2, <3>1 DEF CharacterLength, Capacity
    <2>3. CASE ty.base # "xml"
        <3>1. SysType(ty).max_length = 8
            BY <1>0, <2>1, <2>3 DEF SysType, Pointers
        <3>2. QED BY <1>0, <2>1, <2>3, <3>1 DEF CharacterLength, Capacity
    <2>4. QED BY <2>2, <2>3
<1>4. QED BY <1>1, <1>2, <1>3 DEF Types

(* A column is reported as it is, but for a length that does not count.     *)
LEMMA ColumnRead ==
    ASSUME NEW col \in Columns
    PROVE  /\ TableColumn(col).data_type = col.type /\ TrueColumn(col).data_type = col.type
           /\ col.type.base \notin Uncounted => TableColumn(col) = TrueColumn(col)
           /\ [TableColumn(col) EXCEPT !.character_maximum_length = None]
                 = [TrueColumn(col) EXCEPT !.character_maximum_length = None]
<1>1. col.type \in Types
    BY DEF Columns
<1>2. DataType(SysType(col.type)) = col.type
    BY <1>1, TypesReadBack
<1>3. ASSUME col.type.base \notin Uncounted PROVE TableColumn(col) = TrueColumn(col)
    <2>1. CharacterLength(col.type.base, SysType(col.type).max_length) = Capacity(col.type)
        BY <1>1, <1>3, CapacitiesRead
    <2>2. QED BY <1>2, <2>1 DEF TableColumn, TrueColumn
<1>4. [TableColumn(col) EXCEPT !.character_maximum_length = None]
         = [TrueColumn(col) EXCEPT !.character_maximum_length = None]
    BY <1>2 DEF TableColumn, TrueColumn
<1>5. TableColumn(col).data_type = col.type /\ TrueColumn(col).data_type = col.type
    BY <1>2 DEF TableColumn, TrueColumn
<1>6. QED BY <1>3, <1>4, <1>5

LEMMA ColumnsRead ==
    ASSUME NEW c, SoundCatalog(c)
    PROVE  /\ DOMAIN ColumnsOf(c) = Present(c)
           /\ \A t \in Present(c) : Counted(ColumnsOf(c)[t]) = Counted(TrueColumns(c, t))
<1>1. DOMAIN ColumnsOf(c) = Present(c)
    BY DEF ColumnsOf
<1>2. ASSUME NEW t \in Present(c) PROVE Counted(ColumnsOf(c)[t]) = Counted(TrueColumns(c, t))
    <2>1. c[t] # None /\ c[t].columns \in Seq(Columns)
        BY DEF Present, SoundCatalog, Sound, TableRecords
    <2> DEFINE columns == ColumnsOf(c)[t]
               true    == TrueColumns(c, t)
    <2>2. columns = [i \in DOMAIN c[t].columns |-> TableColumn(c[t].columns[i])]
        BY DEF ColumnsOf
    <2>3. true = [i \in DOMAIN c[t].columns |-> TrueColumn(c[t].columns[i])]
        BY <2>1 DEF TrueColumns
    <2> HIDE DEF columns, true
    <2>4. DOMAIN columns = DOMAIN c[t].columns /\ DOMAIN true = DOMAIN c[t].columns
        BY <2>2, <2>3
    <2>5. ASSUME NEW i \in DOMAIN c[t].columns
          PROVE  (IF columns[i].data_type.base \in Uncounted
                  THEN [columns[i] EXCEPT !.character_maximum_length = None] ELSE columns[i])
                 = (IF true[i].data_type.base \in Uncounted
                    THEN [true[i] EXCEPT !.character_maximum_length = None] ELSE true[i])
        <3> DEFINE col == c[t].columns[i]
        <3>1. col \in Columns
            BY <2>1
        <3>2. columns[i] = TableColumn(col) /\ true[i] = TrueColumn(col)
            BY <2>2, <2>3
        <3> HIDE DEF col
        <3>3. /\ TableColumn(col).data_type = col.type /\ TrueColumn(col).data_type = col.type
              /\ col.type.base \notin Uncounted => TableColumn(col) = TrueColumn(col)
              /\ [TableColumn(col) EXCEPT !.character_maximum_length = None]
                    = [TrueColumn(col) EXCEPT !.character_maximum_length = None]
            BY <3>1, ColumnRead
        <3>4. QED BY <3>2, <3>3
    <2>6. Counted(columns) = Counted(true)
        BY <2>4, <2>5 DEF Counted
    <2>7. QED BY <2>6 DEF columns, true
<1>3. QED BY <1>1, <1>2

LEMMA TablesRead ==
    ASSUME NEW c, SoundCatalog(c)
    PROVE  /\ TablesOf(c) \in Seq(Present(c))
           /\ Len(TablesOf(c)) = Cardinality(Present(c))
           /\ {TablesOf(c)[n] : n \in DOMAIN TablesOf(c)} = Present(c)
<1> DEFINE N == Cardinality(Present(c))
<1>1. Present(c) \in SUBSET Nat /\ IsFiniteSet(Present(c))
    BY CatalogAssumption DEF SoundCatalog, Present
<1>2. /\ N \in Nat
      /\ TablesOf(c) \in [1..N -> Present(c)]
      /\ \A x \in Present(c) : \E i \in 1..N : TablesOf(c)[i] = x
    BY <1>1, OrderedNames DEF TablesOf
<1> HIDE DEF N
<1>3. TablesOf(c) \in Seq(Present(c)) /\ Len(TablesOf(c)) = N /\ DOMAIN TablesOf(c) = 1..N
    BY <1>2
<1>4. {TablesOf(c)[n] : n \in DOMAIN TablesOf(c)} = Present(c)
    BY <1>2, <1>3
<1>5. QED BY <1>3, <1>4 DEF N

(* The pairs of foreign keys as they are answered.                          *)
Pairs == [name : Nat, column_name : Seq(STRING), ref_table : Tables, ref_column : Seq(STRING),
          on_update : Actions, on_delete : Actions]

(* The columns of a constraint come back one by one when no name has a      *)
(* comma, and there is at least one in any case.                            *)
LEMMA NamesSplit ==
    ASSUME NEW names \in Seq(Names), names # <<>>
    PROVE  /\ SplitColumns(Joined(names)) \in Seq(Seq(STRING))
           /\ 1 \in DOMAIN SplitColumns(Joined(names))
           /\ (\A i \in DOMAIN names : Len(names[i]) = 1) => SplitColumns(Joined(names)) = names
<1> DEFINE text == Joined(names)
<1>1. names \in Seq(Seq(STRING)) /\ Len(names) \in Nat /\ Len(names) # 0
      /\ DOMAIN names = 1..Len(names) /\ 1 \in 1..Len(names)
    BY DEF Names
<1>2. text \in Seq(STRING) /\ \E at : Flat(names, at)
    BY <1>1, Flattened DEF Joined
<1>3. names[1] \in Seq(STRING) /\ Len(names[1]) \in Nat /\ Len(names[1]) # 0
    <2>1. names[1] \in Seq(STRING) /\ names[1] # <<>>
        BY <1>1 DEF Names
    <2>2. QED BY <2>1
<1>4. Len(text) \in Nat /\ Len(text) >= 1 /\ DOMAIN text = 1..Len(text)
    <2>1. PICK at : Flat(names, at)
        BY <1>2
    <2>2. at[1] \in Nat /\ at[1] + Len(names[1]) <= Len(text)
        BY <1>1, <2>1 DEF Flat, Joined
    <2>3. Len(text) \in Nat /\ DOMAIN text = 1..Len(text)
        BY <1>2
    <2> HIDE DEF text
    <2>4. QED BY <1>3, <2>2, <2>3
<1>5. ASSUME NEW i \in 1..Len(text) PROVE <<text[i]>> \in Seq(STRING)
    BY <1>2
<1>6. ASSUME \A i \in DOMAIN names : Len(names[i]) = 1
      PROVE  SplitColumns(text) = names
    <2>1. Len(text) = Len(names) /\ \A k \in 1..Len(names) : text[k] = names[k][1]
        BY <1>1, <1>6, FlattenedOnes DEF Joined
    <2>2. ASSUME NEW k \in 1..Len(names) PROVE <<names[k][1]>> = names[k]
        <3>1. names[k] \in Seq(STRING) /\ Len(names[k]) = 1
            <4>1. names \in Seq(Seq(STRING)) /\ k \in DOMAIN names
                BY <1>1
            <4>2. names[k] \in Seq(STRING)
                BY <4>1
            <4>3. QED BY <1>6, <4>1, <4>2
        <3>2. QED BY <3>1
    <2>3. names = [k \in 1..Len(names) |-> names[k]]
        BY <1>1
    <2> HIDE DEF text
    <2>4. SplitColumns(text) = [k \in 1..Len(names) |-> names[k]]
        BY <1>4, <2>1, <2>2 DEF SplitColumns
    <2>5. QED BY <2>3, <2>4
<1> HIDE DEF text
<1>7. SplitColumns(text) \in Seq(Seq(STRING)) /\ 1 \in DOMAIN SplitColumns(text)
    BY <1>4, <1>5 DEF SplitColumns
<1>8. QED BY <1>6, <1>7 DEF text

LEMMA NamesTaken ==
    ASSUME NEW table, Sound(table), NEW positions \in Seq(Nat) \ {<<>>},
           ToSet(positions) \subseteq DOMAIN table.columns
    PROVE  /\ NamesAt(table, positions) \in Seq(Names) \ {<<>>}
           /\ DOMAIN NamesAt(table, positions) = DOMAIN positions
           /\ \A i \in DOMAIN positions :
                 NamesAt(table, positions)[i] = table.columns[positions[i]].name
<1>1. table.columns \in Seq(Columns)
    BY DEF Sound, TableRecords
<1>2. ASSUME NEW i \in DOMAIN positions PROVE table.columns[positions[i]].name \in Names
    <2>1. positions[i] \in DOMAIN table.columns
        BY DEF ToSet
    <2> DEFINE col == table.columns[positions[i]]
    <2>2. col \in Columns
        BY <1>1, <2>1
    <2> HIDE DEF col
    <2>3. col.name \in Names
        BY <2>2 DEF Columns
    <2>4. QED BY <2>3 DEF col
<1> DEFINE n == Len(positions)
<1>3. n \in Nat /\ n # 0 /\ DOMAIN positions = 1..n
    OBVIOUS
<1> HIDE DEF n
<1>4. NamesAt(table, positions) \in [1..n -> Names]
    BY <1>2, <1>3 DEF NamesAt
<1>5. NamesAt(table, positions) \in Seq(Names) /\ NamesAt(table, positions) # <<>>
    BY <1>3, <1>4
<1>6. QED BY <1>5 DEF NamesAt

(* A function on 1..n is a sequence of n elements.                          *)
LEMMA ASequence ==
    ASSUME NEW X, NEW n \in Nat, NEW f \in [1..n -> X]
    PROVE  f \in Seq(X) /\ Len(f) = n
<1>1. f \in Seq(X)
    OBVIOUS
<1>2. DOMAIN f = 1..n
    OBVIOUS
<1>3. Len(f) = n
    BY <1>1, <1>2
<1>4. QED BY <1>1, <1>3

(* The pairs of one constraint.                                             *)
LEMMA KeyRead ==
    ASSUME NEW c, SoundCatalog(c), NEW t \in Present(c), NEW key \in c[t].keys
    PROVE  LET pairs == BuildForeignKeys(KeyRow(c, t, key))
           IN  /\ pairs \in Seq(Pairs)
               /\ 1 \in 1..Len(pairs)
               /\ \A i \in 1..Len(pairs) : pairs[i].name = key.name
               /\ Tidy(c, t, key) => pairs = TruePairs(c, t, key)
<1>1. /\ t \in Tables /\ c[t] # None /\ Sound(c[t])
      /\ key \in Keys /\ Len(key.columns) = Len(key.refs)
    BY DEF Present, SoundCatalog, Sound, TableRecords
<1>2. /\ key.ref \in Tables /\ key.name \in Nat /\ key.update \in Actions /\ key.delete \in Actions
      /\ key.columns \in Seq(Nat) \ {<<>>} /\ key.refs \in Seq(Nat)
    BY <1>1 DEF Keys
<1>3. key.refs # <<>>
    BY <1>1, <1>2
<1>4. /\ Sound(c[key.ref])
      /\ ToSet(key.refs) \subseteq DOMAIN c[key.ref].columns
      /\ ToSet(key.columns) \subseteq DOMAIN c[t].columns
    <2>1. c[key.ref] # None /\ key.ref \in Present(c)
        BY <1>2 DEF SoundCatalog, WellFormed, Present
    <2>2. QED BY <2>1 DEF SoundCatalog, WellFormed
<1> DEFINE names == NamesAt(c[t], key.columns)
           refnames == NamesAt(c[key.ref], key.refs)
           columns == SplitColumns(Joined(names))
           refs == SplitColumns(Joined(refnames))
           pairs == BuildForeignKeys(KeyRow(c, t, key))
           both == DOMAIN columns \cap DOMAIN refs
<1>5. /\ names \in Seq(Names) \ {<<>>} /\ DOMAIN names = DOMAIN key.columns
      /\ \A i \in DOMAIN key.columns : names[i] = c[t].columns[key.columns[i]].name
    BY <1>1, <1>2, <1>4, NamesTaken
<1>6. /\ refnames \in Seq(Names) \ {<<>>} /\ DOMAIN refnames = DOMAIN key.refs
      /\ \A i \in DOMAIN key.refs : refnames[i] = c[key.ref].columns[key.refs[i]].name
    BY <1>2, <1>3, <1>4, NamesTaken
<1>7. /\ columns \in Seq(Seq(STRING)) /\ 1 \in DOMAIN columns
      /\ (\A i \in DOMAIN names : Len(names[i]) = 1) => columns = names
    <2> HIDE DEF names
    <2> QED BY <1>5, NamesSplit
<1>8. /\ refs \in Seq(Seq(STRING)) /\ 1 \in DOMAIN refs
      /\ (\A i \in DOMAIN refnames : Len(refnames[i]) = 1) => refs = refnames
    <2> HIDE DEF refnames
    <2> QED BY <1>6, NamesSplit
<1>9. pairs = [i \in both |->
                 [name |-> key.name, column_name |-> columns[i], ref_table |-> key.ref,
                  ref_column |-> refs[i], on_update |-> key.update, on_delete |-> key.delete]]
    BY DEF BuildForeignKeys, KeyRow
<1>10. DOMAIN key.columns = DOMAIN key.refs
    BY <1>1, <1>2
<1> HIDE DEF pairs, columns, refs
<1>11. \E n \in Nat : n # 0 /\ both = 1..n
    <2>1. PICK a \in Nat : DOMAIN columns = 1..a
        BY <1>7
    <2>2. PICK b \in Nat : DOMAIN refs = 1..b
        BY <1>8
    <2>3. a >= 1 /\ b >= 1
        BY <1>7, <1>8, <2>1, <2>2
    <2>4. CASE a <= b
        BY <2>1, <2>2, <2>3, <2>4
    <2>5. CASE b <= a
        BY <2>1, <2>2, <2>3, <2>5
    <2>6. QED BY <2>4, <2>5
<1>12. PICK n \in Nat : n # 0 /\ both = 1..n
    BY <1>11
<1>13. \A i \in 1..n : columns[i] \in Seq(STRING) /\ refs[i] \in Seq(STRING)
    BY <1>7, <1>8, <1>12
<1>14. \A i \in 1..n : pairs[i] \in Pairs /\ pairs[i].name = key.name
    <2>1. TAKE i \in 1..n
    <2> HIDE DEF both
    <2>2. pairs[i] = [name |-> key.name, column_name |-> columns[i], ref_table |-> key.ref,
                      ref_column |-> refs[i], on_update |-> key.update, on_delete |-> key.delete]
        BY <1>9, <1>12
    <2>3. columns[i] \in Seq(STRING) /\ refs[i] \in Seq(STRING)
        BY <1>13
    <2>4. QED BY <1>2, <2>2, <2>3 DEF Pairs
<1>15. pairs \in Seq(Pairs) /\ Len(pairs) = n
    <2>1. DOMAIN pairs = 1..n /\ pairs = [i \in 1..n |-> pairs[i]]
        <3> HIDE DEF both
        <3> QED BY <1>9, <1>12
    <2>2. pairs \in [1..n -> Pairs]
        BY <1>14, <2>1
    <2>3. n \in Nat
        BY <1>12
    <2>4. QED BY ONLY <2>2, <2>3, ASequence
<1>16. ASSUME Tidy(c, t, key) PROVE pairs = TruePairs(c, t, key)
    <2>1. columns = names
        <3>1. \A i \in DOMAIN key.columns : Len(c[t].columns[key.columns[i]].name) = 1
            BY <1>16 DEF Tidy
        <3> HIDE DEF names
        <3>2. \A i \in DOMAIN names : Len(names[i]) = 1
            BY <1>5, <3>1
        <3>3. QED BY <1>7, <3>2
    <2>2. refs = refnames
        <3>1. \A i \in DOMAIN key.refs : Len(c[key.ref].columns[key.refs[i]].name) = 1
            BY <1>10, <1>16 DEF Tidy
        <3> HIDE DEF refnames
        <3>2. \A i \in DOMAIN refnames : Len(refnames[i]) = 1
            BY <1>6, <3>1
        <3>3. QED BY <1>8, <3>2
    <2>3. both = DOMAIN key.columns
        BY <1>5, <1>6, <1>10, <2>1, <2>2
    <2>4. \A i \in DOMAIN key.columns :
             /\ columns[i] = c[t].columns[key.columns[i]].name
             /\ refs[i] = c[key.ref].columns[key.refs[i]].name
        BY <1>5, <1>6, <1>10, <2>1, <2>2
    <2> HIDE DEF both
    <2>5. QED BY <1>9, <2>3, <2>4 DEF TruePairs
<1>17. 1 \in 1..Len(pairs)
    BY <1>12, <1>15
<1>18. QED BY <1>14, <1>15, <1>16, <1>17 DEF pairs

(* The foreign keys of a table in order: each one once.                     *)
LEMMA KeysInOrder ==
    ASSUME NEW K \in SUBSET Keys, IsFiniteSet(K), \A k, l \in K : k.name = l.name => k = l
    PROVE  \E n \in Nat :
              /\ ByName(K) \in [1..n -> K]
              /\ \A k \in K : \E i \in 1..n : ByName(K)[i] = k
              /\ \A i, j \in 1..n : ByName(K)[i].name = ByName(K)[j].name => i = j
<1> DEFINE names == {key.name : key \in K}
           n == Cardinality(names)
           named == [key \in K |-> key.name]
<1>1. names \in SUBSET Nat
    BY DEF Keys
<1>2. IsFiniteSet(names)
    <2>1. named \in Surjection(K, names)
        BY DEF Surjection
    <2> HIDE DEF names, named
    <2>2. QED BY <2>1, FS_Surjection
<1> DEFINE order == Ordered(names)
<1>3. /\ n \in Nat /\ order \in [1..n -> names]
      /\ \A x \in names : \E i \in 1..n : order[i] = x
      /\ \A i, j \in 1..n : order[i] = order[j] => i = j
    <2> HIDE DEF names
    <2> QED BY <1>1, <1>2, OrderedNames
<1>4. ByName(K) = [i \in DOMAIN order |-> CHOOSE key \in K : key.name = order[i]]
    BY DEF ByName
<1>5. \A x \in names : \E key \in K : key.name = x
    OBVIOUS
<1>6. \A key \in K : key.name \in names
    OBVIOUS
<1> HIDE DEF order, names, n
<1>7. \A i \in 1..n : ByName(K)[i] \in K /\ ByName(K)[i].name = order[i]
    <2>1. TAKE i \in 1..n
    <2>2. order[i] \in names /\ i \in DOMAIN order
        BY <1>3
    <2>3. \E key \in K : key.name = order[i]
        BY <1>5, <2>2
    <2>4. ByName(K)[i] = CHOOSE key \in K : key.name = order[i]
        BY <1>4, <2>2
    <2>5. QED BY <2>3, <2>4
<1>8. ByName(K) \in [1..n -> K]
    <2>1. DOMAIN order = 1..n
        BY <1>3
    <2>2. QED BY <1>4, <1>7, <2>1
<1>9. ASSUME NEW k \in K PROVE \E i \in 1..n : ByName(K)[i] = k
    <2>1. PICK i \in 1..n : order[i] = k.name
        BY <1>3, <1>6
    <2>2. ByName(K)[i] = k
        BY <1>7, <2>1
    <2>3. QED BY <2>2
<1>10. \A i, j \in 1..n : ByName(K)[i].name = ByName(K)[j].name => i = j
    BY <1>3, <1>7
<1>11. QED BY <1>3, <1>8, <1>9, <1>10

(* A table's foreign keys are answered as they are.                         *)
LEMMA KeysOfTable ==
    ASSUME NEW c, SoundCatalog(c), NEW t \in Present(c)
    PROVE  ForeignKeys(c, t) \in Seq(Pairs) /\ TrueKeys(ForeignKeys(c, t), c, t)
<1> DEFINE K == c[t].keys
           keys == ByName(K)
           block(k) == BuildForeignKeys(KeyRow(c, t, keys[k]))
           s == [k \in DOMAIN keys |-> block(k)]
           pairs == ForeignKeys(c, t)
<1>1. c[t] # None /\ K \in SUBSET Keys /\ IsFiniteSet(K) /\ \A k, l \in K : k.name = l.name => k = l
    BY DEF Present, SoundCatalog, Sound, TableRecords
<1>2. PICK n \in Nat :
         /\ keys \in [1..n -> K]
         /\ \A k \in K : \E i \in 1..n : keys[i] = k
         /\ \A i, j \in 1..n : keys[i].name = keys[j].name => i = j
    <2> HIDE DEF K
    <2> QED BY <1>1, KeysInOrder
<1>3. pairs = FlattenSeq(s)
    BY DEF ForeignKeys
<1> HIDE DEF keys, pairs
<1>4. ASSUME NEW k \in 1..n
      PROVE  /\ keys[k] \in K
             /\ block(k) \in Seq(Pairs)
             /\ 1 \in 1..Len(block(k))
             /\ \A i \in 1..Len(block(k)) : block(k)[i].name = keys[k].name
             /\ Tidy(c, t, keys[k]) => block(k) = TruePairs(c, t, keys[k])
    <2>1. keys[k] \in K
        BY <1>2
    <2>2. QED BY <2>1, KeyRead
<1>5. /\ s \in Seq(Seq(Pairs)) /\ Len(s) = n
      /\ \A k \in 1..n : s[k] = block(k)
    <2>1. DOMAIN keys = 1..n
        BY <1>2
    <2> HIDE DEF block
    <2>2. s \in [1..n -> Seq(Pairs)] /\ \A k \in 1..n : s[k] = block(k)
        BY <1>4, <2>1
    <2> HIDE DEF s
    <2>3. QED BY <2>2
<1> HIDE DEF s, block, K
<1>6. pairs \in Seq(Pairs) /\ \E at : Flat(s, at)
    BY <1>3, <1>5, Flattened
<1>7. PICK at : Flat(s, at)
    BY <1>6
<1>8. /\ at \in [1..n -> Nat]
      /\ \A k \in 1..n : /\ at[k] + Len(block(k)) <= Len(pairs)
                         /\ \A i \in 1..Len(block(k)) : pairs[at[k] + i] = block(k)[i]
      /\ \A m \in 1..Len(pairs) : \E k \in 1..n : m - at[k] \in 1..Len(block(k))
    BY <1>3, <1>5, <1>7 DEF Flat
<1>9. Len(pairs) \in Nat /\ DOMAIN pairs = 1..Len(pairs)
    BY <1>6
<1>10. \A k \in 1..n : at[k] \in Nat /\ Len(block(k)) \in Nat
    BY <1>4, <1>8
<1>11. ASSUME NEW m \in 1..Len(pairs), NEW k \in 1..n, m - at[k] \in 1..Len(block(k))
       PROVE  pairs[m] = block(k)[m - at[k]] /\ pairs[m].name = keys[k].name
    <2>1. at[k] \in Nat
        BY <1>10
    <2>2. at[k] + (m - at[k]) = m
        BY <1>9, <2>1
    <2> DEFINE i == m - at[k]
    <2>3. i \in 1..Len(block(k)) /\ at[k] + i = m
        BY <1>11, <2>2
    <2> HIDE DEF i
    <2>4. pairs[at[k] + i] = block(k)[i]
        BY <1>8, <2>3
    <2>5. block(k)[i].name = keys[k].name
        BY <1>4, <2>3
    <2>6. QED BY <2>3, <2>4, <2>5 DEF i
<1>12. ASSUME NEW m \in 1..Len(pairs) PROVE \E key \in K : pairs[m].name = key.name
    <2>1. PICK k \in 1..n : m - at[k] \in 1..Len(block(k))
        BY <1>8
    <2>2. pairs[m].name = keys[k].name /\ keys[k] \in K
        BY <1>4, <1>11, <2>1
    <2>3. QED BY <2>2
<1>13. ASSUME NEW key \in K PROVE \E m \in 1..Len(pairs) : pairs[m].name = key.name
    <2>1. PICK k \in 1..n : keys[k] = key
        BY <1>2
    <2> DEFINE m == at[k] + 1
    <2>2. 1 \in 1..Len(block(k)) /\ at[k] + Len(block(k)) <= Len(pairs)
        BY <1>4, <1>8
    <2>3. m \in 1..Len(pairs) /\ m - at[k] = 1
        BY <1>9, <1>10, <2>2
    <2> HIDE DEF m
    <2>4. pairs[m].name = keys[k].name
        BY <1>11, <2>2, <2>3
    <2>5. QED BY <2>1, <2>3, <2>4
<1>14. {pairs[m].name : m \in DOMAIN pairs} = {key.name : key \in K}
    <2>1. ASSUME NEW x \in {pairs[m].name : m \in DOMAIN pairs}
          PROVE  x \in {key.name : key \in K}
        <3>1. PICK m \in 1..Len(pairs) : x = pairs[m].name
            BY <1>9
        <3>2. PICK key \in K : pairs[m].name = key.name
            BY <1>12
        <3>3. QED BY <3>1, <3>2
    <2>2. ASSUME NEW x \in {key.name : key \in K}
          PROVE  x \in {pairs[m].name : m \in DOMAIN pairs}
        <3>1. PICK key \in K : x = key.name
            OBVIOUS
        <3>2. PICK m \in 1..Len(pairs) : pairs[m].name = key.name
            BY <1>13
        <3>3. QED BY <1>9, <3>1, <3>2
    <2>3. QED BY <2>1, <2>2
<1>15. ASSUME NEW key \in K, Tidy(c, t, key)
       PROVE  Together(pairs, key.name, TruePairs(c, t, key))
    <2>1. PICK k \in 1..n : keys[k] = key
        BY <1>2
    <2>2. TruePairs(c, t, key) = block(k)
        BY <1>4, <1>15, <2>1
    <2> DEFINE o == at[k]
               B == block(k)
    <2>3. o \in Nat /\ Len(B) \in Nat /\ o + Len(B) <= Len(pairs)
        BY <1>8, <1>10
    <2>4. ASSUME NEW m \in 1..Len(pairs), m \in (o + 1)..(o + Len(B))
          PROVE  pairs[m] = B[m - o]
        <3>1. m - o \in 1..Len(B)
            BY <2>3, <2>4
        <3>2. QED BY <1>11, <3>1
    <2>5. ASSUME NEW m \in 1..Len(pairs), m \notin (o + 1)..(o + Len(B))
          PROVE  pairs[m].name # key.name
        <3>1. PICK l \in 1..n : m - at[l] \in 1..Len(block(l))
            BY <1>8
        <3>2. m - o \notin 1..Len(B)
            BY <1>9, <2>3, <2>5
        <3>3. l # k
            BY <3>1, <3>2
        <3>4. pairs[m].name = keys[l].name
            BY <1>11, <3>1
        <3>5. QED BY <1>2, <2>1, <3>3, <3>4
    <2>6. o \in 0..Len(pairs)
        BY <1>9, <2>3
    <2> HIDE DEF o, B
    <2>7. Together(pairs, key.name, B)
        BY <1>9, <2>3, <2>4, <2>5, <2>6 DEF Together
    <2>8. QED BY <2>2, <2>7 DEF B
<1>16. TrueKeys(pairs, c, t)
    BY <1>1, <1>14, <1>15 DEF TrueKeys, K
<1>17. QED BY <1>6, <1>16 DEF pairs

(* And so is a table that has none, or is not there.                        *)
LEMMA KeysAnswered ==
    ASSUME NEW c, SoundCatalog(c), NEW t \in Tables
    PROVE  TrueKeys(IF t \in DOMAIN KeysOf(c) THEN KeysOf(c)[t] ELSE <<>>, c, t)
<1>1. CASE t \notin Present(c)
    <2>1. t \notin DOMAIN KeysOf(c) /\ c[t] = None
        BY <1>1 DEF KeysOf, Present
    <2>2. TrueKeys(<<>>, c, t)
        BY <2>1 DEF TrueKeys
    <2>3. QED BY <2>1, <2>2
<1>2. CASE t \in Present(c)
    <2>1. TrueKeys(ForeignKeys(c, t), c, t)
        BY <1>2, KeysOfTable
    <2>2. (IF t \in DOMAIN KeysOf(c) THEN KeysOf(c)[t] ELSE <<>>) = ForeignKeys(c, t)
        BY <1>2 DEF KeysOf
    <2>3. QED BY <2>1, <2>2
<1>3. QED BY <1>1, <1>2

----------------------------------------------------------------------------
(* The server's catalog stays one it can have.                              *)

Statements ==
    [op : {"rename"}, from : Names, to : Names]
    \cup [op : {"retype"}, column : Names, type : Types, nullable : BOOLEAN]
    \cup [op : {"drop_default"}, column : Names]
    \cup [op : {"add_default"}, column : Names, text : DefaultTexts]
    \cup [op : {"create"}, columns : [1..1 -> ColumnDefinitions]]
    \cup [op : {"add_column"}, column : ColumnDefinitions]
    \cup [op : {"add_key"}, name : Nat, column : Names, ref_table : Tables,
          ref_column : Names, on_update : Actions, on_delete : Actions]
    \cup [op : {"drop_key"}, name : Nat]

ServerInv ==
    /\ SoundCatalog(catalog)
    /\ edit.step = "open" => edit.old.name \in Names
    /\ edit.todo \in Seq(Statements)

(* What follows the keys of a table in a catalog.                           *)
Anchored(d, columns, key) ==
    /\ d[key.ref] # None
    /\ ToSet(key.refs) \subseteq DOMAIN d[key.ref].columns
    /\ ToSet(key.columns) \subseteq DOMAIN columns

(* One table takes another form, without losing a column.                   *)
LEMMA TableReplaced ==
    ASSUME NEW c, SoundCatalog(c), NEW t \in Tables, NEW table, Sound(table),
           c[t] # None => DOMAIN c[t].columns \subseteq DOMAIN table.columns,
           \A key \in table.keys : Anchored([c EXCEPT ![t] = table], table.columns, key)
    PROVE  SoundCatalog([c EXCEPT ![t] = table])
<1> DEFINE d == [c EXCEPT ![t] = table]
<1>1. c \in [Tables -> TableRecords \cup {None}] /\ table \in TableRecords /\ table # None
    BY CatalogAssumption DEF SoundCatalog, Sound
<1>2. d[t] = table /\ \A u \in Tables : u # t => d[u] = c[u]
    BY <1>1
<1>3. d \in [Tables -> TableRecords \cup {None}]
    BY <1>1
<1> HIDE DEF d
<1>4. Present(d) = Present(c) \cup {t}
    BY <1>1, <1>2 DEF Present
<1>5. IsFiniteSet(Present(d))
    <2>1. IsFiniteSet(Present(c))
        BY DEF SoundCatalog
    <2>2. QED BY <1>4, <2>1, FS_AddElement
<1>6. \A u \in Present(d) : Sound(d[u])
    BY <1>2, <1>4 DEF SoundCatalog, Present
<1>7. WellFormed(d)
    <2>1. SUFFICES ASSUME NEW u \in Present(d), NEW key \in d[u].keys
                   PROVE  Anchored(d, d[u].columns, key)
        BY DEF WellFormed, Anchored
    <2>2. CASE u = t
        BY <1>2, <2>2 DEF d
    <2>3. CASE u # t
        <3>1. u \in Present(c) /\ d[u] = c[u] /\ Sound(c[u])
            BY <1>2, <1>4, <2>3 DEF Present, SoundCatalog
        <3>2. key.ref \in Tables
            BY <3>1 DEF Sound, TableRecords, Keys
        <3>3. Anchored(c, c[u].columns, key)
            BY <3>1 DEF SoundCatalog, WellFormed, Anchored
        <3>4. CASE key.ref = t
            BY <1>1, <1>2, <3>1, <3>3, <3>4 DEF Anchored
        <3>5. CASE key.ref # t
            BY <1>2, <3>1, <3>2, <3>3, <3>5 DEF Anchored
        <3>6. QED BY <3>4, <3>5
    <2>4. QED BY <2>2, <2>3
<1>8. QED BY <1>3, <1>5, <1>6, <1>7 DEF SoundCatalog, d

LEMMA ColumnsReplaced ==
    ASSUME NEW c, SoundCatalog(c), NEW t \in Tables, c[t] # None, NEW columns \in Seq(Columns),
           \A i, j \in DOMAIN columns : columns[i].name = columns[j].name => i = j,
           DOMAIN c[t].columns \subseteq DOMAIN columns
    PROVE  SoundCatalog([c EXCEPT ![t] = [c[t] EXCEPT !.columns = columns]])
<1> DEFINE table == [c[t] EXCEPT !.columns = columns]
           d == [c EXCEPT ![t] = table]
<1>1. c \in [Tables -> TableRecords \cup {None}] /\ t \in Present(c) /\ Sound(c[t])
    BY DEF SoundCatalog, Present
<1>2. c[t] \in TableRecords
    BY <1>1 DEF Sound
<1>3. table.columns = columns /\ table.keys = c[t].keys /\ table \in TableRecords
    BY <1>2 DEF TableRecords
<1> HIDE DEF table
<1>4. Sound(table)
    BY <1>1, <1>3 DEF Sound
<1>5. d[t] = table /\ \A u \in Tables : u # t => d[u] = c[u]
    BY <1>1
<1>6. table # None
    BY <1>3, CatalogAssumption
<1> HIDE DEF d
<1>7. ASSUME NEW key \in table.keys PROVE Anchored(d, table.columns, key)
    <2>1. key.ref \in Tables
        BY <1>2, <1>3 DEF TableRecords, Keys
    <2>2. Anchored(c, c[t].columns, key)
        BY <1>1, <1>3 DEF SoundCatalog, WellFormed, Anchored
    <2>3. CASE key.ref = t
        BY <1>3, <1>5, <1>6, <2>2, <2>3 DEF Anchored
    <2>4. CASE key.ref # t
        BY <1>3, <1>5, <2>1, <2>2, <2>4 DEF Anchored
    <2>5. QED BY <2>3, <2>4
<1>8. SoundCatalog(d)
    BY <1>3, <1>4, <1>7, TableReplaced DEF d
<1>9. QED BY <1>8 DEF d, table

(* One column takes another form.                                           *)
LEMMA ColumnReplaced ==
    ASSUME NEW c, SoundCatalog(c), NEW t \in Tables, c[t] # None, NEW i \in DOMAIN c[t].columns,
           NEW col \in Columns,
           \A j \in DOMAIN c[t].columns : c[t].columns[j].name = col.name => j = i
    PROVE  SoundCatalog([c EXCEPT ![t] =
              [c[t] EXCEPT !.columns = [c[t].columns EXCEPT ![i] = col]]])
<1> DEFINE old == c[t].columns
           columns == [old EXCEPT ![i] = col]
<1>1. Sound(c[t]) /\ old \in Seq(Columns)
    BY DEF SoundCatalog, Present, Sound, TableRecords
<1>2. columns \in Seq(Columns) /\ DOMAIN columns = DOMAIN old
    BY <1>1
<1>3. columns[i] = col /\ \A j \in DOMAIN old : j # i => columns[j] = old[j]
    BY <1>1
<1> HIDE DEF columns
<1>4. ASSUME NEW j \in DOMAIN columns, NEW k \in DOMAIN columns, columns[j].name = columns[k].name
      PROVE  j = k
    <2>1. \A l, m \in DOMAIN old : old[l].name = old[m].name => l = m
        BY <1>1 DEF Sound
    <2>2. QED BY <1>2, <1>3, <1>4, <2>1
<1>5. SoundCatalog([c EXCEPT ![t] = [c[t] EXCEPT !.columns = columns]])
    BY <1>2, <1>4, ColumnsReplaced
<1>6. QED BY <1>5 DEF columns

LEMMA KeysReplaced ==
    ASSUME NEW c, SoundCatalog(c), NEW t \in Tables, c[t] # None, NEW keys \in SUBSET Keys,
           IsFiniteSet(keys),
           \A k, l \in keys : k.name = l.name => k = l,
           \A key \in keys : Len(key.columns) = Len(key.refs) /\ Anchored(c, c[t].columns, key)
    PROVE  SoundCatalog([c EXCEPT ![t] = [c[t] EXCEPT !.keys = keys]])
<1> DEFINE table == [c[t] EXCEPT !.keys = keys]
           d == [c EXCEPT ![t] = table]
<1>1. c \in [Tables -> TableRecords \cup {None}] /\ t \in Present(c) /\ Sound(c[t])
    BY DEF SoundCatalog, Present
<1>2. c[t] \in TableRecords
    BY <1>1 DEF Sound
<1>3. table.columns = c[t].columns /\ table.keys = keys /\ table \in TableRecords
    BY <1>2 DEF TableRecords
<1> HIDE DEF table
<1>4. Sound(table)
    BY <1>1, <1>3 DEF Sound
<1>5. d[t] = table /\ \A u \in Tables : u # t => d[u] = c[u]
    BY <1>1
<1>6. table # None
    BY <1>3, CatalogAssumption
<1> HIDE DEF d
<1>7. ASSUME NEW key \in table.keys PROVE Anchored(d, table.columns, key)
    <2>1. key.ref \in Tables
        BY <1>3 DEF Keys
    <2>2. Anchored(c, c[t].columns, key)
        BY <1>3
    <2>3. CASE key.ref = t
        BY <1>3, <1>5, <1>6, <2>2, <2>3 DEF Anchored
    <2>4. CASE key.ref # t
        BY <1>3, <1>5, <2>1, <2>2, <2>4 DEF Anchored
    <2>5. QED BY <2>3, <2>4
<1>8. SoundCatalog(d)
    BY <1>3, <1>4, <1>7, TableReplaced DEF d
<1>9. QED BY <1>8 DEF d, table

LEMMA OneElement ==
    ASSUME NEW S, NEW j \in S, \A i \in S : i = j
    PROVE  SetToSeq(S) = <<j>>
<1>1. S = {j} /\ Cardinality({j}) = 1
    BY FS_Singleton
<1>2. <<j>> \in [1..1 -> {j}] /\ IsInjective(<<j>>)
    BY DEF IsInjective
<1>3. \A f \in [1..1 -> {j}] : f = <<j>>
    <2>1. TAKE f \in [1..1 -> {j}]
    <2>2. DOMAIN f = 1..1 /\ f[1] = j
        OBVIOUS
    <2>3. f = [i \in 1..1 |-> f[i]]
        OBVIOUS
    <2>4. QED BY <2>2, <2>3
<1>4. SetToSeq(S) = CHOOSE f \in [1..1 -> {j}] : IsInjective(f)
    BY <1>1 DEF SetToSeq
<1>5. QED BY <1>2, <1>3, <1>4

LEMMA ColumnOf ==
    ASSUME NEW c, SoundCatalog(c), NEW t \in Tables, c[t] # None
    PROVE  /\ c \in [Tables -> TableRecords \cup {None}]
           /\ Sound(c[t]) /\ c[t].columns \in Seq(Columns)
           /\ \A i \in DOMAIN c[t].columns : c[t].columns[i] \in Columns
           /\ \A i, j \in DOMAIN c[t].columns :
                 c[t].columns[i].name = c[t].columns[j].name => i = j
<1>1. c \in [Tables -> TableRecords \cup {None}] /\ Sound(c[t])
    BY DEF SoundCatalog, Present
<1>2. c[t].columns \in Seq(Columns)
    BY <1>1 DEF Sound, TableRecords
<1>3. \A i \in DOMAIN c[t].columns : c[t].columns[i] \in Columns
    BY <1>2
<1>4. QED BY <1>1, <1>2, <1>3 DEF Sound

LEMMA RenameKeepsSound ==
    ASSUME NEW c, SoundCatalog(c), NEW t \in Tables, c[t] # None, NEW s, s.to \in Names,
           NEW d \in RenameResults(c, t, s)
    PROVE  SoundCatalog(d)
<1>1. PICK i \in Named(c[t], s.from) :
         Named(c[t], s.to) = {} /\ d = [c EXCEPT ![t].columns[i].name = s.to]
    BY DEF RenameResults
<1> DEFINE was == c[t].columns[i]
           col == [was EXCEPT !.name = s.to]
<1>2. i \in DOMAIN c[t].columns /\ was \in Columns
    BY <1>1, ColumnOf DEF Named
<1>3. d = [c EXCEPT ![t] = [c[t] EXCEPT !.columns = [c[t].columns EXCEPT ![i] = col]]]
    BY <1>1
<1> HIDE DEF was
<1>4. col \in Columns /\ col.name = s.to
    BY <1>2 DEF Columns
<1> HIDE DEF col
<1>5. \A j \in DOMAIN c[t].columns : c[t].columns[j].name # s.to
    BY <1>1 DEF Named
<1>6. QED BY <1>2, <1>3, <1>4, <1>5, ColumnReplaced

(* A column changes, but for its name.                                      *)
LEMMA ColumnChanged ==
    ASSUME NEW c, SoundCatalog(c), NEW t \in Tables, c[t] # None, NEW i \in DOMAIN c[t].columns,
           NEW col \in Columns, col.name = c[t].columns[i].name
    PROVE  SoundCatalog([c EXCEPT ![t] =
              [c[t] EXCEPT !.columns = [c[t].columns EXCEPT ![i] = col]]])
<1>1. \A j \in DOMAIN c[t].columns : c[t].columns[j].name = col.name => j = i
    BY ColumnOf
<1>2. QED BY <1>1, ColumnReplaced

LEMMA RetypeKeepsSound ==
    ASSUME NEW c, SoundCatalog(c), NEW t \in Tables, c[t] # None, NEW s, s.type \in Types,
           s.nullable \in BOOLEAN, NEW d \in RetypeResults(c, t, s)
    PROVE  SoundCatalog(d)
<1>1. PICK i \in Named(c[t], s.column) :
         d = [c EXCEPT ![t].columns[i].type = s.type, ![t].columns[i].nullable = s.nullable]
    BY DEF RetypeResults
<1> DEFINE was == c[t].columns[i]
           typed == [was EXCEPT !.type = s.type]
           col == [typed EXCEPT !.nullable = s.nullable]
           first == [c EXCEPT ![t].columns[i].type = s.type]
<1>2. i \in DOMAIN c[t].columns /\ was \in Columns
    BY <1>1, ColumnOf DEF Named
<1>3. first = [c EXCEPT ![t] = [c[t] EXCEPT !.columns = [c[t].columns EXCEPT ![i] = typed]]]
    OBVIOUS
<1>4. d = [first EXCEPT ![t] = [first[t] EXCEPT !.columns =
              [first[t].columns EXCEPT ![i] = [first[t].columns[i] EXCEPT !.nullable = s.nullable]]]]
    BY <1>1
<1> HIDE DEF was, first
<1>5. typed \in Columns /\ typed.name = was.name
    BY <1>2 DEF Columns
<1> HIDE DEF typed
<1>6. col \in Columns /\ col.name = was.name
    BY <1>5 DEF Columns
<1> HIDE DEF col
<1>7. c \in [Tables -> TableRecords \cup {None}] /\ c[t] \in TableRecords
      /\ c[t].columns \in Seq(Columns)
    BY ColumnOf DEF Sound
<1> DEFINE old == c[t].columns
<1>8. PICK columns : columns = [old EXCEPT ![i] = typed]
    OBVIOUS
<1>9. columns[i] = typed /\ [columns EXCEPT ![i] = col] = [old EXCEPT ![i] = col]
    BY <1>2, <1>7, <1>8
<1>10. PICK table : table = [c[t] EXCEPT !.columns = columns]
    OBVIOUS
<1>11. table.columns = columns
       /\ \A x : [table EXCEPT !.columns = x] = [c[t] EXCEPT !.columns = x]
    BY <1>7, <1>10 DEF TableRecords
<1>12. first = [c EXCEPT ![t] = table]
    BY <1>3, <1>8, <1>10
<1>13. first[t] = table /\ \A x : [first EXCEPT ![t] = x] = [c EXCEPT ![t] = x]
    BY <1>7, <1>12
<1>14. [first[t].columns[i] EXCEPT !.nullable = s.nullable] = col
    BY <1>9, <1>11, <1>13 DEF col
<1>15. d = [c EXCEPT ![t] = [c[t] EXCEPT !.columns = [old EXCEPT ![i] = col]]]
    <2>1. d = [first EXCEPT ![t] = [first[t] EXCEPT !.columns = [first[t].columns EXCEPT ![i] = col]]]
        BY <1>4, <1>14
    <2>2. [first[t].columns EXCEPT ![i] = col] = [old EXCEPT ![i] = col]
        BY <1>9, <1>11, <1>13
    <2>3. [first[t] EXCEPT !.columns = [old EXCEPT ![i] = col]]
             = [c[t] EXCEPT !.columns = [old EXCEPT ![i] = col]]
        BY <1>11, <1>13
    <2> HIDE DEF old
    <2>4. QED BY <1>13, <2>1, <2>2, <2>3
<1>16. QED BY <1>2, <1>6, <1>15, ColumnChanged DEF was

LEMMA DropDefaultKeepsSound ==
    ASSUME NEW c, SoundCatalog(c), NEW t \in Tables, c[t] # None, NEW s,
           NEW d \in DropDefaultResults(c, t, s)
    PROVE  SoundCatalog(d)
<1> DEFINE old == c[t].columns
           without(i) == IF old[i].name = s.column THEN [old[i] EXCEPT !.default = None] ELSE old[i]
           columns == [i \in DOMAIN old |-> without(i)]
<1>1. d = [c EXCEPT ![t] = [c[t] EXCEPT !.columns = columns]]
    BY DEF DropDefaultResults
<1>2. \A i \in DOMAIN old : without(i) \in Columns /\ without(i).name = old[i].name
    <2>1. TAKE i \in DOMAIN old
    <2>2. PICK was \in Columns : was = old[i]
        BY ColumnOf
    <2>3. [was EXCEPT !.default = None] \in Columns /\ [was EXCEPT !.default = None].name = was.name
        BY DEF Columns
    <2>4. QED BY <2>2, <2>3
<1>3. PICK n \in Nat : DOMAIN old = 1..n
    BY ColumnOf
<1> HIDE DEF without
<1>4. columns \in [1..n -> Columns] /\ DOMAIN columns = DOMAIN old
      /\ \A i \in DOMAIN old : columns[i].name = old[i].name
    BY <1>2, <1>3
<1> HIDE DEF columns
<1>5. columns \in Seq(Columns)
    BY <1>4
<1>6. \A i, j \in DOMAIN columns : columns[i].name = columns[j].name => i = j
    BY <1>4, ColumnOf
<1>7. QED BY <1>1, <1>4, <1>5, <1>6, ColumnsReplaced

LEMMA StoredTexts == ASSUME NEW text \in DefaultTexts PROVE Stored(text) \in DefaultTexts
BY DEF Stored, DefaultTexts

LEMMA AddDefaultKeepsSound ==
    ASSUME NEW c, SoundCatalog(c), NEW t \in Tables, c[t] # None, NEW s, s.column \in Names,
           s.text \in DefaultTexts, NEW d \in AddDefaultResults(c, t, s)
    PROVE  SoundCatalog(d)
<1> DEFINE new == [by |-> "plugin", table |-> t, column |-> s.column, text |-> Stored(s.text)]
<1>1. PICK i \in Named(c[t], s.column) : d = [c EXCEPT ![t].columns[i].default = new]
    BY DEF AddDefaultResults
<1>2. new \in Defaults
    BY StoredTexts DEF Defaults
<1> HIDE DEF new
<1> DEFINE was == c[t].columns[i]
           col == [was EXCEPT !.default = new]
<1>3. i \in DOMAIN c[t].columns /\ was \in Columns
    BY <1>1, ColumnOf DEF Named
<1>4. d = [c EXCEPT ![t] = [c[t] EXCEPT !.columns = [c[t].columns EXCEPT ![i] = col]]]
    BY <1>1
<1> HIDE DEF was
<1>5. col \in Columns /\ col.name = was.name
    BY <1>2, <1>3 DEF Columns
<1> HIDE DEF col
<1>6. QED BY <1>3, <1>4, <1>5, ColumnChanged DEF was

LEMMA NewColumn ==
    ASSUME NEW t \in Tables, NEW def \in ColumnDefinitions
    PROVE  ColumnFrom(t, def) \in Columns /\ ColumnFrom(t, def).name = def.name
<1>1. /\ def.name \in Names /\ def.data_type \in Types /\ def.is_nullable \in BOOLEAN
      /\ def.is_auto_increment \in BOOLEAN /\ def.is_pk \in BOOLEAN
      /\ def.default_value \in DefaultTexts \cup {None}
    BY DEF ColumnDefinitions
<1>2. DefaultOf("server", t, def) \in Defaults \cup {None}
    <2>1. CASE HasDefault(def)
        <3>1. Stored(def.default_value) \in DefaultTexts
            BY <1>1, <2>1, StoredTexts DEF HasDefault
        <3>2. QED BY <1>1, <2>1, <3>1 DEF DefaultOf, Defaults
    <2>2. CASE ~HasDefault(def)
        BY <2>2 DEF DefaultOf
    <2>3. QED BY <2>1, <2>2
<1>3. QED BY <1>1, <1>2 DEF ColumnFrom, Columns

LEMMA CreateKeepsSound ==
    ASSUME NEW c, SoundCatalog(c), NEW t \in Tables, NEW s,
           s.columns \in [1..1 -> ColumnDefinitions], NEW d \in CreateResults(c, t, s)
    PROVE  SoundCatalog(d)
<1> DEFINE columns == [i \in DOMAIN s.columns |-> ColumnFrom(t, s.columns[i])]
           table == [columns |-> columns, keys |-> {}]
<1>1. c[t] = None /\ d = [c EXCEPT ![t] = table]
    BY DEF CreateResults
<1>2. columns \in [1..1 -> Columns]
    <2>1. DOMAIN s.columns = 1..1 /\ \A i \in 1..1 : s.columns[i] \in ColumnDefinitions
        OBVIOUS
    <2>2. QED BY <2>1, NewColumn
<1> HIDE DEF columns
<1>3. columns \in Seq(Columns) /\ \A i, j \in DOMAIN columns : i = j
    <2>1. columns \in Seq(Columns) /\ DOMAIN columns = 1..1
        <3>1. PICK n \in Nat : n = 1
            OBVIOUS
        <3>2. columns \in [1..n -> Columns]
            BY <1>2, <3>1
        <3>3. columns \in Seq(Columns)
            BY <3>2
        <3>4. QED BY <1>2, <3>3
    <2>2. \A i \in 1..1 : i = 1
        OBVIOUS
    <2>3. QED BY <2>1, <2>2
<1>4. Sound(table)
    BY <1>3, FS_EmptySet DEF Sound, TableRecords
<1>5. table.keys = {}
    OBVIOUS
<1> HIDE DEF table
<1>6. QED BY <1>1, <1>4, <1>5, TableReplaced

LEMMA AddColumnKeepsSound ==
    ASSUME NEW c, SoundCatalog(c), NEW t \in Tables, c[t] # None, NEW s,
           s.column \in ColumnDefinitions, NEW d \in AddColumnResults(c, t, s)
    PROVE  SoundCatalog(d)
<1> DEFINE old == c[t].columns
           col == ColumnFrom(t, s.column)
           columns == Append(old, col)
<1>1. Named(c[t], s.column.name) = {} /\ d = [c EXCEPT ![t].columns = columns]
    BY DEF AddColumnResults
<1>2. col \in Columns /\ col.name = s.column.name
    BY NewColumn
<1>3. old \in Seq(Columns) /\ \A i, j \in DOMAIN old : old[i].name = old[j].name => i = j
    BY ColumnOf
<1>4. \A i \in DOMAIN old : old[i].name # col.name
    BY <1>1, <1>2 DEF Named
<1>5. d = [c EXCEPT ![t] = [c[t] EXCEPT !.columns = columns]]
    BY <1>1
<1> HIDE DEF old, col
<1> DEFINE n == Len(old)
<1>6. /\ n \in Nat /\ DOMAIN old = 1..n /\ columns \in Seq(Columns) /\ DOMAIN columns = 1..(n + 1)
      /\ columns[n + 1] = col /\ \A i \in 1..n : columns[i] = old[i]
    BY <1>2, <1>3
<1> HIDE DEF n, columns
<1>7. \A i \in 1..(n + 1) : i = n + 1 \/ i \in 1..n
    BY <1>6
<1>8. \A i, j \in DOMAIN columns : columns[i].name = columns[j].name => i = j
    <2>1. ASSUME NEW i \in 1..(n + 1), NEW j \in 1..(n + 1), columns[i].name = columns[j].name
          PROVE  i = j
        <3>1. CASE i \in 1..n /\ j \in 1..n
            BY <1>3, <1>6, <2>1, <3>1
        <3>2. CASE i = n + 1 /\ j \in 1..n
            BY <1>4, <1>6, <2>1, <3>2
        <3>3. CASE i \in 1..n /\ j = n + 1
            BY <1>4, <1>6, <2>1, <3>3
        <3>4. QED BY <1>7, <3>1, <3>2, <3>3
    <2>2. QED BY <1>6, <2>1
<1>9. DOMAIN c[t].columns \subseteq DOMAIN columns
    <2>1. DOMAIN old \subseteq DOMAIN columns
        BY <1>6
    <2>2. QED BY <2>1 DEF old
<1>10. QED BY <1>5, <1>6, <1>8, <1>9, ColumnsReplaced

LEMMA KeysOfSound ==
    ASSUME NEW c, SoundCatalog(c), NEW t \in Tables, c[t] # None
    PROVE  /\ c[t].keys \in SUBSET Keys /\ IsFiniteSet(c[t].keys)
           /\ \A k, l \in c[t].keys : k.name = l.name => k = l
           /\ \A key \in c[t].keys :
                 Len(key.columns) = Len(key.refs) /\ Anchored(c, c[t].columns, key)
<1>1. t \in Present(c) /\ Sound(c[t])
    BY DEF SoundCatalog, Present
<1>2. QED BY <1>1 DEF SoundCatalog, WellFormed, Anchored, Sound, TableRecords

LEMMA DropKeyKeepsSound ==
    ASSUME NEW c, SoundCatalog(c), NEW t \in Tables, c[t] # None, NEW s,
           NEW d \in DropKeyResults(c, t, s)
    PROVE  SoundCatalog(d)
<1>1. PICK key : d = [c EXCEPT ![t].keys = @ \ {key}]
    BY DEF DropKeyResults
<1> DEFINE keys == c[t].keys \ {key}
<1>2. d = [c EXCEPT ![t] = [c[t] EXCEPT !.keys = keys]]
    BY <1>1
<1>3. keys \in SUBSET c[t].keys
    OBVIOUS
<1> HIDE DEF keys
<1>4. keys \in SUBSET Keys /\ IsFiniteSet(keys)
    BY <1>3, KeysOfSound, FS_Subset
<1>5. QED BY <1>2, <1>3, <1>4, KeysOfSound, KeysReplaced

(* The columns of one name: there is one at most.                           *)
LEMMA NamedOnce ==
    ASSUME NEW c, SoundCatalog(c), NEW t \in Tables, c[t] # None, NEW name,
           NEW S \in SUBSET Named(c[t], name), S # {}
    PROVE  \E j \in DOMAIN c[t].columns : SetToSeq(S) = <<j>>
<1>1. PICK j \in S : TRUE
    OBVIOUS
<1>2. j \in DOMAIN c[t].columns /\ \A i \in S : i = j
    BY ColumnOf DEF Named
<1>3. SetToSeq(S) = <<j>>
    BY <1>2, OneElement
<1>4. QED BY <1>2, <1>3

LEMMA AddKeyKeepsSound ==
    ASSUME NEW c, SoundCatalog(c), NEW t \in Tables, c[t] # None, NEW s, s.name \in Nat,
           s.ref_table \in Tables, s.on_update \in Actions, s.on_delete \in Actions,
           NEW d \in AddKeyResults(c, t, s)
    PROVE  SoundCatalog(d)
<1> DEFINE froms == Named(c[t], s.column)
           tos == IF c[s.ref_table] = None THEN {}
                  ELSE {j \in Named(c[s.ref_table], s.ref_column) : c[s.ref_table].columns[j].pk}
           used == UNION {{key.name : key \in c[u].keys} : u \in Present(c)}
           key == [name |-> s.name, columns |-> SetToSeq(froms), ref |-> s.ref_table,
                   refs |-> SetToSeq(tos), update |-> s.on_update, delete |-> s.on_delete]
           keys == c[t].keys \cup {key}
<1>1. froms # {} /\ tos # {} /\ s.name \notin used /\ d = [c EXCEPT ![t].keys = keys]
    BY DEF AddKeyResults
<1>2. d = [c EXCEPT ![t] = [c[t] EXCEPT !.keys = keys]]
    BY <1>1
<1>3. PICK i \in DOMAIN c[t].columns : SetToSeq(froms) = <<i>>
    <2>1. froms \in SUBSET Named(c[t], s.column) /\ froms # {}
        BY <1>1
    <2> HIDE DEF froms, tos, used, key
    <2>2. QED BY <2>1, NamedOnce
<1>4. c[s.ref_table] # None /\ tos \in SUBSET Named(c[s.ref_table], s.ref_column)
    BY <1>1
<1>5. PICK j \in DOMAIN c[s.ref_table].columns : SetToSeq(tos) = <<j>>
    <2>1. tos # {}
        BY <1>1
    <2> HIDE DEF froms, tos, used, key
    <2>2. \A r \in Tables : c[r] # None => \A S \in SUBSET Named(c[r], s.ref_column) :
             S # {} => \E j \in DOMAIN c[r].columns : SetToSeq(S) = <<j>>
        BY NamedOnce
    <2>3. QED BY <1>4, <2>1, <2>2
<1>6. i \in Nat /\ j \in Nat
    <2>1. c[t].columns \in Seq(Columns) /\ c[s.ref_table].columns \in Seq(Columns)
        BY <1>4, ColumnOf
    <2>2. QED BY <2>1
<1>7. key.columns = <<i>> /\ key.refs = <<j>> /\ key.ref = s.ref_table /\ key.name = s.name
    BY <1>3, <1>5
<1>8. key = [name |-> s.name, columns |-> <<i>>, ref |-> s.ref_table, refs |-> <<j>>,
             update |-> s.on_update, delete |-> s.on_delete]
    BY <1>3, <1>5
<1> HIDE DEF froms, tos
<1>9. <<i>> \in Seq(Nat) \ {<<>>} /\ <<j>> \in Seq(Nat) /\ Len(<<i>>) = Len(<<j>>)
      /\ ToSet(<<i>>) = {i} /\ ToSet(<<j>>) = {j}
    BY <1>6 DEF ToSet
<1>10. key \in Keys /\ Len(key.columns) = Len(key.refs)
    <2> HIDE DEF key
    <2> QED BY <1>8, <1>9 DEF Keys
<1>11. Anchored(c, c[t].columns, key)
    BY <1>4, <1>7, <1>9 DEF Anchored
<1>12. \A k \in c[t].keys : k.name # key.name
    <2>1. t \in Present(c)
        BY DEF Present
    <2>2. \A k \in c[t].keys : k.name \in used
        BY <2>1
    <2> HIDE DEF used, key
    <2>3. QED BY <1>1, <1>7, <2>2
<1> HIDE DEF key
<1>13. keys \in SUBSET Keys /\ IsFiniteSet(keys)
    BY <1>10, KeysOfSound, FS_AddElement
<1>14. /\ \A k, l \in keys : k.name = l.name => k = l
       /\ \A k \in keys : Len(k.columns) = Len(k.refs) /\ Anchored(c, c[t].columns, k)
    BY <1>10, <1>11, <1>12, KeysOfSound
<1> HIDE DEF keys
<1>15. QED BY <1>2, <1>13, <1>14, KeysReplaced

(* Whatever a statement of the plugin does, the catalog is one the server   *)
(* can have.                                                                *)
LEMMA StatementsKeepSound ==
    ASSUME NEW c, SoundCatalog(c), NEW t \in Tables, NEW s \in Statements,
           NEW d \in Results(c, t, s)
    PROVE  SoundCatalog(d)
<1>1. CASE s \in [op : {"create"}, columns : [1..1 -> ColumnDefinitions]]
    <2>1. s.op = "create" /\ s.columns \in [1..1 -> ColumnDefinitions]
        BY <1>1
    <2>2. d \in CreateResults(c, t, s)
        BY <2>1 DEF Results
    <2>3. QED BY <2>1, <2>2, CreateKeepsSound
<1>2. CASE c[t] = None /\ s.op = "drop_default"
    BY <1>2 DEF Results
<1>3. CASE c[t] = None /\ s.op \notin {"create", "drop_default"}
    BY <1>3 DEF Results
<1>4. CASE c[t] # None /\ s \in [op : {"rename"}, from : Names, to : Names]
    <2>1. s.op = "rename" /\ s.to \in Names
        BY <1>4
    <2>2. d \in RenameResults(c, t, s)
        BY <1>4, <2>1 DEF Results
    <2>3. QED BY <1>4, <2>1, <2>2, RenameKeepsSound
<1>5. CASE c[t] # None /\ s \in [op : {"retype"}, column : Names, type : Types, nullable : BOOLEAN]
    <2>1. s.op = "retype" /\ s.type \in Types /\ s.nullable \in BOOLEAN
        BY <1>5
    <2>2. d \in RetypeResults(c, t, s)
        BY <1>5, <2>1 DEF Results
    <2>3. QED BY <1>5, <2>1, <2>2, RetypeKeepsSound
<1>6. CASE c[t] # None /\ s \in [op : {"drop_default"}, column : Names]
    <2>1. s.op = "drop_default"
        BY <1>6
    <2>2. d \in DropDefaultResults(c, t, s)
        BY <1>6, <2>1 DEF Results
    <2>3. QED BY <1>6, <2>2, DropDefaultKeepsSound
<1>7. CASE c[t] # None /\ s \in [op : {"add_default"}, column : Names, text : DefaultTexts]
    <2>1. s.op = "add_default" /\ s.column \in Names /\ s.text \in DefaultTexts
        BY <1>7
    <2>2. d \in AddDefaultResults(c, t, s)
        BY <1>7, <2>1 DEF Results
    <2>3. QED BY <1>7, <2>1, <2>2, AddDefaultKeepsSound
<1>8. CASE c[t] # None /\ s \in [op : {"add_column"}, column : ColumnDefinitions]
    <2>1. s.op = "add_column" /\ s.column \in ColumnDefinitions
        BY <1>8
    <2>2. d \in AddColumnResults(c, t, s)
        BY <1>8, <2>1 DEF Results
    <2>3. QED BY <1>8, <2>1, <2>2, AddColumnKeepsSound
<1>9. CASE c[t] # None
           /\ s \in [op : {"add_key"}, name : Nat, column : Names, ref_table : Tables,
                     ref_column : Names, on_update : Actions, on_delete : Actions]
    <2>1. s.op = "add_key" /\ s.name \in Nat /\ s.ref_table \in Tables
          /\ s.on_update \in Actions /\ s.on_delete \in Actions
        BY <1>9
    <2>2. d \in AddKeyResults(c, t, s)
        BY <1>9, <2>1 DEF Results
    <2>3. QED BY <1>9, <2>1, <2>2, AddKeyKeepsSound
<1>10. CASE c[t] # None /\ s \in [op : {"drop_key"}, name : Nat]
    <2>1. s.op = "drop_key"
        BY <1>10
    <2>2. d \in DropKeyResults(c, t, s)
        BY <1>10, <2>1 DEF Results
    <2>3. QED BY <1>10, <2>2, DropKeyKeepsSound
<1>11. CASE c[t] # None
    BY <1>1, <1>4, <1>5, <1>6, <1>7, <1>8, <1>9, <1>10, <1>11 DEF Statements
<1>12. CASE c[t] = None
    <2>1. s.op = "create" => s \in [op : {"create"}, columns : [1..1 -> ColumnDefinitions]]
        BY DEF Statements
    <2>2. QED BY <1>1, <1>2, <1>3, <1>12, <2>1
<1>13. QED BY <1>11, <1>12

----------------------------------------------------------------------------
(* The invariant of the server's catalog.                                   *)

(* Statements are run one after the other.                                  *)
LEMMA SequencesOfStatements ==
    /\ <<>> \in Seq(Statements)
    /\ \A s \in Statements : <<s>> \in Seq(Statements)
    /\ \A p, q \in Seq(Statements) : p \o q \in Seq(Statements)
    /\ \A p \in Seq(Statements) : p # <<>> => Head(p) \in Statements /\ Tail(p) \in Seq(Statements)
OBVIOUS

LEMMA AlterationStatements ==
    ASSUME NEW old, old.name \in Names, NEW new \in ColumnDefinitions
    PROVE  AlterColumnSql(old, new) \in Seq(Statements)
<1>1. /\ new.name \in Names /\ new.data_type \in Types /\ new.is_nullable \in BOOLEAN
      /\ new.default_value \in DefaultTexts \cup {None}
    BY DEF ColumnDefinitions
<1>2. [op |-> "rename", from |-> old.name, to |-> new.name] \in Statements
    BY <1>1 DEF Statements
<1>3. [op |-> "retype", column |-> new.name, type |-> new.data_type,
       nullable |-> new.is_nullable] \in Statements
    BY <1>1 DEF Statements
<1>4. [op |-> "drop_default", column |-> new.name] \in Statements
    BY <1>1 DEF Statements
<1>5. new.default_value # None =>
         [op |-> "add_default", column |-> new.name, text |-> new.default_value] \in Statements
    BY <1>1 DEF Statements
<1>6. RenameSql(old, new) \in Seq(Statements)
    BY <1>2, SequencesOfStatements DEF RenameSql
<1>7. RetypeSql(old, new) \in Seq(Statements)
    BY <1>3, SequencesOfStatements DEF RetypeSql
<1>8. DefaultSql(old, new) \in Seq(Statements)
    BY <1>4, <1>5, SequencesOfStatements DEF DefaultSql, DefaultSqlFor, HasDefault
<1>9. QED BY <1>6, <1>7, <1>8, SequencesOfStatements DEF AlterColumnSql

LEMMA InitServer == Init => ServerInv
BY CatalogAssumption, SequencesOfStatements DEF Init, ServerInv, NoEdit

LEMMA StartKeepsServer ==
    ASSUME ServerInv, EditShape, NEW t, NEW other, NEW s \in Statements, NEW asked,
           Start(t, other, s, asked)
    PROVE  ServerInv'
<1>1. edit'.step = "running" /\ edit'.todo = <<s>> /\ catalog' = catalog
    BY DEF Start, EditShape
<1>2. QED BY <1>1, SequencesOfStatements DEF ServerInv

LEMMA EditingKeepsServer ==
    ASSUME ServerInv, EditorInv, Editing PROVE ServerInv'
<1>1. EditInv /\ EditShape
    BY DEF EditorInv, EditInv
<1>2. ASSUME NEW t \in Present(catalog), NEW i \in DOMAIN catalog[t].columns, OpenColumn(t, i)
      PROVE  ServerInv'
    <2>1. edit'.old = TableColumn(catalog[t].columns[i]) /\ edit'.todo = edit.todo
          /\ catalog' = catalog
        BY <1>1, <1>2 DEF OpenColumn, EditShape
    <2>2. t \in Tables /\ catalog[t] # None
        BY DEF Present
    <2> DEFINE col == catalog[t].columns[i]
    <2>3. col \in Columns
        BY <2>2, ColumnOf DEF ServerInv
    <2> HIDE DEF col
    <2>4. TableColumn(col).name \in Names
        BY <2>3 DEF Columns, TableColumn
    <2>5. QED BY <2>1, <2>4 DEF ServerInv, col
<1>3. ASSUME NEW new \in NewColumns, AlterColumn(new) PROVE ServerInv'
    <2>1. new \in ColumnDefinitions /\ edit.old.name \in Names
        BY <1>3, CatalogAssumption DEF ServerInv, AlterColumn
    <2>2. AlterColumnSql(edit.old, new) \in Seq(Statements)
        BY <2>1, AlterationStatements
    <2>3. catalog' = catalog /\ edit'.step # "open"
          /\ edit'.todo \in {edit.todo, AlterColumnSql(edit.old, new)}
        BY <1>1, <1>3 DEF AlterColumn, EditShape
    <2>4. QED BY <2>2, <2>3 DEF ServerInv
<1>4. ASSUME NEW t \in Tables, NEW def \in NewColumns, CreateTable(t, <<def>>) PROVE ServerInv'
    <2>1. def \in ColumnDefinitions
        BY CatalogAssumption
    <2>2. <<def>> \in [1..1 -> ColumnDefinitions]
        BY <2>1
    <2> DEFINE s == [op |-> "create", columns |-> <<def>>]
    <2>3. s \in Statements
        BY <2>2 DEF Statements
    <2>4. \E asked : Start(t, t, s, asked)
        BY <1>4 DEF CreateTable
    <2> HIDE DEF s
    <2>5. QED BY <1>1, <2>3, <2>4, StartKeepsServer
<1>5. ASSUME NEW t \in Tables, NEW def \in NewColumns, AddColumn(t, def) PROVE ServerInv'
    <2>1. def \in ColumnDefinitions
        BY CatalogAssumption
    <2> DEFINE s == [op |-> "add_column", column |-> def]
    <2>2. s \in Statements
        BY <2>1 DEF Statements
    <2>3. \E asked : Start(t, t, s, asked)
        BY <1>5 DEF AddColumn
    <2> HIDE DEF s
    <2>4. QED BY <1>1, <2>2, <2>3, StartKeepsServer
<1>6. ASSUME NEW t \in Tables, NEW def \in NewKeys, AddForeignKey(t, def) PROVE ServerInv'
    <2>1. /\ def.name \in Nat /\ def.column \in Names /\ def.ref_table \in Tables
          /\ def.ref_column \in Names
        BY CatalogAssumption DEF KeyDefinitions
    <2>2. ActionSql(def.on_update) \in Actions /\ ActionSql(def.on_delete) \in Actions
        BY <1>6 DEF AddForeignKey, BadAction, ActionSql, NoAction, Actions
    <2> DEFINE s == AddKeySql(def)
    <2>3. s \in Statements
        BY <2>1, <2>2 DEF AddKeySql, Statements
    <2>4. \E asked : Start(t, def.ref_table, s, asked)
        BY <1>6 DEF AddForeignKey
    <2> HIDE DEF s
    <2>5. QED BY <1>1, <2>3, <2>4, StartKeepsServer
<1>7. ASSUME NEW t \in Tables, NEW def \in NewKeys, DropForeignKey(t, def.name) PROVE ServerInv'
    <2>1. def.name \in Nat
        BY CatalogAssumption DEF KeyDefinitions
    <2> DEFINE s == [op |-> "drop_key", name |-> def.name]
    <2>2. s \in Statements
        BY <2>1 DEF Statements
    <2>3. \E asked : Start(t, t, s, asked)
        BY <1>7 DEF DropForeignKey
    <2> HIDE DEF s
    <2>4. QED BY <1>1, <2>2, <2>3, StartKeepsServer
<1>8. CASE RunStatement
    <2>1. /\ edit.step = "running" /\ edit.todo # <<>>
          /\ catalog' \in Results(catalog, edit.table, Head(edit.todo))
          /\ edit'.todo = Tail(edit.todo) /\ edit'.step # "open"
        BY <1>1, <1>8 DEF RunStatement, EditShape
    <2>2. edit.table \in Tables
        BY <1>1, <2>1 DEF EditInv
    <2>3. Head(edit.todo) \in Statements /\ Tail(edit.todo) \in Seq(Statements)
        BY <2>1, SequencesOfStatements DEF ServerInv
    <2>4. SoundCatalog(catalog')
        BY <2>1, <2>2, <2>3, StatementsKeepSound DEF ServerInv
    <2>5. QED BY <2>1, <2>3, <2>4 DEF ServerInv
<1>9. CASE StatementFails
    <2>1. catalog' = catalog /\ edit'.todo = <<>> /\ edit'.step # "open"
        BY <1>1, <1>9 DEF StatementFails, EditShape
    <2>2. QED BY <2>1, SequencesOfStatements DEF ServerInv
<1>10. QED BY <1>2, <1>3, <1>4, <1>5, <1>6, <1>7, <1>8, <1>9 DEF Editing, Offered

LEMMA OthersKeepServer ==
    ASSUME ServerInv, EditorInv, OtherClient PROVE ServerInv'
<1>1. PICK t \in Tables, shape \in Shapes \cup {None} :
         /\ catalog' = [catalog EXCEPT ![t] = shape]
         /\ WellFormed(catalog')
         /\ edit' = [edit EXCEPT !.disturbed = @ \/ t \in edit.reads]
    BY DEF OtherClient
<1>2. EditShape
    BY DEF EditorInv, EditInv
<1>3. edit'.step = edit.step /\ edit'.old = edit.old /\ edit'.todo = edit.todo
    BY <1>1, <1>2 DEF EditShape
<1>4. catalog \in [Tables -> TableRecords \cup {None}] /\ IsFiniteSet(Present(catalog))
    BY DEF ServerInv, SoundCatalog
<1>5. shape = None \/ Sound(shape)
    BY CatalogAssumption
<1>6. shape \in TableRecords \cup {None}
    BY <1>5 DEF Sound
<1>7. catalog' \in [Tables -> TableRecords \cup {None}]
    BY <1>1, <1>4, <1>6
<1>8. Present(catalog') \in SUBSET (Present(catalog) \cup {t})
    BY <1>1, <1>4 DEF Present
<1>9. IsFiniteSet(Present(catalog'))
    <2> DEFINE P == Present(catalog)
               Q == Present(catalog')
    <2>1. IsFiniteSet(P) /\ Q \in SUBSET (P \cup {t})
        BY <1>4, <1>8
    <2> HIDE DEF P, Q
    <2>2. IsFiniteSet(P \cup {t})
        BY <2>1, FS_AddElement
    <2>3. IsFiniteSet(Q)
        BY <2>1, <2>2, FS_Subset
    <2>4. QED BY <2>3 DEF Q
<1>10. \A u \in Present(catalog') : Sound(catalog'[u])
    <2>1. TAKE u \in Present(catalog')
    <2>2. u \in Tables /\ catalog'[u] # None
        BY DEF Present
    <2>3. CASE u = t
        BY <1>1, <1>4, <1>5, <2>2, <2>3
    <2>4. CASE u # t
        <3>1. catalog'[u] = catalog[u] /\ u \in Present(catalog)
            BY <1>1, <1>4, <2>2, <2>4 DEF Present
        <3>2. QED BY <3>1 DEF ServerInv, SoundCatalog
    <2>5. QED BY <2>3, <2>4
<1>11. SoundCatalog(catalog')
    BY <1>1, <1>7, <1>9, <1>10 DEF SoundCatalog
<1>12. QED BY <1>3, <1>11 DEF ServerInv

LEMMA ServerStays ==
    ASSUME ServerInv, UNCHANGED <<catalog, edit>> PROVE ServerInv'
BY DEF ServerInv

----------------------------------------------------------------------------
(* The invariant of a request.                                              *)

Catalogs == {c \in [Tables -> TableRecords \cup {None}] : SoundCatalog(c)}

Over == {"idle", "answered", "error"}

(* What was answered so far was the answer of catalogs there were.          *)
ReadOfTables == \E i \in DOMAIN past : request.tables = TablesOf(past[i])
ReadOfColumns == \E j \in DOMAIN past : request.columns = ColumnsOf(past[j])
ReadOfKeys == \E k \in DOMAIN past : request.keys = KeysOf(past[k])
ReadOfBoth ==
    \E i, j \in DOMAIN past :
        i <= j /\ request.tables = TablesOf(past[i]) /\ request.columns = ColumnsOf(past[j])
ReadOfAll ==
    \E i, j, k \in DOMAIN past :
        /\ i <= j /\ j <= k
        /\ request.tables = TablesOf(past[i]) /\ request.columns = ColumnsOf(past[j])
        /\ request.keys = KeysOf(past[k])

Answered ==
    /\ request.kind = "columns" => ReadOfColumns
    /\ request.kind = "keys" => ReadOfKeys
    /\ request.kind \in Snapshots =>
          LET entries == Entries(request.tables, request.columns, request.keys)
          IN  /\ ReadOfAll
              /\ request.total = Len(entries)
              /\ request.entries =
                    IF request.kind = "context"
                    THEN SubSeq(entries, 1, IF Len(entries) < ContextTables
                                            THEN Len(entries) ELSE ContextTables)
                    ELSE entries

InProgress ==
    /\ request.step = "tables" => request.kind \in Snapshots
    /\ request.step = "columns" =>
          /\ request.kind \in Snapshots \cup {"columns"}
          /\ request.kind \in Snapshots => ReadOfTables
    /\ request.step \in {"version", "banner", "keys"} =>
          /\ request.kind \in Snapshots \cup {"keys"}
          /\ request.kind \in Snapshots => ReadOfBoth
    /\ request.step = "answered" => Answered

ReadInv ==
    /\ past \in Seq(Catalogs)
    /\ request.step \notin Over => past # <<>> /\ past[Len(past)] = catalog
    /\ InProgress

LEMMA InitRead == Init => ReadInv
<1> SUFFICES ASSUME Init PROVE ReadInv
    OBVIOUS
<1>1. request.step = "idle" /\ past = <<>>
    BY DEF Init, NoRequest
<1>2. past \in Seq(Catalogs)
    BY <1>1
<1>3. QED BY <1>1, <1>2 DEF ReadInv, InProgress, Over

(* What was read of the catalogs so far, remains so of more of them.        *)
LEMMA SeenStays ==
    ASSUME UNCHANGED request, DOMAIN past \subseteq DOMAIN past',
           \A i \in DOMAIN past : past'[i] = past[i]
    PROVE  /\ ReadOfTables => ReadOfTables'
           /\ ReadOfColumns => ReadOfColumns'
           /\ ReadOfKeys => ReadOfKeys'
           /\ ReadOfBoth => ReadOfBoth'
           /\ ReadOfAll => ReadOfAll'
           /\ InProgress => InProgress'
<1>1. ASSUME ReadOfTables PROVE ReadOfTables'
    <2>1. PICK i \in DOMAIN past : request.tables = TablesOf(past[i])
        BY <1>1 DEF ReadOfTables
    <2>2. i \in DOMAIN past' /\ request'.tables = TablesOf(past'[i])
        BY <2>1
    <2>3. QED BY <2>2 DEF ReadOfTables
<1>2. ASSUME ReadOfColumns PROVE ReadOfColumns'
    <2>1. PICK j \in DOMAIN past : request.columns = ColumnsOf(past[j])
        BY <1>2 DEF ReadOfColumns
    <2>2. j \in DOMAIN past' /\ request'.columns = ColumnsOf(past'[j])
        BY <2>1
    <2>3. QED BY <2>2 DEF ReadOfColumns
<1>3. ASSUME ReadOfKeys PROVE ReadOfKeys'
    <2>1. PICK k \in DOMAIN past : request.keys = KeysOf(past[k])
        BY <1>3 DEF ReadOfKeys
    <2>2. k \in DOMAIN past' /\ request'.keys = KeysOf(past'[k])
        BY <2>1
    <2>3. QED BY <2>2 DEF ReadOfKeys
<1>4. ASSUME ReadOfBoth PROVE ReadOfBoth'
    <2>1. PICK i \in DOMAIN past, j \in DOMAIN past :
             i <= j /\ request.tables = TablesOf(past[i]) /\ request.columns = ColumnsOf(past[j])
        BY <1>4 DEF ReadOfBoth
    <2>2. /\ i \in DOMAIN past' /\ j \in DOMAIN past'
          /\ request'.tables = TablesOf(past'[i]) /\ request'.columns = ColumnsOf(past'[j])
        BY <2>1
    <2>3. QED BY <2>1, <2>2 DEF ReadOfBoth
<1>5. ASSUME ReadOfAll PROVE ReadOfAll'
    <2>1. PICK i \in DOMAIN past, j \in DOMAIN past, k \in DOMAIN past :
             /\ i <= j /\ j <= k
             /\ request.tables = TablesOf(past[i]) /\ request.columns = ColumnsOf(past[j])
             /\ request.keys = KeysOf(past[k])
        BY <1>5 DEF ReadOfAll
    <2>2. /\ i \in DOMAIN past' /\ j \in DOMAIN past' /\ k \in DOMAIN past'
          /\ request'.tables = TablesOf(past'[i]) /\ request'.columns = ColumnsOf(past'[j])
          /\ request'.keys = KeysOf(past'[k])
        BY <2>1
    <2>3. QED BY <2>1, <2>2 DEF ReadOfAll
<1>6. Answered => Answered'
    BY <1>2, <1>3, <1>5 DEF Answered
<1>7. ASSUME InProgress PROVE InProgress'
    <2>1. request' = request
        OBVIOUS
    <2>2. QED BY <1>1, <1>4, <1>6, <1>7, <2>1 DEF InProgress
<1>8. QED BY <1>1, <1>2, <1>3, <1>4, <1>5, <1>6, <1>7

(* The catalog changes meanwhile.                                           *)
LEMMA ChangesKeepRead ==
    ASSUME ReadInv, UNCHANGED request, SoundCatalog(catalog'), Recorded
    PROVE  ReadInv'
<1>1. past \in Seq(Catalogs)
    BY DEF ReadInv
<1>2. catalog' \in Catalogs
    BY DEF Catalogs, SoundCatalog
<1>3. CASE request.step \in Over
    <2>1. past' = past
        BY <1>3 DEF Recorded, Over
    <2>2. request'.step \in Over /\ past' \in Seq(Catalogs)
        BY <1>1, <1>3, <2>1
    <2>3. InProgress => InProgress'
        BY <2>1, SeenStays
    <2>4. QED BY <1>3, <2>2, <2>3 DEF ReadInv, Over
<1>4. CASE request.step \notin Over
    <2>1. past' = Append(past, catalog')
        BY <1>4 DEF Recorded, Over
    <2> DEFINE n == Len(past)
    <2>2. n \in Nat /\ DOMAIN past = 1..n
        BY <1>1
    <2>3. /\ past' \in Seq(Catalogs) /\ Len(past') = n + 1 /\ DOMAIN past' = 1..(n + 1)
          /\ past'[n + 1] = catalog' /\ \A i \in 1..n : past'[i] = past[i]
        BY <1>1, <1>2, <2>1
    <2> HIDE DEF n
    <2>4. past' # <<>> /\ past'[Len(past')] = catalog'
        BY <2>2, <2>3
    <2>5. DOMAIN past \subseteq DOMAIN past' /\ \A i \in DOMAIN past : past'[i] = past[i]
        BY <2>2, <2>3
    <2>6. InProgress => InProgress'
        BY <2>5, SeenStays
    <2>7. QED BY <2>3, <2>4, <2>6 DEF ReadInv
<1>5. QED BY <1>3, <1>4

LEMMA NothingKeepsRead ==
    ASSUME ReadInv, UNCHANGED <<catalog, request, past>> PROVE ReadInv'
<1>1. InProgress'
    BY SeenStays DEF ReadInv
<1>2. past' = past /\ request' = request /\ catalog' = catalog
    OBVIOUS
<1>3. QED BY <1>1, <1>2 DEF ReadInv

LEMMA AnsweredNow ==
    ASSUME past' \in Seq(Catalogs), request'.step = "answered", Answered' PROVE ReadInv'
<1>1. InProgress'
    BY DEF InProgress
<1>2. QED BY <1>1 DEF ReadInv, Over

(* The steps of a request.                                                  *)
LEMMA ReadingKeepsRead ==
    ASSUME ReadInv, IInv, ServerInv, Reading PROVE ReadInv'
<1>1. /\ past \in Seq(Catalogs) /\ Shaped(request) /\ catalog' = catalog
      /\ catalog \in Catalogs
    BY DEF ReadInv, IInv, ServerInv, SoundCatalog, Catalogs, Reading, Begin, ReadTables,
           ReadColumns, ReadFails, ProbeVersion, ReadBanner, ReadKeys
<1> DEFINE n == Len(past)
<1>2. n \in Nat /\ DOMAIN past = 1..n
    BY <1>1
<1>3. request.step \notin Over => n \in DOMAIN past /\ past[n] = catalog
    <2>1. past # <<>> => n # 0
        BY <1>1
    <2> HIDE DEF n
    <2>2. QED BY <1>2, <2>1 DEF ReadInv, n
<1> HIDE DEF n
<1>4. ASSUME NEW kind \in Kinds, Begin(kind) PROVE ReadInv'
    <2>1. past' = <<catalog>>
        BY <1>4 DEF Begin
    <2>2. past' \in Seq(Catalogs) /\ past' # <<>> /\ past'[Len(past')] = catalog'
        BY <1>1, <2>1
    <2>3. /\ request'.kind = kind
          /\ kind \in Snapshots => request'.step = "tables"
          /\ kind = "columns" => request'.step = "columns"
          /\ kind = "keys" => request'.step = "version"
        BY <1>1, <1>4 DEF Begin, Shaped, Snapshots
    <2>4. kind \in Snapshots \cup {"columns", "keys"}
        BY DEF Kinds
    <2>5. CASE kind \in Snapshots
        BY <2>2, <2>3, <2>5 DEF ReadInv, InProgress
    <2>6. CASE kind = "columns"
        BY <2>2, <2>3, <2>6 DEF ReadInv, InProgress, Snapshots
    <2>7. CASE kind = "keys"
        BY <2>2, <2>3, <2>7 DEF ReadInv, InProgress, Snapshots
    <2>8. QED BY <2>4, <2>5, <2>6, <2>7
<1>5. CASE ReadTables
    <2>1. /\ request.step = "tables" /\ past' = past
          /\ request'.step = "columns" /\ request'.kind = request.kind
          /\ request'.tables = TablesOf(catalog)
        BY <1>1, <1>5 DEF ReadTables, Shaped
    <2>2. request.kind \in Snapshots /\ past # <<>> /\ past[Len(past)] = catalog
        BY <2>1 DEF ReadInv, InProgress, Over
    <2>3. ReadOfTables'
        BY <1>3, <2>1 DEF ReadOfTables, Over
    <2>4. QED BY <1>1, <2>1, <2>2, <2>3 DEF ReadInv, InProgress
<1>6. CASE ReadColumns
    <2>1. /\ request.step = "columns" /\ past' = past
          /\ request'.step = IF request.kind = "columns" THEN "answered" ELSE "version"
          /\ request'.kind = request.kind /\ request'.tables = request.tables
          /\ request'.columns = ColumnsOf(catalog)
        BY <1>1, <1>6 DEF ReadColumns, Shaped
    <2>2. n \in DOMAIN past /\ past[n] = catalog
        BY <1>3, <2>1 DEF Over
    <2>3. past # <<>> /\ past[Len(past)] = catalog /\ request.kind \in Snapshots \cup {"columns"}
        BY <2>1 DEF ReadInv, InProgress, Over
    <2>4. CASE request.kind = "columns"
        <3>1. ReadOfColumns'
            BY <2>1, <2>2 DEF ReadOfColumns
        <3>2. Answered'
            BY <2>1, <2>4, <3>1 DEF Answered, Snapshots
        <3>3. QED BY <1>1, <2>1, <2>4, <3>2, AnsweredNow
    <2>5. CASE request.kind \in Snapshots
        <3>1. ReadOfTables /\ request.kind # "columns"
            BY <2>1, <2>5 DEF ReadInv, InProgress, Snapshots
        <3>2. PICK i \in DOMAIN past : request.tables = TablesOf(past[i])
            BY <3>1 DEF ReadOfTables
        <3>3. i <= n
            BY <1>2, <3>2
        <3>4. ReadOfBoth'
            BY <2>1, <2>2, <3>2, <3>3 DEF ReadOfBoth
        <3>5. QED BY <1>1, <2>1, <2>3, <2>5, <3>1, <3>4 DEF ReadInv, InProgress
    <2>6. QED BY <2>3, <2>4, <2>5
<1>7. CASE ReadFails
    <2>1. request'.step = "error" /\ past' = past
        BY <1>1, <1>7 DEF ReadFails, Shaped
    <2>2. QED BY <1>1, <2>1 DEF ReadInv, InProgress, Over
<1>8. CASE ProbeVersion \/ ReadBanner
    <2>1. /\ request.step \in {"version", "banner"} /\ past' = past
          /\ request'.step \in {"keys", "banner"}
          /\ request'.kind = request.kind /\ request'.tables = request.tables
          /\ request'.columns = request.columns
        BY <1>1, <1>8 DEF ProbeVersion, ReadBanner, Shaped
    <2>2. past # <<>> /\ past[Len(past)] = catalog /\ request.kind \in Snapshots \cup {"keys"}
        BY <2>1 DEF ReadInv, InProgress, Over
    <2>3. request.kind \in Snapshots => ReadOfBoth
        BY <2>1 DEF ReadInv, InProgress
    <2>4. ReadOfBoth => ReadOfBoth'
        BY <2>1 DEF ReadOfBoth
    <2>5. QED BY <1>1, <2>1, <2>2, <2>3, <2>4 DEF ReadInv, InProgress
<1>9. CASE ReadKeys
    <2> DEFINE keys == KeysOf(catalog)
               entries == Entries(request.tables, request.columns, keys)
               cut == SubSeq(entries, 1, IF Len(entries) < ContextTables
                                         THEN Len(entries) ELSE ContextTables)
    <2>1. /\ request.step = "keys" /\ past' = past
          /\ request'.step = "answered" /\ request'.keys = keys
          /\ request'.kind = request.kind /\ request'.tables = request.tables
          /\ request'.columns = request.columns
          /\ request'.total = Len(entries)
          /\ request'.entries = IF request.kind = "context" THEN cut ELSE entries
        BY <1>1, <1>9 DEF ReadKeys, Shaped
    <2>2. n \in DOMAIN past /\ past[n] = catalog
        BY <1>3, <2>1 DEF Over
    <2>3. /\ request.kind \in Snapshots \cup {"keys"}
          /\ request.kind \in Snapshots => ReadOfBoth
        BY <2>1 DEF ReadInv, InProgress
    <2>4. ReadOfKeys'
        BY <2>1, <2>2 DEF ReadOfKeys
    <2>5. Entries(request'.tables, request'.columns, request'.keys) = entries
        BY <2>1
    <2>6. CASE request.kind = "keys"
        <3>1. Answered'
            BY <2>1, <2>4, <2>6 DEF Answered, Snapshots
        <3>2. request'.step = "answered" /\ past' \in Seq(Catalogs)
            BY <1>1, <2>1
        <3>3. QED BY <3>1, <3>2, AnsweredNow
    <2>7. CASE request.kind \in Snapshots
        <3>1. PICK i \in DOMAIN past, j \in DOMAIN past :
                 i <= j /\ request.tables = TablesOf(past[i]) /\ request.columns = ColumnsOf(past[j])
            BY <2>3, <2>7 DEF ReadOfBoth
        <3>2. j <= n
            BY <1>2, <3>1
        <3>3. ReadOfAll'
            BY <2>1, <2>2, <3>1, <3>2 DEF ReadOfAll
        <3>4. request'.kind # "columns" /\ request'.kind # "keys"
            BY <2>1, <2>7 DEF Snapshots
        <3> HIDE DEF keys, entries
        <3>5. Answered'
            BY <2>1, <2>5, <3>3, <3>4 DEF Answered
        <3>6. request'.step = "answered" /\ past' \in Seq(Catalogs)
            BY <1>1, <2>1
        <3>7. QED BY <3>5, <3>6, AnsweredNow
    <2>8. QED BY <2>3, <2>6, <2>7
<1>10. QED BY <1>4, <1>5, <1>6, <1>7, <1>8, <1>9 DEF Reading

CatalogReadInv == IInv /\ EditorInv /\ ServerInv /\ ReadInv

LEMMA CatalogReadKept == Spec => []CatalogReadInv
<1>1. Init => ServerInv /\ ReadInv
    BY InitServer, InitRead
<1>2. ASSUME IInv, EditorInv, ServerInv, ReadInv, [Next]_vars PROVE ServerInv' /\ ReadInv'
    <2>1. CASE Reading
        <3>1. UNCHANGED <<catalog, edit>>
            BY <2>1 DEF Reading, Begin, ReadTables, ReadColumns, ReadFails, ProbeVersion,
                        ReadBanner, ReadKeys
        <3>2. QED BY <1>2, <2>1, <3>1, ServerStays, ReadingKeepsRead
    <2>2. CASE Editing
        <3>1. ServerInv' /\ SoundCatalog(catalog')
            BY <1>2, <2>2, EditingKeepsServer DEF ServerInv
        <3>2. CASE RunStatement
            <4>1. UNCHANGED request /\ Recorded
                BY <3>2 DEF RunStatement
            <4>2. QED BY <1>2, <3>1, <4>1, ChangesKeepRead
        <3>3. CASE UNCHANGED <<catalog, request, past>>
            BY <1>2, <3>1, <3>3, NothingKeepsRead
        <3>4. RunStatement \/ UNCHANGED <<catalog, request, past>>
            BY <2>2 DEF Editing, OpenColumn, AlterColumn, CreateTable, AddColumn, Start,
                        AddForeignKey, DropForeignKey, StatementFails
        <3>5. QED BY <3>2, <3>3, <3>4
    <2>3. CASE OtherClient
        <3>1. ServerInv' /\ SoundCatalog(catalog')
            BY <1>2, <2>3, OthersKeepServer DEF ServerInv
        <3>2. UNCHANGED request /\ Recorded
            BY <2>3 DEF OtherClient
        <3>3. QED BY <1>2, <3>1, <3>2, ChangesKeepRead
    <2>4. CASE UNCHANGED vars
        BY <1>2, <2>4, ServerStays, NothingKeepsRead DEF vars
    <2>5. QED BY <1>2, <2>1, <2>2, <2>3, <2>4 DEF Next
<1>3. QED BY <1>1, <1>2, VersionKept, EditorKept, PTL DEF Spec, CatalogReadInv

(* The entries of a snapshot, whatever it is cut to.                        *)
LEMMA EntriesTold ==
    ASSUME NEW tables, NEW S, tables \in Seq(S), NEW columns, NEW keys
    PROVE  LET entries == Entries(tables, columns, keys)
           IN  /\ Len(entries) = Len(tables) /\ DOMAIN entries = 1..Len(tables)
               /\ \A n \in 1..Len(tables) :
                     /\ entries[n].name = tables[n]
                     /\ entries[n].columns = IF tables[n] \in DOMAIN columns
                                             THEN columns[tables[n]] ELSE <<>>
                     /\ entries[n].foreign_keys = IF tables[n] \in DOMAIN keys
                                                  THEN keys[tables[n]] ELSE <<>>
               /\ \A size \in 0..Len(tables) :
                     LET cut == SubSeq(entries, 1, size)
                     IN  Len(cut) = size /\ \A n \in 1..size : cut[n] = entries[n]
<1> DEFINE entries == Entries(tables, columns, keys)
           N == Len(tables)
<1>1. N \in Nat /\ DOMAIN tables = 1..N
    OBVIOUS
<1> HIDE DEF N
<1>2. /\ DOMAIN entries = 1..N
      /\ entries = [n \in 1..N |-> entries[n]]
      /\ \A n \in 1..N :
            /\ entries[n].name = tables[n]
            /\ entries[n].columns = IF tables[n] \in DOMAIN columns
                                    THEN columns[tables[n]] ELSE <<>>
            /\ entries[n].foreign_keys = IF tables[n] \in DOMAIN keys
                                         THEN keys[tables[n]] ELSE <<>>
    BY <1>1 DEF Entries
<1> DEFINE X == {entries[n] : n \in 1..N}
<1> HIDE DEF entries
<1>3. entries \in Seq(X) /\ Len(entries) = N
    <2>1. entries \in [1..N -> X]
        BY <1>2
    <2> HIDE DEF X
    <2>2. QED BY <1>1, <2>1
<1> HIDE DEF X
<1>4. ASSUME NEW size \in 0..N
      PROVE  /\ Len(SubSeq(entries, 1, size)) = size
             /\ \A n \in 1..size : SubSeq(entries, 1, size)[n] = entries[n]
    BY <1>1, <1>3
<1>5. QED BY <1>2, <1>3, <1>4 DEF entries, N

(* Whatever schemas, tables and foreign keys there are, whatever other      *)
(* clients and the plugin's own edits make of them while a snapshot or an   *)
(* AI context is read, and whatever version of the server was told: every   *)
(* part of the answer is the truth about one moment of the request, the     *)
(* moments are in order, each table has the columns and the foreign keys    *)
(* that were its own then, and a context is cut and counted as it says      *)
(* (introspection.rs:716-732, ops.rs:786-799).  The maximum lengths of      *)
(* text, ntext, image and sysname columns are not part of this.             *)
THEOREM SnapshotsAlwaysTruthful == Spec => []SnapshotTruthful
<1>1. ASSUME ReadInv PROVE SnapshotTruthful
    <2>1. \A i \in DOMAIN past : SoundCatalog(past[i])
        <3>1. past \in Seq(Catalogs)
            BY <1>1 DEF ReadInv
        <3>2. \A i \in DOMAIN past : past[i] \in Catalogs
            BY <3>1
        <3>3. QED BY <3>2 DEF Catalogs
    <2>2. ASSUME request.step = "answered" PROVE Answered
        BY <1>1, <2>2 DEF ReadInv, InProgress
    <2>3. ASSUME request.step = "answered", request.kind = "columns"
          PROVE  \E j \in DOMAIN past :
                    /\ DOMAIN request.columns = Present(past[j])
                    /\ \A t \in DOMAIN request.columns :
                          Counted(request.columns[t]) = Counted(TrueColumns(past[j], t))
        <3>1. PICK j \in DOMAIN past : request.columns = ColumnsOf(past[j])
            BY <2>2, <2>3 DEF Answered, ReadOfColumns
        <3>2. SoundCatalog(past[j])
            BY <2>1
        <3>3. QED BY <3>1, <3>2, ColumnsRead
    <2>4. ASSUME request.step = "answered", request.kind = "keys"
          PROVE  \E k \in DOMAIN past : \A t \in Tables :
                    TrueKeys(IF t \in DOMAIN request.keys THEN request.keys[t] ELSE <<>>,
                             past[k], t)
        <3>1. PICK k \in DOMAIN past : request.keys = KeysOf(past[k])
            BY <2>2, <2>4 DEF Answered, ReadOfKeys
        <3>2. SoundCatalog(past[k])
            BY <2>1
        <3>3. QED BY <3>1, <3>2, KeysAnswered
    <2>5. ASSUME request.step = "answered", request.kind \in Snapshots
          PROVE  \E i, j, k \in DOMAIN past :
                    /\ i <= j /\ j <= k
                    /\ {request.tables[n] : n \in DOMAIN request.tables} = Present(past[i])
                    /\ request.total = Cardinality(Present(past[i]))
                    /\ Len(request.entries) =
                          IF request.kind = "context" /\ ContextTables < request.total
                          THEN ContextTables ELSE request.total
                    /\ \A n \in DOMAIN request.entries :
                          LET e == request.entries[n]
                          IN  /\ e.name = request.tables[n]
                              /\ Counted(e.columns) = Counted(TrueColumns(past[j], e.name))
                              /\ TrueKeys(e.foreign_keys, past[k], e.name)
        <3> DEFINE entries == Entries(request.tables, request.columns, request.keys)
                   N == Len(request.tables)
                   size == IF N < ContextTables THEN N ELSE ContextTables
        <3>1. /\ ReadOfAll /\ request.total = Len(entries)
              /\ request.entries = IF request.kind = "context"
                                   THEN SubSeq(entries, 1, IF Len(entries) < ContextTables
                                                THEN Len(entries) ELSE ContextTables)
                                   ELSE entries
            BY <2>2, <2>5 DEF Answered
        <3>2. PICK i \in DOMAIN past, j \in DOMAIN past, k \in DOMAIN past :
                 /\ i <= j /\ j <= k
                 /\ request.tables = TablesOf(past[i]) /\ request.columns = ColumnsOf(past[j])
                 /\ request.keys = KeysOf(past[k])
            BY <3>1 DEF ReadOfAll
        <3>3. SoundCatalog(past[i]) /\ SoundCatalog(past[j]) /\ SoundCatalog(past[k])
            BY <2>1
        <3>4. /\ request.tables \in Seq(Present(past[i]))
              /\ N = Cardinality(Present(past[i])) /\ N \in Nat
              /\ {request.tables[n] : n \in DOMAIN request.tables} = Present(past[i])
            <4>1. /\ TablesOf(past[i]) \in Seq(Present(past[i]))
                  /\ Len(TablesOf(past[i])) = Cardinality(Present(past[i]))
                  /\ {TablesOf(past[i])[n] : n \in DOMAIN TablesOf(past[i])} = Present(past[i])
                BY <3>3, TablesRead
            <4>2. QED BY <3>2, <4>1
        <3>5. /\ Len(entries) = N /\ DOMAIN entries = 1..N
              /\ \A n \in 1..N :
                    /\ entries[n].name = request.tables[n]
                    /\ entries[n].columns = IF request.tables[n] \in DOMAIN request.columns
                                            THEN request.columns[request.tables[n]] ELSE <<>>
                    /\ entries[n].foreign_keys = IF request.tables[n] \in DOMAIN request.keys
                                                 THEN request.keys[request.tables[n]] ELSE <<>>
              /\ \A m \in 0..N : /\ Len(SubSeq(entries, 1, m)) = m
                                 /\ \A n \in 1..m : SubSeq(entries, 1, m)[n] = entries[n]
            BY <3>4, EntriesTold
        <3>6. \A n \in 1..N : request.tables[n] \in Tables
            <4>1. \A n \in 1..N : request.tables[n] \in Present(past[i])
                BY <3>4
            <4>2. QED BY <4>1 DEF Present
        <3> HIDE DEF entries, N
        <3>7. ASSUME NEW n \in 1..N
              PROVE  /\ entries[n].name = request.tables[n]
                     /\ Counted(entries[n].columns)
                           = Counted(TrueColumns(past[j], entries[n].name))
                     /\ TrueKeys(entries[n].foreign_keys, past[k], entries[n].name)
            <4> DEFINE t == request.tables[n]
            <4>1. t \in Tables /\ entries[n].name = t
                BY <3>5, <3>6
            <4> HIDE DEF t
            <4>2. Counted(IF t \in DOMAIN request.columns THEN request.columns[t] ELSE <<>>)
                     = Counted(TrueColumns(past[j], t))
                <5>1. CASE t \in Present(past[j])
                    BY <3>2, <3>3, <5>1, ColumnsRead
                <5>2. CASE t \notin Present(past[j])
                    <6>1. past[j][t] = None
                        BY <4>1, <5>2 DEF Present
                    <6>2. t \notin DOMAIN request.columns
                        BY <3>2, <3>3, <5>2, ColumnsRead
                    <6>3. QED BY <6>1, <6>2 DEF TrueColumns
                <5>3. QED BY <5>1, <5>2
            <4>3. TrueKeys(IF t \in DOMAIN request.keys THEN request.keys[t] ELSE <<>>, past[k], t)
                BY <3>2, <3>3, <4>1, KeysAnswered
            <4>4. /\ entries[n].columns = IF t \in DOMAIN request.columns
                                          THEN request.columns[t] ELSE <<>>
                  /\ entries[n].foreign_keys = IF t \in DOMAIN request.keys
                                               THEN request.keys[t] ELSE <<>>
                BY <3>5 DEF t
            <4>5. QED BY <4>1, <4>2, <4>3, <4>4 DEF t
        <3>8. size \in 0..N
            BY <3>4, CatalogAssumption
        <3>9. \E m \in 0..N :
                 /\ Len(request.entries) = m /\ DOMAIN request.entries = 1..m
                 /\ \A n \in 1..m : request.entries[n] = entries[n]
                 /\ m = IF request.kind = "context" /\ ContextTables < N THEN ContextTables ELSE N
            <4>1. CASE request.kind = "context"
                <5>1. request.entries = SubSeq(entries, 1, size)
                    BY <3>1, <3>5, <4>1
                <5>2. size = IF ContextTables < N THEN ContextTables ELSE N
                    BY <3>4, CatalogAssumption
                <5> HIDE DEF size
                <5>3. /\ Len(request.entries) = size
                      /\ \A n \in 1..size : request.entries[n] = entries[n]
                    BY <3>5, <3>8, <5>1
                <5>4. DOMAIN request.entries = 1..size
                    BY <3>8, <5>1
                <5>5. QED BY <3>8, <4>1, <5>2, <5>3, <5>4
            <4>2. CASE request.kind # "context"
                <5>1. request.entries = entries /\ N \in 0..N
                    BY <3>1, <3>4, <4>2
                <5>2. QED BY <3>5, <4>2, <5>1
            <4>3. QED BY <4>1, <4>2
        <3>10. PICK m \in 0..N :
                 /\ Len(request.entries) = m /\ DOMAIN request.entries = 1..m
                 /\ \A n \in 1..m : request.entries[n] = entries[n]
                 /\ m = IF request.kind = "context" /\ ContextTables < N THEN ContextTables ELSE N
            BY <3>9
        <3>11. \A n \in 1..m : n \in 1..N
            BY <3>4
        <3>12. \A n \in DOMAIN request.entries :
                 /\ request.entries[n].name = request.tables[n]
                 /\ Counted(request.entries[n].columns)
                       = Counted(TrueColumns(past[j], request.entries[n].name))
                 /\ TrueKeys(request.entries[n].foreign_keys, past[k], request.entries[n].name)
            BY <3>7, <3>10, <3>11
        <3>13. request.total = N
            BY <3>1, <3>5
        <3>14. Len(request.entries) = IF request.kind = "context" /\ ContextTables < request.total
                                      THEN ContextTables ELSE request.total
            BY <3>10, <3>13
        <3>15. QED BY <3>2, <3>4, <3>12, <3>13, <3>14
    <2>6. QED BY <2>3, <2>4, <2>5 DEF SnapshotTruthful
<1>2. QED BY <1>1, CatalogReadKept, PTL DEF CatalogReadInv
=============================================================================
