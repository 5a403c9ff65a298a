------------------------------ MODULE Catalog ------------------------------
(***************************************************************************)
(* The catalog of one schema of the server, as the plugin reads it and as   *)
(* it edits it (driver/introspection.rs, driver/ddl/mod.rs, the catalog     *)
(* operations of driver/ops.rs).                                            *)
(*                                                                          *)
(* Reading is not one step.  A schema snapshot asks for the tables, for the *)
(* columns of all of them, for the version of the server (up to two         *)
(* queries) and for the foreign keys, with an await and no transaction      *)
(* around each, and joins the answers by table name.  Editing is not one    *)
(* step either: the plugin turns the editor's old and new column into a     *)
(* list of statements, which run one at a time and any of which the server  *)
(* may refuse.  Both go on while other clients change the same tables.      *)
(*                                                                          *)
(* A name is the sequence of its comma-separated pieces: the plugin carries *)
(* the columns of a constraint as one comma-separated text.  The constraint *)
(* name of a default stands for DF_<table>_<column>; collations, comments   *)
(* and computed columns are left out.                                       *)
(***************************************************************************)
EXTENDS Integers, SequencesExt

CONSTANTS
    Tables,        \* the names a table of the schema can have: numbers, in name order
    Shapes,        \* the tables other clients leave: records of columns and keys
    FirstTables,   \* the catalogs there can be before
    Majors,        \* the major versions of servers, from 2008 on (version.rs:7-16)
    NewColumns,    \* the columns an editor adds, or turns a column into
    NewKeys,       \* the foreign keys an editor adds
    ContextTables, \* the max_tables of an AI context request
    MaxChanges,    \* bound: what other clients change
    None

Whole == 0                       \* the (max) of a type
ByteSized == {"varchar", "char", "varbinary", "binary"}
WideSized == {"nvarchar", "nchar"}
Exact == {"decimal", "numeric"}
Scaled == {"datetime2", "datetimeoffset", "time"}
OneArg == ByteSized \cup WideSized \cup Scaled \cup {"float"}
Pointers == {"text", "ntext", "image"}   \* a row holds where the value is
Styles == {"capitals", "small letters", "spaces around"}

(* What the server's tables are made of: types as they are declared, columns, *)
(* their defaults, foreign keys by the positions of their columns.          *)
Types == [base : Exact, arg : [1..2 -> Nat]] \cup [base : OneArg, arg : [1..1 -> Nat]]
           \cup [base : STRING \ (Exact \cup OneArg), arg : {<<>>}]
Names == Seq(STRING) \ {<<>>}
Actions == {"NO ACTION", "CASCADE", "SET NULL", "SET DEFAULT"}
DefaultTexts == STRING \cup {"((0))"}
Defaults == [by : {"plugin", "server"}, table : Tables, column : Names, text : DefaultTexts]
Columns == [name : Names, type : Types, nullable : BOOLEAN, identity : BOOLEAN,
            pk : BOOLEAN, default : Defaults \cup {None}]
Keys == [name : Nat, columns : Seq(Nat) \ {<<>>}, ref : Tables, refs : Seq(Nat),
         update : Actions, delete : Actions]
TableRecords == [columns : Seq(Columns), keys : SUBSET Keys]

(* The server lets no two columns and no two keys of a table have one name, *)
(* and pairs the columns of a key.                                          *)
Sound(table) ==
    /\ table \in TableRecords
    /\ \A i, j \in DOMAIN table.columns :
          table.columns[i].name = table.columns[j].name => i = j
    /\ IsFiniteSet(table.keys)
    /\ \A k, l \in table.keys : k.name = l.name => k = l
    /\ \A key \in table.keys : Len(key.columns) = Len(key.refs)

Present(c) == {t \in Tables : c[t] # None}

(* A key refers to columns that are there.                                  *)
WellFormed(c) ==
    \A t \in Present(c) : \A key \in c[t].keys :
        /\ c[key.ref] # None
        /\ ToSet(key.refs) \subseteq DOMAIN c[key.ref].columns
        /\ ToSet(key.columns) \subseteq DOMAIN c[t].columns

(* The catalogs a server can have.                                          *)
SoundCatalog(c) ==
    /\ c \in [Tables -> TableRecords \cup {None}]
    /\ IsFiniteSet(Present(c))
    /\ \A t \in Present(c) : Sound(c[t])
    /\ WellFormed(c)

(* What an editor sends of a column and of a foreign key, whose rules are   *)
(* words however they are written; the word of a blank text is empty.       *)
ColumnDefinitions == [name : Names, data_type : Types, is_nullable : BOOLEAN, is_pk : BOOLEAN,
                      is_auto_increment : BOOLEAN, default_value : DefaultTexts \cup {None}]
Rules == [word : STRING, style : Styles] \cup {None}
KeyDefinitions == [name : Nat, column : Names, ref_table : Tables, ref_column : Names,
                   on_update : Rules, on_delete : Rules]

ASSUME CatalogAssumption ==
    /\ Tables \subseteq Nat
    /\ Majors \subseteq {m \in Nat : m >= 10}
    /\ ContextTables \in Nat
    /\ \A shape \in Shapes : Sound(shape)
    /\ \A c \in FirstTables : SoundCatalog(c)
    /\ NewColumns \subseteq ColumnDefinitions
    /\ NewKeys \subseteq KeyDefinitions
    /\ None \notin STRING \cup Actions /\ None \notin TableRecords /\ None \notin Defaults
    /\ None \notin [word : STRING, style : Styles]

VARIABLES
    catalog,   \* per name, the table of the server or None
    major,     \* its version
    request,   \* a request that reads the catalog
    past,      \* the catalogs there were since the request began, in order
    edit,      \* an edit of a table
    changes    \* what other clients changed

vars == <<catalog, major, request, past, edit, changes>>

----------------------------------------------------------------------------
(* What a query sees of a column.                                           *)

(* sys.columns and sys.types of a declared type: a size in bytes, which is  *)
(* that of a pointer for the old large types, and -1 without a bound.  It   *)
(* is 8 here for all types whose size nobody looks at.                      *)
SysType(type) ==
    [name       |-> type.base,
     max_length |-> CASE type.base \in WideSized /\ type.arg # <<Whole>> -> 2 * type.arg[1]
                      [] type.base \in ByteSized /\ type.arg # <<Whole>> -> type.arg[1]
                      [] type.base \in ByteSized \cup WideSized /\ type.arg = <<Whole>> -> -1
                      [] type.base = "xml" -> -1
                      [] type.base \in Pointers -> 16
                      [] type.base = "sysname" -> 256
                      [] OTHER -> 8,
     precision  |-> IF type.base \in Exact \cup {"float"} THEN type.arg[1] ELSE 0,
     scale      |-> CASE type.base \in Exact -> type.arg[2]
                      [] type.base \in Scaled -> type.arg[1]
                      [] OTHER -> 0]

(* The CASE of the column queries that writes the type out again.           *)
DataType(ty) ==
    [base |-> ty.name,
     arg  |-> CASE ty.name \in ByteSized \cup WideSized /\ ty.max_length = -1 -> <<Whole>>
                [] ty.name \in ByteSized /\ ty.max_length # -1 -> <<ty.max_length>>
                [] ty.name \in WideSized /\ ty.max_length # -1 -> <<ty.max_length \div 2>>
                [] ty.name \in Exact -> <<ty.precision, ty.scale>>
                [] ty.name \in Scaled -> <<ty.scale>>
                [] ty.name = "float" -> <<ty.precision>>
                [] OTHER -> <<>>]

(* character_length_from_sys_columns and is_string_type.                    *)
CharacterLength(base, bytes) ==
    CASE bytes < 0 -> None
      [] bytes >= 0 /\ base \in WideSized \cup {"ntext"} -> bytes \div 2
      [] bytes >= 0 /\ base \in ByteSized \cup {"text", "image", "xml", "sysname"} -> bytes
      [] OTHER -> None

(* build_table_column.                                                      *)
TableColumn(col) ==
    [name |-> col.name, data_type |-> DataType(SysType(col.type)),
     is_pk |-> col.pk, is_nullable |-> col.nullable, is_auto_increment |-> col.identity,
     default_value |-> IF col.default = None THEN None ELSE col.default.text,
     character_maximum_length |-> CharacterLength(col.type.base, SysType(col.type).max_length)]

----------------------------------------------------------------------------
(* The queries.                                                             *)

(* ORDER BY a name: the i-th has i - 1 before it.                           *)
Ordered(names) ==
    [i \in 1..Cardinality(names) |->
        CHOOSE n \in names : Cardinality({m \in names : m <= n}) = i]

(* Q_GET_TABLES.                                                            *)
TablesOf(c) == Ordered(Present(c))

(* Q_GET_ALL_COLUMNS_BATCH, bucketed by table.                              *)
ColumnsOf(c) ==
    [t \in Present(c) |-> [i \in DOMAIN c[t].columns |-> TableColumn(c[t].columns[i])]]

(* STRING_AGG and FOR XML PATH: one text for the columns of a constraint.   *)
Joined(names) == FlattenSeq(names)

NamesAt(table, positions) == [i \in DOMAIN positions |-> table.columns[positions[i]].name]

(* One row per constraint, in either dialect.                               *)
KeyRow(c, t, key) ==
    [name |-> key.name, ref_table |-> key.ref,
     columns |-> Joined(NamesAt(c[t], key.columns)),
     ref_columns |-> Joined(NamesAt(c[key.ref], key.refs)),
     on_update |-> key.update, on_delete |-> key.delete]

(* split_agg_columns.                                                       *)
SplitColumns(text) == [i \in DOMAIN text |-> <<text[i]>>]

(* build_foreign_keys: the shorter of the two lists decides.                *)
BuildForeignKeys(row) ==
    LET columns == SplitColumns(row.columns)
        refs    == SplitColumns(row.ref_columns)
    IN  [i \in DOMAIN columns \cap DOMAIN refs |->
            [name |-> row.name, column_name |-> columns[i], ref_table |-> row.ref_table,
             ref_column |-> refs[i], on_update |-> row.on_update,
             on_delete |-> row.on_delete]]

ByName(keys) ==
    LET names == Ordered({key.name : key \in keys})
    IN  [i \in DOMAIN names |-> CHOOSE key \in keys : key.name = names[i]]

(* The constraints of a table follow each other in its bucket.              *)
ForeignKeys(c, t) ==
    LET keys == ByName(c[t].keys)
    IN  FlattenSeq([k \in DOMAIN keys |-> BuildForeignKeys(KeyRow(c, t, keys[k]))])

KeysOf(c) ==
    [t \in {s \in Present(c) : ForeignKeys(c, s) # <<>>} |-> ForeignKeys(c, t)]

----------------------------------------------------------------------------
(* The version of the server (driver/version.rs).                           *)

DefaultMajor == 14

\* Mutant: a gate that is one version off.
SupportsStringAggEarly(m) == m >= 13

SupportsStringAgg(m) == m >= 14


(* parse_version_banner knows these years; any other one is the default.    *)
KnownMajors == {10, 11, 12, 13, 14, 15, 16, 17}
BannerMajor(m) == IF m \in KnownMajors THEN m ELSE DefaultMajor

----------------------------------------------------------------------------
(* A request that reads.                                                    *)

Snapshots == {"snapshot", "context"}
Kinds == Snapshots \cup {"columns", "keys"}
NoRows == [t \in {} |-> <<>>]

NoRequest ==
    [kind |-> None, step |-> "idle", tables |-> <<>>, columns |-> NoRows, keys |-> NoRows,
     version |-> DefaultMajor, source |-> None, total |-> 0, entries |-> <<>>]

Begin(kind) ==
    /\ request.step = "idle"
    /\ request' = [request EXCEPT
          !.kind = kind,
          !.step = CASE kind \in Snapshots -> "tables"
                     [] kind = "columns" -> "columns"
                     [] kind = "keys" -> "version"]
    /\ past' = <<catalog>>
    /\ UNCHANGED <<catalog, major, edit, changes>>

ReadTables ==
    /\ request.step = "tables"
    /\ request' = [request EXCEPT !.step = "columns", !.tables = TablesOf(catalog)]
    /\ UNCHANGED <<catalog, major, past, edit, changes>>

ReadColumns ==
    /\ request.step = "columns"
    /\ request' = [request EXCEPT
          !.step = IF request.kind = "columns" THEN "answered" ELSE "version",
          !.columns = ColumnsOf(catalog)]
    /\ UNCHANGED <<catalog, major, past, edit, changes>>

(* A query of the catalog fails: so does the request.                       *)
ReadFails ==
    /\ request.step \in {"tables", "columns", "keys"}
    /\ request' = [request EXCEPT !.step = "error"]
    /\ UNCHANGED <<catalog, major, past, edit, changes>>

(* SERVERPROPERTY answers with the version, or with text that is none, or   *)
(* not at all: only then the banner is asked for.                           *)
ProbeVersion ==
    /\ request.step = "version"
    /\ \/ request' = [request EXCEPT !.step = "keys", !.version = major, !.source = "property"]
       \/ request' = [request EXCEPT !.step = "keys", !.version = DefaultMajor,
                                     !.source = "default"]
       \/ request' = [request EXCEPT !.step = "banner"]
    /\ UNCHANGED <<catalog, major, past, edit, changes>>

ReadBanner ==
    /\ request.step = "banner"
    /\ \/ request' = [request EXCEPT !.step = "keys", !.version = BannerMajor(major),
                                     !.source = "banner"]
       \/ request' = [request EXCEPT !.step = "keys", !.version = DefaultMajor,
                                     !.source = "default"]
    /\ UNCHANGED <<catalog, major, past, edit, changes>>

\* Mutant: the answers are joined by position.
EntriesByPosition(tables, columns, keys) ==
    LET listed == Ordered(DOMAIN columns)
    IN  [i \in DOMAIN tables |->
            [name |-> tables[i],
             columns |-> IF i \in DOMAIN listed THEN columns[listed[i]] ELSE <<>>,
             foreign_keys |-> IF tables[i] \in DOMAIN keys THEN keys[tables[i]] ELSE <<>>]]

(* unwrap_or_default: a table that an answer does not mention has none.     *)
Entries(tables, columns, keys) ==
    [i \in DOMAIN tables |->
        [name |-> tables[i],
         columns |-> IF tables[i] \in DOMAIN columns THEN columns[tables[i]] ELSE <<>>,
         foreign_keys |-> IF tables[i] \in DOMAIN keys THEN keys[tables[i]] ELSE <<>>]]

(* STRING_AGG came with 2017; FOR XML PATH works everywhere.                *)
Understood(m, aggregates) == aggregates => m >= 14

ReadKeys ==
    /\ request.step = "keys"
    /\ Understood(major, SupportsStringAgg(request.version))
    /\ LET keys == KeysOf(catalog)
           entries == Entries(request.tables, request.columns, keys)
       IN  request' = [request EXCEPT
              !.step = "answered", !.keys = keys,
              !.total = Len(entries),
              !.entries = IF request.kind = "context"
                          THEN SubSeq(entries, 1, IF Len(entries) < ContextTables
                                                  THEN Len(entries) ELSE ContextTables)
                          ELSE entries]
    /\ UNCHANGED <<catalog, major, past, edit, changes>>

Reading ==
    \/ \E kind \in Kinds : Begin(kind)
    \/ ReadTables
    \/ ReadColumns
    \/ ReadFails
    \/ ProbeVersion
    \/ ReadBanner
    \/ ReadKeys

----------------------------------------------------------------------------
(* The statements of an edit.                                               *)

(* alter_column_sql refuses what ALTER COLUMN cannot do.                    *)
Unsupported(old, new) ==
    \/ old.is_auto_increment # new.is_auto_increment
    \/ old.is_pk # new.is_pk
    \/ old.is_pk /\ (old.data_type # new.data_type \/ old.is_nullable # new.is_nullable)

RenameSql(old, new) ==
    IF old.name = new.name THEN <<>>
    ELSE <<[op |-> "rename", from |-> old.name, to |-> new.name]>>

RetypeSql(old, new) ==
    IF old.data_type = new.data_type /\ old.is_nullable = new.is_nullable THEN <<>>
    ELSE <<[op |-> "retype", column |-> new.name, type |-> new.data_type,
            nullable |-> new.is_nullable]>>

Blank == " "
HasDefault(def) == def.default_value \notin {None, Blank}

DefaultSqlFor(column, old, new) ==
    IF old.default_value = new.default_value THEN <<>>
    ELSE <<[op |-> "drop_default", column |-> column]>>
         \o (IF HasDefault(new)
             THEN <<[op |-> "add_default", column |-> new.name, text |-> new.default_value]>>
             ELSE <<>>)

\* Mutant: the default is looked for under the column's old name.
DefaultSqlOldName(old, new) == DefaultSqlFor(old.name, old, new)

DefaultSql(old, new) == DefaultSqlFor(new.name, old, new)

AlterColumnSql(old, new) == RenameSql(old, new) \o RetypeSql(old, new) \o DefaultSql(old, new)

(* create_foreign_key_sql trims the actions, ignores their case and writes  *)
(* them in capitals; it qualifies both tables with the one schema.          *)
NoAction(value) == value = None \/ value.word = ""
ActionSql(value) == IF NoAction(value) THEN "NO ACTION" ELSE value.word
BadAction(value) == ~NoAction(value) /\ value.word \notin Actions

----------------------------------------------------------------------------
(* What the server makes of a statement: the catalogs it can leave, none    *)
(* when it refuses.                                                         *)

Stored(text) == IF text = "0" THEN "((0))" ELSE text

Named(table, name) == {i \in DOMAIN table.columns : table.columns[i].name = name}

DefaultOf(by, t, def) ==
    IF HasDefault(def)
    THEN [by |-> by, table |-> t, column |-> def.name, text |-> Stored(def.default_value)]
    ELSE None

ColumnFrom(t, def) ==
    [name |-> def.name, type |-> def.data_type, nullable |-> def.is_nullable,
     identity |-> def.is_auto_increment, pk |-> def.is_pk,
     default |-> DefaultOf("server", t, def)]

(* An identity takes no NULL and no default, a primary key no NULL, and a   *)
(* blank default is no SQL.                                                 *)
Creatable(def) ==
    /\ def.is_auto_increment => ~def.is_nullable /\ def.default_value = None
    /\ def.is_pk => ~def.is_nullable
    /\ def.default_value # Blank

NameTaken(c, t, column) ==
    \E s \in Present(c) : \E i \in DOMAIN c[s].columns :
        LET default == c[s].columns[i].default
        IN  default # None /\ default.by = "plugin" /\ default.table = t
            /\ default.column = column

InKey(c, t, i) ==
    \/ \E key \in c[t].keys : i \in ToSet(key.columns)
    \/ \E s \in Present(c) : \E key \in c[s].keys : key.ref = t /\ i \in ToSet(key.refs)

RenameResults(c, t, s) ==
    {[c EXCEPT ![t].columns[i].name = s.to] :
        i \in {j \in Named(c[t], s.from) : Named(c[t], s.to) = {}}}

(* A default or a key stands in the way of another type.                    *)
RetypeResults(c, t, s) ==
    {[c EXCEPT ![t].columns[i].type = s.type, ![t].columns[i].nullable = s.nullable] :
        i \in {j \in Named(c[t], s.column) :
                 LET col == c[t].columns[j]
                 IN  /\ col.type # s.type => ~InKey(c, t, j)
                     /\ col.type.base # s.type.base => col.default = None
                     /\ s.nullable => ~col.identity /\ ~col.pk}}

(* A column without a default, or none of that name: nothing to drop.       *)
DropDefaultResults(c, t, s) ==
    {[c EXCEPT ![t].columns = [i \in DOMAIN @ |->
        IF @[i].name = s.column THEN [@[i] EXCEPT !.default = None] ELSE @[i]]]}

AddDefaultResults(c, t, s) ==
    {[c EXCEPT ![t].columns[i].default =
        [by |-> "plugin", table |-> t, column |-> s.column, text |-> Stored(s.text)]] :
        i \in {j \in Named(c[t], s.column) :
                 c[t].columns[j].default = None /\ ~c[t].columns[j].identity
                 /\ ~NameTaken(c, t, s.column)}}

CreateResults(c, t, s) ==
    IF c[t] = None /\ \A i \in DOMAIN s.columns : Creatable(s.columns[i])
    THEN {[c EXCEPT ![t] = [columns |-> [i \in DOMAIN s.columns |-> ColumnFrom(t, s.columns[i])],
                            keys |-> {}]]}
    ELSE {}

AddColumnResults(c, t, s) ==
    IF /\ Creatable(s.column)
       /\ Named(c[t], s.column.name) = {}
       /\ s.column.is_pk => \A i \in DOMAIN c[t].columns : ~c[t].columns[i].pk
    THEN {[c EXCEPT ![t].columns = Append(@, ColumnFrom(t, s.column))]}
    ELSE {}

AddKeyResults(c, t, s) ==
    LET froms == Named(c[t], s.column)
        tos   == IF c[s.ref_table] = None THEN {}
                 ELSE {j \in Named(c[s.ref_table], s.ref_column) :
                          c[s.ref_table].columns[j].pk}
        used  == UNION {{key.name : key \in c[u].keys} : u \in Present(c)}
    IN  IF froms = {} \/ tos = {} \/ s.name \in used THEN {}
        ELSE {[c EXCEPT ![t].keys = @ \cup
                {[name |-> s.name, columns |-> SetToSeq(froms), ref |-> s.ref_table,
                  refs |-> SetToSeq(tos), update |-> s.on_update, delete |-> s.on_delete]}]}

DropKeyResults(c, t, s) ==
    {[c EXCEPT ![t].keys = @ \ {key}] : key \in {k \in c[t].keys : k.name = s.name}}

Results(c, t, s) ==
    CASE s.op = "create" -> CreateResults(c, t, s)
      [] s.op = "drop_default" /\ c[t] = None -> {c}
      [] s.op \notin {"create", "drop_default"} /\ c[t] = None -> {}
      [] s.op = "rename" /\ c[t] # None -> RenameResults(c, t, s)
      [] s.op = "retype" /\ c[t] # None -> RetypeResults(c, t, s)
      [] s.op = "drop_default" /\ c[t] # None -> DropDefaultResults(c, t, s)
      [] s.op = "add_default" /\ c[t] # None -> AddDefaultResults(c, t, s)
      [] s.op = "add_column" /\ c[t] # None -> AddColumnResults(c, t, s)
      [] s.op = "add_key" /\ c[t] # None -> AddKeyResults(c, t, s)
      [] s.op = "drop_key" /\ c[t] # None -> DropKeyResults(c, t, s)

----------------------------------------------------------------------------
(* An edit.  The host shows a column, the user changes it, and the host runs *)
(* the statements the plugin answers with.  "seen" is the table when the    *)
(* edit began, "asked" what the user wants it to be, "column" the one that   *)
(* is altered (0: the edit alters none).                                    *)

NoEdit ==
    [step |-> "idle", table |-> None, reads |-> {}, column |-> 0, old |-> None,
     seen |-> None, asked |-> None, todo |-> <<>>, disturbed |-> FALSE]

(* get_columns, for the editor.                                             *)
OpenColumn(t, i) ==
    /\ edit.step = "idle"
    /\ catalog[t] # None
    /\ i \in DOMAIN catalog[t].columns
    /\ edit' = [edit EXCEPT !.step = "open", !.table = t, !.reads = {t}, !.column = i,
                            !.old = TableColumn(catalog[t].columns[i]), !.seen = catalog[t]]
    /\ UNCHANGED <<catalog, major, request, past, changes>>

Asked(table, i, new) ==
    [table EXCEPT !.columns[i] =
        [@ EXCEPT !.name = new.name, !.type = new.data_type, !.nullable = new.is_nullable,
                  !.default = IF edit.old.default_value = new.default_value
                              THEN table.columns[i].default
                              ELSE DefaultOf("plugin", edit.table, new)]]

(* get_alter_column_sql.                                                    *)
AlterColumn(new) ==
    /\ edit.step = "open"
    /\ edit' = IF Unsupported(edit.old, new) THEN [edit EXCEPT !.step = "refused"]
               ELSE [edit EXCEPT !.step = IF AlterColumnSql(edit.old, new) = <<>>
                                          THEN "done" ELSE "running",
                                 !.todo = AlterColumnSql(edit.old, new),
                                 !.asked = Asked(edit.seen, edit.column, new)]
    /\ UNCHANGED <<catalog, major, request, past, changes>>

Start(t, other, statement, asked) ==
    /\ edit.step = "idle"
    /\ edit' = [edit EXCEPT !.step = "running", !.table = t, !.reads = {t, other},
                            !.seen = catalog[t], !.todo = <<statement>>, !.asked = asked]
    /\ UNCHANGED <<catalog, major, request, past, changes>>

(* get_create_table_sql and get_add_column_sql: render_column_definition.   *)
CreateTable(t, columns) ==
    Start(t, t, [op |-> "create", columns |-> columns],
          [columns |-> [i \in DOMAIN columns |-> ColumnFrom(t, columns[i])], keys |-> {}])

AddColumn(t, def) ==
    /\ catalog[t] # None
    /\ Start(t, t, [op |-> "add_column", column |-> def],
             [catalog[t] EXCEPT !.columns = Append(@, ColumnFrom(t, def))])

(* get_create_foreign_key_sql.                                              *)
AddKeySql(def) ==
    [op |-> "add_key", name |-> def.name, column |-> def.column, ref_table |-> def.ref_table,
     ref_column |-> def.ref_column, on_update |-> ActionSql(def.on_update),
     on_delete |-> ActionSql(def.on_delete)]

Rule(value) == IF value # None /\ value.word \in Actions THEN value.word ELSE "NO ACTION"
AskedKey(t, def) ==
    [name |-> def.name, ref |-> def.ref_table,
     columns |-> SetToSeq(Named(catalog[t], def.column)),
     refs |-> SetToSeq(Named(catalog[def.ref_table], def.ref_column)),
     update |-> Rule(def.on_update), delete |-> Rule(def.on_delete)]

AddForeignKey(t, def) ==
    /\ catalog[t] # None
    /\ catalog[def.ref_table] # None
    /\ ~BadAction(def.on_update) /\ ~BadAction(def.on_delete)
    /\ Start(t, def.ref_table, AddKeySql(def),
             [catalog[t] EXCEPT !.keys = @ \cup {AskedKey(t, def)}])

(* drop_foreign_key.                                                        *)
DropForeignKey(t, name) ==
    /\ catalog[t] # None
    /\ Start(t, t, [op |-> "drop_key", name |-> name],
             [catalog[t] EXCEPT !.keys = {key \in @ : key.name # name}])

Recorded == past' = IF request.step \in {"idle", "answered", "error"} THEN past
                    ELSE Append(past, catalog')

RunStatement ==
    /\ edit.step = "running"
    /\ edit.todo # <<>>
    /\ catalog' \in Results(catalog, edit.table, Head(edit.todo))
    /\ edit' = [edit EXCEPT !.todo = Tail(@),
                            !.step = IF Len(edit.todo) = 1 THEN "done" ELSE "running"]
    /\ Recorded
    /\ UNCHANGED <<major, request, changes>>

(* The server refuses a statement, for whatever reason; the rest is not run. *)
StatementFails ==
    /\ edit.step = "running"
    /\ edit.todo # <<>>
    /\ edit' = [edit EXCEPT !.step = "failed", !.todo = <<>>]
    /\ UNCHANGED <<catalog, major, request, past, changes>>

(* What the editor offers at a step.                                        *)
Offered(step, definitions) == {def \in definitions : edit.step = step}

Editing ==
    \/ \E t \in Present(catalog) : \E i \in DOMAIN catalog[t].columns : OpenColumn(t, i)
    \/ \E new \in Offered("open", NewColumns) : AlterColumn(new)
    \/ \E t \in Tables, def \in Offered("idle", NewColumns) :
          CreateTable(t, <<def>>) \/ AddColumn(t, def)
    \/ \E t \in Tables, def \in Offered("idle", NewKeys) :
          AddForeignKey(t, def) \/ DropForeignKey(t, def.name)
    \/ RunStatement
    \/ StatementFails

----------------------------------------------------------------------------
(* Other clients.                                                           *)

OtherClient ==
    /\ changes < MaxChanges
    /\ \E t \in Tables, shape \in Shapes \cup {None} :
          /\ shape # catalog[t]
          /\ catalog' = [catalog EXCEPT ![t] = shape]
          /\ WellFormed(catalog')
          /\ edit' = [edit EXCEPT !.disturbed = @ \/ t \in edit.reads]
    /\ Recorded
    /\ changes' = changes + 1
    /\ UNCHANGED <<major, request>>

----------------------------------------------------------------------------
Init ==
    /\ catalog \in FirstTables
    /\ major \in Majors
    /\ request = NoRequest
    /\ past = <<>>
    /\ edit = NoEdit
    /\ changes = 0

Next == Reading \/ Editing \/ OtherClient

Spec == Init /\ [][Next]_vars

----------------------------------------------------------------------------
(* What is true of a table, whatever the queries make of it.                *)

(* The characters or bytes a value can have: no bound is told where there is *)
(* none but that of every value, and a name of the server has 128.          *)
Capacity(type) ==
    CASE type.base \in ByteSized \cup WideSized /\ type.arg # <<Whole>> -> type.arg[1]
      [] type.base = "sysname" -> 128
      [] OTHER -> None

TrueColumn(col) ==
    [name |-> col.name, data_type |-> col.type, is_pk |-> col.pk, is_nullable |-> col.nullable,
     is_auto_increment |-> col.identity,
     default_value |-> IF col.default = None THEN None ELSE col.default.text,
     character_maximum_length |-> Capacity(col.type)]

TrueColumns(c, t) ==
    IF c[t] = None THEN <<>> ELSE [i \in DOMAIN c[t].columns |-> TrueColumn(c[t].columns[i])]

TruePairs(c, t, key) ==
    [i \in DOMAIN key.columns |->
        [name |-> key.name, column_name |-> c[t].columns[key.columns[i]].name,
         ref_table |-> key.ref, ref_column |-> c[key.ref].columns[key.refs[i]].name,
         on_update |-> key.update, on_delete |-> key.delete]]

(* No comma in the name of a column it joins.                               *)
Tidy(c, t, key) ==
    \A i \in DOMAIN key.columns :
        /\ Len(c[t].columns[key.columns[i]].name) = 1
        /\ Len(c[key.ref].columns[key.refs[i]].name) = 1

(* The pairs of a constraint stand together, and no other has its name.     *)
Together(pairs, name, block) ==
    \E o \in 0..Len(pairs) :
        /\ o + Len(block) <= Len(pairs)
        /\ \A i \in DOMAIN pairs :
              IF i \in (o + 1)..(o + Len(block)) THEN pairs[i] = block[i - o]
              ELSE pairs[i].name # name

TrueKeys(pairs, c, t) ==
    LET keys == IF c[t] = None THEN {} ELSE c[t].keys
    IN  /\ {pairs[i].name : i \in DOMAIN pairs} = {key.name : key \in keys}
        /\ \A key \in keys :
              Tidy(c, t, key) => Together(pairs, key.name, TruePairs(c, t, key))

----------------------------------------------------------------------------
(* Columns but for the lengths of the types whose size in sys.columns is not *)
(* that of their values, which the code reports all the same.               *)
Uncounted == Pointers \cup {"sysname"}
Counted(columns) ==
    [i \in DOMAIN columns |->
        IF columns[i].data_type.base \in Uncounted
        THEN [columns[i] EXCEPT !.character_maximum_length = None] ELSE columns[i]]

(* A snapshot is not one look at the catalog, and this is what is left of   *)
(* it: there were three moments during the request, in order, such that the *)
(* listed tables are those of the first, all columns those of the second    *)
(* and all foreign keys those of the third, each table with its own and     *)
(* with its pairs in the order of the constraint; a table nobody changed    *)
(* meanwhile is reported as it is.  The columns of a constraint are only    *)
(* told apart when no name has a comma, and the maximum length of a text,   *)
(* ntext, image or sysname column is left out of the comparison.  An AI     *)
(* context is a prefix of that and counts what it cut                       *)
(* (introspection.rs:716-732, ops.rs:786-799).                              *)
SnapshotTruthful ==
    /\ request.step = "answered" /\ request.kind = "columns" =>
        \E j \in DOMAIN past :
            /\ DOMAIN request.columns = Present(past[j])
            /\ \A t \in DOMAIN request.columns :
                  Counted(request.columns[t]) = Counted(TrueColumns(past[j], t))
    /\ request.step = "answered" /\ request.kind = "keys" =>
        \E k \in DOMAIN past : \A t \in Tables :
            TrueKeys(IF t \in DOMAIN request.keys THEN request.keys[t] ELSE <<>>, past[k], t)
    /\ request.step = "answered" /\ request.kind \in Snapshots =>
        \E i, j, k \in DOMAIN past :
            /\ i <= j /\ j <= k
            /\ {request.tables[n] : n \in DOMAIN request.tables} = Present(past[i])
            /\ request.total = Cardinality(Present(past[i]))
            /\ Len(request.entries) =
                  IF request.kind = "context" /\ ContextTables < request.total
                  THEN ContextTables ELSE request.total
            /\ \A n \in DOMAIN request.entries :
                  LET e == request.entries[n]
                  IN  /\ e.name = request.tables[n]
                      /\ Counted(e.columns) = Counted(TrueColumns(past[j], e.name))
                      /\ TrueKeys(e.foreign_keys, past[k], e.name)

(* A version the server told, in either form, selects a query the server    *)
(* understands; only a guess can be wrong, and then only for a server that  *)
(* is older than the guess (introspection.rs:630-711, version.rs:42-47).    *)
DialectUnderstood ==
    request.step = "keys" /\ (request.source # "default" \/ major >= DefaultMajor) =>
        Understood(major, SupportsStringAgg(request.version))

(* While nobody else changes the table, an edit changes nothing but the     *)
(* column it is about, statement after statement; each attribute of that    *)
(* column is the old one or the asked one, a default may be missing in      *)
(* between, and when every statement went through, the table is the one the *)
(* user asked for: what the editor did not change is declared again exactly *)
(* as it was (ddl/mod.rs:4-66, ops.rs:590-690).                             *)
EditsAsAsked ==
    edit.step \in {"running", "done", "failed"} /\ ~edit.disturbed =>
        LET now == catalog[edit.table]
        IN  /\ edit.step = "done" => now = edit.asked
            /\ now \notin {edit.seen, edit.asked} =>
                  /\ edit.column # 0
                  /\ now.keys = edit.seen.keys
                  /\ \A i \in DOMAIN edit.seen.columns \ {edit.column} :
                        now.columns[i] = edit.seen.columns[i]
                  /\ LET col == now.columns[edit.column]
                         was == edit.seen.columns[edit.column]
                         new == edit.asked.columns[edit.column]
                     IN  /\ <<col.type, col.nullable>> \in
                               {<<was.type, was.nullable>>, <<new.type, new.nullable>>}
                         /\ col.name \in {was.name, new.name}
                         /\ col.default \in {was.default, new.default, None}
=============================================================================
