----------------------------- MODULE MCCatalog -----------------------------
(* A parent with a composite key and a child of it, both in several shapes. *)
EXTENDS Catalog

Type(base, arg) == [base |-> base, arg |-> arg]

Id == [name |-> <<"id">>, type |-> Type("int", <<>>), nullable |-> FALSE, identity |-> TRUE,
       pk |-> TRUE, default |-> None]
Code == [name |-> <<"a">>, type |-> Type("nvarchar", <<2>>), nullable |-> FALSE,
         identity |-> FALSE, pk |-> FALSE,
         default |-> [by |-> "plugin", table |-> 2, column |-> <<"b">>, text |-> "((0))"]]
Comma == [Code EXCEPT !.name = <<"b", "c">>, !.type = Type("decimal", <<5, 2>>), !.default = None]
Price == [Comma EXCEPT !.name = <<"b">>]
Note == [Code EXCEPT !.name = <<"n">>, !.nullable = TRUE]
Body == [Note EXCEPT !.name = <<"x">>, !.type = Type("text", <<>>), !.default = None]
Markup == [Body EXCEPT !.name = <<"m">>, !.type = Type("xml", <<>>)]
Text == [Note EXCEPT !.name = <<"t">>, !.type = Type("varchar", <<Whole>>), !.default = None]

Key(name, columns, refs) ==
    [name |-> name, columns |-> columns, ref |-> 1, refs |-> refs,
     update |-> "CASCADE", delete |-> "NO ACTION"]
Table(columns, keys) == [columns |-> columns, keys |-> keys]

Parent == Table(<<Id, Price>>, {})
Child == Table(<<Code, Price>>, {Key(1, <<2, 1>>, <<1, 2>>), Key(2, <<2>>, <<1>>)})
Renamed == Table(<<Note, Comma, Text, Body, Markup>>, {Key(1, <<1, 2>>, <<2, 1>>)})

SomeShapes == {Parent, Renamed}
SomeCatalogs == {<<Parent, Child>>, <<Parent, None>>}

Definition(name, type, nullable, default) ==
    [name |-> name, data_type |-> type, is_nullable |-> nullable, is_pk |-> FALSE,
     is_auto_increment |-> FALSE, default_value |-> default]

Wide == Type("nvarchar", <<2>>)
Money == Type("decimal", <<5, 2>>)

SomeColumns ==
    {Definition(name, type, nullable, None) :
        name \in {<<"a">>, <<"b">>}, type \in {Wide, Money}, nullable \in BOOLEAN}
    \cup {Definition(name, Wide, FALSE, default) :
            name \in {<<"a">>, <<"b">>}, default \in {"0", "((0))"}}
    \cup {[Definition(<<"id">>, Type("int", <<>>), FALSE, None) EXCEPT
              !.is_pk = TRUE, !.is_auto_increment = TRUE],
          Definition(<<"z">>, Type("float", <<53>>), TRUE, Blank)}

Action(word, style) == [word |-> word, style |-> style]

SomeKeys ==
    {[name |-> 1, column |-> <<"b">>, ref_table |-> 1, ref_column |-> <<"id">>,
      on_update |-> Action("CASCADE", "small letters"), on_delete |-> rule] :
        rule \in {None, Action("SET NULL", "spaces around"), Action("SOMETIMES", "capitals")}}
=============================================================================
