------------------------------ MODULE MCRowEdits ------------------------------
(* Cells of RowEdits for TLC: around the largest number that is exact in the  *)
(* host, the largest bigint and the largest u64, and texts of every form.    *)
EXTENDS RowEdits

SomeCells ==
    "bigint"   :> {<<"bigint", 5>>}
 @@ "text"     :> {<<"text", <<"word", "w">>>>, <<"text", <<"blob", <<1, <<"b">>>>>>>>}
 @@ "binary"   :> {<<"binary", b>> : b \in {<<>>, <<"b", "c">>}}
 @@ "float"    :> {<<"float", 4>>, <<"float", 16>>}
 @@ "datetime" :> {<<"datetime", 2>>}

SomeDisplayed ==
    "bigint"   :> {<<"bigint", n>> : n \in (-I64Max - 1)..I64Max}
 @@ "bit"      :> {<<"bit", b>> : b \in BOOLEAN}
 @@ "float"    :> {<<"float", h>> : h \in {-40, -3, 3, 4, 16, 40}}
 @@ "decimal"  :> {<<"decimal", n>> : n \in {-1, 105}}
 @@ "text"     :> {<<"text", t>> : t \in {<<"word", "w">>, <<"integer", 4>>,
                                          <<"blob", <<1, <<"b">>>>>>}}
 @@ "binary"   :> {<<"binary", b>> : b \in {<<>>, <<"b">>, <<"b", "c">>}}
 @@ "datetime" :> {<<"datetime", t>> : t \in (0..300) \cup {25919999}}
=============================================================================
