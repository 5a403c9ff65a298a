------------------------------ MODULE CellValues ------------------------------
(***************************************************************************)
(* The way of a cell from the server to the host and back: extraction to   *)
(* JSON (src/src/driver/extract/, src/src/common.rs), the host's numbers,  *)
(* binding as a parameter (value_to_sql_param, decode_blob_wire) and the   *)
(* server's conversion to the type of a column.                            *)
(*                                                                         *)
(* A cell or a parameter is <<type, value>>.  A float is given in halves, a *)
(* decimal in units of its scale, a datetime in ticks of 1/300 second.  A  *)
(* JSON value is <<"null", ..>>, <<"bool", b>>, <<"number", halves>>,      *)
(* <<"string", text>>, <<"array", text>> or <<"raw", cell>>, the explicit  *)
(* raw-value object with an SQL expression for that cell (or Blank).  A    *)
(* text is what it says: <<"word", w>>, <<"integer", n>>, <<"decimal", n>>, *)
(* <<"time", milliseconds>> or <<"blob", <<declared size, bytes>>>>.       *)
(***************************************************************************)
EXTENDS Integers, Sequences

CONSTANTS JsMax,   \* 2^53 - 1
          I64Max,  \* 2^63 - 1
          U64Max,  \* 2^64 - 1
          Blank    \* an empty raw expression

ASSUME CellAssumption == JsMax \in Nat /\ I64Max \in Nat /\ U64Max \in Nat
                         /\ JsMax < I64Max /\ I64Max < U64Max

Null == <<"null", "null">>
-----------------------------------------------------------------------------
(* To the host.                                                            *)

\* Mutant: every integer is a JSON number.
I64Number(n) == <<"number", 2 * n>>

\* i64_to_json
I64ToJson(n) == IF n \in (-JsMax)..JsMax THEN <<"number", 2 * n>> ELSE <<"string", <<"integer", n>>>>

\* format_legacy_datetime: milliseconds of a tick count, as SQL Server
\* displays them
Milliseconds(ticks) == (ticks * 10 + 1) \div 3

\* binary_to_json, encode_blob_full without a limit
BlobWire(bytes) == <<"blob", <<Len(bytes), bytes>>>>

\* extract_value_as
Extract(cell) ==
    LET value == cell[2]
    IN  CASE cell[1] = "null"     -> Null
          [] cell[1] = "bit"      -> <<"bool", value>>
          [] cell[1] = "bigint"   -> I64ToJson(value)
          [] cell[1] = "float"    -> <<"number", value>>
          [] cell[1] = "decimal"  -> <<"string", <<"decimal", value>>>>
          [] cell[1] = "datetime" -> <<"string", <<"time", Milliseconds(value)>>>>
          [] cell[1] = "binary"   -> <<"string", BlobWire(value)>>
          [] cell[1] = "text"     -> <<"string", value>>

\* The host's numbers are doubles: above JsMax only even integers.
Double(halves) ==
    IF halves \in (-2 * JsMax - 1)..(2 * JsMax + 1) THEN halves ELSE 4 * ((halves + 1) \div 4)

\* A value that the host displayed, as it sends it back.
Host(json) == IF json[1] = "number" THEN <<"number", Double(json[2])>> ELSE json

\* What the host sends for a cell it displayed.
Shown(cell) == Host(Extract(cell))
-----------------------------------------------------------------------------
(* Back to the server.                                                     *)

Refused == <<"refused", "refused">>

\* decode_blob_wire of a string that starts with "BLOB:"
DecodeBlob(declared, bytes) == IF declared = Len(bytes) THEN <<"binary", bytes>> ELSE Refused

\* An integral number is printed by the host without a fraction and is read
\* as i64, u64 or f64, whichever holds it; u64 is refused.
BindNumber(halves) ==
    LET n == halves \div 2
    IN  IF halves % 2 = 1 THEN <<"float", halves>>
        ELSE IF n \in (-I64Max - 1)..I64Max THEN <<"bigint", n>>
        ELSE IF n \in 0..U64Max THEN Refused
        ELSE <<"float", halves>>

\* value_to_sql_param
Bind(json) ==
    LET value == json[2]
    IN  CASE json[1] = "null"   -> Null
          [] json[1] = "bool"   -> <<"bit", value>>
          [] json[1] = "number" -> BindNumber(value)
          [] json[1] = "string" -> IF value[1] = "blob" THEN DecodeBlob(value[2][1], value[2][2])
                                   ELSE <<"text", value>>
          [] json[1] \in {"array", "raw"} -> <<"text", <<"word", "json">>>>

\* raw_sql_expression: the value is an expression of the SQL text.
IsRaw(json) == json[1] \in {"null", "raw"}
Expression(json) ==
    IF json[1] = "null" THEN Null ELSE IF json[2] = Blank THEN Refused ELSE json[2]

ConversionError == <<"error", "conversion">>

\* How the server converts a parameter to the type of a column.
Convert(param, type) ==
    LET value == param[2]
        text == param[1] = "text"
    IN  CASE param[1] \in {type, "null"} -> param
          [] text /\ type = "bigint" /\ value[1] = "integer"   -> <<"bigint", value[2]>>
          [] text /\ type = "decimal" /\ value[1] = "decimal"  -> <<"decimal", value[2]>>
          [] text /\ type = "datetime" /\ value[1] = "time" ->
                <<"datetime", (value[2] * 3 + 5) \div 10>>
          [] param[1] = "bigint" /\ type = "float" -> <<"float", 2 * value>>
          [] param[1] = "binary" /\ type = "text"  -> <<"text", <<"word", "bytes">>>>
          [] OTHER -> ConversionError

\* c is a cell of a column of type t; floats are what a double can hold.
IsCell(t, c) ==
    /\ t \in {"bit", "bigint", "float", "decimal", "text", "binary", "datetime"}
    /\ c = <<t, c[2]>>
    /\ t = "bigint" => c[2] \in (-I64Max - 1)..I64Max
    /\ t = "float" => c[2] \in Int /\ Double(c[2]) = c[2]
    /\ t = "datetime" => c[2] \in Nat

\* A text that the plugin takes for its own BLOB notation.
LooksLikeBlob(cell) == cell[1] = "text" /\ cell[2][1] = "blob"

\* A cell of a column of type t that was shown comes back as what it was, or
\* is refused.
BindsBack(t, c) ==
    LooksLikeBlob(c) \/ Bind(Shown(c)) = Refused \/ Convert(Bind(Shown(c)), t) = c
=============================================================================
