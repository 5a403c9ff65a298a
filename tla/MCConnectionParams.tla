------------------------- MODULE MCConnectionParams -------------------------
(* Requests of ConnectionParams for TLC. *)
EXTENDS ConnectionParams

T(w) == Text(w, FALSE, FALSE)
Upper(w) == Text(w, TRUE, FALSE)
Padded(w) == Text(w, FALSE, TRUE)

Plain(k, v) == [key |-> k, value |-> v, port |-> None]
Server(v, p) == [key |-> "server", value |-> v, port |-> p]
UrlHost(v, p) == [key |-> "url host", value |-> v, port |-> p]

\* Every keyword, with values that agree and values that differ.
SomePairs ==
    {Plain("encrypt", v) : v \in {"disabled", "enabled", "strict", Bad}}
      \cup {Plain("trust", v) : v \in {TRUE, FALSE}}
      \cup {Plain("ssl_mode", v) : v \in {"require", "verify-full", "verify-ca"}}
      \cup {Server(T("h"), None), Server(Upper("h"), 1444), Server(Padded("h"), Bad),
            Server(T(""), None), UrlHost(T("h"), 1433), UrlHost(Padded(""), None), Plain("port", 1444), Plain("port", 1433)}
      \cup {Plain("username", T("u")), Plain("username", T(""))}
      \cup {Plain("password", t) : t \in {T("p"), Padded("p")}}
      \cup {Plain("database", t) : t \in {T("d"), Padded("d")}}
      \cup {Plain("integrated", v) : v \in BOOLEAN}
      \cup {Plain("ssl_ca", T("c")), Plain("authentication", T("SqlPassword")),
            Plain("client option", T("x")), Plain("unknown", T("x"))}

Nothing == [host |-> None, port |-> None, username |-> None, password |-> None,
            ssl_ca |-> None, database |-> T(""), ssl_mode |-> None,
            integrated |-> FALSE, extra |-> None, string |-> None]

Values(f) ==
    CASE f = "host" -> {T("h"), Upper("h"), T("g"), Padded("h")}
      [] f = "port" -> {1433, 1444}
      [] f = "username" -> {T("u"), T("")}
      [] f = "password" -> {T("p"), Padded("p"), Padded("")}
      [] f = "ssl_ca" -> {T("c"), T("")}
      [] f = "database" -> {T("d"), Padded("d"), T("e")}
      [] f = "ssl_mode" -> {"disable", "require", "verify-full", "verify-ca", Bad}
      [] f = "integrated" -> {TRUE}
      [] f = "extra" -> {TRUE, FALSE, Bad}

\* The objects of S, and those with one more field.
Extended(S) ==
    S \cup UNION {{[d EXCEPT ![f] = v] : v \in Values(f)} :
                      d \in S, f \in Fields \ {"string"}}

\* Without a connection string two fields are enough: no resolution relates
\* three of them.
SomeDiscrete == 0 :> {Nothing} @@ 1 :> Extended({Nothing})
                  @@ 2 :> Extended(Extended({Nothing})) @@ 3 :> Extended(Extended({Nothing}))
=============================================================================
