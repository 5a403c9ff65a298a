-------------------------- MODULE ConnectionParams --------------------------
(***************************************************************************)
(* The connection parameters of one request, from the JSON object the host *)
(* sends to the driver configuration of its pool: resolve_connection_params*)
(* of src/src/connection.rs, which conn_params, get_sqlserver_pool and     *)
(* build_config each call on what the previous one returned, and the       *)
(* mapping of the result onto the driver in src/src/driver/pool.rs.        *)
(*                                                                         *)
(* A connection string is the sequence of its keyword/value pairs, as the  *)
(* tokenizer or the URL parser yields them, braces, quotes and percent     *)
(* signs resolved; a URL's user, password, host, port and path come first. *)
(***************************************************************************)
EXTENDS Naturals, Sequences, SequencesExt

CONSTANTS Pairs,      \* keyword/value pairs of connection strings
          Discrete,   \* Discrete[k]: objects with at most k discrete fields given
          MaxGiven,   \* at most this many pairs and discrete fields together
          TrustAll,   \* the trust_server_certificate setting
          None,       \* a field that is not there
          Bad         \* a text that is no value of its keyword, and an error

\* The fields of ConnectionParams that matter here; ssl_cert and ssl_key are
\* treated as ssl_ca is.
Fields == {"host", "port", "username", "password", "database", "ssl_mode", "ssl_ca",
           "integrated", "extra", "string"}

\* A host is given by a keyword or stands in a URL.
HostKeys == {"server", "url host"}
TextFields == {"username", "password", "ssl_ca"}
SharedFields == TextFields \cup {"host", "port", "ssl_mode"}
ParsedFields == SharedFields \cup {"database", "encrypt", "trust", "integrated"}

\* A text: what is left of it when case and outer blanks are ignored ("" for
\* a blank one), whether its case differs, and whether it has outer blanks
\* that braces, percent encoding or the "tcp:" prefix keep from being trimmed.
Text(w, u, p) == [word |-> w, upper |-> u, padded |-> p]
Texts == [word : STRING, upper : BOOLEAN, padded : BOOLEAN]

\* What the driver is given for parameters that are not there.
DefaultHost == Text("localhost", FALSE, FALSE)
DefaultPort == 1433
DefaultUser == Text("sa", FALSE, FALSE)
NoText == Text("", FALSE, FALSE)
Logins == [username : Texts \cup {DefaultUser}, password : Texts \cup {NoText}]

Modes == {"disable", "prefer", "require", "verify-full", "verify-ca"}

\* The values of a keyword that sets a field.
KeywordValues(field) ==
    CASE field = "port" -> Nat
      [] field = "ssl_mode" -> Modes
      [] field = "encrypt" -> {"disabled", "enabled", "strict"}
      [] field \in {"trust", "integrated"} -> BOOLEAN
      [] OTHER -> Texts

\* What parsing yields, and the object of a request.
Parsed == [host : Texts \cup {None}, port : Nat \cup {None},
           username : Texts \cup {None}, password : Texts \cup {None},
           ssl_ca : Texts \cup {None}, database : Texts \cup {None},
           ssl_mode : Modes \cup {None}, trust : BOOLEAN \cup {None},
           encrypt : {"disabled", "enabled", "strict"} \cup {None},
           integrated : BOOLEAN \cup {None}]
Strings == [form : {"none", "keywords", "url", "foreign"}, pairs : Seq(Pairs)]
Objects == [host : Texts \cup {None}, port : Nat \cup {None},
            username : Texts \cup {None}, password : Texts \cup {None},
            ssl_ca : Texts \cup {None}, database : Texts,
            ssl_mode : Modes \cup {None, Bad}, integrated : BOOLEAN,
            extra : BOOLEAN \cup {None, Bad}, string : Strings \cup {None}]

\* Values are of the types of the source, and None and Bad are none of them.
ASSUME ParamsAssumption ==
    /\ MaxGiven \in Nat
    /\ \A k \in 0..MaxGiven : Discrete[k] \subseteq Objects
    /\ \A p \in Pairs :
          /\ p.key \in ParsedFields => p.value = Bad \/ p.value \in KeywordValues(p.key)
          /\ p.key \in HostKeys => /\ p.value = Bad \/ p.value \in Texts
                                   /\ p.port \in Nat \cup {None, Bad}
    /\ None # Bad
    /\ {None, Bad} \cap (Modes \cup {"disabled", "enabled", "strict"}) = {}
    /\ \A x \in {None, Bad} : /\ x \notin Nat /\ x \notin BOOLEAN /\ x \notin Texts
                             /\ x \notin Logins
    /\ Bad \notin Parsed /\ Bad \notin Objects

VARIABLES
    request,   \* what the host sent
    params,    \* what the last resolution returned
    stage,     \* how far the request has come
    config     \* the driver configuration, once it is built

vars == <<request, params, stage, config>>
-----------------------------------------------------------------------------
(* Values.                                                                 *)

Trim(t) == [t EXCEPT !.padded = FALSE]
Blank(t) == t.word = ""
NonEmpty(o) == IF o = None \/ Blank(o) THEN None ELSE o

\* Host names are compared without regard to case.
Same(a, b, field) ==
    IF field = "host" THEN [a EXCEPT !.upper = FALSE] = [b EXCEPT !.upper = FALSE] ELSE a = b

-----------------------------------------------------------------------------
(* Parsing a connection string.                                            *)

Unset == [f \in ParsedFields |-> None]

\* A keyword's host may not be blank; that of a URL may, when its blanks are
\* percent-encoded.
Hostless(pair) == IF pair.key = "server" THEN Blank(pair.value) ELSE pair.value = NoText

\* The fields a keyword sets, or Bad.  A malformed value is Bad already;
\* "Server=host,port" and "host:port" set two fields.
Assigns(pair) ==
    IF pair.value = Bad THEN Bad
    ELSE CASE pair.key \in HostKeys ->
                IF Hostless(pair) \/ pair.port = Bad THEN Bad
                ELSE {<<"host", pair.value>>}
                       \cup (IF pair.port = None THEN {} ELSE {<<"port", pair.port>>})
           [] pair.key \in {"authentication", "client option"} -> {}
           [] pair.key \in ParsedFields -> {<<pair.key, pair.value>>}
           [] OTHER -> Bad

\* Mutant: a repeated keyword overrides the earlier one.
AddOverriding(parsed, new) ==
    IF parsed = Bad \/ new = Bad THEN Bad
    ELSE [f \in ParsedFields |->
            IF \E a \in new : a[1] = f THEN (CHOOSE a \in new : a[1] = f)[2] ELSE parsed[f]]

\* set_string, set_sensitive_string and set_value: a field keeps its value,
\* and another value for it is an error.
Add(parsed, new) ==
    IF parsed = Bad \/ new = Bad THEN Bad
    ELSE IF \E a \in new : parsed[a[1]] \notin {None, a[2]} THEN Bad
    ELSE [f \in ParsedFields |->
            IF \E a \in new : a[1] = f THEN (CHOOSE a \in new : a[1] = f)[2] ELSE parsed[f]]

ApplyKeyword(parsed, pair) == Add(parsed, Assigns(pair))

\* Mutant: Encrypt=true on its own only asks for encryption.
TlsLax(encrypt, trust) ==
    CASE encrypt = "disabled" -> "disable"
      [] encrypt = "enabled"  -> "require"
      [] encrypt = "strict"   -> IF trust = TRUE THEN Bad ELSE "verify-full"
      [] OTHER -> IF trust = None THEN None ELSE IF trust THEN "prefer" ELSE "verify-full"

\* The mode that Encrypt and TrustServerCertificate ask for together.
TlsFromKeywords(encrypt, trust) ==
    CASE encrypt = "disabled" -> "disable"
      [] encrypt = "enabled"  -> IF trust = TRUE THEN "require" ELSE "verify-full"
      [] encrypt = "strict"   -> IF trust = TRUE THEN Bad ELSE "verify-full"
      [] OTHER -> IF trust = None THEN None ELSE IF trust THEN "prefer" ELSE "verify-full"

FinishTls(parsed) ==
    IF parsed = Bad THEN Bad
    ELSE LET mode == TlsFromKeywords(parsed["encrypt"], parsed["trust"])
         IN  IF mode = None THEN parsed
             ELSE Add(parsed, IF mode = Bad THEN Bad ELSE {<<"ssl_mode", mode>>})

\* A URL of another scheme, and a string without pairs, are errors.
Parse(string) ==
    IF string.form = "foreign" \/ (string.form = "keywords" /\ string.pairs = <<>>)
    THEN Bad ELSE FinishTls(FoldLeft(ApplyKeyword, Unset, string.pairs))
-----------------------------------------------------------------------------
(* Reconciling it with the discrete fields.                                *)

\* Mutant: the discrete field wins.
ReconcileSilently(discrete, given, field) ==
    IF given = None \/ NonEmpty(discrete) # None THEN NonEmpty(discrete) ELSE given

\* reconcile_string: compared after trimming the discrete value only.
ReconcileText(discrete, given, field) ==
    IF given = None THEN NonEmpty(discrete)
    ELSE IF NonEmpty(discrete) # None /\ ~Same(Trim(discrete), given, field) THEN Bad
    ELSE given

\* Mutant: a value may not be repeated.
ReconcileOnce(discrete, given) ==
    IF given = None THEN discrete ELSE IF discrete # None THEN Bad ELSE given

\* reconcile_value, and reconcile_string on normalized modes
ReconcileValue(discrete, given) ==
    IF given = None THEN discrete
    ELSE IF discrete \notin {None, given} THEN Bad ELSE given

\* The database's discrete value is a text that may be blank.
ReconcileDatabase(discrete, given) ==
    IF given = None THEN discrete
    ELSE IF ~Blank(discrete) /\ Trim(discrete) # given THEN Bad ELSE given

ReconcileFlag(discrete, given) ==
    IF given = None THEN discrete ELSE IF discrete /\ ~given THEN Bad ELSE given

Merge(d, parsed) ==
    [d EXCEPT !.host       = ReconcileText(@, parsed["host"], "host"),
              !.username   = ReconcileText(@, parsed["username"], "username"),
              !.password   = ReconcileText(@, parsed["password"], "password"),
              !.ssl_ca     = ReconcileText(@, parsed["ssl_ca"], "ssl_ca"),
              !.port       = ReconcileValue(@, parsed["port"]),
              !.ssl_mode   = ReconcileValue(@, parsed["ssl_mode"]),
              !.database   = ReconcileDatabase(@, parsed["database"]),
              !.integrated = ReconcileFlag(@, parsed["integrated"])]

\* Integrated authentication excludes a username and a password.
Alone(d) ==
    IF /\ d.integrated
       /\ NonEmpty(d.username) # None \/ NonEmpty(d.password) # None
    THEN Bad ELSE d

Checked(d) ==
    IF \E f \in SharedFields \cup {"database", "integrated"} : d[f] = Bad
    THEN Bad ELSE Alone(d)

\* resolve_connection_params
Resolve(r) ==
    LET d == IF r.extra = TRUE THEN [r EXCEPT !.integrated = TRUE] ELSE r
        parsed == Parse(r.string)
    IN  IF r.ssl_mode = Bad \/ r.extra = Bad THEN Bad
        ELSE IF r.string.form = "none" THEN Alone(d)
        ELSE IF parsed = Bad THEN Bad ELSE Checked(Merge(d, parsed))
-----------------------------------------------------------------------------
(* The three resolutions of a request.                                     *)

\* With form "none" there is no connection string, or a blank one; the text
\* of one that is "foreign" has another URL scheme.  A URL has one host.
Init ==
    /\ \E n \in 0..MaxGiven, form \in {"none", "keywords", "url", "foreign"} :
          \E d \in Discrete[MaxGiven - n], p \in [1..n -> Pairs] :
              /\ form \in {"none", "foreign"} => n = 0
              /\ form = "url" <=> \E i \in 1..n : p[i].key = "url host"
              /\ \A i, j \in {k \in 1..n : p[k].key = "url host"} : i = j
              /\ request = [d EXCEPT !.string = [form |-> form, pairs |-> p]]
    /\ params = request
    /\ stage = "sent"
    /\ config = None

\* A resolution that ends in stage next, or refuses the request.
Resolved(from, next) ==
    /\ stage = from
    /\ IF Resolve(params) = Bad
       THEN stage' = "refused" /\ UNCHANGED params
       ELSE stage' = next /\ params' = Resolve(params)

\* conn_params, at the entry of every handler that uses the database
ConnParams ==
    /\ Resolved("sent", "received")
    /\ UNCHANGED <<request, config>>

\* get_sqlserver_pool: the parameters that make the pool's key
GetPool ==
    /\ Resolved("received", "keyed")
    /\ UNCHANGED <<request, config>>

Else(o, default) == IF o = None THEN default ELSE o

\* The driver configuration of resolved parameters, or Bad.
ConfigOf(p) ==
    IF (p.ssl_ca # None /\ p.ssl_ca # NoText) \/ p.ssl_mode = "verify-ca"
    THEN Bad
    ELSE [host |-> Else(p.host, DefaultHost),
          port |-> Else(p.port, DefaultPort),
          database |-> p.database,
          auth |-> IF p.integrated THEN None
                   ELSE [username |-> Else(p.username, DefaultUser),
                         password |-> Else(p.password, NoText)],
          encryption |-> CASE p.ssl_mode = "disable" -> "off"
                           [] p.ssl_mode \in {"require", "verify-full"} -> "required"
                           [] OTHER -> "on",
          trust |-> TrustAll \/ p.ssl_mode \notin {"disable", "verify-full"}]

\* build_config, for the first request of a key
BuildConfig ==
    /\ stage = "keyed"
    /\ LET c == IF Resolve(params) = Bad THEN Bad ELSE ConfigOf(Resolve(params))
       IN  IF c = Bad THEN stage' = "refused" /\ UNCHANGED config
           ELSE stage' = "built" /\ config' = c
    /\ UNCHANGED <<request, params>>

Done == stage \in {"refused", "built"} /\ UNCHANGED vars

Next == ConnParams \/ GetPool \/ BuildConfig \/ Done

Spec == Init /\ [][Next]_vars
-----------------------------------------------------------------------------
(* Properties.                                                             *)

PairsOf(r) == Range(r.string.pairs)

\* Every value that some source of request r supplies for field f.
Asked(r, f) ==
    {p.value : p \in {q \in PairsOf(r) : q.key = f \/ (f = "host" /\ q.key \in HostKeys)}}
      \cup (IF f = "port" THEN {p.port : p \in {q \in PairsOf(r) : q.key \in HostKeys}} \ {None}
            ELSE {})
      \cup (IF f \in DOMAIN r THEN {r[f]} \ {None} ELSE {})

AskedText(r, f) == {Trim(t) : t \in {u \in Asked(r, f) : u \notin {None, Bad} /\ ~Blank(u)}}

\* README.md:140-145: nothing that a source supplied is dropped in favour of
\* another one.  A configuration that is built has the host, port, database,
\* user and password of every source that names one, and integrated
\* authentication only if none names a user or a password.
NothingChosenSilently ==
    stage = "built" =>
        /\ \A t \in AskedText(request, "host") : Same(t, Trim(config.host), "host")
        /\ Asked(request, "port") \subseteq {config.port}
        /\ AskedText(request, "database") \subseteq {Trim(config.database)}
        /\ \A f \in {"username", "password"} :
              AskedText(request, f) \subseteq
                  (IF config.auth = None THEN {} ELSE {Trim(config.auth[f])})
        /\ FALSE \in {p.value : p \in {q \in PairsOf(request) : q.key = "integrated"}}
              => config.auth # None

\* The TLS policy of the driver is no weaker than any source asked for: with
\* a source that asks for verification the certificate is verified, and a
\* session is unencrypted only if no source asks for encryption.
TlsAsAsked ==
    stage = "built" =>
        LET modes == Asked(request, "ssl_mode")
            encrypt == Asked(request, "encrypt")
            trust == Asked(request, "trust")
            on == encrypt \cap {"enabled", "strict"} # {}
        IN  /\ \/ "verify-full" \in modes
               \/ "strict" \in encrypt
               \/ on /\ TRUE \notin trust
               \/ FALSE \in trust /\ "disabled" \notin encrypt
               => config.encryption = "required" /\ (config.trust => TrustAll)
            /\ on \/ modes \cap (Modes \ {"disable"}) # {} => config.encryption # "off"

Reversed(r) == [r EXCEPT !.string.pairs = Reverse(@)]

\* The order of the keywords of a connection string decides nothing: the
\* string in the reverse order is accepted or refused alike, with the same
\* result.
OrderIrrelevant ==
    stage = "sent" =>
        LET a == Resolve(request)
            b == Resolve(Reversed(request))
        IN  IF a = Bad THEN b = Bad ELSE b # Bad /\ b = Reversed(a)

\* No value of the connection string has outer blanks after tokenizing.
Tidy(r) ==
    LET parsed == Parse(r.string)
    IN  r.string.form # "none" /\ parsed # Bad =>
            \A f \in TextFields \cup {"host", "database"} :
                parsed[f] # None => Trim(parsed[f]) = parsed[f]

\* connection.rs:36: what conn_params returned is canonical.  Resolving it
\* again, for the pool's key and for the driver, neither refuses nor changes
\* it, so the key and the configuration are of the same parameters.
Canonical == stage \in {"received", "keyed"} => Resolve(params) = params

\* The same, for connection strings whose values have no outer blanks.
CanonicalIfTidy == Tidy(request) => Canonical
=============================================================================
