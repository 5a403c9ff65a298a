------------------------------ MODULE Session ------------------------------
(***************************************************************************)
(* The life of pooled SQL Server sessions: BridgeConnection and            *)
(* BridgeManager (src/src/driver/pool.rs), the code that drives the client *)
(* underneath them (run_query_collecting in src/src/driver/mod.rs and      *)
(* execute_transaction_batch in src/src/driver/users.rs), and deadpool's   *)
(* return and recycle.                                                     *)
(*                                                                         *)
(* A request may run any sequence of calls on the session it holds, as     *)
(* execute_batch, explain_query (SET ... ON, the query, SET ... OFF) and   *)
(* insert_record do.  SQL is abstracted to what later requests could see   *)
(* of it: whether it changed the session's settings or temporary objects,  *)
(* and whether it left a transaction open.                                 *)
(***************************************************************************)
CONSTANTS Sessions,       \* slots of the pool
          QueryTimeout,   \* query_timeout_seconds is not 0
          Script,         \* the pool has a startup script
          ScriptBegins    \* that script may itself open a transaction

ASSUME SessionAssumption ==
    /\ QueryTimeout \in BOOLEAN
    /\ Script \in BOOLEAN
    /\ ScriptBegins \in BOOLEAN

VARIABLE sess    \* sess[s]: the session in slot s

vars == <<sess>>

Users == {"request", "script"}

\* where      not connected, idle in the pool, connected or reset and waiting
\*            for its startup script, or held by a request
\* step       what the request that holds it is in the middle of
\* recyclable BridgeConnection::recyclable
\* txn        who opened the transaction the client has active, if any
\* env        who changed the session since it was connected or reset
\* lost       the transport is gone
\* faulted    the paths on which a server error, a timeout or a transport
\*            failure occurred since it was connected (history)
SessionRecord ==
    [where : {"none", "idle", "fresh", "reset", "held"},
     step : {"ready", "raw", "batch"},
     recyclable : BOOLEAN,
     txn : {"none"} \cup Users,
     env : SUBSET Users,
     lost : BOOLEAN,
     faulted : SUBSET {"client", "raw"}]

Blank == [where |-> "none", step |-> "ready", recyclable |-> TRUE, txn |-> "none",
          env |-> {}, lost |-> FALSE, faulted |-> {}]

Init == sess = [s \in Sessions |-> Blank]

Become(s, c) == sess' = [sess EXCEPT ![s] = c]
-----------------------------------------------------------------------------
(* What SQL and errors do to a session.                                    *)

\* "other" is a conversion error of the driver that is not a timeout.
Faults == {"server", "transport", "other"} \cup (IF QueryTimeout THEN {"timeout"} ELSE {})

\* Mutant: server errors no longer listed.
DiscardTransportOnly(f) == f \in {"timeout", "transport"}

\* bridge_error_requires_discard
RequiresDiscard(f) == f \in {"server", "timeout", "transport"}

\* The sessions a batch sent by who may leave behind.
Ran(c, who) ==
    {[c EXCEPT !.env = e, !.txn = t] : e \in {c.env, c.env \cup {who}},
                                       t \in {c.txn, "none", who}}

\* The same when it ended in fault f on the given path.
Broke(c, who, f, path) ==
    {[d EXCEPT !.lost = @ \/ f = "transport",
               !.faulted = IF f = "other" THEN @ ELSE @ \cup {path}] : d \in Ran(c, who)}

\* discard_if_transaction_open
DiscardIfOpen(c) == [c EXCEPT !.recyclable = @ /\ c.txn = "none"]

\* format_result, on an error
FormatError(c, f) == [c EXCEPT !.recyclable = @ /\ ~RequiresDiscard(f) /\ c.txn = "none"]

Held(s, step) == sess[s].where = "held" /\ sess[s].step = step

\* Once the transport is gone every further call reports that.
FaultsOf(c) == IF c.lost THEN {"transport"} ELSE Faults
-----------------------------------------------------------------------------
(* A request that holds the session.                                       *)

\* simple_query, query or execute of BridgeConnection.
Call(s) ==
    /\ Held(s, "ready")
    /\ ~sess[s].lost
    /\ \E c \in Ran(sess[s], "request") : Become(s, DiscardIfOpen(c))

CallFails(s) ==
    /\ Held(s, "ready")
    /\ \E f \in FaultsOf(sess[s]) : \E c \in Broke(sess[s], "request", f, "client") :
         Become(s, FormatError(DiscardIfOpen(c), f))

\* run_query_collecting: close_query and execute succeed on the TDS client.
RawStart(s) ==
    /\ Held(s, "ready")
    /\ ~sess[s].lost
    /\ \E c \in Ran(sess[s], "request") : Become(s, [c EXCEPT !.step = "raw"])

\* The stream ended, or it was closed when the row ceiling was passed.
RawEnd(s) ==
    /\ Held(s, "raw")
    /\ ~sess[s].lost
    /\ Become(s, [sess[s] EXCEPT !.step = "ready"])

\* An error of close_query, execute, begin_transaction, next_row, advance or
\* of the extraction of a value is formatted and returned as it is.
RawFails(s) ==
    /\ Held(s, "ready") \/ Held(s, "raw")
    /\ \E f \in FaultsOf(sess[s]) : \E c \in Broke(sess[s], "request", f, "raw") :
         Become(s, [c EXCEPT !.step = "ready"])

\* execute_transaction_batch: begin_transaction succeeded.  Its statements are
\* account and permission DDL, which is no state of the session.
BatchBegin(s) ==
    /\ Held(s, "ready")
    /\ ~sess[s].lost
    /\ Become(s, [sess[s] EXCEPT !.step = "batch", !.txn = "request"])

BatchCommit(s) ==
    /\ Held(s, "batch")
    /\ ~sess[s].lost
    /\ Become(s, [sess[s] EXCEPT !.step = "ready", !.txn = "none"])

\* A statement or the commit failed; a rollback is tried after a statement and
\* may fail too, so that the transaction is over or still active.
BatchFails(s) ==
    /\ Held(s, "batch")
    /\ \E f \in FaultsOf(sess[s]), t \in {"none", sess[s].txn} :
         \E c \in Broke(sess[s], "request", f, "raw") :
           Become(s, [c EXCEPT !.step = "ready", !.env = sess[s].env,
                               !.txn = IF c.lost THEN sess[s].txn ELSE t])

\* The request is over.  A pool that was closed drops the session.
Return(s) ==
    /\ Held(s, "ready")
    /\ \E c \in {Blank, [sess[s] EXCEPT !.where = "idle"]} : Become(s, c)
-----------------------------------------------------------------------------
(* The pool.                                                               *)

\* BridgeManager::create connected; its failures leave the slot empty.
Connect(s) ==
    /\ sess[s].where = "none"
    /\ Become(s, [Blank EXCEPT !.where = "fresh"])

\* Mutant: only the flag is checked, not the transaction.
FlagOnly(c) == c.recyclable

\* The first check of recycle.
MayRecycle(c) == c.recyclable /\ c.txn = "none"

\* Refused by recycle, or its reset failed, or the pool was evicted.
Discard(s) ==
    /\ sess[s].where = "idle"
    /\ Become(s, Blank)

\* reset_session: sp_reset_connection forgets settings and temporary objects.
Reset(s) ==
    /\ sess[s].where = "idle"
    /\ MayRecycle(sess[s])
    /\ ~sess[s].lost
    /\ Become(s, [sess[s] EXCEPT !.where = "reset", !.env = {}])

\* Mutant: the startup script runs on new sessions only.
ScriptOnConnect(s) ==
    /\ sess[s].where \in {"fresh", "reset"}
    /\ \E t \in {"none"} \cup (IF Script /\ ScriptBegins THEN {"script"} ELSE {}) :
         Become(s, [sess[s] EXCEPT !.where = "held", !.txn = t,
             !.env = IF Script /\ sess[s].where = "fresh" THEN {"script"} ELSE {}])

\* apply_startup_script, which runs the script without looking at what
\* transaction it leaves; the session goes to a request.
ApplyScript(s) ==
    /\ sess[s].where \in {"fresh", "reset"}
    /\ \E t \in {sess[s].txn} \cup (IF Script /\ ScriptBegins THEN {"script"} ELSE {}) :
         Become(s, [sess[s] EXCEPT !.where = "held", !.txn = t,
             !.env = IF Script THEN @ \cup {"script"} ELSE @])

\* A script that fails costs the session, on create as on recycle.
ScriptFails(s) ==
    /\ Script
    /\ sess[s].where \in {"fresh", "reset"}
    /\ Become(s, Blank)
-----------------------------------------------------------------------------
Request(s) ==
    \/ Call(s)
    \/ CallFails(s)
    \/ RawStart(s)
    \/ RawEnd(s)
    \/ RawFails(s)
    \/ BatchBegin(s)
    \/ BatchCommit(s)
    \/ BatchFails(s)
    \/ Return(s)

Manager(s) ==
    \/ Connect(s)
    \/ Discard(s)
    \/ Reset(s)
    \/ ApplyScript(s)
    \/ ScriptFails(s)

Next == \E s \in Sessions : Request(s) \/ Manager(s)

Spec == Init /\ [][Next]_vars
-----------------------------------------------------------------------------
(* Properties.                                                             *)

\* Types, and that a session is in the pool only between two calls, with no
\* batch or result stream of a request half done.
TypeOK ==
    /\ sess \in [Sessions -> SessionRecord]
    /\ \A s \in Sessions : sess[s].where # "held" => sess[s].step = "ready"

HandedOut(s) == sess[s].where # "held" /\ sess'[s].where = "held"

\* A request sees nothing of the requests before it: the session it gets was
\* shaped by the startup script alone, applied since the last reset, and has
\* no transaction that an earlier request opened, whichever path that request
\* took and however it failed.
CleanHandout ==
    [][\A s \in Sessions : HandedOut(s) =>
          /\ sess'[s].env = IF Script THEN {"script"} ELSE {}
          /\ sess'[s].txn # "request"]_vars

\* A session on which a call of BridgeConnection met a server error, a timeout
\* or a lost transport serves no other request, whatever succeeded on it later.
ClientFaultsDiscarded ==
    [][\A s \in Sessions : HandedOut(s) => "client" \notin sess'[s].faulted]_vars

\* "Such a connection must be discarded instead of reset and reused"
\* (bridge_error_requires_discard): the same on every path.
FaultsDiscarded ==
    [][\A s \in Sessions : HandedOut(s) => sess'[s].faulted = {}]_vars

=============================================================================
