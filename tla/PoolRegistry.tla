---------------------------- MODULE PoolRegistry ----------------------------
(***************************************************************************)
(* The connection-pool registry of src/src/pool_manager.rs, the checkout   *)
(* of src/src/driver/mod.rs (acquire) and the deadpool pool behind it:     *)
(* request handlers look a pool up by key and check a session out, while   *)
(* the cleanup task sweeps the registry, the shutdown RPC drains it and    *)
(* initialize changes the settings that the next pool will snapshot.       *)
(*                                                                         *)
(* A configuration stands for one set of resolved connection parameters.   *)
(* KeyOf is build_connection_key: configurations that differ in what the   *)
(* key leaves out (the password, the startup script, and under a           *)
(* connection id also the host and port) share a key.                      *)
(***************************************************************************)
EXTENDS Naturals, FiniteSets

CONSTANTS Workers,    \* request handlers, each with at most one session
          Configs,    \* resolved connection parameters
          Keys,       \* registry keys
          KeyOf,      \* KeyOf[c]: the key of configuration c
          Reachable,  \* configurations whose server accepts connections
          Sizes,      \* values the host may give max_pool_size
          Pools,      \* identities of pools, reused once nothing refers to one
          None        \* no pool, no configuration, no key

ASSUME PoolAssumption ==
    /\ IsFiniteSet(Workers)
    /\ KeyOf \in [Configs -> Keys]
    /\ Reachable \subseteq Configs
    /\ Sizes \subseteq Nat \ {0} /\ Sizes # {}
    /\ None \notin Configs \cup Keys \cup Pools

VARIABLES
    settings,   \* max_pool_size in force
    registry,   \* SQLSERVER_POOLS: key -> pool or None
    pool,       \* what each pool was built with, and its idle sessions
    phase,      \* phase[w]: where handler w is in acquire or after it
    req,        \* req[w]: the configuration w asked for
    at,         \* at[w]: the pool whose handle, or session, w has
    sweeping,   \* the cleanup task holds the registry's write lock
    unswept,    \* keys that retain has not visited yet
    doomed,     \* the key whose pool was found idle and is about to be closed
    drained,    \* pools taken out by shutdown and not closed yet
    spent       \* pools whose failed checkout was answered (history)

vars == <<settings, registry, pool, phase, req, at, sweeping, unswept, doomed, drained, spent>>

handlerVars == <<phase, req, at>>
sweepVars   == <<sweeping, unswept, doomed>>

Phases == {"idle", "got", "wait", "recycle", "create", "hold", "failed"}

PoolRecord == [cfg : Configs \cup {None}, max : Sizes \cup {0},
               idle : Nat, closed : BOOLEAN]

Blank == [cfg |-> None, max |-> 0, idle |-> 0, closed |-> FALSE]

Init ==
    /\ settings \in Sizes
    /\ registry = [k \in Keys |-> None]
    /\ pool = [p \in Pools |-> Blank]
    /\ phase = [w \in Workers |-> "idle"]
    /\ req = [w \in Workers |-> None]
    /\ at = [w \in Workers |-> None]
    /\ sweeping = FALSE
    /\ unswept = {}
    /\ doomed = None
    /\ drained = {}
    /\ spent = {}
-----------------------------------------------------------------------------
(* The deadpool pool: what it counts, and when it is dropped.              *)

At(p, ps) == {w \in Workers : at[w] = p /\ phase[w] \in ps}

\* Permits of the semaphore that are taken.
Busy(p) == Cardinality(At(p, {"recycle", "create", "hold"}))

\* Status::size: a session counts once its create returned.
Size(p) == pool[p].idle + Cardinality(At(p, {"recycle", "hold"}))

\* deadpool's users counter: getters that wait or work, and sessions held.
Users(p) == Cardinality(At(p, {"wait", "recycle", "create", "hold"}))

\* Status::available.
Available(p) == IF Users(p) < Size(p) THEN Size(p) - Users(p) ELSE 0

Registered(p) == \E k \in Keys : registry[k] = p

\* A strong handle to the pool is left.  A checked-out session has a weak one.
Alive(p) ==
    \/ Registered(p)
    \/ p \in drained
    \/ At(p, Phases \ {"idle", "hold"}) # {}

InUse(p) == Alive(p) \/ At(p, {"hold"}) # {}

\* Dropping the last handle drops the idle sessions with the pool.
Settle(f) ==
    [p \in Pools |-> IF Alive(p)' THEN f[p]
                     ELSE IF InUse(p)' THEN [f[p] EXCEPT !.idle = 0]
                     ELSE Blank]

\* Pool::close: resize(0) drops the idle sessions, the semaphore is closed.
Closed(f, p) == [f EXCEPT ![p].idle = 0, ![p].closed = TRUE]

Locked == sweeping
-----------------------------------------------------------------------------
(* A request handler.                                                      *)

\* get_sqlserver_pool: under the write lock, the registered pool or a new one
\* that snapshots the parameters and the settings.
Lookup(w, c) ==
    /\ phase[w] = "idle"
    /\ ~Locked
    /\ phase' = [phase EXCEPT ![w] = "got"]
    /\ req' = [req EXCEPT ![w] = c]
    /\ \/ /\ registry[KeyOf[c]] # None
          /\ at' = [at EXCEPT ![w] = registry[KeyOf[c]]]
          /\ UNCHANGED <<registry, pool, spent>>
       \/ /\ registry[KeyOf[c]] = None
          /\ \E p \in Pools :
               /\ ~InUse(p)
               /\ registry' = [registry EXCEPT ![KeyOf[c]] = p]
               /\ at' = [at EXCEPT ![w] = p]
               /\ pool' = [pool EXCEPT ![p] =
                     [cfg |-> c, max |-> settings, idle |-> 0, closed |-> FALSE]]
          /\ UNCHANGED spent
    /\ UNCHANGED <<settings, sweepVars, drained>>

\* pool.get() is entered: the handler is counted among the pool's users.
EnterGet(w) ==
    /\ phase[w] = "got"
    /\ phase' = [phase EXCEPT ![w] = "wait"]
    /\ UNCHANGED <<settings, registry, pool, req, at, sweepVars, drained, spent>>

\* An idle session is popped to be recycled; without one a new one is created.
TakeOrCreate(w) ==
    LET p == at[w]
    IN  IF pool[p].idle > 0
        THEN /\ phase' = [phase EXCEPT ![w] = "recycle"]
             /\ pool' = [pool EXCEPT ![p].idle = @ - 1]
        ELSE /\ phase' = [phase EXCEPT ![w] = "create"]
             /\ UNCHANGED pool

GetPermit(w) ==
    /\ phase[w] = "wait"
    /\ ~pool[at[w]].closed
    /\ Busy(at[w]) < pool[at[w]].max
    /\ TakeOrCreate(w)
    /\ UNCHANGED <<settings, registry, req, at, sweepVars, drained, spent>>

\* The semaphore is closed: PoolError::Closed.
GetClosed(w) ==
    /\ phase[w] = "wait"
    /\ pool[at[w]].closed
    /\ phase' = [phase EXCEPT ![w] = "failed"]
    /\ UNCHANGED <<settings, registry, pool, req, at, sweepVars, drained, spent>>

\* acquire returns the session and drops its handle to the pool.
CheckOut(w) ==
    /\ \/ phase[w] = "recycle"
       \/ phase[w] = "create" /\ pool[at[w]].cfg \in Reachable
    /\ phase' = [phase EXCEPT ![w] = "hold"]
    /\ UNCHANGED <<settings, registry, req, at, sweepVars, drained, spent>>
    /\ pool' = Settle(pool)

\* recycle refused the session: it is dropped and deadpool tries the next.
RecycleFails(w) ==
    /\ phase[w] = "recycle"
    /\ TakeOrCreate(w)
    /\ UNCHANGED <<settings, registry, req, at, sweepVars, drained, spent>>

\* The manager could not connect, in time or at all.
CreateFails(w) ==
    /\ phase[w] = "create"
    /\ phase' = [phase EXCEPT ![w] = "failed"]
    /\ UNCHANGED <<settings, registry, pool, req, at, sweepVars, drained, spent>>

\* remove_sqlserver_pool: whatever is registered under the key leaves the map.
RemovePool(c) == [registry EXCEPT ![KeyOf[c]] = None]

\* Mutant: the error is answered and the failed pool stays registered.
FailKeepingPool(w) ==
    /\ phase[w] = "failed"
    /\ phase' = [phase EXCEPT ![w] = "idle"]
    /\ req' = [req EXCEPT ![w] = None]
    /\ at' = [at EXCEPT ![w] = None]
    /\ UNCHANGED <<settings, registry, sweepVars, drained>>
    /\ pool' = Settle(pool)
    /\ spent' = {p \in spent \cup {at[w]} : InUse(p)'}

\* The error branch of acquire: the pool of the request's own parameters is
\* removed from the registry, and the request is answered.
FailRequest(w) ==
    /\ phase[w] = "failed"
    /\ ~Locked
    /\ registry' = RemovePool(req[w])
    /\ phase' = [phase EXCEPT ![w] = "idle"]
    /\ req' = [req EXCEPT ![w] = None]
    /\ at' = [at EXCEPT ![w] = None]
    /\ UNCHANGED <<settings, sweepVars, drained>>
    /\ pool' = Settle(pool)
    /\ spent' = {p \in spent \cup {at[w]} : InUse(p)'}

\* The handler drops the session.  A pool that is closed or gone drops it too,
\* any other takes it back, even one that recycle will refuse.
Return(w) ==
    /\ phase[w] = "hold"
    /\ phase' = [phase EXCEPT ![w] = "idle"]
    /\ req' = [req EXCEPT ![w] = None]
    /\ at' = [at EXCEPT ![w] = None]
    /\ UNCHANGED <<settings, registry, sweepVars, drained>>
    /\ LET p == at[w]
       IN  pool' = Settle(IF Alive(p) /\ ~pool[p].closed
                          THEN [pool EXCEPT ![p].idle = @ + 1]
                          ELSE pool)
    /\ spent' = {p \in spent : InUse(p)'}
-----------------------------------------------------------------------------
(* The cleanup task, which holds the write lock while retain runs.         *)

SweepStart ==
    /\ ~Locked
    /\ sweeping' = TRUE
    /\ unswept' = {k \in Keys : registry[k] # None}
    /\ UNCHANGED <<settings, registry, pool, handlerVars, doomed, drained, spent>>

\* Mutant: >= instead of >, so that no pool is ever evicted.
InspectKeepingAll(k) ==
    /\ sweeping /\ doomed = None
    /\ k \in unswept
    /\ unswept' = unswept \ {k}
    /\ doomed' = IF Size(registry[k]) >= Available(registry[k]) THEN None ELSE k
    /\ UNCHANGED <<settings, registry, pool, handlerVars, sweeping, drained, spent>>

\* Mutant: a pool with any session available counts as idle.
InspectAnyAvailable(k) ==
    /\ sweeping /\ doomed = None
    /\ k \in unswept
    /\ unswept' = unswept \ {k}
    /\ doomed' = IF Available(registry[k]) = 0 THEN None ELSE k
    /\ UNCHANGED <<settings, registry, pool, handlerVars, sweeping, drained, spent>>

\* retain reads the status of one pool; handlers go on using their handles.
SweepInspect(k) ==
    /\ sweeping /\ doomed = None
    /\ k \in unswept
    /\ unswept' = unswept \ {k}
    /\ doomed' = IF Size(registry[k]) > Available(registry[k]) THEN None ELSE k
    /\ UNCHANGED <<settings, registry, pool, handlerVars, sweeping, drained, spent>>

\* Mutant: the closed pool stays in the map.
CloseKeepingEntry ==
    /\ doomed # None
    /\ doomed' = None
    /\ UNCHANGED <<settings, registry, handlerVars, sweeping, unswept, drained>>
    /\ pool' = Settle(Closed(pool, registry[doomed]))
    /\ spent' = {p \in spent : InUse(p)'}

\* The pool that had no session checked out is closed and leaves the map.
SweepClose ==
    /\ doomed # None
    /\ registry' = [registry EXCEPT ![doomed] = None]
    /\ doomed' = None
    /\ UNCHANGED <<settings, handlerVars, sweeping, unswept, drained>>
    /\ pool' = Settle(Closed(pool, registry[doomed]))
    /\ spent' = {p \in spent : InUse(p)'}

\* Mutant: the write guard outlives the sweep.
EndKeepingLock ==
    /\ sweeping /\ unswept = {} /\ doomed = None
    /\ UNCHANGED vars

SweepEnd ==
    /\ sweeping /\ unswept = {} /\ doomed = None
    /\ sweeping' = FALSE
    /\ UNCHANGED <<settings, registry, pool, handlerVars, unswept, doomed, drained, spent>>
-----------------------------------------------------------------------------
(* The shutdown and initialize RPCs.                                       *)

ShutdownDrain ==
    /\ ~Locked
    /\ drained = {}
    /\ drained' = {registry[k] : k \in Keys} \ {None}
    /\ registry' = [k \in Keys |-> None]
    /\ UNCHANGED <<settings, pool, handlerVars, sweepVars, spent>>

\* The pools are closed one by one after the lock is released.  One shutdown
\* at a time: the host that sends it awaits its answer.
ShutdownClose(p) ==
    /\ p \in drained
    /\ drained' = drained \ {p}
    /\ UNCHANGED <<settings, registry, handlerVars, sweepVars>>
    /\ pool' = Settle(Closed(pool, p))
    /\ spent' = {q \in spent : InUse(q)'}

\* Mutant: the registered pools are resized in place.
InitializeResizing(n) ==
    /\ settings' = n
    /\ pool' = [p \in Pools |-> IF Registered(p) THEN [pool[p] EXCEPT !.max = n] ELSE pool[p]]
    /\ UNCHANGED <<registry, handlerVars, sweepVars, drained, spent>>

Initialize(n) ==
    /\ settings' = n
    /\ UNCHANGED <<registry, pool, handlerVars, sweepVars, drained, spent>>
-----------------------------------------------------------------------------
Handler(w) ==
    \/ \E c \in Configs : Lookup(w, c)
    \/ EnterGet(w)
    \/ GetPermit(w)
    \/ GetClosed(w)
    \/ CheckOut(w)
    \/ RecycleFails(w)
    \/ CreateFails(w)
    \/ FailRequest(w)
    \/ Return(w)

Sweep == SweepStart \/ (\E k \in Keys : SweepInspect(k)) \/ SweepClose \/ SweepEnd

Lifecycle ==
    \/ ShutdownDrain
    \/ \E p \in Pools : ShutdownClose(p)
    \/ \E n \in Sizes : Initialize(n)

Next == (\E w \in Workers : Handler(w)) \/ Sweep \/ Lifecycle

(***************************************************************************)
(* A handler in acquire is polled again.  The connect timeout ends the     *)
(* wait for a connection.  reset_session, which recycle awaits, has no     *)
(* timeout in this code: that a recycle ends says that the server answers  *)
(* it.  A handler gives its session back, which the query timeout ensures  *)
(* when it is not 0.  tokio's semaphore and RwLock serve waiters in order  *)
(* (strong fairness).  The cleanup timer fires again and again.  Nothing   *)
(* makes the host send a request.                                          *)
(***************************************************************************)
Fairness ==
    /\ \A w \in Workers :
         /\ WF_vars(EnterGet(w) \/ GetClosed(w))
         /\ SF_vars(GetPermit(w))
         /\ WF_vars(CheckOut(w) \/ CreateFails(w))
         /\ SF_vars(FailRequest(w))
         /\ WF_vars(Return(w))
    /\ WF_vars(Sweep)
    /\ WF_vars(\E p \in Pools : ShutdownClose(p))

Spec == Init /\ [][Next]_vars

FairSpec == Spec /\ Fairness
-----------------------------------------------------------------------------
(* Properties.                                                             *)

TypeOK ==
    /\ settings \in Sizes
    /\ registry \in [Keys -> Pools \cup {None}]
    /\ pool \in [Pools -> PoolRecord]
    /\ phase \in [Workers -> Phases]
    /\ req \in [Workers -> Configs \cup {None}]
    /\ at \in [Workers -> Pools \cup {None}]
    /\ sweeping \in BOOLEAN
    /\ unswept \subseteq Keys
    /\ doomed \in Keys \cup {None}
    /\ drained \subseteq Pools
    /\ spent \subseteq Pools

\* A pool never has more sessions, idle, in the making or checked out, than
\* the max_pool_size it was built with, whatever initialize does meanwhile.
WithinPoolSize ==
    \A p \in Pools : pool[p].idle + Busy(p) <= pool[p].max

\* Every lookup finds an open pool: what is closed by a sweep or by shutdown
\* has left the registry before the lock is released, and one pool is never
\* registered under two keys.
RegisteredPoolsOpen ==
    \A k \in Keys : registry[k] # None =>
        /\ ~pool[registry[k]].closed
        /\ registry[k] \notin drained
        /\ KeyOf[pool[registry[k]].cfg] = k

\* A pool whose manager could not connect does not pin its stale parameters:
\* once the failed request is answered, no later request finds that pool.
FailedPoolStaysOut ==
    \A k \in Keys : registry[k] \notin spent

\* A sweep condemns no pool that has a session checked out at that moment.
SweepSparesCheckedOut ==
    [][doomed' # doomed /\ doomed' # None => At(registry[doomed'], {"hold"}) = {}]_vars

\* A handler that waits for a session gets one or an error, even when the
\* pool is smaller than the number of handlers: no handler holds a session
\* while it waits for another.
WaitersServed ==
    \A w \in Workers : phase[w] = "wait" ~> phase[w] \in {"hold", "idle"}

\* The eviction task removes a pool that stays unused.
UnusedPoolsEvicted ==
    \A p \in Pools : Registered(p) ~> (~Registered(p) \/ Users(p) > 0)

=============================================================================
