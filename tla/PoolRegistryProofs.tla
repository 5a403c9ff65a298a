------------------------- MODULE PoolRegistryProofs -------------------------
(***************************************************************************)
(* Proofs about PoolRegistry, for any number of handlers, connections,     *)
(* pools and settings.                                                     *)
(***************************************************************************)
EXTENDS PoolRegistry, FiniteSetTheorems, TLAPS

\* A handler past its lookup has a pool that was built for the key it asked for.
Handles ==
    \A w \in Workers : phase[w] # "idle" =>
        /\ at[w] \in Pools
        /\ req[w] \in Configs
        /\ pool[at[w]].cfg \in Configs
        /\ KeyOf[pool[at[w]].cfg] = KeyOf[req[w]]

\* The registered pools: open, not being drained, each under its own key.
Registry ==
    \A k \in Keys : registry[k] # None =>
        /\ pool[registry[k]].cfg \in Configs
        /\ KeyOf[pool[registry[k]].cfg] = k
        /\ ~pool[registry[k]].closed
        /\ registry[k] \notin drained

\* What the sweep still has to do is registered: nobody else has the lock.
Sweeping ==
    /\ ~sweeping => unswept = {} /\ doomed = None
    /\ \A k \in unswept : registry[k] # None /\ k # doomed
    /\ doomed # None => registry[doomed] # None

\* A pool whose failed checkout was answered is out, and its identity is not
\* taken again while a handler still refers to it.
Spent ==
    /\ FailedPoolStaysOut
    /\ \A p \in spent : InUse(p)

Inv == TypeOK /\ Handles /\ Registry /\ Sweeping /\ Spent

LEMMA InitInv == Init => Inv
<1>. SUFFICES ASSUME Init PROVE Inv
  OBVIOUS
<1>1. TypeOK
  BY PoolAssumption DEF Init, TypeOK, PoolRecord, Blank, Phases
<1>2. Handles /\ Registry /\ Sweeping /\ Spent
  BY DEF Init, Handles, Registry, Sweeping, Spent, FailedPoolStaysOut
<1>. QED
  BY <1>1, <1>2 DEF Inv

USE DEF Phases, handlerVars, sweepVars, Locked

\* What dropping the last handle does to a table f of pools: a pool that is
\* still referred to keeps all that a session needs of it.
LEMMA SettleEffect ==
    ASSUME NEW f \in [Pools -> PoolRecord]
    PROVE  /\ Settle(f) \in [Pools -> PoolRecord]
           /\ \A p \in Pools :
                /\ Alive(p)' => Settle(f)[p] = f[p]
                /\ InUse(p)' => /\ Settle(f)[p].cfg = f[p].cfg
                                /\ Settle(f)[p].max = f[p].max
                /\ InUse(p)' => Settle(f)[p].idle <= f[p].idle
                /\ ~InUse(p)' => Settle(f)[p] = Blank
<1>1. ASSUME NEW p \in Pools
      PROVE  LET r == [f[p] EXCEPT !.idle = 0]
             IN  r \in PoolRecord /\ r.cfg = f[p].cfg /\ r.max = f[p].max /\ r.idle = 0
  BY DEF PoolRecord
<1>2. Blank \in PoolRecord
  BY DEF Blank, PoolRecord
<1>3. \A p \in Pools : Alive(p)' => InUse(p)'
  BY DEF InUse
<1>4. \A p \in Pools : f[p].idle \in Nat
  BY DEF PoolRecord
<1>. DEFINE g(p) == IF Alive(p)' THEN f[p]
                    ELSE IF InUse(p)' THEN [f[p] EXCEPT !.idle = 0] ELSE Blank
<1>5. Settle(f) = [p \in Pools |-> g(p)]
  BY DEF Settle
<1>6. ASSUME NEW p \in Pools
      PROVE  /\ g(p) \in PoolRecord
             /\ Alive(p)' => g(p) = f[p]
             /\ InUse(p)' => g(p).cfg = f[p].cfg /\ g(p).max = f[p].max
             /\ InUse(p)' => g(p).idle <= f[p].idle
             /\ ~InUse(p)' => g(p) = Blank
  BY <1>1, <1>2, <1>3, <1>4
<1>. HIDE DEF g
<1>. QED
  BY <1>5, <1>6

LEMMA ClosedEffect ==
    ASSUME NEW f \in [Pools -> PoolRecord], NEW p \in Pools
    PROVE  /\ Closed(f, p) \in [Pools -> PoolRecord]
           /\ \A q \in Pools : /\ q # p => Closed(f, p)[q] = f[q]
                               /\ Closed(f, p)[q].cfg = f[q].cfg
                               /\ Closed(f, p)[q].max = f[q].max
                               /\ Closed(f, p)[q].idle <= f[q].idle
<1>. DEFINE r == [[f[p] EXCEPT !.idle = 0] EXCEPT !.closed = TRUE]
<1>1. /\ f[p] \in PoolRecord
      /\ \A q \in Pools : f[q].idle \in Nat
  BY DEF PoolRecord
<1>2. r \in PoolRecord /\ r.cfg = f[p].cfg /\ r.max = f[p].max /\ r.idle = 0
  BY <1>1 DEF PoolRecord
<1>3. Closed(f, p) = [f EXCEPT ![p] = r]
  BY DEF Closed
<1>. HIDE DEF r
<1>. QED
  BY <1>1, <1>2, <1>3

\* A pool from which a session is taken, or in which one is made.
LEMMA TakeOrCreateEffect ==
    ASSUME TypeOK, NEW w \in Workers, at[w] \in Pools, TakeOrCreate(w)
    PROVE  /\ pool' \in [Pools -> PoolRecord]
           /\ \A p \in Pools : /\ pool'[p].cfg = pool[p].cfg
                               /\ pool'[p].max = pool[p].max
                               /\ pool'[p].closed = pool[p].closed
                               /\ p # at[w] => pool'[p] = pool[p]
           /\ \/ /\ pool[at[w]].idle > 0
                 /\ pool'[at[w]].idle = pool[at[w]].idle - 1
                 /\ phase' = [phase EXCEPT ![w] = "recycle"]
              \/ /\ pool[at[w]].idle = 0
                 /\ pool' = pool
                 /\ phase' = [phase EXCEPT ![w] = "create"]
           /\ phase' \in [Workers -> Phases]
           /\ phase'[w] \in {"recycle", "create"}
           /\ \A v \in Workers \ {w} : phase'[v] = phase[v]
<1>1. pool \in [Pools -> PoolRecord] /\ pool[at[w]].idle \in Nat
  BY DEF TypeOK, PoolRecord
<1>0. \A x \in {"recycle", "create"} : phase' = [phase EXCEPT ![w] = x] =>
        /\ phase' \in [Workers -> Phases]
        /\ phase'[w] = x /\ \A v \in Workers \ {w} : phase'[v] = phase[v]
  BY DEF TypeOK
<1>2. CASE pool[at[w]].idle > 0
  <2>. DEFINE r == [pool[at[w]] EXCEPT !.idle = @ - 1]
  <2>1. /\ r \in PoolRecord
        /\ r.cfg = pool[at[w]].cfg /\ r.max = pool[at[w]].max
        /\ r.closed = pool[at[w]].closed /\ r.idle = pool[at[w]].idle - 1
    BY <1>1, <1>2 DEF PoolRecord
  <2>2. pool' = [pool EXCEPT ![at[w]] = r] /\ phase' = [phase EXCEPT ![w] = "recycle"]
    BY <1>2 DEF TakeOrCreate
  <2>. HIDE DEF r
  <2>. QED
    BY <1>0, <1>1, <1>2, <2>1, <2>2
<1>3. CASE ~(pool[at[w]].idle > 0)
  BY <1>0, <1>1, <1>3 DEF TakeOrCreate
<1>. QED
  BY <1>2, <1>3

\* After a step, what handlers and the registry refer to is in use.
LEMMA ReferredInUse ==
    ASSUME TypeOK', NEW p \in Pools
    PROVE  /\ \A w \in Workers : phase'[w] # "idle" /\ at'[w] = p => InUse(p)'
           /\ \A k \in Keys : registry'[k] = p => Alive(p)' /\ InUse(p)'
<1>1. ASSUME NEW w \in Workers, phase'[w] # "idle", at'[w] = p
      PROVE  InUse(p)'
  BY <1>1 DEF TypeOK, InUse, Alive, At
<1>2. ASSUME NEW k \in Keys, registry'[k] = p
      PROVE  Alive(p)' /\ InUse(p)'
  BY <1>2 DEF InUse, Alive, Registered
<1>. QED
  BY <1>1, <1>2

LEMMA LookupInv ==
    ASSUME Inv, NEW w \in Workers, NEW c \in Configs, Lookup(w, c)
    PROVE  Inv'
<1>r. [cfg |-> c, max |-> settings, idle |-> 0, closed |-> FALSE] \in PoolRecord
  BY DEF Inv, TypeOK, PoolRecord
<1>a. pool' \in [Pools -> PoolRecord]
  BY <1>r DEF Inv, TypeOK, Lookup
<1>b. registry' \in [Keys -> Pools \cup {None}] /\ at' \in [Workers -> Pools \cup {None}]
  BY PoolAssumption DEF Inv, TypeOK, Lookup
<1>c. phase' \in [Workers -> Phases] /\ req' \in [Workers -> Configs \cup {None}]
  BY DEF Inv, TypeOK, Lookup
<1>1. TypeOK'
  BY PoolAssumption, <1>a, <1>b, <1>c DEF Inv, TypeOK, Lookup
<1>2. Handles'
  BY PoolAssumption DEF Inv, TypeOK, Lookup, Handles, Registry, InUse, Alive, Registered, At
<1>3. Registry'
  BY PoolAssumption DEF Inv, TypeOK, Lookup, Registry, InUse, Alive, Registered, At
<1>4. Sweeping'
  BY PoolAssumption DEF Inv, TypeOK, Lookup, Sweeping
<1>5. Spent'
  BY PoolAssumption DEF Inv, TypeOK, Lookup, Spent, FailedPoolStaysOut, InUse, Alive, Registered, At
<1>. QED
  BY <1>1, <1>2, <1>3, <1>4, <1>5 DEF Inv

LEMMA EnterGetInv ==
    ASSUME Inv, NEW w \in Workers, EnterGet(w)
    PROVE  Inv'
<1>1. TypeOK'
  BY PoolAssumption DEF Inv, TypeOK, EnterGet
<1>2. Handles'
  BY PoolAssumption DEF Inv, TypeOK, EnterGet, Handles
<1>3. Registry'
  BY PoolAssumption DEF Inv, TypeOK, EnterGet, Registry
<1>4. Sweeping'
  BY PoolAssumption DEF Inv, TypeOK, EnterGet, Sweeping
<1>5. Spent'
  BY PoolAssumption DEF Inv, TypeOK, EnterGet, Spent, FailedPoolStaysOut, InUse, Alive, Registered, At
<1>. QED
  BY <1>1, <1>2, <1>3, <1>4, <1>5 DEF Inv

LEMMA GetClosedInv ==
    ASSUME Inv, NEW w \in Workers, GetClosed(w)
    PROVE  Inv'
<1>1. TypeOK'
  BY PoolAssumption DEF Inv, TypeOK, GetClosed
<1>2. Handles'
  BY PoolAssumption DEF Inv, TypeOK, GetClosed, Handles
<1>3. Registry'
  BY PoolAssumption DEF Inv, TypeOK, GetClosed, Registry
<1>4. Sweeping'
  BY PoolAssumption DEF Inv, TypeOK, GetClosed, Sweeping
<1>5. Spent'
  BY PoolAssumption DEF Inv, TypeOK, GetClosed, Spent, FailedPoolStaysOut, InUse, Alive, Registered, At
<1>. QED
  BY <1>1, <1>2, <1>3, <1>4, <1>5 DEF Inv

LEMMA CreateFailsInv ==
    ASSUME Inv, NEW w \in Workers, CreateFails(w)
    PROVE  Inv'
<1>1. TypeOK'
  BY PoolAssumption DEF Inv, TypeOK, CreateFails
<1>2. Handles'
  BY PoolAssumption DEF Inv, TypeOK, CreateFails, Handles
<1>3. Registry'
  BY PoolAssumption DEF Inv, TypeOK, CreateFails, Registry
<1>4. Sweeping'
  BY PoolAssumption DEF Inv, TypeOK, CreateFails, Sweeping
<1>5. Spent'
  BY PoolAssumption DEF Inv, TypeOK, CreateFails, Spent, FailedPoolStaysOut, InUse, Alive, Registered, At
<1>. QED
  BY <1>1, <1>2, <1>3, <1>4, <1>5 DEF Inv

LEMMA GetPermitInv ==
    ASSUME Inv, NEW w \in Workers, GetPermit(w)
    PROVE  Inv'
<1>t. TypeOK
  BY DEF Inv
<1>0. at[w] \in Pools /\ TakeOrCreate(w)
  BY DEF Inv, Handles, GetPermit
<1>a. /\ pool' \in [Pools -> PoolRecord]
      /\ \A p \in Pools : pool'[p].cfg = pool[p].cfg /\ pool'[p].closed = pool[p].closed
      /\ phase' \in [Workers -> Phases]
      /\ phase'[w] \in {"recycle", "create"} /\ \A v \in Workers \ {w} : phase'[v] = phase[v]
  BY <1>0, TakeOrCreateEffect DEF Inv
<1>1. TypeOK'
  BY PoolAssumption, <1>0, <1>a DEF Inv, TypeOK, GetPermit
<1>2. Handles'
  BY PoolAssumption, <1>0, <1>a DEF Inv, TypeOK, GetPermit, Handles
<1>3. Registry'
  BY PoolAssumption, <1>0, <1>a DEF Inv, TypeOK, GetPermit, Registry
<1>4. Sweeping'
  BY PoolAssumption, <1>0, <1>a DEF Inv, TypeOK, GetPermit, Sweeping
<1>5. Spent'
  BY PoolAssumption, <1>0, <1>a DEF Inv, TypeOK, GetPermit, Spent, FailedPoolStaysOut, InUse, Alive, Registered, At
<1>. QED
  BY <1>1, <1>2, <1>3, <1>4, <1>5 DEF Inv

LEMMA RecycleFailsInv ==
    ASSUME Inv, NEW w \in Workers, RecycleFails(w)
    PROVE  Inv'
<1>t. TypeOK
  BY DEF Inv
<1>0. at[w] \in Pools /\ TakeOrCreate(w)
  BY DEF Inv, Handles, RecycleFails
<1>a. /\ pool' \in [Pools -> PoolRecord]
      /\ \A p \in Pools : pool'[p].cfg = pool[p].cfg /\ pool'[p].closed = pool[p].closed
      /\ phase' \in [Workers -> Phases]
      /\ phase'[w] \in {"recycle", "create"} /\ \A v \in Workers \ {w} : phase'[v] = phase[v]
  BY <1>0, TakeOrCreateEffect DEF Inv
<1>1. TypeOK'
  BY PoolAssumption, <1>0, <1>a DEF Inv, TypeOK, RecycleFails
<1>2. Handles'
  BY PoolAssumption, <1>0, <1>a DEF Inv, TypeOK, RecycleFails, Handles
<1>3. Registry'
  BY PoolAssumption, <1>0, <1>a DEF Inv, TypeOK, RecycleFails, Registry
<1>4. Sweeping'
  BY PoolAssumption, <1>0, <1>a DEF Inv, TypeOK, RecycleFails, Sweeping
<1>5. Spent'
  BY PoolAssumption, <1>0, <1>a DEF Inv, TypeOK, RecycleFails, Spent, FailedPoolStaysOut, InUse, Alive, Registered, At
<1>. QED
  BY <1>1, <1>2, <1>3, <1>4, <1>5 DEF Inv

LEMMA CheckOutInv ==
    ASSUME Inv, NEW w \in Workers, CheckOut(w)
    PROVE  Inv'
<1>a. /\ pool' \in [Pools -> PoolRecord]
      /\ \A p \in Pools : /\ Alive(p)' => pool'[p].closed = pool[p].closed
                          /\ InUse(p)' => pool'[p].cfg = pool[p].cfg
  BY SettleEffect DEF Inv, TypeOK, CheckOut
<1>1. TypeOK'
  BY PoolAssumption, <1>a DEF Inv, TypeOK, CheckOut
<1>2. Handles'
  BY PoolAssumption, <1>a, <1>1, ReferredInUse DEF Inv, TypeOK, CheckOut, Handles
<1>3. Registry'
  BY PoolAssumption, <1>a, <1>1, ReferredInUse DEF Inv, TypeOK, CheckOut, Registry
<1>4. Sweeping'
  BY PoolAssumption, <1>a DEF Inv, TypeOK, CheckOut, Sweeping
<1>5. Spent'
  BY PoolAssumption, <1>a DEF Inv, TypeOK, CheckOut, Spent, FailedPoolStaysOut, InUse, Alive, Registered, At
<1>. QED
  BY <1>1, <1>2, <1>3, <1>4, <1>5 DEF Inv

LEMMA FailRequestInv ==
    ASSUME Inv, NEW w \in Workers, FailRequest(w)
    PROVE  Inv'
<1>a. /\ pool' \in [Pools -> PoolRecord]
      /\ \A p \in Pools : /\ Alive(p)' => pool'[p].closed = pool[p].closed
                          /\ InUse(p)' => pool'[p].cfg = pool[p].cfg
  BY SettleEffect DEF Inv, TypeOK, FailRequest
<1>1. TypeOK'
  BY PoolAssumption, <1>a DEF Inv, TypeOK, FailRequest, RemovePool, Handles
<1>2. Handles'
  BY PoolAssumption, <1>a, <1>1, ReferredInUse DEF Inv, TypeOK, FailRequest, Handles
<1>3. Registry'
  BY PoolAssumption, <1>a, <1>1, ReferredInUse DEF Inv, TypeOK, FailRequest, Registry, RemovePool
<1>4. Sweeping'
  BY PoolAssumption, <1>a DEF Inv, TypeOK, FailRequest, Sweeping, RemovePool
<1>5. Spent'
  BY PoolAssumption, <1>a DEF Inv, TypeOK, FailRequest, Spent, FailedPoolStaysOut, InUse, Alive, Registered, At, RemovePool, Handles, Registry
<1>. QED
  BY <1>1, <1>2, <1>3, <1>4, <1>5 DEF Inv

LEMMA ReturnInv ==
    ASSUME Inv, NEW w \in Workers, Return(w)
    PROVE  Inv'
<1>0. at[w] \in Pools
  BY DEF Inv, Handles, Return
<1>. DEFINE f == IF Alive(at[w]) /\ ~pool[at[w]].closed
                 THEN [pool EXCEPT ![at[w]].idle = @ + 1] ELSE pool
            r == [pool[at[w]] EXCEPT !.idle = @ + 1]
<1>b. r \in PoolRecord /\ r.cfg = pool[at[w]].cfg /\ r.closed = pool[at[w]].closed
  BY <1>0 DEF Inv, TypeOK, PoolRecord
<1>c. f = IF Alive(at[w]) /\ ~pool[at[w]].closed THEN [pool EXCEPT ![at[w]] = r] ELSE pool
  OBVIOUS
<1>. HIDE DEF r
<1>d. /\ f \in [Pools -> PoolRecord]
      /\ \A p \in Pools : f[p].cfg = pool[p].cfg /\ f[p].closed = pool[p].closed
  BY <1>0, <1>b, <1>c DEF Inv, TypeOK
<1>e. pool' = Settle(f)
  BY DEF Return
<1>. HIDE DEF f
<1>a. /\ pool' \in [Pools -> PoolRecord]
      /\ \A p \in Pools : /\ Alive(p)' => pool'[p].closed = pool[p].closed
                          /\ InUse(p)' => pool'[p].cfg = pool[p].cfg
  BY <1>d, <1>e, SettleEffect
<1>g. registry' = registry /\ drained' = drained
  BY DEF Return
<1>1. TypeOK'
  BY PoolAssumption, <1>a DEF Inv, TypeOK, Return
<1>2. Handles'
  BY PoolAssumption, <1>a, <1>1, ReferredInUse DEF Inv, TypeOK, Return, Handles
<1>3. Registry'
  BY <1>a, <1>g, <1>1, ReferredInUse DEF Inv, TypeOK, Registry
<1>4. Sweeping'
  BY PoolAssumption, <1>a DEF Inv, TypeOK, Return, Sweeping
<1>5. Spent'
  BY PoolAssumption, <1>a DEF Inv, TypeOK, Return, Spent, FailedPoolStaysOut, InUse, Alive, Registered, At
<1>. QED
  BY <1>1, <1>2, <1>3, <1>4, <1>5 DEF Inv

LEMMA SweepStartInv ==
    ASSUME Inv, SweepStart
    PROVE  Inv'
<1>1. TypeOK'
  BY PoolAssumption DEF Inv, TypeOK, SweepStart
<1>2. Handles'
  BY PoolAssumption DEF Inv, TypeOK, SweepStart, Handles
<1>3. Registry'
  BY PoolAssumption DEF Inv, TypeOK, SweepStart, Registry
<1>4. Sweeping'
  BY PoolAssumption DEF Inv, TypeOK, SweepStart, Sweeping
<1>5. Spent'
  BY PoolAssumption DEF Inv, TypeOK, SweepStart, Spent, FailedPoolStaysOut, InUse, Alive, Registered, At
<1>. QED
  BY <1>1, <1>2, <1>3, <1>4, <1>5 DEF Inv

LEMMA SweepInspectInv ==
    ASSUME Inv, NEW k \in Keys, SweepInspect(k)
    PROVE  Inv'
<1>1. TypeOK'
  BY PoolAssumption DEF Inv, TypeOK, SweepInspect
<1>2. Handles'
  BY PoolAssumption DEF Inv, TypeOK, SweepInspect, Handles
<1>3. Registry'
  BY PoolAssumption DEF Inv, TypeOK, SweepInspect, Registry
<1>4. Sweeping'
  BY PoolAssumption DEF Inv, TypeOK, SweepInspect, Sweeping
<1>5. Spent'
  BY PoolAssumption DEF Inv, TypeOK, SweepInspect, Spent, FailedPoolStaysOut, InUse, Alive, Registered, At
<1>. QED
  BY <1>1, <1>2, <1>3, <1>4, <1>5 DEF Inv

LEMMA SweepCloseInv ==
    ASSUME Inv, SweepClose
    PROVE  Inv'
<1>0. registry[doomed] \in Pools
  BY DEF Inv, TypeOK, Sweeping, SweepClose
<1>b. pool \in [Pools -> PoolRecord] /\ pool' = Settle(Closed(pool, registry[doomed]))
  BY DEF Inv, TypeOK, SweepClose
<1>a. /\ pool' \in [Pools -> PoolRecord]
      /\ \A q \in Pools : /\ Alive(q)' /\ q # registry[doomed] => pool'[q].closed = pool[q].closed
                          /\ InUse(q)' => pool'[q].cfg = pool[q].cfg
  BY <1>0, <1>b, ClosedEffect, SettleEffect
<1>1. TypeOK'
  BY PoolAssumption, <1>0, <1>a DEF Inv, TypeOK, SweepClose
<1>2. Handles'
  BY PoolAssumption, <1>0, <1>a, <1>1, ReferredInUse DEF Inv, TypeOK, SweepClose, Handles, Sweeping
<1>3. Registry'
  BY PoolAssumption, <1>0, <1>a, <1>1, ReferredInUse DEF Inv, TypeOK, SweepClose, Registry, Sweeping
<1>4. Sweeping'
  BY PoolAssumption, <1>0, <1>a DEF Inv, TypeOK, SweepClose, Sweeping
<1>5. Spent'
  BY PoolAssumption, <1>0, <1>a DEF Inv, TypeOK, SweepClose, Spent, FailedPoolStaysOut, InUse, Alive, Registered, At
<1>. QED
  BY <1>1, <1>2, <1>3, <1>4, <1>5 DEF Inv

LEMMA SweepEndInv ==
    ASSUME Inv, SweepEnd
    PROVE  Inv'
<1>1. TypeOK'
  BY PoolAssumption DEF Inv, TypeOK, SweepEnd
<1>2. Handles'
  BY PoolAssumption DEF Inv, TypeOK, SweepEnd, Handles
<1>3. Registry'
  BY PoolAssumption DEF Inv, TypeOK, SweepEnd, Registry
<1>4. Sweeping'
  BY PoolAssumption DEF Inv, TypeOK, SweepEnd, Sweeping
<1>5. Spent'
  BY PoolAssumption DEF Inv, TypeOK, SweepEnd, Spent, FailedPoolStaysOut, InUse, Alive, Registered, At
<1>. QED
  BY <1>1, <1>2, <1>3, <1>4, <1>5 DEF Inv

LEMMA ShutdownDrainInv ==
    ASSUME Inv, ShutdownDrain
    PROVE  Inv'
<1>1. TypeOK'
  BY PoolAssumption DEF Inv, TypeOK, ShutdownDrain
<1>2. Handles'
  BY PoolAssumption DEF Inv, TypeOK, ShutdownDrain, Handles
<1>3. Registry'
  BY PoolAssumption DEF Inv, TypeOK, ShutdownDrain, Registry
<1>4. Sweeping'
  BY PoolAssumption DEF Inv, TypeOK, ShutdownDrain, Sweeping
<1>5. Spent'
  BY PoolAssumption DEF Inv, TypeOK, ShutdownDrain, Spent, FailedPoolStaysOut, InUse, Alive, Registered, At, Registry
<1>. QED
  BY <1>1, <1>2, <1>3, <1>4, <1>5 DEF Inv

LEMMA ShutdownCloseInv ==
    ASSUME Inv, NEW p \in Pools, ShutdownClose(p)
    PROVE  Inv'
<1>0. p \in Pools
  BY DEF Inv, TypeOK, Sweeping, ShutdownClose
<1>b. pool \in [Pools -> PoolRecord] /\ pool' = Settle(Closed(pool, p))
  BY DEF Inv, TypeOK, ShutdownClose
<1>a. /\ pool' \in [Pools -> PoolRecord]
      /\ \A q \in Pools : /\ Alive(q)' /\ q # p => pool'[q].closed = pool[q].closed
                          /\ InUse(q)' => pool'[q].cfg = pool[q].cfg
  BY <1>0, <1>b, ClosedEffect, SettleEffect
<1>1. TypeOK'
  BY PoolAssumption, <1>a DEF Inv, TypeOK, ShutdownClose
<1>2. Handles'
  BY PoolAssumption, <1>a, <1>1, ReferredInUse DEF Inv, TypeOK, ShutdownClose, Handles
<1>3. Registry'
  BY PoolAssumption, <1>a, <1>1, ReferredInUse DEF Inv, TypeOK, ShutdownClose, Registry
<1>4. Sweeping'
  BY PoolAssumption, <1>a DEF Inv, TypeOK, ShutdownClose, Sweeping
<1>5. Spent'
  BY PoolAssumption, <1>a DEF Inv, TypeOK, ShutdownClose, Spent, FailedPoolStaysOut, InUse, Alive, Registered, At
<1>. QED
  BY <1>1, <1>2, <1>3, <1>4, <1>5 DEF Inv

LEMMA InitializeInv ==
    ASSUME Inv, NEW n \in Sizes, Initialize(n)
    PROVE  Inv'
<1>1. TypeOK'
  BY PoolAssumption DEF Inv, TypeOK, Initialize
<1>2. Handles'
  BY PoolAssumption DEF Inv, TypeOK, Initialize, Handles
<1>3. Registry'
  BY PoolAssumption DEF Inv, TypeOK, Initialize, Registry
<1>4. Sweeping'
  BY PoolAssumption DEF Inv, TypeOK, Initialize, Sweeping
<1>5. Spent'
  BY PoolAssumption DEF Inv, TypeOK, Initialize, Spent, FailedPoolStaysOut, InUse, Alive, Registered, At
<1>. QED
  BY <1>1, <1>2, <1>3, <1>4, <1>5 DEF Inv

LEMMA InvStep == Inv /\ [Next]_vars => Inv'
<1>. SUFFICES ASSUME Inv, [Next]_vars PROVE Inv'
  OBVIOUS
<1>1. ASSUME NEW w \in Workers, Handler(w) PROVE Inv'
  BY <1>1, LookupInv, EnterGetInv, GetPermitInv, GetClosedInv, CheckOutInv,
     RecycleFailsInv, CreateFailsInv, FailRequestInv, ReturnInv DEF Handler
<1>2. CASE Sweep
  BY <1>2, SweepStartInv, SweepInspectInv, SweepCloseInv, SweepEndInv DEF Sweep
<1>3. CASE Lifecycle
  BY <1>3, ShutdownDrainInv, ShutdownCloseInv, InitializeInv DEF Lifecycle
<1>4. CASE UNCHANGED vars
  BY <1>4 DEF vars, Inv, TypeOK, Handles, Registry, Sweeping, Spent, FailedPoolStaysOut,
     InUse, Alive, Registered, At
<1>. QED
  BY <1>1, <1>2, <1>3, <1>4 DEF Next

LEMMA PoolInvariant == Spec => []Inv
BY InitInv, InvStep, PTL DEF Spec

\* Types, for every number of handlers, keys and pools.
THEOREM TypeCorrect == Spec => []TypeOK
<1>1. Inv => TypeOK
  BY DEF Inv
<1>. QED
  BY <1>1, PoolInvariant, PTL

\* A lookup finds no pool that a sweep or a shutdown has closed, or is about to
\* close, and no pool that was built for another key.
THEOREM RegisteredPoolsAreOpen == Spec => []RegisteredPoolsOpen
<1>1. Inv => RegisteredPoolsOpen
  BY DEF Inv, Registry, RegisteredPoolsOpen
<1>. QED
  BY <1>1, PoolInvariant, PTL

\* A pool whose failed checkout was answered is never found again.
THEOREM FailedPoolsStayOut == Spec => []FailedPoolStaysOut
<1>1. Inv => FailedPoolStaysOut
  BY DEF Inv, Spent
<1>. QED
  BY <1>1, PoolInvariant, PTL
-----------------------------------------------------------------------------
(* Counting sessions.                                                      *)

LEMMA AtFinite ==
    ASSUME NEW p, NEW ps
    PROVE  IsFiniteSet(At(p, ps)) /\ Cardinality(At(p, ps)) \in Nat
<1>1. At(p, ps) \subseteq Workers
  BY DEF At
<1>. QED
  BY <1>1, PoolAssumption, FS_Subset, FS_CardinalityType

\* A sweep condemns no pool that has a session checked out at that moment.
THEOREM SweepSparesSessions == Spec => SweepSparesCheckedOut
<1>1. ASSUME Inv, Next, doomed' # doomed, doomed' # None
      PROVE  At(registry[doomed'], {"hold"}) = {}
  <2>1. PICK k \in Keys : SweepInspect(k)
    BY <1>1 DEF Next, Handler, Lookup, EnterGet, GetPermit, GetClosed, CheckOut, RecycleFails,
       CreateFails, FailRequest, Return, Sweep, SweepStart, SweepClose, SweepEnd,
       Lifecycle, ShutdownDrain, ShutdownClose, Initialize
  <2>. DEFINE p == registry[k]
              out == At(p, {"recycle", "hold"})
              users == At(p, {"wait", "recycle", "create", "hold"})
  <2>2. doomed' = k /\ p \in Pools /\ ~(Size(p) > Available(p))
    BY <1>1, <2>1, PoolAssumption DEF SweepInspect, Inv, TypeOK, Sweeping
  <2>a. \A q \in Pools : pool[q].idle \in Nat
    BY <1>1 DEF Inv, TypeOK, PoolRecord
  <2>3. pool[p].idle \in Nat
    BY <2>2, <2>a
  <2>4. /\ IsFiniteSet(out) /\ Cardinality(out) \in Nat
        /\ IsFiniteSet(users) /\ Cardinality(users) \in Nat
    BY AtFinite
  <2>5. out \subseteq users /\ At(p, {"hold"}) \subseteq out
    BY DEF At
  <2>6. Cardinality(out) <= Cardinality(users)
    BY <2>4, <2>5, FS_Subset
  <2>. HIDE DEF p, out, users
  <2>7. Size(p) = pool[p].idle + Cardinality(out) /\ Users(p) = Cardinality(users)
    BY DEF Size, Users, out, users
  <2>8. Available(p) = IF Users(p) < Size(p) THEN Size(p) - Users(p) ELSE 0
    BY DEF Available
  <2>9. Cardinality(out) = 0
    BY <2>2, <2>3, <2>4, <2>6, <2>7, <2>8
  <2>10. out = {}
    BY <2>4, <2>9, FS_EmptySet
  <2>. QED
    BY <2>2, <2>5, <2>10 DEF p
<1>2. Inv /\ [Next]_vars =>
        [doomed' # doomed /\ doomed' # None => At(registry[doomed'], {"hold"}) = {}]_vars
  BY <1>1
<1>. QED
  BY <1>2, PoolInvariant, PTL DEF Spec, SweepSparesCheckedOut

Working == {"recycle", "create", "hold"}

\* A step of one handler changes the count of a pool's sessions by that handler.
LEMMA BusyAfterHandler ==
    ASSUME NEW w \in Workers, NEW p,
           \A v \in Workers \ {w} : phase'[v] = phase[v] /\ at'[v] = at[v]
    PROVE  LET before == at[w] = p /\ phase[w] \in Working
               after == at'[w] = p /\ phase'[w] \in Working
           IN  Busy(p)' = IF before /\ ~after THEN Busy(p) - 1
                          ELSE IF after /\ ~before THEN Busy(p) + 1
                          ELSE Busy(p)
<1>. DEFINE A == At(p, Working)
            B == At(p, Working)'
            before == at[w] = p /\ phase[w] \in Working
            after == at'[w] = p /\ phase'[w] \in Working
<1>1. /\ Busy(p) = Cardinality(A) /\ Busy(p)' = Cardinality(B)
      /\ w \in A <=> before
      /\ w \in B <=> after
  BY DEF Busy, Working, At
<1>2. A \subseteq Workers /\ B \subseteq Workers /\ A \ {w} = B \ {w}
  BY DEF At
<1>3. IsFiniteSet(A) /\ IsFiniteSet(B) /\ Cardinality(A) \in Nat /\ Cardinality(B) \in Nat
  BY <1>2, PoolAssumption, FS_Subset, FS_CardinalityType
<1>. HIDE DEF A, B, before, after
<1>4. CASE before /\ ~after
  <2>1. B = A \ {w}
    BY <1>1, <1>2, <1>4
  <2>. QED
    BY <1>1, <1>3, <1>4, <2>1, FS_RemoveElement DEF before, after
<1>5. CASE after /\ ~before
  <2>1. A = B \ {w}
    BY <1>1, <1>2, <1>5
  <2>2. Cardinality(A) = Cardinality(B) - 1
    BY <1>1, <1>3, <1>5, <2>1, FS_RemoveElement
  <2>. QED
    BY <1>1, <1>3, <1>5, <2>2 DEF before, after
<1>6. CASE before <=> after
  <2>1. A = B
    BY <1>1, <1>2, <1>6
  <2>. QED
    BY <1>1, <1>6, <2>1 DEF before, after
<1>. QED
  BY <1>4, <1>5, <1>6

LEMMA BusyUnused ==
    ASSUME NEW p
    PROVE  /\ Busy(p) \in Nat /\ (~InUse(p) => Busy(p) = 0)
           /\ Busy(p)' \in Nat /\ (~InUse(p)' => Busy(p)' = 0)
<1>1. At(p, Working) \subseteq Workers /\ At(p, Working)' \subseteq Workers
  BY DEF At
<1>2. /\ ~InUse(p) => At(p, Working) = {}
      /\ ~InUse(p)' => At(p, Working)' = {}
  BY DEF InUse, Alive, At, Working
<1>3. Busy(p) = Cardinality(At(p, Working)) /\ Busy(p)' = Cardinality(At(p, Working)')
  BY DEF Busy, Working, At
<1>. QED
  BY <1>1, <1>2, <1>3, PoolAssumption, FS_Subset, FS_CardinalityType, FS_EmptySet

LEMMA PoolNumbers ==
    ASSUME NEW f \in [Pools -> PoolRecord], NEW p \in Pools
    PROVE  f[p].idle \in Nat /\ f[p].max \in Nat
<1>1. f[p] \in PoolRecord /\ Sizes \cup {0} \subseteq Nat
  BY PoolAssumption
<1>2. f[p].idle \in Nat /\ f[p].max \in Sizes \cup {0}
  BY <1>1 DEF PoolRecord
<1>. QED
  BY <1>1, <1>2

\* The sizes that Settle leaves fit if those it was given fit.
LEMMA SettleFits ==
    ASSUME NEW f \in [Pools -> PoolRecord], pool' = Settle(f),
           \A p \in Pools : f[p].idle + Busy(p)' <= f[p].max
    PROVE  WithinPoolSize'
<1>1. SUFFICES ASSUME NEW p \in Pools
               PROVE  pool'[p].idle + Busy(p)' <= pool'[p].max
  BY DEF WithinPoolSize
<1>2. pool' \in [Pools -> PoolRecord]
  BY SettleEffect
<1>3. f[p].idle \in Nat /\ f[p].max \in Nat /\ pool'[p].idle \in Nat
  BY <1>2, PoolNumbers
<1>4. Blank.idle = 0 /\ Blank.max = 0
  BY DEF Blank
<1>5. CASE InUse(p)'
  <2>1. pool'[p].max = f[p].max /\ pool'[p].idle <= f[p].idle
    BY <1>5, SettleEffect
  <2>. QED
    BY <1>3, <2>1, BusyUnused
<1>6. CASE ~InUse(p)'
  <2>1. pool'[p] = Blank /\ Busy(p)' = 0
    BY <1>6, SettleEffect, BusyUnused
  <2>. QED
    BY <1>4, <2>1
<1>. QED
  BY <1>5, <1>6

\* A handler's step that changes how many sessions a pool has in use.
LEMMA HandlerFits ==
    ASSUME Inv, Inv', WithinPoolSize, NEW w \in Workers, Handler(w)
    PROVE  WithinPoolSize'
<1>1. \A p \in Pools : /\ pool[p].idle \in Nat /\ pool[p].max \in Nat
                       /\ pool[p].idle + Busy(p) <= pool[p].max
                       /\ Busy(p) \in Nat
  BY BusyUnused, PoolNumbers DEF Inv, TypeOK, WithinPoolSize
<1>2. \A p \in Pools :
        LET before == at[w] = p /\ phase[w] \in Working
            after == at'[w] = p /\ phase'[w] \in Working
        IN  Busy(p)' = IF before /\ ~after THEN Busy(p) - 1
                       ELSE IF after /\ ~before THEN Busy(p) + 1
                       ELSE Busy(p)
  <2>1. \A v \in Workers \ {w} : phase'[v] = phase[v] /\ at'[v] = at[v]
    BY DEF Handler, Inv, TypeOK, Lookup, EnterGet, GetPermit, GetClosed, CheckOut, RecycleFails,
       CreateFails, FailRequest, Return, TakeOrCreate
  <2>. QED
    BY <2>1, BusyAfterHandler
<1>3. pool \in [Pools -> PoolRecord]
  BY DEF Inv, TypeOK
<1>4. ASSUME NEW c \in Configs, Lookup(w, c) PROVE WithinPoolSize'
  <2>1. \A p \in Pools : Busy(p)' = Busy(p)
    BY <1>2, <1>4 DEF Lookup, Working, Inv, TypeOK
  <2>2. CASE pool' = pool
    BY <1>1, <2>1, <2>2 DEF WithinPoolSize
  <2>3. ASSUME NEW p \in Pools, ~InUse(p),
               pool' = [pool EXCEPT ![p] =
                  [cfg |-> c, max |-> settings, idle |-> 0, closed |-> FALSE]]
        PROVE  WithinPoolSize'
    <3>1. /\ Busy(p) = 0 /\ pool'[p].idle = 0 /\ pool'[p].max = settings
          /\ settings \in Nat
          /\ \A q \in Pools \ {p} : pool'[q] = pool[q]
      BY <1>3, <2>3, BusyUnused, PoolAssumption DEF Inv, TypeOK
    <3>. QED
      BY <1>1, <2>1, <3>1 DEF WithinPoolSize
  <2>. QED
    BY <1>4, <2>2, <2>3 DEF Lookup
<1>5. CASE EnterGet(w) \/ GetClosed(w) \/ CreateFails(w)
  <2>1. pool' = pool /\ \A p \in Pools : Busy(p)' <= Busy(p)
    BY <1>1, <1>2, <1>5 DEF EnterGet, GetClosed, CreateFails, Working, Inv, TypeOK
  <2>. QED
    BY <1>1, <2>1, BusyUnused DEF WithinPoolSize
<1>6. CASE GetPermit(w) \/ RecycleFails(w)
  <2>1. at[w] \in Pools /\ at' = at /\ TakeOrCreate(w)
    BY <1>6 DEF GetPermit, RecycleFails, Inv, Handles
  <2>2. /\ phase'[w] \in Working
        /\ \A p \in Pools \ {at[w]} : pool'[p] = pool[p] /\ Busy(p)' = Busy(p)
        /\ pool'[at[w]].max = pool[at[w]].max
        /\ pool'[at[w]].idle = IF pool[at[w]].idle > 0 THEN pool[at[w]].idle - 1 ELSE 0
    BY <1>1, <1>2, <2>1, TakeOrCreateEffect DEF Inv, Working
  <2>3. CASE GetPermit(w)
    <3>1. Busy(at[w])' = Busy(at[w]) + 1 /\ Busy(at[w]) < pool[at[w]].max
      BY <1>2, <2>1, <2>2, <2>3 DEF GetPermit, Working
    <3>. QED
      BY <1>1, <2>1, <2>2, <3>1 DEF WithinPoolSize
  <2>4. CASE RecycleFails(w)
    <3>1. Busy(at[w])' = Busy(at[w])
      BY <1>2, <2>1, <2>2, <2>4 DEF RecycleFails, Working
    <3>. QED
      BY <1>1, <2>1, <2>2, <3>1 DEF WithinPoolSize
  <2>. QED
    BY <1>6, <2>3, <2>4
<1>7. CASE CheckOut(w) \/ FailRequest(w)
  <2>1. /\ pool' = Settle(pool)
        /\ \A p \in Pools : Busy(p)' <= Busy(p)
    BY <1>1, <1>2, <1>7 DEF CheckOut, FailRequest, Working, Inv, TypeOK
  <2>2. \A p \in Pools : pool[p].idle + Busy(p)' <= pool[p].max
    BY <1>1, <2>1, BusyUnused
  <2>. QED
    BY <1>3, <2>1, <2>2, SettleFits
<1>8. CASE Return(w)
  <2>1. at[w] \in Pools /\ phase[w] = "hold" /\ phase'[w] = "idle"
    BY <1>8 DEF Return, Inv, TypeOK, Handles
  <2>a. phase[w] \in Working /\ phase'[w] \notin Working
    BY <2>1 DEF Working
  <2>2. ASSUME NEW p \in Pools
        PROVE  Busy(p)' = IF p = at[w] THEN Busy(p) - 1 ELSE Busy(p)
    BY <1>2, <2>a
  <2>. DEFINE r == [pool[at[w]] EXCEPT !.idle = @ + 1]
              f == IF Alive(at[w]) /\ ~pool[at[w]].closed
                   THEN [pool EXCEPT ![at[w]] = r] ELSE pool
  <2>3. r \in PoolRecord /\ r.idle = pool[at[w]].idle + 1 /\ r.max = pool[at[w]].max
    BY <1>3, <2>1 DEF PoolRecord
  <2>4. pool' = Settle(f)
    BY <1>8 DEF Return
  <2>. HIDE DEF r
  <2>5. f \in [Pools -> PoolRecord]
    BY <1>3, <2>1, <2>3
  <2>6. \A p \in Pools : f[p].idle + Busy(p)' <= f[p].max
    <3>1. \A p \in Pools \ {at[w]} : f[p] = pool[p]
      BY <1>3, <2>1, <2>3
    <3>2. f[at[w]].max = pool[at[w]].max /\ f[at[w]].idle <= pool[at[w]].idle + 1
      BY <1>1, <1>3, <2>1, <2>3
    <3>3. f[at[w]].idle \in Nat
      BY <2>1, <2>5, PoolNumbers
    <3>. SUFFICES ASSUME NEW p \in Pools PROVE f[p].idle + Busy(p)' <= f[p].max
      OBVIOUS
    <3>4. /\ pool[p].idle \in Nat /\ pool[p].max \in Nat /\ Busy(p) \in Nat
          /\ pool[p].idle + Busy(p) <= pool[p].max
      BY <1>1
    <3>5. CASE p = at[w]
      <4>1. Busy(p)' = Busy(p) - 1
        BY <2>2, <3>5
      <4>2. f[p].max = pool[p].max /\ f[p].idle <= pool[p].idle + 1 /\ f[p].idle \in Nat
        BY <3>2, <3>3, <3>5
      <4>. QED
        BY <3>4, <4>1, <4>2
    <3>6. CASE p # at[w]
      <4>1. Busy(p)' = Busy(p)
        BY <2>2, <3>6
      <4>. QED
        BY <3>1, <3>4, <3>6, <4>1
    <3>. QED
      BY <3>5, <3>6
  <2>. HIDE DEF f
  <2>. QED
    BY <2>4, <2>5, <2>6, SettleFits
<1>. QED
  BY <1>4, <1>5, <1>6, <1>7, <1>8 DEF Handler

LEMMA OthersFit ==
    ASSUME Inv, Inv', WithinPoolSize, Sweep \/ Lifecycle \/ UNCHANGED vars
    PROVE  WithinPoolSize'
<1>1. \A p \in Pools : /\ pool[p].idle \in Nat /\ pool[p].max \in Nat
                       /\ pool[p].idle + Busy(p) <= pool[p].max
                       /\ Busy(p) \in Nat
  BY BusyUnused, PoolNumbers DEF Inv, TypeOK, WithinPoolSize
<1>2. \A p \in Pools : Busy(p)' = Busy(p)
  BY DEF Sweep, SweepStart, SweepInspect, SweepClose, SweepEnd, Lifecycle, ShutdownDrain,
     ShutdownClose, Initialize, vars, Busy, At
<1>3. CASE pool' = pool
  BY <1>1, <1>2, <1>3 DEF WithinPoolSize
<1>4. ASSUME NEW p \in Pools, pool' = Settle(Closed(pool, p))
      PROVE  WithinPoolSize'
  <2>1. /\ Closed(pool, p) \in [Pools -> PoolRecord]
        /\ \A q \in Pools : /\ Closed(pool, p)[q].max = pool[q].max
                            /\ Closed(pool, p)[q].idle <= pool[q].idle
    BY ClosedEffect DEF Inv, TypeOK
  <2>2. \A q \in Pools : Closed(pool, p)[q].idle \in Nat
    BY <2>1 DEF PoolRecord
  <2>3. \A q \in Pools : Closed(pool, p)[q].idle + Busy(q)' <= Closed(pool, p)[q].max
    BY <1>1, <1>2, <2>1, <2>2
  <2>. QED
    BY <1>4, <2>1, <2>3, SettleFits
<1>5. registry[doomed] \in Pools \/ doomed = None
  BY DEF Inv, TypeOK, Sweeping
<1>. QED
  BY <1>3, <1>4, <1>5 DEF Sweep, SweepStart, SweepInspect, SweepClose, SweepEnd, Lifecycle,
     ShutdownDrain, ShutdownClose, Initialize, vars

\* A pool never has more sessions than the max_pool_size it was built with.
THEOREM PoolSizesKept == Spec => []WithinPoolSize
<1>1. Init => WithinPoolSize
  BY PoolAssumption, BusyUnused DEF Init, WithinPoolSize, Blank, InUse, Alive, Registered, At
<1>2. Inv /\ Inv' /\ WithinPoolSize /\ [Next]_vars => WithinPoolSize'
  BY HandlerFits, OthersFit DEF Next
<1>. QED
  BY <1>1, <1>2, PoolInvariant, PTL DEF Spec

=============================================================================
