---------------------------- MODULE SessionProofs ----------------------------
(***************************************************************************)
(* Proofs that a pooled session brings nothing of one request to the next. *)
(***************************************************************************)
EXTENDS Session, TLAPS

\* What Session's TypeOK leaves out, for one session: a client call that met a
\* fault flagged it for good, and while it waits for its startup script it has
\* passed the check of recycle and forgotten what requests did to it.
Good(c) ==
    /\ c \in SessionRecord
    /\ c.where # "held" => c.step = "ready"
    /\ "client" \in c.faulted => ~c.recyclable
    /\ c.where \in {"fresh", "reset"} =>
         c.recyclable /\ c.txn = "none" /\ c.env = {}

\* The inductive invariant.
IInv ==
    /\ sess \in [Sessions -> SessionRecord]
    /\ \A s \in Sessions : Good(sess[s])

\* Every action makes one session become another: if that one is good too,
\* the invariant holds after the step and no other session changed.
LEMMA BecomeKeeps ==
    ASSUME IInv, NEW s \in Sessions, NEW c, Good(c), Become(s, c)
    PROVE  IInv' /\ sess'[s] = c /\ \A t \in Sessions \ {s} : sess'[t] = sess[t]
<1>1. c \in SessionRecord
  BY DEF Good
<1>2. sess' = [sess EXCEPT ![s] = c]
  BY DEF Become
<1>3. sess' \in [Sessions -> SessionRecord]
  BY <1>1, <1>2 DEF IInv
<1>4. sess'[s] = c /\ \A t \in Sessions \ {s} : sess'[t] = sess[t]
  BY <1>2 DEF IInv
<1>5. \A t \in Sessions : Good(sess'[t])
  BY <1>4 DEF IInv
<1>. QED
  BY <1>3, <1>4, <1>5 DEF IInv

\* SQL and faults keep a session where and in the step it is.
LEMMA RanGood ==
    ASSUME NEW c, Good(c), c.where = "held", NEW d \in Ran(c, "request")
    PROVE  Good(d) /\ d.where = "held" /\ d.step = c.step
<1>1. PICK e \in {c.env, c.env \cup {"request"}}, t \in {c.txn, "none", "request"} :
        d = [c EXCEPT !.env = e, !.txn = t]
  BY DEF Ran
<1>2. c \in SessionRecord /\ e \in SUBSET Users /\ t \in {"none"} \cup Users
  BY DEF Good, SessionRecord, Users
<1>3. /\ d \in SessionRecord
      /\ d.where = "held" /\ d.step = c.step
      /\ d.faulted = c.faulted /\ d.recyclable = c.recyclable
  BY <1>1, <1>2 DEF SessionRecord
<1>. QED
  BY <1>3 DEF Good

LEMMA BrokeOnClient ==
    ASSUME NEW c, Good(c), c.where = "held", NEW f \in FaultsOf(c),
           NEW d \in Broke(c, "request", f, "client")
    PROVE  LET e == FormatError(DiscardIfOpen(d), f)
           IN  Good(e) /\ e.where = "held" /\ e.step = c.step
<1>1. PICK x \in Ran(c, "request") :
        d = [x EXCEPT !.lost = @ \/ f = "transport",
               !.faulted = IF f = "other" THEN @ ELSE @ \cup {"client"}]
  BY DEF Broke
<1>2. Good(x) /\ x.where = "held" /\ x.step = c.step
  BY RanGood
<1>3. d \in SessionRecord /\ d.where = "held" /\ d.step = c.step /\ d.recyclable = x.recyclable
  BY <1>1, <1>2 DEF Good, SessionRecord
<1>4. "client" \in d.faulted => RequiresDiscard(f) \/ ~d.recyclable
  BY <1>1, <1>2, <1>3 DEF Good, SessionRecord, FaultsOf, Faults, RequiresDiscard
<1> DEFINE e == FormatError(DiscardIfOpen(d), f)
<1>5. /\ e \in SessionRecord
      /\ e.where = d.where /\ e.step = d.step /\ e.faulted = d.faulted
      /\ e.recyclable => d.recyclable /\ ~RequiresDiscard(f)
  BY <1>3 DEF FormatError, DiscardIfOpen, SessionRecord, RequiresDiscard
<1>. QED
  BY <1>3, <1>4, <1>5 DEF Good

LEMMA BrokeOnRaw ==
    ASSUME NEW c, Good(c), c.where = "held", NEW f,
           NEW d \in Broke(c, "request", f, "raw")
    PROVE  Good(d) /\ d.where = "held"
<1>1. PICK x \in Ran(c, "request") :
        d = [x EXCEPT !.lost = @ \/ f = "transport",
               !.faulted = IF f = "other" THEN @ ELSE @ \cup {"raw"}]
  BY DEF Broke
<1>2. Good(x) /\ x.where = "held"
  BY RanGood
<1>3. /\ d \in SessionRecord
      /\ d.where = "held" /\ d.step = x.step /\ d.recyclable = x.recyclable
      /\ "client" \in d.faulted => "client" \in x.faulted
  BY <1>1, <1>2 DEF Good, SessionRecord
<1>. QED
  BY <1>2, <1>3 DEF Good

LEMMA InitInvariant == Init => IInv
BY DEF Init, IInv, Good, SessionRecord, Blank, Users

\* What a step of a session does: it ends in a good session, and if that makes
\* the session a request's, it was waiting for its startup script before.
Step(s) ==
    \E c : /\ Good(c) /\ Become(s, c)
           /\ c.where = "held" /\ sess[s].where # "held" =>
                /\ c.env = IF Script THEN {"script"} ELSE {}
                /\ c.txn # "request"
                /\ "client" \notin c.faulted

LEMMA RequestStep ==
    ASSUME IInv, NEW s \in Sessions, Request(s)
    PROVE  Step(s)
<1>. DEFINE c == sess[s]
<1>1. Good(c)
  BY DEF IInv
<1>2. c.where = "held"
  BY DEF Request, Call, CallFails, RawStart, RawEnd, RawFails, BatchBegin,
         BatchCommit, BatchFails, Return, Held
<1>. SUFFICES \E d : Good(d) /\ Become(s, d)
  BY <1>2 DEF Step
<1>3. CASE Call(s)
  <2>1. PICK d \in Ran(c, "request") : Become(s, DiscardIfOpen(d))
    BY <1>3 DEF Call
  <2>2. Good(d) /\ d.where = "held"
    BY <1>1, <1>2, RanGood
  <2>3. Good(DiscardIfOpen(d))
    BY <2>2 DEF Good, DiscardIfOpen, SessionRecord
  <2>. QED
    BY <2>1, <2>3
<1>4. CASE CallFails(s)
  <2>1. PICK f \in FaultsOf(c) : \E d \in Broke(c, "request", f, "client") :
           Become(s, FormatError(DiscardIfOpen(d), f))
    BY <1>4 DEF CallFails
  <2>. QED
    BY <1>1, <1>2, <2>1, BrokeOnClient
<1>5. CASE RawStart(s)
  <2>1. PICK d \in Ran(c, "request") : Become(s, [d EXCEPT !.step = "raw"])
    BY <1>5 DEF RawStart
  <2>2. Good(d) /\ d.where = "held"
    BY <1>1, <1>2, RanGood
  <2>3. Good([d EXCEPT !.step = "raw"])
    BY <2>2 DEF Good, SessionRecord
  <2>. QED
    BY <2>1, <2>3
<1>6. CASE RawEnd(s)
  BY <1>1, <1>2, <1>6 DEF RawEnd, Good, SessionRecord
<1>7. CASE RawFails(s)
  <2>1. PICK f \in FaultsOf(c) : \E d \in Broke(c, "request", f, "raw") :
           Become(s, [d EXCEPT !.step = "ready"])
    BY <1>7 DEF RawFails
  <2>2. PICK d \in Broke(c, "request", f, "raw") : Become(s, [d EXCEPT !.step = "ready"])
    BY <2>1
  <2>3. Good(d) /\ d.where = "held"
    BY <1>1, <1>2, <2>2, BrokeOnRaw
  <2>4. Good([d EXCEPT !.step = "ready"])
    BY <2>3 DEF Good, SessionRecord
  <2>. QED
    BY <2>2, <2>4
<1>8. CASE BatchBegin(s)
  BY <1>1, <1>2, <1>8 DEF BatchBegin, Good, SessionRecord, Users
<1>9. CASE BatchCommit(s)
  BY <1>1, <1>2, <1>9 DEF BatchCommit, Good, SessionRecord
<1>10. CASE BatchFails(s)
  <2>1. PICK f \in FaultsOf(c), t \in {"none", c.txn} :
           \E d \in Broke(c, "request", f, "raw") :
             Become(s, [d EXCEPT !.step = "ready", !.env = c.env,
                                 !.txn = IF d.lost THEN c.txn ELSE t])
    BY <1>10 DEF BatchFails
  <2>2. PICK d \in Broke(c, "request", f, "raw") :
             Become(s, [d EXCEPT !.step = "ready", !.env = c.env,
                                 !.txn = IF d.lost THEN c.txn ELSE t])
    BY <2>1
  <2>3. Good(d) /\ d.where = "held"
    BY <1>1, <1>2, <2>2, BrokeOnRaw
  <2>4. Good([d EXCEPT !.step = "ready", !.env = c.env,
                       !.txn = IF d.lost THEN c.txn ELSE t])
    BY <1>1, <2>3 DEF Good, SessionRecord
  <2>. QED
    BY <2>2, <2>4
<1>11. CASE Return(s)
  <2>1. Good(Blank)
    BY DEF Good, Blank, SessionRecord
  <2>2. c.step = "ready" /\ Good([c EXCEPT !.where = "idle"])
    BY <1>1, <1>11 DEF Return, Held, Good, SessionRecord
  <2>. QED
    BY <1>11, <2>1, <2>2 DEF Return
<1>. QED
  BY <1>3, <1>4, <1>5, <1>6, <1>7, <1>8, <1>9, <1>10, <1>11 DEF Request

LEMMA ManagerStep ==
    ASSUME IInv, NEW s \in Sessions, Manager(s)
    PROVE  Step(s)
<1>. DEFINE c == sess[s]
<1>1. Good(c)
  BY DEF IInv
<1>2. Good(Blank) /\ Blank.where = "none"
  BY DEF Good, Blank, SessionRecord
<1>3. CASE Connect(s)
  <2>1. Good([Blank EXCEPT !.where = "fresh"])
    BY DEF Good, Blank, SessionRecord
  <2>. QED
    BY <1>3, <2>1 DEF Connect, Step, Blank
<1>4. CASE Discard(s) \/ ScriptFails(s)
  BY <1>2, <1>4 DEF Discard, ScriptFails, Step
<1>5. CASE Reset(s)
  <2>1. Good([c EXCEPT !.where = "reset", !.env = {}])
    BY <1>1, <1>5 DEF Reset, MayRecycle, Good, SessionRecord
  <2>. QED
    BY <1>1, <1>5, <2>1 DEF Reset, Step, Good, SessionRecord
<1>6. CASE ApplyScript(s)
  <2>1. PICK t \in {c.txn} \cup (IF Script /\ ScriptBegins THEN {"script"} ELSE {}) :
          Become(s, [c EXCEPT !.where = "held", !.txn = t,
                              !.env = IF Script THEN @ \cup {"script"} ELSE @])
    BY <1>6 DEF ApplyScript
  <2>2. c.txn = "none" /\ c.env = {} /\ c.recyclable /\ c.step = "ready"
    BY <1>1, <1>6 DEF ApplyScript, Good
  <2>. DEFINE d == [c EXCEPT !.where = "held", !.txn = t,
                             !.env = IF Script THEN @ \cup {"script"} ELSE @]
  <2>3. /\ Good(d)
        /\ d.env = IF Script THEN {"script"} ELSE {}
        /\ d.txn # "request"
        /\ "client" \notin d.faulted
    BY <1>1, <2>2 DEF Good, SessionRecord, Users
  <2>. QED
    BY <2>1, <2>3 DEF Step
<1>. QED
  BY <1>3, <1>4, <1>5, <1>6 DEF Manager

LEMMA StepKeeps ==
    ASSUME IInv, [Next]_vars
    PROVE  /\ IInv'
           /\ \A s \in Sessions : HandedOut(s) =>
                /\ sess'[s].env = IF Script THEN {"script"} ELSE {}
                /\ sess'[s].txn # "request"
                /\ "client" \notin sess'[s].faulted
<1>1. CASE Next
  <2>1. PICK s \in Sessions : Step(s)
    BY <1>1, RequestStep, ManagerStep DEF Next
  <2>2. PICK c : /\ Good(c) /\ Become(s, c)
                 /\ c.where = "held" /\ sess[s].where # "held" =>
                      /\ c.env = IF Script THEN {"script"} ELSE {}
                      /\ c.txn # "request"
                      /\ "client" \notin c.faulted
    BY <2>1 DEF Step
  <2>3. IInv' /\ sess'[s] = c /\ \A t \in Sessions \ {s} : sess'[t] = sess[t]
    BY <2>2, BecomeKeeps
  <2>. QED
    BY <2>2, <2>3 DEF HandedOut
<1>2. CASE UNCHANGED vars
  BY <1>2 DEF vars, IInv, HandedOut, Good
<1>. QED
  BY <1>1, <1>2

LEMMA SessionInvariant == Spec => []IInv
<1>1. IInv /\ [Next]_vars => IInv'
  BY StepKeeps
<1>. QED
  BY <1>1, InitInvariant, PTL DEF Spec

\* Sessions are of their type, and none is in the pool with a batch or a
\* result stream half done.
THEOREM TypeCorrect == Spec => []TypeOK
<1>1. IInv => TypeOK
  BY DEF IInv, TypeOK, Good
<1>. QED
  BY <1>1, SessionInvariant, PTL

\* A request sees nothing of the requests before it, for any number of
\* sessions, with or without a startup script or a query timeout.
THEOREM HandoutsClean == Spec => CleanHandout
<1>1. IInv /\ [Next]_vars =>
        [\A s \in Sessions : HandedOut(s) =>
            /\ sess'[s].env = IF Script THEN {"script"} ELSE {}
            /\ sess'[s].txn # "request"]_vars
  BY StepKeeps
<1>. QED
  BY <1>1, SessionInvariant, PTL DEF Spec, CleanHandout

\* A session on which a client call met a fault serves no other request.
THEOREM FaultedSessionsDiscarded == Spec => ClientFaultsDiscarded
<1>1. IInv /\ [Next]_vars =>
        [\A s \in Sessions : HandedOut(s) => "client" \notin sess'[s].faulted]_vars
  BY StepKeeps
<1>. QED
  BY <1>1, SessionInvariant, PTL DEF Spec, ClientFaultsDiscarded

=============================================================================
