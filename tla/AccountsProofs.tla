--------------------------- MODULE AccountsProofs ---------------------------
(***************************************************************************)
(* Proofs about Accounts, for any handlers, accounts and privileges.       *)
(***************************************************************************)
EXTENDS Accounts, TLAPS

Working == {"begin", "change", "commit"}

InTransaction == {"change", "rollback", "commit"}

Target(c) == IF c.grant THEN "grant" ELSE "none"

\* A batch in progress: what is left of the plan, who has the transaction, and
\* that the transaction has changed what is done of the plan and nothing else.
Progress(h) ==
    LET c == ctl[h]
        u == c.user
    IN  /\ c.step \in Working => c.todo \subseteq c.plan
        /\ c.step = "begin" => c.todo = c.plan
        /\ c.step = "change" /\ c.todo # c.plan => txn[u] = h
        /\ c.step = "change" /\ c.todo = c.plan => txn[u] # h
        /\ c.step = "commit" => c.todo = {} /\ txn[u] = h
        /\ c.step \in {"change", "commit"} /\ txn[u] = h =>
             \A p \in Privs : perms[u][p] =
                IF p \in c.plan \ c.todo THEN Target(c) ELSE undo[u][p]

Inv == TypeOK /\ \A h \in Handlers : Progress(h)

USE DEF At, Goto, After, permVars, Unlocked

LEMMA InitSteps ==
    Init => /\ ctl \in [Handlers -> Request]
            /\ \A h \in Handlers : ctl[h].step = "idle" /\ ctl[h].made = None
<1>. SUFFICES ASSUME Init
              PROVE  ctl \in [Handlers -> Request]
                     /\ \A h \in Handlers : ctl[h].step = "idle" /\ ctl[h].made = None
  OBVIOUS
<1>1. PICK us \in [Handlers -> Users], ls \in [Handlers -> Logins] :
        ctl = [h \in Handlers |-> Begin("idle", us[h], ls[h], TRUE, {})]
  BY DEF Init
<1>2. \A h \in Handlers : ctl[h] \in Request /\ ctl[h].step = "idle" /\ ctl[h].made = None
  BY <1>1 DEF Begin, Request, Steps
<1>. QED
  BY <1>1, <1>2

LEMMA InitInv == Init => Inv
<1>. SUFFICES ASSUME Init PROVE Inv
  OBVIOUS
<1>1. ctl \in [Handlers -> Request] /\ \A h \in Handlers : ctl[h].step = "idle"
  BY InitSteps
<1>2. TypeOK
  <2>1. logins \in [Logins -> Sids \cup {None}]
    BY DEF Init
  <2>2. users \in [Users -> Sids \cup {None}]
    BY <2>1 DEF Init
  <2>3. /\ perms \in [Users -> [Privs -> States]]
        /\ txn \in [Users -> Handlers \cup {None, Abandoned}]
        /\ undo \in [Users -> [Privs -> States]]
        /\ \A u \in Users : txn[u] = None
    BY DEF Init, NoPerms, States
  <2>. QED
    BY <1>1, <2>1, <2>2, <2>3, AccountsAssumption DEF TypeOK
<1>3. \A h \in Handlers : Progress(h)
  BY <1>1 DEF Progress, Working
<1>. QED
  BY <1>2, <1>3 DEF Inv

\* Only handler h and permissions that no other handler is changing are touched.
Apart(h) ==
    /\ perms' \in [Users -> [Privs -> States]]
    /\ txn' \in [Users -> Handlers \cup {None, Abandoned}]
    /\ undo' \in [Users -> [Privs -> States]]
    /\ \A u \in Users : txn'[u] # h
    /\ \A u \in Users, g \in Handlers : g # h =>
         /\ txn'[u] = g <=> txn[u] = g
         /\ txn[u] = g => perms'[u] = perms[u] /\ undo'[u] = undo[u]

\* A step that leaves its handler without a transaction disturbs no batch.
LEMMA WithoutTransaction ==
    ASSUME Inv, NEW h \in Handlers, NEW c \in Request,
           Become(h, c), Apart(h),
           c.step # "commit", c.step \in Working => c.todo = c.plan,
           logins' \in [Logins -> Sids \cup {None}],
           users' \in [Users -> Sids \cup {None}]
    PROVE  Inv'
<1>1. \A g \in Handlers : ctl'[g] = IF g = h THEN c ELSE ctl[g]
  BY DEF Inv, TypeOK, Become
<1>2. ctl' \in [Handlers -> Request]
  BY DEF Inv, TypeOK, Become
<1>3. TypeOK'
  BY <1>1, <1>2 DEF Inv, TypeOK, Apart
<1>4. ASSUME NEW g \in Handlers PROVE Progress(g)'
  <2>1. CASE g = h
    BY <1>1, <1>2, <2>1 DEF Progress, Working, Apart, Request
  <2>2. CASE g # h
    <3>1. ctl[g].user \in Users
      BY DEF Inv, TypeOK, Request
    <3>. QED
      BY <1>1, <2>2, <3>1 DEF Inv, Progress, Working, Target, Apart
  <2>. QED
    BY <2>1, <2>2
<1>. QED
  BY <1>3, <1>4 DEF Inv

\* A step outside transactions, permissions untouched.
LEMMA OutsideBatch ==
    ASSUME Inv, NEW h \in Handlers, NEW c \in Request,
           Become(h, c),
           c.step # "commit", c.step \in Working => c.todo = c.plan,
           ctl[h].step \notin InTransaction,
           UNCHANGED permVars,
           logins' \in [Logins -> Sids \cup {None}],
           users' \in [Users -> Sids \cup {None}]
    PROVE  Inv'
<1>1. Apart(h)
  BY DEF Inv, TypeOK, InTransaction, Apart
<1>. QED
  BY <1>1, WithoutTransaction

LEMMA CreateLoginInv ==
    ASSUME Inv, NEW h \in Handlers, CreateLogin(h)
    PROVE  Inv'
<1>1. ctl[h] \in Request /\ ctl[h].login \in Logins /\ ctl[h].user \in Users
  BY DEF Inv, TypeOK, Request
<1>2. PICK o \in Outcomes(logins[ctl[h].login] = None), s \in Sids :
        /\ logins' = IF Done(o) THEN [logins EXCEPT ![ctl[h].login] = s] ELSE logins
        /\ Become(h, [ctl[h] EXCEPT !.step = IF o = "ok" THEN "createUser" ELSE "error",
                                    !.made = IF Done(o) THEN s ELSE None,
                                    !.excused = @ \/ Unsure(o)])
  BY DEF CreateLogin
<1> DEFINE step == IF o = "ok" THEN "createUser" ELSE "error"
           made == IF Done(o) THEN s ELSE None
           excused == ctl[h].excused \/ Unsure(o)
           c == [ctl[h] EXCEPT !.step = step, !.made = made, !.excused = excused]
<1>3. step \in {"createUser", "error"} /\ step \in Steps /\ excused \in BOOLEAN /\ made \in Sids \cup {None}
  BY <1>1 DEF Steps, Unsure, Request
<1>4. Become(h, c)
  BY <1>2
<1>. HIDE DEF step, excused, made
<1>5. c \in Request /\ c.step = step
  BY <1>1, <1>3 DEF Request
<1>6. logins' \in [Logins -> Sids \cup {None}]
  BY <1>1, <1>2 DEF Inv, TypeOK
<1>7. UNCHANGED permVars /\ users' \in [Users -> Sids \cup {None}] /\ ctl[h].step = "createLogin"
  BY DEF CreateLogin, Inv, TypeOK
<1>. HIDE DEF c
<1>. QED
  BY <1>3, <1>4, <1>5, <1>6, <1>7, OutsideBatch DEF InTransaction, Working

LEMMA CreateUserInv ==
    ASSUME Inv, NEW h \in Handlers, CreateUser(h)
    PROVE  Inv'
<1>1. ctl[h] \in Request /\ ctl[h].login \in Logins /\ ctl[h].user \in Users
  BY DEF Inv, TypeOK, Request
<1>2. PICK o \in Outcomes(users[ctl[h].user] = None /\ logins[ctl[h].login] # None) :
        /\ users' = IF Done(o) THEN [users EXCEPT ![ctl[h].user] = logins[ctl[h].login]] ELSE users
        /\ After(h, o, IF o = "ok" THEN "ok" ELSE "cleanup")
  BY DEF CreateUser
<1> DEFINE step == IF o = "ok" THEN "ok" ELSE "cleanup"
           excused == ctl[h].excused \/ Unsure(o)
           c == [ctl[h] EXCEPT !.step = step, !.excused = excused]
<1>3. step \in {"ok", "cleanup"} /\ step \in Steps /\ excused \in BOOLEAN
  BY <1>1 DEF Steps, Unsure, Request
<1>4. Become(h, c)
  BY <1>2
<1>. HIDE DEF step, excused
<1>5. c \in Request /\ c.step = step
  BY <1>1, <1>3 DEF Request
<1>6. users' \in [Users -> Sids \cup {None}]
  BY <1>1, <1>2 DEF Inv, TypeOK
<1>7. UNCHANGED permVars /\ logins' \in [Logins -> Sids \cup {None}] /\ ctl[h].step = "createUser"
  BY DEF CreateUser, Inv, TypeOK
<1>. HIDE DEF c
<1>. QED
  BY <1>3, <1>4, <1>5, <1>6, <1>7, OutsideBatch DEF InTransaction, Working

LEMMA CleanupInv ==
    ASSUME Inv, NEW h \in Handlers, Cleanup(h)
    PROVE  Inv'
<1>1. ctl[h] \in Request /\ ctl[h].login \in Logins /\ ctl[h].user \in Users
  BY DEF Inv, TypeOK, Request
<1>2. PICK o \in Outcomes(logins[ctl[h].login] # None) :
        /\ logins' = IF Done(o) THEN [logins EXCEPT ![ctl[h].login] = None] ELSE logins
        /\ Become(h, [ctl[h] EXCEPT !.step = "error", !.excused = @ \/ o # "ok"])
  BY DEF Cleanup
<1> DEFINE step == "error"
           excused == ctl[h].excused \/ o # "ok"
           c == [ctl[h] EXCEPT !.step = step, !.excused = excused]
<1>3. step \in {"error"} /\ step \in Steps /\ excused \in BOOLEAN
  BY <1>1 DEF Steps, Unsure, Request
<1>4. Become(h, c)
  BY <1>2
<1>. HIDE DEF step, excused
<1>5. c \in Request /\ c.step = step
  BY <1>1, <1>3 DEF Request
<1>6. logins' \in [Logins -> Sids \cup {None}]
  BY <1>1, <1>2 DEF Inv, TypeOK
<1>7. UNCHANGED permVars /\ users' \in [Users -> Sids \cup {None}] /\ ctl[h].step = "cleanup"
  BY DEF Cleanup, Inv, TypeOK
<1>. HIDE DEF c
<1>. QED
  BY <1>3, <1>4, <1>5, <1>6, <1>7, OutsideBatch DEF InTransaction, Working

LEMMA DropLoginInv ==
    ASSUME Inv, NEW h \in Handlers, DropLogin(h)
    PROVE  Inv'
<1>1. ctl[h] \in Request /\ ctl[h].login \in Logins /\ ctl[h].user \in Users
  BY DEF Inv, TypeOK, Request
<1>2. PICK o \in Outcomes(logins[ctl[h].login] # None) :
        /\ logins' = IF Done(o) THEN [logins EXCEPT ![ctl[h].login] = None] ELSE logins
        /\ After(h, o, IF o = "ok" THEN "ok" ELSE "error")
  BY DEF DropLogin
<1> DEFINE step == IF o = "ok" THEN "ok" ELSE "error"
           excused == ctl[h].excused \/ Unsure(o)
           c == [ctl[h] EXCEPT !.step = step, !.excused = excused]
<1>3. step \in {"ok", "error"} /\ step \in Steps /\ excused \in BOOLEAN
  BY <1>1 DEF Steps, Unsure, Request
<1>4. Become(h, c)
  BY <1>2
<1>. HIDE DEF step, excused
<1>5. c \in Request /\ c.step = step
  BY <1>1, <1>3 DEF Request
<1>6. logins' \in [Logins -> Sids \cup {None}]
  BY <1>1, <1>2 DEF Inv, TypeOK
<1>7. UNCHANGED permVars /\ users' \in [Users -> Sids \cup {None}] /\ ctl[h].step = "dropLogin"
  BY DEF DropLogin, Inv, TypeOK
<1>. HIDE DEF c
<1>. QED
  BY <1>3, <1>4, <1>5, <1>6, <1>7, OutsideBatch DEF InTransaction, Working

LEMMA SetPasswordInv ==
    ASSUME Inv, NEW h \in Handlers, SetPassword(h)
    PROVE  Inv'
<1>1. ctl[h] \in Request /\ ctl[h].login \in Logins /\ ctl[h].user \in Users
  BY DEF Inv, TypeOK, Request
<1>2. PICK o \in Outcomes(logins[ctl[h].login] # None) :
        After(h, o, IF o = "ok" THEN "ok" ELSE "error")
  BY DEF SetPassword
<1> DEFINE step == IF o = "ok" THEN "ok" ELSE "error"
           excused == ctl[h].excused \/ Unsure(o)
           c == [ctl[h] EXCEPT !.step = step, !.excused = excused]
<1>3. step \in {"ok", "error"} /\ step \in Steps /\ excused \in BOOLEAN
  BY <1>1 DEF Steps, Unsure, Request
<1>4. Become(h, c)
  BY <1>2
<1>. HIDE DEF step, excused
<1>5. c \in Request /\ c.step = step
  BY <1>1, <1>3 DEF Request
<1>6. UNCHANGED permVars /\ logins' \in [Logins -> Sids \cup {None}] /\ users' \in [Users -> Sids \cup {None}] /\ ctl[h].step = "setPassword"
  BY DEF SetPassword, Inv, TypeOK
<1>. HIDE DEF c
<1>. QED
  BY <1>3, <1>4, <1>5, <1>6, OutsideBatch DEF InTransaction, Working

LEMMA ExistsInv ==
    ASSUME Inv, NEW h \in Handlers, LoginExists(h) \/ UserExists(h)
    PROVE  Inv'
<1>1. ctl[h] \in Request
  BY DEF Inv, TypeOK
<1>2. PICK s \in {"error", "userExists", "createLogin"} : Become(h, [ctl[h] EXCEPT !.step = s])
  BY DEF LoginExists, UserExists
<1> DEFINE c == [ctl[h] EXCEPT !.step = s]
<1>3. c \in Request /\ c.step = s
  BY <1>1 DEF Request, Steps
<1>4. UNCHANGED permVars /\ logins' \in [Logins -> Sids \cup {None}] /\ users' \in [Users -> Sids \cup {None}]
  BY DEF LoginExists, UserExists, Inv, TypeOK
<1>5. ctl[h].step \in {"loginExists", "userExists"}
  BY DEF LoginExists, UserExists
<1>6. Become(h, c)
  BY <1>2
<1>. HIDE DEF c
<1>. QED
  BY <1>3, <1>4, <1>5, <1>6, OutsideBatch DEF InTransaction, Working

LEMMA EnsureInv ==
    ASSUME Inv, NEW h \in Handlers, \/ Ensure(h, "dropCheck", "dropUser")
                                \/ Ensure(h, "passwordCheck", "setPassword")
                                \/ Ensure(h, "applyCheck", "inspect")
    PROVE  Inv'
<1>1. ctl[h] \in Request
  BY DEF Inv, TypeOK
<1>2. PICK s \in {"error", "dropUser", "setPassword", "inspect"} : Become(h, [ctl[h] EXCEPT !.step = s])
  BY DEF Ensure
<1> DEFINE c == [ctl[h] EXCEPT !.step = s]
<1>3. c \in Request /\ c.step = s
  BY <1>1 DEF Request, Steps
<1>4. UNCHANGED permVars /\ logins' \in [Logins -> Sids \cup {None}] /\ users' \in [Users -> Sids \cup {None}]
  BY DEF Ensure, Inv, TypeOK
<1>5. ctl[h].step \in {"dropCheck", "passwordCheck", "applyCheck"}
  BY DEF Ensure
<1>6. Become(h, c)
  BY <1>2
<1>. HIDE DEF c
<1>. QED
  BY <1>3, <1>4, <1>5, <1>6, OutsideBatch DEF InTransaction, Working

LEMMA ReceiveInv ==
    ASSUME Inv, NEW h \in Handlers, Receive(h) \/ Answer(h)
    PROVE  Inv'
<1>1. PICK u \in Users, l \in Logins, g \in BOOLEAN, ps \in SUBSET Privs,
           s \in {"idle", "loginExists", "dropCheck", "passwordCheck", "applyCheck"} :
             Become(h, Begin(s, u, l, g, ps))
  <2>1. CASE Receive(h)
    BY <2>1 DEF Receive
  <2>2. CASE Answer(h)
    <3>1. ctl[h].user \in Users /\ ctl[h].login \in Logins
      BY DEF Inv, TypeOK, Request
    <3>. QED
      BY <2>2, <3>1 DEF Answer
  <2>. QED
    BY <2>1, <2>2
<1>2. Begin(s, u, l, g, ps) \in Request /\ Begin(s, u, l, g, ps).step = s
  BY DEF Begin, Request, Steps
<1>3. /\ UNCHANGED permVars /\ ctl[h].step \in {"idle", "ok", "error"}
      /\ logins' \in [Logins -> Sids \cup {None}]
      /\ users' \in [Users -> Sids \cup {None}]
  BY DEF Receive, Answer, Inv, TypeOK
<1>. QED
  BY <1>1, <1>2, <1>3, OutsideBatch DEF InTransaction, Working

\* What a request does about the permissions it found: nothing, or a plan that
\* is still whole and that no denied permission is part of.
LEMMA PlanIsWhole ==
    ASSUME Inv, NEW h \in Handlers
    PROVE  /\ Plan(h) \in Request
           /\ Plan(h).user = ctl[h].user /\ Plan(h).made = ctl[h].made
           /\ Plan(h).step \in {"error", "ok", "begin"}
           /\ Plan(h).step = "begin" =>
                /\ Plan(h).todo = Plan(h).plan
                /\ \A p \in Plan(h).plan : perms[ctl[h].user][p] # "deny"
<1> DEFINE c == ctl[h]
           diff == {p \in c.asked : (perms[c.user][p] \in Granted) # c.grant}
<1>1. c \in Request
  BY DEF Inv, TypeOK
<1>2. diff \in SUBSET Privs /\ diff \subseteq c.asked
  BY <1>1 DEF Request
<1>3. CASE c.asked = {} \/ \E p \in c.asked : perms[c.user][p] = "deny"
  <2>1. Plan(h) = [c EXCEPT !.step = "error"]
    BY <1>3 DEF Plan
  <2>. QED
    BY <1>1, <2>1 DEF Request, Steps
<1>4. CASE ~(c.asked = {} \/ \E p \in c.asked : perms[c.user][p] = "deny") /\ diff = {}
  <2>1. Plan(h) = [c EXCEPT !.step = "ok"]
    BY <1>4 DEF Plan
  <2>. QED
    BY <1>1, <2>1 DEF Request, Steps
<1>5. CASE ~(c.asked = {} \/ \E p \in c.asked : perms[c.user][p] = "deny") /\ diff # {}
  <2>1. Plan(h) = [c EXCEPT !.step = "begin", !.plan = diff, !.todo = diff]
    BY <1>5 DEF Plan
  <2>2. \A p \in diff : perms[c.user][p] # "deny"
    BY <1>5
  <2>. HIDE DEF diff
  <2>3. Plan(h).step = "begin" /\ Plan(h).plan = diff /\ Plan(h).todo = diff
    BY <1>1, <2>1 DEF Request
  <2>4. Plan(h) \in Request
    BY <1>1, <1>2, <2>1 DEF Request, Steps
  <2>. QED
    BY <1>1, <1>2, <2>1, <2>2, <2>3, <2>4
<1>. QED
  BY <1>3, <1>4, <1>5

LEMMA InspectInv ==
    ASSUME Inv, NEW h \in Handlers, Inspect(h)
    PROVE  Inv'
<1>1. /\ UNCHANGED permVars /\ ctl[h].step = "inspect"
      /\ logins' \in [Logins -> Sids \cup {None}]
      /\ users' \in [Users -> Sids \cup {None}]
  BY DEF Inspect, Inv, TypeOK
<1>2. CASE Goto(h, "error")
  <2> DEFINE c == [ctl[h] EXCEPT !.step = "error"]
  <2>1. ctl[h] \in Request
    BY DEF Inv, TypeOK
  <2>2. c \in Request /\ c.step = "error"
    BY <2>1 DEF Request, Steps
  <2>3. Become(h, c)
    BY <1>2
  <2>. HIDE DEF c
  <2>. QED
    BY <1>1, <2>2, <2>3, OutsideBatch DEF InTransaction, Working
<1>3. CASE Become(h, Plan(h))
  BY <1>1, <1>3, PlanIsWhole, OutsideBatch DEF InTransaction, Working
<1>. QED
  BY <1>2, <1>3 DEF Inspect

LEMMA BeginTransactionInv ==
    ASSUME Inv, NEW h \in Handlers, BeginTransaction(h)
    PROVE  Inv'
<1>1. ctl[h] \in Request
  BY DEF Inv, TypeOK
<1>2. PICK s \in {"change", "error"} : Become(h, [ctl[h] EXCEPT !.step = s])
  BY DEF BeginTransaction
<1> DEFINE c == [ctl[h] EXCEPT !.step = s]
<1>3. c \in Request /\ c.step = s /\ c.todo = ctl[h].todo /\ c.plan = ctl[h].plan
  BY <1>1 DEF Request, Steps
<1>4. /\ UNCHANGED permVars /\ ctl[h].step = "begin"
      /\ logins' \in [Logins -> Sids \cup {None}]
      /\ users' \in [Users -> Sids \cup {None}]
  BY DEF BeginTransaction, Inv, TypeOK
<1>5. ctl[h].todo = ctl[h].plan
  BY <1>4 DEF Inv, Progress
<1>6. Become(h, c)
  BY <1>2
<1>. HIDE DEF c
<1>. QED
  BY <1>3, <1>4, <1>5, <1>6, OutsideBatch DEF InTransaction, Working

LEMMA DropUserInv ==
    ASSUME Inv, NEW h \in Handlers, DropUser(h)
    PROVE  Inv'
<1>1. ctl[h] \in Request /\ ctl[h].user \in Users
  BY DEF Inv, TypeOK, Request
<1>2. PICK o \in Outcomes(users[ctl[h].user] # None /\ Unlocked(ctl[h].user)) :
        /\ users' = IF Done(o) THEN [users EXCEPT ![ctl[h].user] = None] ELSE users
        /\ perms' = IF Done(o) THEN [perms EXCEPT ![ctl[h].user] = NoPerms] ELSE perms
        /\ After(h, o, IF o = "ok" THEN "dropLogin" ELSE "error")
  BY DEF DropUser
<1> DEFINE step == IF o = "ok" THEN "dropLogin" ELSE "error"
           excused == ctl[h].excused \/ Unsure(o)
           c == [ctl[h] EXCEPT !.step = step, !.excused = excused]
<1>3. step \in {"dropLogin", "error"} /\ step \in Steps /\ excused \in BOOLEAN
  BY <1>1 DEF Steps, Unsure, Request
<1>4. Become(h, c)
  BY <1>2
<1>. HIDE DEF step, excused
<1>5. c \in Request /\ c.step = step
  BY <1>1, <1>3 DEF Request
<1>6. /\ users' \in [Users -> Sids \cup {None}]
      /\ logins' \in [Logins -> Sids \cup {None}]
      /\ perms' \in [Users -> [Privs -> States]]
  BY <1>1, <1>2 DEF DropUser, Inv, TypeOK, NoPerms, States
<1>7. UNCHANGED <<txn, undo>> /\ \A u \in Users : txn[u] # h
  BY DEF DropUser, Inv, TypeOK
<1>8. \A u \in Users : txn[u] # None => perms'[u] = perms[u]
  BY <1>1, <1>2 DEF Outcomes, Done, Inv, TypeOK
<1>9. Apart(h)
  BY <1>6, <1>7, <1>8, AccountsAssumption DEF Apart, Inv, TypeOK
<1>. HIDE DEF c
<1>. QED
  BY <1>3, <1>4, <1>5, <1>6, <1>9, WithoutTransaction DEF Working

\* A statement takes effect only if the server can carry it out.
LEMMA Only ==
    ASSUME NEW possible, NEW o \in Outcomes(possible), Done(o)
    PROVE  possible
BY DEF Outcomes, Done

\* One statement of the batch: the transaction is h's, and has changed one
\* privilege more.
LEMMA ChangeInv ==
    ASSUME Inv, NEW h \in Handlers, Change(h)
    PROVE  Inv'
<1> DEFINE c == ctl[h]
           u == c.user
<1>1. c \in Request /\ u \in Users /\ c.todo \subseteq c.plan /\ c.step = "change"
  BY DEF Inv, TypeOK, Request, Progress, Change, Working
<1> DEFINE Statement(p, o) ==
             /\ perms' = IF Done(o)
                         THEN [perms EXCEPT ![u][p] = IF c.grant THEN "grant" ELSE "none"]
                         ELSE perms
             /\ txn' = IF Done(o) THEN [txn EXCEPT ![u] = h] ELSE txn
             /\ undo' = IF Done(o) /\ txn[u] = None THEN [undo EXCEPT ![u] = perms[u]] ELSE undo
             /\ Become(h, [c EXCEPT
                  !.todo = @ \ {p},
                  !.step = IF o # "ok" THEN "rollback"
                           ELSE IF c.todo = {p} THEN "commit" ELSE "change",
                  !.excused = @ \/ Unsure(o)])
           Possible(p) == /\ users[u] # None
                          /\ txn[u] \in {None, h}
                          /\ c.grant \/ perms[u][p] # "option"
<1>2. \E p \in c.todo : \E o \in Outcomes(Possible(p)) : Statement(p, o)
  BY DEF Change
<1>. HIDE DEF Possible, Statement
<1>3. PICK p \in c.todo : \E o \in Outcomes(Possible(p)) : Statement(p, o)
  BY <1>2
<1>4. PICK o \in Outcomes(Possible(p)) : Statement(p, o)
  BY <1>3
<1>5. Done(o) => Possible(p)
  BY <1>4, Only
<1>. USE DEF Possible, Statement
<1> DEFINE step == IF o # "ok" THEN "rollback" ELSE IF c.todo = {p} THEN "commit" ELSE "change"
           excused == c.excused \/ Unsure(o)
           todo == c.todo \ {p}
           d == [c EXCEPT !.todo = todo, !.step = step, !.excused = excused]
<1>6. /\ step \in Steps /\ excused \in BOOLEAN /\ todo \in SUBSET Privs
      /\ p \in Privs /\ p \in c.plan
      /\ step \in {"rollback", "commit", "change"}
      /\ step = "commit" => todo = {}
      /\ step \in {"commit", "change"} => o = "ok"
      /\ todo \subseteq c.plan /\ todo # c.plan
  BY <1>1, <1>4 DEF Steps, Unsure, Request
<1>7. Become(h, d)
  BY <1>4
<1>8. todo = c.todo \ {p}
  OBVIOUS
<1>. HIDE DEF step, excused, todo
<1>9. /\ d \in Request /\ d.step = step /\ d.todo = todo /\ d.user = u
      /\ d.plan = c.plan /\ d.grant = c.grant
  BY <1>1, <1>6 DEF Request
<1>10. o = "ok" => Done(o)
  BY DEF Done
<1>11. Done(o) => txn[u] \in {None, h}
  BY <1>5
<1>. HIDE DEF d
<1>12. /\ \A g \in Handlers : ctl'[g] = IF g = h THEN d ELSE ctl[g]
      /\ ctl' \in [Handlers -> Request]
  BY <1>7, <1>9 DEF Inv, TypeOK, Become
<1>13. /\ perms' \in [Users -> [Privs -> States]]
       /\ txn' \in [Users -> Handlers \cup {None, Abandoned}]
       /\ undo' \in [Users -> [Privs -> States]]
  BY <1>1, <1>4, <1>6 DEF Inv, TypeOK, States
<1>14. \A v \in Users : v # u =>
         perms'[v] = perms[v] /\ txn'[v] = txn[v] /\ undo'[v] = undo[v]
  BY <1>1, <1>4 DEF Inv, TypeOK
<1>15. TypeOK'
  <2>1. \A v \in Users, g \in Handlers : txn'[v] = g =>
          ctl'[g].user = v /\ ctl'[g].step \in {"change", "rollback", "commit"}
    <3>. SUFFICES ASSUME NEW v \in Users, NEW g \in Handlers, txn'[v] = g
                  PROVE  ctl'[g].user = v /\ ctl'[g].step \in {"change", "rollback", "commit"}
      OBVIOUS
    <3>1. CASE g = h
      <4>1. v = u
        BY <1>1, <1>14, <3>1 DEF Inv, TypeOK
      <4>. QED
        BY <1>6, <1>9, <1>12, <3>1, <4>1
    <3>2. CASE g # h
      <4>1. txn[v] = g
        BY <1>1, <1>4, <3>2 DEF Inv, TypeOK
      <4>. QED
        BY <1>12, <3>2, <4>1 DEF Inv, TypeOK
    <3>. QED
      BY <3>1, <3>2
  <2>2. /\ logins' \in [Logins -> Sids \cup {None}]
        /\ users' \in [Users -> Sids \cup {None}]
    BY DEF Change, Inv, TypeOK
  <2>. QED
    BY <1>12, <1>13, <2>1, <2>2 DEF TypeOK
<1>16. Progress(h)'
  <2>1. CASE o = "ok"
    <3>1. txn'[u] = h /\ txn[u] \in {None, h}
      BY <1>1, <1>4, <1>10, <1>11, <2>1 DEF Inv, TypeOK
    <3>2. perms'[u] = [perms[u] EXCEPT ![p] = Target(c)]
      BY <1>1, <1>4, <1>10, <2>1 DEF Inv, TypeOK, Target
    <3>3. \A q \in Privs : perms'[u][q] =
            IF q \in c.plan \ todo THEN Target(c) ELSE undo'[u][q]
      <4>1. CASE txn[u] = h
        <5>1. undo'[u] = undo[u]
          BY <1>4, <4>1, AccountsAssumption
        <5>2. \A q \in Privs : perms[u][q] =
                IF q \in c.plan \ c.todo THEN Target(c) ELSE undo[u][q]
          BY <1>1, <4>1 DEF Inv, Progress
        <5>. QED
          BY <1>1, <1>6, <1>8, <3>2, <5>1, <5>2 DEF Inv, TypeOK
      <4>2. CASE txn[u] = None
        <5>1. undo'[u] = perms[u]
          BY <1>1, <1>4, <1>10, <2>1, <4>2 DEF Inv, TypeOK
        <5>2. c.todo = c.plan
          BY <1>1, <4>2, AccountsAssumption DEF Inv, Progress
        <5>. QED
          BY <1>1, <1>6, <1>8, <3>2, <5>1, <5>2 DEF Inv, TypeOK
      <4>. QED
        BY <3>1, <4>1, <4>2
    <3>. QED
      BY <1>6, <1>9, <1>12, <3>1, <3>3 DEF Progress, Working, Target
  <2>2. CASE o # "ok"
    BY <1>6, <1>9, <1>12, <2>2 DEF Progress, Working
  <2>. QED
    BY <2>1, <2>2
<1>17. ASSUME NEW g \in Handlers, g # h PROVE Progress(g)'
  <2>1. ctl[g].user \in Users /\ ctl'[g] = ctl[g] /\ Progress(g)
    BY <1>12, <1>17 DEF Inv, TypeOK, Request
  <2>2. CASE ctl[g].user = u /\ Done(o)
    <3>1. txn[u] # g /\ txn'[u] # g
      BY <1>1, <1>4, <1>11, <1>17, <2>2, AccountsAssumption DEF Inv, TypeOK
    <3>. QED
      BY <2>1, <2>2, <3>1 DEF Progress, Working
  <2>3. CASE ~(ctl[g].user = u /\ Done(o))
    <3> DEFINE v == ctl[g].user
    <3>1. perms'[v] = perms[v] /\ txn'[v] = txn[v] /\ undo'[v] = undo[v]
      BY <1>4, <1>14, <2>1, <2>3
    <3>. QED
      BY <2>1, <3>1 DEF Progress, Working, Target
  <2>. QED
    BY <2>2, <2>3
<1>. QED
  BY <1>15, <1>16, <1>17 DEF Inv

LEMMA EndsTypes ==
    ASSUME Inv, NEW u \in Users, NEW ps \in [Privs -> States], Ends(u, ps)
    PROVE  /\ perms' \in [Users -> [Privs -> States]]
           /\ txn' \in [Users -> Handlers \cup {None, Abandoned}]
           /\ undo' \in [Users -> [Privs -> States]]
           /\ txn'[u] = None /\ perms'[u] = ps
           /\ \A v \in Users : v # u =>
                perms'[v] = perms[v] /\ txn'[v] = txn[v] /\ undo'[v] = undo[v]
<1>1. NoPerms \in [Privs -> States]
  BY DEF NoPerms, States
<1>. QED
  BY <1>1 DEF Inv, TypeOK, Ends

LEMMA EndsApart ==
    ASSUME Inv, NEW h \in Handlers, NEW u \in Users, NEW ps \in [Privs -> States],
           txn[u] = h, Ends(u, ps), \A v \in Users : txn[v] = h => v = u
    PROVE  Apart(h)
<1>1. /\ perms' \in [Users -> [Privs -> States]]
      /\ txn' \in [Users -> Handlers \cup {None, Abandoned}]
      /\ undo' \in [Users -> [Privs -> States]]
      /\ txn'[u] = None
      /\ \A v \in Users : v # u =>
           perms'[v] = perms[v] /\ txn'[v] = txn[v] /\ undo'[v] = undo[v]
  BY EndsTypes
<1>. QED
  BY <1>1, AccountsAssumption DEF Apart

LEMMA AbandonTypes ==
    ASSUME Inv, NEW h \in Handlers, Abandon(h)
    PROVE  /\ perms' \in [Users -> [Privs -> States]]
           /\ txn' \in [Users -> Handlers \cup {None, Abandoned}]
           /\ undo' \in [Users -> [Privs -> States]]
           /\ UNCHANGED <<perms, undo>>
           /\ \A v \in Users : txn'[v] = IF txn[v] = h THEN Abandoned ELSE txn[v]
BY DEF Inv, TypeOK, Abandon

LEMMA RollbackInv ==
    ASSUME Inv, NEW h \in Handlers, Rollback(h)
    PROVE  Inv'
<1> DEFINE u == ctl[h].user
           c == [ctl[h] EXCEPT !.step = "error"]
<1>1. ctl[h] \in Request /\ u \in Users
  BY DEF Inv, TypeOK, Request
<1>2. c \in Request /\ c.step = "error" /\ Become(h, c)
  BY <1>1 DEF Rollback, Request, Steps
<1>3. /\ logins' \in [Logins -> Sids \cup {None}]
      /\ users' \in [Users -> Sids \cup {None}]
      /\ undo[u] \in [Privs -> States]
  BY <1>1 DEF Rollback, Inv, TypeOK
<1>4. \A v \in Users : txn[v] = h => v = u
  BY DEF Inv, TypeOK
<1>5. Apart(h)
  <2>1. CASE txn[u] = h /\ Ends(u, undo[u])
    <3>1. Ends(u, undo[u])
      BY <2>1
    <3>. QED
      BY <1>1, <1>3, <1>4, <2>1, <3>1, EndsApart
  <2>2. CASE txn[u] # h /\ UNCHANGED permVars
    BY <1>4, <2>2 DEF Apart, Inv, TypeOK
  <2>3. CASE Abandon(h)
    BY <2>3, AbandonTypes, AccountsAssumption DEF Apart
  <2>. QED
    BY <2>1, <2>2, <2>3 DEF Rollback
<1>. HIDE DEF c
<1>. QED
  BY <1>2, <1>3, <1>5, WithoutTransaction DEF Working

LEMMA CommitInv ==
    ASSUME Inv, NEW h \in Handlers, Commit(h)
    PROVE  Inv'
<1>1. ctl[h] \in Request /\ ctl[h].user \in Users
  BY DEF Inv, TypeOK, Request
<1>2. PICK o \in Outcomes(TRUE) :
        /\ IF Done(o) THEN Ends(ctl[h].user, perms[ctl[h].user]) ELSE Abandon(h)
        /\ After(h, o, IF o = "ok" THEN "ok" ELSE "error")
  BY DEF Commit
<1> DEFINE step == IF o = "ok" THEN "ok" ELSE "error"
           excused == ctl[h].excused \/ Unsure(o)
           c == [ctl[h] EXCEPT !.step = step, !.excused = excused]
<1>3. step \in {"ok", "error"} /\ step \in Steps /\ excused \in BOOLEAN
  BY <1>1 DEF Steps, Unsure, Request
<1>4. Become(h, c)
  BY <1>2
<1>. HIDE DEF step, excused
<1>5. c \in Request /\ c.step = step
  BY <1>1, <1>3 DEF Request
<1>6. /\ perms[ctl[h].user] \in [Privs -> States]
      /\ logins' \in [Logins -> Sids \cup {None}]
      /\ users' \in [Users -> Sids \cup {None}]
  BY <1>1 DEF Commit, Inv, TypeOK
<1>7. \A v \in Users : txn[v] = h <=> v = ctl[h].user
  <2>1. txn[ctl[h].user] = h
    BY DEF Commit, Inv, Progress
  <2>. QED
    BY <2>1 DEF Inv, TypeOK
<1>8. Apart(h)
  <2>1. CASE Done(o)
    <3>1. Ends(ctl[h].user, perms[ctl[h].user])
      BY <1>2, <2>1
    <3>. QED
      BY <1>1, <1>6, <1>7, <3>1, EndsApart
  <2>2. CASE ~Done(o)
    BY <1>2, <2>2, AbandonTypes, AccountsAssumption DEF Apart
  <2>. QED
    BY <2>1, <2>2
<1>. HIDE DEF c
<1>. QED
  BY <1>3, <1>4, <1>5, <1>6, <1>8, WithoutTransaction DEF Working

\* The request of handler h is the same, but for its history.
Same(h) ==
    \A f \in {"step", "user", "login", "grant", "plan", "todo", "made", "excused"} :
      ctl'[h][f] = ctl[h][f]

\* Steps of nobody's request touch no permissions in a handler's transaction.
LEMMA OutsideInv ==
    ASSUME Inv, UNCHANGED <<logins, users>>,
           ctl' \in [Handlers -> Request], \A h \in Handlers : Same(h),
           perms' \in [Users -> [Privs -> States]],
           txn' \in [Users -> Handlers \cup {None, Abandoned}],
           undo' \in [Users -> [Privs -> States]],
           \A u \in Users :
             \/ txn[u] \notin Handlers /\ txn'[u] \notin Handlers
             \/ txn'[u] = txn[u] /\ perms'[u] = perms[u] /\ undo'[u] = undo[u]
    PROVE  Inv'
<1>1. \A h \in Handlers :
        /\ ctl'[h].step = ctl[h].step /\ ctl'[h].user = ctl[h].user
        /\ ctl'[h].grant = ctl[h].grant /\ ctl'[h].plan = ctl[h].plan
        /\ ctl'[h].todo = ctl[h].todo
  BY DEF Same
<1>2. TypeOK'
  <2>1. ASSUME NEW v \in Users, NEW h \in Handlers, txn'[v] = h PROVE txn[v] = h
    BY <2>1
  <2>2. \A v \in Users, h \in Handlers : txn'[v] = h =>
          ctl'[h].user = v /\ ctl'[h].step \in {"change", "rollback", "commit"}
    BY <1>1, <2>1 DEF Inv, TypeOK
  <2>3. logins' \in [Logins -> Sids \cup {None}] /\ users' \in [Users -> Sids \cup {None}]
    BY DEF Inv, TypeOK
  <2>. QED
    BY <2>2, <2>3 DEF TypeOK
<1>3. ASSUME NEW h \in Handlers PROVE Progress(h)'
  <2>1. ctl[h].user \in Users
    BY DEF Inv, TypeOK, Request
  <2>. QED
    BY <1>1, <2>1 DEF Inv, Progress, Working, Target
<1>. QED
  BY <1>2, <1>3 DEF Inv

LEMMA DiscardInv ==
    ASSUME Inv, NEW u \in Users, Discard(u)
    PROVE  Inv'
<1>1. undo[u] \in [Privs -> States] /\ ctl \in [Handlers -> Request]
  BY DEF Inv, TypeOK
<1>. QED
  BY <1>1, EndsTypes, OutsideInv, AccountsAssumption DEF Discard, Same

LEMMA DenySame ==
    ASSUME Inv, NEW u \in Users, NEW p \in Privs, Deny(u, p)
    PROVE  /\ ctl' \in [Handlers -> Request]
           /\ \A h \in Handlers : Same(h)
           /\ \A h \in Handlers : ctl[h].late \subseteq ctl'[h].late
           /\ \A h \in Handlers : ctl[h].user = u /\ ctl[h].step \in {"begin", "change"}
                /\ p \in ctl[h].plan => p \in ctl'[h].late
<1>. SUFFICES ASSUME NEW h \in Handlers
              PROVE  /\ ctl'[h] \in Request /\ Same(h)
                     /\ ctl[h].late \subseteq ctl'[h].late
                     /\ ctl[h].user = u /\ ctl[h].step \in {"begin", "change"}
                        /\ p \in ctl[h].plan => p \in ctl'[h].late
  BY DEF Deny
<1> DEFINE late == ctl[h].late \cup ({p} \cap ctl[h].plan)
<1>1. ctl[h] \in Request
  BY DEF Inv, TypeOK
<1>2. late \in SUBSET Privs
  BY <1>1 DEF Request
<1>3. ctl'[h] = IF ctl[h].user = u /\ ctl[h].step \in {"begin", "change"}
                THEN [ctl[h] EXCEPT !.late = late] ELSE ctl[h]
  BY DEF Deny
<1>. QED
  BY <1>1, <1>2, <1>3 DEF Request, Same

LEMMA DenyInv ==
    ASSUME Inv, NEW u \in Users, NEW p \in Privs, Deny(u, p)
    PROVE  Inv'
<1>1. /\ perms' \in [Users -> [Privs -> States]]
      /\ txn' = txn /\ txn \in [Users -> Handlers \cup {None, Abandoned}]
      /\ undo' = undo /\ undo \in [Users -> [Privs -> States]]
      /\ UNCHANGED <<logins, users>>
      /\ \A v \in Users : v # u => perms'[v] = perms[v]
  BY DEF Deny, Inv, TypeOK, States
<1>2. txn[u] \notin Handlers
  BY AccountsAssumption DEF Deny
<1>. QED
  BY <1>1, <1>2, DenySame, OutsideInv

LEMMA StepInv == Inv /\ [Next]_vars => Inv'
<1>. SUFFICES ASSUME Inv, [Next]_vars PROVE Inv'
  OBVIOUS
<1>1. ASSUME NEW h \in Handlers, Handle(h) PROVE Inv'
  BY <1>1, ReceiveInv, ExistsInv, CreateLoginInv, CreateUserInv, CleanupInv, EnsureInv,
     DropUserInv, DropLoginInv, SetPasswordInv, InspectInv, BeginTransactionInv, ChangeInv,
     RollbackInv, CommitInv DEF Handle
<1>2. ASSUME NEW u \in Users, Discard(u) PROVE Inv'
  BY <1>2, DiscardInv
<1>3. ASSUME NEW u \in Users, NEW p \in Privs, Deny(u, p) PROVE Inv'
  BY <1>3, DenyInv
<1>4. CASE UNCHANGED vars
  BY <1>4 DEF vars, Inv, TypeOK, Progress, Working, Target
<1>. QED
  BY <1>1, <1>2, <1>3, <1>4 DEF Next

\* Accounts and requests stay well typed, and a transaction on a user's
\* permissions is always in the hands of the one handler that runs its batch,
\* or left to a session that recycle discards.
THEOREM TypeCorrect == Spec => []TypeOK
<1>1. Inv => TypeOK
  BY DEF Inv
<1>. QED
  BY <1>1, InitInv, StepInv, PTL DEF Spec

\* What the step of a handler does to the permissions that others see.
Applied(h, u) ==
    /\ At(h, "commit") /\ ctl[h].user = u
    /\ \A p \in Privs : Committed(u)'[p] =
         IF p \in ctl[h].plan THEN (IF ctl[h].grant THEN "grant" ELSE "none")
         ELSE Committed(u)[p]

\* They stay, or go with their user, or one commit applies its difference.
Outcome(u) ==
    \/ Committed(u)' = Committed(u)
    \/ users'[u] # users[u] /\ \A p \in Privs : Committed(u)'[p] = "none"
    \/ \E h \in Handlers : Applied(h, u)

LEMMA Untouched ==
    ASSUME UNCHANGED permVars, NEW u \in Users
    PROVE  Outcome(u)
BY DEF Outcome, Committed

LEMMA DropUserOutcome ==
    ASSUME Inv, NEW h \in Handlers, DropUser(h), NEW v \in Users
    PROVE  Outcome(v)
<1> DEFINE u == ctl[h].user
<1>1. u \in Users
  BY DEF Inv, TypeOK, Request
<1>2. PICK o \in Outcomes(users[u] # None /\ Unlocked(u)) :
        /\ users' = IF Done(o) THEN [users EXCEPT ![u] = None] ELSE users
        /\ perms' = IF Done(o) THEN [perms EXCEPT ![u] = NoPerms] ELSE perms
  BY DEF DropUser
<1>3. UNCHANGED <<txn, undo>>
  BY DEF DropUser
<1>4. CASE Done(o) /\ v = u
  <2>1. users[u] # None /\ txn[u] = None
    BY <1>2, <1>4, Only
  <2>2. users'[u] = None /\ perms'[u] = NoPerms
    BY <1>1, <1>2, <1>4 DEF Inv, TypeOK
  <2>. QED
    BY <1>3, <1>4, <2>1, <2>2 DEF Outcome, Committed, NoPerms
<1>5. CASE ~(Done(o) /\ v = u)
  <2>1. perms'[v] = perms[v]
    BY <1>1, <1>2, <1>5 DEF Inv, TypeOK
  <2>. QED
    BY <1>3, <2>1 DEF Outcome, Committed
<1>. QED
  BY <1>4, <1>5

LEMMA ChangeOutcome ==
    ASSUME Inv, NEW h \in Handlers, Change(h), NEW v \in Users
    PROVE  Committed(v)' = Committed(v)
<1> DEFINE c == ctl[h]
           u == c.user
           Possible(p) == /\ users[u] # None
                          /\ txn[u] \in {None, h}
                          /\ c.grant \/ perms[u][p] # "option"
           Statement(p, o) ==
             /\ perms' = IF Done(o)
                         THEN [perms EXCEPT ![u][p] = IF c.grant THEN "grant" ELSE "none"]
                         ELSE perms
             /\ txn' = IF Done(o) THEN [txn EXCEPT ![u] = h] ELSE txn
             /\ undo' = IF Done(o) /\ txn[u] = None THEN [undo EXCEPT ![u] = perms[u]] ELSE undo
<1>1. u \in Users
  BY DEF Inv, TypeOK, Request
<1>2. \E p \in c.todo : \E o \in Outcomes(Possible(p)) : Statement(p, o)
  BY DEF Change
<1>. HIDE DEF Possible, Statement
<1>3. PICK p \in c.todo : \E o \in Outcomes(Possible(p)) : Statement(p, o)
  BY <1>2
<1>4. PICK o \in Outcomes(Possible(p)) : Statement(p, o)
  BY <1>3
<1>5. Done(o) => txn[u] \in {None, h}
  BY <1>4, Only DEF Possible
<1>6. CASE Done(o) /\ v = u
  <2>1. txn'[u] = h
    BY <1>1, <1>4, <1>6 DEF Statement, Inv, TypeOK
  <2>2. undo'[u] = IF txn[u] = None THEN perms[u] ELSE undo[u]
    BY <1>1, <1>4, <1>6 DEF Statement, Inv, TypeOK
  <2>. QED
    BY <1>5, <1>6, <2>1, <2>2, AccountsAssumption DEF Committed
<1>7. CASE ~(Done(o) /\ v = u)
  <2>1. perms'[v] = perms[v] /\ txn'[v] = txn[v] /\ undo'[v] = undo[v]
    BY <1>1, <1>4, <1>7 DEF Statement, Inv, TypeOK
  <2>. QED
    BY <2>1 DEF Committed
<1>. QED
  BY <1>6, <1>7

LEMMA EndsOutcome ==
    ASSUME Inv, NEW u \in Users, txn[u] # None, Ends(u, undo[u]), NEW v \in Users
    PROVE  Committed(v)' = Committed(v)
BY EndsTypes DEF Committed, Inv, TypeOK

LEMMA AbandonOutcome ==
    ASSUME Inv, NEW h \in Handlers, Abandon(h), NEW v \in Users
    PROVE  Committed(v)' = Committed(v)
BY AbandonTypes, AccountsAssumption DEF Committed

LEMMA RollbackOutcome ==
    ASSUME Inv, NEW h \in Handlers, Rollback(h), NEW v \in Users
    PROVE  Committed(v)' = Committed(v)
<1>1. ctl[h].user \in Users
  BY DEF Inv, TypeOK, Request
<1>2. CASE txn[ctl[h].user] = h /\ Ends(ctl[h].user, undo[ctl[h].user])
  BY <1>1, <1>2, EndsOutcome, AccountsAssumption
<1>3. CASE UNCHANGED permVars
  BY <1>3 DEF Committed
<1>4. CASE Abandon(h)
  BY <1>4, AbandonOutcome
<1>. QED
  BY <1>2, <1>3, <1>4 DEF Rollback

LEMMA CommitOutcome ==
    ASSUME Inv, NEW h \in Handlers, Commit(h), NEW v \in Users
    PROVE  Outcome(v)
<1> DEFINE u == ctl[h].user
<1>1. /\ u \in Users /\ txn[u] = h
      /\ \A p \in Privs : perms[u][p] =
           IF p \in ctl[h].plan THEN Target(ctl[h]) ELSE undo[u][p]
  BY DEF Commit, Inv, TypeOK, Request, Progress
<1>2. PICK o \in Outcomes(TRUE) :
        IF Done(o) THEN Ends(u, perms[u]) ELSE Abandon(h)
  BY DEF Commit
<1>3. At(h, "commit") /\ perms[u] \in [Privs -> States]
  BY <1>1 DEF Commit, Inv, TypeOK
<1>4. CASE ~Done(o)
  BY <1>2, <1>4, AbandonOutcome DEF Outcome
<1>5. CASE Done(o) /\ v # u
  BY <1>1, <1>2, <1>3, <1>5, EndsTypes DEF Outcome, Committed
<1>6. CASE Done(o) /\ v = u
  <2>1. txn'[u] = None /\ perms'[u] = perms[u]
    BY <1>1, <1>2, <1>3, <1>6, EndsTypes
  <2>2. Committed(v)' = perms[v]
    BY <1>6, <2>1 DEF Committed
  <2>3. Committed(v) = undo[v]
    BY <1>1, <1>6, AccountsAssumption DEF Committed
  <2>4. Applied(h, v)
    BY <1>1, <1>3, <1>6, <2>2, <2>3 DEF Applied, Target
  <2>. QED
    BY <2>4 DEF Outcome
<1>. QED
  BY <1>4, <1>5, <1>6

LEMMA StepOutcome ==
    ASSUME Inv, [Next]_vars, NEW u \in Users
    PROVE  Outcome(u) \/ \E p \in Privs : Deny(u, p)
<1>1. ASSUME NEW h \in Handlers, Handle(h) PROVE Outcome(u)
  <2>1. CASE \/ Receive(h) \/ LoginExists(h) \/ UserExists(h) \/ CreateLogin(h)
             \/ CreateUser(h) \/ Cleanup(h) \/ DropLogin(h) \/ SetPassword(h)
             \/ Ensure(h, "dropCheck", "dropUser")
             \/ Ensure(h, "passwordCheck", "setPassword")
             \/ Ensure(h, "applyCheck", "inspect")
             \/ Inspect(h) \/ BeginTransaction(h) \/ Answer(h)
    BY <2>1, Untouched DEF Receive, LoginExists, UserExists, CreateLogin, CreateUser, Cleanup,
       DropLogin, SetPassword, Ensure, Inspect, BeginTransaction, Answer
  <2>2. CASE DropUser(h)
    BY <2>2, DropUserOutcome
  <2>3. CASE Change(h) \/ Rollback(h)
    BY <2>3, ChangeOutcome, RollbackOutcome DEF Outcome
  <2>4. CASE Commit(h)
    BY <2>4, CommitOutcome
  <2>. QED
    BY <1>1, <2>1, <2>2, <2>3, <2>4 DEF Handle
<1>2. ASSUME NEW v \in Users, Discard(v) PROVE Outcome(u)
  BY <1>2, EndsOutcome, AccountsAssumption DEF Discard, Outcome
<1>3. ASSUME NEW v \in Users, NEW p \in Privs, Deny(v, p), v # u PROVE Outcome(u)
  BY <1>3 DEF Deny, Outcome, Committed, Inv, TypeOK
<1>4. CASE UNCHANGED vars
  BY <1>4, Untouched DEF vars
<1>. QED
  BY <1>1, <1>2, <1>3, <1>4 DEF Next

\* Permissions change only by the commit of one request, to the whole of the
\* difference it found, whichever statements, rollbacks and sessions fail.
THEOREM DiffsAllOrNothing == Spec => AllOrNothing
<1>1. Inv /\ [Next]_vars =>
        [\A u \in Users : Committed(u)' # Committed(u) /\ users'[u] = users[u] =>
           \/ \E h \in Handlers :
                /\ At(h, "commit") /\ ctl[h].user = u
                /\ \A p \in Privs : Committed(u)'[p] =
                     IF p \in ctl[h].plan THEN (IF ctl[h].grant THEN "grant" ELSE "none")
                     ELSE Committed(u)[p]
           \/ \E p \in Privs : Deny(u, p)]_vars
  BY StepOutcome DEF Outcome, Applied
<1>. QED
  BY <1>1, InitInv, StepInv, PTL DEF Spec, AllOrNothing

HIDE DEF After, Goto

\* Where a handler is after its step, and what of its request stays.
Stays(h, c) == /\ c.user = ctl[h].user /\ c.login = ctl[h].login
               /\ c.plan = ctl[h].plan
               /\ c.late = ctl[h].late

LEMMA Afterwards ==
    ASSUME Inv, NEW h \in Handlers, NEW o, NEW s, After(h, o, s)
    PROVE  /\ ctl'[h].step = s
           /\ ctl'[h].made = ctl[h].made /\ Stays(h, ctl'[h])
           /\ ctl'[h].excused <=> ctl[h].excused \/ Unsure(o)
           /\ \A g \in Handlers : g # h => ctl'[g] = ctl[g]
<1>1. ctl \in [Handlers -> Request] /\ ctl[h] \in Request
  BY DEF Inv, TypeOK
<1>. DEFINE e == ctl[h].excused \/ Unsure(o)
<1>2. ctl' = [ctl EXCEPT ![h] = [ctl[h] EXCEPT !.step = s, !.excused = e]]
  BY DEF After, Become
<1>. HIDE DEF e
<1>3. /\ ctl'[h].step = s
      /\ ctl'[h].made = ctl[h].made /\ Stays(h, ctl'[h])
      /\ ctl'[h].excused = e
      /\ \A g \in Handlers : g # h => ctl'[g] = ctl[g]
  BY <1>1, <1>2 DEF Request, Stays
<1>. QED
  BY <1>3 DEF e

LEMMA Gone ==
    ASSUME Inv, NEW h \in Handlers, NEW s, Goto(h, s)
    PROVE  /\ ctl'[h].step = s
           /\ ctl'[h].made = ctl[h].made /\ Stays(h, ctl'[h])
           /\ ctl'[h].excused = ctl[h].excused
           /\ \A g \in Handlers : g # h => ctl'[g] = ctl[g]
<1>1. ctl \in [Handlers -> Request] /\ ctl[h] \in Request
  BY DEF Inv, TypeOK
<1>. QED
  BY <1>1 DEF Goto, Become, Request, Stays

LEMMA Becomes ==
    ASSUME Inv, NEW h \in Handlers, NEW c, Become(h, c)
    PROVE  ctl'[h] = c /\ \A g \in Handlers : g # h => ctl'[g] = ctl[g]
BY DEF Inv, TypeOK, Become

\* What of a plan in progress is denied has been denied since it was made.
Known == \A h \in Handlers : ctl[h].step \in Working =>
    \A p \in ctl[h].plan : Committed(ctl[h].user)[p] = "deny" => p \in ctl[h].late

\* The request of a handler changes by its own steps alone.
LEMMA OwnSteps ==
    ASSUME Inv, [Next]_vars, NEW g \in Handlers
    PROVE  Handle(g) \/ (Same(g) /\ ctl[g].late \subseteq ctl'[g].late)
<1>1. ASSUME NEW h \in Handlers, Handle(h), h # g PROVE ctl'[g] = ctl[g]
  <2>1. CASE \/ CreateUser(h) \/ DropUser(h) \/ DropLogin(h) \/ SetPassword(h) \/ Commit(h)
    BY <1>1, <2>1, Afterwards DEF CreateUser, DropUser, DropLogin, SetPassword, Commit
  <2>2. CASE \/ LoginExists(h) \/ UserExists(h) \/ Rollback(h) \/ BeginTransaction(h)
             \/ Ensure(h, "dropCheck", "dropUser")
             \/ Ensure(h, "passwordCheck", "setPassword")
             \/ Ensure(h, "applyCheck", "inspect")
    BY <1>1, <2>2, Gone DEF LoginExists, UserExists, Ensure, Rollback, BeginTransaction
  <2>3. CASE \/ Receive(h) \/ Answer(h) \/ Inspect(h) \/ Change(h)
             \/ CreateLogin(h) \/ Cleanup(h)
    <3>1. \E c : Become(h, c)
      BY <2>3 DEF Receive, Answer, Inspect, Change, CreateLogin, Cleanup, Goto
    <3>. QED
      BY <1>1, <3>1, Becomes
  <2>. QED
    BY <1>1, <2>1, <2>2, <2>3 DEF Handle
<1>2. ctl'[g] = ctl[g] => Same(g) /\ ctl[g].late \subseteq ctl'[g].late
  BY DEF Same
<1>. QED
  BY <1>1, <1>2, DenySame DEF Next, Discard, vars

\* Handlers in a batch had it before the step, or have just planned it.
LEMMA BatchSteps ==
    ASSUME Inv, [Next]_vars, NEW g \in Handlers, ctl'[g].step \in Working
    PROVE  \/ /\ ctl[g].step \in Working
              /\ ctl'[g].plan = ctl[g].plan /\ ctl'[g].user = ctl[g].user
              /\ ctl[g].late \subseteq ctl'[g].late
           \/ /\ Unlocked(ctl[g].user) /\ ctl'[g] = Plan(g) /\ UNCHANGED permVars
<1> DEFINE Kept == /\ ctl[g].step \in Working
                   /\ ctl'[g].plan = ctl[g].plan /\ ctl'[g].user = ctl[g].user
                   /\ ctl[g].late \subseteq ctl'[g].late
           Planned == Unlocked(ctl[g].user) /\ ctl'[g] = Plan(g) /\ UNCHANGED permVars
<1>1. ctl[g] \in Request
  BY DEF Inv, TypeOK
<1>2. CASE Same(g) /\ ctl[g].late \subseteq ctl'[g].late
  BY <1>2 DEF Same
<1>3. CASE CreateLogin(g)
  <2>1. PICK o : \E s \in Sids :
          Become(g, [ctl[g] EXCEPT !.step = IF o = "ok" THEN "createUser" ELSE "error",
                                   !.made = IF Done(o) THEN s ELSE None,
                                   !.excused = @ \/ Unsure(o)])
    BY <1>3 DEF CreateLogin
  <2> DEFINE step == IF o = "ok" THEN "createUser" ELSE "error"
             excused == ctl[g].excused \/ Unsure(o)
  <2>2. PICK made : Become(g, [ctl[g] EXCEPT !.step = step, !.made = made, !.excused = excused])
    BY <2>1
  <2> DEFINE c == [ctl[g] EXCEPT !.step = step, !.made = made, !.excused = excused]
  <2>3. step \notin Working
    BY DEF Working
  <2>. HIDE DEF step, excused
  <2>4. c.step = step
    BY <1>1 DEF Request
  <2>. HIDE DEF c
  <2>5. ctl'[g] = c
    BY <2>2, Becomes DEF c
  <2>. QED
    BY <2>3, <2>4, <2>5
<1>4. CASE Cleanup(g)
  <2>1. PICK o : Become(g, [ctl[g] EXCEPT !.step = "error", !.excused = @ \/ o # "ok"])
    BY <1>4 DEF Cleanup
  <2> DEFINE excused == ctl[g].excused \/ o # "ok"
             c == [ctl[g] EXCEPT !.step = "error", !.excused = excused]
  <2>2. ctl'[g] = c
    BY <2>1, Becomes
  <2>. HIDE DEF excused
  <2>. QED
    BY <1>1, <2>2 DEF Request, Working
<1>5. CASE CreateUser(g) \/ DropUser(g) \/ DropLogin(g) \/ SetPassword(g) \/ Commit(g)
  <2> DEFINE Closes(good, bad) == \E o : After(g, o, IF o = "ok" THEN good ELSE bad)
  <2>1. Closes("ok", "cleanup") \/ Closes("dropLogin", "error") \/ Closes("ok", "error")
    BY <1>5 DEF CreateUser, DropUser, DropLogin, SetPassword, Commit
  <2>2. ASSUME NEW good, NEW bad, good \notin Working, bad \notin Working, Closes(good, bad)
        PROVE  ctl'[g].step \notin Working
    BY <2>2, Afterwards
  <2>. HIDE DEF Closes
  <2>. QED
    BY <2>1, <2>2 DEF Working
<1>6. CASE \/ LoginExists(g) \/ UserExists(g) \/ Rollback(g)
           \/ Ensure(g, "dropCheck", "dropUser")
           \/ Ensure(g, "passwordCheck", "setPassword")
           \/ Ensure(g, "applyCheck", "inspect")
  BY <1>6, Gone DEF LoginExists, UserExists, Ensure, Rollback, Working
<1>7. CASE Receive(g) \/ Answer(g)
  <2>1. PICK s \in {"idle", "loginExists", "dropCheck", "passwordCheck", "applyCheck"} :
          \E u, l, a, ps : Become(g, Begin(s, u, l, a, ps))
    BY <1>7 DEF Receive, Answer
  <2>. QED
    BY <2>1, Becomes DEF Begin, Working
<1>8. CASE Inspect(g)
  BY <1>8, Gone, Becomes DEF Inspect, Working
<1>9. CASE BeginTransaction(g)
  BY <1>9, Gone DEF BeginTransaction, Working, Stays
<1>10. CASE Change(g)
  <2> DEFINE c == ctl[g]
             Possible(p) == /\ users[c.user] # None
                            /\ txn[c.user] \in {None, g}
                            /\ c.grant \/ perms[c.user][p] # "option"
             Moved(p, o) == [c EXCEPT
                              !.todo = @ \ {p},
                              !.step = IF o # "ok" THEN "rollback"
                                       ELSE IF c.todo = {p} THEN "commit" ELSE "change",
                              !.excused = @ \/ Unsure(o)]
  <2>1. \E p \in c.todo : \E o \in Outcomes(Possible(p)) : Become(g, Moved(p, o))
    BY <1>10 DEF Change
  <2>2. ASSUME NEW p, NEW o PROVE /\ Moved(p, o).plan = c.plan /\ Moved(p, o).user = c.user
                                     /\ Moved(p, o).late = c.late
    BY <1>1 DEF Request
  <2>. HIDE DEF Moved
  <2>3. \E p, o : ctl'[g] = Moved(p, o)
    BY <2>1, Becomes
  <2>. QED
    BY <1>10, <2>2, <2>3 DEF Change, Working
<1>11. Handle(g) \/ (Same(g) /\ ctl[g].late \subseteq ctl'[g].late)
  BY OwnSteps
<1>. QED
  BY <1>2, <1>3, <1>4, <1>5, <1>6, <1>7, <1>8, <1>9, <1>10, <1>11 DEF Handle

LEMMA DenyCommitted ==
    ASSUME Inv, NEW u \in Users, NEW q \in Privs, Deny(u, q), NEW p \in Privs
    PROVE  Committed(u)'[p] = IF p = q THEN "deny" ELSE Committed(u)[p]
<1>1. txn[u] = None /\ txn' = txn /\ perms' = [perms EXCEPT ![u][q] = "deny"]
  BY DEF Deny
<1>2. perms'[u][p] = IF p = q THEN "deny" ELSE perms[u][p]
  BY <1>1 DEF Inv, TypeOK
<1>. QED
  BY <1>1, <1>2 DEF Committed

\* No request denies, and the commit of one lifts only what it does not know of.
LEMMA Denials ==
    ASSUME Inv, Known, [Next]_vars, NEW u \in Users, NEW p \in Privs
    PROVE  /\ Committed(u)'[p] = "deny" => Committed(u)[p] = "deny" \/ Deny(u, p)
           /\ Committed(u)[p] = "deny" /\ users'[u] = users[u] /\ Committed(u)'[p] # "deny" =>
                \E h \in Handlers : At(h, "commit") /\ ctl[h].user = u /\ p \in ctl[h].late
<1>1. ASSUME NEW q \in Privs, Deny(u, q)
      PROVE  /\ Committed(u)'[p] = "deny" => Committed(u)[p] = "deny" \/ Deny(u, p)
             /\ Committed(u)[p] = "deny" => Committed(u)'[p] = "deny"
  BY <1>1, DenyCommitted
<1>2. ASSUME NEW h \in Handlers, Applied(h, u)
      PROVE  /\ Committed(u)'[p] = "deny" => Committed(u)[p] = "deny"
             /\ Committed(u)[p] = "deny" /\ Committed(u)'[p] # "deny" =>
                  At(h, "commit") /\ ctl[h].user = u /\ p \in ctl[h].late
  BY <1>2 DEF Applied, Known, Working
<1>3. CASE Outcome(u)
  BY <1>2, <1>3 DEF Outcome
<1>. QED
  BY <1>1, <1>3, StepOutcome

LEMMA KnownStep ==
    ASSUME Inv, Known, [Next]_vars
    PROVE  Known'
<1>. SUFFICES ASSUME NEW g \in Handlers, ctl'[g].step \in Working,
                     NEW p \in ctl'[g].plan,
                     NEW u, u = ctl'[g].user, Committed(u)'[p] = "deny"
              PROVE  p \in ctl'[g].late
  BY DEF Known
<1>1. ctl[g] \in Request /\ ctl[g].user \in Users /\ ctl[g].plan \subseteq Privs
  BY DEF Inv, TypeOK, Request
<1>2. CASE /\ ctl[g].step \in Working
           /\ ctl'[g].plan = ctl[g].plan /\ u = ctl[g].user
           /\ ctl[g].late \subseteq ctl'[g].late
  <2>1. CASE Committed(u)[p] = "deny"
    BY <1>2, <2>1 DEF Known
  <2>2. CASE Deny(u, p)
    <3>1. ctl[g].step \in {"begin", "change"}
      BY <1>2, <2>2, AccountsAssumption DEF Deny, Inv, Progress, Working
    <3>. QED
      BY <1>1, <1>2, <2>2, <3>1, DenySame
  <2>. QED
    BY <1>1, <1>2, <2>1, <2>2, Denials
<1>3. CASE Unlocked(ctl[g].user) /\ ctl'[g] = Plan(g) /\ UNCHANGED permVars
  <2>1. u = ctl[g].user /\ perms[u][p] # "deny"
    BY <1>3, PlanIsWhole DEF Working
  <2>2. Committed(u)' = Committed(u) /\ Committed(u) = perms[u]
    BY <1>3, <2>1 DEF Committed
  <2>. QED
    BY <2>1, <2>2
<1>. QED
  BY <1>2, <1>3, BatchSteps

\* A request alters a denied permission only if it was denied after the request
\* had looked at it, whatever else happens.
THEOREM DenialsHold == Spec => KnownDenialsStand
<1>1. Init => Known
  BY InitSteps DEF Known, Working
<1>2. Inv /\ Known /\ [Next]_vars => Known'
  BY KnownStep
<1>3. Inv /\ Known /\ [Next]_vars =>
        [\A u \in Users, p \in Privs :
           Committed(u)[p] = "deny" /\ users'[u] = users[u] /\ Committed(u)'[p] # "deny" =>
             \E h \in Handlers : At(h, "commit") /\ ctl[h].user = u /\ p \in ctl[h].late]_vars
  BY Denials
<1>. QED
  BY <1>1, <1>2, <1>3, InitInv, StepInv, PTL DEF Spec, KnownDenialsStand

\* The login a request has made is known by the name it was made under alone,
\* and a request that gave up for certain has removed it.
Provenance(h) ==
    LET c == ctl[h]
    IN  c.made # None =>
          /\ c.step \in {"createUser", "cleanup", "ok", "error"}
          /\ \A l \in Logins : logins[l] = c.made => l = c.login
          /\ c.step = "error" /\ ~c.excused => \A l \in Logins : logins[l] # c.made

Provenances == \A h \in Handlers : Provenance(h)

LEMMA FreshSid ==
    ASSUME Inv, NEW s, Fresh(s), NEW g \in Handlers, NEW l \in Logins
    PROVE  ctl[g].made # s /\ logins[l] # s
<1>1. ctl[g].user \in Users
  BY DEF Inv, TypeOK, Request
<1>. QED
  BY <1>1 DEF Fresh

\* No login comes by an identity that a request has made before.
LEMMA NeverReused ==
    ASSUME Inv, [Next]_vars, NEW g \in Handlers, ctl[g].made # None,
           NEW l \in Logins, logins'[l] = ctl[g].made
    PROVE  logins[l] = ctl[g].made
<1>1. CASE logins' = logins
  BY <1>1
<1>2. ASSUME NEW h \in Handlers, CreateLogin(h) PROVE logins[l] = ctl[g].made
  <2>1. PICK s : \/ logins' = logins
                 \/ Fresh(s) /\ logins' = [logins EXCEPT ![ctl[h].login] = s]
    BY <1>2 DEF CreateLogin
  <2>. QED
    BY <2>1, FreshSid DEF Inv, TypeOK
<1>3. ASSUME NEW h \in Handlers, Cleanup(h) \/ DropLogin(h) PROVE logins[l] = ctl[g].made
  <2>1. \/ logins' = logins
        \/ logins' = [logins EXCEPT ![ctl[h].login] = None]
    BY <1>3 DEF Cleanup, DropLogin
  <2>. QED
    BY <2>1 DEF Inv, TypeOK
<1>4. ASSUME NEW h \in Handlers, Handle(h) PROVE logins[l] = ctl[g].made
  <2>1. CASE CreateLogin(h) \/ Cleanup(h) \/ DropLogin(h)
    BY <1>2, <1>3, <2>1
  <2>2. CASE ~(CreateLogin(h) \/ Cleanup(h) \/ DropLogin(h))
    <3>1. logins' = logins
      BY <1>4, <2>2 DEF Handle, Receive, LoginExists, UserExists, CreateUser, SetPassword, Ensure,
         Inspect, BeginTransaction, Answer, DropUser, Change, Rollback, Commit
    <3>. QED
      BY <1>1, <3>1
  <2>. QED
    BY <2>1, <2>2
<1>. QED
  BY <1>1, <1>4 DEF Next, Discard, Deny, vars

LEMMA CreateLoginProvenance ==
    ASSUME Inv, NEW g \in Handlers, CreateLogin(g)
    PROVE  Provenance(g)'
<1> DEFINE l == ctl[g].login
<1>1. ctl[g] \in Request /\ l \in Logins
  BY DEF Inv, TypeOK, Request
<1>2. PICK o, s :
        /\ Done(o) => Fresh(s)
        /\ logins' = IF Done(o) THEN [logins EXCEPT ![l] = s] ELSE logins
        /\ Become(g, [ctl[g] EXCEPT !.step = IF o = "ok" THEN "createUser" ELSE "error",
                                    !.made = IF Done(o) THEN s ELSE None,
                                    !.excused = @ \/ Unsure(o)])
  BY DEF CreateLogin
<1> DEFINE step == IF o = "ok" THEN "createUser" ELSE "error"
           made == IF Done(o) THEN s ELSE None
           excused == ctl[g].excused \/ Unsure(o)
           c == [ctl[g] EXCEPT !.step = step, !.made = made, !.excused = excused]
<1>3. ctl'[g] = c
  BY <1>2, Becomes
<1>4. /\ step \in {"createUser", "error"}
      /\ made # None => made = s /\ Done(o)
      /\ step = "error" /\ Done(o) => excused
  BY DEF Done, Unsure
<1>. HIDE DEF step, made, excused
<1>5. c.step = step /\ c.made = made /\ c.excused = excused /\ c.login = ctl[g].login
  BY <1>1 DEF Request
<1>. HIDE DEF c
<1>6. ASSUME made # None, NEW m \in Logins, logins'[m] = made PROVE m = ctl[g].login
  <2>1. Fresh(s) /\ logins' = [logins EXCEPT ![ctl[g].login] = s] /\ made = s
    BY <1>2, <1>4, <1>6
  <2>. QED
    BY <1>1, <1>6, <2>1, FreshSid DEF Inv, TypeOK
<1>7. made # None /\ step = "error" => excused
  BY <1>4
<1>. QED
  BY <1>3, <1>4, <1>5, <1>6, <1>7 DEF Provenance

LEMMA CleanupProvenance ==
    ASSUME Inv, Provenances, [Next]_vars, NEW g \in Handlers, Cleanup(g)
    PROVE  Provenance(g)'
<1> DEFINE l == ctl[g].login
<1>1. ctl[g] \in Request /\ l \in Logins
  BY DEF Inv, TypeOK, Request
<1>2. PICK o :
        /\ logins' = IF Done(o) THEN [logins EXCEPT ![l] = None] ELSE logins
        /\ Become(g, [ctl[g] EXCEPT !.step = "error", !.excused = @ \/ o # "ok"])
  BY DEF Cleanup
<1> DEFINE excused == ctl[g].excused \/ o # "ok"
           c == [ctl[g] EXCEPT !.step = "error", !.excused = excused]
<1>3. ctl'[g] = c
  BY <1>2, Becomes
<1>4. ~excused => o = "ok" /\ Done(o)
  BY DEF Done
<1>. HIDE DEF excused
<1>5. /\ c.step = "error" /\ c.made = ctl[g].made /\ c.excused = excused
      /\ c.login = ctl[g].login
  BY <1>1 DEF Request
<1>. HIDE DEF c
<1>6. ASSUME ctl[g].made # None
      PROVE  \A m \in Logins : logins'[m] = ctl[g].made => m = ctl[g].login
  BY <1>6, NeverReused DEF Provenances, Provenance
<1>7. ASSUME ctl[g].made # None, ~excused
      PROVE  \A m \in Logins : logins'[m] # ctl[g].made
  <2>1. logins'[ctl[g].login] = None
    BY <1>1, <1>2, <1>4, <1>7 DEF Inv, TypeOK
  <2>. QED
    BY <1>6, <1>7, <2>1
<1>. QED
  BY <1>3, <1>5, <1>6, <1>7 DEF Provenance

LEMMA ProvenancesStep ==
    ASSUME Inv, Provenances, [Next]_vars
    PROVE  Provenances'
<1>. SUFFICES ASSUME NEW g \in Handlers PROVE Provenance(g)'
  BY DEF Provenances
<1>1. ctl[g] \in Request /\ Provenance(g)
  BY DEF Inv, TypeOK, Provenances
<1>2. CASE Same(g)
  BY <1>1, <1>2, NeverReused DEF Provenance, Same
<1>3. ASSUME ctl'[g].made = None PROVE Provenance(g)'
  BY <1>3 DEF Provenance
<1>4. CASE CreateLogin(g)
  BY <1>4, CreateLoginProvenance
<1>5. CASE Cleanup(g)
  BY <1>5, CleanupProvenance
<1>6. CASE CreateUser(g)
  <2>1. PICK o : After(g, o, IF o = "ok" THEN "ok" ELSE "cleanup")
    BY <1>6 DEF CreateUser
  <2>2. /\ ctl'[g].step \in {"ok", "cleanup"} /\ ctl'[g].made = ctl[g].made
        /\ ctl'[g].login = ctl[g].login
    BY <2>1, Afterwards DEF Stays
  <2>. QED
    BY <1>1, <2>2, NeverReused DEF Provenance
<1>7. CASE DropUser(g) \/ DropLogin(g) \/ SetPassword(g) \/ Commit(g)
  <2>1. ctl[g].made = None
    BY <1>1, <1>7 DEF Provenance, DropUser, DropLogin, SetPassword, Commit
  <2>2. \E o, s : After(g, o, s)
    BY <1>7 DEF DropUser, DropLogin, SetPassword, Commit
  <2>. QED
    BY <1>3, <2>1, <2>2, Afterwards
<1>8. CASE \/ LoginExists(g) \/ UserExists(g) \/ Rollback(g) \/ BeginTransaction(g)
           \/ Ensure(g, "dropCheck", "dropUser")
           \/ Ensure(g, "passwordCheck", "setPassword")
           \/ Ensure(g, "applyCheck", "inspect")
  <2>1. ctl[g].made = None
    BY <1>1, <1>8 DEF Provenance, LoginExists, UserExists, Rollback, BeginTransaction, Ensure
  <2>2. \E s : Goto(g, s)
    BY <1>8 DEF LoginExists, UserExists, Rollback, BeginTransaction, Ensure
  <2>. QED
    BY <1>3, <2>1, <2>2, Gone
<1>9. CASE Receive(g) \/ Answer(g)
  <2>1. \E s, u, l, a, ps : Become(g, Begin(s, u, l, a, ps))
    BY <1>9 DEF Receive, Answer
  <2>. QED
    BY <1>3, <2>1, Becomes DEF Begin
<1>10. CASE Inspect(g)
  <2>1. ctl[g].made = None
    BY <1>1, <1>10 DEF Provenance, Inspect
  <2>. QED
    BY <1>3, <1>10, <2>1, Gone, Becomes, PlanIsWhole DEF Inspect
<1>11. CASE Change(g)
  <2>1. ctl[g].made = None
    BY <1>1, <1>11 DEF Provenance, Change
  <2> DEFINE c == ctl[g]
             Possible(p) == /\ users[c.user] # None
                            /\ txn[c.user] \in {None, g}
                            /\ c.grant \/ perms[c.user][p] # "option"
             Moved(p, o) == [c EXCEPT
                              !.todo = @ \ {p},
                              !.step = IF o # "ok" THEN "rollback"
                                       ELSE IF c.todo = {p} THEN "commit" ELSE "change",
                              !.excused = @ \/ Unsure(o)]
  <2>2. \E p \in c.todo : \E o \in Outcomes(Possible(p)) : Become(g, Moved(p, o))
    BY <1>11 DEF Change
  <2>3. ASSUME NEW p, NEW o PROVE Moved(p, o).made = c.made
    BY <1>1 DEF Request
  <2>. HIDE DEF Moved
  <2>. QED
    BY <1>3, <2>1, <2>2, <2>3, Becomes
<1>12. Same(g) \/ Handle(g)
  BY OwnSteps
<1>. QED
  BY <1>2, <1>4, <1>5, <1>6, <1>7, <1>8, <1>9, <1>10, <1>11, <1>12 DEF Handle

\* A create_user that failed for certain, and whose cleanup did not fail, leaves
\* no login of its making behind, whatever other requests do to the two names.
THEOREM NoLoginLeftBehind == Spec => []FailedCreateLeavesNothing
<1>1. Init => Provenances
  BY InitSteps DEF Provenances, Provenance
<1>2. Inv /\ Provenances /\ [Next]_vars => Provenances'
  BY ProvenancesStep
<1>3. Provenances => FailedCreateLeavesNothing
  BY DEF Provenances, Provenance, FailedCreateLeavesNothing
<1>. QED
  BY <1>1, <1>2, <1>3, InitInv, StepInv, PTL DEF Spec
=============================================================================
