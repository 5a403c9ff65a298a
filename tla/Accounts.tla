------------------------------ MODULE Accounts ------------------------------
(***************************************************************************)
(* Logins, database users and their direct permissions on the server, as   *)
(* the account requests of src/src/driver/users.rs change them: create     *)
(* with its cleanup, drop, set password, and the privilege diff with its   *)
(* transaction.  Handlers run on sessions of their own, statement by       *)
(* statement, and every statement may fail.                                *)
(*                                                                         *)
(* A login has an identity (its SID), by which database users refer to it; *)
(* requests name logins and users by name.  Permissions are those of one   *)
(* scope; the scopes of a user are independent of each other.              *)
(***************************************************************************)
CONSTANTS Handlers,   \* request handlers, each with a session
          Users,      \* names of database users
          Logins,     \* names of SQL Server logins
          Sids,       \* identities of logins
          Privs,      \* privileges the scope allows
          MayBeLost,  \* statements may time out or lose the transport
          DbaDenies,  \* somebody else may deny permissions meanwhile
          None,       \* no identity, no transaction
          Abandoned   \* owner of a transaction whose handler has answered

ASSUME AccountsAssumption ==
    /\ MayBeLost \in BOOLEAN
    /\ DbaDenies \in BOOLEAN
    /\ None \notin Sids \cup Handlers
    /\ Abandoned \notin Handlers \cup {None}

VARIABLES
    logins,   \* logins[l]: the identity of login l, or None
    users,    \* users[u]: the identity user u maps to, or None
    perms,    \* perms[u][p]: the direct permission, as its transaction sees it
    txn,      \* txn[u]: the transaction that has changed permissions of u
    undo,     \* undo[u]: what a rollback of that transaction restores
    ctl       \* ctl[h]: the request of handler h

vars == <<logins, users, perms, txn, undo, ctl>>

permVars == <<perms, txn, undo>>

States  == {"none", "grant", "option", "deny"}
Granted == {"grant", "option"}   \* GRANT and GRANT_WITH_GRANT_OPTION
NoPerms == [p \in Privs |-> "none"]

Steps == {"idle", "loginExists", "userExists", "createLogin", "createUser", "cleanup",
          "dropCheck", "dropUser", "dropLogin", "passwordCheck", "setPassword",
          "applyCheck", "inspect", "begin", "change", "rollback", "commit", "ok", "error"}

\* user, login  the account the request names
\* grant, asked the change it asks for
\* plan, todo   the difference to apply, and what is left of it
\* made         the login that this request created (history)
\* excused      a statement was lost, or the cleanup failed (history)
\* late         what of the plan has been denied since the request looked (history)
Request ==
    [step : Steps, user : Users, login : Logins, grant : BOOLEAN,
     asked : SUBSET Privs, plan : SUBSET Privs, todo : SUBSET Privs,
     made : Sids \cup {None}, excused : BOOLEAN, late : SUBSET Privs]

Begin(step, u, l, g, ps) ==
    [step |-> step, user |-> u, login |-> l, grant |-> g, asked |-> ps,
     plan |-> {}, todo |-> {}, made |-> None, excused |-> FALSE, late |-> {}]

\* Accounts exist or not, with any permissions.
Init ==
    /\ logins \in [Logins -> Sids \cup {None}]
    /\ \A l, m \in Logins : logins[l] = logins[m] /\ logins[l] # None => l = m
    /\ users \in [Users -> {logins[l] : l \in Logins} \cup {None}]
    /\ \A u, v \in Users : users[u] = users[v] /\ users[u] # None => u = v
    /\ perms \in [Users -> [Privs -> States]]
    /\ \A u \in Users : users[u] = None => perms[u] = NoPerms
    /\ txn = [u \in Users |-> None]
    /\ undo = [u \in Users |-> NoPerms]
    /\ \E us \in [Handlers -> Users], ls \in [Handlers -> Logins] :
         ctl = [h \in Handlers |-> Begin("idle", us[h], ls[h], TRUE, {})]
-----------------------------------------------------------------------------
(* A statement, as the handler sees it.                                    *)

\* "lost" and "undone" end in an error and leave open whether the statement
\* took effect: it did, or it did not.
Outcomes(possible) ==
    {"refused"} \cup (IF possible THEN {"ok"} ELSE {})
                \cup (IF MayBeLost THEN {"undone"} \cup (IF possible THEN {"lost"} ELSE {}) ELSE {})

Done(o)   == o \in {"ok", "lost"}
Unsure(o) == o \in {"lost", "undone"}

At(h, step) == ctl[h].step = step

Become(h, c) == ctl' = [ctl EXCEPT ![h] = c]

Goto(h, step) == Become(h, [ctl[h] EXCEPT !.step = step])

\* The handler goes to step after outcome o, which it records when unsure.
After(h, o, step) ==
    Become(h, [ctl[h] EXCEPT !.step = step, !.excused = @ \/ Unsure(o)])

Mapped(u, l) == users[u] # None /\ users[u] = logins[l]

\* Nobody else has an open transaction on the permissions of u: statements
\* and catalog queries that touch them wait for its locks.
Unlocked(u) == txn[u] = None
-----------------------------------------------------------------------------
(* create_user                                                             *)

\* A query that fails, or finds the name taken, ends the request.
LoginExists(h) ==
    /\ At(h, "loginExists")
    /\ \/ Goto(h, "error")
       \/ logins[ctl[h].login] = None /\ Goto(h, "userExists")
    /\ UNCHANGED <<logins, users, permVars>>

UserExists(h) ==
    /\ At(h, "userExists")
    /\ \/ Goto(h, "error")
       \/ users[ctl[h].user] = None /\ Goto(h, "createLogin")
    /\ UNCHANGED <<logins, users, permVars>>

Fresh(s) == \A l \in Logins, u \in Users, h \in Handlers :
    logins[l] # s /\ users[u] # s /\ ctl[h].made # s

CreateLogin(h) ==
    LET l == ctl[h].login
    IN  /\ At(h, "createLogin")
        /\ \E o \in Outcomes(logins[l] = None), s \in Sids :
             /\ Done(o) => Fresh(s)
             /\ logins' = IF Done(o) THEN [logins EXCEPT ![l] = s] ELSE logins
             /\ Become(h, [ctl[h] EXCEPT !.step = IF o = "ok" THEN "createUser" ELSE "error",
                                         !.made = IF Done(o) THEN s ELSE None,
                                         !.excused = @ \/ Unsure(o)])
        /\ UNCHANGED <<users, permVars>>

\* Mutant: the error is returned without the cleanup.
CreateUserOnly(h) ==
    LET u == ctl[h].user
        l == ctl[h].login
    IN  /\ At(h, "createUser")
        /\ \E o \in Outcomes(users[u] = None /\ logins[l] # None) :
             /\ users' = IF Done(o) THEN [users EXCEPT ![u] = logins[l]] ELSE users
             /\ After(h, o, IF o = "ok" THEN "ok" ELSE "error")
        /\ UNCHANGED <<logins, permVars>>

CreateUser(h) ==
    LET u == ctl[h].user
        l == ctl[h].login
    IN  /\ At(h, "createUser")
        /\ \E o \in Outcomes(users[u] = None /\ logins[l] # None) :
             /\ users' = IF Done(o) THEN [users EXCEPT ![u] = logins[l]] ELSE users
             /\ After(h, o, IF o = "ok" THEN "ok" ELSE "cleanup")
        /\ UNCHANGED <<logins, permVars>>

\* The login is dropped again, by its name.
Cleanup(h) ==
    LET l == ctl[h].login
    IN  /\ At(h, "cleanup")
        /\ \E o \in Outcomes(logins[l] # None) :
             /\ logins' = IF Done(o) THEN [logins EXCEPT ![l] = None] ELSE logins
             /\ Become(h, [ctl[h] EXCEPT !.step = "error", !.excused = @ \/ o # "ok"])
        /\ UNCHANGED <<users, permVars>>
-----------------------------------------------------------------------------
(* drop_user and set_password                                              *)

\* ensure_account, and where the request goes from there.
Ensure(h, check, next) ==
    /\ At(h, check)
    /\ \/ Goto(h, "error")
       \/ Mapped(ctl[h].user, ctl[h].login) /\ Goto(h, next)
    /\ UNCHANGED <<logins, users, permVars>>

\* The server refuses while the user owns a schema or an object.
DropUser(h) ==
    LET u == ctl[h].user
    IN  /\ At(h, "dropUser")
        /\ \E o \in Outcomes(users[u] # None /\ Unlocked(u)) :
             /\ users' = IF Done(o) THEN [users EXCEPT ![u] = None] ELSE users
             /\ perms' = IF Done(o) THEN [perms EXCEPT ![u] = NoPerms] ELSE perms
             /\ After(h, o, IF o = "ok" THEN "dropLogin" ELSE "error")
        /\ UNCHANGED <<logins, txn, undo>>

DropLogin(h) ==
    LET l == ctl[h].login
    IN  /\ At(h, "dropLogin")
        /\ \E o \in Outcomes(logins[l] # None) :
             /\ logins' = IF Done(o) THEN [logins EXCEPT ![l] = None] ELSE logins
             /\ After(h, o, IF o = "ok" THEN "ok" ELSE "error")
        /\ UNCHANGED <<users, permVars>>

\* Passwords are not part of the state.
SetPassword(h) ==
    /\ At(h, "setPassword")
    /\ \E o \in Outcomes(logins[ctl[h].login] # None) :
         After(h, o, IF o = "ok" THEN "ok" ELSE "error")
    /\ UNCHANGED <<logins, users, permVars>>
-----------------------------------------------------------------------------
(* apply_privileges                                                        *)

\* Mutant: DENY is taken for a permission that is not granted.
PlanDespiteDeny(h) ==
    LET c == ctl[h]
        diff == {p \in c.asked : (perms[c.user][p] \in Granted) # c.grant}
    IN  IF diff = {} THEN [c EXCEPT !.step = "ok"]
        ELSE [c EXCEPT !.step = "begin", !.plan = diff, !.todo = diff]

\* What the request does about the permissions it found.
Plan(h) ==
    LET c == ctl[h]
        diff == {p \in c.asked : (perms[c.user][p] \in Granted) # c.grant}
    IN  IF c.asked = {} \/ \E p \in c.asked : perms[c.user][p] = "deny"
        THEN [c EXCEPT !.step = "error"]
        ELSE IF diff = {} THEN [c EXCEPT !.step = "ok"]
        ELSE [c EXCEPT !.step = "begin", !.plan = diff, !.todo = diff]

Inspect(h) ==
    /\ At(h, "inspect")
    /\ \/ Goto(h, "error")
       \/ Unlocked(ctl[h].user) /\ Become(h, Plan(h))
    /\ UNCHANGED <<logins, users, permVars>>

\* begin_transaction; before it no rollback is needed.
BeginTransaction(h) ==
    /\ At(h, "begin")
    /\ Goto(h, "change") \/ Goto(h, "error")
    /\ UNCHANGED <<logins, users, permVars>>

\* One GRANT or REVOKE.  GRANT replaces a DENY; REVOKE takes either away and,
\* without CASCADE, refuses a grant with grant option.
Change(h) ==
    LET c == ctl[h]
        u == c.user
    IN  /\ At(h, "change")
        /\ \E p \in c.todo :
           \E o \in Outcomes(/\ users[u] # None
                             /\ txn[u] \in {None, h}
                             /\ c.grant \/ perms[u][p] # "option") :
             /\ perms' = IF Done(o)
                         THEN [perms EXCEPT ![u][p] = IF c.grant THEN "grant" ELSE "none"]
                         ELSE perms
             /\ txn' = IF Done(o) THEN [txn EXCEPT ![u] = h] ELSE txn
             /\ undo' = IF Done(o) /\ txn[u] = None THEN [undo EXCEPT ![u] = perms[u]] ELSE undo
             /\ Become(h, [c EXCEPT
                  !.todo = @ \ {p},
                  !.step = IF o # "ok" THEN "rollback"
                           ELSE IF c.todo = {p} THEN "commit" ELSE "change",
                  !.excused = @ \/ Unsure(o)])
        /\ UNCHANGED <<logins, users>>

\* The transaction on u ends, with the permissions ps.
Ends(u, ps) ==
    /\ perms' = [perms EXCEPT ![u] = ps]
    /\ txn' = [txn EXCEPT ![u] = None]
    /\ undo' = [undo EXCEPT ![u] = NoPerms]

\* The transaction stays open on a session that recycle will discard.
Abandon(h) ==
    /\ txn' = [u \in Users |-> IF txn[u] = h THEN Abandoned ELSE txn[u]]
    /\ UNCHANGED <<perms, undo>>

\* Mutant: the failed batch is committed instead of rolled back.
RollbackForgotten(h) ==
    LET u == ctl[h].user
    IN  /\ At(h, "rollback")
        /\ Goto(h, "error")
        /\ \/ txn[u] = h /\ Ends(u, perms[u])
           \/ txn[u] # h /\ UNCHANGED permVars
        /\ UNCHANGED <<logins, users>>

\* The first failed statement ends the batch; the rollback may fail too.
Rollback(h) ==
    LET u == ctl[h].user
    IN  /\ At(h, "rollback")
        /\ Goto(h, "error")
        /\ \/ txn[u] = h /\ Ends(u, undo[u])
           \/ txn[u] # h /\ UNCHANGED permVars
           \/ Abandon(h)
        /\ UNCHANGED <<logins, users>>

\* Mutant: the session of a failed commit is kept.
CommitKeepsSession(h) ==
    LET u == ctl[h].user
    IN  /\ At(h, "commit")
        /\ \E o \in Outcomes(TRUE) :
             /\ IF Done(o) THEN Ends(u, perms[u]) ELSE UNCHANGED permVars
             /\ After(h, o, IF o = "ok" THEN "ok" ELSE "error")
        /\ UNCHANGED <<logins, users>>

Commit(h) ==
    LET u == ctl[h].user
    IN  /\ At(h, "commit")
        /\ \E o \in Outcomes(TRUE) :
             /\ IF Done(o) THEN Ends(u, perms[u]) ELSE Abandon(h)
             /\ After(h, o, IF o = "ok" THEN "ok" ELSE "error")
        /\ UNCHANGED <<logins, users>>
-----------------------------------------------------------------------------
(* Requests, and what happens without one.                                 *)

Receive(h) ==
    /\ At(h, "idle")
    /\ \E u \in Users, l \in Logins, g \in BOOLEAN, ps \in SUBSET Privs,
          s \in {"loginExists", "dropCheck", "passwordCheck", "applyCheck"} :
         /\ s # "applyCheck" => g /\ ps = {}
         /\ Become(h, Begin(s, u, l, g, ps))
    /\ UNCHANGED <<logins, users, permVars>>

Answer(h) ==
    /\ At(h, "ok") \/ At(h, "error")
    /\ Become(h, Begin("idle", ctl[h].user, ctl[h].login, TRUE, {}))
    /\ UNCHANGED <<logins, users, permVars>>

\* The session of an abandoned transaction is dropped: the server rolls back.
Discard(u) ==
    /\ txn[u] = Abandoned
    /\ Ends(u, undo[u])
    /\ UNCHANGED <<logins, users, ctl>>

\* A request that has looked already does not learn of the DENY.
Deny(u, p) ==
    /\ DbaDenies
    /\ users[u] # None /\ Unlocked(u)
    /\ perms' = [perms EXCEPT ![u][p] = "deny"]
    /\ ctl' = [h \in Handlers |->
                 IF ctl[h].user = u /\ ctl[h].step \in {"begin", "change"}
                 THEN [ctl[h] EXCEPT !.late = @ \cup ({p} \cap ctl[h].plan)] ELSE ctl[h]]
    /\ UNCHANGED <<logins, users, txn, undo>>

Handle(h) ==
    \/ Receive(h)
    \/ LoginExists(h)
    \/ UserExists(h)
    \/ CreateLogin(h)
    \/ CreateUser(h)
    \/ Cleanup(h)
    \/ Ensure(h, "dropCheck", "dropUser")
    \/ DropUser(h)
    \/ DropLogin(h)
    \/ Ensure(h, "passwordCheck", "setPassword")
    \/ SetPassword(h)
    \/ Ensure(h, "applyCheck", "inspect")
    \/ Inspect(h)
    \/ BeginTransaction(h)
    \/ Change(h)
    \/ Rollback(h)
    \/ Commit(h)
    \/ Answer(h)

Next ==
    \/ \E h \in Handlers : Handle(h)
    \/ \E u \in Users : Discard(u)
    \/ \E u \in Users, p \in Privs : Deny(u, p)

Spec == Init /\ [][Next]_vars
-----------------------------------------------------------------------------
(* Properties.                                                             *)

\* Types, and that an open transaction is in the hands of the handler that
\* runs its batch, or of nobody.
TypeOK ==
    /\ logins \in [Logins -> Sids \cup {None}]
    /\ users \in [Users -> Sids \cup {None}]
    /\ perms \in [Users -> [Privs -> States]]
    /\ txn \in [Users -> Handlers \cup {None, Abandoned}]
    /\ undo \in [Users -> [Privs -> States]]
    /\ ctl \in [Handlers -> Request]
    /\ \A u \in Users, h \in Handlers :
         txn[u] = h => ctl[h].user = u /\ ctl[h].step \in {"change", "rollback", "commit"}

\* A create_user that reports an error leaves no login of its making behind,
\* unless a statement was lost or the cleanup itself failed, whatever other
\* requests did to the two names meanwhile.
FailedCreateLeavesNothing ==
    \A h \in Handlers : At(h, "error") /\ ~ctl[h].excused /\ ctl[h].made # None =>
        \A l \in Logins : logins[l] # ctl[h].made

\* What everybody else sees of the permissions of u.
Committed(u) == IF txn[u] = None THEN perms[u] ELSE undo[u]

\* The difference that a request found is applied whole or not at all: while
\* a user exists, its permissions change only by the commit of one request,
\* to that difference, whichever statements, rollbacks or sessions failed.
AllOrNothing ==
    [][\A u \in Users : Committed(u)' # Committed(u) /\ users'[u] = users[u] =>
          \/ \E h \in Handlers :
               /\ At(h, "commit") /\ ctl[h].user = u
               /\ \A p \in Privs : Committed(u)'[p] =
                    IF p \in ctl[h].plan THEN (IF ctl[h].grant THEN "grant" ELSE "none")
                    ELSE Committed(u)[p]
          \/ \E p \in Privs : Deny(u, p)]_vars

\* A DENY that stood when a request looked at the permissions stands after its
\* commit, whatever other requests and administrators do in between.
KnownDenialsStand ==
    [][\A u \in Users, p \in Privs :
          Committed(u)[p] = "deny" /\ users'[u] = users[u] /\ Committed(u)'[p] # "deny" =>
             \E h \in Handlers : At(h, "commit") /\ ctl[h].user = u /\ p \in ctl[h].late]_vars

=============================================================================
