-------------------------------- MODULE Staff --------------------------------
(***************************************************************************)
(* Staff accounts: invitations, setup and reset links, passwords, sessions *)
(* and impersonation (internal/users, internal/auth).                      *)
(*                                                                         *)
(* No handler here locks a row.  The middleware reads the session and its  *)
(* user in one query; the handler then reads what it needs and writes, so  *)
(* each request is admitted in one step and writes in a later one, and     *)
(* whatever the other requests do lies between.  users.password_version is *)
(* what signs sessions out: a session carries the version it was opened    *)
(* with, and every change of a password raises it.                         *)
(***************************************************************************)
EXTENDS Naturals, FiniteSets

CONSTANTS
    Users,       \* addresses: users.email is unique and rows are never deleted
    Roles,       \* of those that are not global_admin, no handler tells two apart
    Passwords,
    Sessions,    \* bound: ids of sessions
    Tokens,      \* bound: setup and reset links
    Handlers,    \* bound: requests at work at once
    Null,
    Plans,       \* accounts and sessions a behaviour begins with, the requests it
                 \* knows and, a bound, how many come
    MaxVersion   \* bound: password_version

ASSUME StaffAssumption ==
    "global_admin" \in Roles /\ Null \notin Roles /\ MaxVersion \in Nat \ {0}

VARIABLES
    plan,        \* the plan of this behaviour
    left,        \* requests still to come
    user, session, token,
    task,        \* each handler's request: what it does next and what it read
    unbumped,    \* history: disabled, the sign-out that follows not done
    raced        \* history: handlers overtaken by a change of who is an admin

rows == <<user, session, token>>
vars == <<plan, left, rows, task, unbumped, raced>>

Absent  == [role |-> Null, active |-> FALSE, disabled |-> FALSE, version |-> 1,
            password |-> Null]
NoTask  == [next |-> "idle", session |-> Null, actor |-> Null, target |-> Null,
            value |-> Null, version |-> 1]

Exists(u) == user[u].role # Null
Enabled(u) == Exists(u) /\ ~user[u].disabled

\* CountGlobalAdmins: an admin who never completed the setup counts.
Admins == {u \in Users : Enabled(u) /\ user[u].role = "global_admin"}

\* Auth's Middleware: revoked, expired, disabled, inactive or older than the
\* user's password_version is refused.
Accepted(s) ==
    /\ session[s] # Null /\ ~session[s].ended
    /\ LET u == session[s].user
       IN /\ ~user[u].disabled /\ user[u].active
          /\ session[s].version = user[u].version

Usable(k, kind) == token[k] # Null /\ token[k].kind = kind /\ ~token[k].used

Free(ids, table) == {i \in ids : table[i] = Null}

-----------------------------------------------------------------------------
(* Requests and the statements they end in.                                *)

Receive(h, request) ==
    /\ task[h].next = "idle" /\ request.next \in plan.requests /\ left > 0
    /\ task' = [task EXCEPT ![h] = request]
    /\ left' = left - 1
    /\ raced' = raced \ {h}
    /\ UNCHANGED <<plan, rows, unbumped>>

\* The middleware admits a request and the handler begins.
Begin(h, s, next, u, value) ==
    /\ Accepted(s)
    /\ Receive(h, [NoTask EXCEPT !.next = next, !.session = s,
                      !.actor = session[s].user, !.target = u, !.value = value])

\* Of a global_admin only.
BeginAsAdmin(h, s, next, u, value) ==
    Begin(h, s, next, u, value) /\ user[session[s].user].role = "global_admin"

\* A public request: nobody is signed in.
BeginPublic(h, next, u, value, version) ==
    Receive(h, [NoTask EXCEPT !.next = next, !.target = u, !.value = value,
                              !.version = version])

Goto(h, next) == task' = [task EXCEPT ![h].next = next]
Answer(h) == task' = [task EXCEPT ![h] = NoTask]

\* The row of u is written; the handlers at work whose view of the admins it
\* makes old are remembered.
WriteUser(h, u, row) ==
    /\ user' = [user EXCEPT ![u] = row]
    /\ raced' = raced \cup {g \in Handlers \ {h} : task[g].next # "idle" /\ Admins' # Admins}

\* A write of the users row that waits for nothing else.
Save(h, u, row) ==
    WriteUser(h, u, row) /\ Answer(h) /\ UNCHANGED <<plan, left, session, token>>

\* Mutant: the version stays.
MNewPassword(u, p) == [user[u] EXCEPT !.password = p]

\* UpdateUserPassword, for any user, invited or disabled too.
NewPassword(u, p) ==
    [user[u] EXCEPT !.password = p, !.version = @ + 1]

Versions(u) == user[u].version < MaxVersion

\* CreateSession.
Open(u, version, by, proof) ==
    \E s \in Free(Sessions, session) :
        session' = [session EXCEPT ![s] = [user |-> u, version |-> version,
                        ended |-> FALSE, by |-> by, proof |-> proof]]

\* CreateSetupToken and CreatePasswordResetToken.
NewToken(u, kind) == [user |-> u, kind |-> kind, used |-> FALSE]

Consume(k) == [token EXCEPT ![k].used = TRUE]

-----------------------------------------------------------------------------
(* Sessions.                                                               *)

\* Login reads the user and verifies the password ...
Login(h, u, p) ==
    /\ Enabled(u) /\ user[u].active /\ user[u].password = p
    /\ BeginPublic(h, "login", u, p, user[u].version)

\* Mutant: the session takes the version of the moment it is stored.
MOpenSession(h) ==
    /\ task[h].next = "login"
    /\ Open(task[h].target, user[task[h].target].version, Null, task[h].value)
    /\ Answer(h)
    /\ UNCHANGED <<plan, left, user, token, unbumped, raced>>

\* ... and opens a session with the version it has read.
OpenSession(h) ==
    /\ task[h].next = "login"
    /\ Open(task[h].target, task[h].version, Null, task[h].value)
    /\ Answer(h)
    /\ UNCHANGED <<plan, left, user, token, unbumped, raced>>

\* Logout, or the time runs out: no session comes back from either.
End(s) ==
    /\ session[s] # Null /\ ~session[s].ended
    /\ session' = [session EXCEPT ![s].ended = TRUE]
    /\ UNCHANGED <<plan, left, user, token, task, unbumped, raced>>

\* Not while impersonating, not oneself.
Impersonate(h, s, u) ==
    /\ BeginAsAdmin(h, s, "impersonate", u, Null)
    /\ session[s].by = Null /\ u # session[s].user

\* The target is read.
ReadTarget(h) ==
    LET u == task[h].target IN
    /\ task[h].next = "impersonate"
    /\ IF Enabled(u) /\ user[u].active /\ user[u].role # "global_admin"
       THEN task' = [task EXCEPT ![h].next = "assume", ![h].version = user[u].version]
       ELSE Answer(h)
    /\ UNCHANGED <<plan, left, rows, unbumped, raced>>

AssumeIdentity(h) ==
    /\ task[h].next = "assume"
    /\ Open(task[h].target, task[h].version, task[h].actor, Null)
    /\ Goto(h, "leave")
    /\ UNCHANGED <<plan, left, user, token, unbumped, raced>>

StopImpersonating(h, s) ==
    /\ session[s] # Null /\ session[s].by # Null
    /\ Begin(h, s, "stop", session[s].by, Null)

\* The session of the request is revoked; an error is ignored.
Revoke(h, next, after) ==
    /\ task[h].next = next
    /\ \/ session' = [session EXCEPT ![task[h].session].ended = TRUE]
       \/ UNCHANGED session
    /\ after
    /\ UNCHANGED <<plan, left, user, token, unbumped, raced>>
LeaveOwn(h) == Revoke(h, "leave", Answer(h))
LeaveOther(h) == Revoke(h, "stop", Goto(h, "restore"))

\* The admin is read again, and gets a session of their own.
ReadOriginal(h) ==
    LET u == task[h].target IN
    /\ task[h].next = "restore"
    /\ IF Enabled(u) /\ user[u].active
       THEN task' = [task EXCEPT ![h].next = "restored", ![h].version = user[u].version]
       ELSE Answer(h)
    /\ UNCHANGED <<plan, left, rows, unbumped, raced>>
Restore(h) ==
    /\ task[h].next = "restored"
    /\ Open(task[h].target, task[h].version, Null, Null)
    /\ Answer(h)
    /\ UNCHANGED <<plan, left, user, token, unbumped, raced>>

Signing(h) ==
    \/ \E u \in Users, p \in Passwords : Login(h, u, p)
    \/ OpenSession(h)
    \/ \E s \in Sessions, u \in Users : Impersonate(h, s, u)
    \/ ReadTarget(h) \/ AssumeIdentity(h) \/ LeaveOwn(h)
    \/ \E s \in Sessions : StopImpersonating(h, s)
    \/ LeaveOther(h) \/ ReadOriginal(h) \/ Restore(h)

-----------------------------------------------------------------------------
(* Accounts, by an admin.                                                  *)

\* GetUserByEmail does not see a disabled account; the insert then fails on the
\* unique address.
Invite(h, s, u, role) == ~Enabled(u) /\ BeginAsAdmin(h, s, "invite", u, role)

\* Mutant: not one transaction, the account is not there yet when its link is.
MCreateInvited(h) ==
    /\ task[h].next = "invite"
    /\ \E k \in Free(Tokens, token) :
         token' = [token EXCEPT ![k] = NewToken(task[h].target, "setup")]
    /\ Answer(h)
    /\ UNCHANGED <<plan, left, user, session, unbumped, raced>>

CreateInvited(h) ==
    LET u == task[h].target IN
    /\ task[h].next = "invite"
    /\ IF Exists(u)
       THEN Answer(h) /\ UNCHANGED <<user, token, raced>>
       ELSE \E k \in Free(Tokens, token) :
              /\ WriteUser(h, u, [Absent EXCEPT !.role = task[h].value])
              /\ token' = [token EXCEPT ![k] = NewToken(u, "setup")]
              /\ Answer(h)
    /\ UNCHANGED <<plan, left, session, unbumped>>

\* The invitation is sent again: the user is invited and not yet set up.
ResendInvite(h, s, u) ==
    Enabled(u) /\ ~user[u].active /\ BeginAsAdmin(h, s, "resend", u, Null)

\* The update sees the links committed when it runs; the links of another
\* transaction at work are not among them.
Invalidate(h) ==
    /\ task[h].next = "resend"
    /\ task' = [task EXCEPT ![h].next = "renew", ![h].value =
                  {k \in Tokens : Usable(k, "setup") /\ token[k].user = task[h].target}]
    /\ UNCHANGED <<plan, left, rows, unbumped, raced>>
Renew(h) ==
    /\ task[h].next = "renew"
    /\ \E new \in Free(Tokens, token) :
         token' = [k \in Tokens |->
                     IF k = new THEN NewToken(task[h].target, "setup")
                     ELSE IF k \in task[h].value THEN [token[k] EXCEPT !.used = TRUE]
                     ELSE token[k]]
    /\ Answer(h)
    /\ UNCHANGED <<plan, left, user, session, unbumped, raced>>

\* Mutant: nobody checks that it is not oneself.
MDeactivate(h, s, u) == Exists(u) /\ BeginAsAdmin(h, s, "disable", u, Null)

Deactivate(h, s, u) ==
    /\ Exists(u) /\ session[s] # Null /\ u # session[s].user
    /\ BeginAsAdmin(h, s, "disable", u, Null)
Disable(h) ==
    LET u == task[h].target IN
    /\ task[h].next = "disable"
    /\ WriteUser(h, u, [user[u] EXCEPT !.disabled = TRUE])
    /\ Goto(h, "bump")
    /\ unbumped' = unbumped \cup {u}
    /\ UNCHANGED <<plan, left, session, token>>

\* BumpPasswordVersion: after a deactivation its error is ignored.
Bump(h) ==
    LET u == task[h].target IN
    /\ task[h].next \in {"bump", "force_logout"} /\ Versions(u)
    /\ Save(h, u, [user[u] EXCEPT !.version = @ + 1])
    /\ unbumped' = unbumped \ {u}
BumpFails(h) ==
    /\ task[h].next = "bump" /\ Answer(h)
    /\ UNCHANGED <<plan, left, rows, unbumped, raced>>
ForceLogout(h, s, u) == Exists(u) /\ BeginAsAdmin(h, s, "force_logout", u, Null)

\* Mutant: the account begins anew.
MEnable(h) ==
    LET u == task[h].target IN
    /\ task[h].next = "enable"
    /\ Save(h, u, [user[u] EXCEPT !.disabled = FALSE, !.active = TRUE, !.version = 1])
    /\ UNCHANGED unbumped

\* ReactivateUser also activates who never completed the setup.
Reactivate(h, s, u) == Exists(u) /\ BeginAsAdmin(h, s, "enable", u, Null)
Enable(h) ==
    LET u == task[h].target IN
    /\ task[h].next = "enable"
    /\ Save(h, u, [user[u] EXCEPT !.disabled = FALSE, !.active = TRUE])
    /\ UNCHANGED unbumped

\* The last global_admin is not demoted: the count is read before the write.
ChangeRole(h, s, u, role) == Exists(u) /\ BeginAsAdmin(h, s, "role", u, role)
CheckRole(h) ==
    /\ task[h].next = "role"
    /\ IF /\ user[task[h].target].role = "global_admin"
          /\ task[h].value # "global_admin"
          /\ Cardinality(Admins) <= 1
       THEN Answer(h)
       ELSE Goto(h, "set_role")
    /\ UNCHANGED <<plan, left, rows, unbumped, raced>>
SetRole(h) ==
    LET u == task[h].target IN
    /\ task[h].next = "set_role"
    /\ Save(h, u, [user[u] EXCEPT !.role = task[h].value])
    /\ UNCHANGED unbumped

\* Another's password is set, one's own is changed: the current one is verified.
AdminSetPassword(h, s, u, p) ==
    /\ Exists(u) /\ session[s] # Null /\ u # session[s].user
    /\ BeginAsAdmin(h, s, "password", u, p)
ChangePassword(h, s, p) ==
    session[s] # Null /\ Begin(h, s, "verify", session[s].user, p)
Verify(h, p) ==
    /\ task[h].next = "verify"
    /\ IF user[task[h].target].password = p THEN Goto(h, "password") ELSE Answer(h)
    /\ UNCHANGED <<plan, left, rows, unbumped, raced>>
SetPassword(h) ==
    LET u == task[h].target IN
    /\ task[h].next = "password" /\ Versions(u)
    /\ Save(h, u, NewPassword(u, task[h].value))
    /\ UNCHANGED unbumped

Accounts(h) ==
    \/ \E s \in Sessions, u \in Users :
         \/ ResendInvite(h, s, u) \/ Deactivate(h, s, u) \/ Reactivate(h, s, u)
         \/ ForceLogout(h, s, u)
         \/ \E r \in Roles : Invite(h, s, u, r) \/ ChangeRole(h, s, u, r)
         \/ \E p \in Passwords : AdminSetPassword(h, s, u, p)
    \/ \E s \in Sessions, p \in Passwords : ChangePassword(h, s, p)
    \/ CreateInvited(h) \/ Invalidate(h) \/ Renew(h)
    \/ Disable(h) \/ Bump(h) \/ BumpFails(h) \/ Enable(h)
    \/ CheckRole(h) \/ SetRole(h)
    \/ \E p \in Passwords : Verify(h, p)
    \/ SetPassword(h)

-----------------------------------------------------------------------------
(* Links.                                                                  *)

\* HandleForgotPassword writes no link for an account that is not active; an
\* earlier link stays good.
ForgotPassword(h, u) ==
    Enabled(u) /\ user[u].active /\ BeginPublic(h, "forgot", u, Null, 1)
CreateReset(h) ==
    /\ task[h].next = "forgot"
    /\ \E k \in Free(Tokens, token) :
         token' = [token EXCEPT ![k] = NewToken(task[h].target, "reset")]
    /\ Answer(h)
    /\ UNCHANGED <<plan, left, user, session, unbumped, raced>>

\* A link is looked up, with the new password, before the transaction.
FollowLink(h, k, kind, p) ==
    Usable(k, kind) /\ BeginPublic(h, kind, k, p, 1)

\* HandleSetupComplete's transaction activates; nothing looks at the link again.
CompleteSetup(h) ==
    LET k == task[h].target
        u == token[k].user
    IN
    /\ task[h].next = "setup" /\ Versions(u)
    /\ WriteUser(h, u, [NewPassword(u, task[h].value) EXCEPT !.active = TRUE])
    /\ token' = Consume(k)
    /\ Answer(h)
    /\ UNCHANGED <<plan, left, session, unbumped>>
ResetPassword(h) ==
    LET k == task[h].target
        u == token[k].user
    IN
    /\ task[h].next = "reset" /\ Versions(u)
    /\ WriteUser(h, u, NewPassword(u, task[h].value))
    /\ token' = Consume(k)
    /\ Answer(h)
    /\ UNCHANGED <<plan, left, session, unbumped>>

Links(h) ==
    \/ \E u \in Users : ForgotPassword(h, u)
    \/ CreateReset(h)
    \/ \E k \in Tokens, kind \in {"setup", "reset"}, p \in Passwords :
         FollowLink(h, k, kind, p)
    \/ CompleteSetup(h) \/ ResetPassword(h)

\* A link's time runs out.
Lapse(k) ==
    /\ token[k] # Null /\ ~token[k].used
    /\ token' = Consume(k)
    /\ UNCHANGED <<plan, left, user, session, task, unbumped, raced>>

-----------------------------------------------------------------------------
Init ==
    /\ plan \in Plans
    /\ left = plan.count
    /\ user = plan.users
    /\ session = plan.sessions
    /\ token = [k \in Tokens |-> Null]
    /\ task = [h \in Handlers |-> NoTask]
    /\ unbumped = {}
    /\ raced = {}

Next ==
    \/ \E h \in Handlers : Signing(h) \/ Accounts(h) \/ Links(h)
    \/ \E s \in Sessions : End(s)
    \/ \E k \in Tokens : Lapse(k)

Spec == Init /\ [][Next]_vars

-----------------------------------------------------------------------------
(* Properties.                                                             *)

UserType ==
    [role : Roles \cup {Null}, active : BOOLEAN, disabled : BOOLEAN,
     version : 1 .. MaxVersion, password : Passwords \cup {Null}]
SessionType ==
    [user : Users, version : 1 .. MaxVersion, ended : BOOLEAN,
     by : Users \cup {Null}, proof : Passwords \cup {Null}]
TokenType == [user : Users, kind : {"setup", "reset"}, used : BOOLEAN]

\* No row is NULL.
ASSUME RowsAssumption == Null \notin SessionType \cup TokenType

\* A behaviour begins with accounts and sessions that earlier ones can leave: a
\* session carries a version its user has had, and one that carries the present
\* version was opened by somebody active, with the present password if with any.
ASSUME PlansAssumption ==
    \A p \in Plans :
        /\ p.users \in [Users -> UserType]
        /\ p.sessions \in [Sessions -> SessionType \cup {Null}]
        /\ \A s \in Sessions : p.sessions[s] # Null =>
             LET i == p.sessions[s]
                 u == p.users[i.user]
             IN /\ u.role # Null
                /\ i.version <= u.version
                /\ i.version = u.version =>
                     u.active /\ ~u.disabled /\ i.proof \in {Null, u.password}

\* Accounts, sessions and links have the columns of their tables (users,
\* sessions, setup_tokens, password_reset_tokens), and a link or a session is of
\* a user who exists: no request invents one for a user it never read.
TypeOK ==
    /\ user \in [Users -> UserType]
    /\ session \in [Sessions -> SessionType \cup {Null}]
    /\ token \in [Tokens -> TokenType \cup {Null}]
    /\ \A i \in Sessions : session[i] # Null => Exists(session[i].user)
    /\ \A k \in Tokens : token[k] # Null => Exists(token[k].user)

\* A session that was opened with a password is accepted only while that is the
\* user's password, even when the password changes between the login's check and
\* the session it stores (Login, UpdateUserPassword).
SessionProvesPassword ==
    \A s \in Sessions :
        /\ Accepted(s)
        /\ session[s].proof # Null
        => session[s].proof = user[session[s].user].password

\* A session that is refused stays refused, whatever is changed, reset or
\* reactivated: password_version only grows.  The one exception is an account
\* deactivated without its sign-out (toggleDisabled ignores that error), whose
\* reactivation brings its sessions back.
RevivedOnlyUnbumped ==
    [][\A s \in Sessions :
          /\ session[s] # Null /\ ~Accepted(s) /\ Accepted(s)'
          => session[s].user \in unbumped]_vars

\* There is always a global admin who is not disabled (CountGlobalAdmins), but
\* for a request overtaken by another that changed who the admins are: the check
\* on oneself (HandleDeactivate) and the count (HandleRoleChange) suffice when
\* requests come one at a time.
AdminsRunOutOnlyInARace ==
    [][Admins # {} /\ Admins' = {}
         => \E h \in raced : task'[h] # task[h]]_vars

\* Somebody is able to manage the accounts.  "Prevent demoting the last
\* global_admin -- keeps somebody able to manage" (users/handlers.go:354).
GlobalAdminRemains == \E u \in Admins : user[u].active
=============================================================================
