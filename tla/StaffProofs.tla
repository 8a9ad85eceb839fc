----------------------------- MODULE StaffProofs -----------------------------
(***************************************************************************)
(* Theorems about Staff for any accounts, links, sessions and requests.    *)
(***************************************************************************)
EXTENDS Staff, FiniteSetTheorems, TLAPS

(***************************************************************************)
(* What one needs to open a session of u: a version u has had, and if it   *)
(* is the present one, u is active, not signed out by a deactivation, and  *)
(* the password that was shown, if any, is u's.                            *)
(***************************************************************************)
Credential(u, version, proof) ==
    /\ u \in Users /\ Exists(u)
    /\ version \in 1 .. MaxVersion /\ version <= user[u].version
    /\ version = user[u].version =>
         /\ user[u].active
         /\ user[u].disabled => u \in unbumped
         /\ proof # Null => proof = user[u].password

Kinds == {"idle", "login", "impersonate", "assume", "leave", "stop", "restore", "restored",
          "invite", "resend", "renew", "disable", "bump", "force_logout", "enable", "role",
          "set_role", "verify", "password", "forgot", "setup", "reset"}

Task == [next : Kinds, session : Sessions \cup {Null}, actor : Users \cup {Null},
         target : Users \cup Tokens \cup {Null},
         value : Passwords \cup Roles \cup (SUBSET Tokens) \cup {Null},
         version : 1 .. MaxVersion]

OnAccount == {"resend", "renew", "disable", "bump", "force_logout", "enable", "role",
              "set_role", "verify", "password", "forgot"}

\* What a request carries is still there when its next statement runs.
Carries(k) ==
    /\ k.next = "login" => k.value \in Passwords /\ Credential(k.target, k.version, k.value)
    /\ k.next \in {"assume", "restored"} => Credential(k.target, k.version, Null)
    /\ k.next \in {"impersonate", "assume", "leave", "stop"} =>
         k.session \in Sessions /\ session[k.session] # Null
    /\ k.next \in {"impersonate", "stop", "restore", "invite"} => k.target \in Users
    /\ k.next \in OnAccount => k.target \in Users /\ Exists(k.target)
    /\ k.next \in {"invite", "role", "set_role"} => k.value \in Roles
    /\ k.next \in {"verify", "password", "setup", "reset"} => k.value \in Passwords
    /\ k.next = "renew" => k.value \subseteq {t \in Tokens : token[t] # Null}
    /\ k.next \in {"setup", "reset"} => k.target \in Tokens /\ token[k.target] # Null

(***************************************************************************)
(* The inductive invariant of the accounts.                                *)
(***************************************************************************)
StaffInv ==
    /\ TypeOK
    /\ task \in [Handlers -> Task]
    /\ \A h \in Handlers : Carries(task[h])
    /\ \A s \in Sessions : session[s] # Null =>
         Credential(session[s].user, session[s].version, session[s].proof)

(***************************************************************************)
(* What every step does to the tables: accounts stay, stay active, and     *)
(* change password or leave an unfinished sign-out only with a new         *)
(* version; a session that ended stays ended; links stay.                  *)
(***************************************************************************)
AccountsGrow ==
    /\ user' \in [Users -> UserType]
    /\ \A u \in Users : Exists(u) =>
         /\ user'[u].role # Null
         /\ user[u].version <= user'[u].version
         /\ user'[u].version = user[u].version =>
              /\ user[u].active => user'[u].active
              /\ user'[u].password = user[u].password
              /\ (user[u].disabled => u \in unbumped) =>
                   (user'[u].disabled => u \in unbumped')

SessionsGrow ==
    /\ session' \in [Sessions -> SessionType \cup {Null}]
    /\ \A s \in Sessions : session[s] # Null =>
         /\ session'[s] # Null
         /\ session'[s].user = session[s].user
         /\ session'[s].version = session[s].version
         /\ session'[s].proof = session[s].proof
         /\ session[s].ended => session'[s].ended

SessionsOpened ==
    \A s \in Sessions : session[s] = Null /\ session'[s] # Null =>
        Credential(session'[s].user, session'[s].version, session'[s].proof)

TokensGrow ==
    /\ token' \in [Tokens -> TokenType \cup {Null}]
    /\ \A k \in Tokens : token[k] # Null => token'[k] # Null
    /\ \A k \in Tokens : token'[k] # Null => user'[token'[k].user].role # Null

TasksMove ==
    /\ task' \in [Handlers -> Task]
    /\ \A h \in Handlers : task'[h] = task[h] \/ Carries(task[h])'

Step == AccountsGrow /\ SessionsGrow /\ SessionsOpened /\ TokensGrow /\ TasksMove

(***************************************************************************)
(* A credential keeps being one, or becomes one of an older version.       *)
(***************************************************************************)
LEMMA CredentialStays ==
    ASSUME StaffInv, AccountsGrow, NEW u, NEW v, NEW p, Credential(u, v, p)
    PROVE  Credential(u, v, p)'
<1>1. u \in Users /\ user[u] \in UserType /\ user'[u] \in UserType
  BY DEF Credential, StaffInv, TypeOK, AccountsGrow
<1>2. v \in Int /\ user[u].version \in Int /\ user'[u].version \in Int
  BY <1>1, StaffAssumption DEF Credential, UserType
<1>3. /\ user'[u].role # Null
      /\ user[u].version <= user'[u].version
      /\ user'[u].version = user[u].version =>
              /\ user[u].active => user'[u].active
              /\ user'[u].password = user[u].password
              /\ (user[u].disabled => u \in unbumped) =>
                   (user'[u].disabled => u \in unbumped')
  BY <1>1 DEF Credential, AccountsGrow
<1>4. CASE v = user'[u].version
  <2>1. user'[u].version = user[u].version
    BY <1>2, <1>3, <1>4 DEF Credential
  <2> QED BY <1>1, <1>2, <1>3, <1>4, <2>1 DEF Credential, Exists
<1>5. CASE v # user'[u].version
  BY <1>1, <1>2, <1>3, <1>5 DEF Credential, Exists
<1> QED BY <1>4, <1>5

(***************************************************************************)
(* What a request carries stays while others work.                         *)
(***************************************************************************)
LEMMA CarriesStays ==
    ASSUME StaffInv, AccountsGrow, SessionsGrow, TokensGrow, NEW k, Carries(k)
    PROVE  Carries(k)'
<1>1. \A u, v, p : Credential(u, v, p) => Credential(u, v, p)'
  BY CredentialStays
<1>2. \A u \in Users : Exists(u) => Exists(u)'
  BY DEF AccountsGrow, Exists
<1>3. \A s \in Sessions : session[s] # Null => session'[s] # Null
  BY DEF SessionsGrow
<1>4. \A t \in Tokens : token[t] # Null => token'[t] # Null
  BY DEF TokensGrow
<1> QED BY <1>1, <1>2, <1>3, <1>4 DEF Carries

(***************************************************************************)
(* Hence any step of this kind keeps the invariant.                        *)
(***************************************************************************)
LEMMA StepKeeps == ASSUME StaffInv, Step PROVE StaffInv'
<1>1. TypeOK'
  <2>1. \A s \in Sessions : session'[s] # Null => Exists(session[s].user)'
    <3> SUFFICES ASSUME NEW s \in Sessions, session'[s] # Null
                 PROVE  Exists(session[s].user)'
      OBVIOUS
    <3>1. CASE session[s] # Null
      <4>1. session'[s].user = session[s].user /\ session[s].user \in Users
            /\ Exists(session[s].user)
        BY <3>1 DEF Step, SessionsGrow, StaffInv, Credential
      <4> QED BY <4>1 DEF Step, AccountsGrow, Exists
    <3>2. CASE session[s] = Null
      BY <3>2 DEF Step, SessionsOpened, Credential, AccountsGrow, Exists
    <3> QED BY <3>1, <3>2
  <2> QED BY <2>1 DEF TypeOK, Step, AccountsGrow, SessionsGrow, TokensGrow, Exists
<1>2. \A h \in Handlers : Carries(task[h])'
  <2> SUFFICES ASSUME NEW h \in Handlers, task'[h] = task[h] PROVE Carries(task[h])'
    BY DEF Step, TasksMove
  <2> DEFINE k == task[h]
  <2>1. Carries(k)
    BY DEF StaffInv
  <2> HIDE DEF k
  <2>2. Carries(task[h]) => \A x : x = task[h] => Carries(x)'
    BY CarriesStays DEF Step
  <2> QED BY <2>1, <2>2 DEF k
<1>3. \A s \in Sessions : session'[s] # Null =>
         Credential(session[s].user, session[s].version, session[s].proof)'
  <2> SUFFICES ASSUME NEW s \in Sessions, session'[s] # Null
               PROVE  Credential(session[s].user, session[s].version, session[s].proof)'
    OBVIOUS
  <2>1. Credential(session'[s].user, session'[s].version, session'[s].proof)
    BY DEF StaffInv, Step, SessionsGrow, SessionsOpened
  <2> DEFINE u == session'[s].user
             v == session'[s].version
             p == session'[s].proof
  <2>2. \A x, y, z : Credential(x, y, z) => Credential(x, y, z)'
    BY CredentialStays DEF Step
  <2> QED BY <2>1, <2>2
<1> QED BY <1>1, <1>2, <1>3 DEF StaffInv, Step, TasksMove

(***************************************************************************)
(* The idle task, and a task that goes on.                                 *)
(***************************************************************************)
LEMMA NoTaskType == NoTask \in Task /\ Carries(NoTask)
<1>1. 1 \in 1 .. MaxVersion
  BY StaffAssumption
<1>2. "idle" \in Kinds
  BY DEF Kinds
<1>3. NoTask \in Task
  BY <1>1, <1>2 DEF NoTask, Task
<1>4. Carries(NoTask)
  BY DEF NoTask, Carries, OnAccount
<1> QED BY <1>3, <1>4

LEMMA GoOn ==
    ASSUME StaffInv, NEW h \in Handlers
    PROVE  /\ task[h] \in Task /\ Carries(task[h])
           /\ task[h].actor \in Users \cup {Null}
           /\ task[h].version \in 1 .. MaxVersion
  BY DEF StaffInv, Task

LEMMA GotoTask ==
    ASSUME StaffInv, NEW h \in Handlers, NEW n \in Kinds, Goto(h, n),
           NEW k, k = [task[h] EXCEPT !.next = n]
    PROVE  /\ k \in Task
           /\ k.next = n /\ k.session = task[h].session /\ k.target = task[h].target
           /\ k.value = task[h].value /\ k.version = task[h].version
           /\ task' = [task EXCEPT ![h] = k]
<1>1. task \in [Handlers -> Task] /\ task[h] \in Task
  BY DEF StaffInv
<1> QED BY <1>1 DEF Task, Goto

(***************************************************************************)
(* Tables that are left alone.                                             *)
(***************************************************************************)
LEMMA AccountsStay ==
    ASSUME StaffInv, UNCHANGED <<user, unbumped>> PROVE AccountsGrow
<1>1. \A u \in Users : user[u].version \in Int
  BY StaffAssumption DEF StaffInv, TypeOK, UserType
<1> QED BY <1>1 DEF StaffInv, TypeOK, AccountsGrow, Exists

LEMMA SessionsStay ==
    ASSUME StaffInv, UNCHANGED session PROVE SessionsGrow /\ SessionsOpened
  BY DEF StaffInv, TypeOK, SessionsGrow, SessionsOpened

LEMMA TokensStay ==
    ASSUME StaffInv, AccountsGrow, UNCHANGED token PROVE TokensGrow
<1>1. \A k \in Tokens : token[k] # Null =>
          token[k].user \in Users /\ user[token[k].user].role # Null
  BY DEF StaffInv, TypeOK, TokenType, Exists
<1> QED BY <1>1 DEF StaffInv, TypeOK, AccountsGrow, TokensGrow, Exists

(***************************************************************************)
(* One request moves on, whatever it did to the tables.                    *)
(***************************************************************************)
LEMMA MoveStep ==
    ASSUME StaffInv, AccountsGrow, SessionsGrow, SessionsOpened, TokensGrow,
           NEW h \in Handlers, NEW k \in Task, Carries(k),
           task' = [task EXCEPT ![h] = k]
    PROVE  Step
<1>1. Carries(k)'
  BY CarriesStays
<1>2. task' \in [Handlers -> Task]
  BY DEF StaffInv
<1>3. \A g \in Handlers : task'[g] = task[g] \/ Carries(task[g])'
  <2> SUFFICES ASSUME NEW g \in Handlers, task'[g] # task[g] PROVE Carries(task[g])'
    OBVIOUS
  <2>1. g = h /\ task'[g] = k
    BY DEF StaffInv
  <2> QED BY <1>1, <2>1
<1> QED BY <1>2, <1>3 DEF Step, TasksMove

\* A statement that only reads.
LEMMA ReadStep ==
    ASSUME StaffInv, UNCHANGED <<rows, unbumped>>,
           NEW h \in Handlers, NEW k \in Task, Carries(k),
           task' = [task EXCEPT ![h] = k]
    PROVE  Step
  BY AccountsStay, SessionsStay, TokensStay, MoveStep DEF rows

\* One that stores a session.
LEMMA OpenStep ==
    ASSUME StaffInv, NEW u, NEW v, NEW p, NEW by \in Users \cup {Null},
           p \in Passwords \cup {Null}, Credential(u, v, p), Open(u, v, by, p),
           UNCHANGED <<user, token, unbumped>>,
           NEW h \in Handlers, NEW k \in Task, Carries(k),
           task' = [task EXCEPT ![h] = k]
    PROVE  Step
<1> DEFINE new == [user |-> u, version |-> v, ended |-> FALSE, by |-> by, proof |-> p]
<1>1. new \in SessionType
  BY DEF Credential, SessionType
<1>2. PICK s \in Sessions : session[s] = Null /\ session' = [session EXCEPT ![s] = new]
  BY DEF Open, Free
<1>3. new.user = u /\ new.version = v /\ new.proof = p
  OBVIOUS
<1> HIDE DEF new
<1>4. SessionsGrow
  BY <1>1, <1>2 DEF StaffInv, TypeOK, SessionsGrow
<1>5. SessionsOpened
  BY <1>2, <1>3 DEF StaffInv, TypeOK, SessionsOpened
<1> QED BY <1>4, <1>5, AccountsStay, TokensStay, MoveStep

\* One that ends a session.
LEMMA EndGrows ==
    ASSUME StaffInv, NEW s \in Sessions, session[s] # Null,
           session' = [session EXCEPT ![s].ended = TRUE]
    PROVE  SessionsGrow /\ SessionsOpened
<1> DEFINE i == [session[s] EXCEPT !.ended = TRUE]
<1>1. session \in [Sessions -> SessionType \cup {Null}] /\ session[s] \in SessionType
  BY DEF StaffInv, TypeOK
<1>2. /\ i \in SessionType /\ i.user = session[s].user /\ i.version = session[s].version
      /\ i.proof = session[s].proof /\ i.ended
  BY <1>1 DEF SessionType
<1>3. session' = [session EXCEPT ![s] = i]
  BY <1>1
<1>4. i # Null
  BY <1>2, RowsAssumption
<1> HIDE DEF i
<1> QED BY <1>1, <1>2, <1>3, <1>4 DEF SessionsGrow, SessionsOpened

\* One that writes a row of users: the row is no older than it was.
LEMMA SaveGrows ==
    ASSUME StaffInv, NEW u \in Users, NEW row \in UserType, NEW h \in Handlers,
           WriteUser(h, u, row), row.role # Null,
           \A x \in Users \ {u} : x \in unbumped => x \in unbumped',
           Exists(u) =>
              /\ user[u].version <= row.version
              /\ row.version = user[u].version =>
                   /\ user[u].active => row.active
                   /\ row.password = user[u].password
                   /\ (user[u].disabled => u \in unbumped) =>
                        (row.disabled => u \in unbumped')
    PROVE  AccountsGrow
<1>1. \A x \in Users : user[x].version \in Int
  BY StaffAssumption DEF StaffInv, TypeOK, UserType
<1>2. user \in [Users -> UserType] /\ user' = [user EXCEPT ![u] = row]
  BY DEF StaffInv, TypeOK, WriteUser
<1> QED BY <1>1, <1>2 DEF AccountsGrow, Exists

-----------------------------------------------------------------------------
(* The requests begin.                                                     *)

LEMMA ReceiveStep ==
    ASSUME StaffInv, NEW h \in Handlers, NEW k \in Task, Carries(k), Receive(h, k)
    PROVE  Step
  BY ReadStep DEF Receive

\* Who is signed in exists.
LEMMA Accepts ==
    ASSUME StaffInv, NEW s \in Sessions, Accepted(s)
    PROVE  /\ session[s] # Null /\ session[s] \in SessionType
           /\ session[s].user \in Users /\ Exists(session[s].user)
  BY DEF StaffInv, TypeOK, SessionType, Accepted

LEMMA BeginStep ==
    ASSUME StaffInv, NEW h \in Handlers, NEW s \in Sessions,
           NEW n \in Kinds, NEW u \in Users, NEW x \in Passwords \cup Roles \cup {Null},
           Begin(h, s, n, u, x),
           n \in {"impersonate", "stop", "invite"} \cup OnAccount,
           n \in OnAccount => Exists(u),
           n \in {"invite", "role", "set_role"} => x \in Roles,
           n \in {"verify", "password"} => x \in Passwords,
           n # "renew"
    PROVE  Step
<1> DEFINE k == [NoTask EXCEPT !.next = n, !.session = s, !.actor = session[s].user,
                               !.target = u, !.value = x]
<1>1. session[s] # Null /\ session[s].user \in Users
  BY Accepts DEF Begin
<1>2. k \in Task
  BY <1>1, NoTaskType DEF NoTask, Task
<1>3. /\ k.next = n /\ k.session = s /\ k.target = u /\ k.value = x
  BY DEF NoTask
<1>4. Receive(h, k)
  BY DEF Begin
<1> HIDE DEF k
<1>5. Carries(k)
  BY <1>1, <1>3 DEF Carries, OnAccount
<1> QED BY <1>2, <1>4, <1>5, ReceiveStep

LEMMA PublicStep ==
    ASSUME StaffInv, NEW h \in Handlers, NEW n \in Kinds,
           NEW u \in Users \cup Tokens, NEW x \in Passwords \cup {Null},
           NEW v \in 1 .. MaxVersion, BeginPublic(h, n, u, x, v),
           n \in {"login", "forgot", "setup", "reset"},
           n = "login" => x \in Passwords /\ Credential(u, v, x),
           n = "forgot" => u \in Users /\ Exists(u),
           n \in {"setup", "reset"} => u \in Tokens /\ token[u] # Null /\ x \in Passwords
    PROVE  Step
<1> DEFINE k == [NoTask EXCEPT !.next = n, !.target = u, !.value = x, !.version = v]
<1>1. k \in Task
  BY NoTaskType DEF NoTask, Task
<1>2. k.next = n /\ k.target = u /\ k.value = x /\ k.version = v
  BY DEF NoTask
<1>3. Receive(h, k)
  BY DEF BeginPublic
<1> HIDE DEF k
<1>4. Carries(k)
  BY <1>2 DEF Carries, OnAccount
<1> QED BY <1>1, <1>3, <1>4, ReceiveStep

-----------------------------------------------------------------------------
(* Action by action.                                                       *)

LEMMA SigningStep == ASSUME StaffInv, NEW h \in Handlers, Signing(h) PROVE Step
<1> USE DEF Kinds
<1>1. ASSUME NEW u \in Users, NEW p \in Passwords, Login(h, u, p) PROVE Step
  <2>1. user[u] \in UserType
    BY DEF StaffInv, TypeOK
  <2>2. Credential(u, user[u].version, p)
    BY <1>1, <2>1, StaffAssumption DEF Login, Enabled, Credential, UserType
  <2>3. user[u].version \in 1 .. MaxVersion /\ BeginPublic(h, "login", u, p, user[u].version)
    BY <1>1, <2>1 DEF Login, UserType
  <2> QED BY <2>2, <2>3, PublicStep
<1>2. ASSUME OpenSession(h) PROVE Step
  <2>1. /\ Carries(NoTask) /\ NoTask \in Task
        /\ task[h].value \in Passwords
        /\ Credential(task[h].target, task[h].version, task[h].value)
    BY <1>2, NoTaskType, GoOn DEF OpenSession, Carries
  <2> QED BY <1>2, <2>1, OpenStep DEF OpenSession, Answer
<1>3. ASSUME NEW s \in Sessions, NEW u \in Users, Impersonate(h, s, u) PROVE Step
  BY <1>3, BeginStep DEF Impersonate, BeginAsAdmin, OnAccount
<1>4. ASSUME ReadTarget(h) PROVE Step
  <2> DEFINE u == task[h].target
             k == [task[h] EXCEPT !.next = "assume", !.version = user[u].version]
  <2>1. task[h] \in Task /\ task[h].next = "impersonate" /\ u \in Users
        /\ task[h].session \in Sessions /\ session[task[h].session] # Null
    BY <1>4, GoOn DEF ReadTarget, Carries
  <2>2. CASE task' = [task EXCEPT ![h] = NoTask]
    BY <1>4, <2>2, NoTaskType, ReadStep DEF ReadTarget
  <2>3. CASE /\ Enabled(u) /\ user[u].active
             /\ task' = [task EXCEPT ![h].next = "assume", ![h].version = user[u].version]
    <3>1. user[u] \in UserType
      BY <2>1 DEF StaffInv, TypeOK
    <3>2. Credential(u, user[u].version, Null)
      BY <2>1, <2>3, <3>1, StaffAssumption DEF Enabled, Credential, UserType
    <3>3. k \in Task /\ k.next = "assume" /\ k.target = u /\ k.session = task[h].session
          /\ k.version = user[u].version
      BY <2>1, <3>1 DEF Task, UserType
    <3>4. task' = [task EXCEPT ![h] = k]
      BY <2>3 DEF StaffInv
    <3> HIDE DEF k, u
    <3>5. Carries(k)
      BY <2>1, <3>2, <3>3 DEF Carries, OnAccount
    <3> QED BY <1>4, <3>3, <3>4, <3>5, ReadStep DEF ReadTarget
  <2> QED BY <1>4, <2>2, <2>3 DEF ReadTarget, Answer
<1>5. ASSUME AssumeIdentity(h) PROVE Step
  <2> DEFINE k == [task[h] EXCEPT !.next = "leave"]
  <2>1. /\ task[h].session \in Sessions /\ session[task[h].session] # Null
        /\ task[h].actor \in Users \cup {Null}
        /\ Credential(task[h].target, task[h].version, Null)
    BY <1>5, GoOn DEF AssumeIdentity, Carries
  <2>2. /\ k \in Task /\ k.next = "leave" /\ k.session = task[h].session
        /\ task' = [task EXCEPT ![h] = k]
    BY <1>5, GotoTask DEF AssumeIdentity
  <2> HIDE DEF k
  <2>3. Carries(k)
    BY <2>1, <2>2 DEF Carries, OnAccount
  <2> QED BY <1>5, <2>1, <2>2, <2>3, OpenStep DEF AssumeIdentity
<1>6. ASSUME NEW s \in Sessions, StopImpersonating(h, s) PROVE Step
  <2>1. session[s].by \in Users
    BY <1>6 DEF StopImpersonating, StaffInv, TypeOK, SessionType
  <2> QED BY <1>6, <2>1, BeginStep DEF StopImpersonating, OnAccount
<1>7. ASSUME NEW n \in {"leave", "stop"}, NEW k \in Task, Carries(k),
             Revoke(h, n, task' = [task EXCEPT ![h] = k])
      PROVE  Step
  <2>1. task[h].session \in Sessions /\ session[task[h].session] # Null
    BY <1>7, GoOn DEF Revoke, Carries
  <2>2. SessionsGrow /\ SessionsOpened
    <3>1. CASE UNCHANGED session
      BY <3>1, SessionsStay
    <3>2. CASE session' = [session EXCEPT ![task[h].session].ended = TRUE]
      BY <2>1, <3>2, EndGrows
    <3> QED BY <1>7, <3>1, <3>2 DEF Revoke
  <2> QED BY <1>7, <2>2, AccountsStay, TokensStay, MoveStep DEF Revoke
<1>8. ASSUME LeaveOwn(h) PROVE Step
  BY <1>7, <1>8, NoTaskType DEF LeaveOwn, Answer, Revoke
<1>9. ASSUME LeaveOther(h) PROVE Step
  <2> DEFINE k == [task[h] EXCEPT !.next = "restore"]
  <2>1. task[h].target \in Users
    BY <1>9, GoOn DEF LeaveOther, Revoke, Carries
  <2>2. /\ k \in Task /\ k.next = "restore" /\ k.target = task[h].target
        /\ task' = [task EXCEPT ![h] = k]
    BY <1>9, GotoTask DEF LeaveOther, Revoke
  <2> HIDE DEF k
  <2>3. Carries(k)
    BY <2>1, <2>2 DEF Carries, OnAccount
  <2> QED BY <1>7, <1>9, <2>2, <2>3 DEF LeaveOther, Revoke
<1>10. ASSUME ReadOriginal(h) PROVE Step
  <2> DEFINE u == task[h].target
             k == [task[h] EXCEPT !.next = "restored", !.version = user[u].version]
  <2>1. task[h] \in Task /\ task[h].next = "restore" /\ u \in Users
    BY <1>10, GoOn DEF ReadOriginal, Carries
  <2>2. CASE task' = [task EXCEPT ![h] = NoTask]
    BY <1>10, <2>2, NoTaskType, ReadStep DEF ReadOriginal
  <2>3. CASE /\ Enabled(u) /\ user[u].active
             /\ task' = [task EXCEPT ![h].next = "restored", ![h].version = user[u].version]
    <3>1. user[u] \in UserType
      BY <2>1 DEF StaffInv, TypeOK
    <3>2. Credential(u, user[u].version, Null)
      BY <2>1, <2>3, <3>1, StaffAssumption DEF Enabled, Credential, UserType
    <3>3. k \in Task /\ k.next = "restored" /\ k.target = u /\ k.version = user[u].version
      BY <2>1, <3>1 DEF Task, UserType
    <3>4. task' = [task EXCEPT ![h] = k]
      BY <2>3 DEF StaffInv
    <3> HIDE DEF k, u
    <3>5. Carries(k)
      BY <2>1, <3>2, <3>3 DEF Carries, OnAccount
    <3> QED BY <1>10, <3>3, <3>4, <3>5, ReadStep DEF ReadOriginal
  <2> QED BY <1>10, <2>2, <2>3 DEF ReadOriginal, Answer
<1>11. ASSUME Restore(h) PROVE Step
  <2>1. /\ Carries(NoTask) /\ NoTask \in Task
        /\ Credential(task[h].target, task[h].version, Null)
    BY <1>11, NoTaskType, GoOn DEF Restore, Carries
  <2> QED BY <1>11, <2>1, OpenStep DEF Restore, Answer
<1> QED BY <1>1, <1>2, <1>3, <1>4, <1>5, <1>6, <1>8, <1>9, <1>10, <1>11 DEF Signing

\* A link is stored for an account that exists, or one is used up.
LEMMA NewLink ==
    ASSUME StaffInv, AccountsGrow, NEW k \in Free(Tokens, token), NEW u \in Users,
           user'[u].role # Null, NEW kind \in {"setup", "reset"},
           token' = [token EXCEPT ![k] = NewToken(u, kind)]
    PROVE  TokensGrow
<1>1. NewToken(u, kind) \in TokenType /\ NewToken(u, kind).user = u
  BY DEF NewToken, TokenType
<1>2. NewToken(u, kind) # Null
  BY <1>1, RowsAssumption
<1>3. /\ token \in [Tokens -> TokenType \cup {Null}]
      /\ \A x \in Tokens : token[x] # Null =>
           token[x].user \in Users /\ user'[token[x].user].role # Null
  BY DEF StaffInv, TypeOK, TokenType, AccountsGrow
<1> QED BY <1>1, <1>2, <1>3 DEF TokensGrow, Free

LEMMA UsedLink ==
    ASSUME StaffInv, AccountsGrow, NEW k \in Tokens, token[k] # Null, token' = Consume(k)
    PROVE  TokensGrow
<1> DEFINE x == [token[k] EXCEPT !.used = TRUE]
<1>1. token \in [Tokens -> TokenType \cup {Null}] /\ token[k] \in TokenType
  BY DEF StaffInv, TypeOK
<1>2. x \in TokenType /\ x.user = token[k].user
  BY <1>1 DEF TokenType
<1>3. x # Null /\ token' = [token EXCEPT ![k] = x]
  BY <1>1, <1>2, RowsAssumption DEF Consume
<1>4. \A y \in Tokens : token[y] # Null =>
         token[y].user \in Users /\ user'[token[y].user].role # Null
  BY DEF StaffInv, TypeOK, TokenType, AccountsGrow
<1> HIDE DEF x
<1> QED BY <1>1, <1>2, <1>3, <1>4 DEF TokensGrow

\* An update of an account that exists: neither role nor version get lost.
LEMMA UpdateStep ==
    ASSUME StaffInv, NEW h \in Handlers, NEW u \in Users, Exists(u),
           NEW row \in UserType, WriteUser(h, u, row), row.role # Null,
           UNCHANGED <<session, token>>,
           NEW k \in Task, Carries(k), task' = [task EXCEPT ![h] = k],
           \A x \in Users \ {u} : x \in unbumped => x \in unbumped',
           user[u].version <= row.version,
           row.version = user[u].version =>
               /\ user[u].active => row.active
               /\ row.password = user[u].password
               /\ (user[u].disabled => u \in unbumped) =>
                      (row.disabled => u \in unbumped')
    PROVE  Step
  BY SaveGrows, SessionsStay, TokensStay, MoveStep

\* The rows that the updates of a users row write.
LEMMA UpdatedRow ==
    ASSUME NEW row \in UserType, row.role # Null
    PROVE  /\ LET new == [row EXCEPT !.disabled = TRUE]
              IN  /\ new \in UserType /\ new.role # Null /\ row.version <= new.version
                  /\ new.active = row.active /\ new.password = row.password
           /\ LET new == [row EXCEPT !.disabled = FALSE, !.active = TRUE]
              IN  /\ new \in UserType /\ new.role # Null /\ row.version <= new.version
                  /\ new.active /\ ~new.disabled /\ new.password = row.password
           /\ row.version < MaxVersion =>
                LET new == [row EXCEPT !.version = @ + 1]
                IN  /\ new \in UserType /\ new.role # Null
                    /\ row.version <= new.version /\ new.version # row.version
<1>1. /\ row.version \in Int /\ row.version <= row.version
      /\ row.version < MaxVersion => row.version + 1 \in 1 .. MaxVersion
  BY StaffAssumption DEF UserType
<1>2. /\ [row EXCEPT !.disabled = TRUE] \in UserType
      /\ [row EXCEPT !.disabled = FALSE, !.active = TRUE] \in UserType
      /\ row.version < MaxVersion => [row EXCEPT !.version = @ + 1] \in UserType
  BY <1>1 DEF UserType
<1>3. LET new == [row EXCEPT !.disabled = TRUE]
      IN  /\ new.role = row.role /\ new.version = row.version
          /\ new.active = row.active /\ new.password = row.password
  BY DEF UserType
<1>4. LET new == [row EXCEPT !.disabled = FALSE, !.active = TRUE]
      IN  /\ new.role = row.role /\ new.version = row.version
          /\ new.active = TRUE /\ new.disabled = FALSE /\ new.password = row.password
  BY DEF UserType
<1>5. LET new == [row EXCEPT !.version = @ + 1]
      IN  new.role = row.role /\ new.version = row.version + 1
  BY DEF UserType
<1> QED BY <1>1, <1>2, <1>3, <1>4, <1>5

LEMMA NewRole ==
    ASSUME NEW row \in UserType, NEW r \in Roles
    PROVE  LET new == [row EXCEPT !.role = r]
           IN  /\ new \in UserType /\ new.role # Null /\ row.version <= new.version
               /\ new.active = row.active /\ new.disabled = row.disabled
               /\ new.password = row.password
<1>1. row.version \in Int /\ row.version <= row.version
  BY StaffAssumption DEF UserType
<1> QED BY <1>1, StaffAssumption DEF UserType

LEMMA PasswordRow ==
    ASSUME StaffInv, NEW u \in Users, Exists(u), Versions(u), NEW p \in Passwords
    PROVE  /\ LET new == NewPassword(u, p)
              IN  /\ new \in UserType /\ new.role # Null
                  /\ user[u].version <= new.version /\ new.version # user[u].version
                  /\ new.role = user[u].role /\ new.disabled = user[u].disabled
           /\ LET new == [NewPassword(u, p) EXCEPT !.active = TRUE]
              IN  /\ new \in UserType /\ new.role # Null
                  /\ user[u].version <= new.version /\ new.version # user[u].version
                  /\ new.role = user[u].role /\ new.disabled = user[u].disabled
<1> DEFINE row == NewPassword(u, p)
           x   == [row EXCEPT !.active = TRUE]
<1>1. user[u] \in UserType
  BY DEF StaffInv, TypeOK
<1>2. /\ user[u].version \in Int /\ user[u].version < user[u].version + 1
      /\ user[u].version + 1 \in 1 .. MaxVersion /\ user[u].role # Null
  BY <1>1, StaffAssumption DEF UserType, Versions, Exists
<1>3. row \in UserType /\ row.version = user[u].version + 1
      /\ row.role = user[u].role /\ row.disabled = user[u].disabled
  BY <1>1, <1>2 DEF UserType, NewPassword
<1>4. x \in UserType /\ x.version = row.version
      /\ x.role = row.role /\ x.disabled = row.disabled
  <2> HIDE DEF row
  <2> QED BY <1>3 DEF UserType
<1> HIDE DEF row, x
<1>5. /\ row \in UserType /\ row.role # Null
      /\ user[u].version <= row.version /\ row.version # user[u].version
      /\ x \in UserType /\ x.role # Null
      /\ user[u].version <= x.version /\ x.version # user[u].version
      /\ x.role = user[u].role /\ x.disabled = user[u].disabled
  BY <1>2, <1>3, <1>4
<1> QED BY <1>3, <1>5 DEF row, x

LEMMA AccountStep ==
    ASSUME StaffInv, NEW h \in Handlers,
           \/ CreateInvited(h) \/ Disable(h) \/ Bump(h) \/ Enable(h) \/ SetRole(h)
           \/ SetPassword(h)
    PROVE  Step
<1> DEFINE u == task[h].target
<1>1. NoTask \in Task /\ Carries(NoTask)
  BY NoTaskType
<1>2. task[h].next \in OnAccount => u \in Users /\ Exists(u)
  BY GoOn DEF Carries
<1>3. \A x \in Users : user[x] \in UserType
  BY DEF StaffInv, TypeOK
<1>4. CASE CreateInvited(h)
  <2>1. u \in Users /\ task[h].value \in Roles
    BY <1>4, GoOn DEF CreateInvited, Carries
  <2>2. CASE Exists(u)
    BY <1>1, <1>4, <2>2, ReadStep DEF CreateInvited, Answer, rows
  <2>3. CASE ~Exists(u)
    <3> DEFINE row == [Absent EXCEPT !.role = task[h].value]
    <3>1. PICK k \in Free(Tokens, token) :
             WriteUser(h, u, row) /\ token' = [token EXCEPT ![k] = NewToken(u, "setup")]
      BY <1>4, <2>3 DEF CreateInvited
    <3>2. row \in UserType /\ row.role # Null
      <4>1. 1 \in 1 .. MaxVersion
        BY StaffAssumption
      <4> QED BY <2>1, <4>1, StaffAssumption DEF Absent, UserType
    <3>3. AccountsGrow
      BY <1>4, <2>1, <2>3, <3>1, <3>2, SaveGrows DEF CreateInvited
    <3>4. user'[u].role # Null
      BY <2>1, <3>1, <3>2 DEF WriteUser, StaffInv, TypeOK
    <3>5. TokensGrow
      BY <2>1, <3>1, <3>3, <3>4, NewLink
    <3> QED BY <1>1, <1>4, <2>3, <3>3, <3>5, SessionsStay, MoveStep DEF CreateInvited, Answer
  <2> QED BY <2>2, <2>3
<1>5. CASE Disable(h)
  <2> DEFINE k == [task[h] EXCEPT !.next = "bump"]
             row == [user[u] EXCEPT !.disabled = TRUE]
  <2>1. /\ k \in Task /\ k.next = "bump" /\ k.target = u
        /\ task' = [task EXCEPT ![h] = k]
    BY <1>5, GotoTask DEF Disable, Kinds
  <2>2. u \in Users /\ Exists(u)
    BY <1>2, <1>5 DEF Disable, OnAccount
  <2>3. Carries(k)
    <3> HIDE DEF k
    <3> QED BY <2>1, <2>2 DEF Carries
  <2>4. /\ row \in UserType /\ row.role # Null /\ user[u].version <= row.version
        /\ row.active = user[u].active /\ row.password = user[u].password
    BY <1>3, <2>2, UpdatedRow DEF Exists
  <2>5. WriteUser(h, u, row) /\ unbumped' = unbumped \cup {u} /\ UNCHANGED <<session, token>>
    BY <1>5 DEF Disable
  <2> HIDE DEF k, row, u
  <2> QED BY <2>1, <2>2, <2>3, <2>4, <2>5, UpdateStep
<1>6. CASE Bump(h)
  <2> DEFINE row == [user[u] EXCEPT !.version = @ + 1]
  <2>1. u \in Users /\ Exists(u)
    BY <1>2, <1>6 DEF Bump, OnAccount
  <2>2. /\ row \in UserType /\ row.role # Null
        /\ user[u].version <= row.version /\ user[u].version # row.version
    BY <1>3, <1>6, <2>1, UpdatedRow DEF Exists, Bump, Versions
  <2>3. /\ WriteUser(h, u, row) /\ unbumped' = unbumped \ {u}
        /\ UNCHANGED <<session, token>> /\ task' = [task EXCEPT ![h] = NoTask]
    BY <1>6 DEF Bump, Save, Answer
  <2> HIDE DEF row, u
  <2> QED BY <1>1, <2>1, <2>2, <2>3, UpdateStep
<1>7. CASE Enable(h)
  <2> DEFINE row == [user[u] EXCEPT !.disabled = FALSE, !.active = TRUE]
  <2>1. u \in Users /\ Exists(u)
    BY <1>2, <1>7 DEF Enable, OnAccount
  <2>2. /\ row \in UserType /\ row.role # Null /\ user[u].version <= row.version
        /\ row.active /\ ~row.disabled /\ row.password = user[u].password
    BY <1>3, <2>1, UpdatedRow DEF Exists
  <2>3. /\ WriteUser(h, u, row) /\ unbumped' = unbumped
        /\ UNCHANGED <<session, token>> /\ task' = [task EXCEPT ![h] = NoTask]
    BY <1>7 DEF Enable, Save, Answer
  <2> HIDE DEF row, u
  <2> QED BY <1>1, <2>1, <2>2, <2>3, UpdateStep
<1>8. CASE SetRole(h)
  <2> DEFINE row == [user[u] EXCEPT !.role = task[h].value]
  <2>1. u \in Users /\ Exists(u) /\ task[h].value \in Roles
    BY <1>2, <1>8, GoOn DEF SetRole, OnAccount, Carries
  <2>2. /\ row \in UserType /\ row.role # Null /\ user[u].version <= row.version
        /\ row.active = user[u].active /\ row.disabled = user[u].disabled
        /\ row.password = user[u].password
    <3>1. user[u] \in UserType /\ task[h].value \in Roles
      BY <1>3, <2>1
    <3> HIDE DEF u
    <3> QED BY <3>1, NewRole
  <2>3. /\ WriteUser(h, u, row) /\ unbumped' = unbumped
        /\ UNCHANGED <<session, token>> /\ task' = [task EXCEPT ![h] = NoTask]
    BY <1>8 DEF SetRole, Save, Answer
  <2> HIDE DEF row, u
  <2> QED BY <1>1, <2>1, <2>2, <2>3, UpdateStep
<1>9. CASE SetPassword(h)
  <2> DEFINE row == NewPassword(u, task[h].value)
  <2>1. u \in Users /\ Exists(u) /\ task[h].value \in Passwords
    BY <1>2, <1>9, GoOn DEF SetPassword, OnAccount, Carries
  <2>2. /\ row \in UserType /\ row.role # Null
        /\ user[u].version <= row.version /\ user[u].version # row.version
    BY <1>9, <2>1, PasswordRow DEF SetPassword
  <2>3. /\ WriteUser(h, u, row) /\ unbumped' = unbumped
        /\ UNCHANGED <<session, token>> /\ task' = [task EXCEPT ![h] = NoTask]
    BY <1>9 DEF SetPassword, Save, Answer
  <2> HIDE DEF row, u
  <2> QED BY <1>1, <2>1, <2>2, <2>3, UpdateStep
<1> QED BY <1>4, <1>5, <1>6, <1>7, <1>8, <1>9

LEMMA AccountsStep == ASSUME StaffInv, NEW h \in Handlers, Accounts(h) PROVE Step
<1> DEFINE t == task[h]
<1>1. NoTask \in Task /\ Carries(NoTask)
  BY NoTaskType
<1>2. ASSUME NEW s \in Sessions, NEW u \in Users,
             \/ ResendInvite(h, s, u) \/ Deactivate(h, s, u) \/ Reactivate(h, s, u)
             \/ ForceLogout(h, s, u)
      PROVE  Step
  <2>1. PICK n \in {"resend", "disable", "enable", "force_logout"} :
           Exists(u) /\ Begin(h, s, n, u, Null)
    BY <1>2 DEF ResendInvite, Deactivate, Reactivate, ForceLogout, BeginAsAdmin, Enabled
  <2> QED BY <2>1, BeginStep DEF Kinds, OnAccount
<1>3. ASSUME NEW s \in Sessions, NEW u \in Users, NEW r \in Roles,
             Invite(h, s, u, r) \/ ChangeRole(h, s, u, r)
      PROVE  Step
  <2>1. CASE Begin(h, s, "invite", u, r)
    BY <2>1, BeginStep DEF Kinds, OnAccount
  <2>2. CASE Exists(u) /\ Begin(h, s, "role", u, r)
    BY <2>2, BeginStep DEF Kinds, OnAccount
  <2> QED BY <1>3, <2>1, <2>2 DEF Invite, ChangeRole, BeginAsAdmin
<1>4. ASSUME NEW s \in Sessions, NEW u \in Users, NEW p \in Passwords,
             AdminSetPassword(h, s, u, p)
      PROVE  Step
  BY <1>4, BeginStep DEF AdminSetPassword, BeginAsAdmin, Kinds, OnAccount
<1>4a. ASSUME NEW s \in Sessions, NEW p \in Passwords, ChangePassword(h, s, p)
       PROVE  Step
  <2>1. session[s].user \in Users /\ Exists(session[s].user)
    BY <1>4a, Accepts DEF ChangePassword, Begin
  <2> QED BY <1>4a, <2>1, BeginStep DEF ChangePassword, Kinds, OnAccount
<1>5. ASSUME Invalidate(h) PROVE Step
  <2> DEFINE old == {x \in Tokens : Usable(x, "setup") /\ token[x].user = t.target}
             k == [t EXCEPT !.next = "renew", !.value = old]
  <2>1. t \in Task /\ t.target \in Users /\ Exists(t.target)
    BY <1>5, GoOn DEF Invalidate, Carries, OnAccount
  <2>2. /\ old \in SUBSET Tokens /\ old \subseteq {x \in Tokens : token[x] # Null}
        /\ task' = [task EXCEPT ![h] = k]
    BY <1>5 DEF Invalidate, Usable, StaffInv
  <2>3. k \in Task /\ k.next = "renew" /\ k.target = t.target /\ k.value = old
    <3> HIDE DEF old
    <3> QED BY <2>1, <2>2 DEF Task, Kinds
  <2> HIDE DEF k, old
  <2>4. Carries(k)
    BY <2>1, <2>2, <2>3 DEF Carries
  <2> QED BY <1>5, <2>2, <2>3, <2>4, ReadStep DEF Invalidate
<1>6. ASSUME Renew(h) PROVE Step
  <2>1. t.target \in Users /\ Exists(t.target)
        /\ t.value \subseteq {x \in Tokens : token[x] # Null}
    BY <1>6, GoOn DEF Renew, Carries, OnAccount
  <2>2. PICK new \in Free(Tokens, token) :
           token' = [k \in Tokens |->
                       IF k = new THEN NewToken(t.target, "setup")
                       ELSE IF k \in t.value THEN [token[k] EXCEPT !.used = TRUE]
                       ELSE token[k]]
    BY <1>6 DEF Renew
  <2>3. AccountsGrow
    BY <1>6, AccountsStay DEF Renew
  <2>4. NewToken(t.target, "setup") \in TokenType
        /\ NewToken(t.target, "setup").user = t.target
    BY <2>1 DEF NewToken, TokenType
  <2>5. \A k \in Tokens : token[k] # Null =>
           /\ token[k] \in TokenType
           /\ [token[k] EXCEPT !.used = TRUE] \in TokenType
           /\ [token[k] EXCEPT !.used = TRUE].user = token[k].user
           /\ token[k].user \in Users /\ user[token[k].user].role # Null
    BY DEF StaffInv, TypeOK, TokenType, Exists
  <2>6. /\ token' \in [Tokens -> TokenType \cup {Null}]
        /\ \A k \in Tokens : token[k] # Null => token'[k] # Null
    BY <2>1, <2>2, <2>4, <2>5, RowsAssumption DEF StaffInv, TypeOK
  <2>7. \A k \in Tokens : token'[k] # Null => user'[token'[k].user].role # Null
    <3> SUFFICES ASSUME NEW k \in Tokens, token'[k] # Null
                 PROVE  user[token'[k].user].role # Null
      BY <1>6 DEF Renew
    <3>1. CASE k = new
      BY <2>1, <2>2, <2>4, <3>1 DEF Exists
    <3>2. CASE k # new /\ token[k] # Null
      BY <2>2, <2>5, <3>2
    <3>3. CASE k # new /\ token[k] = Null
      BY <2>1, <2>2, <3>3
    <3> QED BY <3>1, <3>2, <3>3
  <2> QED BY <1>1, <1>6, <2>3, <2>6, <2>7, SessionsStay, MoveStep
          DEF Renew, Answer, TokensGrow
<1>7. ASSUME BumpFails(h) PROVE Step
  BY <1>1, <1>7, ReadStep DEF BumpFails, Answer
<1>8. ASSUME NEW n \in {"set_role", "password"}, Goto(h, n), UNCHANGED <<rows, unbumped>>,
             \/ t.next = "role" /\ n = "set_role"
             \/ t.next = "verify" /\ n = "password"
      PROVE  Step
  <2> DEFINE k == [t EXCEPT !.next = n]
  <2>1. /\ t.target \in Users /\ Exists(t.target)
        /\ n = "set_role" => t.value \in Roles
        /\ n = "password" => t.value \in Passwords
    BY <1>8, GoOn DEF Carries, OnAccount
  <2>2. /\ k \in Task /\ k.next = n /\ k.target = t.target /\ k.value = t.value
        /\ task' = [task EXCEPT ![h] = k]
    BY <1>8, GotoTask DEF Kinds
  <2> HIDE DEF k
  <2>3. Carries(k)
    BY <2>1, <2>2 DEF Carries, OnAccount
  <2> QED BY <1>8, <2>2, <2>3, ReadStep
<1>9. ASSUME CheckRole(h) PROVE Step
  <2>1. CASE Answer(h)
    BY <1>1, <1>9, <2>1, ReadStep DEF CheckRole, Answer
  <2>2. CASE Goto(h, "set_role")
    <3>1. t.next = "role" /\ UNCHANGED <<rows, unbumped>>
      BY <1>9 DEF CheckRole
    <3> QED BY <1>8, <2>2, <3>1
  <2> QED BY <1>9, <2>1, <2>2 DEF CheckRole
<1>10. ASSUME NEW p \in Passwords, Verify(h, p) PROVE Step
  <2>1. CASE Answer(h)
    BY <1>1, <1>10, <2>1, ReadStep DEF Verify, Answer
  <2>2. CASE Goto(h, "password")
    BY <1>8, <1>10, <2>2 DEF Verify
  <2> QED BY <1>10, <2>1, <2>2 DEF Verify
<1>11. ASSUME \/ CreateInvited(h) \/ Disable(h) \/ Bump(h) \/ Enable(h) \/ SetRole(h)
              \/ SetPassword(h)
       PROVE  Step
  BY <1>11, AccountStep
<1>12. CASE \E s \in Sessions, u \in Users :
              \/ ResendInvite(h, s, u) \/ Deactivate(h, s, u) \/ Reactivate(h, s, u)
              \/ ForceLogout(h, s, u)
              \/ \E r \in Roles : Invite(h, s, u, r) \/ ChangeRole(h, s, u, r)
              \/ \E p \in Passwords : AdminSetPassword(h, s, u, p)
  BY <1>2, <1>3, <1>4, <1>12
<1>13. CASE \E s \in Sessions, p \in Passwords : ChangePassword(h, s, p)
  BY <1>13, <1>4a
<1> QED BY <1>5, <1>6, <1>7, <1>9, <1>10, <1>11, <1>12, <1>13 DEF Accounts

LEMMA LinksStep == ASSUME StaffInv, NEW h \in Handlers, Links(h) PROVE Step
<1> DEFINE k == task[h].target
           u == token[k].user
<1>1. NoTask \in Task /\ Carries(NoTask)
  BY NoTaskType
<1>2. 1 \in 1 .. MaxVersion
  BY StaffAssumption
<1>3. ASSUME NEW x \in Users, ForgotPassword(h, x) PROVE Step
  BY <1>2, <1>3, PublicStep DEF ForgotPassword, Enabled, Kinds
<1>4. ASSUME CreateReset(h) PROVE Step
  <2>1. k \in Users /\ Exists(k)
    BY <1>4, GoOn DEF CreateReset, Carries, OnAccount
  <2>2. AccountsGrow /\ user' = user
    BY <1>4, AccountsStay DEF CreateReset
  <2>3. TokensGrow
    BY <1>4, <2>1, <2>2, NewLink DEF CreateReset, Exists
  <2> QED BY <1>1, <1>4, <2>2, <2>3, SessionsStay, MoveStep DEF CreateReset, Answer
<1>5. ASSUME NEW x \in Tokens, NEW kind \in {"setup", "reset"}, NEW p \in Passwords,
             FollowLink(h, x, kind, p)
      PROVE  Step
  BY <1>2, <1>5, PublicStep DEF FollowLink, Usable, Kinds
<1>6. ASSUME CompleteSetup(h) \/ ResetPassword(h) PROVE Step
  <2>1. k \in Tokens /\ token[k] # Null /\ task[h].value \in Passwords
    BY <1>6, GoOn DEF CompleteSetup, ResetPassword, Carries
  <2>2. u \in Users /\ Exists(u)
    BY <2>1 DEF StaffInv, TypeOK, TokenType
  <2>3. PICK row \in {NewPassword(u, task[h].value),
                      [NewPassword(u, task[h].value) EXCEPT !.active = TRUE]} :
           WriteUser(h, u, row)
    BY <1>6 DEF CompleteSetup, ResetPassword
  <2>4. /\ Versions(u) /\ token' = Consume(k) /\ UNCHANGED <<session, unbumped>>
        /\ task' = [task EXCEPT ![h] = NoTask]
    BY <1>6 DEF CompleteSetup, ResetPassword, Answer
  <2>5. /\ row \in UserType /\ row.role # Null
        /\ user[u].version <= row.version /\ row.version # user[u].version
    <3>1. CASE row = NewPassword(u, task[h].value)
      BY <2>1, <2>2, <2>4, <3>1, PasswordRow
    <3>2. CASE row = [NewPassword(u, task[h].value) EXCEPT !.active = TRUE]
      BY <2>1, <2>2, <2>4, <3>2, PasswordRow
    <3> QED BY <3>1, <3>2
  <2> HIDE DEF u
  <2>6. AccountsGrow
    BY <2>2, <2>3, <2>4, <2>5, SaveGrows
  <2>7. TokensGrow
    BY <2>1, <2>4, <2>6, UsedLink
  <2> QED BY <1>1, <2>4, <2>6, <2>7, SessionsStay, MoveStep
<1> QED BY <1>3, <1>4, <1>5, <1>6 DEF Links

(***************************************************************************)
(* Every step is of this kind.                                             *)
(***************************************************************************)
LEMMA NextStep == ASSUME StaffInv, [Next]_vars PROVE Step
<1>1. TasksMove \/ \E h \in Handlers : Signing(h) \/ Accounts(h) \/ Links(h)
  BY DEF Next, vars, End, Lapse, TasksMove, StaffInv
<1>2. ASSUME NEW h \in Handlers, Signing(h) \/ Accounts(h) \/ Links(h) PROVE Step
  BY <1>2, SigningStep, AccountsStep, LinksStep
<1>3. ASSUME NEW s \in Sessions, End(s) PROVE Step
  <2>1. TasksMove
    BY <1>3 DEF End, TasksMove, StaffInv
  <2> QED BY <1>3, <2>1, EndGrows, AccountsStay, TokensStay DEF End, Step
<1>4. ASSUME NEW k \in Tokens, Lapse(k) PROVE Step
  <2>1. TasksMove
    BY <1>4 DEF Lapse, TasksMove, StaffInv
  <2> QED BY <1>4, <2>1, UsedLink, AccountsStay, SessionsStay DEF Lapse, Step
<1>5. CASE UNCHANGED vars
  <2>1. TasksMove
    BY <1>5 DEF vars, TasksMove, StaffInv
  <2> QED BY <1>5, <2>1, AccountsStay, SessionsStay, TokensStay DEF vars, rows, Step
<1> QED BY <1>2, <1>3, <1>4, <1>5 DEF Next

LEMMA InitStaff == ASSUME Init PROVE StaffInv
<1>1. PICK p \in Plans : plan = p
  BY DEF Init
<1>2. /\ user = p.users /\ session = p.sessions
      /\ token = [k \in Tokens |-> Null] /\ task = [h \in Handlers |-> NoTask]
  BY <1>1 DEF Init
<1>3. /\ user \in [Users -> UserType] /\ session \in [Sessions -> SessionType \cup {Null}]
      /\ \A s \in Sessions : session[s] # Null =>
           /\ session[s] \in SessionType /\ user[session[s].user] \in UserType
           /\ user[session[s].user].role # Null
           /\ session[s].version <= user[session[s].user].version
           /\ session[s].version = user[session[s].user].version =>
                /\ user[session[s].user].active /\ ~user[session[s].user].disabled
                /\ session[s].proof \in {Null, user[session[s].user].password}
  BY <1>2, PlansAssumption DEF SessionType
<1>4. TypeOK
  BY <1>2, <1>3 DEF TypeOK, Exists
<1>5. \A s \in Sessions : session[s] # Null =>
         Credential(session[s].user, session[s].version, session[s].proof)
  BY <1>3 DEF Credential, Exists, SessionType
<1> QED BY <1>2, <1>4, <1>5, NoTaskType DEF StaffInv

-----------------------------------------------------------------------------
(* The theorems.                                                           *)

(***************************************************************************)
(* The accounts' inductive invariant holds in every reachable state.       *)
(***************************************************************************)
THEOREM StaffInvariance == Spec => []StaffInv
<1>1. StaffInv /\ [Next]_vars => StaffInv'
  BY NextStep, StepKeeps
<1> QED BY <1>1, InitStaff, PTL DEF Spec

(***************************************************************************)
(* Accounts, sessions and links are rows of their tables, and belong to    *)
(* users who exist.                                                        *)
(***************************************************************************)
THEOREM TypeCorrect == Spec => []TypeOK
<1>1. StaffInv => TypeOK
  BY DEF StaffInv
<1> QED BY <1>1, StaffInvariance, PTL

(***************************************************************************)
(* A session opened with a password is accepted only as long as that is    *)
(* the user's password.                                                    *)
(***************************************************************************)
THEOREM SessionsProvePasswords == Spec => []SessionProvesPassword
<1>1. StaffInv => SessionProvesPassword
  BY DEF StaffInv, Credential, SessionProvesPassword, Accepted
<1> QED BY <1>1, StaffInvariance, PTL

(***************************************************************************)
(* A refused session is accepted again only if its user was disabled       *)
(* without the sign-out.                                                   *)
(***************************************************************************)
THEOREM RefusedStaysRefused == Spec => RevivedOnlyUnbumped
<1>1. ASSUME StaffInv, [Next]_vars, NEW s \in Sessions,
             session[s] # Null, ~Accepted(s), Accepted(s)'
      PROVE  session[s].user \in unbumped
  <2> DEFINE u == session[s].user
  <2>1. Step /\ u \in Users /\ Credential(u, session[s].version, session[s].proof)
    BY <1>1, NextStep DEF StaffInv, Credential
  <2>2. /\ session'[s].user = u /\ session'[s].version = session[s].version
        /\ ~session[s].ended
    BY <1>1, <2>1 DEF Step, SessionsGrow, Accepted
  <2>3. user'[u].version = session[s].version
    BY <1>1, <2>2 DEF Accepted
  <2>4. user[u].version = session[s].version
    <3>1. user[u].version \in Int /\ user'[u].version \in Int
      <4>1. user[u] \in UserType /\ user'[u] \in UserType
        <5> HIDE DEF u
        <5> QED BY <1>1, <2>1 DEF StaffInv, TypeOK, Step, AccountsGrow
      <4> QED BY <4>1, StaffAssumption DEF UserType
    <3> QED BY <1>1, <2>1, <2>3, <3>1 DEF Step, AccountsGrow, Credential
  <2> QED BY <1>1, <2>1, <2>2, <2>4 DEF Accepted, Credential
<1> DEFINE Refused ==
      \A s \in Sessions :
          /\ session[s] # Null /\ ~Accepted(s) /\ Accepted(s)'
          => session[s].user \in unbumped
<1>2. StaffInv /\ [Next]_vars => [Refused]_vars
  BY <1>1
<1> QED BY <1>2, StaffInvariance, PTL DEF Spec, RevivedOnlyUnbumped

-----------------------------------------------------------------------------
(* Who can manage.                                                         *)

(***************************************************************************)
(* What a request that is about to take somebody's rights has seen: that   *)
(* its actor, another one, is an admin; that there is more than one.       *)
(***************************************************************************)
Sees(h) ==
    /\ task[h].next = "disable" => task[h].actor \in Admins \ {task[h].target}
    /\ /\ task[h].next = "set_role" /\ task[h].value # "global_admin"
       /\ task[h].target \in Admins
       => ~(Cardinality(Admins) <= 1)

\* A users row is written.
Writes(h) == \E u, row : WriteUser(h, u, row)

AdminsSeen == \A h \in Handlers \ raced : Sees(h)

AdminInv == StaffInv /\ AdminsSeen

(***************************************************************************)
(* Who is not overtaken still sees it when another request has moved.      *)
(***************************************************************************)
LEMMA OthersSee ==
    ASSUME StaffInv, AdminsSeen, NEW h \in Handlers,
           \A g \in Handlers \ {h} : task'[g] = task[g],
           \/ user' = user /\ raced \ {h} \subseteq raced'
           \/ Writes(h),
           h \notin raced' => Sees(h)'
    PROVE  AdminsSeen'
<1> SUFFICES ASSUME NEW g \in Handlers, g # h, g \notin raced' PROVE Sees(g)'
  BY DEF AdminsSeen
<1>1. g \notin raced /\ task'[g] = task[g] /\ Sees(g)
  BY DEF AdminsSeen, Writes, WriteUser
<1>2. CASE user' = user
  <2>1. Admins' = Admins
    BY <1>2 DEF Admins, Enabled, Exists
  <2> QED BY <1>1, <2>1 DEF Sees
<1>3. CASE Writes(h)
  <2>1. task[g].next = "idle" \/ Admins' = Admins
    BY <1>3 DEF Writes, WriteUser
  <2> QED BY <1>1, <2>1 DEF Sees
<1> QED BY <1>2, <1>3

\* A statement that leaves the users rows alone, of a request that has not come
\* to take anybody's rights.
LEMMA OnlyReads ==
    ASSUME StaffInv, AdminsSeen, NEW h \in Handlers, NEW k,
           task' = [task EXCEPT ![h] = k], k.next \notin {"disable", "set_role"},
           user' = user, raced \ {h} \subseteq raced'
    PROVE  AdminsSeen'
<1>1. /\ \A g \in Handlers \ {h} : task'[g] = task[g]
      /\ task'[h] = k
  BY DEF StaffInv
<1>2. Sees(h)'
  BY <1>1 DEF Sees
<1> QED BY <1>1, <1>2, OthersSee

LEMMA GotoReads ==
    ASSUME StaffInv, AdminsSeen, NEW h \in Handlers, NEW n, Goto(h, n),
           n \notin {"disable", "set_role"}, user' = user, raced \ {h} \subseteq raced'
    PROVE  AdminsSeen'
<1> DEFINE k == [task[h] EXCEPT !.next = n]
<1>1. task' = [task EXCEPT ![h] = k] /\ k.next = n
  BY DEF StaffInv, Task, Goto
<1> HIDE DEF k
<1> QED BY <1>1, OnlyReads

LEMMA AnswerReads ==
    ASSUME StaffInv, AdminsSeen, NEW h \in Handlers, Answer(h), user' = user,
           raced \ {h} \subseteq raced'
    PROVE  AdminsSeen'
<1>1. NoTask.next = "idle"
  BY DEF NoTask
<1> QED BY <1>1, OnlyReads DEF Answer

LEMMA ReceiveSees ==
    ASSUME StaffInv, AdminsSeen, NEW h \in Handlers, NEW k, Receive(h, k),
           k.next # "set_role",
           k.next = "disable" => k.actor \in Admins \ {k.target}
    PROVE  AdminsSeen'
<1>1. /\ \A g \in Handlers \ {h} : task'[g] = task[g]
      /\ task'[h] = k /\ user' = user /\ raced \ {h} \subseteq raced'
  BY DEF Receive, rows, StaffInv
<1>2. Admins' = Admins
  BY <1>1 DEF Admins, Enabled, Exists
<1>3. Sees(h)'
  BY <1>1, <1>2 DEF Sees
<1> QED BY <1>1, <1>3, OthersSee

LEMMA BeginSees ==
    ASSUME StaffInv, AdminsSeen, NEW h \in Handlers, NEW s \in Sessions, NEW n, NEW u, NEW x,
           Begin(h, s, n, u, x), n \notin {"disable", "set_role"}
    PROVE  AdminsSeen'
<1> DEFINE k == [NoTask EXCEPT !.next = n, !.session = s, !.actor = session[s].user,
                               !.target = u, !.value = x]
<1>1. Receive(h, k) /\ k.next = n
  BY DEF Begin, NoTask
<1> HIDE DEF k
<1> QED BY <1>1, ReceiveSees

LEMMA PublicSees ==
    ASSUME StaffInv, AdminsSeen, NEW h \in Handlers, NEW n, NEW u, NEW x, NEW v,
           BeginPublic(h, n, u, x, v), n \notin {"disable", "set_role"}
    PROVE  AdminsSeen'
<1> DEFINE k == [NoTask EXCEPT !.next = n, !.target = u, !.value = x, !.version = v]
<1>1. Receive(h, k) /\ k.next = n
  BY DEF BeginPublic, NoTask
<1> HIDE DEF k
<1> QED BY <1>1, ReceiveSees

LEMMA WriteSees ==
    ASSUME StaffInv, AdminsSeen, NEW h \in Handlers, Writes(h), Answer(h) \/ Goto(h, "bump")
    PROVE  AdminsSeen'
<1>1. /\ \A g \in Handlers \ {h} : task'[g] = task[g]
      /\ task'[h].next \in {"idle", "bump"}
  BY DEF Answer, Goto, NoTask, StaffInv, Task
<1>2. Sees(h)'
  BY <1>1 DEF Sees
<1> QED BY <1>1, <1>2, OthersSee

LEMMA SigningSees == ASSUME AdminInv, NEW h \in Handlers, Signing(h) PROVE AdminsSeen'
<1> USE DEF AdminInv
<1>1. ASSUME NEW u \in Users, NEW p \in Passwords, Login(h, u, p) PROVE AdminsSeen'
  BY <1>1, PublicSees DEF Login
<1>2. CASE OpenSession(h) \/ LeaveOwn(h) \/ Restore(h)
  BY <1>2, AnswerReads DEF OpenSession, LeaveOwn, Revoke, Restore
<1>3. ASSUME NEW s \in Sessions, NEW u \in Users, Impersonate(h, s, u) PROVE AdminsSeen'
  BY <1>3, BeginSees DEF Impersonate, BeginAsAdmin
<1>4. ASSUME NEW n \in {"assume", "restored"},
             task' = [task EXCEPT ![h].next = n,
                                  ![h].version = user[task[h].target].version],
             UNCHANGED <<rows, raced>>
      PROVE  AdminsSeen'
  <2> DEFINE k == [task[h] EXCEPT !.next = n, !.version = user[task[h].target].version]
  <2>1. task' = [task EXCEPT ![h] = k] /\ k.next = n
    BY <1>4 DEF StaffInv, Task
  <2> HIDE DEF k
  <2> QED BY <1>4, <2>1, OnlyReads DEF rows
<1>5. CASE ReadTarget(h) \/ ReadOriginal(h)
  BY <1>4, <1>5, AnswerReads DEF ReadTarget, ReadOriginal, rows
<1>6. CASE AssumeIdentity(h) \/ LeaveOther(h)
  BY <1>6, GotoReads DEF AssumeIdentity, LeaveOther, Revoke
<1>7. ASSUME NEW s \in Sessions, StopImpersonating(h, s) PROVE AdminsSeen'
  BY <1>7, BeginSees DEF StopImpersonating
<1> QED BY <1>1, <1>2, <1>3, <1>5, <1>6, <1>7 DEF Signing


LEMMA AccountsSees == ASSUME AdminInv, NEW h \in Handlers, Accounts(h) PROVE AdminsSeen'
<1> USE DEF AdminInv
<1>1. ASSUME NEW s \in Sessions, NEW u \in Users,
             ResendInvite(h, s, u) \/ Reactivate(h, s, u) \/ ForceLogout(h, s, u)
      PROVE  AdminsSeen'
  <2>1. \E n \in {"resend", "enable", "force_logout"} : Begin(h, s, n, u, Null)
    BY <1>1 DEF ResendInvite, Reactivate, ForceLogout, BeginAsAdmin
  <2> QED BY <2>1, BeginSees
<1>2. ASSUME NEW s \in Sessions, NEW u \in Users, Deactivate(h, s, u) PROVE AdminsSeen'
  <2> DEFINE k == [NoTask EXCEPT !.next = "disable", !.session = s,
                                 !.actor = session[s].user, !.target = u, !.value = Null]
  <2>1. Receive(h, k) /\ k.next = "disable" /\ k.actor = session[s].user /\ k.target = u
    BY <1>2 DEF Deactivate, BeginAsAdmin, Begin, NoTask
  <2>2. session[s].user \in Admins \ {u}
    BY <1>2, Accepts DEF Deactivate, BeginAsAdmin, Begin, Accepted, Admins, Enabled
  <2> HIDE DEF k
  <2> QED BY <2>1, <2>2, ReceiveSees
<1>3. ASSUME NEW s \in Sessions, NEW u \in Users, NEW r \in Roles,
             Invite(h, s, u, r) \/ ChangeRole(h, s, u, r)
      PROVE  AdminsSeen'
  BY <1>3, BeginSees DEF Invite, ChangeRole, BeginAsAdmin
<1>4. ASSUME NEW s \in Sessions, NEW u \in Users, NEW p \in Passwords,
             AdminSetPassword(h, s, u, p)
      PROVE  AdminsSeen'
  BY <1>4, BeginSees DEF AdminSetPassword, BeginAsAdmin
<1>5. ASSUME NEW s \in Sessions, NEW p \in Passwords, ChangePassword(h, s, p)
      PROVE  AdminsSeen'
  BY <1>5, BeginSees DEF ChangePassword
<1>6. CASE \E s \in Sessions, u \in Users :
              \/ ResendInvite(h, s, u) \/ Deactivate(h, s, u) \/ Reactivate(h, s, u)
              \/ ForceLogout(h, s, u)
              \/ \E r \in Roles : Invite(h, s, u, r) \/ ChangeRole(h, s, u, r)
              \/ \E p \in Passwords : AdminSetPassword(h, s, u, p)
  BY <1>1, <1>2, <1>3, <1>4, <1>6
<1>7. CASE \E s \in Sessions, p \in Passwords : ChangePassword(h, s, p)
  BY <1>5, <1>7
<1>8. CASE CreateInvited(h)
  <2>1. Answer(h) /\ (UNCHANGED <<user, raced>> \/ Writes(h))
    BY <1>8 DEF CreateInvited, Writes
  <2> QED BY <2>1, AnswerReads, WriteSees
<1>9. CASE Bump(h) \/ Enable(h) \/ SetRole(h) \/ SetPassword(h)
  <2>1. Answer(h) /\ Writes(h)
    BY <1>9 DEF Bump, Enable, SetRole, SetPassword, Save, Writes
  <2> QED BY <2>1, WriteSees
<1>10. CASE Disable(h)
  <2>1. Goto(h, "bump") /\ Writes(h)
    BY <1>10 DEF Disable, Writes
  <2> QED BY <2>1, WriteSees
<1>11. CASE Invalidate(h)
  <2> DEFINE k == [task[h] EXCEPT !.next = "renew", !.value =
                     {x \in Tokens : Usable(x, "setup") /\ token[x].user = task[h].target}]
  <2>1. task' = [task EXCEPT ![h] = k] /\ k.next = "renew"
    BY <1>11 DEF Invalidate, StaffInv, Task
  <2> HIDE DEF k
  <2> QED BY <1>11, <2>1, OnlyReads DEF Invalidate, rows
<1>12. CASE Renew(h) \/ BumpFails(h)
  BY <1>12, AnswerReads DEF Renew, BumpFails, rows
<1>13. CASE CheckRole(h)
  <2>1. UNCHANGED <<user, raced>> /\ (Answer(h) \/ Goto(h, "set_role"))
    BY <1>13 DEF CheckRole, rows
  <2>2. CASE Goto(h, "set_role")
    <3>1. /\ \A g \in Handlers \ {h} : task'[g] = task[g]
          /\ task'[h].next = "set_role" /\ task'[h].value = task[h].value
          /\ task'[h].target = task[h].target
      BY <2>2 DEF Goto, StaffInv, Task
    <3>2. Admins' = Admins
      BY <2>1 DEF Admins, Enabled, Exists
    <3>3. CASE /\ user[task[h].target].role = "global_admin"
               /\ task[h].value # "global_admin" /\ Cardinality(Admins) <= 1
      <4>1. Answer(h)
        BY <1>13, <3>3 DEF CheckRole
      <4> QED BY <2>1, <4>1, AnswerReads
    <3>4. CASE ~(/\ user[task[h].target].role = "global_admin"
                 /\ task[h].value # "global_admin" /\ Cardinality(Admins) <= 1)
      <4>1. Sees(h)'
        BY <3>1, <3>2, <3>4 DEF Sees, Admins
      <4> QED BY <2>1, <3>1, <4>1, OthersSee
    <3> QED BY <3>3, <3>4
  <2> QED BY <2>1, <2>2, AnswerReads
<1>14. ASSUME NEW p \in Passwords, Verify(h, p) PROVE AdminsSeen'
  <2>1. UNCHANGED <<user, raced>> /\ (Answer(h) \/ Goto(h, "password"))
    BY <1>14 DEF Verify, rows
  <2> QED BY <2>1, AnswerReads, GotoReads
<1> QED BY <1>6, <1>7, <1>8, <1>9, <1>10, <1>11, <1>12, <1>13, <1>14 DEF Accounts

LEMMA LinksSees == ASSUME AdminInv, NEW h \in Handlers, Links(h) PROVE AdminsSeen'
<1> USE DEF AdminInv
<1>1. ASSUME NEW u \in Users, ForgotPassword(h, u) PROVE AdminsSeen'
  BY <1>1, PublicSees DEF ForgotPassword
<1>2. CASE CreateReset(h)
  BY <1>2, AnswerReads DEF CreateReset
<1>3. ASSUME NEW k \in Tokens, NEW kind \in {"setup", "reset"}, NEW p \in Passwords,
             FollowLink(h, k, kind, p)
      PROVE  AdminsSeen'
  BY <1>3, PublicSees DEF FollowLink
<1>4. CASE CompleteSetup(h) \/ ResetPassword(h)
  <2>1. Answer(h) /\ Writes(h)
    BY <1>4 DEF CompleteSetup, ResetPassword, Writes
  <2> QED BY <2>1, WriteSees
<1> QED BY <1>1, <1>2, <1>3, <1>4 DEF Links

LEMMA AdminStep == ASSUME AdminInv, [Next]_vars PROVE AdminInv'
<1>1. StaffInv'
  BY NextStep, StepKeeps DEF AdminInv
<1>2. ASSUME UNCHANGED <<user, task, raced>> PROVE AdminsSeen'
  BY <1>2 DEF AdminInv, AdminsSeen, Sees, Admins, Enabled, Exists
<1>3. AdminsSeen'
  BY <1>2, SigningSees, AccountsSees, LinksSees DEF Next, End, Lapse, vars, rows
<1> QED BY <1>1, <1>3 DEF AdminInv

(***************************************************************************)
(* The invariant of the admins holds in every reachable state.             *)
(***************************************************************************)
THEOREM AdminInvariance == Spec => []AdminInv
<1>1. Init => AdminInv
  BY InitStaff DEF Init, NoTask, AdminInv, AdminsSeen, Sees
<1> QED BY <1>1, AdminStep, PTL DEF Spec

(***************************************************************************)
(* Who can manage after a row of users was written: whoever could, but for *)
(* the user of that row, if it says so no longer.                          *)
(***************************************************************************)
LEMMA AdminsKept ==
    ASSUME StaffInv, NEW h \in Handlers, NEW u \in Users, NEW row, WriteUser(h, u, row)
    PROVE  /\ Admins \ {u} \subseteq Admins'
           /\ row.role = "global_admin" /\ ~row.disabled => Admins \subseteq Admins'
<1>1. user' = [user EXCEPT ![u] = row] /\ user \in [Users -> UserType]
  BY DEF WriteUser, StaffInv, TypeOK
<1>2. ASSUME NEW x \in Admins \ {u} PROVE x \in Admins'
  BY <1>1, <1>2 DEF Admins, Enabled, Exists
<1>3. ASSUME row.role = "global_admin", ~row.disabled, u \in Admins PROVE u \in Admins'
  BY <1>1, <1>3 DEF Admins, Enabled, Exists
<1> QED BY <1>2, <1>3

\* Most writes take nobody's rights.
LEMMA NoneLeaves ==
    ASSUME StaffInv, NEW h \in Handlers,
           Bump(h) \/ SetPassword(h) \/ CompleteSetup(h) \/ ResetPassword(h)
             \/ Enable(h) \/ CreateInvited(h)
    PROVE  Admins \subseteq Admins'
<1> DEFINE Keeps(u, row) == row.role = user[u].role /\ (~user[u].disabled => ~row.disabled)
<1>1. ASSUME NEW u \in Users, NEW row, WriteUser(h, u, row), Keeps(u, row)
      PROVE  Admins \subseteq Admins'
  BY <1>1, AdminsKept DEF Admins, Enabled
<1>2. /\ task[h].next \in OnAccount => task[h].target \in Users
      /\ task[h].next = "invite" => task[h].target \in Users
      /\ task[h].next \in {"setup", "reset"} => token[task[h].target].user \in Users
  BY DEF StaffInv, Carries, TypeOK, TokenType
<1>3. \A u \in Users : user[u] \in UserType
  BY DEF StaffInv, TypeOK
<1>4. CASE Bump(h)
  <2> DEFINE u == task[h].target
             row == [user[u] EXCEPT !.version = @ + 1]
  <2>1. u \in Users /\ WriteUser(h, u, row)
    BY <1>2, <1>4 DEF Bump, Save, OnAccount
  <2>2. Keeps(u, row)
    BY <1>3, <2>1 DEF UserType
  <2> HIDE DEF row
  <2> QED BY <1>1, <2>1, <2>2
<1>5. CASE SetPassword(h)
  <2> DEFINE u == task[h].target
             row == NewPassword(u, task[h].value)
  <2>1. u \in Users /\ WriteUser(h, u, row)
    BY <1>2, <1>5 DEF SetPassword, Save, OnAccount
  <2>2. Keeps(u, row)
    BY <1>3, <2>1 DEF UserType, NewPassword
  <2> HIDE DEF row
  <2> QED BY <1>1, <2>1, <2>2
<1>6. CASE CompleteSetup(h)
  <2> DEFINE u == token[task[h].target].user
             row == [NewPassword(u, task[h].value) EXCEPT !.active = TRUE]
  <2>1. u \in Users /\ WriteUser(h, u, row)
    BY <1>2, <1>6 DEF CompleteSetup
  <2>2. Keeps(u, row)
    BY <1>3, <2>1 DEF UserType, NewPassword
  <2> HIDE DEF row
  <2> QED BY <1>1, <2>1, <2>2
<1>7. CASE ResetPassword(h)
  <2> DEFINE u == token[task[h].target].user
             row == NewPassword(u, task[h].value)
  <2>1. u \in Users /\ WriteUser(h, u, row)
    BY <1>2, <1>7 DEF ResetPassword
  <2>2. Keeps(u, row)
    BY <1>3, <2>1 DEF UserType, NewPassword
  <2> HIDE DEF row
  <2> QED BY <1>1, <2>1, <2>2
<1>8. CASE Enable(h)
  <2> DEFINE u == task[h].target
             row == [user[u] EXCEPT !.disabled = FALSE, !.active = TRUE]
  <2>1. u \in Users /\ WriteUser(h, u, row)
    BY <1>2, <1>8 DEF Enable, Save, OnAccount
  <2>2. Keeps(u, row)
    BY <1>3, <2>1 DEF UserType
  <2> HIDE DEF row
  <2> QED BY <1>1, <2>1, <2>2
<1>9. CASE CreateInvited(h)
  <2> DEFINE u == task[h].target
             row == [Absent EXCEPT !.role = task[h].value]
  <2>1. u \in Users
    BY <1>2, <1>9 DEF CreateInvited
  <2>2. CASE user' = user
    BY <2>2 DEF Admins, Enabled, Exists
  <2>3. CASE ~Exists(u) /\ WriteUser(h, u, row)
    <3>1. u \notin Admins
      BY <2>3 DEF Admins, Enabled
    <3> HIDE DEF u, row
    <3> QED BY <2>1, <2>3, <3>1, AdminsKept
  <2> QED BY <1>9, <2>2, <2>3 DEF CreateInvited
<1> QED BY <1>4, <1>5, <1>6, <1>7, <1>8, <1>9

(***************************************************************************)
(* A deactivation that was not overtaken leaves who asked for it, a change *)
(* of role one of the other admins.                                        *)
(***************************************************************************)
LEMMA SomebodyLeft ==
    ASSUME AdminInv, NEW h \in Handlers \ raced, Disable(h) \/ SetRole(h), Admins # {}
    PROVE  Admins' # {}
<1> DEFINE u == task[h].target
<1>1. StaffInv /\ Sees(h)
  BY DEF AdminInv, AdminsSeen
<1>2. u \in Users /\ user[u] \in UserType
  BY <1>1 DEF StaffInv, Carries, OnAccount, Disable, SetRole, TypeOK
<1>3. CASE Disable(h)
  <2> DEFINE row == [user[u] EXCEPT !.disabled = TRUE]
  <2>1. WriteUser(h, u, row) /\ task[h].actor \in Admins \ {u}
    BY <1>1, <1>3 DEF Disable, Sees
  <2> HIDE DEF u, row
  <2> QED BY <1>1, <1>2, <2>1, AdminsKept
<1>4. CASE SetRole(h)
  <2> DEFINE row == [user[u] EXCEPT !.role = task[h].value]
  <2>1. /\ WriteUser(h, u, row)
        /\ row.role = task[h].value /\ row.disabled = user[u].disabled
        /\ task[h].next = "set_role"
    BY <1>2, <1>4 DEF SetRole, Save, UserType
  <2>2. Admins \ {u} \subseteq Admins'
        /\ (row.role = "global_admin" /\ ~row.disabled => Admins \subseteq Admins')
    <3> HIDE DEF u, row
    <3> QED BY <1>1, <1>2, <2>1, AdminsKept
  <2>3. CASE Admins = {u}
    <3>1. Cardinality(Admins) = 1
      BY <2>3, FS_Singleton
    <3>2. u \in Admins /\ ~user[u].disabled /\ row.role = "global_admin"
      BY <1>1, <2>1, <2>3, <3>1 DEF Sees, Admins, Enabled
    <3> QED BY <2>1, <2>2, <3>2
  <2> QED BY <2>2, <2>3
<1> QED BY <1>3, <1>4

(***************************************************************************)
(* The admins run out only with the write of a request that was overtaken. *)
(***************************************************************************)
THEOREM AdminsRunOutInRaces == Spec => AdminsRunOutOnlyInARace
<1>1. ASSUME AdminInv, [Next]_vars, Admins # {}, Admins' = {}
      PROVE  \E h \in raced : task'[h] # task[h]
  <2>1. user' # user
    BY <1>1 DEF Admins, Enabled, Exists
  <2>2. PICK h \in Handlers :
          \/ Bump(h) \/ SetPassword(h) \/ CompleteSetup(h) \/ ResetPassword(h)
          \/ Enable(h) \/ CreateInvited(h) \/ Disable(h) \/ SetRole(h)
    <3>1. PICK h \in Handlers : Signing(h) \/ Accounts(h) \/ Links(h)
      BY <1>1, <2>1 DEF Next, End, Lapse, vars, rows
    <3>2. /\ \A s, n, u, v : Begin(h, s, n, u, v) \/ BeginAsAdmin(h, s, n, u, v) => user' = user
          /\ \A n, u, v, w : BeginPublic(h, n, u, v, w) => user' = user
      <4>1. \A s, n, u, v : Begin(h, s, n, u, v) => user' = user
        BY DEF Begin, Receive, rows
      <4>2. \A n, u, v, w : BeginPublic(h, n, u, v, w) => user' = user
        BY DEF BeginPublic, Receive, rows
      <4> QED BY <4>1, <4>2 DEF BeginAsAdmin
    <3>3. ~Signing(h)
      <4>1. \A n, x : Revoke(h, n, x) => user' = user
        BY DEF Revoke
      <4>2. ~(LeaveOwn(h) \/ LeaveOther(h))
        <5>1. ~LeaveOwn(h)
          BY <2>1 DEF LeaveOwn, Revoke
        <5>2. ~LeaveOther(h)
          BY <2>1 DEF LeaveOther, Revoke
        <5> QED BY <5>1, <5>2
      <4>3. ~(OpenSession(h) \/ ReadTarget(h) \/ AssumeIdentity(h) \/ ReadOriginal(h)
              \/ Restore(h))
        BY <2>1 DEF OpenSession, ReadTarget, AssumeIdentity, ReadOriginal, Restore, rows
      <4> QED BY <2>1, <3>2, <4>2, <4>3
              DEF Signing, Login, Impersonate, StopImpersonating
    <3>4. CASE Accounts(h)
      <4>1. ~(Invalidate(h) \/ Renew(h) \/ BumpFails(h) \/ CheckRole(h))
            /\ \A p \in Passwords : ~Verify(h, p)
        BY <2>1 DEF Invalidate, Renew, BumpFails, CheckRole, Verify, rows
      <4>2. /\ \A s \in Sessions, u \in Users :
                 /\ ~ResendInvite(h, s, u) /\ ~Deactivate(h, s, u) /\ ~Reactivate(h, s, u)
                 /\ ~ForceLogout(h, s, u)
                 /\ \A r \in Roles : ~Invite(h, s, u, r) /\ ~ChangeRole(h, s, u, r)
                 /\ \A p \in Passwords : ~AdminSetPassword(h, s, u, p)
            /\ \A s \in Sessions, p \in Passwords : ~ChangePassword(h, s, p)
        BY <2>1, <3>2 DEF ResendInvite, Deactivate, Reactivate, ForceLogout, Invite,
                          ChangeRole, AdminSetPassword, ChangePassword
      <4> QED BY <3>4, <4>1, <4>2 DEF Accounts
    <3>5. CASE Links(h)
      <4>1. ~CreateReset(h)
        BY <2>1 DEF CreateReset
      <4> QED BY <2>1, <3>2, <3>5, <4>1 DEF Links, ForgotPassword, FollowLink
    <3> QED BY <3>1, <3>3, <3>4, <3>5
  <2>3. Disable(h) \/ SetRole(h)
    BY <1>1, <2>2, NoneLeaves DEF AdminInv
  <2>4. h \in raced
    BY <1>1, <2>3, SomebodyLeft
  <2>5. task'[h] # task[h]
    BY <1>1, <2>3 DEF Disable, SetRole, Save, Goto, Answer, NoTask, AdminInv, StaffInv, Task
  <2> QED BY <2>4, <2>5
<1> DEFINE Runs == Admins # {} /\ Admins' = {} => \E h \in raced : task'[h] # task[h]
<1>2. AdminInv /\ [Next]_vars => [Runs]_vars
  BY <1>1
<1> QED BY <1>2, AdminInvariance, PTL DEF Spec, AdminsRunOutOnlyInARace
=============================================================================
