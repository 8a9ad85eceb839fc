---------------------------- MODULE EventsProofs ----------------------------
(***************************************************************************)
(* Theorems about Events for any staff, events, banners and requests.      *)
(***************************************************************************)
EXTENDS Events, TLAPS

Roles == {"global_admin", "event_admin", "event_manager"}
Assignments == {"assign_admin", "assign_manager"}
TeamRequests == Assignments \cup {"unassign_admin", "unassign_manager"}
Lifecycle == {"archive", "publish", "unpublish"}
Known == {"create", "form", "upload"} \cup Lifecycle \cup TeamRequests

\* The statements of an upload that hold a key.
Holding == {"put", "set", "delete_new", "delete_old"}
Uploading == Holding \cup {"read_banner"}
Phases == {"idle", "guard", "check_slug", "insert", "load", "save", "check_target", "write"}
            \cup Uploading

Task == [next : Phases, request : Known \cup {Null}, actor : Users \cup {Null},
         role : Roles \cup {Null}, event : EventIds \cup {Null},
         value : Slugs \cup Forms \cup Users \cup Keys \cup {Null},
         copy : EventType \cup Keys \cup {Null}]

\* What a request carries.
Asked(t) ==
    /\ t.request \in Known /\ t.actor \in Users /\ t.role \in Roles
    /\ t.request = "create" => t.event = Null /\ t.value \in Slugs
    /\ t.request # "create" => t.event \in EventIds /\ Exists(t.event)
    /\ t.request = "form" => t.value \in Forms
    /\ t.request \in TeamRequests => t.value \in Users

\* The statement it is at is one of its handler; a manager is not let in to create.
AtStatement(t) ==
    /\ t.next \in {"check_slug", "insert"} => t.request = "create" /\ t.role # "event_manager"
    /\ t.next \in {"load", "save"} => t.request = "form"
    /\ t.next \in Uploading => t.request = "upload"
    /\ t.next \in {"set", "delete_new"} => t.value \in Keys
    /\ t.next = "check_target" => t.request \in Assignments
    /\ t.next = "write" => t.request \in Lifecycle \cup TeamRequests

AtWork(t) == t.next # "idle" => Asked(t) /\ AtStatement(t)

TeamRows == {r \in Users \X EventIds : Exists(r[2])}

Tables ==
    /\ account \in [Users -> Accounts]
    /\ event \in [EventIds -> EventType \cup {Null}]
    /\ admins \cup managers \subseteq TeamRows
    /\ store \subseteq used /\ used \subseteq Keys

(***************************************************************************)
(* The types of the tables and of what the requests carry.                 *)
(***************************************************************************)
Typed ==
    /\ Tables
    /\ task \in [Handlers -> Task]
    /\ \A h \in Handlers : AtWork(task[h])

\* Events are never deleted.
EventsStay == \A e \in EventIds : Exists(e) => event'[e] # Null

LEMMA AtWorkStays == ASSUME EventsStay, NEW t, AtWork(t) PROVE AtWork(t)'
  BY DEF EventsStay, AtWork, Asked, AtStatement, Exists

(***************************************************************************)
(* One request moves on, whatever it did to the tables.                    *)
(***************************************************************************)
LEMMA MoveKeeps ==
    ASSUME Typed, Tables', EventsStay, NEW h \in Handlers, NEW k \in Task, AtWork(k),
           task' = [task EXCEPT ![h] = k]
    PROVE  Typed'
<1>1. task' \in [Handlers -> Task] /\ \A g \in Handlers : task'[g] = IF g = h THEN k ELSE task[g]
  BY DEF Typed
<1>2. ASSUME NEW g \in Handlers PROVE AtWork(task[g])'
  <2> DEFINE t == IF g = h THEN k ELSE task[g]
  <2>1. AtWork(t) /\ task'[g] = t
    BY <1>1 DEF Typed
  <2>2. AtWork(t) => \A x : x = t => AtWork(x)'
    BY AtWorkStays
  <2> HIDE DEF t
  <2> QED BY <2>1, <2>2
<1> QED BY <1>1, <1>2 DEF Typed

\* The tables are left alone.
LEMMA TablesStay ==
    ASSUME Typed, UNCHANGED <<account, event, team, objects>>
    PROVE  Tables' /\ EventsStay
  BY DEF Typed, Tables, EventsStay, TeamRows, Exists, team, objects

\* A row of events is written.
LEMMA RowWritten ==
    ASSUME Typed, UNCHANGED <<account, team, objects>>, NEW e \in EventIds,
           NEW row \in EventType, event' = [event EXCEPT ![e] = row]
    PROVE  Tables' /\ EventsStay
<1>1. /\ event' \in [EventIds -> EventType \cup {Null}]
      /\ \A f \in EventIds : event'[f] = IF f = e THEN row ELSE event[f]
  BY DEF Typed, Tables
<1>2. EventsStay
  BY <1>1, NullAssumption DEF EventsStay, Exists
<1> QED BY <1>1, <1>2 DEF Typed, Tables, TeamRows, Exists, team, objects, EventsStay

(***************************************************************************)
(* The idle task.                                                          *)
(***************************************************************************)
LEMMA NoTaskTyped == NoTask \in Task /\ AtWork(NoTask) /\ NoTask.next = "idle"
<1>1. "idle" \in Phases
  BY DEF Phases
<1> QED BY <1>1 DEF NoTask, Task, AtWork

\* The task of h moves to the statement n, with the value v and the copy c.
Goes(h, n, v, c) ==
    /\ task' = [task EXCEPT ![h] = [task[h] EXCEPT !.next = n, !.value = v, !.copy = c]]
    /\ task[h].next # "idle" /\ n \in Phases

\* What it carries to n belongs to n.
Fits(t, n, v) ==
    /\ t.request # "upload" => v = t.value
    /\ n \in {"check_slug", "insert"} => t.request = "create" /\ t.role # "event_manager"
    /\ n \in {"load", "save"} => t.request = "form"
    /\ n \in Uploading => t.request = "upload"
    /\ n \in {"set", "delete_new"} => v \in Keys
    /\ n = "check_target" => t.request \in Assignments
    /\ n = "write" => t.request \in Lifecycle \cup TeamRequests

LEMMA GoesKeeps ==
    ASSUME Typed, Tables', EventsStay, NEW h \in Handlers, NEW n,
           NEW v \in Slugs \cup Forms \cup Users \cup Keys \cup {Null},
           NEW c \in EventType \cup Keys \cup {Null},
           Goes(h, n, v, c), Fits(task[h], n, v)
    PROVE  Typed'
<1> DEFINE k == [task[h] EXCEPT !.next = n, !.value = v, !.copy = c]
<1>1. /\ k \in Task /\ k.next = n /\ k.value = v
      /\ k.request = task[h].request /\ k.actor = task[h].actor
      /\ k.role = task[h].role /\ k.event = task[h].event
  <2>1. task[h] \in Task /\ n \in Phases
    BY DEF Typed, Goes
  <2>2. k \in Task
    BY <2>1, ZenonT(60) DEF Task
  <2> QED BY <2>1, <2>2 DEF Task
<1>2. task' = [task EXCEPT ![h] = k] /\ Asked(task[h])
  BY DEF Goes, Typed, AtWork
<1> HIDE DEF k
<1>3. AtWork(k)
  <2>1. Asked(k)
    BY <1>1, <1>2 DEF Asked, Fits, Known, Lifecycle, TeamRequests, Assignments
  <2>2. AtStatement(k)
    BY <1>1 DEF AtStatement, Fits
  <2> QED BY <2>1, <2>2 DEF AtWork
<1> QED BY <1>1, <1>2, <1>3, MoveKeeps

LEMMA AnswerKeeps ==
    ASSUME Typed, Tables', EventsStay, NEW h \in Handlers, Answer(h) PROVE Typed'
  BY NoTaskTyped, MoveKeeps DEF Answer

LEMMA GotoGoes ==
    ASSUME Typed, NEW h \in Handlers, task[h].next # "idle", NEW n \in Phases,
           task' = [task EXCEPT ![h].next = n]
    PROVE  /\ Goes(h, n, task[h].value, task[h].copy)
           /\ task[h].value \in Slugs \cup Forms \cup Users \cup Keys \cup {Null}
           /\ task[h].copy \in EventType \cup Keys \cup {Null}
<1>1. task[h] \in Task /\ task \in [Handlers -> Task]
  BY DEF Typed
<1>2. [task[h] EXCEPT !.next = n] =
          [task[h] EXCEPT !.next = n, !.value = task[h].value, !.copy = task[h].copy]
  BY <1>1 DEF Task
<1>3. /\ task[h].value \in Slugs \cup Forms \cup Users \cup Keys \cup {Null}
      /\ task[h].copy \in EventType \cup Keys \cup {Null}
  BY <1>1 DEF Task
<1> QED BY <1>1, <1>2, <1>3 DEF Goes

\* A statement that only reads, and is followed by another.
LEMMA ReadGoes ==
    ASSUME Typed, NEW h \in Handlers, task[h].next # "idle", NEW n \in Phases,
           task' = [task EXCEPT ![h].next = n], Fits(task[h], n, task[h].value),
           UNCHANGED <<account, event, team, objects>>
    PROVE  Typed'
  BY GotoGoes, GoesKeeps, TablesStay

-----------------------------------------------------------------------------
(* Requests begin and pass the guard.                                      *)

LEMMA ReceiveKeeps ==
    ASSUME Typed, NEW h \in Handlers, NEW u \in Users, NEW r \in Known,
           NEW e \in EventIds \cup {Null}, NEW v \in Slugs \cup Forms \cup Users \cup {Null},
           Receive(h, u, r, e, v),
           r = "create" => e = Null /\ v \in Slugs,
           r # "create" => e \in EventIds,
           r = "form" => v \in Forms,
           r \in TeamRequests => v \in Users
    PROVE  Typed'
<1> DEFINE k == [NoTask EXCEPT !.next = "guard", !.request = r, !.actor = u,
                               !.role = account[u].role, !.event = e, !.value = v]
<1>1. account[u].role \in Roles
  BY DEF Typed, Tables, Accounts, Roles
<1>2. /\ k.next = "guard" /\ k.request = r /\ k.actor = u /\ k.role = account[u].role
      /\ k.event = e /\ k.value = v
  BY DEF NoTask
<1>3. k \in Task
  <2>1. "guard" \in Phases
    BY DEF Phases
  <2> QED BY <1>1, <2>1, NoTaskTyped DEF NoTask, Task
<1>4. task' = [task EXCEPT ![h] = k] /\ UNCHANGED <<account, event, team, objects>>
  BY DEF Receive
<1>5. e # Null => Exists(e)
  BY DEF Receive
<1> HIDE DEF k
<1>6. AtWork(k)
  BY <1>1, <1>2, <1>5, NullAssumption DEF AtWork, Asked, AtStatement, Uploading, Holding
<1> QED BY <1>3, <1>4, <1>6, TablesStay, MoveKeeps

LEMMA RequestsKeep == ASSUME Typed, NEW h \in Handlers, Requests(h) PROVE Typed'
<1>1. ASSUME NEW u \in Users, NEW s \in Slugs, Receive(h, u, "create", Null, s) PROVE Typed'
  BY <1>1, ReceiveKeeps DEF Known, TeamRequests, Assignments
<1>2. ASSUME NEW u \in Users, NEW e \in EventIds, NEW f \in Forms, Receive(h, u, "form", e, f)
      PROVE  Typed'
  BY <1>2, ReceiveKeeps DEF Known, TeamRequests, Assignments
<1>3. ASSUME NEW u \in Users, NEW e \in EventIds, NEW r \in Lifecycle \cup {"upload"},
             Receive(h, u, r, e, Null)
      PROVE  Typed'
  BY <1>3, ReceiveKeeps DEF Known, Lifecycle, TeamRequests, Assignments
<1>4. ASSUME NEW u \in Users, NEW e \in EventIds, NEW r \in TeamRequests, NEW v \in Users,
             Receive(h, u, r, e, v)
      PROVE  Typed'
  BY <1>4, ReceiveKeeps DEF Known, TeamRequests, Assignments
<1> QED BY <1>1, <1>2, <1>3, <1>4 DEF Requests, Lifecycle, TeamRequests, Assignments

LEMMA GuardKeeps == ASSUME Typed, NEW h \in Handlers, Guard(h) PROVE Typed'
<1> DEFINE t == task[h]
<1>1. t.next = "guard" /\ Asked(t) /\ UNCHANGED <<account, event, team, objects>>
  BY DEF Typed, AtWork, Guard, Unchanged
<1>2. CASE Answer(h)
  BY <1>1, <1>2, TablesStay, AnswerKeeps
<1>3. CASE /\ task' = [task EXCEPT ![h].next = First(t.request)]
           /\ Allow(t.actor, t.role, ActionOf(t.request), t.event)
  <2>1. t.request = "create" => t.role # "event_manager"
    BY <1>3 DEF Allow, ActionOf, Permissions
  <2>2. First(t.request) \in Phases /\ Fits(t, First(t.request), t.value)
    BY <1>1, <2>1 DEF First, Asked, Fits, Known, Lifecycle, TeamRequests, Assignments, Phases,
                      Uploading, Holding
  <2> QED BY <1>1, <1>3, <2>2, ReadGoes
<1> QED BY <1>2, <1>3 DEF Guard

-----------------------------------------------------------------------------
(* The statements.                                                         *)

\* What a statement after the guard does to the tasks.
Moves(h) == Answer(h) \/ \E n, v, c : Goes(h, n, v, c) /\ n # "guard"

LEMMA AtEvent ==
    ASSUME Typed, NEW h \in Handlers,
           task[h].next \in {"load", "save", "write", "check_target"} \cup Uploading
    PROVE  task[h].event \in EventIds /\ event[task[h].event] \in EventType
  BY DEF Typed, AtWork, Asked, AtStatement, TeamRequests, Assignments, Lifecycle, Uploading,
         Holding, Tables, Exists

LEMMA WriteKeeps ==
    ASSUME Typed, NEW h \in Handlers, NEW row \in EventType, task[h].event \in EventIds,
           Write(h, row)
    PROVE  Typed'
<1>1. /\ event' = [event EXCEPT ![task[h].event] = row] /\ Answer(h)
      /\ UNCHANGED <<account, team, objects>>
  BY DEF Write
<1> QED BY <1>1, RowWritten, AnswerKeeps

LEMMA FormKeeps ==
    ASSUME Typed, NEW h \in Handlers,
           LoadForm(h) \/ SaveForm(h) \/ Archive(h) \/ Publish(h) \/ Unpublish(h)
    PROVE  Typed' /\ Moves(h)
<1> DEFINE was == event[task[h].event]
<1>1. task[h].event \in EventIds /\ was \in EventType
  BY AtEvent DEF LoadForm, SaveForm, Archive, Publish, Unpublish, Due
<1>2. CASE LoadForm(h)
  <2> DEFINE v == task[h].value
  <2>1. /\ task[h].next = "load" /\ UNCHANGED <<account, event, team, objects>>
        /\ task' = [task EXCEPT ![h].next = "save", ![h].copy = was]
    BY <1>2 DEF LoadForm, Unchanged
  <2>2. task \in [Handlers -> Task] /\ task[h] \in Task
    BY DEF Typed
  <2>3. [task[h] EXCEPT !.next = "save", !.copy = was]
          = [task[h] EXCEPT !.next = "save", !.value = v, !.copy = was]
    BY <2>2 DEF Task
  <2>4. Goes(h, "save", v, was)
    BY <2>1, <2>2, <2>3 DEF Goes, Phases
  <2>5. Fits(task[h], "save", v) /\ v \in Slugs \cup Forms \cup Users \cup Keys \cup {Null}
    BY <2>1, <2>2 DEF Fits, Typed, AtWork, AtStatement, Task, Uploading, Holding
  <2> QED BY <1>1, <2>1, <2>4, <2>5, TablesStay, GoesKeeps DEF Moves
<1>3. CASE SaveForm(h)
  <2>1. task[h].value \in Forms
    BY <1>3 DEF SaveForm, Typed, AtWork, Asked, AtStatement
  <2>2. [was EXCEPT !.form = task[h].value] \in EventType
    BY <1>1, <2>1 DEF EventType
  <2> QED BY <1>1, <1>3, <2>2, WriteKeeps DEF SaveForm, Write, Moves
<1>4. CASE Archive(h)
  <2>1. [was EXCEPT !.archived = TRUE] \in EventType
    BY <1>1 DEF EventType
  <2> QED BY <1>1, <1>4, <2>1, WriteKeeps DEF Archive, Write, Moves
<1>5. CASE Publish(h)
  <2>1. [was EXCEPT !.public = TRUE] \in EventType
    BY <1>1 DEF EventType
  <2> QED BY <1>1, <1>5, <2>1, WriteKeeps DEF Publish, Write, Moves
<1>6. CASE Unpublish(h)
  <2>1. [was EXCEPT !.public = FALSE] \in EventType
    BY <1>1 DEF EventType
  <2> QED BY <1>1, <1>6, <2>1, WriteKeeps DEF Unpublish, Write, Moves
<1> QED BY <1>2, <1>3, <1>4, <1>5, <1>6

LEMMA CreateKeeps ==
    ASSUME Typed, NEW h \in Handlers, CheckSlug(h) \/ Create(h)
    PROVE  Typed' /\ Moves(h)
<1>1. CASE CheckSlug(h)
  <2>1. task[h].next = "check_slug" /\ UNCHANGED <<account, event, team, objects>>
    BY <1>1 DEF CheckSlug, Unchanged
  <2>2. CASE Answer(h)
    BY <2>1, <2>2, TablesStay, AnswerKeeps DEF Moves
  <2>3. CASE task' = [task EXCEPT ![h].next = "insert"]
    <3>1. "insert" \in Phases /\ Fits(task[h], "insert", task[h].value)
      BY <2>1 DEF Fits, Typed, AtWork, AtStatement, Phases, Uploading, Holding
    <3>2. Typed'
      BY <2>1, <2>3, <3>1, ReadGoes
    <3>3. Goes(h, "insert", task[h].value, task[h].copy)
      BY <2>1, <2>3, <3>1, GotoGoes
    <3> QED BY <3>2, <3>3 DEF Moves
  <2> QED BY <1>1, <2>2, <2>3 DEF CheckSlug
<1>2. CASE Create(h)
  <2> DEFINE t == task[h]
  <2>1. /\ t.actor \in Users /\ t.value \in Slugs
        /\ Answer(h) /\ UNCHANGED <<account, managers, objects>>
    BY <1>2 DEF Create, Typed, AtWork, Asked, AtStatement
  <2>2. CASE UNCHANGED <<event, admins>>
    BY <2>1, <2>2, TablesStay, AnswerKeeps DEF Moves, team
  <2>3. CASE \E e \in {i \in EventIds : ~Exists(i)}, public \in BOOLEAN :
               /\ event' = [event EXCEPT ![e] = NewEvent(t.actor, t.value, public)]
               /\ admins' = IF t.role = "global_admin" THEN admins
                            ELSE admins \cup {<<t.actor, e>>}
    <3>1. PICK e \in EventIds, public \in BOOLEAN :
             /\ event' = [event EXCEPT ![e] = NewEvent(t.actor, t.value, public)]
             /\ admins' \subseteq admins \cup {<<t.actor, e>>}
      BY <2>3
    <3> DEFINE row == NewEvent(t.actor, t.value, public)
    <3>2. row \in EventType
      BY <2>1 DEF NewEvent, EventType
    <3> HIDE DEF row
    <3>3. /\ event' \in [EventIds -> EventType \cup {Null}]
          /\ \A f \in EventIds : event'[f] = IF f = e THEN row ELSE event[f]
      BY <3>1, <3>2 DEF Typed, Tables, row
    <3>4. row # Null
      BY <3>2, NullAssumption
    <3>5. EventsStay
      BY <3>3, <3>4 DEF EventsStay, Exists
    <3>6. <<t.actor, e>> \in TeamRows' /\ TeamRows \subseteq TeamRows'
      BY <2>1, <3>3, <3>4, <3>5 DEF TeamRows, Exists, EventsStay
    <3>7. Tables'
      BY <2>1, <3>1, <3>3, <3>6 DEF Typed, Tables, objects
    <3> QED BY <2>1, <3>5, <3>7, AnswerKeeps DEF Moves
  <2> QED BY <1>2, <2>2, <2>3 DEF Create
<1> QED BY <1>1, <1>2

LEMMA UploadKeeps == ASSUME Typed, NEW h \in Handlers, Upload(h) PROVE Typed' /\ Moves(h)
<1> DEFINE t == task[h]
           was == event[t.event]
<1> USE DEF Uploading, Holding
<1>1. t \in Task /\ task \in [Handlers -> Task]
  BY DEF Typed
<1>2. /\ t.value \in Slugs \cup Forms \cup Users \cup Keys \cup {Null}
      /\ t.copy \in EventType \cup Keys \cup {Null}
  BY <1>1 DEF Task
<1>3. t.next \in Uploading /\ t.event \in EventIds /\ was \in EventType /\ t.request = "upload"
  <2>1. t.next \in Uploading
    BY DEF Upload, ReadBanner, Put, SetBanner, SetBannerFails, DeleteNew, DeleteOld, Drop
  <2> QED BY <2>1, AtEvent DEF Typed, AtWork, AtStatement
<1>4. /\ \A n, v : n \in Uploading /\ (n \in {"set", "delete_new"} => v \in Keys) =>
              Fits(t, n, v) /\ n \in Phases
      /\ t.next \in {"set", "delete_new"} => t.value \in Keys
  BY <1>3 DEF Fits, Phases, Typed, AtWork, AtStatement
<1>5. CASE ReadBanner(h)
  <2>1. /\ was.banner \in EventType \cup Keys \cup {Null}
        /\ UNCHANGED <<account, event, team, objects>>
    BY <1>3, <1>5 DEF EventType, ReadBanner, Unchanged
  <2>2. [t EXCEPT !.next = "put", !.copy = was.banner]
          = [t EXCEPT !.next = "put", !.value = t.value, !.copy = was.banner]
    BY <1>1 DEF Task
  <2>3. Goes(h, "put", t.value, was.banner)
    BY <1>1, <1>3, <1>4, <1>5, <2>2 DEF ReadBanner, Goes
  <2> QED BY <1>2, <1>4, <2>1, <2>3, TablesStay, GoesKeeps DEF Moves
<1>6. CASE Put(h)
  <2>1. CASE Answer(h) /\ UNCHANGED objects
    BY <1>6, <2>1, TablesStay, AnswerKeeps DEF Put, Moves
  <2>2. ASSUME NEW k \in Keys \ used, store' = store \cup {k}, used' = used \cup {k},
               task' = [task EXCEPT ![h].next = "set", ![h].value = k]
        PROVE  Typed' /\ Moves(h)
    <3>1. Tables' /\ EventsStay
      <4>1. UNCHANGED <<account, event, admins, managers>>
        BY <1>6 DEF Put, team
      <4>2. store' \subseteq used' /\ used' \subseteq Keys
        BY <2>2 DEF Typed, Tables
      <4> QED BY <4>1, <4>2 DEF Typed, Tables, TeamRows, Exists, EventsStay
    <3>2. [t EXCEPT !.next = "set", !.value = k]
            = [t EXCEPT !.next = "set", !.value = k, !.copy = t.copy]
      BY <1>1 DEF Task
    <3>3. Goes(h, "set", k, t.copy)
      BY <1>1, <1>3, <1>4, <2>2, <3>2 DEF Goes
    <3> QED BY <1>2, <1>4, <3>1, <3>3, GoesKeeps DEF Moves
  <2> QED BY <1>6, <2>1, <2>2 DEF Put
<1>7. ASSUME UNCHANGED event \/ event' = [event EXCEPT ![t.event].banner = t.value],
             UNCHANGED <<account, team, objects>>, t.next = "set", t.value \in Keys,
             \/ Answer(h)
             \/ \E n \in {"delete_old", "delete_new"} : task' = [task EXCEPT ![h].next = n]
      PROVE  Typed' /\ Moves(h)
  <2> DEFINE row == [was EXCEPT !.banner = t.value]
  <2>1. row \in EventType
    BY <1>3, <1>7 DEF EventType
  <2>2. Tables' /\ EventsStay
    <3>1. UNCHANGED event \/ event' = [event EXCEPT ![t.event] = row]
      BY <1>7
    <3> HIDE DEF row
    <3> QED BY <1>3, <1>7, <2>1, <3>1, RowWritten, TablesStay
  <2>3. CASE Answer(h)
    BY <2>2, <2>3, AnswerKeeps DEF Moves
  <2>4. ASSUME NEW n \in {"delete_old", "delete_new"}, task' = [task EXCEPT ![h].next = n]
        PROVE  Typed' /\ Moves(h)
    <3>1. Goes(h, n, t.value, t.copy) /\ n # "guard"
      BY <1>3, <1>4, <1>7, <2>4, GotoGoes
    <3> QED BY <1>2, <1>4, <1>7, <2>2, <3>1, GoesKeeps DEF Moves
  <2> QED BY <1>7, <2>3, <2>4
<1>8. CASE SetBanner(h) \/ SetBannerFails(h)
  <2>1. t.next = "set" /\ t.value \in Keys
    BY <1>4, <1>8 DEF SetBanner, SetBannerFails
  <2> QED BY <1>7, <1>8, <2>1 DEF SetBanner, SetBannerFails
<1>9. CASE DeleteNew(h) \/ DeleteOld(h)
  <2>1. /\ store' \subseteq store /\ UNCHANGED <<account, event, team, used>> /\ Answer(h)
    BY <1>9 DEF DeleteNew, DeleteOld, Drop
  <2>2. Tables' /\ EventsStay
    BY <2>1 DEF Typed, Tables, TeamRows, Exists, team, EventsStay
  <2> QED BY <2>1, <2>2, AnswerKeeps DEF Moves
<1> QED BY <1>5, <1>6, <1>8, <1>9 DEF Upload

LEMMA TeamKeeps ==
    ASSUME Typed, NEW h \in Handlers, CheckTarget(h) \/ Assign(h) \/ Unassign(h)
    PROVE  Typed' /\ Moves(h)
<1> DEFINE t == task[h]
<1>1. t.next \in {"check_target", "write"} /\ t.event \in EventIds /\ Exists(t.event)
  <2>1. t.next \in {"check_target", "write"}
    BY DEF CheckTarget, Assign, Unassign, Due
  <2> QED BY <2>1, AtEvent, NullAssumption DEF Exists
<1>2. CASE CheckTarget(h)
  <2>1. UNCHANGED <<account, event, team, objects>>
    BY <1>2 DEF CheckTarget, Unchanged
  <2>2. CASE Answer(h)
    BY <2>1, <2>2, TablesStay, AnswerKeeps DEF Moves
  <2>3. CASE task' = [task EXCEPT ![h].next = "write"]
    <3>1. "write" \in Phases /\ Fits(t, "write", t.value)
      BY <1>2 DEF CheckTarget, Fits, Typed, AtWork, AtStatement, Phases, Uploading, Holding,
                  TeamRequests
    <3>2. Typed'
      BY <1>1, <2>1, <2>3, <3>1, ReadGoes
    <3>3. Goes(h, "write", t.value, t.copy)
      BY <1>1, <2>3, <3>1, GotoGoes
    <3> QED BY <3>2, <3>3 DEF Moves
  <2> QED BY <1>2, <2>2, <2>3 DEF CheckTarget
<1>3. CASE Assign(h) \/ Unassign(h)
  <2>1. t.request \in TeamRequests /\ t.next = "write"
    BY <1>3 DEF Assign, Unassign, Due, TeamRequests, Assignments
  <2>2. Row(h) \in TeamRows
    BY <1>1, <2>1 DEF Row, TeamRows, Typed, AtWork, Asked
  <2>3. /\ admins' \cup managers' \subseteq admins \cup managers \cup {Row(h)}
        /\ Answer(h) /\ UNCHANGED <<account, event, objects>>
    BY <1>3 DEF Assign, Unassign
  <2>4. Tables' /\ EventsStay
    BY <2>2, <2>3 DEF Typed, Tables, TeamRows, Exists, objects, EventsStay
  <2> QED BY <2>3, <2>4, AnswerKeeps DEF Moves
<1> QED BY <1>2, <1>3

LEMMA NextKeeps == ASSUME Typed, [Next]_vars PROVE Typed'
<1>1. ASSUME NEW h \in Handlers, Work(h) PROVE Typed'
  BY <1>1, RequestsKeep, GuardKeeps, FormKeeps, CreateKeeps, UploadKeeps, TeamKeeps DEF Work
<1>2. ASSUME NEW u \in Users, NEW row \in Accounts, ChangeAccount(u, row) PROVE Typed'
  <2>1. account' \in [Users -> Accounts] /\ UNCHANGED <<event, team, objects, task>>
    BY <1>2 DEF ChangeAccount, Typed, Tables
  <2>2. Tables' /\ EventsStay
    BY <2>1 DEF Typed, Tables, TeamRows, Exists, team, objects, EventsStay
  <2>3. \A h \in Handlers : AtWork(task[h])'
    BY <2>1 DEF Typed, AtWork, Asked, AtStatement, Exists
  <2> QED BY <2>1, <2>2, <2>3 DEF Typed
<1>3. CASE UNCHANGED vars
  BY <1>3 DEF vars, team, objects, Typed, Tables, TeamRows, Exists, AtWork, Asked, AtStatement
<1> QED BY <1>1, <1>2, <1>3 DEF Next

LEMMA InitTyped == ASSUME Init PROVE Typed
<1>1. PICK p \in Plans : plan = p
  BY DEF Init
<1>2. /\ account = p.accounts /\ event = p.events /\ admins = p.admins /\ managers = p.managers
      /\ store = p.objects /\ used = p.objects /\ task = [h \in Handlers |-> NoTask]
  BY <1>1 DEF Init
<1>3. Tables
  BY <1>2, PlansAssumption DEF Tables, TeamRows, Exists
<1> QED BY <1>2, <1>3, NoTaskTyped DEF Typed

\* Admitting a request and asking its guard change no table and no object.
LEMMA Asking ==
    ASSUME NEW h \in Handlers, Requests(h) \/ Guard(h)
    PROVE  /\ UNCHANGED <<account, event, admins, managers, store, used, unsure, removed>>
           /\ \E k : task' = [task EXCEPT ![h] = k]
<1>1. CASE Requests(h)
  <2>1. PICK u, r, e, v : Receive(h, u, r, e, v)
    BY <1>1 DEF Requests
  <2> QED BY <2>1 DEF Receive, team, objects
<1>2. CASE Guard(h)
  BY <1>2 DEF Guard, Answer, Unchanged, team, objects
<1> QED BY <1>1, <1>2

(***************************************************************************)
(* Rows and requests are of their types in every reachable state.          *)
(***************************************************************************)
THEOREM TypeInvariance == Spec => []Typed
<1>1. Typed /\ [Next]_vars => Typed'
  BY NextKeeps
<1> QED BY <1>1, InitTyped, PTL DEF Spec

(***************************************************************************)
(* Accounts, events, teams and objects are rows of their tables.           *)
(***************************************************************************)
THEOREM TypeCorrect == Spec => []TypeOK
<1>1. Typed => TypeOK
  BY DEF Typed, Tables, TeamRows, TypeOK
<1> QED BY <1>1, TypeInvariance, PTL

(***************************************************************************)
(* The list of HandleList shows whatever Allow lets one read.              *)
(***************************************************************************)
THEOREM ListsAreComplete == Spec => []ReadableIsListed
<1>1. Typed => ReadableIsListed
  BY NullAssumption DEF Typed, Tables, Accounts, ReadableIsListed, May, Allow, Member, Listed
<1> QED BY <1>1, TypeInvariance, PTL

(***************************************************************************)
(* A step saves the form of an event, or writes its lifecycle, or its      *)
(* banner; it takes none out of the archive.                               *)
(***************************************************************************)
THEOREM FormsSpareLifecycle == Spec => FormSparesLifecycle
<1> DEFINE Spared(e) == LET was == event[e]
                            is == event[e]'
                        IN /\ was.archived => is.archived
                           /\ was.form # is.form => /\ was.public = is.public
                                                    /\ was.archived = is.archived
                                                    /\ was.banner = is.banner
                           /\ is.banner = Null => was.banner = Null
<1>1. ASSUME Typed, [Next]_vars, NEW e \in EventIds, Exists(e) PROVE Spared(e)
  <2>1. event[e] \in EventType
    BY <1>1 DEF Typed, Tables, Exists
  <2>2. CASE event' = event
    BY <2>2
  <2>3. ASSUME NEW h \in Handlers, Work(h), event' # event PROVE Spared(e)
    <3> DEFINE t == task[h]
    <3>1. /\ event \in [EventIds -> EventType \cup {Null}]
          /\ t.next \in {"save", "write", "set"} =>
               t.event \in EventIds /\ event[t.event] \in EventType
      BY <1>1, AtEvent DEF Typed, Tables, Uploading, Holding
    <3>2. CASE SaveForm(h)
      BY <2>1, <3>1, <3>2 DEF SaveForm, Write, EventType
    <3>3. CASE Archive(h) \/ Publish(h) \/ Unpublish(h)
      BY <2>1, <3>1, <3>3 DEF Archive, Publish, Unpublish, Due, Write, EventType
    <3>4. CASE SetBanner(h) \/ SetBannerFails(h)
      <4>1. t.value \in Keys /\ t.value # Null /\ t.next = "set"
        BY <1>1, <3>4, NullAssumption DEF SetBanner, SetBannerFails, Typed, AtWork, AtStatement
      <4>2. event' = [event EXCEPT ![t.event].banner = t.value]
        BY <2>3, <3>4 DEF SetBanner, SetBannerFails
      <4> QED BY <2>1, <3>1, <4>1, <4>2 DEF EventType
    <3>5. CASE Create(h)
      <4>1. PICK f, row : f \in EventIds /\ ~Exists(f) /\ event' = [event EXCEPT ![f] = row]
        BY <2>3, <3>5 DEF Create
      <4>2. event'[e] = event[e]
        BY <1>1, <3>1, <4>1
      <4> QED BY <4>2
    <3> QED BY <2>3, <3>2, <3>3, <3>4, <3>5, Asking
          DEF Work, CheckSlug, LoadForm, Upload, ReadBanner, Put,
              DeleteNew, DeleteOld, Drop, CheckTarget, Assign, Unassign, Unchanged
  <2> QED BY <1>1, <2>2, <2>3 DEF Next, ChangeAccount, vars
<1> DEFINE Spares == \A e \in EventIds : Exists(e) => Spared(e)
<1>2. Typed /\ [Next]_vars => [Spares]_vars
  BY <1>1
<1> QED BY <1>2, TypeInvariance, PTL DEF Spec, FormSparesLifecycle

-----------------------------------------------------------------------------
(* The banners.                                                            *)

\* k is the banner of e.
Names(e, k) == Exists(e) /\ event[e].banner = k

\* What an upload has read: while it is at work, the banner of nobody else, and
\* when it is about to be deleted, of nobody at all.
OldKey(t) ==
    /\ t.next \in {"put", "set", "delete_old"} => t.copy \in used \cup {Null}
    /\ t.next \in {"put", "set"} /\ t.copy # Null =>
         \A e \in EventIds : Names(e, t.copy) => e = t.event
    /\ t.next = "delete_old" => t.copy # Null /\ \A e \in EventIds : ~Names(e, t.copy)

\* What it has stored: nobody's banner yet, or of an event whose write may have
\* been reported wrongly.
NewKey(t) ==
    /\ t.next \in {"set", "delete_new"} => t.value \in used
    /\ t.next = "set" => t.value \in store /\ \A e \in EventIds : ~Names(e, t.value)
    /\ t.next = "delete_new" => \A e \in EventIds \ unsure : ~Names(e, t.value)

\* A key that will become a banner is known to nobody else.
Secret(h) ==
    task[h].next = "set" =>
      /\ \A g \in Handlers :
           task[g].next \in {"put", "set", "delete_old"} => task[g].copy # task[h].value
      /\ \A g \in Handlers \ {h} :
           task[g].next \in {"set", "delete_new"} => task[g].value # task[h].value

BannerKeys ==
    /\ \A e \in EventIds : Exists(e) => event[e].banner \in used \cup {Null}
    /\ \A e, f \in EventIds, k \in used : Names(e, k) /\ Names(f, k) => e = f

(***************************************************************************)
(* The inductive invariant of the banners: no two events have the same,    *)
(* and whoever is about to delete an object knows that nobody names it.    *)
(***************************************************************************)
KeyInv ==
    /\ BannerKeys
    /\ \A h \in Handlers : OldKey(task[h]) /\ NewKey(task[h]) /\ Secret(h)
    /\ BannerServable

\* No event changes its banner, and new ones have none.
BannersStay ==
    \A e \in EventIds :
        event'[e] # Null => event'[e].banner = IF Exists(e) THEN event[e].banner ELSE Null

(***************************************************************************)
(* Steps that leave the banners and the objects alone.                     *)
(***************************************************************************)
LEMMA KeysStay ==
    ASSUME Typed, Typed', KeyInv, BannersStay, UNCHANGED <<store, used>>, unsure \subseteq unsure',
           \A g \in Handlers : task'[g] = task[g] \/ task'[g].next \notin Holding
    PROVE  KeyInv'
<1>1. ASSUME NEW e \in EventIds, NEW k, Names(e, k)', k # Null PROVE Names(e, k)
  BY <1>1 DEF BannersStay, Names, Exists
<1>2. Null \notin used
  BY NullAssumption DEF Typed, Tables
<1>3. BannerKeys'
  <2>1. \A e \in EventIds : Exists(e)' => event'[e].banner \in used \cup {Null}
    BY DEF KeyInv, BannerKeys, BannersStay, Exists
  <2>2. \A e, f \in EventIds, k \in used : Names(e, k)' /\ Names(f, k)' => e = f
    BY <1>1, <1>2 DEF KeyInv, BannerKeys
  <2> QED BY <2>1, <2>2 DEF BannerKeys
<1>4. ASSUME NEW h \in Handlers PROVE OldKey(task[h])' /\ NewKey(task[h])' /\ Secret(h)'
  <2>1. CASE task'[h].next \notin Holding
    BY <2>1 DEF OldKey, NewKey, Secret, Holding
  <2>2. CASE task'[h] = task[h]
    <3>1. OldKey(task[h])'
      BY <1>1, <2>2 DEF KeyInv, OldKey
    <3>2. NewKey(task[h])'
      BY <1>1, <1>2, <2>2 DEF KeyInv, NewKey
    <3>3. Secret(h)'
      BY <2>2 DEF KeyInv, Secret, Holding
    <3> QED BY <3>1, <3>2, <3>3
  <2> QED BY <2>1, <2>2
<1>5. BannerServable'
  <2> SUFFICES ASSUME NEW e \in EventIds \ unsure', Exists(e)' PROVE Streams(e)'
    BY DEF BannerServable
  <2>1. e \notin unsure /\ event'[e].banner = IF Exists(e) THEN event[e].banner ELSE Null
    BY DEF BannersStay, Exists
  <2> QED BY <2>1 DEF KeyInv, BannerServable, Streams
<1> QED BY <1>3, <1>4, <1>5 DEF KeyInv

\* The tasks after one of an upload has moved.
Becomes(h, n, v, c) ==
    \A g \in Handlers :
        IF g = h THEN /\ task'[h].next = n /\ task'[h].value = v /\ task'[h].copy = c
                      /\ task'[h].event = task[h].event
        ELSE task'[g] = task[g]

\* An upload leaves the put of its key behind it.
Leaves(h, n) ==
    /\ \A g \in Handlers \ {h} : task'[g] = task[g]
    /\ task'[h].next = n
    /\ n # "idle" => /\ task'[h].value = task[h].value /\ task'[h].copy = task[h].copy
                     /\ task'[h].event = task[h].event

LEMMA Becoming ==
    ASSUME Typed, NEW h \in Handlers, NEW n, NEW v, NEW c,
           task' = [task EXCEPT ![h] = [task[h] EXCEPT !.next = n, !.value = v, !.copy = c]]
    PROVE  Becomes(h, n, v, c)
<1>1. task \in [Handlers -> Task] /\ task[h] \in Task
  BY DEF Typed
<1> QED BY <1>1 DEF Becomes, Task

\* The banner is read: it is the event's, and no other's.
LEMMA ReadBannerKeys ==
    ASSUME Typed, KeyInv, NEW h \in Handlers, ReadBanner(h) PROVE KeyInv'
<1> DEFINE t == task[h]
           c == event[t.event].banner
<1>1. /\ t.next = "read_banner" /\ UNCHANGED <<event, store, used, unsure>>
      /\ task' = [task EXCEPT ![h].next = "put", ![h].copy = c]
  BY DEF ReadBanner, Unchanged, objects
<1>2. task \in [Handlers -> Task] /\ t \in Task
  BY DEF Typed
<1>3. t.event \in EventIds /\ Exists(t.event)
  BY <1>1, AtEvent, NullAssumption DEF Uploading, Exists
<1>4. Becomes(h, "put", t.value, c)
  <2>1. task' = [task EXCEPT ![h] = [t EXCEPT !.next = "put", !.value = t.value, !.copy = c]]
    BY <1>1, <1>2 DEF Task
  <2> QED BY <2>1, Becoming
<1>5. /\ c \in used \cup {Null} /\ Names(t.event, c)
      /\ \A e \in EventIds : c \in used /\ Names(e, c) => e = t.event
  BY <1>3 DEF KeyInv, BannerKeys, Names
<1> HIDE DEF c
<1>6. \A e, k : Names(e, k)' <=> Names(e, k)
  BY <1>1 DEF Names, Exists
<1>7. UNCHANGED <<store, used, unsure>> /\ t.next = "read_banner"
  BY <1>1
<1>8. ASSUME NEW g \in Handlers PROVE OldKey(task[g])' /\ NewKey(task[g])' /\ Secret(g)'
  <2>1. OldKey(task[g])' /\ NewKey(task[g])'
    <3>1. CASE g = h
      BY <1>1, <1>4, <1>5, <1>6, <3>1 DEF OldKey, NewKey, Becomes
    <3>2. CASE g # h
      <4>1. task'[g] = task[g] /\ OldKey(task[g]) /\ NewKey(task[g])
        BY <1>4, <3>2 DEF KeyInv, Becomes
      <4> QED BY <1>7, <1>6, <4>1 DEF OldKey, NewKey
    <3> QED BY <3>1, <3>2
  <2>2. Secret(g)'
    <3>1. task[g].next = "set" => c # task[g].value
      BY <1>3, <1>5 DEF KeyInv, NewKey
    <3>2. \A f \in Handlers : f # h => task'[f] = task[f]
      BY <1>4 DEF Becomes
    <3>3. task'[h].next = "put" /\ task'[h].copy = c
      BY <1>4 DEF Becomes
    <3>4. Secret(g)
      BY DEF KeyInv
    <3> QED BY <3>1, <3>2, <3>3, <3>4 DEF Secret
  <2> QED BY <2>1, <2>2
<1>9. BannerKeys' /\ BannerServable'
  BY <1>1, <1>6 DEF KeyInv, BannerKeys, BannerServable, Streams, Exists
<1> QED BY <1>8, <1>9 DEF KeyInv

\* The new object is stored under a key nobody knows.
LEMMA PutKeys ==
    ASSUME Typed, KeyInv, NEW h \in Handlers, NEW k \in Keys \ used, task[h].next = "put",
           store' = store \cup {k}, used' = used \cup {k},
           Becomes(h, "set", k, task[h].copy),
           UNCHANGED <<event, unsure>>
    PROVE  KeyInv'
<1> DEFINE t == task[h]
<1>1. k # Null
  BY NullAssumption
<1>2. \A e, x : Names(e, x)' <=> Names(e, x)
  BY DEF Names, Exists
<1>3. \A e \in EventIds : ~Names(e, k)
  BY <1>1 DEF KeyInv, BannerKeys, Names
<1>4. \A g \in Handlers :
        /\ task[g].next \in {"put", "set", "delete_old"} => task[g].copy # k
        /\ task[g].next \in {"set", "delete_new"} => task[g].value # k
  BY <1>1 DEF KeyInv, OldKey, NewKey
<1>5. /\ \A g \in Handlers : g # h => task'[g] = task[g]
      /\ task'[h].next = "set" /\ task'[h].value = k /\ task'[h].copy = t.copy
      /\ task'[h].event = t.event
  BY DEF Becomes
<1>6. ASSUME NEW g \in Handlers PROVE OldKey(task[g]) /\ NewKey(task[g]) /\ Secret(g)
  BY DEF KeyInv
<1>7. ASSUME NEW g \in Handlers PROVE OldKey(task[g])' /\ NewKey(task[g])' /\ Secret(g)'
  <2>1. CASE g = h
    <3>1. OldKey(task[g])'
      <4>1. OldKey(t)
        BY <1>6
      <4> QED BY <1>2, <1>5, <2>1, <4>1 DEF OldKey
    <3>2. NewKey(task[g])'
      BY <1>2, <1>3, <1>5, <2>1 DEF NewKey
    <3>3. Secret(g)'
      BY <1>4, <1>5, <2>1 DEF Secret
    <3> QED BY <3>1, <3>2, <3>3
  <2>2. CASE g # h
    <3>1. OldKey(task[g])' /\ NewKey(task[g])'
      <4>1. task'[g] = task[g] /\ OldKey(task[g]) /\ NewKey(task[g])
        BY <1>5, <1>6, <2>2
      <4> QED BY <1>2, <4>1 DEF OldKey, NewKey
    <3>2. Secret(g)'
      BY <1>4, <1>5, <1>6, <2>2 DEF Secret
    <3> QED BY <3>1, <3>2
  <2> QED BY <2>1, <2>2
<1>8. BannerKeys' /\ BannerServable'
  <2>1. BannerKeys'
    BY <1>2, <1>3 DEF KeyInv, BannerKeys, Exists
  <2>2. BannerServable'
    BY DEF KeyInv, BannerServable, Streams, Exists
  <2> QED BY <2>1, <2>2
<1> QED BY <1>7, <1>8 DEF KeyInv

\* The key becomes the event's banner; that the statement reported an error is
\* remembered.
LEMMA SetKeys ==
    ASSUME Typed, KeyInv, NEW h \in Handlers, task[h].next = "set", UNCHANGED <<store, used>>,
           event' = [event EXCEPT ![task[h].event].banner = task[h].value],
           NEW n \in {"idle", "delete_old", "delete_new"}, Leaves(h, n),
           n = "delete_old" => task[h].copy # Null,
           unsure' = IF n = "delete_new" THEN unsure \cup {task[h].event} ELSE unsure
    PROVE  KeyInv'
<1> DEFINE t == task[h]
           k == t.value
<1>1. /\ t.event \in EventIds /\ Exists(t.event) /\ event[t.event] \in EventType
      /\ k \in used /\ k \in store /\ k # Null
  BY AtEvent, NullAssumption DEF Uploading, Holding, Exists, KeyInv, NewKey, Typed, Tables
<1>2. /\ \A e \in EventIds : Exists(e)' <=> Exists(e)
      /\ \A e \in EventIds : event'[e].banner = IF e = t.event THEN k ELSE event[e].banner
  <2>1. event \in [EventIds -> EventType \cup {Null}]
    BY DEF Typed, Tables
  <2>2. /\ [event[t.event] EXCEPT !.banner = k] # Null
        /\ [event[t.event] EXCEPT !.banner = k].banner = k
    <3>1. [event[t.event] EXCEPT !.banner = k] \in EventType
      BY <1>1 DEF Typed, Tables, EventType
    <3> QED BY <1>1, <3>1, NullAssumption DEF EventType
  <2> QED BY <1>1, <2>1, <2>2 DEF Exists
<1>3. \A e \in EventIds : \A x : Names(e, x)' <=> IF e = t.event THEN x = k ELSE Names(e, x)
  BY <1>1, <1>2 DEF Names
<1>4. \A e \in EventIds : ~Names(e, k)
  BY DEF KeyInv, NewKey
<1>5. \A g \in Handlers :
        /\ task[g].next \in {"put", "set", "delete_old"} => task[g].copy # k
        /\ g # h /\ task[g].next \in {"set", "delete_new"} => task[g].value # k
  BY DEF KeyInv, Secret
<1>6. ASSUME NEW g \in Handlers PROVE OldKey(task[g])' /\ NewKey(task[g])' /\ Secret(g)'
  <2>1. CASE g = h
    <3>1. OldKey(task[g])'
      BY <1>3, <1>5, <2>1 DEF KeyInv, OldKey, Leaves
    <3>2. NewKey(task[g])'
      BY <1>1, <1>3, <1>4, <2>1 DEF NewKey, Leaves
    <3>3. Secret(g)'
      BY <2>1 DEF Secret, Leaves
    <3> QED BY <3>1, <3>2, <3>3
  <2>2. CASE g # h
    <3>1. OldKey(task[g])'
      BY <1>3, <1>5, <2>2 DEF KeyInv, OldKey, Leaves
    <3>2. NewKey(task[g])'
      BY <1>3, <1>5, <2>2 DEF KeyInv, NewKey, Leaves
    <3>3. Secret(g)'
      BY <1>5, <2>2 DEF KeyInv, Secret, Leaves
    <3> QED BY <3>1, <3>2, <3>3
  <2> QED BY <2>1, <2>2
<1>7. BannerKeys'
  <2>1. \A e \in EventIds : Exists(e)' => event'[e].banner \in used \cup {Null}
    BY <1>1, <1>2 DEF KeyInv, BannerKeys
  <2>2. ASSUME NEW e \in EventIds, NEW f \in EventIds, NEW x \in used, Names(e, x)', Names(f, x)'
        PROVE  e = f
    <3>1. CASE x = k
      BY <1>3, <1>4, <2>2, <3>1
    <3>2. CASE x # k
      BY <1>3, <2>2, <3>2 DEF KeyInv, BannerKeys
    <3> QED BY <3>1, <3>2
  <2> QED BY <2>1, <2>2 DEF BannerKeys
<1>8. BannerServable'
  BY <1>1, <1>2 DEF KeyInv, BannerServable, Streams
<1> QED BY <1>6, <1>7, <1>8 DEF KeyInv

\* The key did not become the event's banner.
LEMMA FailedKeys ==
    ASSUME Typed, KeyInv, NEW h \in Handlers, task[h].next = "set", Leaves(h, "delete_new"),
           UNCHANGED <<event, store, used, unsure>>
    PROVE  KeyInv'
<1>1. \A e, x : Names(e, x)' <=> Names(e, x)
  BY DEF Names, Exists
<1>2. ASSUME NEW g \in Handlers PROVE OldKey(task[g])' /\ NewKey(task[g])' /\ Secret(g)'
  <2>1. CASE g = h
    <3>1. OldKey(task[g])' /\ Secret(g)'
      BY <2>1 DEF OldKey, Secret, Leaves
    <3>2. NewKey(task[g])'
      BY <1>1, <2>1 DEF KeyInv, NewKey, Leaves
    <3> QED BY <3>1, <3>2
  <2>2. CASE g # h
    <3>1. OldKey(task[g])' /\ NewKey(task[g])'
      BY <1>1, <2>2 DEF KeyInv, OldKey, NewKey, Leaves
    <3>2. Secret(g)'
      BY <2>2 DEF KeyInv, Secret, Leaves
    <3> QED BY <3>1, <3>2
  <2> QED BY <2>1, <2>2
<1>3. BannerKeys' /\ BannerServable'
  BY <1>1 DEF KeyInv, BannerKeys, BannerServable, Streams, Exists
<1> QED BY <1>2, <1>3 DEF KeyInv

\* An object that nobody names and nobody is about to name is deleted.
LEMMA DropKeys ==
    ASSUME Typed, KeyInv, NEW h \in Handlers, DeleteNew(h) \/ DeleteOld(h) PROVE KeyInv'
<1> DEFINE k == IF DeleteNew(h) THEN task[h].value ELSE task[h].copy
<1>1. /\ store \ {k} \subseteq store'
      /\ UNCHANGED <<event, used, unsure>>
  BY DEF DeleteNew, DeleteOld, Drop
<1>2. \A g \in Handlers : task'[g] = IF g = h THEN NoTask ELSE task[g]
  BY DEF DeleteNew, DeleteOld, Drop, Answer, Typed
<1>3. \A e \in EventIds \ unsure : ~Names(e, k)
  BY DEF KeyInv, OldKey, NewKey, DeleteNew, DeleteOld, Drop
<1>4. \A g \in Handlers \ {h} : task[g].next = "set" => task[g].value # k
  BY DEF KeyInv, Secret, DeleteNew, DeleteOld, Drop
<1> HIDE DEF k
<1>5. \A e, x : Names(e, x)' <=> Names(e, x)
  BY <1>1 DEF Names, Exists
<1>6. ASSUME NEW g \in Handlers PROVE OldKey(task[g])' /\ NewKey(task[g])' /\ Secret(g)'
  <2>1. CASE g = h
    BY <1>2, <2>1, NoTaskTyped DEF OldKey, NewKey, Secret
  <2>2. CASE g # h
    <3>1. OldKey(task[g])' /\ NewKey(task[g])'
      BY <1>1, <1>2, <1>4, <1>5, <2>2 DEF KeyInv, OldKey, NewKey
    <3>2. Secret(g)'
      BY <1>2, <2>2, NoTaskTyped DEF KeyInv, Secret
    <3> QED BY <3>1, <3>2
  <2> QED BY <2>1, <2>2
<1>7. BannerKeys'
  BY <1>1, <1>5 DEF KeyInv, BannerKeys, Exists
<1>8. BannerServable'
  BY <1>1, <1>3 DEF KeyInv, BannerServable, Streams, Exists, Names
<1> QED BY <1>6, <1>7, <1>8 DEF KeyInv

LEMMA UploadKeys == ASSUME Typed, KeyInv, NEW h \in Handlers, Upload(h), Typed' PROVE KeyInv'
<1> DEFINE t == task[h]
<1>1. t \in Task /\ task \in [Handlers -> Task]
  BY DEF Typed
<1>2. CASE Put(h)
  <2>1. UNCHANGED <<event, unsure>>
    BY <1>2 DEF Put
  <2>2. CASE Answer(h) /\ UNCHANGED objects
    <3>1. BannersStay
      BY <2>1 DEF BannersStay, Exists
    <3>2. \A g \in Handlers : task'[g] = task[g] \/ task'[g].next \notin Holding
      BY <1>1, <2>2, NoTaskTyped DEF Answer, Holding
    <3> QED BY <2>1, <2>2, <3>1, <3>2, KeysStay DEF objects
  <2>3. ASSUME NEW k \in Keys \ used, store' = store \cup {k}, used' = used \cup {k},
               task' = [task EXCEPT ![h].next = "set", ![h].value = k]
        PROVE  KeyInv'
    <3>1. task' = [task EXCEPT ![h] = [t EXCEPT !.next = "set", !.value = k, !.copy = t.copy]]
      BY <1>1, <2>3 DEF Task
    <3>2. t.next = "put"
      BY <1>2 DEF Put
    <3> QED BY <2>1, <2>3, <3>1, <3>2, Becoming, PutKeys
  <2> QED BY <1>2, <2>2, <2>3 DEF Put
<1>3. CASE SetBanner(h) \/ SetBannerFails(h)
  <2>1. t.next = "set" /\ UNCHANGED <<store, used>>
    BY <1>3 DEF SetBanner, SetBannerFails, objects
  <2>2. ASSUME NEW n, task' = [task EXCEPT ![h].next = n] PROVE Leaves(h, n)
    BY <1>1, <2>2 DEF Leaves, Task
  <2>3. CASE SetBanner(h)
    <3>1. event' = [event EXCEPT ![t.event].banner = t.value] /\ unsure' = unsure
      BY <2>3 DEF SetBanner
    <3>2. CASE t.copy = Null /\ Answer(h)
      <4>1. Leaves(h, "idle")
        BY <1>1, <3>2, NoTaskTyped DEF Answer, Leaves
      <4> QED BY <2>1, <3>1, <4>1, SetKeys
    <3>3. CASE t.copy # Null /\ task' = [task EXCEPT ![h].next = "delete_old"]
      BY <2>1, <2>2, <3>1, <3>3, SetKeys
    <3> QED BY <2>3, <3>2, <3>3 DEF SetBanner
  <2>4. CASE SetBannerFails(h)
    <3>1. Leaves(h, "delete_new")
      BY <2>2, <2>4 DEF SetBannerFails
    <3>2. CASE UNCHANGED <<event, unsure>>
      BY <2>1, <3>1, <3>2, FailedKeys
    <3>3. CASE /\ event' = [event EXCEPT ![t.event].banner = t.value]
               /\ unsure' = unsure \cup {t.event}
      BY <2>1, <3>1, <3>3, SetKeys
    <3> QED BY <2>4, <3>2, <3>3 DEF SetBannerFails
  <2> QED BY <1>3, <2>3, <2>4
<1> QED BY <1>2, <1>3, ReadBannerKeys, DropKeys DEF Upload

\* Every other statement: the banners, the objects and the keys at work stay.
LEMMA OtherKeys ==
    ASSUME Typed, Typed', KeyInv, NEW h \in Handlers, Work(h), ~Upload(h) PROVE KeyInv'
<1> DEFINE was == event[task[h].event]
<1>1. UNCHANGED <<store, used, unsure>>
  BY Asking DEF Work, Unchanged, CheckSlug, Create, LoadForm, SaveForm,
         Archive, Publish, Unpublish, Write, CheckTarget, Assign, Unassign, objects
<1>2. \A g \in Handlers : task'[g] = task[g] \/ task'[g].next \notin Holding
  <2>1. ASSUME NEW k, task' = [task EXCEPT ![h] = k], k.next \notin Holding
        PROVE  \A g \in Handlers : task'[g] = task[g] \/ task'[g].next \notin Holding
    BY <2>1 DEF Typed
  <2>2. ASSUME NEW n, task' = [task EXCEPT ![h].next = n], n \notin Holding
        PROVE  \A g \in Handlers : task'[g] = task[g] \/ task'[g].next \notin Holding
    BY <2>2 DEF Typed, Task
  <2>3. CASE Answer(h)
    BY <2>1, <2>3, NoTaskTyped DEF Answer, Holding
  <2>4. CASE Requests(h)
    <3>1. ASSUME NEW u, NEW r, NEW e, NEW v, Receive(h, u, r, e, v)
          PROVE  \A g \in Handlers : task'[g] = task[g] \/ task'[g].next \notin Holding
      <4> DEFINE k == [NoTask EXCEPT !.next = "guard", !.request = r, !.actor = u,
                                     !.role = account[u].role, !.event = e, !.value = v]
      <4>1. task' = [task EXCEPT ![h] = k]
        BY <3>1 DEF Receive
      <4>2. k.next \notin Holding
        BY DEF NoTask, Holding
      <4> HIDE DEF k
      <4> QED BY <2>1, <4>1, <4>2
    <3> QED BY <2>4, <3>1 DEF Requests
  <2>5. CASE Guard(h)
    <3>1. First(task[h].request) \notin Holding
      BY DEF First, Holding
    <3> QED BY <2>2, <2>3, <2>5, <3>1 DEF Guard
  <2>6. CASE LoadForm(h)
    <3>1. task'[h].next = "save" /\ \A g \in Handlers \ {h} : task'[g] = task[g]
      BY <2>6 DEF LoadForm, Typed, Task
    <3> QED BY <3>1 DEF Holding
  <2>7. CASE CheckSlug(h) \/ CheckTarget(h)
    BY <2>2, <2>3, <2>7 DEF CheckSlug, CheckTarget, Holding
  <2> QED BY <2>3, <2>4, <2>5, <2>6, <2>7
          DEF Work, Create, SaveForm, Archive, Publish, Unpublish, Write, Assign, Unassign
<1>3. BannersStay
  <2>1. CASE event' = event
    BY <2>1 DEF BannersStay, Exists
  <2>2. ASSUME NEW row \in EventType, row.banner = was.banner, Write(h, row),
               task[h].event \in EventIds, was \in EventType
        PROVE  BannersStay
    <3>1. /\ event \in [EventIds -> EventType \cup {Null}]
          /\ event' = [event EXCEPT ![task[h].event] = row]
      BY <2>2 DEF Typed, Tables, Write
    <3> QED BY <2>2, <3>1, NullAssumption DEF BannersStay, Exists
  <2>3. task[h].next \in {"save", "write"} => task[h].event \in EventIds /\ was \in EventType
    BY AtEvent
  <2>4. CASE SaveForm(h)
    <3> DEFINE row == [was EXCEPT !.form = task[h].value]
    <3>1. was \in EventType /\ task[h].value \in Forms
      BY <2>3, <2>4 DEF SaveForm, Typed, AtWork, Asked, AtStatement
    <3>2. row \in EventType /\ row.banner = was.banner
      BY <3>1 DEF EventType
    <3>3. Write(h, row)
      BY <2>4 DEF SaveForm
    <3> HIDE DEF row
    <3> QED BY <2>2, <2>3, <2>4, <3>2, <3>3 DEF SaveForm
  <2>5. CASE Archive(h) \/ Publish(h) \/ Unpublish(h)
    <3>1. was \in EventType /\ task[h].event \in EventIds
      BY <2>3, <2>5 DEF Archive, Publish, Unpublish, Due
    <3>2. /\ [was EXCEPT !.archived = TRUE] \in EventType
          /\ [was EXCEPT !.archived = TRUE].banner = was.banner
          /\ \A b \in BOOLEAN : [was EXCEPT !.public = b] \in EventType
                                /\ [was EXCEPT !.public = b].banner = was.banner
      BY <3>1 DEF EventType
    <3> QED BY <2>2, <2>5, <3>1, <3>2 DEF Archive, Publish, Unpublish
  <2>6. ASSUME NEW e \in EventIds, ~Exists(e), NEW public,
               event' = [event EXCEPT ![e] = NewEvent(task[h].actor, task[h].value, public)]
        PROVE  BannersStay
    BY <2>6 DEF BannersStay, NewEvent, Exists, Typed, Tables
  <2>7. CASE Create(h)
    BY <2>1, <2>6, <2>7 DEF Create
  <2>8. CASE CheckSlug(h) \/ LoadForm(h) \/ CheckTarget(h) \/ Assign(h) \/ Unassign(h)
    BY <2>1, <2>8 DEF CheckSlug, LoadForm, CheckTarget, Assign, Unassign, Unchanged
  <2> QED BY <2>1, <2>4, <2>5, <2>7, <2>8, Asking DEF Work
<1> QED BY <1>1, <1>2, <1>3, KeysStay

LEMMA KeyStep == ASSUME Typed, KeyInv, [Next]_vars PROVE KeyInv'
<1>1. Typed'
  BY NextKeeps
<1>2. ASSUME NEW h \in Handlers, Work(h) PROVE KeyInv'
  BY <1>1, <1>2, UploadKeys, OtherKeys
<1>3. CASE UNCHANGED <<event, store, used, task, unsure>>
  <2>1. BannersStay
    BY <1>3 DEF BannersStay, Exists
  <2> QED BY <1>1, <1>3, <2>1, KeysStay
<1> QED BY <1>2, <1>3 DEF Next, ChangeAccount, objects, vars

LEMMA InitKeys == ASSUME Init PROVE KeyInv
<1>1. PICK p \in Plans : plan = p
  BY DEF Init
<1>2. /\ event = p.events /\ store = p.objects /\ used = p.objects /\ unsure = {}
      /\ task = [h \in Handlers |-> NoTask]
  BY <1>1 DEF Init
<1>3. p.objects \subseteq Keys /\ Null \notin p.objects
  BY PlansAssumption, NullAssumption
<1>4. \A e \in EventIds : p.events[e] # Null =>
         /\ p.events[e].banner \in p.objects \cup {Null}
         /\ \A f \in EventIds \ {e} :
              p.events[f] # Null /\ p.events[f].banner = p.events[e].banner
                => p.events[e].banner = Null
  BY PlansAssumption
<1>5. BannerKeys /\ BannerServable
  BY <1>2, <1>3, <1>4 DEF BannerKeys, BannerServable, Streams, Names, Exists
<1>6. \A h \in Handlers : OldKey(task[h]) /\ NewKey(task[h]) /\ Secret(h)
  BY <1>2, NoTaskTyped DEF OldKey, NewKey, Secret
<1> QED BY <1>5, <1>6 DEF KeyInv

(***************************************************************************)
(* The banner an event names is stored, unless a write that took effect    *)
(* was reported as an error.                                               *)
(***************************************************************************)
THEOREM BannersAreServable == Spec => []BannerServable
<1>1. Init => Typed /\ KeyInv
  BY InitTyped, InitKeys
<1>2. Typed /\ KeyInv /\ [Next]_vars => (Typed /\ KeyInv)'
  BY NextKeeps, KeyStep
<1>3. KeyInv => BannerServable
  BY DEF KeyInv
<1> QED BY <1>1, <1>2, <1>3, PTL DEF Spec

-----------------------------------------------------------------------------
(* Who may change what.                                                    *)

\* u is an admin of e, or of everything.
Manages(u, e) ==
    /\ ~account[u].disabled
    /\ \/ account[u].role = "global_admin"
       \/ account[u].role = "event_admin" /\ <<u, e>> \in admins

\* The account is the one the request was admitted with.
SameAccount(t) == account[t.actor].role = t.role /\ ~account[t.actor].disabled

\* Whoever may still be the admin they were is one.
Creators ==
    /\ \A e \in EventIds : Exists(e) /\ event[e].creator \notin removed =>
         Manages(event[e].creator, e)
    /\ \A h \in Handlers : task[h].next # "idle" /\ task[h].actor \notin removed =>
         SameAccount(task[h])

\* A request that was not overtaken has the account it was admitted with until the
\* guard, and the right to read its event after it.
Entitled(t) ==
    /\ t.next = "guard" => SameAccount(t)
    /\ t.next # "guard" => May(t.actor, "event.read", t.event)

Rights ==
    \A h \in Handlers \ overtaken :
        task[h].next # "idle" /\ task[h].event # Null => Entitled(task[h])

(***************************************************************************)
(* The inductive invariant of the rights.                                  *)
(***************************************************************************)
RightsInv == Creators /\ Rights

\* After a statement behind the guard, the same request is at work or none.
LEMMA MovesOn ==
    ASSUME Typed, NEW h \in Handlers, Moves(h)
    PROVE  /\ \A g \in Handlers \ {h} : task'[g] = task[g]
           /\ \/ task'[h].next = "idle"
              \/ /\ task[h].next # "idle" /\ task'[h].next # "guard"
                 /\ task'[h].actor = task[h].actor /\ task'[h].role = task[h].role
                 /\ task'[h].event = task[h].event
<1>1. task \in [Handlers -> Task]
  BY DEF Typed
<1>2. CASE Answer(h)
  BY <1>1, <1>2, NoTaskTyped DEF Answer
<1>3. ASSUME NEW n, NEW v, NEW c, Goes(h, n, v, c), n # "guard"
      PROVE  /\ \A g \in Handlers \ {h} : task'[g] = task[g]
             /\ task[h].next # "idle" /\ task'[h].next # "guard"
             /\ task'[h].actor = task[h].actor /\ task'[h].role = task[h].role
             /\ task'[h].event = task[h].event
  BY <1>1, <1>3 DEF Goes, Task
<1> QED BY <1>2, <1>3 DEF Moves

\* A statement that writes neither accounts nor teams nor who created an event.
LEMMA RightsStay ==
    ASSUME Typed, RightsInv, NEW h \in Handlers, Moves(h), task[h].next # "guard",
           UNCHANGED <<account, removed, overtaken>>,
           admins \subseteq admins', managers \subseteq managers',
           \A e \in EventIds : event'[e] # Null =>
             \/ Exists(e) /\ event'[e].creator = event[e].creator
             \/ event'[e].creator \notin removed => Manages(event[e].creator, e)'
    PROVE  RightsInv'
<1>1. /\ \A g \in Handlers \ {h} : task'[g] = task[g]
      /\ \/ task'[h].next = "idle"
         \/ /\ task[h].next # "idle" /\ task'[h].next # "guard"
            /\ task'[h].actor = task[h].actor /\ task'[h].role = task[h].role
            /\ task'[h].event = task[h].event
  BY MovesOn
<1>2. \A u, e : (Manages(u, e) => Manages(u, e)')
                /\ (May(u, "event.read", e) => May(u, "event.read", e)')
  BY DEF Manages, May, Allow, Member
<1>3. Creators'
  <2>1. ASSUME NEW e \in EventIds, Exists(e)', event'[e].creator \notin removed
        PROVE  Manages(event[e].creator, e)'
    <3>1. CASE Exists(e) /\ event'[e].creator = event[e].creator
      <4>1. Manages(event[e].creator, e)
        BY <2>1, <3>1 DEF RightsInv, Creators
      <4> QED BY <3>1, <4>1 DEF Manages
    <3> QED BY <2>1, <3>1 DEF Exists
  <2>2. ASSUME NEW g \in Handlers, task'[g].next # "idle", task'[g].actor \notin removed
        PROVE  SameAccount(task[g])'
    BY <1>1, <2>2 DEF RightsInv, Creators, SameAccount
  <2> QED BY <2>1, <2>2 DEF Creators
<1>4. Rights'
  <2> SUFFICES ASSUME NEW g \in Handlers \ overtaken, task'[g].next # "idle", task'[g].event # Null
               PROVE  Entitled(task[g])'
    BY DEF Rights
  <2>1. CASE g # h
    <3>1. task'[g] = task[g] /\ Entitled(task[g])
      BY <1>1, <2>1 DEF RightsInv, Rights
    <3> QED BY <1>2, <3>1 DEF Entitled, SameAccount
  <2>2. CASE g = h
    <3>1. /\ task'[h].next # "guard" /\ task'[h].actor = task[h].actor
          /\ task'[h].event = task[h].event
          /\ May(task[h].actor, "event.read", task[h].event)
      BY <1>1, <2>2 DEF RightsInv, Rights, Entitled
    <3> QED BY <1>2, <2>2, <3>1 DEF Entitled
  <2> QED BY <2>1, <2>2
<1> QED BY <1>3, <1>4 DEF RightsInv

\* A request begins with the account as it is.
LEMMA RequestRights ==
    ASSUME Typed, RightsInv, NEW h \in Handlers, Requests(h) PROVE RightsInv'
<1>1. PICK u, r, e, v : u \in Users /\ Receive(h, u, r, e, v)
  BY DEF Requests
<1> DEFINE k == [NoTask EXCEPT !.next = "guard", !.request = r, !.actor = u,
                               !.role = account[u].role, !.event = e, !.value = v]
<1>2. k.next = "guard" /\ k.actor = u /\ k.role = account[u].role
  BY DEF NoTask
<1>3. /\ task' = [task EXCEPT ![h] = k] /\ ~account[u].disabled
      /\ UNCHANGED <<account, event, admins, managers, removed>>
      /\ overtaken' = overtaken \ {h}
  BY <1>1 DEF Receive, team
<1> HIDE DEF k
<1>4. \A g \in Handlers : task'[g] = IF g = h THEN k ELSE task[g]
  BY <1>3 DEF Typed
<1>5. SameAccount(k)
  BY <1>2, <1>3 DEF SameAccount
<1>6. Creators'
  BY <1>3, <1>4, <1>5 DEF RightsInv, Creators, Manages, SameAccount, Exists
<1>7. Rights'
  <2> SUFFICES ASSUME NEW g \in Handlers \ overtaken', task'[g].next # "idle", task'[g].event # Null
               PROVE  Entitled(task[g])'
    BY DEF Rights
  <2>1. CASE g = h
    BY <1>2, <1>3, <1>4, <1>5, <2>1 DEF Entitled, SameAccount
  <2>2. CASE g # h
    <3>1. task'[g] = task[g] /\ Entitled(task[g])
      BY <1>3, <1>4, <2>2 DEF RightsInv, Rights
    <3> QED BY <1>3, <3>1 DEF Entitled, SameAccount, May, Allow, Member
  <2> QED BY <2>1, <2>2
<1> QED BY <1>6, <1>7 DEF RightsInv

\* The guard asks about the role that was read; it is the account's still.
LEMMA GuardRights ==
    ASSUME Typed, RightsInv, NEW h \in Handlers, Guard(h) PROVE RightsInv'
<1> DEFINE t == task[h]
<1>1. /\ t.next = "guard" /\ Asked(t)
      /\ UNCHANGED <<account, event, admins, managers, removed, overtaken>>
  BY DEF Typed, AtWork, Guard, Unchanged, team
<1>2. /\ \A g \in Handlers \ {h} : task'[g] = task[g]
      /\ \/ task'[h].next = "idle"
         \/ /\ task'[h].next = First(t.request) /\ task'[h].actor = t.actor
            /\ task'[h].role = t.role /\ task'[h].event = t.event
            /\ Allow(t.actor, t.role, ActionOf(t.request), t.event)
  BY NoTaskTyped DEF Guard, Answer, Typed, Task
<1>3. First(t.request) # "guard"
  BY DEF First
<1>4. Creators'
  BY <1>1, <1>2 DEF RightsInv, Creators, Manages, SameAccount, Exists
<1>5. Rights'
  <2> SUFFICES ASSUME NEW g \in Handlers \ overtaken, task'[g].next # "idle", task'[g].event # Null
               PROVE  Entitled(task[g])'
    BY <1>1 DEF Rights
  <2>1. CASE g = h
    <3>1. t.request # "create" /\ SameAccount(t) /\ t.event # Null
      BY <1>1, <1>2, <2>1 DEF RightsInv, Rights, Entitled, Asked
    <3>2. /\ Allow(t.actor, t.role, ActionOf(t.request), t.event)
          /\ task'[h].next # "guard" /\ task'[h].actor = t.actor /\ task'[h].event = t.event
      BY <1>2, <1>3, <2>1
    <3>3. t.role = "event_manager" => ActionOf(t.request) # "event.read"
      BY <1>1 DEF ActionOf, Asked, Known, Lifecycle, TeamRequests, Assignments
    <3>4. /\ t.role \in {"global_admin", "event_admin"}
          /\ t.role = "event_admin" => Member(t.actor, t.role, t.event)
      BY <1>1, <3>1, <3>2, <3>3 DEF Allow, Permissions, Asked, Roles
    <3>5. May(t.actor, "event.read", t.event)
      BY <3>1, <3>4 DEF May, Allow, Permissions, SameAccount
    <3> QED BY <1>1, <2>1, <3>2, <3>5 DEF Entitled, May, Allow, Member
  <2>2. CASE g # h
    <3>1. task'[g] = task[g] /\ Entitled(task[g])
      BY <1>2, <2>2 DEF RightsInv, Rights
    <3> QED BY <1>1, <3>1 DEF Entitled, SameAccount, May, Allow, Member
  <2> QED BY <2>1, <2>2
<1> QED BY <1>4, <1>5 DEF RightsInv

\* Whoever is taken off a team is remembered, and their requests are overtaken.
LEMMA UnassignRights ==
    ASSUME Typed, RightsInv, NEW h \in Handlers, Unassign(h) PROVE RightsInv'
<1> DEFINE t == task[h]
<1>1. /\ UNCHANGED <<account, event>> /\ removed' = removed \cup {t.value}
      /\ \/ admins' = admins \ {<<t.value, t.event>>} /\ managers' = managers
         \/ managers' = managers \ {<<t.value, t.event>>} /\ admins' = admins
      /\ overtaken' = overtaken \cup {g \in Handlers \ {h} : Loses(task[g])}
  BY DEF Unassign, Row, Overtake
<1>2. \A g \in Handlers : task'[g] = IF g = h THEN NoTask ELSE task[g]
  BY DEF Unassign, Answer, Typed
<1>3. Creators'
  <2>1. ASSUME NEW e \in EventIds, Exists(e), event[e].creator \notin removed'
        PROVE  Manages(event[e].creator, e)'
    BY <1>1, <2>1 DEF RightsInv, Creators, Manages
  <2>2. ASSUME NEW g \in Handlers, task'[g].next # "idle", task'[g].actor \notin removed'
        PROVE  SameAccount(task[g])'
    BY <1>1, <1>2, <2>2, NoTaskTyped DEF RightsInv, Creators, SameAccount
  <2> QED BY <1>1, <2>1, <2>2 DEF Creators, Exists
<1>4. Rights'
  <2> SUFFICES ASSUME NEW g \in Handlers \ overtaken', task'[g].next # "idle", task'[g].event # Null
               PROVE  Entitled(task[g])'
    BY DEF Rights
  <2>1. task'[g] = task[g] /\ g # h /\ Entitled(task[g])
    BY <1>1, <1>2, NoTaskTyped DEF RightsInv, Rights
  <2>2. ~Loses(task[g])
    BY <1>1, <2>1
  <2>3. task[g].next # "guard" => May(task[g].actor, "event.read", task[g].event)'
    BY <2>1, <2>2 DEF Entitled, Loses
  <2> QED BY <1>1, <2>1, <2>3 DEF Entitled, SameAccount
<1> QED BY <1>3, <1>4 DEF RightsInv

\* A changed account is remembered, and its requests are overtaken.
LEMMA AccountRights ==
    ASSUME Typed, RightsInv, NEW u \in Users, NEW row, ChangeAccount(u, row) PROVE RightsInv'
<1>1. /\ account' = [account EXCEPT ![u] = row] /\ removed' = removed \cup {u}
      /\ UNCHANGED <<event, admins, managers, task>>
      /\ overtaken' = overtaken \cup {g \in Handlers : Loses(task[g])}
  <2>1. Handlers \ {Null} = Handlers
    BY NullAssumption
  <2> QED BY <2>1 DEF ChangeAccount, Overtake, team
<1>2. \A v \in Users \ {u} : account'[v] = account[v]
  BY <1>1 DEF Typed, Tables
<1>3. Creators'
  <2>1. ASSUME NEW e \in EventIds, Exists(e), event[e].creator \notin removed'
        PROVE  Manages(event[e].creator, e)'
    <3>1. event[e].creator \in Users \ {u}
      BY <1>1, <2>1 DEF Typed, Tables, EventType, Exists
    <3> QED BY <1>1, <1>2, <2>1, <3>1 DEF RightsInv, Creators, Manages
  <2>2. ASSUME NEW g \in Handlers, task[g].next # "idle", task[g].actor \notin removed'
        PROVE  SameAccount(task[g])'
    <3>1. task[g].actor \in Users \ {u}
      BY <1>1, <2>2 DEF Typed, AtWork, Asked
    <3> QED BY <1>1, <1>2, <2>2, <3>1 DEF RightsInv, Creators, SameAccount
  <2> QED BY <1>1, <2>1, <2>2 DEF Creators, Exists
<1>4. Rights'
  <2> SUFFICES ASSUME NEW g \in Handlers \ overtaken', task[g].next # "idle", task[g].event # Null
               PROVE  Entitled(task[g])'
    BY <1>1 DEF Rights
  <2>1. Entitled(task[g]) /\ ~Loses(task[g])
    BY <1>1 DEF RightsInv, Rights
  <2>2. CASE task[g].next # "guard"
    <3>1. May(task[g].actor, "event.read", task[g].event)'
      BY <2>1, <2>2 DEF Entitled, Loses
    <3> QED BY <1>1, <2>2, <3>1 DEF Entitled
  <2>3. CASE task[g].next = "guard"
    <3>1. account'[task[g].actor] = account[task[g].actor] /\ SameAccount(task[g])
      BY <2>1, <2>3 DEF Entitled, Loses
    <3> QED BY <1>1, <2>3, <3>1 DEF Entitled, SameAccount
  <2> QED BY <2>2, <2>3
<1> QED BY <1>3, <1>4 DEF RightsInv

\* Whoever creates an event is put on its team, or needs no team.
LEMMA CreateRights ==
    ASSUME Typed, RightsInv, NEW h \in Handlers, Create(h) PROVE RightsInv'
<1> DEFINE t == task[h]
<1>1. /\ t.next = "insert" /\ t.role \in {"global_admin", "event_admin"}
      /\ Moves(h) /\ UNCHANGED <<account, managers, removed, overtaken>>
      /\ admins \subseteq admins'
  BY CreateKeeps DEF Create, Typed, AtWork, Asked, AtStatement, Roles
<1>2. ASSUME NEW e \in EventIds, event'[e] # Null
      PROVE  \/ Exists(e) /\ event'[e].creator = event[e].creator
             \/ event'[e].creator \notin removed => Manages(event[e].creator, e)'
  <2>1. CASE event' = event
    BY <1>2, <2>1 DEF Exists
  <2>2. ASSUME NEW f \in EventIds, ~Exists(f), NEW public,
               event' = [event EXCEPT ![f] = NewEvent(t.actor, t.value, public)],
               admins' = IF t.role = "global_admin" THEN admins ELSE admins \cup {<<t.actor, f>>}
        PROVE  \/ Exists(e) /\ event'[e].creator = event[e].creator
               \/ event'[e].creator \notin removed => Manages(event[e].creator, e)'
    <3>1. CASE e # f
      BY <1>2, <2>2, <3>1 DEF Typed, Tables, Exists
    <3>2. CASE e = f
      <4>1. event'[e].creator = t.actor
        BY <2>2, <3>2 DEF NewEvent, Typed, Tables
      <4>2. t.actor \notin removed => SameAccount(t)
        BY <1>1 DEF RightsInv, Creators
      <4> QED BY <1>1, <2>2, <3>2, <4>1, <4>2 DEF SameAccount, Manages
    <3> QED BY <3>1, <3>2
  <2> QED BY <2>1, <2>2 DEF Create
<1> QED BY <1>1, <1>2, RightsStay

LEMMA WorkRights ==
    ASSUME Typed, RightsInv, NEW h \in Handlers, Work(h) PROVE RightsInv'
<1> DEFINE t == task[h]
           Plain == \/ CheckSlug(h) \/ LoadForm(h) \/ SaveForm(h) \/ Archive(h) \/ Publish(h)
                    \/ Unpublish(h) \/ Upload(h) \/ CheckTarget(h) \/ Assign(h)
<1>1. CASE Plain
  <2>1. Moves(h)
    BY <1>1, FormKeeps, CreateKeeps, UploadKeeps, TeamKeeps
  <2>2. /\ t.next # "guard" /\ UNCHANGED <<account, removed, overtaken>>
        /\ admins \subseteq admins' /\ managers \subseteq managers'
    BY <1>1 DEF CheckSlug, LoadForm, SaveForm, Archive, Publish, Unpublish, Due, Write, Upload,
                ReadBanner, Put, SetBanner, SetBannerFails, DeleteNew, DeleteOld, Drop,
                CheckTarget, Assign, Unchanged, team
  <2>3. ASSUME NEW e \in EventIds, event'[e] # Null
        PROVE  Exists(e) /\ event'[e].creator = event[e].creator
    <3>1. CASE event' = event
      BY <2>3, <3>1 DEF Exists
    <3>2. CASE SaveForm(h) \/ Archive(h) \/ Publish(h) \/ Unpublish(h) \/ SetBanner(h)
                 \/ SetBannerFails(h)
      <4>1. /\ t.event \in EventIds /\ event[t.event] \in EventType
            /\ event \in [EventIds -> EventType \cup {Null}]
        BY <3>2, AtEvent DEF SaveForm, Archive, Publish, Unpublish, Due, SetBanner,
                             SetBannerFails, Uploading, Holding, Typed, Tables
      <4> QED BY <2>3, <3>1, <3>2, <4>1, NullAssumption
              DEF SaveForm, Archive, Publish, Unpublish, Write, SetBanner, SetBannerFails,
                  EventType, Exists
    <3> QED BY <1>1, <3>1, <3>2
          DEF CheckSlug, LoadForm, Upload, ReadBanner, Put, DeleteNew, DeleteOld, Drop,
              CheckTarget, Assign, Unchanged
  <2> HIDE DEF t
  <2> QED BY <2>1, <2>2, <2>3, RightsStay DEF t
<1> QED BY <1>1, RequestRights, GuardRights, CreateRights, UnassignRights DEF Work

\* A statement moves only the request it belongs to.
LEMMA WorkMovesOne ==
    ASSUME Typed, NEW h \in Handlers, Work(h), NEW g \in Handlers, task'[g] # task[g]
    PROVE  g = h
<1>1. task \in [Handlers -> Task]
  BY DEF Typed
<1>2. CASE Requests(h) \/ Guard(h) \/ Unassign(h) \/ Create(h)
  <2>1. CASE Requests(h) \/ Guard(h)
    BY <1>1, <2>1, Asking
  <2>3. CASE Unassign(h) \/ Create(h)
    BY <1>1, <2>3 DEF Answer, Unassign, Create
  <2> QED BY <1>2, <2>1, <2>3
<1>3. CASE Moves(h)
  BY <1>3, MovesOn
<1> QED BY <1>2, <1>3, FormKeeps, CreateKeeps, UploadKeeps, TeamKeeps DEF Work

LEMMA RightsStep == ASSUME Typed, RightsInv, [Next]_vars PROVE RightsInv'
<1>1. CASE UNCHANGED vars
  BY <1>1 DEF vars, team, RightsInv, Creators, Rights, Entitled, Manages, SameAccount, May,
              Allow, Member, Exists
<1> QED BY <1>1, WorkRights, AccountRights DEF Next

LEMMA InitRights == ASSUME Init PROVE RightsInv
<1>1. PICK p \in Plans : plan = p
  BY DEF Init
<1>2. /\ event = p.events /\ account = p.accounts /\ admins = p.admins
      /\ task = [h \in Handlers |-> NoTask]
  BY <1>1 DEF Init
<1>3. \A e \in EventIds : p.events[e] # Null =>
         LET creator == p.events[e].creator IN
         /\ ~p.accounts[creator].disabled
         /\ \/ p.accounts[creator].role = "global_admin"
            \/ p.accounts[creator].role = "event_admin" /\ <<creator, e>> \in p.admins
  BY PlansAssumption
<1>4. Creators
  BY <1>2, <1>3, NoTaskTyped DEF Creators, Manages, Exists
<1> QED BY <1>2, <1>4, NoTaskTyped DEF RightsInv, Rights

(***************************************************************************)
(* Who created an event may change it, and who is not overtaken has the    *)
(* right to read what they change.                                         *)
(***************************************************************************)
THEOREM RightsInvariance == Spec => [](Typed /\ RightsInv)
<1>1. Init => Typed /\ RightsInv
  BY InitTyped, InitRights
<1>2. Typed /\ RightsInv /\ [Next]_vars => (Typed /\ RightsInv)'
  BY NextKeeps, RightsStep
<1> QED BY <1>1, <1>2, PTL DEF Spec

(***************************************************************************)
(* Whoever created an event and has lost no right since may change it.     *)
(***************************************************************************)
THEOREM CreatorsManage == Spec => []CreatorManages
<1>1. Typed /\ RightsInv => CreatorManages
  BY NullAssumption
     DEF RightsInv, Creators, CreatorManages, Manages, May, Allow, Permissions, Member
<1> QED BY <1>1, RightsInvariance, PTL

(***************************************************************************)
(* An event and its team change only by who may read it, unless overtaken. *)
(***************************************************************************)
THEOREM OutsidersDoNothing == Spec => OutsidersChangeNothing
<1> DEFINE Allowed == \A h \in Handlers :
         /\ task[h] # task'[h] /\ task[h].event # Null /\ h \notin overtaken
         /\ event # event' \/ team # team'
         => May(task[h].actor, "event.read", task[h].event)
<1>1. ASSUME Typed, RightsInv, [Next]_vars, NEW h \in Handlers,
             task[h] # task'[h], task[h].event # Null, h \notin overtaken,
             event # event' \/ team # team'
      PROVE  May(task[h].actor, "event.read", task[h].event)
  <2>1. Work(h)
    <3>1. PICK g \in Handlers : Work(g)
      BY <1>1 DEF Next, ChangeAccount, vars
    <3>2. g = h
      BY <1>1, <3>1, WorkMovesOne
    <3> QED BY <3>1, <3>2
  <2>2. task[h].next \notin {"idle", "guard"}
    <3>1. ~Requests(h) /\ ~Guard(h)
      BY <1>1, Asking DEF team
    <3>2. CASE CheckSlug(h) \/ Create(h) \/ LoadForm(h) \/ SaveForm(h) \/ CheckTarget(h)
      BY <3>2 DEF CheckSlug, Create, LoadForm, SaveForm, CheckTarget
    <3>3. CASE Archive(h) \/ Publish(h) \/ Unpublish(h) \/ Assign(h) \/ Unassign(h)
      BY <3>3 DEF Archive, Publish, Unpublish, Assign, Unassign, Due
    <3>4. CASE Upload(h)
      BY <3>4 DEF Upload, ReadBanner, Put, SetBanner, SetBannerFails, DeleteNew, DeleteOld, Drop
    <3> QED BY <2>1, <3>1, <3>2, <3>3, <3>4 DEF Work
  <2> QED BY <1>1, <2>2 DEF RightsInv, Rights, Entitled
<1>2. Typed /\ RightsInv /\ [Next]_vars => [Allowed]_vars
  BY <1>1
<1> QED BY <1>2, RightsInvariance, PTL DEF Spec, OutsidersChangeNothing
=============================================================================
