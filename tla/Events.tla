------------------------------- MODULE Events -------------------------------
(***************************************************************************)
(* Events, their banners and their teams, by the staff (internal/events,   *)
(* internal/authz).                                                        *)
(*                                                                         *)
(* A request is admitted with the role the session's user had, passes the  *)
(* guard of its route with the team rows of that moment, and writes later; *)
(* nothing is locked.  The banner itself lies in an object store outside   *)
(* the database: an upload is a put, a write of events.banner_ref and a    *)
(* delete, any of which may fail.  Accounts change under it (module Staff). *)
(***************************************************************************)
EXTENDS Naturals, FiniteSets

CONSTANTS
    Users, Slugs, Null,
    EventIds,    \* bound: events ever created
    Keys,        \* bound: objects ever stored
    Forms,       \* contents of the edit form
    Handlers,    \* bound: requests at work at once
    Plans        \* accounts, events and objects a behaviour begins with, the
                 \* requests it knows and, a bound, how many come

VARIABLES
    plan, left,  \* left: requests and changes of an account still to come
    account,     \* users.role, disabled_at
    event,
    admins, managers,   \* event_admins and event_managers
    store,       \* keys of the objects stored
    used,        \* keys ever drawn
    task,
    unsure,      \* history: events whose banner_ref was written by a statement
                 \* that reported an error
    removed,     \* history: taken off a team, or demoted
    overtaken    \* history: handlers whose right was withdrawn, or whose account
                 \* changed before the guard

team == <<admins, managers>>
objects == <<store, used>>
vars == <<plan, left, account, event, team, objects, task, unsure, removed, overtaken>>

NoTask == [next |-> "idle", request |-> Null, actor |-> Null, role |-> Null, event |-> Null,
           value |-> Null, copy |-> Null]

Exists(e) == event[e] # Null

-----------------------------------------------------------------------------
(* Authorization.                                                          *)

\* rolePermissions, of the actions this module's routes ask for; a global_admin
\* may do everything.
Permissions ==
    [event_admin   |-> {"event.create", "event.read", "event.update", "event.archive",
                        "event.publish", "event.add_admin", "event.add_manager"},
     event_manager |-> {"event.read"}]

\* IsEventAdmin or IsEventManager: by the role, only one of the tables counts.
Member(u, role, e) ==
    <<u, e>> \in IF role = "event_admin" THEN admins ELSE managers

\* Allow, with the role and the state the session's user had when it was read.
Allow(u, role, action, e) ==
    \/ role = "global_admin"
    \/ /\ action \in Permissions[role]
       /\ e # Null => Member(u, role, e)

\* What u may do now.
May(u, action, e) ==
    ~account[u].disabled /\ Allow(u, account[u].role, action, e)

\* Mutant: of the managers' table nobody thought.
MListed(u) ==
    IF account[u].role = "global_admin" THEN {e \in EventIds : Exists(e)}
    ELSE {e \in EventIds : Exists(e) /\ <<u, e>> \in admins}

\* HandleList: for all but a global_admin, ListEventsForUser.
Listed(u) ==
    IF account[u].role = "global_admin" THEN {e \in EventIds : Exists(e)}
    ELSE {e \in EventIds : Exists(e) /\ <<u, e>> \in admins \cup managers}

ActionOf(request) ==
    CASE request = "create" -> "event.create"
      [] request \in {"form", "upload"} -> "event.update"
      [] request = "archive" -> "event.archive"
      [] request \in {"publish", "unpublish"} -> "event.publish"
      [] request \in {"assign_admin", "unassign_admin"} -> "event.add_admin"
      [] request \in {"assign_manager", "unassign_manager"} -> "event.add_manager"

-----------------------------------------------------------------------------
(* Requests.                                                               *)

\* The session's user is read: nobody disabled gets past the middleware.  value
\* is what the request carries: a slug, the user of a team, the contents of a form.
Receive(h, u, request, e, value) ==
    /\ task[h].next = "idle" /\ left > 0 /\ request \in plan.requests
    /\ ~account[u].disabled
    /\ e # Null => Exists(e)
    /\ task' = [task EXCEPT ![h] = [NoTask EXCEPT !.next = "guard",
                   !.request = request, !.actor = u, !.role = account[u].role,
                   !.event = e, !.value = value]]
    /\ left' = left - 1
    /\ overtaken' = overtaken \ {h}
    /\ UNCHANGED <<plan, account, event, team, objects, unsure, removed>>

Requests(h) ==
    \E u \in Users, e \in EventIds :
        \/ \E s \in Slugs : Receive(h, u, "create", Null, s)
        \/ \E f \in Forms : Receive(h, u, "form", e, f)
        \/ \E r \in {"upload", "archive", "publish", "unpublish"} : Receive(h, u, r, e, Null)
        \/ \E r \in {"assign_admin", "unassign_admin", "assign_manager", "unassign_manager"},
              v \in Users : Receive(h, u, r, e, v)

Answer(h) == task' = [task EXCEPT ![h] = NoTask]
Unchanged == UNCHANGED <<plan, left, account, event, team, objects, unsure, removed, overtaken>>

First(request) ==
    CASE request = "create" -> "check_slug"
      [] request = "form" -> "load"
      [] request = "upload" -> "read_banner"
      [] request \in {"assign_admin", "assign_manager"} -> "check_target"
      [] OTHER -> "write"

\* Mutant: the guard asks for the role's permission, not for the team.
MGuard(h) ==
    LET t == task[h] IN
    /\ t.next = "guard"
    /\ IF Allow(t.actor, t.role, ActionOf(t.request), Null)
       THEN task' = [task EXCEPT ![h].next = First(t.request)]
       ELSE Answer(h)
    /\ Unchanged

\* HTTPGuard: the team row is looked up with the role read before.
Guard(h) ==
    LET t == task[h] IN
    /\ t.next = "guard"
    /\ IF Allow(t.actor, t.role, ActionOf(t.request), t.event)
       THEN task' = [task EXCEPT ![h].next = First(t.request)]
       ELSE Answer(h)
    /\ Unchanged

\* Whoever loses a right to what their request at work is about, or is not yet
\* past the guard and no longer has the account they were admitted with.
Loses(t) ==
    /\ t.next # "idle" /\ t.event # Null
    /\ \/ May(t.actor, "event.read", t.event) /\ ~May(t.actor, "event.read", t.event)'
       \/ t.next = "guard" /\ account'[t.actor] # account[t.actor]
Overtake(h) ==
    overtaken' = overtaken \cup {g \in Handlers \ {h} : Loses(task[g])}

\* The event's row is written, and the request is answered.
Write(h, row) ==
    /\ event' = [event EXCEPT ![task[h].event] = row]
    /\ Answer(h)
    /\ UNCHANGED <<plan, left, account, team, objects, unsure, removed, overtaken>>

-----------------------------------------------------------------------------
(* Create, the form, the lifecycle.                                        *)

CheckSlug(h) ==
    /\ task[h].next = "check_slug"
    /\ IF \E e \in EventIds : Exists(e) /\ event[e].slug = task[h].value
       THEN Answer(h)
       ELSE task' = [task EXCEPT ![h].next = "insert"]
    /\ Unchanged

NewEvent(u, slug, public) ==
    [slug |-> slug, creator |-> u, public |-> public, archived |-> FALSE,
     form |-> "new", banner |-> Null]

\* events.slug is unique.
SlugFree(slug) == \A e \in EventIds : Exists(e) => event[e].slug # slug

\* Mutant: two statements, and the second is not reached.
MCreate(h) ==
    LET t == task[h] IN
    /\ t.next = "insert"
    /\ \E e \in {i \in EventIds : ~Exists(i)}, public \in BOOLEAN :
         event' = [event EXCEPT ![e] = NewEvent(t.actor, t.value, public)]
    /\ Answer(h)
    /\ UNCHANGED <<plan, left, account, team, objects, unsure, removed, overtaken>>

\* Mutant: the insert fails and the team row is not rolled back.
MCreateRow(h) ==
    LET t == task[h] IN
    /\ t.next = "insert"
    /\ \E e \in {i \in EventIds : ~Exists(i)} : admins' = admins \cup {<<t.actor, e>>}
    /\ Answer(h)
    /\ UNCHANGED <<plan, left, account, event, managers, objects, unsure, removed, overtaken>>

\* The transaction of HandleCreate: the event, and its creator on the team unless
\* the session said global_admin.  A slug taken meanwhile fails it.
Create(h) ==
    LET t == task[h] IN
    /\ t.next = "insert"
    /\ \/ /\ ~SlugFree(t.value)
          /\ UNCHANGED <<event, admins>>
       \/ /\ SlugFree(t.value)
          /\ \E e \in {i \in EventIds : ~Exists(i)}, public \in BOOLEAN :
               /\ event' = [event EXCEPT ![e] = NewEvent(t.actor, t.value, public)]
               /\ admins' = IF t.role = "global_admin" THEN admins
                            ELSE admins \cup {<<t.actor, e>>}
    /\ Answer(h)
    /\ UNCHANGED <<plan, left, account, managers, objects, unsure, removed, overtaken>>

\* The form shows the event (HandleGet); it is saved whole, and later.
LoadForm(h) ==
    /\ task[h].next = "load"
    /\ task' = [task EXCEPT ![h].next = "save", ![h].copy = event[task[h].event]]
    /\ Unchanged

\* Mutant: the form also writes what it shows of the lifecycle.
MSaveForm(h) ==
    /\ task[h].next = "save"
    /\ Write(h, [task[h].copy EXCEPT !.form = task[h].value])

\* UpdateEvent: every column of the form, as the form has it, and no other.
SaveForm(h) ==
    /\ task[h].next = "save"
    /\ Write(h, [event[task[h].event] EXCEPT !.form = task[h].value])

Due(h, request) == task[h].next = "write" /\ task[h].request = request

\* ArchiveEvent, PublishEvent, UnpublishEvent.  Nothing takes an event out of the
\* archive.
Archive(h) ==
    /\ Due(h, "archive")
    /\ Write(h, [event[task[h].event] EXCEPT !.archived = TRUE])
Publish(h) ==
    /\ Due(h, "publish")
    /\ Write(h, [event[task[h].event] EXCEPT !.public = TRUE])
Unpublish(h) ==
    /\ Due(h, "unpublish")
    /\ Write(h, [event[task[h].event] EXCEPT !.public = FALSE])

-----------------------------------------------------------------------------
(* The banner.                                                             *)

ReadBanner(h) ==
    /\ task[h].next = "read_banner"
    /\ task' = [task EXCEPT ![h].next = "put", ![h].copy = event[task[h].event].banner]
    /\ Unchanged

\* The object store takes the banner under a new random key, or refuses it.
Put(h) ==
    /\ task[h].next = "put"
    /\ \/ \E k \in Keys \ used :
            /\ store' = store \cup {k} /\ used' = used \cup {k}
            /\ task' = [task EXCEPT ![h].next = "set", ![h].value = k]
       \/ Answer(h) /\ UNCHANGED objects
    /\ UNCHANGED <<plan, left, account, event, team, unsure, removed, overtaken>>

SetBanner(h) ==
    LET t == task[h] IN
    /\ t.next = "set"
    /\ event' = [event EXCEPT ![t.event].banner = t.value]
    /\ IF t.copy = Null THEN Answer(h) ELSE task' = [task EXCEPT ![h].next = "delete_old"]
    /\ UNCHANGED <<plan, left, account, team, objects, unsure, removed, overtaken>>

\* An error: the statement did nothing, or did it and the answer was lost.
SetBannerFails(h) ==
    LET t == task[h] IN
    /\ t.next = "set"
    /\ \/ UNCHANGED <<event, unsure>>
       \/ /\ event' = [event EXCEPT ![t.event].banner = t.value]
          /\ unsure' = unsure \cup {t.event}
    /\ task' = [task EXCEPT ![h].next = "delete_new"]
    /\ UNCHANGED <<plan, left, account, team, objects, removed, overtaken>>

\* Best effort, each.
Drop(h, next, k) ==
    /\ task[h].next = next
    /\ store' = store \ {k} \/ UNCHANGED store
    /\ Answer(h)
    /\ UNCHANGED <<plan, left, account, event, team, used, unsure, removed, overtaken>>
DeleteNew(h) == Drop(h, "delete_new", task[h].value)

\* Mutant: what is the event's banner now is deleted if it is not one's own.
MDeleteOld(h) ==
    LET now == IF task[h].event = Null THEN Null ELSE event[task[h].event].banner
    IN Drop(h, "delete_old", IF now = task[h].value THEN task[h].copy ELSE now)

\* What it was when the upload began.
DeleteOld(h) == Drop(h, "delete_old", task[h].copy)

\* HandleBannerStream finds the object.
Streams(e) == event[e].banner = Null \/ event[e].banner \in store

Upload(h) ==
    \/ ReadBanner(h) \/ Put(h) \/ SetBanner(h) \/ SetBannerFails(h)
    \/ DeleteNew(h) \/ DeleteOld(h)

-----------------------------------------------------------------------------
(* The team.                                                               *)

Eligible(v, request) ==
    /\ ~account[v].disabled
    /\ request = "assign_admin" => account[v].role # "event_manager"

\* The user is read before the row is written; a manager may have any role.
CheckTarget(h) ==
    LET t == task[h] IN
    /\ t.next = "check_target"
    /\ IF Eligible(t.value, t.request)
       THEN task' = [task EXCEPT ![h].next = "write"]
       ELSE Answer(h)
    /\ Unchanged

Row(h) == <<task[h].value, task[h].event>>

Assign(h) ==
    /\ \/ /\ Due(h, "assign_admin")
          /\ admins' = admins \cup {Row(h)} /\ UNCHANGED managers
       \/ /\ Due(h, "assign_manager")
          /\ managers' = managers \cup {Row(h)} /\ UNCHANGED admins
    /\ Answer(h)
    /\ UNCHANGED <<plan, left, account, event, objects, unsure, removed, overtaken>>
Unassign(h) ==
    /\ \/ /\ Due(h, "unassign_admin")
          /\ admins' = admins \ {Row(h)} /\ UNCHANGED managers
       \/ /\ Due(h, "unassign_manager")
          /\ managers' = managers \ {Row(h)} /\ UNCHANGED admins
    /\ removed' = removed \cup {task[h].value}
    /\ Answer(h)
    /\ UNCHANGED <<plan, left, account, event, objects, unsure>>
    /\ Overtake(h)

\* Module Staff: a role changes, an account is disabled or enabled.  The team
\* rows stay.
ChangeAccount(u, row) ==
    /\ "account" \in plan.requests /\ left > 0 /\ row # account[u]
    /\ account' = [account EXCEPT ![u] = row]
    /\ left' = left - 1
    /\ removed' = removed \cup {u}
    /\ UNCHANGED <<plan, event, team, objects, task, unsure>>
    /\ Overtake(Null)

-----------------------------------------------------------------------------
Init ==
    /\ plan \in Plans
    /\ left = plan.count
    /\ account = plan.accounts
    /\ event = plan.events
    /\ admins = plan.admins
    /\ managers = plan.managers
    /\ store = plan.objects
    /\ used = plan.objects
    /\ task = [h \in Handlers |-> NoTask]
    /\ unsure = {}
    /\ removed = {}
    /\ overtaken = {}

Work(h) ==
    \/ Requests(h) \/ Guard(h)
    \/ CheckSlug(h) \/ Create(h) \/ LoadForm(h) \/ SaveForm(h)
    \/ Archive(h) \/ Publish(h) \/ Unpublish(h)
    \/ Upload(h)
    \/ CheckTarget(h) \/ Assign(h) \/ Unassign(h)

Accounts == [role : {"global_admin", "event_admin", "event_manager"}, disabled : BOOLEAN]

Next ==
    \/ \E h \in Handlers : Work(h)
    \/ \E u \in Users, row \in Accounts : ChangeAccount(u, row)

Spec == Init /\ [][Next]_vars

-----------------------------------------------------------------------------
(* Properties.                                                             *)

EventType ==
    [slug : Slugs, creator : Users, public : BOOLEAN, archived : BOOLEAN,
     form : Forms \cup {"new"}, banner : Keys \cup {Null}]

\* No row, id or key is NULL.
ASSUME NullAssumption ==
    Null \notin EventIds \cup Keys \cup Handlers /\ Null \notin EventType

\* A behaviour begins with events that earlier ones can leave: their banners are
\* stored, each under its own key, and whoever created one may change it.
ASSUME PlansAssumption ==
    \A p \in Plans :
        /\ p.accounts \in [Users -> Accounts]
        /\ p.events \in [EventIds -> EventType \cup {Null}]
        /\ p.admins \cup p.managers \subseteq {r \in Users \X EventIds : p.events[r[2]] # Null}
        /\ p.objects \subseteq Keys
        /\ \A e \in EventIds : p.events[e] # Null =>
             LET was == p.events[e]
                 creator == p.accounts[was.creator]
             IN /\ was.banner \in p.objects \cup {Null}
                /\ \A f \in EventIds \ {e} :
                     p.events[f] # Null /\ p.events[f].banner = was.banner => was.banner = Null
                /\ ~creator.disabled
                /\ \/ creator.role = "global_admin"
                   \/ creator.role = "event_admin" /\ <<was.creator, e>> \in p.admins

\* Rows have their columns, teams are of events that exist (event_admins and
\* event_managers reference events), and an object is stored under a key once.
TypeOK ==
    /\ account \in [Users -> Accounts]
    /\ event \in [EventIds -> EventType \cup {Null}]
    /\ \A row \in admins \cup managers : row[1] \in Users /\ Exists(row[2])
    /\ store \subseteq used /\ used \subseteq Keys

\* The banner an event names is stored: uploads that overlap and uploads that
\* fail delete only what nobody names any more.  The exception is a write that
\* took effect although it reported an error (HandleBannerUpload deletes the new
\* object then).
BannerServable == \A e \in EventIds \ unsure : Exists(e) => Streams(e)

\* Who created an event may change it, as long as they were not taken off a team
\* and their account stayed as it was: no event is left that its creator may not
\* touch ("Creator is automatically assigned as event_admin").
CreatorManages ==
    \A e \in EventIds :
        Exists(e) /\ event[e].creator \notin removed => May(event[e].creator, "event.update", e)

\* Every event one may read is in one's list: the query of HandleList and the rule
\* of Allow agree, though the query asks both tables and the rule one by role.
ReadableIsListed ==
    \A u \in Users, e \in EventIds :
        Exists(e) /\ May(u, "event.read", e) => e \in Listed(u)

\* Saving a form that was opened long ago undoes no publishing, archiving or
\* banner (HandleUpdate: "is_public is changed via the dedicated endpoints"), and
\* nothing takes an event out of the archive.
FormSparesLifecycle ==
    [][\A e \in EventIds : Exists(e) =>
         LET was == event[e]
             is == event[e]'
         IN /\ was.archived => is.archived
            /\ was.form # is.form => /\ was.public = is.public
                                     /\ was.archived = is.archived
                                     /\ was.banner = is.banner
            /\ is.banner = Null => was.banner = Null]_vars

\* An event and its team are changed by those who may read it at that moment; the
\* exceptions are a request that had passed its guard when its right was withdrawn,
\* and one whose account changed between the middleware and the guard, which asks
\* about the role the middleware read.
OutsidersChangeNothing ==
    [][\A h \in Handlers :
         /\ task[h] # task'[h] /\ task[h].event # Null /\ h \notin overtaken
         /\ event # event' \/ team # team'
         => May(task[h].actor, "event.read", task[h].event)]_vars
=============================================================================
