-------------------------------- MODULE Access --------------------------------
(***************************************************************************)
(* Users, their rights and their projects: src/users/users.service.ts and  *)
(* src/projects/project-access.service.ts.  The calls of administrators    *)
(* take one statement at a time, none of them in a transaction, and the    *)
(* process restarts and seeds its administrator again.                     *)
(***************************************************************************)
EXTENDS Naturals, FiniteSets

CONSTANTS
  User,     \* users.username; a name is not used a second time
  Seed,     \* ADMIN_USERNAME
  Mail, NoMail,
  Project, Org,
  OrgOf,    \* the organization of a project
  Requests, \* the bodies of calls: rights, sso_assign and projects, << >> where one is left out
  Call,     \* calls at once
  MaxCalls  \* bound: calls on users

VARIABLES
  adminSso, \* ADMIN_SSO_ASSIGN
  up,       \* whether the process serves calls
  there, admin, mail, \* users
  orgs, projects,
  member,   \* project_members
  call,     \* a call: where it is, whom it is about, its body and the user it loaded
  calls,    \* calls so far
  ever,     \* names that were used
  wanted,   \* for the properties: the projects that the last call gave to a user,
  torn,     \* ... users whose projects two calls changed at once or one call only removed,
  clash     \* ... and whether two calls that take rights from two users were under way at once

vars == <<adminSso, up, there, admin, mail, orgs, projects, member, call, calls, ever, wanted,
          torn, clash>>

Nobody == [pc |-> "idle"]

Of(u)      == { p \in Project : <<u, p>> \in member }
HoldsMail(m) == { u \in there : mail[u] = m }
UnderWay   == { c \in Call : call[c].pc # "idle" }

-----------------------------------------------------------------------------
(* Who may see what                                                        *)

assertProjectAccess(u, p) == IF u \in admin THEN p \in projects ELSE <<u, p>> \in member

assertOrgAccess(u, o) == u \in admin \/ \E p \in Of(u) : OrgOf[p] = o

listAccessibleProjects(u) == IF u \in admin THEN projects ELSE Of(u)

listAccessibleOrganizations(u) ==
  IF u \in admin THEN orgs ELSE { OrgOf[p] : p \in listAccessibleProjects(u) }

\* Mutant: administrators are not offered.
MembersOnly(p) == { u \in there : <<u, p>> \in member }

listAssignableUsers(p) == { u \in there : <<u, p>> \in member } \cup admin

assertUserAssignableToProject(p, u) ==
  u \in there /\ (u \in admin \/ <<u, p>> \in member)

-----------------------------------------------------------------------------
(* Calls on users                                                          *)

Take(c, r)  == call' = [call EXCEPT ![c] = r]
Goto(c, to) == call' = [call EXCEPT ![c].pc = to]
Done(c)     == Take(c, Nobody)

\* Mutant: nobody is kept from it.
TakesNothing(by, u, op, dto) == FALSE

\* Nobody removes themselves or takes their own rights away.
TakesOwnRights(by, u, op, dto) == by = u /\ (op = "remove" \/ dto.admin = <<FALSE>>)

\* A call that may leave its user without rights.
MayTake(op, dto) == op = "remove" \/ (op = "update" /\ dto.admin # <<TRUE>>)

\* AdminGuard, and the checks that look at the call only.
StartCall(c) ==
  /\ up /\ call[c].pc = "idle" /\ calls < MaxCalls
  /\ \E by \in admin, u \in User, op \in {"create", "update", "remove"}, dto \in Requests :
       /\ op = "create" => u \notin ever
       /\ op # "create" => u \in there
       /\ op = "remove" => dto = CHOOSE r \in Requests : TRUE
       /\ ~TakesOwnRights(by, u, op, dto)
       /\ Take(c, [pc |-> "find", op |-> op, who |-> u, dto |-> dto,
                   ent |-> [admin |-> dto.admin = <<TRUE>>, mail |-> NoMail]])
       /\ clash' = (clash \/ (MayTake(op, dto) /\ \E d \in UnderWay :
                      call[d].who # u /\ MayTake(call[d].op, call[d].dto)))
  /\ calls' = calls + 1
  /\ UNCHANGED <<adminSso, up, there, admin, mail, orgs, projects, member, ever, wanted, torn>>

\* The name must be free for a new user, the user be there for the others.
FindUser(c) ==
  LET k == call[c] IN
    /\ k.pc = "find"
    /\ CASE k.op = "create" /\ k.who \notin there -> Goto(c, "mail")
         [] k.op = "update" /\ k.who \in there ->
              Take(c, [k EXCEPT !.pc = "mail", !.ent =
                [admin |-> IF k.dto.admin = << >> THEN k.who \in admin ELSE k.dto.admin[1],
                 mail  |-> mail[k.who]]])
         [] k.op = "remove" /\ k.who \in there -> Goto(c, "remove")
         [] OTHER -> Done(c)
    /\ UNCHANGED <<adminSso, up, there, admin, mail, orgs, projects, member, calls, ever, wanted,
                   torn, clash>>

\* assertSsoAssignAvailable
CheckMail(c) ==
  LET k == call[c] IN
    /\ k.pc = "mail"
    /\ IF k.dto.mail = << >> THEN Goto(c, "save")
       ELSE IF k.dto.mail[1] # NoMail /\ HoldsMail(k.dto.mail[1]) \ {k.who} # {} THEN Done(c)
       ELSE Take(c, [k EXCEPT !.pc = "save", !.ent.mail = k.dto.mail[1]])
    /\ UNCHANGED <<adminSso, up, there, admin, mail, orgs, projects, member, calls, ever, wanted,
                   torn, clash>>

\* save writes what differs from the row, and inserts a row that is gone; a
\* second user of the name or holder of the address breaks a unique index.
SaveUser(c) ==
  LET k == call[c] IN
    /\ k.pc = "save"
    /\ IF \/ k.op = "create" /\ k.who \in ever
          \/ k.ent.mail # NoMail /\ HoldsMail(k.ent.mail) \ {k.who} # {}
       THEN Done(c) /\ UNCHANGED <<there, admin, mail, ever>>
       ELSE /\ there' = there \cup {k.who}
            /\ ever' = ever \cup {k.who}
            /\ admin' = IF k.ent.admin THEN admin \cup {k.who} ELSE admin \ {k.who}
            /\ mail' = [mail EXCEPT ![k.who] = k.ent.mail]
            /\ IF k.dto.projects = << >> \/ (k.op = "create" /\ k.dto.projects = <<{}>>)
               THEN Done(c)
               ELSE Goto(c, "projects")
    /\ UNCHANGED <<adminSso, up, orgs, projects, member, calls, wanted, torn, clash>>

\* setProjectAssignments: all of the projects must be there,
FindProjects(c) ==
  LET k == call[c] IN
    /\ k.pc = "projects"
    /\ IF k.dto.projects[1] \subseteq projects THEN Goto(c, "delete") ELSE Done(c)
    /\ UNCHANGED <<adminSso, up, there, admin, mail, orgs, projects, member, calls, ever, wanted,
                   torn, clash>>

\* Mutant: nothing is deleted.
DeleteNothing(c) ==
  LET k == call[c] IN
    /\ k.pc = "delete"
    /\ wanted' = [wanted EXCEPT ![k.who] = k.dto.projects[1]]
    /\ IF k.dto.projects[1] = {} THEN Done(c) ELSE Goto(c, "assign")
    /\ UNCHANGED <<adminSso, up, there, admin, mail, orgs, projects, member, calls, ever, torn, clash>>

\* Another call is between its two statements on the projects of a user.
AssignsToo(c, u) == \E d \in UnderWay \ {c} : call[d].who = u /\ call[d].pc = "assign"

\* ... the old assignments are deleted,
DeleteMembers(c) ==
  LET k == call[c] IN
    /\ k.pc = "delete"
    /\ member' = member \ ({k.who} \X Project)
    /\ wanted' = [wanted EXCEPT ![k.who] = k.dto.projects[1]]
    /\ torn' = IF AssignsToo(c, k.who) THEN torn \cup {k.who} ELSE torn \ {k.who}
    /\ IF k.dto.projects[1] = {} THEN Done(c) ELSE Goto(c, "assign")
    /\ UNCHANGED <<adminSso, up, there, admin, mail, orgs, projects, calls, ever, clash>>

\* ... and the new ones inserted in one transaction, which fails on a user or
\* project that is gone, and on an assignment that another call has made.
SaveMembers(c) ==
  LET k   == call[c]
      new == {k.who} \X k.dto.projects[1]
  IN
    /\ k.pc = "assign"
    /\ IF k.who \in there /\ k.dto.projects[1] \subseteq projects /\ new \cap member = {}
       THEN member' = member \cup new /\ UNCHANGED torn
       ELSE torn' = torn \cup {k.who} /\ UNCHANGED member
    /\ Done(c)
    /\ UNCHANGED <<adminSso, up, there, admin, mail, orgs, projects, calls, ever, wanted, clash>>

\* A user who is removed may be inserted again by a call that had found them.
RemoveUser(c) ==
  LET k == call[c] IN
    /\ k.pc = "remove"
    /\ there' = there \ {k.who}
    /\ admin' = admin \ {k.who}
    /\ mail' = [mail EXCEPT ![k.who] = NoMail]
    /\ member' = member \ ({k.who} \X Project)
    /\ wanted' = [wanted EXCEPT ![k.who] = {}]
    /\ torn' = IF AssignsToo(c, k.who) THEN torn \cup {k.who} ELSE torn
    /\ Done(c)
    /\ UNCHANGED <<adminSso, up, orgs, projects, calls, ever, clash>>

-----------------------------------------------------------------------------
(* Projects and organizations, which take what is below with them          *)

RemoveProjects(gone) ==
  /\ projects' = projects \ gone
  /\ member' = member \ (User \X gone)
  /\ wanted' = [u \in User |-> wanted[u] \ gone]
  /\ UNCHANGED <<adminSso, up, there, admin, mail, call, calls, ever, torn, clash>>

RemoveProject(p) ==
  /\ up /\ admin # {} /\ p \in projects
  /\ RemoveProjects({p})
  /\ UNCHANGED orgs

RemoveOrganization(o) ==
  /\ up /\ admin # {} /\ o \in orgs
  /\ orgs' = orgs \ {o}
  /\ RemoveProjects({ p \in Project : OrgOf[p] = o })

-----------------------------------------------------------------------------
(* Starting                                                                *)

\* Mutant: a user of that name is left as it is.
SeedIfMissing ==
  IF Seed \in there
  THEN up' = TRUE /\ UNCHANGED <<there, admin, mail>>
  ELSE IF adminSso # NoMail /\ HoldsMail(adminSso) # {}
  THEN up' = TRUE /\ admin' = admin \cup HoldsMail(adminSso) /\ UNCHANGED <<there, mail>>
  ELSE /\ up' = TRUE
       /\ there' = there \cup {Seed}
       /\ admin' = admin \cup {Seed}
       /\ mail' = [mail EXCEPT ![Seed] = adminSso]

\* The user of that name is made an administrator, or the one who holds the
\* address, or a new one; an address that the first lacks and another holds
\* ends the start before anything is saved.
seedAdminUser ==
  IF Seed \in there
  THEN LET lacks == adminSso # NoMail /\ mail[Seed] = NoMail IN
         IF lacks /\ HoldsMail(adminSso) # {}
         THEN up' = FALSE /\ UNCHANGED <<there, admin, mail>>
         ELSE /\ up' = TRUE
              /\ admin' = admin \cup {Seed}
              /\ mail' = IF lacks THEN [mail EXCEPT ![Seed] = adminSso] ELSE mail
              /\ UNCHANGED there
  ELSE IF adminSso # NoMail /\ HoldsMail(adminSso) # {}
  THEN up' = TRUE /\ admin' = admin \cup HoldsMail(adminSso) /\ UNCHANGED <<there, mail>>
  ELSE /\ up' = TRUE
       /\ there' = there \cup {Seed}
       /\ admin' = admin \cup {Seed}
       /\ mail' = [mail EXCEPT ![Seed] = adminSso]

\* The process stops and starts again.
Restart ==
  /\ torn' = torn \cup { call[c].who : c \in { d \in UnderWay : call[d].pc = "assign" } }
  /\ call' = [c \in Call |-> Nobody]
  /\ seedAdminUser
  /\ ever' = ever \cup there'
  /\ clash' = (clash /\ ~up')
  /\ UNCHANGED <<adminSso, orgs, projects, member, calls, wanted>>

\* The first start, after which the administrator has created the others.
Init ==
  /\ adminSso \in Mail \cup {NoMail}
  /\ up = TRUE
  /\ \E others \in SUBSET (User \ {Seed}) :
       /\ Cardinality(others) <= 1
       /\ there = {Seed} \cup others
       /\ admin = there
  /\ mail = [u \in User |-> IF u = Seed THEN adminSso ELSE NoMail]
  /\ orgs = Org /\ projects = Project
  /\ member = {}
  /\ call = [c \in Call |-> Nobody]
  /\ calls = 0
  /\ ever = there
  /\ wanted = [u \in User |-> {}]
  /\ torn = {} /\ clash = FALSE

Next ==
  \/ \E c \in Call : StartCall(c) \/ FindUser(c) \/ CheckMail(c) \/ SaveUser(c) \/ FindProjects(c)
       \/ DeleteMembers(c) \/ SaveMembers(c) \/ RemoveUser(c)
  \/ \E p \in Project : RemoveProject(p)
  \/ \E o \in Org : RemoveOrganization(o)
  \/ Restart

Spec == Init /\ [][Next]_vars
-----------------------------------------------------------------------------
(* Properties                                                              *)

\* There is always an administrator, unless two calls took rights from two
\* users at once, and then a start brings one back.
AdminRemains == up /\ admin = {} => clash

\* When no call is under way, a user has the projects of the last call that
\* assigned any, unless two did so at once or the second of the two statements
\* failed.
AssignedAsWanted ==
  \A u \in there \ torn :
    (\A c \in UnderWay : call[c].who # u) => Of(u) = wanted[u]

\* The checks agree with the lists: a project is listed to those who may open
\* it, who are the ones that a task of it may be given to and who are offered
\* for it; and an organization to those who may open it.
AccessAgrees ==
  /\ admin \subseteq there
  /\ \A u \in there, p \in projects :
       /\ assertProjectAccess(u, p) <=> p \in listAccessibleProjects(u)
       /\ assertProjectAccess(u, p) <=> u \in listAssignableUsers(p)
       /\ assertProjectAccess(u, p) <=> assertUserAssignableToProject(p, u)
  /\ \A u \in there, o \in orgs : assertOrgAccess(u, o) <=> o \in listAccessibleOrganizations(u)
=============================================================================
