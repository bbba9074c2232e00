---------------------------- MODULE AccessControl ----------------------------
(***************************************************************************)
(* The roles of users: the rows of users, groups, organizations and        *)
(* clients that administrators edit, alone or in batches; logins, which    *)
(* create the user and the organization they do not find, save the user in *)
(* a goroutine that outlives the request, and meanwhile collect the roles  *)
(* the user inherits for its token; and impersonation.                     *)
(*                                                                         *)
(* Every query is a step of its own, and every update of a row is a read   *)
(* of the whole row, a change in memory and a write of the whole row.  A   *)
(* row has an identity and an email and lists roles, groups and            *)
(* organizations; its other fields are left out, and the names of groups   *)
(* and organizations are not edited.  The configuration, which tells who   *)
(* is administrator, is replaced while requests are under way.  The        *)
(* goroutines of a batch are edits in requests of their own; its limit of  *)
(* 10 permits is not reached.                                              *)
(***************************************************************************)
EXTENDS Naturals, FiniteSets

CONSTANTS
  Users, Groups, Organizations, Clients,   \* ids of rows, used or not
  Roles, Administrator,
  Emails,          \* identities that log in, each named by its email
  Configurations,  \* what config.Auth.Administrators may be
  Names,           \* organizations whose providers they log in with
  Requests,        \* slots for concurrent requests and batch goroutines
  None,
  ChangeBound,     \* bound on edits, deletions and creations by administrators
  ReloadBound      \* bound on replacements of the configuration

VARIABLES
  row,             \* row[e]: its active column, identity or name, email, what it lists
  req,             \* req[r]: a request, with its copy of a row
  save,            \* save[r]: the AsyncUpdateUser goroutine of r's last login
  administrators,  \* config.Auth.Administrators
  reloads,         \* history: replacements of the configuration so far
  changes,         \* history: edits, deletions and creations so far
  raced,           \* history: identities created by two at a time or by administrators
  outdated         \* history: users whose role is that of a former configuration

config == <<administrators, reloads>>
vars   == <<row, req, save, changes, raced, outdated, config>>

ASSUME AccessAssumption ==
  /\ Administrator \in Roles
  /\ Users \cap (Groups \cup Organizations \cup Clients) = {}
  /\ Groups \cap (Organizations \cup Clients) = {}
  /\ Organizations \cap Clients = {}
  /\ Roles \cap (Groups \cup Organizations) = {}
ASSUME ConfigurationAssumption == Configurations \subseteq SUBSET Emails
ASSUME BoundAssumption == ChangeBound \in Nat /\ ReloadBound \in Nat

Ledger == INSTANCE AccessLedger

Entities == Users \cup Groups \cup Organizations \cup Clients
Grants   == SUBSET (Roles \cup Groups \cup Organizations)
Linked   == Groups \cup Organizations
Tokens   == {"collect", "check", "failed"}
LogsIn   == {"create", "organization", "createOrganization"} \cup Tokens
Edits    == {"edit", "write", "delete"}

Owners  == Emails \cup Names \cup {None}

Row     == [state : {"absent", "active", "deleted"}, who : Owners, email : Emails \cup {None}, grants : Grants]
Content == [who : Owners, email : Emails \cup {None}, grants : Grants]
Request == [at : {"idle"} \cup LogsIn \cup Edits,
            entity : Entities \cup {None},   \* the row read or created
            who : Owners,                    \* who logs in, or whose row the copy is
            email : Emails \cup {None},
            name : Names \cup {None},        \* with which organization
            base : Content, mine : Grants,   \* the row as read, and as changed
            current : BOOLEAN,               \* history: its role is as configured now
            todo : SUBSET Linked,            \* rows whose roles are still to be read
            got : SUBSET Roles,
            err : BOOLEAN,                   \* the err the login shares with its goroutine
            calm : BOOLEAN]                  \* history: no group or organization was written meanwhile
Save    == [at : {"none", "check", "write"}, user : Users \cup {None}, who : Emails \cup {None},
            base : Content, grants : Grants, current : BOOLEAN]

Nothing == [who |-> None, email |-> None, grants |-> {}]
Idle    == [at |-> "idle", entity |-> None, who |-> None, email |-> None, name |-> None, base |-> Nothing,
            mine |-> {}, current |-> FALSE, todo |-> {}, got |-> {}, err |-> FALSE, calm |-> TRUE]
NoSave  == [at |-> "none", user |-> None, who |-> None, base |-> Nothing, grants |-> {}, current |-> FALSE]

TypeOK ==
  /\ row \in [Entities -> Row]
  /\ req \in [Requests -> Request]
  /\ save \in [Requests -> Save]
  /\ administrators \in Configurations
  /\ changes \in Nat /\ reloads \in Nat
  /\ raced \subseteq Owners /\ outdated \subseteq Users

Active(e)   == row[e].state = "active"
Contents(e) == [who |-> row[e].who, email |-> row[e].email, grants |-> row[e].grants]

(* Some organizations with roles exist, some groups that list them, and some *)
(* clients; users are created by the requests.                               *)
Present(who, email, grants) == [state |-> "active", who |-> who, email |-> email, grants |-> grants]

Init ==
  /\ \E there \in SUBSET (Linked \cup Clients), named \in [Organizations -> Names] :
       row = [e \in Entities |->
                IF e \notin there THEN Ledger!Absent
                ELSE IF e \in Organizations THEN Present(named[e], None, Roles \ {Administrator})
                ELSE Present(None, None, IF e \in Groups THEN there \cap Organizations ELSE {})]
  /\ req = [r \in Requests |-> Idle]
  /\ save = [r \in Requests |-> NoSave]
  /\ administrators \in Configurations
  /\ changes = 0 /\ reloads = 0
  /\ raced = {} /\ outdated = {}

-----------------------------------------------------------------------------
(* The configuration is replaced: a user keeps its role until its row is     *)
(* written again, and so does a copy until UpdateUser checks it.             *)
Reload(configured) ==
  /\ reloads < ReloadBound
  /\ configured # administrators
  /\ administrators' = configured
  /\ reloads' = reloads + 1
  /\ outdated' = {u \in Users : row[u].state # "absent"}
  /\ req' = [r \in Requests |-> [req[r] EXCEPT !.current = FALSE]]
  /\ save' = [r \in Requests |-> [save[r] EXCEPT !.current = FALSE]]
  /\ UNCHANGED <<row, changes, raced>>

(* UPDATE: the whole row, whatever has become of it since it was read.      *)
Put(e, state, copy, current) ==
  /\ row' = [row EXCEPT ![e] =
       [state |-> state, who |-> copy.who, email |-> copy.email, grants |-> copy.grants]]
  /\ outdated' = IF current THEN outdated \ {e} ELSE outdated \cup ({e} \cap Users)

-----------------------------------------------------------------------------
(* HandleOAuthLoginProviderAuthenticator                                     *)

(* Faulty variant: the role is given and never taken.                       *)
AddedOnly(email, grants) == IF email \in administrators THEN grants \cup {Administrator} ELSE grants
AsConfigured(email, grants) == Ledger!AsConfigured(email, grants)

(* Answers to queries of active users by identity and organizations by name. *)
FoundUser(u, who) == Active(u) /\ row[u].who = who
(* Faulty variant: any failing query for the user is taken as not found.    *)
NoAnswer(who) == TRUE
NoUser(who) == \A u \in Users : ~FoundUser(u, who)
FoundOrganization(o, name) == Active(o) /\ row[o].who = name

(* Whoever collects roles while e is written may see it or not.              *)
Disturbed(e, reqs) ==
  IF e \in Linked THEN [r \in Requests |-> [reqs[r] EXCEPT !.calm = @ /\ reqs[r].at \notin Tokens]]
                  ELSE reqs

Collecting(mine) ==
  [Idle EXCEPT !.at = "collect", !.mine = mine, !.todo = mine \cap Linked, !.got = mine \cap Roles]

(* The goroutine is given a copy of the user, with the email of the identity  *)
(* that logs in, and the login goes on to collect roles with its own.         *)
Copied(q, mine) ==
  [NoSave EXCEPT !.at = "check", !.user = q.entity, !.who = q.who, !.base = q.base, !.grants = mine]

Proceed(r, mine) ==
  /\ save' = [save EXCEPT ![r] = Copied(req[r], mine)]
  /\ req' = [req EXCEPT ![r] = Collecting(mine)]

(* A slot is used again once its goroutine has ended.                        *)
Free(r) == req[r] = Idle /\ save[r] = NoSave

(* GetUserByIdentity: one of the active users with the identity, if any.  A  *)
(* failing query refuses the login.                                          *)
LoginRead(r, who, name) ==
  /\ Free(r)
  /\ \/ \E u \in Users :
          /\ FoundUser(u, who)
          /\ req' = [req EXCEPT ![r] =
               [Idle EXCEPT !.at = "organization", !.entity = u, !.who = who, !.name = name,
                            !.base = Contents(u), !.mine = AsConfigured(row[u].email, row[u].grants)]]
          /\ UNCHANGED raced
     \/ /\ NoUser(who)
        /\ req' = [req EXCEPT ![r] = [Idle EXCEPT !.at = "create", !.who = who, !.name = name]]
        /\ raced' = IF \E s \in Requests : req[s].at = "create" /\ req[s].who = who
                    THEN raced \cup {who} ELSE raced
  /\ UNCHANGED <<row, save, changes, outdated, config>>

(* INSERT: the database chooses an id.                                       *)
Insert(e, who, email, grants) ==
  /\ row[e] = Ledger!Absent
  /\ row' = [row EXCEPT ![e] = Present(who, email, grants)]

CreateUserFromIdentity(u, who) == Insert(u, who, who, AsConfigured(who, {}))

LoginCreate(r) ==
  /\ req[r].at = "create"
  /\ \E u \in Users :
       /\ CreateUserFromIdentity(u, req[r].who)
       /\ req' = [req EXCEPT ![r] =
            [@ EXCEPT !.at = "organization", !.entity = u, !.base = Contents(u)', !.mine = row'[u].grants]]
  /\ UNCHANGED <<save, changes, raced, outdated, config>>

(* The user is linked to the organization it logs in with, unless a link of  *)
(* that name is there, if only to a deleted one.                             *)
IsLinked(q) == q.name = None \/ \E o \in q.mine \cap Organizations : row[o].who = q.name

FindOrganization(r) ==
  /\ req[r].at = "organization"
  /\ \/ IsLinked(req[r]) /\ Proceed(r, req[r].mine)
     \/ /\ ~IsLinked(req[r])
        /\ \E o \in Organizations :
             FoundOrganization(o, req[r].name) /\ Proceed(r, req[r].mine \cup {o})
     \/ /\ ~IsLinked(req[r])
        /\ \A o \in Organizations : ~FoundOrganization(o, req[r].name)
        /\ req' = [req EXCEPT ![r] = [@ EXCEPT !.at = "createOrganization"]]
        /\ UNCHANGED save
  /\ UNCHANGED <<row, changes, raced, outdated, config>>

CreateForLogin(r) ==
  /\ req[r].at = "createOrganization"
  /\ \E o \in Organizations :
       /\ Insert(o, req[r].name, None, {})
       /\ Proceed(r, req[r].mine \cup {o})
  /\ UNCHANGED <<changes, raced, outdated, config>>

(* A failing query or insert refuses the login; an insert may have happened. *)
LoginFails(r) ==
  /\ req[r].at \in {"create", "organization", "createOrganization"}
  /\ \/ UNCHANGED row
     \/ req[r].at = "create" /\ \E u \in Users : CreateUserFromIdentity(u, req[r].who)
     \/ req[r].at = "createOrganization" /\ \E o \in Organizations : Insert(o, req[r].name, None, {})
  /\ req' = [req EXCEPT ![r] = Idle]
  /\ UNCHANGED <<save, changes, raced, outdated, config>>

(* GetInheritedRolesForUser reads the groups and organizations of the copy,  *)
(* and the organizations of the groups.                                      *)
(* Faulty variant: not those of the groups.                                 *)
RestDirect(todo, e) == todo \ {e}
Rest(todo, e) == (todo \ {e}) \cup (row[e].grants \cap Organizations)

CollectedFrom(q, e) ==
  [q EXCEPT !.todo = Rest(q.todo, e), !.got = q.got \cup (row[e].grants \cap Roles)]

CollectRoles(r) ==
  /\ req[r].at = "collect"
  /\ \E e \in req[r].todo :
       Active(e) /\ req' = [req EXCEPT ![r] = CollectedFrom(@, e)]
  /\ UNCHANGED <<row, save, changes, raced, outdated, config>>

(* A deleted group or organization, or a failing query, ends it with no role. *)
Uncollected == [Idle EXCEPT !.at = "failed", !.err = TRUE]

CollectFails(r) ==
  /\ req[r].at = "collect" /\ req[r].todo # {}
  /\ req' = [req EXCEPT ![r] = Uncollected]
  /\ UNCHANGED <<row, save, changes, raced, outdated, config>>

Collected(r) ==
  /\ req[r].at = "collect" /\ req[r].todo = {}
  /\ req' = [req EXCEPT ![r] = [@ EXCEPT !.at = "check", !.err = FALSE]]
  /\ UNCHANGED <<row, save, changes, raced, outdated, config>>

(* A token with the roles, or a refusal if err is set by now: the goroutine  *)
(* may have assigned it as well.                                             *)
Answer(r) ==
  /\ req[r].at \in {"check", "failed"}
  /\ req' = [req EXCEPT ![r] = Idle]
  /\ UNCHANGED <<row, save, changes, raced, outdated, config>>

(* HandleImpersonateAuthenticator collects the roles of the row as it is.    *)
Impersonate(r, u) ==
  /\ Free(r) /\ Active(u)
  /\ req' = [req EXCEPT ![r] = Collecting(row[u].grants)]
  /\ UNCHANGED <<row, save, changes, raced, outdated, config>>

-----------------------------------------------------------------------------
(* The goroutine of a login: UpdateUser with the copy it was given           *)

SetErr(r, e) ==
  req' = IF req[r].at \in Tokens
         THEN [req EXCEPT ![r] = [@ EXCEPT !.err = e]] ELSE req

SaveCheck(r) ==
  /\ save[r].at = "check"
  /\ Active(save[r].user)
  /\ save' = [save EXCEPT ![r] =
       [@ EXCEPT !.at = "write", !.current = TRUE, !.grants = AsConfigured(save[r].who, save[r].grants)]]
  /\ UNCHANGED <<row, req, changes, raced, outdated, config>>

(* UPDATE users: the whole user_data and not the active column.              *)
(* Faulty variant: the goroutine shares the user with the login.            *)
SavedShared(r) == [who |-> save[r].who, email |-> save[r].who, grants |-> save[r].grants \cup req[r].got]
Saved(r) == [who |-> save[r].who, email |-> save[r].who, grants |-> save[r].grants]

PutSave(r) ==
  /\ save[r].at = "write"
  /\ Put(save[r].user, row[save[r].user].state, Saved(r), save[r].current)

SaveWrite(r) ==
  /\ PutSave(r)
  /\ save' = [save EXCEPT ![r] = NoSave]
  /\ SetErr(r, FALSE)
  /\ UNCHANGED <<changes, raced, config>>

(* The user is gone or a query fails, the UPDATE with or without its effect. *)
SaveFails(r) ==
  /\ save[r].at # "none"
  /\ UNCHANGED <<row, outdated>> \/ PutSave(r)
  /\ save' = [save EXCEPT ![r] = NoSave]
  /\ SetErr(r, TRUE)
  /\ UNCHANGED <<changes, raced, config>>

-----------------------------------------------------------------------------
(* Edits by administrators                                                   *)

(* What the pages offer for a row: what is not deleted.                      *)
Offered(grantable) == {x \in grantable : x \in Linked => Active(x)}

(* A new row lists at most one thing here.                                   *)
Listed(grantable) == {{}} \cup {{x} : x \in Offered(grantable)}

Create(e, who, email, grants) ==
  /\ changes < ChangeBound
  /\ Insert(e, who, email, grants)
  /\ changes' = changes + 1
  /\ UNCHANGED <<req, save, outdated, config>>

CreateUser(u, who, email) ==
  /\ \E grants \in Listed(Roles \cup Linked) : Create(u, who, email, AsConfigured(email, grants))
  /\ raced' = raced \cup {who}

CreateGroup(g) ==
  /\ \E grants \in Listed(Roles \cup Organizations) : Create(g, None, None, grants)
  /\ UNCHANGED raced

CreateOrganization(o, name) ==
  /\ \E grants \in Listed(Roles) : Create(o, name, None, grants)
  /\ UNCHANGED raced

CreateClient(c) ==
  /\ \E grants \in Listed(Roles \cup Organizations) : Create(c, None, None, grants)
  /\ UNCHANGED raced

(* A page or a goroutine of a batch reads the row and changes its copy.      *)
Toggled(x, grants) == IF x \in grants THEN grants \ {x} ELSE grants \cup {x}

CopyOf(e) ==
  [Idle EXCEPT !.entity = e, !.who = row[e].who, !.email = row[e].email,
               !.base = Contents(e), !.mine = row[e].grants]

Read(r, e, copy) ==
  /\ changes < ChangeBound
  /\ Free(r) /\ Active(e)
  /\ req' = [req EXCEPT ![r] = copy]
  /\ changes' = changes + 1
  /\ UNCHANGED <<row, save, outdated, config>>

Edit(r, e, grantable) ==
  /\ \E x \in Offered(grantable) :
       Read(r, e, [CopyOf(e) EXCEPT !.at = "edit", !.mine = Toggled(x, row[e].grants)])
  /\ UNCHANGED raced

EditUser(r)         == \E u \in Users : Edit(r, u, Roles \cup Linked)
EditGroup(r)        == \E g \in Groups : Edit(r, g, Roles \cup Organizations)
EditOrganization(r) == \E o \in Organizations : Edit(r, o, Roles)
EditClient(r)       == \E c \in Clients : Edit(r, c, Roles \cup Organizations)

(* The page of a user also has its identities and its email.                 *)
EditIdentity(r) ==
  \E u \in Users, who \in Emails :
    /\ who # row[u].who
    /\ Read(r, u, [CopyOf(u) EXCEPT !.at = "edit", !.who = who])
    /\ raced' = raced \cup {row[u].who, who}

EditEmail(r) ==
  /\ \E u \in Users, email \in Emails :
       Read(r, u, [CopyOf(u) EXCEPT !.at = "edit", !.email = email])
  /\ UNCHANGED raced

(* The service reads the row again, but only for what a page cannot change.   *)
Update(r, entities, grants) ==
  /\ req[r].at = "edit" /\ req[r].entity \in entities /\ Active(req[r].entity)
  /\ req' = [req EXCEPT ![r] = [@ EXCEPT !.at = "write", !.current = TRUE, !.mine = grants]]
  /\ UNCHANGED <<row, save, changes, raced, outdated, config>>

UpdateUser(r)         == Update(r, Users, AsConfigured(req[r].email, req[r].mine))
UpdateGroup(r)        == Update(r, Groups, req[r].mine)
UpdateOrganization(r) == Update(r, Organizations, req[r].mine)
UpdateClient(r)       == Update(r, Clients, req[r].mine)

(* Deleting reads the row and writes it back inactive.                       *)
Delete(r, e) ==
  /\ Read(r, e, [CopyOf(e) EXCEPT !.at = "delete", !.current = e \notin outdated])
  /\ UNCHANGED raced

DeleteUser(r)         == \E u \in Users : Delete(r, u)
DeleteGroup(r)        == \E g \in Groups : Delete(r, g)
DeleteOrganization(r) == \E o \in Organizations : Delete(r, o)
DeleteClient(r)       == \E c \in Clients : Delete(r, c)

(* Only a deletion writes the active column.                                 *)
StateWritten(r) == IF req[r].at = "delete" THEN "deleted" ELSE row[req[r].entity].state
Edited(r) == [who |-> req[r].who, email |-> req[r].email, grants |-> req[r].mine]

Write(r) ==
  /\ req[r].at \in {"write", "delete"}
  /\ Put(req[r].entity, StateWritten(r), Edited(r), req[r].current)
  /\ req' = Disturbed(req[r].entity, [req EXCEPT ![r] = Idle])
  /\ UNCHANGED <<save, changes, raced, config>>

(* A row deleted meanwhile, a failing query, or a batch whose other          *)
(* goroutine failed.                                                         *)
EditFails(r) ==
  /\ req[r].at \in Edits
  /\ req' = [req EXCEPT ![r] = Idle]
  /\ UNCHANGED <<row, save, changes, raced, outdated, config>>

-----------------------------------------------------------------------------
LoginNext(r) ==
  \/ \E who \in Emails, name \in Names \cup {None} : LoginRead(r, who, name)
  \/ LoginCreate(r)
  \/ FindOrganization(r)
  \/ CreateForLogin(r)
  \/ LoginFails(r)
  \/ CollectRoles(r)
  \/ CollectFails(r)
  \/ Collected(r)
  \/ Answer(r)
  \/ \E u \in Users : Impersonate(r, u)

SaveNext(r) == SaveCheck(r) \/ SaveWrite(r) \/ SaveFails(r)

EditNext(r) ==
  \/ EditUser(r) \/ EditGroup(r) \/ EditOrganization(r) \/ EditClient(r)
  \/ EditIdentity(r) \/ EditEmail(r)
  \/ UpdateUser(r) \/ UpdateGroup(r) \/ UpdateOrganization(r) \/ UpdateClient(r)
  \/ DeleteUser(r) \/ DeleteGroup(r) \/ DeleteOrganization(r) \/ DeleteClient(r)
  \/ Write(r)
  \/ EditFails(r)

AdminCreates ==
  \/ \E u \in Users, who \in Emails, email \in Emails : CreateUser(u, who, email)
  \/ \E g \in Groups : CreateGroup(g)
  \/ \E o \in Organizations, name \in Names : CreateOrganization(o, name)
  \/ \E c \in Clients : CreateClient(c)

Next ==
  \/ AdminCreates
  \/ \E configured \in Configurations : Reload(configured)
  \/ \E r \in Requests : LoginNext(r) \/ SaveNext(r) \/ EditNext(r)

Spec == Init /\ [][Next]_vars

-----------------------------------------------------------------------------
(* Properties                                                                *)

(* A writer whose copy was read before somebody else's write puts the old    *)
(* row back, one whose role was set before the configuration was replaced    *)
(* the old role; none brings back a deleted row.                             *)
Overwrites(e, copy, base, current) ==
  /\ Contents(e) # base \/ (e \in Users /\ ~current)
  /\ \E state \in {row[e].state, "deleted"} : Put(e, state, copy, current)

CopyOfSave(s) == [who |-> s.who, email |-> s.who, grants |-> s.grants]

StaleWrite ==
  /\ \E r \in Requests :
       \/ /\ req[r].at \in {"write", "delete"}
          /\ Overwrites(req[r].entity, Edited(r), req[r].base, req[r].current)
       \/ /\ save[r].at = "write"
          /\ Overwrites(save[r].user, CopyOfSave(save[r]), save[r].base, save[r].current)
  /\ UNCHANGED administrators

(* Except for writers with an old copy, rows change as the ledger says: what *)
(* a login saves is a link to its organization and the email it logs in      *)
(* with, never the roles it has just inherited; deleted rows stay deleted,   *)
(* whoever is still about to save one.                                       *)
KeepsGrants == [][Ledger!Next \/ StaleWrite]_<<row, administrators>>

(* A user has the administrator role of its own exactly when the email it    *)
(* has now is configured, whichever of the ways to write a user came last,   *)
(* with whatever copy, unless the configuration was replaced since the copy  *)
(* was checked.                                                              *)
AdministratorsConfigured ==
  \A u \in Users \ outdated : row[u].state # "absent" =>
    (Administrator \in row[u].grants <=> row[u].email \in administrators)

(* The roles of the copy, its groups and its organizations.                  *)
Inherited(grants) ==
  LET orgs == (grants \cap Organizations)
                \cup UNION {row[g].grants \cap Organizations : g \in grants \cap Groups}
  IN (grants \cap Roles) \cup UNION {row[e].grants \cap Roles : e \in orgs \cup (grants \cap Groups)}

(* A token has all the roles of the user, its groups and their organizations *)
(* and no other, unless one of these was written while they were collected.  *)
(* When they could not be collected the login is refused, unless the         *)
(* goroutine has ended, which may hide that error.                           *)
TokenRoles ==
  \A r \in Requests : ~req[r].err =>
    /\ req[r].at = "check" /\ req[r].calm => req[r].got = Inherited(req[r].mine)
    /\ req[r].at = "failed" => save[r] = NoSave

(* Logins create one user per identity, also after a deletion or a failing   *)
(* query, unless two first logins overlap or an administrator creates one    *)
(* or gives a user another identity.                                         *)
OneUserPerIdentity ==
  \A u, v \in Users :
    u # v /\ Active(u) /\ Active(v) /\ row[u].who = row[v].who => row[u].who \in raced

=============================================================================
