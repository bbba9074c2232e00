------------------------- MODULE AccessControlProofs -------------------------
(***************************************************************************)
(* Machine-checked proofs about AccessControl, for every set of users,     *)
(* groups, organizations, clients, roles and requests, every configuration *)
(* and every bound.                                                        *)
(***************************************************************************)
EXTENDS AccessControl, TLAPS

USE AccessAssumption, BoundAssumption

-----------------------------------------------------------------------------
(* Type correctness                                                          *)

LEMMA GrantsType ==
  ASSUME NEW email, NEW grants \in Grants, NEW x \in Roles \cup Linked
  PROVE  /\ AsConfigured(email, grants) \in Grants
         /\ Toggled(x, grants) \in Grants
         /\ grants \cup {x} \in Grants
  BY DEF AsConfigured, Ledger!AsConfigured, Toggled, Grants, Linked

(* The slots that are not in use.                                            *)
LEMMA IdleType == Nothing \in Content /\ Idle \in Request /\ NoSave \in Save
<1>1. Nothing \in Content
  BY DEF Nothing, Content, Grants, Owners
<1>2. QED BY <1>1 DEF Idle, NoSave, Request, Save, Grants, LogsIn, Owners

LEMMA CollectingType ==
  ASSUME NEW mine \in Grants
  PROVE  Collecting(mine) \in Request /\ Uncollected \in Request
<1>1. {} \in Grants /\ mine \cap Linked \in SUBSET Linked /\ mine \cap Roles \in SUBSET Roles
  BY DEF Grants
<1>2. QED BY <1>1, IdleType DEF Collecting, Uncollected, Request, Tokens, LogsIn

LEMMA ContentsType ==
  ASSUME row \in [Entities -> Row], NEW e \in Entities
  PROVE  /\ Contents(e) \in Content
         /\ Contents(e).who = row[e].who /\ Contents(e).email = row[e].email
         /\ Contents(e).grants = row[e].grants
  BY DEF Contents, Content, Row

LEMMA InsertType ==
  ASSUME row \in [Entities -> Row], NEW e \in Entities, NEW grants \in Grants,
         NEW who \in Owners, NEW email \in Emails \cup {None}, Insert(e, who, email, grants)
  PROVE  row' \in [Entities -> Row]
  BY DEF Insert, Present, Row

LEMMA TypeInit == Init => TypeOK
<1> SUFFICES ASSUME Init PROVE TypeOK
  OBVIOUS
<1>1. PICK there \in SUBSET (Linked \cup Clients), named \in [Organizations -> Names] :
        row = [e \in Entities |->
                IF e \notin there THEN Ledger!Absent
                ELSE IF e \in Organizations THEN Present(named[e], None, Roles \ {Administrator})
                ELSE Present(None, None, IF e \in Groups THEN there \cap Organizations ELSE {})]
  BY DEF Init
<1>2. row \in [Entities -> Row]
  <2> SUFFICES ASSUME NEW e \in Entities PROVE row[e] \in Row
    BY <1>1
  <2>1. CASE e \notin there
    BY <1>1, <2>1 DEF Ledger!Absent, Row, Grants, Owners
  <2>2. CASE e \in there /\ e \in Organizations
    BY <1>1, <2>2 DEF Present, Row, Grants, Owners
  <2>3. CASE e \in there /\ e \notin Organizations
    BY <1>1, <2>3 DEF Present, Row, Grants, Owners
  <2>4. QED BY <2>1, <2>2, <2>3
<1>3. QED BY <1>2, IdleType DEF Init, TypeOK

(* What a login hands on to its goroutine.                                   *)
LEMMA ProceedType ==
  ASSUME TypeOK, NEW r \in Requests, NEW mine \in Grants, req[r].entity \in Users, req[r].who \in Emails,
         Proceed(r, mine)
  PROVE  req' \in [Requests -> Request] /\ save' \in [Requests -> Save]
<1>1. req[r].base \in Content
  BY DEF TypeOK, Request
<1>2. Copied(req[r], mine) \in Save
  BY <1>1, IdleType DEF Copied, Save
<1>3. QED BY <1>2, CollectingType DEF TypeOK, Proceed

-----------------------------------------------------------------------------
(* The inductive invariant                                                   *)

Exists(e) == row[e].state # "absent"

(* What is listed is there, if only deleted.                                 *)
Links(S) == \A x \in S \cap Linked : Exists(x)

(* What may be written to a row.                                             *)
Fits(e, grants) == grants \subseteq Ledger!Grantable(e) /\ Links(grants)

Configured(email, grants) == Administrator \in grants <=> email \in administrators

RowInv == \A e \in Entities : Exists(e) => Fits(e, row[e].grants)

RoleInv == \A u \in Users :
  /\ u \in outdated => Exists(u)
  /\ Exists(u) /\ u \notin outdated => Configured(row[u].email, row[u].grants)

(* Up to the role that the configuration decides.                            *)
Same(S, R) == S \ {Administrator} = R \ {Administrator}

(* An edit changes one thing of the row it read.                             *)
Kept(q)      == q.who = q.base.who /\ q.email = q.base.email
Renamed(q)   == /\ q.entity \in Users
                /\ \/ q.who \in Emails /\ q.email = q.base.email
                   \/ q.who = q.base.who /\ q.email \in Emails
OneChange(q, grants) ==
  \/ Kept(q) /\ \E x \in Ledger!Grantable(q.entity) : grants = Toggled(x, q.base.grants)
  \/ Renamed(q) /\ grants = q.base.grants

EditInv(q) == q.at \in Edits =>
    /\ q.entity \in Entities /\ Exists(q.entity) /\ Fits(q.entity, q.mine)
    /\ q.at = "edit" => OneChange(q, q.mine)
    /\ q.at = "write" => \E grants :
         /\ OneChange(q, grants)
         /\ (q.entity \in Users /\ ~q.current) \/ q.mine = Ledger!Configured(q.entity, q.email, grants)
    /\ q.at = "delete" => Kept(q) /\ q.mine = q.base.grants
    /\ q.at # "edit" /\ q.entity \in Users /\ q.current => Configured(q.email, q.mine)

(* A login has the row as it read or created it.                             *)
LoginInv(q) == q.at \in {"organization", "createOrganization"} =>
    /\ q.entity \in Users /\ Exists(q.entity) /\ Fits(q.entity, q.mine)
    /\ q.who \in Emails /\ q.base.who = q.who /\ Same(q.mine, q.base.grants)

(* Its goroutine adds at most a link to an organization.                     *)
SaveInv(s) == s.at # "none" =>
    /\ s.user \in Users /\ Exists(s.user) /\ Fits(s.user, s.grants)
    /\ s.base.who = s.who
    /\ Same(s.grants, s.base.grants) \/ \E o \in Organizations : Same(s.grants, s.base.grants \cup {o})
    /\ s.at = "write" /\ s.current => Configured(s.who, s.grants)

(* Who logs in has an email.                                                 *)
FirstInv(q) == q.at = "create" => q.who \in Emails

CoreInv ==
  /\ TypeOK
  /\ RowInv
  /\ RoleInv
  /\ \A r \in Requests : EditInv(req[r]) /\ LoginInv(req[r]) /\ FirstInv(req[r]) /\ SaveInv(save[r])

-----------------------------------------------------------------------------
(* The ways a row is written                                                 *)

Inserts ==
  /\ UNCHANGED <<outdated, administrators>>
  /\ \/ UNCHANGED row
     \/ \E e \in Entities, who \in Owners, email \in Emails \cup {None}, grants \in Grants :
          /\ Insert(e, who, email, grants) /\ Fits(e, grants)
          /\ e \in Users => Configured(email, grants)

(* A copy is written to a row that is there, and never brings it back.       *)
Puts ==
  /\ UNCHANGED administrators
  /\ \E e \in Entities, state \in {"active", "deleted"}, copy \in Content, current \in BOOLEAN :
       /\ Exists(e) /\ Fits(e, copy.grants)
       /\ e \in Users /\ current => Configured(copy.email, copy.grants)
       /\ state = "deleted" \/ state = row[e].state
       /\ Put(e, state, copy, current)

Reloads == \E configured \in Configurations : Reload(configured)

RowStep == Inserts \/ Puts \/ Reloads

(* Nothing that exists stops existing.                                       *)
Persists ==
  /\ row' \in [Entities -> Row]
  /\ \A e \in Entities : Exists(e) => row'[e].state # "absent"

LEMMA LinksPersist ==
  ASSUME Persists, NEW S, Links(S)
  PROVE  Links(S)'
  BY DEF Persists, Links, Exists, Entities, Linked

LEMMA FitsPersist ==
  ASSUME Persists, NEW e, NEW grants, Fits(e, grants)
  PROVE  Fits(e, grants)'
  BY LinksPersist DEF Fits

(* What is in a row after a copy was written to it.                          *)
LEMMA PutRow ==
  ASSUME TypeOK, NEW e \in Entities, NEW state \in {"active", "deleted"}, NEW copy \in Content,
         NEW current, Put(e, state, copy, current)
  PROVE  /\ row' \in [Entities -> Row]
         /\ row'[e].state = state /\ row'[e].who = copy.who
         /\ row'[e].email = copy.email /\ row'[e].grants = copy.grants
         /\ \A d \in Entities \ {e} : row'[d] = row[d]
<1> DEFINE n == [state |-> state, who |-> copy.who, email |-> copy.email, grants |-> copy.grants]
<1>1. n \in Row
  BY DEF Content, Row
<1>2. n.state = state /\ n.who = copy.who /\ n.email = copy.email /\ n.grants = copy.grants
  OBVIOUS
<1>3. row' = [row EXCEPT ![e] = n]
  BY DEF Put
<1> HIDE DEF n
<1>4. QED BY <1>1, <1>2, <1>3 DEF TypeOK

LEMMA InsertRow ==
  ASSUME TypeOK, NEW e \in Entities, NEW grants \in Grants, NEW who \in Owners, NEW email \in Emails \cup {None},
         Insert(e, who, email, grants)
  PROVE  /\ row' \in [Entities -> Row]
         /\ ~Exists(e)
         /\ row'[e].state = "active" /\ row'[e].who = who
         /\ row'[e].email = email /\ row'[e].grants = grants
         /\ \A d \in Entities \ {e} : row'[d] = row[d]
<1>1. row' = [row EXCEPT ![e] = Present(who, email, grants)]
  BY DEF Insert
<1>2. ~Exists(e)
  BY DEF Insert, Exists, Ledger!Absent
<1>3. QED BY <1>1, <1>2, InsertType DEF TypeOK, Present

LEMMA RowPersists ==
  ASSUME TypeOK, RowStep
  PROVE  Persists
<1>1. CASE UNCHANGED row
  BY <1>1 DEF TypeOK, Persists, Exists
<1>2. CASE Inserts
  BY <1>1, <1>2, InsertRow DEF Persists, Inserts, Exists
<1>3. CASE Puts
  BY <1>3, PutRow DEF Persists, Puts, Exists
<1>4. QED BY <1>1, <1>2, <1>3 DEF RowStep, Reloads, Reload

LEMMA RowInvStep ==
  ASSUME TypeOK, RowInv, RowStep
  PROVE  RowInv'
<1> Persists
  BY RowPersists
<1> SUFFICES ASSUME NEW e \in Entities, Exists(e)' PROVE Fits(e, row[e].grants)'
  BY DEF RowInv
<1>1. PICK g : g = row'[e].grants
  OBVIOUS
<1>2. Fits(e, g)
  <2>1. CASE row'[e] = row[e]
    BY <1>1, <2>1 DEF RowInv, Exists
  <2>2. CASE Inserts
    BY <1>1, <2>1, <2>2, InsertRow DEF Inserts
  <2>3. CASE Puts
    BY <1>1, <2>1, <2>3, PutRow DEF Puts
  <2>4. QED BY <2>1, <2>2, <2>3 DEF RowStep, Reloads, Reload
<1>3. QED BY <1>1, <1>2, FitsPersist DEF Fits

(* A user has the role of the configuration, unless that was replaced.       *)
LEMMA RoleInvStep ==
  ASSUME TypeOK, RoleInv, RowStep
  PROVE  RoleInv'
<1> Persists
  BY RowPersists
<1> SUFFICES ASSUME NEW u \in Users
             PROVE  /\ (u \in outdated => Exists(u))'
                    /\ (Exists(u) /\ u \notin outdated => Configured(row[u].email, row[u].grants))'
  BY DEF RoleInv
<1> u \in Entities
  BY DEF Entities
<1>1. CASE Reloads
  BY <1>1 DEF Reloads, Reload, Exists
<1>2. CASE UNCHANGED administrators /\ row'[u] = row[u] /\ (u \in outdated' <=> u \in outdated)
  BY <1>2 DEF RoleInv, Exists, Configured
<1>3. CASE Inserts
  <2>1. CASE UNCHANGED row
    BY <1>2, <1>3, <2>1 DEF Inserts
  <2>2. CASE ~UNCHANGED row
    <3>1. PICK e \in Entities, who \in Owners, email \in Emails \cup {None}, grants \in Grants :
            /\ Insert(e, who, email, grants)
            /\ e \in Users => Configured(email, grants)
      BY <1>3, <2>2 DEF Inserts
    <3>2. CASE e = u
      <4>1. u \notin outdated /\ row'[u].email = email /\ row'[u].grants = grants
        BY <3>1, <3>2, InsertRow DEF RoleInv
      <4>2. QED BY <1>3, <3>1, <3>2, <4>1 DEF Inserts, Configured
    <3>3. CASE e # u
      BY <1>2, <1>3, <3>1, <3>3, InsertRow DEF Inserts
    <3>4. QED BY <3>2, <3>3
  <2>3. QED BY <2>1, <2>2
<1>4. CASE Puts
  <2>1. PICK e \in Entities, state \in {"active", "deleted"}, copy \in Content, current \in BOOLEAN :
          /\ e \in Users /\ current => Configured(copy.email, copy.grants)
          /\ Put(e, state, copy, current)
    BY <1>4 DEF Puts
  <2>2. CASE e = u
    <3>1. row'[u].email = copy.email /\ row'[u].grants = copy.grants /\ row'[u].state # "absent"
      BY <2>1, <2>2, PutRow
    <3>2. u \in outdated' <=> ~current
      BY <2>1, <2>2 DEF Put
    <3>3. QED BY <1>4, <2>1, <2>2, <3>1, <3>2 DEF Puts, Configured, Exists
  <2>3. CASE e # u
    <3>1. row'[u] = row[u]
      BY <2>1, <2>3, PutRow
    <3>2. u \in outdated' <=> u \in outdated
      BY <2>1, <2>3 DEF Put
    <3>3. QED BY <1>2, <1>4, <3>1, <3>2 DEF Puts
  <2>4. QED BY <2>2, <2>3
<1>5. QED BY <1>1, <1>3, <1>4 DEF RowStep

(* What a login, a goroutine and a page make of what fits a row.             *)
LEMMA FitsConfigured ==
  ASSUME NEW u \in Users, NEW email, NEW grants, Fits(u, grants)
  PROVE  /\ Fits(u, AsConfigured(email, grants))
         /\ Configured(email, AsConfigured(email, grants))
         /\ Same(AsConfigured(email, grants), grants)
  BY DEF Fits, Links, Linked, Configured, AsConfigured, Ledger!AsConfigured, Ledger!Grantable, Same

(* What is as configured is decided by the rest.                             *)
LEMMA SameConfigured ==
  ASSUME NEW email, NEW grants, NEW S, Configured(email, grants), Same(grants, S)
  PROVE  grants = AsConfigured(email, S)
  BY DEF Configured, AsConfigured, Ledger!AsConfigured, Same

LEMMA LinkFits ==
  ASSUME NEW u \in Users, NEW grants, Fits(u, grants)', NEW o \in Organizations, Exists(o)'
  PROVE  Fits(u, grants \cup {o})'
  BY DEF Fits, Links, Ledger!Grantable

LEMMA OfferedLinks ==
  ASSUME NEW grantable \in SUBSET (Roles \cup Linked), NEW grants \in Listed(grantable)
  PROVE  grants \subseteq grantable /\ Links(grants) /\ grants \in Grants
  BY DEF Listed, Offered, Links, Exists, Active, Grants, Linked

(* Creations by administrators insert a row that fits.                       *)
LEMMA AdminInserts ==
  ASSUME TypeOK, AdminCreates
  PROVE  Inserts
<1>1. ASSUME NEW u \in Users, NEW who \in Emails, NEW email \in Emails, CreateUser(u, who, email) PROVE Inserts
  <2>1. PICK grants \in Listed(Roles \cup Linked) : Create(u, who, email, AsConfigured(email, grants))
    BY <1>1 DEF CreateUser
  <2>2. grants \subseteq Ledger!Grantable(u) /\ Links(grants) /\ grants \in Grants
    BY OfferedLinks DEF Ledger!Grantable, Linked
  <2>3. /\ Fits(u, AsConfigured(email, grants)) /\ Configured(email, AsConfigured(email, grants))
        /\ AsConfigured(email, grants) \in Grants
    BY <2>2, FitsConfigured DEF Fits, AsConfigured, Ledger!AsConfigured, Grants
  <2>4. QED BY <2>1, <2>3 DEF Inserts, Create, Entities, Owners, config
<1>2. ASSUME NEW e \in Groups \cup Organizations \cup Clients, NEW who \in Names \cup {None},
             NEW grantable \in SUBSET (Roles \cup Linked), grantable = Ledger!Grantable(e),
             NEW grants \in Listed(grantable), Create(e, who, None, grants)
      PROVE  Inserts
  <2>1. Fits(e, grants) /\ grants \in Grants
    BY <1>2, OfferedLinks DEF Fits
  <2>2. e \notin Users /\ e \in Entities /\ who \in Owners
    BY DEF Entities, Owners
  <2>3. QED BY <1>2, <2>1, <2>2 DEF Inserts, Create, config
<1>3. ASSUME NEW g \in Groups, CreateGroup(g) PROVE Inserts
  <2>1. Ledger!Grantable(g) = Roles \cup Organizations
    BY DEF Ledger!Grantable
  <2>2. QED BY <1>2, <1>3, <2>1 DEF CreateGroup, Linked
<1>4. ASSUME NEW o \in Organizations, NEW name \in Names, CreateOrganization(o, name) PROVE Inserts
  <2>1. Ledger!Grantable(o) = Roles
    BY DEF Ledger!Grantable
  <2>2. QED BY <1>2, <1>4, <2>1 DEF CreateOrganization
<1>5. ASSUME NEW c \in Clients, CreateClient(c) PROVE Inserts
  <2>1. Ledger!Grantable(c) = Roles \cup Organizations
    BY DEF Ledger!Grantable
  <2>2. QED BY <1>2, <1>5, <2>1 DEF CreateClient, Linked
<1>6. QED BY <1>1, <1>3, <1>4, <1>5 DEF AdminCreates

(* So do logins.                                                             *)
LEMMA LoginInserts ==
  ASSUME CoreInv, NEW r \in Requests, LoginNext(r)
  PROVE  Inserts
<1> USE DEF CoreInv
<1>1. ASSUME NEW u \in Users, req[r].at = "create", CreateUserFromIdentity(u, req[r].who),
             UNCHANGED <<outdated, administrators>>
      PROVE  Inserts
  <2>1. Fits(u, {})
    BY DEF Fits, Links
  <2>2. Fits(u, AsConfigured(req[r].who, {})) /\ Configured(req[r].who, AsConfigured(req[r].who, {}))
    BY <2>1, FitsConfigured
  <2>3. AsConfigured(req[r].who, {}) \in Grants
    BY DEF AsConfigured, Ledger!AsConfigured, Grants
  <2>4. req[r].who \in Emails
    BY <1>1 DEF FirstInv
  <2>5. QED BY <1>1, <2>2, <2>3, <2>4 DEF Inserts, CreateUserFromIdentity, Entities, Owners
<1>2. ASSUME NEW o \in Organizations, Insert(o, req[r].name, None, {}), UNCHANGED <<outdated, administrators>>
      PROVE  Inserts
  <2>1. {} \in Grants /\ Fits(o, {}) /\ o \notin Users
    BY DEF Grants, Links, Fits
  <2>2. req[r].name \in Owners
    BY DEF TypeOK, Request, Owners
  <2>3. QED BY <1>2, <2>1, <2>2 DEF Inserts, Entities
<1>3. UNCHANGED <<outdated, administrators>>
  BY DEF LoginNext, LoginRead, LoginCreate, FindOrganization, CreateForLogin, LoginFails, CollectRoles,
         CollectFails, Collected, Answer, Impersonate, config
<1>4. CASE LoginCreate(r)
  BY <1>1, <1>3, <1>4 DEF LoginCreate
<1>5. CASE CreateForLogin(r)
  BY <1>2, <1>3, <1>5 DEF CreateForLogin
<1>6. CASE LoginFails(r)
  BY <1>1, <1>2, <1>3, <1>6 DEF LoginFails, Inserts
<1>7. QED
  BY <1>3, <1>4, <1>5, <1>6 DEF LoginNext, LoginRead, FindOrganization, CollectRoles, CollectFails, Collected,
                                Answer, Impersonate, Inserts

(* Goroutines and edits write rows that are there.                           *)
LEMMA PutSavePuts ==
  ASSUME CoreInv, NEW r \in Requests, PutSave(r), UNCHANGED administrators
  PROVE  Puts
<1> DEFINE u == save[r].user
<1>1. save[r] \in Save /\ save[r].at = "write"
  BY DEF CoreInv, TypeOK, PutSave
<1>2. /\ u \in Users /\ u \in Entities /\ Exists(u) /\ Fits(u, save[r].grants)
      /\ save[r].current => Configured(save[r].who, save[r].grants)
  BY <1>1 DEF CoreInv, SaveInv, Entities
<1>3. Saved(r) \in Content /\ Saved(r).email = save[r].who /\ Saved(r).grants = save[r].grants
  BY <1>1 DEF Saved, Save, Content, Owners
<1>4. row[u].state \in {"active", "deleted"} /\ save[r].current \in BOOLEAN
  BY <1>1, <1>2 DEF CoreInv, TypeOK, Row, Exists, Save
<1>5. Put(u, row[u].state, Saved(r), save[r].current)
  BY DEF PutSave
<1> HIDE DEF u
<1>6. QED BY <1>2, <1>3, <1>4, <1>5 DEF Puts

LEMMA SaveRow ==
  ASSUME CoreInv, NEW r \in Requests, SaveNext(r)
  PROVE  Inserts \/ Puts
<1>1. UNCHANGED administrators
  BY DEF SaveNext, SaveCheck, SaveWrite, SaveFails, config
<1>2. QED BY <1>1, PutSavePuts DEF SaveNext, SaveCheck, SaveWrite, SaveFails, Inserts, config

LEMMA WritePuts ==
  ASSUME CoreInv, NEW r \in Requests, Write(r)
  PROVE  Puts
<1> DEFINE e == req[r].entity
<1>1. req[r] \in Request /\ req[r].at \in {"write", "delete"}
  BY DEF CoreInv, TypeOK, Write
<1>2. /\ e \in Entities /\ Exists(e) /\ Fits(e, req[r].mine)
      /\ e \in Users /\ req[r].current => Configured(req[r].email, req[r].mine)
  BY <1>1 DEF CoreInv, EditInv, Edits
<1>3. Edited(r) \in Content /\ Edited(r).email = req[r].email /\ Edited(r).grants = req[r].mine
  BY <1>1 DEF Edited, Request, Content
<1>4. /\ StateWritten(r) \in {"active", "deleted"} /\ req[r].current \in BOOLEAN
      /\ StateWritten(r) = "deleted" \/ StateWritten(r) = row[e].state
  BY <1>1, <1>2 DEF StateWritten, CoreInv, TypeOK, Row, Exists, Request
<1>5. Put(e, StateWritten(r), Edited(r), req[r].current) /\ UNCHANGED administrators
  BY DEF Write, config
<1> HIDE DEF e
<1>6. QED BY <1>2, <1>3, <1>4, <1>5 DEF Puts

(* An edit that does not write leaves the rows and the configuration alone.  *)
LEMMA EditReads ==
  ASSUME NEW r \in Requests, EditNext(r), ~Write(r)
  PROVE  UNCHANGED <<row, outdated, administrators>>
  BY DEF EditNext, EditUser, EditGroup, EditOrganization, EditClient, EditIdentity, EditEmail, Edit, Read,
         UpdateUser, UpdateGroup, UpdateOrganization, UpdateClient, Update, DeleteUser, DeleteGroup,
         DeleteOrganization, DeleteClient, Delete, EditFails, config

LEMMA EditRow ==
  ASSUME CoreInv, NEW r \in Requests, EditNext(r)
  PROVE  Inserts \/ Puts
<1>1. CASE Write(r)
  BY <1>1, WritePuts
<1>2. CASE ~Write(r)
  BY <1>2, EditReads DEF Inserts
<1>3. QED BY <1>1, <1>2

LEMMA NextRow ==
  ASSUME CoreInv, [Next]_vars
  PROVE  RowStep
<1>1. CASE UNCHANGED vars
  BY <1>1 DEF vars, config, RowStep, Inserts
<1>2. QED BY <1>1, AdminInserts, LoginInserts, SaveRow, EditRow DEF RowStep, Next, CoreInv, Reloads

-----------------------------------------------------------------------------
(* The ways a request and a goroutine change                                 *)

(* Others only set the error and note that something was written.           *)
Agrees(r) ==
  \E err, calm \in BOOLEAN : req'[r] = [req[r] EXCEPT !.err = err, !.calm = calm]

LEMMA AgreesFields ==
  ASSUME TypeOK, NEW r \in Requests, Agrees(r)
  PROVE  /\ req'[r] \in Request
         /\ req'[r].at = req[r].at /\ req'[r].entity = req[r].entity
         /\ req'[r].who = req[r].who /\ req'[r].email = req[r].email /\ req'[r].name = req[r].name
         /\ req'[r].base = req[r].base /\ req'[r].mine = req[r].mine
         /\ req'[r].current = req[r].current
         /\ req'[r].todo = req[r].todo /\ req'[r].got = req[r].got
<1>1. PICK err \in BOOLEAN, calm \in BOOLEAN : req'[r] = [req[r] EXCEPT !.err = err, !.calm = calm]
  BY DEF Agrees
<1>2. req[r] \in Request
  BY DEF TypeOK
<1>3. QED BY <1>1, <1>2 DEF Request

LEMMA SameAgrees ==
  ASSUME TypeOK, NEW r \in Requests, req'[r] = req[r]
  PROVE  Agrees(r)
<1>1. req[r] = [req[r] EXCEPT !.err = req[r].err, !.calm = req[r].calm]
  BY DEF TypeOK, Request
<1>2. req[r].err \in BOOLEAN /\ req[r].calm \in BOOLEAN
  BY DEF TypeOK, Request
<1>3. QED BY <1>1, <1>2 DEF Agrees

(* A write of a group or an organization disturbs those who collect roles.   *)
LEMMA DisturbedOne ==
  ASSUME NEW e, NEW o \in Requests, NEW reqs \in [Requests -> Request]
  PROVE  /\ DOMAIN Disturbed(e, reqs) = Requests
         /\ \E calm \in BOOLEAN : Disturbed(e, reqs)[o] = [reqs[o] EXCEPT !.calm = calm]
         /\ e \in Linked /\ reqs[o].at \in Tokens => Disturbed(e, reqs)[o].calm = FALSE
         /\ Disturbed(e, reqs) \in [Requests -> Request]
<1> DEFINE d == [q \in Requests |-> [reqs[q] EXCEPT !.calm = reqs[q].calm /\ reqs[q].at \notin Tokens]]
<1>1. CASE e \in Linked
  <2>1. Disturbed(e, reqs) = d
    BY <1>1 DEF Disturbed, Request
  <2>2. \A q \in Requests : (reqs[q].calm /\ reqs[q].at \notin Tokens) \in BOOLEAN /\ d[q] \in Request
    BY DEF Request
  <2>3. d[o] = [reqs[o] EXCEPT !.calm = reqs[o].calm /\ reqs[o].at \notin Tokens]
    OBVIOUS
  <2>4. reqs[o].at \in Tokens => d[o].calm = FALSE
    BY <2>3 DEF Request
  <2>5. d \in [Requests -> Request] /\ DOMAIN d = Requests
    BY <2>2
  <2> HIDE DEF d
  <2>6. QED BY <2>1, <2>2, <2>3, <2>4, <2>5
<1>2. CASE e \notin Linked
  <2>1. Disturbed(e, reqs) = reqs
    BY <1>2 DEF Disturbed
  <2>2. reqs[o] = [reqs[o] EXCEPT !.calm = reqs[o].calm] /\ reqs[o].calm \in BOOLEAN
    BY DEF Request
  <2>3. QED BY <1>2, <2>1, <2>2
<1>3. QED BY <1>1, <1>2

(* Type correctness of the actions of a slot.                                *)
LEMMA LoginType ==
  ASSUME CoreInv, NEW r \in Requests, LoginNext(r)
  PROVE  /\ req' \in [Requests -> Request] /\ save' \in [Requests -> Save]
         /\ \A o \in Requests \ {r} : req'[o] = req[o] /\ save'[o] = save[o]
         /\ req'[r].at \notin Edits
         /\ raced' \subseteq Owners /\ UNCHANGED <<changes, outdated, config>>
<1> USE DEF CoreInv, TypeOK
<1> req[r] \in Request
  OBVIOUS
<1>1. ASSUME NEW who \in Emails, NEW name \in Names \cup {None}, LoginRead(r, who, name)
      PROVE  /\ req' \in [Requests -> Request] /\ save' = save
             /\ \A o \in Requests \ {r} : req'[o] = req[o]
             /\ req'[r].at \notin Edits
             /\ raced' \subseteq Owners /\ UNCHANGED <<changes, outdated, config>>
  <2> who \in Owners
    BY DEF Owners
  <2>1. CASE \E u \in Users :
          /\ FoundUser(u, who)
          /\ req' = [req EXCEPT ![r] =
               [Idle EXCEPT !.at = "organization", !.entity = u, !.who = who, !.name = name,
                            !.base = Contents(u), !.mine = AsConfigured(row[u].email, row[u].grants)]]
          /\ UNCHANGED raced
    <3>1. PICK u \in Users : req' = [req EXCEPT ![r] =
               [Idle EXCEPT !.at = "organization", !.entity = u, !.who = who, !.name = name,
                            !.base = Contents(u), !.mine = AsConfigured(row[u].email, row[u].grants)]]
      BY <2>1
    <3>2. PICK base \in Content, mine \in Grants : base = Contents(u) /\ mine = AsConfigured(row[u].email, row[u].grants)
      <4>1. row[u].grants \in Grants /\ Contents(u) \in Content
        BY ContentsType DEF Row, Entities
      <4>2. QED BY <4>1 DEF AsConfigured, Ledger!AsConfigured, Grants
    <3>3. PICK q : q = [Idle EXCEPT !.at = "organization", !.entity = u, !.who = who, !.name = name,
                                    !.base = base, !.mine = mine]
      OBVIOUS
    <3>4. q \in Request /\ q.at = "organization"
      BY <3>3, IdleType DEF Request, LogsIn, Entities
    <3>5. QED BY <1>1, <2>1, <3>1, <3>2, <3>3, <3>4 DEF LoginRead, Edits
  <2>2. CASE req' = [req EXCEPT ![r] = [Idle EXCEPT !.at = "create", !.who = who, !.name = name]]
             /\ raced' \subseteq raced \cup {who}
    <3>1. PICK q : q = [Idle EXCEPT !.at = "create", !.who = who, !.name = name]
      OBVIOUS
    <3>2. q \in Request /\ q.at = "create"
      BY <3>1, IdleType DEF Request, LogsIn
    <3>3. QED BY <1>1, <2>2, <3>1, <3>2 DEF LoginRead, Edits
  <2>3. QED BY <1>1, <2>1, <2>2 DEF LoginRead
<1>2. ASSUME NEW mine \in Grants, req[r].entity \in Users, req[r].who \in Emails, Proceed(r, mine)
      PROVE  /\ req' \in [Requests -> Request] /\ save' \in [Requests -> Save]
             /\ \A o \in Requests \ {r} : req'[o] = req[o] /\ save'[o] = save[o]
             /\ req'[r].at \notin Edits
  <2>1. req'[r].at = "collect"
    BY <1>2, IdleType DEF Proceed, Collecting, Request
  <2>2. QED BY <1>2, <2>1, ProceedType DEF Proceed, Edits
<1>3. CASE LoginCreate(r)
  <2>1. PICK u \in Users :
          /\ CreateUserFromIdentity(u, req[r].who)
          /\ req' = [req EXCEPT ![r] =
            [@ EXCEPT !.at = "organization", !.entity = u, !.base = Contents(u)', !.mine = row'[u].grants]]
    BY <1>3 DEF LoginCreate
  <2>2. PICK base \in Content, mine \in Grants : base = Contents(u)' /\ mine = row'[u].grants
    <3>1. row' \in [Entities -> Row]
      BY <1>3, LoginInserts, RowPersists DEF RowStep, Persists
    <3>2. Contents(u)' \in Content /\ row'[u].grants \in Grants
      BY <3>1 DEF Contents, Content, Row, Entities
    <3>3. QED BY <3>2
  <2>3. PICK q : q = [req[r] EXCEPT !.at = "organization", !.entity = u, !.base = base, !.mine = mine]
    OBVIOUS
  <2>4. q \in Request /\ q.at = "organization"
    BY <2>3 DEF Request, LogsIn, Entities
  <2>5. req' = [req EXCEPT ![r] = q]
    BY <2>1, <2>2, <2>3
  <2>6. QED BY <1>3, <2>4, <2>5 DEF LoginCreate, Edits
<1>4. CASE FindOrganization(r)
  <2>1. req[r].entity \in Users /\ req[r].who \in Emails /\ req[r].mine \in Grants
    BY <1>4 DEF FindOrganization, LoginInv, Request
  <2>2. \A o \in Organizations : req[r].mine \cup {o} \in Grants
    BY <2>1 DEF Grants
  <2>3. CASE req' = [req EXCEPT ![r] = [@ EXCEPT !.at = "createOrganization"]] /\ UNCHANGED save
    <3>1. [req[r] EXCEPT !.at = "createOrganization"] \in Request
      BY DEF Request, LogsIn
    <3>2. [req[r] EXCEPT !.at = "createOrganization"].at = "createOrganization"
      BY DEF Request
    <3>3. QED BY <1>4, <2>3, <3>1, <3>2 DEF FindOrganization, Edits
  <2>4. QED BY <1>2, <1>4, <2>1, <2>2, <2>3 DEF FindOrganization
<1>5. CASE CreateForLogin(r)
  <2>1. req[r].entity \in Users /\ req[r].who \in Emails /\ req[r].mine \in Grants
    BY <1>5 DEF CreateForLogin, LoginInv, Request
  <2>2. \A o \in Organizations : req[r].mine \cup {o} \in Grants
    BY <2>1 DEF Grants
  <2>3. QED BY <1>2, <1>5, <2>1, <2>2 DEF CreateForLogin
<1>6. CASE LoginFails(r) \/ Answer(r)
  <2>1. req' = [req EXCEPT ![r] = Idle] /\ save' = save /\ UNCHANGED <<changes, raced, outdated, config>>
    BY <1>6 DEF LoginFails, Answer
  <2>2. Idle.at = "idle"
    BY DEF Idle
  <2>3. QED BY <2>1, <2>2, IdleType DEF Edits
<1>7. CASE CollectRoles(r)
  <2>1. PICK e \in req[r].todo : req' = [req EXCEPT ![r] = CollectedFrom(req[r], e)]
    BY <1>7 DEF CollectRoles
  <2>2. Rest(req[r].todo, e) \subseteq Linked
    BY DEF Rest, Request, Linked
  <2>3. CollectedFrom(req[r], e) \in Request
    BY <2>2 DEF CollectedFrom, Request
  <2>4. CollectedFrom(req[r], e).at = "collect"
    BY <1>7 DEF CollectedFrom, CollectRoles, Request
  <2>5. QED BY <1>7, <2>1, <2>3, <2>4 DEF CollectRoles, Edits
<1>8. CASE CollectFails(r)
  <2>1. {} \in Grants
    BY DEF Grants
  <2>2. Uncollected \in Request /\ Uncollected.at = "failed"
    BY <2>1, CollectingType DEF Uncollected, Idle
  <2>3. QED BY <1>8, <2>2 DEF CollectFails, Edits
<1>9. CASE Collected(r)
  <2>1. [req[r] EXCEPT !.at = "check", !.err = FALSE] \in Request
    BY DEF Request, LogsIn, Tokens
  <2>2. [req[r] EXCEPT !.at = "check", !.err = FALSE].at = "check"
    BY DEF Request
  <2>3. QED BY <1>9, <2>1, <2>2 DEF Collected, Edits
<1>10. ASSUME NEW u \in Users, Impersonate(r, u)
       PROVE  /\ req' \in [Requests -> Request] /\ save' = save
              /\ \A o \in Requests \ {r} : req'[o] = req[o]
              /\ req'[r].at \notin Edits
              /\ raced' \subseteq Owners /\ UNCHANGED <<changes, outdated, config>>
  <2>1. row[u].grants \in Grants
    BY DEF Row, Entities
  <2>2. Collecting(row[u].grants) \in Request /\ Collecting(row[u].grants).at = "collect"
    BY <2>1, CollectingType DEF Collecting, Idle
  <2>3. QED BY <1>10, <2>2 DEF Impersonate, Edits
<1>11. UNCHANGED <<changes, raced, outdated, config>> \/ \E who \in Emails, name \in Names \cup {None} : LoginRead(r, who, name)
  BY DEF LoginNext, LoginCreate, FindOrganization, CreateForLogin, LoginFails, CollectRoles,
         CollectFails, Collected, Answer, Impersonate
<1>12. UNCHANGED save \/ FindOrganization(r) \/ CreateForLogin(r)
  BY DEF LoginNext, LoginRead, LoginCreate, LoginFails, CollectRoles, CollectFails, Collected, Answer, Impersonate
<1>13. QED
  BY <1>1, <1>3, <1>4, <1>5, <1>6, <1>7, <1>8, <1>9, <1>10, <1>11, <1>12 DEF LoginNext

LEMMA SaveType ==
  ASSUME CoreInv, NEW r \in Requests, SaveNext(r)
  PROVE  /\ req' \in [Requests -> Request] /\ save' \in [Requests -> Save]
         /\ \A o \in Requests \ {r} : req'[o] = req[o] /\ save'[o] = save[o]
         /\ Agrees(r)
         /\ UNCHANGED <<raced, changes, config>>
<1> USE DEF CoreInv, TypeOK
<1> req[r] \in Request /\ save[r] \in Save
  OBVIOUS
<1>1. ASSUME NEW e \in BOOLEAN, SetErr(r, e)
      PROVE  /\ req' \in [Requests -> Request] /\ Agrees(r)
             /\ \A o \in Requests \ {r} : req'[o] = req[o]
  <2>1. CASE req[r].at \in Tokens
    <3>1. req' = [req EXCEPT ![r] = [@ EXCEPT !.err = e]]
      BY <1>1, <2>1 DEF SetErr
    <3>2. [req[r] EXCEPT !.err = e] = [req[r] EXCEPT !.err = e, !.calm = req[r].calm] /\ req[r].calm \in BOOLEAN
      BY DEF Request
    <3>3. [req[r] EXCEPT !.err = e] \in Request
      BY DEF Request
    <3>4. req'[r] = [req[r] EXCEPT !.err = e]
      BY <3>1
    <3>5. Agrees(r)
      BY <3>2, <3>4 DEF Agrees
    <3>6. QED BY <3>1, <3>3, <3>5
  <2>2. CASE req[r].at \notin Tokens
    BY <1>1, <2>2, SameAgrees DEF SetErr
  <2>3. QED BY <2>1, <2>2
<1>2. CASE SaveCheck(r)
  <2>1. PICK grants \in Grants : grants = AsConfigured(save[r].who, save[r].grants)
    BY DEF Save, AsConfigured, Ledger!AsConfigured, Grants
  <2>2. [save[r] EXCEPT !.at = "write", !.current = TRUE, !.grants = grants] \in Save
    BY <2>1 DEF Save
  <2>3. save' = [save EXCEPT ![r] = [save[r] EXCEPT !.at = "write", !.current = TRUE, !.grants = grants]]
    BY <1>2, <2>1 DEF SaveCheck
  <2>4. QED BY <1>2, <2>2, <2>3, SameAgrees DEF SaveCheck
<1>3. CASE SaveWrite(r) \/ SaveFails(r)
  BY <1>1, <1>3, IdleType DEF SaveWrite, SaveFails
<1>4. QED BY <1>2, <1>3 DEF SaveNext

LEMMA EditType ==
  ASSUME CoreInv, NEW r \in Requests, EditNext(r)
  PROVE  /\ req' \in [Requests -> Request] /\ save' = save
         /\ \A o \in Requests \ {r} : Agrees(o)
         /\ raced \subseteq raced' /\ raced' \subseteq Owners /\ changes' \in Nat /\ UNCHANGED config
<1> USE DEF CoreInv, TypeOK
<1> req[r] \in Request
  OBVIOUS
<1>1. ASSUME NEW e \in Entities, NEW copy \in Request, Read(r, e, copy)
      PROVE  /\ req' \in [Requests -> Request] /\ save' = save
             /\ \A o \in Requests \ {r} : Agrees(o)
             /\ changes' \in Nat /\ UNCHANGED config
  BY <1>1, SameAgrees DEF Read
<1>2. ASSUME NEW e \in Entities
      PROVE  CopyOf(e) \in Request /\ row[e].grants \in Grants
  <2>1. PICK base \in Content : base = Contents(e)
    BY ContentsType
  <2>2. row[e].who \in Owners /\ row[e].email \in Emails \cup {None} /\ row[e].grants \in Grants
    BY DEF Row
  <2>3. CopyOf(e) = [Idle EXCEPT !.entity = e, !.who = row[e].who, !.email = row[e].email,
                                 !.base = base, !.mine = row[e].grants]
    BY <2>1 DEF CopyOf
  <2>4. QED BY <2>1, <2>2, <2>3, IdleType DEF Request
<1>3. CASE EditUser(r) \/ EditGroup(r) \/ EditOrganization(r) \/ EditClient(r)
  <2>1. PICK e \in Entities, x \in Roles \cup Linked :
          /\ Read(r, e, [CopyOf(e) EXCEPT !.at = "edit", !.mine = Toggled(x, row[e].grants)])
          /\ UNCHANGED raced
    BY <1>3 DEF EditUser, EditGroup, EditOrganization, EditClient, Edit, Offered, Entities, Linked
  <2>2. Toggled(x, row[e].grants) \in Grants
    BY <1>2, GrantsType
  <2>3. [CopyOf(e) EXCEPT !.at = "edit", !.mine = Toggled(x, row[e].grants)] \in Request
    BY <1>2, <2>2 DEF Request, Edits
  <2>4. QED BY <1>1, <2>1, <2>3
<1>4. CASE EditIdentity(r)
  <2>1. PICK u \in Users, who \in Emails :
          Read(r, u, [CopyOf(u) EXCEPT !.at = "edit", !.who = who]) /\ raced' = raced \cup {row[u].who, who}
    BY <1>4 DEF EditIdentity
  <2>2. [CopyOf(u) EXCEPT !.at = "edit", !.who = who] \in Request
    BY <1>2 DEF Request, Edits, Owners, Entities
  <2>3. row[u].who \in Owners /\ who \in Owners
    BY DEF Row, Entities, Owners
  <2>4. QED BY <1>1, <2>1, <2>2, <2>3 DEF Entities
<1>5. CASE EditEmail(r)
  <2>1. PICK u \in Users, email \in Emails :
          Read(r, u, [CopyOf(u) EXCEPT !.at = "edit", !.email = email]) /\ UNCHANGED raced
    BY <1>5 DEF EditEmail
  <2>2. [CopyOf(u) EXCEPT !.at = "edit", !.email = email] \in Request
    BY <1>2 DEF Request, Edits, Entities
  <2>3. QED BY <1>1, <2>1, <2>2 DEF Entities
<1>6. CASE DeleteUser(r) \/ DeleteGroup(r) \/ DeleteOrganization(r) \/ DeleteClient(r)
  <2>1. PICK e \in Entities :
          Read(r, e, [CopyOf(e) EXCEPT !.at = "delete", !.current = e \notin outdated]) /\ UNCHANGED raced
    BY <1>6 DEF DeleteUser, DeleteGroup, DeleteOrganization, DeleteClient, Delete, Entities
  <2>2. PICK current \in BOOLEAN : current = (e \notin outdated)
    OBVIOUS
  <2>3. [CopyOf(e) EXCEPT !.at = "delete", !.current = current] \in Request
    BY <1>2 DEF Request, Edits
  <2>4. QED BY <1>1, <2>1, <2>2, <2>3
<1>7. ASSUME NEW grants \in Grants, NEW entities, Update(r, entities, grants)
      PROVE  req' \in [Requests -> Request] /\ \A o \in Requests \ {r} : req'[o] = req[o]
  <2>1. [req[r] EXCEPT !.at = "write", !.current = TRUE, !.mine = grants] \in Request
    BY DEF Request, Edits
  <2>2. QED BY <1>7, <2>1 DEF Update
<1>8. CASE UpdateUser(r) \/ UpdateGroup(r) \/ UpdateOrganization(r) \/ UpdateClient(r)
  <2>1. AsConfigured(req[r].email, req[r].mine) \in Grants /\ req[r].mine \in Grants
    BY DEF Request, AsConfigured, Ledger!AsConfigured, Grants
  <2>2. PICK grants \in Grants, entities \in {Users, Groups, Organizations, Clients} : Update(r, entities, grants)
    BY <1>8, <2>1 DEF UpdateUser, UpdateGroup, UpdateOrganization, UpdateClient
  <2>3. QED BY <1>7, <2>2, SameAgrees DEF Update
<1>9. CASE Write(r)
  <2> DEFINE reqs == [req EXCEPT ![r] = Idle]
  <2>1. reqs \in [Requests -> Request] /\ req' = Disturbed(req[r].entity, reqs)
    BY <1>9, IdleType DEF Write
  <2>2. ASSUME NEW o \in Requests \ {r} PROVE Agrees(o)
    <3>1. reqs[o] = req[o]
      OBVIOUS
    <3> HIDE DEF reqs
    <3>2. \E calm \in BOOLEAN : Disturbed(req[r].entity, reqs)[o] = [reqs[o] EXCEPT !.calm = calm]
      BY <2>1, DisturbedOne
    <3>3. PICK calm \in BOOLEAN : req'[o] = [req[o] EXCEPT !.calm = calm]
      BY <2>1, <3>1, <3>2
    <3>4. [req[o] EXCEPT !.calm = calm] = [req[o] EXCEPT !.err = req[o].err, !.calm = calm] /\ req[o].err \in BOOLEAN
      BY DEF Request
    <3>5. QED BY <3>3, <3>4 DEF Agrees
  <2> HIDE DEF reqs
  <2>3. req' \in [Requests -> Request]
    BY <2>1, DisturbedOne
  <2>4. QED BY <1>9, <2>2, <2>3 DEF Write
<1>10. CASE EditFails(r)
  BY <1>10, IdleType, SameAgrees DEF EditFails
<1>11. QED BY <1>3, <1>4, <1>5, <1>6, <1>8, <1>9, <1>10 DEF EditNext

-----------------------------------------------------------------------------
(* The invariant is inductive                                                *)

(* What a request or a goroutine knows stays true while others act.          *)
LEMMA KnownPersists ==
  ASSUME Persists, UNCHANGED administrators, NEW q
  PROVE  /\ EditInv(q) => EditInv(q)'
         /\ LoginInv(q) => LoginInv(q)'
         /\ SaveInv(q) => SaveInv(q)'
<1>1. ASSUME NEW e \in Entities, Exists(e)
      PROVE  Exists(e)' /\ \A grants : Fits(e, grants) => Fits(e, grants)'
  BY <1>1, FitsPersist DEF Persists, Exists
<1>2. \A email, grants : /\ Configured(email, grants)' <=> Configured(email, grants)
                         /\ \A e : Ledger!Configured(e, email, grants)' = Ledger!Configured(e, email, grants)
  BY DEF Configured, Ledger!Configured, Ledger!AsConfigured
<1>3. ASSUME EditInv(q) PROVE EditInv(q)'
  BY <1>1, <1>2, <1>3 DEF EditInv
<1>4. ASSUME LoginInv(q) PROVE LoginInv(q)'
  BY <1>1, <1>4 DEF LoginInv, Entities
<1>5. ASSUME SaveInv(q) PROVE SaveInv(q)'
  BY <1>1, <1>2, <1>5 DEF SaveInv, Entities
<1>6. QED BY <1>3, <1>4, <1>5

LEMMA RequestPersists ==
  ASSUME CoreInv, Persists, UNCHANGED administrators, NEW o \in Requests, Agrees(o)
  PROVE  EditInv(req[o])' /\ LoginInv(req[o])' /\ FirstInv(req[o])'
<1>1. PICK q : q = req[o]
  OBVIOUS
<1>2. /\ req'[o].at = q.at /\ req'[o].entity = q.entity /\ req'[o].who = q.who /\ req'[o].email = q.email
      /\ req'[o].base = q.base /\ req'[o].mine = q.mine /\ req'[o].current = q.current
  BY <1>1, AgreesFields DEF CoreInv
<1>3. EditInv(q)' /\ LoginInv(q)' /\ FirstInv(q)
  BY <1>1, KnownPersists DEF CoreInv
<1>4. EditInv(req[o])'
  BY <1>2, <1>3 DEF EditInv, OneChange, Kept, Renamed
<1>5. LoginInv(req[o])' /\ FirstInv(req[o])'
  BY <1>2, <1>3 DEF LoginInv, FirstInv
<1>6. QED BY <1>4, <1>5

LEMMA SavePersists ==
  ASSUME CoreInv, Persists, UNCHANGED administrators, NEW o \in Requests, save'[o] = save[o]
  PROVE  SaveInv(save[o])'
<1>1. PICK s : s = save[o]
  OBVIOUS
<1>2. SaveInv(s)'
  BY <1>1, KnownPersists DEF CoreInv
<1>3. QED BY <1>1, <1>2

(* After a new configuration no copy is known to have its role.              *)
LEMMA ReloadKeeps ==
  ASSUME CoreInv, Reloads, NEW o \in Requests
  PROVE  /\ EditInv(req[o])' /\ LoginInv(req[o])' /\ FirstInv(req[o])' /\ SaveInv(save[o])'
         /\ req'[o].at = req[o].at /\ req'[o].who = req[o].who
<1>1. req[o] \in Request /\ save[o] \in Save
  BY DEF CoreInv, TypeOK
<1>2. PICK q, s : q = req'[o] /\ s = save'[o]
  OBVIOUS
<1>3. q = [req[o] EXCEPT !.current = FALSE] /\ s = [save[o] EXCEPT !.current = FALSE]
  BY <1>2 DEF Reloads, Reload
<1>4. /\ q.at = req[o].at /\ q.entity = req[o].entity /\ q.who = req[o].who /\ q.email = req[o].email
      /\ q.base = req[o].base /\ q.mine = req[o].mine /\ ~q.current
  BY <1>1, <1>3 DEF Request
<1>5. /\ s.at = save[o].at /\ s.user = save[o].user /\ s.who = save[o].who
      /\ s.base = save[o].base /\ s.grants = save[o].grants /\ ~s.current
  BY <1>1, <1>3 DEF Save
<1>6. \A e : /\ Exists(e)' <=> Exists(e)
             /\ \A grants : Fits(e, grants)' <=> Fits(e, grants)
             /\ e \notin Users => \A email, grants : Ledger!Configured(e, email, grants) = grants
  BY DEF Reloads, Reload, Exists, Fits, Links, Ledger!Configured
<1>7. EditInv(req[o]) /\ LoginInv(req[o]) /\ FirstInv(req[o]) /\ SaveInv(save[o])
  BY DEF CoreInv
<1>8. EditInv(q)'
  <2> SUFFICES ASSUME q.at \in Edits PROVE EditInv(q)'
    BY DEF EditInv
  <2>1. q.entity \in Entities /\ Exists(q.entity) /\ Fits(q.entity, q.mine)
    BY <1>4, <1>7 DEF EditInv
  <2>2. \A grants : OneChange(req[o], grants) <=> OneChange(q, grants)
    BY <1>4 DEF OneChange, Kept, Renamed
  <2>3. q.at = "write" => \E grants : OneChange(q, grants) /\ (q.entity \in Users \/ q.mine = grants)
    BY <1>4, <1>6, <1>7, <2>2 DEF EditInv
  <2>4. \A email, grants : q.entity \notin Users => Ledger!Configured(q.entity, email, grants)' = grants
    BY DEF Ledger!Configured
  <2>5. q.at = "write" => \E grants :
          /\ OneChange(q, grants)
          /\ (q.entity \in Users /\ ~q.current) \/ q.mine = Ledger!Configured(q.entity, q.email, grants)'
    BY <1>4, <2>3, <2>4
  <2>6. /\ q.at = "edit" => OneChange(q, q.mine)
        /\ q.at = "delete" => Kept(q) /\ q.mine = q.base.grants
    BY <1>4, <1>7, <2>2 DEF EditInv, Kept
  <2>7. QED BY <1>4, <1>6, <2>1, <2>5, <2>6 DEF EditInv
<1>9. LoginInv(q)' /\ FirstInv(q)
  BY <1>4, <1>6, <1>7 DEF LoginInv, FirstInv
<1>10. SaveInv(s)'
  BY <1>5, <1>6, <1>7 DEF SaveInv
<1>11. QED BY <1>2, <1>4, <1>8, <1>9, <1>10 DEF FirstInv

LEMMA LoginKeeps ==
  ASSUME CoreInv, NEW r \in Requests, LoginNext(r)
  PROVE  EditInv(req[r])' /\ LoginInv(req[r])' /\ FirstInv(req[r])' /\ SaveInv(save[r])'
<1> Persists /\ UNCHANGED administrators
  BY LoginInserts, RowPersists DEF CoreInv, RowStep, Inserts
<1> req[r] \in Request /\ req' \in [Requests -> Request] /\ req'[r].at \notin Edits
  BY LoginType DEF CoreInv, TypeOK
<1>1. EditInv(req[r])'
  BY DEF EditInv
<1>2. ASSUME NEW mine, Proceed(r, mine), req[r].at \in {"organization", "createOrganization"},
             mine = req[r].mine \/ \E o \in Organizations : Exists(o)' /\ mine = req[r].mine \cup {o}
      PROVE  LoginInv(req[r])' /\ FirstInv(req[r])' /\ SaveInv(save[r])'
  <2>1. PICK q : q = req[r]
    OBVIOUS
  <2>2. /\ q.entity \in Users /\ Exists(q.entity)' /\ Fits(q.entity, q.mine)'
        /\ q.base.who = q.who /\ Same(q.mine, q.base.grants)
    BY <1>2, <2>1, KnownPersists DEF CoreInv, LoginInv
  <2>3. Fits(q.entity, mine)'
    BY <1>2, <2>1, <2>2, LinkFits
  <2>4. PICK s : s = save'[r]
    OBVIOUS
  <2>5. s = [NoSave EXCEPT !.at = "check", !.user = q.entity, !.who = q.who, !.base = q.base, !.grants = mine]
    BY <1>2, <2>1, <2>4 DEF Proceed, Copied, CoreInv, TypeOK
  <2>6. s.at = "check" /\ s.user = q.entity /\ s.who = q.who /\ s.base = q.base /\ s.grants = mine
    BY <2>5, IdleType DEF Save
  <2>7. Same(mine, q.base.grants) \/ \E o \in Organizations : Same(mine, q.base.grants \cup {o})
    BY <1>2, <2>1, <2>2 DEF Same
  <2>8. SaveInv(s)'
    BY <2>2, <2>3, <2>6, <2>7 DEF SaveInv
  <2>9. req'[r].at = "collect"
    BY <1>2, IdleType DEF Proceed, Collecting, Request, CoreInv, TypeOK
  <2>10. QED BY <2>4, <2>8, <2>9 DEF LoginInv, FirstInv
<1>3. ASSUME NEW who \in Emails, NEW name \in Names \cup {None}, LoginRead(r, who, name)
      PROVE  LoginInv(req[r])' /\ FirstInv(req[r])' /\ SaveInv(save[r])'
  <2>1. SaveInv(save[r])'
    BY <1>3, SavePersists DEF LoginRead
  <2>2. CASE NoUser(who) /\ req' = [req EXCEPT ![r] = [Idle EXCEPT !.at = "create", !.who = who, !.name = name]]
    <3>1. PICK q : q = [Idle EXCEPT !.at = "create", !.who = who, !.name = name]
      OBVIOUS
    <3>2. q.at = "create" /\ q.who = who
      BY <3>1, IdleType DEF Request
    <3>3. QED BY <2>1, <2>2, <3>1, <3>2 DEF LoginInv, FirstInv, CoreInv, TypeOK
  <2>3. ASSUME NEW u \in Users, FoundUser(u, who), NEW base, base = Contents(u),
               NEW grants, grants = AsConfigured(row[u].email, row[u].grants),
               req' = [req EXCEPT ![r] =
                 [Idle EXCEPT !.at = "organization", !.entity = u, !.who = who, !.name = name,
                              !.base = base, !.mine = grants]]
        PROVE  LoginInv(req[r])' /\ FirstInv(req[r])'
    <3>1. Exists(u) /\ row[u].who = who
      BY <2>3 DEF FoundUser, Active, Exists
    <3>2. Fits(u, row[u].grants)
      BY <3>1 DEF CoreInv, RowInv, Entities
    <3>3. Fits(u, grants) /\ Same(grants, row[u].grants)
      BY <2>3, <3>2, FitsConfigured
    <3>4. base.who = who /\ base.grants = row[u].grants
      BY <2>3, <3>1, ContentsType DEF CoreInv, TypeOK, Entities
    <3>5. PICK q : q = [Idle EXCEPT !.at = "organization", !.entity = u, !.who = who, !.name = name,
                                    !.base = base, !.mine = grants]
      OBVIOUS
    <3>6. q.at = "organization" /\ q.entity = u /\ q.who = who /\ q.base = base /\ q.mine = grants
      BY <3>5, IdleType DEF Request
    <3>7. LoginInv(q) /\ FirstInv(q)
      BY <3>1, <3>3, <3>4, <3>6 DEF LoginInv, FirstInv
    <3>8. LoginInv(q)' /\ req'[r] = q
      BY <2>3, <3>5, <3>7, KnownPersists DEF CoreInv, TypeOK
    <3>9. QED BY <3>7, <3>8 DEF FirstInv
  <2>4. QED BY <1>3, <2>1, <2>2, <2>3 DEF LoginRead
<1>4. CASE LoginCreate(r)
  <2>1. PICK grants : grants = AsConfigured(req[r].who, {})
    OBVIOUS
  <2>2. PICK u \in Users :
          /\ Insert(u, req[r].who, req[r].who, grants)
          /\ req' = [req EXCEPT ![r] =
               [req[r] EXCEPT !.at = "organization", !.entity = u, !.base = Contents(u)', !.mine = row'[u].grants]]
    BY <1>4, <2>1 DEF LoginCreate, CreateUserFromIdentity
  <2>3. PICK base, mine : base = Contents(u)' /\ mine = row'[u].grants
    OBVIOUS
  <2>4. PICK q : q = [req[r] EXCEPT !.at = "organization", !.entity = u, !.base = base, !.mine = mine]
    OBVIOUS
  <2>5. q.at = "organization" /\ q.entity = u /\ q.who = req[r].who /\ q.base = base /\ q.mine = mine
    BY <2>4 DEF Request
  <2>6. Fits(u, grants) /\ grants \in Grants
    <3>1. {} \in Grants /\ Fits(u, {})
      BY DEF Grants, Fits, Links
    <3>2. Fits(u, grants)
      BY <2>1, <3>1, FitsConfigured
    <3>3. QED BY <2>1, <3>2 DEF AsConfigured, Ledger!AsConfigured, Grants
  <2>7. req[r].who \in Emails
    BY <1>4 DEF LoginCreate, CoreInv, FirstInv
  <2>8. row'[u].who = req[r].who /\ row'[u].grants = grants /\ Exists(u)' /\ row' \in [Entities -> Row]
    BY <2>2, <2>6, <2>7, InsertRow DEF CoreInv, Entities, Owners, Exists
  <2>9. base.who = q.who /\ base.grants = mine /\ mine = grants
    BY <2>3, <2>5, <2>8 DEF Contents
  <2>10. Fits(u, mine)'
    BY <2>6, <2>9, FitsPersist DEF Fits
  <2>11. LoginInv(q)' /\ FirstInv(q)
    BY <2>5, <2>7, <2>8, <2>9, <2>10 DEF LoginInv, FirstInv, Same
  <2>12. req'[r] = q
    BY <2>2, <2>3, <2>4 DEF CoreInv, TypeOK
  <2>13. SaveInv(save[r])'
    BY <1>4, SavePersists DEF LoginCreate
  <2>14. QED BY <1>1, <2>11, <2>12, <2>13 DEF FirstInv
<1>5. CASE FindOrganization(r)
  <2>1. CASE req' = [req EXCEPT ![r] = [@ EXCEPT !.at = "createOrganization"]] /\ UNCHANGED save
    <3>1. PICK q : q = req[r]
      OBVIOUS
    <3>2. LoginInv(q)' /\ q.at = "organization"
      BY <1>5, <3>1, KnownPersists DEF CoreInv, FindOrganization
    <3>3. /\ req'[r].entity = q.entity /\ req'[r].who = q.who /\ req'[r].at = "createOrganization"
          /\ req'[r].base = q.base /\ req'[r].mine = q.mine
      BY <2>1, <3>1 DEF CoreInv, TypeOK, Request
    <3>4. LoginInv(req[r])' /\ FirstInv(req[r])'
      BY <3>2, <3>3 DEF LoginInv, FirstInv
    <3>5. QED BY <1>1, <2>1, <3>4, SavePersists
  <2>2. ASSUME NEW o \in Organizations, FoundOrganization(o, req[r].name) PROVE Exists(o)'
    BY <2>2 DEF FoundOrganization, Active, Persists, Exists, Entities
  <2>3. QED BY <1>1, <1>2, <1>5, <2>1, <2>2 DEF FindOrganization
<1>6. CASE CreateForLogin(r)
  <2>1. PICK o \in Organizations : Insert(o, req[r].name, None, {}) /\ Proceed(r, req[r].mine \cup {o})
    BY <1>6 DEF CreateForLogin
  <2>2. Exists(o)'
    BY <2>1 DEF Insert, Present, Exists, CoreInv, TypeOK, Entities
  <2>3. QED BY <1>1, <1>2, <1>6, <2>1, <2>2 DEF CreateForLogin
<1>7. CASE LoginFails(r) \/ CollectRoles(r) \/ CollectFails(r) \/ Collected(r) \/ Answer(r) \/ \E u \in Users : Impersonate(r, u)
  <2> USE DEF CoreInv, TypeOK
  <2>1. CASE LoginFails(r) \/ CollectFails(r) \/ Answer(r) \/ \E u \in Users : Impersonate(r, u)
    <3>1. UNCHANGED save
      BY <2>1 DEF LoginFails, CollectFails, Answer, Impersonate
    <3>2. Idle.at = "idle" /\ Uncollected.at = "failed" /\ \A mine : Collecting(mine).at = "collect"
      BY DEF Uncollected, Collecting, Idle
    <3>3. req'[r].at \in {"idle", "failed", "collect"}
      BY <2>1, <3>2 DEF LoginFails, CollectFails, Answer, Impersonate
    <3>4. QED BY <1>1, <3>1, <3>3, SavePersists DEF LoginInv, FirstInv
  <2>2. CASE CollectRoles(r)
    <3>1. \A e : CollectedFrom(req[r], e).at = "collect"
      BY <2>2 DEF CollectedFrom, CollectRoles, Request
    <3>2. req'[r].at = "collect"
      BY <2>2, <3>1 DEF CollectRoles
    <3>3. QED BY <1>1, <2>2, <3>2, SavePersists DEF CollectRoles, LoginInv, FirstInv
  <2>3. CASE Collected(r)
    <3>1. [req[r] EXCEPT !.at = "check", !.err = FALSE].at = "check"
      BY DEF Request
    <3>2. req'[r].at = "check"
      BY <2>3, <3>1 DEF Collected
    <3>3. QED BY <1>1, <2>3, <3>2, SavePersists DEF Collected, LoginInv, FirstInv
  <2>4. QED BY <1>7, <2>1, <2>2, <2>3
<1>8. QED BY <1>1, <1>3, <1>4, <1>5, <1>6, <1>7 DEF LoginNext

LEMMA SaveKeeps ==
  ASSUME CoreInv, NEW r \in Requests, SaveNext(r)
  PROVE  EditInv(req[r])' /\ LoginInv(req[r])' /\ FirstInv(req[r])' /\ SaveInv(save[r])'
<1> Persists /\ UNCHANGED administrators
  BY SaveRow, RowPersists DEF CoreInv, RowStep, Inserts, Puts
<1>1. EditInv(req[r])' /\ LoginInv(req[r])' /\ FirstInv(req[r])'
  BY SaveType, RequestPersists
<1>2. CASE SaveCheck(r)
  <2>1. PICK s : s = save[r]
    OBVIOUS
  <2>2. s.user \in Users /\ s \in Save /\ SaveInv(s)' /\ SaveInv(s) /\ s.at = "check"
    BY <1>2, <2>1, KnownPersists DEF SaveCheck, CoreInv, SaveInv, TypeOK
  <2>3. PICK grants : grants = AsConfigured(s.who, s.grants)
    OBVIOUS
  <2>4. Fits(s.user, grants) /\ Configured(s.who, grants) /\ Same(grants, s.grants)
    BY <2>2, <2>3, FitsConfigured DEF SaveInv
  <2>5. PICK n : n = [s EXCEPT !.at = "write", !.current = TRUE, !.grants = grants]
    OBVIOUS
  <2>6. n.user = s.user /\ n.who = s.who /\ n.base = s.base /\ n.grants = grants
    BY <2>2, <2>5 DEF Save
  <2>7. Same(grants, s.base.grants) \/ \E o \in Organizations : Same(grants, s.base.grants \cup {o})
    BY <2>2, <2>4 DEF SaveInv, Same
  <2>8. SaveInv(n)
    BY <2>2, <2>4, <2>6, <2>7 DEF SaveInv
  <2>9. save'[r] = n
    BY <1>2, <2>1, <2>3, <2>5 DEF SaveCheck, CoreInv, TypeOK
  <2>10. QED BY <1>1, <2>8, <2>9, KnownPersists
<1>3. CASE SaveWrite(r) \/ SaveFails(r)
  <2>1. save'[r] = NoSave
    BY <1>3 DEF SaveWrite, SaveFails, CoreInv, TypeOK
  <2>2. QED BY <1>1, <2>1 DEF SaveInv, NoSave
<1>4. QED BY <1>2, <1>3 DEF SaveNext

(* What a page or a goroutine of a batch has read.                           *)
LEMMA CopyFields ==
  ASSUME CoreInv, NEW e \in Entities, Active(e)
  PROVE  /\ CopyOf(e) \in Request
         /\ CopyOf(e).entity = e /\ CopyOf(e).who = row[e].who /\ CopyOf(e).email = row[e].email
         /\ CopyOf(e).mine = row[e].grants /\ CopyOf(e).current = FALSE
         /\ CopyOf(e).base.who = row[e].who /\ CopyOf(e).base.email = row[e].email
         /\ CopyOf(e).base.grants = row[e].grants
         /\ Exists(e) /\ Fits(e, row[e].grants)
<1> USE DEF CoreInv, TypeOK
<1>1. PICK base \in Content :
        base = Contents(e) /\ base.who = row[e].who /\ base.email = row[e].email /\ base.grants = row[e].grants
  BY ContentsType
<1>2. row[e].who \in Owners /\ row[e].email \in Emails \cup {None} /\ row[e].grants \in Grants
  BY DEF Row
<1>3. PICK c : c = [Idle EXCEPT !.entity = e, !.who = row[e].who, !.email = row[e].email,
                                !.base = base, !.mine = row[e].grants]
  OBVIOUS
<1>4. c = CopyOf(e)
  BY <1>1, <1>3 DEF CopyOf
<1>5. Idle.current = FALSE
  BY DEF Idle
<1>6. /\ c \in Request /\ c.entity = e /\ c.who = row[e].who /\ c.email = row[e].email
      /\ c.mine = row[e].grants /\ c.base = base /\ c.current = FALSE
  BY <1>2, <1>3, <1>5, IdleType DEF Request
<1>7. Exists(e) /\ Fits(e, row[e].grants)
  BY DEF Active, Exists, RowInv
<1>8. QED BY <1>1, <1>4, <1>6, <1>7

(* The ways a page or a batch changes its copy keep what is known of it.     *)
LEMMA EditChanges ==
  ASSUME CoreInv, NEW r \in Requests,
         EditUser(r) \/ EditGroup(r) \/ EditOrganization(r) \/ EditClient(r) \/ EditIdentity(r) \/ EditEmail(r)
  PROVE  \E q : EditInv(q) /\ q.at = "edit" /\ req'[r] = q
<1> req \in [Requests -> Request]
  BY DEF CoreInv, TypeOK
<1>1. ASSUME NEW e \in Entities, Edit(r, e, Ledger!Grantable(e))
      PROVE  \E q : EditInv(q) /\ q.at = "edit" /\ req'[r] = q
  <2>1. PICK x \in Offered(Ledger!Grantable(e)) :
          Read(r, e, [CopyOf(e) EXCEPT !.at = "edit", !.mine = Toggled(x, row[e].grants)])
    BY <1>1 DEF Edit
  <2>2. PICK c : c = CopyOf(e)
    OBVIOUS
  <2>3. PICK q : q = [c EXCEPT !.at = "edit", !.mine = Toggled(x, row[e].grants)]
    OBVIOUS
  <2>4. Active(e) /\ req'[r] = q
    BY <2>1, <2>2, <2>3 DEF Read
  <2>5. /\ c \in Request /\ c.entity = e /\ c.who = row[e].who /\ c.email = row[e].email
        /\ c.base.who = row[e].who /\ c.base.email = row[e].email /\ c.base.grants = row[e].grants
        /\ Exists(e) /\ Fits(e, row[e].grants)
    BY <2>2, <2>4, CopyFields
  <2>6. /\ q.at = "edit" /\ q.entity = e /\ q.who = c.who /\ q.email = c.email /\ q.base = c.base
        /\ q.mine = Toggled(x, row[e].grants)
    BY <2>3, <2>5 DEF Request
  <2>7. x \in Ledger!Grantable(e) /\ (x \in Linked => Exists(x))
    BY <2>1 DEF Offered, Active, Exists
  <2>8. Fits(e, q.mine)
    BY <2>5, <2>6, <2>7 DEF Fits, Toggled, Links
  <2>9. OneChange(q, q.mine)
    BY <2>5, <2>6, <2>7 DEF OneChange, Kept
  <2>10. EditInv(q)
    BY <2>5, <2>6, <2>8, <2>9 DEF EditInv
  <2>11. QED BY <2>4, <2>6, <2>10
<1>2. CASE EditUser(r) \/ EditGroup(r) \/ EditOrganization(r) \/ EditClient(r)
  <2>1. PICK e \in Entities : Edit(r, e, Ledger!Grantable(e))
    BY <1>2 DEF EditUser, EditGroup, EditOrganization, EditClient, Entities, Linked, Ledger!Grantable
  <2>2. QED BY <1>1, <2>1
<1>3. ASSUME NEW u \in Users, NEW who \in Emails, NEW q, NEW c, c = CopyOf(u), Read(r, u, q),
             q = [c EXCEPT !.at = "edit", !.who = who] \/ q = [c EXCEPT !.at = "edit", !.email = who]
      PROVE  \E n : EditInv(n) /\ n.at = "edit" /\ req'[r] = n
  <2>1. u \in Entities /\ Active(u) /\ req'[r] = q
    BY <1>3 DEF Read, Entities
  <2>2. /\ c \in Request /\ c.entity = u /\ c.who = row[u].who /\ c.email = row[u].email /\ c.mine = row[u].grants
        /\ c.base.who = row[u].who /\ c.base.email = row[u].email /\ c.base.grants = row[u].grants
        /\ Exists(u) /\ Fits(u, row[u].grants)
    BY <1>3, <2>1, CopyFields
  <2>3. /\ q.at = "edit" /\ q.entity = u /\ q.base = c.base /\ q.mine = c.mine
        /\ (q.who = who /\ q.email = c.email) \/ (q.who = c.who /\ q.email = who)
    <3>1. CASE q = [c EXCEPT !.at = "edit", !.who = who]
      BY <2>2, <3>1 DEF Request
    <3>2. CASE q = [c EXCEPT !.at = "edit", !.email = who]
      BY <2>2, <3>2 DEF Request
    <3>3. QED BY <1>3, <3>1, <3>2
  <2>4. OneChange(q, q.mine)
    BY <2>2, <2>3 DEF OneChange, Renamed
  <2>5. EditInv(q)
    BY <2>1, <2>2, <2>3, <2>4 DEF EditInv
  <2>6. QED BY <2>1, <2>3, <2>5
<1>4. CASE EditIdentity(r) \/ EditEmail(r)
  <2>1. PICK u \in Users, who \in Emails :
          \/ Read(r, u, [CopyOf(u) EXCEPT !.at = "edit", !.who = who])
          \/ Read(r, u, [CopyOf(u) EXCEPT !.at = "edit", !.email = who])
    BY <1>4 DEF EditIdentity, EditEmail
  <2>2. QED BY <1>3, <2>1
<1>5. QED BY <1>2, <1>4

(* A write ends the edit.                                                   *)
LEMMA WriteEnds ==
  ASSUME CoreInv, NEW r \in Requests, Write(r)
  PROVE  req'[r].at = "idle"
<1>1. PICK reqs, e : reqs = [req EXCEPT ![r] = Idle] /\ e = req[r].entity
  OBVIOUS
<1>2. reqs \in [Requests -> Request] /\ reqs[r] = Idle
  BY <1>1, IdleType DEF CoreInv, TypeOK
<1>3. \E calm \in BOOLEAN : Disturbed(e, reqs)[r] = [reqs[r] EXCEPT !.calm = calm]
  BY <1>2, DisturbedOne
<1>4. \A calm : [Idle EXCEPT !.calm = calm].at = "idle"
  BY DEF Idle
<1>5. QED BY <1>1, <1>2, <1>3, <1>4 DEF Write

LEMMA EditKeeps ==
  ASSUME CoreInv, NEW r \in Requests, EditNext(r)
  PROVE  EditInv(req[r])' /\ LoginInv(req[r])' /\ FirstInv(req[r])' /\ SaveInv(save[r])'
<1> Persists /\ UNCHANGED administrators
  BY EditRow, RowPersists DEF CoreInv, RowStep, Inserts, Puts
<1> req[r] \in Request /\ req \in [Requests -> Request]
  BY DEF CoreInv, TypeOK
<1>1. SaveInv(save[r])'
  BY EditType, SavePersists
<1>2. ASSUME NEW q, EditInv(q), q.at \in Edits, req'[r] = q
      PROVE  EditInv(req[r])' /\ LoginInv(req[r])' /\ FirstInv(req[r])'
  BY <1>2, KnownPersists DEF LoginInv, FirstInv, Edits
<1>3. CASE EditUser(r) \/ EditGroup(r) \/ EditOrganization(r) \/ EditClient(r) \/ EditIdentity(r) \/ EditEmail(r)
  BY <1>1, <1>2, <1>3, EditChanges DEF Edits
<1>4. CASE DeleteUser(r) \/ DeleteGroup(r) \/ DeleteOrganization(r) \/ DeleteClient(r)
  <2>1. PICK e \in Entities : Delete(r, e)
    BY <1>4 DEF DeleteUser, DeleteGroup, DeleteOrganization, DeleteClient, Entities
  <2>2. PICK c, current : c = CopyOf(e) /\ current = (e \notin outdated)
    OBVIOUS
  <2>3. PICK q : q = [c EXCEPT !.at = "delete", !.current = current]
    OBVIOUS
  <2>4. Active(e) /\ req'[r] = q
    BY <2>1, <2>2, <2>3 DEF Delete, Read
  <2>5. /\ c \in Request /\ c.entity = e /\ c.who = row[e].who /\ c.email = row[e].email /\ c.mine = row[e].grants
        /\ c.base.who = row[e].who /\ c.base.email = row[e].email /\ c.base.grants = row[e].grants
        /\ Exists(e) /\ Fits(e, row[e].grants)
    BY <2>2, <2>4, CopyFields
  <2>6. /\ q.at = "delete" /\ q.entity = e /\ q.who = c.who /\ q.email = c.email /\ q.base = c.base
        /\ q.mine = c.mine /\ q.current = current
    BY <2>3, <2>5 DEF Request
  <2>7. e \in Users /\ q.current => Configured(q.email, q.mine)
    BY <2>2, <2>5, <2>6 DEF CoreInv, RoleInv
  <2>8. EditInv(q)
    BY <2>5, <2>6, <2>7 DEF EditInv, Kept
  <2>9. QED BY <1>1, <1>2, <2>4, <2>6, <2>8 DEF Edits
<1>5. ASSUME NEW entities, NEW grants, Update(r, entities, grants), entities \subseteq Entities,
             grants = Ledger!Configured(req[r].entity, req[r].email, req[r].mine)
      PROVE  EditInv(req[r])' /\ LoginInv(req[r])' /\ FirstInv(req[r])'
  <2>1. PICK p : p = req[r]
    OBVIOUS
  <2>2. p.at = "edit" /\ p.entity \in Entities /\ Exists(p.entity) /\ Fits(p.entity, p.mine) /\ OneChange(p, p.mine)
    BY <1>5, <2>1 DEF Update, CoreInv, EditInv, Edits
  <2>3. /\ Fits(p.entity, grants)
        /\ p.entity \in Users => Configured(p.email, grants)
    <3>1. CASE p.entity \in Users
      <4>1. grants = AsConfigured(p.email, p.mine)
        BY <1>5, <2>1, <3>1 DEF Ledger!Configured, AsConfigured
      <4>2. QED BY <2>2, <3>1, <4>1, FitsConfigured
    <3>2. CASE p.entity \notin Users
      BY <1>5, <2>1, <2>2, <3>2 DEF Ledger!Configured
    <3>3. QED BY <3>1, <3>2
  <2>4. PICK q : q = [p EXCEPT !.at = "write", !.current = TRUE, !.mine = grants]
    OBVIOUS
  <2>5. /\ q.at = "write" /\ q.entity = p.entity /\ q.who = p.who /\ q.email = p.email /\ q.base = p.base
        /\ q.mine = grants
    BY <2>1, <2>4 DEF Request
  <2>6. req'[r] = q
    BY <1>5, <2>1, <2>4 DEF Update
  <2>7. OneChange(q, p.mine)
    BY <2>2, <2>5 DEF OneChange, Kept, Renamed
  <2>8. q.mine = Ledger!Configured(q.entity, q.email, p.mine)
    BY <1>5, <2>1, <2>5
  <2>9. EditInv(q)
    BY <2>2, <2>3, <2>5, <2>7, <2>8 DEF EditInv
  <2>10. QED BY <1>2, <2>5, <2>6, <2>9 DEF Edits
<1>6. CASE UpdateUser(r) \/ UpdateGroup(r) \/ UpdateOrganization(r) \/ UpdateClient(r)
  <2>1. CASE UpdateUser(r)
    <3>1. req[r].entity \in Users
      BY <2>1 DEF UpdateUser, Update
    <3>2. AsConfigured(req[r].email, req[r].mine) = Ledger!Configured(req[r].entity, req[r].email, req[r].mine)
      BY <3>1 DEF AsConfigured, Ledger!Configured
    <3>3. QED BY <1>1, <1>5, <2>1, <3>2 DEF UpdateUser, Entities
  <2>2. CASE UpdateGroup(r) \/ UpdateOrganization(r) \/ UpdateClient(r)
    <3>1. PICK entities \in {Groups, Organizations, Clients} : Update(r, entities, req[r].mine)
      BY <2>2 DEF UpdateGroup, UpdateOrganization, UpdateClient
    <3>2. req[r].entity \notin Users
      BY <3>1 DEF Update
    <3>3. req[r].mine = Ledger!Configured(req[r].entity, req[r].email, req[r].mine)
      BY <3>2 DEF Ledger!Configured
    <3>4. entities \subseteq Entities
      BY DEF Entities
    <3>5. QED BY <1>1, <1>5, <3>1, <3>3, <3>4
  <2>3. QED BY <1>6, <2>1, <2>2
<1>7. CASE Write(r) \/ EditFails(r)
  <2>1. Idle.at = "idle" /\ Idle \in Request
    BY IdleType DEF Idle
  <2>2. \A calm : [Idle EXCEPT !.calm = calm].at = "idle"
    BY DEF Idle
  <2>3. CASE EditFails(r)
    BY <1>1, <2>1, <2>3 DEF EditFails, EditInv, LoginInv, FirstInv, Edits
  <2>4. CASE Write(r)
    <3>1. req'[r].at = "idle"
      BY <1>1, <2>4, WriteEnds
    <3>2. QED BY <1>1, <3>1 DEF EditInv, LoginInv, FirstInv, Edits
  <2>5. QED BY <1>7, <2>3, <2>4
<1>8. QED BY <1>3, <1>4, <1>6, <1>7 DEF EditNext

LEMMA InitCore == Init => CoreInv
<1> SUFFICES ASSUME Init PROVE CoreInv
  OBVIOUS
<1>1. \A r \in Requests : req[r].at = "idle" /\ save[r].at = "none"
  BY DEF Init, Idle, NoSave
<1>2. PICK there \in SUBSET (Linked \cup Clients), named \in [Organizations -> Names] :
        row = [d \in Entities |->
                IF d \notin there THEN Ledger!Absent
                ELSE IF d \in Organizations THEN Present(named[d], None, Roles \ {Administrator})
                ELSE Present(None, None, IF d \in Groups THEN there \cap Organizations ELSE {})]
  BY DEF Init
<1>3. RowInv
  <2> SUFFICES ASSUME NEW e \in Entities, Exists(e) PROVE Fits(e, row[e].grants)
    BY DEF RowInv
  <2>1. e \in there /\ e \notin Users
    BY <1>2 DEF Exists, Ledger!Absent, Linked
  <2>2. CASE e \in Organizations
    <3>1. row[e].grants = Roles \ {Administrator}
      BY <1>2, <2>1, <2>2 DEF Present
    <3>2. QED BY <3>1 DEF Fits, Links, Linked, Ledger!Grantable
  <2>3. CASE e \notin Organizations
    <3>1. row[e].grants \subseteq there \cap Organizations
      BY <1>2, <2>1, <2>3 DEF Present
    <3>2. \A o \in there \cap Organizations : Exists(o)
      BY <1>2 DEF Exists, Present, Entities
    <3>3. Links(row[e].grants)
      BY <3>1, <3>2 DEF Links
    <3>4. QED BY <2>1, <2>3, <3>1, <3>3 DEF Fits, Ledger!Grantable
  <2>4. QED BY <2>2, <2>3
<1>4. RoleInv
  <2>1. \A u \in Users : ~Exists(u)
    BY <1>2 DEF Exists, Ledger!Absent, Linked, Entities
  <2>2. QED BY <2>1 DEF RoleInv, Init
<1>5. QED BY <1>1, <1>3, <1>4, TypeInit DEF CoreInv, EditInv, LoginInv, FirstInv, SaveInv, Edits

(* What a step leaves of the other requests and goroutines.                  *)
LEMMA AdminType ==
  ASSUME TypeOK, AdminCreates
  PROVE  req' = req /\ save' = save /\ changes' \in Nat /\ raced' \subseteq Owners /\ UNCHANGED <<outdated, config>>
  BY DEF TypeOK, AdminCreates, CreateUser, CreateGroup, CreateOrganization, CreateClient, Create, Owners

(* Groups and organizations list what they did.                              *)
Undisturbed == \A e \in Linked : Exists(e) => row'[e].grants = row[e].grants

(* Whoever collects roles is told of a write, and only its own goroutine     *)
(* sets its error.                                                           *)
Watches(o) ==
  /\ req'[o].err = req[o].err
  /\ req[o].at \in Tokens /\ req'[o].calm => req[o].calm /\ Undisturbed

LEMMA InsertsUndisturbed ==
  ASSUME TypeOK, Inserts
  PROVE  Undisturbed
  BY DEF TypeOK, Inserts, Insert, Undisturbed, Exists, Linked, Entities, Ledger!Absent

LEMMA SaveUndisturbed ==
  ASSUME CoreInv, NEW r \in Requests, SaveNext(r)
  PROVE  Undisturbed
<1>1. ASSUME PutSave(r) PROVE Undisturbed
  <2>1. /\ save[r].user \in Users /\ Exists(save[r].user) /\ save[r] \in Save
    BY <1>1 DEF PutSave, CoreInv, SaveInv, TypeOK
  <2>2. Saved(r) \in Content
    BY <2>1 DEF Saved, Save, Content, Owners
  <2>3. row[save[r].user].state \in {"active", "deleted"}
    BY <2>1 DEF Exists, CoreInv, TypeOK, Row, Entities
  <2>4. \A e \in Entities \ {save[r].user} : row'[e] = row[e]
    BY <1>1, <2>1, <2>2, <2>3, PutRow DEF PutSave, CoreInv, Entities
  <2>5. QED BY <2>1, <2>4 DEF Undisturbed, Linked, Entities
<1>2. QED BY <1>1 DEF SaveNext, SaveCheck, SaveWrite, SaveFails, Undisturbed

LEMMA WriteUndisturbed ==
  ASSUME CoreInv, NEW r \in Requests, Write(r), req[r].entity \notin Linked
  PROVE  Undisturbed
<1>1. /\ req[r].entity \in Entities /\ Exists(req[r].entity) /\ req[r] \in Request
  BY DEF Write, CoreInv, EditInv, Edits, TypeOK
<1>2. Edited(r) \in Content
  BY <1>1 DEF Edited, Request, Content
<1>3. StateWritten(r) \in {"active", "deleted"}
  BY <1>1 DEF StateWritten, Exists, CoreInv, TypeOK, Row
<1>4. \A e \in Entities \ {req[r].entity} : row'[e] = row[e]
  BY <1>1, <1>2, <1>3, PutRow DEF Write, CoreInv
<1>5. QED BY <1>1, <1>4 DEF Undisturbed, Linked, Entities

(* A step of an edit that does not write is not seen by the other requests.  *)
LEMMA EditOwn ==
  ASSUME CoreInv, NEW r \in Requests, EditNext(r), ~Write(r), NEW o \in Requests \ {r}
  PROVE  req'[o] = req[o]
<1>1. PICK q : req' = [req EXCEPT ![r] = q]
  <2>1. CASE EditUser(r) \/ EditGroup(r) \/ EditOrganization(r) \/ EditClient(r)
    BY <2>1 DEF EditUser, EditGroup, EditOrganization, EditClient, Edit, Read
  <2>2. CASE EditIdentity(r) \/ EditEmail(r)
    BY <2>2 DEF EditIdentity, EditEmail, Read
  <2>3. CASE UpdateUser(r) \/ UpdateGroup(r) \/ UpdateOrganization(r) \/ UpdateClient(r)
    BY <2>3 DEF UpdateUser, UpdateGroup, UpdateOrganization, UpdateClient, Update
  <2>4. CASE DeleteUser(r) \/ DeleteGroup(r) \/ DeleteOrganization(r) \/ DeleteClient(r)
    BY <2>4 DEF DeleteUser, DeleteGroup, DeleteOrganization, DeleteClient, Delete, Read
  <2>5. CASE EditFails(r)
    BY <2>5 DEF EditFails
  <2>6. QED BY <2>1, <2>2, <2>3, <2>4, <2>5 DEF EditNext
<1>2. QED BY <1>1 DEF CoreInv, TypeOK

(* Every step is one of the request, one that leaves it what it is about, or *)
(* a new configuration.                                                      *)
LEMMA OneActs ==
  ASSUME CoreInv, [Next]_vars, NEW o \in Requests
  PROVE  \/ Agrees(o) /\ save'[o] = save[o] /\ UNCHANGED administrators /\ Watches(o)
         \/ LoginNext(o) \/ SaveNext(o) \/ EditNext(o)
         \/ Reloads
<1> DEFINE Leaves == Agrees(o) /\ save'[o] = save[o] /\ UNCHANGED administrators /\ Watches(o)
<1>1. CASE UNCHANGED vars
  BY <1>1, SameAgrees DEF vars, config, CoreInv, Watches, Undisturbed
<1>2. CASE AdminCreates
  BY <1>2, AdminType, AdminInserts, InsertsUndisturbed, SameAgrees DEF CoreInv, Watches, config
<1>3. ASSUME NEW r \in Requests \ {o}, LoginNext(r) \/ SaveNext(r) \/ EditNext(r)
      PROVE  Leaves
  <2>1. CASE LoginNext(r)
    <3>1. req'[o] = req[o] /\ save'[o] = save[o] /\ UNCHANGED config
      BY <1>3, <2>1, LoginType
    <3>2. Undisturbed
      BY <2>1, LoginInserts, InsertsUndisturbed DEF CoreInv
    <3>3. QED BY <3>1, <3>2, SameAgrees DEF CoreInv, Watches, config
  <2>2. CASE SaveNext(r)
    <3>1. req'[o] = req[o] /\ save'[o] = save[o] /\ UNCHANGED config
      BY <1>3, <2>2, SaveType
    <3>2. QED BY <2>2, <3>1, SaveUndisturbed, SameAgrees DEF CoreInv, Watches, config
  <2>3. CASE EditNext(r)
    <3>1. Agrees(o) /\ save'[o] = save[o] /\ UNCHANGED administrators
      BY <1>3, <2>3, EditType DEF config
    <3>2. CASE Write(r)
      <4>1. PICK reqs : reqs = [req EXCEPT ![r] = Idle]
        OBVIOUS
      <4>2. reqs \in [Requests -> Request] /\ reqs[o] = req[o] /\ req[o] \in Request
        BY <1>3, <4>1, IdleType DEF CoreInv, TypeOK
      <4>3. req' = Disturbed(req[r].entity, reqs)
        BY <3>2, <4>1 DEF Write
      <4>4. PICK calm \in BOOLEAN : req'[o] = [req[o] EXCEPT !.calm = calm]
        <5>1. \E calm \in BOOLEAN : Disturbed(req[r].entity, reqs)[o] = [reqs[o] EXCEPT !.calm = calm]
          BY <4>2, DisturbedOne
        <5>2. QED BY <4>2, <4>3, <5>1
      <4>5. req'[o].err = req[o].err
        BY <4>2, <4>4 DEF Request
      <4>6. CASE req[r].entity \in Linked
        <5>1. req[o].at \in Tokens => Disturbed(req[r].entity, reqs)[o].calm = FALSE
          BY <4>2, <4>6, DisturbedOne
        <5>2. QED BY <3>1, <4>3, <4>5, <5>1 DEF Watches
      <4>7. CASE req[r].entity \notin Linked
        <5>1. Undisturbed
          BY <3>2, <4>7, WriteUndisturbed
        <5>2. req' = reqs
          BY <4>3, <4>7 DEF Disturbed
        <5>3. QED BY <3>1, <4>2, <4>5, <5>1, <5>2 DEF Watches
      <4>8. QED BY <4>6, <4>7
    <3>3. CASE ~Write(r)
      <4>1. row' = row /\ req'[o] = req[o]
        BY <1>3, <2>3, <3>3, EditReads, EditOwn
      <4>2. QED BY <3>1, <4>1 DEF Watches, Undisturbed
    <3>4. QED BY <3>2, <3>3
  <2>4. QED BY <1>3, <2>1, <2>2, <2>3
<1>4. QED BY <1>1, <1>2, <1>3 DEF Next, Reloads

LEMMA NextType ==
  ASSUME CoreInv, [Next]_vars
  PROVE  TypeOK'
<1> Persists
  BY NextRow, RowPersists DEF CoreInv
<1> USE DEF CoreInv, TypeOK, Persists
<1>1. CASE UNCHANGED vars
  BY <1>1 DEF vars, config
<1>2. CASE AdminCreates
  BY <1>2, AdminType DEF config
<1>3. ASSUME NEW configured \in Configurations, Reload(configured) PROVE TypeOK'
  <2>1. \A r \in Requests : [req[r] EXCEPT !.current = FALSE] \in Request
    BY DEF Request
  <2>2. \A r \in Requests : [save[r] EXCEPT !.current = FALSE] \in Save
    BY DEF Save
  <2>3. reloads' \in Nat /\ outdated' \subseteq Users
    BY <1>3 DEF Reload
  <2>4. QED BY <1>3, <2>1, <2>2, <2>3 DEF Reload
<1>4. ASSUME NEW r \in Requests, LoginNext(r) PROVE TypeOK'
  BY <1>4, LoginType DEF config
<1>5. ASSUME NEW r \in Requests, SaveNext(r) PROVE TypeOK'
  <2>1. outdated' \subseteq Users
    <3>1. PutSave(r) => save[r].user \in Users
      BY DEF PutSave, SaveInv
    <3>2. QED BY <1>5, <3>1 DEF SaveNext, SaveCheck, SaveWrite, SaveFails, PutSave, Put
  <2>2. QED BY <1>5, <2>1, SaveType DEF config
<1>6. ASSUME NEW r \in Requests, EditNext(r) PROVE TypeOK'
  <2>1. outdated' \subseteq Users
    BY <1>6, EditReads DEF Write, Put
  <2>2. QED BY <1>6, <2>1, EditType DEF config
<1>7. QED BY <1>1, <1>2, <1>3, <1>4, <1>5, <1>6 DEF Next

LEMMA NextCore ==
  ASSUME CoreInv, [Next]_vars
  PROVE  CoreInv'
<1> Persists
  BY NextRow, RowPersists DEF CoreInv
<1>1. RowInv' /\ RoleInv'
  BY NextRow, RowInvStep, RoleInvStep DEF CoreInv
<1>2. ASSUME NEW r \in Requests
      PROVE  EditInv(req[r])' /\ LoginInv(req[r])' /\ FirstInv(req[r])' /\ SaveInv(save[r])'
  <2>1. CASE Agrees(r) /\ save'[r] = save[r] /\ UNCHANGED administrators
    BY <2>1, RequestPersists, SavePersists
  <2>2. CASE Reloads
    BY <2>2, ReloadKeeps DEF Reloads
  <2>3. QED BY <2>1, <2>2, OneActs, LoginKeeps, SaveKeeps, EditKeeps
<1>3. QED BY <1>1, <1>2, NextType DEF CoreInv

LEMMA CoreInvariant == Spec => []CoreInv
<1>1. Init => CoreInv
  BY InitCore
<1>2. CoreInv /\ [Next]_vars => CoreInv'
  BY NextCore
<1>3. QED BY <1>1, <1>2, PTL DEF Spec

(* Every row, request and goroutine has the fields its code gives it.        *)
THEOREM TypeCorrect == Spec => []TypeOK
<1>1. CoreInv => TypeOK
  BY DEF CoreInv
<1>2. QED BY <1>1, CoreInvariant, PTL

(* Users have the administrator role exactly as configured, unless the       *)
(* configuration was replaced since: a copy that is still to be written has  *)
(* the role for the email it is written with, whoever changed that meanwhile.*)
THEOREM ConfiguredAdministrators == Spec => []AdministratorsConfigured
<1>1. CoreInv => AdministratorsConfigured
  BY DEF CoreInv, RoleInv, Configured, Exists, AdministratorsConfigured
<1>2. QED BY <1>1, CoreInvariant, PTL

-----------------------------------------------------------------------------
(* Rows change as the ledger says                                            *)

LEMMA InsertIsCreate ==
  ASSUME TypeOK, Inserts
  PROVE  Ledger!Next \/ UNCHANGED <<row, administrators>>
<1>1. ASSUME NEW e \in Entities, NEW who \in Owners, NEW email \in Emails \cup {None}, NEW grants \in Grants,
             Insert(e, who, email, grants), Fits(e, grants), e \in Users => Configured(email, grants)
      PROVE  Ledger!Create(e)
  <2>1. row[e] = Ledger!Absent /\ row' = [row EXCEPT ![e] = Present(who, email, grants)]
    BY <1>1 DEF Insert
  <2>2. row'[e].state = "active" /\ row'[e].email = email /\ row'[e].grants = grants
    BY <1>1, InsertRow
  <2>3. row' = [row EXCEPT ![e] = row'[e]]
    BY <2>1 DEF TypeOK
  <2>4. grants = Ledger!Configured(e, email, grants)
    <3>1. e \in Users => grants = AsConfigured(email, grants)
      BY <1>1, SameConfigured DEF Same
    <3>2. QED BY <3>1 DEF Ledger!Configured, AsConfigured
  <2>5. QED BY <1>1, <2>1, <2>2, <2>3, <2>4 DEF Ledger!Create, Fits
<1>2. QED BY <1>1 DEF Inserts, Ledger!Next, Ledger!Entities, Entities

(* What the ledger sets is what a row becomes, field by field.               *)
LEMMA PutIsSet ==
  ASSUME TypeOK, NEW e \in Entities, Exists(e), NEW copy \in Content, NEW current, NEW grants,
         Put(e, row[e].state, copy, current), copy.grants = Ledger!Configured(e, copy.email, grants)
  PROVE  Ledger!Set(e, copy.who, copy.email, grants)
<1>1. row' = [row EXCEPT ![e] = [state |-> row[e].state, who |-> copy.who, email |-> copy.email,
                                 grants |-> Ledger!Configured(e, copy.email, grants)]]
  BY DEF Put
<1>2. QED BY <1>1 DEF Ledger!Set, Exists

(* Whatever a login adds to its copy, with the role that is configured, is   *)
(* one link or only the role.                                                *)
LEMMA LinkConfigured ==
  ASSUME NEW u \in Users, NEW email, NEW grants, NEW S, Configured(email, grants), Same(grants, S)
  PROVE  grants = Ledger!Configured(u, email, S)
  BY SameConfigured DEF Ledger!Configured, AsConfigured

(* A goroutine writes its copy with the link it added.                       *)
LEMMA SaveIsChange ==
  ASSUME CoreInv, NEW r \in Requests, PutSave(r), UNCHANGED administrators
  PROVE  Ledger!Next \/ StaleWrite
<1> DEFINE u == save[r].user
<1>1. save[r] \in Save /\ save[r].at = "write"
  BY DEF CoreInv, TypeOK, PutSave
<1>2. /\ u \in Users /\ u \in Entities /\ Exists(u) /\ row[u] \in Row
      /\ save[r].base.who = save[r].who
      /\ \/ Same(save[r].grants, save[r].base.grants)
         \/ \E o \in Organizations : Same(save[r].grants, save[r].base.grants \cup {o})
      /\ save[r].current => Configured(save[r].who, save[r].grants)
  BY <1>1 DEF CoreInv, SaveInv, Entities, TypeOK
<1>3. PICK copy \in Content : /\ copy = CopyOfSave(save[r]) /\ copy = Saved(r)
                              /\ copy.who = save[r].who /\ copy.email = save[r].who
                              /\ copy.grants = save[r].grants
  <2>1. Saved(r) \in Content
    BY <1>1 DEF Saved, Save, Content, Owners
  <2>2. Saved(r) = CopyOfSave(save[r])
    BY DEF Saved, CopyOfSave
  <2>3. Saved(r).who = save[r].who /\ Saved(r).email = save[r].who /\ Saved(r).grants = save[r].grants
    BY DEF Saved
  <2>4. QED BY <2>1, <2>2, <2>3
<1>4. Put(u, row[u].state, copy, save[r].current)
  BY <1>3 DEF PutSave
<1>5. CASE Contents(u) # save[r].base \/ ~save[r].current
  <2>1. Overwrites(u, copy, save[r].base, save[r].current)
    BY <1>2, <1>4, <1>5 DEF Overwrites
  <2>2. QED BY <1>1, <1>3, <2>1 DEF StaleWrite
<1>6. CASE Contents(u) = save[r].base /\ save[r].current
  <2>1. row[u].who = save[r].who /\ row[u].grants = save[r].base.grants
    BY <1>2, <1>6, ContentsType DEF CoreInv, TypeOK
  <2>2. PICK x \in Ledger!Grantable(u) :
          copy.grants = Ledger!Configured(u, copy.email, row[u].grants \cup {x})
    <3>1. Same(copy.grants, row[u].grants \cup {Administrator})
          \/ \E o \in Organizations : Same(copy.grants, row[u].grants \cup {o})
      BY <1>2, <1>3, <2>1 DEF Same
    <3>2. Administrator \in Ledger!Grantable(u) /\ Organizations \subseteq Ledger!Grantable(u)
      BY <1>2 DEF Ledger!Grantable
    <3>3. PICK x \in Ledger!Grantable(u) : Same(copy.grants, row[u].grants \cup {x})
      BY <3>1, <3>2
    <3>4. PICK S : S = row[u].grants \cup {x} /\ Same(copy.grants, S)
      BY <3>3
    <3>5. Configured(copy.email, copy.grants)
      BY <1>2, <1>3, <1>6
    <3>6. copy.grants = Ledger!Configured(u, copy.email, S)
      BY <1>2, <3>4, <3>5, LinkConfigured
    <3>7. QED BY <3>4, <3>6
  <2>3. Ledger!Set(u, row[u].who, copy.email, row[u].grants \cup {x})
    BY <1>2, <1>3, <1>4, <2>1, <2>2, PutIsSet DEF CoreInv
  <2>4. copy.email \in Ledger!EmailsFor(u)
    BY <1>2, <1>3, <2>1 DEF Ledger!EmailsFor
  <2> HIDE DEF u
  <2>5. Ledger!Change(u)
    BY <2>2, <2>3, <2>4 DEF Ledger!Change
  <2>6. QED BY <1>2, <2>5 DEF Ledger!Next, Ledger!Entities, Entities
<1>7. QED BY <1>5, <1>6

(* An edit writes its copy with the one thing it changed, or deletes the row. *)
LEMMA WriteIsChange ==
  ASSUME CoreInv, NEW r \in Requests, Write(r)
  PROVE  Ledger!Next \/ StaleWrite
<1> DEFINE e == req[r].entity
<1>1. /\ req[r] \in Request /\ req[r].at \in {"write", "delete"} /\ UNCHANGED administrators
  BY DEF CoreInv, TypeOK, Write, config
<1>2. e \in Entities /\ Exists(e) /\ row[e] \in Row
  BY <1>1 DEF CoreInv, EditInv, Edits, TypeOK
<1>3. PICK copy \in Content : /\ copy = Edited(r) /\ copy.who = req[r].who
                              /\ copy.email = req[r].email /\ copy.grants = req[r].mine
  <2>1. Edited(r) \in Content
    BY <1>1 DEF Edited, Request, Content
  <2>2. Edited(r).who = req[r].who /\ Edited(r).email = req[r].email /\ Edited(r).grants = req[r].mine
    BY DEF Edited
  <2>3. QED BY <2>1, <2>2
<1>4. Put(e, StateWritten(r), copy, req[r].current) /\ StateWritten(r) \in {row[e].state, "deleted"}
  BY <1>3 DEF Write, StateWritten
<1>5. CASE Contents(e) # req[r].base \/ (e \in Users /\ ~req[r].current)
  <2>1. Overwrites(e, copy, req[r].base, req[r].current)
    BY <1>4, <1>5 DEF Overwrites
  <2>2. QED BY <1>1, <1>3, <2>1 DEF StaleWrite
<1>6. CASE Contents(e) = req[r].base /\ req[r].at = "write" /\ (e \in Users => req[r].current)
  <2>1. PICK grants :
          OneChange(req[r], grants) /\ req[r].mine = Ledger!Configured(e, req[r].email, grants)
    BY <1>6 DEF CoreInv, EditInv, Edits
  <2>2. /\ row[e].who = req[r].base.who /\ row[e].email = req[r].base.email
        /\ row[e].grants = req[r].base.grants
    BY <1>2, <1>6, ContentsType DEF CoreInv, TypeOK
  <2>3. StateWritten(r) = row[e].state
    BY <1>6 DEF StateWritten
  <2>4. Ledger!Set(e, copy.who, copy.email, grants)
    BY <1>2, <1>3, <1>4, <2>1, <2>3, PutIsSet DEF CoreInv
  <2>5. CASE Kept(req[r]) /\ \E x \in Ledger!Grantable(e) : grants = Toggled(x, req[r].base.grants)
    <3>1. PICK x \in Ledger!Grantable(e) : grants = Toggled(x, row[e].grants)
      BY <2>2, <2>5
    <3>2. grants \in {row[e].grants \cup {x}, row[e].grants \ {x}}
      BY <3>1 DEF Toggled
    <3>3. copy.email \in Ledger!EmailsFor(e) /\ copy.who = row[e].who
      BY <1>3, <2>2, <2>5 DEF Kept, Ledger!EmailsFor
    <3> HIDE DEF e
    <3>4. Ledger!Change(e)
      BY <2>4, <3>2, <3>3 DEF Ledger!Change
    <3>5. QED BY <1>1, <1>2, <3>4 DEF Ledger!Next, Ledger!Entities, Entities
  <2>6. CASE Renamed(req[r]) /\ grants = req[r].base.grants
    <3>1. e \in Users /\ grants = row[e].grants
      BY <2>2, <2>6 DEF Renamed
    <3>2. \/ copy.who \in Emails /\ copy.email = row[e].email
          \/ copy.who = row[e].who /\ copy.email \in Emails
      BY <1>3, <2>2, <2>6 DEF Renamed
    <3> HIDE DEF e
    <3>3. Ledger!Rename(e)
      BY <2>4, <3>1, <3>2 DEF Ledger!Rename
    <3>4. QED BY <1>1, <3>1, <3>3 DEF Ledger!Next
  <2>7. QED BY <2>1, <2>5, <2>6 DEF OneChange
<1>7. CASE Contents(e) = req[r].base /\ req[r].at = "delete"
  <2>1. StateWritten(r) = "deleted" /\ Kept(req[r]) /\ req[r].mine = req[r].base.grants
    BY <1>7 DEF StateWritten, CoreInv, EditInv, Edits
  <2>2. copy.who = row[e].who /\ copy.email = row[e].email /\ copy.grants = row[e].grants
    BY <1>2, <1>3, <1>7, <2>1, ContentsType DEF CoreInv, TypeOK, Kept
  <2>3. [row[e] EXCEPT !.state = "deleted"]
          = [state |-> "deleted", who |-> copy.who, email |-> copy.email, grants |-> copy.grants]
    BY <1>2, <2>2 DEF Row
  <2>4. row' = [row EXCEPT ![e] = [row[e] EXCEPT !.state = "deleted"]]
    BY <1>4, <2>1, <2>3 DEF Put
  <2>5. Ledger!Delete(e)
    BY <1>2, <2>4 DEF Ledger!Delete, Exists
  <2>6. QED BY <1>1, <1>2, <2>5 DEF Ledger!Next, Ledger!Entities, Entities
<1>8. QED BY <1>1, <1>5, <1>6, <1>7

LEMMA NextLedger ==
  ASSUME CoreInv, [Next]_vars
  PROVE  Ledger!Next \/ StaleWrite \/ UNCHANGED <<row, administrators>>
<1>1. CASE UNCHANGED vars
  BY <1>1 DEF vars, config
<1>2. CASE AdminCreates
  BY <1>2, AdminInserts, InsertIsCreate DEF CoreInv
<1>3. ASSUME NEW configured \in Configurations, Reload(configured) PROVE Ledger!Next
  BY <1>3 DEF Reload, Ledger!Next, Ledger!Reload
<1>4. ASSUME NEW r \in Requests, LoginNext(r) PROVE Ledger!Next \/ UNCHANGED <<row, administrators>>
  BY <1>4, LoginInserts, InsertIsCreate DEF CoreInv
<1>5. ASSUME NEW r \in Requests, SaveNext(r) PROVE Ledger!Next \/ StaleWrite \/ UNCHANGED <<row, administrators>>
  BY <1>5, SaveIsChange DEF SaveNext, SaveCheck, SaveWrite, SaveFails, config
<1>6. ASSUME NEW r \in Requests, EditNext(r) PROVE Ledger!Next \/ StaleWrite \/ UNCHANGED <<row, administrators>>
  BY <1>6, WriteIsChange, EditReads
<1>7. QED BY <1>1, <1>2, <1>3, <1>4, <1>5, <1>6 DEF Next

(* Except for writers with an old copy or an old role, the rows refine the   *)
(* ledger: a copy in hand differs from the row it was read from in one thing. *)
THEOREM GrantsKept == Spec => KeepsGrants
<1>1. CoreInv /\ [Next]_vars => [Ledger!Next \/ StaleWrite]_<<row, administrators>>
  BY NextLedger
<1>2. QED BY <1>1, CoreInvariant, PTL DEF Spec, KeepsGrants

-----------------------------------------------------------------------------
(* The roles in a token                                                      *)

(* While nothing disturbs it, a request has of the roles of its copy those   *)
(* it collected and those of the rows it has still to read.                  *)
TokenInv(q) ==
  q.at \in {"collect", "check"} /\ q.calm =>
    /\ q.mine \in Grants /\ Links(q.mine)
    /\ q.todo \subseteq Linked /\ Links(q.todo)
    /\ q.got \cup Inherited(q.todo) = Inherited(q.mine)
    /\ q.at = "check" => q.todo = {}

(* A failed collection leaves an error that only the goroutine clears.       *)
FailedInv(q, s) == q.at = "failed" /\ ~q.err => s = NoSave

TokensInv == \A r \in Requests : TokenInv(req[r]) /\ FailedInv(req[r], save[r])

(* What is inherited from a set of rows, row by row.                         *)
LEMMA InheritedMember ==
  ASSUME NEW S, NEW x
  PROVE  x \in Inherited(S) <=>
           /\ x \in Roles
           /\ \/ x \in S
              \/ \E e \in S \cap Linked : x \in row[e].grants
              \/ \E g \in S \cap Groups : \E o \in row[g].grants \cap Organizations : x \in row[o].grants
  BY DEF Inherited, Linked

LEMMA InheritedUndisturbed ==
  ASSUME TypeOK, RowInv, Undisturbed, NEW S, Links(S)
  PROVE  Inherited(S)' = Inherited(S)
<1>1. \A e \in S \cap Linked : row'[e].grants = row[e].grants
  BY DEF Links, Undisturbed
<1>2. \A g \in S \cap Groups : \A o \in row[g].grants \cap Organizations : row'[o].grants = row[o].grants
  BY DEF Links, RowInv, Fits, Undisturbed, Linked, Entities
<1>3. \A g \in S \cap Groups : row'[g].grants = row[g].grants
  BY <1>1 DEF Linked
<1>4. ASSUME NEW e \in S \cap Organizations PROVE row'[e].grants = row[e].grants
  BY <1>1 DEF Linked
<1>5. QED BY <1>2, <1>3, <1>4 DEF Inherited

(* Collecting begins with the roles of the copy and its links.               *)
LEMMA TokenStart ==
  ASSUME NEW q, NEW mine \in Grants, q = Collecting(mine), Links(mine)'
  PROVE  TokenInv(q)'
<1>1. q.at = "collect" /\ q.mine = mine /\ q.todo = mine \cap Linked /\ q.got = mine \cap Roles
  BY DEF Collecting, Idle
<1>2. q.todo \subseteq Linked /\ Links(q.todo)'
  BY <1>1 DEF Links
<1>3. ((mine \cap Roles) \cup Inherited(mine \cap Linked) = Inherited(mine))'
  BY DEF Inherited, Linked
<1>4. QED BY <1>1, <1>2, <1>3 DEF TokenInv

(* Reading a row collects its roles and leaves those of its organizations.   *)
LEMMA TokenCollect ==
  ASSUME TypeOK, RowInv, NEW q, TokenInv(q), q.at = "collect", q \in Request, NEW e \in q.todo, Active(e)
  PROVE  TokenInv(CollectedFrom(q, e))
<1> DEFINE n == CollectedFrom(q, e)
<1>1. /\ n.at = "collect" /\ n.mine = q.mine /\ n.calm = q.calm
      /\ n.todo = Rest(q.todo, e) /\ n.got = q.got \cup (row[e].grants \cap Roles)
  BY DEF CollectedFrom, Request
<1> HIDE DEF n
<1> SUFFICES ASSUME q.calm PROVE TokenInv(n)
  BY <1>1 DEF TokenInv, n
<1>2. /\ q.mine \in Grants /\ Links(q.mine) /\ q.todo \subseteq Linked /\ Links(q.todo)
      /\ q.got \cup Inherited(q.todo) = Inherited(q.mine)
  BY DEF TokenInv
<1>3. Exists(e) /\ e \in Entities /\ e \in Linked
  BY <1>2 DEF Active, Exists, Linked, Entities
<1>4. Links(row[e].grants) /\ row[e].grants \subseteq Ledger!Grantable(e)
  BY <1>3 DEF RowInv, Fits
<1>5. n.todo \subseteq Linked /\ Links(n.todo)
  BY <1>1, <1>2, <1>4 DEF Rest, Links, Linked
<1>6. ASSUME NEW x PROVE x \in n.got \cup Inherited(n.todo) <=> x \in q.got \cup Inherited(q.todo)
  <2>1. CASE e \in Organizations
    <3>1. row[e].grants \cap Organizations = {}
      BY <1>4, <2>1 DEF Ledger!Grantable
    <3>2. n.todo = q.todo \ {e} /\ e \notin Groups
      BY <1>1, <2>1, <3>1 DEF Rest
    <3>3. x \in Inherited(q.todo) <=> x \in Inherited(n.todo) \/ x \in row[e].grants \cap Roles
      <4>1. q.todo \cap Groups = n.todo \cap Groups
        BY <3>2
      <4>2. \A d : d \in q.todo \cap Linked <=> d = e \/ d \in n.todo \cap Linked
        BY <1>3, <3>2
      <4>3. x \in Roles => x \notin q.todo /\ x \notin n.todo
        BY <1>2, <1>5 DEF Linked
      <4>4. QED BY <4>1, <4>2, <4>3, InheritedMember
    <3>4. QED BY <1>1, <3>3
  <2>2. CASE e \in Groups
    <3>1. e \notin Roles /\ n.todo = (q.todo \ {e}) \cup (row[e].grants \cap Organizations)
      BY <1>1, <1>3, <2>2 DEF Rest, Linked
    <3>2. \A o \in row[e].grants \cap Organizations : o \in Linked /\ o \notin Groups /\ o \notin Roles
      BY DEF Linked
    <3>3. x \in Inherited(q.todo) => x \in Inherited(n.todo) \/ x \in row[e].grants \cap Roles
      <4> SUFFICES ASSUME x \in Inherited(q.todo) PROVE x \in Inherited(n.todo) \/ x \in row[e].grants \cap Roles
        OBVIOUS
      <4>1. x \in Roles
        BY InheritedMember
      <4>2. CASE x \in q.todo
        BY <1>2, <4>1, <4>2 DEF Linked
      <4>3. CASE \E d \in q.todo \cap Linked : x \in row[d].grants
        BY <3>1, <4>1, <4>3, InheritedMember
      <4>4. CASE \E g \in q.todo \cap Groups : \E o \in row[g].grants \cap Organizations : x \in row[o].grants
        BY <3>1, <3>2, <4>1, <4>4, InheritedMember
      <4>5. QED BY <4>2, <4>3, <4>4, InheritedMember
    <3>4. ASSUME x \in Inherited(n.todo) \/ x \in row[e].grants \cap Roles PROVE x \in Inherited(q.todo)
      <4>1. x \in Roles
        BY <3>4, InheritedMember
      <4>2. CASE x \in n.todo
        BY <1>5, <4>1, <4>2 DEF Linked
      <4>3. CASE \E d \in n.todo \cap Linked : x \in row[d].grants
        BY <1>3, <2>2, <3>1, <3>2, <4>1, <4>3, InheritedMember
      <4>4. CASE \E g \in n.todo \cap Groups : \E o \in row[g].grants \cap Organizations : x \in row[o].grants
        BY <3>1, <3>2, <4>1, <4>4, InheritedMember
      <4>5. CASE x \in row[e].grants
        BY <1>3, <4>1, <4>5, InheritedMember
      <4>6. QED BY <3>4, <4>2, <4>3, <4>4, <4>5, InheritedMember
    <3>5. QED BY <1>1, <3>3, <3>4
  <2>3. QED BY <1>3, <2>1, <2>2 DEF Linked
<1>7. n.got \cup Inherited(n.todo) = Inherited(n.mine)
  BY <1>1, <1>2, <1>6
<1>8. QED BY <1>1, <1>2, <1>5, <1>7 DEF TokenInv

LEMMA TokensOthers ==
  ASSUME CoreInv, TokensInv, Persists, NEW o \in Requests, Agrees(o), req'[o].calm => req[o].calm /\ Undisturbed
  PROVE  TokenInv(req[o])'
<1>1. PICK q : q = req[o]
  OBVIOUS
<1>2. /\ req'[o].at = q.at /\ req'[o].mine = q.mine /\ req'[o].todo = q.todo /\ req'[o].got = q.got
  BY <1>1, AgreesFields DEF CoreInv
<1> SUFFICES ASSUME q.at \in {"collect", "check"}, req'[o].calm PROVE TokenInv(req[o])'
  BY <1>2 DEF TokenInv
<1>3. /\ q.mine \in Grants /\ Links(q.mine) /\ q.todo \subseteq Linked /\ Links(q.todo)
      /\ q.got \cup Inherited(q.todo) = Inherited(q.mine)
      /\ q.at = "check" => q.todo = {}
  BY <1>1 DEF TokensInv, TokenInv
<1>4. Links(q.mine)' /\ Links(q.todo)'
  BY <1>3, LinksPersist
<1>5. Inherited(q.mine)' = Inherited(q.mine) /\ Inherited(q.todo)' = Inherited(q.todo)
  BY <1>3, InheritedUndisturbed DEF CoreInv
<1>6. (q.got \cup Inherited(q.todo) = Inherited(q.mine))'
  BY <1>3, <1>5
<1>7. TokenInv(q)'
  BY <1>3, <1>4, <1>6 DEF TokenInv
<1>8. QED BY <1>1, <1>2, <1>3, <1>7 DEF TokenInv

LEMMA TokensLogin ==
  ASSUME CoreInv, TokensInv, NEW r \in Requests, LoginNext(r)
  PROVE  TokenInv(req[r])' /\ FailedInv(req[r], save[r])'
<1> Persists /\ Undisturbed
  BY LoginInserts, RowPersists, InsertsUndisturbed DEF CoreInv, RowStep
<1> req[r] \in Request /\ req \in [Requests -> Request] /\ req' \in [Requests -> Request]
  BY LoginType DEF CoreInv, TypeOK
<1>1. ASSUME NEW mine \in Grants, Links(mine)', req'[r] = Collecting(mine)
      PROVE  TokenInv(req[r])' /\ FailedInv(req[r], save[r])'
  <2>1. PICK q : q = Collecting(mine)
    OBVIOUS
  <2>2. TokenInv(q)' /\ q.at = "collect"
    BY <1>1, <2>1, TokenStart DEF Collecting, Idle
  <2>3. QED BY <1>1, <2>1, <2>2 DEF FailedInv
<1>2. CASE FindOrganization(r) \/ CreateForLogin(r)
  <2>1. Links(req[r].mine) /\ req[r].mine \in Grants
    BY <1>2 DEF FindOrganization, CreateForLogin, CoreInv, LoginInv, Fits, Request
  <2>2. PICK m : m = req[r].mine
    OBVIOUS
  <2>3. Links(m)'
    BY <2>1, <2>2, LinksPersist
  <2>4. ASSUME NEW o \in Organizations, Exists(o)' PROVE Links(m \cup {o})' /\ m \cup {o} \in Grants
    BY <2>1, <2>2, <2>3, <2>4 DEF Links, Grants
  <2>5. CASE req' = [req EXCEPT ![r] = [@ EXCEPT !.at = "createOrganization"]]
    <3>1. req'[r].at = "createOrganization"
      BY <2>5 DEF Request
    <3>2. QED BY <3>1 DEF TokenInv, FailedInv
  <2>6. CASE Proceed(r, m)
    BY <1>1, <2>1, <2>2, <2>3, <2>6 DEF Proceed
  <2>7. ASSUME NEW o \in Organizations, Proceed(r, m \cup {o}),
             FoundOrganization(o, req[r].name) \/ Insert(o, req[r].name, None, {})
        PROVE  TokenInv(req[r])' /\ FailedInv(req[r], save[r])'
    <3>1. Exists(o)'
      BY <2>7 DEF FoundOrganization, Active, Insert, Present, Exists, Persists, CoreInv, TypeOK, Entities
    <3>2. QED BY <1>1, <2>4, <2>7, <3>1 DEF Proceed
  <2>8. QED BY <1>2, <2>2, <2>5, <2>6, <2>7 DEF FindOrganization, CreateForLogin
<1>3. ASSUME NEW u \in Users, Impersonate(r, u) PROVE TokenInv(req[r])' /\ FailedInv(req[r], save[r])'
  <2>1. PICK m : m = row[u].grants
    OBVIOUS
  <2>2. Links(m) /\ m \in Grants
    BY <1>3, <2>1 DEF Impersonate, Active, CoreInv, RowInv, Fits, Exists, TypeOK, Row, Entities
  <2>3. Links(m)'
    BY <2>2, LinksPersist
  <2>4. QED BY <1>1, <1>3, <2>1, <2>2, <2>3 DEF Impersonate
<1>4. CASE CollectRoles(r)
  <2>1. PICK e \in req[r].todo : Active(e) /\ req' = [req EXCEPT ![r] = CollectedFrom(req[r], e)]
    BY <1>4 DEF CollectRoles
  <2>2. PICK n : n = CollectedFrom(req[r], e)
    OBVIOUS
  <2>3. TokenInv(n)
    BY <1>4, <2>1, <2>2, TokenCollect DEF CollectRoles, TokensInv, CoreInv
  <2>4. row' = row /\ req'[r] = n
    BY <1>4, <2>1, <2>2 DEF CollectRoles
  <2>5. TokenInv(n)'
    BY <2>3, <2>4 DEF TokenInv, Links, Exists, Inherited
  <2>6. n.at = "collect"
    BY <1>4, <2>2 DEF CollectedFrom, CollectRoles, Request
  <2>7. QED BY <2>4, <2>5, <2>6 DEF FailedInv
<1>5. CASE Collected(r)
  <2>1. PICK q : q = req[r]
    OBVIOUS
  <2>2. PICK n : n = [q EXCEPT !.at = "check", !.err = FALSE]
    OBVIOUS
  <2>3. n.at = "check" /\ n.mine = q.mine /\ n.todo = q.todo /\ n.got = q.got /\ n.calm = q.calm
    BY <2>1, <2>2 DEF Request
  <2>4. TokenInv(q) /\ q.at = "collect" /\ q.todo = {}
    BY <1>5, <2>1 DEF TokensInv, Collected
  <2>5. TokenInv(n)
    BY <2>3, <2>4 DEF TokenInv
  <2>6. row' = row /\ req'[r] = n
    BY <1>5, <2>1, <2>2 DEF Collected
  <2>7. TokenInv(n)'
    BY <2>5, <2>6 DEF TokenInv, Links, Exists, Inherited
  <2>8. QED BY <2>3, <2>6, <2>7 DEF FailedInv
<1>6. CASE LoginFails(r) \/ CollectFails(r) \/ Answer(r)
  <2>1. Idle.at = "idle" /\ Uncollected.at = "failed" /\ Uncollected.err = TRUE
    BY DEF Idle, Uncollected
  <2>2. req'[r] = Idle \/ req'[r] = Uncollected
    BY <1>6 DEF LoginFails, CollectFails, Answer
  <2>3. QED BY <2>1, <2>2 DEF TokenInv, FailedInv
<1>7. CASE LoginCreate(r)
  <2>1. \A u, base, grants :
          [req[r] EXCEPT !.at = "organization", !.entity = u, !.base = base, !.mine = grants].at = "organization"
    BY DEF Request
  <2>2. req'[r].at = "organization"
    BY <1>7, <2>1 DEF LoginCreate
  <2>3. QED BY <2>2 DEF TokenInv, FailedInv
<1>8. CASE \E who \in Emails, name \in Names \cup {None} : LoginRead(r, who, name)
  <2>1. PICK who \in Emails, name \in Names \cup {None} : LoginRead(r, who, name)
    BY <1>8
  <2>2. /\ \A u, base, mine :
             [Idle EXCEPT !.at = "organization", !.entity = u, !.who = who, !.name = name,
                          !.base = base, !.mine = mine].at = "organization"
        /\ [Idle EXCEPT !.at = "create", !.who = who, !.name = name].at = "create"
    BY IdleType DEF Request
  <2>3. ASSUME NEW u \in Users,
               req' = [req EXCEPT ![r] =
                 [Idle EXCEPT !.at = "organization", !.entity = u, !.who = who, !.name = name,
                              !.base = Contents(u), !.mine = AsConfigured(row[u].email, row[u].grants)]]
        PROVE  req'[r].at = "organization"
    <3>1. PICK base, mine : base = Contents(u) /\ mine = AsConfigured(row[u].email, row[u].grants)
      OBVIOUS
    <3>2. req'[r] = [Idle EXCEPT !.at = "organization", !.entity = u, !.who = who, !.name = name,
                                 !.base = base, !.mine = mine]
      BY <2>3, <3>1
    <3>3. QED BY <2>2, <3>2
  <2>4. req'[r].at \in {"organization", "create"}
    BY <2>1, <2>2, <2>3 DEF LoginRead
  <2>5. QED BY <2>4 DEF TokenInv, FailedInv
<1>9. QED BY <1>2, <1>3, <1>4, <1>5, <1>6, <1>7, <1>8 DEF LoginNext

LEMMA TokensSave ==
  ASSUME CoreInv, TokensInv, NEW r \in Requests, SaveNext(r)
  PROVE  TokenInv(req[r])' /\ FailedInv(req[r], save[r])'
<1> req[r] \in Request /\ req \in [Requests -> Request] /\ save \in [Requests -> Save]
  BY DEF CoreInv, TypeOK
<1>1. Agrees(r) /\ Undisturbed /\ Persists
  BY SaveType, SaveUndisturbed, SaveRow, RowPersists DEF CoreInv, RowStep
<1>2. ASSUME NEW e \in BOOLEAN, SetErr(r, e) PROVE req'[r].calm = req[r].calm
  BY <1>2 DEF SetErr, Request
<1>3. req'[r].calm = req[r].calm
  BY <1>2 DEF SaveNext, SaveCheck, SaveWrite, SaveFails
<1>4. TokenInv(req[r])'
  BY <1>1, <1>3, TokensOthers
<1>5. CASE SaveCheck(r)
  <2>1. req' = req /\ save[r] # NoSave
    BY <1>5 DEF SaveCheck, NoSave
  <2>2. QED BY <1>4, <2>1 DEF TokensInv, FailedInv
<1>6. CASE SaveWrite(r) \/ SaveFails(r)
  BY <1>4, <1>6 DEF SaveWrite, SaveFails, FailedInv
<1>7. QED BY <1>5, <1>6 DEF SaveNext

(* An edit goes on as an edit or ends.                                       *)
LEMMA EditEnds ==
  ASSUME CoreInv, NEW r \in Requests, EditNext(r)
  PROVE  req'[r].at \in Edits \cup {"idle"}
<1> req[r] \in Request /\ req \in [Requests -> Request]
  BY DEF CoreInv, TypeOK
<1>1. ASSUME NEW e \in Entities, NEW q, NEW at \in {"edit", "delete"}, Read(r, e, q),
             \/ \E mine : q = [CopyOf(e) EXCEPT !.at = at, !.mine = mine]
             \/ \E who : q = [CopyOf(e) EXCEPT !.at = at, !.who = who]
             \/ \E email : q = [CopyOf(e) EXCEPT !.at = at, !.email = email]
             \/ \E current : q = [CopyOf(e) EXCEPT !.at = at, !.current = current]
      PROVE  req'[r].at \in Edits \cup {"idle"}
  <2>1. PICK c \in Request : c = CopyOf(e)
    BY <1>1, CopyFields DEF Read
  <2>2. q.at = at
    BY <1>1, <2>1 DEF Request
  <2>3. QED BY <1>1, <2>2 DEF Read, Edits
<1>2. ASSUME NEW entities, NEW grants, Update(r, entities, grants)
      PROVE  req'[r].at \in Edits \cup {"idle"}
  BY <1>2 DEF Update, Request, Edits
<1>3. CASE Write(r)
  BY <1>3, WriteEnds
<1>4. CASE EditFails(r)
  BY <1>4 DEF EditFails, Idle
<1>5. CASE EditUser(r) \/ EditGroup(r) \/ EditOrganization(r) \/ EditClient(r)
  <2>1. PICK e \in Entities, x \in Roles \cup Linked :
          Read(r, e, [CopyOf(e) EXCEPT !.at = "edit", !.mine = Toggled(x, row[e].grants)])
    BY <1>5 DEF EditUser, EditGroup, EditOrganization, EditClient, Edit, Offered, Entities, Linked
  <2>2. QED BY <1>1, <2>1
<1>6. CASE EditIdentity(r) \/ EditEmail(r)
  <2>1. PICK u \in Users, who \in Emails :
          \/ Read(r, u, [CopyOf(u) EXCEPT !.at = "edit", !.who = who])
          \/ Read(r, u, [CopyOf(u) EXCEPT !.at = "edit", !.email = who])
    BY <1>6 DEF EditIdentity, EditEmail
  <2>2. u \in Entities
    BY DEF Entities
  <2>3. QED BY <1>1, <2>1, <2>2
<1>7. CASE DeleteUser(r) \/ DeleteGroup(r) \/ DeleteOrganization(r) \/ DeleteClient(r)
  <2>1. PICK e \in Entities : Read(r, e, [CopyOf(e) EXCEPT !.at = "delete", !.current = e \notin outdated])
    BY <1>7 DEF DeleteUser, DeleteGroup, DeleteOrganization, DeleteClient, Delete, Entities
  <2>2. QED BY <1>1, <2>1
<1>8. CASE UpdateUser(r) \/ UpdateGroup(r) \/ UpdateOrganization(r) \/ UpdateClient(r)
  BY <1>2, <1>8 DEF UpdateUser, UpdateGroup, UpdateOrganization, UpdateClient
<1>9. QED BY <1>3, <1>4, <1>5, <1>6, <1>7, <1>8 DEF EditNext

(* A new configuration leaves a token as it is.                              *)
LEMMA TokensReload ==
  ASSUME CoreInv, TokensInv, NEW r \in Requests, Reloads
  PROVE  TokenInv(req[r])' /\ FailedInv(req[r], save[r])'
<1>1. PICK q \in Request, s \in Save : q = req[r] /\ s = save[r]
  BY DEF CoreInv, TypeOK
<1>2. PICK n, t : n = [q EXCEPT !.current = FALSE] /\ t = [s EXCEPT !.current = FALSE]
  OBVIOUS
<1>3. row' = row /\ req'[r] = n /\ save'[r] = t
  BY <1>1, <1>2 DEF Reloads, Reload
<1>4. /\ n.at = q.at /\ n.mine = q.mine /\ n.todo = q.todo /\ n.got = q.got /\ n.calm = q.calm
      /\ n.err = q.err
  BY <1>1, <1>2 DEF Request
<1>5. s = NoSave => t = NoSave
  <2>1. [NoSave EXCEPT !.current = NoSave.current] = NoSave
    BY IdleType DEF Save
  <2>2. NoSave.current = FALSE
    BY DEF NoSave
  <2>3. QED BY <1>2, <2>1, <2>2
<1>6. TokenInv(n) /\ FailedInv(n, t)
  BY <1>1, <1>4, <1>5 DEF TokensInv, TokenInv, FailedInv
<1>7. TokenInv(n)'
  BY <1>3, <1>6 DEF TokenInv, Links, Exists, Inherited
<1>8. QED BY <1>3, <1>6, <1>7 DEF FailedInv

(* A token has the inherited roles because what was collected and what is    *)
(* still to be read never lose any of them.                                  *)
THEOREM TokensInherit == Spec => []TokenRoles
<1>1. Init => TokensInv
  BY DEF Init, Idle, TokensInv, TokenInv, FailedInv
<1>2. CoreInv /\ TokensInv /\ [Next]_vars => TokensInv'
  <2> SUFFICES ASSUME CoreInv, TokensInv, [Next]_vars, NEW r \in Requests
               PROVE  TokenInv(req[r])' /\ FailedInv(req[r], save[r])'
    BY DEF TokensInv
  <2>1. CASE Agrees(r) /\ save'[r] = save[r] /\ Watches(r)
    <3>1. Persists
      BY NextRow, RowPersists DEF CoreInv
    <3>2. req'[r].at = req[r].at
      BY <2>1, AgreesFields DEF CoreInv
    <3>3. TokenInv(req[r])'
      <4>1. CASE req[r].at \in Tokens
        BY <2>1, <3>1, <4>1, TokensOthers DEF Watches
      <4>2. CASE req[r].at \notin Tokens
        BY <3>2, <4>2 DEF TokenInv, Tokens
      <4>3. QED BY <4>1, <4>2
    <3>4. QED BY <2>1, <3>2, <3>3 DEF TokensInv, FailedInv, Watches
  <2>2. CASE EditNext(r)
    BY <2>2, EditEnds DEF TokenInv, FailedInv, Edits
  <2>3. QED BY <2>1, <2>2, OneActs, TokensLogin, TokensSave, TokensReload
<1>3. TokensInv => TokenRoles
  <2> SUFFICES ASSUME TokensInv, NEW r \in Requests, ~req[r].err
               PROVE  /\ req[r].at = "check" /\ req[r].calm => req[r].got = Inherited(req[r].mine)
                      /\ req[r].at = "failed" => save[r] = NoSave
    BY DEF TokenRoles
  <2>1. Inherited({}) = {}
    BY DEF Inherited
  <2>2. QED BY <2>1 DEF TokensInv, TokenInv, FailedInv
<1>4. QED BY <1>1, <1>2, <1>3, CoreInvariant, PTL DEF Spec

-----------------------------------------------------------------------------
(* One user per identity                                                     *)

Creates(q, who) == q.at = "create" /\ q.who = who

(* Who is about to be created alone is nobody yet.                           *)
AloneInv ==
  \A r \in Requests : req[r].at = "create" /\ req[r].who \notin raced =>
    /\ NoUser(req[r].who)
    /\ \A s \in Requests \ {r} : ~Creates(req[s], req[r].who)

(* A copy has the identity of its row, unless an administrator changed that: *)
(* then both are noted.                                                      *)
Back(e, who) == who = row[e].who \/ (who \in raced /\ row[e].who \in raced)

Holds(q) == q.at \in Edits \cup {"organization", "createOrganization"} /\ q.entity \in Users

BackOf(q, s) ==
  /\ Holds(q) => Back(q.entity, q.who)
  /\ s.at # "none" => Back(s.user, s.who)

BackInv == \A r \in Requests : BackOf(req[r], save[r])

UserInv == OneUserPerIdentity /\ AloneInv

(* No user becomes active, but for one.                                      *)
NoneBut(u) == \A v \in Users \ {u} : Active(v)' => Active(v) /\ row'[v].who = row[v].who

(* No user becomes active, and none gets an identity that is not noted.      *)
NoneNew == \A v \in Users : Active(v)' => Active(v) /\ (row'[v].who = row[v].who \/ row'[v].who \in raced)

(* An identity gives way only to one in a copy.                              *)
Identities ==
  /\ raced \subseteq raced'
  /\ \A v \in Users : Exists(v) => Back(v, row'[v].who)

(* A copy that is written has the identity of its row, or both are noted.    *)
LEMMA PutIdentities ==
  ASSUME CoreInv, NEW e \in Entities, NEW state \in {"active", "deleted"}, NEW copy \in Content,
         NEW current, Put(e, state, copy, current), raced' = raced, e \in Users => Back(e, copy.who)
  PROVE  Identities
<1>1. row'[e].who = copy.who /\ \A d \in Entities \ {e} : row'[d] = row[d]
  BY PutRow DEF CoreInv
<1>2. QED BY <1>1 DEF Identities, Back, Entities

LEMMA SaveIdentities ==
  ASSUME CoreInv, BackInv, NEW r \in Requests, PutSave(r), raced' = raced
  PROVE  Identities
<1>1. /\ save[r] \in Save /\ save[r].at = "write" /\ save[r].user \in Users /\ save[r].user \in Entities
      /\ Exists(save[r].user) /\ Back(save[r].user, save[r].who)
  BY DEF PutSave, CoreInv, SaveInv, TypeOK, BackInv, BackOf, Entities
<1>2. PICK copy \in Content : copy = Saved(r) /\ copy.who = save[r].who
  <2>1. Saved(r) \in Content /\ Saved(r).who = save[r].who
    BY <1>1 DEF Saved, Save, Content, Owners
  <2>2. QED BY <2>1
<1>3. PICK state \in {"active", "deleted"} : state = row[save[r].user].state
  BY <1>1 DEF Exists, CoreInv, TypeOK, Row
<1>4. Put(save[r].user, state, copy, save[r].current)
  BY <1>2, <1>3 DEF PutSave
<1>5. QED BY <1>1, <1>2, <1>4, PutIdentities

LEMMA WriteIdentities ==
  ASSUME CoreInv, BackInv, NEW r \in Requests, Write(r)
  PROVE  Identities
<1>1. /\ req[r] \in Request /\ req[r].entity \in Entities /\ Exists(req[r].entity)
      /\ req[r].entity \in Users => Back(req[r].entity, req[r].who)
  BY DEF Write, CoreInv, EditInv, Edits, TypeOK, BackInv, BackOf, Holds
<1>2. PICK copy \in Content : copy = Edited(r) /\ copy.who = req[r].who
  <2>1. Edited(r) \in Content /\ Edited(r).who = req[r].who
    BY <1>1 DEF Edited, Request, Content
  <2>2. QED BY <2>1
<1>3. PICK state \in {"active", "deleted"} : state = StateWritten(r)
  BY <1>1 DEF StateWritten, Exists, CoreInv, TypeOK, Row
<1>4. Put(req[r].entity, state, copy, req[r].current) /\ raced' = raced
  BY <1>2, <1>3 DEF Write
<1>5. QED BY <1>1, <1>2, <1>4, PutIdentities

LEMMA InsertsIdentities ==
  ASSUME CoreInv, Inserts, raced \subseteq raced'
  PROVE  Identities
<1>1. \A v \in Users : Exists(v) => row'[v] = row[v]
  <2>1. CASE UNCHANGED row
    BY <2>1
  <2>2. ASSUME NEW e \in Entities, NEW who \in Owners, NEW email \in Emails \cup {None}, NEW grants \in Grants,
               Insert(e, who, email, grants)
        PROVE  \A v \in Users : Exists(v) => row'[v] = row[v]
    BY <2>2, InsertRow DEF CoreInv, Entities
  <2>3. QED BY <2>1, <2>2 DEF Inserts
<1>2. QED BY <1>1 DEF Identities, Back

(* An edit only notes the identities it changes.                             *)
LEMMA EditRaced ==
  ASSUME NEW r \in Requests, EditNext(r)
  PROVE  raced \subseteq raced'
  BY DEF EditNext, EditUser, EditGroup, EditOrganization, EditClient, EditIdentity, EditEmail, Edit, Read,
         UpdateUser, UpdateGroup, UpdateOrganization, UpdateClient, Update, DeleteUser, DeleteGroup,
         DeleteOrganization, DeleteClient, Delete, Write, EditFails

LEMMA NextIdentities ==
  ASSUME CoreInv, BackInv, [Next]_vars
  PROVE  Identities
<1>1. CASE row' = row /\ raced \subseteq raced'
  BY <1>1 DEF Identities, Back
<1>2. CASE UNCHANGED vars \/ Reloads
  BY <1>1, <1>2 DEF vars, Reloads, Reload
<1>3. CASE AdminCreates
  <2>1. raced \subseteq raced'
    BY <1>3 DEF AdminCreates, CreateUser, CreateGroup, CreateOrganization, CreateClient, Create
  <2>2. QED BY <1>3, <2>1, AdminInserts, InsertsIdentities DEF CoreInv
<1>4. ASSUME NEW r \in Requests, LoginNext(r) PROVE Identities
  <2>1. raced \subseteq raced'
    BY <1>4 DEF LoginNext, LoginRead, LoginCreate, FindOrganization, CreateForLogin, LoginFails, CollectRoles,
                CollectFails, Collected, Answer, Impersonate
  <2>2. QED BY <1>4, <2>1, LoginInserts, InsertsIdentities
<1>5. ASSUME NEW r \in Requests, SaveNext(r) PROVE Identities
  <2>1. raced' = raced
    BY <1>5 DEF SaveNext, SaveCheck, SaveWrite, SaveFails
  <2>2. row' = row \/ PutSave(r)
    BY <1>5 DEF SaveNext, SaveCheck, SaveWrite, SaveFails
  <2>3. QED BY <1>1, <2>1, <2>2, SaveIdentities
<1>6. ASSUME NEW r \in Requests, EditNext(r) PROVE Identities
  BY <1>1, <1>6, WriteIdentities, EditReads, EditRaced
<1>7. QED BY <1>2, <1>3, <1>4, <1>5, <1>6 DEF Next, Reloads

(* What is known of a copy stays true while others act.                      *)
LEMMA BackPersists ==
  ASSUME CoreInv, Identities, NEW e \in Users, NEW who, Exists(e), Back(e, who)
  PROVE  Back(e, who)'
  BY DEF Identities, Back

LEMMA HeldPersists ==
  ASSUME CoreInv, BackInv, Identities, NEW r \in Requests, NEW q, Holds(q), q.entity = req[r].entity,
         q.who = req[r].who, Holds(req[r])
  PROVE  Back(q.entity, q.who)'
<1>1. PICK e, who : e \in Users /\ e = q.entity /\ who = q.who
  BY DEF Holds
<1>2. Exists(e)
  BY <1>1 DEF Holds, CoreInv, EditInv, LoginInv
<1>3. Back(e, who)
  BY <1>1 DEF BackInv, BackOf
<1>4. QED BY <1>1, <1>2, <1>3, BackPersists

LEMMA SavedPersists ==
  ASSUME CoreInv, BackInv, Identities, NEW r \in Requests, NEW s, s.at # "none" => save[r].at # "none",
         s.user = save[r].user, s.who = save[r].who
  PROVE  (s.at # "none" => Back(s.user, s.who))'
<1> SUFFICES ASSUME s.at # "none" PROVE Back(s.user, s.who)'
  OBVIOUS
<1>1. PICK e, who : e \in Users /\ e = s.user /\ who = s.who
  BY DEF CoreInv, SaveInv
<1>2. Exists(e) /\ Back(e, who)
  BY <1>1 DEF CoreInv, SaveInv, BackInv, BackOf
<1>3. QED BY <1>1, <1>2, BackPersists

LEMMA LoginBack ==
  ASSUME CoreInv, BackInv, Identities, NEW r \in Requests, LoginNext(r)
  PROVE  BackOf(req[r], save[r])'
<1> req[r] \in Request /\ req \in [Requests -> Request] /\ save \in [Requests -> Save] /\ req'[r].at \notin Edits
  BY LoginType DEF CoreInv, TypeOK
<1>1. ASSUME save'[r] = save[r] \/ save'[r] = NoSave
      PROVE  (save[r].at # "none" => Back(save[r].user, save[r].who))'
  <2>1. CASE save'[r] = save[r]
    <3>1. PICK s : s = save[r]
      OBVIOUS
    <3>2. (s.at # "none" => Back(s.user, s.who))'
      BY <3>1, SavedPersists
    <3>3. QED BY <2>1, <3>1, <3>2
  <2>2. CASE save'[r] = NoSave
    BY <2>2 DEF NoSave
  <2>3. QED BY <1>1, <2>1, <2>2
<1>2. ASSUME save'[r] = save[r], req'[r].at \notin {"organization", "createOrganization"}
      PROVE  BackOf(req[r], save[r])'
  BY <1>1, <1>2 DEF BackOf, Holds
<1>3. ASSUME req[r].at \in {"organization", "createOrganization"}
      PROVE  /\ req[r].entity \in Users
             /\ Back(req[r].entity, req[r].who) /\ Exists(req[r].entity)
  BY <1>3 DEF CoreInv, LoginInv, BackInv, BackOf, Holds
<1>4. ASSUME NEW mine, Proceed(r, mine), req[r].at \in {"organization", "createOrganization"}
      PROVE  BackOf(req[r], save[r])'
  <2>1. PICK e, who : e \in Users /\ e = req[r].entity /\ who = req[r].who
    BY <1>3, <1>4
  <2>2. Back(e, who)'
    BY <1>3, <1>4, <2>1, BackPersists
  <2>3. save'[r].user = e /\ save'[r].who = who
    BY <1>4, <2>1 DEF Proceed, Copied, NoSave
  <2>4. req'[r].at = "collect"
    BY <1>4 DEF Proceed, Collecting, Idle
  <2>5. QED BY <2>2, <2>3, <2>4 DEF BackOf, Holds, Edits
<1>5. CASE FindOrganization(r)
  <2>1. CASE req' = [req EXCEPT ![r] = [@ EXCEPT !.at = "createOrganization"]] /\ UNCHANGED save
    <3>1. PICK q : q = [req[r] EXCEPT !.at = "createOrganization"]
      OBVIOUS
    <3>2. q.at = "createOrganization" /\ q.entity = req[r].entity /\ q.who = req[r].who
      BY <3>1 DEF Request
    <3>3. req[r].at = "organization" /\ Holds(req[r]) /\ Holds(q)
      BY <1>3, <1>5, <3>2 DEF FindOrganization, Holds
    <3>4. Back(q.entity, q.who)'
      BY <3>2, <3>3, HeldPersists
    <3>5. req'[r] = q
      BY <2>1, <3>1
    <3>6. QED BY <1>1, <2>1, <3>4, <3>5 DEF BackOf
  <2>2. QED BY <1>4, <1>5, <2>1 DEF FindOrganization
<1>6. CASE CreateForLogin(r)
  BY <1>4, <1>6 DEF CreateForLogin
<1>7. CASE LoginCreate(r)
  <2>1. PICK u \in Users :
          /\ CreateUserFromIdentity(u, req[r].who)
          /\ req' = [req EXCEPT ![r] = [req[r] EXCEPT !.at = "organization", !.entity = u,
                                                     !.base = Contents(u)', !.mine = row'[u].grants]]
    BY <1>7 DEF LoginCreate
  <2>2. req'[r].entity = u /\ req'[r].who = req[r].who
    BY <2>1 DEF Request
  <2>3. row'[u].who = req[r].who
    BY <2>1 DEF CreateUserFromIdentity, Insert, Present, CoreInv, TypeOK, Entities
  <2>4. save'[r] = save[r]
    BY <1>7 DEF LoginCreate
  <2>5. QED BY <1>1, <2>2, <2>3, <2>4 DEF BackOf, Back
<1>8. ASSUME NEW who \in Emails, NEW name \in Names \cup {None}, LoginRead(r, who, name)
      PROVE  BackOf(req[r], save[r])'
  <2>1. save'[r] = save[r] /\ row' = row
    BY <1>8 DEF LoginRead
  <2>2. ASSUME NEW u \in Users, FoundUser(u, who),
               req' = [req EXCEPT ![r] =
                 [Idle EXCEPT !.at = "organization", !.entity = u, !.who = who, !.name = name,
                              !.base = Contents(u), !.mine = AsConfigured(row[u].email, row[u].grants)]]
        PROVE  BackOf(req[r], save[r])'
    <3>1. PICK base, mine : base = Contents(u) /\ mine = AsConfigured(row[u].email, row[u].grants)
      OBVIOUS
    <3>2. req'[r] = [Idle EXCEPT !.at = "organization", !.entity = u, !.who = who, !.name = name,
                                 !.base = base, !.mine = mine]
      BY <2>2, <3>1
    <3>3. req'[r].entity = u /\ req'[r].who = who
      BY <3>2, IdleType DEF Request
    <3>4. row'[u].who = who
      BY <2>1, <2>2 DEF FoundUser
    <3>5. QED BY <1>1, <2>1, <3>3, <3>4 DEF BackOf, Back
  <2>3. CASE req' = [req EXCEPT ![r] = [Idle EXCEPT !.at = "create", !.who = who, !.name = name]]
    <3>1. req'[r].at = "create"
      BY <2>3, IdleType DEF Request
    <3>2. QED BY <1>2, <2>1, <3>1
  <2>4. QED BY <1>8, <2>2, <2>3 DEF LoginRead
<1>9. CASE LoginFails(r) \/ CollectRoles(r) \/ CollectFails(r) \/ Collected(r) \/ Answer(r)
             \/ \E u \in Users : Impersonate(r, u)
  <2>1. /\ Idle.at = "idle" /\ Uncollected.at = "failed" /\ \A mine : Collecting(mine).at = "collect"
        /\ \A e : CollectedFrom(req[r], e).at = req[r].at
        /\ [req[r] EXCEPT !.at = "check", !.err = FALSE].at = "check"
    BY DEF Idle, Uncollected, Collecting, CollectedFrom, Request
  <2>2. req'[r].at \in {"idle", "failed", "collect", "check"}
    BY <1>9, <2>1 DEF LoginFails, CollectRoles, CollectFails, Collected, Answer, Impersonate
  <2>3. save'[r] = save[r]
    BY <1>9 DEF LoginFails, CollectRoles, CollectFails, Collected, Answer, Impersonate
  <2>4. QED BY <1>2, <2>2, <2>3
<1>10. QED BY <1>5, <1>6, <1>7, <1>8, <1>9 DEF LoginNext

LEMMA SaveBack ==
  ASSUME CoreInv, BackInv, Identities, NEW r \in Requests, SaveNext(r)
  PROVE  BackOf(req[r], save[r])'
<1> save[r] \in Save /\ save \in [Requests -> Save]
  BY DEF CoreInv, TypeOK
<1>1. PICK q : q = req'[r]
  OBVIOUS
<1>2. q.at = req[r].at /\ q.entity = req[r].entity /\ q.who = req[r].who
  BY <1>1, SaveType, AgreesFields DEF CoreInv
<1>3. Holds(q) => Back(q.entity, q.who)'
  BY <1>2, HeldPersists DEF Holds
<1>4. PICK s : s = save'[r]
  OBVIOUS
<1>5. (s.at # "none" => Back(s.user, s.who))'
  <2>1. CASE SaveCheck(r)
    <3>1. PICK w, grants :
            /\ w \in Save /\ w = save[r]
            /\ save' = [save EXCEPT ![r] = [w EXCEPT !.at = "write", !.current = TRUE, !.grants = grants]]
      BY <2>1 DEF SaveCheck
    <3>2. s = [w EXCEPT !.at = "write", !.current = TRUE, !.grants = grants]
      BY <1>4, <3>1
    <3>3. s.user = save[r].user /\ s.who = save[r].who /\ save[r].at # "none"
      BY <2>1, <3>1, <3>2 DEF Save, SaveCheck
    <3>4. QED BY <3>3, SavedPersists
  <2>2. CASE SaveWrite(r) \/ SaveFails(r)
    <3>1. s = NoSave
      BY <1>4, <2>2 DEF SaveWrite, SaveFails
    <3>2. s.at = "none"
      BY <3>1 DEF NoSave
    <3>3. QED BY <3>2
  <2>3. QED BY <2>1, <2>2 DEF SaveNext
<1>6. QED BY <1>1, <1>3, <1>4, <1>5 DEF BackOf, Holds

LEMMA EditBack ==
  ASSUME CoreInv, BackInv, Identities, NEW r \in Requests, EditNext(r)
  PROVE  BackOf(req[r], save[r])'
<1> req[r] \in Request /\ req \in [Requests -> Request]
  BY DEF CoreInv, TypeOK
<1>1. (save[r].at # "none" => Back(save[r].user, save[r].who))'
  <2>1. PICK s : s = save[r] /\ save'[r] = s
    BY EditType
  <2>2. (s.at # "none" => Back(s.user, s.who))'
    BY <2>1, SavedPersists
  <2>3. QED BY <2>1, <2>2
<1>2. ASSUME NEW e \in Entities, NEW q, Read(r, e, q), q.entity = e,
             q.who = row[e].who \/ (q.who \in raced' /\ row[e].who \in raced')
      PROVE  BackOf(req[r], save[r])'
  <2>1. row' = row /\ req'[r] = q
    BY <1>2 DEF Read
  <2>2. QED BY <1>1, <1>2, <2>1 DEF BackOf, Back
<1>3. CASE EditUser(r) \/ EditGroup(r) \/ EditOrganization(r) \/ EditClient(r)
  <2>1. PICK e, mine : e \in Entities /\ Read(r, e, [CopyOf(e) EXCEPT !.at = "edit", !.mine = mine])
    BY <1>3 DEF EditUser, EditGroup, EditOrganization, EditClient, Edit, Entities
  <2>2. PICK c \in Request : c = CopyOf(e) /\ c.entity = e /\ c.who = row[e].who
    BY <2>1, CopyFields DEF Read
  <2>3. PICK q : q = [c EXCEPT !.at = "edit", !.mine = mine]
    OBVIOUS
  <2>4. q.entity = e /\ q.who = row[e].who
    BY <2>2, <2>3 DEF Request
  <2>5. QED BY <1>2, <2>1, <2>2, <2>3, <2>4
<1>4. CASE DeleteUser(r) \/ DeleteGroup(r) \/ DeleteOrganization(r) \/ DeleteClient(r)
  <2>1. PICK e, current : e \in Entities /\ Read(r, e, [CopyOf(e) EXCEPT !.at = "delete", !.current = current])
    BY <1>4 DEF DeleteUser, DeleteGroup, DeleteOrganization, DeleteClient, Delete, Entities
  <2>2. PICK c \in Request : c = CopyOf(e) /\ c.entity = e /\ c.who = row[e].who
    BY <2>1, CopyFields DEF Read
  <2>3. PICK q : q = [c EXCEPT !.at = "delete", !.current = current]
    OBVIOUS
  <2>4. q.entity = e /\ q.who = row[e].who
    BY <2>2, <2>3 DEF Request
  <2>5. QED BY <1>2, <2>1, <2>2, <2>3, <2>4
<1>5. CASE EditEmail(r)
  <2>1. PICK u \in Users, email \in Emails : Read(r, u, [CopyOf(u) EXCEPT !.at = "edit", !.email = email])
    BY <1>5 DEF EditEmail
  <2>2. u \in Entities
    BY DEF Entities
  <2>3. PICK c \in Request : c = CopyOf(u) /\ c.entity = u /\ c.who = row[u].who
    BY <2>1, <2>2, CopyFields DEF Read
  <2>4. PICK q : q = [c EXCEPT !.at = "edit", !.email = email]
    OBVIOUS
  <2>5. q.entity = u /\ q.who = row[u].who
    BY <2>3, <2>4 DEF Request
  <2>6. QED BY <1>2, <2>1, <2>2, <2>3, <2>4, <2>5
<1>6. CASE EditIdentity(r)
  <2>1. PICK u \in Users, who \in Emails :
          /\ Read(r, u, [CopyOf(u) EXCEPT !.at = "edit", !.who = who])
          /\ raced' = raced \cup {row[u].who, who}
    BY <1>6 DEF EditIdentity
  <2>2. u \in Entities
    BY DEF Entities
  <2>3. PICK c \in Request : c = CopyOf(u) /\ c.entity = u
    BY <2>1, <2>2, CopyFields DEF Read
  <2>4. PICK q : q = [c EXCEPT !.at = "edit", !.who = who]
    OBVIOUS
  <2>5. q.entity = u /\ q.who = who
    BY <2>3, <2>4 DEF Request
  <2>6. q.who \in raced' /\ row[u].who \in raced'
    BY <2>1, <2>5
  <2>7. Read(r, u, q)
    BY <2>1, <2>3, <2>4
  <2>8. QED BY <1>2, <2>2, <2>5, <2>6, <2>7
<1>7. CASE UpdateUser(r) \/ UpdateGroup(r) \/ UpdateOrganization(r) \/ UpdateClient(r)
  <2>1. PICK grants :
          /\ req[r].at = "edit"
          /\ req' = [req EXCEPT ![r] = [req[r] EXCEPT !.at = "write", !.current = TRUE, !.mine = grants]]
    BY <1>7 DEF UpdateUser, UpdateGroup, UpdateOrganization, UpdateClient, Update
  <2>2. PICK q : q = [req[r] EXCEPT !.at = "write", !.current = TRUE, !.mine = grants]
    OBVIOUS
  <2>3. q.entity = req[r].entity /\ q.who = req[r].who /\ req'[r] = q
    BY <2>1, <2>2 DEF Request
  <2>4. Holds(q) => Holds(req[r])
    BY <2>1, <2>3 DEF Holds, Edits
  <2>5. Holds(q) => Back(q.entity, q.who)'
    BY <2>3, <2>4, HeldPersists
  <2>6. QED BY <1>1, <2>3, <2>5 DEF BackOf, Holds
<1>8. CASE Write(r) \/ EditFails(r)
  <2>1. req'[r].at = "idle"
    BY <1>8, WriteEnds DEF EditFails, Idle
  <2>2. QED BY <1>1, <2>1 DEF BackOf, Holds, Edits
<1>9. QED BY <1>3, <1>4, <1>5, <1>6, <1>7, <1>8 DEF EditNext

LEMMA NextBack ==
  ASSUME CoreInv, BackInv, [Next]_vars
  PROVE  BackInv'
<1> Identities
  BY NextIdentities
<1> SUFFICES ASSUME NEW r \in Requests PROVE BackOf(req[r], save[r])'
  BY DEF BackInv
<1>1. ASSUME /\ req'[r].at = req[r].at /\ req'[r].entity = req[r].entity /\ req'[r].who = req[r].who
             /\ save'[r].at = save[r].at /\ save'[r].user = save[r].user /\ save'[r].who = save[r].who
      PROVE  BackOf(req[r], save[r])'
  <2>1. PICK q, s : q = req'[r] /\ s = save'[r]
    OBVIOUS
  <2>2. Holds(q) => Back(q.entity, q.who)'
    BY <1>1, <2>1, HeldPersists DEF Holds
  <2>3. (s.at # "none" => Back(s.user, s.who))'
    BY <1>1, <2>1, SavedPersists
  <2>4. QED BY <2>1, <2>2, <2>3 DEF BackOf, Holds
<1>2. CASE Agrees(r) /\ save'[r] = save[r]
  BY <1>1, <1>2, AgreesFields DEF CoreInv
<1>3. CASE Reloads
  <2>1. PICK q \in Request, s \in Save : q = req[r] /\ s = save[r]
    BY DEF CoreInv, TypeOK
  <2>2. req'[r] = [q EXCEPT !.current = FALSE] /\ save'[r] = [s EXCEPT !.current = FALSE]
    BY <1>3, <2>1 DEF Reloads, Reload
  <2>3. /\ req'[r].at = q.at /\ req'[r].entity = q.entity /\ req'[r].who = q.who
        /\ save'[r].at = s.at /\ save'[r].user = s.user /\ save'[r].who = s.who
    BY <2>1, <2>2 DEF Request, Save
  <2>4. QED BY <1>1, <2>1, <2>3
<1>4. QED BY <1>2, <1>3, OneActs, LoginBack, SaveBack, EditBack

LEMMA InsertNoneBut ==
  ASSUME TypeOK, NEW e \in Entities, NEW who, NEW email, NEW grants, Insert(e, who, email, grants)
  PROVE  /\ NoneBut(e) /\ row'[e].who = who
         /\ e \notin Users => NoneNew
<1>1. row' = [row EXCEPT ![e] = Present(who, email, grants)]
  BY DEF Insert
<1>2. QED BY <1>1 DEF TypeOK, NoneBut, NoneNew, Active, Present, Entities

(* A copy never brings a user back.                                          *)
LEMMA PutsNoneNew ==
  ASSUME CoreInv, Puts, Identities
  PROVE  NoneNew
<1>1. \A v \in Users : Active(v)' => Active(v)
  BY PutRow DEF CoreInv, Puts, Active, Entities
<1>2. QED BY <1>1 DEF NoneNew, Identities, Back, Active, Exists

(* Steps that create no user keep what is known.                             *)
LEMMA NoneNewKeeps ==
  ASSUME UserInv, NoneNew, raced \subseteq raced',
         \A r \in Requests : \A who : Creates(req[r], who)' => Creates(req[r], who)
  PROVE  UserInv'
<1>1. OneUserPerIdentity'
  <2> SUFFICES ASSUME NEW u \in Users, NEW v \in Users, u # v, Active(u)', Active(v)', row'[u].who = row'[v].who,
                      row'[u].who \notin raced'
               PROVE  FALSE
    BY DEF OneUserPerIdentity
  <2>1. Active(u) /\ Active(v) /\ row[u].who = row[v].who /\ row[u].who \notin raced
    BY DEF NoneNew
  <2>2. QED BY <2>1 DEF UserInv, OneUserPerIdentity
<1>2. \A who : NoUser(who) /\ who \notin raced => NoUser(who)'
  BY DEF NoUser, FoundUser, NoneNew
<1>3. AloneInv'
  BY <1>2 DEF UserInv, AloneInv, Creates
<1>4. QED BY <1>1, <1>3 DEF UserInv

(* A creation by the only one of its kind, or by an administrator.           *)
LEMMA UserCreated ==
  ASSUME UserInv, NEW u \in Users, NEW who, NoneBut(u), row'[u].who = who, raced \subseteq raced',
         \A r \in Requests : \A w : Creates(req[r], w)' => Creates(req[r], w),
         who \notin raced' => NoUser(who) /\ \A r \in Requests : ~Creates(req[r], who)'
  PROVE  UserInv'
<1>1. OneUserPerIdentity'
  BY DEF UserInv, OneUserPerIdentity, NoneBut, NoUser, FoundUser
<1>2. \A w : w # who /\ NoUser(w) => NoUser(w)'
  BY DEF NoUser, FoundUser, NoneBut
<1>3. AloneInv'
  BY <1>2 DEF UserInv, AloneInv, Creates
<1>4. QED BY <1>1, <1>3 DEF UserInv

LEMMA NoCreation ==
  ASSUME CoreInv, NEW r \in Requests, SaveNext(r) \/ EditNext(r)
  PROVE  \A o \in Requests : \A who : Creates(req[o], who)' => Creates(req[o], who)
<1>1. CASE SaveNext(r)
  <2>1. \A o \in Requests : Agrees(o)
    BY <1>1, SaveType, SameAgrees DEF CoreInv
  <2>2. QED BY <2>1, AgreesFields DEF CoreInv, Creates
<1>2. CASE EditNext(r)
  <2>1. \A o \in Requests \ {r} : Agrees(o)
    BY <1>2, EditType
  <2>2. \A o \in Requests \ {r} : \A who : Creates(req[o], who)' => Creates(req[o], who)
    BY <2>1, AgreesFields DEF CoreInv, Creates
  <2>3. req'[r].at # "create"
    BY <1>2, EditEnds DEF Edits
  <2>4. QED BY <2>2, <2>3 DEF Creates
<1>3. QED BY <1>1, <1>2

LEMMA NoCreationRow ==
  ASSUME CoreInv, Identities, NEW r \in Requests, SaveNext(r) \/ EditNext(r)
  PROVE  NoneNew
<1>1. CASE UNCHANGED row
  BY <1>1 DEF NoneNew, Active
<1>2. UNCHANGED administrators
  BY SaveRow, EditRow DEF Inserts, Puts
<1>3. CASE Puts
  BY <1>3, PutsNoneNew
<1>4. CASE SaveNext(r)
  BY <1>1, <1>2, <1>3, <1>4, PutSavePuts DEF SaveNext, SaveCheck, SaveWrite, SaveFails
<1>5. CASE EditNext(r)
  BY <1>1, <1>3, <1>5, WritePuts, EditReads
<1>6. QED BY <1>4, <1>5

(* Only a login that finds nobody goes on to create.                         *)
LEMMA LoginAfter ==
  ASSUME CoreInv, NEW r \in Requests, LoginNext(r),
         ~\E who \in Emails, name \in Names \cup {None} : LoginRead(r, who, name)
  PROVE  req'[r].at # "create"
<1> req[r] \in Request /\ req \in [Requests -> Request]
  BY DEF CoreInv, TypeOK
<1>1. /\ Idle.at = "idle" /\ Uncollected.at = "failed" /\ \A mine : Collecting(mine).at = "collect"
      /\ \A e : CollectedFrom(req[r], e).at = req[r].at
      /\ [req[r] EXCEPT !.at = "createOrganization"].at = "createOrganization"
      /\ [req[r] EXCEPT !.at = "check", !.err = FALSE].at = "check"
      /\ \A u, base, grants :
           [req[r] EXCEPT !.at = "organization", !.entity = u, !.base = base, !.mine = grants].at = "organization"
  BY DEF Idle, Uncollected, Collecting, CollectedFrom, Request
<1>2. CASE LoginCreate(r)
  <2>1. PICK u \in Users :
          req' = [req EXCEPT ![r] = [req[r] EXCEPT !.at = "organization", !.entity = u,
                                                  !.base = Contents(u)', !.mine = row'[u].grants]]
    BY <1>2 DEF LoginCreate
  <2>2. QED BY <2>1 DEF Request
<1>3. CASE FindOrganization(r) \/ CreateForLogin(r)
  <2>1. ASSUME NEW mine, Proceed(r, mine)
        PROVE  req'[r].at # "create"
    BY <1>1, <2>1 DEF Proceed
  <2>2. CASE FindOrganization(r)
    <3>1. (\E mine : Proceed(r, mine)) \/ req' = [req EXCEPT ![r] = [req[r] EXCEPT !.at = "createOrganization"]]
      BY <2>2 DEF FindOrganization
    <3>2. QED BY <1>1, <2>1, <3>1
  <2>3. CASE CreateForLogin(r)
    BY <2>1, <2>3 DEF CreateForLogin
  <2>4. QED BY <1>3, <2>2, <2>3
<1>4. CASE LoginFails(r) \/ CollectFails(r) \/ Answer(r) \/ \E u \in Users : Impersonate(r, u)
  BY <1>1, <1>4 DEF LoginFails, CollectFails, Answer, Impersonate
<1>5. CASE CollectRoles(r)
  BY <1>1, <1>5 DEF CollectRoles
<1>6. CASE Collected(r)
  BY <1>1, <1>6 DEF Collected
<1>7. QED BY <1>2, <1>3, <1>4, <1>5, <1>6 DEF LoginNext

LEMMA UserLogin ==
  ASSUME CoreInv, UserInv, NEW r \in Requests, LoginNext(r)
  PROVE  UserInv'
<1> USE DEF CoreInv, TypeOK
<1>1. \A s \in Requests \ {r} : req'[s] = req[s]
  BY LoginType
<1>2. ASSUME req'[r].at # "create"
      PROVE  \A s \in Requests : \A who : Creates(req[s], who)' => Creates(req[s], who)
  BY <1>1, <1>2 DEF Creates
<1>3. ASSUME NEW u \in Users, req[r].at = "create", CreateUserFromIdentity(u, req[r].who), req'[r].at # "create",
             raced' = raced
      PROVE  UserInv'
  <2>1. PICK who : who = req[r].who
    OBVIOUS
  <2>2. NoneBut(u) /\ row'[u].who = who
    BY <1>3, <2>1, InsertNoneBut DEF CreateUserFromIdentity, Entities
  <2>3. who \notin raced => NoUser(who) /\ \A s \in Requests \ {r} : ~Creates(req[s], who)
    BY <1>3, <2>1 DEF UserInv, AloneInv
  <2>4. who \notin raced => NoUser(who) /\ \A s \in Requests : ~Creates(req[s], who)'
    BY <1>1, <1>3, <2>3 DEF Creates
  <2>5. \A s \in Requests : \A w : Creates(req[s], w)' => Creates(req[s], w)
    BY <1>2, <1>3
  <2>6. raced \subseteq raced' /\ (who \notin raced' => NoUser(who) /\ \A s \in Requests : ~Creates(req[s], who)')
    BY <1>3, <2>4
  <2>7. QED BY <2>2, <2>5, <2>6, UserCreated
<1>4. ASSUME NEW o \in Organizations, Insert(o, req[r].name, None, {}), req'[r].at # "create", raced' = raced
      PROVE  UserInv'
  <2>1. NoneNew
    BY <1>4, InsertNoneBut DEF Entities
  <2>2. QED BY <1>2, <1>4, <2>1, NoneNewKeeps
<1>5. ASSUME row' = row, raced' = raced, req'[r].at # "create"
      PROVE  UserInv'
  <2>1. NoneNew
    BY <1>5 DEF NoneNew, Active
  <2>2. QED BY <1>2, <1>5, <2>1, NoneNewKeeps
<1>6. ASSUME NEW who \in Emails, NEW name \in Names \cup {None}, LoginRead(r, who, name)
      PROVE  UserInv'
  <2>1. CASE req'[r].at # "create"
    <3>1. raced' = raced
      BY <1>6, <2>1 DEF LoginRead, Idle
    <3>2. QED BY <1>5, <1>6, <2>1, <3>1 DEF LoginRead
  <2>2. CASE req'[r].at = "create"
    <3>1. /\ NoUser(who) /\ row' = row
          /\ req' = [req EXCEPT ![r] = [Idle EXCEPT !.at = "create", !.who = who, !.name = name]]
          /\ raced' = IF \E s \in Requests : req[s].at = "create" /\ req[s].who = who
                      THEN raced \cup {who} ELSE raced
      BY <1>6, <2>2 DEF LoginRead, Idle
    <3>2. [Idle EXCEPT !.at = "create", !.who = who, !.name = name].who = who
      BY DEF Idle
    <3>3. req'[r].who = who
      BY <3>1, <3>2
    <3>4. OneUserPerIdentity'
      BY <3>1 DEF UserInv, OneUserPerIdentity, Active
    <3>5. \A w : NoUser(w) => NoUser(w)'
      BY <3>1 DEF NoUser, FoundUser, Active
    <3>6. raced \subseteq raced' /\ (who \notin raced' => \A s \in Requests : ~Creates(req[s], who))
      BY <3>1 DEF Creates
    <3>7. ASSUME NEW o \in Requests, req'[o].at = "create", req'[o].who \notin raced'
          PROVE  /\ NoUser(req[o].who)'
                 /\ \A s \in Requests \ {o} : ~Creates(req[s], req[o].who)'
      <4>1. PICK w : w = req'[o].who
        OBVIOUS
      <4>2. CASE o = r
        <5>1. w = who /\ NoUser(w)' /\ \A s \in Requests : ~Creates(req[s], w)
          BY <3>1, <3>3, <3>5, <3>6, <3>7, <4>1, <4>2
        <5>2. \A s \in Requests \ {o} : ~Creates(req[s], w)'
          BY <1>1, <4>2, <5>1 DEF Creates
        <5>3. QED BY <4>1, <5>1, <5>2
      <4>3. CASE o # r
        <5>1. Creates(req[o], w) /\ w \notin raced'
          BY <1>1, <3>7, <4>1, <4>3 DEF Creates
        <5>2. w # who
          BY <3>6, <5>1
        <5>3. NoUser(w) /\ \A s \in Requests \ {o} : ~Creates(req[s], w)
          BY <3>6, <5>1 DEF UserInv, AloneInv, Creates
        <5>4. \A s \in Requests \ {o} : ~Creates(req[s], w)'
          BY <1>1, <3>3, <5>2, <5>3 DEF Creates
        <5>5. QED BY <3>5, <4>1, <5>3, <5>4
      <4>4. QED BY <4>2, <4>3
    <3>8. AloneInv'
      BY <3>7 DEF AloneInv
    <3>9. QED BY <3>4, <3>8 DEF UserInv
  <2>3. QED BY <2>1, <2>2
<1>7. CASE ~\E who \in Emails, name \in Names \cup {None} : LoginRead(r, who, name)
  <2>1. req'[r].at # "create"
    BY <1>7, LoginAfter
  <2>2. raced' = raced
    BY <1>7 DEF LoginNext, LoginCreate, FindOrganization, CreateForLogin, LoginFails, CollectRoles, CollectFails,
                Collected, Answer, Impersonate
  <2>3. CASE LoginCreate(r)
    BY <1>3, <2>1, <2>2, <2>3 DEF LoginCreate
  <2>4. CASE CreateForLogin(r)
    BY <1>4, <2>1, <2>2, <2>4 DEF CreateForLogin
  <2>5. CASE LoginFails(r)
    BY <1>3, <1>4, <1>5, <2>1, <2>2, <2>5 DEF LoginFails
  <2>6. CASE ~(LoginCreate(r) \/ CreateForLogin(r) \/ LoginFails(r))
    <3>1. row' = row
      BY <1>7, <2>6 DEF LoginNext, FindOrganization, CollectRoles, CollectFails, Collected, Answer, Impersonate
    <3>2. QED BY <1>5, <2>1, <2>2, <3>1
  <2>7. QED BY <2>3, <2>4, <2>5, <2>6
<1>8. QED BY <1>6, <1>7

(* Logins create at most one user per identity: whoever creates one alone    *)
(* found none and is not joined by another without a note, and no copy that  *)
(* is written later gives a user an identity without a note.                 *)
THEOREM OneUser == Spec => []OneUserPerIdentity
<1>1. Init => UserInv
  <2> SUFFICES ASSUME Init PROVE UserInv
    OBVIOUS
  <2>1. \A u \in Users : ~Active(u)
    BY DEF Init, Active, Ledger!Absent, Linked, Entities
  <2>2. QED BY <2>1 DEF Init, Idle, UserInv, OneUserPerIdentity, AloneInv
<1>2. Init => BackInv
  BY DEF Init, Idle, NoSave, BackInv, BackOf, Holds, Edits
<1>3. CoreInv /\ UserInv /\ BackInv /\ [Next]_vars => UserInv'
  <2> SUFFICES ASSUME CoreInv, UserInv, BackInv, [Next]_vars PROVE UserInv'
    OBVIOUS
  <2> Identities
    BY NextIdentities
  <2>1. CASE UNCHANGED vars
    BY <2>1 DEF vars, UserInv, OneUserPerIdentity, AloneInv, NoUser, FoundUser, Active, Creates
  <2>2. CASE AdminCreates
    <3>1. req' = req /\ raced \subseteq raced'
      BY <2>2 DEF AdminCreates, CreateUser, CreateGroup, CreateOrganization, CreateClient, Create
    <3>2. \A r \in Requests : \A who : Creates(req[r], who)' => Creates(req[r], who)
      BY <3>1 DEF Creates
    <3>3. ASSUME NEW u \in Users, NEW who \in Emails, NEW email \in Emails, CreateUser(u, who, email)
          PROVE  UserInv'
      <4>1. PICK grants : Insert(u, who, email, grants)
        BY <3>3 DEF CreateUser, Create
      <4>2. NoneBut(u) /\ row'[u].who = who
        BY <4>1, InsertNoneBut DEF CoreInv, Entities
      <4>3. who \in raced'
        BY <3>3 DEF CreateUser
      <4>4. QED BY <3>1, <3>2, <4>2, <4>3, UserCreated
    <3>4. ASSUME ~\E u \in Users, who \in Emails, email \in Emails : CreateUser(u, who, email) PROVE UserInv'
      <4>1. ASSUME NEW e \in Groups \cup Organizations \cup Clients, NEW who, NEW grants,
                   Create(e, who, None, grants)
            PROVE  NoneNew
        BY <4>1, InsertNoneBut DEF Create, CoreInv, Entities
      <4>2. NoneNew
        BY <2>2, <3>4, <4>1 DEF AdminCreates, CreateGroup, CreateOrganization, CreateClient
      <4>3. QED BY <3>1, <3>2, <4>2, NoneNewKeeps
    <3>5. QED BY <3>3, <3>4
  <2>3. ASSUME NEW r \in Requests, LoginNext(r) PROVE UserInv'
    BY <2>3, UserLogin
  <2>4. ASSUME NEW r \in Requests, SaveNext(r) \/ EditNext(r) PROVE UserInv'
    <3>1. NoneNew
      BY <2>4, NoCreationRow
    <3>2. raced \subseteq raced'
      BY DEF Identities
    <3>3. QED BY <2>4, <3>1, <3>2, NoCreation, NoneNewKeeps
  <2>5. CASE Reloads
    <3>1. NoneNew /\ raced \subseteq raced'
      BY <2>5 DEF Reloads, Reload, NoneNew, Active
    <3>2. \A r \in Requests : \A who : Creates(req[r], who)' => Creates(req[r], who)
      BY <2>5, ReloadKeeps DEF Creates
    <3>3. QED BY <3>1, <3>2, NoneNewKeeps
  <2>6. QED BY <2>1, <2>2, <2>3, <2>4, <2>5 DEF Next, Reloads
<1>4. CoreInv /\ BackInv /\ [Next]_vars => BackInv'
  BY NextBack
<1>5. UserInv => OneUserPerIdentity
  BY DEF UserInv
<1>6. QED BY <1>1, <1>2, <1>3, <1>4, <1>5, CoreInvariant, PTL DEF Spec

=============================================================================
