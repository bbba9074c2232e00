---------------------------- MODULE AccessLedger ----------------------------
(***************************************************************************)
(* What the users, groups, organizations and clients of the access control *)
(* promise an administrator: a row is created, given or refused one role,  *)
(* group or organization at a time, and deleted once and for all.  Only    *)
(* the configuration makes a user administrator.                           *)
(***************************************************************************)
CONSTANTS
  Users, Groups, Organizations, Clients,
  Roles, Administrator, Emails, None

Entities == Users \cup Groups \cup Organizations \cup Clients

(* What a row of each kind lists.                                           *)
Grantable(e) ==
  Roles \cup IF e \in Users THEN Groups \cup Organizations
             ELSE IF e \in Organizations THEN {} ELSE Organizations

VARIABLES
  row,             \* row[e]: its state, whose row it is, what it lists
  administrators   \* config.Auth.Administrators

vars == <<row, administrators>>

AsConfigured(email, grants) ==
  IF email \in administrators THEN grants \cup {Administrator} ELSE grants \ {Administrator}

(* Only a user has an email that may be configured as administrator.       *)
Configured(e, email, grants) == IF e \in Users THEN AsConfigured(email, grants) ELSE grants

Absent == [state |-> "absent", who |-> None, email |-> None, grants |-> {}]

Create(e) ==
  /\ row[e] = Absent
  /\ row' = [row EXCEPT ![e] = row'[e]]
  /\ row'[e].state = "active"
  /\ row'[e].grants \subseteq Grantable(e)
  /\ row'[e].grants = Configured(e, row'[e].email, row'[e].grants)

Set(e, who, email, grants) ==
  /\ row[e].state # "absent"
  /\ row' = [row EXCEPT ![e] =
       [state |-> @.state, who |-> who, email |-> email, grants |-> Configured(e, email, grants)]]

(* A user who logs in has its email set to that of its identity.           *)
EmailsFor(e) == IF e \in Users THEN {row[e].email, row[e].who} ELSE {row[e].email}

Change(e) ==
  \E x \in Grantable(e), email \in EmailsFor(e) :
    \E grants \in {row[e].grants \cup {x}, row[e].grants \ {x}} : Set(e, row[e].who, email, grants)

(* An administrator gives a user another identity or another email.        *)
Rename(u) ==
  \/ \E who \in Emails : Set(u, who, row[u].email, row[u].grants)
  \/ \E email \in Emails : Set(u, row[u].who, email, row[u].grants)

Delete(e) ==
  /\ row[e].state # "absent"
  /\ row' = [row EXCEPT ![e] = [@ EXCEPT !.state = "deleted"]]

(* No row changes with the configuration.                                  *)
Reload == administrators' # administrators /\ UNCHANGED row

Next ==
  \/ /\ \/ \E e \in Entities : Create(e) \/ Change(e) \/ Delete(e)
        \/ \E u \in Users : Rename(u)
     /\ UNCHANGED administrators
  \/ Reload

=============================================================================
