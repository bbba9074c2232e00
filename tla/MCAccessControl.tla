--------------------------- MODULE MCAccessControl ---------------------------
(***************************************************************************)
(* The instance of AccessControl for TLC, in two regimes.                  *)
(* "granting": users, groups, organizations and clients, with one email    *)
(* and a configuration that stays.  "lone": users alone, with two emails,  *)
(* more edits and a configuration that is replaced.  A behaviour stays in  *)
(* its regime.                                                             *)
(***************************************************************************)
EXTENDS AccessControl, TLC

VARIABLE regime

(* The emails that may be configured log in.                                 *)
Granting == INSTANCE AccessControl WITH
              Emails <- UNION Configurations, ChangeBound <- 1, ReloadBound <- 0

Lone == INSTANCE AccessControl WITH
          Groups <- {}, Organizations <- {}, Clients <- {}, Names <- {}, Roles <- {Administrator}

(* Nobody refers to a client: those there are come with the groups.          *)
RegimeInit ==
  /\ Init
  /\ \/ regime = "granting" /\ \A c \in Clients, g \in Groups : Active(c) <=> Active(g)
     \/ regime = "lone" /\ \A e \in Entities : row[e] = Ledger!Absent

RegimeNext ==
  \/ regime = "granting" /\ Granting!Next /\ UNCHANGED regime
  \/ regime = "lone" /\ Lone!Next /\ UNCHANGED regime

RegimeSpec == RegimeInit /\ [][RegimeNext]_<<regime, vars>>

Symmetry == Permutations(Requests) \cup Permutations(Users)

=============================================================================
