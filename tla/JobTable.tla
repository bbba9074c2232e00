------------------------------ MODULE JobTable ------------------------------
(***************************************************************************)
(* The status column of the builds, releases and bots tables, as the       *)
(* database client writes it.  A job is one build, release or bot run; the *)
(* three UpdateXStatus methods issue the same conditional UPDATE, so one   *)
(* operator stands for them.                                               *)
(***************************************************************************)
EXTENDS Naturals

CONSTANT Jobs          \* ids of build, release and bot rows

VARIABLE row           \* row[j]: status of the row, "none" before the INSERT

Terminal == {"succeeded", "failed", "canceled"}
Live     == {"pending", "running", "canceling"}
Status   == {"none"} \cup Live \cup Terminal

(* Faulty variants: a terminal row reopens; a running row is canceled at once. *)
AllowedFromReopening(s) ==
  CASE s = "running"                             -> {"pending", "succeeded", "failed"}
    [] s \in {"succeeded", "failed", "canceling"} -> {"running"}
    [] s = "canceled"                            -> {"pending", "canceling"}
    [] OTHER                                     -> {}

AllowedFromSkipping(s) ==
  CASE s = "running"                             -> {"pending"}
    [] s \in {"succeeded", "failed", "canceling"} -> {"running"}
    [] s = "canceled"                            -> {"pending", "running", "canceling"}
    [] OTHER                                     -> {}

(* The statuses a row may be in for the UPDATE to status s to match it.  An *)
(* unknown status leaves the list empty, and the WHERE clause matches none. *)
AllowedFrom(s) ==
  CASE s = "running"                             -> {"pending"}
    [] s \in {"succeeded", "failed", "canceling"} -> {"running"}
    [] s = "canceled"                            -> {"pending", "canceling"}
    [] OTHER                                     -> {}

(* UPDATE ... WHERE id = j AND status IN AllowedFrom(s).  No matching row   *)
(* is sql.ErrNoRows, which the client logs and turns into success.          *)
UpdateStatus(j, s) ==
  row' = IF row[j] \in AllowedFrom(s) THEN [row EXCEPT ![j] = s] ELSE row

(* INSERT of a row that is to run (pending) or was refused (failed).        *)
InsertRow(j, s) ==
  /\ row[j] = "none"
  /\ row' = [row EXCEPT ![j] = s]

=============================================================================
