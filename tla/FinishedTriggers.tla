-------------------------- MODULE FinishedTriggers --------------------------
(***************************************************************************)
(* Who learns that a build or release has finished.  For every status      *)
(* event FinishBuild and FinishRelease update the row and then start a     *)
(* goroutine that reads the row again and fires the "finished" triggers    *)
(* with the status it finds, so that events, cancel requests and several   *)
(* such goroutines meet in the row.  Bots fire nothing.                    *)
(***************************************************************************)
EXTENDS JobTable, FiniteSets

CONSTANTS
  Announcers,    \* slots for the goroutines alive at once
  Faults         \* calls that may fail: "update", "read", "fire"

ASSUME FaultsAssumption == Faults \subseteq {"update", "read", "fire"}

VARIABLES
  builder,       \* builder[j]: what the builder of j has posted
  net,           \* <<job, status>>: status events that may (still) arrive
  clicked,       \* jobs some user asked to cancel
  announcer,     \* announcer[a]: a goroutine of FinishBuild or FinishRelease
  announced,     \* <<job, status>>: FireXTriggers(..., "finished") was called
  lost           \* jobs a goroutine gave up on

vars == <<row, builder, net, clicked, announcer, announced, lost>>

Outcome == {"succeeded", "failed", "canceled"}
Post    == {"running"} \cup Outcome
Idle    == [at |-> "idle"]
Reading(j)   == [at |-> "read", job |-> j]
Firing(j, s) == [at |-> "fire", job |-> j, seen |-> s]

Announcer == {Idle} \cup {Reading(j) : j \in Jobs}
                    \cup {Firing(j, s) : j \in Jobs, s \in Status}

TypeOK ==
  /\ row \in [Jobs -> Status]
  /\ builder \in [Jobs -> {"none", "starting", "running"} \cup Outcome]
  /\ net \subseteq Jobs \X Post
  /\ clicked \subseteq Jobs
  /\ announcer \in [Announcers -> Announcer]
  /\ announced \subseteq Jobs \X Status
  /\ lost \subseteq Jobs

Init ==
  /\ row = [j \in Jobs |-> "pending"]
  /\ builder = [j \in Jobs |-> "none"]
  /\ net = {}
  /\ clicked = {}
  /\ announcer = [a \in Announcers |-> Idle]
  /\ announced = {}
  /\ lost = {}

(* The builder posts running and, once that is answered, its result.         *)
PostRunning(j) ==
  /\ builder[j] = "none"
  /\ builder' = [builder EXCEPT ![j] = "starting"]
  /\ net' = net \cup {<<j, "running">>}
  /\ UNCHANGED <<row, clicked, announcer, announced, lost>>

PostResult(j, s) ==
  /\ builder[j] = "running"
  /\ s = "canceled" => j \in clicked
  /\ builder' = [builder EXCEPT ![j] = s]
  /\ net' = net \cup {<<j, s>>}
  /\ UNCHANGED <<row, clicked, announcer, announced, lost>>

Answered(j, s, again) ==
  /\ builder' = IF builder[j] = "starting" /\ s = "running"
                THEN [builder EXCEPT ![j] = "running"] ELSE builder
  /\ net' = IF again THEN net ELSE net \ {<<j, s>>}

(* Faulty variant: an update that matches no row announces nothing.          *)
HandleChanging(j, s, a, again) ==
  /\ <<j, s>> \in net
  /\ announcer[a] = Idle
  /\ UpdateStatus(j, s)
  /\ announcer' = [announcer EXCEPT ![a] = IF row' # row THEN Reading(j) ELSE Idle]
  /\ Answered(j, s, again)
  /\ UNCHANGED <<clicked, announced, lost>>

(* FinishBuild or FinishRelease: whether the UPDATE matched the row or not,  *)
(* a goroutine is started.  An event may arrive again (again).               *)
Handle(j, s, a, again) ==
  /\ <<j, s>> \in net
  /\ announcer[a] = Idle
  /\ UpdateStatus(j, s)
  /\ announcer' = [announcer EXCEPT ![a] = Reading(j)]
  /\ Answered(j, s, again)
  /\ UNCHANGED <<clicked, announced, lost>>

(* The UPDATE fails, having had its effect or not: no goroutine is started,  *)
(* the answer is 500 and the builder posts the event again.                  *)
HandleFails(j, s) ==
  /\ "update" \in Faults
  /\ <<j, s>> \in net
  /\ UpdateStatus(j, s) \/ UNCHANGED row
  /\ UNCHANGED <<builder, net, clicked, announcer, announced, lost>>

(* The cancel handlers update the row past FinishBuild: they start nothing.  *)
UserAsks(j) ==
  /\ clicked' = clicked \cup {j}
  /\ UNCHANGED <<row, builder, net, announcer, announced, lost>>

UserCancels(j, s) ==
  /\ j \in clicked
  /\ s \in {"canceling", "canceled"}
  /\ UpdateStatus(j, s)
  /\ UNCHANGED <<builder, net, clicked, announcer, announced, lost>>

(* The goroutine reads the row,                                              *)
ReadRow(a) ==
  /\ announcer[a].at = "read"
  /\ announcer' = [announcer EXCEPT ![a] = Firing(@.job, row[@.job])]
  /\ UNCHANGED <<row, builder, net, clicked, announced, lost>>

(* and fires the triggers with the status it read, whatever it is now.       *)
Fire(a) ==
  /\ announcer[a].at = "fire"
  /\ announced' = announced \cup {<<announcer[a].job, announcer[a].seen>>}
  /\ announcer' = [announcer EXCEPT ![a] = Idle]
  /\ UNCHANGED <<row, builder, net, clicked, lost>>

(* It gives up when one of its two calls fails: nobody tries again.          *)
Quit(a) ==
  /\ announcer[a].at \in {"read", "fire"} \cap Faults
  /\ lost' = lost \cup {announcer[a].job}
  /\ announcer' = [announcer EXCEPT ![a] = Idle]
  /\ UNCHANGED <<row, builder, net, clicked, announced>>

Next ==
  \/ \E j \in Jobs :
       \/ PostRunning(j)
       \/ UserAsks(j)
       \/ \E s \in Status : UserCancels(j, s)
       \/ \E s \in Outcome : PostResult(j, s)
       \/ \E s \in Post : HandleFails(j, s) \/ \E a \in Announcers, again \in BOOLEAN : Handle(j, s, a, again)
  \/ \E a \in Announcers : ReadRow(a) \/ Fire(a) \/ Quit(a)

Spec == Init /\ [][Next]_vars

(* Goroutines run on, and an event that keeps arriving is handled some time  *)
(* (strong fairness, since the slots may be taken for a while: in the api    *)
(* their number is not bounded).                                             *)
Fairness ==
  /\ \A a \in Announcers : WF_vars(ReadRow(a) \/ Fire(a))
  /\ \A j \in Jobs, s \in Post : SF_vars(\E a \in Announcers : Handle(j, s, a, FALSE))

FairSpec == Spec /\ Fairness

-----------------------------------------------------------------------------
(* Properties                                                                *)

(* A result that is announced to the triggers is the result the row has and  *)
(* keeps: no pipeline is started for a result that another event, a late one *)
(* or a cancel request takes back.                                           *)
AnnouncedResultHolds ==
  \A j \in Jobs, s \in Terminal : <<j, s>> \in announced => row[j] = s

(* A result in a row is never forgotten: it was announced, or an event or a  *)
(* goroutine that is going to announce it is under way, unless a call of a   *)
(* goroutine failed.                                                         *)
ResultUnderWay ==
  \A j \in Jobs : \A s \in {"succeeded", "failed"} : row[j] = s =>
    \/ <<j, s>> \in announced \/ j \in lost
    \/ <<j, s>> \in net
    \/ \E a \in Announcers : announcer[a] = Reading(j) \/ announcer[a] = Firing(j, s)

(* A result that reaches the row is announced, also when the update that set *)
(* it was answered with an error, unless a call of a goroutine fails.        *)
ResultAnnounced ==
  \A j \in Jobs : \A s \in {"succeeded", "failed"} :
    row[j] = s ~> <<j, s>> \in announced \/ j \in lost

-----------------------------------------------------------------------------
(* The inductive invariant: what a goroutine has read is still true.         *)
ReadResultHolds ==
  \A a \in Announcers : announcer[a].at = "fire" /\ announcer[a].seen \in Terminal
                          => row[announcer[a].job] = announcer[a].seen

IInv == TypeOK /\ ReadResultHolds /\ AnnouncedResultHolds /\ ResultUnderWay

=============================================================================
