-------------------------- MODULE ManifestInjection --------------------------
(***************************************************************************)
(* The configured stages and commands that CreateBuild, CreateRelease and  *)
(* CreateBot inject into a manifest.  The manifest is the job's own, but   *)
(* InjectStages appends the stages of the configuration themselves, and    *)
(* InjectCommands then assigns the Commands of whatever stages it finds:   *)
(* the stages are shared by all jobs created until the configuration is    *)
(* read again, and nothing guards them.                                    *)
(*                                                                         *)
(* A configuration has one stage with commands for builds, one for         *)
(* releases and one for bots, to inject before or after the manifest's     *)
(* own; what is counted is how often the configured commands stand before  *)
(* and after theirs.  The manifest's own stages and the stages the code    *)
(* itself adds are made for each job and are left out.                     *)
(***************************************************************************)
EXTENDS Naturals, Sequences, FiniteSets

CONSTANTS
  Requests,      \* slots for jobs being created concurrently
  JobBound,      \* bound on the jobs created
  ReloadBound,   \* bound on how often the configuration changes
  Manifests      \* what a manifest has: a sequence of places

ASSUME InjectionAssumption ==
  /\ JobBound \in Nat /\ ReloadBound \in Nat
  /\ Manifests \subseteq Seq({"build", "release", "bot"})

VARIABLES
  config,     \* config.APIServer: which of the configurations read so far
  commands,   \* commands[c][p]: around the commands of c's stage for p
  req,        \* req[r]: a job being created
  jobs,       \* history: jobs begun
  uses,       \* history: uses[c][p]: times a manifest listed that stage
  raced       \* history: stages listed by two jobs at once

vars == <<config, commands, req, jobs, uses, raced>>

Places         == {"build", "release", "bot"}
Configurations == 0 .. ReloadBound
Stage          == [config : Configurations, place : Places]
Wrap           == [before : Nat, after : Nat]
Unwrapped      == [before |-> 0, after |-> 0]
Request        == [at : {"idle", "stages", "commands", "prepend", "between", "append"},
                   todo : Seq(Places), listed : Seq(Stage), next : Nat, read : Wrap]

Idle == [at |-> "idle", todo |-> <<>>, listed |-> <<>>, next |-> 1, read |-> Unwrapped]

TypeOK ==
  /\ config \in Configurations
  /\ commands \in [Configurations -> [Places -> Wrap]]
  /\ req \in [Requests -> Request]
  /\ jobs \in 0 .. JobBound
  /\ uses \in [Configurations -> [Places -> Nat]]
  /\ raced \subseteq Stage

Init ==
  /\ config = 0
  /\ commands = [c \in Configurations |-> [p \in Places |-> Unwrapped]]
  /\ req = [r \in Requests |-> Idle]
  /\ jobs = 0
  /\ uses = [c \in Configurations |-> [p \in Places |-> 0]]
  /\ raced = {}

(* WatchForFileChanges: the handlers' configuration is overwritten by a new  *)
(* one, with stages of its own.                                              *)
Reload ==
  /\ config < ReloadBound
  /\ config' = config + 1
  /\ UNCHANGED <<commands, req, jobs, uses, raced>>

(* The manifest is parsed for a build and deep copied for a release or bot.  *)
Begin(r) ==
  /\ req[r].at = "idle" /\ jobs < JobBound
  /\ \E todo \in Manifests : req' = [req EXCEPT ![r] = [Idle EXCEPT !.at = "stages", !.todo = todo]]
  /\ jobs' = jobs + 1
  /\ UNCHANGED <<config, commands, uses, raced>>

Lists(q, s) == \E i \in DOMAIN q.listed : q.listed[i] = s

(* injectIfNotExists: the configured stage itself, unless a stage of the     *)
(* manifest has its name or its labels do not match.                         *)
Inject(r, s) ==
  /\ req' = [req EXCEPT ![r].todo = Tail(@), ![r].listed = Append(@, s)]
  /\ uses' = [uses EXCEPT ![s.config][s.place] = @ + 1]
  /\ raced' = IF \E o \in Requests \ {r} : Lists(req[o], s) THEN raced \cup {s} ELSE raced

(* InjectStages: the build stages, then those of every release and bot; the  *)
(* configuration is read anew for each.                                      *)
InjectFor(r, place) ==
  /\ req[r].at = "stages" /\ req[r].todo # <<>> /\ Head(req[r].todo) = place
  /\ \/ Inject(r, [config |-> config, place |-> place])
     \/ req' = [req EXCEPT ![r].todo = Tail(@)] /\ UNCHANGED <<uses, raced>>
  /\ UNCHANGED <<config, commands, jobs>>

InjectBuildStages(r)   == InjectFor(r, "build")
InjectReleaseStages(r) == InjectFor(r, "release")
InjectBotStages(r)     == InjectFor(r, "bot")

StagesInjected(r) ==
  /\ req[r].at = "stages" /\ req[r].todo = <<>>
  /\ req' = [req EXCEPT ![r].at = "commands"]
  /\ UNCHANGED <<config, commands, jobs, uses, raced>>

-----------------------------------------------------------------------------
(* InjectCommands, one listed stage after the other                          *)

Current(r)   == req[r].listed[req[r].next]
CommandsOf(s) == commands[s.config][s.place]

(* Bots are left alone.                                                      *)
(* Faulty variant: also the stages of bots.                                 *)
EveryPlace(s) == TRUE
HasCommands(s) == s.place # "bot"

Pass(r) ==
  /\ req[r].at = "commands" /\ req[r].next <= Len(req[r].listed)
  /\ ~HasCommands(Current(r))
  /\ req' = [req EXCEPT ![r].next = @ + 1]
  /\ UNCHANGED <<config, commands, jobs, uses, raced>>

(* Commands = append(shellConfig.Before, Commands...)                        *)
ReadBefore(r) ==
  /\ req[r].at = "commands" /\ req[r].next <= Len(req[r].listed)
  /\ HasCommands(Current(r))
  /\ req' = [req EXCEPT ![r].at = "prepend", ![r].read = CommandsOf(Current(r))]
  /\ UNCHANGED <<config, commands, jobs, uses, raced>>

Assign(s, wrap) == commands' = [commands EXCEPT ![s.config][s.place] = wrap]

Prepend(r) ==
  /\ req[r].at = "prepend"
  /\ Assign(Current(r), [req[r].read EXCEPT !.before = @ + 1])
  /\ req' = [req EXCEPT ![r].at = "between"]
  /\ UNCHANGED <<config, jobs, uses, raced>>

(* Commands = append(Commands, shellConfig.After...)                         *)
ReadAfter(r) ==
  /\ req[r].at = "between"
  /\ req' = [req EXCEPT ![r].at = "append", ![r].read = CommandsOf(Current(r))]
  /\ UNCHANGED <<config, commands, jobs, uses, raced>>

AppendAfter(r) ==
  /\ req[r].at = "append"
  /\ Assign(Current(r), [req[r].read EXCEPT !.after = @ + 1])
  /\ req' = [req EXCEPT ![r].at = "commands", ![r].next = @ + 1, ![r].read = Unwrapped]
  /\ UNCHANGED <<config, jobs, uses, raced>>

(* The job is created with the commands its stages have by now.              *)
Injected(r) == req[r].at = "commands" /\ req[r].next = Len(req[r].listed) + 1

CreateJob(r) ==
  /\ Injected(r)
  /\ req' = [req EXCEPT ![r] = Idle]
  /\ UNCHANGED <<config, commands, jobs, uses, raced>>

Next ==
  \/ Reload
  \/ \E r \in Requests :
       \/ Begin(r)
       \/ InjectBuildStages(r)
       \/ InjectReleaseStages(r)
       \/ InjectBotStages(r)
       \/ StagesInjected(r)
       \/ Pass(r)
       \/ ReadBefore(r)
       \/ Prepend(r)
       \/ ReadAfter(r)
       \/ AppendAfter(r)
       \/ CreateJob(r)

Spec == Init /\ [][Next]_vars

-----------------------------------------------------------------------------
(* Properties                                                                *)

(* When a job is created, the commands of each of its stages stand between   *)
(* the configured ones, as often as jobs have listed that stage since the    *)
(* configuration was read (once for the first one), unless another job       *)
(* listed it at the same time; bots get none.  Not even an overlap adds more *)
(* than the jobs that listed the stage.                                      *)
CommandsInjected ==
  \A r \in Requests : Injected(r) =>
    \A i \in DOMAIN req[r].listed :
      LET s    == req[r].listed[i]
          n    == IF s.place = "bot" THEN 0 ELSE uses[s.config][s.place]
          wrap == CommandsOf(s)
      IN /\ wrap.before <= n /\ wrap.after <= n
         /\ s \notin raced => wrap = [before |-> n, after |-> n]

-----------------------------------------------------------------------------
(* The inductive invariant                                                   *)

(* The places of a stage in the list of a job that has not assigned it the   *)
(* commands to stand before, and after, its own.                             *)
OpenIn(q, s)    == {i \in DOMAIN q.listed : q.listed[i] = s /\ i >= q.next}
WaitingIn(q, s) == {i \in OpenIn(q, s) : i = q.next => q.at \notin {"between", "append"}}

Open(s)    == UNION {{r} \X OpenIn(req[r], s) : r \in Requests}
Waiting(s) == UNION {{r} \X WaitingIn(req[r], s) : r \in Requests}

AtStage(q) == q.at \in {"prepend", "between", "append"}

(* A job goes through its list in order, and leaves bots alone.              *)
Ordered ==
  \A r \in Requests :
    /\ req[r].next \in 1 .. Len(req[r].listed) + 1
    /\ req[r].at = "idle" => req[r].listed = <<>>
    /\ AtStage(req[r]) => req[r].next <= Len(req[r].listed) /\ HasCommands(Current(r))

BotsUnwrapped == \A c \in Configurations : commands[c]["bot"] = Unwrapped

(* The jobs that have still to wrap a stage leave room for it; and every     *)
(* listing has been, or is to be, carried out when none met another.         *)
Fits(wrap, s) ==
  /\ wrap.before + Cardinality(Waiting(s)) <= uses[s.config][s.place]
  /\ wrap.after + Cardinality(Open(s)) <= uses[s.config][s.place]
Exact(wrap, s) ==
  /\ wrap.before + Cardinality(Waiting(s)) = uses[s.config][s.place]
  /\ wrap.after + Cardinality(Open(s)) = uses[s.config][s.place]

StagesAccounted ==
  \A s \in Stage : HasCommands(s) =>
    /\ IsFiniteSet(Open(s))
    /\ Fits(CommandsOf(s), s)
    /\ s \notin raced => Exact(CommandsOf(s), s)

(* What a job has read fits all the same, and is not stale without a race.   *)
ReadsAccounted ==
  \A r \in Requests : req[r].at \in {"prepend", "append"} =>
    /\ Fits(req[r].read, Current(r))
    /\ Current(r) \notin raced => req[r].read = CommandsOf(Current(r))

RacesSeen ==
  \A s \in Stage \ raced : \A r, o \in Requests :
    Lists(req[r], s) /\ Lists(req[o], s) => r = o

IInv ==
  /\ TypeOK
  /\ Ordered
  /\ BotsUnwrapped
  /\ StagesAccounted
  /\ ReadsAccounted
  /\ RacesSeen

=============================================================================
