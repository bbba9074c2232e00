----------------------- MODULE ManifestInjectionProofs ----------------------
(***************************************************************************)
(* Theorems about ManifestInjection for any number of jobs at a time, any  *)
(* manifests and any number of configurations.                             *)
(***************************************************************************)
EXTENDS ManifestInjection, FiniteSetTheorems, TLAPS

(* The open places of all jobs, one job at a time.                           *)
LEMMA OpenPlaces ==
  ASSUME NEW s, NEW r, NEW i
  PROVE  /\ <<r, i>> \in Open(s) <=> r \in Requests /\ i \in OpenIn(req[r], s)
         /\ <<r, i>> \in Waiting(s) <=> r \in Requests /\ i \in WaitingIn(req[r], s)
  BY DEF Open, Waiting

LEMMA PlacesArePairs ==
  ASSUME NEW s
  PROVE  /\ \A e \in Open(s) \cup Waiting(s) : e = <<e[1], e[2]>> /\ e[1] \in Requests
         /\ Waiting(s) \subseteq Open(s)
  BY DEF Open, Waiting, WaitingIn

(* A step of one job that keeps its open places keeps those of all.          *)
LEMMA OpenKept ==
  ASSUME TypeOK, NEW r \in Requests, NEW q, req' = [req EXCEPT ![r] = q], NEW s,
         OpenIn(q, s) = OpenIn(req[r], s)
  PROVE  Open(s)' = Open(s)
  <1>1. \A o \in Requests : OpenIn(req'[o], s) = OpenIn(req[o], s)
    BY DEF TypeOK
  <1>2. Open(s)' = UNION {{o} \X OpenIn(req'[o], s) : o \in Requests}
    BY DEF Open, OpenIn
  <1>. QED  BY <1>1, <1>2 DEF Open

LEMMA WaitingKept ==
  ASSUME TypeOK, NEW r \in Requests, NEW q, req' = [req EXCEPT ![r] = q], NEW s,
         WaitingIn(q, s) = WaitingIn(req[r], s)
  PROVE  Waiting(s)' = Waiting(s)
  <1>1. \A o \in Requests : WaitingIn(req'[o], s) = WaitingIn(req[o], s)
    BY DEF TypeOK
  <1>2. Waiting(s)' = UNION {{o} \X WaitingIn(req'[o], s) : o \in Requests}
    BY DEF Waiting, WaitingIn, OpenIn
  <1>. QED  BY <1>1, <1>2 DEF Waiting

(* The open places after a step of one job.                                  *)
LEMMA OpenAfter ==
  ASSUME TypeOK, NEW r \in Requests, NEW q, req' = [req EXCEPT ![r] = q], NEW s
  PROVE  /\ Open(s)' = {e \in Open(s) : e[1] # r} \cup {<<r, i>> : i \in OpenIn(q, s)}
         /\ Waiting(s)' = {e \in Waiting(s) : e[1] # r} \cup {<<r, i>> : i \in WaitingIn(q, s)}
  <1>1. \A o \in Requests : req'[o] = IF o = r THEN q ELSE req[o]
    BY DEF TypeOK
  <1>2. /\ Open(s)' = UNION {{o} \X OpenIn(req'[o], s) : o \in Requests}
        /\ Waiting(s)' = UNION {{o} \X WaitingIn(req'[o], s) : o \in Requests}
    BY DEF Open, Waiting, WaitingIn, OpenIn
  <1>3. Open(s)' = {e \in Open(s) : e[1] # r} \cup {<<r, i>> : i \in OpenIn(q, s)}
    BY <1>1, <1>2 DEF Open
  <1>4. Waiting(s)' = {e \in Waiting(s) : e[1] # r} \cup {<<r, i>> : i \in WaitingIn(q, s)}
    BY <1>1, <1>2 DEF Waiting
  <1>. QED  BY <1>3, <1>4

(* What waits is open, so there are finitely many of both.                   *)
LEMMA OpenSizes ==
  ASSUME NEW s, IsFiniteSet(Open(s))
  PROVE  /\ IsFiniteSet(Waiting(s))
         /\ Cardinality(Open(s)) \in Nat /\ Cardinality(Waiting(s)) \in Nat
  BY PlacesArePairs, FS_Subset, FS_CardinalityType

(* The fields of a request, and of the stages it lists.                      *)
LEMMA RequestFields ==
  ASSUME TypeOK, NEW r \in Requests
  PROVE  /\ req[r] \in Request
         /\ req[r].listed \in Seq(Stage) /\ Len(req[r].listed) \in Nat
         /\ DOMAIN req[r].listed = 1 .. Len(req[r].listed)
         /\ req[r].next \in Nat /\ req[r].read \in Wrap
         /\ \A i \in DOMAIN req[r].listed : req[r].listed[i] \in Stage
  <1>1. req[r] \in Request
    BY DEF TypeOK
  <1>. QED  BY <1>1 DEF Request

LEMMA CurrentStage ==
  ASSUME TypeOK, Ordered, NEW r \in Requests, AtStage(req[r])
  PROVE  /\ Current(r) \in Stage /\ HasCommands(Current(r))
         /\ req[r].next \in DOMAIN req[r].listed /\ Lists(req[r], Current(r))
         /\ CommandsOf(Current(r)) \in Wrap
         /\ uses[Current(r).config][Current(r).place] \in Nat
  <1>1. req[r].next \in DOMAIN req[r].listed /\ HasCommands(Current(r))
    BY RequestFields DEF Ordered
  <1>2. Current(r) \in Stage
    BY <1>1, RequestFields DEF Current
  <1>3. Current(r).config \in Configurations /\ Current(r).place \in Places
    BY <1>2 DEF Stage
  <1>. QED  BY <1>1, <1>2, <1>3 DEF TypeOK, CommandsOf, Current, Lists

(* Steps of a job that change no stage and leave the open places as they     *)
(* are; what it has read then it has just read.                              *)
LEMMA WalkKeeps ==
  ASSUME IInv, NEW r \in Requests, NEW q \in Request, req' = [req EXCEPT ![r] = q],
         UNCHANGED <<commands, uses, raced>>,
         q.listed = req[r].listed \/ q.listed = <<>>,
         \A s \in Stage : HasCommands(s) =>
           OpenIn(q, s) = OpenIn(req[r], s) /\ WaitingIn(q, s) = WaitingIn(req[r], s),
         q.next \in 1 .. Len(q.listed) + 1,
         q.at = "idle" => q.listed = <<>>,
         AtStage(q) => q.next <= Len(q.listed) /\ HasCommands(q.listed[q.next]),
         q.at \in {"prepend", "append"} => q.read = CommandsOf(q.listed[q.next])
  PROVE  Ordered' /\ BotsUnwrapped' /\ StagesAccounted' /\ ReadsAccounted' /\ RacesSeen'
  <1>1. \A o \in Requests : req'[o] = IF o = r THEN q ELSE req[o]
    BY DEF IInv, TypeOK
  <1>2. Ordered'
    BY <1>1 DEF IInv, Ordered, Current, HasCommands
  <1>3. BotsUnwrapped'
    BY DEF IInv, BotsUnwrapped
  <1>4. \A s \in Stage : HasCommands(s) => Open(s)' = Open(s) /\ Waiting(s)' = Waiting(s)
    BY OpenKept, WaitingKept DEF IInv
  <1>5. \A s \in Stage : HasCommands(s)' = HasCommands(s) /\ CommandsOf(s)' = CommandsOf(s)
    BY DEF HasCommands, CommandsOf
  <1>6. \A s \in Stage : \A w : HasCommands(s) => Fits(w, s)' = Fits(w, s) /\ Exact(w, s)' = Exact(w, s)
    BY <1>4 DEF Fits, Exact
  <1>7. StagesAccounted'
    BY <1>4, <1>5, <1>6 DEF IInv, StagesAccounted, Fits, Exact
  <1>8. ReadsAccounted'
    <2> SUFFICES ASSUME NEW o \in Requests, req'[o].at \in {"prepend", "append"}
                 PROVE  /\ Fits(req[o].read, Current(o))'
                        /\ Current(o)' \notin raced => req'[o].read = CommandsOf(Current(o))'
      BY DEF ReadsAccounted
    <2>1. CASE o # r
      <3>1. req'[o] = req[o] /\ Current(o)' = Current(o) /\ AtStage(req[o])
        BY <1>1, <2>1 DEF Current, AtStage
      <3>2. Current(o) \in Stage /\ HasCommands(Current(o))
        BY <3>1, CurrentStage DEF IInv
      <3>3. Fits(req[o].read, Current(o))' = Fits(req[o].read, Current(o))
        BY <1>4, <3>1, <3>2 DEF Fits
      <3>. QED  BY <1>5, <3>1, <3>2, <3>3 DEF IInv, ReadsAccounted
    <2>2. CASE o = r
      <3> DEFINE s == q.listed[q.next]
      <3>1. req'[o] = q /\ Current(o)' = s /\ AtStage(q)
        BY <1>1, <2>2 DEF Current, AtStage
      <3>2. q.listed \in Seq(Stage) /\ q.next \in 1 .. Len(q.listed)
        BY <3>1 DEF Request
      <3>3. s \in Stage /\ HasCommands(s)
        BY <3>1, <3>2
      <3>4. q.read = CommandsOf(s) /\ CommandsOf(s)' = CommandsOf(s)
        BY <1>1, <1>5, <2>2, <3>3
      <3>5. Fits(CommandsOf(s), s)
        BY <3>3 DEF IInv, StagesAccounted
      <3>6. Fits(req[o].read, Current(o))' <=> Fits(q.read, s)
        BY <1>4, <3>1, <3>3 DEF Fits
      <3>. QED  BY <3>1, <3>4, <3>5, <3>6
    <2>. QED  BY <2>1, <2>2
  <1>9. RacesSeen'
    BY <1>1 DEF IInv, RacesSeen, Lists
  <1>. QED  BY <1>2, <1>3, <1>7, <1>8, <1>9

(* The idle request keeps nothing of its last job.                           *)
LEMMA IdleRequest ==
  /\ Idle \in Request /\ Idle.listed = <<>> /\ Idle.next = 1
  /\ \A s : OpenIn(Idle, s) = {} /\ WaitingIn(Idle, s) = {}
  <1>1. <<>> \in Seq(Places) /\ <<>> \in Seq(Stage) /\ Len(<<>>) = 0
    OBVIOUS
  <1>2. Idle \in Request
    BY <1>1 DEF Idle, Request, Unwrapped, Wrap
  <1>3. Idle.listed = <<>> /\ Idle.next = 1
    BY DEF Idle
  <1>. QED  BY <1>2, <1>3 DEF OpenIn, WaitingIn

LEMMA BeginPreserves ==
  ASSUME IInv, NEW r \in Requests, Begin(r)
  PROVE  IInv'
  <1>1. PICK todo \in Manifests : req' = [req EXCEPT ![r] = [Idle EXCEPT !.at = "stages", !.todo = todo]]
    BY DEF Begin
  <1> DEFINE q == [Idle EXCEPT !.at = "stages", !.todo = todo]
  <1>2. /\ q.at = "stages" /\ q.listed = <<>> /\ q.next = 1
        /\ q \in Request
    <2>1. todo \in Seq(Places)
      BY InjectionAssumption DEF Places
    <2>. QED  BY <2>1, IdleRequest DEF Idle, Request
  <1>3. req[r].listed = <<>>
    BY DEF Begin, IInv, Ordered
  <1>4. \A s \in Stage : HasCommands(s) =>
          OpenIn(q, s) = OpenIn(req[r], s) /\ WaitingIn(q, s) = WaitingIn(req[r], s)
    BY <1>2, <1>3 DEF OpenIn, WaitingIn
  <1>5. TypeOK'
    BY <1>1, <1>2, InjectionAssumption DEF Begin, IInv, TypeOK
  <1>6. UNCHANGED <<commands, uses, raced>>
    BY DEF Begin
  <1>7. /\ q.at = "idle" => q.listed = <<>>
        /\ AtStage(q) => q.next <= Len(q.listed) /\ HasCommands(q.listed[q.next])
        /\ q.at \in {"prepend", "append"} => q.read = CommandsOf(q.listed[q.next])
        /\ q.next \in 1 .. Len(q.listed) + 1
    BY <1>2 DEF AtStage
  <1>8. req' = [req EXCEPT ![r] = q]
    BY <1>1
  <1> HIDE DEF q
  <1>9. Ordered' /\ BotsUnwrapped' /\ StagesAccounted' /\ ReadsAccounted' /\ RacesSeen'
    BY <1>2, <1>4, <1>6, <1>7, <1>8, WalkKeeps
  <1>. QED  BY <1>5, <1>9 DEF IInv

(* Steps of a job that keep its list and go on in it.                        *)
LEMMA GoesOn ==
  ASSUME IInv, NEW r \in Requests, NEW q \in Request, req' = [req EXCEPT ![r] = q],
         UNCHANGED <<config, commands, jobs, uses, raced>>,
         q.listed = req[r].listed, q.at # "idle", q.next \in 1 .. Len(req[r].listed) + 1,
         \A s \in Stage : HasCommands(s) =>
           OpenIn(q, s) = OpenIn(req[r], s) /\ WaitingIn(q, s) = WaitingIn(req[r], s),
         AtStage(q) => q.next <= Len(q.listed) /\ HasCommands(q.listed[q.next]),
         q.at \in {"prepend", "append"} => q.read = CommandsOf(q.listed[q.next])
  PROVE  IInv'
  <1>1. TypeOK'
    BY DEF IInv, TypeOK
  <1>. QED  BY <1>1, WalkKeeps DEF IInv

(* The stage was not injected, or the next phase begins.                     *)
LEMMA SkipPreserves ==
  ASSUME IInv, NEW r \in Requests, req[r].at = "stages",
         NEW q \in Request, req' = [req EXCEPT ![r] = q],
         UNCHANGED <<config, commands, jobs, uses, raced>>,
         q.at \in {"stages", "commands"}, q.listed = req[r].listed, q.next = req[r].next
  PROVE  IInv'
  <1>1. \A s : OpenIn(q, s) = OpenIn(req[r], s) /\ WaitingIn(q, s) = WaitingIn(req[r], s)
    BY DEF OpenIn, WaitingIn
  <1>. QED  BY <1>1, GoesOn DEF IInv, Ordered, AtStage

LEMMA PassPreserves ==
  ASSUME IInv, NEW r \in Requests, Pass(r)
  PROVE  IInv'
  <1> DEFINE q == [req[r] EXCEPT !.next = @ + 1]
  <1>1. /\ req' = [req EXCEPT ![r] = q]
        /\ req[r].at = "commands" /\ req[r].next <= Len(req[r].listed)
        /\ ~HasCommands(req[r].listed[req[r].next])
        /\ UNCHANGED <<config, commands, jobs, uses, raced>>
    BY DEF Pass, Current
  <1>2. q \in Request /\ q.at = "commands" /\ q.listed = req[r].listed /\ q.next = req[r].next + 1
    BY <1>1, RequestFields DEF IInv, Request
  <1>3. ASSUME NEW s \in Stage, HasCommands(s)
        PROVE  OpenIn(q, s) = OpenIn(req[r], s) /\ WaitingIn(q, s) = WaitingIn(req[r], s)
    BY <1>1, <1>2, <1>3, RequestFields DEF OpenIn, WaitingIn, IInv
  <1>4. q.next \in 1 .. Len(req[r].listed) + 1
    BY <1>1, <1>2, RequestFields DEF IInv
  <1>. QED  BY <1>1, <1>2, <1>3, <1>4, GoesOn DEF AtStage

(* ReadBefore and ReadAfter                                                  *)
LEMMA ReadPreserves ==
  ASSUME IInv, NEW r \in Requests, NEW at \in {"prepend", "append"},
         req[r].at = IF at = "prepend" THEN "commands" ELSE "between",
         req[r].next \in 1 .. Len(req[r].listed), HasCommands(Current(r)),
         req' = [req EXCEPT ![r].at = at, ![r].read = CommandsOf(Current(r))],
         UNCHANGED <<config, commands, jobs, uses, raced>>
  PROVE  IInv'
  <1> DEFINE q  == [req[r] EXCEPT !.at = at, !.read = CommandsOf(Current(r))]
  <1>1. CommandsOf(Current(r)) \in Wrap
    <2>1. Current(r) \in Stage
      BY RequestFields DEF Current, IInv
    <2>. QED  BY <2>1 DEF Stage, CommandsOf, IInv, TypeOK
  <1>2. /\ q \in Request /\ q.at = at /\ q.listed = req[r].listed /\ q.next = req[r].next
        /\ q.read = CommandsOf(Current(r))
    BY <1>1, RequestFields DEF IInv, Request
  <1>3. \A s \in Stage : HasCommands(s) =>
          OpenIn(q, s) = OpenIn(req[r], s) /\ WaitingIn(q, s) = WaitingIn(req[r], s)
    BY <1>2 DEF OpenIn, WaitingIn
  <1>4. req' = [req EXCEPT ![r] = q]
    OBVIOUS
  <1>5. /\ q.at # "idle" /\ q.next \in 1 .. Len(req[r].listed) + 1
        /\ AtStage(q) => q.next <= Len(q.listed) /\ HasCommands(q.listed[q.next])
        /\ q.at \in {"prepend", "append"} => q.read = CommandsOf(q.listed[q.next])
    BY <1>2, RequestFields DEF IInv, Current
  <1> HIDE DEF q
  <1>. QED  BY <1>2, <1>3, <1>4, <1>5, GoesOn

LEMMA CreateJobPreserves ==
  ASSUME IInv, NEW r \in Requests, CreateJob(r)
  PROVE  IInv'
  <1>1. /\ req' = [req EXCEPT ![r] = Idle] /\ UNCHANGED <<config, commands, jobs, uses, raced>>
        /\ req[r].next = Len(req[r].listed) + 1
    BY DEF CreateJob, Injected
  <1>2. \A s \in Stage : HasCommands(s) =>
          OpenIn(Idle, s) = OpenIn(req[r], s) /\ WaitingIn(Idle, s) = WaitingIn(req[r], s)
    BY <1>1, IdleRequest, RequestFields DEF OpenIn, WaitingIn, IInv
  <1>3. /\ Idle.at = "idle" => Idle.listed = <<>>
        /\ AtStage(Idle) => Idle.next <= Len(Idle.listed) /\ HasCommands(Idle.listed[Idle.next])
        /\ Idle.at \in {"prepend", "append"} => Idle.read = CommandsOf(Idle.listed[Idle.next])
        /\ Idle.next \in 1 .. Len(Idle.listed) + 1
    BY IdleRequest DEF Idle, AtStage
  <1>4. Ordered' /\ BotsUnwrapped' /\ StagesAccounted' /\ ReadsAccounted' /\ RacesSeen'
    BY <1>1, <1>2, <1>3, IdleRequest, WalkKeeps
  <1>5. TypeOK'
    BY <1>1, IdleRequest DEF IInv, TypeOK
  <1>. QED  BY <1>4, <1>5 DEF IInv

(* What a change of the configuration, or no step, leaves as it is.          *)
LEMMA NothingMoves ==
  ASSUME IInv, UNCHANGED <<commands, req, uses, raced>>
  PROVE  Ordered' /\ BotsUnwrapped' /\ StagesAccounted' /\ ReadsAccounted' /\ RacesSeen'
  <1>1. Ordered' /\ BotsUnwrapped' /\ RacesSeen'
    BY DEF IInv, Ordered, Current, BotsUnwrapped, RacesSeen, Lists
  <1>2. \A s : Open(s)' = Open(s) /\ Waiting(s)' = Waiting(s) /\ CommandsOf(s)' = CommandsOf(s)
    BY DEF Open, Waiting, OpenIn, WaitingIn, CommandsOf
  <1>3. \A s, w : Fits(w, s)' = Fits(w, s) /\ Exact(w, s)' = Exact(w, s)
    BY <1>2 DEF Fits, Exact
  <1>4. StagesAccounted'
    BY <1>2, <1>3 DEF IInv, StagesAccounted, Fits, Exact
  <1>5. \A r \in Requests : Current(r)' = Current(r)
    BY DEF Current
  <1>6. ReadsAccounted'
    <2> SUFFICES ASSUME NEW r \in Requests, req[r].at \in {"prepend", "append"}
                 PROVE  /\ Fits(req[r].read, Current(r))'
                        /\ Current(r) \notin raced => req[r].read = CommandsOf(Current(r))'
      BY <1>5 DEF ReadsAccounted
    <2>1. Fits(req[r].read, Current(r)) /\ (Current(r) \notin raced => req[r].read = CommandsOf(Current(r)))
      BY DEF IInv, ReadsAccounted
    <2>2. Fits(req[r].read, Current(r))' = Fits(req[r].read, Current(r))
      BY <1>2, <1>5 DEF Fits
    <2>3. CommandsOf(Current(r))' = CommandsOf(Current(r))
      BY <1>5 DEF CommandsOf
    <2>. QED  BY <2>1, <2>2, <2>3
  <1>. QED  BY <1>1, <1>4, <1>6

LEMMA ReloadPreserves ==
  ASSUME IInv, Reload
  PROVE  IInv'
  <1>1. TypeOK'
    BY InjectionAssumption DEF Reload, IInv, TypeOK, Configurations
  <1>2. Ordered' /\ BotsUnwrapped' /\ StagesAccounted' /\ ReadsAccounted' /\ RacesSeen'
    BY NothingMoves DEF Reload
  <1>. QED  BY <1>1, <1>2 DEF IInv

(* A stage with one place more, or one less, to wrap.                        *)
LEMMA FitsOneMore ==
  ASSUME NEW s, NEW w \in Wrap, NEW r, NEW i, IsFiniteSet(Open(s)),
         uses[s.config][s.place] \in Nat, uses'[s.config][s.place] = uses[s.config][s.place] + 1,
         <<r, i>> \notin Open(s),
         Open(s)' = Open(s) \cup {<<r, i>>}, Waiting(s)' = Waiting(s) \cup {<<r, i>>}
  PROVE  IsFiniteSet(Open(s)') /\ (Fits(w, s) => Fits(w, s)') /\ (Exact(w, s) => Exact(w, s)')
  <1>1. /\ IsFiniteSet(Open(s)') /\ Cardinality(Open(s)') = Cardinality(Open(s)) + 1
        /\ Cardinality(Waiting(s)') = Cardinality(Waiting(s)) + 1
    <2>1. IsFiniteSet(Waiting(s)) /\ <<r, i>> \notin Waiting(s)
      BY OpenSizes, PlacesArePairs
    <2>2. ASSUME NEW S, IsFiniteSet(S), NEW e, e \notin S
          PROVE  IsFiniteSet(S \cup {e}) /\ Cardinality(S \cup {e}) = Cardinality(S) + 1
      BY <2>2, FS_AddElement
    <2>. QED  BY <2>1, <2>2
  <1>2. Cardinality(Open(s)) \in Nat /\ Cardinality(Waiting(s)) \in Nat /\ w.before \in Nat /\ w.after \in Nat
    BY OpenSizes DEF Wrap
  <1>. QED  BY <1>1, <1>2 DEF Fits, Exact

(* A stage added at the end of a list is one place more to wrap.             *)
LEMMA ListingOpens ==
  ASSUME TypeOK, Ordered, NEW r \in Requests, req[r].at = "stages", NEW s \in Stage, NEW q \in Request,
         q.at = "stages", q.next = req[r].next, q.listed = Append(req[r].listed, s)
  PROVE  LET i == Len(req[r].listed) + 1
         IN  /\ i \notin OpenIn(req[r], s)
             /\ OpenIn(q, s) = OpenIn(req[r], s) \cup {i}
             /\ WaitingIn(q, s) = WaitingIn(req[r], s) \cup {i}
             /\ \A t \in Stage \ {s} : OpenIn(q, t) = OpenIn(req[r], t) /\ WaitingIn(q, t) = WaitingIn(req[r], t)
             /\ \A t : Lists(q, t) <=> t = s \/ Lists(req[r], t)
  <1> DEFINE i == Len(req[r].listed) + 1
  <1>1. /\ DOMAIN q.listed = 1 .. i /\ q.listed[i] = s
        /\ \A j \in 1 .. Len(req[r].listed) : q.listed[j] = req[r].listed[j]
        /\ DOMAIN req[r].listed = 1 .. Len(req[r].listed) /\ Len(req[r].listed) \in Nat
        /\ req[r].next \in 1 .. i
    BY RequestFields DEF Ordered
  <1>2. i \notin OpenIn(req[r], s)
    BY <1>1 DEF OpenIn
  <1>3. \A t : OpenIn(q, t) = IF t = s THEN OpenIn(req[r], t) \cup {i} ELSE OpenIn(req[r], t)
    BY <1>1 DEF OpenIn
  <1>4. \A t : WaitingIn(q, t) = OpenIn(q, t) /\ WaitingIn(req[r], t) = OpenIn(req[r], t)
    BY DEF WaitingIn
  <1>5. \A t : Lists(q, t) <=> t = s \/ Lists(req[r], t)
    BY <1>1 DEF Lists
  <1>. QED  BY <1>2, <1>3, <1>4, <1>5

LEMMA InjectPreserves ==
  ASSUME IInv, NEW r \in Requests, NEW s \in Stage, req[r].at = "stages", req[r].todo # <<>>,
         Inject(r, s), UNCHANGED <<config, commands, jobs>>
  PROVE  IInv'
  <1> DEFINE q == [req[r] EXCEPT !.todo = Tail(@), !.listed = Append(@, s)]
             i == Len(req[r].listed) + 1
  <1>1. req' = [req EXCEPT ![r] = q]
    BY DEF Inject
  <1>2. /\ q \in Request /\ q.at = "stages" /\ q.next = req[r].next
        /\ q.listed = Append(req[r].listed, s)
    <2>1. req[r] \in Request /\ Tail(req[r].todo) \in Seq(Places) /\ Append(req[r].listed, s) \in Seq(Stage)
      BY RequestFields DEF IInv, Request
    <2>. QED  BY <2>1 DEF Request
  <1> HIDE DEF q
  <1>3. \A o \in Requests : req'[o] = IF o = r THEN q ELSE req[o]
    BY <1>1 DEF IInv, TypeOK
  <1>4. /\ i \notin OpenIn(req[r], s)
        /\ OpenIn(q, s) = OpenIn(req[r], s) \cup {i}
        /\ WaitingIn(q, s) = WaitingIn(req[r], s) \cup {i}
        /\ \A t \in Stage \ {s} : OpenIn(q, t) = OpenIn(req[r], t) /\ WaitingIn(q, t) = WaitingIn(req[r], t)
        /\ \A t : Lists(q, t) <=> t = s \/ Lists(req[r], t)
    BY <1>2, ListingOpens DEF IInv
  <1> HIDE DEF i
  <1>5. s.config \in Configurations /\ s.place \in Places
    BY DEF Stage
  <1>6. /\ \A t \in Stage : uses'[t.config][t.place] = uses[t.config][t.place] + (IF t = s THEN 1 ELSE 0)
        /\ \A t \in Stage : uses[t.config][t.place] \in Nat
    <2>1. \A t \in Stage : t # s => t.config # s.config \/ t.place # s.place
      BY DEF Stage
    <2>2. \A c \in Configurations, p \in Places :
            /\ uses[c][p] \in Nat
            /\ uses'[c][p] = IF c = s.config /\ p = s.place THEN uses[c][p] + 1 ELSE uses[c][p]
      BY <1>5 DEF Inject, IInv, TypeOK
    <2>3. \A t \in Stage : t.config \in Configurations /\ t.place \in Places
      BY DEF Stage
    <2>. QED  BY <2>1, <2>2, <2>3
  <1>7. raced \subseteq raced' /\ raced' \subseteq raced \cup {s}
    BY DEF Inject
  <1>8. TypeOK'
    <2>1. uses' \in [Configurations -> [Places -> Nat]]
      BY <1>5 DEF Inject, IInv, TypeOK
    <2>. QED  BY <1>1, <1>2, <1>7, <2>1 DEF IInv, TypeOK
  <1>9. /\ \A t \in Stage \ {s} : Open(t)' = Open(t) /\ Waiting(t)' = Waiting(t)
        /\ Open(s)' = Open(s) \cup {<<r, i>>} /\ Waiting(s)' = Waiting(s) \cup {<<r, i>>}
        /\ <<r, i>> \notin Open(s)
    <2>1. \A t \in Stage \ {s} : Open(t)' = Open(t) /\ Waiting(t)' = Waiting(t)
      BY <1>1, <1>4, OpenKept, WaitingKept DEF IInv
    <2>2. /\ Open(s)' = {e \in Open(s) : e[1] # r} \cup {<<r, j>> : j \in OpenIn(q, s)}
          /\ Waiting(s)' = {e \in Waiting(s) : e[1] # r} \cup {<<r, j>> : j \in WaitingIn(q, s)}
      BY <1>1, OpenAfter DEF IInv
    <2>3. /\ \A j : <<r, j>> \in Open(s) <=> j \in OpenIn(req[r], s)
          /\ \A j : <<r, j>> \in Waiting(s) <=> j \in WaitingIn(req[r], s)
          /\ \A e \in Open(s) \cup Waiting(s) : e = <<e[1], e[2]>>
      BY OpenPlaces, PlacesArePairs
    <2>4. Open(s)' = Open(s) \cup {<<r, i>>}
      BY <1>4, <2>2, <2>3
    <2>5. Waiting(s)' = Waiting(s) \cup {<<r, i>>}
      BY <1>4, <2>2, <2>3
    <2>. QED  BY <1>4, <2>1, <2>3, <2>4, <2>5
  <1>10. ASSUME NEW t \in Stage, HasCommands(t), NEW w \in Wrap
         PROVE  IsFiniteSet(Open(t)') /\ (Fits(w, t) => Fits(w, t)') /\ (Exact(w, t) => Exact(w, t)')
    <2>1. IsFiniteSet(Open(t))
      BY <1>10 DEF IInv, StagesAccounted
    <2>2. CASE t = s
      BY <1>6, <1>9, <2>1, <2>2, FitsOneMore
    <2>3. CASE t # s
      BY <1>6, <1>9, <2>1, <2>3 DEF Fits, Exact
    <2>. QED  BY <2>2, <2>3
  <1>11. Ordered'
    <2>1. \A o \in Requests \ {r} : Current(o)' = Current(o)
      BY <1>3 DEF Current
    <2>2. q.next \in 1 .. Len(q.listed) + 1 /\ q.at # "idle" /\ ~AtStage(q)
      BY <1>2, RequestFields DEF IInv, Ordered, AtStage
    <2>. QED  BY <1>3, <2>1, <2>2 DEF IInv, Ordered, HasCommands
  <1>12. BotsUnwrapped'
    BY DEF IInv, BotsUnwrapped
  <1>13. \A t \in Stage : CommandsOf(t)' = CommandsOf(t) /\ CommandsOf(t) \in Wrap
    BY DEF CommandsOf, Stage, IInv, TypeOK
  <1>14. StagesAccounted'
    BY <1>7, <1>10, <1>13 DEF IInv, StagesAccounted
  <1>15. ReadsAccounted'
    <2> SUFFICES ASSUME NEW o \in Requests, req'[o].at \in {"prepend", "append"}
                 PROVE  /\ Fits(req[o].read, Current(o))'
                        /\ Current(o)' \notin raced' => req'[o].read = CommandsOf(Current(o))'
      BY DEF ReadsAccounted
    <2>1. req'[o] = req[o] /\ Current(o)' = Current(o) /\ AtStage(req[o])
      BY <1>2, <1>3 DEF Current, AtStage
    <2>2. Current(o) \in Stage /\ HasCommands(Current(o)) /\ req[o].read \in Wrap
      BY <2>1, CurrentStage, RequestFields DEF IInv
    <2>3. Fits(req[o].read, Current(o)) /\ (Current(o) \notin raced => req[o].read = CommandsOf(Current(o)))
      BY <2>1 DEF IInv, ReadsAccounted
    <2>4. \A t \in Stage, w \in Wrap : HasCommands(t) /\ Fits(w, t) => Fits(w, t)'
      BY <1>10
    <2>5. Fits(req[o].read, Current(o))'
      BY <2>1, <2>2, <2>3, <2>4 DEF Fits
    <2>6. CommandsOf(Current(o))' = CommandsOf(Current(o))
      BY <2>1, <2>2, <1>13 DEF CommandsOf
    <2>. QED  BY <1>7, <2>1, <2>3, <2>5, <2>6
  <1>16. RacesSeen'
    <2>1. \A o \in Requests : \A t : Lists(req'[o], t) <=> (o = r /\ t = s) \/ Lists(req[o], t)
      BY <1>3, <1>4
    <2>2. s \notin raced' => \A o \in Requests \ {r} : ~Lists(req[o], s)
      BY DEF Inject
    <2>3. \A t \in Stage \ raced' : \A o, p \in Requests : Lists(req[o], t) /\ Lists(req[p], t) => o = p
      BY <1>7 DEF IInv, RacesSeen
    <2>4. RacesSeen' <=> \A t \in Stage \ raced' : \A o, p \in Requests :
                           Lists(req'[o], t) /\ Lists(req'[p], t) => o = p
      BY DEF RacesSeen, Lists
    <2>. QED  BY <2>1, <2>2, <2>3, <2>4
  <1>. QED  BY <1>8, <1>11, <1>12, <1>14, <1>15, <1>16 DEF IInv

LEMMA FitsOneLess ==
  ASSUME NEW s, NEW v \in Wrap, NEW w \in Wrap, NEW e, IsFiniteSet(Open(s)),
         uses[s.config][s.place] \in Nat, UNCHANGED uses,
         \/ /\ e \in Waiting(s) /\ Waiting(s)' = Waiting(s) \ {e} /\ Open(s)' = Open(s)
            /\ w.before = v.before + 1 /\ w.after = v.after
         \/ /\ e \in Open(s) /\ Open(s)' = Open(s) \ {e} /\ Waiting(s)' = Waiting(s)
            /\ w.before = v.before /\ w.after = v.after + 1
  PROVE  /\ IsFiniteSet(Open(s)')
         /\ Fits(v, s) => Fits(v, s)' /\ Fits(w, s)'
         /\ Exact(v, s) => Exact(w, s)'
  <1>1. ASSUME NEW S, IsFiniteSet(S), e \in S
        PROVE  IsFiniteSet(S \ {e}) /\ Cardinality(S \ {e}) = Cardinality(S) - 1
    BY <1>1, FS_RemoveElement
  <1>2. /\ IsFiniteSet(Waiting(s)) /\ Cardinality(Open(s)) \in Nat /\ Cardinality(Waiting(s)) \in Nat
        /\ v.before \in Nat /\ v.after \in Nat
    BY OpenSizes DEF Wrap
  <1>3. CASE /\ e \in Waiting(s) /\ Waiting(s)' = Waiting(s) \ {e} /\ Open(s)' = Open(s)
             /\ w.before = v.before + 1 /\ w.after = v.after
    <2>1. Cardinality(Waiting(s)') = Cardinality(Waiting(s)) - 1
      BY <1>1, <1>2, <1>3
    <2>. QED  BY <1>2, <1>3, <2>1 DEF Fits, Exact
  <1>4. CASE /\ e \in Open(s) /\ Open(s)' = Open(s) \ {e} /\ Waiting(s)' = Waiting(s)
             /\ w.before = v.before /\ w.after = v.after + 1
    <2>1. IsFiniteSet(Open(s)') /\ Cardinality(Open(s)') = Cardinality(Open(s)) - 1
      BY <1>1, <1>4
    <2>. QED  BY <1>2, <1>4, <2>1 DEF Fits, Exact
  <1>. QED  BY <1>3, <1>4

(* Prepend and AppendAfter, when what they assign fits.                      *)
LEMMA AssignKeeps ==
  ASSUME IInv, NEW r \in Requests, AtStage(req[r]), NEW s \in Stage, s = Current(r),
         NEW q \in Request, req' = [req EXCEPT ![r] = q], UNCHANGED <<config, jobs, uses, raced>>,
         NEW w \in Wrap, Assign(s, w),
         q.listed = req[r].listed, q.at \in {"between", "commands"}, q.next \in 1 .. Len(q.listed) + 1,
         q.at = "between" => q.next = req[r].next,
         \A t \in Stage \ {s} : OpenIn(q, t) = OpenIn(req[r], t) /\ WaitingIn(q, t) = WaitingIn(req[r], t),
         IsFiniteSet(Open(s)'), Fits(w, s)', s \notin raced => Exact(w, s)',
         \A v \in Wrap : Fits(v, s) => Fits(v, s)'
  PROVE  IInv'
  <1>1. \A o \in Requests : req'[o] = IF o = r THEN q ELSE req[o]
    BY DEF IInv, TypeOK
  <1>2. /\ s.config \in Configurations /\ s.place \in Places /\ HasCommands(s)
        /\ Lists(req[r], s) /\ req[r].next \in DOMAIN req[r].listed
    BY CurrentStage DEF IInv, Stage
  <1>3. /\ \A t \in Stage : CommandsOf(t)' = IF t = s THEN w ELSE CommandsOf(t)
        /\ commands' \in [Configurations -> [Places -> Wrap]]
        /\ \A c \in Configurations : commands'[c]["bot"] = commands[c]["bot"]
    <2>1. \A c \in Configurations, p \in Places :
            commands'[c][p] = IF c = s.config /\ p = s.place THEN w ELSE commands[c][p]
      BY <1>2 DEF Assign, IInv, TypeOK
    <2>2. \A t \in Stage : t.config \in Configurations /\ t.place \in Places
      BY DEF Stage
    <2>3. \A t \in Stage : t # s => t.config # s.config \/ t.place # s.place
      BY DEF Stage
    <2>4. commands' \in [Configurations -> [Places -> Wrap]]
      BY <1>2 DEF Assign, IInv, TypeOK
    <2>. QED  BY <1>2, <2>1, <2>2, <2>3, <2>4 DEF CommandsOf, HasCommands, Places
  <1>4. TypeOK'
    BY <1>3 DEF IInv, TypeOK
  <1>5. \A o \in Requests : Current(o)' = IF o = r THEN q.listed[q.next] ELSE Current(o)
    BY <1>1 DEF Current
  <1>6. Ordered'
    <2>1. AtStage(q) => q.next <= Len(q.listed) /\ HasCommands(q.listed[q.next])
      BY <1>2, RequestFields DEF AtStage, IInv, Current
    <2>. QED  BY <1>1, <1>5, <2>1 DEF IInv, Ordered, HasCommands
  <1>7. BotsUnwrapped'
    BY <1>3 DEF IInv, BotsUnwrapped
  <1>8. \A t \in Stage \ {s} : Open(t)' = Open(t) /\ Waiting(t)' = Waiting(t)
    BY OpenKept, WaitingKept DEF IInv
  <1>9. \A t \in Stage \ {s} : \A v : Fits(v, t)' = Fits(v, t) /\ Exact(v, t)' = Exact(v, t)
    BY <1>8 DEF Fits, Exact
  <1>10. StagesAccounted'
    <2> SUFFICES ASSUME NEW t \in Stage, HasCommands(t)
                 PROVE  /\ IsFiniteSet(Open(t)') /\ Fits(CommandsOf(t), t)'
                        /\ t \notin raced => Exact(CommandsOf(t), t)'
      BY DEF StagesAccounted
    <2>1. CASE t = s
      BY <1>3, <2>1 DEF Fits, Exact
    <2>2. CASE t # s
      BY <1>3, <1>8, <2>2 DEF IInv, StagesAccounted, Fits, Exact
    <2>. QED  BY <2>1, <2>2
  <1>11. ReadsAccounted'
    <2> SUFFICES ASSUME NEW o \in Requests, req'[o].at \in {"prepend", "append"}
                 PROVE  /\ Fits(req[o].read, Current(o))'
                        /\ Current(o)' \notin raced => req'[o].read = CommandsOf(Current(o))'
      BY DEF ReadsAccounted
    <2>1. o # r /\ req'[o] = req[o] /\ Current(o)' = Current(o) /\ AtStage(req[o])
      BY <1>1, <1>5 DEF AtStage
    <2>2. /\ Current(o) \in Stage /\ HasCommands(Current(o)) /\ req[o].read \in Wrap
          /\ Lists(req[o], Current(o))
      BY <2>1, CurrentStage, RequestFields DEF IInv
    <2>3. Fits(req[o].read, Current(o)) /\ (Current(o) \notin raced => req[o].read = CommandsOf(Current(o)))
      BY <2>1 DEF IInv, ReadsAccounted
    <2>4. CommandsOf(Current(o))' = IF Current(o) = s THEN w ELSE CommandsOf(Current(o))
      BY <1>3, <2>1, <2>2 DEF CommandsOf
    <2>5. CASE Current(o) = s
      <3>1. s \in raced
        BY <1>2, <2>1, <2>2, <2>5 DEF IInv, RacesSeen
      <3>2. Fits(req[o].read, Current(o))'
        BY <2>1, <2>2, <2>3, <2>5 DEF Fits
      <3>. QED  BY <2>1, <2>5, <3>1, <3>2
    <2>6. CASE Current(o) # s
      <3>1. Fits(req[o].read, Current(o))'
        BY <1>8, <2>1, <2>2, <2>3, <2>6 DEF Fits
      <3>. QED  BY <2>1, <2>3, <2>4, <2>6, <3>1
    <2>. QED  BY <2>5, <2>6
  <1>12. RacesSeen'
    BY <1>1 DEF IInv, RacesSeen, Lists
  <1>. QED  BY <1>4, <1>6, <1>7, <1>10, <1>11, <1>12 DEF IInv

LEMMA PrependPreserves ==
  ASSUME IInv, NEW r \in Requests, Prepend(r)
  PROVE  IInv'
  <1> DEFINE q == [req[r] EXCEPT !.at = "between"]
  <1>1. /\ req[r].at = "prepend" /\ AtStage(req[r]) /\ UNCHANGED <<config, jobs, uses, raced>>
        /\ req' = [req EXCEPT ![r] = q]
    BY DEF Prepend, AtStage
  <1>2. PICK s \in Stage : s = Current(r) /\ HasCommands(s)
    BY <1>1, CurrentStage DEF IInv
  <1>3. PICK w \in Wrap : /\ w.before = req[r].read.before + 1 /\ w.after = req[r].read.after
                          /\ Assign(s, w)
    <2> DEFINE w == [req[r].read EXCEPT !.before = @ + 1]
    <2>1. Assign(s, w)
      BY <1>2 DEF Prepend
    <2>2. w \in Wrap /\ w.before = req[r].read.before + 1 /\ w.after = req[r].read.after
      BY RequestFields DEF Wrap, IInv
    <2> HIDE DEF w
    <2>. QED  BY <2>1, <2>2
  <1>4. /\ q \in Request /\ q.at = "between" /\ q.listed = req[r].listed /\ q.next = req[r].next
    BY RequestFields DEF IInv, Request
  <1> HIDE DEF q
  <1>5. /\ req[r].next \in DOMAIN req[r].listed /\ req[r].next \in 1 .. Len(q.listed) + 1
        /\ req[r].listed[req[r].next] = s
    BY <1>1, <1>2, <1>4, CurrentStage, RequestFields DEF IInv, Current
  <1>6. /\ \A t : OpenIn(q, t) = OpenIn(req[r], t)
        /\ \A t \in Stage \ {s} : WaitingIn(q, t) = WaitingIn(req[r], t)
        /\ WaitingIn(q, s) = WaitingIn(req[r], s) \ {req[r].next}
        /\ req[r].next \in WaitingIn(req[r], s)
    BY <1>1, <1>4, <1>5, RequestFields DEF OpenIn, WaitingIn, IInv
  <1> DEFINE e == <<r, req[r].next>>
  <1>7. e \in Waiting(s) /\ Waiting(s)' = Waiting(s) \ {e} /\ Open(s)' = Open(s)
    <2>1. Open(s)' = Open(s)
      BY <1>1, <1>6, OpenKept DEF IInv
    <2>2. Waiting(s)' = {d \in Waiting(s) : d[1] # r} \cup {<<r, j>> : j \in WaitingIn(q, s)}
      BY <1>1, OpenAfter DEF IInv
    <2>3. /\ \A j : <<r, j>> \in Waiting(s) <=> j \in WaitingIn(req[r], s)
          /\ \A d \in Waiting(s) : d = <<d[1], d[2]>>
      BY OpenPlaces, PlacesArePairs
    <2>. QED  BY <1>6, <2>1, <2>2, <2>3
  <1> HIDE DEF e
  <1>8. /\ IsFiniteSet(Open(s)) /\ uses[s.config][s.place] \in Nat
        /\ Fits(req[r].read, s) /\ (s \notin raced => Exact(req[r].read, s))
    BY <1>1, <1>2, CurrentStage DEF IInv, StagesAccounted, ReadsAccounted
  <1>9. /\ IsFiniteSet(Open(s)')
        /\ \A v \in Wrap : w.before = v.before + 1 /\ w.after = v.after =>
              (Fits(v, s) => Fits(w, s)') /\ (Exact(v, s) => Exact(w, s)')
    BY <1>1, <1>7, <1>8, <1>3, RequestFields, FitsOneLess DEF IInv
  <1>10. \A v \in Wrap : Fits(v, s) => Fits(v, s)'
    <2> SUFFICES ASSUME NEW v \in Wrap, Fits(v, s)
                 PROVE  Fits(v, s)'
      OBVIOUS
    <2>1. PICK x \in Wrap : x.before = v.before + 1 /\ x.after = v.after
      <3>1. [before |-> v.before + 1, after |-> v.after] \in Wrap
        BY DEF Wrap
      <3>. QED  BY <3>1
    <2>. QED  BY <1>1, <1>7, <1>8, <2>1, FitsOneLess
  <1>11. Fits(w, s)' /\ (s \notin raced => Exact(w, s)')
    BY <1>3, <1>8, <1>9, RequestFields DEF IInv
  <1>12. /\ q.at \in {"between", "commands"} /\ q.next \in 1 .. Len(q.listed) + 1
         /\ q.at = "between" => q.next = req[r].next
         /\ \A t \in Stage \ {s} : OpenIn(q, t) = OpenIn(req[r], t) /\ WaitingIn(q, t) = WaitingIn(req[r], t)
    BY <1>4, <1>5, <1>6
  <1>. QED  BY <1>1, <1>2, <1>3, <1>4, <1>9, <1>10, <1>11, <1>12, AssignKeeps

LEMMA AppendAfterPreserves ==
  ASSUME IInv, NEW r \in Requests, AppendAfter(r)
  PROVE  IInv'
  <1> DEFINE q == [req[r] EXCEPT !.at = "commands", !.next = @ + 1, !.read = Unwrapped]
  <1>1. /\ req[r].at = "append" /\ AtStage(req[r]) /\ UNCHANGED <<config, jobs, uses, raced>>
        /\ req' = [req EXCEPT ![r] = q]
    BY DEF AppendAfter, AtStage
  <1>2. PICK s \in Stage : s = Current(r) /\ HasCommands(s)
    BY <1>1, CurrentStage DEF IInv
  <1>3. PICK w \in Wrap : /\ w.before = req[r].read.before /\ w.after = req[r].read.after + 1
                          /\ Assign(s, w)
    <2> DEFINE w == [req[r].read EXCEPT !.after = @ + 1]
    <2>1. Assign(s, w)
      BY <1>2 DEF AppendAfter
    <2>2. w \in Wrap /\ w.before = req[r].read.before /\ w.after = req[r].read.after + 1
      BY RequestFields DEF Wrap, IInv
    <2> HIDE DEF w
    <2>. QED  BY <2>1, <2>2
  <1>4. /\ q \in Request /\ q.at = "commands" /\ q.listed = req[r].listed /\ q.next = req[r].next + 1
    <2>1. Unwrapped \in Wrap /\ req[r].next + 1 \in Nat
      BY RequestFields DEF Unwrapped, Wrap, IInv
    <2>. QED  BY <2>1, RequestFields DEF IInv, Request
  <1> HIDE DEF q
  <1>5. /\ req[r].next \in DOMAIN req[r].listed /\ req[r].listed[req[r].next] = s
        /\ q.next \in 1 .. Len(q.listed) + 1
    BY <1>1, <1>2, <1>4, CurrentStage, RequestFields DEF IInv, Current
  <1>6. /\ \A t \in Stage \ {s} : OpenIn(q, t) = OpenIn(req[r], t)
        /\ OpenIn(q, s) = OpenIn(req[r], s) \ {req[r].next}
        /\ req[r].next \in OpenIn(req[r], s)
    BY <1>1, <1>4, <1>5, RequestFields DEF OpenIn, IInv
  <1>7. \A t \in Stage : WaitingIn(q, t) = WaitingIn(req[r], t)
    <2>1. \A t : WaitingIn(q, t) = OpenIn(q, t)
      BY <1>4 DEF WaitingIn
    <2>2. \A t : WaitingIn(req[r], t) = OpenIn(req[r], t) \ {req[r].next}
      BY <1>1 DEF WaitingIn
    <2>3. \A t \in Stage \ {s} : req[r].next \notin OpenIn(req[r], t)
      BY <1>5 DEF OpenIn
    <2>4. WaitingIn(q, s) = WaitingIn(req[r], s)
      BY <1>6, <2>1, <2>2
    <2>5. ASSUME NEW t \in Stage \ {s}
          PROVE  WaitingIn(q, t) = WaitingIn(req[r], t)
      <3>1. OpenIn(req[r], t) \ {req[r].next} = OpenIn(req[r], t)
        BY <2>3
      <3>. QED  BY <1>6, <2>1, <2>2, <3>1
    <2>. QED  BY <2>4, <2>5
  <1> DEFINE e == <<r, req[r].next>>
  <1>8. e \in Open(s) /\ Open(s)' = Open(s) \ {e} /\ Waiting(s)' = Waiting(s)
    <2>1. Waiting(s)' = Waiting(s)
      BY <1>1, <1>7, WaitingKept DEF IInv
    <2>2. Open(s)' = {d \in Open(s) : d[1] # r} \cup {<<r, j>> : j \in OpenIn(q, s)}
      BY <1>1, OpenAfter DEF IInv
    <2>3. /\ \A j : <<r, j>> \in Open(s) <=> j \in OpenIn(req[r], s)
          /\ \A d \in Open(s) : d = <<d[1], d[2]>>
      BY OpenPlaces, PlacesArePairs
    <2>. QED  BY <1>6, <2>1, <2>2, <2>3
  <1> HIDE DEF e
  <1>9. /\ IsFiniteSet(Open(s)) /\ uses[s.config][s.place] \in Nat
        /\ Fits(req[r].read, s) /\ (s \notin raced => Exact(req[r].read, s))
    BY <1>1, <1>2, CurrentStage DEF IInv, StagesAccounted, ReadsAccounted
  <1>10. /\ IsFiniteSet(Open(s)')
         /\ \A v \in Wrap : w.before = v.before /\ w.after = v.after + 1 =>
               (Fits(v, s) => Fits(w, s)') /\ (Exact(v, s) => Exact(w, s)')
    BY <1>1, <1>3, <1>8, <1>9, RequestFields, FitsOneLess DEF IInv
  <1>11. \A v \in Wrap : Fits(v, s) => Fits(v, s)'
    <2> SUFFICES ASSUME NEW v \in Wrap, Fits(v, s)
                 PROVE  Fits(v, s)'
      OBVIOUS
    <2>1. PICK x \in Wrap : x.before = v.before /\ x.after = v.after + 1
      <3>1. [before |-> v.before, after |-> v.after + 1] \in Wrap
        BY DEF Wrap
      <3>. QED  BY <3>1
    <2>. QED  BY <1>1, <1>8, <1>9, <2>1, FitsOneLess
  <1>12. Fits(w, s)' /\ (s \notin raced => Exact(w, s)')
    BY <1>3, <1>9, <1>10, RequestFields DEF IInv
  <1>13. /\ q.at \in {"between", "commands"} /\ q.at # "between"
         /\ \A t \in Stage \ {s} : OpenIn(q, t) = OpenIn(req[r], t) /\ WaitingIn(q, t) = WaitingIn(req[r], t)
    BY <1>4, <1>6, <1>7
  <1>. QED  BY <1>1, <1>2, <1>3, <1>4, <1>5, <1>10, <1>11, <1>12, <1>13, AssignKeeps

LEMMA InitSatisfies ==
  ASSUME Init
  PROVE  IInv
  <1>1. TypeOK
    BY InjectionAssumption, IdleRequest DEF Init, TypeOK, Configurations, Places, Unwrapped, Wrap
  <1>2. \A r \in Requests : req[r] = Idle
    BY DEF Init
  <1>3. \A s \in Stage : Open(s) = {} /\ Waiting(s) = {}
    BY <1>2, IdleRequest DEF Open, Waiting
  <1>4. Ordered /\ ReadsAccounted
    BY <1>2, IdleRequest DEF Ordered, ReadsAccounted, AtStage, Idle
  <1>5. BotsUnwrapped
    BY DEF Init, BotsUnwrapped, Places
  <1>6. StagesAccounted
    <2> SUFFICES ASSUME NEW s \in Stage
                 PROVE  IsFiniteSet(Open(s)) /\ Fits(CommandsOf(s), s) /\ Exact(CommandsOf(s), s)
      BY DEF StagesAccounted
    <2>1. CommandsOf(s) = Unwrapped /\ uses[s.config][s.place] = 0
      BY DEF Init, CommandsOf, Stage
    <2>2. IsFiniteSet({}) /\ Cardinality({}) = 0
      BY FS_EmptySet
    <2>. QED  BY <1>3, <2>1, <2>2 DEF Fits, Exact, Unwrapped
  <1>7. RacesSeen
    BY <1>2, IdleRequest DEF RacesSeen, Lists
  <1>. QED  BY <1>1, <1>4, <1>5, <1>6, <1>7 DEF IInv

LEMMA InjectForPreserves ==
  ASSUME IInv, NEW r \in Requests, NEW place \in Places, InjectFor(r, place)
  PROVE  IInv'
  <1> DEFINE s == [config |-> config, place |-> place]
             q == [req[r] EXCEPT !.todo = Tail(@)]
  <1>1. CASE Inject(r, s)
    <2>1. s \in Stage
      BY DEF Stage, IInv, TypeOK
    <2> HIDE DEF s
    <2>. QED  BY <1>1, <2>1, InjectPreserves DEF InjectFor
  <1>2. CASE req' = [req EXCEPT ![r].todo = Tail(@)] /\ UNCHANGED <<uses, raced>>
    <2>1. req' = [req EXCEPT ![r] = q] /\ req[r].at = "stages" /\ req[r].todo # <<>>
      BY <1>2 DEF InjectFor
    <2>2. /\ q \in Request /\ q.at \in {"stages", "commands"} /\ q.listed = req[r].listed
          /\ q.next = req[r].next
      <3>1. req[r] \in Request /\ Tail(req[r].todo) \in Seq(Places)
        BY <2>1, RequestFields DEF IInv, Request
      <3>. QED  BY <2>1, <3>1 DEF Request
    <2>3. UNCHANGED <<config, commands, jobs, uses, raced>>
      BY <1>2 DEF InjectFor
    <2> HIDE DEF q
    <2>. QED  BY <2>1, <2>2, <2>3, SkipPreserves
  <1>. QED  BY <1>1, <1>2 DEF InjectFor

LEMMA StagesInjectedPreserves ==
  ASSUME IInv, NEW r \in Requests, StagesInjected(r)
  PROVE  IInv'
  <1> DEFINE q == [req[r] EXCEPT !.at = "commands"]
  <1>1. /\ req' = [req EXCEPT ![r] = q] /\ req[r].at = "stages"
        /\ UNCHANGED <<config, commands, jobs, uses, raced>>
    BY DEF StagesInjected
  <1>2. /\ q \in Request /\ q.at \in {"stages", "commands"} /\ q.listed = req[r].listed
        /\ q.next = req[r].next
    BY RequestFields DEF IInv, Request
  <1> HIDE DEF q
  <1>. QED  BY <1>1, <1>2, SkipPreserves

LEMMA NextPreserves ==
  ASSUME IInv, [Next]_vars
  PROVE  IInv'
  <1>1. CASE Reload
    BY <1>1, ReloadPreserves
  <1>2. CASE UNCHANGED vars
    <2>1. TypeOK'
      BY <1>2 DEF vars, IInv, TypeOK
    <2>. QED  BY <1>2, <2>1, NothingMoves DEF vars, IInv
  <1>3. ASSUME NEW r \in Requests,
               InjectBuildStages(r) \/ InjectReleaseStages(r) \/ InjectBotStages(r)
        PROVE  IInv'
    BY <1>3, InjectForPreserves DEF InjectBuildStages, InjectReleaseStages, InjectBotStages, Places
  <1>4. ASSUME NEW r \in Requests, ReadBefore(r) \/ ReadAfter(r)
        PROVE  IInv'
    <2>1. req[r].next \in 1 .. Len(req[r].listed) /\ HasCommands(Current(r))
      BY <1>4, RequestFields DEF ReadBefore, ReadAfter, IInv, Ordered, AtStage
    <2>2. CASE ReadBefore(r)
      BY <2>1, <2>2, ReadPreserves DEF ReadBefore
    <2>3. CASE ReadAfter(r)
      BY <2>1, <2>3, ReadPreserves DEF ReadAfter
    <2>. QED  BY <1>4, <2>2, <2>3
  <1>5. ASSUME NEW r \in Requests,
               \/ Begin(r) \/ StagesInjected(r) \/ Pass(r) \/ Prepend(r) \/ AppendAfter(r) \/ CreateJob(r)
        PROVE  IInv'
    BY <1>5, BeginPreserves, StagesInjectedPreserves, PassPreserves, PrependPreserves,
       AppendAfterPreserves, CreateJobPreserves
  <1>. QED  BY <1>1, <1>2, <1>3, <1>4, <1>5 DEF Next

(* The inductive invariant: at any time a stage has as many of the configured *)
(* commands before and after its own as jobs have listed it, less the jobs   *)
(* that have still to add theirs, or less than that once two have met there. *)
THEOREM InjectionSafety == Spec => []IInv
  <1>1. Init => IInv
    BY InitSatisfies
  <1>2. IInv /\ [Next]_vars => IInv'
    BY NextPreserves
  <1>. QED  BY <1>1, <1>2, PTL DEF Spec

(* However many jobs are created at once and whenever the configuration is   *)
(* read again: when a job is created its stages have the configured commands *)
(* once for every job that listed them, and never more (InjectCommands).     *)
THEOREM CommandsAreInjected == Spec => []CommandsInjected
  <1>1. IInv => CommandsInjected
    <2> SUFFICES ASSUME IInv, NEW r \in Requests, Injected(r), NEW i \in DOMAIN req[r].listed
                 PROVE  LET s    == req[r].listed[i]
                            n    == IF s.place = "bot" THEN 0 ELSE uses[s.config][s.place]
                            wrap == CommandsOf(s)
                        IN  /\ wrap.before <= n /\ wrap.after <= n
                            /\ s \notin raced => wrap = [before |-> n, after |-> n]
      BY DEF CommandsInjected
    <2>1. PICK s \in Stage : s = req[r].listed[i] /\ Lists(req[r], s)
      BY RequestFields DEF IInv, Lists
    <2>2. /\ CommandsOf(s) \in Wrap /\ uses[s.config][s.place] \in Nat
          /\ s.place = "bot" => CommandsOf(s) = Unwrapped
      BY DEF CommandsOf, Stage, IInv, TypeOK, BotsUnwrapped
    <2>3. CASE s.place = "bot"
      BY <2>1, <2>2, <2>3 DEF Unwrapped
    <2>4. CASE s.place # "bot"
      <3>1. /\ IsFiniteSet(Open(s)) /\ Fits(CommandsOf(s), s)
            /\ s \notin raced => Exact(CommandsOf(s), s)
        BY <2>4 DEF IInv, StagesAccounted, HasCommands
      <3>2. CommandsOf(s).before <= uses[s.config][s.place] /\ CommandsOf(s).after <= uses[s.config][s.place]
        BY <2>2, <3>1, OpenSizes DEF Fits, Wrap
      <3>3. ASSUME s \notin raced
            PROVE  CommandsOf(s) = [before |-> uses[s.config][s.place], after |-> uses[s.config][s.place]]
        <4>1. \A o \in Requests : Lists(req[o], s) => o = r
          BY <2>1, <3>3 DEF IInv, RacesSeen
        <4>2. \A o \in Requests : OpenIn(req[o], s) = {}
          BY <4>1, RequestFields DEF OpenIn, Lists, Injected, IInv
        <4>3. Open(s) = {} /\ Waiting(s) = {}
          BY <4>2 DEF Open, Waiting, WaitingIn
        <4>4. Cardinality({}) = 0
          BY FS_EmptySet
        <4>. QED  BY <2>2, <3>1, <3>3, <4>3, <4>4 DEF Exact, Wrap
      <3>. QED  BY <2>1, <2>4, <3>2, <3>3
    <2>. QED  BY <2>3, <2>4
  <1>. QED  BY <1>1, InjectionSafety, PTL

=============================================================================
