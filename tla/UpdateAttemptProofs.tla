-------------------------- MODULE UpdateAttemptProofs --------------------------
(***************************************************************************)
(* Theorems about install attempts: types, at most one attempt that may    *)
(* install, and no install without its back-off stamp.  UpdateInv says for  *)
(* each updater (Fits) what its place in the ladder promises: an install    *)
(* has begun only where no step leads back to the ladder; a task that may   *)
(* still install belongs to the current rung; the stamp was taken before    *)
(* either; and until excused the token of an attempt that may install is    *)
(* neither old nor orphaned, so that nobody reclaims it.                    *)
(***************************************************************************)
EXTENDS UpdateAttempt, FiniteSetTheorems, TLAPS

Excused == lost \/ held \/ overtaken

\* The places between the registration of a task and the end of its start.
Started == {"settle", "runlease", "run", "runsettle"}

\* The places no step leads back to the ladder from.
Past(u) ==
  \/ cli[u].pc \in {"watch", "report", "done"}
  \/ cli[u].pc \in Started /\ Route(u) \in Scheduled
  \/ cli[u].pc \in {"endtask", "release"} /\ cli[u].after = "report"

InstallFits(u) == \A r \in Rung : install[<<u, r>>] # "none" => Past(u)

TaskFits(u) ==
  \A r \in Scheduled : task[<<u, r>>].at \in {"waiting", "lead"} =>
    /\ Mine(u) = <<u, r>> /\ cli[u].pc \in Started \cup {"report", "done"}
    /\ task[<<u, r>>].at = "waiting" => install[<<u, r>>] = "none"

\* The places from the registration of a task on.
Begun == Started \cup {"install", "call", "watch", "endtask", "report", "done"}

\* A rung that was left, or not yet begun, has no script.
ScriptFits(u) ==
  \A r \in Rung : task[<<u, r>>].at # "none" =>
    Mine(u) = <<u, r>> /\ cli[u].pc \in Begun

RouteFits(u) ==
  /\ cli[u].pc \in {"install", "call", "watch", "endtask"} => Route(u) \in InProcess
  /\ cli[u].pc = "stamp" => Route(u) \in Scheduled

\* StoreAttempt: not started before the place where it is.
Unstamped(u) ==
  \/ cli[u].pc \in {"start", "acquire", "stamp", "install"}
  \/ Route(u) \in InProcess /\ cli[u].pc \in Started \cup {"lease", "create", "unlease"}

\* An install may begin, or has begun and may still land.
AtRisk(u) ==
  \/ Route(u) \in Scheduled /\ cli[u].pc \in Started \cup {"lease", "create"}
  \/ cli[u].pc \in {"call", "watch"}
Danger(u) ==
  \/ AtRisk(u)
  \/ \E r \in Scheduled : task[<<u, r>>].at = "waiting"
  \/ \E r \in Rung : install[<<u, r>>] \in {"live", "closing"}

StampFits(u) ==
  /\ Unstamped(u) => ~cli[u].stamped
  /\ u \in Unnamed /\ Danger(u) => cli[u].stamped /\ (stamp # NoStamp \/ crossed)

\* The token of an attempt between its lease and its task, beside a task that
\* waits for its updater, and beside a task that may install.
LeaseFits(u) ==
  cli[u].pc = "create" =>
    \E k \in token : k.owner = Mine(u) /\ k.pending /\ k.age = 0

GuardFits(u) ==
  u \notin Quiet /\ Route(u) \in InProcess
  /\ cli[u].pc \in Started \cup {"install", "call", "watch"} =>
    /\ \E k \in token : k.owner = Mine(u) /\ k.age = 0
    /\ task[Mine(u)].registered /\ task[Mine(u)].at \in {"waiting", "poll"}
    /\ task[Mine(u)].age = 0 /\ task[Mine(u)].polled = 0
    /\ product.version <= task[Mine(u)].base

LeadFits(u) ==
  \A r \in Scheduled : task[<<u, r>>].at \in {"waiting", "lead"} =>
    /\ task[<<u, r>>].registered /\ task[<<u, r>>].age <= task[<<u, r>>].ran
    /\ \E k \in token : k.owner = <<u, r>> /\ k.age <= task[<<u, r>>].ran

TokenFits(u) == ~Excused => LeaseFits(u) /\ GuardFits(u) /\ LeadFits(u)

Fits(u) ==
  /\ InstallFits(u) /\ TaskFits(u) /\ ScriptFits(u) /\ RouteFits(u)
  /\ StampFits(u) /\ TokenFits(u)

\* Only a task that installs has a lead command.
Leads == \A t \in Task : task[t].at = "lead" => t[2] \in Scheduled

Single == token = {} \/ \E k \in token : token = {k}

CliInv ==
  /\ cli \in [Updater -> CliType]
  /\ \A u \in Updater : cli[u].rung \in 1..Len(LadderOf[u])

StaticInv ==
  /\ token \in SUBSET TokenType /\ Single
  /\ task \in [Task -> TaskType] /\ Leads /\ CliInv
  /\ install \in [Task -> {"none", "live", "closing", "over"}]
  /\ stamp \in Updater \cup {NoStamp}
  /\ product \in [up : BOOLEAN, version : Nat]
  /\ lost \in BOOLEAN /\ held \in BOOLEAN /\ crossed \in BOOLEAN
  /\ overtaken \in BOOLEAN /\ faults \in 0..MaxFaults

\* Every version came of an attempt that is over.
Overs == {t \in Task : install[t] = "over"}
Landed == product.version <= Cardinality(Overs)

UpdateInv == StaticInv /\ Landed /\ \A u \in Updater : Fits(u)

-----------------------------------------------------------------------------
(* Sets and tokens.                                                         *)

LEMMA AtMostOne ==
  ASSUME NEW S, S = {} \/ \E x : S = {x} PROVE Cardinality(S) <= 1
<1>1. CASE S = {}
  <2>1. Cardinality(S) = 0
    BY <1>1, FS_EmptySet
  <2> QED
    BY <2>1
<1>2. CASE \E x : S = {x}
  <2>1. PICK x : S = {x}
    BY <1>2
  <2>2. Cardinality({x}) = 1
    BY FS_Singleton
  <2> QED
    BY <2>1, <2>2
<1> QED
  BY <1>1, <1>2

LEMMA RungFinite == IsFiniteSet(Rung)
<1>1. Rung = ((((({} \cup {"store"}) \cup {"appinstall"}) \cup {"winget"})
               \cup {"helper"}) \cup {"bundle"})
  BY DEF Rung, InProcess, Scheduled
<1> QED
  BY <1>1, FS_EmptySet, FS_AddElement

LEMMA TasksCounted ==
  /\ IsFiniteSet(Task) /\ Cardinality(Task) \in Nat
  /\ IsFiniteSet(Overs) /\ Cardinality(Overs) \in Nat
  /\ Cardinality(Overs) <= Cardinality(Task)
<1>1. IsFiniteSet(Task)
  BY RungFinite, AttemptAssumption, FS_Product DEF Task
<1>2. Overs \subseteq Task
  BY DEF Overs
<1> QED
  BY <1>1, <1>2, FS_Subset, FS_CardinalityType

\* What ends stays ended, and every landing ends one more.
LEMMA LandedKept ==
  ASSUME StaticInv, Landed, product'.version = product.version,
         \A t \in Task : install[t] = "over" => install'[t] = "over"
  PROVE  Landed'
<1>1. Overs \subseteq Overs' /\ Overs' \subseteq Task
  BY DEF Overs
<1>2. Cardinality(Overs) <= Cardinality(Overs') /\ Cardinality(Overs') \in Nat
  BY <1>1, TasksCounted, FS_Subset, FS_CardinalityType
<1>3. product.version \in Nat
  BY DEF StaticInv
<1> QED
  BY <1>2, <1>3, TasksCounted DEF Landed

LEMMA VersionBound ==
  ASSUME UpdateInv PROVE product.version \in 0..Cardinality(Task)
BY TasksCounted DEF UpdateInv, Landed, StaticInv

LEMMA MineType ==
  ASSUME CliInv, NEW u \in Updater
  PROVE  /\ Mine(u) \in Task /\ Mine(u)[1] = u /\ Mine(u)[2] = Route(u)
         /\ Route(u) \in Rung /\ Mine(u) = <<u, Route(u)>>
         /\ Route(u) \in InProcess <=> Route(u) \notin Scheduled
<1>1. cli[u].rung \in 1..Len(LadderOf[u])
  BY DEF CliInv
<1>2. LadderOf[u] \in Seq(Rung)
  BY AttemptAssumption
<1>3. LadderOf[u][cli[u].rung] \in Rung
  BY <1>1, <1>2
<1>4. \A r \in Rung : r \in InProcess <=> r \notin Scheduled
  BY DEF Rung, InProcess, Scheduled
<1> QED
  BY <1>3, <1>4 DEF Mine, Route, Task

LEMMA FaultType ==
  ASSUME StaticInv, Fault \/ NoFault PROVE faults' \in 0..MaxFaults
BY AttemptAssumption DEF StaticInv, Fault, NoFault

\* A token nobody reclaims.
Safe(k) == k.owner \in Task /\ k.age # Old /\ (k.pending \/ task[k.owner].registered)

LEMMA SafeIsNotReclaimable ==
  ASSUME NEW k, Safe(k) PROVE ~Reclaimable(k)
BY DEF Safe, Reclaimable, Orphaned

-----------------------------------------------------------------------------
(* What the moves of one updater leave alone.                               *)

CliMoves(u) ==
  /\ CliInv'
  /\ \A v \in Updater \ {u} : cli'[v] = cli[v]
TaskMoves(u) ==
  /\ task' \in [Task -> TaskType] /\ Leads'
  /\ \A t \in Task : t[1] # u => task'[t] = task[t]
InstallMoves(u) ==
  /\ install' \in [Task -> {"none", "live", "closing", "over"}]
  /\ \A t \in Task : (t[1] # u => install'[t] = install[t])
                     /\ (install[t] = "over" => install'[t] = "over")
TokenMoves(u) ==
  /\ token' \in SUBSET TokenType /\ Single'
  /\ \A k \in token : Safe(k) /\ k.owner[1] # u => k \in token' \/ Excused'
StampMoves(u) ==
  /\ stamp' \in Updater \cup {NoStamp} /\ crossed' \in BOOLEAN
  /\ \A v \in Updater \ {u} :
       cli[v].stamped /\ (stamp # NoStamp \/ crossed) => stamp' # NoStamp \/ crossed'
ObserversMove ==
  /\ lost' \in BOOLEAN /\ held' \in BOOLEAN /\ overtaken' \in BOOLEAN
  /\ faults' \in 0..MaxFaults
  /\ Excused => Excused'

LEMMA OtherFits ==
  ASSUME UpdateInv, NEW u \in Updater, NEW v \in Updater, v # u,
         CliMoves(u), TaskMoves(u), InstallMoves(u), TokenMoves(u), StampMoves(u),
         ObserversMove, product'.version = product.version
  PROVE  Fits(v)'
<1>1. /\ cli'[v] = cli[v]
      /\ \A r \in Rung : task'[<<v, r>>] = task[<<v, r>>]
      /\ \A r \in Rung : install'[<<v, r>>] = install[<<v, r>>]
  BY DEF CliMoves, TaskMoves, InstallMoves, Task
<1>2. Mine(v)' = Mine(v) /\ Route(v)' = Route(v)
  BY <1>1 DEF Mine, Route
<1>3. /\ Mine(v) \in Task /\ Mine(v) = <<v, Route(v)>> /\ Route(v) \in Rung
      /\ Scheduled \subseteq Rung
  BY MineType DEF UpdateInv, StaticInv, Rung
<1>4. Past(v)' <=> Past(v)
  BY <1>1, <1>2 DEF Past
<1>5. Fits(v)
  BY DEF UpdateInv
<1>6. InstallFits(v)'
  BY <1>1, <1>4, <1>5 DEF Fits, InstallFits
<1>7. TaskFits(v)'
  BY <1>1, <1>2, <1>3, <1>5 DEF Fits, TaskFits
<1>8. RouteFits(v)' /\ ScriptFits(v)'
  BY <1>1, <1>2, <1>5 DEF Fits, RouteFits, ScriptFits
<1>9. StampFits(v)'
  <2>1. Unstamped(v)' <=> Unstamped(v)
    BY <1>1, <1>2 DEF Unstamped
  <2>2. Danger(v)' <=> Danger(v)
    BY <1>1, <1>2, <1>3 DEF Danger, AtRisk
  <2> QED
    BY <1>1, <1>5, <2>1, <2>2 DEF Fits, StampFits, StampMoves
<1>10. TokenFits(v)'
  <2> SUFFICES ASSUME ~Excused'
               PROVE  LeaseFits(v)' /\ GuardFits(v)' /\ LeadFits(v)'
    BY DEF TokenFits
  <2>1. LeaseFits(v) /\ GuardFits(v) /\ LeadFits(v)
    BY <1>5 DEF Fits, TokenFits, ObserversMove
  <2>2. \A k \in token : Safe(k) /\ k.owner[1] = v => k \in token'
    BY DEF TokenMoves
  <2>3. LeaseFits(v)'
    <3> SUFFICES ASSUME cli[v].pc = "create"
                 PROVE  \E k \in token' : k.owner = Mine(v) /\ k.pending /\ k.age = 0
      BY <1>1, <1>2 DEF LeaseFits
    <3>1. PICK k \in token : k.owner = Mine(v) /\ k.pending /\ k.age = 0
      BY <2>1 DEF LeaseFits
    <3> QED
      BY <1>3, <2>2, <3>1 DEF Safe, Old
  <2>4. GuardFits(v)'
    <3> SUFFICES ASSUME v \notin Quiet, Route(v) \in InProcess,
                        cli[v].pc \in Started \cup {"install", "call", "watch"}
                 PROVE  \E k \in token' : k.owner = Mine(v) /\ k.age = 0
      BY <1>1, <1>2, <1>3, <2>1 DEF GuardFits
    <3>1. PICK k \in token : k.owner = Mine(v) /\ k.age = 0
      BY <2>1 DEF GuardFits
    <3>2. task[Mine(v)].registered
      BY <2>1 DEF GuardFits
    <3> QED
      BY <1>3, <2>2, <3>1, <3>2 DEF Safe, Old
  <2>5. LeadFits(v)'
    <3> SUFFICES ASSUME NEW r \in Scheduled, task[<<v, r>>].at \in {"waiting", "lead"}
                 PROVE  \E k \in token' : k.owner = <<v, r>> /\ k.age <= task[<<v, r>>].ran
      BY <1>1, <1>3, <2>1 DEF LeadFits
    <3>1. PICK k \in token : k.owner = <<v, r>> /\ k.age <= task[<<v, r>>].ran
      BY <2>1 DEF LeadFits
    <3>2. task[<<v, r>>].registered /\ <<v, r>> \in Task
      BY <1>3, <2>1 DEF LeadFits, Task
    <3>3. k.age # Old
      <4>1. task[<<v, r>>] \in TaskType /\ k \in TokenType
        BY <3>2 DEF UpdateInv, StaticInv
      <4>2. task[<<v, r>>].ran \in 0..Limit /\ k.age \in 0..Old
        BY <4>1 DEF TaskType, TokenType
      <4> QED
        BY <3>1, <4>2 DEF Limit, Old
    <3> QED
      BY <2>2, <3>1, <3>2, <3>3 DEF Safe
  <2> QED
    BY <2>3, <2>4, <2>5
<1> QED
  BY <1>6, <1>7, <1>8, <1>9, <1>10 DEF Fits

\* A step of one updater, or of one of its tasks.
LEMMA UpdaterStep ==
  ASSUME UpdateInv, NEW u \in Updater, Fits(u)',
         CliMoves(u), TaskMoves(u), InstallMoves(u), TokenMoves(u), StampMoves(u),
         ObserversMove, product' \in [up : BOOLEAN, version : Nat],
         product'.version = product.version
  PROVE  UpdateInv'
<1>1. \A v \in Updater : Fits(v)'
  BY OtherFits
<1>2. Landed'
  BY LandedKept DEF UpdateInv, InstallMoves
<1>3. StaticInv'
  BY DEF StaticInv, CliMoves, TaskMoves, InstallMoves, TokenMoves, StampMoves, ObserversMove
<1> QED
  BY <1>1, <1>2, <1>3 DEF UpdateInv

LEMMA Unmoved ==
  ASSUME StaticInv, NEW u \in Updater
  PROVE  /\ UNCHANGED task => TaskMoves(u)
         /\ UNCHANGED install => InstallMoves(u)
         /\ UNCHANGED token => TokenMoves(u)
         /\ UNCHANGED <<stamp, crossed>> => StampMoves(u)
         /\ UNCHANGED <<lost, held, overtaken>> /\ (Fault \/ NoFault) => ObserversMove
         /\ UNCHANGED product => product' \in [up : BOOLEAN, version : Nat]
<1>1. UNCHANGED token => Single'
  BY DEF StaticInv, Single
<1>2. UNCHANGED <<lost, held, overtaken>> => (Excused => Excused')
  BY DEF Excused
<1>3. UNCHANGED task => Leads'
  BY DEF StaticInv, Leads
<1> QED
  BY <1>1, <1>2, <1>3, FaultType
  DEF StaticInv, TaskMoves, InstallMoves, TokenMoves, StampMoves, ObserversMove

LEMMA CliPut ==
  ASSUME CliInv, NEW u \in Updater, NEW c \in CliType, c.rung \in 1..Len(LadderOf[u]),
         cli' = [cli EXCEPT ![u] = c]
  PROVE  CliMoves(u) /\ cli'[u] = c
BY DEF CliInv, CliMoves

\* Only its place changes.
Steps(u, pc) ==
  /\ CliMoves(u)
  /\ cli'[u].pc = pc /\ cli'[u].rung = cli[u].rung /\ cli'[u].stamped = cli[u].stamped
  /\ Mine(u)' = Mine(u) /\ Route(u)' = Route(u)

LEMMA GoesFacts ==
  ASSUME CliInv, NEW u \in Updater, NEW pc \in PC, Goes(u, pc)
  PROVE  Steps(u, pc) /\ cli'[u].after = cli[u].after
<1> DEFINE c == [cli[u] EXCEPT !.pc = pc]
<1>1. /\ c \in CliType /\ c.rung = cli[u].rung /\ c.pc = pc
      /\ c.stamped = cli[u].stamped /\ c.after = cli[u].after
  BY DEF CliInv, CliType
<1>2. cli' = [cli EXCEPT ![u] = c]
  BY DEF Goes, CliInv
<1> HIDE DEF c
<1>3. CliMoves(u) /\ cli'[u] = c
  BY <1>1, <1>2, CliPut DEF CliInv
<1> QED
  BY <1>1, <1>3 DEF Steps, Mine, Route

LEMMA ReportsFacts ==
  ASSUME CliInv, NEW u \in Updater, NEW code \in {"ok", "queued", "other"}, Reports(u, code)
  PROVE  Steps(u, "report")
<1> DEFINE c == [cli[u] EXCEPT !.pc = "report", !.code = code]
<1>1. /\ c \in CliType /\ c.rung = cli[u].rung /\ c.pc = "report"
      /\ c.stamped = cli[u].stamped
  BY ZenonT(30) DEF CliInv, CliType, PC
<1>2. cli' = [cli EXCEPT ![u] = c]
  BY DEF Reports, CliInv
<1> HIDE DEF c
<1>3. CliMoves(u) /\ cli'[u] = c
  BY <1>1, <1>2, CliPut DEF CliInv
<1> QED
  BY <1>1, <1>3 DEF Steps, Mine, Route

LEMMA BacksFacts ==
  ASSUME CliInv, NEW u \in Updater, NEW pc \in PC, NEW after \in {"unstamp", "report"},
         Backs(u, pc, after)
  PROVE  Steps(u, pc) /\ cli'[u].after = after
<1> DEFINE c == [cli[u] EXCEPT !.pc = pc, !.after = after]
<1>1. /\ c \in CliType /\ c.rung = cli[u].rung /\ c.pc = pc
      /\ c.stamped = cli[u].stamped /\ c.after = after
  BY DEF CliInv, CliType
<1>2. cli' = [cli EXCEPT ![u] = c]
  BY DEF Backs, CliInv
<1> HIDE DEF c
<1>3. CliMoves(u) /\ cli'[u] = c
  BY <1>1, <1>2, CliPut DEF CliInv
<1> QED
  BY <1>1, <1>3 DEF Steps, Mine, Route

\* Entering a rung, or the end of the ladder.
LEMMA EntersFacts ==
  ASSUME CliInv, NEW u \in Updater, NEW i \in Nat, i >= 1, NEW c \in CliType,
         c.rung \in 1..Len(LadderOf[u]),
         cli' = [cli EXCEPT ![u] = Enters(u, i, c)]
  PROVE  /\ CliMoves(u) /\ cli'[u].stamped = c.stamped
         /\ cli'[u].pc \in {"acquire", "install", "report"}
         /\ cli'[u].pc = "install" => u \in Quiet /\ Route(u)' \in InProcess
<1>1. Len(LadderOf[u]) \in Nat /\ LadderOf[u] \in Seq(Rung)
  BY AttemptAssumption
<1>2. CASE i <= Len(LadderOf[u])
  <2> DEFINE d == [c EXCEPT !.rung = i, !.pc = Entry(u, i)]
  <2>1. /\ Entry(u, i) \in {"acquire", "install"}
        /\ Entry(u, i) = "install" => u \in Quiet /\ LadderOf[u][i] \in InProcess
    BY DEF Entry
  <2>2. /\ d \in CliType /\ d.rung = i /\ d.pc = Entry(u, i) /\ d.stamped = c.stamped
    BY <2>1 DEF CliType, PC
  <2>3. cli' = [cli EXCEPT ![u] = d]
    BY <1>2 DEF Enters
  <2> HIDE DEF d
  <2>4. i \in 1..Len(LadderOf[u])
    BY <1>1, <1>2
  <2>5. CliMoves(u) /\ cli'[u] = d
    BY <2>2, <2>3, <2>4, CliPut
  <2>6. Route(u)' = LadderOf[u][i]
    BY <2>2, <2>5 DEF Route, Mine
  <2> QED
    BY <2>1, <2>2, <2>5, <2>6
<1>3. CASE ~(i <= Len(LadderOf[u]))
  <2> DEFINE d == [c EXCEPT !.pc = "report"]
  <2>1. d \in CliType /\ d.rung = c.rung /\ d.pc = "report" /\ d.stamped = c.stamped
    BY DEF CliType, PC
  <2>2. cli' = [cli EXCEPT ![u] = d]
    BY <1>3 DEF Enters
  <2> HIDE DEF d
  <2>3. CliMoves(u) /\ cli'[u] = d
    BY <2>1, <2>2, CliPut
  <2> QED
    BY <2>1, <2>3
<1> QED
  BY <1>2, <1>3

-----------------------------------------------------------------------------
(* Steps of an updater that touch neither tasks nor installs.               *)

LEMMA SetPendingFacts ==
  ASSUME UpdateInv, NEW u \in Updater, NEW p \in BOOLEAN, SetPending(u, p)
  PROVE  /\ TokenMoves(u) /\ NoFault
         /\ \E k \in token' : k.owner = Mine(u) /\ k.pending = p /\ k.age = 0
<1> DEFINE tk == [owner |-> Mine(u), pending |-> p, age |-> 0]
<1>1. token' = {tk} /\ Owns(Mine(u)) /\ NoFault
  BY DEF SetPending, Token
<1>2. Mine(u) \in Task /\ Mine(u)[1] = u
  BY MineType DEF UpdateInv, StaticInv
<1>3. tk \in TokenType
  BY <1>2 DEF TokenType, Old
<1>4. \A k \in token : k.owner = Mine(u)
  BY <1>1 DEF Owns, UpdateInv, StaticInv, Single
<1>5. tk.owner = Mine(u) /\ tk.pending = p /\ tk.age = 0
  OBVIOUS
<1> HIDE DEF tk
<1> QED
  BY <1>1, <1>2, <1>3, <1>4, <1>5 DEF TokenMoves, Single

\* Its own token stays, or grows younger.
OwnKept(u) ==
  \A k \in token : k.owner = Mine(u) => \E j \in token' : j.owner = Mine(u) /\ j.age <= k.age

LEMMA OwnKeptBy ==
  ASSUME UpdateInv, NEW u \in Updater
  PROVE  /\ UNCHANGED token => OwnKept(u)
         /\ (\E k \in token' : k.owner = Mine(u) /\ k.age = 0) => OwnKept(u)
<1>1. \A k \in token : k.age \in Nat
  BY DEF UpdateInv, StaticInv, TokenType, Old
<1> QED
  BY <1>1 DEF OwnKept

LEMMA PlainFits ==
  ASSUME UpdateInv, NEW u \in Updater, NEW pc \in PC, Steps(u, pc),
         UNCHANGED <<task, install>>, TokenMoves(u), Excused => Excused',
         cli[u].stamped /\ (stamp # NoStamp \/ crossed) => stamp' # NoStamp \/ crossed',
         OwnKept(u) \/ cli[u].pc \notin Started \cup {"report", "done"},
         Past(u) => Past(u)', cli[u].pc \in Begun => pc \in Begun,
         cli[u].pc \in Started \cup {"report", "done"}
           => pc \in Started \cup {"report", "done"} \/ Route(u) \in InProcess,
         RouteFits(u)',
         Unstamped(u)' => ~cli[u].stamped,
         AtRisk(u)' /\ u \in Unnamed => cli[u].stamped /\ (stamp' # NoStamp \/ crossed'),
         ~Excused' => LeaseFits(u)' /\ GuardFits(u)'
  PROVE  Fits(u)'
<1>1. Fits(u)
  BY DEF UpdateInv
<1>2. /\ Mine(u)' = Mine(u) /\ Route(u)' = Route(u) /\ cli'[u].pc = pc
      /\ cli'[u].stamped = cli[u].stamped
  BY DEF Steps
<1>3. InstallFits(u)'
  BY <1>1 DEF Fits, InstallFits
<1>4. TaskFits(u)'
  <2>1. \A r \in Scheduled : Mine(u) = <<u, r>> => Route(u) \notin InProcess
    BY MineType DEF UpdateInv, StaticInv
  <2> QED
    BY <1>1, <1>2, <2>1 DEF Fits, TaskFits
<1>5. StampFits(u)' /\ ScriptFits(u)'
  BY <1>1, <1>2 DEF Fits, StampFits, ScriptFits, Danger
<1>6. TokenFits(u)'
  <2> SUFFICES ASSUME ~Excused' PROVE LeadFits(u)'
    BY DEF TokenFits
  <2> SUFFICES ASSUME NEW r \in Scheduled, task[<<u, r>>].at \in {"waiting", "lead"}
               PROVE  /\ task[<<u, r>>].registered
                      /\ task[<<u, r>>].age <= task[<<u, r>>].ran
                      /\ \E k \in token' : k.owner = <<u, r>> /\ k.age <= task[<<u, r>>].ran
    BY DEF LeadFits
  <2>1. LeadFits(u)
    BY <1>1 DEF Fits, TokenFits
  <2>2. Mine(u) = <<u, r>> /\ cli[u].pc \in Started \cup {"report", "done"}
    BY <1>1 DEF Fits, TaskFits
  <2>3. PICK k \in token : k.owner = <<u, r>> /\ k.age <= task[<<u, r>>].ran
    BY <2>1 DEF LeadFits
  <2>4. PICK j \in token' : j.owner = <<u, r>> /\ j.age <= k.age
    BY <2>2, <2>3 DEF OwnKept
  <2>5. j.age <= task[<<u, r>>].ran
    <3>1. j.age \in Nat /\ k.age \in Nat
      BY DEF TokenMoves, UpdateInv, StaticInv, TokenType, Old
    <3>2. <<u, r>> \in Task
      BY DEF Task, Rung
    <3>3. task[<<u, r>>].ran \in Nat
      BY <3>2 DEF UpdateInv, StaticInv, TaskType, Limit
    <3> QED
      BY <2>3, <2>4, <3>1, <3>3
  <2> QED
    BY <2>1, <2>4, <2>5 DEF LeadFits
<1> QED
  BY <1>3, <1>4, <1>5, <1>6 DEF Fits

\* The part of a plain step every such action shares.
LEMMA PlainStep ==
  ASSUME UpdateInv, NEW u \in Updater, Fits(u)', CliMoves(u), TokenMoves(u),
         StampMoves(u), UNCHANGED <<task, install, product, lost, held, overtaken>>,
         Fault \/ NoFault
  PROVE  UpdateInv'
BY Unmoved, UpdaterStep DEF UpdateInv

LEMMA SameExcuses ==
  UNCHANGED <<lost, held, overtaken>> => (Excused => Excused')
BY DEF Excused

LEMMA AcquireInv ==
  ASSUME UpdateInv, NEW u \in Updater, Acquire(u)
  PROVE  UpdateInv'
<1> USE DEF PC
<1>1. /\ UNCHANGED <<task, install, stamp, product, lost, held, crossed, overtaken>>
      /\ cli[u].pc = "acquire" /\ StaticInv /\ CliInv /\ Fits(u)
  BY DEF Acquire, UpdateInv, StaticInv
<1>2. Mine(u) \in Task /\ Mine(u)[1] = u /\ (Route(u) \in InProcess <=> Route(u) \notin Scheduled)
  BY <1>1, MineType
<1>3. TokenMoves(u) /\ (Fault \/ NoFault)
  <2>1. CASE token' = Token(Mine(u), FALSE) /\ NoFault /\ \A k \in token : Reclaimable(k)
    <3> DEFINE tk == [owner |-> Mine(u), pending |-> FALSE, age |-> 0]
    <3>1. tk \in TokenType
      BY <1>2 DEF TokenType, Old
    <3>2. token' = {tk}
      BY <2>1 DEF Token
    <3> HIDE DEF tk
    <3> QED
      BY <2>1, <3>1, <3>2, SafeIsNotReclaimable DEF TokenMoves, Single
  <2>2. CASE UNCHANGED token /\ (Fault \/ NoFault)
    BY <1>1, <2>2, Unmoved
  <2> QED
    BY <2>1, <2>2 DEF Acquire
<1>4. PICK pc \in {"lease", "stamp", "report", "unstamp"} :
        /\ Steps(u, pc)
        /\ pc \in {"lease", "report"} => Route(u) \in InProcess
        /\ pc \in {"stamp", "unstamp"} => Route(u) \in Scheduled
  BY <1>1, <1>2, GoesFacts, ReportsFacts DEF Acquire
<1>5. /\ Mine(u)' = Mine(u) /\ Route(u)' = Route(u) /\ cli'[u].pc = pc
      /\ cli'[u].stamped = cli[u].stamped /\ CliMoves(u)
  BY <1>4 DEF Steps
<1>6. ~Past(u) /\ ~cli[u].stamped
  BY <1>1 DEF Past, Started, Fits, StampFits, Unstamped
<1>7. RouteFits(u)' /\ LeaseFits(u)' /\ GuardFits(u)' /\ ~AtRisk(u)'
  BY <1>2, <1>4, <1>5 DEF RouteFits, LeaseFits, GuardFits, AtRisk, Started
<1>8. Fits(u)'
  BY <1>1, <1>3, <1>4, <1>6, <1>7, PlainFits, SameExcuses DEF Begun, Started
<1> QED
  BY <1>1, <1>3, <1>5, <1>8, PlainStep, Unmoved

\* set_pending, whether it succeeds or not, leaves the token its owner has.
LEMMA PendingFacts ==
  ASSUME UpdateInv, NEW u \in Updater, NEW p \in BOOLEAN,
         SetPending(u, p) \/ SetPendingFails(u)
  PROVE  /\ TokenMoves(u) /\ OwnKept(u) /\ (Fault \/ NoFault)
         /\ (\E k \in token : k.owner = Mine(u) /\ k.age = 0)
              => \E k \in token' : k.owner = Mine(u) /\ k.age = 0
<1>1. CASE SetPending(u, p)
  BY <1>1, SetPendingFacts, OwnKeptBy
<1>2. CASE SetPendingFails(u)
  BY <1>2, Unmoved, OwnKeptBy DEF SetPendingFails, UpdateInv
<1> QED
  BY <1>1, <1>2

LEMMA GuardStays ==
  ASSUME UpdateInv, NEW u \in Updater, NEW pc \in PC, Steps(u, pc),
         cli[u].pc \in Started \cup {"install", "call", "watch"},
         UNCHANGED <<task, product>>, Excused => Excused',
         (\E k \in token : k.owner = Mine(u) /\ k.age = 0)
           => \E k \in token' : k.owner = Mine(u) /\ k.age = 0
  PROVE  ~Excused' => GuardFits(u)'
<1> SUFFICES ASSUME ~Excused' PROVE GuardFits(u)'
  OBVIOUS
<1>1. GuardFits(u)
  BY DEF UpdateInv, Fits, TokenFits
<1>2. Mine(u)' = Mine(u) /\ Route(u)' = Route(u)
  BY DEF Steps
<1> QED
  BY <1>1, <1>2 DEF GuardFits

LEMMA UpdaterFacts ==
  ASSUME UpdateInv, NEW u \in Updater
  PROVE  /\ StaticInv /\ CliInv /\ Fits(u) /\ cli[u] \in CliType
         /\ Mine(u) \in Task /\ Mine(u)[1] = u /\ Mine(u) = <<u, Route(u)>>
         /\ Route(u) \in Rung
         /\ Route(u) \in InProcess <=> Route(u) \notin Scheduled
BY MineType DEF UpdateInv, StaticInv, CliInv

LEMMA ReleaseInv ==
  ASSUME UpdateInv, NEW u \in Updater, Release(u)
  PROVE  UpdateInv'
<1>1. /\ UNCHANGED <<task, install, stamp, product, lost, held, crossed, overtaken>>
      /\ cli[u].pc = "release" /\ StaticInv /\ CliInv /\ Fits(u) /\ cli[u] \in CliType
  BY UpdaterFacts DEF Release
<1>2. TokenMoves(u) /\ (Fault \/ NoFault)
  <2>1. CASE token' = {k \in token : k.owner # Mine(u)} /\ NoFault
    <3>1. Mine(u)[1] = u
      BY UpdaterFacts
    <3> QED
      BY <1>1, <2>1, <3>1 DEF TokenMoves, StaticInv, Single
  <2>2. CASE UNCHANGED token /\ Fault
    BY <1>1, <2>2, Unmoved
  <2> QED
    BY <2>1, <2>2 DEF Release
<1> DEFINE pc == cli[u].after
<1>3. pc \in {"unstamp", "report"} /\ pc \in PC
  BY <1>1 DEF CliType, PC
<1>4. Steps(u, pc)
  BY <1>1, <1>3, GoesFacts DEF Release
<1>5. /\ Mine(u)' = Mine(u) /\ Route(u)' = Route(u) /\ cli'[u].pc = pc /\ CliMoves(u)
  BY <1>4 DEF Steps
<1>6. Past(u) => Past(u)'
  BY <1>1, <1>5 DEF Past, Started
<1>7. RouteFits(u)' /\ LeaseFits(u)' /\ GuardFits(u)' /\ ~AtRisk(u)' /\ ~Unstamped(u)'
  BY <1>3, <1>5 DEF RouteFits, LeaseFits, GuardFits, AtRisk, Unstamped, Started
<1> HIDE DEF pc
<1>8. Fits(u)'
  BY <1>1, <1>2, <1>3, <1>4, <1>6, <1>7, PlainFits, SameExcuses DEF Begun, Started
<1> QED
  BY <1>1, <1>2, <1>5, <1>8, PlainStep, Unmoved

\* An updater that gives its lease back.
LEMMA NotStartedInv ==
  ASSUME UpdateInv, NEW u \in Updater, cli[u].pc \in {"lease", "unlease"}, NotStarted(u),
         TokenMoves(u), Fault \/ NoFault,
         UNCHANGED <<task, install, stamp, product, lost, held, crossed, overtaken>>
  PROVE  UpdateInv'
<1>1. StaticInv /\ CliInv /\ Fits(u)
  BY UpdaterFacts
<1>2. "release" \in PC
  BY DEF PC
<1>3. Steps(u, "release")
  BY <1>1, <1>2, BacksFacts DEF NotStarted
<1>4. /\ Mine(u)' = Mine(u) /\ Route(u)' = Route(u) /\ cli'[u].pc = "release" /\ CliMoves(u)
  BY <1>3 DEF Steps
<1>5. ~Past(u)
  BY DEF Past, Started
<1>6. RouteFits(u)' /\ LeaseFits(u)' /\ GuardFits(u)' /\ ~AtRisk(u)' /\ ~Unstamped(u)'
  BY <1>4 DEF RouteFits, LeaseFits, GuardFits, AtRisk, Unstamped, Started
<1>7. Fits(u)'
  BY <1>1, <1>2, <1>3, <1>5, <1>6, PlainFits, SameExcuses DEF Begun, Started
<1> QED
  BY <1>1, <1>4, <1>7, PlainStep, Unmoved

LEMMA LeaseInv ==
  ASSUME UpdateInv, NEW u \in Updater, Lease(u)
  PROVE  UpdateInv'
<1>1. /\ UNCHANGED <<task, install, stamp, product, lost, held, crossed, overtaken>>
      /\ cli[u].pc = "lease" /\ StaticInv /\ CliInv /\ Fits(u)
  BY UpdaterFacts DEF Lease
<1>2. CASE SetPending(u, TRUE) /\ Goes(u, "create")
  <2>1. "create" \in PC /\ (TRUE) \in BOOLEAN
    BY DEF PC
  <2>2. Steps(u, "create")
    BY <1>1, <1>2, <2>1, GoesFacts
  <2>3. /\ Mine(u)' = Mine(u) /\ Route(u)' = Route(u) /\ cli'[u].pc = "create" /\ CliMoves(u)
    BY <2>2 DEF Steps
  <2>4. /\ TokenMoves(u) /\ NoFault
        /\ \E k \in token' : k.owner = Mine(u) /\ k.pending = TRUE /\ k.age = 0
    BY <1>2, <2>1, SetPendingFacts
  <2>5. LeaseFits(u)' /\ GuardFits(u)' /\ RouteFits(u)'
    BY <2>3, <2>4 DEF LeaseFits, GuardFits, RouteFits, Started
  <2>6. ~Past(u) /\ (Unstamped(u)' => Unstamped(u)) /\ (AtRisk(u)' => AtRisk(u))
    BY <1>1, <2>3 DEF Past, Unstamped, AtRisk, Started
  <2>7. /\ Unstamped(u)' => ~cli[u].stamped
        /\ AtRisk(u)' /\ u \in Unnamed => cli[u].stamped /\ (stamp' # NoStamp \/ crossed')
    BY <1>1, <2>6 DEF Fits, StampFits, Danger
  <2>8. Fits(u)'
    BY <1>1, <2>1, <2>2, <2>4, <2>5, <2>6, <2>7, PlainFits, SameExcuses DEF Begun, Started
  <2> QED
    BY <1>1, <2>3, <2>4, <2>8, PlainStep, Unmoved
<1>3. CASE SetPendingFails(u) /\ NotStarted(u)
  <2>1. TokenMoves(u) /\ (Fault \/ NoFault)
    BY <1>3, PendingFacts
  <2> QED
    BY <1>1, <1>3, <2>1, NotStartedInv
<1> QED
  BY <1>2, <1>3 DEF Lease

LEMMA UnleaseInv ==
  ASSUME UpdateInv, NEW u \in Updater, Unlease(u)
  PROVE  UpdateInv'
<1>1. TokenMoves(u) /\ (Fault \/ NoFault)
  BY PendingFacts DEF Unlease
<1> QED
  BY <1>1, NotStartedInv DEF Unlease

\* The way from the registered task to its start, to the install or out.
LEMMA StartedInv ==
  ASSUME UpdateInv, NEW u \in Updater, cli[u].pc \in {"settle", "runlease", "runsettle"},
         NEW pc \in {"runlease", "run", "install", "report"}, Steps(u, pc),
         pc = "install" => Route(u) \in InProcess,
         TokenMoves(u), OwnKept(u), Fault \/ NoFault,
         (\E k \in token : k.owner = Mine(u) /\ k.age = 0)
           => \E k \in token' : k.owner = Mine(u) /\ k.age = 0,
         UNCHANGED <<task, install, stamp, product, lost, held, crossed, overtaken>>
  PROVE  UpdateInv'
<1>1. /\ StaticInv /\ CliInv /\ Fits(u) /\ pc \in PC
      /\ Route(u) \in InProcess <=> Route(u) \notin Scheduled
  BY UpdaterFacts DEF PC
<1>2. /\ Mine(u)' = Mine(u) /\ Route(u)' = Route(u) /\ cli'[u].pc = pc /\ CliMoves(u)
  BY DEF Steps
<1>3. Past(u) => Past(u)'
  BY <1>1, <1>2 DEF Past, Started
<1>4. RouteFits(u)' /\ LeaseFits(u)'
  BY <1>2 DEF RouteFits, LeaseFits, Started
<1>5. ~Excused' => GuardFits(u)'
  BY <1>1, GuardStays, SameExcuses DEF Started
<1>6. (Unstamped(u)' => Unstamped(u)) /\ (AtRisk(u)' => AtRisk(u))
  BY <1>1, <1>2 DEF Unstamped, AtRisk, Started
<1>7. /\ Unstamped(u)' => ~cli[u].stamped
      /\ AtRisk(u)' /\ u \in Unnamed => cli[u].stamped /\ (stamp' # NoStamp \/ crossed')
  BY <1>1, <1>6 DEF Fits, StampFits, Danger
<1>8. cli[u].pc \in Started \cup {"report", "done"}
        => pc \in Started \cup {"report", "done"} \/ Route(u) \in InProcess
  BY DEF Started
<1>9. Fits(u)'
  BY <1>1, <1>3, <1>4, <1>5, <1>7, <1>8, PlainFits, SameExcuses DEF Begun, Started
<1> QED
  BY <1>1, <1>2, <1>9, PlainStep, Unmoved

LEMMA SettleInv ==
  ASSUME UpdateInv, NEW u \in Updater, Settle(u)
  PROVE  UpdateInv'
<1>1. (FALSE) \in BOOLEAN /\ CliInv /\ "appinstall" \in InProcess
  BY UpdaterFacts DEF InProcess
<1>2. /\ TokenMoves(u) /\ OwnKept(u) /\ (Fault \/ NoFault)
      /\ (\E k \in token : k.owner = Mine(u) /\ k.age = 0)
           => \E k \in token' : k.owner = Mine(u) /\ k.age = 0
  BY <1>1, PendingFacts DEF Settle
<1> DEFINE pc == IF Route(u) = "appinstall" THEN "install" ELSE "runlease"
<1>3. pc \in {"runlease", "run", "install", "report"} /\ pc \in PC
      /\ (pc = "install" => Route(u) \in InProcess)
  BY <1>1 DEF PC
<1>4. Steps(u, pc)
  BY <1>1, <1>3, GoesFacts DEF Settle
<1> HIDE DEF pc
<1> QED
  BY <1>2, <1>3, <1>4, StartedInv DEF Settle

\* Out, with the token left to the task.
LEMMA InDoubtFacts ==
  ASSUME UpdateInv, NEW u \in Updater, InDoubt(u)
  PROVE  Steps(u, "report")
BY UpdaterFacts, ReportsFacts DEF InDoubt

LEMMA RunLeaseInv ==
  ASSUME UpdateInv, NEW u \in Updater, RunLease(u)
  PROVE  UpdateInv'
<1>1. (TRUE) \in BOOLEAN /\ CliInv /\ {"run", "report"} \subseteq PC
  BY UpdaterFacts DEF PC
<1>2. /\ TokenMoves(u) /\ OwnKept(u) /\ (Fault \/ NoFault)
      /\ (\E k \in token : k.owner = Mine(u) /\ k.age = 0)
           => \E k \in token' : k.owner = Mine(u) /\ k.age = 0
  BY <1>1, PendingFacts DEF RunLease
<1>3. Steps(u, "run") \/ Steps(u, "report")
  BY <1>1, GoesFacts, InDoubtFacts DEF RunLease
<1> QED
  BY <1>2, <1>3, StartedInv DEF RunLease

LEMMA RunSettleInv ==
  ASSUME UpdateInv, NEW u \in Updater, RunSettle(u)
  PROVE  UpdateInv'
<1>1. (FALSE) \in BOOLEAN /\ CliInv /\ "install" \in PC
  BY UpdaterFacts DEF PC
<1>2. /\ TokenMoves(u) /\ OwnKept(u) /\ (Fault \/ NoFault)
      /\ (\E k \in token : k.owner = Mine(u) /\ k.age = 0)
           => \E k \in token' : k.owner = Mine(u) /\ k.age = 0
  BY <1>1, PendingFacts DEF RunSettle
<1>3. (Steps(u, "install") /\ Route(u) \in InProcess) \/ Steps(u, "report")
  BY <1>1, GoesFacts, ReportsFacts DEF RunSettle
<1> QED
  BY <1>2, <1>3, StartedInv DEF RunSettle

LEMMA ReportInv ==
  ASSUME UpdateInv, NEW u \in Updater, Report(u)
  PROVE  UpdateInv'
<1>1. /\ UNCHANGED <<token, task, install, stamp, lost, held, crossed, overtaken, faults>>
      /\ cli[u].pc = "report" /\ StaticInv /\ CliInv /\ Fits(u) /\ "done" \in PC
  BY UpdaterFacts DEF Report, observers, PC
<1>2. product' \in [up : BOOLEAN, version : Nat] /\ product'.version = product.version
  <2>1. product \in [up : BOOLEAN, version : Nat] /\ cli[u].resident \in BOOLEAN
    BY <1>1, UpdaterFacts DEF StaticInv, CliType
  <2> QED
    BY <2>1 DEF Report
<1>3. Steps(u, "done")
  BY <1>1, GoesFacts DEF Report
<1>4. /\ Mine(u)' = Mine(u) /\ Route(u)' = Route(u) /\ cli'[u].pc = "done" /\ CliMoves(u)
  BY <1>3 DEF Steps
<1>5. /\ RouteFits(u)' /\ LeaseFits(u)' /\ GuardFits(u)' /\ ~AtRisk(u)' /\ ~Unstamped(u)'
      /\ Past(u)'
  BY <1>4 DEF RouteFits, LeaseFits, GuardFits, AtRisk, Unstamped, Started, Past
<1>6. TokenMoves(u) /\ OwnKept(u) /\ NoFault /\ TaskMoves(u) /\ InstallMoves(u)
      /\ StampMoves(u) /\ ObserversMove
  BY <1>1, Unmoved, OwnKeptBy DEF NoFault
<1>7. Fits(u)'
  BY <1>1, <1>3, <1>5, <1>6, PlainFits, SameExcuses DEF Begun, Started
<1> QED
  BY <1>2, <1>4, <1>6, <1>7, UpdaterStep

-----------------------------------------------------------------------------
(* Steps that register or start a task.                                     *)

LEMMA NoTaskType ==
  /\ NoTask \in TaskType /\ ~NoTask.registered /\ NoTask.at = "none"
  /\ NoTask.age = 0 /\ NoTask.ran = 0 /\ NoTask.polled = 0
<1>1. 0 \in 0..Old /\ 0 \in 0..Limit /\ 0 \in 0..Poll /\ 0 \in 0..Cardinality(Task)
  BY TasksCounted DEF Old, Limit, Poll
<1> QED
  BY <1>1 DEF NoTask, TaskType

LEMMA RegisteredFacts ==
  ASSUME UpdateInv, NEW u \in Updater, Registered(Mine(u))
  PROVE  /\ TaskMoves(u)
         /\ \A t \in Task : t # Mine(u) => task'[t] = task[t]
         /\ task'[Mine(u)].registered /\ task'[Mine(u)].at = "waiting"
         /\ task'[Mine(u)].base = product.version /\ task'[Mine(u)].age = 0
         /\ task'[Mine(u)].ran = 0 /\ task'[Mine(u)].polled = 0
<1> DEFINE r == [NoTask EXCEPT !.registered = TRUE, !.at = "waiting",
                               !.base = product.version]
<1>1. product.version \in 0..Cardinality(Task)
  BY VersionBound
<1>2. /\ r \in TaskType /\ r.registered /\ r.at = "waiting" /\ r.base = product.version
      /\ r.age = 0 /\ r.ran = 0 /\ r.polled = 0
  <2>1. NoTask \in TaskType /\ NoTask.age = 0 /\ NoTask.ran = 0 /\ NoTask.polled = 0
    BY NoTaskType
  <2> QED
    BY <1>1, <2>1 DEF TaskType
<1>3. task' = [task EXCEPT ![Mine(u)] = r]
  BY DEF Registered
<1> HIDE DEF r
<1>4. Mine(u) \in Task /\ Mine(u)[1] = u /\ task \in [Task -> TaskType]
  BY UpdaterFacts DEF StaticInv
<1>5. /\ task' \in [Task -> TaskType] /\ task'[Mine(u)] = r
      /\ \A t \in Task : t # Mine(u) => task'[t] = task[t]
  BY <1>2, <1>3, <1>4
<1>6. Leads'
  BY <1>2, <1>5, UpdaterFacts DEF Leads, StaticInv
<1> QED
  BY <1>2, <1>4, <1>5, <1>6 DEF TaskMoves

LEMMA RegistersInv ==
  ASSUME UpdateInv, NEW u \in Updater, cli[u].pc = "create", Registered(Mine(u)),
         NEW pc \in {"settle", "report"}, Steps(u, pc), Fault \/ NoFault,
         UNCHANGED <<token, install, stamp, product, lost, held, crossed, overtaken>>
  PROVE  UpdateInv'
<1>1. /\ StaticInv /\ CliInv /\ Fits(u) /\ Mine(u) \in Task /\ Mine(u) = <<u, Route(u)>>
      /\ Route(u) \in InProcess <=> Route(u) \notin Scheduled
      /\ Scheduled \subseteq Rung /\ (Excused => Excused')
  BY UpdaterFacts, SameExcuses DEF Rung
<1>2. /\ Mine(u)' = Mine(u) /\ Route(u)' = Route(u) /\ cli'[u].pc = pc /\ CliMoves(u)
      /\ cli'[u].stamped = cli[u].stamped
  BY DEF Steps
<1>3. \A r \in Rung : install[<<u, r>>] = "none"
  BY <1>1 DEF Fits, InstallFits, Past, Started
<1>4. ASSUME NEW r \in Scheduled, task'[<<u, r>>].at \in {"waiting", "lead"}
      PROVE  <<u, r>> = Mine(u) /\ r = Route(u)
  <2> SUFFICES ASSUME <<u, r>> # Mine(u) PROVE FALSE
    BY <1>1
  <2>1. <<u, r>> \in Task
    BY <1>1 DEF Task
  <2>2. task'[<<u, r>>] = task[<<u, r>>]
    BY <2>1, RegisteredFacts
  <2> QED
    BY <1>1, <1>4, <2>2 DEF Fits, TaskFits, Started
<1>5. InstallFits(u)'
  BY <1>3 DEF InstallFits
<1>6. TaskFits(u)' /\ ScriptFits(u)'
  <2>1. TaskFits(u)'
    BY <1>1, <1>2, <1>3, <1>4 DEF TaskFits, Started
  <2>2. \A r \in Rung : <<u, r>> # Mine(u) => task'[<<u, r>>].at = "none"
    BY <1>1, RegisteredFacts DEF Fits, ScriptFits, Task
  <2>3. pc \in Begun
    BY DEF Begun, Started
  <2> QED
    BY <1>2, <2>1, <2>2, <2>3 DEF ScriptFits
<1>7. RouteFits(u)'
  BY <1>2 DEF RouteFits
<1>8. StampFits(u)'
  <2>1. Unstamped(u)' => Unstamped(u)
    BY <1>2 DEF Unstamped, Started
  <2>2. Danger(u)' => AtRisk(u)
    BY <1>1, <1>2, <1>3, <1>4 DEF Danger, AtRisk, Started
  <2> QED
    BY <1>1, <1>2, <2>1, <2>2 DEF Fits, StampFits, Danger
<1>9. TokenFits(u)'
  <2> SUFFICES ASSUME ~Excused' PROVE LeaseFits(u)' /\ GuardFits(u)' /\ LeadFits(u)'
    BY DEF TokenFits
  <2>1. PICK k \in token : k.owner = Mine(u) /\ k.age = 0
    BY <1>1 DEF Fits, TokenFits, LeaseFits
  <2>2. LeaseFits(u)'
    BY <1>2 DEF LeaseFits
  <2>3. product.version \in Nat
    BY <1>1 DEF StaticInv
  <2>4. GuardFits(u)'
    BY <1>2, <2>1, <2>3, RegisteredFacts DEF GuardFits
  <2>5. LeadFits(u)'
    <3> SUFFICES ASSUME NEW r \in Scheduled, task'[<<u, r>>].at \in {"waiting", "lead"}
                 PROVE  /\ task'[<<u, r>>].registered
                        /\ task'[<<u, r>>].age <= task'[<<u, r>>].ran
                        /\ \E j \in token : j.owner = <<u, r>> /\ j.age <= task'[<<u, r>>].ran
      BY DEF LeadFits
    <3>1. <<u, r>> = Mine(u)
      BY <1>4
    <3> QED
      BY <3>1, <2>1, RegisteredFacts
  <2> QED
    BY <2>2, <2>4, <2>5
<1>10. Fits(u)'
  BY <1>5, <1>6, <1>7, <1>8, <1>9 DEF Fits
<1> QED
  BY <1>1, <1>2, <1>10, RegisteredFacts, Unmoved, UpdaterStep DEF StaticInv

\* Out of create without a task.
LEMMA CreateFailsInv ==
  ASSUME UpdateInv, NEW u \in Updater, cli[u].pc = "create",
         NEW pc \in {"unlease", "report"}, Steps(u, pc), Fault \/ NoFault,
         UNCHANGED <<token, task, install, stamp, product, lost, held, crossed, overtaken>>
  PROVE  UpdateInv'
<1>1. StaticInv /\ CliInv /\ Fits(u) /\ pc \in PC
  BY UpdaterFacts DEF PC
<1>2. Mine(u)' = Mine(u) /\ Route(u)' = Route(u) /\ cli'[u].pc = pc /\ CliMoves(u)
  BY DEF Steps
<1>3. ~Past(u) /\ (Unstamped(u)' => Unstamped(u)) /\ ~AtRisk(u)'
  BY <1>2 DEF Past, Unstamped, AtRisk, Started
<1>4. RouteFits(u)' /\ LeaseFits(u)' /\ GuardFits(u)'
  BY <1>2 DEF RouteFits, LeaseFits, GuardFits, Started
<1>5. Unstamped(u)' => ~cli[u].stamped
  BY <1>1, <1>3 DEF Fits, StampFits
<1>6. TokenMoves(u) /\ StampMoves(u) /\ OwnKept(u)
  BY <1>1, Unmoved, OwnKeptBy
<1>7. Fits(u)'
  BY <1>1, <1>3, <1>4, <1>5, <1>6, PlainFits, SameExcuses DEF Begun, Started
<1> QED
  BY <1>2, <1>6, <1>7, PlainStep

LEMMA CreateInv ==
  ASSUME UpdateInv, NEW u \in Updater, Create(u)
  PROVE  UpdateInv'
<1>1. /\ UNCHANGED <<token, install, stamp, product, lost, held, crossed, overtaken>>
      /\ cli[u].pc = "create" /\ CliInv /\ {"settle", "unlease"} \subseteq PC
  BY UpdaterFacts DEF Create, PC
<1>2. CASE Registered(Mine(u)) /\ Goes(u, "settle") /\ NoFault
  BY <1>1, <1>2, GoesFacts, RegistersInv
<1>3. CASE Fault /\ Goes(u, "unlease") /\ UNCHANGED task
  BY <1>1, <1>3, GoesFacts, CreateFailsInv
<1>4. CASE Fault /\ InDoubt(u) /\ Registered(Mine(u))
  BY <1>1, <1>4, InDoubtFacts, RegistersInv
<1>5. CASE Fault /\ InDoubt(u) /\ UNCHANGED task
  BY <1>1, <1>5, InDoubtFacts, CreateFailsInv
<1> QED
  BY <1>2, <1>3, <1>4, <1>5 DEF Create

\* What the start of a script changes.
LEMMA BeginsFacts ==
  ASSUME UpdateInv, NEW u \in Updater, NEW q \in Rung,
         task[<<u, q>>].at = "waiting", Begins(<<u, q>>)
  PROVE  /\ TaskMoves(u) /\ InstallMoves(u)
         /\ \A t \in Task : t # <<u, q>> => task'[t] = task[t] /\ install'[t] = install[t]
         /\ task'[<<u, q>>].registered = task[<<u, q>>].registered
         /\ task'[<<u, q>>].base = task[<<u, q>>].base
         /\ task'[<<u, q>>].age = task[<<u, q>>].age
         /\ task'[<<u, q>>].ran = task[<<u, q>>].ran
         /\ task'[<<u, q>>].polled = task[<<u, q>>].polled
         /\ q \in Scheduled => task'[<<u, q>>].at = "lead" /\ install'[<<u, q>>] = "live"
         /\ q \notin Scheduled => task'[<<u, q>>].at = "poll" /\ install' = install
<1> DEFINE t == <<u, q>>
           at == IF q \in Scheduled THEN "lead" ELSE "poll"
<1>1. t \in Task /\ t[1] = u /\ t[2] = q /\ StaticInv /\ Fits(u)
  BY UpdaterFacts DEF Task
<1>2. task[t] \in TaskType /\ task \in [Task -> TaskType]
  BY <1>1 DEF StaticInv
<1>3. task' = [task EXCEPT ![t].at = at]
  BY <1>1 DEF Begins
<1>4. [task[t] EXCEPT !.at = at] \in TaskType
  BY <1>2 DEF TaskType, Running
<1>5. /\ task' \in [Task -> TaskType] /\ task'[t] = [task[t] EXCEPT !.at = at]
      /\ \A s \in Task : s # t => task'[s] = task[s]
  BY <1>1, <1>2, <1>3, <1>4
<1>6. install' = IF q \in Scheduled THEN [install EXCEPT ![t] = "live"] ELSE install
  BY <1>1 DEF Begins
<1>7. q \in Scheduled => install[t] = "none"
  BY <1>1 DEF Fits, TaskFits
<1>8. InstallMoves(u)
  BY <1>1, <1>6, <1>7 DEF InstallMoves, StaticInv
<1>9. TaskMoves(u)
  <2>1. task'[t].at = at
    BY <1>2, <1>5 DEF TaskType
  <2>2. Leads'
    BY <1>1, <1>5, <2>1 DEF Leads, StaticInv
  <2> QED
    BY <1>1, <1>5, <2>2 DEF TaskMoves
<1>10. \A s \in Task : s # t => install'[s] = install[s]
  BY <1>1, <1>6 DEF StaticInv
<1>11. /\ q \in Scheduled => install'[t] = "live"
       /\ q \notin Scheduled => install' = install
  BY <1>1, <1>6 DEF StaticInv
<1> QED
  BY <1>2, <1>5, <1>8, <1>9, <1>10, <1>11 DEF TaskType

\* A script starts, at its trigger or by the hand of its updater.
LEMMA BeginsFits ==
  ASSUME UpdateInv, NEW u \in Updater, NEW q \in Rung,
         task[<<u, q>>].at = "waiting", Begins(<<u, q>>),
         UNCHANGED <<token, stamp, crossed, product>>, Excused => Excused',
         Mine(u)' = Mine(u), Route(u)' = Route(u), cli'[u].stamped = cli[u].stamped,
         Past(u) => Past(u)',
         cli[u].pc \in Begun => cli'[u].pc \in Begun,
         cli[u].pc \in Started \cup {"report", "done"}
           => cli'[u].pc \in Started \cup {"report", "done"},
         RouteFits(u)', Unstamped(u)' => Unstamped(u), AtRisk(u)' => AtRisk(u),
         cli'[u].pc = "create" => cli[u].pc = "create",
         cli'[u].pc \in Started \cup {"install", "call", "watch"}
           => cli[u].pc \in Started \cup {"install", "call", "watch"}
  PROVE  Fits(u)'
<1>1. /\ StaticInv /\ CliInv /\ Fits(u) /\ Mine(u) \in Task /\ Mine(u) = <<u, Route(u)>>
      /\ Route(u) \in InProcess <=> Route(u) \notin Scheduled
      /\ \A r \in Rung : <<u, r>> \in Task
  BY UpdaterFacts DEF Task
<1>2. Scheduled \subseteq Rung
  BY DEF Rung
<1>3. \A r \in Rung : r # q =>
        task'[<<u, r>>] = task[<<u, r>>] /\ install'[<<u, r>>] = install[<<u, r>>]
  BY <1>1, BeginsFacts
<1>4. \A r \in Scheduled : task'[<<u, r>>].at \in {"waiting", "lead"} =>
        task[<<u, r>>].at \in {"waiting", "lead"}
        /\ (task'[<<u, r>>].at = "waiting" => r # q)
  BY <1>2, <1>3, BeginsFacts
<1>5. q \in Scheduled => Mine(u) = <<u, q>> /\ Past(u)
  BY <1>1, <1>2 DEF Fits, TaskFits, Past
<1>6. InstallFits(u)'
  <2> SUFFICES ASSUME NEW r \in Rung, install'[<<u, r>>] # "none" PROVE Past(u)'
    BY DEF InstallFits
  <2>1. CASE install[<<u, r>>] # "none"
    BY <1>1, <2>1 DEF Fits, InstallFits
  <2>2. CASE install[<<u, r>>] = "none"
    <3>1. q \in Scheduled
      BY <2>2, BeginsFacts, <1>3
    <3> QED
      BY <1>5, <3>1
  <2> QED
    BY <2>1, <2>2
<1>7. TaskFits(u)' /\ ScriptFits(u)'
  <2>1. TaskFits(u)'
    BY <1>1, <1>2, <1>3, <1>4 DEF Fits, TaskFits
  <2>2. \A r \in Rung : task'[<<u, r>>].at # "none" => task[<<u, r>>].at # "none"
    BY <1>3
  <2> QED
    BY <1>1, <2>1, <2>2 DEF Fits, ScriptFits
<1>8. StampFits(u)'
  <2>1. Danger(u)' => Danger(u)
    <3>1. (\E r \in Scheduled : task'[<<u, r>>].at = "waiting") => Danger(u)
      BY <1>2, <1>3, <1>4 DEF Danger
    <3>2. (\E r \in Rung : install'[<<u, r>>] \in {"live", "closing"}) => Danger(u)
      <4> SUFFICES ASSUME NEW r \in Rung, install'[<<u, r>>] \in {"live", "closing"}
                   PROVE  Danger(u)
        OBVIOUS
      <4>1. CASE install[<<u, r>>] \in {"live", "closing"}
        BY <4>1 DEF Danger
      <4>2. CASE install[<<u, r>>] \notin {"live", "closing"}
        <5>1. q \in Scheduled
          BY <1>3, <4>2, BeginsFacts
        <5> QED
          BY <5>1 DEF Danger
      <4> QED
        BY <4>1, <4>2
    <3> QED
      BY <3>1, <3>2 DEF Danger
  <2> QED
    BY <1>1, <2>1 DEF Fits, StampFits
<1>9. TokenFits(u)'
  <2> SUFFICES ASSUME ~Excused' PROVE LeaseFits(u)' /\ GuardFits(u)' /\ LeadFits(u)'
    BY DEF TokenFits
  <2>1. LeaseFits(u) /\ GuardFits(u) /\ LeadFits(u)
    BY <1>1 DEF Fits, TokenFits
  <2>2. LeaseFits(u)'
    BY <2>1 DEF LeaseFits
  <2>3. GuardFits(u)'
    <3> SUFFICES ASSUME u \notin Quiet, Route(u) \in InProcess,
                        cli[u].pc \in Started \cup {"install", "call", "watch"}
                 PROVE  /\ task'[Mine(u)].registered
                        /\ task'[Mine(u)].at \in {"waiting", "poll"}
                        /\ task'[Mine(u)].age = 0 /\ task'[Mine(u)].polled = 0
                        /\ product.version <= task'[Mine(u)].base
      BY <2>1 DEF GuardFits
    <3>1. CASE Mine(u) = <<u, q>>
      <4>1. q \notin Scheduled
        BY <1>1, <3>1
      <4> QED
        BY <2>1, <3>1, <4>1, BeginsFacts DEF GuardFits
    <3>2. CASE Mine(u) # <<u, q>>
      <4>1. task'[Mine(u)] = task[Mine(u)]
        BY <1>1, <3>2, BeginsFacts
      <4> QED
        BY <2>1, <4>1 DEF GuardFits
    <3> QED
      BY <3>1, <3>2
  <2>4. LeadFits(u)'
    <3> SUFFICES ASSUME NEW r \in Scheduled, task'[<<u, r>>].at \in {"waiting", "lead"}
                 PROVE  /\ task'[<<u, r>>].registered
                        /\ task'[<<u, r>>].age <= task'[<<u, r>>].ran
                        /\ \E j \in token : j.owner = <<u, r>> /\ j.age <= task'[<<u, r>>].ran
      BY DEF LeadFits
    <3>1. /\ task[<<u, r>>].registered
          /\ task[<<u, r>>].age <= task[<<u, r>>].ran
          /\ \E j \in token : j.owner = <<u, r>> /\ j.age <= task[<<u, r>>].ran
      BY <1>4, <2>1 DEF LeadFits
    <3>2. /\ task'[<<u, r>>].registered = task[<<u, r>>].registered
          /\ task'[<<u, r>>].age = task[<<u, r>>].age
          /\ task'[<<u, r>>].ran = task[<<u, r>>].ran
      BY <1>2, <1>3, BeginsFacts
    <3> QED
      BY <3>1, <3>2
  <2> QED
    BY <2>2, <2>3, <2>4
<1> QED
  BY <1>1, <1>6, <1>7, <1>8, <1>9 DEF Fits

LEMMA TaskPair ==
  ASSUME NEW t \in Task
  PROVE  t[1] \in Updater /\ t[2] \in Rung /\ t = <<t[1], t[2]>>
BY DEF Task

LEMMA TriggerInv ==
  ASSUME UpdateInv, NEW t \in Task, Trigger(t)
  PROVE  UpdateInv'
<1> DEFINE u == t[1]
           q == t[2]
<1>1. /\ u \in Updater /\ q \in Rung /\ t = <<u, q>>
      /\ UNCHANGED <<token, cli, stamp, product, lost, held, crossed, overtaken, faults>>
      /\ task[t].at = "waiting" /\ Begins(t)
  BY TaskPair DEF Trigger, observers
<1> HIDE DEF u, q
<1>2. StaticInv /\ Fits(u) /\ CliInv
  BY <1>1, UpdaterFacts
<1>3. /\ Mine(u)' = Mine(u) /\ Route(u)' = Route(u) /\ cli'[u] = cli[u] /\ CliMoves(u)
  BY <1>1, <1>2 DEF Mine, Route, CliMoves, CliInv
<1>4. /\ Past(u) => Past(u)'
      /\ RouteFits(u)' /\ (Unstamped(u)' => Unstamped(u)) /\ (AtRisk(u)' => AtRisk(u))
  BY <1>2, <1>3 DEF Past, RouteFits, Unstamped, AtRisk, Fits
<1>5. Fits(u)'
  BY <1>1, <1>3, <1>4, BeginsFits, SameExcuses
<1>6. TaskMoves(u) /\ InstallMoves(u)
  BY <1>1, BeginsFacts
<1>7. TokenMoves(u) /\ StampMoves(u) /\ ObserversMove
  BY <1>1, <1>2, Unmoved DEF NoFault
<1> QED
  BY <1>1, <1>2, <1>3, <1>5, <1>6, <1>7, UpdaterStep DEF StaticInv

\* schtasks /run answered or not, by a living updater or a killed one.
LEMMA StartsInv ==
  ASSUME UpdateInv, NEW u \in Updater, cli[u].pc = "run",
         Starts(Mine(u)) \/ UNCHANGED <<task, install>>,
         NEW pc \in {"runsettle", "report"}, Steps(u, pc), Fault \/ NoFault,
         UNCHANGED <<token, stamp, product, lost, held, crossed, overtaken>>
  PROVE  UpdateInv'
<1>1. /\ StaticInv /\ CliInv /\ Fits(u) /\ Mine(u) \in Task /\ Mine(u) = <<u, Route(u)>>
      /\ Route(u) \in Rung /\ pc \in PC
  BY UpdaterFacts DEF PC
<1>2. /\ Mine(u)' = Mine(u) /\ Route(u)' = Route(u) /\ cli'[u].pc = pc /\ CliMoves(u)
      /\ cli'[u].stamped = cli[u].stamped
  BY DEF Steps
<1>3. /\ Past(u) => Past(u)'
      /\ RouteFits(u)' /\ (Unstamped(u)' => Unstamped(u)) /\ (AtRisk(u)' => AtRisk(u))
      /\ LeaseFits(u)'
  BY <1>2 DEF Past, RouteFits, Unstamped, AtRisk, LeaseFits, Started
<1>4. TokenMoves(u) /\ StampMoves(u) /\ ObserversMove /\ OwnKept(u)
  BY <1>1, Unmoved, OwnKeptBy
<1>5. CASE task[Mine(u)].at = "waiting" /\ Starts(Mine(u))
  <2>1. Begins(Mine(u))
    BY <1>5 DEF Starts
  <2>2. TaskMoves(u) /\ InstallMoves(u)
    BY <1>1, <1>5, <2>1, BeginsFacts
  <2>3. Fits(u)'
    BY <1>1, <1>2, <1>3, <1>5, <2>1, BeginsFits, SameExcuses DEF Begun, Started
  <2> QED
    BY <1>1, <1>2, <1>4, <2>2, <2>3, UpdaterStep DEF StaticInv
<1>6. CASE UNCHANGED <<task, install>>
  <2>1. ~Excused' => GuardFits(u)'
    BY <1>1, <1>6, GuardStays, SameExcuses DEF Started
  <2>2. /\ Unstamped(u)' => ~cli[u].stamped
        /\ AtRisk(u)' /\ u \in Unnamed => cli[u].stamped /\ (stamp' # NoStamp \/ crossed')
    BY <1>1, <1>3 DEF Fits, StampFits, Danger
  <2>3. Fits(u)'
    BY <1>1, <1>3, <1>4, <1>6, <2>1, <2>2, PlainFits, SameExcuses DEF Begun, Started
  <2> QED
    BY <1>2, <1>4, <1>6, <2>3, PlainStep
<1> QED
  BY <1>5, <1>6 DEF Starts

LEMMA RunInv ==
  ASSUME UpdateInv, NEW u \in Updater, Run(u)
  PROVE  UpdateInv'
<1>1. /\ UNCHANGED <<token, stamp, product, lost, held, crossed, overtaken>>
      /\ cli[u].pc = "run" /\ CliInv /\ "runsettle" \in PC
  BY UpdaterFacts DEF Run, PC
<1>2. Steps(u, "runsettle") \/ Steps(u, "report")
  BY <1>1, GoesFacts, InDoubtFacts DEF Run
<1>3. (Fault \/ NoFault) /\ (Starts(Mine(u)) \/ UNCHANGED <<task, install>>)
  BY DEF Run
<1> QED
  BY <1>1, <1>2, <1>3, StartsInv

-----------------------------------------------------------------------------
(* The rungs: unavailable, stamped, refused, called, watched, given up.     *)

\* On to the next rung, or into the first.
LEMMA EnterFits ==
  ASSUME UpdateInv, NEW u \in Updater, ~Past(u),
         cli[u].pc \notin Begun,
         CliMoves(u), ~cli'[u].stamped, cli'[u].pc \in {"acquire", "install", "report"},
         cli'[u].pc = "install" => u \in Quiet /\ Route(u)' \in InProcess,
         UNCHANGED <<task, install>>
  PROVE  Fits(u)'
<1>1. Fits(u) /\ StaticInv
  BY UpdaterFacts
<1>2. \A r \in Rung : install[<<u, r>>] = "none"
  BY <1>1 DEF Fits, InstallFits
<1>3. /\ \A r \in Rung : task[<<u, r>>].at = "none"
      /\ \A r \in Scheduled : task[<<u, r>>].at \notin {"waiting", "lead"}
  BY <1>1 DEF Fits, ScriptFits, Rung
<1>4. InstallFits(u)' /\ TaskFits(u)' /\ ScriptFits(u)'
  BY <1>2, <1>3 DEF InstallFits, TaskFits, ScriptFits
<1>5. RouteFits(u)'
  BY DEF RouteFits
<1>6. StampFits(u)'
  BY <1>2, <1>3 DEF StampFits, Danger, AtRisk, Started
<1>7. TokenFits(u)'
  BY <1>3 DEF TokenFits, LeaseFits, GuardFits, LeadFits, Started
<1> QED
  BY <1>4, <1>5, <1>6, <1>7 DEF Fits

LEMMA DeclinesFacts ==
  ASSUME UpdateInv, NEW u \in Updater, Declines(u)
  PROVE  /\ CliMoves(u) /\ cli'[u].stamped = cli[u].stamped
         /\ cli'[u].pc \in {"acquire", "install", "report"}
         /\ cli'[u].pc = "install" => u \in Quiet /\ Route(u)' \in InProcess
<1>1. CliInv /\ cli[u] \in CliType /\ cli[u].rung \in 1..Len(LadderOf[u])
  BY UpdaterFacts DEF CliInv
<1>2. cli[u].rung + 1 \in Nat /\ cli[u].rung + 1 >= 1
  BY <1>1, AttemptAssumption
<1>3. cli' = [cli EXCEPT ![u] = Enters(u, cli[u].rung + 1, cli[u])]
  BY <1>1 DEF Declines, CliInv
<1> QED
  BY <1>1, <1>2, <1>3, EntersFacts

LEMMA UnavailableInv ==
  ASSUME UpdateInv, NEW u \in Updater, Unavailable(u)
  PROVE  UpdateInv'
<1>1. /\ UNCHANGED <<token, task, install, stamp, product, lost, held, crossed, overtaken>>
      /\ cli[u].pc = "acquire" /\ StaticInv /\ CliInv /\ Fits(u) /\ Fault
  BY UpdaterFacts DEF Unavailable
<1>2. TokenMoves(u) /\ StampMoves(u)
  BY <1>1, Unmoved
<1>3. ~Past(u) /\ ~cli[u].stamped
  BY <1>1 DEF Past, Started, Fits, StampFits, Unstamped
<1>4. CASE Declines(u)
  BY <1>1, <1>2, <1>3, <1>4, DeclinesFacts, EnterFits, PlainStep DEF Begun, Started
<1>5. CASE Reports(u, "other")
  <2>1. CliMoves(u) /\ cli'[u].pc = "report" /\ cli'[u].stamped = cli[u].stamped
    BY <1>1, <1>5, ReportsFacts DEF Steps
  <2> QED
    BY <1>1, <1>2, <1>3, <2>1, EnterFits, PlainStep DEF Begun, Started
<1> QED
  BY <1>4, <1>5 DEF Unavailable

LEMMA StartFits ==
  ASSUME UpdateInv, NEW u \in Updater, Start(u)
  PROVE  Fits(u)' /\ CliMoves(u)
<1>1. /\ cli[u].pc = "start" /\ StaticInv /\ CliInv /\ Fits(u) /\ cli[u] \in CliType
      /\ UNCHANGED <<task, install>> /\ cli[u].rung \in 1..Len(LadderOf[u])
  BY UpdaterFacts DEF Start, CliInv
<1> DEFINE c == [cli[u] EXCEPT !.previous = stamp, !.resident = product.up]
           d == [c EXCEPT !.pc = "report"]
<1>2. c \in CliType /\ c.rung = cli[u].rung /\ c.stamped = cli[u].stamped
  <2>1. stamp \in Updater \cup {NoStamp} /\ product.up \in BOOLEAN
    BY <1>1 DEF StaticInv
  <2> QED
    BY <1>1, <2>1 DEF CliType
<1>3. ~Past(u) /\ ~cli[u].stamped
  BY <1>1 DEF Past, Started, Fits, StampFits, Unstamped
<1>4. cli' = [cli EXCEPT ![u] = IF u \in Unnamed /\ stamp # NoStamp
                                  THEN d ELSE Enters(u, 1, c)]
  BY DEF Start
<1> HIDE DEF c
<1>5. /\ CliMoves(u) /\ cli'[u].stamped = c.stamped
      /\ cli'[u].pc \in {"acquire", "install", "report"}
      /\ cli'[u].pc = "install" => u \in Quiet /\ Route(u)' \in InProcess
  <2>1. CASE u \in Unnamed /\ stamp # NoStamp
    <3>1. d \in CliType /\ d.rung = cli[u].rung /\ d.stamped = c.stamped /\ d.pc = "report"
      BY <1>2 DEF CliType, PC
    <3> HIDE DEF d
    <3> QED
      BY <1>1, <1>4, <2>1, <3>1, CliPut
  <2>2. CASE ~(u \in Unnamed /\ stamp # NoStamp)
    <3>1. cli' = [cli EXCEPT ![u] = Enters(u, 1, c)]
      BY <1>4, <2>2
    <3>2. c.rung \in 1..Len(LadderOf[u]) /\ 1 \in Nat /\ 1 >= 1
      BY <1>1, <1>2
    <3> QED
      BY <1>1, <1>2, <3>1, <3>2, EntersFacts
  <2> QED
    BY <2>1, <2>2
<1> QED
  BY <1>1, <1>2, <1>3, <1>5, EnterFits DEF Begun, Started

LEMMA StartInv ==
  ASSUME UpdateInv, NEW u \in Updater, Start(u)
  PROVE  UpdateInv'
<1>1. /\ UNCHANGED <<token, task, install, stamp, lost, held, crossed, overtaken, faults>>
      /\ StaticInv
  BY UpdaterFacts DEF Start, observers
<1>2. product' \in [up : BOOLEAN, version : Nat] /\ product'.version = product.version
  <2>1. product \in [up : BOOLEAN, version : Nat]
    BY <1>1 DEF StaticInv
  <2> QED
    BY <2>1 DEF Start
<1>3. TokenMoves(u) /\ TaskMoves(u) /\ InstallMoves(u) /\ StampMoves(u) /\ ObserversMove
  BY <1>1, Unmoved DEF NoFault
<1> QED
  BY <1>2, <1>3, StartFits, UpdaterStep

\* StoreAttempt::start, from either of its places.
LEMMA StampsFacts ==
  ASSUME UpdateInv, NEW u \in Updater, cli[u].pc \in {"stamp", "install"},
         NEW pc \in PC, NEW refused \in PC, NEW after \in {"unstamp", "report"},
         Stamps(u, pc, refused, after), UNCHANGED crossed
  PROVE  /\ CliMoves(u) /\ Mine(u)' = Mine(u) /\ Route(u)' = Route(u)
         /\ StampMoves(u) /\ (Fault \/ NoFault)
         /\ \/ /\ cli'[u].pc = pc
               /\ u \in Unnamed => cli'[u].stamped /\ stamp' # NoStamp
            \/ cli'[u].pc = refused
<1>1. /\ CliInv /\ StaticInv /\ ~cli[u].stamped /\ cli[u] \in CliType
      /\ cli[u].rung \in 1..Len(LadderOf[u]) /\ u # NoStamp
  BY UpdaterFacts, AttemptAssumption DEF Fits, StampFits, Unstamped, CliInv
<1>2. CASE /\ u \in Unnamed /\ stamp' = u /\ NoFault
           /\ cli' = [cli EXCEPT ![u].stamped = TRUE, ![u].pc = pc]
  <2> DEFINE c == [cli[u] EXCEPT !.stamped = TRUE, !.pc = pc]
  <2>1. c \in CliType /\ c.rung = cli[u].rung /\ c.pc = pc /\ c.stamped
    BY <1>1 DEF CliType
  <2>2. cli' = [cli EXCEPT ![u] = c]
    BY <1>1, <1>2 DEF CliInv
  <2> HIDE DEF c
  <2>3. CliMoves(u) /\ cli'[u] = c
    BY <1>1, <2>1, <2>2, CliPut
  <2>4. StampMoves(u)
    BY <1>1, <1>2 DEF StampMoves, StaticInv
  <2> QED
    BY <1>1, <1>2, <2>1, <2>3, <2>4 DEF Mine, Route
<1>3. CASE /\ Fault /\ UNCHANGED stamp
           /\ cli' = [cli EXCEPT ![u].stamped = TRUE, ![u].pc = refused, ![u].after = after]
  <2> DEFINE c == [cli[u] EXCEPT !.stamped = TRUE, !.pc = refused, !.after = after]
  <2>1. c \in CliType /\ c.rung = cli[u].rung /\ c.pc = refused
    BY <1>1 DEF CliType
  <2>2. cli' = [cli EXCEPT ![u] = c]
    BY <1>1, <1>3 DEF CliInv
  <2> HIDE DEF c
  <2>3. CliMoves(u) /\ cli'[u] = c
    BY <1>1, <2>1, <2>2, CliPut
  <2> QED
    BY <1>1, <1>3, <2>1, <2>3, Unmoved DEF Mine, Route
<1>4. CASE u \notin Unnamed /\ Goes(u, pc) /\ NoFault /\ UNCHANGED stamp
  <2>1. Steps(u, pc)
    BY <1>1, <1>4, GoesFacts
  <2> QED
    BY <1>1, <1>4, <2>1, Unmoved DEF Steps
<1> QED
  BY <1>1, <1>2, <1>3, <1>4 DEF Stamps

\* From the mark or the preflight onwards: nothing of this rung has begun.
LEMMA FreshFits ==
  ASSUME UpdateInv, NEW u \in Updater,
         \/ cli[u].pc = "stamp" /\ cli'[u].pc \in {"lease", "release"}
         \/ cli[u].pc = "install" /\ cli'[u].pc \in {"call", "endtask", "report"},
         Mine(u)' = Mine(u), Route(u)' = Route(u),
         cli'[u].pc \in {"lease", "call"} /\ u \in Unnamed
           => cli'[u].stamped /\ stamp' # NoStamp,
         UNCHANGED <<token, task, install, product, lost, held, overtaken>>
  PROVE  Fits(u)'
<1>1. /\ Fits(u) /\ StaticInv /\ ~Past(u) /\ (Excused => Excused')
      /\ Route(u) \in InProcess <=> Route(u) \notin Scheduled
  BY UpdaterFacts, SameExcuses DEF Past, Started
<1>2. \A r \in Rung : install[<<u, r>>] = "none"
  BY <1>1 DEF Fits, InstallFits
<1>3. \A r \in Scheduled : task[<<u, r>>].at \notin {"waiting", "lead"}
  BY <1>1 DEF Fits, TaskFits, Started
<1>4. InstallFits(u)' /\ TaskFits(u)'
  BY <1>2, <1>3 DEF InstallFits, TaskFits
<1>5. RouteFits(u)' /\ ScriptFits(u)'
  BY <1>1 DEF Fits, RouteFits, ScriptFits, Begun, Started
<1>6. ~Unstamped(u)'
  BY <1>1 DEF Unstamped, Fits, RouteFits, Started
<1>7. Danger(u)' => cli'[u].pc \in {"lease", "call"}
  BY <1>2, <1>3 DEF Danger, AtRisk, Started
<1>8. StampFits(u)'
  BY <1>6, <1>7 DEF StampFits
<1>9. TokenFits(u)'
  <2> SUFFICES ASSUME ~Excused' PROVE GuardFits(u)'
    BY <1>3 DEF TokenFits, LeaseFits, LeadFits
  <2>1. GuardFits(u)
    BY <1>1 DEF Fits, TokenFits
  <2> QED
    BY <2>1 DEF GuardFits, Started
<1> QED
  BY <1>4, <1>5, <1>8, <1>9 DEF Fits

LEMMA StampInv ==
  ASSUME UpdateInv, NEW u \in Updater, Stamp(u)
  PROVE  UpdateInv'
<1>1. /\ UNCHANGED <<token, task, install, product, lost, held, crossed, overtaken>>
      /\ cli[u].pc = "stamp" /\ StaticInv /\ {"lease", "release"} \subseteq PC
      /\ Stamps(u, "lease", "release", "unstamp")
  BY UpdaterFacts DEF Stamp, PC
<1>2. /\ CliMoves(u) /\ Mine(u)' = Mine(u) /\ Route(u)' = Route(u)
      /\ StampMoves(u) /\ (Fault \/ NoFault)
      /\ \/ /\ cli'[u].pc = "lease"
            /\ u \in Unnamed => cli'[u].stamped /\ stamp' # NoStamp
         \/ cli'[u].pc = "release"
  BY <1>1, StampsFacts
<1>3. Fits(u)'
  BY <1>1, <1>2, FreshFits
<1> QED
  BY <1>1, <1>2, <1>3, PlainStep, Unmoved

LEMMA PreflightInv ==
  ASSUME UpdateInv, NEW u \in Updater, Preflight(u)
  PROVE  UpdateInv'
<1>1. /\ UNCHANGED <<token, task, install, product, lost, held, crossed, overtaken>>
      /\ cli[u].pc = "install" /\ StaticInv /\ CliInv
      /\ {"call", "endtask", "report"} \subseteq PC
  BY UpdaterFacts DEF Preflight, PC
<1>2. TokenMoves(u)
  BY <1>1, Unmoved
<1>3. CASE Stamps(u, "call", "endtask", "unstamp")
  <2>1. /\ CliMoves(u) /\ Mine(u)' = Mine(u) /\ Route(u)' = Route(u)
        /\ StampMoves(u) /\ (Fault \/ NoFault)
        /\ \/ /\ cli'[u].pc = "call"
              /\ u \in Unnamed => cli'[u].stamped /\ stamp' # NoStamp
           \/ cli'[u].pc = "endtask"
    BY <1>1, <1>3, StampsFacts
  <2>2. Fits(u)'
    BY <1>1, <2>1, FreshFits
  <2> QED
    BY <1>1, <1>2, <2>1, <2>2, PlainStep
<1>4. CASE /\ \/ Backs(u, "endtask", "unstamp") \/ Backs(u, "endtask", "report")
              \/ Reports(u, "queued")
           /\ NoFault /\ UNCHANGED stamp
  <2>1. Steps(u, "endtask") \/ Steps(u, "report")
    BY <1>1, <1>4, BacksFacts, ReportsFacts
  <2>2. /\ CliMoves(u) /\ Mine(u)' = Mine(u) /\ Route(u)' = Route(u)
        /\ cli'[u].pc \in {"endtask", "report"}
    BY <2>1 DEF Steps
  <2>3. StampMoves(u)
    BY <1>1, <1>4, Unmoved
  <2>4. Fits(u)'
    BY <1>1, <2>2, FreshFits
  <2> QED
    BY <1>1, <1>2, <1>4, <2>2, <2>3, <2>4, PlainStep
<1> QED
  BY <1>3, <1>4 DEF Preflight

\* An install begins, seen by its updater or behind one that was killed.
LEMMA CallsInv ==
  ASSUME UpdateInv, NEW u \in Updater, cli[u].pc = "call",
         install' = [install EXCEPT ![Mine(u)] = "live"],
         NEW pc \in {"watch", "report"}, Steps(u, pc), Fault \/ NoFault,
         UNCHANGED <<token, task, stamp, product, lost, held, crossed, overtaken>>
  PROVE  UpdateInv'
<1>1. /\ StaticInv /\ CliInv /\ Fits(u) /\ Mine(u) \in Task /\ Mine(u)[1] = u
      /\ pc \in PC /\ (Excused => Excused')
  BY UpdaterFacts, SameExcuses DEF PC
<1>2. /\ Mine(u)' = Mine(u) /\ Route(u)' = Route(u) /\ cli'[u].pc = pc /\ CliMoves(u)
      /\ cli'[u].stamped = cli[u].stamped
  BY DEF Steps
<1>3. install[Mine(u)] = "none"
  BY UpdaterFacts DEF Fits, InstallFits, Past, Started
<1>4. InstallMoves(u)
  BY <1>1, <1>3 DEF InstallMoves, StaticInv
<1>5. \A r \in Scheduled : task[<<u, r>>].at \notin {"waiting", "lead"}
  BY <1>1 DEF Fits, TaskFits, Started
<1>6. InstallFits(u)' /\ TaskFits(u)' /\ ScriptFits(u)' /\ RouteFits(u)'
  BY <1>1, <1>2, <1>5
  DEF InstallFits, TaskFits, ScriptFits, Begun, Fits, RouteFits, Past
<1>7. StampFits(u)'
  BY <1>1, <1>2 DEF Fits, StampFits, Danger, AtRisk, Unstamped, Started
<1>8. TokenFits(u)'
  <2>1. ~Excused' => GuardFits(u)'
    BY <1>1, GuardStays
  <2> QED
    BY <1>2, <1>5, <2>1 DEF TokenFits, LeaseFits, LeadFits
<1>9. Fits(u)'
  BY <1>6, <1>7, <1>8 DEF Fits
<1> QED
  BY <1>1, <1>2, <1>4, <1>9, Unmoved, UpdaterStep DEF StaticInv

\* Out of a call or a watch, with the operation over or not.
LEMMA EndsInv ==
  ASSUME UpdateInv, NEW u \in Updater, cli[u].pc \in {"call", "watch"},
         NEW pc \in {"endtask", "report"}, Steps(u, pc), Fault \/ NoFault,
         cli[u].pc = "call" => UNCHANGED install,
         pc = "endtask" /\ cli[u].pc = "watch" => cli'[u].after = "report",
         Over(Mine(u)) \/ UNCHANGED install,
         UNCHANGED <<token, task, stamp, product, lost, held, crossed, overtaken>>
  PROVE  UpdateInv'
<1>1. /\ StaticInv /\ CliInv /\ Fits(u) /\ Mine(u) \in Task /\ Mine(u)[1] = u
      /\ Mine(u) = <<u, Route(u)>> /\ (Excused => Excused')
  BY UpdaterFacts, SameExcuses
<1>2. /\ Mine(u)' = Mine(u) /\ Route(u)' = Route(u) /\ cli'[u].pc = pc /\ CliMoves(u)
  BY DEF Steps
<1>3. InstallMoves(u)
  BY <1>1, Unmoved DEF InstallMoves, StaticInv, Over
<1>4. \A r \in Scheduled : task[<<u, r>>].at \notin {"waiting", "lead"}
  BY <1>1 DEF Fits, TaskFits, Started
<1>5. InstallFits(u)'
  <2>1. CASE cli[u].pc = "call"
    <3>1. \A r \in Rung : install[<<u, r>>] = "none"
      BY <1>1, <2>1 DEF Fits, InstallFits, Past, Started
    <3> QED
      BY <2>1, <3>1 DEF InstallFits
  <2>2. CASE cli[u].pc = "watch"
    BY <1>2, <2>2 DEF InstallFits, Past
  <2> QED
    BY <2>1, <2>2
<1>6. TaskFits(u)' /\ ScriptFits(u)' /\ RouteFits(u)'
  BY <1>1, <1>2, <1>4 DEF TaskFits, ScriptFits, Begun, Fits, RouteFits
<1>7. StampFits(u)'
  BY <1>1, <1>2 DEF Fits, StampFits, Danger, AtRisk, Unstamped, Started, Steps
<1>8. TokenFits(u)'
  BY <1>2, <1>4 DEF TokenFits, LeaseFits, GuardFits, LeadFits, Started
<1>9. Fits(u)'
  BY <1>5, <1>6, <1>7, <1>8 DEF Fits
<1> QED
  BY <1>1, <1>2, <1>3, <1>9, Unmoved, UpdaterStep DEF StaticInv

LEMMA CallInv ==
  ASSUME UpdateInv, NEW u \in Updater, Call(u)
  PROVE  UpdateInv'
<1>1. /\ UNCHANGED <<token, task, stamp, product, lost, held, crossed, overtaken>>
      /\ NoFault /\ cli[u].pc = "call" /\ CliInv /\ {"endtask", "watch"} \subseteq PC
  BY UpdaterFacts DEF Call, observers, NoFault, PC
<1>2. CASE Backs(u, "endtask", "unstamp") /\ UNCHANGED install
  BY <1>1, <1>2, BacksFacts, EndsInv
<1>3. CASE Goes(u, "watch") /\ install' = [install EXCEPT ![Mine(u)] = "live"]
  BY <1>1, <1>3, GoesFacts, CallsInv
<1> QED
  BY <1>2, <1>3 DEF Call

LEMMA WatchInv ==
  ASSUME UpdateInv, NEW u \in Updater, Watch(u)
  PROVE  UpdateInv'
<1>1. /\ UNCHANGED <<token, task, stamp, product, lost, held, crossed, overtaken>>
      /\ cli[u].pc = "watch" /\ CliInv /\ {"endtask", "report"} \subseteq PC
      /\ (Fault \/ NoFault) /\ (Over(Mine(u)) \/ UNCHANGED install)
  BY UpdaterFacts DEF Watch, PC
<1>2. CASE \E code \in {"ok", "queued", "other"} : Reports(u, code)
  BY <1>1, <1>2, ReportsFacts, EndsInv
<1>3. CASE Backs(u, "endtask", "report")
  BY <1>1, <1>3, BacksFacts, EndsInv
<1> QED
  BY <1>2, <1>3 DEF Watch

LEMMA EndTaskInv ==
  ASSUME UpdateInv, NEW u \in Updater, EndTask(u)
  PROVE  UpdateInv'
<1>1. /\ UNCHANGED <<token, install, stamp, product, lost, held, crossed, overtaken, faults>>
      /\ cli[u].pc = "endtask" /\ StaticInv /\ CliInv /\ Fits(u) /\ "release" \in PC
      /\ Mine(u) \in Task /\ Mine(u)[1] = u /\ Mine(u) = <<u, Route(u)>>
  BY UpdaterFacts DEF EndTask, observers, PC
<1>2. Steps(u, "release") /\ cli'[u].after = cli[u].after
  BY <1>1, GoesFacts DEF EndTask
<1>3. /\ Mine(u)' = Mine(u) /\ Route(u)' = Route(u) /\ cli'[u].pc = "release" /\ CliMoves(u)
      /\ cli'[u].stamped = cli[u].stamped
  BY <1>2 DEF Steps
<1>4. /\ TaskMoves(u) /\ task'[Mine(u)] = NoTask
      /\ \A t \in Task : task'[t] = task[t] \/ task'[t] = NoTask
  <2>1. /\ task' \in [Task -> TaskType] /\ task'[Mine(u)] = NoTask
        /\ \A t \in Task : t # Mine(u) => task'[t] = task[t]
    BY <1>1, NoTaskType DEF StaticInv, EndTask
  <2>2. Leads'
    BY <1>1, <2>1, NoTaskType DEF StaticInv, Leads
  <2> QED
    BY <1>1, <2>1, <2>2 DEF TaskMoves
<1>5. \A r \in Scheduled : task'[<<u, r>>].at \notin {"waiting", "lead"}
  <2> SUFFICES ASSUME NEW r \in Scheduled PROVE task'[<<u, r>>].at \notin {"waiting", "lead"}
    OBVIOUS
  <2>1. task[<<u, r>>].at \notin {"waiting", "lead"} /\ <<u, r>> \in Task
    BY <1>1 DEF Fits, TaskFits, Started, Task, Rung
  <2> QED
    BY <1>4, <2>1, NoTaskType
<1>6. InstallFits(u)'
  <2>1. Past(u) => Past(u)'
    BY <1>1, <1>2, <1>3 DEF Past, Started
  <2> QED
    BY <1>1, <2>1 DEF Fits, InstallFits
<1>7. TaskFits(u)' /\ RouteFits(u)' /\ ScriptFits(u)'
  <2>1. TaskFits(u)' /\ RouteFits(u)'
    BY <1>3, <1>5 DEF TaskFits, RouteFits
  <2>2. \A r \in Rung : <<u, r>> \in Task /\ task'[<<u, r>>].at = "none"
    BY <1>1, <1>4, NoTaskType DEF Fits, ScriptFits, Task
  <2> QED
    BY <2>1, <2>2 DEF ScriptFits
<1>8. StampFits(u)'
  BY <1>1, <1>3, <1>5 DEF Fits, StampFits, Danger, AtRisk, Unstamped, Started
<1>9. TokenFits(u)'
  BY <1>3, <1>5 DEF TokenFits, LeaseFits, GuardFits, LeadFits, Started
<1>10. Fits(u)'
  BY <1>6, <1>7, <1>8, <1>9 DEF Fits
<1>11. TokenMoves(u) /\ InstallMoves(u) /\ StampMoves(u) /\ ObserversMove
  BY <1>1, Unmoved DEF NoFault
<1> QED
  BY <1>1, <1>3, <1>4, <1>10, <1>11, UpdaterStep DEF StaticInv

LEMMA UnstampInv ==
  ASSUME UpdateInv, NEW u \in Updater, Unstamp(u)
  PROVE  UpdateInv'
<1>1. /\ UNCHANGED <<token, task, install, product, lost, held, overtaken>>
      /\ cli[u].pc = "unstamp" /\ StaticInv /\ CliInv /\ Fits(u) /\ cli[u] \in CliType
      /\ cli[u].rung \in 1..Len(LadderOf[u]) /\ (Fault \/ NoFault) /\ ~Past(u)
  BY UpdaterFacts DEF Unstamp, CliInv, Past, Started
<1>2. TokenMoves(u)
  BY <1>1, Unmoved
<1>3. CASE /\ stamp' = cli[u].previous
           /\ crossed' = (crossed \/ \E v \in Updater \ {u} : cli[v].stamped)
           /\ cli' = [cli EXCEPT ![u] = Enters(u, @.rung + 1, [@ EXCEPT !.stamped = FALSE])]
  <2> DEFINE c == [cli[u] EXCEPT !.stamped = FALSE]
  <2>1. c \in CliType /\ c.rung = cli[u].rung /\ ~c.stamped
    BY <1>1 DEF CliType
  <2>2. cli' = [cli EXCEPT ![u] = Enters(u, cli[u].rung + 1, c)]
    BY <1>1, <1>3 DEF CliInv
  <2> HIDE DEF c
  <2>3. cli[u].rung + 1 \in Nat /\ cli[u].rung + 1 >= 1
    BY <1>1, AttemptAssumption
  <2>4. /\ CliMoves(u) /\ ~cli'[u].stamped /\ cli'[u].pc \in {"acquire", "install", "report"}
        /\ cli'[u].pc = "install" => u \in Quiet /\ Route(u)' \in InProcess
    BY <1>1, <2>1, <2>2, <2>3, EntersFacts
  <2>5. StampMoves(u)
    <3>1. cli[u].previous \in Updater \cup {NoStamp} /\ crossed \in BOOLEAN
      BY <1>1 DEF CliType, StaticInv
    <3> QED
      BY <1>3, <3>1 DEF StampMoves
  <2>6. Fits(u)'
    BY <1>1, <2>4, EnterFits DEF Begun, Started
  <2> QED
    BY <1>1, <1>2, <2>4, <2>5, <2>6, PlainStep
<1>4. CASE Fault /\ Reports(u, "other") /\ UNCHANGED <<stamp, crossed>>
  <2>1. Steps(u, "report") /\ "report" \in PC
    BY <1>1, <1>4, ReportsFacts DEF PC
  <2>2. CliMoves(u) /\ cli'[u].pc = "report"
    BY <2>1 DEF Steps
  <2>3. /\ RouteFits(u)' /\ LeaseFits(u)' /\ GuardFits(u)' /\ ~AtRisk(u)' /\ ~Unstamped(u)'
    BY <2>2 DEF RouteFits, LeaseFits, GuardFits, AtRisk, Unstamped, Started
  <2>4. Fits(u)'
    BY <1>1, <1>2, <1>4, <2>1, <2>3, PlainFits, SameExcuses DEF Begun, Started
  <2> QED
    BY <1>1, <1>2, <1>4, <2>2, <2>4, PlainStep, Unmoved
<1>5. CASE ~cli[u].stamped /\ Declines(u) /\ UNCHANGED <<stamp, crossed>>
  BY <1>1, <1>2, <1>5, DeclinesFacts, EnterFits, PlainStep, Unmoved DEF Begun, Started
<1> QED
  BY <1>3, <1>4, <1>5 DEF Unstamp

\* Killed between its calls, or inside AttemptLock::acquire.
LEMMA KilledInv ==
  ASSUME UpdateInv, NEW u \in Updater, Steps(u, "report"), Fault,
         TokenMoves(u), OwnKept(u) \/ cli[u].pc = "acquire",
         UNCHANGED <<task, install, stamp, product, lost, held, crossed, overtaken>>
  PROVE  UpdateInv'
<1>1. StaticInv /\ "report" \in PC
  BY UpdaterFacts DEF PC
<1>2. CliMoves(u) /\ cli'[u].pc = "report"
  BY DEF Steps
<1>3. /\ RouteFits(u)' /\ LeaseFits(u)' /\ GuardFits(u)' /\ ~AtRisk(u)' /\ ~Unstamped(u)'
      /\ Past(u)'
  BY <1>2 DEF RouteFits, LeaseFits, GuardFits, AtRisk, Unstamped, Started, Past
<1>4. Fits(u)'
  BY <1>1, <1>3, PlainFits, SameExcuses DEF Begun, Started
<1> QED
  BY <1>1, <1>2, <1>4, PlainStep, Unmoved

LEMMA KillInv ==
  ASSUME UpdateInv, NEW u \in Updater, Kill(u)
  PROVE  UpdateInv'
<1>1. /\ UNCHANGED <<stamp, product, lost, held, crossed, overtaken>> /\ Fault
      /\ CliInv /\ StaticInv /\ "other" \in {"ok", "queued", "other"}
  BY UpdaterFacts DEF Kill
<1>2. Steps(u, "report")
  BY <1>1, ReportsFacts DEF Kill
<1>3. CASE UNCHANGED <<token, task, install>>
  BY <1>1, <1>2, <1>3, KilledInv, Unmoved, OwnKeptBy
<1>4. CASE /\ cli[u].pc = "acquire" /\ \A k \in token : Reclaimable(k)
           /\ token' = {[owner |-> Nobody, pending |-> FALSE, age |-> 0]}
           /\ UNCHANGED <<task, install>>
  <2> DEFINE tk == [owner |-> Nobody, pending |-> FALSE, age |-> 0]
  <2>1. tk \in TokenType
    BY DEF TokenType, Old
  <2>2. token' = {tk}
    BY <1>4
  <2> HIDE DEF tk
  <2>3. TokenMoves(u)
    BY <1>4, <2>1, <2>2, SafeIsNotReclaimable DEF TokenMoves, Single
  <2> QED
    BY <1>1, <1>2, <1>4, <2>3, KilledInv
<1>5. CASE cli[u].pc = "create" /\ Registered(Mine(u)) /\ UNCHANGED <<token, install>>
  BY <1>1, <1>2, <1>5, RegistersInv
<1>6. CASE cli[u].pc = "run" /\ Starts(Mine(u)) /\ UNCHANGED token
  BY <1>1, <1>2, <1>6, StartsInv
<1>7. CASE /\ cli[u].pc = "call" /\ install' = [install EXCEPT ![Mine(u)] = "live"]
           /\ UNCHANGED <<token, task>>
  BY <1>1, <1>2, <1>7, CallsInv
<1> QED
  BY <1>3, <1>4, <1>5, <1>6, <1>7 DEF Kill

-----------------------------------------------------------------------------
(* The script of a task.                                                    *)

\* What a script does after its lead command began: it goes on to no place
\* where a task waits or installs.
LEMMA ScriptInv ==
  ASSUME UpdateInv, NEW t \in Task, task' \in [Task -> TaskType],
         task[t].at \in {"lead", "poll", "delete", "findstr", "del"},
         task'[t].at \in {"none", "poll", "delete", "findstr", "del"},
         \A s \in Task : s # t => task'[s] = task[s],
         task[t].at = "poll" => Ready(t) \/ task[t].polled = Poll,
         (Over(t) /\ task[t].at = "lead") \/ UNCHANGED install,
         TokenMoves(t[1]), task[t].at # "del" => UNCHANGED token,
         \A k \in token : k.owner # t => k \in token' \/ Excused',
         UNCHANGED <<cli, stamp, crossed>>, ObserversMove,
         product' \in [up : BOOLEAN, version : Nat], product'.version = product.version
  PROVE  UpdateInv'
<1> DEFINE u == t[1]
<1>1. /\ u \in Updater /\ t[2] \in Rung /\ t = <<u, t[2]>> /\ TokenMoves(u)
      /\ Scheduled \subseteq Rung
  BY TaskPair DEF Rung
<1> HIDE DEF u
<1>2. /\ StaticInv /\ CliInv /\ Fits(u) /\ Mine(u) \in Task /\ Mine(u) = <<u, Route(u)>>
      /\ \A r \in Rung : <<u, r>> \in Task
  BY <1>1, UpdaterFacts DEF Task
<1>3. /\ Mine(u)' = Mine(u) /\ Route(u)' = Route(u) /\ cli'[u] = cli[u] /\ CliMoves(u)
  BY <1>2 DEF Mine, Route, CliMoves, CliInv
<1>4. TaskMoves(u)
  <2>1. Leads'
    BY <1>2 DEF StaticInv, Leads
  <2>2. \A s \in Task : s[1] # u => s # t
    BY <1>1
  <2> QED
    BY <2>1, <2>2 DEF TaskMoves
<1>5. InstallMoves(u) /\ \A s \in Task : install'[s] = install[s] \/ install'[s] = "over"
  <2>1. CASE Over(t)
    <3>1. install' \in [Task -> {"none", "live", "closing", "over"}]
      BY <1>2, <2>1 DEF StaticInv, Over
    <3>2. \A s \in Task : install'[s] = IF s = t THEN "over" ELSE install[s]
      BY <1>2, <2>1 DEF StaticInv, Over
    <3> QED
      BY <1>1, <3>1, <3>2 DEF InstallMoves
  <2>2. CASE UNCHANGED install
    BY <1>1, <1>2, <2>2, Unmoved
  <2> QED
    BY <2>1, <2>2
<1>6. \A r \in Rung : /\ task'[<<u, r>>].at # "none" => task[<<u, r>>].at # "none"
                      /\ task'[<<u, r>>].at \in {"waiting", "lead"}
                           => <<u, r>> # t /\ task'[<<u, r>>] = task[<<u, r>>]
  BY <1>2
<1>7. InstallFits(u)'
  <2>1. Past(u)' <=> Past(u)
    BY <1>3 DEF Past
  <2>2. task[t].at = "lead" => Past(u)
    <3> SUFFICES ASSUME task[t].at = "lead" PROVE Past(u)
      OBVIOUS
    <3>1. t[2] \in Scheduled
      BY <1>2 DEF StaticInv, Leads
    <3>2. Mine(u) = <<u, t[2]>> /\ cli[u].pc \in Started \cup {"report", "done"}
      BY <1>1, <1>2, <3>1 DEF Fits, TaskFits
    <3> QED
      BY <1>2, <3>1, <3>2 DEF Past
  <2>3. CASE task[t].at = "lead"
    BY <2>1, <2>2, <2>3 DEF InstallFits
  <2>4. CASE UNCHANGED install
    BY <1>2, <2>1, <2>4 DEF InstallFits, Fits
  <2> QED
    BY <2>3, <2>4
<1>8. TaskFits(u)'
  <2> SUFFICES ASSUME NEW r \in Scheduled, task'[<<u, r>>].at \in {"waiting", "lead"}
               PROVE  /\ Mine(u) = <<u, r>> /\ cli[u].pc \in Started \cup {"report", "done"}
                      /\ task'[<<u, r>>].at = "waiting" => install'[<<u, r>>] = "none"
    BY <1>3 DEF TaskFits
  <2>1. <<u, r>> # t /\ task'[<<u, r>>] = task[<<u, r>>] /\ <<u, r>> \in Task
    BY <1>1, <1>2, <1>6
  <2>2. install'[<<u, r>>] = install[<<u, r>>]
    BY <1>2, <2>1 DEF Over, StaticInv
  <2> QED
    BY <1>2, <2>1, <2>2 DEF Fits, TaskFits
<1>9. ScriptFits(u)' /\ RouteFits(u)'
  BY <1>2, <1>3, <1>6 DEF Fits, ScriptFits, RouteFits
<1>10. StampFits(u)'
  <2>1. Unstamped(u)' => Unstamped(u)
    BY <1>3 DEF Unstamped
  <2>2. Danger(u)' => Danger(u)
    BY <1>1, <1>2, <1>3, <1>5, <1>6 DEF Danger, AtRisk
  <2> QED
    BY <1>2, <1>3, <2>1, <2>2 DEF Fits, StampFits
<1>11. TokenFits(u)'
  <2> SUFFICES ASSUME ~Excused' PROVE LeaseFits(u)' /\ GuardFits(u)' /\ LeadFits(u)'
    BY DEF TokenFits
  <2>1. LeaseFits(u) /\ GuardFits(u) /\ LeadFits(u)
    BY <1>2 DEF Fits, TokenFits, ObserversMove
  <2>2. LeaseFits(u)'
    <3> SUFFICES ASSUME cli[u].pc = "create" PROVE Mine(u) # t
      BY <1>3, <2>1 DEF LeaseFits
    <3>1. task[Mine(u)].at = "none"
      BY <1>2 DEF Fits, ScriptFits, Begun, Started, Task
    <3> QED
      BY <3>1
  <2>3. GuardFits(u)'
    <3> SUFFICES ASSUME u \notin Quiet, Route(u) \in InProcess,
                        cli[u].pc \in Started \cup {"install", "call", "watch"}
                 PROVE  Mine(u) # t
      BY <1>2, <1>3, <2>1 DEF GuardFits
    <3> SUFFICES ASSUME Mine(u) = t PROVE FALSE
      OBVIOUS
    <3>1. /\ task[t].at \in {"waiting", "poll"} /\ task[t].polled = 0
          /\ product.version <= task[t].base
      BY <2>1 DEF GuardFits
    <3>2. product.version \in Nat /\ task[t].base \in Nat
      BY <1>2, TasksCounted DEF StaticInv, TaskType
    <3> QED
      BY <3>1, <3>2 DEF Ready, Poll
  <2>4. LeadFits(u)'
    <3> SUFFICES ASSUME NEW r \in Scheduled, task'[<<u, r>>].at \in {"waiting", "lead"}
                 PROVE  /\ task'[<<u, r>>].registered
                        /\ task'[<<u, r>>].age <= task'[<<u, r>>].ran
                        /\ \E k \in token' : k.owner = <<u, r>> /\ k.age <= task'[<<u, r>>].ran
      BY DEF LeadFits
    <3>1. <<u, r>> # t /\ task'[<<u, r>>] = task[<<u, r>>]
      BY <1>1, <1>6
    <3>2. /\ task[<<u, r>>].registered /\ task[<<u, r>>].age <= task[<<u, r>>].ran
          /\ \E k \in token : k.owner = <<u, r>> /\ k.age <= task[<<u, r>>].ran
      BY <2>1, <3>1 DEF LeadFits
    <3> QED
      BY <3>1, <3>2
  <2> QED
    BY <2>2, <2>3, <2>4
<1>12. Fits(u)'
  BY <1>7, <1>8, <1>9, <1>10, <1>11 DEF Fits
<1>13. StampMoves(u)
  BY <1>1, <1>2, Unmoved
<1> QED
  BY <1>1, <1>3, <1>4, <1>5, <1>12, <1>13, UpdaterStep

\* The effect of a script's own steps on its task.
LEMMA AtFacts ==
  ASSUME StaticInv, NEW t \in Task, NEW at \in {"poll", "delete", "findstr", "del"},
         NEW r \in BOOLEAN,
         task' = [task EXCEPT ![t] = NoTask] \/ task' = [task EXCEPT ![t].at = at]
           \/ task' = [task EXCEPT ![t].at = at, ![t].registered = r]
  PROVE  /\ task' \in [Task -> TaskType] /\ task'[t].at \in {"none", at}
         /\ \A s \in Task : s # t => task'[s] = task[s]
<1>1. task \in [Task -> TaskType] /\ task[t] \in TaskType
  BY DEF StaticInv
<1> DEFINE a == [task[t] EXCEPT !.at = at]
           b == [task[t] EXCEPT !.at = at, !.registered = r]
<1>2. a \in TaskType /\ a.at = at /\ b \in TaskType /\ b.at = at
  BY <1>1 DEF TaskType, Running
<1>3. \/ task' = [task EXCEPT ![t] = NoTask] \/ task' = [task EXCEPT ![t] = a]
      \/ task' = [task EXCEPT ![t] = b]
  BY <1>1
<1> HIDE DEF a, b
<1> QED
  BY <1>1, <1>2, <1>3, NoTaskType

LEMMA LeadEndsInv ==
  ASSUME UpdateInv, NEW t \in Task, LeadEnds(t)
  PROVE  UpdateInv'
<1>1. /\ UNCHANGED <<token, cli, stamp, product, lost, held, crossed, overtaken, faults>>
      /\ task[t].at = "lead" /\ StaticInv /\ t[1] \in Updater /\ (TRUE) \in BOOLEAN
  BY TaskPair DEF LeadEnds, observers, UpdateInv
<1>2. PICK at \in {"delete", "poll"} : task' = [task EXCEPT ![t].at = at]
  BY DEF LeadEnds, At
<1>3. TokenMoves(t[1]) /\ ObserversMove /\ product' \in [up : BOOLEAN, version : Nat]
  BY <1>1, Unmoved DEF NoFault
<1> QED
  BY <1>1, <1>2, <1>3, AtFacts, ScriptInv DEF LeadEnds

LEMMA RelaunchInv ==
  ASSUME UpdateInv, NEW t \in Task, Relaunch(t)
  PROVE  UpdateInv'
<1>1. /\ UNCHANGED <<token, cli, install, stamp, lost, held, crossed, overtaken, faults>>
      /\ task[t].at = "poll" /\ (Ready(t) \/ task[t].polled = Poll)
      /\ task' = [task EXCEPT ![t].at = "delete"]
      /\ StaticInv /\ t[1] \in Updater /\ (TRUE) \in BOOLEAN
  BY TaskPair DEF Relaunch, At, observers, UpdateInv
<1>2. product' \in [up : BOOLEAN, version : Nat] /\ product'.version = product.version
  <2>1. product \in [up : BOOLEAN, version : Nat]
    BY <1>1 DEF StaticInv
  <2> QED
    BY <2>1 DEF Relaunch
<1>3. TokenMoves(t[1]) /\ ObserversMove
  BY <1>1, Unmoved DEF NoFault
<1> QED
  BY <1>1, <1>2, <1>3, AtFacts, ScriptInv

LEMMA DeleteSelfInv ==
  ASSUME UpdateInv, NEW t \in Task, DeleteSelf(t)
  PROVE  UpdateInv'
<1>1. /\ UNCHANGED <<token, cli, install, stamp, product, lost, held, crossed, overtaken, faults>>
      /\ task[t].at = "delete"
      /\ task' = [task EXCEPT ![t].at = "findstr", ![t].registered = FALSE]
      /\ StaticInv /\ t[1] \in Updater /\ (FALSE) \in BOOLEAN
  BY TaskPair DEF DeleteSelf, observers, UpdateInv
<1>2. TokenMoves(t[1]) /\ ObserversMove /\ product' \in [up : BOOLEAN, version : Nat]
  BY <1>1, Unmoved DEF NoFault
<1> QED
  BY <1>1, <1>2, AtFacts, ScriptInv

LEMMA FindstrInv ==
  ASSUME UpdateInv, NEW t \in Task, Findstr(t)
  PROVE  UpdateInv'
<1>1. /\ UNCHANGED <<token, cli, install, stamp, product, lost, held, crossed, overtaken, faults>>
      /\ task[t].at = "findstr"
      /\ task' = [task EXCEPT ![t] = NoTask] \/ task' = [task EXCEPT ![t].at = "del"]
      /\ StaticInv /\ t[1] \in Updater /\ (FALSE) \in BOOLEAN
  BY TaskPair DEF Findstr, At, observers, UpdateInv
<1>2. TokenMoves(t[1]) /\ ObserversMove /\ product' \in [up : BOOLEAN, version : Nat]
  BY <1>1, Unmoved DEF NoFault
<1> QED
  BY <1>1, <1>2, AtFacts, ScriptInv

\* del takes a token of another only with the observer's note.
LEMMA DelInv ==
  ASSUME UpdateInv, NEW t \in Task, Del(t)
  PROVE  UpdateInv'
<1>1. /\ UNCHANGED <<cli, install, stamp, product, held, crossed, overtaken, faults>>
      /\ task[t].at = "del" /\ task' = [task EXCEPT ![t] = NoTask] /\ token' = {}
      /\ lost' = (lost \/ \E k \in token : k.owner # t)
      /\ StaticInv /\ t[1] \in Updater /\ (FALSE) \in BOOLEAN
  BY TaskPair DEF Del, UpdateInv
<1>2. \A k \in token : k.owner # t => Excused'
  BY <1>1 DEF Excused
<1>3. TokenMoves(t[1])
  BY <1>1, <1>2 DEF TokenMoves, Single
<1>4. ObserversMove
  BY <1>1 DEF ObserversMove, StaticInv, Excused
<1>5. product' \in [up : BOOLEAN, version : Nat]
  BY <1>1 DEF StaticInv
<1> QED
  BY <1>1, <1>2, <1>3, <1>4, <1>5, AtFacts, ScriptInv

-----------------------------------------------------------------------------
(* The installer, the clock and the sweep.                                  *)

\* Tasks only end, installs only land, and no updater moves.
LEMMA SystemFits ==
  ASSUME UpdateInv, NEW v \in Updater, UNCHANGED <<cli, stamp, crossed>>,
         \A t \in Task : task'[t].at \in {task[t].at, "none"}
                           \/ (task[t].at # "none" /\ task'[t].at = "dead"),
         \A t \in Task : install'[t] = install[t]
                           \/ (install[t] = "closing" /\ install'[t] = "over"),
         ~Excused' => LeaseFits(v)' /\ GuardFits(v)' /\ LeadFits(v)'
  PROVE  Fits(v)'
<1>1. /\ Fits(v) /\ Mine(v)' = Mine(v) /\ Route(v)' = Route(v)
      /\ \A r \in Rung : <<v, r>> \in Task
      /\ Scheduled \subseteq Rung
  BY UpdaterFacts DEF Mine, Route, Task, Rung
<1>2. \A r \in Rung :
        /\ task'[<<v, r>>].at # "none" => task[<<v, r>>].at # "none"
        /\ task'[<<v, r>>].at = "waiting" => task[<<v, r>>].at = "waiting"
        /\ task'[<<v, r>>].at = "lead" => task[<<v, r>>].at = "lead"
        /\ install'[<<v, r>>] # "none" => install[<<v, r>>] # "none"
        /\ install[<<v, r>>] = "none" => install'[<<v, r>>] = "none"
        /\ install'[<<v, r>>] \in {"live", "closing"} => install[<<v, r>>] \in {"live", "closing"}
  BY <1>1
<1>3. InstallFits(v)'
  BY <1>1, <1>2 DEF Fits, InstallFits, Past
<1>4. TaskFits(v)'
  <2> SUFFICES ASSUME NEW r \in Scheduled, task'[<<v, r>>].at \in {"waiting", "lead"}
               PROVE  /\ Mine(v) = <<v, r>> /\ cli[v].pc \in Started \cup {"report", "done"}
                      /\ task'[<<v, r>>].at = "waiting" => install'[<<v, r>>] = "none"
    BY <1>1 DEF TaskFits
  <2>1. /\ task[<<v, r>>].at \in {"waiting", "lead"}
        /\ task'[<<v, r>>].at = "waiting" => task[<<v, r>>].at = "waiting"
        /\ install[<<v, r>>] = "none" => install'[<<v, r>>] = "none"
    BY <1>1, <1>2
  <2> QED
    BY <1>1, <2>1 DEF Fits, TaskFits
<1>5. ScriptFits(v)' /\ RouteFits(v)'
  BY <1>1, <1>2 DEF Fits, ScriptFits, RouteFits
<1>6. StampFits(v)'
  <2>1. Unstamped(v)' => Unstamped(v)
    BY <1>1 DEF Unstamped
  <2>2. Danger(v)' => Danger(v)
    BY <1>1, <1>2 DEF Danger, AtRisk
  <2> QED
    BY <1>1, <2>1, <2>2 DEF Fits, StampFits
<1>7. TokenFits(v)'
  BY DEF TokenFits
<1> QED
  BY <1>3, <1>4, <1>5, <1>6, <1>7 DEF Fits

LEMMA ForceCloseInv ==
  ASSUME UpdateInv, NEW t \in Task, ForceClose(t)
  PROVE  UpdateInv'
<1>1. /\ UNCHANGED <<token, task, stamp, lost, held, crossed, overtaken, faults>>
      /\ install[t] = "live" /\ install' = [install EXCEPT ![t] = "closing"]
      /\ product' = [product EXCEPT !.up = FALSE]
      /\ cli' = [u \in Updater |-> IF cli[u].pc = "start" THEN cli[u]
                                   ELSE [cli[u] EXCEPT !.pc = "done"]]
      /\ StaticInv /\ CliInv
  BY DEF ForceClose, observers, UpdateInv, StaticInv
<1>2. ASSUME NEW v \in Updater
      PROVE  /\ cli'[v] \in CliType /\ cli'[v].rung = cli[v].rung
             /\ cli'[v].stamped = cli[v].stamped
             /\ cli[v].pc = "start" => cli'[v].pc = "start"
             /\ cli[v].pc # "start" => cli'[v].pc = "done"
  <2>1. cli[v] \in CliType
    BY <1>1 DEF CliInv
  <2>2. cli'[v] = IF cli[v].pc = "start" THEN cli[v] ELSE [cli[v] EXCEPT !.pc = "done"]
    BY <1>1
  <2>3. CASE cli[v].pc = "start"
    BY <2>1, <2>2, <2>3
  <2>4. CASE cli[v].pc # "start"
    <3>1. cli'[v] = [cli[v] EXCEPT !.pc = "done"]
      BY <2>2, <2>4
    <3> QED
      BY <2>1, <2>4, <3>1 DEF CliType, PC
  <2> QED
    BY <2>3, <2>4
<1>3. CliInv'
  <2>1. \A v \in Updater : cli'[v] \in CliType
    BY <1>2
  <2>2. \A v \in Updater : cli'[v].rung \in 1..Len(LadderOf[v])
    BY <1>1, <1>2 DEF CliInv
  <2>3. cli' \in [Updater -> CliType]
    BY <1>1, <2>1
  <2> QED
    BY <2>2, <2>3 DEF CliInv
<1>4. /\ install' \in [Task -> {"none", "live", "closing", "over"}]
      /\ \A s \in Task : (install'[s] = "none" <=> install[s] = "none")
                         /\ (install[s] = "over" => install'[s] = "over")
                         /\ (install'[s] \in {"live", "closing"}
                               => install[s] \in {"live", "closing"})
  BY <1>1 DEF StaticInv
<1>5. product' \in [up : BOOLEAN, version : Nat] /\ product'.version = product.version
  BY <1>1 DEF StaticInv
<1>6. StaticInv'
  BY <1>1, <1>3, <1>4, <1>5 DEF StaticInv, Single, Leads
<1>7. Landed'
  BY <1>4, <1>5, LandedKept DEF UpdateInv
<1>8. ASSUME NEW v \in Updater PROVE Fits(v)'
  <2>1. /\ Fits(v) /\ Mine(v)' = Mine(v) /\ Route(v)' = Route(v)
        /\ \A r \in Rung : <<v, r>> \in Task
        /\ Scheduled \subseteq Rung
    BY <1>2, UpdaterFacts DEF Mine, Route, Task, Rung
  <2>2. InstallFits(v)'
    BY <1>2, <1>4, <2>1 DEF Fits, InstallFits, Past, Started
  <2>3. TaskFits(v)' /\ ScriptFits(v)' /\ RouteFits(v)'
    <3>1. TaskFits(v)'
      <4> SUFFICES ASSUME NEW r \in Scheduled, task[<<v, r>>].at \in {"waiting", "lead"}
                   PROVE  /\ Mine(v) = <<v, r>>
                          /\ cli'[v].pc \in Started \cup {"report", "done"}
                          /\ task[<<v, r>>].at = "waiting" => install'[<<v, r>>] = "none"
        BY <1>1, <2>1 DEF TaskFits
      <4>1. /\ Mine(v) = <<v, r>> /\ cli[v].pc \in Started \cup {"report", "done"}
            /\ task[<<v, r>>].at = "waiting" => install[<<v, r>>] = "none"
        BY <2>1 DEF Fits, TaskFits
      <4> QED
        BY <1>2, <1>4, <2>1, <4>1 DEF Started
    <3>2. ScriptFits(v)' /\ RouteFits(v)'
      BY <1>1, <1>2, <2>1 DEF Fits, ScriptFits, RouteFits, Begun, Started
    <3> QED
      BY <3>1, <3>2
  <2>4. StampFits(v)'
    <3>1. Unstamped(v)' => Unstamped(v)
      BY <1>2, <2>1 DEF Unstamped, Started
    <3>2. Danger(v)' => Danger(v)
      BY <1>1, <1>2, <1>4, <2>1 DEF Danger, AtRisk, Started
    <3> QED
      BY <1>1, <1>2, <2>1, <3>1, <3>2 DEF Fits, StampFits
  <2>5. TokenFits(v)'
    <3> SUFFICES ASSUME ~Excused' PROVE LeaseFits(v)' /\ GuardFits(v)' /\ LeadFits(v)'
      BY DEF TokenFits
    <3>1. LeadFits(v)
      BY <1>1, <2>1 DEF Fits, TokenFits, Excused
    <3>2. LeadFits(v)'
      BY <1>1, <3>1 DEF LeadFits
    <3>3. LeaseFits(v)' /\ GuardFits(v)'
      BY <1>2 DEF LeaseFits, GuardFits, Started
    <3> QED
      BY <3>2, <3>3
  <2> QED
    BY <2>2, <2>3, <2>4, <2>5 DEF Fits
<1> QED
  BY <1>6, <1>7, <1>8 DEF UpdateInv

LEMMA LandInv ==
  ASSUME UpdateInv, NEW t \in Task, Land(t)
  PROVE  UpdateInv'
<1>1. /\ UNCHANGED <<token, task, cli, stamp, lost, held, crossed, faults>>
      /\ install[t] = "closing" /\ install' = [install EXCEPT ![t] = "over"]
      /\ StaticInv /\ CliInv /\ Landed
  BY DEF Land, Over, UpdateInv, StaticInv
<1>2. \/ /\ product' = [product EXCEPT !.version = @ + 1]
         /\ overtaken' = (overtaken \/ \E u \in Updater : cli[u].pc \notin {"start", "done"})
      \/ UNCHANGED <<product, overtaken>>
  BY DEF Land
<1>3. /\ install' \in [Task -> {"none", "live", "closing", "over"}] /\ install'[t] = "over"
      /\ \A s \in Task : s # t => install'[s] = install[s]
  BY <1>1 DEF StaticInv
<1>4. /\ product' \in [up : BOOLEAN, version : Nat] /\ product.version \in Nat
      /\ product'.version \in {product.version, product.version + 1}
  BY <1>1, <1>2 DEF StaticInv
<1>5. overtaken' \in BOOLEAN /\ (Excused => Excused')
  BY <1>1, <1>2 DEF StaticInv, Excused
<1>6. StaticInv'
  BY <1>1, <1>3, <1>4, <1>5 DEF StaticInv, Single, Leads, CliInv
<1>7. Landed'
  <2>1. Overs' = Overs \cup {t} /\ t \notin Overs
    BY <1>1, <1>3 DEF Overs
  <2>2. Cardinality(Overs') = Cardinality(Overs) + 1
    BY <2>1, TasksCounted, FS_AddElement
  <2> QED
    BY <1>1, <1>4, <2>2, TasksCounted DEF Landed
<1>8. ASSUME NEW v \in Updater PROVE Fits(v)'
  <2>1. Fits(v) /\ Mine(v)' = Mine(v) /\ Route(v)' = Route(v)
    BY <1>1, UpdaterFacts DEF Mine, Route
  <2>2. ASSUME ~Excused' PROVE LeaseFits(v)' /\ GuardFits(v)' /\ LeadFits(v)'
    <3>1. LeaseFits(v) /\ GuardFits(v) /\ LeadFits(v)
      BY <1>5, <2>1, <2>2 DEF Fits, TokenFits
    <3>2. product'.version = product.version \/ cli[v].pc \in {"start", "done"}
      BY <1>2, <2>2 DEF Excused
    <3>3. GuardFits(v)'
      BY <1>1, <2>1, <3>1, <3>2 DEF GuardFits, Started
    <3>4. LeaseFits(v)' /\ LeadFits(v)'
      BY <1>1, <2>1, <3>1 DEF LeaseFits, LeadFits
    <3> QED
      BY <3>3, <3>4
  <2> QED
    BY <1>1, <1>3, <2>2, SystemFits
<1> QED
  BY <1>6, <1>7, <1>8 DEF UpdateInv

LEMMA OlderType ==
  ASSUME NEW n \in 0..Old
  PROVE  Older(n) \in 0..Old /\ \A m \in Nat : n <= m => Older(n) <= m + 1
BY DEF Older, Old

\* A quarter of an hour on one task.
LEMMA AgedFacts ==
  ASSUME NEW r \in TaskType, r.at = "poll" => r.polled < Poll
  PROVE  /\ Aged(r) \in TaskType
         /\ Aged(r).at = r.at \/ (r.at # "none" /\ Aged(r).at = "dead")
         /\ Aged(r).registered = r.registered
         /\ Aged(r).at = "lead" => Aged(r).age = Older(r.age) /\ Aged(r).ran = r.ran + 1
<1> DEFINE s == [r EXCEPT !.age = Older(@)]
<1>1. r.age \in 0..Old /\ r.ran \in 0..Limit /\ r.polled \in 0..Poll
  BY DEF TaskType
<1>2. /\ s \in TaskType /\ s.age = Older(r.age) /\ s.at = r.at /\ s.ran = r.ran
      /\ s.polled = r.polled /\ s.registered = r.registered
  BY <1>1, OlderType DEF TaskType
<1>3. Aged(r) = IF r.at = "none" THEN r
                ELSE IF r.at \notin {"lead", "poll"} THEN s
                ELSE IF r.ran = Limit THEN [s EXCEPT !.at = "dead"]
                ELSE IF r.at = "lead" THEN [s EXCEPT !.ran = @ + 1]
                ELSE [s EXCEPT !.ran = @ + 1, !.polled = @ + 1]
  BY DEF Aged
<1> HIDE DEF s
<1>4. CASE r.at \notin {"lead", "poll"}
  BY <1>2, <1>3, <1>4
<1>5. CASE r.at \in {"lead", "poll"} /\ r.ran = Limit
  <2>1. Aged(r) = [s EXCEPT !.at = "dead"]
    BY <1>3, <1>5
  <2> QED
    BY <1>2, <1>5, <2>1 DEF TaskType
<1>6. CASE r.at = "lead" /\ r.ran # Limit
  <2>1. Aged(r) = [s EXCEPT !.ran = @ + 1]
    BY <1>3, <1>6
  <2>2. s.ran + 1 \in 0..Limit
    BY <1>1, <1>2, <1>6 DEF Limit
  <2> QED
    BY <1>2, <1>6, <2>1, <2>2 DEF TaskType
<1>7. CASE r.at = "poll" /\ r.ran # Limit
  <2>1. Aged(r) = [s EXCEPT !.ran = @ + 1, !.polled = @ + 1]
    BY <1>3, <1>7
  <2>2. s.ran + 1 \in 0..Limit /\ s.polled + 1 \in 0..Poll
    BY <1>1, <1>2, <1>7 DEF Limit, Poll
  <2> QED
    BY <1>2, <1>7, <2>1, <2>2 DEF TaskType
<1> QED
  BY <1>4, <1>5, <1>6, <1>7

\* Tokens that only age.
LEMMA AgedTokens ==
  ASSUME StaticInv, NEW f \in [0..Old -> 0..Old],
         token' = {[k EXCEPT !.age = f[@]] : k \in token}
  PROVE  /\ token' \in SUBSET TokenType /\ Single'
         /\ \A k \in token : \E j \in token' : j.owner = k.owner /\ j.age = f[k.age]
<1>1. \A k \in token : /\ [k EXCEPT !.age = f[@]] \in TokenType
                       /\ [k EXCEPT !.age = f[@]].owner = k.owner
                       /\ [k EXCEPT !.age = f[@]].age = f[k.age]
  BY DEF StaticInv, TokenType
<1>2. token' \in SUBSET TokenType
  BY <1>1
<1>3. Single'
  <2>1. CASE token = {}
    <3>1. token' = {}
      BY <2>1
    <3> QED
      BY <3>1 DEF Single
  <2>2. CASE \E k \in token : token = {k}
    <3>1. PICK k \in token : token = {k}
      BY <2>2
    <3>2. token' = {[k EXCEPT !.age = f[@]]}
      BY <3>1
    <3> QED
      BY <3>2 DEF Single
  <2> QED
    BY <2>1, <2>2 DEF StaticInv, Single
<1> QED
  BY <1>1, <1>2, <1>3

LEMMA TickInv ==
  ASSUME UpdateInv, Tick
  PROVE  UpdateInv'
<1>1. /\ UNCHANGED <<cli, install, stamp, product, lost, held, crossed, overtaken, faults>>
      /\ Settled /\ StaticInv /\ Landed /\ CliInv
      /\ token' = {[k EXCEPT !.age = Older(@)] : k \in token}
      /\ task' = [t \in Task |-> Aged(task[t])]
  BY DEF Tick, observers, UpdateInv, StaticInv
<1>2. ASSUME NEW t \in Task
      PROVE  /\ task'[t] \in TaskType
             /\ task'[t].at = task[t].at \/ (task[t].at # "none" /\ task'[t].at = "dead")
             /\ task'[t].registered = task[t].registered
             /\ task'[t].at = "lead" => /\ task'[t].age = Older(task[t].age)
                                        /\ task'[t].ran = task[t].ran + 1
  <2>1. task[t] \in TaskType /\ task'[t] = Aged(task[t])
    BY <1>1 DEF StaticInv
  <2>2. task[t].at = "poll" => task[t].polled < Poll
    BY <1>1 DEF Settled
  <2> QED
    BY <2>1, <2>2, AgedFacts
<1> DEFINE f == [n \in 0..Old |-> Older(n)]
<1>3. f \in [0..Old -> 0..Old] /\ \A n \in 0..Old : f[n] = Older(n)
  BY OlderType
<1>4. token' = {[k EXCEPT !.age = f[@]] : k \in token}
  <2>1. \A k \in token : f[k.age] = Older(k.age)
    BY <1>1, <1>3 DEF StaticInv, TokenType
  <2> QED
    BY <1>1, <2>1
<1> HIDE DEF f
<1>5. /\ token' \in SUBSET TokenType /\ Single'
      /\ \A k \in token : \E j \in token' : j.owner = k.owner /\ j.age = f[k.age]
  BY <1>1, <1>3, <1>4, AgedTokens
<1>6. StaticInv'
  <2>1. task' \in [Task -> TaskType]
    BY <1>1, <1>2
  <2>2. Leads'
    BY <1>1, <1>2 DEF StaticInv, Leads
  <2> QED
    BY <1>1, <1>5, <2>1, <2>2 DEF StaticInv, CliInv
<1>7. Landed'
  BY <1>1, LandedKept
<1>8. ASSUME NEW v \in Updater PROVE Fits(v)'
  <2>1. Fits(v) /\ cli[v].pc \in {"start", "done"} /\ \A r \in Rung : <<v, r>> \in Task
    BY <1>1, UpdaterFacts DEF Settled, Task
  <2>2. LeaseFits(v)' /\ GuardFits(v)'
    BY <1>1, <2>1 DEF LeaseFits, GuardFits, Started
  <2>3. ASSUME ~Excused' PROVE LeadFits(v)'
    <3> SUFFICES ASSUME NEW r \in Scheduled, task'[<<v, r>>].at \in {"waiting", "lead"}
                 PROVE  /\ task'[<<v, r>>].registered
                        /\ task'[<<v, r>>].age <= task'[<<v, r>>].ran
                        /\ \E j \in token' : j.owner = <<v, r>> /\ j.age <= task'[<<v, r>>].ran
      BY DEF LeadFits
    <3> DEFINE t == <<v, r>>
    <3>1. t \in Task
      BY <2>1 DEF Rung
    <3> HIDE DEF t
    <3>2. task[t].at # "waiting"
      BY <1>1, <3>1 DEF Settled
    <3>3. task'[t].at = "lead" /\ task[t].at = "lead"
      BY <1>2, <3>1, <3>2 DEF t
    <3>4. /\ task[t].registered /\ task[t].age <= task[t].ran
          /\ \E k \in token : k.owner = t /\ k.age <= task[t].ran
      BY <1>1, <2>1, <2>3, <3>3 DEF Fits, TokenFits, Excused, LeadFits, t
    <3>5. PICK k \in token : k.owner = t /\ k.age <= task[t].ran
      BY <3>4
    <3>6. /\ k.age \in 0..Old /\ task[t].age \in 0..Old /\ task[t].ran \in Nat
      BY <1>1, <3>1 DEF StaticInv, TokenType, TaskType, Limit
    <3>7. PICK j \in token' : j.owner = t /\ j.age = Older(k.age)
      BY <1>3, <1>5, <3>5, <3>6
    <3>8. Older(task[t].age) <= task[t].ran + 1 /\ Older(k.age) <= task[t].ran + 1
      BY <3>4, <3>5, <3>6, OlderType
    <3> QED
      BY <1>2, <3>1, <3>3, <3>4, <3>7, <3>8 DEF t
  <2> QED
    BY <1>1, <1>2, <2>2, <2>3, SystemFits
<1> QED
  BY <1>6, <1>7, <1>8 DEF UpdateInv

LEMMA HoldBackInv ==
  ASSUME UpdateInv, HoldBack
  PROVE  UpdateInv'
<1>1. /\ UNCHANGED <<cli, install, stamp, product, lost, crossed, overtaken>>
      /\ Fault /\ held' = TRUE /\ StaticInv /\ Landed /\ CliInv
      /\ token' = {[k EXCEPT !.age = Old] : k \in token}
      /\ task' = [t \in Task |-> IF task[t].at = "none" THEN task[t]
                                 ELSE [task[t] EXCEPT !.age = Old]]
  BY DEF HoldBack, UpdateInv, StaticInv
<1>2. ASSUME NEW t \in Task
      PROVE  task'[t] \in TaskType /\ task'[t].at = task[t].at
  <2>1. task[t] \in TaskType
    BY <1>1 DEF StaticInv
  <2>2. task'[t] = task[t] \/ task'[t] = [task[t] EXCEPT !.age = Old]
    BY <1>1
  <2> QED
    BY <2>1, <2>2 DEF TaskType, Old
<1> DEFINE f == [n \in 0..Old |-> Old]
<1>3. f \in [0..Old -> 0..Old] /\ \A n \in 0..Old : f[n] = Old
  BY DEF Old
<1>4. token' = {[k EXCEPT !.age = f[@]] : k \in token}
  <2>1. \A k \in token : f[k.age] = Old
    BY <1>1, <1>3 DEF StaticInv, TokenType
  <2> QED
    BY <1>1, <2>1
<1> HIDE DEF f
<1>5. token' \in SUBSET TokenType /\ Single'
  BY <1>1, <1>3, <1>4, AgedTokens
<1>6. StaticInv'
  <2>1. task' \in [Task -> TaskType]
    BY <1>1, <1>2
  <2>2. Leads'
    BY <1>1, <1>2 DEF StaticInv, Leads
  <2>3. held' \in BOOLEAN /\ faults' \in 0..MaxFaults
    BY <1>1, FaultType
  <2> QED
    BY <1>1, <1>5, <2>1, <2>2, <2>3 DEF StaticInv, CliInv
<1>7. Landed'
  BY <1>1, LandedKept
<1>8. \A v \in Updater : Fits(v)'
  BY <1>1, <1>2, SystemFits DEF Excused
<1> QED
  BY <1>6, <1>7, <1>8 DEF UpdateInv

LEMMA GcInv ==
  ASSUME UpdateInv, Gc
  PROVE  UpdateInv'
<1>1. /\ UNCHANGED <<cli, install, stamp, product, lost, held, crossed, overtaken>>
      /\ (Fault \/ NoFault) /\ StaticInv /\ Landed /\ CliInv
      /\ task' = [t \in Task |-> IF Stale(t) THEN NoTask ELSE task[t]]
  BY DEF Gc, UpdateInv, StaticInv
<1>2. /\ token' \subseteq token
      /\ \A k \in token : ~Reclaimable(k)
                          /\ ~(~k.pending /\ k.owner \in Task /\ Stale(k.owner)) => k \in token'
  BY DEF Gc
<1>3. ASSUME NEW t \in Task
      PROVE  /\ task'[t] \in TaskType /\ task'[t].at \in {task[t].at, "none"}
             /\ ~Stale(t) => task'[t] = task[t]
             /\ task'[t].at # "none" => ~Stale(t)
  BY <1>1, NoTaskType DEF StaticInv
<1>4. StaticInv'
  <2>1. task' \in [Task -> TaskType]
    BY <1>1, <1>3
  <2>2. Leads'
    BY <1>1, <1>3 DEF StaticInv, Leads
  <2>3. token' \in SUBSET TokenType /\ Single'
    BY <1>1, <1>2 DEF StaticInv, Single
  <2> QED
    BY <1>1, <2>1, <2>2, <2>3, FaultType DEF StaticInv, CliInv
<1>5. Landed'
  BY <1>1, LandedKept
<1>6. ASSUME NEW v \in Updater PROVE Fits(v)'
  <2>1. /\ Fits(v) /\ Mine(v)' = Mine(v) /\ Route(v)' = Route(v) /\ Mine(v) \in Task
        /\ \A r \in Rung : <<v, r>> \in Task
    BY <1>1, UpdaterFacts DEF Mine, Route, Task
  <2>2. ASSUME ~Excused' PROVE LeaseFits(v)' /\ GuardFits(v)' /\ LeadFits(v)'
    <3>1. LeaseFits(v) /\ GuardFits(v) /\ LeadFits(v)
      BY <1>1, <2>1, <2>2 DEF Fits, TokenFits, Excused
    <3>2. LeaseFits(v)'
      <4> SUFFICES ASSUME cli[v].pc = "create"
                   PROVE  \E k \in token' : k.owner = Mine(v) /\ k.pending /\ k.age = 0
        BY <1>1, <2>1 DEF LeaseFits
      <4>1. PICK k \in token : k.owner = Mine(v) /\ k.pending /\ k.age = 0
        BY <3>1 DEF LeaseFits
      <4>2. ~Reclaimable(k)
        BY <4>1 DEF Reclaimable, Orphaned, Old
      <4> QED
        BY <1>2, <4>1, <4>2
    <3>3. GuardFits(v)'
      <4> SUFFICES ASSUME v \notin Quiet, Route(v) \in InProcess,
                          cli[v].pc \in Started \cup {"install", "call", "watch"}
                   PROVE  /\ \E k \in token' : k.owner = Mine(v) /\ k.age = 0
                          /\ task'[Mine(v)] = task[Mine(v)]
        BY <1>1, <2>1, <3>1 DEF GuardFits
      <4>1. PICK k \in token : k.owner = Mine(v) /\ k.age = 0
        BY <3>1 DEF GuardFits
      <4>2. task[Mine(v)].registered /\ task[Mine(v)].age = 0
        BY <3>1 DEF GuardFits
      <4>3. ~Reclaimable(k) /\ ~Stale(Mine(v))
        BY <4>1, <4>2 DEF Reclaimable, Orphaned, Stale, Old
      <4> QED
        BY <1>2, <1>3, <2>1, <4>1, <4>3
    <3>4. LeadFits(v)'
      <4> SUFFICES ASSUME NEW r \in Scheduled, task'[<<v, r>>].at \in {"waiting", "lead"}
                   PROVE  /\ task'[<<v, r>>].registered
                          /\ task'[<<v, r>>].age <= task'[<<v, r>>].ran
                          /\ \E j \in token' : j.owner = <<v, r>> /\ j.age <= task'[<<v, r>>].ran
        BY DEF LeadFits
      <4>1. <<v, r>> \in Task
        BY <2>1 DEF Rung
      <4>2. ~Stale(<<v, r>>) /\ task'[<<v, r>>] = task[<<v, r>>]
        BY <1>3, <4>1
      <4>3. /\ task[<<v, r>>].registered /\ task[<<v, r>>].age <= task[<<v, r>>].ran
            /\ \E k \in token : k.owner = <<v, r>> /\ k.age <= task[<<v, r>>].ran
        BY <3>1, <4>2 DEF LeadFits
      <4>4. PICK k \in token : k.owner = <<v, r>> /\ k.age <= task[<<v, r>>].ran
        BY <4>3
      <4>5. k.age \in 0..Old /\ task[<<v, r>>].ran \in 0..Limit
        BY <1>1, <4>1 DEF StaticInv, TokenType, TaskType
      <4>6. ~Reclaimable(k)
        BY <4>3, <4>4, <4>5 DEF Reclaimable, Orphaned, Old, Limit
      <4> QED
        BY <1>2, <4>2, <4>3, <4>4, <4>6
    <3> QED
      BY <3>2, <3>3, <3>4
  <2> QED
    BY <1>1, <1>3, <2>2, SystemFits
<1> QED
  BY <1>4, <1>5, <1>6 DEF UpdateInv

LEMMA StutterInv ==
  ASSUME UpdateInv, UNCHANGED vars
  PROVE  UpdateInv'
<1>1. UNCHANGED <<token, task, cli, install, stamp, product,
                  lost, held, crossed, overtaken, faults>>
  BY DEF vars, observers
<1>2. StaticInv' /\ Landed'
  BY <1>1 DEF UpdateInv, StaticInv, Landed, Overs, Single, Leads, CliInv
<1>3. \A v \in Updater : LeaseFits(v)' <=> LeaseFits(v)
  BY <1>1 DEF LeaseFits, Mine
<1>4. \A v \in Updater : GuardFits(v)' <=> GuardFits(v)
  BY <1>1 DEF GuardFits, Mine, Route
<1>5. \A v \in Updater : LeadFits(v)' <=> LeadFits(v)
  BY <1>1 DEF LeadFits
<1>6. Excused' <=> Excused
  BY <1>1 DEF Excused
<1>7. \A v \in Updater : Fits(v)'
  <2> SUFFICES ASSUME NEW v \in Updater PROVE Fits(v)'
    OBVIOUS
  <2>1. ~Excused' => LeaseFits(v)' /\ GuardFits(v)' /\ LeadFits(v)'
    BY <1>3, <1>4, <1>5, <1>6 DEF UpdateInv, Fits, TokenFits
  <2> QED
    BY <1>1, <2>1, SystemFits
<1> QED
  BY <1>2, <1>7 DEF UpdateInv

-----------------------------------------------------------------------------
(* The theorems.                                                            *)

LEMMA InitInv ==
  ASSUME Init PROVE UpdateInv
<1>1. /\ token = {} /\ task = [t \in Task |-> NoTask] /\ install = [t \in Task |-> "none"]
      /\ stamp = NoStamp /\ product = [up |-> TRUE, version |-> 0]
      /\ lost = FALSE /\ held = FALSE /\ crossed = FALSE /\ overtaken = FALSE
      /\ faults = 0
  BY DEF Init
<1>2. ASSUME NEW u \in Updater
      PROVE  /\ cli[u] \in CliType /\ cli[u].rung = 1 /\ cli[u].pc = "start"
             /\ ~cli[u].stamped
  BY DEF Init, CliType, PC
<1>3. CliInv
  <2>1. cli \in [Updater -> CliType]
    <3>1. cli = [u \in Updater |-> cli[u]]
      BY DEF Init
    <3> QED
      BY <1>2, <3>1
  <2>2. \A u \in Updater : Len(LadderOf[u]) \in Nat /\ Len(LadderOf[u]) >= 1
    <3> SUFFICES ASSUME NEW u \in Updater
                 PROVE  Len(LadderOf[u]) \in Nat /\ Len(LadderOf[u]) >= 1
      OBVIOUS
    <3>1. LadderOf[u] \in Seq(Rung) /\ LadderOf[u] # <<>>
      BY AttemptAssumption
    <3> QED
      BY <3>1
  <2> QED
    BY <1>2, <2>1, <2>2 DEF CliInv
<1>4. task \in [Task -> TaskType] /\ \A t \in Task : task[t].at = "none"
  BY <1>1, NoTaskType
<1>5. Landed
  BY <1>1, TasksCounted DEF Landed
<1>6. StaticInv
  <2>1. faults \in 0..MaxFaults
    BY <1>1, AttemptAssumption
  <2>2. token \in SUBSET TokenType /\ Single
    BY <1>1 DEF Single
  <2>3. install \in [Task -> {"none", "live", "closing", "over"}]
    BY <1>1
  <2>4. Leads
    BY <1>4 DEF Leads
  <2>5. product \in [up : BOOLEAN, version : Nat] /\ stamp \in Updater \cup {NoStamp}
    BY <1>1
  <2>6. lost \in BOOLEAN /\ held \in BOOLEAN /\ crossed \in BOOLEAN /\ overtaken \in BOOLEAN
    BY <1>1
  <2> QED
    BY <1>3, <1>4, <2>1, <2>2, <2>3, <2>4, <2>5, <2>6 DEF StaticInv
<1>7. ASSUME NEW u \in Updater PROVE Fits(u)
  <2>1. \A r \in Rung : task[<<u, r>>].at = "none" /\ install[<<u, r>>] = "none"
    BY <1>1, <1>4 DEF Task
  <2>2. Scheduled \subseteq Rung
    BY DEF Rung
  <2>3. InstallFits(u) /\ TaskFits(u) /\ ScriptFits(u) /\ RouteFits(u)
    BY <1>2, <2>1, <2>2 DEF InstallFits, TaskFits, ScriptFits, RouteFits
  <2>4. StampFits(u)
    BY <1>2, <2>1, <2>2 DEF StampFits, Danger, AtRisk, Started
  <2>5. TokenFits(u)
    BY <1>2, <2>1, <2>2 DEF TokenFits, LeaseFits, GuardFits, LeadFits, Started
  <2> QED
    BY <2>3, <2>4, <2>5 DEF Fits
<1> QED
  BY <1>5, <1>6, <1>7 DEF UpdateInv

LEMMA NextInv ==
  ASSUME UpdateInv, [Next]_vars PROVE UpdateInv'
<1>1. CASE \E u \in Updater : Start(u) \/ Step(u) \/ Unavailable(u) \/ Kill(u)
  <2>1. PICK u \in Updater : Start(u) \/ Step(u) \/ Unavailable(u) \/ Kill(u)
    BY <1>1
  <2>2. CASE Step(u)
    BY <2>2, AcquireInv, ReleaseInv, LeaseInv, CreateInv, UnleaseInv, SettleInv, RunLeaseInv,
       RunInv, RunSettleInv, StampInv, PreflightInv, CallInv, WatchInv, EndTaskInv,
       UnstampInv, ReportInv DEF Step
  <2> QED
    BY <2>1, <2>2, StartInv, UnavailableInv, KillInv
<1>2. CASE \E t \in Task : Script(t) \/ ForceClose(t) \/ Land(t)
  BY <1>2, TriggerInv, LeadEndsInv, RelaunchInv, DeleteSelfInv, FindstrInv, DelInv,
     ForceCloseInv, LandInv DEF Script
<1>3. CASE Tick \/ HoldBack \/ Gc
  BY <1>3, TickInv, HoldBackInv, GcInv
<1>4. CASE UNCHANGED vars
  BY <1>4, StutterInv
<1> QED
  BY <1>1, <1>2, <1>3, <1>4 DEF Next

\* UpdateInv holds in every reachable state, whatever calls fail, whoever is
\* killed and however many updaters run.
THEOREM Invariance == Spec => []UpdateInv
<1>1. Init => UpdateInv
  BY InitInv
<1>2. UpdateInv /\ [Next]_vars => UpdateInv'
  BY NextInv
<1> QED
  BY <1>1, <1>2, PTL DEF Spec

\* The lock file holds at most one token and every record its type; no more
\* versions land than there are attempts.
THEOREM TypeCorrect == Spec => []TypeOK
<1>1. UpdateInv => TypeOK
  <2> SUFFICES ASSUME UpdateInv PROVE TypeOK
    OBVIOUS
  <2>1. Cardinality(token) <= 1
    <3>1. token = {} \/ \E k : token = {k}
      BY DEF UpdateInv, StaticInv, Single
    <3> QED
      BY <3>1, AtMostOne
  <2>2. product \in [up : BOOLEAN, version : 0..Cardinality(Task)]
    BY VersionBound DEF UpdateInv, StaticInv
  <2> QED
    BY <2>1, <2>2 DEF UpdateInv, StaticInv, CliInv, TypeOK
<1> QED
  BY <1>1, Invariance, PTL

\* At most one attempt may install at a time (relaunch.rs, AttemptLock), unless
\* a script deleted another's token, a task was held back for hours, or an
\* older install landed beside the attempt.
THEOREM AtMostOneInstalls == Spec => []Exclusive
<1>1. UpdateInv => Exclusive
  <2> SUFFICES ASSUME UpdateInv, ~Excused
               PROVE  Cardinality({t \in Task : Licensed(t)}) <= 1
    BY DEF Exclusive, Excused
  <2>1. ASSUME NEW t \in Task, Licensed(t) PROVE \E k \in token : k.owner = t
    <3>1. /\ t[1] \in Updater /\ t[2] \in Rung /\ t = <<t[1], t[2]>>
          /\ (t[2] \notin InProcess => t[2] \in Scheduled)
      BY TaskPair DEF Rung
    <3>2. GuardFits(t[1]) /\ LeadFits(t[1]) /\ Mine(t[1])[2] = Route(t[1])
      BY <3>1 DEF UpdateInv, Fits, TokenFits, Route
    <3>3. CASE t[2] \in InProcess
      BY <2>1, <3>2, <3>3 DEF Licensed, GuardFits
    <3>4. CASE t[2] \notin InProcess
      BY <2>1, <3>1, <3>2, <3>4 DEF Licensed, LeadFits
    <3> QED
      BY <3>3, <3>4
  <2>2. \A s, t \in {x \in Task : Licensed(x)} : s = t
    BY <2>1 DEF UpdateInv, StaticInv, Single
  <2>3. {x \in Task : Licensed(x)} = {} \/ \E t : {x \in Task : Licensed(x)} = {t}
    BY <2>2
  <2> QED
    BY <2>3, AtMostOne
<1> QED
  BY <1>1, Invariance, PTL

\* While an install of an offer the Store did not name may land its stamp is
\* kept (mod.rs, StoreAttempt), unless the stamps of two updaters crossed.
THEOREM StampIsKept == Spec => []StampKept
<1>1. UpdateInv => StampKept
  <2> SUFFICES ASSUME UpdateInv, NEW t \in Task, Uncertain(t)
               PROVE  stamp # NoStamp \/ crossed
    BY DEF StampKept
  <2>1. t[1] \in Updater /\ t[2] \in Rung /\ t = <<t[1], t[2]>>
    BY TaskPair
  <2>2. Danger(t[1]) /\ t[1] \in Unnamed
    BY <2>1 DEF Uncertain, Danger
  <2> QED
    BY <2>1, <2>2 DEF UpdateInv, Fits, StampFits
<1> QED
  BY <1>1, Invariance, PTL
=============================================================================
