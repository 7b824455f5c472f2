---------------------------- MODULE UpdateAttempt -----------------------------
(***************************************************************************)
(* One install attempt of fwdslash update and everything that may run       *)
(* beside it: the ladder of routes (crates/fsw-cli/src/update/mod.rs), the  *)
(* attempt token and the scheduled task that owns it (relaunch.rs,          *)
(* scheduled_task.rs), the task's script, the sweep of leftovers (gc.rs),   *)
(* and the window that closed the broker to make room                       *)
(* (crates/fsw-settings/src/main.rs).  Time passes in quarters of an hour.  *)
(***************************************************************************)
EXTENDS Naturals, Sequences, FiniteSets

CONSTANTS
  Updater,    \* processes running fwdslash update install
  LadderOf,   \* the routes each of them tries, in order
  Quiet,      \* those run with --relaunch none
  Unnamed,    \* those installing an offer the Store did not name
  FromWindow, \* those the settings window runs; the broker runs the others
  Nobody,     \* the owner an empty token file names
  NoStamp,    \* no StoreUpdateAttempt value
  LeadTicks,  \* bound: quarters the lead command of a script may take
  MaxFaults   \* bound: calls that fail or time out, kills, tasks held back

\* The helper of phase 1b is the rung a declined appinstall falls to.
InProcess == {"store", "appinstall"}
Scheduled == {"winget", "helper", "bundle"}
Rung == InProcess \cup Scheduled
Task == Updater \X Rung

ASSUME AttemptAssumption ==
  /\ IsFiniteSet(Updater)
  /\ Quiet \subseteq Updater /\ Unnamed \subseteq Updater /\ FromWindow \subseteq Updater
  /\ LadderOf \in [Updater -> Seq(Rung)] /\ \A u \in Updater : LadderOf[u] # <<>>
  /\ Nobody \notin Task /\ NoStamp \notin Updater
  /\ LeadTicks \in Nat /\ MaxFaults \in Nat

VARIABLES
  token,    \* the attempt lock file, a set of at most one token
  task,     \* every task: its definition, and where its script is
  cli,      \* every updater
  install,  \* what the Store or the deployment does for an attempt
  stamp,    \* StoreUpdateAttempt
  product,  \* the installed version, and whether the broker is resident
  \* Observers.
  lost,     \* a script deleted a token it did not own
  held,     \* the scheduler held a task back: sleep, or battery
  crossed,  \* a refused updater restored a stamp another had written since
  overtaken, \* an install landed beside an updater started since it closed the rest
  faults

observers == <<lost, held, crossed, overtaken, faults>>
vars == <<token, task, cli, install, stamp, product, observers>>

-----------------------------------------------------------------------------
\* Quarters of an hour: WATCHDOG_MINUTES, ExecutionTimeLimit, and the 65 and
\* 70 minutes after which a token and a task are leftovers.
Poll == 3
Limit == 4
Old == 5

PC == {"start", "acquire", "stamp", "lease", "create", "settle", "unlease",
       "runlease", "run", "runsettle", "install", "call", "watch",
       "endtask", "release", "unstamp", "report", "done"}
Running == {"lead", "poll", "delete", "findstr", "del"}

TokenType == [owner : Task \cup {Nobody}, pending : BOOLEAN, age : 0..Old]
TaskType == [registered : BOOLEAN, at : {"none", "waiting", "dead"} \cup Running,
             base : 0..Cardinality(Task), age : 0..Old, ran : 0..Limit, polled : 0..Poll]
NoTask == [registered |-> FALSE, at |-> "none", base |-> 0,
           age |-> 0, ran |-> 0, polled |-> 0]
CliType == [pc : PC, rung : Nat, stamped : BOOLEAN, previous : Updater \cup {NoStamp},
            after : {"unstamp", "report"}, code : {"ok", "queued", "other"},
            resident : BOOLEAN]

Fault == faults < MaxFaults /\ faults' = faults + 1
NoFault == UNCHANGED faults

Mine(u)    == <<u, LadderOf[u][cli[u].rung]>>
Route(u)   == Mine(u)[2]
Goes(u, pc) == cli' = [cli EXCEPT ![u].pc = pc]
Reports(u, code) == cli' = [cli EXCEPT ![u].pc = "report", ![u].code = code]
Backs(u, pc, after) == cli' = [cli EXCEPT ![u].pc = pc, ![u].after = after]

-----------------------------------------------------------------------------
(* AttemptLock: every decision about the file under one mutex, whose wait   *)
(* may time out.                                                            *)

\* For a mutant: the lease is not asked.
OrphanedUnasked(k) == k.owner \in Task /\ ~task[k.owner].registered
Orphaned(k) == ~k.pending /\ k.owner \in Task /\ ~task[k.owner].registered
Reclaimable(k) == k.age = Old \/ Orphaned(k)
Owns(t) == \E k \in token : k.owner = t
Token(t, pending) == {[owner |-> t, pending |-> pending, age |-> 0]}

\* set_pending by the owner; not by an updater whose token was reclaimed.
SetPending(u, pending) == Owns(Mine(u)) /\ token' = Token(Mine(u), pending) /\ NoFault
SetPendingFails(u) == ((~Owns(Mine(u)) /\ NoFault) \/ Fault) /\ UNCHANGED token

Acquire(u) ==
  /\ cli[u].pc = "acquire"
  /\ \/ /\ \A k \in token : Reclaimable(k)
        /\ token' = Token(Mine(u), FALSE) /\ NoFault
        /\ Goes(u, IF Route(u) \in InProcess THEN "lease" ELSE "stamp")
     \/ /\ \/ (\E k \in token : ~Reclaimable(k)) /\ NoFault
           \/ Fault
        /\ IF Route(u) \in InProcess THEN Reports(u, "other") ELSE Goes(u, "unstamp")
        /\ UNCHANGED token
  /\ UNCHANGED <<task, install, stamp, product, lost, held, crossed, overtaken>>

Release(u) ==
  /\ cli[u].pc = "release"
  /\ \/ token' = {k \in token : k.owner # Mine(u)} /\ NoFault
     \/ Fault /\ UNCHANGED token
  /\ Goes(u, cli[u].after)
  /\ UNCHANGED <<task, install, stamp, product, lost, held, crossed, overtaken>>

-----------------------------------------------------------------------------
(* register_and_run_with_lease and register_after_with_lease.               *)

\* What an updater that could not start its task does next.
NotStarted(u) == Backs(u, "release", IF Route(u) \in InProcess THEN "report" ELSE "unstamp")
\* Nobody knows whether the task runs: the token stays with it.
InDoubt(u) == Reports(u, IF Route(u) \in InProcess THEN "other" ELSE "ok")

Registered(t) ==
  task' = [task EXCEPT ![t] = [NoTask EXCEPT !.registered = TRUE, !.at = "waiting",
                                             !.base = product.version]]

\* A script starts: its lead command, or the wait for a newer version.
Begins(t) ==
  /\ task' = [task EXCEPT ![t].at = IF t[2] \in Scheduled THEN "lead" ELSE "poll"]
  /\ install' = IF t[2] \in Scheduled THEN [install EXCEPT ![t] = "live"] ELSE install

Lease(u) ==
  /\ cli[u].pc = "lease"
  /\ \/ SetPending(u, TRUE) /\ Goes(u, "create")
     \/ SetPendingFails(u) /\ NotStarted(u)
  /\ UNCHANGED <<task, install, stamp, product, lost, held, crossed, overtaken>>

Create(u) ==
  /\ cli[u].pc = "create"
  /\ \/ Registered(Mine(u)) /\ Goes(u, "settle") /\ NoFault
     \/ Fault /\ Goes(u, "unlease") /\ UNCHANGED task
     \/ Fault /\ InDoubt(u) /\ (Registered(Mine(u)) \/ UNCHANGED task)
  /\ UNCHANGED <<token, install, stamp, product, lost, held, crossed, overtaken>>

Unlease(u) ==
  /\ cli[u].pc = "unlease"
  /\ SetPending(u, FALSE) \/ SetPendingFails(u)
  /\ NotStarted(u)
  /\ UNCHANGED <<task, install, stamp, product, lost, held, crossed, overtaken>>

Settle(u) ==
  /\ cli[u].pc = "settle"
  /\ SetPending(u, FALSE) \/ SetPendingFails(u)
  /\ Goes(u, IF Route(u) = "appinstall" THEN "install" ELSE "runlease")
  /\ UNCHANGED <<task, install, stamp, product, lost, held, crossed, overtaken>>

RunLease(u) ==
  /\ cli[u].pc = "runlease"
  /\ \/ SetPending(u, TRUE) /\ Goes(u, "run")
     \/ SetPendingFails(u) /\ InDoubt(u)
  /\ UNCHANGED <<task, install, stamp, product, lost, held, crossed, overtaken>>

\* schtasks /run: nothing new when the trigger came first.
Starts(t) == IF task[t].at = "waiting" THEN Begins(t) ELSE UNCHANGED <<task, install>>

Run(u) ==
  /\ cli[u].pc = "run"
  /\ \/ task[Mine(u)].registered /\ Starts(Mine(u)) /\ Goes(u, "runsettle") /\ NoFault
     \/ ~task[Mine(u)].registered /\ InDoubt(u) /\ NoFault /\ UNCHANGED <<task, install>>
     \/ Fault /\ InDoubt(u) /\ (Starts(Mine(u)) \/ UNCHANGED <<task, install>>)
  /\ UNCHANGED <<token, stamp, product, lost, held, crossed, overtaken>>

RunSettle(u) ==
  /\ cli[u].pc = "runsettle"
  /\ SetPending(u, FALSE) \/ SetPendingFails(u)
  /\ IF Route(u) \in InProcess THEN Goes(u, "install") ELSE Reports(u, "ok")
  /\ UNCHANGED <<task, install, stamp, product, lost, held, crossed, overtaken>>

-----------------------------------------------------------------------------
(* The ladder of one updater.                                               *)

\* RelaunchMode::None: nothing to bring back, so no task and no token.
Entry(u, i) == IF u \in Quiet /\ LadderOf[u][i] \in InProcess THEN "install" ELSE "acquire"
Enters(u, i, c) == IF i <= Len(LadderOf[u])
                     THEN [c EXCEPT !.rung = i, !.pc = Entry(u, i)]
                     ELSE [c EXCEPT !.pc = "report"]
Declines(u) == cli' = [cli EXCEPT ![u] = Enters(u, @.rung + 1, @)]

\* An unnamed offer tried within the backoff is not tried again.
Start(u) ==
  /\ cli[u].pc = "start"
  /\ u \in FromWindow \/ product.up
  /\ LET c == [cli[u] EXCEPT !.previous = stamp, !.resident = product.up]
     IN cli' = [cli EXCEPT ![u] = IF u \in Unnamed /\ stamp # NoStamp
                                    THEN [c EXCEPT !.pc = "report"] ELSE Enters(u, 1, c)]
  /\ product' = [product EXCEPT !.up = @ /\ u \notin FromWindow]
  /\ UNCHANGED <<token, task, install, stamp, observers>>

\* No winget alias, no staged helper, a metered network.
Unavailable(u) ==
  /\ cli[u].pc = "acquire" /\ Route(u) \in Scheduled /\ Fault
  /\ Declines(u) \/ (Route(u) = "winget" /\ Reports(u, "other"))
  /\ UNCHANGED <<token, task, install, stamp, product, lost, held, crossed, overtaken>>

\* StoreAttempt::start, marked before the write is tried.
Stamps(u, pc, refused, after) ==
  IF u \in Unnamed /\ ~cli[u].stamped
    THEN \/ /\ stamp' = u /\ NoFault
            /\ cli' = [cli EXCEPT ![u].stamped = TRUE, ![u].pc = pc]
         \/ /\ Fault /\ UNCHANGED stamp
            /\ cli' = [cli EXCEPT ![u].stamped = TRUE, ![u].pc = refused, ![u].after = after]
    ELSE Goes(u, pc) /\ NoFault /\ UNCHANGED stamp

Stamp(u) ==
  /\ cli[u].pc = "stamp"
  /\ Stamps(u, "lease", "release", "unstamp")
  /\ UNCHANGED <<token, task, install, product, lost, held, crossed, overtaken>>

\* The preflight of route 1 and of route 2, and what it may find.
Preflight(u) ==
  /\ cli[u].pc = "install"
  /\ \/ Stamps(u, "call", "endtask", "unstamp")
     \/ /\ \/ Backs(u, "endtask", "unstamp")
           \/ Route(u) = "store" /\ Backs(u, "endtask", "report")
           \/ /\ Route(u) = "appinstall" /\ \E t \in Task : install[t] = "live"
              /\ Reports(u, "queued")
        /\ NoFault /\ UNCHANGED stamp
  /\ UNCHANGED <<token, task, install, product, lost, held, crossed, overtaken>>

Call(u) ==
  /\ cli[u].pc = "call"
  /\ \/ Backs(u, "endtask", "unstamp") /\ UNCHANGED install
     \/ Goes(u, "watch") /\ install' = [install EXCEPT ![Mine(u)] = "live"]
  /\ UNCHANGED <<token, task, stamp, product, observers>>

\* The operation, as the foreground wait sees it end.
Over(t) == install' = [install EXCEPT ![t] = "over"]
\* For a mutant: an unknown outcome takes the stamp back.
WatchUndoes(u) ==
  /\ cli[u].pc = "watch"
  /\ \/ Reports(u, "queued") /\ NoFault /\ UNCHANGED install
     \/ Backs(u, "endtask", "unstamp") /\ Fault /\ UNCHANGED install
  /\ UNCHANGED <<token, task, stamp, product, lost, held, crossed, overtaken>>
Watch(u) ==
  /\ cli[u].pc = "watch"
  /\ \/ Reports(u, "queued") /\ NoFault /\ UNCHANGED install
     \/ Reports(u, "ok") /\ NoFault /\ Over(Mine(u))
     \/ Reports(u, "other") /\ NoFault /\ UNCHANGED install
     \/ Backs(u, "endtask", "report") /\ NoFault /\ Over(Mine(u))
     \/ Backs(u, "endtask", "report") /\ Fault /\ UNCHANGED install
  /\ UNCHANGED <<token, task, stamp, product, lost, held, crossed, overtaken>>

\* Watchdog::cancel: the task, then the token.
EndTask(u) ==
  /\ cli[u].pc = "endtask"
  /\ task' = [task EXCEPT ![Mine(u)] = NoTask]
  /\ Goes(u, "release")
  /\ UNCHANGED <<token, install, stamp, product, observers>>

\* StoreAttempt::cancel, and on to the next rung.
Unstamp(u) ==
  /\ cli[u].pc = "unstamp"
  /\ IF cli[u].stamped
       THEN \/ /\ stamp' = cli[u].previous /\ crossed' = (crossed \/ \E v \in Updater \ {u} : cli[v].stamped)
               /\ cli' = [cli EXCEPT ![u] = Enters(u, @.rung + 1, [@ EXCEPT !.stamped = FALSE])]
               /\ NoFault
            \/ Fault /\ Reports(u, "other") /\ UNCHANGED <<stamp, crossed>>
       ELSE Declines(u) /\ NoFault /\ UNCHANGED <<stamp, crossed>>
  /\ UNCHANGED <<token, task, install, product, lost, held, overtaken>>

\* The window restores the broker it closed, unless an install owns it now.
Report(u) ==
  /\ cli[u].pc = "report"
  /\ Goes(u, "done")
  /\ product' = [product EXCEPT !.up = @ \/ (u \in FromWindow /\ cli[u].code # "ok"
                                             /\ cli[u].resident)]
  /\ UNCHANGED <<token, task, install, stamp, observers>>

\* The caller's ceiling kills the child, between or inside its calls.
Kill(u) ==
  /\ cli[u].pc \notin {"start", "report", "done"} /\ Fault
  /\ Reports(u, "other")
  /\ \/ UNCHANGED <<token, task, install>>
     \/ /\ cli[u].pc = "acquire" /\ \A k \in token : Reclaimable(k)
        /\ token' = {[owner |-> Nobody, pending |-> FALSE, age |-> 0]}
        /\ UNCHANGED <<task, install>>
     \/ cli[u].pc = "create" /\ Registered(Mine(u)) /\ UNCHANGED <<token, install>>
     \/ cli[u].pc = "run" /\ Starts(Mine(u)) /\ UNCHANGED token
     \/ /\ cli[u].pc = "call" /\ install' = [install EXCEPT ![Mine(u)] = "live"]
        /\ UNCHANGED <<token, task>>
  /\ UNCHANGED <<stamp, product, lost, held, crossed, overtaken>>

-----------------------------------------------------------------------------
(* The scheduled task and its script.                                       *)

At(t, at) == task' = [task EXCEPT ![t].at = at]

Trigger(t) ==
  /\ task[t].at = "waiting"
  /\ Begins(t)
  /\ UNCHANGED <<token, cli, stamp, product, observers>>

\* The helper gives up at its ceiling, with the install still queued or not.
LeadEnds(t) ==
  /\ task[t].at = "lead"
  /\ At(t, IF t[1] \in Quiet THEN "delete" ELSE "poll")
  /\ Over(t) \/ UNCHANGED install
  /\ UNCHANGED <<token, cli, stamp, product, observers>>

Ready(t) == product.version > task[t].base
\* For a mutant: only a newer version brings the broker back.
RelaunchNewer(t) ==
  /\ task[t].at = "poll" /\ (Ready(t) \/ task[t].polled = Poll)
  /\ At(t, "delete")
  /\ product' = [product EXCEPT !.up = @ \/ Ready(t)]
  /\ UNCHANGED <<token, cli, install, stamp, observers>>
Relaunch(t) ==
  /\ task[t].at = "poll" /\ (Ready(t) \/ task[t].polled = Poll)
  /\ At(t, "delete")
  /\ product' = [product EXCEPT !.up = TRUE]
  /\ UNCHANGED <<token, cli, install, stamp, observers>>

DeleteSelf(t) ==
  /\ task[t].at = "delete"
  /\ task' = [task EXCEPT ![t].at = "findstr", ![t].registered = FALSE]
  /\ UNCHANGED <<token, cli, install, stamp, product, observers>>

\* findstr, and then del, of the file of that name: no mutex.
Findstr(t) ==
  /\ task[t].at = "findstr"
  /\ IF Owns(t) THEN At(t, "del") ELSE task' = [task EXCEPT ![t] = NoTask]
  /\ UNCHANGED <<token, cli, install, stamp, product, observers>>

Del(t) ==
  /\ task[t].at = "del"
  /\ lost' = (lost \/ \E k \in token : k.owner # t)
  /\ token' = {} /\ task' = [task EXCEPT ![t] = NoTask]
  /\ UNCHANGED <<cli, install, stamp, product, held, crossed, overtaken, faults>>

-----------------------------------------------------------------------------
(* The installer, the clock, and the sweep of leftovers.                    *)

\* Deployment closes every process of the package.
ForceClose(t) ==
  /\ install[t] = "live"
  /\ install' = [install EXCEPT ![t] = "closing"]
  /\ product' = [product EXCEPT !.up = FALSE]
  /\ cli' = [u \in Updater |-> IF cli[u].pc = "start" THEN cli[u]
                                ELSE [cli[u] EXCEPT !.pc = "done"]]
  /\ UNCHANGED <<token, task, stamp, observers>>

Land(t) ==
  /\ install[t] = "closing"
  /\ Over(t)
  /\ \/ /\ product' = [product EXCEPT !.version = @ + 1]
        /\ overtaken' = (overtaken \/ \E u \in Updater : cli[u].pc \notin {"start", "done"})
     \/ UNCHANGED <<product, overtaken>>
  /\ UNCHANGED <<token, task, cli, stamp, lost, held, crossed, faults>>

\* For a mutant: an age without end.
Ageing(n) == n + 1
Older(n) == IF n = Old THEN Old ELSE n + 1
Aged(r) ==
  LET s == [r EXCEPT !.age = Older(@)]
  IN IF r.at = "none" THEN r
     ELSE IF r.at \notin {"lead", "poll"} THEN s
     ELSE IF r.ran = Limit THEN [s EXCEPT !.at = "dead"]
     ELSE IF r.at = "lead" THEN [s EXCEPT !.ran = @ + 1]
     ELSE [s EXCEPT !.ran = @ + 1, !.polled = @ + 1]

\* What takes seconds or minutes is over before the quarter is.
Settled ==
  /\ \A u \in Updater : cli[u].pc \in {"start", "done"}
  /\ \A t \in Task : /\ task[t].at \notin {"waiting", "delete", "findstr", "del"}
                     /\ task[t].at = "lead" => (task[t].ran < LeadTicks \/ task[t].ran = Limit)
                     /\ task[t].at = "poll" => ~Ready(t) /\ task[t].polled < Poll

Tick ==
  /\ Settled
  /\ task' = [t \in Task |-> Aged(task[t])]
  /\ token' = {[k EXCEPT !.age = Older(@)] : k \in token}
  /\ UNCHANGED <<cli, install, stamp, product, observers>>

\* Hours pass over a waiting task: StartWhenAvailable starts it afterwards.
HoldBack ==
  /\ Fault /\ held' = TRUE
  /\ task' = [t \in Task |-> IF task[t].at = "none" THEN task[t] ELSE [task[t] EXCEPT !.age = Old]]
  /\ token' = {[k EXCEPT !.age = Old] : k \in token}
  /\ UNCHANGED <<cli, install, stamp, product, lost, crossed, overtaken>>

\* gc::collect: the tasks past 70 minutes, then the token.
\* For a mutant: off by one.
StaleLater(t) == task[t].registered /\ task[t].age > Old
Stale(t) == task[t].registered /\ task[t].age = Old
Gc ==
  /\ task' = [t \in Task |-> IF Stale(t) THEN NoTask ELSE task[t]]
  /\ \/ /\ token' = {k \in token : ~Reclaimable(k) /\ ~(~k.pending /\ k.owner \in Task /\ Stale(k.owner))}
        /\ NoFault
     \/ Fault /\ UNCHANGED token
  /\ UNCHANGED <<cli, install, stamp, product, lost, held, crossed, overtaken>>

-----------------------------------------------------------------------------
Init ==
  /\ token = {} /\ task = [t \in Task |-> NoTask] /\ install = [t \in Task |-> "none"]
  /\ cli = [u \in Updater |-> [pc |-> "start", rung |-> 1, stamped |-> FALSE,
                               previous |-> NoStamp, after |-> "report", code |-> "other",
                               resident |-> FALSE]]
  /\ stamp = NoStamp /\ product = [up |-> TRUE, version |-> 0]
  /\ lost = FALSE /\ held = FALSE /\ crossed = FALSE /\ overtaken = FALSE
  /\ faults = 0

Step(u) ==
  \/ Acquire(u) \/ Release(u) \/ Lease(u) \/ Create(u) \/ Unlease(u) \/ Settle(u)
  \/ RunLease(u) \/ Run(u) \/ RunSettle(u) \/ Stamp(u) \/ Preflight(u) \/ Call(u)
  \/ Watch(u) \/ EndTask(u) \/ Unstamp(u) \/ Report(u)
Script(t) ==
  Trigger(t) \/ LeadEnds(t) \/ Relaunch(t) \/ DeleteSelf(t) \/ Findstr(t) \/ Del(t)
Next ==
  \/ \E u \in Updater : Start(u) \/ Step(u) \/ Unavailable(u) \/ Kill(u)
  \/ \E t \in Task : Script(t) \/ ForceClose(t) \/ Land(t)
  \/ Tick \/ HoldBack \/ Gc

\* Calls return, the scheduler starts what is due, scripts run on, and a
\* broker or a window keeps checking for updates.
Fairness ==
  /\ \A u \in Updater : WF_vars(Step(u))
  /\ \A t \in Task : WF_vars(Script(t))
  /\ WF_vars(Tick) /\ WF_vars(Gc)
Spec == Init /\ [][Next]_vars /\ Fairness

-----------------------------------------------------------------------------
\* The type invariant; the lock file holds at most one token.
TypeOK ==
  /\ token \in SUBSET TokenType /\ Cardinality(token) <= 1
  /\ task \in [Task -> TaskType] /\ cli \in [Updater -> CliType]
  /\ install \in [Task -> {"none", "live", "closing", "over"}]
  /\ stamp \in Updater \cup {NoStamp}
  /\ product \in [up : BOOLEAN, version : 0..Cardinality(Task)]
  /\ lost \in BOOLEAN /\ held \in BOOLEAN /\ crossed \in BOOLEAN
  /\ overtaken \in BOOLEAN /\ faults \in 0..MaxFaults

\* The attempts that may install now: an updater between its lease and the
\* end of its wait, a task whose installing command has not ended.
Licensed(t) ==
  IF t[2] \in InProcess
    THEN t[1] \notin Quiet /\ cli[t[1]].pc \in {"install", "call", "watch"} /\ Mine(t[1]) = t
    ELSE task[t].at \in {"waiting", "lead"}

\* At most one attempt may install at a time, whatever calls fail and whoever
\* is killed: the token, its lease and the task's existence together exclude
\* the others (relaunch.rs, AttemptLock).  Excused: a script that deleted
\* another attempt's token, a task the scheduler held back for hours, and an
\* updater beside which an older install landed: its script sees the newer
\* version and lets the token go.
Exclusive == Cardinality({t \in Task : Licensed(t)}) <= 1 \/ lost \/ held \/ overtaken

\* No lock and no task outlives its attempt for ever: after any failure the
\* scripts, the reclaim and the sweep (gc.rs) leave nothing behind.
LeftoversGo == <>[](token = {} /\ \A t \in Task : ~task[t].registered)

\* A task whose script will bring the broker back once its updater is gone.
Covers(t) == /\ task[t].at \in {"waiting", "lead", "poll"} /\ t[1] \notin Quiet
             /\ cli[t[1]].pc = "done"

\* A broker that an install closed comes back, landed or not, when a task was
\* left to do it and lives to its end (relaunch.rs, watchdog_powershell).
ProductReturns ==
  (~product.up /\ \E t \in Task : Covers(t))
    ~> (product.up \/ held \/ \E t \in Task : task[t].at = "dead")

\* An install of an offer the Store did not name, that may still land.
Uncertain(t) == t[1] \in Unnamed /\ install[t] \in {"live", "closing"}

\* While such an install may land its stamp is kept, so that the back-off
\* holds the next attempt away (mod.rs, StoreAttempt).  Excused: two updaters
\* whose stamps crossed.
StampKept == (\E t \in Task : Uncertain(t)) => stamp # NoStamp \/ crossed

\* A script deletes no token but its own: the comment in
\* build_script_for_task says so of findstr.
ScriptReleasesOwn == ~lost

\* The same without the excuse: the comment in watchdog_powershell promises
\* the broker back "regardless", and the task is registered for that.
ComesBack == (~product.up /\ \E t \in Task : Covers(t)) ~> (product.up \/ held)
=============================================================================
