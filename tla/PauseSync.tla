------------------------------ MODULE PauseSync -------------------------------
(***************************************************************************)
(* The pause flag and everybody who keeps a copy of it: the registry value *)
(* Disabled in two hives (crates/fsw-core/src/settings_write.rs), PAUSED in *)
(* the broker with its persist thread (crates/fsw-broker/src/main.rs), the *)
(* pause and resume verbs of the CLI (crates/fsw-cli/src/main.rs), and the  *)
(* self-heal that mirrors one hive into the other.                          *)
(***************************************************************************)
EXTENDS Naturals, Sequences

CONSTANTS
  Cli,        \* processes running fwdslash pause or resume
  Broker,     \* the broker's persist thread, as a writer
  Packaged,   \* the writers with package identity
  NoValue,    \* a value the registry does not hold
  MaxEvents   \* bound: commands, toggles, mirrors, foreign writes,
              \* failures, kills, broker starts and exits

Writer == Cli \cup {Broker}

ASSUME PauseAssumption ==
  /\ Broker \notin Cli /\ Packaged \subseteq Writer
  /\ NoValue \notin BOOLEAN /\ MaxEvents \in Nat

VARIABLES
  real, package,  \* Disabled in the user's hive, and in the package's own
  writer,      \* every process in the middle of persist_disabled
  broker,      \* the broker's window thread and what it shares
  mirror,      \* a process in sync_settings_to_real_hive
  \* Observers.
  excused,     \* the broker could not have heard of the last change
  foreign,     \* somebody else wrote, or a write failed, since set_paused
  split,       \* the hives have a reason to differ
  events

hives == <<real, package>>
observers == <<excused, foreign, split>>
vars  == <<hives, writer, broker, mirror, observers, events>>

-----------------------------------------------------------------------------
Value == BOOLEAN \cup {NoValue}

\* A packaged process sees its own hive over the user's; absent is FALSE.
Merged(w)   == IF w \in Packaged /\ package # NoValue THEN package ELSE real
Disabled(w) == Merged(w) = TRUE

\* A posted broadcast is TRUE when it tells of a write by somebody else.
Idle  == [pc |-> "idle", value |-> FALSE, ok |-> TRUE, alone |-> TRUE]
WriterType ==
  [pc : {"idle", "real", "package", "announce", "count", "find", "send", "report"},
   value : BOOLEAN, ok : BOOLEAN, alone : BOOLEAN]
BrokerType ==
  [pc : {"down", "load", "pump"}, paused : BOOLEAN, inFlight : 0..MaxEvents,
   queue : Seq(BOOLEAN), inbox : Seq(BOOLEAN)]
Down == [pc |-> "down", paused |-> FALSE, inFlight |-> 0, queue |-> <<>>, inbox |-> <<>>]

Event == events < MaxEvents /\ events' = events + 1
WindowExists == broker.pc # "down"
Steps(w, pc) == writer' = [writer EXCEPT ![w].pc = pc]

-----------------------------------------------------------------------------
(* persist_disabled: set_setting_u32, then the broadcast.                   *)

After(w) == IF w = Broker THEN "count" ELSE "idle"

\* What a write that fails, or a writer that dies, leaves to be explained.
Faulty == excused' = TRUE /\ foreign' = TRUE /\ split' = TRUE

\* A write to a hive falls between the two writes of everybody else.
Intruded == [x \in Writer |-> [writer[x] EXCEPT !.alone = @ /\ writer[x].pc # "package"]]
Intrudes(w, pc) ==
  /\ writer' = [Intruded EXCEPT ![w] = [writer[w] EXCEPT !.pc = pc]]
  /\ mirror' = [mirror EXCEPT !.alone = FALSE]

Wrote(w) ==
  /\ foreign' = (foreign \/ w # Broker)
  /\ excused' = (excused \/ ~writer[w].ok)

WriteReal(w) ==
  /\ writer[w].pc = "real"
  /\ \/ /\ real' = writer[w].value
        /\ Intrudes(w, IF w \in Packaged THEN "package" ELSE "announce")
        /\ Wrote(w) /\ split' = (split \/ w \notin Packaged)
        /\ UNCHANGED events
     \/ /\ Event /\ Faulty
        /\ writer' = [writer EXCEPT ![w].ok = FALSE,
                        ![w].pc = IF w \in Packaged THEN "package" ELSE After(w)]
        /\ UNCHANGED <<real, mirror>>
  /\ UNCHANGED <<package, broker>>

\* Both halves are attempted whatever the first one did.
WritePackage(w) ==
  /\ writer[w].pc = "package"
  /\ \/ /\ package' = writer[w].value
        /\ Intrudes(w, IF writer[w].ok THEN "announce" ELSE After(w))
        /\ Wrote(w) /\ split' = ~(writer[w].ok /\ writer[w].alone)
        /\ UNCHANGED events
     \/ /\ Event /\ Faulty
        /\ writer' = [writer EXCEPT ![w].ok = FALSE, ![w].pc = After(w)]
        /\ UNCHANGED <<package, mirror>>
  /\ UNCHANGED <<real, broker>>

\* broadcast_state_changed: posted to every top-level window there is.
Broadcast(tells) ==
  broker' = IF WindowExists THEN [broker EXCEPT !.inbox = Append(@, tells)] ELSE broker

Announce(w) ==
  /\ writer[w].pc = "announce"
  /\ Steps(w, IF w = Broker THEN "count" ELSE "find")
  /\ Broadcast(w # Broker)
  /\ UNCHANGED <<hives, mirror, observers, events>>

-----------------------------------------------------------------------------
(* The broker.                                                              *)

\* request_persist_disabled: the counter, then the queue of the one thread.
QueuedFirst(b, v) == [b EXCEPT !.paused = v, !.inFlight = @ + 1, !.queue = <<v>> \o @]
Queued(b, v) == [b EXCEPT !.paused = v, !.inFlight = @ + 1, !.queue = Append(@, v)]

\* The thread cannot be started: the pause is in force and nothing stores it.
SetPaused(v) ==
  /\ broker.pc = "pump"
  /\ \/ broker' = Queued(broker, v) /\ excused' = FALSE /\ foreign' = FALSE
     \/ broker' = [broker EXCEPT !.paused = v] /\ excused' = TRUE /\ foreign' = TRUE
  /\ UNCHANGED <<hives, mirror, split>>

\* MENU_PAUSE.
Toggle ==
  /\ Event
  /\ SetPaused(~broker.paused)
  /\ UNCHANGED writer

\* drain_persist_queue.
Persist ==
  /\ writer[Broker].pc = "idle" /\ broker.queue # <<>>
  /\ writer' = [writer EXCEPT ![Broker] =
                  [Idle EXCEPT !.pc = "real", !.value = Head(broker.queue)]]
  /\ broker' = [broker EXCEPT !.queue = Tail(@)]
  /\ UNCHANGED <<hives, mirror, observers, events>>

CountedAgain(n) == IF writer[Broker].ok THEN n - 1 ELSE n - 2
CountedOut(n) == 0
Counted(n) == n - 1
Count ==
  /\ writer[Broker].pc = "count"
  /\ Steps(Broker, "idle")
  /\ broker' = [broker EXCEPT !.inFlight = Counted(@)]
  /\ UNCHANGED <<hives, mirror, observers, events>>

\* reload_settings.
Reload ==
  /\ broker.pc = "pump" /\ broker.inbox # <<>>
  /\ LET rest == [broker EXCEPT !.inbox = Tail(@)]
     IN IF broker.inFlight # 0
        THEN broker' = rest /\ excused' = (excused \/ Head(broker.inbox))
        ELSE broker' = [rest EXCEPT !.paused = Disabled(Broker)] /\ UNCHANGED excused
  /\ UNCHANGED <<hives, writer, mirror, foreign, split, events>>

\* main: the window first, then the stored value, then the message pump.
CreateWindow ==
  /\ broker.pc = "down" /\ Event
  /\ broker' = [Down EXCEPT !.pc = "load"]
  /\ UNCHANGED <<hives, writer, mirror, observers>>

Load ==
  /\ broker.pc = "load"
  /\ broker' = [broker EXCEPT !.pc = "pump", !.paused = Disabled(Broker)]
  /\ excused' = FALSE /\ foreign' = FALSE
  /\ UNCHANGED <<hives, writer, mirror, split, events>>

\* The persist thread dies with the process.
Exit ==
  /\ broker.pc = "pump" /\ Event
  /\ broker' = Down
  /\ writer' = [writer EXCEPT ![Broker] = Idle]
  /\ split' = (split \/ writer[Broker].pc = "package")
  /\ UNCHANGED <<hives, mirror, excused, foreign>>

-----------------------------------------------------------------------------
(* The CLI's set_paused.                                                    *)

Command(c, v) ==
  /\ writer[c].pc = "idle" /\ Event
  /\ writer' = [writer EXCEPT ![c] = [Idle EXCEPT !.pc = "real", !.value = v]]
  /\ UNCHANGED <<hives, broker, mirror, observers>>

Find(c) ==
  /\ writer[c].pc = "find"
  /\ Steps(c, IF WindowExists THEN "send" ELSE "report")
  /\ UNCHANGED <<hives, broker, mirror, observers, events>>

\* FSW_WM_SET_PAUSED is sent, so it overtakes what is posted.
Send(c) ==
  /\ writer[c].pc = "send"
  /\ Steps(c, "report")
  /\ SetPaused(writer[c].value)
  /\ UNCHANGED events

\* A verb that succeeds broadcasts once more.
Report(c) ==
  /\ writer[c].pc = "report"
  /\ Steps(c, "idle")
  /\ Broadcast(FALSE)
  /\ UNCHANGED <<hives, mirror, observers, events>>

\* Any other setting or verb: the message says nothing about what changed.
OtherVerb ==
  /\ Event /\ WindowExists
  /\ Broadcast(FALSE)
  /\ UNCHANGED <<hives, writer, mirror, observers>>

\* The window is gone, hung, or does not answer within two seconds.
Undelivered(c) ==
  /\ writer[c].pc = "send"
  /\ Steps(c, "idle")
  /\ IF broker.pc = "down" THEN UNCHANGED events ELSE Event
  /\ UNCHANGED <<hives, broker, mirror, observers>>

Kill(c) ==
  /\ writer[c].pc # "idle" /\ Event
  /\ Steps(c, "idle")
  /\ IF writer[c].pc \in {"package", "announce"} THEN Faulty ELSE UNCHANGED observers
  /\ UNCHANGED <<hives, broker, mirror>>

\* reg.exe, or a staged fwdslash from before the broadcast: nobody is told.
ForeignWrite(v) ==
  /\ Event /\ real # v
  /\ real' = v
  /\ Faulty
  /\ writer' = Intruded
  /\ mirror' = [mirror EXCEPT !.alone = FALSE]
  /\ UNCHANGED <<package, broker>>

-----------------------------------------------------------------------------
(* sync_settings_to_real_hive, by any packaged process.                     *)

ReadMerged ==
  /\ mirror.pc = "idle" /\ Event
  /\ Broker \in Packaged /\ Merged(Broker) # NoValue
  /\ mirror' = [pc |-> "query", value |-> Merged(Broker), alone |-> TRUE]
  /\ UNCHANGED <<hives, writer, broker, observers>>

\* sync_plan: what is missing or different is written.
Differs(v) == real # v
QueryReal ==
  /\ mirror.pc = "query"
  /\ mirror' = [mirror EXCEPT !.pc = IF Differs(mirror.value) THEN "write" ELSE "idle"]
  /\ split' = (split /\ (Differs(mirror.value) \/ ~mirror.alone))
  /\ UNCHANGED <<hives, writer, broker, excused, foreign, events>>

\* Its write is not announced; it is seen only where it is not shadowed.
MirrorReal ==
  /\ mirror.pc = "write"
  /\ mirror' = [mirror EXCEPT !.pc = "idle"]
  /\ \/ /\ real' = mirror.value
        /\ split' = ~mirror.alone
        /\ writer' = Intruded
        /\ UNCHANGED events
     \/ Event /\ UNCHANGED <<real, writer, split>>
  /\ excused' = (excused \/ package = NoValue)
  /\ foreign' = (foreign \/ package = NoValue)
  /\ UNCHANGED <<package, broker>>

-----------------------------------------------------------------------------
Init ==
  /\ real \in Value /\ package \in Value
  /\ (Broker \notin Packaged => package = NoValue)
  /\ writer = [w \in Writer |-> Idle]
  /\ broker \in {Down, [Down EXCEPT !.pc = "pump", !.paused = Disabled(Broker)]}
  /\ mirror = [pc |-> "idle", value |-> FALSE, alone |-> FALSE]
  /\ excused = FALSE /\ foreign = FALSE
  /\ split = (real # package) /\ events = 0

Writing(w) == WriteReal(w) \/ WritePackage(w) \/ Announce(w)
Running(c) == Writing(c) \/ Find(c) \/ Send(c) \/ Report(c)
Pumping    == Persist \/ Writing(Broker) \/ Count \/ Reload \/ Load
Mirroring  == QueryReal \/ MirrorReal

Next ==
  \/ Pumping \/ Toggle \/ CreateWindow \/ Exit
  \/ \E c \in Cli : Running(c) \/ Undelivered(c) \/ Kill(c)
                    \/ \E v \in BOOLEAN : Command(c, v)
  \/ \E v \in BOOLEAN : ForeignWrite(v)
  \/ OtherVerb \/ ReadMerged \/ Mirroring

Spec == Init /\ [][Next]_vars

-----------------------------------------------------------------------------
(* Properties.                                                              *)

TypeOK ==
  /\ real \in Value /\ package \in Value
  /\ writer \in [Writer -> WriterType]
  /\ broker \in BrokerType
  /\ mirror \in [pc : {"idle", "query", "write"}, value : BOOLEAN, alone : BOOLEAN]
  /\ \A o \in {excused, foreign, split} : o \in BOOLEAN
  /\ events \in 0..MaxEvents

Settled == /\ \A w \in Writer : writer[w].pc = "idle"
           /\ broker.queue = <<>>
           /\ mirror.pc = "idle"

\* When everybody is done the running broker has the stored pause, whatever
\* toggles, commands and restarts overlapped, unless a write failed or was not
\* announced, or its announcement fell into a write of the broker's own and the
\* command never reached it (reload_settings, set_paused).
BrokerFollows ==
  Settled /\ broker.pc = "pump" /\ broker.inbox = <<>> /\ ~excused =>
    broker.paused = Disabled(Broker)

\* The broadcast of the broker's own write never undoes the toggle it came from,
\* nor a later one (PERSIST_IN_FLIGHT).
OwnEchoIgnored ==
  [][broker'.paused # broker.paused /\ Len(broker'.inbox) = Len(broker.inbox) - 1 =>
       foreign \/ broker'.pc = "down"]_vars

\* When everybody is done the two hives agree, unless a write failed, a process
\* without package identity wrote the user's hive alone, or somebody wrote
\* between another's two writes; a pause that the broker stores, and a mirror
\* that nobody disturbs, make up for all of these (settings_write.rs).
HivesAgree ==
  Settled /\ package # NoValue /\ ~split => real = package

\* Commands, toggles, restarts and the mirror, overlapping at every registry write
\* and message, end in one pause: the broker has what is stored, and the two
\* hives store the same.
SettlesOnOnePause == BrokerFollows /\ HivesAgree

===============================================================================
