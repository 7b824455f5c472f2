--------------------------- MODULE MappingPublisher ---------------------------
(***************************************************************************)
(* Each broker publishes its identity's list of distributions to the      *)
(* filter driver (crates/fsw-broker/src/main.rs, publish_filter_mappings   *)
(* and its callers).  A publish runs on the window thread of its broker and *)
(* every system call in it is one step, so the driver can come and go, the *)
(* previous broker's port can still be closing, and availability probes can *)
(* fill the session's share of the port between any two of them.           *)
(***************************************************************************)
EXTENDS FswFilter

CONSTANTS
  Severed,     \* a port handle whose connection the driver has dropped
  NoMapping,   \* None
  MaxProbes,   \* bound: availability probes
  MaxEvents    \* bound: pauses, list changes, kills, driver loads and unloads,
               \* namespace changes and clock ticks

ASSUME PublisherAssumption ==
  /\ Severed \notin Conn \cup {NoConn}
  /\ NoMapping \notin Mapping
  /\ MaxProbes \in Nat /\ MaxEvents \in Nat

VARIABLES
  broker,      \* the broker process of each identity
  registered,  \* the distributions each identity has registered
  shadowed,    \* C:\fwdslash exists or C: is redirected: no safe namespace
  clock,       \* GetTickCount64
  probes, events

vars == <<driver, conns, slots, create, broker, registered, shadowed, clock, probes, events>>
environment == <<registered, shadowed, clock, probes, events>>

-----------------------------------------------------------------------------
NativeUnchecked == NoMapping
Native  == CHOOSE v \in Volume : TRUE     \* the volume of C:

\* idle: between two window messages.  published and attempted are the two
\* caches, want the list being sent, interval the period of the health timer.
PCs == {"idle", "guard", "connect", "ping", "enumerate", "send", "close", "closing"}
Brokers ==
  [up : BOOLEAN, pc : PCs, port : Conn \cup {NoConn, Severed}, paused : BOOLEAN,
   force : BOOLEAN, published : Mapping \cup {NoMapping},
   attempted : Mapping \cup {NoMapping}, want : Mapping \cup {NoMapping},
   interval : {"idle", "connected"}]

Down == [up |-> FALSE, pc |-> "idle", port |-> NoConn, paused |-> FALSE,
         force |-> FALSE, published |-> NoMapping, attempted |-> NoMapping,
         want |-> NoMapping, interval |-> "idle"]

Desired(i) ==
  [volume |-> Native, names |-> IF broker[i].paused THEN {} ELSE registered[i]]

Set(i, b)   == broker' = [broker EXCEPT ![i] = b]
DriverKept  == UNCHANGED <<driver, conns, slots, create>>
Event       == events < MaxEvents /\ events' = events + 1

\* The thread of broker i is at p.
At(i, p) == broker[i].up /\ broker[i].pc = p

-----------------------------------------------------------------------------
(* What starts a publish.                                                   *)

\* main: the timer starts at the idle interval, then a forced publish.
Start(i) ==
  /\ ~broker[i].up /\ Event
  /\ \E paused \in BOOLEAN :
       Set(i, [Down EXCEPT !.up = TRUE, !.pc = "guard", !.paused = paused, !.force = TRUE])
  /\ DriverKept /\ UNCHANGED <<registered, shadowed, clock, probes>>

\* health_tick, and reload_settings when the pause flag did not change.
Tick(i) ==
  /\ At(i, "idle")
  /\ Set(i, [broker[i] EXCEPT !.pc = "guard", !.force = FALSE])
  /\ DriverKept /\ UNCHANGED environment

\* set_paused, and reload_settings when it did.
SetPaused(i) ==
  /\ At(i, "idle") /\ Event
  /\ Set(i, [broker[i] EXCEPT !.pc = "guard", !.force = TRUE, !.paused = ~@])
  /\ DriverKept /\ UNCHANGED <<registered, shadowed, clock, probes>>

-----------------------------------------------------------------------------
(* publish_filter_mappings.                                                 *)

\* disconnect_filter drops the cache before it closes the handle.
KeepCache(b)  == [b EXCEPT !.pc = IF b.port \in Conn THEN "close" ELSE "idle",
                           !.port = IF b.port = Severed THEN NoConn ELSE @]
Disconnect(b) == [KeepCache(b) EXCEPT !.published = NoMapping]

\* guarded_driver_volume.
GuardKeepsPort(i) ==
  /\ At(i, "guard")
  /\ Set(i, [broker[i] EXCEPT !.pc = IF shadowed THEN "idle" ELSE "connect"])
  /\ DriverKept /\ UNCHANGED environment
Guard(i) ==
  /\ At(i, "guard")
  /\ Set(i, IF shadowed THEN [Disconnect(broker[i]) EXCEPT !.interval = "idle"]
            ELSE [broker[i] EXCEPT !.pc = "connect"])
  /\ DriverKept /\ UNCHANGED environment

\* Without a port a forced publish still records the attempt.
Unconnected(i) ==
  [broker[i] EXCEPT !.port = NoConn, !.interval = "idle",
                    !.pc = IF broker[i].force THEN "enumerate" ELSE "idle"]
Connected(i) == [broker[i] EXCEPT !.pc = "enumerate", !.interval = "connected"]

\* ensure_filter_port trusts a handle it already has.
KeepPort(i) ==
  /\ At(i, "connect") /\ broker[i].port # NoConn
  /\ Set(i, Connected(i))
  /\ DriverKept /\ UNCHANGED environment

OpenPort(i) ==
  /\ At(i, "connect") /\ broker[i].port = NoConn
  /\ \E c \in Conn :
       /\ Connect(c, i)
       /\ Set(i, [broker[i] EXCEPT !.pc = "ping", !.port = c])
  /\ UNCHANGED environment

ConnectRefused(i) ==
  /\ At(i, "connect") /\ broker[i].port = NoConn
  /\ driver # "running" \/ ~Admits(SessionOf[i])
  /\ Set(i, Unconnected(i))
  /\ DriverKept /\ UNCHANGED environment

\* verify_filter_protocol.
Ping(i) ==
  /\ At(i, "ping")
  /\ Set(i, IF broker[i].port = Severed THEN Unconnected(i) ELSE Connected(i))
  /\ DriverKept /\ UNCHANGED environment

\* The lists are read and compared with the two caches.
Enumerate(i) ==
  /\ At(i, "enumerate")
  /\ LET same == broker[i].attempted = Desired(i)
         skip == ~broker[i].force /\ same /\ broker[i].published = Desired(i)
     IN Set(i, [broker[i] EXCEPT
                  !.want = Desired(i), !.attempted = Desired(i),
                  !.pc = IF broker[i].port = NoConn \/ skip THEN "idle" ELSE "send"])
  /\ DriverKept /\ UNCHANGED environment

Update(i) == [operation |-> "replace", gen |-> clock,
              volume |-> broker[i].want.volume, names |-> broker[i].want.names]

Send(i) ==
  /\ At(i, "send")
  /\ LET c == broker[i].port IN
     IF c \in Conn /\ Status(c, Update(i)) = "success"
     THEN /\ Message(c, Update(i))
          /\ Set(i, [broker[i] EXCEPT !.pc = "idle", !.published = broker[i].want])
     ELSE DriverKept /\ Set(i, Disconnect(broker[i]))
  /\ UNCHANGED environment

\* CloseHandle returns once the driver's disconnect callback has run.
CloseHandle(i) ==
  /\ At(i, "close")
  /\ IF broker[i].port = Severed
     THEN DriverKept /\ Set(i, [broker[i] EXCEPT !.pc = "idle", !.port = NoConn])
     ELSE Close(broker[i].port) /\ Set(i, [broker[i] EXCEPT !.pc = "closing"])
  /\ UNCHANGED environment

-----------------------------------------------------------------------------
(* The driver's side of the connections, probes and the environment.        *)

\* A driver that goes drops connections whose handles stay open.
DriverClears(c) ==
  /\ DisconnectClear(c)
  /\ broker' = [i \in Identity |->
                  IF broker[i].port = c /\ conns[c].stage = "live"
                  THEN [broker[i] EXCEPT !.port = Severed] ELSE broker[i]]
  /\ UNCHANGED environment

DriverForgets(c) ==
  /\ DisconnectForget(c)
  /\ broker' = [i \in Identity |->
                  IF broker[i].port = c
                  THEN [broker[i] EXCEPT !.port = NoConn, !.pc = "idle"] ELSE broker[i]]
  /\ UNCHANGED environment

\* filter_port_available: connect and close at once.
Probe(i) ==
  /\ probes < MaxProbes /\ probes' = probes + 1
  /\ \E c \in Conn : Connect(c, i)
  /\ UNCHANGED <<broker, registered, shadowed, clock, events>>

ProbeEnds(c) ==
  /\ \A i \in Identity : broker[i].port # c
  /\ Close(c)
  /\ UNCHANGED <<broker, environment>>

\* The process dies or exits: its handle is closed, and another broker may
\* start before the driver has heard of it.
Kill(i) ==
  /\ broker[i].up /\ Event
  /\ IF broker[i].port \in Conn /\ conns[broker[i].port].stage = "live"
     THEN Close(broker[i].port) ELSE DriverKept
  /\ Set(i, Down)
  /\ UNCHANGED <<registered, shadowed, clock, probes>>

Register(i) ==
  /\ Event
  /\ \E names \in SUBSET Name : /\ names # registered[i]
                                /\ registered' = [registered EXCEPT ![i] = names]
  /\ DriverKept /\ UNCHANGED <<broker, shadowed, clock, probes>>

Shadow ==
  /\ Event
  /\ shadowed' = ~shadowed
  /\ DriverKept /\ UNCHANGED <<broker, registered, clock, probes>>

ClockTick ==
  /\ clock < MaxGen /\ clock' = clock + 1
  /\ DriverKept /\ UNCHANGED <<broker, registered, shadowed, probes, events>>

LoadOrUnload ==
  /\ Event
  /\ Load \/ Unload
  /\ UNCHANGED <<broker, registered, shadowed, clock, probes>>

DriverGone == Unloaded /\ UNCHANGED <<broker, environment>>

-----------------------------------------------------------------------------
PublisherInit ==
  /\ driver \in {"stopped", "running"}
  /\ conns = [c \in Conn |-> FreeContext]
  /\ slots = [s \in Slot |-> EmptySlot]
  /\ create = [pc |-> "done", query |-> NoQuery, answer |-> "native"]
  /\ broker = [i \in Identity |-> [Down EXCEPT !.up = TRUE, !.pc = "guard", !.force = TRUE]]
  /\ registered = [i \in Identity |-> Name]
  /\ shadowed = FALSE
  /\ clock = 0 /\ probes = 0 /\ events = 0

\* What the window thread does once it has started a publish.
Publish(i) ==
  Guard(i) \/ KeepPort(i) \/ OpenPort(i) \/ ConnectRefused(i) \/ Ping(i)
  \/ Enumerate(i) \/ Send(i) \/ CloseHandle(i)

PublisherNext ==
  \/ \E i \in Identity : Start(i) \/ Tick(i) \/ SetPaused(i) \/ Publish(i)
                         \/ Probe(i) \/ Kill(i) \/ Register(i)
  \/ \E c \in Conn : DriverClears(c) \/ DriverForgets(c) \/ ProbeEnds(c)
  \/ Shadow \/ ClockTick \/ LoadOrUnload \/ DriverGone

\* A running window thread is scheduled and its timer fires; the system runs
\* the driver's disconnects and its unload to their end; a probe closes.
Fairness ==
  /\ \A i \in Identity : WF_vars(Tick(i)) /\ WF_vars(Publish(i))
  /\ \A c \in Conn : /\ WF_vars(DriverClears(c)) /\ WF_vars(DriverForgets(c))
                     /\ WF_vars(ProbeEnds(c))
  /\ WF_vars(DriverGone)

PublisherSpec == PublisherInit /\ [][PublisherNext]_vars /\ Fairness

-----------------------------------------------------------------------------
(* Properties.                                                              *)

PublisherTypeOK ==
  /\ broker \in [Identity -> Brokers]
  /\ conns \in [Conn -> Contexts]
  /\ slots \in [Slot -> Slots]
  /\ clock \in 0..MaxGen /\ probes \in 0..MaxProbes /\ events \in 0..MaxEvents

\* What the cache says was accepted is what the driver holds for this port, so
\* skipping an unchanged list loses nothing (publish_filter_mappings).
CacheCoherent ==
  \A i \in Identity :
    broker[i].port \in Conn /\ broker[i].published # NoMapping
      => \E s \in OwnSlot(broker[i].port) : slots[s].map = broker[i].published

\* Between two window messages a paused broker redirects nothing: whatever the
\* driver still lists for its identity belongs to a port that is being closed.
PausedIsInert ==
  \A i \in Identity : At(i, "idle") /\ broker[i].paused =>
    \A s \in Occupied :
      slots[s].id = i /\ slots[s].map.names # {} => conns[slots[s].owner].stage = "closed"

\* The owner of a slot is never refused: its generations do not go backwards,
\* not even when two lists go out in one clock tick (FswPortMessage).
OwnerNeverRefused ==
  \A i \in Identity :
    At(i, "send") /\ broker[i].port \in Conn /\ OwnSlot(broker[i].port) # {}
      => Status(broker[i].port, Update(i)) = "success"

\* Between any two messages the broker's cache, its pause and its generations are
\* in step with the driver: no list is skipped, left behind or refused wrongly,
\* however ports die and brokers of one identity replace each other.
PublicationSound == CacheCoherent /\ PausedIsInert /\ OwnerNeverRefused

Listed(i) == {s \in Occupied : slots[s].id = i}

\* Once nothing changes any more the driver holds the current list of every
\* running broker, whatever was refused, killed or probed on the way; a broker
\* left with a stale handle is excepted.
DriverFollows ==
  <>[](\A i \in Identity :
         broker[i].up /\ driver = "running" /\ ~shadowed /\ broker[i].port # Severed
           => \E s \in Listed(i) : slots[s].map = Desired(i))

\* A namespace that became unsafe does not stay active after a later tick.
ShadowWithdraws ==
  <>[](\A i \in Identity : broker[i].up /\ shadowed => Listed(i) = {})

\* The health timer ticks every 5 s only while a driver actually answers on the
\* filter port, and every 60 s otherwise (docs/divergences.md).
IntervalFollowsDriver ==
  <>[](\A i \in Identity :
         broker[i].up /\ driver = "stopped" => broker[i].interval = "idle")

===============================================================================
