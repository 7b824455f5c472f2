------------------------------ MODULE FswFilter -------------------------------
(***************************************************************************)
(* The minifilter driver (driver/fswfilter/fswfilter.c): the connections   *)
(* to its port, the mapping slots and the redirection of file opens.  Any  *)
(* process with a medium or higher token may connect and send any message, *)
(* so the clients here are arbitrary.  A section under MappingsLock is one *)
(* step; a disconnect takes the lock twice and so does a file open.        *)
(***************************************************************************)
EXTENDS Naturals, FiniteSets

CONSTANTS
  Session, Identity, \* interactive sessions; token identities
  SessionOf,         \* the session of each identity
  Conn, NoConn,      \* connection contexts the pool hands out; NULL
  Volume, Name,      \* native volume names; first path components
  BadName,           \* a name FswIsValidDistributionName rejects
  MaxSlots,          \* FSW_MAX_INTERACTIVE_SESSIONS
  MaxPerSession,     \* FSW_MAX_CONNECTIONS_PER_SESSION
  MaxGen             \* bound: generations

ASSUME FilterAssumption ==
  /\ SessionOf \in [Identity -> Session] /\ IsFiniteSet(Session)
  /\ NoConn \notin Conn
  /\ BadName \notin Name
  /\ MaxSlots \in Nat \ {0} /\ MaxPerSession \in Nat \ {0} /\ MaxGen \in Nat
  /\ Identity # {} /\ Volume # {} /\ Name # {}

VARIABLES
  driver,      \* "stopped", "running", "unloading"
  conns,       \* each context: its stage and, once connected, its identity
  slots,       \* Globals.Mappings
  create       \* the file open being decided

filterVars == <<driver, conns, slots, create>>

-----------------------------------------------------------------------------
Mapping == [volume : Volume, names : SUBSET Name]
Query   == [id : Identity, volume : Volume, name : Name]

\* A context is live while its client holds the port, then closed, cleared by
\* the first half of FswPortDisconnect, and free again after the second.
ConnStages == {"free", "live", "closed", "cleared"}
Contexts   == [stage : ConnStages, id : Identity]

Slot  == 1..MaxSlots
Slots == [owner : Conn \cup {NoConn}, id : Identity, gen : 0..MaxGen, map : Mapping]

\* RtlZeroMemory: a slot without an owner, whose other fields nothing reads.
EmptySlot   == CHOOSE s \in Slots : s.owner = NoConn
FreeContext == [stage |-> "free", id |-> CHOOSE i \in Identity : TRUE]
NoQuery     == CHOOSE q \in Query : TRUE

\* A clear and a ping may leave their mapping empty.
Messages ==
  [operation : {"replace"}, gen : 0..MaxGen, volume : Volume,
   names : SUBSET (Name \cup {BadName})] \cup
  [operation : {"clear", "ping"}, gen : 0..MaxGen,
   volume : {EmptySlot.map.volume}, names : {{}}]

-----------------------------------------------------------------------------
(* Connections.                                                             *)

\* Every entry of Globals.Connections: from FswRegisterConnection to
\* FswForgetConnection.
Registered       == {c \in Conn : conns[c].stage # "free"}
InSession(s)     == {c \in Registered : SessionOf[conns[c].id] = s}
MaxConnections   == MaxSlots * MaxPerSession
AdmitUncapped(s) == Cardinality(Registered) < MaxConnections
Admits(s) == /\ Cardinality(Registered) < MaxConnections
             /\ Cardinality(InSession(s)) < MaxPerSession

\* FswPortConnect for an eligible process outside session zero.
Connect(c, i) ==
  /\ driver = "running"
  /\ conns[c].stage = "free"
  /\ Admits(SessionOf[i])
  /\ conns' = [conns EXCEPT ![c] = [stage |-> "live", id |-> i]]
  /\ UNCHANGED <<driver, slots, create>>

\* The client closes its handle or dies.
Close(c) ==
  /\ conns[c].stage = "live"
  /\ conns' = [conns EXCEPT ![c].stage = "closed"]
  /\ UNCHANGED <<driver, slots, create>>

\* FswPortDisconnect, because the handle is closed or the driver is going:
\* FswClearMappingsForOwner, then FswForgetConnection and the free.  The
\* filter manager delivers no message of this connection any more.
ClearOwned(c) ==
  [s \in Slot |-> IF slots[s].owner = c THEN EmptySlot ELSE slots[s]]

DisconnectClear(c) ==
  /\ \/ conns[c].stage = "closed"
     \/ conns[c].stage = "live" /\ driver = "unloading"
  /\ slots' = ClearOwned(c)
  /\ conns' = [conns EXCEPT ![c].stage = "cleared"]
  /\ UNCHANGED <<driver, create>>

DisconnectForget(c) ==
  /\ conns[c].stage = "cleared"
  /\ conns' = [conns EXCEPT ![c] = FreeContext]
  /\ UNCHANGED <<driver, slots, create>>

-----------------------------------------------------------------------------
(* FswPortMessage.                                                          *)

Occupied      == {s \in Slot : slots[s].owner # NoConn}
OwnSlot(c)    == {s \in Occupied : slots[s].owner = c}
TwinIgnored(c) == {}
TwinSlot(c)   == {s \in Occupied : slots[s].id = conns[c].id /\ slots[s].owner # c}
FreeSlot      == Slot \ Occupied
\* The slot a replace goes to: its own, or the first free one.
Target(c) == IF OwnSlot(c) # {} THEN OwnSlot(c)
             ELSE {s \in FreeSlot : \A t \in FreeSlot : s <= t}

WellFormedAlways(m) == TRUE
WellFormed(m) == BadName \notin m.names

Stale(m, s) == m.gen < slots[s].gen

\* The status a message is answered with.
Status(c, m) ==
  IF m.operation = "ping" THEN "success"
  ELSE IF ~WellFormed(m) THEN "invalid"
  ELSE IF OwnSlot(c) # {}
  THEN IF \E s \in OwnSlot(c) : Stale(m, s) THEN "revision" ELSE "success"
  ELSE IF TwinSlot(c) # {} THEN "sharing"
  ELSE IF m.operation = "clear" THEN "notFound"
  ELSE IF FreeSlot = {} THEN "resources" ELSE "success"

Written(c, m) ==
  [owner |-> c, id |-> conns[c].id, gen |-> m.gen,
   map |-> [volume |-> m.volume, names |-> m.names]]

Message(c, m) ==
  /\ driver # "stopped"
  /\ conns[c].stage = "live"
  /\ \/ /\ Status(c, m) # "success" \/ m.operation = "ping"
        /\ slots' = slots
     \/ /\ Status(c, m) = "success" /\ m.operation = "clear"
        /\ \E s \in OwnSlot(c) : slots' = [slots EXCEPT ![s] = EmptySlot]
     \/ /\ Status(c, m) = "success" /\ m.operation = "replace"
        /\ \E s \in Target(c) : slots' = [slots EXCEPT ![s] = Written(c, m)]
  /\ UNCHANGED <<driver, conns, create>>

-----------------------------------------------------------------------------
(* FswPreCreate: the name gate first, the caller's identity only after it.  *)

Decided == {"redirect", "native", "failOpen"}
Creates == [pc : {"done", "candidate", "owner"}, query : Query, answer : Decided]

\* FswIsCandidateDistribution: does any occupied slot list the name?
CandidateFirstOnly(q) ==
  \E s \in Occupied : /\ \A t \in Occupied : s <= t
                      /\ q.name \in slots[s].map.names
Candidate(q) == \E s \in Occupied : q.name \in slots[s].map.names

\* FswOwnsDistribution: the first slot of the caller's identity decides.
Owns(q) ==
  \E s \in Occupied :
    /\ slots[s].id = q.id /\ \A t \in Occupied : slots[t].id = q.id => s <= t
    /\ slots[s].map.volume = q.volume
    /\ q.name \in slots[s].map.names

StartCreate(q) ==
  /\ driver # "stopped"
  /\ create.pc = "done"
  /\ create' = [pc |-> "candidate", query |-> q, answer |-> "native"]
  /\ UNCHANGED <<driver, conns, slots>>

Answer(a) ==
  /\ create' = [pc |-> "done", query |-> NoQuery, answer |-> a]
  /\ UNCHANGED <<driver, conns, slots>>

CheckCandidate ==
  /\ create.pc = "candidate"
  /\ IF Candidate(create.query)
     THEN /\ create' = [create EXCEPT !.pc = "owner"]
          /\ UNCHANGED <<driver, conns, slots>>
     ELSE Answer("native")

CheckOwner ==
  /\ create.pc = "owner"
  /\ IF Owns(create.query) THEN Answer("redirect") ELSE Answer("native")

\* A name query, the token query, an allocation or the rewrite fails.
FailOpen == create.pc # "done" /\ Answer("failOpen")

-----------------------------------------------------------------------------
(* DriverEntry zeroes the globals.  FswUnload closes the port, disconnects  *)
(* every client and waits for running callbacks.                            *)

Load ==
  /\ driver = "stopped"
  /\ driver' = "running"
  /\ slots' = [s \in Slot |-> EmptySlot]
  /\ UNCHANGED <<conns, create>>

Unload ==
  /\ driver = "running"
  /\ driver' = "unloading"
  /\ UNCHANGED <<conns, slots, create>>

Unloaded ==
  /\ driver = "unloading"
  /\ Registered = {} /\ create.pc = "done"
  /\ driver' = "stopped"
  /\ UNCHANGED <<conns, slots, create>>

Init ==
  /\ driver = "stopped"
  /\ conns = [c \in Conn |-> FreeContext]
  /\ slots = [s \in Slot |-> EmptySlot]
  /\ create = [pc |-> "done", query |-> NoQuery, answer |-> "native"]

Next ==
  \/ \E c \in Conn : \/ \E i \in Identity : Connect(c, i)
                     \/ \E m \in Messages : Message(c, m)
                     \/ Close(c) \/ DisconnectClear(c) \/ DisconnectForget(c)
  \/ \E q \in Query : StartCreate(q)
  \/ CheckCandidate \/ CheckOwner \/ FailOpen
  \/ Load \/ Unload \/ Unloaded

Spec == Init /\ [][Next]_filterVars

-----------------------------------------------------------------------------
(* Properties.                                                              *)

TypeOK ==
  /\ driver \in {"stopped", "running", "unloading"}
  /\ conns \in [Conn -> Contexts]
  /\ slots \in [Slot -> Slots]
  /\ create \in Creates

\* One slot per active controller: no second connection of an identity gets a
\* slot while the first one's disconnect is pending (FswPortMessage).
OneSlotPerIdentity ==
  \A s, t \in Occupied : slots[s].id = slots[t].id => s = t

\* A slot never outlives its connection: its owner is a registered context that
\* has not been cleared, of the identity the slot names (FswPortDisconnect).
OwnersConnected ==
  \A s \in Occupied : /\ conns[slots[s].owner].stage \in {"live", "closed"}
                      /\ conns[slots[s].owner].id = slots[s].id

\* Whatever brokers of one identity send, and however their disconnects cut in
\* between two lock sections, a mapping has one slot and the slot one living
\* owner: no stale mapping can redirect, and none can be published twice.
SlotsOwned == OneSlotPerIdentity /\ OwnersConnected

\* Idle connections of one session never lock another session out: whoever is
\* below the cap of its session finds a free entry (FswRegisterConnection).
NoSessionLockedOut ==
  Cardinality(Session) <= MaxSlots =>
    \A s \in Session :
      Cardinality(InSession(s)) < MaxPerSession => Cardinality(Registered) < MaxConnections

\* The driver implements the mapping table: slots and pointers are a map by
\* identity, and the two separately locked looks of FswPreCreate are one.
EntryOf(i) ==
  IF \E s \in Occupied : slots[s].id = i
  THEN LET s == CHOOSE s \in Occupied : slots[s].id = i
       IN [owner |-> slots[s].owner, map |-> slots[s].map]
  ELSE [owner |-> NoConn, map |-> EmptySlot.map]

Table == INSTANCE MappingTable WITH
  table    <- [i \in Identity |-> EntryOf(i)],
  query    <- create.query,
  answer   <- IF create.pc = "done" THEN create.answer ELSE "pending",
  Unmapped <- [owner |-> NoConn, map |-> EmptySlot.map]

ImplementsTable == Table!Spec

===============================================================================
